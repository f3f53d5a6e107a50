SPECIFICATION Spec
CONSTANTS
    standard = standard
    custom = custom
    lost = lost
    old = old
    new = new
    good = good
    broken = broken
    NoFile = NoFile
    Torn = Torn
    Undecided = Undecided
    Idle = Idle
    Programs = {standard, custom, lost}
    Authored = {custom}
    Missing = {lost}
    Texts = {good, broken}
    Broken = {broken}
    Builds = {old, new}
    CompilerOf <- MCCompilerOf
    Machines <- MCMachines
    Archives = {1}
    MaxLaunches = 2
    MaxEdits = 1
    MaxCooks = 2
SYMMETRY Symmetry
VIEW WithoutServed
INVARIANTS
    HashCoversWhatCompilerSaw
PROPERTIES
    ServedIsCurrent
    PromiseKept
CHECK_DEADLOCK FALSE
