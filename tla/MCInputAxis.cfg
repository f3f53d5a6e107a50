SPECIFICATION InputSpec
CONSTANTS
    w = w
    space = space
    left = left
    unknown = unknown
    jump = jump
    walk = walk
    pick = pick
    Keys = {w, space}
    Buttons = {left}
    Unknown = unknown
    Actions = {jump, walk, pick}
    ContextKinds <- Kinds
    MaxHandles = 2
INVARIANT
    AxisRespectsConsumption
