\* Two module files, two writes by the build, two forced loads or reloads and
\* one kill, on either platform.
SPECIFICATION Spec
CONSTANTS
    Paths = {game, tools}
    Services = {none, live}
    NoServices = none
    MaxWrites = 2
    MaxForced = 2
    MaxLive = 2
    MaxCopies = 8
    MaxRefusals = 0
    MaxCrashes = 1
INVARIANT
    NoChangeMissed
