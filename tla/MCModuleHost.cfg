\* Two module files, two writes by the build, two forced loads or reloads and
\* one kill, on either platform, with one removal refused.
SPECIFICATION FairSpec
CONSTANTS
    Paths = {game, tools}
    Services = {none, live}
    NoServices = none
    MaxWrites = 2
    MaxForced = 2
    MaxLive = 2
    MaxCopies = 3
    MaxRefusals = 1
    MaxCrashes = 1
INVARIANTS
    ImagesAccounted
    LeftoversSwept
PROPERTIES
    EntryPointsAreSafe
    HotSwapSpec
    NewestIsTried
    PollingSettles
