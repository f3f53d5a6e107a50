SPECIFICATION FairSpec
CONSTANTS
    fire = fire
    unknown = unknown
    shoot = shoot
    game = game
    tool = tool
    panel = panel
    hud = hud
    Keys = {fire}
    Buttons = {}
    Unknown = unknown
    Actions = {shoot}
    ContextKinds <- Kinds
    MaxHandles = 1
    MaxDelta = 3
    MaxFixedSteps = 2
    RawDeltas = {1, 4}
    Modules <- Both
    Panels = {panel}
    Huds = {hud}
    FixedSteps = {2}
    MaxGen = 2
INVARIANTS
    TypeOK
    StackPartitioned
    LayersGoBeforeWindow
