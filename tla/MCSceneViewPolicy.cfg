SPECIFICATION Spec
CHECK_DEADLOCK FALSE
CONSTANTS
    rock = rock
    glass = glass
    film = film
    ripple = ripple
    tint = tint
    faulty = faulty
    texture = texture
    small = small
    large = large
    Standard = Standard
    Absent = Absent
    Idle = Idle
    Modules = {ripple, tint, faulty}
    ReadsScreen = {ripple}
    Broken = {faulty}
    Meshes = {rock}
    Materials = {glass, film}
    Kinds <- MCKinds
    Imported <- MCImported
    Lists <- MCLists
    Feeds = {texture}
    Sizes = {small, large}
    MaxEdits = 2
    MaxResizes = 2
SYMMETRY Symmetry
INVARIANT
    ExcludedWritesDepth
