SPECIFICATION Spec
CONSTANTS
    Core <- MCCore
    Gameplay = "Spin"
    Builds <- MCBuilds
    Intrinsic = {"Transform"}
    Excluded = {"Hierarchy"}
    Documents <- MCDocuments
    Authored = 9
    Values <- MCValues
    Names = {"new"}
    NoType = NoType
    Forgotten = Forgotten
    Nobody = 0
    Malformed = Malformed
    NoCook = NoCook
    Torn = Torn
    MaxGuids = 10
    Held <- MCHeld
    Construct <- MCConstruct
    WriteProperties <- MCWriteProperties
    ReadProperties <- MCReadProperties
    CookProperties <- MCCookProperties
    ReadCookedProperties <- MCReadCookedProperties
    MaxEdits = 3
INVARIANT
    CacheIsDerived
