SPECIFICATION Spec
CONSTANTS
    NoFile = NoFile
    Unreadable = Unreadable
    Embedded = Embedded
    Pixels = Pixels
    Authored = Authored
    NoGuid = NoGuid
    model = model
    picture = picture
    Model = model
    Pictures = {picture}
    Exports <- MCExports
    MaxGuids = 12
    MaxFaults = 1
    MaxEdits = 2
INVARIANTS
    SidecarsAgree
    IdentitiesHold
PROPERTIES
    ExtractOnce
    RegistryPermanent
