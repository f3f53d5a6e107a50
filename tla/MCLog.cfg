SPECIFICATION FairSpec
CONSTANTS
    Threads = {first, second, third}
    Names = {"render"}
    Unknown = "?"
    Levels = {1, 2}
    Info = 1
    Panels = {panelA}
    Console = theConsole
    Files = {aFile, bFile}
    Nobody = Nobody
    MaxCalls = 4
INVARIANTS
    OneChannelPerName
    CalledSinksLive
PROPERTIES
    DeliveredOnce
    CallsReturn
