SPECIFICATION FairSpec
CONSTANTS
    c1 = c1
    c2 = c2
    h1 = h1
    None = None
    Corr = {c1, c2}
    Hdr = {h1}
    Inputs <- MCInputs
    MaxInFlight = 1
    MaxBody = 2
    MaxClock = 1
    OutCap = 1
    Chunks = {0, 1}
INVARIANTS
    DoneNeverBlocks
    AssemblyXorJob
    ReplyAccounting
    LateStartNeverOk
PROPERTIES
    CancelSticks
    ShutdownEnds
    AcceptedIsAnswered
CHECK_DEADLOCK FALSE
