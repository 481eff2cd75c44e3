SPECIFICATION FairSpec
CONSTANTS
    Requests = {r1, r2, g, big}
    NoRequest = NoRequest
    Oversize = {big}
    Growing = {g}
    Hellos <- MCHellos
    PROTOCOL_VERSION = 1
    VERSION = "2.0.0"
    DEV_VERSION = "dev"
    DebugBuild = FALSE
    IdSpace = 3
    PipeCap = 1
    Workers = 2
    ChanCap = 1
INVARIANTS
    OwnReply
    OneFailure
    ShutdownAnswersFirst
    NoFalseCrash
    NothingLeftBehind
PROPERTIES
    ImplementsApi
    EveryTicketAnswered
    OwnerReturns
    NoOrphan
