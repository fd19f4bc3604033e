SPECIFICATION FairSpec
CONSTANTS
    Sockets = {s1, s2, s3}
    Hooks = {h1}
    NoHook = NoHook
    NoSocket = NoSocket
    MaxMounts = 2
    MaxFaults = 1
INVARIANTS
    TypeOK
    SubscribersAreListed
    ReconnectsDoNotMultiply
PROPERTIES
    GhostsLeave
    DashboardsStayLive
    NothingLeftBehind
