CONSTANTS
    Window = 3
    BodySizes = {0, 2, 3}
    BufLen = 2
    MaxPkgs = 3
    MaxRecvs = 3
    m1 = m1
    m2 = m2
    Machines = {m1, m2}
    MaxSends <- FewSends
    MaxResets = 1
    Scalars <- FewScalars
    JsonNames <- OneName
    Prebuffers = {1, 64}
    MaxItems = 3
    MaxJsonFails = 1
SPECIFICATION MCSpec
INVARIANTS PackagesSound HeartbeatSound JsonSound
PROPERTY SocketsServe
CHECK_DEADLOCK FALSE
