SPECIFICATION FairSpec
CONSTANTS
    w1 = w1
    w2 = w2
    r1 = r1
    r2 = r2
    r3 = r3
    Process <- Workers
    Request <- Requests
    Proc <- TwoOnOne
    Lock = {train, promotion}
    LockConnections = 1
    PoolMin = 1
    PoolSize = 2
    MaxRestarts = 1
    None = None
INVARIANTS
    TypeOK
    NoHang
PROPERTIES
    
    Served
