SPECIFICATION FairSpec
CONSTANTS
    i1 = i1
    i2 = i2
    r1 = r1
    c1 = c1
    None = None
    Jobs = {i1, i2, r1}
    Restyles = {r1}
    Ids = {"x1", "x2"}
    idOf <- SameId
    Worlds = {"w1"}
    worldOf <- OneWorld
    NumStages = 2
    Optional = {1}
    Faulty = {i1, r1}
    QueueSize = 1
    Requests = {c1}
    Subscribers = {}
    ChanSize = 1
    MaxDeletes = 1
    MaxRestarts = 1
INVARIANTS
    TypeOK
    OneActive
    ErrorOfLastRun
    TempLifetime
PROPERTIES
    EndedStays
    JobsEnd
CHECK_DEADLOCK FALSE
