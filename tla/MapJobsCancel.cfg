SPECIFICATION Spec
CONSTANTS
    i1 = i1
    i2 = i2
    r1 = r1
    c1 = c1
    None = None
    Jobs = {i1}
    Restyles = {}
    Ids = {"x1", "x2"}
    idOf <- SameId
    Worlds = {"w1"}
    worldOf <- OneWorld
    NumStages = 2
    Optional = {1}
    Faulty = {}
    QueueSize = 1
    Requests = {c1}
    Subscribers = {}
    ChanSize = 1
    MaxDeletes = 0
    MaxRestarts = 0
INVARIANTS CancelIsNotFailure
CHECK_DEADLOCK FALSE
