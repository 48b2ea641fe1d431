SPECIFICATION EventsSpec
CONSTANTS
    i1 = i1
    r1 = r1
    s1 = s1
    None = None
    Jobs = {i1}
    Restyles = {}
    Ids = {"x1", "x2"}
    idOf <- OwnIds
    Worlds = {"w1"}
    worldOf <- OneWorld
    NumStages = 1
    Optional = {}
    Faulty = {}
    QueueSize = 1
    Requests = {}
    Subscribers = {s1}
    ChanSize = 8
    MaxDeletes = 0
    MaxRestarts = 0
    MaxConnects = 1
INVARIANTS DoneIsShown
CHECK_DEADLOCK FALSE
