SPECIFICATION EventsFairSpec
CONSTANTS
    i1 = i1
    r1 = r1
    s1 = s1
    None = None
    Jobs = {i1, r1}
    Restyles = {r1}
    Ids = {"x1", "x2"}
    idOf <- OwnIds
    Worlds = {"w1"}
    worldOf <- OneWorld
    NumStages = 1
    Optional = {}
    Faulty = {i1}
    QueueSize = 1
    Requests = {}
    Subscribers = {s1}
    ChanSize = 2
    MaxDeletes = 0
    MaxRestarts = 1
    MaxConnects = 2
INVARIANTS
    EventsTypeOK
    ViewCurrent
PROPERTIES
    NoGoingBack
    ShownInTheEnd
CHECK_DEADLOCK FALSE
