\* Two uploads of one filename, two admins, two crashes, conversion on or off; one process at a time.
SPECIFICATION Spec
CONSTANTS
    u1 = u1
    u2 = u2
    u3 = u3
    f1 = f1
    f2 = f2
    a1 = a1
    a2 = a2
    None = None
    Ticker = Ticker
    Uploads <- Two
    Files = {f1}
    fileOf <- TwoSame
    Bad = {}
    Admins = {a1, a2}
    Modes = {TRUE, FALSE}
    RetryFailed = TRUE
    BatchSize = 1
    MaxCrashes = 2
INVARIANTS TypeOK Playable SourceKept StatsMatch NoOrphanDir
PROPERTIES IsRecordingLife
CONSTRAINT NoRace
CHECK_DEADLOCK FALSE
