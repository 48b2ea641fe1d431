\* One upload, conversion on: the worker and a triggered conversion share a directory.
SPECIFICATION Spec
CONSTANTS
    u1 = u1
    u2 = u2
    u3 = u3
    f1 = f1
    f2 = f2
    a1 = a1
    a2 = a2
    None = None
    Ticker = Ticker
    Uploads <- One
    Files = {f1}
    fileOf <- OneFile
    Bad = {}
    Admins = {}
    Modes = {TRUE}
    RetryFailed = TRUE
    BatchSize = 1
    MaxCrashes = 0
INVARIANTS StreamingAvailable
CHECK_DEADLOCK FALSE
