\* One upload, an admin, the worker, two crashes: every stored recording settles.
SPECIFICATION FairSpec
CONSTANTS
    u1 = u1
    u2 = u2
    u3 = u3
    f1 = f1
    f2 = f2
    a1 = a1
    a2 = a2
    None = None
    Ticker = Ticker
    Uploads <- One
    Files = {f1}
    fileOf <- OneFile
    Bad = {}
    Admins = {a1}
    Modes = {TRUE}
    RetryFailed = TRUE
    BatchSize = 1
    MaxCrashes = 2
PROPERTIES Settles
CHECK_DEADLOCK FALSE
