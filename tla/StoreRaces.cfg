\* Two uploads of one filename raced by the worker and triggered conversions, conversion on.
SPECIFICATION Spec
CONSTANTS
    u1 = u1
    u2 = u2
    u3 = u3
    f1 = f1
    f2 = f2
    a1 = a1
    a2 = a2
    None = None
    Ticker = Ticker
    Uploads <- Two
    Files = {f1}
    fileOf <- TwoSame
    Bad = {}
    Admins = {}
    Modes = {TRUE}
    RetryFailed = TRUE
    BatchSize = 1
    MaxCrashes = 0
INVARIANTS UniqueFilename JsonWhole
PROPERTIES NoResurrection
CHECK_DEADLOCK FALSE
