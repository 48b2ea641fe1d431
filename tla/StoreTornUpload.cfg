\* Two concurrent uploads of one filename share its temporary file.
SPECIFICATION Spec
CONSTANTS
    u1 = u1
    u2 = u2
    u3 = u3
    f1 = f1
    f2 = f2
    a1 = a1
    a2 = a2
    None = None
    Ticker = Ticker
    Uploads <- Two
    Files = {f1}
    fileOf <- TwoSame
    Bad = {}
    Admins = {}
    Modes = {FALSE}
    RetryFailed = TRUE
    BatchSize = 1
    MaxCrashes = 0
INVARIANTS UploadNeverTruncates
CHECK_DEADLOCK FALSE
