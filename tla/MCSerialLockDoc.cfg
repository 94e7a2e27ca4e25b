CONSTANTS
    Procs = {p1, p2}
    OldPid = old
    NoPid = blank
    NoFile = none
    MaxTries = 1
    Reopeners = {}
    MaxFds = 1
    MaxCrashes = 0
SPECIFICATION Spec
INVARIANT OpenedOnlyIfNotLocked
