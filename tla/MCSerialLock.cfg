CONSTANTS
    Procs = {p1, p2, p3}
    OldPid = old
    NoPid = blank
    NoFile = none
    MaxTries = 1
    Reopeners = {p1}
    MaxFds = 2
    MaxCrashes = 1
SPECIFICATION Spec
INVARIANTS TypeOK ExclusiveUnlessRobbed NothingLeft
PROPERTY OpenReturns
