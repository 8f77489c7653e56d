\* A change of the scopes, a restart and a failed API call.
CONSTANTS
    t1 = t1
    t2 = t2
    Targets = {t1, t2}
    Durations = {8}
    RenewBefore = 2
    Grace = 1
    BindTime = 1
    MaxBindings = 3
    MaxTime = 2
    MaxChanges = 1
    MaxCrashes = 1
    MaxFailures = 1
SPECIFICATION FairSpec
CHECK_DEADLOCK FALSE
PROPERTY SpecTakesEffect
