\* Renewals, one change of the duration and one restart.
CONSTANTS
    t1 = t1
    t2 = t2
    Targets = {t1}
    Durations = {4, 8}
    RenewBefore = 2
    Grace = 1
    BindTime = 1
    MaxBindings = 4
    MaxTime = 6
    MaxChanges = 1
    MaxCrashes = 1
    MaxFailures = 0
SPECIFICATION Spec
INVARIANT TypeOK
INVARIANT ClientBindingServes
INVARIANT QuietClientIsCurrent
INVARIANT RenewedInTime
PROPERTY NeverMovesBack
CHECK_DEADLOCK FALSE
