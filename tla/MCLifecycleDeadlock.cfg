\* One lifecycle and one instance; one change, no faults.
CONSTANTS
    i1 = i1
    ServiceInstances = {i1}
    MaxChanges = 1
    MaxFaults = 0
SPECIFICATION FairSpec
CHECK_DEADLOCK FALSE
PROPERTY DeletedLifecycleGoes
