\* An HttpTrigger; two changes of whatever kind, a restart or a failed call.
CONSTANTS
    a = a
    b = b
    Components = {a}
    Kinds = {"http"}
    Broken = {}
    MaxChanges = 2
    MaxFaults = 1
SPECIFICATION FairSpec
CHECK_DEADLOCK FALSE
PROPERTY EventuallyServes
