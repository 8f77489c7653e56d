\* One lifecycle and an instance; two changes of whatever kind, a restart or a
\* failed call.
CONSTANTS
    i1 = i1
    ServiceInstances = {i1}
    MaxChanges = 2
    MaxFaults = 1
SPECIFICATION FairSpec
CHECK_DEADLOCK FALSE
INVARIANTS
    QuietLifecycleIsHonest
PROPERTIES
    ImplementsContract
    KeepsServing
    LifecycleGetsReady
    ReadyLifecycleGoes
