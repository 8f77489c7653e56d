\* One binding, every outage, one fault.  Everything may be deleted: the end is no deadlock.
CONSTANTS
    i1 = i1
    b1 = b1
    ServiceInstances = {i1}
    ServiceBindings = {b1}
    InstanceRef <- OneInstance
    ShortLived = {b1}
    MaxFaults = 1
    LifecycleOutages = {"absent", "reconciling", "notReady"}
    ClientOutcomes = {"notReady", "ready"}
SPECIFICATION Spec
INVARIANTS
    RecordedIdsAreAccepted
    FinalizersHold
    ExpiredIsReleased
    CredentialsLastForDuration
    ReadyInstanceHasId
PROPERTIES
    DestroySparesRecordedBindings
    ImplementsContract
CHECK_DEADLOCK FALSE
