\* One binding, a stable lifecycle, one fault.
CONSTANTS
    i1 = i1
    b1 = b1
    ServiceInstances = {i1}
    ServiceBindings = {b1}
    InstanceRef <- OneInstance
    ShortLived = {b1}
    MaxFaults = 1
    LifecycleOutages = {}
    ClientOutcomes = {"ready"}
SPECIFICATION FairSpec
PROPERTIES
    BindingsAreRecorded
    ElapsedBindingsExpire
    RecordedBindingsGo
    InstancesGo
CHECK_DEADLOCK FALSE
