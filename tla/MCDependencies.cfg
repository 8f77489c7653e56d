\* Two dependencies; a change of whatever kind, a restart or a failed call.
CONSTANTS
    Slots = {1, 2}
    Kinds = {"config", "oci"}
    MaxChanges = 1
    MaxFaults = 1
SPECIFICATION FairSpec
CHECK_DEADLOCK FALSE
INVARIANTS
    QuietDependenciesAreKept
    QuietDependenciesAreComposed
PROPERTIES
    ComposesItsOwn
    DependenciesSettle
