\* A change of whatever kind, a restart or a failed call.
CONSTANTS
    Kinds = {"lifecycle", "instances", "clients"}
    TakenNames = {"clients"}
    MaxChanges = 1
    MaxFaults = 1
SPECIFICATION FairSpec
CHECK_DEADLOCK FALSE
INVARIANTS
    TypeOK
    ManagerIsHeld
    QuietDefinitionIsHonest
    ReadyResourceIsServed
    QuietClientIsCurrent
PROPERTY ResourcesAreServed
