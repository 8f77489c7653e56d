\* Two components to refer to; two changes of whatever kind, a restart or a
\* failed call.  The second version of a component never becomes ready.
CONSTANTS
    a = a
    b = b
    Components = {a, b}
    Kinds = {"wrpc", "cron", "knative"}
    Broken = {2}
    MaxChanges = 2
    MaxFaults = 1
SPECIFICATION Spec
SYMMETRY ComponentSymmetry
CHECK_DEADLOCK FALSE
INVARIANTS QuietChainIsLatest QuietChainIsHonest
PROPERTY NeverRollsBack
