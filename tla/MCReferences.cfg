\* A Component and two Compositions, two edits at any time.
CONSTANTS
    n1 = n1
    n2 = n2
    n3 = n3
    d1 = d1
    d2 = d2
    Components = {n1}
    Compositions = {n2, n3}
    Images = {d1}
    NoImage = NoImage
    Dependencies <- NestedCompositions
    MaxEdits = 2
    MaxFaults = 0
    MaxOutages = 1
SPECIFICATION Spec
INVARIANT ReadyProvenance
INVARIANT TracesAreFinite
INVARIANT QuietIsResolved
SYMMETRY CompositionSymmetry
CHECK_DEADLOCK FALSE
