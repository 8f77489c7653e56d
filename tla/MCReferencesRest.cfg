\* Two Components: concurrent edits, failures and outages.
CONSTANTS
    n1 = n1
    n2 = n2
    n3 = n3
    d1 = d1
    d2 = d2
    Components = {n1, n2}
    Compositions = {}
    Images = {d1, d2}
    NoImage = NoImage
    Dependencies <- NoDependencies
    MaxEdits = 2
    MaxFaults = 1
    MaxOutages = 1
SPECIFICATION FairSpec
PROPERTY ComesToRest
CHECK_DEADLOCK FALSE
