\* One line with an ownerless tag in its scope, one request thread, tags that
\* change, come and go, one failure or restart.
SPECIFICATION FairRegistrySpec
CONSTANTS
    p1 = p1
    p2 = p2
    a1 = a1
    a2 = a2
    A = A
    B = B
    none = none
    Paths = {p1, p2}
    Attrs = {a1, a2}
    Absent = Absent
    NoLine = none
    Lines = {A}
    ScopeOf <- OneLine
    Syncers = {"s1"}
    LegacyRows <- OldTag
    MaxRows = 3
    MaxChanges = 1
    MaxFaults = 1
INVARIANTS
    PathIsIdentity
    HistorianFollows
PROPERTIES
    RegistryConverges
