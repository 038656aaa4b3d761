\* Two lines that overlap in one path, one of them with an ownerless tag in its
\* scope, or one process without a line name; one request thread, one change of
\* the server, nothing fails.
SPECIFICATION DeploymentSpec
CONSTANTS
    p1 = p1
    p2 = p2
    a1 = a1
    a2 = a2
    A = A
    B = B
    none = none
    Paths = {p1, p2}
    Attrs = {a1}
    Absent = Absent
    NoLine = none
    Lines = {A, B, none}
    ScopeOf <- EitherWay
    Syncers = {"s1"}
    LegacyRows <- OldTag
    MaxRows = 4
    MaxChanges = 1
    MaxFaults = 0
PROPERTIES
    LinesAreIsolated
    ApplyIsExact
    SyncKeepsTheRest
