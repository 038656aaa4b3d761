\* A process without a line name: one request thread is enough.
SPECIFICATION RegistrySpec
CONSTANTS
    p1 = p1
    p2 = p2
    a1 = a1
    a2 = a2
    A = A
    B = B
    none = none
    Paths = {p1, p2}
    Attrs = {a1}
    Absent = Absent
    NoLine = none
    Lines = {none}
    ScopeOf <- Unscoped
    Syncers = {"s1"}
    LegacyRows <- OldTag
    MaxRows = 3
    MaxChanges = 0
    MaxFaults = 0
INVARIANTS
    PathIsIdentity
