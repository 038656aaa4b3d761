\* Two request threads and three requests; the first increment wraps the reload
\* node, and its type has a value more than there are requests, so that a full
\* turn of the counter between two samples is left out.
SPECIFICATION Spec
CONSTANTS
    Tags = {"x"}
    Configs = {"high", "off"}
    t1 = t1
    t2 = t2
    Threads = {t1, t2}
    ReloadModulus = 4
    FirstNodes = {3}
    MaxRequests = 3
    MaxFaults = 1
    MaxEvents = 2
INVARIANTS
    PlayerFollows
    DiagnosticsFollow
    ViewMatchesEngine
    ViewIsTruthful
SYMMETRY ThreadSymmetry
