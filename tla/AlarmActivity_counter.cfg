\* Two request threads, three requests and no failure.
SPECIFICATION Spec
CONSTANTS
    Tags = {"x"}
    Configs = {"high", "off"}
    t1 = t1
    t2 = t2
    Threads = {t1, t2}
    ReloadModulus = 4
    FirstNodes = {0}
    MaxRequests = 3
    MaxFaults = 0
    MaxEvents = 0
PROPERTIES
    CounterMovesForward
