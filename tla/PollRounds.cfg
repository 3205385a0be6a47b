SPECIFICATION Spec
CONSTANTS
    Materials = {m1, m2}
    Keys = {good, bad}
    Good = good
    Broken = broken
    NoFile = nofile
    None = none
    Workers = {w1, w2}
    Callers = {c1}
    Deadline = TRUE
    Calls = {"poll", "checkout", "release", "save"}
    Faults = {"fetch", "hang", "helper", "db", "disk", "flush", "panic", "crash"}
    MaxFails = 1
    MaxCalls = 1
INVARIANTS TypeOK OnePollEach
CHECK_DEADLOCK FALSE
PROPERTIES EveryMaterialPolled EveryCallReturns KeyHeals
