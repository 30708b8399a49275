SPECIFICATION Spec
CONSTANTS
    a1 = a1
    w1 = w1
    w2 = w2
    Askers <- MCAskers
    Workers <- MCWorkers
    PendingIdle = 2
    HeartbeatIdle = 2
    MaxClock = 4
    MaxStall = 1
INVARIANTS EpisodeWakes
