SPECIFICATION StorySpec
CONSTANTS
    k1 = k1  k2 = k2  k3 = k3
    Captures <- MCThreeCaptures
    None = None
    Slots <- MCTwoSlots
    Grace = 1
    QueueSize = 6
    InFlight = 1
    MaxCalls = 1
    MaxEvents = 2
INVARIANTS
    TypeOK OneHolder InflightIsOneStart WatchedWhileLost NothingLeft SampledNotStopped NoInlineStop
PROPERTIES RecoveryEnds CaptureComes Lifecycle
CHECK_DEADLOCK FALSE
