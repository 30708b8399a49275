SPECIFICATION Spec
CONSTANTS
    k1 = k1  k2 = k2  k3 = k3
    Captures <- MCTwoCaptures
    None = None
    Slots <- MCTwoSlots
    Grace = 1
    QueueSize = 8
    InFlight = 1
    MaxCalls = 1
    MaxEvents = 2
INVARIANT ActivationEarnsAttempt
CHECK_DEADLOCK FALSE
