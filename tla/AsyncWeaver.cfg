SPECIFICATION StorySpec
CONSTANTS
    c1 = c1
    c2 = c2
    w1 = w1
    w2 = w2
    h1 = h1
    h2 = h2
    NoWindow = NoWindow
    Callers <- MCTwoCallers
    Workers <- MCTwoWorkers
    Windows <- MCWindows
    MaxBoots = 2
INVARIANTS TypeOK OneOwner BusyIsOneClaim MailboxServed JoinedBeforeTeardown
PROPERTIES DestroyedIsFreed RestartRepaired
CHECK_DEADLOCK FALSE
