SPECIFICATION SmallSpec
CONSTANTS
    panelA = panelA
    panelB = panelB
    NoPanel = NoPanel
    Placeholder = Placeholder
    c1 = c1
    w1 = w1
    w2 = w2
    r1 = r1
    Panels <- MCOnePanel
    SignatureOf <- MCSignatureOf
    Clients <- MCClients
    Watchers <- MCWatchers
    Refreshers <- MCRefreshers
    SrKeeps = TRUE
    MaxEvents = 2
INVARIANTS TypeOK OneWatcher HmdCurrent NoClaimAfterUnplug
PROPERTIES NoWatcherAfterShutdown ResolvesReturn GeometryDerived
