SPECIFICATION Spec
CONSTANTS
    panelA = panelA
    panelB = panelB
    NoPanel = NoPanel
    Placeholder = Placeholder
    c1 = c1
    w1 = w1
    w2 = w2
    r1 = r1
    Panels <- MCPanels
    SignatureOf <- MCSignatureOf
    Clients <- MCClients
    Watchers <- MCWatchers
    Refreshers <- MCRefreshers
    SrKeeps = TRUE
    MaxEvents = 2
SYMMETRY MCSymmetry
INVARIANT DoneMeansGone
