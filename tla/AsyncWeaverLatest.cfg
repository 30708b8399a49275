SPECIFICATION SureSpec
CONSTANTS
    c1 = c1
    c2 = c2
    w1 = w1
    w2 = w2
    h1 = h1
    h2 = h2
    NoWindow = NoWindow
    Callers <- MCOneCaller
    Workers <- MCOneWorker
    Windows <- MCOneWindow
    MaxBoots = 2
INVARIANT LatestWishWins
CHECK_DEADLOCK FALSE
