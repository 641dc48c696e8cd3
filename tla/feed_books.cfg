SPECIFICATION Spec
CONSTANTS
    s1 = s1
    s2 = s2
    bare1 = bare1
    k1 = k1
    k2 = k2
    c1 = c1
    c2 = c2
    chart = chart
    bot = bot
    Symbol <- MCSymbol
    Name <- MCName
    Bare <- Prefixed
    Key <- MCKey
    NoKey = NoKey
    KeyOf <- Apart
    Pinned = {k2}
    Reason = {chart, bot}
    Client = {c1, c2}
    NoSource = NoSource
    SendsAtOnce = TRUE
    MaxPending = 2
SYMMETRY Symmetry
INVARIANTS
    FeedIsWanted
    BooksMatchFeed
