\* A batch for two forests and the own directory; hosts reject, come, go and hang.
SPECIFICATION FairSpec
CONSTANTS
    f1 = f1
    f2 = f2
    h0 = h0
    h1 = h1
    h2 = h2
    h3 = h3
    root1 = root1
    root2 = root2
    ou = ou
    OwnContext = OwnContext
    Unreadable = Unreadable
    NoTarget = NoTarget
    OwnConnection = OwnConnection
    NoConnection = NoConnection
    Forest = {f1, f2}
    Host = {h1, h2, h3}
    OwnHost = h0
    Base = {root1, root2, ou}
    Context <- MCContext
    Op = {o1, o2}
    Kerberos = TRUE
    MayHang = TRUE
    MaxFlips = 2
INVARIANTS
    IInv
    InOwnForest
    FailsOverFirst
PROPERTIES
    ImplementsDispatch
    NeverGoesBack
    PassEnds
CHECK_DEADLOCK FALSE
