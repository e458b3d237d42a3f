\* Nothing goes wrong and nobody else acts; only setup runs, again and again.
SPECIFICATION BusySpec
CONSTANTS
    Proc = {p1, p2}
    NoProc = NoProc
    k1 = k1
    k2 = k2
    s1 = s1
    s2 = s2
    p1 = p1
    blank = blank
    er = er
    br = br
    tr = tr
    Secret = {s1, s2}
    Key = {k1, k2}
    Ref = {er, br, tr}
    RefOf <- MCRefOf
    Trim <- MCTrim
    Empty = Empty
    NoKey = NoKey
    BadKey = BadKey
    NotSet = NotSet
    Failed = Failed
    Missing = Missing
    Torn = Torn
    Nothing = Nothing
    Answers <- OneAnswer
    Shells <- OneHost
    Hosts <- OneHost
    Others = FALSE
    MaxFaults = 0
PROPERTY
    EnsureRunning
