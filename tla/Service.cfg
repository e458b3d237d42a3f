\* Setups, installs and uninstalls, among starts and stops by others, crashes,
\* commands that are killed, and changes of the host's environment.
SPECIFICATION FairSpec
CONSTANTS
    Proc = {p1, p2}
    NoProc = NoProc
    k1 = k1
    k2 = k2
    s1 = s1
    s2 = s2
    p1 = p1
    blank = blank
    er = er
    br = br
    tr = tr
    Secret = {s1, s2}
    Key = {k1, k2}
    Ref = {er, br, tr}
    RefOf <- MCRefOf
    Trim <- MCTrim
    Empty = Empty
    NoKey = NoKey
    BadKey = BadKey
    NotSet = NotSet
    Failed = Failed
    Missing = Missing
    Torn = Torn
    Nothing = Nothing
    Answers <- MCAnswers
    Shells <- MCShells
    Hosts <- MCHosts
    Others = TRUE
    MaxFaults = 1
INVARIANTS
    IInv
    OneAgent
    AppliedAfterOk
    SecretIntact
    KeptOffDisk
PROPERTY
    StopEnds
