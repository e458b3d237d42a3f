\* One operation that is offered again and two that are offered once; up to two
\* faults; peers that need not answer, but where EveryOpSettles says so.
SPECIFICATION StopSpec
CONSTANTS
    create = create
    enable = enable
    disable = disable
    test = test
    bad = bad
    alice = alice
    bob = bob
    Op = {create, enable, bad}
    Account = {alice, bob}
    KindOf <- MCKindOf
    AcctOf <- MCAcctOf
    WithModify = {create}
    Batch = 2
    Redeliver = {create}
    MaxFaults = 2
INVARIANTS
    IInv
    SuccessIsReal
    SummaryMatchesLog
    LogAgreesWithBroker
    NoRepeatedWrite
    LossIsBounded
    EvidenceIsComplete
    OutcomesReachBroker
PROPERTIES
    ImplementsProvisioning
    StopCompletes
    EveryOpSettles
