\* One graceful stop and no other fault.
SPECIFICATION Spec
CONSTANTS
    create = create
    enable = enable
    disable = disable
    test = test
    bad = bad
    alice = alice
    bob = bob
    Op = {enable, disable}
    Account = {alice, bob}
    KindOf <- MCKindOf
    AcctOf <- MCAcctOf
    WithModify = {}
    Batch = 2
    Redeliver = {}
    MaxFaults = 1
INVARIANT
    EveryChangeIsLogged
