------------------------ MODULE ForestRoutingProofs ------------------------
(***************************************************************************)
(* ForestRouting for any batch, any contexts and any hosts: operations     *)
(* stay in their forest, and failover passes over no host that is up.      *)
(***************************************************************************)
EXTENDS ForestRouting, SequenceTheorems, TLAPS

LEMMA HostsType == \A c \in Context : Hosts(c) \in Seq(Host)
  BY ContextAssumption DEF Hosts, ForestContext

LEMMA ConnectionType ==
  \A c \in Context, h \in Host : /\ c.forest \in Forest
                                 /\ Connection(c, h) \in ForestConnection
                                 /\ Connection(c, h).forest = c.forest
                                 /\ Connection(c, h).host = h
  BY ContextAssumption DEF Connection, ForestConnection, ForestContext

(* The head of the hosts still to try is a host, and so are the others.    *)
LEMMA HostsLeft ==
  ASSUME TypeOK, hosts # << >>
  PROVE  /\ Head(hosts) \in Host
         /\ Tail(hosts) \in Seq(Host)
         /\ Head(hosts) = hosts[1] /\ 1 \in DOMAIN hosts
         /\ \A j \in DOMAIN hosts : j = 1 \/ /\ j - 1 \in DOMAIN Tail(hosts)
                                             /\ Tail(hosts)[j - 1] = hosts[j]
         /\ \A j \in DOMAIN Tail(hosts) : /\ j + 1 \in DOMAIN hosts
                                          /\ Tail(hosts)[j] = hosts[j + 1]
<1>1. hosts \in Seq(Host)  BY DEF TypeOK
<1>2. /\ Head(hosts) \in Host /\ Tail(hosts) \in Seq(Host)
      /\ Len(Tail(hosts)) = Len(hosts) - 1
      /\ \A j \in 1..Len(Tail(hosts)) : Tail(hosts)[j] = hosts[j + 1]
  BY <1>1, HeadTailProperties
<1>3. DOMAIN hosts = 1..Len(hosts) /\ Len(hosts) \in Nat \ {0} /\ Head(hosts) = hosts[1]
  BY <1>1
<1>4. DOMAIN Tail(hosts) = 1..Len(Tail(hosts))
  BY <1>2
<1> QED  BY <1>2, <1>3, <1>4

LEMMA NoHosts == << >> \in Seq(Host) /\ DOMAIN << >> = {}
  OBVIOUS
-----------------------------------------------------------------------------
(* What the end of an operation does to the types.                         *)
LEMMA OverType ==
  ASSUME TypeOK, NEW o \in Op, NEW v \in {"ok", "failed", "unreachable"},
         NEW c \in ForestConnection \cup {OwnConnection, NoConnection}, Over(o, v, c)
  PROVE  /\ verdict' \in [Op -> {"none", "ok", "failed", "unreachable"}]
         /\ via' \in [Op -> ForestConnection \cup {OwnConnection, NoConnection}]
         /\ pc' = "next"
         /\ hosts' \in Seq(Host)
<1>1. verdict' \in [Op -> {"none", "ok", "failed", "unreachable"}]
  BY DEF TypeOK, Over
<1>2. via' \in [Op -> ForestConnection \cup {OwnConnection, NoConnection}]
  BY DEF TypeOK, Over
<1>3. hosts' \in Seq(Host)  BY NoHosts DEF Over
<1> QED  BY <1>1, <1>2, <1>3 DEF Over

LEMMA ChosenType ==
  ASSUME TypeOK, pc = "process"
  PROVE  /\ Chosen \in ForestConnection \cup {OwnConnection}
         /\ ctx[op] = OwnContext => Chosen = OwnConnection
         /\ ctx[op] # OwnContext => /\ ctx[op] \in Context
                                    /\ ctx[op].forest \in DOMAIN conns
                                    /\ Chosen = conns[ctx[op].forest]
  BY DEF TypeOK, Chosen

LEMMA TypeInit == Init => TypeOK
<1> SUFFICES ASSUME Init PROVE TypeOK  OBVIOUS
<1>1. op \in Op  BY OpAssumption DEF Init
<1>2. hosts \in Seq(Host) /\ DOMAIN conns = {}  BY NoHosts DEF Init
<1>3. flips \in 0..MaxFlips  BY SwitchAssumption DEF Init
<1> QED  BY <1>1, <1>2, <1>3 DEF Init, TypeOK

LEMMA TypeNext == TypeOK /\ [Next]_vars => TypeOK'
<1> SUFFICES ASSUME TypeOK, [Next]_vars PROVE TypeOK'  OBVIOUS
<1>1. ASSUME NEW h \in Server, NEW s \in DcState, Flip(h, s) PROVE TypeOK'
  <2>1. DOMAIN conns' = DOMAIN conns  BY <1>1 DEF Flip
  <2>2. \A f \in DOMAIN conns' : conns'[f] \in ForestConnection
    BY <1>1, <2>1 DEF Flip, TypeOK, ForestConnection
  <2>3. /\ dc' \in [Server -> DcState] /\ steady' \subseteq Host
        /\ own' \in {"up", "broken"}
    BY <1>1 DEF Flip, TypeOK
  <2>4. flips' \in 0..MaxFlips  BY <1>1, SwitchAssumption DEF Flip, TypeOK
  <2> QED  BY <1>1, <2>1, <2>2, <2>3, <2>4 DEF Flip, TypeOK, Uncached
<1>2. ASSUME NEW o \in Op, Route(o) PROVE TypeOK'
  <2>1. /\ todo' \subseteq Op /\ op' \in Op /\ op' = o /\ steady' \subseteq Host
        /\ UNCHANGED <<ctx, conns, own, dc, flips>>
    BY <1>2 DEF Route, TypeOK
  <2>2. CASE ctx[o] = Unreadable /\ Over(o, "failed", NoConnection)
    BY <2>1, <2>2, OverType DEF TypeOK
  <2>3. CASE Uncached(ctx[o]) /\ Hosts(ctx[o]) = << >> /\ Over(o, "unreachable", NoConnection)
    BY <2>1, <2>3, OverType DEF TypeOK
  <2>4. CASE /\ Uncached(ctx[o]) /\ Hosts(ctx[o]) # << >>
             /\ pc' = "connect" /\ hosts' = Hosts(ctx[o])
             /\ UNCHANGED <<verdict, via>>
    <3>1. hosts' \in Seq(Host)  BY <2>4, HostsType DEF Uncached
    <3> QED  BY <2>1, <2>4, <3>1 DEF TypeOK, Uncached
  <2>5. CASE /\ ctx[o] # Unreadable /\ ~Uncached(ctx[o])
             /\ pc' = "process"
             /\ UNCHANGED <<hosts, verdict, via>>
    <3>1. ctx[o] # OwnContext => ctx[o] \in Context /\ ctx[o].forest \in DOMAIN conns
      BY <2>5 DEF TypeOK, Uncached
    <3> QED  BY <2>1, <2>5, <3>1 DEF TypeOK
  <2> QED  BY <1>2, <2>2, <2>3, <2>4, <2>5 DEF Route
<1>3. CASE Bound
  <2>1. ctx[op] \in Context /\ hosts # << >>  BY <1>3 DEF Bound, TypeOK, Uncached
  <2>2. DOMAIN conns' = DOMAIN conns \cup {ctx[op].forest}  BY <1>3 DEF Bound
  <2>3. DOMAIN conns' \subseteq Forest
    BY <2>1, <2>2, ConnectionType, HostsLeft DEF TypeOK
  <2>4. \A f \in DOMAIN conns' : conns'[f] \in ForestConnection
    BY <1>3, <2>1, <2>2, ConnectionType, HostsLeft DEF Bound, TypeOK
  <2>5. hosts' \in Seq(Host)  BY <1>3, NoHosts DEF Bound
  <2> QED  BY <1>3, <2>1, <2>2, <2>3, <2>4, <2>5 DEF Bound, TypeOK
<1>4. CASE HostFails
  <2>1. hosts # << >>  BY <1>4 DEF HostFails, TypeOK
  <2>2. CASE NextHosts = << >>
    <3>1. Over(op, "unreachable", NoConnection)  BY <1>4, <2>2 DEF HostFails
    <3> QED  BY <1>4, <3>1, OverType DEF HostFails, TypeOK
  <2>3. CASE NextHosts # << >>
    <3>1. hosts' \in Seq(Host) /\ hosts' # << >> /\ UNCHANGED <<pc, verdict, via>>
      BY <1>4, <2>1, <2>3, HostsLeft DEF HostFails, NextHosts
    <3> QED  BY <1>4, <3>1 DEF HostFails, TypeOK, Uncached
  <2> QED  BY <2>2, <2>3
<1>5. CASE Process
  <2>1. PICK v \in {"ok", "failed"} : Over(op, v, Chosen)  BY <1>5 DEF Process
  <2>2. Chosen \in ForestConnection \cup {OwnConnection}  BY <1>5, ChosenType DEF Process
  <2>3. op \in Op  BY DEF TypeOK
  <2>4. /\ verdict' \in [Op -> {"none", "ok", "failed", "unreachable"}]
        /\ via' \in [Op -> ForestConnection \cup {OwnConnection, NoConnection}]
        /\ pc' = "next" /\ hosts' \in Seq(Host)
    BY <2>1, <2>2, <2>3, OverType
  <2> QED  BY <1>5, <2>4 DEF Process, TypeOK
<1>6. CASE Unbind
  <2>1. DOMAIN conns' = {}  BY <1>6, NoHosts DEF Unbind
  <2> QED  BY <1>6, <2>1 DEF Unbind, TypeOK
<1>7. CASE UNCHANGED vars
  BY <1>7 DEF vars, TypeOK, Uncached
<1> QED  BY <1>1, <1>2, <1>3, <1>4, <1>5, <1>6, <1>7 DEF Next

(* Every variable holds a value of its kind, and the pass always has what  *)
(* its next step needs: a host to try, a connection to process over.       *)
THEOREM TypeCorrect == Spec => []TypeOK
<1>1. Init => TypeOK  BY TypeInit
<1>2. TypeOK /\ [Next]_vars => TypeOK'  BY TypeNext
<1> QED  BY <1>1, <1>2, PTL DEF Spec
-----------------------------------------------------------------------------
LEMMA InvInit == Init => IInv
<1> SUFFICES ASSUME Init PROVE IInv  OBVIOUS
<1>1. TypeOK  BY TypeInit
<1>2. DOMAIN conns = {}  BY NoHosts DEF Init
<1>3. \A o \in Op : verdict[o] = "none"  BY DEF Init
<1>4. op \in Op  BY <1>1 DEF TypeOK
<1> QED  BY <1>1, <1>2, <1>3, <1>4 DEF Init, IInv, KeptUnderForest, SteadyIsUp, StillToTry,
            InOwnForest, FailsOverFirst, Turns, Unsettled

(* No step changes what the broker stamped on an operation.                *)
LEMMA ContextsStay ==
  ASSUME [Next]_vars
  PROVE  /\ ctx' = ctx
         /\ \A f, h : OfForest(f, h)' <=> OfForest(f, h)
<1>1. ctx' = ctx  BY DEF Next, vars, Flip, Route, Bound, HostFails, Process, Unbind
<1> QED  BY <1>1 DEF OfForest

LEMMA KeptUnderForestNext == IInv /\ [Next]_vars => KeptUnderForest'
<1> SUFFICES ASSUME IInv, [Next]_vars PROVE KeptUnderForest'  OBVIOUS
<1>0. KeptUnderForest /\ TypeOK  BY DEF IInv
<1>1. CASE \E h \in Server, s \in DcState : Flip(h, s)
  <2>1. DOMAIN conns' = DOMAIN conns  BY <1>1 DEF Flip
  <2>2. \A f \in DOMAIN conns : /\ conns'[f].forest = conns[f].forest
                               /\ conns'[f].host = conns[f].host
    BY <1>0, <1>1 DEF Flip, TypeOK, ForestConnection
  <2> QED  BY <1>0, <2>1, <2>2, ContextsStay DEF KeptUnderForest
<1>2. CASE Bound
  <2> DEFINE c == ctx[op]
  <2>1. c \in Context /\ op \in Op /\ hosts # << >>
    BY <1>0, <1>2 DEF Bound, TypeOK, Uncached
  <2>2. Names(c, Head(hosts))
    BY <1>2, <2>1, <1>0, HostsLeft DEF Bound, IInv, StillToTry
  <2>3. OfForest(c.forest, Head(hosts))  BY <2>1, <2>2 DEF OfForest
  <2>4. /\ Connection(c, Head(hosts)).forest = c.forest
        /\ Connection(c, Head(hosts)).host = Head(hosts)
    BY <1>0, <2>1, HostsLeft, ConnectionType
  <2>5. /\ DOMAIN conns' = DOMAIN conns \cup {c.forest}
        /\ \A f \in DOMAIN conns' :
              conns'[f] = IF f = c.forest THEN Connection(c, Head(hosts)) ELSE conns[f]
    BY <1>2 DEF Bound
  <2>6. ASSUME NEW f \in DOMAIN conns'
        PROVE  conns'[f].forest = f /\ OfForest(f, conns'[f].host)
    <3>1. CASE f = c.forest  BY <2>3, <2>4, <2>5, <3>1
    <3>2. CASE f # c.forest  BY <1>0, <2>5, <3>2 DEF KeptUnderForest
    <3> QED  BY <3>1, <3>2
  <2> QED  BY <2>6, ContextsStay DEF KeptUnderForest
<1>3. CASE Unbind
  <2>1. DOMAIN conns' = {}  BY <1>3, NoHosts DEF Unbind
  <2> QED  BY <2>1 DEF KeptUnderForest
<1>4. CASE (\E o \in Op : Route(o)) \/ HostFails \/ Process \/ UNCHANGED vars
  <2>1. conns' = conns  BY <1>4 DEF Route, HostFails, Process, vars
  <2> QED  BY <1>0, <2>1, ContextsStay DEF KeptUnderForest
<1> QED  BY <1>1, <1>2, <1>3, <1>4 DEF Next

LEMMA SteadyIsUpNext == IInv /\ [Next]_vars => SteadyIsUp'
<1> SUFFICES ASSUME IInv, [Next]_vars PROVE SteadyIsUp'  OBVIOUS
<1>0. SteadyIsUp /\ TypeOK  BY DEF IInv
<1>1. CASE \E h \in Server, s \in DcState : Flip(h, s)
  BY <1>0, <1>1 DEF Flip, SteadyIsUp, TypeOK
<1>2. CASE \E o \in Op : Route(o)
  BY <1>2 DEF Route, SteadyIsUp
<1>3. CASE Bound \/ HostFails \/ Process \/ Unbind \/ UNCHANGED vars
  BY <1>0, <1>3 DEF Bound, HostFails, Process, Unbind, vars, SteadyIsUp
<1> QED  BY <1>1, <1>2, <1>3 DEF Next

LEMMA StillToTryNext == IInv /\ [Next]_vars => StillToTry'
<1> SUFFICES ASSUME IInv, [Next]_vars PROVE StillToTry'  OBVIOUS
<1>0. StillToTry /\ TypeOK  BY DEF IInv
<1>1. CASE \E h \in Server, s \in DcState : Flip(h, s)
  <2>1. /\ steady' \subseteq steady
        /\ UNCHANGED <<pc, hosts, ctx, op>>
    BY <1>1 DEF Flip
  <2> QED  BY <1>0, <2>1 DEF StillToTry
<1>2. ASSUME NEW o \in Op, Route(o), pc' = "connect"
      PROVE  StillToTry'
  <2>1. hosts' = Hosts(ctx[o])
    BY <1>2 DEF Route, Over
  <2>2. op' = o /\ ctx' = ctx  BY <1>2 DEF Route
  <2> QED  BY <2>1, <2>2 DEF StillToTry, Names
<1>3. ASSUME HostFails, pc' = "connect"
      PROVE  StillToTry'
  <2>1. /\ pc = "connect" /\ hosts # << >> /\ hosts' = Tail(hosts)
        /\ UNCHANGED <<ctx, op, steady>>
        /\ dc[Head(hosts)] \in {"down", "rejects"} \/ ~CanBind(ctx[op])
    BY <1>0, <1>3 DEF HostFails, TypeOK, NextHosts, Over
  <2>2. \A j \in DOMAIN hosts' : Names(ctx[op], hosts'[j])
    BY <1>0, <2>1, HostsLeft DEF StillToTry
  <2>3. ASSUME CanBind(ctx[op]), NEW h \in steady, Names(ctx[op], h)
        PROVE  \E j \in DOMAIN hosts' : hosts'[j] = h
    <3>1. PICK j \in DOMAIN hosts : hosts[j] = h
      BY <1>0, <2>1, <2>3 DEF StillToTry
    <3>2. j # 1  BY <1>0, <2>1, <2>3, <3>1, HostsLeft DEF IInv, SteadyIsUp
    <3> QED  BY <1>0, <2>1, <3>1, <3>2, HostsLeft
  <2> QED  BY <2>1, <2>2, <2>3 DEF StillToTry
<1>4. ASSUME Bound \/ Process \/ Unbind PROVE StillToTry'
  BY <1>4 DEF Bound, Process, Unbind, Over, StillToTry
<1>5. CASE UNCHANGED vars
  BY <1>0, <1>5 DEF vars, StillToTry
<1> QED  BY <1>1, <1>2, <1>3, <1>4, <1>5 DEF Next, StillToTry

LEMMA InOwnForestNext == IInv /\ [Next]_vars => InOwnForest'
<1> SUFFICES ASSUME IInv, [Next]_vars PROVE InOwnForest'  OBVIOUS
<1>0. InOwnForest /\ TypeOK /\ KeptUnderForest  BY DEF IInv
<1>1. ASSUME NEW o \in Op, NEW v, NEW c, Over(o, v, c), v # "ok"
      PROVE  InOwnForest'
  <2>1. \A p \in Op : verdict'[p] = "ok" => verdict[p] = "ok" /\ via'[p] = via[p]
    BY <1>0, <1>1 DEF Over, TypeOK
  <2> QED  BY <1>0, <2>1, ContextsStay DEF InOwnForest
<1>2. CASE Process
  <2>1. op \in Op /\ pc = "process"  BY <1>0, <1>2 DEF Process, TypeOK
  <2>2. ASSUME Over(op, "ok", Chosen) PROVE InOwnForest'
    <3>1. \A p \in Op : IF p = op THEN via'[p] = Chosen
                        ELSE verdict'[p] = verdict[p] /\ via'[p] = via[p]
      BY <1>0, <2>2 DEF Over, TypeOK
    <3>2. ctx[op] # OwnContext =>
             Chosen.forest = ctx[op].forest /\ OfForest(ctx[op].forest, Chosen.host)
      BY <1>0, <2>1, ChosenType DEF KeptUnderForest
    <3>3. ctx[op] = OwnContext => Chosen = OwnConnection
      BY <1>0, <2>1, ChosenType
    <3> QED  BY <1>0, <3>1, <3>2, <3>3, ContextsStay DEF InOwnForest
  <2> QED  BY <1>1, <1>2, <2>1, <2>2 DEF Process
<1>3. CASE HostFails
  <2>1. CASE UNCHANGED <<verdict, via>>
    BY <1>0, <2>1, ContextsStay DEF InOwnForest
  <2> QED  BY <1>0, <1>1, <1>3, <2>1 DEF HostFails, TypeOK
<1>4. ASSUME NEW o \in Op, Route(o) PROVE InOwnForest'
  <2>1. CASE UNCHANGED <<verdict, via>>
    BY <1>0, <2>1, ContextsStay DEF InOwnForest
  <2> QED  BY <1>1, <1>4, <2>1 DEF Route
<1>5. CASE (\E h \in Server, s \in DcState : Flip(h, s)) \/ Bound \/ Unbind \/ UNCHANGED vars
  <2>1. UNCHANGED <<verdict, via>>  BY <1>5 DEF Flip, Bound, Unbind, vars
  <2> QED  BY <1>0, <2>1, ContextsStay DEF InOwnForest
<1> QED  BY <1>2, <1>3, <1>4, <1>5 DEF Next

LEMMA FailsOverFirstNext == IInv /\ [Next]_vars => FailsOverFirst'
<1> SUFFICES ASSUME IInv, [Next]_vars PROVE FailsOverFirst'  OBVIOUS
<1>0. FailsOverFirst /\ TypeOK  BY DEF IInv
<1>1. CASE \E h \in Server, s \in DcState : Flip(h, s)
  <2>1. /\ steady' \subseteq steady
        /\ UNCHANGED <<pc, verdict, ctx, op>>
    BY <1>1 DEF Flip
  <2> QED  BY <1>0, <2>1 DEF FailsOverFirst
<1>2. ASSUME NEW o \in Op, Route(o), pc' = "next", verdict'[op'] = "unreachable"
      PROVE  \A h : ~Names(ctx'[op'], h)
  <2>1. op' = o /\ ctx' = ctx  BY <1>2 DEF Route
  <2>2. ~Over(o, "failed", NoConnection)
    BY <1>0, <1>2, <2>1 DEF Over, TypeOK
  <2>3. Hosts(ctx[o]) = << >>
    BY <1>2, <2>2 DEF Route
  <2> QED  BY <2>1, <2>3, NoHosts DEF Names
<1>3. ASSUME HostFails, pc' = "next", CanBind(ctx[op]), NEW h \in steady
      PROVE  ~Names(ctx[op], h)
  <2>1. /\ pc = "connect" /\ hosts # << >> /\ Tail(hosts) = << >>
        /\ dc[Head(hosts)] # "up"
    BY <1>0, <1>3 DEF HostFails, TypeOK, NextHosts
  <2>2. SUFFICES ASSUME Names(ctx[op], h) PROVE FALSE  OBVIOUS
  <2>3. PICK j \in DOMAIN hosts : hosts[j] = h
    BY <1>3, <2>1, <2>2 DEF IInv, StillToTry
  <2>4. j = 1  BY <1>0, <2>1, HostsLeft, NoHosts
  <2> QED  BY <1>0, <1>3, <2>1, <2>3, <2>4, HostsLeft DEF IInv, SteadyIsUp
<1>4. ASSUME Process PROVE FailsOverFirst'
  BY <1>0, <1>4 DEF Process, Over, TypeOK, FailsOverFirst
<1>5. CASE Bound \/ Unbind
  BY <1>5 DEF Bound, Unbind, FailsOverFirst
<1>6. CASE UNCHANGED vars
  BY <1>0, <1>6 DEF vars, FailsOverFirst
<1>7. ASSUME NEW o \in Op, Route(o) PROVE FailsOverFirst'
  BY <1>2, <1>7 DEF FailsOverFirst
<1>8. ASSUME HostFails PROVE FailsOverFirst'
  <2>1. UNCHANGED <<ctx, op, steady>>  BY <1>8 DEF HostFails
  <2> QED  BY <1>3, <1>8, <2>1 DEF FailsOverFirst
<1> QED  BY <1>1, <1>4, <1>5, <1>6, <1>7, <1>8 DEF Next

(* The end of an operation is its only verdict.                            *)
LEMMA OverSettles ==
  ASSUME TypeOK, Turns, NEW o \in Op, NEW v \in {"ok", "failed", "unreachable"}, NEW c,
         Over(o, v, c), todo' = todo \ {o}, pc # "over",
         o \in todo \/ (pc \in {"connect", "process"} /\ o = op),
         o \in todo => pc \notin {"connect", "process"}
  PROVE  Turns'
<1>1. \A p \in Op : verdict'[p] = IF p = o THEN v ELSE verdict[p]
  BY DEF Over, TypeOK
<1>2. pc' = "next"  BY DEF Over
<1>3. Unsettled = Unsettled' \cup {o} /\ o \notin Unsettled'
  BY <1>2 DEF Unsettled, Turns
<1>4. \A p \in Op : verdict'[p] = "none" <=> p \in Unsettled'
  BY <1>1, <1>3 DEF Turns
<1> QED  BY <1>2, <1>4 DEF Turns

LEMMA TurnsNext == IInv /\ [Next]_vars => Turns'
<1> SUFFICES ASSUME IInv, [Next]_vars PROVE Turns'  OBVIOUS
<1>0. Turns /\ TypeOK  BY DEF IInv
<1>1. ASSUME NEW o \in Op, Route(o) PROVE Turns'
  <2>1. pc = "next" /\ o \in todo /\ op' = o /\ todo' = todo \ {o}  BY <1>1 DEF Route
  <2>2. CASE \/ Over(o, "failed", NoConnection)
             \/ Over(o, "unreachable", NoConnection)
    BY <1>0, <2>1, <2>2, OverSettles
  <2>3. CASE pc' \in {"connect", "process"} /\ UNCHANGED verdict
    BY <1>0, <2>1, <2>3 DEF Turns, Unsettled
  <2> QED  BY <1>1, <2>2, <2>3 DEF Route
<1>2. CASE HostFails
  <2>1. pc = "connect" /\ UNCHANGED <<todo, op>> /\ op \notin todo /\ op \in Op
    BY <1>0, <1>2 DEF HostFails, Turns, TypeOK
  <2>2. CASE Over(op, "unreachable", NoConnection)
    BY <1>0, <2>1, <2>2, OverSettles
  <2>3. CASE UNCHANGED <<pc, verdict>>
    BY <1>0, <2>1, <2>3 DEF Turns, Unsettled
  <2> QED  BY <1>2, <2>2, <2>3 DEF HostFails
<1>3. CASE Process
  <2>1. pc = "process" /\ UNCHANGED <<todo, op>> /\ op \notin todo /\ op \in Op
    BY <1>0, <1>3 DEF Process, Turns, TypeOK
  <2>2. PICK v \in {"ok", "failed"} : Over(op, v, Chosen)  BY <1>3 DEF Process
  <2> QED  BY <1>0, <2>1, <2>2, OverSettles
<1>4. CASE Bound
  BY <1>0, <1>4 DEF Bound, Turns, Unsettled
<1>5. CASE Unbind
  BY <1>0, <1>5 DEF Unbind, Turns, Unsettled
<1>6. CASE (\E h \in Server, s \in DcState : Flip(h, s)) \/ UNCHANGED vars
  <2>1. UNCHANGED <<todo, pc, op, verdict>>  BY <1>6 DEF Flip, vars
  <2> QED  BY <1>0, <2>1 DEF Turns, Unsettled
<1> QED  BY <1>1, <1>2, <1>3, <1>4, <1>5, <1>6 DEF Next

(* The inductive invariant: with the two properties below it says that a   *)
(* connection is kept under the forest it was opened for, and that what    *)
(* has been up throughout the turn is still to be tried.                   *)
THEOREM InvariantHolds == Spec => []IInv
<1>1. Init => IInv  BY InvInit
<1>2. IInv /\ [Next]_vars => IInv'
  <2> SUFFICES ASSUME IInv, [Next]_vars PROVE IInv'  OBVIOUS
  <2>1. TypeOK'  BY TypeNext DEF IInv
  <2> QED  BY <2>1, KeptUnderForestNext, SteadyIsUpNext, StillToTryNext, InOwnForestNext,
              FailsOverFirstNext, TurnsNext DEF IInv
<1> QED  BY <1>1, <1>2, PTL DEF Spec

(* An operation that process carries out is carried out in the forest of   *)
(* its own context, or in the agent's own directory if it has none.        *)
THEOREM InOwnForestHolds == Spec => []InOwnForest
<1>1. IInv => InOwnForest  BY DEF IInv
<1> QED  BY <1>1, InvariantHolds, PTL

(* connect_forest gives up on a forest only when none of the hosts it may  *)
(* be bound at has been up throughout the attempt.                         *)
THEOREM FailsOverFirstHolds == Spec => []FailsOverFirst
<1>1. IInv => FailsOverFirst  BY DEF IInv
<1> QED  BY <1>1, InvariantHolds, PTL
-----------------------------------------------------------------------------
(* ForestRouting implements Dispatch.                                      *)
home == [o \in Op |-> Home(ctx[o])]
at == [o \in Op |-> At(via[o])]
over == pc = "over"

(* Where operations are sent, told apart by their connections.             *)
LEMMA Directories ==
  ASSUME TypeOK, NEW o \in Op
  PROVE  /\ Home(ctx[o]) = OwnConnection <=> ctx[o] = OwnContext
         /\ Home(ctx[o]) = NoConnection <=> ctx[o] = Unreadable
         /\ At(OwnConnection) = OwnConnection /\ At(NoConnection) = NoConnection
<1>1. ctx[o] \in Context \cup {OwnContext, Unreadable}  BY DEF TypeOK
<1>2. ctx[o] \in Context => ctx[o].forest \in Forest
  BY ContextAssumption DEF ForestContext
<1> QED  BY <1>1, <1>2, ContextAssumption, StandInAssumption, ConnectionAssumption DEF Home, At

LEMMA ForeignHome ==
  ASSUME TypeOK, NEW o \in Op, ctx[o] \in Context
  PROVE  Home(ctx[o]) = ctx[o].forest /\ Home(ctx[o]) \notin {OwnConnection, NoConnection}
<1>1. ctx[o] # OwnContext /\ ctx[o] # Unreadable
  BY ContextAssumption, StandInAssumption
<1> QED  BY <1>1, Directories DEF Home

(* The end of an operation is a step of the Dispatch.                      *)
LEMMA OverDispatches ==
  ASSUME TypeOK, NEW o \in Op, NEW v \in {"ok", "failed", "unreachable"},
         NEW c \in ForestConnection \cup {OwnConnection, NoConnection},
         Over(o, v, c), ctx' = ctx, pc # "over", verdict[o] = "none"
  PROVE  Dispatched!Settle(o, v, At(c))
<1>1. verdict' = [verdict EXCEPT ![o] = v] /\ pc' = "next"  BY DEF Over
<1>2. via' = [via EXCEPT ![o] = c] /\ via \in [Op -> ForestConnection \cup {OwnConnection, NoConnection}]
  BY DEF Over, TypeOK
<1>3. at' = [at EXCEPT ![o] = At(c)]
  BY <1>2 DEF at
<1>4. home' = home  BY DEF home
<1>5. ~over /\ over' = over  BY <1>1 DEF over
<1> QED  BY <1>1, <1>3, <1>4, <1>5 DEF Dispatched!Settle, home, at, over

LEMMA RefinementInit == Init => Dispatched!Init
<1> SUFFICES ASSUME Init PROVE Dispatched!Init  OBVIOUS
<1>1. at = [o \in Op |-> NoConnection]
  <2>1. At(NoConnection) = NoConnection  BY ConnectionAssumption DEF At
  <2> QED  BY <2>1 DEF Init, at
<1>2. verdict = [o \in Op |-> "none"] /\ over = FALSE  BY DEF Init, over
<1> QED  BY <1>1, <1>2 DEF Dispatched!Init, at, over

(* A step that settles nothing is none of the Dispatch's.                  *)
LEMMA Unseen ==
  ASSUME UNCHANGED <<ctx, verdict, via>>, over' = over
  PROVE  UNCHANGED <<home, verdict, at, over>>
  BY DEF home, at

LEMMA RefinementNext ==
  IInv /\ [Next]_vars => [Dispatched!Next]_<<home, verdict, at, over>>
<1> SUFFICES ASSUME IInv, [Next]_vars
             PROVE  Dispatched!Next \/ UNCHANGED <<home, verdict, at, over>>
  OBVIOUS
<1>0. TypeOK /\ Turns /\ KeptUnderForest /\ op \in Op  BY DEF IInv, TypeOK
<1>1. ASSUME NEW o \in Op, Route(o)
      PROVE  Dispatched!Next \/ UNCHANGED <<home, verdict, at, over>>
  <2>1. pc = "next" /\ o \in todo /\ verdict[o] = "none" /\ ctx' = ctx
    BY <1>0, <1>1 DEF Route, Turns, Unsettled
  <2>2. CASE ctx[o] = Unreadable /\ Over(o, "failed", NoConnection)
    <3>1. Dispatched!Settle(o, "failed", NoConnection)
      BY <1>0, <2>1, <2>2, OverDispatches, Directories
    <3>2. home[o] = NoConnection  BY <1>0, <2>2, Directories DEF home
    <3> QED  BY <3>1, <3>2 DEF Dispatched!Next, Dispatched!Refuse, home
  <2>3. CASE Uncached(ctx[o]) /\ Over(o, "unreachable", NoConnection)
    <3>1. Dispatched!Settle(o, "unreachable", NoConnection)
      BY <1>0, <2>1, <2>3, OverDispatches, Directories
    <3>2. home[o] \notin {OwnConnection, NoConnection}
      BY <1>0, <2>3, ForeignHome DEF Uncached, home
    <3> QED  BY <3>1, <3>2 DEF Dispatched!Next, Dispatched!Refuse, home
  <2>4. CASE pc' \in {"connect", "process"} /\ UNCHANGED <<verdict, via>>
    <3>1. over' = over  BY <2>1, <2>4 DEF over
    <3> QED  BY <2>1, <2>4, <3>1, Unseen
  <2> QED  BY <1>1, <2>2, <2>3, <2>4 DEF Route
<1>2. CASE HostFails
  <2>1. pc = "connect" /\ verdict[op] = "none" /\ ctx' = ctx /\ ctx[op] \in Context
    BY <1>0, <1>2 DEF HostFails, Turns, Unsettled, TypeOK, Uncached
  <2>2. CASE Over(op, "unreachable", NoConnection)
    <3>1. Dispatched!Settle(op, "unreachable", NoConnection)
      BY <1>0, <2>1, <2>2, OverDispatches, Directories
    <3>2. home[op] \notin {OwnConnection, NoConnection}
      BY <1>0, <2>1, ForeignHome DEF home
    <3> QED  BY <1>0, <3>1, <3>2 DEF Dispatched!Next, Dispatched!Refuse, home
  <2>3. CASE UNCHANGED <<pc, verdict, via>>
    <3>1. over' = over  BY <2>3 DEF over
    <3> QED  BY <2>1, <2>3, <3>1, Unseen
  <2> QED  BY <1>2, <2>2, <2>3 DEF HostFails
<1>3. CASE Process
  <2>1. pc = "process" /\ verdict[op] = "none" /\ ctx' = ctx
    BY <1>0, <1>3 DEF Process, Turns, Unsettled
  <2>2. PICK v \in {"ok", "failed"} : Over(op, v, Chosen)  BY <1>3 DEF Process
  <2>3. Chosen \in ForestConnection \cup {OwnConnection}  BY <1>0, <2>1, ChosenType
  <2>4. At(Chosen) = home[op] /\ home[op] # NoConnection
    <3>1. CASE ctx[op] = OwnContext
      BY <1>0, <3>1, Directories, ConnectionAssumption, StandInAssumption DEF Chosen, home, Home
    <3>2. CASE ctx[op] # OwnContext
      <4>1. ctx[op] \in Context /\ ctx[op].forest \in DOMAIN conns
        BY <1>0, <2>1, <3>2 DEF TypeOK
      <4>2. Chosen = conns[ctx[op].forest]  BY <3>2 DEF Chosen
      <4>3. Chosen \in ForestConnection /\ Chosen.forest = ctx[op].forest
        BY <1>0, <4>1, <4>2 DEF TypeOK, KeptUnderForest
      <4>4. home[op] = ctx[op].forest /\ home[op] # NoConnection
        BY <1>0, <4>1, ForeignHome DEF home
      <4> QED  BY <4>3, <4>4 DEF At
    <3> QED  BY <3>1, <3>2
  <2>5. Dispatched!Settle(op, v, home[op])
    BY <1>0, <2>1, <2>2, <2>3, <2>4, OverDispatches
  <2> QED  BY <1>0, <2>4, <2>5 DEF Dispatched!Next, Dispatched!Serve, home
<1>4. CASE Unbind
  <2>1. pc = "next" /\ pc' = "over" /\ todo = {} /\ UNCHANGED <<ctx, verdict, via>>
    BY <1>4 DEF Unbind
  <2>2. \A o \in Op : verdict[o] # "none"  BY <1>0, <2>1 DEF Turns, Unsettled
  <2>3. home' = home /\ at' = at /\ ~over /\ over' = TRUE  BY <2>1 DEF home, at, over
  <2> QED  BY <2>1, <2>2, <2>3 DEF Dispatched!Next, Dispatched!Close, home, at, over
<1>5. CASE (\E h \in Server, s \in DcState : Flip(h, s)) \/ UNCHANGED vars
  <2>1. UNCHANGED <<ctx, pc, verdict, via>>  BY <1>5 DEF Flip, vars
  <2> QED  BY <2>1, Unseen DEF over
<1>6. CASE Bound
  <2>1. UNCHANGED <<ctx, verdict, via>> /\ pc = "connect" /\ pc' = "process"  BY <1>6 DEF Bound
  <2> QED  BY <2>1, Unseen DEF over
<1> QED  BY <1>1, <1>2, <1>3, <1>4, <1>5, <1>6 DEF Next

(* To the broker a pass is a Dispatch: whatever hosts refuse, come, go or  *)
(* hang, run_once gives each operation one verdict and carries it out in   *)
(* its own directory or not at all.                                        *)
THEOREM ImplementsDispatchHolds == Spec => ImplementsDispatch
<1>1. Init => Dispatched!Init  BY RefinementInit
<1>2. IInv /\ [Next]_vars => [Dispatched!Next]_<<home, verdict, at, over>>
  BY RefinementNext
<1>3. Spec => Dispatched!Spec
  BY <1>1, <1>2, InvariantHolds, PTL DEF Spec, Dispatched!Spec, home, at, over
<1> QED  BY <1>3 DEF ImplementsDispatch
-----------------------------------------------------------------------------
(* Every step of the pass brings it closer to its end.                     *)
LEMMA StepsAdvance == TypeOK /\ [Next]_vars => [Advances \/ DcChanges]_vars
<1> SUFFICES ASSUME TypeOK, Next PROVE Advances \/ DcChanges  BY DEF vars
<1>1. ASSUME NEW h \in Server, NEW s \in DcState, Flip(h, s) PROVE DcChanges
  <2>1. dc' # dc  BY <1>1 DEF Flip, TypeOK
  <2> QED  BY <1>1, <2>1 DEF Flip, DcChanges
<1>2. ASSUME NEW o \in Op, Route(o) PROVE Advances
  <2>1. o \in todo /\ todo' = todo \ {o}  BY <1>2 DEF Route
  <2> QED  BY <2>1 DEF Advances
<1>3. CASE Bound
  BY <1>3 DEF Bound, Advances, StepsLeft
<1>4. CASE HostFails
  <2>1. pc = "connect" /\ todo' = todo /\ hosts # << >>  BY <1>4 DEF HostFails, TypeOK
  <2>2. CASE pc' = "next"
    BY <2>1, <2>2 DEF Advances, StepsLeft
  <2>3. CASE pc' = pc /\ hosts' = Tail(hosts)
    <3>1. Len(Tail(hosts)) = Len(hosts) - 1 /\ Len(hosts) \in Nat
      <4>1. hosts \in Seq(Host)  BY DEF TypeOK
      <4> QED  BY <2>1, <4>1, HeadTailProperties, LenProperties
    <3>2. Len(hosts') < Len(hosts)  BY <2>3, <3>1
    <3> QED  BY <2>1, <2>3, <3>2 DEF Advances
  <2> QED  BY <1>4, <2>2, <2>3 DEF HostFails, Over, NextHosts
<1>5. CASE Process
  BY <1>5 DEF Process, Over, Advances, StepsLeft
<1>6. CASE Unbind
  BY <1>6 DEF Unbind, Advances, StepsLeft
<1> QED  BY <1>1, <1>2, <1>3, <1>4, <1>5, <1>6 DEF Next

(* A pass never goes back, whatever the domain controllers do: of PassEnds *)
(* what can be said without fairness.                                      *)
THEOREM NeverGoesBackHolds == Spec => NeverGoesBack
<1>1. TypeOK /\ [Next]_vars => [Advances \/ DcChanges]_vars  BY StepsAdvance
<1> QED  BY <1>1, TypeCorrect, PTL DEF Spec, NeverGoesBack
=============================================================================
