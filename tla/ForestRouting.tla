--------------------------- MODULE ForestRouting ---------------------------
(***************************************************************************)
(* How a drain pass finds the directory for each of its operations:        *)
(* route_and_process of src/src/modes/ad.rs, connect_forest of             *)
(* src/src/connectors/ldap.rs.                                             *)
(*                                                                         *)
(* The broker stamps an operation with a forest context, or not.  One with *)
(* a context goes to a domain controller of that forest, over a connection *)
(* that is opened when first needed, by trying the hosts of the context in *)
(* turn, and kept for later operations of the pass.  One without goes over *)
(* the connection to the agent's own directory, which is there before the  *)
(* batch is.                                                               *)
(*                                                                         *)
(* What an operation does over its connection is in AdSync; here it is one *)
(* step.  Domain controllers are external: one that is up accepts a bind   *)
(* that has what it needs, one that rejects does not, but serves those it  *)
(* has accepted, one that is down refuses the connection, and one that is  *)
(* silent lets itself be connected to and answers no request.  No request  *)
(* to any of them has a timeout.                                           *)
(***************************************************************************)
EXTENDS Integers, Sequences

CONSTANTS
    Op,          \* the operations of the batch
    Forest, Host,
    OwnHost,     \* the domain controller of the agent's own directory
    Base,        \* distinguished names to search below
    Context,     \* forest contexts the broker may stamp on an operation
    OwnContext,  \* stands for no context: the agent's own directory
    Unreadable,  \* stands for a context that does not parse
    NoTarget,    \* stands for an operation without targetBaseDn
    OwnConnection,   \* the connection to the agent's own directory
    NoConnection,    \* stands for no connection
    Kerberos,    \* is the agent built with the kerberos feature?
    MayHang,     \* may a domain controller be silent?
    MaxFlips     \* bound: how often a domain controller changes

(* servers and gc (globalCatalogHost: none or one) in the order to try;    *)
(* gssapi: useGmsa or SASL_KERBEROS; account: there is a service account   *)
(* with a password that decrypts; target: targetBaseDn of the operation.   *)
ForestContext == [forest : Forest, servers : Seq(Host), gc : Seq(Host), root : Base,
                  target : Base \cup {NoTarget}, gssapi : BOOLEAN, account : BOOLEAN]

ASSUME OpAssumption == Op # {}
ASSUME ContextAssumption == Context \subseteq ForestContext
ASSUME StandInAssumption ==
    /\ OwnContext \notin ForestContext /\ Unreadable \notin ForestContext
    /\ OwnContext # Unreadable /\ NoTarget \notin Base
ASSUME SwitchAssumption ==
    Kerberos \in BOOLEAN /\ MayHang \in BOOLEAN /\ MaxFlips \in Nat

Server == Host \cup {OwnHost}
DcState == {"up", "rejects", "down"} \cup IF MayHang THEN {"silent"} ELSE {}
ForestConnection == [forest : Forest, host : Host, base : Base, broken : BOOLEAN]
ASSUME ConnectionAssumption ==
    /\ OwnConnection \notin ForestConnection \cup Forest
    /\ NoConnection \notin ForestConnection \cup Forest
    /\ OwnConnection # NoConnection

VARIABLES
    ctx,         \* the context of each operation
    todo,        \* the operations that have not had their turn
    pc, op,      \* what the pass is doing, and for which operation
    hosts,       \* the hosts still to try
    conns,       \* forest_conns: forest -> connection
    verdict,     \* what came of each operation
    via,         \* history: the connection it went over
    own,         \* the connection to the own directory: up, or broken
    dc,          \* each domain controller: up, rejects, down or silent
    steady,      \* history: those that have been up throughout this turn
    flips        \* how often one has changed

vars == <<ctx, todo, pc, op, hosts, conns, verdict, via, own, dc, steady, flips>>

Init ==
    /\ ctx \in [Op -> Context \cup {OwnContext, Unreadable}]
    /\ todo = Op /\ pc = "next" /\ hosts = << >>
    /\ op = CHOOSE o \in Op : TRUE
    /\ conns = << >>
    /\ verdict = [o \in Op |-> "none"] /\ via = [o \in Op |-> NoConnection]
    /\ dc \in [Server -> DcState] /\ steady = {} /\ flips = 0
    /\ own = IF dc[OwnHost] = "down" THEN "broken" ELSE "up"
-----------------------------------------------------------------------------
(* A domain controller changes.  No connection survives its going down.    *)
Flip(h, s) ==
    /\ flips < MaxFlips /\ flips' = flips + 1
    /\ dc[h] # s /\ dc' = [dc EXCEPT ![h] = s]
    /\ steady' = steady \ {h}
    /\ conns' = [f \in DOMAIN conns |->
                    IF s = "down" /\ conns[f].host = h THEN [conns[f] EXCEPT !.broken = TRUE]
                    ELSE conns[f]]
    /\ own' = IF s = "down" /\ h = OwnHost THEN "broken" ELSE own
    /\ UNCHANGED <<ctx, todo, pc, op, hosts, verdict, via>>
-----------------------------------------------------------------------------
(* ForestContext::hosts.                                                   *)
Hosts(c) == IF c.servers # << >> THEN c.servers ELSE c.gc

(* A bind needs what its method needs.                                     *)
CanBind(c) == IF c.gssapi THEN Kerberos ELSE c.account

(* The connection that connect_forest returns.                             *)
Connection(c, h) ==
    [forest |-> c.forest, host |-> h,
     base |-> IF c.target # NoTarget THEN c.target ELSE c.root, broken |-> FALSE]

(* The operation is over.                                                  *)
Over(o, v, c) ==
    /\ verdict' = [verdict EXCEPT ![o] = v]
    /\ via' = [via EXCEPT ![o] = c]
    /\ pc' = "next" /\ hosts' = << >>

(* Slip: one connection is kept, for whatever forest.                      *)
UncachedAtAll(c) == c \in Context /\ DOMAIN conns = {}

(* No connection to the forest is kept yet.                                *)
Uncached(c) == c \in Context /\ c.forest \notin DOMAIN conns

(* route_and_process, up to its first await.                               *)
Route(o) ==
    /\ pc = "next" /\ o \in todo
    /\ op' = o /\ todo' = todo \ {o}
    /\ steady' = {h \in Host : dc[h] = "up"}
    /\ \/ ctx[o] = Unreadable /\ Over(o, "failed", NoConnection)
       \/ Uncached(ctx[o]) /\ Hosts(ctx[o]) = << >> /\ Over(o, "unreachable", NoConnection)
       \/ /\ Uncached(ctx[o]) /\ Hosts(ctx[o]) # << >>
          /\ pc' = "connect" /\ hosts' = Hosts(ctx[o])
          /\ UNCHANGED <<verdict, via>>
       \/ /\ ctx[o] # Unreadable /\ ~Uncached(ctx[o])
          /\ pc' = "process"
          /\ UNCHANGED <<hosts, verdict, via>>
    /\ UNCHANGED <<ctx, conns, own, dc, flips>>

(* connect_forest: the next host accepts the bind, and the connection is   *)
(* kept.                                                                   *)
Bound ==
    /\ pc = "connect"
    /\ dc[Head(hosts)] = "up" /\ CanBind(ctx[op])
    /\ conns' = [f \in DOMAIN conns \cup {ctx[op].forest} |->
                    IF f = ctx[op].forest THEN Connection(ctx[op], Head(hosts)) ELSE conns[f]]
    /\ pc' = "process" /\ hosts' = << >>
    /\ UNCHANGED <<ctx, todo, op, verdict, via, own, dc, steady, flips>>

(* Slips: the first host that fails is the last one tried; it is tried     *)
(* again and again; it is tried again after the others.                    *)
GiveUp == << >>
TryAgain == hosts
TryLater == Append(Tail(hosts), Head(hosts))

NextHosts == Tail(hosts)

(* connect_forest: this host fails; if it is the last, so does the         *)
(* operation, and nothing is kept.                                         *)
HostFails ==
    /\ pc = "connect"
    /\ dc[Head(hosts)] \in {"down", "rejects"} \/ ~CanBind(ctx[op])
    /\ IF NextHosts = << >> THEN Over(op, "unreachable", NoConnection)
       ELSE hosts' = NextHosts /\ UNCHANGED <<pc, verdict, via>>
    /\ UNCHANGED <<ctx, todo, op, conns, own, dc, steady, flips>>

(* Slip: whatever forest connection there is serves.                       *)
AnyConnection ==
    IF DOMAIN conns = {} THEN OwnConnection ELSE conns[CHOOSE f \in DOMAIN conns : TRUE]

(* The connection that process is given.                                   *)
Chosen == IF ctx[op] = OwnContext THEN OwnConnection ELSE conns[ctx[op].forest]

Broken(c) == IF c = OwnConnection THEN own = "broken" ELSE c.broken
HostOf(c) == IF c = OwnConnection THEN OwnHost ELSE c.host
Hangs(c) == ~Broken(c) /\ dc[HostOf(c)] = "silent"

(* process: the operation is done over its connection, or it fails.        *)
Process ==
    /\ pc = "process"
    /\ ~Hangs(Chosen)
    /\ \/ ~Broken(Chosen) /\ Over(op, "ok", Chosen)
       \/ Over(op, "failed", Chosen)
    /\ UNCHANGED <<ctx, todo, op, conns, own, dc, steady, flips>>

(* The pass is over: every connection is unbound.                          *)
Unbind ==
    /\ pc = "next" /\ todo = {}
    /\ pc' = "over" /\ conns' = << >>
    /\ UNCHANGED <<ctx, todo, op, hosts, verdict, via, own, dc, steady, flips>>

Next ==
    \/ \E h \in Server, s \in DcState : Flip(h, s)
    \/ \E o \in Op : Route(o)
    \/ Bound \/ HostFails \/ Process \/ Unbind

Spec == Init /\ [][Next]_vars

(* The pass goes on where it can; nothing is assumed of a silent host.     *)
FairSpec ==
    Spec /\ WF_vars((\E o \in Op : Route(o)) \/ Bound \/ HostFails \/ Process \/ Unbind)
-----------------------------------------------------------------------------
(* Every variable holds a value of the kind the code gives it; while it    *)
(* connects, the pass has a host to try, and while it processes an         *)
(* operation with a context, a connection to its forest.                   *)
TypeOK ==
    /\ ctx \in [Op -> Context \cup {OwnContext, Unreadable}]
    /\ todo \subseteq Op /\ op \in Op
    /\ pc \in {"next", "connect", "process", "over"}
    /\ hosts \in Seq(Host)
    /\ DOMAIN conns \subseteq Forest
    /\ \A f \in DOMAIN conns : conns[f] \in ForestConnection
    /\ verdict \in [Op -> {"none", "ok", "failed", "unreachable"}]
    /\ via \in [Op -> ForestConnection \cup {OwnConnection, NoConnection}]
    /\ own \in {"up", "broken"} /\ dc \in [Server -> DcState]
    /\ steady \subseteq Host /\ flips \in 0..MaxFlips
    /\ pc = "connect" => hosts # << >> /\ Uncached(ctx[op])
    /\ pc = "process" /\ ctx[op] # OwnContext =>
          ctx[op] \in Context /\ ctx[op].forest \in DOMAIN conns

Names(c, h) == \E i \in DOMAIN Hosts(c) : Hosts(c)[i] = h

OfForest(f, h) == \E p \in Op : ctx[p] \in Context /\ ctx[p].forest = f /\ Names(ctx[p], h)

(* An operation is carried out in its own forest, at a host that the       *)
(* context of some operation of that forest names.                         *)
InOwnForest ==
    \A o \in Op : verdict[o] = "ok" =>
        IF ctx[o] = OwnContext THEN via[o] = OwnConnection
        ELSE /\ via[o].forest = ctx[o].forest
             /\ OfForest(ctx[o].forest, via[o].host)

(* Failover: an operation only fails to reach its forest if none of the    *)
(* hosts it may be bound at has been up throughout its turn; it does not   *)
(* matter how earlier operations of the pass fared.                        *)
FailsOverFirst ==
    pc = "next" /\ verdict[op] = "unreachable" /\ CanBind(ctx[op]) =>
        \A h \in steady : ~Names(ctx[op], h)

(* To the broker the pass is a Dispatch of its batch.                      *)
Home(c) == IF c = OwnContext THEN OwnConnection
           ELSE IF c = Unreadable THEN NoConnection ELSE c.forest
At(c) == IF c \in ForestConnection THEN c.forest ELSE c
Dispatched == INSTANCE Dispatch WITH
    Own <- OwnConnection, Nowhere <- NoConnection,
    home <- [o \in Op |-> Home(ctx[o])], at <- [o \in Op |-> At(via[o])],
    over <- pc = "over"

(* route_and_process and the loop of run_once give every operation of the  *)
(* batch one verdict, and carry it out in its own directory or not at all: *)
(* a host that fails, a context that does not parse and a connection that  *)
(* breaks keep no other operation from its turn, and none has two turns.   *)
ImplementsDispatch == Dispatched!Spec

(* No step of a pass goes back: an operation that has begun its turn is    *)
(* not begun again, one that is connecting has fewer hosts left with each  *)
(* that fails, and one that processes does not connect again.  Only domain *)
(* controllers change without end; the pass itself, whatever they do, is   *)
(* over after a number of steps that its batch and its contexts bound.     *)
StepsLeft == CASE pc = "connect" -> 3 [] pc = "process" -> 2 [] pc = "next" -> 1
               [] pc = "over" -> 0
Advances ==
    \/ todo' \subseteq todo /\ todo' # todo
    \/ todo' = todo /\ StepsLeft' < StepsLeft
    \/ todo' = todo /\ pc = "connect" /\ pc' = pc /\ Len(hosts') < Len(hosts)
DcChanges == dc' # dc /\ UNCHANGED <<ctx, todo, pc, op, hosts, verdict, via>>

NeverGoesBack == [][Advances \/ DcChanges]_vars

(* A pass comes to its end, unless a domain controller, the agent's own or *)
(* another, falls silent for good; hosts that refuse or reject, come and   *)
(* go do not keep it.                                                      *)
PassEnds == <>(pc = "over") \/ <>[](\E h \in Server : dc[h] = "silent")

(* Failover goes on: with a host that is up still to be tried, connecting  *)
(* comes to an end.                                                        *)
FailoverGoesOn ==
    (pc = "connect" /\ \E i \in 2..Len(hosts) : dc[hosts[i]] = "up") ~> pc # "connect"

(* An operation searches below its own target base DN, or below the root   *)
(* of its forest if it has none.                                           *)
BaseIsOwn ==
    \A o \in Op : verdict[o] = "ok" /\ ctx[o] \in Context =>
        via[o].base = IF ctx[o].target # NoTarget THEN ctx[o].target ELSE ctx[o].root
-----------------------------------------------------------------------------
(* Why InOwnForest and FailsOverFirst are inductive: a connection is kept  *)
(* under the forest it was opened for, and while the pass connects, what   *)
(* has been up throughout the turn is still to be tried.  And why the pass *)
(* implements Dispatch: who has no verdict still has a turn.               *)
KeptUnderForest ==
    \A f \in DOMAIN conns : conns[f].forest = f /\ OfForest(f, conns[f].host)

SteadyIsUp == \A h \in steady : dc[h] = "up"

StillToTry ==
    pc = "connect" =>
        /\ \A j \in DOMAIN hosts : Names(ctx[op], hosts[j])
        /\ CanBind(ctx[op]) =>
              \A h \in steady : Names(ctx[op], h) => \E j \in DOMAIN hosts : hosts[j] = h

Unsettled == todo \cup (IF pc \in {"connect", "process"} THEN {op} ELSE {})

Turns ==
    /\ \A o \in Op : verdict[o] = "none" <=> o \in Unsettled
    /\ pc \in {"connect", "process"} => op \notin todo
    /\ pc = "over" => todo = {}

IInv ==
    /\ TypeOK /\ Turns
    /\ KeptUnderForest /\ SteadyIsUp /\ StillToTry
    /\ InOwnForest /\ FailsOverFirst
=============================================================================
