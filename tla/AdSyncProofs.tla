---------------------------- MODULE AdSyncProofs ----------------------------
(***************************************************************************)
(* Proofs about AdSync, for any operations, batch size and number of       *)
(* faults, with and without redelivery.                                    *)
(***************************************************************************)
EXTENDS AdSync, SequenceTheorems, TLAPS

(* The parts of TypeOK that an action of one party leaves to the others.   *)
AgentOK ==
    /\ pc \in Await
    /\ conn \in {"none", "up", "broken"}
    /\ call \in {"none", "sent", "ok", "refused"}
    /\ batch \in Seq(Op) /\ step \in Nat /\ result \in BOOLEAN
    /\ counters \in SyncCounters
    /\ call # "none" => pc \in {"poll", "ldap", "complete"}
    /\ pc \in {"poll", "ldap"} => conn = "up"
    /\ pc \in {"ldap", "complete"} => batch # << >>
    /\ pc = "ldap" => step \in 1..Len(Script(Head(batch)))

WorldOK ==
    /\ status \in [Op -> Status] /\ queue \in Seq(Op)
    /\ accounts \subseteq Account /\ served \subseteq Op \X Nat
    /\ late \subseteq Request

RestOK ==
    /\ signal \in BOOLEAN /\ faults \in 0..MaxFaults
    /\ passLog \subseteq Op \X BOOLEAN /\ audited \subseteq Op \X BOOLEAN

LEMMA TypeOKParts == TypeOK <=> AgentOK /\ WorldOK /\ RestOK
  BY DEF TypeOK, AgentOK, WorldOK, RestOK

LEMMA ScriptLength ==
  \A o \in Op : /\ Len(Script(o)) \in Nat
                /\ Script(o) # << >> => 1 \in 1..Len(Script(o))
<1> SUFFICES ASSUME NEW o \in Op
             PROVE  /\ Len(Script(o)) \in Nat
                    /\ Script(o) # << >> => 1 \in 1..Len(Script(o))
  OBVIOUS
<1>1. \/ Script(o) = << >>
      \/ Script(o) = <<"add">>
      \/ Script(o) = <<"read">>
      \/ Script(o) = <<"find">>
      \/ Script(o) = <<"add", "unicodePwd">>
      \/ Script(o) = <<"find", "modify">>
  BY Zenon DEF Script, CreateRequests, SetUacRequests, UpdateRequests, SearchRequests
<1>2. /\ Len(<< >>) = 0 /\ Len(<<"add">>) = 1 /\ Len(<<"read">>) = 1
      /\ Len(<<"find">>) = 1
      /\ Len(<<"add", "unicodePwd">>) = 2 /\ Len(<<"find", "modify">>) = 2
  OBVIOUS
<1> QED  BY <1>1, <1>2

LEMMA EmptyIsSeq == << >> \in Seq(Op)
  OBVIOUS

LEMMA NoCountsType == NoCounts \in SyncCounters
  BY DEF NoCounts, SyncCounters

LEMMA RecordType ==
  \A ok \in BOOLEAN, c \in SyncCounters, o \in Op : Record(ok, c, o) \in SyncCounters
  BY DEF Record, SyncCounters

LEMMA FaultType ==
  RestOK /\ (Fault \/ UNCHANGED faults) => faults' \in 0..MaxFaults /\ faults' \in Nat
  BY BoundAssumption DEF RestOK, Fault

LEMMA OutstandingType == AgentOK /\ faults' \in Nat => Outstanding \subseteq Request
<1> SUFFICES ASSUME AgentOK, faults' \in Nat, call = "sent"
             PROVE  Outstanding \subseteq Request
  BY DEF Outstanding
<1>1. CASE pc = "poll"
  BY <1>1 DEF Outstanding, Request
<1>2. CASE pc \in {"ldap", "complete"}
  <2>1. Head(batch) \in Op
    BY <1>2 DEF AgentOK
  <2> QED  BY <1>2, <2>1 DEF Outstanding, Request, AgentOK
<1> QED  BY <1>1, <1>2 DEF AgentOK

LEMMA AbandonType ==
  ASSUME AgentOK, WorldOK, faults' \in Nat,
         NEW next \in {"down", "disconnect", "sleep"}, Abandon(next)
  PROVE  AgentOK' /\ passLog' = {} /\ late' \subseteq Request
<1>1. /\ pc' = next /\ conn' = "none" /\ call' = "none" /\ passLog' = {}
      /\ batch' = << >> /\ step' = 0 /\ result' = FALSE /\ counters' = NoCounts
  BY DEF Abandon
<1>3. AgentOK'
  <2>1. batch' \in Seq(Op) /\ step' \in Nat /\ result' \in BOOLEAN
    BY <1>1, EmptyIsSeq
  <2>2. counters' \in SyncCounters
    BY <1>1, NoCountsType
  <2>3. pc' \in Await /\ pc' \notin {"poll", "ldap", "complete"}
    BY <1>1 DEF Await
  <2> QED  BY <1>1, <2>1, <2>2, <2>3 DEF AgentOK
<1>2. late' \subseteq Request
  BY OutstandingType DEF Abandon, WorldOK
<1> QED  BY <1>1, <1>2, <1>3

LEMMA ClaimType ==
  ASSUME WorldOK, Claim
  PROVE  status' \in [Op -> Status] /\ queue' \in Seq(Op)
<1>1. ClaimCount \in 0..Len(queue)
  BY BatchAssumption DEF ClaimCount, WorldOK
<1>2. \A i \in (ClaimCount + 1)..Len(queue) : queue[i] \in Op
  BY <1>1 DEF WorldOK
<1>3. SubSeq(queue, ClaimCount + 1, Len(queue)) \in Seq(Op)
  BY <1>1, <1>2, SubSeqProperties DEF WorldOK
<1> QED  BY <1>3 DEF Claim, WorldOK, Status

LEMMA ClaimedType == WorldOK => SubSeq(queue, 1, ClaimCount) \in Seq(Op)
<1> SUFFICES ASSUME WorldOK PROVE SubSeq(queue, 1, ClaimCount) \in Seq(Op)
  OBVIOUS
<1>1. ClaimCount \in 0..Len(queue)
  BY BatchAssumption DEF ClaimCount, WorldOK
<1>2. \A i \in 1..ClaimCount : queue[i] \in Op
  BY <1>1 DEF WorldOK
<1> QED  BY <1>1, <1>2, SubSeqProperties

LEMMA CompleteType ==
  ASSUME WorldOK, NEW o \in Op, NEW ok \in BOOLEAN, Complete(o, ok)
  PROVE  status' \in [Op -> Status] /\ queue' \in Seq(Op)
  BY DEF Complete, WorldOK, Status

LEMMA ServeType ==
  ASSUME WorldOK, NEW o \in Op, NEW n \in Nat, Serve(o, n)
  PROVE  accounts' \subseteq Account /\ served' \subseteq Op \X Nat
<1>1. AcctOf[o] \in Account
  BY OpAssumption
<1> QED  BY <1>1 DEF Serve, WorldOK

LEMMA ProceedType ==
  ASSUME AgentOK, NEW ops \in Seq(Op), Proceed(ops), conn' = conn
  PROVE  AgentOK'
<1>1. CASE ops = << >>
  <2>1. /\ pc' = "unbind" /\ call' = "none" /\ step' = 0 /\ result' = FALSE
        /\ batch' = << >> /\ counters' = counters
    BY <1>1 DEF Proceed
  <2>2. batch' \in Seq(Op) /\ step' \in Nat /\ result' \in BOOLEAN
    BY <2>1, EmptyIsSeq
  <2> QED  BY <2>1, <2>2 DEF AgentOK, Await
<1>2. CASE ops # << >>
  <2>1. Head(ops) \in Op
    BY <1>2
  <2>2. CASE Script(Head(ops)) = << >> \/ conn # "up"
    <3>1. /\ pc' = "complete" /\ call' = "sent" /\ step' = 0 /\ result' = FALSE
          /\ batch' = ops /\ counters' = Record(FALSE, counters, Head(ops))
      BY <1>2, <2>2 DEF Proceed
    <3>2. counters' \in SyncCounters
      BY <2>1, <3>1, RecordType DEF AgentOK
    <3>3. step' \in Nat /\ result' \in BOOLEAN
      BY <3>1
    <3> QED  BY <1>2, <3>1, <3>2, <3>3 DEF AgentOK, Await
  <2>3. CASE Script(Head(ops)) # << >> /\ conn = "up"
    <3>1. 1 \in 1..Len(Script(Head(ops)))
      BY <2>1, <2>3, ScriptLength
    <3>2. /\ pc' = "ldap" /\ call' = "sent" /\ step' = 1 /\ result' = FALSE
          /\ batch' = ops /\ counters' = counters
      BY <1>2, <2>3 DEF Proceed
    <3>3. step' \in Nat /\ result' \in BOOLEAN
      BY <3>2
    <3> QED  BY <1>2, <2>3, <3>1, <3>2, <3>3 DEF AgentOK, Await
  <2> QED  BY <2>2, <2>3
<1> QED  BY <1>1, <1>2

LEMMA FinishType ==
  ASSUME AgentOK, pc = "ldap", NEW ok \in BOOLEAN, Finish(ok), batch' = batch,
         conn' \in {"none", "up", "broken"}
  PROVE  AgentOK'
<1>1. Head(batch) \in Op
  BY DEF AgentOK
<1> QED  BY <1>1, RecordType DEF Finish, AgentOK, Await
-----------------------------------------------------------------------------
LEMMA TypeInvariant == TypeOK /\ [Next]_vars => TypeOK'
<1> SUFFICES ASSUME TypeOK, [Next]_vars PROVE TypeOK'
  OBVIOUS
<1>0. AgentOK /\ WorldOK /\ RestOK
  BY TypeOKParts
<1> SUFFICES AgentOK' /\ WorldOK' /\ RestOK'
  BY TypeOKParts DEF TypeOK, AgentOK, WorldOK, RestOK
<1>1. ASSUME NEW o \in Op, Enqueue(o) PROVE AgentOK' /\ WorldOK' /\ RestOK'
  BY <1>0, <1>1 DEF Enqueue, agent, directory, AgentOK, WorldOK, RestOK, Status
<1>2. ASSUME NEW o \in Op, Requeue(o) PROVE AgentOK' /\ WorldOK' /\ RestOK'
  <2>1. faults' \in 0..MaxFaults
    BY <1>0, <1>2, FaultType DEF Requeue, RestOK
  <2> QED
    BY <1>0, <1>2, <2>1
    DEF Requeue, agent, directory, AgentOK, WorldOK, RestOK, Status
<1>3. ASSUME DirectoryServes PROVE AgentOK' /\ WorldOK' /\ RestOK'
  <2>1. Head(batch) \in Op /\ step \in Nat
    BY <1>0, <1>3 DEF DirectoryServes, AgentOK
  <2>2. accounts' \subseteq Account /\ served' \subseteq Op \X Nat
    BY <1>0, <1>3, <2>1, ServeType DEF DirectoryServes
  <2> QED
    BY <1>0, <1>3, <2>2 DEF DirectoryServes, broker, AgentOK, WorldOK, RestOK
<1>4. ASSUME DirectoryRefuses PROVE AgentOK' /\ WorldOK' /\ RestOK'
  BY <1>0, <1>4 DEF DirectoryRefuses, broker, directory, AgentOK, WorldOK, RestOK
<1>5. ASSUME NEW r \in late, LateArrival(r) PROVE AgentOK' /\ WorldOK' /\ RestOK'
  <2>1. late' \subseteq Request /\ r \in Request
    BY <1>0, <1>5 DEF LateArrival, WorldOK
  <2>2. AgentOK' /\ RestOK'
    BY <1>0, <1>5 DEF LateArrival, agent, AgentOK, RestOK
  <2>3. CASE r.to = "poll" /\ Claim /\ UNCHANGED directory
    BY <1>0, <2>1, <2>2, <2>3, ClaimType DEF directory, WorldOK
  <2>4. CASE r.to = "complete" /\ Complete(r.op, r.ok) /\ UNCHANGED directory
    <3>1. r.op \in Op /\ r.ok \in BOOLEAN
      BY <2>1, <2>4 DEF Request
    <3> QED  BY <1>0, <2>1, <2>2, <2>4, <3>1, CompleteType DEF directory, WorldOK
  <2>5. CASE r.to = "ldap" /\ Serve(r.op, r.step) /\ UNCHANGED broker
    <3>1. r.op \in Op /\ r.step \in Nat
      BY <2>1, <2>5 DEF Request
    <3> QED  BY <1>0, <2>1, <2>2, <2>5, <3>1, ServeType DEF broker, WorldOK
  <2> QED  BY <1>5, <2>2, <2>3, <2>4, <2>5 DEF LateArrival
<1>6. ASSUME Start \/ BeginPass \/ Connected \/ Unbound \/ Reported \/ Wake
      PROVE  AgentOK' /\ WorldOK' /\ RestOK'
  BY <1>0, <1>6
  DEF Start, BeginPass, Connected, Unbound, Reported, Wake, broker, directory,
      AgentOK, WorldOK, RestOK, Await, SyncCounters, NoCounts
<1>7. ASSUME PassFails PROVE AgentOK' /\ WorldOK' /\ RestOK'
  <2>1. AgentOK' /\ passLog' = {} /\ late' \subseteq Request
    BY <1>0, <1>7, AbandonType, FaultType DEF PassFails
  <2> QED
    BY <1>0, <1>7, <2>1, FaultType DEF PassFails, broker, directory, WorldOK, RestOK
<1>8. ASSUME BrokerClaims PROVE AgentOK' /\ WorldOK' /\ RestOK'
  <2>1. status' \in [Op -> Status] /\ queue' \in Seq(Op) /\ batch' \in Seq(Op)
    BY <1>0, <1>8, ClaimType, ClaimedType DEF BrokerClaims
  <2> QED
    BY <1>0, <1>8, <2>1 DEF BrokerClaims, directory, AgentOK, WorldOK, RestOK
<1>9. ASSUME PollReturns PROVE AgentOK' /\ WorldOK' /\ RestOK'
  <2>1. AgentOK'
    BY <1>0, <1>9, ProceedType DEF PollReturns, AgentOK
  <2> QED
    BY <1>0, <1>9, <2>1 DEF PollReturns, broker, directory, WorldOK, RestOK
<1>10. ASSUME LdapReturns PROVE AgentOK' /\ WorldOK' /\ RestOK'
  <2>1. AgentOK'
    <3>1. CASE \/ call = "ok" /\ step = Len(Script(Head(batch))) /\ Finish(TRUE)
               \/ call = "refused" /\ OnRefusal
      BY <1>0, <1>10, <3>1, FinishType DEF LdapReturns, OnRefusal, AgentOK
    <3>2. CASE /\ step < Len(Script(Head(batch)))
               /\ step' = step + 1 /\ call' = "sent"
               /\ UNCHANGED <<pc, result, counters>>
      <4>1. Head(batch) \in Op
        BY <1>0, <1>10 DEF LdapReturns, AgentOK
      <4>2. Len(Script(Head(batch))) \in Nat
        BY <4>1, ScriptLength
      <4>3. step + 1 \in 1..Len(Script(Head(batch)))
        BY <1>0, <3>2, <4>2 DEF AgentOK
      <4> QED  BY <1>0, <1>10, <3>2, <4>3 DEF LdapReturns, AgentOK
    <3> QED  BY <1>10, <3>1, <3>2 DEF LdapReturns
  <2> QED
    BY <1>0, <1>10, <2>1 DEF LdapReturns, broker, directory, WorldOK, RestOK
<1>11. ASSUME LdapConnectionLost PROVE AgentOK' /\ WorldOK' /\ RestOK'
  <2>1. AgentOK'
    BY <1>0, <1>11, FinishType DEF LdapConnectionLost
  <2>2. late' \subseteq Request /\ faults' \in 0..MaxFaults
    BY <1>0, <1>11, OutstandingType, FaultType DEF LdapConnectionLost, WorldOK
  <2> QED
    BY <1>0, <1>11, <2>1, <2>2
    DEF LdapConnectionLost, broker, directory, WorldOK, RestOK
<1>12. ASSUME BrokerCompletes PROVE AgentOK' /\ WorldOK' /\ RestOK'
  <2>1. Head(batch) \in Op /\ result \in BOOLEAN
    BY <1>0, <1>12 DEF BrokerCompletes, AgentOK
  <2>2. status' \in [Op -> Status] /\ queue' \in Seq(Op)
    BY <1>0, <1>12, <2>1, CompleteType DEF BrokerCompletes
  <2> QED
    BY <1>0, <1>12, <2>2 DEF BrokerCompletes, directory, AgentOK, WorldOK, RestOK
<1>13. ASSUME CompleteReturns PROVE AgentOK' /\ WorldOK' /\ RestOK'
  <2>1. Head(batch) \in Op /\ result \in BOOLEAN /\ Tail(batch) \in Seq(Op)
    BY <1>0, <1>13 DEF CompleteReturns, AgentOK
  <2>2. AgentOK'
    BY <1>0, <1>13, <2>1, ProceedType DEF CompleteReturns, Remaining
  <2>3. late' \subseteq Request
    BY <1>0, <1>13, OutstandingType, FaultType DEF CompleteReturns, WorldOK
  <2>4. faults' \in 0..MaxFaults
    BY <1>0, <1>13, FaultType DEF CompleteReturns, RestOK
  <2>5. audited' \subseteq Op \X BOOLEAN /\ passLog' \subseteq Op \X BOOLEAN
    BY <1>0, <1>13, <2>1 DEF CompleteReturns, Appended, Logged, RestOK
  <2> QED
    BY <1>0, <1>13, <2>2, <2>3, <2>4, <2>5
    DEF CompleteReturns, broker, directory, WorldOK, RestOK
<1>14. ASSUME Signal PROVE AgentOK' /\ WorldOK' /\ RestOK'
  BY <1>0, <1>14, FaultType
  DEF Signal, broker, directory, AgentOK, WorldOK, RestOK
<1>15. ASSUME Stop PROVE AgentOK' /\ WorldOK' /\ RestOK'
  <2>1. AgentOK' /\ passLog' = {} /\ late' \subseteq Request
    BY <1>0, <1>15, AbandonType, FaultType DEF Stop
  <2> QED
    BY <1>0, <1>15, <2>1 DEF Stop, broker, directory, WorldOK, RestOK
<1>16. ASSUME Disconnected PROVE AgentOK' /\ WorldOK' /\ RestOK'
  BY <1>0, <1>16
  DEF Disconnected, broker, directory, AgentOK, WorldOK, RestOK, Await
<1>17. ASSUME Crash PROVE AgentOK' /\ WorldOK' /\ RestOK'
  <2>1. AgentOK' /\ passLog' = {} /\ late' \subseteq Request
    BY <1>0, <1>17, AbandonType, FaultType DEF Crash
  <2> QED
    BY <1>0, <1>17, <2>1, FaultType DEF Crash, broker, directory, WorldOK, RestOK
<1>18. CASE UNCHANGED vars
  BY <1>0, <1>18
  DEF vars, agent, broker, directory, AgentOK, WorldOK, RestOK
<1> QED
  BY <1>1, <1>2, <1>3, <1>4, <1>5, <1>6, <1>7, <1>8, <1>9, <1>10, <1>11, <1>12,
     <1>13, <1>14, <1>15, <1>16, <1>17, <1>18 DEF Next

LEMMA InitTypeOK == Init => TypeOK
<1> SUFFICES ASSUME Init PROVE AgentOK /\ WorldOK /\ RestOK
  BY TypeOKParts
<1>1. batch \in Seq(Op) /\ step \in Nat /\ counters \in SyncCounters
  BY EmptyIsSeq, NoCountsType DEF Init
<1>2. AgentOK
  BY <1>1 DEF Init, AgentOK, Await
<1>3. queue \in Seq(Op)
  BY EmptyIsSeq DEF Init
<1>4. WorldOK
  BY <1>3 DEF Init, WorldOK, Status
<1>5. RestOK
  <2>1. signal \in BOOLEAN /\ passLog = {} /\ audited = {}
    BY DEF Init
  <2>2. faults \in 0..MaxFaults
    BY BoundAssumption DEF Init
  <2> QED  BY <2>1, <2>2 DEF RestOK
<1> QED  BY <1>2, <1>4, <1>5

(* Every variable holds a value of the kind runner.rs, modes/ad.rs and     *)
(* server.rs give it, and the agent waits for answers only when bound.     *)
THEOREM TypeCorrect == Spec => []TypeOK
  BY InitTypeOK, TypeInvariant, PTL DEF Spec
-----------------------------------------------------------------------------
(* Success is real.                                                        *)

Real == ProgressIsReal /\ ReportIsReal /\ SuccessIsReal

LEMMA CarriedOutStays ==
  ASSUME served \subseteq served', NEW o, CarriedOut(o)
  PROVE  CarriedOut(o)'
  BY DEF CarriedOut

(* A report of success the agent leaves behind is that of an operation     *)
(* carried out in full.                                                    *)
LEMMA OutstandingIsReal ==
  ASSUME AgentOK, ReportIsReal, NEW r \in Outstanding, r.to = "complete", r.ok
  PROVE  CarriedOut(r.op)
<1>1. call = "sent" /\ pc \in {"poll", "ldap", "complete"}
  BY DEF Outstanding, AgentOK
<1>2. CASE pc = "complete"
  <2>1. r = [to |-> "complete", no |-> faults', op |-> Head(batch), ok |-> result]
    BY <1>1, <1>2 DEF Outstanding
  <2> QED  BY <1>2, <2>1 DEF ReportIsReal
<1>3. CASE pc = "poll"
  BY <1>1, <1>3 DEF Outstanding
<1>4. CASE pc = "ldap"
  BY <1>1, <1>4 DEF Outstanding
<1> QED  BY <1>1, <1>2, <1>3, <1>4

(* Dropping a pass, or going on where no operation is involved.            *)
LEMMA AbandonIsReal ==
  ASSUME AgentOK, Real, pc' \notin {"ldap", "complete"},
         late' \subseteq late \cup Outstanding,
         UNCHANGED <<status, served, audited>>
  PROVE  Real'
<1>1. \A o : CarriedOut(o)' <=> CarriedOut(o)
  BY DEF CarriedOut
<1>2. \A r \in late' : r.to = "complete" /\ r.ok => CarriedOut(r.op)
  BY OutstandingIsReal DEF Real, ReportIsReal
<1> QED  BY <1>1, <1>2 DEF Real, ProgressIsReal, ReportIsReal, SuccessIsReal

(* The next operation begins with nothing done and nothing claimed for it. *)
LEMMA ProceedIsReal ==
  ASSUME NEW ops, Proceed(ops)
  PROVE  ProgressIsReal' /\ (pc' = "complete" => result' = FALSE)
<1>1. \/ pc' = "unbind"
      \/ pc' = "complete" /\ result' = FALSE
      \/ pc' = "ldap" /\ call' = "sent" /\ step' = 1
  BY DEF Proceed
<1> QED  BY <1>1 DEF ProgressIsReal

(* The broker shows as done only what was reported done.                   *)
LEMMA CompleteIsReal ==
  ASSUME WorldOK, SuccessIsReal, NEW op \in Op, NEW ok \in BOOLEAN, Complete(op, ok),
         ok => CarriedOut(op), UNCHANGED <<served, audited>>
  PROVE  SuccessIsReal'
<1> SUFFICES ASSUME NEW o \in Op, status'[o] = "done" \/ <<o, TRUE>> \in audited'
             PROVE  CarriedOut(o)'
  BY DEF SuccessIsReal
<1>1. status'[o] = "done" => status[o] = "done" \/ (o = op /\ ok)
  BY DEF Complete, WorldOK
<1>2. CarriedOut(o)
  BY <1>1 DEF SuccessIsReal
<1> QED  BY <1>2, CarriedOutStays

LEMMA RealInvariant == TypeOK /\ Real /\ [Next]_vars => Real'
<1> SUFFICES ASSUME TypeOK, Real, [Next]_vars PROVE Real'
  OBVIOUS
<1>0. AgentOK /\ WorldOK
  BY TypeOKParts
<1>1. ASSUME NEW o \in Op, Enqueue(o) \/ Requeue(o) PROVE Real'
  <2>1. /\ UNCHANGED <<agent, directory, audited, late>>
        /\ \A p \in Op : status'[p] = "done" => status[p] = "done"
    BY <1>0, <1>1 DEF Enqueue, Requeue, WorldOK
  <2> QED
    BY <2>1 DEF Real, ProgressIsReal, ReportIsReal, SuccessIsReal, CarriedOut,
                agent, directory
<1>2. ASSUME DirectoryServes PROVE Real'
  <2>1. /\ served' = served \cup {<<Head(batch), step>>}
        /\ pc = "ldap" /\ call' = "ok"
        /\ UNCHANGED <<pc, batch, step, result, status, audited, late>>
    BY <1>2 DEF DirectoryServes, Serve, broker
  <2>2. ProgressIsReal'
    BY <2>1 DEF Real, ProgressIsReal
  <2>3. ReportIsReal' /\ SuccessIsReal'
    BY <2>1, CarriedOutStays DEF Real, ReportIsReal, SuccessIsReal
  <2> QED  BY <2>2, <2>3 DEF Real
<1>3. ASSUME DirectoryRefuses PROVE Real'
  BY <1>3
  DEF DirectoryRefuses, broker, directory, Real, ProgressIsReal, ReportIsReal,
      SuccessIsReal, CarriedOut
<1>4. ASSUME NEW r \in late, LateArrival(r) PROVE Real'
  <2>1. late' \subseteq late /\ UNCHANGED <<agent, audited>>
    BY <1>4 DEF LateArrival
  <2>2. served \subseteq served'
    BY <1>4 DEF LateArrival, directory, Serve
  <2>3. ProgressIsReal' /\ ReportIsReal'
    BY <2>1, <2>2, CarriedOutStays DEF Real, ProgressIsReal, ReportIsReal, agent
  <2>4. SuccessIsReal'
    <3>1. CASE r.to = "poll" /\ Claim /\ UNCHANGED directory
      <4>1. \A o \in Op : status'[o] = "done" => status[o] = "done"
        BY <3>1 DEF Claim
      <4> QED
        BY <2>1, <2>2, <4>1, CarriedOutStays DEF Real, SuccessIsReal
    <3>2. CASE r.to = "complete" /\ Complete(r.op, r.ok) /\ UNCHANGED directory
      <4>1. r.op \in Op /\ r.ok \in BOOLEAN /\ (r.ok => CarriedOut(r.op))
        BY <1>0, <3>2 DEF WorldOK, Request, Real, ReportIsReal
      <4> QED
        BY <1>0, <2>1, <3>2, <4>1, CompleteIsReal DEF Real, directory
    <3>3. CASE r.to = "ldap" /\ Serve(r.op, r.step) /\ UNCHANGED broker
      BY <2>1, <2>2, <3>3, CarriedOutStays DEF Real, SuccessIsReal, broker
    <3> QED  BY <1>4, <3>1, <3>2, <3>3 DEF LateArrival
  <2> QED  BY <2>3, <2>4 DEF Real
<1>5. ASSUME \/ Start \/ BeginPass \/ Connected \/ Unbound \/ Reported \/ Wake
             \/ PassFails \/ Stop \/ Disconnected \/ Crash
      PROVE  Real'
  <2>1. /\ pc' \notin {"ldap", "complete"}
        /\ late' \subseteq late \cup Outstanding
        /\ UNCHANGED <<status, served, audited>>
    BY <1>5
    DEF Start, BeginPass, Connected, Unbound, Reported, Wake, PassFails, Stop,
        Disconnected, Crash, Abandon, broker, directory
  <2> QED  BY <1>0, <2>1, AbandonIsReal
<1>6. ASSUME BrokerClaims PROVE Real'
  <2>1. /\ pc = "poll" /\ pc' = pc /\ UNCHANGED <<served, audited, late>>
        /\ \A o \in Op : status'[o] = "done" => status[o] = "done"
    BY <1>6 DEF BrokerClaims, Claim, directory
  <2> QED
    BY <2>1
    DEF Real, ProgressIsReal, ReportIsReal, SuccessIsReal, CarriedOut
<1>7. ASSUME PollReturns PROVE Real'
  <2>1. ProgressIsReal' /\ (pc' = "complete" => result' = FALSE)
    BY <1>7, ProceedIsReal DEF PollReturns
  <2>2. UNCHANGED <<status, served, audited, late>>
    BY <1>7 DEF PollReturns, broker, directory
  <2> QED
    BY <2>1, <2>2 DEF Real, ReportIsReal, SuccessIsReal, CarriedOut
<1>8. ASSUME LdapReturns PROVE Real'
  <2>1. pc = "ldap" /\ UNCHANGED <<batch, status, served, audited, late>>
    BY <1>8 DEF LdapReturns, broker, directory
  <2>2. SuccessIsReal'
    BY <2>1 DEF Real, SuccessIsReal, CarriedOut
  <2>3. \A r \in late' : r.to = "complete" /\ r.ok => CarriedOut(r.op)'
    BY <2>1, CarriedOutStays DEF Real, ReportIsReal
  <2>4. CASE call = "ok" /\ step = Len(Script(Head(batch))) /\ Finish(TRUE)
    <3>1. Script(Head(batch)) # << >>
      BY <1>0, <2>1, <2>4 DEF AgentOK
    <3>2. \A n \in 1..step : <<Head(batch), n>> \in served
      BY <1>0, <2>1, <2>4 DEF Real, ProgressIsReal, AgentOK
    <3>3. CarriedOut(Head(batch))
      BY <2>4, <3>1, <3>2 DEF CarriedOut
    <3>4. CarriedOut(Head(batch))'
      BY <2>1, <3>3 DEF CarriedOut
    <3> QED
      BY <2>2, <2>3, <2>4, <3>4 DEF Real, ProgressIsReal, ReportIsReal, Finish
  <2>5. CASE call = "refused" /\ OnRefusal
    BY <2>2, <2>3, <2>5 DEF Real, ProgressIsReal, ReportIsReal, OnRefusal, Finish
  <2>6. CASE /\ call = "ok" /\ step' = step + 1 /\ call' = "sent"
             /\ UNCHANGED <<pc, result, counters>>
    <3>1. \A n \in 1..(step' - 1) : <<Head(batch), n>> \in served
      BY <1>0, <2>1, <2>6 DEF Real, ProgressIsReal, AgentOK
    <3>2. ProgressIsReal' /\ ReportIsReal'
      BY <2>1, <2>3, <2>6, <3>1 DEF ProgressIsReal, ReportIsReal
    <3> QED  BY <2>2, <3>2 DEF Real
  <2> QED  BY <1>8, <2>4, <2>5, <2>6 DEF LdapReturns
<1>9. ASSUME LdapConnectionLost PROVE Real'
  <2>1. /\ pc' = "complete" /\ result' = FALSE
        /\ late' = late \cup Outstanding
        /\ UNCHANGED <<status, served, audited>>
    BY <1>9 DEF LdapConnectionLost, Finish, broker, directory
  <2>2. \A r \in late' : r.to = "complete" /\ r.ok => CarriedOut(r.op)
    BY <1>0, <2>1, OutstandingIsReal DEF Real, ReportIsReal
  <2> QED
    BY <2>1, <2>2
    DEF Real, ProgressIsReal, ReportIsReal, SuccessIsReal, CarriedOut
<1>10. ASSUME BrokerCompletes PROVE Real'
  <2>1. /\ pc = "complete" /\ Complete(Head(batch), result)
        /\ UNCHANGED <<pc, batch, result, served, audited, late>>
    BY <1>10 DEF BrokerCompletes, directory
  <2>2. Head(batch) \in Op /\ result \in BOOLEAN
    BY <1>0, <2>1 DEF AgentOK
  <2>3. SuccessIsReal'
    BY <1>0, <2>1, <2>2, CompleteIsReal DEF Real, ReportIsReal
  <2> QED
    BY <2>1, <2>3 DEF Real, ProgressIsReal, ReportIsReal, CarriedOut
<1>11. ASSUME CompleteReturns PROVE Real'
  <2>1. /\ pc = "complete"
        /\ late' = late \cup Outstanding
        /\ audited' = audited \cup {<<Head(batch), result>>}
        /\ UNCHANGED <<status, served>>
    BY <1>11 DEF CompleteReturns, Appended, Logged, broker, directory
  <2>2. ProgressIsReal' /\ (pc' = "complete" => result' = FALSE)
    BY <1>11, ProceedIsReal DEF CompleteReturns
  <2>3. \A r \in late' : r.to = "complete" /\ r.ok => CarriedOut(r.op)
    BY <1>0, <2>1, OutstandingIsReal DEF Real, ReportIsReal
  <2>4. ReportIsReal'
    BY <2>1, <2>2, <2>3 DEF ReportIsReal, CarriedOut
  <2>5. \A o \in Op : status[o] = "done" \/ <<o, TRUE>> \in audited' => CarriedOut(o)
    BY <2>1 DEF Real, ReportIsReal, SuccessIsReal
  <2>6. SuccessIsReal'
    BY <2>1, <2>5 DEF SuccessIsReal, CarriedOut
  <2> QED  BY <2>2, <2>4, <2>6 DEF Real
<1>12. CASE Signal \/ UNCHANGED vars
  <2>1. UNCHANGED <<pc, call, batch, step, result, status, served, audited, late>>
    BY <1>12 DEF Signal, vars, agent, broker, directory
  <2> QED
    BY <2>1 DEF Real, ProgressIsReal, ReportIsReal, SuccessIsReal, CarriedOut
<1> QED
  BY <1>1, <1>2, <1>3, <1>4, <1>5, <1>6, <1>7, <1>8, <1>9, <1>10, <1>11, <1>12
  DEF Next

LEMMA InitIsReal == Init => Real
  BY DEF Init, Real, ProgressIsReal, ReportIsReal, SuccessIsReal

-----------------------------------------------------------------------------
(* Nothing is carried out that was not claimed.                            *)

Owned == QueueIsOpen /\ OnlyHanded

LEMMA OutstandingHanded ==
  ASSUME AgentOK, OnlyHanded, NEW r \in Outstanding, r.to # "poll"
  PROVE  Handed(r.op)
<1>1. call = "sent" /\ pc \in {"ldap", "complete"} /\ r.op = Head(batch)
  BY DEF Outstanding, AgentOK
<1>2. batch # << >> /\ batch \in Seq(Op)
  BY <1>1 DEF AgentOK
<1>3. 1 \in 1..Len(batch) /\ Head(batch) = batch[1]
  BY <1>2
<1> QED  BY <1>1, <1>3 DEF OnlyHanded

(* What open and claimed operations become under the broker's actions.     *)
LEMMA ClaimOwned ==
  ASSUME WorldOK, QueueIsOpen, Claim
  PROVE  /\ QueueIsOpen'
         /\ \A o \in Op : Handed(o) => Handed(o)'
         /\ \A i \in 1..ClaimCount : status'[queue[i]] = "claimed"
<1> DEFINE n == ClaimCount
<1>1. n \in 0..Len(queue)
  BY BatchAssumption DEF ClaimCount, WorldOK
<1>2. \A i \in (n + 1)..Len(queue) : queue[i] \in Op
  BY <1>1 DEF WorldOK
<1>3. /\ Len(queue') = Len(queue) - n
      /\ \A i \in 1..(Len(queue) - n) : queue'[i] = queue[n + i]
  <2>1. queue' = SubSeq(queue, n + 1, Len(queue))
    BY DEF Claim
  <2>2. n + 1 \in Int /\ Len(queue) \in Int
    BY <1>1 DEF WorldOK
  <2>3. /\ Len(queue') = IF n + 1 <= Len(queue) THEN Len(queue) - (n + 1) + 1 ELSE 0
        /\ \A i \in 1..(Len(queue) - (n + 1) + 1) : queue'[i] = queue[n + 1 + i - 1]
    BY <1>2, <2>1, <2>2, SubSeqProperties
  <2> QED  BY <1>1, <2>2, <2>3
<1>4. \A o \in Op :
        status'[o] = IF o \in {queue[i] : i \in 1..n} THEN "claimed" ELSE status[o]
  BY DEF Claim
<1> HIDE DEF n
<1>5. ASSUME NEW i \in 1..Len(queue') PROVE status'[queue'[i]] \in {"pending", "requeued"}
  <2>1. n + i \in 1..Len(queue) /\ queue'[i] = queue[n + i] /\ queue[n + i] \in Op
    BY <1>1, <1>2, <1>3
  <2>2. \A j \in 1..n : queue[j] # queue[n + i]
    BY <1>1, <2>1 DEF QueueIsOpen
  <2> QED  BY <1>4, <2>1, <2>2 DEF QueueIsOpen
<1>6. ASSUME NEW i \in 1..Len(queue'), NEW j \in 1..Len(queue'), queue'[i] = queue'[j]
      PROVE  i = j
  <2>1. /\ n + i \in 1..Len(queue) /\ n + j \in 1..Len(queue)
        /\ queue[n + i] = queue[n + j]
    BY <1>1, <1>3, <1>6
  <2>2. n + i = n + j
    BY <2>1 DEF QueueIsOpen
  <2> QED  BY <1>1, <1>3, <2>2
<1>7. QueueIsOpen'
  BY <1>5, <1>6 DEF QueueIsOpen
<1>8. \A o \in Op : Handed(o) => Handed(o)'
  BY <1>4 DEF Handed
<1>9. \A i \in 1..n : queue[i] \in Op
  BY <1>1 DEF WorldOK
<1>10. \A i \in 1..n : status'[queue[i]] = "claimed"
  BY <1>4, <1>9
<1> QED  BY <1>7, <1>8, <1>10 DEF n

LEMMA CompleteOwned ==
  ASSUME WorldOK, QueueIsOpen, NEW op \in Op, NEW ok \in BOOLEAN, Complete(op, ok)
  PROVE  QueueIsOpen' /\ \A o \in Op : Handed(o) => Handed(o)'
<1>1. queue' = queue /\ \A i \in 1..Len(queue) : queue[i] \in Op
  BY DEF Complete, WorldOK
<1>2. \A o \in Op : status'[o] # status[o] =>
        status[o] = "claimed" /\ status'[o] \in {"done", "failed"}
  BY DEF Complete, WorldOK
<1>3. \A i \in 1..Len(queue) : status'[queue[i]] \in {"pending", "requeued"}
  BY <1>1, <1>2 DEF QueueIsOpen
<1> QED  BY <1>1, <1>2, <1>3 DEF QueueIsOpen, Handed

(* A newly offered operation goes to the end of a queue it is not in.      *)
LEMMA OfferOwned ==
  ASSUME WorldOK, QueueIsOpen, NEW o \in Op, NEW s \in {"pending", "requeued"},
         status[o] \notin {"pending", "requeued"},
         s = "pending" => status[o] = "absent",
         status' = [status EXCEPT ![o] = s], queue' = Append(queue, o)
  PROVE  QueueIsOpen' /\ \A p \in Op : Handed(p) => Handed(p)'
<1>1. /\ queue \in Seq(Op) /\ Len(queue') = Len(queue) + 1
      /\ \A i \in 1..Len(queue) : queue'[i] = queue[i]
      /\ queue'[Len(queue) + 1] = o
  BY AppendProperties DEF WorldOK
<1>2. \A i \in 1..Len(queue) : queue[i] \in Op /\ queue[i] # o
  BY <1>1 DEF QueueIsOpen
<1>3. \A p \in Op : status'[p] = IF p = o THEN s ELSE status[p]
  BY DEF WorldOK
<1>4. \A i \in 1..Len(queue') : i \in 1..Len(queue) \/ i = Len(queue) + 1
  BY <1>1
<1>5. \A i \in 1..Len(queue') : status'[queue'[i]] \in {"pending", "requeued"}
  BY <1>1, <1>2, <1>3, <1>4 DEF QueueIsOpen
<1>6. \A i, j \in 1..Len(queue') : queue'[i] = queue'[j] => i = j
  BY <1>1, <1>2, <1>4 DEF QueueIsOpen
<1> QED  BY <1>3, <1>5, <1>6 DEF QueueIsOpen, Handed

(* The agent's own steps neither take up nor send off new operations.      *)
LEMMA AgentOwned ==
  ASSUME AgentOK, Owned, UNCHANGED broker, late' \subseteq late \cup Outstanding,
         \A i \in 1..Len(batch') : \E j \in 1..Len(batch) : batch'[i] = batch[j]
  PROVE  Owned'
<1>1. QueueIsOpen'
  BY DEF Owned, QueueIsOpen, broker
<1>2. \A i \in 1..Len(batch') : Handed(batch'[i])
  BY DEF Owned, OnlyHanded
<1>3. \A r \in late' : r.to # "poll" => Handed(r.op)
  BY OutstandingHanded DEF Owned, OnlyHanded
<1>4. OnlyHanded'
  BY <1>2, <1>3 DEF OnlyHanded, Handed, broker
<1> QED  BY <1>1, <1>4 DEF Owned

LEMMA OwnedInvariant == TypeOK /\ Owned /\ [Next]_vars => Owned'
<1> SUFFICES ASSUME TypeOK, Owned, [Next]_vars PROVE Owned'
  OBVIOUS
<1>0. AgentOK /\ WorldOK /\ QueueIsOpen /\ OnlyHanded
  BY TypeOKParts DEF Owned
<1>a. \A i \in 1..Len(batch) : batch[i] \in Op
  BY <1>0 DEF AgentOK
<1>b. \A r \in late : r.to # "poll" => r.op \in Op
  BY <1>0 DEF WorldOK, Request
<1>1. ASSUME QueueIsOpen', \A o \in Op : Handed(o) => Handed(o)',
             late' \subseteq late, batch' = batch
      PROVE  Owned'
  BY <1>0, <1>a, <1>b, <1>1 DEF Owned, OnlyHanded
<1>2. ASSUME NEW o \in Op, Enqueue(o) PROVE Owned'
  BY <1>0, <1>1, <1>2, OfferOwned DEF Enqueue, agent
<1>3. ASSUME NEW o \in Op, Requeue(o) PROVE Owned'
  BY <1>0, <1>1, <1>3, OfferOwned DEF Requeue, agent
<1>4. ASSUME NEW r \in late, LateArrival(r) PROVE Owned'
  <2>1. late' \subseteq late /\ batch' = batch
    BY <1>4 DEF LateArrival, agent
  <2>2. CASE Claim
    BY <1>0, <1>1, <2>1, <2>2, ClaimOwned
  <2>3. CASE r.to = "complete" /\ Complete(r.op, r.ok)
    <3>1. r.op \in Op /\ r.ok \in BOOLEAN
      BY <1>0, <2>3 DEF WorldOK, Request
    <3> QED  BY <1>0, <1>1, <2>1, <2>3, <3>1, CompleteOwned
  <2>4. CASE UNCHANGED broker
    BY <1>0, <1>1, <2>1, <2>4 DEF broker, QueueIsOpen, Handed
  <2> QED  BY <1>4, <2>2, <2>3, <2>4 DEF LateArrival
<1>5. ASSUME BrokerClaims PROVE Owned'
  <2>1. /\ late' = late /\ Claim
        /\ batch' = SubSeq(queue, 1, ClaimCount)
    BY <1>5 DEF BrokerClaims
  <2>2. /\ QueueIsOpen' /\ \A o \in Op : Handed(o) => Handed(o)'
        /\ \A i \in 1..ClaimCount : status'[queue[i]] = "claimed"
    BY <1>0, <2>1, ClaimOwned
  <2>3. ClaimCount \in 0..Len(queue) /\ \A i \in 1..ClaimCount : queue[i] \in Op
    BY <1>0, BatchAssumption DEF ClaimCount, WorldOK
  <2>4. Len(batch') = ClaimCount /\ \A i \in 1..ClaimCount : batch'[i] = queue[i]
    <3>1. /\ Len(batch') = IF 1 <= ClaimCount THEN ClaimCount - 1 + 1 ELSE 0
          /\ \A i \in 1..(ClaimCount - 1 + 1) : batch'[i] = queue[1 + i - 1]
      BY <2>1, <2>3, SubSeqProperties
    <3> QED  BY <2>3, <3>1
  <2>5. OnlyHanded'
    BY <1>0, <1>b, <2>1, <2>2, <2>4 DEF OnlyHanded, Handed
  <2> QED  BY <2>2, <2>5 DEF Owned
<1>6. ASSUME BrokerCompletes PROVE Owned'
  <2>1. Complete(Head(batch), result) /\ batch' = batch /\ late' = late
    BY <1>6 DEF BrokerCompletes
  <2>2. Head(batch) \in Op /\ result \in BOOLEAN
    BY <1>0, <1>6 DEF BrokerCompletes, AgentOK
  <2> QED  BY <1>0, <1>1, <2>1, <2>2, CompleteOwned
<1>7. ASSUME PassFails \/ Stop \/ Crash PROVE Owned'
  <2>1. batch' = << >> /\ late' = late \cup Outstanding /\ UNCHANGED broker
    BY <1>7 DEF PassFails, Stop, Crash, Abandon
  <2> QED  BY <1>0, <2>1, AgentOwned
<1>8. ASSUME CompleteReturns PROVE Owned'
  <2>1. batch' = Tail(batch) /\ late' = late \cup Outstanding /\ UNCHANGED broker
    BY <1>8 DEF CompleteReturns, Proceed, Remaining
  <2>2. batch \in Seq(Op) /\ batch # << >>
    BY <1>0, <1>8 DEF CompleteReturns, AgentOK
  <2>3. /\ Len(batch') = Len(batch) - 1
        /\ \A i \in 1..Len(batch') : batch'[i] = batch[i + 1]
    BY <2>1, <2>2, HeadTailProperties
  <2>4. \A i \in 1..Len(batch') : i + 1 \in 1..Len(batch)
    BY <2>2, <2>3
  <2> QED  BY <1>0, <2>1, <2>3, <2>4, AgentOwned
<1>9. ASSUME \/ DirectoryServes \/ DirectoryRefuses \/ Start \/ BeginPass
             \/ Connected \/ PollReturns \/ LdapReturns \/ LdapConnectionLost
             \/ Unbound \/ Reported \/ Wake \/ Signal \/ Disconnected
             \/ UNCHANGED vars
      PROVE  Owned'
  <2>1. batch' = batch /\ UNCHANGED broker /\ late' \subseteq late \cup Outstanding
    BY <1>9
    DEF DirectoryServes, DirectoryRefuses, Start, BeginPass, Connected, PollReturns,
        Proceed, LdapReturns, LdapConnectionLost, Unbound, Reported, Wake, Signal,
        Disconnected, vars, agent, broker
  <2> QED  BY <1>0, <2>1, AgentOwned
<1> QED
  BY <1>2, <1>3, <1>4, <1>5, <1>6, <1>7, <1>8, <1>9 DEF Next

LEMMA InitOwned == Init => Owned
  BY DEF Init, Owned, QueueIsOpen, OnlyHanded
-----------------------------------------------------------------------------
(* The part of the invariant that the refinement rests on.                 *)
Core == TypeOK /\ Real /\ Owned

LEMMA CoreInvariant == Core /\ [Next]_vars => Core'
  BY TypeInvariant, RealInvariant, OwnedInvariant DEF Core

LEMMA InitCore == Init => Core
  BY InitTypeOK, InitIsReal, InitOwned DEF Core

LEMMA CoreHolds == Spec => []Core
  BY CoreInvariant, InitCore, PTL DEF Spec

(* An operation the broker shows as done, or the log as AD_OP_OK           *)
(* (src/src/modes/ad.rs), has had every LDAP request of it carried out, in *)
(* spite of stops, crashes, late requests and redelivery.                  *)
THEOREM SuccessIsRealHolds == Spec => []SuccessIsReal
<1>1. Core => SuccessIsReal
  BY DEF Core, Real
<1> QED  BY <1>1, CoreHolds, PTL
-----------------------------------------------------------------------------
(* AdSync implements Provisioning.                                         *)

Effect == {o \in Op : CarriedOut(o)}

(* One request carries out at most the operation it belongs to.            *)
LEMMA ServeCarriesOut ==
  ASSUME NEW op \in Op, NEW n \in Nat, Serve(op, n), Handed(op), status' = status
  PROVE  Provisioned!CarryOut(op) \/ UNCHANGED <<status, Effect>>
<1>1. served' = served \cup {<<op, n>>}
  BY DEF Serve
<1>2. \A o \in Op : CarriedOut(o) => CarriedOut(o)'
  BY <1>1 DEF CarriedOut
<1>3. \A o \in Op : o # op => (CarriedOut(o)' => CarriedOut(o))
  BY <1>1 DEF CarriedOut
<1>4. CASE CarriedOut(op)'
  <2>1. Effect' = Effect \cup {op}
    BY <1>2, <1>3, <1>4 DEF Effect
  <2> QED  BY <2>1 DEF Provisioned!CarryOut, Handed, Effect
<1>5. CASE ~CarriedOut(op)'
  <2>1. Effect' = Effect
    BY <1>2, <1>3, <1>5 DEF Effect
  <2> QED  BY <2>1
<1> QED  BY <1>4, <1>5

(* A claim of the oldest open operations is a claim of open operations.    *)
LEMMA ClaimClaims ==
  ASSUME WorldOK, QueueIsOpen, Claim, served' = served
  PROVE  \E S \in SUBSET Op : Provisioned!Claim(S)
<1> DEFINE S == {queue[i] : i \in 1..ClaimCount}
<1>1. ClaimCount \in 0..Len(queue)
  BY BatchAssumption DEF ClaimCount, WorldOK
<1>2. S \subseteq Op /\ \A o \in S : status[o] \in {"pending", "requeued"}
  BY <1>1 DEF WorldOK, QueueIsOpen
<1>3. status' = [o \in Op |-> IF o \in S THEN "claimed" ELSE status[o]]
  BY DEF Claim
<1>4. Effect' = Effect
  BY DEF Effect, CarriedOut
<1> QED  BY <1>2, <1>3, <1>4 DEF Provisioned!Claim, Effect

(* A report settles a claimed operation, or nothing.                       *)
LEMMA CompleteSettles ==
  ASSUME WorldOK, NEW op \in Op, NEW ok \in BOOLEAN, Complete(op, ok),
         ok => CarriedOut(op), served' = served
  PROVE  Provisioned!Settle(op, ok) \/ UNCHANGED <<status, Effect>>
<1>1. Effect' = Effect
  BY DEF Effect, CarriedOut
<1>2. CASE status[op] = "claimed"
  <2>1. status' = [status EXCEPT ![op] = IF ok THEN "done" ELSE "failed"]
    BY <1>2 DEF Complete
  <2> QED  BY <1>1, <1>2, <2>1 DEF Provisioned!Settle, Effect
<1>3. CASE status[op] # "claimed"
  <2>1. status' = status
    BY <1>3 DEF Complete, WorldOK
  <2> QED  BY <1>1, <2>1
<1> QED  BY <1>2, <1>3

LEMMA StepRefines ==
  Core /\ [Next]_vars => [Provisioned!Next]_<<status, Effect>>
<1> SUFFICES ASSUME Core, [Next]_vars
             PROVE  Provisioned!Next \/ UNCHANGED <<status, Effect>>
  OBVIOUS
<1>0. AgentOK /\ WorldOK /\ QueueIsOpen /\ OnlyHanded /\ ReportIsReal
  BY TypeOKParts DEF Core, Real, Owned
<1>1. ASSUME NEW o \in Op, Enqueue(o) PROVE Provisioned!Enqueue(o)
  BY <1>1 DEF Enqueue, directory, CarriedOut, Provisioned!Enqueue
<1>2. ASSUME NEW o \in Op, Requeue(o) PROVE Provisioned!Requeue(o)
  BY <1>2 DEF Requeue, directory, CarriedOut, Provisioned!Requeue
<1>3. ASSUME DirectoryServes
      PROVE  (\E o \in Op : Provisioned!CarryOut(o)) \/ UNCHANGED <<status, Effect>>
  <2>1. batch \in Seq(Op) /\ batch # << >> /\ step \in Nat
    BY <1>0, <1>3 DEF DirectoryServes, AgentOK
  <2>2. Head(batch) \in Op /\ Head(batch) = batch[1] /\ 1 \in 1..Len(batch)
    BY <2>1
  <2>3. Handed(Head(batch))
    BY <1>0, <2>2 DEF OnlyHanded
  <2> QED
    BY <1>3, <2>1, <2>2, <2>3, ServeCarriesOut DEF DirectoryServes, broker
<1>4. ASSUME NEW r \in late, LateArrival(r)
      PROVE  Provisioned!Next \/ UNCHANGED <<status, Effect>>
  <2>1. CASE Claim /\ UNCHANGED directory
    <3>1. \E S \in SUBSET Op : Provisioned!Claim(S)
      BY <1>0, <2>1, ClaimClaims DEF directory
    <3> QED  BY <3>1 DEF Provisioned!Next
  <2>2. CASE r.to = "complete" /\ Complete(r.op, r.ok) /\ UNCHANGED directory
    <3>1. r.op \in Op /\ r.ok \in BOOLEAN /\ (r.ok => CarriedOut(r.op))
      BY <1>0, <2>2 DEF WorldOK, Request, ReportIsReal
    <3>2. Provisioned!Settle(r.op, r.ok) \/ UNCHANGED <<status, Effect>>
      BY <1>0, <2>2, <3>1, CompleteSettles DEF directory
    <3> QED  BY <3>1, <3>2 DEF Provisioned!Next
  <2>3. CASE r.to = "ldap" /\ Serve(r.op, r.step) /\ UNCHANGED broker
    <3>1. r.op \in Op /\ r.step \in Nat /\ Handed(r.op)
      BY <1>0, <2>3 DEF WorldOK, Request, OnlyHanded
    <3>2. Provisioned!CarryOut(r.op) \/ UNCHANGED <<status, Effect>>
      BY <2>3, <3>1, ServeCarriesOut DEF broker
    <3> QED  BY <3>1, <3>2 DEF Provisioned!Next
  <2> QED  BY <1>4, <2>1, <2>2, <2>3 DEF LateArrival
<1>5. ASSUME BrokerClaims PROVE \E S \in SUBSET Op : Provisioned!Claim(S)
  BY <1>0, <1>5, ClaimClaims DEF BrokerClaims, directory
<1>6. ASSUME BrokerCompletes
      PROVE  \/ \E o \in Op, ok \in BOOLEAN : Provisioned!Settle(o, ok)
             \/ UNCHANGED <<status, Effect>>
  <2>1. Head(batch) \in Op /\ result \in BOOLEAN /\ (result => CarriedOut(Head(batch)))
    BY <1>0, <1>6 DEF BrokerCompletes, AgentOK, ReportIsReal
  <2> QED
    BY <1>0, <1>6, <2>1, CompleteSettles DEF BrokerCompletes, directory
<1>7. ASSUME \/ DirectoryRefuses \/ Start \/ BeginPass \/ Connected \/ PassFails
             \/ PollReturns \/ LdapReturns \/ LdapConnectionLost
             \/ CompleteReturns \/ Unbound \/ Reported \/ Wake \/ Signal \/ Stop
             \/ Disconnected \/ Crash \/ UNCHANGED vars
      PROVE  UNCHANGED <<status, Effect>>
  <2>1. UNCHANGED <<status, served>>
    BY <1>7
    DEF DirectoryRefuses, Start, BeginPass, Connected, PassFails, PollReturns,
        LdapReturns, LdapConnectionLost, CompleteReturns, Unbound, Reported, Wake,
        Signal, Stop, Disconnected, Crash, vars, broker, directory
  <2> QED  BY <2>1 DEF Effect, CarriedOut
<1> QED
  BY <1>1, <1>2, <1>3, <1>4, <1>5, <1>6, <1>7 DEF Next, Provisioned!Next

LEMMA InitRefines == Init => Provisioned!Init
<1> SUFFICES ASSUME Init PROVE status = [o \in Op |-> "absent"] /\ Effect = {}
  BY DEF Provisioned!Init, Effect
<1>1. \A o \in Op : Script(o) # << >> => 1 \in 1..Len(Script(o))
  BY ScriptLength
<1> QED  BY <1>1 DEF Init, Effect, CarriedOut

(* To its users the agent, with its broker and directory, is a             *)
(* Provisioning service: runner.rs and modes/ad.rs carry out only what was *)
(* claimed and report done only what was carried out.                      *)
THEOREM Refinement == Spec => ImplementsProvisioning
<1>1. Init => Provisioned!Init
  BY InitRefines
<1>2. Core /\ [Next]_vars => [Provisioned!Next]_<<status, Effect>>
  BY StepRefines
<1>3. Spec => Provisioned!Spec
  BY <1>1, <1>2, CoreHolds, PTL DEF Spec, Provisioned!Spec, Effect
<1> QED  BY <1>3 DEF ImplementsProvisioning
=============================================================================
