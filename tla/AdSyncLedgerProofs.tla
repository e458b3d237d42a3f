-------------------------- MODULE AdSyncLedgerProofs --------------------------
(***************************************************************************)
(* Proofs about AdSync: what a pass counts, what broker and audit log say  *)
(* of an operation, and what a fault can cost.                             *)
(***************************************************************************)
EXTENDS AdSyncProofs, FiniteSetTheorems

LEMMA CoreParts == Core => AgentOK /\ WorldOK /\ RestOK /\ QueueIsOpen /\ OnlyHanded
  BY TypeOKParts DEF Core, Owned

(* What a batch looks like from its head.                                  *)
LEMMA BatchShape ==
  ASSUME AgentOK
  PROVE  /\ Len(batch) \in Nat /\ \A i \in 1..Len(batch) : batch[i] \in Op
         /\ batch # << >> =>
              /\ 1 \in 1..Len(batch) /\ Head(batch) = batch[1] /\ Head(batch) \in Op
              /\ Len(Tail(batch)) = Len(batch) - 1
              /\ \A i \in 1..Len(Tail(batch)) :
                    i + 1 \in 1..Len(batch) /\ Tail(batch)[i] = batch[i + 1]
              /\ Tail(batch) # << >> => /\ 2 \in 1..Len(batch)
                                        /\ Head(Tail(batch)) = batch[2]
<1>1. batch \in Seq(Op)
  BY DEF AgentOK
<1>2. CASE batch = << >>
  BY <1>1, <1>2
<1>3. CASE batch # << >>
  <2>1. /\ Tail(batch) \in Seq(Op) /\ Len(Tail(batch)) = Len(batch) - 1
        /\ \A i \in 1..Len(Tail(batch)) : Tail(batch)[i] = batch[i + 1]
    BY <1>1, <1>3, HeadTailProperties
  <2>2. 1 \in 1..Len(batch) /\ Head(batch) = batch[1] /\ Head(batch) \in Op
    BY <1>1, <1>3
  <2>3. \A i \in 1..Len(Tail(batch)) : i + 1 \in 1..Len(batch)
    BY <1>1, <2>1
  <2>4. Tail(batch) # << >> => /\ 1 \in 1..Len(Tail(batch))
                               /\ Head(Tail(batch)) = Tail(batch)[1]
    BY <2>1
  <2> QED  BY <1>1, <2>1, <2>2, <2>3, <2>4
<1> QED  BY <1>2, <1>3

(* The batch a poll claims is the front of the queue.                      *)
LEMMA ClaimedFront ==
  ASSUME WorldOK, batch' = SubSeq(queue, 1, ClaimCount)
  PROVE  /\ ClaimCount \in 0..Len(queue) /\ ClaimCount <= Batch
         /\ Len(batch') = ClaimCount
         /\ \A i \in 1..ClaimCount : batch'[i] = queue[i] /\ queue[i] \in Op
<1>1. /\ ClaimCount \in 0..Len(queue) /\ ClaimCount <= Batch
      /\ \A i \in 1..ClaimCount : queue[i] \in Op
  BY BatchAssumption DEF ClaimCount, WorldOK
<1>2. /\ Len(batch') = IF 1 <= ClaimCount THEN ClaimCount - 1 + 1 ELSE 0
      /\ \A i \in 1..(ClaimCount - 1 + 1) : batch'[i] = queue[1 + i - 1]
  BY <1>1, SubSeqProperties
<1> QED  BY <1>1, <1>2
-----------------------------------------------------------------------------
(* A batch holds an operation once.                                        *)

LEMMA OrderlyInvariant == Core /\ BatchIsOrderly /\ [Next]_vars => BatchIsOrderly'
<1> SUFFICES ASSUME Core, BatchIsOrderly, [Next]_vars PROVE BatchIsOrderly'
  OBVIOUS
<1>0. AgentOK /\ WorldOK /\ QueueIsOpen
  BY CoreParts
<1>1. ASSUME batch' = batch,
             \/ batch = << >>
             \/ pc' \in {"poll", "ldap", "complete"} /\ (pc' = "poll" => call' # "sent")
      PROVE  BatchIsOrderly'
  BY <1>1 DEF BatchIsOrderly
<1>2. ASSUME batch' = << >> PROVE BatchIsOrderly'
  <2>1. Len(batch') = 0
    BY <1>2
  <2> QED  BY <1>2, <2>1, BatchAssumption DEF BatchIsOrderly
<1>3. ASSUME BrokerClaims PROVE BatchIsOrderly'
  <2>1. batch' = SubSeq(queue, 1, ClaimCount) /\ pc' = "poll" /\ call' = "ok"
    BY <1>3 DEF BrokerClaims
  <2> QED  BY <1>0, <2>1, ClaimedFront DEF BatchIsOrderly, QueueIsOpen, WorldOK
<1>4. ASSUME CompleteReturns PROVE BatchIsOrderly'
  <2>1. /\ batch # << >> /\ batch' = Tail(batch)
        /\ pc' \in {"ldap", "complete"} \/ batch' = << >>
    BY <1>0, <1>4 DEF CompleteReturns, Proceed, Remaining, AgentOK
  <2>2. \A i, j \in 1..Len(batch') : batch'[i] = batch'[j] => i = j
    BY <1>0, <2>1, BatchShape DEF BatchIsOrderly
  <2>3. Len(batch') <= Batch
    BY <1>0, <2>1, BatchShape, BatchAssumption DEF BatchIsOrderly
  <2> QED  BY <2>1, <2>2, <2>3 DEF BatchIsOrderly
<1>5. ASSUME PassFails \/ Stop \/ Crash PROVE BatchIsOrderly'
  BY <1>2, <1>5 DEF PassFails, Stop, Crash, Abandon
<1>6. ASSUME PollReturns PROVE BatchIsOrderly'
  BY <1>1, <1>6 DEF PollReturns, Proceed
<1>7. ASSUME \/ DirectoryServes \/ DirectoryRefuses \/ LdapReturns
             \/ LdapConnectionLost \/ BrokerCompletes
      PROVE  BatchIsOrderly'
  BY <1>1, <1>7
  DEF DirectoryServes, DirectoryRefuses, LdapReturns, LdapConnectionLost, OnRefusal,
      Finish, BrokerCompletes
<1>8. ASSUME Start \/ BeginPass \/ Connected \/ Unbound \/ Reported \/ Wake \/ Disconnected
      PROVE  BatchIsOrderly'
  BY <1>1, <1>8
  DEF Start, BeginPass, Connected, Unbound, Reported, Wake, Disconnected, BatchIsOrderly
<1>9. ASSUME UNCHANGED <<pc, call, batch>> PROVE BatchIsOrderly'
  BY <1>9 DEF BatchIsOrderly
<1>10. ASSUME NEW o \in Op, Enqueue(o) \/ Requeue(o) PROVE BatchIsOrderly'
  BY <1>9, <1>10 DEF Enqueue, Requeue, agent
<1>11. ASSUME NEW r \in late, LateArrival(r) PROVE BatchIsOrderly'
  BY <1>9, <1>11 DEF LateArrival, agent
<1>12. ASSUME Signal \/ UNCHANGED vars PROVE BatchIsOrderly'
  BY <1>9, <1>12 DEF Signal, vars, agent
<1> QED
  BY <1>3, <1>4, <1>5, <1>6, <1>7, <1>8, <1>10, <1>11, <1>12 DEF Next

LEMMA InitOrderly == Init => BatchIsOrderly
  BY BatchAssumption DEF Init, BatchIsOrderly
-----------------------------------------------------------------------------
(* A pass is counted.                                                      *)

Log == Op \X BOOLEAN

LEMMA LogsAreFinite == \A log \in SUBSET Log : IsFiniteSet(log)
<1>1. IsFiniteSet(BOOLEAN)
  <2>1. IsFiniteSet({TRUE} \cup {FALSE})
    BY FS_Singleton, FS_Union
  <2>2. BOOLEAN = {TRUE} \cup {FALSE}
    OBVIOUS
  <2> QED  BY <2>1, <2>2
<1>2. IsFiniteSet(Log)
  BY <1>1, OpAssumption, FS_Product DEF Log
<1> QED  BY <1>2, FS_Subset

(* One record more is counted where it belongs and nowhere else.           *)
LEMMA OneMore ==
  ASSUME NEW log \in SUBSET Log, NEW r \in Log, r \notin log, NEW T
  PROVE  /\ Cardinality(log \cap T) \in Nat
         /\ Cardinality((log \cup {r}) \cap T)
              = Cardinality(log \cap T) + IF r \in T THEN 1 ELSE 0
<1>1. IsFiniteSet(log \cap T) /\ Cardinality(log \cap T) \in Nat
  BY LogsAreFinite, FS_Intersection, FS_CardinalityType
<1>2. CASE r \in T
  <2>1. (log \cup {r}) \cap T = (log \cap T) \cup {r} /\ r \notin log \cap T
    BY <1>2
  <2>2. Cardinality((log \cap T) \cup {r}) = Cardinality(log \cap T) + 1
    BY <1>1, <2>1, FS_AddElement
  <2> QED  BY <1>1, <1>2, <2>1, <2>2
<1>3. CASE r \notin T
  <2>1. (log \cup {r}) \cap T = log \cap T
    BY <1>3
  <2>2. Cardinality((log \cup {r}) \cap T) = Cardinality(log \cap T)
    BY <2>1
  <2> QED  BY <1>1, <1>3, <2>2
<1> QED  BY <1>2, <1>3

Succeeded(kinds) == {r \in Log : r[2] /\ KindOf[r[1]] \in kinds}
FailedOnes == {r \in Log : ~r[2]}

LEMMA SummarizesParts ==
  ASSUME NEW log \in SUBSET Log, NEW c
  PROVE  Summarizes(c, log) <=>
           /\ c.inspected = Cardinality(log \cap Log)
           /\ c.created = Cardinality(log \cap Succeeded({"CREATE_ACCOUNT"}))
           /\ c.updated = Cardinality(log \cap Succeeded({"ENABLE_ACCOUNT", "UPDATE_ATTRIBUTES"}))
           /\ c.disabled = Cardinality(log \cap Succeeded({"DISABLE_ACCOUNT"}))
           /\ c.failed = Cardinality(log \cap FailedOnes)
<1>1. /\ log \cap Log = log
      /\ {r \in log : ~r[2]} = log \cap FailedOnes
  BY DEF FailedOnes
<1>2. \A kinds : {r \in log : r[2] /\ KindOf[r[1]] \in kinds} = log \cap Succeeded(kinds)
  BY DEF Succeeded
<1> QED  BY <1>1, <1>2 DEF Summarizes

(* record_ok and record_failure count one record.                          *)
LEMMA RecordCounts ==
  ASSUME NEW log \in SUBSET Log, NEW c \in SyncCounters, NEW o \in Op, NEW ok \in BOOLEAN,
         <<o, ok>> \notin log, Summarizes(c, log)
  PROVE  Summarizes(Record(ok, c, o), log \cup {<<o, ok>>})
<1> DEFINE r == <<o, ok>>
           n(T) == Cardinality(log \cap T)
           m(T) == Cardinality((log \cup {r}) \cap T)
           one(b) == IF b THEN 1 ELSE 0
<1>1. r \in Log /\ r \notin log /\ log \cup {r} \in SUBSET Log
  BY DEF Log
<1>2. \A T : m(T) = n(T) + one(r \in T)
  BY <1>1, OneMore
<1>3. /\ r \in Succeeded({"CREATE_ACCOUNT"}) <=> ok /\ KindOf[o] = "CREATE_ACCOUNT"
      /\ r \in Succeeded({"ENABLE_ACCOUNT", "UPDATE_ATTRIBUTES"})
           <=> ok /\ KindOf[o] \in {"UPDATE_ATTRIBUTES", "ENABLE_ACCOUNT"}
      /\ r \in Succeeded({"DISABLE_ACCOUNT"}) <=> ok /\ KindOf[o] = "DISABLE_ACCOUNT"
      /\ r \in FailedOnes <=> ~ok
  BY <1>1 DEF Succeeded, FailedOnes
<1>4. /\ c.inspected = n(Log)
      /\ c.created = n(Succeeded({"CREATE_ACCOUNT"}))
      /\ c.updated = n(Succeeded({"ENABLE_ACCOUNT", "UPDATE_ATTRIBUTES"}))
      /\ c.disabled = n(Succeeded({"DISABLE_ACCOUNT"}))
      /\ c.failed = n(FailedOnes)
  BY SummarizesParts
<1> HIDE DEF n, m
<1> DEFINE d == Record(ok, c, o)
<1>5. /\ d.inspected = c.inspected + 1
      /\ d.created = c.created + one(ok /\ KindOf[o] = "CREATE_ACCOUNT")
      /\ d.updated = c.updated + one(ok /\ KindOf[o] \in {"UPDATE_ATTRIBUTES", "ENABLE_ACCOUNT"})
      /\ d.disabled = c.disabled + one(ok /\ KindOf[o] = "DISABLE_ACCOUNT")
      /\ d.failed = c.failed + one(~ok)
  BY Zenon DEF Record
<1>6. /\ d.inspected = m(Log)
      /\ d.created = m(Succeeded({"CREATE_ACCOUNT"}))
      /\ d.updated = m(Succeeded({"ENABLE_ACCOUNT", "UPDATE_ATTRIBUTES"}))
      /\ d.disabled = m(Succeeded({"DISABLE_ACCOUNT"}))
      /\ d.failed = m(FailedOnes)
  BY <1>1, <1>2, <1>3, <1>4, <1>5
<1> QED  BY <1>1, <1>6, SummarizesParts DEF m

LEMMA NothingToCount == Summarizes(NoCounts, {})
<1>1. /\ \A T : {} \cap T = {}
      /\ Cardinality({}) = 0
  BY FS_EmptySet
<1> QED  BY <1>1, SummarizesParts DEF NoCounts

(* The next operation begins: the outcome of one that fails on the spot is *)
(* counted.                                                                *)
LEMMA ProceedCounts ==
  ASSUME NEW ops \in Seq(Op), Proceed(ops), counters \in SyncCounters,
         passLog' \subseteq Log, Summarizes(counters, passLog'),
         ops # << >> => <<Head(ops), FALSE>> \notin passLog'
  PROVE  Summarizes(counters', Outcomes')
<1>1. CASE pc' = "complete"
  <2>1. /\ ops # << >> /\ batch' = ops /\ result' = FALSE
        /\ counters' = Record(FALSE, counters, Head(ops))
    BY <1>1 DEF Proceed
  <2>2. Outcomes' = passLog' \cup {<<Head(ops), FALSE>>}
    BY <1>1, <2>1, Zenon DEF Outcomes, Logged
  <2>3. Head(ops) \in Op
    BY <2>1
  <2> QED  BY <2>1, <2>2, <2>3, RecordCounts
<1>2. CASE pc' # "complete"
  <2>1. counters' = counters
    BY <1>2 DEF Proceed
  <2> QED  BY <1>2, <2>1 DEF Outcomes
<1> QED  BY <1>1, <1>2

LEMMA FinishCounts ==
  ASSUME AgentOK, RestOK, PassIsCounted, pc = "ldap", NEW ok \in BOOLEAN, Finish(ok),
         batch' = batch, passLog' = passLog
  PROVE  Summarizes(counters', Outcomes')
<1>1. Head(batch) \in Op /\ 1 \in 1..Len(batch) /\ Head(batch) = batch[1]
  BY BatchShape DEF AgentOK
<1>2. <<Head(batch), ok>> \notin passLog /\ Summarizes(counters, passLog)
  BY <1>1 DEF PassIsCounted, Outcomes
<1>3. /\ counters' = Record(ok, counters, Head(batch))
      /\ Outcomes' = passLog \cup {<<Head(batch), ok>>}
  BY DEF Finish, Outcomes, Logged
<1> QED  BY <1>1, <1>2, <1>3, RecordCounts DEF AgentOK, RestOK, Log

LEMMA CountedInvariant ==
  Core /\ BatchIsOrderly /\ PassIsCounted /\ [Next]_vars => PassIsCounted'
<1> SUFFICES ASSUME Core, BatchIsOrderly, PassIsCounted, [Next]_vars PROVE PassIsCounted'
  OBVIOUS
<1>0. AgentOK /\ WorldOK /\ RestOK
  BY CoreParts
<1>1. ASSUME UNCHANGED <<pc, batch, result, counters, passLog>> PROVE PassIsCounted'
  BY <1>1 DEF PassIsCounted, Outcomes, Logged
<1>2. ASSUME pc' # "complete", batch' = << >>, counters' = NoCounts, passLog' = {}
      PROVE  PassIsCounted'
  BY <1>2, NothingToCount DEF PassIsCounted, Outcomes
<1>3. ASSUME PassFails \/ Stop \/ Crash PROVE PassIsCounted'
  BY <1>2, <1>3 DEF PassFails, Stop, Crash, Abandon
<1>4. ASSUME \/ DirectoryServes \/ DirectoryRefuses \/ BrokerCompletes \/ Signal
             \/ UNCHANGED vars
      PROVE  PassIsCounted'
  BY <1>1, <1>4
  DEF DirectoryServes, DirectoryRefuses, BrokerCompletes, Signal, vars, agent
<1>5. ASSUME NEW o \in Op, Enqueue(o) \/ Requeue(o) PROVE PassIsCounted'
  BY <1>1, <1>5 DEF Enqueue, Requeue, agent
<1>6. ASSUME NEW r \in late, LateArrival(r) PROVE PassIsCounted'
  BY <1>1, <1>6 DEF LateArrival, agent
<1>7. ASSUME Start \/ BeginPass \/ Connected \/ Unbound \/ Reported \/ Wake \/ Disconnected
      PROVE  PassIsCounted'
  <2>1. batch' = batch /\ batch = << >> /\ pc # "complete" /\ pc' # "complete"
    BY <1>7
    DEF Start, BeginPass, Connected, Unbound, Reported, Wake, Disconnected, BatchIsOrderly
  <2>2. CASE UNCHANGED <<counters, passLog>>
    <3>1. pc' \in {"down", "cycle", "connect", "poll", "sleep", "disconnect"}
            => passLog' = {}
      BY <1>7, <2>2
      DEF Start, BeginPass, Connected, Unbound, Reported, Wake, Disconnected, PassIsCounted
    <3> QED  BY <2>1, <2>2, <3>1 DEF PassIsCounted, Outcomes
  <2>3. CASE counters' = NoCounts /\ passLog' = {}
    BY <1>2, <2>1, <2>3
  <2> QED
    BY <1>7, <2>2, <2>3
    DEF Start, BeginPass, Connected, Unbound, Reported, Wake, Disconnected
<1>8. ASSUME BrokerClaims PROVE PassIsCounted'
  <2>1. pc = "poll" /\ pc' = pc /\ UNCHANGED <<result, counters, passLog>>
    BY <1>8 DEF BrokerClaims
  <2> QED  BY <2>1 DEF PassIsCounted, Outcomes
<1>9. ASSUME PollReturns PROVE PassIsCounted'
  <2>1. passLog = {} /\ passLog' = {} /\ batch' = batch
        /\ pc = "poll" /\ pc' \in {"unbind", "ldap", "complete"}
    BY <1>9 DEF PollReturns, Proceed, PassIsCounted
  <2>2. Summarizes(counters, passLog')
    BY <2>1 DEF PassIsCounted, Outcomes
  <2>3. Summarizes(counters', Outcomes')
    BY <1>0, <1>9, <2>1, <2>2, ProceedCounts DEF PollReturns, AgentOK
  <2> QED  BY <2>1, <2>3 DEF PassIsCounted
<1>10. ASSUME LdapReturns \/ LdapConnectionLost PROVE PassIsCounted'
  <2>1. pc = "ldap" /\ pc' \in {"ldap", "complete"} /\ UNCHANGED <<batch, passLog>>
    BY <1>10 DEF LdapReturns, LdapConnectionLost, OnRefusal, Finish
  <2>2. Summarizes(counters', Outcomes')
    <3>1. CASE \E ok \in BOOLEAN : Finish(ok)
      BY <1>0, <2>1, <3>1, FinishCounts
    <3>2. CASE UNCHANGED <<pc, counters>>
      BY <2>1, <3>2 DEF PassIsCounted, Outcomes
    <3> QED  BY <1>10, <3>1, <3>2 DEF LdapReturns, LdapConnectionLost, OnRefusal
  <2> QED  BY <2>1, <2>2 DEF PassIsCounted
<1>11. ASSUME CompleteReturns PROVE PassIsCounted'
  <2>1. /\ batch # << >> /\ batch' = Tail(batch) /\ pc = "complete" /\ Proceed(Tail(batch))
        /\ passLog' = passLog \cup {<<Head(batch), result>>}
        /\ pc' \in {"unbind", "ldap", "complete"}
    BY <1>0, <1>11 DEF CompleteReturns, Proceed, Remaining, Appended, Logged, AgentOK
  <2>2. passLog' \subseteq Log /\ Summarizes(counters, passLog')
    <3>1. Head(batch) \in Op /\ result \in BOOLEAN
      BY <1>0, <2>1, BatchShape DEF AgentOK
    <3> QED  BY <1>0, <2>1, <3>1 DEF PassIsCounted, Outcomes, Logged, Log, RestOK
  <2>3. \A i \in 1..Len(batch'), ok \in BOOLEAN : <<batch'[i], ok>> \notin passLog'
    <3> SUFFICES ASSUME NEW i \in 1..Len(batch'), NEW ok \in BOOLEAN
                 PROVE  <<batch'[i], ok>> \notin passLog'
      OBVIOUS
    <3>1. /\ i + 1 \in 1..Len(batch) /\ batch'[i] = batch[i + 1] /\ i + 1 # 1
          /\ 1 \in 1..Len(batch) /\ Head(batch) = batch[1]
      BY <1>0, <2>1, BatchShape
    <3>2. batch[i + 1] # Head(batch)
      BY <3>1 DEF BatchIsOrderly
    <3> QED  BY <2>1, <3>1, <3>2 DEF PassIsCounted
  <2>4. Tail(batch) # << >> => <<Head(Tail(batch)), FALSE>> \notin passLog'
    <3> SUFFICES ASSUME Tail(batch) # << >>
                 PROVE  1 \in 1..Len(batch') /\ Head(Tail(batch)) = batch'[1]
      BY <2>3
    <3>1. batch' \in Seq(Op)
      BY <1>0, <2>1 DEF AgentOK
    <3> QED  BY <2>1, <3>1
  <2>5. Summarizes(counters', Outcomes')
    <3>1. Tail(batch) \in Seq(Op) /\ counters \in SyncCounters
      BY <1>0, <2>1 DEF AgentOK
    <3> QED  BY <2>1, <2>2, <2>4, <3>1, ProceedCounts
  <2> QED  BY <2>1, <2>3, <2>5 DEF PassIsCounted
<1> QED
  BY <1>3, <1>4, <1>5, <1>6, <1>7, <1>8, <1>9, <1>10, <1>11 DEF Next

LEMMA InitCounted == Init => PassIsCounted
  BY NothingToCount DEF Init, PassIsCounted, Outcomes
-----------------------------------------------------------------------------
(* What is lost is paid for by faults.                                     *)

Polls(S) == {r \in S : r.to = "poll"}
PollsDue == Batch * Cardinality(Polls(late))
StopDue == signal /\ pc # "disconnect"
Due(b) == IF b THEN Batch ELSE 0
Claimed == {o \in Op : status[o] = "claimed"}

LEMMA LostIsFinite ==
  /\ IsFiniteSet(Lost) /\ Cardinality(Lost) \in Nat
  /\ \A S \in SUBSET Lost : Cardinality(S) <= Cardinality(Lost)
<1>1. Lost \subseteq Op
  BY DEF Lost
<1>2. IsFiniteSet(Lost)
  BY <1>1, OpAssumption, FS_Subset
<1> QED  BY <1>2, FS_Subset, FS_CardinalityType

(* At most n operations of a sequence are lost in addition.                *)
LEMMA LosesAtMost ==
  ASSUME NEW S \in SUBSET Op, IsFiniteSet(Lost), NEW n \in Nat, NEW q,
         S \subseteq Lost \cup {q[i] : i \in 1..n}
  PROVE  Cardinality(S) \in Nat /\ Cardinality(S) <= Cardinality(Lost) + n
<1> DEFINE T == {q[i] : i \in 1..n}
           f == [i \in 1..n |-> q[i]]
<1>1. IsFiniteSet(1..n) /\ Cardinality(1..n) = n
  BY FS_Interval
<1>2. f \in Surjection(1..n, T)
  BY DEF Surjection
<1>3. IsFiniteSet(T) /\ Cardinality(T) <= n
  BY <1>1, <1>2, FS_Surjection
<1>4. Cardinality(T) \in Nat /\ Cardinality(Lost) \in Nat /\ Cardinality(Lost \cap T) \in Nat
  BY <1>3, FS_CardinalityType, FS_Intersection
<1>5. /\ IsFiniteSet(Lost \cup T)
      /\ Cardinality(Lost \cup T) = Cardinality(Lost) + Cardinality(T) - Cardinality(Lost \cap T)
  BY <1>3, FS_Union
<1>6. IsFiniteSet(S) /\ Cardinality(S) <= Cardinality(Lost \cup T)
  BY <1>5, FS_Subset
<1>7. Cardinality(S) \in Nat
  BY <1>6, FS_CardinalityType
<1> QED  BY <1>3, <1>4, <1>5, <1>6, <1>7

LEMMA ToLoseParts == ToLose = PollsDue + Due(StopDue)
  BY DEF ToLose, Due, PollsDue, Polls, StopDue

LEMMA Product == \A a, b \in Nat : a * b \in Nat /\ a * (b + 1) = a * b + a
  OBVIOUS

LEMMA ProductGrows == \A a, b, c \in Nat : b <= c => a * b <= a * c
<1> SUFFICES ASSUME NEW a \in Nat, NEW b \in Nat, NEW c \in Nat, b <= c
             PROVE  a * b <= a * c
  OBVIOUS
<1>1. PICK d \in Nat : c = b + d
  <2>1. c - b \in Nat /\ c = b + (c - b)
    OBVIOUS
  <2> QED  BY <2>1
<1>2. a * c = a * b + a * d /\ a * d \in Nat /\ a * b \in Nat
  BY <1>1
<1> QED  BY <1>2

(* What late polls may still lose: none more without a poll more, a batch  *)
(* more with one more, a batch less with one less.                         *)
LEMMA PollsCost ==
  ASSUME NEW S, IsFiniteSet(S)
  PROVE  Cardinality(Polls(S)) \in Nat /\ Batch * Cardinality(Polls(S)) \in Nat
<1>1. IsFiniteSet(Polls(S))
  BY FS_Subset DEF Polls
<1> QED  BY <1>1, FS_CardinalityType, BatchAssumption

LEMMA FewerPolls ==
  ASSUME NEW S, IsFiniteSet(S), NEW T, Polls(T) \subseteq Polls(S)
  PROVE  Batch * Cardinality(Polls(T)) <= Batch * Cardinality(Polls(S))
<1>1. IsFiniteSet(Polls(S))
  BY FS_Subset DEF Polls
<1>2. IsFiniteSet(Polls(T)) /\ Cardinality(Polls(T)) <= Cardinality(Polls(S))
  BY <1>1, FS_Subset
<1> QED  BY <1>1, <1>2, FS_CardinalityType, ProductGrows, BatchAssumption

LEMMA AddOne ==
  ASSUME NEW P, IsFiniteSet(P), NEW n \in Nat, n = Cardinality(P), NEW x
  PROVE  IsFiniteSet(P \cup {x}) /\ Cardinality(P \cup {x}) <= n + 1
<1>1. IsFiniteSet(P \cup {x}) /\ Cardinality(P \cup {x}) \in {n, n + 1}
  BY FS_AddElement
<1> QED  BY <1>1

LEMMA RemoveOne ==
  ASSUME NEW P, IsFiniteSet(P), NEW x \in P
  PROVE  Cardinality(P \ {x}) = Cardinality(P) - 1
  BY FS_RemoveElement

LEMMA OnePollMore ==
  ASSUME NEW S, IsFiniteSet(S), NEW x
  PROVE  Batch * Cardinality(Polls(S \cup {x})) <= Batch * Cardinality(Polls(S)) + Batch
<1>1. IsFiniteSet(Polls(S)) /\ Cardinality(Polls(S)) \in Nat
  BY PollsCost, FS_Subset DEF Polls
<1>2. /\ IsFiniteSet(Polls(S) \cup {x})
      /\ Cardinality(Polls(S) \cup {x}) <= Cardinality(Polls(S)) + 1
  BY <1>1, AddOne
<1>3. Polls(S \cup {x}) \subseteq Polls(S) \cup {x}
  BY DEF Polls
<1>4. /\ Cardinality(Polls(S \cup {x})) \in Nat
      /\ Cardinality(Polls(S \cup {x})) <= Cardinality(Polls(S)) + 1
  <2>1. /\ IsFiniteSet(Polls(S \cup {x}))
        /\ Cardinality(Polls(S \cup {x})) <= Cardinality(Polls(S) \cup {x})
    BY <1>2, <1>3, FS_Subset
  <2> QED  BY <1>1, <1>2, <2>1, FS_CardinalityType
<1>5. Batch * Cardinality(Polls(S \cup {x})) <= Batch * (Cardinality(Polls(S)) + 1)
  BY <1>1, <1>4, ProductGrows, BatchAssumption
<1> QED  BY <1>1, <1>5, Product, BatchAssumption

LEMMA OnePollLess ==
  ASSUME NEW S, IsFiniteSet(S), NEW x \in Polls(S)
  PROVE  Batch * Cardinality(Polls(S)) = Batch * Cardinality(Polls(S \ {x})) + Batch
<1>1. IsFiniteSet(Polls(S)) /\ Cardinality(Polls(S)) \in Nat
  BY PollsCost, FS_Subset DEF Polls
<1>2. Polls(S \ {x}) = Polls(S) \ {x}
  BY DEF Polls
<1>3. Cardinality(Polls(S) \ {x}) = Cardinality(Polls(S)) - 1
  BY <1>1, RemoveOne
<1>4. Cardinality(Polls(S \ {x})) \in Nat
  <2>1. IsFiniteSet(S \ {x})
    BY FS_Subset
  <2> QED  BY <2>1, PollsCost
<1>5. Cardinality(Polls(S \ {x})) = Cardinality(Polls(S)) - 1
  BY <1>2, <1>3, Zenon
<1>6. Cardinality(Polls(S)) = Cardinality(Polls(S \ {x})) + 1
  BY <1>1, <1>5
<1> QED  BY <1>4, <1>6, Product, BatchAssumption

(* There are finitely many late requests: a step adds at most one.         *)
LEMMA LateIsFinite == IsFiniteSet(late) /\ [Next]_vars => IsFiniteSet(late')
<1> SUFFICES ASSUME IsFiniteSet(late), [Next]_vars PROVE IsFiniteSet(late')
  OBVIOUS
<1>1. late' \subseteq late \cup Outstanding
  <2>1. ASSUME \/ \E o \in Op : Enqueue(o) \/ Requeue(o)
               \/ DirectoryServes \/ DirectoryRefuses
               \/ \E r \in late : LateArrival(r)
               \/ Start \/ BeginPass \/ Connected \/ BrokerClaims \/ PollReturns
               \/ BrokerCompletes \/ Unbound \/ Reported \/ Wake \/ Signal
               \/ Disconnected \/ UNCHANGED vars
        PROVE  late' \subseteq late
    BY <2>1, Zenon
    DEF Enqueue, Requeue, DirectoryServes, DirectoryRefuses, LateArrival, Start,
        BeginPass, Connected, BrokerClaims, PollReturns, BrokerCompletes, Unbound,
        Reported, Wake, Signal, Disconnected, vars
  <2>2. ASSUME LdapReturns PROVE late' = late
    BY <2>2 DEF LdapReturns
  <2>3. ASSUME PassFails \/ LdapConnectionLost \/ CompleteReturns \/ Stop \/ Crash
        PROVE  late' = late \cup Outstanding
    BY <2>3 DEF PassFails, LdapConnectionLost, CompleteReturns, Stop, Crash, Abandon
  <2> QED  BY <2>1, <2>2, <2>3 DEF Next
<1>2. PICK x : Outstanding \subseteq {x}
  <2>1. \/ Outstanding = {}
        \/ Outstanding = {[to |-> "poll", no |-> faults']}
        \/ Outstanding = {[to |-> "ldap", no |-> faults', op |-> Head(batch), step |-> step]}
        \/ Outstanding = {[to |-> "complete", no |-> faults', op |-> Head(batch), ok |-> result]}
    BY Zenon DEF Outstanding
  <2> QED  BY <2>1
<1>3. IsFiniteSet(late \cup {x})
  BY FS_AddElement
<1> QED  BY <1>1, <1>2, <1>3, FS_Subset

(* The bound is kept where what is lost more, n operations, was due or is  *)
(* paid for by a fault ...                                                 *)
LEMMA LossOf ==
  ASSUME RestOK, LossIsPaidFor, IsFiniteSet(late'),
         Cardinality(Lost') \in Nat, NEW n \in Nat,
         Cardinality(Lost') <= Cardinality(Lost) + n,
         \/ /\ faults' = faults
            /\ PollsDue' + Due(StopDue') + n <= PollsDue + Due(StopDue)
         \/ /\ faults' = faults + 1
            /\ PollsDue' + Due(StopDue') + n <= PollsDue + Due(StopDue) + Batch
  PROVE  LossIsPaidFor'
<1>1. Cardinality(Lost) \in Nat /\ faults \in Nat /\ Batch \in Nat
  BY LostIsFinite, BoundAssumption, BatchAssumption DEF RestOK
<1>2. PollsDue \in Nat /\ PollsDue' \in Nat /\ \A b : Due(b) \in Nat
  BY <1>1, PollsCost DEF Due, PollsDue, LossIsPaidFor
<1>3. Batch * faults \in Nat /\ Batch * (faults + 1) = Batch * faults + Batch
  BY <1>1, Product
<1>4. Cardinality(Lost) + (PollsDue + Due(StopDue)) <= Batch * faults
  BY ToLoseParts DEF LossIsPaidFor
<1>5. ToLose' = PollsDue' + Due(StopDue')
  BY DEF ToLose, Due, PollsDue, Polls, StopDue
<1>6. Cardinality(Lost') + (PollsDue' + Due(StopDue')) <= Batch * faults'
  <2> DEFINE a == PollsDue  b == Due(StopDue)
             c == PollsDue' d == Due(StopDue')
             l == Cardinality(Lost) m == Cardinality(Lost') p == Batch * faults
  <2>1. a \in Nat /\ b \in Nat /\ c \in Nat /\ d \in Nat
    BY <1>2
  <2>2. l \in Nat /\ m \in Nat /\ p \in Nat /\ m <= l + n /\ l + (a + b) <= p
    BY <1>1, <1>3, <1>4
  <2>3. \/ faults' = faults /\ c + d + n <= a + b
        \/ faults' = faults + 1 /\ c + d + n <= a + b + Batch
    OBVIOUS
  <2>4. Batch * faults' = IF faults' = faults THEN p ELSE p + Batch
    BY <1>1, <1>3, <2>3
  <2> HIDE DEF a, b, c, d, l, m, p
  <2>5. faults' # faults => c + d + n <= a + b + Batch
    BY <2>3
  <2>6. faults' = faults => c + d + n <= a + b
    BY <1>1, <2>3
  <2>7. m + (c + d) <= IF faults' = faults THEN p ELSE p + Batch
    BY <1>1, <2>1, <2>2, <2>5, <2>6
  <2> QED  BY <2>4, <2>7 DEF c, d, m
<1> QED  BY <1>5, <1>6 DEF LossIsPaidFor

(* ... in particular where nothing more is lost.                           *)
LEMMA NoLoss ==
  ASSUME RestOK, LossIsPaidFor, IsFiniteSet(late'), Lost' \subseteq Lost,
         Polls(late') \subseteq Polls(late), StopDue' => StopDue,
         faults' \in {faults, faults + 1}
  PROVE  LossIsPaidFor'
<1>1. Cardinality(Lost') \in Nat /\ Cardinality(Lost') <= Cardinality(Lost)
  BY LostIsFinite, FS_Subset, FS_CardinalityType
<1>2. Batch \in Nat /\ Cardinality(Lost) \in Nat
  BY BatchAssumption, LostIsFinite
<1>3. PollsDue' <= PollsDue /\ Due(StopDue') <= Due(StopDue)
  BY <1>2, FewerPolls DEF Due, PollsDue, LossIsPaidFor
<1>4. PollsDue \in Nat /\ PollsDue' \in Nat /\ \A b : Due(b) \in Nat
  BY <1>2, PollsCost DEF Due, PollsDue, LossIsPaidFor
<1>5. /\ PollsDue' + Due(StopDue') + 0 <= PollsDue + Due(StopDue)
      /\ PollsDue' + Due(StopDue') + 0 <= PollsDue + Due(StopDue) + Batch
  BY <1>2, <1>3, <1>4
<1>6. 0 \in Nat /\ Cardinality(Lost') <= Cardinality(Lost) + 0
  BY <1>1, <1>2
<1> QED  BY <1>1, <1>5, <1>6, LossOf

(* A pass that is dropped loses its batch, or the answer to its poll.      *)
LEMMA AbandonLoses ==
  ASSUME AgentOK, BatchIsOrderly, IsFiniteSet(late), NEW next, Abandon(next),
         status' = status
  PROVE  \E n \in Nat : /\ Cardinality(Lost') \in Nat
                        /\ Cardinality(Lost') <= Cardinality(Lost) + n
                        /\ PollsDue' + n <= PollsDue + Batch
<1>1. batch' = << >> /\ late' = late \cup Outstanding
  BY DEF Abandon
<1>2. Batch \in Nat /\ PollsDue \in Nat
  BY BatchAssumption, PollsCost DEF PollsDue
<1>3. Lost' \subseteq Claimed /\ Lost' \subseteq Op
  BY DEF Lost, Claimed
<1>4. CASE pc = "poll" /\ call = "sent"
  <2>1. batch = << >>
    BY <1>4 DEF BatchIsOrderly
  <2>2. Lost' \subseteq Lost
    BY <1>3, <2>1 DEF Lost, Claimed, InHand
  <2>3. Cardinality(Lost') \in Nat /\ Cardinality(Lost') <= Cardinality(Lost) + 0
    BY <2>2, LostIsFinite, FS_Subset, FS_CardinalityType
  <2>4. late' = late \cup {[to |-> "poll", no |-> faults']}
    BY <1>1, <1>4 DEF Outstanding
  <2>5. PollsDue' <= PollsDue + Batch
    BY <2>4, OnePollMore DEF PollsDue
  <2>6. IsFiniteSet(late')
    BY <2>4, FS_AddElement
  <2>7. PollsDue' + 0 <= PollsDue + Batch
    BY <2>5, <2>6, PollsCost DEF PollsDue
  <2> QED  BY <2>3, <2>7
<1>5. CASE ~(pc = "poll" /\ call = "sent")
  <2>1. \A r \in Outstanding : r.to # "poll"
    BY <1>5 DEF Outstanding
  <2>2. PollsDue' = PollsDue
    BY <1>1, <2>1 DEF PollsDue, Polls
  <2>3. Len(batch) \in Nat /\ Len(batch) <= Batch
    BY BatchShape DEF BatchIsOrderly
  <2>4. Lost' \subseteq Lost \cup {batch[i] : i \in 1..Len(batch)}
    BY <1>3 DEF Lost, Claimed, InHand
  <2>5. /\ Cardinality(Lost') \in Nat
        /\ Cardinality(Lost') <= Cardinality(Lost) + Len(batch)
    BY <1>3, <2>3, <2>4, LostIsFinite, LosesAtMost
  <2>6. PollsDue' + Len(batch) <= PollsDue + Batch
    BY <1>2, <2>2, <2>3
  <2> QED  BY <2>3, <2>5, <2>6
<1> QED  BY <1>4, <1>5

LEMMA LossInvariant ==
  Core /\ BatchIsOrderly /\ LossIsPaidFor /\ [Next]_vars => LossIsPaidFor'
<1> SUFFICES ASSUME Core, BatchIsOrderly, LossIsPaidFor, [Next]_vars PROVE LossIsPaidFor'
  OBVIOUS
<1>0. AgentOK /\ WorldOK /\ RestOK /\ QueueIsOpen
  BY CoreParts
<1>a. Batch \in Nat /\ faults \in Nat /\ \A b : Due(b) \in Nat /\ Due(b) <= Batch
  BY <1>0, BatchAssumption, BoundAssumption DEF Due, RestOK
<1>b. IsFiniteSet(late) /\ IsFiniteSet(late')
  BY LateIsFinite DEF LossIsPaidFor
<1>c. PollsDue \in Nat /\ PollsDue' \in Nat
  BY <1>b, PollsCost DEF PollsDue
<1>1. ASSUME NEW o \in Op, Enqueue(o) PROVE LossIsPaidFor'
  <2>1. UNCHANGED <<agent, late, faults>> /\ \A p \in Op : status'[p] = "claimed" => status[p] = "claimed"
    BY <1>0, <1>1 DEF Enqueue, WorldOK
  <2>2. Lost' \subseteq Lost
    BY <2>1 DEF Lost, InHand, agent
  <2> QED  BY <1>0, <1>b, <2>1, <2>2, NoLoss DEF agent, Polls, StopDue
<1>2. ASSUME NEW o \in Op, Requeue(o) PROVE LossIsPaidFor'
  <2>1. UNCHANGED <<agent, late>> /\ \A p \in Op : status'[p] = "claimed" => status[p] = "claimed"
    BY <1>0, <1>2 DEF Requeue, WorldOK
  <2>2. faults' \in {faults, faults + 1}
    BY <1>2 DEF Requeue, Fault
  <2>3. Lost' \subseteq Lost
    BY <2>1 DEF Lost, InHand, agent
  <2> QED  BY <1>0, <1>b, <2>1, <2>2, <2>3, NoLoss DEF agent, Polls, StopDue
<1>3. ASSUME \/ DirectoryServes \/ DirectoryRefuses \/ PollReturns
             \/ Start \/ BeginPass \/ Connected \/ Unbound \/ Reported \/ Wake
             \/ Disconnected \/ UNCHANGED vars
      PROVE  LossIsPaidFor'
  <2>1. UNCHANGED <<batch, status, late, faults>>
    BY <1>3
    DEF DirectoryServes, DirectoryRefuses, PollReturns, Proceed, Start, BeginPass,
        Connected, Unbound, Reported, Wake, Disconnected, vars, agent, broker
  <2>4. signal' => signal /\ (pc # "disconnect" \/ pc' = pc)
    BY <1>3
    DEF DirectoryServes, DirectoryRefuses, PollReturns, Proceed, Start, BeginPass,
        Connected, Unbound, Reported, Wake, Disconnected, vars, agent, broker
  <2>5. StopDue' => StopDue
    BY <2>4 DEF StopDue
  <2>2. pc' = "complete" /\ call' = "ok" => pc = "complete" /\ call = "ok"
    BY <1>3
    DEF DirectoryServes, DirectoryRefuses, PollReturns, Proceed, Start, BeginPass,
        Connected, Unbound, Reported, Wake, Disconnected, vars, agent
  <2>3. Lost' \subseteq Lost
    BY <2>1, <2>2 DEF Lost, InHand
  <2> QED  BY <1>0, <1>b, <2>1, <2>3, <2>5, NoLoss DEF Polls
<1>4. ASSUME LdapReturns \/ LdapConnectionLost PROVE LossIsPaidFor'
  <2>1. /\ pc = "ldap" /\ UNCHANGED <<signal, batch, status>>
        /\ late' \subseteq late \cup Outstanding /\ pc' \in {"ldap", "complete"}
        /\ (pc' = "complete" => call' = "sent")
        /\ faults' \in {faults, faults + 1}
    BY <1>4 DEF LdapReturns, LdapConnectionLost, OnRefusal, Finish, Fault, broker
  <2>2. \A r \in Outstanding : r.to # "poll"
    BY <2>1 DEF Outstanding
  <2>3. Lost' \subseteq Lost
    BY <2>1 DEF Lost, InHand
  <2> QED  BY <1>0, <1>b, <2>1, <2>2, <2>3, NoLoss DEF Polls, StopDue
<1>5. ASSUME NEW r \in late, LateArrival(r) PROVE LossIsPaidFor'
  <2>1. /\ UNCHANGED <<agent, faults>> /\ late' = late \ {r} /\ r \in Request
        /\ StopDue' = StopDue
    BY <1>0, <1>5 DEF LateArrival, WorldOK, agent, StopDue
  <2>2. CASE r.to = "poll" /\ Claim
    <3>1. r \in Polls(late)
      BY <1>5, <2>2 DEF Polls
    <3>2. PollsDue = PollsDue' + Batch
      BY <1>b, <2>1, <3>1, OnePollLess DEF PollsDue
    <3>3. ClaimCount \in Nat /\ ClaimCount <= Batch
      BY <1>0, BatchAssumption DEF ClaimCount, WorldOK
    <3>4. Lost' \subseteq Lost \cup {queue[i] : i \in 1..ClaimCount}
      BY <2>1, <2>2 DEF Claim, Lost, InHand, agent
    <3>5. Lost' \in SUBSET Op
      BY DEF Lost
    <3>6. /\ Cardinality(Lost') \in Nat
          /\ Cardinality(Lost') <= Cardinality(Lost) + ClaimCount
      BY <3>3, <3>4, <3>5, LostIsFinite, LosesAtMost
    <3>7. Due(StopDue') = Due(StopDue)
      BY <2>1
    <3>8. PollsDue' + Due(StopDue') + ClaimCount <= PollsDue + Due(StopDue)
      BY <1>a, <1>c, <3>2, <3>3, <3>7
    <3> QED  BY <1>0, <1>b, <2>1, <3>3, <3>6, <3>8, LossOf
  <2>3. CASE \/ r.to = "complete" /\ Complete(r.op, r.ok)
             \/ r.to = "ldap" /\ UNCHANGED broker
    <3>1. \A p \in Op : status'[p] = "claimed" => status[p] = "claimed"
      BY <1>0, <2>3 DEF Complete, WorldOK, broker
    <3>2. Lost' \subseteq Lost
      BY <2>1, <3>1 DEF Lost, InHand, agent
    <3> QED  BY <1>0, <1>b, <2>1, <3>2, NoLoss DEF Polls
  <2> QED  BY <1>5, <2>2, <2>3 DEF LateArrival
<1>6. ASSUME BrokerClaims PROVE LossIsPaidFor'
  <2>1. /\ pc = "poll" /\ call = "sent" /\ UNCHANGED <<pc, signal, late, faults>>
        /\ Claim /\ batch' = SubSeq(queue, 1, ClaimCount)
    BY <1>6 DEF BrokerClaims
  <2>2. /\ Len(batch') = ClaimCount /\ \A i \in 1..ClaimCount : batch'[i] = queue[i]
    BY <1>0, <2>1, ClaimedFront
  <2>3. batch = << >>
    BY <2>1 DEF BatchIsOrderly
  <2>4. \A o \in Op : ~InHand(o)
    BY <2>3 DEF InHand
  <2>5. \A o \in Op : status'[o] = "claimed" => status[o] = "claimed" \/ InHand(o)'
    BY <2>1, <2>2 DEF Claim, InHand
  <2>6. Lost' \subseteq Lost
    BY <2>1, <2>4, <2>5 DEF Lost
  <2> QED  BY <1>0, <1>b, <2>1, <2>6, NoLoss DEF Polls, StopDue
<1>7. ASSUME BrokerCompletes PROVE LossIsPaidFor'
  <2>1. /\ UNCHANGED <<pc, signal, batch, late, faults>> /\ Complete(Head(batch), result)
    BY <1>7 DEF BrokerCompletes
  <2>2. \A o \in Op : status'[o] = "claimed" => status[o] = "claimed" /\ o # Head(batch)
    BY <1>0, <2>1 DEF Complete, WorldOK
  <2>3. Lost' \subseteq Lost
    BY <2>1, <2>2 DEF Lost, InHand
  <2> QED  BY <1>0, <1>b, <2>1, <2>3, NoLoss DEF Polls, StopDue
<1>8. ASSUME CompleteReturns PROVE LossIsPaidFor'
  <2>1. /\ pc = "complete" /\ batch # << >> /\ batch' = Tail(batch)
        /\ UNCHANGED <<signal, status>> /\ late' = late \cup Outstanding
        /\ pc' \in {"unbind", "ldap", "complete"} /\ call' # "ok"
        /\ \/ call = "ok" /\ faults' = faults
           \/ call = "sent" /\ faults' = faults + 1
    BY <1>0, <1>8
    DEF CompleteReturns, Remaining, Proceed, Fault, broker, AgentOK
  <2>2. \A r \in Outstanding : r.to # "poll"
    BY <2>1 DEF Outstanding
  <2>3. Polls(late') = Polls(late) /\ PollsDue' = PollsDue /\ StopDue' = StopDue
    BY <2>1, <2>2 DEF Polls, PollsDue, StopDue
  <2>4. \A o \in Op : InHand(o) => InHand(o)' \/ o = Head(batch)
    <3> SUFFICES ASSUME NEW i \in 1..Len(batch)
                 PROVE  \/ \E j \in 1..Len(batch') : batch'[j] = batch[i]
                        \/ batch[i] = Head(batch)
      BY DEF InHand
    <3>1. CASE i = 1
      BY <1>0, <2>1, <3>1, BatchShape
    <3>2. CASE i # 1
      <4>1. i - 1 \in 1..Len(batch')
        BY <1>0, <2>1, <3>2, BatchShape
      <4>2. batch'[i - 1] = batch[(i - 1) + 1] /\ (i - 1) + 1 = i
        BY <1>0, <2>1, <4>1, BatchShape
      <4> QED  BY <4>1, <4>2
    <3> QED  BY <3>1, <3>2
  <2>5. CASE call = "ok"
    <3>1. Lost' \subseteq Lost
      BY <2>1, <2>4, <2>5 DEF Lost
    <3> QED  BY <1>0, <1>b, <2>1, <2>3, <3>1, NoLoss
  <2>6. CASE call = "sent"
    <3> DEFINE q == [i \in {1} |-> Head(batch)]
    <3>1. Lost' \subseteq Lost \cup {q[i] : i \in 1..1}
      <4>1. Lost' \subseteq Lost \cup {Head(batch)}
        BY <2>1, <2>4 DEF Lost
      <4>2. q[1] = Head(batch) /\ 1 \in 1..1
        OBVIOUS
      <4> QED  BY <4>1, <4>2
    <3>2. Lost' \in SUBSET Op
      BY DEF Lost
    <3> HIDE DEF q
    <3>3. /\ Cardinality(Lost') \in Nat
          /\ Cardinality(Lost') <= Cardinality(Lost) + 1
      BY <3>1, <3>2, LostIsFinite, LosesAtMost
    <3>4. PollsDue' = PollsDue /\ Due(StopDue') = Due(StopDue) /\ 1 <= Batch
      BY <2>3, BatchAssumption
    <3>5. PollsDue' + Due(StopDue') + 1 <= PollsDue + Due(StopDue) + Batch
      BY <1>a, <1>c, <3>4
    <3>6. faults' = faults + 1
      BY <2>1, <2>6
    <3> QED  BY <1>0, <1>b, <3>3, <3>5, <3>6, LossOf
  <2> QED  BY <2>1, <2>5, <2>6
<1>9. ASSUME Signal PROVE LossIsPaidFor'
  <2>1. /\ UNCHANGED <<pc, call, batch, status, late>> /\ faults' = faults + 1 /\ ~signal
    BY <1>9 DEF Signal, Fault, broker
  <2>2. Lost' = Lost
    BY <2>1 DEF Lost, InHand
  <2>3. Cardinality(Lost') \in Nat /\ Cardinality(Lost') <= Cardinality(Lost) + 0
    BY <2>2, LostIsFinite
  <2>4. PollsDue' = PollsDue /\ Due(StopDue) = 0
    BY <2>1 DEF PollsDue, Polls, StopDue, Due
  <2>5. PollsDue' + Due(StopDue') + 0 <= PollsDue + Due(StopDue) + Batch
    BY <1>a, <1>c, <2>4
  <2> QED  BY <1>0, <1>b, <2>1, <2>3, <2>5, LossOf
<1>10. ASSUME PassFails \/ Stop \/ Crash PROVE LossIsPaidFor'
  <2>1. status' = status /\ \E next : Abandon(next)
    BY <1>10 DEF PassFails, Stop, Crash, broker
  <2>2. PICK n \in Nat : /\ Cardinality(Lost') \in Nat
                         /\ Cardinality(Lost') <= Cardinality(Lost) + n
                         /\ PollsDue' + n <= PollsDue + Batch
    BY <1>0, <1>b, <2>1, AbandonLoses
  <2>3. \/ faults' = faults + 1 /\ ~StopDue'
        \/ faults' = faults /\ StopDue /\ ~StopDue'
    BY <1>10 DEF PassFails, Stop, Crash, Fault, Running, StopDue, Abandon
  <2>4. Due(StopDue') = 0
    BY <2>3 DEF Due
  <2>5. faults' = faults => Due(StopDue) = Batch
    BY <1>a, <2>3 DEF Due
  <2>6. \/ /\ faults' = faults
           /\ PollsDue' + Due(StopDue') + n <= PollsDue + Due(StopDue)
        \/ /\ faults' = faults + 1
           /\ PollsDue' + Due(StopDue') + n <= PollsDue + Due(StopDue) + Batch
    <3> DEFINE a == PollsDue  b == Due(StopDue)
               c == PollsDue' d == Due(StopDue')
    <3>1. a \in Nat /\ b \in Nat /\ c \in Nat /\ c + n <= a + Batch /\ d = 0
      BY <1>a, <1>c, <2>2, <2>4
    <3>2. faults' = faults => b = Batch
      BY <2>5
    <3> HIDE DEF a, b, c, d
    <3>3. c + d + n <= a + b + Batch
      BY <1>a, <3>1
    <3>4. faults' = faults => c + d + n <= a + b
      BY <1>a, <3>1, <3>2
    <3> QED  BY <2>3, <3>3, <3>4 DEF a, b, c, d
  <2> QED  BY <1>0, <1>b, <2>2, <2>6, LossOf
<1> QED
  BY <1>1, <1>2, <1>3, <1>4, <1>5, <1>6, <1>7, <1>8, <1>9, <1>10 DEF Next

LEMMA InitLoss == Init => LossIsPaidFor
<1> SUFFICES ASSUME Init PROVE LossIsPaidFor
  OBVIOUS
<1>1. Lost = {} /\ Cardinality(Lost) = 0
  <2>1. Lost = {}
    BY DEF Init, Lost
  <2> QED  BY <2>1, FS_EmptySet
<1>2. IsFiniteSet(late) /\ Cardinality(Polls(late)) = 0
  <2>1. late = {} /\ Polls(late) = {}
    BY DEF Init, Polls
  <2> QED  BY <2>1, FS_EmptySet
<1>3. ToLose = 0 /\ Batch * faults = 0
  BY <1>2, BatchAssumption DEF Init, ToLose, Polls
<1> QED  BY <1>1, <1>2, <1>3 DEF LossIsPaidFor
-----------------------------------------------------------------------------
(* How many operations are in a set of them, and in one that has grown.    *)
LEMMA OneMoreOp ==
  ASSUME NEW H \in SUBSET Op
  PROVE  /\ Cardinality(H) \in Nat
         /\ \A S \in SUBSET H : Cardinality(S) \in Nat /\ Cardinality(S) <= Cardinality(H)
         /\ \A h, S : S \subseteq H \cup {h} =>
               Cardinality(S) \in Nat /\ Cardinality(S) <= Cardinality(H) + 1
<1>1. IsFiniteSet(H) /\ Cardinality(H) \in Nat
  BY OpAssumption, FS_Subset, FS_CardinalityType
<1>2. \A S \in SUBSET H : Cardinality(S) \in Nat /\ Cardinality(S) <= Cardinality(H)
  BY <1>1, FS_Subset, FS_CardinalityType
<1>3. ASSUME NEW h, NEW S, S \subseteq H \cup {h}
      PROVE  Cardinality(S) \in Nat /\ Cardinality(S) <= Cardinality(H) + 1
  <2>1. /\ IsFiniteSet(H \cup {h})
        /\ Cardinality(H \cup {h}) \in {Cardinality(H), Cardinality(H) + 1}
    BY <1>1, FS_AddElement
  <2>2. IsFiniteSet(S) /\ Cardinality(S) <= Cardinality(H \cup {h})
    BY <1>3, <2>1, FS_Subset
  <2>3. Cardinality(S) \in Nat
    BY <2>2, FS_CardinalityType
  <2> QED  BY <1>1, <2>1, <2>2, <2>3
<1> QED  BY <1>1, <1>2, <1>3

(* What is hidden from the audit log is paid for by faults.                *)

Dropping(b) == IF b THEN 1 ELSE 0

LEMMA HiddenParts ==
  /\ HidingIsPaidFor <=> Cardinality(Hidden) + Dropping(StopDue) <= faults
  /\ HidingIsPaidFor' <=> Cardinality(Hidden') + Dropping(StopDue') <= faults'
  /\ \A b : Dropping(b) \in {0, 1}
<1>1. \A b : Dropping(b) \in {0, 1}
  BY DEF Dropping
<1>2. HidingIsPaidFor <=> Cardinality(Hidden) + Dropping(StopDue) <= faults
  BY DEF HidingIsPaidFor, Dropping, StopDue
<1>3. HidingIsPaidFor' <=> Cardinality(Hidden') + Dropping(StopDue') <= faults'
  BY DEF HidingIsPaidFor, Dropping, StopDue
<1> QED  BY <1>1, <1>2, <1>3

LEMMA HiddenIsFinite ==
  /\ Cardinality(Hidden) \in Nat
  /\ \A S \in SUBSET Hidden : Cardinality(S) \in Nat /\ Cardinality(S) <= Cardinality(Hidden)
  /\ \A h, S : S \subseteq Hidden \cup {h} =>
        Cardinality(S) \in Nat /\ Cardinality(S) <= Cardinality(Hidden) + 1
<1>1. Hidden \subseteq Op
  BY DEF Hidden
<1> QED  BY <1>1, OneMoreOp

(* The bound is kept where nothing more is hidden ...                      *)
LEMMA NothingHidden ==
  ASSUME RestOK, HidingIsPaidFor, Hidden' \subseteq Hidden,
         \/ StopDue' => StopDue
         \/ faults' = faults + 1,
         faults' \in {faults, faults + 1}
  PROVE  HidingIsPaidFor'
<1>1. faults \in Nat /\ Cardinality(Hidden) + Dropping(StopDue) <= faults
  BY BoundAssumption, HiddenParts DEF RestOK
<1>2. /\ Cardinality(Hidden') \in Nat /\ Cardinality(Hidden) \in Nat
      /\ Cardinality(Hidden') <= Cardinality(Hidden)
  BY HiddenIsFinite
<1>3. /\ Dropping(StopDue) \in {0, 1} /\ Dropping(StopDue') \in {0, 1}
      /\ (StopDue' => StopDue) => Dropping(StopDue') <= Dropping(StopDue)
  BY DEF Dropping
<1> QED  BY <1>1, <1>2, <1>3, HiddenParts

(* ... and where a pass is dropped: it hides the operation in hand.        *)
LEMMA DroppedIsHidden ==
  ASSUME RestOK, HidingIsPaidFor, Hidden' \subseteq Hidden \cup {Head(batch)}, ~StopDue',
         \/ faults' = faults /\ StopDue
         \/ faults' = faults + 1
  PROVE  HidingIsPaidFor'
<1>1. faults \in Nat /\ Cardinality(Hidden) + Dropping(StopDue) <= faults
  BY BoundAssumption, HiddenParts DEF RestOK
<1>2. /\ Cardinality(Hidden') \in Nat /\ Cardinality(Hidden) \in Nat
      /\ Cardinality(Hidden') <= Cardinality(Hidden) + 1
  BY HiddenIsFinite
<1>3. /\ Dropping(StopDue) \in {0, 1} /\ Dropping(StopDue') = 0
      /\ StopDue => Dropping(StopDue) = 1
  BY DEF Dropping
<1> QED  BY <1>1, <1>2, <1>3, HiddenParts

LEMMA HidingInvariant == Core /\ BatchIsOrderly /\ HidingIsPaidFor /\ [Next]_vars => HidingIsPaidFor'
<1> SUFFICES ASSUME Core, BatchIsOrderly, HidingIsPaidFor, [Next]_vars PROVE HidingIsPaidFor'
  OBVIOUS
<1>0. AgentOK /\ WorldOK /\ RestOK
  BY CoreParts
<1>1. ASSUME UNCHANGED <<pc, batch, audited, served>>, late' \subseteq late,
             StopDue' => StopDue, faults' \in {faults, faults + 1}
      PROVE  HidingIsPaidFor'
  <2>1. Hidden' \subseteq Hidden
    BY <1>1 DEF Hidden, Unrecorded, Recorded, InProgress
  <2> QED  BY <1>0, <1>1, <2>1, NothingHidden
<1>2. ASSUME NEW o \in Op, Enqueue(o) \/ Requeue(o) PROVE HidingIsPaidFor'
  <2>1. /\ UNCHANGED <<agent, served, audited, late>> /\ faults' \in {faults, faults + 1}
    BY <1>2 DEF Enqueue, Requeue, Fault, directory
  <2> QED  BY <1>1, <2>1 DEF agent, StopDue
<1>3. ASSUME BrokerCompletes \/ DirectoryRefuses \/ UNCHANGED vars PROVE HidingIsPaidFor'
  BY <1>1, <1>3
  DEF BrokerCompletes, DirectoryRefuses, vars, agent, directory, StopDue
<1>4. ASSUME DirectoryServes PROVE HidingIsPaidFor'
  <2>1. /\ UNCHANGED <<pc, signal, batch, audited, late, faults>> /\ pc = "ldap"
        /\ served' = served \cup {<<Head(batch), step>>}
    BY <1>4 DEF DirectoryServes, Serve
  <2>2. Hidden' \subseteq Hidden
    BY <2>1 DEF Hidden, Unrecorded, Recorded, InProgress
  <2> QED  BY <1>0, <2>1, <2>2, NothingHidden DEF StopDue
<1>5. ASSUME NEW r \in late, LateArrival(r) PROVE HidingIsPaidFor'
  <2>1. /\ UNCHANGED <<agent, audited, faults>> /\ late' \subseteq late
        /\ \A x \in served' : x \in served \/ (r.to = "ldap" /\ x[1] = r.op)
    BY <1>5 DEF LateArrival, Serve, directory
  <2>2. Hidden' \subseteq Hidden
    BY <2>1 DEF Hidden, Unrecorded, Recorded, InProgress, agent
  <2> QED  BY <1>0, <2>1, <2>2, NothingHidden DEF StopDue, agent
<1>6. ASSUME \/ Start \/ BeginPass \/ Connected \/ BrokerClaims \/ PollReturns
             \/ Unbound \/ Reported \/ Wake \/ Disconnected
      PROVE  HidingIsPaidFor'
  <2>1. UNCHANGED <<audited, served, late, faults>> /\ pc \notin {"ldap", "complete"}
    BY <1>6
    DEF Start, BeginPass, Connected, BrokerClaims, PollReturns, Unbound, Reported, Wake,
        Disconnected, directory
  <2>2. (signal' => signal) /\ (pc # "disconnect" \/ signal' = FALSE)
    BY <1>6
    DEF Start, BeginPass, Connected, BrokerClaims, PollReturns, Unbound, Reported, Wake,
        Disconnected
  <2>3. Hidden' \subseteq Hidden
    BY <2>1 DEF Hidden, Unrecorded, Recorded, InProgress
  <2>4. StopDue' => StopDue
    BY <2>2 DEF StopDue
  <2> QED  BY <1>0, <2>1, <2>3, <2>4, NothingHidden
<1>7. ASSUME LdapReturns \/ LdapConnectionLost PROVE HidingIsPaidFor'
  <2>1. /\ UNCHANGED <<signal, batch, audited, served>>
        /\ pc = "ldap" /\ pc' \in {"ldap", "complete"}
        /\ late' \subseteq late \cup Outstanding /\ faults' \in {faults, faults + 1}
    BY <1>7 DEF LdapReturns, LdapConnectionLost, OnRefusal, Finish, Fault, directory
  <2>2. \A r \in Outstanding : r.op = Head(batch)
    BY <2>1 DEF Outstanding
  <2>3. Hidden' \subseteq Hidden
    BY <2>1, <2>2 DEF Hidden, Unrecorded, Recorded, InProgress
  <2> QED  BY <1>0, <2>1, <2>3, NothingHidden DEF StopDue
<1>8. ASSUME CompleteReturns PROVE HidingIsPaidFor'
  <2>1. /\ pc = "complete" /\ pc' \in {"ldap", "complete", "unbind"}
        /\ UNCHANGED <<signal, served>>
        /\ late' = late \cup Outstanding /\ faults' \in {faults, faults + 1}
        /\ audited' = audited \cup {<<Head(batch), result>>} /\ result \in BOOLEAN
    BY <1>0, <1>8
    DEF CompleteReturns, Proceed, Appended, Logged, Fault, directory, AgentOK
  <2>2. \A r \in Outstanding : r.to = "complete"
    BY <2>1 DEF Outstanding
  <2>3. Hidden' \subseteq Hidden
    BY <2>1, <2>2 DEF Hidden, Unrecorded, Recorded, InProgress
  <2> QED  BY <1>0, <2>1, <2>3, NothingHidden DEF StopDue
<1>9. ASSUME Signal PROVE HidingIsPaidFor'
  <2>1. UNCHANGED <<pc, batch, audited, served, late>> /\ faults' = faults + 1
    BY <1>9 DEF Signal, Fault, directory
  <2>2. Hidden' \subseteq Hidden
    BY <2>1 DEF Hidden, Unrecorded, Recorded, InProgress
  <2> QED  BY <1>0, <2>1, <2>2, NothingHidden
<1>10. ASSUME PassFails \/ Stop \/ Crash PROVE HidingIsPaidFor'
  <2>1. /\ UNCHANGED <<audited, served>> /\ late' = late \cup Outstanding
        /\ pc' \in {"sleep", "disconnect", "down"}
    BY <1>10 DEF PassFails, Stop, Crash, Abandon, directory
  <2>2. /\ \/ faults' = faults /\ StopDue
           \/ faults' = faults + 1
        /\ ~StopDue'
    BY <1>10 DEF PassFails, Stop, Crash, Abandon, Fault, Running, StopDue
  <2>3. \A r \in Outstanding : r.to = "ldap" => r.op = Head(batch)
    BY DEF Outstanding
  <2>4. Hidden' \subseteq Hidden \cup {Head(batch)}
    BY <2>1, <2>3 DEF Hidden, Unrecorded, Recorded, InProgress
  <2> QED  BY <1>0, <2>2, <2>4, DroppedIsHidden
<1> QED
  BY <1>2, <1>3, <1>4, <1>5, <1>6, <1>7, <1>8, <1>9, <1>10 DEF Next

LEMMA InitHiding == Init => HidingIsPaidFor
<1> SUFFICES ASSUME Init PROVE HidingIsPaidFor
  OBVIOUS
<1>1. Hidden = {}
  BY DEF Init, Hidden
<1>2. Cardinality(Hidden) = 0
  BY <1>1, FS_EmptySet
<1> QED  BY <1>2 DEF Init, HidingIsPaidFor
-----------------------------------------------------------------------------
(* What the broker does not hear of is paid for by faults.                 *)

LEMMA NothingUnheard ==
  ASSUME RestOK, SilenceIsPaidFor, Unheard' \subseteq Unheard, faults' \in {faults, faults + 1}
  PROVE  SilenceIsPaidFor'
<1>1. Unheard \subseteq Op  BY DEF Unheard
<1>2. /\ Cardinality(Unheard) \in Nat /\ Cardinality(Unheard') \in Nat
      /\ Cardinality(Unheard') <= Cardinality(Unheard)
  BY <1>1, OneMoreOp
<1>3. faults \in Nat /\ Cardinality(Unheard) <= faults
  BY BoundAssumption DEF RestOK, SilenceIsPaidFor
<1>4. Cardinality(Unheard') <= faults'  BY <1>2, <1>3
<1> QED  BY <1>4 DEF SilenceIsPaidFor

LEMMA OneUnheard ==
  ASSUME RestOK, SilenceIsPaidFor, NEW o, Unheard' \subseteq Unheard \cup {o},
         faults' = faults + 1
  PROVE  SilenceIsPaidFor'
<1>1. Unheard \subseteq Op  BY DEF Unheard
<1>2. /\ Cardinality(Unheard) \in Nat /\ Cardinality(Unheard') \in Nat
      /\ Cardinality(Unheard') <= Cardinality(Unheard) + 1
  BY <1>1, OneMoreOp
<1>3. faults \in Nat /\ Cardinality(Unheard) <= faults
  BY BoundAssumption DEF RestOK, SilenceIsPaidFor
<1>4. Cardinality(Unheard') <= faults'  BY <1>2, <1>3
<1> QED  BY <1>4 DEF SilenceIsPaidFor

(* A claim changes only operations that were open, and is a batch.         *)
LEMMA ClaimedWereOpen ==
  ASSUME WorldOK, QueueIsOpen, Claim
  PROVE  \A p \in Op : status'[p] = status[p] \/ (status[p] # "claimed" /\ ~Settled(p))
<1>1. ClaimCount \in 0..Len(queue)
  BY BatchAssumption DEF ClaimCount, WorldOK
<1>2. \A i \in 1..ClaimCount : status[queue[i]] \in {"pending", "requeued"}
  BY <1>1 DEF QueueIsOpen, WorldOK
<1>3. \A p \in Op :
        status'[p] = IF p \in {queue[i] : i \in 1..ClaimCount} THEN "claimed" ELSE status[p]
  BY DEF Claim
<1> QED  BY <1>2, <1>3 DEF Settled

LEMMA BatchIsClaimed ==
  ASSUME WorldOK, QueueIsOpen, BrokerClaims
  PROVE  \A p \in Op : InHand(p)' => status'[p] = "claimed"
<1>1. batch' = SubSeq(queue, 1, ClaimCount) /\ Claim  BY DEF BrokerClaims
<1>2. Len(batch') = ClaimCount /\ \A i \in 1..ClaimCount : batch'[i] = queue[i]
  BY <1>1, ClaimedFront
<1>3. \A i \in 1..ClaimCount : status'[queue[i]] = "claimed"
  BY <1>1, ClaimOwned
<1> QED  BY <1>2, <1>3 DEF InHand

LEMMA SilenceInvariant == Core /\ BatchIsOrderly /\ SilenceIsPaidFor /\ [Next]_vars => SilenceIsPaidFor'
<1> SUFFICES ASSUME Core, BatchIsOrderly, SilenceIsPaidFor, [Next]_vars PROVE SilenceIsPaidFor'
  OBVIOUS
<1>0. AgentOK /\ WorldOK /\ RestOK /\ QueueIsOpen
  BY CoreParts
<1>1. ASSUME UNCHANGED <<pc, call, batch, status, audited>>, faults' \in {faults, faults + 1}
      PROVE  SilenceIsPaidFor'
  <2>1. Unheard' \subseteq Unheard
    BY <1>1 DEF Unheard, Settled, Recorded, OutOfStep, InHand
  <2> QED  BY <1>0, <1>1, <2>1, NothingUnheard
<1>2. ASSUME NEW o \in Op, Enqueue(o) PROVE SilenceIsPaidFor'
  <2>1. /\ UNCHANGED <<pc, call, batch, audited, faults>>
        /\ status[o] = "absent" /\ \A p \in Op : p # o => status'[p] = status[p]
    BY <1>0, <1>2 DEF Enqueue, agent, WorldOK
  <2>2. Unheard' \subseteq Unheard
    BY <2>1 DEF Unheard, Settled, Recorded, OutOfStep, InHand
  <2> QED  BY <1>0, <2>1, <2>2, NothingUnheard
<1>3. ASSUME NEW o \in Op, Requeue(o) PROVE SilenceIsPaidFor'
  <2>1. /\ UNCHANGED <<pc, call, batch, audited>>
        /\ status[o] = "claimed" /\ \A p \in Op : p # o => status'[p] = status[p]
    BY <1>0, <1>3 DEF Requeue, agent, WorldOK
  <2>2. CASE InHand(o)
    <3>1. faults' = faults + 1  BY <1>3, <2>2 DEF Requeue, Fault
    <3>2. Unheard' \subseteq Unheard \cup {o}
      BY <2>1 DEF Unheard, Settled, Recorded, OutOfStep, InHand
    <3> QED  BY <1>0, <3>1, <3>2, OneUnheard
  <2>3. CASE ~InHand(o)
    <3>1. faults' = faults  BY <1>3, <2>3 DEF Requeue
    <3>2. Unheard' \subseteq Unheard
      BY <2>1, <2>3 DEF Unheard, Settled, Recorded, OutOfStep, InHand
    <3> QED  BY <1>0, <3>1, <3>2, NothingUnheard
  <2> QED  BY <2>2, <2>3
<1>4. ASSUME DirectoryServes \/ DirectoryRefuses PROVE SilenceIsPaidFor'
  <2>1. /\ UNCHANGED <<pc, batch, status, audited, faults>> /\ pc = "ldap"
    BY <1>4 DEF DirectoryServes, DirectoryRefuses, broker
  <2>2. Unheard' \subseteq Unheard
    BY <2>1 DEF Unheard, Settled, Recorded, OutOfStep, InHand
  <2> QED  BY <1>0, <2>1, <2>2, NothingUnheard
<1>5. ASSUME NEW r \in late, LateArrival(r) PROVE SilenceIsPaidFor'
  <2>1. UNCHANGED <<pc, call, batch, audited, faults>>  BY <1>5 DEF LateArrival, agent
  <2>2. CASE r.to = "poll" /\ Claim
    <3>1. \A p \in Op : status'[p] = status[p] \/ (status[p] # "claimed" /\ ~Settled(p))
      BY <1>0, <2>2, ClaimedWereOpen
    <3>2. Unheard' \subseteq Unheard
      BY <2>1, <3>1 DEF Unheard, Settled, Recorded, OutOfStep, InHand
    <3> QED  BY <1>0, <2>1, <3>2, NothingUnheard
  <2>3. CASE r.to = "complete" /\ Complete(r.op, r.ok)
    <3>1. \A p \in Op : status'[p] = status[p] \/ Settled(p)'
      BY <1>0, <2>3 DEF Complete, WorldOK, Settled
    <3>2. Unheard' \subseteq Unheard
      BY <2>1, <3>1 DEF Unheard, Settled, Recorded, OutOfStep, InHand
    <3> QED  BY <1>0, <2>1, <3>2, NothingUnheard
  <2>4. CASE UNCHANGED status
    BY <1>1, <2>1, <2>4
  <2> QED  BY <1>5, <2>2, <2>3, <2>4 DEF LateArrival, broker
<1>6. ASSUME BrokerClaims PROVE SilenceIsPaidFor'
  <2>1. /\ UNCHANGED <<audited, faults>> /\ pc' = "poll"
        /\ \A p \in Op : status'[p] = status[p] \/ (status[p] # "claimed" /\ ~Settled(p))
    BY <1>0, <1>6, ClaimedWereOpen DEF BrokerClaims
  <2>2. \A p \in Op : InHand(p)' => status'[p] = "claimed"
    BY <1>0, <1>6, BatchIsClaimed
  <2>3. Unheard' \subseteq Unheard
    BY <2>1, <2>2 DEF Unheard, Settled, Recorded, OutOfStep
  <2> QED  BY <1>0, <2>1, <2>3, NothingUnheard
<1>7. ASSUME \/ Start \/ BeginPass \/ Connected
             \/ Unbound \/ Reported \/ Wake \/ Disconnected \/ Signal
      PROVE  SilenceIsPaidFor'
  <2>1. UNCHANGED <<batch, status, audited>> /\ faults' \in {faults, faults + 1}
    BY <1>7
    DEF Start, BeginPass, Connected, Unbound, Reported, Wake, Disconnected, Signal, Fault, broker
  <2>2. pc' = "complete" => pc = "complete" /\ call' = call
    BY <1>7
    DEF Start, BeginPass, Connected, Unbound, Reported, Wake, Disconnected, Signal
  <2>3. Unheard' \subseteq Unheard
    BY <2>1, <2>2 DEF Unheard, Settled, Recorded, OutOfStep, InHand
  <2> QED  BY <1>0, <2>1, <2>3, NothingUnheard
<1>8. ASSUME PollReturns PROVE SilenceIsPaidFor'
  <2>1. UNCHANGED <<batch, status, audited, faults>> /\ (pc' = "complete" => call' = "sent")
    BY <1>8 DEF PollReturns, Proceed, broker
  <2>2. Unheard' \subseteq Unheard
    BY <2>1 DEF Unheard, Settled, Recorded, OutOfStep, InHand
  <2> QED  BY <1>0, <2>1, <2>2, NothingUnheard
<1>9. ASSUME LdapReturns \/ LdapConnectionLost PROVE SilenceIsPaidFor'
  <2>1. /\ UNCHANGED <<batch, status, audited>> /\ call' = "sent"
        /\ faults' \in {faults, faults + 1}
    BY <1>9 DEF LdapReturns, LdapConnectionLost, OnRefusal, Finish, Fault, broker
  <2>2. Unheard' \subseteq Unheard
    BY <2>1 DEF Unheard, Settled, Recorded, OutOfStep, InHand
  <2> QED  BY <1>0, <2>1, <2>2, NothingUnheard
<1>10. ASSUME BrokerCompletes PROVE SilenceIsPaidFor'
  <2>1. UNCHANGED <<pc, batch, audited, faults>> /\ pc = "complete" /\ Complete(Head(batch), result)
    BY <1>10 DEF BrokerCompletes
  <2>2. \A p \in Op : \/ p # Head(batch) /\ status'[p] = status[p]
                      \/ p = Head(batch) /\ status[p] # "claimed" /\ status'[p] = status[p]
                      \/ Settled(p)'
    BY <1>0, <2>1 DEF Complete, WorldOK, Settled
  <2>3. Unheard' \subseteq Unheard
    BY <2>1, <2>2 DEF Unheard, Settled, Recorded, OutOfStep, InHand
  <2> QED  BY <1>0, <2>1, <2>3, NothingUnheard
<1>11. ASSUME CompleteReturns PROVE SilenceIsPaidFor'
  <2>1. /\ pc = "complete" /\ batch # << >> /\ batch' = Tail(batch) /\ UNCHANGED status
        /\ pc' = "complete" => call' = "sent"
        /\ \A p \in Op : Recorded(p)' => Recorded(p) \/ p = Head(batch)
    BY <1>0, <1>11
    DEF CompleteReturns, Proceed, Remaining, Appended, Logged, broker, AgentOK, Recorded
  <2>2. InHand(Head(batch)) /\ \A p : InHand(p)' => InHand(p)
    BY <1>0, <2>1, BatchShape DEF InHand
  <2>3. CASE call = "ok" /\ faults' = faults
    <3>1. Unheard' \subseteq Unheard
      BY <2>1, <2>2, <2>3 DEF Unheard, Settled, OutOfStep
    <3> QED  BY <1>0, <2>3, <3>1, NothingUnheard
  <2>4. CASE call = "sent" /\ faults' = faults + 1
    <3>1. Unheard' \subseteq Unheard \cup {Head(batch)}
      BY <2>1, <2>2 DEF Unheard, Settled, OutOfStep
    <3> QED  BY <1>0, <2>4, <3>1, OneUnheard
  <2> QED  BY <1>11, <2>3, <2>4 DEF CompleteReturns, Fault
<1>12. ASSUME PassFails \/ Stop \/ Crash PROVE SilenceIsPaidFor'
  <2>1. UNCHANGED <<status, audited>> /\ batch' = << >> /\ faults' \in {faults, faults + 1}
    BY <1>12 DEF PassFails, Stop, Crash, Abandon, Fault, broker
  <2>2. \A p : ~InHand(p)'
    BY <2>1 DEF InHand
  <2>3. Unheard' \subseteq Unheard
    BY <2>1, <2>2 DEF Unheard, Settled, Recorded, OutOfStep
  <2> QED  BY <1>0, <2>1, <2>3, NothingUnheard
<1>13. CASE UNCHANGED vars
  BY <1>1, <1>13 DEF vars, agent, broker
<1> QED
  BY <1>2, <1>3, <1>4, <1>5, <1>6, <1>7, <1>8, <1>9, <1>10, <1>11, <1>12, <1>13 DEF Next

LEMMA InitSilence == Init => SilenceIsPaidFor
<1> SUFFICES ASSUME Init PROVE SilenceIsPaidFor
  OBVIOUS
<1>1. Unheard = {}
  BY DEF Init, Unheard, Recorded, OutOfStep, InHand
<1>2. Cardinality(Unheard) = 0
  BY <1>1, FS_EmptySet
<1> QED  BY <1>2 DEF Init, SilenceIsPaidFor
-----------------------------------------------------------------------------
(* What is offered once is done once, and spoken of with one voice.        *)

Once == Op \ Redeliver

(* A settled operation is in the log, or about to be.                      *)
LoggedOrNow(o) ==
    faults = 0 /\ status[o] \in {"done", "failed"} =>
        \/ <<o, status[o] = "done">> \in audited
        \/ pc = "complete" /\ o = Head(batch)

OfferInv(o) == Offered(o) /\ LoggedOrNow(o) /\ TakesItsTurn(o)

Quiet == faults = 0 => late = {} /\ ~signal

LEMMA OfferedOnceGives == OfferedOnce => Quiet /\ \A o \in Once : OfferInv(o)
<1> SUFFICES ASSUME OfferedOnce, NEW o \in Once PROVE OfferInv(o)
  BY DEF OfferedOnce, Quiet
<1>1. LoggedOrNow(o)
  BY Zenon DEF OfferedOnce, LogAgreesWithBroker, LoggedOrNow, Once
<1> QED  BY <1>1 DEF OfferedOnce, OfferInv, Once

LEMMA OfferedOnceFollows == Quiet' /\ (\A o \in Once : OfferInv(o)') => OfferedOnce'
<1> SUFFICES ASSUME Quiet', \A o \in Once : OfferInv(o)' PROVE OfferedOnce'
  OBVIOUS
<1>1. LogAgreesWithBroker'
  <2> SUFFICES ASSUME NEW o \in Once
               PROVE  /\ status'[o] = "done" => <<o, FALSE>> \notin audited'
                      /\ status'[o] = "failed" => <<o, TRUE>> \notin audited'
                      /\ LoggedOrNow(o)'
    BY Zenon DEF LogAgreesWithBroker, LoggedOrNow, Once
  <2>1. OfferInv(o)'
    OBVIOUS
  <2> QED  BY <2>1 DEF OfferInv, Offered, Says
<1> QED  BY <1>1 DEF OfferInv, OfferedOnce, Once, Quiet

(* Without a fault nothing is abandoned and nobody asks to stop.           *)
LEMMA QuietInvariant == RestOK /\ Quiet /\ [Next]_vars => Quiet'
<1> SUFFICES ASSUME RestOK, Quiet, [Next]_vars, faults' = 0 PROVE late' = {} /\ ~signal'
  BY DEF Quiet
<1>1. faults \in Nat /\ faults + 1 # 0
  BY BoundAssumption DEF RestOK
<1>2. ~Fault
  BY <1>1 DEF Fault
<1>3. CASE faults' = faults
  <2>1. late = {} /\ signal = FALSE
    BY <1>3 DEF Quiet, RestOK
  <2>0. ASSUME NEW o \in Op, Enqueue(o) \/ Requeue(o)
        PROVE  late' = late /\ signal' \in {signal, FALSE}
    BY <2>0 DEF Enqueue, Requeue, agent
  <2>2. ASSUME \/ DirectoryServes \/ DirectoryRefuses
               \/ Start \/ BeginPass \/ Connected \/ BrokerClaims \/ PollReturns
               \/ LdapReturns \/ BrokerCompletes \/ Unbound \/ Reported \/ Wake
               \/ Disconnected \/ UNCHANGED vars
        PROVE  late' = late /\ signal' \in {signal, FALSE}
    <3>1. CASE DirectoryServes \/ DirectoryRefuses \/ BrokerClaims \/ BrokerCompletes
      BY <3>1 DEF DirectoryServes, DirectoryRefuses, BrokerClaims, BrokerCompletes
    <3>2. CASE Start \/ BeginPass \/ Connected \/ Reported \/ Wake \/ Disconnected
      BY <3>2 DEF Start, BeginPass, Connected, Reported, Wake, Disconnected
    <3>3. CASE PollReturns \/ LdapReturns \/ Unbound
      BY <3>3 DEF PollReturns, LdapReturns, Unbound
    <3>4. CASE UNCHANGED vars
      BY <3>4 DEF vars, agent
    <3> QED  BY <2>2, <3>1, <3>2, <3>3, <3>4
  <2>3. ASSUME CompleteReturns PROVE late' = late /\ signal' \in {signal, FALSE}
    <3>1. Outstanding = {}
      BY <1>2, <2>3 DEF CompleteReturns, Outstanding
    <3> QED  BY <2>3, <3>1 DEF CompleteReturns
  <2>4. ~PassFails /\ ~LdapConnectionLost /\ ~Signal /\ ~Crash /\ ~Stop
    BY <1>2, <2>1 DEF PassFails, LdapConnectionLost, Signal, Crash, Stop
  <2>5. \A r \in late : ~LateArrival(r)
    BY <2>1
  <2>6. late' = late /\ signal' \in {signal, FALSE}
    BY <2>0, <2>2, <2>3, <2>4, <2>5, Zenon DEF Next
  <2> QED  BY <2>1, <2>6
<1>4. CASE faults' # faults
  <2>1. faults' = faults \/ Fault
    BY Zenon
    DEF Next, Enqueue, Requeue, DirectoryServes, DirectoryRefuses, LateArrival, Start,
        BeginPass, Connected, PassFails, BrokerClaims, PollReturns, LdapReturns,
        LdapConnectionLost, BrokerCompletes, CompleteReturns, Unbound, Reported, Wake,
        Signal, Stop, Disconnected, Crash, vars
  <2> QED  BY <1>2, <1>4, <2>1
<1> QED  BY <1>3, <1>4

(* A step leaves no trace of o; what it tells of o was told before.        *)
NoNewTrace(o) ==
    /\ \A r \in late' : r \in late \/ r.to = "poll" \/ r.op # o
    /\ \A ok \in BOOLEAN : <<o, ok>> \in audited' => <<o, ok>> \in audited
    /\ \A x \in served' : x \in served \/ x[1] # o

Undisturbed(o) ==
    /\ NoNewTrace(o)
    /\ \/ status'[o] = status[o]
       \/ status[o] \in {"absent", "pending"} /\ status'[o] \in {"pending", "claimed"}

Reports(o, ok) == \E r \in late : r.to = "complete" /\ r.op = o /\ r.ok = ok

NothingNew(o) ==
    /\ \/ status'[o] = status[o] \/ status'[o] \notin {"done", "failed"}
       \/ status'[o] = "done" /\ Says(o, TRUE)
       \/ status'[o] = "failed" /\ Says(o, FALSE)
    /\ \A ok \in BOOLEAN : <<o, ok>> \in audited' => Says(o, ok)
    /\ \A ok \in BOOLEAN : Reports(o, ok)' => Says(o, ok)

(* The operation a step leaves current was so before, or is a new one.     *)
KeepsOrBegins(o) ==
    pc' = "complete" /\ o = Head(batch') =>
        \/ pc = "complete" /\ o = Head(batch) /\ result' = result
        \/ \A ok \in BOOLEAN : ~Says(o, ok)

LEMMA ReportSays == \A o, ok : Reports(o, ok) => Says(o, ok)
  BY DEF Reports, Says

LEMMA UndisturbedKeeps ==
  ASSUME NEW o, Undisturbed(o)
  PROVE  /\ Unreported(o) => Unreported(o)'
         /\ Untouched(o) => Untouched(o)'
         /\ status[o] = "claimed" => status'[o] = "claimed"
         /\ NothingNew(o)
<1>1. /\ Unreported(o) => Unreported(o)'
      /\ Untouched(o) => Untouched(o)'
      /\ status[o] = "claimed" => status'[o] = "claimed"
  BY DEF Undisturbed, NoNewTrace, Unreported, Untouched
<1>2. \A ok \in BOOLEAN : Reports(o, ok)' => Says(o, ok)
  BY ReportSays DEF Undisturbed, NoNewTrace, Reports
<1>3. \A ok \in BOOLEAN : <<o, ok>> \in audited' => Says(o, ok)
  BY DEF Undisturbed, NoNewTrace, Says
<1> QED  BY <1>1, <1>2, <1>3 DEF NothingNew, Undisturbed

LEMMA OfferedNext ==
  ASSUME NEW o, Offered(o), NothingNew(o), KeepsOrBegins(o),
         status'[o] # "requeued",
         status'[o] \in {"absent", "pending"} =>
            status[o] \in {"absent", "pending"} /\ (Untouched(o) => Untouched(o)')
  PROVE  Offered(o)'
<1>1. \A ok \in BOOLEAN :
        Says(o, ok)' => Says(o, ok) \/ (pc' = "complete" /\ o = Head(batch') /\ ok = result')
  BY Zenon DEF NothingNew, Says, Reports
<1>2. ~(Says(o, TRUE)' /\ Says(o, FALSE)')
  <2> SUFFICES ASSUME Says(o, TRUE)', Says(o, FALSE)' PROVE FALSE
    OBVIOUS
  <2>1. ~(Says(o, TRUE) /\ Says(o, FALSE))
    BY DEF Offered
  <2>2. pc' = "complete" /\ o = Head(batch')
    BY <1>1, <2>1
  <2>3. CASE pc = "complete" /\ o = Head(batch) /\ result' = result
    <3>1. \A ok \in BOOLEAN : ok = result' => Says(o, ok)
      BY <2>3 DEF Says
    <3> QED  BY <1>1, <2>1, <3>1
  <2>4. CASE \A ok \in BOOLEAN : ~Says(o, ok)
    BY <1>1, <2>4
  <2> QED  BY <2>2, <2>3, <2>4 DEF KeepsOrBegins
<1> QED  BY <1>2 DEF Offered

LEMMA OfferedUndisturbed ==
  ASSUME NEW o, Offered(o), Undisturbed(o), KeepsOrBegins(o)
  PROVE  Offered(o)'
<1>1. /\ status'[o] # "requeued"
      /\ status'[o] \in {"absent", "pending"} => status[o] \in {"absent", "pending"}
  BY DEF Offered, Undisturbed
<1> QED  BY <1>1, UndisturbedKeeps, OfferedNext

(* An operation that is claimed and has been reported nowhere.             *)
LEMMA NothingSaidYet ==
  ASSUME NEW o, status[o] = "claimed", Unreported(o), pc # "complete" \/ o # Head(batch)
  PROVE  \A ok \in BOOLEAN : ~Says(o, ok)
  BY DEF Says, Unreported

LEMMA LoggedNext ==
  ASSUME NEW o, LoggedOrNow(o), faults' = 0 => faults = 0, audited \subseteq audited',
         status'[o] = status[o] \/ status'[o] \notin {"done", "failed"},
         pc = "complete" /\ o = Head(batch) => pc' = "complete" /\ o = Head(batch')
  PROVE  LoggedOrNow(o)'
  BY DEF LoggedOrNow

LEMMA TurnStays ==
  ASSUME NEW o, TakesItsTurn(o), UNCHANGED <<pc, call, batch, step>>,
         status[o] = "claimed" /\ Unreported(o) => Undisturbed(o)
  PROVE  TakesItsTurn(o)'
<1>1. status[o] = "claimed" /\ Unreported(o) =>
        /\ status'[o] = "claimed" /\ Unreported(o)'
        /\ Untouched(o) => Untouched(o)'
        /\ \A x \in served' : x[1] = o => x \in served
  BY UndisturbedKeeps DEF Undisturbed, NoNewTrace
<1>2. Untouched(o) => Unreported(o)
  BY DEF Untouched
<1> QED  BY <1>1, <1>2 DEF TakesItsTurn

(* In an orderly batch the first operation is not waiting as well.         *)
LEMMA FirstDoesNotWait ==
  ASSUME BatchIsOrderly, batch \in Seq(Op), batch # << >>, pc # "poll"
  PROVE  \A i \in 1..Len(batch) : batch[i] = Head(batch) => ~(i > 1 \/ pc = "poll")
<1>1. 1 \in 1..Len(batch) /\ Head(batch) = batch[1]
  OBVIOUS
<1> QED  BY <1>1 DEF BatchIsOrderly

(* The agent has no operation in hand, before and after.                   *)
LEMMA IdleOffers ==
  ASSUME AgentOK, BatchIsOrderly, NEW o \in Once, OfferInv(o),
         Start \/ BeginPass \/ Connected \/ Unbound \/ Reported \/ Wake \/ Disconnected
  PROVE  OfferInv(o)'
<1>1. /\ UNCHANGED <<batch, status, late, audited, served, faults>> /\ batch = << >>
      /\ pc \notin {"ldap", "complete"} /\ pc' \notin {"ldap", "complete"}
  BY DEF Start, BeginPass, Connected, Unbound, Reported, Wake, Disconnected,
         BatchIsOrderly, broker, directory
<1>2. Undisturbed(o) /\ KeepsOrBegins(o)
  BY <1>1 DEF Undisturbed, NoNewTrace, KeepsOrBegins
<1>3. Offered(o)'
  BY <1>2, OfferedUndisturbed DEF OfferInv
<1>4. LoggedOrNow(o)'
  BY <1>1, LoggedNext DEF OfferInv
<1>5. TakesItsTurn(o)'
  <2>1. Len(batch') = 0
    BY <1>1
  <2> QED  BY <1>1, <2>1 DEF TakesItsTurn
<1> QED  BY <1>3, <1>4, <1>5 DEF OfferInv

(* The agent stays where it is, and the operation is not disturbed.        *)
LEMMA OthersOffer ==
  ASSUME NEW o \in Once, OfferInv(o),
         UNCHANGED <<pc, call, batch, step, result, audited>>,
         Undisturbed(o), faults' = 0 => faults = 0
  PROVE  OfferInv(o)'
<1>1. KeepsOrBegins(o)
  BY DEF KeepsOrBegins
<1>2. Offered(o)'
  BY <1>1, OfferedUndisturbed DEF OfferInv
<1>3. LoggedOrNow(o)'
  <2>1. status'[o] = status[o] \/ status'[o] \notin {"done", "failed"}
    BY DEF Undisturbed
  <2> QED  BY <2>1, LoggedNext DEF OfferInv
<1>4. TakesItsTurn(o)'
  BY TurnStays DEF OfferInv
<1> QED  BY <1>2, <1>3, <1>4 DEF OfferInv

LEMMA QueueOffers ==
  ASSUME WorldOK, RestOK, NEW o \in Once, OfferInv(o), NEW p \in Op,
         Enqueue(p) \/ Requeue(p)
  PROVE  OfferInv(o)'
<1>1. UNCHANGED <<pc, call, batch, step, result, audited, late, served>>
  BY DEF Enqueue, Requeue, agent, directory
<1>2. Undisturbed(o)
  BY <1>1 DEF Enqueue, Requeue, Undisturbed, NoNewTrace, WorldOK, Once
<1>3. faults' = 0 => faults = 0
  BY BoundAssumption DEF Enqueue, Requeue, Fault, RestOK
<1> QED  BY <1>1, <1>2, <1>3, OthersOffer

LEMMA SignalOffers ==
  ASSUME RestOK, NEW o \in Once, OfferInv(o), Signal \/ UNCHANGED vars
  PROVE  OfferInv(o)'
<1>1. Undisturbed(o)
  BY DEF Signal, vars, broker, directory, Undisturbed, NoNewTrace
<1>2. /\ UNCHANGED <<pc, call, batch, step, result, audited>>
      /\ faults' = faults \/ faults' = faults + 1
  BY DEF Signal, Fault, vars, agent
<1>3. faults \in Nat
  BY BoundAssumption DEF RestOK
<1> QED  BY <1>1, <1>2, <1>3, OthersOffer

(* An abandoned request that arrives concerns only the operation it is of, *)
(* which has been claimed and may be settled by it.                        *)
LEMMA LateOffers ==
  ASSUME AgentOK, WorldOK, RestOK, QueueIsOpen, OnlyHanded, Quiet,
         NEW o \in Once, OfferInv(o), NEW r \in late, LateArrival(r)
  PROVE  OfferInv(o)'
<1>0. /\ UNCHANGED <<pc, call, batch, step, result, audited, signal, faults>>
      /\ late' \subseteq late /\ r \in Request /\ faults # 0
  BY DEF LateArrival, agent, Quiet, WorldOK
<1>1. CASE r.to = "poll" /\ Claim /\ UNCHANGED directory
  <2>1. \A i \in 1..ClaimCount : queue[i] = o => status[o] = "pending"
    <3>1. \A i \in 1..ClaimCount : i \in 1..Len(queue)
      BY BatchAssumption DEF ClaimCount, WorldOK
    <3> QED  BY <3>1 DEF QueueIsOpen, OfferInv, Offered
  <2>2. \/ status'[o] = status[o]
        \/ status[o] = "pending" /\ status'[o] = "claimed"
    BY <1>1, <2>1 DEF Claim, Once
  <2>3. Undisturbed(o)
    BY <1>0, <1>1, <2>2 DEF Undisturbed, NoNewTrace, directory
  <2> QED  BY <1>0, <2>3, OthersOffer
<1>2. CASE \/ r.to = "complete" /\ Complete(r.op, r.ok) /\ UNCHANGED directory
           \/ r.to = "ldap" /\ Serve(r.op, r.step) /\ UNCHANGED broker
  <2>1. CASE r.op # o
    <3>1. Undisturbed(o)
      BY <1>0, <1>2, <2>1
      DEF Undisturbed, NoNewTrace, Complete, Serve, WorldOK, broker, directory, Once
    <3> QED  BY <1>0, <3>1, OthersOffer
  <2>2. CASE r.op = o
    <3>1. Handed(o) /\ ~Unreported(o) /\ ~Untouched(o)
      BY <1>2, <2>2 DEF OnlyHanded, Unreported, Untouched
    <3>2. \/ status'[o] = status[o]
          \/ status'[o] = "done" /\ Says(o, TRUE)
          \/ status'[o] = "failed" /\ Says(o, FALSE)
      <4>1. CASE r.to = "complete" /\ Complete(o, r.ok)
        <5>1. r.ok \in BOOLEAN
          BY <1>0, <4>1 DEF Request
        <5>2. Says(o, r.ok)
          BY <2>2, <4>1 DEF Says
        <5> QED  BY <4>1, <5>1, <5>2 DEF Complete, WorldOK, Once
      <4> QED  BY <1>2, <2>2, <4>1 DEF broker
    <3>3. NothingNew(o)
      <4>1. \A ok \in BOOLEAN : Reports(o, ok)' => Says(o, ok)
        BY <1>0 DEF Reports, Says
      <4>2. \A ok \in BOOLEAN : <<o, ok>> \in audited' => Says(o, ok)
        BY <1>0 DEF Says
      <4> QED  BY <3>2, <4>1, <4>2 DEF NothingNew
    <3>4. KeepsOrBegins(o)
      BY <1>0 DEF KeepsOrBegins
    <3>5. Offered(o)'
      <4>1. status'[o] \notin {"requeued", "absent", "pending"}
        BY <3>1, <3>2 DEF Handed, OfferInv, Offered
      <4> QED  BY <3>3, <3>4, <4>1, OfferedNext DEF OfferInv
    <3>6. TakesItsTurn(o)'
      BY <1>0, <3>1, TurnStays DEF OfferInv
    <3>7. LoggedOrNow(o)'
      BY <1>0 DEF LoggedOrNow
    <3> QED  BY <3>5, <3>6, <3>7 DEF OfferInv
  <2> QED  BY <2>1, <2>2
<1> QED  BY <1>1, <1>2 DEF LateArrival

LEMMA RefusalOffers ==
  ASSUME NEW o \in Once, OfferInv(o), DirectoryRefuses
  PROVE  OfferInv(o)'
<1>1. /\ UNCHANGED <<pc, batch, step, result, signal, status, late, audited, served, faults>>
      /\ pc = "ldap" /\ call = "sent"
  BY DEF DirectoryRefuses, broker, directory
<1>2. Undisturbed(o) /\ KeepsOrBegins(o)
  BY <1>1 DEF Undisturbed, NoNewTrace, KeepsOrBegins
<1>3. Offered(o)'
  BY <1>2, OfferedUndisturbed DEF OfferInv
<1>4. LoggedOrNow(o)'
  BY <1>1, LoggedNext DEF OfferInv
<1>5. TakesItsTurn(o)'
  BY <1>1 DEF OfferInv, TakesItsTurn, Untouched, Unreported
<1> QED  BY <1>3, <1>4, <1>5 DEF OfferInv

(* The request of the current operation is carried out: the others are not *)
(* touched by it.                                                          *)
LEMMA ServiceOffers ==
  ASSUME AgentOK, WorldOK, BatchIsOrderly, NEW o \in Once, OfferInv(o), DirectoryServes
  PROVE  OfferInv(o)'
<1>1. /\ UNCHANGED <<pc, batch, step, result, signal, status, late, audited, faults>>
      /\ pc = "ldap" /\ call = "sent" /\ call' = "ok"
      /\ served' = served \cup {<<Head(batch), step>>}
  BY DEF DirectoryServes, Serve, broker
<1>2. KeepsOrBegins(o)
  BY <1>1 DEF KeepsOrBegins
<1>3. LoggedOrNow(o)'
  BY <1>1, LoggedNext DEF OfferInv
<1>4. CASE o # Head(batch)
  <2>1. Undisturbed(o)
    BY <1>1, <1>4 DEF Undisturbed, NoNewTrace
  <2>2. Offered(o)'
    BY <1>2, <2>1, OfferedUndisturbed DEF OfferInv
  <2>3. TakesItsTurn(o)'
    BY <1>1, <1>4, <2>1, UndisturbedKeeps DEF OfferInv, TakesItsTurn
  <2> QED  BY <1>3, <2>2, <2>3 DEF OfferInv
<1>5. CASE o = Head(batch)
  <2>1. /\ status[o] = "claimed" /\ Unreported(o)
        /\ \A x \in served : x[1] = o => x[2] < step
    BY <1>1, <1>5 DEF OfferInv, TakesItsTurn
  <2>2. NothingNew(o)
    BY <1>1 DEF NothingNew, Says, Reports
  <2>3. Offered(o)'
    BY <1>1, <1>2, <2>1, <2>2, OfferedNext DEF OfferInv
  <2>4. \A i \in 1..Len(batch) : batch[i] = o => ~(i > 1 \/ pc = "poll")
    BY <1>1, <1>5, FirstDoesNotWait DEF AgentOK
  <2>5. /\ Unreported(o)'
        /\ \A x \in served' : x[1] = o => x[2] < step \/ (x[2] = step /\ call' = "ok")
    BY <1>1, <1>5, <2>1 DEF Unreported
  <2>6. TakesItsTurn(o)'
    BY <1>1, <2>1, <2>4, <2>5 DEF TakesItsTurn
  <2> QED  BY <1>3, <2>3, <2>6 DEF OfferInv
<1> QED  BY <1>4, <1>5

(* A poll claims what was pending, and nobody has touched.                 *)
LEMMA PollOffers ==
  ASSUME AgentOK, WorldOK, QueueIsOpen, NEW o \in Once, OfferInv(o), BrokerClaims
  PROVE  OfferInv(o)'
<1>1. /\ UNCHANGED <<pc, step, result, signal, late, audited, served, faults>>
      /\ pc = "poll" /\ Claim /\ batch' = SubSeq(queue, 1, ClaimCount)
  BY DEF BrokerClaims, directory
<1>2. /\ Len(batch') = ClaimCount
      /\ \A i \in 1..ClaimCount : batch'[i] = queue[i] /\ i \in 1..Len(queue)
  BY <1>1, ClaimedFront, BatchAssumption DEF ClaimCount, WorldOK
<1>3. \A i \in 1..ClaimCount : queue[i] = o => status[o] = "pending" /\ Untouched(o)
  BY <1>2 DEF QueueIsOpen, OfferInv, Offered
<1>4. /\ \/ status'[o] = status[o]
         \/ status[o] = "pending" /\ status'[o] = "claimed"
      /\ \A i \in 1..ClaimCount : queue[i] = o => status'[o] = "claimed"
  BY <1>1, <1>3 DEF Claim, Once
<1>5. Undisturbed(o) /\ KeepsOrBegins(o)
  BY <1>1, <1>4 DEF Undisturbed, NoNewTrace, KeepsOrBegins
<1>6. Offered(o)'
  BY <1>5, OfferedUndisturbed DEF OfferInv
<1>7. LoggedOrNow(o)'
  BY <1>1, <1>4, LoggedNext DEF OfferInv
<1>8. TakesItsTurn(o)'
  <2>1. \A i \in 1..Len(batch') : batch'[i] = o => status'[o] = "claimed" /\ Untouched(o)'
    BY <1>2, <1>3, <1>4, <1>5, UndisturbedKeeps
  <2> QED  BY <1>1, <2>1 DEF TakesItsTurn
<1> QED  BY <1>6, <1>7, <1>8 DEF OfferInv

(* The first operation of a batch has its turn.                            *)
LEMMA FirstOffers ==
  ASSUME AgentOK, WorldOK, NEW o \in Once, OfferInv(o), PollReturns
  PROVE  OfferInv(o)'
<1>1. /\ UNCHANGED <<batch, signal, status, late, audited, served, faults>>
      /\ pc = "poll" /\ Proceed(batch)
  BY DEF PollReturns, Proceed, broker, directory
<1>2. /\ \A i \in 1..Len(batch) : batch[i] = o => status[o] = "claimed" /\ Untouched(o)
      /\ batch # << >> /\ Head(batch) = o => status[o] = "claimed" /\ Untouched(o)
  BY <1>1, BatchShape DEF OfferInv, TakesItsTurn
<1>3. /\ pc' \in {"ldap", "complete"} => batch # << >>
      /\ pc' # "poll" /\ (pc' = "ldap" => step' = 1)
  BY <1>1 DEF Proceed
<1>4. Undisturbed(o) /\ KeepsOrBegins(o)
  <2>1. Undisturbed(o)
    BY <1>1 DEF Undisturbed, NoNewTrace
  <2>2. pc' = "complete" /\ o = Head(batch) => \A ok \in BOOLEAN : ~Says(o, ok)
    BY <1>1, <1>2, <1>3, NothingSaidYet DEF Untouched
  <2> QED  BY <1>1, <2>1, <2>2 DEF KeepsOrBegins
<1>5. Offered(o)'
  BY <1>4, OfferedUndisturbed DEF OfferInv
<1>6. LoggedOrNow(o)'
  BY <1>1, LoggedNext DEF OfferInv
<1>7. TakesItsTurn(o)'
  <2>1. Untouched(o) => Untouched(o)' /\ Unreported(o)' /\ \A x \in served' : x[1] # o
    BY <1>1 DEF Untouched, Unreported
  <2> QED  BY <1>1, <1>2, <1>3, <2>1 DEF TakesItsTurn
<1> QED  BY <1>5, <1>6, <1>7 DEF OfferInv

(* The current operation is done with the directory, or its next request   *)
(* goes out.                                                               *)
LEMMA RequestOffers ==
  ASSUME AgentOK, WorldOK, RestOK, BatchIsOrderly, NEW o \in Once, OfferInv(o),
         LdapReturns \/ LdapConnectionLost
  PROVE  OfferInv(o)'
<1>1. /\ pc = "ldap" /\ UNCHANGED <<batch, status, audited, served>>
      /\ \/ pc' = "complete"
         \/ pc' = "ldap" /\ step' = step + 1 /\ late' = late
      /\ \A r \in late' : r \in late \/ (r.to = "ldap" /\ r.op = Head(batch))
      /\ faults' = 0 => faults = 0
  <2>1. faults + 1 # 0
    BY BoundAssumption DEF RestOK
  <2>2. CASE LdapReturns
    BY <2>2 DEF LdapReturns, OnRefusal, Finish, broker, directory
  <2>3. CASE LdapConnectionLost
    <3>1. /\ \A r \in Outstanding : r.to = "ldap" /\ r.op = Head(batch)
          /\ faults' = faults + 1
      BY <2>3 DEF LdapConnectionLost, Outstanding, Fault
    <3> QED  BY <2>1, <2>3, <3>1 DEF LdapConnectionLost, Finish, broker, directory
  <2> QED  BY <2>2, <2>3
<1>2. LoggedOrNow(o)'
  BY <1>1, LoggedNext DEF OfferInv
<1>3. CASE o # Head(batch)
  <2>1. Undisturbed(o) /\ KeepsOrBegins(o)
    BY <1>1, <1>3 DEF Undisturbed, NoNewTrace, KeepsOrBegins
  <2>2. Offered(o)'
    BY <2>1, OfferedUndisturbed DEF OfferInv
  <2>3. TakesItsTurn(o)'
    BY <1>1, <1>3, <2>1, UndisturbedKeeps DEF OfferInv, TakesItsTurn
  <2> QED  BY <1>2, <2>2, <2>3 DEF OfferInv
<1>4. CASE o = Head(batch)
  <2>1. status[o] = "claimed" /\ Unreported(o)
    BY <1>1, <1>4 DEF OfferInv, TakesItsTurn
  <2>2. KeepsOrBegins(o)
    BY <1>1, <2>1, NothingSaidYet DEF KeepsOrBegins
  <2>3. NothingNew(o)
    <3>1. \A ok \in BOOLEAN : Reports(o, ok)' => Says(o, ok)
      BY <1>1 DEF Reports, Says
    <3>2. \A ok \in BOOLEAN : <<o, ok>> \in audited' => Says(o, ok)
      BY <1>1 DEF Says
    <3> QED  BY <1>1, <3>1, <3>2 DEF NothingNew
  <2>4. Offered(o)'
    BY <1>1, <2>1, <2>2, <2>3, OfferedNext DEF OfferInv
  <2>5. \A i \in 1..Len(batch) : batch[i] = o => ~(i > 1 \/ pc = "poll")
    BY <1>1, <1>4, FirstDoesNotWait DEF AgentOK
  <2>6. pc' = "ldap" =>
          /\ Unreported(o)'
          /\ \A x \in served' : x[1] = o => x[2] < step'
    <3>1. step \in Nat /\ \A x \in served : x[2] \in Nat
      BY DEF AgentOK, WorldOK
    <3>2. \A x \in served : x[1] = o => x[2] < step \/ x[2] = step
      BY <1>1, <1>4 DEF OfferInv, TakesItsTurn
    <3> QED  BY <1>1, <2>1, <3>1, <3>2 DEF Unreported
  <2>7. TakesItsTurn(o)'
    BY <1>1, <2>1, <2>5, <2>6 DEF TakesItsTurn
  <2> QED  BY <1>2, <2>4, <2>7 DEF OfferInv
<1> QED  BY <1>3, <1>4

(* The broker settles the current operation as the agent reports it.       *)
LEMMA CompletionOffers ==
  ASSUME AgentOK, WorldOK, BatchIsOrderly, OnlyHanded, NEW o \in Once, OfferInv(o),
         BrokerCompletes
  PROVE  OfferInv(o)'
<1>1. /\ UNCHANGED <<pc, batch, result, signal, late, audited, served, faults>>
      /\ pc = "complete" /\ Complete(Head(batch), result)
  BY DEF BrokerCompletes, directory
<1>2. KeepsOrBegins(o)
  BY <1>1 DEF KeepsOrBegins
<1>3. CASE o # Head(batch)
  <2>1. Undisturbed(o) /\ status'[o] = status[o]
    BY <1>1, <1>3 DEF Undisturbed, NoNewTrace, Complete, WorldOK, Once
  <2>2. Offered(o)'
    BY <1>2, <2>1, OfferedUndisturbed DEF OfferInv
  <2>3. LoggedOrNow(o)'
    BY <1>1, <1>3, <2>1, LoggedNext DEF OfferInv
  <2>4. TakesItsTurn(o)'
    BY <1>1, <2>1, UndisturbedKeeps DEF OfferInv, TakesItsTurn
  <2> QED  BY <2>2, <2>3, <2>4 DEF OfferInv
<1>4. CASE o = Head(batch)
  <2>1. Handed(o)
    <3>1. 1 \in 1..Len(batch) /\ Head(batch) = batch[1]
      BY <1>1 DEF AgentOK
    <3> QED  BY <1>4, <3>1 DEF OnlyHanded
  <2>2. \/ status'[o] = status[o]
        \/ status'[o] = "done" /\ Says(o, TRUE)
        \/ status'[o] = "failed" /\ Says(o, FALSE)
    BY <1>1, <1>4 DEF Complete, Says, WorldOK, AgentOK, Once
  <2>3. NothingNew(o)
    BY <1>1, <2>2 DEF NothingNew, Says, Reports
  <2>4. Offered(o)'
    <3>1. status'[o] \notin {"requeued", "absent", "pending"}
      BY <2>1, <2>2 DEF Handed, OfferInv, Offered
    <3> QED  BY <1>2, <2>3, <3>1, OfferedNext DEF OfferInv
  <2>5. LoggedOrNow(o)'
    BY <1>1, <1>4 DEF LoggedOrNow
  <2>6. TakesItsTurn(o)'
    <3>1. \A i \in 1..Len(batch) : batch[i] = o => ~(i > 1 \/ pc = "poll")
      BY <1>1, <1>4, FirstDoesNotWait DEF AgentOK
    <3> QED  BY <1>1, <3>1 DEF TakesItsTurn
  <2> QED  BY <2>4, <2>5, <2>6 DEF OfferInv
<1> QED  BY <1>3, <1>4

(* The outcome is logged, and the next operation has its turn.             *)
LEMMA NextOffers ==
  ASSUME AgentOK, WorldOK, RestOK, BatchIsOrderly, OnlyHanded, NEW o \in Once,
         OfferInv(o), CompleteReturns
  PROVE  OfferInv(o)'
<1>1. /\ pc = "complete" /\ batch # << >> /\ batch' = Tail(batch)
      /\ UNCHANGED <<signal, status, served>>
      /\ \A r \in late' : \/ r \in late
                          \/ r.to = "complete" /\ r.op = Head(batch) /\ r.ok = result
      /\ audited' = audited \cup {<<Head(batch), result>>}
      /\ pc' # "poll" /\ (pc' \in {"ldap", "complete"} => Tail(batch) # << >>)
      /\ pc' = "ldap" => step' = 1
      /\ faults' = 0 => faults = 0
  <2>1. faults + 1 # 0
    BY BoundAssumption DEF RestOK
  <2>2. /\ pc = "complete" /\ batch # << >> /\ late' = late \cup Outstanding
        /\ UNCHANGED <<signal, status, served>>
        /\ audited' = audited \cup {<<Head(batch), result>>}
        /\ Proceed(Tail(batch))
    BY DEF CompleteReturns, Remaining, Appended, Logged, broker, directory,
           AgentOK
  <2>3. \A r \in Outstanding : r.to = "complete" /\ r.op = Head(batch) /\ r.ok = result
    BY <2>2 DEF Outstanding
  <2>4. faults' = 0 => faults = 0
    BY <2>1 DEF CompleteReturns, Fault
  <2>5. /\ batch' = Tail(batch)
        /\ pc' # "poll" /\ (pc' \in {"ldap", "complete"} => Tail(batch) # << >>)
        /\ pc' = "ldap" => step' = 1
    BY <2>2 DEF Proceed
  <2> QED  BY <2>2, <2>3, <2>4, <2>5
<1>2. \A i \in 1..Len(batch') : i + 1 \in 1..Len(batch) /\ batch'[i] = batch[i + 1]
  BY <1>1, BatchShape
<1>3. Tail(batch) # << >> => 1 \in 1..Len(batch') /\ Head(batch') = batch'[1]
  <2>1. Tail(batch) \in Seq(Op)
    BY <1>1 DEF AgentOK
  <2> QED  BY <1>1, <2>1
<1>4. CASE o # Head(batch)
  <2>1. Undisturbed(o)
    BY <1>1, <1>4 DEF Undisturbed, NoNewTrace
  <2>2. \A i \in 1..Len(batch') : batch'[i] = o => status[o] = "claimed" /\ Untouched(o)
    <3> SUFFICES ASSUME NEW i \in 1..Len(batch'), batch'[i] = o
                 PROVE  status[o] = "claimed" /\ Untouched(o)
      OBVIOUS
    <3>1. i + 1 \in 1..Len(batch) /\ i + 1 > 1 /\ batch[i + 1] = o
      BY <1>2
    <3> QED  BY <3>1 DEF OfferInv, TakesItsTurn
  <2>3. KeepsOrBegins(o)
    <3>1. pc' = "complete" /\ o = Head(batch') => \A ok \in BOOLEAN : ~Says(o, ok)
      BY <1>1, <1>3, <1>4, <2>2, NothingSaidYet DEF Untouched
    <3> QED  BY <3>1 DEF KeepsOrBegins
  <2>4. Offered(o)'
    BY <2>1, <2>3, OfferedUndisturbed DEF OfferInv
  <2>5. LoggedOrNow(o)'
    BY <1>1, <1>4, LoggedNext DEF OfferInv
  <2>6. TakesItsTurn(o)'
    <3>1. \A i \in 1..Len(batch') : batch'[i] = o => status'[o] = "claimed" /\ Untouched(o)'
      BY <2>1, <2>2, UndisturbedKeeps
    <3>2. pc' = "ldap" /\ o = Head(batch') =>
            /\ status'[o] = "claimed" /\ Unreported(o)'
            /\ \A x \in served' : x[1] # o
      BY <1>1, <1>3, <3>1 DEF Untouched
    <3> QED  BY <1>1, <3>1, <3>2 DEF TakesItsTurn
  <2> QED  BY <2>4, <2>5, <2>6 DEF OfferInv
<1>5. CASE o = Head(batch)
  <2>1. 1 \in 1..Len(batch) /\ batch[1] = o
    BY <1>1, <1>5 DEF AgentOK
  <2>2. Handed(o) /\ \A i \in 1..Len(batch') : batch'[i] # o
    BY <1>2, <2>1 DEF OnlyHanded, BatchIsOrderly
  <2>3. pc' \in {"ldap", "complete"} => o # Head(batch')
    BY <1>1, <1>3, <2>2
  <2>4. NothingNew(o)
    <3>1. \A ok \in BOOLEAN : Reports(o, ok)' => Says(o, ok)
      BY <1>1, <1>5 DEF Reports, Says
    <3>2. \A ok \in BOOLEAN : <<o, ok>> \in audited' => Says(o, ok)
      BY <1>1, <1>5 DEF Says
    <3> QED  BY <1>1, <3>1, <3>2 DEF NothingNew
  <2>5. Offered(o)'
    <3>1. KeepsOrBegins(o)
      BY <2>3 DEF KeepsOrBegins
    <3> QED  BY <1>1, <2>2, <2>4, <3>1, OfferedNext DEF OfferInv, Offered, Handed
  <2>6. LoggedOrNow(o)'
    <3>1. /\ status[o] = "done" => result = TRUE
          /\ status[o] = "failed" => result = FALSE
      BY <1>1, <1>5 DEF OfferInv, Offered, Says, AgentOK
    <3>2. status[o] \in {"done", "failed"} => <<o, status[o] = "done">> \in audited'
      <4>1. status[o] = "done" => (status[o] = "done") = result
        BY <3>1
      <4>2. status[o] = "failed" => (status[o] = "done") = result
        BY <3>1
      <4> QED  BY <1>1, <1>5, <4>1, <4>2
    <3> QED  BY <1>1, <3>2 DEF LoggedOrNow
  <2>7. TakesItsTurn(o)'
    BY <2>2, <2>3 DEF TakesItsTurn
  <2> QED  BY <2>5, <2>6, <2>7 DEF OfferInv
<1> QED  BY <1>4, <1>5

(* A pass that is dropped may leave a request of its current operation.    *)
LEMMA AbandonOffers ==
  ASSUME AgentOK, WorldOK, RestOK, OnlyHanded, Quiet, NEW o \in Once, OfferInv(o),
         PassFails \/ Stop \/ Crash
  PROVE  OfferInv(o)'
<1>1. /\ UNCHANGED <<status, audited, served>> /\ late' = late \cup Outstanding
      /\ batch' = << >> /\ pc' \notin {"poll", "ldap", "complete"} /\ faults' # 0
  <2>1. faults \in Nat
    BY BoundAssumption DEF RestOK
  <2>2. faults' # 0
    BY <2>1 DEF PassFails, Stop, Crash, Fault, Quiet
  <2> QED  BY <2>2 DEF PassFails, Stop, Crash, Abandon, broker, directory
<1>2. KeepsOrBegins(o)
  BY <1>1 DEF KeepsOrBegins
<1>3. Offered(o)'
  <2>1. CASE \A r \in Outstanding : r.to = "poll" \/ r.op # o
    BY <1>1, <1>2, <2>1, OfferedUndisturbed DEF OfferInv, Undisturbed, NoNewTrace
  <2>2. CASE \E r \in Outstanding : r.to # "poll" /\ r.op = o
    <3>1. Handed(o)
      BY <2>2, OutstandingHanded
    <3>2. \A r \in Outstanding :
            r.to = "complete" => pc = "complete" /\ r.op = Head(batch) /\ r.ok = result
      BY DEF Outstanding, AgentOK
    <3>3. \A ok \in BOOLEAN : Reports(o, ok)' => Says(o, ok)
      BY <1>1, <3>2 DEF Reports, Says
    <3>4. NothingNew(o)
      BY <1>1, <3>3 DEF NothingNew, Says
    <3> QED  BY <1>1, <1>2, <3>1, <3>4, OfferedNext DEF OfferInv, Offered, Handed
  <2> QED  BY <2>1, <2>2
<1>4. LoggedOrNow(o)'
  BY <1>1 DEF LoggedOrNow
<1>5. TakesItsTurn(o)'
  <2>1. Len(batch') = 0
    BY <1>1
  <2> QED  BY <1>1, <2>1 DEF TakesItsTurn
<1> QED  BY <1>3, <1>4, <1>5 DEF OfferInv

LEMMA OfferedInvariant ==
  Core /\ BatchIsOrderly /\ OfferedOnce /\ [Next]_vars => OfferedOnce'
<1> SUFFICES ASSUME Core, BatchIsOrderly, Quiet, \A p \in Once : OfferInv(p), [Next]_vars
             PROVE  Quiet' /\ \A o \in Once : OfferInv(o)'
  BY OfferedOnceGives, OfferedOnceFollows
<1>1. /\ AgentOK /\ WorldOK /\ RestOK /\ QueueIsOpen /\ OnlyHanded
  BY CoreParts
<1> SUFFICES ASSUME NEW o \in Once PROVE OfferInv(o)'
  BY <1>1, QuietInvariant
<1>a. OfferInv(o)
  OBVIOUS
<1>2. ASSUME NEW p \in Op, Enqueue(p) \/ Requeue(p) PROVE OfferInv(o)'
  BY <1>1, <1>a, <1>2, QueueOffers
<1>3. ASSUME NEW r \in late, LateArrival(r) PROVE OfferInv(o)'
  BY <1>1, <1>a, <1>3, LateOffers
<1>4. ASSUME DirectoryServes \/ DirectoryRefuses PROVE OfferInv(o)'
  BY <1>1, <1>a, <1>4, ServiceOffers, RefusalOffers
<1>5. ASSUME Start \/ BeginPass \/ Connected \/ Unbound \/ Reported \/ Wake \/ Disconnected
      PROVE  OfferInv(o)'
  BY <1>1, <1>a, <1>5, IdleOffers
<1>6. ASSUME BrokerClaims \/ PollReturns PROVE OfferInv(o)'
  BY <1>1, <1>a, <1>6, PollOffers, FirstOffers
<1>7. ASSUME LdapReturns \/ LdapConnectionLost PROVE OfferInv(o)'
  BY <1>1, <1>a, <1>7, RequestOffers
<1>8. ASSUME BrokerCompletes \/ CompleteReturns PROVE OfferInv(o)'
  BY <1>1, <1>a, <1>8, CompletionOffers, NextOffers
<1>9. ASSUME PassFails \/ Stop \/ Crash PROVE OfferInv(o)'
  BY <1>1, <1>a, <1>9, AbandonOffers
<1>10. ASSUME Signal \/ UNCHANGED vars PROVE OfferInv(o)'
  BY <1>1, <1>a, <1>10, SignalOffers
<1> QED
  BY <1>2, <1>3, <1>4, <1>5, <1>6, <1>7, <1>8, <1>9, <1>10 DEF Next

LEMMA InitOffered == Init => OfferedOnce
<1> SUFFICES ASSUME Init PROVE OfferedOnce
  OBVIOUS
<1>1. /\ pc = "down" /\ signal = FALSE /\ Len(batch) = 0 /\ served = {} /\ audited = {}
      /\ late = {} /\ \A o \in Op : status[o] = "absent"
  BY DEF Init
<1>2. \A o \in Op : Offered(o)
  BY <1>1 DEF Offered, Untouched, Unreported, Says
<1>3. \A o \in Op : TakesItsTurn(o)
  BY <1>1 DEF TakesItsTurn
<1>4. LogAgreesWithBroker
  BY <1>1 DEF LogAgreesWithBroker
<1> QED  BY <1>1, <1>2, <1>3, <1>4 DEF OfferedOnce
-----------------------------------------------------------------------------
(* The service loop and its drain pass (src/src/runner.rs and              *)
(* src/src/modes/ad.rs) keep their books, whatever stops or crashes them:  *)
(* the inductive invariant the properties below follow from.               *)
THEOREM InvariantHolds == Spec => []IInv
<1>1. IInv <=> Core /\ BatchIsOrderly /\ PassIsCounted /\ LossIsPaidFor /\ HidingIsPaidFor
        /\ SilenceIsPaidFor /\ OfferedOnce
  BY DEF IInv, Core, Real, Owned
<1>2. Init => Core /\ BatchIsOrderly /\ PassIsCounted /\ LossIsPaidFor /\ HidingIsPaidFor
        /\ SilenceIsPaidFor /\ OfferedOnce
  BY InitCore, InitOrderly, InitCounted, InitLoss, InitHiding, InitSilence,
     InitOffered
<1>3. Core /\ BatchIsOrderly /\ PassIsCounted /\ LossIsPaidFor /\ HidingIsPaidFor
        /\ SilenceIsPaidFor /\ OfferedOnce /\ [Next]_vars
        => Core' /\ BatchIsOrderly' /\ PassIsCounted' /\ LossIsPaidFor' /\ HidingIsPaidFor'
              /\ SilenceIsPaidFor' /\ OfferedOnce'
  BY CoreInvariant, OrderlyInvariant, CountedInvariant, LossInvariant, HidingInvariant,
     SilenceInvariant, OfferedInvariant
<1>4. Spec => [](Core /\ BatchIsOrderly /\ PassIsCounted /\ LossIsPaidFor /\ HidingIsPaidFor
        /\ SilenceIsPaidFor /\ OfferedOnce)
  BY <1>2, <1>3, PTL DEF Spec
<1> QED  BY <1>1, <1>4, PTL

(* SYNC_SUMMARY and report_run say of a pass what its AD_OP records say:   *)
(* SyncCounters (src/src/modes/ad.rs) counts each of them once, under its  *)
(* kind.                                                                   *)
THEOREM SummaryMatchesLogHolds == Spec => []SummaryMatchesLog
<1>1. IInv => SummaryMatchesLog
  BY DEF IInv, PassIsCounted, Outcomes, SummaryMatchesLog
<1> QED  BY <1>1, InvariantHolds, PTL

(* Where the broker offers an operation once, complete_ad_operation        *)
(* (src/src/server.rs) and the AD_OP records never contradict each other,  *)
(* and without a fault what is settled is logged.                          *)
THEOREM LogAgreesWithBrokerHolds == Spec => []LogAgreesWithBroker
<1>1. IInv => LogAgreesWithBroker
  BY DEF IInv, OfferedOnce, LogAgreesWithBroker
<1> QED  BY <1>1, InvariantHolds, PTL

(* Where the broker offers an operation once, process                      *)
(* (src/src/modes/ad.rs) sends the directory no request it has already     *)
(* carried out.                                                            *)
THEOREM NoRepeatedWriteHolds == Spec => []NoRepeatedWrite
<1>1. IInv => NoRepeatedWrite
  <2> SUFFICES ASSUME IInv, pc = "ldap", call = "sent", Head(batch) \notin Redeliver
               PROVE  <<Head(batch), step>> \notin served
    BY DEF NoRepeatedWrite
  <2>0. Head(batch) \in Op
    BY DEF IInv, TypeOK
  <2>1. \A x \in served : x[1] = Head(batch) => x[2] < step
    BY <2>0 DEF IInv, OfferedOnce, TakesItsTurn
  <2>2. step \in Nat
    BY DEF IInv, TypeOK
  <2> QED  BY <2>1, <2>2
<1> QED  BY <1>1, InvariantHolds, PTL

(* A signal, a crash, an error or a timeout leaves at most one batch of    *)
(* fetch_ad_operations (src/src/server.rs) claimed and in nobody's hands.  *)
THEOREM LossIsBoundedHolds == Spec => []LossIsBounded
<1>1. IInv => LossIsBounded
  <2> SUFFICES ASSUME IInv PROVE LossIsBounded
    OBVIOUS
  <2> DEFINE S == {o \in Op : status[o] = "claimed" /\ ~InHand(o)}
  <2>1. S \subseteq Lost
    BY DEF Lost
  <2>2. Cardinality(S) \in Nat /\ Cardinality(S) <= Cardinality(Lost)
    BY <2>1, LostIsFinite, FS_Subset, FS_CardinalityType
  <2>3. ToLose \in Nat
    BY PollsCost, BatchAssumption DEF IInv, LossIsPaidFor, ToLose, Polls
  <2>4. Batch * faults \in Nat /\ Cardinality(Lost) \in Nat
    BY LostIsFinite, BatchAssumption, BoundAssumption DEF IInv, TypeOK
  <2>5. Cardinality(Lost) + ToLose <= Batch * faults
    BY DEF IInv, LossIsPaidFor
  <2> QED  BY <2>2, <2>3, <2>4, <2>5 DEF LossIsBounded
<1> QED  BY <1>1, InvariantHolds, PTL

(* A signal, a crash, an error or a timeout in run_once                    *)
(* (src/src/modes/ad.rs) can hide one change of the directory from the     *)
(* audit log, and nothing else can: every other change has its AD_OP       *)
(* record by the time the pass is at the next operation.                   *)
THEOREM EvidenceIsCompleteHolds == Spec => []EvidenceIsComplete
<1>1. IInv => EvidenceIsComplete
  <2> SUFFICES ASSUME IInv PROVE EvidenceIsComplete
    OBVIOUS
  <2> DEFINE S == {o \in Op : Unrecorded(o) /\ \E x \in served : x[1] = o}
  <2>1. S \subseteq Hidden
    BY DEF Hidden
  <2>2. /\ Cardinality(S) \in Nat /\ Cardinality(Hidden) \in Nat
        /\ Cardinality(S) <= Cardinality(Hidden)
    BY <2>1, HiddenIsFinite
  <2>3. faults \in Nat /\ Cardinality(Hidden) + Dropping(StopDue) <= faults
    BY HiddenParts, BoundAssumption DEF IInv, TypeOK
  <2>4. Dropping(StopDue) \in {0, 1}
    BY HiddenParts
  <2> QED  BY <2>2, <2>3, <2>4 DEF EvidenceIsComplete
<1> QED  BY <1>1, InvariantHolds, PTL

(* A report that is lost, or a claim that expires under the agent, keeps   *)
(* one outcome from the broker, and nothing else does, although run_once   *)
(* (src/src/modes/ad.rs) ignores the result of complete.                   *)
THEOREM OutcomesReachBrokerHolds == Spec => []OutcomesReachBroker
<1>1. IInv => OutcomesReachBroker
  <2> SUFFICES ASSUME IInv PROVE OutcomesReachBroker
    OBVIOUS
  <2> DEFINE S == {o \in Op : Recorded(o) /\ ~Settled(o)}
  <2>1. S \subseteq Unheard /\ Unheard \subseteq Op
    BY DEF Unheard
  <2>2. /\ Cardinality(S) \in Nat /\ Cardinality(Unheard) \in Nat
        /\ Cardinality(S) <= Cardinality(Unheard)
    BY <2>1, OneMoreOp
  <2>3. faults \in Nat /\ Cardinality(Unheard) <= faults
    BY BoundAssumption DEF IInv, TypeOK, SilenceIsPaidFor
  <2> QED  BY <2>2, <2>3 DEF OutcomesReachBroker
<1> QED  BY <1>1, InvariantHolds, PTL
=============================================================================
