---------------------------- MODULE DbSyncProofs ----------------------------
(***************************************************************************)
(* DbSync for any table, field map and change feed: writes and reads of    *)
(* the table agree, and the summary is true of what the peers did.         *)
(***************************************************************************)
EXTENDS DbSync, SequenceTheorems, FiniteSetTheorems, TLAPS

(* A field of the map has a last column, which is a column of the field.   *)
LEMMA LastOfField ==
  ASSUME NEW f \in Mapped
  PROVE  LastOf(f) \in DOMAIN Fields /\ LastOf(f) \in Column /\ Fields[LastOf(f)] = f
<1>1. ColumnsOf(f) \in (SUBSET Column) \ {{}}
  BY FieldsAssumption DEF Mapped, ColumnsOf
<1>2. \E c \in ColumnsOf(f) : \A d \in ColumnsOf(f) : d <= c
  BY <1>1, ColumnAssumption
<1>3. LastOf(f) \in ColumnsOf(f)
  BY <1>2 DEF LastOf
<1> QED  BY <1>1, <1>3 DEF ColumnsOf

LEMMA PulledType ==
  ASSUME NEW row \in [Column -> Value]
  PROVE  Pulled(row) \in [Mapped -> Value]
  BY LastOfField DEF Pulled

(* Only mapped columns are written, each with the new value of its field.  *)
LEMMA WritableType ==
  ASSUME NEW fields \in FieldChange
  PROVE  /\ DOMAIN Writable(fields) \subseteq DOMAIN Fields
         /\ \A c \in DOMAIN Writable(fields) : Writable(fields)[c] \in Value
         /\ \A f \in Mapped : /\ LastOf(f) \in DOMAIN Writable(fields) <=> f \in DOMAIN fields
                              /\ f \in DOMAIN fields => Writable(fields)[LastOf(f)] = fields[f]
<1> DEFINE W == {LastOf(f) : f \in DOMAIN fields \cap Mapped}
<1>1. DOMAIN Writable(fields) = W /\ \A c \in W : Writable(fields)[c] = fields[Fields[c]]
  BY DEF Writable
<1>2. \A f \in DOMAIN fields : fields[f] \in Value
  BY DEF FieldChange
<1>3. \A c \in W : c \in DOMAIN Fields /\ Fields[c] \in DOMAIN fields /\ Fields[c] \in Mapped
  BY LastOfField
<1>4. \A f \in Mapped : LastOf(f) \in W => f \in DOMAIN fields
  <2>1. SUFFICES ASSUME NEW f \in Mapped, NEW g \in DOMAIN fields \cap Mapped,
                        LastOf(f) = LastOf(g)
                 PROVE  f = g
    OBVIOUS
  <2> QED  BY <2>1, LastOfField
<1>5. \A f \in Mapped : f \in DOMAIN fields => LastOf(f) \in W /\ fields[Fields[LastOf(f)]] = fields[f]
  BY LastOfField
<1> QED  BY <1>1, <1>2, <1>3, <1>4, <1>5

(* A change that is not refused is one that every column it is written to  *)
(* can hold.                                                               *)
LEMMA AcceptedType ==
  ASSUME NEW change \in Change, ~Refuses(change)
  PROVE  /\ change.fields \in FieldChange
         /\ \A c \in DOMAIN Writable(change.fields) :
               Reading[c][Writable(change.fields)[c]] \in Value
<1>1. change.fields \in FieldChange  BY DEF Change
<1>2. ASSUME NEW c \in DOMAIN Writable(change.fields)
      PROVE  Reading[c][Writable(change.fields)[c]] \in Value
  <2>1. c \in Column  BY <1>1, WritableType, FieldsAssumption
  <2>2. Writable(change.fields)[c] \in DOMAIN Reading[c]  BY DEF Refuses
  <2> QED  BY <2>1, <2>2, ReadingAssumption
<1> QED  BY <1>1, <1>2

LEMMA WrittenType ==
  ASSUME NEW row \in [Column -> Value], NEW change \in Change, ~Refuses(change)
  PROVE  Written(row, Writable(change.fields)) \in [Column -> Value]
<1>1. DOMAIN row \cup DOMAIN Writable(change.fields) = Column
  BY AcceptedType, WritableType, FieldsAssumption
<1> QED  BY <1>1, AcceptedType DEF Written

(* A row that a change is written to reads as its columns make of it.      *)
LEMMA ReadsWhatIsWritten ==
  ASSUME NEW row \in [Column -> Value], NEW fields \in FieldChange
  PROVE  /\ \A f \in Mapped : Pulled(Written(row, Writable(fields)))[f] =
                                IF f \in DOMAIN fields THEN Reading[LastOf(f)][fields[f]]
                                                       ELSE Pulled(row)[f]
         /\ \A c \in Column \ DOMAIN Fields : Written(row, Writable(fields))[c] = row[c]
<1> DEFINE set == Writable(fields)
<1>1. DOMAIN row \cup DOMAIN set = Column
  BY WritableType, FieldsAssumption
<1>2. \A c \in Column : Written(row, set)[c] = IF c \in DOMAIN set THEN Reading[c][set[c]]
                                               ELSE row[c]
  BY <1>1 DEF Written
<1>3. ASSUME NEW f \in Mapped
      PROVE  Pulled(Written(row, set))[f] = IF f \in DOMAIN fields
                                            THEN Reading[LastOf(f)][fields[f]] ELSE Pulled(row)[f]
  <2>1. Pulled(Written(row, set))[f] = Written(row, set)[LastOf(f)]  BY DEF Pulled
  <2>2. Pulled(row)[f] = row[LastOf(f)]  BY DEF Pulled
  <2> QED  BY <1>2, <2>1, <2>2, LastOfField, WritableType
<1> QED  BY <1>2, <1>3, WritableType
-----------------------------------------------------------------------------
LEMMA TypeInit == Init => TypeOK
<1> SUFFICES ASSUME Init PROVE TypeOK  OBVIOUS
<1>1. current \in Key  BY KeyAssumption DEF Init, AnyKey
<1>2. changes \in Seq(Change) /\ feed \in Seq(Change)  BY DEF Init
<1>3. counters \in SyncCounters /\ said \in Said /\ took \in Took
  BY DEF Init, SyncCounters, NoCounts, Said, NothingSaid, Took, NothingTaken
<1>4. rows \in [Key -> [Column -> Value]]  BY DEF Init
<1>5. known \in [Key -> [Mapped -> Value] \cup {NoRecord}]  BY DEF Init
<1>6. edits \in 0..MaxEdits /\ faults \in 0..MaxFaults  BY SwitchAssumption DEF Init
<1> QED  BY <1>1, <1>2, <1>3, <1>4, <1>5, <1>6 DEF Init, TypeOK

(* The bounds and the counters are numbers.                                *)
LEMMA Numbers ==
  ASSUME TypeOK
  PROVE  /\ edits \in 0..MaxEdits /\ faults \in 0..MaxFaults
         /\ MaxEdits \in Nat /\ MaxFaults \in Nat
         /\ counters \in SyncCounters /\ said \in Said /\ took \in Took
  BY SwitchAssumption DEF TypeOK

LEMMA FaultType == ASSUME TypeOK, Fault PROVE faults' \in 0..MaxFaults /\ faults' \in Nat
  BY Numbers DEF Fault

(* The change to be applied, and what is left once it is.                  *)
LEMMA HeadChange ==
  ASSUME TypeOK, pc = "apply"
  PROVE  /\ Head(changes) \in Change
         /\ Tail(changes) \in Seq(Change)
         /\ Len(changes) \in Nat /\ Len(Tail(changes)) \in Nat
         /\ Len(changes) = Len(Tail(changes)) + 1
<1>1. changes \in Seq(Change) /\ changes # << >>  BY DEF TypeOK
<1> QED  BY <1>1, HeadTailProperties, LenProperties

LEMMA OutstandingType == ASSUME TypeOK, faults' \in Nat PROVE Outstanding \subseteq Request
<1>1. CASE call # "sent"  BY <1>1 DEF Outstanding
<1>2. CASE call = "sent" /\ pc = "push"
  <2>1. current \in Key /\ records[current] \in [Mapped -> Value]
    BY <1>2 DEF TypeOK
  <2> QED  BY <1>2, <2>1 DEF Outstanding, Request
<1>3. CASE call = "sent" /\ pc = "feed"
  BY <1>3 DEF Outstanding, Request
<1>4. CASE call = "sent" /\ pc = "apply"
  <2>1. Head(changes) \in Change  BY <1>4, HeadChange
  <2> QED  BY <1>4, <2>1 DEF Outstanding, Request
<1> QED  BY <1>1, <1>2, <1>3, <1>4 DEF TypeOK

(* What is counted when a call returns.                                    *)
LEMMA ApplyCounts ==
  ASSUME ApplyReturns
  PROVE  \E n, m \in {0, 1} :
           /\ n = (IF call = "ok" THEN 1 ELSE 0) /\ m = (IF call = "failed" THEN 1 ELSE 0)
           /\ counters' = [inspected |-> counters.inspected + 1,
                            updated |-> counters.updated + n, failed |-> counters.failed + m]
           /\ said' = [said EXCEPT !.fails = @ + m]
<1>1. SUFFICES ASSUME NEW n, NEW m,
                      n = (IF call = "ok" THEN 1 ELSE 0), m = (IF call = "failed" THEN 1 ELSE 0)
               PROVE  /\ counters' = [inspected |-> counters.inspected + 1,
                                       updated |-> counters.updated + n,
                                       failed |-> counters.failed + m]
                      /\ said' = [said EXCEPT !.fails = @ + m]
  OBVIOUS
<1> QED  BY <1>1 DEF ApplyReturns, CountsAsUpdated

LEMMA WritesCounted ==
  ASSUME DbApplies
  PROVE  \E n \in {0, 1} : /\ n = (IF Matches(Head(changes)) THEN 1 ELSE 0)
                           /\ took' = [took EXCEPT !.written = @ + n]
<1>1. SUFFICES ASSUME NEW n, n = (IF Matches(Head(changes)) THEN 1 ELSE 0)
               PROVE  took' = [took EXCEPT !.written = @ + n]
  OBVIOUS
<1> QED  BY <1>1 DEF DbApplies

(* What the peers do keeps their own types.                                *)
Peers ==
    /\ rows \in [Key -> [Column -> Value]]
    /\ known \in [Key -> [Mapped -> Value] \cup {NoRecord}]
    /\ feed \in Seq(Change)

LEMMA IngestType ==
  ASSUME TypeOK, NEW k \in Key, NEW record \in [Mapped -> Value], Ingest(k, record)
  PROVE  Peers'
  BY DEF TypeOK, Ingest, Peers

LEMMA OfferType == ASSUME TypeOK, Offer PROVE Peers'
<1>1. feed' \in Seq(Change)  BY DEF Offer
<1> QED  BY <1>1 DEF TypeOK, Offer, Peers

LEMMA UpdateType ==
  ASSUME TypeOK, NEW change \in Change, Update(change)
  PROVE  Peers'
<1>1. rows' \in [Key -> [Column -> Value]]
  <2>1. CASE ~(Matches(change) /\ ~Refuses(change))  BY <2>1 DEF Update, TypeOK
  <2>2. CASE Matches(change) /\ ~Refuses(change)
    <3>1. change.key \in Key  BY <2>2 DEF Matches
    <3>2. rows[change.key] \in [Column -> Value]  BY <3>1 DEF TypeOK
    <3>3. Written(rows[change.key], Writable(change.fields)) \in [Column -> Value]
      BY <2>2, <3>2, WrittenType
    <3> QED  BY <2>2, <3>1, <3>3 DEF Update, TypeOK
  <2> QED  BY <2>1, <2>2
<1> QED  BY <1>1 DEF Update, TypeOK, Peers

LEMMA ResetType ==
  ASSUME Reset
  PROVE  /\ pc' = "idle" /\ call' = "none" /\ records' = << >> /\ todo' = {}
         /\ current' \in Key /\ changes' \in Seq(Change)
         /\ counters' \in SyncCounters /\ said' \in Said /\ took' \in Took
<1>1. current' \in Key  BY KeyAssumption DEF Reset, AnyKey
<1>2. changes' \in Seq(Change)  BY DEF Reset
<1>3. counters' \in SyncCounters /\ said' \in Said /\ took' \in Took
  BY DEF Reset, SyncCounters, NoCounts, Said, NothingSaid, Took, NothingTaken
<1> QED  BY <1>1, <1>2, <1>3 DEF Reset

LEMMA TypeNext == TypeOK /\ [Next]_vars => TypeOK'
<1> SUFFICES ASSUME TypeOK, [Next]_vars PROVE TypeOK'  OBVIOUS
<1>1. ASSUME NEW k \in Key, NEW c \in Column, NEW v \in Value, EditRow(k, c, v)
      PROVE  TypeOK'
  <2>1. rows' \in [Key -> [Column -> Value]]  BY <1>1 DEF EditRow, TypeOK
  <2>2. edits' \in 0..MaxEdits  BY <1>1, Numbers DEF EditRow
  <2> QED  BY <1>1, <2>1, <2>2 DEF EditRow, TypeOK, pass
<1>2. ASSUME NEW k \in Key \cup Stray, NEW fields \in FieldChange, EditRecord(k, fields)
      PROVE  TypeOK'
  <2>1. [key |-> k, fields |-> fields] \in Change  BY DEF Change
  <2>2. feed' \in Seq(Change)
    <3>1. feed \in Seq(Change) /\ feed' = Append(feed, [key |-> k, fields |-> fields])
      BY <1>2 DEF EditRecord, TypeOK
    <3> QED  BY <2>1, <3>1, AppendProperties
  <2>3. known' \in [Key -> [Mapped -> Value] \cup {NoRecord}]
    <3>1. CASE k \notin Key  BY <1>2, <3>1 DEF EditRecord, TypeOK
    <3>2. CASE k \in Key
      <4>1. known[k] \in [Mapped -> Value]
        BY <1>2, <3>2 DEF EditRecord, TypeOK
      <4>2. \A f \in DOMAIN fields : fields[f] \in Value  BY DEF FieldChange
      <4>3. [f \in Mapped |-> IF f \in DOMAIN fields THEN fields[f] ELSE known[k][f]]
              \in [Mapped -> Value]
        BY <4>1, <4>2
      <4> QED  BY <1>2, <3>2, <4>3 DEF EditRecord, TypeOK
    <3> QED  BY <3>1, <3>2
  <2>4. edits' \in 0..MaxEdits  BY <1>2, Numbers DEF EditRecord
  <2> QED  BY <1>2, <2>2, <2>3, <2>4 DEF EditRecord, TypeOK, pass
<1>3. ASSUME NEW r \in late, LateArrival(r) PROVE TypeOK'
  <2>1. r \in Request  BY DEF TypeOK
  <2>2. CASE r.to = "push" /\ Ingest(r.key, r.record)
    <3>1. r.key \in Key /\ r.record \in [Mapped -> Value]  BY <2>1, <2>2 DEF Request
    <3> QED  BY <2>2, <3>1, IngestType
             , <1>3 DEF LateArrival, TypeOK, pass, Peers
  <2>3. CASE r.to = "feed" /\ Offer
    BY <1>3, <2>3, OfferType DEF LateArrival, TypeOK, pass, Peers
  <2>4. CASE r.to = "apply" /\ Update(r.change)
    <3>1. r.change \in Change  BY <2>1, <2>4 DEF Request
    <3> QED  BY <1>3, <2>4, <3>1, UpdateType DEF LateArrival, TypeOK, pass, Peers
  <2> QED  BY <1>3, <2>2, <2>3, <2>4 DEF LateArrival
<1>4. CASE PullRecords
  <2>1. records' \in [Key -> [Mapped -> Value]]
    BY <1>4, PulledType DEF PullRecords, TypeOK
  <2>2. records' # << >>  BY <1>4, KeyAssumption DEF PullRecords
  <2> QED  BY <1>4, <2>1, <2>2 DEF PullRecords, TypeOK
<1>5. CASE Pushed
  BY <1>5 DEF Pushed, TypeOK
<1>6. ASSUME NEW k \in Key, Push(k) PROVE TypeOK'
  BY <1>6 DEF Push, TypeOK
<1>7. CASE BrokerIngests
  <2>1. current \in Key /\ records[current] \in [Mapped -> Value]
    BY <1>7 DEF BrokerIngests, TypeOK
  <2>2. Peers'  BY <1>7, <2>1, IngestType DEF BrokerIngests
  <2>3. took' \in Took  BY <1>7, Numbers DEF BrokerIngests, Took
  <2> QED  BY <1>7, <2>2, <2>3 DEF BrokerIngests, TypeOK, Peers
<1>8. CASE BrokerRejects
  BY <1>8 DEF BrokerRejects, TypeOK
<1>9. CASE PushReturns
  <2>1. counters' \in SyncCounters  BY <1>9, Numbers DEF PushReturns, SyncCounters
  <2>2. said' \in Said  BY <1>9, Numbers DEF PushReturns, Said
  <2>3. todo' \subseteq Key  BY <1>9 DEF PushReturns, StillToPush, TypeOK
  <2> QED  BY <1>9, <2>1, <2>2, <2>3 DEF PushReturns, TypeOK
<1>10. CASE BrokerOffers
  <2>1. Peers'  BY <1>10, OfferType DEF BrokerOffers
  <2>2. changes' \in Seq(Change)  BY <1>10 DEF BrokerOffers, TypeOK
  <2> QED  BY <1>10, <2>1, <2>2 DEF BrokerOffers, TypeOK, Peers
<1>11. CASE BrokerHasNoFeed
  <2>1. changes' \in Seq(Change)  BY <1>11 DEF BrokerHasNoFeed
  <2>2. faults' \in 0..MaxFaults  BY <1>11, FaultType DEF BrokerHasNoFeed
  <2> QED  BY <1>11, <2>1, <2>2 DEF BrokerHasNoFeed, TypeOK
<1>12. CASE FeedReturns
  <2>1. Len(changes) \in Nat  BY LenProperties DEF TypeOK
  <2>2. said' \in Said  BY <1>12, <2>1, Numbers DEF FeedReturns, Said
  <2> QED  BY <1>12, <2>2 DEF FeedReturns, TypeOK
<1>13. CASE DbApplies
  <2>1. Peers'  BY <1>13, HeadChange, UpdateType DEF DbApplies
  <2>2. took' \in Took  BY <1>13, Numbers, WritesCounted DEF Took
  <2> QED  BY <1>13, <2>1, <2>2 DEF DbApplies, TypeOK, Peers
<1>14. CASE ApplyReturns
  <2>1. counters' \in SyncCounters  BY <1>14, Numbers, ApplyCounts DEF SyncCounters
  <2>2. said' \in Said  BY <1>14, Numbers, ApplyCounts DEF Said
  <2>3. changes' \in Seq(Change)  BY <1>14, HeadChange DEF ApplyReturns
  <2> QED  BY <1>14, <2>1, <2>2, <2>3 DEF ApplyReturns, TypeOK
<1>15. CASE CallFails
  <2>1. faults' \in 0..MaxFaults  BY <1>15, FaultType DEF CallFails
  <2>2. late' \subseteq Request  BY <1>15, FaultType, OutstandingType DEF CallFails, TypeOK
  <2> QED  BY <1>15, <2>1, <2>2 DEF CallFails, TypeOK
<1>16. CASE PassEnds
  BY <1>16, ResetType DEF PassEnds, TypeOK
<1>17. CASE PassFails
  <2>1. faults' \in 0..MaxFaults  BY <1>17, FaultType DEF PassFails
  <2>2. late' \subseteq Request  BY <1>17, FaultType, OutstandingType DEF PassFails, TypeOK
  <2> QED  BY <1>17, <2>1, <2>2, ResetType DEF PassFails, TypeOK
<1>18. CASE DbRefuses
  BY <1>18 DEF DbRefuses, TypeOK
<1>19. CASE UNCHANGED vars
  BY <1>19 DEF vars, pass, TypeOK
<1> QED  BY <1>1, <1>2, <1>3, <1>4, <1>5, <1>6, <1>7, <1>8, <1>9, <1>10, <1>11, <1>12, <1>13,
            <1>14, <1>15, <1>16, <1>17, <1>18, <1>19 DEF Next

(* Every variable holds a value of its kind; in particular apply_writeback *)
(* writes no column the table has not.                                     *)
THEOREM TypeCorrect == Spec => []TypeOK
<1>1. Init => TypeOK  BY TypeInit
<1>2. TypeOK /\ [Next]_vars => TypeOK'  BY TypeNext
<1> QED  BY <1>1, <1>2, PTL DEF Spec

LEMMA DbAppliesReadsBack == TypeOK /\ DbApplies => ReadsBack(Head(changes))
<1> SUFFICES ASSUME TypeOK, DbApplies PROVE ReadsBack(Head(changes))  OBVIOUS
<1> DEFINE change == Head(changes)
<1>1. change \in Change /\ change.fields \in FieldChange
  BY HeadChange DEF DbApplies, Change
<1>2. \A k \in Key : rows[k] \in [Column -> Value]  BY DEF TypeOK
<1>3. rows \in [Key -> [Column -> Value]]  BY DEF TypeOK
<1>4. rows' = IF Matches(change) /\ ~Refuses(change)
              THEN [rows EXCEPT ![change.key] = Written(@, Writable(change.fields))]
              ELSE rows
  BY DEF DbApplies, Update
<1>5. Matches(change) => ~Refuses(change)  BY DEF DbApplies
<1>6. CASE Matches(change)
  <2>1. change.key \in Key  BY <1>6 DEF Matches
  <2>2. \A k \in Key : rows'[k] = IF k = change.key THEN Written(rows[k], Writable(change.fields))
                                  ELSE rows[k]
    BY <1>3, <1>4, <1>5, <1>6, <2>1
  <2> QED  BY <1>1, <1>2, <2>2, ReadsWhatIsWritten DEF ReadsBack
<1>7. CASE ~Matches(change)
  <2>1. \A k \in Key, f \in Mapped : k = change.key => f \notin DOMAIN change.fields
    <3>1. SUFFICES ASSUME NEW k \in Key, NEW f \in Mapped, k = change.key
                   PROVE  f \notin DOMAIN change.fields
      OBVIOUS
    <3>2. DOMAIN Writable(change.fields) = {}  BY <1>7, <3>1 DEF Matches
    <3> QED  BY <1>1, <3>2, WritableType
  <2> QED  BY <1>4, <1>7, <2>1 DEF ReadsBack
<1> QED  BY <1>6, <1>7

(* Whatever the field map, apply_writeback and pull_records agree on which *)
(* column a field is, and a change touches nothing else.                   *)
THEOREM WritesRoundTripHolds == Spec => WritesRoundTrip
<1>1. TypeOK /\ [Next]_vars => [DbApplies => ReadsBack(Head(changes))]_vars
  BY DbAppliesReadsBack
<1> QED  BY <1>1, TypeCorrect, PTL DEF Spec, WritesRoundTrip
-----------------------------------------------------------------------------
LEMMA InvInit == Init => IInv
<1> SUFFICES ASSUME Init PROVE IInv  OBVIOUS
<1>1. TypeOK  BY TypeInit
<1>2. HasWork  BY DEF Init, HasWork, NothingSaid
<1>3. CountsSoFar  BY DEF Init, CountsSoFar
<1> QED  BY <1>1, <1>2, <1>3 DEF IInv

LEMMA HasWorkNext == IInv /\ [Next]_vars => HasWork'
<1> SUFFICES ASSUME TypeOK, HasWork, [Next]_vars PROVE HasWork'  BY DEF IInv
<1>1. ASSUME NEW k \in Key, NEW c \in Column, NEW v \in Value, EditRow(k, c, v)
      PROVE  HasWork'
  BY <1>1 DEF EditRow, HasWork, pass
<1>2. ASSUME NEW k \in Key \cup Stray, NEW fields \in FieldChange, EditRecord(k, fields)
      PROVE  HasWork'
  BY <1>2 DEF EditRecord, HasWork, pass
<1>3. ASSUME NEW r \in late, LateArrival(r) PROVE HasWork'
  BY <1>3 DEF LateArrival, HasWork, pass
<1>4. ASSUME NEW k \in Key, Push(k) PROVE HasWork'
  BY <1>4 DEF Push, HasWork
<1>5. CASE PullRecords
  BY <1>5 DEF PullRecords, HasWork
<1>6. CASE Pushed
  BY <1>6 DEF Pushed, HasWork
<1>7. CASE BrokerIngests \/ BrokerRejects
  BY <1>7 DEF BrokerIngests, BrokerRejects, HasWork
<1>8. CASE PushReturns
  <2>1. said'.applied = said.applied  BY <1>8, Numbers DEF PushReturns, Said
  <2> QED  BY <1>8, <2>1 DEF PushReturns, HasWork
<1>9. CASE BrokerOffers \/ BrokerHasNoFeed
  BY <1>9 DEF BrokerOffers, BrokerHasNoFeed, HasWork
<1>10. CASE FeedReturns
  BY <1>10 DEF FeedReturns, HasWork
<1>11. CASE DbApplies \/ DbRefuses
  BY <1>11 DEF DbApplies, DbRefuses, HasWork
<1>12. CASE ApplyReturns
  BY <1>12 DEF ApplyReturns, HasWork
<1>13. CASE CallFails
  BY <1>13 DEF CallFails, HasWork
<1>14. CASE PassEnds
  BY <1>14 DEF PassEnds, Reset, NothingSaid, HasWork
<1>15. CASE PassFails
  BY <1>15 DEF PassFails, Reset, NothingSaid, HasWork
<1>16. CASE UNCHANGED vars
  BY <1>16 DEF vars, pass, HasWork
<1> QED  BY <1>1, <1>2, <1>3, <1>4, <1>5, <1>6, <1>7, <1>8, <1>9, <1>10, <1>11, <1>12, <1>13,
            <1>14, <1>15, <1>16 DEF Next

(* How many rows are still to be pushed, and changes to be applied.        *)
LEMMA Sizes ==
  ASSUME TypeOK
  PROVE  /\ Cardinality(Key) \in Nat /\ Cardinality(todo) \in Nat /\ Cardinality({}) = 0
         /\ current \in todo => Cardinality(todo \ {current}) = Cardinality(todo) - 1
         /\ Len(changes) \in Nat
<1>1. IsFiniteSet(todo) /\ todo \subseteq Key
  BY KeyAssumption, FS_Subset DEF TypeOK
<1>2. Cardinality(Key) \in Nat /\ Cardinality(todo) \in Nat
  BY <1>1, KeyAssumption, FS_CardinalityType
<1>3. current \in todo => Cardinality(todo \ {current}) = Cardinality(todo) - 1
  BY <1>1, FS_RemoveElement
<1>4. Len(changes) \in Nat  BY LenProperties DEF TypeOK
<1> QED  BY <1>2, <1>3, <1>4, FS_EmptySet

LEMMA CountsSoFarNext == IInv /\ [Next]_vars => CountsSoFar'
<1> SUFFICES ASSUME TypeOK, HasWork, CountsSoFar, [Next]_vars PROVE CountsSoFar'  BY DEF IInv
<1>0. /\ counters.inspected \in Nat /\ counters.updated \in Nat /\ counters.failed \in Nat
      /\ said.fails \in Nat /\ said.applied \in Nat
      /\ took.pushed \in Nat /\ took.written \in Nat
  BY Numbers DEF SyncCounters, Said, Took
<1>00. Cardinality(Key) \in Nat  BY Sizes
<1>1. ASSUME NEW k \in Key, NEW c \in Column, NEW v \in Value, EditRow(k, c, v)
      PROVE  CountsSoFar'
  BY <1>1 DEF EditRow, pass, CountsSoFar, ToCount, Uncounted
<1>2. ASSUME NEW k \in Key \cup Stray, NEW fields \in FieldChange, EditRecord(k, fields)
      PROVE  CountsSoFar'
  BY <1>2 DEF EditRecord, pass, CountsSoFar, ToCount, Uncounted
<1>3. ASSUME NEW r \in late, LateArrival(r) PROVE CountsSoFar'
  BY <1>3 DEF LateArrival, pass, CountsSoFar, ToCount, Uncounted
<1>4. ASSUME NEW k \in Key, Push(k) PROVE CountsSoFar'
  BY <1>0, <1>4, Sizes DEF Push, CountsSoFar, ToCount, Uncounted
<1>5. CASE PullRecords
  <2>1. /\ counters.updated = 0 /\ counters.failed = 0 /\ counters.inspected = 0
        /\ took.pushed = 0 /\ took.written = 0 /\ said.fails = 0 /\ said.applied = 0
    BY <1>5 DEF PullRecords, NoCounts, NothingSaid, NothingTaken, CountsSoFar
  <2> QED  BY <1>5, <2>1, Sizes DEF PullRecords, HasWork, CountsSoFar, ToCount, Uncounted
<1>6. CASE Pushed
  BY <1>0, <1>6, Sizes DEF Pushed, CountsSoFar, ToCount, Uncounted
<1>7. CASE BrokerIngests
  <2>1. took'.pushed = took.pushed + 1 /\ took'.written = took.written
    BY <1>7, Numbers DEF BrokerIngests, Took
  <2>2. /\ pc = "push" /\ pc' = pc /\ call = "sent" /\ call' = "ok"
        /\ UNCHANGED <<todo, changes, counters, said>>
    BY <1>7 DEF BrokerIngests
  <2>3. ToCount' = ToCount  BY <2>2 DEF ToCount
  <2>4. Uncounted({"ok"}) = 0 /\ Uncounted({"ok", "failed"}) = 0  BY <2>2 DEF Uncounted
  <2>5. Uncounted({"ok"})' = 1 /\ Uncounted({"ok", "failed"})' = 1  BY <2>2 DEF Uncounted
  <2> QED  BY <1>0, <1>00, <2>1, <2>2, <2>3, <2>4, <2>5 DEF CountsSoFar
<1>8. CASE BrokerRejects
  BY <1>0, <1>8, Sizes DEF BrokerRejects, CountsSoFar, ToCount, Uncounted
<1>9. CASE PushReturns
  <2>1. /\ said'.fails = said.fails + (IF call = "ok" THEN 0 ELSE 1)
        /\ said'.applied = said.applied
    BY <1>9, Numbers DEF PushReturns, Said
  <2>2. /\ counters'.inspected = counters.inspected + 1
        /\ counters'.updated = counters.updated + (IF call = "ok" THEN 1 ELSE 0)
        /\ counters'.failed = counters.failed + (IF call = "ok" THEN 0 ELSE 1)
    BY <1>9 DEF PushReturns
  <2>3. ToCount' = ToCount - 1 /\ ToCount \in Int
    BY <1>9, Sizes DEF PushReturns, StillToPush, HasWork, ToCount
  <2>4. /\ pc = "push" /\ pc' = "push" /\ call \in {"ok", "failed"} /\ call' = "none"
        /\ took' = took
    BY <1>9 DEF PushReturns
  <2> QED  BY <1>0, <1>00, <2>1, <2>2, <2>3, <2>4 DEF CountsSoFar, Uncounted
<1>10. CASE BrokerOffers \/ BrokerHasNoFeed
  BY <1>0, <1>10, Sizes DEF BrokerOffers, BrokerHasNoFeed, CountsSoFar, ToCount, Uncounted
<1>11. CASE FeedReturns
  <2>1. said'.fails = said.fails /\ said'.applied = Len(changes)
    BY <1>11, Numbers DEF FeedReturns, Said
  <2>2. Len(<< >>) = 0  OBVIOUS
  <2>3. changes' = changes /\ said.applied = 0  BY <1>11 DEF FeedReturns, HasWork
  <2> QED  BY <1>0, <1>11, <2>1, <2>2, <2>3, Sizes DEF FeedReturns, CountsSoFar, ToCount, Uncounted
<1>12. CASE DbApplies
  <2>1. took'.pushed = took.pushed
        /\ took'.written = took.written + (IF Matches(Head(changes)) THEN 1 ELSE 0)
    BY <1>12, Numbers, WritesCounted DEF Took
  <2>2. /\ pc = "apply" /\ pc' = pc /\ call = "sent"
        /\ call' = (IF Matches(Head(changes)) THEN "ok" ELSE "unmatched")
        /\ UNCHANGED <<todo, changes, counters, said>>
    BY <1>12 DEF DbApplies
  <2>3. ToCount' = ToCount /\ ToCount \in Int  BY <2>2, Sizes DEF ToCount
  <2>4. CASE Matches(Head(changes))  BY <1>0, <1>00, <2>1, <2>2, <2>3, <2>4 DEF CountsSoFar, Uncounted
  <2>5. CASE ~Matches(Head(changes))  BY <1>0, <1>00, <2>1, <2>2, <2>3, <2>5 DEF CountsSoFar, Uncounted
  <2> QED  BY <2>4, <2>5
<1>13. CASE ApplyReturns
  <2>1. /\ counters'.inspected = counters.inspected + 1
        /\ counters'.updated = counters.updated + (IF call = "ok" THEN 1 ELSE 0)
        /\ counters'.failed = counters.failed + (IF call = "failed" THEN 1 ELSE 0)
        /\ said'.fails = said.fails + (IF call = "failed" THEN 1 ELSE 0)
        /\ said'.applied = said.applied
    BY <1>13, Numbers, ApplyCounts DEF Said
  <2>2. /\ pc = "apply" /\ call \in {"ok", "unmatched", "failed"}
        /\ pc' \in {"apply", "summary"}
        /\ pc' = "apply" => call' = "sent"
        /\ UNCHANGED <<todo, took>>
    BY <1>13 DEF ApplyReturns
  <2>3. /\ changes' = Tail(changes)
        /\ pc' = "summary" => changes' = << >>
    BY <1>13 DEF ApplyReturns
  <2>4. Len(Tail(changes)) = Len(changes) - 1  BY <2>2, HeadChange
  <2>5. Len(<< >>) = 0  OBVIOUS
  <2>6. /\ Len(changes') = Len(changes) - 1
        /\ pc' = "summary" => Len(changes') = 0
    BY <2>3, <2>4, <2>5
  <2>7. ToCount' = ToCount - 1 /\ ToCount \in Int
    BY <2>2, <2>6, Sizes DEF ToCount
  <2> QED  BY <1>0, <1>00, <2>1, <2>2, <2>7 DEF CountsSoFar, Uncounted
<1>14. CASE CallFails
  <2>1. /\ pc \in {"push", "apply"} /\ pc' = pc /\ call' = "failed"
        /\ call \in {"sent", "ok", "unmatched"}
        /\ UNCHANGED <<todo, changes, counters, said, took>>
    BY <1>14 DEF CallFails
  <2>2. ToCount' = ToCount /\ ToCount \in Int  BY <2>1, Sizes DEF ToCount
  <2> QED  BY <1>0, <1>00, <2>1, <2>2 DEF CountsSoFar, Uncounted
<1>15. CASE PassEnds
  BY <1>15 DEF PassEnds, Reset, CountsSoFar
<1>16. CASE PassFails
  BY <1>16 DEF PassFails, Reset, CountsSoFar
<1>17. CASE DbRefuses
  <2>1. /\ pc = "apply" /\ pc' = pc /\ call = "sent" /\ call' = "failed"
        /\ UNCHANGED <<todo, changes, counters, said, took>>
    BY <1>17 DEF DbRefuses
  <2>2. ToCount' = ToCount /\ ToCount \in Int  BY <2>1, Sizes DEF ToCount
  <2> QED  BY <1>0, <1>00, <2>1, <2>2 DEF CountsSoFar, Uncounted
<1>18. CASE UNCHANGED vars
  BY <1>18 DEF vars, pass, CountsSoFar, ToCount, Uncounted
<1> QED  BY <1>1, <1>2, <1>3, <1>4, <1>5, <1>6, <1>7, <1>8, <1>9, <1>10, <1>11, <1>12, <1>13,
            <1>14, <1>15, <1>16, <1>17, <1>18 DEF Next

(* The inductive invariant: the counters of a pass lag behind its peers by *)
(* at most the one call that has come back and is not counted yet.         *)
THEOREM InvariantHolds == Spec => []IInv
<1>1. Init => IInv  BY InvInit
<1>2. IInv /\ [Next]_vars => IInv'
  BY TypeNext, HasWorkNext, CountsSoFarNext DEF IInv
<1> QED  BY <1>1, <1>2, PTL DEF Spec

(* SYNC_SUMMARY counts as updated only what broker and table took, and     *)
(* what they took and it does not count is logged as a failure.            *)
THEOREM SummaryIsTrueHolds == Spec => []SummaryIsTrue
<1>1. IInv => SummaryIsTrue
  <2> SUFFICES ASSUME TypeOK, HasWork, CountsSoFar, pc = "summary" PROVE SummaryIsTrue
    BY DEF IInv, SummaryIsTrue
  <2>1. ToCount = 0  BY Sizes DEF HasWork, ToCount
  <2>2. counters.inspected \in Nat /\ counters.updated \in Nat /\ counters.failed \in Nat
    BY Numbers DEF SyncCounters
  <2> QED  BY <2>1, <2>2 DEF CountsSoFar, Uncounted, SummaryIsTrue
<1> QED  BY <1>1, InvariantHolds, PTL
=============================================================================
