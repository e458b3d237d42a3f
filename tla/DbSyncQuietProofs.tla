------------------------- MODULE DbSyncQuietProofs -------------------------
(***************************************************************************)
(* DbSync for any table, field map and change feed: two passes that are    *)
(* left alone make the broker and the table agree.                         *)
(***************************************************************************)
EXTENDS DbSyncQuiet, DbSyncProofs

quietVars == <<vars, quiet>>

LEMMA QuietInitHolds == QuietInit => QuietSoFar
<1> SUFFICES ASSUME Init, quiet = 0 PROVE QuietSoFar  BY DEF QuietInit
<1>1. feed = << >>  BY DEF Init
<1> QED  BY <1>1 DEF QuietSoFar, FeedDrained, NothingToApply, OnlyRefused, SnapshotHolds, PushedSoFar

(* A disturbance leaves nothing to show, as long as there is no change     *)
(* feed where the agent reads none.                                        *)
LEMMA StartAgain ==
  ASSUME quiet' = 0, ~Writeback => feed' = << >>
  PROVE  QuietSoFar'
  BY DEF QuietSoFar, FeedDrained, NothingToApply, OnlyRefused, SnapshotHolds, PushedSoFar

(* What disturbs the passes.                                               *)
LEMMA DisturbancesSeen ==
  ASSUME IInv, QuietSoFar, QuietNext, Disturbed
  PROVE  QuietSoFar'
<1>1. quiet' = 0  BY DEF QuietNext, Watch
<1>2. Next  BY DEF QuietNext
<1>3. ASSUME ~Writeback PROVE feed' = << >>
  <2>1. feed = << >>  BY <1>3 DEF QuietSoFar, FeedDrained
  <2>2. ASSUME NEW k \in Key, NEW c \in Column, NEW v \in Value, EditRow(k, c, v)
        PROVE  feed' = << >>
    BY <2>1, <2>2 DEF EditRow
  <2>3. ASSUME NEW k \in Key \cup Stray, NEW fields \in FieldChange, EditRecord(k, fields)
        PROVE  feed' = << >>
    BY <1>3, <2>3 DEF EditRecord
  <2>4. ASSUME NEW r \in late, LateArrival(r) PROVE feed' = << >>
    BY <2>1, <2>4 DEF LateArrival, Ingest, Offer, Update
  <2>5. ASSUME NEW k \in Key, Push(k) PROVE feed' = << >>
    BY <2>1, <2>5 DEF Push
  <2>6. CASE PullRecords \/ Pushed \/ BrokerRejects \/ PushReturns
    BY <2>1, <2>6 DEF PullRecords, Pushed, BrokerRejects, PushReturns
  <2>7. CASE BrokerIngests \/ BrokerOffers \/ DbApplies
    BY <2>1, <2>7 DEF BrokerIngests, Ingest, BrokerOffers, Offer, DbApplies, Update
  <2>8. CASE BrokerHasNoFeed \/ FeedReturns \/ DbRefuses \/ ApplyReturns
    BY <2>1, <2>8 DEF BrokerHasNoFeed, FeedReturns, DbRefuses, ApplyReturns
  <2>9. CASE CallFails \/ PassEnds \/ PassFails
    BY <2>1, <2>9 DEF CallFails, PassEnds, PassFails
  <2> QED  BY <1>2, <2>2, <2>3, <2>4, <2>5, <2>6, <2>7, <2>8, <2>9 DEF Next
<1> QED  BY <1>1, <1>3, StartAgain

LEMMA FaultsDisturb ==
  ASSUME IInv, Fault
  PROVE  Disturbed
<1>1. faults \in Nat /\ faults' = faults + 1  BY Numbers DEF IInv, Fault
<1> QED  BY <1>1 DEF Disturbed

LEMMA OthersDisturb ==
  ASSUME IInv, Next,
         \/ \E k \in Key, c \in Column, v \in Value : EditRow(k, c, v)
         \/ \E k \in Key \cup Stray, fields \in FieldChange : EditRecord(k, fields)
         \/ \E r \in late : LateArrival(r)
  PROVE  Disturbed
<1>1. edits \in Nat  BY Numbers DEF IInv
<1>2. ASSUME NEW k \in Key, NEW c \in Column, NEW v \in Value, EditRow(k, c, v)
      PROVE  Disturbed
  BY <1>1, <1>2 DEF EditRow, Disturbed
<1>3. ASSUME NEW k \in Key \cup Stray, NEW fields \in FieldChange, EditRecord(k, fields)
      PROVE  Disturbed
  BY <1>1, <1>3 DEF EditRecord, Disturbed
<1>4. ASSUME NEW r \in late, LateArrival(r) PROVE Disturbed
  <2>1. r \in late /\ r \notin late'  BY <1>4 DEF LateArrival
  <2> QED  BY <2>1 DEF Disturbed
<1> QED  BY <1>2, <1>3, <1>4

(* The steps of a pass that nothing comes between.                         *)
Smooth ==
    \/ PullRecords \/ Pushed \/ \E k \in Key : Push(k)
    \/ BrokerIngests \/ BrokerRejects \/ PushReturns
    \/ BrokerOffers \/ FeedReturns \/ DbApplies \/ DbRefuses \/ ApplyReturns
    \/ PassEnds

LEMMA UndisturbedIsSmooth ==
  ASSUME IInv, QuietNext, ~Disturbed
  PROVE  /\ Smooth
         /\ UNCHANGED <<edits, late, faults>>
         /\ quiet' = IF Begins /\ quiet < 3 THEN quiet + 1 ELSE quiet
<1>1. BrokerHasNoFeed \/ CallFails \/ PassFails => Disturbed
  BY FaultsDisturb DEF BrokerHasNoFeed, CallFails, PassFails
<1> QED  BY <1>1, OthersDisturb DEF QuietNext, Watch, Next, Smooth, Disturbed

(* Only the beginning of a pass is counted.                                *)
LEMMA CountedOnce ==
  ASSUME IInv, QuietNext, ~Disturbed, pc # "idle"
  PROVE  quiet' = quiet
  BY UndisturbedIsSmooth DEF Begins

LEMMA PulledNow ==
  ASSUME IInv, PullRecords
  PROVE  \A k \in Key : records'[k] = Pulled(rows'[k])
  BY DEF PullRecords

LEMMA IdleBegins ==
  ASSUME IInv, QuietNext, ~Disturbed, pc = "idle"
  PROVE  PullRecords
<1>1. call = "none"  BY DEF IInv, HasWork
<1> QED  BY <1>1, UndisturbedIsSmooth
         DEF Smooth, Pushed, Push, BrokerIngests, BrokerRejects, PushReturns, BrokerOffers,
             FeedReturns, DbApplies, DbRefuses, ApplyReturns, PassEnds

LEMMA DrainedSmooth ==
  ASSUME IInv, QuietSoFar, QuietNext, ~Disturbed
  PROVE  FeedDrained'
<1>0. /\ quiet \in 0..3 /\ FeedDrained  BY DEF QuietSoFar
<1>1. CASE PullRecords
  <2>1. pc = "idle" /\ pc' = "push" /\ feed' = feed  BY <1>1 DEF PullRecords
  <2>2. quiet >= 1 => feed = << >>  BY <1>0, <2>1 DEF FeedDrained, FeedRead
  <2>3. quiet' >= 2 => quiet >= 1  BY <1>0, UndisturbedIsSmooth
  <2> QED  BY <1>0, <2>1, <2>2, <2>3 DEF FeedDrained, FeedRead
<1>2. CASE pc # "idle"
  <2>1. quiet' = quiet  BY <1>2, CountedOnce
  <2>2. CASE Pushed \/ \E k \in Key : Push(k)
    BY <1>0, <2>1, <2>2 DEF Pushed, Push, FeedDrained, FeedRead
  <2>3. CASE BrokerIngests \/ BrokerRejects \/ PushReturns
    BY <1>0, <2>1, <2>3 DEF BrokerIngests, Ingest, BrokerRejects, PushReturns, FeedDrained, FeedRead
  <2>4. CASE BrokerOffers
    <3>1. feed' = << >>  BY <2>4 DEF BrokerOffers, Offer
    <3> QED  BY <3>1 DEF FeedDrained
  <2>5. CASE FeedReturns \/ DbApplies \/ DbRefuses \/ ApplyReturns
    BY <1>0, <2>1, <2>5 DEF FeedReturns, DbApplies, Update, DbRefuses, ApplyReturns, FeedDrained, FeedRead
  <2>6. CASE PassEnds
    BY <1>0, <2>1, <2>6 DEF PassEnds, FeedDrained, FeedRead
  <2>7. ~PullRecords  BY <1>2 DEF PullRecords
  <2> QED  BY <2>2, <2>3, <2>4, <2>5, <2>6, <2>7, UndisturbedIsSmooth DEF Smooth
<1>3. pc = "idle" => PullRecords  BY IdleBegins
<1> QED  BY <1>1, <1>2, <1>3

LEMMA NothingSmooth ==
  ASSUME IInv, QuietSoFar, QuietNext, ~Disturbed
  PROVE  NothingToApply'
<1>0. quiet \in 0..3 /\ NothingToApply /\ FeedDrained  BY DEF QuietSoFar
<1>1. CASE PullRecords
  <2>1. pc' = "push"  BY <1>1 DEF PullRecords
  <2> QED  BY <2>1 DEF NothingToApply
<1>2. CASE pc # "idle"
  <2>1. quiet' = quiet  BY <1>2, CountedOnce
  <2>2. CASE Pushed
    BY <1>0, <2>1, <2>2 DEF Pushed, NothingToApply
  <2>3. CASE \E k \in Key : Push(k)
    BY <1>0, <2>1, <2>3 DEF Push, NothingToApply
  <2>4. CASE BrokerIngests \/ BrokerRejects \/ PushReturns
    BY <1>0, <2>1, <2>4 DEF BrokerIngests, BrokerRejects, PushReturns, NothingToApply
  <2>5. CASE BrokerOffers
    <3>1. pc' = "feed" /\ changes' = feed  BY <2>5 DEF BrokerOffers
    <3>2. quiet >= 2 => feed = << >>  BY <1>0 DEF FeedDrained
    <3> QED  BY <2>1, <3>1, <3>2 DEF NothingToApply
  <2>6. CASE FeedReturns
    BY <1>0, <2>1, <2>6 DEF FeedReturns, NothingToApply
  <2>7. CASE DbApplies \/ DbRefuses \/ ApplyReturns
    BY <1>0, <2>1, <2>7 DEF DbApplies, DbRefuses, ApplyReturns, NothingToApply
  <2>8. CASE PassEnds
    BY <2>8 DEF PassEnds, Reset, NothingToApply
  <2>9. ~PullRecords  BY <1>2 DEF PullRecords
  <2> QED  BY <2>2, <2>3, <2>4, <2>5, <2>6, <2>7, <2>8, <2>9, UndisturbedIsSmooth DEF Smooth
<1>3. pc = "idle" => PullRecords  BY IdleBegins
<1> QED  BY <1>1, <1>2, <1>3

LEMMA OnlyRefusedSmooth ==
  ASSUME IInv, QuietSoFar, QuietNext, ~Disturbed
  PROVE  OnlyRefused'
<1>0. quiet \in 0..3 /\ OnlyRefused  BY DEF QuietSoFar
<1>1. CASE PullRecords
  <2>1. call' = call /\ call = "none"  BY <1>1 DEF PullRecords, IInv, HasWork
  <2> QED  BY <2>1 DEF OnlyRefused
<1>2. CASE pc # "idle"
  <2>1. quiet' = quiet  BY <1>2, CountedOnce
  <2>2. CASE Pushed \/ \E k \in Key : Push(k)
    BY <2>2 DEF Pushed, Push, OnlyRefused
  <2>3. CASE BrokerIngests \/ PushReturns
    BY <2>3 DEF BrokerIngests, PushReturns, OnlyRefused
  <2>4. CASE BrokerRejects
    BY <2>4 DEF BrokerRejects, OnlyRefused
  <2>5. CASE BrokerOffers \/ FeedReturns \/ DbApplies \/ DbRefuses \/ ApplyReturns
    BY <2>5 DEF BrokerOffers, FeedReturns, DbApplies, DbRefuses, ApplyReturns, OnlyRefused
  <2>6. CASE PassEnds
    BY <2>6 DEF PassEnds, Reset, OnlyRefused
  <2>7. ~PullRecords  BY <1>2 DEF PullRecords
  <2> QED  BY <2>2, <2>3, <2>4, <2>5, <2>6, <2>7, UndisturbedIsSmooth DEF Smooth
<1> QED  BY <1>1, <1>2, IdleBegins

(* From the second pass on, a pass leaves the table as it is.              *)
LEMMA TableRests ==
  ASSUME IInv, QuietSoFar, QuietNext, ~Disturbed, quiet >= 2
  PROVE  rows' = rows
<1>1. pc # "apply"  BY DEF QuietSoFar, NothingToApply
<1>2. ~DbApplies  BY <1>1 DEF DbApplies
<1>3. CASE PullRecords \/ Pushed \/ \E k \in Key : Push(k)
  BY <1>3 DEF PullRecords, Pushed, Push
<1>4. CASE BrokerIngests \/ BrokerRejects \/ PushReturns
  BY <1>4 DEF BrokerIngests, Ingest, BrokerRejects, PushReturns
<1>5. CASE BrokerOffers \/ FeedReturns \/ DbRefuses \/ ApplyReturns \/ PassEnds
  BY <1>5 DEF BrokerOffers, Offer, FeedReturns, DbRefuses, ApplyReturns, PassEnds
<1> QED  BY <1>2, <1>3, <1>4, <1>5, UndisturbedIsSmooth DEF Smooth

(* The rows pulled are kept to the end of the pass.                        *)
LEMMA RecordsKept ==
  ASSUME IInv, QuietNext, ~Disturbed, pc # "idle"
  PROVE  records' = records \/ pc' = "idle"
<1>1. CASE Pushed \/ \E k \in Key : Push(k)
  BY <1>1 DEF Pushed, Push
<1>2. CASE BrokerIngests \/ BrokerRejects \/ PushReturns
  BY <1>2 DEF BrokerIngests, BrokerRejects, PushReturns
<1>3. CASE BrokerOffers \/ FeedReturns \/ DbApplies \/ DbRefuses \/ ApplyReturns
  BY <1>3 DEF BrokerOffers, FeedReturns, DbApplies, DbRefuses, ApplyReturns
<1>4. CASE PassEnds
  BY <1>4 DEF PassEnds, Reset
<1>5. ~PullRecords  BY DEF PullRecords
<1> QED  BY <1>1, <1>2, <1>3, <1>4, <1>5, UndisturbedIsSmooth DEF Smooth

LEMMA SnapshotSmooth ==
  ASSUME IInv, QuietSoFar, QuietNext, ~Disturbed
  PROVE  SnapshotHolds'
<1>0. quiet \in 0..3 /\ SnapshotHolds  BY DEF QuietSoFar
<1>1. CASE PullRecords
  <2>1. \A k \in Key : records'[k] = Pulled(rows[k]) /\ rows' = rows
    BY <1>1 DEF PullRecords
  <2> QED  BY <2>1 DEF SnapshotHolds
<1>2. CASE pc # "idle" /\ quiet >= 2
  <2>1. quiet' = quiet  BY <1>2, CountedOnce
  <2>2. rows' = rows /\ (records' = records \/ pc' = "idle")
    BY <1>2, TableRests, RecordsKept
  <2> QED  BY <1>0, <1>2, <2>1, <2>2 DEF SnapshotHolds
<1>3. CASE pc # "idle" /\ quiet < 2
  <2>1. quiet' = quiet  BY <1>3, CountedOnce
  <2> QED  BY <1>0, <1>3, <2>1 DEF SnapshotHolds
<1> QED  BY <1>0, <1>1, <1>2, <1>3, IdleBegins

LEMMA PushedSmooth ==
  ASSUME IInv, QuietSoFar, QuietNext, ~Disturbed
  PROVE  PushedSoFar'
<1>0. quiet \in 0..3 /\ PushedSoFar /\ SnapshotHolds /\ OnlyRefused  BY DEF QuietSoFar
<1> SUFFICES ASSUME quiet' >= 2, NEW j \in Key \ Unwelcome,
                    quiet' = 2 /\ pc' = "push" => Delivered(j)'
             PROVE  Agree(j)'
  BY DEF PushedSoFar
<1>1. CASE PullRecords
  <2>1. /\ pc = "idle" /\ pc' = "push" /\ todo' = Key /\ call' = "none"
        /\ UNCHANGED <<rows, known>>
    BY <1>1 DEF PullRecords, IInv, HasWork
  <2>2. quiet' = 3
    <3>1. quiet' \in {2, 3}  BY <1>0, UndisturbedIsSmooth
    <3> QED  BY <2>1, <3>1 DEF Delivered
  <2>3. quiet >= 2  BY <1>0, <2>2, UndisturbedIsSmooth
  <2> QED  BY <1>0, <2>1, <2>3 DEF PushedSoFar, Agree
<1>2. CASE pc # "idle"
  <2>0. quiet' = quiet  BY <1>2, CountedOnce
  <2>1. rows' = rows  BY <2>0, TableRests
  <2>2. (quiet = 2 /\ pc = "push" => Delivered(j)) => Agree(j)
    BY <1>0, <2>0 DEF PushedSoFar
  <2>3. CASE \E k \in Key : Push(k)
    BY <2>0, <2>2, <2>3 DEF Push, Delivered, Agree
  <2>4. CASE Pushed
    BY <2>0, <2>2, <2>4 DEF Pushed, Delivered, Agree
  <2>5. CASE BrokerIngests
    <3>1. /\ pc = "push" /\ pc' = "push" /\ call = "sent" /\ todo' = todo /\ current' = current
          /\ known' = [known EXCEPT ![current] = records[current]]
      BY <2>5 DEF BrokerIngests, Ingest
    <3>2. CASE j = current
      <4>1. known'[j] = records[j]  BY <3>1, <3>2 DEF IInv, TypeOK
      <4>2. records[j] = Pulled(rows[j])  BY <1>0, <1>2, <2>0 DEF SnapshotHolds
      <4> QED  BY <2>1, <4>1, <4>2 DEF Agree
    <3>3. CASE j # current
      <4>1. known'[j] = known[j]  BY <3>1, <3>3 DEF IInv, TypeOK
      <4>2. quiet = 2 => j \notin todo  BY <2>0, <3>1, <3>3 DEF Delivered
      <4> QED  BY <2>1, <2>2, <4>1, <4>2 DEF Agree, Delivered
    <3> QED  BY <3>2, <3>3
  <2>6. CASE BrokerRejects
    BY <2>0, <2>2, <2>6 DEF BrokerRejects, Delivered, Agree
  <2>7. CASE PushReturns
    <3>1. /\ pc = "push" /\ pc' = "push" /\ call \in {"ok", "failed"} /\ call' = "none"
          /\ todo' = todo \ {current} /\ known' = known
      BY <2>7 DEF PushReturns, StillToPush
    <3>2. j = current => call = "ok"  BY <1>0, <2>0, <3>1 DEF OnlyRefused
    <3>3. Delivered(j)' => Delivered(j)  BY <3>1, <3>2 DEF Delivered
    <3> QED  BY <2>0, <2>1, <2>2, <3>1, <3>3 DEF Agree
  <2>8. CASE BrokerOffers \/ FeedReturns \/ DbApplies
    <3>1. pc \in {"feed", "apply"} /\ known' = known
      BY <2>8 DEF BrokerOffers, Offer, FeedReturns, DbApplies, Update
    <3> QED  BY <2>1, <2>2, <3>1 DEF Agree
  <2>9. CASE DbRefuses \/ ApplyReturns \/ PassEnds
    <3>1. pc \in {"apply", "summary"} /\ known' = known
      BY <2>9 DEF DbRefuses, ApplyReturns, PassEnds
    <3> QED  BY <2>1, <2>2, <3>1 DEF Agree
  <2>10. ~PullRecords  BY <1>2 DEF PullRecords
  <2> QED  BY <2>3, <2>4, <2>5, <2>6, <2>7, <2>8, <2>9, <2>10, UndisturbedIsSmooth DEF Smooth
<1> QED  BY <1>1, <1>2, IdleBegins

LEMMA QuietNextHolds == IInv /\ QuietSoFar /\ [QuietNext]_quietVars => QuietSoFar'
<1> SUFFICES ASSUME IInv, QuietSoFar, [QuietNext]_quietVars PROVE QuietSoFar'  OBVIOUS
<1>1. CASE QuietNext /\ Disturbed
  BY <1>1, DisturbancesSeen
<1>2. CASE QuietNext /\ ~Disturbed
  <2>1. quiet' \in 0..3  BY <1>2, UndisturbedIsSmooth DEF QuietSoFar
  <2> QED  BY <1>2, <2>1, DrainedSmooth, NothingSmooth, OnlyRefusedSmooth, SnapshotSmooth,
              PushedSmooth DEF QuietSoFar
<1>3. CASE UNCHANGED quietVars
  <2>1. UNCHANGED <<pc, call, records, todo, current, changes, rows, known, feed, quiet>>
    BY <1>3 DEF quietVars, vars, pass
  <2> QED  BY <2>1 DEF QuietSoFar, FeedDrained, FeedRead, NothingToApply, OnlyRefused, SnapshotHolds,
                       PushedSoFar, Delivered, Agree
<1> QED  BY <1>1, <1>2, <1>3

(* Counting the passes does not change what they do.                       *)
LEMMA QuietIsDbSync == QuietSpec => Spec
<1>1. QuietInit => Init  BY DEF QuietInit
<1>2. [QuietNext]_quietVars => [Next]_vars  BY DEF QuietNext, quietVars
<1> QED  BY <1>1, <1>2, PTL DEF QuietSpec, Spec, quietVars

(* The inductive invariant: the first undisturbed pass empties the change  *)
(* feed, so the table rests while the second is pushed, and what the       *)
(* broker has been sent is what the table still holds.                     *)
THEOREM QuietInvariantHolds == QuietSpec => []QuietInv
<1>1. QuietInit => QuietSoFar  BY QuietInitHolds
<1>2. IInv /\ QuietSoFar /\ [QuietNext]_quietVars => QuietSoFar'  BY QuietNextHolds
<1>3. QuietSpec => []IInv  BY QuietIsDbSync, InvariantHolds, PTL
<1>4. IInv /\ QuietSoFar => QuietInv  BY DEF QuietInv
<1> QED  BY <1>1, <1>2, <1>3, <1>4, PTL DEF QuietSpec, quietVars

(* Broker and table agree once two passes in a row have been left alone,   *)
(* whatever was edited, failed or arrived late before them.                *)
THEOREM TwoPassesHealHolds == QuietSpec => []TwoPassesHeal
<1>1. QuietInv => TwoPassesHeal
  <2> SUFFICES ASSUME QuietInv, quiet = 3 \/ (quiet = 2 /\ pc # "push"),
                      NEW k \in Key \ Unwelcome
               PROVE  Agree(k)
    BY DEF TwoPassesHeal
  <2> QED  BY DEF QuietInv, QuietSoFar, PushedSoFar
<1> QED  BY <1>1, QuietInvariantHolds, PTL
=============================================================================
