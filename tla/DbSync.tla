------------------------------- MODULE DbSync -------------------------------
(***************************************************************************)
(* DB mode: one pass after the other of the bi-directional field sync      *)
(* (src/src/modes/db.rs) between a table (src/src/connectors/db.rs) and    *)
(* the broker (src/src/server.rs).                                         *)
(*                                                                         *)
(* A pass pushes every row of the table to the broker, then pulls the      *)
(* broker's changes and writes them to the table.  The agent keeps nothing *)
(* from one pass to the next, so a pass that is dropped by a stop, ended   *)
(* by an error or cut off by a crash all look the same: the next one       *)
(* begins.  call is the request the agent waits for; one it stops waiting  *)
(* for may still reach its peer (late).                                    *)
(*                                                                         *)
(* Table and broker are external, and both are edited by others.  Rows are *)
(* neither added nor removed, and no edit touches the key of a row.        *)
(* rows holds what col_to_json reads; a write binds a text, of which a     *)
(* column makes what its type says, or which the database refuses.         *)
(***************************************************************************)
EXTENDS Integers, Sequences, FiniteSets

CONSTANTS
    Key,         \* keys of the rows
    Stray,       \* keys the broker may name that no row has
    Column,      \* columns of the table, numbered in the order of their names
    Field,       \* canonical field names
    Fields,      \* [db.fields]: mapped column -> canonical field
    Value,       \* contents of a column or a field
    Reading,     \* per column: a text written to it -> what it then reads as
    Unwelcome,   \* keys of rows the broker never accepts
    Writeback,   \* [db] writeback, with a writeback_pull_path
    MaxEdits,    \* bound: edits of the table and the broker together
    MaxFaults    \* bound: passes and requests that fail, together

ASSUME KeyAssumption ==
    IsFiniteSet(Key) /\ Key # {} /\ Unwelcome \subseteq Key /\ Key \cap Stray = {}
ASSUME ColumnAssumption ==
    /\ Column \subseteq Nat
    /\ \A C \in (SUBSET Column) \ {{}} : \E c \in C : \A d \in C : d <= c
ASSUME FieldsAssumption ==
    DOMAIN Fields \subseteq Column /\ Fields \in [DOMAIN Fields -> Field]
ASSUME ReadingAssumption ==
    \A c \in Column : \A v \in DOMAIN Reading[c] : Reading[c][v] \in Value
ASSUME SwitchAssumption ==
    Writeback \in BOOLEAN /\ MaxEdits \in Nat /\ MaxFaults \in Nat

VARIABLES
    pc,                      \* what the agent is doing
    call,                    \* the request it waits for
    records, todo, current,  \* the rows pulled, those still to push, the one sent
    changes,                 \* the changes pulled that are still to be applied
    counters,                \* SyncCounters of this pass
    said,                    \* what this pass appended to the audit log
    took,                    \* history: what the peers did for this pass
    rows,                    \* the table
    known, feed,             \* the broker: its records, its change feed
    late,                    \* abandoned requests that may still arrive
    edits, faults            \* edits and faults so far

pass == <<pc, call, records, todo, current, changes, counters, said, took>>
vars == <<pass, rows, known, feed, late, edits, faults>>
-----------------------------------------------------------------------------
(* The field map.  Two columns may be mapped to one field.                 *)

Mapped == {Fields[c] : c \in DOMAIN Fields}
ColumnsOf(f) == {c \in DOMAIN Fields : Fields[c] = f}

(* pull_records inserts the columns of a row one by one: the last column   *)
(* of a field is the one that counts.                                      *)
LastOf(f) == CHOOSE c \in ColumnsOf(f) : \A d \in ColumnsOf(f) : d <= c
Pulled(row) == [f \in Mapped |-> row[LastOf(f)]]

(* A slip: the first column of a field is taken.                           *)
FirstOf(f) == CHOOSE c \in ColumnsOf(f) : \A d \in ColumnsOf(f) : c <= d
FirstWritable(fields) ==
    [c \in {FirstOf(f) : f \in DOMAIN fields \cap Mapped} |-> fields[Fields[c]]]
(* apply_writeback inverts the map column by column, so that again the     *)
(* last column of a field counts, and ignores fields that are not mapped.  *)
Writable(fields) == [c \in {LastOf(f) : f \in DOMAIN fields \cap Mapped} |-> fields[Fields[c]]]

Written(row, set) ==
    [c \in DOMAIN row \cup DOMAIN set |->
        IF c \in DOMAIN set THEN Reading[c][set[c]] ELSE row[c]]

(* The fields of a change: some fields with a new value each.              *)
FieldChange == UNION {[F -> Value] : F \in (SUBSET Field) \ {{}}}
Change == [key : Key \cup Stray, fields : FieldChange]
NoRecord == << >>
AnyKey == CHOOSE k \in Key : TRUE

SyncCounters == [inspected : Nat, updated : Nat, failed : Nat]
NoCounts == [inspected |-> 0, updated |-> 0, failed |-> 0]
(* DB_PUSH_FAIL and DB_WRITEBACK_FAIL records; "applied" of DB_WRITEBACK.  *)
Said == [fails : Nat, applied : Nat]
NothingSaid == [fails |-> 0, applied |-> 0]
Took == [pushed : Nat, written : Nat]
NothingTaken == [pushed |-> 0, written |-> 0]

Init ==
    /\ pc = "idle" /\ call = "none"
    /\ records = << >> /\ todo = {} /\ current = AnyKey /\ changes = << >>
    /\ counters = NoCounts /\ said = NothingSaid /\ took = NothingTaken
    /\ \E v \in Value : rows = [k \in Key |-> [c \in Column |-> v]]
    /\ known = [k \in Key |-> NoRecord] /\ feed = << >>
    /\ late = {} /\ edits = 0 /\ faults = 0

Fault == faults < MaxFaults /\ faults' = faults + 1
-----------------------------------------------------------------------------
(* What others do.                                                         *)

(* Someone edits a row.                                                    *)
EditRow(k, c, v) ==
    /\ edits < MaxEdits /\ edits' = edits + 1
    /\ rows' = [rows EXCEPT ![k][c] = v]
    /\ UNCHANGED <<pass, known, feed, late, faults>>

(* Someone edits a record at the broker; the change is queued for the      *)
(* agent.  The broker may also have changes for keys the table has not.    *)
EditRecord(k, fields) ==
    /\ Writeback
    /\ edits < MaxEdits /\ edits' = edits + 1
    /\ k \in Key => known[k] # NoRecord
    /\ known' = IF k \notin Key THEN known
                ELSE [known EXCEPT ![k] =
                        [f \in Mapped |-> IF f \in DOMAIN fields THEN fields[f] ELSE @[f]]]
    /\ feed' = Append(feed, [key |-> k, fields |-> fields])
    /\ UNCHANGED <<pass, rows, late, faults>>
-----------------------------------------------------------------------------
(* What a request does, whether or not somebody waits for the answer.      *)

Ingest(k, record) ==
    /\ k \notin Unwelcome
    /\ known' = [known EXCEPT ![k] = record]
    /\ UNCHANGED <<rows, feed>>

(* A pull takes what is pending: nothing is acknowledged afterwards.       *)
Offer ==
    /\ feed' = << >>
    /\ UNCHANGED <<rows, known>>

Matches(change) == change.key \in Key /\ DOMAIN Writable(change.fields) # {}

(* A text that cannot become a value of its column.                        *)
Refuses(change) ==
    LET set == Writable(change.fields)
    IN  \E c \in DOMAIN set : set[c] \notin DOMAIN Reading[c]

(* UPDATE ... SET ... WHERE key_column = key.                              *)
Update(change) ==
    /\ rows' = IF Matches(change) /\ ~Refuses(change)
               THEN [rows EXCEPT ![change.key] = Written(@, Writable(change.fields))]
               ELSE rows
    /\ UNCHANGED <<known, feed>>

(* A request given up on bears the number of the fault that let it go, so  *)
(* that two that ask for the same are two.                                 *)
Request ==
    [to : {"push"}, no : Nat, key : Key, record : [Mapped -> Value]]
        \cup [to : {"feed"}, no : Nat] \cup [to : {"apply"}, no : Nat, change : Change]

Outstanding ==
    IF call # "sent" THEN {}
    ELSE IF pc = "push"
    THEN {[to |-> "push", no |-> faults', key |-> current, record |-> records[current]]}
    ELSE IF pc = "feed" THEN {[to |-> "feed", no |-> faults']}
    ELSE {[to |-> "apply", no |-> faults', change |-> Head(changes)]}

LateArrival(r) ==
    /\ r \in late
    /\ late' = late \ {r}
    /\ \/ r.to = "push" /\ Ingest(r.key, r.record)
       \/ r.to = "feed" /\ Offer
       \/ r.to = "apply" /\ Update(r.change)
    /\ UNCHANGED <<pass, edits, faults>>
-----------------------------------------------------------------------------
(* Outbound: the table to the broker.                                      *)

(* connect and pull_records: a snapshot of the mapped columns.             *)
PullRecords ==
    /\ pc = "idle"
    /\ pc' = "push"
    /\ records' = [k \in Key |-> Pulled(rows[k])]
    /\ todo' = Key
    /\ UNCHANGED <<call, current, changes, counters, said, took, rows, known, feed,
                   late, edits, faults>>

(* push_record, in the order in which the database returned the rows.      *)
Push(k) ==
    /\ pc = "push" /\ call = "none" /\ k \in todo
    /\ call' = "sent" /\ current' = k
    /\ UNCHANGED <<pc, records, todo, changes, counters, said, took, rows, known, feed,
                   late, edits, faults>>

BrokerIngests ==
    /\ pc = "push" /\ call = "sent"
    /\ Ingest(current, records[current])
    /\ call' = "ok"
    /\ took' = [took EXCEPT !.pushed = @ + 1]
    /\ UNCHANGED <<pc, records, todo, current, changes, counters, said, late, edits, faults>>

BrokerRejects ==
    /\ pc = "push" /\ call = "sent" /\ current \in Unwelcome
    /\ call' = "failed"
    /\ UNCHANGED <<pc, records, todo, current, changes, counters, said, took, rows, known,
                   feed, late, edits, faults>>

(* A slip: the first row that is refused ends the pushing.                 *)
StopAtRefusal == IF call = "ok" THEN todo \ {current} ELSE {}

(* A row that is refused does not keep the others from being pushed.       *)
StillToPush == todo \ {current}

(* push_record has returned.  A failure, and only a failure, is logged.    *)
PushReturns ==
    /\ pc = "push" /\ call \in {"ok", "failed"}
    /\ counters' = [inspected |-> counters.inspected + 1,
                    updated |-> counters.updated + (IF call = "ok" THEN 1 ELSE 0),
                    failed |-> counters.failed + (IF call = "ok" THEN 0 ELSE 1)]
    /\ said' = [said EXCEPT !.fails = @ + (IF call = "ok" THEN 0 ELSE 1)]
    /\ todo' = StillToPush
    /\ call' = "none"
    /\ UNCHANGED <<pc, records, current, changes, took, rows, known, feed, late, edits, faults>>

(* DB_PULL; then the change feed, if there is one to ask.                  *)
Pushed ==
    /\ pc = "push" /\ call = "none" /\ todo = {}
    /\ IF Writeback THEN pc' = "feed" /\ call' = "sent"
                    ELSE pc' = "summary" /\ UNCHANGED call
    /\ UNCHANGED <<records, todo, current, changes, counters, said, took, rows, known, feed,
                   late, edits, faults>>
-----------------------------------------------------------------------------
(* Inbound: the broker to the table.                                       *)

BrokerOffers ==
    /\ pc = "feed" /\ call = "sent"
    /\ Offer
    /\ changes' = feed
    /\ call' = "ok"
    /\ UNCHANGED <<pc, records, todo, current, counters, said, took, late, edits, faults>>

(* A 404 counts as an empty feed; any other error fails the pass.          *)
BrokerHasNoFeed ==
    /\ pc = "feed" /\ call = "sent"
    /\ Fault
    /\ changes' = << >>
    /\ call' = "ok"
    /\ UNCHANGED <<pc, records, todo, current, counters, said, took, rows, known, feed,
                   late, edits>>

(* pull_writeback has returned: DB_WRITEBACK will give the number of       *)
(* changes as "applied".                                                   *)
FeedReturns ==
    /\ pc = "feed" /\ call = "ok"
    /\ said' = [said EXCEPT !.applied = Len(changes)]
    /\ IF changes = << >> THEN pc' = "summary" /\ call' = "none"
                          ELSE pc' = "apply" /\ call' = "sent"
    /\ UNCHANGED <<records, todo, current, changes, counters, took, rows, known, feed,
                   late, edits, faults>>

(* A change without a mapped field is not sent at all; the outcome is that *)
(* of an UPDATE that finds no row.                                         *)
DbApplies ==
    /\ pc = "apply" /\ call = "sent"
    /\ Matches(Head(changes)) => ~Refuses(Head(changes))
    /\ Update(Head(changes))
    /\ call' = IF Matches(Head(changes)) THEN "ok" ELSE "unmatched"
    /\ took' = [took EXCEPT !.written = @ + (IF Matches(Head(changes)) THEN 1 ELSE 0)]
    /\ UNCHANGED <<pc, records, todo, current, changes, counters, said, late, edits, faults>>

(* The database makes nothing of a text; it may not look for the row.      *)
DbRefuses ==
    /\ pc = "apply" /\ call = "sent" /\ Refuses(Head(changes))
    /\ call' = "failed"
    /\ UNCHANGED <<pc, records, todo, current, changes, counters, said, took, rows, known,
                   feed, late, edits, faults>>

(* A slip: a change that found no row counts as an update.                 *)
AnyOkIsUpdated == call \in {"ok", "unmatched"}

CountsAsUpdated == call = "ok"

(* apply_writeback has returned.                                           *)
ApplyReturns ==
    /\ pc = "apply" /\ call \in {"ok", "unmatched", "failed"}
    /\ LET failed == IF call = "failed" THEN 1 ELSE 0
       IN  /\ counters' = [inspected |-> counters.inspected + 1,
                           updated |-> counters.updated + (IF CountsAsUpdated THEN 1 ELSE 0),
                           failed |-> counters.failed + failed]
           /\ said' = [said EXCEPT !.fails = @ + failed]
    /\ changes' = Tail(changes)
    /\ IF changes' = << >> THEN pc' = "summary" /\ call' = "none"
                           ELSE call' = "sent" /\ UNCHANGED pc
    /\ UNCHANGED <<records, todo, current, took, rows, known, feed, late, edits, faults>>
-----------------------------------------------------------------------------
Reset ==
    /\ pc' = "idle" /\ call' = "none"
    /\ records' = << >> /\ todo' = {} /\ current' = AnyKey /\ changes' = << >>
    /\ counters' = NoCounts /\ said' = NothingSaid /\ took' = NothingTaken

(* A push or an UPDATE fails on its way: the request may still arrive, or  *)
(* it has been carried out and the answer is lost.                         *)
CallFails ==
    /\ pc \in {"push", "apply"} /\ call \in {"sent", "ok", "unmatched"}
    /\ pc = "apply" => DOMAIN Writable(Head(changes).fields) # {}
    /\ Fault
    /\ call' = "failed"
    /\ late' = late \cup Outstanding
    /\ UNCHANGED <<pc, records, todo, current, changes, counters, said, took, rows, known,
                   feed, edits>>

(* SYNC_SUMMARY, the report to the broker, and the poll interval.          *)
PassEnds ==
    /\ pc = "summary"
    /\ Reset
    /\ UNCHANGED <<rows, known, feed, late, edits, faults>>

(* The pass is dropped, returns an error, or the process dies.             *)
PassFails ==
    /\ pc # "idle"
    /\ Fault
    /\ Reset
    /\ late' = late \cup Outstanding
    /\ UNCHANGED <<rows, known, feed, edits>>

Next ==
    \/ \E k \in Key, c \in Column, v \in Value : EditRow(k, c, v)
    \/ \E k \in Key \cup Stray, fields \in FieldChange : EditRecord(k, fields)
    \/ \E r \in late : LateArrival(r)
    \/ PullRecords \/ Pushed \/ \E k \in Key : Push(k)
    \/ BrokerIngests \/ BrokerRejects \/ PushReturns
    \/ BrokerOffers \/ BrokerHasNoFeed \/ FeedReturns
    \/ DbApplies \/ DbRefuses \/ ApplyReturns \/ CallFails
    \/ PassEnds \/ PassFails

Spec == Init /\ [][Next]_vars

(* Passes go on: the agent is run, and its peers answer.                   *)
Progress ==
    \/ PullRecords \/ Pushed \/ \E k \in Key : Push(k)
    \/ BrokerIngests \/ BrokerRejects \/ PushReturns
    \/ BrokerOffers \/ FeedReturns \/ DbApplies \/ DbRefuses \/ ApplyReturns
    \/ PassEnds
FairSpec == Spec /\ WF_vars(Progress)
-----------------------------------------------------------------------------
(* Every variable holds a value of the kind the code gives it: no write    *)
(* gives the table a column it has not, and while the table is written     *)
(* there is a change to write.                                             *)
TypeOK ==
    /\ pc \in {"idle", "push", "feed", "apply", "summary"}
    /\ call \in {"none", "sent", "ok", "unmatched", "failed"}
    /\ call = "sent" => pc \in {"push", "feed", "apply"}
    /\ records \in [Key -> [Mapped -> Value]] \cup {<< >>}
    /\ pc = "push" => records # << >>
    /\ todo \subseteq Key /\ current \in Key
    /\ changes \in Seq(Change) /\ (pc = "apply" => changes # << >>)
    /\ counters \in SyncCounters /\ said \in Said /\ took \in Took
    /\ rows \in [Key -> [Column -> Value]]
    /\ known \in [Key -> [Mapped -> Value] \cup {NoRecord}]
    /\ feed \in Seq(Change) /\ late \subseteq Request
    /\ edits \in 0..MaxEdits /\ faults \in 0..MaxFaults

(* The summary of a pass is true of its peers: it counts as updated only   *)
(* what they took, what it leaves out failed, and each failure is in the   *)
(* log.                                                                    *)
SummaryIsTrue ==
    pc = "summary" =>
        LET taken == took.pushed + took.written
        IN  /\ counters.updated <= taken
            /\ taken <= counters.updated + counters.failed
            /\ counters.failed = said.fails
            /\ counters.inspected = Cardinality(Key) + said.applied

(* What is written back is what the next pull reads, as far as the type of *)
(* its column keeps it: a change applied to a row sets exactly the fields  *)
(* it names in the record of that row, even where two columns are mapped   *)
(* to one field, and touches no other row and no column outside the map.   *)
ReadsBack(change) ==
    \A k \in Key :
        /\ \A f \in Mapped :
              Pulled(rows'[k])[f] = IF k = change.key /\ f \in DOMAIN change.fields
                                    THEN Reading[LastOf(f)][change.fields[f]]
                                    ELSE Pulled(rows[k])[f]
        /\ \A c \in Column \ DOMAIN Fields : rows'[k][c] = rows[k][c]

WritesRoundTrip == [][DbApplies => ReadsBack(Head(changes))]_vars

(* Broker and table come to agree, once both are left alone, on every row  *)
(* the broker accepts: pushes that failed, were lost or arrived out of     *)
(* order are healed by the next pass, and a row it never accepts does not  *)
(* hold up the others.                                                     *)
Converges == \A k \in Key \ Unwelcome : <>[](known[k] = Pulled(rows[k]))
-----------------------------------------------------------------------------
(* Why SummaryIsTrue is inductive: the counters lag behind the peers by    *)
(* the one call that has come back and is not counted yet.                 *)
HasWork ==
    /\ pc = "idle" => call = "none"
    /\ pc = "push" /\ call # "none" => current \in todo
    /\ pc \in {"feed", "apply", "summary"} => todo = {}
    /\ pc = "apply" => call # "none"
    /\ pc \in {"idle", "push", "feed"} => said.applied = 0

Uncounted(calls) == IF pc \in {"push", "apply"} /\ call \in calls THEN 1 ELSE 0
ToCount == Cardinality(todo) + IF pc = "apply" THEN Len(changes) ELSE 0

CountsSoFar ==
    IF pc = "idle" THEN counters = NoCounts /\ said = NothingSaid /\ took = NothingTaken
    ELSE LET taken == took.pushed + took.written
         IN  /\ counters.updated + Uncounted({"ok"}) <= taken
             /\ taken <= counters.updated + counters.failed + Uncounted({"ok", "failed"})
             /\ counters.failed = said.fails
             /\ counters.inspected + ToCount = Cardinality(Key) + said.applied

IInv == TypeOK /\ HasWork /\ CountsSoFar
=============================================================================
