---------------------------- MODULE DbSyncQuiet ----------------------------
(***************************************************************************)
(* How long table and broker take to agree (src/src/modes/db.rs): DbSync   *)
(* with a history variable that counts the passes begun since anything     *)
(* last came between them, an edit, a fault or a late request.             *)
(***************************************************************************)
EXTENDS DbSync

VARIABLE quiet    \* history: passes begun undisturbed, counted up to three

Disturbed == <<edits, late, faults>>' # <<edits, late, faults>>
Begins == pc = "idle" /\ pc' = "push"

Watch == quiet' = IF Disturbed THEN 0
                  ELSE IF Begins /\ quiet < 3 THEN quiet + 1 ELSE quiet

QuietInit == Init /\ quiet = 0
QuietNext == Next /\ Watch
QuietSpec == QuietInit /\ [][QuietNext]_<<vars, quiet>>
QuietFairSpec == QuietSpec /\ WF_vars(Progress)
-----------------------------------------------------------------------------
Agree(k) == known[k] = Pulled(rows[k])

(* Two passes in a row heal everything: whatever edits, failures and late  *)
(* requests have done to the peers, once the second pass they leave alone  *)
(* has pushed its rows the broker and the table agree on every row the     *)
(* broker accepts, and the passes that follow do not part them again.  The *)
(* first of the two is not enough: it pushes what the table held before    *)
(* the broker's own changes were written to it.                            *)
TwoPassesHeal ==
    quiet = 3 \/ (quiet = 2 /\ pc # "push") => \A k \in Key \ Unwelcome : Agree(k)
-----------------------------------------------------------------------------
(* Why TwoPassesHeal is inductive: the first pass empties the change feed, *)
(* so that the second pushes what the table keeps.                         *)

(* The feed has been read by this pass, or by the one that has ended.      *)
FeedRead == pc \in {"apply", "summary", "idle"} \/ (pc = "feed" /\ call = "ok")

FeedDrained ==
    /\ ~Writeback => feed = << >>
    /\ quiet = 1 /\ FeedRead => feed = << >>
    /\ quiet >= 2 => feed = << >>

(* Then there is nothing to apply.                                         *)
NothingToApply ==
    quiet >= 2 => /\ pc # "apply"
                  /\ pc = "feed" /\ call = "ok" => changes = << >>

(* Only the broker's refusal fails a push of an undisturbed pass.          *)
OnlyRefused == quiet >= 1 /\ pc = "push" /\ call = "failed" => current \in Unwelcome

Delivered(k) == k \notin todo \/ (k = current /\ call = "ok")

SnapshotHolds ==
    quiet >= 2 /\ pc # "idle" => \A k \in Key : records[k] = Pulled(rows[k])

PushedSoFar ==
    quiet >= 2 => \A k \in Key \ Unwelcome : (quiet = 2 /\ pc = "push" => Delivered(k)) => Agree(k)

QuietSoFar ==
    /\ quiet \in 0..3
    /\ FeedDrained
    /\ NothingToApply
    /\ OnlyRefused
    /\ SnapshotHolds
    /\ PushedSoFar

QuietInv == IInv /\ QuietSoFar
=============================================================================
