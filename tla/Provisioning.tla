---------------------------- MODULE Provisioning ----------------------------
(***************************************************************************)
(* What AD mode promises to those who enqueue operations with the broker,  *)
(* with the agent, its connections and its failures out of sight: an       *)
(* operation is carried out only after it was claimed, is reported done    *)
(* only after it was carried out in full, and what is reported stays.  One *)
(* reported failed may have been carried out, or may yet be.               *)
(***************************************************************************)
CONSTANT Op

VARIABLES
    status,      \* the state of each operation
    effect       \* the operations that have been carried out in full

Init ==
    /\ status = [o \in Op |-> "absent"]
    /\ effect = {}

Enqueue(o) ==
    /\ status[o] = "absent"
    /\ status' = [status EXCEPT ![o] = "pending"]
    /\ UNCHANGED effect

Claim(S) ==
    /\ \A o \in S : status[o] \in {"pending", "requeued"}
    /\ status' = [o \in Op |-> IF o \in S THEN "claimed" ELSE status[o]]
    /\ UNCHANGED effect

Requeue(o) ==
    /\ status[o] = "claimed"
    /\ status' = [status EXCEPT ![o] = "requeued"]
    /\ UNCHANGED effect

CarryOut(o) ==
    /\ status[o] \notin {"absent", "pending"}
    /\ effect' = effect \cup {o}
    /\ UNCHANGED status

Settle(o, ok) ==
    /\ status[o] = "claimed"
    /\ ok => o \in effect
    /\ status' = [status EXCEPT ![o] = IF ok THEN "done" ELSE "failed"]
    /\ UNCHANGED effect

Next ==
    \/ \E o \in Op : Enqueue(o) \/ Requeue(o) \/ CarryOut(o)
    \/ \E o \in Op, ok \in BOOLEAN : Settle(o, ok)
    \/ \E S \in SUBSET Op : Claim(S)

Spec == Init /\ [][Next]_<<status, effect>>
=============================================================================
