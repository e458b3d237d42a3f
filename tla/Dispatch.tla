------------------------------ MODULE Dispatch ------------------------------
(***************************************************************************)
(* What a drain pass promises for the batch it has polled, with hosts,     *)
(* failover and connections out of sight: the pass gives every operation   *)
(* one verdict, for good, whatever becomes of the others; what it carries  *)
(* out is carried out in the directory the operation is meant for; it is   *)
(* over only when every operation has its verdict.                         *)
(***************************************************************************)
CONSTANTS
    Op,          \* the operations of the batch
    Own,         \* the agent's own directory
    Nowhere      \* no directory

VARIABLES
    home,        \* the directory each operation is meant for, or Nowhere
    verdict,     \* what came of each operation
    at,          \* the directory it was sent to, or Nowhere
    over         \* is the pass over?

Init ==
    /\ verdict = [o \in Op |-> "none"] /\ at = [o \in Op |-> Nowhere]
    /\ over = FALSE

Settle(o, v, d) ==
    /\ ~over /\ verdict[o] = "none"
    /\ verdict' = [verdict EXCEPT ![o] = v] /\ at' = [at EXCEPT ![o] = d]
    /\ UNCHANGED <<home, over>>

(* The operation reaches its directory, and is carried out or fails there. *)
Serve(o) == home[o] # Nowhere /\ \E v \in {"ok", "failed"} : Settle(o, v, home[o])

(* It is not meant for any, or its directory cannot be reached; the        *)
(* agent's own has been reached before the pass began.                     *)
Refuse(o) ==
    \/ home[o] = Nowhere /\ Settle(o, "failed", Nowhere)
    \/ home[o] \notin {Own, Nowhere} /\ Settle(o, "unreachable", Nowhere)

Close ==
    /\ ~over /\ over' = TRUE
    /\ \A o \in Op : verdict[o] # "none"
    /\ UNCHANGED <<home, verdict, at>>

Next == (\E o \in Op : Serve(o) \/ Refuse(o)) \/ Close

Spec == Init /\ [][Next]_<<home, verdict, at, over>>
=============================================================================
