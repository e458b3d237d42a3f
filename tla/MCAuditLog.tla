----------------------------- MODULE MCAuditLog -----------------------------
(***************************************************************************)
(* AuditLog for TLC.  Each writer stands for one run of the agent process. *)
(***************************************************************************)
EXTENDS AuditLog, TLC

(* Processes are interchangeable: no definition compares two writers       *)
(* except for equality.                                                    *)
WriterSymmetry == Permutations(Writer)

(* Digests range over sequences of sequence numbers and bodies: TLC needs  *)
(* no more than membership, so TypeOK is checked as it is written.         *)
=============================================================================
