------------------------------ MODULE MCDbSync ------------------------------
(***************************************************************************)
(* Instances of DbSync, with its count of quiet passes, for TLC.           *)
(***************************************************************************)
EXTENDS DbSyncQuiet, TLC

CONSTANTS mail, note, v1, v2

(* Two columns mapped to one field.                                        *)
MCFields == 1 :> mail @@ 2 :> mail

(* Text columns, but for column 2: it reads one text as something else and *)
(* takes no other.                                                         *)
MCReading == 1 :> (v1 :> v1 @@ v2 :> v2) @@ 2 :> (v1 :> v2) @@ 3 :> (v1 :> v1 @@ v2 :> v2)
=============================================================================
