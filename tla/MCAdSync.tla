------------------------------ MODULE MCAdSync ------------------------------
(***************************************************************************)
(* Instances of AdSync for TLC.                                            *)
(***************************************************************************)
EXTENDS AdSync, TLC

CONSTANTS create, enable, disable, test, bad, alice, bob

(* A creation with a password, a second operation on the same account, and *)
(* operations of the other shapes: two requests, one request, none.        *)
MCKindOf == [o \in Op |->
    CASE o = create  -> "CREATE_ACCOUNT"
      [] o = enable  -> "ENABLE_ACCOUNT"
      [] o = disable -> "DISABLE_ACCOUNT"
      [] o = test    -> "TEST_CONNECTION"
      [] OTHER       -> "UNREADABLE"]

MCAcctOf == [o \in Op |-> IF o = disable THEN bob ELSE alice]
=============================================================================
