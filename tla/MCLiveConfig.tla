---------------------------- MODULE MCLiveConfig ----------------------------
(***************************************************************************)
(* LiveConfig with two settings, and configs picked so that each guard of  *)
(* validate and apply_remote matters.                                      *)
(***************************************************************************)
EXTENDS LiveConfig

CONSTANTS url, base_dn, v1, v2

MCField == {url, base_dn}
Fields(u, b) == [f \in MCField |-> IF f = url THEN u ELSE b]

(* A whole one, one with a field left blank, one for the database only,    *)
(* whose interval is 0, and one whose mode lacks its section.              *)
MCLocalConfig ==
    {[mode |-> "ad", poll |-> 1, ad |-> Fields(v1, v1), db |-> FALSE],
     [mode |-> "ad", poll |-> 2, ad |-> Fields(v1, Blank), db |-> TRUE],
     [mode |-> "db", poll |-> 0, ad |-> NoSection, db |-> TRUE],
     [mode |-> "ad", poll |-> 1, ad |-> NoSection, db |-> TRUE]}

(* Nothing given; all given; one field blank and an interval of 0.         *)
MCBrokerConfig ==
    {[mode |-> "ad", poll |-> 0, directory |-> NoSection],
     [mode |-> "db", poll |-> 2, directory |-> Fields(v2, v2)],
     [mode |-> "ad", poll |-> 0, directory |-> Fields(Blank, v2)]}
=============================================================================
