-------------------------- MODULE MCForestRouting --------------------------
(***************************************************************************)
(* ForestRouting for TLC: one forest with two hosts, which an operation    *)
(* may name as its servers or as its global catalog, with or without a     *)
(* target; another with one host, bound with Kerberos, or without what the *)
(* bind needs; a context without a host.                                   *)
(***************************************************************************)
EXTENDS ForestRouting

CONSTANTS f1, f2, h0, h1, h2, h3, root1, root2, ou

MCContext == {
    [forest |-> f1, servers |-> <<h1, h2>>, gc |-> <<h3>>, root |-> root1,
     target |-> NoTarget, gssapi |-> FALSE, account |-> TRUE],
    [forest |-> f1, servers |-> << >>, gc |-> <<h2>>, root |-> root1,
     target |-> ou, gssapi |-> FALSE, account |-> TRUE],
    [forest |-> f2, servers |-> <<h3>>, gc |-> << >>, root |-> root2,
     target |-> NoTarget, gssapi |-> TRUE, account |-> FALSE],
    [forest |-> f2, servers |-> <<h3>>, gc |-> << >>, root |-> root2,
     target |-> ou, gssapi |-> FALSE, account |-> FALSE],
    [forest |-> f2, servers |-> << >>, gc |-> << >>, root |-> root2,
     target |-> NoTarget, gssapi |-> FALSE, account |-> FALSE]}
=============================================================================
