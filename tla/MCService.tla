----------------------------- MODULE MCService -----------------------------
(***************************************************************************)
(* Service with two vault keys: values, references and a config that does  *)
(* not validate, on hosts that have a key, the variables, or neither.      *)
(***************************************************************************)
EXTENDS Service

CONSTANTS k1, k2, s1, s2,
    p1, blank,   \* s1 with blanks around it, blanks
    er, br, tr   \* env: references of secret_key, bind_password, agent_token

MCTrim == [text \in {p1, blank} |-> IF text = p1 THEN s1 ELSE Empty]
MCRefOf == [f \in Hardened |-> IF f = "secret_key" THEN er ELSE br]

Told(secret, bind, token, ok) ==
    [secret |-> [f \in Hardened |-> IF f = "secret_key" THEN secret ELSE bind],
     token |-> token, ok |-> ok]
Env(key, e, b, t) ==
    [key |-> key,
     var |-> [r \in Ref |-> CASE r = er -> e [] r = br -> b [] OTHER -> t]]

(* A value with blanks, with an env: reference for the password and for    *)
(* the token; an enc: reference, with blanks for the password and a value  *)
(* for the token; no secret key at all and a value for the password, in a  *)
(* config that does not validate.                                          *)
MCAnswers == {Told(p1, br, tr, TRUE),
              Told([key |-> k2, plain |-> s2], blank, s2, TRUE),
              Told(Empty, s1, tr, FALSE)}

MCHosts == {Env(k1, NotSet, s2, s1), Env(k2, s2, NotSet, NotSet)}
MCShells == {Env(k1, NotSet, s2, s1), Env(NoKey, NotSet, NotSet, NotSet),
             Env(BadKey, NotSet, NotSet, s1)}

(* For one setup after another, each with a config that can be used.       *)
OneAnswer == {Told(s1, br, s2, TRUE)}
OneHost == {Env(k1, s1, s1, s1)}
=============================================================================
