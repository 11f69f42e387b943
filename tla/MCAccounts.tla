----------------------------- MODULE MCAccounts -----------------------------
(***************************************************************************)
(* An instance of Accounts for TLC: two replicas, two clients; the name of *)
(* the admin can be registered, with the admin's or another password.      *)
(***************************************************************************)
EXTENDS Accounts, TLC

CONSTANTS p, q, a, b, root, pw1, pw2, long, s

WhoKnows == (a :> {pw1}) @@ (b :> {pw2, long})

Deployments ==
    {[production |-> TRUE,  secret |-> s,       seed |-> TRUE],
     [production |-> FALSE, secret |-> Nothing, seed |-> FALSE],
     [production |-> TRUE,  secret |-> Nothing, seed |-> TRUE]}
=============================================================================
