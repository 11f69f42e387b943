---------------------------- MODULE MCSnapshots ----------------------------
(***************************************************************************)
(* An instance of StudentSnapshots for TLC: a reader, a writer, and a      *)
(* writer on a replica that booted without Redis.                          *)
(***************************************************************************)
EXTENDS StudentSnapshots, TLC

CONSTANTS a, b, c, c1, n1

Writes == {"create", "update", "delete"}

ReaderAndWriters == (a :> {"get", "list"}) @@ (b :> Writes) @@ (c :> Writes)

FirstActive == {[active |-> {TRUE}, limit |-> 1, offset |-> 0]}

OneStudent == 1 :> [cpf |-> c1, info |-> n1, active |-> TRUE]
===========================================================================
