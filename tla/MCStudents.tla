---------------------------- MODULE MCStudents ----------------------------
(***************************************************************************)
(* Instances of StudentRequests for TLC: which handlers the requests of a  *)
(* run may execute, what can be listed, what is in the table at boot.      *)
(***************************************************************************)
EXTENDS StudentProperties, TLC

CONSTANTS a, b, c,   \* requests
          c1, c2,    \* CPFs
          n1, n2     \* a name, an e-mail and an age

\* Every request may run every handler.
AnyHandler == [r \in Requests |-> Handlers]

\* Two kinds of writers and readers of pages, all overlapping.
ListsAndWrites ==
    [r \in Requests |-> CASE r = a -> {"list"} [] r = b -> {"create"} [] OTHER -> {"update", "delete"}]

Creates          == [r \in Requests |-> {"create"}]
UpdateAndDelete  == [r \in Requests |-> IF r = a THEN {"update"} ELSE {"delete"}]
GetAndUpdate     == [r \in Requests |-> IF r = a THEN {"get"} ELSE {"update"}]
ListAndUpdate    == [r \in Requests |-> IF r = a THEN {"list"} ELSE {"update"}]

FirstActive == {[active |-> {TRUE}, limit |-> 1, offset |-> 0]}

OneStudent  == 1 :> [cpf |-> c1, info |-> n1, active |-> TRUE]
NoStudent   == NoRows
===========================================================================
