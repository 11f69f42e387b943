--------------------------- MODULE SchemaUpgrades ---------------------------
(***************************************************************************)
(* What migrations.Run promises (migrations/migrations.go:1-4 and :22-24), *)
(* without transactions, locks, or failures: the schema grows by one whole *)
(* migration at a time, its record included, each after those before it,   *)
(* and a replica serves while its own migrations are in place.             *)
(***************************************************************************)
EXTENDS Naturals

CONSTANTS
    Replicas,  \* the processes that boot
    Known,     \* the number of migrations each of them was built with
    Size       \* the number of statements of a migration

VARIABLES
    schema,  \* what is committed
    serving  \* the replicas that serve

Whole(v) == {v} \X (1 .. Size + 1)
InPlace(v) == Whole(v) \subseteq schema

Init == schema = {} /\ serving = {}

\* Some replica knows the migration, and none of it is there.
Upgrade ==
    /\ \E p \in Replicas : \E v \in 1 .. Known[p] :
          /\ Whole(v) \cap schema = {}
          /\ \A w \in 1 .. (v - 1) : InPlace(w)
          /\ schema' = schema \cup Whole(v)
    /\ UNCHANGED serving

Serve(p) ==
    /\ p \notin serving
    /\ \A v \in 1 .. Known[p] : InPlace(v)
    /\ serving' = serving \cup {p}
    /\ UNCHANGED schema

End(p) ==
    /\ p \in serving
    /\ serving' = serving \ {p}
    /\ UNCHANGED schema

Next == Upgrade \/ \E p \in Replicas : Serve(p) \/ End(p)

Spec == Init /\ [][Next]_<<schema, serving>>
=============================================================================
