---------------------------- MODULE MCMigrations ----------------------------
(***************************************************************************)
(* An instance of Migrations for TLC: three replicas boot at once, one of  *)
(* them from a build that has only the first migration.                    *)
(***************************************************************************)
EXTENDS Migrations, TLC

CONSTANTS a, b, c  \* replicas

KnownToEach == a :> 2 @@ b :> 2 @@ c :> 1
=============================================================================
