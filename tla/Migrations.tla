----------------------------- MODULE Migrations -----------------------------
(***************************************************************************)
(* The schema migrations of migrations/migrations.go, run by every replica *)
(* as it boots (db.Connect), against one PostgreSQL server.                *)
(*                                                                         *)
(* A migration is a script of Size statements, each of which creates one   *)
(* object IF NOT EXISTS; Run adds the INSERT into schema_migrations as the *)
(* last statement of the same transaction.  Versions are numbers: names    *)
(* carry a numeric prefix and are sorted.                                  *)
(*                                                                         *)
(* PostgreSQL, as the drivers use it: a transaction's objects are visible  *)
(* to nobody else until it commits; a statement that creates what an open  *)
(* transaction has created waits for it, then fails if that transaction    *)
(* commits, and goes on if it rolls back; a duplicate key is an error.     *)
(***************************************************************************)
EXTENDS Naturals, FiniteSets

CONSTANTS
    Replicas,  \* the processes that boot
    Known,     \* the number of migrations each of them was built with
    Size,      \* the number of statements of a migration
    MaxFaults  \* bound: how often a statement fails or a process dies

ASSUME KnownAssumption == Known \in [Replicas -> Nat] /\ Size \in Nat

ASSUME MaxFaultsAssumption == MaxFaults \in Nat

VARIABLES
    pc,        \* where each replica is in its boot
    applied,   \* what it read of schema_migrations
    version,   \* the migration its loop is at
    statement, \* the statement it executes next, Size + 1 for the INSERT
    waited,    \* it is, or was, waiting for that statement's object
    made,      \* what its open transaction has created
    schema,    \* what is committed
    faults,    \* how many faults there have been
    commits    \* history: how many times each migration was committed

local == <<pc, applied, version, statement, waited, made>>
vars == <<local, schema, faults, commits>>

Versions == UNION {1 .. Known[p] : p \in Replicas}

\* An object of a migration, or its row in schema_migrations.
Objects(v) == {v} \X (1 .. Size)
Row(v) == <<v, Size + 1>>
Recorded == {v \in Versions : Row(v) \in schema}

Init ==
    /\ pc = [p \in Replicas |-> "down"]
    /\ applied = [p \in Replicas |-> {}]
    /\ version = [p \in Replicas |-> 1]
    /\ statement = [p \in Replicas |-> 1]
    /\ waited = [p \in Replicas |-> FALSE]
    /\ made = [p \in Replicas |-> {}]
    /\ schema = {}
    /\ faults = 0
    /\ commits = [v \in Versions |-> 0]

GoTo(p, step) == pc' = [pc EXCEPT ![p] = step]

-----------------------------------------------------------------------------
\* The process starts; CREATE TABLE IF NOT EXISTS schema_migrations comes
\* first and leaves nothing that the steps below can tell apart.
Boot(p) ==
    /\ pc[p] = "down"
    /\ GoTo(p, "read")
    /\ version' = [version EXCEPT ![p] = 1]
    /\ UNCHANGED <<applied, statement, waited, made, schema, faults, commits>>

\* mutant: the map is keyed by file name and looked up by version.
AppliedNoneFound(p) ==
    /\ pc[p] = "read"
    /\ applied' = [applied EXCEPT ![p] = {}]
    /\ GoTo(p, "loop")
    /\ UNCHANGED <<version, statement, waited, made, schema, faults, commits>>

AppliedVersions(p) ==
    /\ pc[p] = "read"
    /\ applied' = [applied EXCEPT ![p] = Recorded]
    /\ GoTo(p, "loop")
    /\ UNCHANGED <<version, statement, waited, made, schema, faults, commits>>

\* mutant: the files come in the order of the directory.
PendingUnsorted(p) == {v \in 1 .. Known[p] : v \notin applied[p] /\ v \notin Recorded}

\* The loop skips what was applied and stops at the next pending file.
Pending(p) ==
    {v \in version[p] .. Known[p] :
        v \notin applied[p] /\ version[p] .. (v - 1) \subseteq applied[p]}

BeginTransaction(p) ==
    /\ pc[p] = "loop"
    /\ \E v \in Pending(p) : version' = [version EXCEPT ![p] = v]
    /\ statement' = [statement EXCEPT ![p] = 1]
    /\ GoTo(p, "exec")
    /\ UNCHANGED <<applied, waited, made, schema, faults, commits>>

Serve(p) ==
    /\ pc[p] = "loop"
    /\ version[p] .. Known[p] \subseteq applied[p]
    /\ GoTo(p, "serving")
    /\ UNCHANGED <<applied, version, statement, waited, made, schema, faults, commits>>

-----------------------------------------------------------------------------
\* mutant: a build ships a script with its statements in another order.
TargetReordered(p) ==
    <<version[p],
      IF Known[p] > 1 \/ statement[p] > Size THEN statement[p] ELSE Size + 1 - statement[p]>>

Target(p) == <<version[p], statement[p]>>
Locked(p) == \E q \in Replicas \ {p} : Target(p) \in made[q]

\* mutants: the transaction stays open; main logs the error and goes on.
ExitOpen(p) ==
    /\ GoTo(p, "down")
    /\ waited' = [waited EXCEPT ![p] = FALSE]
    /\ UNCHANGED <<applied, version, statement, made, schema, commits>>

ExitServes(p) ==
    /\ GoTo(p, "serving")
    /\ made' = [made EXCEPT ![p] = {}]
    /\ waited' = [waited EXCEPT ![p] = FALSE]
    /\ UNCHANGED <<applied, version, statement, schema, commits>>

\* Run returns the error, db.Connect and main pass it on, and log.Fatal ends
\* the process: the transaction is rolled back.
Exit(p) ==
    /\ GoTo(p, "down")
    /\ made' = [made EXCEPT ![p] = {}]
    /\ waited' = [waited EXCEPT ![p] = FALSE]
    /\ UNCHANGED <<applied, version, statement, schema, commits>>

\* tx.Exec of a statement whose object another transaction has created.
ExecBlocks(p) ==
    /\ pc[p] = "exec" /\ Locked(p) /\ ~waited[p]
    /\ waited' = [waited EXCEPT ![p] = TRUE]
    /\ UNCHANGED <<pc, applied, version, statement, made, schema, faults, commits>>

\* What the statement meets: nothing in its way, an object that IF NOT EXISTS
\* accepts, or a duplicate.
Missing(p) == Target(p) \notin schema
AlreadyThere(p) == Target(p) \in schema /\ statement[p] <= Size /\ ~waited[p]

\* mutant: `version' is no primary key of schema_migrations.
DuplicateAccepted(p) == Target(p) \in schema /\ waited[p]
Duplicate(p) == ~Missing(p) /\ ~AlreadyThere(p)

\* mutant: each statement commits on its own.
ExecCommits(p) ==
    /\ pc[p] = "exec" /\ ~Locked(p) /\ ~Duplicate(p)
    /\ schema' = schema \cup {Target(p)}
    /\ statement' = [statement EXCEPT ![p] = @ + 1]
    /\ waited' = [waited EXCEPT ![p] = FALSE]
    /\ GoTo(p, IF statement[p] > Size THEN "commit" ELSE "exec")
    /\ UNCHANGED <<applied, version, made, faults, commits>>

Exec(p) ==
    /\ pc[p] = "exec" /\ ~Locked(p) /\ ~Duplicate(p)
    /\ made' = [made EXCEPT ![p] = IF Missing(p) THEN @ \cup {Target(p)} ELSE @]
    /\ statement' = [statement EXCEPT ![p] = @ + 1]
    /\ waited' = [waited EXCEPT ![p] = FALSE]
    /\ GoTo(p, IF statement[p] > Size THEN "commit" ELSE "exec")
    /\ UNCHANGED <<applied, version, schema, faults, commits>>

ExecFails(p) ==
    /\ pc[p] = "exec" /\ ~Locked(p) /\ Duplicate(p)
    /\ Exit(p)
    /\ UNCHANGED faults

Commit(p) ==
    /\ pc[p] = "commit"
    /\ schema' = schema \cup made[p]
    /\ made' = [made EXCEPT ![p] = {}]
    /\ commits' = [commits EXCEPT ![version[p]] = @ + 1]
    /\ version' = [version EXCEPT ![p] = @ + 1]
    /\ GoTo(p, "loop")
    /\ UNCHANGED <<applied, statement, waited, faults>>

Fault == faults < MaxFaults /\ faults' = faults + 1

\* The commit was executed but its answer never arrived.
CommitUnacknowledged(p) ==
    /\ pc[p] = "commit"
    /\ schema' = schema \cup made[p]
    /\ made' = [made EXCEPT ![p] = {}]
    /\ commits' = [commits EXCEPT ![version[p]] = @ + 1]
    /\ GoTo(p, "down")
    /\ Fault
    /\ UNCHANGED <<applied, version, statement, waited>>

\* A statement fails, or the process dies or is restarted.
Dies(p) ==
    /\ pc[p] # "down"
    /\ Exit(p)
    /\ Fault

Run(p) == \/ AppliedVersions(p) \/ BeginTransaction(p) \/ ExecBlocks(p) \/ Exec(p)
          \/ ExecFails(p) \/ Commit(p) \/ Serve(p)

Next == \E p \in Replicas :
           \/ Boot(p) \/ Run(p)
           \/ CommitUnacknowledged(p) \/ Dies(p)

Spec == Init /\ [][Next]_vars

(***************************************************************************)
(* A process that runs takes its next step, and one that ended is started  *)
(* again (docker-compose.yml:6, restart: unless-stopped).                  *)
(***************************************************************************)
FairSpec == Spec /\ \A p \in Replicas : WF_vars(Boot(p) \/ Run(p))

-----------------------------------------------------------------------------
(***************************************************************************)
(* Type invariant: ranges, and what an open transaction is.                *)
(***************************************************************************)
Steps == {"down", "read", "loop", "exec", "commit", "serving"}

TypeOK ==
    /\ pc \in [Replicas -> Steps]
    /\ applied \in [Replicas -> SUBSET Versions]
    /\ version \in [Replicas -> Nat \ {0}]
    /\ statement \in [Replicas -> Nat \ {0}]
    /\ waited \in [Replicas -> BOOLEAN]
    /\ made \in [Replicas -> SUBSET (Versions \X (1 .. Size + 1))]
    /\ schema \subseteq Versions \X (1 .. Size + 1)
    /\ faults \in 0 .. MaxFaults
    /\ commits \in [Versions -> Nat]
    /\ \A p \in Replicas :
          IF pc[p] \in {"exec", "commit"}
             THEN /\ version[p] \in 1 .. Known[p]
                  /\ made[p] \subseteq {version[p]} \X (1 .. (statement[p] - 1))
             ELSE made[p] = {}

(***************************************************************************)
(* migrations.go:24: each migration runs inside a transaction.  Committed  *)
(* with its row in schema_migrations or not at all, however boots overlap. *)
(***************************************************************************)
AllOrNothing ==
    \A v \in Versions :
       IF v \in Recorded THEN Objects(v) \subseteq schema ELSE Objects(v) \cap schema = {}

(***************************************************************************)
(* migrations.go:3: in order.  No migration is in place before one that    *)
(* its script may rely on, not even while replicas of two builds boot.     *)
(***************************************************************************)
InOrder == \A v \in Recorded : 1 .. v \subseteq Recorded

(***************************************************************************)
(* migrations.go:3: once each.  A replica that read schema_migrations      *)
(* before another one committed does not commit the same migration again.  *)
(***************************************************************************)
OnceEach == \A v \in Versions : commits[v] <= 1

(***************************************************************************)
(* db.go:35: no request is served on a schema that lacks a migration the   *)
(* replica was built with.                                                 *)
(***************************************************************************)
ServesOnItsSchema ==
    \A p \in Replicas : pc[p] = "serving" => 1 .. Known[p] \subseteq Recorded

(***************************************************************************)
(* migrations.go:138: a replica whose statement waits for the transaction  *)
(* of another waits for one that waits for nobody.  No circle of boots can *)
(* form: every build runs the statements of a script in the same order.    *)
(***************************************************************************)
NobodyWaitsForAWaiter ==
    \A p, q \in Replicas :
       p # q /\ pc[p] = "exec" /\ Target(p) \in made[q] => ~(pc[q] = "exec" /\ Locked(q))

(***************************************************************************)
(* migrations.go:1-4 and :22-24: with transactions, locks, failures and    *)
(* restarts, the schema still grows by whole migrations, in order, and no  *)
(* replica serves without its own.                                         *)
(***************************************************************************)
Upgrades == INSTANCE SchemaUpgrades WITH serving <- {p \in Replicas : pc[p] = "serving"}

ImplementsUpgrades == Upgrades!Spec

(***************************************************************************)
(* Boots that collide end in log.Fatal and a restart, never in replicas    *)
(* that wait for each other or knock each other out for ever.              *)
(***************************************************************************)
EventuallyServes == <>[](\A p \in Replicas : pc[p] = "serving")
=============================================================================
