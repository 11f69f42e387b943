-------------------------- MODULE StudentSnapshots --------------------------
(***************************************************************************)
(* StudentRequests over a Redis that restarts.  docker-compose.yml runs it *)
(* with `--save 60 1' and a volume: from time to time it writes all it     *)
(* holds to disk, and after a restart it holds what was written last, with *)
(* the expiry times the keys had.                                          *)
(***************************************************************************)
EXTENDS StudentProperties

CONSTANT MaxRestarts  \* bound: how often Redis restarts

ASSUME RestartsAssumption == MaxRestarts \in Nat

VARIABLES
    snapshot,  \* what the next restart will load, Empty if nothing was saved
    restarts

disk == <<snapshot, restarts>>
both == <<vars, disk>>

Redis == [byId |-> byId, gen |-> gen, lists |-> lists, younger |-> younger]

Empty == [byId    |-> [i \in Ids |-> Nothing],
          gen     |-> Gen0,
          lists   |-> [k \in PageKeys |-> Nothing],
          younger |-> {}]

SnapshotInit == Init /\ snapshot = Empty /\ restarts = 0

\* Of the snapshots written before a restart only the last one matters.
SaveSnapshot ==
    /\ restarts < MaxRestarts
    /\ snapshot = Empty /\ Redis # Empty
    /\ snapshot' = Redis
    /\ UNCHANGED <<vars, restarts>>

\* The bumps since the snapshot are lost, as if their writers had missed them.
RestartRedis ==
    /\ restarts < MaxRestarts
    /\ restarts' = restarts + 1
    /\ byId' = snapshot.byId
    /\ gen' = snapshot.gen
    /\ lists' = snapshot.lists
    /\ younger' = snapshot.younger
    /\ missed' = (missed \/ snapshot.gen # gen)
    /\ snapshot' = Empty
    /\ UNCHANGED <<table, issued, req, writes>>

Served == Next /\ UNCHANGED disk

SnapshotNext == Served \/ SaveSnapshot \/ RestartRedis

SnapshotSpec == SnapshotInit /\ [][SnapshotNext]_both

-----------------------------------------------------------------------------
(***************************************************************************)
(* Liveness.  A request in flight goes on (its goroutine is scheduled, its *)
(* calls return; go-redis gives up resending after three attempts), and a  *)
(* key is dropped when its TTL is over.  Nothing makes a request arrive,   *)
(* and Redis need not restart.                                             *)
(***************************************************************************)
Proceed(r) == (Read(r) \/ Write(r) \/ DbFails(r) \/ Respond(r)) /\ ~BumpUnacknowledged(r)

Fairness ==
    /\ \A r \in Requests : WF_both(Proceed(r) /\ UNCHANGED disk)
    /\ \A i \in Ids : WF_both(LapseStudent(i) /\ UNCHANGED disk)
    /\ \A k \in PageKeys : WF_both(LapsePage(k) /\ UNCHANGED disk)
    /\ WF_both(LapseGen /\ UNCHANGED disk)

FairSpec == SnapshotSpec /\ Fairness

(***************************************************************************)
(* Whatever failed, was lost or was cut short, whichever replica never     *)
(* invalidates (main.go:117-122), and though Redis came back with what it  *)
(* held before the last write: when the writes are over, every cached      *)
(* student and page ends up equal to the database, for good.  The TTL      *)
(* (cached_student.go:45) is what brings this about.                       *)
(***************************************************************************)
EventuallyFresh ==
    <>[]((\A i \in Ids : FreshStudent(i)) /\ (\A k \in PageKeys : FreshPage(k)))
=============================================================================
