--------------------------- MODULE SnapshotProofs ---------------------------
(***************************************************************************)
(* The cached listings when Redis restarts from what it last wrote to      *)
(* disk, for any number of requests, replicas, faults and restarts.        *)
(***************************************************************************)
EXTENDS StudentSnapshots, StudentRequestsProofs

Snapshots == [byId  : [Ids -> Maybe(Student)], gen     : Gens,
              lists : [PageKeys -> Maybe(Page)], younger : SUBSET PageKeys]

(***************************************************************************)
(* What a restart may bring back: generations that were issued, and, as    *)
(* long as the generation is the one of the snapshot and no write has been *)
(* since, pages that are the database's.                                   *)
(***************************************************************************)
SnapshotInv ==
    /\ snapshot \in Snapshots
    /\ snapshot.gen \in issued
    /\ \A k \in PageKeys : snapshot.lists[k] # Nothing => k[1] \in issued
    /\ Settled /\ snapshot.gen = gen =>
          \A params \in ListParams :
             snapshot.lists[<<gen, params>>] \in {Nothing, Listing(Live, params)}

AllInv == TypeOK /\ ListInv /\ SnapshotInv

LEMMA EmptyFacts ==
    /\ Empty \in Snapshots /\ Empty.gen = Gen0
    /\ \A k \in PageKeys : Empty.lists[k] = Nothing
BY GensAssumption, FieldValues DEF Empty, Snapshots

-----------------------------------------------------------------------------
(***************************************************************************)
(* The step of a request or of a TTL makes a generation that was in no     *)
(* snapshot, or it cannot end the time in which a bump is owed: if none is *)
(* owed after it, none was before, and the table has not changed.          *)
(***************************************************************************)
SettlesNothing == Settled' => Settled /\ Live' = Live /\ gen' = gen

LEMMA StillOwed ==
    ASSUME TypeOK, BumpOwed, NEW r \in Requests, NEW q, Move(r, q), Owes(req[r]) => Owes(q)
    PROVE  BumpOwed'
<1>1. \A s \in Requests : req'[s] = IF s = r THEN q ELSE req[s]
  BY DEF TypeOK, Move
<1>2. PICK s \in Requests : Owes(req[s])
  BY DEF BumpOwed
<1>3. Owes(req'[s])
  BY <1>1, <1>2
<1> QED
  BY <1>3 DEF BumpOwed, Owes

\* A step that is no commit and no end of a write.
LEMMA PlainSettles ==
    ASSUME TypeOK, NEW r \in Requests, NEW q, Move(r, q),
           UNCHANGED <<students, deleted, gen, issued>>, missed => missed',
           missed' \/ (Owes(req[r]) => Owes(q))
    PROVE  SettlesNothing
<1>1. Live' = Live /\ GenLost' = GenLost
  BY DEF Live, GenLost
<1>2. CASE missed'
  BY <1>2 DEF SettlesNothing, Settled
<1>3. CASE Owes(req[r]) => Owes(q)
  BY <1>1, <1>3, StillOwed DEF SettlesNothing, Settled
<1> QED
  BY <1>2, <1>3

\* After a commit a bump is owed, or counts as missed.
LEMMA CommitSettles ==
    ASSUME TypeOK, NEW r \in Requests, NEW q, Move(r, q),
           Owes(q) \/ missed'
    PROVE  SettlesNothing
<1>1. req'[r] = q
  BY DEF TypeOK, Move
<1> QED
  BY <1>1 DEF SettlesNothing, Settled, BumpOwed, Owes

LEMMA WriteSettles ==
    ASSUME TypeOK, ListInv, ResendsOnTime, NEW r \in Requests, Write(r)
    PROVE  SettlesNothing \/ gen' \notin issued
<1> DEFINE q == req[r]
<1>0. q \in Request /\ HoldsWhatItUses(r, q)
  BY DEF TypeOK
<1>N. q.pc \in {"insert", "save", "softDelete", "cacheDel"} => q.gen = Nothing
  BY DEF ListInv, GenerationsIssued, StepsWithoutGen
<1> USE DEF At
<1>1. CASE Exists(r)
  <2>1. PICK a : Move(r, a)
    BY <1>1 DEF Exists
  <2>2. ~Owes(req[r]) /\ UNCHANGED <<students, deleted, gen, issued, missed>>
    BY <1>1 DEF Exists, Owes, table, pages
  <2> QED
    BY <2>1, <2>2, PlainSettles
<1>2. CASE Insert(r)
  <2>1. q.body \in Student /\ q.gen = Nothing
    BY <1>0, <1>2, <1>N DEF Insert, HoldsWhatItUses
  <2>2. PICK i \in Ids \ Used :
           Move(r, Committed(r, [q EXCEPT !.id = i, !.student = q.body], 201, "bump"))
    BY <1>2 DEF Insert
  <2> DEFINE b == [q EXCEPT !.id = i, !.student = q.body]
             a == Committed(r, b, 201, "bump")
  <2>3. i \in Maybe(Ids) /\ q.body \in Maybe(Student) /\ 201 \in Statuses
    BY <2>1, FieldValues DEF Statuses
  <2>4. b \in Request
    BY <1>0, <2>3, Zenon DEF Request
  <2>5. b.gen = Nothing
    BY <1>0, <2>1 DEF Request
  <2>6. Move(r, a) /\ (r \in Uncached => missed')
    BY <1>2, <2>2 DEF Insert, Misses
  <2> HIDE DEF b
  <2>7. Owes(a) \/ r \in Uncached
    BY <2>3, <2>4, <2>5, CommittedFields DEF Owes
  <2> HIDE DEF a
  <2> QED
    BY <2>6, <2>7, CommitSettles
<1>3. CASE Save(r)
  <2> DEFINE a == Committed(r, q, 200, "cacheDel")
  <2>1. q.gen = Nothing /\ 200 \in Statuses
    BY <1>3, <1>N DEF Save, Statuses
  <2>2. Owes(a) \/ r \in Uncached
    BY <1>0, <2>1, CommittedFields DEF Owes
  <2>3. Move(r, a) /\ (r \in Uncached => missed')
    BY <1>3 DEF Save, Misses
  <2> HIDE DEF a
  <2> QED
    BY <2>2, <2>3, CommitSettles
<1>4. CASE SoftDelete(r)
  <2> DEFINE b == [q EXCEPT !.student = Nothing]
             a == Committed(r, b, 204, "cacheDel")
  <2>1. q.gen = Nothing /\ 204 \in Statuses /\ Nothing \in Maybe(Student)
    BY <1>4, <1>N, FieldValues DEF SoftDelete, Statuses
  <2>2. b \in Request
    BY <1>0, <2>1, Zenon DEF Request
  <2>3. b.gen = Nothing
    BY <1>0, <2>1 DEF Request
  <2>4. Move(r, a) /\ (r \in Uncached => missed')
    BY <1>4 DEF SoftDelete, Misses
  <2> HIDE DEF b
  <2>5. Owes(a) \/ r \in Uncached
    BY <2>1, <2>2, <2>3, CommittedFields DEF Owes
  <2> HIDE DEF a
  <2> QED
    BY <2>4, <2>5, CommitSettles
<1>5. CASE CacheDel(r)
  <2>1. Move(r, Go(q, "bump")) /\ UNCHANGED <<students, deleted, gen, issued, missed>>
    BY <1>5 DEF CacheDel, table, pages
  <2>2. Owes(Go(q, "bump"))
    BY <1>0, <1>5, <1>N, FieldValues, GoType DEF CacheDel, Owes
  <2> QED
    BY <2>1, <2>2, PlainSettles
<1>6. CASE Bump(r)
  <2>1. PICK g \in Generations(q) : SetGeneration(g)
    BY <1>6 DEF Bump
  <2>2. CASE q.gen = Nothing
    BY <2>1, <2>2 DEF Generations, SetGeneration
  <2>3. CASE q.gen # Nothing
    <3>1. gen' = gen /\ ~missed /\ ~missed' /\ issued' = issued
      BY <1>6, <2>1, <2>3 DEF Generations, ResendsOnTime, SetGeneration, ListInv, GenerationsIssued
    <3>2. Move(r, Answer(q, q.status)) /\ ~Owes(req[r]) /\ UNCHANGED <<students, deleted>>
      BY <1>6, <2>3 DEF Bump, Owes, table
    <3> QED
      BY <3>1, <3>2, PlainSettles DEF TypeOK
  <2> QED
    BY <2>2, <2>3
<1>7. CASE BumpFails(r)
  <2>1. Move(r, Answer(q, q.status)) /\ missed'
    BY <1>7 DEF BumpFails, Misses
  <2> QED
    BY <2>1, CommitSettles
<1>8. CASE BumpUnacknowledged(r)
  <2>1. PICK g \in Generations(q) : SetGeneration(g) /\ Move(r, [q EXCEPT !.gen = g])
    BY <1>8 DEF BumpUnacknowledged
  <2>2. CASE q.gen = Nothing
    BY <2>1, <2>2 DEF Generations, SetGeneration
  <2>3. CASE q.gen # Nothing
    <3>1. gen' = gen /\ ~missed /\ ~missed' /\ issued' = issued
      BY <1>8, <2>1, <2>3 DEF Generations, ResendsOnTime, SetGeneration, ListInv, GenerationsIssued
    <3>2. ~Owes(req[r]) /\ UNCHANGED <<students, deleted>>
      BY <1>8, <2>3 DEF BumpUnacknowledged, Owes, table
    <3> QED
      BY <2>1, <3>1, <3>2, PlainSettles DEF TypeOK
  <2> QED
    BY <2>2, <2>3
<1> QED
  BY <1>1, <1>2, <1>3, <1>4, <1>5, <1>6, <1>7, <1>8 DEF Write

LEMMA OthersSettle ==
    ASSUME TypeOK, NEW r \in Requests,
           Arrive(r) \/ Read(r) \/ DbFails(r) \/ Respond(r) \/ Abandon(r)
    PROVE  SettlesNothing
<1> USE DEF At
<1>1. CASE Arrive(r)
  <2>1. PICK a \in Request : Move(r, a)
    BY <1>1, ArriveRecord
  <2>2. ~Owes(req[r]) /\ UNCHANGED <<students, deleted, gen, issued, missed>>
    BY <1>1, ArriveRecord DEF Owes, table, pages
  <2> QED
    BY <2>1, <2>2, PlainSettles
<1>2. CASE Read(r)
  <2>1. ~Owes(req[r]) /\ UNCHANGED <<students, deleted, gen, issued, missed>>
    BY <1>2 DEF Read, CacheHit, CacheMiss, DbFind, DbFindNone, CacheSet, GenGet, PageHit,
                PageMiss, Count, Rows, PageSet, Owes, table, pages
  <2>2. \E a : Move(r, a)
    BY <1>2 DEF Read, CacheHit, CacheMiss, DbFind, DbFindNone, CacheSet, GenGet, PageHit,
                PageMiss, Count, Rows, PageSet
  <2> QED
    BY <2>1, <2>2, PlainSettles
<1>3. CASE DbFails(r) \/ Respond(r)
  <2>1. ~Owes(req[r]) /\ UNCHANGED <<students, deleted, gen, issued, missed>>
    BY <1>3 DEF DbFails, Respond, QuerySteps, Owes, table, pages
  <2>2. \E a : Move(r, a)
    BY <1>3 DEF DbFails, Respond
  <2> QED
    BY <2>1, <2>2, PlainSettles
<1>4. CASE Abandon(r)
  <2>1. /\ Move(r, Idle) /\ UNCHANGED <<students, deleted, gen, issued>>
        /\ (missed => missed') /\ (Owes(req[r]) => missed')
    BY <1>4 DEF Abandon, Misses, Invalidating, Owes, table, keys
  <2> QED
    BY <2>1, PlainSettles
<1> QED
  BY <1>1, <1>2, <1>3, <1>4

LEMMA LapseSettles ==
    ASSUME TypeOK, ListInv, Lapse
    PROVE  SettlesNothing
<1>1. UNCHANGED <<students, deleted, issued, missed, req>>
  BY DEF Lapse, LapseStudent, LapsePage, LapseGen, table, pages
<1>2. Live' = Live /\ BumpOwed' = BumpOwed
  BY <1>1 DEF Live, BumpOwed, Owes
<1>3. CASE gen' = gen
  BY <1>1, <1>2, <1>3 DEF SettlesNothing, Settled, GenLost
<1>4. CASE LapseGen
  <2>1. GenLost'
    BY <1>1, <1>4 DEF LapseGen, GenLost, ListInv, GenerationsIssued
  <2> QED
    BY <2>1 DEF SettlesNothing, Settled
<1> QED
  BY <1>3, <1>4 DEF Lapse, LapseStudent, LapsePage, pages

LEMMA StepSettles ==
    ASSUME TypeOK, ListInv, [Next]_vars, [ResendsOnTime]_vars
    PROVE  issued \subseteq issued' /\ (SettlesNothing \/ gen' \notin issued)
<1>1. CASE UNCHANGED vars
  BY <1>1 DEF vars, SettlesNothing, Settled, BumpOwed, Owes, GenLost, Live
<1>2. CASE Next /\ ResendsOnTime
  <2>1. SettlesNothing \/ gen' \notin issued
    BY <1>2, OthersSettle, WriteSettles, LapseSettles DEF Next, Serve
  <2>2. ASSUME NEW r \in Requests, Arrive(r) PROVE issued' = issued
    BY <2>2, ArriveRecord DEF pages
  <2>3. ASSUME NEW r \in Requests, Read(r) \/ DbFails(r) \/ Respond(r) \/ Abandon(r)
        PROVE  issued' = issued
    BY <2>3 DEF Read, CacheHit, CacheMiss, DbFind, DbFindNone, CacheSet, GenGet, PageHit,
                PageMiss, Count, Rows, PageSet, DbFails, Respond, Abandon, Misses, keys, pages
  <2>4. ASSUME NEW r \in Requests, Write(r) PROVE issued \subseteq issued'
    BY <2>4 DEF Write, Exists, Insert, Save, SoftDelete, CacheDel, Bump, BumpFails,
                BumpUnacknowledged, SetGeneration, Misses, keys, pages
  <2>5. ASSUME Lapse PROVE issued' = issued
    BY <2>5 DEF Lapse, LapseStudent, LapsePage, LapseGen, pages
  <2> QED
    BY <1>2, <2>1, <2>2, <2>3, <2>4, <2>5 DEF Next, Serve
<1> QED
  BY <1>1, <1>2

-----------------------------------------------------------------------------
(***************************************************************************)
(* The steps of the application and those of Redis.                        *)
(***************************************************************************)
LEMMA ServedStep ==
    ASSUME AllInv, [Next]_vars, [ResendsOnTime]_vars, UNCHANGED disk
    PROVE  AllInv'
<1>1. TypeOK' /\ ListInv'
  BY NextType, NextKeepsInv DEF AllInv
<1>2. snapshot' = snapshot
  BY DEF disk
<1>3. issued \subseteq issued' /\ (SettlesNothing \/ gen' \notin issued)
  BY StepSettles DEF AllInv
<1>4. ASSUME Settled', snapshot.gen = gen', NEW params \in ListParams
      PROVE  snapshot.lists[<<gen', params>>] \in {Nothing, Listing(Live', params)}
  <2>1. Settled /\ Live' = Live /\ gen' = gen
    BY <1>3, <1>4 DEF AllInv, SnapshotInv, SettlesNothing
  <2> QED
    BY <1>4, <2>1 DEF AllInv, SnapshotInv
<1>5. SnapshotInv'
  BY <1>2, <1>3, <1>4 DEF AllInv, SnapshotInv, Snapshots, PageKeys
<1> QED
  BY <1>1, <1>5 DEF AllInv

LEMMA SaveStep ==
    ASSUME AllInv, SaveSnapshot
    PROVE  AllInv'
<1>1. UNCHANGED vars /\ snapshot' = Redis
  BY DEF SaveSnapshot
<1>2. TypeOK' /\ ListInv'
  BY <1>1 DEF AllInv, TypeOK, vars, ListInv, GenerationsIssued, FreshPage, FreshFill, Live,
              BumpOwed, Owes, GenLost, Settled
<1>3. Redis \in Snapshots /\ Redis.gen = gen /\ Redis.lists = lists
  BY DEF Redis, Snapshots, AllInv, TypeOK
<1>4. Settled' = Settled /\ Live' = Live /\ gen' = gen /\ issued' = issued
  BY <1>1 DEF vars, Settled, BumpOwed, Owes, GenLost, Live
<1>5. SnapshotInv'
  BY <1>1, <1>3, <1>4 DEF SnapshotInv, AllInv, ListInv, GenerationsIssued, FreshPage, Snapshots, PageKeys
<1> QED
  BY <1>2, <1>5 DEF AllInv

LEMMA RestartStep ==
    ASSUME AllInv, RestartRedis
    PROVE  AllInv'
<1>1. /\ byId' = snapshot.byId /\ gen' = snapshot.gen /\ lists' = snapshot.lists
      /\ younger' = snapshot.younger /\ missed' = (missed \/ snapshot.gen # gen)
      /\ snapshot' = Empty /\ UNCHANGED <<students, deleted, issued, req, writes>>
  BY DEF RestartRedis, table
<1>2. /\ snapshot.byId \in [Ids -> Maybe(Student)] /\ snapshot.gen \in Gens
      /\ snapshot.lists \in [PageKeys -> Maybe(Page)] /\ snapshot.younger \subseteq PageKeys
  BY DEF AllInv, SnapshotInv, Snapshots
<1>3. missed' \in BOOLEAN
  BY <1>1 DEF AllInv, TypeOK
<1>4. TypeOK'
  BY <1>1, <1>2, <1>3 DEF AllInv, TypeOK
<1>5. Live' = Live /\ BumpOwed' = BumpOwed
  BY <1>1 DEF Live, BumpOwed, Owes
<1>6. Settled' => Settled /\ snapshot.gen = gen /\ gen' = gen
  BY <1>1, <1>5 DEF Settled, GenLost
<1>7. GenerationsIssued'
  BY <1>1 DEF AllInv, ListInv, GenerationsIssued, SnapshotInv
<1>8. ASSUME Settled'
      PROVE  /\ \A params \in ListParams : FreshPage(<<gen, params>>)'
             /\ \A r \in Requests : FreshFill(req[r])'
  <2>1. Settled /\ snapshot.gen = gen /\ gen' = gen
    BY <1>6, <1>8
  <2>2. \A params \in ListParams : FreshPage(<<gen, params>>)'
    BY <1>1, <1>5, <2>1 DEF AllInv, SnapshotInv, FreshPage
  <2>3. \A r \in Requests : FreshFill(req[r])'
    BY <1>1, <1>5, <2>1 DEF AllInv, ListInv, FreshFill
  <2> QED
    BY <2>2, <2>3
<1>9. ListInv'
  BY <1>7, <1>8 DEF ListInv
<1>10. \A params \in ListParams : Empty.lists[<<gen', params>>] = Nothing
  BY <1>1, <1>2, EmptyFacts DEF PageKeys
<1>11. SnapshotInv'
  BY <1>1, <1>10, EmptyFacts
     DEF AllInv, ListInv, GenerationsIssued, SnapshotInv, Snapshots, PageKeys
<1> QED
  BY <1>4, <1>9, <1>11 DEF AllInv

LEMMA SnapshotInitInv == SnapshotInit => AllInv
<1> SUFFICES ASSUME SnapshotInit PROVE AllInv
  OBVIOUS
<1>1. TypeOK /\ ListInv /\ snapshot = Empty
  BY InitType, InitInv DEF SnapshotInit
<1>2. \A params \in ListParams : <<gen, params>> \in PageKeys
  BY <1>1 DEF TypeOK, PageKeys
<1>3. SnapshotInv
  BY <1>1, <1>2, EmptyFacts DEF SnapshotInv, ListInv, GenerationsIssued
<1> QED
  BY <1>1, <1>3 DEF AllInv

LEMMA SnapshotNextKeepsInv ==
    AllInv /\ [SnapshotNext]_both /\ [ResendsOnTime]_vars => AllInv'
<1> SUFFICES ASSUME AllInv, [SnapshotNext]_both, [ResendsOnTime]_vars PROVE AllInv'
  OBVIOUS
<1>1. CASE Served
  BY <1>1, ServedStep DEF Served
<1>2. CASE UNCHANGED both
  BY <1>2, ServedStep DEF both
<1> QED
  BY <1>1, <1>2, SaveStep, RestartStep DEF SnapshotNext

(***************************************************************************)
(* docker-compose.yml:54: whenever Redis restarts, from however old a      *)
(* snapshot, a handler still holds what its next call dereferences.        *)
(***************************************************************************)
THEOREM SnapshotTypes == SnapshotSpec => []TypeOK
<1> DEFINE Types == TypeOK /\ snapshot \in Snapshots
<1>1. SnapshotInit => Types
  BY InitType, EmptyFacts DEF SnapshotInit
<1>2. Types /\ [SnapshotNext]_both => Types'
  <2> SUFFICES ASSUME Types, [SnapshotNext]_both PROVE Types'
    OBVIOUS
  <2>1. CASE [Next]_vars /\ UNCHANGED disk
    BY <2>1, NextType DEF disk, Snapshots, PageKeys
  <2>2. CASE SaveSnapshot
    <3>1. TypeOK'
      BY <2>2 DEF SaveSnapshot, vars, TypeOK
    <3> QED
      BY <2>2, <3>1 DEF SaveSnapshot, Redis, Snapshots, TypeOK, PageKeys
  <2>3. CASE RestartRedis
    <3>1. TypeOK'
      BY <2>3 DEF RestartRedis, table, TypeOK, Snapshots
    <3>2. snapshot' \in Snapshots
      BY <2>3, EmptyFacts DEF RestartRedis, Snapshots, PageKeys
    <3> QED
      BY <3>1, <3>2
  <2> QED
    BY <2>1, <2>2, <2>3 DEF SnapshotNext, Served, both
<1>3. Types => TypeOK
  OBVIOUS
<1> QED
  BY <1>1, <1>2, <1>3, PTL DEF SnapshotSpec

(***************************************************************************)
(* The promise of the generations (cached_student.go:50-55) survives any   *)
(* number of restarts of Redis: pages that come back are stale only until  *)
(* the next bump of any writer, as after a bump that was missed, and not   *)
(* at all if the snapshot has the generation of now.  As without restarts, *)
(* a bump that is sent again must not be overtaken, here by a restart too. *)
(***************************************************************************)
THEOREM ListCoherenceOverRestarts ==
    SnapshotSpec /\ [][ResendsOnTime]_vars => []ListCoherent
<1>1. AllInv => ListCoherent
  BY DEF AllInv, ListInv, ListCoherent, Quiet, Settled, PendingWriter, Invalidating, BumpOwed, Owes
<1> QED
  BY <1>1, SnapshotInitInv, SnapshotNextKeepsInv, PTL DEF SnapshotSpec
=============================================================================
