------------------------- MODULE StudentProperties -------------------------
(***************************************************************************)
(* What the students API should never do, and what it should do in the     *)
(* end, stated over StudentRequests.                                       *)
(***************************************************************************)
EXTENDS StudentRequests

(***************************************************************************)
(* Type invariant.  Beyond the ranges it says what a handler holds when it *)
(* dereferences it: the id it looks up, the page it looks up, the student  *)
(* it is about to write or to cache.                                       *)
(***************************************************************************)
HoldsWhatItUses(r, q) ==
    /\ q.pc \in {"cacheGet", "dbFind", "cacheSet"} => q.handler \in {"get", "update", "delete"}
    /\ q.pc \in {"cacheGet", "dbFind", "cacheSet", "save", "softDelete", "cacheDel"} => q.id \in Ids
    /\ q.pc \in {"cacheSet", "save"} => q.student \in Student
    /\ q.pc \in {"cacheGet", "dbFind", "cacheSet"} /\ q.handler = "update" => q.body \in Patch
    /\ q.pc = "exists" =>
          \/ q.handler = "create" /\ q.body \in Student
          \/ q.handler = "update" /\ q.id \in Ids /\ q.student \in Student
                /\ q.body \in Patch /\ q.body.cpf \in CPFs
    /\ q.pc = "insert" => q.body \in Student
    /\ q.pc \in {"genGet", "pageGet", "count", "rows", "pageSet"} => q.params \in ListParams
    /\ q.pc \in {"pageGet", "pageSet"} => q.gen \in Gens
    /\ q.pc \in {"count", "rows"} /\ r \notin Uncached => q.gen \in Gens
    /\ q.pc \in {"rows", "pageSet"} => q.page \in Page
    /\ q.pc \in {"cacheDel", "bump", "respond"} => q.status # Nothing

TypeOK ==
    /\ students \in [Ids -> Maybe(Student)]
    /\ deleted \subseteq Ids
    /\ byId \in [Ids -> Maybe(Student)]
    /\ lists \in [PageKeys -> Maybe(Page)]
    /\ younger \subseteq PageKeys
    /\ gen \in Gens
    /\ issued \subseteq Gens
    /\ writes \in 0 .. MaxWrites
    /\ missed \in BOOLEAN
    /\ req \in [Requests -> Request]
    /\ \A r \in Requests : HoldsWhatItUses(r, req[r])

-----------------------------------------------------------------------------
\* A write that is in the database and not yet in the cache.
Invalidating(r) == req[r].pc \in {"cacheDel", "bump"}

PendingWriter == \E r \in Requests : Invalidating(r)

\* The generation key lapsed after it had been set.
GenLost == gen = Gen0 /\ issued # {Gen0}

FreshPage(k) == lists[k] \in {Nothing, Listing(Live, k[2])}

FreshStudent(i) == byId[i] = Nothing \/ (i \in DOMAIN Live /\ byId[i] = Live[i])

(***************************************************************************)
(* The promise of the generations (cached_student.go:50-55): once every    *)
(* write has bumped the generation, each page a listing can reach is the   *)
(* page the database would answer, however slow the fills were, and though *)
(* COUNT and SELECT are two queries with a write possibly in between.  A   *)
(* bump that failed (:91-93), was cut off, or never was sent (a replica    *)
(* without Redis) spoils this only until the next bump, of any writer.     *)
(***************************************************************************)
Quiet == ~PendingWriter /\ ~GenLost /\ ~missed

ListCoherent == Quiet => \A params \in ListParams : FreshPage(<<gen, params>>)

\* A write has committed and not yet sent its bump; one whose bump has no reply
\* yet (and will be sent again) no longer owes it.
Owes(q) == q.pc = "cacheDel" \/ (q.pc = "bump" /\ q.gen = Nothing)

BumpOwed == \E r \in Requests : Owes(req[r])

Settled == ~BumpOwed /\ ~GenLost /\ ~missed

(***************************************************************************)
(* Why ListCoherent holds: its inductive strengthening.  A generation that *)
(* is read, or under which a page is stored, was issued, so a bump leaves  *)
(* every page and every fill in flight behind; a fill under the current    *)
(* generation that has counted, or read its rows, has read what is still   *)
(* in the table, unless a bump is owed (cached_student.go:71-150).         *)
(***************************************************************************)
StepsWithoutGen == {"cacheGet", "dbFind", "cacheSet", "exists", "insert", "save",
                    "softDelete", "cacheDel"}
                      \cup (IF "resend" \in Faults THEN {} ELSE {"bump"})

FreshFill(q) ==
    /\ q.pc = "rows" /\ q.gen = gen => q.page.total = CountRows(Live, q.params)
    /\ q.pc = "pageSet" /\ q.gen = gen => q.page = Listing(Live, q.params)

GenerationsIssued ==
    /\ {gen, Gen0} \subseteq issued
    /\ \A r \in Requests : req[r].gen \in Maybe(issued)
    /\ \A r \in Requests : req[r].pc \in StepsWithoutGen => req[r].gen = Nothing
    /\ \A k \in PageKeys : lists[k] # Nothing => k[1] \in issued

ListInv ==
    /\ GenerationsIssued
    /\ Settled =>
          /\ \A params \in ListParams : FreshPage(<<gen, params>>)
          /\ \A r \in Requests : FreshFill(req[r])

(***************************************************************************)
(* The same without the exception for a lost generation key: the comment   *)
(* on listGeneration (cached_student.go:71-72) says that reading an absent *)
(* key as generation 0 is still correct.                                   *)
(***************************************************************************)
ListCoherentWithoutGen ==
    ~PendingWriter => \A params \in ListParams : FreshPage(<<gen, params>>)

(***************************************************************************)
(* README.md:60: every write invalidates.  Once the writes of a student    *)
(* have deleted its entry, the entry is absent or is the row.              *)
(***************************************************************************)
ByIdCoherent ==
    \A i \in Ids : FreshStudent(i) \/ \E r \in Requests : Invalidating(r) /\ req[r].id = i

\* README.md:13 and :171: no two students a client can see share a CPF.
UniqueCPF == CPFsAreUnique(Live)

(***************************************************************************)
(* README.md:151, handlers_test.go:431-439: a removed student stays        *)
(* removed, though Save writes deleted_at with every other column          *)
(* (student.go:78) of a student that may come from the cache.              *)
(***************************************************************************)
DeletedStaysDeleted == [][deleted \subseteq deleted']_vars

(***************************************************************************)
(* README.md:173: a PUT changes the fields that were sent, of the row as   *)
(* it is, though it saves every column of what it read (handlers.go:247).  *)
(***************************************************************************)
OnlySentFieldsChange ==
    [][\A r \in Requests, i \in Ids :
          At(r, "save") /\ req[r].id = i /\ students'[i] # students[i] =>
              students'[i] \in {apply(patch, students[i]) : patch \in {req[r].body}}]_vars

-----------------------------------------------------------------------------
\* One request in flight, on a replica with Redis, and no write that ends
\* with an entry or a page it should have dropped still there.
OneAtATime ==
    /\ \A r, s \in Requests : r = s
    /\ Uncached = {}
    /\ Faults \cap {"del", "genGet", "bump", "abandon"} = {}

\* The request has nothing to tell its client yet.
Silent(q) == q.status = Nothing

Reads == {"pageGet", "count", "rows", "pageSet"}

\* What the handler has learnt about the rows.
Knows(q) ==
    /\ Silent(q) <=> q.pc \notin {"cacheDel", "bump", "respond"}
    /\ q.pc \notin {"rows", "pageSet", "respond"} => q.page = Nothing
    /\ q.pc \notin {"cacheSet", "exists", "insert", "save", "softDelete", "cacheDel", "bump", "respond"}
          => q.student = Nothing
    /\ q.pc \in {"cacheSet", "save", "softDelete"} => q.id \in DOMAIN Live
    /\ q.pc = "cacheSet" => q.student = Live[q.id]
    /\ q.pc = "exists" /\ q.handler = "update" =>
          q.id \in DOMAIN Live /\ q.student = Live[q.id] /\ q.body.cpf # q.student.cpf
    /\ q.pc = "insert" => ~ExistsWithCPF(Live, q.body.cpf)
    /\ q.pc = "save" =>
          /\ q.body \in Patch /\ q.student = apply(q.body, Live[q.id])
          /\ \A j \in DOMAIN Live \ {q.id} : Live[j].cpf # q.body.cpf

\* What it has learnt about the pages, and the generation it goes by.
Holds(q) ==
    /\ q.pc \notin Reads \cup {"bump"} => q.gen = Nothing
    /\ q.gen \in Maybe(issued)
    /\ q.pc \in Reads /\ q.gen = Gen0 => gen = Gen0
    /\ q.pc = "pageGet" => FreshPage(<<q.gen, q.params>>)
    /\ q.pc = "rows" => q.page.total = CountRows(Live, q.params)
    /\ q.pc = "pageSet" => q.page = Listing(Live, q.params)
    /\ q.pc = "bump" => \A params \in ListParams : q.gen = Nothing \/ lists[<<q.gen, params>>] = Nothing

\* What Redis holds.
CacheInv ==
    /\ {gen, Gen0} \subseteq issued
    /\ \A i \in deleted : students[i] # Nothing
    /\ \A k \in PageKeys : lists[k] # Nothing => k[1] \in issued
    /\ gen # Gen0 => \A params \in ListParams : <<Gen0, params>> \notin younger
    /\ \A i \in Ids : FreshStudent(i) \/ \E r \in Requests : At(r, "cacheDel") /\ req[r].id = i
    /\ ~PendingWriter => \A params \in ListParams : FreshPage(<<gen, params>>)

(***************************************************************************)
(* Why requests that do not overlap can trust the cache: what Redis holds  *)
(* is what the table has, but for what the one writer is about to drop     *)
(* (cached_student.go:158-183), and what the handler has learnt from a     *)
(* cache or a query is still so when it acts on it (handlers.go:152-276).  *)
(***************************************************************************)
SequentialInv ==
    /\ CacheInv
    /\ CPFsAreUnique(Live)
    /\ \A r \in Requests : Knows(req[r]) /\ Holds(req[r])

-----------------------------------------------------------------------------
(***************************************************************************)
(* Refinement.  What a client is being told is settled when the write is   *)
(* committed, or when a read has its answer.                               *)
(***************************************************************************)
Reply(q) == [status |-> q.status, student |-> q.student, page |-> q.page]

Answering == {r \in Requests : req[r].status # Nothing}

reply == IF Answering = {} THEN [status |-> Nothing, student |-> Nothing, page |-> Nothing]
         ELSE Reply(req[CHOOSE r \in Answering : TRUE])

Registry == INSTANCE StudentRegistry WITH live <- Live, used <- Used

\* Requests that do not overlap are served as if there were neither a cache
\* nor intermediate steps: same rows, same answers.
ImplementsRegistry == Registry!Spec

=============================================================================
