-------------------------- MODULE StudentRequests --------------------------
(***************************************************************************)
(* The /students handlers, the read-through cache they go through and the  *)
(* two stores they share.  One action per call that leaves the process (a  *)
(* query, a Redis command): between two of them any other request may run, *)
(* on this replica or on another one.                                      *)
(*                                                                         *)
(* A request is a record with a program counter.  Requests that fail       *)
(* before they reach a store (400, 401, 403) change nothing and are left   *)
(* out, as is the 500 of a failed JSON encoding.                           *)
(***************************************************************************)
EXTENDS StudentData

CONSTANTS
    Requests,   \* the requests that can be in flight at the same time
    May,        \* the handlers each of them may run
    Uncached,   \* the requests served by a replica that booted without Redis
    Faults,     \* what may go wrong, a subset of FaultKinds
    Gens, Gen0, \* list generations; Gen0 is the generation 0
    MaxWrites   \* bound: write requests begun in a behaviour

Handlers == {"get", "list", "create", "update", "delete"}

\* A call that fails ("get" ... "db"), a Redis SET that go-redis sends twice,
\* a client that goes away (or a server that dies) before the answer.
FaultKinds == {"get", "set", "del", "db", "genGet", "bump", "resend", "abandon"}

ASSUME RequestsAssumption ==
    /\ May \in [Requests -> SUBSET Handlers]
    /\ Uncached \subseteq Requests
    /\ Faults \subseteq FaultKinds
    /\ Nothing \notin Requests

ASSUME GensAssumption == Gen0 \in Gens /\ Nothing \notin Gens

\* time.Now().UnixNano() never gives a generation twice: one is always left.
ASSUME BoundAssumption ==
    MaxWrites \in Nat /\ IsFiniteSet(Gens) /\ MaxWrites < Cardinality(Gens)

VARIABLES
    students,  \* the students table: id -> its last student, deleted or not
    deleted,   \* the ids whose row has a deleted_at
    byId,      \* Redis: student:<id>
    gen,       \* Redis: students:list:gen, Gen0 when the key is absent
    lists,     \* Redis: students:list:g<gen>:...
    younger,   \* the list keys set after students:list:gen was last set
    issued,    \* the generations used so far
    missed,    \* a bump was owed and never sent, or lost with Redis; none came since
    req,       \* the requests in flight
    writes     \* write requests begun so far

table == <<students, deleted>>
keys  == <<gen, lists, younger, issued>>
pages == <<gen, lists, younger, issued, missed>>
vars  == <<students, deleted, byId, gen, lists, younger, issued, missed, req, writes>>

-----------------------------------------------------------------------------
Live == [i \in {j \in Ids : students[j] # Nothing} \ deleted |-> students[i]]
Used == {i \in Ids : students[i] # Nothing}

PageKeys == Gens \X ListParams

Steps == {"idle", "cacheGet", "dbFind", "cacheSet", "exists", "insert", "save",
          "softDelete", "cacheDel", "bump", "genGet", "pageGet", "count", "rows",
          "pageSet", "respond"}

Request == [pc      : Steps,
            handler : Maybe(Handlers),
            id      : Maybe(Ids),
            body    : Maybe(Patch),
            params  : Maybe(ListParams),
            student : Maybe(Student),
            gen     : Maybe(Gens),
            page    : Maybe(Page),
            status  : Maybe(Statuses)]

Idle == [pc |-> "idle", handler |-> Nothing, id |-> Nothing, body |-> Nothing,
         params |-> Nothing, student |-> Nothing, gen |-> Nothing,
         page |-> Nothing, status |-> Nothing]

Init ==
    /\ students = [i \in Ids |-> IF i \in DOMAIN Stored THEN Stored[i] ELSE Nothing]
    /\ deleted = {}
    /\ byId = [i \in Ids |-> Nothing]
    /\ gen = Gen0
    /\ lists = [k \in PageKeys |-> Nothing]
    /\ younger = {}
    /\ issued = {Gen0}
    /\ missed = FALSE
    /\ req = [r \in Requests |-> Idle]
    /\ writes = 0

-----------------------------------------------------------------------------
(***************************************************************************)
(* How a request moves on.                                                 *)
(***************************************************************************)
At(r, step) == req[r].pc = step
Move(r, q)  == req' = [req EXCEPT ![r] = q]
Go(q, step) == [q EXCEPT !.pc = step]
Hold(q, step, student) == [q EXCEPT !.pc = step, !.student = student]

\* The handler is done and has its answer; what it no longer needs is dropped.
Answer(q, status) ==
    [q EXCEPT !.pc = "respond", !.status = status, !.body = Nothing, !.gen = Nothing]

Refuse(q, status) ==
    [Answer(q, status) EXCEPT !.student = Nothing, !.page = Nothing]

\* The write is in the database: the status is settled, the cache is next.
Committed(r, q, status, step) ==
    IF r \in Uncached THEN Answer(q, status)
                      ELSE [q EXCEPT !.pc = step, !.status = status]

\* A write that ends now leaves the bump it owes to the next one.
Misses(owes) == missed' = (missed \/ owes) /\ UNCHANGED keys

\* Slip (mutant): the student to save is computed and dropped.
ReadyWithoutStudent(q, student) == Hold(q, "save", Nothing)

ReadyToSave(q, student) ==
    Hold(q, "save", apply(q.body, student))

\* Slip (mutant): a PUT never looks whether its CPF is taken.
FoundUnchecked(q, student) ==
    CASE q.handler = "get"    -> Answer([q EXCEPT !.student = student], 200)
      [] q.handler = "delete" -> Go(q, "softDelete")
      [] q.handler = "update" -> ReadyToSave(q, student)

\* FindByID has returned a student: what the handler does with it.
Found(q, student) ==
    CASE q.handler = "get"    -> Answer([q EXCEPT !.student = student], 200)
      [] q.handler = "delete" -> Go(q, "softDelete")
      [] q.handler = "update" ->
            IF q.body.cpf \in {Nothing, student.cpf}
            THEN ReadyToSave(q, student)
            ELSE Hold(q, "exists", student)

-----------------------------------------------------------------------------
(***************************************************************************)
(* A request arrives, parsed and valid.                                    *)
(***************************************************************************)
Begin(r, handler, q) ==
    /\ At(r, "idle")
    /\ handler \in May[r]
    /\ Move(r, [q EXCEPT !.handler = handler])
    /\ UNCHANGED <<table, byId, pages>>

LoadStep(r) == IF r \in Uncached THEN "dbFind" ELSE "cacheGet"
ListStep(r) == IF r \in Uncached THEN "count" ELSE "genGet"

CountsAsWrite == writes < MaxWrites /\ writes' = writes + 1

\* Bound: a create begins only while there is an id left for it.
RoomToCreate ==
    Cardinality({r \in Requests : req[r].handler = "create" /\ req[r].status = Nothing})
        < Cardinality(Ids \ Used)

BeginGet(r) ==
    /\ \E i \in Ids : Begin(r, "get", [Idle EXCEPT !.pc = LoadStep(r), !.id = i])
    /\ UNCHANGED writes

BeginList(r) ==
    /\ \E params \in ListParams :
          Begin(r, "list", [Idle EXCEPT !.pc = ListStep(r), !.params = params])
    /\ UNCHANGED writes

BeginCreate(r) ==
    /\ RoomToCreate
    /\ \E body \in Student :
          Begin(r, "create", [Idle EXCEPT !.pc = "exists", !.body = body])
    /\ CountsAsWrite

BeginUpdate(r) ==
    /\ \E i \in Ids, body \in Patch :
          Begin(r, "update", [Idle EXCEPT !.pc = LoadStep(r), !.id = i, !.body = body])
    /\ CountsAsWrite

BeginDelete(r) ==
    /\ \E i \in Ids : Begin(r, "delete", [Idle EXCEPT !.pc = LoadStep(r), !.id = i])
    /\ CountsAsWrite

-----------------------------------------------------------------------------
(***************************************************************************)
(* FindByID: the cache first, then the database, then fill the cache.      *)
(***************************************************************************)
CacheHit(r) ==
    LET q == req[r] IN
    /\ At(r, "cacheGet")
    /\ byId[q.id] # Nothing
    /\ Move(r, Found(q, byId[q.id]))
    /\ UNCHANGED <<table, byId, pages, writes>>

CacheMiss(r) ==
    LET q == req[r] IN
    /\ At(r, "cacheGet")
    /\ byId[q.id] = Nothing \/ "get" \in Faults
    /\ Move(r, Go(q, "dbFind"))
    /\ UNCHANGED <<table, byId, pages, writes>>

DbFind(r) ==
    LET q == req[r] IN
    /\ At(r, "dbFind")
    /\ q.id \in DOMAIN Live
    /\ Move(r, IF r \in Uncached THEN Found(q, Live[q.id])
               ELSE Hold(q, "cacheSet", Live[q.id]))
    /\ UNCHANGED <<table, byId, pages, writes>>

DbFindNone(r) ==
    LET q == req[r] IN
    /\ At(r, "dbFind")
    /\ q.id \notin DOMAIN Live
    /\ Move(r, Refuse(q, 404))
    /\ UNCHANGED <<table, byId, pages, writes>>

CacheSet(r) ==
    LET q == req[r] IN
    /\ At(r, "cacheSet")
    /\ byId' \in {[byId EXCEPT ![q.id] = q.student]}
                   \cup (IF "set" \in Faults THEN {byId} ELSE {})
    /\ Move(r, Found(q, q.student))
    /\ UNCHANGED <<table, pages, writes>>

-----------------------------------------------------------------------------
(***************************************************************************)
(* The three writes, their check of the CPF, and the invalidation.         *)
(***************************************************************************)
Exists(r) ==
    LET q == req[r] IN
    /\ At(r, "exists")
    /\ Move(r, IF ExistsWithCPF(Live, q.body.cpf) THEN Refuse(q, 409)
               ELSE IF q.handler = "create" THEN Go(q, "insert")
               ELSE ReadyToSave(q, q.student))
    /\ UNCHANGED <<table, byId, pages, writes>>

\* INSERT takes an id the table has never used.
Insert(r) ==
    LET q == req[r] IN
    /\ At(r, "insert")
    /\ \E i \in Ids \ Used :
          /\ students' = [students EXCEPT ![i] = q.body]
          /\ Move(r, Committed(r, [q EXCEPT !.id = i, !.student = q.body], 201, "bump"))
    /\ Misses(r \in Uncached)
    /\ UNCHANGED <<deleted, byId, writes>>

\* gorm's Save: UPDATE every column of the row if it is not soft-deleted; when
\* that changes no row, INSERT ... ON CONFLICT (id) DO UPDATE every column,
\* deleted_at (nil in the student the handler holds) included.
Save(r) ==
    LET q == req[r] IN
    /\ At(r, "save")
    /\ students' = [students EXCEPT ![q.id] = q.student]
    /\ deleted' = deleted \ {q.id}
    /\ Move(r, Committed(r, q, 200, "cacheDel"))
    /\ Misses(r \in Uncached)
    /\ UNCHANGED <<byId, writes>>

\* UPDATE ... SET deleted_at; of a row already deleted it changes nothing.
SoftDelete(r) ==
    LET q == req[r] IN
    /\ At(r, "softDelete")
    /\ deleted' = deleted \cup {q.id}
    /\ Move(r, Committed(r, [q EXCEPT !.student = Nothing], 204, "cacheDel"))
    /\ Misses(r \in Uncached)
    /\ UNCHANGED <<students, byId, writes>>

\* Slip (mutant): the entry is not deleted (another key is).
CacheDelMisses(r) ==
    LET q == req[r] IN
    /\ At(r, "cacheDel")
    /\ Move(r, Go(q, "bump"))
    /\ UNCHANGED <<table, byId, pages, writes>>

CacheDel(r) ==
    LET q == req[r] IN
    /\ At(r, "cacheDel")
    /\ byId' \in {[byId EXCEPT ![q.id] = Nothing]}
                   \cup (IF "del" \in Faults THEN {byId} ELSE {})
    /\ Move(r, Go(q, "bump"))
    /\ UNCHANGED <<table, pages, writes>>

\* Slip (mutant): a clock so coarse that a generation can come back.
GenerationsRepeat(q) == IF q.gen = Nothing THEN Gens \ {Gen0} ELSE {q.gen}

\* The generation bumpListGeneration took from the clock: a new one, the same
\* one when its SET is sent again.
Generations(q) == IF q.gen = Nothing THEN Gens \ issued ELSE {q.gen}

SetGeneration(g) ==
    /\ gen' = g
    /\ issued' = issued \cup {g}
    /\ younger' = {}
    /\ missed' = FALSE
    /\ UNCHANGED lists

Bump(r) ==
    LET q == req[r] IN
    /\ At(r, "bump")
    /\ \E g \in Generations(q) : SetGeneration(g)
    /\ Move(r, Answer(q, q.status))
    /\ UNCHANGED <<table, byId, writes>>

BumpFails(r) ==
    /\ At(r, "bump")
    /\ "bump" \in Faults
    /\ Move(r, Answer(req[r], req[r].status))
    /\ Misses(TRUE)
    /\ UNCHANGED <<table, byId, writes>>

\* The SET took effect, its reply was lost, and the client will send it again.
BumpUnacknowledged(r) ==
    LET q == req[r] IN
    /\ At(r, "bump")
    /\ "resend" \in Faults
    /\ \E g \in Generations(q) : SetGeneration(g) /\ Move(r, [q EXCEPT !.gen = g])
    /\ UNCHANGED <<table, byId, writes>>

-----------------------------------------------------------------------------
(***************************************************************************)
(* List: the generation, the page under that generation, then two queries  *)
(* (COUNT and SELECT, no transaction around them), then fill the page.     *)
(***************************************************************************)
GenGet(r) ==
    /\ At(r, "genGet")
    /\ \E g \in {gen} \cup (IF "genGet" \in Faults THEN {Gen0} ELSE {}) :
          Move(r, [req[r] EXCEPT !.pc = "pageGet", !.gen = g])
    /\ UNCHANGED <<table, byId, pages, writes>>

CachedPage(q) == lists[<<q.gen, q.params>>]

PageHit(r) ==
    LET q == req[r] IN
    /\ At(r, "pageGet")
    /\ CachedPage(q) # Nothing
    /\ Move(r, Answer([q EXCEPT !.page = CachedPage(q)], 200))
    /\ UNCHANGED <<table, byId, pages, writes>>

PageMiss(r) ==
    LET q == req[r] IN
    /\ At(r, "pageGet")
    /\ CachedPage(q) = Nothing \/ "get" \in Faults
    /\ Move(r, Go(q, "count"))
    /\ UNCHANGED <<table, byId, pages, writes>>

Count(r) ==
    LET q == req[r] IN
    /\ At(r, "count")
    /\ Move(r, [q EXCEPT !.pc = "rows",
                         !.page = [total |-> CountRows(Live, q.params), rows |-> NoRows]])
    /\ UNCHANGED <<table, byId, pages, writes>>

RowsOf(r) ==
    LET q == req[r]
        page == [total |-> q.page.total, rows |-> FindRows(Live, q.params)]
    IN  [q EXCEPT !.page = page]

Rows(r) ==
    /\ At(r, "rows")
    /\ Move(r, IF r \in Uncached THEN Answer(RowsOf(r), 200) ELSE Go(RowsOf(r), "pageSet"))
    /\ UNCHANGED <<table, byId, pages, writes>>

\* Slip (mutant): the page is stored under the generation of now, not the one read.
PageSetLate(r) ==
    /\ At(r, "pageSet")
    /\ lists' = [lists EXCEPT ![<<gen, req[r].params>>] = req[r].page]
    /\ Move(r, Answer(req[r], 200))
    /\ UNCHANGED <<table, byId, gen, issued, younger, missed, writes>>

PageSet(r) ==
    LET q == req[r]
        key == <<q.gen, q.params>>
    IN
    /\ At(r, "pageSet")
    /\ \/ /\ lists' = [lists EXCEPT ![key] = q.page]
          /\ younger' = IF gen = Gen0 THEN younger ELSE younger \cup {key}
       \/ "set" \in Faults /\ UNCHANGED <<lists, younger>>
    /\ Move(r, Answer(q, 200))
    /\ UNCHANGED <<table, byId, gen, issued, missed, writes>>

-----------------------------------------------------------------------------
Respond(r) ==
    /\ At(r, "respond")
    /\ Move(r, Idle)
    /\ UNCHANGED <<table, byId, pages, writes>>

QuerySteps == {"dbFind", "exists", "insert", "save", "softDelete", "count", "rows"}

DbFails(r) ==
    /\ "db" \in Faults
    /\ req[r].pc \in QuerySteps
    /\ Move(r, Refuse(req[r], 500))
    /\ UNCHANGED <<table, byId, pages, writes>>

\* The request's context is the context of every call: when the client goes
\* away, or the server dies, no later call of the request has an effect.
Abandon(r) ==
    /\ "abandon" \in Faults
    /\ ~At(r, "idle")
    /\ Move(r, Idle)
    /\ Misses(req[r].pc \in {"cacheDel", "bump"})
    /\ UNCHANGED <<table, byId, writes>>

(***************************************************************************)
(* Redis drops a key when its TTL is over.  Every SET uses the same TTL,   *)
(* so the keys set before students:list:gen go before it, and the keys set *)
(* after it go after it.                                                   *)
(***************************************************************************)
\* Slip (mutant): student entries are set without a TTL.
LapseStudentNever(i) == byId[i] # byId[i] /\ UNCHANGED vars

LapseStudent(i) ==
    /\ byId[i] # Nothing
    /\ byId' = [byId EXCEPT ![i] = Nothing]
    /\ UNCHANGED <<table, pages, req, writes>>

LapsePage(k) ==
    /\ lists[k] # Nothing
    /\ k \notin younger
    /\ lists' = [lists EXCEPT ![k] = Nothing]
    /\ UNCHANGED <<table, byId, gen, younger, issued, missed, req, writes>>

LapseGen ==
    /\ gen # Gen0
    /\ \A k \in PageKeys \ younger : lists[k] = Nothing
    /\ gen' = Gen0
    /\ younger' = {}
    /\ UNCHANGED <<table, byId, lists, issued, missed, req, writes>>

-----------------------------------------------------------------------------
Arrive(r) ==
    \/ BeginGet(r) \/ BeginList(r) \/ BeginCreate(r) \/ BeginUpdate(r) \/ BeginDelete(r)

Read(r) ==
    \/ CacheHit(r) \/ CacheMiss(r) \/ DbFind(r) \/ DbFindNone(r) \/ CacheSet(r)
    \/ GenGet(r) \/ PageHit(r) \/ PageMiss(r) \/ Count(r) \/ Rows(r) \/ PageSet(r)

Write(r) ==
    \/ Exists(r) \/ Insert(r) \/ Save(r) \/ SoftDelete(r) \/ CacheDel(r)
    \/ Bump(r) \/ BumpFails(r) \/ BumpUnacknowledged(r)

Serve(r) == Read(r) \/ Write(r) \/ DbFails(r) \/ Respond(r)

Lapse ==
    \/ \E i \in Ids : LapseStudent(i)
    \/ \E k \in PageKeys : LapsePage(k)
    \/ LapseGen

Next == (\E r \in Requests : Arrive(r) \/ Serve(r) \/ Abandon(r)) \/ Lapse

Spec == Init /\ [][Next]_vars
=============================================================================
