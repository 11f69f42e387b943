----------------------- MODULE StudentRequestsProofs -----------------------
(***************************************************************************)
(* Theorems about the students API as it is built: the type invariant, for *)
(* any number of requests, replicas and faults; the coherence of the       *)
(* cached listings, for any number of overlapping readers and writers; and *)
(* which overlaps of writers break what a client was promised.             *)
(***************************************************************************)
EXTENDS StudentProperties, StudentDataLemmas

-----------------------------------------------------------------------------
(***************************************************************************)
(* The type invariant.                                                     *)
(***************************************************************************)

\* The live rows are a table.
LEMMA LiveType ==
    ASSUME TypeOK
    PROVE  Live \in Tables /\ DOMAIN Live \subseteq Ids /\ \A i \in DOMAIN Live : Live[i] \in Student
<1> DEFINE S == {j \in Ids : students[j] # Nothing} \ deleted
<1>1. Live \in [S -> Student]
  BY DEF TypeOK, Live, Maybe
<1> QED
  BY <1>1, TableIntro

LEMMA IdleType ==
    ASSUME NEW r \in Requests
    PROVE  Idle \in Request /\ HoldsWhatItUses(r, Idle)
BY DEF Idle, Request, Steps, Maybe, HoldsWhatItUses

\* A good record is all a step of one request has to produce.
LEMMA MoveType ==
    ASSUME TypeOK, NEW r \in Requests, NEW q \in Request, HoldsWhatItUses(r, q), Move(r, q)
    PROVE  req' \in [Requests -> Request] /\ \A s \in Requests : HoldsWhatItUses(s, req'[s])
<1>1. req' \in [Requests -> Request]
  BY DEF TypeOK, Move
<1>2. \A s \in Requests : req'[s] = IF s = r THEN q ELSE req[s]
  BY DEF TypeOK, Move
<1> QED
  BY <1>1, <1>2 DEF TypeOK

\* The answers, the steps and the nil that a request is updated with.
LEMMA FieldValues ==
    /\ Steps = {"idle", "cacheGet", "dbFind", "cacheSet", "exists", "insert", "save",
                "softDelete", "cacheDel", "bump", "genGet", "pageGet", "count", "rows",
                "pageSet", "respond"}
    /\ \A S : Nothing \in Maybe(S) /\ S \subseteq Maybe(S)
BY DEF Steps, Maybe

LEMMA AnswerType ==
    ASSUME NEW r \in Requests, NEW q \in Request, NEW status \in Statuses
    PROVE  /\ Answer(q, status) \in Request
           /\ HoldsWhatItUses(r, Answer(q, status))
           /\ Refuse(q, status) \in Request
           /\ HoldsWhatItUses(r, Refuse(q, status))
<1> DEFINE a == Answer(q, status)
           b == Refuse(q, status)
<1>1. status # Nothing
  BY NothingAssumption DEF Statuses
<1>2. "respond" \in Steps
  BY FieldValues
<1>3. status \in Maybe(Statuses)
  BY FieldValues
<1>4. /\ Nothing \in Maybe(Patch)
      /\ Nothing \in Maybe(Gens)
      /\ Nothing \in Maybe(Student)
      /\ Nothing \in Maybe(Page)
  BY FieldValues
<1>5. a \in Request
  BY <1>2, <1>3, <1>4, Zenon DEF Answer, Request
<1>6. b \in Request
  BY <1>4, <1>5, Zenon DEF Refuse, Request
<1>7. a.pc = "respond" /\ a.status = status
  BY DEF Answer, Request
<1>8. b.pc = "respond" /\ b.status = status
  BY <1>5, <1>7 DEF Refuse, Request
<1> HIDE DEF a, b
<1>9. HoldsWhatItUses(r, a) /\ HoldsWhatItUses(r, b)
  BY <1>1, <1>7, <1>8 DEF HoldsWhatItUses
<1> QED
  BY <1>5, <1>6, <1>9 DEF a, b

\* Moving to another step touches nothing but the program counter.
LEMMA GoType ==
    ASSUME NEW q \in Request, NEW step \in Steps
    PROVE  /\ Go(q, step) \in Request
           /\ Go(q, step).pc = step
           /\ Go(q, step).handler = q.handler /\ Go(q, step).id = q.id
           /\ Go(q, step).body = q.body /\ Go(q, step).params = q.params
           /\ Go(q, step).student = q.student /\ Go(q, step).gen = q.gen
           /\ Go(q, step).page = q.page /\ Go(q, step).status = q.status
<1>1. Go(q, step) \in Request
  BY Zenon DEF Go, Request
<1> QED
  BY <1>1 DEF Go, Request

\* So does picking up a student, which then can be written.
LEMMA HoldType ==
    ASSUME NEW q \in Request, NEW step \in Steps, NEW student \in Student
    PROVE  /\ Hold(q, step, student) \in Request
           /\ Hold(q, step, student).pc = step
           /\ Hold(q, step, student).student = student
           /\ Hold(q, step, student).handler = q.handler
           /\ Hold(q, step, student).id = q.id
           /\ Hold(q, step, student).body = q.body
           /\ Hold(q, step, student).gen = q.gen
           /\ Hold(q, step, student).status = q.status
<1>1. student \in Maybe(Student)
  BY FieldValues
<1>2. Hold(q, step, student) \in Request
  BY <1>1, Zenon DEF Hold, Request
<1> QED
  BY <1>2 DEF Hold, Request

LEMMA FoundType ==
    ASSUME NEW r \in Requests, NEW q \in Request, NEW student \in Student,
           q.handler \in {"get", "update", "delete"}, q.id \in Ids,
           q.handler = "update" => q.body \in Patch
    PROVE  Found(q, student) \in Request /\ HoldsWhatItUses(r, Found(q, student))
<1>1. CASE q.handler = "get"
  <2> DEFINE a == [q EXCEPT !.student = student]
  <2>1. student \in Maybe(Student)
    BY FieldValues
  <2>2. a \in Request
    BY <2>1, Zenon DEF Request
  <2>3. Found(q, student) = Answer(a, 200)
    BY <1>1 DEF Found
  <2> HIDE DEF a
  <2> QED
    BY <2>2, <2>3, AnswerType DEF Statuses
<1>2. CASE q.handler = "delete"
  <2>1. Found(q, student) = Go(q, "softDelete")
    BY <1>2 DEF Found
  <2>2. "softDelete" \in Steps
    BY FieldValues
  <2>3. Go(q, "softDelete") \in Request /\ Go(q, "softDelete").pc = "softDelete"
        /\ Go(q, "softDelete").id = q.id
    BY <2>2, GoType
  <2> QED
    BY <2>1, <2>3 DEF HoldsWhatItUses
<1>3. CASE q.handler = "update" /\ q.body.cpf \in {Nothing, student.cpf}
  <2>1. Found(q, student) = ReadyToSave(q, student)
    BY <1>3 DEF Found
  <2>2. apply(q.body, student) \in Student /\ "save" \in Steps
    BY <1>3, ApplyIsStudent, FieldValues
  <2> DEFINE a == Hold(q, "save", apply(q.body, student))
  <2>3. a \in Request /\ a.pc = "save" /\ a.student \in Student /\ a.id = q.id
    BY <2>2, HoldType
  <2> HIDE DEF a
  <2>4. HoldsWhatItUses(r, a)
    BY <1>3, <2>3 DEF HoldsWhatItUses
  <2> QED
    BY <2>1, <2>3, <2>4 DEF a, ReadyToSave
<1>4. CASE q.handler = "update" /\ q.body.cpf \notin {Nothing, student.cpf}
  <2> DEFINE a == Hold(q, "exists", student)
  <2>1. Found(q, student) = a
    BY <1>4 DEF Found
  <2>2. "exists" \in Steps /\ q.body.cpf \in CPFs
    BY <1>4, FieldValues DEF Patch, Maybe
  <2>3. a \in Request /\ a.pc = "exists" /\ a.student \in Student
        /\ a.handler = q.handler /\ a.id = q.id /\ a.body = q.body
    BY <2>2, HoldType
  <2> HIDE DEF a
  <2>4. HoldsWhatItUses(r, a)
    BY <1>4, <2>2, <2>3 DEF HoldsWhatItUses
  <2> QED
    BY <2>1, <2>3, <2>4
<1> QED
  BY <1>1, <1>2, <1>3, <1>4

\* After the commit: the answer, or the steps that invalidate the cache.
LEMMA CommittedType ==
    ASSUME NEW r \in Requests, NEW q \in Request, NEW status \in Statuses,
           NEW step \in {"cacheDel", "bump"}, q.id \in Ids
    PROVE  /\ Committed(r, q, status, step) \in Request
           /\ HoldsWhatItUses(r, Committed(r, q, status, step))
<1>1. CASE r \in Uncached
  BY <1>1, AnswerType DEF Committed
<1>2. CASE r \notin Uncached
  <2> DEFINE a == [q EXCEPT !.pc = step, !.status = status]
  <2>1. Committed(r, q, status, step) = a
    BY <1>2 DEF Committed
  <2>2. step \in Steps /\ status \in Maybe(Statuses) /\ status # Nothing
    BY FieldValues, NothingAssumption DEF Statuses
  <2>3. a \in Request
    BY <2>2, Zenon DEF Request
  <2>4. a.pc = step /\ a.status = status /\ a.id = q.id
    BY DEF Request
  <2> HIDE DEF a
  <2>5. HoldsWhatItUses(r, a)
    BY <2>2, <2>4 DEF HoldsWhatItUses
  <2> QED
    BY <2>1, <2>3, <2>5
<1> QED
  BY <1>1, <1>2

\* A record for a new request, once its handler is set.
LEMMA BeginType ==
    ASSUME NEW q \in Request, NEW handler \in Handlers
    PROVE  LET a == [q EXCEPT !.handler = handler]
           IN  a \in Request /\ a.handler = handler /\ a.pc = q.pc /\ a.id = q.id
                 /\ a.body = q.body /\ a.params = q.params /\ a.gen = q.gen
<1>1. handler \in Maybe(Handlers)
  BY FieldValues
<1>2. [q EXCEPT !.handler = handler] \in Request
  BY <1>1, Zenon DEF Request
<1> QED
  BY <1>2 DEF Request

\* The stores and the bookkeeping, everything but the requests.
StoresOK ==
    /\ students \in [Ids -> Maybe(Student)]
    /\ deleted \subseteq Ids
    /\ byId \in [Ids -> Maybe(Student)]
    /\ lists \in [PageKeys -> Maybe(Page)]
    /\ younger \subseteq PageKeys
    /\ gen \in Gens
    /\ issued \subseteq Gens
    /\ writes \in 0 .. MaxWrites
    /\ missed \in BOOLEAN

LEMMA StepType ==
    ASSUME TypeOK, StoresOK', NEW r \in Requests, NEW q \in Request, HoldsWhatItUses(r, q), Move(r, q)
    PROVE  TypeOK'
BY MoveType DEF TypeOK, StoresOK

\* A request arrives: the record it starts with.
LEMMA ArriveRecord ==
    ASSUME TypeOK, NEW r \in Requests, Arrive(r)
    PROVE  /\ StoresOK'
           /\ \E a \in Request :
                 /\ Move(r, a) /\ HoldsWhatItUses(r, a)
                 /\ a.gen = Nothing /\ a.pc \notin {"cacheDel", "bump", "rows", "pageSet"}
           /\ At(r, "idle") /\ UNCHANGED <<table, byId, pages>>
<1> USE DEF Begin
<1>0. /\ Idle \in Request
      /\ \A step \in {"cacheGet", "dbFind", "exists", "genGet", "count"} : step \in Steps
      /\ LoadStep(r) \in {"cacheGet", "dbFind"}
      /\ ListStep(r) \in {"genGet", "count"} /\ (ListStep(r) = "count" => r \in Uncached)
      /\ \A i \in Ids : i \in Maybe(Ids)
      /\ \A params \in ListParams : params \in Maybe(ListParams)
      /\ \A body \in Patch : body \in Maybe(Patch)
      /\ Student \subseteq Patch
  <2>1. Student \subseteq Patch
    BY DEF Student, Patch, Maybe
  <2> QED
    BY <2>1, IdleType, FieldValues DEF LoadStep, ListStep
<1>1. CASE BeginGet(r)
  <2>1. PICK i \in Ids : Begin(r, "get", [Idle EXCEPT !.pc = LoadStep(r), !.id = i])
    BY <1>1 DEF BeginGet
  <2> DEFINE q == [Idle EXCEPT !.pc = LoadStep(r), !.id = i]
             a == [q EXCEPT !.handler = "get"]
  <2>2. LoadStep(r) \in Steps /\ i \in Maybe(Ids)
    BY <1>0
  <2>3. q \in Request
    BY <1>0, <2>2, Zenon DEF Request
  <2>4. q.pc = LoadStep(r) /\ q.id = i /\ q.gen = Nothing
    BY <1>0 DEF Request, Idle
  <2>5. Move(r, a)
    BY <2>1
  <2> HIDE DEF q
  <2>6. a \in Request /\ a.handler = "get" /\ a.pc = LoadStep(r) /\ a.id = i /\ a.gen = Nothing
    BY <2>3, <2>4, BeginType DEF Handlers
  <2> HIDE DEF a
  <2>7. HoldsWhatItUses(r, a)
    BY <1>0, <2>2, <2>6 DEF HoldsWhatItUses
  <2>8. StoresOK' /\ At(r, "idle") /\ UNCHANGED <<table, byId, pages>>
    BY <1>1 DEF BeginGet, TypeOK, StoresOK, table, pages
  <2> QED
    BY <1>0, <2>5, <2>6, <2>7, <2>8
<1>2. CASE BeginDelete(r)
  <2>1. PICK i \in Ids : Begin(r, "delete", [Idle EXCEPT !.pc = LoadStep(r), !.id = i])
    BY <1>2 DEF BeginDelete
  <2> DEFINE q == [Idle EXCEPT !.pc = LoadStep(r), !.id = i]
             a == [q EXCEPT !.handler = "delete"]
  <2>2. LoadStep(r) \in Steps /\ i \in Maybe(Ids)
    BY <1>0
  <2>3. q \in Request
    BY <1>0, <2>2, Zenon DEF Request
  <2>4. q.pc = LoadStep(r) /\ q.id = i /\ q.gen = Nothing
    BY <1>0 DEF Request, Idle
  <2>5. Move(r, a)
    BY <2>1
  <2> HIDE DEF q
  <2>6. a \in Request /\ a.handler = "delete" /\ a.pc = LoadStep(r) /\ a.id = i /\ a.gen = Nothing
    BY <2>3, <2>4, BeginType DEF Handlers
  <2> HIDE DEF a
  <2>7. HoldsWhatItUses(r, a)
    BY <1>0, <2>2, <2>6 DEF HoldsWhatItUses
  <2>8. StoresOK' /\ At(r, "idle") /\ UNCHANGED <<table, byId, pages>>
    BY <1>2, BoundAssumption DEF BeginDelete, CountsAsWrite, TypeOK, StoresOK, table, pages
  <2> QED
    BY <1>0, <2>5, <2>6, <2>7, <2>8
<1>3. CASE BeginUpdate(r)
  <2>1. PICK i \in Ids, body \in Patch : Begin(r, "update", [Idle EXCEPT !.pc = LoadStep(r), !.id = i, !.body = body])
    BY <1>3 DEF BeginUpdate
  <2> DEFINE q == [Idle EXCEPT !.pc = LoadStep(r), !.id = i, !.body = body]
             a == [q EXCEPT !.handler = "update"]
  <2>2. LoadStep(r) \in Steps /\ i \in Maybe(Ids) /\ body \in Maybe(Patch)
    BY <1>0
  <2>3. q \in Request
    BY <1>0, <2>2, Zenon DEF Request
  <2>4. q.pc = LoadStep(r) /\ q.id = i /\ q.body = body /\ q.gen = Nothing
    BY <1>0 DEF Request, Idle
  <2>5. Move(r, a)
    BY <2>1
  <2> HIDE DEF q
  <2>6. a \in Request /\ a.handler = "update" /\ a.pc = LoadStep(r) /\ a.id = i /\ a.body = body /\ a.gen = Nothing
    BY <2>3, <2>4, BeginType DEF Handlers
  <2> HIDE DEF a
  <2>7. HoldsWhatItUses(r, a)
    BY <1>0, <2>2, <2>6 DEF HoldsWhatItUses
  <2>8. StoresOK' /\ At(r, "idle") /\ UNCHANGED <<table, byId, pages>>
    BY <1>3, BoundAssumption DEF BeginUpdate, CountsAsWrite, TypeOK, StoresOK, table, pages
  <2> QED
    BY <1>0, <2>5, <2>6, <2>7, <2>8
<1>4. CASE BeginCreate(r)
  <2>1. PICK body \in Student : Begin(r, "create", [Idle EXCEPT !.pc = "exists", !.body = body])
    BY <1>4 DEF BeginCreate
  <2> DEFINE q == [Idle EXCEPT !.pc = "exists", !.body = body]
             a == [q EXCEPT !.handler = "create"]
  <2>2. "exists" \in Steps /\ body \in Maybe(Patch)
    BY <1>0
  <2>3. q \in Request
    BY <1>0, <2>2, Zenon DEF Request
  <2>4. q.pc = "exists" /\ q.body = body /\ q.gen = Nothing
    BY <1>0 DEF Request, Idle
  <2>5. Move(r, a)
    BY <2>1
  <2> HIDE DEF q
  <2>6. a \in Request /\ a.handler = "create" /\ a.pc = "exists" /\ a.body = body /\ a.gen = Nothing
    BY <2>3, <2>4, BeginType DEF Handlers
  <2> HIDE DEF a
  <2>7. HoldsWhatItUses(r, a)
    BY <1>0, <2>2, <2>6 DEF HoldsWhatItUses
  <2>8. StoresOK' /\ At(r, "idle") /\ UNCHANGED <<table, byId, pages>>
    BY <1>4, BoundAssumption DEF BeginCreate, CountsAsWrite, TypeOK, StoresOK, table, pages
  <2> QED
    BY <1>0, <2>5, <2>6, <2>7, <2>8
<1>5. CASE BeginList(r)
  <2>1. PICK params \in ListParams : Begin(r, "list", [Idle EXCEPT !.pc = ListStep(r), !.params = params])
    BY <1>5 DEF BeginList
  <2> DEFINE q == [Idle EXCEPT !.pc = ListStep(r), !.params = params]
             a == [q EXCEPT !.handler = "list"]
  <2>2. ListStep(r) \in Steps /\ params \in Maybe(ListParams)
    BY <1>0
  <2>3. q \in Request
    BY <1>0, <2>2, Zenon DEF Request
  <2>4. q.pc = ListStep(r) /\ q.params = params /\ q.gen = Nothing
    BY <1>0 DEF Request, Idle
  <2>5. Move(r, a)
    BY <2>1
  <2> HIDE DEF q
  <2>6. a \in Request /\ a.handler = "list" /\ a.pc = ListStep(r) /\ a.params = params /\ a.gen = Nothing
    BY <2>3, <2>4, BeginType DEF Handlers
  <2> HIDE DEF a
  <2>7. HoldsWhatItUses(r, a)
    BY <1>0, <2>2, <2>6 DEF HoldsWhatItUses
  <2>8. StoresOK' /\ At(r, "idle") /\ UNCHANGED <<table, byId, pages>>
    BY <1>5 DEF BeginList, TypeOK, StoresOK, table, pages
  <2> QED
    BY <1>0, <2>5, <2>6, <2>7, <2>8
<1> QED
  BY <1>1, <1>2, <1>3, <1>4, <1>5 DEF Arrive

LEMMA ArriveType ==
    ASSUME TypeOK, NEW r \in Requests, Arrive(r)
    PROVE  TypeOK'
BY ArriveRecord, StepType

\* FindByID and List.
LEMMA ReadType ==
    ASSUME TypeOK, NEW r \in Requests, Read(r)
    PROVE  TypeOK'
<1> DEFINE q == req[r]
<1>0. q \in Request /\ HoldsWhatItUses(r, q)
  BY DEF TypeOK
<1>S. UNCHANGED <<table, byId, pages, writes>> => StoresOK'
  BY DEF TypeOK, StoresOK, table, pages
<1> USE DEF At
<1>1. CASE CacheHit(r)
  <2>1. q.pc = "cacheGet" /\ byId[q.id] # Nothing /\ Move(r, Found(q, byId[q.id]))
    BY <1>1 DEF CacheHit
  <2>2. byId[q.id] \in Student
    BY <1>0, <2>1 DEF HoldsWhatItUses, TypeOK, Maybe
  <2>3. Found(q, byId[q.id]) \in Request /\ HoldsWhatItUses(r, Found(q, byId[q.id]))
    BY <1>0, <2>1, <2>2, FoundType DEF HoldsWhatItUses
  <2> QED
    BY <1>1, <1>S, <2>1, <2>3, StepType DEF CacheHit
<1>2. CASE CacheMiss(r)
  <2>1. q.pc = "cacheGet" /\ Move(r, Go(q, "dbFind")) /\ "dbFind" \in Steps
    BY <1>2, FieldValues DEF CacheMiss
  <2>2. Go(q, "dbFind") \in Request /\ HoldsWhatItUses(r, Go(q, "dbFind"))
    BY <1>0, <2>1, GoType DEF HoldsWhatItUses
  <2> QED
    BY <1>2, <1>S, <2>1, <2>2, StepType DEF CacheMiss
<1>3. CASE DbFind(r)
  <2>1. q.pc = "dbFind" /\ q.id \in DOMAIN Live /\ Live[q.id] \in Student /\ "cacheSet" \in Steps
    BY <1>3, LiveType, FieldValues DEF DbFind
  <2>2. CASE r \in Uncached
    <3>1. Found(q, Live[q.id]) \in Request /\ HoldsWhatItUses(r, Found(q, Live[q.id]))
      BY <1>0, <2>1, FoundType DEF HoldsWhatItUses
    <3> QED
      BY <1>3, <1>S, <2>2, <3>1, StepType DEF DbFind
  <2>3. CASE r \notin Uncached
    <3> DEFINE a == Hold(q, "cacheSet", Live[q.id])
    <3>1. a \in Request /\ HoldsWhatItUses(r, a)
      BY <1>0, <2>1, HoldType DEF HoldsWhatItUses
    <3>2. Move(r, a)
      BY <1>3, <2>3 DEF DbFind
    <3> QED
      BY <1>3, <1>S, <3>1, <3>2, StepType DEF DbFind
  <2> QED
    BY <2>2, <2>3
<1>4. CASE DbFindNone(r)
  <2>1. Refuse(q, 404) \in Request /\ HoldsWhatItUses(r, Refuse(q, 404))
    BY <1>0, AnswerType DEF Statuses
  <2> QED
    BY <1>4, <1>S, <2>1, StepType DEF DbFindNone
<1>5. CASE CacheSet(r)
  <2>1. q.pc = "cacheSet" /\ Move(r, Found(q, q.student))
    BY <1>5 DEF CacheSet
  <2>2. q.student \in Student /\ q.id \in Ids
    BY <1>0, <2>1 DEF HoldsWhatItUses
  <2>3. Found(q, q.student) \in Request /\ HoldsWhatItUses(r, Found(q, q.student))
    BY <1>0, <2>1, <2>2, FoundType DEF HoldsWhatItUses
  <2>4. byId' \in [Ids -> Maybe(Student)]
    BY <1>5, <2>2 DEF CacheSet, TypeOK, Maybe
  <2>5. StoresOK'
    BY <1>5, <2>4 DEF CacheSet, TypeOK, StoresOK, table, pages
  <2> QED
    BY <2>1, <2>3, <2>5, StepType
<1>6. CASE GenGet(r)
  <2>1. PICK g \in Gens : Move(r, [q EXCEPT !.pc = "pageGet", !.gen = g])
    BY <1>6, GensAssumption DEF GenGet, TypeOK
  <2> DEFINE a == [q EXCEPT !.pc = "pageGet", !.gen = g]
  <2>2. "pageGet" \in Steps /\ g \in Maybe(Gens)
    BY FieldValues
  <2>3. a \in Request
    BY <1>0, <2>2, Zenon DEF Request
  <2>4. a.pc = "pageGet" /\ a.gen = g /\ a.params = q.params
    BY <1>0 DEF Request
  <2>5. q.params \in ListParams
    BY <1>0, <1>6 DEF GenGet, HoldsWhatItUses
  <2> HIDE DEF a
  <2>6. HoldsWhatItUses(r, a)
    BY <2>4, <2>5 DEF HoldsWhatItUses
  <2>7. Move(r, a)
    BY <2>1 DEF a
  <2> QED
    BY <1>6, <1>S, <2>3, <2>6, <2>7, StepType DEF GenGet
<1>7. CASE PageHit(r)
  <2> DEFINE a == [q EXCEPT !.page = CachedPage(q)]
  <2>1. q.gen \in Gens /\ q.params \in ListParams /\ CachedPage(q) # Nothing
    BY <1>0, <1>7 DEF PageHit, HoldsWhatItUses
  <2>2. CachedPage(q) \in Maybe(Page)
    BY <2>1 DEF CachedPage, TypeOK, PageKeys
  <2>3. a \in Request
    BY <1>0, <2>2, Zenon DEF Request
  <2> HIDE DEF a
  <2>4. Answer(a, 200) \in Request /\ HoldsWhatItUses(r, Answer(a, 200))
    BY <2>3, AnswerType DEF Statuses
  <2>5. Move(r, Answer(a, 200))
    BY <1>7 DEF PageHit, a
  <2> QED
    BY <1>7, <1>S, <2>4, <2>5, StepType DEF PageHit
<1>8. CASE PageMiss(r)
  <2>1. q.pc = "pageGet" /\ Move(r, Go(q, "count")) /\ "count" \in Steps
    BY <1>8, FieldValues DEF PageMiss
  <2>2. Go(q, "count") \in Request /\ HoldsWhatItUses(r, Go(q, "count"))
    BY <1>0, <2>1, GoType DEF HoldsWhatItUses
  <2> QED
    BY <1>8, <1>S, <2>1, <2>2, StepType DEF PageMiss
<1>9. CASE Count(r)
  <2> DEFINE page == [total |-> CountRows(Live, q.params), rows |-> NoRows]
             a == [q EXCEPT !.pc = "rows", !.page = page]
  <2>1. q.pc = "count" /\ q.params \in ListParams
    BY <1>0, <1>9 DEF Count, HoldsWhatItUses
  <2>2. page \in Page
    <3>1. CountRows(Live, q.params) \in Nat
      BY <2>1, LiveType, CountRowsType
    <3>2. NoRows \in [{} -> Student] /\ {} \in SUBSET Ids
      BY DEF NoRows
    <3>3. NoRows \in Tables
      BY <3>2, TableIntro
    <3> QED
      BY <3>1, <3>3 DEF Page
  <2> HIDE DEF page
  <2>3. "rows" \in Steps /\ page \in Maybe(Page)
    BY <2>2, FieldValues
  <2>4. a \in Request
    BY <1>0, <2>3, Zenon DEF Request
  <2>5. a.pc = "rows" /\ a.page = page /\ a.params = q.params /\ a.gen = q.gen
    BY <1>0 DEF Request
  <2>6. Move(r, a)
    BY <1>9 DEF Count, page
  <2> HIDE DEF a
  <2>7. HoldsWhatItUses(r, a)
    BY <1>0, <2>1, <2>2, <2>5 DEF HoldsWhatItUses
  <2> QED
    BY <1>9, <1>S, <2>4, <2>6, <2>7, StepType DEF Count
<1>10. CASE Rows(r)
  <2> DEFINE page == [total |-> q.page.total, rows |-> FindRows(Live, q.params)]
             a == [q EXCEPT !.page = page]
  <2>1. q.pc = "rows" /\ q.params \in ListParams /\ q.page \in Page
    BY <1>0, <1>10 DEF Rows, HoldsWhatItUses
  <2>2. page \in Page
    BY <2>1, LiveType, FindRowsType DEF Page
  <2>3. RowsOf(r) = a
    BY DEF RowsOf
  <2> HIDE DEF page
  <2>4. page \in Maybe(Page) /\ "pageSet" \in Steps
    BY <2>2, FieldValues
  <2>5. a \in Request
    BY <1>0, <2>4, Zenon DEF Request
  <2>6. a.page = page /\ a.params = q.params /\ a.gen = q.gen
    BY <1>0 DEF Request
  <2> HIDE DEF a
  <2>7. CASE r \in Uncached
    <3>1. Answer(a, 200) \in Request /\ HoldsWhatItUses(r, Answer(a, 200))
      BY <2>5, AnswerType DEF Statuses
    <3> QED
      BY <1>10, <1>S, <2>3, <2>7, <3>1, StepType DEF Rows
  <2>8. CASE r \notin Uncached
    <3>1. Go(a, "pageSet") \in Request /\ HoldsWhatItUses(r, Go(a, "pageSet"))
      BY <1>0, <2>1, <2>2, <2>4, <2>5, <2>6, <2>8, GoType DEF HoldsWhatItUses
    <3> QED
      BY <1>10, <1>S, <2>3, <2>8, <3>1, StepType DEF Rows
  <2> QED
    BY <2>7, <2>8
<1>11. CASE PageSet(r)
  <2>1. q.gen \in Gens /\ q.params \in ListParams /\ q.page \in Page
    BY <1>0, <1>11 DEF PageSet, HoldsWhatItUses
  <2>2. <<q.gen, q.params>> \in PageKeys /\ q.page \in Maybe(Page)
    BY <2>1, FieldValues DEF PageKeys
  <2>3. StoresOK'
    BY <1>11, <2>2 DEF PageSet, TypeOK, StoresOK, table
  <2>4. Answer(q, 200) \in Request /\ HoldsWhatItUses(r, Answer(q, 200))
    BY <1>0, AnswerType DEF Statuses
  <2> QED
    BY <1>11, <2>3, <2>4, StepType DEF PageSet
<1> QED
  BY <1>1, <1>2, <1>3, <1>4, <1>5, <1>6, <1>7, <1>8, <1>9, <1>10, <1>11 DEF Read

\* The three writes, their check of the CPF, and the invalidation.
LEMMA WriteType ==
    ASSUME TypeOK, NEW r \in Requests, Write(r)
    PROVE  TypeOK'
<1> DEFINE q == req[r]
<1>0. q \in Request /\ HoldsWhatItUses(r, q)
  BY DEF TypeOK
<1>S. UNCHANGED <<table, byId, pages, writes>> => StoresOK'
  BY DEF TypeOK, StoresOK, table, pages
<1>G. ASSUME NEW g \in Gens, SetGeneration(g), UNCHANGED <<table, byId, writes>> PROVE StoresOK'
  BY <1>G DEF SetGeneration, TypeOK, StoresOK, table
<1>M. Misses(TRUE) /\ UNCHANGED <<table, byId, writes>> => StoresOK'
  BY DEF Misses, TypeOK, StoresOK, table, keys
<1>N. Generations(q) \subseteq Gens
  BY <1>0 DEF Generations, Request, Maybe
<1> USE DEF At
<1>1. CASE Exists(r)
  <2>1. q.pc = "exists"
    BY <1>1 DEF Exists
  <2>2. CASE ExistsWithCPF(Live, q.body.cpf)
    <3>1. Refuse(q, 409) \in Request /\ HoldsWhatItUses(r, Refuse(q, 409))
      BY <1>0, AnswerType DEF Statuses
    <3> QED
      BY <1>1, <1>S, <2>2, <3>1, StepType DEF Exists
  <2>3. CASE ~ExistsWithCPF(Live, q.body.cpf) /\ q.handler = "create"
    <3>1. "insert" \in Steps /\ q.body \in Student
      BY <1>0, <2>1, <2>3, FieldValues DEF HoldsWhatItUses
    <3>2. Go(q, "insert") \in Request /\ HoldsWhatItUses(r, Go(q, "insert"))
      BY <1>0, <3>1, GoType DEF HoldsWhatItUses
    <3> QED
      BY <1>1, <1>S, <2>3, <3>2, StepType DEF Exists
  <2>4. CASE ~ExistsWithCPF(Live, q.body.cpf) /\ q.handler # "create"
    <3>1. q.id \in Ids /\ q.student \in Student /\ q.body \in Patch /\ "save" \in Steps
      BY <1>0, <2>1, <2>4, FieldValues DEF HoldsWhatItUses
    <3>2. apply(q.body, q.student) \in Student
      BY <3>1, ApplyIsStudent
    <3> DEFINE a == Hold(q, "save", apply(q.body, q.student))
    <3>3. a \in Request /\ HoldsWhatItUses(r, a)
      BY <1>0, <3>1, <3>2, HoldType DEF HoldsWhatItUses
    <3>4. Move(r, a)
      BY <1>1, <2>4 DEF Exists, ReadyToSave
    <3> QED
      BY <1>1, <1>S, <3>3, <3>4, StepType DEF Exists
  <2> QED
    BY <2>2, <2>3, <2>4
<1>2. CASE Insert(r)
  <2>1. q.body \in Student
    BY <1>0, <1>2 DEF Insert, HoldsWhatItUses
  <2>2. PICK i \in Ids \ Used :
           /\ students' = [students EXCEPT ![i] = q.body]
           /\ Move(r, Committed(r, [q EXCEPT !.id = i, !.student = q.body], 201, "bump"))
    BY <1>2 DEF Insert
  <2> DEFINE a == [q EXCEPT !.id = i, !.student = q.body]
  <2>3. i \in Maybe(Ids) /\ q.body \in Maybe(Student) /\ 201 \in Statuses
    BY <2>1, FieldValues DEF Statuses
  <2>4. a \in Request
    BY <1>0, <2>3, Zenon DEF Request
  <2>5. a.id = i
    BY <1>0 DEF Request
  <2> HIDE DEF a
  <2>6. Committed(r, a, 201, "bump") \in Request /\ HoldsWhatItUses(r, Committed(r, a, 201, "bump"))
    BY <2>3, <2>4, <2>5, CommittedType
  <2>7. Move(r, Committed(r, a, 201, "bump"))
    BY <2>2 DEF a
  <2>8. StoresOK'
    BY <1>2, <2>2, <2>3 DEF Insert, Misses, TypeOK, StoresOK, keys
  <2> QED
    BY <2>6, <2>7, <2>8, StepType
<1>3. CASE Save(r)
  <2>1. q.id \in Ids /\ q.student \in Student /\ 200 \in Statuses
    BY <1>0, <1>3 DEF Save, HoldsWhatItUses, Statuses
  <2>2. Committed(r, q, 200, "cacheDel") \in Request
        /\ HoldsWhatItUses(r, Committed(r, q, 200, "cacheDel"))
    BY <1>0, <2>1, CommittedType
  <2>3. StoresOK'
    BY <1>3, <2>1, FieldValues DEF Save, Misses, TypeOK, StoresOK, keys
  <2> QED
    BY <1>3, <2>2, <2>3, StepType DEF Save
<1>4. CASE SoftDelete(r)
  <2> DEFINE a == [q EXCEPT !.student = Nothing]
  <2>1. q.id \in Ids /\ 204 \in Statuses /\ Nothing \in Maybe(Student)
    BY <1>0, <1>4, FieldValues DEF SoftDelete, HoldsWhatItUses, Statuses
  <2>2. a \in Request
    BY <1>0, <2>1, Zenon DEF Request
  <2>3. a.id = q.id
    BY <1>0 DEF Request
  <2> HIDE DEF a
  <2>4. Committed(r, a, 204, "cacheDel") \in Request
        /\ HoldsWhatItUses(r, Committed(r, a, 204, "cacheDel"))
    BY <2>1, <2>2, <2>3, CommittedType
  <2>5. Move(r, Committed(r, a, 204, "cacheDel"))
    BY <1>4 DEF SoftDelete, a
  <2>6. StoresOK'
    BY <1>4, <2>1 DEF SoftDelete, Misses, TypeOK, StoresOK, keys
  <2> QED
    BY <2>4, <2>5, <2>6, StepType
<1>5. CASE CacheDel(r)
  <2>1. q.pc = "cacheDel" /\ q.id \in Ids /\ q.status # Nothing /\ "bump" \in Steps
    BY <1>0, <1>5, FieldValues DEF CacheDel, HoldsWhatItUses
  <2>2. Go(q, "bump") \in Request /\ HoldsWhatItUses(r, Go(q, "bump"))
    BY <1>0, <2>1, GoType DEF HoldsWhatItUses
  <2>3. byId' \in [Ids -> Maybe(Student)]
    BY <1>5, <2>1, FieldValues DEF CacheDel, TypeOK
  <2>4. StoresOK'
    BY <1>5, <2>3 DEF CacheDel, TypeOK, StoresOK, table, pages
  <2> QED
    BY <1>5, <2>2, <2>4, StepType DEF CacheDel
<1>6. CASE Bump(r) \/ BumpFails(r)
  <2>1. q.status \in Statuses
    BY <1>0, <1>6 DEF Bump, BumpFails, HoldsWhatItUses, Request, Maybe
  <2>2. Answer(q, q.status) \in Request /\ HoldsWhatItUses(r, Answer(q, q.status))
    BY <1>0, <2>1, AnswerType
  <2>3. StoresOK'
    BY <1>6, <1>M, <1>G, <1>N DEF Bump, BumpFails
  <2> QED
    BY <1>6, <2>2, <2>3, StepType DEF Bump, BumpFails
<1>7. CASE BumpUnacknowledged(r)
  <2>1. PICK g \in Generations(q) : SetGeneration(g) /\ Move(r, [q EXCEPT !.gen = g])
    BY <1>7 DEF BumpUnacknowledged
  <2> DEFINE a == [q EXCEPT !.gen = g]
  <2>2. g \in Gens /\ g \in Maybe(Gens) /\ q.pc = "bump" /\ q.status # Nothing
    BY <1>0, <1>7, <1>N, FieldValues DEF BumpUnacknowledged, HoldsWhatItUses
  <2>3. a \in Request
    BY <1>0, <2>2, Zenon DEF Request
  <2>4. a.pc = q.pc /\ a.status = q.status
    BY <1>0 DEF Request
  <2>5. Move(r, a)
    BY <2>1
  <2> HIDE DEF a
  <2>6. HoldsWhatItUses(r, a)
    BY <2>2, <2>4 DEF HoldsWhatItUses
  <2>7. StoresOK'
    BY <1>7, <1>G, <2>1, <2>2 DEF BumpUnacknowledged
  <2> QED
    BY <2>3, <2>5, <2>6, <2>7, StepType
<1> QED
  BY <1>1, <1>2, <1>3, <1>4, <1>5, <1>6, <1>7 DEF Write

\* Failures, the end of a request, and expiry.
LEMMA OtherType ==
    ASSUME TypeOK, NEW r \in Requests, DbFails(r) \/ Respond(r) \/ Abandon(r)
    PROVE  TypeOK'
<1>1. StoresOK'
  BY DEF DbFails, Respond, Abandon, Misses, TypeOK, StoresOK, table, pages, keys
<1>2. Refuse(req[r], 500) \in Request /\ HoldsWhatItUses(r, Refuse(req[r], 500))
  BY AnswerType DEF TypeOK, Statuses
<1> QED
  BY <1>1, <1>2, IdleType, StepType DEF DbFails, Respond, Abandon

LEMMA LapseType ==
    ASSUME TypeOK, Lapse
    PROVE  TypeOK'
<1>1. ASSUME NEW i \in Ids, LapseStudent(i) PROVE TypeOK'
  BY <1>1, FieldValues DEF LapseStudent, TypeOK, table, pages
<1>2. ASSUME NEW k \in PageKeys, LapsePage(k) PROVE TypeOK'
  BY <1>2, FieldValues DEF LapsePage, TypeOK, table
<1>3. CASE LapseGen
  BY <1>3, GensAssumption DEF LapseGen, TypeOK, table
<1> QED
  BY <1>1, <1>2, <1>3 DEF Lapse

LEMMA InitType == Init => TypeOK
<1> SUFFICES ASSUME Init PROVE TypeOK
  OBVIOUS
<1>1. students \in [Ids -> Maybe(Student)]
  BY StoredAssumption, TableFacts DEF Init, Maybe
<1>2. req \in [Requests -> Request] /\ \A r \in Requests : HoldsWhatItUses(r, req[r])
  BY IdleType DEF Init
<1>3. missed \in BOOLEAN
  BY DEF Init
<1>4. byId \in [Ids -> Maybe(Student)] /\ lists \in [PageKeys -> Maybe(Page)]
  BY FieldValues DEF Init
<1>5. deleted \subseteq Ids /\ younger \subseteq PageKeys /\ gen \in Gens /\ issued \subseteq Gens
      /\ writes \in 0 .. MaxWrites
  BY GensAssumption, BoundAssumption DEF Init
<1> QED
  BY <1>1, <1>2, <1>3, <1>4, <1>5 DEF TypeOK

LEMMA NextType == TypeOK /\ [Next]_vars => TypeOK'
<1> SUFFICES ASSUME TypeOK, [Next]_vars PROVE TypeOK'
  OBVIOUS
<1>1. CASE Next
  BY <1>1, ArriveType, ReadType, WriteType, OtherType, LapseType DEF Next, Serve
<1>2. CASE UNCHANGED vars
  BY <1>2 DEF vars, TypeOK, Used
<1> QED
  BY <1>1, <1>2

(***************************************************************************)
(* Whatever overlaps and whatever fails, every store and every request has *)
(* a value of its type, and a handler holds what its next call needs: no   *)
(* nil student, page or id is ever dereferenced (handlers.go:152-276,      *)
(* cached_student.go:98-183).                                              *)
(***************************************************************************)
THEOREM TypeCorrectness == Spec => []TypeOK
BY InitType, NextType, PTL DEF Spec

-----------------------------------------------------------------------------
(***************************************************************************)
(* The cached listings are coherent for any number of overlapping readers  *)
(* and writers, on replicas with and without Redis, whatever fails and     *)
(* whoever goes away.  Only a bump that is sent again too late brings an   *)
(* old generation back, with the pages it had (cached_student.go:82-95).   *)
(*                                                                         *)
(* ListInv is inductive together with TypeOK (it is the PagesInv below, of  *)
(* which a strict form is used further down).  A step of a request changes *)
(* nothing but its own record and at most one page: StepKeepsInv covers    *)
(* those steps.  A commit makes its writer pending, or is recorded as      *)
(* missed; a bump installs a generation no page and no fill knows.         *)
(***************************************************************************)
\* A bump that is sent again finds its generation current, and no bump missed.
ResendsOnTime ==
    \A r \in Requests :
       (Bump(r) \/ BumpUnacknowledged(r)) /\ req[r].gen # Nothing => gen = req[r].gen /\ ~missed

\* In particular when nothing is sent again.
NoResend == "resend" \notin Faults

(***************************************************************************)
(* ListInv, and its strict form in which the lapse of the generation key   *)
(* is no excuse for a stale page.                                          *)
(***************************************************************************)
Trusted(strict) == ~BumpOwed /\ ~missed /\ (strict \/ ~GenLost)

PagesInv(strict) ==
    /\ GenerationsIssued
    /\ Trusted(strict) =>
          /\ \A params \in ListParams : FreshPage(<<gen, params>>)
          /\ \A r \in Requests : FreshFill(req[r])

LEMMA ListInvIsPagesInv == ListInv <=> PagesInv(FALSE)
BY DEF ListInv, PagesInv, Settled, Trusted

\* PagesInv does not look at how long a page will live.
LEMMA SameKeepsInv ==
    ASSUME NEW strict \in BOOLEAN, PagesInv(strict),
           UNCHANGED <<students, deleted, gen, issued, missed, lists, req>>
    PROVE  PagesInv(strict)'
BY DEF PagesInv, GenerationsIssued, FreshPage, FreshFill, Live, BumpOwed, Owes, GenLost, Trusted

\* The step of a request that is no commit and no bump.
LEMMA StepKeepsInv ==
    ASSUME NEW strict \in BOOLEAN, TypeOK, PagesInv(strict),
           NEW r \in Requests, NEW q \in Request,
           Move(r, q), UNCHANGED <<students, deleted, gen, issued, missed>>,
           \/ ~Owes(req[r]) /\ q.pc \notin {"cacheDel", "bump"}
           \/ Owes(req[r]) /\ Owes(q),
           q.gen \in Maybe(issued),
           q.pc \in StepsWithoutGen => q.gen = Nothing,
           Trusted(strict) => FreshFill(q),
           \A k \in PageKeys :
              \/ lists'[k] \in {lists[k], Nothing}
              \/ k[1] \in issued /\ (k[1] = gen /\ Trusted(strict) => lists'[k] = Listing(Live, k[2]))
    PROVE  PagesInv(strict)'
<1>1. /\ req' \in [Requests -> Request]
      /\ \A s \in Requests : req'[s] = IF s = r THEN q ELSE req[s]
  BY DEF TypeOK, Move
<1>2. Live' = Live
  BY DEF Live
<1>3. BumpOwed' <=> BumpOwed
  BY <1>1 DEF BumpOwed, Owes
<1>4. GenLost' <=> GenLost
  BY DEF GenLost
<1>5. GenerationsIssued'
  BY <1>1 DEF PagesInv, GenerationsIssued
<1>6. ASSUME Trusted(strict), NEW params \in ListParams PROVE FreshPage(<<gen, params>>)'
  <2>1. gen \in Gens /\ <<gen, params>> \in PageKeys
    BY DEF TypeOK, PageKeys
  <2>2. lists[<<gen, params>>] \in {Nothing, Listing(Live, params)}
    BY <1>6 DEF PagesInv, FreshPage, Trusted
  <2>3. lists'[<<gen, params>>] \in {Nothing, Listing(Live, params)}
    BY <1>6, <2>1, <2>2
  <2> QED
    BY <1>2, <2>3 DEF FreshPage
<1>7. ASSUME Trusted(strict), NEW s \in Requests PROVE FreshFill(req[s])'
  <2>1. FreshFill(req'[s])
    BY <1>1, <1>7 DEF PagesInv, Trusted
  <2> QED
    BY <1>2, <2>1 DEF FreshFill
<1> QED
  BY <1>3, <1>4, <1>5, <1>6, <1>7 DEF PagesInv, Trusted

\* The special case of a step that leaves the pages alone and is no fill.
LEMMA PlainStepKeepsInv ==
    ASSUME NEW strict \in BOOLEAN, TypeOK, PagesInv(strict),
           NEW r \in Requests, NEW q \in Request,
           Move(r, q), UNCHANGED <<students, deleted, gen, issued, missed, lists>>,
           \/ ~Owes(req[r]) /\ q.pc \notin {"cacheDel", "bump"}
           \/ Owes(req[r]) /\ q.pc = "bump",
           q.gen = Nothing, q.pc \notin {"rows", "pageSet"}
    PROVE  PagesInv(strict)'
<1>1. Nothing \in Maybe(issued)
  BY DEF Maybe
<1>2. FreshFill(q) /\ (q.pc = "bump" => Owes(q))
  BY DEF FreshFill, Owes
<1> QED
  BY <1>1, <1>2, StepKeepsInv

\* A commit, or a bump that is missed: whatever the table becomes, one is owed.
LEMMA OwingKeepsInv ==
    ASSUME NEW strict \in BOOLEAN, TypeOK, PagesInv(strict),
           NEW r \in Requests, NEW q \in Request,
           Move(r, q), UNCHANGED <<gen, issued, lists>>,
           q.pc \in {"cacheDel", "bump"} \/ missed', q.gen = Nothing
    PROVE  PagesInv(strict)'
<1>1. /\ req' \in [Requests -> Request]
      /\ \A s \in Requests : req'[s] = IF s = r THEN q ELSE req[s]
  BY DEF TypeOK, Move
<1>2. BumpOwed' \/ missed'
  BY <1>1 DEF BumpOwed, Owes
<1>3. GenerationsIssued'
  BY <1>1 DEF PagesInv, GenerationsIssued, Maybe
<1> QED
  BY <1>2, <1>3 DEF PagesInv, Trusted

\* A bump: no page is stored and no fill is in flight under the new generation.
LEMMA BumpKeepsInv ==
    ASSUME NEW strict \in BOOLEAN, TypeOK, PagesInv(strict),
           NEW r \in Requests, NEW q \in Request, NEW g \in Gens \ issued,
           Move(r, q), SetGeneration(g), q.pc \notin {"rows", "pageSet"},
           q.gen = Nothing \/ (q.gen = g /\ q.pc \notin StepsWithoutGen)
    PROVE  PagesInv(strict)'
<1>1. /\ req' \in [Requests -> Request]
      /\ \A s \in Requests : req'[s] = IF s = r THEN q ELSE req[s]
  BY DEF TypeOK, Move
<1>2. gen' = g /\ issued' = issued \cup {g} /\ lists' = lists
  BY DEF SetGeneration
<1>3. GenerationsIssued'
  BY <1>1, <1>2 DEF PagesInv, GenerationsIssued, Maybe
<1>4. ASSUME NEW params \in ListParams PROVE FreshPage(<<gen, params>>)'
  <2>1. <<g, params>> \in PageKeys
    BY DEF PageKeys
  <2>2. lists[<<g, params>>] = Nothing
    BY <2>1 DEF PagesInv, GenerationsIssued
  <2> QED
    BY <1>2, <2>2 DEF FreshPage
<1>5. ASSUME NEW s \in Requests PROVE FreshFill(req[s])'
  <2>1. req'[s].gen # g \/ req'[s].pc \notin {"rows", "pageSet"}
    <3>1. s # r => req'[s].gen \in Maybe(issued)
      BY <1>1 DEF PagesInv, GenerationsIssued, Maybe
    <3> QED
      BY <1>1, <3>1, GensAssumption DEF Maybe
  <2> QED
    BY <1>2, <2>1 DEF FreshFill
<1> QED
  BY <1>3, <1>4, <1>5 DEF PagesInv

-----------------------------------------------------------------------------
\* The helpers that end a request, or move it to a step of a write.
LEMMA AnswerFields ==
    ASSUME NEW q \in Request, NEW status \in Statuses
    PROVE  /\ Answer(q, status).pc = "respond" /\ Answer(q, status).gen = Nothing
           /\ Refuse(q, status).pc = "respond" /\ Refuse(q, status).gen = Nothing
<1>1. Answer(q, status).pc = "respond" /\ Answer(q, status).gen = Nothing
  BY DEF Answer, Request
<1>2. status \in Maybe(Statuses) /\ "respond" \in Steps /\ Nothing \in Maybe(Patch) /\ Nothing \in Maybe(Gens)
  BY FieldValues
<1>3. Answer(q, status) \in Request
  BY <1>2, Zenon DEF Answer, Request
<1> QED
  BY <1>1, <1>3 DEF Refuse, Request

LEMMA FoundFields ==
    ASSUME NEW q \in Request, NEW student \in Student, q.handler \in {"get", "update", "delete"},
           q.handler = "update" => q.body \in Patch, q.gen = Nothing
    PROVE  /\ Found(q, student).pc \in {"respond", "softDelete", "save", "exists"}
           /\ Found(q, student).gen = Nothing
<1>1. CASE q.handler = "get"
  <2> DEFINE a == [q EXCEPT !.student = student]
  <2>1. student \in Maybe(Student)
    BY FieldValues
  <2>2. a \in Request
    BY <2>1, Zenon DEF Request
  <2>3. Found(q, student) = Answer(a, 200)
    BY <1>1 DEF Found
  <2> HIDE DEF a
  <2> QED
    BY <2>2, <2>3, AnswerFields DEF Statuses
<1>2. CASE q.handler = "delete"
  <2>1. Found(q, student) = Go(q, "softDelete") /\ "softDelete" \in Steps
    BY <1>2, FieldValues DEF Found
  <2> QED
    BY <2>1, GoType
<1>3. CASE q.handler = "update"
  <2>1. apply(q.body, student) \in Student /\ "save" \in Steps /\ "exists" \in Steps
    BY <1>3, ApplyIsStudent, FieldValues
  <2>2. Found(q, student) = Hold(q, "save", apply(q.body, student))
        \/ Found(q, student) = Hold(q, "exists", student)
    BY <1>3 DEF Found, ReadyToSave
  <2> QED
    BY <2>1, <2>2, HoldType
<1> QED
  BY <1>1, <1>2, <1>3

LEMMA CommittedFields ==
    ASSUME NEW r \in Requests, NEW q \in Request, NEW status \in Statuses,
           NEW step \in {"cacheDel", "bump"}, q.gen = Nothing
    PROVE  /\ Committed(r, q, status, step).pc = step \/ r \in Uncached
           /\ Committed(r, q, status, step).gen = Nothing
<1>1. CASE r \in Uncached
  BY <1>1, AnswerFields DEF Committed
<1>2. CASE r \notin Uncached
  BY <1>2 DEF Committed, Request
<1> QED
  BY <1>1, <1>2

-----------------------------------------------------------------------------
(***************************************************************************)
(* The steps, action by action.                                            *)
(***************************************************************************)
LEMMA ArriveKeepsInv ==
    ASSUME NEW strict \in BOOLEAN, TypeOK, PagesInv(strict),
           NEW r \in Requests, Arrive(r)
    PROVE  PagesInv(strict)'
<1>1. PICK a \in Request :
         /\ Move(r, a)
         /\ a.gen = Nothing /\ a.pc \notin {"cacheDel", "bump", "rows", "pageSet"}
  BY ArriveRecord
<1>2. ~Owes(req[r]) /\ UNCHANGED <<students, deleted, gen, issued, missed, lists>>
  BY ArriveRecord DEF At, Owes, table, pages
<1> QED
  BY <1>1, <1>2, PlainStepKeepsInv

LEMMA ReadKeepsInv ==
    ASSUME NEW strict \in BOOLEAN, TypeOK, PagesInv(strict),
           NEW r \in Requests, Read(r)
    PROVE  PagesInv(strict)'
<1> DEFINE q == req[r]
<1>0. q \in Request /\ HoldsWhatItUses(r, q)
  BY DEF TypeOK
<1>N. q.pc \in StepsWithoutGen => q.gen = Nothing
  BY DEF PagesInv, GenerationsIssued
<1>M. q.gen \in Maybe(issued)
  BY DEF PagesInv, GenerationsIssued
<1>A. \A status \in Statuses :
         /\ Answer(q, status) \in Request /\ Refuse(q, status) \in Request
         /\ Answer(q, status).pc = "respond" /\ Answer(q, status).gen = Nothing
         /\ Refuse(q, status).pc = "respond" /\ Refuse(q, status).gen = Nothing
  BY <1>0, AnswerType, AnswerFields
<1>T. UNCHANGED <<table, byId, pages, writes>> => UNCHANGED <<students, deleted, gen, issued, missed, lists>>
  BY DEF table, pages
<1> USE DEF At
<1>1. CASE CacheHit(r)
  <2>1. q.pc = "cacheGet" /\ q.gen = Nothing /\ ~Owes(req[r])
    BY <1>1, <1>N DEF CacheHit, StepsWithoutGen, Owes
  <2>2. byId[q.id] \in Student
    BY <1>0, <1>1 DEF CacheHit, HoldsWhatItUses, TypeOK, Maybe
  <2> DEFINE a == Found(q, byId[q.id])
  <2>3. a \in Request
    BY <1>0, <2>1, <2>2, FoundType DEF HoldsWhatItUses
  <2>4. a.pc \in {"respond", "softDelete", "save", "exists"} /\ a.gen = Nothing
    BY <1>0, <2>1, <2>2, FoundFields DEF HoldsWhatItUses
  <2>5. Move(r, a) /\ UNCHANGED <<students, deleted, gen, issued, missed, lists>>
    BY <1>1, <1>T DEF CacheHit
  <2> HIDE DEF a
  <2> QED
    BY <2>1, <2>3, <2>4, <2>5, PlainStepKeepsInv
<1>2. CASE CacheMiss(r)
  <2>1. q.pc = "cacheGet" /\ q.gen = Nothing /\ ~Owes(req[r]) /\ "dbFind" \in Steps
    BY <1>2, <1>N, FieldValues DEF CacheMiss, StepsWithoutGen, Owes
  <2>2. Go(q, "dbFind") \in Request /\ Go(q, "dbFind").pc = "dbFind" /\ Go(q, "dbFind").gen = Nothing
    BY <1>0, <2>1, GoType
  <2> QED
    BY <1>2, <1>T, <2>1, <2>2, PlainStepKeepsInv DEF CacheMiss
<1>3. CASE DbFind(r)
  <2>1. q.pc = "dbFind" /\ q.gen = Nothing /\ ~Owes(req[r]) /\ "cacheSet" \in Steps
    BY <1>3, <1>N, FieldValues DEF DbFind, StepsWithoutGen, Owes
  <2>2. Live[q.id] \in Student
    BY <1>3, LiveType DEF DbFind
  <2> DEFINE a == IF r \in Uncached THEN Found(q, Live[q.id]) ELSE Hold(q, "cacheSet", Live[q.id])
  <2>3. Move(r, a) /\ UNCHANGED <<students, deleted, gen, issued, missed, lists>>
    BY <1>3, <1>T DEF DbFind
  <2>4. a \in Request /\ a.gen = Nothing
        /\ a.pc \in {"cacheSet", "respond", "softDelete", "save", "exists"}
    <3>1. r \notin Uncached => a = Hold(q, "cacheSet", Live[q.id])
      OBVIOUS
    <3>2. r \notin Uncached => a \in Request /\ a.gen = Nothing /\ a.pc = "cacheSet"
      BY <1>0, <2>1, <2>2, <3>1, HoldType
    <3>3. r \in Uncached => a \in Request /\ a.gen = Nothing
                               /\ a.pc \in {"respond", "softDelete", "save", "exists"}
      BY <1>0, <2>1, <2>2, FoundType, FoundFields DEF HoldsWhatItUses
    <3> HIDE DEF a
    <3> QED
      BY <3>2, <3>3
  <2> HIDE DEF a
  <2> QED
    BY <2>1, <2>3, <2>4, PlainStepKeepsInv
<1>4. CASE DbFindNone(r)
  <2>1. q.pc = "dbFind" /\ ~Owes(req[r]) /\ 404 \in Statuses
    BY <1>4 DEF DbFindNone, Owes, Statuses
  <2> QED
    BY <1>4, <1>A, <1>T, <2>1, PlainStepKeepsInv DEF DbFindNone
<1>5. CASE CacheSet(r)
  <2>1. q.pc = "cacheSet" /\ q.gen = Nothing /\ ~Owes(req[r]) /\ q.student \in Student
    BY <1>0, <1>5, <1>N DEF CacheSet, StepsWithoutGen, Owes, HoldsWhatItUses
  <2> DEFINE a == Found(q, q.student)
  <2>2. a \in Request
    BY <1>0, <2>1, FoundType DEF HoldsWhatItUses
  <2>3. a.pc \in {"respond", "softDelete", "save", "exists"} /\ a.gen = Nothing
    BY <1>0, <2>1, FoundFields DEF HoldsWhatItUses
  <2>4. Move(r, a) /\ UNCHANGED <<students, deleted, gen, issued, missed, lists>>
    BY <1>5 DEF CacheSet, table, pages
  <2> HIDE DEF a
  <2> QED
    BY <2>1, <2>2, <2>3, <2>4, PlainStepKeepsInv
<1>6. CASE GenGet(r)
  <2>1. PICK g \in issued : Move(r, [q EXCEPT !.pc = "pageGet", !.gen = g])
    BY <1>6 DEF GenGet, PagesInv, GenerationsIssued
  <2> DEFINE a == [q EXCEPT !.pc = "pageGet", !.gen = g]
  <2>2. "pageGet" \in Steps /\ g \in Maybe(Gens)
    BY FieldValues DEF TypeOK
  <2>3. a \in Request
    BY <1>0, <2>2, Zenon DEF Request
  <2>4. a.pc = "pageGet" /\ a.gen = g
    BY <1>0 DEF Request
  <2>5. Move(r, a) /\ UNCHANGED <<students, deleted, gen, issued, missed, lists>>
    BY <1>6, <1>T, <2>1 DEF GenGet
  <2> HIDE DEF a
  <2>6. FreshFill(a) /\ a.gen \in Maybe(issued) /\ a.pc \notin StepsWithoutGen
    BY <2>4, FieldValues DEF FreshFill, StepsWithoutGen
  <2>7. ~Owes(req[r])
    BY <1>6 DEF GenGet, Owes
  <2> QED
    BY <2>3, <2>4, <2>5, <2>6, <2>7, StepKeepsInv
<1>7. CASE PageHit(r)
  <2> DEFINE b == [q EXCEPT !.page = CachedPage(q)]
             a == Answer(b, 200)
  <2>1. q.gen \in Gens /\ q.params \in ListParams
    BY <1>0, <1>7 DEF PageHit, HoldsWhatItUses
  <2>2. CachedPage(q) \in Maybe(Page)
    BY <2>1 DEF CachedPage, TypeOK, PageKeys
  <2>3. b \in Request
    BY <1>0, <2>2, Zenon DEF Request
  <2>4. Move(r, a) /\ UNCHANGED <<students, deleted, gen, issued, missed, lists>>
    BY <1>7, <1>T DEF PageHit
  <2> HIDE DEF b
  <2>5. a \in Request /\ a.pc = "respond" /\ a.gen = Nothing
    BY <2>3, AnswerType, AnswerFields DEF Statuses
  <2>6. ~Owes(req[r])
    BY <1>7 DEF PageHit, Owes
  <2> HIDE DEF a
  <2> QED
    BY <2>4, <2>5, <2>6, PlainStepKeepsInv
<1>8. CASE PageMiss(r)
  <2>1. q.pc = "pageGet" /\ ~Owes(req[r]) /\ "count" \in Steps
    BY <1>8, FieldValues DEF PageMiss, Owes
  <2>2. Go(q, "count") \in Request /\ Go(q, "count").pc = "count" /\ Go(q, "count").gen = q.gen
    BY <1>0, <2>1, GoType
  <2>3. FreshFill(Go(q, "count")) /\ Go(q, "count").pc \notin StepsWithoutGen
    BY <2>2 DEF FreshFill, StepsWithoutGen
  <2> QED
    BY <1>8, <1>M, <1>T, <2>1, <2>2, <2>3, StepKeepsInv DEF PageMiss
<1>9. CASE Count(r)
  <2> DEFINE page == [total |-> CountRows(Live, q.params), rows |-> NoRows]
             a == [q EXCEPT !.pc = "rows", !.page = page]
  <2>1. q.pc = "count" /\ q.params \in ListParams /\ ~Owes(req[r])
    BY <1>0, <1>9 DEF Count, HoldsWhatItUses, Owes
  <2>2. page \in Page
    <3>1. CountRows(Live, q.params) \in Nat
      BY <2>1, LiveType, CountRowsType
    <3>2. NoRows \in [{} -> Student] /\ {} \in SUBSET Ids
      BY DEF NoRows
    <3> QED
      BY <3>1, <3>2, TableIntro DEF Page
  <2>3. page.total = CountRows(Live, q.params)
    OBVIOUS
  <2>4. Move(r, a) /\ UNCHANGED <<students, deleted, gen, issued, missed, lists>>
    BY <1>9, <1>T DEF Count
  <2> HIDE DEF page
  <2>5. "rows" \in Steps /\ page \in Maybe(Page)
    BY <2>2, FieldValues
  <2>6. a \in Request
    BY <1>0, <2>5, Zenon DEF Request
  <2>7. a.pc = "rows" /\ a.page = page /\ a.params = q.params /\ a.gen = q.gen
    BY <1>0 DEF Request
  <2> HIDE DEF a
  <2>8. FreshFill(a) /\ a.pc \notin StepsWithoutGen
    BY <2>3, <2>7 DEF FreshFill, StepsWithoutGen
  <2> QED
    BY <1>M, <2>1, <2>4, <2>6, <2>7, <2>8, StepKeepsInv
<1>10. CASE Rows(r)
  <2> DEFINE page == [total |-> q.page.total, rows |-> FindRows(Live, q.params)]
             b == [q EXCEPT !.page = page]
             a == IF r \in Uncached THEN Answer(b, 200) ELSE Go(b, "pageSet")
  <2>1. q.pc = "rows" /\ q.params \in ListParams /\ q.page \in Page /\ ~Owes(req[r])
    BY <1>0, <1>10 DEF Rows, HoldsWhatItUses, Owes
  <2>2. page \in Page
    BY <2>1, LiveType, FindRowsType DEF Page
  <2>3. Trusted(strict) /\ q.gen = gen => page = Listing(Live, q.params)
    BY <2>1 DEF PagesInv, FreshFill, Trusted, Listing
  <2>4. Move(r, a) /\ UNCHANGED <<students, deleted, gen, issued, missed, lists>>
    BY <1>10, <1>T DEF Rows, RowsOf
  <2> HIDE DEF page
  <2>5. "pageSet" \in Steps /\ page \in Maybe(Page)
    BY <2>2, FieldValues
  <2>6. b \in Request
    BY <1>0, <2>5, Zenon DEF Request
  <2>7. b.page = page /\ b.params = q.params /\ b.gen = q.gen
    BY <1>0 DEF Request
  <2> HIDE DEF b
  <2>8. CASE r \in Uncached
    <3>1. a \in Request /\ a.pc = "respond" /\ a.gen = Nothing
      BY <2>6, <2>8, AnswerType, AnswerFields DEF Statuses
    <3> HIDE DEF a
    <3> QED
      BY <2>1, <2>4, <3>1, PlainStepKeepsInv
  <2>9. CASE r \notin Uncached
    <3>1. a \in Request /\ a.pc = "pageSet" /\ a.page = page /\ a.params = q.params /\ a.gen = q.gen
      BY <2>5, <2>6, <2>7, <2>9, GoType
    <3> HIDE DEF a
    <3>2. (Trusted(strict) => FreshFill(a)) /\ a.pc \notin StepsWithoutGen
      BY <2>3, <3>1 DEF FreshFill, StepsWithoutGen
    <3> QED
      BY <1>M, <2>1, <2>4, <3>1, <3>2, StepKeepsInv
  <2> QED
    BY <2>8, <2>9
<1>11. CASE PageSet(r)
  <2> DEFINE a == Answer(q, 200)
             key == <<q.gen, q.params>>
  <2>1. q.pc = "pageSet" /\ q.gen \in Gens /\ q.params \in ListParams /\ ~Owes(req[r])
    BY <1>0, <1>11 DEF PageSet, HoldsWhatItUses, Owes
  <2>2. a \in Request /\ a.pc = "respond" /\ a.gen = Nothing
    BY <1>A DEF Statuses
  <2>3. Trusted(strict) /\ q.gen = gen => q.page = Listing(Live, q.params)
    BY <2>1 DEF PagesInv, FreshFill, Trusted
  <2>4. q.gen \in issued
    BY <1>M, <2>1, GensAssumption DEF Maybe
  <2>5. ASSUME NEW k \in PageKeys
        PROVE  \/ lists'[k] \in {lists[k], Nothing}
               \/ k[1] \in issued /\ (k[1] = gen /\ Trusted(strict) => lists'[k] = Listing(Live, k[2]))
    <3>1. lists' = lists \/ lists' = [lists EXCEPT ![key] = q.page]
      BY <1>11 DEF PageSet
    <3>2. lists'[k] = lists[k] \/ (k = key /\ lists'[k] = q.page)
      BY <3>1 DEF TypeOK
    <3> QED
      BY <2>3, <2>4, <3>2
  <2>6. Move(r, a) /\ UNCHANGED <<students, deleted, gen, issued, missed>>
    BY <1>11 DEF PageSet, table
  <2> HIDE DEF a
  <2>7. FreshFill(a) /\ a.gen \in Maybe(issued)
    BY <2>2, FieldValues DEF FreshFill
  <2> QED
    BY <2>1, <2>2, <2>5, <2>6, <2>7, StepKeepsInv
<1> QED
  BY <1>1, <1>2, <1>3, <1>4, <1>5, <1>6, <1>7, <1>8, <1>9, <1>10, <1>11 DEF Read

LEMMA WriteKeepsInv ==
    ASSUME NEW strict \in BOOLEAN, TypeOK, PagesInv(strict),
           ResendsOnTime, NEW r \in Requests, Write(r)
    PROVE  PagesInv(strict)'
<1> DEFINE q == req[r]
<1>0. q \in Request /\ HoldsWhatItUses(r, q)
  BY DEF TypeOK
<1>N. q.pc \in {"exists", "insert", "save", "softDelete", "cacheDel"} => q.gen = Nothing
  BY DEF PagesInv, GenerationsIssued, StepsWithoutGen
<1>T. UNCHANGED <<table, byId, pages, writes>> => UNCHANGED <<students, deleted, gen, issued, missed, lists>>
  BY DEF table, pages
<1> USE DEF At
<1>1. CASE Exists(r)
  <2>1. q.pc = "exists" /\ q.gen = Nothing /\ ~Owes(req[r])
    BY <1>1, <1>N DEF Exists, Owes
  <2>2. UNCHANGED <<students, deleted, gen, issued, missed, lists>>
    BY <1>1, <1>T DEF Exists
  <2>3. CASE ExistsWithCPF(Live, q.body.cpf)
    <3>1. Refuse(q, 409) \in Request /\ Refuse(q, 409).pc = "respond" /\ Refuse(q, 409).gen = Nothing
      BY <1>0, AnswerType, AnswerFields DEF Statuses
    <3> QED
      BY <1>1, <2>1, <2>2, <2>3, <3>1, PlainStepKeepsInv DEF Exists
  <2>4. CASE ~ExistsWithCPF(Live, q.body.cpf) /\ q.handler = "create"
    <3>1. "insert" \in Steps
      BY FieldValues
    <3>2. Go(q, "insert") \in Request /\ Go(q, "insert").pc = "insert" /\ Go(q, "insert").gen = Nothing
      BY <1>0, <2>1, <3>1, GoType
    <3> QED
      BY <1>1, <2>1, <2>2, <2>4, <3>2, PlainStepKeepsInv DEF Exists
  <2>5. CASE ~ExistsWithCPF(Live, q.body.cpf) /\ q.handler # "create"
    <3>1. q.student \in Student /\ q.body \in Patch /\ "save" \in Steps
      BY <1>0, <2>1, <2>5, FieldValues DEF HoldsWhatItUses
    <3>2. apply(q.body, q.student) \in Student
      BY <3>1, ApplyIsStudent
    <3> DEFINE a == Hold(q, "save", apply(q.body, q.student))
    <3>3. a \in Request /\ a.pc = "save" /\ a.gen = Nothing
      BY <1>0, <2>1, <3>1, <3>2, HoldType
    <3>4. Move(r, a)
      BY <1>1, <2>5 DEF Exists, ReadyToSave
    <3> HIDE DEF a
    <3> QED
      BY <2>1, <2>2, <3>3, <3>4, PlainStepKeepsInv
  <2> QED
    BY <2>3, <2>4, <2>5
<1>2. CASE Insert(r)
  <2>1. q.body \in Student /\ q.gen = Nothing
    BY <1>0, <1>2, <1>N DEF Insert, HoldsWhatItUses
  <2>2. PICK i \in Ids \ Used :
           Move(r, Committed(r, [q EXCEPT !.id = i, !.student = q.body], 201, "bump"))
    BY <1>2 DEF Insert
  <2> DEFINE b == [q EXCEPT !.id = i, !.student = q.body]
             a == Committed(r, b, 201, "bump")
  <2>3. i \in Maybe(Ids) /\ q.body \in Maybe(Student) /\ 201 \in Statuses
    BY <2>1, FieldValues DEF Statuses
  <2>4. b \in Request
    BY <1>0, <2>3, Zenon DEF Request
  <2>5. b.id = i /\ b.gen = Nothing
    BY <1>0, <2>1 DEF Request
  <2>6. Move(r, a)
    BY <2>2
  <2> HIDE DEF b
  <2>7. a \in Request /\ (a.pc = "bump" \/ r \in Uncached) /\ a.gen = Nothing
    BY <1>0, <2>3, <2>4, <2>5, CommittedType, CommittedFields
  <2> HIDE DEF a
  <2>8. UNCHANGED <<gen, issued, lists>> /\ (r \in Uncached => missed')
    BY <1>2 DEF Insert, Misses, keys
  <2> QED
    BY <2>6, <2>7, <2>8, OwingKeepsInv
<1>3. CASE Save(r)
  <2>1. q.id \in Ids /\ q.gen = Nothing /\ 200 \in Statuses
    BY <1>0, <1>3, <1>N DEF Save, HoldsWhatItUses, Statuses
  <2> DEFINE a == Committed(r, q, 200, "cacheDel")
  <2>2. a \in Request /\ (a.pc = "cacheDel" \/ r \in Uncached) /\ a.gen = Nothing
    BY <1>0, <2>1, CommittedType, CommittedFields
  <2>3. Move(r, a) /\ UNCHANGED <<gen, issued, lists>> /\ (r \in Uncached => missed')
    BY <1>3 DEF Save, Misses, keys
  <2> HIDE DEF a
  <2> QED
    BY <2>2, <2>3, OwingKeepsInv
<1>4. CASE SoftDelete(r)
  <2> DEFINE b == [q EXCEPT !.student = Nothing]
             a == Committed(r, b, 204, "cacheDel")
  <2>1. q.id \in Ids /\ q.gen = Nothing /\ 204 \in Statuses /\ Nothing \in Maybe(Student)
    BY <1>0, <1>4, <1>N, FieldValues DEF SoftDelete, HoldsWhatItUses, Statuses
  <2>2. b \in Request
    BY <1>0, <2>1, Zenon DEF Request
  <2>3. b.id = q.id /\ b.gen = Nothing
    BY <1>0, <2>1 DEF Request
  <2>4. Move(r, a) /\ UNCHANGED <<gen, issued, lists>> /\ (r \in Uncached => missed')
    BY <1>4 DEF SoftDelete, Misses, keys
  <2> HIDE DEF b
  <2>5. a \in Request /\ (a.pc = "cacheDel" \/ r \in Uncached) /\ a.gen = Nothing
    BY <1>0, <2>1, <2>2, <2>3, CommittedType, CommittedFields
  <2> HIDE DEF a
  <2> QED
    BY <2>4, <2>5, OwingKeepsInv
<1>5. CASE CacheDel(r)
  <2>1. q.pc = "cacheDel" /\ q.gen = Nothing /\ Owes(req[r]) /\ "bump" \in Steps
    BY <1>5, <1>N, FieldValues DEF CacheDel, Owes
  <2>2. Go(q, "bump") \in Request /\ Go(q, "bump").pc = "bump" /\ Go(q, "bump").gen = Nothing
    BY <1>0, <2>1, GoType
  <2>3. Move(r, Go(q, "bump")) /\ UNCHANGED <<students, deleted, gen, issued, missed, lists>>
    BY <1>5 DEF CacheDel, table, pages
  <2> QED
    BY <2>1, <2>2, <2>3, PlainStepKeepsInv
<1>6. CASE Bump(r)
  <2>1. q.pc = "bump" /\ q.status \in Statuses
    BY <1>0, <1>6 DEF Bump, HoldsWhatItUses, Request, Maybe
  <2>2. PICK g \in Generations(q) : SetGeneration(g)
    BY <1>6 DEF Bump
  <2> DEFINE a == Answer(q, q.status)
  <2>3. a \in Request /\ a.pc = "respond" /\ a.gen = Nothing
    BY <1>0, <2>1, AnswerType, AnswerFields
  <2>4. Move(r, a)
    BY <1>6 DEF Bump
  <2> HIDE DEF a
  <2>5. CASE q.gen = Nothing
    BY <2>2, <2>3, <2>4, <2>5, BumpKeepsInv DEF Generations
  <2>6. CASE q.gen # Nothing
    <3>1. SetGeneration(gen) /\ ~missed
      BY <1>6, <2>2, <2>6 DEF Generations, ResendsOnTime
    <3>2. UNCHANGED <<students, deleted, gen, issued, missed, lists>>
      BY <1>6, <3>1 DEF SetGeneration, Bump, table, PagesInv, GenerationsIssued, TypeOK
    <3> QED
      BY <2>1, <2>3, <2>4, <2>6, <3>2, PlainStepKeepsInv DEF Owes
  <2> QED
    BY <2>5, <2>6
<1>7. CASE BumpFails(r)
  <2>1. q.pc = "bump" /\ q.status \in Statuses
    BY <1>0, <1>7 DEF BumpFails, HoldsWhatItUses, Request, Maybe
  <2> DEFINE a == Answer(q, q.status)
  <2>2. a \in Request /\ a.gen = Nothing
    BY <1>0, <2>1, AnswerType, AnswerFields
  <2>3. Move(r, a) /\ UNCHANGED <<gen, issued, lists>> /\ missed'
    BY <1>7 DEF BumpFails, Misses, keys
  <2> HIDE DEF a
  <2> QED
    BY <2>2, <2>3, OwingKeepsInv
<1>8. CASE BumpUnacknowledged(r)
  <2>1. q.pc = "bump" /\ "bump" \notin StepsWithoutGen
    BY <1>8 DEF BumpUnacknowledged, StepsWithoutGen
  <2>2. PICK g \in Generations(q) : SetGeneration(g) /\ Move(r, [q EXCEPT !.gen = g])
    BY <1>8 DEF BumpUnacknowledged
  <2> DEFINE a == [q EXCEPT !.gen = g]
  <2>3. a.pc = "bump" /\ a.gen = g
    BY <1>0, <2>1 DEF Request
  <2>4. CASE q.gen = Nothing
    <3>1. g \in Gens \ issued /\ g \in Maybe(Gens)
      BY <2>2, <2>4, FieldValues DEF Generations
    <3>2. a \in Request
      BY <1>0, <3>1, Zenon DEF Request
    <3>3. Move(r, a)
      BY <2>2
    <3> HIDE DEF a
    <3> QED
      BY <2>1, <2>2, <2>3, <3>1, <3>2, <3>3, BumpKeepsInv
  <2>5. CASE q.gen # Nothing
    <3>1. g = q.gen /\ g = gen /\ ~missed
      BY <1>8, <2>2, <2>5 DEF Generations, ResendsOnTime
    <3>2. a = q
      BY <1>0, <3>1 DEF Request
    <3>3. req' = req
      BY <2>2, <3>2 DEF Move, TypeOK
    <3>4. UNCHANGED <<students, deleted, gen, issued, missed, lists>>
      BY <1>8, <2>2, <3>1 DEF SetGeneration, BumpUnacknowledged, table, PagesInv, GenerationsIssued,
                              TypeOK
    <3> QED
      BY <3>3, <3>4, SameKeepsInv
  <2> QED
    BY <2>4, <2>5
<1> QED
  BY <1>1, <1>2, <1>3, <1>4, <1>5, <1>6, <1>7, <1>8 DEF Write

LEMMA OtherKeepsInv ==
    ASSUME NEW strict \in BOOLEAN, TypeOK, PagesInv(strict),
           NEW r \in Requests, DbFails(r) \/ Respond(r) \/ Abandon(r)
    PROVE  PagesInv(strict)'
<1> USE DEF At
<1>1. Idle \in Request /\ Idle.pc = "idle" /\ Idle.gen = Nothing
  BY IdleType DEF Idle
<1>2. CASE DbFails(r)
  <2> DEFINE a == Refuse(req[r], 500)
  <2>1. a \in Request /\ a.pc = "respond" /\ a.gen = Nothing
    BY AnswerType, AnswerFields DEF TypeOK, Statuses
  <2>2. Move(r, a) /\ UNCHANGED <<students, deleted, gen, issued, missed, lists>>
    BY <1>2 DEF DbFails, table, pages
  <2>3. ~Owes(req[r])
    BY <1>2 DEF DbFails, Owes, QuerySteps
  <2> HIDE DEF a
  <2> QED
    BY <2>1, <2>2, <2>3, PlainStepKeepsInv
<1>3. CASE Respond(r)
  <2>1. ~Owes(req[r]) /\ Move(r, Idle) /\ UNCHANGED <<students, deleted, gen, issued, missed, lists>>
    BY <1>3 DEF Respond, Owes, table, pages
  <2> QED
    BY <1>1, <2>1, PlainStepKeepsInv
<1>4. CASE Abandon(r)
  <2>1. Move(r, Idle) /\ UNCHANGED <<students, deleted, gen, issued, lists>>
    BY <1>4 DEF Abandon, Misses, table, keys
  <2>2. CASE Invalidating(r)
    <3>1. missed'
      BY <1>4, <2>2 DEF Abandon, Misses, Invalidating
    <3> QED
      BY <1>1, <2>1, <3>1, OwingKeepsInv
  <2>3. CASE ~Invalidating(r)
    <3>1. missed' <=> missed
      BY <1>4, <2>3 DEF Abandon, Misses, Invalidating
    <3>2. missed' = missed /\ ~Owes(req[r])
      BY <1>4, <2>3, <3>1 DEF Abandon, Misses, Invalidating, Owes, TypeOK
    <3> QED
      BY <1>1, <2>1, <2>3, <3>2, PlainStepKeepsInv
  <2> QED
    BY <2>2, <2>3
<1> QED
  BY <1>2, <1>3, <1>4

\* Nothing is stored, or about to be stored, under the generation of an absent key.
Gen0Unknown ==
    /\ \A params \in ListParams : lists[<<Gen0, params>>] = Nothing
    /\ \A r \in Requests : At(r, "rows") \/ At(r, "pageSet") => req[r].gen # Gen0

\* An entry that lapses leaves no stale page; a generation that lapses is lost,
\* or has no page and no fill of generation 0 to give way to.
LEMMA LapseKeepsInv ==
    ASSUME NEW strict \in BOOLEAN, TypeOK, PagesInv(strict),
           Lapse, strict /\ LapseGen => Gen0Unknown
    PROVE  PagesInv(strict)'
<1>0. UNCHANGED <<students, deleted, issued, missed, req>> /\ Live' = Live /\ BumpOwed' = BumpOwed
  BY DEF Lapse, LapseStudent, LapsePage, LapseGen, table, pages, Live, BumpOwed, Owes
<1>1. CASE \E i \in Ids : LapseStudent(i)
  <2>1. UNCHANGED <<gen, lists>>
    BY <1>1 DEF LapseStudent, pages
  <2> QED
    BY <1>0, <2>1 DEF PagesInv, GenerationsIssued, FreshPage, FreshFill, GenLost, Trusted
<1>2. ASSUME NEW k \in PageKeys, LapsePage(k) PROVE PagesInv(strict)'
  <2>1. gen' = gen /\ \A j \in PageKeys : lists'[j] \in {lists[j], Nothing}
    BY <1>2 DEF LapsePage, TypeOK
  <2>2. GenerationsIssued'
    BY <1>0, <2>1 DEF PagesInv, GenerationsIssued
  <2>3. \A params \in ListParams : <<gen, params>> \in PageKeys
    BY DEF TypeOK, PageKeys
  <2> QED
    BY <1>0, <2>1, <2>2, <2>3 DEF PagesInv, FreshPage, FreshFill, GenLost, Trusted
<1>3. CASE LapseGen
  <2>1. gen # Gen0 /\ gen' = Gen0 /\ lists' = lists
    BY <1>3 DEF LapseGen
  <2>2. GenerationsIssued'
    BY <1>0, <2>1 DEF PagesInv, GenerationsIssued
  <2>3. GenLost'
    BY <1>0, <2>1 DEF GenLost, PagesInv, GenerationsIssued
  <2>4. CASE ~strict
    BY <2>2, <2>3, <2>4 DEF PagesInv, Trusted
  <2>5. CASE strict
    <3>1. \A params \in ListParams : FreshPage(<<gen, params>>)'
      BY <1>3, <2>1, <2>5 DEF Gen0Unknown, FreshPage
    <3>2. \A r \in Requests : FreshFill(req[r])'
      BY <1>0, <1>3, <2>1, <2>5 DEF Gen0Unknown, FreshFill, At
    <3> QED
      BY <2>2, <3>1, <3>2 DEF PagesInv
  <2> QED
    BY <2>4, <2>5
<1> QED
  BY <1>1, <1>2, <1>3 DEF Lapse

LEMMA InitKeepsInv == \A strict \in BOOLEAN : Init => PagesInv(strict)
<1> SUFFICES ASSUME NEW strict \in BOOLEAN, Init PROVE PagesInv(strict)
  OBVIOUS
<1>1. \A r \in Requests : req[r].pc = "idle" /\ req[r].gen = Nothing
  BY DEF Init, Idle
<1>2. \A k \in PageKeys : lists[k] = Nothing
  BY DEF Init
<1>3. gen = Gen0 /\ issued = {Gen0} /\ \A params \in ListParams : <<gen, params>> \in PageKeys
  BY GensAssumption DEF Init, PageKeys
<1>4. GenerationsIssued
  BY <1>1, <1>2, <1>3, FieldValues DEF GenerationsIssued, StepsWithoutGen
<1> QED
  BY <1>1, <1>2, <1>3, <1>4 DEF PagesInv, FreshPage, FreshFill

LEMMA NextKeepsPages ==
    \A strict \in BOOLEAN :
       /\ TypeOK /\ PagesInv(strict)
       /\ [Next]_vars /\ [ResendsOnTime /\ (strict /\ LapseGen => Gen0Unknown)]_vars
       => PagesInv(strict)'
<1> SUFFICES ASSUME NEW strict \in BOOLEAN, TypeOK, PagesInv(strict), [Next]_vars,
                    [ResendsOnTime /\ (strict /\ LapseGen => Gen0Unknown)]_vars
             PROVE  PagesInv(strict)'
  OBVIOUS
<1>1. CASE Next /\ ResendsOnTime /\ (strict /\ LapseGen => Gen0Unknown)
  <2>1. CASE Lapse
    BY <1>1, <2>1, LapseKeepsInv
  <2>2. ASSUME NEW r \in Requests, Arrive(r) \/ Serve(r) \/ Abandon(r) PROVE PagesInv(strict)'
    BY <1>1, <2>2, ArriveKeepsInv, ReadKeepsInv, WriteKeepsInv, OtherKeepsInv DEF Serve
  <2> QED
    BY <1>1, <2>1, <2>2 DEF Next
<1>2. CASE UNCHANGED vars
  BY <1>2, SameKeepsInv DEF vars
<1> QED
  BY <1>1, <1>2

LEMMA NextKeepsInv == TypeOK /\ ListInv /\ [Next]_vars /\ [ResendsOnTime]_vars => ListInv'
<1>1. ListInv' <=> PagesInv(FALSE)'
  BY DEF ListInv, PagesInv, Settled, Trusted
<1> QED
  BY <1>1, ListInvIsPagesInv, NextKeepsPages

LEMMA InitInv == Init => ListInv
BY InitKeepsInv, ListInvIsPagesInv

LEMMA NothingIsResent ==
    ASSUME NoResend, ListInv
    PROVE  ResendsOnTime
<1>1. "bump" \in StepsWithoutGen
  BY DEF NoResend, StepsWithoutGen
<1> QED
  BY <1>1 DEF ResendsOnTime, Bump, BumpUnacknowledged, At, ListInv, GenerationsIssued

(***************************************************************************)
(* The reason for the theorems below, and an invariant by itself: a fill   *)
(* of the current generation that is under way (cached_student.go:125-150) *)
(* holds what is still in the table, or a bump is owed.                    *)
(***************************************************************************)
THEOREM FillsAreFresh == Spec /\ [][ResendsOnTime]_vars => [](TypeOK /\ ListInv)
BY InitType, NextType, InitInv, NextKeepsInv, PTL DEF Spec

(***************************************************************************)
(* Once no write is between its commit and its bump, no bump was missed    *)
(* since the last one, and unless the generation key has lapsed, every     *)
(* page a listing can be answered from is the page the database would      *)
(* give: the promise of cached_student.go:50-55, for any number of         *)
(* requests, students, pages and generations, and any faults, as long as   *)
(* a bump that is sent again is not overtaken by another one.              *)
(***************************************************************************)
THEOREM ListCoherenceUnraced == Spec /\ [][ResendsOnTime]_vars => []ListCoherent
<1>1. ListInv => ListCoherent
  BY DEF ListInv, ListCoherent, Quiet, Settled, PendingWriter, Invalidating, BumpOwed, Owes
<1> QED
  BY <1>1, FillsAreFresh, PTL

(***************************************************************************)
(* In particular without bumps that are sent again, whatever else fails.   *)
(***************************************************************************)
THEOREM ListCoherence ==
    ASSUME NoResend
    PROVE  Spec => []ListCoherent
<1>1. TypeOK /\ ListInv /\ [Next]_vars => ListInv'
  BY NothingIsResent, NextKeepsInv
<1>2. ListInv => ListCoherent
  BY DEF ListInv, ListCoherent, Quiet, Settled, PendingWriter, Invalidating, BumpOwed, Owes
<1> QED
  BY <1>1, <1>2, InitType, NextType, InitInv, PTL DEF Spec

(***************************************************************************)
(* The comment on listGeneration (cached_student.go:71-72) says that it is *)
(* still correct to read an absent key as generation 0.  It is, unless a   *)
(* page of generation 0 is stored after a bump, or its rows are about to   *)
(* be read or stored when the key lapses: generation_absent shows this     *)
(* cause, and there is no other.  A page stored before the bump is gone in *)
(* time, since the key was set after it, with the same TTL (:45, :91).     *)
(***************************************************************************)
Gen0FillsOnTime ==
    /\ \A r \in Requests : PageSet(r) /\ req[r].gen = Gen0 => gen = Gen0
    /\ LapseGen => \A r \in Requests : At(r, "rows") \/ At(r, "pageSet") => req[r].gen # Gen0

Gen0LapsesFirst == gen # Gen0 => \A params \in ListParams : <<Gen0, params>> \notin younger

LEMMA LapsesFirstStep ==
    TypeOK /\ Gen0LapsesFirst /\ [Next]_vars /\ [Gen0FillsOnTime]_vars => Gen0LapsesFirst'
<1> SUFFICES ASSUME TypeOK, Gen0LapsesFirst, [Next]_vars, [Gen0FillsOnTime]_vars
             PROVE  Gen0LapsesFirst'
  OBVIOUS
<1>1. CASE UNCHANGED <<gen, younger>>
  BY <1>1 DEF Gen0LapsesFirst
<1>2. CASE younger' = {}
  BY <1>2 DEF Gen0LapsesFirst
<1>3. ASSUME NEW r \in Requests, PageSet(r), Gen0FillsOnTime PROVE Gen0LapsesFirst'
  <2>1. gen' = gen /\ (younger' = younger \/ younger' = younger \cup {<<req[r].gen, req[r].params>>})
    BY <1>3 DEF PageSet
  <2>2. req[r].gen = Gen0 => gen = Gen0
    BY <1>3 DEF Gen0FillsOnTime
  <2> QED
    BY <2>1, <2>2 DEF Gen0LapsesFirst
<1>4. ASSUME NEW r \in Requests, Arrive(r) PROVE UNCHANGED <<gen, younger>>
  BY <1>4, ArriveRecord DEF pages
<1>5. ASSUME NEW r \in Requests, Read(r), ~PageSet(r) PROVE UNCHANGED <<gen, younger>>
  BY <1>5 DEF Read, CacheHit, CacheMiss, DbFind, DbFindNone, CacheSet, GenGet, PageHit,
              PageMiss, Count, Rows, pages
<1>6. ASSUME NEW r \in Requests, Write(r) PROVE UNCHANGED <<gen, younger>> \/ younger' = {}
  BY <1>6 DEF Write, Exists, Insert, Save, SoftDelete, CacheDel, Bump, BumpFails,
              BumpUnacknowledged, SetGeneration, Misses, keys, pages
<1>7. ASSUME NEW r \in Requests, DbFails(r) \/ Respond(r) \/ Abandon(r)
      PROVE  UNCHANGED <<gen, younger>>
  BY <1>7 DEF DbFails, Respond, Abandon, Misses, keys, pages
<1>8. Lapse => UNCHANGED <<gen, younger>> \/ younger' = {}
  BY DEF Lapse, LapseStudent, LapsePage, LapseGen, pages
<1> QED
  BY <1>1, <1>2, <1>3, <1>4, <1>5, <1>6, <1>7, <1>8 DEF Next, Serve, vars

THEOREM AbsentKeyIsCorrectOnTime ==
    Spec /\ []~missed /\ [][ResendsOnTime /\ Gen0FillsOnTime]_vars => []ListCoherentWithoutGen
<1> DEFINE Inv == TypeOK /\ PagesInv(TRUE) /\ Gen0LapsesFirst
<1>1. Init => Inv
  BY InitType, InitKeepsInv DEF Init, Gen0LapsesFirst
<1>2. Inv /\ [Next]_vars /\ [ResendsOnTime /\ Gen0FillsOnTime]_vars => Inv'
  <2> SUFFICES ASSUME Inv, [Next]_vars, [ResendsOnTime /\ Gen0FillsOnTime]_vars PROVE Inv'
    OBVIOUS
  <2>1. ASSUME LapseGen, Gen0FillsOnTime PROVE Gen0Unknown
    <3>1. \A params \in ListParams : <<Gen0, params>> \in PageKeys \ younger
      BY <2>1, GensAssumption DEF LapseGen, Gen0LapsesFirst, PageKeys
    <3> QED
      BY <2>1, <3>1 DEF LapseGen, Gen0Unknown, Gen0FillsOnTime
  <2>2. PagesInv(TRUE)'
    BY <2>1, NextKeepsPages
  <2> QED
    BY <2>2, NextType, LapsesFirstStep
<1>3. Inv /\ ~missed => ListCoherentWithoutGen
  BY DEF PagesInv, Trusted, ListCoherentWithoutGen, PendingWriter, Invalidating, BumpOwed, Owes
<1> QED
  BY <1>1, <1>2, <1>3, PTL DEF Spec

-----------------------------------------------------------------------------
(***************************************************************************)
(* What overlapping writers may not do.  A PUT reads a student and writes  *)
(* it back, whole, some steps later; a POST or a PUT looks a CPF up and    *)
(* writes it some steps later (handlers.go:156-173 and 247-269).           *)
(***************************************************************************)
\* A PUT between its read of student i and its UPDATE.
Updating(q, i) ==
    /\ q.id = i
    /\ q.pc = "save" \/ (q.pc \in {"cacheSet", "exists"} /\ q.handler = "update")

\* A request that will write this CPF and not look it up (again).
WillWrite(q, cpf) ==
    \/ q.pc = "insert" /\ q.body.cpf = cpf
    \/ q.pc = "save" /\ q.student.cpf = cpf
    \/ /\ q.pc = "cacheSet" /\ q.handler = "update"
       /\ q.body.cpf \in {Nothing, q.student.cpf} /\ q.student.cpf = cpf

\* No PUT starts from a cache entry that is not the row.
FreshHits == \A r \in Requests : CacheHit(r) /\ req[r].handler = "update" => FreshStudent(req[r].id)

\* No DELETE, no other PUT, commits while a PUT of the same student is under way.
DeleteSpares == \A r, s \in Requests : SoftDelete(r) => ~Updating(req[s], req[r].id)

SaveSpares == \A r, s \in Requests : Save(r) /\ s # r => ~Updating(req[s], req[r].id)

\* No CPF is written while a request for another student is about to write it.
CPFSpares ==
    \A r, s \in Requests, cpf \in CPFs :
       (Insert(r) \/ Save(r)) /\ s # r /\ WillWrite(req[r], cpf) /\ WillWrite(req[s], cpf) =>
          "insert" \notin {req[r].pc, req[s].pc} /\ req[r].id = req[s].id

-----------------------------------------------------------------------------
\* What a PUT does with the student it has read: it writes it, or looks the new
\* CPF up first.
LEMMA FoundUpdate ==
    ASSUME NEW q \in Request, NEW student \in Student, q.handler = "update", q.body \in Patch
    PROVE  LET p == Found(q, student)
           IN  /\ p.handler = "update" /\ p.id = q.id /\ p.body = q.body
               /\ IF q.body.cpf \in {Nothing, student.cpf}
                  THEN /\ p.pc = "save" /\ p.student = apply(q.body, student)
                       /\ p.student.cpf = student.cpf
                  ELSE p.pc = "exists" /\ p.student = student
<1>1. "save" \in Steps /\ "exists" \in Steps
  BY FieldValues
<1>2. CASE q.body.cpf \in {Nothing, student.cpf}
  <2> DEFINE a == apply(q.body, student)
  <2>1. Found(q, student) = Hold(q, "save", a)
    BY <1>2 DEF Found, ReadyToSave
  <2>2. a \in Student /\ a.cpf = student.cpf
    BY <1>2, ApplyIsStudent DEF apply, OrElse
  <2> HIDE DEF a
  <2>3. /\ Hold(q, "save", a).pc = "save" /\ Hold(q, "save", a).student = a
        /\ Hold(q, "save", a).handler = q.handler /\ Hold(q, "save", a).id = q.id
        /\ Hold(q, "save", a).body = q.body
    BY <1>1, <2>2, HoldType
  <2> QED
    BY <1>2, <2>1, <2>2, <2>3 DEF a
<1>3. CASE q.body.cpf \notin {Nothing, student.cpf}
  <2>1. Found(q, student) = Hold(q, "exists", student)
    BY <1>3 DEF Found
  <2> QED
    BY <1>1, <1>3, <2>1, HoldType
<1> QED
  BY <1>2, <1>3

\* A GET answers it, a DELETE only needs to know that it is there.
LEMMA FoundOther ==
    ASSUME NEW q \in Request, NEW student, q.handler \in {"get", "delete"}
    PROVE  Found(q, student).pc \in {"respond", "softDelete"}
<1>1. CASE q.handler = "get"
  BY <1>1 DEF Found, Answer, Request
<1>2. CASE q.handler = "delete"
  BY <1>2 DEF Found, Go, Request
<1> QED
  BY <1>1, <1>2

\* The program counter after the steps that end a request, or write.
LEMMA NextSteps ==
    ASSUME NEW q, "pc" \in DOMAIN q
    PROVE  /\ \A status : Answer(q, status).pc = "respond" /\ Refuse(q, status).pc = "respond"
           /\ \A step : Go(q, step).pc = step
           /\ \A r, status, step : Committed(r, q, status, step).pc \in {"respond", step}
<1>1. \A status : Answer(q, status).pc = "respond"
  BY DEF Answer
<1>2. \A status : Refuse(q, status).pc = "respond"
  BY <1>1 DEF Refuse, Answer
<1>3. \A step : Go(q, step).pc = step
  BY DEF Go
<1>4. \A r, status, step : Committed(r, q, status, step).pc \in {"respond", step}
  BY <1>1 DEF Committed
<1> QED
  BY <1>1, <1>2, <1>3, <1>4

\* A request that arrives and looks a CPF up is a POST.
LEMMA ArriveAt ==
    ASSUME TypeOK, NEW r \in Requests, Arrive(r)
    PROVE  /\ req'[r].pc \in {"cacheGet", "dbFind", "genGet", "count", "exists"}
           /\ req'[r].pc = "exists" => req'[r].handler = "create"
           /\ req'[r].pc = "cacheGet" => r \notin Uncached
<1> USE DEF Begin, Move, TypeOK, Request, Idle, LoadStep, ListStep
<1>1. CASE BeginGet(r)
  BY <1>1 DEF BeginGet
<1>2. CASE BeginList(r)
  BY <1>2 DEF BeginList
<1>3. CASE BeginCreate(r)
  BY <1>3 DEF BeginCreate
<1>4. CASE BeginUpdate(r)
  BY <1>4 DEF BeginUpdate
<1>5. CASE BeginDelete(r)
  BY <1>5 DEF BeginDelete
<1> QED
  BY <1>1, <1>2, <1>3, <1>4, <1>5 DEF Arrive

\* A step changes one request: the one that takes it.
LEMMA OwnSteps ==
    ASSUME TypeOK, [Next]_vars, NEW r \in Requests, req'[r] # req[r]
    PROVE  Arrive(r) \/ Serve(r) \/ Abandon(r)
<1>1. ~Lapse /\ ~UNCHANGED vars
  BY DEF Lapse, LapseStudent, LapsePage, LapseGen, vars
<1>2. PICK s \in Requests : Arrive(s) \/ Serve(s) \/ Abandon(s)
  BY <1>1 DEF Next
<1>3. \E q : Move(s, q)
  <2>1. Arrive(s) => \E q : Move(s, q)
    BY ArriveRecord
  <2>2. Read(s) => \E q : Move(s, q)
    BY DEF Read, CacheHit, CacheMiss, DbFind, DbFindNone, CacheSet, GenGet, PageHit, PageMiss,
           Count, Rows, PageSet
  <2>3. Write(s) => \E q : Move(s, q)
    BY DEF Write, Exists, Insert, Save, SoftDelete, CacheDel, Bump, BumpFails, BumpUnacknowledged
  <2>4. DbFails(s) \/ Respond(s) \/ Abandon(s) => \E q : Move(s, q)
    BY DEF DbFails, Respond, Abandon
  <2> QED
    BY <1>2, <2>1, <2>2, <2>3, <2>4 DEF Serve
<1>4. s = r
  BY <1>3 DEF Move, TypeOK
<1> QED
  BY <1>2, <1>4

\* The table changes by its three writes.
LEMMA TableSteps ==
    ASSUME TypeOK, [Next]_vars, ~UNCHANGED table
    PROVE  \E r \in Requests : Insert(r) \/ Save(r) \/ SoftDelete(r)
<1> SUFFICES ASSUME ~\E r \in Requests : Insert(r) \/ Save(r) \/ SoftDelete(r)
             PROVE  UNCHANGED table
  OBVIOUS
<1>1. ASSUME NEW r \in Requests, Arrive(r) PROVE UNCHANGED table
  BY <1>1, ArriveRecord
<1>2. ASSUME NEW r \in Requests, Serve(r) PROVE UNCHANGED table
  BY <1>2 DEF Serve, Read, Write, CacheHit, CacheMiss, DbFind, DbFindNone, CacheSet, GenGet,
              PageHit, PageMiss, Count, Rows, PageSet, Exists, CacheDel, Bump, BumpFails,
              BumpUnacknowledged, DbFails, Respond
<1>3. ASSUME NEW r \in Requests, Abandon(r) PROVE UNCHANGED table
  BY <1>3 DEF Abandon
<1>4. Lapse \/ UNCHANGED vars => UNCHANGED table
  BY DEF Lapse, LapseStudent, LapsePage, LapseGen, table, vars
<1> QED
  BY <1>1, <1>2, <1>3, <1>4 DEF Next

\* The steps that lead to a write: nobody gets there in another way.
LEMMA WaysToWrite ==
    ASSUME TypeOK, [Next]_vars, NEW r \in Requests, req'[r] # req[r],
           \/ req'[r].pc \in {"cacheGet", "cacheSet", "insert", "save"}
           \/ req'[r].pc = "exists" /\ req'[r].handler = "update"
    PROVE  \/ CacheHit(r) \/ DbFind(r) \/ CacheSet(r) \/ Exists(r)
           \/ req'[r].pc = "cacheGet" /\ r \notin Uncached
<1> DEFINE q == req[r]
<1>1. q \in Request /\ HoldsWhatItUses(r, q)
  BY DEF TypeOK
<1>2. /\ \A p : Move(r, p) => req'[r] = p
      /\ "pc" \in DOMAIN q
  BY <1>1 DEF Move, TypeOK, Request
<1>3. Arrive(r) => req'[r].pc = "cacheGet" /\ r \notin Uncached
  BY ArriveAt
<1>4. Idle.pc = "idle"
  BY DEF Idle
<1>5. ~Abandon(r) /\ ~Respond(r) /\ ~DbFails(r)
  BY <1>1, <1>2, <1>4, NextSteps DEF Abandon, Respond, DbFails
<1>6. ~CacheMiss(r) /\ ~DbFindNone(r) /\ ~GenGet(r) /\ ~PageHit(r) /\ ~PageMiss(r)
  <2>1. ~CacheMiss(r) /\ ~DbFindNone(r) /\ ~PageMiss(r)
    BY <1>1, <1>2, NextSteps DEF CacheMiss, DbFindNone, PageMiss
  <2>2. ~GenGet(r)
    BY <1>1, <1>2 DEF GenGet, Request
  <2>3. ~PageHit(r)
    BY <1>1, <1>2 DEF PageHit, Answer, Request
  <2> QED
    BY <2>1, <2>2, <2>3
<1>7. ~Count(r) /\ ~Rows(r) /\ ~PageSet(r)
  <2>1. ~Count(r)
    BY <1>1, <1>2 DEF Count, Request
  <2>2. ~Rows(r)
    <3>1. "pc" \in DOMAIN RowsOf(r)
      BY <1>2 DEF RowsOf
    <3>2. Answer(RowsOf(r), 200).pc = "respond" /\ Go(RowsOf(r), "pageSet").pc = "pageSet"
      BY <3>1, NextSteps
    <3> QED
      BY <1>2, <3>2 DEF Rows
  <2>3. ~PageSet(r)
    BY <1>1, <1>2, NextSteps DEF PageSet
  <2> QED
    BY <2>1, <2>2, <2>3
<1>8. ~Insert(r) /\ ~Save(r) /\ ~SoftDelete(r)
  <2>1. ~Insert(r)
    <3> SUFFICES ASSUME Insert(r) PROVE FALSE
      OBVIOUS
    <3>1. PICK i \in Ids : Move(r, Committed(r, [q EXCEPT !.id = i, !.student = q.body], 201, "bump"))
      BY DEF Insert
    <3>2. "pc" \in DOMAIN [q EXCEPT !.id = i, !.student = q.body]
      BY <1>2
    <3>3. Committed(r, [q EXCEPT !.id = i, !.student = q.body], 201, "bump").pc \in {"respond", "bump"}
      BY <3>2, NextSteps
    <3> QED
      BY <1>2, <3>1, <3>3
  <2>2. ~Save(r)
    BY <1>1, <1>2, NextSteps DEF Save
  <2>3. ~SoftDelete(r)
    <3>1. "pc" \in DOMAIN [q EXCEPT !.student = Nothing]
      BY <1>2
    <3> QED
      BY <1>2, <3>1, NextSteps DEF SoftDelete
  <2> QED
    BY <2>1, <2>2, <2>3
<1>9. ~CacheDel(r) /\ ~Bump(r) /\ ~BumpFails(r) /\ ~BumpUnacknowledged(r)
  <2>1. ~CacheDel(r) /\ ~Bump(r) /\ ~BumpFails(r)
    <3>1. CacheDel(r) => Move(r, Go(q, "bump"))
      BY DEF CacheDel
    <3>2. Bump(r) \/ BumpFails(r) => Move(r, Answer(q, q.status))
      BY DEF Bump, BumpFails
    <3> QED
      BY <1>2, <3>1, <3>2, NextSteps
  <2>2. ~BumpUnacknowledged(r)
    BY <1>1, <1>2 DEF BumpUnacknowledged, At, Request
  <2> QED
    BY <2>1, <2>2
<1> QED
  BY <1>3, <1>5, <1>6, <1>7, <1>8, <1>9, OwnSteps DEF Serve, Read, Write

\* FindByID in a PUT: where the student comes from, and what becomes of it.
LEMMA PutReads ==
    ASSUME TypeOK, NEW r \in Requests, CacheHit(r) \/ DbFind(r) \/ CacheSet(r),
           req[r].handler = "update"
    PROVE  /\ UNCHANGED table
           /\ req[r].id \in Ids /\ req[r].body \in Patch
           /\ req'[r].id = req[r].id /\ req'[r].body = req[r].body
           /\ \E student \in Student :
                 /\ \/ CacheHit(r) /\ student = byId[req[r].id]
                    \/ req[r].id \in DOMAIN Live /\ student = Live[req[r].id]
                    \/ req[r].pc = "cacheSet" /\ student = req[r].student
                 /\ \/ req'[r].pc \in {"cacheSet", "exists"} /\ req'[r].student = student
                    \/ /\ req'[r].pc = "save" /\ req'[r].student = apply(req[r].body, student)
                       /\ req'[r].student.cpf = student.cpf
                 /\ req'[r].pc = "save" => req[r].body.cpf \in {Nothing, student.cpf}
                 /\ req'[r].pc = "cacheSet" => req[r].id \in DOMAIN Live /\ student = Live[req[r].id]
<1> DEFINE q == req[r]
<1>1. q \in Request /\ HoldsWhatItUses(r, q) /\ \A p : Move(r, p) => req'[r] = p
  BY DEF TypeOK, Move
<1>2. q.pc \in {"cacheGet", "dbFind", "cacheSet"} /\ UNCHANGED table
  BY DEF CacheHit, DbFind, CacheSet, At
<1>3. q.id \in Ids /\ q.body \in Patch
  BY <1>1, <1>2 DEF HoldsWhatItUses
<1>4. CASE DbFind(r) /\ r \notin Uncached
  <2> DEFINE student == Live[q.id]
  <2>1. q.id \in DOMAIN Live /\ student \in Student /\ "cacheSet" \in Steps
    BY <1>4, LiveType, FieldValues DEF DbFind
  <2>2. req'[r] = Hold(q, "cacheSet", student)
    BY <1>1, <1>4 DEF DbFind
  <2> HIDE DEF student
  <2>3. req'[r].pc = "cacheSet" /\ req'[r].student = student /\ req'[r].id = q.id /\ req'[r].body = q.body
    BY <1>1, <2>1, <2>2, HoldType
  <2> QED
    BY <1>2, <1>3, <2>1, <2>3 DEF student
<1>5. CASE ~(DbFind(r) /\ r \notin Uncached)
  <2>1. PICK student \in Student :
           /\ req'[r] = Found(q, student)
           /\ \/ CacheHit(r) /\ student = byId[q.id]
              \/ q.id \in DOMAIN Live /\ student = Live[q.id]
              \/ q.pc = "cacheSet" /\ student = q.student
    <3>1. CASE CacheHit(r)
      <4>1. byId[q.id] \in Student
        BY <1>3, <3>1 DEF CacheHit, TypeOK, Maybe
      <4> QED
        BY <1>1, <3>1, <4>1 DEF CacheHit
    <3>2. CASE DbFind(r)
      BY <1>1, <1>5, <3>2, LiveType DEF DbFind
    <3>3. CASE CacheSet(r)
      BY <1>1, <3>3 DEF CacheSet, At, HoldsWhatItUses
    <3> QED
      BY <3>1, <3>2, <3>3
  <2>2. LET p == Found(q, student)
        IN  /\ p.handler = "update" /\ p.id = q.id /\ p.body = q.body
            /\ IF q.body.cpf \in {Nothing, student.cpf}
               THEN /\ p.pc = "save" /\ p.student = apply(q.body, student)
                    /\ p.student.cpf = student.cpf
               ELSE p.pc = "exists" /\ p.student = student
    BY <1>1, <1>3, FoundUpdate
  <2> QED
    BY <1>2, <1>3, <2>1, <2>2
<1> QED
  BY <1>4, <1>5

\* A GET or a DELETE reads a student and does not write it.
LEMMA OthersRead ==
    ASSUME TypeOK, NEW r \in Requests, CacheHit(r) \/ DbFind(r) \/ CacheSet(r),
           req[r].handler # "update"
    PROVE  /\ req'[r].pc \in {"respond", "softDelete", "cacheSet"}
           /\ req'[r].pc = "cacheSet" => req'[r].handler # "update"
<1> DEFINE q == req[r]
<1>1. q \in Request /\ HoldsWhatItUses(r, q) /\ \A p : Move(r, p) => req'[r] = p
  BY DEF TypeOK, Move
<1>2. q.handler \in {"get", "delete"}
  BY <1>1 DEF CacheHit, DbFind, CacheSet, At, HoldsWhatItUses
<1>3. CASE \E student : req'[r] = Found(q, student)
  BY <1>1, <1>2, <1>3, FoundOther
<1>4. CASE DbFind(r) /\ r \notin Uncached
  <2> DEFINE student == Live[q.id]
  <2>1. student \in Student /\ "cacheSet" \in Steps
    BY <1>4, LiveType, FieldValues DEF DbFind
  <2>2. req'[r] = Hold(q, "cacheSet", student)
    BY <1>1, <1>4 DEF DbFind
  <2> HIDE DEF student
  <2> QED
    BY <1>1, <1>2, <2>1, <2>2, HoldType
<1> QED
  BY <1>1, <1>3, <1>4 DEF CacheHit, DbFind, CacheSet

\* The lookup of a CPF, in a POST and in a PUT.
LEMMA LooksUp ==
    ASSUME TypeOK, NEW r \in Requests, Exists(r)
    PROVE  /\ UNCHANGED table
           /\ \/ req'[r].pc = "respond"
              \/ /\ req'[r].pc = "insert" /\ req'[r].body = req[r].body
                 /\ ~ExistsWithCPF(Live, req[r].body.cpf)
              \/ /\ req[r].handler = "update" /\ req[r].id \in Ids
                 /\ req[r].student \in Student /\ req[r].body \in Patch
                 /\ req'[r].pc = "save" /\ req'[r].id = req[r].id /\ req'[r].body = req[r].body
                 /\ req'[r].student = apply(req[r].body, req[r].student)
                 /\ req'[r].student.cpf = req[r].body.cpf
                 /\ ~ExistsWithCPF(Live, req[r].body.cpf)
<1> DEFINE q == req[r]
<1>1. /\ q \in Request /\ "pc" \in DOMAIN q /\ HoldsWhatItUses(r, q)
      /\ \A p : Move(r, p) => req'[r] = p
  BY DEF TypeOK, Move, Request
<1>2. UNCHANGED table /\ q.pc = "exists"
  BY DEF Exists, At
<1>3. CASE ExistsWithCPF(Live, q.body.cpf)
  BY <1>1, <1>2, <1>3, NextSteps DEF Exists
<1>4. CASE ~ExistsWithCPF(Live, q.body.cpf) /\ q.handler = "create"
  <2>1. req'[r] = Go(q, "insert") /\ "insert" \in Steps
    BY <1>1, <1>4, FieldValues DEF Exists
  <2> QED
    BY <1>1, <1>2, <1>4, <2>1, GoType
<1>5. CASE ~ExistsWithCPF(Live, q.body.cpf) /\ q.handler # "create"
  <2> DEFINE a == apply(q.body, q.student)
  <2>1. /\ q.handler = "update" /\ q.id \in Ids /\ q.student \in Student
        /\ q.body \in Patch /\ q.body.cpf \in CPFs
    BY <1>1, <1>2, <1>5 DEF HoldsWhatItUses
  <2>2. a \in Student /\ a.cpf = q.body.cpf
    BY <2>1, ApplyIsStudent, NothingAssumption DEF apply, OrElse
  <2>3. req'[r] = Hold(q, "save", a) /\ "save" \in Steps
    BY <1>1, <1>5, FieldValues DEF Exists, ReadyToSave
  <2> HIDE DEF a
  <2>4. req'[r].pc = "save" /\ req'[r].student = a /\ req'[r].id = q.id /\ req'[r].body = q.body
    BY <1>1, <2>2, <2>3, HoldType
  <2> QED
    BY <1>2, <1>5, <2>1, <2>2, <2>4 DEF a
<1> QED
  BY <1>3, <1>4, <1>5

-----------------------------------------------------------------------------
\* How a PUT comes to have a student it will write.
LEMMA UpdatingStep ==
    ASSUME TypeOK, [Next]_vars, NEW r \in Requests, NEW i \in Ids,
           req'[r] # req[r], Updating(req'[r], i)
    PROVE  /\ UNCHANGED table
           /\ \E student \in Student :
                 /\ \/ /\ CacheHit(r) /\ req[r].handler = "update" /\ req[r].id = i
                       /\ student = byId[i]
                    \/ i \in DOMAIN Live /\ student = Live[i]
                    \/ Updating(req[r], i) /\ req[r].pc # "save" /\ student = req[r].student
                 /\ req'[r].student = IF req'[r].pc = "save" THEN apply(req'[r].body, student)
                                                            ELSE student
<1>1. CacheHit(r) \/ DbFind(r) \/ CacheSet(r) \/ Exists(r)
  BY WaysToWrite DEF Updating
<1>2. CASE (CacheHit(r) \/ DbFind(r) \/ CacheSet(r)) /\ req[r].handler = "update"
  BY <1>2, PutReads DEF Updating
<1>3. CASE (CacheHit(r) \/ DbFind(r) \/ CacheSet(r)) /\ req[r].handler # "update"
  BY <1>3, OthersRead DEF Updating
<1>4. CASE Exists(r)
  <2>1. req[r].pc = "exists"
    BY <1>4 DEF Exists, At
  <2> QED
    BY <1>4, <2>1, LooksUp DEF Updating
<1> QED
  BY <1>1, <1>2, <1>3, <1>4

\* How a request comes to be about to write a CPF.
LEMMA WillWriteStep ==
    ASSUME TypeOK, [Next]_vars, NEW r \in Requests, NEW cpf,
           req'[r] # req[r], WillWrite(req'[r], cpf)
    PROVE  /\ UNCHANGED table
           /\ \/ ~ExistsWithCPF(Live, cpf)
              \/ /\ req'[r].pc # "insert" /\ req'[r].id = req[r].id
                 /\ \/ WillWrite(req[r], cpf) /\ req[r].pc # "insert"
                    \/ req[r].id \in DOMAIN Live /\ Live[req[r].id].cpf = cpf
                    \/ /\ CacheHit(r) /\ req[r].handler = "update" /\ req[r].id \in Ids
                       /\ byId[req[r].id].cpf = cpf
<1>1. CacheHit(r) \/ DbFind(r) \/ CacheSet(r) \/ Exists(r)
  BY WaysToWrite DEF WillWrite
<1>2. CASE (CacheHit(r) \/ DbFind(r) \/ CacheSet(r)) /\ req[r].handler = "update"
  <2>1. PICK student \in Student :
           /\ \/ CacheHit(r) /\ student = byId[req[r].id]
              \/ req[r].id \in DOMAIN Live /\ student = Live[req[r].id]
              \/ req[r].pc = "cacheSet" /\ student = req[r].student
           /\ \/ req'[r].pc \in {"cacheSet", "exists"} /\ req'[r].student = student
              \/ req'[r].pc = "save" /\ req'[r].student.cpf = student.cpf
           /\ req'[r].pc = "save" => req[r].body.cpf \in {Nothing, student.cpf}
           /\ req'[r].pc = "cacheSet" => req[r].id \in DOMAIN Live /\ student = Live[req[r].id]
    BY <1>2, PutReads
  <2>2. student.cpf = cpf /\ req'[r].pc # "insert"
    BY <2>1 DEF WillWrite
  <2>3. req[r].pc = "cacheSet" /\ req'[r].pc = "save" /\ student = req[r].student
           => WillWrite(req[r], cpf)
    BY <1>2, <2>1, <2>2 DEF WillWrite
  <2>4. /\ UNCHANGED table
        /\ req[r].id \in Ids /\ req'[r].id = req[r].id
    BY <1>2, PutReads
  <2>5. req'[r].pc \in {"save", "cacheSet"}
    BY <2>2 DEF WillWrite
  <2> QED
    BY <1>2, <2>1, <2>2, <2>3, <2>4, <2>5
<1>3. CASE (CacheHit(r) \/ DbFind(r) \/ CacheSet(r)) /\ req[r].handler # "update"
  BY <1>3, OthersRead DEF WillWrite
<1>4. CASE Exists(r)
  BY <1>4, LooksUp DEF WillWrite
<1> QED
  BY <1>1, <1>2, <1>3, <1>4

\* What the three writes make of the live rows.
LEMMA WritesLive ==
    ASSUME TypeOK, NEW r \in Requests
    PROVE  /\ Insert(r) =>
                 /\ DOMAIN Live \subseteq DOMAIN Live'
                 /\ \A j \in DOMAIN Live' :
                       \/ j \in DOMAIN Live /\ Live'[j] = Live[j]
                       \/ j \notin DOMAIN Live /\ Live'[j] = req[r].body
                 /\ \A j \in Ids : students[j] # Nothing => students'[j] = students[j]
           /\ Save(r) =>
                 /\ DOMAIN Live' = DOMAIN Live \cup {req[r].id} /\ req[r].id \in Ids
                 /\ Live'[req[r].id] = req[r].student
                 /\ \A j \in DOMAIN Live \ {req[r].id} : Live'[j] = Live[j]
                 /\ \A j \in Ids \ {req[r].id} : students'[j] = students[j]
           /\ SoftDelete(r) =>
                 /\ DOMAIN Live' = DOMAIN Live \ {req[r].id}
                 /\ \A j \in DOMAIN Live' : Live'[j] = Live[j]
                 /\ students' = students
<1>1. HoldsWhatItUses(r, req[r]) /\ students \in [Ids -> Maybe(Student)]
  BY DEF TypeOK
<1>2. ASSUME Insert(r)
      PROVE  /\ DOMAIN Live \subseteq DOMAIN Live'
             /\ \A j \in DOMAIN Live' :
                   \/ j \in DOMAIN Live /\ Live'[j] = Live[j]
                   \/ j \notin DOMAIN Live /\ Live'[j] = req[r].body
             /\ \A j \in Ids : students[j] # Nothing => students'[j] = students[j]
  <2>1. PICK i \in Ids \ Used : students' = [students EXCEPT ![i] = req[r].body]
    BY <1>2 DEF Insert
  <2>2. students[i] = Nothing /\ deleted' = deleted
    BY <1>2, <2>1 DEF Insert, Used
  <2> QED
    BY <1>1, <2>1, <2>2 DEF Live
<1>3. ASSUME Save(r)
      PROVE  /\ DOMAIN Live' = DOMAIN Live \cup {req[r].id} /\ req[r].id \in Ids
             /\ Live'[req[r].id] = req[r].student
             /\ \A j \in DOMAIN Live \ {req[r].id} : Live'[j] = Live[j]
             /\ \A j \in Ids \ {req[r].id} : students'[j] = students[j]
  <2>1. req[r].id \in Ids /\ req[r].student \in Student /\ req[r].student # Nothing
    BY <1>1, <1>3, NothingIsNoStudent DEF Save, At, HoldsWhatItUses
  <2>2. /\ students' = [students EXCEPT ![req[r].id] = req[r].student]
        /\ deleted' = deleted \ {req[r].id}
    BY <1>3 DEF Save
  <2> QED
    BY <1>1, <2>1, <2>2 DEF Live
<1>4. ASSUME SoftDelete(r)
      PROVE  /\ DOMAIN Live' = DOMAIN Live \ {req[r].id}
             /\ \A j \in DOMAIN Live' : Live'[j] = Live[j]
             /\ students' = students
  <2>1. students' = students /\ deleted' = deleted \cup {req[r].id}
    BY <1>4 DEF SoftDelete
  <2> QED
    BY <1>1, <2>1 DEF Live
<1> QED
  BY <1>2, <1>3, <1>4

-----------------------------------------------------------------------------
\* A PUT under way is about a student that is there ...
PutsFindTheirRow == \A r \in Requests, i \in Ids : Updating(req[r], i) => i \in DOMAIN Live

LEMMA PutsFindTheirRowStep ==
    ASSUME TypeOK, PutsFindTheirRow, [Next]_vars, FreshHits, DeleteSpares
    PROVE  PutsFindTheirRow' /\ deleted \subseteq deleted'
<1>1. ASSUME NEW r \in Requests, NEW i \in Ids, Updating(req'[r], i)
      PROVE  i \in DOMAIN Live'
  <2>1. CASE req'[r] # req[r]
    <3>1. i \in DOMAIN Live
      BY <1>1, <2>1, UpdatingStep DEF PutsFindTheirRow, FreshHits, FreshStudent, CacheHit
    <3>2. Live' = Live
      BY <1>1, <2>1, UpdatingStep DEF table, Live
    <3> QED
      BY <3>1, <3>2
  <2>2. CASE req'[r] = req[r]
    <3>1. Updating(req[r], i) /\ i \in DOMAIN Live
      BY <1>1, <2>2 DEF PutsFindTheirRow
    <3>2. CASE UNCHANGED table
      BY <3>1, <3>2 DEF table, Live
    <3>3. ASSUME NEW s \in Requests, Insert(s) \/ Save(s) \/ SoftDelete(s)
          PROVE  i \in DOMAIN Live'
      BY <3>1, <3>3, WritesLive DEF DeleteSpares
    <3> QED
      BY <3>2, <3>3, TableSteps
  <2> QED
    BY <2>1, <2>2
<1>2. deleted \subseteq deleted'
  <2>1. CASE UNCHANGED table
    BY <2>1 DEF table
  <2>2. ASSUME NEW s \in Requests, Save(s) PROVE deleted \subseteq deleted'
    <3>1. req[s].id \in Ids /\ Updating(req[s], req[s].id)
      BY <2>2 DEF Save, At, Updating, TypeOK, HoldsWhatItUses
    <3>2. req[s].id \notin deleted
      BY <3>1 DEF PutsFindTheirRow, Live
    <3> QED
      BY <2>2, <3>2 DEF Save
  <2>3. ASSUME NEW s \in Requests, Insert(s) \/ SoftDelete(s) PROVE deleted \subseteq deleted'
    BY <2>3 DEF Insert, SoftDelete
  <2> QED
    BY <2>1, <2>2, <2>3, TableSteps
<1> QED
  BY <1>1, <1>2 DEF PutsFindTheirRow

(***************************************************************************)
(* A removed student stays removed (README.md:151), with any requests      *)
(* overlapping and anything failing, as long as no DELETE commits while a  *)
(* PUT of the same student is between its read and its UPDATE, and no PUT  *)
(* starts from a stale entry: the finding has these two causes and no      *)
(* other (handlers.go:247-269 and 298-307).                                *)
(***************************************************************************)
THEOREM RemovedStayRemovedUnraced ==
    Spec /\ [][FreshHits /\ DeleteSpares]_vars => DeletedStaysDeleted
<1>1. Init => PutsFindTheirRow
  BY DEF Init, Idle, PutsFindTheirRow, Updating
<1>2. /\ TypeOK /\ PutsFindTheirRow /\ [Next]_vars /\ [FreshHits /\ DeleteSpares]_vars
      => PutsFindTheirRow' /\ [deleted \subseteq deleted']_vars
  <2>1. CASE UNCHANGED vars
    <3>1. UNCHANGED <<req, students, deleted>>
      BY <2>1 DEF vars
    <3>2. Live' = Live
      BY <3>1 DEF Live
    <3> QED
      BY <2>1, <3>1, <3>2 DEF PutsFindTheirRow, Updating
  <2> QED
    BY <2>1, PutsFindTheirRowStep
<1> QED
  BY <1>1, <1>2, TypeCorrectness, PTL DEF Spec, DeletedStaysDeleted

-----------------------------------------------------------------------------
\* ... and holds what the row still is.
PutsHoldTheRow ==
    \A r \in Requests, i \in Ids : Updating(req[r], i) =>
       /\ students[i] # Nothing
       /\ req[r].student = IF req[r].pc = "save" THEN apply(req[r].body, students[i]) ELSE students[i]

LEMMA PutsHoldTheRowStep ==
    ASSUME TypeOK, PutsHoldTheRow, [Next]_vars, FreshHits, SaveSpares
    PROVE  PutsHoldTheRow'
<1> SUFFICES ASSUME NEW r \in Requests, NEW i \in Ids, Updating(req'[r], i)
             PROVE  /\ students'[i] # Nothing
                    /\ req'[r].student = IF req'[r].pc = "save" THEN apply(req'[r].body, students'[i])
                                                                ELSE students'[i]
  BY DEF PutsHoldTheRow
<1>0. \A j \in DOMAIN Live : Live[j] = students[j] /\ students[j] # Nothing
  BY DEF Live
<1>1. CASE req'[r] # req[r]
  <2>1. PICK student \in Student :
           /\ \/ CacheHit(r) /\ req[r].handler = "update" /\ req[r].id = i /\ student = byId[i]
              \/ i \in DOMAIN Live /\ student = Live[i]
              \/ Updating(req[r], i) /\ req[r].pc # "save" /\ student = req[r].student
           /\ req'[r].student = IF req'[r].pc = "save" THEN apply(req'[r].body, student)
                                                      ELSE student
    BY <1>1, UpdatingStep
  <2>2. students[i] # Nothing /\ student = students[i]
    BY <1>0, <2>1 DEF PutsHoldTheRow, FreshHits, FreshStudent, CacheHit
  <2>3. students' = students
    BY <1>1, UpdatingStep DEF table
  <2> QED
    BY <2>1, <2>2, <2>3
<1>2. CASE req'[r] = req[r]
  <2>1. /\ Updating(req[r], i) /\ students[i] # Nothing
        /\ req[r].student = IF req[r].pc = "save" THEN apply(req[r].body, students[i]) ELSE students[i]
    BY <1>2 DEF PutsHoldTheRow
  <2>2. students'[i] = students[i]
    <3>1. CASE UNCHANGED table
      BY <3>1 DEF table
    <3>2. ASSUME NEW s \in Requests, Insert(s) \/ SoftDelete(s)
          PROVE  students'[i] = students[i]
      BY <2>1, <3>2, WritesLive
    <3>3. ASSUME NEW s \in Requests, Save(s)
          PROVE  students'[i] = students[i]
      <4>1. s # r
        <5>1. req'[s].pc \in {"respond", "cacheDel"} /\ req[s].pc = "save"
          BY <3>3, NextSteps DEF Save, At, Move, TypeOK, Request
        <5> QED
          BY <1>2, <5>1
      <4>2. req[s].id # i
        BY <2>1, <3>3, <4>1 DEF SaveSpares
      <4> QED
        BY <3>3, <4>2, WritesLive
    <3> QED
      BY <3>1, <3>2, <3>3, TableSteps
  <2> QED
    BY <1>2, <2>1, <2>2
<1> QED
  BY <1>1, <1>2

\* What a PUT writes, when it holds the row.
LEMMA PutsWriteTheBody ==
    ASSUME TypeOK, PutsHoldTheRow, [Next]_vars, NEW r \in Requests, NEW i \in Ids,
           At(r, "save"), req[r].id = i, students'[i] # students[i], SaveSpares
    PROVE  students'[i] = apply(req[r].body, students[i])
<1>1. Updating(req[r], i)
  BY DEF At, Updating
<1>2. students[i] # Nothing /\ req[r].student = apply(req[r].body, students[i])
  BY <1>1 DEF PutsHoldTheRow, At
<1>3. PICK s \in Requests : Insert(s) \/ Save(s) \/ SoftDelete(s)
  BY TableSteps DEF table
<1>4. Save(s) /\ req[s].id = i
  BY <1>2, <1>3, WritesLive
<1>5. s = r
  BY <1>1, <1>4 DEF SaveSpares
<1>6. students' = [students EXCEPT ![i] = req[r].student]
  BY <1>4, <1>5 DEF Save
<1> QED
  BY <1>2, <1>6 DEF TypeOK

(***************************************************************************)
(* A PUT changes the fields that were sent, of the row as it is            *)
(* (README.md:173), with any requests overlapping and anything failing, as *)
(* long as no other PUT of the same student commits while it is between    *)
(* its read and its UPDATE (handlers.go:247-269), and no PUT starts from a *)
(* stale entry.                                                            *)
(***************************************************************************)
THEOREM PutsKeepTheRestUnraced ==
    Spec /\ [][FreshHits /\ SaveSpares]_vars => OnlySentFieldsChange
<1> DEFINE Kept == \A r \in Requests, i \in Ids :
                      At(r, "save") /\ req[r].id = i /\ students'[i] # students[i] =>
                         students'[i] \in {apply(patch, students[i]) : patch \in {req[r].body}}
<1>1. Init => PutsHoldTheRow
  BY DEF Init, Idle, PutsHoldTheRow, Updating
<1>2. /\ TypeOK /\ PutsHoldTheRow /\ [Next]_vars /\ [FreshHits /\ SaveSpares]_vars
      => PutsHoldTheRow' /\ [Kept]_vars
  <2>1. CASE UNCHANGED vars
    BY <2>1 DEF vars, PutsHoldTheRow, Updating
  <2> QED
    BY <2>1, PutsHoldTheRowStep, PutsWriteTheBody
<1> QED
  BY <1>1, <1>2, TypeCorrectness, PTL DEF Spec, OnlySentFieldsChange

-----------------------------------------------------------------------------
\* The CPF a request is about to write is its own or nobody's.
CPFsStayFree ==
    \A r \in Requests, cpf \in CPFs : WillWrite(req[r], cpf) =>
       \A j \in DOMAIN Live : Live[j].cpf = cpf => req[r].pc # "insert" /\ j = req[r].id

LEMMA CPFsStep ==
    ASSUME TypeOK, UniqueCPF, CPFsStayFree, [Next]_vars, FreshHits, CPFSpares
    PROVE  UniqueCPF' /\ CPFsStayFree'
<1>0. DOMAIN Live \subseteq Ids /\ \A j \in DOMAIN Live : Live[j] \in Student
  BY LiveType
<1>1. ASSUME NEW r \in Requests, NEW cpf \in CPFs, req'[r] # req[r], WillWrite(req'[r], cpf),
             NEW j \in DOMAIN Live', Live'[j].cpf = cpf
      PROVE  req'[r].pc # "insert" /\ j = req'[r].id
  <2>1. Live' = Live
    BY <1>1, WillWriteStep DEF table, Live
  <2>2. ExistsWithCPF(Live, cpf)
    BY <1>1, <2>1 DEF ExistsWithCPF
  <2>3. /\ req'[r].pc # "insert" /\ req'[r].id = req[r].id
        /\ \/ WillWrite(req[r], cpf) /\ req[r].pc # "insert"
           \/ req[r].id \in DOMAIN Live /\ Live[req[r].id].cpf = cpf
           \/ /\ CacheHit(r) /\ req[r].handler = "update" /\ req[r].id \in Ids
              /\ byId[req[r].id].cpf = cpf
    BY <1>1, <2>2, WillWriteStep
  <2>4. CASE WillWrite(req[r], cpf)
    BY <1>1, <2>1, <2>3, <2>4 DEF CPFsStayFree
  <2>5. CASE req[r].id \in DOMAIN Live /\ Live[req[r].id].cpf = cpf
    BY <1>1, <2>1, <2>3, <2>5 DEF UniqueCPF, CPFsAreUnique
  <2>6. CASE /\ CacheHit(r) /\ req[r].handler = "update" /\ req[r].id \in Ids
             /\ byId[req[r].id].cpf = cpf
    <3>1. req[r].id \in DOMAIN Live /\ Live[req[r].id].cpf = cpf
      BY <2>6 DEF FreshHits, FreshStudent, CacheHit
    <3> QED
      BY <2>5, <3>1
  <2> QED
    BY <2>3, <2>4, <2>5, <2>6
<1>2. CASE UNCHANGED table
  <2>1. Live' = Live
    BY <1>2 DEF table, Live
  <2> QED
    BY <1>1, <2>1 DEF UniqueCPF, CPFsStayFree
<1>3. ASSUME NEW s \in Requests, SoftDelete(s)
      PROVE  UniqueCPF' /\ CPFsStayFree'
  <2>1. DOMAIN Live' \subseteq DOMAIN Live /\ \A j \in DOMAIN Live' : Live'[j] = Live[j]
    BY <1>3, WritesLive
  <2>2. UniqueCPF'
    BY <2>1 DEF UniqueCPF, CPFsAreUnique
  <2>3. CPFsStayFree'
    BY <1>1, <2>1 DEF CPFsStayFree
  <2> QED
    BY <2>2, <2>3
<1>4. ASSUME NEW s \in Requests, Insert(s)
      PROVE  UniqueCPF' /\ CPFsStayFree'
  <2> DEFINE cpf == req[s].body.cpf
  <2>1. req[s].pc = "insert" /\ req[s].body \in Student
    BY <1>4 DEF Insert, At, TypeOK, HoldsWhatItUses
  <2>2. cpf \in CPFs /\ WillWrite(req[s], cpf)
    BY <2>1 DEF Student, WillWrite
  <2>3. \A j \in DOMAIN Live : Live[j].cpf # cpf
    BY <2>1, <2>2 DEF CPFsStayFree
  <2>4. PICK i \in Ids \ Used : students' = [students EXCEPT ![i] = req[s].body]
    BY <1>4 DEF Insert
  <2>5. \A j \in DOMAIN Live' :
           \/ j \in DOMAIN Live /\ Live'[j] = Live[j]
           \/ j = i /\ Live'[j].cpf = cpf
    <3>1. deleted' = deleted
      BY <1>4 DEF Insert
    <3> QED
      BY <2>4, <3>1 DEF Live, TypeOK
  <2>6. UniqueCPF'
    BY <2>3, <2>5 DEF UniqueCPF, CPFsAreUnique
  <2>7. ASSUME NEW r \in Requests, NEW c \in CPFs, req'[r] = req[r], WillWrite(req[r], c),
               NEW j \in DOMAIN Live', Live'[j].cpf = c
        PROVE  req[r].pc # "insert" /\ j = req[r].id
    <3>1. CASE j \in DOMAIN Live /\ Live'[j] = Live[j]
      BY <2>7, <3>1 DEF CPFsStayFree
    <3>2. CASE c = cpf
      <4>1. r # s
        <5>1. req'[s].pc \in {"respond", "bump"}
          <6>1. PICK k : Move(s, Committed(s, [req[s] EXCEPT !.id = k, !.student = req[s].body],
                                           201, "bump"))
            BY <1>4 DEF Insert
          <6>2. "pc" \in DOMAIN [req[s] EXCEPT !.id = k, !.student = req[s].body]
            BY DEF TypeOK, Request
          <6>3. Committed(s, [req[s] EXCEPT !.id = k, !.student = req[s].body], 201, "bump").pc
                  \in {"respond", "bump"}
            BY <6>2, NextSteps
          <6> QED
            BY <6>1, <6>3 DEF Move, TypeOK
        <5> QED
          BY <2>1, <2>7, <5>1
      <4> QED
        BY <1>4, <2>1, <2>2, <2>7, <3>2, <4>1 DEF CPFSpares
    <3> QED
      BY <2>5, <2>7, <3>1, <3>2
  <2>8. CPFsStayFree'
    BY <1>1, <2>7 DEF CPFsStayFree
  <2> QED
    BY <2>6, <2>8
<1>5. ASSUME NEW s \in Requests, Save(s)
      PROVE  UniqueCPF' /\ CPFsStayFree'
  <2> DEFINE cpf == req[s].student.cpf
             i == req[s].id
  <2>1. req[s].pc = "save" /\ req[s].student \in Student /\ i \in Ids
    BY <1>5 DEF Save, At, TypeOK, HoldsWhatItUses
  <2>2. cpf \in CPFs /\ WillWrite(req[s], cpf)
    BY <2>1 DEF Student, WillWrite
  <2>3. \A j \in DOMAIN Live : Live[j].cpf = cpf => j = i
    BY <2>2 DEF CPFsStayFree
  <2>4. \A j \in DOMAIN Live' :
           IF j = i THEN Live'[j].cpf = cpf ELSE j \in DOMAIN Live /\ Live'[j] = Live[j]
    <3>1. DOMAIN Live' = DOMAIN Live \cup {i} /\ Live'[i] = req[s].student
      BY <1>5, WritesLive
    <3>2. \A j \in DOMAIN Live \ {i} : Live'[j] = Live[j]
      BY <1>5, WritesLive
    <3> QED
      BY <3>1, <3>2
  <2> HIDE DEF cpf, i
  <2>5. \A j, k \in DOMAIN Live' : Live'[j].cpf = Live'[k].cpf => j = k
    <3>1. \A j, k \in DOMAIN Live : Live[j].cpf = Live[k].cpf => j = k
      BY DEF UniqueCPF, CPFsAreUnique
    <3> QED
      BY <2>3, <2>4, <3>1
  <2>6. UniqueCPF'
    BY <2>5 DEF UniqueCPF, CPFsAreUnique
  <2>7. ASSUME NEW r \in Requests, NEW c \in CPFs, req'[r] = req[r], WillWrite(req[r], c),
               NEW j \in DOMAIN Live', Live'[j].cpf = c
        PROVE  req[r].pc # "insert" /\ j = req[r].id
    <3>1. CASE j # i
      BY <2>4, <2>7, <3>1 DEF CPFsStayFree
    <3>2. CASE j = i
      <4>1. r # s
        <5>1. req'[s].pc \in {"respond", "cacheDel"} /\ req[s].pc = "save"
          BY <1>5, NextSteps DEF Save, At, Move, TypeOK, Request
        <5> QED
          BY <2>7, <5>1
      <4>2. c = cpf
        BY <2>4, <2>7, <3>2
      <4> QED
        BY <1>5, <2>2, <2>7, <3>2, <4>1, <4>2 DEF CPFSpares, i
    <3> QED
      BY <3>1, <3>2
  <2>8. CPFsStayFree'
    BY <1>1, <2>7 DEF CPFsStayFree
  <2> QED
    BY <2>6, <2>8
<1> QED
  BY <1>2, <1>3, <1>4, <1>5, TableSteps

(***************************************************************************)
(* No two students a client can see share a CPF (README.md:13 and :171),   *)
(* with any requests overlapping and anything failing, as long as no CPF   *)
(* is written while a request for another student has looked it up and is  *)
(* about to write it (handlers.go:156-173 and 257-269), and no PUT starts  *)
(* from a stale entry.                                                     *)
(***************************************************************************)
THEOREM CPFsStayUniqueUnraced ==
    Spec /\ [][FreshHits /\ CPFSpares]_vars => []UniqueCPF
<1>1. Init => UniqueCPF /\ CPFsStayFree
  <2> SUFFICES ASSUME Init PROVE UniqueCPF /\ CPFsStayFree
    OBVIOUS
  <2>1. CPFsStayFree
    BY DEF Init, Idle, CPFsStayFree, WillWrite
  <2>2. \A j \in DOMAIN Live : j \in DOMAIN Stored /\ Live[j] = Stored[j]
    BY DEF Init, Live
  <2>3. UniqueCPF
    BY <2>2, StoredAssumption DEF UniqueCPF, CPFsAreUnique
  <2> QED
    BY <2>1, <2>3
<1>2. /\ TypeOK /\ UniqueCPF /\ CPFsStayFree /\ [Next]_vars /\ [FreshHits /\ CPFSpares]_vars
      => UniqueCPF' /\ CPFsStayFree'
  <2>1. CASE UNCHANGED vars
    <3>1. UNCHANGED req /\ Live' = Live
      BY <2>1 DEF vars, Live
    <3> QED
      BY <3>1 DEF UniqueCPF, CPFsStayFree, WillWrite
  <2> QED
    BY <2>1, CPFsStep
<1> QED
  BY <1>1, <1>2, TypeCorrectness, PTL DEF Spec

-----------------------------------------------------------------------------
(***************************************************************************)
(* How an entry of the cache goes stale.  FindByID reads the row and fills *)
(* the entry in two steps; a write commits and deletes it in two           *)
(* (cached_student.go:111-120 and 151-177).                                *)
(***************************************************************************)
\* No write commits while a fill of the same student is under way.
FillsSpared ==
    \A r, s \in Requests :
       (Save(r) \/ SoftDelete(r)) => ~(At(s, "cacheSet") /\ req[s].id = req[r].id)

\* Whoever writes has a cache, and the entry is gone when its DEL is over.
DelsArrive ==
    \A r \in Requests :
       /\ Save(r) \/ SoftDelete(r) => r \notin Uncached
       /\ At(r, "cacheDel") /\ req'[r] # req[r] => byId'[req[r].id] = Nothing

\* No PUT is given an entry whose DEL is on its way.
HitsWait ==
    \A r, s \in Requests :
       CacheHit(r) /\ req[r].handler = "update" => ~(At(s, "cacheDel") /\ req[s].id = req[r].id)

\* A fill under way holds the row ...
FillsHoldTheRow ==
    \A r \in Requests : At(r, "cacheSet") =>
       req[r].id \in DOMAIN Live /\ req[r].student = Live[req[r].id]

\* ... and so does an entry, unless a DEL is on its way to it.
EntriesHoldTheRow ==
    \A i \in Ids : FreshStudent(i) \/ \E r \in Requests : At(r, "cacheDel") /\ req[r].id = i

\* An entry changes by the fill of a reader, or goes.
LEMMA EntrySteps ==
    ASSUME TypeOK, [Next]_vars, NEW i \in Ids, byId'[i] \notin {byId[i], Nothing}
    PROVE  \E r \in Requests : CacheSet(r) /\ req[r].id = i /\ byId'[i] = req[r].student
<1>1. ~UNCHANGED byId /\ byId \in [Ids -> Maybe(Student)]
  BY DEF TypeOK
<1>2. ~\E r \in Requests : Arrive(r)
  BY <1>1, ArriveRecord
<1>3. ~Lapse /\ ~UNCHANGED vars
  BY <1>1 DEF Lapse, LapseStudent, LapsePage, LapseGen, vars
<1>4. PICK r \in Requests : Serve(r) \/ Abandon(r)
  BY <1>2, <1>3 DEF Next
<1>5. CacheSet(r) \/ CacheDel(r)
  BY <1>1, <1>4 DEF Serve, Read, Write, CacheHit, CacheMiss, DbFind, DbFindNone, GenGet,
                    PageHit, PageMiss, Count, Rows, PageSet, Exists, Insert, Save, SoftDelete,
                    Bump, BumpFails, BumpUnacknowledged, DbFails, Respond, Abandon
<1>6. ~CacheDel(r)
  BY <1>1 DEF CacheDel
<1>7. byId' = [byId EXCEPT ![req[r].id] = req[r].student]
  BY <1>1, <1>5, <1>6 DEF CacheSet
<1> QED
  BY <1>1, <1>5, <1>6, <1>7

\* How a request comes to have a row to fill in.
LEMMA FillStep ==
    ASSUME TypeOK, [Next]_vars, NEW r \in Requests, req'[r] # req[r], req'[r].pc = "cacheSet"
    PROVE  /\ UNCHANGED table
           /\ req'[r].id \in DOMAIN Live /\ req'[r].student = Live[req'[r].id]
<1> DEFINE q == req[r]
<1>1. q \in Request /\ HoldsWhatItUses(r, q) /\ \A p : Move(r, p) => req'[r] = p
  BY DEF TypeOK, Move
<1>2. CacheHit(r) \/ DbFind(r) \/ CacheSet(r)
  BY WaysToWrite, LooksUp
<1>3. \A student \in Student : req'[r] # Found(q, student)
  <2> SUFFICES ASSUME NEW student \in Student PROVE Found(q, student).pc # "cacheSet"
    OBVIOUS
  <2>1. q.handler \in {"get", "update", "delete"} /\ (q.handler = "update" => q.body \in Patch)
    BY <1>1, <1>2 DEF CacheHit, DbFind, CacheSet, At, HoldsWhatItUses
  <2> QED
    BY <1>1, <2>1, FoundUpdate, FoundOther
<1>4. ~CacheHit(r)
  <2> SUFFICES ASSUME CacheHit(r) PROVE FALSE
    OBVIOUS
  <2>1. byId[q.id] \in Student
    BY <1>1 DEF CacheHit, At, HoldsWhatItUses, TypeOK, Maybe
  <2> QED
    BY <1>1, <1>3, <2>1 DEF CacheHit
<1>5. ~CacheSet(r)
  BY <1>1, <1>3 DEF CacheSet, At, HoldsWhatItUses
<1>6. q.id \in DOMAIN Live /\ Live[q.id] \in Student /\ UNCHANGED table
  BY <1>2, <1>4, <1>5, LiveType DEF DbFind
<1>7. req'[r] = Hold(q, "cacheSet", Live[q.id])
  BY <1>1, <1>2, <1>3, <1>4, <1>5, <1>6 DEF DbFind
<1>8. "cacheSet" \in Steps
  BY FieldValues
<1> QED
  BY <1>1, <1>6, <1>7, <1>8, HoldType

LEMMA FillsHoldTheRowStep ==
    ASSUME TypeOK, FillsHoldTheRow, [Next]_vars, FillsSpared
    PROVE  FillsHoldTheRow'
<1> SUFFICES ASSUME NEW r \in Requests, req'[r].pc = "cacheSet"
             PROVE  req'[r].id \in DOMAIN Live' /\ req'[r].student = Live'[req'[r].id]
  BY DEF FillsHoldTheRow, At
<1>1. CASE req'[r] # req[r]
  <2>1. Live' = Live
    BY <1>1, FillStep DEF table, Live
  <2> QED
    BY <1>1, <2>1, FillStep
<1>2. CASE req'[r] = req[r]
  <2> DEFINE i == req[r].id
  <2>1. At(r, "cacheSet") /\ i \in DOMAIN Live /\ req[r].student = Live[i]
    BY <1>2 DEF FillsHoldTheRow, At
  <2>2. CASE UNCHANGED table
    BY <1>2, <2>1, <2>2 DEF table, Live
  <2>3. ASSUME NEW s \in Requests, Insert(s) \/ Save(s) \/ SoftDelete(s)
        PROVE  i \in DOMAIN Live' /\ Live'[i] = Live[i]
    <3>1. CASE Insert(s)
      BY <2>1, <3>1, WritesLive
    <3>2. CASE Save(s) \/ SoftDelete(s)
      <4>1. req[s].id # i
        BY <2>1, <3>2 DEF FillsSpared
      <4> QED
        BY <2>1, <3>2, <4>1, WritesLive
    <3> QED
      BY <2>3, <3>1, <3>2
  <2> QED
    BY <1>2, <2>1, <2>2, <2>3, TableSteps
<1> QED
  BY <1>1, <1>2

\* A write on a replica with a cache is about to delete the entry.
LEMMA WriteOwesDel ==
    ASSUME TypeOK, NEW s \in Requests, Save(s) \/ SoftDelete(s), s \notin Uncached
    PROVE  req'[s].pc = "cacheDel" /\ req'[s].id = req[s].id /\ req[s].pc # "cacheDel"
<1>1. req[s] \in Request /\ \A p : Move(s, p) => req'[s] = p
  BY DEF TypeOK, Move
<1>2. CASE Save(s)
  BY <1>1, <1>2 DEF Save, Committed, At, Request
<1>3. CASE SoftDelete(s)
  <2> DEFINE q == [req[s] EXCEPT !.student = Nothing]
  <2>1. {"pc", "status", "id"} \subseteq DOMAIN q /\ q.id = req[s].id
    BY <1>1 DEF Request
  <2>2. req'[s] = [q EXCEPT !.pc = "cacheDel", !.status = 204]
    BY <1>1, <1>3 DEF SoftDelete, Committed
  <2> HIDE DEF q
  <2> QED
    BY <1>3, <2>1, <2>2 DEF SoftDelete, At
<1> QED
  BY <1>2, <1>3

LEMMA EntriesHoldTheRowStep ==
    ASSUME TypeOK, FillsHoldTheRow, EntriesHoldTheRow, [Next]_vars, DelsArrive
    PROVE  EntriesHoldTheRow'
<1> SUFFICES ASSUME NEW i \in Ids,
                    ~\E r \in Requests : req'[r].pc = "cacheDel" /\ req'[r].id = i
             PROVE  FreshStudent(i)'
  BY DEF EntriesHoldTheRow, At
<1>1. CASE byId'[i] = Nothing
  BY <1>1 DEF FreshStudent
<1>2. CASE byId'[i] # Nothing
  <2>1. \A r \in Requests : ~(At(r, "cacheDel") /\ req[r].id = i)
    <3> SUFFICES ASSUME NEW r \in Requests, At(r, "cacheDel"), req[r].id = i PROVE FALSE
      OBVIOUS
    <3>1. req'[r] # req[r]
      BY DEF At
    <3> QED
      BY <1>2, <3>1 DEF DelsArrive
  <2>2. FreshStudent(i)
    BY <2>1 DEF EntriesHoldTheRow
  <2>3. CASE UNCHANGED table
    <3>1. Live' = Live
      BY <2>3 DEF table, Live
    <3>2. CASE byId'[i] = byId[i]
      BY <2>2, <3>1, <3>2 DEF FreshStudent
    <3>3. CASE byId'[i] # byId[i]
      <4>1. PICK r \in Requests : CacheSet(r) /\ req[r].id = i /\ byId'[i] = req[r].student
        BY <1>2, <3>3, EntrySteps
      <4>2. i \in DOMAIN Live /\ byId'[i] = Live[i]
        BY <4>1 DEF FillsHoldTheRow, CacheSet
      <4> QED
        BY <3>1, <4>2 DEF FreshStudent
    <3> QED
      BY <3>2, <3>3
  <2>4. ASSUME NEW s \in Requests, Insert(s) \/ Save(s) \/ SoftDelete(s)
        PROVE  FreshStudent(i)'
    <3>1. byId' = byId
      BY <2>4 DEF Insert, Save, SoftDelete
    <3>2. i \in DOMAIN Live /\ byId[i] = Live[i]
      BY <1>2, <2>2, <3>1 DEF FreshStudent
    <3>3. i \in DOMAIN Live' /\ Live'[i] = Live[i]
      <4>1. CASE Insert(s)
        BY <3>2, <4>1, WritesLive
      <4>2. CASE Save(s) \/ SoftDelete(s)
        <5>1. req[s].id # i
          BY <4>2, WriteOwesDel DEF DelsArrive
        <5> QED
          BY <3>2, <4>2, <5>1, WritesLive
      <4> QED
        BY <2>4, <4>1, <4>2
    <3> QED
      BY <3>1, <3>2, <3>3 DEF FreshStudent
  <2> QED
    BY <2>3, <2>4, TableSteps
<1> QED
  BY <1>1, <1>2

LEMMA EntriesKept ==
    Spec /\ [][FillsSpared /\ DelsArrive]_vars => []EntriesHoldTheRow
<1>1. Init => FillsHoldTheRow /\ EntriesHoldTheRow
  BY DEF Init, Idle, FillsHoldTheRow, EntriesHoldTheRow, FreshStudent, At
<1>2. /\ TypeOK /\ FillsHoldTheRow /\ EntriesHoldTheRow
      /\ [Next]_vars /\ [FillsSpared /\ DelsArrive]_vars
      => FillsHoldTheRow' /\ EntriesHoldTheRow'
  <2>1. CASE UNCHANGED vars
    <3>1. UNCHANGED <<req, byId>> /\ Live' = Live
      BY <2>1 DEF vars, Live
    <3> QED
      BY <3>1 DEF FillsHoldTheRow, EntriesHoldTheRow, FreshStudent, At
  <2> QED
    BY <2>1, FillsHoldTheRowStep, EntriesHoldTheRowStep
<1> QED
  BY <1>1, <1>2, TypeCorrectness, PTL DEF Spec

(***************************************************************************)
(* A cached student is its row, unless a write of it is about to delete    *)
(* the entry (README.md:60), with any requests overlapping and anything    *)
(* else failing, as long as no write overtakes a fill of the same student  *)
(* and no DEL is lost or never sent: that is all that TLC's counterexample *)
(* to ByIdCoherent under overlap relies on (cached_student.go:111-120).    *)
(***************************************************************************)
THEOREM EntriesAreRowsUnraced ==
    Spec /\ [][FillsSpared /\ DelsArrive]_vars => []ByIdCoherent
<1>1. EntriesHoldTheRow => ByIdCoherent
  BY DEF EntriesHoldTheRow, ByIdCoherent, Invalidating, At
<1> QED
  BY <1>1, EntriesKept, PTL

(***************************************************************************)
(* So a PUT that starts from a stale entry (handlers.go:247), the cause    *)
(* that the theorems above share, has itself one of three: a fill that a   *)
(* write overtook, a DEL that was lost, a DEL that is still on its way.    *)
(***************************************************************************)
THEOREM StaleHitsHaveThreeCauses ==
    Spec /\ [][FillsSpared /\ DelsArrive /\ HitsWait]_vars => [][FreshHits]_vars
<1>1. TypeOK /\ EntriesHoldTheRow /\ [FillsSpared /\ DelsArrive /\ HitsWait]_vars => [FreshHits]_vars
  <2> SUFFICES ASSUME TypeOK, EntriesHoldTheRow, HitsWait, NEW r \in Requests,
                      CacheHit(r), req[r].handler = "update"
               PROVE  FreshStudent(req[r].id)
    BY DEF FreshHits
  <2>1. req[r].id \in Ids
    BY DEF CacheHit, At, TypeOK, HoldsWhatItUses
  <2> QED
    BY <2>1 DEF EntriesHoldTheRow, HitsWait
<1>2. [FillsSpared /\ DelsArrive /\ HitsWait]_vars => [FillsSpared /\ DelsArrive]_vars
  OBVIOUS
<1> QED
  BY <1>1, <1>2, TypeCorrectness, EntriesKept, PTL

-----------------------------------------------------------------------------
(***************************************************************************)
(* Replicas that run without Redis (main.go:112, buildRepository) never    *)
(* start a PUT from a stale entry: there the races are the only causes.    *)
(***************************************************************************)
THEOREM NoStaleHitsWithoutRedis ==
    ASSUME Uncached = Requests
    PROVE  Spec => [][FreshHits]_vars
<1> DEFINE Bypass == \A r \in Requests : req[r].pc # "cacheGet"
<1>1. Init => Bypass
  BY DEF Init, Idle
<1>2. TypeOK /\ Bypass /\ [Next]_vars => Bypass'
  <2> SUFFICES ASSUME TypeOK, Bypass, [Next]_vars, NEW r \in Requests, req'[r].pc = "cacheGet"
               PROVE  FALSE
    OBVIOUS
  <2>1. req'[r] # req[r]
    OBVIOUS
  <2>2. CacheHit(r) \/ DbFind(r) \/ CacheSet(r) \/ Exists(r)
    BY <2>1, WaysToWrite
  <2>3. req[r].pc # "cacheGet" /\ req[r] \in Request /\ HoldsWhatItUses(r, req[r])
    BY DEF TypeOK
  <2>4. CASE (CacheHit(r) \/ DbFind(r) \/ CacheSet(r)) /\ req[r].handler = "update"
    BY <2>4, PutReads
  <2>5. CASE (CacheHit(r) \/ DbFind(r) \/ CacheSet(r)) /\ req[r].handler # "update"
    BY <2>5, OthersRead
  <2>6. CASE Exists(r)
    BY <2>6, LooksUp
  <2> QED
    BY <2>2, <2>4, <2>5, <2>6
<1>3. Bypass => [FreshHits]_vars
  BY DEF FreshHits, CacheHit, At
<1> QED
  BY <1>1, <1>2, <1>3, TypeCorrectness, PTL DEF Spec
=============================================================================
