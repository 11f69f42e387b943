-------------------------- MODULE SequentialProofs --------------------------
(***************************************************************************)
(* What one request at a time may rely on, with failing reads, fills and   *)
(* queries and bumps that are sent twice: the cache cannot be noticed.     *)
(*                                                                         *)
(* The invariant has two halves.  What Redis holds is what the table has,  *)
(* but for the entry and the pages the one writer is about to drop; what a *)
(* handler has learnt (a row, a free CPF, a count) is still so when it     *)
(* acts on it, since nobody else can have written.  Every step then either *)
(* settles the answer and is a step of StudentRegistry, or is none.        *)
(***************************************************************************)
EXTENDS StudentRequestsProofs

RegistryStep == [Registry!Next]_(Registry!vars)

Told(q) == [status |-> q.status, student |-> q.student, page |-> q.page]

LEMMA Alone ==
    ASSUME OneAtATime, NEW r \in Requests
    PROVE  /\ \A s \in Requests : s = r
           /\ PendingWriter <=> Invalidating(r)
BY DEF OneAtATime, PendingWriter

\* What the client is told is what the one request holds.
LEMMA ReplyIs ==
    ASSUME OneAtATime, NEW r \in Requests
    PROVE  /\ reply = IF Silent(req[r]) THEN Registry!NoReply ELSE Told(req[r])
           /\ reply' = IF Silent(req'[r]) THEN Registry!NoReply ELSE Told(req'[r])
<1>1. /\ Answering = IF req[r].status = Nothing THEN {} ELSE {r}
      /\ Answering' = IF req'[r].status = Nothing THEN {} ELSE {r}
  BY DEF OneAtATime, Answering
<1>2. (CHOOSE s \in {r} : TRUE) = r /\ {r} # {}
  OBVIOUS
<1> QED
  BY <1>1, <1>2 DEF reply, Reply, Told, Silent, Registry!NoReply

LEMMA Stutters ==
    ASSUME OneAtATime, NEW r \in Requests, NEW p, req'[r] = p, UNCHANGED <<students, deleted>>,
           \/ Silent(req[r]) /\ Silent(p)
           \/ p.status = req[r].status /\ p.student = req[r].student /\ p.page = req[r].page
    PROVE  RegistryStep
<1>1. Live' = Live /\ Used' = Used
  BY DEF Live, Used
<1>2. reply' = reply
  BY ReplyIs DEF Told, Silent
<1> QED
  BY <1>1, <1>2 DEF RegistryStep, Registry!vars

LEMMA Tells ==
    ASSUME OneAtATime, NEW r \in Requests, NEW p, req'[r] = p, Silent(req[r]), ~Silent(p)
    PROVE  /\ reply = Registry!NoReply /\ reply' = Told(p)
           /\ Registry!Request => RegistryStep
<1>1. reply = Registry!NoReply /\ reply' = Told(p)
  BY ReplyIs
<1> QED
  BY <1>1 DEF RegistryStep, Registry!Next

LEMMA SameListing ==
    ASSUME NEW t, NEW params
    PROVE  Registry!Listing(t, params) = Listing(t, params)
BY DEF Registry!Listing, Listing, Registry!CountRows, CountRows, Registry!Filtered, Filtered,
       Registry!FindRows, FindRows, Registry!Position, Position, Registry!Cardinality, Cardinality

LEMMA SameData ==
    /\ Registry!Student = Student /\ Registry!Patch = Patch
    /\ \A patch, student : Registry!apply(patch, student) = apply(patch, student)
    /\ \A t, cpf : Registry!ExistsWithCPF(t, cpf) <=> ExistsWithCPF(t, cpf)
    /\ Registry!NoReply = [status |-> Nothing, student |-> Nothing, page |-> Nothing]
BY DEF Registry!Student, Registry!Patch, Student, Patch, Registry!Maybe, Maybe,
       Registry!apply, apply, Registry!OrElse, OrElse, Registry!ExistsWithCPF, ExistsWithCPF,
       Registry!NoReply

LEMMA StatusIs ==
    ASSUME NEW code
    PROVE  Registry!Status(code) = [status |-> code, student |-> Nothing, page |-> Nothing]
BY SameData DEF Registry!Status

-----------------------------------------------------------------------------
LEMMA AssembleInv ==
    ASSUME OneAtATime, NEW r \in Requests, NEW p, req'[r] = p,
           CacheInv', CPFsAreUnique(Live)', Knows(p)', Holds(p)'
    PROVE  SequentialInv'
<1>1. ASSUME NEW s \in Requests PROVE Knows(req[s])' /\ Holds(req[s])'
  <2>1. s = r
    BY Alone
  <2>2. Knows(req[r])'
    BY DEF Knows, Silent
  <2>3. Holds(req[r])'
    BY DEF Holds
  <2> QED
    BY <2>1, <2>2, <2>3
<1> QED
  BY <1>1 DEF SequentialInv

\* A step that only looks: the stores are as they were.
LEMMA LookKeeps ==
    ASSUME TypeOK, SequentialInv, OneAtATime, NEW r \in Requests, NEW p, req'[r] = p,
           UNCHANGED <<students, deleted, byId, gen, lists, younger, issued>>,
           req[r].pc \notin {"cacheDel", "bump"}, p.pc \notin {"cacheDel", "bump"},
           Knows(p), Holds(p)
    PROVE  SequentialInv'
<1>1. Live' = Live
  BY DEF Live
<1>2. \A i \in Ids : FreshStudent(i)
  BY Alone DEF SequentialInv, CacheInv, At
<1>3. \A params \in ListParams : FreshPage(<<gen, params>>)
  BY Alone DEF SequentialInv, CacheInv, Invalidating
<1>4. CacheInv'
  BY <1>1, <1>2, <1>3 DEF SequentialInv, CacheInv, FreshStudent, FreshPage
<1>5. Knows(p)'
  BY <1>1 DEF Knows
<1>6. Holds(p)'
  BY <1>1 DEF Holds, FreshPage
<1>7. CPFsAreUnique(Live)'
  BY <1>1 DEF SequentialInv, CPFsAreUnique
<1> QED
  BY <1>4, <1>5, <1>6, <1>7, AssembleInv

\* A request that has been answered, or has nothing left but to invalidate.
LEMMA AnsweredKnows ==
    ASSUME NEW p, p.status # Nothing, p.gen = Nothing,
           \/ p.pc = "respond"
           \/ p.pc \in {"cacheDel", "bump"} /\ p.page = Nothing
    PROVE  Knows(p) /\ Holds(p) /\ Knows(p)' /\ Holds(p)'
<1>1. Nothing \in Maybe(issued) /\ Nothing \in Maybe(issued)'
  BY DEF Maybe
<1>2. p.pc \in {"cacheDel", "bump", "respond"}
  OBVIOUS
<1>3. Knows(p) /\ Knows(p)'
  BY <1>2 DEF Knows, Silent
<1>4. Holds(p) /\ Holds(p)'
  BY <1>1, <1>2 DEF Holds, Reads
<1> QED
  BY <1>3, <1>4

LEMMA AnswerIs ==
    ASSUME NEW q \in Request, NEW status \in Statuses
    PROVE  /\ \E p \in Request :
                 /\ p = Answer(q, status)
                 /\ p.pc = "respond" /\ p.status = status /\ p.gen = Nothing
                 /\ p.student = q.student /\ p.page = q.page
           /\ \E p \in Request :
                 /\ p = Refuse(q, status)
                 /\ p.pc = "respond" /\ p.status = status /\ p.gen = Nothing
                 /\ p.student = Nothing /\ p.page = Nothing
           /\ status # Nothing
<1> DEFINE a == Answer(q, status)
           b == Refuse(q, status)
<1>1. status \in Maybe(Statuses) /\ "respond" \in Steps /\ status # Nothing
      /\ Nothing \in Maybe(Patch) /\ Nothing \in Maybe(Gens)
      /\ Nothing \in Maybe(Student) /\ Nothing \in Maybe(Page)
  BY FieldValues, NothingAssumption DEF Statuses
<1>2. a \in Request
  BY <1>1, Zenon DEF Answer, Request
<1>3. /\ a.pc = "respond" /\ a.status = status /\ a.gen = Nothing
      /\ a.student = q.student /\ a.page = q.page
  BY DEF Answer, Request
<1>4. b \in Request
  BY <1>1, <1>2, Zenon DEF Refuse, Request
<1>5. /\ b.pc = "respond" /\ b.status = status /\ b.gen = Nothing
      /\ b.student = Nothing /\ b.page = Nothing
  BY <1>2, <1>3 DEF Refuse, Request
<1> HIDE DEF a, b
<1> QED
  BY <1>1, <1>2, <1>3, <1>4, <1>5 DEF a, b

-----------------------------------------------------------------------------
(***************************************************************************)
(* The step in which a client's answer is settled is the abstract request. *)
(***************************************************************************)
LEMMA ReplyFields ==
    ASSUME NEW code, NEW student
    PROVE  [Registry!Status(code) EXCEPT !.student = student]
             = [status |-> code, student |-> student, page |-> Nothing]
BY StatusIs

LEMMA AnswersGet ==
    ASSUME OneAtATime, NEW r \in Requests, NEW p, req'[r] = p, UNCHANGED <<students, deleted>>,
           Silent(req[r]), NEW i \in Ids, i \in DOMAIN Live,
           p.status = 200, p.student = Live[i], p.page = Nothing
    PROVE  RegistryStep
<1>1. Live' = Live /\ Used' = Used
  BY DEF Live, Used
<1>2. reply' = [status |-> 200, student |-> Live[i], page |-> Nothing]
  BY Tells, NothingAssumption DEF Silent, Told
<1>3. Registry!Get(i)
  BY <1>1, <1>2, ReplyFields DEF Registry!Get
<1> QED
  BY <1>3, Tells, NothingAssumption DEF Registry!Request, Silent

LEMMA AnswersList ==
    ASSUME OneAtATime, NEW r \in Requests, NEW p, req'[r] = p, UNCHANGED <<students, deleted>>,
           Silent(req[r]), NEW params \in ListParams,
           p.status = 200, p.student = Nothing, p.page = Listing(Live, params)
    PROVE  RegistryStep
<1>1. Live' = Live /\ Used' = Used
  BY DEF Live, Used
<1>2. reply' = [Registry!Status(200) EXCEPT !.page = Listing(Live, params)]
  BY Tells, StatusIs, NothingAssumption DEF Silent, Told
<1>3. Registry!List(params)
  BY <1>1, <1>2, SameListing DEF Registry!List
<1> QED
  BY <1>3, Tells, NothingAssumption DEF Registry!Request, Silent

\* 404, 409 and 500: the client is told nothing but the status.
LEMMA AnswersStatus ==
    ASSUME OneAtATime, NEW r \in Requests, NEW p, req'[r] = p, UNCHANGED <<students, deleted>>,
           Silent(req[r]), p.student = Nothing, p.page = Nothing,
           \/ p.status = 500
           \/ p.status = 404 /\ \E i \in Ids : i \notin DOMAIN Live
           \/ p.status = 409 /\ \E body \in Student : ExistsWithCPF(Live, body.cpf)
           \/ p.status = 409 /\ \E i \in DOMAIN Live, body \in Patch :
                 i \in Ids /\ \E j \in DOMAIN Live \ {i} : Live[j].cpf = body.cpf
    PROVE  RegistryStep
<1>1. Live' = Live /\ Used' = Used
  BY DEF Live, Used
<1>2. p.status # Nothing
  BY NothingAssumption
<1>3. reply' = Registry!Status(p.status)
  BY <1>2, Tells, StatusIs DEF Silent, Told
<1>4. Registry!Request => RegistryStep
  BY <1>2, Tells DEF Silent
<1>5. CASE p.status = 500
  BY <1>1, <1>3, <1>4, <1>5 DEF Registry!Fail, Registry!Request
<1>6. ASSUME NEW i \in Ids, p.status = 404, i \notin DOMAIN Live PROVE RegistryStep
  <2>1. Registry!NotFound(i)
    BY <1>1, <1>3, <1>6 DEF Registry!NotFound
  <2> QED
    BY <1>4, <2>1 DEF Registry!Request
<1>7. ASSUME NEW body \in Student, p.status = 409, ExistsWithCPF(Live, body.cpf) PROVE RegistryStep
  <2>1. Registry!Create(body)
    BY <1>1, <1>3, <1>7, SameData DEF Registry!Create
  <2> QED
    BY <1>4, <2>1, SameData DEF Registry!Request
<1>8. ASSUME NEW i \in Ids, i \in DOMAIN Live, NEW body \in Patch, p.status = 409,
             \E j \in DOMAIN Live \ {i} : Live[j].cpf = body.cpf
      PROVE  RegistryStep
  <2>1. Registry!Update(i, body)
    BY <1>1, <1>3, <1>8 DEF Registry!Update, Registry!TakenByAnother
  <2> QED
    BY <1>4, <2>1, SameData DEF Registry!Request
<1> QED
  BY <1>5, <1>6, <1>7, <1>8

\* FindByID returned the row: the handler knows what it acts on.
LEMMA FoundKnows ==
    ASSUME TypeOK, CPFsAreUnique(Live), NEW r \in Requests, NEW q \in Request,
           q.handler \in {"get", "update", "delete"}, q.id \in DOMAIN Live,
           q.handler = "update" => q.body \in Patch,
           Silent(q), q.page = Nothing, q.gen = Nothing
    PROVE  LET p == Found(q, Live[q.id])
           IN  /\ p.pc \notin {"cacheDel", "bump"} /\ Knows(p) /\ Holds(p)
               /\ \/ Silent(p)
                  \/ p.status = 200 /\ p.student = Live[q.id] /\ p.page = Nothing
<1> DEFINE student == Live[q.id]
           p == Found(q, student)
<1>1. student \in Student /\ student \in Maybe(Student) /\ Nothing \in Maybe(issued)
  BY LiveType, FieldValues
<1>2. CASE q.handler = "get"
  <2> DEFINE a == [q EXCEPT !.student = student]
  <2>1. a \in Request
    BY <1>1, Zenon DEF Request
  <2>2. a.student = student /\ a.page = Nothing
    BY DEF Request
  <2>3. p = Answer(a, 200)
    BY <1>2 DEF Found
  <2> HIDE DEF a
  <2>4. /\ p.pc = "respond" /\ p.status = 200 /\ p.status # Nothing /\ p.gen = Nothing
        /\ p.student = student /\ p.page = Nothing
    BY <2>1, <2>2, <2>3, AnswerIs DEF Statuses
  <2> HIDE DEF p
  <2>5. Knows(p) /\ Holds(p)
    BY <2>4, AnsweredKnows
  <2> QED
    BY <2>4, <2>5 DEF p
<1>3. CASE q.handler = "delete"
  <2>1. p = Go(q, "softDelete") /\ "softDelete" \in Steps
    BY <1>3, FieldValues DEF Found
  <2>2. /\ p.pc = "softDelete" /\ p.id = q.id /\ p.status = q.status
        /\ p.page = Nothing /\ p.gen = Nothing
    BY <2>1, GoType
  <2> HIDE DEF p
  <2>3. Knows(p) /\ Holds(p)
    BY <1>1, <2>2 DEF Knows, Holds, Silent, Reads
  <2> QED
    BY <2>2, <2>3 DEF p, Silent
<1>4. CASE q.handler = "update"
  <2>1. q.body \in Patch /\ "save" \in Steps /\ "exists" \in Steps
    BY <1>4, FieldValues
  <2>2. apply(q.body, student) \in Student
    BY <1>1, <2>1, ApplyIsStudent
  <2>3. CASE q.body.cpf \in {Nothing, student.cpf}
    <3>1. p = Hold(q, "save", apply(q.body, student))
      BY <1>4, <2>3 DEF Found, ReadyToSave
    <3>2. p \in Request /\ p.pc = "save" /\ p.id = q.id /\ p.body = q.body /\ p.status = q.status
          /\ p.student = apply(q.body, student) /\ p.gen = Nothing
      BY <2>1, <2>2, <3>1, HoldType
    <3>3. p.page = Nothing
      BY <3>1 DEF Hold, Request
    <3>4. \A j \in DOMAIN Live \ {q.id} : Live[j].cpf # q.body.cpf
      <4>1. \A j \in DOMAIN Live : Live[j].cpf \in CPFs
        BY LiveType DEF Student
      <4> QED
        BY <2>3, <4>1, NothingAssumption DEF CPFsAreUnique
    <3> HIDE DEF p
    <3>5. Knows(p) /\ Holds(p)
      BY <1>1, <2>1, <3>2, <3>3, <3>4 DEF Knows, Holds, Silent, Reads
    <3> QED
      BY <3>2, <3>5 DEF p, Silent
  <2>4. CASE q.body.cpf \notin {Nothing, student.cpf}
    <3>1. p = Hold(q, "exists", student)
      BY <1>4, <2>4 DEF Found
    <3>2. p \in Request /\ p.pc = "exists" /\ p.id = q.id /\ p.body = q.body /\ p.status = q.status
          /\ p.student = student /\ p.gen = Nothing /\ p.handler = q.handler
      BY <1>1, <2>1, <3>1, HoldType
    <3>3. p.page = Nothing
      BY <3>1 DEF Hold, Request
    <3> HIDE DEF p
    <3>4. Knows(p) /\ Holds(p)
      BY <1>1, <1>4, <2>4, <3>2, <3>3 DEF Knows, Holds, Silent, Reads
    <3> QED
      BY <3>2, <3>4 DEF p, Silent
  <2> QED
    BY <2>3, <2>4
<1> QED
  BY <1>2, <1>3, <1>4

-----------------------------------------------------------------------------
(***************************************************************************)
(* The steps, action by action.                                            *)
(***************************************************************************)
LEMMA Here ==
    ASSUME TypeOK, SequentialInv, OneAtATime, NEW r \in Requests
    PROVE  /\ req[r] \in Request /\ HoldsWhatItUses(r, req[r]) /\ r \notin Uncached
           /\ Knows(req[r]) /\ Holds(req[r]) /\ CPFsAreUnique(Live)
           /\ \A q : Move(r, q) => req'[r] = q
           /\ UNCHANGED <<table, byId, pages>> =>
                 UNCHANGED <<students, deleted, byId, gen, lists, younger, issued>>
BY DEF TypeOK, SequentialInv, OneAtATime, Move, table, pages

\* FindByID returns, from the cache or from the database.
LEMMA FoundStep ==
    ASSUME TypeOK, SequentialInv, OneAtATime, NEW r \in Requests,
           req[r].pc \in {"cacheGet", "dbFind", "cacheSet"}, req[r].id \in DOMAIN Live,
           Move(r, Found(req[r], Live[req[r].id])), UNCHANGED <<students, deleted>>
    PROVE  LET p == Found(req[r], Live[req[r].id])
           IN  /\ p = req'[r] /\ p.pc \notin {"cacheDel", "bump"} /\ Knows(p) /\ Holds(p)
               /\ RegistryStep
<1> DEFINE q == req[r]
           p == Found(q, Live[q.id])
<1>1. /\ q \in Request /\ q.handler \in {"get", "update", "delete"} /\ q.id \in Ids
      /\ q.handler = "update" => q.body \in Patch
      /\ Silent(q) /\ q.page = Nothing /\ q.gen = Nothing
  BY Here DEF HoldsWhatItUses, Knows, Holds, Reads
<1>2. p = req'[r]
  BY Here
<1>3. /\ p.pc \notin {"cacheDel", "bump"} /\ Knows(p) /\ Holds(p)
      /\ Silent(p) \/ (p.status = 200 /\ p.student = Live[q.id] /\ p.page = Nothing)
  BY <1>1, Here, FoundKnows
<1> HIDE DEF p
<1>4. RegistryStep
  BY <1>1, <1>2, <1>3, Stutters, AnswersGet
<1> QED
  BY <1>2, <1>3, <1>4 DEF p

LEMMA FindByIDStep ==
    ASSUME TypeOK, SequentialInv, OneAtATime, NEW r \in Requests,
           CacheHit(r) \/ CacheMiss(r) \/ DbFind(r) \/ DbFindNone(r)
    PROVE  SequentialInv' /\ RegistryStep
<1> DEFINE q == req[r]
<1> USE DEF At
<1>1. /\ q \in Request /\ r \notin Uncached /\ q.id \in Ids /\ q.pc \in {"cacheGet", "dbFind"}
      /\ Silent(q) /\ q.student = Nothing /\ q.page = Nothing /\ q.gen = Nothing
      /\ Nothing \in Maybe(issued)
  BY Here, FieldValues DEF CacheHit, CacheMiss, DbFind, DbFindNone, HoldsWhatItUses, Knows, Holds, Reads
<1>2. UNCHANGED <<students, deleted, byId, gen, lists, younger, issued>>
  BY Here DEF CacheHit, CacheMiss, DbFind, DbFindNone
<1>3. CASE CacheHit(r)
  <2>1. FreshStudent(q.id)
    BY <1>1, <1>3, Alone DEF SequentialInv, CacheInv
  <2>2. q.id \in DOMAIN Live /\ byId[q.id] = Live[q.id]
    BY <1>3, <2>1 DEF CacheHit, FreshStudent
  <2>3. Move(r, Found(q, Live[q.id]))
    BY <1>3, <2>2 DEF CacheHit
  <2> QED
    BY <1>1, <1>2, <2>2, <2>3, FoundStep, LookKeeps
<1>4. CASE CacheMiss(r)
  <2> DEFINE p == Go(q, "dbFind")
  <2>1. /\ p.pc = "dbFind" /\ p.status = q.status /\ p.student = Nothing
        /\ p.page = Nothing /\ p.gen = Nothing
    BY <1>1, GoType, FieldValues
  <2>2. req'[r] = p
    BY <1>4, Here DEF CacheMiss
  <2> HIDE DEF p
  <2>3. Knows(p) /\ Holds(p)
    BY <1>1, <2>1 DEF Knows, Holds, Silent, Reads
  <2> QED
    BY <1>1, <1>2, <2>1, <2>2, <2>3, LookKeeps, Stutters DEF Silent
<1>5. CASE DbFind(r)
  <2> DEFINE p == Hold(q, "cacheSet", Live[q.id])
  <2>1. q.id \in DOMAIN Live /\ Live[q.id] \in Student /\ "cacheSet" \in Steps
    BY <1>5, LiveType, FieldValues DEF DbFind
  <2>2. /\ p.pc = "cacheSet" /\ p.id = q.id /\ p.status = q.status /\ p.student = Live[q.id]
        /\ p.gen = Nothing
    BY <1>1, <2>1, HoldType
  <2>3. p.page = Nothing
    BY <1>1 DEF Hold, Request
  <2>4. req'[r] = p
    BY <1>1, <1>5, Here DEF DbFind
  <2> HIDE DEF p
  <2>5. Knows(p) /\ Holds(p)
    BY <1>1, <2>1, <2>2, <2>3 DEF Knows, Holds, Silent, Reads
  <2> QED
    BY <1>1, <1>2, <2>2, <2>4, <2>5, LookKeeps, Stutters DEF Silent
<1>6. CASE DbFindNone(r)
  <2> DEFINE p == Refuse(q, 404)
  <2>1. /\ p.pc = "respond" /\ p.status = 404 /\ p.status # Nothing /\ p.gen = Nothing
        /\ p.student = Nothing /\ p.page = Nothing
    BY <1>1, AnswerIs DEF Statuses
  <2>2. req'[r] = p /\ q.id \notin DOMAIN Live
    BY <1>6, Here DEF DbFindNone
  <2> HIDE DEF p
  <2>3. Knows(p) /\ Holds(p)
    BY <2>1, AnsweredKnows
  <2>4. SequentialInv'
    BY <1>1, <1>2, <2>1, <2>2, <2>3, LookKeeps
  <2>5. RegistryStep
    BY <1>1, <1>2, <2>1, <2>2, AnswersStatus
  <2> QED
    BY <2>4, <2>5
<1> QED
  BY <1>3, <1>4, <1>5, <1>6

LEMMA CacheSetStep ==
    ASSUME TypeOK, SequentialInv, OneAtATime, NEW r \in Requests, CacheSet(r)
    PROVE  SequentialInv' /\ RegistryStep
<1> DEFINE q == req[r]
           p == Found(q, Live[q.id])
<1> USE DEF At
<1>1. /\ q.pc = "cacheSet" /\ q.id \in Ids
      /\ q.id \in DOMAIN Live /\ q.student = Live[q.id]
  BY Here DEF CacheSet, HoldsWhatItUses, Knows
<1>2. Move(r, p) /\ UNCHANGED <<students, deleted, gen, lists, younger, issued>>
  BY <1>1 DEF CacheSet, table, pages
<1>3. PICK s : req'[r] = s /\ s.pc \notin {"cacheDel", "bump"} /\ Knows(s) /\ Holds(s) /\ RegistryStep
  BY <1>1, <1>2, FoundStep
<1> HIDE DEF p
<1>4. Live' = Live
  BY <1>2 DEF Live
<1>5. \A i \in Ids : FreshStudent(i)'
  <2>1. \A i \in Ids : FreshStudent(i)
    BY <1>1, Alone DEF SequentialInv, CacheInv
  <2>2. byId' = byId \/ byId' = [byId EXCEPT ![q.id] = Live[q.id]]
    BY <1>1 DEF CacheSet
  <2> QED
    BY <1>1, <1>4, <2>1, <2>2 DEF FreshStudent, TypeOK
<1>6. CacheInv'
  <2>1. \A params \in ListParams : FreshPage(<<gen, params>>)
    BY <1>1, Alone DEF SequentialInv, CacheInv, Invalidating
  <2> QED
    BY <1>2, <1>4, <1>5, <2>1 DEF SequentialInv, CacheInv, FreshPage
<1>7. Knows(s)' /\ Holds(s)' /\ CPFsAreUnique(Live)'
  <2>1. \A k : FreshPage(k)' = FreshPage(k)
    BY <1>2, <1>4 DEF FreshPage
  <2>2. CPFsAreUnique(Live)'
    BY <1>4, Here DEF CPFsAreUnique
  <2>3. Knows(s)'
    BY <1>3, <1>4 DEF Knows
  <2>4. Holds(s)'
    BY <1>2, <1>3, <1>4, <2>1 DEF Holds
  <2> QED
    BY <2>2, <2>3, <2>4
<1> QED
  BY <1>3, <1>6, <1>7, AssembleInv

LEMMA ListStepLooks ==
    ASSUME TypeOK, SequentialInv, OneAtATime, NEW r \in Requests,
           GenGet(r) \/ PageHit(r) \/ PageMiss(r) \/ Count(r) \/ Rows(r)
    PROVE  SequentialInv' /\ RegistryStep
<1> DEFINE q == req[r]
<1> USE DEF At
<1>1. /\ q \in Request /\ r \notin Uncached /\ q.params \in ListParams
      /\ q.pc \notin {"cacheDel", "bump"}
      /\ Silent(q) /\ q.student = Nothing /\ q.gen \in Maybe(issued)
  BY Here DEF GenGet, PageHit, PageMiss, Count, Rows, HoldsWhatItUses, Knows, Holds
<1>2. UNCHANGED <<students, deleted, byId, gen, lists, younger, issued>>
  BY Here DEF GenGet, PageHit, PageMiss, Count, Rows
<1>3. CASE GenGet(r)
  <2> DEFINE p == [q EXCEPT !.pc = "pageGet", !.gen = gen]
  <2>1. req'[r] = p /\ q.page = Nothing
    BY <1>3, Here DEF GenGet, OneAtATime, Knows
  <2>2. /\ p.pc = "pageGet" /\ p.gen = gen /\ p.params = q.params /\ p.status = q.status
        /\ p.student = Nothing /\ p.page = Nothing
    BY <1>1, <2>1 DEF Request
  <2> HIDE DEF p
  <2>3. gen \in Maybe(issued) /\ FreshPage(<<gen, q.params>>)
    BY <1>1, Alone DEF SequentialInv, CacheInv, Invalidating, Maybe
  <2>4. Knows(p) /\ Holds(p)
    BY <1>1, <2>2, <2>3 DEF Knows, Holds, Silent, Reads
  <2> QED
    BY <1>1, <1>2, <2>1, <2>2, <2>4, LookKeeps, Stutters DEF Silent
<1>4. CASE PageHit(r)
  <2> DEFINE b == [q EXCEPT !.page = CachedPage(q)]
             p == Answer(b, 200)
  <2>1. q.pc = "pageGet" /\ q.gen \in Gens /\ CachedPage(q) = Listing(Live, q.params)
    BY <1>4, Here DEF PageHit, HoldsWhatItUses, Holds, FreshPage, CachedPage
  <2>2. CachedPage(q) \in Maybe(Page)
    BY <1>1, <2>1 DEF CachedPage, TypeOK, PageKeys
  <2>3. b \in Request
    BY <1>1, <2>2, Zenon DEF Request
  <2>4. b.student = Nothing /\ b.page = Listing(Live, q.params)
    BY <1>1, <2>1 DEF Request
  <2>5. req'[r] = p
    BY <1>4, Here DEF PageHit
  <2> HIDE DEF b
  <2>6. /\ p.pc = "respond" /\ p.status = 200 /\ p.status # Nothing /\ p.gen = Nothing
        /\ p.student = Nothing /\ p.page = Listing(Live, q.params)
    BY <2>3, <2>4, AnswerIs DEF Statuses
  <2> HIDE DEF p
  <2>7. Knows(p) /\ Holds(p)
    BY <2>6, AnsweredKnows
  <2>8. SequentialInv'
    BY <1>1, <1>2, <2>5, <2>6, <2>7, LookKeeps
  <2>9. RegistryStep
    BY <1>1, <1>2, <2>5, <2>6, AnswersList
  <2> QED
    BY <2>8, <2>9
<1>5. CASE PageMiss(r)
  <2> DEFINE p == Go(q, "count")
  <2>1. q.pc = "pageGet" /\ q.page = Nothing /\ req'[r] = p /\ "count" \in Steps
    BY <1>5, Here, FieldValues DEF PageMiss, Knows
  <2>2. /\ p.pc = "count" /\ p.gen = q.gen /\ p.params = q.params /\ p.status = q.status
        /\ p.student = Nothing /\ p.page = Nothing
    BY <1>1, <2>1, GoType
  <2> HIDE DEF p
  <2>3. q.gen = Gen0 => gen = Gen0
    BY <2>1, Here DEF Holds, Reads
  <2>4. Knows(p) /\ Holds(p)
    BY <1>1, <2>2, <2>3 DEF Knows, Holds, Silent, Reads
  <2> QED
    BY <1>1, <1>2, <2>1, <2>2, <2>4, LookKeeps, Stutters DEF Silent
<1>6. CASE Count(r)
  <2> DEFINE page == [total |-> CountRows(Live, q.params), rows |-> NoRows]
             p == [q EXCEPT !.pc = "rows", !.page = page]
  <2>1. q.pc = "count" /\ req'[r] = p /\ page.total = CountRows(Live, q.params)
    BY <1>6, Here DEF Count
  <2> HIDE DEF page
  <2>2. /\ p.pc = "rows" /\ p.gen = q.gen /\ p.params = q.params /\ p.status = q.status
        /\ p.student = Nothing /\ p.page = page
    BY <1>1 DEF Request
  <2> HIDE DEF p
  <2>3. q.gen = Gen0 => gen = Gen0
    BY <2>1, Here DEF Holds, Reads
  <2>4. Knows(p) /\ Holds(p)
    BY <1>1, <2>1, <2>2, <2>3 DEF Knows, Holds, Silent, Reads
  <2> QED
    BY <1>1, <1>2, <2>1, <2>2, <2>4, LookKeeps, Stutters DEF Silent
<1>7. CASE Rows(r)
  <2> DEFINE page == [total |-> q.page.total, rows |-> FindRows(Live, q.params)]
             b == [q EXCEPT !.page = page]
             p == Go(b, "pageSet")
  <2>1. q.pc = "rows" /\ q.page \in Page /\ page = Listing(Live, q.params)
    BY <1>7, Here DEF Rows, HoldsWhatItUses, Holds, Listing
  <2>2. page \in Maybe(Page) /\ "pageSet" \in Steps
    <3>1. page \in Page
      BY <1>1, <2>1, LiveType, FindRowsType DEF Page
    <3> QED
      BY <3>1, FieldValues
  <2>3. req'[r] = p
    BY <1>1, <1>7, Here DEF Rows, RowsOf
  <2> HIDE DEF page
  <2>4. b \in Request
    BY <1>1, <2>2, Zenon DEF Request
  <2>5. b.page = page /\ b.params = q.params /\ b.gen = q.gen /\ b.status = q.status
        /\ b.student = Nothing
    BY <1>1 DEF Request
  <2> HIDE DEF b
  <2>6. /\ p.pc = "pageSet" /\ p.gen = q.gen /\ p.params = q.params /\ p.status = q.status
        /\ p.student = Nothing /\ p.page = page
    BY <2>2, <2>4, <2>5, GoType
  <2> HIDE DEF p
  <2>7. q.gen = Gen0 => gen = Gen0
    BY <2>1, Here DEF Holds, Reads
  <2>8. Knows(p) /\ Holds(p)
    BY <1>1, <2>1, <2>6, <2>7 DEF Knows, Holds, Silent, Reads
  <2> QED
    BY <1>1, <1>2, <2>1, <2>3, <2>6, <2>8, LookKeeps, Stutters DEF Silent
<1> QED
  BY <1>3, <1>4, <1>5, <1>6, <1>7

LEMMA PageSetStep ==
    ASSUME TypeOK, SequentialInv, OneAtATime, NEW r \in Requests, PageSet(r)
    PROVE  SequentialInv' /\ RegistryStep
<1> DEFINE q == req[r]
           key == <<q.gen, q.params>>
<1> USE DEF At
<1>1. /\ q \in Request /\ q.pc = "pageSet" /\ q.params \in ListParams /\ q.gen \in Gens
      /\ Silent(q) /\ q.student = Nothing /\ q.gen \in issued
      /\ q.page = Listing(Live, q.params)
      /\ q.gen = Gen0 => gen = Gen0
  BY Here, GensAssumption DEF PageSet, HoldsWhatItUses, Knows, Holds, Reads, Maybe
<1>2. UNCHANGED <<students, deleted, byId, gen, issued>> /\ Live' = Live
  BY DEF PageSet, table, Live
<1>3. PICK p \in Request :
         /\ req'[r] = p
         /\ p.pc = "respond" /\ p.status = 200 /\ p.status # Nothing /\ p.gen = Nothing
         /\ p.student = Nothing /\ p.page = Listing(Live, q.params)
  BY <1>1, AnswerIs, Here DEF PageSet, Statuses
<1>4. /\ \A k \in PageKeys : lists'[k] = lists[k] \/ (k = key /\ lists'[k] = Listing(Live, q.params))
      /\ younger' = younger \/ (gen # Gen0 /\ younger' = younger \cup {key})
  BY <1>1 DEF PageSet, TypeOK
<1>5. CacheInv'
  <2>1. \A params \in ListParams : FreshPage(<<gen, params>>) /\ <<gen, params>> \in PageKeys
    BY <1>1, Alone DEF SequentialInv, CacheInv, Invalidating, TypeOK, PageKeys
  <2>2. \A params \in ListParams : FreshPage(<<gen, params>>)'
    BY <1>2, <1>4, <2>1 DEF FreshPage
  <2>3. \A i \in Ids : FreshStudent(i)'
    BY <1>1, <1>2, Alone DEF SequentialInv, CacheInv, FreshStudent
  <2>4. \A k \in PageKeys : lists'[k] # Nothing => k[1] \in issued
    BY <1>1, <1>4 DEF SequentialInv, CacheInv
  <2>5. gen # Gen0 => \A params \in ListParams : <<Gen0, params>> \notin younger'
    BY <1>1, <1>4 DEF SequentialInv, CacheInv
  <2> QED
    BY <1>2, <2>2, <2>3, <2>4, <2>5 DEF SequentialInv, CacheInv
<1>6. Knows(p)' /\ Holds(p)'
  BY <1>3, AnsweredKnows
<1>7. CPFsAreUnique(Live)'
  BY <1>2, Here DEF CPFsAreUnique
<1>8. SequentialInv'
  BY <1>3, <1>5, <1>6, <1>7, AssembleInv
<1>9. RegistryStep
  BY <1>1, <1>2, <1>3, AnswersList
<1> QED
  BY <1>8, <1>9

\* A request arrives: the record it starts with.
LEMMA ArriveFields ==
    ASSUME TypeOK, OneAtATime, NEW r \in Requests, Arrive(r)
    PROVE  \E p : /\ Move(r, p)
                  /\ p.pc \in {"cacheGet", "genGet", "exists"}
                  /\ p.pc = "exists" => p.handler = "create"
                  /\ p.status = Nothing /\ p.student = Nothing
                  /\ p.page = Nothing /\ p.gen = Nothing
<1> USE DEF Begin
<1>0. LoadStep(r) = "cacheGet" /\ ListStep(r) = "genGet"
  BY DEF LoadStep, ListStep, OneAtATime
<1>1. CASE BeginGet(r)
  <2>1. PICK i \in Ids : Move(r, [[Idle EXCEPT !.pc = "cacheGet", !.id = i] EXCEPT !.handler = "get"])
    BY <1>0, <1>1 DEF BeginGet
  <2> DEFINE p == [[Idle EXCEPT !.pc = "cacheGet", !.id = i] EXCEPT !.handler = "get"]
  <2>2. /\ p.pc = "cacheGet" /\ p.handler = "get"
        /\ p.status = Nothing /\ p.student = Nothing /\ p.page = Nothing /\ p.gen = Nothing
    BY DEF Idle
  <2>3. Move(r, p)
    BY <2>1
  <2> HIDE DEF p
  <2> QED
    BY <2>2, <2>3
<1>2. CASE BeginDelete(r)
  <2>1. PICK i \in Ids : Move(r, [[Idle EXCEPT !.pc = "cacheGet", !.id = i] EXCEPT !.handler = "delete"])
    BY <1>0, <1>2 DEF BeginDelete
  <2> DEFINE p == [[Idle EXCEPT !.pc = "cacheGet", !.id = i] EXCEPT !.handler = "delete"]
  <2>2. /\ p.pc = "cacheGet" /\ p.handler = "delete"
        /\ p.status = Nothing /\ p.student = Nothing /\ p.page = Nothing /\ p.gen = Nothing
    BY DEF Idle
  <2>3. Move(r, p)
    BY <2>1
  <2> HIDE DEF p
  <2> QED
    BY <2>2, <2>3
<1>3. CASE BeginUpdate(r)
  <2>1. PICK i \in Ids, body \in Patch :
           Move(r, [[Idle EXCEPT !.pc = "cacheGet", !.id = i, !.body = body] EXCEPT !.handler = "update"])
    BY <1>0, <1>3 DEF BeginUpdate
  <2> DEFINE p == [[Idle EXCEPT !.pc = "cacheGet", !.id = i, !.body = body] EXCEPT !.handler = "update"]
  <2>2. /\ p.pc = "cacheGet" /\ p.handler = "update"
        /\ p.status = Nothing /\ p.student = Nothing /\ p.page = Nothing /\ p.gen = Nothing
    BY DEF Idle
  <2>3. Move(r, p)
    BY <2>1
  <2> HIDE DEF p
  <2> QED
    BY <2>2, <2>3
<1>4. CASE BeginCreate(r)
  <2>1. PICK body \in Student :
           Move(r, [[Idle EXCEPT !.pc = "exists", !.body = body] EXCEPT !.handler = "create"])
    BY <1>4 DEF BeginCreate
  <2> DEFINE p == [[Idle EXCEPT !.pc = "exists", !.body = body] EXCEPT !.handler = "create"]
  <2>2. /\ p.pc = "exists" /\ p.handler = "create"
        /\ p.status = Nothing /\ p.student = Nothing /\ p.page = Nothing /\ p.gen = Nothing
    BY DEF Idle
  <2>3. Move(r, p)
    BY <2>1
  <2> HIDE DEF p
  <2> QED
    BY <2>2, <2>3
<1>5. CASE BeginList(r)
  <2>1. PICK params \in ListParams :
           Move(r, [[Idle EXCEPT !.pc = "genGet", !.params = params] EXCEPT !.handler = "list"])
    BY <1>0, <1>5 DEF BeginList
  <2> DEFINE p == [[Idle EXCEPT !.pc = "genGet", !.params = params] EXCEPT !.handler = "list"]
  <2>2. /\ p.pc = "genGet" /\ p.handler = "list"
        /\ p.status = Nothing /\ p.student = Nothing /\ p.page = Nothing /\ p.gen = Nothing
    BY DEF Idle
  <2>3. Move(r, p)
    BY <2>1
  <2> HIDE DEF p
  <2> QED
    BY <2>2, <2>3
<1> QED
  BY <1>1, <1>2, <1>3, <1>4, <1>5 DEF Arrive

LEMMA ArriveStep ==
    ASSUME TypeOK, SequentialInv, OneAtATime, NEW r \in Requests, Arrive(r)
    PROVE  SequentialInv' /\ RegistryStep
<1>1. PICK p : /\ Move(r, p)
               /\ p.pc \in {"cacheGet", "genGet", "exists"}
               /\ p.pc = "exists" => p.handler = "create"
               /\ p.status = Nothing /\ p.student = Nothing
               /\ p.page = Nothing /\ p.gen = Nothing
  BY ArriveFields
<1>2. /\ req'[r] = p /\ UNCHANGED <<students, deleted, byId, gen, lists, younger, issued>>
      /\ req[r].pc = "idle" /\ Silent(req[r])
  BY <1>1, ArriveRecord, Here DEF At, Knows
<1>3. "create" # "update" /\ Nothing \in Maybe(issued)
  BY FieldValues
<1>4. Knows(p) /\ Holds(p)
  BY <1>1, <1>3 DEF Knows, Holds, Silent, Reads
<1> QED
  BY <1>1, <1>2, <1>4, LookKeeps, Stutters DEF Silent

LEMMA OtherStep ==
    ASSUME TypeOK, SequentialInv, OneAtATime, NEW r \in Requests, DbFails(r) \/ Respond(r)
    PROVE  SequentialInv' /\ RegistryStep
<1> DEFINE q == req[r]
<1> USE DEF At
<1>1. /\ UNCHANGED <<students, deleted, byId, gen, lists, younger, issued>>
      /\ q \in Request /\ q.pc \notin {"cacheDel", "bump"} /\ Live' = Live /\ Used' = Used
  BY Here DEF DbFails, Respond, QuerySteps, Live, Used
<1>2. CASE DbFails(r)
  <2> DEFINE p == Refuse(q, 500)
  <2>1. /\ p.pc = "respond" /\ p.status = 500 /\ p.status # Nothing /\ p.gen = Nothing
        /\ p.student = Nothing /\ p.page = Nothing
    BY <1>1, AnswerIs DEF Statuses
  <2>2. req'[r] = p /\ Silent(q)
    BY <1>2, Here DEF DbFails, Knows, QuerySteps
  <2> HIDE DEF p
  <2>3. Knows(p) /\ Holds(p)
    BY <2>1, AnsweredKnows
  <2>4. SequentialInv'
    BY <1>1, <2>1, <2>2, <2>3, LookKeeps
  <2>5. RegistryStep
    BY <1>1, <2>1, <2>2, AnswersStatus
  <2> QED
    BY <2>4, <2>5
<1>3. CASE Respond(r)
  <2>1. req'[r] = Idle /\ q.pc = "respond" /\ ~Silent(q)
    BY <1>3, Here DEF Respond, Knows
  <2>2. /\ Idle.pc = "idle" /\ Idle.status = Nothing /\ Idle.student = Nothing
        /\ Idle.page = Nothing /\ Idle.gen = Nothing /\ Nothing \in Maybe(issued)
    BY FieldValues DEF Idle
  <2>3. Knows(Idle) /\ Holds(Idle)
    BY <2>2 DEF Knows, Holds, Silent, Reads
  <2>4. SequentialInv'
    BY <1>1, <2>1, <2>2, <2>3, LookKeeps
  <2>5. reply = Told(q) /\ reply' = Registry!NoReply
    BY <2>1, <2>2, ReplyIs DEF Silent
  <2>6. reply # Registry!NoReply
    BY <2>1, <2>5, SameData DEF Told, Silent
  <2>7. Registry!Answered
    BY <1>1, <2>5, <2>6 DEF Registry!Answered
  <2> QED
    BY <2>4, <2>7 DEF RegistryStep, Registry!Next
<1> QED
  BY <1>2, <1>3

LEMMA ExistsStep ==
    ASSUME TypeOK, SequentialInv, OneAtATime, NEW r \in Requests, Exists(r)
    PROVE  SequentialInv' /\ RegistryStep
<1> DEFINE q == req[r]
<1> USE DEF At
<1>1. /\ UNCHANGED <<students, deleted, byId, gen, lists, younger, issued>>
      /\ q \in Request /\ q.pc = "exists" /\ q.pc \notin {"cacheDel", "bump"}
      /\ Silent(q) /\ q.page = Nothing /\ q.gen = Nothing /\ Nothing \in Maybe(issued)
      /\ \/ q.handler = "create" /\ q.body \in Student
         \/ /\ q.handler = "update" /\ q.handler # "create" /\ q.id \in Ids /\ q.body \in Patch
            /\ q.id \in DOMAIN Live /\ q.student = Live[q.id] /\ q.student \in Student
            /\ q.body.cpf # q.student.cpf
  BY Here, FieldValues DEF Exists, HoldsWhatItUses, Knows, Holds, Reads
<1>2. CASE ExistsWithCPF(Live, q.body.cpf)
  <2> DEFINE p == Refuse(q, 409)
  <2>1. /\ p.pc = "respond" /\ p.status = 409 /\ p.status # Nothing /\ p.gen = Nothing
        /\ p.student = Nothing /\ p.page = Nothing
    BY <1>1, AnswerIs DEF Statuses
  <2>2. req'[r] = p
    BY <1>2, Here DEF Exists
  <2> HIDE DEF p
  <2>3. Knows(p) /\ Holds(p)
    BY <2>1, AnsweredKnows
  <2>4. SequentialInv'
    BY <1>1, <2>1, <2>2, <2>3, LookKeeps
  <2>5. Silent(req[r]) /\ UNCHANGED <<students, deleted>>
    BY <1>1
  <2>6. CASE q.handler = "create"
    <3>1. \E body \in Student : ExistsWithCPF(Live, body.cpf)
      BY <1>1, <1>2, <2>6
    <3> QED
      BY <2>1, <2>2, <2>4, <2>5, <3>1, AnswersStatus
  <2>7. CASE q.handler = "update" /\ q.id \in Ids /\ q.body \in Patch /\ q.id \in DOMAIN Live
             /\ q.student = Live[q.id] /\ q.body.cpf # q.student.cpf
    <3>1. \E j \in DOMAIN Live \ {q.id} : Live[j].cpf = q.body.cpf
      BY <1>2, <2>7 DEF ExistsWithCPF
    <3>2. \E i \in DOMAIN Live, body \in Patch :
             i \in Ids /\ \E j \in DOMAIN Live \ {i} : Live[j].cpf = body.cpf
      BY <2>7, <3>1
    <3> QED
      BY <2>1, <2>2, <2>4, <2>5, <3>2, AnswersStatus
  <2> QED
    BY <1>1, <2>6, <2>7
<1>3. CASE ~ExistsWithCPF(Live, q.body.cpf) /\ q.handler = "create"
  <2> DEFINE p == Go(q, "insert")
  <2>1. p.pc = "insert" /\ p.body = q.body /\ p.status = q.status /\ p.page = Nothing /\ p.gen = Nothing
    BY <1>1, GoType, FieldValues
  <2>2. req'[r] = p
    BY <1>3, Here DEF Exists
  <2> HIDE DEF p
  <2>3. Knows(p) /\ Holds(p)
    BY <1>1, <1>3, <2>1 DEF Knows, Holds, Silent, Reads
  <2> QED
    BY <1>1, <2>1, <2>2, <2>3, LookKeeps, Stutters DEF Silent
<1>4. CASE ~ExistsWithCPF(Live, q.body.cpf) /\ q.handler # "create"
  <2> DEFINE p == Hold(q, "save", apply(q.body, q.student))
  <2>1. apply(q.body, q.student) \in Student /\ "save" \in Steps
    BY <1>1, <1>4, ApplyIsStudent, FieldValues
  <2>2. /\ p.pc = "save" /\ p.id = q.id /\ p.body = q.body /\ p.status = q.status
        /\ p.student = apply(q.body, q.student) /\ p.gen = Nothing
    BY <1>1, <2>1, HoldType
  <2>3. p.page = Nothing
    BY <1>1 DEF Hold, Request
  <2>4. req'[r] = p
    BY <1>4, Here DEF Exists, ReadyToSave
  <2> HIDE DEF p
  <2>5. \A j \in DOMAIN Live \ {q.id} : Live[j].cpf # q.body.cpf
    BY <1>4 DEF ExistsWithCPF
  <2>6. Knows(p) /\ Holds(p)
    BY <1>1, <1>4, <2>2, <2>3, <2>5 DEF Knows, Holds, Silent, Reads
  <2> QED
    BY <1>1, <2>2, <2>4, <2>6, LookKeeps, Stutters DEF Silent
<1> QED
  BY <1>2, <1>3, <1>4

-----------------------------------------------------------------------------
(***************************************************************************)
(* The commits.                                                            *)
(***************************************************************************)
LEMMA CommittedIs ==
    ASSUME NEW r \in Requests, r \notin Uncached, NEW q \in Request, NEW status \in Statuses,
           NEW step \in {"cacheDel", "bump"}
    PROVE  LET p == Committed(r, q, status, step)
           IN  /\ p.pc = step /\ p.status = status /\ p.status # Nothing /\ p.id = q.id
               /\ p.student = q.student /\ p.page = q.page /\ p.gen = q.gen
<1>1. status # Nothing
  BY NothingAssumption DEF Statuses
<1> QED
  BY <1>1 DEF Committed, Request

\* While the entry of the row it wrote may be stale, the writer is there.
LEMMA CommitCacheInv ==
    ASSUME TypeOK, SequentialInv, OneAtATime, NEW r \in Requests, NEW p, req'[r] = p,
           ~Invalidating(r), UNCHANGED <<byId, gen, lists, younger, issued>>,
           p.pc \in {"cacheDel", "bump"},
           \A i \in deleted' : students'[i] # Nothing,
           \A i \in Ids :
              \/ i \in DOMAIN Live => i \in DOMAIN Live' /\ Live'[i] = Live[i]
              \/ p.pc = "cacheDel" /\ p.id = i
    PROVE  CacheInv'
<1>1. PendingWriter'
  BY Alone DEF PendingWriter, Invalidating
<1>2. \A i \in Ids : FreshStudent(i)
  BY Alone DEF SequentialInv, CacheInv, At, Invalidating
<1>3. \A i \in Ids : FreshStudent(i)' \/ (p.pc = "cacheDel" /\ p.id = i)
  BY <1>2 DEF FreshStudent
<1>4. \A i \in Ids : FreshStudent(i)' \/ \E s \in Requests : At(s, "cacheDel")' /\ req'[s].id = i
  BY <1>3 DEF At
<1> QED
  BY <1>1, <1>4 DEF SequentialInv, CacheInv

LEMMA InsertStep ==
    ASSUME TypeOK, SequentialInv, OneAtATime, NEW r \in Requests, Insert(r)
    PROVE  SequentialInv' /\ RegistryStep
<1> DEFINE q == req[r]
<1> USE DEF At
<1>1. /\ q \in Request /\ q.pc = "insert" /\ q.body \in Student /\ q.body # Nothing /\ r \notin Uncached
      /\ Silent(q) /\ q.page = Nothing /\ q.gen = Nothing /\ ~ExistsWithCPF(Live, q.body.cpf)
  BY Here, NothingIsNoStudent DEF Insert, HoldsWhatItUses, Knows, Holds, Reads
<1>2. PICK i \in Ids \ Used :
         /\ students' = [students EXCEPT ![i] = q.body]
         /\ Move(r, Committed(r, [q EXCEPT !.id = i, !.student = q.body], 201, "bump"))
  BY DEF Insert
<1> DEFINE b == [q EXCEPT !.id = i, !.student = q.body]
<1>3. i \in Maybe(Ids) /\ q.body \in Maybe(Student)
  BY <1>1, FieldValues
<1>4. b \in Request
  BY <1>1, <1>3, Zenon DEF Request
<1>5. b.student = q.body /\ b.page = Nothing /\ b.gen = Nothing
  BY <1>1 DEF Request
<1>6. Move(r, Committed(r, b, 201, "bump"))
  BY <1>2
<1> HIDE DEF b
<1>7. PICK p : /\ req'[r] = p /\ p.pc = "bump" /\ p.status = 201 /\ p.status # Nothing
               /\ p.student = q.body /\ p.page = Nothing /\ p.gen = Nothing
  BY <1>1, <1>4, <1>5, <1>6, CommittedIs, Here DEF Statuses
<1>8. UNCHANGED <<deleted, byId, gen, lists, younger, issued>>
  BY DEF Insert, Misses, keys
<1>9. students[i] = Nothing /\ i \notin deleted /\ i \notin DOMAIN Live
  BY DEF Used, SequentialInv, CacheInv, Live
<1>10. /\ Live' = [j \in DOMAIN Live \cup {i} |-> IF j = i THEN q.body ELSE Live[j]]
       /\ Used' = Used \cup {i}
  <2>1. \A j \in Ids : students'[j] = IF j = i THEN q.body ELSE students[j]
    BY <1>2 DEF TypeOK
  <2>2. DOMAIN Live = {j \in Ids : students[j] # Nothing} \ deleted
        /\ \A j \in DOMAIN Live : Live[j] = students[j]
    BY DEF Live
  <2>3. {j \in Ids : students'[j] # Nothing} \ deleted' = DOMAIN Live \cup {i}
    BY <1>1, <1>8, <1>9, <2>1, <2>2
  <2>4. Live' = [j \in DOMAIN Live \cup {i} |-> students'[j]]
    BY <2>3 DEF Live
  <2>5. \A j \in DOMAIN Live \cup {i} : students'[j] = IF j = i THEN q.body ELSE Live[j]
    BY <2>1, <2>2
  <2>6. Used' = Used \cup {i}
    BY <1>1, <2>1 DEF Used
  <2> QED
    BY <2>4, <2>5, <2>6
<1>11. RegistryStep
  <2>1. reply = Registry!NoReply
        /\ reply' = [status |-> 201, student |-> q.body, page |-> Nothing]
    BY <1>1, <1>7, Tells DEF Silent, Told
  <2>2. Registry!Put(i, q.body)
    BY <1>10 DEF Registry!Put
  <2>3. Registry!Create(q.body)
    BY <1>1, <1>10, <2>1, <2>2, ReplyFields, SameData DEF Registry!Create
  <2>4. Registry!Request
    BY <1>1, <2>3, SameData DEF Registry!Request
  <2> QED
    BY <1>1, <1>7, <2>4, Tells DEF Silent
<1>12. CacheInv'
  <2>1. \A j \in deleted' : students'[j] # Nothing
    BY <1>2, <1>8, <1>9 DEF SequentialInv, CacheInv, TypeOK
  <2>2. \A j \in DOMAIN Live : j \in DOMAIN Live' /\ Live'[j] = Live[j]
    BY <1>9, <1>10
  <2>3. ~Invalidating(r)
    BY <1>1 DEF Invalidating
  <2> QED
    BY <1>7, <1>8, <2>1, <2>2, <2>3, CommitCacheInv
<1>13. CPFsAreUnique(Live)'
  <2>1. CPFsAreUnique(Live) /\ \A j \in DOMAIN Live : Live[j].cpf # q.body.cpf
    BY <1>1, Here DEF ExistsWithCPF
  <2> QED
    BY <1>9, <1>10, <2>1 DEF CPFsAreUnique
<1> QED
  BY <1>7, <1>11, <1>12, <1>13, AnsweredKnows, AssembleInv

LEMMA SaveStep ==
    ASSUME TypeOK, SequentialInv, OneAtATime, NEW r \in Requests, Save(r)
    PROVE  SequentialInv' /\ RegistryStep
<1> DEFINE q == req[r]
           i == req[r].id
           student == apply(q.body, Live[i])
<1> USE DEF At
<1>1. /\ q \in Request /\ q.pc = "save" /\ q.body \in Patch /\ r \notin Uncached /\ i \in Ids
      /\ i \in DOMAIN Live /\ q.student = student /\ student \in Student /\ student # Nothing
      /\ Silent(q) /\ q.page = Nothing /\ q.gen = Nothing
      /\ \A j \in DOMAIN Live \ {i} : Live[j].cpf # q.body.cpf
  <2>1. q.pc = "save" /\ q \in Request /\ r \notin Uncached
    BY Here DEF Save
  <2>2. q.id \in Ids /\ q.student \in Student /\ q.student # Nothing
    BY <2>1, Here, NothingIsNoStudent DEF HoldsWhatItUses
  <2>3. /\ q.body \in Patch /\ q.id \in DOMAIN Live /\ q.student = apply(q.body, Live[q.id])
        /\ Silent(q) /\ q.page = Nothing
        /\ \A j \in DOMAIN Live \ {q.id} : Live[j].cpf # q.body.cpf
    BY <2>1, Here DEF Knows
  <2>4. q.gen = Nothing
    BY <2>1, Here DEF Holds, Reads
  <2> QED
    BY <2>1, <2>2, <2>3, <2>4
<1>2. PICK p : /\ req'[r] = p /\ p.pc = "cacheDel" /\ p.status = 200 /\ p.status # Nothing
               /\ p.id = i /\ p.student = student /\ p.page = Nothing /\ p.gen = Nothing
  BY <1>1, CommittedIs, Here DEF Save, Statuses
<1>3. /\ students' = [students EXCEPT ![i] = student] /\ deleted' = deleted \ {i}
      /\ UNCHANGED <<byId, gen, lists, younger, issued>>
  BY <1>1 DEF Save, Misses, keys
<1>4. student.cpf = (IF q.body.cpf = Nothing THEN Live[i].cpf ELSE q.body.cpf)
  BY DEF apply, OrElse
<1>5. PICK kept : kept = student
  OBVIOUS
<1>6. PICK h : h = i
  OBVIOUS
<1>7. PICK patch : patch = q.body
  OBVIOUS
<1> HIDE DEF student, i
<1>8. /\ Live' = [j \in DOMAIN Live \cup {h} |-> IF j = h THEN kept ELSE Live[j]]
      /\ Used' = Used
  <2>1. \A j \in Ids : students'[j] = IF j = h THEN kept ELSE students[j]
    BY <1>1, <1>3, <1>5, <1>6 DEF TypeOK
  <2>2. DOMAIN Live = {j \in Ids : students[j] # Nothing} \ deleted
        /\ \A j \in DOMAIN Live : Live[j] = students[j]
    BY DEF Live
  <2>3. {j \in Ids : students'[j] # Nothing} \ deleted' = DOMAIN Live \cup {h}
    BY <1>1, <1>3, <1>5, <1>6, <2>1, <2>2
  <2>4. Live' = [j \in DOMAIN Live \cup {h} |-> students'[j]]
    BY <2>3 DEF Live
  <2>5. \A j \in DOMAIN Live \cup {h} : students'[j] = IF j = h THEN kept ELSE Live[j]
    BY <1>1, <1>6, <2>1, <2>2
  <2>6. Used' = Used
    BY <1>1, <1>5, <1>6, <2>1, <2>2 DEF Used
  <2> QED
    BY <2>4, <2>5, <2>6
<1>9. kept = apply(patch, Live[h])
  BY <1>5, <1>6, <1>7 DEF student, i
<1>10. RegistryStep
  <2>1. reply = Registry!NoReply
        /\ reply' = [status |-> 200, student |-> kept, page |-> Nothing]
    BY <1>1, <1>2, <1>5, Tells DEF Silent, Told
  <2>2. Registry!Put(h, Registry!apply(patch, Live[h]))
    BY <1>8, <1>9, SameData DEF Registry!Put
  <2>3. ~Registry!TakenByAnother(h, patch.cpf)
    BY <1>1, <1>6, <1>7 DEF Registry!TakenByAnother
  <2>4. Registry!Update(h, patch)
    BY <1>1, <1>6, <1>8, <1>9, <2>1, <2>2, <2>3, ReplyFields, SameData DEF Registry!Update
  <2>5. Registry!Request
    BY <1>1, <1>6, <1>7, <2>4, SameData DEF Registry!Request
  <2> QED
    BY <1>1, <1>2, <2>5, Tells DEF Silent
<1>11. CacheInv'
  <2>1. \A j \in deleted' : students'[j] # Nothing
    BY <1>1, <1>3 DEF SequentialInv, CacheInv, TypeOK
  <2>2. \A j \in Ids : j # h /\ j \in DOMAIN Live => j \in DOMAIN Live' /\ Live'[j] = Live[j]
    BY <1>8
  <2>3. ~Invalidating(r)
    BY <1>1 DEF Invalidating
  <2> QED
    BY <1>2, <1>3, <1>6, <2>1, <2>2, <2>3, CommitCacheInv
<1>12. CPFsAreUnique(Live)'
  <2>1. CPFsAreUnique(Live) /\ h \in DOMAIN Live
    BY <1>1, <1>6, Here
  <2>2. \A j \in DOMAIN Live \ {h} : Live[j].cpf # kept.cpf
    BY <1>1, <1>4, <1>5, <1>6, <2>1 DEF CPFsAreUnique
  <2> QED
    BY <1>8, <2>1, <2>2 DEF CPFsAreUnique
<1> QED
  BY <1>2, <1>10, <1>11, <1>12, AnsweredKnows, AssembleInv

LEMMA SoftDeleteStep ==
    ASSUME TypeOK, SequentialInv, OneAtATime, NEW r \in Requests, SoftDelete(r)
    PROVE  SequentialInv' /\ RegistryStep
<1> DEFINE q == req[r]
           b == [q EXCEPT !.student = Nothing]
<1> USE DEF At
<1>1. /\ q \in Request /\ q.pc = "softDelete" /\ r \notin Uncached /\ q.id \in Ids
      /\ q.id \in DOMAIN Live /\ Silent(q) /\ q.page = Nothing /\ q.gen = Nothing
      /\ Nothing \in Maybe(Student)
  BY Here, FieldValues DEF SoftDelete, HoldsWhatItUses, Knows, Holds, Reads
<1>2. b \in Request
  BY <1>1, Zenon DEF Request
<1>3. b.id = q.id /\ b.student = Nothing /\ b.page = Nothing /\ b.gen = Nothing
  BY <1>1 DEF Request
<1>4. Move(r, Committed(r, b, 204, "cacheDel"))
  BY DEF SoftDelete
<1> HIDE DEF b
<1>5. PICK p : /\ req'[r] = p /\ p.pc = "cacheDel" /\ p.status = 204 /\ p.status # Nothing
               /\ p.id = q.id /\ p.student = Nothing /\ p.page = Nothing /\ p.gen = Nothing
  BY <1>1, <1>2, <1>3, <1>4, CommittedIs, Here DEF Statuses
<1>6. PICK h : h = q.id
  OBVIOUS
<1>7. deleted' = deleted \cup {h} /\ UNCHANGED <<students, byId, gen, lists, younger, issued>>
  BY <1>6 DEF SoftDelete, Misses, keys
<1>8. Live' = [j \in DOMAIN Live \ {h} |-> Live[j]] /\ Used' = Used
  BY <1>7 DEF Live, Used
<1>9. RegistryStep
  <2>1. reply = Registry!NoReply /\ reply' = Registry!Status(204)
    BY <1>1, <1>5, Tells, StatusIs DEF Silent, Told
  <2>2. Registry!Delete(h)
    BY <1>1, <1>6, <1>8, <2>1 DEF Registry!Delete
  <2>3. Registry!Request
    BY <1>1, <1>6, <2>2 DEF Registry!Request
  <2> QED
    BY <1>1, <1>5, <2>3, Tells DEF Silent
<1>10. CacheInv'
  <2>1. students[h] # Nothing
    BY <1>1, <1>6 DEF Live
  <2>2. \A j \in deleted' : students'[j] # Nothing
    BY <1>7, <2>1 DEF SequentialInv, CacheInv
  <2>3. \A j \in Ids : j # h /\ j \in DOMAIN Live => j \in DOMAIN Live' /\ Live'[j] = Live[j]
    BY <1>8
  <2>4. ~Invalidating(r)
    BY <1>1 DEF Invalidating
  <2> QED
    BY <1>5, <1>6, <1>7, <2>2, <2>3, <2>4, CommitCacheInv
<1>11. CPFsAreUnique(Live)'
  BY <1>8, Here DEF CPFsAreUnique
<1> QED
  BY <1>5, <1>9, <1>10, <1>11, AnsweredKnows, AssembleInv

-----------------------------------------------------------------------------
(***************************************************************************)
(* The invalidation, and what Redis drops.                                 *)
(***************************************************************************)
LEMMA CacheDelStep ==
    ASSUME TypeOK, SequentialInv, OneAtATime, NEW r \in Requests, CacheDel(r)
    PROVE  SequentialInv' /\ RegistryStep
<1> DEFINE q == req[r]
           b == Go(q, "bump")
<1> USE DEF At
<1>1. /\ q \in Request /\ q.pc = "cacheDel" /\ q.id \in Ids /\ ~Silent(q)
      /\ q.page = Nothing /\ q.gen = Nothing /\ "bump" \in Steps
  BY Here, FieldValues DEF CacheDel, HoldsWhatItUses, Knows, Holds, Reads
<1>2. PICK p : /\ req'[r] = p /\ p.pc = "bump" /\ p.status # Nothing /\ p.status = q.status
               /\ p.student = q.student /\ p.page = q.page /\ p.gen = Nothing
  <2>1. /\ b.pc = "bump" /\ b.status # Nothing /\ b.status = q.status
        /\ b.student = q.student /\ b.page = q.page /\ b.gen = Nothing
    BY <1>1, GoType DEF Silent
  <2>2. req'[r] = b
    BY Here DEF CacheDel
  <2> HIDE DEF b
  <2> QED
    BY <2>1, <2>2
<1>3. /\ UNCHANGED <<students, deleted, gen, lists, younger, issued>> /\ Live' = Live
      /\ byId' = [byId EXCEPT ![q.id] = Nothing]
  BY DEF CacheDel, OneAtATime, table, pages, Live
<1>4. \A i \in Ids : FreshStudent(i)'
  <2>1. \A i \in Ids : FreshStudent(i) \/ i = q.id
    BY Alone DEF SequentialInv, CacheInv
  <2> QED
    BY <1>3, <2>1 DEF FreshStudent, TypeOK
<1>5. CacheInv'
  <2>1. PendingWriter'
    BY <1>2 DEF PendingWriter, Invalidating
  <2> QED
    BY <1>3, <1>4, <2>1 DEF SequentialInv, CacheInv
<1>6. Knows(p)' /\ Holds(p)'
  BY <1>1, <1>2, AnsweredKnows
<1>7. CPFsAreUnique(Live)'
  BY <1>3, Here DEF CPFsAreUnique
<1>8. SequentialInv'
  BY <1>2, <1>5, <1>6, <1>7, AssembleInv
<1> QED
  BY <1>2, <1>3, <1>8, Stutters

\* A bump, acknowledged or not: no page is stored under what it installs.
LEMMA BumpStep ==
    ASSUME TypeOK, SequentialInv, OneAtATime, NEW r \in Requests, Bump(r) \/ BumpUnacknowledged(r)
    PROVE  SequentialInv' /\ RegistryStep
<1> DEFINE q == req[r]
<1> USE DEF At
<1>1. /\ q \in Request /\ q.pc = "bump" /\ ~Silent(q) /\ q.page = Nothing /\ q.status \in Statuses
      /\ q.gen \in Maybe(issued)
      /\ \A params \in ListParams : q.gen = Nothing \/ lists[<<q.gen, params>>] = Nothing
  BY Here DEF Bump, BumpUnacknowledged, HoldsWhatItUses, Knows, Holds, Silent, Request, Maybe
<1>2. PICK g \in Generations(q) :
         /\ SetGeneration(g)
         /\ \/ Move(r, Answer(q, q.status))
            \/ Move(r, [q EXCEPT !.gen = g])
  BY DEF Bump, BumpUnacknowledged
<1>3. /\ UNCHANGED <<students, deleted, byId, lists>> /\ Live' = Live
      /\ gen' = g /\ issued' = issued \cup {g} /\ younger' = {}
  BY <1>2 DEF Bump, BumpUnacknowledged, SetGeneration, table, Live
<1>4. g \in Gens /\ \A params \in ListParams : lists[<<g, params>>] = Nothing
  <2>1. CASE q.gen = Nothing
    <3>1. g \in Gens /\ g \notin issued
      BY <2>1 DEF Generations
    <3>2. \A params \in ListParams : <<g, params>> \in PageKeys
      BY <3>1 DEF PageKeys
    <3> QED
      BY <3>1, <3>2 DEF SequentialInv, CacheInv
  <2>2. CASE q.gen # Nothing
    BY <1>1, <2>2 DEF Generations, Request, Maybe
  <2> QED
    BY <2>1, <2>2
<1>5. PICK p : /\ req'[r] = p /\ p.status # Nothing /\ p.status = q.status
               /\ p.student = q.student /\ p.page = q.page
               /\ \/ p.pc = "respond" /\ p.gen = Nothing
                  \/ p.pc = "bump" /\ p.gen = g
  <2>1. CASE Move(r, Answer(q, q.status))
    <3>1. PICK b \in Request :
             /\ b = Answer(q, q.status)
             /\ b.pc = "respond" /\ b.status = q.status /\ b.gen = Nothing
             /\ b.student = q.student /\ b.page = q.page
      BY <1>1, AnswerIs
    <3>2. req'[r] = b /\ b.status # Nothing
      BY <1>1, <2>1, <3>1, Here DEF Silent
    <3> QED
      BY <3>1, <3>2
  <2>2. CASE Move(r, [q EXCEPT !.gen = g])
    <3> DEFINE b == [q EXCEPT !.gen = g]
    <3>1. /\ b.status # Nothing /\ b.status = q.status /\ b.pc = "bump" /\ b.gen = g
          /\ b.student = q.student /\ b.page = q.page
      BY <1>1 DEF Request, Silent
    <3>2. req'[r] = b
      BY <2>2, Here
    <3> HIDE DEF b
    <3> QED
      BY <3>1, <3>2
  <2> QED
    BY <1>2, <2>1, <2>2
<1>6. CacheInv'
  <2>1. \A i \in Ids : FreshStudent(i)'
    BY <1>1, <1>3, Alone DEF SequentialInv, CacheInv, FreshStudent
  <2>2. \A params \in ListParams : FreshPage(<<gen, params>>)'
    BY <1>3, <1>4 DEF FreshPage
  <2> QED
    BY <1>3, <2>1, <2>2 DEF SequentialInv, CacheInv
<1>7. Knows(p)' /\ Holds(p)'
  <2>1. CASE p.gen = Nothing
    BY <1>1, <1>5, <2>1, AnsweredKnows
  <2>2. CASE p.pc = "bump" /\ p.gen = g
    BY <1>1, <1>3, <1>4, <1>5, <2>2 DEF Knows, Holds, Silent, Reads, Maybe
  <2> QED
    BY <1>5, <2>1, <2>2
<1>8. CPFsAreUnique(Live)'
  BY <1>3, Here DEF CPFsAreUnique
<1>9. SequentialInv'
  BY <1>5, <1>6, <1>7, <1>8, AssembleInv
<1> QED
  BY <1>3, <1>5, <1>9, Stutters

LEMMA LapseStep ==
    ASSUME TypeOK, SequentialInv, OneAtATime, Lapse
    PROVE  SequentialInv' /\ RegistryStep
<1>1. UNCHANGED <<students, deleted, issued, req>> /\ Live' = Live /\ Used' = Used
      /\ PendingWriter' = PendingWriter
  BY DEF Lapse, LapseStudent, LapsePage, LapseGen, table, pages, Live, Used, PendingWriter, Invalidating
<1>2. RegistryStep
  <2>1. reply' = reply
    BY <1>1 DEF reply, Answering, Reply
  <2> QED
    BY <1>1, <2>1 DEF RegistryStep, Registry!vars
<1>3. CPFsAreUnique(Live)'
  BY <1>1 DEF SequentialInv, CPFsAreUnique
<1>4. ASSUME NEW r \in Requests PROVE Knows(req[r])'
  <2>1. Knows(req[r])
    BY DEF SequentialInv
  <2> QED
    BY <1>1, <2>1 DEF Knows, Silent
<1>5. CASE \E i \in Ids : LapseStudent(i)
  <2>1. PICK i \in Ids : LapseStudent(i)
    BY <1>5
  <2>2. UNCHANGED <<gen, lists, younger>> /\ byId' = [byId EXCEPT ![i] = Nothing]
    BY <2>1 DEF LapseStudent, pages
  <2>3. \A j \in Ids : FreshStudent(j) => FreshStudent(j)'
    BY <1>1, <2>2 DEF FreshStudent, TypeOK
  <2>4. CacheInv'
    BY <1>1, <2>2, <2>3 DEF SequentialInv, CacheInv, FreshPage, At
  <2>5. \A r \in Requests : Holds(req[r])'
    BY <1>1, <2>2 DEF SequentialInv, Holds, FreshPage
  <2> QED
    BY <1>2, <1>3, <1>4, <2>4, <2>5 DEF SequentialInv
<1>6. CASE \E k \in PageKeys : LapsePage(k)
  <2>1. PICK k \in PageKeys : LapsePage(k)
    BY <1>6
  <2>2. UNCHANGED <<byId, gen, younger>> /\ \A j \in PageKeys : lists'[j] \in {lists[j], Nothing}
    BY <2>1 DEF LapsePage, TypeOK
  <2>3. \A g \in Gens, params \in ListParams : <<g, params>> \in PageKeys
    BY DEF PageKeys
  <2>4. CacheInv'
    <3>1. gen \in Gens /\ \A params \in ListParams : FreshPage(<<gen, params>>) => FreshPage(<<gen, params>>)'
      BY <1>1, <2>2, <2>3 DEF TypeOK, FreshPage
    <3>2. \A j \in PageKeys : lists'[j] # Nothing => lists[j] # Nothing
      BY <2>2
    <3>3. \A i \in Ids : FreshStudent(i)' = FreshStudent(i)
      BY <1>1, <2>2 DEF FreshStudent
    <3> QED
      BY <1>1, <2>2, <3>1, <3>2, <3>3 DEF SequentialInv, CacheInv, At
  <2>5. ASSUME NEW r \in Requests PROVE Holds(req[r])'
    <3>1. Holds(req[r]) /\ req[r] \in Request /\ HoldsWhatItUses(r, req[r])
      BY Here
    <3>2. req[r].pc = "pageGet" => req[r].gen \in Gens /\ req[r].params \in ListParams
      BY <3>1 DEF HoldsWhatItUses
    <3>3. req[r].gen = Nothing \/ req[r].gen \in Gens
      BY <3>1 DEF Request, Maybe
    <3> QED
      BY <1>1, <2>2, <2>3, <3>1, <3>2, <3>3 DEF Holds, FreshPage
  <2> QED
    BY <1>2, <1>3, <1>4, <2>4, <2>5 DEF SequentialInv
<1>7. CASE LapseGen
  <2>1. /\ gen # Gen0 /\ gen' = Gen0 /\ younger' = {} /\ UNCHANGED <<byId, lists>>
        /\ \A k \in PageKeys \ younger : lists[k] = Nothing
    BY <1>7 DEF LapseGen
  <2>2. \A params \in ListParams : lists[<<Gen0, params>>] = Nothing
    <3>1. \A params \in ListParams : <<Gen0, params>> \in PageKeys \ younger
      BY <2>1, GensAssumption DEF SequentialInv, CacheInv, PageKeys
    <3> QED
      BY <2>1, <3>1
  <2>3. CacheInv'
    BY <1>1, <2>1, <2>2 DEF SequentialInv, CacheInv, FreshPage, FreshStudent, At
  <2>4. \A r \in Requests : Holds(req[r])'
    BY <1>1, <2>1 DEF SequentialInv, Holds, FreshPage
  <2> QED
    BY <1>2, <1>3, <1>4, <2>3, <2>4 DEF SequentialInv
<1> QED
  BY <1>5, <1>6, <1>7 DEF Lapse

-----------------------------------------------------------------------------
LEMMA InitStep ==
    ASSUME OneAtATime, Init
    PROVE  SequentialInv /\ Registry!Init
<1>1. Live = Stored /\ Used = DOMAIN Stored
  <2>1. /\ DOMAIN Stored \subseteq Ids /\ Stored = [i \in DOMAIN Stored |-> Stored[i]]
        /\ \A i \in DOMAIN Stored : Stored[i] # Nothing
    BY StoredAssumption, TableFacts, NothingIsNoStudent
  <2>2. \A i \in Ids : students[i] = IF i \in DOMAIN Stored THEN Stored[i] ELSE Nothing
    BY DEF Init
  <2>3. Used = DOMAIN Stored
    BY <2>1, <2>2 DEF Used
  <2>4. Live = [i \in DOMAIN Stored |-> students[i]]
    BY <2>3 DEF Live, Used, Init
  <2> QED
    BY <2>1, <2>2, <2>3, <2>4
<1>2. \A r \in Requests : req[r].pc = "idle" /\ req[r].status = Nothing /\ req[r].student = Nothing
                            /\ req[r].page = Nothing /\ req[r].gen = Nothing
  BY DEF Init, Idle
<1>3. Nothing \in Maybe(issued)
  BY FieldValues
<1>4. \A r \in Requests : Knows(req[r]) /\ Holds(req[r])
  BY <1>2, <1>3 DEF Knows, Holds, Silent, Reads
<1>5. \A i \in Ids : FreshStudent(i)
  BY DEF Init, FreshStudent
<1>6. \A params \in ListParams : FreshPage(<<gen, params>>)
  BY GensAssumption DEF Init, FreshPage, PageKeys
<1>7. CacheInv
  BY <1>5, <1>6 DEF Init, CacheInv
<1>8. reply = Registry!NoReply
  <2>1. Answering = {}
    BY <1>2 DEF Answering
  <2> QED
    BY <2>1, SameData DEF reply
<1> QED
  BY <1>1, <1>4, <1>7, <1>8, StoredAssumption DEF SequentialInv, Registry!Init

LEMMA SequentialNext ==
    ASSUME OneAtATime
    PROVE  TypeOK /\ SequentialInv /\ [Next]_vars => SequentialInv' /\ RegistryStep
<1> SUFFICES ASSUME TypeOK, SequentialInv, [Next]_vars
             PROVE  SequentialInv' /\ RegistryStep
  OBVIOUS
<1>1. ASSUME NEW r \in Requests, Arrive(r) PROVE SequentialInv' /\ RegistryStep
  BY <1>1, ArriveStep
<1>2. ASSUME NEW r \in Requests, Serve(r) PROVE SequentialInv' /\ RegistryStep
  <2>1. ~BumpFails(r)
    BY DEF BumpFails, OneAtATime
  <2> QED
    BY <1>2, <2>1, FindByIDStep, CacheSetStep, ListStepLooks, PageSetStep, ExistsStep, InsertStep,
       SaveStep, SoftDeleteStep, CacheDelStep, BumpStep, OtherStep DEF Serve, Read, Write
<1>3. ASSUME NEW r \in Requests, Abandon(r) PROVE SequentialInv' /\ RegistryStep
  BY <1>3 DEF Abandon, OneAtATime
<1>4. CASE Lapse
  BY <1>4, LapseStep
<1>5. CASE UNCHANGED vars
  <2>1. UNCHANGED <<students, deleted, byId, gen, lists, younger, issued, req>>
        /\ Live' = Live /\ Used' = Used
    BY <1>5 DEF vars, Live, Used
  <2>2. reply' = reply
    BY <2>1 DEF reply, Answering, Reply
  <2>3. CacheInv' /\ CPFsAreUnique(Live)'
    BY <2>1 DEF SequentialInv, CacheInv, FreshStudent, FreshPage, At, PendingWriter, Invalidating,
                CPFsAreUnique
  <2>4. \A r \in Requests : Knows(req[r])' /\ Holds(req[r])'
    BY <2>1 DEF SequentialInv, Knows, Holds, Silent, FreshPage
  <2> QED
    BY <2>1, <2>2, <2>3, <2>4 DEF SequentialInv, RegistryStep, Registry!vars
<1> QED
  BY <1>1, <1>2, <1>3, <1>4, <1>5 DEF Next

(***************************************************************************)
(* With requests that do not overlap, failing reads, fills and queries and *)
(* bumps sent twice included: no cached student differs from its row once  *)
(* the write that changed it has deleted the entry (README.md:60).         *)
(***************************************************************************)
THEOREM EntriesAreRows ==
    ASSUME OneAtATime
    PROVE  Spec => []ByIdCoherent
<1>1. Init => SequentialInv
  BY InitStep
<1>2. TypeOK /\ SequentialInv /\ [Next]_vars => SequentialInv'
  BY SequentialNext
<1>3. SequentialInv => ByIdCoherent
  BY DEF SequentialInv, CacheInv, ByIdCoherent, At, Invalidating
<1> QED
  BY <1>1, <1>2, <1>3, InitType, NextType, PTL DEF Spec

(***************************************************************************)
(* The same requests are answered as the abstract registry answers them,   *)
(* from a cache or not: every step is one of its steps, or none.           *)
(***************************************************************************)
THEOREM CacheIsInvisible ==
    ASSUME OneAtATime
    PROVE  Spec => ImplementsRegistry
<1>1. Init => SequentialInv /\ Registry!Init
  BY InitStep
<1>2. TypeOK /\ SequentialInv /\ [Next]_vars => SequentialInv' /\ [Registry!Next]_(Registry!vars)
  BY SequentialNext DEF RegistryStep
<1> QED
  BY <1>1, <1>2, InitType, NextType, PTL DEF Spec, ImplementsRegistry, Registry!Spec
-----------------------------------------------------------------------------
(***************************************************************************)
(* What overlap alone can break.                                           *)
(***************************************************************************)
LEMMA WritesKeepRows ==
    ASSUME OneAtATime, TypeOK, SequentialInv, [Next]_vars
    PROVE  /\ deleted \subseteq deleted'
           /\ \A r \in Requests, i \in Ids :
                 At(r, "save") /\ req[r].id = i /\ students'[i] # students[i] =>
                    students'[i] \in {apply(patch, students[i]) : patch \in {req[r].body}}
<1>1. ASSUME NEW r \in Requests, Save(r) PROVE deleted \subseteq deleted'
  <2>1. req[r].id \in DOMAIN Live
    BY <1>1, Here DEF Save, At, Knows
  <2>2. req[r].id \notin deleted
    BY <2>1 DEF Live
  <2> QED
    BY <1>1, <2>2 DEF Save
<1>2. ASSUME NEW r \in Requests, NEW i \in Ids, Save(r), req[r].id = i
      PROVE  students'[i] \in {apply(patch, students[i]) : patch \in {req[r].body}}
  <2>1. i \in DOMAIN Live /\ req[r].student = apply(req[r].body, Live[i])
    BY <1>2, Here DEF Save, At, Knows
  <2>2. Live[i] = students[i] /\ students'[i] = req[r].student
    BY <1>2, <2>1 DEF Save, Live, TypeOK
  <2> QED
    BY <2>1, <2>2
<1>3. CASE \E r \in Requests : Save(r)
  BY <1>1, <1>2, <1>3, Alone
<1>4. CASE \E r \in Requests : Insert(r)
  BY <1>4, Alone DEF Insert, At
<1>5. CASE \E r \in Requests : SoftDelete(r)
  BY <1>5 DEF SoftDelete
<1>6. CASE ~\E r \in Requests : Save(r) \/ Insert(r) \/ SoftDelete(r)
  <2>1. ASSUME NEW r \in Requests, Arrive(r) PROVE UNCHANGED <<students, deleted>>
    BY <2>1, ArriveRecord DEF table
  <2>2. ASSUME NEW r \in Requests, Serve(r) PROVE UNCHANGED <<students, deleted>>
    <3>1. UNCHANGED table
      BY <1>6, <2>2 DEF Serve, Read, Write, CacheHit, CacheMiss, DbFind, DbFindNone, CacheSet,
         GenGet, PageHit, PageMiss, Count, Rows, PageSet, Exists, CacheDel, Bump, BumpFails,
         BumpUnacknowledged, DbFails, Respond
    <3> QED
      BY <3>1 DEF table
  <2>3. ASSUME NEW r \in Requests, Abandon(r) PROVE UNCHANGED <<students, deleted>>
    BY <2>3 DEF Abandon, table
  <2>4. Lapse \/ UNCHANGED vars => UNCHANGED <<students, deleted>>
    BY DEF Lapse, LapseStudent, LapsePage, LapseGen, table, vars
  <2>5. UNCHANGED <<students, deleted>>
    BY <2>1, <2>2, <2>3, <2>4 DEF Next
  <2> QED
    BY <2>5
<1> QED
  BY <1>3, <1>4, <1>5, <1>6

(***************************************************************************)
(* The invariant by itself: what a handler acts on is never out of date.   *)
(***************************************************************************)
THEOREM NothingIsStale ==
    ASSUME OneAtATime
    PROVE  Spec => [](TypeOK /\ SequentialInv)
<1>1. Init => SequentialInv
  BY InitStep
<1>2. TypeOK /\ SequentialInv /\ [Next]_vars => SequentialInv'
  BY SequentialNext
<1> QED
  BY <1>1, <1>2, InitType, NextType, PTL DEF Spec

(***************************************************************************)
(* Without overlap no two students a client can see share a CPF            *)
(* (README.md:13 and :171): the window is between Exists and Insert/Save.  *)
(***************************************************************************)
THEOREM CPFsStayUnique ==
    ASSUME OneAtATime
    PROVE  Spec => []UniqueCPF
<1>1. SequentialInv => UniqueCPF
  BY DEF SequentialInv, UniqueCPF
<1> QED
  BY <1>1, NothingIsStale, PTL

(***************************************************************************)
(* Without overlap a removed student stays removed (README.md:151).        *)
(***************************************************************************)
THEOREM RemovedStayRemoved ==
    ASSUME OneAtATime
    PROVE  Spec => DeletedStaysDeleted
<1>1. TypeOK /\ SequentialInv /\ [Next]_vars => [deleted \subseteq deleted']_vars
  BY WritesKeepRows
<1> QED
  BY <1>1, NothingIsStale, PTL DEF Spec, DeletedStaysDeleted

(***************************************************************************)
(* Without overlap a PUT changes the fields that were sent, of the row as  *)
(* it is (README.md:173), though it may have read it from the cache.       *)
(***************************************************************************)
THEOREM PutsKeepTheRest ==
    ASSUME OneAtATime
    PROVE  Spec => OnlySentFieldsChange
<1> DEFINE Kept == \A r \in Requests, i \in Ids :
                      At(r, "save") /\ req[r].id = i /\ students'[i] # students[i] =>
                         students'[i] \in {apply(patch, students[i]) : patch \in {req[r].body}}
<1>1. TypeOK /\ SequentialInv /\ [Next]_vars => [Kept]_vars
  BY WritesKeepRows
<1> QED
  BY <1>1, NothingIsStale, PTL DEF Spec, OnlySentFieldsChange
=============================================================================
