-------------------------- MODULE StudentApiProofs --------------------------
(***************************************************************************)
(* The abstract registry keeps its promises, for any sets of ids, CPFs and *)
(* listings and any table at boot; validation takes what the rules ask     *)
(* for, for every body and every number; the API as a whole implements the *)
(* registry, and a client may turn its pages while others write.           *)
(***************************************************************************)
EXTENDS StudentApi, StudentDataLemmas

LEMMA PutType ==
    ASSUME TypeOK, NEW i \in Ids, NEW student \in Student, Put(i, student)
    PROVE  live' \in Tables /\ DOMAIN live' = DOMAIN live \cup {i}
<1>1. DOMAIN live \cup {i} \in SUBSET Ids /\ \A j \in DOMAIN live : live[j] \in Student
  BY TableFacts DEF TypeOK
<1>2. live' \in [DOMAIN live \cup {i} -> Student]
  BY <1>1 DEF Put
<1> QED
  BY <1>1, <1>2, TableIntro

LEMMA StatusType ==
    ASSUME NEW code \in Statuses
    PROVE  /\ Status(code) = [status |-> code, student |-> Nothing, page |-> Nothing]
           /\ Status(code) \in [status : Maybe(Statuses),
                                student : Maybe(Student), page : Maybe(Page)]
BY DEF Status, NoReply, Maybe, Statuses

\* Rows, ids and answers stay what they are meant to be in every step.
LEMMA TypesStep == TypeOK /\ [Next]_vars => TypeOK'
<1> SUFFICES ASSUME TypeOK, [Next]_vars PROVE TypeOK'
  OBVIOUS
<1> USE DEF TypeOK, Statuses
<1>1. ASSUME NEW i \in Ids, NotFound(i) PROVE TypeOK'
  BY <1>1, StatusType DEF NotFound
<1>2. ASSUME NEW i \in Ids, Get(i) PROVE TypeOK'
  <2>1. live[i] \in Student
    BY <1>2, TableFacts DEF Get
  <2> QED
    BY <1>2, <2>1, StatusType DEF Get, Maybe
<1>3. ASSUME NEW i \in Ids, Delete(i) PROVE TypeOK'
  <2>1. DOMAIN live \ {i} \in SUBSET Ids /\ \A j \in DOMAIN live : live[j] \in Student
    BY TableFacts
  <2>2. live' \in [DOMAIN live \ {i} -> Student]
    BY <1>3, <2>1 DEF Delete
  <2>3. live' \in Tables
    BY <2>1, <2>2, TableIntro
  <2> QED
    BY <1>3, <2>2, <2>3, StatusType DEF Delete
<1>4. ASSUME NEW i \in Ids, NEW patch \in Patch, Update(i, patch) PROVE TypeOK'
  <2>1. CASE UNCHANGED <<live, used>> /\ reply' = Status(409)
    BY <2>1, StatusType
  <2>2. CASE /\ i \in DOMAIN live
             /\ Put(i, apply(patch, live[i]))
             /\ reply' = [Status(200) EXCEPT !.student = apply(patch, live[i])]
             /\ UNCHANGED used
    <3>1. apply(patch, live[i]) \in Student
      BY <2>2, TableFacts, ApplyIsStudent
    <3>2. live' \in Tables /\ DOMAIN live' = DOMAIN live \cup {i}
      BY <2>2, <3>1, PutType
    <3> QED
      BY <2>2, <3>1, <3>2, StatusType DEF Maybe
  <2> QED
    BY <1>4, <2>1, <2>2 DEF Update
<1>5. ASSUME NEW params \in ListParams, List(params) PROVE TypeOK'
  <2>1. Listing(live, params) \in Page
    BY ListingIsPage
  <2> QED
    BY <1>5, <2>1, StatusType DEF List, Maybe
<1>6. ASSUME NEW student \in Student, Create(student) PROVE TypeOK'
  <2>1. CASE UNCHANGED <<live, used>> /\ reply' = Status(409)
    BY <2>1, StatusType
  <2>2. ASSUME NEW i \in Ids \ used, Put(i, student), used' = used \cup {i},
               reply' = [Status(201) EXCEPT !.student = student]
        PROVE TypeOK'
    <3>1. live' \in Tables /\ DOMAIN live' = DOMAIN live \cup {i}
      BY <2>2, PutType
    <3> QED
      BY <2>2, <3>1, StatusType DEF Maybe
  <2> QED
    BY <1>6, <2>1, <2>2 DEF Create
<1>7. CASE Refuse \/ Fail
  BY <1>7, StatusType DEF Refuse, Fail
<1>8. CASE Answered
  BY <1>8 DEF Answered, NoReply, Maybe
<1>9. CASE UNCHANGED vars
  BY <1>9 DEF vars
<1> QED
  BY <1>1, <1>2, <1>3, <1>4, <1>5, <1>6, <1>7, <1>8, <1>9 DEF Next, Request

LEMMA TypesInit == Init => TypeOK
<1> SUFFICES ASSUME Init PROVE TypeOK
  OBVIOUS
<1>1. live \in Tables /\ DOMAIN live \subseteq Ids
  BY StoredAssumption, TableFacts DEF Init
<1> QED
  BY <1>1 DEF Init, TypeOK, NoReply, Maybe

(***************************************************************************)
(* Rows, ids and answers stay what they are meant to be.                   *)
(***************************************************************************)
THEOREM RegistryTypes == Spec => []TypeOK
BY TypesInit, TypesStep, PTL DEF Spec

-----------------------------------------------------------------------------
(***************************************************************************)
(* No two students a client can see share a CPF.  A create looks its CPF   *)
(* up; an update looks it up among the other rows, so leaving the CPF out  *)
(* or repeating one's own needs the invariant itself.                      *)
(***************************************************************************)
LEMMA PutKeepsUnique ==
    ASSUME NEW i \in Ids, NEW student \in Student, RowsShareNoCPF, TypeOK, Put(i, student),
           ~TakenByAnother(i, student.cpf)
    PROVE  RowsShareNoCPF'
<1>1. DOMAIN live' = DOMAIN live \cup {i}
  BY PutType
<1>2. \A j \in DOMAIN live' : live'[j] = IF j = i THEN student ELSE live[j]
  BY <1>1 DEF Put
<1> QED
  BY <1>1, <1>2 DEF RowsShareNoCPF, CPFsAreUnique, TakenByAnother

LEMMA ApplyCPF ==
    ASSUME NEW patch \in Patch, NEW i \in DOMAIN live, TypeOK, RowsShareNoCPF,
           ~TakenByAnother(i, patch.cpf)
    PROVE  ~TakenByAnother(i, apply(patch, live[i]).cpf)
<1>1. apply(patch, live[i]).cpf = OrElse(patch.cpf, live[i].cpf)
  BY DEF apply
<1>2. ~TakenByAnother(i, live[i].cpf)
  BY DEF RowsShareNoCPF, CPFsAreUnique, TakenByAnother
<1> QED
  BY <1>1, <1>2 DEF OrElse

THEOREM RegistryUniqueCPF == Spec => []RowsShareNoCPF
<1>1. Init => RowsShareNoCPF
  BY StoredAssumption DEF Init, RowsShareNoCPF
<1>2. TypeOK /\ RowsShareNoCPF /\ [Next]_vars => RowsShareNoCPF'
  <2> SUFFICES ASSUME TypeOK, RowsShareNoCPF, [Next]_vars PROVE RowsShareNoCPF'
    OBVIOUS
  <2>1. CASE UNCHANGED live
    BY <2>1 DEF RowsShareNoCPF
  <2>2. ASSUME NEW i \in Ids, Delete(i) PROVE RowsShareNoCPF'
    BY <2>2 DEF Delete, RowsShareNoCPF, CPFsAreUnique
  <2>3. ASSUME NEW i \in Ids, NEW patch \in Patch, Update(i, patch), ~UNCHANGED live
        PROVE RowsShareNoCPF'
    <3>1. /\ i \in DOMAIN live
          /\ ~TakenByAnother(i, patch.cpf)
          /\ Put(i, apply(patch, live[i]))
      BY <2>3 DEF Update
    <3>2. apply(patch, live[i]) \in Student
      BY <3>1, TableFacts, ApplyIsStudent DEF TypeOK
    <3> QED
      BY <3>1, <3>2, ApplyCPF, PutKeepsUnique
  <2>4. ASSUME NEW student \in Student, Create(student), ~UNCHANGED live
        PROVE RowsShareNoCPF'
    <3>1. PICK i \in Ids \ used : ~ExistsWithCPF(live, student.cpf) /\ Put(i, student)
      BY <2>4 DEF Create
    <3>2. ~TakenByAnother(i, student.cpf)
      BY <3>1 DEF TakenByAnother, ExistsWithCPF
    <3> QED
      BY <3>1, <3>2, PutKeepsUnique
  <2> QED
    BY <2>1, <2>2, <2>3, <2>4
    DEF Next, Request, NotFound, Get, List, Refuse, Fail, Answered, vars
<1> QED
  BY <1>1, <1>2, RegistryTypes, PTL DEF Spec

-----------------------------------------------------------------------------
(***************************************************************************)
(* cpf.go:34: multiplying by ten, and taking the remainders by eleven and  *)
(* by ten, gives the digit of the register's rule.                         *)
(***************************************************************************)
THEOREM CheckDigits == \A sum \in Nat : CheckDigit(sum) = DigitOfRemainder(sum)
<1> TAKE sum \in Nat
<1> DEFINE r == sum % 11
           q == sum \div 11
<1>1. r \in 0 .. 10 /\ q \in Nat /\ sum = 11 * q + r
  OBVIOUS
<1> HIDE DEF r, q
<1>2. (sum * 10) % 11 = (r * 10) % 11
  BY <1>1
<1>3. ((r * 10) % 11) % 10 = IF r < 2 THEN 0 ELSE 11 - r
  BY <1>1
<1> QED
  BY <1>2, <1>3 DEF CheckDigit, DigitOfRemainder, r

\* The weighted sums are numbers.
LEMMA SumTypes ==
    ASSUME NEW cpf, \A i \in 1 .. 11 : cpf[i] \in Nat
    PROVE  FirstSum(cpf) \in Nat /\ SecondSum(cpf) \in Nat
<1>1. /\ cpf[1] \in Nat /\ cpf[2] \in Nat /\ cpf[3] \in Nat /\ cpf[4] \in Nat
      /\ cpf[5] \in Nat /\ cpf[6] \in Nat /\ cpf[7] \in Nat /\ cpf[8] \in Nat
      /\ cpf[9] \in Nat /\ cpf[10] \in Nat
  OBVIOUS
<1>2. /\ cpf[1] * 10 \in Nat /\ cpf[2] * 9 \in Nat /\ cpf[3] * 8 \in Nat
      /\ cpf[4] * 7 \in Nat /\ cpf[5] * 6 \in Nat /\ cpf[6] * 5 \in Nat
      /\ cpf[7] * 4 \in Nat /\ cpf[8] * 3 \in Nat /\ cpf[9] * 2 \in Nat
  BY <1>1
<1>3. cpf[1] * 10 + cpf[2] * 9 + cpf[3] * 8 + cpf[4] * 7 + cpf[5] * 6 \in Nat
  BY <1>2
<1>4. FirstSum(cpf) \in Nat
  BY <1>2, <1>3 DEF FirstSum
<1>5. /\ cpf[1] * 11 \in Nat /\ cpf[2] * 10 \in Nat /\ cpf[3] * 9 \in Nat
      /\ cpf[4] * 8 \in Nat /\ cpf[5] * 7 \in Nat /\ cpf[6] * 6 \in Nat
      /\ cpf[7] * 5 \in Nat /\ cpf[8] * 4 \in Nat /\ cpf[9] * 3 \in Nat
      /\ cpf[10] * 2 \in Nat
  BY <1>1
<1>6. cpf[1] * 11 + cpf[2] * 10 + cpf[3] * 9 + cpf[4] * 8 + cpf[5] * 7 \in Nat
  BY <1>5
<1>7. SecondSum(cpf) \in Nat
  BY <1>5, <1>6 DEF SecondSum
<1> QED
  BY <1>4, <1>7

(***************************************************************************)
(* For every sequence of characters: isValidCPF takes it if, and only if,  *)
(* it is a CPF.                                                            *)
(***************************************************************************)
THEOREM ValidIsCPF == \A cpf : isValidCPF(cpf) <=> IsCPF(cpf)
<1> SUFFICES ASSUME NEW cpf, IsNumber(cpf) PROVE isValidCPF(cpf) <=> IsCPF(cpf)
  BY DEF isValidCPF, IsCPF
<1>1. \A i \in 1 .. 11 : cpf[i] \in Nat
  BY DEF IsNumber, Digits
<1>2. FirstSum(cpf) \in Nat /\ SecondSum(cpf) \in Nat
  BY <1>1, SumTypes
<1> QED
  BY <1>2, CheckDigits DEF isValidCPF, IsCPF

-----------------------------------------------------------------------------
LEMMA NothingNotInt == Nothing \notin Int
BY ParametersAssumption

\* What passes validation is what the rules ask for.
LEMMA ValidIsFit == \A b \in Bodies : ValidCreate(b) <=> FitToCreate(b)
<1> SUFFICES ASSUME NEW b \in Bodies, b # Nothing PROVE ValidCreate(b) <=> FitToCreate(b)
  BY DEF ValidCreate, FitToCreate
<1>1. b \in [name : Maybe(Names), cpf : Maybe(Numbers), email : Maybe(Emails),
             age : Maybe(Ages), active : Maybe(BOOLEAN)]
  BY BodiesAssumption DEF Maybe
<1>2. b.name \in Maybe(Names) /\ b.cpf \in Maybe(Numbers) /\ b.email \in Maybe(Emails)
      /\ b.age \in Maybe(Ages) /\ b.active \in Maybe(BOOLEAN)
  BY <1>1
<1>3. b \in [name : Names \ Blank, cpf : Numbers, email : Emails \cap Addresses,
             age : Nat \ {0}, active : BOOLEAN]
      <=> /\ b.name \in Names \ Blank /\ b.cpf \in Numbers /\ b.email \in Emails \cap Addresses
          /\ b.age \in Nat \ {0} /\ b.active \in BOOLEAN
  BY <1>1
<1>4. /\ Ages \subseteq Int /\ Nothing \notin Nat
      /\ Nothing \notin Names /\ Nothing \notin Emails /\ Nothing \notin Ages
      /\ Nothing \notin Numbers /\ Nothing \notin BOOLEAN
  BY BodiesAssumption, NothingAssumption
<1>5. b.age \in Nat \ {0} <=> b.age # Nothing /\ b.age > 0
  <2>1. CASE b.age = Nothing
    BY <2>1, <1>4
  <2>2. CASE b.age \in Int
    BY <2>2, NothingNotInt
  <2> QED
    BY <1>2, <1>4, <2>1, <2>2 DEF Maybe
<1>6. /\ b.name \in Names \ Blank <=> b.name # Nothing /\ b.name \notin Blank
      /\ b.cpf \in Numbers <=> b.cpf # Nothing
      /\ b.email \in Emails \cap Addresses <=> b.email # Nothing /\ b.email \in Addresses
      /\ b.active \in BOOLEAN <=> b.active # Nothing
  BY <1>2, <1>4 DEF Maybe
<1>7. isValidCPF(b.cpf) <=> IsCPF(b.cpf)
  BY ValidIsCPF
<1>8. ValidCreate(b) <=>
         /\ b.name # Nothing /\ b.cpf # Nothing /\ b.email # Nothing
         /\ b.age # Nothing /\ b.active # Nothing
         /\ b.name \notin Blank /\ isValidCPF(b.cpf) /\ b.email \in Addresses /\ b.age > 0
  BY DEF ValidCreate, validateName, validateEmail, validateAge
<1> QED
  BY <1>3, <1>5, <1>6, <1>7, <1>8 DEF FitToCreate

-----------------------------------------------------------------------------
(***************************************************************************)
(* The API implements the registry.  A body that passes validation is a    *)
(* student, or a change of the row it is sent for that leaves a student;   *)
(* parameters that pass name a page.                                       *)
(***************************************************************************)
AnyPage == [active : SUBSET BOOLEAN, limit : 1 .. MaxLimit, offset : Nat]

LEMMA BodyFields ==
    ASSUME NEW b \in Bodies, b # Nothing
    PROVE  /\ b.name \in Maybe(Names) /\ b.cpf \in Maybe(Numbers) /\ b.email \in Maybe(Emails)
           /\ b.age \in Maybe(Ages) /\ b.active \in Maybe(BOOLEAN)
BY BodiesAssumption DEF Maybe

LEMMA FitAge == ASSUME NEW n \in Ages, n > 0 PROVE n \in Ages \cap (Nat \ {0})
<1>1. n \in Int
  BY BodiesAssumption
<1> QED
  BY <1>1

LEMMA NewStudentType ==
    ASSUME NEW b \in Bodies, ValidCreate(b)
    PROVE  NewStudent(b) \in Student
<1>1. /\ b.name \in Names \ Blank /\ b.cpf \in Numbers /\ isValidCPF(b.cpf)
      /\ b.email \in Emails \cap Addresses /\ b.age \in Ages /\ b.age > 0 /\ b.active \in BOOLEAN
  BY BodyFields DEF ValidCreate, validateName, validateEmail, validateAge, Maybe
<1>2. b.cpf \in CPFs
  BY <1>1, BodiesAssumption
<1>3. [name |-> b.name, email |-> b.email, age |-> b.age] \in Infos
  BY <1>1, FitAge, BodiesAssumption
<1> QED
  BY <1>1, <1>2, <1>3 DEF NewStudent, Student

LEMMA PatchType ==
    ASSUME NEW b \in Bodies, ValidUpdate(b), NEW row \in Student
    PROVE  PatchOf(b, row) \in Patch
<1>1. b # Nothing
  BY DEF ValidUpdate
<1>2. b.cpf \in Maybe(CPFs)
  BY <1>1, BodyFields, BodiesAssumption DEF ValidUpdate, Maybe
<1>3. row.info \in [name : Names \ Blank, email : Emails \cap Addresses, age : Ages \cap (Nat \ {0})]
  BY BodiesAssumption DEF Student
<1>4. OrElse(b.name, row.info.name) \in Names \ Blank
  BY <1>1, <1>3, BodyFields DEF ValidUpdate, validateName, OrElse, Maybe
<1>5. OrElse(b.email, row.info.email) \in Emails \cap Addresses
  BY <1>1, <1>3, BodyFields DEF ValidUpdate, validateEmail, OrElse, Maybe
<1>6. OrElse(b.age, row.info.age) \in Ages \cap (Nat \ {0})
  BY <1>1, <1>3, BodyFields, FitAge DEF ValidUpdate, validateAge, OrElse, Maybe
<1>7. b.active \in Maybe(BOOLEAN)
  BY <1>1, BodyFields
<1>8. [name  |-> OrElse(b.name, row.info.name), email |-> OrElse(b.email, row.info.email),
       age   |-> OrElse(b.age, row.info.age)] \in Infos
  BY <1>4, <1>5, <1>6, BodiesAssumption
<1> QED
  BY <1>2, <1>7, <1>8 DEF PatchOf, Patch, Maybe

LEMMA ParsedType ==
    ASSUME NEW q \in Queries, ValidQuery(q)
    PROVE  parsePagination(q) \in AnyPage
<1>1. DefaultLimit \in 1 .. MaxLimit
  BY ParametersAssumption
<1>2. OrElse(q.limit, DefaultLimit) \in 1 .. MaxLimit
  BY <1>1 DEF ValidQuery, OrElse, Maybe
<1>3. OrElse(q.offset, 0) \in Nat
  BY DEF ValidQuery, OrElse, Maybe
<1>4. (IF q.active = Nothing THEN BOOLEAN ELSE {q.active}) \in SUBSET BOOLEAN
  BY DEF ValidQuery, Maybe
<1> QED
  BY <1>2, <1>3, <1>4 DEF parsePagination, AnyPage

\* The pages a client turns to are pages that can be asked for.
WalksPages == walk # Nothing => "params" \in DOMAIN walk /\ walk.params \in AnyPage

LEMMA HandlerStep ==
    ASSUME AnyPage \subseteq ListParams, TypeOK, Handler
    PROVE  Request
<1>1. ASSUME NEW b \in Bodies, createStudent(b) PROVE Request
  BY <1>1, NewStudentType DEF createStudent, Request
<1>2. ASSUME NEW raw \in PathIds, NEW b \in Bodies, updateStudent(raw, b) PROVE Request
  <2>1. CASE Refuse
    BY <2>1 DEF Request
  <2>2. CASE parseIDParam(raw) /\ NotFound(raw)
    BY <2>2, ParametersAssumption DEF parseIDParam, Request
  <2>3. CASE parseIDParam(raw) /\ ValidUpdate(b) /\ raw \in DOMAIN live
                /\ Update(raw, PatchOf(b, live[raw]))
    <3>1. raw \in Ids /\ live[raw] \in Student
      BY <2>3, TableFacts DEF TypeOK
    <3> QED
      BY <2>3, <3>1, PatchType DEF Request
  <2> QED
    BY <1>2, <2>1, <2>2, <2>3 DEF updateStudent
<1>3. ASSUME NEW raw \in PathIds, getStudent(raw) \/ deleteStudent(raw) PROVE Request
  BY <1>3, ParametersAssumption DEF getStudent, deleteStudent, parseIDParam, Request
<1>4. ASSUME NEW q \in Queries, listStudents(q) PROVE Request
  BY <1>4, ParsedType DEF listStudents, Request
<1> QED
  BY <1>1, <1>2, <1>3, <1>4 DEF Handler, Request

LEMMA WalkStep == WalksPages /\ [ApiNext]_apiVars => WalksPages'
<1> SUFFICES ASSUME WalksPages, [ApiNext]_apiVars PROVE WalksPages'
  OBVIOUS
<1>1. CASE walk' = Watched
  <2>1. CASE walk = Nothing
    BY <1>1, <2>1 DEF Watched, WalksPages
  <2>2. CASE walk # Nothing
    <3>1. "params" \in DOMAIN walk' /\ walk'.params = walk.params
      BY <1>1, <2>2 DEF Watched, WalksPages
    <3> QED
      BY <2>2, <3>1 DEF WalksPages
  <2> QED
    BY <2>1, <2>2
<1>2. CASE TurnPage
  <2>1. "params" \in DOMAIN walk' /\ walk'.params = [walk.params EXCEPT !.offset = @ + walk.params.limit]
    BY <1>2 DEF TurnPage, WalksPages
  <2>2. walk.params \in AnyPage
    BY <1>2 DEF TurnPage, WalksPages
  <2> QED
    BY <2>1, <2>2, ParametersAssumption DEF WalksPages, AnyPage
<1>3. CASE UNCHANGED walk
  BY <1>3 DEF WalksPages
<1>4. CASE CloseWalk
  BY <1>4 DEF CloseWalk, WalksPages
<1>5. ASSUME NEW q \in Queries, OpenWalk(q) PROVE WalksPages'
  BY <1>5, ParsedType DEF OpenWalk, WalksPages
<1> QED
  BY <1>1, <1>2, <1>3, <1>4, <1>5 DEF ApiNext, apiVars

LEMMA ApiStep ==
    ASSUME AnyPage \subseteq ListParams
    PROVE  TypeOK /\ WalksPages /\ [ApiNext]_apiVars => [Next]_vars
<1> SUFFICES ASSUME TypeOK, WalksPages, [ApiNext]_apiVars PROVE [Next]_vars
  OBVIOUS
<1>1. CASE reply = NoReply /\ Handler
  BY <1>1, HandlerStep DEF Next
<1>2. CASE reply = NoReply /\ TurnPage
  BY <1>2 DEF TurnPage, WalksPages, Next, Request
<1>3. CASE Answered
  BY <1>3 DEF Next
<1>4. CASE UNCHANGED vars
  BY <1>4
<1> QED
  BY <1>1, <1>2, <1>3, <1>4 DEF ApiNext, CloseWalk, OpenWalk, apiVars

LEMMA ApiTypes ==
    ASSUME AnyPage \subseteq ListParams
    PROVE  ApiSpec => [](TypeOK /\ WalksPages)
<1>1. ApiInit => TypeOK /\ WalksPages
  BY TypesInit DEF ApiInit, WalksPages
<1>2. TypeOK /\ WalksPages /\ [ApiNext]_apiVars => (TypeOK /\ WalksPages)'
  BY ApiStep, TypesStep, WalkStep
<1> QED
  BY <1>1, <1>2, PTL DEF ApiSpec

THEOREM ApiImplementsRegistry ==
    ASSUME AnyPage \subseteq ListParams
    PROVE  ApiSpec => ServesTheRegistry
<1>1. ApiInit => Init
  BY DEF ApiInit
<1>2. TypeOK /\ WalksPages /\ [ApiNext]_apiVars => [Next]_vars
  BY ApiStep
<1> QED
  BY <1>1, <1>2, ApiTypes, PTL DEF ApiSpec, ServesTheRegistry, Spec

-----------------------------------------------------------------------------
(***************************************************************************)
(* Every row a client can see is fit, whatever creates and partial updates *)
(* led to it.                                                              *)
(***************************************************************************)
THEOREM ApiOnlyFitRows ==
    ASSUME AnyPage \subseteq ListParams
    PROVE  ApiSpec => []OnlyFitRows
<1>1. TypeOK => OnlyFitRows
  <2> SUFFICES ASSUME TypeOK, NEW i \in DOMAIN live
               PROVE  /\ IsCPF(live[i].cpf) /\ live[i].info.name \notin Blank
                      /\ live[i].info.email \in Addresses /\ live[i].info.age > 0
    BY DEF OnlyFitRows
  <2>1. live[i].cpf \in CPFs /\ live[i].info \in Infos
    BY TableFacts DEF TypeOK, Student
  <2>2. isValidCPF(live[i].cpf)
    BY <2>1, BodiesAssumption
  <2>3. live[i].info \in [name : Names \ Blank, email : Emails \cap Addresses,
                          age : Ages \cap (Nat \ {0})]
    BY <2>1, BodiesAssumption
  <2> QED
    BY <2>2, <2>3, ValidIsCPF
<1> QED
  BY <1>1, ApiTypes, PTL

(***************************************************************************)
(* A create is refused with 400 if, and only if, its body breaks a rule.   *)
(***************************************************************************)
THEOREM ApiRefusedOnlyIfUnfit == ApiSpec => RefusedOnlyIfUnfit
<1>1. ASSUME NEW b \in Bodies, createStudent(b)
      PROVE  reply'.status = 400 <=> ~FitToCreate(b)
  <2>1. CASE ~ValidCreate(b)
    <3>1. reply' = Status(400)
      BY <1>1, <2>1 DEF createStudent, Refuse
    <3> QED
      BY <2>1, <3>1, ValidIsFit DEF Status, NoReply
  <2>2. CASE ValidCreate(b)
    <3>1. Create(NewStudent(b))
      BY <1>1, <2>2 DEF createStudent
    <3>2. CASE reply' = [Status(201) EXCEPT !.student = NewStudent(b)]
      <4>1. Status(201) = [status |-> 201, student |-> Nothing, page |-> Nothing]
        BY DEF Status, NoReply
      <4>2. reply'.status = Status(201).status
        BY <3>2, <4>1
      <4> QED
        BY <2>2, <4>1, <4>2, ValidIsFit
    <3>3. CASE reply' = Status(409)
      BY <2>2, <3>3, ValidIsFit DEF Status, NoReply
    <3> QED
      BY <3>1, <3>2, <3>3 DEF Create
  <2> QED
    BY <2>1, <2>2
<1>2. [ApiNext]_apiVars =>
        [reply = NoReply =>
            \A b \in Bodies : createStudent(b) => (reply'.status = 400 <=> ~FitToCreate(b))]_apiVars
  BY <1>1
<1> QED
  BY <1>2, PTL DEF ApiSpec, RefusedOnlyIfUnfit

-----------------------------------------------------------------------------
(***************************************************************************)
(* Turning pages while others write.  A row stays ahead of the client as   *)
(* long as no row leaves the listing from before the next page, and behind *)
(* it as long as none comes back there: ids grow, so a new row comes after *)
(* all others.                                                             *)
(***************************************************************************)
Walks == [params : AnyPage, seen : SUBSET Ids, due : SUBSET Ids,
          twice : BOOLEAN, done : BOOLEAN, left : BOOLEAN, returned : BOOLEAN]

Listed == Filtered(live, walk.params)

\* Of the rows due, those before the offset have been seen: all, at the end.
SeenSoFar ==
    \A i \in walk.due : walk.done \/ Position(Listed, i) < walk.params.offset => i \in walk.seen

\* The rows seen are before the offset.
StaysBehind == \A i \in walk.seen \cap Listed : Position(Listed, i) < walk.params.offset

WalkInv ==
    walk # Nothing =>
       /\ walk \in Walks
       /\ walk.seen \subseteq used /\ walk.due \subseteq Listed
       /\ ~walk.left => SeenSoFar
       /\ ~walk.returned => ~walk.twice /\ StaysBehind

LEMMA ListedType ==
    ASSUME TypeOK, NEW params
    PROVE  Filtered(live, params) \in SUBSET Ids /\ Filtered(live, params) \subseteq used
BY DEF TypeOK, Filtered

\* What others do: ids given out are never taken back, a new one is larger.
LEMMA HandlerIds ==
    ASSUME Handler
    PROVE  used \subseteq used' /\ TakesNextId
<1>1. ASSUME NEW b \in Bodies, createStudent(b) PROVE used \subseteq used' /\ TakesNextId
  BY <1>1 DEF createStudent, Refuse, Create, TakesNextId
<1>2. ASSUME NEW raw \in PathIds, NEW b \in Bodies, updateStudent(raw, b) PROVE used' = used
  BY <1>2 DEF updateStudent, Refuse, NotFound, Update
<1>3. ASSUME NEW raw \in PathIds, getStudent(raw) \/ deleteStudent(raw) PROVE used' = used
  BY <1>3 DEF getStudent, deleteStudent, Refuse, NotFound, Get, Delete
<1>4. ASSUME NEW q \in Queries, listStudents(q) PROVE used' = used
  BY <1>4 DEF listStudents, Refuse, List
<1>5. used' = used => used \subseteq used' /\ TakesNextId
  BY DEF TakesNextId
<1> QED
  BY <1>1, <1>2, <1>3, <1>4, <1>5 DEF Handler, Fail

\* The walk of a client while another request is served.
LEMMA WatchedStep ==
    ASSUME TypeOK, TypeOK', WalkInv, used \subseteq used', TakesNextId,
           walk # Nothing, walk' = Watched
    PROVE  WalkInv'
<1> DEFINE params == walk.params
           before == Filtered(live, params)
           after  == Filtered(live', params)
           back   == (after \ before) \cap used
           Turned(S) == {j \in S : Position(S, j) < params.offset}
<1>1. walk \in Walks
  BY DEF WalkInv
<1>2. /\ walk'.params = params /\ walk'.seen = walk.seen /\ walk'.due = walk.due \cap after
      /\ walk'.twice = walk.twice /\ walk'.done = walk.done
      /\ walk'.left = (walk.left \/ ~(Turned(before) \subseteq after))
      /\ walk'.returned = (walk.returned \/ back \cap (Turned(after) \cup walk.seen) # {})
      /\ walk' \in Walks
  BY <1>1 DEF Watched, Walks
<1>3. Listed = before /\ Listed' = after
  BY <1>2 DEF Listed
<1>4. before \in SUBSET Ids /\ before \subseteq used /\ after \in SUBSET Ids /\ after \subseteq used'
  BY ListedType DEF TypeOK, Filtered
<1>5. params.offset \in Nat
  BY <1>1 DEF Walks, AnyPage
<1> HIDE DEF before, after, params
<1>6. walk'.seen \subseteq used' /\ walk'.due \subseteq Listed'
  BY <1>2, <1>3 DEF WalkInv
<1>7. ASSUME ~walk'.left PROVE SeenSoFar'
  <2> SUFFICES ASSUME NEW i \in walk'.due,
                      walk'.done \/ Position(after, i) < params.offset
               PROVE  i \in walk.seen
    BY <1>2, <1>3 DEF SeenSoFar
  <2>1. ~walk.left /\ Turned(before) \subseteq after /\ SeenSoFar /\ i \in walk.due
    BY <1>2, <1>7 DEF WalkInv
  <2>2. i \in before
    BY <1>3, <2>1 DEF WalkInv
  <2>3. Position(before, i) \in Nat /\ Position(after, i) \in Nat
    BY <1>4, PositionType
  <2>4. walk.done \/ Position(before, i) < params.offset
    <3>1. params.offset <= Position(before, i) => params.offset <= Position(after, i)
      BY <1>4, <1>5, <2>1, <2>2, RowStaysBeyond
    <3> QED
      BY <1>2, <1>5, <2>3, <3>1
  <2> QED
    BY <1>3, <2>1, <2>4 DEF SeenSoFar, params
<1>8. ASSUME ~walk'.returned PROVE ~walk'.twice /\ StaysBehind'
  <2>1. ~walk.returned /\ back \cap (Turned(after) \cup walk.seen) = {} /\ ~walk.twice /\ StaysBehind
    BY <1>2, <1>8 DEF WalkInv
  <2> SUFFICES ASSUME NEW i \in walk.seen \cap after, ~(Position(after, i) < params.offset)
               PROVE  FALSE
    BY <1>2, <1>3, <2>1 DEF StaysBehind
  <2>2. i \in used /\ i \in before
    BY <2>1 DEF WalkInv
  <2>3. Position(before, i) < params.offset
    BY <1>3, <2>1, <2>2 DEF StaysBehind, params
  <2>4. Position(before, i) \in Nat /\ Position(after, i) \in Nat
    BY <1>4, PositionType
  <2>5. params.offset <= Position(after, i)
    BY <1>5, <2>4
  <2>6. \A j \in Turned(after) : j < i
    BY <1>4, <1>5, <2>5, RowsBefore
  <2>7. ASSUME NEW j \in Turned(after) PROVE j \in before
    <3>1. j \in used' /\ j \in Nat /\ i \in Nat /\ j < i
      BY <1>4, <2>2, <2>6, IdsAssumption
    <3>2. j \in used
      BY <2>2, <3>1 DEF TakesNextId
    <3> QED
      BY <2>1, <2>7, <3>2
  <2>8. params.offset <= Position(before, i)
    BY <1>4, <1>5, <2>5, <2>7, RowStaysBeyond
  <2> QED
    BY <1>5, <2>3, <2>4, <2>8
<1> QED
  BY <1>2, <1>6, <1>7, <1>8 DEF WalkInv

\* The page a client turns holds the rows at its positions, and no others.
LEMMA TurnPageStep ==
    ASSUME TypeOK, WalkInv, TurnPage
    PROVE  WalkInv'
<1> DEFINE params == walk.params
           rows   == DOMAIN FindRows(live, params)
           next   == params.offset + params.limit
<1>1. walk \in Walks /\ walk # Nothing /\ ~walk.done
  BY DEF WalkInv, TurnPage
<1>2. /\ Listing(live, params).total = Cardinality(Listed)
      /\ DOMAIN Listing(live, params).rows = rows
  BY DEF Listing, CountRows, Listed
<1>3. params \in AnyPage /\ params.offset \in Nat /\ params.limit \in 1 .. MaxLimit
  BY <1>1 DEF Walks, AnyPage
<1>4. next \in Nat /\ params.offset <= next
  BY <1>3
<1>5. Listed \in SUBSET Ids /\ Listed \subseteq used
  BY ListedType DEF Listed
<1>6. rows = {i \in Listed : params.offset <= Position(Listed, i) /\ Position(Listed, i) < next}
  BY RowsOnPage DEF Listed
<1>7. Cardinality(Listed) \in Nat
  BY <1>5, IdsAssumption, FS_Subset, FS_CardinalityType
<1> HIDE DEF rows
<1>8. /\ walk' = [walk EXCEPT !.params.offset = @ + params.limit,
                              !.seen = @ \cup rows,
                              !.twice = @ \/ walk.seen \cap rows # {},
                              !.done = next >= Cardinality(Listed)]
      /\ UNCHANGED <<live, used>>
  BY <1>2 DEF TurnPage, List
<1>9. /\ walk'.params = [params EXCEPT !.offset = next]
      /\ walk'.seen = walk.seen \cup rows /\ walk'.due = walk.due
      /\ walk'.twice = (walk.twice \/ walk.seen \cap rows # {})
      /\ walk'.done = (next >= Cardinality(Listed))
      /\ walk'.left = walk.left /\ walk'.returned = walk.returned
  BY <1>1, <1>3, <1>8 DEF Walks
<1>10. walk'.params \in AnyPage /\ walk'.params.offset = next /\ walk'.params.active = params.active
  BY <1>3, <1>4, <1>9 DEF AnyPage
<1>11. walk' \in Walks
  <2>1. walk'.seen \in SUBSET Ids /\ walk'.twice \in BOOLEAN /\ walk'.done \in BOOLEAN
    BY <1>1, <1>5, <1>6, <1>9 DEF Walks
  <2> QED
    BY <1>1, <1>8, <1>10, <2>1 DEF Walks
<1>12. Listed' = Listed
  BY <1>8, <1>10 DEF Listed, Filtered
<1> HIDE DEF params, next
<1>13. walk'.seen \subseteq used' /\ walk'.due \subseteq Listed'
  BY <1>1, <1>5, <1>6, <1>8, <1>9, <1>12 DEF WalkInv
<1>14. ASSUME ~walk'.left PROVE SeenSoFar'
  <2> SUFFICES ASSUME NEW i \in walk.due, walk'.done \/ Position(Listed, i) < next
               PROVE  i \in walk.seen \cup rows
    BY <1>9, <1>10, <1>12 DEF SeenSoFar
  <2>1. SeenSoFar /\ i \in Listed
    BY <1>1, <1>9, <1>14 DEF WalkInv
  <2>2. Position(Listed, i) \in Nat /\ Position(Listed, i) < Cardinality(Listed)
    BY <1>5, <2>1, PositionType, PositionBound
  <2>3. Position(Listed, i) < next
    <3>1. walk'.done => next >= Cardinality(Listed)
      BY <1>9
    <3> QED
      BY <1>4, <1>7, <2>2, <3>1
  <2>4. CASE Position(Listed, i) < params.offset
    BY <2>1, <2>4 DEF SeenSoFar, params
  <2>5. CASE params.offset <= Position(Listed, i)
    BY <1>6, <2>1, <2>3, <2>5
  <2> QED
    BY <1>3, <2>2, <2>4, <2>5
<1>15. ASSUME ~walk'.returned PROVE ~walk'.twice /\ StaysBehind'
  <2>1. ~walk.twice /\ StaysBehind
    BY <1>1, <1>9, <1>15 DEF WalkInv
  <2>2. ASSUME NEW i \in walk.seen \cap rows PROVE FALSE
    <3>1. i \in Listed /\ params.offset <= Position(Listed, i)
      BY <1>6, <2>2
    <3>2. Position(Listed, i) < params.offset
      BY <2>1, <2>2, <3>1 DEF StaysBehind, params
    <3>3. Position(Listed, i) \in Nat
      BY <1>5, PositionType
    <3> QED
      BY <1>3, <3>1, <3>2, <3>3
  <2>3. ASSUME NEW i \in walk'.seen \cap Listed PROVE Position(Listed, i) < next
    <3>1. CASE i \in rows
      BY <1>6, <3>1
    <3>2. CASE i \in walk.seen
      <4>1. Position(Listed, i) < params.offset
        BY <2>1, <2>3, <3>2 DEF StaysBehind, params
      <4>2. Position(Listed, i) \in Nat
        BY <1>5, PositionType
      <4> QED
        BY <1>3, <1>4, <4>1, <4>2
    <3> QED
      BY <1>9, <2>3, <3>1, <3>2
  <2> QED
    BY <1>9, <1>10, <1>12, <2>1, <2>2, <2>3 DEF StaysBehind
<1> QED
  BY <1>11, <1>13, <1>14, <1>15 DEF WalkInv

LEMMA OpenWalkStep ==
    ASSUME TypeOK, NEW q \in Queries, OpenWalk(q)
    PROVE  WalkInv'
<1> DEFINE params == parsePagination(q)
           listed == Filtered(live, params)
<1>1. params \in AnyPage /\ params.offset = 0
  BY ParsedType DEF OpenWalk, parsePagination, OrElse
<1>2. listed \in SUBSET Ids
  BY ListedType
<1> HIDE DEF params
<1>3. /\ walk' = [params |-> params, seen |-> {}, twice |-> FALSE, done |-> FALSE,
                  due |-> listed, left |-> FALSE, returned |-> FALSE]
      /\ UNCHANGED <<live, used>>
  BY DEF OpenWalk, vars, params
<1>4. walk' \in Walks
  BY <1>1, <1>2, <1>3 DEF Walks
<1>5. Listed' = listed
  BY <1>3 DEF Listed
<1> HIDE DEF listed
<1>6. ASSUME NEW i \in listed PROVE ~(Position(listed, i) < 0)
  <2>1. Position(listed, i) \in Nat
    BY <1>2, PositionType
  <2> QED
    BY <2>1
<1>7. SeenSoFar' /\ StaysBehind'
  BY <1>1, <1>3, <1>5, <1>6 DEF SeenSoFar, StaysBehind
<1> QED
  BY <1>3, <1>4, <1>5, <1>7 DEF WalkInv

LEMMA WalkInvStep ==
    ASSUME AnyPage \subseteq ListParams
    PROVE  TypeOK /\ TypeOK' /\ WalkInv /\ [ApiNext]_apiVars => WalkInv'
<1> SUFFICES ASSUME TypeOK, TypeOK', WalkInv, [ApiNext]_apiVars PROVE WalkInv'
  OBVIOUS
<1>1. CASE reply = NoReply /\ Handler /\ walk' = Watched
  <2>1. CASE walk = Nothing
    BY <1>1, <2>1 DEF Watched, WalkInv
  <2>2. CASE walk # Nothing
    BY <1>1, <2>2, HandlerIds, WatchedStep
  <2> QED
    BY <2>1, <2>2
<1>2. CASE TurnPage
  BY <1>2, TurnPageStep
<1>3. CASE UNCHANGED <<live, used, walk>>
  <2>1. Listed' = Listed
    BY <1>3 DEF Listed
  <2> QED
    BY <1>3, <2>1 DEF WalkInv, SeenSoFar, StaysBehind
<1>4. CASE CloseWalk
  BY <1>4 DEF CloseWalk, WalkInv
<1>5. ASSUME NEW q \in Queries, OpenWalk(q) PROVE WalkInv'
  BY <1>5, OpenWalkStep
<1> QED
  BY <1>1, <1>2, <1>3, <1>4, <1>5 DEF ApiNext, apiVars, vars, Answered

LEMMA ApiWalks ==
    ASSUME AnyPage \subseteq ListParams
    PROVE  ApiSpec => []WalkInv
<1>1. ApiInit => WalkInv
  BY DEF ApiInit, WalkInv
<1>2. TypeOK /\ TypeOK' /\ WalkInv /\ [ApiNext]_apiVars => WalkInv'
  BY WalkInvStep
<1> QED
  BY <1>1, <1>2, ApiTypes, PTL DEF ApiSpec

(***************************************************************************)
(* A client that turns the pages to the end has seen every row that was in *)
(* the listing all the time, if no row left the listing meanwhile.         *)
(***************************************************************************)
THEOREM ApiMissesNobody ==
    ASSUME AnyPage \subseteq ListParams
    PROVE  ApiSpec => []WalkMissesNobody
<1>1. WalkInv => WalkMissesNobody
  BY DEF WalkInv, SeenSoFar, WalkMissesNobody
<1> QED
  BY <1>1, ApiWalks, PTL

(***************************************************************************)
(* It sees no row twice, if none came back into the listing meanwhile.     *)
(***************************************************************************)
THEOREM ApiRepeatsNobody ==
    ASSUME AnyPage \subseteq ListParams
    PROVE  ApiSpec => []WalkRepeatsNobody
<1>1. WalkInv => WalkRepeatsNobody
  BY DEF WalkInv, WalkRepeatsNobody
<1> QED
  BY <1>1, ApiWalks, PTL
=============================================================================
