----------------------------- MODULE StudentApi -----------------------------
(***************************************************************************)
(* What a client really sends: paths, query strings and bodies that may    *)
(* make no sense, and a whole listing asked for page by page.  Parsing and *)
(* validation (internal/api/handlers.go, request.go) stand in front of the *)
(* operations of StudentRegistry, one request at a time.                   *)
(***************************************************************************)
EXTENDS StudentRegistry, CPF

CONSTANTS
    Names, Emails, Ages, Numbers,  \* what a body may hold, fit or not
    Blank,         \* the names that TrimSpace leaves empty
    Addresses,     \* the e-mails that mail.ParseAddress takes
    Bodies,        \* the bodies sent; Nothing is one that c.Bind refuses
    PathIds,       \* the ids in paths
    MaxId,         \* what ParseUint takes at most: 2^32 - 1
    Queries,       \* the query strings of GET /students
    DefaultLimit,  \* 20
    MaxLimit,      \* 100
    Junk           \* a parameter that does not parse

ASSUME BodiesAssumption ==
    /\ Ages \subseteq Int
    /\ CPFs = {n \in Numbers : isValidCPF(n)}
    /\ Infos = [name : Names \ Blank, email : Emails \cap Addresses, age : Ages \cap (Nat \ {0})]
    /\ Nothing \notin Names /\ Nothing \notin Emails /\ Nothing \notin Ages
    /\ Nothing \notin Numbers /\ Nothing \notin BOOLEAN
    /\ Bodies \subseteq Maybe([name : Maybe(Names), cpf : Maybe(Numbers), email : Maybe(Emails),
                               age : Maybe(Ages), active : Maybe(BOOLEAN)])

ASSUME ParametersAssumption ==
    /\ MaxId \in Nat /\ PathIds \cap (0 .. MaxId) \subseteq Ids
    /\ MaxLimit \in Nat /\ DefaultLimit \in 1 .. MaxLimit
    /\ Nothing \notin Int
    /\ Queries \subseteq [active : Maybe(BOOLEAN \cup {Junk}),
                          limit : Maybe(Int \cup {Junk}), offset : Maybe(Int \cup {Junk})]

VARIABLE
    walk   \* a client that turns the pages of the listing, Nothing if there is none

apiVars == <<vars, walk>>

-----------------------------------------------------------------------------
(***************************************************************************)
(* Validation.  A body without a field has the zero value of it in a       *)
(* create, which no check takes, and leaves it alone in an update.         *)
(***************************************************************************)
validateName(name)   == name \notin Blank
validateEmail(email) == email \in Addresses
validateAge(age)     == age > 0

ValidCreate(b) ==
    /\ b # Nothing
    /\ Nothing \notin {b.name, b.cpf, b.email, b.age, b.active}
    /\ validateName(b.name) /\ isValidCPF(b.cpf)
    /\ validateEmail(b.email) /\ validateAge(b.age)

\* Slip (mutant): a PUT does not validate the CPF it carries.
ValidUpdateButCPF(b) ==
    /\ b # Nothing
    /\ b.name # Nothing => validateName(b.name)
    /\ b.email # Nothing => validateEmail(b.email)
    /\ b.age # Nothing => validateAge(b.age)

ValidUpdate(b) ==
    /\ b # Nothing
    /\ b.name # Nothing => validateName(b.name)
    /\ b.cpf # Nothing => isValidCPF(b.cpf)
    /\ b.email # Nothing => validateEmail(b.email)
    /\ b.age # Nothing => validateAge(b.age)

NewStudent(b) ==
    [cpf |-> b.cpf, info |-> [name |-> b.name, email |-> b.email, age |-> b.age],
     active |-> b.active]

\* The fields sent, over those of the row.
PatchOf(b, row) ==
    [cpf    |-> b.cpf,
     info   |-> [name  |-> OrElse(b.name, row.info.name),
                 email |-> OrElse(b.email, row.info.email),
                 age   |-> OrElse(b.age, row.info.age)],
     active |-> b.active]

parseIDParam(raw) == raw \in 0 .. MaxId

ValidQuery(q) ==
    /\ q.active \in Maybe(BOOLEAN)
    /\ q.limit \in Maybe(1 .. MaxLimit)
    /\ q.offset \in Maybe(Nat)

parsePagination(q) ==
    [active |-> IF q.active = Nothing THEN BOOLEAN ELSE {q.active},
     limit  |-> OrElse(q.limit, DefaultLimit),
     offset |-> OrElse(q.offset, 0)]

-----------------------------------------------------------------------------
(***************************************************************************)
(* The five handlers.  Ids are a serial column: a new one is the largest.  *)
(***************************************************************************)
TakesNextId == \A i \in used, j \in used' \ used : i < j

createStudent(b) ==
    \/ (~ValidCreate(b) /\ Refuse)
    \/ (ValidCreate(b) /\ Create(NewStudent(b)) /\ TakesNextId)

getStudent(raw) ==
    \/ ~parseIDParam(raw) /\ Refuse
    \/ parseIDParam(raw) /\ (NotFound(raw) \/ Get(raw))

updateStudent(raw, b) ==
    LET fit == parseIDParam(raw) /\ ValidUpdate(b) IN
    \/ ~fit /\ Refuse
    \/ fit /\ (NotFound(raw) \/ (raw \in DOMAIN live /\ Update(raw, PatchOf(b, live[raw]))))

deleteStudent(raw) ==
    \/ ~parseIDParam(raw) /\ Refuse
    \/ parseIDParam(raw) /\ (NotFound(raw) \/ Delete(raw))

listStudents(q) ==
    \/ ~ValidQuery(q) /\ Refuse
    \/ ValidQuery(q) /\ List(parsePagination(q))

-----------------------------------------------------------------------------
(***************************************************************************)
(* A client that turns pages: from offset 0, by the limit it was answered, *)
(* until the total it was answered is reached.  `due' and the two flags    *)
(* are history: the rows in the listing from the first page to the last;   *)
(* whether a row before the next page has left the listing since; whether  *)
(* an older row has come back into it, before that page or after the       *)
(* client had seen it.                                                     *)
(***************************************************************************)
OpenWalk(q) ==
    /\ walk = Nothing
    /\ ValidQuery(q) /\ q.offset = Nothing
    /\ walk' = [params |-> parsePagination(q), seen |-> {}, twice |-> FALSE, done |-> FALSE,
                due |-> Filtered(live, parsePagination(q)), left |-> FALSE, returned |-> FALSE]
    /\ UNCHANGED vars

TurnPage ==
    LET page == Listing(live, walk.params) IN
    /\ walk # Nothing /\ ~walk.done
    /\ List(walk.params)
    /\ walk' = [walk EXCEPT !.params.offset = @ + walk.params.limit,
                            !.seen = @ \cup DOMAIN page.rows,
                            !.twice = @ \/ walk.seen \cap DOMAIN page.rows # {},
                            !.done = walk.params.offset + walk.params.limit >= page.total]

CloseWalk == walk # Nothing /\ walk' = Nothing /\ UNCHANGED vars

Watched ==
    IF walk = Nothing THEN Nothing
    ELSE LET before == Filtered(live, walk.params)
             after  == Filtered(live', walk.params)
             back   == (after \ before) \cap used
             Turned(S) == {i \in S : Position(S, i) < walk.params.offset}
         IN  [walk EXCEPT !.due = @ \cap after,
                          !.left = @ \/ ~(Turned(before) \subseteq after),
                          !.returned = @ \/ back \cap (Turned(after) \cup walk.seen) # {}]

Handler ==
    \/ \E b \in Bodies : createStudent(b)
    \/ \E raw \in PathIds, b \in Bodies : updateStudent(raw, b)
    \/ \E raw \in PathIds : getStudent(raw) \/ deleteStudent(raw)
    \/ \E q \in Queries : listStudents(q)
    \/ Fail

ApiInit == Init /\ walk = Nothing

ApiNext ==
    \/ (reply = NoReply /\ Handler /\ walk' = Watched)
    \/ (reply = NoReply /\ TurnPage)
    \/ (Answered /\ UNCHANGED walk)
    \/ CloseWalk
    \/ \E q \in Queries : OpenWalk(q)

ApiSpec == ApiInit /\ [][ApiNext]_apiVars

-----------------------------------------------------------------------------
\* Whatever is sent, the answers and the rows are those of the registry.
ServesTheRegistry == Spec

(***************************************************************************)
(* README.md:13 and :171-173: whatever sequence of creates and of partial  *)
(* updates, each validated by itself, led to it, a row as a whole is fit:  *)
(* its CPF is one by the register's own rule, its age is positive.         *)
(***************************************************************************)
OnlyFitRows ==
    \A i \in DOMAIN live :
       /\ IsCPF(live[i].cpf)
       /\ live[i].info.name \notin Blank
       /\ live[i].info.email \in Addresses
       /\ live[i].info.age > 0

(***************************************************************************)
(* handlers.go:127-132: a create is refused with 400 if, and only if, its  *)
(* body breaks a rule of the API: nobody with a CPF is turned away, nobody *)
(* without one gets in.                                                    *)
(***************************************************************************)
FitToCreate(b) ==
    /\ b # Nothing
    /\ b \in [name : Names \ Blank, cpf : Numbers, email : Emails \cap Addresses,
             age : Nat \ {0}, active : BOOLEAN]
    /\ IsCPF(b.cpf)

RefusedOnlyIfUnfit ==
    [][reply = NoReply =>
          \A b \in Bodies : createStudent(b) => (reply'.status = 400 <=> ~FitToCreate(b))]_apiVars

(***************************************************************************)
(* handlers.go:48-50 and :118-122: a client that turns the pages while     *)
(* others write misses no student that was listed all the time, unless one *)
(* left the listing from before the page the client was to turn to.        *)
(***************************************************************************)
WalkMissesNobody ==
    walk # Nothing /\ walk.done /\ ~walk.left => walk.due \subseteq walk.seen

(***************************************************************************)
(* student.go:46: the order by id makes new students come last, so a       *)
(* client that turns the pages sees nobody twice, unless a student came    *)
(* back into the listing before the page the client was to turn to, or one *)
(* it had seen came back at all.                                           *)
(***************************************************************************)
WalkRepeatsNobody ==
    walk # Nothing /\ ~walk.returned => ~walk.twice
=============================================================================
