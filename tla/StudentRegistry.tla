-------------------------- MODULE StudentRegistry --------------------------
(***************************************************************************)
(* What the students API promises a client that sends one request at a     *)
(* time: no cache, no intermediate step, no second request in between.     *)
(* Every operation reads and writes the rows and fixes its answer at once; *)
(* Answered is the moment the answer has left the server.                  *)
(***************************************************************************)
EXTENDS StudentData

VARIABLES
    live,   \* the rows a client can see
    used,   \* every id that was ever given to a student
    reply   \* the answer being given, NoReply between two requests

vars == <<live, used, reply>>

NoReply == [status |-> Nothing, student |-> Nothing, page |-> Nothing]

Status(code) == [NoReply EXCEPT !.status = code]

-----------------------------------------------------------------------------
Init == live = Stored /\ used = DOMAIN Stored /\ reply = NoReply

\* What GET, PUT and DELETE answer for an id without a row.
NotFound(i) ==
    /\ i \notin DOMAIN live
    /\ reply' = Status(404)
    /\ UNCHANGED <<live, used>>

Get(i) ==
    /\ i \in DOMAIN live
    /\ reply' = [Status(200) EXCEPT !.student = live[i]]
    /\ UNCHANGED <<live, used>>

List(params) ==
    /\ reply' = [Status(200) EXCEPT !.page = Listing(live, params)]
    /\ UNCHANGED <<live, used>>

Put(i, student) == live' = [j \in DOMAIN live \cup {i} |-> IF j = i THEN student ELSE live[j]]

\* Slip (mutant): the CPF is not looked up.
CreateUnchecked(student) ==
    /\ \E i \in Ids \ used : Put(i, student) /\ used' = used \cup {i}
    /\ reply' = [Status(201) EXCEPT !.student = student]

\* Slip (mutant): the id given is not remembered.
CreateUnrecorded(student) ==
    /\ ~ExistsWithCPF(live, student.cpf)
    /\ \E i \in Ids \ used : Put(i, student)
    /\ reply' = [Status(201) EXCEPT !.student = student]
    /\ UNCHANGED used

Create(student) ==
    \/ /\ ~ExistsWithCPF(live, student.cpf)
       /\ \E i \in Ids \ used : Put(i, student) /\ used' = used \cup {i}
       /\ reply' = [Status(201) EXCEPT !.student = student]
    \/ /\ ExistsWithCPF(live, student.cpf)
       /\ reply' = Status(409)
       /\ UNCHANGED <<live, used>>

TakenByAnother(i, cpf) == \E j \in DOMAIN live \ {i} : live[j].cpf = cpf

Update(i, patch) ==
    \/ /\ i \in DOMAIN live
       /\ ~TakenByAnother(i, patch.cpf)
       /\ Put(i, apply(patch, live[i]))
       /\ reply' = [Status(200) EXCEPT !.student = apply(patch, live[i])]
       /\ UNCHANGED used
    \/ /\ i \in DOMAIN live
       /\ TakenByAnother(i, patch.cpf)
       /\ reply' = Status(409)
       /\ UNCHANGED <<live, used>>

Delete(i) ==
    /\ i \in DOMAIN live
    /\ live' = [j \in DOMAIN live \ {i} |-> live[j]]
    /\ reply' = Status(204)
    /\ UNCHANGED used

\* The request does not parse, or breaks a rule of validation.
Refuse == reply' = Status(400) /\ UNCHANGED <<live, used>>

\* The database refused a query: the client is told, and nothing has changed.
Fail == reply' = Status(500) /\ UNCHANGED <<live, used>>

Answered == reply # NoReply /\ reply' = NoReply /\ UNCHANGED <<live, used>>

Request ==
    \/ \E i \in Ids : NotFound(i) \/ Get(i) \/ Delete(i)
    \/ \E i \in Ids, patch \in Patch : Update(i, patch)
    \/ \E params \in ListParams : List(params)
    \/ \E student \in Student : Create(student)
    \/ Refuse
    \/ Fail

Next == (reply = NoReply /\ Request) \/ Answered

Spec == Init /\ [][Next]_vars

-----------------------------------------------------------------------------
\* Type invariant; every row has an id that was given out once.
TypeOK ==
    /\ live \in Tables
    /\ used \subseteq Ids
    /\ DOMAIN live \subseteq used
    /\ reply \in [status : Maybe(Statuses),
                  student : Maybe(Student), page : Maybe(Page)]

(***************************************************************************)
(* README.md:13 and :171: no two students a client can see share a CPF,    *)
(* whatever sequence of creates, partial updates and removals went before. *)
(***************************************************************************)
RowsShareNoCPF == CPFsAreUnique(live)
=============================================================================
