---------------------------- MODULE StudentData ----------------------------
(***************************************************************************)
(* The data the students API serves: the students table as the queries of  *)
(* internal/repository/student.go see it, the partial body of a PUT and    *)
(* the page a listing answers.  A name, an e-mail and an age are written   *)
(* together and read together, so one value of Infos stands for the three. *)
(***************************************************************************)
EXTENDS Naturals, FiniteSets

CONSTANTS
    Ids,         \* primary keys of the students table
    CPFs,        \* valid CPF numbers
    Infos,       \* a name, an e-mail and an age
    ListParams,  \* what a listing can ask for: [active, limit, offset]
    Stored,      \* the rows the table holds when a server boots
    Nothing      \* nil: no row, no cache entry, no field in the body

Maybe(S) == S \cup {Nothing}

ASSUME IdsAssumption == Ids \subseteq Nat /\ IsFiniteSet(Ids)

(***************************************************************************)
(* A filter by `active' is the set of values it lets through, so BOOLEAN   *)
(* is the listing without a filter (Active == nil).                        *)
(***************************************************************************)
ASSUME ListParamsAssumption ==
    ListParams \subseteq [active : SUBSET BOOLEAN, limit : Nat, offset : Nat]

ASSUME NothingAssumption ==
    Nothing \notin Nat /\ Nothing \notin ListParams /\ Nothing \notin CPFs

\* The HTTP statuses of a request that got past authorization.
Statuses == {200, 201, 204, 400, 404, 409, 500}

Student == [cpf : CPFs, info : Infos, active : BOOLEAN]
Patch   == [cpf : Maybe(CPFs), info : Maybe(Infos), active : Maybe(BOOLEAN)]

ASSUME NothingIsNoStudent == Nothing \notin Student /\ Nothing \notin Patch

-----------------------------------------------------------------------------
OrElse(sent, old) == IF sent = Nothing THEN old ELSE sent

\* Only the fields present in the body are copied.
apply(patch, student) ==
    [cpf    |-> OrElse(patch.cpf, student.cpf),
     info   |-> OrElse(patch.info, student.info),
     active |-> OrElse(patch.active, student.active)]

-----------------------------------------------------------------------------
(***************************************************************************)
(* Queries.  `live' is the table without its soft-deleted rows: a function *)
(* from the ids of those rows to their students.                           *)
(***************************************************************************)
Tables == UNION {[S -> Student] : S \in SUBSET Ids}

NoRows == [i \in {} |-> Nothing]

ExistsWithCPF(live, cpf) == \E i \in DOMAIN live : live[i].cpf = cpf

Filtered(live, params) == {i \in DOMAIN live : live[i].active \in params.active}

CountRows(live, params) == Cardinality(Filtered(live, params))

\* Where a row comes in the order by id.
Position(S, i) == Cardinality({j \in S : j < i})

\* Slip (mutant): the last row of a page is cut off.
FindRowsOneShort(live, params) ==
    LET matching == Filtered(live, params)
        onPage(i) == /\ params.offset <= Position(matching, i)
                     /\ Position(matching, i) + 1 < params.offset + params.limit
    IN  [i \in {j \in matching : onPage(j)} |-> live[i]]

\* Slip (mutant): ORDER BY id DESC.
FindRowsNewestFirst(live, params) ==
    LET matching == Filtered(live, params)
        before(i) == Cardinality({j \in matching : j > i})
        onPage(i) == params.offset <= before(i) /\ before(i) < params.offset + params.limit
    IN  [i \in {j \in matching : onPage(j)} |-> live[i]]

\* ORDER BY id ASC LIMIT limit OFFSET offset: the ids with that many smaller
\* ones before them.  The order on a page is the order of its ids.
FindRows(live, params) ==
    LET matching == Filtered(live, params)
        onPage(i) == /\ params.offset <= Position(matching, i)
                     /\ Position(matching, i) < params.offset + params.limit
    IN  [i \in {j \in matching : onPage(j)} |-> live[i]]

Page == [total : Nat, rows : Tables]

Listing(live, params) ==
    [total |-> CountRows(live, params), rows |-> FindRows(live, params)]

\* The README's uniqueness rule, as a fact about the rows a client can see.
CPFsAreUnique(live) ==
    \A i, j \in DOMAIN live : live[i].cpf = live[j].cpf => i = j

ASSUME StoredAssumption == Stored \in Tables /\ CPFsAreUnique(Stored)
=============================================================================
