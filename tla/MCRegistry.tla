---------------------------- MODULE MCRegistry ----------------------------
(***************************************************************************)
(* An instance of StudentApi for TLC: fit and unfit bodies, one flaw at a  *)
(* time, and the numbers of handlers_test.go with flawed ones.             *)
(***************************************************************************)
EXTENDS StudentApi, TLC

CONSTANTS ana, spaces, addr, noAddr, junk

maria == <<5, 2, 9, 9, 8, 2, 2, 4, 7, 2, 5>>

\* Its first sum leaves the remainder 1.
joao  == <<1, 2, 3, 4, 5, 6, 7, 8, 9, 0, 9>>

Flawed ==
    {[maria EXCEPT ![11] = 6], [joao EXCEPT ![10] = 1], [maria EXCEPT ![1] = junk],
     SubSeq(maria, 1, 10), [i \in 1 .. 11 |-> 1]}

Written == {maria, joao} \cup Flawed

Valid == {n \in Written : isValidCPF(n)}

Fit == [name : {ana}, cpf : {maria, joao}, email : {addr}, age : {1}, active : BOOLEAN]

Whole == [name |-> ana, cpf |-> maria, email |-> addr, age |-> 1, active |-> TRUE]

OneFlaw ==
    {[Whole EXCEPT !.name = n] : n \in {Nothing, spaces}}
    \cup {[Whole EXCEPT !.cpf = n] : n \in Flawed \cup {Nothing}}
    \cup {[Whole EXCEPT !.email = e] : e \in {Nothing, noAddr}}
    \cup {[Whole EXCEPT !.age = n] : n \in {Nothing, -1}}
    \cup {[Whole EXCEPT !.active = Nothing]}

SomeAges == {-1, 1}

Silent == [name |-> Nothing, cpf |-> Nothing, email |-> Nothing, age |-> Nothing, active |-> Nothing]

Partial ==
    {Silent} \cup {[Silent EXCEPT !.active = x] : x \in BOOLEAN}
    \cup {[Silent EXCEPT !.cpf = n] : n \in {joao, [maria EXCEPT ![11] = 6]}}

AllBodies == Fit \cup OneFlaw \cup Partial \cup {Nothing}

FitInfos == [name : {ana}, email : {addr}, age : {1}]

Asked(active, limit, offset) == [active |-> active, limit |-> limit, offset |-> offset]

AllQueries ==
    {Asked(Nothing, 1, Nothing), Asked(TRUE, 1, Nothing), Asked(TRUE, Nothing, 1),
     Asked(junk, Nothing, Nothing), Asked(Nothing, junk, Nothing),
     Asked(Nothing, 0, Nothing), Asked(Nothing, 3, Nothing), Asked(Nothing, 1, -1)}

Pages == [active : {BOOLEAN, {TRUE}}, limit : 1 .. 2, offset : 0 .. 4]

OneStudent == 1 :> [cpf |-> maria, info |-> [name |-> ana, email |-> addr, age |-> 1], active |-> TRUE]
===========================================================================
