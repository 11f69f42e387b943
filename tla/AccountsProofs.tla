--------------------------- MODULE AccountsProofs ---------------------------
(***************************************************************************)
(* Accounts, for any clients, replicas, deployment, number of boots and of *)
(* faults: what a request holds while it is handled, who can get a row or  *)
(* a token of the admin, and what every process signs with.                *)
(***************************************************************************)
EXTENDS Accounts, TLAPS

-----------------------------------------------------------------------------
(***************************************************************************)
(* The lifecycle by itself: each step of Processes keeps its type.         *)
(***************************************************************************)
LEMMA StartTypes ==
    ASSUME ProcessesTypeOK, NEW p \in Replicas,
           \/ Start(p) \/ Listen(p) \/ Notify(p) \/ Shutdown(p)
    PROVE  ProcessesTypeOK'
<1>1. phase' \in [Replicas -> Phases] /\ boots' \in 0 .. MaxBoots /\ on' = on
  BY ProcessesAssumption
     DEF ProcessesTypeOK, Start, Listen, Notify, Shutdown, GoesTo, Phases, Up, Accepting, Ended
<1>2. \A q \in Replicas : phase[q] \in Up => phase'[q] \in Up
  BY DEF ProcessesTypeOK, Start, Listen, Notify, Shutdown, GoesTo, Up, Accepting, Ended
<1> QED
  BY <1>1, <1>2 DEF ProcessesTypeOK

LEMMA RequestTypes ==
    ASSUME ProcessesTypeOK, NEW c \in Clients,
           (\E p \in Replicas : Accept(c, p)) \/ Answer(c)
    PROVE  ProcessesTypeOK'
BY ProcessesAssumption DEF ProcessesTypeOK, Accept, Answer, Up

LEMMA EndTypes ==
    ASSUME ProcessesTypeOK, NEW p \in Replicas, Stops(p)
    PROVE  /\ ProcessesTypeOK'
           /\ \A q \in Replicas : phase'[q] \in Up => q # p /\ phase[q] \in Up
           /\ \A c \in Clients : on'[c] = IF on[c] = p THEN Nothing ELSE on[c]
<1>1. PICK how \in Ended : End(p, how)
  BY DEF Stops, Fatal, Crash, Terminated, Drained, Deadline, Ended
<1>2. /\ phase' = [phase EXCEPT ![p] = how] /\ boots' = boots
      /\ on' = [c \in Clients |-> IF on[c] = p THEN Nothing ELSE on[c]]
  BY <1>1 DEF End, GoesTo
<1>3. phase' \in [Replicas -> Phases] /\ boots' \in 0 .. MaxBoots
  BY <1>2 DEF ProcessesTypeOK, Phases
<1>4. on' \in [Clients -> Replicas \cup {Nothing}]
  BY <1>2 DEF ProcessesTypeOK
<1>5. \A q \in Replicas : phase'[q] \in Up => q # p /\ phase[q] \in Up
  BY <1>2 DEF ProcessesTypeOK, Up, Accepting, Ended
<1>6. \A c \in Clients : on'[c] # Nothing => phase'[on'[c]] \in Up
  BY <1>2, ProcessesAssumption DEF ProcessesTypeOK
<1> QED
  BY <1>2, <1>3, <1>4, <1>5, <1>6 DEF ProcessesTypeOK

-----------------------------------------------------------------------------
(***************************************************************************)
(* Types.  What a client's request holds is a matter of its own, so it is  *)
(* named, and a step is described by what it makes of one client.          *)
(***************************************************************************)
HoldsWhatItNeeds(c) ==
    /\ client[c].at \in {"lookup", "insert", "find", "save"} => client[c].user # Nothing
    /\ client[c].at = "save" => client[c].user \in users
    /\ client[c].at = "idle" <=> on[c] = Nothing

SecretsTyped ==
    /\ env \in Environments
    /\ users \subseteq Rows
    /\ key \in [Replicas -> Maybe(Keys)]
    /\ seeding \in [Replicas -> {"lookup", "insert", "done"}]
    /\ faults \in 0 .. MaxFaults
    /\ unseeded \in BOOLEAN
    /\ \A p \in Replicas : phase[p] \in Up => key[p] # Nothing

ClientsTyped ==
    /\ client \in [Clients -> ClientStates]
    /\ \A c \in Clients : HoldsWhatItNeeds(c)

LEMMA TypeParts == TypeOK <=> ProcessesTypeOK /\ SecretsTyped /\ ClientsTyped
BY DEF TypeOK, SecretsTyped, ClientsTyped, HoldsWhatItNeeds

LEMMA AdminRow == Admin \in Rows /\ Admin.name = AdminName /\ Admin.role = "admin"
                  /\ Admin.password = AdminPassword
BY AccountsAssumption DEF Admin, Row, Rows, Roles

LEMMA SecretFacts ==
    ASSUME TypeOK, NEW p \in Replicas
    PROVE  /\ resolveJWTSecret(p) \in Maybe(Keys)
           /\ env.production => resolveJWTSecret(p) \in {Secret, Nothing}
<1>1. env.secret \in {Secret, Nothing} /\ boots \in Nat
  BY AccountsAssumption, ProcessesAssumption DEF TypeOK, ProcessesTypeOK
<1> QED
  BY <1>1 DEF resolveJWTSecret, Maybe, Keys

LEMMA ProcessTypes ==
    ASSUME TypeOK, NEW p \in Replicas, Process(p)
    PROVE  TypeOK'
<1> ProcessesTypeOK /\ SecretsTyped /\ ClientsTyped
  BY TypeParts
<1> SUFFICES ProcessesTypeOK' /\ SecretsTyped' /\ ClientsTyped'
  BY DEF TypeOK, SecretsTyped, ClientsTyped, HoldsWhatItNeeds
<1>1. CASE Boot(p)
  <2>1. ProcessesTypeOK'
    BY <1>1, StartTypes DEF Boot
  <2>2. \A q \in Replicas : phase'[q] \in Up => phase[q] \in Up
    BY <1>1 DEF Boot, Start, GoesTo, Up, Accepting, ProcessesTypeOK
  <2> QED
    BY <1>1, <2>1, <2>2 DEF Boot, Start, SecretsTyped, ClientsTyped, HoldsWhatItNeeds
<1>2. CASE Listens(p) \/ Signals(p)
  <2>1. ProcessesTypeOK' /\ on' = on
    BY <1>2, StartTypes DEF Listens, Signals, Listen, Notify, Shutdown
  <2>2. \A q \in Replicas : phase'[q] \in Up => phase[q] \in Up \/ key[q] # Nothing
    BY <1>2 DEF Listens, Signals, Listen, Notify, Shutdown, GoesTo, Up, Accepting, ProcessesTypeOK
  <2> QED
    BY <1>2, <2>1, <2>2 DEF Listens, Signals, SecretsTyped, ClientsTyped, HoldsWhatItNeeds
<1>3. CASE ResolveSecret(p)
  <2>1. key' \in [Replicas -> Maybe(Keys)]
    BY <1>3, SecretFacts DEF ResolveSecret, SecretsTyped
  <2>2. \A q \in Replicas : key[q] # Nothing => key'[q] # Nothing
    BY <1>3 DEF ResolveSecret, SecretsTyped
  <2> QED
    BY <1>3, <2>1, <2>2
       DEF ResolveSecret, SecretsTyped, ClientsTyped, HoldsWhatItNeeds, ProcessesTypeOK, lifecycle
<1>4. CASE SeedLookup(p)
  BY <1>4 DEF SeedLookup, Seeds, SecretsTyped, ClientsTyped, HoldsWhatItNeeds, ProcessesTypeOK, lifecycle
<1>5. CASE SeedInsert(p)
  BY <1>5, AdminRow
     DEF SeedInsert, CreateUser, Seeds, SecretsTyped, ClientsTyped, HoldsWhatItNeeds,
         ProcessesTypeOK, lifecycle
<1>6. CASE SeedFails(p)
  BY <1>6, AccountsAssumption
     DEF SeedFails, Fault, Seeds, SecretsTyped, ClientsTyped, HoldsWhatItNeeds,
         ProcessesTypeOK, lifecycle
<1>7. CASE Ends(p)
  <2>1. ProcessesTypeOK'
    BY <1>7, EndTypes DEF Ends
  <2>2. SecretsTyped'
    BY <1>7, EndTypes DEF Ends, SecretsTyped, Maybe
  <2>3. ASSUME NEW c \in Clients
        PROVE  client'[c] \in ClientStates /\ HoldsWhatItNeeds(c)'
    <3>1. on'[c] = IF on[c] = p THEN Nothing ELSE on[c]
      BY <1>7, EndTypes DEF Ends
    <3>2. CASE on[c] = p
      BY <1>7, <3>1, <3>2
         DEF Ends, Idle, ClientStates, ClientsTyped, HoldsWhatItNeeds, Steps, Maybe
    <3>3. CASE on[c] # p
      BY <1>7, <3>1, <3>3 DEF Ends, ClientsTyped, HoldsWhatItNeeds
    <3> QED
      BY <3>2, <3>3
  <2>4. client' = [c \in Clients |-> client'[c]]
    BY <1>7 DEF Ends
  <2> QED
    BY <2>1, <2>2, <2>3, <2>4 DEF ClientsTyped
<1> QED
  BY <1>1, <1>2, <1>3, <1>4, <1>5, <1>6, <1>7 DEF Process

LEMMA OneClient ==
    ASSUME ClientsTyped, NEW c \in Clients, NEW state \in ClientStates,
           client' = [client EXCEPT ![c] = state],
           users \subseteq users',
           \A d \in Clients \ {c} : on'[d] = on[d],
           state.at \in {"lookup", "insert", "find", "save"} => state.user # Nothing,
           state.at = "save" => state.user \in users,
           state.at = "idle" <=> on'[c] = Nothing
    PROVE  ClientsTyped'
<1>1. client' \in [Clients -> ClientStates]
  BY DEF ClientsTyped
<1>2. ASSUME NEW d \in Clients
      PROVE  HoldsWhatItNeeds(d)'
  <2>1. CASE d = c
    <3>1. client'[d] = state
      BY <2>1 DEF ClientsTyped
    <3> QED
      BY <2>1, <3>1 DEF HoldsWhatItNeeds
  <2>2. CASE d # c
    <3>1. client'[d] = client[d] /\ on'[d] = on[d]
      BY <2>2 DEF ClientsTyped
    <3> QED
      BY <3>1 DEF HoldsWhatItNeeds, ClientsTyped
  <2> QED
    BY <2>1, <2>2
<1> QED
  BY <1>1, <1>2 DEF ClientsTyped

LEMMA IdleTypes ==
    ASSUME NEW token \in Maybe(Tokens), NEW status \in Maybe(Statuses)
    PROVE  /\ Idle(token, status) \in ClientStates
           /\ Idle(token, status).at = "idle"
           /\ Idle(token, status).token = token
           /\ Idle(token, status).status = status
BY DEF Idle, ClientStates, Steps, Maybe

LEMMA AnswerTypes ==
    ASSUME TypeOK, NEW c \in Clients, Answer(c),
           NEW state \in ClientStates, state.at = "idle",
           client' = [client EXCEPT ![c] = state], users \subseteq users'
    PROVE  ClientsTyped' /\ ProcessesTypeOK' /\ phase' = phase
<1>1. on' = [on EXCEPT ![c] = Nothing] /\ on \in [Clients -> Replicas \cup {Nothing}]
  BY DEF Answer, TypeOK, ProcessesTypeOK
<1>2. on'[c] = Nothing /\ \A d \in Clients \ {c} : on'[d] = on[d]
  BY <1>1
<1> QED
  BY <1>2, OneClient, TypeParts, RequestTypes DEF Answer

LEMMA ReplyTypes ==
    ASSUME TypeOK, NEW c \in Clients, NEW status \in Maybe(Statuses),
           Answer(c), client' = [client EXCEPT ![c] = Idle(@.token, status)],
           users \subseteq users'
    PROVE  ClientsTyped' /\ ProcessesTypeOK' /\ phase' = phase
<1>1. client[c].token \in Maybe(Tokens)
  BY DEF TypeOK, ClientStates
<1>2. /\ Idle(client[c].token, status) \in ClientStates
      /\ Idle(client[c].token, status).at = "idle"
  BY <1>1, IdleTypes
<1>3. client' = [client EXCEPT ![c] = Idle(client[c].token, status)]
  BY DEF TypeOK
<1> QED
  BY <1>2, <1>3, AnswerTypes

LEMMA ProceedTypes ==
    ASSUME TypeOK, NEW c \in Clients, NEW step \in Steps \ {"idle"}, NEW user \in Rows,
           user # Nothing, on[c] # Nothing, step = "save" => user \in users,
           Proceeds(c, step, user), users \subseteq users'
    PROVE  ClientsTyped' /\ ProcessesTypeOK' /\ phase' = phase
<1> DEFINE state == [client[c] EXCEPT !.at = step, !.user = user]
<1>1. client[c] \in ClientStates
  BY DEF TypeOK
<1>2. state \in ClientStates /\ state.at = step /\ state.user = user
  BY <1>1 DEF ClientStates, Maybe
<1>3. client' = [client EXCEPT ![c] = state] /\ on' = on /\ phase' = phase /\ boots' = boots
  BY DEF Proceeds, lifecycle
<1>4. ProcessesTypeOK'
  BY <1>3, TypeParts DEF ProcessesTypeOK
<1> HIDE DEF state
<1> QED
  BY <1>2, <1>3, <1>4, OneClient, TypeParts

LEMMA RowTypes ==
    ASSUME NEW name \in Names, NEW password \in Passwords
    PROVE  /\ Row(name, password, "user") \in Rows
           /\ Row(name, password, "user").role = "user"
           /\ Row(name, password, "user").password = password
BY DEF Row, Rows, Roles

LEMMA BeginTypes ==
    ASSUME TypeOK, NEW c \in Clients, NEW p \in Replicas, NEW step \in Steps \ {"idle", "save"},
           NEW user \in Maybe(Rows), step \in {"lookup", "insert", "find"} => user # Nothing,
           Begins(c, p, step, user)
    PROVE  TypeOK' /\ phase' = phase
<1> DEFINE state == [client[c] EXCEPT !.at = step, !.user = user, !.status = Nothing]
<1>1. client[c] \in ClientStates /\ p # Nothing
  BY ProcessesAssumption DEF TypeOK
<1>2. state \in ClientStates /\ state.at = step /\ state.user = user
  BY <1>1 DEF ClientStates, Maybe
<1>3. client' = [client EXCEPT ![c] = state] /\ Accept(c, p)
  BY DEF Begins
<1>4. on'[c] = p /\ (\A d \in Clients \ {c} : on'[d] = on[d]) /\ phase' = phase
  BY <1>3 DEF Accept, TypeOK, ProcessesTypeOK
<1>5. ProcessesTypeOK'
  BY <1>3, RequestTypes DEF TypeOK
<1>6. SecretsTyped'
  BY <1>4 DEF Begins, TypeOK, SecretsTyped
<1> HIDE DEF state
<1>7. ClientsTyped'
  BY <1>1, <1>2, <1>3, <1>4, OneClient, TypeParts DEF Begins
<1> QED
  BY <1>4, <1>5, <1>6, <1>7 DEF TypeOK, SecretsTyped, ClientsTyped, HoldsWhatItNeeds

LEMMA RequestStepTypes ==
    ASSUME TypeOK, NEW c \in Clients,
           \/ \E p \in Replicas : Posts(c, p) \/ Calls(c, p)
           \/ Handles(c) \/ HangsUp(c) \/ Expires(c)
    PROVE  TypeOK' /\ phase' = phase
<1> DEFINE u == client[c].user
<1>0. /\ client[c] \in ClientStates
      /\ At(c, "lookup") \/ At(c, "insert") \/ At(c, "find") => u \in Rows /\ u # Nothing
      /\ At(c, "save") => u \in users
  BY DEF TypeOK, At, ClientStates, Maybe
<1>a. \A status \in Statuses : status \in Maybe(Statuses)
  BY DEF Maybe
<1>b. /\ 200 \in Maybe(Statuses) /\ 401 \in Maybe(Statuses)
      /\ 409 \in Maybe(Statuses) /\ 500 \in Maybe(Statuses)
  BY <1>a DEF Statuses
<1>c. ASSUME NEW status \in {401, 409, 500}, Replies(c, status), users \subseteq users'
      PROVE  ClientsTyped' /\ ProcessesTypeOK' /\ phase' = phase
  <2>1. status \in Maybe(Statuses)
    BY <1>c, <1>b
  <2>2. Answer(c) /\ client' = [client EXCEPT ![c] = Idle(@.token, status)]
    BY <1>c DEF Replies
  <2> QED
    BY <1>c, <2>1, <2>2, ReplyTypes
<1>1. ASSUME NEW p \in Replicas, Posts(c, p)
      PROVE  TypeOK' /\ phase' = phase
  <2>1. PICK step \in {"lookup", "find"}, name \in Names, password \in Knows[c] :
           Begins(c, p, step, Row(name, password, "user"))
    BY <1>1 DEF Posts
  <2>2. password \in Passwords
    BY AccountsAssumption
  <2> QED
    BY <2>1, <2>2, RowTypes, BeginTypes, AccountsAssumption DEF Steps, Maybe
<1>2. ASSUME NEW p \in Replicas, Calls(c, p)
      PROVE  TypeOK' /\ phase' = phase
  BY <1>2, BeginTypes DEF Calls, Steps, Maybe
<1> SUFFICES ASSUME Handles(c) \/ HangsUp(c) \/ Expires(c)
             PROVE  /\ ProcessesTypeOK' /\ ClientsTyped' /\ phase' = phase
                    /\ users' \subseteq Rows /\ faults' \in 0 .. MaxFaults
                    /\ UNCHANGED <<env, key, seeding, unseeded>>
  BY <1>1, <1>2 DEF TypeOK, ClientsTyped, HoldsWhatItNeeds
<1>3. CASE RegisterLookup(c)
  <2>1. users' \subseteq Rows /\ faults' \in 0 .. MaxFaults /\ users \subseteq users'
    BY <1>3 DEF RegisterLookup, TypeOK
  <2>2. ASSUME NEW status \in {409, 500}, Replies(c, status)
        PROVE  ClientsTyped' /\ ProcessesTypeOK' /\ phase' = phase
    BY <1>c, <2>1, <2>2
  <2>3. CASE Proceeds(c, "insert", u)
    BY <1>0, <1>3, <2>1, <2>3, ProceedTypes DEF RegisterLookup, At, Steps
  <2> QED
    BY <1>3, <2>1, <2>2, <2>3 DEF RegisterLookup
<1>4. CASE RegisterInsert(c)
  <2> DEFINE state == [client[c] EXCEPT !.at = "idle", !.status = InsertStatus(u)]
  <2>0. InsertStatus(u) \in Maybe(Statuses)
    BY <1>a DEF InsertStatus, Statuses
  <2>1. state \in ClientStates /\ state.at = "idle"
    BY <1>0, <2>0 DEF ClientStates, Steps
  <2>3. client' = [client EXCEPT ![c] = state]
    BY <1>4 DEF RegisterInsert
  <2>2. users \subseteq users' /\ users' \subseteq Rows
    BY <1>0, <1>4 DEF RegisterInsert, CreateUser, TypeOK
  <2> HIDE DEF state
  <2> QED
    BY <1>4, <2>1, <2>2, <2>3, AnswerTypes DEF RegisterInsert, TypeOK
<1>5. CASE RegisterUnacknowledged(c)
  <2>1. users \subseteq users' /\ users' \subseteq Rows /\ faults' \in 0 .. MaxFaults
    BY <1>0, <1>5, AccountsAssumption DEF RegisterUnacknowledged, CreateUser, TypeOK, Fault
  <2> QED
    BY <1>c, <1>5, <2>1 DEF RegisterUnacknowledged
<1>6. CASE LoginFind(c)
  <2>1. users' \subseteq Rows /\ faults' \in 0 .. MaxFaults /\ users \subseteq users'
    BY <1>6 DEF LoginFind, TypeOK
  <2>2. CASE Replies(c, 401)
    BY <1>6, <1>c, <2>1, <2>2 DEF LoginFind
  <2>3. ASSUME NEW v \in Matches(u), Proceeds(c, "save", v)
        PROVE  ProcessesTypeOK' /\ ClientsTyped' /\ phase' = phase
    <3>1. v \in users /\ v \in Rows /\ v # Nothing
      BY AccountsAssumption DEF Matches, TypeOK
    <3> QED
      BY <1>6, <2>1, <2>3, <3>1, ProceedTypes DEF LoginFind, At, Steps
  <2> QED
    BY <1>6, <2>1, <2>2, <2>3 DEF LoginFind
<1>7. CASE LoginSave(c)
  <2>1. on[c] \in Replicas /\ phase[on[c]] \in Up
    BY <1>7 DEF LoginSave, At, TypeOK, ProcessesTypeOK
  <2>2. key[on[c]] \in Keys
    BY <2>1 DEF TypeOK, Maybe
  <2>3. u \in Rows /\ u.role \in Roles
    BY <1>0, <1>7 DEF LoginSave, TypeOK, Rows
  <2>4. AccessToken(on[c], u) \in Tokens
    BY <2>2, <2>3 DEF AccessToken, Tokens
  <2> QED
    <3> DEFINE state == Idle(AccessToken(on[c], u), 200)
    <3>1. state \in ClientStates /\ state.at = "idle"
      BY <1>b, <2>4, IdleTypes DEF Maybe
    <3>2. Answer(c) /\ client' = [client EXCEPT ![c] = state] /\ users' = users
      BY <1>7 DEF LoginSave
    <3> HIDE DEF state
    <3> QED
      BY <1>7, <3>1, <3>2, AnswerTypes DEF LoginSave, TypeOK
<1>8. CASE Authorizes(c)
  <2>1. RequireAdmin(c) \in Statuses
    BY DEF RequireAdmin, Statuses
  <2>2. users' = users /\ faults' = faults
    BY <1>8 DEF Authorizes
  <2> QED
    BY <1>8, <2>1, <2>2, ReplyTypes DEF Authorizes, Replies, TypeOK, Maybe
<1>9. CASE QueryFails(c)
  <2>1. users' = users /\ faults' \in 0 .. MaxFaults
    BY <1>9, AccountsAssumption DEF QueryFails, Fault, TypeOK
  <2> QED
    BY <1>c, <1>9, <2>1 DEF QueryFails, TypeOK
<1>10. CASE HangsUp(c)
  <2>1. users' = users /\ faults' = faults
    BY <1>10 DEF HangsUp
  <2> QED
    BY <1>10, <2>1, ReplyTypes DEF HangsUp, TypeOK, Maybe
<1>11. CASE Expires(c)
  <2>1. /\ Idle(Nothing, Nothing) \in ClientStates /\ Idle(Nothing, Nothing).at = "idle"
        /\ on' = on /\ users' = users /\ client' = [client EXCEPT ![c] = Idle(Nothing, Nothing)]
    BY <1>11, IdleTypes DEF Expires, lifecycle, Maybe
  <2>2. ClientsTyped'
    BY <1>11, <2>1, OneClient, TypeParts DEF Expires
  <2> QED
    BY <1>11, <2>2 DEF Expires, TypeOK, ProcessesTypeOK, lifecycle
<1> QED
  BY <1>3, <1>4, <1>5, <1>6, <1>7, <1>8, <1>9, <1>10, <1>11 DEF Handles

LEMMA TypesInit == Init => TypeOK
<1> SUFFICES ASSUME Init PROVE TypeOK
  OBVIOUS
<1>1. ProcessesTypeOK
  BY ProcessesAssumption
     DEF Init, InitProcesses, ProcessesTypeOK, Phases, Up, Accepting, Ended
<1>2. SecretsTyped
  <2>1. key \in [Replicas -> Maybe(Keys)] /\ seeding \in [Replicas -> {"lookup", "insert", "done"}]
    BY DEF Init, InitAccounts, Maybe
  <2>2. \A p \in Replicas : phase[p] \notin Up
    BY DEF Init, InitProcesses, Up, Accepting
  <2>3. env \in Environments /\ users = {} /\ unseeded = FALSE /\ faults = 0
    BY DEF Init, InitAccounts
  <2>4. faults \in 0 .. MaxFaults
    BY <2>3, AccountsAssumption
  <2> QED
    BY <2>1, <2>2, <2>3, <2>4 DEF SecretsTyped
<1>3. ClientsTyped
  <2>1. /\ Idle(Nothing, Nothing) \in ClientStates
        /\ Idle(Nothing, Nothing).at = "idle"
    BY IdleTypes DEF Maybe
  <2>2. /\ client = [c \in Clients |-> Idle(Nothing, Nothing)]
        /\ on = [c \in Clients |-> Nothing]
    BY DEF Init, InitProcesses, InitAccounts
  <2> QED
    BY <2>1, <2>2 DEF ClientsTyped, HoldsWhatItNeeds
<1> QED
  BY <1>1, <1>2, <1>3, TypeParts

LEMMA TypesStep == TypeOK /\ [Next]_vars => TypeOK'
<1> SUFFICES ASSUME TypeOK, [Next]_vars PROVE TypeOK'
  OBVIOUS
<1>1. CASE UNCHANGED vars
  BY <1>1 DEF vars, lifecycle, TypeOK, ProcessesTypeOK
<1>2. ASSUME NEW p \in Replicas, Process(p) PROVE TypeOK'
  BY <1>2, ProcessTypes
<1>3. ASSUME NEW c \in Clients,
             \/ \E p \in Replicas : Posts(c, p) \/ Calls(c, p)
             \/ Handles(c) \/ HangsUp(c) \/ Expires(c)
      PROVE  TypeOK'
  BY <1>3, RequestStepTypes
<1> QED
  BY <1>1, <1>2, <1>3 DEF Next

(***************************************************************************)
(* Every request, process and token holds what its next step reads.        *)
(***************************************************************************)
THEOREM AccountsTypes == Spec => []TypeOK
BY TypesInit, TypesStep, PTL DEF Spec

-----------------------------------------------------------------------------
(***************************************************************************)
(* The inductive invariant.  A client names, and is given, nothing but     *)
(* rows whose password it knows; no row but the seeded one is an admin's;  *)
(* where the admin is seeded, nobody is served before it is there; and in  *)
(* production whatever is signed is signed with the one secret.            *)
(***************************************************************************)
Honest(c, state, rows) ==
    /\ state.at \in {"lookup", "insert", "find"} => state.user.role = "user"
    /\ state.at \in {"lookup", "insert", "find", "save"} => state.user.password \in Knows[c]
    /\ state.at # "idle" => state.status = Nothing
    /\ state.status = 201 => state.user \in rows
    /\ state.status = 204 => AdminPassword \in Knows[c]
    /\ state.token # Nothing =>
          /\ state.token.user \in rows
          /\ state.token.role = state.token.user.role
          /\ state.token.user.password \in Knows[c]
          /\ env.production => state.token.key = Secret

HonestClients == \A c \in Clients : Honest(c, client[c], users)

OnlyOneAdmin == \A u \in users : u.role = "admin" => u = Admin

SignedAlike == env.production => \A p \in Replicas : key[p] \in {Secret, Nothing}

SeededFirst ==
    /\ \A p \in Replicas : phase[p] \in Up => seeding[p] = "done"
    /\ env.seed /\ AdminPassword \notin Unhashable /\ ~unseeded =>
          /\ \A p \in Replicas : seeding[p] = "done" => Admin \in users
          /\ Taken(AdminName) => Admin \in users

IInv == TypeOK /\ OneAccountPerName /\ HonestClients /\ OnlyOneAdmin /\ SignedAlike /\ SeededFirst

LEMMA HonestGrows ==
    ASSUME NEW c \in Clients, NEW state, NEW rows, NEW more, rows \subseteq more,
           Honest(c, state, rows)
    PROVE  Honest(c, state, more)
BY DEF Honest

LEMMA IdleIsHonest ==
    ASSUME NEW c \in Clients, NEW token \in Maybe(Tokens), NEW status \in Maybe(Statuses \ {201}),
           NEW rows, status = 204 => AdminPassword \in Knows[c],
           token # Nothing => /\ token.user \in rows /\ token.role = token.user.role
                              /\ token.user.password \in Knows[c]
                              /\ env.production => token.key = Secret
    PROVE  Honest(c, Idle(token, status), rows)
<1>1. /\ Idle(token, status).at = "idle"
      /\ Idle(token, status).token = token
      /\ Idle(token, status).status = status
  BY DEF Idle
<1>2. status # 201
  BY AccountsAssumption DEF Maybe
<1> QED
  BY <1>1, <1>2 DEF Honest

\* Keeping its token, a client that gets any answer but 201 and 204 stays honest.
LEMMA RepliesHonest ==
    ASSUME TypeOK, HonestClients, NEW c \in Clients, NEW status \in Maybe(Statuses \ {201}),
           status = 204 => AdminPassword \in Knows[c],
           client' = [client EXCEPT ![c] = Idle(@.token, status)]
    PROVE  Honest(c, client'[c], users)
<1>1. client'[c] = Idle(client[c].token, status) /\ client[c].token \in Maybe(Tokens)
  BY DEF TypeOK, ClientStates
<1>2. client[c].token # Nothing =>
        /\ client[c].token.user \in users
        /\ client[c].token.role = client[c].token.user.role
        /\ client[c].token.user.password \in Knows[c]
        /\ env.production => client[c].token.key = Secret
  BY DEF HonestClients, Honest
<1>3. Honest(c, Idle(client[c].token, status), users)
  BY <1>1, <1>2, IdleIsHonest
<1> QED
  BY <1>1, <1>3

Refusals == {401, 409, 500}

LEMMA RequestHonest ==
    ASSUME IInv, NEW c \in Clients,
           \/ \E p \in Replicas : Posts(c, p) \/ Calls(c, p)
           \/ Handles(c) \/ HangsUp(c) \/ Expires(c)
    PROVE  /\ Honest(c, client'[c], users')
           /\ \A d \in Clients \ {c} : client'[d] = client[d]
           /\ users \subseteq users' /\ env' = env
<1> DEFINE u == client[c].user
           t == client[c].token
<1>0. /\ client[c] \in ClientStates /\ client \in [Clients -> ClientStates]
      /\ Honest(c, client[c], users) /\ Nothing \notin Statuses
  BY AccountsAssumption DEF IInv, TypeOK, HonestClients, Statuses
<1>1. ASSUME NEW p \in Replicas, NEW step \in Steps \ {"idle", "save"}, NEW user,
             step \in {"lookup", "find"} => user.role = "user" /\ user.password \in Knows[c],
             step # "insert", Begins(c, p, step, user)
      PROVE  Honest(c, client'[c], users')
  <2> DEFINE state == [client[c] EXCEPT !.at = step, !.user = user, !.status = Nothing]
  <2>1. /\ state.at = step /\ state.user = user /\ state.status = Nothing
        /\ state.token = client[c].token
    BY <1>0 DEF ClientStates
  <2>2. client'[c] = state /\ users' = users
    BY <1>0, <1>1 DEF Begins
  <2> HIDE DEF state
  <2> QED
    BY <1>0, <1>1, <2>1, <2>2, AccountsAssumption DEF Honest
<1>2. CASE \E p \in Replicas : Posts(c, p) \/ Calls(c, p)
  <2>1. ASSUME NEW p \in Replicas, Posts(c, p) PROVE Honest(c, client'[c], users')
    BY <1>1, <2>1, RowTypes, AccountsAssumption DEF Posts, Steps
  <2>2. ASSUME NEW p \in Replicas, Calls(c, p) PROVE Honest(c, client'[c], users')
    BY <1>1, <2>2 DEF Calls, Steps
  <2>3. /\ \A d \in Clients \ {c} : client'[d] = client[d]
        /\ users' = users /\ env' = env
    BY <1>0, <1>2 DEF Posts, Calls, Begins
  <2> QED
    BY <1>2, <2>1, <2>2, <2>3
<1>3. ASSUME NEW status \in Maybe(Statuses \ {201}), status = 204 => AdminPassword \in Knows[c],
             client' = [client EXCEPT ![c] = Idle(@.token, status)], users \subseteq users'
      PROVE  /\ Honest(c, client'[c], users')
             /\ \A d \in Clients \ {c} : client'[d] = client[d]
  BY <1>0, <1>3, RepliesHonest, HonestGrows DEF IInv
<1>4. ASSUME NEW status \in Refusals, Replies(c, status), users \subseteq users'
      PROVE  /\ Honest(c, client'[c], users')
             /\ \A d \in Clients \ {c} : client'[d] = client[d]
  <2>1. status \in Maybe(Statuses \ {201}) /\ status # 204
    BY <1>4 DEF Maybe, Statuses, Refusals
  <2>2. client' = [client EXCEPT ![c] = Idle(@.token, status)]
    BY <1>4 DEF Replies
  <2> QED
    BY <1>3, <1>4, <2>1, <2>2
<1>5. ASSUME NEW step \in {"insert", "save"}, NEW user, Proceeds(c, step, user), users' = users,
             user.password \in Knows[c], step = "insert" => user.role = "user",
             client[c].at # "idle"
      PROVE  /\ Honest(c, client'[c], users')
             /\ \A d \in Clients \ {c} : client'[d] = client[d]
  <2> DEFINE state == [client[c] EXCEPT !.at = step, !.user = user]
  <2>1. /\ state.at = step /\ state.user = user /\ state.status = client[c].status
        /\ state.token = client[c].token
    BY <1>0 DEF ClientStates
  <2>2. client'[c] = state /\ \A d \in Clients \ {c} : client'[d] = client[d]
    BY <1>0, <1>5 DEF Proceeds
  <2>3. client[c].status = Nothing /\ Nothing # 201 /\ Nothing # 204
    BY <1>0, <1>5, AccountsAssumption DEF Honest
  <2> HIDE DEF state
  <2> QED
    BY <1>0, <1>5, <2>1, <2>2, <2>3 DEF Honest
<1>6. CASE RegisterLookup(c)
  <2>1. users' = users /\ env' = env
    BY <1>6 DEF RegisterLookup
  <2>2. CASE \E status \in Refusals : Replies(c, status)
    BY <1>4, <2>1, <2>2
  <2>3. CASE Proceeds(c, "insert", u)
    BY <1>0, <1>5, <1>6, <2>1, <2>3 DEF Honest, RegisterLookup, At
  <2> QED
    BY <1>6, <2>1, <2>2, <2>3 DEF RegisterLookup, Refusals
<1>7. CASE RegisterInsert(c)
  <2> DEFINE state == [client[c] EXCEPT !.at = "idle", !.status = InsertStatus(u)]
  <2>1. /\ state.at = "idle" /\ state.user = u /\ state.status = InsertStatus(u)
        /\ state.token = t
    BY <1>0 DEF ClientStates
  <2>2. client'[c] = state /\ (\A d \in Clients \ {c} : client'[d] = client[d]) /\ env' = env
    BY <1>0, <1>7 DEF RegisterInsert
  <2>3. users \subseteq users' /\ (InsertStatus(u) = 201 => u \in users') /\ InsertStatus(u) # 204
    BY <1>7 DEF RegisterInsert, CreateUser, InsertStatus
  <2> HIDE DEF state
  <2> QED
    BY <1>0, <2>1, <2>2, <2>3 DEF Honest
<1>8. CASE RegisterUnacknowledged(c)
  <2>1. users \subseteq users' /\ env' = env
    BY <1>8 DEF RegisterUnacknowledged, CreateUser
  <2> QED
    BY <1>4, <1>8, <2>1 DEF RegisterUnacknowledged, Refusals
<1>9. CASE LoginFind(c)
  <2>1. users' = users /\ env' = env
    BY <1>9 DEF LoginFind
  <2>2. CASE Replies(c, 401)
    BY <1>4, <2>1, <2>2 DEF Refusals
  <2>3. ASSUME NEW v \in Matches(u), Proceeds(c, "save", v)
        PROVE  /\ Honest(c, client'[c], users')
               /\ \A d \in Clients \ {c} : client'[d] = client[d]
    BY <1>0, <1>5, <1>9, <2>1, <2>3 DEF Honest, LoginFind, At, Matches
  <2> QED
    BY <1>9, <2>1, <2>2, <2>3 DEF LoginFind
<1>10. CASE LoginSave(c)
  <2> DEFINE token == AccessToken(on[c], u)
  <2>1. /\ on[c] \in Replicas /\ phase[on[c]] \in Up /\ client[c].at = "save"
        /\ u \in users /\ u.password \in Knows[c] /\ users' = users /\ env' = env
    BY <1>0, <1>10 DEF LoginSave, At, IInv, TypeOK, ProcessesTypeOK, Honest
  <2>2. key[on[c]] \in Keys /\ (env.production => key[on[c]] = Secret)
    BY <2>1 DEF IInv, TypeOK, SignedAlike, Maybe
  <2>3. token.user = u /\ token.role = u.role /\ token.key = key[on[c]]
    BY DEF AccessToken
  <2>4. u \in Rows /\ u.role \in Roles
    BY <2>1 DEF IInv, TypeOK, Rows
  <2>5. token \in Maybe(Tokens)
    BY <2>2, <2>4 DEF AccessToken, Tokens, Maybe
  <2>6. 200 \in Maybe(Statuses \ {201}) /\ 200 # 204
    BY DEF Statuses, Maybe
  <2>7. client'[c] = Idle(token, 200) /\ \A d \in Clients \ {c} : client'[d] = client[d]
    BY <1>0, <1>10 DEF LoginSave
  <2> HIDE DEF token
  <2>8. /\ token.user \in users /\ token.role = token.user.role
        /\ token.user.password \in Knows[c] /\ (env.production => token.key = Secret)
    BY <2>1, <2>2, <2>3
  <2>9. Honest(c, Idle(token, 200), users)
    BY <2>5, <2>6, <2>8, IdleIsHonest
  <2> QED
    BY <2>1, <2>7, <2>9
<1>11. CASE Authorizes(c)
  <2>1. users' = users /\ env' = env /\ client' = [client EXCEPT ![c] = Idle(@.token, RequireAdmin(c))]
    BY <1>11 DEF Authorizes, Replies
  <2>2. RequireAdmin(c) \in Maybe(Statuses \ {201})
    BY DEF RequireAdmin, Maybe, Statuses
  <2>3. ASSUME RequireAdmin(c) = 204 PROVE AdminPassword \in Knows[c]
    <3>1. t # Nothing /\ t.role = "admin"
      BY <2>3 DEF RequireAdmin, Accepted
    <3>2. t.user \in users /\ t.user.role = "admin" /\ t.user.password \in Knows[c]
      BY <1>0, <3>1 DEF Honest
    <3>3. t.user = Admin
      BY <3>2 DEF IInv, OnlyOneAdmin
    <3> QED
      BY <3>2, <3>3, AdminRow
  <2> QED
    BY <1>3, <2>1, <2>2, <2>3
<1>12. CASE QueryFails(c)
  BY <1>4, <1>12 DEF QueryFails, Refusals
<1>13. CASE HangsUp(c)
  <2>1. /\ client' = [client EXCEPT ![c] = Idle(@.token, Nothing)]
        /\ users' = users /\ env' = env
    BY <1>13 DEF HangsUp
  <2>2. Nothing \in Maybe(Statuses \ {201}) /\ Nothing # 204
    BY AccountsAssumption DEF Maybe
  <2> QED
    BY <1>3, <2>1, <2>2
<1>14. CASE Expires(c)
  <2>1. client' = [client EXCEPT ![c] = Idle(Nothing, Nothing)] /\ users' = users /\ env' = env
    BY <1>14 DEF Expires
  <2>2. Honest(c, Idle(Nothing, Nothing), users)
    BY IdleIsHonest, AccountsAssumption DEF Maybe
  <2> QED
    BY <1>0, <2>1, <2>2
<1> QED
  BY <1>2, <1>6, <1>7, <1>8, <1>9, <1>10, <1>11, <1>12, <1>13, <1>14 DEF Handles

LEMMA RequestInvariant ==
    ASSUME IInv, NEW c \in Clients,
           \/ \E p \in Replicas : Posts(c, p) \/ Calls(c, p)
           \/ Handles(c) \/ HangsUp(c) \/ Expires(c)
    PROVE  IInv'
<1>1. TypeOK' /\ phase' = phase
  BY RequestStepTypes DEF IInv
<1>2. HonestClients'
  <2>1. ASSUME NEW d \in Clients \ {c} PROVE Honest(d, client'[d], users')
    BY <2>1, RequestHonest, HonestGrows DEF IInv, HonestClients
  <2> QED
    BY <2>1, RequestHonest DEF HonestClients, Honest
<1>3. /\ UNCHANGED <<env, key, seeding, unseeded>>
      /\ users' # users => /\ At(c, "insert") /\ ~Taken(client[c].user.name)
                           /\ users' = users \cup {client[c].user}
  BY DEF Posts, Calls, Begins, Handles, RegisterLookup, RegisterInsert, RegisterUnacknowledged, CreateUser,
         LoginFind, LoginSave, Authorizes, QueryFails, HangsUp, Expires
<1>4. ASSUME users' # users
      PROVE  /\ client[c].user.role = "user" /\ on[c] \in Replicas /\ phase[on[c]] \in Up
             /\ client[c].user \in Rows
  BY <1>3, <1>4, AccountsAssumption
     DEF IInv, HonestClients, Honest, At, TypeOK, ProcessesTypeOK, ClientStates, Maybe
<1>5. OneAccountPerName'
  BY <1>3 DEF IInv, OneAccountPerName, Taken
<1>6. OnlyOneAdmin'
  BY <1>3, <1>4 DEF IInv, OnlyOneAdmin
<1>7. SignedAlike'
  BY <1>3 DEF IInv, SignedAlike
<1>8. SeededFirst'
  <2>1. CASE users' = users
    BY <1>1, <1>3, <2>1 DEF IInv, SeededFirst, Taken
  <2>2. CASE users' # users
    <3>1. seeding[on[c]] = "done"
      BY <1>4, <2>2 DEF IInv, SeededFirst
    <3> QED
      BY <1>1, <1>3, <1>4, <2>2, <3>1 DEF IInv, SeededFirst
  <2> QED
    BY <2>1, <2>2
<1> QED
  BY <1>1, <1>2, <1>5, <1>6, <1>7, <1>8 DEF IInv

LEMMA ProcessInvariant ==
    ASSUME IInv, NEW p \in Replicas, Process(p)
    PROVE  IInv'
<1>1. TypeOK'
  BY ProcessTypes DEF IInv
<1>2. /\ env' = env
      /\ users' # users => ~Taken(AdminName) /\ users' = users \cup {Admin} /\ SeedInsert(p)
  BY AdminRow DEF Process, Boot, ResolveSecret, SeedLookup, SeedInsert, CreateUser, SeedFails, Seeds,
         Listens, Signals, Ends
<1>3. OneAccountPerName' /\ OnlyOneAdmin' /\ users \subseteq users'
  BY <1>2, AdminRow DEF IInv, OneAccountPerName, OnlyOneAdmin, Taken
<1>4. HonestClients'
  <2>1. CASE Ends(p)
    <3>1. ASSUME NEW c \in Clients PROVE Honest(c, client'[c], users)
      <4>1. CASE on[c] = p
        <5>1. client'[c] = Idle(client[c].token, Nothing) /\ client[c].token \in Maybe(Tokens)
          BY <2>1, <4>1 DEF Ends, IInv, TypeOK, ClientStates
        <5>2. Nothing \in Maybe(Statuses \ {201}) /\ Nothing # 204
          BY AccountsAssumption DEF Maybe
        <5>3. Honest(c, client[c], users)
          BY DEF IInv, HonestClients
        <5>4. client[c].token # Nothing =>
                /\ client[c].token.user \in users
                /\ client[c].token.role = client[c].token.user.role
                /\ client[c].token.user.password \in Knows[c]
                /\ env.production => client[c].token.key = Secret
          BY <5>3 DEF Honest
        <5> QED
          BY <5>1, <5>2, <5>4, IdleIsHonest
      <4>2. CASE on[c] # p
        BY <2>1, <4>2 DEF Ends, IInv, HonestClients
      <4> QED
        BY <4>1, <4>2
    <3> QED
      BY <1>2, <1>3, <3>1, HonestGrows DEF HonestClients, Honest
  <2>2. CASE client' = client
    BY <1>2, <1>3, <2>2, HonestGrows DEF IInv, HonestClients, Honest
  <2> QED
    BY <2>1, <2>2 DEF Process, Boot, ResolveSecret, SeedLookup, SeedInsert, SeedFails, Seeds,
                      Listens, Signals
<1>5. SignedAlike'
  <2>1. CASE ResolveSecret(p)
    <3>1. key' = [key EXCEPT ![p] = resolveJWTSecret(p)] /\ key \in [Replicas -> Maybe(Keys)]
      BY <2>1 DEF ResolveSecret, IInv, TypeOK
    <3> QED
      BY <1>2, <3>1, SecretFacts DEF IInv, SignedAlike
  <2>2. CASE Ends(p)
    BY <1>2, <2>2 DEF Ends, IInv, SignedAlike, TypeOK
  <2>3. CASE key' = key
    BY <1>2, <2>3 DEF IInv, SignedAlike
  <2> QED
    BY <2>1, <2>2, <2>3 DEF Process, Boot, SeedLookup, SeedInsert, SeedFails, Seeds, Listens, Signals
<1>6. SeededFirst'
  <2>0. /\ seeding \in [Replicas -> {"lookup", "insert", "done"}] /\ phase \in [Replicas -> Phases]
        /\ SeededFirst
    BY DEF IInv, TypeOK, ProcessesTypeOK
  <2>1. CASE Boot(p) \/ Listens(p) \/ Signals(p)
    <3>1. /\ seeding' = seeding /\ users' = users /\ unseeded' = unseeded
          /\ \A q \in Replicas : phase'[q] \in Up => phase[q] \in Up \/ seeding[q] = "done"
      BY <2>0, <2>1 DEF Boot, Listens, Signals, Start, Listen, Notify, Shutdown, GoesTo,
                        Up, Accepting
    <3> QED
      BY <1>2, <2>0, <3>1 DEF SeededFirst, Taken
  <2>2. CASE ResolveSecret(p)
    BY <1>2, <2>0, <2>2 DEF ResolveSecret, lifecycle, SeededFirst, Taken
  <2>3. ASSUME \E step \in {"lookup", "insert"} : Seeds(p, step)
        PROVE  /\ phase' = phase
               /\ \A q \in Replicas : phase[q] \in Up => q # p /\ seeding[q] = "done"
    BY <2>0, <2>3 DEF Seeds, lifecycle, SeededFirst, Up, Accepting
  <2>4. CASE SeedLookup(p)
    BY <1>2, <2>0, <2>3, <2>4 DEF SeedLookup, SeededFirst, Taken
  <2>5. CASE SeedInsert(p)
    <3>1. /\ users' = IF Taken(AdminName) THEN users ELSE users \cup {Admin}
          /\ seeding' = [seeding EXCEPT ![p] = "done"] /\ unseeded' = unseeded
      BY <2>5, AdminRow DEF SeedInsert, CreateUser
    <3>2. env.seed /\ AdminPassword \notin Unhashable /\ ~unseeded => Admin \in users'
      BY <2>0, <3>1 DEF SeededFirst
    <3> QED
      BY <1>2, <2>0, <2>3, <2>5, <3>1, <3>2 DEF SeedInsert, SeededFirst
  <2>6. CASE SeedFails(p)
    BY <1>2, <2>0, <2>3, <2>6 DEF SeedFails, SeededFirst
  <2>7. CASE Ends(p)
    <3>1. \A q \in Replicas : phase'[q] \in Up => q # p /\ phase[q] \in Up
      BY <2>7, EndTypes DEF Ends, IInv, TypeOK
    <3>2. seeding' = [seeding EXCEPT ![p] = "lookup"] /\ users' = users /\ unseeded' = unseeded
      BY <2>7 DEF Ends
    <3> QED
      BY <1>2, <2>0, <3>1, <3>2 DEF SeededFirst, Taken
  <2> QED
    BY <2>1, <2>2, <2>4, <2>5, <2>6, <2>7 DEF Process
<1> QED
  BY <1>1, <1>3, <1>4, <1>5, <1>6 DEF IInv

LEMMA InvariantInit == Init => IInv
<1> SUFFICES ASSUME Init PROVE IInv
  OBVIOUS
<1>1. /\ users = {} /\ client = [c \in Clients |-> Idle(Nothing, Nothing)]
      /\ key = [p \in Replicas |-> Nothing] /\ seeding = [p \in Replicas |-> "lookup"]
      /\ phase = [p \in Replicas |-> "down"]
  BY DEF Init, InitProcesses, InitAccounts
<1>2. Nothing \in Maybe(Statuses \ {201}) /\ Nothing # 204 /\ Nothing \in Maybe(Tokens)
  BY AccountsAssumption DEF Maybe
<1>3. HonestClients
  BY <1>1, <1>2, IdleIsHonest DEF HonestClients
<1>4. OneAccountPerName /\ OnlyOneAdmin /\ SignedAlike /\ SeededFirst
  BY <1>1 DEF OneAccountPerName, OnlyOneAdmin, SignedAlike, SeededFirst, Taken, Up, Accepting
<1> QED
  BY <1>3, <1>4, TypesInit DEF IInv

LEMMA InvariantStep == IInv /\ [Next]_vars => IInv'
<1> SUFFICES ASSUME IInv, [Next]_vars PROVE IInv'
  OBVIOUS
<1>1. CASE UNCHANGED vars
  <2>1. TypeOK'
    BY <1>1, TypesStep DEF IInv
  <2>2. /\ users' = users /\ client' = client /\ env' = env /\ key' = key /\ phase' = phase
        /\ seeding' = seeding /\ unseeded' = unseeded
    BY <1>1 DEF vars, lifecycle
  <2>3. HonestClients'
    BY <2>2 DEF IInv, HonestClients, Honest
  <2>4. OneAccountPerName' /\ OnlyOneAdmin' /\ SignedAlike' /\ SeededFirst'
    BY <2>2 DEF IInv, OneAccountPerName, OnlyOneAdmin, SignedAlike, SeededFirst, Taken
  <2> QED
    BY <2>1, <2>3, <2>4 DEF IInv
<1>2. ASSUME NEW p \in Replicas, Process(p) PROVE IInv'
  BY <1>2, ProcessInvariant
<1>3. ASSUME NEW c \in Clients,
             \/ \E p \in Replicas : Posts(c, p) \/ Calls(c, p)
             \/ Handles(c) \/ HangsUp(c) \/ Expires(c)
      PROVE  IInv'
  BY <1>3, RequestInvariant
<1> QED
  BY <1>1, <1>2, <1>3 DEF Next

LEMMA Invariant == Spec => []IInv
BY InvariantInit, InvariantStep, PTL DEF Spec

-----------------------------------------------------------------------------
(***************************************************************************)
(* models/user.go:31: the index makes a name unique, however registrations *)
(* and seeds overlap, fail and are repeated.                               *)
(***************************************************************************)
THEOREM OneAccount == Spec => []OneAccountPerName
<1>1. IInv => OneAccountPerName
  BY DEF IInv
<1> QED
  BY <1>1, Invariant, PTL

(***************************************************************************)
(* auth_handlers.go:70: a client that was answered 201 owns the account.   *)
(***************************************************************************)
THEOREM Created == Spec => []CreatedMeansYours
<1>1. IInv => CreatedMeansYours
  BY DEF IInv, HonestClients, Honest, CreatedMeansYours
<1> QED
  BY <1>1, Invariant, PTL

(***************************************************************************)
(* README.md:99-100: a write is let through only for a client that knows   *)
(* the password of the seeded admin.                                       *)
(***************************************************************************)
THEOREM AdminWrites == Spec => []OnlyAdminWrites
<1>1. IInv => OnlyAdminWrites
  BY DEF IInv, HonestClients, Honest, OnlyAdminWrites
<1> QED
  BY <1>1, Invariant, PTL

(***************************************************************************)
(* README.md:127-129: the admin is there before anybody is served.         *)
(***************************************************************************)
THEOREM SeedComesFirst == Spec => []AdminBeforeService
<1>1. IInv => AdminBeforeService
  BY DEF IInv, SeededFirst, AdminBeforeService
<1> QED
  BY <1>1, Invariant, PTL

(***************************************************************************)
(* README.md:130-132: in production a token is good on every replica.      *)
(***************************************************************************)
THEOREM TokensGoodEverywhere == Spec => []GoodEverywhere
<1>1. IInv => GoodEverywhere
  <2> SUFFICES ASSUME IInv, env.production, NEW c \in Clients, NEW p \in Replicas,
                      client[c].token # Nothing, phase[p] \in Up
               PROVE  Accepted(p, client[c].token)
    BY DEF GoodEverywhere
  <2>1. client[c].token.key = Secret
    BY DEF IInv, HonestClients, Honest
  <2>2. key[p] = Secret
    BY DEF IInv, SignedAlike, TypeOK
  <2> QED
    BY <2>1, <2>2 DEF Accepted
<1> QED
  BY <1>1, Invariant, PTL

-----------------------------------------------------------------------------
(***************************************************************************)
(* The account book.  What a client of it sees of one step of its request. *)
(***************************************************************************)
LEMMA OneEntry ==
    ASSUME TypeOK, NEW c \in Clients, NEW state, client' = [client EXCEPT ![c] = state]
    PROVE  /\ asked' = [asked EXCEPT ![c] = Asked(state)]
           /\ answer' = [answer EXCEPT ![c] = state.status]
           /\ session' = [session EXCEPT ![c] = Holder(state.token)]
BY DEF TypeOK, asked, answer, session

LEMMA SameEntries ==
    ASSUME client' = client
    PROVE  asked' = asked /\ answer' = answer /\ session' = session
BY DEF asked, answer, session

\* An answer that does not come with a token.
LEMMA EntryAnswered ==
    ASSUME TypeOK, NEW c \in Clients, NEW state, client' = [client EXCEPT ![c] = state],
           state.at = "idle", state.token = client[c].token, env' = env
    PROVE  Book!Answers(c, state.status) /\ session' = session
<1>1. Asked(state) = Book!None
  BY DEF Asked, Book!None
<1>2. session' = [session EXCEPT ![c] = session[c]] /\ session \in [Clients -> {session[d] : d \in Clients}]
  BY OneEntry DEF session
<1> QED
  BY <1>1, <1>2, OneEntry DEF Book!Answers, shared

LEMMA EntryReplied ==
    ASSUME TypeOK, NEW c \in Clients, NEW status, env' = env, Replies(c, status)
    PROVE  Book!Answers(c, status) /\ session' = session
<1> DEFINE state == Idle(client[c].token, status)
<1>1. state.at = "idle" /\ state.token = client[c].token /\ state.status = status
  BY DEF Idle
<1>2. client' = [client EXCEPT ![c] = state]
  BY DEF TypeOK, Replies
<1> HIDE DEF state
<1> QED
  BY <1>1, <1>2, EntryAnswered

\* What is asked while a request is handled, and by whom.
LEMMA AskedOf ==
    ASSUME IInv, NEW c \in Clients
    PROVE  /\ client[c].at \in {"lookup", "insert"} =>
                 /\ Book!Asks(c, "register")
                 /\ Book!NewUser(asked[c]) = client[c].user
           /\ client[c].at \in {"find", "save"} => Book!Asks(c, "login")
           /\ client[c].at \in {"lookup", "insert", "find", "save"} =>
                 /\ asked[c].name = client[c].user.name
                 /\ asked[c].password = client[c].user.password
           /\ client[c].at \in {"read", "write"} => Book!Asks(c, client[c].at)
           /\ client[c].at = "idle" => asked[c] = Book!None
<1>1. asked[c] = Asked(client[c])
  BY DEF asked
<1>2. client[c].at \in {"lookup", "insert"} => client[c].user \in Rows /\ client[c].user.role = "user"
  BY DEF IInv, TypeOK, ClientStates, Maybe, HonestClients, Honest
<1>3. client[c].at \in {"lookup", "insert"} => Book!NewUser(asked[c]) = client[c].user
  BY <1>1, <1>2 DEF Asked, Book!NewUser, Rows
<1> QED
  BY <1>1, <1>3 DEF Asked, Book!Asks, Book!None

LEMMA FreeNames ==
    ASSUME NEW name
    PROVE  Book!Free(name) <=> ~Taken(name)
BY DEF Book!Free, Taken

LEMMA RequestsEntered ==
    ASSUME IInv, NEW c \in Clients, NEW p \in Replicas, Posts(c, p) \/ Calls(c, p)
    PROVE  Book!Ask(c)
<1>1. PICK step \in {"lookup", "find", "read", "write"}, user \in Maybe(Rows) :
        /\ Begins(c, p, step, user)
        /\ step \in {"lookup", "find"} => \E name \in Names, password \in Knows[c] :
                                              user = Row(name, password, "user")
  BY RowTypes, AccountsAssumption DEF Posts, Calls, Maybe
<1> DEFINE state == [client[c] EXCEPT !.at = step, !.user = user, !.status = Nothing]
<1>2. /\ state.at = step /\ state.user = user /\ state.status = Nothing
      /\ state.token = client[c].token
  BY DEF IInv, TypeOK, ClientStates
<1>3. /\ client' = [client EXCEPT ![c] = state] /\ users' = users /\ env' = env
      /\ client[c].at = "idle"
  BY <1>1 DEF Begins, Accept, IInv, TypeOK
<1> HIDE DEF state
<1>4. Asked(state) \in Book!Requests(c)
  <2>1. CASE step \in {"read", "write"}
    BY <1>2, <2>1 DEF Asked, Book!Requests
  <2>2. CASE step \in {"lookup", "find"}
    <3>1. PICK name \in Names, password \in Knows[c] : user = Row(name, password, "user")
      BY <1>1, <2>2
    <3>2. user.name = name /\ user.password = password
      BY <3>1 DEF Row
    <3> QED
      BY <1>2, <2>2, <3>2 DEF Asked, Book!Requests
  <2> QED
    BY <2>1, <2>2
<1>5. /\ asked' = [asked EXCEPT ![c] = Asked(state)]
      /\ answer' = [answer EXCEPT ![c] = state.status]
      /\ session' = [session EXCEPT ![c] = Holder(state.token)]
  BY <1>3, OneEntry DEF IInv
<1>6. session' = session /\ shared' = shared
  BY <1>2, <1>3, <1>5 DEF session, shared
<1> QED
  BY <1>2, <1>3, <1>4, <1>5, <1>6, AskedOf DEF Book!Ask

(***************************************************************************)
(* auth_handlers.go:79-150, middleware.go:22-54: what handles a request    *)
(* leaves the book as it is, or answers in it.                             *)
(***************************************************************************)
LEMMA AccountEntered ==
    ASSUME IInv, NEW c \in Clients, client[c].at = "insert", CreateUser(client[c].user),
           Book!Answers(c, 201) \/ Book!Answers(c, 500), session' = session,
           ~Taken(client[c].user.name)
    PROVE  Book!Register(c)
<1>1. /\ Book!Asks(c, "register") /\ asked[c].name = client[c].user.name
      /\ Book!NewUser(asked[c]) = client[c].user
  BY AskedOf
<1>2. Book!Free(asked[c].name)
  BY <1>1, FreeNames
<1>3. users' = users \cup {Book!NewUser(asked[c])}
  BY <1>1 DEF CreateUser
<1> QED
  BY <1>1, <1>2, <1>3 DEF Book!Register

LEMMA QueriesEntered ==
    ASSUME IInv, NEW c \in Clients, At(c, "lookup") \/ At(c, "insert"),
           RegisterLookup(c) \/ RegisterInsert(c) \/ RegisterUnacknowledged(c)
    PROVE  Book!Register(c) \/ Book!Fails(c) \/ UNCHANGED Book!book
<1> DEFINE u == client[c].user
<1>0. /\ TypeOK /\ client[c].at \in {"lookup", "insert"} /\ client[c] \in ClientStates
      /\ Book!Asks(c, "register") /\ asked[c].name = u.name
  BY AskedOf DEF IInv, TypeOK, At
<1>1. CASE RegisterLookup(c)
  <2>1. users' = users /\ env' = env /\ shared' = shared
    BY <1>1 DEF RegisterLookup, shared
  <2>2. CASE Taken(u.name) /\ Replies(c, 409)
    <3>1. Book!Answers(c, 409) /\ session' = session
      BY <1>0, <2>1, <2>2, EntryReplied
    <3> QED
      BY <1>0, <2>1, <2>2, <3>1, FreeNames DEF Book!Register
  <2>3. CASE Replies(c, 500)
    <3>1. Book!Answers(c, 500) /\ session' = session
      BY <1>0, <2>1, <2>3, EntryReplied
    <3> QED
      BY <1>0, <2>1, <3>1 DEF Book!Fails
  <2>4. CASE At(c, "lookup") /\ Proceeds(c, "insert", u)
    <3> DEFINE state == [client[c] EXCEPT !.at = "insert", !.user = u]
    <3>1. /\ state.at = "insert" /\ state.user = u /\ state.status = client[c].status
          /\ state.token = client[c].token
      BY <1>0 DEF ClientStates
    <3>2. client' = [client EXCEPT ![c] = state] /\ client[c].at = "lookup"
      BY <2>4 DEF Proceeds, At
    <3> HIDE DEF state
    <3>3. Asked(state) = Asked(client[c])
      BY <3>1, <3>2 DEF Asked
    <3>4. asked' = asked /\ answer' = answer /\ session' = session
      BY <1>0, <3>1, <3>2, <3>3, OneEntry DEF asked, answer, session
    <3> QED
      BY <2>1, <3>4 DEF Book!book
  <2> QED
    BY <1>1, <2>2, <2>3, <2>4 DEF RegisterLookup
<1>2. CASE RegisterInsert(c)
  <2> DEFINE state == [client[c] EXCEPT !.at = "idle", !.status = InsertStatus(u)]
  <2>1. state.at = "idle" /\ state.status = InsertStatus(u) /\ state.token = client[c].token
    BY <1>0 DEF ClientStates
  <2>2. /\ client' = [client EXCEPT ![c] = state] /\ env' = env
        /\ client[c].at = "insert" /\ CreateUser(u)
    BY <1>2 DEF RegisterInsert, At
  <2> HIDE DEF state
  <2>3. Book!Answers(c, InsertStatus(u)) /\ session' = session
    BY <1>0, <2>1, <2>2, EntryAnswered
  <2>4. CASE Taken(u.name)
    BY <1>0, <2>2, <2>3, <2>4 DEF InsertStatus, CreateUser, Book!Fails
  <2>5. CASE ~Taken(u.name)
    BY <2>2, <2>3, <2>5, AccountEntered DEF InsertStatus
  <2> QED
    BY <2>4, <2>5
<1>3. CASE RegisterUnacknowledged(c)
  <2>0. client[c].at = "insert" /\ CreateUser(u) /\ env' = env /\ Replies(c, 500)
    BY <1>3 DEF RegisterUnacknowledged, At
  <2>1. Book!Answers(c, 500) /\ session' = session
    BY <1>0, <2>0, EntryReplied
  <2>2. CASE Taken(u.name)
    BY <1>0, <2>0, <2>1, <2>2 DEF CreateUser, Book!Fails
  <2>3. CASE ~Taken(u.name)
    BY <2>0, <2>1, <2>3, AccountEntered
  <2> QED
    BY <2>2, <2>3
<1> QED
  BY <1>1, <1>2, <1>3

LEMMA LoginEntered ==
    ASSUME IInv, NEW c \in Clients, LoginFind(c) \/ LoginSave(c)
    PROVE  Book!Login(c) \/ UNCHANGED Book!book
<1> DEFINE u == client[c].user
<1>0. /\ TypeOK /\ client[c].at \in {"find", "save"} /\ client[c] \in ClientStates
      /\ Book!Asks(c, "login") /\ asked[c].name = u.name /\ asked[c].password = u.password
      /\ users' = users /\ env' = env /\ shared' = shared
  BY AskedOf DEF IInv, TypeOK, At, LoginFind, LoginSave, shared
<1>1. Book!Matching(asked[c]) = Matches(u)
  BY <1>0 DEF Book!Matching, Matches
<1>2. CASE Matches(u) = {} /\ Replies(c, 401)
  <2>1. Book!Answers(c, 401) /\ session' = session
    BY <1>0, <1>2, EntryReplied
  <2> QED
    BY <1>0, <1>1, <1>2, <2>1 DEF Book!Login
<1>3. ASSUME NEW v \in Matches(u), Proceeds(c, "save", v), At(c, "find")
      PROVE  UNCHANGED Book!book
  <2> DEFINE state == [client[c] EXCEPT !.at = "save", !.user = v]
  <2>1. /\ state.at = "save" /\ state.user = v /\ state.status = client[c].status
        /\ state.token = client[c].token
    BY <1>0 DEF ClientStates
  <2>2. client' = [client EXCEPT ![c] = state] /\ client[c].at = "find"
    BY <1>3 DEF Proceeds, At
  <2> HIDE DEF state
  <2>3. Asked(state) = Asked(client[c])
    BY <1>3, <2>1, <2>2 DEF Asked, Matches
  <2>4. asked' = asked /\ answer' = answer /\ session' = session
    BY <1>0, <2>1, <2>2, <2>3, OneEntry DEF asked, answer, session
  <2> QED
    BY <1>0, <2>4 DEF Book!book
<1>4. CASE LoginSave(c)
  <2> DEFINE token == AccessToken(on[c], u)
             state == Idle(token, 200)
  <2>1. token.user = u /\ state.at = "idle" /\ state.token = token /\ state.status = 200
    BY DEF AccessToken, Idle
  <2>2. u \in users /\ u \in Matches(u)
    BY <1>0, <1>4 DEF LoginSave, At, IInv, TypeOK, Matches
  <2>3. token # Nothing
    <3>1. on[c] \in Replicas /\ phase[on[c]] \in Up
      BY <1>4 DEF LoginSave, At, IInv, TypeOK, ProcessesTypeOK
    <3>2. key[on[c]] \in Keys /\ u.role \in Roles /\ u \in Rows
      BY <2>2, <3>1 DEF IInv, TypeOK, Maybe, Rows
    <3> QED
      BY <3>2, AccountsAssumption DEF AccessToken, Tokens
  <2>4. client' = [client EXCEPT ![c] = state]
    BY <1>4 DEF LoginSave
  <2> HIDE DEF token, state
  <2>5. Holder(token) = u /\ Asked(state) = Book!None
    BY <2>1, <2>3 DEF Holder, Asked, Book!None
  <2>6. /\ asked' = [asked EXCEPT ![c] = Asked(state)]
        /\ answer' = [answer EXCEPT ![c] = state.status]
        /\ session' = [session EXCEPT ![c] = Holder(state.token)]
    BY <1>0, <2>4, OneEntry
  <2>7. session' = [session EXCEPT ![c] = u] /\ Book!Answers(c, 200)
    BY <1>0, <2>1, <2>5, <2>6 DEF Book!Answers
  <2> QED
    BY <1>0, <1>1, <2>2, <2>7 DEF Book!Login
<1> QED
  BY <1>2, <1>3, <1>4 DEF LoginFind

LEMMA CallEntered ==
    ASSUME IInv, NEW c \in Clients, Authorizes(c)
    PROVE  Book!Call(c)
<1> DEFINE t == client[c].token
<1>0. /\ client[c].at \in {"read", "write"} /\ Book!Asks(c, client[c].at) /\ TypeOK
      /\ on[c] \in Replicas /\ phase[on[c]] \in Up
  BY AskedOf DEF Authorizes, At, IInv, TypeOK, ProcessesTypeOK
<1>1. users' = users /\ env' = env /\ Replies(c, RequireAdmin(c))
  BY DEF Authorizes
<1>2. Book!Answers(c, RequireAdmin(c)) /\ session' = session
  BY <1>0, <1>1, EntryReplied
<1>3. t # Nothing => session[c] # Nothing /\ session[c].role = t.role
  <2>1. t # Nothing => t.user \in Rows /\ t.user.role = t.role /\ session[c] = t.user
    BY DEF IInv, TypeOK, HonestClients, Honest, session, Holder
  <2> QED
    BY <2>1, AccountsAssumption
<1>4. ~Accepted(on[c], t) => session[c] = Nothing \/ ~shared
  <2>1. t # Nothing /\ shared => t.key = Secret /\ key[on[c]] = Secret
    BY <1>0 DEF IInv, TypeOK, HonestClients, Honest, SignedAlike, shared
  <2> QED
    BY <2>1 DEF Accepted, session, Holder
<1>5. CASE ~Accepted(on[c], t)
  <2>1. RequireAdmin(c) = 401
    BY <1>5 DEF RequireAdmin
  <2> QED
    BY <1>0, <1>1, <1>2, <1>4, <1>5, <2>1 DEF Book!Call
<1>6. CASE Accepted(on[c], t) /\ client[c].at = "read"
  BY <1>0, <1>1, <1>2, <1>3, <1>6 DEF RequireAdmin, Accepted, Book!Call
<1>7. CASE Accepted(on[c], t) /\ client[c].at = "write"
  <2>1. /\ session[c] # Nothing
        /\ RequireAdmin(c) = IF session[c].role = "admin" THEN 204 ELSE 403
    BY <1>3, <1>7 DEF RequireAdmin, Accepted
  <2> QED
    BY <1>0, <1>1, <1>2, <1>7, <2>1 DEF Book!Call
<1> QED
  BY <1>0, <1>5, <1>6, <1>7

LEMMA FailureEntered ==
    ASSUME IInv, NEW c \in Clients, QueryFails(c)
    PROVE  Book!Fails(c)
<1>1. Book!Asks(c, "register") \/ Book!Asks(c, "login")
  BY AskedOf DEF QueryFails, At
<1>2. Book!Answers(c, 500) /\ session' = session /\ users' = users
  BY EntryReplied DEF QueryFails, IInv
<1> QED
  BY <1>1, <1>2 DEF Book!Fails

LEMMA ExpiryEntered ==
    ASSUME IInv, NEW c \in Clients, Expires(c)
    PROVE  Book!Lapse(c)
<1> DEFINE state == Idle(Nothing, Nothing)
<1>1. /\ state.at = "idle" /\ state.token = Nothing /\ state.status = Nothing
      /\ client' = [client EXCEPT ![c] = state] /\ client[c].at = "idle"
      /\ users' = users /\ shared' = shared
  BY DEF Idle, Expires, IInv, TypeOK, shared
<1> HIDE DEF state
<1>2. asked[c] = Book!None /\ Asked(state) = Book!None /\ Holder(state.token) = Nothing
  BY <1>1, AskedOf DEF Asked, Book!None, Holder
<1>3. /\ asked' = [asked EXCEPT ![c] = Asked(state)]
      /\ answer' = [answer EXCEPT ![c] = state.status]
      /\ session' = [session EXCEPT ![c] = Holder(state.token)]
  BY <1>1, OneEntry DEF IInv
<1>4. asked' = asked
  BY <1>2, <1>3 DEF asked
<1> QED
  BY <1>1, <1>2, <1>3, <1>4 DEF Book!Lapse

(***************************************************************************)
(* What cuts requests off: each of them is as good as never made.  Until   *)
(* it is answered a request has no status, so no answer is lost with it.   *)
(***************************************************************************)
LEMMA CutOff ==
    ASSUME IInv, NEW some \in SUBSET Clients, users' = users, env' = env,
           client' = [c \in Clients |->
              IF c \in some THEN Idle(client[c].token, Nothing) ELSE client[c]],
           \A c \in some : client[c].at # "idle"
    PROVE  Book!GiveUp
<1>1. \A c \in some : /\ Asked(client'[c]) = Book!None
                      /\ client'[c].status = client[c].status
                      /\ client'[c].token = client[c].token
  BY DEF IInv, HonestClients, Honest, Idle, Asked, Book!None
<1>2. \A c \in Clients \ some : client'[c] = client[c]
  OBVIOUS
<1>3. answer' = answer /\ session' = session /\ shared' = shared
  BY <1>1, <1>2 DEF answer, session, shared
<1>4. asked' = [c \in Clients |-> IF c \in some THEN Book!None ELSE asked[c]]
  BY <1>1, <1>2 DEF asked
<1> QED
  BY <1>3, <1>4 DEF Book!GiveUp

LEMMA RequestEntered ==
    ASSUME IInv, NEW c \in Clients,
           \/ \E p \in Replicas : Posts(c, p) \/ Calls(c, p)
           \/ Handles(c) \/ HangsUp(c) \/ Expires(c)
    PROVE  [Book!Next]_Book!book
<1>1. CASE HangsUp(c)
  <2> DEFINE some == {c}
  <2>1. client' = [d \in Clients |->
             IF d \in some THEN Idle(client[d].token, Nothing) ELSE client[d]]
    BY <1>1 DEF HangsUp, IInv, TypeOK
  <2>2. /\ users' = users /\ env' = env /\ some \in SUBSET Clients
        /\ \A d \in some : client[d].at # "idle"
    BY <1>1 DEF HangsUp, Answer, IInv, TypeOK
  <2> HIDE DEF some
  <2>3. Book!GiveUp
    BY <2>1, <2>2, CutOff
  <2> QED
    BY <2>3 DEF Book!Next
<1>2. CASE RegisterLookup(c) \/ RegisterInsert(c) \/ RegisterUnacknowledged(c)
  <2>1. At(c, "lookup") \/ At(c, "insert")
    BY <1>2 DEF RegisterLookup, RegisterInsert, RegisterUnacknowledged
  <2> QED
    BY <1>2, <2>1, QueriesEntered DEF Book!Next
<1>3. CASE LoginFind(c) \/ LoginSave(c)
  BY <1>3, LoginEntered DEF Book!Next
<1>4. CASE \E p \in Replicas : Posts(c, p) \/ Calls(c, p)
  BY <1>4, RequestsEntered DEF Book!Next
<1>5. CASE Authorizes(c)
  BY <1>5, CallEntered DEF Book!Next
<1>6. CASE QueryFails(c)
  BY <1>6, FailureEntered DEF Book!Next
<1>7. CASE Expires(c)
  BY <1>7, ExpiryEntered DEF Book!Next
<1> QED
  BY <1>1, <1>2, <1>3, <1>4, <1>5, <1>6, <1>7 DEF Handles

LEMMA ProcessEntered ==
    ASSUME IInv, NEW p \in Replicas, Process(p)
    PROVE  [Book!Next]_Book!book
<1>0. env' = env /\ shared' = shared
  BY DEF Process, Boot, ResolveSecret, SeedLookup, SeedInsert, SeedFails, Seeds,
         Listens, Signals, Ends, shared
<1>1. CASE Ends(p)
  <2> DEFINE some == {c \in Clients : on[c] = p}
  <2>1. /\ client' = [c \in Clients |->
             IF c \in some THEN Idle(client[c].token, Nothing) ELSE client[c]]
        /\ users' = users
    BY <1>1 DEF Ends
  <2>2. \A c \in some : client[c].at # "idle"
    BY ProcessesAssumption DEF IInv, TypeOK
  <2> HIDE DEF some
  <2>3. some \in SUBSET Clients
    BY DEF some
  <2> QED
    BY <1>0, <2>1, <2>2, <2>3, CutOff DEF Book!Next
<1>2. CASE SeedInsert(p)
  <2>1. asked' = asked /\ answer' = answer /\ session' = session
    BY <1>2, SameEntries DEF SeedInsert, Seeds
  <2>2. CASE Taken(Admin.name)
    BY <1>0, <1>2, <2>1, <2>2 DEF SeedInsert, CreateUser, Book!book
  <2>3. CASE ~Taken(Admin.name)
    BY <1>0, <1>2, <2>1, <2>3, FreeNames DEF SeedInsert, CreateUser, Book!Seed, Book!Next
  <2> QED
    BY <2>2, <2>3
<1>3. CASE client' = client /\ users' = users
  BY <1>0, <1>3, SameEntries DEF Book!book
<1> QED
  BY <1>1, <1>2, <1>3 DEF Process, Boot, ResolveSecret, SeedLookup, SeedFails, Seeds, Listens, Signals

(***************************************************************************)
(* auth_handlers.go:79-150, middleware.go:22-54: whatever processes,       *)
(* queries and clients do in between, each request takes effect at one     *)
(* moment or not at all, and a token is worth what its account is worth.   *)
(***************************************************************************)
THEOREM BookImplemented == Spec => ImplementsBook
<1>1. Init => Book!Init
  <2> SUFFICES ASSUME Init PROVE Book!Init
    OBVIOUS
  <2>1. users = {} /\ env \in Environments /\ client = [c \in Clients |-> Idle(Nothing, Nothing)]
    BY DEF Init, InitAccounts
  <2>2. /\ Asked(Idle(Nothing, Nothing)) = Book!None
        /\ Idle(Nothing, Nothing).status = Nothing
        /\ Holder(Idle(Nothing, Nothing).token) = Nothing
    BY DEF Asked, Idle, Book!None, Holder
  <2>3. shared \in BOOLEAN
    BY <2>1, AccountsAssumption DEF shared
  <2> QED
    BY <2>1, <2>2, <2>3 DEF Book!Init, asked, answer, session
<1>2. IInv /\ [Next]_vars => [Book!Next]_Book!book
  <2> SUFFICES ASSUME IInv, [Next]_vars PROVE [Book!Next]_Book!book
    OBVIOUS
  <2>1. CASE UNCHANGED vars
    <3>1. client' = client /\ users' = users /\ shared' = shared
      BY <2>1 DEF vars, shared
    <3> QED
      BY <3>1, SameEntries DEF Book!book
  <2>2. ASSUME NEW p \in Replicas, Process(p) PROVE [Book!Next]_Book!book
    BY <2>2, ProcessEntered
  <2>3. ASSUME NEW c \in Clients,
               \/ \E p \in Replicas : Posts(c, p) \/ Calls(c, p)
               \/ Handles(c) \/ HangsUp(c) \/ Expires(c)
        PROVE  [Book!Next]_Book!book
    BY <2>3, RequestEntered
  <2> QED
    BY <2>1, <2>2, <2>3 DEF Next
<1> QED
  BY <1>1, <1>2, Invariant, PTL DEF Spec, ImplementsBook, Book!Spec
=============================================================================
