------------------------------ MODULE Accounts ------------------------------
(***************************************************************************)
(* Accounts and access tokens: register and login of auth_handlers.go, the *)
(* admin that main.go seeds at boot, the secret each process signs with,   *)
(* and the middleware in front of /students.  Any number of replicas share *)
(* the users table and one environment; one action per query.              *)
(*                                                                         *)
(* A row is never changed or removed, so a row stands for its id, and a    *)
(* password for its bcrypt hash (two passwords differ in their first 72    *)
(* bytes, all that a login compares).  Bodies refused with 400 change      *)
(* nothing and are left out.  Refresh tokens are in RefreshTokens.         *)
(***************************************************************************)
EXTENDS Processes

CONSTANTS
    Names,          \* usernames
    AdminName,      \* ADMIN_USERNAME
    Passwords,
    Knows,          \* the passwords each client knows
    AdminPassword,  \* ADMIN_PASSWORD
    Unhashable,     \* the passwords bcrypt refuses: more than 72 bytes
    Secret,         \* JWT_SECRET, where it is set
    Environments,   \* the environments a deployment may give its processes
    MaxFaults       \* bound: how many queries fail

Roles == {"user", "admin"}
Rows  == [name : Names, password : Passwords, role : Roles]

\* Without JWT_SECRET each boot draws 32 random bytes, a key of its own.
Keys == {Secret} \cup Nat

\* A JWT that has not expired: subject, role, and the key of its signature.
Tokens == [user : Rows, role : Roles, key : Keys]

ASSUME AccountsAssumption ==
    /\ AdminName \in Names /\ AdminPassword \in Passwords
    /\ Knows \in [Clients -> SUBSET Passwords]
    /\ Unhashable \subseteq Passwords
    /\ Secret \notin Nat \cup {Nothing} /\ Nothing \notin Nat \cup Rows \cup Tokens
    /\ Environments \subseteq
          [production : BOOLEAN, secret : {Secret, Nothing}, seed : BOOLEAN]
    /\ MaxFaults \in Nat

VARIABLES
    env,      \* APP_ENV, JWT_SECRET, and whether ADMIN_* are both set
    users,    \* the users table
    key,      \* what each process signs with, Nothing before it is resolved
    seeding,  \* how far seedAdmin has come
    client,   \* each client's last request, and the access token it holds
    faults,   \* how many queries have failed
    unseeded  \* history: a query of seedAdmin failed

vars == <<lifecycle, env, users, key, seeding, client, faults, unseeded>>

Maybe(S) == S \cup {Nothing}
Row(name, password, role) == [name |-> name, password |-> password, role |-> role]
Admin == Row(AdminName, AdminPassword, "admin")

Steps == {"idle", "lookup", "insert", "find", "save", "read", "write"}
Statuses == {200, 201, 204, 401, 403, 409, 500}

\* `user' is what the request names, then the row it has found; `status' is the
\* last answer, 204 standing for a write that was let through.
ClientStates == [at : Steps, user : Maybe(Rows), token : Maybe(Tokens), status : Maybe(Statuses)]
Idle(token, status) == [at |-> "idle", user |-> Nothing, token |-> token, status |-> status]

Taken(name) == \E u \in users : u.name = name

InitAccounts ==
    /\ env \in Environments
    /\ users = {}
    /\ key = [p \in Replicas |-> Nothing]
    /\ seeding = [p \in Replicas |-> "lookup"]
    /\ client = [c \in Clients |-> Idle(Nothing, Nothing)]
    /\ faults = 0
    /\ unseeded = FALSE

Init == InitProcesses /\ InitAccounts

Fault == faults < MaxFaults /\ faults' = faults + 1

-----------------------------------------------------------------------------
(***************************************************************************)
(* Boot.                                                                   *)
(***************************************************************************)
Boot(p) ==
    /\ Start(p)
    /\ UNCHANGED <<env, users, key, seeding, client, faults, unseeded>>

\* Slip (mutant): production starts without a secret, too.
SecretOrRandom(p) == IF env.secret # Nothing THEN env.secret ELSE boots

\* resolveJWTSecret: the secret of the environment, else a random one, but
\* not in production, where the process ends (Ends, below).
resolveJWTSecret(p) ==
    IF env.secret # Nothing THEN env.secret
    ELSE IF env.production THEN Nothing ELSE boots

ResolveSecret(p) ==
    /\ phase[p] = "booting" /\ key[p] = Nothing
    /\ resolveJWTSecret(p) # Nothing
    /\ key' = [key EXCEPT ![p] = resolveJWTSecret(p)]
    /\ UNCHANGED <<lifecycle, env, users, seeding, client, faults, unseeded>>

Seeds(p, step) ==
    /\ phase[p] = "booting" /\ key[p] # Nothing
    /\ seeding[p] = step
    /\ UNCHANGED <<lifecycle, env, key, client>>

SeedLookup(p) ==
    /\ Seeds(p, "lookup")
    /\ LET skip == ~env.seed \/ Taken(AdminName) \/ AdminPassword \in Unhashable
       IN  seeding' = [seeding EXCEPT ![p] = IF skip THEN "done" ELSE "insert"]
    /\ UNCHANGED <<users, faults, unseeded>>

\* Slip (mutant): the index on username is not unique.
CreateUserTwice(u) == users' = users \cup {u}

\* The UNIQUE index on username refuses the second of two inserts.
CreateUser(u) == users' = IF Taken(u.name) THEN users ELSE users \cup {u}

SeedInsert(p) ==
    /\ Seeds(p, "insert")
    /\ CreateUser(Admin)
    /\ seeding' = [seeding EXCEPT ![p] = "done"]
    /\ UNCHANGED <<faults, unseeded>>

\* A query fails: logged, and the server starts all the same.
SeedFails(p) ==
    /\ \E step \in {"lookup", "insert"} : Seeds(p, step)
    /\ Fault
    /\ seeding' = [seeding EXCEPT ![p] = "done"]
    /\ unseeded' = TRUE
    /\ UNCHANGED users

\* Slip (mutant): seedAdmin runs in a goroutine of its own.
ListensEarly(p) ==
    /\ key[p] # Nothing
    /\ Listen(p)
    /\ UNCHANGED <<env, users, key, seeding, client, faults, unseeded>>

Listens(p) ==
    /\ key[p] # Nothing /\ seeding[p] = "done"
    /\ Listen(p)
    /\ UNCHANGED <<env, users, key, seeding, client, faults, unseeded>>

Signals(p) ==
    /\ Notify(p) \/ Shutdown(p)
    /\ UNCHANGED <<env, users, key, seeding, client, faults, unseeded>>

\* The clients of the process get no answer.
Ends(p) ==
    /\ Stops(p)
    /\ key' = [key EXCEPT ![p] = Nothing]
    /\ seeding' = [seeding EXCEPT ![p] = "lookup"]
    /\ client' = [c \in Clients |->
          IF on[c] = p THEN Idle(client[c].token, Nothing) ELSE client[c]]
    /\ UNCHANGED <<env, users, faults, unseeded>>

-----------------------------------------------------------------------------
(***************************************************************************)
(* Requests.                                                               *)
(***************************************************************************)
Begins(c, p, step, user) ==
    /\ Accept(c, p)
    /\ client' = [client EXCEPT ![c] =
          [@ EXCEPT !.at = step, !.user = user, !.status = Nothing]]
    /\ UNCHANGED <<env, users, key, seeding, faults, unseeded>>

\* The body of /auth/register or /auth/login; a call carries the token only.
Posts(c, p) ==
    \E step \in {"lookup", "find"}, name \in Names, password \in Knows[c] :
       Begins(c, p, step, Row(name, password, "user"))

Calls(c, p) == \E step \in {"read", "write"} : Begins(c, p, step, Nothing)

At(c, step) == on[c] # Nothing /\ client[c].at = step

Replies(c, status) ==
    /\ Answer(c)
    /\ client' = [client EXCEPT ![c] = Idle(@.token, status)]

Proceeds(c, step, user) ==
    /\ client' = [client EXCEPT ![c] = [@ EXCEPT !.at = step, !.user = user]]
    /\ UNCHANGED lifecycle

RegisterLookup(c) ==
    LET u == client[c].user IN
    /\ At(c, "lookup")
    /\ \/ Taken(u.name) /\ Replies(c, 409)
       \/ ~Taken(u.name) /\ u.password \in Unhashable /\ Replies(c, 500)
       \/ ~Taken(u.name) /\ u.password \notin Unhashable /\ Proceeds(c, "insert", u)
    /\ UNCHANGED <<env, users, key, seeding, faults, unseeded>>

\* Slip (mutant): the insert ignores a conflict.
AlwaysCreated(u) == 201

\* A name taken since the lookup is an error like any other.
InsertStatus(u) == IF Taken(u.name) THEN 500 ELSE 201

RegisterInsert(c) ==
    LET u == client[c].user IN
    /\ At(c, "insert")
    /\ CreateUser(u)
    /\ Answer(c)
    /\ client' = [client EXCEPT ![c] = [@ EXCEPT !.at = "idle", !.status = InsertStatus(u)]]
    /\ UNCHANGED <<env, key, seeding, faults, unseeded>>

\* The row is inserted but the answer of the database is lost.
RegisterUnacknowledged(c) ==
    /\ At(c, "insert")
    /\ CreateUser(client[c].user)
    /\ Fault
    /\ Replies(c, 500)
    /\ UNCHANGED <<env, key, seeding, unseeded>>

\* Slip (mutant): the body's user is used in place of the row found.
MatchesBody(u) == {u}

\* Slip (mutant): the password is not compared.
MatchesName(u) == {v \in users : v.name = u.name}

Matches(u) == {v \in users : v.name = u.name /\ v.password = u.password}

LoginFind(c) ==
    /\ At(c, "find")
    /\ \/ Matches(client[c].user) = {} /\ Replies(c, 401)
       \/ \E u \in Matches(client[c].user) : Proceeds(c, "save", u)
    /\ UNCHANGED <<env, users, key, seeding, faults, unseeded>>

AccessToken(p, u) == [user |-> u, role |-> u.role, key |-> key[p]]

\* issueTokens: the access token leaves only if the refresh token was saved.
LoginSave(c) ==
    /\ At(c, "save")
    /\ Answer(c)
    /\ client' = [client EXCEPT ![c] = Idle(AccessToken(on[c], client[c].user), 200)]
    /\ UNCHANGED <<env, users, key, seeding, faults, unseeded>>

\* ParseAccessToken: there is one, not expired, signed with this process's secret.
Accepted(p, t) == t # Nothing /\ t.key = key[p]

\* Slip (mutant): the write group has only requireAuth.
RequireAuth(c) ==
    IF ~Accepted(on[c], client[c].token) THEN 401
    ELSE IF client[c].at = "write" THEN 204 ELSE 200

\* requireAuth, then requireAdmin for a write, then next(c).
RequireAdmin(c) ==
    LET t == client[c].token IN
    IF ~Accepted(on[c], t) THEN 401
    ELSE IF client[c].at = "read" THEN 200
    ELSE IF t.role = "admin" THEN 204 ELSE 403

Authorizes(c) ==
    /\ At(c, "read") \/ At(c, "write")
    /\ Replies(c, RequireAdmin(c))
    /\ UNCHANGED <<env, users, key, seeding, faults, unseeded>>

\* A query fails before it has any effect.
QueryFails(c) ==
    /\ \E step \in {"lookup", "insert", "find", "save"} : At(c, step)
    /\ Fault
    /\ Replies(c, 500)
    /\ UNCHANGED <<env, users, key, seeding, unseeded>>

\* The client goes away.
HangsUp(c) ==
    /\ Answer(c)
    /\ client' = [client EXCEPT ![c] = Idle(@.token, Nothing)]
    /\ UNCHANGED <<env, users, key, seeding, faults, unseeded>>

\* JWT_ACCESS_TTL is over; the token is then as good as none.
Expires(c) ==
    /\ on[c] = Nothing /\ client[c].token # Nothing
    /\ client' = [client EXCEPT ![c] = Idle(Nothing, Nothing)]
    /\ UNCHANGED <<lifecycle, env, users, key, seeding, faults, unseeded>>

-----------------------------------------------------------------------------
Process(p) ==
    \/ Boot(p) \/ ResolveSecret(p) \/ SeedLookup(p) \/ SeedInsert(p) \/ SeedFails(p)
    \/ Listens(p) \/ Signals(p) \/ Ends(p)

Handles(c) ==
    \/ RegisterLookup(c) \/ RegisterInsert(c) \/ RegisterUnacknowledged(c)
    \/ LoginFind(c) \/ LoginSave(c) \/ Authorizes(c) \/ QueryFails(c)

Next ==
    \/ \E p \in Replicas : Process(p)
    \/ \E c \in Clients, p \in Replicas : Posts(c, p) \/ Calls(c, p)
    \/ \E c \in Clients : Handles(c) \/ HangsUp(c) \/ Expires(c)

Spec == Init /\ [][Next]_vars

(***************************************************************************)
(* Only the runtime is fair: server.Shutdown returns when nothing is in    *)
(* flight or its context is done.  Requests, and queries, may hang.        *)
(***************************************************************************)
ShutdownReturns(p) == Ends(p) /\ (Drained(p) \/ Deadline(p))

FairSpec == Spec /\ \A p \in Replicas : WF_vars(ShutdownReturns(p))

-----------------------------------------------------------------------------
\* Type invariant; what is held by a request, a process and a token.
TypeOK ==
    /\ ProcessesTypeOK
    /\ env \in Environments
    /\ users \subseteq Rows
    /\ key \in [Replicas -> Maybe(Keys)]
    /\ seeding \in [Replicas -> {"lookup", "insert", "done"}]
    /\ client \in [Clients -> ClientStates]
    /\ faults \in 0 .. MaxFaults
    /\ unseeded \in BOOLEAN
    /\ \A p \in Replicas : phase[p] \in Up => key[p] # Nothing
    /\ \A c \in Clients : /\ client[c].at \in {"lookup", "insert", "find", "save"} => client[c].user # Nothing
                          /\ client[c].at = "save" => client[c].user \in users
                          /\ client[c].at = "idle" <=> on[c] = Nothing

(***************************************************************************)
(* models/user.go:31: one account per name, although register and          *)
(* seedAdmin look a name up in one query and take it in another.           *)
(***************************************************************************)
OneAccountPerName == \A u, v \in users : u.name = v.name => u = v

(***************************************************************************)
(* auth_handlers.go:70: 201 means that the account is there with the name  *)
(* and the password of this request, not those of one that raced with it.  *)
(***************************************************************************)
CreatedMeansYours ==
    \A c \in Clients :
       client[c].status = 201 => client[c].user \in users

(***************************************************************************)
(* README.md:99-100 and :127: only the seeded admin writes, whoever else   *)
(* registered or raced with the seed under its name.  A client whose write *)
(* was let through knows the admin's password.                             *)
(***************************************************************************)
OnlyAdminWrites ==
    \A c \in Clients :
       client[c].status = 204 => AdminPassword \in Knows[c]

(***************************************************************************)
(* README.md:127-129: with ADMIN_* set, the admin exists before any        *)
(* replica serves, whichever of them seeds it and whatever dies on the     *)
(* way, so nobody can register that name first.                            *)
(***************************************************************************)
AdminBeforeService ==
    env.seed /\ AdminPassword \notin Unhashable /\ ~unseeded =>
        \A p \in Replicas : phase[p] \in Up => Admin \in users

(***************************************************************************)
(* README.md:130-132: in production a token that has not expired is good   *)
(* on every replica, and after any of them was restarted.                  *)
(***************************************************************************)
GoodEverywhere ==
    env.production =>
        \A c \in Clients, p \in Replicas :
           client[c].token # Nothing /\ phase[p] \in Up =>
              Accepted(p, client[c].token)

-----------------------------------------------------------------------------
(***************************************************************************)
(* Refinement.  Until it is answered a request is what it asks for,        *)
(* however many queries it takes; a token is the account it stands for.    *)
(***************************************************************************)
Asked(state) ==
    IF state.at = "idle" THEN [to |-> "nothing"]
    ELSE IF state.at \in {"read", "write"} THEN [to |-> state.at]
    ELSE [to |-> IF state.at \in {"lookup", "insert"} THEN "register" ELSE "login",
          name |-> state.user.name, password |-> state.user.password]

Holder(token) == IF token = Nothing THEN Nothing ELSE token.user

asked   == [c \in Clients |-> Asked(client[c])]
answer  == [c \in Clients |-> client[c].status]
session == [c \in Clients |-> Holder(client[c].token)]
shared  == env.production

Book == INSTANCE AccountBook

(***************************************************************************)
(* auth_handlers.go:79-150, middleware.go:22-54: although a request is     *)
(* several queries, with those of others, seeds and restarts in between,   *)
(* each takes effect at one moment: the name it was given 201 for was free *)
(* then, a token stands for an account whose password the request had, and *)
(* in production a call is refused for want of a session or a role only.   *)
(***************************************************************************)
ImplementsBook == Book!Spec
=============================================================================
