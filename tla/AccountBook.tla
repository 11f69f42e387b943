---------------------------- MODULE AccountBook ----------------------------
(***************************************************************************)
(* What clients of the accounts are promised, without processes, queries   *)
(* or signatures: each request takes effect at one moment, or is given up; *)
(* a name is taken once, for good; a session stands for an account whose   *)
(* password was given, and what it may do follows from that account alone. *)
(* The rows and the bodies are those of Accounts.                          *)
(***************************************************************************)

CONSTANTS
    Clients,
    Names,    \* usernames
    Knows,    \* the passwords each client knows
    Admin,    \* the account that is seeded
    Nothing

VARIABLES
    users,    \* the accounts
    asked,    \* each client's request
    answer,   \* the last answer it was given
    session,  \* the account that its access token stands for
    shared    \* whether all processes sign with one secret

book == <<users, asked, answer, session, shared>>

None == [to |-> "nothing"]

\* register gives every account the role `user'.
NewUser(request) ==
    [name |-> request.name, password |-> request.password, role |-> "user"]

Free(name) == \A u \in users : u.name # name

Init ==
    /\ users = {}
    /\ asked = [c \in Clients |-> None]
    /\ answer = [c \in Clients |-> Nothing]
    /\ session = [c \in Clients |-> Nothing]
    /\ shared \in BOOLEAN

Requests(c) ==
    [to : {"register", "login"}, name : Names, password : Knows[c]] \cup [to : {"read", "write"}]

Ask(c) ==
    /\ asked[c] = None
    /\ \E request \in Requests(c) : asked' = [asked EXCEPT ![c] = request]
    /\ answer' = [answer EXCEPT ![c] = Nothing]
    /\ UNCHANGED <<users, session, shared>>

Asks(c, to) == asked[c].to = to

Answers(c, status) ==
    /\ asked' = [asked EXCEPT ![c] = None]
    /\ answer' = [answer EXCEPT ![c] = status]
    /\ UNCHANGED shared

\* 201 means that this request made the account; the answer may be lost.
Register(c) ==
    /\ Asks(c, "register")
    /\ \/ /\ Free(asked[c].name)
          /\ users' = users \cup {NewUser(asked[c])}
          /\ Answers(c, 201) \/ Answers(c, 500)
       \/ ~Free(asked[c].name) /\ Answers(c, 409) /\ UNCHANGED users
    /\ UNCHANGED session

Matching(request) == {u \in users : u.name = request.name /\ u.password = request.password}

Login(c) ==
    /\ Asks(c, "login")
    /\ \/ \E u \in Matching(asked[c]) : session' = [session EXCEPT ![c] = u] /\ Answers(c, 200)
       \/ Matching(asked[c]) = {} /\ Answers(c, 401) /\ UNCHANGED session
    /\ UNCHANGED users

\* A token may be refused by a process that signs with another secret.
Call(c) ==
    /\ \/ Asks(c, "read") /\ session[c] # Nothing /\ Answers(c, 200)
       \/ /\ Asks(c, "write") /\ session[c] # Nothing
          /\ Answers(c, IF session[c].role = "admin" THEN 204 ELSE 403)
       \/ /\ Asks(c, "read") \/ Asks(c, "write")
          /\ session[c] = Nothing \/ ~shared
          /\ Answers(c, 401)
    /\ UNCHANGED <<users, session>>

Fails(c) ==
    /\ Asks(c, "register") \/ Asks(c, "login")
    /\ Answers(c, 500)
    /\ UNCHANGED <<users, session>>

\* No answer comes: the client went away, or the process that served some.
GiveUp ==
    /\ UNCHANGED <<users, answer, session, shared>>
    /\ \E some \in SUBSET Clients :
          asked' = [c \in Clients |-> IF c \in some THEN None ELSE asked[c]]

\* The access token expires.
Lapse(c) ==
    /\ asked[c] = None
    /\ session' = [session EXCEPT ![c] = Nothing]
    /\ answer' = [answer EXCEPT ![c] = Nothing]
    /\ UNCHANGED <<users, asked, shared>>

Seed ==
    /\ Free(Admin.name)
    /\ users' = users \cup {Admin}
    /\ UNCHANGED <<asked, answer, session, shared>>

Next ==
    \/ GiveUp \/ Seed
    \/ \E c \in Clients :
          Ask(c) \/ Register(c) \/ Login(c) \/ Call(c) \/ Fails(c) \/ Lapse(c)

Spec == Init /\ [][Next]_book
=============================================================================
