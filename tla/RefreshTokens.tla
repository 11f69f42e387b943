--------------------------- MODULE RefreshTokens ---------------------------
(***************************************************************************)
(* Refresh tokens: login, refresh and logout of internal/api/auth_handlers *)
(* over the refresh_tokens table, the worker of cmd/api/main.go that       *)
(* deletes dead tokens, and the clock both read.  One action per query.    *)
(*                                                                         *)
(* Only what the handlers do to the table is modelled: a login that fails  *)
(* its credentials, or a body without a token, changes nothing.  A token   *)
(* and its hash are one value; 32 random bytes never repeat.               *)
(***************************************************************************)
EXTENDS Naturals, FiniteSets

CONSTANTS
    Tokens,    \* the refresh tokens that can be generated
    Requests,  \* the requests that can be in flight at the same time
    Ttl,       \* the validity of a refresh token
    MaxTime,   \* bound: the last instant of the clock
    Faults,    \* what may go wrong: "db" a query fails, "crash" the server dies,
               \* "abandon" a client goes away and its request is cancelled
    Nothing    \* nil

ASSUME TokensAssumption ==
    /\ Nothing \notin Tokens
    /\ Nothing \notin Nat
    /\ Nothing \notin [expires : Nat, revoked : BOOLEAN]

ASSUME TimeAssumption == Ttl \in Nat /\ MaxTime \in Nat

VARIABLES
    now,        \* the clock
    rows,       \* refresh_tokens by hash: [expires, revoked], Nothing if absent
    req,        \* the requests in flight
    cutoff,     \* the instant the purge in flight was called with, or Nothing
    born,       \* history: the tokens that were ever stored
    parent,     \* history: the token whose refresh issued this one
    loggedOut   \* history: the tokens a logout found unrevoked and revoked

history == <<born, parent, loggedOut>>
vars == <<now, rows, req, cutoff, born, parent, loggedOut>>

Maybe(S) == S \cup {Nothing}
Row == [expires : Nat, revoked : BOOLEAN]

Steps == {"idle", "find", "check", "user", "revokeExpired", "revoke", "generate",
          "save", "logout"}

\* `token' is the one the client presented (none for a login), `expires' the
\* expiry that was read, then the expiry of `fresh', the token being issued.
Request == [pc : Steps, token : Maybe(Tokens), expires : Maybe(Nat), fresh : Maybe(Tokens)]

Presents(step, t) == [pc |-> step, token |-> t, expires |-> Nothing, fresh |-> Nothing]
Idle == Presents("idle", Nothing)

Init ==
    /\ now = 0
    /\ rows = [t \in Tokens |-> Nothing]
    /\ req = [r \in Requests |-> Idle]
    /\ cutoff = Nothing
    /\ born = {}
    /\ parent = [t \in Tokens |-> Nothing]
    /\ loggedOut = {}

-----------------------------------------------------------------------------
At(r, step) == req[r].pc = step
Move(r, q)  == req' = [req EXCEPT ![r] = q]
Going(q, step, expires, fresh) ==
    [q EXCEPT !.pc = step, !.expires = expires, !.fresh = fresh]
GoTo(r, step) == Move(r, Going(req[r], step, req[r].expires, req[r].fresh))

Revoked(t) == rows[t] = Nothing \/ rows[t].revoked

\* UPDATE refresh_tokens SET revoked = true WHERE token_hash = ?: no row, or a
\* row already revoked, is no error.
RevokeRefreshToken(t) ==
    rows' = IF rows[t] = Nothing THEN rows
            ELSE [rows EXCEPT ![t] = [expires |-> @.expires, revoked |-> TRUE]]

\* mutant: the generator repeats itself when called by two requests at once.
UnusedRepeats == Tokens \ born

\* 32 bytes of crypto/rand: in no row, in no request and never stored.
Unused == Tokens \ (born \cup {req[r].fresh : r \in Requests})

-----------------------------------------------------------------------------
BeginLogin(r) ==
    /\ At(r, "idle")
    /\ Move(r, Presents("user", Nothing))
    /\ UNCHANGED <<now, rows, cutoff, history>>

\* A client can present any token it was ever given.
BeginRefresh(r) ==
    /\ At(r, "idle")
    /\ \E t \in born : Move(r, Presents("find", t))
    /\ UNCHANGED <<now, rows, cutoff, history>>

BeginLogout(r) ==
    /\ At(r, "idle")
    /\ \E t \in born : Move(r, Presents("logout", t))
    /\ UNCHANGED <<now, rows, cutoff, history>>

\* mutant: the query lost its condition on revoked.
FindAnyRefreshToken(r) ==
    LET t == req[r].token IN
    /\ At(r, "find")
    /\ Move(r, IF rows[t] = Nothing THEN Idle
               ELSE Going(req[r], "check", rows[t].expires, Nothing))
    /\ UNCHANGED <<now, rows, cutoff, history>>

FindRefreshToken(r) ==
    LET t == req[r].token IN
    /\ At(r, "find")
    /\ Move(r, IF Revoked(t) THEN Idle
               ELSE Going(req[r], "check", rows[t].expires, Nothing))
    /\ UNCHANGED <<now, rows, cutoff, history>>

\* time.Now().After(stored.ExpiresAt), read after the query has returned.
CheckExpiry(r) ==
    /\ At(r, "check")
    /\ GoTo(r, IF now > req[r].expires THEN "revokeExpired" ELSE "user")
    /\ UNCHANGED <<now, rows, cutoff, history>>

RevokeExpired(r) ==
    /\ At(r, "revokeExpired")
    /\ RevokeRefreshToken(req[r].token)
    /\ Move(r, Idle)
    /\ UNCHANGED <<now, cutoff, history>>

\* FindUserByID, or FindUserByUsername for a login; users are never removed.
FindUser(r) ==
    /\ At(r, "user")
    /\ GoTo(r, IF req[r].token = Nothing THEN "generate" ELSE "revoke")
    /\ UNCHANGED <<now, rows, cutoff, history>>

\* mutant: the rotation leaves the used token as it is.
RevokeSkipped(r) ==
    /\ At(r, "revoke")
    /\ GoTo(r, "generate")
    /\ UNCHANGED <<now, rows, cutoff, history>>

\* The rotation: the token that was used is revoked before a new one is issued.
Revoke(r) ==
    /\ At(r, "revoke")
    /\ RevokeRefreshToken(req[r].token)
    /\ GoTo(r, "generate")
    /\ UNCHANGED <<now, cutoff, history>>

GenerateRefreshToken(r) ==
    /\ At(r, "generate")
    /\ \E t \in Unused : Move(r, Going(req[r], "save", now + Ttl, t))
    /\ UNCHANGED <<now, rows, cutoff, history>>

SaveRefreshToken(r) ==
    LET q == req[r] IN
    /\ At(r, "save")
    /\ rows' = [rows EXCEPT ![q.fresh] = [expires |-> q.expires, revoked |-> FALSE]]
    /\ born' = born \cup {q.fresh}
    /\ parent' = [parent EXCEPT ![q.fresh] = q.token]
    /\ Move(r, Idle)
    /\ UNCHANGED <<now, cutoff, loggedOut>>

Logout(r) ==
    LET t == req[r].token IN
    /\ At(r, "logout")
    /\ RevokeRefreshToken(t)
    /\ loggedOut' = IF Revoked(t) THEN loggedOut ELSE loggedOut \cup {t}
    /\ Move(r, Idle)
    /\ UNCHANGED <<now, cutoff, born, parent>>

\* Every query may fail.  The handler answers an error and stops; the failure
\* of the revocation of an expired token is ignored, with the same outcome.
DbFails(r) ==
    /\ "db" \in Faults
    /\ req[r].pc \in Steps \ {"idle", "check", "generate"}
    /\ Move(r, Idle)
    /\ UNCHANGED <<now, rows, cutoff, history>>

\* The client is gone: the request's context is cancelled, no later query runs.
Abandon(r) ==
    /\ "abandon" \in Faults
    /\ ~At(r, "idle")
    /\ Move(r, Idle)
    /\ UNCHANGED <<now, rows, cutoff, history>>

-----------------------------------------------------------------------------
(***************************************************************************)
(* The worker: at a tick it reads the clock, then deletes with one query.  *)
(* A failed query is only logged; the worker waits for the next tick.      *)
(***************************************************************************)
PurgeTick ==
    /\ cutoff = Nothing
    /\ cutoff' = now
    /\ UNCHANGED <<now, rows, req, history>>

\* mutants: the comparison is off by one; revoked tokens are forgotten.
PurgeableEarly(t) == rows[t] # Nothing /\ (rows[t].expires <= cutoff \/ rows[t].revoked)
PurgeableExpired(t) == rows[t] # Nothing /\ rows[t].expires < cutoff

Purgeable(t) == rows[t] # Nothing /\ (rows[t].expires < cutoff \/ rows[t].revoked)

PurgeExpiredRefreshTokens ==
    /\ cutoff # Nothing
    /\ rows' = [t \in Tokens |-> IF Purgeable(t) THEN Nothing ELSE rows[t]]
    /\ cutoff' = Nothing
    /\ UNCHANGED <<now, req, history>>

PurgeFails ==
    /\ "db" \in Faults
    /\ cutoff # Nothing
    /\ cutoff' = Nothing
    /\ UNCHANGED <<now, rows, req, history>>

\* The process dies and is started again: whatever was in flight is gone.
Crash ==
    /\ "crash" \in Faults
    /\ req' = [r \in Requests |-> Idle]
    /\ cutoff' = Nothing
    /\ UNCHANGED <<now, rows, history>>

Tick ==
    /\ now < MaxTime
    /\ now' = now + 1
    /\ UNCHANGED <<rows, req, cutoff, history>>

-----------------------------------------------------------------------------
Refresh(r) == \/ BeginRefresh(r) \/ FindRefreshToken(r) \/ CheckExpiry(r)
              \/ RevokeExpired(r) \/ Revoke(r)
IssueTokens(r) == FindUser(r) \/ GenerateRefreshToken(r) \/ SaveRefreshToken(r)

Serve(r) == \/ BeginLogin(r) \/ Refresh(r) \/ IssueTokens(r) \/ BeginLogout(r) \/ Logout(r)
            \/ DbFails(r) \/ Abandon(r)

Purge == PurgeTick \/ PurgeExpiredRefreshTokens \/ PurgeFails

Next == (\E r \in Requests : Serve(r)) \/ Purge \/ Crash \/ Tick

Spec == Init /\ [][Next]_vars

(***************************************************************************)
(* The clock runs, the worker is scheduled at its ticks, and not every one *)
(* of its queries fails or is cut off by a crash.  Requests may stop.      *)
(***************************************************************************)
Fairness == WF_vars(Tick) /\ WF_vars(PurgeTick) /\ SF_vars(PurgeExpiredRefreshTokens)

FairSpec == Spec /\ Fairness

-----------------------------------------------------------------------------
(***************************************************************************)
(* Type invariant: ranges, and what each step needs from the ones before.  *)
(***************************************************************************)
HoldsWhatItUses(q) ==
    /\ q.token \in Maybe(born)
    /\ q.pc \in {"find", "check", "revokeExpired", "revoke", "logout"} => q.token # Nothing
    /\ q.pc = "check" => q.expires \in Nat
    /\ q.pc = "save" => q.expires \in Nat /\ q.fresh \in Tokens \ born

TypeOK ==
    /\ now \in 0 .. MaxTime
    /\ rows \in [Tokens -> Maybe(Row)]
    /\ req \in [Requests -> Request]
    /\ \A r \in Requests : HoldsWhatItUses(req[r])
    /\ cutoff \in Maybe(0 .. MaxTime)
    /\ born \subseteq Tokens
    /\ parent \in [Tokens -> Maybe(Tokens)]
    /\ loggedOut \subseteq born
    /\ \A t \in Tokens : rows[t] # Nothing => t \in born

(***************************************************************************)
(* auth_handlers.go:197: rotation revokes before it issues.  Whatever      *)
(* overlaps, fails or is cut off, the token that was traded for another    *)
(* is never usable next to it, nor at any time after.                      *)
(***************************************************************************)
ReplacedTokensAreDead ==
    \A t \in born : parent[t] # Nothing => Revoked(parent[t])

(***************************************************************************)
(* user.go:84-93: the purge takes no token a client could still use, even  *)
(* when the clock has moved on since the worker read it.                   *)
(***************************************************************************)
PurgeSparesUsable ==
    [][\A t \in Tokens : rows[t] # Nothing /\ rows'[t] = Nothing =>
          rows[t].revoked \/ rows[t].expires < now]_vars

(***************************************************************************)
(* README.md:133-134: a token that was used or logged out is refused from  *)
(* then on.  Once it is dead and the refreshes that had read it before are *)
(* over, nothing is issued for it again: not by a late or a lost request,  *)
(* not after the purge has removed its row, not after a restart.           *)
(***************************************************************************)
Over(t) ==
    /\ Revoked(t)
    /\ \A r \in Requests :
          req[r].pc \in {"check", "user", "revoke", "generate", "save"} => req[r].token # t

OverForGood == [][\A t \in born : Over(t) => Over(t)']_vars

(***************************************************************************)
(* auth_handlers.go:216: logout ends the session of the token it is given. *)
(* Nothing usable descends from a token that a logout has revoked.         *)
(***************************************************************************)
LogoutEndsSession ==
    \A t \in born : parent[t] \in loggedOut => Revoked(t)

(***************************************************************************)
(* README.md:134: dead tokens are deleted.  A token that was revoked, or   *)
(* that expires before the end of time, leaves the table for good.         *)
(***************************************************************************)
DeadTokensPurged ==
    \A t \in Tokens :
       (rows[t] # Nothing /\ (rows[t].revoked \/ rows[t].expires < MaxTime)) ~> [](rows[t] = Nothing)
=============================================================================
