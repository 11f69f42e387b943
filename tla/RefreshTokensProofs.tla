------------------------ MODULE RefreshTokensProofs ------------------------
(***************************************************************************)
(* Theorems about refresh tokens, for any number of tokens and requests,   *)
(* any validity, and whatever fails, dies or is abandoned.                 *)
(***************************************************************************)
EXTENDS RefreshTokens, TLAPS

\* Two requests never hold the same new token.
Distinct ==
    \A r, s \in Requests :
       r # s /\ At(r, "save") /\ At(s, "save") => req[r].fresh # req[s].fresh

\* A refresh that is about to issue has seen its own token die.
Spent ==
    \A r \in Requests :
       req[r].pc \in {"generate", "save"} /\ req[r].token # Nothing =>
          req[r].token \in born /\ Revoked(req[r].token)

ParentsBorn == \A t \in born : parent[t] # Nothing => parent[t] \in born

\* The worker's clock reading is never ahead of the clock.
CutoffPast == cutoff # Nothing => cutoff <= now

Inv == TypeOK /\ Distinct /\ Spent /\ ParentsBorn /\ ReplacedTokensAreDead /\ CutoffPast

-----------------------------------------------------------------------------
LEMMA PresentsType ==
    ASSUME NEW step \in Steps, NEW t \in Maybe(Tokens)
    PROVE  /\ Presents(step, t) \in Request
           /\ Presents(step, t).pc = step /\ Presents(step, t).token = t
           /\ Presents(step, t).expires = Nothing /\ Presents(step, t).fresh = Nothing
BY DEF Presents, Request, Maybe

LEMMA GoingType ==
    ASSUME NEW q \in Request, NEW step \in Steps,
           NEW expires \in Maybe(Nat), NEW fresh \in Maybe(Tokens)
    PROVE  /\ Going(q, step, expires, fresh) \in Request
           /\ Going(q, step, expires, fresh).pc = step
           /\ Going(q, step, expires, fresh).token = q.token
           /\ Going(q, step, expires, fresh).expires = expires
           /\ Going(q, step, expires, fresh).fresh = fresh
<1>1. Going(q, step, expires, fresh) \in Request
  BY Zenon DEF Going, Request
<1> QED
  BY <1>1 DEF Going, Request

LEMMA IdleType == Idle \in Request /\ Idle.pc = "idle" /\ Idle.token = Nothing
BY PresentsType DEF Idle, Steps, Maybe

\* What the fields of a request can be.
LEMMA RequestType ==
    ASSUME TypeOK, NEW r \in Requests
    PROVE  /\ req[r] \in Request /\ HoldsWhatItUses(req[r])
           /\ req[r].pc \in Steps /\ req[r].token \in Maybe(Tokens)
           /\ req[r].expires \in Maybe(Nat) /\ req[r].fresh \in Maybe(Tokens)
BY DEF TypeOK, Request

\* One request moves, the others stay.
LEMMA MoveType ==
    ASSUME TypeOK, NEW r \in Requests, NEW q \in Request, Move(r, q)
    PROVE  /\ req' \in [Requests -> Request]
           /\ req'[r] = q
           /\ \A s \in Requests : s # r => req'[s] = req[s]
BY DEF TypeOK, Move

\* A revocation keeps the table a table, and only ever revokes.
LEMMA RevokeType ==
    ASSUME TypeOK, NEW t \in Tokens, RevokeRefreshToken(t)
    PROVE  /\ rows' \in [Tokens -> Maybe(Row)]
           /\ rows'[t] = Nothing \/ rows'[t].revoked
           /\ \A u \in Tokens : rows'[u] = Nothing <=> rows[u] = Nothing
           /\ \A u \in Tokens : u # t => rows'[u] = rows[u]
<1>1. CASE rows[t] = Nothing
  BY <1>1 DEF RevokeRefreshToken, TypeOK
<1>2. CASE rows[t] # Nothing
  <2> DEFINE row == [expires |-> rows[t].expires, revoked |-> TRUE]
  <2>1. rows[t] \in Row
    BY <1>2 DEF TypeOK, Maybe
  <2>2. row \in Row /\ row.revoked
    BY <2>1 DEF Row
  <2>3. row # Nothing
    BY <2>2, TokensAssumption DEF Row
  <2>4. rows' = [rows EXCEPT ![t] = row]
    BY <1>2 DEF RevokeRefreshToken
  <2> HIDE DEF row
  <2> QED
    BY <1>2, <2>2, <2>3, <2>4 DEF TypeOK, Maybe
<1> QED
  BY <1>1, <1>2

-----------------------------------------------------------------------------
(***************************************************************************)
(* A step of a request that leaves the table alone.                        *)
(***************************************************************************)
LEMMA MoveInv ==
    ASSUME Inv, NEW r \in Requests, NEW q \in Request, Move(r, q),
           UNCHANGED <<now, rows, cutoff, history>>, HoldsWhatItUses(q),
           q.pc = "save" => \A s \in Requests : q.fresh # req[s].fresh,
           q.pc \in {"generate", "save"} /\ q.token # Nothing =>
              q.token \in born /\ Revoked(q.token)
    PROVE  Inv'
<1>1. /\ req' \in [Requests -> Request]
      /\ req'[r] = q
      /\ \A s \in Requests : s # r => req'[s] = req[s]
  BY MoveType DEF Inv
<1>2. now' = now /\ rows' = rows /\ cutoff' = cutoff
  OBVIOUS
<1>3. born' = born /\ parent' = parent /\ loggedOut' = loggedOut
  BY DEF history
<1>4. TypeOK'
  BY <1>1, <1>2, <1>3 DEF Inv, TypeOK, HoldsWhatItUses, Maybe
<1>5. Distinct'
  BY <1>1 DEF Inv, Distinct, At
<1>6. Spent'
  BY <1>1, <1>2, <1>3 DEF Inv, Spent, Revoked
<1>7. ParentsBorn' /\ ReplacedTokensAreDead' /\ CutoffPast'
  BY <1>2, <1>3 DEF Inv, ParentsBorn, ReplacedTokensAreDead, Revoked, CutoffPast
<1> QED
  BY <1>4, <1>5, <1>6, <1>7 DEF Inv

(***************************************************************************)
(* A step of a request that revokes a token.                               *)
(***************************************************************************)
LEMMA RevokeInv ==
    ASSUME Inv, NEW r \in Requests, NEW q \in Request, Move(r, q),
           NEW t \in born, RevokeRefreshToken(t),
           UNCHANGED <<now, cutoff, born, parent>>, loggedOut' \subseteq born,
           HoldsWhatItUses(q), q.pc # "save",
           q.pc = "generate" /\ q.token # Nothing => q.token = t
    PROVE  Inv'
<1>1. /\ req' \in [Requests -> Request]
      /\ req'[r] = q
      /\ \A s \in Requests : s # r => req'[s] = req[s]
  BY MoveType DEF Inv
<1>2. t \in Tokens /\ born \subseteq Tokens
  BY DEF Inv, TypeOK
<1>3. /\ rows' \in [Tokens -> Maybe(Row)]
      /\ rows'[t] = Nothing \/ rows'[t].revoked
      /\ \A u \in Tokens : rows'[u] = Nothing <=> rows[u] = Nothing
      /\ \A u \in Tokens : u # t => rows'[u] = rows[u]
  BY <1>2, RevokeType DEF Inv
<1>4. \A u \in Tokens : Revoked(u) \/ u = t => Revoked(u)'
  BY <1>3 DEF Revoked
<1>5. TypeOK'
  BY <1>1, <1>3 DEF Inv, TypeOK, HoldsWhatItUses, Maybe
<1>6. Distinct'
  BY <1>1 DEF Inv, Distinct, At
<1>7. Spent'
  BY <1>1, <1>2, <1>4 DEF Inv, Spent
<1>8. ParentsBorn' /\ ReplacedTokensAreDead' /\ CutoffPast'
  BY <1>2, <1>4 DEF Inv, ParentsBorn, ReplacedTokensAreDead, CutoffPast
<1> QED
  BY <1>5, <1>6, <1>7, <1>8 DEF Inv

(***************************************************************************)
(* The new token is stored: it is nobody's parent yet.                     *)
(***************************************************************************)
LEMMA SaveInv ==
    ASSUME Inv, NEW r \in Requests, SaveRefreshToken(r)
    PROVE  Inv'
<1> DEFINE q == req[r]
           row == [expires |-> q.expires, revoked |-> FALSE]
<1>1. /\ req' \in [Requests -> Request]
      /\ req'[r] = Idle
      /\ \A s \in Requests : s # r => req'[s] = req[s]
  BY MoveType, IdleType DEF Inv, SaveRefreshToken
<1>2. /\ q.pc = "save" /\ q.expires \in Nat /\ q.fresh \in Tokens \ born
      /\ q.token \in Maybe(Tokens)
  BY RequestType DEF Inv, SaveRefreshToken, At, HoldsWhatItUses
<1>3. row \in Row
  BY <1>2 DEF Row
<1>4. /\ rows' = [rows EXCEPT ![q.fresh] = row]
      /\ born' = born \cup {q.fresh}
      /\ parent' = [parent EXCEPT ![q.fresh] = q.token]
      /\ now' = now /\ cutoff' = cutoff /\ loggedOut' = loggedOut
  BY DEF SaveRefreshToken
<1>5. q.token # Nothing => q.token \in born /\ Revoked(q.token)
  BY <1>2 DEF Inv, Spent
<1> HIDE DEF row, q
<1>6. \A u \in born : Revoked(u) => Revoked(u)'
  BY <1>2, <1>4 DEF Inv, TypeOK, Revoked
<1>7. \A s \in Requests : req'[s].pc = "save" => req'[s].fresh # q.fresh
  BY <1>1, <1>2, IdleType DEF Inv, Distinct, At, q
<1>8. \A s \in Requests : HoldsWhatItUses(req[s])'
  <2> SUFFICES ASSUME NEW s \in Requests
               PROVE  HoldsWhatItUses(req[s])'
    OBVIOUS
  <2>1. CASE s = r
    BY <2>1, <1>1, IdleType DEF HoldsWhatItUses, Maybe
  <2>2. CASE s # r
    <3>1. HoldsWhatItUses(req[s]) /\ req'[s] = req[s]
      BY <2>2, <1>1, RequestType DEF Inv
    <3> QED
      BY <3>1, <1>4, <1>7 DEF HoldsWhatItUses, Maybe
  <2> QED
    BY <2>1, <2>2
<1>9. TypeOK'
  BY <1>1, <1>2, <1>3, <1>4, <1>8 DEF Inv, TypeOK, Maybe
<1>10. Distinct'
  BY <1>1, IdleType DEF Inv, Distinct, At
<1>11. Spent'
  <2> SUFFICES ASSUME NEW s \in Requests, req'[s].pc \in {"generate", "save"},
                      req'[s].token # Nothing
               PROVE  req'[s].token \in born' /\ Revoked(req[s].token)'
    BY DEF Spent
  <2>1. s # r /\ req'[s] = req[s]
    BY <1>1, IdleType
  <2>2. req[s].token \in born /\ Revoked(req[s].token)
    BY <2>1 DEF Inv, Spent
  <2>3. Revoked(req[s].token)'
    BY <2>1, <2>2, <1>6 DEF Revoked
  <2> QED
    BY <2>1, <2>2, <2>3, <1>4 DEF Revoked
<1>12. \A t \in born' : parent'[t] # Nothing => parent'[t] \in born /\ Revoked(parent'[t])
  BY <1>2, <1>4, <1>5 DEF Inv, TypeOK, ParentsBorn, ReplacedTokensAreDead
<1>13. ParentsBorn' /\ ReplacedTokensAreDead'
  BY <1>4, <1>6, <1>12 DEF ParentsBorn, ReplacedTokensAreDead, Revoked
<1>14. CutoffPast'
  BY <1>4 DEF Inv, CutoffPast
<1> QED
  BY <1>9, <1>10, <1>11, <1>13, <1>14 DEF Inv

-----------------------------------------------------------------------------
(***************************************************************************)
(* The steps of the worker, of the clock, and the death of the process.    *)
(***************************************************************************)
LEMMA SystemInv ==
    ASSUME Inv, Purge \/ Crash \/ Tick
    PROVE  Inv'
<1>1. CASE PurgeTick
  <2>1. TypeOK'
    BY <1>1 DEF Inv, TypeOK, PurgeTick, history, HoldsWhatItUses, Maybe
  <2> QED
    BY <1>1, <2>1 DEF Inv, TypeOK, PurgeTick, history, Distinct, At, Spent, Revoked,
                      ParentsBorn, ReplacedTokensAreDead, CutoffPast
<1>2. CASE PurgeExpiredRefreshTokens
  <2>1. /\ rows' \in [Tokens -> Maybe(Row)]
        /\ \A t \in Tokens : rows'[t] = rows[t] \/ rows'[t] = Nothing
    BY <1>2 DEF PurgeExpiredRefreshTokens, Inv, TypeOK, Maybe
  <2>2. \A t \in Tokens : Revoked(t) => Revoked(t)'
    BY <2>1 DEF Revoked
  <2>3. /\ now' = now /\ req' = req /\ cutoff' = Nothing
        /\ born' = born /\ parent' = parent /\ loggedOut' = loggedOut
    BY <1>2 DEF PurgeExpiredRefreshTokens, history
  <2>4. TypeOK'
    BY <2>1, <2>3 DEF Inv, TypeOK, HoldsWhatItUses, Maybe
  <2>5. born \subseteq Tokens
    BY DEF Inv, TypeOK
  <2>6. Spent' /\ ReplacedTokensAreDead'
    BY <2>2, <2>3, <2>5 DEF Inv, Spent, ParentsBorn, ReplacedTokensAreDead
  <2> QED
    BY <2>3, <2>4, <2>6 DEF Inv, Distinct, At, ParentsBorn, CutoffPast
<1>3. CASE PurgeFails
  <2>1. TypeOK'
    BY <1>3 DEF Inv, TypeOK, PurgeFails, history, HoldsWhatItUses, Maybe
  <2> QED
    BY <1>3, <2>1 DEF Inv, PurgeFails, history, Distinct, At, Spent, Revoked,
                      ParentsBorn, ReplacedTokensAreDead, CutoffPast
<1>4. CASE Crash
  <2>1. /\ req' \in [Requests -> Request]
        /\ \A r \in Requests : req'[r].pc = "idle" /\ req'[r].token = Nothing
    BY <1>4, IdleType DEF Crash
  <2>2. /\ now' = now /\ rows' = rows /\ cutoff' = Nothing
        /\ born' = born /\ parent' = parent /\ loggedOut' = loggedOut
    BY <1>4 DEF Crash, history
  <2>3. TypeOK'
    BY <2>1, <2>2 DEF Inv, TypeOK, HoldsWhatItUses, Maybe
  <2> QED
    BY <2>1, <2>2, <2>3 DEF Inv, Distinct, At, Spent, Revoked, ParentsBorn,
                            ReplacedTokensAreDead, CutoffPast
<1>5. CASE Tick
  <2>1. now' \in 0 .. MaxTime /\ now' >= now
    BY <1>5, TimeAssumption DEF Tick, Inv, TypeOK
  <2>2. /\ rows' = rows /\ req' = req /\ cutoff' = cutoff
        /\ born' = born /\ parent' = parent /\ loggedOut' = loggedOut
    BY <1>5 DEF Tick, history
  <2>3. TypeOK'
    BY <2>1, <2>2 DEF Inv, TypeOK, HoldsWhatItUses, Maybe
  <2>4. CutoffPast'
    BY <2>1, <2>2, TimeAssumption DEF Inv, TypeOK, CutoffPast, Maybe
  <2> QED
    BY <2>2, <2>3, <2>4 DEF Inv, Distinct, At, Spent, Revoked, ParentsBorn,
                            ReplacedTokensAreDead
<1> QED
  BY <1>1, <1>2, <1>3, <1>4, <1>5 DEF Purge

-----------------------------------------------------------------------------
(***************************************************************************)
(* Every step of a request falls under one of the lemmas above.            *)
(***************************************************************************)
LEMMA BeginInv ==
    ASSUME Inv, NEW r \in Requests, BeginLogin(r) \/ BeginRefresh(r) \/ BeginLogout(r)
    PROVE  Inv'
<1>0. {"user", "find", "logout"} \subseteq Steps
  BY DEF Steps
<1>1. CASE BeginLogin(r)
  <2> DEFINE q == Presents("user", Nothing)
  <2>1. q \in Request /\ q.pc = "user" /\ q.token = Nothing
    BY <1>0, PresentsType DEF Maybe
  <2>2. Move(r, q) /\ UNCHANGED <<now, rows, cutoff, history>>
    BY <1>1 DEF BeginLogin
  <2> HIDE DEF q
  <2>3. HoldsWhatItUses(q)
    BY <2>1, TokensAssumption DEF HoldsWhatItUses, Maybe, Inv, TypeOK
  <2> QED
    BY <2>1, <2>2, <2>3, MoveInv
<1>2. ASSUME NEW t \in born, NEW step \in {"find", "logout"},
             Move(r, Presents(step, t)), UNCHANGED <<now, rows, cutoff, history>>
      PROVE  Inv'
  <2> DEFINE q == Presents(step, t)
  <2>1. q \in Request /\ q.pc = step /\ q.token = t
    BY <1>0, PresentsType DEF Maybe, Inv, TypeOK
  <2>2. Move(r, q)
    BY <1>2
  <2> HIDE DEF q
  <2>3. HoldsWhatItUses(q)
    BY <2>1, TokensAssumption DEF HoldsWhatItUses, Maybe, Inv, TypeOK
  <2> QED
    BY <1>2, <2>1, <2>2, <2>3, MoveInv
<1> QED
  BY <1>1, <1>2 DEF BeginRefresh, BeginLogout

LEMMA StopInv ==
    ASSUME Inv, NEW r \in Requests, Move(r, Idle),
           UNCHANGED <<now, rows, cutoff, history>>
    PROVE  Inv'
<1>1. HoldsWhatItUses(Idle)
  BY IdleType DEF HoldsWhatItUses, Maybe
<1> QED
  BY <1>1, IdleType, MoveInv

LEMMA FindInv ==
    ASSUME Inv, NEW r \in Requests, FindRefreshToken(r)
    PROVE  Inv'
<1> DEFINE t == req[r].token
           q == Going(req[r], "check", rows[t].expires, Nothing)
<1>1. CASE Revoked(t)
  BY <1>1, StopInv DEF FindRefreshToken
<1>2. CASE ~Revoked(t)
  <2>1. t \in born /\ t \in Tokens
    BY RequestType DEF FindRefreshToken, At, HoldsWhatItUses, Maybe, Inv, TypeOK
  <2>2. rows[t].expires \in Nat
    BY <1>2, <2>1 DEF Revoked, Inv, TypeOK, Maybe, Row
  <2>3. /\ q \in Request /\ q.pc = "check"
        /\ q.token = t /\ q.expires = rows[t].expires
    BY <2>2, GoingType, RequestType DEF Inv, Steps, Maybe
  <2>4. Move(r, q) /\ UNCHANGED <<now, rows, cutoff, history>>
    BY <1>2 DEF FindRefreshToken
  <2> HIDE DEF q
  <2>5. HoldsWhatItUses(q)
    BY <2>1, <2>2, <2>3, TokensAssumption DEF HoldsWhatItUses, Maybe, Inv, TypeOK
  <2> QED
    BY <2>3, <2>4, <2>5, MoveInv
<1> QED
  BY <1>1, <1>2

\* Moves that only change the step: the expiry check and the user's lookup.
LEMMA GoToInv ==
    ASSUME Inv, NEW r \in Requests, CheckExpiry(r) \/ FindUser(r)
    PROVE  Inv'
<1>1. PICK step \in {"revokeExpired", "user", "revoke", "generate"} :
         /\ GoTo(r, step)
         /\ step \in {"revokeExpired", "revoke"} => req[r].token \in born
         /\ step = "generate" => req[r].token = Nothing
  <2>1. CASE CheckExpiry(r)
    <3>1. req[r].token \in born
      BY <2>1, RequestType DEF CheckExpiry, At, HoldsWhatItUses, Maybe, Inv
    <3> QED
      BY <2>1, <3>1 DEF CheckExpiry
  <2>2. CASE FindUser(r)
    <3>1. req[r].token # Nothing => req[r].token \in born
      BY <2>2, RequestType DEF FindUser, At, HoldsWhatItUses, Maybe, Inv
    <3> QED
      BY <2>2, <3>1 DEF FindUser
  <2> QED
    BY <2>1, <2>2
<1> DEFINE q == Going(req[r], step, req[r].expires, req[r].fresh)
<1>2. q \in Request /\ q.pc = step /\ q.token = req[r].token
  <2>1. step \in Steps
    BY DEF Steps
  <2> QED
    BY <2>1, GoingType, RequestType DEF Inv
<1>3. Move(r, q) /\ UNCHANGED <<now, rows, cutoff, history>>
  BY <1>1 DEF GoTo, CheckExpiry, FindUser
<1> HIDE DEF q
<1>4. HoldsWhatItUses(q)
  BY <1>1, <1>2, TokensAssumption DEF HoldsWhatItUses, Maybe, Inv, TypeOK
<1> QED
  BY <1>1, <1>2, <1>3, <1>4, MoveInv

LEMMA GenerateInv ==
    ASSUME Inv, NEW r \in Requests, GenerateRefreshToken(r)
    PROVE  Inv'
<1>1. PICK t \in Unused : Move(r, Going(req[r], "save", now + Ttl, t))
  BY DEF GenerateRefreshToken
<1> DEFINE q == Going(req[r], "save", now + Ttl, t)
<1>2. t \in Tokens \ born /\ \A s \in Requests : t # req[s].fresh
  BY DEF Unused
<1>3. now + Ttl \in Nat
  BY TimeAssumption DEF Inv, TypeOK
<1>4. /\ q \in Request /\ q.pc = "save" /\ q.token = req[r].token
      /\ q.expires = now + Ttl /\ q.fresh = t
  <2>1. "save" \in Steps /\ now + Ttl \in Maybe(Nat) /\ t \in Maybe(Tokens)
    BY <1>2, <1>3 DEF Steps, Maybe
  <2> QED
    BY <2>1, GoingType, RequestType DEF Inv
<1>5. Move(r, q) /\ UNCHANGED <<now, rows, cutoff, history>>
  BY <1>1 DEF GenerateRefreshToken
<1>6. req[r].token # Nothing => req[r].token \in born /\ Revoked(req[r].token)
  BY DEF GenerateRefreshToken, At, Inv, Spent
<1> HIDE DEF q
<1>7. HoldsWhatItUses(q)
  BY <1>2, <1>3, <1>4, <1>6 DEF HoldsWhatItUses, Maybe
<1> QED
  BY <1>2, <1>4, <1>5, <1>6, <1>7, MoveInv

\* The three places that revoke.
LEMMA RevocationsInv ==
    ASSUME Inv, NEW r \in Requests, RevokeExpired(r) \/ Revoke(r) \/ Logout(r)
    PROVE  Inv'
<1> DEFINE t == req[r].token
<1>1. HoldsWhatItUses(Idle)
  BY IdleType DEF HoldsWhatItUses, Maybe
<1>2. CASE RevokeExpired(r)
  <2>1. t \in born /\ loggedOut' \subseteq born
    BY <1>2, RequestType DEF RevokeExpired, At, HoldsWhatItUses, Maybe, Inv, TypeOK, history
  <2> QED
    BY <1>1, <1>2, <2>1, IdleType, RevokeInv DEF RevokeExpired, history
<1>3. CASE Logout(r)
  <2>1. t \in born
    BY <1>3, RequestType DEF Logout, At, HoldsWhatItUses, Maybe, Inv
  <2>2. loggedOut' \subseteq born
    BY <1>3, <2>1 DEF Logout, Inv, TypeOK
  <2> QED
    BY <1>1, <1>3, <2>1, <2>2, IdleType, RevokeInv DEF Logout
<1>4. CASE Revoke(r)
  <2> DEFINE q == Going(req[r], "generate", req[r].expires, req[r].fresh)
  <2>1. t \in born /\ loggedOut' \subseteq born
    BY <1>4, RequestType DEF Revoke, At, HoldsWhatItUses, Maybe, Inv, TypeOK, history
  <2>2. q \in Request /\ q.pc = "generate" /\ q.token = t
    <3>1. "generate" \in Steps
      BY DEF Steps
    <3> QED
      BY <3>1, GoingType, RequestType DEF Inv
  <2>3. /\ Move(r, q) /\ RevokeRefreshToken(t)
        /\ UNCHANGED <<now, cutoff, born, parent>>
    BY <1>4 DEF Revoke, GoTo, history
  <2> HIDE DEF q
  <2>4. HoldsWhatItUses(q)
    BY <2>1, <2>2 DEF HoldsWhatItUses, Maybe
  <2> QED
    BY <2>1, <2>2, <2>3, <2>4, RevokeInv
<1> QED
  BY <1>2, <1>3, <1>4

-----------------------------------------------------------------------------
LEMMA InvInit == Init => Inv
<1> SUFFICES ASSUME Init PROVE Inv
  OBVIOUS
<1>1. \A r \in Requests : req[r] = Idle
  BY DEF Init
<1>2. TypeOK
  BY <1>1, IdleType, TimeAssumption DEF Init, TypeOK, HoldsWhatItUses, Maybe
<1> QED
  BY <1>1, <1>2, IdleType DEF Init, Inv, Distinct, At, Spent, ParentsBorn,
                              ReplacedTokensAreDead, CutoffPast

LEMMA InvNext == Inv /\ [Next]_vars => Inv'
<1> SUFFICES ASSUME Inv, [Next]_vars PROVE Inv'
  OBVIOUS
<1>1. ASSUME NEW r \in Requests, Serve(r) PROVE Inv'
  <2>1. CASE BeginLogin(r) \/ BeginRefresh(r) \/ BeginLogout(r)
    BY <2>1, BeginInv
  <2>2. CASE FindRefreshToken(r)
    BY <2>2, FindInv
  <2>3. CASE CheckExpiry(r) \/ FindUser(r)
    BY <2>3, GoToInv
  <2>4. CASE RevokeExpired(r) \/ Revoke(r) \/ Logout(r)
    BY <2>4, RevocationsInv
  <2>5. CASE GenerateRefreshToken(r)
    BY <2>5, GenerateInv
  <2>6. CASE SaveRefreshToken(r)
    BY <2>6, SaveInv
  <2>7. CASE DbFails(r) \/ Abandon(r)
    BY <2>7, StopInv DEF DbFails, Abandon
  <2> QED
    BY <1>1, <2>1, <2>2, <2>3, <2>4, <2>5, <2>6, <2>7 DEF Serve, Refresh, IssueTokens
<1>2. CASE Purge \/ Crash \/ Tick
  BY <1>2, SystemInv
<1>3. CASE UNCHANGED vars
  BY <1>3 DEF vars, history, Inv, TypeOK, HoldsWhatItUses, Distinct, At, Spent, Revoked,
              ParentsBorn, ReplacedTokensAreDead, CutoffPast
<1> QED
  BY <1>1, <1>2, <1>3 DEF Next

LEMMA Invariance == Spec => []Inv
BY InvInit, InvNext, PTL DEF Spec

(***************************************************************************)
(* Every state of every execution is well-typed, and a request holds what  *)
(* its next step reads (auth_handlers.go:166-262).                         *)
(***************************************************************************)
THEOREM TokensTypeCorrectness == Spec => []TypeOK
<1>1. Inv => TypeOK
  BY DEF Inv
<1> QED
  BY <1>1, Invariance, PTL

(***************************************************************************)
(* A token that was traded is never usable again, although refreshes of    *)
(* the same token, logouts, the purge, failures and restarts interleave    *)
(* between the queries of auth_handlers.go:178-204.                        *)
(***************************************************************************)
THEOREM Rotation == Spec => []ReplacedTokensAreDead
<1>1. Inv => ReplacedTokensAreDead
  BY DEF Inv
<1> QED
  BY <1>1, Invariance, PTL

(***************************************************************************)
(* The worker deletes no usable token (user.go:87-93 with the time read at *)
(* main.go:97), however long the query takes to start, and nothing else    *)
(* deletes any.                                                            *)
(***************************************************************************)
THEOREM PurgeIsSafe == Spec => PurgeSparesUsable
<1> DEFINE Spares(t) == rows[t] # Nothing /\ rows'[t] = Nothing =>
                           rows[t].revoked \/ rows[t].expires < now
<1>1. ASSUME Inv, [Next]_vars, NEW t \in Tokens
      PROVE  Spares(t)
  <2>1. CASE PurgeExpiredRefreshTokens
    <3>1. SUFFICES ASSUME rows[t] # Nothing, rows'[t] = Nothing
                   PROVE  rows[t].revoked \/ rows[t].expires < now
      OBVIOUS
    <3>2. Purgeable(t)
      BY <2>1, <3>1 DEF PurgeExpiredRefreshTokens
    <3>3. rows[t].expires \in Nat /\ now \in Nat
      BY <1>1, <3>1 DEF Inv, TypeOK, Maybe, Row
    <3>4. cutoff \in Nat /\ cutoff <= now
      BY <1>1, <2>1, TimeAssumption DEF Inv, TypeOK, CutoffPast, PurgeExpiredRefreshTokens, Maybe
    <3> QED
      BY <3>2, <3>3, <3>4 DEF Purgeable
  <2>2. ASSUME NEW r \in Requests, RevokeExpired(r) \/ Revoke(r) \/ Logout(r)
        PROVE  Spares(t)
    <3>1. req[r].token \in Tokens
      BY <1>1, <2>2, RequestType
         DEF RevokeExpired, Revoke, Logout, At, HoldsWhatItUses, Maybe, Inv, TypeOK
    <3> QED
      BY <1>1, <2>2, <3>1, RevokeType DEF RevokeExpired, Revoke, Logout, Inv
  <2>3. ASSUME NEW r \in Requests, SaveRefreshToken(r)
        PROVE  Spares(t)
    <3> DEFINE row == [expires |-> req[r].expires, revoked |-> FALSE]
    <3>1. req[r].expires \in Nat
      BY <1>1, <2>3, RequestType DEF SaveRefreshToken, At, HoldsWhatItUses, Inv
    <3>2. row # Nothing
      <4>1. row \in Row
        BY <3>1 DEF Row
      <4> HIDE DEF row
      <4> QED
        BY <4>1, TokensAssumption DEF Row
    <3>3. rows' = [rows EXCEPT ![req[r].fresh] = row]
      BY <2>3 DEF SaveRefreshToken
    <3> HIDE DEF row
    <3> QED
      BY <1>1, <3>2, <3>3 DEF Inv, TypeOK
  <2>4. CASE rows' = rows
    BY <2>4
  <2> QED
    BY <1>1, <2>1, <2>2, <2>3, <2>4
       DEF Next, Serve, Refresh, IssueTokens, Purge, BeginLogin, BeginRefresh, BeginLogout,
           FindRefreshToken, CheckExpiry, FindUser, GenerateRefreshToken, DbFails, Abandon,
           PurgeTick, PurgeFails, Crash, Tick, vars
<1>2. Inv /\ [Next]_vars => [\A t \in Tokens : Spares(t)]_vars
  BY <1>1
<1> QED
  BY <1>2, Invariance, PTL DEF Spec, PurgeSparesUsable

-----------------------------------------------------------------------------
\* Request q has read the row of t and may yet issue a token for it.
Held(q, t) == q.pc \in {"check", "user", "revoke", "generate", "save"} /\ q.token = t

\* A stored token only ever gets revoked or deleted.
LEMMA DeadStayDead ==
    ASSUME Inv, [Next]_vars, NEW t \in born, Revoked(t)
    PROVE  Revoked(t)'
<1>1. t \in Tokens
  BY DEF Inv, TypeOK
<1>2. rows'[t] = rows[t] \/ rows'[t] = Nothing \/ rows'[t].revoked
  <2>1. CASE PurgeExpiredRefreshTokens
    BY <1>1, <2>1 DEF PurgeExpiredRefreshTokens
  <2>2. ASSUME NEW r \in Requests, RevokeExpired(r) \/ Revoke(r) \/ Logout(r)
        PROVE  rows'[t] = rows[t] \/ rows'[t].revoked \/ rows'[t] = Nothing
    <3>1. req[r].token \in Tokens
      BY <2>2, RequestType
         DEF RevokeExpired, Revoke, Logout, At, HoldsWhatItUses, Maybe, Inv, TypeOK
    <3> QED
      BY <1>1, <2>2, <3>1, RevokeType DEF RevokeExpired, Revoke, Logout, Inv
  <2>3. ASSUME NEW r \in Requests, SaveRefreshToken(r)
        PROVE  rows'[t] = rows[t]
    <3>1. req[r].fresh # t
      BY <2>3, RequestType DEF SaveRefreshToken, At, HoldsWhatItUses, Inv
    <3> QED
      BY <1>1, <2>3, <3>1 DEF SaveRefreshToken, Inv, TypeOK
  <2>4. CASE rows' = rows
    BY <2>4
  <2> QED
    BY <2>1, <2>2, <2>3, <2>4
       DEF Next, Serve, Refresh, IssueTokens, Purge, BeginLogin, BeginRefresh, BeginLogout,
           FindRefreshToken, CheckExpiry, FindUser, GenerateRefreshToken, DbFails, Abandon,
           PurgeTick, PurgeFails, Crash, Tick, vars
<1> QED
  BY <1>2 DEF Revoked

\* The lookup is the only way to a token, and it refuses the dead.
LEMMA OnlyFindHolds ==
    ASSUME Inv, [Next]_vars, NEW r \in Requests, NEW t \in born,
           ~Held(req[r], t), Held(req'[r], t)
    PROVE  FindRefreshToken(r) /\ ~Revoked(t)
<1>1. t # Nothing
  BY TokensAssumption DEF Inv, TypeOK
<1>2. req'[r] # req[r] /\ req'[r] # Idle
  BY IdleType DEF Held
<1>3. CASE \E step \in {"user", "find", "logout"}, u \in Maybe(Tokens) :
              req'[r] = Presents(step, u) /\ (step = "user" => u = Nothing)
  BY <1>1, <1>3, PresentsType DEF Held, Steps
<1>4. CASE FindRefreshToken(r) /\ ~Revoked(req[r].token)
  <2>1. rows[req[r].token].expires \in Nat
    BY <1>4, RequestType DEF FindRefreshToken, At, HoldsWhatItUses, Revoked, Inv, TypeOK, Maybe, Row
  <2>2. "check" \in Steps /\ Nothing \in Maybe(Tokens)
          /\ rows[req[r].token].expires \in Maybe(Nat)
    BY <2>1 DEF Steps, Maybe
  <2>3. req'[r] = Going(req[r], "check", rows[req[r].token].expires, Nothing)
    BY <1>4 DEF FindRefreshToken, Move, Inv, TypeOK
  <2>4. req'[r].token = req[r].token
    BY <2>2, <2>3, GoingType, RequestType DEF Inv
  <2> QED
    BY <1>4, <2>4 DEF Held
<1>5. CASE \E step \in Steps, e \in Maybe(Nat), f \in Maybe(Tokens) :
              /\ req'[r] = Going(req[r], step, e, f)
              /\ req[r].pc \in {"check", "user", "revoke", "generate"}
  BY <1>5, GoingType, RequestType DEF Held, Inv
<1>6. ASSUME NEW s \in Requests, Serve(s)
      PROVE  \/ req'[r] = req[r] \/ req'[r] = Idle
             \/ \E step \in {"user", "find", "logout"}, u \in Maybe(Tokens) :
                   req'[r] = Presents(step, u) /\ (step = "user" => u = Nothing)
             \/ FindRefreshToken(r) /\ ~Revoked(req[r].token)
             \/ \E step \in Steps, e \in Maybe(Nat), f \in Maybe(Tokens) :
                   /\ req'[r] = Going(req[r], step, e, f)
                   /\ req[r].pc \in {"check", "user", "revoke", "generate"}
  <2>1. \A q : Move(s, q) => req'[r] = IF r = s THEN q ELSE req[r]
    BY DEF Move, Inv, TypeOK
  <2>2. req[r].expires \in Maybe(Nat) /\ req[r].fresh \in Maybe(Tokens)
    BY RequestType DEF Inv
  <2>3. CASE BeginLogin(s) \/ BeginRefresh(s) \/ BeginLogout(s)
    BY <2>1, <2>3 DEF BeginLogin, BeginRefresh, BeginLogout, Maybe, Inv, TypeOK
  <2>4. CASE FindRefreshToken(s)
    BY <2>1, <2>4 DEF FindRefreshToken
  <2>5. CASE CheckExpiry(s) \/ FindUser(s) \/ Revoke(s)
    BY <2>1, <2>2, <2>5 DEF CheckExpiry, FindUser, Revoke, GoTo, At, Steps
  <2>6. CASE GenerateRefreshToken(s)
    <3>1. now + Ttl \in Maybe(Nat)
      BY TimeAssumption DEF Inv, TypeOK, Maybe
    <3> QED
      BY <2>1, <2>6, <3>1 DEF GenerateRefreshToken, Unused, At, Steps, Maybe
  <2>7. CASE RevokeExpired(s) \/ Logout(s) \/ SaveRefreshToken(s) \/ DbFails(s) \/ Abandon(s)
    BY <2>1, <2>7 DEF RevokeExpired, Logout, SaveRefreshToken, DbFails, Abandon
  <2> QED
    BY <1>6, <2>3, <2>4, <2>5, <2>6, <2>7 DEF Serve, Refresh, IssueTokens
<1>7. CASE Purge \/ Crash \/ Tick \/ UNCHANGED vars
  BY <1>2, <1>7 DEF Purge, PurgeTick, PurgeExpiredRefreshTokens, PurgeFails, Crash, Tick, vars
<1> QED
  BY <1>2, <1>3, <1>4, <1>5, <1>6, <1>7 DEF Next

(***************************************************************************)
(* A token that is dead and that no refresh holds any more stays that way: *)
(* FindRefreshToken's "revoked = false" (user.go:65) is the only gate, and *)
(* it is enough.                                                           *)
(***************************************************************************)
THEOREM OverIsForGood == Spec => OverForGood
<1> DEFINE Stays(t) == Over(t) => Over(t)'
<1>1. ASSUME Inv, [Next]_vars, NEW t \in born, Over(t)
      PROVE  Over(t)'
  <2>1. Revoked(t) /\ \A r \in Requests : ~Held(req[r], t)
    BY <1>1 DEF Over, Held
  <2>2. Revoked(t)'
    BY <1>1, <2>1, DeadStayDead
  <2>3. \A r \in Requests : ~Held(req'[r], t)
    BY <1>1, <2>1, OnlyFindHolds
  <2> QED
    BY <2>2, <2>3 DEF Over, Held
<1>2. Inv /\ [Next]_vars => [\A t \in born : Stays(t)]_vars
  BY <1>1
<1> QED
  BY <1>2, Invariance, PTL DEF Spec, OverForGood

-----------------------------------------------------------------------------
(***************************************************************************)
(* Logout.  LogoutEndsSession fails when a logout commits between the      *)
(* lookup of a refresh of the same token and its save.  It fails in no     *)
(* other way: with that one race excluded, whatever else overlaps, fails   *)
(* or dies, what a logout has revoked never has a successor.               *)
(***************************************************************************)
Raced(r) == \E s \in Requests : Held(req[s], req[r].token)

LogoutsApart == [][\A r \in Requests : Logout(r) => ~Raced(r)]_vars

\* A token that was logged out is dead, has no successor, and nobody is about
\* to give it one.
OutForGood ==
    /\ \A t \in loggedOut : Revoked(t)
    /\ \A t \in born : parent[t] \notin loggedOut
    /\ \A t \in loggedOut, r \in Requests : ~Held(req[r], t)

\* What a step does to the tokens that are logged out.
LEMMA LogoutsStep ==
    ASSUME Inv, [Next]_vars, loggedOut' # loggedOut
    PROVE  \E r \in Requests, t \in born :
              /\ Logout(r) /\ t = req[r].token /\ ~Revoked(t)
              /\ loggedOut' = loggedOut \cup {t}
<1>1. PICK r \in Requests : Logout(r)
  BY DEF Next, Serve, Refresh, IssueTokens, Purge, BeginLogin, BeginRefresh, BeginLogout,
         FindRefreshToken, CheckExpiry, RevokeExpired, Revoke, FindUser, GenerateRefreshToken,
         SaveRefreshToken, DbFails, Abandon, PurgeTick, PurgeExpiredRefreshTokens, PurgeFails,
         Crash, Tick, vars, history
<1>2. req[r].token \in born
  BY <1>1, RequestType DEF Logout, At, HoldsWhatItUses, Maybe, Inv
<1> QED
  BY <1>1, <1>2 DEF Logout

\* What a step does to the tokens and their parents.
LEMMA SuccessionStep ==
    ASSUME [Next]_vars, ~(born' = born /\ parent' = parent)
    PROVE  \E r \in Requests : SaveRefreshToken(r)
BY DEF Next, Serve, Refresh, IssueTokens, Purge, BeginLogin, BeginRefresh, BeginLogout,
       FindRefreshToken, CheckExpiry, RevokeExpired, Revoke, FindUser, GenerateRefreshToken,
       Logout, DbFails, Abandon, PurgeTick, PurgeExpiredRefreshTokens, PurgeFails, Crash, Tick,
       vars, history

LEMMA OutForGoodStep ==
    ASSUME Inv, OutForGood, [Next]_vars, \A r \in Requests : Logout(r) => ~Raced(r)
    PROVE  OutForGood'
<1>0. loggedOut \subseteq born /\ born \subseteq Tokens /\ Nothing \notin loggedOut
  BY TokensAssumption DEF Inv, TypeOK
<1>1. \A t \in loggedOut : Revoked(t)' /\ \A r \in Requests : ~Held(req'[r], t)
  BY <1>0, DeadStayDead, OnlyFindHolds DEF OutForGood
<1>2. CASE loggedOut' = loggedOut
  <2>1. \A t \in born' : parent'[t] \notin loggedOut
    <3>1. CASE born' = born /\ parent' = parent
      BY <3>1 DEF OutForGood
    <3>2. ASSUME NEW r \in Requests, SaveRefreshToken(r)
          PROVE  \A t \in born' : parent'[t] \notin loggedOut
      <4>1. req[r].token \notin loggedOut
        BY <3>2 DEF OutForGood, Held, SaveRefreshToken, At
      <4>2. \A t \in born : parent[t] \notin loggedOut
        BY DEF OutForGood
      <4>3. /\ born' = born \cup {req[r].fresh}
            /\ parent' = [parent EXCEPT ![req[r].fresh] = req[r].token]
        BY <3>2 DEF SaveRefreshToken
      <4>4. parent \in [Tokens -> Maybe(Tokens)] /\ req[r].fresh \in Tokens
        BY <3>2, RequestType DEF SaveRefreshToken, At, HoldsWhatItUses, Inv, TypeOK
      <4> QED
        BY <1>0, <4>1, <4>2, <4>3, <4>4
    <3> QED
      BY <3>1, <3>2, SuccessionStep
  <2> QED
    BY <1>1, <1>2, <2>1 DEF OutForGood, Revoked
<1>3. CASE loggedOut' # loggedOut
  <2>1. PICK r \in Requests, t \in born :
           /\ Logout(r) /\ t = req[r].token /\ ~Revoked(t)
           /\ loggedOut' = loggedOut \cup {t}
    BY <1>3, LogoutsStep
  <2>2. t \in Tokens
    BY <1>0
  <2>3. Revoked(t)'
    BY <2>1, <2>2, RevokeType DEF Logout, Revoked, Inv
  <2>4. \A s \in Requests : ~Held(req'[s], t)
    <3> SUFFICES ASSUME NEW s \in Requests, Held(req'[s], t) PROVE FALSE
      OBVIOUS
    <3>1. ~Held(req[s], t)
      BY <2>1 DEF Raced
    <3>2. FindRefreshToken(s)
      BY <2>2, <3>1, OnlyFindHolds
    <3> QED
      BY <1>3, <3>2 DEF FindRefreshToken, history
  <2>5. \A u \in born' : parent'[u] \notin loggedOut'
    <3>1. born' = born /\ parent' = parent
      BY <2>1 DEF Logout
    <3>2. \A u \in born : parent[u] # t
      BY <1>0, <2>1, <2>2, TokensAssumption DEF Inv, ReplacedTokensAreDead
    <3> QED
      BY <2>1, <3>1, <3>2 DEF OutForGood
  <2>6. \A u \in loggedOut' : Revoked(u)' /\ \A s \in Requests : ~Held(req'[s], u)
    BY <1>1, <2>1, <2>3, <2>4
  <2> QED
    BY <2>5, <2>6 DEF OutForGood, Revoked
<1> QED
  BY <1>2, <1>3

(***************************************************************************)
(* auth_handlers.go:216: logout ends the session, whatever overlaps, fails *)
(* or is cut off, as long as no logout overtakes a refresh of its token.   *)
(***************************************************************************)
THEOREM LogoutEndsUnraced == Spec /\ LogoutsApart => []LogoutEndsSession
<1>1. Init => OutForGood
  BY DEF Init, OutForGood
<1>2. OutForGood => LogoutEndsSession
  BY DEF OutForGood, LogoutEndsSession
<1>3. /\ Inv /\ OutForGood /\ [Next]_vars
      /\ [\A r \in Requests : Logout(r) => ~Raced(r)]_vars
      => OutForGood'
  <2>1. CASE UNCHANGED vars
    BY <2>1 DEF vars, history, OutForGood, Held, Revoked
  <2> QED
    BY <2>1, OutForGoodStep
<1> QED
  BY <1>1, <1>2, <1>3, Invariance, PTL DEF Spec, LogoutsApart

(***************************************************************************)
(* In particular a server that is sent one request at a time keeps what    *)
(* logout promises: the finding about LogoutEndsSession needs overlap.     *)
(***************************************************************************)
THEOREM LogoutEndsAlone ==
    ASSUME \A r, s \in Requests : r = s
    PROVE  Spec => []LogoutEndsSession
<1>1. [Next]_vars => [\A r \in Requests : Logout(r) => ~Raced(r)]_vars
  BY DEF Logout, At, Raced, Held
<1>2. Spec => LogoutsApart
  BY <1>1, PTL DEF Spec, LogoutsApart
<1> QED
  BY <1>2, LogoutEndsUnraced, PTL

-----------------------------------------------------------------------------
(***************************************************************************)
(* Rotation replaces a token by one other.  Two refreshes that both pass   *)
(* their lookup before either revokes (auth_handlers.go:178-204) each get  *)
(* a successor; it fails in no other way.                                  *)
(***************************************************************************)
OneSuccessor == \A t, u \in born : parent[t] # Nothing /\ parent[t] = parent[u] => t = u

RefreshesApart ==
    [][\A r \in Requests : FindRefreshToken(r) =>
          \A s \in Requests : ~Held(req[s], req[r].token)]_vars

\* One refresh at most can still give a token a successor, and only to a token
\* that has none.
Succession ==
    /\ OneSuccessor
    /\ \A t \in born, r, s \in Requests : Held(req[r], t) /\ Held(req[s], t) => r = s
    /\ \A u \in born, r \in Requests : parent[u] # Nothing => ~Held(req[r], parent[u])

\* Held' for a request means that it held, or that this is its lookup.
LEMMA HeldStep ==
    ASSUME Inv, [Next]_vars, NEW r \in Requests, NEW t \in born, Held(req'[r], t)
    PROVE  \/ Held(req[r], t)
           \/ /\ FindRefreshToken(r) /\ req[r].token = t /\ ~Revoked(t)
              /\ \A s \in Requests : s # r => req'[s] = req[s]
<1>1. SUFFICES ASSUME ~Held(req[r], t)
               PROVE  /\ FindRefreshToken(r) /\ req[r].token = t /\ ~Revoked(t)
                      /\ \A s \in Requests : s # r => req'[s] = req[s]
  OBVIOUS
<1>2. FindRefreshToken(r) /\ ~Revoked(t)
  BY <1>1, OnlyFindHolds
<1>3. PICK q : req' = [req EXCEPT ![r] = q] /\ (q = Idle \/ q.token = req[r].token)
  <2> DEFINE p == Going(req[r], "check", rows[req[r].token].expires, Nothing)
  <2>1. Move(r, Idle) \/ Move(r, p)
    BY <1>2 DEF FindRefreshToken
  <2>2. p.token = req[r].token
    BY RequestType DEF Going, Request, Inv
  <2> HIDE DEF p
  <2> QED
    BY <2>1, <2>2 DEF Move
<1>4. req'[r] = q /\ \A s \in Requests : s # r => req'[s] = req[s]
  BY <1>3 DEF Inv, TypeOK
<1>5. req[r].token = t
  BY <1>3, <1>4, IdleType DEF Held
<1> QED
  BY <1>2, <1>4, <1>5

LEMMA SuccessionKept ==
    ASSUME Inv, Succession, [Next]_vars,
           \A r \in Requests : FindRefreshToken(r) =>
              \A s \in Requests : ~Held(req[s], req[r].token)
    PROVE  Succession'
<1>0. born \subseteq Tokens /\ parent \in [Tokens -> Maybe(Tokens)]
  BY DEF Inv, TypeOK
<1>1. CASE born' = born /\ parent' = parent
  <2>1. OneSuccessor'
    BY <1>1 DEF Succession, OneSuccessor
  <2>2. ASSUME NEW t \in born, NEW r \in Requests, NEW s \in Requests,
               Held(req'[r], t), Held(req'[s], t)
        PROVE  r = s
    BY <2>2, HeldStep DEF Succession
  <2>3. ASSUME NEW u \in born, NEW r \in Requests, parent[u] # Nothing
        PROVE  ~Held(req'[r], parent[u])
    <3>1. parent[u] \in born /\ Revoked(parent[u])
      BY <2>3 DEF Inv, ParentsBorn, ReplacedTokensAreDead
    <3>2. ~Held(req[r], parent[u])
      BY <2>3 DEF Succession
    <3> QED
      BY <3>1, <3>2, OnlyFindHolds
  <2> QED
    BY <1>1, <2>1, <2>2, <2>3 DEF Succession
<1>2. CASE ~(born' = born /\ parent' = parent)
  <2>1. PICK r \in Requests : SaveRefreshToken(r)
    BY <1>2, SuccessionStep
  <2>2. PICK fresh \in Tokens \ born, token \in Maybe(born) :
           /\ At(r, "save") /\ token = req[r].token
           /\ born' = born \cup {fresh}
           /\ parent' = [parent EXCEPT ![fresh] = token]
           /\ req' = [req EXCEPT ![r] = Idle]
    <3>1. req[r].fresh \in Tokens \ born /\ req[r].token \in Maybe(born)
      BY <2>1, RequestType DEF SaveRefreshToken, At, HoldsWhatItUses, Inv
    <3> QED
      BY <2>1, <3>1 DEF SaveRefreshToken, Move
  <2>3. \A s \in Requests : req'[s] = IF s = r THEN Idle ELSE req[s]
    BY <2>2 DEF Inv, TypeOK
  <2>4. token # Nothing => Held(req[r], token)
    BY <2>2 DEF At, Held
  <2>5. \A t \in born : parent'[t] = parent[t] /\ t # fresh
    BY <1>0, <2>2
  <2>6. parent'[fresh] = token
    BY <1>0, <2>2
  <2>7. \A t \in born : parent[t] # Nothing => parent[t] # token
    BY <2>4 DEF Succession
  <2>8. OneSuccessor'
    <3>1. \A t, u \in born : parent[t] # Nothing /\ parent[t] = parent[u] => t = u
      BY DEF Succession, OneSuccessor
    <3> QED
      BY <2>2, <2>5, <2>6, <2>7, <3>1 DEF OneSuccessor
  <2>9. \A s \in Requests : \A t : Held(req'[s], t) /\ t # Nothing => s # r /\ Held(req[s], t)
    BY <2>3, IdleType DEF Held
  <2>10. ASSUME NEW t \in born', NEW p \in Requests, NEW s \in Requests,
                Held(req'[p], t), Held(req'[s], t)
         PROVE  p = s
    <3>1. t # Nothing
      BY <1>0, <2>2, TokensAssumption
    <3>2. Held(req[p], t) /\ Held(req[s], t)
      BY <2>9, <2>10, <3>1
    <3>3. t \in born
      <4>1. req[p].token \in Maybe(born)
        BY RequestType DEF HoldsWhatItUses, Inv
      <4> QED
        BY <3>1, <3>2, <4>1 DEF Held, Maybe
    <3> QED
      BY <3>2, <3>3 DEF Succession
  <2>11. ASSUME NEW u \in born', NEW s \in Requests, parent'[u] # Nothing,
                Held(req'[s], parent'[u])
         PROVE  FALSE
    <3>1. s # r /\ Held(req[s], parent'[u])
      BY <2>9, <2>11
    <3>2. CASE u \in born
      BY <2>5, <2>11, <3>1, <3>2 DEF Succession
    <3>3. CASE u = fresh
      <4>1. token \in born /\ Held(req[r], token) /\ Held(req[s], token)
        BY <2>2, <2>4, <2>6, <2>11, <3>1, <3>3 DEF Maybe
      <4> QED
        BY <3>1, <4>1 DEF Succession
    <3> QED
      BY <2>2, <3>2, <3>3
  <2> QED
    BY <2>8, <2>10, <2>11 DEF Succession
<1> QED
  BY <1>1, <1>2

(***************************************************************************)
(* README.md:133: each use replaces the token by one other, whatever fails *)
(* or is cut off, as long as no refresh looks a token up while another one *)
(* of the same token is between its lookup and its answer.                 *)
(***************************************************************************)
THEOREM RotationUnraced == Spec /\ RefreshesApart => []OneSuccessor
<1>1. Init => Succession
  BY DEF Init, Succession, OneSuccessor
<1>2. Succession => OneSuccessor
  BY DEF Succession
<1>3. /\ Inv /\ Succession /\ [Next]_vars
      /\ [\A r \in Requests : FindRefreshToken(r) =>
             \A s \in Requests : ~Held(req[s], req[r].token)]_vars
      => Succession'
  <2>1. CASE UNCHANGED vars
    BY <2>1 DEF vars, history, Succession, OneSuccessor, Held
  <2> QED
    BY <2>1, SuccessionKept
<1> QED
  BY <1>1, <1>2, <1>3, Invariance, PTL DEF Spec, RefreshesApart
=============================================================================
