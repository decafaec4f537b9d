-------------------------------- MODULE Tokens --------------------------------
(***************************************************************************)
(* internal/auth/service.go with AuthMiddleware: the gateway's logins,     *)
(* refreshes, logouts and password changes.  Users are rows of Postgres,   *)
(* refresh tokens and revoked tokens are keys of Redis with a lifetime; no *)
(* lock and no transaction joins two calls of a request.                   *)
(*                                                                         *)
(* The two tokens of a pair differ in their lifetime only, and the bearer  *)
(* check takes either.  CheckSelfExclusion reads columns no migration      *)
(* creates; its error lets the login go on, so it is no step here.         *)
(***************************************************************************)
EXTENDS Integers, FiniteSets

CONSTANTS
  Person, Caller,           \* users, and goroutines that serve requests
  Secret, opening,          \* passwords, and each user's first one
  AccessTTL, RefreshTTL,    \* lifetimes, in units of the clock
  LastHour, MaxCalls, MaxSlips  \* bounds: the clock, requests, Redis errors

ASSUME TokensAssumption ==
  /\ IsFiniteSet(Person) /\ IsFiniteSet(Caller)
  /\ opening \in [Person -> Secret]
  /\ {AccessTTL, RefreshTTL, LastHour, MaxCalls, MaxSlips} \subseteq Nat
  /\ AccessTTL < RefreshTTL

VARIABLES
  hour,
  standing,     \* users.status
  password,     \* users.password_hash
  refreshKeys,  \* Redis refresh:<token>, with the time each ends
  blacklist,    \* Redis blacklist:<token>, with the time each ends
  served,       \* what each goroutine is doing
  handed,       \* the tokens handed out, of either lifetime
  loggedOut,    \* history: those that were logged out
  unanswered,   \* history: look-ups in the blacklist that Redis did not answer
  intrusions,   \* history: requests let in with a token that was logged out
  logins,       \* history: a user's logins
  doubled,      \* history: a user's refreshes whose DEL removed nothing
  calls, slips

tokenVars == <<hour, standing, password, refreshKeys, blacklist, served, handed,
               loggedOut, unanswered, intrusions, logins, doubled, calls, slips>>
userVars == <<standing, password>>
checkVars == <<unanswered, intrusions>>
sessionVars == <<handed, loggedOut, blacklist, checkVars>>
loginVars == <<logins, doubled>>

Hour == 0..LastHour
\* Tokens issued to a user in the same second are the same text.
Token == [user : Person, at : Hour, ttl : {AccessTTL, RefreshTTL}]
NoCall == [at |-> "idle"]

TokensInit ==
  /\ hour = 0
  /\ standing = [u \in Person |-> "active"] /\ password = opening
  /\ refreshKeys = <<>> /\ blacklist = <<>>
  /\ served = [p \in Caller |-> NoCall]
  /\ handed = {} /\ loggedOut = {} /\ unanswered = 0 /\ intrusions = 0
  /\ logins = [u \in Person |-> 0] /\ doubled = [u \in Person |-> 0]
  /\ calls = 0 /\ slips = 0

Doing(p, step) == served[p] # NoCall /\ served[p].at = step
Continue(p, step) == served' = [served EXCEPT ![p].at = step]
Finish(p) == served' = [served EXCEPT ![p] = NoCall]
Take(p, call) ==
  /\ served[p] = NoCall /\ calls < MaxCalls
  /\ calls' = calls + 1 /\ served' = [served EXCEPT ![p] = call]
Slip == slips < MaxSlips /\ slips' = slips + 1

Put(f, k, end) == [x \in DOMAIN f \cup {k} |-> IF x = k THEN end ELSE f[x]]
Without(f, gone) == [x \in DOMAIN f \ gone |-> f[x]]
Issued(u) == [user |-> u, at |-> hour, ttl |-> RefreshTTL]
Pair(u) == {Issued(u), [Issued(u) EXCEPT !.ttl = AccessTTL]}

-----------------------------------------------------------------------------

\* SELECT, the status, the password.
Login(p, u, secret) ==
  /\ standing[u] = "active" /\ password[u] = secret
  /\ Take(p, [at |-> "login", user |-> u])
  /\ UNCHANGED <<hour, userVars, refreshKeys, sessionVars, loginVars, slips>>

\* The tokens are made and the refresh token is stored; where that fails, so does
\* the login.
StoreRefresh(p) ==
  LET u == served[p].user IN
  /\ Doing(p, "login")
  /\ refreshKeys' = Put(refreshKeys, Issued(u), hour + RefreshTTL)
  /\ handed' = handed \cup Pair(u)
  /\ logins' = [logins EXCEPT ![u] = @ + 1]
  /\ Finish(p)
  /\ UNCHANGED <<hour, userVars, blacklist, loggedOut, checkVars, doubled, calls, slips>>

StoreFails(p) ==
  /\ Doing(p, "login") /\ Slip /\ Finish(p)
  /\ UNCHANGED <<hour, userVars, refreshKeys, sessionVars, loginVars, calls>>

\* GET refresh:<token>, the token's own lifetime, SELECT of the user, whose status
\* is not looked at.
Refresh(p, t) ==
  /\ t \in DOMAIN refreshKeys /\ hour < t.at + RefreshTTL
  /\ Take(p, [at |-> "rotate", user |-> t.user, token |-> t])
  /\ UNCHANGED <<hour, userVars, refreshKeys, sessionVars, loginVars, slips>>

\* Mutant: the old token stays.
Keep(t) == refreshKeys
Redeem(t) == Without(refreshKeys, {t})

\* DEL of the old token, whose answer is not looked at.
DeleteOld(p) ==
  LET t == served[p].token IN
  /\ Doing(p, "rotate")
  /\ \/ refreshKeys' = Redeem(t) /\ UNCHANGED slips
     \/ UNCHANGED refreshKeys /\ Slip
  /\ doubled' = IF t \in DOMAIN refreshKeys /\ slips' = slips THEN doubled
                ELSE [doubled EXCEPT ![t.user] = @ + 1]
  /\ Continue(p, "issue")
  /\ UNCHANGED <<hour, userVars, sessionVars, logins, calls>>

\* SET of the new one, whose answer is not looked at either.
IssueNew(p) ==
  LET u == served[p].user IN
  /\ Doing(p, "issue")
  /\ \/ refreshKeys' = Put(refreshKeys, Issued(u), hour + RefreshTTL) /\ UNCHANGED slips
     \/ UNCHANGED refreshKeys /\ Slip
  /\ handed' = handed \cup Pair(u)
  /\ Finish(p)
  /\ UNCHANGED <<hour, userVars, blacklist, loggedOut, checkVars, loginVars, calls>>

-----------------------------------------------------------------------------

Valid(t) == t \in handed /\ hour < t.at + t.ttl
Revoked(t) == t \in DOMAIN blacklist

\* AuthMiddleware: a token whose look-up Redis does not answer passes for one that was
\* not logged out.
Passes(t) ==
  /\ Valid(t)
  /\ \/ ~Revoked(t) /\ UNCHANGED <<unanswered, slips>>
     \/ Slip /\ unanswered' = unanswered + 1
  /\ intrusions' = IF t \in loggedOut THEN intrusions + 1 ELSE intrusions

\* The key lives as long as the token has left.
Until(t) == t.at + t.ttl

\* Logout of the token the request came with; where SET fails, none is.
Logout(t) ==
  /\ Passes(t) /\ calls < MaxCalls
  /\ blacklist' = Put(blacklist, t, Until(t))
  /\ loggedOut' = loggedOut \cup {t}
  /\ calls' = calls + 1
  /\ UNCHANGED <<hour, userVars, refreshKeys, served, handed, loginVars>>

\* Any other request behind AuthMiddleware.
Authorized(t) ==
  /\ Passes(t)
  /\ UNCHANGED <<hour, userVars, refreshKeys, blacklist, served, handed, loggedOut, loginVars,
                 calls>>

\* ChangePassword: SELECT and comparison, then UPDATE.
ChangePassword(p, t, old, new) ==
  /\ Passes(t) /\ password[t.user] = old /\ new # old
  /\ Take(p, [at |-> "password", user |-> t.user, secret |-> new])
  /\ UNCHANGED <<hour, userVars, refreshKeys, blacklist, handed, loggedOut, loginVars>>

UpdatePassword(p) ==
  /\ Doing(p, "password")
  /\ password' = [password EXCEPT ![served[p].user] = served[p].secret]
  /\ Finish(p)
  /\ UNCHANGED <<hour, standing, refreshKeys, sessionVars, loginVars, calls, slips>>

\* hierarchy.UpdateUserStatus, and the suspension of responsible.SelfExclude.
UpdateUserStatus(u, s) ==
  /\ standing[u] # s /\ calls < MaxCalls
  /\ standing' = [standing EXCEPT ![u] = s]
  /\ calls' = calls + 1
  /\ UNCHANGED <<hour, password, refreshKeys, sessionVars, served, loginVars, slips>>

\* Time passes, and Redis forgets the keys that end.
Elapse ==
  /\ hour < LastHour /\ hour' = hour + 1
  /\ refreshKeys' = Without(refreshKeys, {t \in DOMAIN refreshKeys : refreshKeys[t] <= hour'})
  /\ blacklist' = Without(blacklist, {t \in DOMAIN blacklist : blacklist[t] <= hour'})
  /\ UNCHANGED <<userVars, served, handed, loggedOut, checkVars, loginVars, calls, slips>>

-----------------------------------------------------------------------------

TokensNext ==
  \/ \E p \in Caller :
       \/ \E u \in Person, secret \in Secret : Login(p, u, secret)
       \/ StoreRefresh(p) \/ StoreFails(p)
       \/ \E t \in DOMAIN refreshKeys : Refresh(p, t)
       \/ DeleteOld(p) \/ IssueNew(p) \/ UpdatePassword(p)
       \/ \E t \in handed, old, new \in Secret : ChangePassword(p, t, old, new)
  \/ \E t \in handed : Logout(t) \/ Authorized(t)
  \/ \E u \in Person, s \in {"active", "suspended"} : UpdateUserStatus(u, s)
  \/ Elapse

TokensSpec == TokensInit /\ [][TokensNext]_tokenVars

-----------------------------------------------------------------------------

\* Values of every variable.
TokensTypeOK ==
  /\ hour \in Hour
  /\ standing \in [Person -> {"active", "suspended"}] /\ password \in [Person -> Secret]
  /\ DOMAIN refreshKeys \subseteq Token
  /\ \A t \in DOMAIN refreshKeys : refreshKeys[t] \in Nat /\ refreshKeys[t] > hour
  /\ DOMAIN blacklist \subseteq Token
  /\ \A p \in Caller : served[p] = NoCall \/
       /\ served[p].at \in {"login", "rotate", "issue", "password"}
       /\ served[p].user \in Person
       /\ Doing(p, "rotate") \/ Doing(p, "issue") => served[p].token \in Token
       /\ Doing(p, "password") => served[p].secret \in Secret
  /\ handed \subseteq Token /\ loggedOut \subseteq handed
  /\ unanswered \in 0..MaxSlips /\ intrusions \in Nat
  /\ logins \in [Person -> Nat] /\ doubled \in [Person -> Nat]
  /\ calls \in 0..MaxCalls /\ slips \in 0..MaxSlips

\* The refresh tokens that can still be redeemed, and the rotations about to make one.
Redeemable(u) == {t \in DOMAIN refreshKeys : t.user = u}
Rotating(u) == {p \in Caller : Doing(p, "issue") /\ served[p].user = u}

\* Rotation keeps one refresh token for each login.  A user has more by the refreshes
\* whose DEL found nothing, as two with one token at once, or failed: docs/API.md, "the old
\* refresh token is invalidated", holds but for these, and no reuse ends the other sessions.
RotationKeepsCount ==
  \A u \in Person :
    Cardinality(Redeemable(u)) + Cardinality(Rotating(u)) <= logins[u] + doubled[u]

\* A token logged out is let in again only by a look-up that Redis did not answer, one
\* request for each, however late and whichever of the pair it is: the key of the blacklist
\* never ends before the token.  (Only the token of the request is logged out: the other of
\* its pair is not, where docs/API.md says "all tokens for the session".)
LoggedOutStaysOut == intrusions <= unanswered

\* Every variable has a value of its kind, rotation leaves a user no more refresh tokens
\* than logins, but for refreshes that overlap or fail, and a token logged out comes back
\* only where Redis does not answer.
TokensHold == TokensTypeOK /\ RotationKeepsCount /\ LoggedOutStaysOut

=============================================================================
