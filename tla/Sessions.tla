-------------------------------- MODULE Sessions --------------------------------
(***************************************************************************)
(* Signing in to the mock server: passwords and their brute-force locks,   *)
(* one-time codes, bearer and refresh tokens, replayed requests            *)
(* (cmd/mockserver/main.go, store.go, security.go).  The maps of the store *)
(* and of the two guards each have a lock, held for one look-up or update  *)
(* at a time, so a login or a refresh is a sequence of such steps, between *)
(* which others run and time passes.                                       *)
(*                                                                         *)
(* A token is a signed function of its user, the second it was issued in   *)
(* and its lifetime: issued twice in a second it is the same token, and    *)
(* the bearer check takes one of either lifetime.  The key comes from the  *)
(* environment and outlives a restart; the maps do not.                    *)
(***************************************************************************)
EXTENDS Integers, FiniteSets

CONSTANTS
  User, IP, Code, Nonce,
  Proc, NoTime,
  MaxAttempts, ResetAfter, LockFor,    \* 5 bad passwords, 15 and 30 minutes
  MaxStrikes, BlockFor,                \* 20 strikes, 15 minutes
  OTPFor, NonceWindow,                 \* 5 minutes each
  AccessTTL, RefreshTTL, BlacklistFor, \* 24 hours, 7 days, 24 hours
  MaxTime, MaxRequests, MaxOperations, MaxStarts     \* bounds

ASSUME SessionsAssumption ==
  /\ NoTime = -1 /\ IsFiniteSet(Proc)
  /\ {MaxAttempts, MaxStrikes, ResetAfter, LockFor, BlockFor, OTPFor, NonceWindow,
      AccessTTL, RefreshTTL, BlacklistFor} \subseteq Nat \ {0}
  /\ ResetAfter < LockFor /\ AccessTTL < RefreshTTL /\ AccessTTL <= BlacklistFor
  /\ MaxTime \in Nat /\ MaxRequests \in Nat /\ MaxOperations \in Nat
  /\ MaxStarts \in Nat

VARIABLES
  now,
  active, otpEnabled,   \* the users whose status is active, who have OTPEnabled
  attempts,    \* store.loginAttempts: [count, last, until]
  strikes, blocked,     \* of the IP blocker
  otp,         \* store.otpStore: the user's code, if any, and its expiry
  refresh,     \* the keys of store.refreshTokens
  times,       \* store.refreshTokenTimes: when each refresh token was stored
  blacklist,   \* store.blacklist: when each token is forgotten
  seen,        \* of the replay guard: when each nonce was taken
  req,         \* the request each goroutine is serving
  requests, operations, starts,   \* so far: requests, operations, restarts
  logins,      \* history: credentials accepted of each user
  tried,       \* history: bad passwords in a row, none ResetAfter from the last
  handed,      \* history: the refresh tokens of the pairs that were handed out
  revoked,     \* history: when each token that was logged out was so last
  dropped,     \* history: the tokens whose logout was before the last restart
  taken        \* history: when each nonce was last let through by this process

vars == <<now, active, otpEnabled, attempts, strikes, blocked, otp, refresh, times,
          blacklist, seen, req, requests, operations, starts, logins, tried, handed,
          revoked, dropped, taken>>

userVars == <<active, otpEnabled>>
lockVars == <<attempts, tried, strikes, blocked>>
logoutVars == <<blacklist, revoked, dropped>>
tokenVars == <<refresh, times, handed, logoutVars>>
\* The replay guard, and how often it was emptied by a restart.
replayVars == <<seen, taken, starts>>

Token == [user : User, issued : 0..MaxTime, ttl : {AccessTTL, RefreshTTL}]
Forget(f, keys) == [k \in DOMAIN f \ keys |-> f[k]]

NoAttempt == [count |-> 0, last |-> NoTime, until |-> NoTime]
NoOTP == [code |-> NoTime, expiry |-> NoTime]
Idle == [at |-> "idle"]
Steps == {"check", "verify", "strike", "success", "admit", "otp", "clear", "issue"}

Init ==
  /\ now = 0
  /\ active = User /\ otpEnabled \in SUBSET User
  /\ attempts = [u \in User |-> NoAttempt]
  /\ strikes = [ip \in IP |-> 0] /\ blocked = [ip \in IP |-> NoTime]
  /\ otp = [u \in User |-> NoOTP]
  /\ refresh = {}
  /\ times = [t \in {} |-> 0] /\ blacklist = [t \in {} |-> 0]
  /\ seen = [n \in Nonce |-> NoTime]
  /\ req = [p \in Proc |-> Idle]
  /\ requests = 0 /\ operations = 0 /\ starts = 0
  /\ logins = [u \in User |-> 0] /\ tried = [u \in User |-> 0]
  /\ handed = {} /\ revoked = [t \in {} |-> 0] /\ dropped = {}
  /\ taken = [n \in Nonce |-> NoTime]

At(p, step) == req[p] # Idle /\ req[p].at = step
Goto(p, step) == req' = [req EXCEPT ![p].at = step]
Answer(p) == req' = [req EXCEPT ![p] = Idle]

Begin(p, r) ==
  /\ req[p] = Idle /\ requests < MaxRequests
  /\ requests' = requests + 1
  /\ req' = [req EXCEPT ![p] = r]

-----------------------------------------------------------------------------
\* POST /auth/login.  The IP blocker is asked first.

Login(p, u, ip, right) ==
  /\ ~(now < blocked[ip])
  /\ Begin(p, [at |-> "check", user |-> u, ip |-> ip, right |-> right])
  /\ UNCHANGED <<now, userVars, lockVars, otp, tokenVars, replayVars, operations, logins>>

CheckLoginAttempt(p) ==
  /\ At(p, "check")
  /\ IF now < attempts[req[p].user].until
     THEN Answer(p)
     ELSE Goto(p, IF req[p].right THEN "success" ELSE "verify")
  /\ UNCHANGED <<now, userVars, lockVars, otp, tokenVars, replayVars, requests,
                 operations, logins>>

\* Mutant: the last bad password does not lock the name.
FailedUnlocked(a) ==
  [count |-> IF now - a.last > ResetAfter THEN 1 ELSE a.count + 1,
   last |-> now, until |-> a.until]

\* One more bad password; the count starts again when the last one is old.
Failed(a) ==
  LET count == IF now - a.last > ResetAfter THEN 1 ELSE a.count + 1 IN
  [count |-> count, last |-> now,
   until |-> IF count >= MaxAttempts THEN now + LockFor ELSE a.until]

\* A bad password is counted; one that locks the name is no strike.
RecordFailedLogin(p) ==
  LET u == req[p].user IN
  /\ At(p, "verify")
  /\ attempts' = [attempts EXCEPT ![u] = Failed(@)]
  /\ tried' = [tried EXCEPT ![u] =
                 IF now - attempts[u].last > ResetAfter THEN 1 ELSE @ + 1]
  /\ IF attempts'[u].count >= MaxAttempts THEN Answer(p) ELSE Goto(p, "strike")
  /\ UNCHANGED <<now, userVars, strikes, blocked, otp, tokenVars, replayVars,
                 requests, operations, logins>>

Struck(n) == IF n + 1 >= MaxStrikes THEN 0 ELSE n + 1

\* The strike that blocks the address starts its count again.
RecordFailure(p) ==
  LET ip == req[p].ip IN
  /\ At(p, "strike")
  /\ strikes' = [strikes EXCEPT ![ip] = Struck(@)]
  /\ blocked' = [blocked EXCEPT ![ip] =
                   IF strikes[ip] + 1 >= MaxStrikes THEN now + BlockFor ELSE @]
  /\ Answer(p)
  /\ UNCHANGED <<now, userVars, attempts, tried, otp, tokenVars, replayVars,
                 requests, operations, logins>>

RecordSuccess(p) ==
  /\ At(p, "success")
  /\ strikes' = [strikes EXCEPT ![req[p].ip] = 0]
  /\ Goto(p, "admit")
  /\ UNCHANGED <<now, userVars, attempts, tried, blocked, otp, tokenVars,
                 replayVars, requests, operations, logins>>

NewOTP(u, code) == otp' = [otp EXCEPT ![u] = [code |-> code, expiry |-> now + OTPFor]]

\* A user with two-factor login gets a code instead of tokens.
Admit(p) ==
  LET u == req[p].user IN
  /\ At(p, "admit")
  /\ IF u \in active /\ u \notin otpEnabled
     THEN /\ Goto(p, "clear")
          /\ logins' = [logins EXCEPT ![u] = @ + 1]
          /\ UNCHANGED otp
     ELSE /\ Answer(p)
          /\ IF u \in active THEN \E code \in Code : NewOTP(u, code) ELSE UNCHANGED otp
          /\ UNCHANGED logins
  /\ UNCHANGED <<now, userVars, lockVars, tokenVars, replayVars, requests, operations>>

ClearLoginAttempts(p) ==
  LET u == req[p].user IN
  /\ At(p, "clear")
  /\ attempts' = [attempts EXCEPT ![u] = NoAttempt]
  /\ tried' = [tried EXCEPT ![u] = 0]
  /\ req' = [req EXCEPT ![p] = [at |-> "issue", user |-> u, since |-> now]]
  /\ UNCHANGED <<now, userVars, strikes, blocked, otp, tokenVars, replayVars,
                 requests, operations, logins>>

\* Login, OTP and refresh end alike: a pair of tokens is signed, then stored.
IssueTokens(p, issued) ==
  LET t == [user |-> req[p].user, issued |-> issued, ttl |-> RefreshTTL] IN
  /\ At(p, "issue") /\ issued \in req[p].since..now
  /\ refresh' = refresh \cup {t}
  /\ times' = [s \in DOMAIN times \cup {t} |-> IF s = t THEN now ELSE times[s]]
  /\ handed' = handed \cup {t}
  /\ Answer(p)
  /\ UNCHANGED <<now, userVars, lockVars, otp, logoutVars, replayVars, requests,
                 operations, logins>>

-----------------------------------------------------------------------------
\* POST /auth/otp/verify: the code is read under one lock, deleted under the next,
\* and the user's status is not looked at.

ReadOTP(p, u, code) ==
  /\ otp[u].code = code /\ now <= otp[u].expiry
  /\ Begin(p, [at |-> "otp", user |-> u])
  /\ UNCHANGED <<now, userVars, lockVars, otp, tokenVars, replayVars, operations, logins>>

DeleteOTP(p) ==
  LET u == req[p].user IN
  /\ At(p, "otp")
  /\ otp' = [otp EXCEPT ![u] = NoOTP]
  /\ logins' = [logins EXCEPT ![u] = @ + 1]
  /\ Goto(p, "clear")
  /\ UNCHANGED <<now, userVars, lockVars, tokenVars, replayVars, requests, operations>>

-----------------------------------------------------------------------------
\* POST /auth/refresh: redeemed under one lock, issued again under a later one.

\* Mutant: a token that was redeemed can be redeemed again.
StaysValid(t) == refresh

Redeemed(t) == refresh \ {t}

Refresh(p, t) ==
  /\ t \in refresh
  /\ Begin(p, [at |-> "issue", user |-> t.user, since |-> now])
  /\ refresh' = Redeemed(t)
  /\ UNCHANGED <<now, userVars, lockVars, otp, times, handed, logoutVars,
                 replayVars, operations, logins>>

-----------------------------------------------------------------------------
\* The bearer check of every other request, and what such requests do.

Blacklisted(t) == t \in DOMAIN blacklist /\ now < blacklist[t]

\* A token comes with the refresh token of its pair.
HandedOut(t) == [t EXCEPT !.ttl = RefreshTTL] \in handed

Accepted(t) == HandedOut(t) /\ ~Blacklisted(t) /\ now < t.issued + t.ttl

\* Mutant: the time of the logout is stored for the end of the entry.
RevokedAt == now

RevokedUntil == now + BlacklistFor

Operate == operations < MaxOperations /\ operations' = operations + 1

Logout(t) ==
  /\ Operate /\ HandedOut(t)
  /\ blacklist' = [s \in DOMAIN blacklist \cup {t} |->
                     IF s = t THEN RevokedUntil ELSE blacklist[s]]
  /\ revoked' = [s \in DOMAIN revoked \cup {t} |-> IF s = t THEN now ELSE revoked[s]]
  /\ dropped' = dropped \ {t}
  /\ UNCHANGED <<now, userVars, lockVars, otp, refresh, times, handed, replayVars, req,
                 requests, logins>>

\* Only the refresh tokens go.
LogoutAllSessions(t) ==
  /\ Operate /\ Accepted(t)
  /\ refresh' = {s \in refresh : s.user # t.user}
  /\ UNCHANGED <<now, userVars, lockVars, otp, times, handed, logoutVars, replayVars,
                 req, requests, logins>>

OTPGenerate(t, code) ==
  /\ Operate /\ Accepted(t) /\ NewOTP(t.user, code)
  /\ UNCHANGED <<now, userVars, lockVars, tokenVars, replayVars, req, requests, logins>>

OTPEnable(t, enable) ==
  /\ Operate /\ Accepted(t) /\ enable # (t.user \in otpEnabled)
  /\ otpEnabled' = IF enable THEN otpEnabled \cup {t.user} ELSE otpEnabled \ {t.user}
  /\ UNCHANGED <<now, active, lockVars, otp, tokenVars, replayVars, req, requests,
                 logins>>

\* The panel suspends a user, or takes the suspension back.
PanelUpdateStatus(u) ==
  /\ Operate
  /\ active' = IF u \in active THEN active \ {u} ELSE active \cup {u}
  /\ UNCHANGED <<now, otpEnabled, lockVars, otp, tokenVars, replayVars, req, requests,
                 logins>>

\* A bet's nonce at the replay guard.
CheckNonce(n) ==
  /\ requests < MaxRequests /\ requests' = requests + 1
  /\ seen[n] = NoTime
  /\ seen' = [seen EXCEPT ![n] = now] /\ taken' = [taken EXCEPT ![n] = now]
  /\ UNCHANGED <<now, userVars, lockVars, otp, tokenVars, starts, req, operations,
                 logins>>

-----------------------------------------------------------------------------
\* The clock, and the loops that forget what is old.

Tick ==
  /\ now < MaxTime /\ now' = now + 1
  /\ UNCHANGED <<userVars, lockVars, otp, tokenVars, replayVars, req, requests,
                 operations, logins>>

StaleTokens == {t \in DOMAIN times : now - times[t] > RefreshTTL}

Cleanup ==
  /\ blacklist' = Forget(blacklist, {t \in DOMAIN blacklist : now > blacklist[t]})
  /\ otp' = [u \in User |-> IF now > otp[u].expiry THEN NoOTP ELSE otp[u]]
  /\ refresh' = refresh \ StaleTokens /\ times' = Forget(times, StaleTokens)
  /\ attempts' = [u \in User |->
                    IF now - attempts[u].last > LockFor THEN NoAttempt ELSE attempts[u]]
  /\ UNCHANGED <<now, userVars, tried, strikes, blocked, handed, revoked, dropped,
                 replayVars, req, requests, operations, logins>>

CleanupBlocked ==
  /\ blocked' = [ip \in IP |-> IF now > blocked[ip] THEN NoTime ELSE blocked[ip]]
  /\ UNCHANGED <<now, userVars, attempts, tried, strikes, otp, tokenVars, replayVars,
                 req, requests, operations, logins>>

\* Mutant: the replay guard forgets every nonce.
AllNonces == Nonce

OldNonces == {n \in Nonce : now - seen[n] > NonceWindow}

CleanupNonces ==
  /\ seen' = [n \in Nonce |-> IF n \in OldNonces THEN NoTime ELSE seen[n]]
  /\ UNCHANGED <<now, userVars, lockVars, otp, tokenVars, taken, starts, req, requests,
                 operations, logins>>

\* The process ends and another begins, with empty maps and the same key.  A user's status
\* is in the table; its column otp_enabled stays FALSE, for nothing writes it.
Restart ==
  /\ starts < MaxStarts /\ starts' = starts + 1
  /\ otpEnabled' = {}
  /\ attempts' = [u \in User |-> NoAttempt] /\ tried' = [u \in User |-> 0]
  /\ strikes' = [ip \in IP |-> 0] /\ blocked' = [ip \in IP |-> NoTime]
  /\ otp' = [u \in User |-> NoOTP]
  /\ refresh' = {} /\ times' = [t \in {} |-> 0] /\ blacklist' = [t \in {} |-> 0]
  /\ dropped' = DOMAIN revoked
  /\ seen' = [n \in Nonce |-> NoTime] /\ taken' = [n \in Nonce |-> NoTime]
  /\ req' = [p \in Proc |-> Idle]
  /\ UNCHANGED <<now, active, handed, revoked, requests, operations, logins>>

-----------------------------------------------------------------------------

Serve(p) ==
  \/ \E u \in User, ip \in IP, right \in BOOLEAN : Login(p, u, ip, right)
  \/ CheckLoginAttempt(p) \/ RecordFailedLogin(p) \/ RecordFailure(p)
  \/ RecordSuccess(p) \/ Admit(p)
  \/ \E u \in User, code \in Code : ReadOTP(p, u, code)
  \/ DeleteOTP(p) \/ ClearLoginAttempts(p)
  \/ \E t \in refresh : Refresh(p, t)
  \/ \E issued \in 0..now : IssueTokens(p, issued)

WithToken(t) ==
  \/ Logout(t) \/ LogoutAllSessions(t)
  \/ \E code \in Code : OTPGenerate(t, code)
  \/ \E enable \in BOOLEAN : OTPEnable(t, enable)

Next ==
  \/ \E p \in Proc : Serve(p)
  \/ \E s \in handed, ttl \in {AccessTTL, RefreshTTL} :
       WithToken([s EXCEPT !.ttl = ttl])
  \/ \E u \in User : PanelUpdateStatus(u)
  \/ \E n \in Nonce : CheckNonce(n)
  \/ Tick \/ Cleanup \/ CleanupBlocked \/ CleanupNonces \/ Restart

Spec == Init /\ [][Next]_vars

-----------------------------------------------------------------------------

Time == 0..MaxTime
TimeOrNone == Time \cup {NoTime}
Deadline == Nat \cup {NoTime}

Request ==
  {Idle}
  \cup [at : {"check", "verify", "strike", "success", "admit"},
        user : User, ip : IP, right : BOOLEAN]
  \cup [at : {"otp"}, user : User]
  \cup [at : {"clear"}, user : User, ip : IP, right : BOOLEAN]
  \cup [at : {"clear"}, user : User]
  \cup [at : {"issue"}, user : User, since : Time]

\* Values of every variable.
TypeOK ==
  /\ now \in Time
  /\ active \subseteq User /\ otpEnabled \subseteq User
  /\ attempts \in [User -> [count : Nat, last : TimeOrNone, until : Deadline]]
  /\ strikes \in [IP -> 0..MaxStrikes - 1] /\ blocked \in [IP -> Deadline]
  /\ otp \in [User -> [code : Code, expiry : Nat] \cup {NoOTP}]
  /\ refresh \subseteq DOMAIN times
  /\ DOMAIN times \subseteq Token /\ times \in [DOMAIN times -> Time]
  /\ DOMAIN blacklist \subseteq Token /\ blacklist \in [DOMAIN blacklist -> Nat]
  /\ seen \in [Nonce -> TimeOrNone] /\ taken \in [Nonce -> TimeOrNone]
  /\ req \in [Proc -> Request]
  /\ requests \in Nat /\ operations \in Nat /\ starts \in Nat
  /\ logins \in [User -> Nat] /\ tried \in [User -> Nat]
  /\ handed \subseteq Token /\ dropped \subseteq DOMAIN revoked
  /\ DOMAIN revoked \subseteq Token /\ revoked \in [DOMAIN revoked -> Time]

\* What SessionPool promises: a refresh gives one token for one, whatever else is
\* under way, so no user has more sessions than logins since they were last ended.
Issuing(u) ==
  {p \in Proc : req[p] # Idle /\ req[p].at \in {"clear", "issue"} /\ req[p].user = u}
GoodTokens(u) == {t \in refresh : t.user = u}

Pool == INSTANCE SessionPool WITH
  logins <- logins,
  sessions <- [u \in User |-> Cardinality(GoodTokens(u)) + Cardinality(Issuing(u))]

PoolSpec == Pool!Spec

\* Every variable has a value of its kind, and the brute-force lock works for requests in
\* flight too: no more bad passwords of a user are tried in a row than lock the name, and
\* one for every other goroutine whose check came before the lock.
BoundedGuesses ==
  /\ TypeOK
  /\ \A u \in User : tried[u] <= MaxAttempts + Cardinality(Proc) - 1

\* A logged-out token that has not expired comes back when its entry in the blacklist
\* ends, a day after the logout, or with a restart, and not before, whatever the cleanup
\* loop forgets.  For an access token that is never while the process runs: it expires
\* first.  A refresh token, which the bearer check takes too, outlives the entry.
LogoutLasts ==
  \A t \in DOMAIN revoked :
    /\ Accepted(t) <=> now < t.issued + t.ttl
                        /\ (t \in dropped \/ revoked[t] + BlacklistFor <= now)
    /\ t.ttl = AccessTTL /\ t \notin dropped => ~Accepted(t)

\* main.go, "reject duplicate nonces within 5 min".  (A restart forgets them all.)
NonceOncePerWindow ==
  [][\A n \in Nonce : taken'[n] \notin {taken[n], NoTime} /\ taken[n] # NoTime
        => now - taken[n] > NonceWindow]_vars

=============================================================================
