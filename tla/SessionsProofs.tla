---------------------------- MODULE SessionsProofs ----------------------------
(***************************************************************************)
(* Sessions for every number of users, goroutines, tokens and restarts:    *)
(* when a logged-out token is let in again, a nonce is taken once a window,*)
(* the tokens implement SessionPool, and the lock of a name bounds the bad *)
(* passwords tried of it.                                                  *)
(*                                                                         *)
(* Then what a restart of the mock server meets in the tables. Mirror:     *)
(* until a number is lost, what memory says of a user its row says, or a   *)
(* statement that is still to run will make it say (FollowInv). Notices: a *)
(* user above the one an event is about has one row of it, or one request  *)
(* that has still to tell him, or is known to have lost it (Place); the    *)
(* lists the requests work through name no one twice.                      *)
(***************************************************************************)
EXTENDS Sessions, Mirror, Notices, SumTheorems, SequenceTheorems

\* The requests have their kinds.
ReqOK == now \in Nat /\ now <= MaxTime /\ req \in [Proc -> Request]

\* The entry of a logged-out token: none since a restart, BlacklistFor from the logout, or
\* gone when that is over.
Entry(t) ==
  IF t \in dropped THEN t \notin DOMAIN blacklist
  ELSE IF t \in DOMAIN blacklist THEN blacklist[t] = revoked[t] + BlacklistFor
  ELSE revoked[t] + BlacklistFor <= now

\* A token that was logged out was handed out before, and has its entry.
RevokedOK(t) ==
  /\ t \in Token /\ HandedOut(t)
  /\ revoked[t] \in Nat /\ t.issued <= revoked[t] /\ revoked[t] <= now
  /\ Entry(t)

\* Tokens were issued by now, refresh tokens are on record.
TokenOK ==
  /\ handed \subseteq Token /\ \A t \in handed : t.issued <= now
  /\ DOMAIN times \subseteq handed
  /\ refresh \subseteq DOMAIN times /\ IsFiniteSet(refresh)
  /\ dropped \subseteq DOMAIN revoked
  /\ \A t \in DOMAIN revoked : RevokedOK(t)

\* A nonce that was taken is remembered or older than the window.
NonceOK ==
  /\ seen \in [Nonce -> TimeOrNone] /\ taken \in [Nonce -> TimeOrNone] /\ starts \in Nat
  /\ \A n \in Nonce : taken[n] # NoTime => seen[n] = taken[n] \/ now - taken[n] > NonceWindow

Inv == ReqOK /\ TokenOK /\ NonceOK

LoginSteps == {"check", "verify", "strike", "success", "admit"}
LoginRequest == [at : LoginSteps, user : User, ip : IP, right : BOOLEAN]

LEMMA Constants ==
  /\ AccessTTL \in Nat /\ RefreshTTL \in Nat /\ BlacklistFor \in Nat /\ NonceWindow \in Nat
  /\ AccessTTL <= BlacklistFor /\ MaxTime \in Nat /\ NoTime = -1 /\ IsFiniteSet(Proc)
BY SessionsAssumption

\* Whatever a goroutine serves is of a user.
LEMMA RequestUser ==
  ASSUME NEW r \in Request, r # Idle
  PROVE  r.user \in User
BY DEF Request

\* A login that is under way, by its step.
LEMMA LoginRequests ==
  ASSUME NEW r \in Request, r.at \in LoginSteps
  PROVE  r \in LoginRequest
BY DEF Request, LoginSteps, LoginRequest, Idle

\* The step a request goes on to.
LEMMA Onward ==
  ASSUME NEW r \in LoginRequest, NEW step \in LoginSteps \cup {"clear"}
  PROVE  /\ [r EXCEPT !.at = step] \in Request
         /\ [r EXCEPT !.at = step].at = step
         /\ [r EXCEPT !.at = step].user = r.user
BY DEF Request, LoginRequest, LoginSteps

\* An OTP request likewise.
LEMMA OTPOnward ==
  ASSUME NEW r \in Request, r.at = "otp"
  PROVE  /\ [r EXCEPT !.at = "clear"] \in Request
         /\ [r EXCEPT !.at = "clear"].at = "clear"
         /\ [r EXCEPT !.at = "clear"].user = r.user
<1>1. r \in [at : {"otp"}, user : User]
  BY DEF Request, Idle
<1>2. [r EXCEPT !.at = "clear"] \in [at : {"clear"}, user : User]
  BY <1>1
<1> QED BY <1>1, <1>2 DEF Request

-----------------------------------------------------------------------------
\* Requests

\* One request changes, to one of its kind.
LEMMA OneRequest ==
  ASSUME ReqOK, NEW p \in Proc, NEW r \in Request, req' = [req EXCEPT ![p] = r], now' = now
  PROVE  ReqOK'
BY DEF ReqOK

LEMMA ServeReq ==
  ASSUME ReqOK, TokenOK, NEW p \in Proc, Serve(p)
  PROVE  ReqOK'
<1> USE DEF ReqOK
<1>0. Idle \in Request
  BY DEF Request
<1>1. ASSUME NEW u \in User, NEW ip \in IP, NEW right \in BOOLEAN, Login(p, u, ip, right)
      PROVE  ReqOK'
  <2>1. [at |-> "check", user |-> u, ip |-> ip, right |-> right] \in Request
    BY DEF Request
  <2> QED BY <1>1, <2>1, OneRequest DEF Login, Begin
<1>2. CASE CheckLoginAttempt(p)
  <2>1. req[p] \in LoginRequest
    BY <1>2, LoginRequests DEF CheckLoginAttempt, At, LoginSteps
  <2>2. [req[p] EXCEPT !.at = "success"] \in Request /\ [req[p] EXCEPT !.at = "verify"] \in Request
    BY <2>1, Onward DEF LoginSteps
  <2> QED BY <1>0, <1>2, <2>2, OneRequest DEF CheckLoginAttempt, Answer, Goto
<1>3. CASE RecordFailedLogin(p)
  <2>1. req[p] \in LoginRequest
    BY <1>3, LoginRequests DEF RecordFailedLogin, At, LoginSteps
  <2>2. [req[p] EXCEPT !.at = "strike"] \in Request
    BY <2>1, Onward DEF LoginSteps
  <2> QED BY <1>0, <1>3, <2>2, OneRequest DEF RecordFailedLogin, Answer, Goto
<1>4. CASE RecordFailure(p)
  BY <1>0, <1>4, OneRequest DEF RecordFailure, Answer
<1>5. CASE RecordSuccess(p)
  <2>1. req[p] \in LoginRequest
    BY <1>5, LoginRequests DEF RecordSuccess, At, LoginSteps
  <2>2. [req[p] EXCEPT !.at = "admit"] \in Request
    BY <2>1, Onward DEF LoginSteps
  <2> QED BY <1>5, <2>2, OneRequest DEF RecordSuccess, Goto
<1>6. CASE Admit(p)
  <2>1. req[p] \in LoginRequest
    BY <1>6, LoginRequests DEF Admit, At, LoginSteps
  <2>2. [req[p] EXCEPT !.at = "clear"] \in Request
    BY <2>1, Onward
  <2> QED BY <1>0, <1>6, <2>2, OneRequest DEF Admit, Answer, Goto
<1>7. ASSUME NEW u \in User, NEW code \in Code, ReadOTP(p, u, code)
      PROVE  ReqOK'
  <2>1. [at |-> "otp", user |-> u] \in Request
    BY DEF Request
  <2> QED BY <1>7, <2>1, OneRequest DEF ReadOTP, Begin
<1>8. CASE DeleteOTP(p)
  <2>1. [req[p] EXCEPT !.at = "clear"] \in Request
    BY <1>8, OTPOnward DEF DeleteOTP, At
  <2> QED BY <1>8, <2>1, OneRequest DEF DeleteOTP, Goto
<1>9. CASE ClearLoginAttempts(p)
  <2>1. req[p].user \in User
    BY <1>9, RequestUser DEF ClearLoginAttempts, At
  <2>2. now \in Time
    BY Constants DEF Time
  <2>3. [at |-> "issue", user |-> req[p].user, since |-> now] \in Request
    BY <2>1, <2>2 DEF Request
  <2> QED BY <1>9, <2>3, OneRequest DEF ClearLoginAttempts
<1>10. ASSUME NEW t \in refresh, Refresh(p, t)
       PROVE  ReqOK'
  <2>1. t.user \in User
    BY DEF TokenOK, Token
  <2>2. now \in Time
    BY Constants DEF Time
  <2>3. [at |-> "issue", user |-> t.user, since |-> now] \in Request
    BY <2>1, <2>2 DEF Request
  <2> QED BY <1>10, <2>3, OneRequest DEF Refresh, Begin
<1>11. ASSUME NEW issued \in 0..now, IssueTokens(p, issued)
       PROVE  ReqOK'
  BY <1>0, <1>11, OneRequest DEF IssueTokens, Answer
<1> QED BY <1>1, <1>2, <1>3, <1>4, <1>5, <1>6, <1>7, <1>8, <1>9, <1>10, <1>11 DEF Serve

\* The steps that serve no request of the table: Next without Serve and Restart.
Others ==
  \/ \E s \in handed, ttl \in {AccessTTL, RefreshTTL} :
       WithToken([s EXCEPT !.ttl = ttl])
  \/ \E u \in User : PanelUpdateStatus(u)
  \/ \E n \in Nonce : CheckNonce(n)
  \/ Tick \/ Cleanup \/ CleanupBlocked \/ CleanupNonces

LEMMA OthersReq ==
  ASSUME ReqOK, Others
  PROVE  ReqOK' /\ req' = req /\ logins' = logins
<1> USE DEF ReqOK
<1>1. ASSUME NEW t, WithToken(t) PROVE now' = now /\ req' = req /\ logins' = logins
  BY <1>1 DEF WithToken, Logout, LogoutAllSessions, OTPGenerate, OTPEnable
<1>2. ASSUME NEW u \in User, PanelUpdateStatus(u) PROVE now' = now /\ req' = req /\ logins' = logins
  BY <1>2 DEF PanelUpdateStatus
<1>3. ASSUME NEW n \in Nonce, CheckNonce(n) PROVE now' = now /\ req' = req /\ logins' = logins
  BY <1>3 DEF CheckNonce
<1>4. CASE Tick
  BY <1>4, Constants DEF Tick
<1>5. CASE Cleanup \/ CleanupBlocked \/ CleanupNonces
  BY <1>5 DEF Cleanup, CleanupBlocked, CleanupNonces
<1> QED BY <1>1, <1>2, <1>3, <1>4, <1>5 DEF Others

LEMMA RestartReq ==
  ASSUME ReqOK, Restart
  PROVE  ReqOK'
<1>1. Idle \in Request
  BY DEF Request
<1> QED BY <1>1 DEF ReqOK, Restart

-----------------------------------------------------------------------------
\* Tokens

\* Nothing is issued, revoked or forgotten, and no time passes.
LEMMA SameTokens ==
  ASSUME TokenOK, UNCHANGED <<tokenVars, now>>
  PROVE  TokenOK'
BY DEF TokenOK, RevokedOK, Entry, HandedOut, tokenVars, logoutVars

\* Logins and refreshes leave the logouts as they are.
LEMMA SameRevoked ==
  ASSUME TokenOK, UNCHANGED <<logoutVars, now>>, handed \subseteq handed'
  PROVE  dropped' \subseteq DOMAIN revoked' /\ \A t \in DOMAIN revoked' : RevokedOK(t)'
BY DEF TokenOK, RevokedOK, Entry, HandedOut, logoutVars

LEMMA ServeTokens ==
  ASSUME ReqOK, TokenOK, NEW p \in Proc, Serve(p)
  PROVE  TokenOK'
<1>1. ASSUME NEW u \in User, NEW ip \in IP, NEW right \in BOOLEAN, Login(p, u, ip, right)
      PROVE  TokenOK'
  BY <1>1, SameTokens DEF Login, tokenVars
<1>2. CASE CheckLoginAttempt(p) \/ RecordFailedLogin(p) \/ RecordFailure(p) \/ RecordSuccess(p)
  BY <1>2, SameTokens
     DEF CheckLoginAttempt, RecordFailedLogin, RecordFailure, RecordSuccess, tokenVars
<1>3. CASE Admit(p) \/ DeleteOTP(p) \/ ClearLoginAttempts(p)
  BY <1>3, SameTokens DEF Admit, DeleteOTP, ClearLoginAttempts, tokenVars
<1>4. ASSUME NEW u \in User, NEW code \in Code, ReadOTP(p, u, code)
      PROVE  TokenOK'
  BY <1>4, SameTokens DEF ReadOTP, tokenVars
<1>5. ASSUME NEW t \in refresh, Refresh(p, t)
      PROVE  TokenOK'
  <2>1. refresh' = refresh \ {t} /\ UNCHANGED <<times, handed, logoutVars, now>>
    BY <1>5 DEF Refresh, Redeemed
  <2>2. IsFiniteSet(refresh')
    BY <2>1, FS_RemoveElement DEF TokenOK
  <2>3. dropped' \subseteq DOMAIN revoked' /\ \A x \in DOMAIN revoked' : RevokedOK(x)'
    BY <2>1, SameRevoked
  <2> QED BY <2>1, <2>2, <2>3 DEF TokenOK
<1>6. ASSUME NEW issued \in 0..now, IssueTokens(p, issued)
      PROVE  TokenOK'
  <2> DEFINE t == [user |-> req[p].user, issued |-> issued, ttl |-> RefreshTTL]
  <2>1. refresh' = refresh \cup {t} /\ DOMAIN times' = DOMAIN times \cup {t}
        /\ handed' = handed \cup {t} /\ UNCHANGED <<logoutVars, now>>
    BY <1>6 DEF IssueTokens
  <2>2. req[p] \in Request /\ req[p] # Idle
    BY <1>6 DEF IssueTokens, At, ReqOK
  <2>3. req[p].user \in User
    BY <2>2, RequestUser
  <2>4. issued \in 0..MaxTime /\ issued <= now
    BY <1>6, Constants DEF ReqOK
  <2>5. t \in Token
    BY <2>3, <2>4 DEF Token
  <2>6. t.issued <= now
    BY <2>4
  <2>7. IsFiniteSet(refresh')
    BY <2>1, FS_AddElement DEF TokenOK
  <2> HIDE DEF t
  <2>8. dropped' \subseteq DOMAIN revoked' /\ \A x \in DOMAIN revoked' : RevokedOK(x)'
    BY <2>1, SameRevoked
  <2> QED BY <2>1, <2>5, <2>6, <2>7, <2>8 DEF TokenOK
<1> QED BY <1>1, <1>2, <1>3, <1>4, <1>5, <1>6 DEF Serve

\* A logout puts the token on the list for BlacklistFor from now.
LEMMA LogoutTokens ==
  ASSUME ReqOK, TokenOK, NEW s \in handed, NEW ttl \in {AccessTTL, RefreshTTL},
         Logout([s EXCEPT !.ttl = ttl])
  PROVE  TokenOK'
<1> DEFINE t == [s EXCEPT !.ttl = ttl]
<1>1. s \in Token /\ s.issued <= now
  BY DEF TokenOK
<1>2. t \in Token /\ t.issued = s.issued
  BY <1>1 DEF Token
<1>3. now \in Nat /\ t.issued <= now /\ HandedOut(t)
  BY <1>1, <1>2 DEF ReqOK, Logout
<1> HIDE DEF t
<1>4. /\ blacklist' = [x \in DOMAIN blacklist \cup {t} |->
                         IF x = t THEN now + BlacklistFor ELSE blacklist[x]]
      /\ revoked' = [x \in DOMAIN revoked \cup {t} |-> IF x = t THEN now ELSE revoked[x]]
      /\ dropped' = dropped \ {t}
      /\ UNCHANGED <<refresh, times, handed, now>>
  BY DEF t, Logout, RevokedUntil
<1>5. ASSUME NEW x \in DOMAIN revoked'
      PROVE  RevokedOK(x)'
  <2>1. CASE x = t
    BY <1>2, <1>3, <1>4, <2>1 DEF RevokedOK, HandedOut, Entry
  <2>2. CASE x # t
    <3>1. RevokedOK(x)
      BY <1>4, <1>5, <2>2 DEF TokenOK
    <3> QED BY <1>4, <1>5, <2>2, <3>1 DEF RevokedOK, HandedOut, Entry
  <2> QED BY <2>1, <2>2
<1> QED BY <1>4, <1>5 DEF TokenOK

\* What the cleanup loop forgets of the blacklist is over.
LEMMA CleanupTokens ==
  ASSUME ReqOK, TokenOK, Cleanup
  PROVE  TokenOK'
<1> DEFINE old == {t \in DOMAIN blacklist : now > blacklist[t]}
<1>1. /\ blacklist' = [k \in DOMAIN blacklist \ old |-> blacklist[k]]
      /\ times' = [k \in DOMAIN times \ StaleTokens |-> times[k]]
      /\ refresh' = refresh \ StaleTokens /\ UNCHANGED <<handed, revoked, dropped, now>>
  BY DEF Cleanup, Forget
<1>2. DOMAIN times' = DOMAIN times \ StaleTokens /\ DOMAIN blacklist' = DOMAIN blacklist \ old
  BY <1>1
<1>3. IsFiniteSet(refresh')
  BY <1>1, FS_Subset DEF TokenOK
<1>4. ASSUME NEW t \in DOMAIN revoked'
      PROVE  RevokedOK(t)'
  <2>1. RevokedOK(t)
    BY <1>1, <1>4 DEF TokenOK
  <2>2. CASE t \in old
    <3>1. now > blacklist[t] /\ t \notin DOMAIN blacklist'
      BY <1>2, <2>2
    <3> QED BY <1>1, <2>1, <2>2, <3>1, Constants DEF RevokedOK, HandedOut, Entry, ReqOK
  <2>3. CASE t \notin old
    BY <1>1, <1>2, <2>1, <2>3 DEF RevokedOK, HandedOut, Entry
  <2> QED BY <2>2, <2>3
<1> QED BY <1>1, <1>2, <1>3, <1>4 DEF TokenOK

\* After a restart no token has an entry.
LEMMA RestartTokens ==
  ASSUME TokenOK, Restart
  PROVE  TokenOK'
<1>1. /\ refresh' = {} /\ DOMAIN times' = {} /\ DOMAIN blacklist' = {}
      /\ dropped' = DOMAIN revoked /\ UNCHANGED <<handed, revoked, now>>
  BY DEF Restart
<1>2. IsFiniteSet(refresh')
  BY <1>1, FS_EmptySet
<1>3. \A t \in DOMAIN revoked' : RevokedOK(t)'
  BY <1>1 DEF TokenOK, RevokedOK, HandedOut, Entry
<1> QED BY <1>1, <1>2, <1>3 DEF TokenOK

LEMMA OthersTokens ==
  ASSUME ReqOK, TokenOK, Others
  PROVE  TokenOK'
<1>1. ASSUME NEW s \in handed, NEW ttl \in {AccessTTL, RefreshTTL},
             WithToken([s EXCEPT !.ttl = ttl])
      PROVE  TokenOK'
  <2> DEFINE t == [s EXCEPT !.ttl = ttl]
  <2>1. CASE Logout(t)
    BY <2>1, LogoutTokens
  <2>2. CASE LogoutAllSessions(t)
    <3>1. refresh' = {x \in refresh : x.user # t.user}
          /\ UNCHANGED <<times, handed, logoutVars, now>>
      BY <2>2 DEF LogoutAllSessions
    <3> HIDE DEF t
    <3>2. IsFiniteSet(refresh')
      BY <3>1, FS_Subset DEF TokenOK
    <3>3. dropped' \subseteq DOMAIN revoked' /\ \A x \in DOMAIN revoked' : RevokedOK(x)'
      BY <3>1, SameRevoked
    <3> QED BY <3>1, <3>2, <3>3 DEF TokenOK
  <2>3. ASSUME NEW code \in Code, OTPGenerate(t, code)
        PROVE  TokenOK'
    BY <2>3, SameTokens DEF OTPGenerate, tokenVars
  <2>4. ASSUME NEW enable \in BOOLEAN, OTPEnable(t, enable)
        PROVE  TokenOK'
    BY <2>4, SameTokens DEF OTPEnable, tokenVars
  <2> QED BY <1>1, <2>1, <2>2, <2>3, <2>4 DEF WithToken
<1>2. ASSUME NEW u \in User, PanelUpdateStatus(u) PROVE TokenOK'
  BY <1>2, SameTokens DEF PanelUpdateStatus, tokenVars
<1>3. ASSUME NEW n \in Nonce, CheckNonce(n) PROVE TokenOK'
  BY <1>3, SameTokens DEF CheckNonce, tokenVars
<1>4. CASE Tick
  <2>1. now' = now + 1 /\ now \in Nat /\ UNCHANGED tokenVars
    BY <1>4 DEF Tick, ReqOK
  <2>2. \A t \in Token : t.issued \in Nat
    BY Constants DEF Token
  <2>3. \A t \in handed : t.issued <= now'
    BY <2>1, <2>2 DEF TokenOK
  <2>4. ASSUME NEW t \in DOMAIN revoked PROVE RevokedOK(t)'
    <3>1. RevokedOK(t) /\ t.issued \in Nat
      BY <2>2, <2>4 DEF TokenOK, RevokedOK
    <3> QED BY <2>1, <2>4, <3>1, Constants
            DEF RevokedOK, Entry, HandedOut, tokenVars, logoutVars
  <2> QED BY <2>1, <2>3, <2>4 DEF TokenOK, tokenVars, logoutVars
<1>5. CASE Cleanup
  BY <1>5, CleanupTokens
<1>6. CASE CleanupBlocked \/ CleanupNonces
  BY <1>6, SameTokens DEF CleanupBlocked, CleanupNonces, tokenVars
<1> QED BY <1>1, <1>2, <1>3, <1>4, <1>5, <1>6 DEF Others

-----------------------------------------------------------------------------
\* Nonces

LEMMA SameNonces ==
  ASSUME NonceOK, UNCHANGED <<replayVars, now>>
  PROVE  NonceOK'
BY DEF NonceOK, replayVars

LEMMA ServeNonces ==
  ASSUME NonceOK, NEW p \in Proc, Serve(p)
  PROVE  NonceOK' /\ taken' = taken
<1>1. UNCHANGED <<replayVars, now>>
  BY DEF Serve, Login, CheckLoginAttempt, RecordFailedLogin, RecordFailure, RecordSuccess, Admit,
         ReadOTP, DeleteOTP, ClearLoginAttempts, Refresh, IssueTokens
<1> QED BY <1>1, SameNonces DEF replayVars

LEMMA OthersNonces ==
  ASSUME ReqOK, NonceOK, Others
  PROVE  /\ NonceOK'
         /\ \A n \in Nonce : taken'[n] \notin {taken[n], NoTime} /\ taken[n] # NoTime
              => now - taken[n] > NonceWindow
<1> DEFINE Kept == \A n \in Nonce : taken'[n] \notin {taken[n], NoTime} /\ taken[n] # NoTime
                     => now - taken[n] > NonceWindow
<1>1. ASSUME NEW t, WithToken(t) PROVE NonceOK' /\ Kept
  <2>1. UNCHANGED <<replayVars, now>>
    BY <1>1 DEF WithToken, Logout, LogoutAllSessions, OTPGenerate, OTPEnable
  <2> QED BY <2>1, SameNonces DEF replayVars
<1>2. ASSUME NEW u \in User, PanelUpdateStatus(u) PROVE NonceOK' /\ Kept
  BY <1>2, SameNonces DEF PanelUpdateStatus, replayVars
<1>3. ASSUME NEW n \in Nonce, CheckNonce(n) PROVE NonceOK' /\ Kept
  <2>1. /\ seen[n] = NoTime /\ now' = now
        /\ seen' = [seen EXCEPT ![n] = now] /\ taken' = [taken EXCEPT ![n] = now]
        /\ starts' = starts
    BY <1>3 DEF CheckNonce
  <2>2. now \in TimeOrNone
    BY Constants DEF TimeOrNone, Time, ReqOK
  <2>3. NonceOK'
    BY <2>1, <2>2 DEF NonceOK
  <2>4. Kept
    BY <2>1 DEF NonceOK
  <2> QED BY <2>3, <2>4
<1>4. CASE Tick
  <2>1. now' = now + 1 /\ now \in Nat /\ UNCHANGED <<seen, taken, starts>>
    BY <1>4 DEF Tick, replayVars, ReqOK
  <2>2. ASSUME NEW n \in Nonce, taken[n] # NoTime
        PROVE  seen[n] = taken[n] \/ now' - taken[n] > NonceWindow
    <3>1. taken[n] \in Int
      BY Constants DEF NonceOK, TimeOrNone, Time
    <3> QED BY <2>1, <2>2, <3>1, Constants DEF NonceOK
  <2> QED BY <2>1, <2>2 DEF NonceOK
<1>5. CASE Cleanup \/ CleanupBlocked
  BY <1>5, SameNonces DEF Cleanup, CleanupBlocked, replayVars
<1>6. CASE CleanupNonces
  <2>1. /\ seen' = [n \in Nonce |-> IF n \in OldNonces THEN NoTime ELSE seen[n]]
        /\ UNCHANGED <<taken, starts, now>>
    BY <1>6 DEF CleanupNonces
  <2>2. seen' \in [Nonce -> TimeOrNone]
    BY <2>1 DEF NonceOK, TimeOrNone
  <2>3. ASSUME NEW n \in Nonce, taken[n] # NoTime
        PROVE  seen'[n] = taken[n] \/ now - taken[n] > NonceWindow
    BY <2>1, <2>3 DEF NonceOK, OldNonces
  <2> QED BY <2>1, <2>2, <2>3 DEF NonceOK
<1> QED BY <1>1, <1>2, <1>3, <1>4, <1>5, <1>6 DEF Others

LEMMA RestartNonces ==
  ASSUME NonceOK, Restart
  PROVE  NonceOK' /\ \A n \in Nonce : taken'[n] = NoTime
BY DEF NonceOK, Restart, TimeOrNone

-----------------------------------------------------------------------------

LEMMA InitInv == Init => Inv
<1> SUFFICES ASSUME Init PROVE Inv
  OBVIOUS
<1>1. ReqOK
  BY Constants DEF Init, ReqOK, Request
<1>2. TokenOK
  <2>1. DOMAIN times = {} /\ refresh = {} /\ handed = {} /\ DOMAIN revoked = {} /\ dropped = {}
    BY DEF Init
  <2>2. IsFiniteSet(refresh)
    BY <2>1, FS_EmptySet
  <2> QED BY <2>1, <2>2 DEF TokenOK
<1>3. NonceOK
  BY DEF Init, NonceOK, TimeOrNone
<1> QED BY <1>1, <1>2, <1>3 DEF Inv

LEMMA NextInv == Inv /\ [Next]_vars => Inv'
<1> SUFFICES ASSUME Inv, [Next]_vars PROVE Inv'
  OBVIOUS
<1>1. ASSUME NEW p \in Proc, Serve(p) PROVE Inv'
  BY <1>1, ServeReq, ServeTokens, ServeNonces DEF Inv
<1>2. CASE Others
  BY <1>2, OthersReq, OthersTokens, OthersNonces DEF Inv
<1>3. CASE Restart
  BY <1>3, RestartReq, RestartTokens, RestartNonces DEF Inv
<1>4. CASE UNCHANGED vars
  <2>1. UNCHANGED <<tokenVars, replayVars, req, now>>
    BY <1>4 DEF vars, tokenVars, logoutVars, replayVars
  <2> QED BY <2>1, SameTokens, SameNonces DEF Inv, ReqOK
<1> QED BY <1>1, <1>2, <1>3, <1>4 DEF Next, Others

LEMMA Invariance == Spec => []Inv
BY InitInv, NextInv, PTL DEF Spec

\* A logged-out token is out for as long as its entry, and comes back if it lasts longer: no
\* access token does while the process runs, a refresh token does after a day and any token
\* with a restart, whatever the cleanup loop forgets (handleLogout, auth, startCleanupLoop).
THEOREM LogoutHolds == Spec => []LogoutLasts
<1>1. Inv => LogoutLasts
  <2> SUFFICES ASSUME Inv, NEW t \in DOMAIN revoked
               PROVE  /\ Accepted(t) <=> now < t.issued + t.ttl
                                          /\ (t \in dropped \/ revoked[t] + BlacklistFor <= now)
                      /\ t.ttl = AccessTTL /\ t \notin dropped => ~Accepted(t)
    BY DEF LogoutLasts
  <2>1. now \in Nat /\ RevokedOK(t) /\ t.issued \in Nat
    BY Constants DEF Inv, ReqOK, TokenOK, RevokedOK, Token
  <2>2. Accepted(t) <=> now < t.issued + t.ttl
                         /\ (t \in dropped \/ revoked[t] + BlacklistFor <= now)
    BY <2>1, Constants DEF RevokedOK, Entry, Accepted, Blacklisted
  <2>3. ASSUME t.ttl = AccessTTL, t \notin dropped, Accepted(t) PROVE FALSE
    BY <2>1, <2>2, <2>3, Constants DEF RevokedOK
  <2> QED BY <2>2, <2>3
<1> QED BY <1>1, Invariance, PTL

\* A nonce let through is let through again only when it is older than the window
\* (ReplayGuard.Check, ReplayGuard.cleanup).
THEOREM NoncesOnce == Spec => NonceOncePerWindow
<1> DEFINE Once == \A n \in Nonce : taken'[n] \notin {taken[n], NoTime} /\ taken[n] # NoTime
                     => now - taken[n] > NonceWindow
<1>1. Inv /\ [Next]_vars => [Once]_vars
  <2> SUFFICES ASSUME Inv, Next PROVE Once
    OBVIOUS
  <2>1. ASSUME NEW p \in Proc, Serve(p) PROVE Once
    BY <2>1, ServeNonces DEF Inv
  <2>2. CASE Others
    BY <2>2, OthersNonces DEF Inv
  <2>3. CASE Restart
    BY <2>3, RestartNonces DEF Inv
  <2> QED BY <2>1, <2>2, <2>3 DEF Next, Others
<1> QED BY <1>1, Invariance, PTL DEF Spec, NonceOncePerWindow

-----------------------------------------------------------------------------
\* Refinement of SessionPool

Sess(u) == Cardinality(GoodTokens(u)) + Cardinality(Issuing(u))

LEMMA SessNat ==
  ASSUME TokenOK, NEW u \in User
  PROVE  /\ IsFiniteSet(GoodTokens(u)) /\ Cardinality(GoodTokens(u)) \in Nat
         /\ IsFiniteSet(Issuing(u)) /\ Cardinality(Issuing(u)) \in Nat
         /\ Sess(u) \in Nat
<1>1. IsFiniteSet(GoodTokens(u))
  <2>1. GoodTokens(u) \subseteq refresh
    BY DEF GoodTokens
  <2> QED BY <2>1, FS_Subset DEF TokenOK
<1>2. IsFiniteSet(Issuing(u))
  <2>1. Issuing(u) \subseteq Proc
    BY DEF Issuing
  <2> QED BY <2>1, Constants, FS_Subset
<1> QED BY <1>1, <1>2, FS_CardinalityType DEF Sess

\* Fewer good tokens and fewer on their way are fewer sessions.
LEMMA Fewer ==
  ASSUME TokenOK, NEW u \in User, GoodTokens(u)' \subseteq GoodTokens(u),
         Issuing(u)' \subseteq Issuing(u), TokenOK'
  PROVE  Sess(u)' <= Sess(u)
<1>1. Cardinality(GoodTokens(u)') <= Cardinality(GoodTokens(u))
  BY SessNat, FS_Subset
<1>2. Cardinality(Issuing(u)') <= Cardinality(Issuing(u))
  BY SessNat, FS_Subset
<1>3. /\ Cardinality(GoodTokens(u)') \in Nat /\ Cardinality(GoodTokens(u)) \in Nat
      /\ Cardinality(Issuing(u)') \in Nat /\ Cardinality(Issuing(u)) \in Nat
  <2>1. IsFiniteSet(GoodTokens(u)') /\ IsFiniteSet(Issuing(u)')
    BY SessNat, FS_Subset
  <2> QED BY <2>1, SessNat, FS_CardinalityType
<1> QED BY <1>1, <1>2, <1>3 DEF Sess

\* A goroutine that is not about to issue tokens, and is not after the step.
LEMMA StillNot ==
  ASSUME ReqOK, NEW p \in Proc, NEW r, req' = [req EXCEPT ![p] = r],
         r = Idle \/ r.at \notin {"clear", "issue"}, NEW u \in User
  PROVE  Issuing(u)' \subseteq Issuing(u)
BY DEF Issuing, ReqOK

\* A goroutine that begins to issue tokens to its user, and the sets of procs.
LEMMA Begins ==
  ASSUME ReqOK, NEW p \in Proc, NEW r, req' = [req EXCEPT ![p] = r],
         r # Idle, r.at \in {"clear", "issue"},
         req[p] = Idle \/ req[p].at \notin {"clear", "issue"}, NEW u \in User
  PROVE  IF r.user = u THEN Issuing(u)' = Issuing(u) \cup {p} /\ p \notin Issuing(u)
         ELSE Issuing(u)' = Issuing(u)
BY DEF Issuing, ReqOK

\* Step p of a login, or of any request, that leaves tokens alone and begins no issuing.
LEMMA QuietServe ==
  ASSUME ReqOK, TokenOK, TokenOK', NEW p \in Proc, NEW r, req' = [req EXCEPT ![p] = r],
         r = Idle \/ r.at \notin {"clear", "issue"}, refresh' = refresh
  PROVE  \A u \in User : Sess(u)' <= Sess(u)
<1> SUFFICES ASSUME NEW u \in User PROVE Sess(u)' <= Sess(u)
  OBVIOUS
<1>1. GoodTokens(u)' \subseteq GoodTokens(u)
  BY DEF GoodTokens
<1>2. Issuing(u)' \subseteq Issuing(u)
  BY StillNot
<1> QED BY <1>1, <1>2, Fewer

\* A login is accepted: one more session of its user.
LEMMA LoginServe ==
  ASSUME ReqOK, TokenOK, NEW p \in Proc, NEW r, req' = [req EXCEPT ![p] = r],
         r # Idle, r.at = "clear", r.user \in User,
         req[p] = Idle \/ req[p].at \notin {"clear", "issue"}, refresh' = refresh
  PROVE  \A u \in User : Sess(u)' = IF u = r.user THEN Sess(u) + 1 ELSE Sess(u)
<1> SUFFICES ASSUME NEW u \in User
             PROVE  Sess(u)' = IF u = r.user THEN Sess(u) + 1 ELSE Sess(u)
  OBVIOUS
<1>1. GoodTokens(u)' = GoodTokens(u)
  BY DEF GoodTokens
<1>2. CASE u = r.user
  <2>1. Issuing(u)' = Issuing(u) \cup {p} /\ p \notin Issuing(u)
    BY <1>2, Begins
  <2>2. Cardinality(Issuing(u)') = Cardinality(Issuing(u)) + 1
    BY <2>1, SessNat, FS_AddElement
  <2> QED BY <1>1, <1>2, <2>2, SessNat DEF Sess
<1>3. CASE u # r.user
  <2>1. Issuing(u)' = Issuing(u)
    BY <1>3, Begins
  <2> QED BY <1>1, <1>3, <2>1 DEF Sess
<1> QED BY <1>2, <1>3

\* A refresh gives up a token for the one it is about to be given.
LEMMA RefreshServe ==
  ASSUME ReqOK, TokenOK, NEW p \in Proc, NEW t \in refresh, Refresh(p, t)
  PROVE  \A u \in User : Sess(u)' <= Sess(u)
<1> SUFFICES ASSUME NEW u \in User PROVE Sess(u)' <= Sess(u)
  OBVIOUS
<1> DEFINE r == [at |-> "issue", user |-> t.user, since |-> now]
<1>1. req' = [req EXCEPT ![p] = r] /\ req[p] = Idle /\ refresh' = refresh \ {t}
  BY DEF Refresh, Begin, Redeemed
<1>2. r # Idle /\ r.at = "issue" /\ r.user = t.user
  BY DEF Idle
<1> HIDE DEF r
<1>3. CASE u = t.user
  <2>1. Issuing(u)' = Issuing(u) \cup {p} /\ p \notin Issuing(u)
    BY <1>1, <1>2, <1>3, Begins
  <2>2. Cardinality(Issuing(u)') = Cardinality(Issuing(u)) + 1
    BY <2>1, SessNat, FS_AddElement
  <2>3. GoodTokens(u)' = GoodTokens(u) \ {t} /\ t \in GoodTokens(u)
    BY <1>1, <1>3 DEF GoodTokens
  <2>4. Cardinality(GoodTokens(u)') = Cardinality(GoodTokens(u)) - 1
    BY <2>3, SessNat, FS_RemoveElement
  <2> QED BY <2>2, <2>4, SessNat DEF Sess
<1>4. CASE u # t.user
  <2>1. Issuing(u)' = Issuing(u)
    BY <1>1, <1>2, <1>4, Begins
  <2>2. GoodTokens(u)' = GoodTokens(u)
    BY <1>1, <1>4 DEF GoodTokens
  <2> QED BY <2>1, <2>2, SessNat DEF Sess
<1> QED BY <1>3, <1>4

\* The tokens are issued: a session that was on its way is there.
LEMMA IssueServe ==
  ASSUME ReqOK, TokenOK, TokenOK', NEW p \in Proc, NEW issued \in 0..now, IssueTokens(p, issued)
  PROVE  \A u \in User : Sess(u)' <= Sess(u)
<1> SUFFICES ASSUME NEW u \in User PROVE Sess(u)' <= Sess(u)
  OBVIOUS
<1> DEFINE t == [user |-> req[p].user, issued |-> issued, ttl |-> RefreshTTL]
<1>1. req' = [req EXCEPT ![p] = Idle] /\ refresh' = refresh \cup {t}
      /\ req[p] # Idle /\ req[p].at = "issue" /\ t.user = req[p].user
  BY DEF IssueTokens, Answer, At
<1> HIDE DEF t
<1>2. CASE u = t.user
  <2>1. Issuing(u)' = Issuing(u) \ {p} /\ p \in Issuing(u)
    BY <1>1, <1>2 DEF Issuing, ReqOK
  <2>2. Cardinality(Issuing(u)') = Cardinality(Issuing(u)) - 1
    BY <2>1, SessNat, FS_RemoveElement
  <2>3. GoodTokens(u)' = GoodTokens(u) \cup {t}
    BY <1>1, <1>2 DEF GoodTokens
  <2>4. IsFiniteSet(GoodTokens(u)) /\ Cardinality(GoodTokens(u)) \in Nat
        /\ Cardinality(Issuing(u)) \in Nat
    BY SessNat
  <2>5. Cardinality(GoodTokens(u) \cup {t})
          = IF t \in GoodTokens(u) THEN Cardinality(GoodTokens(u)) ELSE Cardinality(GoodTokens(u)) + 1
    BY <2>4, FS_AddElement
  <2>6. Cardinality(GoodTokens(u)') <= Cardinality(GoodTokens(u)) + 1
        /\ Cardinality(GoodTokens(u)') \in Nat
    <3>1. CASE t \in GoodTokens(u)
      BY <2>3, <2>4, <2>5, <3>1
    <3>2. CASE t \notin GoodTokens(u)
      BY <2>3, <2>4, <2>5, <3>2
    <3> QED BY <3>1, <3>2
  <2> QED BY <2>2, <2>4, <2>6 DEF Sess
<1>3. CASE u # t.user
  <2>1. Issuing(u)' \subseteq Issuing(u)
    BY <1>1, <1>3 DEF Issuing, ReqOK
  <2>2. GoodTokens(u)' \subseteq GoodTokens(u)
    BY <1>1, <1>3 DEF GoodTokens
  <2> QED BY <2>1, <2>2, Fewer
<1> QED BY <1>2, <1>3

PoolEnd == logins' = logins /\ \A u \in User : Sess(u)' <= Sess(u)
PoolLogin ==
  \E v \in User : /\ logins' = [logins EXCEPT ![v] = @ + 1]
                  /\ \A u \in User : Sess(u)' = IF u = v THEN Sess(u) + 1 ELSE Sess(u)

LEMMA ServePool ==
  ASSUME ReqOK, TokenOK, TokenOK', NEW p \in Proc, Serve(p)
  PROVE  PoolEnd \/ PoolLogin
<1>1. ASSUME NEW u \in User, NEW ip \in IP, NEW right \in BOOLEAN, Login(p, u, ip, right)
      PROVE  PoolEnd
  <2> DEFINE r == [at |-> "check", user |-> u, ip |-> ip, right |-> right]
  <2>1. req' = [req EXCEPT ![p] = r] /\ refresh' = refresh /\ logins' = logins
    BY <1>1 DEF Login, Begin, tokenVars
  <2>2. r.at \notin {"clear", "issue"}
    OBVIOUS
  <2> HIDE DEF r
  <2> QED BY <2>1, <2>2, QuietServe DEF PoolEnd
<1>2. CASE CheckLoginAttempt(p) \/ RecordFailedLogin(p) \/ RecordFailure(p) \/ RecordSuccess(p)
  <2>1. req[p] \in LoginRequest
    BY <1>2, LoginRequests
       DEF CheckLoginAttempt, RecordFailedLogin, RecordFailure, RecordSuccess, At, LoginSteps, ReqOK
  <2>2. \A step \in {"success", "verify", "strike", "admit"} :
          [req[p] EXCEPT !.at = step].at \notin {"clear", "issue"}
    BY <2>1, Onward DEF LoginSteps
  <2>3. refresh' = refresh /\ logins' = logins
    BY <1>2 DEF CheckLoginAttempt, RecordFailedLogin, RecordFailure, RecordSuccess, tokenVars
  <2>4. \/ req' = [req EXCEPT ![p] = Idle]
        \/ \E step \in {"success", "verify", "strike", "admit"} :
             req' = [req EXCEPT ![p] = [req[p] EXCEPT !.at = step]]
    BY <1>2 DEF CheckLoginAttempt, RecordFailedLogin, RecordFailure, RecordSuccess, Answer, Goto
  <2> QED BY <2>2, <2>3, <2>4, QuietServe DEF PoolEnd
<1>3. CASE Admit(p)
  <2>1. req[p] \in LoginRequest /\ req[p].at = "admit"
    BY <1>3, LoginRequests DEF Admit, At, LoginSteps, ReqOK
  <2>2. refresh' = refresh
    BY <1>3 DEF Admit, tokenVars
  <2>3. CASE req' = [req EXCEPT ![p] = Idle] /\ logins' = logins
    BY <2>2, <2>3, QuietServe DEF PoolEnd
  <2>4. CASE /\ req' = [req EXCEPT ![p] = [req[p] EXCEPT !.at = "clear"]]
             /\ logins' = [logins EXCEPT ![req[p].user] = @ + 1]
    <3> DEFINE r == [req[p] EXCEPT !.at = "clear"]
    <3>1. r.at = "clear" /\ r.user = req[p].user /\ r.user \in User /\ r # Idle
      BY <2>1, Onward DEF LoginRequest, Idle
    <3> HIDE DEF r
    <3>2. req' = [req EXCEPT ![p] = r]
      BY <2>4 DEF r
    <3>3. \A u \in User : Sess(u)' = IF u = r.user THEN Sess(u) + 1 ELSE Sess(u)
      BY <2>1, <2>2, <3>1, <3>2, LoginServe
    <3> QED BY <2>4, <3>1, <3>3 DEF PoolLogin
  <2> QED BY <1>3, <2>3, <2>4 DEF Admit, Answer, Goto
<1>4. ASSUME NEW u \in User, NEW code \in Code, ReadOTP(p, u, code)
      PROVE  PoolEnd
  <2> DEFINE r == [at |-> "otp", user |-> u]
  <2>1. req' = [req EXCEPT ![p] = r] /\ refresh' = refresh /\ logins' = logins
    BY <1>4 DEF ReadOTP, Begin, tokenVars
  <2>2. r.at \notin {"clear", "issue"}
    OBVIOUS
  <2> HIDE DEF r
  <2> QED BY <2>1, <2>2, QuietServe DEF PoolEnd
<1>5. CASE DeleteOTP(p)
  <2> DEFINE r == [req[p] EXCEPT !.at = "clear"]
  <2>1. req[p] \in Request /\ req[p] # Idle /\ req[p].at = "otp"
    BY <1>5 DEF DeleteOTP, At, ReqOK
  <2>2. r.at = "clear" /\ r.user = req[p].user /\ r.user \in User /\ r # Idle
    BY <2>1, OTPOnward, RequestUser DEF Idle
  <2>3. req' = [req EXCEPT ![p] = r] /\ refresh' = refresh
        /\ logins' = [logins EXCEPT ![req[p].user] = @ + 1]
    BY <1>5 DEF DeleteOTP, Goto, tokenVars
  <2> HIDE DEF r
  <2>4. \A u \in User : Sess(u)' = IF u = r.user THEN Sess(u) + 1 ELSE Sess(u)
    BY <2>1, <2>2, <2>3, LoginServe
  <2> QED BY <2>2, <2>3, <2>4 DEF PoolLogin
<1>6. CASE ClearLoginAttempts(p)
  <2> DEFINE r == [at |-> "issue", user |-> req[p].user, since |-> now]
  <2>1. req' = [req EXCEPT ![p] = r] /\ refresh' = refresh /\ logins' = logins
        /\ req[p] # Idle /\ req[p].at = "clear"
    BY <1>6 DEF ClearLoginAttempts, At, tokenVars
  <2>2. r.user = req[p].user
    OBVIOUS
  <2> HIDE DEF r
  <2>3. ASSUME NEW u \in User PROVE Sess(u)' <= Sess(u)
    <3>1. GoodTokens(u)' \subseteq GoodTokens(u)
      BY <2>1 DEF GoodTokens
    <3>2. Issuing(u)' \subseteq Issuing(u)
      BY <2>1, <2>2 DEF Issuing, ReqOK
    <3> QED BY <3>1, <3>2, Fewer
  <2> QED BY <2>1, <2>3 DEF PoolEnd
<1>7. ASSUME NEW t \in refresh, Refresh(p, t)
      PROVE  PoolEnd
  <2>1. logins' = logins
    BY <1>7 DEF Refresh
  <2> QED BY <1>7, <2>1, RefreshServe DEF PoolEnd
<1>8. ASSUME NEW issued \in 0..now, IssueTokens(p, issued)
      PROVE  PoolEnd
  <2>1. logins' = logins
    BY <1>8 DEF IssueTokens
  <2> QED BY <1>8, <2>1, IssueServe DEF PoolEnd
<1> QED BY <1>1, <1>2, <1>3, <1>4, <1>5, <1>6, <1>7, <1>8 DEF Serve

LEMMA OthersPool ==
  ASSUME ReqOK, TokenOK, TokenOK', Others
  PROVE  PoolEnd
<1>1. req' = req /\ logins' = logins
  BY OthersReq
<1>2. refresh' \subseteq refresh
  <2>1. ASSUME NEW t, WithToken(t) PROVE refresh' \subseteq refresh
    BY <2>1 DEF WithToken, Logout, LogoutAllSessions, OTPGenerate, OTPEnable, tokenVars
  <2>2. ASSUME NEW u \in User, PanelUpdateStatus(u) PROVE refresh' \subseteq refresh
    BY <2>2 DEF PanelUpdateStatus, tokenVars
  <2>3. ASSUME NEW n \in Nonce, CheckNonce(n) PROVE refresh' \subseteq refresh
    BY <2>3 DEF CheckNonce, tokenVars
  <2>4. CASE Tick \/ Cleanup \/ CleanupBlocked \/ CleanupNonces
    BY <2>4 DEF Tick, Cleanup, CleanupBlocked, CleanupNonces, tokenVars
  <2> QED BY <2>1, <2>2, <2>3, <2>4 DEF Others
<1>3. ASSUME NEW u \in User PROVE Sess(u)' <= Sess(u)
  <2>1. GoodTokens(u)' \subseteq GoodTokens(u)
    BY <1>2 DEF GoodTokens
  <2>2. Issuing(u)' \subseteq Issuing(u)
    BY <1>1 DEF Issuing
  <2> QED BY <2>1, <2>2, Fewer
<1> QED BY <1>1, <1>3 DEF PoolEnd

\* A restart ends every session.
LEMMA RestartPool ==
  ASSUME ReqOK, TokenOK, TokenOK', Restart
  PROVE  PoolEnd
<1>1. refresh' = {} /\ req' = [p \in Proc |-> Idle] /\ logins' = logins
  BY DEF Restart
<1>2. ASSUME NEW u \in User PROVE Sess(u)' <= Sess(u)
  <2>1. GoodTokens(u)' \subseteq GoodTokens(u) /\ Issuing(u)' \subseteq Issuing(u)
    BY <1>1 DEF GoodTokens, Issuing
  <2> QED BY <2>1, Fewer
<1> QED BY <1>1, <1>2 DEF PoolEnd

\* The mapping of Sessions' state to SessionPool's.
Mapped == [u \in User |-> Sess(u)]

LEMMA InitPool == Init => Pool!Init
<1> SUFFICES ASSUME Init PROVE Pool!Init
  OBVIOUS
<1>1. ASSUME NEW u \in User
      PROVE  Cardinality(GoodTokens(u)) + Cardinality(Issuing(u)) = 0
  <2>1. GoodTokens(u) = {} /\ Issuing(u) = {}
    BY DEF Init, GoodTokens, Issuing
  <2> QED BY <2>1, FS_EmptySet
<1> QED BY <1>1 DEF Init, Pool!Init

LEMMA NextPool == Inv /\ Inv' /\ [Next]_vars => [Pool!Next]_<<logins, Mapped>>
<1> SUFFICES ASSUME Inv, Inv', [Next]_vars PROVE [Pool!Next]_<<logins, Mapped>>
  OBVIOUS
<1>1. \A u \in User : Sess(u) \in Nat /\ Sess(u)' \in Nat
  <2>1. \A u \in User : Sess(u) \in Nat
    BY SessNat DEF Inv
  <2>2. \A u \in User : Sess(u)' \in Nat
    <3> SUFFICES ASSUME NEW u \in User PROVE Sess(u)' \in Nat
      OBVIOUS
    <3>1. IsFiniteSet(GoodTokens(u)') /\ IsFiniteSet(Issuing(u)')
      <4>1. GoodTokens(u)' \subseteq refresh' /\ IsFiniteSet(refresh')
        BY DEF GoodTokens, Inv, TokenOK
      <4>2. Issuing(u)' \subseteq Proc /\ IsFiniteSet(Proc)
        BY Constants DEF Issuing
      <4> QED BY <4>1, <4>2, FS_Subset
    <3> QED BY <3>1, FS_CardinalityType DEF Sess
  <2> QED BY <2>1, <2>2
<1>2. CASE PoolEnd
  <2>1. Pool!End
    BY <1>1, <1>2 DEF PoolEnd, Pool!End, Sess
  <2> QED BY <2>1 DEF Pool!Next
<1>3. CASE PoolLogin
  <2>1. PICK v \in User : /\ logins' = [logins EXCEPT ![v] = @ + 1]
                          /\ \A u \in User : Sess(u)' = IF u = v THEN Sess(u) + 1 ELSE Sess(u)
    BY <1>3 DEF PoolLogin
  <2>2. Pool!Login(v)
    BY <2>1 DEF Pool!Login, Sess
  <2> QED BY <2>2 DEF Pool!Next
<1>4. CASE UNCHANGED vars
  BY <1>4 DEF vars, tokenVars, Mapped, Sess, GoodTokens, Issuing
<1>5. CASE Next
  <2>1. ASSUME NEW p \in Proc, Serve(p) PROVE PoolEnd \/ PoolLogin
    BY <2>1, ServePool DEF Inv
  <2>2. ASSUME Others PROVE PoolEnd
    BY <2>2, OthersPool DEF Inv
  <2>3. ASSUME Restart PROVE PoolEnd
    BY <2>3, RestartPool DEF Inv
  <2> QED BY <1>2, <1>3, <1>5, <2>1, <2>2, <2>3 DEF Next, Others
<1> QED BY <1>4, <1>5

\* The logins, refreshes, logouts and cleanups of concurrent requests implement the pool of
\* sessions: whatever they interleave, a refresh gives one token for one.
THEOREM PoolRefined == Spec => PoolSpec
<1>1. Inv /\ Inv' /\ [Next]_vars
        => [Pool!Next]_<<logins, [u \in User |-> Cardinality(GoodTokens(u)) + Cardinality(Issuing(u))]>>
  BY NextPool DEF Mapped, Sess
<1> QED BY <1>1, InitPool, Invariance, PTL DEF Spec, PoolSpec, Pool!Spec

-----------------------------------------------------------------------------
\* Bad passwords

Attempt == [count : Nat, last : TimeOrNone, until : Deadline]

\* The goroutines that have passed the check of u's lock with a bad password.
Verifying(u) == {p \in Proc : At(p, "verify") /\ req[p].user = u}

\* The next bad password of u counts on from the last.
Fresh(u) == now - attempts[u].last <= ResetAfter

\* While it does, the store's count is the number tried, a full count has locked the name
\* for longer than it stays fresh, and those tried and those under way are within the bound.
UserGuess(u) ==
  /\ attempts[u].last <= now
  /\ Fresh(u) => attempts[u].count = tried[u]
  /\ attempts[u].count >= MaxAttempts => attempts[u].until >= attempts[u].last + LockFor
  /\ Fresh(u) => tried[u] + Cardinality(Verifying(u)) <= MaxAttempts - 1 + Cardinality(Proc)
  /\ tried[u] <= MaxAttempts - 1 + Cardinality(Proc)

GuessOK ==
  /\ attempts \in [User -> Attempt] /\ tried \in [User -> Nat]
  /\ \A u \in User : UserGuess(u)

LEMMA LockConstants ==
  /\ MaxAttempts \in Nat /\ MaxAttempts >= 1 /\ ResetAfter \in Nat /\ LockFor \in Nat
  /\ ResetAfter < LockFor /\ NoTime = -1 /\ Cardinality(Proc) \in Nat
<1>1. Cardinality(Proc) \in Nat
  BY SessionsAssumption, FS_CardinalityType
<1> QED BY <1>1, SessionsAssumption

\* No more goroutines are trying than there are.
LEMMA VerifyingNat ==
  ASSUME NEW u
  PROVE  /\ IsFiniteSet(Verifying(u)) /\ Cardinality(Verifying(u)) \in Nat
         /\ Cardinality(Verifying(u)) <= Cardinality(Proc)
<1>1. Verifying(u) \subseteq Proc
  BY DEF Verifying
<1> QED BY <1>1, Constants, FS_Subset, FS_CardinalityType

LEMMA VerifyingNatAfter ==
  ASSUME NEW u
  PROVE  /\ IsFiniteSet(Verifying(u)') /\ Cardinality(Verifying(u)') \in Nat
         /\ Cardinality(Verifying(u)') <= Cardinality(Proc)
<1>1. Verifying(u)' \subseteq Proc
  BY DEF Verifying
<1> QED BY <1>1, Constants, FS_Subset, FS_CardinalityType

\* The numbers of an attempt, the clock and what was tried.
LEMMA GuessNumbers ==
  ASSUME ReqOK, GuessOK, NEW u \in User
  PROVE  /\ now \in Nat /\ attempts[u] \in Attempt /\ attempts[u].count \in Nat
         /\ attempts[u].last \in Int /\ attempts[u].last >= -1
         /\ attempts[u].until \in Int /\ tried[u] \in Nat /\ UserGuess(u)
<1>1. now \in Nat /\ attempts[u] \in Attempt /\ tried[u] \in Nat /\ UserGuess(u)
  BY DEF ReqOK, GuessOK
<1>2. attempts[u].last \in TimeOrNone /\ attempts[u].until \in Deadline /\ attempts[u].count \in Nat
  BY <1>1 DEF Attempt
<1>3. attempts[u].last \in Int /\ attempts[u].last >= -1
  BY <1>2, Constants DEF TimeOrNone, Time
<1>4. attempts[u].until \in Int
  BY <1>2, Constants DEF Deadline
<1> QED BY <1>1, <1>2, <1>3, <1>4

\* No bad password of u is counted or forgotten, and no goroutine starts to try one.
LEMMA SameGuess ==
  ASSUME ReqOK, GuessOK, NEW u \in User, now' = now, attempts'[u] = attempts[u],
         tried'[u] = tried[u], Verifying(u)' \subseteq Verifying(u)
  PROVE  UserGuess(u)'
<1>1. Cardinality(Verifying(u)') <= Cardinality(Verifying(u))
  BY VerifyingNat, FS_Subset
<1>2. Cardinality(Verifying(u)') \in Nat /\ Cardinality(Verifying(u)) \in Nat
  BY VerifyingNat, VerifyingNatAfter
<1>3. UserGuess(u) /\ tried[u] \in Nat
  BY GuessNumbers
<1> QED BY <1>1, <1>2, <1>3, LockConstants DEF UserGuess, Fresh

\* A request that does not go on to count a bad password, and leaves the counts alone.
LEMMA QuietGuess ==
  ASSUME ReqOK, GuessOK, now' = now, attempts' = attempts, tried' = tried,
         NEW p \in Proc, NEW r, req' = [req EXCEPT ![p] = r], r = Idle \/ r.at # "verify"
  PROVE  GuessOK'
<1>1. ASSUME NEW u \in User PROVE UserGuess(u)'
  <2>1. Verifying(u)' \subseteq Verifying(u)
    BY DEF Verifying, At, ReqOK
  <2> QED BY <2>1, SameGuess
<1> QED BY <1>1 DEF GuessOK

\* The name is not locked: if its count is fresh, it is below the number that locks it.
LEMMA UnlockedIsBelow ==
  ASSUME ReqOK, GuessOK, NEW u \in User, ~(now < attempts[u].until), Fresh(u)
  PROVE  tried[u] <= MaxAttempts - 1
<1> DEFINE a == attempts[u]
<1>1. /\ now \in Nat /\ a.count \in Nat /\ a.last \in Int /\ a.until \in Int
      /\ tried[u] \in Nat /\ a.count = tried[u] /\ now - a.last <= ResetAfter
      /\ ~(now < a.until)
      /\ a.count >= MaxAttempts => a.until >= a.last + LockFor
  BY GuessNumbers DEF UserGuess, Fresh
<1> HIDE DEF a
<1> QED BY <1>1, LockConstants

\* CheckLoginAttempt: who goes on to try is let through by the lock.
LEMMA CheckGuess ==
  ASSUME ReqOK, GuessOK, NEW p \in Proc, CheckLoginAttempt(p)
  PROVE  GuessOK'
<1>1. /\ req[p] \in LoginRequest /\ req[p].at = "check" /\ req[p].user \in User
      /\ now' = now /\ attempts' = attempts /\ tried' = tried
  BY LoginRequests DEF CheckLoginAttempt, At, LoginSteps, ReqOK, lockVars, LoginRequest
<1>2. CASE req' = [req EXCEPT ![p] = Idle]
  BY <1>1, <1>2, QuietGuess
<1>3. CASE req' = [req EXCEPT ![p] = [req[p] EXCEPT !.at = "success"]]
  <2>1. [req[p] EXCEPT !.at = "success"].at = "success"
    BY <1>1, Onward DEF LoginSteps
  <2> QED BY <1>1, <1>3, <2>1, QuietGuess
<1>4. CASE /\ ~(now < attempts[req[p].user].until)
           /\ req' = [req EXCEPT ![p] = [req[p] EXCEPT !.at = "verify"]]
  <2> DEFINE r == [req[p] EXCEPT !.at = "verify"]
  <2>1. r.at = "verify" /\ r.user = req[p].user
    BY <1>1, Onward DEF LoginSteps
  <2>2. req' = [req EXCEPT ![p] = r]
    BY <1>4
  <2> HIDE DEF r
  <2>3. ASSUME NEW u \in User PROVE UserGuess(u)'
    <3>1. CASE u # req[p].user
      <4>1. Verifying(u)' \subseteq Verifying(u)
        BY <2>1, <2>2, <3>1 DEF Verifying, At, ReqOK
      <4> QED BY <1>1, <4>1, SameGuess
    <3>2. CASE u = req[p].user
      <4>1. Fresh(u) => tried[u] <= MaxAttempts - 1
        BY <1>4, <3>2, UnlockedIsBelow
      <4>2. Cardinality(Verifying(u)') \in Nat
            /\ Cardinality(Verifying(u)') <= Cardinality(Proc)
        BY VerifyingNatAfter
      <4>3. UserGuess(u) /\ tried[u] \in Nat
        BY GuessNumbers
      <4> QED BY <1>1, <4>1, <4>2, <4>3, LockConstants DEF UserGuess, Fresh
    <3> QED BY <3>1, <3>2
  <2> QED BY <1>1, <2>3 DEF GuessOK
<1> QED BY <1>1, <1>2, <1>3, <1>4 DEF CheckLoginAttempt, Answer, Goto

\* One more bad password is within the bound, for one goroutine fewer is trying.
LEMMA FailedGuess ==
  ASSUME ReqOK, GuessOK, NEW p \in Proc, RecordFailedLogin(p),
         NEW u \in User, u = req[p].user
  PROVE  GuessOK'
<1> DEFINE a == attempts[u]
<1>1. /\ req[p] \in LoginRequest /\ req[p].at = "verify" /\ req[p] # Idle
      /\ now' = now /\ At(p, "verify")
  BY LoginRequests DEF RecordFailedLogin, At, LoginSteps, ReqOK, LoginRequest
<1>2. /\ attempts' = [attempts EXCEPT ![u] = Failed(a)]
      /\ tried' = [tried EXCEPT ![u] = IF now - a.last > ResetAfter THEN 1 ELSE tried[u] + 1]
  BY DEF RecordFailedLogin
<1>3. \/ req' = [req EXCEPT ![p] = Idle]
      \/ req' = [req EXCEPT ![p] = [req[p] EXCEPT !.at = "strike"]]
  BY DEF RecordFailedLogin, Answer, Goto
<1>4. [req[p] EXCEPT !.at = "strike"].at = "strike"
  BY <1>1, Onward DEF LoginSteps
<1>5. ASSUME NEW v \in User, v # u PROVE UserGuess(v)'
  <2>1. Verifying(v)' \subseteq Verifying(v)
    BY <1>3, <1>4 DEF Verifying, At, ReqOK
  <2>2. attempts'[v] = attempts[v] /\ tried'[v] = tried[v]
    BY <1>2, <1>5 DEF GuessOK
  <2> QED BY <1>1, <2>1, <2>2, SameGuess
<1>6. /\ Cardinality(Verifying(u)') \in Nat /\ Cardinality(Verifying(u)) \in Nat
      /\ Cardinality(Verifying(u)') = Cardinality(Verifying(u)) - 1
      /\ Cardinality(Verifying(u)) <= Cardinality(Proc)
  <2>1. Verifying(u)' = Verifying(u) \ {p} /\ p \in Verifying(u)
    BY <1>1, <1>3, <1>4 DEF Verifying, At, ReqOK
  <2> QED BY <2>1, VerifyingNat, VerifyingNatAfter, FS_RemoveElement
<1>7. /\ now \in Nat /\ a.count \in Nat /\ a.last \in Int /\ a.last >= -1 /\ a.until \in Int
      /\ a \in Attempt /\ tried[u] \in Nat /\ UserGuess(u)
  BY <1>1, GuessNumbers
<1> DEFINE count == IF now - a.last > ResetAfter THEN 1 ELSE a.count + 1
           more == IF now - a.last > ResetAfter THEN 1 ELSE tried[u] + 1
           until == IF count >= MaxAttempts THEN now + LockFor ELSE a.until
<1>8. /\ attempts'[u] = [count |-> count, last |-> now, until |-> until]
      /\ tried'[u] = more
  BY <1>1, <1>2 DEF GuessOK, Failed
<1>9. count \in Nat /\ more \in Nat /\ until \in Deadline /\ now \in TimeOrNone
  <2>1. a.until \in Deadline
    BY <1>7 DEF Attempt
  <2> QED BY <1>7, <2>1, Constants, LockConstants DEF Deadline, TimeOrNone, Time, ReqOK
<1>10. attempts' \in [User -> Attempt] /\ tried' \in [User -> Nat]
  BY <1>1, <1>2, <1>8, <1>9 DEF GuessOK, Attempt
<1>11. UserGuess(u)'
  <2>1. count = more
    BY <1>7, LockConstants DEF UserGuess, Fresh
  <2>2. count >= MaxAttempts => until = now + LockFor
    OBVIOUS
  <2>3. more + Cardinality(Verifying(u)') <= MaxAttempts - 1 + Cardinality(Proc)
    <3>1. CASE now - a.last > ResetAfter
      BY <1>6, <1>7, <3>1, LockConstants
    <3>2. CASE ~(now - a.last > ResetAfter)
      <4>1. tried[u] + Cardinality(Verifying(u)) <= MaxAttempts - 1 + Cardinality(Proc)
        BY <1>7, <3>2, LockConstants DEF UserGuess, Fresh
      <4>2. more = tried[u] + 1
        BY <3>2
      <4> QED BY ONLY <1>6, <1>7, <4>1, <4>2, LockConstants
    <3> QED BY <3>1, <3>2
  <2>4. more <= MaxAttempts - 1 + Cardinality(Proc)
    BY ONLY <1>6, <1>9, <2>3, LockConstants
  <2>5. /\ attempts'[u].count = count /\ attempts'[u].last = now
        /\ attempts'[u].until = until /\ tried'[u] = more /\ now' = now
    BY <1>1, <1>8
  <2>6. attempts'[u].last <= now'
    BY <1>7, <2>5
  <2>7. attempts'[u].count >= MaxAttempts
          => attempts'[u].until >= attempts'[u].last + LockFor
    BY <1>7, <2>2, <2>5, LockConstants
  <2> HIDE DEF count, more, until
  <2> QED BY <2>1, <2>3, <2>4, <2>5, <2>6, <2>7 DEF UserGuess
<1> QED BY <1>5, <1>10, <1>11 DEF GuessOK

\* A password accepted starts the count of its name again.
LEMMA ClearGuess ==
  ASSUME ReqOK, GuessOK, NEW p \in Proc, ClearLoginAttempts(p),
         NEW u \in User, u = req[p].user
  PROVE  GuessOK'
<1> DEFINE r == [at |-> "issue", user |-> u, since |-> now]
<1>1. req \in [Proc -> Request]
  BY DEF ReqOK
<1>2. /\ attempts' = [attempts EXCEPT ![u] = NoAttempt] /\ tried' = [tried EXCEPT ![u] = 0]
      /\ req' = [req EXCEPT ![p] = r] /\ now' = now /\ r.at = "issue"
  BY DEF ClearLoginAttempts
<1> HIDE DEF r
<1>3. NoAttempt \in Attempt /\ NoAttempt.count = 0 /\ NoAttempt.last = -1
  BY Constants DEF NoAttempt, Attempt, TimeOrNone, Deadline
<1>4. attempts' \in [User -> Attempt] /\ tried' \in [User -> Nat]
  BY <1>2, <1>3 DEF GuessOK
<1>5. ASSUME NEW v \in User, v # u PROVE UserGuess(v)'
  <2>1. Verifying(v)' \subseteq Verifying(v)
    BY <1>2 DEF Verifying, At, ReqOK
  <2>2. attempts'[v] = attempts[v] /\ tried'[v] = tried[v]
    BY <1>2, <1>5 DEF GuessOK
  <2> QED BY <1>2, <2>1, <2>2, SameGuess
<1>6. attempts'[u] = NoAttempt /\ tried'[u] = 0
  BY <1>1, <1>2 DEF GuessOK
<1>7. Cardinality(Verifying(u)') \in Nat /\ Cardinality(Verifying(u)') <= Cardinality(Proc)
  BY VerifyingNatAfter
<1>8. UserGuess(u)'
  BY <1>2, <1>3, <1>6, <1>7, LockConstants DEF UserGuess, Fresh, ReqOK
<1> QED BY <1>4, <1>5, <1>8 DEF GuessOK

LEMMA ServeGuess ==
  ASSUME ReqOK, GuessOK, NEW p \in Proc, Serve(p)
  PROVE  GuessOK'
<1>1. ASSUME NEW u \in User, NEW ip \in IP, NEW right \in BOOLEAN, Login(p, u, ip, right)
      PROVE  GuessOK'
  <2> DEFINE r == [at |-> "check", user |-> u, ip |-> ip, right |-> right]
  <2>1. req' = [req EXCEPT ![p] = r] /\ UNCHANGED <<now, attempts, tried>> /\ r.at # "verify"
    BY <1>1 DEF Login, Begin, lockVars
  <2> HIDE DEF r
  <2> QED BY <2>1, QuietGuess
<1>2. CASE CheckLoginAttempt(p)
  BY <1>2, CheckGuess
<1>3. CASE RecordFailedLogin(p)
  <2>1. req[p].user \in User
    BY <1>3, RequestUser DEF RecordFailedLogin, At, ReqOK
  <2> QED BY <1>3, <2>1, FailedGuess
<1>4. CASE RecordFailure(p) \/ RecordSuccess(p) \/ Admit(p)
  <2>1. req[p] \in LoginRequest
    BY <1>4, LoginRequests DEF RecordFailure, RecordSuccess, Admit, At, LoginSteps, ReqOK
  <2>2. UNCHANGED <<now, attempts, tried>>
    BY <1>4 DEF RecordFailure, RecordSuccess, Admit, lockVars
  <2>3. \A step \in {"admit", "clear"} : [req[p] EXCEPT !.at = step].at # "verify"
    BY <2>1, Onward DEF LoginSteps
  <2>4. \/ req' = [req EXCEPT ![p] = Idle]
        \/ \E step \in {"admit", "clear"} : req' = [req EXCEPT ![p] = [req[p] EXCEPT !.at = step]]
    BY <1>4 DEF RecordFailure, RecordSuccess, Admit, Answer, Goto
  <2> QED BY <2>2, <2>3, <2>4, QuietGuess
<1>5. ASSUME NEW u \in User, NEW code \in Code, ReadOTP(p, u, code)
      PROVE  GuessOK'
  <2> DEFINE r == [at |-> "otp", user |-> u]
  <2>1. req' = [req EXCEPT ![p] = r] /\ UNCHANGED <<now, attempts, tried>> /\ r.at # "verify"
    BY <1>5 DEF ReadOTP, Begin, lockVars
  <2> HIDE DEF r
  <2> QED BY <2>1, QuietGuess
<1>6. CASE DeleteOTP(p)
  <2> DEFINE r == [req[p] EXCEPT !.at = "clear"]
  <2>1. req' = [req EXCEPT ![p] = r] /\ UNCHANGED <<now, attempts, tried>>
    BY <1>6 DEF DeleteOTP, Goto, lockVars
  <2>2. r.at # "verify"
    BY <1>6, OTPOnward DEF DeleteOTP, At, ReqOK
  <2> HIDE DEF r
  <2> QED BY <2>1, <2>2, QuietGuess
<1>7. CASE ClearLoginAttempts(p)
  <2>1. req[p].user \in User
    BY <1>7, RequestUser DEF ClearLoginAttempts, At, ReqOK
  <2> QED BY <1>7, <2>1, ClearGuess
<1>8. ASSUME NEW t \in refresh, Refresh(p, t)
      PROVE  GuessOK'
  <2> DEFINE r == [at |-> "issue", user |-> t.user, since |-> now]
  <2>1. req' = [req EXCEPT ![p] = r] /\ UNCHANGED <<now, attempts, tried>> /\ r.at # "verify"
    BY <1>8 DEF Refresh, Begin, lockVars
  <2> HIDE DEF r
  <2> QED BY <2>1, QuietGuess
<1>9. ASSUME NEW issued \in 0..now, IssueTokens(p, issued)
      PROVE  GuessOK'
  BY <1>9, QuietGuess DEF IssueTokens, Answer, lockVars
<1> QED BY <1>1, <1>2, <1>3, <1>4, <1>5, <1>6, <1>7, <1>8, <1>9 DEF Serve

LEMMA OthersGuess ==
  ASSUME ReqOK, GuessOK, Others
  PROVE  GuessOK'
<1>0. ASSUME UNCHANGED <<now, attempts, tried, req>> PROVE GuessOK'
  BY <1>0 DEF GuessOK, UserGuess, Fresh, Verifying, At
<1>1. ASSUME NEW t, WithToken(t) PROVE GuessOK'
  BY <1>0, <1>1 DEF WithToken, Logout, LogoutAllSessions, OTPGenerate, OTPEnable, lockVars
<1>2. ASSUME NEW u \in User, PanelUpdateStatus(u) PROVE GuessOK'
  BY <1>0, <1>2 DEF PanelUpdateStatus, lockVars
<1>3. ASSUME NEW n \in Nonce, CheckNonce(n) PROVE GuessOK'
  BY <1>0, <1>3 DEF CheckNonce, lockVars
<1>4. CASE Tick
  <2>1. now' = now + 1 /\ UNCHANGED <<attempts, tried, req>>
    BY <1>4 DEF Tick, lockVars
  <2>2. ASSUME NEW u \in User PROVE UserGuess(u)'
    <3>1. Verifying(u)' = Verifying(u)
      BY <2>1 DEF Verifying, At
    <3>2. now \in Nat /\ attempts[u].last \in Int /\ UserGuess(u)
      BY GuessNumbers
    <3>3. Fresh(u)' => Fresh(u)
      BY <2>1, <3>2, LockConstants DEF Fresh
    <3> QED BY <2>1, <3>1, <3>2, <3>3 DEF UserGuess
  <2> QED BY <2>1, <2>2 DEF GuessOK
<1>5. CASE Cleanup
  <2>1. /\ UNCHANGED <<now, tried, req>>
        /\ attempts' = [u \in User |-> IF now - attempts[u].last > LockFor
                                       THEN NoAttempt ELSE attempts[u]]
    BY <1>5 DEF Cleanup
  <2>2. NoAttempt \in Attempt /\ NoAttempt.count = 0 /\ NoAttempt.last = -1
    BY Constants DEF NoAttempt, Attempt, TimeOrNone, Deadline
  <2>3. attempts' \in [User -> Attempt]
    BY <2>1, <2>2 DEF GuessOK
  <2>4. ASSUME NEW u \in User PROVE UserGuess(u)'
    <3>1. Verifying(u)' = Verifying(u)
      BY <2>1 DEF Verifying, At
    <3>2. CASE attempts'[u] = attempts[u]
      BY <2>1, <3>1, <3>2, SameGuess
    <3>3. CASE now - attempts[u].last > LockFor /\ attempts'[u] = NoAttempt
      <4>1. now \in Nat /\ attempts[u].last \in Int /\ attempts[u].last >= -1
            /\ UserGuess(u)
        BY GuessNumbers
      <4>2. now - NoAttempt.last > ResetAfter
        BY <2>2, <3>3, <4>1, LockConstants
      <4>3. ~Fresh(u)'
        BY <2>1, <2>2, <3>3, <4>1, <4>2, LockConstants DEF Fresh
      <4> QED BY <2>1, <2>2, <3>3, <4>1, <4>3, LockConstants DEF UserGuess
    <3> QED BY <2>1, <3>2, <3>3
  <2> QED BY <2>1, <2>3, <2>4 DEF GuessOK
<1>6. CASE CleanupBlocked \/ CleanupNonces
  BY <1>0, <1>6 DEF CleanupBlocked, CleanupNonces, lockVars
<1> QED BY <1>1, <1>2, <1>3, <1>4, <1>5, <1>6 DEF Others

\* A restart forgets what was tried.
LEMMA RestartGuess ==
  ASSUME ReqOK, GuessOK, Restart
  PROVE  GuessOK'
<1>1. NoAttempt \in Attempt /\ NoAttempt.count = 0 /\ NoAttempt.last = -1
  BY Constants DEF NoAttempt, Attempt, TimeOrNone, Deadline
<1>2. attempts' \in [User -> Attempt] /\ tried' \in [User -> Nat]
  BY <1>1 DEF Restart
<1>3. ASSUME NEW u \in User PROVE UserGuess(u)'
  <2>1. attempts'[u] = NoAttempt /\ tried'[u] = 0 /\ now' \in Nat
    BY DEF Restart, ReqOK
  <2>2. Cardinality(Verifying(u)') \in Nat /\ Cardinality(Verifying(u)') <= Cardinality(Proc)
    BY VerifyingNatAfter
  <2> QED BY <1>1, <2>1, <2>2, LockConstants DEF UserGuess, Fresh
<1> QED BY <1>2, <1>3 DEF GuessOK

LEMMA InitGuess == Init => GuessOK
<1> SUFFICES ASSUME Init PROVE GuessOK
  OBVIOUS
<1>1. NoAttempt \in Attempt /\ NoAttempt.count = 0 /\ NoAttempt.last = -1
  BY Constants DEF NoAttempt, Attempt, TimeOrNone, Deadline
<1>2. attempts \in [User -> Attempt] /\ tried \in [User -> Nat]
  BY <1>1 DEF Init
<1>3. ASSUME NEW u \in User PROVE UserGuess(u)
  <2>1. attempts[u] = NoAttempt /\ tried[u] = 0 /\ now = 0
    BY DEF Init
  <2>2. Cardinality(Verifying(u)) \in Nat /\ Cardinality(Verifying(u)) <= Cardinality(Proc)
    BY VerifyingNat
  <2> QED BY <1>1, <2>1, <2>2, LockConstants DEF UserGuess, Fresh
<1> QED BY <1>2, <1>3 DEF GuessOK

-----------------------------------------------------------------------------
\* The types that nothing above needs

UserOK ==
  /\ active \subseteq User /\ otpEnabled \subseteq User
  /\ otp \in [User -> [code : Code, expiry : Nat] \cup {NoOTP}]
  /\ requests \in Nat /\ operations \in Nat /\ logins \in [User -> Nat]

StrikeOK == strikes \in [IP -> 0..MaxStrikes - 1] /\ blocked \in [IP -> Deadline]

TimesOK ==
  /\ times \in [DOMAIN times -> Time]
  /\ DOMAIN blacklist \subseteq Token /\ blacklist \in [DOMAIN blacklist -> Nat]
  /\ revoked \in [DOMAIN revoked -> Time]

RestOK == UserOK /\ StrikeOK /\ TimesOK

LEMMA RestConstants ==
  /\ MaxStrikes \in Nat /\ MaxStrikes >= 1 /\ BlockFor \in Nat /\ OTPFor \in Nat
  /\ BlacklistFor \in Nat /\ NoTime = -1
BY SessionsAssumption

LEMMA SameUsers ==
  ASSUME UserOK, UNCHANGED <<userVars, otp, logins>>, requests' \in Nat, operations' \in Nat
  PROVE  UserOK'
BY DEF UserOK, userVars

LEMMA SameStrikes ==
  ASSUME StrikeOK, UNCHANGED <<strikes, blocked>>
  PROVE  StrikeOK'
BY DEF StrikeOK

LEMMA SameTimes ==
  ASSUME TimesOK, UNCHANGED <<times, blacklist, revoked>>
  PROVE  TimesOK'
BY DEF TimesOK

\* A code is made out to a user, or taken away.
LEMMA NewCode ==
  ASSUME UserOK, ReqOK, NEW u \in User, NEW code \in Code, NewOTP(u, code)
  PROVE  otp' \in [User -> [code : Code, expiry : Nat] \cup {NoOTP}]
<1>1. [code |-> code, expiry |-> now + OTPFor] \in [code : Code, expiry : Nat]
  BY RestConstants DEF ReqOK
<1> QED BY <1>1 DEF NewOTP, UserOK

\* One more login of a user.
LEMMA OneLogin ==
  ASSUME UserOK, NEW u \in User, logins' = [logins EXCEPT ![u] = @ + 1]
  PROVE  logins' \in [User -> Nat]
<1>1. logins[u] + 1 \in Nat
  BY DEF UserOK
<1> QED BY <1>1 DEF UserOK

LEMMA ServeUsers ==
  ASSUME ReqOK, TokenOK, UserOK, NEW p \in Proc, Serve(p)
  PROVE  UserOK'
<1>1. requests + 1 \in Nat
  BY DEF UserOK
<1>2. ASSUME NEW u \in User, NEW ip \in IP, NEW right \in BOOLEAN, Login(p, u, ip, right)
      PROVE  UserOK'
  BY <1>1, <1>2, SameUsers DEF Login, Begin, UserOK
<1>3. CASE CheckLoginAttempt(p) \/ RecordFailedLogin(p)
  BY <1>3, SameUsers DEF CheckLoginAttempt, RecordFailedLogin, UserOK
<1>4. CASE RecordFailure(p) \/ RecordSuccess(p) \/ ClearLoginAttempts(p)
  BY <1>4, SameUsers DEF RecordFailure, RecordSuccess, ClearLoginAttempts, UserOK
<1>5. CASE Admit(p)
  <2>1. req[p].user \in User
    BY <1>5, RequestUser DEF Admit, At, ReqOK
  <2>2. otp' \in [User -> [code : Code, expiry : Nat] \cup {NoOTP}]
    <3>1. CASE otp' = otp
      BY <3>1 DEF UserOK
    <3>2. ASSUME NEW code \in Code, NewOTP(req[p].user, code)
          PROVE  otp' \in [User -> [code : Code, expiry : Nat] \cup {NoOTP}]
      BY <2>1, <3>2, NewCode
    <3> QED BY <1>5, <3>1, <3>2 DEF Admit
  <2>3. logins' \in [User -> Nat]
    <3>1. logins' = logins \/ logins' = [logins EXCEPT ![req[p].user] = @ + 1]
      BY <1>5 DEF Admit
    <3> QED BY <2>1, <3>1, OneLogin DEF UserOK
  <2>4. UNCHANGED <<active, otpEnabled, requests, operations>>
    BY <1>5 DEF Admit, userVars
  <2> QED BY <2>2, <2>3, <2>4 DEF UserOK
<1>6. ASSUME NEW u \in User, NEW code \in Code, ReadOTP(p, u, code)
      PROVE  UserOK'
  BY <1>1, <1>6, SameUsers DEF ReadOTP, Begin, UserOK
<1>7. CASE DeleteOTP(p)
  <2>1. otp' = [otp EXCEPT ![req[p].user] = NoOTP]
        /\ UNCHANGED <<active, otpEnabled, requests, operations>>
    BY <1>7 DEF DeleteOTP, userVars
  <2>2. otp' \in [User -> [code : Code, expiry : Nat] \cup {NoOTP}]
    BY <2>1 DEF UserOK
  <2>3. logins' \in [User -> Nat]
    <3>1. req[p].user \in User
      BY <1>7, RequestUser DEF DeleteOTP, At, ReqOK
    <3> QED BY <1>7, <3>1, OneLogin DEF DeleteOTP
  <2> QED BY <2>1, <2>2, <2>3 DEF UserOK
<1>8. ASSUME NEW t \in refresh, Refresh(p, t)
      PROVE  UserOK'
  BY <1>1, <1>8, SameUsers DEF Refresh, Begin, UserOK
<1>9. ASSUME NEW issued \in 0..now, IssueTokens(p, issued)
      PROVE  UserOK'
  BY <1>9, SameUsers DEF IssueTokens, UserOK
<1> QED BY <1>2, <1>3, <1>4, <1>5, <1>6, <1>7, <1>8, <1>9 DEF Serve

LEMMA ServeStrikes ==
  ASSUME ReqOK, StrikeOK, NEW p \in Proc, Serve(p)
  PROVE  StrikeOK'
<1>1. CASE RecordFailure(p)
  <2>1. PICK ip : /\ strikes' = [strikes EXCEPT ![ip] = Struck(strikes[ip])]
                  /\ blocked' = [blocked EXCEPT ![ip] = IF strikes[ip] + 1 >= MaxStrikes
                                                        THEN now + BlockFor ELSE blocked[ip]]
    BY <1>1 DEF RecordFailure
  <2>2. \A n \in 0..MaxStrikes - 1 : Struck(n) \in 0..MaxStrikes - 1
    BY RestConstants DEF Struck
  <2>3. strikes' \in [IP -> 0..MaxStrikes - 1]
    BY <2>1, <2>2 DEF StrikeOK
  <2>4. now + BlockFor \in Deadline
    BY RestConstants DEF ReqOK, Deadline
  <2>5. blocked' \in [IP -> Deadline]
    BY <2>1, <2>4 DEF StrikeOK
  <2> QED BY <2>3, <2>5 DEF StrikeOK
<1>2. CASE RecordSuccess(p)
  <2>1. PICK ip : strikes' = [strikes EXCEPT ![ip] = 0] /\ blocked' = blocked
    BY <1>2 DEF RecordSuccess
  <2>2. 0 \in 0..MaxStrikes - 1
    BY RestConstants
  <2> QED BY <2>1, <2>2 DEF StrikeOK
<1>3. CASE UNCHANGED <<strikes, blocked>>
  BY <1>3, SameStrikes
<1> QED BY <1>1, <1>2, <1>3
        DEF Serve, Login, CheckLoginAttempt, RecordFailedLogin, Admit, ReadOTP, DeleteOTP,
            ClearLoginAttempts, Refresh, IssueTokens, lockVars

LEMMA ServeTimes ==
  ASSUME ReqOK, TimesOK, NEW p \in Proc, Serve(p)
  PROVE  TimesOK'
<1>1. ASSUME NEW issued \in 0..now, IssueTokens(p, issued)
      PROVE  TimesOK'
  <2>1. PICK t : /\ times' = [s \in DOMAIN times \cup {t} |-> IF s = t THEN now ELSE times[s]]
                 /\ UNCHANGED <<blacklist, revoked>>
    BY <1>1 DEF IssueTokens, logoutVars
  <2>2. now \in Time
    BY Constants DEF ReqOK, Time
  <2> QED BY <2>1, <2>2 DEF TimesOK
<1>2. CASE UNCHANGED <<times, blacklist, revoked>>
  BY <1>2, SameTimes
<1> QED BY <1>1, <1>2
        DEF Serve, Login, CheckLoginAttempt, RecordFailedLogin, RecordFailure, RecordSuccess,
            Admit, ReadOTP, DeleteOTP, ClearLoginAttempts, Refresh, tokenVars, logoutVars

LEMMA ServeRest ==
  ASSUME ReqOK, TokenOK, RestOK, NEW p \in Proc, Serve(p)
  PROVE  RestOK'
BY ServeUsers, ServeStrikes, ServeTimes DEF RestOK

\* What is done with a token of the table.
LEMMA TokenRest ==
  ASSUME ReqOK, RestOK, NEW t \in Token, WithToken(t)
  PROVE  RestOK'
<1>1. operations + 1 \in Nat
  BY DEF RestOK, UserOK
<1>2. StrikeOK'
  BY SameStrikes DEF RestOK, WithToken, Logout, LogoutAllSessions, OTPGenerate, OTPEnable, lockVars
<1>3. CASE Logout(t)
  <2>1. UserOK'
    BY <1>1, <1>3, SameUsers DEF Logout, Operate, RestOK, UserOK
  <2>2. /\ blacklist' = [s \in DOMAIN blacklist \cup {t} |->
                           IF s = t THEN now + BlacklistFor ELSE blacklist[s]]
        /\ revoked' = [s \in DOMAIN revoked \cup {t} |-> IF s = t THEN now ELSE revoked[s]]
        /\ times' = times
    BY <1>3 DEF Logout, RevokedUntil
  <2>3. now + BlacklistFor \in Nat /\ now \in Time
    BY RestConstants, Constants DEF ReqOK, Time
  <2>4. TimesOK'
    BY <2>2, <2>3 DEF RestOK, TimesOK
  <2> QED BY <1>2, <2>1, <2>4 DEF RestOK
<1>4. CASE LogoutAllSessions(t)
  <2>1. UserOK'
    BY <1>1, <1>4, SameUsers DEF LogoutAllSessions, Operate, RestOK, UserOK
  <2>2. TimesOK'
    BY <1>4, SameTimes DEF LogoutAllSessions, RestOK, logoutVars
  <2> QED BY <1>2, <2>1, <2>2 DEF RestOK
<1>5. ASSUME NEW code \in Code, OTPGenerate(t, code) PROVE RestOK'
  <2>1. t.user \in User
    BY DEF Token
  <2>2. otp' \in [User -> [code : Code, expiry : Nat] \cup {NoOTP}]
    BY <1>5, <2>1, NewCode DEF OTPGenerate, RestOK
  <2>3. UserOK'
    BY <1>1, <1>5, <2>2 DEF OTPGenerate, Operate, RestOK, UserOK, userVars
  <2>4. TimesOK'
    BY <1>5, SameTimes DEF OTPGenerate, RestOK, tokenVars, logoutVars
  <2> QED BY <1>2, <2>3, <2>4 DEF RestOK
<1>6. ASSUME NEW enable \in BOOLEAN, OTPEnable(t, enable) PROVE RestOK'
  <2>1. t.user \in User
    BY DEF Token
  <2>2. UserOK'
    BY <1>1, <1>6, <2>1 DEF OTPEnable, Operate, RestOK, UserOK
  <2>3. TimesOK'
    BY <1>6, SameTimes DEF OTPEnable, RestOK, tokenVars, logoutVars
  <2> QED BY <1>2, <2>2, <2>3 DEF RestOK
<1> QED BY <1>3, <1>4, <1>5, <1>6 DEF WithToken

LEMMA OthersRest ==
  ASSUME ReqOK, TokenOK, RestOK, Others
  PROVE  RestOK'
<1>1. ASSUME NEW s \in handed, NEW ttl \in {AccessTTL, RefreshTTL},
             WithToken([s EXCEPT !.ttl = ttl])
      PROVE  RestOK'
  <2>1. s \in Token
    BY DEF TokenOK
  <2>2. [s EXCEPT !.ttl = ttl] \in Token
    BY <2>1 DEF Token
  <2> QED BY <1>1, <2>2, TokenRest
<1>2. ASSUME NEW u \in User, PanelUpdateStatus(u) PROVE RestOK'
  <2>1. operations + 1 \in Nat
    BY DEF RestOK, UserOK
  <2>2. UserOK'
    BY <1>2, <2>1 DEF PanelUpdateStatus, Operate, RestOK, UserOK
  <2>3. StrikeOK' /\ TimesOK'
    BY <1>2, SameStrikes, SameTimes DEF PanelUpdateStatus, RestOK, lockVars, tokenVars, logoutVars
  <2> QED BY <2>2, <2>3 DEF RestOK
<1>3. ASSUME NEW n \in Nonce, CheckNonce(n) PROVE RestOK'
  <2>1. requests' \in Nat /\ operations' \in Nat
    BY <1>3 DEF CheckNonce, RestOK, UserOK
  <2>2. UserOK'
    BY <1>3, <2>1, SameUsers DEF CheckNonce, RestOK
  <2>3. StrikeOK' /\ TimesOK'
    BY <1>3, SameStrikes, SameTimes DEF CheckNonce, RestOK, lockVars, tokenVars, logoutVars
  <2> QED BY <2>2, <2>3 DEF RestOK
<1>4. CASE Tick \/ CleanupNonces
  <2>1. UNCHANGED <<userVars, otp, logins, requests, operations, lockVars, tokenVars>>
    BY <1>4 DEF Tick, CleanupNonces
  <2>2. UserOK'
    BY <2>1, SameUsers DEF RestOK, UserOK
  <2>3. StrikeOK' /\ TimesOK'
    BY <2>1, SameStrikes, SameTimes DEF RestOK, lockVars, tokenVars, logoutVars
  <2> QED BY <2>2, <2>3 DEF RestOK
<1>5. CASE Cleanup
  <2> DEFINE old == {t \in DOMAIN blacklist : now > blacklist[t]}
  <2>1. /\ otp' = [u \in User |-> IF now > otp[u].expiry THEN NoOTP ELSE otp[u]]
        /\ blacklist' = [k \in DOMAIN blacklist \ old |-> blacklist[k]]
        /\ times' = [k \in DOMAIN times \ StaleTokens |-> times[k]]
        /\ UNCHANGED <<active, otpEnabled, logins, requests, operations, strikes, blocked,
                       revoked>>
    BY <1>5 DEF Cleanup, Forget, userVars
  <2> HIDE DEF old
  <2>2. UserOK'
    BY <2>1 DEF RestOK, UserOK
  <2>3. StrikeOK'
    BY <2>1, SameStrikes DEF RestOK
  <2>4. TimesOK'
    BY <2>1 DEF RestOK, TimesOK
  <2> QED BY <2>2, <2>3, <2>4 DEF RestOK
<1>6. CASE CleanupBlocked
  <2>1. /\ blocked' = [ip \in IP |-> IF now > blocked[ip] THEN NoTime ELSE blocked[ip]]
        /\ UNCHANGED <<userVars, otp, logins, requests, operations, strikes, tokenVars>>
    BY <1>6 DEF CleanupBlocked
  <2>2. StrikeOK'
    BY <2>1 DEF RestOK, StrikeOK, Deadline
  <2>3. UserOK'
    BY <2>1, SameUsers DEF RestOK, UserOK
  <2>4. TimesOK'
    BY <2>1, SameTimes DEF RestOK, tokenVars, logoutVars
  <2> QED BY <2>2, <2>3, <2>4 DEF RestOK
<1> QED BY <1>1, <1>2, <1>3, <1>4, <1>5, <1>6 DEF Others

LEMMA RestartRest ==
  ASSUME RestOK, Restart
  PROVE  RestOK'
<1>1. UserOK'
  BY DEF Restart, RestOK, UserOK
<1>2. StrikeOK'
  BY RestConstants DEF Restart, StrikeOK, Deadline
<1>3. TimesOK'
  <2>1. times' = [t \in {} |-> 0] /\ blacklist' = [t \in {} |-> 0] /\ revoked' = revoked
    BY DEF Restart
  <2> QED BY <2>1 DEF RestOK, TimesOK
<1> QED BY <1>1, <1>2, <1>3 DEF RestOK

LEMMA InitRest == Init => RestOK
<1> SUFFICES ASSUME Init PROVE RestOK
  OBVIOUS
<1>1. UserOK
  BY DEF Init, UserOK
<1>2. StrikeOK
  BY RestConstants DEF Init, StrikeOK, Deadline
<1>3. TimesOK
  <2>1. times = [t \in {} |-> 0] /\ blacklist = [t \in {} |-> 0] /\ revoked = [t \in {} |-> 0]
    BY DEF Init
  <2> QED BY <2>1 DEF TimesOK
<1> QED BY <1>1, <1>2, <1>3 DEF RestOK

\* All of it together, with the invariant of tokens and nonces.
LEMMA GuessInvariance == Spec => [](Inv /\ GuessOK /\ RestOK)
<1>1. Init => GuessOK /\ RestOK
  BY InitGuess, InitRest
<1>2. Inv /\ GuessOK /\ RestOK /\ [Next]_vars => (GuessOK /\ RestOK)'
  <2> SUFFICES ASSUME Inv, GuessOK, RestOK, [Next]_vars PROVE GuessOK' /\ RestOK'
    OBVIOUS
  <2>1. ASSUME NEW p \in Proc, Serve(p) PROVE GuessOK' /\ RestOK'
    BY <2>1, ServeGuess, ServeRest DEF Inv
  <2>2. CASE Others
    BY <2>2, OthersGuess, OthersRest DEF Inv
  <2>3. CASE Restart
    BY <2>3, RestartGuess, RestartRest DEF Inv
  <2>4. CASE UNCHANGED vars
    <3>1. GuessOK'
      BY <2>4 DEF vars, lockVars, GuessOK, UserGuess, Fresh, Verifying, At
    <3>2. RestOK'
      BY <2>4, SameUsers, SameStrikes, SameTimes
         DEF vars, userVars, lockVars, tokenVars, logoutVars, RestOK, UserOK
    <3> QED BY <3>1, <3>2
  <2> QED BY <2>1, <2>2, <2>3, <2>4 DEF Next, Others
<1> QED BY <1>1, <1>2, Invariance, PTL DEF Spec

\* Every variable has its type, and no more bad passwords of a name are tried in a row than
\* lock it and one for each other goroutine that passed the check before the lock
\* (CheckLoginAttempt, RecordFailedLogin, startCleanupLoop).
THEOREM GuessesBounded == Spec => []BoundedGuesses
<1>1. Inv /\ GuessOK /\ RestOK => BoundedGuesses
  <2> SUFFICES ASSUME Inv, GuessOK, RestOK PROVE BoundedGuesses
    OBVIOUS
  <2>1. now \in Time /\ req \in [Proc -> Request]
    BY Constants DEF Inv, ReqOK, Time
  <2>2. /\ refresh \subseteq DOMAIN times /\ DOMAIN times \subseteq Token
        /\ handed \subseteq Token /\ dropped \subseteq DOMAIN revoked
        /\ DOMAIN revoked \subseteq Token
        /\ seen \in [Nonce -> TimeOrNone] /\ taken \in [Nonce -> TimeOrNone]
        /\ starts \in Nat
    BY DEF Inv, TokenOK, RevokedOK, NonceOK
  <2>3. TypeOK
    BY <2>1, <2>2 DEF TypeOK, GuessOK, Attempt, RestOK, UserOK, StrikeOK, TimesOK
  <2>4. ASSUME NEW u \in User PROVE tried[u] <= MaxAttempts + Cardinality(Proc) - 1
    <3>1. tried[u] \in Nat /\ tried[u] <= MaxAttempts - 1 + Cardinality(Proc)
      BY DEF GuessOK, UserGuess
    <3> QED BY <3>1, LockConstants
  <2> QED BY <2>3, <2>4 DEF BoundedGuesses
<1> QED BY <1>1, GuessInvariance, PTL

-----------------------------------------------------------------------------

Statements == [do : {"insert", "update"}, id : Id]
Inserting == pending # <<>> /\ pending[1].do = "insert"
Due(id) == \E i \in DOMAIN pending : pending[i].do = "update" /\ pending[i].id = id
InReading(x) ==
  x # NotReading => x.id \in DOMAIN memory /\ x.balance \in Int /\ x.exposure \in Nat

PendingInv ==
  /\ pending \in Seq(Statements)
  /\ \A i \in DOMAIN pending : pending[i].do = "insert" => i = 1
  /\ Inserting => sequence < MaxId
  /\ 1 <= sequence
  /\ reading = [r \in Reader |-> reading[r]]
  /\ \A r \in Reader : InReading(reading[r])

\* Until a number is lost the table is numbered as the users in memory are, but for the
\* one that is being inserted.
CountInv ==
  /\ DOMAIN userRows = 1..sequence /\ DOMAIN memory = 1..nextUserID
  /\ IF Inserting THEN nextUserID = sequence + 1 /\ pending[1].id = nextUserID
     ELSE nextUserID = sequence

\* What memory says of a user the row says, or a statement to come will make it say.
Follows(id) ==
  IF Inserting /\ pending[1].id = id THEN memory[id].balance = Grant /\ memory[id].exposure = 0
  ELSE /\ id \in DOMAIN userRows /\ userRows[id].name = memory[id].name
       /\ ~Due(id) => userRows[id] = memory[id]

FollowInv == \A id \in DOMAIN memory \ stale : Follows(id)

MirrorInv == MirrorTypeOK /\ PendingInv /\ (~gap => CountInv /\ FollowInv)

-----------------------------------------------------------------------------

\* The greatest of some ids is one of them.
LEMMA MaximumOfIds ==
  ASSUME NEW S \in SUBSET Id
  PROVE  /\ Maximum(S) \in 0..MaxId
         /\ \A n \in Id : S = 1..n => Maximum(S) = n
<1>1. MaxId \in Nat /\ \A i \in S : i \in Int /\ 1 <= i /\ i <= MaxId
  BY MirrorAssumption DEF Id
<1>2. CASE S = {}
  <2>1. Maximum(S) = 0
    BY <1>2 DEF Maximum
  <2>2. \A n \in Id : 1 \in 1..n
    BY <1>1 DEF Id
  <2> QED BY <1>1, <1>2, <2>1, <2>2
<1>3. CASE S # {}
  <2> DEFINE Down == {MaxId - i : i \in S}
  <2>1. Down \in SUBSET Nat /\ Down # {}
    <3>1. \A i \in S : MaxId - i \in Nat
      BY <1>1
    <3> QED BY <1>3, <3>1
  <2>2. PICK d \in Down : \A e \in Down : d <= e
    <3> HIDE DEF Down
    <3> QED BY <2>1, LeastNat
  <2>3. PICK m \in S : d = MaxId - m
    BY <2>2
  <2>4. \A i \in S : m >= i
    <3> TAKE i \in S
    <3>1. MaxId - i \in Down /\ i \in Int /\ m \in Int
      BY <1>1 DEF Id
    <3> QED BY <1>1, <2>2, <2>3, <3>1
  <2>5. Max(S) \in S /\ \A i \in S : Max(S) >= i
    BY <2>4 DEF Max
  <2>6. Maximum(S) = Max(S)
    BY <1>3 DEF Maximum
  <2>7. ASSUME NEW n \in Id, S = 1..n PROVE Max(S) = n
    <3>1. n \in S /\ Max(S) <= n /\ Max(S) >= n /\ Max(S) \in Int /\ n \in Int
      BY <1>1, <2>5, <2>7 DEF Id
    <3> QED BY <3>1
  <2>8. Max(S) \in 0..MaxId
    BY <1>1, <2>5
  <2> QED BY <2>6, <2>7, <2>8
<1> QED BY <1>2, <1>3

\* A row whose balance and exposure are written is what is in memory, if the names are.
LEMMA WrittenRow ==
  ASSUME NEW a \in UserRow, NEW b \in UserRow, a.name = b.name
  PROVE  [a EXCEPT !.balance = b.balance, !.exposure = b.exposure] = b
BY DEF UserRow

LEMMA FirstTyped == First \in UserRow
BY MirrorAssumption DEF First, UserRow

LEMMA MirrorInitInv == MirrorInit => MirrorInv
<1> SUFFICES ASSUME MirrorInit PROVE MirrorInv
  OBVIOUS
<1> USE MirrorAssumption DEF MirrorInit
<1>1. DOMAIN <<First>> = 1..1 /\ <<First>>[1] = First
  OBVIOUS
<1>2. MirrorTypeOK
  <2>1. 1..1 \subseteq Id /\ 1 \in 0..MaxId
    BY DEF Id
  <2>2. \A id \in 1..1 : <<First>>[id] \in UserRow
    BY FirstTyped
  <2>3. DOMAIN pending = {}
    OBVIOUS
  <2> QED BY <1>1, <2>1, <2>2, <2>3 DEF MirrorTypeOK
<1>3. PendingInv
  <2>1. pending \in Seq(Statements) /\ DOMAIN pending = {} /\ ~Inserting
    BY DEF Inserting
  <2> QED BY <2>1 DEF PendingInv, InReading
<1>4. CountInv
  BY <1>1 DEF CountInv, Inserting
<1>5. FollowInv
  BY <1>1 DEF FollowInv, Follows, Inserting, Due
<1> QED BY <1>2, <1>3, <1>4, <1>5 DEF MirrorInv

LEMMA InvAgrees ==
  ASSUME MirrorInv
  PROVE  MirrorAgrees
<1>1. pending = <<>> => ~Inserting /\ \A id : ~Due(id)
  BY DEF Inserting, Due
<1> QED BY <1>1 DEF MirrorInv, MirrorAgrees, CopiesAgree, FollowInv, Follows

\* The statements a section leaves.
LEMMA UpdateIs ==
  ASSUME NEW a \in Id, NEW b \in Id
  PROVE  /\ Update(a) \in Seq(Statements) /\ Len(Update(a)) = 1
         /\ Update(a)[1].do = "update" /\ Update(a)[1].id = a
         /\ LET two == Update(a) \o Update(b)
            IN  /\ two \in Seq(Statements) /\ Len(two) = 2
                /\ two[1].do = "update" /\ two[1].id = a /\ two[2].do = "update" /\ two[2].id = b
         /\ LET two == <<InsertRow(a)>> \o Update(b)
            IN  /\ two \in Seq(Statements) /\ Len(two) = 2
                /\ two[1].do = "insert" /\ two[1].id = a /\ two[2].do = "update" /\ two[2].id = b
<1> DEFINE ins(x) == [do |-> "insert", id |-> x]
           upd(x) == [do |-> "update", id |-> x]
<1>1. /\ ins(a) \in Statements /\ upd(a) \in Statements /\ upd(b) \in Statements
      /\ ins(a).do = "insert" /\ ins(a).id = a /\ upd(a).do = "update" /\ upd(a).id = a
      /\ upd(b).do = "update" /\ upd(b).id = b
  BY DEF Statements
<1>2. Update(a) = <<upd(a)>> /\ Update(b) = <<upd(b)>> /\ InsertRow(a) = ins(a)
  BY DEF Update, InsertRow
<1> HIDE DEF ins, upd
<1>3. /\ <<upd(a)>> \in Seq(Statements) /\ Len(<<upd(a)>>) = 1 /\ <<upd(a)>>[1] = upd(a)
  BY <1>1
<1>4. <<ins(a)>> \in Seq(Statements) /\ <<upd(b)>> \in Seq(Statements)
      /\ Len(<<ins(a)>>) = 1 /\ <<ins(a)>>[1] = ins(a)
      /\ Len(<<upd(b)>>) = 1 /\ <<upd(b)>>[1] = upd(b)
  BY <1>1
<1>5. ASSUME NEW s \in Seq(Statements), NEW t \in Seq(Statements), Len(s) = 1, Len(t) = 1
      PROVE  /\ s \o t \in Seq(Statements) /\ Len(s \o t) = 2
             /\ (s \o t)[1] = s[1] /\ (s \o t)[2] = t[1]
  <2>1. /\ s \o t \in Seq(Statements) /\ Len(s \o t) = Len(s) + Len(t)
        /\ \A i \in 1..Len(s) + Len(t) :
             (s \o t)[i] = IF i <= Len(s) THEN s[i] ELSE t[i - Len(s)]
    BY ConcatProperties
  <2>2. Len(s) + Len(t) = 2 /\ 1 \in 1..2 /\ 2 \in 1..2 /\ 2 - Len(s) = 1 /\ ~(2 <= Len(s))
    BY <1>5
  <2>3. (s \o t)[1] = s[1]
    BY <1>5, <2>1, <2>2
  <2>4. (s \o t)[2] = t[1]
    BY <1>5, <2>1, <2>2
  <2> QED BY <2>1, <2>2, <2>3, <2>4
<1>6. /\ Update(a) \o Update(b) \in Seq(Statements) /\ Len(Update(a) \o Update(b)) = 2
      /\ (Update(a) \o Update(b))[1] = upd(a) /\ (Update(a) \o Update(b))[2] = upd(b)
  BY <1>2, <1>3, <1>4, <1>5
<1>7. /\ <<InsertRow(a)>> \o Update(b) \in Seq(Statements)
      /\ Len(<<InsertRow(a)>> \o Update(b)) = 2
      /\ (<<InsertRow(a)>> \o Update(b))[1] = ins(a) /\ (<<InsertRow(a)>> \o Update(b))[2] = upd(b)
  BY <1>2, <1>4, <1>5
<1> QED BY <1>1, <1>2, <1>3, <1>6, <1>7

-----------------------------------------------------------------------------

\* A section that changes what is in memory of some users, each with an update to come, or
\* stale from now on: but for the types, all that is asked of it.
LEMMA SectionKeeps ==
  ASSUME MirrorInv, pending = <<>>, changes < MaxChanges,
         UNCHANGED <<userRows, sequence, reading, gap, nextUserID>>,
         pending' \in Seq(Statements), stale \subseteq stale', stale' \subseteq Id,
         \A i \in DOMAIN pending' : pending'[i].do = "update",
         DOMAIN memory' = DOMAIN memory,
         \A id \in DOMAIN memory : memory'[id] \in UserRow /\ memory'[id].name = memory[id].name,
         \A id \in DOMAIN memory :
           memory'[id] = memory[id] \/ id \in stale' \/ \E i \in DOMAIN pending' : pending'[i].id = id
  PROVE  MirrorInv'
<1>1. ~Inserting /\ ~Inserting'
  BY DEF Inserting
<1>2. \A id : ~Due(id)
  BY DEF Due
<1>3. \A i \in DOMAIN pending' : pending'[i] \in Statements
  OBVIOUS
<1>4. MirrorTypeOK'
  BY <1>3 DEF MirrorInv, MirrorTypeOK, Statements
<1>5. PendingInv'
  <2>1. (pending \in Seq(Statements))' /\ (\A i \in DOMAIN pending : pending[i].do = "insert" => i = 1)'
    OBVIOUS
  <2>2. (Inserting => sequence < MaxId)' /\ (1 <= sequence)' /\ (reading = [r \in Reader |-> reading[r]])'
    BY <1>1 DEF MirrorInv, PendingInv
  <2>3. \A r \in Reader : InReading(reading[r])'
    BY DEF MirrorInv, PendingInv, InReading
  <2> QED BY <2>1, <2>2, <2>3 DEF PendingInv
<1>6. ASSUME ~gap PROVE CountInv'
  BY <1>1, <1>6 DEF MirrorInv, CountInv
<1>7. ASSUME ~gap PROVE FollowInv'
  <2> SUFFICES ASSUME NEW id \in DOMAIN memory, id \notin stale' PROVE Follows(id)'
    BY DEF FollowInv
  <2>1. id \in DOMAIN userRows /\ userRows[id] = memory[id]
    BY <1>1, <1>2, <1>7 DEF MirrorInv, FollowInv, Follows
  <2>2. memory'[id] = memory[id] \/ Due(id)'
    BY DEF Due
  <2> QED BY <1>1, <2>1, <2>2 DEF Follows
<1> QED BY <1>4, <1>5, <1>6, <1>7 DEF MirrorInv

LEMMA MemoryTyped ==
  ASSUME MirrorInv, NEW id \in DOMAIN memory
  PROVE  /\ id \in Id /\ memory[id] \in UserRow
         /\ memory[id].name \in Name /\ memory[id].balance \in Int /\ memory[id].exposure \in Nat
BY DEF MirrorInv, MirrorTypeOK, UserRow

LEMMA HoldKeeps ==
  ASSUME MirrorInv, NEW id \in Id, HoldFunds(id)
  PROVE  MirrorInv'
<1> DEFINE new == [memory[id] EXCEPT !.exposure = @ + 1]
<1>1. id \in DOMAIN memory /\ memory' = [memory EXCEPT ![id] = new]
  BY DEF HoldFunds
<1>2. new \in UserRow /\ new.name = memory[id].name
  BY <1>1, MemoryTyped DEF UserRow
<1> HIDE DEF new
<1>3. /\ Update(id) \in Seq(Statements) /\ DOMAIN Update(id) = 1..1
      /\ Update(id)[1].do = "update" /\ Update(id)[1].id = id
  BY UpdateIs
<1>4. /\ pending = <<>> /\ changes < MaxChanges /\ pending' = Update(id)
      /\ UNCHANGED <<userRows, sequence, reading, gap, nextUserID, stale>>
  BY DEF HoldFunds, Section
<1>5. \A i \in DOMAIN memory : memory[i] \in UserRow
  BY MemoryTyped
<1>6. stale \subseteq Id
  BY DEF MirrorInv, MirrorTypeOK
<1> QED BY <1>1, <1>2, <1>3, <1>4, <1>5, <1>6, SectionKeeps

LEMMA CloseKeeps ==
  ASSUME MirrorInv, NEW id \in Id, NEW pnl \in Int, CloseBet(id, pnl)
  PROVE  MirrorInv'
<1> DEFINE new == [memory[id] EXCEPT !.exposure = @ - 1, !.balance = @ + pnl]
<1>1. id \in DOMAIN memory /\ memory' = [memory EXCEPT ![id] = new] /\ memory[id].exposure > 0
  BY DEF CloseBet
<1>2. new \in UserRow /\ new.name = memory[id].name
  <2>1. memory[id].exposure - 1 \in Nat /\ memory[id].balance + pnl \in Int
    BY <1>1, MemoryTyped
  <2>2. memory[id] \in UserRow
    BY <1>1, MemoryTyped
  <2> QED BY <2>1, <2>2 DEF UserRow
<1> HIDE DEF new
<1>3. /\ Update(id) \in Seq(Statements) /\ DOMAIN Update(id) = 1..1
      /\ Update(id)[1].do = "update" /\ Update(id)[1].id = id
  BY UpdateIs
<1>4. /\ pending = <<>> /\ changes < MaxChanges /\ pending' = Update(id)
      /\ UNCHANGED <<userRows, sequence, reading, gap, nextUserID, stale>>
  BY DEF CloseBet, Section
<1>5. \A i \in DOMAIN memory : memory[i] \in UserRow
  BY MemoryTyped
<1>6. stale \subseteq Id
  BY DEF MirrorInv, MirrorTypeOK
<1> QED BY <1>1, <1>2, <1>3, <1>4, <1>5, <1>6, SectionKeeps

LEMMA TransferKeeps ==
  ASSUME MirrorInv, NEW from \in Id, NEW to \in Id, TransferBalance(from, to)
  PROVE  MirrorInv'
<1> DEFINE less == [memory[from] EXCEPT !.balance = @ - 1]
           more == [memory[to] EXCEPT !.balance = @ + 1]
           two == Update(from) \o Update(to)
<1>1. /\ from \in DOMAIN memory /\ to \in DOMAIN memory /\ from # to
      /\ DOMAIN memory' = DOMAIN memory
      /\ memory'[from] = less /\ memory'[to] = more
      /\ \A id \in DOMAIN memory \ {from, to} : memory'[id] = memory[id]
  BY DEF TransferBalance
<1>2. /\ less \in UserRow /\ less.name = memory[from].name
      /\ more \in UserRow /\ more.name = memory[to].name
  BY <1>1, MemoryTyped DEF UserRow
<1>3. /\ two \in Seq(Statements) /\ Len(two) = 2
      /\ two[1].do = "update" /\ two[1].id = from /\ two[2].do = "update" /\ two[2].id = to
  BY UpdateIs
<1>4. /\ pending = <<>> /\ changes < MaxChanges /\ pending' = two
      /\ UNCHANGED <<userRows, sequence, reading, gap, nextUserID, stale>>
  BY DEF TransferBalance, Section
<1> HIDE DEF less, more, two
<1>5. \A id \in DOMAIN memory : memory[id] \in UserRow
  BY MemoryTyped
<1>6. stale \subseteq Id
  BY DEF MirrorInv, MirrorTypeOK
<1>7. DOMAIN two = {1, 2}
  BY <1>3
<1>8. \A id \in DOMAIN memory : memory'[id] \in UserRow /\ memory'[id].name = memory[id].name
  BY <1>1, <1>2, <1>5
<1>9. \A id \in DOMAIN memory :
        memory'[id] = memory[id] \/ id \in stale' \/ \E i \in DOMAIN pending' : pending'[i].id = id
  BY <1>1, <1>3, <1>4, <1>7
<1>10. \A i \in DOMAIN pending' : pending'[i].do = "update"
  BY <1>3, <1>4, <1>7
<1> QED BY <1>1, <1>3, <1>4, <1>6, <1>8, <1>9, <1>10, SectionKeeps

LEMMA CashoutKeeps ==
  ASSUME MirrorInv, NEW id \in Id, CashoutAccept(id)
  PROVE  MirrorInv'
<1> DEFINE new == [memory[id] EXCEPT !.exposure = @ - 1, !.balance = @ + 1]
<1>1. id \in DOMAIN memory /\ memory' = [memory EXCEPT ![id] = new] /\ memory[id].exposure > 0
  BY DEF CashoutAccept
<1>2. new \in UserRow /\ new.name = memory[id].name
  <2>1. memory[id].exposure - 1 \in Nat /\ memory[id].balance + 1 \in Int
    BY <1>1, MemoryTyped
  <2>2. memory[id] \in UserRow
    BY <1>1, MemoryTyped
  <2> QED BY <2>1, <2>2 DEF UserRow
<1> HIDE DEF new
<1>3. /\ pending = <<>> /\ changes < MaxChanges /\ pending' = <<>> /\ stale' = stale \cup {id}
      /\ UNCHANGED <<userRows, sequence, reading, gap, nextUserID>>
  BY DEF CashoutAccept, Section
<1>4. \A i \in DOMAIN memory : memory[i] \in UserRow
  BY MemoryTyped
<1>5. stale \subseteq Id
  BY DEF MirrorInv, MirrorTypeOK
<1>6. <<>> \in Seq(Statements) /\ DOMAIN <<>> = {}
  OBVIOUS
<1> QED BY <1>1, <1>2, <1>3, <1>4, <1>5, <1>6, SectionKeeps

LEMMA CreateKeeps ==
  ASSUME MirrorInv, NEW name \in Name, NEW parent \in Id, CreateUser(name, parent)
  PROVE  MirrorInv'
<1> DEFINE id == nextUserID + 1
           less == [memory[parent] EXCEPT !.balance = @ - Grant]
           before == [memory EXCEPT ![parent].balance = @ - Grant]
           new == [name |-> name, balance |-> Grant, exposure |-> 0]
           two == <<InsertRow(id)>> \o Update(parent)
<1>1. /\ id \in Id /\ sequence < MaxId /\ parent \in DOMAIN memory
      /\ memory' = Plus(before, id, new) /\ nextUserID' = id
      /\ pending = <<>> /\ pending' = two
      /\ UNCHANGED <<userRows, sequence, reading, gap, stale>>
  BY DEF CreateUser, Section
<1>2. DOMAIN before = DOMAIN memory
  OBVIOUS
<1>3. before[parent] = less /\ \A i \in DOMAIN memory \ {parent} : before[i] = memory[i]
  BY <1>1
<1>4. less \in UserRow /\ less.name = memory[parent].name
  BY <1>1, MemoryTyped, MirrorAssumption DEF UserRow
<1>5. new \in UserRow /\ new.balance = Grant /\ new.exposure = 0
  BY MirrorAssumption DEF UserRow
<1>6. /\ two \in Seq(Statements) /\ Len(two) = 2
      /\ two[1].do = "insert" /\ two[1].id = id /\ two[2].do = "update" /\ two[2].id = parent
  BY <1>1, UpdateIs
<1> HIDE DEF less, new, two, before, id
<1>7. /\ DOMAIN memory' = DOMAIN memory \cup {id} /\ memory'[id] = new
      /\ \A i \in DOMAIN memory \ {id} : memory'[i] = IF i = parent THEN less ELSE memory[i]
  <2>1. /\ DOMAIN Plus(before, id, new) = DOMAIN before \cup {id}
        /\ Plus(before, id, new)[id] = new
        /\ \A i \in DOMAIN before \ {id} : Plus(before, id, new)[i] = before[i]
    BY DEF Plus
  <2> QED BY <1>1, <1>2, <1>3, <2>1
<1>8. DOMAIN two = {1, 2}
  BY <1>6
<1>9. Inserting' /\ pending'[1].id = id
  <2>1. two # <<>>
    <3>1. Len(<<>>) = 0
      OBVIOUS
    <3> QED BY <1>6, <3>1
  <2> QED BY <1>1, <1>6, <2>1 DEF Inserting
<1>10. MirrorTypeOK'
  <2>1. \A i \in DOMAIN pending' : pending'[i].do \in {"insert", "update"} /\ pending'[i].id \in Id
    BY <1>1, <1>6, <1>8
  <2>2. DOMAIN memory' \subseteq Id /\ \A i \in DOMAIN memory' : memory'[i] \in UserRow
    BY <1>1, <1>4, <1>5, <1>7, MemoryTyped
  <2>3. id \in 0..MaxId
    BY <1>1 DEF Id
  <2> QED BY <1>1, <2>1, <2>2, <2>3 DEF MirrorInv, MirrorTypeOK
<1>11. PendingInv'
  <2>1. \A r \in Reader : InReading(reading[r])'
    BY <1>1, <1>7 DEF MirrorInv, PendingInv, InReading
  <2> QED BY <1>1, <1>6, <1>8, <2>1 DEF MirrorInv, PendingInv
<1>12. ASSUME ~gap PROVE CountInv' /\ FollowInv'
  <2>1. ~Inserting /\ \A i : ~Due(i)
    BY <1>1 DEF Inserting, Due
  <2>2. DOMAIN memory = 1..nextUserID /\ nextUserID = sequence /\ sequence \in Nat
    BY <1>12, <2>1, MirrorAssumption DEF MirrorInv, CountInv, MirrorTypeOK
  <2>3. DOMAIN memory' = 1..(nextUserID + 1) /\ id \notin DOMAIN memory /\ id # parent
    <3>1. nextUserID \in Nat /\ id = nextUserID + 1
      BY <2>2 DEF id
    <3>2. 1..nextUserID \cup {id} = 1..(nextUserID + 1)
      BY <3>1
    <3> QED BY <1>1, <1>7, <2>2, <3>1, <3>2
  <2>4. CountInv'
    BY <1>1, <1>9, <1>12, <2>2, <2>3 DEF MirrorInv, CountInv, id
  <2>5. ASSUME NEW i \in DOMAIN memory', i \notin stale' PROVE Follows(i)'
    <3>1. CASE i = id
      BY <1>5, <1>7, <1>9, <3>1 DEF Follows
    <3>2. CASE i # id
      <4>1. i \in DOMAIN memory /\ i \in DOMAIN userRows /\ userRows[i] = memory[i]
        BY <1>1, <1>7, <1>12, <2>1, <2>5, <3>2 DEF MirrorInv, FollowInv, Follows
      <4>2. i = parent => Due(i)'
        BY <1>1, <1>6, <1>8 DEF Due
      <4> QED BY <1>1, <1>4, <1>7, <1>9, <3>2, <4>1, <4>2 DEF Follows
    <3> QED BY <3>1, <3>2
  <2> QED BY <2>4, <2>5 DEF FollowInv
<1> QED BY <1>1, <1>10, <1>11, <1>12 DEF MirrorInv

-----------------------------------------------------------------------------

\* The statements that are left when the first has run.
LEMMA TailIs ==
  ASSUME PendingInv, pending # <<>>, pending' = Tail(pending)
  PROVE  /\ pending' \in Seq(Statements) /\ ~Inserting'
         /\ 1 \in DOMAIN pending /\ Head(pending) = pending[1] /\ pending[1] \in Statements
         /\ \A i \in DOMAIN pending' : i + 1 \in DOMAIN pending /\ pending'[i] = pending[i + 1]
         /\ \A i \in DOMAIN pending' : pending'[i].do = "update" /\ pending'[i].id \in Id
         /\ \A i \in DOMAIN pending : i = 1 \/ (i - 1 \in DOMAIN pending' /\ pending'[i - 1] = pending[i])
<1>1. pending \in Seq(Statements)
  BY DEF PendingInv
<1>2. Len(pending) \in Nat /\ Len(pending) >= 1
  BY <1>1, EmptySeq, LenProperties
<1>3. /\ Tail(pending) \in Seq(Statements) /\ Len(Tail(pending)) = Len(pending) - 1
      /\ \A i \in 1..Len(pending) - 1 : Tail(pending)[i] = pending[i + 1]
      /\ Head(pending) = pending[1]
  BY <1>1, HeadTailProperties
<1>4. DOMAIN pending = 1..Len(pending) /\ DOMAIN pending' = 1..Len(pending) - 1
  BY <1>1, <1>3
<1>5. \A i \in DOMAIN pending' : i + 1 \in DOMAIN pending /\ pending'[i] = pending[i + 1] /\ i + 1 # 1
  BY <1>2, <1>3, <1>4
<1>6. \A i \in DOMAIN pending : i = 1 \/ (i - 1 \in DOMAIN pending' /\ pending'[i - 1] = pending[i])
  <2> TAKE i \in DOMAIN pending
  <2> SUFFICES ASSUME i # 1 PROVE i - 1 \in DOMAIN pending' /\ pending'[i - 1] = pending[i]
    OBVIOUS
  <2>1. i - 1 \in 1..Len(pending) - 1 /\ (i - 1) + 1 = i
    BY <1>2, <1>4
  <2> QED BY <1>3, <1>4, <2>1
<1>7. \A i \in DOMAIN pending : pending[i] \in Statements
  BY <1>1
<1>8. \A s \in Statements : s.do \in {"insert", "update"} /\ s.id \in Id
  BY DEF Statements
<1>9. \A i \in DOMAIN pending' : pending'[i].do = "update" /\ pending'[i].id \in Id
  BY <1>5, <1>7, <1>8 DEF PendingInv
<1>10. ~Inserting'
  <2>1. CASE pending' = <<>>
    BY <2>1 DEF Inserting
  <2>2. CASE pending' # <<>>
    <3>1. 1 \in DOMAIN pending'
      BY <1>2, <1>3, <2>2, EmptySeq
    <3> QED BY <1>9, <3>1 DEF Inserting
  <2> QED BY <2>1, <2>2
<1> QED BY <1>2, <1>3, <1>4, <1>5, <1>6, <1>7, <1>9, <1>10

LEMMA InsertKeeps ==
  ASSUME MirrorInv, Statement, Head(pending).do = "insert"
  PROVE  MirrorInv'
<1> DEFINE id == Head(pending).id
           u == IF id \in DOMAIN memory THEN memory[id] ELSE First
           new == [u EXCEPT !.balance = Grant, !.exposure = 0]
<1>1. /\ pending # <<>> /\ pending' = Tail(pending) /\ sequence' = sequence + 1
      /\ userRows' = Plus(userRows, sequence + 1, new)
      /\ UNCHANGED <<memory, nextUserID, reading, stale, gap, changes, crashes>>
  BY DEF Statement
<1>2. /\ pending' \in Seq(Statements) /\ ~Inserting' /\ Inserting
      /\ 1 \in DOMAIN pending /\ Head(pending) = pending[1] /\ id \in Id
      /\ \A i \in DOMAIN pending' : pending'[i].do = "update" /\ pending'[i].id \in Id
      /\ \A i \in DOMAIN pending : i = 1 \/ (i - 1 \in DOMAIN pending' /\ pending'[i - 1] = pending[i])
  BY <1>1, TailIs DEF MirrorInv, Inserting, Statements
<1>3. new \in UserRow /\ new.name = u.name /\ new.balance = Grant /\ new.exposure = 0
  <2>1. u \in UserRow
    BY MemoryTyped, FirstTyped
  <2>2. Grant \in Int
    BY MirrorAssumption
  <2>3. \A x \in UserRow :
          LET y == [x EXCEPT !.balance = Grant, !.exposure = 0]
          IN  y \in UserRow /\ y.name = x.name /\ y.balance = Grant /\ y.exposure = 0
    BY <2>2 DEF UserRow
  <2> HIDE DEF u
  <2> QED BY <2>1, <2>3
<1>4. sequence + 1 \in 1..MaxId /\ sequence \in Nat /\ sequence + 1 \in Id
  BY <1>2, MirrorAssumption DEF MirrorInv, MirrorTypeOK, PendingInv, Id
<1>5. id \in DOMAIN memory => u = memory[id]
  OBVIOUS
<1> HIDE DEF new, u, id
<1>6. /\ DOMAIN userRows' = DOMAIN userRows \cup {sequence + 1} /\ userRows'[sequence + 1] = new
      /\ \A i \in DOMAIN userRows \ {sequence + 1} : userRows'[i] = userRows[i]
  BY <1>1 DEF Plus
<1>7. MirrorTypeOK'
  <2>1. DOMAIN userRows' \subseteq Id /\ \A i \in DOMAIN userRows' : userRows'[i] \in UserRow
    BY <1>3, <1>4, <1>6 DEF MirrorInv, MirrorTypeOK
  <2>2. sequence' \in 0..MaxId
    BY <1>1, <1>4, MirrorAssumption
  <2>3. \A i \in DOMAIN pending' : pending'[i].do \in {"insert", "update"} /\ pending'[i].id \in Id
    BY <1>2
  <2> QED BY <1>1, <2>1, <2>2, <2>3 DEF MirrorInv, MirrorTypeOK
<1>8. PendingInv'
  <2>1. 1 <= sequence' /\ ~Inserting' /\ pending' \in Seq(Statements)
    BY <1>1, <1>2, <1>4
  <2>2. \A i \in DOMAIN pending' : pending'[i].do = "insert" => i = 1
    BY <1>2
  <2>3. (reading = [r \in Reader |-> reading[r]])' /\ \A r \in Reader : InReading(reading[r])'
    BY <1>1 DEF MirrorInv, PendingInv, InReading
  <2> QED BY <2>1, <2>2, <2>3 DEF PendingInv
<1>9. ASSUME ~gap PROVE CountInv' /\ FollowInv'
  <2>1. /\ DOMAIN userRows = 1..sequence /\ DOMAIN memory = 1..nextUserID
        /\ nextUserID = sequence + 1 /\ id = nextUserID
    BY <1>2, <1>9 DEF MirrorInv, CountInv, id
  <2>2. 1..sequence \cup {sequence + 1} = 1..(sequence + 1)
    BY <1>4
  <2>3. CountInv'
    BY <1>1, <1>2, <1>6, <2>1, <2>2 DEF CountInv
  <2>4. \A i : Due(i)' <=> Due(i)
    <3> TAKE i
    <3>1. Due(i)' => Due(i)
      <4>1. \A j \in DOMAIN pending' : j + 1 \in DOMAIN pending /\ pending'[j] = pending[j + 1]
        BY <1>1, TailIs DEF MirrorInv
      <4> QED BY <4>1 DEF Due
    <3>2. Due(i) => Due(i)'
      <4>1. pending[1].do # "update"
        BY <1>2 DEF Inserting
      <4> QED BY <1>2, <4>1 DEF Due
    <3> QED BY <3>1, <3>2
  <2>5. ASSUME NEW i \in DOMAIN memory', i \notin stale' PROVE Follows(i)'
    <3>1. i \in DOMAIN memory /\ i \notin stale /\ Follows(i)
      BY <1>1, <1>9, <2>5 DEF MirrorInv, FollowInv
    <3>2. CASE i = id
      <4>1. memory[i].balance = Grant /\ memory[i].exposure = 0
        BY <1>2, <3>1, <3>2 DEF Follows, id
      <4>2. new = memory[i]
        <5>1. u = memory[i] /\ memory[i] \in UserRow
          BY <1>5, <3>1, <3>2, MemoryTyped
        <5> QED BY <4>1, <5>1 DEF UserRow, new
      <4> QED BY <1>1, <1>2, <1>6, <2>1, <3>1, <3>2, <4>2 DEF Follows
    <3>3. CASE i # id
      <4>1. /\ i \in DOMAIN userRows /\ userRows[i].name = memory[i].name
            /\ ~Due(i) => userRows[i] = memory[i]
        BY <1>2, <3>1, <3>3 DEF Follows, id
      <4>2. i \in DOMAIN userRows' /\ userRows'[i] = userRows[i]
        BY <1>6, <2>1, <3>3, <4>1
      <4> QED BY <1>1, <1>2, <2>4, <4>1, <4>2 DEF Follows
    <3> QED BY <3>2, <3>3
  <2> QED BY <2>3, <2>5 DEF FollowInv
<1> QED BY <1>1, <1>7, <1>8, <1>9 DEF MirrorInv

LEMMA UpdateKeeps ==
  ASSUME MirrorInv, Statement, Head(pending).do # "insert"
  PROVE  MirrorInv'
<1> DEFINE id == Head(pending).id
           u == IF id \in DOMAIN memory THEN memory[id] ELSE First
           new == [userRows[id] EXCEPT !.balance = u.balance, !.exposure = u.exposure]
<1>1. /\ pending # <<>> /\ pending' = Tail(pending)
      /\ UNCHANGED <<memory, nextUserID, sequence, reading, stale, gap, changes, crashes>>
  BY DEF Statement
<1>2. /\ pending' \in Seq(Statements) /\ ~Inserting' /\ ~Inserting
      /\ 1 \in DOMAIN pending /\ Head(pending) = pending[1] /\ id \in Id
      /\ \A i \in DOMAIN pending' : i + 1 \in DOMAIN pending /\ pending'[i] = pending[i + 1]
      /\ \A i \in DOMAIN pending' : pending'[i].do = "update" /\ pending'[i].id \in Id
      /\ \A i \in DOMAIN pending : i = 1 \/ (i - 1 \in DOMAIN pending' /\ pending'[i - 1] = pending[i])
  BY <1>1, TailIs DEF MirrorInv, Inserting, Statements
<1>3. u \in UserRow
  BY MemoryTyped, FirstTyped
<1>4. id \in DOMAIN memory => u = memory[id]
  OBVIOUS
<1>5. \A i \in DOMAIN userRows : userRows[i] \in UserRow
  BY DEF MirrorInv, MirrorTypeOK
<1>6. /\ DOMAIN userRows' = DOMAIN userRows
      /\ id \in DOMAIN userRows => userRows'[id] = new
      /\ \A i \in DOMAIN userRows \ {id} : userRows'[i] = userRows[i]
  <2>1. userRows' = IF id \in DOMAIN userRows
                    THEN [userRows EXCEPT ![id].balance = u.balance, ![id].exposure = u.exposure]
                    ELSE userRows
    BY DEF Statement
  <2> HIDE DEF id, u
  <2> QED BY <2>1
<1> HIDE DEF u, id
<1>7. id \in DOMAIN userRows => new \in UserRow /\ new.name = userRows[id].name
  BY <1>3, <1>5 DEF UserRow
<1>8. id \in DOMAIN userRows /\ u.name = userRows[id].name => new = u
  BY <1>3, <1>5, WrittenRow
<1> HIDE DEF new
<1>9. MirrorTypeOK'
  <2>1. DOMAIN userRows' \subseteq Id /\ \A i \in DOMAIN userRows' : userRows'[i] \in UserRow
    BY <1>5, <1>6, <1>7 DEF MirrorInv, MirrorTypeOK
  <2>2. \A i \in DOMAIN pending' : pending'[i].do \in {"insert", "update"} /\ pending'[i].id \in Id
    BY <1>2
  <2> QED BY <1>1, <2>1, <2>2 DEF MirrorInv, MirrorTypeOK
<1>10. PendingInv'
  <2>1. \A i \in DOMAIN pending' : pending'[i].do = "insert" => i = 1
    BY <1>2
  <2>2. (reading = [r \in Reader |-> reading[r]])' /\ \A r \in Reader : InReading(reading[r])'
    BY <1>1 DEF MirrorInv, PendingInv, InReading
  <2> QED BY <1>1, <1>2, <2>1, <2>2 DEF MirrorInv, PendingInv
<1>11. ASSUME ~gap PROVE CountInv' /\ FollowInv'
  <2>1. CountInv'
    BY <1>1, <1>2, <1>6, <1>11 DEF MirrorInv, CountInv
  <2>2. \A i : Due(i) => Due(i)' \/ i = id
    BY <1>2 DEF Due, id
  <2>3. \A i : Due(i)' => Due(i)
    BY <1>2 DEF Due
  <2>4. ASSUME NEW i \in DOMAIN memory', i \notin stale' PROVE Follows(i)'
    <3>1. /\ i \in DOMAIN memory /\ i \in DOMAIN userRows /\ userRows[i].name = memory[i].name
          /\ ~Due(i) => userRows[i] = memory[i]
      BY <1>1, <1>2, <1>11, <2>4 DEF MirrorInv, FollowInv, Follows
    <3>2. CASE i = id
      BY <1>1, <1>2, <1>4, <1>6, <1>8, <3>1, <3>2 DEF Follows
    <3>3. CASE i # id
      BY <1>1, <1>2, <1>6, <2>2, <3>1, <3>3 DEF Follows
    <3> QED BY <3>2, <3>3
  <2> QED BY <2>1, <2>4 DEF FollowInv
<1> QED BY <1>1, <1>9, <1>10, <1>11 DEF MirrorInv

LEMMA FailureKeeps ==
  ASSUME MirrorInv, StatementFails
  PROVE  MirrorInv'
<1> DEFINE id == Head(pending).id
<1>1. /\ pending # <<>> /\ pending' = Tail(pending) /\ stale' = stale \cup {id}
      /\ UNCHANGED <<memory, userRows, nextUserID, reading, changes>>
      /\ IF Head(pending).do = "insert" THEN sequence' = sequence + 1 /\ gap' = TRUE
         ELSE UNCHANGED <<sequence, gap>>
  BY DEF StatementFails
<1>2. /\ pending' \in Seq(Statements) /\ ~Inserting'
      /\ 1 \in DOMAIN pending /\ Head(pending) = pending[1] /\ id \in Id
      /\ Inserting <=> Head(pending).do = "insert"
      /\ \A i \in DOMAIN pending' : pending'[i].do = "update" /\ pending'[i].id \in Id
      /\ \A i \in DOMAIN pending : i = 1 \/ (i - 1 \in DOMAIN pending' /\ pending'[i - 1] = pending[i])
  BY <1>1, TailIs DEF MirrorInv, Inserting, Statements
<1>3. sequence' \in 0..MaxId /\ 1 <= sequence'
  <2>1. sequence \in 0..MaxId /\ 1 <= sequence /\ (Inserting => sequence < MaxId) /\ MaxId \in Nat
    BY MirrorAssumption DEF MirrorInv, MirrorTypeOK, PendingInv
  <2>2. sequence' = sequence \/ (Inserting /\ sequence' = sequence + 1)
    BY <1>1, <1>2
  <2> QED BY <2>1, <2>2
<1>4. MirrorTypeOK'
  <2>1. \A i \in DOMAIN pending' : pending'[i].do \in {"insert", "update"} /\ pending'[i].id \in Id
    BY <1>2
  <2>2. (gap \in BOOLEAN)'
    BY <1>1 DEF MirrorInv, MirrorTypeOK
  <2> QED BY <1>1, <1>2, <1>3, <2>1, <2>2 DEF MirrorInv, MirrorTypeOK
<1>5. PendingInv'
  <2>1. \A i \in DOMAIN pending' : pending'[i].do = "insert" => i = 1
    BY <1>2
  <2>2. (reading = [r \in Reader |-> reading[r]])' /\ \A r \in Reader : InReading(reading[r])'
    BY <1>1 DEF MirrorInv, PendingInv, InReading
  <2> QED BY <1>2, <1>3, <2>1, <2>2 DEF PendingInv
<1>6. ASSUME ~gap' PROVE CountInv' /\ FollowInv'
  <2>1. ~gap /\ ~Inserting /\ sequence' = sequence
    BY <1>1, <1>2, <1>6 DEF MirrorInv, MirrorTypeOK
  <2>2. CountInv'
    BY <1>1, <1>2, <2>1 DEF MirrorInv, CountInv
  <2>3. \A i : Due(i) => Due(i)' \/ i = id
    BY <1>2 DEF Due
  <2>4. \A i \in DOMAIN memory' \ stale' : Follows(i)'
    BY <1>1, <1>2, <2>1, <2>3 DEF MirrorInv, FollowInv, Follows
  <2> QED BY <2>2, <2>4 DEF FollowInv
<1> QED BY <1>4, <1>5, <1>6 DEF MirrorInv

-----------------------------------------------------------------------------

LEMMA ReadKeeps ==
  ASSUME MirrorInv, NEW r \in Reader, NEW id \in Id, ReadBalance(r, id)
  PROVE  MirrorInv'
<1> DEFINE new == [at |-> "write", id |-> id, balance |-> Row(id).balance,
                   exposure |-> Row(id).exposure]
<1>1. /\ id \in DOMAIN memory /\ reading' = [reading EXCEPT ![r] = new]
      /\ UNCHANGED <<memory, userRows, nextUserID, sequence, pending, stale, gap>>
  BY DEF ReadBalance
<1>2. Row(id).balance \in Int /\ Row(id).exposure \in Nat
  <2>1. Row(id) \in UserRow
    BY FirstTyped DEF Row, UserRow, MirrorInv, MirrorTypeOK
  <2> QED BY <2>1 DEF UserRow
<1>3. new.id \in DOMAIN memory /\ new.balance \in Int /\ new.exposure \in Nat
  BY <1>1, <1>2
<1> HIDE DEF new
<1>4. PendingInv'
  <2>1. reading = [q \in Reader |-> reading[q]]
    BY DEF MirrorInv, PendingInv
  <2>2. reading' = [q \in Reader |-> IF q = r THEN new ELSE reading[q]]
    BY <1>1, <2>1
  <2>3. \A q \in Reader : reading'[q] = IF q = r THEN new ELSE reading[q]
    BY <2>2
  <2>4. reading' = [q \in Reader |-> reading'[q]]
    BY <2>2
  <2>5. \A q \in Reader : InReading(reading[q])'
    BY <1>1, <1>3, <2>3 DEF MirrorInv, PendingInv, InReading
  <2> QED BY <1>1, <2>4, <2>5 DEF MirrorInv, PendingInv, Inserting
<1> QED BY <1>1, <1>4
        DEF MirrorInv, MirrorTypeOK, CountInv, FollowInv, Follows, Inserting, Due

LEMMA SyncKeeps ==
  ASSUME MirrorInv, NEW r \in Reader, SyncBalance(r)
  PROVE  MirrorInv'
<1> DEFINE id == reading[r].id
           synced == [memory[id] EXCEPT !.balance = reading[r].balance,
                                        !.exposure = reading[r].exposure]
<1>1. /\ reading[r] # NotReading /\ memory' = [memory EXCEPT ![id] = synced]
      /\ stale' = IF synced = memory[id] THEN stale ELSE stale \cup {id}
      /\ reading' = [reading EXCEPT ![r] = NotReading]
      /\ UNCHANGED <<userRows, nextUserID, sequence, pending, gap, changes, crashes>>
  BY DEF SyncBalance
<1>2. id \in DOMAIN memory /\ reading[r].balance \in Int /\ reading[r].exposure \in Nat
  BY <1>1 DEF MirrorInv, PendingInv, InReading
<1>3. memory[id] \in UserRow /\ id \in Id
  BY <1>2, MemoryTyped
<1>4. synced \in UserRow
  BY <1>2, <1>3 DEF UserRow
<1> HIDE DEF synced, id
<1>5. /\ DOMAIN memory' = DOMAIN memory
      /\ \A i \in DOMAIN memory : memory'[i] = IF i = id THEN synced ELSE memory[i]
  BY <1>1
<1>6. stale \subseteq stale' /\ stale' \subseteq Id
  BY <1>1, <1>3 DEF MirrorInv, MirrorTypeOK
<1>7. \A i \in DOMAIN memory \ stale' : memory'[i] = memory[i]
  BY <1>1, <1>5
<1>8. MirrorTypeOK'
  BY <1>1, <1>4, <1>5, <1>6, MemoryTyped DEF MirrorInv, MirrorTypeOK
<1>9. PendingInv'
  <2>1. reading = [q \in Reader |-> reading[q]]
    BY DEF MirrorInv, PendingInv
  <2>2. reading' = [q \in Reader |-> IF q = r THEN NotReading ELSE reading[q]]
    BY <1>1, <2>1
  <2>3. \A q \in Reader : reading'[q] = IF q = r THEN NotReading ELSE reading[q]
    BY <2>2
  <2>4. reading' = [q \in Reader |-> reading'[q]]
    BY <2>2
  <2>5. \A q \in Reader : InReading(reading[q])'
    BY <1>5, <2>3 DEF MirrorInv, PendingInv, InReading
  <2> QED BY <1>1, <2>4, <2>5 DEF MirrorInv, PendingInv, Inserting
<1>10. ASSUME ~gap PROVE CountInv' /\ FollowInv'
  <2>1. CountInv'
    BY <1>1, <1>5, <1>10 DEF MirrorInv, CountInv, Inserting
  <2>2. \A i \in DOMAIN memory' \ stale' : Follows(i)'
    BY <1>1, <1>5, <1>6, <1>7, <1>10 DEF MirrorInv, FollowInv, Follows, Inserting, Due
  <2> QED BY <2>1, <2>2 DEF FollowInv
<1> QED BY <1>1, <1>8, <1>9, <1>10 DEF MirrorInv

LEMMA FetchKeeps ==
  ASSUME MirrorInv, NEW id \in Id, FetchUser(id)
  PROVE  MirrorInv'
<1>1. /\ id \in DOMAIN userRows /\ id \notin DOMAIN memory
      /\ memory' = Plus(memory, id, userRows[id])
      /\ UNCHANGED <<userRows, nextUserID, sequence, pending, reading, stale, gap>>
  BY DEF FetchUser
<1>2. /\ DOMAIN memory' = DOMAIN memory \cup {id}
      /\ \A i \in DOMAIN memory' : memory'[i] = IF i = id THEN userRows[id] ELSE memory[i]
  BY <1>1 DEF Plus
<1>3. MirrorTypeOK'
  BY <1>1, <1>2 DEF MirrorInv, MirrorTypeOK
<1>4. PendingInv'
  <2>1. \A r \in Reader : InReading(reading[r])'
    BY <1>1, <1>2 DEF MirrorInv, PendingInv, InReading
  <2> QED BY <1>1, <2>1 DEF MirrorInv, PendingInv, Inserting
\* Until a number is lost everyone who has a row is in memory.
<1>5. gap
  <2> SUFFICES ASSUME ~gap PROVE FALSE
    OBVIOUS
  <2>1. DOMAIN userRows = 1..sequence /\ DOMAIN memory = 1..nextUserID
        /\ (nextUserID = sequence \/ nextUserID = sequence + 1) /\ sequence \in Nat
    BY MirrorAssumption DEF MirrorInv, CountInv, MirrorTypeOK
  <2>2. 1..sequence \subseteq 1..nextUserID
    BY <2>1
  <2> QED BY <1>1, <2>1, <2>2
<1> QED BY <1>1, <1>3, <1>4, <1>5 DEF MirrorInv

LEMMA RestartKeeps ==
  ASSUME MirrorInv, RestartServer
  PROVE  MirrorInv'
<1>1. /\ memory' = userRows /\ nextUserID' = Maximum(DOMAIN userRows)
      /\ pending' = <<>> /\ reading' = [r \in Reader |-> NotReading] /\ stale' = {}
      /\ UNCHANGED <<userRows, sequence, gap, changes>>
  BY DEF RestartServer, GreatestId
<1>2. <<>> \in Seq(Statements) /\ DOMAIN <<>> = {}
  OBVIOUS
<1>3. ~Inserting' /\ \A i : ~Due(i)'
  BY <1>1, <1>2 DEF Inserting, Due
<1>4. DOMAIN userRows \in SUBSET Id
  BY DEF MirrorInv, MirrorTypeOK
<1>5. MirrorTypeOK'
  BY <1>1, <1>2, <1>4, MaximumOfIds DEF MirrorInv, MirrorTypeOK
<1>6. PendingInv'
  <2>1. \A r \in Reader : reading'[r] = NotReading
    BY <1>1
  <2>2. (reading = [r \in Reader |-> reading[r]])'
    BY <1>1
  <2> QED BY <1>1, <1>2, <1>3, <2>1, <2>2 DEF MirrorInv, PendingInv, InReading
<1>7. ASSUME ~gap PROVE CountInv' /\ FollowInv'
  <2>1. DOMAIN userRows = 1..sequence /\ sequence \in Id
    BY <1>7, MirrorAssumption DEF MirrorInv, CountInv, MirrorTypeOK, PendingInv, Id
  <2>2. Maximum(DOMAIN userRows) = sequence
    BY <1>4, <2>1, MaximumOfIds
  <2>3. CountInv'
    BY <1>1, <1>3, <2>1, <2>2 DEF CountInv
  <2>4. FollowInv'
    BY <1>1, <1>3 DEF FollowInv, Follows
  <2> QED BY <2>3, <2>4
<1> QED BY <1>1, <1>5, <1>6, <1>7 DEF MirrorInv

LEMMA MirrorStepKeeps == MirrorInv /\ [MirrorNext]_mirrorVars => MirrorInv'
<1> SUFFICES ASSUME MirrorInv, [MirrorNext]_mirrorVars PROVE MirrorInv'
  OBVIOUS
<1>1. ASSUME NEW name \in Name, NEW parent \in Id, CreateUser(name, parent) PROVE MirrorInv'
  BY <1>1, CreateKeeps
<1>2. ASSUME NEW id \in Id, HoldFunds(id) \/ CashoutAccept(id) \/ FetchUser(id) PROVE MirrorInv'
  BY <1>2, HoldKeeps, CashoutKeeps, FetchKeeps
<1>3. ASSUME NEW id \in Id, NEW pnl \in {-1, 0, 1}, CloseBet(id, pnl) PROVE MirrorInv'
  <2>1. pnl \in Int
    OBVIOUS
  <2> QED BY <1>3, <2>1, CloseKeeps
<1>4. ASSUME NEW from \in Id, NEW to \in Id, TransferBalance(from, to) PROVE MirrorInv'
  BY <1>4, TransferKeeps
<1>5. CASE Statement \/ StatementFails \/ RestartServer
  BY <1>5, InsertKeeps, UpdateKeeps, FailureKeeps, RestartKeeps
<1>6. ASSUME NEW r \in Reader, SyncBalance(r) PROVE MirrorInv'
  BY <1>6, SyncKeeps
<1>7. ASSUME NEW r \in Reader, NEW id \in Id, ReadBalance(r, id) PROVE MirrorInv'
  BY <1>7, ReadKeeps
<1>8. CASE UNCHANGED mirrorVars
  BY <1>8
  DEF mirrorVars, MirrorInv, MirrorTypeOK, PendingInv, CountInv, FollowInv, Follows, Inserting,
      Due, InReading
<1> QED BY <1>1, <1>2, <1>3, <1>4, <1>5, <1>6, <1>7, <1>8 DEF MirrorNext

\* Through restarts, transfers and users created, memory and table say the same of every
\* user no failure, cash-out or older read is known to have touched (store.go, db.go).
THEOREM CopiesKept == MirrorSpec => []MirrorAgrees
<1>1. MirrorInv => MirrorAgrees
  BY InvAgrees
<1> QED BY <1>1, MirrorInitInv, MirrorStepKeeps, PTL DEF MirrorSpec

-----------------------------------------------------------------------------

\* A list that names no one twice.
NoneTwice(list) == \A i, j \in DOMAIN list : list[i] = list[j] => i = j

\* A user's chain is one.
LEMMA ChainIs ==
  ASSUME NEW u \in Member
  PROVE  Chain(u) \in Seq(Member) /\ IsChain(Chain(u), u)
<1>1. \E list \in Chains : IsChain(list, u)
  BY NoticesAssumption
<1>2. Chain(u) \in Chains /\ IsChain(Chain(u), u)
  BY <1>1 DEF Chain
<1>3. Cardinality(Member) \in Nat
  BY NoticesAssumption, FS_CardinalityType
<1>4. PICK n \in 0..Cardinality(Member) : Chain(u) \in [1..n -> Member]
  BY <1>2 DEF Chains
<1>5. n \in Nat
  BY <1>3
<1>6. Chain(u) \in Seq(Member)
  BY <1>4, <1>5
<1> QED BY <1>2, <1>6

\* No one is above himself: where a chain came back to someone it would never end.
LEMMA ChainNoneTwice ==
  ASSUME NEW u \in Member
  PROVE  NoneTwice(Chain(u))
<1> DEFINE list == Chain(u)
           n == Len(list)
           Again == {j \in 1..n : \E i \in 1..n : i < j /\ list[i] = list[j]}
<1>1. /\ list \in Seq(Member) /\ DOMAIN list = 1..n /\ n \in Nat
      /\ IsChain(list, u)
  BY ChainIs
<1> HIDE DEF list
<1>2. \A i \in 1..n : i + 1 \in 1..n => list[i] \in DOMAIN Above /\ list[i + 1] = Above[list[i]]
  <2> SUFFICES ASSUME NEW i \in 1..n, i + 1 \in 1..n
               PROVE  list[i] \in DOMAIN Above /\ list[i + 1] = Above[list[i]]
    OBVIOUS
  <2>1. i + 1 # 1 /\ (i + 1) - 1 = i /\ i + 1 \in DOMAIN list
    BY <1>1
  <2> QED BY <1>1, <2>1 DEF IsChain
<1>3. n # 0 => list[n] \notin DOMAIN Above
  <2> SUFFICES ASSUME n # 0 PROVE list[n] \notin DOMAIN Above
    OBVIOUS
  <2>1. Len(list) + 1 # 1 /\ (Len(list) + 1) - 1 = n
    BY <1>1
  <2> QED BY <1>1, <2>1 DEF IsChain
<1> HIDE DEF n
<1>4. Again = {}
  <2> SUFFICES ASSUME Again # {} PROVE FALSE
    OBVIOUS
  <2> DEFINE Left == {n - j : j \in Again}
  <2>1. Left \in SUBSET Nat /\ Left # {}
    BY <1>1
  <2>2. PICK d \in Left : \A e \in Left : d <= e
    <3> HIDE DEF Left
    <3> QED BY <2>1, LeastNat
  <2>3. PICK j \in Again : d = n - j
    BY <2>2
  <2>4. PICK i \in 1..n : i < j /\ list[i] = list[j]
    BY <2>3
  <2>5. j \in 1..n /\ i \in Nat /\ j \in Nat /\ i + 1 \in 1..n
    BY <1>1, <2>3, <2>4
  <2>6. CASE j = n
    BY <1>2, <1>3, <2>4, <2>5, <2>6
  <2>7. CASE j # n
    <3>1. j + 1 \in 1..n /\ i + 1 < j + 1
      BY <1>1, <2>4, <2>5, <2>7
    <3>2. list[j + 1] = list[i + 1]
      BY <1>2, <2>4, <2>5, <3>1
    <3>3. j + 1 \in Again
      BY <2>5, <3>1, <3>2
    <3>4. n - (j + 1) \in Left
      BY <3>3
    <3>5. n - j <= n - (j + 1)
      BY <2>2, <2>3, <3>4
    <3> QED BY <1>1, <2>5, <3>5
  <2> QED BY <2>6, <2>7
<1>5. \A i, j \in 1..n : list[i] = list[j] => i = j
  <2> SUFFICES ASSUME NEW i \in 1..n, NEW j \in 1..n, list[i] = list[j], i # j PROVE FALSE
    OBVIOUS
  <2>1. i < j \/ j < i
    BY <1>1
  <2>2. i \notin Again /\ j \notin Again
    BY <1>4
  <2> QED BY <2>1, <2>2
<1> QED BY <1>1, <1>5 DEF NoneTwice, list

\* The enumerations of a finite set.
LEMMA SequenceOfSet ==
  ASSUME NEW S \in SUBSET Member, NEW s \in SetToSeqs(S)
  PROVE  s \in Seq(Member) /\ NoneTwice(s) /\ Range(s) = S
<1> DEFINE n == Cardinality(S)
<1>1. IsFiniteSet(S) /\ n \in Nat
  BY NoticesAssumption, FS_Subset, FS_CardinalityType
<1>2. s \in [1..n -> S] /\ \A i, j \in 1..n : i # j => s[i] # s[j]
  BY DEF SetToSeqs
<1>3. IsFiniteSet(1..n) /\ Cardinality(1..n) = n
  <2> HIDE DEF n
  <2>1. n \in Int /\ 1 \in Int /\ (IF 1 > n THEN 0 ELSE n - 1 + 1) = n
    BY <1>1
  <2> QED BY <2>1, FS_Interval
<1> HIDE DEF n
<1>4. s \in Injection(1..n, S)
  BY <1>2 DEF Injection, IsInjective
<1>5. s \in Surjection(1..n, S)
  BY <1>1, <1>3, <1>4, FS_Injection DEF n
<1>6. Range(s) = S
  BY <1>2, <1>5 DEF Surjection, Range
<1>7. s \in Seq(Member)
  BY <1>1, <1>2
<1>8. NoneTwice(s)
  BY <1>2 DEF NoneTwice
<1> QED BY <1>6, <1>7, <1>8

\* Two lists of different users after one another.
LEMMA ConcatNoneTwice ==
  ASSUME NEW s \in Seq(Member), NEW t \in Seq(Member), NoneTwice(s), NoneTwice(t),
         Range(s) \cap Range(t) = {}
  PROVE  s \o t \in Seq(Member) /\ NoneTwice(s \o t) /\ Range(s \o t) = Range(s) \cup Range(t)
<1> DEFINE m == Len(s)
           n == Len(t)
           st == s \o t
<1>1. /\ st \in Seq(Member) /\ Len(st) = m + n /\ m \in Nat /\ n \in Nat
      /\ \A i \in 1..(m + n) : st[i] = IF i <= m THEN s[i] ELSE t[i - m]
  BY ConcatProperties
<1>2. DOMAIN s = 1..m /\ DOMAIN t = 1..n /\ DOMAIN st = 1..(m + n)
  BY <1>1
<1> HIDE DEF m, n, st
<1>3. \A i \in 1..(m + n) : i <= m => i \in 1..m /\ st[i] = s[i] /\ st[i] \in Range(s)
  <2> TAKE i \in 1..(m + n)
  <2> SUFFICES ASSUME i <= m PROVE i \in 1..m /\ st[i] = s[i] /\ st[i] \in Range(s)
    OBVIOUS
  <2>1. i \in 1..m
    BY <1>1
  <2> QED BY <1>1, <1>2, <2>1 DEF Range
<1>4. \A i \in 1..(m + n) : ~(i <= m) => i - m \in 1..n /\ st[i] = t[i - m] /\ st[i] \in Range(t)
  <2> TAKE i \in 1..(m + n)
  <2> SUFFICES ASSUME ~(i <= m) PROVE i - m \in 1..n /\ st[i] = t[i - m] /\ st[i] \in Range(t)
    OBVIOUS
  <2>1. i - m \in 1..n
    BY <1>1
  <2> QED BY <1>1, <1>2, <2>1 DEF Range
<1>5. NoneTwice(st)
  <2> SUFFICES ASSUME NEW i \in 1..(m + n), NEW j \in 1..(m + n), st[i] = st[j] PROVE i = j
    BY <1>2 DEF NoneTwice
  <2>1. CASE i <= m /\ j <= m
    BY <1>2, <1>3, <2>1 DEF NoneTwice
  <2>2. CASE ~(i <= m) /\ ~(j <= m)
    <3>1. i - m = j - m
      BY <1>2, <1>4, <2>2 DEF NoneTwice
    <3> QED BY <1>1, <3>1
  <2>3. CASE (i <= m) # (j <= m)
    BY <1>3, <1>4, <2>3
  <2> QED BY <2>1, <2>2, <2>3
<1>6. Range(st) = Range(s) \cup Range(t)
  <2>1. Range(st) \subseteq Range(s) \cup Range(t)
    BY <1>2, <1>3, <1>4 DEF Range
  <2>2. Range(s) \subseteq Range(st)
    <3> SUFFICES ASSUME NEW i \in 1..m PROVE s[i] \in Range(st)
      BY <1>2 DEF Range
    <3>1. i \in 1..(m + n) /\ st[i] = s[i]
      BY <1>1, <1>3
    <3> QED BY <1>2, <3>1 DEF Range
  <2>3. Range(t) \subseteq Range(st)
    <3> SUFFICES ASSUME NEW i \in 1..n PROVE t[i] \in Range(st)
      BY <1>2 DEF Range
    <3>1. i + m \in 1..(m + n) /\ ~(i + m <= m) /\ (i + m) - m = i
      BY <1>1
    <3>2. st[i + m] = t[i]
      BY <1>4, <3>1
    <3> QED BY <1>2, <3>1, <3>2 DEF Range
  <2> QED BY <2>1, <2>2, <2>3
<1> QED BY <1>1, <1>5, <1>6 DEF st

-----------------------------------------------------------------------------

AboveOf(e) == Range(Chain(events[e])) \cup Superadmin
Told(e, u) == {id \in DOMAIN noticeRows : noticeRows[id].event = e /\ noticeRows[id].user = u}

\* A user above has one row of an event, or one request that has still to tell him, or
\* lost it; no one else has any.
Place(e, u) ==
  LET gone == <<e, u>> \in untold IN
  IF u \in AboveOf(e)
  THEN \/ (\E id : Told(e, u) = {id}) /\ Owed(e, u) = {} /\ ~gone
       \/ Told(e, u) = {} /\ (\E p : Owed(e, u) = {p}) /\ ~gone
       \/ Told(e, u) = {} /\ Owed(e, u) = {} /\ gone
  ELSE Told(e, u) = {} /\ Owed(e, u) = {} /\ ~gone

PlaceInv == \A e \in DOMAIN events, u \in Member : Place(e, u)

\* What is left to a request names no one twice, and an event that has happened.
TellingInv ==
  /\ telling \in [Notifier -> [event : Nat, left : Seq(Member)]]
  /\ \A p \in Notifier :
       /\ NoneTwice(telling[p].left)
       /\ telling[p].left # <<>> => telling[p].event \in DOMAIN events
       /\ telling[p].left = <<>> => telling[p].event = 0

NumberInv ==
  /\ \A lost \in untold : lost[1] \in DOMAIN events
  /\ restarts \in Nat /\ noticeFaults \in Nat
  /\ restarts = 0 => \A id \in DOMAIN noticeRows : id <= nextNotifID

NoticesInv ==
  NoticesTypeOK /\ NumbersOfOneProcessDiffer /\ PlaceInv /\ TellingInv /\ NumberInv

LEMMA InvTells ==
  ASSUME NoticesInv
  PROVE  ToldOnce
<1>1. ASSUME NEW e \in DOMAIN events, NEW u \in Member
      PROVE  Cardinality(Told(e, u)) + Cardinality(Owed(e, u))
               + (IF <<e, u>> \in untold THEN 1 ELSE 0) = IF u \in AboveOf(e) THEN 1 ELSE 0
  <2>1. Place(e, u)
    BY DEF NoticesInv, PlaceInv
  <2>2. Cardinality({}) = 0 /\ \A x : Cardinality({x}) = 1
    BY FS_EmptySet, FS_Singleton
  <2>3. \A x : {x} # {}
    OBVIOUS
  <2>4. CASE u \notin AboveOf(e)
    BY <2>1, <2>2, <2>4 DEF Place
  <2>5. CASE u \in AboveOf(e)
    <3>1. CASE (\E id : Told(e, u) = {id}) /\ Owed(e, u) = {} /\ <<e, u>> \notin untold
      <4>1. Cardinality(Told(e, u)) = 1 /\ Cardinality(Owed(e, u)) = 0
        BY <2>2, <3>1
      <4> QED BY <2>5, <3>1, <4>1
    <3>2. CASE Told(e, u) = {} /\ (\E p : Owed(e, u) = {p}) /\ <<e, u>> \notin untold
      <4>1. Cardinality(Told(e, u)) = 0 /\ Cardinality(Owed(e, u)) = 1
        BY <2>2, <3>2
      <4> QED BY <2>5, <3>2, <4>1
    <3>3. CASE Told(e, u) = {} /\ Owed(e, u) = {} /\ <<e, u>> \in untold
      BY <2>2, <2>5, <3>3
    <3> QED BY <2>1, <2>5, <3>1, <3>2, <3>3 DEF Place
  <2> QED BY <2>4, <2>5
<1>2. EveryoneToldOnce
  BY <1>1 DEF EveryoneToldOnce, Told, AboveOf
<1> QED BY <1>2 DEF NoticesInv, ToldOnce

LEMMA NoticesInitInv == NoticesInit => NoticesInv
<1> SUFFICES ASSUME NoticesInit PROVE NoticesInv
  OBVIOUS
<1> USE DEF NoticesInit
<1>1. DOMAIN <<>> = {} /\ <<>> \in Seq(Member)
  OBVIOUS
<1>2. NoticesTypeOK
  BY <1>1 DEF NoticesTypeOK
<1>3. NumbersOfOneProcessDiffer
  BY DEF NumbersOfOneProcessDiffer
<1>4. PlaceInv
  BY <1>1 DEF PlaceInv
<1>5. TellingInv
  BY <1>1 DEF TellingInv, NothingLeft, NoneTwice
<1>6. NumberInv
  BY <1>1 DEF NumberInv
<1> QED BY <1>2, <1>3, <1>4, <1>5, <1>6 DEF NoticesInv

LEMMA NotifyKeeps ==
  ASSUME NoticesInv, NEW p \in Notifier, NEW u \in Member, NotifyHierarchy(p, u)
  PROVE  NoticesInv'
<1> DEFINE e == Len(events) + 1
<1>1. /\ telling[p] = NothingLeft /\ events' = Append(events, u)
      /\ UNCHANGED <<nextNotifID, noticeRows, untold, read, restarts, noticeFaults>>
  BY DEF NotifyHierarchy
<1>2. PICK rest \in SetToSeqs(OtherSuperadmins(Chain(u))) :
        telling' = [telling EXCEPT ![p] = ToTell(e, Chain(u) \o rest)]
  BY DEF NotifyHierarchy
<1> DEFINE list == Chain(u) \o rest
           new == ToTell(e, list)
<1>3. events \in Seq(Member) /\ Len(events) \in Nat /\ DOMAIN events = 1..Len(events)
  BY DEF NoticesInv, NoticesTypeOK
<1>4. /\ events' \in Seq(Member) /\ DOMAIN events' = DOMAIN events \cup {e} /\ e \notin DOMAIN events
      /\ events'[e] = u /\ \A d \in DOMAIN events : events'[d] = events[d]
  <2>1. Len(events') = e /\ events' \in Seq(Member)
    BY <1>1, <1>3
  <2>2. 1..e = 1..Len(events) \cup {e} /\ e \notin 1..Len(events)
    BY <1>3
  <2> QED BY <1>1, <1>3, <2>1, <2>2
<1>5. list \in Seq(Member) /\ NoneTwice(list) /\ Range(list) = Range(Chain(u)) \cup Superadmin
  <2>1. Chain(u) \in Seq(Member) /\ NoneTwice(Chain(u))
    BY ChainIs, ChainNoneTwice
  <2>2. OtherSuperadmins(Chain(u)) \in SUBSET Member
    BY NoticesAssumption DEF OtherSuperadmins
  <2>3. rest \in Seq(Member) /\ NoneTwice(rest) /\ Range(rest) = OtherSuperadmins(Chain(u))
    BY <1>2, <2>2, SequenceOfSet
  <2>4. Range(Chain(u)) \cap Range(rest) = {}
    BY <2>3 DEF OtherSuperadmins
  <2>5. Range(Chain(u)) \cup Range(rest) = Range(Chain(u)) \cup Superadmin
    BY <2>3 DEF OtherSuperadmins
  <2> QED BY <2>1, <2>3, <2>4, <2>5, ConcatNoneTwice
<1> HIDE DEF list
<1>6. /\ new \in [event : Nat, left : Seq(Member)] /\ new.left = list
      /\ list # <<>> => new.event = e
      /\ list = <<>> => new.event = 0
  BY <1>3, <1>5 DEF ToTell, NothingLeft
<1>7. telling' = [telling EXCEPT ![p] = new]
  BY <1>2 DEF list
<1> HIDE DEF new
<1>8. \A q \in Notifier : telling'[q] = IF q = p THEN new ELSE telling[q]
  BY <1>7 DEF NoticesInv, TellingInv
<1>9. NoticesTypeOK'
  <2>1. \A id \in DOMAIN noticeRows :
          noticeRows[id] \in [event : DOMAIN events', user : Member, read : BOOLEAN]
    BY <1>4 DEF NoticesInv, NoticesTypeOK
  <2> QED BY <1>1, <1>4, <2>1 DEF NoticesInv, NoticesTypeOK
<1>10. NumbersOfOneProcessDiffer'
  BY <1>1 DEF NoticesInv, NumbersOfOneProcessDiffer
<1>11. NumberInv'
  BY <1>1, <1>4 DEF NoticesInv, NumberInv
<1>12. TellingInv'
  <2>1. telling' \in [Notifier -> [event : Nat, left : Seq(Member)]]
    BY <1>6, <1>7 DEF NoticesInv, TellingInv
  <2>2. \A q \in Notifier :
          /\ NoneTwice(telling'[q].left)
          /\ telling'[q].left # <<>> => telling'[q].event \in DOMAIN events'
          /\ telling'[q].left = <<>> => telling'[q].event = 0
    BY <1>4, <1>5, <1>6, <1>8 DEF NoticesInv, TellingInv
  <2> QED BY <2>1, <2>2 DEF TellingInv, NoneTwice
<1>13. Range(<<>>) = {}
  BY DEF Range
<1>14. PlaceInv'
  <2> SUFFICES ASSUME NEW d \in DOMAIN events', NEW v \in Member PROVE Place(d, v)'
    BY DEF PlaceInv
  <2>1. CASE d \in DOMAIN events
    <3>1. Place(d, v)
      BY <2>1 DEF NoticesInv, PlaceInv
    <3>2. Told(d, v)' = Told(d, v) /\ AboveOf(d)' = AboveOf(d)
      BY <1>1, <1>4, <2>1 DEF Told, AboveOf
    <3>3. Owed(d, v)' = Owed(d, v)
      <4>1. p \notin Owed(d, v)
        BY <1>1, <1>13 DEF Owed, NothingLeft
      <4>2. p \notin Owed(d, v)'
        <5>1. d # e /\ d # 0
          BY <1>3, <1>4, <2>1
        <5> QED BY <1>6, <1>8, <5>1 DEF Owed
      <4> QED BY <1>8, <4>1, <4>2 DEF Owed
    <3> QED BY <1>1, <3>1, <3>2, <3>3 DEF Place
  <2>2. CASE d = e
    <3>1. \A id \in DOMAIN noticeRows : noticeRows[id].event # e
      BY <1>4 DEF NoticesInv, NoticesTypeOK
    <3>2. Told(d, v)' = {}
      BY <1>1, <2>2, <3>1 DEF Told
    <3>3. <<d, v>> \notin untold'
      <4>1. <<d, v>>[1] = d
        OBVIOUS
      <4> QED BY <1>1, <1>4, <2>2, <4>1 DEF NoticesInv, NumberInv
    <3>4. AboveOf(d)' = Range(list)
      BY <1>4, <1>5, <2>2 DEF AboveOf
    <3>5. \A q \in Notifier : q # p => q \notin Owed(d, v)'
      <4>1. \A q \in Notifier : telling[q].event # e
        BY <1>3, <1>4 DEF NoticesInv, TellingInv
      <4> QED BY <1>8, <2>2, <4>1 DEF Owed
    <3>6. CASE v \in Range(list)
      <4>1. p \in Owed(d, v)'
        BY <1>6, <1>8, <1>13, <2>2, <3>6 DEF Owed
      <4>2. Owed(d, v)' = {p}
        BY <3>5, <4>1 DEF Owed
      <4> QED BY <3>2, <3>3, <3>4, <3>6, <4>2 DEF Place
    <3>7. CASE v \notin Range(list)
      <4>1. p \notin Owed(d, v)'
        BY <1>6, <1>8, <3>7 DEF Owed
      <4>2. Owed(d, v)' = {}
        BY <3>5, <4>1 DEF Owed
      <4> QED BY <3>2, <3>3, <3>4, <3>7, <4>2 DEF Place
    <3> QED BY <3>6, <3>7
  <2> QED BY <1>4, <2>1, <2>2
<1> QED BY <1>9, <1>10, <1>11, <1>12, <1>14 DEF NoticesInv

\* What is left when the first has been told.
LEMMA TailNoneTwice ==
  ASSUME NEW s \in Seq(Member), s # <<>>, NoneTwice(s)
  PROVE  /\ Head(s) \in Member /\ Head(s) \in Range(s)
         /\ Tail(s) \in Seq(Member) /\ NoneTwice(Tail(s))
         /\ Range(Tail(s)) = Range(s) \ {Head(s)}
<1> DEFINE n == Len(s)
           t == Tail(s)
<1>1. /\ n \in Nat /\ n >= 1 /\ DOMAIN s = 1..n /\ Head(s) = s[1]
      /\ t \in Seq(Member) /\ Len(t) = n - 1 /\ DOMAIN t = 1..(n - 1)
      /\ \A i \in 1..(n - 1) : t[i] = s[i + 1]
  <2>1. n \in Nat /\ n # 0
    BY EmptySeq, LenProperties
  <2> QED BY <2>1, HeadTailProperties
<1> HIDE DEF n, t
<1>2. \A i \in 1..(n - 1) : i + 1 \in 1..n /\ i + 1 # 1 /\ i \in Int
  BY <1>1
<1>3. \A i \in 1..n : i # 1 => i - 1 \in 1..(n - 1) /\ (i - 1) + 1 = i
  BY <1>1
<1>4. 1 \in 1..n
  BY <1>1
<1>5. \A i, j \in 1..n : s[i] = s[j] => i = j
  BY <1>1 DEF NoneTwice
<1>6. NoneTwice(t)
  <2> SUFFICES ASSUME NEW i \in 1..(n - 1), NEW j \in 1..(n - 1), t[i] = t[j] PROVE i = j
    BY <1>1 DEF NoneTwice
  <2>1. i + 1 = j + 1
    BY <1>1, <1>2, <1>5
  <2> QED BY <1>2, <2>1
<1>7. Range(t) \subseteq Range(s) \ {s[1]}
  BY <1>1, <1>2, <1>4, <1>5 DEF Range
<1>8. Range(s) \ {s[1]} \subseteq Range(t)
  <2> SUFFICES ASSUME NEW i \in 1..n, s[i] # s[1] PROVE s[i] \in Range(t)
    BY <1>1 DEF Range
  <2>1. i - 1 \in 1..(n - 1) /\ t[i - 1] = s[i]
    BY <1>1, <1>3
  <2> QED BY <1>1, <2>1 DEF Range
<1>9. s[1] \in Member /\ s[1] \in Range(s)
  BY <1>1, <1>4 DEF Range
<1> QED BY <1>1, <1>6, <1>7, <1>8, <1>9 DEF t

LEMMA AddKeeps ==
  ASSUME NoticesInv, NEW p \in Notifier, AddNotification(p)
  PROVE  NoticesInv'
<1> DEFINE id == nextNotifID + 1
           left == telling[p].left
           to == Head(left)
           e == telling[p].event
           row == [event |-> e, user |-> to, read |-> FALSE]
           new == ToTell(e, Tail(left))
<1>1. /\ left # <<>> /\ nextNotifID' = id
      /\ \/ /\ id \notin DOMAIN noticeRows
            /\ noticeRows' = [k \in DOMAIN noticeRows \cup {id} |->
                                IF k = id THEN row ELSE noticeRows[k]]
            /\ UNCHANGED <<untold, noticeFaults>>
         \/ /\ \/ id \in DOMAIN noticeRows /\ UNCHANGED noticeFaults
               \/ id \notin DOMAIN noticeRows /\ noticeFaults' = noticeFaults + 1
            /\ untold' = untold \cup {<<e, to>>} /\ UNCHANGED noticeRows
      /\ telling' = [telling EXCEPT ![p] = new]
      /\ UNCHANGED <<events, read, restarts>>
  BY DEF AddNotification
<1>2. /\ left \in Seq(Member) /\ NoneTwice(left) /\ e \in DOMAIN events /\ e \in Nat
      /\ nextNotifID \in Nat /\ id \in Nat \ {0}
  BY <1>1 DEF NoticesInv, TellingInv, NoticesTypeOK
<1>3. /\ to \in Member /\ to \in Range(left)
      /\ Tail(left) \in Seq(Member) /\ NoneTwice(Tail(left))
      /\ Range(Tail(left)) = Range(left) \ {to}
  BY <1>1, <1>2, TailNoneTwice
<1>4. /\ new \in [event : Nat, left : Seq(Member)] /\ new.left = Tail(left)
      /\ Tail(left) # <<>> => new.event = e
      /\ Tail(left) = <<>> => new.event = 0
  BY <1>2, <1>3 DEF ToTell, NothingLeft
<1>5. row \in [event : DOMAIN events, user : Member, read : BOOLEAN]
      /\ row.event = e /\ row.user = to
  BY <1>2, <1>3
<1> HIDE DEF id, to, row, new, left, e
<1>6. \A q \in Notifier : telling'[q] = IF q = p THEN new ELSE telling[q]
  BY <1>1 DEF NoticesInv, TellingInv
<1> DEFINE Same(d, v) == Told(d, v)' = Told(d, v) /\ (<<d, v>> \in untold' <=> <<d, v>> \in untold)
           Moved(d, v) == Told(d, v) = {} /\ <<d, v>> \notin untold =>
                            \/ Told(d, v)' = {id} /\ <<d, v>> \notin untold'
                            \/ Told(d, v)' = {} /\ <<d, v>> \in untold'
           After == /\ NoticesTypeOK' /\ NumbersOfOneProcessDiffer' /\ NumberInv'
                    /\ \A d \in DOMAIN events, v \in Member :
                         IF d = e /\ v = to THEN Moved(d, v) ELSE Same(d, v)
<1>7. ASSUME id \notin DOMAIN noticeRows, untold' = untold, UNCHANGED noticeFaults,
             noticeRows' = [k \in DOMAIN noticeRows \cup {id} |->
                              IF k = id THEN row ELSE noticeRows[k]]
      PROVE  After
  <2>1. /\ DOMAIN noticeRows' = DOMAIN noticeRows \cup {id} /\ noticeRows'[id] = row
        /\ \A k \in DOMAIN noticeRows : noticeRows'[k] = noticeRows[k]
    BY <1>7
  <2>2. NoticesTypeOK'
    BY <1>1, <1>2, <1>5, <2>1 DEF NoticesInv, NoticesTypeOK
  <2>3. NumbersOfOneProcessDiffer'
    BY <1>1, <1>7, <2>1 DEF NoticesInv, NumbersOfOneProcessDiffer
  <2>4. NumberInv'
    <3>1. restarts = 0 => \A k \in DOMAIN noticeRows' : k <= nextNotifID'
      <4> SUFFICES ASSUME restarts = 0, NEW k \in DOMAIN noticeRows' PROVE k <= id
        BY <1>1
      <4>1. CASE k = id
        BY <1>2, <4>1
      <4>2. CASE k # id
        <5>1. k \in DOMAIN noticeRows /\ k <= nextNotifID /\ k \in Nat
          BY <2>1, <4>2 DEF NoticesInv, NumberInv, NoticesTypeOK
        <5> QED BY <1>2, <5>1 DEF id
      <4> QED BY <4>1, <4>2
    <3> QED BY <1>1, <1>7, <3>1 DEF NoticesInv, NumberInv
  <2>5. \A d \in DOMAIN events, v \in Member :
          Told(d, v)' = IF d = e /\ v = to THEN Told(d, v) \cup {id} ELSE Told(d, v)
    <3> TAKE d \in DOMAIN events, v \in Member
    <3>1. \A k \in DOMAIN noticeRows : k # id
      BY <1>7
    <3>2. id \in Told(d, v)' <=> d = e /\ v = to
      BY <1>5, <2>1 DEF Told
    <3>3. \A k : k # id => (k \in Told(d, v)' <=> k \in Told(d, v))
      BY <2>1 DEF Told
    <3>4. id \notin Told(d, v)
      BY <3>1 DEF Told
    <3> QED BY <3>2, <3>3, <3>4
  <2>6. \A d \in DOMAIN events, v \in Member :
          IF d = e /\ v = to THEN Moved(d, v) ELSE Same(d, v)
    BY <1>7, <2>5
  <2> QED BY <2>2, <2>3, <2>4, <2>6
<1>8. ASSUME \/ id \in DOMAIN noticeRows /\ UNCHANGED noticeFaults
             \/ id \notin DOMAIN noticeRows /\ noticeFaults' = noticeFaults + 1,
             untold' = untold \cup {<<e, to>>}, UNCHANGED noticeRows
      PROVE  After
  <2>1. NoticesTypeOK'
    BY <1>1, <1>2, <1>8 DEF NoticesInv, NoticesTypeOK
  <2>2. noticeFaults' \in Nat /\ (noticeFaults' = 0 => id \in DOMAIN noticeRows)
    BY <1>8 DEF NoticesInv, NumberInv
  <2>3. restarts = 0 => id \notin DOMAIN noticeRows
    BY <1>2 DEF NoticesInv, NumberInv, id
  <2>4. NumbersOfOneProcessDiffer'
    BY <1>1, <1>8, <2>2, <2>3 DEF NoticesInv, NumbersOfOneProcessDiffer
  <2>5. NumberInv'
    <3>1. \A lost \in untold' : lost[1] \in DOMAIN events'
      <4>1. <<e, to>>[1] = e
        OBVIOUS
      <4> QED BY <1>1, <1>2, <1>8, <4>1 DEF NoticesInv, NumberInv
    <3>2. restarts' = 0 => \A k \in DOMAIN noticeRows' : k <= nextNotifID'
      <4> SUFFICES ASSUME restarts = 0, NEW k \in DOMAIN noticeRows PROVE k <= id
        BY <1>1, <1>8
      <4>1. k <= nextNotifID /\ k \in Nat
        BY DEF NoticesInv, NumberInv, NoticesTypeOK
      <4> QED BY <1>2, <4>1 DEF id
    <3>3. restarts' \in Nat
      BY <1>1 DEF NoticesInv, NumberInv
    <3> QED BY <2>2, <3>1, <3>2, <3>3 DEF NumberInv
  <2>6. \A d \in DOMAIN events, v \in Member : Told(d, v)' = Told(d, v)
    BY <1>8 DEF Told
  <2>7. \A d, v : <<d, v>> = <<e, to>> <=> d = e /\ v = to
    OBVIOUS
  <2>8. \A d \in DOMAIN events, v \in Member :
          IF d = e /\ v = to THEN Moved(d, v) ELSE Same(d, v)
    BY <1>8, <2>6, <2>7
  <2> QED BY <2>1, <2>4, <2>5, <2>8
<1>9. After
  BY <1>1, <1>7, <1>8
<1> HIDE DEF After
<1>10. TellingInv'
  <2>1. telling' \in [Notifier -> [event : Nat, left : Seq(Member)]]
    BY <1>1, <1>4 DEF NoticesInv, TellingInv
  <2>2. \A q \in Notifier :
          /\ NoneTwice(telling'[q].left)
          /\ telling'[q].left # <<>> => telling'[q].event \in DOMAIN events'
          /\ telling'[q].left = <<>> => telling'[q].event = 0
    BY <1>1, <1>2, <1>3, <1>4, <1>6 DEF NoticesInv, TellingInv
  <2> QED BY <2>1, <2>2 DEF TellingInv, NoneTwice
<1>11. \A d \in DOMAIN events, v \in Member :
         /\ ~(d = e /\ v = to) => Owed(d, v)' = Owed(d, v)
         /\ d = e /\ v = to => p \in Owed(d, v) /\ Owed(d, v)' = Owed(d, v) \ {p}
  <2> TAKE d \in DOMAIN events, v \in Member
  <2>1. d # 0
    BY DEF NoticesInv, NoticesTypeOK
  <2>2. p \in Owed(d, v) <=> d = e /\ v \in Range(left)
    BY DEF Owed, e, left
  <2>3. p \in Owed(d, v)' <=> d = e /\ v \in Range(left) /\ v # to
    <3>1. CASE Tail(left) = <<>>
      <4>1. Range(Tail(left)) = {}
        BY <3>1 DEF Range
      <4> QED BY <1>3, <1>4, <1>6, <2>1, <3>1, <4>1 DEF Owed
    <3>2. CASE Tail(left) # <<>>
      BY <1>3, <1>4, <1>6, <3>2 DEF Owed
    <3> QED BY <3>1, <3>2
  <2>4. \A q : q # p => (q \in Owed(d, v)' <=> q \in Owed(d, v))
    <3>1. \A q \in Notifier : q # p => telling'[q] = telling[q]
      BY <1>6
    <3> TAKE q
    <3> SUFFICES ASSUME q # p, q \in Notifier PROVE q \in Owed(d, v)' <=> q \in Owed(d, v)
      BY DEF Owed
    <3>2. telling'[q] = telling[q]
      BY <3>1
    <3>3. q \in Owed(d, v) <=> telling[q].event = d /\ v \in Range(telling[q].left)
      BY DEF Owed
    <3>4. q \in Owed(d, v)' <=> telling'[q].event = d /\ v \in Range(telling'[q].left)
      BY DEF Owed
    <3> QED BY <3>2, <3>3, <3>4
  <2> DEFINE was == Owed(d, v)
             is == Owed(d, v)'
  <2>5. ASSUME ~(d = e /\ v = to) PROVE is = was
    <3>1. p \in is <=> p \in was
      BY <2>2, <2>3, <2>5
    <3>2. \A q : q \in is <=> q \in was
      BY <2>4, <3>1
    <3> HIDE DEF is, was
    <3> QED BY <3>2
  <2>6. ASSUME d = e, v = to PROVE p \in was /\ is = was \ {p}
    <3>1. p \in was /\ p \notin is
      BY <1>3, <2>2, <2>3, <2>6
    <3>2. \A q : q \in is <=> q \in was /\ q # p
      BY <2>4, <3>1
    <3> HIDE DEF is, was
    <3> QED BY <3>1, <3>2
  <2> QED BY <2>5, <2>6
<1>12. PlaceInv'
  <2> SUFFICES ASSUME NEW d \in DOMAIN events, NEW v \in Member PROVE Place(d, v)'
    BY <1>1 DEF PlaceInv
  <2>1. Place(d, v)
    BY DEF NoticesInv, PlaceInv
  <2>2. AboveOf(d)' = AboveOf(d)
    BY <1>1 DEF AboveOf
  <2>3. CASE ~(d = e /\ v = to)
    BY <1>9, <1>11, <2>1, <2>2, <2>3 DEF Place, After
  <2>4. CASE d = e /\ v = to
    <3>1. p \in Owed(d, v) /\ Owed(d, v)' = Owed(d, v) \ {p}
      BY <1>11, <2>4
    <3>2. v \in AboveOf(d) /\ Told(d, v) = {} /\ <<d, v>> \notin untold /\ Owed(d, v) = {p}
      BY <2>1, <3>1 DEF Place
    <3>3. Owed(d, v)' = {}
      BY <3>1, <3>2
    <3>4. Moved(d, v)
      BY <1>9, <2>4 DEF After
    <3> QED BY <2>2, <3>2, <3>3, <3>4 DEF Place
  <2> QED BY <2>3, <2>4
<1> QED BY <1>9, <1>10, <1>12 DEF NoticesInv, After

LEMMA MarkKeeps ==
  ASSUME NoticesInv, NEW u \in Member,
         MarkAllNotificationsRead(u) \/ \E id \in DOMAIN noticeRows : MarkNotificationRead(u, id)
  PROVE  NoticesInv'
<1> DEFINE MarkedOnly ==
            /\ UNCHANGED <<nextNotifID, telling, events, untold, restarts, noticeFaults>>
            /\ DOMAIN noticeRows' = DOMAIN noticeRows
            /\ \A k \in DOMAIN noticeRows :
                 /\ noticeRows'[k] \in [event : DOMAIN events, user : Member, read : BOOLEAN]
                 /\ noticeRows'[k].event = noticeRows[k].event
                 /\ noticeRows'[k].user = noticeRows[k].user
                 /\ noticeRows[k].read => noticeRows'[k].read
            /\ \A k \in read' : k \in read \/ (k \in DOMAIN noticeRows /\ noticeRows'[k].read)
<1>1. MarkedOnly
  <2>1. \A k \in DOMAIN noticeRows :
          noticeRows[k] \in [event : DOMAIN events, user : Member, read : BOOLEAN]
    BY DEF NoticesInv, NoticesTypeOK
  <2>2. CASE MarkAllNotificationsRead(u)
    <3> DEFINE own == Unread(u)
    <3>1. /\ noticeRows' = [k \in DOMAIN noticeRows |->
                             [noticeRows[k] EXCEPT !.read = @ \/ k \in own]]
          /\ read' = read \cup own
          /\ UNCHANGED <<nextNotifID, telling, events, untold, restarts, noticeFaults>>
      BY <2>2 DEF MarkAllNotificationsRead
    <3>2. own \subseteq DOMAIN noticeRows
      BY DEF Unread
    <3> HIDE DEF own
    <3>3. \A k \in DOMAIN noticeRows :
            noticeRows'[k] = [noticeRows[k] EXCEPT !.read = noticeRows[k].read \/ k \in own]
      BY <3>1
    <3>4. ASSUME NEW k \in DOMAIN noticeRows
          PROVE  /\ noticeRows'[k] \in [event : DOMAIN events, user : Member, read : BOOLEAN]
                 /\ noticeRows'[k].event = noticeRows[k].event
                 /\ noticeRows'[k].user = noticeRows[k].user
                 /\ noticeRows'[k].read = (noticeRows[k].read \/ k \in own)
      <4>1. noticeRows[k] \in [event : DOMAIN events, user : Member, read : BOOLEAN]
        BY <2>1
      <4>2. (noticeRows[k].read \/ k \in own) \in BOOLEAN
        OBVIOUS
      <4> DEFINE marked == noticeRows[k].read \/ k \in own
      <4>3. noticeRows'[k] = [noticeRows[k] EXCEPT !.read = marked] /\ marked \in BOOLEAN
        BY <3>3, <4>2
      <4> HIDE DEF marked
      <4>4. /\ noticeRows'[k] \in [event : DOMAIN events, user : Member, read : BOOLEAN]
            /\ noticeRows'[k].event = noticeRows[k].event
            /\ noticeRows'[k].user = noticeRows[k].user
            /\ noticeRows'[k].read = marked
        BY <4>1, <4>3
      <4> QED BY <4>4 DEF marked
    <3>5. DOMAIN noticeRows' = DOMAIN noticeRows
      BY <3>1
    <3>6. \A k \in read' : k \in read \/ k \in own
      BY <3>1
    <3>7. \A k \in own : k \in DOMAIN noticeRows /\ noticeRows'[k].read
      BY <3>2, <3>4
    <3> QED BY <3>1, <3>4, <3>5, <3>6, <3>7
  <2>3. ASSUME NEW id \in DOMAIN noticeRows, MarkNotificationRead(u, id)
        PROVE  MarkedOnly
    <3>1. /\ noticeRows' = [noticeRows EXCEPT ![id].read = TRUE] /\ read' = read \cup {id}
          /\ UNCHANGED <<nextNotifID, telling, events, untold, restarts, noticeFaults>>
      BY <2>3 DEF MarkNotificationRead
    <3>2. DOMAIN noticeRows' = DOMAIN noticeRows
      BY <3>1
    <3>3. \A k \in DOMAIN noticeRows :
            noticeRows'[k] = IF k = id THEN [noticeRows[k] EXCEPT !.read = TRUE] ELSE noticeRows[k]
      BY <3>1
    <3>4. ASSUME NEW k \in DOMAIN noticeRows
          PROVE  /\ noticeRows'[k] \in [event : DOMAIN events, user : Member, read : BOOLEAN]
                 /\ noticeRows'[k].event = noticeRows[k].event
                 /\ noticeRows'[k].user = noticeRows[k].user
                 /\ noticeRows[k].read => noticeRows'[k].read
                 /\ k = id => noticeRows'[k].read
      <4>1. noticeRows[k] \in [event : DOMAIN events, user : Member, read : BOOLEAN]
        BY <2>1
      <4>2. CASE k = id
        <5>1. noticeRows'[k] = [noticeRows[k] EXCEPT !.read = TRUE]
          BY <3>3, <4>2
        <5> QED BY <4>1, <5>1
      <4>3. CASE k # id
        BY <3>3, <4>1, <4>3
      <4> QED BY <4>2, <4>3
    <3>5. \A k \in read' : k \in read \/ k = id
      BY <3>1
    <3>6. noticeRows'[id].read
      BY <3>4
    <3> QED BY <3>1, <3>2, <3>4, <3>5, <3>6
  <2> QED BY <2>2, <2>3
<1>2. NoticesTypeOK'
  BY <1>1 DEF NoticesInv, NoticesTypeOK
<1>3. NumbersOfOneProcessDiffer'
  BY <1>1 DEF NoticesInv, NumbersOfOneProcessDiffer
<1>4. NumberInv'
  BY <1>1 DEF NoticesInv, NumberInv
<1>5. TellingInv'
  BY <1>1 DEF NoticesInv, TellingInv, NoneTwice
<1>6. ASSUME NEW d \in DOMAIN events, NEW v \in Member
      PROVE  Place(d, v)'
  <2>1. Told(d, v)' = Told(d, v)
    BY <1>1 DEF Told
  <2>2. Owed(d, v)' = Owed(d, v) /\ AboveOf(d)' = AboveOf(d)
    BY <1>1 DEF Owed, AboveOf
  <2>3. Place(d, v)
    BY DEF NoticesInv, PlaceInv
  <2>4. untold' = untold
    BY <1>1
  <2> QED BY <2>1, <2>2, <2>3, <2>4 DEF Place
<1>7. PlaceInv'
  BY <1>1, <1>6 DEF PlaceInv
<1> QED BY <1>2, <1>3, <1>4, <1>5, <1>7 DEF NoticesInv

LEMMA RestartNumbersKeeps ==
  ASSUME NoticesInv, RestartNumbers
  PROVE  NoticesInv'
<1>1. /\ restarts' = restarts + 1 /\ nextNotifID' = 0
      /\ untold' = untold \cup {owed \in (DOMAIN events) \X Member : Owed(owed[1], owed[2]) # {}}
      /\ telling' = [p \in Notifier |-> NothingLeft]
      /\ UNCHANGED <<noticeRows, events, read, noticeFaults>>
  BY DEF RestartNumbers
<1>2. restarts' \in Nat /\ restarts' # 0
  BY <1>1 DEF NoticesInv, NumberInv
<1>3. NoticesTypeOK' /\ NumbersOfOneProcessDiffer'
  BY <1>1, <1>2 DEF NoticesInv, NoticesTypeOK, NumbersOfOneProcessDiffer
<1>4. NumberInv'
  <2>1. \A lost \in untold' : lost[1] \in DOMAIN events'
    BY <1>1 DEF NoticesInv, NumberInv
  <2> QED BY <1>1, <1>2, <2>1 DEF NoticesInv, NumberInv
<1>5. <<>> \in Seq(Member) /\ DOMAIN <<>> = {} /\ Range(<<>>) = {}
  BY DEF Range
<1>6. TellingInv'
  BY <1>1, <1>5 DEF TellingInv, NothingLeft, NoneTwice
<1>7. ASSUME NEW d \in DOMAIN events, NEW v \in Member
      PROVE  Place(d, v)'
  <2>1. Told(d, v)' = Told(d, v) /\ AboveOf(d)' = AboveOf(d)
    BY <1>1 DEF Told, AboveOf
  <2>2. Owed(d, v)' = {}
    BY <1>1, <1>5 DEF Owed, NothingLeft
  <2>3. <<d, v>> \in untold' <=> <<d, v>> \in untold \/ Owed(d, v) # {}
    BY <1>1
  <2>4. Place(d, v)
    BY DEF NoticesInv, PlaceInv
  <2>5. \A p : {p} # {}
    OBVIOUS
  <2> QED BY <2>1, <2>2, <2>3, <2>4, <2>5 DEF Place
<1>8. PlaceInv'
  BY <1>1, <1>7 DEF PlaceInv
<1> QED BY <1>3, <1>4, <1>6, <1>8 DEF NoticesInv

LEMMA NoticesStepKeeps == NoticesInv /\ [NoticesNext]_noticeVars => NoticesInv'
<1> SUFFICES ASSUME NoticesInv, [NoticesNext]_noticeVars PROVE NoticesInv'
  OBVIOUS
<1>1. CASE \E p \in Notifier : AddNotification(p) \/ \E u \in Member : NotifyHierarchy(p, u)
  BY <1>1, AddKeeps, NotifyKeeps
<1>2. CASE \E u \in Member : \/ MarkAllNotificationsRead(u)
                            \/ \E id \in DOMAIN noticeRows : MarkNotificationRead(u, id)
  BY <1>2, MarkKeeps
<1>3. CASE RestartNumbers
  BY <1>3, RestartNumbersKeeps
<1>4. CASE UNCHANGED noticeVars
  <2>1. /\ NoticesTypeOK' = NoticesTypeOK
        /\ NumbersOfOneProcessDiffer' = NumbersOfOneProcessDiffer
        /\ NumberInv' = NumberInv
    BY <1>4 DEF noticeVars, NoticesTypeOK, NumbersOfOneProcessDiffer, NumberInv
  <2>2. TellingInv' = TellingInv
    BY <1>4 DEF noticeVars, TellingInv, NoneTwice
  <2>3. PlaceInv' = PlaceInv
    BY <1>4 DEF noticeVars, PlaceInv, Place, Told, Owed, AboveOf
  <2> QED BY <2>1, <2>2, <2>3 DEF NoticesInv
<1> QED BY <1>1, <1>2, <1>3, <1>4 DEF NoticesNext

\* Through concurrent requests, failed inserts and restarts everyone above a user is told of
\* an event once, or is still to be, or is known to have lost it, and a process that has not
\* been restarted loses no one to a number that is taken (store.go, db.go).
THEOREM EveryoneTold == NoticesSpec => []ToldOnce
<1>1. NoticesInit => NoticesInv
  BY NoticesInitInv
<1>2. NoticesInv /\ [NoticesNext]_noticeVars => NoticesInv'
  BY NoticesStepKeeps
<1>3. NoticesInv => ToldOnce
  BY InvTells
<1> QED BY <1>1, <1>2, <1>3, PTL DEF NoticesSpec

=============================================================================
