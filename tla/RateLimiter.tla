------------------------------ MODULE RateLimiter ------------------------------
(***************************************************************************)
(* PerIPRateLimiter of cmd/mockserver/security.go: a token bucket for each *)
(* address, refilled when it is used, and a goroutine that forgets the     *)
(* buckets not used for five minutes.  Both run under its mutex.  The      *)
(* gateway's IPRateLimiter (internal/middleware/auth.go) is the same with  *)
(* the bucket of golang.org/x/time/rate.                                   *)
(***************************************************************************)
EXTENDS Integers

CONSTANTS
  IP,        \* addresses
  Rate,      \* tokens in a unit of time
  Burst,     \* what a bucket holds
  IdleFor,   \* the age at which a bucket is forgotten
  MaxClock   \* bound on the clock

\* A bucket that is forgotten is full: 20 a second for five minutes against 50.
LimiterConstants ==
  /\ Rate \in Nat /\ Burst \in Nat \ {0} /\ IdleFor \in Nat /\ MaxClock \in Nat
  /\ IdleFor * Rate >= Burst

VARIABLES
  clock,
  limiters,   \* the buckets, by address
  admitted    \* history: what each address was let through at or after a time

limiterVars == <<clock, limiters, admitted>>

Time == 0..MaxClock
NoBucket == [tokens |-> -1, lastCheck |-> 0]
Bucket == [tokens : 0..Burst, lastCheck : Time]

LimiterInit ==
  /\ clock = 0
  /\ limiters = [ip \in IP |-> NoBucket]
  /\ admitted = [ip \in IP |-> [t \in Time |-> 0]]

AtMost(n, limit) == IF n > limit THEN limit ELSE n

\* Mutant: the refill is not cut off.
RefilledOver(b) == b.tokens + (clock - b.lastCheck) * Rate

\* The tokens of a bucket now.
Refilled(b) == AtMost(b.tokens + (clock - b.lastCheck) * Rate, Burst)

\* What an address may spend now: a bucket it has not got will be a full one.
Tokens(ip) == IF limiters[ip] = NoBucket THEN Burst ELSE Refilled(limiters[ip])

Allow(ip) ==
  /\ Tokens(ip) >= 1
  /\ limiters' = [limiters EXCEPT ![ip] = [tokens |-> Tokens(ip) - 1, lastCheck |-> clock]]
  /\ admitted' = [admitted EXCEPT ![ip] = [t \in Time |-> IF t <= clock THEN @[t] + 1 ELSE @[t]]]
  /\ UNCHANGED clock

Refuse(ip) ==
  /\ Tokens(ip) < 1
  /\ limiters' = [limiters EXCEPT ![ip] = [tokens |-> Tokens(ip), lastCheck |-> clock]]
  /\ UNCHANGED <<clock, admitted>>

Forget ==
  /\ limiters' = [ip \in IP |-> IF clock - limiters[ip].lastCheck > IdleFor
                                THEN NoBucket ELSE limiters[ip]]
  /\ UNCHANGED <<clock, admitted>>

Pass == clock < MaxClock /\ clock' = clock + 1 /\ UNCHANGED <<limiters, admitted>>

LimiterNext == (\E ip \in IP : Allow(ip) \/ Refuse(ip)) \/ Forget \/ Pass

LimiterSpec == LimiterInit /\ [][LimiterNext]_limiterVars

-----------------------------------------------------------------------------

\* Values of every variable.
LimiterTypeOK ==
  /\ clock \in Time
  /\ limiters \in [IP -> Bucket \cup {NoBucket}]
  /\ admitted \in [IP -> [Time -> Nat]]

\* Every variable has a value of its kind, and over any stretch of time that ends now, an
\* address is let through no more than a full bucket and its refill: buckets forgotten and
\* made anew give nothing away.
RateKept ==
  /\ LimiterTypeOK
  /\ \A ip \in IP : \A t \in 0..clock : admitted[ip][t] <= Burst + (clock - t) * Rate

\* The inductive form: what may still be spent now is within it too, and nothing
\* is let through ahead of the time.
RateInv ==
  /\ LimiterTypeOK
  /\ \A ip \in IP : limiters[ip].lastCheck <= clock
  /\ \A ip \in IP : \A t \in Time :
       IF t <= clock THEN admitted[ip][t] + Tokens(ip) <= Burst + (clock - t) * Rate
       ELSE admitted[ip][t] = 0

=============================================================================
