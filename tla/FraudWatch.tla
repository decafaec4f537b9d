------------------------------- MODULE FraudWatch -------------------------------
(***************************************************************************)
(* internal/fraud/service.go: AnalyzeBet, whose Redis commands and SQL     *)
(* queries are steps of their own, so that analyses of one user's bets run *)
(* into each other.  The gateway builds the service and nothing in the     *)
(* repository calls AnalyzeBet or ShouldBlockBet: analyses come whenever.  *)
(* The scores that depend on one call's arguments or the history of bets   *)
(* alone are one input; one user, whose keys no other user's calls touch.  *)
(***************************************************************************)
EXTENDS Integers, FiniteSets

CONSTANTS
  Analysis,               \* calls of AnalyzeBet, numbered as they begin
  Market, Address,
  Window, ArbWindow, ProfileKept,  \* a minute, five seconds and ten minutes, in ticks
  MaxPerWindow, MaxAddresses,  \* thresholds
  BurstPoints, ArbPoints, AddressPoints,  \* what a flag adds to the score
  OtherScores,            \* what the other flags add up to
  High, Critical,         \* where a score begins to be high and critical
  LastTick                \* bound on the clock

ASSUME FraudAssumption ==
  /\ Analysis \subseteq Nat
  /\ {Window, ArbWindow, ProfileKept, LastTick, MaxPerWindow, MaxAddresses} \subseteq Nat
  /\ {BurstPoints, ArbPoints, AddressPoints} \subseteq Nat /\ OtherScores \subseteq Nat

Side == {"back", "lay"}

VARIABLES
  tick,
  analysis,        \* what each call does next, and what it has gathered
  freq,        \* fraud:freq: the ticks of the bets, a member once per tick
  ips,         \* fraud:ips
  lastSide,    \* fraud:arb per market: a side and when it was set
  profile,     \* fraud:profile: the score and when it was set
  alerts,      \* rows of fraud_alerts: the call and whether resolved
  counted,     \* history: when each call that has counted began
  flagged      \* history: those of them that flagged the bet frequency

fraudVars == <<tick, analysis, freq, ips, lastSide, profile, alerts, counted, flagged>>
keys == <<freq, ips, lastSide, profile>>

Never == -(Window + ProfileKept)   \* before any key can be alive
NotYet == [at |-> "not yet"]

FraudInit ==
  /\ tick = 0
  /\ analysis = [c \in Analysis |-> NotYet]
  /\ freq = {} /\ ips = {}
  /\ lastSide = [m \in Market |-> [side |-> "back", set |-> Never]]
  /\ profile = [score |-> 0, set |-> Never]
  /\ alerts = {}
  /\ counted = {} /\ flagged = {}

Does(c, at) == analysis[c].at = at
Goes(c, at, add) == analysis' = [analysis EXCEPT ![c].at = at, ![c].score = @ + add]
Flag(yes, points) == IF yes THEN points ELSE 0

\* The clock is read once, ...
AnalyzeBet(c, market, side, address, other) ==
  /\ analysis[c] = NotYet /\ \A earlier \in Analysis : earlier < c => analysis[earlier] # NotYet
  /\ analysis' = [analysis EXCEPT ![c] = [at |-> "trim", now |-> tick, market |-> market,
                                  side |-> side, address |-> address, score |-> other]]
  /\ UNCHANGED <<tick, keys, alerts, counted, flagged>>

\* ... what is before the window that ends there is removed, ...
Trim(c) ==
  /\ Does(c, "trim") /\ Goes(c, "add", 0)
  /\ freq' = {t \in freq : t > analysis[c].now - Window}
  /\ UNCHANGED <<tick, ips, lastSide, profile, alerts, counted, flagged>>

\* ... the bet added, ...
Add(c) ==
  /\ Does(c, "add") /\ Goes(c, "count", 0)
  /\ freq' = freq \cup {analysis[c].now}
  /\ UNCHANGED <<tick, ips, lastSide, profile, alerts, counted, flagged>>

\* Mutant: the count starts at the limit.
TooMany(count) == count > MaxPerWindow + 1

\* The bet frequency against its threshold.
TooOften(count) == count > MaxPerWindow

\* ... and the set counted.
Count(c) ==
  LET yes == TooOften(Cardinality(freq)) IN
  /\ Does(c, "count") /\ Goes(c, "address", Flag(yes, BurstPoints))
  /\ counted' = counted \cup {analysis[c].now}
  /\ flagged' = IF yes THEN flagged \cup {analysis[c].now} ELSE flagged
  /\ UNCHANGED <<tick, keys, alerts>>

\* SADD and SCARD of the addresses, a day's, and the devices likewise.
CountAddress(c) ==
  LET known == ips \cup {analysis[c].address} IN
  /\ Does(c, "address") /\ ips' = known
  /\ Goes(c, "arb", Flag(Cardinality(known) > MaxAddresses, AddressPoints))
  /\ UNCHANGED <<tick, freq, lastSide, profile, alerts, counted, flagged>>

\* The last side on the market is read, ...
ReadSide(c) ==
  LET last == lastSide[analysis[c].market] IN
  /\ Does(c, "arb")
  /\ Goes(c, "set side",
          Flag(tick < last.set + ArbWindow /\ last.side # analysis[c].side, ArbPoints))
  /\ UNCHANGED <<tick, keys, alerts, counted, flagged>>

\* ... and this one set.
SetSide(c) ==
  /\ Does(c, "set side") /\ Goes(c, "alert", 0)
  /\ lastSide' = [lastSide EXCEPT ![analysis[c].market] = [side |-> analysis[c].side, set |-> tick]]
  /\ UNCHANGED <<tick, freq, ips, profile, alerts, counted, flagged>>

Least(a, b) == IF a < b THEN a ELSE b

\* createAlert, of a score that is high: the row may fail, and only that is logged.
CreateAlert(c) ==
  /\ Does(c, "alert") /\ Goes(c, "profile", 0)
  /\ \/ UNCHANGED alerts
     \/ /\ Least(analysis[c].score, 100) >= High
        /\ alerts' = alerts \cup {[call |-> c, resolved |-> FALSE]}
  /\ UNCHANGED <<tick, keys, counted, flagged>>

\* The profile is the score of the call that ends last.
SetProfile(c) ==
  /\ Does(c, "profile") /\ Goes(c, "done", 0)
  /\ profile' = [score |-> Least(analysis[c].score, 100), set |-> tick]
  /\ UNCHANGED <<tick, freq, ips, lastSide, alerts, counted, flagged>>

ResolveAlert(c) ==
  /\ [call |-> c, resolved |-> FALSE] \in alerts
  /\ alerts' = (alerts \ {[call |-> c, resolved |-> FALSE]}) \cup {[call |-> c, resolved |-> TRUE]}
  /\ UNCHANGED <<tick, analysis, keys, counted, flagged>>

\* GetUserRiskScore, ShouldBlockBet.
ShouldBlock == tick < profile.set + ProfileKept /\ profile.score >= Critical

Tick ==
  /\ tick < LastTick /\ tick' = tick + 1
  /\ UNCHANGED <<analysis, keys, alerts, counted, flagged>>

FraudNext ==
  \/ \E c \in Analysis :
       \/ \E market \in Market, side \in Side, address \in Address, other \in OtherScores :
            AnalyzeBet(c, market, side, address, other)
       \/ Trim(c) \/ Add(c) \/ Count(c) \/ CountAddress(c) \/ ReadSide(c) \/ SetSide(c)
       \/ CreateAlert(c) \/ SetProfile(c) \/ ResolveAlert(c)
  \/ Tick

FraudSpec == FraudInit /\ [][FraudNext]_fraudVars

-----------------------------------------------------------------------------

\* Values of every variable.
FraudTypeOK ==
  /\ tick \in 0..LastTick /\ freq \subseteq 0..LastTick /\ ips \subseteq Address
  /\ \A m \in Market : lastSide[m].side \in Side
  /\ profile.score \in 0..100
  /\ \A a \in alerts : a.call \in Analysis
  /\ counted \subseteq 0..LastTick /\ flagged \subseteq counted

Begun == {analysis[c].now : c \in {x \in Analysis : analysis[x] # NotYet}}

\* A burst, more bets than the threshold at different ticks of one window, is flagged by
\* the analysis of one of them at least, however their commands interleave: unless a bet
\* later than that window was analysed too, which may have removed its beginning.
OneIsFlagged ==
  \A burst \in SUBSET counted :
    /\ Cardinality(burst) > MaxPerWindow
    /\ \A t \in burst, u \in Begun : u < t + Window
    => burst \cap flagged # {}

\* The analyses of a burst of bets flag one of them at least (internal/fraud).
BurstIsFlagged == FraudTypeOK /\ OneIsFlagged

=============================================================================
