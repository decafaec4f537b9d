------------------------------- MODULE OddsFeed -------------------------------
(***************************************************************************)
(* OddsAPIClient of cmd/mockserver/odds_api.go: one goroutine that spends  *)
(* the credits of a paid odds service.  After an initial load of the hot   *)
(* sports it visits each tier at its own ticker's pace, and what it may    *)
(* spend depends on the credits left as the last answer told them.         *)
(* MergeOddsIntoStore, its effect on the markets, is an action of House.   *)
(***************************************************************************)
EXTENDS Integers, FiniteSets

CONSTANTS
  Hot, Warm, Cold,   \* the sports of each tier that a round visits
  Scored,            \* the hot sports whose scores are fetched
  PauseBelow, SaveForHotBelow, SaveScoresBelow,  \* 5, 20 and 30 credits
  Credits,           \* what the account has at the start
  MaxLost            \* bound: answers lost

\* An account begins with more than the pause is to keep: 500 against 5.
ASSUME FeedAssumption ==
  /\ IsFiniteSet(Hot) /\ Scored \subseteq Hot
  /\ PauseBelow \in Nat /\ SaveForHotBelow \in Nat /\ SaveScoresBelow \in Nat
  /\ PauseBelow <= SaveForHotBelow /\ PauseBelow <= SaveScoresBelow
  /\ Credits \in Nat /\ Credits >= PauseBelow /\ MaxLost \in Nat

VARIABLES
  unspent,           \* what the service will still sell
  creditsRemaining,  \* what the client was last told, 0 before
  stage,             \* discovering, loading, or ticking
  round,             \* the tier being visited
  toVisit,           \* the sports of it still to visit
  eventsCache,       \* sports whose events were fetched in the last five minutes
  oddsCache,         \* sports whose odds were, in the last three
  liveScores,        \* sports whose scores are in the store
  unheard            \* history: calls whose answer, with its header, was lost

feedVars == <<unspent, creditsRemaining, stage, round, toVisit, eventsCache, oddsCache,
              liveScores, unheard>>
cacheVars == <<eventsCache, oddsCache, liveScores>>

Sport == Hot \cup Warm \cup Cold
Tiers == [hot |-> Hot, warm |-> Warm, cold |-> Cold, scores |-> Scored]

FeedInit ==
  /\ unspent = Credits /\ creditsRemaining = 0
  /\ stage = "discovering" /\ round = "none" /\ toVisit = {}
  /\ eventsCache = {} /\ oddsCache = {} /\ liveScores = {}
  /\ unheard = 0

\* FetchSports is free; where it fails a list in the code takes its place.  The events
\* of each sport are fetched next, free too; a sport may fail.
DiscoverSports ==
  /\ stage = "discovering" /\ stage' = "loading"
  /\ round' = "hot" /\ toVisit' = Hot
  /\ eventsCache' \in SUBSET Sport
  /\ UNCHANGED <<unspent, creditsRemaining, oddsCache, liveScores, unheard>>

\* A ticker fires between two rounds; one that fires during a round waits.
StartRound(r) ==
  /\ stage # "discovering" /\ toVisit = {}
  /\ stage' = "ticking" /\ round' = r /\ toVisit' = Tiers[r]
  /\ UNCHANGED <<unspent, creditsRemaining, cacheVars, unheard>>

\* Mutant: low credits keep the other tiers out but not the hot one.
ForHot(sport) ==
  creditsRemaining > 0 /\ creditsRemaining < SaveForHotBelow => sport \in Hot

\* fetchIfBudgetAllows; zero stands for not known.
BudgetAllows(sport) ==
  creditsRemaining > 0 =>
    /\ creditsRemaining >= PauseBelow
    /\ creditsRemaining >= SaveForHotBelow \/ sport \in Hot

\* The initial load asks no one.
MayFetch(sport) == stage = "loading" \/ BudgetAllows(sport)

MayScore == creditsRemaining > 0 => creditsRemaining >= SaveScoresBelow

Visited(sport) == sport \in toVisit /\ toVisit' = toVisit \ {sport} /\ UNCHANGED <<stage, round>>

\* The service takes a credit where there is one, or none where it refuses.
Spend == unspent' \in {unspent, unspent - 1} \cap Nat

Told == Spend /\ creditsRemaining' = unspent' /\ UNCHANGED unheard

\* No answer in fifteen seconds, or one without the header.
NotTold ==
  /\ unheard < MaxLost /\ unheard' = unheard + 1
  /\ Spend /\ UNCHANGED creditsRemaining

Skip(sport) ==
  /\ Visited(sport)
  /\ IF round = "scores" THEN ~MayScore ELSE ~MayFetch(sport) \/ sport \in oddsCache
  /\ UNCHANGED <<unspent, creditsRemaining, cacheVars, unheard>>

\* fetchAndMerge: FetchOdds, and ProcessOdds where it succeeds.
FetchOdds(sport) ==
  /\ round # "scores" /\ Visited(sport)
  /\ MayFetch(sport) /\ sport \notin oddsCache
  /\ Told \/ NotTold
  /\ oddsCache' \in {oddsCache, oddsCache \cup {sport}}
  /\ UNCHANGED <<eventsCache, liveScores>>

FetchScores(sport) ==
  /\ round = "scores" /\ Visited(sport)
  /\ MayScore
  /\ Told \/ NotTold
  /\ liveScores' \in {liveScores, liveScores \cup {sport}}
  /\ UNCHANGED <<eventsCache, oddsCache>>

Age(sport) ==
  /\ \/ oddsCache' = oddsCache \ {sport} /\ UNCHANGED eventsCache
     \/ eventsCache' = eventsCache \ {sport} /\ UNCHANGED oddsCache
  /\ UNCHANGED <<unspent, creditsRemaining, stage, round, toVisit, liveScores, unheard>>

FeedNext ==
  \/ DiscoverSports
  \/ \E r \in DOMAIN Tiers : StartRound(r)
  \/ \E sport \in Sport : Skip(sport) \/ FetchOdds(sport) \/ FetchScores(sport) \/ Age(sport)

FeedSpec == FeedInit /\ [][FeedNext]_feedVars

-----------------------------------------------------------------------------

\* Values of every variable.
FeedTypeOK ==
  /\ unspent \in 0..Credits /\ creditsRemaining \in 0..Credits
  /\ stage \in {"discovering", "loading", "ticking"}
  /\ round \in DOMAIN Tiers \cup {"none"} /\ toVisit \subseteq Sport
  /\ eventsCache \subseteq Sport /\ oddsCache \subseteq Sport /\ liveScores \subseteq Hot
  /\ unheard \in 0..MaxLost

\* Every variable has a value of its kind, and the client stops by itself before the
\* credits are gone: it keeps what the pause is meant to keep, but for the initial load and
\* one credit for each answer lost, and although a count of zero also stands for one never
\* told.
CreditsKept ==
  /\ FeedTypeOK
  /\ unspent >= PauseBelow - 1 - Cardinality(Hot) - unheard

=============================================================================
