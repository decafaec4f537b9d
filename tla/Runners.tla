-------------------------------- MODULE Runners --------------------------------
(***************************************************************************)
(* How cmd/mockserver/odds_api.go names the runners of a market: outcomes  *)
(* are sorted and numbered anew in every answer of the feed, those no      *)
(* bookmaker prices are left out, and MergeOddsIntoStore replaces the list *)
(* of the market as a whole.  A client reads the list, and bets later by   *)
(* the number.  Sizes and prices past "priced or not" are left out.        *)
(***************************************************************************)
EXTENDS Integers, Sequences, FiniteSets, Functions

CONSTANTS
  Outcome,           \* outcomes of the match, in their alphabetical order: a sequence
  Bookmaker,
  Client,
  MaxAnswers, MaxBets   \* bounds

ASSUME RunnersAssumption ==
  /\ Outcome \in Seq(Range(Outcome))
  /\ \A i, j \in DOMAIN Outcome : Outcome[i] = Outcome[j] => i = j
  /\ MaxAnswers \in Nat /\ MaxBets \in Nat

VARIABLES
  runners,      \* store.runners[market]: the outcomes in the list, in its order
  processed,    \* lists converted from answers and not merged yet
  shown,         \* the list a client has read last, and the outcomes priced then
  bets,         \* bets placed: the number sent, and the outcome the client meant
  answers,
  changed       \* history: how often the priced outcomes changed

runnerVars == <<runners, processed, shown, bets, answers, changed>>

FirstSelection == 10000
Outcomes == Range(Outcome)
Nothing == <<>>

RunnersInit ==
  /\ runners = Nothing /\ processed = Nothing
  /\ shown = [c \in Client |-> [list |-> Nothing, at |-> 0]]
  /\ bets = {}
  /\ answers = 0 /\ changed = 0

\* An answer of the service: what each bookmaker prices at 1.01 or more.
Answers == [Bookmaker -> SUBSET Outcomes]

Priced(answer) == UNION {answer[b] : b \in Bookmaker}

\* Mutant: names in the order a map of Go yields them.
Unsorted(priced) ==
  {list \in [1..Cardinality(priced) -> priced] : Range(list) = priced}

\* The names sorted, those without a price left out: one list.
Place(o) == CHOOSE i \in DOMAIN Outcome : Outcome[i] = o
Sorted(priced) ==
  {list \in [1..Cardinality(priced) -> priced] :
     /\ Range(list) = priced
     /\ \A i, j \in DOMAIN list : i < j => Place(list[i]) < Place(list[j])}

\* convertToExchangeOdds, ProcessOdds: an event without a priced outcome is skipped.
ProcessOdds(answer) ==
  /\ answers < MaxAnswers /\ answers' = answers + 1
  /\ processed = Nothing /\ Priced(answer) # {}
  /\ processed' \in Sorted(Priced(answer))
  /\ UNCHANGED <<runners, shown, bets, changed>>

\* MergeOddsIntoStore, under the store's lock.
MergeOddsIntoStore ==
  /\ processed # Nothing
  /\ runners' = processed /\ processed' = Nothing
  /\ changed' = IF Range(processed) = Range(runners) THEN changed ELSE changed + 1
  /\ UNCHANGED <<shown, bets, answers>>

\* handleGetOdds, handleListMarkets.
GetOdds(c) ==
  /\ runners # Nothing
  /\ shown' = [shown EXCEPT ![c] = [list |-> runners, at |-> changed]]
  /\ UNCHANGED <<runners, processed, bets, answers, changed>>

\* The number of the i-th runner of a list, and the runner a number names now.
SelectionId(i) == FirstSelection + i - 1
Named(id) == {runners[i] : i \in {j \in DOMAIN runners : SelectionId(j) = id}}

\* handlePlaceBet: the number must name a runner of the market now.
PlaceBet(c, i) ==
  /\ Cardinality(bets) < MaxBets
  /\ i \in DOMAIN shown[c].list
  /\ Named(SelectionId(i)) # {}
  /\ bets' = bets \cup {[selection |-> SelectionId(i), meant |-> shown[c].list[i],
                         at |-> shown[c].at]}
  /\ UNCHANGED <<runners, processed, shown, answers, changed>>

RunnersNext ==
  \/ \E answer \in Answers : ProcessOdds(answer)
  \/ MergeOddsIntoStore
  \/ \E c \in Client : GetOdds(c) \/ \E i \in 1..Len(Outcome) : PlaceBet(c, i)

RunnersSpec == RunnersInit /\ [][RunnersNext]_runnerVars

-----------------------------------------------------------------------------

\* Values of every variable.
RunnersTypeOK ==
  /\ runners \in Seq(Outcomes) /\ processed \in Seq(Outcomes)
  /\ \A b \in bets : b.selection \in Nat /\ b.meant \in Outcomes /\ b.at \in 0..changed
  /\ answers \in 0..MaxAnswers /\ changed \in 0..answers

\* As long as the same outcomes are priced a bet stays on the runner its client read,
\* however many answers, of whatever bookmakers, replace the list meanwhile.
MeansWhatWasRead == \A b \in bets : b.at = changed => Named(b.selection) = {b.meant}

\* A bet stays on the runner its client read while the same outcomes are priced.
BetKeepsRunner == RunnersTypeOK /\ MeansWhatWasRead

=============================================================================
