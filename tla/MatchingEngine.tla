---------------------------- MODULE MatchingEngine ----------------------------
(***************************************************************************)
(* internal/matching: the Redis order book of one market (engine.go) and   *)
(* the two handlers that work on it (handler.go).                          *)
(*                                                                         *)
(* A request to place a bet asks Redis whether the market is suspended,    *)
(* stamps its order, runs the matching script, which Redis executes        *)
(* atomically, and only then holds funds for what was not matched.  A      *)
(* request to cancel scans the book for the order and then removes the     *)
(* very member it found: a member is the order's JSON with its remaining   *)
(* stake, so an order matched in between is another member.                *)
(*                                                                         *)
(* Prices are hundredths and stakes units, as in redisOrder; the scores    *)
(* of the sorted sets are integers a double holds exactly.                 *)
(***************************************************************************)
EXTENDS Integers, FiniteSets, Functions

CONSTANTS
  Bet,         \* the bets of the requests; numbers, as ids order equal scores
  request,     \* what they ask for, see Request
  User,
  Money,       \* each user's available balance when the history starts
  PriceUnit,   \* weight of a price in a score
  LatestStamp, \* what a back's time is subtracted from
  Start,       \* the time, in the same unit as LatestStamp
  Ticks        \* bound: how far time advances

Request == [user : User, side : {"back", "lay"}, price : Nat, stake : Nat \ {0}]

ASSUME MatchingAssumption ==
  /\ Bet \subseteq Nat /\ IsFiniteSet(Bet)
  /\ request \in [Bet -> Request]
  /\ \A b \in Bet : request[b].price > 100
  /\ Money \in [User -> Nat]
  /\ {PriceUnit, LatestStamp, Start, Ticks} \subseteq Nat

VARIABLES
  suspended,  \* the Redis key market:suspended:<market>
  now,
  stage,      \* how far the request to place a bet has come
  stamp,      \* the order's timestamp
  resting,    \* the order's remaining stake in the book; 0 if it is not there
  unmatched,  \* the unmatched stake the script returned to the request
  available,  \* balance minus exposure, from the wallet
  seen,       \* a cancelling request's find: the remaining stake, or 0
  filled, withdrawn  \* history: stake matched, stake removed by a cancel

vars == <<suspended, now, stage, stamp, resting, unmatched, available, seen,
          filled, withdrawn>>

side(b) == request[b].side
price(b) == request[b].price
stake(b) == request[b].stake

Stages == {"new", "checked", "matched", "accepted", "refused"}
InBook == {b \in Bet : resting[b] > 0}

Init ==
  /\ suspended = FALSE
  /\ now = Start
  /\ stage = [b \in Bet |-> "new"]
  /\ stamp = [b \in Bet |-> 0]
  /\ resting = [b \in Bet |-> 0]
  /\ unmatched = [b \in Bet |-> 0]
  /\ available = Money
  /\ seen = [b \in Bet |-> 0]
  /\ filled = [b \in Bet |-> 0] /\ withdrawn = [b \in Bet |-> 0]

-----------------------------------------------------------------------------
\* The matching script

Score(b) ==
  IF side(b) = "back" THEN price(b) * PriceUnit + (LatestStamp - stamp[b])
  ELSE price(b) * PriceUnit + stamp[b]

\* The resting orders the script fetches for order b, ...
InRange(b) ==
  {c \in InBook :
     /\ side(c) # side(b)
     /\ IF side(b) = "back" THEN Score(c) <= price(b) * PriceUnit + LatestStamp
        ELSE Score(c) >= price(b) * PriceUnit}

\* Mutant: the sets read from their other ends.
AheadReversed(c, d) ==
  LET score == IF side(c) = "lay" THEN Score(c) - Score(d) ELSE Score(d) - Score(c)
  IN  score > 0 \/ (score = 0 /\ c < d)

\* ... and the order it visits them in: lays from the lowest score, backs from
\* the highest, members of equal score by their text, which starts with the id.
Ahead(c, d) ==
  LET score == IF side(c) = "lay" THEN Score(d) - Score(c) ELSE Score(c) - Score(d)
  IN  score > 0 \/ (score = 0 /\ IF side(c) = "lay" THEN c < d ELSE c > d)

Crosses(b, c) ==
  IF side(b) = "back" THEN price(c) <= price(b) ELSE price(c) >= price(b)

\* It stops at the first order whose price does not cross.
Visited(b) ==
  {c \in InRange(b) : \A d \in InRange(b) : Ahead(d, c) \/ d = c => Crosses(b, d)}

Volume(orders) == SumFunctionOnSet(resting, orders)
Least(m, n) == IF m <= n THEN m ELSE n

\* What c gives to b: what b still wants when the script comes to c.
Fill(b, c) ==
  IF c \notin Visited(b) THEN 0
  ELSE LET wanted == stake(b) - Volume({d \in Visited(b) : Ahead(d, c)})
       IN  IF wanted <= 0 THEN 0 ELSE Least(wanted, resting[c])

MatchedStake(b) == Least(stake(b), Volume(Visited(b)))

-----------------------------------------------------------------------------
\* Placing a bet

\* The circuit breaker and the order's time stamp.
Check(b) ==
  /\ stage[b] = "new"
  /\ stage' = [stage EXCEPT ![b] = IF suspended THEN "refused" ELSE "checked"]
  /\ stamp' = [stamp EXCEPT ![b] = now]
  /\ UNCHANGED <<suspended, now, resting, unmatched, available, seen, filled,
                 withdrawn>>

\* The script: fills, and the rest of the order into the book.
Match(b) ==
  /\ stage[b] = "checked"
  /\ stage' = [stage EXCEPT ![b] =
                 IF MatchedStake(b) < stake(b) THEN "matched" ELSE "accepted"]
  /\ resting' = [c \in Bet |-> IF c = b THEN stake(b) - MatchedStake(b)
                               ELSE resting[c] - Fill(b, c)]
  /\ filled' = [c \in Bet |-> IF c = b THEN MatchedStake(b) ELSE filled[c] + Fill(b, c)]
  /\ unmatched' = [unmatched EXCEPT ![b] = stake(b) - MatchedStake(b)]
  /\ UNCHANGED <<suspended, now, stamp, available, seen, withdrawn>>

\* The stake of a back, the liability of a lay.
HoldAmount(b, amount) ==
  IF side(b) = "back" THEN amount ELSE (amount * (price(b) - 100)) \div 100

\* PlaceBet holds funds for what the script left unmatched; when there is too
\* little money the request gets an error, and the order stays.
Hold(b) ==
  LET amount == HoldAmount(b, unmatched[b])
      user == request[b].user
  IN  /\ stage[b] = "matched"
      /\ IF available[user] >= amount
         THEN /\ available' = [available EXCEPT ![user] = @ - amount]
              /\ stage' = [stage EXCEPT ![b] = "accepted"]
         ELSE /\ stage' = [stage EXCEPT ![b] = "refused"]
              /\ UNCHANGED available
      /\ UNCHANGED <<suspended, now, stamp, resting, unmatched, seen, filled,
                     withdrawn>>

-----------------------------------------------------------------------------
\* Cancelling a bet

Scan(b) ==
  /\ resting[b] > 0 /\ seen[b] = 0
  /\ seen' = [seen EXCEPT ![b] = resting[b]]
  /\ UNCHANGED <<suspended, now, stage, stamp, resting, unmatched, available,
                 filled, withdrawn>>

\* Mutant: the order taken out as it was found, although it has changed since.
RemoveAsSeen(b) ==
  /\ seen[b] > 0
  /\ resting' = [resting EXCEPT ![b] = 0]
  /\ withdrawn' = [withdrawn EXCEPT ![b] = @ + seen[b]]
  /\ seen' = [seen EXCEPT ![b] = 0]
  /\ UNCHANGED <<suspended, now, stage, stamp, unmatched, available, filled>>

\* ZREM of the member found; how many members it removed is not looked at.
Remove(b) ==
  /\ seen[b] > 0
  /\ IF resting[b] = seen[b]
     THEN /\ resting' = [resting EXCEPT ![b] = 0]
          /\ withdrawn' = [withdrawn EXCEPT ![b] = @ + resting[b]]
     ELSE UNCHANGED <<resting, withdrawn>>
  /\ seen' = [seen EXCEPT ![b] = 0]
  /\ UNCHANGED <<suspended, now, stage, stamp, unmatched, available, filled>>

-----------------------------------------------------------------------------

\* SuspendMarket and ResumeMarket set and delete the key.
Suspend ==
  /\ suspended' = ~suspended
  /\ UNCHANGED <<now, stage, stamp, resting, unmatched, available, seen, filled,
                 withdrawn>>

Tick ==
  /\ now < Start + Ticks
  /\ now' = now + 1
  /\ UNCHANGED <<suspended, stage, stamp, resting, unmatched, available, seen,
                 filled, withdrawn>>

Next ==
  \/ \E b \in Bet : Check(b) \/ Match(b) \/ Hold(b) \/ Scan(b) \/ Remove(b)
  \/ Suspend
  \/ Tick

Spec == Init /\ [][Next]_vars

-----------------------------------------------------------------------------

\* Values of every variable; in particular no order is filled, and nothing
\* rests of it, beyond its stake.
TypeOK ==
  /\ suspended \in BOOLEAN
  /\ now \in Nat
  /\ stage \in [Bet -> Stages]
  /\ stamp \in [Bet -> Nat]
  /\ \A v \in {resting, unmatched, seen, filled, withdrawn} : v \in [Bet -> Nat]
  /\ \A b \in Bet : resting[b] + filled[b] <= stake(b)
  /\ available \in [User -> Nat]

\* What the orders of one side have been given.
Matched(s) == SumFunctionOnSet(filled, {b \in Bet : side(b) = s})

\* Every variable has a value of its kind, and matching neither makes nor loses stake:
\* what an order asked for is matched, rests in the book or was taken out of it, whatever
\* cancels and other orders come between, and what backs were matched lays were.
StakeAccounted ==
  /\ TypeOK
  /\ \A b \in Bet : filled[b] + resting[b] + withdrawn[b] \in {0, stake(b)}
  /\ Matched("back") = Matched("lay")

\* The script's "composite score enforces price-time priority" (line 20): a
\* resting order is only filled when no better one is left, the better price
\* first and at the same price the earlier order, and only when it crosses.
Better(c, d) ==
  \/ IF side(c) = "lay" THEN price(c) < price(d) ELSE price(c) > price(d)
  \/ price(c) = price(d) /\ stamp[c] < stamp[d]

PriceTimePriority ==
  [][\A b, d \in Bet :
       stage[b] = "checked" /\ stage'[b] # "checked" /\ d # b /\ filled'[d] > filled[d] =>
         /\ side(d) # side(b) /\ Crosses(b, d)
         /\ \A c \in InBook \ {d} : side(c) = side(d) /\ Better(c, d) => resting'[c] = 0]_vars

=============================================================================
