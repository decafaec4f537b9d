----------------------------- MODULE MarketProofs -----------------------------
(***************************************************************************)
(* What a market shows and what it matches, for every value of the         *)
(* constants: the book of MatchingEngine, then the streams of OddsStream   *)
(* and the runners of Runners.                                             *)
(*                                                                         *)
(* The book.  No stake is lost or made, and orders are filled in the order *)
(* of price and time as long as they are less than a price's weight apart  *)
(* in time.  The matching script goes through the other side's orders in a *)
(* line and gives each what the ones ahead have left.  That what it gives  *)
(* adds up to what it wants, or to all there is, is the first part, about  *)
(* sets and a linear order on them.                                        *)
(*                                                                         *)
(* The runners. Lists are sorted, and there is one list in order of the    *)
(* same names, so that an answer with the same names moves no runner.      *)
(***************************************************************************)
EXTENDS MatchingEngine, OddsStream, Runners, SumTheorems, SequenceTheorems

\* R puts the elements of V in a line.
Line(R, V) ==
  /\ \A c \in V : <<c, c>> \notin R
  /\ \A c, d, e \in V : <<c, d>> \in R /\ <<d, e>> \in R => <<c, e>> \in R
  /\ \A c, d \in V : c # d => <<c, d>> \in R \/ <<d, c>> \in R

\* What one who still wants w takes of n.
Gives(w, n) == IF w <= 0 THEN 0 ELSE Least(w, n)

\* A line has an end.
LEMMA LastInLine ==
  ASSUME NEW V, IsFiniteSet(V), V # {}, NEW R, Line(R, V)
  PROVE  \E m \in V : \A c \in V \ {m} : <<c, m>> \in R
<1> DEFINE Last(m, t) == \A c \in t \ {m} : <<c, m>> \in R
           Bad == {t \in SUBSET V : t # {} /\ \A m \in t : ~Last(m, t)}
<1>1. SUFFICES ASSUME Bad # {} PROVE FALSE
  <2>1. V \notin Bad
    BY <1>1
  <2> QED BY <2>1
<1>2. PICK t \in Bad : \A u \in Bad : u \subseteq t => u = t
  <2>1. Bad \in SUBSET SUBSET V
    OBVIOUS
  <2> HIDE DEF Bad
  <2> QED BY <1>1, <2>1, LeastSubset
<1>3. PICK a \in t : TRUE
  BY <1>2
<1>4. t \ {a} \notin Bad
  BY <1>2, <1>3
<1>5. CASE t = {a}
  BY <1>2, <1>5
<1>6. CASE t # {a}
  <2>1. t \ {a} # {} /\ t \ {a} \in SUBSET V
    BY <1>2, <1>3, <1>6
  <2>2. PICK m \in t \ {a} : Last(m, t \ {a})
    BY <1>4, <2>1
  <2>3. a \in V /\ m \in V /\ a # m
    BY <1>2, <2>2
  <2>4. CASE <<a, m>> \in R
    <3>1. Last(m, t)
      BY <2>2, <2>4
    <3> QED BY <1>2, <2>2, <3>1
  <2>5. CASE <<m, a>> \in R
    <3>1. Last(a, t)
      <4> SUFFICES ASSUME NEW c \in t \ {a} PROVE <<c, a>> \in R
        OBVIOUS
      <4>1. CASE c = m
        BY <2>5, <4>1
      <4>2. CASE c # m
        <5>1. <<c, m>> \in R /\ c \in V
          BY <1>2, <2>2, <4>2
        <5> QED BY <2>3, <2>5, <5>1 DEF Line
      <4> QED BY <4>1, <4>2
    <3> QED BY <1>2, <1>3, <3>1
  <2> QED BY <2>3, <2>4, <2>5 DEF Line
<1> QED BY <1>5, <1>6

\* The step from those ahead of the last one to all of them.
LEMMA OneMoreGives ==
  ASSUME NEW s \in Nat, NEW v \in Nat, NEW n \in Nat
  PROVE  Gives(s - v, n) + Least(s, v) = Least(s, n + v)
<1>1. s - v \in Int /\ n + v \in Nat
  OBVIOUS
<1>2. CASE s <= v
  BY <1>1, <1>2 DEF Gives, Least
<1>3. CASE ~(s <= v)
  <2>1. CASE s - v <= n
    BY <1>1, <1>3, <2>1 DEF Gives, Least
  <2>2. CASE ~(s - v <= n)
    BY <1>1, <1>3, <2>2 DEF Gives, Least
  <2> QED BY <2>1, <2>2
<1> QED BY <1>2, <1>3

\* Whoever wants s and takes from each in the line what those ahead have left wanting
\* takes s, or all there is.
LEMMA Greedy ==
  ASSUME NEW V, IsFiniteSet(V), NEW R, Line(R, V), NEW s \in Nat,
         NEW n, \A c \in V : n[c] \in Nat,
         NEW ahead, \A c \in V : ahead[c] = {d \in V : <<d, c>> \in R},
         NEW g, \A c \in V : g[c] = Gives(s - SumFunctionOnSet(n, ahead[c]), n[c])
  PROVE  SumFunctionOnSet(g, V) = Least(s, SumFunctionOnSet(n, V))
<1> DEFINE Closed(t) == \A c \in t : \A d \in V : <<d, c>> \in R => d \in t
           Adds(t) == SumFunctionOnSet(g, t) = Least(s, SumFunctionOnSet(n, t))
           Bad == {t \in SUBSET V : Closed(t) /\ ~Adds(t)}
<1>1. SUFFICES ASSUME Bad # {} PROVE FALSE
  <2>1. V \notin Bad /\ Closed(V)
    BY <1>1
  <2> QED BY <2>1
<1>2. PICK t \in Bad : \A u \in Bad : u \subseteq t => u = t
  <2>1. Bad \in SUBSET SUBSET V
    OBVIOUS
  <2> HIDE DEF Bad
  <2> QED BY <1>1, <2>1, LeastSubset
<1>3. t \subseteq V /\ IsFiniteSet(t) /\ Closed(t) /\ ~Adds(t)
  BY <1>2, FS_Subset
<1>4. ASSUME NEW u \in SUBSET V
      PROVE  /\ SumFunctionOnSet(n, u) \in Nat
             /\ \A c \in u : n[c] \in Int
  <2>1. IsFiniteSet(u) /\ \A c \in u : n[c] \in Nat
    BY FS_Subset
  <2>2. SumFunctionOnSet(n, u) \in Nat
    BY <2>1, SumNat
  <2> QED BY <2>1, <2>2
<1>5. \A c \in V : g[c] \in Int
  <2> SUFFICES ASSUME NEW c \in V PROVE g[c] \in Int
    OBVIOUS
  <2>1. PICK v \in Nat : v = SumFunctionOnSet(n, ahead[c])
    <3>1. ahead[c] \in SUBSET V
      OBVIOUS
    <3> QED BY <1>4, <3>1
  <2>2. g[c] = Gives(s - v, n[c]) /\ n[c] \in Nat
    BY <2>1
  <2> QED BY <2>2 DEF Gives, Least
<1>6. CASE t = {}
  <2>1. SumFunctionOnSet(g, t) = 0 /\ SumFunctionOnSet(n, t) = 0
    BY <1>6, SumEmpty
  <2> QED BY <1>3, <2>1 DEF Least
<1>7. CASE t # {}
  <2>1. Line(R, t)
    BY <1>3 DEF Line
  <2>2. PICK m \in t : \A c \in t \ {m} : <<c, m>> \in R
    BY <1>3, <1>7, <2>1, LastInLine
  <2> DEFINE u == t \ {m}
  <2>3. m \in V /\ u \in SUBSET V /\ m \notin u /\ u \subseteq t /\ u # t
    BY <1>3, <2>2
  <2>4. ahead[m] = u
    <3>1. ahead[m] = {d \in V : <<d, m>> \in R}
      BY <2>3
    <3>2. \A d \in V : <<d, m>> \in R => d \in u
      BY <1>3, <2>2, <2>3 DEF Line
    <3> QED BY <2>2, <2>3, <3>1, <3>2
  <2>5. Closed(u)
    <3> SUFFICES ASSUME NEW c \in u, NEW d \in V, <<d, c>> \in R PROVE d \in u
      OBVIOUS
    <3>1. d \in t /\ c \in V /\ <<c, m>> \in R
      BY <1>3, <2>2
    <3>2. d # m
      BY <2>3, <3>1 DEF Line
    <3> QED BY <3>1, <3>2
  <2>6. Adds(u)
    BY <1>2, <2>3, <2>5
  <2>7. /\ SumFunctionOnSet(g, t) = g[m] + SumFunctionOnSet(g, u)
        /\ SumFunctionOnSet(n, t) = n[m] + SumFunctionOnSet(n, u)
    <3>1. (\A c \in t : g[c] \in Int) /\ (\A c \in t : n[c] \in Int)
      BY <1>3, <1>4, <1>5
    <3> QED BY <1>3, <2>2, <3>1, SumRemove
  <2>8. PICK v \in Nat : v = SumFunctionOnSet(n, u)
    BY <1>4, <2>3
  <2>9. g[m] = Gives(s - v, n[m]) /\ n[m] \in Nat
    BY <2>3, <2>4, <2>8
  <2>10. SumFunctionOnSet(g, u) = Least(s, v)
    BY <2>6, <2>8
  <2>11. SumFunctionOnSet(g, t) = Least(s, n[m] + v)
    <3>1. SumFunctionOnSet(g, t) = Gives(s - v, n[m]) + Least(s, v)
      BY ONLY <2>7, <2>9, <2>10
    <3>2. Gives(s - v, n[m]) + Least(s, v) = Least(s, n[m] + v)
      BY ONLY <2>9, s \in Nat, v \in Nat, OneMoreGives
    <3> QED BY ONLY <3>1, <3>2
  <2>12. SumFunctionOnSet(n, t) = n[m] + v
    BY <2>7, <2>8
  <2> QED BY <1>3, <2>11, <2>12
<1> QED BY <1>6, <1>7

-----------------------------------------------------------------------------
\* The script

StageOK == stage \in [Bet -> Stages]

\* What the scores and the volumes are computed from.
BookOK == stamp \in [Bet -> Nat] /\ resting \in [Bet -> Nat]

LEMMA Orders ==
  /\ IsFiniteSet(Bet) /\ Bet \subseteq Nat /\ PriceUnit \in Nat /\ LatestStamp \in Nat
  /\ Start \in Nat /\ Ticks \in Nat /\ Money \in [User -> Nat]
  /\ \A b \in Bet : /\ side(b) \in {"back", "lay"} /\ price(b) \in Nat /\ price(b) > 100
                   /\ stake(b) \in Nat /\ stake(b) > 0 /\ request[b].user \in User
BY MatchingAssumption DEF Request, side, price, stake

LEMMA ScoreInt ==
  ASSUME BookOK, NEW b \in Bet
  PROVE  Score(b) \in Int
<1>1. price(b) * PriceUnit \in Nat /\ stamp[b] \in Nat
  BY Orders DEF BookOK
<1>2. LatestStamp - stamp[b] \in Int
  BY <1>1, Orders
<1> QED BY <1>1, <1>2 DEF Score

\* Who is ahead of whom, as a set of pairs.
Order(V) == {p \in V \X V : Ahead(p[1], p[2])}

\* The orders of one side are in a line.
LEMMA OrderIsLine ==
  ASSUME BookOK, NEW V \in SUBSET Bet, NEW s, \A c \in V : side(c) = s
  PROVE  Line(Order(V), V)
<1>1. \A c \in V : Score(c) \in Int /\ c \in Nat
  BY ScoreInt, Orders
<1>2. \A c, d \in V : <<c, d>> \in Order(V) <=> Ahead(c, d)
  BY DEF Order
<1>3. CASE s = "lay"
  <2>1. \A c, d \in V : Ahead(c, d) <=> Score(d) - Score(c) > 0
                                      \/ (Score(d) - Score(c) = 0 /\ c < d)
    BY <1>3 DEF Ahead
  <2> QED BY <1>1, <1>2, <2>1 DEF Line
<1>4. CASE s # "lay"
  <2>1. \A c, d \in V : Ahead(c, d) <=> Score(c) - Score(d) > 0
                                      \/ (Score(c) - Score(d) = 0 /\ c > d)
    BY <1>4 DEF Ahead
  <2> QED BY <1>1, <1>2, <2>1 DEF Line
<1> QED BY <1>3, <1>4

\* Those the script visits are on the book's other side.
LEMMA VisitedAre ==
  ASSUME NEW b \in Bet
  PROVE  /\ Visited(b) \subseteq Bet /\ IsFiniteSet(Visited(b)) /\ b \notin Visited(b)
         /\ \A c \in Visited(b) : side(c) # side(b) /\ side(c) \in {"back", "lay"}
                                /\ c \in InRange(b) /\ resting[c] > 0
<1>1. Visited(b) \subseteq InRange(b) /\ InRange(b) \subseteq Bet
  BY DEF Visited, InRange, InBook
<1>2. IsFiniteSet(Visited(b))
  BY <1>1, Orders, FS_Subset
<1>3. \A c \in InRange(b) : side(c) # side(b) /\ resting[c] > 0
  BY DEF InRange, InBook
<1> QED BY <1>1, <1>2, <1>3, Orders

\* Stake rests in naturals, and so does any part of it.
LEMMA VolumeNat ==
  ASSUME BookOK, NEW V \in SUBSET Bet
  PROVE  Volume(V) \in Nat
<1>1. IsFiniteSet(V) /\ \A c \in V : resting[c] \in Nat
  BY Orders, FS_Subset DEF BookOK
<1> QED BY <1>1, SumNat DEF Volume

\* Those visited before c.
Before(b, c) == {d \in Visited(b) : Ahead(d, c)}

LEMMA FillGives ==
  ASSUME NEW b, NEW c \in Visited(b)
  PROVE  Fill(b, c) = Gives(stake(b) - Volume(Before(b, c)), resting[c])
BY DEF Fill, Gives, Before

\* No order gives more than it has, or less than nothing.
LEMMA FillRange ==
  ASSUME BookOK, NEW b \in Bet, NEW c \in Bet
  PROVE  Fill(b, c) \in Nat /\ Fill(b, c) <= resting[c]
<1>1. resting[c] \in Nat
  BY DEF BookOK
<1>2. CASE c \notin Visited(b)
  BY <1>1, <1>2 DEF Fill
<1>3. CASE c \in Visited(b)
  <2>1. PICK v \in Nat : v = Volume(Before(b, c))
    <3>1. Before(b, c) \in SUBSET Bet
      BY VisitedAre DEF Before
    <3> QED BY <3>1, VolumeNat
  <2>2. Fill(b, c) = Gives(stake(b) - v, resting[c])
    BY <1>3, <2>1, FillGives
  <2>3. stake(b) - v \in Int
    BY Orders
  <2> QED BY <1>1, <2>2, <2>3 DEF Gives, Least
<1> QED BY <1>2, <1>3

LEMMA MatchedRange ==
  ASSUME BookOK, NEW b \in Bet
  PROVE  MatchedStake(b) \in Nat /\ MatchedStake(b) <= stake(b)
<1>1. Volume(Visited(b)) \in Nat
  BY VisitedAre, VolumeNat
<1>2. stake(b) \in Nat
  BY Orders
<1> QED BY <1>1, <1>2 DEF MatchedStake, Least

\* What the orders of the other side give b is what b is matched.
LEMMA FillsAddUp ==
  ASSUME BookOK, NEW b \in Bet, NEW g, \A c \in Visited(b) : g[c] = Fill(b, c)
  PROVE  SumFunctionOnSet(g, Visited(b)) = MatchedStake(b)
<1> DEFINE V == Visited(b)
           ahead == [c \in V |-> Before(b, c)]
<1>1. V \in SUBSET Bet /\ IsFiniteSet(V)
  BY VisitedAre
<1>2. PICK s : \A c \in V : side(c) = s
  <2>1. \A c \in V : side(c) = IF side(b) = "back" THEN "lay" ELSE "back"
    BY VisitedAre, Orders
  <2> QED BY <2>1
<1>3. Line(Order(V), V)
  BY <1>1, <1>2, OrderIsLine
<1>4. \A c \in V : ahead[c] = {d \in V : <<d, c>> \in Order(V)}
  BY DEF Before, Order
<1>5. \A c \in V : g[c] = Gives(stake(b) - SumFunctionOnSet(resting, ahead[c]), resting[c])
  BY FillGives DEF Volume
<1>6. stake(b) \in Nat /\ \A c \in V : resting[c] \in Nat
  BY <1>1, Orders DEF BookOK
<1> HIDE DEF V, ahead
<1>7. SumFunctionOnSet(g, V) = Least(stake(b), SumFunctionOnSet(resting, V))
  BY <1>1, <1>3, <1>4, <1>5, <1>6, Greedy
<1> QED BY <1>7 DEF V, MatchedStake, Volume

-----------------------------------------------------------------------------
\* The invariant

KindOK ==
  /\ suspended \in BOOLEAN /\ stage \in [Bet -> Stages]
  /\ now \in Nat /\ Start <= now /\ now <= Start + Ticks
  /\ BookOK /\ unmatched \in [Bet -> Nat] /\ seen \in [Bet -> Nat]
  /\ filled \in [Bet -> Nat] /\ withdrawn \in [Bet -> Nat]
  /\ available \in [User -> Nat]

\* An order has its stamp before it has anything else, and its stake is all there.
OrderInv(b) ==
  /\ stage[b] \in {"new", "checked"} => resting[b] = 0 /\ filled[b] = 0 /\ withdrawn[b] = 0
  /\ filled[b] + resting[b] + withdrawn[b] \in {0, stake(b)}
  /\ stage[b] # "new" => Start <= stamp[b] /\ stamp[b] <= now

EvenInv == Matched("back") = Matched("lay")

Inv == KindOK /\ (\A b \in Bet : OrderInv(b)) /\ EvenInv

OfSide(s) == {b \in Bet : side(b) = s}

LEMMA OfSideFinite ==
  ASSUME NEW s
  PROVE  OfSide(s) \subseteq Bet /\ IsFiniteSet(OfSide(s))
<1>1. OfSide(s) \subseteq Bet
  BY DEF OfSide
<1> QED BY <1>1, Orders, FS_Subset

\* The numbers of an order.
LEMMA OrderNumbers ==
  ASSUME KindOK, NEW b \in Bet
  PROVE  /\ resting[b] \in Nat /\ filled[b] \in Nat /\ withdrawn[b] \in Nat
         /\ stamp[b] \in Nat /\ unmatched[b] \in Nat /\ seen[b] \in Nat
         /\ stage[b] \in Stages
BY DEF KindOK, BookOK

\* Steps that match nothing leave the sums alone.
LEMMA SameEven ==
  ASSUME EvenInv, filled' = filled
  PROVE  EvenInv'
BY DEF EvenInv, Matched

\* Steps after which each order is where it was, with what it had.
LEMMA SameOrders ==
  ASSUME Inv, KindOK', UNCHANGED <<stage, stamp, resting, filled, withdrawn>>, now' >= now
  PROVE  Inv'
<1>1. ASSUME NEW b \in Bet PROVE OrderInv(b)'
  <2>1. OrderInv(b) /\ stamp[b] \in Nat /\ now \in Nat /\ now' \in Nat
    BY OrderNumbers DEF Inv, KindOK
  <2> QED BY <2>1 DEF OrderInv
<1> QED BY <1>1, SameEven DEF Inv

LEMMA CheckInv ==
  ASSUME Inv, NEW b \in Bet, Check(b)
  PROVE  Inv'
<1>1. /\ stage[b] = "new" /\ now \in Nat
      /\ stage' = [stage EXCEPT ![b] = IF suspended THEN "refused" ELSE "checked"]
      /\ stamp' = [stamp EXCEPT ![b] = now]
      /\ UNCHANGED <<suspended, now, resting, unmatched, available, seen, filled, withdrawn>>
  BY DEF Check, Inv, KindOK
<1>2. KindOK'
  <2>1. stage' \in [Bet -> Stages]
    BY <1>1 DEF Inv, KindOK, Stages
  <2>2. stamp' \in [Bet -> Nat]
    BY <1>1 DEF Inv, KindOK, BookOK
  <2> QED BY <1>1, <2>1, <2>2 DEF Inv, KindOK, BookOK
<1>3. ASSUME NEW c \in Bet PROVE OrderInv(c)'
  <2>1. OrderInv(c) /\ OrderInv(b)
    BY DEF Inv
  <2>2. CASE c = b
    <3>1. stamp'[b] = now /\ now' = now /\ now \in Nat /\ Start \in Nat /\ Start <= now
      BY <1>1, Orders DEF Inv, KindOK, BookOK
    <3>2. resting'[b] = 0 /\ filled'[b] = 0 /\ withdrawn'[b] = 0
      BY <1>1, <2>1 DEF OrderInv
    <3> QED BY <2>2, <3>1, <3>2 DEF OrderInv
  <2>3. CASE c # b
    BY <1>1, <2>1, <2>3 DEF OrderInv, Inv, KindOK, BookOK
  <2> QED BY <2>2, <2>3
<1> QED BY <1>1, <1>2, <1>3, SameEven DEF Inv

\* The script, order by order: b is new to the book, the others give what they give.
LEMMA MatchOrders ==
  ASSUME Inv, NEW b \in Bet, Match(b)
  PROVE  KindOK' /\ \A c \in Bet : OrderInv(c)'
<1>1. /\ stage[b] = "checked" /\ BookOK
      /\ stage' = [stage EXCEPT ![b] = IF MatchedStake(b) < stake(b) THEN "matched" ELSE "accepted"]
      /\ resting' = [c \in Bet |-> IF c = b THEN stake(b) - MatchedStake(b)
                                   ELSE resting[c] - Fill(b, c)]
      /\ filled' = [c \in Bet |-> IF c = b THEN MatchedStake(b) ELSE filled[c] + Fill(b, c)]
      /\ unmatched' = [unmatched EXCEPT ![b] = stake(b) - MatchedStake(b)]
      /\ UNCHANGED <<suspended, now, stamp, available, seen, withdrawn>>
  BY DEF Match, Inv, KindOK
<1>2. /\ MatchedStake(b) \in Nat /\ MatchedStake(b) <= stake(b) /\ stake(b) \in Nat
      /\ stake(b) - MatchedStake(b) \in Nat
  BY <1>1, MatchedRange, Orders
<1>3. ASSUME NEW c \in Bet
      PROVE  resting'[c] \in Nat /\ filled'[c] \in Nat /\ OrderInv(c)'
  <2>1. /\ resting[c] \in Nat /\ filled[c] \in Nat /\ withdrawn[c] \in Nat /\ stamp[c] \in Nat
        /\ stake(c) \in Nat /\ OrderInv(c)
    BY OrderNumbers, Orders DEF Inv
  <2>2. CASE c = b
    <3>1. withdrawn[b] = 0 /\ Start <= stamp[b] /\ stamp[b] <= now
      BY <1>1, <2>1, <2>2 DEF OrderInv
    <3>2. /\ resting'[b] = stake(b) - MatchedStake(b) /\ filled'[b] = MatchedStake(b)
          /\ stage'[b] \in {"matched", "accepted"} /\ withdrawn'[b] = 0
      BY <1>1, <3>1 DEF Inv, KindOK
    <3>3. filled'[b] + resting'[b] + withdrawn'[b] = stake(b)
      BY <1>2, <3>2
    <3> QED BY <1>1, <1>2, <2>2, <3>1, <3>2, <3>3 DEF OrderInv
  <2>3. CASE c # b
    <3>1. Fill(b, c) \in Nat /\ Fill(b, c) <= resting[c]
      BY <1>1, FillRange
    <3>2. /\ resting'[c] = resting[c] - Fill(b, c) /\ filled'[c] = filled[c] + Fill(b, c)
          /\ stage'[c] = stage[c] /\ withdrawn'[c] = withdrawn[c] /\ stamp'[c] = stamp[c]
          /\ now' = now
      BY <1>1, <2>3 DEF Inv, KindOK
    <3>3. filled'[c] + resting'[c] + withdrawn'[c] = filled[c] + resting[c] + withdrawn[c]
      BY <2>1, <3>1, <3>2
    <3>4. resting[c] = 0 /\ filled[c] = 0 => resting'[c] = 0 /\ filled'[c] = 0
      BY <2>1, <3>1, <3>2
    <3> QED BY <2>1, <3>1, <3>2, <3>3, <3>4 DEF OrderInv
  <2> QED BY <2>2, <2>3
<1>4. KindOK'
  <2>1. resting' \in [Bet -> Nat] /\ filled' \in [Bet -> Nat]
    BY <1>1, <1>3
  <2>2. unmatched' \in [Bet -> Nat]
    BY <1>1, <1>2 DEF Inv, KindOK
  <2>3. stage' \in [Bet -> Stages]
    BY <1>1 DEF Inv, KindOK, Stages
  <2> QED BY <1>1, <2>1, <2>2, <2>3 DEF Inv, KindOK, BookOK
<1> QED BY <1>3, <1>4

\* What the one side is given the other side is given.
LEMMA MatchEven ==
  ASSUME Inv, NEW b \in Bet, Match(b)
  PROVE  EvenInv'
<1> DEFINE same == side(b)
           other == IF side(b) = "back" THEN "lay" ELSE "back"
           g == [c \in Bet |-> Fill(b, c)]
<1>1. /\ stage[b] = "checked" /\ BookOK /\ filled \in [Bet -> Nat]
      /\ filled' = [c \in Bet |-> IF c = b THEN MatchedStake(b) ELSE filled[c] + Fill(b, c)]
  BY DEF Match, Inv, KindOK
<1>2. filled[b] = 0
  BY <1>1 DEF Inv, OrderInv
<1>3. MatchedStake(b) \in Nat /\ \A c \in Bet : Fill(b, c) \in Nat /\ filled[c] \in Nat
  BY <1>1, MatchedRange, FillRange
<1>4. same \in {"back", "lay"}
  BY Orders
<1>5. Visited(b) \subseteq OfSide(other) /\ b \in OfSide(same) /\ b \notin OfSide(other)
  BY <1>4, VisitedAre DEF OfSide
<1>6. \A c \in OfSide(same) : Fill(b, c) = 0
  BY <1>5, VisitedAre DEF Fill, OfSide
<1>7. SumFunctionOnSet(filled', OfSide(same))
        = SumFunctionOnSet(filled, OfSide(same)) + (MatchedStake(b) - 0)
  <2>1. /\ \A c \in OfSide(same) : filled[c] \in Int
        /\ filled'[b] = MatchedStake(b) /\ filled'[b] \in Int
        /\ \A c \in OfSide(same) : c # b => filled'[c] = filled[c]
    BY <1>1, <1>3, <1>6, OfSideFinite
  <2>2. IsFiniteSet(OfSide(same)) /\ b \in OfSide(same)
    BY <1>5, OfSideFinite
  <2>3. SumFunctionOnSet(filled', OfSide(same))
          = SumFunctionOnSet(filled, OfSide(same)) + (filled'[b] - filled[b])
    <3> HIDE DEF same, other, g
    <3>1. PICK f, h, S : f = filled /\ h = filled' /\ S = OfSide(same)
      OBVIOUS
    <3>2. /\ IsFiniteSet(S) /\ b \in S /\ h[b] \in Int
          /\ \A c \in S : f[c] \in Int
          /\ \A c \in S : c # b => h[c] = f[c]
      BY <2>1, <2>2, <3>1
    <3>3. SumFunctionOnSet(h, S) = SumFunctionOnSet(f, S) + (h[b] - f[b])
      BY ONLY <3>2, SumChange
    <3> QED BY <3>1, <3>3
  <2> QED BY <1>2, <2>1, <2>3
<1>8. SumFunctionOnSet(filled', OfSide(other))
        = SumFunctionOnSet(filled, OfSide(other)) + SumFunctionOnSet(g, OfSide(other))
  <2>1. \A c \in OfSide(other) : /\ filled[c] \in Int /\ g[c] \in Int
                                 /\ filled'[c] = filled[c] + g[c]
    BY <1>1, <1>3, <1>5, OfSideFinite
  <2>2. IsFiniteSet(OfSide(other))
    BY OfSideFinite
  <2> HIDE DEF g
  <2> QED BY ONLY <2>1, <2>2, SumPlus
<1>9. SumFunctionOnSet(g, OfSide(other)) = MatchedStake(b)
  <2>1. /\ IsFiniteSet(OfSide(other)) /\ Visited(b) \in SUBSET OfSide(other)
        /\ \A c \in OfSide(other) : g[c] \in Int
    BY <1>3, <1>5, OfSideFinite
  <2>2. SumFunctionOnSet(g, Visited(b)) = MatchedStake(b)
    <3>1. \A c \in Visited(b) : g[c] = Fill(b, c)
      BY VisitedAre
    <3> HIDE DEF g
    <3> QED BY <1>1, <3>1, FillsAddUp
  <2>3. SumFunctionOnSet(g, OfSide(other) \ Visited(b)) = 0
    <3>1. \A c \in OfSide(other) \ Visited(b) : g[c] = 0
      BY OfSideFinite DEF Fill
    <3>2. IsFiniteSet(OfSide(other) \ Visited(b))
      BY OfSideFinite, FS_Subset
    <3> HIDE DEF g
    <3> QED BY ONLY <3>1, <3>2, SumZero
  <2> HIDE DEF g, other
  <2>4. SumFunctionOnSet(g, OfSide(other))
          = SumFunctionOnSet(g, Visited(b)) + SumFunctionOnSet(g, OfSide(other) \ Visited(b))
    BY ONLY <2>1, SumDisjoint
  <2> QED BY <1>3, <2>2, <2>3, <2>4
<1>10. SumFunctionOnSet(filled, OfSide(same)) = SumFunctionOnSet(filled, OfSide(other))
  BY <1>4 DEF Inv, EvenInv, Matched, OfSide
<1>11. SumFunctionOnSet(filled', OfSide(same)) = SumFunctionOnSet(filled', OfSide(other))
  BY <1>7, <1>8, <1>9, <1>10, <1>3
<1> QED BY <1>4, <1>11 DEF EvenInv, Matched, OfSide

\* What is held for a bet is a natural amount.
LEMMA HoldNat ==
  ASSUME NEW b \in Bet, NEW n \in Nat
  PROVE  HoldAmount(b, n) \in Nat
<1>1. n * (price(b) - 100) \in Nat
  BY Orders
<1>2. (n * (price(b) - 100)) \div 100 \in Nat
  BY ONLY <1>1
<1> QED BY <1>2 DEF HoldAmount

LEMMA HoldInv ==
  ASSUME Inv, NEW b \in Bet, Hold(b)
  PROVE  Inv'
<1> DEFINE amount == HoldAmount(b, unmatched[b])
           user == request[b].user
<1>1. amount \in Nat /\ user \in User
  BY OrderNumbers, HoldNat, Orders DEF Inv
<1>2. /\ stage[b] = "matched"
      /\ UNCHANGED <<suspended, now, stamp, resting, unmatched, seen, filled, withdrawn>>
  BY DEF Hold
<1>3. \/ /\ available[user] >= amount /\ available' = [available EXCEPT ![user] = @ - amount]
         /\ stage' = [stage EXCEPT ![b] = "accepted"]
      \/ available' = available /\ stage' = [stage EXCEPT ![b] = "refused"]
  BY DEF Hold
<1> HIDE DEF amount, user
<1>4. available' \in [User -> Nat]
  BY <1>1, <1>3 DEF Inv, KindOK
<1>5. stage' \in [Bet -> Stages]
  BY <1>3 DEF Inv, KindOK, Stages
<1>6. KindOK'
  BY <1>2, <1>4, <1>5 DEF Inv, KindOK, BookOK
<1>7. ASSUME NEW c \in Bet PROVE OrderInv(c)'
  <2>1. OrderInv(c)
    BY DEF Inv
  <2>2. stage'[c] = stage[c] \/ (c = b /\ stage'[c] \in {"accepted", "refused"})
    BY <1>3 DEF Inv, KindOK
  <2> QED BY <1>2, <2>1, <2>2 DEF OrderInv
<1> QED BY <1>2, <1>6, <1>7, SameEven DEF Inv

\* A cancellation takes out what it found, or nothing.
LEMMA RemoveInv ==
  ASSUME Inv, NEW b \in Bet, Remove(b)
  PROVE  Inv'
<1>1. /\ seen' = [seen EXCEPT ![b] = 0]
      /\ UNCHANGED <<suspended, now, stage, stamp, unmatched, available, filled>>
  BY DEF Remove
<1>2. \/ /\ resting' = [resting EXCEPT ![b] = 0]
         /\ withdrawn' = [withdrawn EXCEPT ![b] = @ + resting[b]]
      \/ UNCHANGED <<resting, withdrawn>>
  BY DEF Remove
<1>3. resting[b] \in Nat /\ withdrawn[b] \in Nat /\ filled[b] \in Nat
  BY OrderNumbers DEF Inv
<1>4. KindOK'
  <2>1. resting' \in [Bet -> Nat] /\ withdrawn' \in [Bet -> Nat] /\ seen' \in [Bet -> Nat]
    BY <1>1, <1>2, <1>3 DEF Inv, KindOK, BookOK
  <2> QED BY <1>1, <2>1 DEF Inv, KindOK, BookOK
<1>5. ASSUME NEW c \in Bet PROVE OrderInv(c)'
  <2>1. OrderInv(c)
    BY DEF Inv
  <2>2. CASE resting'[c] = resting[c] /\ withdrawn'[c] = withdrawn[c]
    BY <1>1, <2>1, <2>2 DEF OrderInv
  <2>3. CASE c = b /\ resting'[b] = 0 /\ withdrawn'[b] = withdrawn[b] + resting[b]
    <3>1. filled'[b] + resting'[b] + withdrawn'[b] = filled[b] + resting[b] + withdrawn[b]
      BY <1>1, <1>3, <2>3
    <3>2. resting[b] = 0 /\ withdrawn[b] = 0 => withdrawn'[b] = 0
      BY <2>3
    <3> QED BY <1>1, <2>1, <2>3, <3>1, <3>2 DEF OrderInv
  <2> QED BY <1>2, <2>2, <2>3 DEF Inv, KindOK, BookOK
<1> QED BY <1>1, <1>4, <1>5, SameEven DEF Inv

LEMMA InitInv == Init => Inv
<1> SUFFICES ASSUME Init PROVE Inv
  OBVIOUS
<1>1. KindOK
  <2>1. now \in Nat /\ Start <= now /\ now <= Start + Ticks
    BY Orders DEF Init
  <2>2. suspended \in BOOLEAN /\ stage \in [Bet -> Stages] /\ available \in [User -> Nat]
    BY Orders DEF Init, Stages
  <2>3. BookOK /\ unmatched \in [Bet -> Nat] /\ seen \in [Bet -> Nat]
        /\ filled \in [Bet -> Nat] /\ withdrawn \in [Bet -> Nat]
    BY DEF Init, BookOK
  <2> QED BY <2>1, <2>2, <2>3 DEF KindOK
<1>2. \A b \in Bet : OrderInv(b)
  BY DEF Init, OrderInv
<1>3. EvenInv
  <2>1. \A s \in {"back", "lay"} : SumFunctionOnSet(filled, OfSide(s)) = 0
    <3> SUFFICES ASSUME NEW s \in {"back", "lay"}
                 PROVE  SumFunctionOnSet(filled, OfSide(s)) = 0
      OBVIOUS
    <3>1. IsFiniteSet(OfSide(s)) /\ \A b \in OfSide(s) : filled[b] = 0
      BY OfSideFinite DEF Init, OfSide
    <3> QED BY <3>1, SumZero
  <2> QED BY <2>1 DEF EvenInv, Matched, OfSide
<1> QED BY <1>1, <1>2, <1>3 DEF Inv

LEMMA NextInv == Inv /\ [Next]_vars => Inv'
<1> SUFFICES ASSUME Inv, [Next]_vars PROVE Inv'
  OBVIOUS
<1>1. ASSUME NEW b \in Bet, Check(b) PROVE Inv'
  BY <1>1, CheckInv
<1>2. ASSUME NEW b \in Bet, Match(b) PROVE Inv'
  BY <1>2, MatchOrders, MatchEven DEF Inv
<1>3. ASSUME NEW b \in Bet, Hold(b) PROVE Inv'
  BY <1>3, HoldInv
<1>4. ASSUME NEW b \in Bet, Scan(b) PROVE Inv'
  <2>1. /\ seen' = [seen EXCEPT ![b] = resting[b]] /\ resting[b] \in Nat
        /\ UNCHANGED <<suspended, now, stage, stamp, resting, unmatched, available, filled,
                       withdrawn>>
    BY <1>4, OrderNumbers DEF Scan, Inv
  <2>2. KindOK' /\ now' >= now
    BY <2>1 DEF Inv, KindOK, BookOK
  <2> QED BY <2>1, <2>2, SameOrders
<1>5. ASSUME NEW b \in Bet, Remove(b) PROVE Inv'
  BY <1>5, RemoveInv
<1>6. CASE Suspend \/ UNCHANGED vars
  <2>1. /\ UNCHANGED <<now, stage, stamp, resting, unmatched, available, seen, filled, withdrawn>>
        /\ suspended' \in BOOLEAN
    BY <1>6 DEF Suspend, vars, Inv, KindOK
  <2>2. KindOK' /\ now' >= now
    BY <2>1 DEF Inv, KindOK, BookOK
  <2> QED BY <2>1, <2>2, SameOrders
<1>7. CASE Tick
  <2>1. /\ UNCHANGED <<suspended, stage, stamp, resting, unmatched, available, seen, filled,
                       withdrawn>>
        /\ now' = now + 1 /\ now < Start + Ticks
    BY <1>7 DEF Tick
  <2>2. KindOK' /\ now' >= now
    BY <2>1, Orders DEF Inv, KindOK, BookOK
  <2> QED BY <2>1, <2>2, SameOrders
<1> QED BY <1>1, <1>2, <1>3, <1>4, <1>5, <1>6, <1>7 DEF Next

LEMMA Invariance == Spec => []Inv
BY InitInv, NextInv, PTL DEF Spec

\* No stake is lost or made, whatever matches, cancels and the clock do in between: an order's
\* stake is matched, rests or was taken out, and the two sides are matched alike (luaMatchScript,
\* CancelOrder).
THEOREM StakeKept == Spec => []StakeAccounted
<1>1. Inv => StakeAccounted
  <2> SUFFICES ASSUME Inv PROVE StakeAccounted
    OBVIOUS
  <2>1. ASSUME NEW b \in Bet
        PROVE  /\ filled[b] + resting[b] + withdrawn[b] \in {0, stake(b)}
               /\ resting[b] + filled[b] <= stake(b)
    <3>1. /\ resting[b] \in Nat /\ filled[b] \in Nat /\ withdrawn[b] \in Nat
          /\ stake(b) \in Nat /\ OrderInv(b)
      BY OrderNumbers, Orders DEF Inv
    <3> QED BY <3>1 DEF OrderInv
  <2>2. TypeOK
    BY <2>1 DEF TypeOK, Inv, KindOK, BookOK
  <2> QED BY <2>1, <2>2 DEF StakeAccounted, Inv, EvenInv
<1> QED BY <1>1, Invariance, PTL

-----------------------------------------------------------------------------
\* Priority

\* A hundredth more weighs at least PriceUnit more.
LEMMA PriceWeighs ==
  ASSUME NEW p \in Nat, NEW q \in Nat, p < q, NEW u \in Nat
  PROVE  p * u + u <= q * u /\ p * u \in Nat /\ q * u \in Nat
<1>1. PICK k \in Nat : q = p + (1 + k)
  <2>1. q - p - 1 \in Nat /\ q = p + (1 + (q - p - 1))
    OBVIOUS
  <2> QED BY <2>1
<1>2. q * u = p * u + (u + k * u)
  BY <1>1
<1>3. k * u \in Nat /\ p * u \in Nat /\ q * u \in Nat
  OBVIOUS
<1> QED BY <1>2, <1>3

\* Orders stamped within the weight of a price: the score goes by price, then time.
LEMMA BetterScores ==
  ASSUME BookOK, NEW c \in Bet, NEW d \in Bet, side(c) = side(d), Better(c, d),
         Start <= stamp[c], stamp[c] <= Start + Ticks,
         Start <= stamp[d], stamp[d] <= Start + Ticks, Ticks < PriceUnit
  PROVE  IF side(c) = "lay" THEN Score(c) < Score(d) ELSE Score(c) > Score(d)
<1>1. PICK p, q, s, t : p = price(c) /\ q = price(d) /\ s = stamp[c] /\ t = stamp[d]
  OBVIOUS
<1>2. p \in Nat /\ q \in Nat /\ s \in Nat /\ t \in Nat /\ PriceUnit \in Nat /\ LatestStamp \in Nat
      /\ p * PriceUnit \in Nat /\ q * PriceUnit \in Nat
  BY <1>1, Orders DEF BookOK
<1>3. s - t < PriceUnit /\ t - s < PriceUnit
  BY <1>1, <1>2, Orders
<1>4. CASE side(c) = "lay"
  <2>1. Score(c) = p * PriceUnit + s /\ Score(d) = q * PriceUnit + t
    BY <1>1, <1>4 DEF Score
  <2>2. p < q \/ (p = q /\ s < t)
    BY <1>1, <1>4 DEF Better
  <2>3. CASE p < q
    <3>1. p * PriceUnit + PriceUnit <= q * PriceUnit
      BY <1>2, <2>3, PriceWeighs
    <3> QED BY <1>2, <1>3, <1>4, <2>1, <3>1
  <2>4. CASE p = q /\ s < t
    BY <1>2, <1>4, <2>1, <2>4
  <2> QED BY <2>2, <2>3, <2>4
<1>5. CASE side(c) # "lay"
  <2>1. side(c) = "back" /\ side(d) = "back"
    BY <1>5, Orders
  <2>2. Score(c) = p * PriceUnit + (LatestStamp - s) /\ Score(d) = q * PriceUnit + (LatestStamp - t)
    BY <1>1, <2>1 DEF Score
  <2>3. p > q \/ (p = q /\ s < t)
    BY <1>1, <1>5 DEF Better
  <2>4. CASE p > q
    <3>1. q * PriceUnit + PriceUnit <= p * PriceUnit
      BY <1>2, <2>4, PriceWeighs
    <3> QED BY <1>2, <1>3, <1>5, <2>2, <3>1
  <2>5. CASE p = q /\ s < t
    BY <1>2, <1>5, <2>2, <2>5
  <2> QED BY <2>3, <2>4, <2>5
<1> QED BY <1>4, <1>5

\* More orders have at least as much.
LEMMA VolumeGrows ==
  ASSUME BookOK, NEW W \in SUBSET Bet, NEW V \in SUBSET W
  PROVE  Volume(V) <= Volume(W)
<1>1. IsFiniteSet(W) /\ \A c \in W : resting[c] \in Int
  <2>1. IsFiniteSet(W)
    BY Orders, FS_Subset
  <2>2. \A c \in W : resting[c] \in Int
    BY DEF BookOK
  <2> QED BY <2>1, <2>2
<1>2. Volume(W) = Volume(V) + Volume(W \ V)
  BY <1>1, SumDisjoint DEF Volume
<1>3. Volume(V) \in Nat /\ Volume(W \ V) \in Nat
  BY VolumeNat
<1> QED BY <1>2, <1>3

\* Whoever is ahead of an order that is filled is filled, and wholly.
LEMMA AheadIsEmptied ==
  ASSUME BookOK, NEW b \in Bet, NEW d \in Visited(b), Fill(b, d) > 0,
         NEW c \in InRange(b), Ahead(c, d)
  PROVE  Fill(b, c) = resting[c]
<1> DEFINE I == InRange(b)
<1>1. I \in SUBSET Bet /\ Visited(b) \subseteq I /\ d \in I
  BY DEF InRange, InBook, Visited
<1>2. \A e \in I : side(e) = IF side(b) = "back" THEN "lay" ELSE "back"
  BY <1>1, Orders DEF InRange
<1>3. Line(Order(I), I)
  BY <1>1, <1>2, OrderIsLine
<1>4. \A x, y \in I : <<x, y>> \in Order(I) <=> Ahead(x, y)
  BY DEF Order
<1> HIDE DEF I
<1>5. /\ \A x \in I : ~Ahead(x, x)
      /\ \A x, y, z \in I : Ahead(x, y) /\ Ahead(y, z) => Ahead(x, z)
  BY <1>3, <1>4 DEF Line
<1>6. c \in Visited(b)
  <2>1. \A e \in I : Ahead(e, d) \/ e = d => Crosses(b, e)
    BY DEF Visited, I
  <2>2. \A e \in I : Ahead(e, c) \/ e = c => Crosses(b, e)
    BY <1>1, <1>5, <2>1 DEF I
  <2> QED BY <2>2 DEF Visited, I
<1>7. /\ Before(b, c) \cup {c} \subseteq Before(b, d) /\ c \notin Before(b, c)
      /\ Before(b, d) \in SUBSET Bet /\ Before(b, c) \in SUBSET Bet
  BY <1>1, <1>5, <1>6 DEF Before
<1>8. PICK v, w \in Nat : v = Volume(Before(b, c)) /\ w = Volume(Before(b, d))
  BY <1>7, VolumeNat
<1>9. resting[c] \in Nat /\ resting[d] \in Nat /\ stake(b) \in Nat
  BY <1>1, Orders DEF BookOK, I
<1>10. v + resting[c] <= w
  <2>1. Volume(Before(b, c) \cup {c}) = v + resting[c]
    <3>1. IsFiniteSet(Before(b, c)) /\ \A x \in Before(b, c) : resting[x] \in Int
      <4>1. IsFiniteSet(Before(b, c))
        BY <1>7, Orders, FS_Subset
      <4>2. \A x \in Before(b, c) : resting[x] \in Int
        BY <1>7 DEF BookOK
      <4> QED BY <4>1, <4>2
    <3> QED BY <1>7, <1>8, <1>9, <3>1, SumAdd DEF Volume
  <2>2. Volume(Before(b, c) \cup {c}) <= w
    BY <1>7, <1>8, VolumeGrows
  <2> QED BY <2>1, <2>2
<1>11. Gives(stake(b) - w, resting[d]) > 0 /\ Fill(b, c) = Gives(stake(b) - v, resting[c])
  BY <1>6, <1>8, FillGives
<1>12. stake(b) - w > 0
  BY <1>8, <1>9, <1>11 DEF Gives
<1>13. stake(b) - v > resting[c]
  BY <1>8, <1>9, <1>10, <1>12
<1> QED BY <1>8, <1>9, <1>11, <1>13 DEF Gives, Least

LEMMA MatchPriority ==
  ASSUME Inv, Ticks < PriceUnit, NEW b \in Bet, Match(b), NEW d \in Bet, d # b,
         filled'[d] > filled[d]
  PROVE  /\ side(d) # side(b) /\ Crosses(b, d)
         /\ \A c \in InBook \ {d} : side(c) = side(d) /\ Better(c, d) => resting'[c] = 0
<1>1. /\ BookOK /\ filled \in [Bet -> Nat]
      /\ resting' = [c \in Bet |-> IF c = b THEN stake(b) - MatchedStake(b)
                                   ELSE resting[c] - Fill(b, c)]
      /\ filled' = [c \in Bet |-> IF c = b THEN MatchedStake(b) ELSE filled[c] + Fill(b, c)]
  BY DEF Match, Inv, KindOK
<1>2. Fill(b, d) > 0 /\ d \in Visited(b)
  <2>1. filled'[d] = filled[d] + Fill(b, d) /\ filled[d] \in Nat /\ Fill(b, d) \in Nat
    BY <1>1, FillRange
  <2>2. Fill(b, d) > 0
    BY <2>1
  <2> QED BY <2>2 DEF Fill
<1>3. side(d) # side(b) /\ Crosses(b, d) /\ d \in InRange(b) /\ d \in InBook
  BY <1>2 DEF Visited, InRange
<1>4. ASSUME NEW c \in InBook \ {d}, side(c) = side(d), Better(c, d)
      PROVE  resting'[c] = 0
  <2>1. c \in Bet /\ c # b
    BY <1>3, <1>4 DEF InBook
  <2>2. \A e \in InBook : Start <= stamp[e] /\ stamp[e] <= Start + Ticks
    <3> SUFFICES ASSUME NEW e \in InBook PROVE Start <= stamp[e] /\ stamp[e] <= Start + Ticks
      OBVIOUS
    <3>1. e \in Bet /\ resting[e] > 0 /\ OrderInv(e)
      BY DEF InBook, Inv
    <3>2. stage[e] # "new"
      BY <3>1 DEF OrderInv
    <3>3. stamp[e] \in Nat /\ now \in Nat /\ now <= Start + Ticks
      BY <3>1, OrderNumbers DEF Inv, KindOK
    <3> QED BY <3>1, <3>2, <3>3, Orders DEF OrderInv
  <2>3. IF side(c) = "lay" THEN Score(c) < Score(d) ELSE Score(c) > Score(d)
    BY <1>1, <1>3, <1>4, <2>1, <2>2, BetterScores
  <2>4. Score(c) \in Int /\ Score(d) \in Int
    BY <1>1, <2>1, ScoreInt
  <2>5. Ahead(c, d)
    BY <2>3, <2>4 DEF Ahead
  <2>6. c \in InRange(b)
    <3>1. price(b) * PriceUnit \in Nat /\ LatestStamp \in Nat
      BY Orders
    <3>2. side(b) = "back" => side(c) = "lay"
      BY <1>3, <1>4, Orders
    <3>3. side(b) # "back" => side(c) # "lay"
      BY <1>3, <1>4, <2>1, Orders
    <3>4. IF side(b) = "back" THEN Score(d) <= price(b) * PriceUnit + LatestStamp
          ELSE Score(d) >= price(b) * PriceUnit
      BY <1>3 DEF InRange
    <3>5. IF side(b) = "back" THEN Score(c) <= price(b) * PriceUnit + LatestStamp
          ELSE Score(c) >= price(b) * PriceUnit
      BY <2>3, <2>4, <3>1, <3>2, <3>3, <3>4
    <3> QED BY <1>3, <1>4, <3>5 DEF InRange
  <2>7. Fill(b, c) = resting[c]
    BY <1>1, <1>2, <2>5, <2>6, AheadIsEmptied
  <2>8. resting[c] \in Nat
    BY <1>1, <2>1 DEF BookOK
  <2> QED BY <1>1, <2>1, <2>7, <2>8
<1> QED BY <1>3, <1>4

\* An order is only filled when no better one is left, at its price no earlier one, provided
\* the orders of the history are less than the weight of a price apart in time: luaMatchScript
\* adds seconds to a million for each hundredth of a price, so that is eleven and a half days.
THEOREM PriorityKept ==
  ASSUME Ticks < PriceUnit
  PROVE  Spec => PriceTimePriority
<1> DEFINE Prior ==
      \A b, d \in Bet :
        stage[b] = "checked" /\ stage'[b] # "checked" /\ d # b /\ filled'[d] > filled[d] =>
          /\ side(d) # side(b) /\ Crosses(b, d)
          /\ \A c \in InBook \ {d} : side(c) = side(d) /\ Better(c, d) => resting'[c] = 0
<1>1. Inv /\ [Next]_vars => [Prior]_vars
  <2> SUFFICES ASSUME Inv, Next, NEW b \in Bet, NEW d \in Bet, stage[b] = "checked",
                      stage'[b] # "checked", d # b, filled'[d] > filled[d]
               PROVE  /\ side(d) # side(b) /\ Crosses(b, d)
                      /\ \A c \in InBook \ {d} : side(c) = side(d) /\ Better(c, d)
                           => resting'[c] = 0
    OBVIOUS
  <2>1. Match(b)
    <3>1. stage \in [Bet -> Stages] /\ filled[d] \in Nat
      BY DEF Inv, KindOK
    <3>2. ASSUME NEW c \in Bet, Check(c) PROVE FALSE
      BY <3>1, <3>2 DEF Check
    <3>3. ASSUME NEW c \in Bet, Hold(c) PROVE FALSE
      BY <3>1, <3>3 DEF Hold
    <3>4. ASSUME NEW c \in Bet, Scan(c) \/ Remove(c) PROVE FALSE
      BY <3>1, <3>4 DEF Scan, Remove
    <3>5. CASE Suspend \/ Tick
      BY <3>1, <3>5 DEF Suspend, Tick
    <3>6. ASSUME NEW c \in Bet, Match(c), c # b PROVE FALSE
      BY <3>1, <3>6 DEF Match
    <3> QED BY <3>2, <3>3, <3>4, <3>5, <3>6 DEF Next
  <2> QED BY <2>1, MatchPriority
<1> QED BY <1>1, Invariance, PTL DEF Spec, PriceTimePriority

-----------------------------------------------------------------------------
(***************************************************************************)
(* The odds stream.  What is on its way to a client is one sequence, cut   *)
(* in five by the goroutines and channels that hold it; every step but the *)
(* provider's only moves a cut.                                            *)
(***************************************************************************)

\* A cut moves past the first element of what follows it.
LEMMA CutMoves ==
  ASSUME NEW S, NEW a \in Seq(S), NEW q \in Seq(S), q # <<>>
  PROVE  /\ Head(q) \in S /\ Tail(q) \in Seq(S) /\ Len(Tail(q)) = Len(q) - 1
         /\ (a \o <<>>) \o q = (a \o <<Head(q)>>) \o Tail(q)
<1>1. /\ Head(q) \in S /\ Tail(q) \in Seq(S) /\ Len(Tail(q)) = Len(q) - 1
      /\ \A i \in 1..Len(Tail(q)) : Tail(q)[i] = q[i + 1]
  BY HeadTailProperties
<1>2. Head(q) = q[1] /\ Len(q) \in Nat \ {0}
  BY EmptySeq
<1>3. q = <<Head(q)>> \o Tail(q)
  <2> DEFINE r == <<Head(q)>> \o Tail(q)
  <2>1. <<Head(q)>> \in Seq(S) /\ Len(<<Head(q)>>) = 1 /\ <<Head(q)>>[1] = Head(q)
    BY <1>1
  <2>2. /\ r \in Seq(S) /\ Len(r) = 1 + Len(Tail(q))
        /\ \A i \in 1..1 + Len(Tail(q)) :
             r[i] = IF i <= 1 THEN <<Head(q)>>[i] ELSE Tail(q)[i - 1]
    BY ONLY <1>1, <2>1, ConcatProperties
  <2>3. Len(r) = Len(q)
    BY <1>1, <1>2, <2>2
  <2>4. ASSUME NEW i \in 1..Len(q) PROVE q[i] = r[i]
    BY <1>1, <1>2, <2>1, <2>2
  <2> HIDE DEF r
  <2>5. q = r
    BY ONLY q \in Seq(S), <2>2, <2>3, <2>4, SeqEqual
  <2> QED BY <2>5 DEF r
<1>4. a \o <<>> = a
  BY ConcatEmptySeq
<1>5. <<Head(q)>> \in Seq(S)
  BY <1>1
<1>6. (a \o <<Head(q)>>) \o Tail(q) = a \o (<<Head(q)>> \o Tail(q))
  BY ONLY <1>1, <1>5, a \in Seq(S), ConcatAssociative
<1> QED BY <1>1, <1>3, <1>4, <1>6

\* One element goes from the hand to the end of the queue before it.
LEMMA CutBack ==
  ASSUME NEW S, NEW a \in Seq(S), NEW k \in Seq(S), NEW x \in S
  PROVE  /\ Append(k, x) \in Seq(S) /\ Len(Append(k, x)) = Len(k) + 1
         /\ (a \o Append(k, x)) \o <<>> = (a \o k) \o <<x>>
<1>1. /\ Append(k, x) = k \o <<x>> /\ Append(k, x) \in Seq(S)
      /\ Len(Append(k, x)) = Len(k) + 1
  BY AppendIsConcat, AppendProperties
<1>2. <<x>> \in Seq(S)
  OBVIOUS
<1>3. (a \o k) \o <<x>> = a \o (k \o <<x>>)
  BY <1>2, ConcatAssociative
<1>4. a \o Append(k, x) \in Seq(S)
  BY ONLY <1>1, a \in Seq(S), ConcatProperties
<1>5. (a \o Append(k, x)) \o <<>> = a \o Append(k, x)
  BY ONLY <1>4, ConcatEmptySeq
<1> QED BY <1>1, <1>3, <1>5

LEMMA PutBehind ==
  ASSUME NEW S, NEW a \in Seq(S), NEW q \in Seq(S), NEW x \in S
  PROVE  a \o Append(q, x) = Append(a \o q, x)
<1>1. a \o q \in Seq(S)
  BY ConcatProperties
<1>2. Append(q, x) = q \o <<x>>
  BY AppendIsConcat
<1>3. Append(a \o q, x) = (a \o q) \o <<x>>
  BY ONLY <1>1, x \in S, AppendIsConcat
<1>4. <<x>> \in Seq(S)
  OBVIOUS
<1>5. (a \o q) \o <<x>> = a \o (q \o <<x>>)
  BY <1>4, ConcatAssociative
<1> QED BY <1>2, <1>3, <1>5

\* What is behind a prefix comes after it.
LEMMA PrefixIsFirst ==
  ASSUME NEW S, NEW a \in Seq(S), NEW x \in S, NEW q \in Seq(S)
  PROVE  LET w == (a \o <<x>>) \o q IN
         /\ Len(a) \in Nat /\ Len(w) \in Nat /\ Len(a) + 1 <= Len(w)
         /\ w[Len(a) + 1] = x
         /\ \A j \in 1..Len(a) : w[j] = a[j]
<1> DEFINE b == a \o <<x>>
           w == b \o q
<1>1. <<x>> \in Seq(S) /\ Len(<<x>>) = 1 /\ <<x>>[1] = x
  OBVIOUS
<1>2. /\ b \in Seq(S) /\ Len(b) = Len(a) + 1
      /\ \A i \in 1..Len(a) + 1 : b[i] = IF i <= Len(a) THEN a[i] ELSE <<x>>[i - Len(a)]
  BY ONLY a \in Seq(S), <1>1, ConcatProperties
<1>3. Len(a) \in Nat /\ Len(q) \in Nat /\ Len(b) \in Nat
  BY <1>2, LenProperties
<1>b. b \in Seq(S)
  BY <1>2
<1> HIDE DEF b
<1>4. /\ w \in Seq(S) /\ Len(w) = Len(b) + Len(q)
      /\ \A i \in 1..Len(b) + Len(q) : w[i] = IF i <= Len(b) THEN b[i] ELSE q[i - Len(b)]
  BY ONLY <1>b, q \in Seq(S), ConcatProperties
<1> HIDE DEF w
<1>5. Len(w) \in Nat /\ Len(a) + 1 <= Len(w)
  BY <1>2, <1>3, <1>4
<1>6. w[Len(a) + 1] = x
  <2>1. Len(a) + 1 \in 1..Len(a) + 1 /\ Len(a) + 1 \in 1..Len(b) + Len(q)
    BY <1>2, <1>3
  <2>2. b[Len(a) + 1] = <<x>>[1]
    BY <1>2, <1>3, <2>1
  <2> QED BY <1>1, <1>2, <1>3, <1>4, <2>1, <2>2
<1>7. ASSUME NEW j \in 1..Len(a) PROVE w[j] = a[j]
  <2>1. j \in 1..Len(a) + 1 /\ j \in 1..Len(b) + Len(q) /\ j <= Len(a) /\ j <= Len(b)
    BY <1>2, <1>3
  <2>2. b[j] = a[j]
    BY <1>2, <2>1
  <2> QED BY <1>4, <2>1, <2>2
<1> QED BY <1>3, <1>5, <1>6, <1>7 DEF w, b

\* The goroutines start together, and have an update in hand exactly when they are
\* about to pass it on.
HandInv ==
  \A s \in Sub :
    /\ provider[s] = "none" => cacher[s] = "none" /\ writer[s] = "none"
    /\ cacher[s] \in {"none", "receiving"} => inCacher[s] = <<>>
    /\ cacher[s] \in {"caching", "sending"} => Len(inCacher[s]) = 1
    /\ writer[s] \in {"none", "receiving"} => inWriter[s] = <<>>
    /\ writer[s] = "writing" => Len(inWriter[s]) = 1

\* A tick is started only where there is room for all of it.
SendInv ==
  \A s \in Sub :
    provider[s] = "sending"
      => Len(todo[s]) >= 1 /\ produced[s] + Len(todo[s]) <= MaxUpdates

WayInv ==
  \A s \in Sub :
    /\ Len(OnTheWay(s)) = produced[s]
    /\ \A i \in 1..Len(OnTheWay(s)) : OnTheWay(s)[i].sub = s /\ OnTheWay(s)[i].n = i

\* The cache is no older than x, or x could not be put there.
Cached(s, x) ==
  redis[x.market] # NoOdds /\ redis[x.market].sub = s
    => redis[x.market].n >= x.n \/ x \in unsaved

CacheInv ==
  \A s \in Sub :
    /\ \A j \in 1..Len(Sent(s)) : Cached(s, Sent(s)[j])
    /\ cacher[s] = "sending" => Cached(s, Head(inCacher[s]))

RecordInv ==
  \A u \in Watcher :
    wsConns[u] # NoConn
      => /\ ConnUser[wsConns[u]] = u
         /\ handler[wsConns[u]] \in {"reading", "waiting"}

Queues ==
  /\ updates \in [Sub -> Seq(Update)] /\ cached \in [Sub -> Seq(Update)]
  /\ inCacher \in [Sub -> Seq(Update)] /\ inWriter \in [Sub -> Seq(Update)]
  /\ delivered \in [Sub -> Seq(Update)]

StreamInv ==
  StreamTypeOK /\ HandInv /\ SendInv /\ WayInv /\ CacheInv /\ RecordInv

LEMMA QueuesTyped == StreamTypeOK => Queues
BY DEF StreamTypeOK, Queues

LEMMA QueuesTypedNext == StreamTypeOK' => Queues'
BY DEF StreamTypeOK, Queues

LEMMA WayTyped ==
  ASSUME Queues, NEW s \in Sub
  PROVE  /\ delivered[s] \o inWriter[s] \in Seq(Update)
         /\ Sent(s) \in Seq(Update)
         /\ Sent(s) \o inCacher[s] \in Seq(Update)
         /\ OnTheWay(s) \in Seq(Update)
<1> DEFINE a == delivered[s]
           b == inWriter[s]
           c == cached[s]
           d == inCacher[s]
           e == updates[s]
<1>1. a \in Seq(Update) /\ b \in Seq(Update) /\ c \in Seq(Update) /\ d \in Seq(Update)
      /\ e \in Seq(Update)
  BY DEF Queues
<1>2. Sent(s) = (a \o b) \o c /\ OnTheWay(s) = (Sent(s) \o d) \o e
  BY DEF Sent, OnTheWay
<1> HIDE DEF a, b, c, d, e
<1>3. a \o b \in Seq(Update)
  BY ONLY <1>1, ConcatProperties
<1>4. (a \o b) \o c \in Seq(Update)
  BY ONLY <1>1, <1>3, ConcatProperties
<1>5. Sent(s) \in Seq(Update)
  BY <1>2, <1>4
<1>6. Sent(s) \o d \in Seq(Update)
  BY ONLY <1>1, <1>5, ConcatProperties
<1>7. (Sent(s) \o d) \o e \in Seq(Update)
  BY ONLY <1>1, <1>6, ConcatProperties
<1> QED BY <1>2, <1>3, <1>5, <1>6, <1>7 DEF a, b, d


LEMMA StreamInitInv == StreamInit => StreamInv
<1> SUFFICES ASSUME StreamInit PROVE StreamInv
  OBVIOUS
<1> USE StreamAssumption
<1>1. StreamTypeOK
  <2>1. <<>> \in Seq(Update) /\ Len(<<>>) = 0 /\ <<>> \in Seq(Market)
    OBVIOUS
  <2>2. /\ updates = [s \in Sub |-> <<>>] /\ cached = [s \in Sub |-> <<>>]
        /\ inCacher = [s \in Sub |-> <<>>] /\ inWriter = [s \in Sub |-> <<>>]
        /\ delivered = [s \in Sub |-> <<>>] /\ todo = [s \in Sub |-> <<>>]
    BY DEF StreamInit
  <2>3. /\ updates \in [Sub -> Seq(Update)] /\ cached \in [Sub -> Seq(Update)]
        /\ inCacher \in [Sub -> Seq(Update)] /\ inWriter \in [Sub -> Seq(Update)]
        /\ delivered \in [Sub -> Seq(Update)] /\ todo \in [Sub -> Seq(Market)]
    BY ONLY <2>1, <2>2
  <2>4. ASSUME NEW s \in Sub
        PROVE  /\ Len(updates[s]) <= Cap /\ Len(cached[s]) <= Cap
               /\ Len(inCacher[s]) <= 1 /\ Len(inWriter[s]) <= 1
    BY <2>1, <2>2
  <2>5. /\ link \in [Conn -> {"none", "up", "down"}]
        /\ handler \in [Conn -> {"none", "reading", "waiting", "returned"}]
        /\ pinger \in [Conn -> {"none", "beating", "done"}]
        /\ wsConns \in [Watcher -> Conn \cup {NoConn}]
        /\ provider \in [Sub -> {"none", "waiting", "sending", "done"}]
        /\ cacher \in [Sub -> Pipe \cup {"caching"}]
        /\ writer \in [Sub -> {"none", "receiving", "writing", "done"}]
    BY DEF StreamInit, Pipe
  <2>6. /\ produced \in [Sub -> 0..MaxUpdates]
        /\ redis \in [Market -> Update \cup {NoOdds}]
        /\ unsaved \subseteq Update /\ stopping \in BOOLEAN /\ faults \in 0..MaxFaults
    <3>1. 0 \in 0..MaxUpdates /\ 0 \in 0..MaxFaults
      OBVIOUS
    <3>2. /\ produced = [s \in Sub |-> 0] /\ redis = [m \in Market |-> NoOdds]
          /\ unsaved = {} /\ stopping = FALSE /\ faults = 0
      BY DEF StreamInit
    <3> QED BY ONLY <3>1, <3>2
  <2> QED BY <2>3, <2>4, <2>5, <2>6 DEF StreamTypeOK
<1>2. HandInv /\ SendInv /\ RecordInv
  BY DEF StreamInit, HandInv, SendInv, RecordInv
<1>3. ASSUME NEW s \in Sub PROVE Sent(s) = <<>> /\ OnTheWay(s) = <<>>
  <2>1. <<>> \o <<>> = <<>>
    BY ConcatEmptySeq, <<>> \in Seq(Update)
  <2> QED BY <2>1 DEF StreamInit, Sent, OnTheWay
<1>4. WayInv /\ CacheInv
  BY <1>3 DEF StreamInit, WayInv, CacheInv
<1> QED BY <1>1, <1>2, <1>4 DEF StreamInv

-----------------------------------------------------------------------------
\* The steps of the connection leave the subscriptions alone.

LEMMA ConnectionTypes ==
  ASSUME StreamTypeOK, RecordInv,
         \/ \E c \in Conn : Accept(c) \/ Disconnect(c) \/ ReadFails(c) \/ PingFails(c) \/ Return(c)
         \/ CloseConnections
  PROVE  StreamTypeOK' /\ RecordInv'
<1>1. UNCHANGED <<pipeVars, redisVars>>
  BY DEF Accept, Disconnect, ReadFails, PingFails, Return, CloseConnections
<1>2. ASSUME /\ link' \in [Conn -> {"none", "up", "down"}]
             /\ handler' \in [Conn -> {"none", "reading", "waiting", "returned"}]
             /\ pinger' \in [Conn -> {"none", "beating", "done"}]
             /\ wsConns' \in [Watcher -> Conn \cup {NoConn}]
             /\ stopping' \in BOOLEAN
      PROVE  StreamTypeOK'
  BY <1>1, <1>2 DEF StreamTypeOK, pipeVars, redisVars
<1>3. \A c \in Conn : ConnUser[c] \in Watcher
  BY DEF Watcher
<1>4. ASSUME NEW c \in Conn, Accept(c) PROVE StreamTypeOK' /\ RecordInv'
  <2>1. StreamTypeOK'
    BY <1>2, <1>3, <1>4 DEF Accept, StreamTypeOK
  <2>2. ASSUME NEW u \in Watcher, (wsConns[u] # NoConn)'
        PROVE  (ConnUser[wsConns[u]] = u /\ handler[wsConns[u]] \in {"reading", "waiting"})'
    BY <1>4, <2>2 DEF Accept, StreamTypeOK, RecordInv
  <2> QED BY <2>1, <2>2 DEF RecordInv
<1>5. ASSUME NEW c \in Conn, Disconnect(c) PROVE StreamTypeOK' /\ RecordInv'
  BY <1>2, <1>5 DEF Disconnect, StreamTypeOK, RecordInv
<1>6. ASSUME NEW c \in Conn, ReadFails(c) PROVE StreamTypeOK' /\ RecordInv'
  BY <1>2, <1>6 DEF ReadFails, StreamTypeOK, RecordInv
<1>7. ASSUME NEW c \in Conn, PingFails(c) PROVE StreamTypeOK' /\ RecordInv'
  BY <1>2, <1>7 DEF PingFails, StreamTypeOK, RecordInv
<1>8. ASSUME NEW c \in Conn, Return(c) PROVE StreamTypeOK' /\ RecordInv'
  <2>1. StreamTypeOK'
    BY <1>2, <1>3, <1>8 DEF Return, OffRecord, StreamTypeOK
  <2>2. ASSUME NEW u \in Watcher, (wsConns[u] # NoConn)'
        PROVE  (ConnUser[wsConns[u]] = u /\ handler[wsConns[u]] \in {"reading", "waiting"})'
    BY <1>8, <2>2 DEF Return, OffRecord, StreamTypeOK, RecordInv
  <2> QED BY <2>1, <2>2 DEF RecordInv
<1>9. ASSUME CloseConnections PROVE StreamTypeOK' /\ RecordInv'
  BY <1>2, <1>9 DEF CloseConnections, StreamTypeOK, RecordInv
<1> QED BY <1>4, <1>5, <1>6, <1>7, <1>8, <1>9

\* The steps of the subscriptions leave the connections alone.
Goroutines ==
  /\ provider \in [Sub -> {"none", "waiting", "sending", "done"}]
  /\ cacher \in [Sub -> Pipe \cup {"caching"}]
  /\ writer \in [Sub -> {"none", "receiving", "writing", "done"}]

Stores ==
  /\ todo \in [Sub -> Seq(Market)] /\ produced \in [Sub -> 0..MaxUpdates]
  /\ redis \in [Market -> Update \cup {NoOdds}]
  /\ unsaved \subseteq Update /\ faults \in 0..MaxFaults

Lengths ==
  \A s \in Sub :
    /\ Len(updates[s]) <= Cap /\ Len(cached[s]) <= Cap
    /\ Len(inCacher[s]) <= 1 /\ Len(inWriter[s]) <= 1

LEMMA TypesOfPipe == StreamTypeOK => Goroutines /\ Stores /\ Queues /\ Lengths
BY DEF StreamTypeOK, Goroutines, Stores, Queues, Lengths

LEMMA PipeTypes ==
  ASSUME StreamTypeOK, UNCHANGED connVars, Goroutines', Stores', Queues', Lengths'
  PROVE  StreamTypeOK'
BY DEF StreamTypeOK, Goroutines, Stores, Queues, Lengths, connVars

LEMMA RecordStill == RecordInv /\ UNCHANGED connVars => RecordInv'
BY DEF RecordInv, connVars

-----------------------------------------------------------------------------
\* The steps of the subscriptions.

\* Nothing has been put on the way; only the cuts may have moved.
WayStays == produced' = produced /\ \A t \in Sub : OnTheWay(t)' = OnTheWay(t)

SentStays ==
  /\ \A t \in Sub : Sent(t)' = Sent(t)
  /\ \A t \in Sub : cacher'[t] = "sending" => cacher[t] = "sending" /\ inCacher'[t] = inCacher[t]

LEMMA WayStill == WayInv /\ WayStays => WayInv'
BY DEF WayInv, WayStays

\* A cache that is not written stays as good as it was.
LEMMA CacheStill ==
  ASSUME CacheInv, SentStays, unsaved' = unsaved,
         \A m \in Market : redis'[m] \in {redis[m], NoOdds},
         Queues, StreamTypeOK, HandInv
  PROVE  CacheInv'
<1>1. ASSUME NEW t \in Sub, NEW x \in Update, Cached(t, x) PROVE Cached(t, x)'
  <2>1. x.market \in Market
    BY DEF Update
  <2> QED BY <1>1, <2>1 DEF Cached
<1>2. SUFFICES ASSUME NEW t \in Sub
               PROVE  /\ \A j \in 1..Len(Sent(t)) : Cached(t, Sent(t)[j])'
                      /\ cacher'[t] = "sending" => Cached(t, Head(inCacher[t]))'
  <2> QED BY DEF CacheInv, SentStays
<1>3. Sent(t)' = Sent(t) /\ Sent(t) \in Seq(Update)
  BY WayTyped DEF SentStays
<1>4. ASSUME NEW j \in 1..Len(Sent(t)) PROVE Cached(t, Sent(t)[j])'
  <2>1. Sent(t)[j] \in Update
    BY <1>3
  <2>2. Cached(t, Sent(t)[j])
    BY DEF CacheInv
  <2> QED BY <1>1, <1>3, <2>1, <2>2
<1>5. ASSUME cacher'[t] = "sending" PROVE Cached(t, Head(inCacher[t]))'
  <2>1. cacher[t] = "sending" /\ inCacher'[t] = inCacher[t]
    BY <1>5 DEF SentStays
  <2>2. Len(inCacher[t]) = 1 /\ inCacher[t] \in Seq(Update)
    BY <2>1 DEF HandInv, Queues
  <2>3. Head(inCacher[t]) \in Update
    BY <2>2
  <2> QED BY <1>1, <2>1, <2>3 DEF CacheInv
<1> QED BY <1>4, <1>5

\* A subscription of which nothing moved.
LEMMA Untouched ==
  ASSUME NEW t \in Sub,
         /\ delivered'[t] = delivered[t] /\ inWriter'[t] = inWriter[t]
         /\ cached'[t] = cached[t] /\ inCacher'[t] = inCacher[t] /\ updates'[t] = updates[t]
  PROVE  Sent(t)' = Sent(t) /\ OnTheWay(t)' = OnTheWay(t)
BY DEF Sent, OnTheWay


LEMMA StartStep ==
  ASSUME StreamInv, NEW s \in Sub, StartSubscription(s) PROVE StreamInv'
<1>1. /\ StreamTypeOK /\ HandInv /\ SendInv /\ WayInv /\ CacheInv /\ RecordInv
      /\ Goroutines /\ Stores /\ Queues /\ Lengths
  BY TypesOfPipe DEF StreamInv
<1>2. UNCHANGED <<connVars, redisVars, todo, updates, cached, inCacher, inWriter, produced,
                  delivered>>
  BY DEF StartSubscription
<1>3. Goroutines'
  BY <1>1 DEF StartSubscription, Goroutines, Pipe
<1>4. Stores' /\ Queues' /\ Lengths'
  BY <1>1, <1>2 DEF Stores, Queues, Lengths, redisVars
<1>5. StreamTypeOK' /\ RecordInv'
  BY <1>1, <1>2, <1>3, <1>4, PipeTypes, RecordStill
<1>6. HandInv' /\ SendInv'
  BY <1>1, <1>2 DEF StartSubscription, Goroutines, HandInv, SendInv
<1>7. WayStays /\ SentStays
  BY <1>1, <1>2, Untouched DEF StartSubscription, Goroutines, WayStays, SentStays
<1>8. WayInv' /\ CacheInv'
  BY <1>1, <1>2, <1>7, WayStill, CacheStill DEF redisVars
<1> QED BY <1>5, <1>6, <1>8 DEF StreamInv

LEMMA TickerStep ==
  ASSUME StreamInv, NEW s \in Sub, TickerFires(s) PROVE StreamInv'
<1>1. /\ StreamTypeOK /\ HandInv /\ SendInv /\ WayInv /\ CacheInv /\ RecordInv
      /\ Goroutines /\ Stores /\ Queues /\ Lengths
  BY TypesOfPipe DEF StreamInv
<1>2. UNCHANGED <<connVars, redisVars, cacher, writer, updates, cached, inCacher, inWriter,
                  produced, delivered>>
  BY DEF TickerFires
<1>3. SubMarkets[s] \in Seq(Market) /\ SubMarkets[s] # <<>> /\ Len(SubMarkets[s]) >= 1
  <2>1. SubMarkets[s] \in Seq(Market) /\ SubMarkets[s] # <<>>
    BY StreamAssumption
  <2> QED BY <2>1
<1>4. Goroutines' /\ Stores'
  BY <1>1, <1>2, <1>3 DEF TickerFires, Goroutines, Stores, redisVars
<1>5. Queues' /\ Lengths'
  BY <1>1, <1>2 DEF Queues, Lengths
<1>6. StreamTypeOK' /\ RecordInv'
  BY <1>1, <1>2, <1>4, <1>5, PipeTypes, RecordStill
<1>7. HandInv' /\ SendInv'
  BY <1>1, <1>2, <1>3 DEF TickerFires, Goroutines, Stores, HandInv, SendInv
<1>8. WayStays /\ SentStays
  BY <1>1, <1>2, Untouched DEF WayStays, SentStays
<1>9. WayInv' /\ CacheInv'
  BY <1>1, <1>2, <1>8, WayStill, CacheStill DEF redisVars
<1> QED BY <1>6, <1>7, <1>9 DEF StreamInv

\* The provider puts one more update behind all that are on the way.
LEMMA ProviderStep ==
  ASSUME StreamInv, NEW s \in Sub, ProviderSend(s) PROVE StreamInv'
<1> DEFINE x == [sub |-> s, market |-> Head(todo[s]), n |-> produced[s] + 1]
<1>1. /\ StreamTypeOK /\ HandInv /\ SendInv /\ WayInv /\ CacheInv /\ RecordInv
      /\ Goroutines /\ Stores /\ Queues /\ Lengths
  BY TypesOfPipe DEF StreamInv
<1>2. /\ todo[s] \in Seq(Market) /\ Len(todo[s]) >= 1 /\ produced[s] \in Nat
      /\ produced[s] + Len(todo[s]) <= MaxUpdates /\ MaxUpdates \in Nat
      /\ produced[s] + 1 \in 1..MaxUpdates
  <2>1. produced[s] \in 0..MaxUpdates /\ todo[s] \in Seq(Market) /\ MaxUpdates \in Nat
    BY <1>1, StreamAssumption DEF Stores
  <2>2. Len(todo[s]) >= 1 /\ produced[s] + Len(todo[s]) <= MaxUpdates
    BY <1>1 DEF ProviderSend, SendInv
  <2>3. Len(todo[s]) \in Nat
    BY <2>1
  <2> QED BY <2>1, <2>2, <2>3
<1>3. /\ Tail(todo[s]) \in Seq(Market) /\ Len(Tail(todo[s])) = Len(todo[s]) - 1
      /\ Head(todo[s]) \in Market
  BY <1>2
<1>4. x \in Update
  BY <1>2, <1>3 DEF Update
<1>5. Len(updates[s]) < Cap /\ updates' = [updates EXCEPT ![s] = Append(updates[s], x)]
  BY DEF ProviderSend, Offer
<1>6. updates[s] \in Seq(Update) /\ Len(updates[s]) \in Nat /\ Cap \in Nat
  BY <1>1, StreamAssumption DEF Queues
<1> HIDE DEF x
<1>7. Append(updates[s], x) \in Seq(Update) /\ Len(Append(updates[s], x)) = Len(updates[s]) + 1
  BY <1>4, <1>6, AppendProperties
<1>8. Queues' /\ Lengths'
  <2>1. UNCHANGED <<cached, inCacher, inWriter, delivered>>
    BY DEF ProviderSend
  <2>2. updates' \in [Sub -> Seq(Update)]
    BY <1>1, <1>5, <1>7 DEF Queues
  <2>3. ASSUME NEW t \in Sub PROVE Len(updates'[t]) <= Cap
    <3>1. CASE t = s
      BY <1>1, <1>5, <1>6, <1>7, <3>1 DEF Queues
    <3>2. CASE t # s
      BY <1>1, <1>5, <3>2 DEF Queues, Lengths
    <3> QED BY <3>1, <3>2
  <2> QED BY <1>1, <2>1, <2>2, <2>3 DEF Queues, Lengths
<1>9. StreamTypeOK' /\ RecordInv'
  <2>1. UNCHANGED <<connVars, redisVars>>
    BY DEF ProviderSend
  <2>2. Goroutines'
    BY <1>1 DEF ProviderSend, Goroutines
  <2>3. Stores'
    BY <1>1, <1>2, <1>3, <2>1 DEF ProviderSend, Stores, redisVars
  <2> QED BY <1>1, <1>8, <2>1, <2>2, <2>3, PipeTypes, RecordStill
<1>10. SendInv'
  <2>1. ASSUME NEW t \in Sub, provider'[t] = "sending"
        PROVE  Len(todo'[t]) >= 1 /\ produced'[t] + Len(todo'[t]) <= MaxUpdates
    <3>1. CASE t = s
      <4>1. provider[s] = "sending" /\ Len(todo[s]) # 1
        BY <1>1, <2>1, <3>1 DEF ProviderSend, Goroutines
      <4>2. todo'[t] = Tail(todo[s]) /\ produced'[t] = produced[s] + 1
        BY <1>1, <3>1 DEF ProviderSend, Stores
      <4>3. Len(todo[s]) \in Nat
        BY <1>2
      <4>4. /\ Len(todo'[t]) = Len(todo[s]) - 1 /\ produced'[t] = produced[s] + 1
        BY <1>3, <3>1, <4>2
      <4>5. \A k, p \in Nat : k >= 1 /\ k # 1 /\ p + k <= MaxUpdates
                                => k - 1 >= 1 /\ (p + 1) + (k - 1) <= MaxUpdates
        BY <1>2
      <4> QED BY ONLY <1>2, <4>1, <4>3, <4>4, <4>5
    <3>2. CASE t # s
      BY <1>1, <2>1, <3>2 DEF ProviderSend, Goroutines, Stores, SendInv
    <3> QED BY <3>1, <3>2
  <2> QED BY <2>1 DEF SendInv
<1>11. HandInv'
  BY <1>1 DEF ProviderSend, Goroutines, HandInv
<1>12. \A t \in Sub : Sent(t)' = Sent(t)
  BY DEF ProviderSend, Sent
<1>13. CacheInv'
  <2>1. SentStays
    BY <1>12 DEF SentStays, ProviderSend
  <2> QED BY <1>1, <2>1, CacheStill DEF ProviderSend, redisVars
<1>14. WayInv'
  <2>1. ASSUME NEW t \in Sub, t # s PROVE OnTheWay(t)' = OnTheWay(t)
    <3>1. updates'[t] = updates[t]
      BY <1>1, <1>5, <2>1 DEF Queues
    <3> QED BY <2>1, <3>1, <1>12 DEF ProviderSend, OnTheWay
  <2> DEFINE w == OnTheWay(s)
             a == Sent(s) \o inCacher[s]
  <2>2. w \in Seq(Update) /\ a \in Seq(Update) /\ w = a \o updates[s]
    BY <1>1, WayTyped DEF OnTheWay
  <2>3. OnTheWay(s)' = a \o Append(updates[s], x)
    <3>1. updates'[s] = Append(updates[s], x) /\ inCacher' = inCacher
      BY <1>1, <1>5 DEF Queues, ProviderSend
    <3> QED BY <1>12, <3>1 DEF OnTheWay
  <2> HIDE DEF a, w
  <2>4. OnTheWay(s)' = Append(w, x)
    <3>1. a \in Seq(Update) /\ updates[s] \in Seq(Update)
      BY <1>6, <2>2
    <3>2. a \o Append(updates[s], x) = Append(a \o updates[s], x)
      BY ONLY <1>4, <3>1, PutBehind
    <3> QED BY <2>2, <2>3, <3>2
  <2>5. /\ Len(w) = produced[s]
        /\ \A i \in 1..Len(w) : w[i].sub = s /\ w[i].n = i
    BY <1>1 DEF WayInv, w
  <2>6. produced'[s] = produced[s] + 1 /\ \A t \in Sub : t # s => produced'[t] = produced[t]
    BY <1>1 DEF ProviderSend, Stores
  <2>7. /\ Len(Append(w, x)) = Len(w) + 1 /\ Append(w, x)[Len(w) + 1] = x
        /\ \A i \in 1..Len(w) : Append(w, x)[i] = w[i]
    BY <1>4, <2>2, AppendProperties
  <2>8. ASSUME NEW i \in 1..Len(w) + 1
        PROVE  Append(w, x)[i].sub = s /\ Append(w, x)[i].n = i
    <3>1. CASE i = Len(w) + 1
      <4>1. x.sub = s /\ x.n = Len(w) + 1
        BY <2>5 DEF x
      <4> QED BY <2>7, <3>1, <4>1
    <3>2. CASE i # Len(w) + 1
      <4>1. i \in 1..Len(w)
        BY <1>2, <2>5, <3>2
      <4> QED BY <2>5, <2>7, <4>1
    <3> QED BY <3>1, <3>2
  <2>9. ASSUME NEW t \in Sub
        PROVE  /\ Len(OnTheWay(t)') = produced'[t]
               /\ \A i \in 1..Len(OnTheWay(t)') : OnTheWay(t)'[i].sub = t /\ OnTheWay(t)'[i].n = i
    <3>1. CASE t = s
      BY <2>4, <2>5, <2>6, <2>7, <2>8, <3>1
    <3>2. CASE t # s
      BY <1>1, <2>1, <2>6, <3>2 DEF WayInv
    <3> QED BY <3>1, <3>2
  <2> QED BY <2>9 DEF WayInv
<1> QED BY <1>9, <1>10, <1>11, <1>13, <1>14 DEF StreamInv

\* A goroutine gives up: what it had in hand stays there.
LEMMA LeaveStep ==
  ASSUME StreamInv, NEW s \in Sub, Leave(s) PROVE StreamInv'
<1>1. /\ StreamTypeOK /\ HandInv /\ SendInv /\ WayInv /\ CacheInv /\ RecordInv
      /\ Goroutines /\ Stores /\ Queues /\ Lengths
  BY TypesOfPipe DEF StreamInv
<1>2. /\ UNCHANGED <<todo, updates, cached, inCacher, inWriter, produced, delivered,
                     connVars, redisVars>>
      /\ provider' = provider \/ provider' = [provider EXCEPT ![s] = "done"]
      /\ cacher' = cacher \/ (cacher' = [cacher EXCEPT ![s] = "done"] /\ cacher[s] # "none")
      /\ writer' = writer \/ (writer' = [writer EXCEPT ![s] = "done"] /\ writer[s] # "none")
  BY DEF Leave, ProviderDone, CacherDone, CacherOver, WriterDone
<1>3. \A t \in Sub : /\ provider'[t] \in {provider[t], "done"}
                     /\ cacher'[t] \in {cacher[t], "done"}
                     /\ writer'[t] \in {writer[t], "done"}
                     /\ cacher[t] = "none" => cacher'[t] = "none"
                     /\ writer[t] = "none" => writer'[t] = "none"
  BY <1>1, <1>2 DEF Goroutines
<1>4. StreamTypeOK' /\ RecordInv'
  <2>1. Goroutines'
    BY <1>1, <1>2 DEF Goroutines, Pipe
  <2>2. Stores' /\ Queues' /\ Lengths'
    BY <1>1, <1>2 DEF Stores, Queues, Lengths, redisVars
  <2> QED BY <1>1, <1>2, <2>1, <2>2, PipeTypes, RecordStill
<1>5. HandInv' /\ SendInv'
  BY <1>1, <1>2, <1>3 DEF Goroutines, HandInv, SendInv
<1>6. WayStays /\ SentStays
  BY <1>2, <1>3, Untouched DEF WayStays, SentStays
<1>7. WayInv' /\ CacheInv'
  BY <1>1, <1>2, <1>6, WayStill, CacheStill DEF redisVars
<1> QED BY <1>4, <1>5, <1>7 DEF StreamInv


LEMMA CacherReceiveStep ==
  ASSUME StreamInv, NEW s \in Sub, CacherReceive(s) PROVE StreamInv'
<1>1. /\ StreamTypeOK /\ HandInv /\ SendInv /\ WayInv /\ CacheInv /\ RecordInv
      /\ Goroutines /\ Stores /\ Queues /\ Lengths
  BY TypesOfPipe DEF StreamInv
<1>2. /\ UNCHANGED <<connVars, redisVars, provider, writer, todo, cached, inWriter, produced,
                     delivered>>
      /\ cacher[s] = "receiving" /\ updates[s] # <<>> /\ inCacher[s] = <<>>
      /\ inCacher' = [inCacher EXCEPT ![s] = <<Head(updates[s])>>]
      /\ updates' = [updates EXCEPT ![s] = Tail(updates[s])]
      /\ cacher' = [cacher EXCEPT ![s] = "caching"]
  BY <1>1 DEF CacherReceive, HandInv
<1>3. updates[s] \in Seq(Update) /\ Len(updates[s]) \in Nat /\ Sent(s) \in Seq(Update)
  BY <1>1, WayTyped DEF Queues
<1>4. /\ Head(updates[s]) \in Update /\ Tail(updates[s]) \in Seq(Update)
      /\ Len(Tail(updates[s])) = Len(updates[s]) - 1
      /\ (Sent(s) \o <<>>) \o updates[s]
           = (Sent(s) \o <<Head(updates[s])>>) \o Tail(updates[s])
  BY <1>2, <1>3, CutMoves
<1>5. /\ <<Head(updates[s])>> \in Seq(Update) /\ Len(<<Head(updates[s])>>) = 1
  BY <1>4
<1>6. Queues'
  BY <1>1, <1>2, <1>4, <1>5 DEF Queues
<1>7. /\ updates'[s] = Tail(updates[s]) /\ inCacher'[s] = <<Head(updates[s])>>
      /\ cacher'[s] = "caching"
      /\ \A t \in Sub : t # s => /\ updates'[t] = updates[t] /\ inCacher'[t] = inCacher[t]
                                 /\ cacher'[t] = cacher[t]
  BY <1>1, <1>2 DEF Queues, Goroutines
<1>8. Lengths'
  <2>1. Len(updates[s]) <= Cap /\ Cap \in Nat
    BY <1>1, StreamAssumption DEF Lengths
  <2>2. Len(updates'[s]) <= Cap /\ Len(inCacher'[s]) <= 1
    BY <1>3, <1>4, <1>5, <1>7, <2>1
  <2> QED BY <1>1, <1>2, <1>7, <2>2 DEF Lengths
<1>9. StreamTypeOK' /\ RecordInv'
  <2>1. Goroutines' /\ Stores'
    BY <1>1, <1>2 DEF Goroutines, Stores, redisVars
  <2> QED BY <1>1, <1>2, <1>6, <1>8, <2>1, PipeTypes, RecordStill
<1>10. HandInv' /\ SendInv'
  BY <1>1, <1>2, <1>5, <1>7 DEF HandInv, SendInv
<1>11. \A t \in Sub : Sent(t)' = Sent(t)
  BY <1>2 DEF Sent
<1>12. WayStays
  <2>1. OnTheWay(s)' = OnTheWay(s)
    BY <1>2, <1>4, <1>7, <1>11 DEF OnTheWay
  <2>2. \A t \in Sub : t # s => OnTheWay(t)' = OnTheWay(t)
    BY <1>2, <1>7, Untouched
  <2> QED BY <1>2, <2>1, <2>2 DEF WayStays
<1>13. SentStays
  BY <1>7, <1>11 DEF SentStays
<1>14. WayInv' /\ CacheInv'
  BY <1>1, <1>2, <1>12, <1>13, WayStill, CacheStill DEF redisVars
<1> QED BY <1>9, <1>10, <1>14 DEF StreamInv

LEMMA WriterReceiveStep ==
  ASSUME StreamInv, NEW s \in Sub, WriterReceive(s) PROVE StreamInv'
<1>1. /\ StreamTypeOK /\ HandInv /\ SendInv /\ WayInv /\ CacheInv /\ RecordInv
      /\ Goroutines /\ Stores /\ Queues /\ Lengths
  BY TypesOfPipe DEF StreamInv
<1>2. /\ UNCHANGED <<connVars, redisVars, provider, cacher, todo, updates, inCacher, produced,
                     delivered>>
      /\ writer[s] = "receiving" /\ cached[s] # <<>> /\ inWriter[s] = <<>>
      /\ inWriter' = [inWriter EXCEPT ![s] = <<Head(cached[s])>>]
      /\ cached' = [cached EXCEPT ![s] = Tail(cached[s])]
      /\ writer' = [writer EXCEPT ![s] = "writing"]
  BY <1>1 DEF WriterReceive, HandInv
<1>3. cached[s] \in Seq(Update) /\ Len(cached[s]) \in Nat /\ delivered[s] \in Seq(Update)
  BY <1>1 DEF Queues
<1>4. /\ Head(cached[s]) \in Update /\ Tail(cached[s]) \in Seq(Update)
      /\ Len(Tail(cached[s])) = Len(cached[s]) - 1
      /\ (delivered[s] \o <<>>) \o cached[s]
           = (delivered[s] \o <<Head(cached[s])>>) \o Tail(cached[s])
  BY <1>2, <1>3, CutMoves
<1>5. /\ <<Head(cached[s])>> \in Seq(Update) /\ Len(<<Head(cached[s])>>) = 1
  BY <1>4
<1>6. Queues'
  BY <1>1, <1>2, <1>4, <1>5 DEF Queues
<1>7. /\ cached'[s] = Tail(cached[s]) /\ inWriter'[s] = <<Head(cached[s])>>
      /\ writer'[s] = "writing"
      /\ \A t \in Sub : t # s => /\ cached'[t] = cached[t] /\ inWriter'[t] = inWriter[t]
                                 /\ writer'[t] = writer[t]
  BY <1>1, <1>2 DEF Queues, Goroutines
<1>8. Lengths'
  <2>1. Len(cached[s]) <= Cap /\ Cap \in Nat
    BY <1>1, StreamAssumption DEF Lengths
  <2>2. Len(cached'[s]) <= Cap /\ Len(inWriter'[s]) <= 1
    BY <1>3, <1>4, <1>5, <1>7, <2>1
  <2> QED BY <1>1, <1>2, <1>7, <2>2 DEF Lengths
<1>9. StreamTypeOK' /\ RecordInv'
  <2>1. Goroutines' /\ Stores'
    BY <1>1, <1>2 DEF Goroutines, Stores, redisVars
  <2> QED BY <1>1, <1>2, <1>6, <1>8, <2>1, PipeTypes, RecordStill
<1>10. HandInv' /\ SendInv'
  BY <1>1, <1>2, <1>5, <1>7 DEF HandInv, SendInv
<1>11. \A t \in Sub : Sent(t)' = Sent(t)
  <2>1. Sent(s)' = Sent(s)
    BY <1>2, <1>4, <1>7 DEF Sent
  <2>2. \A t \in Sub : t # s => Sent(t)' = Sent(t)
    BY <1>2, <1>7, Untouched
  <2> QED BY <2>1, <2>2
<1>12. WayStays /\ SentStays
  BY <1>2, <1>11 DEF WayStays, SentStays, OnTheWay
<1>13. WayInv' /\ CacheInv'
  BY <1>1, <1>2, <1>12, WayStill, CacheStill DEF redisVars
<1> QED BY <1>9, <1>10, <1>13 DEF StreamInv

LEMMA WriteStep ==
  ASSUME StreamInv, NEW s \in Sub, Write(s) PROVE StreamInv'
<1>1. /\ StreamTypeOK /\ HandInv /\ SendInv /\ WayInv /\ CacheInv /\ RecordInv
      /\ Goroutines /\ Stores /\ Queues /\ Lengths
  BY TypesOfPipe DEF StreamInv
<1>2. /\ UNCHANGED <<connVars, redisVars, provider, cacher, todo, updates, cached, inCacher,
                     produced>>
      /\ writer[s] = "writing"
      /\ inWriter' = [inWriter EXCEPT ![s] = <<>>]
      /\ delivered' = [delivered EXCEPT ![s] = delivered[s] \o inWriter[s]]
      /\ writer' = [writer EXCEPT ![s] = "receiving"]
  BY DEF Write
<1>3. delivered[s] \o inWriter[s] \in Seq(Update) /\ <<>> \in Seq(Update) /\ Len(<<>>) = 0
  BY <1>1, WayTyped
<1>4. (delivered[s] \o inWriter[s]) \o <<>> = delivered[s] \o inWriter[s]
  BY ONLY <1>3, ConcatEmptySeq
<1>5. Queues'
  BY <1>1, <1>2, <1>3 DEF Queues
<1>6. /\ delivered'[s] = delivered[s] \o inWriter[s] /\ inWriter'[s] = <<>>
      /\ writer'[s] = "receiving"
      /\ \A t \in Sub : t # s => /\ delivered'[t] = delivered[t] /\ inWriter'[t] = inWriter[t]
                                 /\ writer'[t] = writer[t]
  BY <1>1, <1>2 DEF Queues, Goroutines
<1>7. Lengths'
  BY <1>1, <1>2, <1>3, <1>6 DEF Lengths
<1>8. StreamTypeOK' /\ RecordInv'
  <2>1. Goroutines' /\ Stores'
    BY <1>1, <1>2 DEF Goroutines, Stores, redisVars
  <2> QED BY <1>1, <1>2, <1>5, <1>7, <2>1, PipeTypes, RecordStill
<1>9. HandInv' /\ SendInv'
  BY <1>1, <1>2, <1>6 DEF HandInv, SendInv
<1>10. \A t \in Sub : Sent(t)' = Sent(t)
  <2>1. Sent(s)' = Sent(s)
    BY <1>2, <1>4, <1>6 DEF Sent
  <2>2. \A t \in Sub : t # s => Sent(t)' = Sent(t)
    BY <1>2, <1>6, Untouched
  <2> QED BY <2>1, <2>2
<1>11. WayStays /\ SentStays
  BY <1>2, <1>10 DEF WayStays, SentStays, OnTheWay
<1>12. WayInv' /\ CacheInv'
  BY <1>1, <1>2, <1>11, WayStill, CacheStill DEF redisVars
<1> QED BY <1>8, <1>9, <1>12 DEF StreamInv


\* What the cacher has in hand was sent after all that the client and its writer have.
LEMMA InHand ==
  ASSUME StreamInv, NEW s \in Sub, cacher[s] \in {"caching", "sending"}
  PROVE  LET x == Head(inCacher[s]) IN
         /\ inCacher[s] = <<x>> /\ x \in Update /\ x.market \in Market /\ x.sub = s /\ x.n \in Int
         /\ \A j \in 1..Len(Sent(s)) : Sent(s)[j].n \in Int /\ Sent(s)[j].n <= x.n
<1> DEFINE x == Head(inCacher[s])
           a == Sent(s)
           q == updates[s]
           w == OnTheWay(s)
<1>1. HandInv /\ WayInv /\ Queues
  BY TypesOfPipe DEF StreamInv
<1>2. inCacher[s] \in Seq(Update) /\ Len(inCacher[s]) = 1
  BY <1>1 DEF HandInv, Queues
<1>3. inCacher[s] = <<x>> /\ x \in Update
  BY <1>2
<1>4. x.market \in Market /\ x.n \in Int
  BY <1>3 DEF Update
<1>5. a \in Seq(Update) /\ q \in Seq(Update)
  BY <1>1, WayTyped DEF Queues
<1>6. w = (a \o <<x>>) \o q
  BY <1>3 DEF OnTheWay
<1>7. \A i \in 1..Len(w) : w[i].sub = s /\ w[i].n = i
  BY <1>1 DEF WayInv
<1> HIDE DEF x, a, q, w
<1>8. /\ Len(a) \in Nat /\ Len(w) \in Nat /\ Len(a) + 1 <= Len(w) /\ w[Len(a) + 1] = x
      /\ \A j \in 1..Len(a) : w[j] = a[j]
  BY ONLY <1>3, <1>5, <1>6, PrefixIsFirst
<1>9. x.sub = s /\ x.n = Len(a) + 1
  <2>1. Len(a) + 1 \in 1..Len(w)
    BY <1>8
  <2> QED BY <1>7, <1>8, <2>1
<1>10. ASSUME NEW j \in 1..Len(a) PROVE a[j].n \in Int /\ a[j].n <= x.n
  <2>1. j \in 1..Len(w) /\ j <= Len(a) + 1
    BY <1>8
  <2>2. a[j].n = j
    BY <1>7, <1>8, <2>1
  <2> QED BY <1>8, <1>9, <2>1, <2>2
<1> QED BY <1>3, <1>4, <1>9, <1>10 DEF x, a

\* The update in hand goes to the cache, or to those that could not be put there.
LEMMA CacheStep ==
  ASSUME StreamInv, NEW s \in Sub, SetCache(s) \/ SetFails(s) PROVE StreamInv'
<1>1. /\ StreamTypeOK /\ HandInv /\ SendInv /\ WayInv /\ CacheInv /\ RecordInv
      /\ Goroutines /\ Stores /\ Queues /\ Lengths
  BY TypesOfPipe DEF StreamInv
<1>0. PICK x \in Update : x = Head(inCacher[s])
  BY InHand DEF SetCache, SetFails
<1>2. /\ UNCHANGED <<connVars, provider, writer, todo, updates, cached, inCacher, inWriter,
                     produced, delivered>>
      /\ cacher[s] = "caching" /\ cacher' = [cacher EXCEPT ![s] = "sending"]
      /\ \/ redis' = [redis EXCEPT ![x.market] = x] /\ UNCHANGED <<unsaved, faults>>
         \/ /\ redis' = redis /\ unsaved' = unsaved \cup {x}
            /\ faults' = faults \/ (faults < MaxFaults /\ faults' = faults + 1)
  BY <1>0 DEF SetCache, SetFails, CacheLatest
<1>3. /\ inCacher[s] = <<x>> /\ x \in Update /\ x.market \in Market /\ x.sub = s /\ x.n \in Int
      /\ \A j \in 1..Len(Sent(s)) : Sent(s)[j].n \in Int /\ Sent(s)[j].n <= x.n
  BY <1>0, <1>2, InHand
<1>4. Queues' /\ Lengths'
  BY <1>1, <1>2 DEF Queues, Lengths
<1>5. Goroutines'
  BY <1>1, <1>2 DEF Goroutines, Pipe
<1>6. Stores'
  <2>1. redis' \in [Market -> Update \cup {NoOdds}] /\ unsaved' \subseteq Update
    BY <1>1, <1>2, <1>3 DEF Stores
  <2>2. faults' \in 0..MaxFaults
    BY <1>1, <1>2, StreamAssumption DEF Stores
  <2>3. todo' \in [Sub -> Seq(Market)] /\ produced' \in [Sub -> 0..MaxUpdates]
    BY <1>1, <1>2 DEF Stores
  <2> QED BY <2>1, <2>2, <2>3 DEF Stores
<1>7. StreamTypeOK' /\ RecordInv'
  BY <1>1, <1>2, <1>4, <1>5, <1>6, PipeTypes, RecordStill
<1>8. cacher'[s] = "sending" /\ \A t \in Sub : t # s => cacher'[t] = cacher[t]
  BY <1>1, <1>2 DEF Goroutines
<1>9. HandInv' /\ SendInv'
  BY <1>1, <1>2, <1>8 DEF HandInv, SendInv
<1>10. \A t \in Sub : Sent(t)' = Sent(t) /\ OnTheWay(t)' = OnTheWay(t)
  BY <1>2, Untouched
<1>11. WayInv'
  BY <1>1, <1>2, <1>10, WayStill DEF WayStays
<1>12. ASSUME NEW t \in Sub, NEW y \in Update, Cached(t, y), t = s => y.n \in Int /\ y.n <= x.n
       PROVE  Cached(t, y)'
  <2>1. y.market \in Market
    BY <1>12 DEF Update
  <2>2. CASE redis' = [redis EXCEPT ![x.market] = x] /\ unsaved' = unsaved
    <3>1. CASE y.market = x.market
      <4>1. redis'[y.market] = x
        BY <1>1, <1>3, <2>2, <3>1 DEF Stores
      <4>2. t = s => x.n >= y.n
        BY <1>3, <1>12
      <4> QED BY <1>3, <4>1, <4>2 DEF Cached
    <3>2. CASE y.market # x.market
      <4>1. redis'[y.market] = redis[y.market]
        BY <1>1, <2>1, <2>2, <3>2 DEF Stores
      <4> QED BY <1>12, <2>2, <4>1 DEF Cached
    <3> QED BY <3>1, <3>2
  <2>3. CASE redis' = redis /\ unsaved' = unsaved \cup {x}
    BY <1>12, <2>3 DEF Cached
  <2> QED BY <1>2, <2>2, <2>3
<1>13. Cached(s, x)'
  <2>1. CASE redis' = [redis EXCEPT ![x.market] = x]
    <3>1. redis'[x.market] = x
      BY <1>1, <1>3, <2>1 DEF Stores
    <3> QED BY <1>3, <3>1 DEF Cached
  <2>2. CASE unsaved' = unsaved \cup {x}
    BY <2>2 DEF Cached
  <2> QED BY <1>2, <2>1, <2>2
<1>14. ASSUME NEW t \in Sub, NEW j \in 1..Len(Sent(t)) PROVE Cached(t, Sent(t)[j])'
  <2>1. Sent(t) \in Seq(Update)
    BY <1>1, WayTyped
  <2>2. Sent(t)[j] \in Update
    BY <2>1
  <2>3. Cached(t, Sent(t)[j])
    BY <1>1 DEF CacheInv
  <2>4. t = s => Sent(t)[j].n \in Int /\ Sent(t)[j].n <= x.n
    BY <1>3
  <2>5. PICK y \in Update : y = Sent(t)[j]
    BY <2>2
  <2>6. Cached(t, y)'
    BY <1>12, <2>3, <2>4, <2>5
  <2> QED BY <1>10, <2>5, <2>6
<1>15. ASSUME NEW t \in Sub, cacher'[t] = "sending" PROVE Cached(t, Head(inCacher[t]))'
  <2>1. CASE t = s
    BY <1>0, <1>2, <1>13, <2>1
  <2>2. CASE t # s
    <3>1. cacher[t] = "sending" /\ inCacher'[t] = inCacher[t]
      BY <1>2, <1>8, <1>15, <2>2
    <3>2. Len(inCacher[t]) = 1 /\ inCacher[t] \in Seq(Update)
      BY <1>1, <3>1 DEF HandInv, Queues
    <3>3. PICK y \in Update : y = Head(inCacher[t])
      BY <3>2
    <3>4. Cached(t, y)'
      BY <1>1, <1>12, <2>2, <3>1, <3>3 DEF CacheInv
    <3> QED BY <3>1, <3>3, <3>4
  <2> QED BY <2>1, <2>2
<1>16. CacheInv'
  BY <1>10, <1>14, <1>15 DEF CacheInv
<1> QED BY <1>7, <1>9, <1>11, <1>16 DEF StreamInv


\* What the client's queue is given was in the cache before, or is in unsaved.
LEMMA CacherSendStep ==
  ASSUME StreamInv, NEW s \in Sub, CacherSend(s) PROVE StreamInv'
<1>1. /\ StreamTypeOK /\ HandInv /\ SendInv /\ WayInv /\ CacheInv /\ RecordInv
      /\ Goroutines /\ Stores /\ Queues /\ Lengths
  BY TypesOfPipe DEF StreamInv
<1>2. PICK x \in Update : x = Head(inCacher[s]) /\ inCacher[s] = <<x>>
  BY InHand DEF CacherSend
<1>3. /\ UNCHANGED <<connVars, redisVars, provider, writer, todo, updates, inWriter, produced,
                     delivered>>
      /\ cacher[s] = "sending" /\ cacher' = [cacher EXCEPT ![s] = "receiving"]
      /\ Len(cached[s]) < Cap /\ cached' = [cached EXCEPT ![s] = Append(cached[s], x)]
      /\ inCacher' = [inCacher EXCEPT ![s] = <<>>]
  BY <1>2 DEF CacherSend, Offer
<1>4. /\ cached[s] \in Seq(Update) /\ Len(cached[s]) \in Nat /\ Cap \in Nat
      /\ <<>> \in Seq(Update) /\ Len(<<>>) = 0
  BY <1>1, StreamAssumption DEF Queues
<1>5. PICK a \in Seq(Update) : a = delivered[s] \o inWriter[s]
  BY <1>1, WayTyped
<1>6. /\ Append(cached[s], x) \in Seq(Update)
      /\ Len(Append(cached[s], x)) = Len(cached[s]) + 1
      /\ (a \o Append(cached[s], x)) \o <<>> = (a \o cached[s]) \o <<x>>
  <2>1. PICK k \in Seq(Update) : k = cached[s]
    BY <1>4
  <2>2. /\ Append(k, x) \in Seq(Update) /\ Len(Append(k, x)) = Len(k) + 1
        /\ (a \o Append(k, x)) \o <<>> = (a \o k) \o <<x>>
    BY ONLY a \in Seq(Update), k \in Seq(Update), x \in Update, CutBack
  <2> QED BY <2>1, <2>2
<1>7. Queues'
  BY <1>1, <1>3, <1>4, <1>6 DEF Queues
<1>8. /\ cached'[s] = Append(cached[s], x) /\ inCacher'[s] = <<>> /\ cacher'[s] = "receiving"
      /\ \A t \in Sub : t # s => /\ cached'[t] = cached[t] /\ inCacher'[t] = inCacher[t]
                                 /\ cacher'[t] = cacher[t]
  BY <1>1, <1>3 DEF Queues, Goroutines
<1>9. Lengths'
  <2>1. Len(cached'[s]) <= Cap /\ Len(inCacher'[s]) <= 1
    BY <1>3, <1>4, <1>6, <1>8
  <2> QED BY <1>1, <1>3, <1>8, <2>1 DEF Lengths
<1>10. StreamTypeOK' /\ RecordInv'
  <2>1. Goroutines' /\ Stores'
    BY <1>1, <1>3 DEF Goroutines, Stores, Pipe, redisVars
  <2> QED BY <1>1, <1>3, <1>7, <1>9, <2>1, PipeTypes, RecordStill
<1>11. HandInv' /\ SendInv'
  BY <1>1, <1>3, <1>8 DEF HandInv, SendInv
<1>12. \A t \in Sub : t # s => Sent(t)' = Sent(t) /\ OnTheWay(t)' = OnTheWay(t)
  BY <1>3, <1>8, Untouched
<1>13. Sent(s) = a \o cached[s] /\ Sent(s)' = a \o Append(cached[s], x)
  BY <1>3, <1>5, <1>8 DEF Sent
<1>14. WayInv'
  <2>1. OnTheWay(s)' = OnTheWay(s)
    <3>1. OnTheWay(s)' = ((a \o Append(cached[s], x)) \o <<>>) \o updates[s]
      BY <1>3, <1>8, <1>13 DEF OnTheWay
    <3>2. OnTheWay(s) = ((a \o cached[s]) \o <<x>>) \o updates[s]
      BY <1>2, <1>13 DEF OnTheWay
    <3> QED BY <1>6, <3>1, <3>2
  <2> QED BY <1>1, <1>3, <1>12, <2>1, WayStill DEF WayStays
<1>15. Sent(s)' = Append(Sent(s), x)
  <2>1. a \o Append(cached[s], x) = Append(a \o cached[s], x)
    BY <1>4, PutBehind
  <2> QED BY <1>13, <2>1
<1>16. \A t \in Sub, y \in Update : Cached(t, y) => Cached(t, y)'
  BY <1>3 DEF Cached, redisVars
<1>17. ASSUME NEW t \in Sub, NEW j \in 1..Len(Sent(t)') PROVE Cached(t, Sent(t)[j])'
  <2>1. Sent(t) \in Seq(Update)
    BY <1>1, WayTyped
  <2>2. CASE j \in 1..Len(Sent(t)) /\ Sent(t)'[j] = Sent(t)[j]
    <3>1. PICK y \in Update : y = Sent(t)[j]
      BY <2>1, <2>2
    <3>2. Cached(t, y)'
      BY <1>1, <1>16, <2>2, <3>1 DEF CacheInv
    <3> QED BY <2>2, <3>1, <3>2
  <2>3. CASE t = s /\ Sent(t)'[j] = x
    <3>1. Cached(s, x)'
      BY <1>1, <1>2, <1>3, <1>16 DEF CacheInv
    <3> QED BY <2>3, <3>1
  <2>4. CASE t # s
    BY <1>12, <2>2, <2>4
  <2>5. CASE t = s
    <3>1. /\ Len(Sent(s)') = Len(Sent(s)) + 1 /\ Len(Sent(s)) \in Nat
          /\ Sent(s)'[Len(Sent(s)) + 1] = x
          /\ \A i \in 1..Len(Sent(s)) : Sent(s)'[i] = Sent(s)[i]
      BY <1>15, <2>1, <2>5, AppendProperties, LenProperties
    <3> QED BY <2>2, <2>3, <2>5, <3>1
  <2> QED BY <2>4, <2>5
<1>18. ASSUME NEW t \in Sub, cacher'[t] = "sending" PROVE Cached(t, Head(inCacher[t]))'
  <2>1. t # s /\ cacher[t] = "sending" /\ inCacher'[t] = inCacher[t]
    BY <1>8, <1>18
  <2>2. PICK y \in Update : y = Head(inCacher[t])
    BY <2>1, InHand
  <2>3. Cached(t, y)'
    BY <1>1, <1>16, <2>1, <2>2 DEF CacheInv
  <2> QED BY <2>1, <2>2, <2>3
<1>19. CacheInv'
  BY <1>17, <1>18 DEF CacheInv
<1> QED BY <1>10, <1>11, <1>14, <1>19 DEF StreamInv

LEMMA ExpireStep ==
  ASSUME StreamInv, NEW m \in Market, Expire(m) PROVE StreamInv'
<1>1. /\ StreamTypeOK /\ HandInv /\ SendInv /\ WayInv /\ CacheInv /\ RecordInv
      /\ Goroutines /\ Stores /\ Queues /\ Lengths
  BY TypesOfPipe DEF StreamInv
<1>2. UNCHANGED <<connVars, pipeVars, unsaved, faults>>
      /\ redis' = [redis EXCEPT ![m] = NoOdds]
  BY DEF Expire
<1>3. Goroutines' /\ Stores' /\ Queues' /\ Lengths'
  BY <1>1, <1>2 DEF Goroutines, Stores, Queues, Lengths, pipeVars
<1>4. StreamTypeOK' /\ RecordInv'
  BY <1>1, <1>2, <1>3, PipeTypes, RecordStill
<1>5. HandInv' /\ SendInv'
  BY <1>1, <1>2 DEF HandInv, SendInv, pipeVars
<1>6. WayStays /\ SentStays
  BY <1>2, Untouched DEF WayStays, SentStays, pipeVars
<1>7. \A k \in Market : redis'[k] \in {redis[k], NoOdds}
  BY <1>1, <1>2 DEF Stores
<1>8. WayInv' /\ CacheInv'
  BY <1>1, <1>2, <1>6, <1>7, WayStill, CacheStill
<1> QED BY <1>4, <1>5, <1>8 DEF StreamInv

LEMMA ConnectionStep ==
  ASSUME StreamInv,
         \/ \E c \in Conn : Accept(c) \/ Disconnect(c) \/ ReadFails(c) \/ PingFails(c) \/ Return(c)
         \/ CloseConnections
  PROVE  StreamInv'
<1>1. /\ StreamTypeOK /\ HandInv /\ SendInv /\ WayInv /\ CacheInv /\ RecordInv
      /\ Goroutines /\ Stores /\ Queues /\ Lengths
  BY TypesOfPipe DEF StreamInv
<1>2. UNCHANGED <<pipeVars, redisVars>>
  BY DEF Accept, Disconnect, ReadFails, PingFails, Return, CloseConnections
<1>3. StreamTypeOK' /\ RecordInv'
  BY <1>1, ConnectionTypes
<1>4. HandInv' /\ SendInv'
  BY <1>1, <1>2 DEF HandInv, SendInv, pipeVars
<1>5. WayStays /\ SentStays
  BY <1>2, Untouched DEF WayStays, SentStays, pipeVars
<1>6. WayInv' /\ CacheInv'
  BY <1>1, <1>2, <1>5, WayStill, CacheStill DEF redisVars
<1> QED BY <1>3, <1>4, <1>6 DEF StreamInv

LEMMA StreamNextInv == StreamInv /\ [StreamNext]_streamVars => StreamInv'
<1> SUFFICES ASSUME StreamInv, [StreamNext]_streamVars PROVE StreamInv'
  OBVIOUS
<1>1. ASSUME \/ \E c \in Conn : Accept(c) \/ Disconnect(c) \/ ReadFails(c) \/ PingFails(c) \/ Return(c)
             \/ CloseConnections
      PROVE  StreamInv'
  BY <1>1, ConnectionStep
<1>2. ASSUME NEW s \in Sub, StartSubscription(s) \/ Goroutine(s) \/ Write(s) \/ Leave(s)
      PROVE  StreamInv'
  BY <1>2, StartStep, TickerStep, ProviderStep, CacherReceiveStep, CacheStep, CacherSendStep,
     WriterReceiveStep, WriteStep, LeaveStep DEF Goroutine
<1>3. ASSUME NEW m \in Market, Expire(m) PROVE StreamInv'
  BY <1>3, ExpireStep
<1>4. ASSUME UNCHANGED streamVars PROVE StreamInv'
  <2>1. UNCHANGED <<connVars, pipeVars, redisVars>>
    BY <1>4 DEF streamVars
  <2>2. /\ StreamTypeOK /\ HandInv /\ SendInv /\ WayInv /\ CacheInv /\ RecordInv
        /\ Goroutines /\ Stores /\ Queues /\ Lengths
    BY TypesOfPipe DEF StreamInv
  <2>3. Goroutines' /\ Stores' /\ Queues' /\ Lengths' /\ HandInv' /\ SendInv'
    BY <2>1, <2>2 DEF Goroutines, Stores, Queues, Lengths, HandInv, SendInv, pipeVars, redisVars
  <2>4. WayStays /\ SentStays
    BY <2>1, Untouched DEF WayStays, SentStays, pipeVars
  <2>5. WayInv' /\ CacheInv'
    BY <2>1, <2>2, <2>4, WayStill, CacheStill DEF redisVars
  <2> QED BY <2>1, <2>2, <2>3, <2>5, PipeTypes, RecordStill DEF StreamInv
<1> QED BY <1>1, <1>2, <1>3, <1>4 DEF StreamNext

LEMMA StreamInvariance == StreamSpec => []StreamInv
BY StreamInitInv, StreamNextInv, PTL DEF StreamSpec

\* Every update the provider sent is with the client, in a channel or in a goroutine's
\* hand, in the order in which it was sent.
THEOREM UpdatesKept == StreamSpec => []NothingLostOnTheWay
<1>1. StreamInv => NothingLostOnTheWay
  BY DEF StreamInv, WayInv, NothingLostOnTheWay
<1> QED BY <1>1, StreamInvariance, PTL

\* The cache is no older than what a client of the same subscription was shown, unless a
\* SET failed.
THEOREM CacheFirst == StreamSpec => []CacheNotBehindClient
<1>1. ASSUME StreamInv PROVE CacheNotBehindClient
  <2>1. ASSUME NEW s \in Sub, NEW i \in DOMAIN delivered[s] PROVE Cached(s, delivered[s][i])
    <3> DEFINE a == delivered[s]
               b == inWriter[s]
               c == cached[s]
    <3>1. Queues /\ CacheInv
      BY <1>1, TypesOfPipe DEF StreamInv
    <3>2. a \in Seq(Update) /\ b \in Seq(Update) /\ c \in Seq(Update) /\ a \o b \in Seq(Update)
      BY <3>1, WayTyped DEF Queues
    <3>3. i \in 1..Len(a)
      BY <2>1, <3>2
    <3>4. Sent(s) = (a \o b) \o c
      BY DEF Sent
    <3> HIDE DEF a, b, c
    <3>5. /\ Len(a) \in Nat /\ Len(b) \in Nat /\ Len(c) \in Nat /\ Len(a \o b) = Len(a) + Len(b)
          /\ (a \o b)[i] = a[i]
      BY <3>2, <3>3, ConcatProperties, LenProperties
    <3>6. i \in 1..Len(a \o b)
      BY <3>3, <3>5
    <3>7. i \in 1..Len((a \o b) \o c) /\ ((a \o b) \o c)[i] = (a \o b)[i]
      BY <3>2, <3>5, <3>6, ConcatProperties
    <3>8. i \in 1..Len(Sent(s)) /\ Sent(s)[i] = a[i]
      BY <3>4, <3>5, <3>7
    <3> QED BY <3>1, <3>8 DEF CacheInv, a
  <2> QED BY <2>1 DEF CacheNotBehindClient, Cached
<1> QED BY <1>1, StreamInvariance, PTL

\* The connection on record for a user is still served.
THEOREM RecordServed == StreamSpec => []OnRecordIsServed
<1>1. StreamInv => OnRecordIsServed
  BY DEF StreamInv, RecordInv, OnRecordIsServed
<1> QED BY <1>1, StreamInvariance, PTL

-----------------------------------------------------------------------------

\* A list of outcomes in their order.
InOrder(list) == \A i, j \in DOMAIN list : i < j => Place(list[i]) < Place(list[j])

LEMMA PlaceIsNumber ==
  ASSUME NEW o \in Outcomes
  PROVE  Place(o) \in Nat
<1>1. DOMAIN Outcome = 1..Len(Outcome) /\ Len(Outcome) \in Nat
  BY RunnersAssumption
<1>2. \E i \in DOMAIN Outcome : Outcome[i] = o
  BY DEF Outcomes, Range
<1>3. Place(o) \in DOMAIN Outcome
  BY <1>2 DEF Place
<1> QED BY <1>1, <1>3

\* What stands at one place of a list in order stands at no other.
LEMMA InOrderOnce ==
  ASSUME NEW list \in Seq(Outcomes), InOrder(list), NEW i \in DOMAIN list,
         NEW j \in DOMAIN list, list[i] = list[j]
  PROVE  i = j
<1>1. list[i] \in Outcomes /\ i \in Nat /\ j \in Nat
  OBVIOUS
<1>2. Place(list[i]) \in Nat
  BY <1>1, PlaceIsNumber
<1> QED BY <1>1, <1>2 DEF InOrder

\* Where both have a place, lists in order of the same outcomes have the same outcome.
LEMMA InOrderAgree ==
  ASSUME NEW a \in Seq(Outcomes), NEW b \in Seq(Outcomes), InOrder(a), InOrder(b),
         Range(a) = Range(b)
  PROVE  \A i \in DOMAIN a \cap DOMAIN b : a[i] = b[i]
<1> DEFINE Apart == {i \in DOMAIN a \cap DOMAIN b : a[i] # b[i]}
<1> SUFFICES ASSUME Apart # {} PROVE FALSE
  OBVIOUS
<1>1. Apart \in SUBSET Nat
  OBVIOUS
<1>2. PICK i \in Apart : \A k \in Apart : i <= k
  <2> HIDE DEF Apart
  <2> QED BY <1>1, LeastNat
<1>3. \A k \in 1..Len(a) : k < i => k \in 1..Len(b) /\ a[k] = b[k]
  BY <1>2
<1>4. \A k \in 1..Len(b) : k < i => k \in 1..Len(a) /\ a[k] = b[k]
  BY <1>2
<1>5. /\ i \in 1..Len(a) /\ i \in 1..Len(b) /\ a[i] # b[i]
      /\ a[i] \in Outcomes /\ b[i] \in Outcomes
  BY <1>2
<1>6. Place(a[i]) \in Nat /\ Place(b[i]) \in Nat
  BY <1>5, PlaceIsNumber
<1>7. PICK j \in DOMAIN b : b[j] = a[i]
  BY <1>5 DEF Range
<1>8. PICK k \in DOMAIN a : a[k] = b[i]
  BY <1>5 DEF Range
<1>9. i < j
  <2>1. j # i /\ j \in 1..Len(b)
    BY <1>5, <1>7
  <2>2. CASE j < i
    <3>1. j \in DOMAIN a /\ a[j] = a[i] /\ i \in DOMAIN a
      BY <1>4, <1>5, <1>7, <2>1, <2>2
    <3>2. j = i
      BY <3>1, InOrderOnce
    <3> QED BY <2>1, <3>2
  <2> QED BY <1>5, <2>1, <2>2
<1>10. i < k
  <2>1. k # i /\ k \in 1..Len(a)
    BY <1>5, <1>8
  <2>2. CASE k < i
    <3>1. k \in DOMAIN b /\ b[k] = b[i] /\ i \in DOMAIN b
      BY <1>3, <1>5, <1>8, <2>1, <2>2
    <3>2. k = i
      BY <3>1, InOrderOnce
    <3> QED BY <2>1, <3>2
  <2> QED BY <1>5, <2>1, <2>2
<1>11. Place(b[i]) < Place(a[i])
  BY <1>5, <1>7, <1>9 DEF InOrder
<1>12. Place(a[i]) < Place(b[i])
  BY <1>5, <1>8, <1>10 DEF InOrder
<1> QED BY <1>6, <1>11, <1>12

LEMMA InOrderLonger ==
  ASSUME NEW a \in Seq(Outcomes), NEW b \in Seq(Outcomes), InOrder(a), InOrder(b),
         Range(a) = Range(b)
  PROVE  Len(b) <= Len(a)
<1> SUFFICES ASSUME Len(a) < Len(b) PROVE FALSE
  OBVIOUS
<1> DEFINE n == Len(b)
<1>1. n \in DOMAIN b /\ n \notin DOMAIN a /\ DOMAIN a \subseteq DOMAIN b
  OBVIOUS
<1>2. PICK k \in DOMAIN a : a[k] = b[n]
  BY <1>1 DEF Range
<1>3. k \in DOMAIN b /\ b[k] = b[n]
  BY <1>1, <1>2, InOrderAgree
<1>4. k = n
  BY <1>1, <1>3, InOrderOnce
<1> QED BY <1>1, <1>2, <1>4

\* There is one list in order of any outcomes.
LEMMA InOrderUnique ==
  ASSUME NEW a \in Seq(Outcomes), NEW b \in Seq(Outcomes), InOrder(a), InOrder(b),
         Range(a) = Range(b)
  PROVE  a = b
<1>1. Len(a) = Len(b)
  <2>1. Len(b) <= Len(a) /\ Len(a) <= Len(b)
    BY InOrderLonger
  <2> QED BY <2>1
<1>2. \A i \in 1..Len(a) : a[i] = b[i]
  BY <1>1, InOrderAgree
<1> QED BY <1>1, <1>2, SeqEqual

-----------------------------------------------------------------------------

\* Lists are in order everywhere; whoever read the outcomes there are has the list there
\* is; and a list that waits to be merged has an answer no change was counted for.
RunnersInv ==
  /\ BetKeepsRunner
  /\ shown \in [Client -> [list : Seq(Outcomes), at : Nat]]
  /\ InOrder(runners) /\ InOrder(processed)
  /\ processed # Nothing => changed < answers
  /\ \A c \in Client :
       /\ shown[c].at <= changed
       /\ shown[c].at = changed => shown[c].list = runners

LEMMA RunnersInitInv == RunnersInit => RunnersInv
<1> SUFFICES ASSUME RunnersInit PROVE RunnersInv
  OBVIOUS
<1>1. <<>> \in Seq(Outcomes) /\ DOMAIN <<>> = {}
  OBVIOUS
<1>2. InOrder(<<>>)
  BY <1>1 DEF InOrder
<1> QED
  BY <1>1, <1>2, RunnersAssumption
  DEF RunnersInit, RunnersInv, BetKeepsRunner, RunnersTypeOK, MeansWhatWasRead, Nothing

LEMMA ProcessOddsKeeps ==
  ASSUME RunnersInv, NEW answer \in Answers, ProcessOdds(answer)
  PROVE  RunnersInv'
<1>1. Priced(answer) \subseteq Outcomes
  BY DEF Answers, Priced
<1>2. IsFiniteSet(Outcomes)
  <2>1. IsFiniteSet(DOMAIN Outcome)
    <3>1. DOMAIN Outcome = 1..Len(Outcome) /\ Len(Outcome) \in Int /\ 1 \in Int
      BY RunnersAssumption
    <3> QED BY ONLY <3>1, FS_Interval
  <2>2. Outcome \in Surjection(DOMAIN Outcome, Outcomes)
    BY RunnersAssumption DEF Surjection, Outcomes, Range
  <2> QED BY <2>1, <2>2, FS_Surjection
<1>3. Cardinality(Priced(answer)) \in Nat
  BY <1>1, <1>2, FS_Subset, FS_CardinalityType
<1>4. processed' \in Seq(Outcomes) /\ InOrder(processed')
  <2> DEFINE n == Cardinality(Priced(answer))
  <2>1. n \in Nat /\ processed' \in [1..n -> Outcomes]
    BY <1>1, <1>3 DEF ProcessOdds, Sorted
  <2> HIDE DEF n
  <2>2. processed' \in Seq(Outcomes)
    BY <2>1
  <2>3. InOrder(processed')
    BY DEF ProcessOdds, Sorted, InOrder
  <2> QED BY <2>2, <2>3
<1>5. answers' \in 0..MaxAnswers /\ changed < answers' /\ changed \in 0..answers'
  BY RunnersAssumption DEF ProcessOdds, RunnersInv, BetKeepsRunner, RunnersTypeOK
<1>6. InOrder(processed)' /\ InOrder(runners)'
  BY <1>4 DEF InOrder, ProcessOdds, RunnersInv
<1>7. MeansWhatWasRead' 
  BY DEF ProcessOdds, RunnersInv, BetKeepsRunner, MeansWhatWasRead, Named
<1> QED
  BY <1>4, <1>5, <1>6, <1>7 DEF ProcessOdds, RunnersInv, BetKeepsRunner, RunnersTypeOK

LEMMA MergeKeeps ==
  ASSUME RunnersInv, MergeOddsIntoStore
  PROVE  RunnersInv'
<1> USE DEF RunnersInv, BetKeepsRunner, RunnersTypeOK
<1>1. runners' \in Seq(Outcomes) /\ processed' \in Seq(Outcomes)
  BY DEF MergeOddsIntoStore, Nothing
<1>2. InOrder(runners)' /\ InOrder(processed)'
  BY DEF MergeOddsIntoStore, InOrder, Nothing
<1>3. changed \in Nat /\ answers \in Nat
  BY RunnersAssumption
<1>4. CASE Range(processed) = Range(runners)
  <2>1. processed = runners
    BY <1>4, InOrderUnique
  <2>2. runners' = runners /\ changed' = changed
    BY <1>4, <2>1 DEF MergeOddsIntoStore
  <2>3. MeansWhatWasRead'
    BY <2>2 DEF MergeOddsIntoStore, MeansWhatWasRead, Named
  <2> QED BY <1>1, <1>2, <2>2, <2>3 DEF MergeOddsIntoStore
<1>5. CASE Range(processed) # Range(runners)
  <2>1. changed' = changed + 1 /\ UNCHANGED <<bets, shown, answers>>
    BY <1>5 DEF MergeOddsIntoStore
  <2>2. changed < answers
    BY DEF MergeOddsIntoStore
  <2>3. \A b \in bets : b.selection \in Nat /\ b.meant \in Outcomes /\ b.at \in 0..changed
    OBVIOUS
  <2>4. \A b \in bets : b.at # changed' /\ b.at \in 0..changed'
    BY <1>3, <2>1, <2>3
  <2>5. MeansWhatWasRead'
    BY <2>1, <2>4 DEF MeansWhatWasRead
  <2>6. \A c \in Client : shown[c].at \in Nat
    OBVIOUS
  <2>7. \A c \in Client : shown'[c].at <= changed' /\ shown'[c].at # changed'
    BY <1>3, <2>1, <2>6
  <2>8. processed' = Nothing /\ changed' \in 0..answers'
    BY <1>3, <2>1, <2>2 DEF MergeOddsIntoStore
  <2> QED BY <1>1, <1>2, <2>1, <2>3, <2>4, <2>5, <2>7, <2>8
<1> QED BY <1>4, <1>5

LEMMA GetOddsKeeps ==
  ASSUME RunnersInv, NEW c \in Client, GetOdds(c)
  PROVE  RunnersInv'
<1> DEFINE new == [list |-> runners, at |-> changed]
<1>1. changed \in Nat /\ runners \in Seq(Outcomes)
  BY RunnersAssumption DEF RunnersInv, BetKeepsRunner, RunnersTypeOK
<1>2. new \in [list : Seq(Outcomes), at : Nat] /\ new.list = runners /\ new.at = changed
  BY <1>1
<1>3. shown' = [shown EXCEPT ![c] = new]
  BY DEF GetOdds
<1> HIDE DEF new
<1>4. shown' \in [Client -> [list : Seq(Outcomes), at : Nat]]
  BY <1>2, <1>3 DEF RunnersInv
<1>5. \A d \in Client :
        /\ shown'[d].at <= changed
        /\ shown'[d].at = changed => shown'[d].list = runners
  BY <1>1, <1>2, <1>3 DEF RunnersInv
<1>6. UNCHANGED <<runners, processed, bets, answers, changed>>
  BY DEF GetOdds
<1>7. BetKeepsRunner'
  BY <1>6 DEF RunnersInv, BetKeepsRunner, RunnersTypeOK, MeansWhatWasRead, Named
<1> QED BY <1>4, <1>5, <1>6, <1>7 DEF RunnersInv, InOrder

\* A number names one runner of a list.
LEMMA NamesOne ==
  ASSUME runners \in Seq(Outcomes), NEW i \in DOMAIN runners
  PROVE  Named(SelectionId(i)) = {runners[i]}
<1>1. \A j \in DOMAIN runners : SelectionId(j) = SelectionId(i) => j = i
  BY DEF SelectionId, FirstSelection
<1> QED BY <1>1 DEF Named

LEMMA PlaceBetKeeps ==
  ASSUME RunnersInv, NEW c \in Client, NEW i \in 1..Len(Outcome), PlaceBet(c, i)
  PROVE  RunnersInv'
<1> DEFINE new == [selection |-> SelectionId(i), meant |-> shown[c].list[i], at |-> shown[c].at]
<1>1. /\ shown[c].list \in Seq(Outcomes) /\ shown[c].at \in Nat /\ shown[c].at <= changed
      /\ changed \in Nat /\ i \in DOMAIN shown[c].list
  BY RunnersAssumption DEF RunnersInv, BetKeepsRunner, RunnersTypeOK, PlaceBet
<1>2. new.selection \in Nat /\ new.meant \in Outcomes /\ new.at \in 0..changed
  BY <1>1 DEF SelectionId, FirstSelection
<1>3. new.at = changed => Named(new.selection) = {new.meant}
  BY <1>1, NamesOne DEF RunnersInv, BetKeepsRunner, RunnersTypeOK
<1>4. bets' = bets \cup {new} /\ UNCHANGED <<runners, processed, shown, answers, changed>>
  BY DEF PlaceBet
<1> HIDE DEF new
<1>5. RunnersTypeOK'
  BY <1>2, <1>4 DEF RunnersInv, BetKeepsRunner, RunnersTypeOK
<1>6. MeansWhatWasRead'
  <2> SUFFICES ASSUME NEW b \in bets', b.at = changed'
               PROVE  Named(b.selection)' = {b.meant}
    BY DEF MeansWhatWasRead
  <2>1. Named(b.selection)' = Named(b.selection)
    BY <1>4 DEF Named
  <2>2. b = new \/ b \in bets
    BY <1>4
  <2> QED BY <1>3, <1>4, <2>1, <2>2 DEF RunnersInv, BetKeepsRunner, MeansWhatWasRead
<1>7. InOrder(runners)' /\ InOrder(processed)'
  BY <1>4 DEF RunnersInv, InOrder
<1>8. /\ shown' = shown /\ changed' = changed /\ runners' = runners /\ processed' = processed
      /\ answers' = answers
  BY <1>4
<1> QED BY <1>5, <1>6, <1>7, <1>8 DEF RunnersInv, BetKeepsRunner

LEMMA RunnersStepKeeps == RunnersInv /\ [RunnersNext]_runnerVars => RunnersInv'
<1> SUFFICES ASSUME RunnersInv, [RunnersNext]_runnerVars PROVE RunnersInv'
  OBVIOUS
<1>1. CASE UNCHANGED runnerVars
  BY <1>1 DEF runnerVars, RunnersInv, BetKeepsRunner, RunnersTypeOK, MeansWhatWasRead, Named,
              InOrder
<1> QED
  BY <1>1, ProcessOddsKeeps, MergeKeeps, GetOddsKeeps, PlaceBetKeeps DEF RunnersNext

\* As long as the same outcomes are priced a bet stays on the runner its client read: the
\* names sorted, there is one list of them (odds_api.go).
THEOREM RunnersKept == RunnersSpec => []BetKeepsRunner
<1>1. RunnersInv => BetKeepsRunner
  BY DEF RunnersInv
<1> QED BY <1>1, RunnersInitInv, RunnersStepKeeps, PTL DEF RunnersSpec

=============================================================================
