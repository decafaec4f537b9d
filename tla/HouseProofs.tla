------------------------------ MODULE HouseProofs ------------------------------
(***************************************************************************)
(* Proofs about House, for all users, markets, quotes, requests and        *)
(* goroutines, in three layers, each resting on the one before.            *)
(*                                                                         *)
(* Inv says what a request in the middle of its handler may rely on: until *)
(* the odds are checked it carries the price its client asked for, from    *)
(* then on one within the allowed drift of it, however the feeds have      *)
(* moved since (PriceInv); and the row it is about to hold money for is on *)
(* record (RowInv).                                                        *)
(*                                                                         *)
(* HeldInv says whose money is held for what: a row that a request has yet *)
(* to hold money for holds none, and no other request will hold for it.    *)
(*                                                                         *)
(* BookInv says what the books rest on: an open bet has paid nothing yet,  *)
(* and there is no money, no bet and no request of a user who is not yet.  *)
(***************************************************************************)
EXTENDS House, SumTheorems, SequenceTheorems

Stage == BetSteps \cup WithdrawSteps
Serving == [at : Stage, r : Requests, price : Price \cup {0}, row : Nat]
Checked == {"money", "limit", "ref", "place"}
Asked == {"account", "market", "odds"}

TypeInv ==
  /\ req \in [Proc -> RequestState]
  /\ best \in [Market -> Quote]
  /\ bets \in Seq(Bet)
  /\ payments \in Seq(Payment)

PriceInv ==
  \A p \in Proc :
    /\ req[p].at \in Asked => req[p].r.op = "bet" /\ req[p].price = req[p].r.price
    /\ req[p].at \in Checked =>
         req[p].r.op = "bet"
         /\ Distance(req[p].r.price, req[p].price) <= AllowedDrift(req[p].r.market)
    /\ req[p].at \in Checked \cup {"hold"} /\ req[p].r.op = "bet" => req[p].price \in Price

RowInv ==
  \A p \in Proc :
    /\ req[p].at \in {"withdrawal", "payment"} => req[p].r.op = "withdraw"
    /\ req[p].at = "hold" /\ req[p].r.op = "bet" => req[p].row \in 1..Len(bets)
    /\ req[p].at = "hold" /\ req[p].r.op # "bet" => req[p].row \in 1..Len(payments)

Inv == TypeInv /\ PriceInv /\ RowInv /\ PricedAsAsked

-----------------------------------------------------------------------------
\* Requests and bets, and what a step may make of one.

\* The request a goroutine is serving, and its fields.
LEMMA RequestFields ==
  ASSUME TypeInv, NEW p \in Proc, req[p].at # "idle"
  PROVE  /\ req[p] \in Serving /\ req[p].r \in Requests
         /\ req[p].r.op = "bet" => req[p].r \in BetRequest
         /\ req[p].r.op # "bet" => req[p].r \in WithdrawRequest /\ req[p].r.op = "withdraw"
<1>1. req[p] \in RequestState
  BY DEF TypeInv
<1>2. req[p] # NoRequest
  BY DEF NoRequest
<1>3. req[p] \in Serving
  BY <1>1, <1>2 DEF RequestState, Serving, Stage
<1>4. req[p].r \in Requests
  BY <1>3 DEF Serving
<1>5. req[p].r.op = "bet" => req[p].r \in BetRequest
  BY <1>4, HouseAssumption DEF WithdrawRequest
<1>6. req[p].r.op # "bet" => req[p].r \in WithdrawRequest /\ req[p].r.op = "withdraw"
  BY <1>4, HouseAssumption DEF WithdrawRequest, BetRequest
<1> QED BY <1>3, <1>4, <1>5, <1>6

WithRow(x, n) == [x EXCEPT !.at = "hold", !.row = n]
WithPrice(x, n) == [x EXCEPT !.at = "money", !.price = n]
WithStep(x, step) == [x EXCEPT !.at = step]

\* A request about to hold money for a row keeps its shape.
LEMMA RowTaken ==
  ASSUME NEW x \in Serving, NEW n \in Nat
  PROVE  /\ WithRow(x, n) \in Serving /\ WithRow(x, n).at = "hold"
         /\ WithRow(x, n).row = n
         /\ WithRow(x, n).r = x.r /\ WithRow(x, n).price = x.price
<1>1. "hold" \in Stage
  BY DEF Stage, BetSteps
<1> QED BY <1>1 DEF WithRow, Serving

\* So does one whose odds are checked,
LEMMA PriceTaken ==
  ASSUME NEW x \in Serving, NEW n \in Price
  PROVE  /\ WithPrice(x, n) \in Serving /\ WithPrice(x, n).at = "money"
         /\ WithPrice(x, n).price = n /\ WithPrice(x, n).r = x.r
<1>1. "money" \in Stage
  BY DEF Stage, BetSteps
<1> QED BY <1>1 DEF WithPrice, Serving

\* and one that passes another check.
LEMMA StepTaken ==
  ASSUME NEW x \in Serving, NEW step \in Stage
  PROVE  /\ WithStep(x, step) \in Serving /\ WithStep(x, step).at = step
         /\ WithStep(x, step).r = x.r /\ WithStep(x, step).price = x.price
         /\ WithStep(x, step).row = x.row
BY DEF WithStep, Serving

SameTerms(d, b) ==
  /\ d.user = b.user /\ d.market = b.market /\ d.side = b.side
  /\ d.price = b.price /\ d.asked = b.asked /\ d.stake = b.stake

Settled(b, n) == [b EXCEPT !.status = "settled", !.profit = n]
Voided(b) == [b EXCEPT !.status = "void"]
CashedOut(b, n) == [b EXCEPT !.status = "settled", !.cashed = TRUE, !.profit = n]
WithHold(b, h) == [b EXCEPT !.hold = h]

\* A settled bet: what settling makes of a bet.
LEMMA SettledBet ==
  ASSUME NEW b \in Bet, NEW n \in Int
  PROVE  /\ Settled(b, n) \in Bet /\ SameTerms(Settled(b, n), b)
         /\ Settled(b, n).status = "settled" /\ Settled(b, n).profit = n
         /\ Settled(b, n).cashed = b.cashed /\ Settled(b, n).hold = b.hold
BY DEF SameTerms, Bet, Settled

\* A bet that is cashed out.
LEMMA CashedOutBet ==
  ASSUME NEW b \in Bet, NEW n \in Int
  PROVE  /\ CashedOut(b, n) \in Bet /\ SameTerms(CashedOut(b, n), b)
         /\ CashedOut(b, n).status = "settled" /\ CashedOut(b, n).profit = n
         /\ CashedOut(b, n).cashed = TRUE /\ CashedOut(b, n).hold = b.hold
BY DEF SameTerms, Bet, CashedOut

\* A bet that is void.
LEMMA VoidedBet ==
  ASSUME NEW b \in Bet
  PROVE  /\ Voided(b) \in Bet /\ SameTerms(Voided(b), b) /\ Voided(b).status = "void"
         /\ Voided(b).profit = b.profit /\ Voided(b).cashed = b.cashed
         /\ Voided(b).hold = b.hold
BY DEF SameTerms, Bet, Voided

\* A bet that money is held for.
LEMMA HeldBet ==
  ASSUME NEW b \in Bet, NEW h \in Int
  PROVE  /\ h \in Nat => WithHold(b, h) \in Bet
         /\ SameTerms(WithHold(b, h), b)
         /\ WithHold(b, h).status = b.status /\ WithHold(b, h).hold = h
         /\ WithHold(b, h).profit = b.profit /\ WithHold(b, h).cashed = b.cashed
BY DEF SameTerms, Bet, WithHold

-----------------------------------------------------------------------------
\* Amounts.

\* A price is above 1, so nothing that is held is negative.
LEMMA GainType ==
  ASSUME NEW stake \in Nat, NEW price \in Price
  PROVE  Gain(stake, price) \in Nat
<1>1. price - 100 \in Nat
  BY DEF Price
<1>2. \A i, j \in Nat : i * j \in Nat
  OBVIOUS
<1>3. PICK n \in Nat : n = stake * (price - 100)
  BY <1>1, <1>2
<1>4. n \div 100 \in Nat
  OBVIOUS
<1> QED BY <1>3, <1>4 DEF Gain

\* What a bet may hold, win, lose, cost and be cashed out for.
LEMMA AmountTypes ==
  ASSUME NEW b \in Bet, NEW winner
  PROVE  /\ Liability(b.side, b.stake, b.price) \in Nat
         /\ Pnl(b, winner) \in Int
         /\ Fee(Pnl(b, winner)) \in Nat
         /\ Cashout(b) \in Int
<1>1. b.stake \in Nat /\ b.price \in Price
  BY DEF Bet
<1>2. PICK g \in Nat : g = Gain(b.stake, b.price)
  BY <1>1, GainType
<1>3. Liability(b.side, b.stake, b.price) \in Nat /\ Pnl(b, winner) \in Int
  BY <1>1, <1>2 DEF Liability, Pnl
<1>4. PICK n \in Int : n = Pnl(b, winner)
  BY <1>3
<1>5. Fee(n) \in Nat
  <2>1. CommissionRate \in Nat
    BY HouseAssumption
  <2>2. \A i, j \in Nat : i * j \in Nat
    OBVIOUS
  <2>3. CASE n > 0
    <3>1. PICK k \in Nat : k = n * CommissionRate
      BY <2>1, <2>2, <2>3
    <3>2. k \div 100 \in Nat
      OBVIOUS
    <3> QED BY <2>3, <3>1, <3>2 DEF Fee
  <2> QED BY <2>3 DEF Fee
<1>6. Cashout(b) \in Int
  <2>1. (g * 90) \div 100 \in Int /\ (b.stake * 95) \div 100 \in Int
    BY <1>1
  <2> QED BY <1>2, <2>1 DEF Cashout
<1> QED BY <1>3, <1>4, <1>5, <1>6

\* A request about to hold money is a user's; only a withdrawal may be negative.
LEMMA ToHoldType ==
  ASSUME Inv, NEW p \in Proc, req[p].at = "hold"
  PROVE  /\ ToHold(p) \in Int /\ req[p].r.user \in User
         /\ req[p].r.op = "bet" => ToHold(p) \in Nat
<1>1. CASE req[p].r.op = "bet"
  <2>1. req[p].r \in BetRequest /\ req[p].price \in Price
    BY <1>1, RequestFields DEF Inv, PriceInv
  <2>2. Gain(req[p].r.stake, req[p].price) \in Nat
    BY <2>1, GainType DEF BetRequest
  <2> QED BY <1>1, <2>1, <2>2 DEF ToHold, HoldAmount, Liability, BetRequest
<1>2. CASE req[p].r.op # "bet"
  <2>1. req[p].r \in WithdrawRequest
    BY <1>2, RequestFields DEF Inv
  <2> QED BY <1>2, <2>1 DEF ToHold, WithdrawRequest
<1> QED BY <1>1, <1>2

-----------------------------------------------------------------------------
\* Sequences of rows.

\* A row more.
LEMMA AppendFacts ==
  ASSUME NEW S, NEW s \in Seq(S), NEW e \in S, NEW t, t = Append(s, e)
  PROVE  /\ t \in Seq(S) /\ Len(s) \in Nat /\ Len(t) = Len(s) + 1
         /\ DOMAIN s = 1..Len(s) /\ DOMAIN t = 1..(Len(s) + 1)
         /\ t[Len(s) + 1] = e /\ \A i \in 1..Len(s) : t[i] = s[i]
BY AppendProperties

\* Another row in the place of one.
LEMMA ReplaceFacts ==
  ASSUME NEW S, NEW s \in Seq(S), NEW i \in 1..Len(s), NEW e \in S,
         NEW t, t = [s EXCEPT ![i] = e]
  PROVE  /\ t \in Seq(S) /\ Len(s) \in Nat /\ Len(t) = Len(s)
         /\ DOMAIN s = 1..Len(s) /\ DOMAIN t = 1..Len(s)
         /\ \A j \in 1..Len(s) : t[j] = IF j = i THEN e ELSE s[j]
OBVIOUS

\* Rows for the rows.
LEMMA MapFacts ==
  ASSUME NEW S, NEW s \in Seq(S), NEW t, t = [i \in DOMAIN s |-> t[i]],
         \A i \in 1..Len(s) : t[i] \in S
  PROVE  /\ t \in Seq(S) /\ Len(s) \in Nat /\ Len(t) = Len(s)
         /\ DOMAIN s = 1..Len(s) /\ DOMAIN t = 1..Len(s)
<1>1. DOMAIN s = 1..Len(s) /\ Len(s) \in Nat
  OBVIOUS
<1>2. t \in [1..Len(s) -> S]
  BY <1>1
<1> QED BY <1>1, <1>2

\* The rows of bets and payments are numbered from one.
LEMMA Rows ==
  ASSUME TypeInv
  PROVE  /\ DOMAIN bets = 1..Len(bets) /\ Len(bets) \in Nat
         /\ \A i \in 1..Len(bets) : bets[i] \in Bet
         /\ DOMAIN payments = 1..Len(payments) /\ Len(payments) \in Nat
         /\ \A i \in 1..Len(payments) : payments[i] \in Payment
BY ElementOfSeq DEF TypeInv

-----------------------------------------------------------------------------
\* What the steps do to bets, payments and requests.

\* The bet a request places.
NewBet(p) ==
  [user |-> req[p].r.user, market |-> req[p].r.market, selection |-> req[p].r.selection,
   side |-> req[p].r.side, price |-> req[p].price, asked |-> req[p].r.price,
   stake |-> req[p].r.stake, ref |-> req[p].r.ref,
   status |-> "matched", cashed |-> FALSE, profit |-> 0, hold |-> 0]

\* PlaceAndMatch puts a bet behind those there are.
LEMMA PlaceEffect ==
  ASSUME Inv, NEW p \in Proc, Place(p)
  PROVE  /\ req[p].at = "place" /\ req[p] \in Serving /\ req[p].r \in BetRequest
         /\ bets' \in Seq(Bet) /\ Len(bets') = Len(bets) + 1
         /\ DOMAIN bets' = 1..(Len(bets) + 1)
         /\ \A i \in 1..Len(bets) : bets'[i] = bets[i]
         /\ bets'[Len(bets) + 1] = NewBet(p) /\ NewBet(p) \in Bet
         /\ req'[p].at = "hold" /\ req'[p].row = Len(bets) + 1
         /\ req'[p].r = req[p].r /\ req'[p].price = req[p].price
         /\ \A q \in Proc \ {p} : req'[q] = req[q]
         /\ req' \in [Proc -> RequestState]
<1>1. req[p].at = "place" /\ bets' = Append(bets, NewBet(p))
      /\ req' = [req EXCEPT ![p].at = "hold", ![p].row = Len(bets) + 1]
  BY DEF Place, At, NewBet
<1>2. req[p].r.op = "bet" /\ req[p].price \in Price
  BY <1>1 DEF Inv, PriceInv, Checked
<1>3. req[p] \in Serving /\ req[p].r \in BetRequest
  BY <1>1, <1>2, RequestFields DEF Inv
<1>4. NewBet(p) \in Bet
  BY <1>2, <1>3 DEF NewBet, Bet, BetRequest
<1>5. /\ req'[p] = WithRow(req[p], Len(bets) + 1) /\ \A q \in Proc \ {p} : req'[q] = req[q]
      /\ DOMAIN req' = Proc /\ req' = [q \in Proc |-> req'[q]]
  BY <1>1 DEF Inv, TypeInv, WithRow
<1>6. bets \in Seq(Bet) /\ Len(bets) + 1 \in Nat
  BY DEF Inv, TypeInv
<1>7. /\ req'[p].at = "hold" /\ req'[p].row = Len(bets) + 1
      /\ req'[p].r = req[p].r /\ req'[p].price = req[p].price
      /\ req'[p] \in Serving
  <2>1. PICK n \in Nat : n = Len(bets) + 1
    BY <1>6
  <2>2. /\ WithRow(req[p], n).at = "hold" /\ WithRow(req[p], n).row = n
        /\ WithRow(req[p], n).r = req[p].r /\ WithRow(req[p], n).price = req[p].price
        /\ WithRow(req[p], n) \in Serving
    BY ONLY <1>3, RowTaken
  <2> QED BY <1>5, <2>1, <2>2
<1>8. req' \in [Proc -> RequestState]
  BY <1>5, <1>7 DEF Inv, TypeInv, Serving, RequestState, Stage
<1> QED BY <1>1, <1>3, <1>4, <1>5, <1>6, <1>7, <1>8, AppendFacts

\* CreatePaymentTx puts a withdrawal behind those there are.
LEMMA PaymentEffect ==
  ASSUME Inv, NEW p \in Proc, CreatePaymentTx(p)
  PROVE  /\ req[p].at = "payment" /\ req[p] \in Serving
         /\ req[p].r \in WithdrawRequest /\ req[p].r.op = "withdraw"
         /\ payments' \in Seq(Payment) /\ Len(payments') = Len(payments) + 1
         /\ DOMAIN payments' = 1..(Len(payments) + 1)
         /\ \A i \in 1..Len(payments) : payments'[i] = payments[i]
         /\ payments'[Len(payments) + 1].user = req[p].r.user
         /\ payments'[Len(payments) + 1].hold = 0
         /\ req'[p].at = "hold" /\ req'[p].row = Len(payments) + 1
         /\ req'[p].r = req[p].r
         /\ \A q \in Proc \ {p} : req'[q] = req[q]
         /\ req' \in [Proc -> RequestState]
<1> DEFINE payment == [user |-> req[p].r.user, amount |-> req[p].r.amount, hold |-> 0]
<1>1. req[p].at = "payment" /\ payments' = Append(payments, payment)
      /\ req' = [req EXCEPT ![p].at = "hold", ![p].row = Len(payments) + 1]
  BY DEF CreatePaymentTx, At
<1>2. req[p].r.op = "withdraw" /\ req[p].r.op # "bet"
  BY <1>1 DEF Inv, RowInv
<1>3. req[p] \in Serving /\ req[p].r \in WithdrawRequest
  BY <1>1, <1>2, RequestFields DEF Inv
<1>4. payment \in Payment /\ payment.user = req[p].r.user /\ payment.hold = 0
  BY <1>3 DEF Payment, WithdrawRequest
<1>5. /\ req'[p] = WithRow(req[p], Len(payments) + 1) /\ \A q \in Proc \ {p} : req'[q] = req[q]
      /\ DOMAIN req' = Proc /\ req' = [q \in Proc |-> req'[q]]
  BY <1>1 DEF Inv, TypeInv, WithRow
<1>6. payments \in Seq(Payment) /\ Len(payments) + 1 \in Nat
  BY DEF Inv, TypeInv
<1>7. /\ req'[p].at = "hold" /\ req'[p].row = Len(payments) + 1
      /\ req'[p].r = req[p].r /\ req'[p].price = req[p].price
      /\ req'[p] \in Serving
  <2>1. PICK n \in Nat : n = Len(payments) + 1
    BY <1>6
  <2>2. /\ WithRow(req[p], n).at = "hold" /\ WithRow(req[p], n).row = n
        /\ WithRow(req[p], n).r = req[p].r /\ WithRow(req[p], n).price = req[p].price
        /\ WithRow(req[p], n) \in Serving
    BY ONLY <1>3, RowTaken
  <2> QED BY <1>5, <2>1, <2>2
<1>8. req' \in [Proc -> RequestState]
  BY <1>5, <1>7 DEF Inv, TypeInv, Serving, RequestState, Stage
<1> HIDE DEF payment
<1> QED BY <1>1, <1>2, <1>3, <1>4, <1>5, <1>6, <1>7, <1>8, AppendFacts

\* HoldFunds adds to the exposure of the request's user and notes the hold on the row.
LEMMA HoldEffect ==
  ASSUME Inv, NEW p \in Proc, Hold(p)
  PROVE  /\ req[p].at = "hold" /\ req' = [req EXCEPT ![p] = NoRequest]
         /\ req[p].r.user \in Known /\ Available(req[p].r.user) >= ToHold(p)
         /\ ToHold(p) \in Int
         /\ exposure' = [exposure EXCEPT ![req[p].r.user] = @ + ToHold(p)]
         /\ bets' \in Seq(Bet) /\ Len(bets') = Len(bets) /\ DOMAIN bets' = 1..Len(bets)
         /\ payments' \in Seq(Payment) /\ Len(payments') = Len(payments)
         /\ DOMAIN payments' = 1..Len(payments)
         /\ IF req[p].r.op = "bet"
            THEN /\ payments' = payments
                 /\ \A j \in 1..Len(bets) :
                      bets'[j] = IF j = req[p].row THEN WithHold(bets[j], ToHold(p))
                                 ELSE bets[j]
                 /\ drifted' = IF bets[req[p].row].status # "matched"
                               THEN drifted \cup {req[p].r.user} ELSE drifted
            ELSE /\ bets' = bets /\ drifted' = drifted
                 /\ \A j \in 1..Len(payments) :
                      /\ payments'[j].user = payments[j].user
                      /\ payments'[j].hold = IF j = req[p].row THEN ToHold(p)
                                             ELSE payments[j].hold
<1> DEFINE u == req[p].r.user
           i == req[p].row
<1>0. TypeInv
  BY DEF Inv
<1>1. req[p].at = "hold" /\ req' = [req EXCEPT ![p] = NoRequest]
      /\ u \in Known /\ Available(u) >= ToHold(p)
      /\ exposure' = [exposure EXCEPT ![u] = @ + ToHold(p)]
  BY DEF Hold, At, Holdable
<1>2. PICK h \in Int : h = ToHold(p) /\ (req[p].r.op = "bet" => h \in Nat)
  BY <1>1, ToHoldType
<1>3. CASE req[p].r.op = "bet"
  <2>1. /\ bets' = [bets EXCEPT ![i].hold = h] /\ payments' = payments
        /\ drifted' = IF bets[i].status # "matched" THEN drifted \cup {u} ELSE drifted
    BY <1>2, <1>3 DEF Hold
  <2>2. i \in 1..Len(bets)
    BY <1>1, <1>3 DEF Inv, RowInv
  <2>3. bets[i] \in Bet /\ bets \in Seq(Bet)
    BY <1>0, <2>2, Rows DEF TypeInv
  <2>4. WithHold(bets[i], h) \in Bet
    BY <1>2, <1>3, <2>3, HeldBet
  <2>5. bets' = [bets EXCEPT ![i] = WithHold(bets[i], h)]
    BY <2>1 DEF WithHold
  <2>6. /\ bets' \in Seq(Bet) /\ Len(bets') = Len(bets) /\ DOMAIN bets' = 1..Len(bets)
        /\ \A j \in 1..Len(bets) : bets'[j] = IF j = i THEN WithHold(bets[i], h) ELSE bets[j]
    BY <2>2, <2>3, <2>4, <2>5, ReplaceFacts
  <2> QED BY <1>0, <1>1, <1>2, <1>3, <2>1, <2>6, Rows DEF TypeInv
<1>4. CASE req[p].r.op # "bet"
  <2>1. /\ payments' = [payments EXCEPT ![i].hold = h]
        /\ bets' = bets /\ drifted' = drifted
    BY <1>2, <1>4 DEF Hold
  <2>2. i \in 1..Len(payments)
    BY <1>1, <1>4 DEF Inv, RowInv
  <2>3. payments[i] \in Payment /\ payments \in Seq(Payment)
    BY <1>0, <2>2, Rows DEF TypeInv
  <2>4. PICK e \in Payment : e = [payments[i] EXCEPT !.hold = h]
    BY <2>3 DEF Payment
  <2>5. e.user = payments[i].user /\ e.hold = h
    BY <2>3, <2>4 DEF Payment
  <2>6. payments' = [payments EXCEPT ![i] = e]
    BY <2>1, <2>4
  <2>7. /\ payments' \in Seq(Payment) /\ Len(payments') = Len(payments)
        /\ DOMAIN payments' = 1..Len(payments)
        /\ \A j \in 1..Len(payments) : payments'[j] = IF j = i THEN e ELSE payments[j]
    BY <2>2, <2>3, <2>6, ReplaceFacts
  <2> QED BY <1>0, <1>1, <1>2, <1>4, <2>1, <2>5, <2>7, Rows DEF TypeInv
<1> QED BY <1>3, <1>4

\* Bets are closed while they are open, on the terms they were placed on.
Closes(closing) ==
  /\ bets' \in Seq(Bet) /\ Len(bets') = Len(bets) /\ DOMAIN bets' = 1..Len(bets)
  /\ closing \subseteq 1..Len(bets)
  /\ \A i \in 1..Len(bets) \ closing : bets'[i] = bets[i]
  /\ \A i \in closing :
       /\ bets[i].status = "matched" /\ bets'[i].status # "matched"
       /\ SameTerms(bets'[i], bets[i]) /\ bets'[i].hold = bets[i].hold

\* Settling closes the open bets of the market, each at its profit or loss.
LEMMA SettleEffect ==
  ASSUME TypeInv, NEW m \in Market, NEW winner \in Selection, SettleMarket(m, winner)
  PROVE  /\ Closes(OpenOn(m))
         /\ \A i \in OpenOn(m) : /\ bets'[i].profit = Pnl(bets[i], winner)
                                 /\ bets'[i].cashed = bets[i].cashed
<1> DEFINE closing == OpenOn(m)
<1>1. /\ DOMAIN bets = 1..Len(bets) /\ closing \subseteq 1..Len(bets)
      /\ \A i \in 1..Len(bets) : bets[i] \in Bet
      /\ \A i \in closing : bets[i].status = "matched"
  BY Rows DEF OpenOn
<1>2. bets' = [i \in DOMAIN bets |-> IF i \in closing
                 THEN [bets[i] EXCEPT !.status = "settled", !.profit = Pnl(bets[i], winner)]
                 ELSE bets[i]]
  BY DEF SettleMarket
<1>3. ASSUME NEW i \in closing
      PROVE  /\ bets'[i] \in Bet /\ bets'[i].status # "matched"
             /\ SameTerms(bets'[i], bets[i]) /\ bets'[i].hold = bets[i].hold
             /\ bets'[i].profit = Pnl(bets[i], winner) /\ bets'[i].cashed = bets[i].cashed
  <2>1. PICK n \in Int : n = Pnl(bets[i], winner)
    BY <1>1, AmountTypes
  <2>2. bets'[i] = Settled(bets[i], n)
    BY <1>1, <1>2, <2>1 DEF Settled
  <2>3. bets[i] \in Bet
    BY <1>1
  <2>4. /\ Settled(bets[i], n) \in Bet /\ SameTerms(Settled(bets[i], n), bets[i])
        /\ Settled(bets[i], n).status = "settled" /\ Settled(bets[i], n).profit = n
        /\ Settled(bets[i], n).cashed = bets[i].cashed
        /\ Settled(bets[i], n).hold = bets[i].hold
    BY <2>3, SettledBet
  <2> HIDE DEF closing
  <2> QED BY <2>1, <2>2, <2>4
<1>4. \A i \in 1..Len(bets) \ closing : bets'[i] = bets[i]
  BY <1>1, <1>2
<1>5. bets' = [i \in DOMAIN bets |-> bets'[i]]
  BY <1>2
<1>6. /\ bets' \in Seq(Bet) /\ Len(bets') = Len(bets) /\ DOMAIN bets' = 1..Len(bets)
  <2>1. bets \in Seq(Bet) /\ \A i \in 1..Len(bets) : bets'[i] \in Bet
    BY <1>1, <1>3, <1>4 DEF TypeInv
  <2> QED BY <1>5, <2>1, MapFacts
<1> QED BY <1>1, <1>3, <1>4, <1>6 DEF Closes

\* Voiding closes them too, and pays nothing.
LEMMA VoidEffect ==
  ASSUME TypeInv, NEW m \in Market, VoidMarket(m)
  PROVE  /\ Closes(OpenOn(m))
         /\ \A i \in OpenOn(m) : /\ bets'[i].profit = bets[i].profit
                                 /\ bets'[i].cashed = bets[i].cashed
<1> DEFINE closing == OpenOn(m)
<1>1. /\ DOMAIN bets = 1..Len(bets) /\ closing \subseteq 1..Len(bets)
      /\ \A i \in 1..Len(bets) : bets[i] \in Bet
      /\ \A i \in closing : bets[i].status = "matched"
  BY Rows DEF OpenOn
<1>2. bets' = [i \in DOMAIN bets |->
                 IF i \in closing THEN [bets[i] EXCEPT !.status = "void"] ELSE bets[i]]
  BY DEF VoidMarket
<1>3. ASSUME NEW i \in closing
      PROVE  /\ bets'[i] \in Bet /\ bets'[i].status # "matched"
             /\ SameTerms(bets'[i], bets[i]) /\ bets'[i].hold = bets[i].hold
             /\ bets'[i].profit = bets[i].profit /\ bets'[i].cashed = bets[i].cashed
  <2>1. bets'[i] = Voided(bets[i]) /\ bets[i] \in Bet
    BY <1>1, <1>2 DEF Voided
  <2> QED BY <2>1, VoidedBet
<1>4. \A i \in 1..Len(bets) \ closing : bets'[i] = bets[i]
  BY <1>1, <1>2
<1>5. bets' = [i \in DOMAIN bets |-> bets'[i]]
  BY <1>2
<1>6. /\ bets' \in Seq(Bet) /\ Len(bets') = Len(bets) /\ DOMAIN bets' = 1..Len(bets)
  <2>1. bets \in Seq(Bet) /\ \A i \in 1..Len(bets) : bets'[i] \in Bet
    BY <1>1, <1>3, <1>4 DEF TypeInv
  <2> QED BY <1>5, <2>1, MapFacts
<1> QED BY <1>1, <1>3, <1>4, <1>6 DEF Closes

\* Cashing out closes one bet.
LEMMA CashoutEffect ==
  ASSUME TypeInv, NEW i \in DOMAIN bets, CashoutAccept(i)
  PROVE  /\ Closes({i}) /\ bets[i] \in Bet /\ bets'[i].cashed = TRUE
         /\ bets'[i].profit = Cashout(bets[i]) /\ Cashout(bets[i]) \in Int
<1>1. i \in 1..Len(bets) /\ bets[i] \in Bet /\ bets \in Seq(Bet)
  BY Rows DEF TypeInv
<1>2. PICK n \in Int : n = Cashout(bets[i])
  BY <1>1, AmountTypes
<1>3. bets[i].status = "matched"
      /\ bets' = [bets EXCEPT ![i].status = "settled", ![i].cashed = TRUE, ![i].profit = n]
  BY <1>2 DEF CashoutAccept
<1>4. bets' = [bets EXCEPT ![i] = CashedOut(bets[i], n)]
  BY <1>3 DEF CashedOut
<1>5. PICK d : d = CashedOut(bets[i], n)
  OBVIOUS
<1>6. /\ d \in Bet /\ SameTerms(d, bets[i]) /\ d.status = "settled" /\ d.profit = n
      /\ d.cashed = TRUE /\ d.hold = bets[i].hold
  BY <1>1, <1>5, CashedOutBet
<1>7. /\ bets' \in Seq(Bet) /\ Len(bets') = Len(bets) /\ DOMAIN bets' = 1..Len(bets)
      /\ \A j \in 1..Len(bets) : bets'[j] = IF j = i THEN d ELSE bets[j]
  <2>1. bets' = [bets EXCEPT ![i] = d]
    BY <1>4, <1>5
  <2> QED BY <1>1, <1>6, <2>1, ReplaceFacts
<1>8. bets'[i] = d /\ \A j \in 1..Len(bets) \ {i} : bets'[j] = bets[j]
  BY <1>1, <1>7
<1>9. Closes({i})
  BY <1>1, <1>3, <1>6, <1>7, <1>8 DEF Closes
<1> QED BY <1>1, <1>2, <1>6, <1>8, <1>9

-----------------------------------------------------------------------------
\* The first layer.  What no step may do to a bet that is closed:
Final ==
  \A i \in DOMAIN bets : bets[i].status # "matched" =>
    bets'[i].status = bets[i].status /\ bets'[i].profit = bets[i].profit

\* The invariant says nothing of a bet's status, profit and hold.
LEMMA RowsFrame ==
  ASSUME Inv, req' \in [Proc -> RequestState],
         \A q \in Proc : req'[q] = req[q] \/ req'[q] = NoRequest,
         best' \in [Market -> Quote],
         payments' \in Seq(Payment), Len(payments') = Len(payments),
         bets' \in Seq(Bet), Len(bets') = Len(bets),
         \A i \in 1..Len(bets) : SameTerms(bets'[i], bets[i])
  PROVE  Inv'
<1> USE DEF Inv
<1>1. TypeInv'
  BY DEF TypeInv
<1>2. PriceInv' /\ RowInv'
  <2>1. NoRequest.at \notin Asked \cup Checked \cup {"hold", "withdrawal", "payment"}
    BY DEF NoRequest, Asked, Checked
  <2>2. \A q \in Proc : \/ req'[q] = req[q]
                         \/ req'[q].at \notin Asked \cup Checked
                                             \cup {"hold", "withdrawal", "payment"}
    BY <2>1
  <2>3. PriceInv'
    BY <2>2 DEF PriceInv
  <2>4. RowInv'
    BY <2>2 DEF RowInv
  <2> QED BY <2>3, <2>4
<1>3. DOMAIN bets = 1..Len(bets) /\ DOMAIN bets' = 1..Len(bets)
  BY DEF TypeInv
<1>4. PricedAsAsked'
  BY <1>3 DEF PricedAsAsked, SameTerms
<1> QED BY <1>1, <1>2, <1>4

\* A closing changes neither terms nor what is closed already.
LEMMA ClosingKeeps ==
  ASSUME Inv, NEW closing, Closes(closing),
         req' = req, best' = best, payments' = payments
  PROVE  Inv' /\ Final
<1>1. \A i \in 1..Len(bets) : SameTerms(bets'[i], bets[i])
  BY DEF Closes, SameTerms
<1>2. Inv'
  BY <1>1, RowsFrame DEF Closes, Inv, TypeInv
<1>3. Final
  BY Rows DEF Closes, Final, Inv
<1> QED BY <1>2, <1>3

\* A hold changes what a bet holds, and nothing else of it.
LEMMA HoldRows ==
  ASSUME Inv, NEW p \in Proc, Hold(p)
  PROVE  \A i \in 1..Len(bets) :
           /\ SameTerms(bets'[i], bets[i]) /\ bets'[i].status = bets[i].status
           /\ bets'[i].profit = bets[i].profit /\ bets'[i].cashed = bets[i].cashed
<1> SUFFICES ASSUME NEW i \in 1..Len(bets)
             PROVE  /\ SameTerms(bets'[i], bets[i]) /\ bets'[i].status = bets[i].status
                    /\ bets'[i].profit = bets[i].profit /\ bets'[i].cashed = bets[i].cashed
  OBVIOUS
<1>1. PICK b \in Bet : b = bets[i]
  BY Rows DEF Inv
<1>2. PICK h \in Int : h = ToHold(p)
  BY HoldEffect
<1>3. bets'[i] = b \/ bets'[i] = WithHold(b, h)
  BY <1>1, <1>2, HoldEffect
<1>4. SameTerms(b, b)
  BY DEF SameTerms
<1>5. /\ SameTerms(WithHold(b, h), b) /\ WithHold(b, h).status = b.status
      /\ WithHold(b, h).profit = b.profit /\ WithHold(b, h).cashed = b.cashed
  BY ONLY HeldBet
<1>6. CASE bets'[i] = b
  BY <1>1, <1>4, <1>6
<1>7. CASE bets'[i] = WithHold(b, h)
  BY <1>1, <1>5, <1>7
<1> QED BY <1>3, <1>6, <1>7

\* A hold keeps the first layer.
LEMMA HoldKeeps ==
  ASSUME Inv, NEW p \in Proc, Hold(p)
  PROVE  Inv' /\ Final
<1>1. best' = best /\ req' = [req EXCEPT ![p] = NoRequest]
  BY DEF Hold
<1>2. req' \in [Proc -> RequestState] /\ \A q \in Proc : req'[q] = req[q] \/ req'[q] = NoRequest
  BY <1>1 DEF Inv, TypeInv, RequestState
<1>3. \A i \in 1..Len(bets) : SameTerms(bets'[i], bets[i])
        /\ bets'[i].status = bets[i].status /\ bets'[i].profit = bets[i].profit
  BY HoldRows
<1>4. Inv'
  BY <1>1, <1>2, <1>3, HoldEffect, RowsFrame DEF Inv, TypeInv
<1>5. Final
  BY <1>3, Rows DEF Final, Inv
<1> QED BY <1>4, <1>5

Answers(p) == req' = [req EXCEPT ![p] = NoRequest]
GoesOn(p, next) == req' = [req EXCEPT ![p].at = next]
Unmoved == best' = best /\ bets' = bets /\ payments' = payments

\* A request goes on to its next step, or its client is answered.
LEMMA Advance ==
  ASSUME Inv, Unmoved, NEW p \in Proc, NEW next \in Stage,
         \/ Answers(p)
         \/ /\ GoesOn(p, next)
            /\ \/ req[p].at \in {"account", "market"} /\ next \in Asked
               \/ req[p].at \in Checked /\ next \in Checked
               \/ req[p].at = "withdrawal" /\ next = "payment"
  PROVE  Inv'
<1> USE DEF Inv
<1>1. CASE Answers(p)
  <2>1. req' \in [Proc -> RequestState] /\ \A q \in Proc : req'[q] = req[q] \/ req'[q] = NoRequest
    BY <1>1 DEF Answers, TypeInv, RequestState
  <2> QED BY <2>1, RowsFrame DEF Unmoved, TypeInv, SameTerms
<1>2. CASE ~Answers(p)
  <2>1. req[p].at # "idle" /\ GoesOn(p, next)
    BY <1>2 DEF Checked
  <2>2. req[p] \in Serving
    BY <2>1, RequestFields
  <2>3. /\ req'[p] = WithStep(req[p], next) /\ \A q \in Proc \ {p} : req'[q] = req[q]
        /\ req' = [q \in Proc |-> req'[q]]
    BY <2>1 DEF GoesOn, TypeInv, WithStep
  <2>4. /\ req'[p].at = next /\ req'[p].r = req[p].r
        /\ req'[p].price = req[p].price /\ req'[p].row = req[p].row
        /\ req'[p] \in Serving
    BY <2>2, <2>3, StepTaken
  <2>5. TypeInv'
    BY <2>3, <2>4 DEF TypeInv, Unmoved, RequestState, Serving, Stage
  <2>6. \/ req[p].at \in Asked /\ next \in Asked
        \/ req[p].at \in Checked /\ next \in Checked
        \/ req[p].at = "withdrawal" /\ next = "payment"
    BY <1>2, <2>1 DEF Asked
  <2>7. PriceInv'
    BY <2>3, <2>4, <2>6 DEF PriceInv, Asked, Checked
  <2>8. RowInv'
    <3>1. next = "payment" => req[p].r.op = "withdraw"
      BY <2>6 DEF RowInv, Asked, Checked
    <3>2. next # "hold" /\ next # "withdrawal"
      BY <2>6 DEF Asked, Checked
    <3> QED BY <2>3, <2>4, <3>1, <3>2 DEF RowInv, Unmoved
  <2> QED BY <2>5, <2>7, <2>8 DEF PricedAsAsked, Unmoved
<1> QED BY <1>1, <1>2

\* The checks that only pass a request on or answer it.
LEMMA CheckKeeps ==
  ASSUME Inv, NEW p \in Proc
  PROVE  /\ CheckAccount(p) => Inv'
         /\ CheckMarket(p) => Inv'
         /\ CheckMoney(p) => Inv'
         /\ CheckMarketLimit(p) => Inv'
         /\ CheckClientRef(p) => Inv'
         /\ CheckWithdrawal(p) => Inv'
<1>1. ASSUME CheckAccount(p) PROVE Inv'
  <2>1. Answers(p) \/ GoesOn(p, "market")
    BY <1>1 DEF CheckAccount, Check, Answers, GoesOn
  <2>2. req[p].at = "account" /\ Unmoved
    BY <1>1 DEF CheckAccount, Check, At, Unmoved
  <2> QED BY <2>1, <2>2, Advance DEF Stage, BetSteps, Asked
<1>2. ASSUME CheckMarket(p) PROVE Inv'
  <2>1. Answers(p) \/ GoesOn(p, "odds")
    BY <1>2 DEF CheckMarket, Check, Answers, GoesOn
  <2>2. req[p].at = "market" /\ Unmoved
    BY <1>2 DEF CheckMarket, Check, At, Unmoved
  <2> QED BY <2>1, <2>2, Advance DEF Stage, BetSteps, Asked
<1>3. ASSUME CheckMoney(p) PROVE Inv'
  <2>1. Answers(p) \/ GoesOn(p, "limit")
    BY <1>3 DEF CheckMoney, Check, Answers, GoesOn
  <2>2. req[p].at = "money" /\ Unmoved
    BY <1>3 DEF CheckMoney, Check, At, Unmoved
  <2> QED BY <2>1, <2>2, Advance DEF Stage, BetSteps, Checked
<1>4. ASSUME CheckMarketLimit(p) PROVE Inv'
  <2>1. Answers(p) \/ GoesOn(p, "ref")
    BY <1>4 DEF CheckMarketLimit, Check, Answers, GoesOn
  <2>2. req[p].at = "limit" /\ Unmoved
    BY <1>4 DEF CheckMarketLimit, Check, At, Unmoved
  <2> QED BY <2>1, <2>2, Advance DEF Stage, BetSteps, Checked
<1>5. ASSUME CheckClientRef(p) PROVE Inv'
  <2>1. Answers(p) \/ GoesOn(p, "place")
    BY <1>5 DEF CheckClientRef, Check, Answers, GoesOn
  <2>2. req[p].at = "ref" /\ Unmoved
    BY <1>5 DEF CheckClientRef, Check, At, Unmoved
  <2> QED BY <2>1, <2>2, Advance DEF Stage, BetSteps, Checked
<1>6. ASSUME CheckWithdrawal(p) PROVE Inv'
  <2>1. Answers(p) \/ GoesOn(p, "payment")
    BY <1>6 DEF CheckWithdrawal, Check, Answers, GoesOn
  <2>2. req[p].at = "withdrawal" /\ Unmoved
    BY <1>6 DEF CheckWithdrawal, Check, At, Unmoved
  <2> QED BY <2>1, <2>2, Advance DEF Stage, WithdrawSteps
<1> QED BY <1>1, <1>2, <1>3, <1>4, <1>5, <1>6

\* Odds are read once more here: the price a request carries from now on is within the
\* allowed drift of the one its client asked for.
LEMMA OddsKeep ==
  ASSUME Inv, NEW p \in Proc, CheckOdds(p)
  PROVE  Inv'
<1> USE DEF Inv
<1> DEFINE r == req[p].r
           current == best[r.market][r.side]
           Strikes(price) == req' = [req EXCEPT ![p] = WithPrice(req[p], price)]
<1>1. /\ req[p].at = "odds" /\ r \in BetRequest /\ req[p].price = r.price
      /\ req[p] \in Serving /\ Unmoved
  BY RequestFields DEF CheckOdds, At, PriceInv, Asked, Unmoved
<1>2. /\ r.market \in Market /\ r.price \in Price /\ r.price \in Nat
      /\ current \in Price \cup {0} /\ current \in Nat
  <2>1. r.market \in Market /\ r.price \in Price /\ r.side \in Side
    BY <1>1 DEF BetRequest
  <2>2. best[r.market] \in [back : Price \cup {0}, lay : Price \cup {0}]
    BY <2>1, HouseAssumption DEF TypeInv
  <2>3. current \in Price \cup {0}
    BY <2>1, <2>2 DEF Side
  <2>4. \A x \in Price \cup {0} : x \in Nat
    BY DEF Price
  <2> HIDE DEF r, current
  <2> QED BY <2>1, <2>3, <2>4
<1>3. AllowedDrift(r.market) \in {0, 2}
  BY DEF AllowedDrift
<1>4. CASE Answers(p)
  BY <1>1, <1>4, Advance DEF Stage, BetSteps
<1>5. ASSUME NEW price \in Price, Distance(r.price, price) <= AllowedDrift(r.market),
             Strikes(price)
      PROVE  Inv'
  <2>1. /\ req'[p] = WithPrice(req[p], price)
        /\ \A q \in Proc \ {p} : req'[q] = req[q]
        /\ req' = [q \in Proc |-> req'[q]]
    BY <1>5 DEF TypeInv
  <2>2. /\ req'[p] \in Serving /\ req'[p].at = "money"
        /\ req'[p].price = price /\ req'[p].r = req[p].r
    BY <1>1, <2>1, PriceTaken
  <2>3. TypeInv'
    BY <1>1, <2>1, <2>2 DEF TypeInv, RequestState, Serving, Stage, Unmoved
  <2>4. r.op = "bet"
    BY <1>1 DEF BetRequest
  <2>5. PriceInv'
    <3>1. Distance(req'[p].r.price, req'[p].price) <= AllowedDrift(req'[p].r.market)
      BY <1>5, <2>2
    <3> QED BY <2>1, <2>2, <2>4, <3>1 DEF PriceInv, Asked, Checked
  <2>6. RowInv'
    BY <1>1, <2>1, <2>2 DEF RowInv, Unmoved
  <2> QED BY <1>1, <2>3, <2>5, <2>6 DEF PricedAsAsked, Unmoved
<1>6. CASE current = 0
  <2>1. req' = [req EXCEPT ![p].at = "money"]
    BY <1>6 DEF CheckOdds
  <2>2. WithPrice(req[p], r.price) = [req[p] EXCEPT !.at = "money"]
    BY <1>1 DEF WithPrice, Serving
  <2>3. Strikes(r.price)
    BY <2>1, <2>2 DEF TypeInv
  <2>4. Distance(r.price, r.price) = 0
    BY <1>2 DEF Distance
  <2> HIDE DEF r, current, Strikes
  <2> QED BY <1>2, <1>3, <1>5, <2>3, <2>4
<1>7. CASE current # 0 /\ Distance(r.price, current) > AllowedDrift(r.market)
  <2>1. Answers(p)
    BY <1>7 DEF CheckOdds, Answers
  <2> QED BY <1>4, <2>1
<1>8. CASE current # 0 /\ ~(Distance(r.price, current) > AllowedDrift(r.market))
  <2>1. Strikes(current)
    BY <1>8 DEF CheckOdds, WithPrice
  <2>2. Distance(r.price, current) \in Nat
    BY <1>2 DEF Distance
  <2>3. Distance(r.price, current) <= AllowedDrift(r.market)
    BY <1>3, <1>8, <2>2
  <2> HIDE DEF r, current, Strikes
  <2> QED BY <1>2, <1>5, <1>8, <2>1, <2>3
<1> QED BY <1>6, <1>7, <1>8

\* A request begins with the price its client asked for.
LEMMA ReceiveKeeps ==
  ASSUME Inv, NEW p \in Proc, NEW r \in Requests, Receive(p, r)
  PROVE  Inv' /\ Final
<1> USE DEF Inv
<1> DEFINE step == IF r.op = "bet" THEN "account" ELSE "withdrawal"
           price == IF r.op = "bet" THEN r.price ELSE 0
<1>1. /\ Unmoved
      /\ req' = [req EXCEPT ![p] = [at |-> step, r |-> r, price |-> price, row |-> 0]]
  BY DEF Receive, Unmoved
<1>2. /\ req'[p] = [at |-> step, r |-> r, price |-> price, row |-> 0]
      /\ \A q \in Proc \ {p} : req'[q] = req[q]
      /\ req' = [q \in Proc |-> req'[q]]
  BY <1>1 DEF TypeInv
<1>3. r \in BetRequest \/ r \in WithdrawRequest
  BY HouseAssumption
<1>4. step \in Stage /\ price \in Price \cup {0} /\ r.op \in {"bet", "withdraw"}
  BY <1>3 DEF Stage, BetSteps, WithdrawSteps, BetRequest, WithdrawRequest
<1>5. req'[p] \in RequestState
  BY <1>2, <1>4 DEF RequestState, Stage
<1>6. TypeInv'
  BY <1>1, <1>2, <1>5 DEF TypeInv, Unmoved
<1>7. PriceInv'
  BY <1>2 DEF PriceInv, Asked, Checked
<1>8. RowInv'
  BY <1>1, <1>2, <1>4 DEF RowInv, Unmoved
<1> QED BY <1>1, <1>6, <1>7, <1>8 DEF PricedAsAsked, Unmoved, Final

\* Within the allowed drift is within 0.02, and no drift is the very price.
LEMMA DriftBound ==
  ASSUME NEW m, NEW x \in Nat, NEW y \in Nat, Distance(x, y) <= AllowedDrift(m)
  PROVE  /\ Distance(y, x) <= 2
         /\ Kind[m] \in {"fancy", "session"} => y = x
BY DEF Distance, AllowedDrift

\* The bet that is placed is at the price the checks left.
LEMMA PlaceKeeps ==
  ASSUME Inv, NEW p \in Proc, Place(p)
  PROVE  Inv' /\ Final
<1> USE DEF Inv
<1> DEFINE new == Len(bets) + 1
<1>1. /\ req[p].at = "place" /\ req[p] \in Serving /\ req[p].r \in BetRequest
      /\ bets' \in Seq(Bet) /\ Len(bets') = new /\ DOMAIN bets' = 1..new
      /\ \A i \in 1..Len(bets) : bets'[i] = bets[i]
      /\ bets'[new] = NewBet(p)
      /\ req'[p].at = "hold" /\ req'[p].row = new
      /\ req'[p].r = req[p].r /\ req'[p].price = req[p].price
      /\ \A q \in Proc \ {p} : req'[q] = req[q]
      /\ req' \in [Proc -> RequestState]
  BY PlaceEffect
<1>2. best' = best /\ payments' = payments
  BY DEF Place
<1>3. DOMAIN bets = 1..Len(bets) /\ Len(bets) \in Nat /\ new \in Nat
  BY Rows
<1> HIDE DEF new
<1>4. /\ req[p].r.op = "bet" /\ req[p].price \in Price
      /\ Distance(req[p].r.price, req[p].price) <= AllowedDrift(req[p].r.market)
  BY <1>1 DEF PriceInv, Checked
<1>5. TypeInv'
  BY <1>1, <1>2 DEF TypeInv
<1>6. PriceInv'
  BY <1>1, <1>4 DEF PriceInv, Asked, Checked
<1>7. RowInv'
  <2>1. 1..Len(bets) \subseteq 1..new /\ new \in 1..new
    BY <1>3 DEF new
  <2>2. \A q \in Proc \ {p} : req'[q].at = "hold" /\ req'[q].r.op = "bet"
                               => req'[q].row \in 1..new
    BY <1>1, <2>1 DEF RowInv
  <2> QED BY <1>1, <1>2, <1>4, <2>1, <2>2 DEF RowInv
<1>8. PricedAsAsked'
  <2>1. /\ NewBet(p).price = req[p].price /\ NewBet(p).asked = req[p].r.price
        /\ NewBet(p).market = req[p].r.market
    BY DEF NewBet
  <2>2. req[p].r.price \in Nat /\ req[p].price \in Nat
    BY <1>1, <1>4 DEF BetRequest, Price
  <2>3. /\ Distance(NewBet(p).price, NewBet(p).asked) <= 2
        /\ Kind[NewBet(p).market] \in {"fancy", "session"}
             => NewBet(p).price = NewBet(p).asked
    BY <1>4, <2>1, <2>2, DriftBound
  <2>4. \A i \in 1..new : i \in 1..Len(bets) \/ i = new
    BY <1>3 DEF new
  <2> QED BY <1>1, <1>3, <2>3, <2>4 DEF PricedAsAsked
<1>9. Final
  BY <1>1, <1>3 DEF Final
<1> QED BY <1>5, <1>6, <1>7, <1>8, <1>9

\* A withdrawal is on record before money is held for it.
LEMMA PaymentKeeps ==
  ASSUME Inv, NEW p \in Proc, CreatePaymentTx(p)
  PROVE  Inv' /\ Final
<1> USE DEF Inv
<1> DEFINE new == Len(payments) + 1
<1>1. /\ req[p] \in Serving /\ req[p].r.op = "withdraw"
      /\ payments' \in Seq(Payment) /\ Len(payments') = new
      /\ req'[p].at = "hold" /\ req'[p].row = new /\ req'[p].r = req[p].r
      /\ \A q \in Proc \ {p} : req'[q] = req[q]
      /\ req' \in [Proc -> RequestState]
  BY PaymentEffect
<1>2. best' = best /\ bets' = bets
  BY DEF CreatePaymentTx
<1>3. Len(payments) \in Nat /\ new \in Nat
  BY Rows
<1>4. 1..Len(payments) \subseteq 1..new /\ new \in 1..new
  BY <1>3
<1> HIDE DEF new
<1>5. TypeInv'
  BY <1>1, <1>2 DEF TypeInv
<1>6. PriceInv'
  BY <1>1 DEF PriceInv, Asked, Checked
<1>7. RowInv'
  <2>1. \A q \in Proc \ {p} : req'[q].at = "hold" /\ req'[q].r.op # "bet"
                               => req'[q].row \in 1..new
    BY <1>1, <1>4 DEF RowInv
  <2> QED BY <1>1, <1>2, <1>4, <2>1 DEF RowInv
<1> QED BY <1>2, <1>5, <1>6, <1>7 DEF PricedAsAsked, Final

\* The steps of a request that touch no row: its checks, and a refusal to hold.
Checking(p) ==
  \/ CheckAccount(p) \/ CheckMarket(p) \/ CheckOdds(p) \/ CheckMoney(p)
  \/ CheckMarketLimit(p) \/ CheckClientRef(p) \/ CheckWithdrawal(p) \/ HoldFails(p)

\* Such a step changes the request, and nothing else.
LEMMA CheckingEffect ==
  ASSUME Inv, NEW p \in Proc, Checking(p)
  PROVE  /\ UNCHANGED <<moneyVars, status, excluded, market, best, bets, payments,
                        requests, operations>>
         /\ \A q \in Proc \ {p} : req'[q] = req[q]
         /\ req'[p].at # "hold" /\ (req'[p] = NoRequest \/ req'[p].r = req[p].r)
<1>1. /\ UNCHANGED <<moneyVars, status, excluded, market, best, bets, payments,
                     requests, operations>>
  BY DEF Checking, CheckAccount, CheckMarket, CheckOdds, CheckMoney, CheckMarketLimit,
         CheckClientRef, CheckWithdrawal, HoldFails, Check
<1>2. PICK x : req' = [req EXCEPT ![p] = x] /\ x.at # "hold" /\ (x = NoRequest \/ x.r = req[p].r)
  <2>1. CASE Answers(p)
    <3>1. NoRequest.at # "hold"
      BY DEF NoRequest
    <3> QED BY <2>1, <3>1 DEF Answers
  <2>2. ASSUME ~Answers(p) PROVE req[p].at # "idle"
    BY <2>2 DEF Checking, CheckAccount, CheckMarket, CheckOdds, CheckMoney,
           CheckMarketLimit, CheckClientRef, CheckWithdrawal, HoldFails, Check, At, Answers
  <2>3. ASSUME NEW step \in Stage \ {"hold"}, ~Answers(p),
               req' = [req EXCEPT ![p] = WithStep(req[p], step)]
        PROVE  \E x : req' = [req EXCEPT ![p] = x] /\ x.at # "hold"
                        /\ (x = NoRequest \/ x.r = req[p].r)
    <3>1. req[p] \in Serving
      BY <2>2, <2>3, RequestFields DEF Inv
    <3>2. WithStep(req[p], step).at = step /\ WithStep(req[p], step).r = req[p].r
      BY <3>1, StepTaken
    <3> QED BY <2>3, <3>2
  <2>4. CASE ~Answers(p) /\ ~CheckOdds(p)
    <3>1. \E step \in {"market", "odds", "limit", "ref", "place", "payment"} :
            req' = [req EXCEPT ![p] = WithStep(req[p], step)]
      BY <2>4 DEF Checking, CheckAccount, CheckMarket, CheckMoney, CheckMarketLimit,
                  CheckClientRef, CheckWithdrawal, HoldFails, Check, Answers, WithStep
    <3>2. {"market", "odds", "limit", "ref", "place", "payment"} \subseteq Stage \ {"hold"}
      BY DEF Stage, BetSteps, WithdrawSteps
    <3> QED BY <2>3, <2>4, <3>1, <3>2
  <2>5. CASE ~Answers(p) /\ CheckOdds(p)
    <3>1. \/ req' = [req EXCEPT ![p] = WithStep(req[p], "money")]
          \/ /\ req' = [req EXCEPT ![p] = WithPrice(req[p], best[req[p].r.market][req[p].r.side])]
             /\ best[req[p].r.market][req[p].r.side] # 0
      BY <2>5 DEF CheckOdds, Answers, WithStep, WithPrice
    <3>2. CASE req' = [req EXCEPT ![p] = WithStep(req[p], "money")]
      <4>1. "money" \in Stage \ {"hold"}
        BY DEF Stage, BetSteps
      <4> QED BY <2>3, <2>5, <3>2, <4>1
    <3>3. ASSUME NEW c, c # 0, c = best[req[p].r.market][req[p].r.side],
                 req' = [req EXCEPT ![p] = WithPrice(req[p], c)]
          PROVE  \E x : req' = [req EXCEPT ![p] = x] /\ x.at # "hold"
                          /\ (x = NoRequest \/ x.r = req[p].r)
      <4>1. req[p] \in Serving /\ req[p].r \in BetRequest
        BY <2>5, RequestFields DEF Inv, PriceInv, Asked, CheckOdds, At
      <4>2. req[p].r.market \in Market /\ req[p].r.side \in Side
        BY <4>1 DEF BetRequest
      <4>3. best[req[p].r.market] \in [back : Price \cup {0}, lay : Price \cup {0}]
        BY <4>2, HouseAssumption DEF Inv, TypeInv
      <4>4. c \in Price
        BY <3>3, <4>2, <4>3 DEF Side
      <4>5. WithPrice(req[p], c).at = "money" /\ WithPrice(req[p], c).r = req[p].r
        BY <4>1, <4>4, PriceTaken
      <4> QED BY <3>3, <4>5
    <3> QED BY <3>1, <3>2, <3>3
  <2> QED BY <2>1, <2>4, <2>5
<1>3. /\ \A q \in Proc \ {p} : req'[q] = req[q]
      /\ req'[p] = x
  BY <1>2 DEF Inv, TypeInv
<1> QED BY <1>1, <1>2, <1>3

\* The steps of a request, told apart by what they touch.
LEMMA ServeCases ==
  ASSUME NEW p \in Proc, Serve(p)
  PROVE  Checking(p) \/ Place(p) \/ CreatePaymentTx(p) \/ Hold(p)
BY DEF Serve, Checking

\* Every step of a request keeps the first layer.
LEMMA ServeKeeps ==
  ASSUME Inv, NEW p \in Proc, Serve(p)
  PROVE  Inv' /\ Final
<1>1. CASE Checking(p)
  <2>1. HoldFails(p) => Answers(p) /\ Unmoved
    BY DEF HoldFails, Answers, Unmoved
  <2>2. "money" \in Stage
    BY DEF Stage, BetSteps
  <2>3. Inv'
    BY <1>1, <2>1, <2>2, CheckKeeps, OddsKeep, Advance DEF Checking
  <2>4. bets' = bets
    BY <1>1, CheckingEffect
  <2> QED BY <2>3, <2>4 DEF Final
<1> QED BY <1>1, ServeCases, PlaceKeeps, PaymentKeeps, HoldKeeps

\* Administrators, feeds and the owners of accounts leave requests and rows alone.
LEMMA OthersKeep ==
  ASSUME Inv, req' = req, bets' = bets, payments' = payments, best' \in [Market -> Quote]
  PROVE  Inv' /\ Final
<1>1. Final
  BY DEF Final
<1>2. Inv'
  BY DEF Inv, TypeInv, PriceInv, RowInv, PricedAsAsked
<1> QED BY <1>1, <1>2

\* So does what is done to a market,
LEMMA AdministerKeeps ==
  ASSUME Inv, NEW m \in Market, Administer(m)
  PROVE  Inv' /\ Final
<1>0. best \in [Market -> Quote] /\ TypeInv
  BY DEF Inv, TypeInv
<1>1. ASSUME NEW winner \in Selection, SettleMarket(m, winner)
      PROVE  Inv' /\ Final
  <2>1. req' = req /\ best' = best /\ payments' = payments
    BY <1>1 DEF SettleMarket
  <2> QED BY <1>0, <1>1, <2>1, SettleEffect, ClosingKeeps
<1>2. CASE VoidMarket(m)
  <2>1. req' = req /\ best' = best /\ payments' = payments
    BY <1>2 DEF VoidMarket
  <2> QED BY <1>0, <1>2, <2>1, VoidEffect, ClosingKeeps
<1>3. CASE SuspendMarket(m) \/ ResumeMarket(m)
  BY <1>0, <1>3, OthersKeep DEF SuspendMarket, ResumeMarket, SetMarket
<1>4. ASSUME NEW quote \in Quote, MergeOddsIntoStore(m, quote) \/ OddsFluctuation(m, quote)
      PROVE  Inv' /\ Final
  BY <1>0, <1>4, OthersKeep DEF MergeOddsIntoStore, OddsFluctuation
<1> QED BY <1>1, <1>2, <1>3, <1>4 DEF Administer

\* a cash-out,
LEMMA CashoutKeeps ==
  ASSUME Inv, NEW i \in DOMAIN bets, CashoutAccept(i)
  PROVE  Inv' /\ Final
<1>1. req' = req /\ best' = best /\ payments' = payments
  BY DEF CashoutAccept
<1>2. Closes({i})
  BY CashoutEffect DEF Inv
<1> QED BY <1>1, <1>2, ClosingKeeps

\* what is done to an account,
LEMMA AccountKeeps ==
  ASSUME Inv, NEW u \in User, Account(u)
  PROVE  Inv' /\ Final
<1>1. req' = req /\ bets' = bets /\ payments' = payments /\ best' = best
  BY DEF Account, CreateUser, TransferCredit, CreateDemoUser, SelfExclude, PanelUpdateStatus
<1>2. best \in [Market -> Quote]
  BY DEF Inv, TypeInv
<1> QED BY <1>1, <1>2, OthersKeep

\* and so every step.
LEMMA Step ==
  ASSUME Inv, [Next]_vars
  PROVE  Inv' /\ Final
<1>1. CASE UNCHANGED vars
  BY <1>1, OthersKeep DEF vars, Inv, TypeInv
<1>2. CASE Next
  BY <1>2, ReceiveKeeps, ServeKeeps, CashoutKeeps, AdministerKeeps, AccountKeeps DEF Next
<1> QED BY <1>1, <1>2

\* No request is under way at the start.
LEMMA InitInv == Init => Inv
<1> SUFFICES ASSUME Init PROVE Inv
  OBVIOUS
<1>1. req = [p \in Proc |-> NoRequest] /\ bets = <<>> /\ payments = <<>>
        /\ best \in [Market -> Quote]
  BY DEF Init
<1>2. TypeInv
  BY <1>1 DEF TypeInv, RequestState
<1>3. \A p \in Proc : req[p].at = "idle"
  BY <1>1 DEF NoRequest
<1>4. PriceInv /\ RowInv
  BY <1>3 DEF PriceInv, RowInv, Asked, Checked
<1>5. PricedAsAsked
  BY <1>1 DEF PricedAsAsked
<1> QED BY <1>2, <1>4, <1>5 DEF Inv

\* The inductive invariant: what a request may rely on between two of the checks of
\* handlePlaceBet.
THEOREM Invariance == Spec => []Inv
<1>1. Init => Inv
  BY InitInv
<1>2. Inv /\ [Next]_vars => Inv'
  BY Step
<1> QED BY <1>1, <1>2, PTL DEF Spec

\* However the feeds move the odds while handlePlaceBet checks the bet, it is struck
\* within 0.02 of the price asked for, and a session bet at that very rate.
THEOREM PricesHold == Spec => []PricedAsAsked
<1>1. Inv => PricedAsAsked
  BY DEF Inv
<1> QED BY <1>1, Invariance, PTL

\* settleMarketLocked, the void of a market and handleCashoutAccept close a bet once
\* between them, and no step of any handler changes what they made of it.
THEOREM ClosedStaysClosed == Spec => ClosedBetsAreFinal
<1>1. Inv /\ [Next]_vars => [Final]_vars
  BY Step
<1>2. [Final]_vars => [\A i \in DOMAIN bets : bets[i].status # "matched" =>
         bets'[i].status = bets[i].status /\ bets'[i].profit = bets[i].profit]_vars
  BY DEF Final
<1> QED BY <1>1, <1>2, Invariance, PTL DEF Spec, ClosedBetsAreFinal

-----------------------------------------------------------------------------
\* The second layer: what is held, and for what.

HeldInv ==
  /\ exposure \in [User -> Int] /\ drifted \subseteq User
  /\ \A p \in Proc : req[p].at = "hold" /\ req[p].r.op = "bet" =>
       bets[req[p].row].hold = 0 /\ bets[req[p].row].user = req[p].r.user
  /\ \A p \in Proc : req[p].at = "hold" /\ req[p].r.op # "bet" =>
       payments[req[p].row].hold = 0 /\ payments[req[p].row].user = req[p].r.user
  /\ \A p, q \in Proc : /\ p # q
                        /\ req[p].at = "hold" /\ req[q].at = "hold"
                        /\ (req[p].r.op = "bet" <=> req[q].r.op = "bet")
                        => req[p].row # req[q].row

HoldingInv == HeldInv /\ ExposureIsWhatIsHeld

\* What ExposureIsWhatIsHeld says of one user.
Negative(u) == \E i \in PaymentsOf(u) : payments[i].hold < 0
Fits(u) == exposure[u] >= HeldOf(u) /\ (exposure[u] > HeldOf(u) => Negative(u))

\* The sets that are added up over are finite, of naturals and of integers.
LEMMA HoldTypes ==
  ASSUME TypeInv, NEW u
  PROVE  /\ IsFiniteSet(OpenOf(u)) /\ OpenOf(u) \subseteq 1..Len(bets)
         /\ \A i \in 1..Len(bets) : BetHolds[i] = bets[i].hold /\ BetHolds[i] \in Nat
         /\ IsFiniteSet(PaymentsOf(u)) /\ PaymentsOf(u) \subseteq 1..Len(payments)
         /\ \A i \in 1..Len(payments) :
              PaymentHolds[i] = payments[i].hold /\ PaymentHolds[i] \in Int
<1>1. /\ DOMAIN bets = 1..Len(bets) /\ Len(bets) \in Nat
      /\ \A i \in 1..Len(bets) : bets[i] \in Bet
      /\ DOMAIN payments = 1..Len(payments) /\ Len(payments) \in Nat
      /\ \A i \in 1..Len(payments) : payments[i] \in Payment
  BY Rows
<1>2. OpenOf(u) \subseteq 1..Len(bets) /\ PaymentsOf(u) \subseteq 1..Len(payments)
  BY <1>1 DEF OpenOf, PaymentsOf
<1>3. IsFiniteSet(1..Len(bets)) /\ IsFiniteSet(1..Len(payments))
  BY <1>1, FS_Interval
<1>4. IsFiniteSet(OpenOf(u)) /\ IsFiniteSet(PaymentsOf(u))
  BY <1>2, <1>3, FS_Subset
<1>5. \A i \in 1..Len(bets) : BetHolds[i] = bets[i].hold /\ BetHolds[i] \in Nat
  BY <1>1 DEF BetHolds, Bet
<1>6. \A i \in 1..Len(payments) : PaymentHolds[i] = payments[i].hold /\ PaymentHolds[i] \in Int
  BY <1>1 DEF PaymentHolds, Payment
<1> QED BY <1>2, <1>4, <1>5, <1>6

\* Bets hold a natural sum, withdrawals a whole one, natural when none is negative.
LEMMA HeldTypes ==
  ASSUME TypeInv, NEW u
  PROVE  /\ SumFunctionOnSet(BetHolds, OpenOf(u)) \in Nat
         /\ SumFunctionOnSet(PaymentHolds, PaymentsOf(u)) \in Int
         /\ HeldOf(u) \in Int
         /\ Negative(u) \/ SumFunctionOnSet(PaymentHolds, PaymentsOf(u)) \in Nat
<1>1. /\ IsFiniteSet(OpenOf(u)) /\ \A i \in OpenOf(u) : BetHolds[i] \in Nat
      /\ IsFiniteSet(PaymentsOf(u))
      /\ \A i \in PaymentsOf(u) : PaymentHolds[i] = payments[i].hold /\ PaymentHolds[i] \in Int
  BY HoldTypes
<1>2. /\ SumFunctionOnSet(BetHolds, OpenOf(u)) \in Nat
      /\ SumFunctionOnSet(PaymentHolds, PaymentsOf(u)) \in Int
  BY <1>1, SumNat, SumInt
<1>3. CASE ~Negative(u)
  <2>1. \A i \in PaymentsOf(u) : PaymentHolds[i] \in Nat
    BY <1>1, <1>3 DEF Negative
  <2> QED BY <1>1, <1>2, <2>1, SumNat DEF HeldOf
<1> QED BY <1>2, <1>3 DEF HeldOf

\* A step by which a user's exposure and what is held grow alike.
LEMMA FitsKept ==
  ASSUME NEW u, Fits(u), exposure[u] \in Int, HeldOf(u) \in Int, NEW d \in Int,
         exposure'[u] = exposure[u] + d, HeldOf(u)' = HeldOf(u) + d,
         Negative(u) => Negative(u)'
  PROVE  Fits(u)'
<1>1. PICK e \in Int, h \in Int : e = exposure[u] /\ h = HeldOf(u)
  OBVIOUS
<1>2. /\ e >= h /\ (e > h => Negative(u))
      /\ (e + d >= h + d <=> e >= h) /\ (e + d > h + d <=> e > h)
  BY <1>1 DEF Fits
<1>3. exposure'[u] = e + d /\ HeldOf(u)' = h + d
  BY <1>1
<1> QED BY <1>2, <1>3 DEF Fits

\* A step that leaves exposures and rows alone, and brings no request to its hold.
LEMMA HoldingFrame ==
  ASSUME Inv, HoldingInv, exposure' = exposure, drifted' = drifted,
         bets' = bets, payments' = payments,
         \A q \in Proc : req'[q] = req[q] \/ req'[q].at # "hold"
  PROVE  HoldingInv'
<1>1. HeldInv'
  BY DEF HoldingInv, HeldInv
<1>2. \A u : HeldOf(u)' = HeldOf(u) /\ (Negative(u)' <=> Negative(u))
  BY DEF HeldOf, Negative, BetHolds, PaymentHolds, OpenOf, PaymentsOf
<1>3. \A u \in User \ drifted : Fits(u)
  BY DEF HoldingInv, ExposureIsWhatIsHeld, Fits, Negative
<1>4. \A u \in User \ drifted' : Fits(u)'
  BY <1>2, <1>3 DEF Fits
<1>5. ExposureIsWhatIsHeld'
  BY <1>4 DEF ExposureIsWhatIsHeld, Fits, Negative
<1> QED BY <1>1, <1>5 DEF HoldingInv

\* The new bet holds nothing yet, and nobody else will hold for it.
LEMMA PlaceHolds ==
  ASSUME Inv, Inv', HoldingInv, NEW p \in Proc, Place(p)
  PROVE  HoldingInv'
<1> DEFINE new == Len(bets) + 1
           b == NewBet(p)
<1>1. /\ req[p].at = "place" /\ req[p] \in Serving /\ req[p].r \in BetRequest
      /\ bets' \in Seq(Bet) /\ Len(bets') = new /\ DOMAIN bets' = 1..new
      /\ \A i \in 1..Len(bets) : bets'[i] = bets[i]
      /\ bets'[new] = b
      /\ req'[p].at = "hold" /\ req'[p].row = new /\ req'[p].r = req[p].r
      /\ \A q \in Proc \ {p} : req'[q] = req[q]
  BY PlaceEffect
<1>2. exposure' = exposure /\ drifted' = drifted /\ payments' = payments
  BY DEF Place, moneyVars
<1>3. /\ DOMAIN bets = 1..Len(bets) /\ Len(bets) \in Nat /\ new \in Nat
      /\ new \notin 1..Len(bets) /\ 1..new = 1..Len(bets) \cup {new}
  BY Rows DEF Inv
<1>4. b.user = req[p].r.user /\ b.hold = 0 /\ b.status = "matched"
  BY DEF NewBet
<1> HIDE DEF new, b
<1>5. req[p].r.op = "bet"
  BY <1>1 DEF BetRequest
<1>6. HeldInv'
  <2>1. \A q \in Proc \ {p} : req[q].at = "hold" /\ req[q].r.op = "bet"
          => req[q].row \in 1..Len(bets) /\ bets'[req[q].row] = bets[req[q].row]
    BY <1>1 DEF Inv, RowInv
  <2>2. \A q \in Proc : req'[q].at = "hold" /\ req'[q].r.op = "bet" =>
          bets'[req'[q].row].hold = 0 /\ bets'[req'[q].row].user = req'[q].r.user
    BY <1>1, <1>4, <2>1 DEF HoldingInv, HeldInv
  <2>3. \A q \in Proc : req'[q].at = "hold" /\ req'[q].r.op # "bet" =>
          payments'[req'[q].row].hold = 0 /\ payments'[req'[q].row].user = req'[q].r.user
    BY <1>1, <1>2, <1>5 DEF HoldingInv, HeldInv
  <2>4. \A q \in Proc \ {p} : req'[q].at = "hold" /\ req'[q].r.op = "bet"
                                => req'[q].row # new
    BY <1>1, <1>3, <2>1
  <2>5. \A o, q \in Proc : o # q /\ req'[o].at = "hold" /\ req'[q].at = "hold"
                        /\ (req'[o].r.op = "bet" <=> req'[q].r.op = "bet")
                        => req'[o].row # req'[q].row
    <3>1. \A o, q \in Proc \ {p} : o # q /\ req'[o].at = "hold" /\ req'[q].at = "hold"
                        /\ (req'[o].r.op = "bet" <=> req'[q].r.op = "bet")
                        => req'[o].row # req'[q].row
      BY <1>1 DEF HoldingInv, HeldInv
    <3> QED BY <1>1, <1>5, <2>4, <3>1
  <2> QED BY <1>2, <2>2, <2>3, <2>5 DEF HoldingInv, HeldInv
<1>7. ASSUME NEW u \in User \ drifted
      PROVE  SumFunctionOnSet(BetHolds', OpenOf(u)') = SumFunctionOnSet(BetHolds, OpenOf(u))
  <2>1. /\ IsFiniteSet(OpenOf(u)) /\ OpenOf(u) \subseteq 1..Len(bets)
        /\ \A i \in 1..Len(bets) : BetHolds[i] = bets[i].hold /\ BetHolds[i] \in Nat
    BY HoldTypes DEF Inv
  <2>2. \A i \in 1..new : (BetHolds')[i] = bets'[i].hold
    BY <1>1 DEF BetHolds
  <2>3. \A i \in OpenOf(u) : (BetHolds')[i] = BetHolds[i] /\ (BetHolds')[i] \in Nat
    BY <1>1, <1>3, <2>1, <2>2
  <2>4. SumFunctionOnSet(BetHolds', OpenOf(u)) = SumFunctionOnSet(BetHolds, OpenOf(u))
    BY <2>1, <2>3, SumSame
  <2>5. (BetHolds')[new] = 0
    BY <1>1, <1>3, <1>4, <2>2
  <2>6. CASE u = req[p].r.user
    <3>1. OpenOf(u)' = OpenOf(u) \cup {new}
      BY <1>1, <1>3, <1>4, <2>6 DEF OpenOf
    <3>2. new \notin OpenOf(u)
      BY <1>3, <2>1
    <3>3. SumFunctionOnSet(BetHolds', OpenOf(u) \cup {new})
            = SumFunctionOnSet(BetHolds', OpenOf(u)) + (BetHolds')[new]
      BY <2>1, <2>3, <2>5, <3>2, SumAdd
    <3>4. SumFunctionOnSet(BetHolds', OpenOf(u)) \in Nat
      BY <2>1, <2>3, SumNat
    <3> QED BY <2>4, <2>5, <3>1, <3>3, <3>4
  <2>7. CASE u # req[p].r.user
    <3>1. OpenOf(u)' = OpenOf(u)
      BY <1>1, <1>3, <1>4, <2>7 DEF OpenOf
    <3> QED BY <2>4, <3>1
  <2> QED BY <2>6, <2>7
<1>8. ExposureIsWhatIsHeld'
  BY <1>2, <1>7 DEF HoldingInv, ExposureIsWhatIsHeld, HeldOf, PaymentHolds, PaymentsOf
<1> QED BY <1>6, <1>8 DEF HoldingInv

\* The new withdrawal holds nothing yet, and nobody else will hold for it.
LEMMA CreatePaymentHolds ==
  ASSUME Inv, Inv', HoldingInv, NEW p \in Proc, CreatePaymentTx(p)
  PROVE  HoldingInv'
<1> DEFINE new == Len(payments) + 1
<1>1. /\ req[p].at = "payment" /\ req[p] \in Serving /\ req[p].r.op = "withdraw"
      /\ payments' \in Seq(Payment) /\ Len(payments') = new /\ DOMAIN payments' = 1..new
      /\ \A i \in 1..Len(payments) : payments'[i] = payments[i]
      /\ payments'[new].user = req[p].r.user /\ payments'[new].hold = 0
      /\ req'[p].at = "hold" /\ req'[p].row = new /\ req'[p].r = req[p].r
      /\ \A q \in Proc \ {p} : req'[q] = req[q]
  BY PaymentEffect
<1>2. exposure' = exposure /\ drifted' = drifted /\ bets' = bets
  BY DEF CreatePaymentTx, moneyVars
<1>3. /\ DOMAIN payments = 1..Len(payments) /\ Len(payments) \in Nat /\ new \in Nat
      /\ new \notin 1..Len(payments) /\ 1..new = 1..Len(payments) \cup {new}
  BY Rows DEF Inv
<1> HIDE DEF new
<1>4. req[p].r.op # "bet"
  BY <1>1
<1>5. HeldInv'
  <2>1. \A q \in Proc \ {p} : req[q].at = "hold" /\ req[q].r.op # "bet"
          => req[q].row \in 1..Len(payments) /\ payments'[req[q].row] = payments[req[q].row]
    BY <1>1 DEF Inv, RowInv
  <2>2. \A q \in Proc : req'[q].at = "hold" /\ req'[q].r.op # "bet" =>
          payments'[req'[q].row].hold = 0 /\ payments'[req'[q].row].user = req'[q].r.user
    BY <1>1, <2>1 DEF HoldingInv, HeldInv
  <2>3. \A q \in Proc : req'[q].at = "hold" /\ req'[q].r.op = "bet" =>
          bets'[req'[q].row].hold = 0 /\ bets'[req'[q].row].user = req'[q].r.user
    BY <1>1, <1>2, <1>4 DEF HoldingInv, HeldInv
  <2>4. \A q \in Proc \ {p} : req'[q].at = "hold" /\ req'[q].r.op # "bet"
                                => req'[q].row # new
    BY <1>1, <1>3, <2>1
  <2>5. \A o, q \in Proc : o # q /\ req'[o].at = "hold" /\ req'[q].at = "hold"
                        /\ (req'[o].r.op = "bet" <=> req'[q].r.op = "bet")
                        => req'[o].row # req'[q].row
    <3>1. \A o, q \in Proc \ {p} : o # q /\ req'[o].at = "hold" /\ req'[q].at = "hold"
                        /\ (req'[o].r.op = "bet" <=> req'[q].r.op = "bet")
                        => req'[o].row # req'[q].row
      BY <1>1 DEF HoldingInv, HeldInv
    <3> QED BY <1>1, <1>4, <2>4, <3>1
  <2> QED BY <1>2, <2>2, <2>3, <2>5 DEF HoldingInv, HeldInv
<1>6. ASSUME NEW u \in User \ drifted
      PROVE  SumFunctionOnSet(PaymentHolds', PaymentsOf(u)')
               = SumFunctionOnSet(PaymentHolds, PaymentsOf(u))
  <2>1. /\ IsFiniteSet(PaymentsOf(u)) /\ PaymentsOf(u) \subseteq 1..Len(payments)
        /\ \A i \in 1..Len(payments) : PaymentHolds[i] = payments[i].hold
                                         /\ PaymentHolds[i] \in Int
    BY HoldTypes DEF Inv
  <2>2. \A i \in 1..new : (PaymentHolds')[i] = payments'[i].hold
    BY <1>1 DEF PaymentHolds
  <2>3. \A i \in PaymentsOf(u) : /\ (PaymentHolds')[i] = PaymentHolds[i]
                                 /\ (PaymentHolds')[i] \in Int
    BY <1>1, <1>3, <2>1, <2>2
  <2>4. SumFunctionOnSet(PaymentHolds', PaymentsOf(u))
          = SumFunctionOnSet(PaymentHolds, PaymentsOf(u))
    BY <2>1, <2>3, SumSame
  <2>5. (PaymentHolds')[new] = 0
    BY <1>1, <1>3, <2>2
  <2>6. CASE u = req[p].r.user
    <3>1. PaymentsOf(u)' = PaymentsOf(u) \cup {new}
      BY <1>1, <1>3, <2>6 DEF PaymentsOf
    <3>2. new \notin PaymentsOf(u)
      BY <1>3, <2>1
    <3>3. SumFunctionOnSet(PaymentHolds', PaymentsOf(u) \cup {new})
            = SumFunctionOnSet(PaymentHolds', PaymentsOf(u)) + (PaymentHolds')[new]
      BY <2>1, <2>3, <2>5, <3>2, SumAdd
    <3>4. SumFunctionOnSet(PaymentHolds', PaymentsOf(u)) \in Int
      BY <2>1, <2>3, SumInt
    <3> QED BY <2>4, <2>5, <3>1, <3>3, <3>4
  <2>7. CASE u # req[p].r.user
    <3>1. PaymentsOf(u)' = PaymentsOf(u)
      BY <1>1, <1>3, <2>7 DEF PaymentsOf
    <3> QED BY <2>4, <3>1
  <2> QED BY <2>6, <2>7
<1>7. ExposureIsWhatIsHeld'
  <2>1. ASSUME NEW u \in User \ drifted
        PROVE  Fits(u)'
    <3>1. Fits(u) /\ HeldOf(u)' = HeldOf(u)
      BY <1>2, <1>6 DEF HoldingInv, ExposureIsWhatIsHeld, Fits, Negative, HeldOf, BetHolds, OpenOf
    <3>2. Negative(u) => Negative(u)'
      BY <1>1, <1>3 DEF Negative, PaymentsOf
    <3> QED BY <1>2, <3>1, <3>2 DEF Fits
  <2> QED BY <1>2, <2>1 DEF ExposureIsWhatIsHeld, Fits, Negative
<1> QED BY <1>5, <1>7 DEF HoldingInv

\* A row that held nothing holds what the exposure of its user grows by.
LEMMA HoldHolds ==
  ASSUME Inv, Inv', HoldingInv, NEW p \in Proc, Hold(p)
  PROVE  HoldingInv'
<1> DEFINE i == req[p].row
           v == req[p].r.user
<1>1. PICK h \in Int : h = ToHold(p) /\ (req[p].r.op = "bet" => h \in Nat)
  BY HoldEffect, ToHoldType
<1>2. /\ req[p].at = "hold" /\ req' = [req EXCEPT ![p] = NoRequest] /\ v \in User
      /\ exposure' = [exposure EXCEPT ![v] = @ + h]
      /\ DOMAIN bets' = 1..Len(bets) /\ DOMAIN payments' = 1..Len(payments)
  BY <1>1, HoldEffect, ToHoldType
<1>3. /\ DOMAIN bets = 1..Len(bets) /\ DOMAIN payments = 1..Len(payments)
      /\ \A j \in 1..Len(bets) : bets[j] \in Bet
  BY Rows DEF Inv
<1>4. exposure \in [User -> Int] /\ drifted \subseteq User
  BY DEF HoldingInv, HeldInv
<1>5. /\ \A q \in Proc \ {p} : req'[q] = req[q]
      /\ req'[p].at # "hold"
  BY <1>2 DEF Inv, TypeInv, NoRequest
<1>6. exposure' \in [User -> Int] /\ exposure'[v] = exposure[v] + h
      /\ \A u \in User \ {v} : exposure'[u] = exposure[u]
  BY <1>2, <1>4
<1>7. CASE req[p].r.op = "bet"
  <2>1. /\ i \in 1..Len(bets) /\ bets[i].hold = 0 /\ bets[i].user = v
    BY <1>2, <1>7 DEF Inv, RowInv, HoldingInv, HeldInv
  <2>2. /\ payments' = payments
        /\ \A j \in 1..Len(bets) \ {i} : bets'[j] = bets[j]
        /\ bets'[i] = WithHold(bets[i], h)
        /\ drifted' = IF bets[i].status # "matched" THEN drifted \cup {v} ELSE drifted
    BY <1>1, <1>7, <2>1, HoldEffect
  <2>3. bets'[i].hold = h /\ bets'[i].user = bets[i].user /\ bets'[i].status = bets[i].status
    <3>1. bets[i] \in Bet
      BY <1>3, <2>1
    <3>2. /\ SameTerms(WithHold(bets[i], h), bets[i])
          /\ WithHold(bets[i], h).hold = h /\ WithHold(bets[i], h).status = bets[i].status
      BY <3>1, HeldBet
    <3> QED BY <2>2, <3>2 DEF SameTerms
  <2>4. HeldInv'
    <3>1. \A q \in Proc \ {p} : req[q].at = "hold" /\ req[q].r.op = "bet"
            => req[q].row \in 1..Len(bets) /\ req[q].row # i
      BY <1>2, <1>7 DEF Inv, RowInv, HoldingInv, HeldInv
    <3>2. \A q \in Proc : req'[q].at = "hold" =>
            /\ q # p /\ req'[q] = req[q]
            /\ req'[q].r.op = "bet" => bets'[req'[q].row] = bets[req[q].row]
      BY <1>5, <2>2, <3>1
    <3>3. \A q \in Proc : req'[q].at = "hold" /\ req'[q].r.op = "bet" =>
            bets'[req'[q].row].hold = 0 /\ bets'[req'[q].row].user = req'[q].r.user
      BY <3>2 DEF HoldingInv, HeldInv
    <3>4. \A q \in Proc : req'[q].at = "hold" /\ req'[q].r.op # "bet" =>
            payments'[req'[q].row].hold = 0 /\ payments'[req'[q].row].user = req'[q].r.user
      BY <2>2, <3>2 DEF HoldingInv, HeldInv
    <3>5. \A o, q \in Proc : o # q /\ req'[o].at = "hold" /\ req'[q].at = "hold"
                        /\ (req'[o].r.op = "bet" <=> req'[q].r.op = "bet")
                        => req'[o].row # req'[q].row
      BY <3>2 DEF HoldingInv, HeldInv
    <3>6. drifted' \subseteq User
      BY <1>2, <1>4, <2>2
    <3> QED BY <1>6, <3>3, <3>4, <3>5, <3>6 DEF HeldInv
  <2>5. ASSUME NEW u \in User
        PROVE  /\ IsFiniteSet(OpenOf(u)) /\ OpenOf(u)' = OpenOf(u)
               /\ OpenOf(u) \subseteq 1..Len(bets)
               /\ \A j \in OpenOf(u) : BetHolds[j] \in Nat /\ (BetHolds')[j] \in Nat
               /\ \A j \in OpenOf(u) \ {i} : (BetHolds')[j] = BetHolds[j]
               /\ BetHolds[i] = 0 /\ (BetHolds')[i] = h
    <3>1. /\ IsFiniteSet(OpenOf(u)) /\ OpenOf(u) \subseteq 1..Len(bets)
          /\ \A j \in 1..Len(bets) : BetHolds[j] = bets[j].hold /\ BetHolds[j] \in Nat
      BY HoldTypes DEF Inv
    <3>2. \A j \in 1..Len(bets) : (BetHolds')[j] = bets'[j].hold
      BY <1>2 DEF BetHolds
    <3>3. OpenOf(u)' = OpenOf(u)
      BY <1>2, <1>3, <2>2, <2>3 DEF OpenOf
    <3>4. \A j \in 1..Len(bets) \ {i} : (BetHolds')[j] = BetHolds[j]
      BY <2>2, <3>1, <3>2
    <3> QED BY <1>1, <1>7, <2>1, <2>3, <3>1, <3>2, <3>3, <3>4
  <2>6. ASSUME NEW u \in User \ drifted'
        PROVE  SumFunctionOnSet(BetHolds', OpenOf(u)')
                 = SumFunctionOnSet(BetHolds, OpenOf(u)) + (exposure'[u] - exposure[u])
    <3>1. SumFunctionOnSet(BetHolds, OpenOf(u)) \in Nat
      BY <2>5, SumNat
    <3>2. CASE u = v
      <4>1. i \in OpenOf(u)
        BY <1>3, <2>1, <2>2, <2>6, <3>2 DEF OpenOf
      <4>2. SumFunctionOnSet(BetHolds', OpenOf(u))
              = SumFunctionOnSet(BetHolds, OpenOf(u)) + ((BetHolds')[i] - BetHolds[i])
        <5>1. /\ IsFiniteSet(OpenOf(u)) /\ \A j \in OpenOf(u) : BetHolds[j] \in Int
              /\ \A j \in OpenOf(u) : j # i => (BetHolds')[j] = BetHolds[j]
              /\ (BetHolds')[i] \in Int
          BY <2>5
        <5> HIDE DEF i, v
        <5> QED BY <4>1, <5>1, SumChange
      <4>3. exposure'[u] - exposure[u] = h /\ h - 0 = h
        BY <1>4, <1>6, <3>2
      <4> QED BY <2>5, <4>2, <4>3
    <3>3. CASE u # v
      <4>1. i \notin OpenOf(u)
        BY <2>1, <3>3 DEF OpenOf
      <4>2. SumFunctionOnSet(BetHolds', OpenOf(u)) = SumFunctionOnSet(BetHolds, OpenOf(u))
        BY <2>5, <4>1, SumSame
      <4>3. exposure'[u] - exposure[u] = 0
        BY <1>4, <1>6, <3>3
      <4> QED BY <2>5, <3>1, <4>2, <4>3
    <3> QED BY <3>2, <3>3
  <2>7. ExposureIsWhatIsHeld'
    <3>1. ASSUME NEW u \in User \ drifted'
          PROVE  Fits(u)'
      <4>1. u \in User \ drifted
        BY <2>2
      <4>2. PICK x \in Nat, y \in Int, d \in Int :
              /\ x = SumFunctionOnSet(BetHolds, OpenOf(u))
              /\ y = SumFunctionOnSet(PaymentHolds, PaymentsOf(u))
              /\ d = exposure'[u] - exposure[u]
        BY <1>4, <1>6, HeldTypes DEF Inv
      <4>3. SumFunctionOnSet(BetHolds', OpenOf(u)') = x + d
        BY <2>6, <4>2
      <4>4. SumFunctionOnSet(PaymentHolds', PaymentsOf(u)') = y
        BY <2>2, <4>2 DEF PaymentHolds, PaymentsOf
      <4>5. HeldOf(u) = x + y /\ HeldOf(u)' = (x + d) + y
        BY <4>2, <4>3, <4>4 DEF HeldOf
      <4>6. /\ exposure[u] \in Int /\ exposure'[u] = exposure[u] + d
            /\ HeldOf(u) \in Int /\ HeldOf(u)' = HeldOf(u) + d
        BY <1>4, <1>6, <4>2, <4>5
      <4>7. Fits(u) /\ (Negative(u) => Negative(u)')
        BY <2>2, <4>1 DEF HoldingInv, ExposureIsWhatIsHeld, Fits, Negative, PaymentsOf
      <4> QED BY ONLY <4>6, <4>7, FitsKept
    <3> QED BY <3>1 DEF ExposureIsWhatIsHeld, Fits, Negative
  <2> QED BY <2>4, <2>7 DEF HoldingInv
<1>8. CASE req[p].r.op # "bet"
  <2>1. i \in 1..Len(payments) /\ payments[i].hold = 0 /\ payments[i].user = v
    BY <1>2, <1>8 DEF Inv, RowInv, HoldingInv, HeldInv
  <2>2. /\ bets' = bets /\ drifted' = drifted
        /\ \A j \in 1..Len(payments) :
             payments'[j].user = payments[j].user
             /\ payments'[j].hold = IF j = i THEN h ELSE payments[j].hold
    BY <1>1, <1>8, HoldEffect
  <2>3. HeldInv'
    <3>1. \A q \in Proc \ {p} : req[q].at = "hold" /\ req[q].r.op # "bet"
            => req[q].row \in 1..Len(payments) /\ req[q].row # i
      BY <1>2, <1>8 DEF Inv, RowInv, HoldingInv, HeldInv
    <3>2. \A q \in Proc : req'[q].at = "hold" =>
            /\ q # p /\ req'[q] = req[q]
            /\ req'[q].r.op # "bet" =>
                 /\ payments'[req'[q].row].hold = payments[req[q].row].hold
                 /\ payments'[req'[q].row].user = payments[req[q].row].user
      BY <1>5, <2>2, <3>1
    <3>3. \A q \in Proc : req'[q].at = "hold" /\ req'[q].r.op = "bet" =>
            bets'[req'[q].row].hold = 0 /\ bets'[req'[q].row].user = req'[q].r.user
      BY <2>2, <3>2 DEF HoldingInv, HeldInv
    <3>4. \A q \in Proc : req'[q].at = "hold" /\ req'[q].r.op # "bet" =>
            payments'[req'[q].row].hold = 0 /\ payments'[req'[q].row].user = req'[q].r.user
      BY <3>2 DEF HoldingInv, HeldInv
    <3>5. \A o, q \in Proc : o # q /\ req'[o].at = "hold" /\ req'[q].at = "hold"
                        /\ (req'[o].r.op = "bet" <=> req'[q].r.op = "bet")
                        => req'[o].row # req'[q].row
      BY <3>2 DEF HoldingInv, HeldInv
    <3> QED BY <1>4, <1>6, <2>2, <3>3, <3>4, <3>5 DEF HeldInv
  <2>4. ASSUME NEW u \in User
        PROVE  /\ IsFiniteSet(PaymentsOf(u)) /\ PaymentsOf(u)' = PaymentsOf(u)
               /\ \A j \in PaymentsOf(u) : PaymentHolds[j] \in Int
               /\ \A j \in PaymentsOf(u) \ {i} : (PaymentHolds')[j] = PaymentHolds[j]
               /\ PaymentHolds[i] = 0 /\ (PaymentHolds')[i] = h
    <3>1. /\ IsFiniteSet(PaymentsOf(u)) /\ PaymentsOf(u) \subseteq 1..Len(payments)
          /\ \A j \in 1..Len(payments) : PaymentHolds[j] = payments[j].hold
                                           /\ PaymentHolds[j] \in Int
      BY HoldTypes DEF Inv
    <3>2. \A j \in 1..Len(payments) : (PaymentHolds')[j] = payments'[j].hold
      BY <1>2 DEF PaymentHolds
    <3>3. PaymentsOf(u)' = PaymentsOf(u)
      BY <1>2, <1>3, <2>2 DEF PaymentsOf
    <3>4. \A j \in 1..Len(payments) \ {i} : (PaymentHolds')[j] = PaymentHolds[j]
      BY <2>2, <3>1, <3>2
    <3> QED BY <2>1, <2>2, <3>1, <3>2, <3>3, <3>4
  <2>5. ASSUME NEW u \in User
        PROVE  SumFunctionOnSet(PaymentHolds', PaymentsOf(u)')
                 = SumFunctionOnSet(PaymentHolds, PaymentsOf(u)) + (exposure'[u] - exposure[u])
    <3>1. SumFunctionOnSet(PaymentHolds, PaymentsOf(u)) \in Int
      BY <2>4, SumInt
    <3>2. CASE u = v
      <4>1. i \in PaymentsOf(u)
        BY <1>3, <2>1, <3>2 DEF PaymentsOf
      <4>2. SumFunctionOnSet(PaymentHolds', PaymentsOf(u))
              = SumFunctionOnSet(PaymentHolds, PaymentsOf(u))
                  + ((PaymentHolds')[i] - PaymentHolds[i])
        <5>1. /\ IsFiniteSet(PaymentsOf(u)) /\ \A j \in PaymentsOf(u) : PaymentHolds[j] \in Int
              /\ \A j \in PaymentsOf(u) : j # i => (PaymentHolds')[j] = PaymentHolds[j]
              /\ (PaymentHolds')[i] \in Int
          BY <2>4
        <5> HIDE DEF i, v
        <5> QED BY <4>1, <5>1, SumChange
      <4>3. exposure'[u] - exposure[u] = h /\ h - 0 = h
        BY <1>4, <1>6, <3>2
      <4> QED BY <2>4, <4>2, <4>3
    <3>3. CASE u # v
      <4>1. i \notin PaymentsOf(u)
        BY <2>1, <3>3 DEF PaymentsOf
      <4>2. SumFunctionOnSet(PaymentHolds', PaymentsOf(u))
              = SumFunctionOnSet(PaymentHolds, PaymentsOf(u))
        BY <2>4, <4>1, SumSame
      <4>3. exposure'[u] - exposure[u] = 0
        BY <1>4, <1>6, <3>3
      <4> QED BY <2>4, <3>1, <4>2, <4>3
    <3> QED BY <3>2, <3>3
  <2>6. ExposureIsWhatIsHeld'
    <3>1. ASSUME NEW u \in User \ drifted'
          PROVE  Fits(u)'
      <4>1. u \in User \ drifted
        BY <2>2
      <4>2. PICK x \in Nat, y \in Int, d \in Int :
              /\ x = SumFunctionOnSet(BetHolds, OpenOf(u))
              /\ y = SumFunctionOnSet(PaymentHolds, PaymentsOf(u))
              /\ d = exposure'[u] - exposure[u]
        BY <1>4, <1>6, HeldTypes DEF Inv
      <4>3. SumFunctionOnSet(PaymentHolds', PaymentsOf(u)') = y + d
        BY <2>5, <4>2
      <4>4. SumFunctionOnSet(BetHolds', OpenOf(u)') = x
        BY <2>2, <4>2 DEF BetHolds, OpenOf
      <4>5. HeldOf(u) = x + y /\ HeldOf(u)' = x + (y + d)
        BY <4>2, <4>3, <4>4 DEF HeldOf
      <4>6. /\ exposure[u] \in Int /\ exposure'[u] = exposure[u] + d
            /\ HeldOf(u) \in Int /\ HeldOf(u)' = HeldOf(u) + d
        BY <1>4, <1>6, <4>2, <4>5
      <4>7. Fits(u)
        BY <4>1 DEF HoldingInv, ExposureIsWhatIsHeld, Fits, Negative
      <4>8. Negative(u) => Negative(u)'
        <5>1. ~(0 < 0) /\ PaymentsOf(u)' = PaymentsOf(u)
          BY <2>4
        <5>0. PaymentsOf(u) \subseteq 1..Len(payments)
          BY <1>3 DEF PaymentsOf
        <5>2. \A j \in PaymentsOf(u) : payments[j].hold < 0 => payments'[j].hold < 0
          BY <2>1, <2>2, <5>0, <5>1
        <5> QED BY <5>1, <5>2 DEF Negative
      <4> QED BY ONLY <4>6, <4>7, <4>8, FitsKept
    <3> QED BY <3>1 DEF ExposureIsWhatIsHeld, Fits, Negative
  <2> QED BY <2>3, <2>6 DEF HoldingInv
<1> QED BY <1>7, <1>8

\* The bets of a user that are being closed are among the user's open ones; what closing
\* frees is natural, so that an exposure grows only from below zero to zero.
LEMMA ReleaseTypes ==
  ASSUME TypeInv, exposure \in [User -> Int], NEW closing, closing \subseteq 1..Len(bets),
         \A i \in closing : bets[i].status = "matched",
         exposure' = Released(closing)
  PROVE  /\ exposure' \in [User -> Int]
         /\ \A u \in User :
              /\ OfUser(u, closing) \subseteq OpenOf(u)
              /\ SumFunctionOnSet(Stakes, OfUser(u, closing)) \in Nat
              /\ exposure'[u] <= exposure[u] \/ exposure'[u] = 0
              /\ exposure'[u] = IF OfUser(u, closing) = {} THEN exposure[u]
                   ELSE NonNegative(exposure[u]
                                      - SumFunctionOnSet(Stakes, OfUser(u, closing)))
<1>1. ASSUME NEW u \in User
      PROVE  /\ OfUser(u, closing) \subseteq OpenOf(u)
             /\ SumFunctionOnSet(Stakes, OfUser(u, closing)) \in Nat
  <2> DEFINE own == OfUser(u, closing)
  <2>1. DOMAIN bets = 1..Len(bets) /\ \A i \in 1..Len(bets) : bets[i] \in Bet
    BY Rows
  <2>2. own \subseteq OpenOf(u) /\ own \subseteq 1..Len(bets)
    BY <2>1 DEF OfUser, OpenOf
  <2>3. IsFiniteSet(own)
    BY <2>2, HoldTypes, FS_Subset
  <2>4. \A i \in own : Stakes[i] \in Nat
    BY <2>1, <2>2 DEF Stakes, Bet
  <2> QED BY <2>2, <2>3, <2>4, SumNat
<1>2. ASSUME NEW u \in User
      PROVE  /\ exposure'[u] = IF OfUser(u, closing) = {} THEN exposure[u]
                  ELSE NonNegative(exposure[u] - SumFunctionOnSet(Stakes, OfUser(u, closing)))
             /\ exposure'[u] \in Int /\ (exposure'[u] <= exposure[u] \/ exposure'[u] = 0)
  <2>1. exposure'[u] = IF OfUser(u, closing) = {} THEN exposure[u]
           ELSE NonNegative(exposure[u] - SumFunctionOnSet(Stakes, OfUser(u, closing)))
    BY DEF Released
  <2>2. PICK x \in Nat : x = SumFunctionOnSet(Stakes, OfUser(u, closing))
    BY <1>1
  <2>3. exposure[u] \in Int
    OBVIOUS
  <2> QED BY <2>1, <2>2, <2>3 DEF NonNegative
<1>3. exposure' \in [User -> Int]
  BY <1>2 DEF Released
<1> QED BY <1>1, <1>2, <1>3

\* What a closing frees is what it held, for whoever has not drifted: the exposure stays
\* what the other bets and the withdrawals hold, unless the clamp at zero leaves more of
\* it, which it does only to a user with a negative withdrawal.
LEMMA ClosingHolds ==
  ASSUME Inv, HoldingInv, NEW closing, Closes(closing),
         exposure' = Released(closing), drifted' = DriftedBy(closing),
         payments' = payments, req' = req
  PROVE  HoldingInv' /\ \A u \in User : exposure'[u] <= exposure[u] \/ exposure'[u] = 0
<1>1. /\ DOMAIN bets = 1..Len(bets) /\ DOMAIN bets' = 1..Len(bets)
      /\ \A i \in 1..Len(bets) : bets[i] \in Bet
      /\ closing \subseteq 1..Len(bets)
      /\ \A i \in closing : bets[i].status = "matched" /\ bets'[i].status # "matched"
      /\ \A i \in 1..Len(bets) : bets'[i].user = bets[i].user /\ bets'[i].hold = bets[i].hold
      /\ \A i \in 1..Len(bets) \ closing : bets'[i] = bets[i]
  BY Rows DEF Closes, Inv, SameTerms
<1>2. exposure \in [User -> Int] /\ drifted \subseteq User
  BY DEF HoldingInv, HeldInv
<1>3. /\ exposure' \in [User -> Int]
      /\ \A u \in User :
           /\ OfUser(u, closing) \subseteq OpenOf(u)
           /\ SumFunctionOnSet(Stakes, OfUser(u, closing)) \in Nat
           /\ exposure'[u] <= exposure[u] \/ exposure'[u] = 0
           /\ exposure'[u] = IF OfUser(u, closing) = {} THEN exposure[u]
                ELSE NonNegative(exposure[u] - SumFunctionOnSet(Stakes, OfUser(u, closing)))
  BY <1>1, <1>2, ReleaseTypes DEF Inv
<1>4. /\ drifted' \subseteq User /\ drifted \subseteq drifted'
      /\ \A u \in User \ drifted' : \A i \in OfUser(u, closing) : bets[i].hold = bets[i].stake
  BY <1>1, <1>2 DEF DriftedBy, OfUser, Bet
<1>5. HeldInv'
  <2>1. \A q \in Proc : req[q].at = "hold" /\ req[q].r.op = "bet"
          => req[q].row \in 1..Len(bets)
    BY DEF Inv, RowInv
  <2> QED BY <1>1, <1>3, <1>4, <2>1 DEF HoldingInv, HeldInv
<1>6. ASSUME NEW u \in User \ drifted'
      PROVE  Fits(u)'
  <2> DEFINE own == OfUser(u, closing)
             rest == OpenOf(u) \ own
  <2>1. /\ IsFiniteSet(OpenOf(u)) /\ OpenOf(u) \subseteq 1..Len(bets)
        /\ \A i \in 1..Len(bets) : BetHolds[i] = bets[i].hold /\ BetHolds[i] \in Nat
    BY HoldTypes DEF Inv
  <2>2. OpenOf(u)' = rest
    BY <1>1 DEF OpenOf, OfUser
  <2>3. \A i \in 1..Len(bets) : (BetHolds')[i] = BetHolds[i]
    BY <1>1, <2>1 DEF BetHolds
  <2>4. own \subseteq OpenOf(u)
    BY <1>3
  <2>5. \A i \in own : Stakes[i] = BetHolds[i]
    BY <1>1, <1>4, <2>1, <2>4 DEF Stakes
  <2> HIDE DEF own, rest
  <2>6. IsFiniteSet(own) /\ IsFiniteSet(rest)
    BY <2>1, <2>4, FS_Subset DEF rest
  <2>7. SumFunctionOnSet(Stakes, own) = SumFunctionOnSet(BetHolds, own)
    BY <2>5, <2>6, SumSame
  <2>8. SumFunctionOnSet(BetHolds', rest) = SumFunctionOnSet(BetHolds, rest)
    BY <2>1, <2>3, <2>6, SumSame DEF rest
  <2>9. SumFunctionOnSet(BetHolds, OpenOf(u))
          = SumFunctionOnSet(BetHolds, own) + SumFunctionOnSet(BetHolds, rest)
    BY <2>1, <2>4, SumDisjoint DEF rest
  <2>10. PICK x \in Nat, y \in Nat, z \in Int :
           /\ x = SumFunctionOnSet(BetHolds, own) /\ y = SumFunctionOnSet(BetHolds, rest)
           /\ z = SumFunctionOnSet(PaymentHolds, PaymentsOf(u))
           /\ Negative(u) \/ z \in Nat
    <3>1. \A i \in own : BetHolds[i] \in Nat
      BY <2>1, <2>4
    <3>2. \A i \in rest : BetHolds[i] \in Nat
      BY <2>1 DEF rest
    <3> QED BY <2>6, <3>1, <3>2, HeldTypes, SumNat DEF Inv
  <2>11. PICK e \in Int : e = exposure[u] /\ e >= (x + y) + z /\ (e > (x + y) + z => Negative(u))
    <3>1. HeldOf(u) = (x + y) + z /\ exposure[u] \in Int
      BY <1>2, <2>9, <2>10 DEF HeldOf
    <3>2. Fits(u)
      BY <1>4 DEF HoldingInv, ExposureIsWhatIsHeld, Fits, Negative
    <3> QED BY <3>1, <3>2 DEF Fits
  <2>12. own = {} => x = 0
    BY <2>10, SumEmpty
  <2>13. PICK f \in Int : f = exposure'[u] /\ f >= y + z /\ (f > y + z => Negative(u))
    <3>1. exposure'[u] = IF own = {} THEN e ELSE NonNegative(e - x)
      BY <1>3, <2>7, <2>10, <2>11 DEF own
    <3>2. CASE own = {}
      BY <2>10, <2>11, <2>12, <3>1, <3>2
    <3>3. CASE own # {} /\ e - x < 0
      <4>1. exposure'[u] = 0
        BY <3>1, <3>3 DEF NonNegative
      <4>2. Negative(u)
        BY <2>10, <2>11, <3>3
      <4>3. 0 >= y + z
        BY <2>10, <2>11, <3>3
      <4> QED BY <4>1, <4>2, <4>3
    <3>4. CASE own # {} /\ ~(e - x < 0)
      <4>1. exposure'[u] = e - x
        BY <3>1, <3>4 DEF NonNegative
      <4> QED BY <2>10, <2>11, <4>1
    <3> QED BY <3>2, <3>3, <3>4
  <2>14. HeldOf(u)' = y + z
    BY <2>2, <2>8, <2>10 DEF HeldOf, PaymentHolds, PaymentsOf
  <2>15. Negative(u)' <=> Negative(u)
    BY DEF Negative, PaymentsOf
  <2> QED BY <2>13, <2>14, <2>15 DEF Fits
<1>7. ExposureIsWhatIsHeld'
  BY <1>6 DEF ExposureIsWhatIsHeld, Fits, Negative
<1> QED BY <1>3, <1>5, <1>7 DEF HoldingInv

\* What HoldFunds may do to exposures, and nothing else does.
Covered ==
  \A u \in User : exposure'[u] > exposure[u] /\ exposure'[u] # 0
                    => exposure'[u] <= balance'[u]

\* A step in which no exposure grows, unless to zero.
LEMMA NoGrowth ==
  ASSUME HoldingInv, HoldingInv',
         \A u \in User : exposure'[u] <= exposure[u] \/ exposure'[u] = 0
  PROVE  Covered
<1>1. \A u \in User : exposure[u] \in Int /\ exposure'[u] \in Int
  BY DEF HoldingInv, HeldInv
<1> QED BY <1>1 DEF Covered

\* HoldFunds checks what is available again, under the lock it writes under.
LEMMA HoldCovers ==
  ASSUME Inv, HoldingInv, NEW p \in Proc, Hold(p), balance \in [User -> Int]
  PROVE  Covered
<1> DEFINE v == req[p].r.user
<1>1. PICK h \in Int : h = ToHold(p)
  BY HoldEffect
<1>2. v \in User /\ exposure' = [exposure EXCEPT ![v] = @ + h] /\ Available(v) >= h
  BY <1>1, HoldEffect, ToHoldType
<1>3. balance' = balance /\ exposure \in [User -> Int]
  BY DEF Hold, HoldingInv, HeldInv
<1>4. \A u \in User \ {v} : exposure'[u] = exposure[u] /\ exposure[u] \in Int
  BY <1>2, <1>3
<1>5. exposure'[v] <= balance'[v]
  <2>1. exposure'[v] = exposure[v] + h /\ exposure[v] \in Int /\ balance[v] \in Int
    BY <1>2, <1>3
  <2>2. balance[v] - exposure[v] >= h
    BY <1>2 DEF Available
  <2> HIDE DEF v
  <2> QED BY <1>3, <2>1, <2>2
<1>6. \A n \in Int : ~(n > n)
  OBVIOUS
<1> HIDE DEF v
<1> QED BY <1>4, <1>5, <1>6 DEF Covered

\* Every step keeps the second layer.
LEMMA HoldingStep ==
  ASSUME Inv, Inv', HoldingInv, balance \in [User -> Int], [Next]_vars
  PROVE  HoldingInv' /\ Covered
<1>1. exposure \in [User -> Int] /\ \A u \in User : exposure[u] <= exposure[u]
  BY DEF HoldingInv, HeldInv
<1>2. ASSUME exposure' = exposure, drifted' = drifted, bets' = bets, payments' = payments,
             \A q \in Proc : req'[q] = req[q] \/ req'[q].at # "hold"
      PROVE  HoldingInv' /\ Covered
  BY <1>1, <1>2, HoldingFrame, NoGrowth
<1>3. ASSUME NEW p \in Proc, Serve(p)
      PROVE  HoldingInv' /\ Covered
  <2>1. CASE Checking(p)
    BY <1>2, <2>1, CheckingEffect DEF moneyVars
  <2>2. CASE Place(p) \/ CreatePaymentTx(p)
    <3>1. exposure' = exposure
      BY <2>2 DEF Place, CreatePaymentTx, moneyVars
    <3>2. HoldingInv'
      BY <2>2, PlaceHolds, CreatePaymentHolds
    <3> QED BY <1>1, <3>1, <3>2, NoGrowth
  <2>3. CASE Hold(p)
    BY <2>3, HoldHolds, HoldCovers
  <2> QED BY <1>3, <2>1, <2>2, <2>3, ServeCases
<1>4. ASSUME NEW p \in Proc, NEW r \in Requests, Receive(p, r)
      PROVE  HoldingInv' /\ Covered
  <2>1. req'[p].at # "hold" /\ \A q \in Proc \ {p} : req'[q] = req[q]
    BY <1>4 DEF Receive, Inv, TypeInv
  <2> QED BY <1>2, <1>4, <2>1 DEF Receive, moneyVars
<1>5. ASSUME NEW closing, Closes(closing), exposure' = Released(closing),
             drifted' = DriftedBy(closing), payments' = payments, req' = req
      PROVE  HoldingInv' /\ Covered
  BY <1>5, ClosingHolds, NoGrowth
<1>6. ASSUME NEW m \in Market, Administer(m)
      PROVE  HoldingInv' /\ Covered
  <2>0. TypeInv
    BY DEF Inv
  <2>1. ASSUME NEW winner \in Selection, SettleMarket(m, winner)
        PROVE  HoldingInv' /\ Covered
    <3>1. /\ exposure' = Released(OpenOn(m)) /\ drifted' = DriftedBy(OpenOn(m))
          /\ payments' = payments /\ req' = req
      BY <2>1 DEF SettleMarket
    <3> QED BY <1>5, <2>0, <2>1, <3>1, SettleEffect
  <2>2. CASE VoidMarket(m)
    <3>1. /\ exposure' = Released(OpenOn(m)) /\ drifted' = DriftedBy(OpenOn(m))
          /\ payments' = payments /\ req' = req
      BY <2>2 DEF VoidMarket
    <3> QED BY <1>5, <2>0, <2>2, <3>1, VoidEffect
  <2>3. CASE ~VoidMarket(m) /\ ~\E winner \in Selection : SettleMarket(m, winner)
    BY <1>2, <1>6, <2>3 DEF Administer, SuspendMarket, ResumeMarket, SetMarket,
                            MergeOddsIntoStore, OddsFluctuation, moneyVars
  <2> QED BY <2>1, <2>2, <2>3
<1>7. ASSUME NEW i \in DOMAIN bets, CashoutAccept(i)
      PROVE  HoldingInv' /\ Covered
  <2>1. /\ exposure' = Released({i}) /\ drifted' = DriftedBy({i})
        /\ payments' = payments /\ req' = req
    BY <1>7 DEF CashoutAccept
  <2>2. Closes({i})
    BY <1>7, CashoutEffect DEF Inv
  <2> QED BY <1>5, <2>1, <2>2
<1>8. ASSUME NEW u \in User, Account(u)
      PROVE  HoldingInv' /\ Covered
  BY <1>2, <1>8 DEF Account, CreateUser, TransferCredit, CreateDemoUser, SelfExclude,
                    PanelUpdateStatus, moneyVars
<1>9. CASE UNCHANGED vars
  BY <1>2, <1>9 DEF vars
<1>10. CASE Next
  BY <1>3, <1>4, <1>6, <1>7, <1>8, <1>10 DEF Next
<1> QED BY <1>9, <1>10

\* Nothing is held at the start.
LEMMA InitHolding == Init => HoldingInv
<1> SUFFICES ASSUME Init PROVE HoldingInv
  OBVIOUS
<1>1. /\ exposure = [u \in User |-> 0] /\ drifted = {} /\ bets = <<>> /\ payments = <<>>
      /\ \A p \in Proc : req[p].at # "hold"
  BY DEF Init, NoRequest
<1>2. HeldInv
  BY <1>1 DEF HeldInv
<1>3. \A u \in User : OpenOf(u) = {} /\ PaymentsOf(u) = {}
  BY <1>1 DEF OpenOf, PaymentsOf
<1>4. SumFunctionOnSet(BetHolds, {}) = 0 /\ SumFunctionOnSet(PaymentHolds, {}) = 0
  BY SumEmpty
<1>5. ExposureIsWhatIsHeld
  <2>1. ASSUME NEW u \in User
        PROVE  exposure[u] = 0 /\ HeldOf(u) = 0
    <3>1. exposure[u] = 0
      BY <1>1
    <3>2. SumFunctionOnSet(BetHolds, OpenOf(u)) = 0
      BY <1>3, <1>4
    <3>3. SumFunctionOnSet(PaymentHolds, PaymentsOf(u)) = 0
      BY <1>3, <1>4
    <3> QED BY <3>1, <3>2, <3>3 DEF HeldOf
  <2> QED BY <2>1 DEF ExposureIsWhatIsHeld
<1> QED BY <1>2, <1>5 DEF HoldingInv



-----------------------------------------------------------------------------
\* The third layer: the books.

Statuses == {"none", "active", "suspended", "blocked"}

\* The requests that CheckAccount has let through.
Vetted == {"market", "odds"} \cup Checked

AccountTypes ==
  /\ balance \in [User -> Int]
  /\ status \in [User -> Statuses]
  /\ excluded \subseteq User
  /\ market \in [Market -> {"open", "suspended", "settled", "void"}]
  /\ revenue \in [commission : Nat, bookmaker : Int]
  /\ requests \in Nat /\ operations \in Nat /\ issued \in Int

KnownInv ==
  /\ \A u \in User : status[u] = "none" => balance[u] = 0
  /\ \A i \in 1..Len(bets) : status[bets[i].user] # "none"
  /\ \A p \in Proc : req[p].at \in Vetted => status[req[p].r.user] # "none"

UnpaidInv ==
  \A i \in 1..Len(bets) : bets[i].status = "matched" =>
    bets[i].cashed = FALSE /\ bets[i].profit = 0

Books ==
  SumFunctionOnSet(balance, User) = issued + Wins - revenue.commission - revenue.bookmaker

BookInv == AccountTypes /\ KnownInv /\ UnpaidInv /\ Books

\* What a bet adds to the wins.
Outside(b) == b.cashed = TRUE \/ ~IsHouseMarket(b.market)
Net(rows) == [i \in 1..Len(rows) |-> IF Outside(rows[i]) THEN rows[i].profit ELSE 0]
WinsOf(rows) == SumFunctionOnSet(Net(rows), 1..Len(rows))

\* Net is a function to integers on a finite set.
LEMMA NetTypes ==
  ASSUME NEW rows \in Seq(Bet)
  PROVE  /\ IsFiniteSet(1..Len(rows)) /\ Len(rows) \in Nat
         /\ \A i \in 1..Len(rows) :
              /\ rows[i] \in Bet /\ Net(rows)[i] \in Int
              /\ Net(rows)[i] = IF Outside(rows[i]) THEN rows[i].profit ELSE 0
         /\ WinsOf(rows) \in Int
<1>1. Len(rows) \in Nat /\ \A i \in 1..Len(rows) : rows[i] \in Bet
  BY ElementOfSeq
<1>2. IsFiniteSet(1..Len(rows))
  BY <1>1, FS_Interval
<1>3. \A i \in 1..Len(rows) : rows[i].profit \in Int
  BY <1>1 DEF Bet
<1>4. \A i \in 1..Len(rows) :
        /\ Net(rows)[i] = IF Outside(rows[i]) THEN rows[i].profit ELSE 0
        /\ Net(rows)[i] \in Int
  BY <1>3 DEF Net
<1>5. WinsOf(rows) \in Int
  BY <1>2, <1>4, SumInt DEF WinsOf
<1> QED BY <1>1, <1>2, <1>4, <1>5

\* The wins, added up over all bets.
LEMMA WinsAreNets ==
  ASSUME NEW rows \in Seq(Bet), NEW profits, NEW outside,
         profits = [i \in DOMAIN rows |-> rows[i].profit],
         outside = {i \in DOMAIN rows : rows[i].cashed \/ ~IsHouseMarket(rows[i].market)}
  PROVE  SumFunctionOnSet(profits, outside) = WinsOf(rows)
<1> DEFINE all == 1..Len(rows)
<1>1. /\ DOMAIN rows = all /\ IsFiniteSet(all)
      /\ \A i \in all : /\ rows[i] \in Bet /\ Net(rows)[i] \in Int
                        /\ Net(rows)[i] = IF Outside(rows[i]) THEN rows[i].profit ELSE 0
  BY NetTypes
<1>2. \A i \in all : (rows[i].cashed <=> rows[i].cashed = TRUE)
  BY <1>1 DEF Bet
<1>3. outside \subseteq all /\ \A i \in all : i \in outside <=> Outside(rows[i])
  BY <1>1, <1>2 DEF Outside
<1>4. \A i \in outside : profits[i] = Net(rows)[i]
  BY <1>1, <1>3
<1>5. \A i \in all \ outside : Net(rows)[i] = 0
  BY <1>1, <1>3
<1> HIDE DEF all
<1>6. IsFiniteSet(outside) /\ IsFiniteSet(all \ outside)
  BY <1>1, <1>3, FS_Subset
<1>7. SumFunctionOnSet(profits, outside) = SumFunctionOnSet(Net(rows), outside)
  BY <1>4, <1>6, SumSame
<1>8. SumFunctionOnSet(Net(rows), all \ outside) = 0
  BY <1>5, <1>6, SumZero
<1>9. SumFunctionOnSet(Net(rows), all)
        = SumFunctionOnSet(Net(rows), outside) + SumFunctionOnSet(Net(rows), all \ outside)
  BY <1>1, <1>3, SumDisjoint
<1>10. SumFunctionOnSet(Net(rows), outside) \in Int
  BY <1>1, <1>3, <1>6, SumInt
<1>11. PICK x \in Int : x = SumFunctionOnSet(Net(rows), outside)
  BY <1>10
<1>12. SumFunctionOnSet(Net(rows), all) = x
  BY <1>8, <1>9, <1>11
<1> QED BY <1>7, <1>11, <1>12 DEF WinsOf, all

\* Before and after a step.
LEMMA WinsNow ==
  ASSUME TypeInv, TypeInv'
  PROVE  Wins = WinsOf(bets) /\ Wins' = WinsOf(bets') /\ WinsOf(bets) \in Int
<1>1. bets \in Seq(Bet) /\ bets' \in Seq(Bet)
  BY DEF TypeInv
<1>2. Wins = WinsOf(bets)
  BY <1>1, WinsAreNets DEF Wins, Profits, OutsideTheBook
<1>3. Wins' = WinsOf(bets')
  BY <1>1, WinsAreNets DEF Wins, Profits, OutsideTheBook
<1> QED BY <1>1, <1>2, <1>3, NetTypes

\* Wins depend on the outcomes only.
LEMMA WinsSame ==
  ASSUME NEW rows \in Seq(Bet), NEW next \in Seq(Bet), Len(next) = Len(rows),
         \A i \in 1..Len(rows) : /\ next[i].market = rows[i].market
                                 /\ next[i].cashed = rows[i].cashed
                                 /\ next[i].profit = rows[i].profit
  PROVE  WinsOf(next) = WinsOf(rows)
<1>1. \A i \in 1..Len(rows) : Net(rows)[i] = Net(next)[i]
  BY DEF Net, Outside
<1>2. IsFiniteSet(1..Len(rows))
  BY NetTypes
<1>3. SumFunctionOnSet(Net(rows), 1..Len(rows)) = SumFunctionOnSet(Net(next), 1..Len(rows))
  BY <1>1, <1>2, SumSame
<1> QED BY <1>3 DEF WinsOf

\* A step that moves no money and brings no stranger's bet.
LEMMA BookFrame ==
  ASSUME Inv, Inv', BookInv, AccountTypes',
         balance' = balance, issued' = issued, revenue' = revenue,
         Len(bets') = Len(bets),
         \A i \in 1..Len(bets) :
           /\ bets'[i].user = bets[i].user /\ bets'[i].market = bets[i].market
           /\ bets'[i].cashed = bets[i].cashed /\ bets'[i].profit = bets[i].profit
           /\ bets'[i].status = "matched" => bets[i].status = "matched",
         \A u \in User : status'[u] = "none" <=> status[u] = "none",
         \A p \in Proc : \/ req'[p] = req[p] \/ req'[p].at \notin Vetted
                         \/ req'[p].r.user \in User /\ status[req'[p].r.user] # "none"
  PROVE  BookInv'
<1>1. TypeInv /\ TypeInv'
  BY DEF Inv
<1>2. bets \in Seq(Bet) /\ bets' \in Seq(Bet)
  BY <1>1 DEF TypeInv
<1>3. Wins' = Wins
  <2>1. WinsOf(bets') = WinsOf(bets)
    BY <1>2, WinsSame
  <2> QED BY <1>1, <2>1, WinsNow
<1>4. Books'
  BY <1>3 DEF Books, BookInv
<1>5. UnpaidInv'
  BY DEF UnpaidInv, BookInv
<1>6. KnownInv'
  <2>1. \A i \in 1..Len(bets) : bets[i].user \in User
    BY <1>1, Rows DEF Bet
  <2>2. \A p \in Proc : req[p].at \in Vetted => req[p].r.user \in User
    BY <1>1, RequestFields DEF Vetted, Checked, Inv, PriceInv, Asked, BetRequest
  <2>3. \A p \in Proc : req'[p].at \in Vetted => status'[req'[p].r.user] # "none"
    BY <2>2 DEF KnownInv, BookInv
  <2>4. \A i \in 1..Len(bets') : status'[bets'[i].user] # "none"
    BY <2>1 DEF KnownInv, BookInv
  <2>5. \A u \in User : status'[u] = "none" => balance'[u] = 0
    BY DEF KnownInv, BookInv
  <2> QED BY <2>3, <2>4, <2>5 DEF KnownInv
<1> QED BY <1>4, <1>5, <1>6 DEF BookInv

\* A new bet has won nothing.
LEMMA PlaceBooks ==
  ASSUME Inv, Inv', BookInv, NEW p \in Proc, Place(p)
  PROVE  BookInv'
<1> DEFINE new == Len(bets) + 1
           b == NewBet(p)
<1>1. /\ req[p].at = "place" /\ req[p].r \in BetRequest
      /\ bets' \in Seq(Bet) /\ Len(bets') = new
      /\ \A i \in 1..Len(bets) : bets'[i] = bets[i]
      /\ bets'[new] = b
      /\ req'[p].at = "hold" /\ \A q \in Proc \ {p} : req'[q] = req[q]
  BY PlaceEffect
<1>2. UNCHANGED <<balance, issued, revenue, status, excluded, market, requests, operations>>
  BY DEF Place, moneyVars
<1>3. /\ bets \in Seq(Bet) /\ Len(bets) \in Nat
      /\ new \notin 1..Len(bets) /\ 1..new = 1..Len(bets) \cup {new}
  BY Rows DEF Inv, TypeInv
<1>4. /\ b.user = req[p].r.user /\ b.status = "matched" /\ b.cashed = FALSE /\ b.profit = 0
  BY DEF NewBet
<1> HIDE DEF new, b
<1>5. WinsOf(bets') = WinsOf(bets)
  <2>1. /\ IsFiniteSet(1..Len(bets)) /\ WinsOf(bets) \in Int
        /\ \A i \in 1..Len(bets) : Net(bets)[i] \in Int
    BY <1>3, NetTypes
  <2>2. \A i \in 1..new : Net(bets')[i] \in Int
    BY <1>1, NetTypes
  <2>3. Net(bets')[new] = 0
    BY <1>1, <1>3, <1>4 DEF Net
  <2>4. \A i \in 1..Len(bets) : Net(bets)[i] = Net(bets')[i]
    BY <1>1, <1>3 DEF Net, Outside
  <2>5. SumFunctionOnSet(Net(bets), 1..Len(bets)) = SumFunctionOnSet(Net(bets'), 1..Len(bets))
    BY <2>1, <2>4, SumSame
  <2>6. SumFunctionOnSet(Net(bets'), 1..Len(bets) \cup {new})
          = SumFunctionOnSet(Net(bets'), 1..Len(bets)) + Net(bets')[new]
    BY <1>3, <2>1, <2>2, SumAdd
  <2>7. WinsOf(bets') = SumFunctionOnSet(Net(bets'), 1..Len(bets) \cup {new})
    BY <1>1, <1>3 DEF WinsOf
  <2>8. WinsOf(bets') = WinsOf(bets) + 0
    BY <2>3, <2>5, <2>6, <2>7 DEF WinsOf
  <2> QED BY <2>1, <2>8
<1>6. Books'
  BY <1>2, <1>5, WinsNow DEF Books, BookInv, Inv
<1>7. UnpaidInv'
  BY <1>1, <1>3, <1>4 DEF UnpaidInv, BookInv
<1>8. KnownInv'
  <2>1. status[b.user] # "none"
    BY <1>1, <1>4 DEF BookInv, KnownInv, Vetted, Checked
  <2>2. \A q \in Proc : req'[q].at \in Vetted => status[req'[q].r.user] # "none"
    BY <1>1 DEF BookInv, KnownInv, Vetted, Checked
  <2>3. \A i \in 1..Len(bets') : status[bets'[i].user] # "none"
    BY <1>1, <1>3, <2>1 DEF BookInv, KnownInv
  <2> QED BY <1>2, <2>2, <2>3 DEF KnownInv, BookInv
<1>9. AccountTypes'
  BY <1>2 DEF AccountTypes, BookInv
<1> QED BY <1>6, <1>7, <1>8, <1>9 DEF BookInv

\* The outcomes, the fees and the payments of the bets that settling closes.
PnlOn(m, winner) == [i \in OpenOn(m) |-> Pnl(bets[i], winner)]
FeesOn(m, winner) == [i \in OpenOn(m) |-> Fee(PnlOn(m, winner)[i])]
PaysOn(m, winner) == [i \in OpenOn(m) |-> PnlOn(m, winner)[i] - FeesOn(m, winner)[i]]

\* What settling pays the users is what the bets won less the fees.
LEMMA PaidOut ==
  ASSUME Inv, BookInv, NEW m \in Market, NEW winner \in Selection,
         SettleMarket(m, winner),
         NEW closing, closing = OpenOn(m), NEW pnl, pnl = PnlOn(m, winner),
         NEW fee, fee = FeesOn(m, winner)
  PROVE  /\ balance' \in [User -> Int]
         /\ SumFunctionOnSet(pnl, closing) \in Int /\ SumFunctionOnSet(fee, closing) \in Nat
         /\ SumFunctionOnSet(balance', User)
              = SumFunctionOnSet(balance, User)
                  + (SumFunctionOnSet(pnl, closing) - SumFunctionOnSet(fee, closing))
         /\ SumFunctionOnSet(balance, User) \in Int
         /\ \A u \in User : status[u] = "none" => balance'[u] = 0
<1> DEFINE pays == PaysOn(m, winner)
           paid == [u \in User |-> SumFunctionOnSet(pays, OfUser(u, closing))]
<1>a. /\ closing \subseteq 1..Len(bets) /\ \A i \in closing : bets[i] \in Bet
  BY Rows DEF OpenOn, Inv
<1>b. \A i \in closing : /\ pnl[i] \in Int /\ fee[i] \in Nat
                         /\ pays[i] = pnl[i] - fee[i]
  BY <1>a, AmountTypes DEF PnlOn, FeesOn, PaysOn
<1>c. balance' = [u \in User |-> balance[u] + paid[u]]
  BY DEF SettleMarket, PnlOn, FeesOn, PaysOn
<1>d. \A u \in User : /\ paid[u] = SumFunctionOnSet(pays, OfUser(u, closing))
                      /\ balance'[u] = balance[u] + paid[u]
  BY <1>c
<1> HIDE DEF pays, paid
<1>1. /\ \A i \in closing : bets[i] \in Bet /\ bets[i].user \in User
      /\ IsFiniteSet(closing) /\ IsFiniteSet(User)
  <2>1. /\ Len(bets) \in Nat /\ \A i \in 1..Len(bets) : bets[i] \in Bet
    BY Rows DEF Inv
  <2>2. IsFiniteSet(1..Len(bets))
    <3>1. 1 \in Int /\ Len(bets) \in Int
      BY <2>1
    <3> QED BY ONLY <3>1, FS_Interval
  <2> QED BY <1>a, <2>1, <2>2, FS_Subset, HouseAssumption DEF Bet
<1>2. \A i \in closing : pays[i] \in Int
  BY <1>b
<1>3. SumFunctionOnSet(pnl, closing) \in Int /\ SumFunctionOnSet(fee, closing) \in Nat
        /\ SumFunctionOnSet(pays, closing) \in Int
  BY <1>1, <1>2, <1>b, SumInt, SumNat
<1>4. SumFunctionOnSet(pnl, closing)
        = SumFunctionOnSet(pays, closing) + SumFunctionOnSet(fee, closing)
  <2>1. \A i \in closing : pays[i] \in Int /\ fee[i] \in Int /\ pnl[i] = pays[i] + fee[i]
    BY <1>b
  <2> QED BY <1>1, <2>1, SumPlus
<1>5. SumFunctionOnSet(paid, User) = SumFunctionOnSet(pays, closing)
  <2> DEFINE whose == [i \in closing |-> bets[i].user]
             part == [u \in User |-> OfUser(u, closing)]
  <2>1. \A i \in closing : whose[i] \in User
    BY <1>1
  <2>2. /\ \A u \in User : \A i : i \in part[u] <=> i \in closing /\ whose[i] = u
        /\ \A u \in User : paid[u] = SumFunctionOnSet(pays, part[u])
    BY <1>d DEF OfUser
  <2>3. IsFiniteSet(closing) /\ IsFiniteSet(User)
    BY <1>1
  <2> HIDE DEF whose, part
  <2> QED BY ONLY <1>2, <2>1, <2>2, <2>3, SumPartition
<1>6. \A u \in User : paid[u] \in Int
  <2>1. ASSUME NEW u \in User
        PROVE  SumFunctionOnSet(pays, OfUser(u, closing)) \in Int
    <3>1. OfUser(u, closing) \subseteq closing
      BY DEF OfUser
    <3>2. IsFiniteSet(OfUser(u, closing))
      BY <1>1, <3>1, FS_Subset
    <3> QED BY <1>2, <3>1, <3>2, SumInt
  <2> QED BY <1>d, <2>1
<1>7. \A u \in User : /\ balance[u] \in Int /\ balance'[u] \in Int
                      /\ balance'[u] = balance[u] + paid[u]
  BY <1>6, <1>d DEF BookInv, AccountTypes
<1>8. SumFunctionOnSet(balance', User)
        = SumFunctionOnSet(balance, User) + SumFunctionOnSet(paid, User)
  BY <1>1, <1>6, <1>7, SumPlus
<1>9. SumFunctionOnSet(balance, User) \in Int
  BY <1>1, <1>7, SumInt
<1>10. ASSUME NEW u \in User, status[u] = "none"
       PROVE  balance'[u] = 0
  <2>1. OfUser(u, closing) = {}
    BY <1>10, <1>a DEF OfUser, BookInv, KnownInv
  <2>2. paid[u] = 0
    BY <1>d, <2>1, SumEmpty
  <2>3. balance[u] = 0
    BY <1>10 DEF BookInv, KnownInv
  <2>4. balance'[u] = balance[u] + paid[u]
    BY <1>7
  <2> QED BY <2>2, <2>3, <2>4
<1>11. SumFunctionOnSet(balance', User)
         = SumFunctionOnSet(balance, User)
             + (SumFunctionOnSet(pnl, closing) - SumFunctionOnSet(fee, closing))
  <2>1. PICK x \in Int, y \in Int, z \in Int, w \in Int :
          /\ x = SumFunctionOnSet(pnl, closing) /\ y = SumFunctionOnSet(fee, closing)
          /\ z = SumFunctionOnSet(pays, closing) /\ w = SumFunctionOnSet(balance, User)
    BY <1>3, <1>9
  <2>2. x = z + y
    BY <1>4, <2>1
  <2>3. SumFunctionOnSet(balance', User) = w + z
    BY <1>5, <1>8, <2>1
  <2>4. w + z = w + (x - y)
    BY <2>2
  <2> QED BY <2>1, <2>3, <2>4
<1>12. balance' \in [User -> Int]
  BY <1>7, <1>c
<1> QED BY <1>3, <1>9, <1>10, <1>11, <1>12

\* On a market that is no house market the wins of the closing bets join the wins; the
\* bets of a house market stay out of them.
LEMMA SettledWins ==
  ASSUME Inv, Inv', BookInv, NEW m \in Market, NEW winner \in Selection,
         SettleMarket(m, winner), NEW pnl, pnl = PnlOn(m, winner)
  PROVE  Wins' = IF IsHouseMarket(m) THEN Wins
                 ELSE Wins + SumFunctionOnSet(pnl, OpenOn(m))
<1> DEFINE all == 1..Len(bets)
           closing == OpenOn(m)
           rest == all \ closing
<1>1. TypeInv /\ TypeInv' /\ bets \in Seq(Bet) /\ bets' \in Seq(Bet)
  BY DEF Inv, TypeInv
<1>2. /\ Len(bets') = Len(bets) /\ closing \subseteq all
      /\ \A i \in rest : bets'[i] = bets[i]
      /\ \A i \in closing : /\ bets[i].status = "matched"
                            /\ bets'[i].market = bets[i].market
                            /\ bets'[i].cashed = bets[i].cashed
                            /\ bets'[i].profit = pnl[i]
  BY <1>1, SettleEffect DEF Closes, SameTerms, PnlOn
<1>3. \A i \in closing : bets[i].market = m
  BY DEF OpenOn
<1>4. \A i \in closing : bets[i].cashed = FALSE /\ bets[i].profit = 0
  BY <1>2 DEF BookInv, UnpaidInv
<1>5. /\ IsFiniteSet(all) /\ WinsOf(bets) \in Int
      /\ \A i \in all : Net(bets)[i] \in Int
                        /\ Net(bets)[i] = IF Outside(bets[i]) THEN bets[i].profit ELSE 0
  BY <1>1, NetTypes
<1>6. \A i \in all : Net(bets')[i] \in Int
                     /\ Net(bets')[i] = IF Outside(bets'[i]) THEN bets'[i].profit ELSE 0
  BY <1>1, <1>2, NetTypes
<1>7. Wins = WinsOf(bets) /\ Wins' = WinsOf(bets')
  BY <1>1, WinsNow
<1>8. WinsOf(bets) = SumFunctionOnSet(Net(bets), all)
      /\ WinsOf(bets') = SumFunctionOnSet(Net(bets'), all)
  BY <1>2 DEF WinsOf
<1>9. \A i \in rest : Net(bets')[i] = Net(bets)[i]
  BY <1>2, <1>5, <1>6
<1>10. \A i \in closing : Net(bets)[i] = 0
  BY <1>2, <1>4, <1>5
<1>11. \A i \in closing : Outside(bets'[i]) <=> ~IsHouseMarket(m)
  BY <1>2, <1>3, <1>4 DEF Outside
<1> HIDE DEF all, closing, rest
<1>12. closing \subseteq all /\ rest \subseteq all /\ rest = all \ closing
  BY <1>2 DEF rest
<1>13. CASE IsHouseMarket(m)
  <2>1. \A i \in closing : Net(bets')[i] = 0
    BY <1>6, <1>11, <1>12, <1>13
  <2>2. \A i \in all : Net(bets)[i] = Net(bets')[i]
    BY <1>9, <1>10, <1>12, <2>1
  <2> QED BY <1>5, <1>7, <1>8, <1>13, <2>2, SumSame
<1>14. CASE ~IsHouseMarket(m)
  <2>1. \A i \in closing : Net(bets')[i] = pnl[i]
    BY <1>2, <1>6, <1>11, <1>12, <1>14
  <2>2. IsFiniteSet(closing) /\ IsFiniteSet(rest)
    BY <1>5, <1>12, FS_Subset
  <2>3. SumFunctionOnSet(Net(bets'), closing) = SumFunctionOnSet(pnl, closing)
    BY <2>1, <2>2, SumSame
  <2>4. SumFunctionOnSet(Net(bets'), rest) = SumFunctionOnSet(Net(bets), rest)
    BY <1>9, <2>2, SumSame
  <2>5. SumFunctionOnSet(Net(bets), closing) = 0
    BY <1>10, <2>2, SumZero
  <2>6. SumFunctionOnSet(Net(bets), all)
          = SumFunctionOnSet(Net(bets), closing) + SumFunctionOnSet(Net(bets), rest)
    BY <1>5, <1>12, SumDisjoint
  <2>7. SumFunctionOnSet(Net(bets'), all)
          = SumFunctionOnSet(Net(bets'), closing) + SumFunctionOnSet(Net(bets'), rest)
    BY <1>5, <1>6, <1>12, SumDisjoint
  <2>8. PICK x \in Int, y \in Int : /\ x = SumFunctionOnSet(Net(bets), rest)
                                    /\ y = SumFunctionOnSet(Net(bets'), closing)
    <3>1. SumFunctionOnSet(Net(bets), rest) \in Int
      BY <1>5, <1>12, <2>2, SumInt
    <3>2. SumFunctionOnSet(Net(bets'), closing) \in Int
      BY <1>6, <1>12, <2>2, SumInt
    <3> QED BY <3>1, <3>2
  <2>9. Wins = x
    BY <1>7, <1>8, <2>5, <2>6, <2>8
  <2>10. Wins' = x + y
    BY <1>7, <1>8, <2>4, <2>7, <2>8
  <2> QED BY <1>14, <2>3, <2>8, <2>9, <2>10 DEF closing
<1> QED BY <1>13, <1>14

\* What settling pays, and platformRevenue books.
LEMMA SettleBooks ==
  ASSUME Inv, Inv', BookInv, NEW m \in Market, NEW winner \in Selection,
         SettleMarket(m, winner)
  PROVE  BookInv'
<1> DEFINE closing == OpenOn(m)
           pnl == PnlOn(m, winner)
           fee == FeesOn(m, winner)
<1>1. /\ market' = [market EXCEPT ![m] = "settled"]
      /\ revenue' = IF IsHouseMarket(m)
                THEN [revenue EXCEPT !.bookmaker = @ + SumFunction(fee) - SumFunction(pnl)]
                ELSE [revenue EXCEPT !.commission = @ + SumFunction(fee)]
      /\ operations' = operations + 1
      /\ UNCHANGED <<status, excluded, req, requests, issued>>
  BY DEF SettleMarket, Operate, PnlOn, FeesOn
<1>3. SumFunction(fee) = SumFunctionOnSet(fee, closing)
      /\ SumFunction(pnl) = SumFunctionOnSet(pnl, closing)
  BY DEF SumFunction, PnlOn, FeesOn
<1>4. TypeInv
  BY DEF Inv
<1>7. /\ Len(bets') = Len(bets)
      /\ \A i \in 1..Len(bets) : bets'[i].user = bets[i].user
      /\ \A i \in 1..Len(bets) : bets'[i].status = "matched" => bets'[i] = bets[i]
  BY <1>4, SettleEffect DEF Closes, SameTerms
<1> HIDE DEF pnl, fee, closing
<1>8. /\ balance' \in [User -> Int]
      /\ SumFunctionOnSet(pnl, closing) \in Int /\ SumFunctionOnSet(fee, closing) \in Nat
      /\ SumFunctionOnSet(balance', User)
           = SumFunctionOnSet(balance, User)
               + (SumFunctionOnSet(pnl, closing) - SumFunctionOnSet(fee, closing))
      /\ SumFunctionOnSet(balance, User) \in Int
      /\ \A u \in User : status[u] = "none" => balance'[u] = 0
  BY PaidOut DEF pnl, fee, closing
<1>9. Wins' = IF IsHouseMarket(m) THEN Wins ELSE Wins + SumFunctionOnSet(pnl, closing)
  BY SettledWins DEF pnl, closing
<1>10. Wins \in Int
  BY WinsNow DEF Inv
<1>11. PICK x \in Int, y \in Nat, z \in Int, w \in Int, c \in Nat, b \in Int, n \in Int :
         /\ x = SumFunctionOnSet(pnl, closing) /\ y = SumFunctionOnSet(fee, closing)
         /\ z = SumFunctionOnSet(balance, User) /\ w = Wins /\ n = issued
         /\ c = revenue.commission /\ b = revenue.bookmaker
  BY <1>8, <1>10 DEF BookInv, AccountTypes
<1>12. z = n + w - c - b
  BY <1>11 DEF BookInv, Books
<1>13. SumFunctionOnSet(balance', User) = z + (x - y) /\ issued' = n
  BY <1>1, <1>8, <1>11
<1>14. revenue \in [commission : Nat, bookmaker : Int]
  BY DEF BookInv, AccountTypes
<1>15. revenue' \in [commission : Nat, bookmaker : Int] /\ Books'
  <2>1. CASE IsHouseMarket(m)
    <3>1. revenue' = [revenue EXCEPT !.bookmaker = b + y - x]
      BY <1>1, <1>3, <1>11, <2>1
    <3>2. b + y - x \in Int
      OBVIOUS
    <3>3. revenue' \in [commission : Nat, bookmaker : Int]
          /\ revenue'.commission = c /\ revenue'.bookmaker = b + y - x
      BY <1>11, <1>14, <3>1, <3>2
    <3>4. z + (x - y) = n + w - c - (b + y - x)
      BY <1>12
    <3>5. Wins' = w
      BY <1>9, <1>11, <2>1
    <3> QED BY <1>13, <3>3, <3>4, <3>5 DEF Books
  <2>2. CASE ~IsHouseMarket(m)
    <3>1. revenue' = [revenue EXCEPT !.commission = c + y]
      BY <1>1, <1>3, <1>11, <2>2
    <3>2. c + y \in Nat
      OBVIOUS
    <3>3. revenue' \in [commission : Nat, bookmaker : Int]
          /\ revenue'.commission = c + y /\ revenue'.bookmaker = b
      BY <1>11, <1>14, <3>1, <3>2
    <3>4. z + (x - y) = n + (w + x) - (c + y) - b
      BY <1>12
    <3>5. Wins' = w + x
      BY <1>9, <1>11, <2>2
    <3> QED BY <1>13, <3>3, <3>4, <3>5 DEF Books
  <2> QED BY <2>1, <2>2
<1>16. AccountTypes'
  <2>1. market' \in [Market -> {"open", "suspended", "settled", "void"}]
    BY <1>1 DEF BookInv, AccountTypes
  <2> QED BY <1>1, <1>8, <1>15, <2>1 DEF BookInv, AccountTypes
<1>17. KnownInv'
  BY <1>1, <1>7, <1>8 DEF BookInv, KnownInv
<1>18. UnpaidInv'
  BY <1>7 DEF BookInv, UnpaidInv
<1> QED BY <1>15, <1>16, <1>17, <1>18 DEF BookInv

\* A void bet has won nothing.
LEMMA VoidBooks ==
  ASSUME Inv, Inv', BookInv, NEW m \in Market, VoidMarket(m)
  PROVE  BookInv'
<1>1. /\ market' = [market EXCEPT ![m] = "void"] /\ operations' = operations + 1
      /\ UNCHANGED <<balance, revenue, status, excluded, req, requests, issued>>
  BY DEF VoidMarket, Operate
<1>2. /\ Len(bets') = Len(bets)
      /\ \A i \in 1..Len(bets) :
           /\ bets'[i].user = bets[i].user /\ bets'[i].market = bets[i].market
           /\ bets'[i].cashed = bets[i].cashed /\ bets'[i].profit = bets[i].profit
           /\ bets'[i].status = "matched" => bets[i].status = "matched"
  BY VoidEffect DEF Closes, SameTerms, Inv
<1>3. AccountTypes'
  BY <1>1 DEF BookInv, AccountTypes
<1> QED BY <1>1, <1>2, <1>3, BookFrame

\* A cashed-out bet is paid to its user, from outside the book.
LEMMA CashoutBooks ==
  ASSUME Inv, Inv', BookInv, NEW i \in DOMAIN bets, CashoutAccept(i)
  PROVE  BookInv'
<1> DEFINE all == 1..Len(bets)
           v == bets[i].user
<1>1. TypeInv /\ TypeInv' /\ bets \in Seq(Bet) /\ bets' \in Seq(Bet) /\ i \in all
  BY Rows DEF Inv, TypeInv
<1>2. /\ Closes({i}) /\ bets[i] \in Bet /\ bets'[i].cashed = TRUE
      /\ bets'[i].profit = Cashout(bets[i]) /\ Cashout(bets[i]) \in Int
  BY <1>1, CashoutEffect
<1>3. PICK x \in Int : x = Cashout(bets[i])
  BY <1>2
<1>4. /\ balance' = [balance EXCEPT ![v] = @ + x] /\ operations' = operations + 1
      /\ UNCHANGED <<status, excluded, market, req, revenue, requests, issued>>
  BY <1>3 DEF CashoutAccept, Operate
<1>5. v \in User /\ IsFiniteSet(User) /\ balance \in [User -> Int]
  BY <1>2, HouseAssumption DEF Bet, BookInv, AccountTypes
<1>6. /\ Len(bets') = Len(bets) /\ bets[i].status = "matched" /\ bets'[i].status # "matched"
      /\ \A j \in all : bets'[j].user = bets[j].user
      /\ \A j \in all \ {i} : bets'[j] = bets[j]
  BY <1>2 DEF Closes, SameTerms
<1>7. /\ IsFiniteSet(all) /\ WinsOf(bets) \in Int
      /\ \A j \in all : Net(bets)[j] \in Int
                        /\ Net(bets)[j] = IF Outside(bets[j]) THEN bets[j].profit ELSE 0
  BY <1>1, NetTypes
<1>8. \A j \in all : Net(bets')[j] \in Int
                     /\ Net(bets')[j] = IF Outside(bets'[j]) THEN bets'[j].profit ELSE 0
  BY <1>1, <1>6, NetTypes
<1>9. Net(bets')[i] = x /\ Net(bets)[i] = 0
  BY <1>1, <1>2, <1>3, <1>6, <1>7, <1>8 DEF Outside, BookInv, UnpaidInv
<1>10. \A j \in all : j # i => Net(bets')[j] = Net(bets)[j]
  BY <1>6, <1>7, <1>8
<1>11. Wins' = Wins + x /\ Wins \in Int
  <2>1. WinsOf(bets) = SumFunctionOnSet(Net(bets), all)
        /\ WinsOf(bets') = SumFunctionOnSet(Net(bets'), all)
    BY <1>6 DEF WinsOf
  <2>2. /\ IsFiniteSet(all) /\ i \in all /\ Net(bets')[i] \in Int
        /\ \A j \in all : Net(bets)[j] \in Int
        /\ \A j \in all : j # i => Net(bets')[j] = Net(bets)[j]
    BY <1>1, <1>7, <1>8, <1>10
  <2> HIDE DEF all
  <2>3. SumFunctionOnSet(Net(bets'), all)
          = SumFunctionOnSet(Net(bets), all) + (Net(bets')[i] - Net(bets)[i])
    BY ONLY <2>2, SumChange
  <2> QED BY <1>1, <1>7, <1>9, <2>1, <2>3, WinsNow
<1>12. balance' \in [User -> Int] /\ balance'[v] = balance[v] + x
       /\ \A u \in User : u # v => balance'[u] = balance[u]
  BY <1>4, <1>5
<1>13. \A u \in User : balance[u] \in Int /\ balance'[u] \in Int
  BY <1>5, <1>12
<1> HIDE DEF all, v
<1>14. SumFunctionOnSet(balance', User)
         = SumFunctionOnSet(balance, User) + (balance'[v] - balance[v])
  BY <1>5, <1>12, <1>13, SumChange
<1>15. Books'
  <2>1. SumFunctionOnSet(balance, User) \in Int
    BY <1>5, <1>13, SumInt
  <2>2. PICK z \in Int, w \in Int, n \in Int, c \in Nat, b \in Int, k \in Int :
          /\ z = SumFunctionOnSet(balance, User) /\ w = Wins /\ n = issued
          /\ c = revenue.commission /\ b = revenue.bookmaker /\ k = balance[v]
    BY <1>5, <1>11, <1>13, <2>1 DEF BookInv, AccountTypes
  <2>3. z = n + w - c - b
    BY <2>2 DEF BookInv, Books
  <2>4. SumFunctionOnSet(balance', User) = z + ((k + x) - k)
    BY <1>12, <1>14, <2>2
  <2>5. z + ((k + x) - k) = n + (w + x) - c - b
    BY <2>3
  <2>6. Wins' = w + x /\ issued' = n /\ revenue'.commission = c /\ revenue'.bookmaker = b
    BY <1>4, <1>11, <2>2
  <2> QED BY <2>4, <2>5, <2>6 DEF Books
<1>16. AccountTypes'
  BY <1>4, <1>12 DEF BookInv, AccountTypes
<1>17. KnownInv'
  <2>1. status[v] # "none"
    BY <1>1 DEF BookInv, KnownInv, all, v
  <2> QED BY <1>4, <1>6, <1>12, <2>1 DEF BookInv, KnownInv, all
<1>18. UnpaidInv'
  BY <1>6 DEF BookInv, UnpaidInv, all
<1> QED BY <1>15, <1>16, <1>17, <1>18 DEF BookInv

\* What one user gives another stays on the books.
LEMMA MoveSum ==
  ASSUME BookInv, NEW from \in User, NEW to \in User, from # to, NEW amount \in Int,
         balance' = Move(from, to, amount)
  PROVE  /\ balance' \in [User -> Int]
         /\ SumFunctionOnSet(balance', User) = SumFunctionOnSet(balance, User)
         /\ \A u \in User : u # from /\ u # to => balance'[u] = balance[u]
<1> DEFINE less == [balance EXCEPT ![from] = @ - amount]
<1>1. balance \in [User -> Int] /\ IsFiniteSet(User)
  BY HouseAssumption DEF BookInv, AccountTypes
<1>2. /\ less \in [User -> Int] /\ less[from] = balance[from] - amount
      /\ \A u \in User : u # from => less[u] = balance[u]
  BY <1>1
<1>3. balance' = [less EXCEPT ![to] = @ + amount]
  BY DEF Move
<1> HIDE DEF less
<1>4. /\ balance' \in [User -> Int] /\ balance'[to] = less[to] + amount
      /\ \A u \in User : u # to => balance'[u] = less[u]
  BY <1>2, <1>3
<1>5. \A u \in User : balance[u] \in Int /\ less[u] \in Int /\ balance'[u] \in Int
  BY <1>1, <1>2, <1>4
<1>6. SumFunctionOnSet(less, User)
        = SumFunctionOnSet(balance, User) + (less[from] - balance[from])
  <2>1. /\ IsFiniteSet(User) /\ less[from] \in Int
        /\ \A u \in User : balance[u] \in Int
        /\ \A u \in User : u # from => less[u] = balance[u]
    BY <1>1, <1>2, <1>5
  <2> QED BY ONLY <2>1, SumChange
<1>7. SumFunctionOnSet(balance', User)
        = SumFunctionOnSet(less, User) + (balance'[to] - less[to])
  <2>1. /\ IsFiniteSet(User) /\ balance'[to] \in Int
        /\ \A u \in User : less[u] \in Int
        /\ \A u \in User : u # to => balance'[u] = less[u]
    BY <1>1, <1>4, <1>5
  <2> QED BY ONLY <2>1, SumChange
<1>8. PICK z \in Int, i \in Int, j \in Int :
        z = SumFunctionOnSet(balance, User) /\ i = balance[from] /\ j = less[to]
  BY <1>1, <1>5, SumInt
<1>9. SumFunctionOnSet(less, User) = z + ((i - amount) - i)
  BY <1>2, <1>6, <1>8
<1>10. SumFunctionOnSet(balance', User) = (z + ((i - amount) - i)) + ((j + amount) - j)
  BY <1>4, <1>7, <1>8, <1>9
<1>11. (z + ((i - amount) - i)) + ((j + amount) - j) = z
  OBVIOUS
<1>12. \A u \in User : u # from /\ u # to => balance'[u] = balance[u]
  BY <1>2, <1>4
<1> QED BY <1>4, <1>8, <1>10, <1>11, <1>12

\* Bets and requests stay, and no user becomes unknown.
AccountFrame ==
  /\ bets' = bets /\ req' = req /\ revenue' = revenue /\ excluded' \subseteq User
  /\ UNCHANGED <<market, requests>> /\ operations' = operations + 1
  /\ \A u \in User : status'[u] = "none" => status[u] = "none"

\* A step on accounts that keeps the sum of what was issued and won.
LEMMA AccountBooks ==
  ASSUME Inv, Inv', BookInv, AccountFrame,
         balance' \in [User -> Int], status' \in [User -> Statuses], issued' \in Int,
         \A u \in User : status'[u] = "none" => balance'[u] = balance[u],
         SumFunctionOnSet(balance', User)
           = SumFunctionOnSet(balance, User) + (issued' - issued)
  PROVE  BookInv'
<1>1. AccountTypes'
  BY DEF AccountFrame, BookInv, AccountTypes
<1>2. UnpaidInv'
  BY DEF AccountFrame, BookInv, UnpaidInv
<1>3. KnownInv'
  <2>1. \A i \in 1..Len(bets) : bets[i].user \in User
    BY Rows DEF Inv, Bet
  <2>2. \A p \in Proc : req[p].at \in Vetted => req[p].r.user \in User
    BY RequestFields DEF Vetted, Checked, Inv, PriceInv, Asked, BetRequest
  <2>3. \A u \in User : status'[u] = "none" => balance'[u] = 0
    BY DEF AccountFrame, BookInv, KnownInv
  <2>4. \A i \in 1..Len(bets') : status'[bets'[i].user] # "none"
    BY <2>1 DEF AccountFrame, BookInv, KnownInv
  <2>5. \A p \in Proc : req'[p].at \in Vetted => status'[req'[p].r.user] # "none"
    BY <2>2 DEF AccountFrame, BookInv, KnownInv
  <2> QED BY <2>3, <2>4, <2>5 DEF KnownInv
<1>4. Books'
  <2>1. Wins' = Wins /\ Wins \in Int
    BY WinsNow DEF Inv, AccountFrame
  <2>2. PICK w \in Int, n \in Int, k \in Int, c \in Nat, b \in Int :
          /\ w = Wins /\ n = issued /\ k = issued'
          /\ c = revenue.commission /\ b = revenue.bookmaker
    BY <2>1 DEF BookInv, AccountTypes
  <2>3. SumFunctionOnSet(balance, User) = n + w - c - b
    BY <2>2 DEF BookInv, Books
  <2>4. SumFunctionOnSet(balance', User) = (n + w - c - b) + (k - n)
    BY <2>2, <2>3
  <2>5. (n + w - c - b) + (k - n) = k + w - c - b
    OBVIOUS
  <2> QED BY <2>1, <2>2, <2>4, <2>5 DEF Books, AccountFrame
<1> QED BY <1>1, <1>2, <1>3, <1>4 DEF BookInv

\* A transfer, and the credit of a new user, are moves between two users.
LEMMA MoveBooks ==
  ASSUME Inv, Inv', BookInv, NEW from \in User, NEW to \in User, from # to,
         NEW amount \in Credit,
         \/ TransferCredit(from, to, amount)
         \/ \E role : /\ CreateUser(to, role, amount) /\ from = Parent[to]
                      /\ FromParent(to, amount)
  PROVE  BookInv'
<1>1. balance' = Move(from, to, amount) /\ amount \in Int
  BY HouseAssumption DEF TransferCredit, FromParent
<1>2. /\ balance' \in [User -> Int]
      /\ SumFunctionOnSet(balance', User) = SumFunctionOnSet(balance, User)
      /\ \A u \in User : u # from /\ u # to => balance'[u] = balance[u]
  BY <1>1, MoveSum
<1>3. status[from] # "none" /\ status'[from] # "none" /\ status'[to] # "none"
  BY DEF TransferCredit, CanTransfer, CreateUser, FromParent, Known, BookInv, AccountTypes
<1>4. /\ issued' = issued /\ status' \in [User -> Statuses]
      /\ \A u \in User : status'[u] = "none" => status[u] = "none"
  BY DEF TransferCredit, CreateUser, FromParent, BookInv, AccountTypes, Statuses
<1>5. AccountFrame
  BY <1>4 DEF AccountFrame, TransferCredit, CreateUser, Operate, BookInv, AccountTypes
<1>6. \A u \in User : status'[u] = "none" => balance'[u] = balance[u]
  BY <1>2, <1>3
<1>7. /\ SumFunctionOnSet(balance, User) \in Int /\ issued \in Int
  BY SumInt, HouseAssumption DEF BookInv, AccountTypes
<1>8. SumFunctionOnSet(balance', User)
        = SumFunctionOnSet(balance, User) + (issued' - issued)
  BY <1>2, <1>4, <1>7
<1> QED BY <1>2, <1>4, <1>5, <1>6, <1>7, <1>8, AccountBooks

\* What a new user has from nowhere (a demo user's or a superadmin's credit, or nothing)
\* is issued.
LEMMA IssueBooks ==
  ASSUME Inv, Inv', BookInv, NEW u \in User, NEW given \in Int, status[u] = "none",
         balance' = [balance EXCEPT ![u] = given], issued' = issued + given,
         CreateDemoUser(u) \/ \E role, amount : CreateUser(u, role, amount)
  PROVE  BookInv'
<1>1. /\ balance \in [User -> Int] /\ IsFiniteSet(User)
      /\ balance[u] = 0 /\ issued \in Int
      /\ balance' = [balance EXCEPT ![u] = given] /\ issued' = issued + given
  BY HouseAssumption DEF BookInv, AccountTypes, KnownInv
<1>2. /\ balance' \in [User -> Int] /\ balance'[u] = given
      /\ \A v \in User : v # u => balance'[v] = balance[v]
      /\ \A v \in User : balance[v] \in Int /\ balance'[v] \in Int
  BY <1>1
<1>3. SumFunctionOnSet(balance', User)
        = SumFunctionOnSet(balance, User) + (balance'[u] - balance[u])
  <2>1. /\ IsFiniteSet(User) /\ balance'[u] \in Int
        /\ \A v \in User : balance[v] \in Int
        /\ \A v \in User : v # u => balance'[v] = balance[v]
    BY <1>1, <1>2
  <2> QED BY ONLY <2>1, SumChange
<1>4. SumFunctionOnSet(balance', User)
        = SumFunctionOnSet(balance, User) + (issued' - issued)
  <2>1. balance'[u] - balance[u] = issued' - issued
    BY <1>1, <1>2
  <2> QED BY <1>3, <2>1
<1>5. status' = [status EXCEPT ![u] = "active"] /\ status \in [User -> Statuses]
  BY DEF CreateDemoUser, CreateUser, BookInv, AccountTypes
<1>6. /\ status' \in [User -> Statuses] /\ status'[u] # "none"
      /\ \A v \in User : status'[v] = "none" => status[v] = "none"
  BY <1>5 DEF Statuses
<1>7. AccountFrame
  BY <1>6 DEF AccountFrame, CreateDemoUser, CreateUser, Operate, BookInv, AccountTypes
<1>8. \A v \in User : status'[v] = "none" => balance'[v] = balance[v]
  BY <1>2, <1>6
<1>9. issued' \in Int
  BY <1>1
<1> QED BY <1>2, <1>4, <1>6, <1>7, <1>8, <1>9, AccountBooks

\* Whatever the owner of an account or its administrator does.
LEMMA AccountStepBooks ==
  ASSUME Inv, Inv', BookInv, NEW u \in User, Account(u)
  PROVE  BookInv'
<1>1. ASSUME NEW role, NEW amount \in Credit, CreateUser(u, role, amount)
      PROVE  BookInv'
  <2>0. /\ status[u] = "none" /\ balance \in [User -> Int] /\ balance[u] = 0
        /\ issued \in Int /\ amount \in Int
    BY <1>1, HouseAssumption DEF CreateUser, BookInv, AccountTypes, KnownInv
  <2>1. CASE role = "superadmin"
    <3>1. balance' = [balance EXCEPT ![u] = amount] /\ issued' = issued + amount
      BY <1>1, <2>1 DEF CreateUser, Seed
    <3> QED BY <1>1, <2>0, <3>1, IssueBooks
  <2>2. CASE role # "superadmin" /\ FromParent(u, amount)
    <3>1. Parent[u] \in User /\ Parent[u] # u
      BY <1>1, <2>2 DEF CreateUser, FromParent, Known
    <3> QED BY <1>1, <2>2, <3>1, MoveBooks
  <2>3. CASE role # "superadmin" /\ NothingGiven(u, amount)
    <3>1. balance' = [balance EXCEPT ![u] = 0] /\ issued' = issued + 0
      BY <2>0, <2>3 DEF NothingGiven
    <3> QED BY <1>1, <2>0, <3>1, IssueBooks
  <2> QED BY <1>1, <2>1, <2>2, <2>3 DEF CreateUser
<1>2. ASSUME NEW v \in User \ {u}, NEW amount \in Credit, TransferCredit(u, v, amount)
      PROVE  BookInv'
  <2>1. v \in User /\ u # v
    BY <1>2
  <2>2. \/ TransferCredit(u, v, amount)
        \/ \E role : CreateUser(v, role, amount) /\ u = Parent[v] /\ FromParent(v, amount)
    BY <1>2
  <2> QED BY <2>1, <2>2, MoveBooks
<1>3. ASSUME SelfExclude(u) \/ \E s \in Statuses \ {"none"} : PanelUpdateStatus(u, s)
      PROVE  BookInv'
  <2>1. balance' = balance /\ issued' = issued
    BY <1>3 DEF SelfExclude, PanelUpdateStatus, moneyVars
  <2>2. status' \in [User -> Statuses] /\ excluded' \subseteq User
        /\ \A v \in User : status'[v] = "none" => status[v] = "none"
    BY <1>3 DEF SelfExclude, PanelUpdateStatus, BookInv, AccountTypes, Known
  <2>3. AccountFrame
    BY <1>3, <2>2 DEF AccountFrame, SelfExclude, PanelUpdateStatus, Operate, moneyVars
  <2>4. balance' \in [User -> Int] /\ issued' \in Int /\ issued \in Int
        /\ SumFunctionOnSet(balance, User) \in Int
    BY <2>1, SumInt, HouseAssumption DEF BookInv, AccountTypes
  <2>5. SumFunctionOnSet(balance', User)
          = SumFunctionOnSet(balance, User) + (issued' - issued)
    BY <2>1, <2>4
  <2> QED BY <2>1, <2>2, <2>3, <2>4, <2>5, AccountBooks
<1>4. {"active", "suspended", "blocked"} = Statuses \ {"none"}
  BY DEF Statuses
<1>5. ASSUME CreateDemoUser(u)
      PROVE  BookInv'
  <2>1. /\ status[u] = "none" /\ DemoBalance \in Int /\ issued' = issued + DemoBalance
        /\ balance' = [balance EXCEPT ![u] = DemoBalance]
    BY <1>5, HouseAssumption DEF CreateDemoUser
  <2> QED BY <1>5, <2>1, IssueBooks
<1> QED BY <1>1, <1>2, <1>3, <1>4, <1>5 DEF Account

\* CheckAccount lets through the requests of users there are, and the other checks the
\* requests that it has let through.
LEMMA CheckingVets ==
  ASSUME Inv, BookInv, NEW p \in Proc, Checking(p)
  PROVE  \/ req'[p].at \notin Vetted
         \/ req'[p].r.user \in User /\ status[req'[p].r.user] # "none"
<1>1. /\ req'[p].at # "hold" /\ (req'[p] = NoRequest \/ req'[p].r = req[p].r)
  BY CheckingEffect
<1>2. NoRequest.at \notin Vetted
  BY DEF NoRequest, Vetted, Checked
<1>3. CASE req'[p] # NoRequest /\ req'[p].at \in Vetted
  <2>1. req[p].at \in {"account"} \cup Vetted
    <3>1. HoldFails(p) => req'[p] = NoRequest
      BY DEF HoldFails, Inv, TypeInv
    <3>2. CheckWithdrawal(p) => req'[p] = NoRequest \/ req'[p].at = "payment"
      <4>1. ASSUME CheckWithdrawal(p)
            PROVE  req'[p] = NoRequest \/ req'[p].at = "payment"
        <5>1. req[p].at = "withdrawal"
          BY <4>1 DEF CheckWithdrawal, Check, At
        <5>2. req[p] \in Serving
          BY <5>1, RequestFields DEF Inv
        <5>3. "payment" \in Stage
          BY DEF Stage, WithdrawSteps
        <5>4. req'[p] = NoRequest \/ req'[p] = WithStep(req[p], "payment")
          BY <4>1 DEF CheckWithdrawal, Check, Inv, TypeInv, WithStep
        <5> QED BY <5>2, <5>3, <5>4, StepTaken
      <4> QED BY <4>1
    <3>3. CheckAccount(p) \/ CheckMarket(p) \/ CheckOdds(p) \/ CheckMoney(p)
            \/ CheckMarketLimit(p) \/ CheckClientRef(p)
      BY <1>3, <3>1, <3>2 DEF Checking, Vetted, Checked
    <3> QED BY <3>3 DEF CheckAccount, CheckMarket, CheckOdds, CheckMoney,
              CheckMarketLimit, CheckClientRef, Check, At, Vetted, Checked
  <2>2. req[p].r.user \in User
    BY <2>1, RequestFields DEF Vetted, Checked, Inv, PriceInv, Asked, BetRequest
  <2>3. CASE req[p].at \in Vetted
    <3>1. status[req[p].r.user] # "none"
      BY <2>3 DEF BookInv, KnownInv
    <3> QED BY <1>1, <1>3, <2>2, <3>1
  <2>4. CASE req[p].at = "account"
    <3>1. CheckAccount(p)
      BY <2>4 DEF Checking, CheckAccount, CheckMarket, CheckOdds, CheckMoney,
                  CheckMarketLimit, CheckClientRef, CheckWithdrawal, HoldFails, Check, At
    <3>2. status[req[p].r.user] = "active"
      BY <1>3, <3>1 DEF CheckAccount, Check, Inv, TypeInv
    <3> QED BY <1>1, <1>3, <2>2, <3>2
  <2> QED BY <2>1, <2>3, <2>4
<1> QED BY <1>2, <1>3

\* No step of a request moves money between users.
LEMMA ServeBooks ==
  ASSUME Inv, Inv', BookInv, NEW p \in Proc, Serve(p)
  PROVE  BookInv'
<1>1. CASE Checking(p)
  <2>1. /\ UNCHANGED <<moneyVars, status, excluded, market, bets, requests, operations>>
        /\ \A q \in Proc \ {p} : req'[q] = req[q]
    BY <1>1, CheckingEffect
  <2>2. AccountTypes' /\ balance' = balance /\ issued' = issued /\ revenue' = revenue
    BY <2>1 DEF AccountTypes, BookInv, moneyVars
  <2>3. \A q \in Proc : \/ req'[q] = req[q] \/ req'[q].at \notin Vetted
                        \/ req'[q].r.user \in User /\ status[req'[q].r.user] # "none"
    BY <1>1, <2>1, CheckingVets
  <2> QED BY <2>1, <2>2, <2>3, BookFrame
<1>2. CASE CreatePaymentTx(p)
  <2>1. /\ UNCHANGED <<moneyVars, status, excluded, market, bets, requests, operations>>
    BY <1>2 DEF CreatePaymentTx
  <2>2. /\ \A q \in Proc \ {p} : req'[q] = req[q]
        /\ req'[p].at = "hold"
    BY <1>2, PaymentEffect
  <2>3. AccountTypes' /\ balance' = balance /\ issued' = issued /\ revenue' = revenue
    BY <2>1 DEF AccountTypes, BookInv, moneyVars
  <2>4. \A q \in Proc : \/ req'[q] = req[q] \/ req'[q].at \notin Vetted
    BY <2>2 DEF Vetted, Checked
  <2> QED BY <2>1, <2>3, <2>4, BookFrame
<1>3. CASE Hold(p)
  <2>1. UNCHANGED <<balance, revenue, issued, status, excluded, market, requests, operations>>
    BY <1>3 DEF Hold
  <2>2. req' = [req EXCEPT ![p] = NoRequest] /\ Len(bets') = Len(bets)
    BY <1>3, HoldEffect
  <2>3. NoRequest.at \notin Vetted
    BY DEF NoRequest, Vetted, Checked
  <2>4. \A q \in Proc : req'[q] = req[q] \/ req'[q].at \notin Vetted
    BY <2>2, <2>3 DEF Inv, TypeInv
  <2>5. \A i \in 1..Len(bets) :
           /\ bets'[i].user = bets[i].user /\ bets'[i].market = bets[i].market
           /\ bets'[i].cashed = bets[i].cashed /\ bets'[i].profit = bets[i].profit
           /\ bets'[i].status = "matched" => bets[i].status = "matched"
    BY <1>3, HoldRows DEF SameTerms
  <2>6. AccountTypes'
    BY <2>1 DEF AccountTypes, BookInv
  <2> QED BY <2>1, <2>2, <2>4, <2>5, <2>6, BookFrame
<1> QED BY <1>1, <1>2, <1>3, ServeCases, PlaceBooks

\* A step that touches a market or a request, and neither bets nor accounts.
LEMMA QuietBooks ==
  ASSUME Inv, Inv', BookInv, AccountTypes', bets' = bets,
         balance' = balance, issued' = issued, revenue' = revenue, status' = status,
         \A p \in Proc : req'[p] = req[p] \/ req'[p].at \notin Vetted
  PROVE  BookInv'
BY BookFrame

\* What administrators and feeds do to markets.
LEMMA AdministerBooks ==
  ASSUME Inv, Inv', BookInv, NEW m \in Market, Administer(m)
  PROVE  BookInv'
<1>1. ASSUME NEW s \in {"open", "suspended"}, SetMarket(m, s)
      PROVE  BookInv'
  <2>1. /\ market' = [market EXCEPT ![m] = s] /\ operations' = operations + 1
        /\ UNCHANGED <<moneyVars, status, excluded, bets, req, requests>>
    BY <1>1 DEF SetMarket, Operate
  <2>2. AccountTypes'
    BY <2>1 DEF AccountTypes, BookInv, moneyVars
  <2> QED BY <2>1, <2>2, QuietBooks DEF moneyVars
<1>2. ASSUME NEW quote \in Quote, MergeOddsIntoStore(m, quote) \/ OddsFluctuation(m, quote)
      PROVE  BookInv'
  <2>1. /\ market' = [market EXCEPT ![m] = "open"] \/ market' = market
        /\ operations' = operations + 1
        /\ UNCHANGED <<moneyVars, status, excluded, bets, req, requests>>
    BY <1>2 DEF MergeOddsIntoStore, OddsFluctuation, Operate
  <2>2. AccountTypes'
    BY <2>1 DEF AccountTypes, BookInv, moneyVars
  <2> QED BY <2>1, <2>2, QuietBooks DEF moneyVars
<1> QED BY <1>1, <1>2, SettleBooks, VoidBooks DEF Administer, SuspendMarket, ResumeMarket

\* The books balance after every step.
LEMMA BookStep ==
  ASSUME Inv, Inv', BookInv, [Next]_vars
  PROVE  BookInv'
<1>1. CASE UNCHANGED vars
  <2>1. AccountTypes'
    BY <1>1 DEF vars, AccountTypes, BookInv
  <2> QED BY <1>1, <2>1, QuietBooks DEF vars
<1>2. ASSUME NEW p \in Proc, NEW r \in Requests, Receive(p, r)
      PROVE  BookInv'
  <2>1. /\ requests' = requests + 1
        /\ UNCHANGED <<moneyVars, status, excluded, market, bets, operations>>
    BY <1>2 DEF Receive
  <2>2. AccountTypes'
    BY <2>1 DEF AccountTypes, BookInv, moneyVars
  <2>3. \A q \in Proc : req'[q] = req[q] \/ req'[q].at \notin Vetted
    BY <1>2 DEF Receive, Inv, TypeInv, Vetted, Checked
  <2> QED BY <2>1, <2>2, <2>3, QuietBooks DEF moneyVars
<1>3. CASE Next
  BY <1>2, <1>3, ServeBooks, CashoutBooks, AdministerBooks, AccountStepBooks DEF Next
<1> QED BY <1>1, <1>3

\* At the start there are the opening balances, and nothing else.
LEMMA InitBooks == Init => BookInv
<1> SUFFICES ASSUME Init PROVE BookInv
  OBVIOUS
<1>1. /\ balance = [u \in User |-> IF u \in DOMAIN Opening THEN Opening[u] ELSE 0]
      /\ status = [u \in User |-> IF u \in DOMAIN Opening THEN "active" ELSE "none"]
      /\ excluded = {} /\ market = [m \in Market |-> "open"] /\ bets = <<>>
      /\ req = [p \in Proc |-> NoRequest]
      /\ revenue = [commission |-> 0, bookmaker |-> 0]
      /\ requests = 0 /\ operations = 0 /\ issued = SumFunction(Opening)
  BY DEF Init
<1>2. /\ IsFiniteSet(User) /\ DOMAIN Opening \in SUBSET User /\ IsFiniteSet(DOMAIN Opening)
      /\ \A u \in DOMAIN Opening : Opening[u] \in Nat
  BY HouseAssumption, FS_Subset
<1>3. issued = SumFunctionOnSet(Opening, DOMAIN Opening) /\ issued \in Nat
  <2>1. issued = SumFunctionOnSet(Opening, DOMAIN Opening)
    BY <1>1 DEF SumFunction
  <2> QED BY <1>2, <2>1, SumNat
<1>4. balance \in [User -> Int] /\ \A u \in User : balance[u] \in Int
  BY <1>1, <1>2
<1>5. AccountTypes
  BY <1>1, <1>3, <1>4 DEF AccountTypes, Statuses
<1>6. KnownInv
  <2>1. \A p \in Proc : req[p].at \notin Vetted
    BY <1>1 DEF NoRequest, Vetted, Checked
  <2> QED BY <1>1, <2>1 DEF KnownInv
<1>7. UnpaidInv
  BY <1>1 DEF UnpaidInv
<1>8. SumFunctionOnSet(balance, User) = issued
  <2> DEFINE there == DOMAIN Opening
             rest == User \ there
  <2>1. IsFiniteSet(rest) /\ \A u \in rest : balance[u] = 0
    BY <1>1, <1>2, FS_Subset
  <2>2. \A u \in there : balance[u] = Opening[u]
    BY <1>1, <1>2
  <2>3. there \in SUBSET User /\ IsFiniteSet(there) /\ rest = User \ there
    BY <1>2
  <2>4. issued = SumFunctionOnSet(Opening, there)
    BY <1>3
  <2> HIDE DEF there, rest
  <2>5. SumFunctionOnSet(balance, rest) = 0
    BY <2>1, SumZero
  <2>6. SumFunctionOnSet(balance, there) = SumFunctionOnSet(Opening, there)
    BY <2>2, <2>3, SumSame
  <2>7. SumFunctionOnSet(balance, User)
          = SumFunctionOnSet(balance, there) + SumFunctionOnSet(balance, User \ there)
    BY <1>2, <1>4, <2>3, SumDisjoint
  <2> QED BY <1>3, <2>3, <2>4, <2>5, <2>6, <2>7
<1>9. Wins = 0
  <2>1. OutsideTheBook = {}
    BY <1>1 DEF OutsideTheBook
  <2> QED BY <2>1, SumEmpty DEF Wins
<1>10. Books
  BY <1>1, <1>3, <1>8, <1>9 DEF Books
<1> QED BY <1>5, <1>6, <1>7, <1>10 DEF BookInv

-----------------------------------------------------------------------------
\* All three layers together, and what they are for.

\* The inductive invariant.
THEOREM AllInvariance == Spec => [](Inv /\ HoldingInv /\ BookInv)
<1>1. Init => Inv /\ HoldingInv /\ BookInv
  BY InitInv, InitHolding, InitBooks
<1>2. ASSUME Inv, HoldingInv, BookInv, [Next]_vars
      PROVE  Inv' /\ HoldingInv' /\ BookInv'
  <2>1. balance \in [User -> Int]
    BY <1>2 DEF BookInv, AccountTypes
  <2>2. Inv'
    BY <1>2, Step
  <2> QED BY <1>2, <2>1, <2>2, HoldingStep, BookStep
<1>3. Inv /\ HoldingInv /\ BookInv /\ [Next]_vars => (Inv /\ HoldingInv /\ BookInv)'
  BY <1>2
<1> QED BY <1>1, <1>3, PTL DEF Spec

\* The three layers hold the types of all variables.
LEMMA AllTypes ==
  ASSUME Inv, HoldingInv, BookInv
  PROVE  TypeOK
BY DEF Inv, TypeInv, HoldingInv, HeldInv, BookInv, AccountTypes, Statuses, TypeOK

\* Type correctness: no handler, feed or administrator leaves a variable without a value
\* of its kind.  (An exposure is a whole number and no more: a withdrawal of a negative
\* amount brings it below zero.)
THEOREM TypeCorrect == Spec => []TypeOK
<1>1. Inv /\ HoldingInv /\ BookInv => TypeOK
  BY AllTypes
<1> QED BY <1>1, AllInvariance, PTL

\* Whatever the order in which requests hold money, bets are closed and withdrawals of
\* any sign are made, a user's exposure is never less than what the open bets and pending
\* withdrawals hold, as long as closing freed what was held; and it is more only for a
\* user with a negative withdrawal, whom the clamp at zero deprives of it.
THEOREM ExposureKept == Spec => []ExposureIsWhatIsHeld
<1>1. HoldingInv => ExposureIsWhatIsHeld
  BY DEF HoldingInv
<1> QED BY <1>1, AllInvariance, PTL

\* HoldFunds never takes an exposure above the balance, however stale the checks that the
\* handler made before it; and nothing else raises one, unless from below zero to zero.
THEOREM HoldsCovered == Spec => HoldsOnlyWhatIsThere
<1>1. Inv /\ HoldingInv /\ BookInv /\ [Next]_vars => [Covered]_vars
  <2>1. ASSUME Inv, HoldingInv, BookInv, [Next]_vars
        PROVE  Covered
    <3>1. balance \in [User -> Int]
      BY <2>1 DEF BookInv, AccountTypes
    <3>2. Inv'
      BY <2>1, Step
    <3> QED BY <2>1, <3>1, <3>2, HoldingStep
  <2> QED BY <2>1
<1>2. [Covered]_vars => [\A u \in User :
         exposure'[u] > exposure[u] /\ exposure'[u] # 0
           => exposure'[u] <= balance'[u]]_vars
  BY DEF Covered
<1> QED BY <1>1, <1>2, AllInvariance, PTL DEF Spec, HoldsOnlyWhatIsThere

\* The accounts and platformRevenue agree through settlements of every kind of market,
\* cash-outs, transfers and new users of every role: no rupee appears or goes that is not
\* in the books or in the credit that superadmins and demo accounts were opened with.
THEOREM BooksKept == Spec => []BooksBalance
<1>1. Inv /\ HoldingInv /\ BookInv => BooksBalance
  <2>1. ASSUME Inv, HoldingInv, BookInv
        PROVE  BooksBalance
    <3>1. DOMAIN balance = User
      BY <2>1 DEF BookInv, AccountTypes
    <3>2. SumFunction(balance) = SumFunctionOnSet(balance, User)
      BY <3>1 DEF SumFunction
    <3> QED BY <2>1, <3>2, AllTypes DEF BooksBalance, BookInv, Books
  <2> QED BY <2>1
<1> QED BY <1>1, AllInvariance, PTL
=============================================================================
