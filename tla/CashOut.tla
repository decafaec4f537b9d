-------------------------------- MODULE CashOut --------------------------------
(***************************************************************************)
(* internal/cashout/service.go beside the settlement of the same bets: an  *)
(* offer is made for a matched bet, holds for ten seconds, and is accepted *)
(* in a transaction that settles the bet; the wallet is called after its   *)
(* commit, with errors dropped.  The bets, the outbox and the accounts are *)
(* those of Settlement, whose settlements, voids and rollbacks go on       *)
(* meanwhile.  The offers of a bet are made and accepted each by itself,   *)
(* whatever has become of the bet and of its other offers.                 *)
(***************************************************************************)
EXTENDS Settlement

CONSTANTS
  Offer,       \* ids of offers
  Dealer,      \* goroutines that serve cash-out requests
  Prices       \* prices the market may have in Redis, or the fallback

VARIABLES
  offers,      \* cashout_offers
  late,        \* the offers more than ten seconds old
  dealing,     \* what each goroutine is doing
  covered,     \* history: the profits of a bet that offers have written theirs over
  paidOut      \* history: how often each offer was paid

cashVars == <<offers, late, dealing, covered, paidOut>>
allVars == <<vars, cashVars>>
settlementVars == <<market, outbox, worker, ops, releases, payments>>

NoOffer == [status |-> "none"]
NoDeal == [at |-> "idle"]

CashInit ==
  /\ Init
  /\ offers = [o \in Offer |-> NoOffer] /\ late = {}
  /\ dealing = [d \in Dealer |-> NoDeal]
  /\ covered = [b \in Bet |-> 0] /\ paidOut = [o \in Offer |-> 0]

\* 95 % of what the stake is worth at the current price.
CashoutAmount(b, current) ==
  LET stake == placed[b].matched
      worth == IF placed[b].side = "back" THEN (placed[b].price * stake) \div current
               ELSE stake + stake * (placed[b].price - 1) - stake * (current - 1)
  IN  (worth * 95) \div 100

Deals(d, step) == dealing[d] # NoDeal /\ dealing[d].at = step
Advance(d, step) == dealing' = [dealing EXCEPT ![d].at = step]
Finish(d) == dealing' = [dealing EXCEPT ![d] = NoDeal]

\* GenerateOffer: SELECT of the bet and the price, which is more than one.
PriceOffer(d, o, b, current) ==
  /\ dealing[d] = NoDeal /\ offers[o] = NoOffer
  /\ \A c \in Dealer : dealing[c] # NoDeal => dealing[c].offer # o
  /\ current \in Nat /\ current > 1
  /\ bets[b].status \in {"matched", "partial"} /\ placed[b].matched > 0
  /\ CashoutAmount(b, current) > 0
  /\ dealing' = [dealing EXCEPT ![d] =
       [at |-> "insert", offer |-> o, bet |-> b, amount |-> CashoutAmount(b, current)]]
  /\ UNCHANGED <<vars, offers, late, covered, paidOut>>

InsertOffer(d) ==
  /\ Deals(d, "insert")
  /\ offers' = [offers EXCEPT ![dealing[d].offer] =
       [status |-> "offered", bet |-> dealing[d].bet, amount |-> dealing[d].amount]]
  /\ Finish(d)
  /\ UNCHANGED <<vars, late, covered, paidOut>>

TenSeconds(o) ==
  /\ offers[o] # NoOffer /\ o \notin late /\ late' = late \cup {o}
  /\ UNCHANGED <<vars, offers, dealing, covered, paidOut>>

\* Mutant: whatever has become of the offer.
AcceptableAgain(o) == offers[o].status \in {"offered", "accepted"} /\ o \notin late

Acceptable(o) == offers[o].status = "offered" /\ o \notin late

Profit(o) == offers[o].amount - placed[offers[o].bet].matched

\* AcceptOffer's transaction: the offer's row is locked, the bet's status not looked at.
AcceptOffer(d, o) ==
  LET b == offers[o].bet IN
  /\ dealing[d] = NoDeal /\ Acceptable(o)
  /\ offers' = [offers EXCEPT ![o].status = "accepted"]
  /\ bets' = [bets EXCEPT ![b] = [status |-> "settled", profit |-> Profit(o)]]
  /\ covered' = [covered EXCEPT ![b] = @ + bets[b].profit]
  /\ dealing' = [dealing EXCEPT ![d] = [at |-> "release", offer |-> o, bet |-> b]]
  /\ UNCHANGED <<accountVars, settlementVars, faults, late, paidOut>>

ExpireOffer(o) ==
  /\ offers[o].status = "offered" /\ o \in late
  /\ offers' = [offers EXCEPT ![o].status = "expired"]
  /\ UNCHANGED <<vars, late, dealing, covered, paidOut>>

ReleaseHold(d) ==
  LET b == dealing[d].bet IN
  /\ Deals(d, "release")
  /\ ReleaseFunds(placed[b].user, placed[b].matched, b)
  /\ Advance(d, "pay")
  /\ UNCHANGED <<bets, settlementVars, faults, offers, late, covered, paidOut>>

PayOffer(d) ==
  LET o == dealing[d].offer  b == dealing[d].bet IN
  /\ Deals(d, "pay")
  /\ SettleBet(placed[b].user, b, Profit(o), 0)
  /\ paidOut' = [paidOut EXCEPT ![o] = @ + 1]
  /\ Finish(d)
  /\ UNCHANGED <<bets, settlementVars, faults, offers, late, covered>>

\* An error of either wallet call is not looked at; one of the insertion ends the request.
CallFails(d) ==
  /\ \/ faults < MaxFaults /\ faults' = faults + 1
     \/ /\ Deals(d, "pay") /\ UNCHANGED faults
        /\ ~Payable(placed[dealing[d].bet].user, Profit(dealing[d].offer), 0)
  /\ \/ Deals(d, "release") /\ Advance(d, "pay")
     \/ (Deals(d, "insert") \/ Deals(d, "pay")) /\ Finish(d)
  /\ UNCHANGED <<bets, accountVars, settlementVars, offers, late, covered, paidOut>>

\* The gateway dies: what was accepted and not yet paid stays so.
GatewayCrash ==
  /\ \E d \in Dealer : dealing[d] # NoDeal
  /\ faults < MaxFaults /\ faults' = faults + 1
  /\ dealing' = [d \in Dealer |-> NoDeal]
  /\ worker' = [w \in Worker |-> Idle]
  /\ UNCHANGED <<accountVars, bets, market, outbox, ops, doneVars, offers, late, covered,
                 paidOut>>

SettlementGoesOn ==
  /\ \/ \E a \in Admin : Operate(a)
     \/ UpdateStatus \/ SyncFromProvider
     \/ \E w \in Worker : Work(w) \/ Fault(w)
  /\ UNCHANGED cashVars

CashNext ==
  \/ \E d \in Dealer :
       \/ \E o \in Offer, b \in Bet, current \in Prices : PriceOffer(d, o, b, current)
       \/ \E o \in Offer : AcceptOffer(d, o)
       \/ InsertOffer(d) \/ ReleaseHold(d) \/ PayOffer(d) \/ CallFails(d)
  \/ \E o \in Offer : TenSeconds(o) \/ ExpireOffer(o)
  \/ SettlementGoesOn
  \/ GatewayCrash

CashSpec == CashInit /\ [][CashNext]_allVars

-----------------------------------------------------------------------------

\* Values of every variable that Settlement has not.
CashTypeOK ==
  /\ TypeOK
  /\ \A o \in Offer : offers[o] = NoOffer \/
       /\ offers[o].status \in {"offered", "accepted", "expired"}
       /\ offers[o].bet \in Bet /\ offers[o].amount \in Nat \ {0}
  /\ late \subseteq Offer
  /\ \A d \in Dealer : dealing[d] = NoDeal \/ dealing[d].at \in {"insert", "release", "pay"}
  /\ covered \in [Bet -> Int]
  /\ paidOut \in [Offer -> Nat]

\* However often an offer is accepted, by however many requests, beside a settlement,
\* failed calls and crashes, it is paid at most once, and only when it was accepted.
OfferPaidOnce ==
  \A o \in Offer : paidOut[o] > 0 => paidOut[o] = 1 /\ offers[o].status = "accepted"

AcceptedOf(b) == {o \in Offer : offers[o].status = "accepted" /\ offers[o].bet = b}

\* Settled, voided, rolled back and cashed out in any order, a bet shows the profit that
\* the outbox and its accepted offers pay.  An offer accepted when the bet was settled
\* already, by the market or by another offer, is paid on top of what its row showed, and
\* nothing else is: what it was written over is all the row does not tell.
OffersAddUp ==
  \A b \in Bet :
    bets[b].profit + covered[b] =
      SumFunction([e \in EventsOf(b) |-> outbox[e].amount])
        + SumFunction([o \in AcceptedOf(b) |-> Profit(o)])

\* An accepted offer is paid once at most, and a bet's profit accounts for it beside all
\* that settlements and rollbacks of the market do meanwhile.
CashOutHolds == CashTypeOK /\ OfferPaidOnce /\ OffersAddUp

=============================================================================
