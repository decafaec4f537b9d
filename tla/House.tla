--------------------------------- MODULE House ---------------------------------
(***************************************************************************)
(* The betting side of the mock server (cmd/mockserver/main.go, store.go), *)
(* with its state in memory.  The house takes the other side of every bet: *)
(* PlaceAndMatch matches a bet in full at once, and no order ever rests.   *)
(*                                                                         *)
(* A bet or a withdrawal is a request that goes through its handler in     *)
(* steps, each reading the store under a lock of its own or under none:    *)
(*   GetUser, status, self-exclusion          CheckAccount                 *)
(*   the market's status                      CheckMarket                  *)
(*   the runner's best price                  CheckOdds                    *)
(*   the available balance                    CheckMoney, CheckWithdrawal  *)
(*   half the balance per market              CheckMarketLimit             *)
(*   the client's reference                   CheckClientRef               *)
(*   PlaceAndMatch, CreatePaymentTx           Place, CreatePaymentTx       *)
(*   HoldFunds                                Hold, HoldFails              *)
(* Everything else is one section of Store.mu, and one action here.        *)
(*                                                                         *)
(* Money is in rupees and prices in hundredths.  The selections of a       *)
(* market share its best prices.                                           *)
(***************************************************************************)
EXTENDS Integers, Sequences, FiniteSets, Functions

CONSTANTS
  User, NoUser,
  Parent,          \* whose account a new user's credit comes from
  Opening,         \* the balances of the users there are from the start
  DemoBalance, CommissionRate,
  Market, Kind,    \* each market's type
  Selection, Quote,   \* the best prices a feed may quote: [back, lay]
  Requests,        \* the bets and withdrawals users ask for
  Credit,          \* amounts transferred, or asked for a new user
  Proc,            \* goroutines serving requests
  MaxRequests, MaxOperations   \* bounds: requests, and everything else

Side == {"back", "lay"}

\* A price is 1.01 or more: of a bet by the handler's check of the body, of a quote by
\* the feeds, which leave smaller ones out.
Price == Nat \ 0..100

BetRequest == [op : {"bet"}, user : User, market : Market, selection : Selection,
               side : Side, price : Price, stake : Nat, ref : Nat]

\* Nothing asks for the sign of a withdrawal.
WithdrawRequest == [op : {"withdraw"}, user : User, amount : Int]

ASSUME HouseAssumption ==
  /\ IsFiniteSet(User) /\ NoUser \notin User
  /\ Parent \in [User -> User \cup {NoUser}]
  /\ DOMAIN Opening \subseteq User /\ Opening \in [DOMAIN Opening -> Nat]
  /\ DemoBalance \in Nat /\ CommissionRate \in 0..100
  /\ Kind \in [Market -> {"match_odds", "bookmaker", "fancy", "session"}]
  /\ Quote \subseteq [back : Price \cup {0}, lay : Price \cup {0}]
  /\ Requests \subseteq BetRequest \cup WithdrawRequest
  /\ Credit \subseteq Int
  /\ MaxRequests \in Nat /\ MaxOperations \in Nat

VARIABLES
  balance, exposure,   \* of store.users
  status,      \* of store.users; "none": no such user yet
  excluded,    \* the users with responsibleLimits.SelfExcluded
  market,      \* the status of store.markets
  best,        \* the best prices of store.runners
  bets,        \* store.bets, in the order they were placed
  payments,    \* the withdrawals in store.paymentTxns
  req,         \* the request each goroutine is serving
  revenue,     \* store.platformRevenue
  requests, operations,
  issued,      \* history: money that came from nowhere
  drifted      \* history: users with a bet closed for another amount than it held

vars == <<balance, exposure, status, excluded, market, best, bets, payments,
          req, revenue, requests, operations, issued, drifted>>

moneyVars == <<balance, exposure, revenue, issued, drifted>>

Bet == [user : User, market : Market, selection : Selection, side : Side,
        price : Price, asked : Price, stake : Nat, ref : Nat,
        status : {"matched", "settled", "void"}, cashed : BOOLEAN,
        profit : Int, hold : Nat]
Payment == [user : User, amount : Int, hold : Int]

Known == {u \in User : status[u] # "none"}
Available(u) == balance[u] - exposure[u]
Gain(stake, price) == (stake * (price - 100)) \div 100
Liability(side, stake, price) == IF side = "back" THEN stake ELSE Gain(stake, price)
NonNegative(n) == IF n < 0 THEN 0 ELSE n

NoRequest == [at |-> "idle"]
BetSteps == {"account", "market", "odds", "money", "limit", "ref", "place", "hold"}
WithdrawSteps == {"withdrawal", "payment", "hold"}

Init ==
  /\ balance = [u \in User |-> IF u \in DOMAIN Opening THEN Opening[u] ELSE 0]
  /\ exposure = [u \in User |-> 0]
  /\ status = [u \in User |-> IF u \in DOMAIN Opening THEN "active" ELSE "none"]
  /\ excluded = {}
  /\ market = [m \in Market |-> "open"]
  /\ best \in [Market -> Quote]
  /\ bets = <<>> /\ payments = <<>>
  /\ req = [p \in Proc |-> NoRequest]
  /\ revenue = [commission |-> 0, bookmaker |-> 0]
  /\ requests = 0 /\ operations = 0
  /\ issued = SumFunction(Opening)
  /\ drifted = {}

-----------------------------------------------------------------------------
\* The request handlers.

Receive(p, r) ==
  /\ req[p] = NoRequest /\ requests < MaxRequests
  /\ req' = [req EXCEPT ![p] =
               [at |-> IF r.op = "bet" THEN "account" ELSE "withdrawal",
                r |-> r, price |-> IF r.op = "bet" THEN r.price ELSE 0, row |-> 0]]
  /\ requests' = requests + 1
  /\ UNCHANGED <<moneyVars, status, excluded, market, best, bets, payments,
                 operations>>

At(p, step) == req[p] # NoRequest /\ req[p].at = step

\* The check lets the request go on, or answers it with an error.
Check(p, step, ok, next) ==
  /\ At(p, step)
  /\ req' = [req EXCEPT ![p] = IF ok THEN [@ EXCEPT !.at = next] ELSE NoRequest]
  /\ UNCHANGED <<moneyVars, status, excluded, market, best, bets, payments,
                 requests, operations>>

CheckAccount(p) ==
  LET u == req[p].r.user IN
  Check(p, "account", status[u] = "active" /\ u \notin excluded, "market")

CheckMarket(p) == Check(p, "market", market[req[p].r.market] = "open", "odds")

Distance(x, y) == IF x < y THEN y - x ELSE x - y

\* Mutant: any move of the odds is taken.
AnyDrift(m) == 1000

\* Session rates must be exact, odds may have moved by 0.02.
AllowedDrift(m) == IF Kind[m] \in {"fancy", "session"} THEN 0 ELSE 2

\* The bet goes on at the current price; a price of zero is no price.
CheckOdds(p) ==
  /\ At(p, "odds")
  /\ LET r == req[p].r
         current == best[r.market][r.side]
     IN req' = [req EXCEPT ![p] =
          IF current = 0 THEN [@ EXCEPT !.at = "money"]
          ELSE IF Distance(r.price, current) > AllowedDrift(r.market) THEN NoRequest
          ELSE [@ EXCEPT !.at = "money", !.price = current]]
  /\ UNCHANGED <<moneyVars, status, excluded, market, best, bets, payments,
                 requests, operations>>

HoldAmount(p) == Liability(req[p].r.side, req[p].r.stake, req[p].price)

CheckMoney(p) ==
  Check(p, "money", Available(req[p].r.user) >= HoldAmount(p), "limit")

OpenBets(u, m) ==
  {i \in DOMAIN bets : bets[i].user = u /\ bets[i].market = m
                         /\ bets[i].status = "matched"}

\* At most half of the balance on one market; no limit without a balance.
CheckMarketLimit(p) ==
  LET r == req[p].r
      staked == SumFunction([i \in OpenBets(r.user, r.market) |->
                               Liability(bets[i].side, bets[i].stake, bets[i].price)])
  IN Check(p, "limit", balance[r.user] <= 0
             \/ 2 * (staked + HoldAmount(p)) <= balance[r.user], "ref")

CheckClientRef(p) ==
  LET r == req[p].r IN
  Check(p, "ref", r.ref = 0 \/
          ~\E i \in DOMAIN bets : bets[i].user = r.user /\ bets[i].ref = r.ref, "place")

Place(p) ==
  /\ At(p, "place")
  /\ LET r == req[p].r IN
     bets' = Append(bets, [user |-> r.user, market |-> r.market,
                selection |-> r.selection, side |-> r.side, price |-> req[p].price,
                asked |-> r.price, stake |-> r.stake, ref |-> r.ref,
                status |-> "matched", cashed |-> FALSE, profit |-> 0, hold |-> 0])
  /\ req' = [req EXCEPT ![p].at = "hold", ![p].row = Len(bets) + 1]
  /\ UNCHANGED <<moneyVars, status, excluded, market, best, payments,
                 requests, operations>>

CheckWithdrawal(p) ==
  Check(p, "withdrawal",
        status[req[p].r.user] # "none" /\ Available(req[p].r.user) >= req[p].r.amount,
        "payment")

CreatePaymentTx(p) ==
  /\ At(p, "payment")
  /\ payments' = Append(payments, [user |-> req[p].r.user,
                                   amount |-> req[p].r.amount, hold |-> 0])
  /\ req' = [req EXCEPT ![p].at = "hold", ![p].row = Len(payments) + 1]
  /\ UNCHANGED <<moneyVars, status, excluded, market, best, bets,
                 requests, operations>>

ToHold(p) == IF req[p].r.op = "bet" THEN HoldAmount(p) ELSE req[p].r.amount

\* Mutant: the handler's own check is trusted.
HoldUnchecked(p) == req[p].r.user \in Known

\* The second check, made under the lock that also writes.
Holdable(p) ==
  req[p].r.user \in Known /\ Available(req[p].r.user) >= ToHold(p)

Hold(p) ==
  /\ At(p, "hold") /\ Holdable(p)
  /\ LET r == req[p].r
         i == req[p].row
     IN /\ exposure' = [exposure EXCEPT ![r.user] = @ + ToHold(p)]
        /\ bets' = IF r.op = "bet" THEN [bets EXCEPT ![i].hold = ToHold(p)] ELSE bets
        /\ payments' = IF r.op = "bet" THEN payments
                       ELSE [payments EXCEPT ![i].hold = ToHold(p)]
        /\ drifted' = IF r.op = "bet" /\ bets[i].status # "matched"
                      THEN drifted \cup {r.user} ELSE drifted
  /\ req' = [req EXCEPT ![p] = NoRequest]
  /\ UNCHANGED <<balance, status, excluded, market, best, revenue, requests,
                 operations, issued>>

\* A bet's client gets an error; a withdrawal's is told that it is under way.
HoldFails(p) ==
  /\ At(p, "hold") /\ ~Holdable(p)
  /\ req' = [req EXCEPT ![p] = NoRequest]
  /\ UNCHANGED <<moneyVars, status, excluded, market, best, bets, payments,
                 requests, operations>>

-----------------------------------------------------------------------------
\* Settling, voiding and cashing out.

Operate == operations < MaxOperations /\ operations' = operations + 1

Won(b, winner) ==
  \/ b.side = "back" /\ b.selection = winner
  \/ b.side = "lay" /\ b.selection # winner

Pnl(b, winner) ==
  IF b.side = "back"
  THEN IF Won(b, winner) THEN Gain(b.stake, b.price) ELSE -b.stake
  ELSE IF Won(b, winner) THEN b.stake ELSE -Gain(b.stake, b.price)

Fee(pnl) == IF pnl > 0 THEN (pnl * CommissionRate) \div 100 ELSE 0
IsHouseMarket(m) == Kind[m] \in {"bookmaker", "fancy", "session"}

\* Mutant: only void bets are passed over.
NotVoidOn(m) == {i \in DOMAIN bets : bets[i].market = m /\ bets[i].status # "void"}

OpenOn(m) == {i \in DOMAIN bets : bets[i].market = m /\ bets[i].status = "matched"}
OfUser(u, closing) == {i \in closing : bets[i].user = u}

Stakes == [i \in DOMAIN bets |-> bets[i].stake]

\* Closing a bet frees its stake, whatever it held.
Released(closing) ==
  [u \in User |->
     IF OfUser(u, closing) = {} THEN exposure[u]
     ELSE NonNegative(exposure[u] - SumFunctionOnSet(Stakes, OfUser(u, closing)))]

DriftedBy(closing) ==
  drifted \cup {bets[i].user : i \in {j \in closing : bets[j].hold # bets[j].stake}}

SettleMarket(m, winner) ==
  LET closing == OpenOn(m)
      pnl == [i \in closing |-> Pnl(bets[i], winner)]
      fee == [i \in closing |-> Fee(pnl[i])]
      pays == [i \in closing |-> pnl[i] - fee[i]]
  IN
  /\ Operate
  /\ market' = [market EXCEPT ![m] = "settled"]
  /\ bets' = [i \in DOMAIN bets |-> IF i \in closing
                THEN [bets[i] EXCEPT !.status = "settled", !.profit = pnl[i]]
                ELSE bets[i]]
  /\ balance' = [u \in User |->
                   balance[u] + SumFunctionOnSet(pays, OfUser(u, closing))]
  /\ exposure' = Released(closing)
  /\ revenue' = IF IsHouseMarket(m)
                THEN [revenue EXCEPT !.bookmaker = @ + SumFunction(fee) - SumFunction(pnl)]
                ELSE [revenue EXCEPT !.commission = @ + SumFunction(fee)]
  /\ drifted' = DriftedBy(closing)
  /\ UNCHANGED <<status, excluded, best, payments, req, requests, issued>>

VoidMarket(m) ==
  LET closing == OpenOn(m) IN
  /\ Operate
  /\ market' = [market EXCEPT ![m] = "void"]
  /\ bets' = [i \in DOMAIN bets |->
                IF i \in closing THEN [bets[i] EXCEPT !.status = "void"] ELSE bets[i]]
  /\ exposure' = Released(closing)
  /\ drifted' = DriftedBy(closing)
  /\ UNCHANGED <<balance, status, excluded, best, payments, req, revenue, requests,
                 issued>>

Cashout(b) ==
  IF b.side = "back" THEN (Gain(b.stake, b.price) * 90) \div 100
  ELSE (b.stake * 95) \div 100

CashoutAccept(i) ==
  LET u == bets[i].user IN
  /\ Operate /\ bets[i].status = "matched"
  /\ bets' = [bets EXCEPT ![i].status = "settled", ![i].cashed = TRUE,
                          ![i].profit = Cashout(bets[i])]
  /\ exposure' = Released({i})
  /\ balance' = [balance EXCEPT ![u] = @ + Cashout(bets[i])]
  /\ drifted' = DriftedBy({i})
  /\ UNCHANGED <<status, excluded, market, best, payments, req, revenue, requests,
                 issued>>

-----------------------------------------------------------------------------
\* Administrators and feeds set a market's status whatever it was.

SetMarket(m, s) ==
  /\ Operate
  /\ market' = [market EXCEPT ![m] = s]
  /\ UNCHANGED <<moneyVars, status, excluded, best, bets, payments, req, requests>>

SuspendMarket(m) == SetMarket(m, "suspended")
ResumeMarket(m) == SetMarket(m, "open")

\* The live feed puts its own market and runners in place of those there are.
MergeOddsIntoStore(m, quote) ==
  /\ Operate
  /\ market' = [market EXCEPT ![m] = "open"]
  /\ best' = [best EXCEPT ![m] = quote]
  /\ UNCHANGED <<moneyVars, status, excluded, bets, payments, req, requests>>

\* The simulated feed moves the prices of open markets, lay above back.
OddsFluctuation(m, quote) ==
  /\ Operate /\ market[m] = "open"
  /\ quote # best[m] /\ quote.lay > quote.back
  /\ best' = [best EXCEPT ![m] = quote]
  /\ UNCHANGED <<moneyVars, status, excluded, market, bets, payments, req, requests>>

-----------------------------------------------------------------------------
\* Accounts.

\* The balance is tested, not what is available of it.
CanTransfer(from, to, amount) ==
  from \in Known /\ to \in Known /\ balance[from] >= amount

\* Mutant: the sender keeps what is sent.
MoveAndKeep(from, to, amount) == [balance EXCEPT ![to] = @ + amount]

Move(from, to, amount) ==
  [[balance EXCEPT ![from] = @ - amount] EXCEPT ![to] = @ + amount]

TransferCredit(from, to, amount) ==
  /\ Operate /\ amount > 0 /\ CanTransfer(from, to, amount)
  /\ balance' = Move(from, to, amount)
  /\ UNCHANGED <<exposure, status, excluded, market, best, bets, payments, req,
                 revenue, requests, issued, drifted>>

\* A superadmin's credit comes from nowhere, whatever its sign and whoever asks for it.
Seed(u, amount) ==
  /\ balance' = [balance EXCEPT ![u] = amount]
  /\ issued' = issued + amount

\* Another's credit comes from the parent.
FromParent(u, amount) ==
  /\ Parent[u] # NoUser /\ amount > 0
  /\ Parent[u] \in Known /\ Available(Parent[u]) >= amount
  /\ balance' = Move(Parent[u], u, amount)
  /\ UNCHANGED issued

\* Without a parent, or without a credit above zero, there is nothing to give.
NothingGiven(u, amount) ==
  /\ Parent[u] = NoUser \/ amount <= 0
  /\ UNCHANGED <<balance, issued>>

\* Registration takes any role, parent and credit.
CreateUser(u, role, amount) ==
  /\ Operate /\ status[u] = "none"
  /\ IF role = "superadmin" THEN Seed(u, amount)
     ELSE FromParent(u, amount) \/ NothingGiven(u, amount)
  /\ status' = [status EXCEPT ![u] = "active"]
  /\ UNCHANGED <<exposure, excluded, market, best, bets, payments, req, revenue,
                 requests, drifted>>

CreateDemoUser(u) ==
  /\ Operate /\ status[u] = "none" /\ Parent[u] = NoUser
  /\ status' = [status EXCEPT ![u] = "active"]
  /\ balance' = [balance EXCEPT ![u] = DemoBalance]
  /\ issued' = issued + DemoBalance
  /\ UNCHANGED <<exposure, excluded, market, best, bets, payments, req, revenue,
                 requests, drifted>>

\* The panel sets the status of a user below the caller.
PanelUpdateStatus(u, s) ==
  /\ Operate /\ u \in Known /\ Parent[u] # NoUser /\ s # status[u]
  /\ status' = [status EXCEPT ![u] = s]
  /\ UNCHANGED <<moneyVars, excluded, market, best, bets, payments, req, requests>>

SelfExclude(u) ==
  /\ Operate /\ u \in Known /\ u \notin excluded
  /\ excluded' = excluded \cup {u}
  /\ UNCHANGED <<moneyVars, status, market, best, bets, payments, req, requests>>

-----------------------------------------------------------------------------

Serve(p) ==
  \/ CheckAccount(p) \/ CheckMarket(p) \/ CheckOdds(p) \/ CheckMoney(p)
  \/ CheckMarketLimit(p) \/ CheckClientRef(p) \/ Place(p)
  \/ CheckWithdrawal(p) \/ CreatePaymentTx(p)
  \/ Hold(p) \/ HoldFails(p)

Administer(m) ==
  \/ \E winner \in Selection : SettleMarket(m, winner)
  \/ VoidMarket(m) \/ SuspendMarket(m) \/ ResumeMarket(m)
  \/ \E quote \in Quote : MergeOddsIntoStore(m, quote) \/ OddsFluctuation(m, quote)

Account(u) ==
  \/ \E role \in {"superadmin", "client"}, amount \in Credit : CreateUser(u, role, amount)
  \/ \E v \in User \ {u}, amount \in Credit : TransferCredit(u, v, amount)
  \/ CreateDemoUser(u) \/ SelfExclude(u)
  \/ \E s \in {"active", "suspended", "blocked"} : PanelUpdateStatus(u, s)

Next ==
  \/ \E p \in Proc : Serve(p) \/ \E r \in Requests : Receive(p, r)
  \/ \E i \in DOMAIN bets : CashoutAccept(i)
  \/ \E m \in Market : Administer(m)
  \/ \E u \in User : Account(u)

Spec == Init /\ [][Next]_vars

-----------------------------------------------------------------------------

RequestState ==
  {NoRequest} \cup
  [at : BetSteps \cup WithdrawSteps, r : Requests, price : Price \cup {0}, row : Nat]

\* Values of every variable.
TypeOK ==
  /\ balance \in [User -> Int] /\ exposure \in [User -> Int]
  /\ status \in [User -> {"none", "active", "suspended", "blocked"}]
  /\ excluded \subseteq User /\ drifted \subseteq User
  /\ market \in [Market -> {"open", "suspended", "settled", "void"}]
  /\ best \in [Market -> Quote]
  /\ bets \in Seq(Bet) /\ payments \in Seq(Payment)
  /\ req \in [Proc -> RequestState]
  /\ revenue \in [commission : Nat, bookmaker : Int]
  /\ requests \in Nat /\ operations \in Nat /\ issued \in Int

\* Every variable has a value of its kind, and the platform's own books agree with the
\* accounts: what users have is what was issued (to the users there were, to demo
\* accounts and to every superadmin registered since), what they won of each other and
\* were paid for cashed-out bets, less the commission and the bookmaker's profit that
\* platformRevenue records.
Profits == [i \in DOMAIN bets |-> bets[i].profit]
OutsideTheBook == {i \in DOMAIN bets : bets[i].cashed \/ ~IsHouseMarket(bets[i].market)}
Wins == SumFunctionOnSet(Profits, OutsideTheBook)

BooksBalance ==
  /\ TypeOK
  /\ SumFunction(balance)
       = issued + Wins - revenue.commission - revenue.bookmaker

BetHolds == [i \in DOMAIN bets |-> bets[i].hold]
OpenOf(u) == {i \in DOMAIN bets : bets[i].user = u /\ bets[i].status = "matched"}
PaymentHolds == [i \in DOMAIN payments |-> payments[i].hold]
PaymentsOf(u) == {i \in DOMAIN payments : payments[i].user = u}

\* What the user's open bets and pending withdrawals hold.
HeldOf(u) == SumFunctionOnSet(BetHolds, OpenOf(u))
             + SumFunctionOnSet(PaymentHolds, PaymentsOf(u))

\* A user's exposure is what the open bets and pending withdrawals hold.  Closing a
\* bet does not let it go below zero: when a withdrawal of a negative amount has
\* brought it there, or near, the exposure is more than what is held and never less.
\* Nothing is said of users with a bet closed that held another amount than the stake
\* which closing frees: a lay at a price other than 2, a bet whose hold failed or came
\* too late.
ExposureIsWhatIsHeld ==
  \A u \in User \ drifted :
    /\ exposure[u] >= HeldOf(u)
    /\ exposure[u] > HeldOf(u) =>
         \E i \in PaymentsOf(u) : payments[i].hold < 0

\* However old the handler's checks are when HoldFunds comes, money is held only
\* while the user has it.  (Closing a bet may bring an exposure up to zero.)
HoldsOnlyWhatIsThere ==
  [][\A u \in User : exposure'[u] > exposure[u] /\ exposure'[u] # 0
                        => exposure'[u] <= balance'[u]]_vars

\* Settlement, void and cash-out close a bet once between them; nothing changes
\* its outcome afterwards, whatever becomes of its market.
ClosedBetsAreFinal ==
  [][\A i \in DOMAIN bets : bets[i].status # "matched" =>
       bets'[i].status = bets[i].status /\ bets'[i].profit = bets[i].profit]_vars

\* However the odds move while a bet is being checked, it is struck within 0.02 of
\* the price its player saw, and a session bet at the very rate.
PricedAsAsked ==
  \A i \in DOMAIN bets :
    /\ Distance(bets[i].price, bets[i].asked) <= 2
    /\ Kind[bets[i].market] \in {"fancy", "session"} => bets[i].price = bets[i].asked

=============================================================================
