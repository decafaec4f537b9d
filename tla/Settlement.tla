------------------------------ MODULE Settlement ------------------------------
(***************************************************************************)
(* internal/settlement/service.go: the bets of one market are settled,     *)
(* voided or rolled back in one transaction, which leaves the payments in  *)
(* an outbox table.  The goroutines that then work the outbox off are the  *)
(* ticker of every gateway (cmd/gateway/main.go, every 5 s) and the        *)
(* request that settled, voided or rolled back; nothing keeps two of them  *)
(* from working on the same row.                                           *)
(*                                                                         *)
(* The wallet calls are the atomic operations of Account, which module     *)
(* Wallet implements.  The transactions are SERIALIZABLE and lock the      *)
(* market's row, so each is one action; one that aborts changes nothing.   *)
(***************************************************************************)
EXTENDS Account, FiniteSets, Functions

CONSTANTS
  Bet,             \* ids of the market's bets, numbers: ORDER BY id
  placed,          \* the bet rows as matching left them, see Placed
  Selection,       \* the runners of the market
  OpeningExposure, \* what PlaceBet has reserved for them
  CommissionRate,  \* auth.users.commission_rate, in percent
  BatchSize,       \* settlementBatchSize
  OutboxLimit,     \* rows ProcessOutbox reads at a time
  Ticker,          \* the outbox goroutines of the gateways
  Admin,           \* requests of administrators
  MaxOps,          \* bound: settlements, voids and rollbacks of a behaviour
  MaxFaults        \* bound: failed statements, failed wallet calls, crashes

Worker == Ticker \cup Admin
MarketStatus == {"open", "suspended", "closed", "settled", "void"}
OpenBet == {"matched", "partial", "unmatched", "pending"}
BetStatus == OpenBet \cup {"cancelled", "settled", "void"}

Placed == [user : User, selection : Selection, side : {"back", "lay"},
           price : Nat, stake : Nat, matched : Nat,
           status : OpenBet \cup {"cancelled"}]

ASSUME SettlementAssumption ==
  /\ Bet \subseteq Key \cap Nat /\ IsFiniteSet(Bet)
  /\ placed \in [Bet -> Placed]
  /\ OpeningExposure \in [User -> Nat]
  /\ CommissionRate \in [User -> 0..100]
  /\ BatchSize \in Nat \ {0} /\ OutboxLimit \in Nat \ {0}
  /\ MaxOps \in Nat /\ MaxFaults \in Nat

VARIABLES
  market,    \* markets.status
  bets,      \* status and profit of the bet rows
  outbox,    \* settlement_events, by id
  worker,    \* what each goroutine is doing
  ops,       \* settlements, voids and rollbacks so far
  faults,
  releases, payments   \* history: how often an event was applied

vars == <<accountVars, market, bets, outbox, worker, ops, faults, releases, payments>>
doneVars == <<releases, payments>>

\* The id of an event: the operation that wrote it and the bet.  Operations
\* on a market wait for its row, so BIGSERIAL numbers its events in this order.
EventId == Nat \X Bet
Before(e, f) == e[1] < f[1] \/ (e[1] = f[1] /\ e[2] < f[2])

Event == [type : {"settle", "void_release"}, amount : Int, fee : Nat,
          held : Nat, status : {"pending", "processed", "failed"}]

Pending == {e \in DOMAIN outbox : outbox[e].status = "pending"}

\* A goroutine working on the outbox: the rows its query returned and not yet
\* done, what it does to the first of them, and whether that went well so far.
Idle == [at |-> "idle", todo |-> {}, ok |-> TRUE]
Polling == [at |-> "poll", todo |-> {}, ok |-> TRUE]
Job == [at : {"idle", "poll", "release", "settle", "mark"},
        todo : SUBSET EventId, ok : BOOLEAN]

Init ==
  /\ balance = OpeningBalance
  /\ exposure = OpeningExposure
  /\ ledger = {}
  /\ market \in {"open", "suspended"}
  /\ bets = [b \in Bet |-> [status |-> placed[b].status, profit |-> 0]]
  /\ outbox = <<>> /\ releases = <<>> /\ payments = <<>>
  /\ worker = [w \in Worker |-> Idle]
  /\ ops = 0 /\ faults = 0

-----------------------------------------------------------------------------
\* Settling, voiding, rolling back

\* LIMIT BatchSize OFFSET offset, ordered by id
Page(rows, offset) ==
  {b \in rows : LET rank == Cardinality({c \in rows : c < b})
                IN  offset <= rank /\ rank < offset + BatchSize}

\* Mutants: the query forgets the status filter, or filters too little out.
MatchedOrSettled == {b \in Bet : bets[b].status \in {"matched", "partial", "settled"}}
NotYetSettled == {b \in Bet : bets[b].status \notin {"cancelled", "settled"}}

Matched == {b \in Bet : bets[b].status \in {"matched", "partial"}}

\* The bets the batches of SettleMarket reach: each query skips one batch more,
\* and no longer sees the bets the batches before it settled.
Fetched ==
  LET after[n \in 0..Cardinality(Bet)] ==
        IF n = 0 THEN {}
        ELSE after[n - 1] \cup Page(Matched \ after[n - 1], (n - 1) * BatchSize)
  IN  {b \in Matched : b \in after[Cardinality(Bet)]}

Won(b, winner) == (placed[b].side = "back") <=> (placed[b].selection = winner)

PnL(b, winner) ==
  LET liability == placed[b].matched * (placed[b].price - 1)
      stake == placed[b].matched
      back == placed[b].side = "back"
  IN  IF Won(b, winner) THEN IF back THEN liability ELSE stake
      ELSE IF back THEN -stake ELSE -liability

Commission(b, pnl) ==
  IF pnl > 0 THEN (pnl * CommissionRate[placed[b].user]) \div 100 ELSE 0

NewEvent(type, amount, fee, held) ==
  [type |-> type, amount |-> amount, fee |-> fee, held |-> held, status |-> "pending"]

\* The end of each operation's transaction: its events, one for each bet it
\* touched, and the request goes on to ProcessOutbox.
WriteOutbox(a, event) ==
  LET written == {ops + 1} \X DOMAIN event
      all == DOMAIN outbox \cup written
  IN  /\ ops' = ops + 1
      /\ outbox' = [e \in all |-> IF e \in written THEN event[e[2]] ELSE outbox[e]]
      /\ releases' = [e \in all |-> IF e \in written THEN 0 ELSE releases[e]]
      /\ payments' = [e \in all |-> IF e \in written THEN 0 ELSE payments[e]]
      /\ worker' = [worker EXCEPT ![a] = Polling]
      /\ UNCHANGED <<accountVars, faults>>

SettleMarket(a, winner) ==
  /\ worker[a] = Idle /\ ops < MaxOps
  /\ market \notin {"settled", "void"}
  /\ market' = "settled"
  /\ bets' = [b \in Bet |-> IF b \in Fetched
                            THEN [status |-> "settled", profit |-> PnL(b, winner)]
                            ELSE bets[b]]
  /\ WriteOutbox(a, [b \in Fetched |->
       NewEvent("settle", PnL(b, winner), Commission(b, PnL(b, winner)), placed[b].matched)])

\* Mutant: bets matched in part forgotten.
VoidableNotPartial == {b \in Bet : bets[b].status \in OpenBet \ {"partial"}}

Voidable == {b \in Bet : bets[b].status \in OpenBet}

VoidMarket(a) ==
  /\ worker[a] = Idle /\ ops < MaxOps
  /\ market \notin {"settled", "void"}
  /\ market' = "void"
  /\ bets' = [b \in Bet |-> IF b \in Voidable THEN [bets[b] EXCEPT !.status = "void"]
                                              ELSE bets[b]]
  /\ WriteOutbox(a, [b \in Voidable |-> NewEvent("void_release", 0, 0, placed[b].stake)])

SettledBets == {b \in Bet : bets[b].status = "settled"}

\* The compensating events take the profit back; they hold no stake again and
\* leave the commission.
RollbackSettlement(a) ==
  /\ worker[a] = Idle /\ ops < MaxOps
  /\ market = "settled"
  /\ market' = "open"
  /\ bets' = [b \in Bet |-> IF b \in SettledBets THEN [status |-> "matched", profit |-> 0]
                                             ELSE bets[b]]
  /\ WriteOutbox(a, [b \in SettledBets |-> NewEvent("settle", -bets[b].profit, 0, 0)])

\* Administrators suspend and resume whatever the market's status is.
UpdateStatus ==
  /\ market' \in {"suspended", "open"}
  /\ UNCHANGED <<accountVars, bets, outbox, worker, ops, faults, doneVars>>

\* Whoever lists the markets has the provider's status, which is always open,
\* written over one that differed when it was read before.
SyncFromProvider ==
  /\ market' = "open"
  /\ UNCHANGED <<accountVars, bets, outbox, worker, ops, faults, doneVars>>

-----------------------------------------------------------------------------
\* ProcessOutbox

WorkerUnchanged == <<market, bets, ops>>

\* Mutant: the page taken of all rows, and the pending ones of it.
PageOfAll == {e \in Pending : Cardinality({f \in DOMAIN outbox : Before(f, e)}) < OutboxLimit}

\* The first rows of the pending ones, in the order of their ids.
OutboxPage == {e \in Pending : Cardinality({f \in Pending : Before(f, e)}) < OutboxLimit}

StartOn(w, todo) ==
  worker' = [worker EXCEPT ![w] =
               IF todo = {} THEN Idle
               ELSE [at |-> "release", todo |-> todo, ok |-> TRUE]]

\* The query: at every tick, and after a request's own transaction.
Poll(w) ==
  /\ IF w \in Ticker THEN worker[w] = Idle ELSE worker[w].at = "poll"
  /\ StartOn(w, OutboxPage)
  /\ UNCHANGED <<WorkerUnchanged, accountVars, outbox, faults, doneVars>>

\* The query fails and is logged: the ticker will retry, the request will not.
PollFails(w) ==
  /\ worker[w].at = "poll" /\ faults < MaxFaults
  /\ faults' = faults + 1
  /\ worker' = [worker EXCEPT ![w] = Idle]
  /\ UNCHANGED <<WorkerUnchanged, accountVars, outbox, doneVars>>

\* w is about to do "step" to e, the first of the rows it still has.
OnEvent(w, e, step) ==
  /\ worker[w].at = step
  /\ e \in worker[w].todo
  /\ \A f \in worker[w].todo : ~Before(f, e)

Moves(w, step, ok) ==
  worker' = [worker EXCEPT ![w] = [at |-> step, todo |-> worker[w].todo, ok |-> ok]]

ReleaseStake(w, e) ==
  /\ OnEvent(w, e, "release")
  /\ ReleaseFunds(placed[e[2]].user, outbox[e].held, e[2])
  /\ releases' = [releases EXCEPT ![e] = @ + 1]
  /\ Moves(w, IF outbox[e].type = "settle" THEN "settle" ELSE "mark", TRUE)
  /\ UNCHANGED <<WorkerUnchanged, outbox, faults, payments>>

PayBet(w, e) ==
  /\ OnEvent(w, e, "settle")
  /\ SettleBet(placed[e[2]].user, e[2], outbox[e].amount, outbox[e].fee)
  /\ payments' = [payments EXCEPT ![e] = @ + 1]
  /\ Moves(w, "mark", TRUE)
  /\ UNCHANGED <<WorkerUnchanged, outbox, faults, releases>>

\* SettleBet runs into CHECK (balance >= 0): the money of a lost bet is gone.
CannotPay(w, e) ==
  /\ OnEvent(w, e, "settle")
  /\ ~Payable(placed[e[2]].user, outbox[e].amount, outbox[e].fee)
  /\ Moves(w, "mark", FALSE)
  /\ UNCHANGED <<WorkerUnchanged, accountVars, outbox, faults, doneVars>>

\* A wallet call fails: a serialization failure, a connection lost, the
\* request's context cancelled.
WalletFails(w, e) ==
  /\ OnEvent(w, e, "release") \/ OnEvent(w, e, "settle")
  /\ faults < MaxFaults /\ faults' = faults + 1
  /\ Moves(w, "mark", FALSE)
  /\ UNCHANGED <<WorkerUnchanged, accountVars, outbox, doneVars>>

\* Mutant: errors not looked at.
MarkProcessed(w, e) ==
  /\ OnEvent(w, e, "mark")
  /\ outbox' = [outbox EXCEPT ![e].status = "processed"]
  /\ StartOn(w, worker[w].todo \ {e})
  /\ UNCHANGED <<WorkerUnchanged, accountVars, faults, doneVars>>

Mark(w, e) ==
  /\ OnEvent(w, e, "mark")
  /\ outbox' = [outbox EXCEPT ![e].status = IF worker[w].ok THEN "processed" ELSE "failed"]
  /\ StartOn(w, worker[w].todo \ {e})
  /\ UNCHANGED <<WorkerUnchanged, accountVars, faults, doneVars>>

\* The update of the event's row fails: logged, and on to the next event.
MarkFails(w, e) ==
  /\ OnEvent(w, e, "mark") /\ faults < MaxFaults
  /\ faults' = faults + 1
  /\ StartOn(w, worker[w].todo \ {e})
  /\ UNCHANGED <<WorkerUnchanged, accountVars, outbox, doneVars>>

\* The gateways die and restart: their tickers tick again, requests are lost.
Crash ==
  /\ faults < MaxFaults /\ faults' = faults + 1
  /\ \E w \in Worker : worker[w] # Idle
  /\ worker' = [w \in Worker |-> Idle]
  /\ UNCHANGED <<WorkerUnchanged, accountVars, outbox, doneVars>>

\* Another caller of the wallet, each with a reference of its own.
OtherCall(r) ==
  /\ \A row \in ledger : row.key # r.key
  /\ Apply(r)
  /\ UNCHANGED <<WorkerUnchanged, outbox, worker, faults, doneVars>>

Operate(a) ==
  \/ \E winner \in Selection : SettleMarket(a, winner)
  \/ VoidMarket(a)
  \/ RollbackSettlement(a)

Work(w) ==
  \/ Poll(w)
  \/ \E e \in DOMAIN outbox : ReleaseStake(w, e) \/ PayBet(w, e) \/ CannotPay(w, e) \/ Mark(w, e)

Fault(w) ==
  \/ PollFails(w)
  \/ \E e \in DOMAIN outbox : WalletFails(w, e) \/ MarkFails(w, e)

Next ==
  \/ \E a \in Admin : Operate(a)
  \/ UpdateStatus \/ SyncFromProvider
  \/ \E w \in Worker : Work(w) \/ Fault(w)
  \/ \E r \in Requests : OtherCall(r)
  \/ Crash

Spec == Init /\ [][Next]_vars

\* The ticker keeps ticking and its goroutine keeps running.
FairSpec == Spec /\ \A t \in Ticker : WF_vars(Work(t))
-----------------------------------------------------------------------------

\* Values of every variable.
TypeOK ==
  /\ balance \in [User -> Nat]
  /\ exposure \in [User -> Nat]
  /\ ledger \subseteq LedgerRow
  /\ market \in MarketStatus
  /\ bets \in [Bet -> [status : BetStatus, profit : Int]]
  /\ DOMAIN outbox \subseteq EventId
  /\ outbox \in [DOMAIN outbox -> Event]
  /\ worker \in [Worker -> Job]
  /\ \A w \in Worker : worker[w].todo \subseteq DOMAIN outbox
  /\ ops \in Nat
  /\ faults \in Nat
  /\ releases \in [DOMAIN outbox -> Nat]
  /\ payments \in [DOMAIN outbox -> Nat]

EventsOf(b) == {e \in DOMAIN outbox : e[2] = b}

\* However a market is settled, rolled back, suspended, reopened and settled
\* again, the outbox pays a bet the profit its row shows: no settlement is
\* written twice for a bet and none is taken back that was not written.
ProfitIsWhatItsEventsPay ==
  \A b \in Bet : bets[b].profit = SumFunction([e \in EventsOf(b) |-> outbox[e].amount])

\* An event that is marked processed has been paid, whatever failed and
\* whoever else worked on it.
ProcessedWasApplied ==
  \A e \in DOMAIN outbox :
    outbox[e].status = "processed" =>
      /\ releases[e] > 0
      /\ outbox[e].type = "settle" => payments[e] > 0

\* A void bet stays void and is never paid, although administrators may
\* reopen a void market and settle it.
VoidIsFinal ==
  [][\A b \in Bet : bets[b].status = "void" =>
       /\ bets'[b] = bets[b]
       /\ \A e \in DOMAIN outbox' \ DOMAIN outbox : e[2] # b]_vars

\* No bet of a settled or void market is left matched: what VoidMarket and
\* the batches of SettleMarket do not reach would never be paid.
ClosedMarketHasNoMatchedBets ==
  market \in {"settled", "void"} => Matched = {}

\* Every event is worked off: failures and crashes only delay it, and an
\* event that cannot be paid does not hold up the others.
OutboxDrains ==
  \A e \in (1..MaxOps) \X Bet :
    (e \in Pending) ~> (e \in DOMAIN outbox \ Pending)

\* ProcessOutbox "is idempotent and safe to retry" (line 331): no event is
\* applied twice.  (Violated.)
AppliedAtMostOnce ==
  \A e \in DOMAIN outbox : releases[e] <= 1 /\ payments[e] <= 1
=============================================================================
