--------------------------- MODULE SettlementProofs ---------------------------
(***************************************************************************)
(* Proofs about Settlement and the cash-outs beside it, for every set of   *)
(* bets, users, goroutines and other calls, and without the bounds TLC     *)
(* needs to be small.                                                      *)
(*                                                                         *)
(* An event is only marked processed by a goroutine that applied it.  The  *)
(* inductive invariant says so of the goroutine before it marks: at the    *)
(* first of its rows, past a step, that step was done (JobInv).  It needs  *)
(* the ids of later operations to be later (IdInv): an operation must not  *)
(* write over an event a goroutine is working on.                          *)
(*                                                                         *)
(* The second layer is about amounts: what the events of a bet pay adds up *)
(* to its profit, because only a settled bet shows one (PayInv).  Another  *)
(* part is about SettleMarket's batches: one is enough for a market whose  *)
(* bets fit it.                                                            *)
(*                                                                         *)
(* The last part adds the cash-outs of CashOut. A goroutine that is about  *)
(* to pay an offer accepted it, and it alone (DealInv); and as above, what *)
(* a bet shows changes by what it is paid, or by an offer written over     *)
(* what it showed (OffersInv).                                             *)
(***************************************************************************)
EXTENDS CashOut, SumTheorems

IsFirst(w, e) == e \in worker[w].todo /\ \A f \in worker[w].todo : ~Before(f, e)

Applied(e) == releases[e] > 0 /\ (outbox[e].type = "settle" => payments[e] > 0)

IdInv == \A e \in DOMAIN outbox : e[1] <= ops

JobInv ==
  \A w \in Worker : \A e \in EventId :
    /\ OnEvent(w, e, "settle") => releases[e] > 0
    /\ OnEvent(w, e, "mark") /\ worker[w].ok => Applied(e)

Inv == TypeOK /\ IdInv /\ JobInv /\ ProcessedWasApplied

-----------------------------------------------------------------------------

\* The order of the ids is total: a goroutine has one first row.
LEMMA OneFirst ==
  ASSUME NEW e \in EventId, NEW f \in EventId, ~Before(e, f), ~Before(f, e)
  PROVE  e = f
  BY SettlementAssumption DEF EventId, Before

\* The P&L and the commission of a bet are amounts.
LEMMA PnLTyped ==
  ASSUME NEW b \in Bet, NEW winner \in Selection
  PROVE  /\ PnL(b, winner) \in Int
         /\ Commission(b, PnL(b, winner)) \in Nat
  <1>1. /\ placed[b].matched \in Nat /\ placed[b].price \in Nat
        /\ placed[b].user \in User
    BY SettlementAssumption DEF Placed
  <1>2. placed[b].matched * (placed[b].price - 1) \in Int /\ -placed[b].matched \in Int
    BY <1>1
  <1>3. -(placed[b].matched * (placed[b].price - 1)) \in Int
    BY <1>2
  <1>4. PnL(b, winner) \in Int
    BY <1>1, <1>2, <1>3 DEF PnL
  <1>5. CommissionRate[placed[b].user] \in Nat
    BY <1>1, SettlementAssumption
  <1>6. ASSUME NEW pnl \in Int, pnl > 0, NEW rate \in Nat
        PROVE  (pnl * rate) \div 100 \in Nat
    <2>1. pnl * rate \in Nat
      BY <1>6
    <2> QED BY <2>1
  <1> QED BY <1>4, <1>5, <1>6 DEF Commission

\* What an operation that writes events of type Event for some of the bets
\* leaves behind.
LEMMA Written ==
  ASSUME TypeOK, IdInv, NEW a \in Worker, NEW of \in SUBSET Bet,
         NEW event \in [of -> Event], \A b \in of : event[b].status = "pending",
         WriteOutbox(a, event)
  PROVE  /\ ops' = ops + 1
         /\ DOMAIN outbox' = DOMAIN outbox \cup ({ops + 1} \X of)
         /\ outbox' \in [DOMAIN outbox' -> Event]
         /\ releases' \in [DOMAIN outbox' -> Nat]
         /\ payments' \in [DOMAIN outbox' -> Nat]
         /\ DOMAIN outbox' \subseteq EventId
         /\ \A e \in DOMAIN outbox :
              outbox'[e] = outbox[e] /\ releases'[e] = releases[e] /\ payments'[e] = payments[e]
         /\ \A e \in DOMAIN outbox' \ DOMAIN outbox : outbox'[e].status = "pending"
         /\ worker' = [worker EXCEPT ![a] = Polling]
         /\ UNCHANGED <<accountVars, faults>>
  <1> DEFINE written == {ops + 1} \X of
             all == DOMAIN outbox \cup written
  <1>1. \A e \in written : e[1] = ops + 1 /\ e[2] \in of /\ e \in EventId
    BY DEF TypeOK, EventId
  <1>2. \A e \in DOMAIN outbox : e \notin written
    BY <1>1 DEF TypeOK, IdInv, EventId
  <1>3. /\ ops' = ops + 1
        /\ outbox' = [e \in all |-> IF e \in written THEN event[e[2]] ELSE outbox[e]]
        /\ releases' = [e \in all |-> IF e \in written THEN 0 ELSE releases[e]]
        /\ payments' = [e \in all |-> IF e \in written THEN 0 ELSE payments[e]]
        /\ worker' = [worker EXCEPT ![a] = Polling]
        /\ UNCHANGED <<accountVars, faults>>
    <2>1. DOMAIN event = of
      OBVIOUS
    <2> QED BY <2>1 DEF WriteOutbox
  <1>4. \A e \in written : event[e[2]] \in Event /\ event[e[2]].status = "pending"
    BY <1>1
  <1> HIDE DEF written
  <1>5. /\ outbox' \in [all -> Event]
        /\ releases' \in [all -> Nat]
        /\ payments' \in [all -> Nat]
        /\ all \subseteq EventId
    BY <1>1, <1>3, <1>4 DEF TypeOK
  <1>6. DOMAIN outbox' = all
    BY <1>3
  <1>7. \A e \in DOMAIN outbox :
          outbox'[e] = outbox[e] /\ releases'[e] = releases[e] /\ payments'[e] = payments[e]
    BY <1>2, <1>3
  <1>8. \A e \in DOMAIN outbox' \ DOMAIN outbox : outbox'[e].status = "pending"
    BY <1>3, <1>4, <1>6
  <1> QED BY <1>3, <1>5, <1>6, <1>7, <1>8 DEF written

-----------------------------------------------------------------------------

\* The invariant holds at the start.
THEOREM InitInv == Init => Inv
  <1> SUFFICES ASSUME Init PROVE Inv
    OBVIOUS
  <1>1. TypeOK
    BY AccountAssumption, SettlementAssumption
       DEF Init, TypeOK, AccountConstants, Placed, OpenBet, BetStatus, MarketStatus, Idle, Job, EventId
  <1>2. IdInv /\ JobInv /\ ProcessedWasApplied
    BY DEF Init, IdInv, JobInv, ProcessedWasApplied, OnEvent, Idle
  <1> QED BY <1>1, <1>2 DEF Inv

-----------------------------------------------------------------------------

\* The fields of an event and of the bet it is for.
LEMMA EventFields ==
  ASSUME TypeOK, NEW e \in DOMAIN outbox
  PROVE  /\ e \in EventId /\ e[2] \in Bet /\ e[2] \in Key
         /\ placed[e[2]].user \in User
         /\ outbox[e] \in Event
         /\ outbox[e].type \in {"settle", "void_release"}
         /\ outbox[e].amount \in Int /\ outbox[e].fee \in Nat /\ outbox[e].held \in Nat
  BY SettlementAssumption DEF TypeOK, EventId, Event, Placed

\* The wallet's operations keep the types of the account.
AccountTyped == balance \in [User -> Nat] /\ exposure \in [User -> Nat] /\ ledger \subseteq LedgerRow

LEMMA RowTyped ==
  ASSUME NEW kind \in Kinds, NEW key \in Key, NEW u \in User, NEW amount \in Int
  PROVE  Row(kind, key, u, amount) \in LedgerRow
  BY DEF Row, LedgerRow

LEMMA ReleaseTyped ==
  ASSUME AccountTyped, NEW u \in User, NEW amount \in Nat, NEW key \in Key,
         ReleaseFunds(u, amount, key)
  PROVE  AccountTyped'
  <1>1. ReleasedExposure(u, amount) \in Nat
    BY DEF AccountTyped, ReleasedExposure
  <1>2. Row("release", key, u, amount) \in LedgerRow
    BY RowTyped DEF Kinds
  <1> QED BY <1>1, <1>2 DEF AccountTyped, ReleaseFunds, Post

LEMMA SettleTyped ==
  ASSUME AccountTyped, NEW u \in User, NEW key \in Key, NEW pnl \in Int, NEW fee \in Nat,
         SettleBet(u, key, pnl, fee)
  PROVE  AccountTyped'
  <1>1. balance[u] + pnl - fee \in Nat
    BY DEF AccountTyped, SettleBet, Payable
  <1>2. SettlementRows(u, key, pnl, fee) \subseteq LedgerRow
    BY RowTyped DEF Kinds, SettlementRows
  <1> QED BY <1>1, <1>2 DEF AccountTyped, SettleBet, Post

LEMMA OtherTyped ==
  ASSUME AccountTyped, NEW r \in Requests, Apply(r)
  PROVE  AccountTyped'
  <1>1. /\ r.op \in Ops /\ r.user \in User /\ r.key \in Key
        /\ r.amount \in Int /\ -r.amount \in Int /\ r.fee \in Nat
        /\ r.op # "settle" => r.amount \in Nat /\ r.fee = 0
    BY AccountAssumption DEF AccountConstants, Request
  <1>2. ASSUME HoldFunds(r.user, r.amount, r.key), r.op = "hold"
        PROVE  AccountTyped'
    <2>1. Row("hold", r.key, r.user, -r.amount) \in LedgerRow
      BY <1>1, RowTyped DEF Kinds
    <2>2. exposure[r.user] + r.amount \in Nat
      BY <1>1, <1>2 DEF AccountTyped
    <2> QED BY <1>2, <2>1, <2>2 DEF AccountTyped, HoldFunds, Post
  <1>3. ASSUME Deposit(r.user, r.amount, r.key), r.op = "deposit"
        PROVE  AccountTyped'
    <2>1. Row("reference", r.key, r.user, r.amount) \in LedgerRow
      BY <1>1, RowTyped DEF Kinds
    <2>2. balance[r.user] + r.amount \in Nat
      BY <1>1, <1>3 DEF AccountTyped
    <2> QED BY <1>3, <2>1, <2>2 DEF AccountTyped, Deposit, Post
  <1>4. ASSUME Withdraw(r.user, r.amount, r.key), r.op = "withdraw"
        PROVE  AccountTyped'
    <2>1. Row("reference", r.key, r.user, -r.amount) \in LedgerRow
      BY <1>1, RowTyped DEF Kinds
    <2>2. balance[r.user] - r.amount \in Nat
      BY <1>1, <1>4 DEF AccountTyped, Withdraw, Available
    <2> QED BY <1>4, <2>1, <2>2 DEF AccountTyped, Withdraw, Post
  <1> QED BY <1>1, <1>2, <1>3, <1>4, ReleaseTyped, SettleTyped DEF Apply
-----------------------------------------------------------------------------

\* An operation that writes its events and keeps the types keeps the invariant.
LEMMA WriteKeepsInv ==
  ASSUME Inv, NEW a \in Worker, NEW of \in SUBSET Bet,
         NEW event \in [of -> Event], \A b \in of : event[b].status = "pending",
         WriteOutbox(a, event),
         market' \in MarketStatus,
         bets' \in [Bet -> [status : BetStatus, profit : Int]]
  PROVE  Inv'
  <1> USE DEF Inv
  <1>1. /\ ops' = ops + 1
        /\ DOMAIN outbox' = DOMAIN outbox \cup ({ops + 1} \X of)
        /\ outbox' \in [DOMAIN outbox' -> Event]
        /\ releases' \in [DOMAIN outbox' -> Nat]
        /\ payments' \in [DOMAIN outbox' -> Nat]
        /\ DOMAIN outbox' \subseteq EventId
        /\ \A e \in DOMAIN outbox :
             outbox'[e] = outbox[e] /\ releases'[e] = releases[e] /\ payments'[e] = payments[e]
        /\ \A e \in DOMAIN outbox' \ DOMAIN outbox : outbox'[e].status = "pending"
        /\ worker' = [worker EXCEPT ![a] = Polling]
        /\ UNCHANGED <<accountVars, faults>>
    BY Written
  <1>2. Polling \in Job /\ Polling.todo = {} /\ Polling.at = "poll"
    BY DEF Polling, Job
  <1>3. /\ worker' \in [Worker -> Job]
        /\ \A w \in Worker : worker'[w] = worker[w] \/ worker'[w] = Polling
    BY <1>1, <1>2 DEF TypeOK
  <1>4. TypeOK'
    BY <1>1, <1>2, <1>3 DEF TypeOK, accountVars
  <1>5. IdInv'
    BY <1>1 DEF IdInv, TypeOK, EventId
  <1>6. ProcessedWasApplied'
    BY <1>1 DEF ProcessedWasApplied
  <1>7. ASSUME NEW w \in Worker, NEW e \in EventId
        PROVE  /\ OnEvent(w, e, "settle")' => releases'[e] > 0
               /\ OnEvent(w, e, "mark")' /\ worker'[w].ok => Applied(e)'
    <2>1. CASE worker'[w] = Polling
      BY <1>2, <2>1 DEF OnEvent
    <2>2. CASE worker'[w] = worker[w] /\ e \in worker[w].todo
      <3>1. e \in DOMAIN outbox
        BY <2>2 DEF TypeOK
      <3> QED BY <1>1, <2>2, <3>1 DEF OnEvent, JobInv, Applied
    <2>3. CASE worker'[w] = worker[w] /\ e \notin worker[w].todo
      BY <2>3 DEF OnEvent
    <2> QED BY <1>3, <2>1, <2>2, <2>3
  <1> QED BY <1>4, <1>5, <1>6, <1>7 DEF JobInv

\* Settling, voiding and rolling back keep the invariant.
LEMMA OperateStep ==
  ASSUME Inv, NEW a \in Admin, Operate(a)
  PROVE  Inv'
  <1> USE DEF Inv
  <1>0. /\ a \in Worker
        /\ \A b \in Bet : bets[b] \in [status : BetStatus, profit : Int]
    BY DEF Worker, TypeOK
  <1>1. ASSUME NEW winner \in Selection, SettleMarket(a, winner)
        PROVE  Inv'
    <2> DEFINE event == [b \in Fetched |->
                 NewEvent("settle", PnL(b, winner), Commission(b, PnL(b, winner)), placed[b].matched)]
    <2>1. Fetched \in SUBSET Bet
      BY DEF Fetched, Matched
    <2>2. /\ event \in [Fetched -> Event]
          /\ \A b \in Fetched : event[b].status = "pending"
      BY <2>1, PnLTyped, SettlementAssumption DEF NewEvent, Event, Placed
    <2>3. /\ market' \in MarketStatus
          /\ bets' \in [Bet -> [status : BetStatus, profit : Int]]
      BY <1>0, <1>1, PnLTyped DEF SettleMarket, MarketStatus, BetStatus
    <2>4. WriteOutbox(a, event)
      BY <1>1 DEF SettleMarket
    <2> HIDE DEF event
    <2> QED BY <1>0, <2>1, <2>2, <2>3, <2>4, WriteKeepsInv
  <1>2. ASSUME VoidMarket(a)
        PROVE  Inv'
    <2> DEFINE event == [b \in Voidable |-> NewEvent("void_release", 0, 0, placed[b].stake)]
    <2>1. Voidable \in SUBSET Bet
      BY DEF Voidable
    <2>2. /\ event \in [Voidable -> Event]
          /\ \A b \in Voidable : event[b].status = "pending"
      BY <2>1, SettlementAssumption DEF NewEvent, Event, Placed
    <2>3. /\ market' \in MarketStatus
          /\ bets' \in [Bet -> [status : BetStatus, profit : Int]]
      BY <1>0, <1>2 DEF VoidMarket, MarketStatus, BetStatus
    <2>4. WriteOutbox(a, event)
      BY <1>2 DEF VoidMarket
    <2> HIDE DEF event
    <2> QED BY <1>0, <2>1, <2>2, <2>3, <2>4, WriteKeepsInv
  <1>3. ASSUME RollbackSettlement(a)
        PROVE  Inv'
    <2> DEFINE event == [b \in SettledBets |-> NewEvent("settle", -bets[b].profit, 0, 0)]
    <2>1. SettledBets \in SUBSET Bet
      BY DEF SettledBets
    <2>2. /\ event \in [SettledBets -> Event]
          /\ \A b \in SettledBets : event[b].status = "pending"
      BY <1>0, <2>1 DEF NewEvent, Event
    <2>3. /\ market' \in MarketStatus
          /\ bets' \in [Bet -> [status : BetStatus, profit : Int]]
      BY <1>0, <1>3 DEF RollbackSettlement, MarketStatus, BetStatus, OpenBet
    <2>4. WriteOutbox(a, event)
      BY <1>3 DEF RollbackSettlement
    <2> HIDE DEF event
    <2> QED BY <1>0, <2>1, <2>2, <2>3, <2>4, WriteKeepsInv
  <1> QED BY <1>1, <1>2, <1>3 DEF Operate

-----------------------------------------------------------------------------

\* What a step of w may do to the outbox without taking anything away from the
\* other goroutines: events keep their type, and are only applied more often.
Harmless(w) ==
  /\ \A v \in Worker \ {w} : worker'[v] = worker[v]
  /\ DOMAIN outbox' = DOMAIN outbox
  /\ \A e \in DOMAIN outbox : /\ outbox'[e].type = outbox[e].type
                              /\ releases'[e] >= releases[e]
                              /\ payments'[e] >= payments[e]

LEMMA OthersKeep ==
  ASSUME TypeOK, TypeOK', JobInv, NEW w \in Worker, Harmless(w), NEW v \in Worker \ {w}, NEW e \in EventId
  PROVE  /\ OnEvent(v, e, "settle")' => releases'[e] > 0
         /\ OnEvent(v, e, "mark")' /\ worker'[v].ok => Applied(e)'
  <1>1. CASE e \in worker[v].todo
    <2>1. e \in DOMAIN outbox
      BY <1>1 DEF TypeOK
    <2>2. releases[e] \in Nat /\ payments[e] \in Nat
      BY <2>1 DEF TypeOK
    <2>3. worker'[v] = worker[v] /\ outbox'[e].type = outbox[e].type
          /\ releases'[e] >= releases[e] /\ payments'[e] >= payments[e]
      BY <2>1 DEF Harmless
    <2>4. /\ OnEvent(v, e, "settle") => releases[e] > 0
          /\ OnEvent(v, e, "mark") /\ worker[v].ok => Applied(e)
      BY DEF JobInv
    <2>5. releases'[e] \in Nat /\ payments'[e] \in Nat
      BY <2>1 DEF TypeOK, Harmless
    <2> QED BY <2>2, <2>3, <2>4, <2>5 DEF OnEvent, Applied
  <1>2. CASE e \notin worker[v].todo
    BY <1>2 DEF Harmless, OnEvent
  <1> QED BY <1>1, <1>2

\* A goroutine that has just turned to its rows, or has none, has nothing to
\* show for the first of them.
LEMMA StartOnJob ==
  ASSUME worker \in [Worker -> Job], NEW w \in Worker, NEW todo \in SUBSET EventId,
         StartOn(w, todo)
  PROVE  /\ worker' \in [Worker -> Job]
         /\ \A v \in Worker \ {w} : worker'[v] = worker[v]
         /\ worker'[w].todo \subseteq todo
         /\ worker'[w].at \notin {"settle", "mark"}
  <1>1. PICK j : j = IF todo = {} THEN Idle ELSE [at |-> "release", todo |-> todo, ok |-> TRUE]
    OBVIOUS
  <1>2. j \in Job /\ j.todo \subseteq todo /\ j.at \notin {"settle", "mark"}
    BY <1>1 DEF Idle, Job
  <1>3. worker' = [worker EXCEPT ![w] = j]
    BY <1>1 DEF StartOn
  <1> QED BY <1>2, <1>3

\* The end of each step below: types kept, others unharmed, and w at its first
\* event as far as it says.
LEMMA StepKeepsInv ==
  ASSUME Inv, TypeOK', NEW w \in Worker, Harmless(w), UNCHANGED ops,
         \A e \in EventId :
           /\ OnEvent(w, e, "settle")' => releases'[e] > 0
           /\ OnEvent(w, e, "mark")' /\ worker'[w].ok => Applied(e)',
         \A e \in DOMAIN outbox :
           outbox'[e].status = "processed" => outbox[e].status = "processed" \/ Applied(e)
  PROVE  Inv'
  <1> USE DEF Inv
  <1>1. JobInv'
    BY OthersKeep DEF JobInv
  <1>2. IdInv'
    BY DEF IdInv, Harmless
  <1>3. ASSUME NEW e \in DOMAIN outbox', outbox'[e].status = "processed"
        PROVE  Applied(e)'
    <2>1. e \in DOMAIN outbox /\ Applied(e)
      BY <1>3 DEF Harmless, ProcessedWasApplied, Applied
    <2>2. /\ releases[e] \in Nat /\ payments[e] \in Nat
          /\ releases'[e] \in Nat /\ payments'[e] \in Nat
      BY <2>1 DEF TypeOK, Harmless
    <2> QED BY <2>1, <2>2 DEF Harmless, Applied
  <1>4. ProcessedWasApplied'
    BY <1>3 DEF ProcessedWasApplied, Applied
  <1> QED BY <1>1, <1>2, <1>4
-----------------------------------------------------------------------------

\* A goroutine that starts on other rows, or on fewer, does no harm.
LEMMA StartOnKeepsInv ==
  ASSUME Inv, NEW w \in Worker, NEW todo \in SUBSET (DOMAIN outbox), StartOn(w, todo),
         UNCHANGED <<market, bets, ops, accountVars, doneVars>>,
         outbox' \in [DOMAIN outbox -> Event],
         \A e \in DOMAIN outbox : outbox'[e].type = outbox[e].type,
         \A e \in DOMAIN outbox :
           outbox'[e].status = "processed" => outbox[e].status = "processed" \/ Applied(e),
         faults' \in Nat
  PROVE  Inv'
  <1> USE DEF Inv
  <1>1. /\ worker' \in [Worker -> Job]
        /\ \A v \in Worker \ {w} : worker'[v] = worker[v]
        /\ worker'[w].todo \subseteq todo
        /\ worker'[w].at \notin {"settle", "mark"}
    BY StartOnJob DEF TypeOK
  <1>2. TypeOK'
    BY <1>1 DEF TypeOK, accountVars, doneVars
  <1>3. Harmless(w)
    BY <1>1 DEF Harmless, doneVars, TypeOK
  <1>4. \A e \in EventId : ~OnEvent(w, e, "settle")' /\ ~OnEvent(w, e, "mark")'
    BY <1>1 DEF OnEvent
  <1> QED BY <1>2, <1>3, <1>4, StepKeepsInv

\* A goroutine that goes on to the next step of its first event.
LEMMA MovesJob ==
  ASSUME TypeOK, NEW w \in Worker, NEW step \in {"settle", "mark"}, NEW ok \in BOOLEAN,
         Moves(w, step, ok)
  PROVE  /\ worker' \in [Worker -> Job]
         /\ \A v \in Worker \ {w} : worker'[v] = worker[v]
         /\ worker'[w].at = step /\ worker'[w].ok = ok
         /\ worker'[w].todo = worker[w].todo
  <1>1. PICK j : j = [at |-> step, todo |-> worker[w].todo, ok |-> ok]
    OBVIOUS
  <1>2. worker[w].todo \in SUBSET EventId
    BY DEF TypeOK, Job
  <1>3. j \in Job
    BY <1>1, <1>2 DEF Job
  <1>4. worker' = [worker EXCEPT ![w] = j]
    BY <1>1 DEF Moves
  <1> QED BY <1>1, <1>3, <1>4 DEF TypeOK

LEMMA MovesKeepsInv ==
  ASSUME Inv, NEW w \in Worker, NEW e \in DOMAIN outbox,
         NEW at, OnEvent(w, e, at),
         NEW step \in {"settle", "mark"}, NEW ok \in BOOLEAN, Moves(w, step, ok),
         UNCHANGED <<market, bets, ops, outbox>>, AccountTyped', faults' \in Nat,
         releases' \in [DOMAIN outbox -> Nat], payments' \in [DOMAIN outbox -> Nat],
         \A f \in DOMAIN outbox : releases'[f] >= releases[f] /\ payments'[f] >= payments[f],
         step = "settle" => releases'[e] > 0,
         step = "mark" /\ ok => Applied(e)'
  PROVE  Inv'
  <1> USE DEF Inv
  <1>1. /\ worker' \in [Worker -> Job]
        /\ \A v \in Worker \ {w} : worker'[v] = worker[v]
        /\ worker'[w].at = step /\ worker'[w].ok = ok
        /\ worker'[w].todo = worker[w].todo
    BY MovesJob
  <1>2. TypeOK'
    BY <1>1 DEF TypeOK, AccountTyped
  <1>3. Harmless(w)
    BY <1>1 DEF Harmless
  <1>4. ASSUME NEW f \in EventId, OnEvent(w, f, "settle")' \/ OnEvent(w, f, "mark")'
        PROVE  f = e
    <2>1. f \in worker[w].todo /\ \A g \in worker[w].todo : ~Before(g, f)
      BY <1>1, <1>4 DEF OnEvent
    <2>2. e \in worker[w].todo /\ e \in EventId /\ \A g \in worker[w].todo : ~Before(g, e)
      BY DEF OnEvent, TypeOK
    <2> QED BY <2>1, <2>2, OneFirst
  <1>5. ASSUME NEW f \in EventId
        PROVE  /\ OnEvent(w, f, "settle")' => releases'[f] > 0
               /\ OnEvent(w, f, "mark")' /\ worker'[w].ok => Applied(f)'
    <2>1. CASE OnEvent(w, f, "settle")'
      BY <1>1, <1>4, <2>1 DEF OnEvent
    <2>2. CASE OnEvent(w, f, "mark")'
      BY <1>1, <1>4, <2>2 DEF OnEvent
    <2> QED BY <2>1, <2>2
  <1> QED BY <1>2, <1>3, <1>5, StepKeepsInv

LEMMA WorkStep ==
  ASSUME Inv, NEW w \in Worker, Work(w) \/ Fault(w)
  PROVE  Inv'
  <1> USE DEF Inv, WorkerUnchanged
  <1>0. /\ AccountTyped /\ faults \in Nat /\ faults + 1 \in Nat
        /\ releases \in [DOMAIN outbox -> Nat] /\ payments \in [DOMAIN outbox -> Nat]
        /\ outbox \in [DOMAIN outbox -> Event]
        /\ worker[w].todo \subseteq DOMAIN outbox
    BY DEF AccountTyped, TypeOK
  <1>1. CASE Poll(w)
    <2>1. OutboxPage \in SUBSET (DOMAIN outbox)
      BY DEF OutboxPage, Pending
    <2> QED BY <1>0, <1>1, <2>1, StartOnKeepsInv DEF Poll
  <1>2. CASE PollFails(w)
    <2>1. StartOn(w, {})
      BY <1>2 DEF PollFails, StartOn
    <2> QED BY <1>0, <1>2, <2>1, StartOnKeepsInv DEF PollFails
  <1>3. ASSUME NEW e \in DOMAIN outbox, Mark(w, e) \/ MarkFails(w, e)
        PROVE  Inv'
    <2>1. StartOn(w, worker[w].todo \ {e}) /\ worker[w].todo \ {e} \in SUBSET (DOMAIN outbox)
      BY <1>0, <1>3 DEF Mark, MarkFails
    <2>2. CASE MarkFails(w, e)
      BY <1>0, <2>1, <2>2, StartOnKeepsInv DEF MarkFails
    <2>3. CASE Mark(w, e)
      <3>1. PICK s \in {"processed", "failed"} :
              s = IF worker[w].ok THEN "processed" ELSE "failed"
        OBVIOUS
      <3>2. outbox' = [outbox EXCEPT ![e].status = s]
        BY <2>3, <3>1 DEF Mark
      <3>3. outbox[e] \in Event
        BY <1>0
      <3>4. /\ outbox' \in [DOMAIN outbox -> Event]
            /\ \A f \in DOMAIN outbox : outbox'[f].type = outbox[f].type
            /\ \A f \in DOMAIN outbox \ {e} : outbox'[f] = outbox[f]
            /\ outbox'[e].status = s
        BY <1>0, <3>2, <3>3 DEF Event
      <3>5. s = "processed" => Applied(e)
        BY <2>3, <3>1 DEF Mark, JobInv, TypeOK
      <3>6. \A f \in DOMAIN outbox :
              outbox'[f].status = "processed" => outbox[f].status = "processed" \/ Applied(f)
        BY <3>4, <3>5
      <3> QED BY <1>0, <2>1, <2>3, <3>4, <3>6, StartOnKeepsInv DEF Mark
    <2> QED BY <1>3, <2>2, <2>3
  <1>4. ASSUME NEW e \in DOMAIN outbox, ReleaseStake(w, e)
        PROVE  Inv'
    <2>1. /\ placed[e[2]].user \in User /\ e[2] \in Key /\ outbox[e].held \in Nat
          /\ outbox[e].type \in {"settle", "void_release"}
      BY EventFields
    <2>2. AccountTyped'
      BY <1>0, <1>4, <2>1, ReleaseTyped DEF ReleaseStake
    <2>3. PICK step \in {"settle", "mark"} :
            step = IF outbox[e].type = "settle" THEN "settle" ELSE "mark"
      OBVIOUS
    <2>4. Moves(w, step, TRUE) /\ UNCHANGED <<market, bets, ops, outbox>> /\ faults' \in Nat
      BY <1>0, <1>4, <2>3 DEF ReleaseStake
    <2>5. /\ releases' \in [DOMAIN outbox -> Nat] /\ payments' = payments
          /\ releases'[e] > 0
          /\ \A f \in DOMAIN outbox : releases'[f] >= releases[f] /\ payments'[f] >= payments[f]
      BY <1>0, <1>4 DEF ReleaseStake
    <2>6. step = "mark" => Applied(e)'
      BY <2>1, <2>3, <2>4, <2>5 DEF Applied
    <2> QED BY <1>0, <1>4, <2>2, <2>4, <2>5, <2>6, MovesKeepsInv DEF ReleaseStake
  <1>5. ASSUME NEW e \in DOMAIN outbox, PayBet(w, e)
        PROVE  Inv'
    <2>1. /\ placed[e[2]].user \in User /\ e[2] \in Key /\ e \in EventId
          /\ outbox[e].amount \in Int /\ outbox[e].fee \in Nat
      BY EventFields
    <2>2. AccountTyped'
      BY <1>0, <1>5, <2>1, SettleTyped DEF PayBet
    <2>3. releases[e] > 0
      BY <1>5, <2>1 DEF PayBet, JobInv
    <2>4. Moves(w, "mark", TRUE) /\ UNCHANGED <<market, bets, ops, outbox>> /\ faults' \in Nat
      BY <1>0, <1>5 DEF PayBet
    <2>5. /\ payments' \in [DOMAIN outbox -> Nat] /\ releases' = releases
          /\ payments'[e] > 0
          /\ \A f \in DOMAIN outbox : releases'[f] >= releases[f] /\ payments'[f] >= payments[f]
      BY <1>0, <1>5 DEF PayBet
    <2>6. Applied(e)'
      BY <2>3, <2>5 DEF Applied
    <2> QED BY <1>0, <1>5, <2>2, <2>4, <2>5, <2>6, MovesKeepsInv DEF PayBet
  <1>6. ASSUME NEW e \in DOMAIN outbox, CannotPay(w, e) \/ WalletFails(w, e)
        PROVE  Inv'
    <2>1. /\ OnEvent(w, e, "release") \/ OnEvent(w, e, "settle")
          /\ Moves(w, "mark", FALSE)
          /\ UNCHANGED <<market, bets, ops, outbox, releases, payments>>
          /\ AccountTyped' /\ faults' \in Nat
      BY <1>0, <1>6 DEF CannotPay, WalletFails, AccountTyped, accountVars, doneVars
    <2>2. \A f \in DOMAIN outbox : releases'[f] >= releases[f] /\ payments'[f] >= payments[f]
      BY <1>0, <2>1
    <2>3. PICK at \in {"release", "settle"} : OnEvent(w, e, at)
      BY <2>1
    <2> QED BY <1>0, <2>1, <2>2, <2>3, MovesKeepsInv
  <1> QED BY <1>1, <1>2, <1>3, <1>4, <1>5, <1>6 DEF Work, Fault
-----------------------------------------------------------------------------

\* The steps that leave the outbox and the goroutines alone, or reset them.
LEMMA RestStep ==
  ASSUME Inv,
         \/ UpdateStatus \/ SyncFromProvider \/ (\E r \in Requests : OtherCall(r)) \/ Crash \/ UNCHANGED vars
  PROVE  Inv'
  <1> USE DEF Inv
  <1>1. CASE UpdateStatus \/ SyncFromProvider
    BY <1>1 DEF UpdateStatus, SyncFromProvider, TypeOK, MarketStatus, IdInv, JobInv, ProcessedWasApplied,
                OnEvent, Applied, accountVars, doneVars
  <1>2. ASSUME NEW r \in Requests, OtherCall(r)
        PROVE  Inv'
    <2>1. AccountTyped'
      BY <1>2, OtherTyped DEF OtherCall, AccountTyped, TypeOK
    <2>2. UNCHANGED <<market, bets, ops, outbox, worker, faults, releases, payments>>
      BY <1>2 DEF OtherCall, WorkerUnchanged, doneVars
    <2> QED BY <2>1, <2>2 DEF AccountTyped, TypeOK, IdInv, JobInv, ProcessedWasApplied,
                              OnEvent, Applied
  <1>3. CASE Crash
    <2>1. /\ worker' = [w \in Worker |-> Idle] /\ Idle \in Job /\ Idle.todo = {}
          /\ faults' = faults + 1
          /\ UNCHANGED <<market, bets, ops, accountVars, outbox, releases, payments>>
      BY <1>3 DEF Crash, WorkerUnchanged, doneVars, Idle, Job
    <2>2. TypeOK'
      BY <2>1 DEF TypeOK, accountVars
    <2>3. JobInv'
      BY <2>1 DEF JobInv, OnEvent
    <2> QED BY <2>1, <2>2, <2>3 DEF IdInv, ProcessedWasApplied
  <1>4. CASE UNCHANGED vars
    BY <1>4 DEF vars, TypeOK, IdInv, JobInv, ProcessedWasApplied, OnEvent, Applied,
                accountVars
  <1> QED BY <1>1, <1>2, <1>3, <1>4

\* Inv is inductive.
THEOREM Invariance == Spec => []Inv
  <1>1. Inv /\ [Next]_vars => Inv'
    BY OperateStep, WorkStep, RestStep DEF Next
  <1> QED BY InitInv, <1>1, PTL DEF Spec

\* Every variable has its type; no payment makes an account negative.
THEOREM TypeCorrect == Spec => []TypeOK
  BY Invariance, PTL DEF Inv

\* Whatever fails and however many goroutines work on the same rows, an event
\* marked processed has been released and, if it settles a bet, paid.
THEOREM ProcessedApplied == Spec => []ProcessedWasApplied
  BY Invariance, PTL DEF Inv

\* No settlement, void or rollback touches a void bet, in any order they are
\* made in and whatever administrators set the market's status to meanwhile.
THEOREM VoidStaysVoid == Spec => VoidIsFinal
  <1> DEFINE Final == \A b \in Bet : bets[b].status = "void" =>
                        /\ bets'[b] = bets[b]
                        /\ \A e \in DOMAIN outbox' \ DOMAIN outbox : e[2] # b
  <1>1. ASSUME Inv, [Next]_vars
        PROVE  Final
    <2> USE <1>1 DEF Inv
    <2>0. ASSUME NEW a \in Admin, NEW of \in SUBSET Bet, NEW event, DOMAIN event = of,
                 WriteOutbox(a, event), NEW e \in DOMAIN outbox' \ DOMAIN outbox
          PROVE  e[2] \in of
      BY <2>0 DEF WriteOutbox
    <2>1. ASSUME NEW a \in Admin, Operate(a)
          PROVE  Final
      <3>1. ASSUME NEW winner \in Selection, SettleMarket(a, winner)
            PROVE  Final
        <4>1. \A b \in Fetched : b \in Bet /\ bets[b].status # "void"
          BY DEF Fetched, Matched
        <4>2. \A e \in DOMAIN outbox' \ DOMAIN outbox : e[2] \in Fetched
          BY <2>0, <3>1, <4>1 DEF SettleMarket
        <4>3. \A b \in Bet \ Fetched : bets'[b] = bets[b]
          BY <3>1 DEF SettleMarket
        <4> QED BY <4>1, <4>2, <4>3
      <3>2. ASSUME VoidMarket(a)
            PROVE  Final
        <4>1. \A b \in Voidable : b \in Bet /\ bets[b].status # "void"
          BY DEF Voidable, OpenBet
        <4>2. \A e \in DOMAIN outbox' \ DOMAIN outbox : e[2] \in Voidable
          BY <2>0, <3>2, <4>1 DEF VoidMarket
        <4>3. \A b \in Bet \ Voidable : bets'[b] = bets[b]
          BY <3>2 DEF VoidMarket
        <4> QED BY <4>1, <4>2, <4>3
      <3>3. ASSUME RollbackSettlement(a)
            PROVE  Final
        <4>1. \A b \in SettledBets : b \in Bet /\ bets[b].status # "void"
          BY DEF SettledBets
        <4>2. \A e \in DOMAIN outbox' \ DOMAIN outbox : e[2] \in SettledBets
          BY <2>0, <3>3, <4>1 DEF RollbackSettlement
        <4>3. \A b \in Bet \ SettledBets : bets'[b] = bets[b]
          BY <3>3 DEF RollbackSettlement
        <4> QED BY <4>1, <4>2, <4>3
      <3> QED BY <2>1, <3>1, <3>2, <3>3 DEF Operate
    <2>2. CASE ~\E a \in Admin : Operate(a)
      <3>1. UNCHANGED bets /\ DOMAIN outbox' = DOMAIN outbox
        BY <2>2 DEF Next, vars, UpdateStatus, SyncFromProvider, OtherCall, Crash, WorkerUnchanged, Work, Fault,
                    Poll, PollFails, ReleaseStake, PayBet, CannotPay, WalletFails, Mark, MarkFails
      <3> QED BY <3>1
    <2> QED BY <2>1, <2>2
  <1> QED BY <1>1, Invariance, PTL DEF Spec, VoidIsFinal
-----------------------------------------------------------------------------
\* The profit of a bet and the events that pay it.

\* What the events of a bet pay in all.
PaidBy(b) == SumFunction([e \in EventsOf(b) |-> outbox[e].amount])

\* Only a settled bet shows a profit: the next settlement starts from none.
OnlySettledShow ==
  IsFiniteSet(DOMAIN outbox) /\ \A b \in Bet : bets[b].status # "settled" => bets[b].profit = 0

PayInv == OnlySettledShow /\ ProfitIsWhatItsEventsPay

\* Of a step: what a bet shows grows by what it is paid.
PaysAsShown ==
  OnlySettledShow' /\ \A b \in Bet : PaidBy(b)' = PaidBy(b) + (bets'[b].profit - bets[b].profit)

LEMMA PayInvParts ==
  PayInv <=> OnlySettledShow /\ \A b \in Bet : bets[b].profit = PaidBy(b)
  BY DEF PayInv, ProfitIsWhatItsEventsPay, PaidBy

LEMMA PaidByTyped ==
  ASSUME Inv, IsFiniteSet(DOMAIN outbox), NEW b \in Bet
  PROVE  PaidBy(b) \in Int
  <1> DEFINE f == [e \in EventsOf(b) |-> outbox[e].amount]
  <1>1. IsFiniteSet(EventsOf(b))
    BY FS_Subset DEF EventsOf
  <1>2. \A e \in DOMAIN outbox : outbox[e].amount \in Int
    BY DEF Inv, TypeOK, Event
  <1>3. \A e \in EventsOf(b) : f[e] \in Int
    BY <1>2 DEF EventsOf
  <1>4. PaidBy(b) = SumFunctionOnSet(f, EventsOf(b))
    BY DEF PaidBy, SumFunction
  <1> HIDE DEF f
  <1> QED BY <1>1, <1>3, <1>4, SumInt

\* The events of a bet are the ones there were and the one just written for it.
LEMMA EventsGrow ==
  ASSUME Inv, NEW a \in Worker, NEW of \in SUBSET Bet, NEW event \in [of -> Event],
         WriteOutbox(a, event), NEW b \in Bet
  PROVE  /\ b \in of => EventsOf(b)' = EventsOf(b) \cup {<<ops + 1, b>>}
         /\ b \notin of => EventsOf(b)' = EventsOf(b)
         /\ \A e \in EventsOf(b) : e \in DOMAIN outbox /\ e # <<ops + 1, b>> /\ outbox'[e] = outbox[e]
         /\ b \in of => outbox'[<<ops + 1, b>>] = event[b]
  <1> DEFINE written == {ops + 1} \X of
             all == DOMAIN outbox \cup written
  <1>1. \A e \in DOMAIN outbox : e \notin written /\ e[1] # ops + 1
    BY DEF Inv, TypeOK, IdInv, EventId
  <1>2. outbox' = [e \in all |-> IF e \in written THEN event[e[2]] ELSE outbox[e]]
    BY DEF WriteOutbox
  <1>3. \A e \in written : e = <<ops + 1, e[2]>> /\ e[2] \in of
    OBVIOUS
  <1>4. \A c \in of : <<ops + 1, c>> \in written /\ <<ops + 1, c>>[2] = c /\ <<ops + 1, c>>[1] = ops + 1
    OBVIOUS
  <1> HIDE DEF written
  <1>5. DOMAIN outbox' = DOMAIN outbox \cup written
    BY <1>2
  <1>6. b \in of => EventsOf(b)' = EventsOf(b) \cup {<<ops + 1, b>>}
    BY <1>3, <1>4, <1>5 DEF EventsOf
  <1>7. b \notin of => EventsOf(b)' = EventsOf(b)
    BY <1>3, <1>5 DEF EventsOf
  <1>8. \A e \in EventsOf(b) : e \in DOMAIN outbox /\ e # <<ops + 1, b>> /\ outbox'[e] = outbox[e]
    BY <1>1, <1>2 DEF EventsOf
  <1>9. b \in of => outbox'[<<ops + 1, b>>] = event[b]
    BY <1>2, <1>4
  <1> QED BY <1>6, <1>7, <1>8, <1>9

\* So it is paid that event's amount more.
LEMMA PaidMore ==
  ASSUME Inv, IsFiniteSet(DOMAIN outbox), NEW a \in Worker,
         NEW of \in SUBSET Bet, NEW event \in [of -> Event],
         WriteOutbox(a, event), NEW b \in Bet
  PROVE  /\ b \in of => PaidBy(b)' = PaidBy(b) + event[b].amount
         /\ b \notin of => PaidBy(b)' = PaidBy(b)
  <1> DEFINE E == EventsOf(b)
             new == <<ops + 1, b>>
             f == [e \in E |-> outbox[e].amount]
             g == [e \in EventsOf(b)' |-> outbox'[e].amount]
  <1>1. /\ b \in of => EventsOf(b)' = E \cup {new}
        /\ b \notin of => EventsOf(b)' = E
        /\ \A e \in E : e \in DOMAIN outbox /\ e # new /\ outbox'[e] = outbox[e]
        /\ b \in of => outbox'[new] = event[b]
    BY EventsGrow
  <1>2. PaidBy(b) = SumFunctionOnSet(f, E) /\ PaidBy(b)' = SumFunctionOnSet(g, EventsOf(b)')
    BY DEF PaidBy, SumFunction
  <1>3. E \in SUBSET DOMAIN outbox /\ \A e \in DOMAIN outbox : outbox[e].amount \in Int
    BY <1>1 DEF Inv, TypeOK, Event
  <1>4. IsFiniteSet(E)
    BY <1>3, FS_Subset
  <1>5. b \in of => event[b].amount \in Int
    BY DEF Event
  <1> HIDE DEF E, new
  <1>6. CASE b \notin of
    <2>1. f = g
      BY <1>1, <1>6
    <2> QED BY <1>1, <1>2, <1>6, <2>1
  <1>7. CASE b \in of
    <2>1. /\ \A e \in E : g[e] = f[e] /\ g[e] \in Int
          /\ g[new] = event[b].amount /\ g[new] \in Int /\ new \notin E
      BY <1>1, <1>3, <1>5, <1>7
    <2> HIDE DEF f, g
    <2>2. SumFunctionOnSet(g, E) = SumFunctionOnSet(f, E)
      BY <1>4, <2>1, SumSame
    <2>3. SumFunctionOnSet(g, E \cup {new}) = SumFunctionOnSet(g, E) + g[new]
      BY <1>4, <2>1, SumAdd
    <2> QED BY <1>1, <1>2, <1>7, <2>1, <2>2, <2>3
  <1> QED BY <1>6, <1>7

\* The outbox stays finite.
LEMMA OutboxFinite ==
  ASSUME IsFiniteSet(DOMAIN outbox), NEW a \in Worker, NEW of \in SUBSET Bet, NEW event,
         DOMAIN event = of, WriteOutbox(a, event)
  PROVE  IsFiniteSet(DOMAIN outbox')
  <1> DEFINE written == {ops + 1} \X of
  <1>1. DOMAIN outbox' = DOMAIN outbox \cup written
    BY DEF WriteOutbox
  <1>2. IsFiniteSet({ops + 1}) /\ IsFiniteSet(of)
    BY SettlementAssumption, FS_Singleton, FS_Subset
  <1>3. IsFiniteSet(written)
    BY <1>2, FS_Product
  <1> HIDE DEF written
  <1>4. IsFiniteSet(DOMAIN outbox \cup written)
    BY <1>3, FS_Union
  <1> QED BY ONLY <1>1, <1>4

\* An operation that gives each bet the profit it had and what it pays it.
LEMMA PayingKeeps ==
  ASSUME Inv, OnlySettledShow, NEW a \in Worker, NEW of \in SUBSET Bet,
         NEW event \in [of -> Event], WriteOutbox(a, event),
         \A b \in of : bets'[b].profit = bets[b].profit + event[b].amount,
         \A b \in Bet \ of : bets'[b].profit = bets[b].profit,
         \A b \in Bet : bets'[b].status # "settled" => bets'[b].profit = 0
  PROVE  PaysAsShown
  <1>1. IsFiniteSet(DOMAIN outbox)
    BY DEF OnlySettledShow
  <1>2. IsFiniteSet(DOMAIN outbox')
    BY <1>1, OutboxFinite
  <1>3. ASSUME NEW b \in Bet
        PROVE  PaidBy(b)' = PaidBy(b) + (bets'[b].profit - bets[b].profit)
    <2>1. /\ b \in of => PaidBy(b)' = PaidBy(b) + event[b].amount
          /\ b \notin of => PaidBy(b)' = PaidBy(b)
      BY <1>1, PaidMore
    <2>2. PaidBy(b) \in Int /\ bets[b].profit \in Int
      BY <1>1, PaidByTyped DEF Inv, TypeOK
    <2>3. b \in of => event[b].amount \in Int
      BY DEF Event
    <2> QED BY <2>1, <2>2, <2>3
  <1> QED BY <1>2, <1>3 DEF PaysAsShown, OnlySettledShow

\* The amounts of the events of a step that writes none are as they were.
LEMMA NotPaying ==
  ASSUME Inv, OnlySettledShow, UNCHANGED bets, DOMAIN outbox' = DOMAIN outbox,
         \A e \in DOMAIN outbox : outbox'[e].amount = outbox[e].amount
  PROVE  PaysAsShown
  <1>1. \A b \in Bet : PaidBy(b)' = PaidBy(b)
    BY DEF PaidBy, EventsOf
  <1>2. \A b \in Bet : PaidBy(b) \in Int /\ bets[b].profit \in Int
    BY PaidByTyped DEF OnlySettledShow, Inv, TypeOK
  <1>3. \A b \in Bet : PaidBy(b)' = PaidBy(b) + (bets'[b].profit - bets[b].profit)
    BY <1>1, <1>2
  <1> QED BY <1>3 DEF PaysAsShown, OnlySettledShow

\* Settling pays the bets that had no profit, a rollback takes the profit back, and
\* a void pays nothing.
LEMMA OperatePays ==
  ASSUME Inv, OnlySettledShow, NEW a \in Admin, Operate(a)
  PROVE  PaysAsShown
  <1>0. /\ a \in Worker
        /\ \A b \in Bet : bets[b] \in [status : BetStatus, profit : Int]
        /\ \A b \in Bet : bets[b].status # "settled" => bets[b].profit = 0
    BY DEF Worker, Inv, TypeOK, OnlySettledShow
  <1>1. ASSUME NEW winner \in Selection, SettleMarket(a, winner)
        PROVE  PaysAsShown
    <2> DEFINE event == [b \in Fetched |->
                 NewEvent("settle", PnL(b, winner), Commission(b, PnL(b, winner)), placed[b].matched)]
    <2>1. Fetched \in SUBSET Bet /\ \A b \in Fetched : bets[b].profit = 0
      BY <1>0 DEF Fetched, Matched
    <2>2. event \in [Fetched -> Event]
      BY <2>1, PnLTyped, SettlementAssumption DEF NewEvent, Event, Placed
    <2>3. WriteOutbox(a, event)
      BY <1>1 DEF SettleMarket
    <2>4. \A b \in Fetched : event[b].amount = PnL(b, winner) /\ PnL(b, winner) \in Int
      BY <2>1, PnLTyped DEF NewEvent
    <2>5. /\ \A b \in Fetched : bets'[b].profit = PnL(b, winner) /\ bets'[b].status = "settled"
          /\ \A b \in Bet \ Fetched : bets'[b] = bets[b]
      BY <1>1, <2>1 DEF SettleMarket
    <2> HIDE DEF event
    <2>6. \A b \in Fetched : bets'[b].profit = bets[b].profit + event[b].amount
      BY <2>1, <2>4, <2>5
    <2> QED BY <1>0, <2>1, <2>2, <2>3, <2>5, <2>6, PayingKeeps
  <1>2. ASSUME VoidMarket(a)
        PROVE  PaysAsShown
    <2> DEFINE event == [b \in Voidable |-> NewEvent("void_release", 0, 0, placed[b].stake)]
    <2>1. Voidable \in SUBSET Bet /\ \A b \in Voidable : bets[b].profit = 0
      BY <1>0 DEF Voidable, OpenBet
    <2>2. event \in [Voidable -> Event]
      BY <2>1, SettlementAssumption DEF NewEvent, Event, Placed
    <2>3. WriteOutbox(a, event)
      BY <1>2 DEF VoidMarket
    <2>4. \A b \in Voidable : event[b].amount = 0
      BY <2>1 DEF NewEvent
    <2>5. /\ \A b \in Voidable : bets'[b].profit = bets[b].profit
          /\ \A b \in Bet \ Voidable : bets'[b] = bets[b]
      BY <1>0, <1>2, <2>1 DEF VoidMarket
    <2> HIDE DEF event
    <2>6. \A b \in Voidable : bets'[b].profit = bets[b].profit + event[b].amount
      BY <2>1, <2>4, <2>5
    <2> QED BY <1>0, <2>1, <2>2, <2>3, <2>5, <2>6, PayingKeeps
  <1>3. ASSUME RollbackSettlement(a)
        PROVE  PaysAsShown
    <2> DEFINE event == [b \in SettledBets |-> NewEvent("settle", -bets[b].profit, 0, 0)]
    <2>1. SettledBets \in SUBSET Bet /\ \A b \in SettledBets : bets[b].profit \in Int
      BY <1>0 DEF SettledBets
    <2>2. event \in [SettledBets -> Event]
      BY <2>1 DEF NewEvent, Event
    <2>3. WriteOutbox(a, event)
      BY <1>3 DEF RollbackSettlement
    <2>4. \A b \in SettledBets : event[b].amount = -bets[b].profit
      BY <2>1 DEF NewEvent
    <2>5. /\ \A b \in SettledBets : bets'[b].profit = 0
          /\ \A b \in Bet \ SettledBets : bets'[b] = bets[b]
      BY <1>3, <2>1 DEF RollbackSettlement
    <2> HIDE DEF event
    <2>6. \A b \in SettledBets : bets'[b].profit = bets[b].profit + event[b].amount
      BY <2>1, <2>4, <2>5
    <2> QED BY <1>0, <2>1, <2>2, <2>3, <2>5, <2>6, PayingKeeps
  <1> QED BY <1>1, <1>2, <1>3 DEF Operate

\* The other steps mark events at most, and no amount changes.
LEMMA OthersPayNothing ==
  ASSUME Inv, OnlySettledShow, [Next]_vars, ~\E a \in Admin : Operate(a)
  PROVE  PaysAsShown
  <1>1. UNCHANGED bets /\ DOMAIN outbox' = DOMAIN outbox
    BY DEF Next, vars, UpdateStatus, SyncFromProvider, OtherCall, Crash, WorkerUnchanged, Work, Fault,
           Poll, PollFails, ReleaseStake, PayBet, CannotPay, WalletFails, Mark, MarkFails
  <1>2. CASE \E w \in Worker, e \in DOMAIN outbox : Mark(w, e)
    <2>1. PICK w \in Worker, e \in DOMAIN outbox : Mark(w, e)
      BY <1>2
    <2>2. \A f \in DOMAIN outbox : outbox[f] \in Event
      BY DEF Inv, TypeOK
    <2>3. \A f \in DOMAIN outbox : outbox'[f].amount = outbox[f].amount
      BY <2>1, <2>2 DEF Mark, Event
    <2> QED BY <1>1, <2>3, NotPaying
  <1>3. CASE ~\E w \in Worker, e \in DOMAIN outbox : Mark(w, e)
    <2>1. UNCHANGED outbox
      BY <1>3 DEF Next, vars, UpdateStatus, SyncFromProvider, OtherCall, Crash, WorkerUnchanged, Work, Fault,
           Poll, PollFails, ReleaseStake, PayBet, CannotPay, WalletFails, MarkFails
    <2> QED BY <1>1, <2>1, NotPaying
  <1> QED BY <1>2, <1>3

\* However often a market is settled, rolled back, reopened and settled again, the
\* events of a bet add up to the profit on its row.
THEOREM ProfitIsPaid == Spec => []ProfitIsWhatItsEventsPay
  <1>1. Init => PayInv
    <2> SUFFICES ASSUME Init PROVE PayInv
      OBVIOUS
    <2>1. DOMAIN outbox = {} /\ \A b \in Bet : bets[b].profit = 0
      BY DEF Init
    <2>2. ASSUME NEW b \in Bet
          PROVE  PaidBy(b) = 0
      <3>1. EventsOf(b) = {}
        BY <2>1 DEF EventsOf
      <3> QED BY <3>1, SumEmpty DEF PaidBy, SumFunction
    <2>3. IsFiniteSet(DOMAIN outbox)
      BY <2>1, FS_EmptySet
    <2> QED BY <2>1, <2>2, <2>3, PayInvParts DEF OnlySettledShow
  <1>2. Inv /\ Inv' /\ PayInv /\ [Next]_vars => PayInv'
    <2> SUFFICES ASSUME Inv, Inv', PayInv, [Next]_vars
                 PROVE  PayInv'
      OBVIOUS
    <2>1. PaysAsShown
      BY OperatePays, OthersPayNothing DEF PayInv
    <2>2. \A b \in Bet : bets[b].profit \in Int /\ bets'[b].profit \in Int
      BY DEF Inv, TypeOK
    <2>3. \A b \in Bet : bets'[b].profit = PaidBy(b)'
      BY <2>1, <2>2, PayInvParts DEF PaysAsShown
    <2> QED BY <2>1, <2>3 DEF PaysAsShown, PayInv, ProfitIsWhatItsEventsPay, PaidBy
  <1>3. PayInv => ProfitIsWhatItsEventsPay
    BY DEF PayInv
  <1> QED BY <1>1, <1>2, <1>3, Invariance, PTL DEF Spec
-----------------------------------------------------------------------------
\* The batches of SettleMarket.

\* What one more batch reaches, at its offset among what is still matched.
NextBatch(reached, n) == reached \cup Page(Matched \ reached, (n - 1) * BatchSize)

\* g is what the first m batches have reached, one after the other.
IsReached(g, m) == g = [n \in 0..m |-> IF n = 0 THEN {} ELSE NextBatch(g[n - 1], n)]

\* There is such a function, one batch after the other.
LEMMA ReachedExists ==
  ASSUME NEW m \in Nat
  PROVE  \E g : IsReached(g, m)
  <1> DEFINE T == {k \in Nat : \E g : IsReached(g, k)}
  <1>1. 0 \in T
    <2>1. IsReached([n \in 0..0 |-> {}], 0)
      BY DEF IsReached
    <2> QED BY <2>1
  <1>2. ASSUME NEW k \in Nat, k \in T
        PROVE  k + 1 \in T
    <2>1. PICK g : IsReached(g, k)
      BY <1>2
    <2> DEFINE h == [n \in 0..(k + 1) |-> IF n = k + 1 THEN NextBatch(g[k], n) ELSE g[n]]
    <2>2. ASSUME NEW n \in 0..(k + 1)
          PROVE  h[n] = IF n = 0 THEN {} ELSE NextBatch(h[n - 1], n)
      <3>1. CASE n = 0
        BY <1>2, <2>1, <3>1 DEF IsReached
      <3>2. CASE n = k + 1
        <4>1. n - 1 = k /\ h[n - 1] = g[k] /\ h[n] = NextBatch(g[k], n) /\ n # 0
          BY <1>2, <3>2
        <4> QED BY ONLY <4>1
      <3>3. CASE n # 0 /\ n # k + 1
        <4>1. n \in 0..k /\ n - 1 \in 0..k /\ h[n - 1] = g[n - 1] /\ h[n] = g[n]
          BY <1>2, <3>3
        <4>2. g[n] = NextBatch(g[n - 1], n)
          BY <2>1, <3>3, <4>1 DEF IsReached
        <4> QED BY ONLY <3>3, <4>1, <4>2
      <3> QED BY <3>1, <3>2, <3>3
    <2> DEFINE step == [n \in 0..(k + 1) |-> IF n = 0 THEN {} ELSE NextBatch(h[n - 1], n)]
    <2>3. h = step
      BY <2>2
    <2>4. IsReached(h, k + 1)
      BY <2>3 DEF IsReached
    <2> QED BY <1>2, <2>4
  <1> HIDE DEF T
  <1>3. Nat \subseteq T
    BY <1>1, <1>2, SetInduction
  <1> QED BY <1>3 DEF T

\* Fetched is what all the batches reach together.
LEMMA FetchedIsReached ==
  \E g : /\ IsReached(g, Cardinality(Bet))
         /\ Fetched = {b \in Matched : b \in g[Cardinality(Bet)]}
  <1> DEFINE m == Cardinality(Bet)
             after == CHOOSE g : IsReached(g, m)
  <1>1. m \in Nat
    BY SettlementAssumption, FS_CardinalityType
  <1>2. IsReached(after, m)
    BY <1>1, ReachedExists
  <1>3. Fetched = {b \in Matched : b \in after[m]}
    BY DEF Fetched, IsReached, NextBatch
  <1> QED BY <1>2, <1>3

\* The batches reach every matched bet when the market's bets fit one: the first
\* takes them all.  (With more bets they do not: see the instance MCBatches.)
LEMMA OneBatchReachesAll ==
  ASSUME Cardinality(Bet) <= BatchSize
  PROVE  Fetched = Matched
  <1> DEFINE m == Cardinality(Bet)
  <1>1. PICK g : IsReached(g, m) /\ Fetched = {b \in Matched : b \in g[m]}
    BY FetchedIsReached
  <1>2. m \in Nat /\ IsFiniteSet(Bet) /\ BatchSize \in Nat /\ Matched \subseteq Bet
    BY SettlementAssumption, FS_CardinalityType DEF Matched
  <1>3. ASSUME NEW b \in Matched
        PROVE  b \in Page(Matched, 0)
    <2> DEFINE before == {c \in Matched : c < b}
    <2>1. before \subseteq Bet \ {b}
      BY <1>2, SettlementAssumption
    <2>2. b \in Bet /\ IsFiniteSet(Bet \ {b}) /\ Cardinality(Bet \ {b}) = m - 1
      BY <1>2, <1>3, FS_RemoveElement
    <2> HIDE DEF before, m
    <2>3. Cardinality(before) \in Nat /\ Cardinality(before) <= Cardinality(Bet \ {b})
      BY <2>1, <2>2, FS_Subset, FS_CardinalityType
    <2>4. 0 <= Cardinality(before) /\ Cardinality(before) < 0 + BatchSize
      BY <1>2, <2>2, <2>3 DEF m
    <2> QED BY <1>3, <2>4 DEF Page, before
  <1> DEFINE T == {n \in Nat : n \in 1..m => Matched \subseteq g[n]}
  <1>4. ASSUME NEW n \in Nat, n \in T, n + 1 \in 1..m
        PROVE  Matched \subseteq g[n + 1]
    <2>1. n + 1 \in 0..m /\ n \in 0..m /\ (n + 1) - 1 = n /\ n + 1 # 0
      BY <1>2, <1>4
    <2>2. g[n + 1] = NextBatch(g[n], n + 1)
      BY <1>1, <2>1 DEF IsReached
    <2>3. CASE n = 0
      <3>1. g[n] = {}
        BY <1>1, <2>1, <2>3 DEF IsReached
      <3>2. ((n + 1) - 1) * BatchSize = 0 /\ Matched \ {} = Matched
        BY <1>2, <2>1, <2>3
      <3> QED BY <1>3, <2>2, <3>1, <3>2 DEF NextBatch
    <2>4. CASE n # 0
      <3>1. Matched \subseteq g[n]
        BY <1>2, <1>4, <2>4
      <3> QED BY <2>2, <3>1 DEF NextBatch
    <2> QED BY <2>3, <2>4
  <1>5. Nat \subseteq T
    <2>1. 0 \in T
      OBVIOUS
    <2>2. \A n \in Nat : n \in T => n + 1 \in T
      BY <1>4
    <2> HIDE DEF T
    <2> QED BY <2>1, <2>2, SetInduction
  <1>6. CASE m = 0
    BY <1>2, <1>6, FS_EmptySet, <1>1
  <1>7. CASE m # 0
    <2>1. m \in T /\ m \in 1..m
      BY <1>2, <1>5, <1>7
    <2>2. Matched \subseteq g[m]
      BY <2>1
    <2> QED BY <1>1, <2>2
  <1> QED BY <1>6, <1>7

\* A market whose bets fit one batch of SettleMarket has none left matched once it is
\* settled or void, whatever is suspended, reopened or rolled back in between.
THEOREM NoneLeftMatched ==
  ASSUME Cardinality(Bet) <= BatchSize
  PROVE  Spec => []ClosedMarketHasNoMatchedBets
  <1>1. Init => ClosedMarketHasNoMatchedBets
    BY DEF Init, ClosedMarketHasNoMatchedBets
  <1>2. ASSUME TypeOK, ClosedMarketHasNoMatchedBets, [Next]_vars
        PROVE  ClosedMarketHasNoMatchedBets'
    <2>1. ASSUME NEW a \in Admin, Operate(a)
          PROVE  ClosedMarketHasNoMatchedBets'
      <3>1. ASSUME NEW winner \in Selection, SettleMarket(a, winner)
            PROVE  Matched' = {}
        <4>1. Fetched = Matched
          BY OneBatchReachesAll
        <4>2. \A b \in Bet : bets'[b].status = IF b \in Matched THEN "settled" ELSE bets[b].status
          BY <3>1, <4>1 DEF SettleMarket
        <4> QED BY <4>2 DEF Matched
      <3>2. ASSUME VoidMarket(a)
            PROVE  Matched' = {}
        <4>1. \A b \in Bet : bets[b] \in [status : BetStatus, profit : Int]
          BY <1>2 DEF TypeOK
        <4>2. \A b \in Bet : bets'[b].status = IF b \in Voidable THEN "void" ELSE bets[b].status
          BY <3>2, <4>1 DEF VoidMarket
        <4> QED BY <4>2 DEF Matched, Voidable, OpenBet
      <3>3. ASSUME RollbackSettlement(a)
            PROVE  market' = "open"
        BY <3>3 DEF RollbackSettlement
      <3> QED BY <2>1, <3>1, <3>2, <3>3 DEF Operate, ClosedMarketHasNoMatchedBets
    <2>2. CASE UpdateStatus \/ SyncFromProvider
      BY <2>2 DEF UpdateStatus, SyncFromProvider, ClosedMarketHasNoMatchedBets
    <2>3. CASE ~(\E a \in Admin : Operate(a)) /\ ~UpdateStatus /\ ~SyncFromProvider
      <3>1. UNCHANGED <<market, bets>>
        BY <1>2, <2>3 DEF Next, vars, OtherCall, Crash, WorkerUnchanged, Work, Fault,
           Poll, PollFails, ReleaseStake, PayBet, CannotPay, WalletFails, Mark, MarkFails
      <3> QED BY <1>2, <3>1 DEF ClosedMarketHasNoMatchedBets, Matched
    <2> QED BY <2>1, <2>2, <2>3
  <1> QED BY <1>1, <1>2, TypeCorrect, PTL DEF Spec

-----------------------------------------------------------------------------
\* Cash-outs beside the settlement

Holding(d) == Deals(d, "release") \/ Deals(d, "pay")

OfferRow == [status : {"offered", "accepted", "expired"}, bet : Bet, amount : Nat \ {0}]

Deal ==
  {NoDeal}
  \cup [at : {"insert"}, offer : Offer, bet : Bet, amount : Nat \ {0}]
  \cup [at : {"release", "pay"}, offer : Offer, bet : Bet]

OffersTyped ==
  /\ offers \in [Offer -> {NoOffer} \cup OfferRow]
  /\ dealing \in [Dealer -> Deal]

\* An offer that is being made is not there yet, one that is being paid is accepted and
\* not paid; and one goroutine at most does either.
DealInv ==
  /\ \A d \in Dealer :
       /\ Deals(d, "insert") => offers[dealing[d].offer] = NoOffer
       /\ Holding(d) => /\ offers[dealing[d].offer].status = "accepted"
                        /\ paidOut[dealing[d].offer] = 0
  /\ \A c, d \in Dealer :
       dealing[c] # NoDeal /\ dealing[d] # NoDeal /\ dealing[c].offer = dealing[d].offer => c = d

Accepted == {o \in Offer : offers[o].status = "accepted"}

\* What the accepted offers of a bet pay in all.
OffersPay(b) == SumFunction([o \in AcceptedOf(b) |-> Profit(o)])

OffersInv == OnlySettledShow /\ IsFiniteSet(Accepted)

CashInv == Inv /\ CashOutHolds /\ OffersTyped /\ DealInv /\ OffersInv

LEMMA AddUpParts ==
  OffersAddUp <=> \A b \in Bet : bets[b].profit + covered[b] = PaidBy(b) + OffersPay(b)
  BY DEF OffersAddUp, PaidBy, OffersPay

LEMMA CashInitInv == CashInit => CashInv
<1> SUFFICES ASSUME CashInit PROVE CashInv
  OBVIOUS
<1> USE DEF CashInit
<1>1. Inv
  BY InitInv
<1>2. OffersTyped /\ DealInv
  BY DEF OffersTyped, DealInv, Holding, Deals, NoDeal, Deal
<1>3. DOMAIN outbox = {} /\ Accepted = {} /\ \A b \in Bet : bets[b].profit = 0 /\ covered[b] = 0
  BY DEF Init, Accepted, NoOffer
<1>4. OffersInv
  BY <1>3, FS_EmptySet DEF OffersInv, OnlySettledShow
<1>5. CashTypeOK
  BY <1>1 DEF CashTypeOK, Inv
<1>6. OfferPaidOnce
  BY DEF OfferPaidOnce
<1>7. OffersAddUp
  <2>1. \A b \in Bet : EventsOf(b) = {} /\ AcceptedOf(b) = {}
    BY <1>3 DEF EventsOf, AcceptedOf, Accepted
  <2>2. \A b \in Bet : PaidBy(b) = 0 /\ OffersPay(b) = 0
    BY <2>1, SumEmpty DEF PaidBy, OffersPay, SumFunction
  <2> QED BY <1>3, <2>2, AddUpParts
<1> QED BY <1>1, <1>2, <1>4, <1>5, <1>6, <1>7 DEF CashInv, CashOutHolds

-----------------------------------------------------------------------------

\* A step that leaves the market, the outbox and its goroutines alone.
LEMMA CashStepKeepsInv ==
  ASSUME Inv, UNCHANGED settlementVars, AccountTyped', faults' \in Nat,
         bets' \in [Bet -> [status : BetStatus, profit : Int]]
  PROVE  Inv'
<1>1. UNCHANGED <<market, outbox, worker, ops, releases, payments>>
  BY DEF settlementVars
<1>2. TypeOK'
  BY <1>1 DEF Inv, TypeOK, AccountTyped
<1>3. IdInv' /\ ProcessedWasApplied'
  BY <1>1 DEF Inv, IdInv, ProcessedWasApplied
<1>4. JobInv'
  BY <1>1 DEF Inv, JobInv, OnEvent, Applied
<1> QED BY <1>2, <1>3, <1>4 DEF Inv

\* The death of every goroutine.
LEMMA CrashKeepsInv ==
  ASSUME Inv, worker' = [w \in Worker |-> Idle], faults' \in Nat,
         UNCHANGED <<accountVars, bets, market, outbox, ops, doneVars>>
  PROVE  Inv'
<1>1. Idle \in Job /\ Idle.todo = {} /\ Idle.at = "idle"
  BY DEF Idle, Job
<1>2. TypeOK'
  BY <1>1 DEF Inv, TypeOK, accountVars, doneVars
<1>3. IdInv' /\ ProcessedWasApplied'
  BY DEF Inv, IdInv, ProcessedWasApplied, doneVars
<1>4. JobInv'
  BY <1>1 DEF JobInv, OnEvent
<1> QED BY <1>2, <1>3, <1>4 DEF Inv

\* What the parts of a deal and an offer are.
LEMMA DealParts ==
  ASSUME CashInv, NEW d \in Dealer
  PROVE  /\ dealing[d] \in Deal
         /\ Holding(d) => /\ dealing[d] \in [at : {"release", "pay"}, offer : Offer, bet : Bet]
                          /\ dealing[d] # NoDeal
         /\ Deals(d, "insert") =>
              /\ dealing[d] \in [at : {"insert"}, offer : Offer, bet : Bet, amount : Nat \ {0}]
              /\ dealing[d] # NoDeal
<1>1. dealing[d] \in Deal
  BY DEF CashInv, OffersTyped
<1> QED BY <1>1 DEF Deal, Holding, Deals, NoDeal

LEMMA OfferParts ==
  ASSUME CashInv, NEW o \in Offer, offers[o].status # "none"
  PROVE  /\ offers[o] \in OfferRow
         /\ offers[o] # NoOffer /\ Profit(o) \in Int
<1>1. offers[o] \in {NoOffer} \cup OfferRow
  BY DEF CashInv, OffersTyped
<1>2. NoOffer.status = "none"
  BY DEF NoOffer
<1>3. offers[o] \in OfferRow /\ offers[o] # NoOffer
  BY <1>1, <1>2
<1>4. placed[offers[o].bet].matched \in Nat
  BY <1>3, SettlementAssumption DEF OfferRow, Placed
<1>5. offers[o].amount \in Nat
  BY <1>3 DEF OfferRow
<1> QED BY <1>3, <1>4, <1>5 DEF Profit

\* What a step has to show.
LEMMA CashKept ==
  ASSUME Inv', OffersTyped', DealInv', OffersInv', OffersAddUp', OfferPaidOnce',
         late' \subseteq Offer, covered' \in [Bet -> Int],
         paidOut' \in [Offer -> Nat]
  PROVE  CashInv'
<1>1. ASSUME NEW o \in Offer
      PROVE  (offers'[o] = NoOffer) \/ (offers'[o] \in OfferRow)
  BY DEF OffersTyped
<1>2. ASSUME NEW d \in Dealer
      PROVE  (dealing'[d] = NoDeal) \/ (dealing'[d].at \in {"insert", "release", "pay"})
  <2>1. dealing'[d] \in Deal
    BY DEF OffersTyped
  <2> QED BY <2>1 DEF Deal
<1>3. CashTypeOK'
  BY <1>1, <1>2 DEF CashTypeOK, OfferRow, Inv
<1> QED BY <1>3 DEF CashInv, CashOutHolds

LEMMA HistoryTyped ==
  ASSUME CashInv
  PROVE  /\ late \subseteq Offer /\ covered \in [Bet -> Int]
         /\ paidOut \in [Offer -> Nat]
  BY DEF CashInv, CashOutHolds, CashTypeOK

\* Sums are of amounts.
LEMMA AmountsTyped ==
  ASSUME CashInv, NEW b \in Bet
  PROVE  /\ IsFiniteSet(AcceptedOf(b)) /\ \A o \in AcceptedOf(b) : o \in Offer /\ Profit(o) \in Int
         /\ PaidBy(b) \in Int /\ OffersPay(b) \in Int
         /\ bets[b].profit \in Int /\ covered[b] \in Int
<1> DEFINE f == [o \in AcceptedOf(b) |-> Profit(o)]
<1>1. IsFiniteSet(AcceptedOf(b))
  <2>1. AcceptedOf(b) \subseteq Accepted
    BY DEF AcceptedOf, Accepted
  <2> QED BY <2>1, FS_Subset DEF CashInv, OffersInv
<1>2. \A o \in AcceptedOf(b) : o \in Offer /\ Profit(o) \in Int /\ f[o] \in Int
  BY OfferParts DEF AcceptedOf
<1>3. PaidBy(b) \in Int
  BY PaidByTyped DEF CashInv, OffersInv, OnlySettledShow
<1>4. OffersPay(b) = SumFunctionOnSet(f, AcceptedOf(b))
  BY DEF OffersPay, SumFunction
<1> HIDE DEF f
<1>5. OffersPay(b) \in Int
  BY <1>1, <1>2, <1>4, SumInt
<1>6. bets[b].profit \in Int /\ covered[b] \in Int
  BY HistoryTyped DEF CashInv, Inv, TypeOK
<1> QED BY <1>1, <1>2, <1>3, <1>5, <1>6

\* Offers that are accepted stay as they are and no others become so.
LEMMA AcceptedStay ==
  ASSUME CashInv,
         \A o \in Offer : (offers[o].status = "accepted" \/ offers'[o].status = "accepted")
                            => offers'[o] = offers[o]
  PROVE  Accepted' = Accepted /\ \A b \in Bet : OffersPay(b)' = OffersPay(b)
<1>1. Accepted' = Accepted /\ \A b \in Bet : AcceptedOf(b)' = AcceptedOf(b)
  BY DEF Accepted, AcceptedOf
<1>2. \A b \in Bet : \A o \in AcceptedOf(b) : Profit(o)' = Profit(o)
  BY DEF AcceptedOf, Profit
<1> QED BY <1>1, <1>2 DEF OffersPay

LEMMA AddUpKept ==
  ASSUME CashInv, UNCHANGED <<bets, outbox, covered>>,
         \A o \in Offer : (offers[o].status = "accepted" \/ offers'[o].status = "accepted")
                            => offers'[o] = offers[o]
  PROVE  OffersInv' /\ OffersAddUp'
<1>1. Accepted' = Accepted /\ \A b \in Bet : OffersPay(b)' = OffersPay(b)
  BY AcceptedStay
<1>2. \A b \in Bet : PaidBy(b)' = PaidBy(b)
  BY DEF PaidBy, EventsOf
<1>3. OffersInv'
  BY <1>1 DEF CashInv, OffersInv, OnlySettledShow
<1>4. \A b \in Bet : bets'[b].profit + covered'[b] = PaidBy(b)' + OffersPay(b)'
  BY <1>1, <1>2, AddUpParts DEF CashInv, CashOutHolds
<1> QED BY <1>3, <1>4 DEF OffersAddUp, PaidBy, OffersPay

LEMMA PriceOfferKeeps ==
  ASSUME CashInv, NEW d \in Dealer, NEW o \in Offer, NEW b \in Bet, NEW current \in Prices,
         PriceOffer(d, o, b, current)
  PROVE  CashInv'
<1> DEFINE amount == CashoutAmount(b, current)
           deal == [at |-> "insert", offer |-> o, bet |-> b, amount |-> amount]
<1>1. /\ dealing[d] = NoDeal /\ offers[o] = NoOffer /\ amount > 0
      /\ \A c \in Dealer : dealing[c] # NoDeal => dealing[c].offer # o
      /\ current \in Nat /\ current > 1
      /\ dealing' = [dealing EXCEPT ![d] = deal]
      /\ UNCHANGED <<vars, offers, late, covered, paidOut>>
  BY DEF PriceOffer
<1>2. amount \in Nat \ {0}
  <2>1. placed[b].matched \in Nat /\ placed[b].price \in Nat /\ current \in Nat \ {0}
    BY <1>1, SettlementAssumption DEF Placed
  <2>2. ASSUME NEW stake \in Nat, NEW price \in Nat
        PROVE  /\ (price * stake) \div current \in Int
               /\ stake + stake * (price - 1) - stake * (current - 1) \in Int
    <3>1. price * stake \in Nat /\ stake * (price - 1) \in Int /\ stake * (current - 1) \in Int
      BY <2>1
    <3> QED BY <2>1, <3>1
  <2>3. \A worth \in Int : (worth * 95) \div 100 \in Int
    OBVIOUS
  <2>4. amount \in Int
    BY <2>1, <2>2, <2>3 DEF CashoutAmount
  <2> QED BY <1>1, <2>4
<1> HIDE DEF amount
<1>3. deal \in Deal /\ deal # NoDeal /\ deal.at = "insert" /\ deal.offer = o
  BY <1>2 DEF Deal, NoDeal
<1> HIDE DEF deal
<1>4. \A c \in Dealer : dealing'[c] = IF c = d THEN deal ELSE dealing[c]
  BY <1>1 DEF CashInv, OffersTyped
<1>5. Inv'
  BY <1>1, RestStep DEF CashInv
<1>6. OffersTyped'
  BY <1>1, <1>3 DEF CashInv, OffersTyped
<1>7. DealInv'
  <2>1. \A c \in Dealer :
          /\ Deals(c, "insert")' => offers'[dealing'[c].offer] = NoOffer
          /\ Holding(c)' => /\ offers'[dealing'[c].offer].status = "accepted"
                            /\ paidOut'[dealing'[c].offer] = 0
    BY <1>1, <1>3, <1>4 DEF CashInv, DealInv, Deals, Holding
  <2>2. \A c, e \in Dealer :
          dealing'[c] # NoDeal /\ dealing'[e] # NoDeal /\ dealing'[c].offer = dealing'[e].offer
            => c = e
    BY <1>1, <1>3, <1>4 DEF CashInv, DealInv
  <2> QED BY <2>1, <2>2 DEF DealInv
<1>8. OffersInv' /\ OffersAddUp'
  BY <1>1, AddUpKept DEF vars
<1>9. OfferPaidOnce'
  BY <1>1 DEF CashInv, CashOutHolds, OfferPaidOnce
<1> QED BY <1>1, <1>5, <1>6, <1>7, <1>8, <1>9, HistoryTyped, CashKept

LEMMA InsertOfferKeeps ==
  ASSUME CashInv, NEW d \in Dealer, InsertOffer(d)
  PROVE  CashInv'
<1> DEFINE o == dealing[d].offer
           new == [status |-> "offered", bet |-> dealing[d].bet, amount |-> dealing[d].amount]
<1>1. /\ Deals(d, "insert") /\ offers' = [offers EXCEPT ![o] = new]
      /\ dealing' = [dealing EXCEPT ![d] = NoDeal]
      /\ UNCHANGED <<vars, late, covered, paidOut>>
  BY DEF InsertOffer, Finish
<1>2. /\ o \in Offer /\ new \in OfferRow /\ offers[o] = NoOffer /\ dealing[d] # NoDeal
      /\ new.status = "offered"
  BY <1>1, DealParts DEF CashInv, DealInv, OfferRow
<1> HIDE DEF o, new
<1>3. /\ \A c \in Dealer : dealing'[c] = IF c = d THEN NoDeal ELSE dealing[c]
      /\ \A x \in Offer : offers'[x] = IF x = o THEN new ELSE offers[x]
  BY <1>1 DEF CashInv, OffersTyped
<1>4. Inv'
  BY <1>1, RestStep DEF CashInv
<1>5. OffersTyped'
  BY <1>1, <1>2 DEF CashInv, OffersTyped, Deal
<1>6. ASSUME NEW c \in Dealer, c # d, dealing[c] # NoDeal
      PROVE  dealing[c].offer # o
  BY <1>2, <1>6 DEF CashInv, DealInv, o
<1>7. DealInv'
  <2>1. ASSUME NEW c \in Dealer
        PROVE  /\ Deals(c, "insert")' => offers'[dealing'[c].offer] = NoOffer
               /\ Holding(c)' => /\ offers'[dealing'[c].offer].status = "accepted"
                                 /\ paidOut'[dealing'[c].offer] = 0
    <3>1. CASE c = d
      BY <1>3, <3>1 DEF Deals, Holding
    <3>2. CASE c # d
      <4>1. dealing'[c] = dealing[c]
        BY <1>3, <3>2
      <4>2. (Deals(c, "insert")' <=> Deals(c, "insert")) /\ (Holding(c)' <=> Holding(c))
        BY <4>1 DEF Deals, Holding
      <4>3. ASSUME Deals(c, "insert") \/ Holding(c)
            PROVE  offers'[dealing[c].offer] = offers[dealing[c].offer]
        <5>1. dealing[c] # NoDeal /\ dealing[c].offer \in Offer
          BY <4>3, DealParts
        <5> QED BY <1>3, <1>6, <3>2, <5>1
      <4> QED BY <1>1, <4>1, <4>2, <4>3 DEF CashInv, DealInv
    <3> QED BY <3>1, <3>2
  <2>2. \A c, e \in Dealer :
          dealing'[c] # NoDeal /\ dealing'[e] # NoDeal /\ dealing'[c].offer = dealing'[e].offer
            => c = e
    BY <1>3 DEF CashInv, DealInv
  <2> QED BY <2>1, <2>2 DEF DealInv
<1>8. OffersInv' /\ OffersAddUp'
  <2>1. NoOffer.status # "accepted"
    BY DEF NoOffer
  <2>2. \A x \in Offer : (offers[x].status = "accepted" \/ offers'[x].status = "accepted")
                            => offers'[x] = offers[x]
    BY <1>2, <1>3, <2>1
  <2> QED BY <1>1, <2>2, AddUpKept DEF vars
<1>9. OfferPaidOnce'
  <2>1. NoOffer.status # "accepted"
    BY DEF NoOffer
  <2> QED BY <1>1, <1>2, <1>3, <2>1 DEF CashInv, CashOutHolds, OfferPaidOnce
<1> QED BY <1>1, <1>4, <1>5, <1>7, <1>8, <1>9, HistoryTyped, CashKept

\* Only offers change, of those that are offered, to one that is not accepted either.
LEMMA OfferAgesKeeps ==
  ASSUME CashInv, NEW o \in Offer, TenSeconds(o) \/ ExpireOffer(o)
  PROVE  CashInv'
<1>1. CASE TenSeconds(o)
  <2>1. late' \subseteq Offer /\ UNCHANGED <<vars, offers, dealing, covered, paidOut>>
    BY <1>1, HistoryTyped DEF TenSeconds
  <2>2. Inv'
    BY <2>1, RestStep DEF CashInv
  <2>3. OffersTyped' /\ OfferPaidOnce'
    BY <2>1 DEF CashInv, CashOutHolds, OffersTyped, OfferPaidOnce
  <2>4. DealInv'
    BY <2>1 DEF CashInv, DealInv, Deals, Holding
  <2>5. OffersInv' /\ OffersAddUp'
    BY <2>1, AddUpKept DEF vars
  <2> QED BY <2>1, <2>2, <2>3, <2>4, <2>5, HistoryTyped, CashKept
<1>2. CASE ExpireOffer(o)
  <2>1. /\ offers[o].status = "offered" /\ offers' = [offers EXCEPT ![o].status = "expired"]
        /\ UNCHANGED <<vars, late, dealing, covered, paidOut>>
    BY <1>2 DEF ExpireOffer
  <2>2. offers[o] \in OfferRow /\ offers[o] # NoOffer
    BY <2>1, OfferParts
  <2> DEFINE new == [offers[o] EXCEPT !.status = "expired"]
  <2>3. new \in OfferRow /\ offers' = [offers EXCEPT ![o] = new]
    BY <2>1, <2>2 DEF OfferRow
  <2> HIDE DEF new
  <2>4. \A x \in Offer : offers'[x] = IF x = o THEN new ELSE offers[x]
    BY <2>3 DEF CashInv, OffersTyped
  <2>5. Inv'
    BY <2>1, RestStep DEF CashInv
  <2>6. OffersTyped'
    BY <2>1, <2>3 DEF CashInv, OffersTyped
  <2>7. DealInv'
    <3>1. ASSUME NEW c \in Dealer, Deals(c, "insert") \/ Holding(c)
          PROVE  offers'[dealing[c].offer] = offers[dealing[c].offer]
      <4>1. dealing[c].offer \in Offer
        BY <3>1, DealParts
      <4>2. dealing[c].offer # o
        BY <2>1, <2>2, <3>1 DEF CashInv, DealInv
      <4> QED BY <2>4, <4>1, <4>2
    <3>2. \A c \in Dealer : /\ Deals(c, "insert")' <=> Deals(c, "insert")
                            /\ Holding(c)' <=> Holding(c)
      BY <2>1 DEF Deals, Holding
    <3> QED BY <2>1, <3>1, <3>2 DEF CashInv, DealInv
  <2>8. OffersInv' /\ OffersAddUp'
    <3>1. new.status = "expired"
      BY <2>2 DEF new, OfferRow
    <3>2. \A x \in Offer : (offers[x].status = "accepted" \/ offers'[x].status = "accepted")
                              => offers'[x] = offers[x]
      BY <2>1, <2>4, <3>1
    <3> QED BY <2>1, <3>2, AddUpKept DEF vars
  <2>9. OfferPaidOnce'
    BY <2>1, <2>4 DEF CashInv, CashOutHolds, OfferPaidOnce
  <2> QED BY <2>1, <2>5, <2>6, <2>7, <2>8, <2>9, HistoryTyped, CashKept
<1> QED BY <1>1, <1>2
LEMMA AcceptOfferKeeps ==
  ASSUME CashInv, NEW d \in Dealer, NEW o \in Offer, AcceptOffer(d, o)
  PROVE  CashInv'
<1> DEFINE b == offers[o].bet
           deal == [at |-> "release", offer |-> o, bet |-> b]
           accepted == [offers[o] EXCEPT !.status = "accepted"]
           settled == [status |-> "settled", profit |-> Profit(o)]
<1>1. /\ dealing[d] = NoDeal /\ offers[o].status = "offered"
      /\ offers' = [offers EXCEPT ![o].status = "accepted"]
      /\ bets' = [bets EXCEPT ![b] = settled]
      /\ covered' = [covered EXCEPT ![b] = @ + bets[b].profit]
      /\ dealing' = [dealing EXCEPT ![d] = deal]
      /\ UNCHANGED <<accountVars, settlementVars, faults, late, paidOut>>
  BY DEF AcceptOffer, Acceptable
<1>2. offers[o] \in OfferRow /\ offers[o] # NoOffer /\ Profit(o) \in Int
  BY <1>1, OfferParts
<1>3. /\ b \in Bet /\ deal \in Deal /\ deal # NoDeal /\ deal.at = "release" /\ deal.offer = o
      /\ accepted \in OfferRow /\ accepted.status = "accepted"
      /\ settled \in [status : BetStatus, profit : Int]
      /\ settled.status = "settled"
  BY <1>2 DEF OfferRow, Deal, NoDeal, BetStatus
<1>4. offers' = [offers EXCEPT ![o] = accepted]
  BY <1>1
<1> HIDE DEF b, deal, accepted, settled
<1>5. /\ \A c \in Dealer : dealing'[c] = IF c = d THEN deal ELSE dealing[c]
      /\ \A x \in Offer : offers'[x] = IF x = o THEN accepted ELSE offers[x]
  BY <1>1, <1>4 DEF CashInv, OffersTyped
<1>6. Inv'
  <2>1. AccountTyped' /\ faults' \in Nat
    BY <1>1 DEF CashInv, Inv, TypeOK, AccountTyped, accountVars
  <2>2. bets' \in [Bet -> [status : BetStatus, profit : Int]]
    BY <1>1, <1>3 DEF CashInv, Inv, TypeOK
  <2> QED BY <1>1, <2>1, <2>2, CashStepKeepsInv DEF CashInv
<1>7. OffersTyped'
  BY <1>1, <1>3, <1>4 DEF CashInv, OffersTyped
<1>8. ASSUME NEW c \in Dealer, dealing[c] # NoDeal
      PROVE  dealing[c].offer # o
  <2>1. dealing[c] \in Deal
    BY DEF CashInv, OffersTyped
  <2>2. Deals(c, "insert") \/ Holding(c)
    BY <1>8, <2>1 DEF Deal, Deals, Holding
  <2> QED BY <1>1, <1>2, <2>2 DEF CashInv, DealInv
<1>9. paidOut'[o] = 0
  BY <1>1, HistoryTyped DEF CashInv, CashOutHolds, OfferPaidOnce
<1>10. DealInv'
  <2>1. ASSUME NEW c \in Dealer
        PROVE  /\ Deals(c, "insert")' => offers'[dealing'[c].offer] = NoOffer
               /\ Holding(c)' => /\ offers'[dealing'[c].offer].status = "accepted"
                                 /\ paidOut'[dealing'[c].offer] = 0
    <3>1. CASE c = d
      BY <1>3, <1>5, <1>9, <3>1 DEF Deals
    <3>2. CASE c # d
      <4>1. dealing'[c] = dealing[c]
        BY <1>5, <3>2
      <4>2. (Deals(c, "insert")' <=> Deals(c, "insert")) /\ (Holding(c)' <=> Holding(c))
        BY <4>1 DEF Deals, Holding
      <4>3. ASSUME Deals(c, "insert") \/ Holding(c)
            PROVE  offers'[dealing[c].offer] = offers[dealing[c].offer]
        <5>1. dealing[c] # NoDeal /\ dealing[c].offer \in Offer
          BY <4>3, DealParts
        <5> QED BY <1>5, <1>8, <5>1
      <4> QED BY <1>1, <4>1, <4>2, <4>3 DEF CashInv, DealInv
    <3> QED BY <3>1, <3>2
  <2>2. \A c, e \in Dealer :
          dealing'[c] # NoDeal /\ dealing'[e] # NoDeal /\ dealing'[c].offer = dealing'[e].offer
            => c = e
    BY <1>3, <1>5, <1>8 DEF CashInv, DealInv
  <2> QED BY <2>1, <2>2 DEF DealInv
<1>11. OfferPaidOnce'
  BY <1>1, <1>3, <1>5 DEF CashInv, CashOutHolds, OfferPaidOnce
<1>12. covered' \in [Bet -> Int]
  <2>1. bets[b].profit \in Int
    BY <1>3, AmountsTyped
  <2> QED BY <1>1, <1>3, <2>1, HistoryTyped
<1>13. /\ \A x \in Bet : x # b => covered'[x] = covered[x] /\ bets'[x] = bets[x]
       /\ covered'[b] = covered[b] + bets[b].profit /\ bets'[b] = settled
       /\ \A x \in Bet : PaidBy(x)' = PaidBy(x)
  <2>1. \A x \in Bet : EventsOf(x)' = EventsOf(x)
    BY <1>1 DEF EventsOf, settlementVars
  <2> QED BY <1>1, <1>3, <2>1, HistoryTyped DEF CashInv, Inv, TypeOK, PaidBy, settlementVars
<1>14. /\ Accepted' = Accepted \cup {o}
       /\ \A x \in Bet : x = b => AcceptedOf(x)' = AcceptedOf(x) \cup {o}
       /\ \A x \in Bet : x # b => AcceptedOf(x)' = AcceptedOf(x)
       /\ o \notin AcceptedOf(b)
       /\ \A x \in Offer : Profit(x)' = Profit(x)
  <2>1. accepted.bet = b /\ accepted.amount = offers[o].amount
    BY <1>2 DEF accepted, b, OfferRow
  <2>2. \A x \in Offer : /\ offers'[x].bet = offers[x].bet /\ offers'[x].amount = offers[x].amount
                         /\ x # o => offers'[x] = offers[x]
    BY <1>5, <2>1 DEF b
  <2>3. offers'[o].status = "accepted" /\ offers[o].bet = b
    BY <1>3, <1>5 DEF b
  <2>4. ASSUME NEW x \in Offer
        PROVE  (offers'[x].status = "accepted") <=> (offers[x].status = "accepted" \/ x = o)
    <3>1. CASE x = o
      BY <2>3, <3>1
    <3>2. CASE x # o
      BY <2>2, <3>2
    <3> QED BY <3>1, <3>2
  <2>5. Accepted' = Accepted \cup {o}
    BY <2>4 DEF Accepted
  <2>6. ASSUME NEW x \in Bet
        PROVE  /\ x = b => AcceptedOf(x)' = AcceptedOf(x) \cup {o}
               /\ x # b => AcceptedOf(x)' = AcceptedOf(x)
    <3>1. ASSUME NEW y \in Offer
          PROVE  (offers'[y].bet = x) <=> (offers[y].bet = x)
      BY <2>2
    <3>2. AcceptedOf(x)' = {y \in Offer : (offers[y].status = "accepted" \/ y = o) /\ offers[y].bet = x}
      BY <2>4, <3>1 DEF AcceptedOf
    <3> QED BY <2>3, <3>2 DEF AcceptedOf
  <2>7. o \notin AcceptedOf(b)
    BY <1>1 DEF AcceptedOf
  <2>8. \A x \in Offer : Profit(x)' = Profit(x)
    BY <2>2 DEF Profit
  <2> QED BY <2>5, <2>6, <2>7, <2>8
<1>15. OffersInv'
  <2>1. \A x \in Bet : bets'[x].status # "settled" => bets'[x].profit = 0
    BY <1>3, <1>13 DEF CashInv, OffersInv, OnlySettledShow
  <2>2. IsFiniteSet(DOMAIN outbox')
    BY <1>1 DEF CashInv, OffersInv, OnlySettledShow, settlementVars
  <2>3. IsFiniteSet(Accepted \cup {o})
    BY FS_AddElement DEF CashInv, OffersInv
  <2> QED BY <1>14, <2>1, <2>2, <2>3 DEF OffersInv, OnlySettledShow
<1>16. \A x \in Bet : /\ x = b => OffersPay(x)' = OffersPay(x) + Profit(o)
                      /\ x # b => OffersPay(x)' = OffersPay(x)
  <2> DEFINE f == [x \in AcceptedOf(b) |-> Profit(x)]
             g == [x \in AcceptedOf(b) \cup {o} |-> Profit(x)]
  <2>1. /\ IsFiniteSet(AcceptedOf(b)) /\ o \notin AcceptedOf(b)
        /\ \A x \in AcceptedOf(b) : g[x] = f[x] /\ g[x] \in Int
        /\ g[o] = Profit(o) /\ g[o] \in Int
    BY <1>2, <1>3, <1>14, AmountsTyped
  <2>2. OffersPay(b) = SumFunctionOnSet(f, AcceptedOf(b))
    BY DEF OffersPay, SumFunction
  <2>3. ASSUME NEW x \in Bet, x = b
        PROVE  OffersPay(x)' = SumFunctionOnSet(g, AcceptedOf(b) \cup {o})
    <3>1. AcceptedOf(x)' = AcceptedOf(b) \cup {o}
      BY <1>14, <2>3
    <3>2. [y \in AcceptedOf(x)' |-> Profit(y)'] = g
      BY <1>14, <3>1 DEF AcceptedOf
    <3>3. DOMAIN g = AcceptedOf(b) \cup {o}
      OBVIOUS
    <3> HIDE DEF g
    <3> QED BY <3>2, <3>3 DEF OffersPay, SumFunction
  <2>4. ASSUME NEW x \in Bet, x # b
        PROVE  OffersPay(x)' = OffersPay(x)
    <3>1. [y \in AcceptedOf(x)' |-> Profit(y)'] = [y \in AcceptedOf(x) |-> Profit(y)]
      BY <1>14, <2>4 DEF AcceptedOf
    <3> QED BY <3>1 DEF OffersPay
  <2> HIDE DEF f, g
  <2>5. SumFunctionOnSet(g, AcceptedOf(b)) = SumFunctionOnSet(f, AcceptedOf(b))
    BY <2>1, SumSame
  <2>6. SumFunctionOnSet(g, AcceptedOf(b) \cup {o}) = SumFunctionOnSet(g, AcceptedOf(b)) + g[o]
    BY <2>1, SumAdd
  <2> QED BY <2>1, <2>2, <2>3, <2>4, <2>5, <2>6
<1>17. OffersAddUp'
  <2>1. ASSUME NEW x \in Bet
        PROVE  bets'[x].profit + covered'[x] = PaidBy(x)' + OffersPay(x)'
    <3>1. /\ bets[x].profit + covered[x] = PaidBy(x) + OffersPay(x)
          /\ bets[x].profit \in Int /\ covered[x] \in Int
          /\ PaidBy(x) \in Int /\ OffersPay(x) \in Int
      BY AmountsTyped, AddUpParts DEF CashInv, CashOutHolds
    <3>2. settled.profit = Profit(o)
      BY DEF settled
    <3>3. CASE x = b
      <4>1. /\ covered'[x] = covered[x] + bets[x].profit /\ bets'[x].profit = Profit(o)
            /\ PaidBy(x)' = PaidBy(x) /\ OffersPay(x)' = OffersPay(x) + Profit(o)
        BY <1>13, <1>16, <3>2, <3>3
      <4> QED BY <1>2, <3>1, <4>1
    <3>4. CASE x # b
      BY <1>13, <1>16, <3>1, <3>4
    <3> QED BY <3>3, <3>4
  <2> QED BY <2>1 DEF OffersAddUp, PaidBy, OffersPay
<1> QED BY <1>1, <1>6, <1>7, <1>10, <1>11, <1>12, <1>15, <1>17, HistoryTyped, CashKept

\* A goroutine that goes on with its deal, or is done with it; "paid" is the offer it has
\* just paid.
LEMMA GoesOnKeeps ==
  ASSUME CashInv, NEW d \in Dealer, Holding(d), Advance(d, "pay") \/ Finish(d),
         Inv', UNCHANGED <<bets, settlementVars, offers, late, covered>>,
         \/ UNCHANGED paidOut
         \/ Finish(d) /\ paidOut' = [paidOut EXCEPT ![dealing[d].offer] = @ + 1]
  PROVE  CashInv'
<1> DEFINE o == dealing[d].offer
           on == [dealing[d] EXCEPT !.at = "pay"]
<1>1. /\ dealing[d] \in [at : {"release", "pay"}, offer : Offer, bet : Bet]
      /\ dealing[d] # NoDeal
  BY DealParts
<1>2. PICK next \in {on, NoDeal} :
        /\ dealing' = [dealing EXCEPT ![d] = next]
        /\ \/ UNCHANGED paidOut
           \/ next = NoDeal /\ paidOut' = [paidOut EXCEPT ![o] = @ + 1]
  BY DEF Advance, Finish
<1>3. /\ on \in Deal /\ on # NoDeal /\ on.offer = o /\ on.at = "pay"
      /\ o \in Offer
  BY <1>1 DEF Deal, NoDeal
<1>4. offers[o].status = "accepted" /\ paidOut[o] = 0
  BY DEF CashInv, DealInv
<1> HIDE DEF o, on
<1>5. \A c \in Dealer : dealing'[c] = IF c = d THEN next ELSE dealing[c]
  BY <1>2 DEF CashInv, OffersTyped
<1>6. OffersTyped'
  BY <1>2, <1>3 DEF CashInv, OffersTyped, Deal
<1>7. /\ paidOut' \in [Offer -> Nat]
      /\ \A x \in Offer : paidOut'[x] # paidOut[x] => x = o /\ next = NoDeal /\ paidOut'[x] = 1
  BY <1>2, <1>3, <1>4, HistoryTyped
<1>8. OfferPaidOnce'
  BY <1>4, <1>7 DEF CashInv, CashOutHolds, OfferPaidOnce
<1>9. DealInv'
  <2>1. ASSUME NEW c \in Dealer
        PROVE  /\ Deals(c, "insert")' => offers'[dealing'[c].offer] = NoOffer
               /\ Holding(c)' => /\ offers'[dealing'[c].offer].status = "accepted"
                                 /\ paidOut'[dealing'[c].offer] = 0
    <3>1. CASE c = d /\ next = NoDeal
      BY <1>5, <3>1 DEF Deals, Holding
    <3>2. CASE c = d /\ next # NoDeal
      BY <1>2, <1>3, <1>4, <1>5, <1>7, <3>2 DEF Deals
    <3>3. CASE c # d
      <4>1. dealing'[c] = dealing[c]
        BY <1>5, <3>3
      <4>2. (Deals(c, "insert")' <=> Deals(c, "insert")) /\ (Holding(c)' <=> Holding(c))
        BY <4>1 DEF Deals, Holding
      <4>3. ASSUME Holding(c)
            PROVE  paidOut'[dealing[c].offer] = paidOut[dealing[c].offer]
        <5>1. dealing[c] # NoDeal /\ dealing[c].offer \in Offer
          BY <4>3, DealParts
        <5>2. dealing[c].offer # o
          BY <1>1, <3>3, <5>1 DEF CashInv, DealInv, o
        <5> QED BY <1>7, <5>1, <5>2
      <4> QED BY <4>1, <4>2, <4>3 DEF CashInv, DealInv
    <3> QED BY <3>1, <3>2, <3>3
  <2>2. \A c, e \in Dealer :
          dealing'[c] # NoDeal /\ dealing'[e] # NoDeal /\ dealing'[c].offer = dealing'[e].offer
            => c = e
    BY <1>1, <1>3, <1>5 DEF CashInv, DealInv, o
  <2> QED BY <2>1, <2>2 DEF DealInv
<1>10. OffersInv' /\ OffersAddUp'
  BY AddUpKept DEF settlementVars
<1> QED BY <1>6, <1>7, <1>8, <1>9, <1>10, HistoryTyped, CashKept

\* An offer that cannot be inserted is dropped.
LEMMA DropKeeps ==
  ASSUME CashInv, NEW d \in Dealer, Finish(d), faults < MaxFaults, faults' = faults + 1,
         UNCHANGED <<bets, accountVars, settlementVars, offers, late, covered, paidOut>>
  PROVE  CashInv'
<1>1. \A c \in Dealer : dealing'[c] = IF c = d THEN NoDeal ELSE dealing[c]
  BY DEF Finish, CashInv, OffersTyped
<1>2. /\ AccountTyped' /\ faults' \in Nat
      /\ bets' \in [Bet -> [status : BetStatus, profit : Int]]
  BY DEF CashInv, Inv, TypeOK, AccountTyped, accountVars
<1>3. Inv'
  BY <1>2, CashStepKeepsInv DEF CashInv
<1>4. OffersTyped' /\ OfferPaidOnce'
  BY DEF CashInv, CashOutHolds, OffersTyped, OfferPaidOnce, Deal, Finish
<1>5. DealInv'
  BY <1>1 DEF CashInv, DealInv, Deals, Holding
<1>6. OffersInv' /\ OffersAddUp'
  BY AddUpKept DEF settlementVars
<1> QED BY <1>3, <1>4, <1>5, <1>6, HistoryTyped, CashKept

LEMMA ServeKeeps ==
  ASSUME CashInv, NEW d \in Dealer, ReleaseHold(d) \/ PayOffer(d) \/ CallFails(d)
  PROVE  CashInv'
<1> DEFINE o == dealing[d].offer
           b == dealing[d].bet
<1>0. CASE Deals(d, "insert") /\ CallFails(d)
  BY <1>0, DropKeeps DEF CallFails, Deals
<1> SUFFICES ASSUME ~(Deals(d, "insert") /\ CallFails(d)) PROVE CashInv'
  BY <1>0
<1>1. Holding(d) /\ (Advance(d, "pay") \/ Finish(d))
  BY DEF ReleaseHold, PayOffer, CallFails, Holding
<1>2. o \in Offer /\ b \in Bet /\ b \in Key /\ placed[b].user \in User /\ placed[b].matched \in Nat
  <2>1. o \in Offer /\ b \in Bet
    BY <1>1, DealParts
  <2> QED BY <2>1, SettlementAssumption DEF Placed
<1>3. Profit(o) \in Int
  <2>1. offers[o].status = "accepted"
    BY <1>1 DEF CashInv, DealInv
  <2> QED BY <1>2, <2>1, OfferParts
<1> HIDE DEF o, b
<1>4. /\ AccountTyped /\ faults \in Nat
      /\ bets \in [Bet -> [status : BetStatus, profit : Int]]
  BY DEF CashInv, Inv, TypeOK, AccountTyped
<1>5. CASE ReleaseHold(d)
  <2>1. /\ ReleaseFunds(placed[b].user, placed[b].matched, b)
        /\ UNCHANGED <<bets, settlementVars, faults, offers, late, covered, paidOut>>
    BY <1>5 DEF ReleaseHold, b
  <2>2. AccountTyped'
    BY <1>2, <1>4, <2>1, ReleaseTyped
  <2>3. Inv'
    BY <1>4, <2>1, <2>2, CashStepKeepsInv DEF CashInv
  <2> QED BY <1>1, <2>1, <2>3, GoesOnKeeps
<1>6. CASE PayOffer(d)
  <2>1. /\ SettleBet(placed[b].user, b, Profit(o), 0)
        /\ paidOut' = [paidOut EXCEPT ![dealing[d].offer] = @ + 1] /\ Finish(d)
        /\ UNCHANGED <<bets, settlementVars, faults, offers, late, covered>>
    BY <1>6 DEF PayOffer, o, b
  <2>2. AccountTyped'
    BY <1>2, <1>3, <1>4, <2>1, SettleTyped
  <2>3. Inv'
    BY <1>4, <2>1, <2>2, CashStepKeepsInv DEF CashInv
  <2> QED BY <1>1, <2>1, <2>3, GoesOnKeeps
<1>7. CASE CallFails(d)
  <2>1. /\ faults' \in Nat
        /\ UNCHANGED <<bets, accountVars, settlementVars, offers, late, covered, paidOut>>
    BY <1>4, <1>7 DEF CallFails
  <2>2. AccountTyped'
    BY <1>4, <2>1 DEF AccountTyped, accountVars
  <2>3. Inv'
    BY <1>4, <2>1, <2>2, CashStepKeepsInv DEF CashInv
  <2> QED BY <1>1, <2>1, <2>3, GoesOnKeeps
<1> QED BY <1>5, <1>6, <1>7

LEMMA GatewayCrashKeeps ==
  ASSUME CashInv, GatewayCrash
  PROVE  CashInv'
<1>1. /\ faults' = faults + 1 /\ dealing' = [d \in Dealer |-> NoDeal]
      /\ worker' = [w \in Worker |-> Idle]
      /\ UNCHANGED <<accountVars, bets, market, outbox, ops, doneVars, offers, late, covered,
                     paidOut>>
  BY DEF GatewayCrash
<1>2. faults' \in Nat
  BY <1>1 DEF CashInv, Inv, TypeOK
<1>3. Inv'
  BY <1>1, <1>2, CrashKeepsInv DEF CashInv
<1>4. OffersTyped' /\ OfferPaidOnce'
  BY <1>1 DEF CashInv, CashOutHolds, OffersTyped, OfferPaidOnce, Deal
<1>5. DealInv'
  BY <1>1 DEF DealInv, Deals, Holding
<1>6. OffersInv' /\ OffersAddUp'
  BY <1>1, AddUpKept
<1> QED BY <1>1, <1>3, <1>4, <1>5, <1>6, HistoryTyped, CashKept
\* A step of the settlement: what the bets show grows by what they are paid.
LEMMA SettlementGoesOnKeeps ==
  ASSUME CashInv, SettlementGoesOn
  PROVE  CashInv'
<1>1. /\ \/ \E a \in Admin : Operate(a)
         \/ UpdateStatus \/ SyncFromProvider \/ \E w \in Worker : Work(w) \/ Fault(w)
      /\ UNCHANGED <<offers, late, dealing, covered, paidOut>>
  BY DEF SettlementGoesOn, cashVars
<1>2. Inv'
  BY <1>1, OperateStep, RestStep, WorkStep DEF CashInv
<1>3. PaysAsShown
  <2>1. [Next]_vars
    BY <1>1 DEF Next
  <2> QED BY <2>1, OperatePays, OthersPayNothing DEF CashInv, OffersInv
<1>4. Accepted' = Accepted /\ \A b \in Bet : OffersPay(b)' = OffersPay(b)
  BY <1>1, AcceptedStay
<1>5. OffersInv'
  BY <1>3, <1>4 DEF CashInv, OffersInv, PaysAsShown
<1>6. OffersAddUp'
  <2>1. ASSUME NEW b \in Bet
        PROVE  bets'[b].profit + covered'[b] = PaidBy(b)' + OffersPay(b)'
    <3>1. /\ bets[b].profit + covered[b] = PaidBy(b) + OffersPay(b)
          /\ bets[b].profit \in Int /\ covered[b] \in Int
          /\ PaidBy(b) \in Int /\ OffersPay(b) \in Int
      BY AmountsTyped, AddUpParts DEF CashInv, CashOutHolds
    <3>2. bets'[b].profit \in Int
      BY <1>2 DEF Inv, TypeOK
    <3>3. PaidBy(b)' = PaidBy(b) + (bets'[b].profit - bets[b].profit)
      BY <1>3 DEF PaysAsShown
    <3>4. covered'[b] = covered[b] /\ OffersPay(b)' = OffersPay(b)
      BY <1>1, <1>4
    <3> QED BY <3>1, <3>2, <3>3, <3>4
  <2> QED BY <2>1 DEF OffersAddUp, PaidBy, OffersPay
<1>7. OffersTyped' /\ OfferPaidOnce'
  BY <1>1 DEF CashInv, CashOutHolds, OffersTyped, OfferPaidOnce
<1>8. DealInv'
  BY <1>1 DEF CashInv, DealInv, Deals, Holding
<1> QED BY <1>1, <1>2, <1>5, <1>6, <1>7, <1>8, HistoryTyped, CashKept

LEMMA CashStutters ==
  ASSUME CashInv, UNCHANGED allVars
  PROVE  CashInv'
<1>1. UNCHANGED vars /\ UNCHANGED <<offers, late, dealing, covered, paidOut>>
  BY DEF allVars, cashVars
<1>2. Inv'
  BY <1>1, RestStep DEF CashInv
<1>3. OffersInv' /\ OffersAddUp'
  BY <1>1, AddUpKept DEF vars
<1>4. OffersTyped' /\ OfferPaidOnce'
  BY <1>1 DEF CashInv, CashOutHolds, OffersTyped, OfferPaidOnce
<1>5. DealInv'
  BY <1>1 DEF CashInv, DealInv, Deals, Holding
<1> QED BY <1>1, <1>2, <1>3, <1>4, <1>5, HistoryTyped, CashKept

\* For any bets, offers, goroutines, prices and failures: an offer is paid once at most, and
\* only when it was accepted; and settled, voided, rolled back and cashed out in any order,
\* a bet shows what its events and accepted offers pay, but for what an offer was written
\* over (cashout/service.go, settlement/service.go).
THEOREM CashOutsHold == CashSpec => []CashOutHolds
<1>1. CashInit => CashInv
  BY CashInitInv
<1>2. CashInv /\ [CashNext]_allVars => CashInv'
  BY PriceOfferKeeps, AcceptOfferKeeps, InsertOfferKeeps, ServeKeeps, OfferAgesKeeps,
     SettlementGoesOnKeeps, GatewayCrashKeeps, CashStutters
     DEF CashNext
<1>3. CashInv => CashOutHolds
  BY DEF CashInv
<1> QED BY <1>1, <1>2, <1>3, PTL DEF CashSpec

=============================================================================
