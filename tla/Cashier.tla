-------------------------------- MODULE Cashier --------------------------------
(***************************************************************************)
(* Money that enters, leaves or moves between the gateway's accounts other *)
(* than by betting: deposits and withdrawals (internal/payment), rounds of *)
(* casino games (internal/casino), credit given down the hierarchy         *)
(* (internal/hierarchy).                                                   *)
(*                                                                         *)
(* Each handler is a sequence of statements, none in a transaction with    *)
(* the next, and any of them may fail or be the last before a crash:       *)
(*   crypto webhook    SELECT pending, UPDATE, wallet.Deposit              *)
(*   withdrawal        GetBalance, INSERT, wallet.HoldFunds                *)
(*   casino webhook    SELECT session, EXISTS, INSERT, wallet.SettleBet    *)
(* The wallet's operations are those of Account; a transfer of credit is a *)
(* transaction of its own on two accounts.                                 *)
(***************************************************************************)
EXTENDS Integers, FiniteSets, Functions

CONSTANTS
  User, NoUser, OpeningBalance,
  Parent,        \* each user's parent, who may give the user credit
  Amount,        \* amounts asked for, within the limits of the service
  PaymentId,     \* ids of payment_transactions
  Session, SessionUser,   \* casino sessions, and whose they are
  Round, RoundOf, RoundPnl,   \* rounds of play: their session, payout less stake
  Proc,          \* goroutines serving requests
  MaxRequests, MaxTransfers, MaxFaults   \* bounds

VARIABLES
  balance, exposure, ledger,   \* as in Account
  payments,     \* payment_transactions
  sessions,     \* the status of casino_sessions
  casinoBets,   \* the rounds with a row in casino_bets
  req,          \* the request each goroutine is serving
  requests, transfers, faults,
  credits,      \* history: how often each payment was credited
  rivals,       \* history: the webhooks that had found it pending when another completed it
  unmade,       \* history: the credits of a completed payment that a failure prevented
  paid          \* history: how often each round was settled

TransferKey == [from : User, to : User, amount : Amount]

Acc == INSTANCE Account WITH
  Key <- PaymentId \cup Round \cup TransferKey, Requests <- {},
  balance <- balance, exposure <- exposure, ledger <- ledger

ASSUME CashierAssumption ==
  /\ NoUser \notin User
  /\ OpeningBalance \in [User -> Nat]
  /\ Parent \in [User -> User \cup {NoUser}] /\ \A u \in User : Parent[u] # u
  /\ Amount \subseteq Nat \ {0}
  /\ SessionUser \in [Session -> User]
  /\ RoundOf \in [Round -> Session] /\ RoundPnl \in [Round -> Int]
  /\ IsFiniteSet(Proc) /\ IsFiniteSet(User)
  /\ IsFiniteSet(PaymentId) /\ IsFiniteSet(Round)
  /\ MaxRequests \in Nat /\ MaxTransfers \in Nat /\ MaxFaults \in Nat

vars == <<balance, exposure, ledger, payments, sessions, casinoBets, req,
          requests, transfers, faults, credits, rivals, unmade, paid>>

moneyVars == <<balance, exposure, ledger>>
countVars == <<requests, transfers, faults>>
creditVars == <<credits, rivals, unmade>>

NoPayment == [status |-> "none"]
Payment == [user : User, direction : {"deposit", "withdrawal"}, amount : Amount,
            status : {"pending", "completed"}]
Idle == [at |-> "idle"]

Init ==
  /\ Acc!AccountInit
  /\ payments = [i \in PaymentId |-> NoPayment]
  /\ sessions = [s \in Session |-> "none"]
  /\ casinoBets = {}
  /\ req = [p \in Proc |-> Idle]
  /\ requests = 0 /\ transfers = 0 /\ faults = 0
  /\ credits = [i \in PaymentId |-> 0] /\ rivals = credits /\ unmade = credits
  /\ paid = [r \in Round |-> 0]

At(p, step) == req[p] # Idle /\ req[p].at = step
Goto(p, step) == req' = [req EXCEPT ![p].at = step]
Answer(p) == req' = [req EXCEPT ![p] = Idle]

Begin(p, r) ==
  /\ req[p] = Idle /\ requests < MaxRequests
  /\ requests' = requests + 1
  /\ req' = [req EXCEPT ![p] = r]

Insert(i, u, direction, amount) ==
  payments' = [payments EXCEPT ![i] =
     [user |-> u, direction |-> direction, amount |-> amount, status |-> "pending"]]

-----------------------------------------------------------------------------
\* Payments.

\* InitiateUPIDeposit and InitiateCryptoDeposit: a pending row.
InitiateDeposit(u, i, amount) ==
  /\ requests < MaxRequests /\ requests' = requests + 1
  /\ payments[i] = NoPayment /\ Insert(i, u, "deposit", amount)
  /\ UNCHANGED <<moneyVars, sessions, casinoBets, req, transfers, faults, creditVars, paid>>

InitiateWithdrawal(p, u, i, amount) ==
  /\ payments[i] = NoPayment
  /\ Acc!Available(u) >= amount
  /\ Begin(p, [at |-> "insert", user |-> u, id |-> i, amount |-> amount])
  /\ UNCHANGED <<moneyVars, payments, sessions, casinoBets, transfers, faults,
                 creditVars, paid>>

InsertWithdrawal(p) ==
  /\ At(p, "insert") /\ payments[req[p].id] = NoPayment
  /\ Insert(req[p].id, req[p].user, "withdrawal", req[p].amount)
  /\ Goto(p, "hold")
  /\ UNCHANGED <<moneyVars, sessions, casinoBets, countVars, creditVars, paid>>

HoldWithdrawal(p) ==
  /\ At(p, "hold")
  /\ Acc!HoldFunds(req[p].user, req[p].amount, req[p].id)
  /\ Answer(p)
  /\ UNCHANGED <<payments, sessions, casinoBets, countVars, creditVars, paid>>

\* The row stays pending, with nothing held for it.
HoldRefused(p) ==
  /\ At(p, "hold") /\ Acc!Available(req[p].user) < req[p].amount
  /\ Answer(p)
  /\ UNCHANGED <<moneyVars, payments, sessions, casinoBets, countVars, creditVars, paid>>

\* Mutant: the row is found whatever its status.
IsKnown(i) == payments[i] # NoPayment

IsPending(i) == payments[i].status = "pending"
IsCompleted(i) == payments[i].status = "completed"

\* The third confirmation of a payment, in whichever direction it was.
HandleCryptoWebhook(p, i) ==
  /\ IsPending(i)
  /\ Begin(p, [at |-> "complete", id |-> i])
  /\ UNCHANGED <<moneyVars, payments, sessions, casinoBets, transfers, faults,
                 creditVars, paid>>

\* The goroutines that found payment i pending, and have still to credit it.
Crediting(i) == {q \in Proc : req[q].at \in {"complete", "credit"} /\ req[q].id = i}

\* An UPDATE of a pending row; that it found one is not looked at.
CompleteDeposit(p) ==
  /\ At(p, "complete")
  /\ payments' = [payments EXCEPT ![req[p].id].status = "completed"]
  /\ rivals' = IF IsCompleted(req[p].id) THEN rivals
               ELSE [rivals EXCEPT ![req[p].id] = Cardinality(Crediting(req[p].id) \ {p})]
  /\ Goto(p, "credit")
  /\ UNCHANGED <<moneyVars, sessions, casinoBets, countVars, credits, unmade, paid>>

\* Mutant: the amount is credited and the ledger not told.
CreditUnposted(i) ==
  /\ balance' = [balance EXCEPT ![payments[i].user] = @ + payments[i].amount]
  /\ UNCHANGED <<exposure, ledger>>

Credit(i) == Acc!Deposit(payments[i].user, payments[i].amount, i)

CreditDeposit(p) ==
  /\ At(p, "credit") /\ Credit(req[p].id)
  /\ credits' = [credits EXCEPT ![req[p].id] = @ + 1]
  /\ Answer(p)
  /\ UNCHANGED <<payments, sessions, casinoBets, countVars, rivals, unmade, paid>>

-----------------------------------------------------------------------------
\* The casino.

CreateSession(s) ==
  /\ sessions[s] = "none"
  /\ sessions' = [sessions EXCEPT ![s] = "active"]
  /\ UNCHANGED <<moneyVars, payments, casinoBets, req, countVars, creditVars, paid>>

\* By request, or because a look at the session finds it expired.
CloseSession(s) ==
  /\ sessions[s] = "active"
  /\ sessions' = [sessions EXCEPT ![s] = "closed"]
  /\ UNCHANGED <<moneyVars, payments, casinoBets, req, countVars, creditVars, paid>>

\* A round of any session there is, whatever its status.
HandleSettlementWebhook(p, r) ==
  /\ sessions[RoundOf[r]] # "none"
  /\ Begin(p, [at |-> "exists", round |-> r])
  /\ UNCHANGED <<moneyVars, payments, sessions, casinoBets, transfers, faults,
                 creditVars, paid>>

CheckRound(p) ==
  /\ At(p, "exists")
  /\ IF req[p].round \in casinoBets THEN Answer(p) ELSE Goto(p, "bet")
  /\ UNCHANGED <<moneyVars, payments, sessions, casinoBets, countVars, creditVars, paid>>

\* Mutant: the table has no UNIQUE (session_id, round_id).
Insertable(r) == TRUE

NotInserted(r) == r \notin casinoBets

InsertCasinoBet(p) ==
  LET r == req[p].round IN
  /\ At(p, "bet")
  /\ IF NotInserted(r)
     THEN casinoBets' = casinoBets \cup {r} /\ Goto(p, "settle")
     ELSE Answer(p) /\ UNCHANGED casinoBets
  /\ UNCHANGED <<moneyVars, payments, sessions, countVars, creditVars, paid>>

SettleRound(p) ==
  LET r == req[p].round IN
  /\ At(p, "settle")
  /\ Acc!SettleBet(SessionUser[RoundOf[r]], r, RoundPnl[r], 0)
  /\ paid' = [paid EXCEPT ![r] = @ + 1]
  /\ Answer(p)
  /\ UNCHANGED <<payments, sessions, casinoBets, countVars, creditVars>>

\* The loser has moved the money in the meantime.
SettleRefused(p) ==
  LET r == req[p].round IN
  /\ At(p, "settle") /\ ~Acc!Payable(SessionUser[RoundOf[r]], RoundPnl[r], 0)
  /\ Answer(p)
  /\ UNCHANGED <<moneyVars, payments, sessions, casinoBets, countVars, creditVars, paid>>

-----------------------------------------------------------------------------

\* The statement a request is at fails, or the gateway dies before it.
Fail(p) ==
  /\ req[p] # Idle /\ faults < MaxFaults
  /\ faults' = faults + 1
  /\ unmade' = [i \in PaymentId |-> IF IsCompleted(i) /\ p \in Crediting(i)
                                     THEN unmade[i] + 1 ELSE unmade[i]]
  /\ Answer(p)
  /\ UNCHANGED <<moneyVars, payments, sessions, casinoBets, requests, transfers,
                 credits, rivals, paid>>

TransferRows(from, to, amount) ==
  LET key == [from |-> from, to |-> to, amount |-> amount] IN
  {Acc!Row("debit", key, from, -amount), Acc!Row("credit", key, to, amount)}

Moved(from, to, amount) ==
  [[balance EXCEPT ![from] = @ - amount] EXCEPT ![to] = @ + amount]

\* Credit for a direct child.  The references are made of the amount, so the same
\* transfer can be made once; the balance is tested, not what is available of it.
TransferCredit(from, to, amount) ==
  /\ transfers < MaxTransfers /\ transfers' = transfers + 1
  /\ Parent[to] = from /\ balance[from] >= amount
  /\ \A row \in TransferRows(from, to, amount) : ~Acc!IsPosted(row)
  /\ balance' = Moved(from, to, amount)
  /\ Acc!Post(TransferRows(from, to, amount))
  /\ UNCHANGED <<exposure, payments, sessions, casinoBets, req, requests, faults,
                 creditVars, paid>>

-----------------------------------------------------------------------------

Serve(p) ==
  \/ \E u \in User, i \in PaymentId, a \in Amount : InitiateWithdrawal(p, u, i, a)
  \/ InsertWithdrawal(p) \/ HoldWithdrawal(p) \/ HoldRefused(p)
  \/ \E i \in PaymentId : HandleCryptoWebhook(p, i)
  \/ CompleteDeposit(p) \/ CreditDeposit(p)
  \/ \E r \in Round : HandleSettlementWebhook(p, r)
  \/ CheckRound(p) \/ InsertCasinoBet(p) \/ SettleRound(p) \/ SettleRefused(p)
  \/ Fail(p)

Next ==
  \/ \E p \in Proc : Serve(p)
  \/ \E u \in User, i \in PaymentId, a \in Amount : InitiateDeposit(u, i, a)
  \/ \E s \in Session : CreateSession(s) \/ CloseSession(s)
  \/ \E from \in User, to \in User, a \in Amount : TransferCredit(from, to, a)

Spec == Init /\ [][Next]_vars

-----------------------------------------------------------------------------

CashierKinds == Acc!Kinds \cup {"debit", "credit"}

Request ==
  {Idle}
  \cup [at : {"insert", "hold"}, user : User, id : PaymentId, amount : Amount]
  \cup [at : {"complete", "credit"}, id : PaymentId]
  \cup [at : {"exists", "bet", "settle"}, round : Round]

\* Values of every variable; no balance goes below zero.
TypeOK ==
  /\ balance \in [User -> Nat] /\ exposure \in [User -> Nat]
  /\ ledger \subseteq [kind : CashierKinds, user : User, amount : Int,
                       key : PaymentId \cup Round \cup TransferKey]
  /\ payments \in [PaymentId -> Payment \cup {NoPayment}]
  /\ sessions \in [Session -> {"none", "active", "closed"}]
  /\ casinoBets \subseteq Round
  /\ req \in [Proc -> Request]
  /\ requests \in Nat /\ transfers \in Nat /\ faults \in Nat
  /\ {credits, rivals, unmade} \subseteq [PaymentId -> Nat] /\ paid \in [Round -> Nat]

Brought ==
  [i \in PaymentId |-> IF credits[i] = 0 THEN 0 ELSE credits[i] * payments[i].amount]
Won == [r \in Round |-> paid[r] * RoundPnl[r]]

\* The wallets hold what was brought in and what the casino paid: credit that moves
\* between users, and money held for a withdrawal, is neither made nor lost.
MoneyConserved ==
  SumFunction(balance)
    = SumFunction(OpeningBalance) + SumFunction(Brought) + SumFunction(Won)

\* The ledger explains every account, whatever fails on the way, but for users who
\* were credited twice for one payment: the second credit has no row.
Rows(u, held) == {row \in ledger : row.user = u /\ (row.kind = "hold") = held}
Total(rows) == SumFunction([row \in rows |-> row.amount])

LedgerExplainsAccount ==
  \A u \in User :
    /\ exposure[u] = -Total(Rows(u, TRUE))
    /\ (\A i \in PaymentId : credits[i] > 1 => payments[i].user # u)
         => balance[u] = OpeningBalance[u] + Total(Rows(u, FALSE))

\* Payments, rounds and transfers leave no money unexplained: not all of it together,
\* and none of any user's account.
MoneyExplained == MoneyConserved /\ LedgerExplainsAccount

\* A provider may repeat and overlap its calls: a round is settled once at most, and
\* only if it is on record.
RoundsSettledOnce ==
  \A r \in Round : paid[r] <= 1 /\ (paid[r] = 1 => r \in casinoBets)

\* A payment is credited once when it is completed, and again for each webhook that had
\* found it pending before the first completed it: for none that comes later, and no credit
\* is left out but by a failure after that.
CreditedByOverlapOnly ==
  \A i \in PaymentId :
    credits[i] + unmade[i]
      = IF IsCompleted(i) THEN 1 + rivals[i] - Cardinality(Crediting(i)) ELSE 0

=============================================================================
