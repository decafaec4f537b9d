------------------------------- MODULE Account -------------------------------
(***************************************************************************)
(* What the wallet of the exchange promises its callers: every operation   *)
(* on a user's account is one atomic change of the user's balance, of the  *)
(* user's exposure (money held for open bets) and of the ledger.           *)
(*                                                                         *)
(* Module Wallet is the code (transactions, row locks, the Redis cache)    *)
(* and implements this specification.  Module Settlement uses these        *)
(* operations as the steps its workers take.                               *)
(*                                                                         *)
(* Money is counted in whole units: NUMERIC(20,2) is exact, and no         *)
(* property depends on the size of the unit.                               *)
(***************************************************************************)
EXTENDS Integers

CONSTANTS
  User,            \* the account holders, rows of auth.users
  Key,             \* bet ids, and the references of deposits and withdrawals
  Requests,        \* the calls callers make
  OpeningBalance   \* each user's balance when the history starts

Ops == {"hold", "release", "settle", "deposit", "withdraw"}

\* A call: "amount" is the P&L of a settle, "fee" its commission.
Request == [op : Ops, user : User, amount : Int, fee : Nat, key : Key]

AccountConstants ==
  /\ OpeningBalance \in [User -> Nat]
  /\ Requests \subseteq Request
  /\ \A r \in Requests : r.op # "settle" => r.amount \in Nat /\ r.fee = 0

ASSUME AccountAssumption == AccountConstants

VARIABLES
  balance,    \* auth.users.balance
  exposure,   \* auth.users.exposure
  ledger      \* the rows of betting.ledger

accountVars == <<balance, exposure, ledger>>

Kinds == {"hold", "release", "settlement", "commission", "reference"}
LedgerRow == [kind : Kinds, key : Key, user : User, amount : Int]

Row(kind, key, u, amount) ==
  [kind |-> kind, key |-> key, user |-> u, amount |-> amount]

\* The reference of a row is its kind and key: "hold:<bet>" and so on.
IsPosted(row) == \E r \in ledger : r.kind = row.kind /\ r.key = row.key

\* INSERT ... ON CONFLICT (reference) DO NOTHING
Post(rows) == ledger' = ledger \cup {row \in rows : ~IsPosted(row)}

Available(u) == balance[u] - exposure[u]

ReleasedExposure(u, amount) ==
  IF exposure[u] - amount < 0 THEN 0 ELSE exposure[u] - amount

-----------------------------------------------------------------------------

\* Reserve amount for a bet; refused unless it is available.
HoldFunds(u, amount, key) ==
  /\ Available(u) >= amount
  /\ exposure' = [exposure EXCEPT ![u] = @ + amount]
  /\ Post({Row("hold", key, u, -amount)})
  /\ UNCHANGED balance

\* Give a reservation back, clamping the exposure at zero.
ReleaseFunds(u, amount, key) ==
  /\ exposure' = [exposure EXCEPT ![u] = ReleasedExposure(u, amount)]
  /\ Post({Row("release", key, u, amount)})
  /\ UNCHANGED balance

\* The rows SettleBet posts: the commission only when there is one.
SettlementRows(u, key, pnl, fee) ==
  {Row("settlement", key, u, pnl)} \cup
  {row \in {Row("commission", key, u, -fee)} : fee > 0}

\* The column's CHECK (balance >= 0) fails a statement that would make the
\* balance negative: that of the P&L, then that of the commission.
Payable(u, pnl, fee) == balance[u] + pnl >= 0 /\ balance[u] + pnl - fee >= 0

\* Apply a bet's P&L and commission.
SettleBet(u, key, pnl, fee) ==
  /\ Payable(u, pnl, fee)
  /\ balance' = [balance EXCEPT ![u] = @ + pnl - fee]
  /\ Post(SettlementRows(u, key, pnl, fee))
  /\ UNCHANGED exposure

Deposit(u, amount, key) ==
  /\ balance' = [balance EXCEPT ![u] = @ + amount]
  /\ Post({Row("reference", key, u, amount)})
  /\ UNCHANGED exposure

Withdraw(u, amount, key) ==
  /\ amount > 0
  /\ Available(u) >= amount
  /\ balance' = [balance EXCEPT ![u] = @ - amount]
  /\ Post({Row("reference", key, u, -amount)})
  /\ UNCHANGED exposure

-----------------------------------------------------------------------------

Apply(r) ==
  \/ r.op = "hold" /\ HoldFunds(r.user, r.amount, r.key)
  \/ r.op = "release" /\ ReleaseFunds(r.user, r.amount, r.key)
  \/ r.op = "settle" /\ SettleBet(r.user, r.key, r.amount, r.fee)
  \/ r.op = "deposit" /\ Deposit(r.user, r.amount, r.key)
  \/ r.op = "withdraw" /\ Withdraw(r.user, r.amount, r.key)

AccountInit ==
  /\ balance = OpeningBalance
  /\ exposure = [u \in User |-> 0]
  /\ ledger = {}

AccountNext == \E r \in Requests : Apply(r)

AccountSpec == AccountInit /\ [][AccountNext]_accountVars
=============================================================================
