-------------------------------- MODULE Wallet --------------------------------
(***************************************************************************)
(* internal/wallet/service.go: HoldFunds, ReleaseFunds, SettleBet, Deposit *)
(* and Withdraw, called at any time by request handlers and by the outbox. *)
(*                                                                         *)
(* Each call is a SERIALIZABLE Postgres transaction on one row of          *)
(* auth.users:                                                             *)
(*   BeginTx, then the first statement takes the snapshot   Begin          *)
(*   SELECT ... FOR UPDATE (or the UPDATE) gets the row     LockRow,       *)
(*     ... finds too little money, or a CHECK fails         Refuse,        *)
(*     ... or finds the row newer than its snapshot         NotSerializable*)
(*   HINCRBYFLOAT of the Redis exposure, before the commit  TouchCache     *)
(*   COMMIT, or its failure and the Redis compensation      Commit,        *)
(*                                                          CommitFails    *)
(* and the gateway may die between any two of them          Crash          *)
(* What the transaction has written so far is its draft; nobody else sees  *)
(* it.  Row locks and snapshots are the database's, modelled from use.     *)
(***************************************************************************)
EXTENDS Integers, Functions

CONSTANTS
  User, Key, Requests, OpeningBalance,   \* as in Account
  Proc,          \* the goroutines that call the wallet
  NoProc,        \* holds the lock of an unlocked row
  MaxCalls,      \* bound: calls made in a behaviour
  MaxFaults      \* bound: Redis errors, failed commits and crashes

VARIABLES
  balance, exposure, ledger,   \* committed, as in Account
  version,    \* how often a user's row has been committed
  rowLock,    \* the goroutine whose transaction locks a user's row
  cache,      \* Redis: field "total" of the hash exposure:user:<id>
  tx,         \* each goroutine's transaction
  calls, faults,
  drifted,    \* history: users whose cache is known to have gone wrong
  reused      \* history: users with a commit whose reference was taken

Acc == INSTANCE Account

ASSUME WalletAssumption ==
  /\ Acc!AccountConstants
  /\ NoProc \notin Proc
  /\ MaxCalls \in Nat
  /\ MaxFaults \in Nat

vars == <<balance, exposure, ledger, version, rowLock, cache, tx, calls,
          faults, drifted, reused>>

dbVars == <<balance, exposure, ledger, version>>

\* A transaction: the step its call is at, the call, the version of the row
\* its snapshot saw and, once it has the row, the row as it will commit it.
NoTx == [at |-> "idle"]
Tx == [at : {"row", "cache", "commit"}, req : Requests, snapshot : Nat,
       balance : Int, exposure : Int]

usr(p) == tx[p].req.user
Reserves(r) == r.op \in {"hold", "release"}

\* What a call adds to the cached exposure.
CacheDelta(r) == IF r.op = "hold" THEN r.amount ELSE -r.amount

\* Mutant: the commission row forgotten.
RowsWithoutCommission(r) ==
  IF r.op = "settle" THEN {Acc!Row("settlement", r.key, r.user, r.amount)}
  ELSE {Acc!Row(IF Reserves(r) THEN r.op ELSE "reference", r.key, r.user,
                IF r.op \in {"hold", "withdraw"} THEN -r.amount ELSE r.amount)}

\* The ledger rows a call inserts: money reserved or paid out is negative.
RowsOf(r) ==
  IF r.op = "settle" THEN Acc!SettlementRows(r.user, r.key, r.amount, r.fee)
  ELSE {Acc!Row(IF Reserves(r) THEN r.op ELSE "reference", r.key, r.user,
                IF r.op \in {"hold", "withdraw"} THEN -r.amount ELSE r.amount)}

Init ==
  /\ Acc!AccountInit
  /\ version = [u \in User |-> 0]
  /\ rowLock = [u \in User |-> NoProc]
  /\ cache = [u \in User |-> 0]
  /\ tx = [p \in Proc |-> NoTx]
  /\ calls = 0 /\ faults = 0
  /\ drifted = {} /\ reused = {}

-----------------------------------------------------------------------------

\* A caller makes call r; Withdraw turns amounts that are not positive away
\* before it opens a transaction.
Begin(p, r) ==
  /\ tx[p] = NoTx /\ calls < MaxCalls
  /\ r.op = "withdraw" => r.amount > 0
  /\ tx' = [tx EXCEPT ![p] =
              [at |-> "row", req |-> r, snapshot |-> version[r.user],
               balance |-> 0, exposure |-> 0]]
  /\ calls' = calls + 1
  /\ UNCHANGED <<dbVars, rowLock, cache, faults, drifted, reused>>

\* Mutant: the balance tested instead of what is available of it.
AllowedOnBalance(r) ==
  /\ r.op \in {"hold", "withdraw"} => balance[r.user] >= r.amount
  /\ r.op = "settle" => balance[r.user] + r.amount - r.fee >= 0

\* The available-balance tests of HoldFunds and Withdraw, and the CHECK that
\* SettleBet's two UPDATEs meet.
Allowed(r) ==
  /\ r.op \in {"hold", "withdraw"} => Acc!Available(r.user) >= r.amount
  /\ r.op = "settle" => Acc!Payable(r.user, r.amount, r.fee)

\* The row as the transaction's UPDATEs leave it (a deposit has no fee).
NewBalance(r) ==
  IF r.op \in {"deposit", "settle"} THEN balance[r.user] + r.amount - r.fee
  ELSE IF r.op = "withdraw" THEN balance[r.user] - r.amount
  ELSE balance[r.user]

NewExposure(r) ==
  IF r.op = "hold" THEN exposure[r.user] + r.amount
  ELSE IF r.op = "release" THEN Acc!ReleasedExposure(r.user, r.amount)
  ELSE exposure[r.user]

At(p, step) == tx[p] # NoTx /\ tx[p].at = step
RowFree(p) == At(p, "row") /\ rowLock[usr(p)] = NoProc
SnapshotIsCurrent(p) == version[usr(p)] = tx[p].snapshot

\* Only HoldFunds and ReleaseFunds go to Redis.
Drafted(t) ==
  [at |-> IF Reserves(t.req) THEN "cache" ELSE "commit",
   req |-> t.req, snapshot |-> t.snapshot,
   balance |-> NewBalance(t.req), exposure |-> NewExposure(t.req)]

\* Mutant: a plain SELECT, without FOR UPDATE.
LockRowNotForUpdate(p) ==
  /\ At(p, "row") /\ Allowed(tx[p].req)
  /\ tx' = [tx EXCEPT ![p] = Drafted(tx[p])]
  /\ UNCHANGED <<dbVars, rowLock, cache, calls, faults, drifted, reused>>

LockRow(p) ==
  /\ RowFree(p) /\ SnapshotIsCurrent(p) /\ Allowed(tx[p].req)
  /\ rowLock' = [rowLock EXCEPT ![usr(p)] = p]
  /\ tx' = [tx EXCEPT ![p] = Drafted(tx[p])]
  /\ UNCHANGED <<dbVars, cache, calls, faults, drifted, reused>>

\* The call returns an error and its transaction is rolled back.
Abandon(p) ==
  /\ tx' = [tx EXCEPT ![p] = NoTx]
  /\ UNCHANGED <<dbVars, rowLock, cache, calls, faults, drifted, reused>>

Refuse(p) ==
  /\ RowFree(p) /\ SnapshotIsCurrent(p) /\ ~Allowed(tx[p].req)
  /\ Abandon(p)

NotSerializable(p) ==
  /\ RowFree(p) /\ ~SnapshotIsCurrent(p)
  /\ Abandon(p)

\* The increment of the Redis hash is best effort: an error is logged and the
\* transaction goes on.
TouchCache(p) ==
  /\ At(p, "cache")
  /\ tx' = [tx EXCEPT ![p].at = "commit"]
  /\ \/ /\ cache' = [cache EXCEPT ![usr(p)] = @ + CacheDelta(tx[p].req)]
        /\ UNCHANGED <<faults, drifted>>
     \/ /\ faults < MaxFaults /\ faults' = faults + 1
        /\ drifted' = drifted \cup {usr(p)}
        /\ UNCHANGED cache
  /\ UNCHANGED <<dbVars, rowLock, calls, reused>>

Clamps(r) == r.op = "release" /\ exposure[r.user] < r.amount

Commit(p) ==
  /\ At(p, "commit")
  /\ balance' = [balance EXCEPT ![usr(p)] = tx[p].balance]
  /\ exposure' = [exposure EXCEPT ![usr(p)] = tx[p].exposure]
  /\ Acc!Post(RowsOf(tx[p].req))
  /\ version' = [version EXCEPT ![usr(p)] = @ + 1]
  /\ rowLock' = [rowLock EXCEPT ![usr(p)] = NoProc]
  /\ tx' = [tx EXCEPT ![p] = NoTx]
  /\ drifted' = IF Clamps(tx[p].req) THEN drifted \cup {usr(p)} ELSE drifted
  /\ reused' = IF \E row \in RowsOf(tx[p].req) : Acc!IsPosted(row)
               THEN reused \cup {usr(p)} ELSE reused
  /\ UNCHANGED <<cache, calls, faults>>

\* Mutant: the failed commit forgets what it told Redis.
CommitFailsUncompensated(p) ==
  /\ At(p, "commit") /\ faults < MaxFaults
  /\ faults' = faults + 1
  /\ rowLock' = [rowLock EXCEPT ![usr(p)] = NoProc]
  /\ tx' = [tx EXCEPT ![p] = NoTx]
  /\ UNCHANGED <<dbVars, cache, calls, drifted, reused>>

\* The commit fails; the Redis increment is taken back, best effort.
CommitFails(p) ==
  /\ At(p, "commit") /\ faults < MaxFaults
  /\ faults' = faults + 1
  /\ rowLock' = [rowLock EXCEPT ![usr(p)] = NoProc]
  /\ tx' = [tx EXCEPT ![p] = NoTx]
  /\ \/ /\ Reserves(tx[p].req)
        /\ cache' = [cache EXCEPT ![usr(p)] = @ - CacheDelta(tx[p].req)]
        /\ UNCHANGED drifted
     \/ /\ Reserves(tx[p].req)
        /\ drifted' = drifted \cup {usr(p)}
        /\ UNCHANGED cache
     \/ ~Reserves(tx[p].req) /\ UNCHANGED <<cache, drifted>>
  /\ UNCHANGED <<dbVars, calls, reused>>

\* The gateway dies: Postgres rolls its transactions back, Redis keeps what
\* they incremented.
CrashedInFlight == {p \in Proc : At(p, "commit") /\ Reserves(tx[p].req)}

Crash ==
  /\ faults < MaxFaults /\ faults' = faults + 1
  /\ \E p \in Proc : tx[p] # NoTx
  /\ tx' = [p \in Proc |-> NoTx]
  /\ rowLock' = [u \in User |-> NoProc]
  /\ drifted' = drifted \cup {usr(p) : p \in CrashedInFlight}
  /\ UNCHANGED <<dbVars, cache, calls, reused>>

Step(p) ==
  \/ LockRow(p) \/ Refuse(p) \/ NotSerializable(p)
  \/ TouchCache(p) \/ Commit(p) \/ CommitFails(p)

Next ==
  \/ \E p \in Proc : \E r \in Requests : Begin(p, r)
  \/ \E p \in Proc : Step(p)
  \/ Crash

Spec == Init /\ [][Next]_vars

-----------------------------------------------------------------------------

\* Values of every variable: balance and exposure never go below zero, which
\* is what the CHECK constraints of auth.users ask of the code.
TypeOK ==
  /\ balance \in [User -> Nat]
  /\ exposure \in [User -> Nat]
  /\ ledger \subseteq Acc!LedgerRow
  /\ version \in [User -> Nat]
  /\ rowLock \in [User -> Proc \cup {NoProc}]
  /\ cache \in [User -> Int]
  /\ tx \in [Proc -> {NoTx} \cup Tx]
  /\ calls \in Nat
  /\ faults \in Nat
  /\ drifted \subseteq User
  /\ reused \subseteq User

\* The row locks, snapshots and drafts of concurrent transactions hide
\* behind the five atomic operations of Account: no update is lost, no check
\* is made on money that another call has taken by the time it counts.
ImplementsAccount == Acc!AccountSpec

\* HoldFunds and Withdraw only commit on money that is there at the commit:
\* a step that reserves money, or that pays money out under the reference of
\* a withdrawal, leaves the user's exposure covered by the balance.
NeverOvercommits ==
  [][\A u \in User :
       \/ exposure'[u] > exposure[u]
       \/ \E row \in ledger' \ ledger :
            row.user = u /\ row.kind = "reference" /\ row.amount < 0
       => exposure'[u] <= balance'[u]]_vars

\* The cached exposure differs from the row by exactly what the call holding
\* the row's lock has already sent to Redis, unless a Redis error, a crash
\* between the increment and the commit, or a clamped release made it drift.
InFlight(u) ==
  IF rowLock[u] # NoProc /\ tx[rowLock[u]].at = "commit"
       /\ Reserves(tx[rowLock[u]].req)
  THEN CacheDelta(tx[rowLock[u]].req) ELSE 0

CacheTracksExposure ==
  \A u \in User \ drifted : cache[u] = exposure[u] + InFlight(u)

RowsFor(u, kinds) == {row \in ledger : row.user = u /\ row.kind \in kinds}
Total(rows) == SumFunction([row \in rows |-> row.amount])

\* GetBalance and the statements read the ledger as the account's history:
\* whoever never reused a reference has the balance, and unless a release was
\* clamped the exposure, that the ledger's rows add up to.
LedgerExplainsAccount ==
  \A u \in User \ reused :
    /\ balance[u] = OpeningBalance[u]
                      + Total(RowsFor(u, {"settlement", "commission", "reference"}))
    /\ u \notin drifted => exposure[u] = -Total(RowsFor(u, {"hold", "release"}))

=============================================================================
