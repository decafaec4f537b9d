-------------------------------- MODULE Deposits --------------------------------
(***************************************************************************)
(* cmd/mockserver/deposit.go: players ask to deposit money on a bank       *)
(* account of their agent or master, who confirms or rejects it; what an   *)
(* account may receive in a day is limited.                                *)
(*                                                                         *)
(* Two read-write locks are involved: that of the users (Store.mu, "main") *)
(* and that of the deposits (DepositStore.mu, "ds").  Go's RWMutex lets no *)
(* further reader in once a writer is waiting, so a writer first announces *)
(* itself (Announce) and enters when the readers have left.  A section     *)
(* that takes no other lock is one action, so only two things are held     *)
(* across actions: ds by the readers that list accounts, main by           *)
(* ConfirmDeposit.  Main is also taken, with nothing else held, at the     *)
(* start and the end of most handlers; that only delays them.  The store   *)
(* has a database behind it; who may decide on a request, and what else    *)
(* changes a balance, is left out.                                         *)
(***************************************************************************)
EXTENDS Integers, Sequences, Functions

CONSTANTS
  Account,          \* the bank accounts, all active at first
  Player,
  Offers,           \* the accounts of each player's agent and master
  DailyLimit,       \* dailyLimitINR
  Amount,           \* what players deposit
  OpeningBalance,
  Proc, NoProc,     \* goroutines, and none
  MaxDeposits,      \* bound: requests made
  LastDay           \* bound: days

ASSUME DepositsAssumption ==
  /\ Offers \in [Player -> SUBSET Account]
  /\ DailyLimit \in Nat /\ Amount \subseteq 1..DailyLimit
  /\ OpeningBalance \in [Player -> Nat]
  /\ NoProc \notin Proc
  /\ MaxDeposits \in Nat /\ LastDay \in Nat

VARIABLES
  job,        \* what each goroutine is about to do
  dsWriter,   \* the goroutine that waits for ds as a writer
  active,     \* the accounts whose status is active
  used,       \* DailyUsage.TotalUsed of an account on a day
  deposits,   \* the deposit requests, by id
  balance,    \* User.Balance
  saved,      \* auth.users.balance in the database
  today

vars == <<job, dsWriter, active, used, deposits, balance, saved, today>>

Day == 0..LastDay

Deposit == [player : Player, account : Account, amount : Amount,
            status : {"pending", "confirmed", "rejected"},
            day : Day]    \* of CreatedAt, then of ConfirmedAt

Idle == [at |-> "idle"]

Job ==
  [at : {"select"}, player : Player, amount : Amount]
  \cup [at : {"create"}, player : Player, amount : Amount, account : Account]
  \cup [at : {"main", "confirm", "reject"}, id : Nat \ {0}]
  \cup [at : {"update"}, account : Account, status : BOOLEAN]
  \cup [at : {"list", "enrich", "owner"}, left : SUBSET Account]
  \cup [at : {"sync"}, player : Player, read : Nat]

\* The jobs that want ds as writers.
Writing == {"select", "create", "confirm", "reject", "update"}

Readers == {p \in Proc : job[p].at \in {"enrich", "owner"}}
MainHolders == {p \in Proc : job[p].at = "confirm"}

Does(p, j) == job' = [job EXCEPT ![p] = j]

Init ==
  /\ job = [p \in Proc |-> Idle]
  /\ dsWriter = NoProc
  /\ active = Account
  /\ used = [a \in Account |-> [d \in Day |-> 0]]
  /\ deposits = <<>>
  /\ balance = OpeningBalance
  /\ saved = OpeningBalance
  /\ today = 0

-----------------------------------------------------------------------------
\* Locks

Announce(p) ==
  /\ job[p].at \in Writing /\ dsWriter = NoProc
  /\ dsWriter' = p
  /\ UNCHANGED <<job, active, used, deposits, balance, saved, today>>

\* p has announced itself, and the readers have left: it does what it came
\* for, leaves, and goes on to j.
HasDs(p, at) == job[p].at = at /\ dsWriter = p /\ Readers = {}
Leaves(p, j) == dsWriter' = NoProc /\ Does(p, j)

\* A reader gets in when no writer is waiting.
CanRead == dsWriter = NoProc

\* ConfirmDeposit's first lock.
LockMain(p) ==
  /\ job[p].at = "main" /\ MainHolders = {}
  /\ Does(p, [job[p] EXCEPT !.at = "confirm"])
  /\ UNCHANGED <<dsWriter, active, used, deposits, balance, saved, today>>

-----------------------------------------------------------------------------
\* handleDepositRequest

Remaining(a) == DailyLimit - used[a][today]

\* The player leaves the choice of the account to the server, ...
Request(p, u, m) ==
  /\ job[p] = Idle
  /\ Does(p, [at |-> "select", player |-> u, amount |-> m])
  /\ UNCHANGED <<dsWriter, active, used, deposits, balance, saved, today>>

\* ... or picks an active one, whosever it is and whatever it has received.
RequestOn(p, u, m, a) ==
  /\ job[p] = Idle /\ CanRead
  /\ a \in active
  /\ Does(p, [at |-> "create", player |-> u, amount |-> m, account |-> a])
  /\ UNCHANGED <<dsWriter, active, used, deposits, balance, saved, today>>

\* The least used account that can take the amount.
SelectAvailableAccount(p) ==
  LET fits == {a \in active \cap Offers[job[p].player] : Remaining(a) >= job[p].amount}
  IN  /\ HasDs(p, "select")
      /\ IF fits = {} THEN Leaves(p, Idle)
         ELSE \E a \in fits :
                /\ \A b \in fits : Remaining(b) <= Remaining(a)
                /\ Leaves(p, [at |-> "create", player |-> job[p].player,
                              amount |-> job[p].amount, account |-> a])
      /\ UNCHANGED <<active, used, deposits, balance, saved, today>>

CreateDepositRequest(p) ==
  /\ HasDs(p, "create") /\ Len(deposits) < MaxDeposits
  /\ deposits' = Append(deposits,
       [player |-> job[p].player, account |-> job[p].account,
        amount |-> job[p].amount, status |-> "pending", day |-> today])
  /\ Leaves(p, Idle)
  /\ UNCHANGED <<active, used, balance, saved, today>>

-----------------------------------------------------------------------------
\* handleConfirmDeposit, handleRejectDeposit

Decide(p, d, at) ==
  /\ job[p] = Idle /\ d \in DOMAIN deposits
  /\ Does(p, [at |-> at, id |-> d])
  /\ UNCHANGED <<dsWriter, active, used, deposits, balance, saved, today>>

ConfirmableAlone(r) == r.status = "pending" /\ r.amount <= DailyLimit

Confirmable(r) == r.status = "pending" /\ used[r.account][today] + r.amount <= DailyLimit

\* The request, the account's use and the player's balance change together;
\* the balance only in memory.
ConfirmDeposit(p) ==
  LET d == job[p].id
      r == deposits[d]
  IN  /\ HasDs(p, "confirm")
      /\ IF Confirmable(r)
         THEN /\ deposits' = [deposits EXCEPT ![d].status = "confirmed", ![d].day = today]
              /\ used' = [used EXCEPT ![r.account][today] = @ + r.amount]
              /\ balance' = [balance EXCEPT ![r.player] = @ + r.amount]
         ELSE UNCHANGED <<deposits, used, balance>>
      /\ Leaves(p, Idle)
      /\ UNCHANGED <<active, saved, today>>

\* Mutant: a rejection that does not look whether the request is pending.
RejectAny(p) ==
  /\ HasDs(p, "reject")
  /\ deposits' = [deposits EXCEPT ![job[p].id].status = "rejected"]
  /\ Leaves(p, Idle)
  /\ UNCHANGED <<active, used, balance, saved, today>>

RejectDeposit(p) ==
  /\ HasDs(p, "reject")
  /\ deposits' = IF deposits[job[p].id].status # "pending" THEN deposits
                 ELSE [deposits EXCEPT ![job[p].id].status = "rejected", ![job[p].id].day = today]
  /\ Leaves(p, Idle)
  /\ UNCHANGED <<active, used, balance, saved, today>>

-----------------------------------------------------------------------------
\* Bank accounts

StartUpdate(p, a, s) ==
  /\ job[p] = Idle
  /\ Does(p, [at |-> "update", account |-> a, status |-> s])
  /\ UNCHANGED <<dsWriter, active, used, deposits, balance, saved, today>>

\* UpdateBankAccount, DeleteBankAccount: of the account only the status counts.
UpdateBankAccount(p) ==
  /\ HasDs(p, "update")
  /\ active' = IF job[p].status THEN active \cup {job[p].account}
                                ELSE active \ {job[p].account}
  /\ Leaves(p, Idle)
  /\ UNCHANGED <<used, deposits, balance, saved, today>>

\* GetBankAccountsForMaster, GetAllBankAccounts: with ds locked for reading
\* each account is enriched, which locks ds for reading again, and its owner
\* looked up in the main store.
StartList(p, accounts) ==
  /\ job[p] = Idle
  /\ Does(p, [at |-> "list", left |-> accounts])
  /\ UNCHANGED <<dsWriter, active, used, deposits, balance, saved, today>>

List(p) ==
  /\ job[p].at = "list" /\ CanRead
  /\ Does(p, IF job[p].left = {} THEN Idle ELSE [job[p] EXCEPT !.at = "enrich"])
  /\ UNCHANGED <<dsWriter, active, used, deposits, balance, saved, today>>

EnrichAccount(p) ==
  /\ job[p].at = "enrich" /\ CanRead
  /\ Does(p, [job[p] EXCEPT !.at = "owner"])
  /\ UNCHANGED <<dsWriter, active, used, deposits, balance, saved, today>>

LookUpOwner(p) ==
  /\ job[p].at = "owner" /\ MainHolders = {}
  /\ \E a \in job[p].left :
       Does(p, IF job[p].left = {a} THEN Idle
               ELSE [at |-> "enrich", left |-> job[p].left \ {a}])
  /\ UNCHANGED <<dsWriter, active, used, deposits, balance, saved, today>>

-----------------------------------------------------------------------------
\* The players' balances, by these handlers and most others

\* GetUser reads the balance in the database, without a lock; when the query
\* fails its error is dropped and the balance read is zero.
GetUser(p, u) ==
  /\ job[p] = Idle /\ MainHolders = {}
  /\ \E read \in {saved[u], 0} : Does(p, [at |-> "sync", player |-> u, read |-> read])
  /\ UNCHANGED <<dsWriter, active, used, deposits, balance, saved, today>>

\* What was read takes the place of the balance in memory, unless a confirmation
\* that adds to the old balance at this moment writes over it.
SyncBalance(p) ==
  /\ job[p].at = "sync"
  /\ \/ balance' = [balance EXCEPT ![job[p].player] = job[p].read]
     \/ MainHolders # {} /\ UNCHANGED balance
  /\ Does(p, Idle)
  /\ UNCHANGED <<dsWriter, active, used, deposits, saved, today>>

\* HoldFunds and ReleaseFunds write the balance in memory to the database.
SaveBalance(u) ==
  /\ MainHolders = {}
  /\ saved' = [saved EXCEPT ![u] = balance[u]]
  /\ UNCHANGED <<job, dsWriter, active, used, deposits, balance, today>>

NextDay ==
  /\ today < LastDay
  /\ today' = today + 1
  /\ UNCHANGED <<job, dsWriter, active, used, deposits, balance, saved>>

-----------------------------------------------------------------------------

Call(p) ==
  \/ \E u \in Player, m \in Amount :
       Request(p, u, m) \/ \E a \in Account : RequestOn(p, u, m, a)
  \/ \E d \in 1..MaxDeposits, at \in {"main", "reject"} : Decide(p, d, at)
  \/ \E a \in Account, s \in BOOLEAN : StartUpdate(p, a, s)
  \/ \E accounts \in SUBSET Account : StartList(p, accounts)
  \/ \E u \in Player : GetUser(p, u)

Step(p) ==
  \/ Announce(p) \/ LockMain(p)
  \/ SelectAvailableAccount(p) \/ CreateDepositRequest(p)
  \/ ConfirmDeposit(p) \/ RejectDeposit(p) \/ UpdateBankAccount(p)
  \/ List(p) \/ EnrichAccount(p) \/ LookUpOwner(p)
  \/ SyncBalance(p)

Next ==
  \/ \E p \in Proc : Call(p) \/ Step(p)
  \/ \E u \in Player : SaveBalance(u)
  \/ NextDay

Spec == Init /\ [][Next]_vars

-----------------------------------------------------------------------------

\* Values of every variable; ds is only waited for by goroutines that write,
\* and main is held by one confirmation at a time.
TypeOK ==
  /\ job \in [Proc -> {Idle} \cup Job]
  /\ dsWriter # NoProc => dsWriter \in Proc /\ job[dsWriter].at \in Writing
  /\ \A p, q \in MainHolders : p = q
  /\ active \subseteq Account
  /\ used \in [Account -> [Day -> Nat]]
  /\ deposits \in Seq(Deposit)
  /\ balance \in [Player -> Nat]
  /\ saved \in [Player -> Nat]
  /\ today \in Day

Total(ids) == SumFunction([d \in ids |-> deposits[d].amount])
Confirmed == {d \in DOMAIN deposits : deposits[d].status = "confirmed"}

\* Every variable has a value of its kind.  However often and on whatever days
\* requests on an account are confirmed and rejected side by side, its use of a
\* day is what was confirmed on that day, and within the limit, also for requests
\* made before it was used up.
UsageWithinLimit ==
  /\ TypeOK
  /\ \A a \in Account, day \in Day :
       /\ used[a][day] <= DailyLimit
       /\ used[a][day] = Total({d \in Confirmed : deposits[d].account = a /\ deposits[d].day = day})

Credited(u) == OpeningBalance[u] + Total({d \in Confirmed : deposits[d].player = u})

\* A player is never credited a deposit that is not confirmed, nor one twice:
\* not in memory, not in the database, and not by a stale balance read from
\* the one and about to be written to the other.
NeverOverCredited ==
  /\ \A u \in Player : balance[u] <= Credited(u) /\ saved[u] <= Credited(u)
  /\ \A p \in Proc : job[p].at = "sync" => job[p].read <= Credited(job[p].player)

\* Who waits for whom: a writer of ds for the writer before it or for the
\* readers, a reader for a writer, and both stores' callers for main's holder.
WaitsFor(p, q) ==
  \/ job[p].at \in Writing /\ dsWriter # p /\ q = dsWriter
  \/ job[p].at \in Writing /\ dsWriter = p /\ q \in Readers
  \/ job[p].at \in {"list", "enrich"} /\ q = dsWriter
  \/ job[p].at \in {"main", "owner"} /\ q \in MainHolders

\* "Lock both stores in consistent order ... (prevents deadlock)" (line 440):
\* a confirmation is never one of a circle of goroutines that wait for each
\* other.  (Violated.)
ConfirmNeverDeadlocks ==
  ~\E circle \in SUBSET Proc :
      /\ circle \cap MainHolders # {}
      /\ \A p \in circle : \E q \in circle : WaitsFor(p, q)
=============================================================================
