----------------------------- MODULE DepositRecords -----------------------------
(***************************************************************************)
(* The records of cmd/mockserver/deposit.go with a database behind them.   *)
(* Bank accounts and requests are filed in memory under a number that the  *)
(* process counts, saved, and filed again under the number their row got;  *)
(* a request of a seeded account has no row, its account having none.      *)
(* What was received today is saved and never read back.  The locks and    *)
(* the players' balances are Deposits'; every section here holds ds.mu, so *)
(* it is one action, whose statements may fail one by one.                 *)
(***************************************************************************)
EXTENDS Integers, Sequences, Functions

CONSTANTS
  Clerk,         \* goroutines that serve requests
  Amount, DailyLimit,
  Seeded,        \* how many accounts seedBankAccounts makes
  MaxNumber,     \* bounds: numbers, accounts made by clerks,
  MaxAccounts, MaxFiled, \* requests filed,
  LastDay,       \*   days,
  MaxFaults      \*   statements that fail, and restarts

VARIABLES
  accounts,      \* DepositStore.bankAccounts: whether the account of a number is active
  accountRows,   \* betting.bank_accounts, likewise
  accountNumbers,\* what the process and the table counted up to
  requests,      \* DepositStore.depositRequests: which of "filed" has a number
  requestRows,   \* betting.deposit_requests: of which of them, and its status
  requestNumbers,
  usage,         \* DepositStore.dailyUsage, by account and day
  usageRows,     \* betting.daily_account_usage
  filed,         \* every request made
  desk,          \* what each goroutine has read and is about to do
  unsure,        \* history: the rows that a failed UPDATE left behind
  today, faults,
  restarts       \* history: how often the process started again on each day

recordVars == <<accounts, accountRows, accountNumbers, requests, requestRows, requestNumbers,
                usage, usageRows, filed, desk, unsure, today, faults, restarts>>
accountVars == <<accounts, accountRows, accountNumbers>>
requestVars == <<requests, requestRows, requestNumbers, filed, unsure>>
usageVars == <<usage, usageRows>>

Number == 1..MaxNumber
Day == 0..LastDay
Free == [at |-> "free"]

Seeds == [n \in 1..Seeded |-> TRUE]
Put(f, k, x) == [i \in DOMAIN f \cup {k} |-> IF i = k THEN x ELSE f[i]]
Drop(f, k) == [i \in DOMAIN f \ {k} |-> f[i]]
Used(totals, n, day) == IF <<n, day>> \in DOMAIN totals THEN totals[<<n, day>>] ELSE 0

RecordsInit ==
  /\ accounts = Seeds /\ accountRows = <<>> /\ accountNumbers = [memory |-> Seeded, table |-> 0]
  /\ requests = <<>> /\ requestRows = <<>> /\ requestNumbers = [memory |-> 0, table |-> 0]
  /\ usage = <<>> /\ usageRows = <<>>
  /\ filed = <<>> /\ desk = [p \in Clerk |-> Free] /\ unsure = {}
  /\ today = 0 /\ faults = 0 /\ restarts = [day \in Day |-> 0]

Goes(p, job) == desk' = [desk EXCEPT ![p] = job]
Has(p, at) == desk[p].at = at

\* n statements fail, or n times the process ends.
Fail(n) == faults + n <= MaxFaults /\ faults' = faults + n
Count(failed) == IF failed THEN 1 ELSE 0

\* An object is filed under the process's number, whatever is there, and moved to its
\* row's, whatever is there.
Refiled(f, temp, row, x) == Put(Drop(Put(f, temp, x), temp), row, x)

-----------------------------------------------------------------------------
\* Bank accounts

CreateBankAccount(saved) ==
  LET temp == accountNumbers.memory + 1
      row == accountNumbers.table + 1
  IN
  /\ temp \in Number /\ row <= MaxAccounts
  /\ Fail(Count(~saved))
  /\ accountNumbers' = [memory |-> temp, table |-> row]
  /\ IF saved THEN /\ accounts' = Refiled(accounts, temp, row, TRUE)
                   /\ accountRows' = Put(accountRows, row, TRUE)
     ELSE accounts' = Put(accounts, temp, TRUE) /\ UNCHANGED accountRows
  /\ UNCHANGED <<requestVars, usageVars, desk, today, restarts>>

\* UpdateBankAccount, DeleteBankAccount by the owner; an UPDATE that meets no row
\* changes none.
UpdateBankAccount(n, status, saved) ==
  /\ n \in DOMAIN accounts /\ accounts[n] # status
  /\ Fail(Count(~saved))
  /\ accounts' = [accounts EXCEPT ![n] = status]
  /\ accountRows' = IF saved /\ n \in DOMAIN accountRows
                    THEN [accountRows EXCEPT ![n] = status] ELSE accountRows
  /\ UNCHANGED <<accountNumbers, requestVars, usageVars, desk, today, restarts>>

-----------------------------------------------------------------------------
\* Requests

\* handleDepositRequest: an active account, chosen by the player or for him.
Request(p, n, amount) ==
  /\ Has(p, "free") /\ n \in DOMAIN accounts /\ accounts[n]
  /\ Goes(p, [at |-> "file", account |-> n, amount |-> amount])
  /\ UNCHANGED <<accountVars, requestVars, usageVars, today, faults, restarts>>

\* The row refers to its account's row; an INSERT that fails for it has used a number.
CreateDepositRequest(p, saved) ==
  LET temp == requestNumbers.memory + 1
      row == requestNumbers.table + 1
      known == desk[p].account \in DOMAIN accountRows
      s == Len(filed) + 1
  IN
  /\ Has(p, "file") /\ s <= MaxFiled /\ {temp, row} \subseteq Number
  /\ saved => known
  /\ Fail(Count(known /\ ~saved))
  /\ \/ requestNumbers' = [memory |-> temp, table |-> row]
     \/ known /\ ~saved /\ requestNumbers' = [requestNumbers EXCEPT !.memory = temp]
  /\ filed' = Append(filed, [id |-> IF saved THEN row ELSE temp, saved |-> saved,
                             account |-> desk[p].account, amount |-> desk[p].amount,
                             status |-> "pending", day |-> today,
                             reference |-> FALSE, given |-> FALSE, late |-> FALSE])
  /\ IF saved THEN /\ requests' = Refiled(requests, temp, row, s)
                   /\ requestRows' = Put(requestRows, row, [of |-> s, status |-> "pending"])
     ELSE requests' = Put(requests, temp, s) /\ UNCHANGED requestRows
  /\ Goes(p, [at |-> "attach", request |-> s])
  /\ UNCHANGED <<accountVars, usageVars, unsure, today, restarts>>

\* The player's bank reference, in a section of its own and in memory only.
AttachUTR(p) ==
  LET s == desk[p].request
      opened == \E q \in Clerk : Has(q, "confirm") /\ desk[q].id = filed[s].id
  IN
  /\ Has(p, "attach")
  /\ filed' = [filed EXCEPT ![s].reference = TRUE, ![s].given = TRUE,
                            ![s].late = opened \/ filed[s].status # "pending"]
  /\ Goes(p, Free)
  /\ UNCHANGED <<accountVars, requests, requestRows, requestNumbers, unsure, usageVars, today,
                 faults, restarts>>

NoUTR(p) ==
  /\ Has(p, "attach") /\ Goes(p, Free)
  /\ UNCHANGED <<accountVars, requestVars, usageVars, today, faults, restarts>>

\* GetDepositRequests: what memory has, or the rows where it has nothing.
Listed ==
  IF requests # <<>> THEN DOMAIN requests ELSE DOMAIN requestRows

\* handleConfirmDeposit reads the reference first.
OpenDeposit(p, n) ==
  /\ Has(p, "free") /\ n \in Listed
  /\ Goes(p, [at |-> "confirm", id |-> n,
              reference |-> n \in DOMAIN requests /\ filed[requests[n]].reference])
  /\ UNCHANGED <<accountVars, requestVars, usageVars, today, faults, restarts>>

\* Mutant: the request's amount alone is compared.
FitsAlone(r) == r.amount <= DailyLimit

Fits(r) == Used(usage, r.account, today) + r.amount <= DailyLimit

Confirmable(n) ==
  /\ n \in DOMAIN requests
  /\ LET r == filed[requests[n]]
     IN  r.status = "pending" /\ r.account \in DOMAIN accounts /\ Fits(r)

\* The statements of a decision on request r, known by its number.
SaveDecision(r, status, saved) ==
  /\ requestRows' = IF saved /\ r.id \in DOMAIN requestRows
                    THEN [requestRows EXCEPT ![r.id].status = status] ELSE requestRows
  /\ unsure' = IF saved THEN unsure ELSE unsure \cup {r.id}

ConfirmDeposit(p, saved, counted) ==
  LET n == desk[p].id
      s == requests[n]
      r == filed[s]
      total == Used(usage, r.account, today) + r.amount
      key == <<r.account, today>>
      known == r.account \in DOMAIN accountRows
  IN
  /\ Has(p, "confirm") /\ Confirmable(n)
  /\ counted => known
  /\ Fail(Count(~saved) + Count(known /\ ~counted))
  /\ usage' = Put(usage, key, total)
  /\ filed' = [filed EXCEPT ![s].status = "confirmed", ![s].day = today,
                            ![s].reference = desk[p].reference]
  /\ SaveDecision(r, "confirmed", saved)
  /\ usageRows' = IF counted THEN Put(usageRows, key, total) ELSE usageRows
  /\ Goes(p, Free)
  /\ UNCHANGED <<accountVars, requests, requestNumbers, today, restarts>>

NotConfirmed(p) ==
  /\ Has(p, "confirm") /\ ~Confirmable(desk[p].id) /\ Goes(p, Free)
  /\ UNCHANGED <<accountVars, requestVars, usageVars, today, faults, restarts>>

RejectDeposit(n, saved) ==
  /\ n \in DOMAIN requests /\ filed[requests[n]].status = "pending"
  /\ Fail(Count(~saved))
  /\ filed' = [filed EXCEPT ![requests[n]].status = "rejected"]
  /\ SaveDecision(filed[requests[n]], "rejected", saved)
  /\ UNCHANGED <<accountVars, requests, requestNumbers, usageVars, desk, today, restarts>>

-----------------------------------------------------------------------------

NextDay ==
  /\ today < LastDay /\ today' = today + 1
  /\ UNCHANGED <<accountVars, requestVars, usageVars, desk, faults, restarts>>

\* The process starts again: with the seeded accounts, and nothing of the tables.
Restart ==
  /\ Fail(1) /\ restarts' = [restarts EXCEPT ![today] = @ + 1]
  /\ accounts' = Seeds /\ accountNumbers' = [accountNumbers EXCEPT !.memory = Seeded]
  /\ requests' = <<>> /\ requestNumbers' = [requestNumbers EXCEPT !.memory = 0]
  /\ usage' = <<>> /\ desk' = [p \in Clerk |-> Free]
  /\ UNCHANGED <<accountRows, requestRows, usageRows, filed, unsure, today>>

RecordsNext ==
  \/ \E saved \in BOOLEAN :
       \/ CreateBankAccount(saved)
       \/ \E n \in Number, status \in BOOLEAN : UpdateBankAccount(n, status, saved)
       \/ \E p \in Clerk : CreateDepositRequest(p, saved)
       \/ \E p \in Clerk, counted \in BOOLEAN : ConfirmDeposit(p, saved, counted)
       \/ \E n \in Number : RejectDeposit(n, saved)
  \/ \E p \in Clerk :
       \/ \E n \in Number, amount \in Amount : Request(p, n, amount)
       \/ AttachUTR(p) \/ NoUTR(p) \/ NotConfirmed(p)
       \/ \E n \in Number : OpenDeposit(p, n)
  \/ NextDay \/ Restart

RecordsSpec == RecordsInit /\ [][RecordsNext]_recordVars

-----------------------------------------------------------------------------

Totals == [Number \X Day -> Nat]
Status == {"pending", "confirmed", "rejected"}
Counters == [memory : 0..MaxNumber, table : 0..MaxNumber]

\* Values of every variable; a request in memory is filed under its own number.
RecordsTypeOK ==
  /\ \A f \in {accounts, accountRows} : DOMAIN f \subseteq Number /\ \A n \in DOMAIN f : f[n] \in BOOLEAN
  /\ accountNumbers \in Counters /\ requestNumbers \in Counters
  /\ filed \in Seq([id : Number, saved : BOOLEAN, account : Number, amount : Amount,
                    status : Status, day : Day, reference : BOOLEAN, given : BOOLEAN, late : BOOLEAN])
  /\ DOMAIN requests \subseteq Number /\ \A n \in DOMAIN requests : filed[requests[n]].id = n
  /\ DOMAIN requestRows \subseteq Number
  /\ \A n \in DOMAIN requestRows : requestRows[n] \in [of : DOMAIN filed, status : Status]
  /\ \A f \in {usage, usageRows} :
       DOMAIN f \subseteq Number \X Day /\ \A k \in DOMAIN f : f[k] \in 0..DailyLimit
  /\ unsure \subseteq Number /\ today \in Day
  /\ faults \in 0..MaxFaults /\ restarts \in [Day -> Nat]

ConfirmedOn(n, day) ==
  {s \in DOMAIN filed : /\ filed[s].status = "confirmed"
                        /\ filed[s].account = n /\ filed[s].day = day}
Amounts == [s \in DOMAIN filed |-> filed[s].amount]
Received(n, day) == SumFunctionOnSet(Amounts, ConfirmedOn(n, day))

\* However requests and failed statements fall, an account receives in a day no more than
\* its limit, and no more than the limit once more for each restart on that very day: the
\* limit is kept by what is in memory alone, though migrations/006 says of the table of the
\* day's totals that it is used to enforce it.
ReceivedWithinLimit ==
  \A n \in Number, day \in Day : Received(n, day) <= DailyLimit * (1 + restarts[day])

\* A row tells what was decided on its request, unless an UPDATE failed or a request
\* that has no row was decided under the same number.
RowsTell ==
  \A n \in DOMAIN requestRows :
    \/ requestRows[n].status = filed[requestRows[n].of].status
    \/ n \in unsure
    \/ \E s \in DOMAIN filed : ~filed[s].saved /\ filed[s].id = n /\ filed[s].status # "pending"

\* A request is in memory from when it is filed until the process ends, as long as the
\* process and the table count alike.
FiledIsFound ==
  requestNumbers.memory = requestNumbers.table /\ (\A day \in Day : restarts[day] = 0)
  => \A s \in DOMAIN filed : filed[s].id \in DOMAIN requests /\ requests[filed[s].id] = s

\* A reference attached before an agent opens the request is there when it is confirmed.
ReferenceKept ==
  \A s \in DOMAIN filed : filed[s].given /\ ~filed[s].late => filed[s].reference

=============================================================================
