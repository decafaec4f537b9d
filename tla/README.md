# Lotus Exchange: TLA+ models, checks and proofs

This directory holds the formal models of the betting exchange in this
repository: TLA+ modules translated from the Go source, TLC configurations that
model-check them on small instances, and TLAPS proofs. `PROJECT.json` lists
every run, every mutant, every theorem, the source lines each definition
models, and the hazards of the code.

## 1. The system

The repository holds two servers that share a frontend and an HTTP API.

* The **gateway** (`cmd/gateway`, `internal/*`): Postgres is the state of
  record, Redis holds the order books, the tokens and a cache of exposures.
  Many requests run at once, and several gateways may run side by side.
* The **mock server** (`cmd/mockserver`): the same API over maps in memory under
  `Store.mu` and `DepositStore.mu`, with an optional database behind it.

### Inventory

| Component | State | Operations | What is hard | What makes it correct | Module |
|---|---|---|---|---|---|
| Wallet `internal/wallet` | `users.balance`, `users.exposure`, `ledger`, Redis `exposure:user:<id>` | HoldFunds, ReleaseFunds, SettleBet, Deposit, Withdraw | transactions on one row, Redis written before the commit, crashes | calls are atomic; nothing is committed on money that is gone | Wallet, Account |
| Settlement `internal/settlement` | `markets.status`, bets, `settlement_events` | SettleMarket, VoidMarket, RollbackSettlement, ProcessOutbox | several workers on one outbox, failures between its steps, paging over rows that change | events add up to profits; processed means applied; the outbox drains | Settlement |
| Market registry `internal/market`, `internal/admin` | `markets` | UpdateStatus, SyncFromProvider, admin handlers | no transitions are enforced | closed markets stay paid | Settlement |
| Matching `internal/matching` | Redis sorted sets, `market:suspended:<id>` | PlaceAndMatch (Lua), CancelOrder, Suspend/Resume | composite scores, scan then ZREM, funds held last | stake is conserved; price-time priority | MatchingEngine |
| Cash-out `internal/cashout` | `cashout_offers`, `bets` | GenerateOffer, AcceptOffer | races with settlement, rollbacks and other offers; wallet calls after the commit | an offer is paid once; a bet shows what was paid but for what an offer was written over | CashOut (EXTENDS Settlement) |
| Payments, casino, hierarchy `internal/{payment,casino,hierarchy}` | `payment_transactions`, `casino_sessions`, `casino_bets`, `users` | webhooks, withdrawals, rounds, TransferCredit | repeated deliveries; a crash between row and wallet | a round is settled once; money is explained | Cashier |
| Gateway sessions `internal/auth`, `internal/middleware` | `users`, Redis refresh tokens and blacklist | login, refresh, logout, change of password | GET before DEL; calls that fail; lifetimes | rotation gives no tokens away; a logout lasts as long as the token while Redis answers | Tokens |
| Responsible gambling, KYC `internal/{responsible,kyc}` | limits, exclusions, papers | UpdateLimits, SelfExclude, CheckBetAllowed, review | read, then write, in calls that overlap; exclusions that meet no row | an exclusion on record and an approval hold | SafePlay |
| Fraud `internal/fraud` | Redis sorted sets, profiles, alerts | AnalyzeBet | three commands that interleave | a burst is flagged | FraudWatch |
| Odds streams `internal/odds`, `/ws` | connections, goroutines, channels, `odds:market:X` | subscribe, cache, write, close | back-pressure, clients that go away | order kept; no goroutine left | OddsStream |
| Mock betting `cmd/mockserver/{main,store}.go` | users, bets, markets, runners | handlePlaceBet, settle, void, cash-out, withdraw, transfer | eleven checks under separate locks before a bet is placed | what was checked still holds; books balance | House |
| Mock records `{store,db}.go` | memory and the rows of users, bets, ledger | saves, reads back, restart | statements that fail, reads without a lock, restarts | memory and rows agree but for known gaps | Mirror, BetRecords |
| Mock deposits `deposit.go` | bank accounts, requests, usage | request, confirm, reject, list, tree | two locks in two orders; stale balances; numbers given twice | the daily limit; credited once; no deadlock | Deposits, DepositRecords, DepositViews |
| Mock sessions `{main,store,security}.go` | tokens, attempts, codes, blacklist, nonces, buckets | login, OTP, refresh, logout, replay guard, limiter | checks and counts under separate locks; clean-up loops | guesses bounded; a logout lasts a day; nonces once; the rate kept | Sessions, SessionPool, RateLimiter |
| Mock odds client `odds_api.go` | credits, caches, runners | tiered refresh, merge | a budget read from answers; runners renumbered | credits kept; a bet keeps its runner | OddsFeed, Runners |
| Mock notices and reports `{main,store}.go` | notifications, positions, ladders, reports | NotifyHierarchy, handlePnL, panel reports | two sections; fields read with no lock; numbers after a restart | everyone told once; shown is what is paid | Notices, Reports |
| Risk, reporting, audit, middleware headers, `pkg/*`, seed data, frontend | read models, logs | reads and appends | | no decision reads their state | none (section 5) |

Facts of the wiring that the models follow: the gateway never calls
`PersistOrder`, `ExpireOrders`, `SuspendMarket`, `ResumeMarket`,
`RollbackSettlement`, `AnalyzeBet` or `ShouldBlockBet`; the admin handlers suspend
and resume by `UpdateStatus` only; the cash-out, responsible-gambling, audit and KYC
services are not constructed by it. Services without a caller are modelled with calls
that come in any order.

## 2. The modules

    Account              what the wallet promises: five atomic operations
      ^  ^  ^
      |  |  +-- Cashier (Acc == INSTANCE Account)
      |  +----- Settlement (EXTENDS Account)
      |            ^-- CashOut (EXTENDS Settlement)
      +-------- Wallet (Acc == INSTANCE Account)

    SessionPool          what rotating refresh tokens promise
      ^-------- Sessions (Pool == INSTANCE SessionPool)

    MatchingEngine   OddsStream   Tokens   SafePlay   FraudWatch       gateway
    House   Deposits   Mirror   Notices                                mock server
    RateLimiter   OddsFeed   Runners
    BetRecords   DepositRecords   DepositViews   Reports
      ^-------- Records (one INSTANCE of each; RecordsHold and ShownAsPaid)

    MC<module>           instances for TLC. MCServices extends the small modules: Cashier,
                         RateLimiter, Tokens, OddsFeed, SafePlay, FraudWatch, Runners,
                         Notices, Mirror, and instances CashOut; MCRecords extends Deposits
                         and Records

    SumTheorems          sums over sets, for the proofs below
      ^-- WalletProofs        Wallet
      ^-- SettlementProofs    Settlement, CashOut
      ^-- HouseProofs         House
      ^-- RecordsProofs       Deposits, Records
      ^-- MarketProofs        MatchingEngine, OddsStream, Runners
      ^-- ServicesProofs      Cashier, RateLimiter, OddsFeed, Tokens, SafePlay, FraudWatch
      ^-- SessionsProofs      Sessions, Mirror, Notices

An action is a whole handler, or the part of it between two points where something else
may run: a lock given up, a statement or a Redis command of its own, a channel. Calls,
faults, restarts and the clock are bounded by constants named `Max...` or `Last...`.
Variables marked "history" are read by no guard.

### The gateway

**Account, Wallet.** `Account` is the abstract specification: `balance`, `exposure` and
`ledger` change in one step per call. `Wallet` is the code: each row's version and lock,
the Redis field, and for each goroutine its transaction. `Begin` takes the snapshot,
`LockRow` is `SELECT ... FOR UPDATE` and the statements after it, `Refuse` and
`NotSerializable` are the ways they fail, `TouchCache` is the Redis increment that
precedes the commit, `Commit` and `CommitFails` end the call and `Crash` ends all of
them. A commit maps to Account's call, every other step to a stutter. Row locks and
snapshots are Postgres's and are modelled from their use; only conflicts on the user's
row abort a transaction here. A reference posted twice is skipped in the ledger while the
account still changes, as in the code; `drifted` and `reused` name the users this has
happened to, and the properties speak of all others.

**Settlement.** One market with its bets. `SettleMarket`, `VoidMarket` and
`RollbackSettlement` are one action each, for their transaction locks the market's row
and is SERIALIZABLE. `Fetched` is the loop over batches with its growing OFFSET, a
recursive function. `ProcessOutbox` is cut at every database call (`Poll`,
`ReleaseStake`, `PayBet` or `CannotPay`, `Mark`), each with its error path. A worker is
the ticker of a gateway or the request of an administrator. `UpdateStatus` and
`SyncFromProvider` write the market's status without conditions, as coded. The column
`held_stake`, which the code uses and no migration creates, is taken to exist.

**CashOut.** Offers beside that settlement: `GenerateOffer`, `AcceptOffer` (a
transaction), and the wallet's calls after its commit, whose errors are dropped. It
extends Settlement and adds its actions to all of Settlement's, the rollback included,
which takes cashed-out bets back like any others. `AcceptOffer` does not look at the bet: it
writes its profit over whatever the row shows, of a bet settled, void or cashed out
already, and pays it on top. `covered` counts what was written over, so that
`CashOutHolds` says what remains true: profit and `covered` are what events and accepted
offers pay.

**Cashier.** Payments, casino rounds and transfers of credit over Account's operations,
each handler cut at its statements; `Fail` is a failed statement or a crash. `rivals` counts
the webhooks that had found a payment pending when another completed it: each of them
credits it again, as the code does, and `CreditedByOverlapOnly` says that no other does.
`unmade` counts the credits of a completed payment that a failure prevented, for good.

**MatchingEngine.** The book of one market. `Check` is the suspension test and the time
stamp, `Match` the Lua script (atomic in Redis), `Hold` the wallet call for what was not
matched, `Scan` and `Remove` the halves of a cancellation. The script's loop is stated
without a loop: `InRange`, `Ahead`, `Visited`, `Fill`.

**Tokens.** Rows of users, Redis keys with lifetimes, and requests cut at their calls,
each of which may fail (`Slip`). A bearer is a token of either lifetime, and a look-up
in the blacklist that fails lets it pass (`Passes`); `unanswered` counts such look-ups.
Only the token of the request is logged out, and no reuse revokes a family, against
`docs/API.md` lines 63 and 67. **OddsStream.** The goroutines of a connection and of its
subscriptions, two bounded channels each, the cache and the record of a user's
connection. **SafePlay**, **FraudWatch.** Calls cut at their statements and commands.
`SelfExclude` of a user without a row of limits changes no row and succeeds: `missed`
keeps such exclusions, which a check does not see. A submission of papers that read the
status before an approval writes over it: `late` keeps the approvals made meanwhile.

### The mock server

**House.** A bet or a withdrawal goes through its handler check by check, each reading
the store under a lock of its own; `Place` and `Hold` write under two more. Settlement,
void, cash-out, suspensions, the two feeds, transfers, new users and exclusions are one
section each. A withdrawal may be of a negative amount, which lowers the exposure, below
zero too. `issued` counts money that came from nowhere: opening balances, demo accounts
and the credit of a superadmin, which `CreateUser` gives without a parent who pays and
the registration route to whoever asks for the role. `drifted` names users with a bet
closed for another amount than it held (a lay away from odds of 2, a failed hold).

**Mirror** is the users in memory and their rows through failed inserts, reads without a
lock and restarts; **BetRecords** the bets, ledger and balances. A restart reads users
and not bets: bets stay "matched" in the table and their exposure stays held for ever.
**Reports** is what players and the panel are shown. `handlePnL` reads bets' fields with
no lock: settlement writes profit, then status, and cash-out status, then profit, so a bet
being cashed out may count as lost; on amd64 these orders are what a reader sees.

**Deposits** has the two read-write locks with Go's waiting writers; sections that take no
other lock are one action. **DepositRecords** has the rows, numbers and restarts,
**DepositViews** the lists, the accounts offered and the tree that `BuildTree` sums up one
user at a time, with the players' leaves, which come of today's confirmed requests and not
of the accounts. The usage of a day is counted in memory, and its table, which the
migration says the limit is enforced by, is never read: a restart lets an account take its
limit again. These two, BetRecords and Reports give code of the same files the same
names; **Records** takes an instance of each, with variables of its own, and states what
they promise together.

**Sessions** is a login in six sections, codes, refresh, logout, the blacklist, the
replay guard, the clean-up loop and a restart, which keeps the key and no map: whoever
holds a token that was logged out is let in again. So is the holder of a logged-out
refresh token after a day; `LogoutLasts` says when exactly. **SessionPool** its abstract
specification. **RateLimiter** is a token bucket per address and the loop that forgets
buckets. **OddsFeed** is the budget of the odds service, **Runners** the numbering of
its outcomes, **Notices** the notifications and their table.

## 3. The runs

| Run | Instance | Distinct states |
|---|---|---|
| wallet | 2 users, 2 goroutines, 4 calls of 8, 1 fault | 102 k |
| settlement | 2 bets (one matched in part, one lay), ticker and admin, 3 operations, 1 fault | 1.1 M |
| settlement_live | the same with a page of one row, 2 operations and a withdrawal | 51 k |
| matching | 4 orders at 3 prices of 2 users, 1 tick | 0.3 M |
| deposits | 1 player, 2 accounts, 2 deposits, 2 days, 2 goroutines, or (`part`) one of 5 instances of the records; accounts, goroutines and clerks symmetric | 1.9 M |
| house | agent, player, new user, demo account; 2 markets, 3 quotes; 2 requests of 6, 2 other operations | 3.0 M |
| sessions | 1 user, 2 goroutines, 4 requests, 1 restart, time to 3; goroutines symmetric | 3.0 M |
| odds_stream | 2 connections of one user, a subscription to 2 markets, channels of 1, 4 updates, 1 fault | 0.25 M |
| services | 10 instances of the small modules, one at a time; of CashOut 1 bet, 2 offers, 2 goroutines, 3 operations, 1 fault | 1.2 M |
| outbox_twice | no fault at all | violated: `AppliedAtMostOnce` |
| settle_batches | 3 bets, batch size 1 | violated: `ClosedMarketHasNoMatchedBets` |
| deposit_locks | 1 deposit | violated: `ConfirmNeverDeadlocks` |

What they show:

* wallet: the transactions implement the atomic account (`ImplementsAccount`); nothing is
  committed on money that is gone (`NeverOvercommits`); cache and ledger are explained
  (`CacheTracksExposure`, `LedgerExplainsAccount`).
* settlement: a bet's events add up to its profit, a processed event was applied, a closed
  market has no matched bet, a void bet stays void, through settle, roll back, settle again.
* settlement_live: every event is worked off, even behind one that cannot be paid
  (`OutboxDrains`).
* matching: `StakeAccounted` (no stake is lost or made between book, fills and
  cancellations) and `PriceTimePriority`.
* deposits: `UsageWithinLimit`, `NeverOverCredited` of Deposits, `RecordsHold` and
  `ShownAsPaid` of Records. They share no state, so a behaviour of the run is one of one
  of them; `part` says which. Reports is there twice, as "positions" and "panel": bets
  of one player on a match, and bets of everyone on a fancy market while users are
  created, each with the requests that are about it (the bound `Within`; no step but a
  request's own reads its answer, so nothing is lost by that). Records' two properties
  ask each module for its promises where `part` names it. What an account receives in a
  day is bounded by its limit once more for each restart of that day, and no better.
* house: `BooksBalance` (accounts against the platform's own revenue and what was issued),
  `ExposureIsWhatIsHeld` (no less than the holds, more only beside a negative withdrawal),
  `PricedAsAsked`, `HoldsOnlyWhatIsThere`, `ClosedBetsAreFinal`.
* sessions: `BoundedGuesses`, `LogoutLasts`, `NonceOncePerWindow`, and `PoolSpec`: Sessions
  implements SessionPool.
* odds_stream: `NothingLostOnTheWay`, `CacheNotBehindClient`, `OnRecordIsServed`, and
  `GoroutinesEnd` (liveness).
* services: `RoundsSettledOnce`, `CreditedByOverlapOnly` and `MoneyExplained` of
  Cashier, `RateKept` of RateLimiter, `TokensHold` of Tokens, `CreditsKept` of OddsFeed,
  `SafeguardsHold` of SafePlay, `BurstIsFlagged` of FraudWatch, `BetKeepsRunner` of
  Runners, `ToldOnce` of Notices, `MirrorAgrees` of Mirror, and `CashOutHolds` of
  CashOut: an offer is paid at most once, and a bet shows what was paid for it but for
  what an offer was written over. Here too `part` says which module a behaviour is of.
  With the code's own figures, a pause below 5 credits and up to five hot sports,
  `CreditsKept` bounds nothing: each sport of the initial load costs a credit that
  nobody checks for.

Each violated property is a statement the source makes, quoted under "findings" in
`PROJECT.json`.

**Why the bounds are enough.** Two goroutines and one fault give every pairwise race and
every single failure between two steps; one restart gives a process that starts on the
rows of another. Three market operations are settle, roll back (or resume), settle
again; two offers are accepted one after the other, before, between and after these. In
`settlement` the batch holds all bets, so that the properties are those of the
operations; `settle_batches` looks at paging alone. The four orders are two lays at one
price, a better one, and a back that takes several in part; scores and times are the
code's divided by 1000, which keeps the ratio of time to price they are about. Two
deposits exceed the daily limit together and not alone, and on the next day there is
room again. In `house` two bets, or a bet and a withdrawal of either sign, compete for
money while odds move by 0.02 and by more. In `sessions` a tick is longer than the
shortest period and shorter than the longest. Larger instances of Reports (22 M states),
BetRecords (32 M), DepositViews (5 M) and FraudWatch (1 M), too long for a regular run,
showed no violation as far as they went.

**Fairness** is assumed by two runs. `settlement_live`: weak fairness of `Work(t)` for each
ticker, the goroutine that `cmd/gateway/main.go` starts unconditionally and that runs
until shutdown. `odds_stream`: weak fairness of each step of the goroutines the handler and
the service start, for the Go scheduler runs a goroutine that can run and a `select` passes
none of its ready branches over for ever; nothing is assumed of clients, providers or
tickers. No fairness is assumed against faults.

**Deadlock checking** is off in all runs: calls are bounded, and when all are made the
system stops. The deadlock of locks is a property of its own, `ConfirmNeverDeadlocks`, and
the end of goroutines is `GoroutinesEnd`.

## 4. The proofs

All hold for every value of the constants that the named assumptions of the modules
allow (`AccountAssumption`, `WalletAssumption`, `SettlementAssumption`,
`CashierAssumption`, `HouseAssumption`, `DepositsAssumption`, `RecordsAssumption`,
`MirrorAssumption`, `NoticesAssumption`, `SessionsAssumption`, `MatchingAssumption`,
`StreamAssumption`, `RunnersAssumption`, `FeedAssumption`, `TokensAssumption`,
`SafeAssumption`, `FraudAssumption`; `LimiterConstants` is a hypothesis of its theorem).
They say what the constants are and nothing about behaviour: types, amounts that are not
negative, the order of the code's thresholds, who may own an account, and the finiteness
of a set where it is counted or summed over. TLC evaluates them in the runs. Besides
them, two theorems have a hypothesis on a bound of the code, named below:
`NoneLeftMatched` and `PriorityKept`.

* `SumTheorems`. A sum over a set is a fold, and a fold is a recursive function that
  `CHOOSE` picks, so its laws need induction, and the library's induction theorems take an
  operator, which the installed provers cannot instantiate. Here induction is by a least
  counterexample, on sets and not on operators: a nonempty set of finite sets has a
  smallest one (`LeastSubset`, from the theorems on cardinality), a nonempty set of numbers
  a least (`LeastNat`). From these: the fold there is one of, that it does not depend on the
  choice of elements, and the sum of a set with one element more or less, with one value
  changed, of a disjoint union, of a partition, of a sum of two functions.
* `WalletProofs`. `TypeOK` is not inductive, since a commit writes what the transaction
  drafted earlier. It is strengthened by: a transaction past `LockRow` holds the row's
  lock; whoever holds a lock is such a transaction; as long as it does, its draft is
  what its call makes of the row as it is now. `TypeCorrect`, `Solvency`
  (`NeverOvercommits`), `CacheFollows` (`CacheTracksExposure`) and `Refinement`
  (`ImplementsAccount`) follow. `LedgerExplains` (`LedgerExplainsAccount`): a commit
  adds at most one row to a finite ledger (`HistoryInv`), so the two sums over it change
  by what the row says.
* `SettlementProofs`. Types with what each worker knows: its rows are in the outbox, no
  event's id is above the number of operations, and at `settle` and `mark` with no error
  so far the event at hand has been released and, where it settles, paid. `TypeCorrect`,
  `ProcessedApplied` (`ProcessedWasApplied`), `VoidStaysVoid` (`VoidIsFinal`). `PayInv` adds
  the amounts: what the events of a bet pay is its profit, and a bet that is not settled
  shows none; `ProfitIsPaid` (`ProfitIsWhatItsEventsPay`). `NoneLeftMatched`
  (`ClosedMarketHasNoMatchedBets`) has the hypothesis `Cardinality(Bet) <= BatchSize`: a
  market whose bets fit one batch. Without it the property is false, and `settle_batches`
  shows how: the OFFSET of the second batch passes over rows that the first one took out
  of the query.
* `SettlementProofs`, cash-outs. `DealInv`: a goroutine that is about to release or pay
  an offer found it offered and accepted it, and it alone; one that is about to insert
  an offer inserts one that is not there. `OffersInv`: a bet that is not settled shows
  no profit. Whatever a settlement, a rollback or a batch writes of a bet goes into its
  row and its events alike (`PayingKeeps`, shared with `ProfitIsPaid`), an acceptance
  adds to `covered` what it writes over, and a goroutine's or a worker's other steps add
  nothing to either side. They rest on the invariant of the settlement. `CashOutsHold`
  (`CashOutHolds`).
* `HouseProofs`, in three layers, each resting on the one before. `Inv`: types; until
  the odds are checked a request carries the price asked for, from then on one within
  the allowed drift of it (`PriceInv`); the bet it will hold money for is on record
  (`RowInv`). `HoldingInv`: that bet holds nothing yet and no other request will hold
  for it, and the exposure of a user who has not drifted is no less than what the open
  bets and withdrawals hold, and more only beside a negative withdrawal: closing a bet
  takes its hold off the exposure or leaves zero, where the remaining holds are no more.
  `BookInv`: an open bet has paid nothing; there is no money, bet or request of a user
  who is not yet; and the accounts add up to what was issued, the profits outside the
  book and, with the other sign, what the platform took. `TypeCorrect`, `PricesHold`
  (`PricedAsAsked`), `ClosedStaysClosed` (`ClosedBetsAreFinal`), `ExposureKept`
  (`ExposureIsWhatIsHeld`), `HoldsCovered` (`HoldsOnlyWhatIsThere`), `BooksKept`
  (`BooksBalance`).
* `RecordsProofs`, Deposits. The first layer is the locks: who is announced to `ds` is there
  to write, `main` has one holder, a decision is about a request there is (`LockInv`,
  `IdsInv`); from it `TypeCorrect`. The second is the money (`MoneyInv`): an account's use
  of a day is the sum of what was confirmed on it that day, and what a player has, saved,
  in memory or in the hands of a goroutine that will write it back, is no more than what
  was confirmed for the player. `UsageKept` (`UsageWithinLimit`), `CreditKept`
  (`NeverOverCredited`).
* `RecordsProofs`, the rows: `RecordsKept` (`RecordsHold`) from `SlipsKept`,
  `FilingKept` and `ViewsKept`, which are of one specification each and do not mention
  `part`. DepositRecords: which request a row is of (`NumbersInv`); until a restart the
  process counts at least what the table does, and as long as they count alike nothing
  is filed over another (`AlikeInv`); what an account received in a day is a limit for
  each process that ended on that day and what this one counted (`ReceivedInv`); whoever
  opened a request after its reference came has read it (`ReadInv`). DepositViews: of a
  tree, users read and users to be read are in it, and whatever is directly below one
  read is one of these (`WalkReaches`); what was read and what those still to be read
  have now is, as long as the day lasts, no less than what all had when it began
  (`WalkAdds`). The tree is the least set closed under "directly below", so nothing is
  assumed of its shape or depth. What players paid today is no more than what the
  accounts received (`PaidInv`). BetRecords: a section's statements are about one bet
  and in the code's order (`TodoInv`); a bet has one closing, posted or still to be
  posted (`ClosingInv`); it is held for by one request (`PlacingInv`); a row is as the
  bet but for the statement still to run (`KeptInv`), and so is a user's exposure, whose
  sum over the rows needs to know which of two statements comes first (`HeldInv`).
* `RecordsProofs`, Reports: `ReportsKept` (`ShownAsPaid`) from `PanelKept`. What the process
  has written of a bet that ends is nothing, one of its two fields, or both, in the order of
  its writer (`WritesInv`); a bet no one is writing is settled with what was posted for it
  (`EndedInv`); and an answer under way holds of each bet it has read what the bet will ever
  pay, or was paid, or the one half-written value that a cash-out leaves (`AnswerInv`). Bets
  and users only come, and a posting stays, so what an answer has read stays true of the
  state.
* `SessionsProofs`. `LogoutHolds` (`LogoutLasts`), from: the entry of a token logged out
  ends a day after its last logout, and is there until then, unless a restart or the
  clean-up has dropped it; the clean-up drops none whose end is still to come.
  `NoncesOnce` (`NonceOncePerWindow`), from: a nonce whose window is open is still
  known. `PoolRefined` (`PoolSpec`), by counting the good tokens and those about to be
  issued. `GuessesBounded` (`BoundedGuesses`), from `GuessOK`: while the next bad
  password counts on from the last, the store's count is the number tried, a full count
  has locked the name for longer than that, and those tried and those past the check of
  the lock are together within the bound.
* `SessionsProofs`, what a restart meets. Mirror: until an insert fails and its number is
  lost, the table is numbered as memory is (`CountInv`), and what memory says of a user the
  row says, or a statement to come will make it say (`FollowInv`), but for the users known
  to be stale; `CopiesKept` (`MirrorAgrees`). Notices: of an event, everyone above its user
  has one row, or one request that has still to tell him, or is known to have lost it, and
  no one else has any (`PlaceInv`); the list a request works through names no one twice
  (`TellingInv`), which is a lemma about the walk up the hierarchy; numbers are given once
  in a process (`NumberInv`). `EveryoneTold` (`ToldOnce`).
* `MarketProofs`, the book. The script gives each order it visits what those ahead have
  left. That this adds up to what is wanted or to all there is (`Greedy`) is proved of any
  finite set and any line on it; that prices and times put the orders in a line is
  `OrderIsLine`. `StakeKept` (`StakeAccounted`) adds up both sides. `PriorityKept`
  (`PriceTimePriority`) has the hypothesis `Ticks < PriceUnit`: a score is a million for a
  hundredth of a price and one for a second, so an order that is a million seconds, 11.5
  days, younger at a better price comes second. The bound is tight.
* `MarketProofs`, the streams. What is on its way to a client is one sequence, cut in five
  by the client, the writer, a channel, the cacher and a channel: every step but the
  provider's moves a cut (`CutMoves`, `CutBack`), and the provider's adds the next number at
  the end (`WayInv`; `HandInv` says when a goroutine has an update in hand, `SendInv` that
  a tick is only begun where all of it has room under the bound). `UpdatesKept`
  (`NothingLostOnTheWay`). `CacheInv`: the cache is no older than anything the cacher has
  passed on, and what it is about to pass on it has offered. It rests on `WayInv`: what the
  cacher has in hand was sent later than all of that (`InHand`). `CacheFirst`
  (`CacheNotBehindClient`). `RecordInv` adds whose a connection on record is;
  `RecordServed` (`OnRecordIsServed`).
* `MarketProofs`, the runners. The client's list is sorted by name, and there is one
  sorted list of given names (`InOrderUnique`, by the first place where two would
  differ). So whoever has read the outcomes that are priced now has the list there is
  now (`RunnersInv`), and the number in the request is that of the runner it was read
  for: `RunnersKept` (`BetKeepsRunner`).
* `ServicesProofs`, Cashier. `SettlingInv`: whoever is about to settle a round put its
  row in `casino_bets`, is alone with it, and the round is not settled yet. `CreditInv`:
  while a payment is not completed nothing of it was credited, and from then on the
  webhooks that will credit it, those that have and those that failed are together those
  there were when it was completed. `TypeCorrect` (no balance below zero), `RoundsOnce`
  (`RoundsSettledOnce`), `CreditsCounted` (`CreditedByOverlapOnly`). `RowsInv`: a row on
  the ledger has been made by a step that is taken once, so a withdrawal about to be
  held finds its reference free (`RowsKept`); with that the sums of `MoneyExplained`
  follow (`MoneyKept`).
* `ServicesProofs`, RateLimiter, OddsFeed, Tokens. `RateIsKept` (`RateKept`) adds to
  what was let through since a time what may be spent now; a forgotten bucket gives
  nothing away because it was full. `CreditsAreKept` (`CreditsKept`): the credits the
  client believes to have are those there are and those of answers it did not get
  (`BeliefInv`), and `BudgetInv` counts what is still to come of the initial load, which
  asks nobody. `TokensAreKept` (`TokensHold`): a token logged out is over or on the
  blacklist (`BlacklistInv`), so that only a look-up without an answer lets it pass, and
  a rotation writes for the owner of the token it was given, so that it takes one key
  and puts one.
* `ServicesProofs`, SafePlay, FraudWatch. `ExclusionInv`: a row of limits says of an
  exclusion what its user wished last, unless that met no row, and a check under way has
  read what held when it began, so that no update which overlaps takes an exclusion
  away. `ApprovalInv`: papers that are approved while a submission is under way were
  approved during it. `SafeguardsKept` (`SafeguardsHold`). `FreqInv`: a bet that was
  added to the set is there for as long as nothing begun may remove it, so the last of
  an analysis' bets to be counted finds them all; `BurstsAreFlagged` (`BurstIsFlagged`).

All invariants of the passing runs, and the action properties, are stated by these theorems.
Only model-checked:

* liveness, `OutboxDrains` and `GoroutinesEnd`, which is out of TLAPS's reach;
* `ClosedMarketHasNoMatchedBets` beyond one batch and `PriceTimePriority` beyond 11.5 days,
  which do not hold there;
* what the three violated runs show, which is a behaviour and not a theorem.

## 5. Not modelled, and why

* `ExpireOrders` and `PersistOrder` have no caller; `RecoverOrders` runs at the gateway's
  start and finds no rows, for only `PersistOrder` writes them.
* Risk, reporting and audit of the gateway: queries and appends no decision reads.
  `IngestToClickHouse` copies the rows again at every call.
* Middleware headers and payload encryption, domain types, configuration, logging, metrics:
  stateless or pure I/O. Signatures, hashes and ciphers are taken as sound.
* `main()`, `runMigrations`, seed data, the loop that moves demo prices, the mock provider's
  random numbers, the mock casino's game lists, the text recogniser behind
  `handleExtractUTR`, the frontend.
* House leaves out the nonce (Sessions has it), field validation and the upper bound of a
  stake.
* Deposits leaves out who may decide on a request; DepositViews has the roles.
* DepositViews leaves out trees in which somebody is below himself or a superadmin below
  another, which `BuildTree` would read without end or twice. The panel (`main.go` line
  1955) creates users of a lower role than their parent's; the registration route (line 505)
  takes any role and parent, so there they are excluded by use and not by the code. Roles
  other than the five, which that route lets in as well, are left out.

Hazards that no property covers yet are in `PROJECT.json` with a note. Seen while
modelling and outside the list: `handleSettleMarket` (`main.go` line 1802) gives its read
lock up inside a range over the map of bets; the suspension key of `engine.go` line 220 is
read before the script runs; the UTR of a deposit (`deposit.go` line 1006) may be
overwritten; TransferCredit (`hierarchy/service.go` line 106) locks two rows in the order
of its arguments; `CheckSelfExclusion` (`auth/service.go` line 333) reads columns no
migration creates and lets the login go on; `mock.go` lines 502 and 698 share a random
source without a lock.

Where the code does not do what its documents or comments say, the properties name what
it does as an exception, and promise all the rest: a logout that ends with a restart,
after a day for a refresh token, or where Redis does not answer, and of one token only
(`docs/API.md:63`); a refresh token exchanged twice at once, and no family revoked for
it (lines 62, 67); a daily limit that starts again with the process
(`migrations/006_deposit_payment.sql:54`); an exclusion of a user without a row of
limits; an offer accepted for a bet that is settled, void or cashed out already; a
payment credited once for each webhook that found it pending; exposures that negative
withdrawals lower; credit from nowhere for superadmins. They are listed with their lines
under "hazards".

Disagreements between code and comments that an earlier version checked by runs of their
own, and that hold still: a crossed book after a lay and a back at one price meet in the
wrong order of scores, a cancellation that loses to a match, a refused hold that leaves the
order in the book, a deposit confirmed and its credit overwritten by `GetUser`. They are
instances of the hazards above, and their actions are in every run of their modules.

## 6. Plan

1. `MatchingEngine` with `PersistOrder` and `RecoverOrders`, should they get callers: no
   order is in the book twice, or with more than it has left.
2. House and BetRecords composed, so that a restart may come between two checks of a bet.
3. Rollback: a property that compares the accounts before a settlement and after its
   rollback, once `RollbackSettlement` has a caller.
