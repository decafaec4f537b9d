-------------------------------- MODULE Records --------------------------------
(***************************************************************************)
(* The records of the mock server's database and what the server tells of  *)
(* them: bets and their users (BetRecords), deposit accounts and requests  *)
(* (DepositRecords), what players, agents and masters are shown of these   *)
(* (DepositViews) and the reports about bets (Reports).  The four modules  *)
(* name code of the same files alike, so they are instances here, and what *)
(* they promise is stated in one place, for the run and for the proofs.    *)
(***************************************************************************)
EXTENDS Integers, FiniteSets

CONSTANTS
  Bettor, BettorOpening, Pick, Price, Stake, CommissionRate, Placer, RowReader,  \* of bets
  Clerk, DepositAmount, DepositLimit, Seeded,                \* of deposit requests
  Holder, HolderParent, NoHolder, Role, BankAccount, OwnerOf, Viewer,  \* of what is shown of them
  Staff, StaffParent, Overseer, Later, Kind, Event, SelectionsOf, Fancy,    \* of reports
  MaxRecordedBets, MaxSections, MaxSlipFaults,               \* bounds: of bets,
  MaxNumber, MaxAccounts, MaxFiled, LastDepositDay, MaxDepositFaults

\* Prices are at least one, limits and amounts are no debts, a bank account is of a user who
\* is no player, and a fancy market has one runner.
ASSUME RecordsAssumption ==
  /\ Price \subseteq Nat \ {0} /\ Stake \subseteq Nat /\ BettorOpening \in Int
  /\ CommissionRate \in Nat /\ MaxRecordedBets \in Nat
  /\ DepositAmount \subseteq Nat /\ DepositLimit \in Nat /\ Seeded \in 0..MaxNumber
  /\ MaxNumber \in Nat /\ MaxAccounts \in 0..MaxNumber /\ LastDepositDay \in Nat
  /\ MaxDepositFaults \in Nat
  /\ IsFiniteSet(Holder) /\ NoHolder \notin Holder /\ IsFiniteSet(BankAccount)
  /\ Role \in [Holder -> {"superadmin", "admin", "master", "agent", "client"}]
  /\ OwnerOf \in [BankAccount -> {u \in Holder : Role[u] # "client"}]
  /\ DOMAIN HolderParent \subseteq Holder
  /\ \A u \in DOMAIN HolderParent : HolderParent[u] \in Holder
  /\ Later \subseteq Staff
  /\ DOMAIN SelectionsOf = Event /\ \A e \in Event : 0 \notin SelectionsOf[e]
  /\ \A e \in Fancy : \E s \in SelectionsOf[e] : SelectionsOf[e] = {s}

\* Which of them a behaviour of MCRecords is of, while the others stand still; no module
\* here reads it, and it may have any value.
VARIABLE part

VARIABLES
  slipSlips, slipRows, slipPosted, account, accountRow, slipClosing, slipTodo, placed,
  placing, slipReading, sections, slipFaults, drifted, unsaved

VARIABLES
  accounts, accountRows, accountNumbers, recordRequests, requestRows, requestNumbers, usage,
  usageRows, recordFiled, desk, unsure, recordToday, recordFaults, recordRestarts

VARIABLES
  viewActive, viewUsed, viewFiled, viewRows, offer, walk, viewToday, viewFaults

VARIABLES
  panelUsers, panelBets, panelListed, panelClosing, panelWrites, panelPosted, panelAnswer

slipsVars ==
  <<slipSlips, slipRows, slipPosted, account, accountRow, slipClosing, slipTodo, placed,
    placing, slipReading, sections, slipFaults, drifted, unsaved>>
filingVars ==
  <<accounts, accountRows, accountNumbers, recordRequests, requestRows, requestNumbers,
    usage, usageRows, recordFiled, desk, unsure, recordToday, recordFaults, recordRestarts>>
viewsVars ==
  <<viewActive, viewUsed, viewFiled, viewRows, offer, walk, viewToday, viewFaults>>
panelVars ==
  <<panelUsers, panelBets, panelListed, panelClosing, panelWrites, panelPosted, panelAnswer>>

Slips == INSTANCE BetRecords WITH
  User <- Bettor, Opening <- BettorOpening, Selection <- Pick, Proc <- Placer,
  Reader <- RowReader, MaxBets <- MaxRecordedBets, MaxFaults <- MaxSlipFaults,
  slips <- slipSlips, posted <- slipPosted, closing <- slipClosing, todo <- slipTodo,
  reading <- slipReading, faults <- slipFaults

Filing == INSTANCE DepositRecords WITH
  Amount <- DepositAmount, DailyLimit <- DepositLimit, LastDay <- LastDepositDay,
  MaxFaults <- MaxDepositFaults,
  requests <- recordRequests, filed <- recordFiled, today <- recordToday, faults <-
  recordFaults, restarts <- recordRestarts

Views == INSTANCE DepositViews WITH
  User <- Holder, Parent <- HolderParent, NoUser <- NoHolder, Account <- BankAccount,
  DailyLimit <- DepositLimit, Amount <- DepositAmount, LastDay <- LastDepositDay,
  MaxFaults <- MaxDepositFaults,
  active <- viewActive, used <- viewUsed, filed <- viewFiled, rows <- viewRows,
  today <- viewToday, faults <- viewFaults

Panel == INSTANCE Reports WITH
  User <- Staff, Parent <- StaffParent, NoUser <- NoHolder, Superadmin <- Overseer,
  Market <- Event, MaxBets <- MaxRecordedBets,
  users <- panelUsers, bets <- panelBets, listed <- panelListed, closing <- panelClosing,
  writes <- panelWrites, posted <- panelPosted, answer <- panelAnswer

-----------------------------------------------------------------------------

\* Deposit accounts, requests and the day's totals under restarts and failed statements:
\* the limit, what rows tell, what is on file and the references given (deposit.go); what
\* players are offered, users are listed and the tree sums up of them; and the rows of
\* bets and their users (store.go, db.go).
RecordsHold ==
  /\ part = "filing" =>
       /\ Filing!RecordsTypeOK /\ Filing!ReceivedWithinLimit /\ Filing!RowsTell
       /\ Filing!FiledIsFound /\ Filing!ReferenceKept
  /\ part = "views" =>
       /\ Views!ViewsTypeOK /\ Views!OfferCanBeConfirmed /\ Views!ListsAgree
       /\ Views!TreeAddsUp
  /\ part = "slips" =>
       /\ Slips!BetRecordsTypeOK /\ Slips!ClosedOnce /\ Slips!ClosedIsPosted
       /\ Slips!HeldAsRecorded /\ Slips!ShownAsKept

\* What players are shown as their position, their ladder and their profit and loss is what
\* settlement pays them, and a report of the panel covers everyone below (main.go).
ShownAsPaid ==
  part \in {"positions", "panel"} =>
    /\ Panel!ReportsTypeOK /\ Panel!PositionIsPaid /\ Panel!LadderIsPaid
    /\ Panel!CountedAsPosted /\ Panel!ReportCovers

=============================================================================
