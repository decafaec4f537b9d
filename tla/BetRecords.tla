------------------------------ MODULE BetRecords ------------------------------
(***************************************************************************)
(* The bets of the mock server with a database behind it                   *)
(* (cmd/mockserver/store.go, db.go): one market's bets and their users in  *)
(* memory, the rows of betting.bets, betting.ledger and auth.users that    *)
(* follow them, and restarts, which read the users back and not the bets.  *)
(*                                                                         *)
(* A section under Store.mu changes memory and then runs its statements    *)
(* one by one; a failed one is logged and the section goes on.  GetUser    *)
(* and GetUserByUsername copy a user's row over the one in memory without  *)
(* the lock.  The checks of handlePlaceBet are in House; here a request    *)
(* has passed them, and others may come between it and its hold.           *)
(***************************************************************************)
EXTENDS Integers, Sequences, FiniteSets, Functions

CONSTANTS
  User, Opening,       \* a user's balance at the start
  Selection, Price, Stake, CommissionRate,
  Proc,                \* goroutines in handlePlaceBet
  Reader,              \* goroutines in GetUser
  MaxBets, MaxSections, MaxFaults   \* bounds

VARIABLES
  slips,       \* Store.bets
  slipRows,    \* betting.bets
  posted,      \* the references of betting.ledger, which are unique: [type, bet]
  account,     \* balance and exposure of Store.users
  accountRow,  \* of auth.users
  closing,     \* the market a section settles or voids, while it does
  todo,        \* the statements the holder of Store.mu has still to run
  placed,      \* how many bets were placed
  placing,     \* the bet each request has placed and not held for
  reading,     \* the row each reader has read
  sections, faults,
  drifted,     \* history: users whose exposure is known not to be what rows say
  unsaved      \* history: bets with a row or a posting known to be missing

recordVars == <<slips, slipRows, posted, account, accountRow, closing, todo, placed, placing,
                reading, sections, faults, drifted, unsaved>>

None == 0   \* no bet, no selection
NotClosing == [how |-> "none"]
NotReading == [user |-> "none"]
Id == 1..MaxBets
Bet == [user : User, selection : Selection, side : {"back", "lay"}, price : Price,
        stake : Stake, status : {"matched", "settled", "void"}, cashed : BOOLEAN]
NewBet == {b \in Bet : b.status = "matched" /\ ~b.cashed}
Funds == [balance : Int, exposure : Nat]

HoldAmount(b) == IF b.side = "back" THEN b.stake ELSE b.stake * (b.price - 1)
Available(u) == account[u].balance - account[u].exposure
Keep(f, id, x) == [i \in DOMAIN f \cup {id} |-> IF i = id THEN x ELSE f[i]]
Release(u, stake) == [account EXCEPT ![u].exposure = IF @ > stake THEN @ - stake ELSE 0]

InitRecords ==
  /\ slips = <<>> /\ slipRows = <<>> /\ posted = {}
  /\ account = [u \in User |-> [balance |-> Opening, exposure |-> 0]] /\ accountRow = account
  /\ closing = NotClosing /\ todo = <<>> /\ placed = 0 /\ placing = [p \in Proc |-> None]
  /\ reading = [r \in Reader |-> NotReading]
  /\ sections = 0 /\ faults = 0 /\ drifted = {} /\ unsaved = {}

\* The statements of db.go, each with the bet it is about.
SaveBet(id) == [do |-> "insert", bet |-> id]
UpdateBet(id) == [do |-> "update", bet |-> id]
AddLedger(type, id) == [do |-> "ledger", bet |-> id, type |-> type]
UpdateBalance(id) == [do |-> "balance", bet |-> id]

Locked == closing # NotClosing \/ todo # <<>>

\* A section takes Store.mu.
Section(statements) ==
  /\ ~Locked /\ sections < MaxSections
  /\ sections' = sections + 1 /\ todo' = statements
  /\ UNCHANGED <<slipRows, posted, accountRow, reading, faults>>

PlaceAndMatch(p, b) ==
  LET id == placed + 1 IN
  /\ placing[p] = None /\ id \in Id /\ Available(b.user) >= HoldAmount(b)
  /\ slips' = Keep(slips, id, b) /\ placed' = id /\ placing' = [placing EXCEPT ![p] = id]
  /\ Section(<<SaveBet(id)>>)
  /\ UNCHANGED <<account, closing, drifted, unsaved>>

HoldFunds(p) ==
  LET id == placing[p]
      b == slips[id]
  IN
  /\ id # None /\ Available(b.user) >= HoldAmount(b)
  /\ account' = [account EXCEPT ![b.user].exposure = @ + HoldAmount(b)]
  /\ placing' = [placing EXCEPT ![p] = None]
  /\ Section(<<AddLedger("hold", id), UpdateBalance(id)>>)
  /\ drifted' = IF b.status = "matched" THEN drifted ELSE drifted \cup {b.user}
  /\ UNCHANGED <<slips, closing, placed, unsaved>>

\* The money is gone by now: the request fails and its bet stays.
HoldFails(p) ==
  LET b == slips[placing[p]] IN
  /\ placing[p] # None /\ ~Locked /\ Available(b.user) < HoldAmount(b)
  /\ placing' = [placing EXCEPT ![p] = None] /\ drifted' = drifted \cup {b.user}
  /\ UNCHANGED <<slips, slipRows, posted, account, accountRow, closing, todo, placed,
                 reading, sections, faults, unsaved>>

\* SettleMarket and VoidMarket take the bets one after the other.  The winner is a
\* selection, or one that nobody has a bet on.
CloseMarket(how, winner) ==
  /\ Section(<<>>)
  /\ closing' = [how |-> how, winner |-> winner]
  /\ UNCHANGED <<slips, account, placed, placing, drifted, unsaved>>

\* The bets a section still finds, which are those in memory.
OpenSlips == {id \in DOMAIN slips : slips[id].status = "matched"}

Won(b) == (b.selection = closing.winner) = (b.side = "back")
Pnl(b) ==
  LET gain == b.stake * (b.price - 1) IN
  IF b.side = "back" THEN IF Won(b) THEN gain ELSE -b.stake
                     ELSE IF Won(b) THEN b.stake ELSE -gain
Commission(pnl) == IF pnl > 0 THEN (pnl * CommissionRate) \div 100 ELSE 0

\* What is written of a bet settled: ledger, bet, balance, in this order.
SettleStatements(id, fee) ==
  <<AddLedger("release", id), AddLedger("settlement", id)>>
    \o (IF fee > 0 THEN <<AddLedger("commission", id)>> ELSE <<>>)
    \o <<UpdateBet(id), UpdateBalance(id)>>

\* Stakes are released, whatever was held: a lay bet's user has another amount on hold.
ReleasedAsHeld(id) ==
  LET b == slips[id] IN
  IF HoldAmount(b) = b.stake /\ account[b.user].exposure >= b.stake /\ id \notin Range(placing)
  THEN drifted ELSE drifted \cup {b.user}

SettleBet(id) ==
  LET b == slips[id]
      fee == Commission(Pnl(b))
  IN
  /\ closing.how = "settle" /\ todo = <<>> /\ id \in OpenSlips
  /\ slips' = [slips EXCEPT ![id].status = "settled"]
  /\ account' = [Release(b.user, b.stake) EXCEPT ![b.user].balance = @ + Pnl(b) - fee]
  /\ todo' = SettleStatements(id, fee)
  /\ drifted' = ReleasedAsHeld(id)
  /\ UNCHANGED <<slipRows, posted, accountRow, closing, placed, placing, reading,
                 sections, faults, unsaved>>

VoidBet(id) ==
  LET b == slips[id] IN
  /\ closing.how = "void" /\ todo = <<>> /\ id \in OpenSlips
  /\ slips' = [slips EXCEPT ![id].status = "void"]
  /\ account' = Release(b.user, b.stake)
  /\ todo' = <<AddLedger("void", id), UpdateBalance(id), UpdateBet(id)>>
  /\ drifted' = ReleasedAsHeld(id)
  /\ UNCHANGED <<slipRows, posted, accountRow, closing, placed, placing, reading,
                 sections, faults, unsaved>>

AllClosed ==
  /\ closing # NotClosing /\ todo = <<>> /\ OpenSlips = {}
  /\ closing' = NotClosing
  /\ UNCHANGED <<slips, slipRows, posted, account, accountRow, todo, placed, placing,
                 reading, sections, faults, drifted, unsaved>>

\* A cash-out posts to the ledger and writes neither the bet nor the balance.
CashoutAccept(id) ==
  LET b == slips[id]
      worth == IF b.side = "back" THEN (b.stake * (b.price - 1) * 90) \div 100
                                  ELSE (b.stake * 95) \div 100
  IN
  /\ id \in OpenSlips
  /\ slips' = [slips EXCEPT ![id].status = "settled", ![id].cashed = TRUE]
  /\ account' = [Release(b.user, b.stake) EXCEPT ![b.user].balance = @ + worth]
  /\ Section(<<AddLedger("cashout-release", id), AddLedger("cashout", id)>>)
  /\ drifted' = drifted \cup {b.user} /\ unsaved' = unsaved \cup {id}
  /\ UNCHANGED <<closing, placed, placing>>

-----------------------------------------------------------------------------

\* An INSERT files a bet, an UPDATE changes the row there is.
Written(s) ==
  \/ /\ s.do = "insert" \/ (s.do = "update" /\ s.bet \in DOMAIN slipRows)
     /\ slipRows' = Keep(slipRows, s.bet, slips[s.bet]) /\ UNCHANGED <<posted, accountRow>>
  \/ /\ s.do = "update" /\ s.bet \notin DOMAIN slipRows
     /\ UNCHANGED <<slipRows, posted, accountRow>>
  \/ /\ s.do = "ledger" /\ posted' = posted \cup {[type |-> s.type, bet |-> s.bet]}
     /\ UNCHANGED <<slipRows, accountRow>>
  \/ /\ s.do = "balance"
     /\ LET u == slips[s.bet].user IN accountRow' = [accountRow EXCEPT ![u] = account[u]]
     /\ UNCHANGED <<slipRows, posted>>

Statement ==
  /\ todo # <<>> /\ todo' = Tail(todo) /\ Written(Head(todo))
  /\ UNCHANGED <<slips, account, closing, placed, placing, reading, sections, faults, drifted,
                 unsaved>>

StatementFails ==
  LET s == Head(todo) IN
  /\ todo # <<>> /\ todo' = Tail(todo)
  /\ faults < MaxFaults /\ faults' = faults + 1
  /\ drifted' = IF s.do = "ledger" THEN drifted ELSE drifted \cup {slips[s.bet].user}
  /\ unsaved' = IF s.do = "balance" THEN unsaved ELSE unsaved \cup {s.bet}
  /\ UNCHANGED <<slips, slipRows, posted, account, accountRow, closing, placed, placing,
                 reading, sections>>

ReadBalance(r, u) ==
  /\ reading[r] = NotReading
  /\ reading' = [reading EXCEPT ![r] = [user |-> u, row |-> accountRow[u]]]
  /\ UNCHANGED <<slips, slipRows, posted, account, accountRow, closing, todo, placed,
                 placing, sections, faults, drifted, unsaved>>

SyncBalance(r) ==
  LET u == reading[r].user IN
  /\ reading[r] # NotReading
  /\ account' = [account EXCEPT ![u] = reading[r].row]
  /\ reading' = [reading EXCEPT ![r] = NotReading]
  /\ drifted' = IF account[u].exposure = reading[r].row.exposure THEN drifted
                ELSE drifted \cup {u}
  /\ UNCHANGED <<slips, slipRows, posted, accountRow, closing, todo, placed, placing,
                 sections, faults, unsaved>>

\* Store.bets starts empty in every process.
NoBets == <<>>

\* A bet and its user's balance, of which a crash now would leave one written.
Unwritten(id) ==
  {s \in Range(todo) : s.bet = id /\ s.do # "ledger"}
    \cup {UpdateBalance(placing[p]) : p \in {q \in Proc : placing[q] = id}}
HalfWritten == {id \in DOMAIN slips : Cardinality(Unwritten(id)) = 1}

\* The process dies, wherever it is, and starts again.
Restart ==
  /\ faults < MaxFaults /\ faults' = faults + 1
  /\ drifted' = drifted \cup {slips[id].user : id \in HalfWritten}
  /\ slips' = NoBets /\ account' = accountRow
  /\ closing' = NotClosing /\ todo' = <<>> /\ placing' = [p \in Proc |-> None]
  /\ reading' = [r \in Reader |-> NotReading]
  /\ UNCHANGED <<slipRows, posted, accountRow, placed, sections, unsaved>>

RecordNext ==
  \/ \E p \in Proc : HoldFunds(p) \/ HoldFails(p) \/ \E b \in NewBet : PlaceAndMatch(p, b)
  \/ \E how \in {"settle", "void"}, winner \in Selection \cup {None} : CloseMarket(how, winner)
  \/ \E id \in Id : SettleBet(id) \/ VoidBet(id) \/ CashoutAccept(id)
  \/ AllClosed \/ Statement \/ StatementFails \/ Restart
  \/ \E r \in Reader : SyncBalance(r) \/ \E u \in User : ReadBalance(r, u)

RecordSpec == InitRecords /\ [][RecordNext]_recordVars

-----------------------------------------------------------------------------

\* GetUserBets, AllBets: with a database, the rows are what is shown.
Shown(u) == {id \in DOMAIN slipRows : slipRows[id].user = u}
ShownOpen(u) == {id \in Shown(u) : slipRows[id].status = "matched"}
RowHolds == [id \in DOMAIN slipRows |-> HoldAmount(slipRows[id])]

\* Values of every variable.
BetRecordsTypeOK ==
  /\ DOMAIN slips \subseteq Id /\ \A id \in DOMAIN slips : slips[id] \in Bet
  /\ DOMAIN slipRows \subseteq Id /\ \A id \in DOMAIN slipRows : slipRows[id] \in Bet
  /\ account \in [User -> Funds] /\ accountRow \in [User -> Funds]
  /\ placing \in [Proc -> {None} \cup Id] /\ drifted \subseteq User /\ unsaved \subseteq Id

\* Through restarts, which forget the bets, repeated settlements and cash-outs, no bet
\* closes twice in the ledger: settled, void and cashed out exclude one another.
ClosedOnce ==
  \A id \in Id :
    Cardinality({r \in posted : r.bet = id /\ r.type \in {"settlement", "void", "cashout"}}) <= 1

\* A bet whose row is closed has its closing in the ledger, wherever the process died.
ClosedIsPosted ==
  \A id \in DOMAIN slipRows \ unsaved :
    /\ slipRows[id].status = "settled" => [type |-> "settlement", bet |-> id] \in posted
    /\ slipRows[id].status = "void" => [type |-> "void", bet |-> id] \in posted

\* Between sections the exposure in a user's row is what the bets shown as open hold, also
\* those that a restart has forgotten and no settlement will find; but for users known to
\* have drifted: by a cash-out, a failed hold or statement, an older row read back, or a lay.
HeldAsRecorded ==
  ~Locked =>
    \A u \in User \ drifted :
      accountRow[u].exposure = SumFunctionOnSet(RowHolds, ShownOpen(u) \ Range(placing))

\* Between sections users are shown their bets as the server keeps them.
ShownAsKept ==
  ~Locked => \A id \in DOMAIN slips \ unsaved : id \in DOMAIN slipRows /\ slipRows[id] = slips[id]

=============================================================================
