-------------------------------- MODULE Reports --------------------------------
(***************************************************************************)
(* What the mock server answers about bets (cmd/mockserver/main.go,        *)
(* store.go), when no database is behind it: a player's position on a      *)
(* market, the ladder of a fancy market, a player's profit and loss, and   *)
(* the panel's reports on everyone below a user, while bets are placed,    *)
(* cashed out, settled and voided and users are created.                   *)
(*                                                                         *)
(* Positions and ladders are computed under Store.mu.  A report reads the  *)
(* users below in one section and the bets in another.  handlePnL reads    *)
(* the fields of bets with no lock, also while a settlement writes them;   *)
(* amd64, the platform of deployments/Dockerfile, shows it the writes in  *)
(* their order, and a status read in half is none of those it looks for,   *)
(* so the bet counts as open.  Money and checks are House's; dates, names, *)
(* pages and the cut of a report to its 50 latest rows are left out.       *)
(***************************************************************************)
EXTENDS Integers, Sequences, FiniteSets, Functions

CONSTANTS
  User, Parent, NoUser,   \* Parent: users below another -> who created them
  Superadmin, Later,      \* Later: those created in the panel while the server runs
  Kind,                   \* of a report: stats, pnl, volume, settlement or csv
  Market, SelectionsOf, Fancy,   \* a fancy market has one runner
  Price, Stake,
  Viewer,                 \* requests that read
  MaxBets                 \* bound

VARIABLES
  users,      \* Store.users
  bets,       \* Store.bets
  listed,     \* Store.runners: market -> its selections
  closing,    \* the market a settlement is at, while it holds Store.mu
  writes,     \* the fields of a bet the holder of Store.mu has still to write
  posted,     \* the ledger's settlement row of a bet: [how, winner, amount]
  answer      \* what each request has read

reportVars == <<users, bets, listed, closing, writes, posted, answer>>

NoWinner == 0
NotClosing == [market |-> "none", winner |-> NoWinner]
NoAnswer == [what |-> "none"]
Id == 1..MaxBets
Bet == [user : User, market : Market, selection : UNION {SelectionsOf[m] : m \in Market},
        side : {"back", "lay"}, price : Price, stake : Stake,
        status : {"matched", "settled", "void"}, profit : Int]

Gain(b) == b.stake * (b.price - 1)
Open(b) == b.status = "matched"
BetsOf(us) == {id \in DOMAIN bets : bets[id].user \in us}
OnMarket(u, m) == {id \in BetsOf({u}) : bets[id].market = m}

ReportsInit ==
  /\ users = User \ Later
  /\ bets = <<>> /\ posted = <<>>
  /\ listed = SelectionsOf
  /\ closing = NotClosing /\ writes = <<>>
  /\ answer = [v \in Viewer |-> NoAnswer]

Locked == closing # NotClosing \/ writes # <<>>

-----------------------------------------------------------------------------
\* Bets and their ends

\* handlePanelCreateUser: the creator is the parent.
CreateUser(u) ==
  /\ ~Locked /\ u \notin users /\ Parent[u] \in users
  /\ users' = users \cup {u}
  /\ UNCHANGED <<bets, listed, closing, writes, posted, answer>>

\* The selection was listed when the request checked it.
PlaceAndMatch(b) ==
  /\ ~Locked /\ Cardinality(DOMAIN bets) < MaxBets
  /\ b.user \in users /\ b.selection \in SelectionsOf[b.market] /\ Open(b) /\ b.profit = 0
  /\ bets' = Append(bets, b)
  /\ UNCHANGED <<users, listed, closing, writes, posted, answer>>

\* A refresh of the odds replaces the runners of a market.
MergeMarket(m, selections) ==
  /\ ~Locked /\ m \notin Fancy /\ selections # {}
  /\ listed' = [listed EXCEPT ![m] = selections]
  /\ UNCHANGED <<users, bets, closing, writes, posted, answer>>

\* Mutant: the status first.
StatusFirst == <<"status", "profit">>

\* The fields of a bet, as SettleMarket and handleCashoutAccept write them.
SettleOrder == <<"profit", "status">>
CashoutOrder == <<"status", "profit">>

\* The holder of Store.mu ends a bet, and posts what its user gets before commission.
End(id, order, how, winner, amount) ==
  /\ writes' = [k \in DOMAIN order |-> [bet |-> id, field |-> order[k]]]
  /\ posted' = [i \in DOMAIN posted \cup {id} |->
                  IF i = id THEN [how |-> how, winner |-> winner, amount |-> amount] ELSE posted[i]]

SettleMarket(m, winner) ==
  /\ ~Locked
  /\ closing' = [market |-> m, winner |-> winner]
  /\ UNCHANGED <<users, bets, listed, writes, posted, answer>>

Unsettled == {id \in DOMAIN bets : bets[id].market = closing.market /\ Open(bets[id])}

Pnl(b, winner) ==
  IF b.side = "back" THEN IF b.selection = winner THEN Gain(b) ELSE -b.stake
                     ELSE IF b.selection = winner THEN -Gain(b) ELSE b.stake

SettleBet(id) ==
  /\ writes = <<>> /\ id \in Unsettled
  /\ End(id, SettleOrder, "settle", closing.winner, Pnl(bets[id], closing.winner))
  /\ UNCHANGED <<users, bets, listed, closing, answer>>

AllSettled ==
  /\ closing # NotClosing /\ writes = <<>> /\ Unsettled = {}
  /\ closing' = NotClosing
  /\ UNCHANGED <<users, bets, listed, writes, posted, answer>>

VoidMarket(m) ==
  /\ ~Locked
  /\ bets' = [id \in DOMAIN bets |->
                IF bets[id].market = m /\ Open(bets[id])
                THEN [bets[id] EXCEPT !.status = "void"] ELSE bets[id]]
  /\ UNCHANGED <<users, listed, closing, writes, posted, answer>>

CashoutAccept(id) ==
  LET b == bets[id]
      worth == IF b.side = "back" THEN (Gain(b) * 90) \div 100 ELSE (b.stake * 95) \div 100
  IN
  /\ ~Locked /\ id \in DOMAIN bets /\ Open(b)
  /\ End(id, CashoutOrder, "cashout", NoWinner, worth)
  /\ UNCHANGED <<users, bets, listed, closing, answer>>

Write ==
  LET id == Head(writes).bet IN
  /\ writes # <<>> /\ writes' = Tail(writes)
  /\ bets' = IF Head(writes).field = "profit" THEN [bets EXCEPT ![id].profit = posted[id].amount]
             ELSE [bets EXCEPT ![id].status = "settled"]
  /\ UNCHANGED <<users, listed, closing, posted, answer>>

-----------------------------------------------------------------------------
\* Answers

Answer(v, a) ==
  /\ answer' = [answer EXCEPT ![v] = a]
  /\ UNCHANGED <<users, bets, listed, closing, writes, posted>>

\* The selections a bet on s wins or loses against.
Others(m, s) == listed[m] \ {s}

\* What a bet adds to the position on selection s.
Adds(b, s) ==
  LET gain == IF s = b.selection THEN Gain(b) ELSE 0
      loss == IF s \in Others(b.market, b.selection) THEN b.stake ELSE 0
  IN IF b.side = "back" THEN gain - loss ELSE loss - gain

UserPositions(v, u, m) ==
  LET counted == {id \in OnMarket(u, m) : Open(bets[id])}
      selections == listed[m] \cup {bets[id].selection : id \in counted}
  IN
  /\ ~Locked
  /\ Answer(v, [what |-> "positions", bets |-> counted, listed |-> listed[m],
                at |-> [s \in selections |->
                         SumFunctionOnSet([id \in counted |-> Adds(bets[id], s)], counted)]])

\* Bets that are over count as well, but for those void.
FancyPositions(v, u, m) ==
  LET counted == {id \in OnMarket(u, m) : bets[id].status # "void"}
      Signed(x, id) == IF bets[id].side = "back" THEN x ELSE -x
  IN
  /\ ~Locked /\ m \in Fancy
  /\ Answer(v, [what |-> "ladder", bets |-> counted, open |-> {id \in counted : Open(bets[id])},
                run |-> listed[m],
                yes |-> SumFunctionOnSet([id \in counted |-> Signed(Gain(bets[id]), id)], counted),
                no |-> -SumFunctionOnSet([id \in counted |-> Signed(bets[id].stake, id)], counted)])

\* handlePnL takes its bets under Store.mu,
GetUserBets(v, u) ==
  /\ ~Locked
  /\ Answer(v, [what |-> "pnl", left |-> BetsOf({u}), seen |-> <<>>])

\* and then reads one after the other.
CountBet(v, id) ==
  LET a == answer[v] IN
  /\ a.what = "pnl" /\ id \in a.left
  /\ Answer(v, [a EXCEPT
       !.left = @ \ {id},
       !.seen = [i \in DOMAIN @ \cup {id} |->
                   IF i = id THEN [status |-> bets[id].status, profit |-> bets[id].profit]
                             ELSE @[i]]])

Up(u) == IF u \in DOMAIN Parent THEN Parent[u] ELSE NoUser
GetDownlineUsers(p) == {u \in users : Up(u) = p \/ Up(Up(u)) = p \/ Up(Up(Up(u))) = p}

\* A panel user's report is about its own bets and those below, a superadmin's about all.
Known(p, below) == IF p \in Superadmin THEN DOMAIN bets ELSE BetsOf(below \cup {p})
Settled(ids) == {id \in ids : bets[id].status = "settled"}

\* GetDownlineStats knows neither the user's own bets nor the superadmin.
DownlineStats(below) == BetsOf(below)

Rows(kind, p, below) ==
  IF kind = "stats" THEN DownlineStats(below)
  ELSE IF kind = "settlement" THEN Settled(Known(p, below)) ELSE Known(p, below)

\* "had": history, what a report read at once would have.
ReadDownline(v, kind, p) ==
  /\ ~Locked /\ p \in users \ {u \in User : GetDownlineUsers(u) = {}}
  /\ Answer(v, [what |-> "downline", kind |-> kind, user |-> p, below |-> GetDownlineUsers(p),
                had |-> Rows(kind, p, GetDownlineUsers(p))])

PanelReport(v) ==
  LET a == answer[v]
      rows == Rows(a.kind, a.user, a.below)
  IN
  /\ ~Locked /\ a.what = "downline"
  /\ Answer(v, [what |-> "report", kind |-> a.kind, user |-> a.user, had |-> a.had,
                rows |-> rows, settled |-> Settled(rows),
                pnl |-> SumFunctionOnSet([id \in rows |-> bets[id].profit], Settled(rows))])

ReportsNext ==
  \/ \E u \in Later : CreateUser(u)
  \/ \E u \in users, m \in Market, s \in UNION {SelectionsOf[x] : x \in Market},
        side \in {"back", "lay"}, price \in Price, stake \in Stake :
       PlaceAndMatch([user |-> u, market |-> m, selection |-> s, side |-> side, price |-> price,
                      stake |-> stake, status |-> "matched", profit |-> 0])
  \/ \E m \in Market : \/ \E s \in SUBSET SelectionsOf[m] : MergeMarket(m, s)
                       \/ \E w \in SelectionsOf[m] \cup {NoWinner} : SettleMarket(m, w)
                       \/ VoidMarket(m)
  \/ \E id \in Id : SettleBet(id) \/ CashoutAccept(id)
  \/ AllSettled \/ Write
  \/ \E v \in Viewer :
       \/ \E u \in users : \/ GetUserBets(v, u)
                           \/ \E m \in Market : UserPositions(v, u, m) \/ FancyPositions(v, u, m)
                           \/ \E kind \in Kind : ReadDownline(v, kind, u)
       \/ PanelReport(v) \/ \E id \in Id : CountBet(v, id)

ReportsSpec == ReportsInit /\ [][ReportsNext]_reportVars

-----------------------------------------------------------------------------

\* Values of every variable.
ReportsTypeOK ==
  /\ users \subseteq User
  /\ DOMAIN bets \subseteq Id /\ \A id \in DOMAIN bets : bets[id] \in Bet
  /\ DOMAIN posted \subseteq DOMAIN bets /\ Len(writes) <= 2
  /\ \A m \in Market : listed[m] \subseteq SelectionsOf[m]

Answers(what) == {a \in {answer[v] : v \in Viewer} : a.what = what}

\* Every one of these bets was settled, with this winner.
SettledWith(w, ids) ==
  \A id \in ids : id \in DOMAIN posted /\ posted[id].how = "settle" /\ posted[id].winner = w
PaidOn(ids) == SumFunctionOnSet([id \in ids |-> posted[id].amount], ids)

\* The position a player was shown for a listed selection is what the bets it was made of
\* pay before commission when that selection wins, at whatever time the market is settled,
\* relisted or not.  Its other side: for a selection no longer listed it can be wrong.
PositionIsPaid ==
  \A a \in Answers("positions") :
    \A s \in a.listed : SettledWith(s, a.bets) => a.at[s] = PaidOn(a.bets)

\* So with the two halves of a fancy market's ladder, if no bet was over when it was shown.
LadderIsPaid ==
  \A a \in Answers("ladder") :
    a.bets = a.open =>
      /\ \A s \in a.run : SettledWith(s, a.bets) => a.yes = PaidOn(a.bets)
      /\ SettledWith(NoWinner, a.bets) => a.no = PaidOn(a.bets)

\* A bet that handlePnL counts as settled it counts with the amount posted, though it reads
\* with no lock; one being cashed out may count as lost, with no amount.
CountedAsPosted ==
  \A a \in Answers("pnl") : \A id \in DOMAIN a.seen :
    a.seen[id].status = "settled" =>
      \/ a.seen[id].profit = posted[id].amount
      \/ posted[id].how = "cashout" /\ a.seen[id].profit = 0

\* A report misses no bet that was there for it when the request came, counts none of a
\* user who is not below, and sums up what was posted.
ReportCovers ==
  \A a \in Answers("report") :
    /\ a.had \subseteq a.rows
    /\ a.rows \subseteq Rows("pnl", a.user, GetDownlineUsers(a.user))
    /\ a.pnl = PaidOn(a.settled)

=============================================================================
