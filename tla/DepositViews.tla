------------------------------ MODULE DepositViews ------------------------------
(***************************************************************************)
(* What cmd/mockserver/deposit.go shows of accounts and requests: the      *)
(* accounts offered to a player, the requests a user may see, from memory  *)
(* or from the table, and the tree of the users below one with the day's   *)
(* sums, which BuildTree reads one user at a time with the lock released   *)
(* in between.  How rows get their numbers, and restarts, are              *)
(* DepositRecords'; every section holds ds.mu, so it is one action.        *)
(***************************************************************************)
EXTENDS Integers, Sequences, FiniteSets, Functions

CONSTANTS
  User, Parent, NoUser,  \* Parent: users below another -> who that is
  Role,                  \* of a user: superadmin, admin, master, agent or client
  Account, OwnerOf, DailyLimit, Amount,
  Viewer,                \* requests for the tree
  MaxFiled, LastDay, MaxFaults   \* bounds

VARIABLES
  active,     \* accounts whose status is active
  used,       \* DailyUsage.TotalUsed of today
  filed,      \* the requests in memory
  rows,       \* betting.deposit_requests: request -> status
  offer,      \* what each player was offered last
  walk,       \* what each viewer's BuildTree has read, and has still to read
  today, faults

viewVars == <<active, used, filed, rows, offer, walk, today, faults>>

Up(u) == IF u \in DOMAIN Parent THEN Parent[u] ELSE NoUser
Children(u) == {v \in DOMAIN Parent : Parent[v] = u}
Clients == {u \in User : Role[u] = "client"}
Owned(u) == {x \in Account : OwnerOf[x] = u}

\* The orders in which a map can be read.
Orders(xs) == {order \in [1..Cardinality(xs) -> xs] : Range(order) = xs}

UsedOf(xs) == SumFunctionOnSet(used, xs)

\* The requests of today that were confirmed, and what a player paid with them.
Amounts == [s \in DOMAIN filed |-> filed[s].amount]
PaidToday == {s \in DOMAIN filed : filed[s].fresh /\ filed[s].status = "confirmed"}
Paid(c) == SumFunctionOnSet(Amounts, {s \in PaidToday : filed[s].player = c})
Remaining(x) == DailyLimit - used[x]

Unread == [todo |-> <<>>, nodes |-> <<>>, began |-> 0, day |-> 0]

ViewsInit ==
  /\ active = Account /\ used = [x \in Account |-> 0]
  /\ filed = <<>> /\ rows = <<>>
  /\ offer = [c \in Clients |-> <<>>]
  /\ walk = [p \in Viewer |-> Unread]
  /\ today = 0 /\ faults = 0

Fail(failed) == IF failed THEN faults < MaxFaults /\ faults' = faults + 1 ELSE UNCHANGED faults

-----------------------------------------------------------------------------
\* Offers and requests

CanTake(x, amount) == Remaining(x) >= amount

\* handleAvailableAccounts: of the three above the player, the two accounts that have the
\* most left and can take the amount.
AvailableAccounts(c, amount) ==
  LET owners == {Up(c), Up(Up(c)), Up(Up(Up(c)))} \ {NoUser}
      fits == {x \in active : OwnerOf[x] \in owners /\ CanTake(x, amount)}
  IN
  /\ \E best \in SUBSET fits :
       /\ Cardinality(best) = IF Cardinality(fits) < 2 THEN Cardinality(fits) ELSE 2
       /\ \A x \in best, y \in fits \ best : Remaining(y) <= Remaining(x)
       /\ offer' = [offer EXCEPT ![c] = [x \in best |-> [amount |-> amount, used |-> used[x]]]]
  /\ UNCHANGED <<active, used, filed, rows, walk, today, faults>>

\* handleDepositRequest of a player who picks from the offer; the account was active when
\* it was looked up.  The agent and the master are the next two above.  CreatedAt is by the
\* server's clock and the day by India's; a clock that is not ahead of India's gives the
\* request the date of the day (dated), or that of the day before.
DepositRequest(c, x, saved, dated) ==
  /\ Len(filed) < MaxFiled /\ x \in DOMAIN offer[c]
  /\ Fail(~saved)
  /\ filed' = Append(filed, [player |-> c, agent |-> Up(c), master |-> Up(Up(c)), account |-> x,
                             amount |-> offer[c][x].amount, before |-> offer[c][x].used,
                             status |-> "pending", sure |-> saved, fresh |-> dated])
  /\ rows' = IF saved THEN [s \in DOMAIN rows \cup {Len(filed) + 1} |->
                              IF s \in DOMAIN rows THEN rows[s] ELSE "pending"] ELSE rows
  /\ UNCHANGED <<active, used, offer, walk, today>>

Fits(r) == used[r.account] + r.amount <= DailyLimit

\* ConfirmDeposit, RejectDeposit.
Decide(s, status, saved) ==
  /\ s \in DOMAIN filed /\ filed[s].status = "pending"
  /\ status = "confirmed" => Fits(filed[s])
  /\ Fail(~saved)
  /\ filed' = [filed EXCEPT ![s].status = status, ![s].sure = @ /\ saved]
  /\ rows' = IF saved /\ s \in DOMAIN rows THEN [rows EXCEPT ![s] = status] ELSE rows
  /\ used' = IF status = "confirmed" THEN [used EXCEPT ![filed[s].account] = @ + filed[s].amount]
             ELSE used
  /\ UNCHANGED <<active, offer, walk, today>>

DeleteBankAccount(x) ==
  /\ x \in active /\ active' = active \ {x}
  /\ UNCHANGED <<used, filed, rows, offer, walk, today, faults>>

NextDay ==
  /\ today < LastDay /\ today' = today + 1
  /\ used' = [x \in Account |-> 0]
  /\ filed' = [s \in DOMAIN filed |-> [filed[s] EXCEPT !.fresh = FALSE]]
  /\ UNCHANGED <<active, rows, offer, walk, faults>>

-----------------------------------------------------------------------------
\* handleGetDepositRequests

Filters == {"", "pending", "confirmed", "rejected"}
Passes(status, filter) == filter = "" \/ status = filter

\* GetDepositRequests, over memory.
InMemory(u, filter) ==
  {s \in DOMAIN filed :
     /\ Passes(filed[s].status, filter)
     /\ \/ Role[u] = "superadmin"
        \/ Role[u] \in {"admin", "master"} /\ u \in {filed[s].master, filed[s].agent}
        \/ Role[u] = "agent" /\ u = filed[s].agent
        \/ Role[u] = "client" /\ u = filed[s].player}

\* dbGetDepositRequests: the role chooses the query.
FromRows(u, filter) ==
  LET mine == [superadmin |-> DOMAIN rows,
               admin |-> {s \in DOMAIN rows : u \in {filed[s].master, filed[s].agent}},
               master |-> {s \in DOMAIN rows : u \in {filed[s].master, filed[s].agent}},
               agent |-> {s \in DOMAIN rows : filed[s].agent = u},
               client |-> {s \in DOMAIN rows : filed[s].player = u}]
  IN  {s \in mine[Role[u]] : Passes(rows[s], filter)}

\* The rows are asked when memory has nothing to show.
Shown(memory, table) == IF memory # {} THEN memory ELSE table

-----------------------------------------------------------------------------
\* handleDepositTree

Roots(u) == IF Role[u] = "superadmin" THEN {v \in User : Role[v] = "superadmin"} ELSE {u}

\* Who is in the tree u asks for: the roots, and all below one who is there and no player.
\* Nobody is below himself, and no superadmin below another: in the code either would be
\* read again and again, or twice.
InTree(u) ==
  {v \in User : \A us \in SUBSET User :
     Roots(u) \subseteq us /\ (\A w \in us : Role[w] # "client" => Children(w) \subseteq us)
       => v \in us}

TreeUsed(u) == UsedOf(UNION {Owned(v) : v \in InTree(u)})

BeginTree(p, u) ==
  /\ walk[p] = Unread /\ Role[u] # "client"
  /\ \E order \in Orders(Roots(u)) :
       walk' = [walk EXCEPT ![p] = [todo |-> order, nodes |-> <<>>, root |-> u,
                                    began |-> TreeUsed(u), day |-> today]]
  /\ UNCHANGED <<active, used, filed, rows, offer, today, faults>>

\* A node's own sums, over its accounts, those inactive included.  What waits for a
\* decision is counted in the code too.
NodeOf(u) == [limit |-> DailyLimit * Cardinality(Owned(u)), used |-> UsedOf(Owned(u))]

\* A player is a leaf, with no limit and what he paid; nothing of it is added to the sums
\* above.
LeafOf(c) == [limit |-> 0, used |-> Paid(c)]

\* BuildTree: one user in a section, then those directly below, in the order of a map.
BuildTree(p) ==
  LET u == Head(walk[p].todo)
      node == IF Role[u] = "client" THEN LeafOf(u) ELSE NodeOf(u)
      below == IF Role[u] = "client" THEN {} ELSE Children(u)
      seen == walk[p].nodes
  IN
  /\ walk[p].todo # <<>>
  /\ \E next \in Orders(below) :
       walk' = [walk EXCEPT ![p].todo = next \o Tail(@),
                            ![p].nodes = [v \in DOMAIN seen \cup {u} |-> IF v = u THEN node ELSE seen[v]]]
  /\ UNCHANGED <<active, used, filed, rows, offer, today, faults>>

\* The answer is sent.
TreeSent(p) ==
  /\ walk[p] # Unread /\ walk[p].todo = <<>>
  /\ walk' = [walk EXCEPT ![p] = Unread]
  /\ UNCHANGED <<active, used, filed, rows, offer, today, faults>>

ViewsNext ==
  \/ \E c \in Clients : \/ \E amount \in Amount : AvailableAccounts(c, amount)
                        \/ \E x \in Account, saved, dated \in BOOLEAN :
                             DepositRequest(c, x, saved, dated)
  \/ \E s \in 1..MaxFiled, saved \in BOOLEAN :
       Decide(s, "confirmed", saved) \/ Decide(s, "rejected", saved)
  \/ \E x \in Account : DeleteBankAccount(x)
  \/ NextDay
  \/ \E p \in Viewer : BuildTree(p) \/ TreeSent(p) \/ \E u \in User : BeginTree(p, u)

ViewsSpec == ViewsInit /\ [][ViewsNext]_viewVars

-----------------------------------------------------------------------------

\* Values of every variable.
ViewsTypeOK ==
  /\ active \subseteq Account /\ used \in [Account -> 0..DailyLimit]
  /\ \A s \in DOMAIN filed : filed[s].player \in Clients /\ filed[s].status \in Filters \ {""}
  /\ DOMAIN rows \subseteq DOMAIN filed
  /\ \A p \in Viewer : DOMAIN walk[p].nodes \subseteq User
  /\ today \in 0..LastDay /\ faults \in 0..MaxFaults

\* A request made from an offer can be confirmed for as long as its account has received
\* no more than when it was offered, whatever else was offered and decided.
OfferCanBeConfirmed ==
  \A s \in DOMAIN filed :
    filed[s].status = "pending" /\ used[filed[s].account] <= filed[s].before => Fits(filed[s])

\* Memory and table show a user the same: whichever answers, a request saved without a
\* failure is shown to those it names, and to no one under another status.
ListsAgree ==
  \A u \in User, filter \in Filters :
    LET memory == InMemory(u, filter)
        table == FromRows(u, filter)
    IN  \A s \in DOMAIN filed : filed[s].sure =>
          /\ s \in Shown(memory, table) <=> s \in memory
          /\ s \in table <=> s \in memory

\* A tree read while deposits are confirmed adds up: what is used in it lies between what
\* was when it was begun and what is now, and stays within the limit of each node; and its
\* players' leaves, which come of the requests and not of the accounts, show no more than
\* the accounts have received.
TreeAddsUp ==
  \A p \in Viewer :
    LET w == walk[p]
        shown == [u \in DOMAIN w.nodes |-> w.nodes[u].used]
        staff == SumFunctionOnSet(shown, DOMAIN w.nodes \ Clients)
    IN  w # Unread =>
          /\ \A u \in DOMAIN w.nodes \ Clients : w.nodes[u].used <= w.nodes[u].limit
          /\ w.day = today =>
               /\ staff <= TreeUsed(w.root) /\ (w.todo = <<>> => w.began <= staff)
               /\ SumFunctionOnSet(shown, DOMAIN w.nodes \cap Clients) <= UsedOf(Account)

=============================================================================
