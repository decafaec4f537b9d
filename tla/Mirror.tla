-------------------------------- MODULE Mirror --------------------------------
(***************************************************************************)
(* The users of the mock server in memory (cmd/mockserver/store.go) and    *)
(* the rows of auth.users that follow them when there is a database        *)
(* (db.go).  A change is made in memory under Store.mu and written row by  *)
(* row before the lock is given up; reads of the balance come back from    *)
(* the database without the lock; a restart reads the users again, and     *)
(* gives them the numbers that the table's own sequence gave.  Bets are    *)
(* saved too and never read back.                                          *)
(***************************************************************************)
EXTENDS Integers, Sequences, FiniteSets, FiniteSetsExt

CONSTANTS
  Name,          \* user names
  Reader,        \* goroutines in GetUser
  Grant,         \* what a new user is given
  MaxId, MaxChanges, MaxCrashes   \* bounds

ASSUME MirrorAssumption ==
  /\ Name # {} /\ Grant \in Nat
  /\ MaxId \in Nat \ {0} /\ MaxChanges \in Nat /\ MaxCrashes \in Nat

VARIABLES
  memory,        \* Store.users, by id
  userRows,      \* auth.users, by id
  nextUserID,    \* Store.nextUserID
  sequence,      \* of auth.users.id
  pending,       \* the statements the holder of Store.mu has still to run
  reading,       \* what each reader has read
  stale,         \* history: the ids whose memory is known to differ from their row
  gap,           \* history: an INSERT failed, and the sequence went on
  changes, crashes

mirrorVars == <<memory, userRows, nextUserID, sequence, pending, reading, stale, gap, changes,
                crashes>>

Id == 1..MaxId
NotReading == [at |-> "idle"]
First == [name |-> CHOOSE n \in Name : TRUE, balance |-> Grant, exposure |-> 0]
Maximum(ids) == IF ids = {} THEN 0 ELSE Max(ids)
Plus(f, id, x) == [i \in DOMAIN f \cup {id} |-> IF i = id THEN x ELSE f[i]]

\* The server starts on a database with its first user.
MirrorInit ==
  /\ memory = <<First>> /\ userRows = <<First>>
  /\ nextUserID = 1 /\ sequence = 1
  /\ pending = <<>> /\ reading = [r \in Reader |-> NotReading]
  /\ stale = {} /\ gap = FALSE /\ changes = 0 /\ crashes = 0

\* A section under Store.mu: it starts when the one before has run its statements.
Section(statements) ==
  /\ pending = <<>> /\ changes < MaxChanges
  /\ changes' = changes + 1 /\ pending' = statements
  /\ UNCHANGED <<userRows, sequence, reading, gap, crashes>>

InsertRow(id) == [do |-> "insert", id |-> id]

\* dbUpdateBalance, with what is in memory when it runs.
Update(id) == <<[do |-> "update", id |-> id]>>

\* The number a new user gets in memory; the row's own is not looked at.
CreateUser(name, parent) ==
  LET id == nextUserID + 1 IN
  /\ id \in Id /\ sequence < MaxId
  /\ parent \in DOMAIN memory /\ \A i \in DOMAIN memory : memory[i].name # name
  /\ memory[parent].balance - memory[parent].exposure >= Grant
  /\ memory' = Plus([memory EXCEPT ![parent].balance = @ - Grant], id,
                    [name |-> name, balance |-> Grant, exposure |-> 0])
  /\ nextUserID' = id
  /\ Section(<<InsertRow(id)>> \o Update(parent))
  /\ UNCHANGED stale

HoldFunds(id) ==
  /\ id \in DOMAIN memory /\ memory[id].balance > memory[id].exposure
  /\ memory' = [memory EXCEPT ![id].exposure = @ + 1]
  /\ Section(Update(id))
  /\ UNCHANGED <<nextUserID, stale>>

\* A bet of the user is settled or void: its stake is released and paid.
CloseBet(id, pnl) ==
  /\ id \in DOMAIN memory /\ memory[id].exposure > 0
  /\ memory' = [memory EXCEPT ![id].exposure = @ - 1, ![id].balance = @ + pnl]
  /\ Section(Update(id))
  /\ UNCHANGED <<nextUserID, stale>>

TransferBalance(from, to) ==
  /\ {from, to} \subseteq DOMAIN memory /\ from # to /\ memory[from].balance > 0
  /\ memory' = [memory EXCEPT ![from].balance = @ - 1, ![to].balance = @ + 1]
  /\ Section(Update(from) \o Update(to))
  /\ UNCHANGED <<nextUserID, stale>>

\* The mock's cash-out writes nothing to the database.
CashoutAccept(id) ==
  /\ id \in DOMAIN memory /\ memory[id].exposure > 0
  /\ memory' = [memory EXCEPT ![id].exposure = @ - 1, ![id].balance = @ + 1]
  /\ stale' = stale \cup {id}
  /\ Section(<<>>)
  /\ UNCHANGED nextUserID

-----------------------------------------------------------------------------

\* The next statement.  An UPDATE that meets no row changes none.
Statement ==
  LET id == Head(pending).id
      u == IF id \in DOMAIN memory THEN memory[id] ELSE First
  IN
  /\ pending # <<>> /\ pending' = Tail(pending)
  /\ IF Head(pending).do = "insert"
     THEN /\ sequence' = sequence + 1
          /\ userRows' = Plus(userRows, sequence + 1, [u EXCEPT !.balance = Grant, !.exposure = 0])
     ELSE /\ userRows' = IF id \in DOMAIN userRows
                     THEN [userRows EXCEPT ![id].balance = u.balance, ![id].exposure = u.exposure]
                     ELSE userRows
          /\ UNCHANGED sequence
  /\ UNCHANGED <<memory, nextUserID, reading, stale, gap, changes, crashes>>

\* A statement fails, which is logged; an INSERT has used its number up.
StatementFails ==
  /\ pending # <<>> /\ pending' = Tail(pending)
  /\ crashes < MaxCrashes /\ crashes' = crashes + 1
  /\ stale' = stale \cup {Head(pending).id}
  /\ IF Head(pending).do = "insert" THEN sequence' = sequence + 1 /\ gap' = TRUE
     ELSE UNCHANGED <<sequence, gap>>
  /\ UNCHANGED <<memory, userRows, nextUserID, reading, changes>>

Row(id) == IF id \in DOMAIN userRows THEN userRows[id] ELSE [First EXCEPT !.balance = 0]

\* GetUser, GetUserByUsername: the user is found in memory, and the row is read.
ReadBalance(r, id) ==
  /\ reading[r] = NotReading /\ id \in DOMAIN memory
  /\ reading' = [reading EXCEPT ![r] =
       [at |-> "write", id |-> id, balance |-> Row(id).balance, exposure |-> Row(id).exposure]]
  /\ UNCHANGED <<memory, userRows, nextUserID, sequence, pending, stale, gap, changes, crashes>>

\* What was read replaces what is there now, with no lock.
SyncBalance(r) ==
  LET id == reading[r].id
      synced == [memory[id] EXCEPT !.balance = reading[r].balance,
                                   !.exposure = reading[r].exposure]
  IN
  /\ reading[r] # NotReading
  /\ memory' = [memory EXCEPT ![id] = synced]
  /\ stale' = IF synced = memory[id] THEN stale ELSE stale \cup {id}
  /\ reading' = [reading EXCEPT ![r] = NotReading]
  /\ UNCHANGED <<userRows, nextUserID, sequence, pending, gap, changes, crashes>>

\* A user not in memory is looked up in the database.
FetchUser(id) ==
  /\ id \in DOMAIN userRows \ DOMAIN memory
  /\ memory' = Plus(memory, id, userRows[id])
  /\ UNCHANGED <<userRows, nextUserID, sequence, pending, reading, stale, gap, changes, crashes>>

\* Mutant: the counter starts anew.
FromZero == 0
\* loadUsersFromDB goes on after the greatest id.
GreatestId == Maximum(DOMAIN userRows)

\* The process dies, wherever it is, and starts again.
RestartServer ==
  /\ crashes < MaxCrashes /\ crashes' = crashes + 1
  /\ memory' = userRows /\ nextUserID' = GreatestId
  /\ pending' = <<>> /\ reading' = [r \in Reader |-> NotReading] /\ stale' = {}
  /\ UNCHANGED <<userRows, sequence, gap, changes>>

MirrorNext ==
  \/ \E name \in Name, parent \in Id : CreateUser(name, parent)
  \/ \E id \in Id : HoldFunds(id) \/ CashoutAccept(id) \/ FetchUser(id)
  \/ \E id \in Id, pnl \in {-1, 0, 1} : CloseBet(id, pnl)
  \/ \E from, to \in Id : TransferBalance(from, to)
  \/ Statement \/ StatementFails \/ RestartServer
  \/ \E r \in Reader : SyncBalance(r) \/ \E id \in Id : ReadBalance(r, id)

MirrorSpec == MirrorInit /\ [][MirrorNext]_mirrorVars

-----------------------------------------------------------------------------

UserRow == [name : Name, balance : Int, exposure : Nat]

\* Values of every variable.
MirrorTypeOK ==
  /\ DOMAIN memory \subseteq Id /\ \A id \in DOMAIN memory : memory[id] \in UserRow
  /\ DOMAIN userRows \subseteq Id /\ \A id \in DOMAIN userRows : userRows[id] \in UserRow
  /\ nextUserID \in 0..MaxId /\ sequence \in 0..MaxId
  /\ \A i \in DOMAIN pending : pending[i].do \in {"insert", "update"} /\ pending[i].id \in Id
  /\ stale \subseteq Id /\ gap \in BOOLEAN

\* Between sections memory and table say the same of every user: through restarts,
\* transfers and users created, but for those with a statement that failed, a balance
\* overwritten by an older read, a cash-out, or numbers gone apart at a failed INSERT.
CopiesAgree ==
  pending = <<>> /\ ~gap =>
    \A id \in DOMAIN memory \ stale : id \in DOMAIN userRows /\ userRows[id] = memory[id]

\* Users in memory and in the table agree when no section is open (store.go, db.go).
MirrorAgrees == MirrorTypeOK /\ CopiesAgree

=============================================================================
