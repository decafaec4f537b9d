----------------------------- MODULE RecordsProofs -----------------------------
(***************************************************************************)
(* Proofs about the mock server's records, for every value of the          *)
(* constants: of deposits under two locks (Deposits), and of what is kept  *)
(* and shown of bets and deposits (Records).                               *)
(*                                                                         *)
(* Deposits.  The first layer is the locks: who has announced itself to ds *)
(* is there to write, main has one holder, and a decision is about a       *)
(* request there is.  The second is the money: the confirmed requests are  *)
(* what accounts have been used for and what players have been credited.   *)
(*                                                                         *)
(* DepositRecords.  A number may be given twice after a restart; what each *)
(* row is of, and how far process and table count alike (NumbersInv,       *)
(* AlikeInv), what the processes let through (ReceivedInv), and what is    *)
(* read of a reference before it is attached (ReadInv).                    *)
(*                                                                         *)
(* DepositViews.  A tree is read user by user while deposits are           *)
(* confirmed: those still to be read and those read close the tree         *)
(* (WalkReaches), and what is in the answer, with what is still to be read,*)
(* is no less than all was at first (WalkAdds).                            *)
(*                                                                         *)
(* BetRecords.  The statements a section has still to run (TodoInv) say    *)
(* where memory and rows differ (KeptInv, HeldInv), which bets have their  *)
(* one closing on the ledger (ClosingInv), and which are being placed      *)
(* (PlacingInv).                                                           *)
(*                                                                         *)
(* Reports.  What a request has read of a bet is how the bet was, or half  *)
(* of what one writer has written of it (PanelInv).                        *)
(***************************************************************************)
EXTENDS Deposits, Records, SequenceTheorems, SumTheorems

JobTyped == job \in [Proc -> {Idle} \cup Job]

\* ds is waited for by who will write, and main is held by one goroutine.
LockInv ==
  /\ dsWriter # NoProc => dsWriter \in Proc /\ job[dsWriter].at \in Writing
  /\ \A p, q \in MainHolders : p = q

\* A decision is about a request that was made.
Deciding == {"main", "confirm", "reject"}
IdsInv == \A p \in Proc : job[p].at \in Deciding => job[p].id \in DOMAIN deposits

StoreTyped ==
  /\ active \subseteq Account
  /\ used \in [Account -> [Day -> Nat]]
  /\ deposits \in Seq(Deposit)
  /\ balance \in [Player -> Nat]
  /\ saved \in [Player -> Nat]
  /\ today \in Day

Inv == JobTyped /\ LockInv /\ IdsInv /\ StoreTyped

-----------------------------------------------------------------------------
\* Jobs and locks.

\* What a job carries, by the step it is at.
LEMMA JobFields ==
  ASSUME JobTyped, NEW p \in Proc
  PROVE  /\ job[p].at = "select" => job[p].player \in Player /\ job[p].amount \in Amount
         /\ job[p].at = "create" => /\ job[p].player \in Player /\ job[p].amount \in Amount
                                    /\ job[p].account \in Account
         /\ job[p].at \in Deciding => /\ job[p] \in [at : Deciding, id : Nat \ {0}]
                                      /\ job[p].id \in Nat \ {0}
         /\ job[p].at = "update" => job[p].account \in Account
         /\ job[p].at \in {"list", "enrich", "owner"} =>
              /\ job[p] \in [at : {"list", "enrich", "owner"}, left : SUBSET Account]
              /\ job[p].left \in SUBSET Account
         /\ job[p].at = "sync" => job[p].player \in Player /\ job[p].read \in Nat
  <1>1. job[p] \in {Idle} \cup Job
    BY DEF JobTyped
  <1>2. CASE job[p] = Idle
    BY <1>2 DEF Idle, Deciding
  <1>3. CASE job[p] \in [at : {"select"}, player : Player, amount : Amount]
    BY <1>3 DEF Deciding
  <1>4. CASE job[p] \in [at : {"create"}, player : Player, amount : Amount, account : Account]
    BY <1>4 DEF Deciding
  <1>5. CASE job[p] \in [at : {"main", "confirm", "reject"}, id : Nat \ {0}]
    BY <1>5 DEF Deciding
  <1>6. CASE job[p] \in [at : {"update"}, account : Account, status : BOOLEAN]
    BY <1>6 DEF Deciding
  <1>7. CASE job[p] \in [at : {"list", "enrich", "owner"}, left : SUBSET Account]
    BY <1>7 DEF Deciding
  <1>8. CASE job[p] \in [at : {"sync"}, player : Player, read : Nat]
    BY <1>8 DEF Deciding
  <1> QED BY <1>1, <1>2, <1>3, <1>4, <1>5, <1>6, <1>7, <1>8 DEF Job

\* A goroutine goes on to another job: it waits for ds no more, or did not, and
\* takes main only when nobody has it.
LEMMA Moving ==
  ASSUME JobTyped, LockInv, IdsInv, NEW p \in Proc, NEW j \in {Idle} \cup Job, Does(p, j),
         dsWriter' = NoProc \/ (dsWriter' = dsWriter /\ job[p].at \notin Writing),
         j.at = "confirm" => MainHolders = {},
         j.at \in Deciding => j.id \in DOMAIN deposits',
         DOMAIN deposits \subseteq DOMAIN deposits'
  PROVE  JobTyped' /\ LockInv' /\ IdsInv'
  <1>1. /\ job' \in [Proc -> {Idle} \cup Job]
        /\ job'[p] = j /\ \A q \in Proc \ {p} : job'[q] = job[q]
    BY DEF JobTyped, Does
  <1>2. dsWriter' # NoProc => dsWriter' \in Proc /\ job'[dsWriter'].at \in Writing
    BY <1>1 DEF LockInv
  <1>3. \A q, r \in MainHolders' : q = r
    BY <1>1 DEF LockInv, MainHolders
  <1>4. IdsInv'
    BY <1>1 DEF IdsInv
  <1> QED BY <1>1, <1>2, <1>3, <1>4 DEF JobTyped, LockInv

-----------------------------------------------------------------------------
\* The steps that leave the stores alone.

storeVars == <<active, used, deposits, balance, saved, today>>

\* A call that comes in, and what a goroutine then does without writing.
LEMMA LockStep ==
  ASSUME Inv, NEW p \in Proc,
         \/ \E u \in Player, m \in Amount :
              Request(p, u, m) \/ \E a \in Account : RequestOn(p, u, m, a)
         \/ \E d \in 1..MaxDeposits, at \in {"main", "reject"} : Decide(p, d, at)
         \/ \E a \in Account, s \in BOOLEAN : StartUpdate(p, a, s)
         \/ \E holdings \in SUBSET Account : StartList(p, holdings)
         \/ \E u \in Player : GetUser(p, u)
         \/ Announce(p) \/ LockMain(p)
         \/ List(p) \/ EnrichAccount(p) \/ LookUpOwner(p)
         \/ SelectAvailableAccount(p)
  PROVE  Inv' /\ UNCHANGED storeVars
  <1> USE DEF Inv
  <1>1. SUFFICES ASSUME UNCHANGED storeVars
                 PROVE  JobTyped' /\ LockInv' /\ IdsInv'
    <2>1. UNCHANGED storeVars
      BY DEF storeVars, Request, RequestOn, Decide, StartUpdate, StartList, GetUser, Announce,
             LockMain, List, EnrichAccount, LookUpOwner, SelectAvailableAccount
    <2>2. StoreTyped'
      BY <2>1 DEF storeVars, StoreTyped
    <2> QED BY <2>1, <2>2
  <1>2. deposits' = deposits
    BY <1>1 DEF storeVars
  <1>3. job[p] = Idle => job[p].at \notin Writing
    BY DEF Idle, Writing
  <1>4. ASSUME NEW j \in {Idle} \cup Job, j.at \notin Deciding \cup {"confirm"}, Does(p, j),
               \/ dsWriter' = NoProc
               \/ dsWriter' = dsWriter /\ job[p].at \notin Writing
        PROVE  JobTyped' /\ LockInv' /\ IdsInv'
    BY <1>2, <1>4, Moving
  <1>5. Idle.at \notin Deciding \cup {"confirm"} /\ Idle \in {Idle} \cup Job
    BY DEF Idle, Deciding
  <1>6. ASSUME NEW u \in Player, NEW m \in Amount, Request(p, u, m)
        PROVE  JobTyped' /\ LockInv' /\ IdsInv'
    <2> DEFINE j == [at |-> "select", player |-> u, amount |-> m]
    <2>1. j \in {Idle} \cup Job /\ j.at \notin Deciding \cup {"confirm"}
      BY DEF Job, Deciding
    <2>2. Does(p, j) /\ dsWriter' = dsWriter /\ job[p].at \notin Writing
      BY <1>3, <1>6 DEF Request
    <2> HIDE DEF j
    <2> QED BY <1>4, <2>1, <2>2
  <1>7. ASSUME NEW u \in Player, NEW m \in Amount, NEW a \in Account, RequestOn(p, u, m, a)
        PROVE  JobTyped' /\ LockInv' /\ IdsInv'
    <2> DEFINE j == [at |-> "create", player |-> u, amount |-> m, account |-> a]
    <2>1. j \in {Idle} \cup Job /\ j.at \notin Deciding \cup {"confirm"}
      BY DEF Job, Deciding
    <2>2. Does(p, j) /\ dsWriter' = dsWriter /\ job[p].at \notin Writing
      BY <1>3, <1>7 DEF RequestOn
    <2> HIDE DEF j
    <2> QED BY <1>4, <2>1, <2>2
  <1>8. ASSUME NEW d \in 1..MaxDeposits, NEW at \in {"main", "reject"}, Decide(p, d, at)
        PROVE  JobTyped' /\ LockInv' /\ IdsInv'
    <2> DEFINE j == [at |-> at, id |-> d]
    <2>1. j \in {Idle} \cup Job /\ j.at # "confirm" /\ j.id \in DOMAIN deposits'
      BY <1>2, <1>8 DEF Job, Decide
    <2>2. Does(p, j) /\ dsWriter' = dsWriter /\ job[p].at \notin Writing
      BY <1>3, <1>8 DEF Decide
    <2> HIDE DEF j
    <2> QED BY <1>2, <2>1, <2>2, Moving
  <1>9. ASSUME NEW a \in Account, NEW s \in BOOLEAN, StartUpdate(p, a, s)
        PROVE  JobTyped' /\ LockInv' /\ IdsInv'
    <2> DEFINE j == [at |-> "update", account |-> a, status |-> s]
    <2>1. j \in {Idle} \cup Job /\ j.at \notin Deciding \cup {"confirm"}
      BY DEF Job, Deciding
    <2>2. Does(p, j) /\ dsWriter' = dsWriter /\ job[p].at \notin Writing
      BY <1>3, <1>9 DEF StartUpdate
    <2> HIDE DEF j
    <2> QED BY <1>4, <2>1, <2>2
  <1>10. ASSUME NEW holdings \in SUBSET Account, StartList(p, holdings)
         PROVE  JobTyped' /\ LockInv' /\ IdsInv'
    <2> DEFINE j == [at |-> "list", left |-> holdings]
    <2>1. j \in {Idle} \cup Job /\ j.at \notin Deciding \cup {"confirm"}
      BY DEF Job, Deciding
    <2>2. Does(p, j) /\ dsWriter' = dsWriter /\ job[p].at \notin Writing
      BY <1>3, <1>10 DEF StartList
    <2> HIDE DEF j
    <2> QED BY <1>4, <2>1, <2>2
  <1>11. ASSUME NEW u \in Player, GetUser(p, u)
         PROVE  JobTyped' /\ LockInv' /\ IdsInv'
    <2>1. PICK read \in {saved[u], 0} : Does(p, [at |-> "sync", player |-> u, read |-> read])
      BY <1>11 DEF GetUser
    <2> DEFINE j == [at |-> "sync", player |-> u, read |-> read]
    <2>2. read \in Nat
      BY DEF StoreTyped
    <2>3. j \in {Idle} \cup Job /\ j.at \notin Deciding \cup {"confirm"}
      BY <2>2 DEF Job, Deciding
    <2>4. Does(p, j) /\ dsWriter' = dsWriter /\ job[p].at \notin Writing
      BY <1>3, <1>11, <2>1 DEF GetUser
    <2> HIDE DEF j
    <2> QED BY <1>4, <2>3, <2>4
  <1>12. CASE Announce(p)
    BY <1>2, <1>12 DEF Announce, JobTyped, LockInv, IdsInv, MainHolders
  <1>13. CASE LockMain(p)
    <2> DEFINE j == [job[p] EXCEPT !.at = "confirm"]
    <2>1. job[p].at = "main" /\ job[p] \in [at : Deciding, id : Nat \ {0}]
      BY <1>13, JobFields DEF LockMain, Deciding
    <2>2. j \in {Idle} \cup Job /\ j.id = job[p].id
      BY <2>1 DEF Job, Deciding
    <2>3. Does(p, j) /\ dsWriter' = dsWriter /\ job[p].at \notin Writing /\ MainHolders = {}
      BY <1>13, <2>1 DEF LockMain, Writing
    <2>4. j.id \in DOMAIN deposits'
      BY <1>2, <2>1, <2>2 DEF IdsInv, Deciding
    <2> HIDE DEF j
    <2> QED BY <1>2, <2>2, <2>3, <2>4, Moving
  <1>14. ASSUME NEW j \in {Idle} \cup Job, Does(p, j), j.at \in {"idle", "enrich", "owner"},
                job[p].at \in {"list", "enrich", "owner"}, dsWriter' = dsWriter
         PROVE  JobTyped' /\ LockInv' /\ IdsInv'
    BY <1>4, <1>14 DEF Deciding, Writing
  <1>15. CASE List(p) \/ EnrichAccount(p)
    <2>1. /\ job[p].at \in {"list", "enrich"} /\ dsWriter' = dsWriter
          /\ job[p] \in [at : {"list", "enrich", "owner"}, left : SUBSET Account]
      BY <1>15, JobFields DEF List, EnrichAccount
    <2>2. PICK j \in {Idle, [job[p] EXCEPT !.at = "enrich"], [job[p] EXCEPT !.at = "owner"]} :
            Does(p, j)
      BY <1>15 DEF List, EnrichAccount
    <2>3. j \in {Idle} \cup Job /\ j.at \in {"idle", "enrich", "owner"}
      BY <2>1, <2>2 DEF Job, Idle
    <2> QED BY <1>14, <2>1, <2>2, <2>3
  <1>16. CASE LookUpOwner(p)
    <2>1. job[p].at = "owner" /\ dsWriter' = dsWriter /\ job[p].left \in SUBSET Account
      BY <1>16, JobFields DEF LookUpOwner
    <2>2. PICK a \in job[p].left :
            Does(p, IF job[p].left = {a} THEN Idle
                    ELSE [at |-> "enrich", left |-> job[p].left \ {a}])
      BY <1>16 DEF LookUpOwner
    <2>3. PICK j \in {Idle, [at |-> "enrich", left |-> job[p].left \ {a}]} : Does(p, j)
      BY <2>2
    <2>4. j \in {Idle} \cup Job /\ j.at \in {"idle", "enrich", "owner"}
      BY <2>1, <2>3 DEF Job, Idle
    <2> QED BY <1>14, <2>1, <2>3, <2>4
  <1>17. CASE SelectAvailableAccount(p)
    <2>1. /\ job[p].at = "select" /\ dsWriter' = NoProc
          /\ job[p].player \in Player /\ job[p].amount \in Amount
      BY <1>17, JobFields DEF SelectAvailableAccount, HasDs, Leaves
    <2>2. CASE Does(p, Idle)
      BY <1>4, <1>5, <2>1, <2>2
    <2>3. CASE \E a \in active : Does(p, [at |-> "create", player |-> job[p].player,
                                          amount |-> job[p].amount, account |-> a])
      <3>1. PICK a \in active : Does(p, [at |-> "create", player |-> job[p].player,
                                         amount |-> job[p].amount, account |-> a])
        BY <2>3
      <3> DEFINE j == [at |-> "create", player |-> job[p].player,
                       amount |-> job[p].amount, account |-> a]
      <3>2. a \in Account
        BY DEF StoreTyped
      <3>3. j \in {Idle} \cup Job /\ j.at \notin Deciding \cup {"confirm"}
        BY <2>1, <3>2 DEF Job, Deciding
      <3>4. Does(p, j)
        BY <3>1
      <3> HIDE DEF j
      <3> QED BY <1>4, <2>1, <3>3, <3>4
    <2> QED BY <1>17, <2>2, <2>3 DEF SelectAvailableAccount, Leaves
  <1> QED BY <1>6, <1>7, <1>8, <1>9, <1>10, <1>11, <1>12, <1>13, <1>15, <1>16, <1>17

-----------------------------------------------------------------------------
\* The steps that write.

\* A row more.
LEMMA AppendFacts ==
  ASSUME NEW S, NEW s \in Seq(S), NEW e \in S, NEW t, t = Append(s, e)
  PROVE  /\ t \in Seq(S) /\ Len(s) \in Nat /\ Len(t) = Len(s) + 1
         /\ DOMAIN s = 1..Len(s) /\ DOMAIN t = 1..(Len(s) + 1)
         /\ t[Len(s) + 1] = e /\ \A i \in 1..Len(s) : t[i] = s[i]
BY AppendProperties

\* Another row in the place of one.
LEMMA ReplaceFacts ==
  ASSUME NEW S, NEW s \in Seq(S), NEW i \in 1..Len(s), NEW e \in S,
         NEW t, t = [s EXCEPT ![i] = e]
  PROVE  /\ t \in Seq(S) /\ Len(s) \in Nat /\ Len(t) = Len(s)
         /\ DOMAIN s = 1..Len(s) /\ DOMAIN t = 1..Len(s)
         /\ \A j \in 1..Len(s) : t[j] = IF j = i THEN e ELSE s[j]
OBVIOUS

\* A request has its kind, and an amount.
LEMMA RequestTyped ==
  ASSUME StoreTyped, NEW d \in DOMAIN deposits
  PROVE  /\ deposits[d] \in Deposit
         /\ deposits[d].player \in Player /\ deposits[d].account \in Account
         /\ deposits[d].amount \in Nat
  <1>1. deposits \in Seq(Deposit) /\ d \in 1..Len(deposits)
    BY DEF StoreTyped
  <1>2. deposits[d] \in Deposit
    BY <1>1, ElementOfSeq
  <1>3. /\ deposits[d].player \in Player /\ deposits[d].account \in Account
        /\ deposits[d].amount \in Amount
    BY <1>2 DEF Deposit
  <1>4. \A m \in Amount : m \in Nat
    BY DepositsAssumption
  <1> QED BY <1>2, <1>3, <1>4

\* A new request is the last of them, and pending.
LEMMA Created ==
  ASSUME Inv, NEW p \in Proc, CreateDepositRequest(p)
  PROVE  /\ Inv'
         /\ UNCHANGED <<used, balance, saved, today>>
         /\ DOMAIN deposits' = DOMAIN deposits \cup {Len(deposits) + 1}
         /\ Len(deposits) + 1 \notin DOMAIN deposits
         /\ \A d \in DOMAIN deposits : deposits'[d] = deposits[d]
         /\ deposits'[Len(deposits) + 1].status = "pending"
  <1> USE DEF Inv
  <1> DEFINE r == [player |-> job[p].player, account |-> job[p].account,
                   amount |-> job[p].amount, status |-> "pending", day |-> today]
  <1>1. /\ job[p].at = "create" /\ dsWriter' = NoProc /\ Does(p, Idle)
        /\ deposits' = Append(deposits, r)
        /\ UNCHANGED <<active, used, balance, saved, today>>
    BY DEF CreateDepositRequest, HasDs, Leaves
  <1>2. job[p].player \in Player /\ job[p].amount \in Amount /\ job[p].account \in Account
    BY <1>1, JobFields
  <1>3. r \in Deposit /\ r.status = "pending"
    BY <1>2 DEF Deposit, StoreTyped
  <1> HIDE DEF r
  <1>4. PICK n \in Nat : n = Len(deposits)
    BY DEF StoreTyped
  <1>5. /\ deposits \in Seq(Deposit) /\ deposits' \in Seq(Deposit)
        /\ Len(deposits') = n + 1
        /\ \A d \in 1..n : deposits'[d] = deposits[d]
        /\ deposits'[n + 1] = r
    BY <1>1, <1>3, <1>4, AppendFacts DEF StoreTyped
  <1>6. DOMAIN deposits = 1..n /\ DOMAIN deposits' = 1..(n + 1)
    BY <1>4, <1>5
  <1>7. DOMAIN deposits' = DOMAIN deposits \cup {n + 1} /\ n + 1 \notin DOMAIN deposits
    BY <1>6
  <1>8. StoreTyped'
    BY <1>1, <1>5 DEF StoreTyped
  <1>9. Idle.at \notin Deciding \cup {"confirm"}
    BY DEF Idle, Deciding
  <1>10. JobTyped' /\ LockInv' /\ IdsInv'
    BY <1>1, <1>7, <1>9, Moving
  <1> QED BY <1>1, <1>3, <1>4, <1>5, <1>6, <1>7, <1>8, <1>10

\* What deciding on request d does to the requests.
LEMMA Decided ==
  ASSUME StoreTyped, NEW d \in DOMAIN deposits, NEW s \in {"confirmed", "rejected"},
         deposits' = [deposits EXCEPT ![d].status = s, ![d].day = today]
  PROVE  /\ deposits' \in Seq(Deposit)
         /\ DOMAIN deposits' = DOMAIN deposits
         /\ \A e \in DOMAIN deposits \ {d} : deposits'[e] = deposits[e]
         /\ deposits'[d].status = s /\ deposits'[d].day = today
         /\ deposits'[d].player = deposits[d].player
         /\ deposits'[d].account = deposits[d].account
         /\ deposits'[d].amount = deposits[d].amount
  <1>1. deposits \in Seq(Deposit) /\ deposits[d] \in Deposit /\ today \in Day
    BY RequestTyped DEF StoreTyped
  <1> DEFINE r == [[deposits[d] EXCEPT !.status = s] EXCEPT !.day = today]
  <1>2. /\ r \in Deposit /\ r.status = s /\ r.day = today /\ r.player = deposits[d].player
        /\ r.account = deposits[d].account /\ r.amount = deposits[d].amount
    BY <1>1 DEF Deposit
  <1>3. deposits' = [deposits EXCEPT ![d] = r]
    BY <1>1
  <1> HIDE DEF r
  <1>4. /\ DOMAIN deposits' = DOMAIN deposits
        /\ \A e \in DOMAIN deposits \ {d} : deposits'[e] = deposits[e]
        /\ deposits'[d] = r
    BY <1>3
  <1>5. d \in 1..Len(deposits)
    BY <1>1
  <1>6. deposits' \in Seq(Deposit)
    <2>1. /\ deposits \in Seq(Deposit) /\ d \in 1..Len(deposits) /\ r \in Deposit
          /\ deposits' = [deposits EXCEPT ![d] = r]
      BY <1>1, <1>2, <1>3, <1>5
    <2> QED BY ONLY <2>1, ReplaceFacts
  <1> QED BY <1>2, <1>4, <1>6

\* What a confirmation finds and does when it goes through.
LEMMA Confirms ==
  ASSUME Inv, NEW p \in Proc, ConfirmDeposit(p), Confirmable(deposits[job[p].id])
  PROVE  /\ Inv'
         /\ UNCHANGED <<saved, today>>
         /\ job[p].at = "confirm" /\ Does(p, Idle)
         /\ \E d \in DOMAIN deposits :
              LET r == deposits[d] IN
              /\ deposits' = [deposits EXCEPT ![d].status = "confirmed", ![d].day = today]
              /\ r \in Deposit /\ r.amount \in Nat /\ r.status = "pending"
              /\ used[r.account][today] + r.amount <= DailyLimit
              /\ used' = [used EXCEPT ![r.account][today] = @ + r.amount]
              /\ balance' = [balance EXCEPT ![r.player] = @ + r.amount]
  <1> USE DEF Inv
  <1>1. PICK d : d = job[p].id
    OBVIOUS
  <1>2. /\ job[p].at = "confirm" /\ dsWriter' = NoProc /\ Does(p, Idle)
        /\ UNCHANGED <<active, saved, today>>
        /\ deposits' = [deposits EXCEPT ![d].status = "confirmed", ![d].day = today]
        /\ used' = [used EXCEPT ![deposits[d].account][today] = @ + deposits[d].amount]
        /\ balance' = [balance EXCEPT ![deposits[d].player] = @ + deposits[d].amount]
    BY <1>1 DEF ConfirmDeposit, HasDs, Leaves
  <1>3. d \in DOMAIN deposits
    BY <1>1, <1>2 DEF IdsInv, Deciding
  <1>4. /\ deposits[d] \in Deposit
        /\ deposits[d].account \in Account /\ deposits[d].player \in Player
    BY <1>3, RequestTyped
  <1>5. deposits[d].amount \in Nat
    BY <1>3, RequestTyped
  <1>6. deposits' \in Seq(Deposit) /\ DOMAIN deposits' = DOMAIN deposits
    BY <1>2, <1>3, Decided
  <1>7. used' \in [Account -> [Day -> Nat]]
    <2>1. /\ used \in [Account -> [Day -> Nat]] /\ today \in Day
          /\ used[deposits[d].account] \in [Day -> Nat]
          /\ used[deposits[d].account][today] \in Nat
      BY <1>4 DEF StoreTyped
    <2>2. [used[deposits[d].account] EXCEPT ![today] = @ + deposits[d].amount] \in [Day -> Nat]
      BY <1>5, <2>1
    <2>3. used' = [used EXCEPT ![deposits[d].account]
                     = [used[deposits[d].account] EXCEPT ![today] = @ + deposits[d].amount]]
      BY <1>2
    <2> QED BY <1>4, <2>1, <2>2, <2>3
  <1>8. balance' \in [Player -> Nat]
    BY <1>2, <1>4, <1>5 DEF StoreTyped
  <1>9. StoreTyped'
    BY <1>2, <1>6, <1>7, <1>8 DEF StoreTyped
  <1>10. Idle.at \notin Deciding \cup {"confirm"}
    BY DEF Idle, Deciding
  <1>11. JobTyped' /\ LockInv' /\ IdsInv'
    BY <1>2, <1>6, <1>10, Moving
  <1>12. /\ deposits[d].status = "pending"
         /\ used[deposits[d].account][today] + deposits[d].amount <= DailyLimit
    BY <1>1 DEF Confirmable
  <1> QED BY <1>2, <1>3, <1>4, <1>5, <1>9, <1>11, <1>12

\* The steps that change no confirmed request and no use.
LEMMA OtherWrites ==
  ASSUME Inv, NEW p \in Proc,
         \/ ConfirmDeposit(p) /\ ~Confirmable(deposits[job[p].id])
         \/ RejectDeposit(p) \/ UpdateBankAccount(p)
  PROVE  /\ Inv'
         /\ UNCHANGED <<used, balance, saved, today>>
         /\ job[p].at \in Writing \/ job[p].at = "confirm"
         /\ Does(p, Idle)
         /\ DOMAIN deposits' = DOMAIN deposits
         /\ \A d \in DOMAIN deposits :
              \/ deposits'[d] = deposits[d]
              \/ deposits[d].status = "pending" /\ deposits'[d].status = "rejected"
  <1> USE DEF Inv
  <1>1. /\ job[p].at \in {"confirm", "reject", "update"} /\ dsWriter' = NoProc /\ Does(p, Idle)
        /\ UNCHANGED <<used, balance, saved, today>>
    BY DEF ConfirmDeposit, RejectDeposit, UpdateBankAccount, HasDs, Leaves
  <1>2. active' \subseteq Account
    <2>1. CASE UpdateBankAccount(p)
      <3>1. job[p].account \in Account
        BY <2>1, JobFields DEF UpdateBankAccount, HasDs
      <3> QED BY <2>1, <3>1 DEF UpdateBankAccount, StoreTyped
    <2>2. CASE ~UpdateBankAccount(p)
      BY <2>2 DEF ConfirmDeposit, RejectDeposit, StoreTyped
    <2> QED BY <2>1, <2>2
  <1>3. CASE deposits' = deposits
    <2>1. StoreTyped'
      BY <1>1, <1>2, <1>3 DEF StoreTyped
    <2>2. Idle.at \notin Deciding \cup {"confirm"}
      BY DEF Idle, Deciding
    <2>3. JobTyped' /\ LockInv' /\ IdsInv'
      BY <1>1, <1>3, <2>2, Moving
    <2> QED BY <1>1, <1>3, <2>1, <2>3 DEF Writing
  <1>4. CASE deposits' # deposits
    <2>1. PICK d : d = job[p].id
      OBVIOUS
    <2>2. /\ job[p].at = "reject" /\ deposits[d].status = "pending"
          /\ deposits' = [deposits EXCEPT ![d].status = "rejected", ![d].day = today]
      BY <1>4, <2>1 DEF ConfirmDeposit, RejectDeposit, UpdateBankAccount, HasDs
    <2>3. d \in DOMAIN deposits
      BY <2>1, <2>2 DEF IdsInv, Deciding
    <2>4. /\ deposits' \in Seq(Deposit) /\ DOMAIN deposits' = DOMAIN deposits
          /\ \A e \in DOMAIN deposits \ {d} : deposits'[e] = deposits[e]
          /\ deposits'[d].status = "rejected"
      BY <2>2, <2>3, Decided
    <2>5. StoreTyped'
      BY <1>1, <1>2, <2>4 DEF StoreTyped
    <2>6. Idle.at \notin Deciding \cup {"confirm"}
      BY DEF Idle, Deciding
    <2>7. JobTyped' /\ LockInv' /\ IdsInv'
      BY <1>1, <2>4, <2>6, Moving
    <2> QED BY <1>1, <2>2, <2>4, <2>5, <2>7 DEF Writing
  <1> QED BY <1>3, <1>4

\* A balance read from the database takes the place of the one in memory, or that is
\* written to the database, or a day passes.
LEMMA BalanceStep ==
  ASSUME Inv, \/ \E p \in Proc : SyncBalance(p)
              \/ \E u \in Player : SaveBalance(u)
              \/ NextDay
  PROVE  Inv' /\ UNCHANGED <<used, deposits>>
  <1> USE DEF Inv
  <1>1. ASSUME NEW p \in Proc, SyncBalance(p)
        PROVE  Inv' /\ UNCHANGED <<used, deposits>>
    <2>1. /\ job[p].at = "sync" /\ Does(p, Idle)
          /\ UNCHANGED <<dsWriter, active, used, deposits, saved, today>>
      BY <1>1 DEF SyncBalance
    <2>2. job[p].player \in Player /\ job[p].read \in Nat
      BY <2>1, JobFields
    <2>3. balance' \in [Player -> Nat]
      BY <1>1, <2>2 DEF SyncBalance, StoreTyped
    <2>4. Idle.at \notin Deciding \cup {"confirm"} /\ job[p].at \notin Writing
      BY <2>1 DEF Idle, Deciding, Writing
    <2>5. JobTyped' /\ LockInv' /\ IdsInv'
      BY <2>1, <2>4, Moving
    <2>6. StoreTyped'
      BY <2>1, <2>3 DEF StoreTyped
    <2> QED BY <2>1, <2>5, <2>6
  <1>2. ASSUME NEW u \in Player, SaveBalance(u)
        PROVE  Inv' /\ UNCHANGED <<used, deposits>>
    BY <1>2 DEF SaveBalance, StoreTyped, JobTyped, LockInv, IdsInv, MainHolders
  <1>3. ASSUME NextDay
        PROVE  Inv' /\ UNCHANGED <<used, deposits>>
    <2>1. today' \in Day
      BY <1>3, DepositsAssumption DEF NextDay, StoreTyped, Day
    <2> QED BY <1>3, <2>1 DEF NextDay, StoreTyped, JobTyped, LockInv, IdsInv, MainHolders
  <1> QED BY <1>1, <1>2, <1>3

\* Every step is one of these.
LEMMA StepKinds ==
  ASSUME [Next]_vars
  PROVE  \/ \E p \in Proc :
              \/ \E u \in Player, m \in Amount :
                   Request(p, u, m) \/ \E a \in Account : RequestOn(p, u, m, a)
              \/ \E d \in 1..MaxDeposits, at \in {"main", "reject"} : Decide(p, d, at)
              \/ \E a \in Account, s \in BOOLEAN : StartUpdate(p, a, s)
              \/ \E holdings \in SUBSET Account : StartList(p, holdings)
              \/ \E u \in Player : GetUser(p, u)
              \/ Announce(p) \/ LockMain(p)
              \/ List(p) \/ EnrichAccount(p) \/ LookUpOwner(p)
              \/ SelectAvailableAccount(p)
         \/ \E p \in Proc : CreateDepositRequest(p)
         \/ \E p \in Proc : ConfirmDeposit(p) /\ Confirmable(deposits[job[p].id])
         \/ \E p \in Proc : \/ ConfirmDeposit(p) /\ ~Confirmable(deposits[job[p].id])
                            \/ RejectDeposit(p) \/ UpdateBankAccount(p)
         \/ \/ \E p \in Proc : SyncBalance(p)
            \/ \E u \in Player : SaveBalance(u)
            \/ NextDay
         \/ UNCHANGED vars
  BY DEF Next, Call, Step

\* Inv is inductive.
THEOREM Invariance == Spec => []Inv
  <1>1. Init => Inv
    <2> SUFFICES ASSUME Init PROVE Inv
      OBVIOUS
    <2>1. \A p \in Proc : job[p] = Idle /\ job[p].at = "idle"
      BY DEF Init, Idle
    <2>2. JobTyped /\ LockInv /\ IdsInv
      BY <2>1 DEF Init, JobTyped, LockInv, IdsInv, MainHolders, Deciding
    <2>3. StoreTyped
      BY DepositsAssumption DEF Init, StoreTyped, Day
    <2> QED BY <2>2, <2>3 DEF Inv
  <1>2. Inv /\ [Next]_vars => Inv'
    <2> SUFFICES ASSUME Inv, [Next]_vars PROVE Inv'
      OBVIOUS
    <2>1. CASE UNCHANGED vars
      BY <2>1 DEF vars, Inv, StoreTyped, JobTyped, LockInv, IdsInv, MainHolders
    <2> QED BY <2>1, StepKinds, LockStep, Created, Confirms, OtherWrites, BalanceStep
  <1> QED BY <1>1, <1>2, PTL DEF Spec

\* Every variable has its type, and main has one holder at a time.
THEOREM TypeCorrect == Spec => []TypeOK
  <1>1. Inv => TypeOK
    BY DEF Inv, TypeOK, JobTyped, LockInv, StoreTyped
  <1> QED BY <1>1, Invariance, PTL

-----------------------------------------------------------------------------
\* What the confirmed requests add up to.

ConfirmedOn(a, day) == {d \in Confirmed : deposits[d].account = a /\ deposits[d].day = day}
ConfirmedFor(u) == {d \in Confirmed : deposits[d].player = u}

\* The limit and the use of each account and day.
UseKept(a, day) ==
  used[a][day] <= DailyLimit /\ used[a][day] = Total(ConfirmedOn(a, day))

MoneyInv ==
  /\ \A a \in Account, day \in Day : UseKept(a, day)
  /\ NeverOverCredited

\* Nothing happened to the confirmed requests.
Kept == Confirmed' = Confirmed /\ \A d \in Confirmed : deposits'[d] = deposits[d]

\* A total of deposits is a sum of their amounts.
LEMMA TotalIsSum ==
  ASSUME NEW ids
  PROVE  Total(ids) = SumFunctionOnSet([d \in ids |-> deposits[d].amount], ids)
  BY DEF Total, SumFunction

\* Then they add up to what they did.
LEMMA KeptTotals ==
  ASSUME Kept
  PROVE  /\ \A a, day : Total(ConfirmedOn(a, day))' = Total(ConfirmedOn(a, day))
         /\ \A u : Credited(u)' = Credited(u)
  <1>1. ASSUME NEW a, NEW day
        PROVE  Total(ConfirmedOn(a, day))' = Total(ConfirmedOn(a, day))
    <2>1. /\ ConfirmedOn(a, day)' = ConfirmedOn(a, day)
          /\ \A d \in ConfirmedOn(a, day) : deposits'[d].amount = deposits[d].amount
      BY DEF Kept, ConfirmedOn
    <2> QED BY <2>1 DEF Total
  <1>2. ASSUME NEW u
        PROVE  Credited(u)' = Credited(u)
    <2>1. /\ ConfirmedFor(u)' = ConfirmedFor(u)
          /\ \A d \in ConfirmedFor(u) : deposits'[d].amount = deposits[d].amount
      BY DEF Kept, ConfirmedFor
    <2> QED BY <2>1 DEF Total, Credited, ConfirmedFor
  <1> QED BY <1>1, <1>2

\* The requests are finitely many, and their totals are amounts.
LEMMA TotalTyped ==
  ASSUME StoreTyped, NEW ids \in SUBSET DOMAIN deposits
  PROVE  IsFiniteSet(ids) /\ Total(ids) \in Nat
  <1>1. PICK n \in Nat : n = Len(deposits) /\ DOMAIN deposits = 1..n
    BY DEF StoreTyped
  <1>2. IsFiniteSet(1..n)
    <2>1. 1 \in Int /\ n \in Int
      OBVIOUS
    <2> QED BY ONLY <2>1, FS_Interval
  <1>3. IsFiniteSet(ids)
    BY <1>1, <1>2, FS_Subset
  <1> DEFINE f == [d \in ids |-> deposits[d].amount]
  <1>4. \A d \in ids : f[d] \in Nat
    BY RequestTyped
  <1>5. Total(ids) = SumFunctionOnSet(f, ids)
    BY TotalIsSum
  <1> HIDE DEF f
  <1> QED BY <1>3, <1>4, <1>5, SumNat

\* One more request counted.
LEMMA TotalMore ==
  ASSUME StoreTyped, NEW ids \in SUBSET DOMAIN deposits, NEW d \in DOMAIN deposits \ ids,
         DOMAIN deposits' = DOMAIN deposits,
         \A e \in DOMAIN deposits : deposits'[e].amount = deposits[e].amount
  PROVE  SumFunction([e \in ids \cup {d} |-> deposits'[e].amount])
           = Total(ids) + deposits[d].amount
  <1> DEFINE all == ids \cup {d}
             f == [e \in ids |-> deposits[e].amount]
             g == [e \in all |-> deposits'[e].amount]
  <1>1. IsFiniteSet(ids)
    BY TotalTyped
  <1>2. \A e \in all : g[e] = deposits[e].amount /\ g[e] \in Int
    BY RequestTyped
  <1>3. Total(ids) = SumFunctionOnSet(f, ids) /\ SumFunction(g) = SumFunctionOnSet(g, all)
    BY TotalIsSum DEF SumFunction
  <1>4. \A e \in ids : f[e] = g[e]
    BY <1>2
  <1> HIDE DEF f, g
  <1>5. SumFunctionOnSet(f, ids) = SumFunctionOnSet(g, ids)
    BY <1>1, <1>4, SumSame
  <1>6. SumFunctionOnSet(g, ids \cup {d}) = SumFunctionOnSet(g, ids) + g[d]
    BY <1>1, <1>2, SumAdd
  <1> QED BY <1>2, <1>3, <1>5, <1>6 DEF g

\* When no confirmed request and no use changes, the use still is what it was.
LEMMA KeptUse ==
  ASSUME MoneyInv, Kept, UNCHANGED used
  PROVE  \A a \in Account, day \in Day : UseKept(a, day)'
  BY KeptTotals DEF MoneyInv, UseKept

\* ... and what is credited, so balances may only be replaced by others within it.
LEMMA KeptCredit ==
  ASSUME MoneyInv, Kept,
         \A u \in Player : balance'[u] <= Credited(u) /\ saved'[u] <= Credited(u),
         \A p \in Proc : \/ job'[p] = job[p]
                         \/ job'[p].at # "sync"
                         \/ job'[p].read <= Credited(job'[p].player)
  PROVE  NeverOverCredited'
  <1>1. \A u : Credited(u)' = Credited(u)
    BY KeptTotals
  <1>2. \A p \in Proc : job[p].at = "sync" => job[p].read <= Credited(job[p].player)
    BY DEF MoneyInv, NeverOverCredited
  <1>3. ASSUME NEW p \in Proc, job'[p].at = "sync"
        PROVE  (job[p].read <= Credited(job[p].player))'
    <2>1. PICK u : u = job'[p].player
      OBVIOUS
    <2>2. job'[p].read <= Credited(u)
      BY <1>2, <1>3, <2>1
    <2>3. job'[p].read <= Credited(u)'
      BY <1>1, <2>2
    <2> QED BY ONLY <2>1, <2>3 DEF Credited, Total, Confirmed
  <1>4. \A u \in Player : balance'[u] <= Credited(u)' /\ saved'[u] <= Credited(u)'
    BY <1>1
  <1> QED BY ONLY <1>3, <1>4 DEF NeverOverCredited, Credited, Total, Confirmed

\* The credit of a player is at least the opening balance.
LEMMA CreditedTyped ==
  ASSUME StoreTyped, NEW u \in Player
  PROVE  Credited(u) \in Nat
  <1>1. ConfirmedFor(u) \in SUBSET DOMAIN deposits
    BY DEF ConfirmedFor, Confirmed
  <1>2. Total(ConfirmedFor(u)) \in Nat /\ OpeningBalance[u] \in Nat
    BY <1>1, TotalTyped, DepositsAssumption
  <1> QED BY <1>2 DEF Credited, ConfirmedFor

\* A confirmation counts the request once: for its account and today, and for its
\* player.
LEMMA ConfirmCounts ==
  ASSUME StoreTyped, NEW d \in DOMAIN deposits, deposits[d].status = "pending",
         deposits' = [deposits EXCEPT ![d].status = "confirmed", ![d].day = today]
  PROVE  /\ \A a, day : Total(ConfirmedOn(a, day))'
                          = IF a = deposits[d].account /\ day = today
                            THEN Total(ConfirmedOn(a, day)) + deposits[d].amount
                            ELSE Total(ConfirmedOn(a, day))
         /\ \A u : Total(ConfirmedFor(u))'
                     = IF u = deposits[d].player
                       THEN Total(ConfirmedFor(u)) + deposits[d].amount
                       ELSE Total(ConfirmedFor(u))
  <1>1. /\ DOMAIN deposits' = DOMAIN deposits
        /\ \A e \in DOMAIN deposits \ {d} : deposits'[e] = deposits[e]
        /\ deposits'[d].status = "confirmed" /\ deposits'[d].day = today
        /\ deposits'[d].player = deposits[d].player
        /\ deposits'[d].account = deposits[d].account
        /\ deposits'[d].amount = deposits[d].amount
    BY Decided
  <1>2. /\ Confirmed' = Confirmed \cup {d} /\ d \notin Confirmed
        /\ Confirmed \in SUBSET DOMAIN deposits
    BY <1>1 DEF Confirmed
  <1>3. \A e \in DOMAIN deposits : deposits'[e].amount = deposits[e].amount
    BY <1>1
  <1>4. ASSUME NEW ids \in SUBSET Confirmed, NEW more, more = ids \cup {d}
        PROVE  SumFunction([e \in more |-> deposits'[e].amount]) = Total(ids) + deposits[d].amount
    <2>1. /\ ids \in SUBSET DOMAIN deposits /\ d \in DOMAIN deposits \ ids
          /\ DOMAIN deposits' = DOMAIN deposits
          /\ \A e \in DOMAIN deposits : deposits'[e].amount = deposits[e].amount
      BY <1>1, <1>2, <1>3
    <2>2. SumFunction([e \in ids \cup {d} |-> deposits'[e].amount]) = Total(ids) + deposits[d].amount
      BY ONLY StoreTyped, <2>1, TotalMore
    <2> QED BY ONLY <1>4, <2>2
  <1>5. ASSUME NEW ids \in SUBSET Confirmed
        PROVE  SumFunction([e \in ids |-> deposits'[e].amount]) = Total(ids)
    <2>1. \A e \in ids : deposits'[e].amount = deposits[e].amount
      BY <1>2, <1>3
    <2>2. [e \in ids |-> deposits'[e].amount] = [e \in ids |-> deposits[e].amount]
      BY <2>1
    <2> QED BY <2>2 DEF Total
  <1>6. ASSUME NEW a, NEW day
        PROVE  Total(ConfirmedOn(a, day))'
                 = IF a = deposits[d].account /\ day = today
                   THEN Total(ConfirmedOn(a, day)) + deposits[d].amount
                   ELSE Total(ConfirmedOn(a, day))
    <2>1. ConfirmedOn(a, day) \in SUBSET Confirmed
      BY DEF ConfirmedOn
    <2>2. Total(ConfirmedOn(a, day))'
            = SumFunction([e \in ConfirmedOn(a, day)' |-> deposits'[e].amount])
      BY DEF Total
    <2>3. CASE a = deposits[d].account /\ day = today
      <3>1. ConfirmedOn(a, day)' = ConfirmedOn(a, day) \cup {d}
        BY <1>1, <1>2, <2>3 DEF ConfirmedOn
      <3> QED BY <1>4, <2>1, <2>2, <2>3, <3>1
    <2>4. CASE ~(a = deposits[d].account /\ day = today)
      <3>1. ConfirmedOn(a, day)' = ConfirmedOn(a, day)
        BY <1>1, <1>2, <2>4 DEF ConfirmedOn
      <3> QED BY <1>5, <2>1, <2>2, <2>4, <3>1
    <2> QED BY <2>3, <2>4
  <1>7. ASSUME NEW u
        PROVE  Total(ConfirmedFor(u))'
                 = IF u = deposits[d].player
                   THEN Total(ConfirmedFor(u)) + deposits[d].amount
                   ELSE Total(ConfirmedFor(u))
    <2>1. ConfirmedFor(u) \in SUBSET Confirmed
      BY DEF ConfirmedFor
    <2>2. Total(ConfirmedFor(u))'
            = SumFunction([e \in ConfirmedFor(u)' |-> deposits'[e].amount])
      BY DEF Total
    <2>3. CASE u = deposits[d].player
      <3>1. ConfirmedFor(u)' = ConfirmedFor(u) \cup {d}
        BY <1>1, <1>2, <2>3 DEF ConfirmedFor
      <3> QED BY <1>4, <2>1, <2>2, <2>3, <3>1
    <2>4. CASE u # deposits[d].player
      <3>1. ConfirmedFor(u)' = ConfirmedFor(u)
        BY <1>1, <1>2, <2>4 DEF ConfirmedFor
      <3> QED BY <1>5, <2>1, <2>2, <2>4, <3>1
    <2> QED BY <2>3, <2>4
  <1> QED BY <1>6, <1>7

-----------------------------------------------------------------------------
\* No step credits more than was confirmed.

\* What Does does to the jobs.
LEMMA DoesOne ==
  ASSUME JobTyped, NEW p \in Proc, NEW j, Does(p, j)
  PROVE  job'[p] = j /\ \A q \in Proc \ {p} : job'[q] = job[q]
  BY DEF JobTyped, Does

\* Balances, saved or read, are within what was confirmed.
LEMMA WithinCredit ==
  ASSUME MoneyInv
  PROVE  /\ \A u \in Player : balance[u] <= Credited(u) /\ saved[u] <= Credited(u)
         /\ \A p \in Proc : job[p].at = "sync" => job[p].read <= Credited(job[p].player)
  BY DEF MoneyInv, NeverOverCredited

\* A goroutine that reads a balance reads zero or what the database has, which is
\* within the player's credit; the other locking steps leave no balance to sync.
LEMMA LockMoney ==
  ASSUME Inv, MoneyInv, NEW p \in Proc,
         \/ \E u \in Player, m \in Amount :
              Request(p, u, m) \/ \E a \in Account : RequestOn(p, u, m, a)
         \/ \E d \in 1..MaxDeposits, at \in {"main", "reject"} : Decide(p, d, at)
         \/ \E a \in Account, s \in BOOLEAN : StartUpdate(p, a, s)
         \/ \E holdings \in SUBSET Account : StartList(p, holdings)
         \/ \E u \in Player : GetUser(p, u)
         \/ Announce(p) \/ LockMain(p)
         \/ List(p) \/ EnrichAccount(p) \/ LookUpOwner(p)
         \/ SelectAvailableAccount(p)
  PROVE  MoneyInv'
  <1>1. UNCHANGED storeVars
    BY LockStep
  <1>2. Kept /\ UNCHANGED used
    BY <1>1 DEF Kept, Confirmed, storeVars
  <1>3. \A u \in Player : balance'[u] <= Credited(u) /\ saved'[u] <= Credited(u)
    BY <1>1, WithinCredit DEF storeVars
  <1>4. ASSUME NEW j, Does(p, j), j.at # "sync" \/ j.read <= Credited(j.player)
        PROVE  MoneyInv'
    <2>1. job'[p] = j /\ \A q \in Proc \ {p} : job'[q] = job[q]
      BY <1>4, DoesOne DEF Inv
    <2>2. \A q \in Proc : \/ job'[q] = job[q]
                          \/ job'[q].at # "sync"
                          \/ job'[q].read <= Credited(job'[q].player)
      BY <1>4, <2>1
    <2> QED BY <1>2, <1>3, <2>2, KeptUse, KeptCredit DEF MoneyInv
  <1>5. ASSUME NEW u \in Player, GetUser(p, u)
        PROVE  MoneyInv'
    <2>1. PICK read \in {saved[u], 0} : Does(p, [at |-> "sync", player |-> u, read |-> read])
      BY <1>5 DEF GetUser
    <2>2. Credited(u) \in Nat /\ saved[u] <= Credited(u)
      BY CreditedTyped, WithinCredit DEF Inv
    <2>3. read <= Credited(u)
      BY <2>2
    <2> DEFINE j == [at |-> "sync", player |-> u, read |-> read]
    <2>4. Does(p, j) /\ j.read <= Credited(j.player)
      BY <2>1, <2>3
    <2> HIDE DEF j
    <2> QED BY <1>4, <2>4
  <1>6. CASE Announce(p)
    <2>1. job' = job
      BY <1>6 DEF Announce
    <2> QED BY <1>2, <1>3, <2>1, KeptUse, KeptCredit DEF MoneyInv
  <1>7. CASE ~(\E u \in Player : GetUser(p, u)) /\ ~Announce(p)
    <2>1. job[p].at = "main" => [job[p] EXCEPT !.at = "confirm"].at = "confirm"
      BY JobFields DEF Inv, Deciding
    <2>2. job \in [Proc -> {Idle} \cup Job]
      BY DEF Inv, JobTyped
    <2>3. PICK j : Does(p, j)
      <3> QED BY <1>7 DEF Request, RequestOn, Decide, StartUpdate, StartList, LockMain,
                          List, EnrichAccount, LookUpOwner, SelectAvailableAccount, Leaves
    <2>4. job'[p].at # "sync"
      <3>1. CASE \E u \in Player, m \in Amount :
                   Request(p, u, m) \/ \E a \in Account : RequestOn(p, u, m, a)
        BY <2>2, <3>1 DEF Request, RequestOn, Does
      <3>2. CASE \E d \in 1..MaxDeposits, at \in {"main", "reject"} : Decide(p, d, at)
        BY <2>2, <3>2 DEF Decide, Does
      <3>3. CASE \E a \in Account, s \in BOOLEAN : StartUpdate(p, a, s)
        BY <2>2, <3>3 DEF StartUpdate, Does
      <3>4. CASE \E holdings \in SUBSET Account : StartList(p, holdings)
        BY <2>2, <3>4 DEF StartList, Does
      <3>5. CASE LockMain(p)
        BY <2>1, <2>2, <3>5 DEF LockMain, Does
      <3>6. CASE List(p) \/ EnrichAccount(p)
        <4>1. PICK i \in {Idle, [job[p] EXCEPT !.at = "enrich"], [job[p] EXCEPT !.at = "owner"]} :
                Does(p, i)
          BY <3>6 DEF List, EnrichAccount
        <4>2. job[p].at \in {"list", "enrich"}
          BY <3>6 DEF List, EnrichAccount
        <4>3. i.at # "sync"
          <5>1. job[p] \in [at : {"list", "enrich", "owner"}, left : SUBSET Account]
            BY <4>2, JobFields DEF Inv
          <5>2. /\ [job[p] EXCEPT !.at = "enrich"].at = "enrich"
                /\ [job[p] EXCEPT !.at = "owner"].at = "owner" /\ Idle.at = "idle"
            BY <5>1 DEF Idle
          <5> QED BY ONLY <4>1, <5>2
        <4> QED BY <2>2, <4>1, <4>3 DEF Does
      <3>7. CASE LookUpOwner(p)
        BY <2>2, <3>7 DEF LookUpOwner, Idle, Does
      <3>8. CASE SelectAvailableAccount(p)
        BY <2>2, <3>8 DEF SelectAvailableAccount, Leaves, Idle, Does
      <3> QED BY <1>7, <3>1, <3>2, <3>3, <3>4, <3>5, <3>6, <3>7, <3>8
    <2>5. j.at # "sync"
      BY <2>3, <2>4, DoesOne DEF Inv
    <2> QED BY <1>4, <2>3, <2>5
  <1> QED BY <1>5, <1>6, <1>7

\* Nothing is confirmed or credited by the other writes to the requests.
LEMMA WritesMoney ==
  ASSUME Inv, MoneyInv, NEW p \in Proc,
         \/ CreateDepositRequest(p)
         \/ ConfirmDeposit(p) /\ ~Confirmable(deposits[job[p].id])
         \/ RejectDeposit(p) \/ UpdateBankAccount(p)
  PROVE  MoneyInv'
  <1>1. UNCHANGED <<used, balance, saved>> /\ Does(p, Idle)
    BY Created, OtherWrites DEF CreateDepositRequest, Leaves
  <1>2. Kept
    <2>1. CASE CreateDepositRequest(p)
      BY <2>1, Created DEF Kept, Confirmed
    <2>2. CASE ~CreateDepositRequest(p)
      <3>1. /\ DOMAIN deposits' = DOMAIN deposits
            /\ \A d \in DOMAIN deposits :
                 \/ deposits'[d] = deposits[d]
                 \/ deposits[d].status = "pending" /\ deposits'[d].status = "rejected"
        BY <2>2, OtherWrites
      <3> QED BY <3>1 DEF Kept, Confirmed
    <2> QED BY <2>1, <2>2
  <1>3. \A u \in Player : balance'[u] <= Credited(u) /\ saved'[u] <= Credited(u)
    BY <1>1, WithinCredit
  <1>4. job'[p] = Idle /\ \A q \in Proc \ {p} : job'[q] = job[q]
    BY <1>1, DoesOne DEF Inv
  <1>5. \A q \in Proc : job'[q] = job[q] \/ job'[q].at # "sync"
    BY <1>4 DEF Idle
  <1> QED BY <1>1, <1>2, <1>3, <1>5, KeptUse, KeptCredit DEF MoneyInv

\* A confirmation adds the same amount to the account's use of the day and to the
\* player's credit, and is refused beyond the limit.
LEMMA ConfirmMoney ==
  ASSUME Inv, MoneyInv, NEW p \in Proc, ConfirmDeposit(p), Confirmable(deposits[job[p].id])
  PROVE  MoneyInv'
  <1>1. /\ UNCHANGED <<saved, today>> /\ job[p].at = "confirm" /\ Does(p, Idle)
        /\ StoreTyped
    BY Confirms DEF Inv
  <1>2. PICK d \in DOMAIN deposits :
          /\ deposits' = [deposits EXCEPT ![d].status = "confirmed", ![d].day = today]
          /\ deposits[d].status = "pending"
          /\ used[deposits[d].account][today] + deposits[d].amount <= DailyLimit
          /\ used' = [used EXCEPT ![deposits[d].account][today] = @ + deposits[d].amount]
          /\ balance' = [balance EXCEPT ![deposits[d].player] = @ + deposits[d].amount]
    BY Confirms
  <1>3. /\ deposits[d].player \in Player /\ deposits[d].account \in Account
        /\ deposits[d].amount \in Nat /\ today \in Day
    BY <1>1, RequestTyped DEF StoreTyped
  <1>4. PICK b \in Account, v \in Player, m \in Nat :
          b = deposits[d].account /\ v = deposits[d].player /\ m = deposits[d].amount
    BY <1>3
  <1>5. /\ \A a, day : Total(ConfirmedOn(a, day))'
                         = IF a = b /\ day = today THEN Total(ConfirmedOn(a, day)) + m
                                                   ELSE Total(ConfirmedOn(a, day))
        /\ \A u : Total(ConfirmedFor(u))'
                    = IF u = v THEN Total(ConfirmedFor(u)) + m ELSE Total(ConfirmedFor(u))
    BY <1>1, <1>2, <1>4, ConfirmCounts
  <1>6. ASSUME NEW a \in Account, NEW day \in Day
        PROVE  UseKept(a, day)'
    <2>1. used[a] \in [Day -> Nat] /\ used[a][day] \in Nat
      BY <1>1 DEF StoreTyped
    <2>2. used'[a][day] = IF a = b /\ day = today THEN used[a][day] + m ELSE used[a][day]
      BY <1>1, <1>2, <1>3, <1>4 DEF StoreTyped
    <2>3. used[b][today] + m <= DailyLimit
      BY <1>2, <1>4
    <2>4. used[a][day] <= DailyLimit /\ used[a][day] = Total(ConfirmedOn(a, day))
      BY DEF MoneyInv, UseKept
    <2>5. used'[a][day] <= DailyLimit
      BY <2>2, <2>3, <2>4
    <2>6. used'[a][day] = Total(ConfirmedOn(a, day))'
      BY <1>5, <2>2, <2>4
    <2> QED BY <2>5, <2>6 DEF UseKept
  <1>7. ASSUME NEW u \in Player
        PROVE  /\ Credited(u)' \in Nat
               /\ balance'[u] <= Credited(u)' /\ saved'[u] <= Credited(u)'
               /\ Credited(u) <= Credited(u)' /\ Credited(u) \in Nat
    <2>1. Credited(u) \in Nat /\ balance[u] <= Credited(u) /\ saved[u] <= Credited(u)
      BY <1>1, CreditedTyped, WithinCredit
    <2>2. Total(ConfirmedFor(u)) \in Nat /\ OpeningBalance[u] \in Nat
          /\ balance[u] \in Nat /\ saved[u] \in Nat
      <3>1. ConfirmedFor(u) \in SUBSET DOMAIN deposits
        BY DEF ConfirmedFor, Confirmed
      <3> QED BY <1>1, <3>1, TotalTyped, DepositsAssumption DEF StoreTyped
    <2>3. /\ Credited(u) = OpeningBalance[u] + Total(ConfirmedFor(u))
          /\ Credited(u)' = OpeningBalance[u] + Total(ConfirmedFor(u))'
      BY DEF Credited, ConfirmedFor
    <2>4. Credited(u)' = IF u = v THEN Credited(u) + m ELSE Credited(u)
      BY <1>5, <2>2, <2>3
    <2>5. balance'[u] = IF u = v THEN balance[u] + m ELSE balance[u]
      BY <1>1, <1>2, <1>4 DEF StoreTyped
    <2> QED BY <1>1, <2>1, <2>2, <2>4, <2>5
  <1>8. ASSUME NEW q \in Proc, job'[q].at = "sync"
        PROVE  (job[q].read <= Credited(job[q].player))'
    <2>1. job'[q] = job[q]
      BY <1>1, <1>8, DoesOne DEF Inv, Idle
    <2>2. PICK u, n : u = job'[q].player /\ n = job'[q].read
      OBVIOUS
    <2>3. u \in Player /\ n \in Nat /\ n <= Credited(u)
      BY <1>8, <2>1, <2>2, JobFields, WithinCredit DEF Inv
    <2>4. n <= Credited(u)'
      BY <1>7, <2>3
    <2> QED BY ONLY <2>2, <2>4 DEF Credited, Total, Confirmed
  <1>9. NeverOverCredited'
    BY ONLY <1>7, <1>8 DEF NeverOverCredited, Credited, Total, Confirmed
  <1> QED BY <1>6, <1>9 DEF MoneyInv

\* The balances in memory and in the database are replaced by one another, and by what
\* was read before: all within the credit.
LEMMA BalanceMoney ==
  ASSUME Inv, MoneyInv, \/ \E p \in Proc : SyncBalance(p)
                        \/ \E u \in Player : SaveBalance(u)
                        \/ NextDay
  PROVE  MoneyInv'
  <1>1. Kept /\ UNCHANGED used
    BY BalanceStep DEF Kept, Confirmed
  <1>2. \A u \in Player : balance'[u] <= Credited(u) /\ saved'[u] <= Credited(u)
    <2>1. balance \in [Player -> Nat] /\ saved \in [Player -> Nat]
      BY DEF Inv, StoreTyped
    <2>2. ASSUME NEW p \in Proc, SyncBalance(p)
          PROVE  \A u \in Player : balance'[u] <= Credited(u) /\ saved'[u] <= Credited(u)
      <3>1. /\ job[p].read <= Credited(job[p].player) /\ saved' = saved
            /\ balance' = balance \/ balance' = [balance EXCEPT ![job[p].player] = job[p].read]
        BY <2>2, WithinCredit DEF SyncBalance
      <3> QED BY <2>1, <3>1, WithinCredit
    <2>3. ASSUME NEW v \in Player, SaveBalance(v)
          PROVE  \A u \in Player : balance'[u] <= Credited(u) /\ saved'[u] <= Credited(u)
      BY <2>1, <2>3, WithinCredit DEF SaveBalance
    <2>4. CASE NextDay
      BY <2>4, WithinCredit DEF NextDay
    <2> QED BY <2>2, <2>3, <2>4
  <1>3. \A q \in Proc : job'[q] = job[q] \/ job'[q].at # "sync"
    BY DoesOne DEF SyncBalance, SaveBalance, NextDay, Inv, Idle
  <1> QED BY <1>1, <1>2, <1>3, KeptUse, KeptCredit DEF MoneyInv

\* The money is as the confirmed requests say, in every state.
THEOREM MoneyKept == Spec => [](Inv /\ MoneyInv)
  <1>1. Init => MoneyInv
    <2> SUFFICES ASSUME Init PROVE MoneyInv
      OBVIOUS
    <2>1. Confirmed = {}
      BY DEF Init, Confirmed
    <2>2. Total({}) = 0
      BY TotalIsSum, SumEmpty
    <2>3. \A a \in Account, day \in Day : UseKept(a, day)
      <3>1. \A a, day : ConfirmedOn(a, day) = {}
        BY <2>1 DEF ConfirmedOn
      <3>2. ASSUME NEW a \in Account, NEW day \in Day
            PROVE  UseKept(a, day)
        <4>1. used[a][day] = 0 /\ Total(ConfirmedOn(a, day)) = 0
          BY <2>2, <3>1 DEF Init
        <4> QED BY <4>1, DepositsAssumption DEF UseKept
      <3> QED BY <3>2
    <2>4. \A u \in Player : Credited(u) = OpeningBalance[u]
      <3>1. \A u : {d \in Confirmed : deposits[d].player = u} = {}
        BY <2>1
      <3> QED BY <2>2, <3>1, DepositsAssumption DEF Credited
    <2>5. NeverOverCredited
      BY <2>4, DepositsAssumption DEF Init, NeverOverCredited, Idle
    <2> QED BY <2>3, <2>5 DEF MoneyInv
  <1>2. Inv /\ MoneyInv /\ [Next]_vars => MoneyInv'
    <2> SUFFICES ASSUME Inv, MoneyInv, [Next]_vars PROVE MoneyInv'
      OBVIOUS
    <2>1. CASE UNCHANGED vars
      <3>1. Kept /\ UNCHANGED <<used, balance, saved, job>>
        BY <2>1 DEF vars, Kept, Confirmed
      <3> QED BY <3>1, WithinCredit, KeptUse, KeptCredit DEF MoneyInv
    <2> QED BY <2>1, StepKinds, LockMoney, WritesMoney, ConfirmMoney, BalanceMoney
  <1> QED BY <1>1, <1>2, Invariance, PTL DEF Spec

\* However many goroutines decide on the requests of an account and however the days
\* pass between, its use of a day is what was confirmed on it that day, and within
\* the limit.
THEOREM UsageKept == Spec => []UsageWithinLimit
  <1>1. Inv /\ MoneyInv => UsageWithinLimit
    BY DEF Inv, MoneyInv, UseKept, ConfirmedOn, UsageWithinLimit, TypeOK,
           JobTyped, LockInv, StoreTyped
  <1> QED BY <1>1, MoneyKept, PTL

\* A player is credited what was confirmed, at most: in memory, in the database, and
\* by what a goroutine has read of the one and will write to the other.
THEOREM CreditKept == Spec => []NeverOverCredited
  BY MoneyKept, PTL DEF MoneyInv

-----------------------------------------------------------------------------
\* DepositRecords: rows and requests

\* What a request filed is.
FiledRequest ==
  [id : Filing!Number, saved : BOOLEAN, account : Filing!Number, amount : DepositAmount,
   status : Filing!Status, day : Filing!Day, reference : BOOLEAN, given : BOOLEAN, late : BOOLEAN]

DeskJob ==
  {Filing!Free}
    \cup [at : {"file"}, account : Filing!Number, amount : DepositAmount]
    \cup [at : {"attach"}, request : DOMAIN recordFiled]
    \cup [at : {"confirm"}, id : Filing!Number, reference : BOOLEAN]

\* Values of every variable, what goroutines are about included.
FilingTyped ==
  /\ Filing!RecordsTypeOK
  /\ desk \in [Clerk -> DeskJob]
  /\ \A n \in DOMAIN recordRequests : recordRequests[n] \in DOMAIN recordFiled

\* A row is of the request that was filed under its number when it was saved.
NumbersInv ==
  /\ DOMAIN requestRows \subseteq 1..requestNumbers.table
  /\ \A n \in DOMAIN requestRows :
       recordFiled[requestRows[n].of].saved /\ recordFiled[requestRows[n].of].id = n
  /\ \A s \in DOMAIN recordFiled :
       recordFiled[s].saved =>
         recordFiled[s].id \in DOMAIN requestRows /\ requestRows[recordFiled[s].id].of = s

\* Until a restart the process counts at least what the table does; as long as they count
\* alike, requests are in memory as they were filed.
AlikeInv ==
  (\A day \in Filing!Day : recordRestarts[day] = 0) =>
    /\ requestNumbers.table <= requestNumbers.memory
    /\ requestNumbers.table = requestNumbers.memory =>
         /\ Len(recordFiled) = requestNumbers.memory
         /\ \A s \in DOMAIN recordFiled :
              recordFiled[s].id = s /\ s \in DOMAIN recordRequests /\ recordRequests[s] = s

\* What an account can have received in a day: today, what the processes that ended let
\* through and what this one counted; on a day gone by, a limit of the last one too.
Bound(n, day) ==
  IF day = recordToday THEN DepositLimit * recordRestarts[day] + Filing!Used(usage, n, day)
  ELSE IF day < recordToday THEN DepositLimit * (1 + recordRestarts[day])
  ELSE 0

ReceivedInv ==
  \A n \in Filing!Number, day \in Filing!Day : Filing!Received(n, day) <= Bound(n, day)

\* Who opened a request after its reference was attached has read the reference.
ReadInv ==
  \A p \in Clerk :
    desk[p].at = "confirm" /\ desk[p].id \in DOMAIN recordRequests =>
      LET r == recordFiled[recordRequests[desk[p].id]]
      IN  r.given /\ ~r.late => desk[p].reference

FilingInv ==
  /\ FilingTyped /\ NumbersInv /\ AlikeInv /\ ReceivedInv /\ ReadInv
  /\ Filing!RowsTell /\ Filing!ReferenceKept

-----------------------------------------------------------------------------

\* A function given a value at a key.
LEMMA PutIs ==
  ASSUME NEW f, NEW k, NEW x, NEW g, g = Filing!Put(f, k, x)
  PROVE  /\ \A i : i \in DOMAIN g <=> i \in DOMAIN f \/ i = k
         /\ g[k] = x
         /\ \A i \in DOMAIN f \ {k} : g[i] = f[i]
BY DEF Filing!Put

\* What is filed anew is there under its row's number, and nothing else is new.
LEMMA RefiledIs ==
  ASSUME NEW f, NEW temp, NEW row, NEW x, NEW g, g = Filing!Refiled(f, temp, row, x)
  PROVE  /\ \A i : i \in DOMAIN g <=> i = row \/ (i \in DOMAIN f /\ i # temp)
         /\ g[row] = x
         /\ \A i \in DOMAIN f \ {temp, row} : g[i] = f[i]
BY DEF Filing!Put, Filing!Drop, Filing!Refiled

LEMMA ReceivedIs ==
  ASSUME NEW n, NEW day
  PROVE  /\ Filing!Received(n, day) = SumFunctionOnSet(Filing!Amounts, Filing!ConfirmedOn(n, day))
         /\ Filing!Received(n, day)'
              = SumFunctionOnSet(Filing!Amounts', Filing!ConfirmedOn(n, day)')
BY DEF Filing!Received, SumFunctionOnSet, FoldFunctionOnSet, MapThenFoldSet,
       Filing!SumFunctionOnSet, Filing!FoldFunctionOnSet, Filing!MapThenFoldSet

\* The requests that count for an account and a day are finitely many, of known amounts.
LEMMA CountedRequests ==
  ASSUME recordFiled \in Seq(FiledRequest), NEW n, NEW day
  PROVE  /\ IsFiniteSet(Filing!ConfirmedOn(n, day))
         /\ \A s \in Filing!ConfirmedOn(n, day) :
              s \in DOMAIN recordFiled /\ Filing!Amounts[s] = recordFiled[s].amount
              /\ Filing!Amounts[s] \in Nat
         /\ Filing!Received(n, day) \in Int
<1>1. IsFiniteSet(Filing!ConfirmedOn(n, day))
  <2>1. Filing!ConfirmedOn(n, day) \subseteq 1..Len(recordFiled)
    BY DEF Filing!ConfirmedOn
  <2>2. IsFiniteSet(1..Len(recordFiled))
    <3>1. 1 \in Int /\ Len(recordFiled) \in Int
      OBVIOUS
    <3> QED BY ONLY <3>1, FS_Interval
  <2> QED BY <2>1, <2>2, FS_Subset
<1>2. \A s \in DOMAIN recordFiled : recordFiled[s] \in FiledRequest
  OBVIOUS
<1>3. \A r \in FiledRequest : r.amount \in Nat
  BY RecordsAssumption DEF FiledRequest, RecordsAssumption
<1>4. \A s \in Filing!ConfirmedOn(n, day) :
        s \in DOMAIN recordFiled /\ Filing!Amounts[s] = recordFiled[s].amount
        /\ Filing!Amounts[s] \in Nat
  BY <1>2, <1>3 DEF Filing!ConfirmedOn, Filing!Amounts
<1>5. \A s \in Filing!ConfirmedOn(n, day) : Filing!Amounts[s] \in Int
  BY <1>4
<1> QED BY <1>1, <1>4, <1>5, SumInt, ReceivedIs

\* The limit of one more process.
LEMMA OneMoreLimit ==
  ASSUME NEW r \in Nat
  PROVE  /\ DepositLimit * r \in Nat
         /\ DepositLimit * (r + 1) = DepositLimit * r + DepositLimit
         /\ DepositLimit * (1 + r) = DepositLimit * r + DepositLimit
BY RecordsAssumption DEF RecordsAssumption

\* The bounded counters and the totals.
TotalsTyped ==
  /\ \A f \in {usage, usageRows} :
       DOMAIN f \subseteq Filing!Number \X Filing!Day
       /\ \A k \in DOMAIN f : f[k] \in 0..DepositLimit
  /\ recordToday \in Filing!Day
  /\ recordFaults \in 0..MaxDepositFaults /\ recordRestarts \in [Filing!Day -> Nat]

AccountsTyped ==
  /\ \A f \in {accounts, accountRows} :
       DOMAIN f \subseteq Filing!Number /\ \A n \in DOMAIN f : f[n] \in BOOLEAN
  /\ accountNumbers \in Filing!Counters

RequestsTyped ==
  /\ requestNumbers \in Filing!Counters
  /\ recordFiled \in Seq(FiledRequest)
  /\ DOMAIN recordRequests \subseteq Filing!Number
  /\ \A n \in DOMAIN recordRequests :
       recordRequests[n] \in DOMAIN recordFiled /\ recordFiled[recordRequests[n]].id = n
  /\ DOMAIN requestRows \subseteq Filing!Number
  /\ \A n \in DOMAIN requestRows :
       requestRows[n] \in [of : DOMAIN recordFiled, status : Filing!Status]
  /\ unsure \subseteq Filing!Number

LEMMA TypedParts ==
  /\ FilingTyped <=>
       TotalsTyped /\ AccountsTyped /\ RequestsTyped /\ desk \in [Clerk -> DeskJob]
  /\ FilingTyped' <=>
       TotalsTyped' /\ AccountsTyped' /\ RequestsTyped' /\ desk' \in [Clerk -> DeskJob']
BY DEF FilingTyped, Filing!RecordsTypeOK, TotalsTyped, AccountsTyped, RequestsTyped, FiledRequest

\* A sum within a limit for each start of the process.
LEMMA WithinStarts ==
  ASSUME NEW r \in Nat, NEW u \in 0..DepositLimit, NEW b,
         b = DepositLimit * r + u \/ b = DepositLimit * (1 + r) \/ b = 0
  PROVE  b \in Nat /\ b <= DepositLimit * (1 + r)
<1> DEFINE k == DepositLimit * r
           l == DepositLimit * (1 + r)
<1>1. k \in Nat /\ l = k + DepositLimit /\ DepositLimit \in Nat
  BY OneMoreLimit, RecordsAssumption DEF RecordsAssumption
<1>2. b = k + u \/ b = l \/ b = 0
  OBVIOUS
<1> HIDE DEF k, l
<1>3. b \in Nat /\ b <= l
  BY <1>1, <1>2
<1> QED BY <1>3 DEF l

\* The bound is a number, and no more than the limit for each start of the process, before
\* a step and after it.
BoundTyped(n, day) ==
  /\ recordRestarts[day] \in Nat /\ Filing!Used(usage, n, day) \in 0..DepositLimit
  /\ Bound(n, day) \in Nat
  /\ Bound(n, day) <= DepositLimit * (1 + recordRestarts[day])

LEMMA BoundIs ==
  ASSUME NEW n, NEW day \in Filing!Day
  PROVE  /\ TotalsTyped => BoundTyped(n, day)
         /\ TotalsTyped' => BoundTyped(n, day)'
<1>1. ASSUME TotalsTyped PROVE BoundTyped(n, day)
  <2>1. recordRestarts[day] \in Nat /\ Filing!Used(usage, n, day) \in 0..DepositLimit
    BY <1>1, RecordsAssumption DEF TotalsTyped, Filing!Used, RecordsAssumption
  <2>2. \/ Bound(n, day) = DepositLimit * recordRestarts[day] + Filing!Used(usage, n, day)
        \/ Bound(n, day) = DepositLimit * (1 + recordRestarts[day]) \/ Bound(n, day) = 0
    BY DEF Bound
  <2> QED BY <2>1, <2>2, WithinStarts DEF BoundTyped
<1>2. ASSUME TotalsTyped' PROVE BoundTyped(n, day)'
  <2>1. recordRestarts'[day] \in Nat /\ Filing!Used(usage, n, day)' \in 0..DepositLimit
    BY <1>2, RecordsAssumption DEF TotalsTyped, Filing!Used, RecordsAssumption
  <2>2. \/ Bound(n, day)' = DepositLimit * recordRestarts'[day] + Filing!Used(usage, n, day)'
        \/ Bound(n, day)' = DepositLimit * (1 + recordRestarts'[day]) \/ Bound(n, day)' = 0
    BY DEF Bound
  <2> QED BY <2>1, <2>2, WithinStarts DEF BoundTyped
<1> QED BY <1>1, <1>2

\* It changes with the day, the day's totals and the restarts only.
LEMMA BoundSame ==
  ASSUME NEW n, NEW day, UNCHANGED <<usage, recordToday, recordRestarts>>
  PROVE  Bound(n, day)' = Bound(n, day)
BY DEF Bound, Filing!Used

LEMMA FilingInitInv == Filing!RecordsInit => FilingInv
<1> SUFFICES ASSUME Filing!RecordsInit PROVE FilingInv
  OBVIOUS
<1> USE RecordsAssumption DEF Filing!RecordsInit, RecordsAssumption
<1>1. FilingTyped
  <2>1. /\ DOMAIN Filing!Seeds \subseteq Filing!Number
        /\ \A n \in DOMAIN Filing!Seeds : Filing!Seeds[n] \in BOOLEAN
    BY DEF Filing!Seeds, Filing!Number
  <2>2. 0 \in Filing!Day /\ 0 \in 0..MaxNumber /\ 0 \in 0..MaxDepositFaults
        /\ recordRestarts \in [Filing!Day -> Nat]
    BY DEF Filing!Day
  <2>3. accountNumbers \in Filing!Counters /\ requestNumbers \in Filing!Counters
    BY <2>2 DEF Filing!Counters
  <2>4. recordFiled \in Seq(FiledRequest)
    OBVIOUS
  <2>5. \A f \in {<<>>} : DOMAIN f = {}
    OBVIOUS
  <2>6. Filing!RecordsTypeOK
    <3>1. \A f \in {accounts, accountRows} :
            DOMAIN f \subseteq Filing!Number /\ \A n \in DOMAIN f : f[n] \in BOOLEAN
      BY <2>1, <2>5
    <3> QED BY <2>2, <2>3, <2>4, <2>5, <3>1 DEF Filing!RecordsTypeOK, FiledRequest
  <2>7. desk \in [Clerk -> DeskJob]
    BY DEF DeskJob
  <2> QED BY <2>5, <2>6, <2>7 DEF FilingTyped
<1>2. DOMAIN recordFiled = {} /\ DOMAIN requestRows = {} /\ Len(recordFiled) = 0 /\ DOMAIN usage = {}
  OBVIOUS
<1>3. NumbersInv
  BY <1>2 DEF NumbersInv
<1>4. AlikeInv
  BY <1>2 DEF AlikeInv
<1>5. ReceivedInv
  <2> SUFFICES ASSUME NEW n \in Filing!Number, NEW day \in Filing!Day
               PROVE  Filing!Received(n, day) <= Bound(n, day)
    BY DEF ReceivedInv
  <2>1. Filing!ConfirmedOn(n, day) = {}
    BY <1>2 DEF Filing!ConfirmedOn
  <2>2. Filing!Received(n, day) = 0
    BY ONLY <2>1, SumEmpty, ReceivedIs
  <2>3. Bound(n, day) \in Nat
    <3>1. TotalsTyped
      BY <1>1, TypedParts
    <3> QED BY <3>1, BoundIs DEF BoundTyped
  <2> QED BY <2>2, <2>3
<1>6. ReadInv
  BY DEF ReadInv, Filing!Free
<1>7. Filing!RowsTell /\ Filing!ReferenceKept
  BY <1>2 DEF Filing!RowsTell, Filing!ReferenceKept
<1> QED BY <1>1, <1>3, <1>4, <1>5, <1>6, <1>7 DEF FilingInv

\* The invariant says what the run checks.
LEMMA FilingInvHolds ==
  ASSUME FilingInv
  PROVE  /\ Filing!RecordsTypeOK /\ Filing!ReceivedWithinLimit /\ Filing!RowsTell
         /\ Filing!FiledIsFound /\ Filing!ReferenceKept
<1>1. Filing!ReceivedWithinLimit
  <2> SUFFICES ASSUME NEW n \in Filing!Number, NEW day \in Filing!Day
               PROVE  Filing!Received(n, day) <= DepositLimit * (1 + recordRestarts[day])
    BY DEF Filing!ReceivedWithinLimit
  <2>1. /\ Bound(n, day) \in Nat /\ recordRestarts[day] \in Nat
        /\ Bound(n, day) <= DepositLimit * (1 + recordRestarts[day])
    BY TypedParts, BoundIs DEF BoundTyped, FilingInv
  <2>2. DepositLimit * (1 + recordRestarts[day]) \in Nat
    BY <2>1, OneMoreLimit, RecordsAssumption DEF RecordsAssumption
  <2>3. Filing!Received(n, day) <= Bound(n, day)
    BY DEF FilingInv, ReceivedInv
  <2>4. Filing!Received(n, day) \in Int
    <3>1. recordFiled \in Seq(FiledRequest)
      BY DEF FilingInv, FilingTyped, Filing!RecordsTypeOK, FiledRequest
    <3> QED BY <3>1, CountedRequests
  <2> DEFINE k == DepositLimit * (1 + recordRestarts[day])
  <2> HIDE DEF k
  <2>5. Bound(n, day) <= k /\ k \in Nat
    BY <2>1, <2>2 DEF k
  <2>6. Filing!Received(n, day) <= k
    BY <2>1, <2>3, <2>4, <2>5
  <2> QED BY <2>6 DEF k
<1>2. Filing!FiledIsFound
  BY DEF FilingInv, AlikeInv, Filing!FiledIsFound
<1> QED BY <1>1, <1>2 DEF FilingInv, FilingTyped

-----------------------------------------------------------------------------

\* Steps that leave requests and totals alone.
LEMMA OtherFilingStep ==
  ASSUME FilingInv, UNCHANGED Filing!requestVars, UNCHANGED recordRestarts
  PROVE  /\ NumbersInv' /\ AlikeInv' /\ Filing!RowsTell' /\ Filing!ReferenceKept'
         /\ UNCHANGED <<usage, recordToday>> => ReceivedInv'
<1> USE DEF FilingInv, Filing!requestVars
<1>1. NumbersInv'
  BY DEF NumbersInv
<1>2. AlikeInv'
  BY DEF AlikeInv
<1>3. ASSUME UNCHANGED <<usage, recordToday>> PROVE ReceivedInv'
  <2>1. \A n \in Filing!Number, day \in Filing!Day :
          Filing!Received(n, day)' = Filing!Received(n, day) /\ Bound(n, day)' = Bound(n, day)
    BY <1>3, BoundSame DEF Filing!Received, Filing!Amounts, Filing!ConfirmedOn
  <2> QED BY <2>1 DEF ReceivedInv
<1>4. Filing!RowsTell' /\ Filing!ReferenceKept'
  BY DEF Filing!RowsTell, Filing!ReferenceKept
<1> QED BY <1>1, <1>2, <1>3, <1>4

\* A goroutine goes on to a job of another kind.
LEMMA DeskGoesOn ==
  ASSUME FilingInv, NEW p \in Clerk, NEW due, due \in DeskJob',
         DOMAIN recordFiled \subseteq DOMAIN recordFiled', Filing!Goes(p, due)
  PROVE  desk' \in [Clerk -> DeskJob'] /\ desk'[p] = due /\ \A q \in Clerk \ {p} : desk'[q] = desk[q]
<1>1. DeskJob \subseteq DeskJob'
  BY DEF DeskJob
<1> QED BY <1>1 DEF FilingInv, FilingTyped, Filing!Goes

\* Statuses of accounts, with one more.
LEMMA StatusesOf ==
  ASSUME NEW f, DOMAIN f \subseteq Filing!Number, \A n \in DOMAIN f : f[n] \in BOOLEAN,
         NEW temp \in Filing!Number, NEW row \in Filing!Number,
         NEW b \in BOOLEAN,
         NEW g, g = Filing!Refiled(f, temp, row, b) \/ g = Filing!Put(f, temp, b) \/ g = f
  PROVE  DOMAIN g \subseteq Filing!Number /\ \A n \in DOMAIN g : g[n] \in BOOLEAN
<1>1. CASE g = Filing!Refiled(f, temp, row, b)
  BY <1>1, RefiledIs
<1>2. CASE g = Filing!Put(f, temp, b)
  BY <1>2, PutIs
<1> QED BY <1>1, <1>2

LEMMA CreateBankAccountKeeps ==
  ASSUME FilingInv, NEW wrote \in BOOLEAN, Filing!CreateBankAccount(wrote)
  PROVE  FilingInv'
<1> DEFINE temp == accountNumbers.memory + 1
           row == accountNumbers.table + 1
<1> USE RecordsAssumption DEF Filing!CreateBankAccount, FilingInv, RecordsAssumption
<1>1. temp \in Filing!Number /\ row \in Filing!Number
  BY DEF FilingTyped, Filing!RecordsTypeOK, Filing!Counters, Filing!Number
<1>2. accountNumbers' \in Filing!Counters
  BY <1>1 DEF Filing!Counters, Filing!Number
<1>3. \A f \in {accounts, accountRows} :
        DOMAIN f \subseteq Filing!Number /\ \A n \in DOMAIN f : f[n] \in BOOLEAN
  BY DEF FilingTyped, Filing!RecordsTypeOK
<1>4. DOMAIN accounts' \subseteq Filing!Number /\ \A n \in DOMAIN accounts' : accounts'[n] \in BOOLEAN
  <2>1. accounts' = Filing!Refiled(accounts, temp, row, TRUE) \/ accounts' = Filing!Put(accounts, temp, TRUE)
    OBVIOUS
  <2> QED BY ONLY <1>1, <1>3, <2>1, StatusesOf
<1>5. DOMAIN accountRows' \subseteq Filing!Number /\ \A n \in DOMAIN accountRows' : accountRows'[n] \in BOOLEAN
  <2>1. accountRows' = Filing!Put(accountRows, row, TRUE) \/ accountRows' = accountRows
    OBVIOUS
  <2> QED BY ONLY <1>1, <1>3, <2>1, StatusesOf
<1>6. recordFaults' \in 0..MaxDepositFaults
  BY DEF FilingTyped, Filing!RecordsTypeOK, Filing!Fail, Filing!Count
<1>7. UNCHANGED <<Filing!requestVars, Filing!usageVars, desk, recordToday, recordRestarts>>
  OBVIOUS
<1>8. FilingTyped'
  <2>1. Filing!RecordsTypeOK'
    BY <1>2, <1>4, <1>5, <1>6, <1>7
       DEF FilingTyped, Filing!RecordsTypeOK, Filing!requestVars, Filing!usageVars
  <2> QED BY <1>7, <2>1 DEF FilingTyped, DeskJob, Filing!requestVars
<1>9. ReadInv'
  BY <1>7 DEF ReadInv, Filing!requestVars
<1> QED BY <1>7, <1>8, <1>9, OtherFilingStep DEF Filing!usageVars

LEMMA UpdateBankAccountKeeps ==
  ASSUME FilingInv, NEW n \in Filing!Number, NEW status \in BOOLEAN, NEW wrote \in BOOLEAN,
         Filing!UpdateBankAccount(n, status, wrote)
  PROVE  FilingInv'
<1> USE RecordsAssumption DEF Filing!UpdateBankAccount, FilingInv, RecordsAssumption
<1>1. \A f \in {accounts, accountRows} :
        DOMAIN f \subseteq Filing!Number /\ \A i \in DOMAIN f : f[i] \in BOOLEAN
  BY DEF FilingTyped, Filing!RecordsTypeOK
<1>2. DOMAIN accounts' \subseteq Filing!Number /\ \A i \in DOMAIN accounts' : accounts'[i] \in BOOLEAN
  BY <1>1
<1>3. DOMAIN accountRows' \subseteq Filing!Number /\ \A i \in DOMAIN accountRows' : accountRows'[i] \in BOOLEAN
  BY <1>1
<1>4. recordFaults' \in 0..MaxDepositFaults
  BY DEF FilingTyped, Filing!RecordsTypeOK, Filing!Fail, Filing!Count
<1>5. UNCHANGED <<Filing!requestVars, Filing!usageVars, desk, recordToday, recordRestarts>>
  OBVIOUS
<1>6. FilingTyped'
  <2>1. Filing!RecordsTypeOK'
    BY <1>2, <1>3, <1>4, <1>5
       DEF FilingTyped, Filing!RecordsTypeOK, Filing!requestVars, Filing!usageVars
  <2> QED BY <1>5, <2>1 DEF FilingTyped, DeskJob, Filing!requestVars
<1>7. ReadInv'
  BY <1>5 DEF ReadInv, Filing!requestVars
<1> QED BY <1>5, <1>6, <1>7, OtherFilingStep DEF Filing!usageVars

\* A goroutine takes up another job, and that is all.
LEMMA DeskStep ==
  ASSUME FilingInv, NEW p \in Clerk, NEW due \in DeskJob, Filing!Goes(p, due),
         due.at = "confirm" /\ due.id \in DOMAIN recordRequests =>
           LET r == recordFiled[recordRequests[due.id]] IN r.given /\ ~r.late => due.reference,
         UNCHANGED <<Filing!accountVars, Filing!requestVars, Filing!usageVars, recordToday,
                     recordFaults, recordRestarts>>
  PROVE  FilingInv'
<1>1. /\ desk' \in [Clerk -> DeskJob'] /\ desk'[p] = due
      /\ \A q \in Clerk \ {p} : desk'[q] = desk[q]
  <2>1. recordFiled' = recordFiled
    BY DEF Filing!requestVars
  <2>2. due \in DeskJob'
    BY <2>1 DEF DeskJob
  <2> QED BY <2>1, <2>2, DeskGoesOn
<1>2. FilingTyped'
  <2>1. Filing!RecordsTypeOK'
    BY DEF FilingInv, FilingTyped, Filing!RecordsTypeOK, Filing!accountVars, Filing!requestVars, Filing!usageVars
  <2> QED BY <1>1, <2>1 DEF FilingInv, FilingTyped, Filing!requestVars
<1>3. ReadInv'
  BY <1>1 DEF FilingInv, ReadInv, Filing!requestVars
<1> QED BY <1>2, <1>3, OtherFilingStep DEF FilingInv, Filing!usageVars

LEMMA RequestKeeps ==
  ASSUME FilingInv, NEW p \in Clerk, NEW n \in Filing!Number, NEW amount \in DepositAmount,
         Filing!Request(p, n, amount)
  PROVE  FilingInv'
<1> DEFINE due == [at |-> "file", account |-> n, amount |-> amount]
<1>1. due \in DeskJob /\ due.at = "file"
  BY DEF DeskJob
<1>2. Filing!Goes(p, due)
  BY DEF Filing!Request
<1> HIDE DEF due
<1> QED BY <1>1, <1>2, DeskStep DEF Filing!Request

LEMMA OpenDepositKeeps ==
  ASSUME FilingInv, NEW p \in Clerk, NEW n \in Filing!Number, Filing!OpenDeposit(p, n)
  PROVE  FilingInv'
<1> DEFINE read == n \in DOMAIN recordRequests /\ recordFiled[recordRequests[n]].reference
           due == [at |-> "confirm", id |-> n, reference |-> read]
<1>1. read \in BOOLEAN
  <2>1. \A s \in DOMAIN recordFiled : recordFiled[s].reference \in BOOLEAN
    <3>1. recordFiled \in Seq(FiledRequest)
      BY DEF FilingInv, FilingTyped, Filing!RecordsTypeOK, FiledRequest
    <3>2. \A s \in DOMAIN recordFiled : recordFiled[s] \in FiledRequest
      BY <3>1
    <3> QED BY <3>2 DEF FiledRequest
  <2> QED BY <2>1 DEF FilingInv, FilingTyped
<1>2. n \in DOMAIN recordRequests =>
        LET r == recordFiled[recordRequests[n]] IN r.given /\ ~r.late => read
  BY DEF FilingInv, FilingTyped, Filing!ReferenceKept
<1>3. Filing!Goes(p, due)
  BY DEF Filing!OpenDeposit
<1> HIDE DEF read
<1>4. due \in DeskJob /\ due.id = n /\ due.reference = read
  BY <1>1 DEF DeskJob
<1> HIDE DEF due
<1> QED BY <1>2, <1>3, <1>4, DeskStep DEF Filing!OpenDeposit

LEMMA FiledTyped ==
  ASSUME FilingTyped
  PROVE  /\ recordFiled \in Seq(FiledRequest) /\ DOMAIN recordFiled = 1..Len(recordFiled)
         /\ Len(recordFiled) \in Nat
         /\ \A s \in DOMAIN recordFiled : recordFiled[s] \in FiledRequest
<1>1. recordFiled \in Seq(FiledRequest)
  BY DEF FilingTyped, Filing!RecordsTypeOK, FiledRequest
<1> QED BY <1>1

LEMMA NextDayKeeps ==
  ASSUME FilingInv, Filing!NextDay
  PROVE  FilingInv'
<1> USE DEF Filing!NextDay
<1>1. FilingTyped'
  <2>1. recordToday' \in Filing!Day
    BY RecordsAssumption DEF FilingInv, FilingTyped, Filing!RecordsTypeOK, Filing!Day, RecordsAssumption
  <2>2. Filing!RecordsTypeOK'
    BY <2>1 DEF FilingInv, FilingTyped, Filing!RecordsTypeOK, Filing!accountVars,
                Filing!requestVars, Filing!usageVars
  <2> QED BY <2>2 DEF FilingInv, FilingTyped, DeskJob, Filing!requestVars
<1>2. ReadInv'
  BY DEF FilingInv, ReadInv, Filing!requestVars
<1>3. ReceivedInv'
  <2> SUFFICES ASSUME NEW n \in Filing!Number, NEW day \in Filing!Day
               PROVE  (Filing!Received(n, day) <= Bound(n, day))'
    BY DEF ReceivedInv
  <2>1. Filing!Received(n, day)' = Filing!Received(n, day)
    BY DEF Filing!Received, Filing!Amounts, Filing!ConfirmedOn, Filing!requestVars
  <2>6. Filing!Received(n, day) \in Int
    BY FiledTyped, CountedRequests DEF FilingInv
  <2>2. Filing!Received(n, day) <= Bound(n, day)
    BY DEF FilingInv, ReceivedInv
  <2>3. TotalsTyped /\ TotalsTyped'
    BY <1>1, TypedParts DEF FilingInv
  <2>4. recordToday \in Int /\ day \in Int /\ recordToday' = recordToday + 1
    BY <2>3, RecordsAssumption DEF TotalsTyped, Filing!Day, RecordsAssumption
  <2>5. Bound(n, day) \in Nat /\ Bound(n, day)' \in Nat /\ Bound(n, day) <= Bound(n, day)'
    <3>1. CASE day > recordToday
      <4>1. Bound(n, day) = 0 /\ Bound(n, day)' \in Nat
        <5>1. Bound(n, day)' \in Nat
          BY <2>3, BoundIs DEF BoundTyped
        <5> QED BY <2>4, <3>1, <5>1 DEF Bound
      <4> QED BY <4>1
    <3>2. CASE day <= recordToday
      <4>1. Bound(n, day)' = DepositLimit * (1 + recordRestarts[day])
        BY <2>4, <3>2 DEF Bound
      <4>2. Bound(n, day)' \in Nat
        BY <2>3, BoundIs DEF BoundTyped
      <4> QED BY <2>3, <4>1, <4>2, BoundIs DEF BoundTyped
    <3> QED BY <2>4, <3>1, <3>2
  <2> QED BY <2>1, <2>2, <2>5, <2>6
<1> QED BY <1>1, <1>2, <1>3, OtherFilingStep DEF FilingInv, Filing!usageVars

\* What an account received is the same when the same requests count.
LEMMA ReceivedSame ==
  ASSUME FilingTyped, NEW n, NEW day,
         Filing!ConfirmedOn(n, day)' = Filing!ConfirmedOn(n, day),
         \A s \in DOMAIN recordFiled :
           s \in DOMAIN recordFiled' /\ recordFiled'[s].amount = recordFiled[s].amount
  PROVE  Filing!Received(n, day)' = Filing!Received(n, day)
<1> DEFINE S == Filing!ConfirmedOn(n, day)
           f == Filing!Amounts
           g == Filing!Amounts'
<1>1. IsFiniteSet(S) /\ \A s \in S : s \in DOMAIN recordFiled
  BY FiledTyped, CountedRequests
<1>2. \A s \in S : f[s] = g[s]
  BY <1>1 DEF Filing!Amounts
<1>3. Filing!Received(n, day)' = SumFunctionOnSet(g, S)
  BY ReceivedIs
<1>4. Filing!Received(n, day) = SumFunctionOnSet(f, S)
  BY ReceivedIs
<1> HIDE DEF S, f, g
<1> QED BY ONLY <1>1, <1>2, <1>3, <1>4, SumSame

LEMMA CreateDepositRequestKeeps ==
  ASSUME FilingInv, NEW p \in Clerk, NEW wrote \in BOOLEAN,
         Filing!CreateDepositRequest(p, wrote)
  PROVE  FilingInv'
<1> DEFINE temp == requestNumbers.memory + 1
           row == requestNumbers.table + 1
           s == Len(recordFiled) + 1
           known == desk[p].account \in DOMAIN accountRows
           new == [id |-> IF wrote THEN row ELSE temp, saved |-> wrote,
                   account |-> desk[p].account, amount |-> desk[p].amount,
                   status |-> "pending", day |-> recordToday,
                   reference |-> FALSE, given |-> FALSE, late |-> FALSE]
           due == [at |-> "attach", request |-> s]
           r == [of |-> s, status |-> "pending"]
<1>0. FilingTyped /\ TotalsTyped /\ AccountsTyped /\ RequestsTyped /\ desk \in [Clerk -> DeskJob]
  BY TypedParts DEF FilingInv
<1>1. /\ desk[p].at = "file" /\ temp \in Filing!Number /\ row \in Filing!Number
      /\ Filing!Fail(Filing!Count(known /\ ~wrote))
      /\ recordFiled' = Append(recordFiled, new)
      /\ wrote => recordRequests' = Filing!Refiled(recordRequests, temp, row, s)
      /\ wrote => requestRows' = Filing!Put(requestRows, row, r)
      /\ ~wrote => recordRequests' = Filing!Put(recordRequests, temp, s)
      /\ ~wrote => UNCHANGED requestRows
      /\ Filing!Goes(p, due)
      /\ UNCHANGED <<accounts, accountRows, accountNumbers, usage, usageRows, unsure,
                     recordToday, recordRestarts>>
  BY DEF Filing!CreateDepositRequest, Filing!Has, Filing!accountVars, Filing!usageVars
<1>2. /\ requestNumbers'.memory = temp /\ requestNumbers'.table \in {requestNumbers.table, row}
      /\ requestNumbers' \in Filing!Counters
      /\ wrote => requestNumbers'.table = row
      /\ requestNumbers.memory \in Nat /\ requestNumbers.table \in Nat
  <2>1. requestNumbers \in Filing!Counters
    BY <1>0 DEF RequestsTyped
  <2>2. /\ requestNumbers.memory \in 0..MaxNumber /\ requestNumbers.table \in 0..MaxNumber
        /\ temp \in 0..MaxNumber /\ row \in 0..MaxNumber
    BY <1>1, <2>1, RecordsAssumption DEF Filing!Counters, Filing!Number, RecordsAssumption
  <2>3. \/ requestNumbers' = [memory |-> temp, table |-> row]
        \/ ~wrote /\ requestNumbers' = [requestNumbers EXCEPT !.memory = temp]
    BY DEF Filing!CreateDepositRequest
  <2> HIDE DEF temp, row
  <2>4. CASE requestNumbers' = [memory |-> temp, table |-> row]
    BY <2>2, <2>4 DEF Filing!Counters
  <2>5. CASE ~wrote /\ requestNumbers' = [requestNumbers EXCEPT !.memory = temp]
    BY <2>1, <2>2, <2>5 DEF Filing!Counters
  <2> QED BY <2>2, <2>3, <2>4, <2>5
<1>3. new \in FiledRequest /\ new.saved = wrote /\ new.id = IF wrote THEN row ELSE temp
  <2>1. desk[p].account \in Filing!Number /\ desk[p].amount \in DepositAmount
    BY <1>0, <1>1 DEF DeskJob, Filing!Free
  <2>2. recordToday \in Filing!Day
    BY <1>0 DEF TotalsTyped
  <2> QED BY <1>1, <2>1, <2>2 DEF FiledRequest, Filing!Status
<1>4. new.status = "pending" /\ new.given = FALSE
  OBVIOUS
<1>5. /\ recordFiled' \in Seq(FiledRequest) /\ DOMAIN recordFiled' = 1..s
      /\ Len(recordFiled') = s /\ s \in Nat /\ DOMAIN recordFiled = 1..(s - 1)
      /\ s \in DOMAIN recordFiled' /\ recordFiled'[s] = new /\ s \notin DOMAIN recordFiled
      /\ \A i \in DOMAIN recordFiled : i \in DOMAIN recordFiled' /\ recordFiled'[i] = recordFiled[i]
  <2>1. recordFiled \in Seq(FiledRequest) /\ DOMAIN recordFiled = 1..Len(recordFiled) /\ Len(recordFiled) \in Nat
    BY <1>0, FiledTyped
  <2> HIDE DEF new
  <2> QED BY <1>1, <1>3, <2>1
<1>6. DOMAIN recordRequests' \subseteq DOMAIN recordRequests \cup {new.id}
      /\ new.id \in DOMAIN recordRequests' /\ recordRequests'[new.id] = s
      /\ \A n \in DOMAIN recordRequests' \ {new.id} : recordRequests'[n] = recordRequests[n]
  <2> HIDE DEF temp, row, s, new
  <2>1. CASE wrote
    BY <1>1, <1>3, <2>1, RefiledIs
  <2>2. CASE ~wrote
    BY <1>1, <1>3, <2>2, PutIs
  <2> QED BY <2>1, <2>2
<1>7. /\ wrote => /\ \A n : n \in DOMAIN requestRows' <=> n \in DOMAIN requestRows \/ n = row
                  /\ requestRows'[row] = r
                  /\ \A n \in DOMAIN requestRows \ {row} : requestRows'[n] = requestRows[n]
      /\ r.of = s /\ r.status = "pending"
  <2> HIDE DEF row, r
  <2>1. wrote => /\ \A n : n \in DOMAIN requestRows' <=> n \in DOMAIN requestRows \/ n = row
                 /\ requestRows'[row] = r
                 /\ \A n \in DOMAIN requestRows \ {row} : requestRows'[n] = requestRows[n]
    BY <1>1, PutIs
  <2> QED BY <2>1 DEF r
<1>8. row \notin DOMAIN requestRows
  BY <1>2 DEF FilingInv, NumbersInv
<1>9. new.id \in Filing!Number
  BY <1>1, <1>3
<1> HIDE DEF temp, row, s, new, r
<1>10. RequestsTyped'
  <2>1. DOMAIN recordRequests' \subseteq Filing!Number
    BY <1>0, <1>6, <1>9 DEF RequestsTyped
  <2>2. ASSUME NEW n \in DOMAIN recordRequests'
        PROVE  recordRequests'[n] \in DOMAIN recordFiled' /\ recordFiled'[recordRequests'[n]].id = n
    <3>1. CASE n = new.id
      BY <1>5, <1>6, <3>1
    <3>2. CASE n # new.id
      BY <1>0, <1>5, <1>6, <3>2 DEF RequestsTyped
    <3> QED BY <3>1, <3>2
  <2>3. DOMAIN requestRows' \subseteq Filing!Number
    BY <1>0, <1>1, <1>7 DEF RequestsTyped
  <2>4. ASSUME NEW n \in DOMAIN requestRows'
        PROVE  requestRows'[n] \in [of : DOMAIN recordFiled', status : Filing!Status]
    <3>1. r \in [of : DOMAIN recordFiled', status : Filing!Status]
      BY <1>5 DEF r, Filing!Status
    <3>2. ASSUME n \in DOMAIN requestRows
          PROVE  requestRows[n] \in [of : DOMAIN recordFiled', status : Filing!Status]
      BY <1>0, <1>5, <3>2 DEF RequestsTyped
    <3> QED BY <1>1, <1>7, <3>1, <3>2
  <2> QED BY <1>0, <1>1, <1>2, <1>5, <2>1, <2>2, <2>3, <2>4 DEF RequestsTyped
<1>11. desk' \in [Clerk -> DeskJob'] /\ desk'[p] = due /\ \A q \in Clerk \ {p} : desk'[q] = desk[q]
  <2>1. due \in DeskJob'
    BY <1>5 DEF DeskJob
  <2> QED BY <1>1, <1>5, <2>1, DeskGoesOn
<1>12. FilingTyped'
  <2>1. recordFaults' \in 0..MaxDepositFaults
    BY <1>0, <1>1, RecordsAssumption DEF TotalsTyped, Filing!Fail, Filing!Count, RecordsAssumption
  <2>2. TotalsTyped'
    BY <1>0, <1>1, <2>1 DEF TotalsTyped
  <2>3. AccountsTyped'
    BY <1>0, <1>1 DEF AccountsTyped
  <2> QED BY <1>10, <1>11, <2>2, <2>3, TypedParts
<1>13. NumbersInv'
  <2>1. requestNumbers'.table \in Nat /\ 1..requestNumbers.table \subseteq 1..requestNumbers'.table
        /\ (wrote => row \in 1..requestNumbers'.table)
    BY <1>2 DEF row
  <2>2. DOMAIN requestRows' \subseteq 1..requestNumbers'.table
    BY <1>1, <1>7, <2>1 DEF FilingInv, NumbersInv
  <2>3. ASSUME NEW n \in DOMAIN requestRows'
        PROVE  recordFiled'[requestRows'[n].of].saved /\ recordFiled'[requestRows'[n].of].id = n
    <3>1. CASE n \in DOMAIN requestRows
      <4>1. requestRows'[n] = requestRows[n] /\ requestRows[n].of \in DOMAIN recordFiled
        BY <1>0, <1>1, <1>7, <1>8, <3>1 DEF RequestsTyped
      <4> QED BY <1>5, <3>1, <4>1 DEF FilingInv, NumbersInv
    <3>2. CASE n \notin DOMAIN requestRows
      BY <1>1, <1>3, <1>5, <1>7, <3>2
    <3> QED BY <3>1, <3>2
  <2>4. ASSUME NEW t \in DOMAIN recordFiled', recordFiled'[t].saved
        PROVE  recordFiled'[t].id \in DOMAIN requestRows'
               /\ requestRows'[recordFiled'[t].id].of = t
    <3>1. CASE t = s
      BY <1>3, <1>5, <1>7, <2>4, <3>1
    <3>2. CASE t # s
      <4>1. t \in DOMAIN recordFiled /\ recordFiled'[t] = recordFiled[t]
        BY <1>5, <3>2
      <4>2. recordFiled[t].id \in DOMAIN requestRows /\ requestRows[recordFiled[t].id].of = t
        BY <2>4, <4>1 DEF FilingInv, NumbersInv
      <4>3. requestRows'[recordFiled[t].id] = requestRows[recordFiled[t].id] /\ recordFiled[t].id \in DOMAIN requestRows'
        BY <1>1, <1>7, <1>8, <4>2
      <4> QED BY <4>1, <4>2, <4>3
    <3> QED BY <3>1, <3>2
  <2> QED BY <2>2, <2>3, <2>4 DEF NumbersInv
<1>14. AlikeInv'
  <2> SUFFICES ASSUME \A day \in Filing!Day : recordRestarts[day] = 0
               PROVE  /\ requestNumbers'.table <= requestNumbers'.memory
                      /\ requestNumbers'.table = requestNumbers'.memory =>
                           /\ Len(recordFiled') = requestNumbers'.memory
                           /\ \A t \in DOMAIN recordFiled' :
                                recordFiled'[t].id = t /\ t \in DOMAIN recordRequests' /\ recordRequests'[t] = t
    BY <1>1 DEF AlikeInv
  <2>1. requestNumbers.table <= requestNumbers.memory
    BY DEF FilingInv, AlikeInv
  <2>2. requestNumbers'.table <= requestNumbers'.memory
    BY <1>2, <2>1 DEF temp, row
  <2>3. ASSUME requestNumbers'.table = requestNumbers'.memory
        PROVE  /\ Len(recordFiled') = requestNumbers'.memory
               /\ \A t \in DOMAIN recordFiled' :
                    recordFiled'[t].id = t /\ t \in DOMAIN recordRequests' /\ recordRequests'[t] = t
    <3>1. requestNumbers.table = requestNumbers.memory /\ temp = row
      BY <1>2, <2>1, <2>3 DEF temp, row
    <3>2. /\ Len(recordFiled) = requestNumbers.memory
          /\ \A t \in DOMAIN recordFiled :
               recordFiled[t].id = t /\ t \in DOMAIN recordRequests /\ recordRequests[t] = t
      BY <3>1 DEF FilingInv, AlikeInv
    <3>3. s = temp /\ new.id = s
      BY <1>3, <3>1, <3>2 DEF s, temp
    <3>4. ASSUME NEW t \in DOMAIN recordFiled
          PROVE  t \in DOMAIN recordRequests' /\ recordRequests'[t] = t
      <4>1. t # temp /\ t # row /\ t \in DOMAIN recordRequests /\ recordRequests[t] = t
        BY <1>5, <3>1, <3>2, <3>3
      <4>2. CASE wrote
        BY <1>1, <4>1, <4>2, RefiledIs
      <4>3. CASE ~wrote
        BY <1>1, <4>1, <4>3, PutIs
      <4> QED BY <4>2, <4>3
    <3>5. Len(recordFiled') = requestNumbers'.memory
      BY <1>2, <1>5, <3>3
    <3>6. ASSUME NEW t \in DOMAIN recordFiled'
          PROVE  recordFiled'[t].id = t /\ t \in DOMAIN recordRequests' /\ recordRequests'[t] = t
      <4>1. CASE t = s
        BY <1>5, <1>6, <3>3, <4>1
      <4>2. CASE t # s
        BY <1>5, <3>2, <3>4, <4>2
      <4> QED BY <4>1, <4>2
    <3> QED BY <3>5, <3>6
  <2> QED BY <2>2, <2>3
<1>15. ReceivedInv'
  <2> SUFFICES ASSUME NEW n \in Filing!Number, NEW day \in Filing!Day
               PROVE  (Filing!Received(n, day) <= Bound(n, day))'
    BY DEF ReceivedInv
  <2>1. Filing!ConfirmedOn(n, day)' = Filing!ConfirmedOn(n, day)
    BY <1>4, <1>5 DEF Filing!ConfirmedOn
  <2>2. Filing!Received(n, day)' = Filing!Received(n, day)
    BY <1>0, <1>5, <2>1, ReceivedSame
  <2>3. Bound(n, day)' = Bound(n, day)
    BY <1>1, BoundSame
  <2> QED BY <2>2, <2>3 DEF FilingInv, ReceivedInv
<1>16. ReadInv'
  <2> SUFFICES ASSUME NEW q \in Clerk, desk'[q].at = "confirm",
                      desk'[q].id \in DOMAIN recordRequests'
               PROVE  LET f == recordFiled'[recordRequests'[desk'[q].id]]
                      IN  f.given /\ ~f.late => desk'[q].reference
    BY DEF ReadInv
  <2>1. q # p /\ desk'[q] = desk[q]
    BY <1>11
  <2>2. CASE desk[q].id = new.id
    BY <1>4, <1>5, <1>6, <2>1, <2>2
  <2>3. CASE desk[q].id # new.id
    <3>1. recordRequests'[desk[q].id] = recordRequests[desk[q].id] /\ desk[q].id \in DOMAIN recordRequests
      BY <1>6, <2>1, <2>3
    <3>2. recordFiled'[recordRequests[desk[q].id]] = recordFiled[recordRequests[desk[q].id]]
      BY <1>0, <1>5, <3>1 DEF RequestsTyped
    <3> QED BY <2>1, <3>1, <3>2 DEF FilingInv, ReadInv
  <2> QED BY <2>2, <2>3
<1>17. Filing!RowsTell'
  <2> SUFFICES ASSUME NEW n \in DOMAIN requestRows'
               PROVE  \/ requestRows'[n].status = recordFiled'[requestRows'[n].of].status
                      \/ n \in unsure'
                      \/ \E t \in DOMAIN recordFiled' :
                           ~recordFiled'[t].saved /\ recordFiled'[t].id = n /\ recordFiled'[t].status # "pending"
    BY DEF Filing!RowsTell
  <2>1. CASE n \in DOMAIN requestRows
    <3>1. requestRows'[n] = requestRows[n] /\ requestRows[n].of \in DOMAIN recordFiled
      BY <1>0, <1>1, <1>7, <1>8, <2>1 DEF RequestsTyped
    <3>2. \/ requestRows[n].status = recordFiled[requestRows[n].of].status
          \/ n \in unsure
          \/ \E t \in DOMAIN recordFiled :
               ~recordFiled[t].saved /\ recordFiled[t].id = n /\ recordFiled[t].status # "pending"
      BY <2>1 DEF FilingInv, Filing!RowsTell
    <3> QED BY <1>1, <1>5, <3>1, <3>2
  <2>2. CASE n \notin DOMAIN requestRows
    BY <1>1, <1>4, <1>5, <1>7, <2>2
  <2> QED BY <2>1, <2>2
<1>18. Filing!ReferenceKept'
  BY <1>4, <1>5 DEF FilingInv, Filing!ReferenceKept
<1> QED BY <1>12, <1>13, <1>14, <1>15, <1>16, <1>17, <1>18 DEF FilingInv

\* The rows are of the same requests as before.
SameRequests ==
  /\ DOMAIN requestRows' = DOMAIN requestRows
  /\ \A n \in DOMAIN requestRows :
       /\ requestRows'[n].of = requestRows[n].of
       /\ requestRows'[n] \in [of : DOMAIN recordFiled, status : Filing!Status]

\* A step that changes what is known of one request, keeps what it is about and its number,
\* and may write its row.
LEMMA OneRequestKeeps ==
  ASSUME FilingInv, NEW s \in DOMAIN recordFiled, NEW new \in FiledRequest,
         new.id = recordFiled[s].id, new.saved = recordFiled[s].saved,
         new.amount = recordFiled[s].amount,
         recordFiled' = [recordFiled EXCEPT ![s] = new],
         UNCHANGED <<recordRequests, requestNumbers, recordRestarts>>,
         SameRequests
  PROVE  /\ recordFiled' \in Seq(FiledRequest) /\ DOMAIN recordFiled' = DOMAIN recordFiled
         /\ recordFiled'[s] = new /\ \A t \in DOMAIN recordFiled \ {s} : recordFiled'[t] = recordFiled[t]
         /\ unsure' \subseteq Filing!Number => RequestsTyped'
         /\ NumbersInv' /\ AlikeInv'
<1>1. FilingTyped /\ RequestsTyped
  BY TypedParts DEF FilingInv
<1>2. /\ recordFiled \in Seq(FiledRequest) /\ DOMAIN recordFiled = 1..Len(recordFiled)
      /\ \A t \in DOMAIN recordFiled : recordFiled[t] \in FiledRequest
  BY <1>1, FiledTyped
<1>3. /\ recordFiled' \in Seq(FiledRequest) /\ DOMAIN recordFiled' = DOMAIN recordFiled
      /\ Len(recordFiled') = Len(recordFiled)
      /\ recordFiled'[s] = new /\ \A t \in DOMAIN recordFiled \ {s} : recordFiled'[t] = recordFiled[t]
  BY <1>2
<1>4. /\ DOMAIN requestRows' = DOMAIN requestRows
      /\ \A n \in DOMAIN requestRows :
           requestRows'[n].of = requestRows[n].of
           /\ requestRows'[n] \in [of : DOMAIN recordFiled, status : Filing!Status]
  BY DEF SameRequests
<1>5. unsure' \subseteq Filing!Number => RequestsTyped'
  BY <1>1, <1>3, <1>4 DEF RequestsTyped
<1>6. NumbersInv'
  <2>1. \A t \in DOMAIN recordFiled :
          recordFiled'[t].id = recordFiled[t].id /\ recordFiled'[t].saved = recordFiled[t].saved
    BY <1>3
  <2>2. \A n \in DOMAIN requestRows : requestRows[n].of \in DOMAIN recordFiled
    BY <1>1 DEF RequestsTyped
  <2>3. ASSUME NEW t \in DOMAIN recordFiled', recordFiled'[t].saved
        PROVE  recordFiled'[t].id \in DOMAIN requestRows' /\ requestRows'[recordFiled'[t].id].of = t
    <3>1. recordFiled[t].id \in DOMAIN requestRows /\ requestRows[recordFiled[t].id].of = t
      BY <1>3, <2>1, <2>3 DEF FilingInv, NumbersInv
    <3> QED BY <1>3, <1>4, <2>1, <3>1
  <2>4. \A n \in DOMAIN requestRows' :
          recordFiled'[requestRows'[n].of].saved /\ recordFiled'[requestRows'[n].of].id = n
    BY <1>4, <2>1, <2>2 DEF FilingInv, NumbersInv
  <2> QED BY <1>4, <2>3, <2>4 DEF FilingInv, NumbersInv
<1>7. AlikeInv'
  BY <1>3 DEF FilingInv, AlikeInv
<1> QED BY <1>3, <1>5, <1>6, <1>7

\* What is received is the same if that request counts before and after, or neither.
LEMMA NotReceived ==
  ASSUME FilingInv, NEW s \in DOMAIN recordFiled, DOMAIN recordFiled' = DOMAIN recordFiled,
         recordFiled'[s].amount = recordFiled[s].amount,
         \A t \in DOMAIN recordFiled \ {s} : recordFiled'[t] = recordFiled[t],
         NEW n, NEW day, s \in Filing!ConfirmedOn(n, day) <=> s \in Filing!ConfirmedOn(n, day)'
  PROVE  Filing!Received(n, day)' = Filing!Received(n, day)
<1>1. Filing!ConfirmedOn(n, day)' = Filing!ConfirmedOn(n, day)
  BY DEF Filing!ConfirmedOn
<1> QED BY <1>1, ReceivedSame DEF FilingInv

LEMMA AttachUTRKeeps ==
  ASSUME FilingInv, NEW p \in Clerk, Filing!AttachUTR(p)
  PROVE  FilingInv'
<1> DEFINE s == desk[p].request
           opened == \E q \in Clerk : desk[q].at = "confirm" /\ desk[q].id = recordFiled[s].id
           late == opened \/ recordFiled[s].status # "pending"
           new == [recordFiled[s] EXCEPT !.reference = TRUE, !.given = TRUE, !.late = late]
<1>0. FilingTyped /\ TotalsTyped /\ AccountsTyped /\ RequestsTyped /\ desk \in [Clerk -> DeskJob]
  BY TypedParts DEF FilingInv
<1>1. /\ desk[p].at = "attach" /\ Filing!Goes(p, Filing!Free)
      /\ UNCHANGED <<Filing!accountVars, recordRequests, requestRows, requestNumbers, unsure,
                     Filing!usageVars, recordToday, recordFaults, recordRestarts>>
  BY DEF Filing!AttachUTR, Filing!Has
<1>2. s \in DOMAIN recordFiled
  BY <1>0, <1>1 DEF DeskJob, Filing!Free
<1>3. recordFiled[s] \in FiledRequest
  BY <1>0, <1>2, FiledTyped
<1>4. late \in BOOLEAN
  OBVIOUS
<1>5. recordFiled' = [recordFiled EXCEPT ![s] = new]
  BY <1>2 DEF Filing!AttachUTR, Filing!Has
<1> HIDE DEF late
<1>6. /\ new \in FiledRequest /\ new.reference = TRUE /\ new.given = TRUE /\ new.late = late
      /\ new.id = recordFiled[s].id /\ new.saved = recordFiled[s].saved
      /\ new.amount = recordFiled[s].amount /\ new.status = recordFiled[s].status
      /\ new.account = recordFiled[s].account /\ new.day = recordFiled[s].day
  BY <1>3, <1>4 DEF FiledRequest
<1> HIDE DEF s, new
<1>8. /\ recordFiled' \in Seq(FiledRequest) /\ DOMAIN recordFiled' = DOMAIN recordFiled
      /\ recordFiled'[s] = new /\ \A t \in DOMAIN recordFiled \ {s} : recordFiled'[t] = recordFiled[t]
      /\ RequestsTyped' /\ NumbersInv' /\ AlikeInv'
  <2>1. unsure' \subseteq Filing!Number
    BY <1>0, <1>1 DEF RequestsTyped
  <2>2. SameRequests
    BY <1>0, <1>1 DEF RequestsTyped, SameRequests
  <2> QED BY <1>1, <1>2, <1>5, <1>6, <2>1, <2>2, OneRequestKeeps
<1>9. desk' \in [Clerk -> DeskJob'] /\ desk'[p] = Filing!Free /\ \A q \in Clerk \ {p} : desk'[q] = desk[q]
  <2>1. Filing!Free \in DeskJob'
    BY DEF DeskJob
  <2> QED BY <1>1, <1>8, <2>1, DeskGoesOn
<1>10. FilingTyped'
  <2>1. TotalsTyped'
    BY <1>0, <1>1 DEF TotalsTyped, Filing!usageVars
  <2>2. AccountsTyped'
    BY <1>0, <1>1 DEF AccountsTyped, Filing!accountVars
  <2> QED BY <1>8, <1>9, <2>1, <2>2, TypedParts
<1>11. ReceivedInv'
  <2> SUFFICES ASSUME NEW n \in Filing!Number, NEW day \in Filing!Day
               PROVE  (Filing!Received(n, day) <= Bound(n, day))'
    BY DEF ReceivedInv
  <2>1. s \in Filing!ConfirmedOn(n, day) <=> s \in Filing!ConfirmedOn(n, day)'
    BY <1>2, <1>6, <1>8 DEF Filing!ConfirmedOn
  <2>2. Filing!Received(n, day)' = Filing!Received(n, day)
    BY <1>2, <1>6, <1>8, <2>1, NotReceived
  <2>3. Bound(n, day)' = Bound(n, day)
    BY <1>1, BoundSame DEF Filing!usageVars
  <2> QED BY <2>2, <2>3 DEF FilingInv, ReceivedInv
<1>12. ReadInv'
  <2> SUFFICES ASSUME NEW q \in Clerk, desk'[q].at = "confirm",
                      desk'[q].id \in DOMAIN recordRequests
               PROVE  LET f == recordFiled'[recordRequests[desk'[q].id]]
                      IN  f.given /\ ~f.late => desk'[q].reference
    BY <1>1 DEF ReadInv
  <2>1. desk'[q] = desk[q]
    BY <1>9 DEF Filing!Free
  <2>2. recordRequests[desk[q].id] \in DOMAIN recordFiled
        /\ recordFiled[recordRequests[desk[q].id]].id = desk[q].id
    BY <1>0, <2>1 DEF RequestsTyped
  <2>3. CASE recordRequests[desk[q].id] = s
    <3>1. late
      BY <2>1, <2>2, <2>3 DEF late
    <3> QED BY <1>6, <1>8, <2>1, <2>3, <3>1
  <2>4. CASE recordRequests[desk[q].id] # s
    BY <1>8, <2>1, <2>2, <2>4 DEF FilingInv, ReadInv
  <2> QED BY <2>3, <2>4
<1>13. Filing!RowsTell'
  <2>1. \A t \in DOMAIN recordFiled :
          recordFiled'[t].status = recordFiled[t].status /\ recordFiled'[t].id = recordFiled[t].id
          /\ recordFiled'[t].saved = recordFiled[t].saved
    BY <1>6, <1>8
  <2>2. \A n \in DOMAIN requestRows : requestRows[n].of \in DOMAIN recordFiled
    BY <1>0 DEF RequestsTyped
  <2> QED BY <1>1, <1>8, <2>1, <2>2 DEF FilingInv, Filing!RowsTell
<1>14. Filing!ReferenceKept'
  BY <1>6, <1>8 DEF FilingInv, Filing!ReferenceKept
<1> QED BY <1>8, <1>10, <1>11, <1>12, <1>13, <1>14 DEF FilingInv

LEMMA RestartKeeps ==
  ASSUME FilingInv, Filing!Restart
  PROVE  FilingInv'
<1>0. FilingTyped /\ TotalsTyped /\ AccountsTyped /\ RequestsTyped /\ desk \in [Clerk -> DeskJob]
  BY TypedParts DEF FilingInv
<1>1. /\ recordRestarts' = [recordRestarts EXCEPT ![recordToday] = @ + 1]
      /\ recordFaults' \in 0..MaxDepositFaults
      /\ accounts' = Filing!Seeds /\ accountNumbers' = [accountNumbers EXCEPT !.memory = Seeded]
      /\ recordRequests' = <<>> /\ requestNumbers' = [requestNumbers EXCEPT !.memory = 0]
      /\ usage' = <<>> /\ desk' = [p \in Clerk |-> Filing!Free]
      /\ UNCHANGED <<accountRows, requestRows, usageRows, recordFiled, unsure, recordToday>>
  BY <1>0, RecordsAssumption DEF Filing!Restart, Filing!Fail, TotalsTyped, RecordsAssumption
<1>2. DOMAIN recordRequests' = {} /\ DOMAIN usage' = {}
  BY <1>1
<1>3. /\ requestNumbers' \in Filing!Counters /\ requestNumbers'.table = requestNumbers.table
      /\ accountNumbers' \in Filing!Counters
  <2>1. requestNumbers \in Filing!Counters /\ accountNumbers \in Filing!Counters
    BY <1>0 DEF RequestsTyped, AccountsTyped
  <2> QED BY <1>1, <2>1, RecordsAssumption DEF Filing!Counters, RecordsAssumption
<1>4. FilingTyped'
  <2>1. recordRestarts' \in [Filing!Day -> Nat]
    BY <1>0, <1>1 DEF TotalsTyped
  <2>2. TotalsTyped'
    BY <1>0, <1>1, <1>2, <2>1 DEF TotalsTyped
  <2>3. DOMAIN Filing!Seeds \subseteq Filing!Number /\ \A n \in DOMAIN Filing!Seeds : Filing!Seeds[n] \in BOOLEAN
    BY RecordsAssumption DEF Filing!Seeds, Filing!Number, RecordsAssumption
  <2>4. AccountsTyped'
    <3>1. \A f \in {accounts', accountRows'} :
            DOMAIN f \subseteq Filing!Number /\ \A n \in DOMAIN f : f[n] \in BOOLEAN
      BY <1>0, <1>1, <2>3 DEF AccountsTyped
    <3> QED BY <1>3, <3>1 DEF AccountsTyped
  <2>5. RequestsTyped'
    BY <1>0, <1>1, <1>2, <1>3 DEF RequestsTyped
  <2>6. desk' \in [Clerk -> DeskJob']
    BY <1>1 DEF DeskJob
  <2> QED BY <2>2, <2>4, <2>5, <2>6, TypedParts
<1>5. NumbersInv'
  BY <1>1, <1>3 DEF FilingInv, NumbersInv
<1>6. AlikeInv'
  <2>1. recordRestarts'[recordToday] # 0 /\ recordToday \in Filing!Day
    BY <1>0, <1>1 DEF TotalsTyped
  <2> QED BY <2>1 DEF AlikeInv
<1>7. ReceivedInv'
  <2> SUFFICES ASSUME NEW n \in Filing!Number, NEW day \in Filing!Day
               PROVE  (Filing!Received(n, day) <= Bound(n, day))'
    BY DEF ReceivedInv
  <2>1. Filing!Received(n, day)' = Filing!Received(n, day)
    BY <1>1 DEF Filing!Received, Filing!Amounts, Filing!ConfirmedOn
  <2>2. Filing!Received(n, day) <= Bound(n, day) /\ Filing!Received(n, day) \in Int
    BY <1>0, FiledTyped, CountedRequests DEF FilingInv, ReceivedInv
  <2>3. TotalsTyped'
    BY <1>4, TypedParts
  <2>4. Bound(n, day) \in Nat /\ Bound(n, day)' \in Nat /\ Bound(n, day) <= Bound(n, day)'
    <3>1. Bound(n, day) \in Nat /\ Bound(n, day)' \in Nat
      BY <1>0, <2>3, BoundIs DEF BoundTyped
    <3>2. CASE day = recordToday
      <4>1. Bound(n, day)' = DepositLimit * (recordRestarts[day] + 1) + 0
        BY <1>0, <1>1, <1>2, <3>2 DEF Bound, Filing!Used, TotalsTyped
      <4>2. Bound(n, day) <= DepositLimit * (1 + recordRestarts[day]) /\ recordRestarts[day] \in Nat
        BY <1>0, BoundIs DEF BoundTyped
      <4>3. DepositLimit * (1 + recordRestarts[day]) = DepositLimit * (recordRestarts[day] + 1)
        BY <4>2, OneMoreLimit
      <4> DEFINE l == DepositLimit * (1 + recordRestarts[day])
      <4>4. Bound(n, day)' = l + 0 /\ Bound(n, day) <= l /\ l \in Nat
        BY <4>1, <4>2, <4>3, OneMoreLimit, RecordsAssumption DEF RecordsAssumption
      <4> HIDE DEF l
      <4> QED BY <3>1, <4>4
    <3>3. CASE day # recordToday
      <4>1. Bound(n, day)' = Bound(n, day)
        BY <1>0, <1>1, <3>3 DEF Bound, TotalsTyped
      <4> QED BY <3>1, <4>1
    <3> QED BY <3>2, <3>3
  <2> QED BY <2>1, <2>2, <2>4
<1>8. ReadInv'
  BY <1>1 DEF ReadInv, Filing!Free
<1>9. Filing!RowsTell' /\ Filing!ReferenceKept'
  BY <1>1 DEF FilingInv, Filing!RowsTell, Filing!ReferenceKept
<1> QED BY <1>4, <1>5, <1>6, <1>7, <1>8, <1>9 DEF FilingInv
\* What is decided on a request its row tells, if it has one and the UPDATE succeeds.
LEMMA DecisionTold ==
  ASSUME FilingInv, NEW s \in DOMAIN recordFiled, NEW new, DOMAIN recordFiled' = DOMAIN recordFiled,
         recordFiled'[s] = new, \A t \in DOMAIN recordFiled \ {s} : recordFiled'[t] = recordFiled[t],
         new.id = recordFiled[s].id, new.saved = recordFiled[s].saved,
         NEW status \in Filing!Status, status # "pending", new.status = status,
         NEW wrote \in BOOLEAN, Filing!SaveDecision(recordFiled[s], status, wrote)
  PROVE  Filing!RowsTell' /\ unsure' \subseteq Filing!Number /\ SameRequests
<1>0. RequestsTyped /\ FilingTyped
  BY TypedParts DEF FilingInv
<1>1. /\ requestRows' = IF wrote /\ new.id \in DOMAIN requestRows
                        THEN [requestRows EXCEPT ![new.id].status = status] ELSE requestRows
      /\ unsure' = IF wrote THEN unsure ELSE unsure \cup {new.id}
  BY DEF Filing!SaveDecision
<1>2. new.id \in Filing!Number
  <2>1. recordFiled[s] \in FiledRequest
    BY <1>0, FiledTyped
  <2> QED BY <2>1 DEF FiledRequest
<1>3. unsure' \subseteq Filing!Number
  BY <1>0, <1>1, <1>2 DEF RequestsTyped
<1>4. ASSUME NEW n \in DOMAIN requestRows'
      PROVE  \/ requestRows'[n].status = recordFiled'[requestRows'[n].of].status
             \/ n \in unsure'
             \/ \E t \in DOMAIN recordFiled' :
                  ~recordFiled'[t].saved /\ recordFiled'[t].id = n /\ recordFiled'[t].status # "pending"
  <2>1. n \in DOMAIN requestRows /\ requestRows[n].of \in DOMAIN recordFiled
        /\ requestRows[n] \in [of : DOMAIN recordFiled, status : Filing!Status]
    BY <1>0, <1>1, <1>4 DEF RequestsTyped
  <2>2. CASE n = new.id /\ new.saved
    <3>1. requestRows[n].of = s
      BY <2>2 DEF FilingInv, NumbersInv
    <3>2. CASE wrote
      <4>1. requestRows'[n].status = status /\ requestRows'[n].of = s
        BY <1>1, <2>1, <2>2, <3>1, <3>2
      <4> QED BY <4>1
    <3>3. CASE ~wrote
      BY <1>1, <2>2, <3>3
    <3> QED BY <3>2, <3>3
  <2>3. CASE n = new.id /\ ~new.saved
    BY <2>3
  <2>4. CASE n # new.id
    <3>1. requestRows'[n] = requestRows[n]
      BY <1>1, <2>1, <2>4
    <3>2. requestRows[n].of # s
      BY <2>1, <2>4 DEF FilingInv, NumbersInv
    <3>3. \/ requestRows[n].status = recordFiled[requestRows[n].of].status
          \/ n \in unsure
          \/ \E t \in DOMAIN recordFiled :
               ~recordFiled[t].saved /\ recordFiled[t].id = n /\ recordFiled[t].status # "pending"
      BY <2>1 DEF FilingInv, Filing!RowsTell
    <3>4. \A t \in DOMAIN recordFiled : recordFiled[t].id = n => t # s
      BY <2>4
    <3> QED BY <1>1, <2>1, <3>1, <3>2, <3>3, <3>4
  <2> QED BY <2>2, <2>3, <2>4
<1>5. Filing!RowsTell'
  BY <1>4 DEF Filing!RowsTell
<1>6. SameRequests
  <2>1. \A n \in DOMAIN requestRows :
          requestRows[n] \in [of : DOMAIN recordFiled, status : Filing!Status]
    BY <1>0 DEF RequestsTyped
  <2> QED BY <1>1, <2>1 DEF SameRequests
<1> QED BY <1>3, <1>5, <1>6

\* A request confirmed counts, and so does the total of its account and day.
LEMMA ConfirmedCounts ==
  ASSUME FilingInv, NEW s \in DOMAIN recordFiled, NEW new, DOMAIN recordFiled' = DOMAIN recordFiled,
         recordFiled'[s] = new, \A t \in DOMAIN recordFiled \ {s} : recordFiled'[t] = recordFiled[t],
         new.amount = recordFiled[s].amount, new.account = recordFiled[s].account,
         recordFiled[s].status = "pending", new.status = "confirmed", new.day = recordToday,
         usage' = Filing!Put(usage, <<new.account, recordToday>>,
                             Filing!Used(usage, new.account, recordToday) + new.amount),
         UNCHANGED <<recordToday, recordRestarts>>
  PROVE  ReceivedInv'
<1>0. RequestsTyped /\ FilingTyped /\ TotalsTyped
  BY TypedParts DEF FilingInv
<1> SUFFICES ASSUME NEW n \in Filing!Number, NEW day \in Filing!Day
             PROVE  (Filing!Received(n, day) <= Bound(n, day))'
  BY DEF ReceivedInv
<1> DEFINE key == <<new.account, recordToday>>
           S == Filing!ConfirmedOn(n, day)
           before == DepositLimit * recordRestarts[day]
<1>1. new.amount \in Nat
  <2>1. recordFiled[s] \in FiledRequest
    BY <1>0, FiledTyped
  <2> QED BY <2>1, RecordsAssumption DEF FiledRequest, RecordsAssumption
<1>2. /\ Filing!Used(usage, n, day) \in Nat /\ before \in Nat
      /\ Filing!Received(n, day) <= Bound(n, day)
      /\ day = recordToday => Bound(n, day) = before + Filing!Used(usage, n, day)
      /\ day = recordToday => Bound(n, day)' = before + Filing!Used(usage, n, day)'
  <2>1. Filing!Used(usage, n, day) \in Nat /\ recordRestarts[day] \in Nat
    BY <1>0, BoundIs DEF BoundTyped
  <2>2. before \in Nat
    BY <2>1, OneMoreLimit
  <2>3. day = recordToday => Bound(n, day)' = before + Filing!Used(usage, n, day)'
    BY DEF Bound
  <2> QED BY <2>1, <2>2, <2>3 DEF FilingInv, ReceivedInv, Bound
<1>3. /\ IsFiniteSet(S) /\ \A t \in S : Filing!Amounts[t] \in Int /\ t \in DOMAIN recordFiled
      /\ Filing!Received(n, day) \in Int
  BY <1>0, FiledTyped, CountedRequests
<1>4. \A k : /\ k \in DOMAIN usage' <=> k \in DOMAIN usage \/ k = key
             /\ k \in DOMAIN usage /\ k # key => usage'[k] = usage[k]
      /\ usage'[key] = Filing!Used(usage, new.account, recordToday) + new.amount
  <2>1. \A k : k \in DOMAIN usage' <=> k \in DOMAIN usage \/ k = key
    BY PutIs
  <2>2. \A k \in DOMAIN usage \ {key} : usage'[k] = usage[k]
    BY PutIs
  <2>3. usage'[key] = Filing!Used(usage, new.account, recordToday) + new.amount
    BY PutIs
  <2> QED BY <2>1, <2>2, <2>3
<1>5. s \notin S
  BY DEF Filing!ConfirmedOn
<1>6. CASE n = new.account /\ day = recordToday
  <2>1. S' = S \cup {s}
    BY <1>5, <1>6 DEF Filing!ConfirmedOn
  <2>2. \A t \in S : Filing!Amounts'[t] = Filing!Amounts[t]
    BY <1>3, <1>5 DEF Filing!Amounts
  <2>3. Filing!Amounts'[s] = new.amount
    BY DEF Filing!Amounts
  <2> DEFINE f == Filing!Amounts
             g == Filing!Amounts'
             T == S
  <2>4. Filing!Received(n, day)' = SumFunctionOnSet(g, T \cup {s})
    BY <2>1, ReceivedIs
  <2>5. Filing!Received(n, day) = SumFunctionOnSet(f, T)
    BY ReceivedIs
  <2>6. SumFunctionOnSet(g, T \cup {s}) = SumFunctionOnSet(f, T) + new.amount
    <3>1. /\ IsFiniteSet(T) /\ \A t \in T : g[t] \in Int /\ f[t] = g[t]
          /\ s \notin T /\ g[s] \in Int /\ g[s] = new.amount
      BY <1>1, <1>3, <1>5, <2>2, <2>3
    <3> HIDE DEF f, g, T
    <3>2. SumFunctionOnSet(g, T \cup {s}) = SumFunctionOnSet(g, T) + g[s]
      BY ONLY <3>1, SumAdd
    <3>3. SumFunctionOnSet(f, T) = SumFunctionOnSet(g, T)
      BY ONLY <3>1, SumSame
    <3> QED BY <3>1, <3>2, <3>3
  <2>7. Filing!Used(usage, n, day)' = Filing!Used(usage, n, day) + new.amount
    BY <1>4, <1>6 DEF Filing!Used
  <2> DEFINE got == Filing!Received(n, day)
             use == Filing!Used(usage, n, day)
             got2 == Filing!Received(n, day)'
             use2 == Filing!Used(usage, n, day)'
  <2>8. got2 = got + new.amount
    BY <2>4, <2>5, <2>6
  <2>9. got2 <= before + use2
    <3>1. /\ got2 = got + new.amount /\ use2 = use + new.amount /\ got <= before + use
          /\ got \in Int /\ use \in Nat /\ before \in Nat /\ new.amount \in Nat
      BY <1>1, <1>2, <1>3, <1>6, <2>7, <2>8
    <3> HIDE DEF got, use, got2, use2, before
    <3> QED BY <3>1
  <2> QED BY <1>2, <1>6, <2>9
<1>7. CASE ~(n = new.account /\ day = recordToday)
  <2>1. s \notin Filing!ConfirmedOn(n, day)'
    BY <1>7 DEF Filing!ConfirmedOn
  <2>2. Filing!Received(n, day)' = Filing!Received(n, day)
    BY <1>5, <2>1, NotReceived
  <2>3. Bound(n, day)' = Bound(n, day)
    <3>1. CASE day = recordToday
      <4>1. Filing!Used(usage, n, day)' = Filing!Used(usage, n, day)
        BY <1>4, <1>7 DEF Filing!Used
      <4> QED BY <1>2, <3>1, <4>1
    <3>2. CASE day # recordToday
      BY <3>2 DEF Bound
    <3> QED BY <3>1, <3>2
  <2> QED BY <1>2, <2>2, <2>3
<1> QED BY <1>6, <1>7

\* The statements that fail when a request is confirmed are counted.
LEMMA ConfirmFails ==
  ASSUME NEW p \in Clerk, NEW wrote \in BOOLEAN, NEW counted \in BOOLEAN,
         Filing!ConfirmDeposit(p, wrote, counted)
  PROVE  \E k \in Nat : recordFaults + k <= MaxDepositFaults /\ recordFaults' = recordFaults + k
<1> DEFINE known == recordFiled[recordRequests[desk[p].id]].account \in DOMAIN accountRows
           k == Filing!Count(~wrote) + Filing!Count(known /\ ~counted)
<1>1. Filing!Fail(k)
  BY DEF Filing!ConfirmDeposit
<1>2. k \in Nat
  BY DEF Filing!Count
<1> HIDE DEF k
<1> QED BY <1>1, <1>2 DEF Filing!Fail

LEMMA ConfirmDepositKeeps ==
  ASSUME FilingInv, NEW p \in Clerk, NEW wrote \in BOOLEAN, NEW counted \in BOOLEAN,
         Filing!ConfirmDeposit(p, wrote, counted)
  PROVE  FilingInv'
<1> DEFINE n == desk[p].id
           s == recordRequests[n]
           r == recordFiled[s]
           total == Filing!Used(usage, r.account, recordToday) + r.amount
           key == <<r.account, recordToday>>
           new == [r EXCEPT !.status = "confirmed", !.day = recordToday,
                            !.reference = desk[p].reference]
<1>0. FilingTyped /\ TotalsTyped /\ AccountsTyped /\ RequestsTyped /\ desk \in [Clerk -> DeskJob]
  BY TypedParts DEF FilingInv
<1>1. /\ desk[p].at = "confirm" /\ n \in DOMAIN recordRequests /\ r.status = "pending"
      /\ total <= DepositLimit
      /\ usage' = Filing!Put(usage, key, total)
      /\ usageRows' = Filing!Put(usageRows, key, total) \/ usageRows' = usageRows
      /\ Filing!SaveDecision(r, "confirmed", wrote)
      /\ Filing!Goes(p, Filing!Free)
      /\ UNCHANGED <<Filing!accountVars, recordRequests, requestNumbers, recordToday, recordRestarts>>
  BY DEF Filing!ConfirmDeposit, Filing!Confirmable, Filing!Fits, Filing!Has
<1>2. s \in DOMAIN recordFiled /\ r \in FiledRequest
  <2>1. s \in DOMAIN recordFiled
    BY <1>0, <1>1 DEF RequestsTyped
  <2> QED BY <1>0, <2>1, FiledTyped
<1>3. desk[p].reference \in BOOLEAN
  BY <1>0, <1>1 DEF DeskJob, Filing!Free
<1>4. recordFiled' = [recordFiled EXCEPT ![s] = new]
  BY <1>2 DEF Filing!ConfirmDeposit
<1>5. /\ new \in FiledRequest /\ new.reference = desk[p].reference /\ new.status = "confirmed"
      /\ new.day = recordToday /\ new.given = r.given /\ new.late = r.late
      /\ new.id = r.id /\ new.saved = r.saved /\ new.amount = r.amount /\ new.account = r.account
  BY <1>0, <1>2, <1>3 DEF FiledRequest, TotalsTyped, Filing!Status
<1>6. r.account \in Filing!Number /\ r.amount \in Nat
  BY <1>2, RecordsAssumption DEF FiledRequest, RecordsAssumption
<1>7. total \in 0..DepositLimit /\ key \in Filing!Number \X Filing!Day
  <2>1. Filing!Used(usage, r.account, recordToday) \in Nat
    BY <1>0, RecordsAssumption DEF TotalsTyped, Filing!Used, RecordsAssumption
  <2>2. total \in Nat
    BY <1>6, <2>1
  <2>3. key \in Filing!Number \X Filing!Day
    BY <1>0, <1>6 DEF TotalsTyped
  <2> HIDE DEF total, key
  <2> QED BY <1>1, <2>2, <2>3, RecordsAssumption DEF RecordsAssumption
<1>8. s = recordRequests[n] /\ r = recordFiled[s] /\ total = Filing!Used(usage, new.account, recordToday) + new.amount
      /\ key = <<new.account, recordToday>>
  BY <1>5
<1>9. "confirmed" \in Filing!Status
  BY DEF Filing!Status
<1> HIDE DEF s, new, total, key
<1>10. DOMAIN recordFiled' = DOMAIN recordFiled /\ recordFiled'[s] = new
       /\ \A t \in DOMAIN recordFiled \ {s} : recordFiled'[t] = recordFiled[t]
  BY <1>2, <1>4
<1>11. Filing!RowsTell' /\ unsure' \subseteq Filing!Number /\ SameRequests
  <2>1. Filing!SaveDecision(recordFiled[s], "confirmed", wrote)
    BY <1>1
  <2>2. new.id = recordFiled[s].id /\ new.saved = recordFiled[s].saved /\ new.status = "confirmed"
    BY <1>5
  <2> HIDE DEF r
  <2> QED BY <1>2, <1>9, <1>10, <2>1, <2>2, DecisionTold
<1>12. RequestsTyped' /\ NumbersInv' /\ AlikeInv'
  <2>1. new.id = recordFiled[s].id /\ new.saved = recordFiled[s].saved /\ new.amount = recordFiled[s].amount
    BY <1>5
  <2>2. UNCHANGED <<recordRequests, requestNumbers, recordRestarts>>
    BY <1>1
  <2> QED BY <1>2, <1>4, <1>5, <1>11, <2>1, <2>2, OneRequestKeeps
<1>13. desk' \in [Clerk -> DeskJob'] /\ desk'[p] = Filing!Free /\ \A q \in Clerk \ {p} : desk'[q] = desk[q]
  <2>1. Filing!Free \in DeskJob'
    BY DEF DeskJob
  <2> QED BY <1>1, <1>10, <2>1, DeskGoesOn
<1>14. FilingTyped'
  <2>1. recordFaults' \in 0..MaxDepositFaults
    <3>1. recordFaults \in 0..MaxDepositFaults
      BY <1>0 DEF TotalsTyped
    <3>2. PICK k \in Nat : recordFaults + k <= MaxDepositFaults /\ recordFaults' = recordFaults + k
      BY ConfirmFails
    <3> QED BY <3>1, <3>2, RecordsAssumption DEF RecordsAssumption
  <2>2. TotalsTyped'
    <3>1. ASSUME NEW f, NEW g, g = Filing!Put(f, key, total) \/ g = f,
                 DOMAIN f \subseteq Filing!Number \X Filing!Day, \A k \in DOMAIN f : f[k] \in 0..DepositLimit
          PROVE  DOMAIN g \subseteq Filing!Number \X Filing!Day /\ \A k \in DOMAIN g : g[k] \in 0..DepositLimit
      <4>1. CASE g = f
        BY <3>1, <4>1
      <4>2. CASE g = Filing!Put(f, key, total)
        <5>1. /\ \A i : i \in DOMAIN g <=> i \in DOMAIN f \/ i = key
              /\ g[key] = total
              /\ \A i \in DOMAIN f \ {key} : g[i] = f[i]
          BY <4>2, PutIs
        <5> QED BY <1>7, <3>1, <5>1
      <4> QED BY <3>1, <4>1, <4>2
    <3>2. /\ DOMAIN usage' \subseteq Filing!Number \X Filing!Day
          /\ \A k \in DOMAIN usage' : usage'[k] \in 0..DepositLimit
      BY <1>0, <1>1, <3>1 DEF TotalsTyped
    <3>3. /\ DOMAIN usageRows' \subseteq Filing!Number \X Filing!Day
          /\ \A k \in DOMAIN usageRows' : usageRows'[k] \in 0..DepositLimit
      BY <1>0, <1>1, <3>1 DEF TotalsTyped
    <3> QED BY <1>0, <1>1, <2>1, <3>2, <3>3 DEF TotalsTyped
  <2>3. AccountsTyped'
    BY <1>0, <1>1 DEF AccountsTyped, Filing!accountVars
  <2> QED BY <1>12, <1>13, <2>2, <2>3, TypedParts
<1>15. ReceivedInv'
  <2>1. /\ new.amount = recordFiled[s].amount /\ new.account = recordFiled[s].account
        /\ recordFiled[s].status = "pending" /\ new.status = "confirmed" /\ new.day = recordToday
        /\ UNCHANGED <<recordToday, recordRestarts>>
        /\ usage' = Filing!Put(usage, <<new.account, recordToday>>,
                               Filing!Used(usage, new.account, recordToday) + new.amount)
    BY <1>1, <1>5, <1>8
  <2> QED BY ONLY FilingInv, <1>2, <1>10, <2>1, ConfirmedCounts
<1>16. ReadInv'
  <2> SUFFICES ASSUME NEW q \in Clerk, desk'[q].at = "confirm",
                      desk'[q].id \in DOMAIN recordRequests
               PROVE  LET f == recordFiled'[recordRequests[desk'[q].id]]
                      IN  f.given /\ ~f.late => desk'[q].reference
    BY <1>1 DEF ReadInv
  <2>1. desk'[q] = desk[q]
    BY <1>13 DEF Filing!Free
  <2>2. recordRequests[desk[q].id] \in DOMAIN recordFiled
    BY <1>0, <2>1 DEF RequestsTyped
  <2>3. recordFiled'[recordRequests[desk[q].id]].given = recordFiled[recordRequests[desk[q].id]].given
        /\ recordFiled'[recordRequests[desk[q].id]].late = recordFiled[recordRequests[desk[q].id]].late
    BY <1>5, <1>10, <2>2
  <2> QED BY <2>1, <2>3 DEF FilingInv, ReadInv
<1>17. Filing!ReferenceKept'
  <2>1. new.given /\ ~new.late => new.reference
    BY <1>1, <1>5, <1>8 DEF FilingInv, ReadInv
  <2> QED BY <1>10, <2>1 DEF FilingInv, Filing!ReferenceKept
<1> QED BY <1>11, <1>12, <1>14, <1>15, <1>16, <1>17 DEF FilingInv

LEMMA RejectDepositKeeps ==
  ASSUME FilingInv, NEW n \in Filing!Number, NEW wrote \in BOOLEAN,
         Filing!RejectDeposit(n, wrote)
  PROVE  FilingInv'
<1> DEFINE s == recordRequests[n]
           new == [recordFiled[s] EXCEPT !.status = "rejected"]
<1>0. FilingTyped /\ TotalsTyped /\ AccountsTyped /\ RequestsTyped /\ desk \in [Clerk -> DeskJob]
  BY TypedParts DEF FilingInv
<1>1. /\ n \in DOMAIN recordRequests /\ recordFiled[s].status = "pending"
      /\ Filing!SaveDecision(recordFiled[s], "rejected", wrote)
      /\ UNCHANGED <<Filing!accountVars, recordRequests, requestNumbers, Filing!usageVars, desk,
                     recordToday, recordRestarts>>
  BY DEF Filing!RejectDeposit
<1>2. s \in DOMAIN recordFiled /\ recordFiled[s] \in FiledRequest
  <2>1. s \in DOMAIN recordFiled
    BY <1>0, <1>1 DEF RequestsTyped
  <2> QED BY <1>0, <2>1, FiledTyped
<1>3. recordFiled' = [recordFiled EXCEPT ![s] = new]
  BY <1>2 DEF Filing!RejectDeposit
<1>4. /\ new \in FiledRequest /\ new.status = "rejected" /\ new.given = recordFiled[s].given
      /\ new.late = recordFiled[s].late /\ new.reference = recordFiled[s].reference
      /\ new.id = recordFiled[s].id /\ new.saved = recordFiled[s].saved
      /\ new.amount = recordFiled[s].amount /\ new.account = recordFiled[s].account
  BY <1>2 DEF FiledRequest, Filing!Status
<1>5. "rejected" \in Filing!Status
  BY DEF Filing!Status
<1> HIDE DEF s, new
<1>6. DOMAIN recordFiled' = DOMAIN recordFiled /\ recordFiled'[s] = new
      /\ \A t \in DOMAIN recordFiled \ {s} : recordFiled'[t] = recordFiled[t]
  BY <1>2, <1>3
<1>7. Filing!RowsTell' /\ unsure' \subseteq Filing!Number /\ SameRequests
  BY <1>1, <1>2, <1>4, <1>5, <1>6, DecisionTold
<1>8. RequestsTyped' /\ NumbersInv' /\ AlikeInv'
  <2>1. UNCHANGED <<recordRequests, requestNumbers, recordRestarts>>
    BY <1>1
  <2> QED BY <1>2, <1>3, <1>4, <1>7, <2>1, OneRequestKeeps
<1>9. FilingTyped'
  <2>1. recordFaults' \in 0..MaxDepositFaults
    BY <1>0, RecordsAssumption
       DEF TotalsTyped, Filing!RejectDeposit, Filing!Fail, Filing!Count, RecordsAssumption
  <2>2. TotalsTyped'
    BY <1>0, <1>1, <2>1 DEF TotalsTyped, Filing!usageVars
  <2>3. AccountsTyped'
    BY <1>0, <1>1 DEF AccountsTyped, Filing!accountVars
  <2>4. desk' \in [Clerk -> DeskJob']
    BY <1>0, <1>1, <1>6 DEF DeskJob
  <2> QED BY <1>8, <2>2, <2>3, <2>4, TypedParts
<1>10. ReceivedInv'
  <2> SUFFICES ASSUME NEW i \in Filing!Number, NEW day \in Filing!Day
               PROVE  (Filing!Received(i, day) <= Bound(i, day))'
    BY DEF ReceivedInv
  <2>1. s \in Filing!ConfirmedOn(i, day) <=> s \in Filing!ConfirmedOn(i, day)'
    BY <1>1, <1>4, <1>6 DEF Filing!ConfirmedOn
  <2>2. Filing!Received(i, day)' = Filing!Received(i, day)
    BY <1>2, <1>4, <1>6, <2>1, NotReceived
  <2>3. Bound(i, day)' = Bound(i, day)
    BY <1>1, BoundSame DEF Filing!usageVars
  <2> QED BY <2>2, <2>3 DEF FilingInv, ReceivedInv
<1>11. ReadInv'
  <2>1. \A i \in DOMAIN recordRequests : recordRequests[i] \in DOMAIN recordFiled
    BY <1>0 DEF RequestsTyped
  <2>2. \A t \in DOMAIN recordFiled :
          recordFiled'[t].given = recordFiled[t].given /\ recordFiled'[t].late = recordFiled[t].late
    BY <1>4, <1>6
  <2> QED BY <1>1, <2>1, <2>2 DEF FilingInv, ReadInv
<1>12. Filing!ReferenceKept'
  BY <1>4, <1>6 DEF FilingInv, Filing!ReferenceKept
<1> QED BY <1>7, <1>8, <1>9, <1>10, <1>11, <1>12 DEF FilingInv

LEMMA FilingStutters ==
  ASSUME FilingInv, UNCHANGED Filing!recordVars
  PROVE  FilingInv'
<1> USE DEF Filing!recordVars
<1>1. FilingTyped'
  <2>1. Filing!RecordsTypeOK'
    BY DEF FilingInv, FilingTyped, Filing!RecordsTypeOK
  <2> QED BY <2>1 DEF FilingInv, FilingTyped, DeskJob
<1>2. ReadInv'
  BY DEF FilingInv, ReadInv
<1> QED BY <1>1, <1>2, OtherFilingStep DEF FilingInv, Filing!requestVars

\* However requests, confirmations, failed statements and restarts fall, an account
\* receives in a day within its limit, and a limit more for each restart on that day, rows
\* tell what was decided, requests are found and references kept (deposit.go).
THEOREM FilingKept ==
  Filing!RecordsSpec =>
    [](/\ Filing!RecordsTypeOK /\ Filing!ReceivedWithinLimit /\ Filing!RowsTell
       /\ Filing!FiledIsFound /\ Filing!ReferenceKept)
<1>1. FilingInv /\ [Filing!RecordsNext]_Filing!recordVars => FilingInv'
  <2> SUFFICES ASSUME FilingInv, [Filing!RecordsNext]_Filing!recordVars PROVE FilingInv'
    OBVIOUS
  <2>1. ASSUME NEW wrote \in BOOLEAN,
               \/ Filing!CreateBankAccount(wrote)
               \/ \E n \in Filing!Number, status \in BOOLEAN : Filing!UpdateBankAccount(n, status, wrote)
               \/ \E p \in Clerk : Filing!CreateDepositRequest(p, wrote)
               \/ \E p \in Clerk, counted \in BOOLEAN : Filing!ConfirmDeposit(p, wrote, counted)
               \/ \E n \in Filing!Number : Filing!RejectDeposit(n, wrote)
        PROVE  FilingInv'
    BY <2>1, CreateBankAccountKeeps, UpdateBankAccountKeeps, CreateDepositRequestKeeps,
       ConfirmDepositKeeps, RejectDepositKeeps
  <2>2. ASSUME NEW p \in Clerk,
               \/ \E n \in Filing!Number, amount \in DepositAmount : Filing!Request(p, n, amount)
               \/ Filing!AttachUTR(p) \/ Filing!NoUTR(p) \/ Filing!NotConfirmed(p)
               \/ \E n \in Filing!Number : Filing!OpenDeposit(p, n)
        PROVE  FilingInv'
    <3>1. ASSUME Filing!NoUTR(p) \/ Filing!NotConfirmed(p) PROVE FilingInv'
      <4>1. Filing!Free \in DeskJob /\ Filing!Free.at = "free"
        BY DEF DeskJob, Filing!Free
      <4> QED BY <3>1, <4>1, DeskStep DEF Filing!NoUTR, Filing!NotConfirmed
    <3> QED BY <2>2, <3>1, RequestKeeps, OpenDepositKeeps, AttachUTRKeeps
  <2>3. CASE Filing!NextDay
    BY <2>3, NextDayKeeps
  <2>4. CASE Filing!Restart
    BY <2>4, RestartKeeps
  <2>5. CASE UNCHANGED Filing!recordVars
    BY <2>5, FilingStutters
  <2> QED BY <2>1, <2>2, <2>3, <2>4, <2>5 DEF Filing!RecordsNext
<1>2. FilingInv => /\ Filing!RecordsTypeOK /\ Filing!ReceivedWithinLimit /\ Filing!RowsTell
                   /\ Filing!FiledIsFound /\ Filing!ReferenceKept
  BY FilingInvHolds
<1> QED BY FilingInitInv, <1>1, <1>2, PTL DEF Filing!RecordsSpec

-----------------------------------------------------------------------------
\* DepositViews: offers, lists and the tree

ViewRequest ==
  [player : Views!Clients, agent : Holder \cup {NoHolder}, master : Holder \cup {NoHolder},
   account : BankAccount, amount : Nat, before : Nat,
   status : {"pending", "confirmed", "rejected"}, sure : BOOLEAN, fresh : BOOLEAN]

\* Values of every variable, offers included, which fit.
ViewTyped ==
  /\ Views!ViewsTypeOK
  /\ viewFiled \in Seq(ViewRequest)
  /\ DOMAIN offer = Views!Clients
  /\ \A c \in Views!Clients :
       /\ DOMAIN offer[c] \subseteq BankAccount
       /\ \A x \in DOMAIN offer[c] :
            /\ offer[c][x].amount \in Nat /\ offer[c][x].used \in Nat
            /\ offer[c][x].used + offer[c][x].amount <= DepositLimit
  /\ DOMAIN walk = Viewer

\* A request fitted when it was made, and its row is as it is if no statement failed.
ViewFiledInv ==
  \A s \in DOMAIN viewFiled :
    /\ viewFiled[s].before + viewFiled[s].amount <= DepositLimit
    /\ viewFiled[s].sure => s \in DOMAIN viewRows /\ viewRows[s] = viewFiled[s].status

\* The requests that an account received today, of which its total is.
PaidTo(x) == {s \in Views!PaidToday : viewFiled[s].account = x}
PaidInv == \A x \in BankAccount : SumFunctionOnSet(Views!Amounts, PaidTo(x)) <= viewUsed[x]

\* Whose accounts a tree is about, and what they have received today.
Reach(u) == Views!InTree(u)
OwnUse(v) == Views!UsedOf(Views!Owned(v))

Left(p, v) == \E k \in DOMAIN walk[p].todo : walk[p].todo[k] = v
Found(p, v) == v \in DOMAIN walk[p].nodes

WalkTyped(p) ==
  /\ walk[p] = [todo |-> walk[p].todo, nodes |-> walk[p].nodes, root |-> walk[p].root,
                began |-> walk[p].began, day |-> walk[p].day]
  /\ walk[p].todo \in Seq(Holder) /\ walk[p].root \in Holder
  /\ walk[p].began \in Int /\ walk[p].day \in 0..viewToday
  /\ DOMAIN walk[p].nodes \subseteq Holder
  /\ \A v \in DOMAIN walk[p].nodes : walk[p].nodes[v].used \in Nat

\* What is read and to be read is in the tree; what is in the tree will be.
WalkReaches(p) ==
  /\ \A v \in Holder : Left(p, v) \/ Found(p, v) => v \in Reach(walk[p].root)
  /\ \A r \in Views!Roots(walk[p].root) : Left(p, r) \/ Found(p, r)
  /\ \A v \in DOMAIN walk[p].nodes :
       Role[v] # "client" => \A c \in Views!Children(v) : Left(p, c) \/ Found(p, c)

\* What of each user the answer has or will have, if nothing more is received.
Share(p) ==
  [v \in Holder |-> IF Role[v] = "client" THEN 0
                    ELSE IF v \in DOMAIN walk[p].nodes THEN walk[p].nodes[v].used
                    ELSE IF v \in Reach(walk[p].root) THEN OwnUse(v) ELSE 0]

WalkAdds(p) ==
  /\ \A v \in DOMAIN walk[p].nodes :
       Role[v] # "client" => walk[p].nodes[v].used <= walk[p].nodes[v].limit
  /\ walk[p].day = viewToday =>
       /\ \A v \in DOMAIN walk[p].nodes :
            walk[p].nodes[v].used <= (IF Role[v] = "client" THEN Views!Paid(v) ELSE OwnUse(v))
       /\ walk[p].began <= Views!SumFunctionOnSet(Share(p), Holder)

WalkInv ==
  \A p \in Viewer :
    walk[p] # Views!Unread => WalkTyped(p) /\ WalkReaches(p) /\ WalkAdds(p)

ViewsInv == ViewTyped /\ ViewFiledInv /\ PaidInv /\ WalkInv

\* The sums and counts are those of the lemmas.
LEMMA ViewSum ==
  ASSUME NEW f, NEW S
  PROVE  Views!SumFunctionOnSet(f, S) = SumFunctionOnSet(f, S)
BY DEF SumFunctionOnSet, FoldFunctionOnSet, MapThenFoldSet, Views!SumFunctionOnSet,
       Views!FoldFunctionOnSet, Views!MapThenFoldSet

LEMMA ViewCard ==
  ASSUME NEW S
  PROVE  Views!Cardinality(S) = Cardinality(S)
BY DEF Views!Cardinality, Cardinality

\* The requests that count are finitely many, of known amounts.
PaidBy(c) == {s \in Views!PaidToday : viewFiled[s].player = c}

LEMMA RequestsTypedFinite ==
  ASSUME NEW f \in Seq(ViewRequest), NEW S, S \subseteq DOMAIN f
  PROVE  IsFiniteSet(S) /\ \A s \in S : f[s] \in ViewRequest /\ f[s].amount \in Nat
<1>1. IsFiniteSet(1..Len(f)) /\ S \subseteq 1..Len(f)
  <2>1. 1 \in Int /\ Len(f) \in Int /\ S \subseteq 1..Len(f)
    OBVIOUS
  <2> QED BY <2>1, FS_Interval
<1>2. \A s \in S : f[s] \in ViewRequest
  OBVIOUS
<1>3. \A r \in ViewRequest : r.amount \in Nat
  BY DEF ViewRequest
<1> QED BY <1>1, <1>2, <1>3, FS_Subset

LEMMA PaidFacts ==
  ASSUME viewFiled \in Seq(ViewRequest)
  PROVE  /\ IsFiniteSet(Views!PaidToday)
         /\ \A s \in Views!PaidToday :
              s \in DOMAIN viewFiled /\ Views!Amounts[s] = viewFiled[s].amount
              /\ Views!Amounts[s] \in Nat /\ viewFiled[s].account \in BankAccount
              /\ viewFiled[s].player \in Views!Clients
<1>1. Views!PaidToday \subseteq DOMAIN viewFiled
  BY DEF Views!PaidToday
<1>2. /\ IsFiniteSet(Views!PaidToday)
      /\ \A s \in Views!PaidToday : viewFiled[s] \in ViewRequest /\ viewFiled[s].amount \in Nat
  BY <1>1, RequestsTypedFinite
<1>3. \A r \in ViewRequest : r.account \in BankAccount /\ r.player \in Views!Clients
  BY DEF ViewRequest
<1> QED BY <1>1, <1>2, <1>3 DEF Views!Amounts

LEMMA PaidIs ==
  ASSUME NEW c
  PROVE  /\ Views!Paid(c) = SumFunctionOnSet(Views!Amounts, PaidBy(c))
         /\ Views!Paid(c)' = SumFunctionOnSet(Views!Amounts', PaidBy(c)')
BY DEF Views!Paid, PaidBy, SumFunctionOnSet, FoldFunctionOnSet, MapThenFoldSet,
       Views!SumFunctionOnSet, Views!FoldFunctionOnSet, Views!MapThenFoldSet

\* Before a step and after it.
PaidByTyped(c) ==
  /\ IsFiniteSet(PaidBy(c)) /\ \A s \in PaidBy(c) : Views!Amounts[s] \in Nat
  /\ Views!Paid(c) \in Nat

LEMMA PaidTyped ==
  ASSUME NEW c
  PROVE  /\ viewFiled \in Seq(ViewRequest) => PaidByTyped(c)
         /\ viewFiled' \in Seq(ViewRequest) => PaidByTyped(c)'
<1>1. ASSUME viewFiled \in Seq(ViewRequest) PROVE PaidByTyped(c)
  <2>1. PaidBy(c) \subseteq DOMAIN viewFiled
    BY DEF PaidBy, Views!PaidToday
  <2>2. IsFiniteSet(PaidBy(c)) /\ \A s \in PaidBy(c) : Views!Amounts[s] \in Nat
    BY <1>1, <2>1, RequestsTypedFinite DEF Views!Amounts
  <2>3. SumFunctionOnSet(Views!Amounts, PaidBy(c)) \in Nat
    BY <2>2, SumNat
  <2> QED BY <2>2, <2>3, PaidIs DEF PaidByTyped
<1>2. ASSUME viewFiled' \in Seq(ViewRequest) PROVE PaidByTyped(c)'
  <2>1. PaidBy(c)' \subseteq DOMAIN viewFiled'
    BY DEF PaidBy, Views!PaidToday
  <2>2. IsFiniteSet(PaidBy(c)') /\ \A s \in PaidBy(c)' : Views!Amounts'[s] \in Nat
    BY <1>2, <2>1, RequestsTypedFinite DEF Views!Amounts
  <2>3. SumFunctionOnSet(Views!Amounts', PaidBy(c)') \in Nat
    BY <2>2, SumNat
  <2> QED BY <2>2, <2>3, PaidIs DEF PaidByTyped
<1> QED BY <1>1, <1>2

\* What counts goes on to count, and then what is paid grows.
LEMMA PaidGrows ==
  ASSUME viewFiled \in Seq(ViewRequest), viewFiled' \in Seq(ViewRequest),
         \A s \in Views!PaidToday :
           /\ s \in Views!PaidToday' /\ viewFiled'[s].amount = viewFiled[s].amount
           /\ viewFiled'[s].player = viewFiled[s].player,
         NEW c
  PROVE  Views!Paid(c) <= Views!Paid(c)'
<1> DEFINE S == PaidBy(c)
           T == PaidBy(c)'
           f == Views!Amounts
           g == Views!Amounts'
<1>1. IsFiniteSet(S) /\ \A s \in S : f[s] \in Nat /\ f[s] = viewFiled[s].amount
  BY PaidTyped DEF PaidByTyped, PaidBy, Views!PaidToday, Views!Amounts
<1>2. IsFiniteSet(T) /\ \A s \in T : g[s] \in Nat
  BY PaidTyped DEF PaidByTyped
<1>3. S \subseteq T /\ \A s \in S : f[s] = g[s]
  <2>1. S \subseteq T
    BY DEF PaidBy
  <2>2. \A s \in S : g[s] = viewFiled'[s].amount
    BY <2>1 DEF PaidBy, Views!PaidToday, Views!Amounts
  <2>3. \A s \in S : viewFiled'[s].amount = viewFiled[s].amount
    BY DEF PaidBy
  <2> QED BY <1>1, <2>1, <2>2, <2>3
<1>4. Views!Paid(c) = SumFunctionOnSet(f, S) /\ Views!Paid(c)' = SumFunctionOnSet(g, T)
  BY PaidIs
<1> HIDE DEF S, T, f, g
<1>5. SumFunctionOnSet(f, S) = SumFunctionOnSet(g, S)
  BY ONLY <1>1, <1>3, SumSame
<1>6. SumFunctionOnSet(g, T) = SumFunctionOnSet(g, S) + SumFunctionOnSet(g, T \ S)
  BY <1>2, <1>3, SumDisjoint
<1>7. SumFunctionOnSet(g, T \ S) \in Nat /\ SumFunctionOnSet(g, S) \in Nat
  <2>1. IsFiniteSet(T \ S) /\ \A s \in T \ S : g[s] \in Nat
    BY <1>2, FS_Subset
  <2>2. \A s \in S : g[s] \in Nat
    BY <1>2, <1>3
  <2> QED BY <1>1, <2>1, <2>2, SumNat
<1> QED BY <1>4, <1>5, <1>6, <1>7

\* What all players paid is what all accounts received of them, at most.
LEMMA PaidWithinReceived ==
  ASSUME viewFiled \in Seq(ViewRequest), PaidInv, viewUsed \in [BankAccount -> 0..DepositLimit],
         NEW g, g = [c \in Views!Clients |-> Views!Paid(c)]
  PROVE  SumFunctionOnSet(g, Views!Clients) <= Views!UsedOf(BankAccount)
<1> DEFINE S == Views!PaidToday
           f == Views!Amounts
           payer == [s \in S |-> viewFiled[s].player]
           payee == [s \in S |-> viewFiled[s].account]
           by == [c \in Views!Clients |-> PaidBy(c)]
           to == [x \in BankAccount |-> PaidTo(x)]
           h == [x \in BankAccount |-> SumFunctionOnSet(f, PaidTo(x))]
<1>1. IsFiniteSet(S) /\ IsFiniteSet(BankAccount) /\ IsFiniteSet(Views!Clients)
  BY PaidFacts, FS_Subset, RecordsAssumption DEF RecordsAssumption, Views!Clients
<1>2. \A s \in S : f[s] \in Int /\ payer[s] \in Views!Clients /\ payee[s] \in BankAccount
  BY PaidFacts
<1>3. /\ \A c \in Views!Clients : \A s : s \in by[c] <=> s \in S /\ payer[s] = c
      /\ \A x \in BankAccount : \A s : s \in to[x] <=> s \in S /\ payee[s] = x
  BY DEF PaidBy, PaidTo
<1>4. /\ \A c \in Views!Clients : g[c] = SumFunctionOnSet(f, by[c])
      /\ \A x \in BankAccount : h[x] = SumFunctionOnSet(f, to[x])
  BY PaidIs
<1>5. \A x \in BankAccount : h[x] <= viewUsed[x] /\ viewUsed[x] \in Int
  BY RecordsAssumption DEF PaidInv, RecordsAssumption
<1>6. \A x \in BankAccount : h[x] \in Int
  <2>1. ASSUME NEW x \in BankAccount PROVE SumFunctionOnSet(f, PaidTo(x)) \in Int
    <3>1. IsFiniteSet(PaidTo(x)) /\ \A s \in PaidTo(x) : f[s] \in Int
      BY <1>1, <1>2, FS_Subset DEF PaidTo
    <3> HIDE DEF f
    <3> QED BY <3>1, SumInt
  <2> QED BY <2>1
<1> HIDE DEF S, f, payer, payee, by, to, h
<1>7. SumFunctionOnSet(g, Views!Clients) = SumFunctionOnSet(f, S)
  BY ONLY <1>1, <1>2, <1>3, <1>4, SumPartition
<1>8. SumFunctionOnSet(h, BankAccount) = SumFunctionOnSet(f, S)
  BY ONLY <1>1, <1>2, <1>3, <1>4, SumPartition
<1>9. SumFunctionOnSet(h, BankAccount) <= SumFunctionOnSet(viewUsed, BankAccount)
  BY <1>1, <1>5, <1>6, SumGrows
<1>10. Views!UsedOf(BankAccount) = SumFunctionOnSet(viewUsed, BankAccount)
  BY ViewSum DEF Views!UsedOf
<1> QED BY <1>7, <1>8, <1>9, <1>10

\* What counts for an account is as before when requests are.
LEMMA PaidToStays ==
  ASSUME PaidInv, UNCHANGED viewFiled, UNCHANGED viewUsed
  PROVE  PaidInv'
<1>1. Views!Amounts' = Views!Amounts /\ \A x : PaidTo(x)' = PaidTo(x)
  BY DEF Views!Amounts, PaidTo, Views!PaidToday
<1> QED BY <1>1 DEF PaidInv

\* A tree has its roots, and with anyone but a player those below him.
LEMMA ReachIs ==
  ASSUME NEW u \in Holder
  PROVE  /\ u \in Reach(u) /\ Reach(u) \subseteq Holder /\ IsFiniteSet(Reach(u))
         /\ Views!Roots(u) \subseteq Holder /\ Views!Roots(u) \subseteq Reach(u)
<1>1. Views!Roots(u) \subseteq Holder /\ u \in Views!Roots(u)
  BY DEF Views!Roots
<1>2. Views!Roots(u) \subseteq Reach(u) /\ Reach(u) \subseteq Holder
  BY <1>1 DEF Reach, Views!InTree
<1> QED BY <1>1, <1>2, FS_Subset, RecordsAssumption DEF RecordsAssumption

LEMMA ReachClosed ==
  ASSUME NEW u \in Holder, NEW v \in Reach(u), Role[v] # "client", NEW c \in Views!Children(v)
  PROVE  c \in Reach(u)
<1>1. c \in Holder
  BY RecordsAssumption DEF Views!Children, RecordsAssumption
<1>2. ASSUME NEW us \in SUBSET Holder, Views!Roots(u) \subseteq us,
             \A w \in us : Role[w] # "client" => Views!Children(w) \subseteq us
      PROVE  c \in us
  <2>1. v \in us
    BY <1>2 DEF Reach, Views!InTree
  <2> QED BY <1>2, <2>1
<1> QED BY <1>1, <1>2 DEF Reach, Views!InTree

\* Whatever has the roots, and with anyone but a player those below him, has the tree.
LEMMA ReachLeast ==
  ASSUME NEW u, NEW V, V \subseteq Holder, Views!Roots(u) \subseteq V,
         \A v \in V : Role[v] # "client" => Views!Children(v) \subseteq V
  PROVE  Reach(u) \subseteq V
BY DEF Reach, Views!InTree

\* What the accounts of a user have received.
LEMMA OwnUseTyped ==
  ASSUME viewUsed \in [BankAccount -> 0..DepositLimit], NEW v
  PROVE  /\ IsFiniteSet(Views!Owned(v)) /\ Views!Owned(v) \subseteq BankAccount
         /\ OwnUse(v) = SumFunctionOnSet(viewUsed, Views!Owned(v))
         /\ OwnUse(v) \in Nat
         /\ OwnUse(v) <= DepositLimit * Views!Cardinality(Views!Owned(v))
<1>1. IsFiniteSet(Views!Owned(v)) /\ Views!Owned(v) \subseteq BankAccount
  BY FS_Subset, RecordsAssumption DEF RecordsAssumption, Views!Owned
<1>2. OwnUse(v) = SumFunctionOnSet(viewUsed, Views!Owned(v))
  BY ViewSum DEF OwnUse, Views!UsedOf
<1>3. DepositLimit \in Nat /\ \A x \in Views!Owned(v) : viewUsed[x] \in Nat /\ viewUsed[x] \in 0..DepositLimit
  BY <1>1, RecordsAssumption DEF RecordsAssumption
<1>4. SumFunctionOnSet(viewUsed, Views!Owned(v)) \in Nat
  BY <1>1, <1>3, SumNat
<1>5. SumFunctionOnSet(viewUsed, Views!Owned(v)) <= DepositLimit * Cardinality(Views!Owned(v))
  BY <1>1, <1>3, SumWithinLimit
<1> QED BY <1>1, <1>2, <1>4, <1>5, ViewCard

\* A player has no accounts.
LEMMA PlayersOwnNone ==
  ASSUME NEW v, Role[v] = "client"
  PROVE  OwnUse(v) = 0
<1>1. Views!Owned(v) = {}
  BY RecordsAssumption DEF RecordsAssumption, Views!Owned
<1> QED BY <1>1, SumEmpty, ViewSum DEF OwnUse, Views!UsedOf

\* Accounts receive more and never less in a day.
LEMMA OwnUseGrows ==
  ASSUME viewUsed \in [BankAccount -> 0..DepositLimit],
         viewUsed' \in [BankAccount -> 0..DepositLimit],
         \A x \in BankAccount : viewUsed[x] <= viewUsed'[x], NEW v
  PROVE  OwnUse(v) <= OwnUse(v)' /\ OwnUse(v)' \in Nat
<1>1. /\ IsFiniteSet(Views!Owned(v)) /\ Views!Owned(v) \subseteq BankAccount
      /\ OwnUse(v) = SumFunctionOnSet(viewUsed, Views!Owned(v))
  BY OwnUseTyped
<1>2. OwnUse(v)' = SumFunctionOnSet(viewUsed', Views!Owned(v))
  BY ViewSum DEF OwnUse, Views!UsedOf
<1>3. \A x \in Views!Owned(v) : /\ viewUsed[x] \in Int /\ viewUsed'[x] \in Int
                                /\ viewUsed[x] <= viewUsed'[x] /\ viewUsed'[x] \in Nat
  BY <1>1, RecordsAssumption DEF RecordsAssumption
<1>4. SumFunctionOnSet(viewUsed, Views!Owned(v)) <= SumFunctionOnSet(viewUsed', Views!Owned(v))
  BY <1>1, <1>3, SumGrows
<1>5. SumFunctionOnSet(viewUsed', Views!Owned(v)) \in Nat
  BY <1>1, <1>3, SumNat
<1> QED BY <1>1, <1>2, <1>4, <1>5

\* The users below one, each with what his accounts have received.
Full(u) == [v \in Holder |-> IF v \in Reach(u) THEN OwnUse(v) ELSE 0]

\* What a tree's accounts have received is what those of its users have.
LEMMA TreeIs ==
  ASSUME viewUsed \in [BankAccount -> 0..DepositLimit], NEW u \in Holder
  PROVE  Views!TreeUsed(u) = SumFunctionOnSet(Full(u), Holder)
<1> DEFINE U == Reach(u)
           S == UNION {Views!Owned(v) : v \in U}
           owned == [v \in U |-> Views!Owned(v)]
           total == [v \in U |-> OwnUse(v)]
           full == Full(u)
<1>1. U \subseteq Holder /\ IsFiniteSet(U) /\ IsFiniteSet(Holder)
  BY ReachIs, RecordsAssumption DEF RecordsAssumption
<1>2. S \subseteq BankAccount /\ IsFiniteSet(S)
  <2>1. S \subseteq BankAccount
    BY DEF Views!Owned
  <2> HIDE DEF S
  <2> QED BY <2>1, FS_Subset, RecordsAssumption DEF RecordsAssumption
<1>3. Views!TreeUsed(u) = SumFunctionOnSet(viewUsed, S)
  BY ViewSum DEF Views!TreeUsed, Views!UsedOf, Reach
<1>4. \A x \in S : viewUsed[x] \in Int /\ OwnerOf[x] \in U
  BY <1>2, RecordsAssumption DEF Views!Owned, RecordsAssumption
<1>5. \A v \in U : \A x : x \in owned[v] <=> x \in S /\ OwnerOf[x] = v
  BY DEF Views!Owned
<1>6. \A v \in U : total[v] = SumFunctionOnSet(viewUsed, owned[v])
  BY OwnUseTyped
<1>7. \A v \in U : total[v] = full[v]
  BY <1>1 DEF Full
<1>8. \A v \in Holder : full[v] \in Int
  BY OwnUseTyped DEF Full
<1>9. \A v \in Holder \ U : full[v] = 0
  BY DEF Full
<1> HIDE DEF U, S, owned, total, full
<1>10. SumFunctionOnSet(total, U) = SumFunctionOnSet(viewUsed, S)
  BY <1>1, <1>2, <1>4, <1>5, <1>6, SumPartition
<1>11. SumFunctionOnSet(total, U) = SumFunctionOnSet(full, U)
  BY <1>1, <1>7, SumSame
<1>12. SumFunctionOnSet(full, Holder)
         = SumFunctionOnSet(full, U) + SumFunctionOnSet(full, Holder \ U)
  BY <1>1, <1>8, SumDisjoint
<1>13. IsFiniteSet(Holder \ U) /\ SumFunctionOnSet(full, Holder \ U) = 0
  <2>1. IsFiniteSet(Holder \ U)
    BY <1>1, FS_Subset
  <2> QED BY <1>9, <2>1, SumZero
<1>14. SumFunctionOnSet(full, U) \in Int
  <2>1. \A v \in U : full[v] \in Int
    BY <1>1, <1>8
  <2> QED BY <1>1, <2>1, SumInt
<1>15. SumFunctionOnSet(full, Holder) = SumFunctionOnSet(viewUsed, S)
  BY <1>10, <1>11, <1>12, <1>13, <1>14
<1> QED BY <1>3, <1>15 DEF full

\* What an answer adds up to, over all users but players.
Said(p) ==
  [v \in Holder |-> IF v \in DOMAIN walk[p].nodes \ Views!Clients THEN walk[p].nodes[v].used ELSE 0]

LEMMA SaidIs ==
  ASSUME NEW p, DOMAIN walk[p].nodes \subseteq Holder,
         \A v \in DOMAIN walk[p].nodes : walk[p].nodes[v].used \in Nat,
         NEW f, f = [v \in DOMAIN walk[p].nodes |-> walk[p].nodes[v].used]
  PROVE  Views!SumFunctionOnSet(f, DOMAIN walk[p].nodes \ Views!Clients)
           = SumFunctionOnSet(Said(p), Holder)
<1> DEFINE N == DOMAIN walk[p].nodes \ Views!Clients
           g == Said(p)
<1>1. N \subseteq Holder /\ IsFiniteSet(N) /\ IsFiniteSet(Holder) /\ IsFiniteSet(Holder \ N)
  BY FS_Subset, RecordsAssumption DEF RecordsAssumption
<1>2. /\ \A v \in N : f[v] = g[v]
      /\ \A v \in Holder : g[v] \in Int
      /\ \A v \in Holder \ N : g[v] = 0
  BY DEF Said
<1> HIDE DEF N, g
<1>3. SumFunctionOnSet(f, N) = SumFunctionOnSet(g, N)
  BY <1>1, <1>2, SumSame
<1>4. SumFunctionOnSet(g, Holder) = SumFunctionOnSet(g, N) + SumFunctionOnSet(g, Holder \ N)
  BY <1>1, <1>2, SumDisjoint
<1>5. SumFunctionOnSet(g, Holder \ N) = 0
  BY <1>1, <1>2, SumZero
<1>6. SumFunctionOnSet(g, N) \in Int
  <2>1. \A v \in N : g[v] \in Int
    BY <1>1, <1>2
  <2> QED BY <1>1, <2>1, SumInt
<1>7. SumFunctionOnSet(g, Holder) = SumFunctionOnSet(f, N)
  BY <1>3, <1>4, <1>5, <1>6
<1> QED BY <1>7, ViewSum DEF N, g

\* Trees being read are as before when accounts only receive.
LEMMA WalksStay ==
  ASSUME ViewTyped, ViewTyped', WalkInv, walk' = walk, viewToday' = viewToday,
         \A x \in BankAccount : viewUsed[x] <= viewUsed'[x],
         \A s \in Views!PaidToday :
           /\ s \in Views!PaidToday' /\ viewFiled'[s].amount = viewFiled[s].amount
           /\ viewFiled'[s].player = viewFiled[s].player
  PROVE  WalkInv'
<1>1. /\ viewUsed \in [BankAccount -> 0..DepositLimit]
      /\ viewUsed' \in [BankAccount -> 0..DepositLimit]
  BY DEF ViewTyped, Views!ViewsTypeOK
<1>2. \A v : OwnUse(v) \in Nat /\ OwnUse(v)' \in Nat /\ OwnUse(v) <= OwnUse(v)'
  BY <1>1, OwnUseTyped, OwnUseGrows
<1>7. \A v : /\ Views!Paid(v) \in Nat /\ Views!Paid(v) <= Views!Paid(v)'
             /\ Views!Paid(v)' \in Int
  <2>1. viewFiled \in Seq(ViewRequest) /\ viewFiled' \in Seq(ViewRequest)
    BY DEF ViewTyped
  <2>2. \A v : Views!Paid(v) <= Views!Paid(v)'
    BY <2>1, PaidGrows
  <2>3. \A v : Views!Paid(v) \in Nat /\ Views!Paid(v)' \in Int
    BY <2>1, PaidTyped DEF PaidByTyped
  <2> QED BY <2>2, <2>3
<1> SUFFICES ASSUME NEW p \in Viewer, walk[p] # Views!Unread
             PROVE  WalkTyped(p)' /\ WalkReaches(p)' /\ WalkAdds(p)'
  BY DEF WalkInv, Views!Unread
<1>3. WalkTyped(p) /\ WalkReaches(p) /\ WalkAdds(p)
  BY DEF WalkInv
<1>4. WalkTyped(p)'
  BY <1>3 DEF WalkTyped
<1>5. WalkReaches(p)'
  BY <1>3 DEF WalkReaches, Left, Found
<1>6. WalkAdds(p)'
  <2> SUFFICES ASSUME walk[p].day = viewToday
               PROVE  /\ \A v \in DOMAIN walk[p].nodes :
                           walk[p].nodes[v].used
                             <= (IF Role[v] = "client" THEN Views!Paid(v)' ELSE OwnUse(v)')
                      /\ walk[p].began <= Views!SumFunctionOnSet(Share(p)', Holder)
    BY <1>3 DEF WalkAdds
  <2>1. \A v \in DOMAIN walk[p].nodes : walk[p].nodes[v].used \in Nat
    BY <1>3 DEF WalkTyped
  <2>2. \A v \in DOMAIN walk[p].nodes :
          walk[p].nodes[v].used <= (IF Role[v] = "client" THEN Views!Paid(v)' ELSE OwnUse(v)')
    BY <1>2, <1>3, <1>7, <2>1 DEF WalkAdds
  <2> DEFINE f == Share(p)
             g == Share(p)'
  <2>3. \A v \in Holder : f[v] \in Int /\ g[v] \in Int /\ f[v] <= g[v]
    BY <1>2, <2>1 DEF Share
  <2>4. walk[p].began \in Int /\ walk[p].began <= SumFunctionOnSet(f, Holder)
    BY <1>3, ViewSum DEF WalkAdds, WalkTyped
  <2>5. IsFiniteSet(Holder)
    BY RecordsAssumption DEF RecordsAssumption
  <2> HIDE DEF f, g
  <2>6. SumFunctionOnSet(f, Holder) <= SumFunctionOnSet(g, Holder)
    BY <2>3, <2>5, SumGrows
  <2>7. SumFunctionOnSet(f, Holder) \in Int /\ SumFunctionOnSet(g, Holder) \in Int
    BY <2>3, <2>5, SumInt
  <2>8. walk[p].began <= SumFunctionOnSet(g, Holder)
    BY <2>4, <2>6, <2>7
  <2> QED BY <2>2, <2>8, ViewSum DEF g
<1> QED BY <1>4, <1>5, <1>6

LEMMA ViewFacts ==
  ASSUME ViewTyped
  PROVE  /\ viewUsed \in [BankAccount -> 0..DepositLimit] /\ DepositLimit \in Nat
         /\ \A x \in BankAccount : viewUsed[x] \in Nat /\ viewUsed[x] <= viewUsed[x]
         /\ viewActive \subseteq BankAccount
<1>1. DepositLimit \in Nat
  BY RecordsAssumption DEF RecordsAssumption
<1>2. viewUsed \in [BankAccount -> 0..DepositLimit] /\ viewActive \subseteq BankAccount
  BY DEF ViewTyped, Views!ViewsTypeOK
<1>3. \A n \in 0..DepositLimit : n \in Nat /\ n <= n
  BY <1>1
<1> QED BY <1>1, <1>2, <1>3

LEMMA FailTyped ==
  ASSUME NEW failed, Views!Fail(failed), viewFaults \in 0..MaxDepositFaults
  PROVE  viewFaults' \in 0..MaxDepositFaults
BY RecordsAssumption DEF Views!Fail, RecordsAssumption

\* An offer is of accounts that have as much left.
LEMMA AvailableAccountsKeeps ==
  ASSUME ViewsInv, NEW c \in Views!Clients, NEW amount \in DepositAmount,
         Views!AvailableAccounts(c, amount)
  PROVE  ViewsInv'
<1>0. ViewTyped /\ ViewFiledInv /\ PaidInv /\ WalkInv
  BY DEF ViewsInv
<1>1. PICK best :
        /\ best \subseteq {x \in viewActive : Views!CanTake(x, amount)}
        /\ offer' = [offer EXCEPT ![c] = [x \in best |-> [amount |-> amount, used |-> viewUsed[x]]]]
        /\ UNCHANGED <<viewActive, viewUsed, viewFiled, viewRows, walk, viewToday, viewFaults>>
  BY DEF Views!AvailableAccounts
<1>2. best \subseteq BankAccount
  BY <1>0, <1>1 DEF ViewTyped, Views!ViewsTypeOK
<1>3. ASSUME NEW x \in best
      PROVE  amount \in Nat /\ viewUsed[x] \in Nat /\ viewUsed[x] + amount <= DepositLimit
  <2>1. amount \in Nat /\ viewUsed[x] \in Nat /\ DepositLimit \in Nat
    BY <1>0, <1>2, ViewFacts, RecordsAssumption DEF RecordsAssumption
  <2>2. DepositLimit - viewUsed[x] >= amount
    BY <1>1 DEF Views!CanTake, Views!Remaining
  <2> QED BY <2>1, <2>2
<1>4. ViewTyped'
  <2>1. Views!ViewsTypeOK'
    BY <1>0, <1>1 DEF ViewTyped, Views!ViewsTypeOK
  <2>2. DOMAIN offer' = Views!Clients
    BY <1>0, <1>1 DEF ViewTyped
  <2>3. \A d \in Views!Clients :
          /\ DOMAIN offer'[d] \subseteq BankAccount
          /\ \A x \in DOMAIN offer'[d] :
               /\ offer'[d][x].amount \in Nat /\ offer'[d][x].used \in Nat
               /\ offer'[d][x].used + offer'[d][x].amount <= DepositLimit
    <3>1. offer'[c] = [x \in best |-> [amount |-> amount, used |-> viewUsed[x]]]
      BY <1>0, <1>1 DEF ViewTyped
    <3>2. \A d \in Views!Clients \ {c} : offer'[d] = offer[d]
      BY <1>0, <1>1 DEF ViewTyped
    <3>3. /\ DOMAIN offer'[c] \subseteq BankAccount
          /\ \A x \in DOMAIN offer'[c] :
               /\ offer'[c][x].amount \in Nat /\ offer'[c][x].used \in Nat
               /\ offer'[c][x].used + offer'[c][x].amount <= DepositLimit
      BY <1>2, <1>3, <3>1
    <3> QED BY <1>0, <3>2, <3>3 DEF ViewTyped
  <2> QED BY <1>0, <1>1, <2>1, <2>2, <2>3 DEF ViewTyped
<1>5. ViewFiledInv'
  BY <1>0, <1>1 DEF ViewFiledInv
<1>6. WalkInv'
  <2>1. \A x \in BankAccount : viewUsed[x] <= viewUsed'[x]
    BY <1>0, <1>1, ViewFacts
  <2> QED BY <1>0, <1>1, <1>4, <2>1, WalksStay DEF Views!PaidToday
<1>7. PaidInv'
  BY <1>0, <1>1, PaidToStays
<1> QED BY <1>4, <1>5, <1>6, <1>7 DEF ViewsInv

LEMMA FiledFacts ==
  ASSUME ViewTyped
  PROVE  /\ DOMAIN viewFiled = 1..Len(viewFiled) /\ Len(viewFiled) \in Nat
         /\ \A s \in DOMAIN viewFiled : viewFiled[s] \in ViewRequest
  BY DEF ViewTyped

\* A request takes what it was offered.
LEMMA DepositRequestKeeps ==
  ASSUME ViewsInv, NEW c \in Views!Clients, NEW x \in BankAccount, NEW wrote \in BOOLEAN,
         NEW dated \in BOOLEAN, Views!DepositRequest(c, x, wrote, dated)
  PROVE  ViewsInv'
<1>0. ViewTyped /\ ViewFiledInv /\ PaidInv /\ WalkInv
  BY DEF ViewsInv
<1>1. PICK r : r = [player |-> c, agent |-> Views!Up(c), master |-> Views!Up(Views!Up(c)),
                    account |-> x, amount |-> offer[c][x].amount, before |-> offer[c][x].used,
                    status |-> "pending", sure |-> wrote, fresh |-> dated]
  OBVIOUS
<1>2. /\ x \in DOMAIN offer[c] /\ Views!Fail(~wrote) /\ viewFiled' = Append(viewFiled, r)
      /\ viewRows' = IF wrote THEN [s \in DOMAIN viewRows \cup {Len(viewFiled) + 1} |->
                                      IF s \in DOMAIN viewRows THEN viewRows[s] ELSE "pending"]
                     ELSE viewRows
      /\ UNCHANGED <<viewActive, viewUsed, offer, walk, viewToday>>
  BY <1>1 DEF Views!DepositRequest
<1>3. PICK n : n = Len(viewFiled) + 1
  OBVIOUS
<1>4. /\ offer[c][x].amount \in Nat /\ offer[c][x].used \in Nat
      /\ offer[c][x].used + offer[c][x].amount <= DepositLimit
  BY <1>0, <1>2 DEF ViewTyped
<1>5. \A u : Views!Up(u) \in Holder \cup {NoHolder}
  BY RecordsAssumption DEF Views!Up, RecordsAssumption
<1>6. r \in ViewRequest
  BY <1>1, <1>4, <1>5 DEF ViewRequest
<1>7. /\ viewFiled' \in Seq(ViewRequest) /\ DOMAIN viewFiled' = DOMAIN viewFiled \cup {n}
      /\ n \notin DOMAIN viewFiled /\ viewFiled'[n] = r
      /\ \A s \in DOMAIN viewFiled : viewFiled'[s] = viewFiled[s]
  <2>1. viewFiled \in Seq(ViewRequest)
    BY <1>0 DEF ViewTyped
  <2>2. /\ viewFiled' \in Seq(ViewRequest) /\ Len(viewFiled') = Len(viewFiled) + 1
        /\ \A i \in 1..Len(viewFiled) : viewFiled'[i] = viewFiled[i]
        /\ viewFiled'[Len(viewFiled) + 1] = r
    BY <1>2, <1>6, <2>1, AppendProperties
  <2> QED BY <1>3, <2>1, <2>2
<1>8. /\ DOMAIN viewRows \subseteq DOMAIN viewRows' /\ DOMAIN viewRows' \subseteq DOMAIN viewRows \cup {n}
      /\ \A s \in DOMAIN viewRows : viewRows'[s] = viewRows[s]
      /\ DOMAIN viewRows \subseteq DOMAIN viewFiled
      /\ wrote => n \in DOMAIN viewRows' /\ viewRows'[n] = "pending"
  BY <1>0, <1>2, <1>3, <1>7 DEF ViewTyped, Views!ViewsTypeOK
<1>9. ViewTyped'
  <2>1. viewFaults' \in 0..MaxDepositFaults
    BY <1>0, <1>2, FailTyped DEF ViewTyped, Views!ViewsTypeOK
  <2>2. \A s \in DOMAIN viewFiled' :
          viewFiled'[s].player \in Views!Clients /\ viewFiled'[s].status \in Views!Filters \ {""}
    <3>1. \A s \in DOMAIN viewFiled' : viewFiled'[s] \in ViewRequest
      BY <1>0, <1>6, <1>7, FiledFacts
    <3> QED BY <3>1 DEF ViewRequest, Views!Filters
  <2>3. Views!ViewsTypeOK'
    BY <1>0, <1>2, <1>7, <1>8, <2>1, <2>2 DEF ViewTyped, Views!ViewsTypeOK
  <2> QED BY <1>0, <1>2, <1>7, <2>3 DEF ViewTyped
<1>10. ViewFiledInv'
  <2> SUFFICES ASSUME NEW s \in DOMAIN viewFiled'
               PROVE  /\ viewFiled'[s].before + viewFiled'[s].amount <= DepositLimit
                      /\ viewFiled'[s].sure => s \in DOMAIN viewRows' /\ viewRows'[s] = viewFiled'[s].status
    BY DEF ViewFiledInv
  <2>1. CASE s = n
    BY <1>1, <1>4, <1>7, <1>8, <2>1
  <2>2. CASE s # n
    BY <1>0, <1>7, <1>8, <2>2 DEF ViewFiledInv
  <2> QED BY <2>1, <2>2
<1>11. WalkInv'
  <2>1. \A y \in BankAccount : viewUsed[y] <= viewUsed'[y]
    BY <1>0, <1>2, ViewFacts
  <2>2. \A s \in Views!PaidToday :
          /\ s \in Views!PaidToday' /\ viewFiled'[s].amount = viewFiled[s].amount
          /\ viewFiled'[s].player = viewFiled[s].player
    BY <1>7 DEF Views!PaidToday
  <2> QED BY <1>0, <1>2, <1>9, <2>1, <2>2, WalksStay
<1>12. PaidInv'
  <2> SUFFICES ASSUME NEW y \in BankAccount
               PROVE  SumFunctionOnSet(Views!Amounts', PaidTo(y)') <= viewUsed[y]
    BY <1>2 DEF PaidInv
  <2>1. Views!PaidToday' = Views!PaidToday
    BY <1>1, <1>7 DEF Views!PaidToday
  <2>2. Views!PaidToday \subseteq DOMAIN viewFiled
    BY DEF Views!PaidToday
  <2>3. PaidTo(y)' = PaidTo(y)
    BY <1>7, <2>1, <2>2 DEF PaidTo
  <2>4. IsFiniteSet(PaidTo(y)) /\ PaidTo(y) \subseteq DOMAIN viewFiled
    BY <1>0, <2>2, PaidFacts, FS_Subset DEF PaidTo, ViewTyped
  <2>5. \A s \in PaidTo(y) : Views!Amounts[s] = Views!Amounts'[s]
    BY <1>7, <2>4 DEF Views!Amounts
  <2>6. SumFunctionOnSet(Views!Amounts', PaidTo(y)) = SumFunctionOnSet(Views!Amounts, PaidTo(y))
    BY <2>4, <2>5, SumSame
  <2> QED BY <1>0, <2>3, <2>6 DEF PaidInv
<1> QED BY <1>9, <1>10, <1>11, <1>12 DEF ViewsInv

\* A decision is written of requests and their rows alike, and only what fits is added.
LEMMA DecideKeeps ==
  ASSUME ViewsInv, NEW s, NEW status \in {"confirmed", "rejected"}, NEW wrote \in BOOLEAN,
         Views!Decide(s, status, wrote)
  PROVE  ViewsInv'
<1>0. ViewTyped /\ ViewFiledInv /\ PaidInv /\ WalkInv
  BY DEF ViewsInv
<1>1. /\ s \in DOMAIN viewFiled /\ (status = "confirmed" => Views!Fits(viewFiled[s]))
      /\ Views!Fail(~wrote)
      /\ viewFiled' = [viewFiled EXCEPT ![s].status = status, ![s].sure = @ /\ wrote]
      /\ viewRows' = IF wrote /\ s \in DOMAIN viewRows THEN [viewRows EXCEPT ![s] = status] ELSE viewRows
      /\ viewUsed' = IF status = "confirmed"
                     THEN [viewUsed EXCEPT ![viewFiled[s].account] = @ + viewFiled[s].amount]
                     ELSE viewUsed
      /\ UNCHANGED <<viewActive, offer, walk, viewToday>>
  BY DEF Views!Decide
<1>2. PICK r : r = viewFiled[s]
  OBVIOUS
<1>3. r \in ViewRequest
  BY <1>0, <1>1, <1>2, FiledFacts
<1>4. /\ r.account \in BankAccount /\ r.amount \in Nat /\ r.before \in Nat
      /\ viewUsed \in [BankAccount -> 0..DepositLimit] /\ DepositLimit \in Nat
  BY <1>0, <1>3, RecordsAssumption DEF ViewRequest, ViewTyped, Views!ViewsTypeOK, RecordsAssumption
<1>5. PICK new : new = [r EXCEPT !.status = status, !.sure = @ /\ wrote]
  OBVIOUS
<1>6. /\ new \in ViewRequest /\ new.status = status /\ new.before = r.before
      /\ new.amount = r.amount /\ new.fresh = r.fresh /\ new.account = r.account
      /\ new.player = r.player /\ (new.sure => r.sure /\ wrote)
  BY <1>3, <1>5 DEF ViewRequest
<1>7. viewFiled' = [viewFiled EXCEPT ![s] = new]
  BY <1>1, <1>2, <1>5
<1>8. /\ viewFiled' \in Seq(ViewRequest) /\ DOMAIN viewFiled' = DOMAIN viewFiled
      /\ viewFiled'[s] = new /\ \A t \in DOMAIN viewFiled \ {s} : viewFiled'[t] = viewFiled[t]
  <2>1. viewFiled \in Seq(ViewRequest)
    BY <1>0 DEF ViewTyped
  <2>2. viewFiled' \in Seq(ViewRequest)
    <3>1. s \in 1..Len(viewFiled) /\ new \in ViewRequest
      BY <1>0, <1>1, <1>6, FiledFacts
    <3>2. PICK after : after = [viewFiled EXCEPT ![s] = new]
      OBVIOUS
    <3>3. after \in Seq(ViewRequest)
      BY <2>1, <3>1, <3>2, ExceptSeq
    <3> QED BY <1>7, <3>2, <3>3
  <2> QED BY <1>1, <1>7, <2>2
<1>9. /\ viewUsed' \in [BankAccount -> 0..DepositLimit]
      /\ \A x \in BankAccount : viewUsed[x] <= viewUsed'[x]
  <2>1. CASE status = "confirmed"
    <3>1. viewUsed[r.account] + r.amount <= DepositLimit /\ viewUsed[r.account] \in Nat
      BY <1>1, <1>2, <1>4, <2>1 DEF Views!Fits
    <3>2. viewUsed' = [viewUsed EXCEPT ![r.account] = viewUsed[r.account] + r.amount]
      BY <1>1, <1>2, <2>1
    <3>3. viewUsed[r.account] + r.amount \in 0..DepositLimit
          /\ viewUsed[r.account] <= viewUsed[r.account] + r.amount
      BY <1>4, <3>1
    <3> QED BY <1>4, <3>2, <3>3
  <2>2. CASE status # "confirmed"
    BY <1>1, <1>4, <2>2
  <2> QED BY <2>1, <2>2
<1>10. /\ DOMAIN viewRows' = DOMAIN viewRows
       /\ \A t \in DOMAIN viewRows : t # s => viewRows'[t] = viewRows[t]
       /\ wrote /\ s \in DOMAIN viewRows => viewRows'[s] = status
  BY <1>1
<1>11. ViewTyped'
  <2>1. viewFaults' \in 0..MaxDepositFaults
    BY <1>0, <1>1, FailTyped DEF ViewTyped, Views!ViewsTypeOK
  <2>2. \A t \in DOMAIN viewFiled' :
          viewFiled'[t].player \in Views!Clients /\ viewFiled'[t].status \in Views!Filters \ {""}
    <3>1. \A t \in DOMAIN viewFiled' : viewFiled'[t] \in ViewRequest
      BY <1>8
    <3> QED BY <3>1 DEF ViewRequest, Views!Filters
  <2>3. Views!ViewsTypeOK'
    BY <1>0, <1>1, <1>8, <1>9, <1>10, <2>1, <2>2 DEF ViewTyped, Views!ViewsTypeOK
  <2> QED BY <1>0, <1>1, <1>8, <2>3 DEF ViewTyped
<1>12. ViewFiledInv'
  <2> SUFFICES ASSUME NEW t \in DOMAIN viewFiled'
               PROVE  /\ viewFiled'[t].before + viewFiled'[t].amount <= DepositLimit
                      /\ viewFiled'[t].sure => t \in DOMAIN viewRows' /\ viewRows'[t] = viewFiled'[t].status
    BY DEF ViewFiledInv
  <2>1. CASE t = s
    BY <1>0, <1>1, <1>2, <1>6, <1>8, <1>10, <2>1 DEF ViewFiledInv
  <2>2. CASE t # s
    BY <1>0, <1>8, <1>10, <2>2 DEF ViewFiledInv
  <2> QED BY <2>1, <2>2
<1>15. r.status = "pending" /\ s \notin Views!PaidToday
  BY <1>1, <1>2 DEF Views!Decide, Views!PaidToday
<1>16. /\ Views!PaidToday' = IF status = "confirmed" /\ r.fresh THEN Views!PaidToday \cup {s}
                             ELSE Views!PaidToday
       /\ \A t \in DOMAIN viewFiled :
            /\ viewFiled'[t].amount = viewFiled[t].amount
            /\ viewFiled'[t].player = viewFiled[t].player
            /\ viewFiled'[t].account = viewFiled[t].account
       /\ Views!Amounts' = Views!Amounts
  <2>1. \A t \in DOMAIN viewFiled :
          /\ viewFiled'[t].amount = viewFiled[t].amount
          /\ viewFiled'[t].player = viewFiled[t].player
          /\ viewFiled'[t].account = viewFiled[t].account
    BY <1>2, <1>6, <1>8
  <2>2. Views!Amounts' = Views!Amounts
    BY <1>8, <2>1 DEF Views!Amounts
  <2>3. \A t : t \in Views!PaidToday' <=>
              t \in Views!PaidToday \/ (t = s /\ status = "confirmed" /\ r.fresh)
    <3>1. \A t \in DOMAIN viewFiled \ {s} : t \in Views!PaidToday' <=> t \in Views!PaidToday
      BY <1>8 DEF Views!PaidToday
    <3>2. s \in Views!PaidToday' <=> status = "confirmed" /\ r.fresh
      BY <1>1, <1>6, <1>8 DEF Views!PaidToday
    <3>3. Views!PaidToday \subseteq DOMAIN viewFiled /\ Views!PaidToday' \subseteq DOMAIN viewFiled
      BY <1>8 DEF Views!PaidToday
    <3> QED BY <1>1, <1>15, <3>1, <3>2, <3>3
  <2> QED BY <2>1, <2>2, <2>3
<1>13. WalkInv'
  <2>1. \A t \in Views!PaidToday :
          /\ t \in Views!PaidToday' /\ viewFiled'[t].amount = viewFiled[t].amount
          /\ viewFiled'[t].player = viewFiled[t].player
    BY <1>16 DEF Views!PaidToday
  <2> QED BY <1>0, <1>1, <1>9, <1>11, <2>1, WalksStay
<1>14. PaidInv'
  <2> SUFFICES ASSUME NEW x \in BankAccount
               PROVE  SumFunctionOnSet(Views!Amounts, PaidTo(x)') <= viewUsed'[x]
    BY <1>16 DEF PaidInv
  <2>1. /\ IsFiniteSet(PaidTo(x)) /\ \A t \in PaidTo(x) : Views!Amounts[t] \in Int
        /\ s \notin PaidTo(x) /\ Views!Amounts[s] = r.amount
    <3>1. viewFiled \in Seq(ViewRequest) /\ PaidTo(x) \subseteq Views!PaidToday
      BY <1>0 DEF ViewTyped, PaidTo
    <3>2. IsFiniteSet(PaidTo(x))
      BY <3>1, PaidFacts, FS_Subset
    <3>3. \A t \in PaidTo(x) : Views!Amounts[t] \in Int
      BY <3>1, PaidFacts
    <3>4. s \notin PaidTo(x) /\ Views!Amounts[s] = r.amount
      BY <1>1, <1>2, <1>15, <3>1 DEF Views!Amounts
    <3> QED BY <3>2, <3>3, <3>4
  <2>2. SumFunctionOnSet(Views!Amounts, PaidTo(x)) <= viewUsed[x]
    BY <1>0 DEF PaidInv
  <2>3. viewUsed[x] \in Int /\ viewUsed'[x] \in Int /\ viewUsed[x] <= viewUsed'[x]
    BY <1>4, <1>9
  <2>4. SumFunctionOnSet(Views!Amounts, PaidTo(x)) \in Int
    BY <2>1, SumInt
  <2>5. CASE status = "confirmed" /\ r.fresh /\ r.account = x
    <3>1. PaidTo(x)' = PaidTo(x) \cup {s}
      BY <1>1, <1>2, <1>16, <2>5 DEF PaidTo, Views!PaidToday
    <3>2. SumFunctionOnSet(Views!Amounts, PaidTo(x) \cup {s})
            = SumFunctionOnSet(Views!Amounts, PaidTo(x)) + r.amount
      BY <1>4, <2>1, SumAdd
    <3>3. viewUsed'[x] = viewUsed[x] + r.amount
      BY <1>1, <1>2, <1>4, <2>5
    <3> QED BY <1>4, <2>2, <2>3, <2>4, <3>1, <3>2, <3>3
  <2>6. CASE ~(status = "confirmed" /\ r.fresh /\ r.account = x)
    <3>1. PaidTo(x)' = PaidTo(x)
      BY <1>1, <1>2, <1>16, <2>6 DEF PaidTo, Views!PaidToday
    <3> QED BY <2>2, <2>3, <2>4, <3>1
  <2> QED BY <2>5, <2>6
<1> QED BY <1>11, <1>12, <1>13, <1>14 DEF ViewsInv

LEMMA DeleteAccountKeeps ==
  ASSUME ViewsInv, NEW x, Views!DeleteBankAccount(x)
  PROVE  ViewsInv'
<1>0. ViewTyped /\ ViewFiledInv /\ PaidInv /\ WalkInv
  BY DEF ViewsInv
<1>1. /\ viewActive' = viewActive \ {x}
      /\ UNCHANGED <<viewUsed, viewFiled, viewRows, offer, walk, viewToday, viewFaults>>
  BY DEF Views!DeleteBankAccount
<1>2. ViewTyped'
  BY <1>0, <1>1 DEF ViewTyped, Views!ViewsTypeOK
<1>3. ViewFiledInv'
  BY <1>0, <1>1 DEF ViewFiledInv
<1>4. WalkInv'
  <2>1. \A y \in BankAccount : viewUsed[y] <= viewUsed'[y]
    BY <1>0, <1>1, ViewFacts
  <2> QED BY <1>0, <1>1, <1>2, <2>1, WalksStay DEF Views!PaidToday
<1>5. PaidInv'
  BY <1>0, <1>1, PaidToStays
<1> QED BY <1>2, <1>3, <1>4, <1>5 DEF ViewsInv

\* Nothing is said of a tree begun the day before.
LEMMA NextViewDayKeeps ==
  ASSUME ViewsInv, Views!NextDay
  PROVE  ViewsInv'
<1>0. ViewTyped /\ ViewFiledInv /\ PaidInv /\ WalkInv
  BY DEF ViewsInv
<1>1. /\ viewToday < LastDepositDay /\ viewToday' = viewToday + 1
      /\ viewUsed' = [x \in BankAccount |-> 0]
      /\ viewFiled' = [s \in DOMAIN viewFiled |-> [viewFiled[s] EXCEPT !.fresh = FALSE]]
      /\ UNCHANGED <<viewActive, viewRows, offer, walk, viewFaults>>
  BY DEF Views!NextDay
<1>2. viewToday \in Nat /\ viewToday' \in 0..LastDepositDay /\ viewToday' # viewToday
      /\ viewUsed' \in [BankAccount -> 0..DepositLimit]
  <2>1. viewToday \in 0..LastDepositDay /\ LastDepositDay \in Nat
    BY <1>0, RecordsAssumption DEF ViewTyped, Views!ViewsTypeOK, RecordsAssumption
  <2>2. 0 \in 0..DepositLimit
    BY <1>0, ViewFacts
  <2> QED BY <1>1, <2>1, <2>2
<1>6. /\ viewFiled' \in Seq(ViewRequest) /\ DOMAIN viewFiled' = DOMAIN viewFiled
      /\ \A s \in DOMAIN viewFiled :
           /\ viewFiled'[s] \in ViewRequest /\ viewFiled'[s].fresh = FALSE
           /\ viewFiled'[s].before = viewFiled[s].before
           /\ viewFiled'[s].amount = viewFiled[s].amount
           /\ viewFiled'[s].sure = viewFiled[s].sure
           /\ viewFiled'[s].status = viewFiled[s].status
  <2>1. \A r \in ViewRequest :
          LET a == [r EXCEPT !.fresh = FALSE]
          IN  /\ a \in ViewRequest /\ a.fresh = FALSE /\ a.before = r.before
              /\ a.amount = r.amount /\ a.sure = r.sure /\ a.status = r.status
    BY DEF ViewRequest
  <2>2. /\ DOMAIN viewFiled = 1..Len(viewFiled) /\ Len(viewFiled) \in Nat
        /\ \A s \in DOMAIN viewFiled : viewFiled[s] \in ViewRequest
    BY <1>0, FiledFacts
  <2>3. /\ DOMAIN viewFiled' = DOMAIN viewFiled
        /\ \A s \in DOMAIN viewFiled : viewFiled'[s] = [viewFiled[s] EXCEPT !.fresh = FALSE]
    BY <1>1
  <2>4. \A s \in DOMAIN viewFiled :
          /\ viewFiled'[s] \in ViewRequest /\ viewFiled'[s].fresh = FALSE
          /\ viewFiled'[s].before = viewFiled[s].before
          /\ viewFiled'[s].amount = viewFiled[s].amount
          /\ viewFiled'[s].sure = viewFiled[s].sure
          /\ viewFiled'[s].status = viewFiled[s].status
    <3> SUFFICES ASSUME NEW s \in DOMAIN viewFiled
                 PROVE  /\ viewFiled'[s] \in ViewRequest /\ viewFiled'[s].fresh = FALSE
                        /\ viewFiled'[s].before = viewFiled[s].before
                        /\ viewFiled'[s].amount = viewFiled[s].amount
                        /\ viewFiled'[s].sure = viewFiled[s].sure
                        /\ viewFiled'[s].status = viewFiled[s].status
      OBVIOUS
    <3>1. viewFiled[s] \in ViewRequest /\ viewFiled'[s] = [viewFiled[s] EXCEPT !.fresh = FALSE]
      BY <2>2, <2>3
    <3> QED BY ONLY <2>1, <3>1
  <2>5. viewFiled' \in [1..Len(viewFiled) -> ViewRequest]
    BY <1>1, <2>2, <2>3, <2>4
  <2> QED BY <2>2, <2>3, <2>4, <2>5
<1>3. ViewTyped'
  <2>1. \A s \in DOMAIN viewFiled' :
          viewFiled'[s].player \in Views!Clients /\ viewFiled'[s].status \in Views!Filters \ {""}
    BY <1>6 DEF ViewRequest, Views!Filters
  <2> QED BY <1>0, <1>1, <1>2, <1>6, <2>1 DEF ViewTyped, Views!ViewsTypeOK
<1>4. ViewFiledInv'
  BY <1>0, <1>1, <1>6 DEF ViewFiledInv
<1>7. PaidInv'
  <2>1. \A x : PaidTo(x)' = {}
    BY <1>6 DEF PaidTo, Views!PaidToday
  <2>2. \A x \in BankAccount : SumFunctionOnSet(Views!Amounts', PaidTo(x)') = 0
    BY <2>1, SumEmpty
  <2> QED BY <1>1, <2>2 DEF PaidInv
<1>5. WalkInv'
  <2> SUFFICES ASSUME NEW p \in Viewer, walk[p] # Views!Unread
               PROVE  WalkTyped(p)' /\ WalkReaches(p)' /\ WalkAdds(p)'
    BY <1>1 DEF WalkInv, Views!Unread
  <2>1. WalkTyped(p) /\ WalkReaches(p) /\ WalkAdds(p)
    BY <1>0 DEF WalkInv
  <2>2. walk[p].day \in 0..viewToday' /\ walk[p].day # viewToday'
    BY <1>1, <1>2, <2>1 DEF WalkTyped
  <2>3. WalkTyped(p)'
    BY <1>1, <2>1, <2>2 DEF WalkTyped
  <2>4. WalkReaches(p)'
    BY <1>1, <2>1 DEF WalkReaches, Left, Found
  <2>5. WalkAdds(p)'
    BY <1>1, <2>1, <2>2 DEF WalkAdds
  <2> QED BY <2>3, <2>4, <2>5
<1> QED BY <1>3, <1>4, <1>5, <1>7 DEF ViewsInv

\* A tree step changes what is read, by one request.
LEMMA WalkStep ==
  ASSUME ViewsInv, NEW p \in Viewer,
         UNCHANGED <<viewActive, viewUsed, viewFiled, viewRows, offer, viewToday, viewFaults>>,
         NEW w, walk' = [walk EXCEPT ![p] = w],
         DOMAIN w.nodes \subseteq Holder,
         w # Views!Unread => WalkTyped(p)' /\ WalkReaches(p)' /\ WalkAdds(p)'
  PROVE  ViewsInv'
<1>0. ViewTyped /\ ViewFiledInv /\ PaidInv /\ WalkInv
  BY DEF ViewsInv
<1>1. DOMAIN walk' = Viewer /\ walk'[p] = w /\ \A q \in Viewer \ {p} : walk'[q] = walk[q]
  BY <1>0 DEF ViewTyped
<1>2. ViewTyped'
  BY <1>0, <1>1 DEF ViewTyped, Views!ViewsTypeOK
<1>3. ViewFiledInv'
  BY <1>0 DEF ViewFiledInv
<1>4. WalkInv'
  <2> SUFFICES ASSUME NEW q \in Viewer, walk'[q] # Views!Unread
               PROVE  WalkTyped(q)' /\ WalkReaches(q)' /\ WalkAdds(q)'
    BY DEF WalkInv, Views!Unread
  <2>1. CASE q = p
    BY <1>1, <2>1
  <2>2. CASE q # p
    <3>1. WalkTyped(q) /\ WalkReaches(q) /\ WalkAdds(q) /\ walk'[q] = walk[q]
      BY <1>0, <1>1, <2>2 DEF WalkInv
    <3>2. WalkTyped(q)'
      BY <3>1 DEF WalkTyped
    <3>3. WalkReaches(q)'
      BY <3>1 DEF WalkReaches, Left, Found
    <3>4. \A v : OwnUse(v)' = OwnUse(v)
      BY ViewSum DEF OwnUse, Views!UsedOf
    <3>5. Share(q)' = Share(q)
      BY <3>1, <3>4 DEF Share
    <3>7. \A v : Views!Paid(v)' = Views!Paid(v)
      BY PaidIs DEF PaidBy, Views!PaidToday, Views!Amounts
    <3>6. WalkAdds(q)'
      BY <3>1, <3>4, <3>5, <3>7, ViewSum DEF WalkAdds
    <3> QED BY <3>2, <3>3, <3>6
  <2> QED BY <2>1, <2>2
<1>5. PaidInv'
  BY <1>0, PaidToStays
<1> QED BY <1>2, <1>3, <1>4, <1>5 DEF ViewsInv

\* The answer is sent.
LEMMA TreeSentKeeps ==
  ASSUME ViewsInv, NEW p \in Viewer, Views!TreeSent(p)
  PROVE  ViewsInv'
<1>1. DOMAIN Views!Unread.nodes \subseteq Holder
  BY DEF Views!Unread
<1> QED BY <1>1, WalkStep DEF Views!TreeSent

\* The orders in which users are read: each is, and no one else.
LEMMA OrderIs ==
  ASSUME NEW S, S \subseteq Holder, NEW order \in Views!Orders(S)
  PROVE  /\ order \in Seq(Holder)
         /\ \A v : (\E k \in DOMAIN order : order[k] = v) <=> v \in S
<1>1. IsFiniteSet(S) /\ Views!Cardinality(S) = Cardinality(S) /\ Cardinality(S) \in Nat
  BY FS_Subset, FS_CardinalityType, ViewCard, RecordsAssumption DEF RecordsAssumption
<1>2. order \in [1..Cardinality(S) -> S] /\ Views!Range(order) = S
  BY <1>1 DEF Views!Orders
<1>3. order \in [1..Cardinality(S) -> Holder]
  BY <1>2
<1>4. order \in Seq(Holder)
  BY <1>1, <1>3
<1> QED BY <1>2, <1>4 DEF Views!Range

\* Before anything is read, the answer has what all accounts below have received.
LEMMA BeginTreeKeeps ==
  ASSUME ViewsInv, NEW p \in Viewer, NEW u \in Holder, Views!BeginTree(p, u)
  PROVE  ViewsInv'
<1>0. ViewTyped /\ WalkInv
  BY DEF ViewsInv
<1>1. PICK order \in Views!Orders(Views!Roots(u)) :
        walk' = [walk EXCEPT ![p] = [todo |-> order, nodes |-> <<>>, root |-> u,
                                     began |-> Views!TreeUsed(u), day |-> viewToday]]
  BY DEF Views!BeginTree
<1>2. UNCHANGED <<viewActive, viewUsed, viewFiled, viewRows, offer, viewToday, viewFaults>>
  BY DEF Views!BeginTree
<1>3. PICK w : w = [todo |-> order, nodes |-> <<>>, root |-> u,
                    began |-> Views!TreeUsed(u), day |-> viewToday]
  OBVIOUS
<1>4. walk' = [walk EXCEPT ![p] = w] /\ walk'[p] = w
  BY <1>0, <1>1, <1>3 DEF ViewTyped
<1>5. DOMAIN w.nodes = {}
  BY <1>3
<1>6. order \in Seq(Holder) /\ \A v : (\E k \in DOMAIN order : order[k] = v) <=> v \in Views!Roots(u)
  BY OrderIs, ReachIs
<1>7. \A v : OwnUse(v) \in Nat
  BY <1>0, ViewFacts, OwnUseTyped
<1>8. Views!TreeUsed(u) = SumFunctionOnSet(Full(u), Holder)
  BY <1>0, ViewFacts, TreeIs
<1>9. SumFunctionOnSet(Full(u), Holder) \in Int
  <2>1. \A v \in Holder : Full(u)[v] \in Int
    BY <1>7 DEF Full
  <2> QED BY <2>1, SumInt, RecordsAssumption DEF RecordsAssumption
<1>10. viewToday \in 0..viewToday
  <2>1. viewToday \in 0..LastDepositDay /\ LastDepositDay \in Nat
    BY <1>0, RecordsAssumption DEF ViewTyped, Views!ViewsTypeOK, RecordsAssumption
  <2> QED BY <2>1
<1>11. WalkTyped(p)'
  BY <1>2, <1>3, <1>4, <1>6, <1>8, <1>9, <1>10 DEF WalkTyped
<1>12. WalkReaches(p)'
  <2>1. \A v : Left(p, v)' <=> v \in Views!Roots(u)
    BY <1>3, <1>4, <1>6 DEF Left
  <2>2. \A v : ~Found(p, v)'
    BY <1>4, <1>5 DEF Found
  <2>3. \A r \in Views!Roots(u) : r \in Reach(u)
    BY ReachIs
  <2>4. walk'[p].root = u /\ DOMAIN walk'[p].nodes = {}
    BY <1>3, <1>4
  <2> QED BY <2>1, <2>2, <2>3, <2>4 DEF WalkReaches
<1>13. WalkAdds(p)'
  <2>2. \A v : OwnUse(v)' = OwnUse(v)
    BY <1>2, ViewSum DEF OwnUse, Views!UsedOf
  <2>1. Share(p)' = Full(u)'
    <3>1. \A v \in Holder : Role[v] = "client" => OwnUse(v)' = 0
      BY <2>2, PlayersOwnNone
    <3>2. walk'[p].root = u /\ Reach(u)' = Reach(u)
      BY <1>3, <1>4
    <3> QED BY <1>4, <1>5, <3>1, <3>2 DEF Share, Full
  <2>3. Full(u)' = Full(u)
    BY <2>2 DEF Full
  <2>4. walk'[p].began = Views!TreeUsed(u) /\ DOMAIN walk'[p].nodes = {}
    BY <1>3, <1>4
  <2>5. Views!SumFunctionOnSet(Share(p)', Holder) = walk'[p].began
    BY <1>8, <2>1, <2>3, <2>4, ViewSum
  <2>6. walk'[p].began \in Int
    BY <1>8, <1>9, <2>4
  <2>7. walk'[p].began <= Views!SumFunctionOnSet(Share(p)', Holder)
    BY <2>5, <2>6
  <2> QED BY <2>4, <2>7, ViewSum DEF WalkAdds
<1> QED BY <1>2, <1>4, <1>5, <1>11, <1>12, <1>13, WalkStep

\* The first of b is read, those of a are to be read before the rest of b.
ReadsOn(a, b, c, h) ==
  /\ c \in Seq(Holder) /\ h \in Holder
  /\ \E k \in DOMAIN b : b[k] = h
  /\ \A v : (\E k \in DOMAIN a : a[k] = v) => \E k \in DOMAIN c : c[k] = v
  /\ \A v : (\E k \in DOMAIN b : b[k] = v) /\ v # h => \E k \in DOMAIN c : c[k] = v
  /\ \A v : (\E k \in DOMAIN c : c[k] = v) =>
       (\E k \in DOMAIN a : a[k] = v) \/ (\E k \in DOMAIN b : b[k] = v)

\* What is read after the first: those below him, and then the others.
LEMMA ReadNext ==
  ASSUME NEW a \in Seq(Holder), NEW b \in Seq(Holder), b # <<>>
  PROVE  ReadsOn(a, b, a \o Tail(b), Head(b))
<1> DEFINE S == Holder
<1>c. PICK c : c = a \o Tail(b)
  OBVIOUS
<1>h. PICK h : h = Head(b)
  OBVIOUS
<1> HIDE DEF S
<1>s. a \in Seq(S) /\ b \in Seq(S)
  BY DEF S
<1>1. /\ Len(b) \in Nat /\ Len(b) >= 1 /\ DOMAIN b = 1..Len(b) /\ Head(b) = b[1] /\ b[1] \in S
      /\ Len(a) \in Nat /\ DOMAIN a = 1..Len(a)
  BY <1>s
<1>2. PICK t : t = Tail(b)
  OBVIOUS
<1>3. /\ t \in Seq(S) /\ Len(t) = Len(b) - 1 /\ \A k \in 1..Len(t) : t[k] = b[k + 1]
  BY <1>s, <1>1, <1>2
<1>4. /\ c \in Seq(S) /\ Len(c) = Len(a) + Len(t)
      /\ \A k \in 1..(Len(a) + Len(t)) : c[k] = IF k <= Len(a) THEN a[k] ELSE t[k - Len(a)]
  BY <1>c, <1>s, <1>2, <1>3, ConcatProperties
<1>5. DOMAIN c = 1..(Len(a) + Len(t))
  BY <1>4
<1>6. ASSUME NEW k \in DOMAIN a PROVE k \in DOMAIN c /\ c[k] = a[k]
  BY <1>1, <1>3, <1>4, <1>5
<1>7. ASSUME NEW k \in DOMAIN b, k # 1
      PROVE  \E j \in DOMAIN c : c[j] = b[k]
  <2>1. PICK j : j = Len(a) + (k - 1)
    OBVIOUS
  <2>2. k \in Nat /\ k - 1 \in 1..Len(t) /\ (k - 1) + 1 = k
    BY <1>1, <1>3, <1>7
  <2>3. j \in DOMAIN c /\ ~(j <= Len(a)) /\ j - Len(a) = k - 1
    BY <1>1, <1>3, <1>5, <2>1, <2>2
  <2>4. c[j] = t[k - 1]
    BY <1>4, <1>5, <2>3
  <2>5. t[k - 1] = b[k]
    BY <1>3, <2>2
  <2> QED BY <2>3, <2>4, <2>5
<1>8. ASSUME NEW k \in DOMAIN c
      PROVE  (\E j \in DOMAIN a : a[j] = c[k]) \/ (\E j \in DOMAIN b : b[j] = c[k])
  <2>1. CASE k <= Len(a)
    <3>1. k \in DOMAIN a /\ c[k] = a[k]
      BY <1>1, <1>4, <1>5, <2>1
    <3> QED BY <3>1
  <2>2. CASE ~(k <= Len(a))
    <3>1. k \in Nat /\ k - Len(a) \in 1..Len(t) /\ (k - Len(a)) + 1 \in DOMAIN b
      BY <1>1, <1>3, <1>5, <2>2
    <3>2. c[k] = t[k - Len(a)]
      BY <1>4, <1>5, <2>2
    <3>3. t[k - Len(a)] = b[(k - Len(a)) + 1]
      BY <1>3, <3>1
    <3> QED BY <3>1, <3>2, <3>3
  <2> QED BY <2>1, <2>2
<1>9. \E k \in DOMAIN b : b[k] = h
  BY <1>h, <1>1
<1>10. \A v : (\E k \in DOMAIN b : b[k] = v) /\ v # h => \E k \in DOMAIN c : c[k] = v
  BY <1>h, <1>1, <1>7
<1>11. \A v : (\E k \in DOMAIN a : a[k] = v) => \E k \in DOMAIN c : c[k] = v
  BY <1>6
<1>12. \A v : (\E k \in DOMAIN c : c[k] = v) =>
         (\E k \in DOMAIN a : a[k] = v) \/ (\E k \in DOMAIN b : b[k] = v)
  BY <1>8
<1>13. c \in Seq(S) /\ h \in S
  BY <1>h, <1>1, <1>4
<1>14. ReadsOn(a, b, c, h)
  BY ONLY <1>9, <1>10, <1>11, <1>12, <1>13, Zenon DEF ReadsOn, S
<1> QED BY <1>c, <1>h, <1>14, Zenon

\* One user is read; those below are still to be.
LEMMA BuildTreeKeeps ==
  ASSUME ViewsInv, NEW p \in Viewer, Views!BuildTree(p)
  PROVE  ViewsInv'
<1>0. ViewTyped /\ WalkInv
  BY DEF ViewsInv
<1>1. PICK old : old = walk[p]
  OBVIOUS
<1>2. PICK u : u = Head(old.todo)
  OBVIOUS
<1>3. PICK node : node = IF Role[u] = "client" THEN Views!LeafOf(u) ELSE Views!NodeOf(u)
  OBVIOUS
<1>4. PICK below : below = IF Role[u] = "client" THEN {} ELSE Views!Children(u)
  OBVIOUS
<1>5. PICK found : found = [v \in DOMAIN old.nodes \cup {u} |-> IF v = u THEN node ELSE old.nodes[v]]
  OBVIOUS
<1>6. /\ old.todo # <<>>
      /\ UNCHANGED <<viewActive, viewUsed, viewFiled, viewRows, offer, viewToday, viewFaults>>
  BY <1>1 DEF Views!BuildTree
<1>7. PICK next \in Views!Orders(below) :
        walk' = [walk EXCEPT ![p].todo = next \o Tail(@), ![p].nodes = found]
  BY <1>1, <1>2, <1>3, <1>4, <1>5 DEF Views!BuildTree
<1>8. old # Views!Unread
  BY <1>6 DEF Views!Unread
<1>9. WalkTyped(p) /\ WalkReaches(p) /\ WalkAdds(p)
  BY <1>0, <1>1, <1>8 DEF WalkInv
<1>10. PICK after : after = next \o Tail(old.todo)
  OBVIOUS
<1>11. PICK w : w = [todo |-> after, nodes |-> found, root |-> old.root, began |-> old.began,
                     day |-> old.day]
  OBVIOUS
<1>12. walk' = [walk EXCEPT ![p] = w]
  <2>1. old = [todo |-> old.todo, nodes |-> old.nodes, root |-> old.root, began |-> old.began,
               day |-> old.day]
    BY <1>1, <1>9 DEF WalkTyped
  <2>2. [old EXCEPT !.todo = after, !.nodes = found] = w
    <3>1. PICK a, b, c, d, e : a = old.todo /\ b = old.nodes /\ c = old.root /\ d = old.began /\ e = old.day
      OBVIOUS
    <3>2. old = [todo |-> a, nodes |-> b, root |-> c, began |-> d, day |-> e]
      BY <2>1, <3>1
    <3>3. [old EXCEPT !.todo = after, !.nodes = found]
            = [todo |-> after, nodes |-> found, root |-> c, began |-> d, day |-> e]
      <4>1. PICK mid : mid = [old EXCEPT !.todo = after]
        OBVIOUS
      <4>2. mid = [todo |-> after, nodes |-> b, root |-> c, began |-> d, day |-> e]
        BY <3>2, <4>1
      <4>3. [mid EXCEPT !.nodes = found]
              = [todo |-> after, nodes |-> found, root |-> c, began |-> d, day |-> e]
        BY <4>2
      <4> QED BY <4>1, <4>3, Zenon
    <3> QED BY <1>11, <3>1, <3>3
  <2>3. walk' = [walk EXCEPT ![p] = [old EXCEPT !.todo = next \o Tail(@), !.nodes = found]]
    BY <1>1, <1>7
  <2>4. [old EXCEPT !.todo = next \o Tail(@), !.nodes = found]
          = [old EXCEPT !.todo = after, !.nodes = found]
    BY <1>10
  <2> QED BY <2>2, <2>3, <2>4
<1>13. walk'[p] = w
  BY <1>0, <1>12 DEF ViewTyped
<1>14. /\ old.todo \in Seq(Holder) /\ old.root \in Holder /\ DOMAIN old.nodes \subseteq Holder
       /\ \A v \in DOMAIN old.nodes : old.nodes[v].used \in Nat
  BY <1>1, <1>9 DEF WalkTyped
<1>15. below \subseteq Holder
  BY <1>4, RecordsAssumption DEF Views!Children, RecordsAssumption
<1>16. next \in Seq(Holder) /\ \A v : (\E k \in DOMAIN next : next[k] = v) <=> v \in below
  BY <1>15, OrderIs
<1>17. /\ after \in Seq(Holder) /\ u \in Holder /\ Left(p, u)
       /\ \A v \in below : Left(p, v)'
       /\ \A v : Left(p, v) /\ v # u => Left(p, v)'
       /\ \A v : Left(p, v)' => Left(p, v) \/ v \in below
  <2>1. /\ after \in Seq(Holder) /\ u \in Holder
        /\ \E k \in DOMAIN old.todo : old.todo[k] = u
        /\ \A v : (\E k \in DOMAIN next : next[k] = v) => \E k \in DOMAIN after : after[k] = v
        /\ \A v : (\E k \in DOMAIN old.todo : old.todo[k] = v) /\ v # u =>
             \E k \in DOMAIN after : after[k] = v
        /\ \A v : (\E k \in DOMAIN after : after[k] = v) =>
             (\E k \in DOMAIN next : next[k] = v) \/ (\E k \in DOMAIN old.todo : old.todo[k] = v)
    <3>1. PICK todo : todo = old.todo
      OBVIOUS
    <3>2. next \in Seq(Holder) /\ todo \in Seq(Holder) /\ todo # <<>>
      BY <1>6, <1>14, <1>16, <3>1
    <3>3. ReadsOn(next, todo, after, u)
      <4>1. ReadsOn(next, todo, next \o Tail(todo), Head(todo))
        BY ONLY <3>2, ReadNext
      <4> QED BY <1>2, <1>10, <3>1, <4>1
    <3> QED BY <3>1, <3>3, Zenon DEF ReadsOn
  <2>2. walk'[p].todo = after
    BY <1>11, <1>13
  <2> QED BY <1>1, <1>16, <2>1, <2>2 DEF Left
<1>18. /\ walk'[p].nodes = found /\ DOMAIN found = DOMAIN old.nodes \cup {u}
       /\ found[u] = node /\ \A v \in DOMAIN old.nodes \ {u} : found[v] = old.nodes[v]
  BY <1>5, <1>11, <1>13
<1>19. \A v : Found(p, v)' <=> Found(p, v) \/ v = u
  BY <1>1, <1>18 DEF Found
<1>20. /\ OwnUse(u) \in Nat /\ \A v : OwnUse(v) \in Nat /\ OwnUse(v)' = OwnUse(v)
  BY <1>0, <1>6, ViewFacts, OwnUseTyped, ViewSum DEF OwnUse, Views!UsedOf
<1>27. \A v : Views!Paid(v) \in Nat /\ Views!Paid(v)' = Views!Paid(v)
  <2>1. \A v : Views!Paid(v)' = Views!Paid(v)
    BY <1>6, PaidIs DEF PaidBy, Views!PaidToday, Views!Amounts
  <2> QED BY <1>0, <2>1, PaidTyped DEF PaidByTyped, ViewTyped
<1>21. /\ node.used \in Nat /\ (Role[u] # "client" => node.used <= node.limit)
       /\ node.used = IF Role[u] = "client" THEN Views!Paid(u) ELSE OwnUse(u)
  <2>1. CASE Role[u] = "client"
    BY <1>3, <1>27, <2>1 DEF Views!LeafOf
  <2>2. CASE Role[u] # "client"
    <3>1. node.used = OwnUse(u) /\ node.limit = DepositLimit * Views!Cardinality(Views!Owned(u))
      BY <1>3, <2>2 DEF Views!NodeOf, OwnUse
    <3> QED BY <1>0, <2>2, <3>1, ViewFacts, OwnUseTyped
  <2> QED BY <2>1, <2>2
<1>22. WalkTyped(p)'
  <2>1. \A v \in DOMAIN found : found[v].used \in Nat
    BY <1>14, <1>18, <1>21
  <2>2. walk[p].began \in Int /\ walk[p].day \in 0..viewToday'
    BY <1>6, <1>9 DEF WalkTyped
  <2> QED BY <1>1, <1>11, <1>13, <1>14, <1>17, <1>18, <2>1, <2>2 DEF WalkTyped
<1>23. walk'[p].root = old.root /\ walk'[p].day = old.day /\ walk'[p].began = old.began
  BY <1>11, <1>13
<1>24. WalkReaches(p)'
  <2>1. ASSUME NEW v \in Holder, Left(p, v)' \/ Found(p, v)'
        PROVE  v \in Reach(old.root)
    <3>1. u \in Reach(old.root)
      BY <1>1, <1>9, <1>17 DEF WalkReaches
    <3>2. CASE v \in below
      <4>1. Role[u] # "client" /\ v \in Views!Children(u)
        BY <1>4, <3>2
      <4> QED BY <1>14, <3>1, <4>1, ReachClosed
    <3>3. CASE Left(p, v) \/ Found(p, v) \/ v = u
      BY <1>1, <1>9, <3>1, <3>3 DEF WalkReaches
    <3> QED BY <1>17, <1>19, <2>1, <3>2, <3>3
  <2>2. \A v : Left(p, v) \/ Found(p, v) => Left(p, v)' \/ Found(p, v)'
    BY <1>17, <1>19
  <2>3. \A r \in Views!Roots(old.root) : Left(p, r)' \/ Found(p, r)'
    BY <1>1, <1>9, <2>2 DEF WalkReaches
  <2>4. ASSUME NEW v \in DOMAIN found, Role[v] # "client", NEW c \in Views!Children(v)
        PROVE  Left(p, c)' \/ Found(p, c)'
    <3>1. CASE v = u
      BY <1>4, <1>17, <2>4, <3>1
    <3>2. CASE v # u
      BY <1>1, <1>9, <1>18, <2>2, <2>4, <3>2 DEF WalkReaches
    <3> QED BY <3>1, <3>2
  <2> QED BY <1>18, <1>23, <2>1, <2>3, <2>4 DEF WalkReaches
<1>25. WalkAdds(p)'
  <2>1. \A v \in DOMAIN found : Role[v] # "client" => found[v].used <= found[v].limit
    BY <1>1, <1>9, <1>18, <1>21 DEF WalkAdds
  <2>2. ASSUME old.day = viewToday
        PROVE  /\ \A v \in DOMAIN found :
                    found[v].used <= (IF Role[v] = "client" THEN Views!Paid(v) ELSE OwnUse(v))
               /\ old.began <= Views!SumFunctionOnSet(Share(p)', Holder)
    <3>1. \A v \in DOMAIN old.nodes :
            old.nodes[v].used <= (IF Role[v] = "client" THEN Views!Paid(v) ELSE OwnUse(v))
      BY <1>1, <1>9, <2>2 DEF WalkAdds
    <3>2. node.used <= (IF Role[u] = "client" THEN Views!Paid(u) ELSE OwnUse(u))
      BY <1>21
    <3>3. \A v \in DOMAIN found :
            found[v].used <= (IF Role[v] = "client" THEN Views!Paid(v) ELSE OwnUse(v))
      BY <1>18, <3>1, <3>2
    <3> DEFINE f == Share(p)
               g == Share(p)'
    <3>4. /\ \A v \in Holder : f[v] = IF Role[v] = "client" THEN 0
                                      ELSE IF v \in DOMAIN old.nodes THEN old.nodes[v].used
                                      ELSE IF v \in Reach(old.root) THEN OwnUse(v) ELSE 0
          /\ \A v \in Holder : g[v] = IF Role[v] = "client" THEN 0
                                      ELSE IF v \in DOMAIN found THEN found[v].used
                                      ELSE IF v \in Reach(old.root) THEN OwnUse(v) ELSE 0
      BY <1>1, <1>18, <1>20, <1>23 DEF Share
    <3> HIDE DEF f, g
    <3>5. Role[u] # "client" => OwnUse(u) <= node.used
      BY <1>20, <1>21
    <3>6. Role[u] # "client" /\ u \in DOMAIN old.nodes => old.nodes[u].used <= node.used
      BY <1>20, <1>21, <3>1
    <3>7. ASSUME NEW v \in Holder
          PROVE  f[v] \in Int /\ g[v] \in Int /\ f[v] <= g[v]
      <4>1. CASE v = u
        BY <1>18, <1>20, <1>21, <1>14, <3>4, <3>5, <3>6, <4>1
      <4>2. CASE v # u
        <5>1. f[v] = g[v]
          BY <1>18, <3>4, <4>2
        <5>2. f[v] \in Nat
          BY <1>14, <1>20, <3>4
        <5> QED BY <5>1, <5>2
      <4> QED BY <4>1, <4>2
    <3>8. IsFiniteSet(Holder)
      BY RecordsAssumption DEF RecordsAssumption
    <3>9. SumFunctionOnSet(f, Holder) <= SumFunctionOnSet(g, Holder)
      BY <3>7, <3>8, SumGrows
    <3>10. SumFunctionOnSet(f, Holder) \in Int /\ SumFunctionOnSet(g, Holder) \in Int
      BY <3>7, <3>8, SumInt
    <3>11. old.began \in Int /\ old.began <= SumFunctionOnSet(f, Holder)
      BY <1>1, <1>9, <2>2, ViewSum DEF WalkAdds, WalkTyped, f
    <3>12. old.began <= SumFunctionOnSet(g, Holder)
      BY <3>9, <3>10, <3>11
    <3> QED BY <3>3, <3>12, ViewSum DEF g
  <2> QED BY <1>6, <1>18, <1>20, <1>23, <1>27, <2>1, <2>2 DEF WalkAdds
<1>26. DOMAIN w.nodes \subseteq Holder
  BY <1>11, <1>14, <1>17, <1>18
<1> QED BY <1>6, <1>12, <1>22, <1>24, <1>25, <1>26, WalkStep

\* At first nothing is offered, filed or read.
LEMMA ViewsStart ==
  ASSUME Views!ViewsInit
  PROVE  ViewsInv
<1>1. /\ viewActive = BankAccount /\ viewUsed = [x \in BankAccount |-> 0]
      /\ viewFiled = <<>> /\ viewRows = <<>>
      /\ offer = [c \in Views!Clients |-> <<>>] /\ walk = [p \in Viewer |-> Views!Unread]
      /\ viewToday = 0 /\ viewFaults = 0
  BY DEF Views!ViewsInit
<1>2. 0 \in 0..DepositLimit /\ 0 \in 0..LastDepositDay /\ 0 \in 0..MaxDepositFaults
  BY RecordsAssumption DEF RecordsAssumption
<1>3. \A p \in Viewer : walk[p] = Views!Unread /\ DOMAIN walk[p].nodes = {}
  BY <1>1 DEF Views!Unread
<1>4. DOMAIN viewFiled = {} /\ DOMAIN viewRows = {} /\ viewFiled \in Seq(ViewRequest)
  BY <1>1
<1>5. Views!ViewsTypeOK
  BY <1>1, <1>2, <1>3, <1>4 DEF Views!ViewsTypeOK
<1>6. DOMAIN offer = Views!Clients /\ \A c \in Views!Clients : DOMAIN offer[c] = {}
  BY <1>1
<1>7. ViewTyped
  BY <1>1, <1>4, <1>5, <1>6 DEF ViewTyped
<1>8. ViewFiledInv
  BY <1>4 DEF ViewFiledInv
<1>9. WalkInv
  BY <1>3 DEF WalkInv
<1>10. PaidInv
  <2>1. \A x : PaidTo(x) = {}
    BY <1>4 DEF PaidTo, Views!PaidToday
  <2>2. \A x \in BankAccount : SumFunctionOnSet(Views!Amounts, PaidTo(x)) = 0
    BY <2>1, SumEmpty
  <2> QED BY <1>1, <2>2 DEF PaidInv
<1> QED BY <1>7, <1>8, <1>9, <1>10 DEF ViewsInv

\* Every step keeps what holds of offers, requests and trees.
LEMMA ViewsStep ==
  ASSUME ViewsInv, [Views!ViewsNext]_(Views!viewVars)
  PROVE  ViewsInv'
<1>1. CASE UNCHANGED Views!viewVars
  <2>1. UNCHANGED <<viewActive, viewUsed, viewFiled, viewRows, offer, walk, viewToday, viewFaults>>
    BY <1>1 DEF Views!viewVars
  <2>2. ViewTyped /\ ViewFiledInv /\ PaidInv /\ WalkInv
    BY DEF ViewsInv
  <2>3. ViewTyped'
    BY <2>1, <2>2 DEF ViewTyped, Views!ViewsTypeOK
  <2>4. ViewFiledInv'
    BY <2>1, <2>2 DEF ViewFiledInv
  <2>5. WalkInv'
    <3>1. \A y \in BankAccount : viewUsed[y] <= viewUsed'[y]
      BY <2>1, <2>2, ViewFacts
    <3> QED BY <2>1, <2>2, <2>3, <3>1, WalksStay DEF Views!PaidToday
  <2>6. PaidInv'
    BY <2>1, <2>2, PaidToStays
  <2> QED BY <2>3, <2>4, <2>5, <2>6 DEF ViewsInv
<1>2. ASSUME NEW c \in Views!Clients, NEW amount \in DepositAmount, Views!AvailableAccounts(c, amount)
      PROVE  ViewsInv'
  BY <1>2, AvailableAccountsKeeps
<1>3. ASSUME NEW c \in Views!Clients, NEW x \in BankAccount, NEW wrote \in BOOLEAN,
             NEW dated \in BOOLEAN, Views!DepositRequest(c, x, wrote, dated)
      PROVE  ViewsInv'
  BY <1>3, DepositRequestKeeps
<1>4. ASSUME NEW s \in 1..MaxFiled, NEW wrote \in BOOLEAN,
             Views!Decide(s, "confirmed", wrote) \/ Views!Decide(s, "rejected", wrote)
      PROVE  ViewsInv'
  BY <1>4, DecideKeeps
<1>5. ASSUME NEW x \in BankAccount, Views!DeleteBankAccount(x)
      PROVE  ViewsInv'
  BY <1>5, DeleteAccountKeeps
<1>6. CASE Views!NextDay
  BY <1>6, NextViewDayKeeps
<1>7. ASSUME NEW p \in Viewer, Views!BuildTree(p)
      PROVE  ViewsInv'
  BY <1>7, BuildTreeKeeps
<1>8. ASSUME NEW p \in Viewer, Views!TreeSent(p)
      PROVE  ViewsInv'
  BY <1>8, TreeSentKeeps
<1>9. ASSUME NEW p \in Viewer, NEW u \in Holder, Views!BeginTree(p, u)
      PROVE  ViewsInv'
  BY <1>9, BeginTreeKeeps
<1> QED BY <1>1, <1>2, <1>3, <1>4, <1>5, <1>6, <1>7, <1>8, <1>9 DEF Views!ViewsNext

\* A pending request whose account received no more than it had then still fits.
LEMMA OffersPromise ==
  ASSUME ViewsInv
  PROVE  Views!OfferCanBeConfirmed
<1>0. ViewTyped /\ ViewFiledInv
  BY DEF ViewsInv
<1> SUFFICES ASSUME NEW s \in DOMAIN viewFiled,
                    viewUsed[viewFiled[s].account] <= viewFiled[s].before
             PROVE  Views!Fits(viewFiled[s])
  BY DEF Views!OfferCanBeConfirmed
<1>1. /\ viewFiled[s].account \in BankAccount /\ viewFiled[s].amount \in Nat
      /\ viewFiled[s].before \in Nat
  BY <1>0, FiledFacts DEF ViewRequest
<1>2. PICK n, a, b : n = viewUsed[viewFiled[s].account] /\ a = viewFiled[s].amount /\ b = viewFiled[s].before
  OBVIOUS
<1>3. n \in Nat /\ a \in Nat /\ b \in Nat /\ DepositLimit \in Nat
  BY <1>0, <1>1, <1>2, ViewFacts
<1>4. n <= b /\ b + a <= DepositLimit
  BY <1>0, <1>2 DEF ViewFiledInv
<1>5. n + a <= DepositLimit
  BY <1>3, <1>4
<1> QED BY <1>2, <1>5 DEF Views!Fits

\* Rows whose statements all were executed have the status the request has.
LEMMA ListsPromise ==
  ASSUME ViewsInv
  PROVE  Views!ListsAgree
<1>0. ViewTyped /\ ViewFiledInv
  BY DEF ViewsInv
<1>1. DOMAIN viewRows \subseteq DOMAIN viewFiled
  BY <1>0 DEF ViewTyped, Views!ViewsTypeOK
<1> SUFFICES ASSUME NEW u \in Holder, NEW filter \in Views!Filters,
                    NEW sure, sure = {s \in DOMAIN viewFiled : viewFiled[s].sure}
             PROVE  \A s \in sure :
                      /\ s \in Views!Shown(Views!InMemory(u, filter), Views!FromRows(u, filter))
                           <=> s \in Views!InMemory(u, filter)
                      /\ s \in Views!FromRows(u, filter) <=> s \in Views!InMemory(u, filter)
  BY DEF Views!ListsAgree
<1>2. Role[u] \in {"superadmin", "admin", "master", "agent", "client"}
  BY RecordsAssumption DEF RecordsAssumption
<1>3. ASSUME NEW s \in sure
      PROVE  s \in DOMAIN viewRows /\ s \in DOMAIN viewFiled /\ viewRows[s] = viewFiled[s].status
  BY <1>0, <1>3 DEF ViewFiledInv
<1>4. PICK named : named = {s \in DOMAIN viewRows : u \in {viewFiled[s].master, viewFiled[s].agent}}
  OBVIOUS
<1>5. PICK asked : asked = {s \in DOMAIN viewRows : viewFiled[s].agent = u}
  OBVIOUS
<1>6. PICK own : own = {s \in DOMAIN viewRows : viewFiled[s].player = u}
  OBVIOUS
<1>7. PICK mine : mine = [superadmin |-> DOMAIN viewRows, admin |-> named, master |-> named,
                          agent |-> asked, client |-> own]
  OBVIOUS
<1>8. Views!FromRows(u, filter) = {s \in mine[Role[u]] : Views!Passes(viewRows[s], filter)}
  BY <1>4, <1>5, <1>6, <1>7 DEF Views!FromRows
<1>9. /\ mine["superadmin"] = DOMAIN viewRows /\ mine["admin"] = named /\ mine["master"] = named
      /\ mine["agent"] = asked /\ mine["client"] = own
  BY <1>7
<1>10. ASSUME NEW s \in sure
       PROVE  s \in Views!FromRows(u, filter) <=> s \in Views!InMemory(u, filter)
  <2>1. /\ s \in DOMAIN viewRows /\ s \in DOMAIN viewFiled /\ viewRows[s] = viewFiled[s].status
        /\ Views!Passes(viewRows[s], filter) <=> Views!Passes(viewFiled[s].status, filter)
    BY <1>3, <1>10
  <2>2. s \in Views!FromRows(u, filter) <=> s \in mine[Role[u]] /\ Views!Passes(viewFiled[s].status, filter)
    BY <1>8, <2>1, Zenon
  <2>3. CASE Role[u] = "superadmin"
    BY <1>9, <2>1, <2>2, <2>3 DEF Views!InMemory
  <2>4. CASE Role[u] \in {"admin", "master"}
    <3>1. s \in mine[Role[u]] <=> u \in {viewFiled[s].master, viewFiled[s].agent}
      BY <1>4, <1>9, <2>1, <2>4
    <3> QED BY <2>1, <2>2, <2>4, <3>1 DEF Views!InMemory
  <2>5. CASE Role[u] = "agent"
    BY <1>5, <1>9, <2>1, <2>2, <2>5 DEF Views!InMemory
  <2>6. CASE Role[u] = "client"
    BY <1>6, <1>9, <2>1, <2>2, <2>6 DEF Views!InMemory
  <2> QED BY <1>2, <2>3, <2>4, <2>5, <2>6
<1>11. ASSUME NEW s \in sure
       PROVE  s \in Views!Shown(Views!InMemory(u, filter), Views!FromRows(u, filter))
                <=> s \in Views!InMemory(u, filter)
  BY <1>10 DEF Views!Shown
<1> QED BY <1>10, <1>11

\* A tree that was read on one day has no less than was received when it was begun and no
\* more than has been now.
LEMMA TreePromise ==
  ASSUME ViewsInv
  PROVE  Views!TreeAddsUp
<1>0. ViewTyped /\ PaidInv /\ WalkInv
  BY DEF ViewsInv
<1> SUFFICES ASSUME NEW p \in Viewer, walk[p] # Views!Unread,
                    NEW shown, shown = [u \in DOMAIN walk[p].nodes |-> walk[p].nodes[u].used],
                    NEW sum, sum = Views!SumFunctionOnSet(shown, DOMAIN walk[p].nodes \ Views!Clients)
             PROVE  /\ \A u \in DOMAIN walk[p].nodes \ Views!Clients :
                         walk[p].nodes[u].used <= walk[p].nodes[u].limit
                    /\ walk[p].day = viewToday =>
                         /\ sum <= Views!TreeUsed(walk[p].root)
                         /\ (walk[p].todo = <<>> => walk[p].began <= sum)
                         /\ Views!SumFunctionOnSet(shown, DOMAIN walk[p].nodes \cap Views!Clients)
                              <= Views!UsedOf(BankAccount)
  BY DEF Views!TreeAddsUp
<1>1. WalkTyped(p) /\ WalkReaches(p) /\ WalkAdds(p)
  BY <1>0 DEF WalkInv
<1>2. PICK r : r = walk[p].root
  OBVIOUS
<1>3. PICK nodes : nodes = walk[p].nodes
  OBVIOUS
<1>4. /\ r \in Holder /\ DOMAIN nodes \subseteq Holder /\ walk[p].began \in Int
      /\ \A v \in DOMAIN nodes : nodes[v].used \in Nat
  BY <1>1, <1>2, <1>3 DEF WalkTyped
<1>5. sum = SumFunctionOnSet(Said(p), Holder)
  BY <1>3, <1>4, SaidIs
<1>6. \A v : OwnUse(v) \in Nat
  BY <1>0, ViewFacts, OwnUseTyped
<1>7. IsFiniteSet(Holder)
  BY RecordsAssumption DEF RecordsAssumption
<1>8. ASSUME walk[p].day = viewToday
      PROVE  sum <= Views!TreeUsed(r)
  <2>1. Views!TreeUsed(r) = SumFunctionOnSet(Full(r), Holder)
    BY <1>0, <1>4, ViewFacts, TreeIs
  <2>2. ASSUME NEW v \in Holder
        PROVE  Said(p)[v] \in Int /\ Full(r)[v] \in Int /\ Said(p)[v] <= Full(r)[v]
    <3>1. Said(p)[v] = IF v \in DOMAIN nodes /\ Role[v] # "client" THEN nodes[v].used ELSE 0
      BY <1>3 DEF Said, Views!Clients
    <3>2. Full(r)[v] = IF v \in Reach(r) THEN OwnUse(v) ELSE 0
      BY DEF Full
    <3>3. v \in DOMAIN nodes /\ Role[v] # "client" => nodes[v].used <= OwnUse(v)
      BY <1>1, <1>3, <1>8 DEF WalkAdds
    <3>4. v \in DOMAIN nodes => v \in Reach(r)
      BY <1>1, <1>2, <1>3 DEF WalkReaches, Found
    <3> QED BY <1>4, <1>6, <3>1, <3>2, <3>3, <3>4
  <2>3. SumFunctionOnSet(Said(p), Holder) <= SumFunctionOnSet(Full(r), Holder)
    BY <1>7, <2>2, SumGrows
  <2> QED BY <1>5, <2>1, <2>3
<1>9. ASSUME walk[p].day = viewToday, walk[p].todo = <<>>
      PROVE  walk[p].began <= sum
  <2>1. \A v : ~Left(p, v)
    BY <1>9 DEF Left
  <2>2. Views!Roots(r) \subseteq DOMAIN nodes
    BY <1>1, <1>2, <1>3, <2>1 DEF WalkReaches, Found
  <2>3. Reach(r) \subseteq DOMAIN nodes
    <3>1. \A v \in DOMAIN nodes : Role[v] # "client" => Views!Children(v) \subseteq DOMAIN nodes
      BY <1>1, <1>3, <2>1 DEF WalkReaches, Found
    <3> QED BY <1>4, <2>2, <3>1, ReachLeast
  <2>4. \A v \in Holder : Share(p)[v] = Said(p)[v]
    BY <1>2, <1>3, <2>3 DEF Share, Said, Views!Clients
  <2>5. SumFunctionOnSet(Share(p), Holder) = SumFunctionOnSet(Said(p), Holder)
    BY <1>7, <2>4, SumSame
  <2>6. walk[p].began <= SumFunctionOnSet(Share(p), Holder)
    BY <1>1, <1>9, ViewSum DEF WalkAdds
  <2> QED BY <1>5, <2>5, <2>6
<1>10. ASSUME walk[p].day = viewToday
       PROVE  Views!SumFunctionOnSet(shown, DOMAIN walk[p].nodes \cap Views!Clients)
                <= Views!UsedOf(BankAccount)
  <2> DEFINE N == DOMAIN nodes \cap Views!Clients
             g == [c \in Views!Clients |-> Views!Paid(c)]
             rest == Views!Clients \ N
  <2>1. /\ IsFiniteSet(Views!Clients) /\ IsFiniteSet(N) /\ IsFiniteSet(rest)
        /\ N \subseteq Views!Clients
    BY <1>7, FS_Subset DEF Views!Clients
  <2>2. \A c \in Views!Clients : g[c] \in Nat
    BY <1>0, PaidTyped DEF PaidByTyped, ViewTyped
  <2>3. \A c \in N : shown[c] \in Int /\ g[c] \in Int /\ shown[c] <= g[c]
    <3> SUFFICES ASSUME NEW c \in N PROVE shown[c] \in Int /\ g[c] \in Int /\ shown[c] <= g[c]
      OBVIOUS
    <3>1. shown[c] = nodes[c].used /\ nodes[c].used \in Nat /\ Role[c] = "client"
      BY <1>3, <1>4 DEF Views!Clients
    <3>2. nodes[c].used <= Views!Paid(c)
      BY <1>1, <1>3, <1>10, <3>1 DEF WalkAdds
    <3> QED BY <2>2, <3>1, <3>2
  <2>4. SumFunctionOnSet(g, Views!Clients) <= Views!UsedOf(BankAccount)
    BY <1>0, ViewFacts, PaidWithinReceived DEF ViewTyped
  <2>5. Views!UsedOf(BankAccount) \in Int
    <3>1. IsFiniteSet(BankAccount) /\ \A x \in BankAccount : viewUsed[x] \in Int
      BY <1>0, ViewFacts, RecordsAssumption DEF RecordsAssumption
    <3> QED BY <3>1, SumInt, ViewSum DEF Views!UsedOf
  <2> HIDE DEF N, g, rest
  <2>6. SumFunctionOnSet(shown, N) <= SumFunctionOnSet(g, N)
    BY <2>1, <2>3, SumGrows
  <2>7. SumFunctionOnSet(g, Views!Clients) = SumFunctionOnSet(g, N) + SumFunctionOnSet(g, rest)
    BY <2>1, <2>2, SumDisjoint DEF rest
  <2>8. /\ SumFunctionOnSet(g, N) \in Int /\ SumFunctionOnSet(g, rest) \in Nat
        /\ SumFunctionOnSet(shown, N) \in Int
    <3>1. \A c \in rest : g[c] \in Nat
      BY <2>2 DEF rest
    <3> QED BY <2>1, <2>3, <3>1, SumInt, SumNat
  <2>9. SumFunctionOnSet(shown, N) <= Views!UsedOf(BankAccount)
    BY <2>4, <2>5, <2>6, <2>7, <2>8
  <2> QED BY <1>3, <2>9, ViewSum DEF N
<1>11. \A u \in DOMAIN walk[p].nodes \ Views!Clients :
         walk[p].nodes[u].used <= walk[p].nodes[u].limit
  BY <1>1, <1>4, <1>3 DEF WalkAdds, Views!Clients
<1> QED BY <1>2, <1>8, <1>9, <1>10, <1>11

\* What is offered, listed and summed up of deposits holds in every behaviour (deposit.go).
THEOREM ViewsKept ==
  Views!ViewsSpec =>
    [](Views!ViewsTypeOK /\ Views!OfferCanBeConfirmed /\ Views!ListsAgree /\ Views!TreeAddsUp)
<1>1. ViewsInv =>
        Views!ViewsTypeOK /\ Views!OfferCanBeConfirmed /\ Views!ListsAgree /\ Views!TreeAddsUp
  BY OffersPromise, ListsPromise, TreePromise DEF ViewsInv, ViewTyped
<1>2. Views!ViewsInit => ViewsInv
  BY ViewsStart
<1>3. ViewsInv /\ [Views!ViewsNext]_(Views!viewVars) => ViewsInv'
  BY ViewsStep
<1> QED BY <1>1, <1>2, <1>3, PTL DEF Views!ViewsSpec

-----------------------------------------------------------------------------
\* BetRecords: bets, their users and their rows

LedgerType ==
  {"hold", "release", "settlement", "commission", "void", "cashout-release", "cashout"}
Closings == {"settlement", "void", "cashout"}

\* The statements of the sections, each about a bet in memory.
SlipStatement ==
  [do : {"insert", "update", "balance"}, bet : DOMAIN slipSlips]
    \cup [do : {"ledger"}, bet : DOMAIN slipSlips, type : LedgerType]

IsClosing(s) == s.do = "ledger" /\ s.type \in Closings

\* A section's statements are about one bet, none twice; at most one closes it in the ledger,
\* before the bet's row is changed; and a new row is all a section writes.
TodoInv ==
  /\ slipTodo \in Seq(SlipStatement)
  /\ \A j, k \in DOMAIN slipTodo :
       /\ slipTodo[j].bet = slipTodo[k].bet
       /\ slipTodo[j] = slipTodo[k] => j = k
       /\ IsClosing(slipTodo[j]) /\ IsClosing(slipTodo[k]) => j = k
       /\ slipTodo[j].do = "update" /\ IsClosing(slipTodo[k]) => k < j
       /\ slipTodo[j].do = "insert" => j = k

Pending(s) == \E k \in DOMAIN slipTodo : slipTodo[k] = s
Placing(id) == \E p \in Placer : placing[p] = id

\* Values of every variable, what goroutines have read included.
SlipTyped ==
  /\ Slips!BetRecordsTypeOK
  /\ placed \in 0..MaxRecordedBets
  /\ DOMAIN slipSlips \subseteq 1..placed /\ DOMAIN slipRows \subseteq 1..placed
  /\ slipPosted \subseteq [type : LedgerType, bet : 1..placed]
  /\ DOMAIN slipReading = RowReader
  /\ \A r \in RowReader :
       slipReading[r] # Slips!NotReading => slipReading[r] \in [user : Bettor, row : Slips!Funds]
  /\ \A id \in DOMAIN slipSlips \cap DOMAIN slipRows : slipRows[id].user = slipSlips[id].user

\* One request holds for a bet; its row is new while it is placed, and is changed when it ends.
PlacingInv ==
  /\ placing \in [Placer -> {Slips!None} \cup DOMAIN slipSlips]
  /\ \A p, q \in Placer : placing[p] = placing[q] /\ placing[p] # Slips!None => p = q
  /\ \A id \in DOMAIN slipSlips :
       /\ Pending(Slips!SaveBet(id)) => Placing(id) /\ slipSlips[id].status = "matched"
       /\ Pending(Slips!UpdateBet(id)) =>
            /\ slipSlips[id].status # "matched"
            /\ slipSlips[id].user \notin drifted => ~Placing(id)

\* The ledger has a closing of bet id, or its holder is about to post it.
Ended(type, id) ==
  [type |-> type, bet |-> id] \in slipPosted \/ Pending(Slips!AddLedger(type, id))

ClosingInv ==
  \A id \in Slips!Id :
    /\ \A t1, t2 \in Closings : Ended(t1, id) /\ Ended(t2, id) => t1 = t2
    /\ \A t \in Closings :
         Ended(t, id) => id <= placed /\ (id \in DOMAIN slipSlips => slipSlips[id].status # "matched")
    /\ id \in DOMAIN slipSlips \ unsaved =>
         /\ slipSlips[id].status = "settled" => Ended("settlement", id)
         /\ slipSlips[id].status = "void" => Ended("void", id)

\* A bet's row is as the bet, but for the statement the holder has still to run.
RowAsKept(id) ==
  IF Pending(Slips!SaveBet(id)) THEN id \notin DOMAIN slipRows
  ELSE /\ id \in DOMAIN slipRows
       /\ slipRows[id] = IF Pending(Slips!UpdateBet(id))
                         THEN [slipSlips[id] EXCEPT !.status = "matched"] ELSE slipSlips[id]

KeptInv ==
  \A id \in DOMAIN slipSlips :
    id \notin unsaved \/ slipSlips[id].user \notin drifted => RowAsKept(id)

\* The bets that hold money of u, as rows say, and what they hold.
HeldBets(u) ==
  {id \in DOMAIN slipRows :
     slipRows[id].user = u /\ slipRows[id].status = "matched" /\ ~Placing(id)}
Held(u) == Slips!SumFunctionOnSet(Slips!RowHolds, HeldBets(u))

\* What is on hold in memory is what rows hold, less what ends; a user's row is as memory
\* unless it is about to be written, and then as the rows of bets still are.
HeldInv ==
  \A u \in Bettor \ drifted :
    /\ account[u].exposure = accountRow[u].exposure
         \/ \E id \in DOMAIN slipSlips : Pending(Slips!UpdateBalance(id)) /\ slipSlips[id].user = u
    /\ account[u].exposure = Held(u)
         \/ \E id \in DOMAIN slipSlips : Pending(Slips!UpdateBet(id)) /\ slipSlips[id].user = u
    /\ \A id \in DOMAIN slipSlips :
         Pending(Slips!UpdateBet(id)) /\ slipSlips[id].user = u =>
           /\ account[u].exposure = Held(u) - Slips!HoldAmount(slipSlips[id])
           /\ Pending(Slips!UpdateBalance(id)) => accountRow[u].exposure = Held(u)

SlipsInv ==
  /\ SlipTyped /\ TodoInv /\ PlacingInv /\ ClosingInv /\ Slips!ClosedIsPosted /\ KeptInv /\ HeldInv

LEMMA NothingPending ==
  ASSUME slipTodo = <<>>
  PROVE  \A s : ~Pending(s)
BY DEF Pending

\* The statements of bet id that a section runs.
LEMMA StatementsTyped ==
  ASSUME NEW id \in DOMAIN slipSlips
  PROVE  /\ Slips!SaveBet(id) \in SlipStatement /\ Slips!UpdateBet(id) \in SlipStatement
         /\ Slips!UpdateBalance(id) \in SlipStatement
         /\ \A t \in LedgerType : Slips!AddLedger(t, id) \in SlipStatement
BY DEF SlipStatement, Slips!SaveBet, Slips!UpdateBet, Slips!UpdateBalance, Slips!AddLedger

LEMMA StatementsDiffer ==
  /\ \A id : /\ Slips!SaveBet(id).do = "insert" /\ Slips!SaveBet(id).bet = id
             /\ Slips!UpdateBet(id).do = "update" /\ Slips!UpdateBet(id).bet = id
             /\ Slips!UpdateBalance(id).do = "balance" /\ Slips!UpdateBalance(id).bet = id
  /\ \A t, id : /\ Slips!AddLedger(t, id).do = "ledger" /\ Slips!AddLedger(t, id).bet = id
                /\ Slips!AddLedger(t, id).type = t
BY DEF Slips!SaveBet, Slips!UpdateBet, Slips!UpdateBalance, Slips!AddLedger

\* What a statement is about says which it is.
LEMMA StatementIs ==
  ASSUME NEW s \in SlipStatement
  PROVE  /\ s.bet \in DOMAIN slipSlips /\ s.do \in {"insert", "update", "balance", "ledger"}
         /\ s.do = "insert" => s = Slips!SaveBet(s.bet)
         /\ s.do = "update" => s = Slips!UpdateBet(s.bet)
         /\ s.do = "balance" => s = Slips!UpdateBalance(s.bet)
         /\ s.do = "ledger" => s = Slips!AddLedger(s.type, s.bet) /\ s.type \in LedgerType
BY DEF SlipStatement, Slips!SaveBet, Slips!UpdateBet, Slips!UpdateBalance, Slips!AddLedger

\* The first statement is run, or fails: the others are what is left.
LEMMA TodoShrinks ==
  ASSUME TodoInv, slipTodo # <<>>, slipTodo' = Tail(slipTodo), slipSlips' = slipSlips
  PROVE  /\ TodoInv' /\ Head(slipTodo) \in SlipStatement /\ Pending(Head(slipTodo))
         /\ \A s : Pending(s)' <=> Pending(s) /\ s # Head(slipTodo)
         /\ \A s : Pending(s) => s \in SlipStatement /\ s.bet = Head(slipTodo).bet
         /\ Head(slipTodo).do = "update" => \A s : Pending(s) => ~IsClosing(s)
         /\ IsClosing(Head(slipTodo)) => \A s : Pending(s)' => ~IsClosing(s)
         /\ Head(slipTodo).do = "insert" => \A s : ~Pending(s)'
<1>1. /\ slipTodo \in Seq(SlipStatement) /\ Len(slipTodo) \in Nat /\ Len(slipTodo) >= 1
      /\ DOMAIN slipTodo = 1..Len(slipTodo)
      /\ Head(slipTodo) = slipTodo[1] /\ 1 \in DOMAIN slipTodo
  BY DEF TodoInv
<1>2. /\ slipTodo' \in Seq(SlipStatement) /\ DOMAIN slipTodo' = 1..(Len(slipTodo) - 1)
      /\ \A k \in DOMAIN slipTodo' : k + 1 \in DOMAIN slipTodo /\ slipTodo'[k] = slipTodo[k + 1]
  BY <1>1
<1>3. SlipStatement' = SlipStatement
  BY DEF SlipStatement
<1>4. \A j, k \in DOMAIN slipTodo :
       /\ slipTodo[j].bet = slipTodo[k].bet
       /\ slipTodo[j] = slipTodo[k] => j = k
       /\ IsClosing(slipTodo[j]) /\ IsClosing(slipTodo[k]) => j = k
       /\ slipTodo[j].do = "update" /\ IsClosing(slipTodo[k]) => k < j
       /\ slipTodo[j].do = "insert" => j = k
  BY DEF TodoInv
<1>5. TodoInv'
  <2>1. ASSUME NEW j \in DOMAIN slipTodo', NEW k \in DOMAIN slipTodo'
        PROVE  /\ slipTodo'[j].bet = slipTodo'[k].bet
               /\ slipTodo'[j] = slipTodo'[k] => j = k
               /\ IsClosing(slipTodo'[j]) /\ IsClosing(slipTodo'[k]) => j = k
               /\ slipTodo'[j].do = "update" /\ IsClosing(slipTodo'[k]) => k < j
               /\ slipTodo'[j].do = "insert" => j = k
    <3>1. /\ j \in Nat /\ k \in Nat /\ j + 1 \in DOMAIN slipTodo /\ k + 1 \in DOMAIN slipTodo
          /\ slipTodo'[j] = slipTodo[j + 1] /\ slipTodo'[k] = slipTodo[k + 1]
      BY <1>1, <1>2
    <3>2. (j + 1 = k + 1 => j = k) /\ (k + 1 < j + 1 => k < j)
      BY <3>1
    <3> HIDE DEF IsClosing
    <3> QED BY <1>4, <3>1, <3>2
  <2> QED BY <1>2, <1>3, <2>1 DEF TodoInv, IsClosing
<1>6. Head(slipTodo) \in SlipStatement /\ Pending(Head(slipTodo))
  BY <1>1 DEF Pending
<1>7. ASSUME NEW s
      PROVE  Pending(s)' <=> Pending(s) /\ s # Head(slipTodo)
  <2>1. ASSUME NEW k \in DOMAIN slipTodo', slipTodo'[k] = s
        PROVE  Pending(s) /\ s # Head(slipTodo)
    <3>1. k \in Nat /\ k >= 1 /\ k + 1 \in DOMAIN slipTodo /\ s = slipTodo[k + 1]
      BY <1>1, <1>2, <2>1
    <3>2. k + 1 # 1
      BY <3>1
    <3>3. slipTodo[k + 1] # slipTodo[1]
      BY <1>1, <1>4, <3>1, <3>2
    <3> QED BY <1>1, <3>1, <3>3 DEF Pending
  <2>2. ASSUME NEW k \in DOMAIN slipTodo, slipTodo[k] = s, s # Head(slipTodo)
        PROVE  Pending(s)'
    <3>1. k # 1 /\ k \in 1..Len(slipTodo)
      BY <1>1, <2>2
    <3>2. k - 1 \in DOMAIN slipTodo' /\ (k - 1) + 1 = k
      BY <1>1, <1>2, <3>1
    <3>3. slipTodo'[k - 1] = slipTodo[(k - 1) + 1]
      BY <1>2, <3>2
    <3>4. slipTodo'[k - 1] = s
      BY <2>2, <3>2, <3>3
    <3> QED BY <3>2, <3>4 DEF Pending
  <2> QED BY <2>1, <2>2 DEF Pending
<1>8. \A s : Pending(s) => s \in SlipStatement /\ s.bet = Head(slipTodo).bet
  BY <1>1, <1>4 DEF Pending
<1>9. ASSUME Head(slipTodo).do = "update", NEW s, Pending(s)
      PROVE  ~IsClosing(s)
  <2>1. PICK k \in DOMAIN slipTodo : slipTodo[k] = s
    BY <1>9 DEF Pending
  <2>2. ~(k < 1)
    BY <1>1, <2>1
  <2> QED BY <1>1, <1>4, <1>9, <2>1, <2>2
<1>10. ASSUME IsClosing(Head(slipTodo)), NEW s, Pending(s)'
       PROVE  ~IsClosing(s)
  <2>1. PICK k \in DOMAIN slipTodo : slipTodo[k] = s
    BY <1>7, <1>10 DEF Pending
  <2>2. s # Head(slipTodo)
    BY <1>7, <1>10
  <2> QED BY <1>1, <1>4, <1>10, <2>1, <2>2
<1>11. ASSUME Head(slipTodo).do = "insert", NEW s
       PROVE  ~Pending(s)'
  <2>1. ASSUME Pending(s) PROVE s = Head(slipTodo)
    BY <1>1, <1>4, <1>11, <2>1 DEF Pending
  <2> QED BY <1>7, <2>1
<1> QED BY <1>5, <1>6, <1>7, <1>8, <1>9, <1>10, <1>11

\* The statements sections start with.
LEMMA NewRow ==
  ASSUME NEW id, id \in DOMAIN slipSlips', slipTodo' = <<Slips!SaveBet(id)>>
  PROVE  TodoInv' /\ \A s : Pending(s)' <=> s = Slips!SaveBet(id)
<1>1. Slips!SaveBet(id) \in SlipStatement'
  BY DEF SlipStatement, Slips!SaveBet
<1>2. slipTodo' \in Seq(SlipStatement') /\ DOMAIN slipTodo' = {1} /\ slipTodo'[1] = Slips!SaveBet(id)
  BY <1>1
<1>3. \A j, k \in DOMAIN slipTodo' : j = k
  BY <1>2
<1>4. ~IsClosing(Slips!SaveBet(id))
  BY StatementsDiffer DEF IsClosing
<1> QED BY <1>2, <1>3, <1>4 DEF TodoInv, Pending, IsClosing

LEMMA NewHold ==
  ASSUME NEW id, id \in DOMAIN slipSlips', NEW s1, NEW s2, slipTodo' = <<s1, s2>>,
         s1 = Slips!AddLedger("hold", id), s2 = Slips!UpdateBalance(id)
  PROVE  TodoInv' /\ \A s : Pending(s)' <=> s = s1 \/ s = s2
<1>1. s1 \in SlipStatement' /\ s2 \in SlipStatement'
  BY DEF SlipStatement, LedgerType, Slips!AddLedger, Slips!UpdateBalance
<1>2. /\ slipTodo' \in Seq(SlipStatement') /\ DOMAIN slipTodo' = {1, 2}
      /\ slipTodo'[1] = s1 /\ slipTodo'[2] = s2
  BY <1>1
<1>3. /\ s1.do = "ledger" /\ s1.type = "hold" /\ s1.bet = id
      /\ s2.do = "balance" /\ s2.bet = id
  BY StatementsDiffer
<1>4. s1 # s2 /\ ~IsClosing(s1) /\ ~IsClosing(s2)
  BY <1>3 DEF IsClosing, Closings
<1>5. \A s : Pending(s)' <=> s = s1 \/ s = s2
  BY <1>2 DEF Pending
<1>6. \A j, k \in DOMAIN slipTodo' :
       /\ slipTodo'[j].bet = slipTodo'[k].bet
       /\ slipTodo'[j] = slipTodo'[k] => j = k
       /\ ~IsClosing(slipTodo'[j])
       /\ slipTodo'[j].do # "insert"
  BY <1>2, <1>3, <1>4
<1> QED BY <1>2, <1>5, <1>6 DEF TodoInv, IsClosing

LEMMA NewCashout ==
  ASSUME NEW id, id \in DOMAIN slipSlips', NEW s1, NEW s2, slipTodo' = <<s1, s2>>,
         s1 = Slips!AddLedger("cashout-release", id), s2 = Slips!AddLedger("cashout", id)
  PROVE  TodoInv' /\ \A s : Pending(s)' <=> s = s1 \/ s = s2
<1>1. s1 \in SlipStatement' /\ s2 \in SlipStatement'
  BY DEF SlipStatement, LedgerType, Slips!AddLedger
<1>2. /\ slipTodo' \in Seq(SlipStatement') /\ DOMAIN slipTodo' = {1, 2}
      /\ slipTodo'[1] = s1 /\ slipTodo'[2] = s2
  BY <1>1
<1>3. /\ s1.do = "ledger" /\ s1.type = "cashout-release" /\ s1.bet = id
      /\ s2.do = "ledger" /\ s2.type = "cashout" /\ s2.bet = id
  BY StatementsDiffer
<1>4. s1 # s2 /\ ~IsClosing(s1)
  BY <1>3 DEF IsClosing, Closings
<1>5. \A s : Pending(s)' <=> s = s1 \/ s = s2
  BY <1>2 DEF Pending
<1>6. \A j, k \in DOMAIN slipTodo' :
       /\ slipTodo'[j].bet = slipTodo'[k].bet
       /\ slipTodo'[j] = slipTodo'[k] => j = k
       /\ IsClosing(slipTodo'[j]) => j = 2
       /\ slipTodo'[j].do = "ledger"
  BY <1>2, <1>3, <1>4
<1> QED BY <1>2, <1>5, <1>6 DEF TodoInv, IsClosing

LEMMA NewVoid ==
  ASSUME NEW id, id \in DOMAIN slipSlips', NEW s1, NEW s2, NEW s3, slipTodo' = <<s1, s2, s3>>,
         s1 = Slips!AddLedger("void", id), s2 = Slips!UpdateBalance(id), s3 = Slips!UpdateBet(id)
  PROVE  TodoInv' /\ \A s : Pending(s)' <=> s = s1 \/ s = s2 \/ s = s3
<1>1. s1 \in SlipStatement' /\ s2 \in SlipStatement' /\ s3 \in SlipStatement'
  BY DEF SlipStatement, LedgerType, Slips!AddLedger, Slips!UpdateBalance, Slips!UpdateBet
<1>2. /\ slipTodo' \in Seq(SlipStatement') /\ DOMAIN slipTodo' = {1, 2, 3}
      /\ slipTodo'[1] = s1 /\ slipTodo'[2] = s2 /\ slipTodo'[3] = s3
  BY <1>1
<1>3. /\ s1.do = "ledger" /\ s1.bet = id
      /\ s2.do = "balance" /\ s2.bet = id
      /\ s3.do = "update" /\ s3.bet = id
  BY StatementsDiffer
<1>4. s1 # s2 /\ s1 # s3 /\ s2 # s3 /\ ~IsClosing(s2) /\ ~IsClosing(s3)
  BY <1>3 DEF IsClosing
<1>5. \A s : Pending(s)' <=> s = s1 \/ s = s2 \/ s = s3
  BY <1>2 DEF Pending
<1>6. \A j, k \in DOMAIN slipTodo' :
       /\ slipTodo'[j].bet = slipTodo'[k].bet
       /\ slipTodo'[j] = slipTodo'[k] => j = k
       /\ IsClosing(slipTodo'[j]) => j = 1
       /\ slipTodo'[j].do = "update" => j = 3
       /\ slipTodo'[j].do # "insert"
  BY <1>2, <1>3, <1>4
<1>7. 1 < 3
  OBVIOUS
<1> QED BY <1>2, <1>5, <1>6, <1>7 DEF TodoInv, IsClosing

\* A sequence with two more elements.
LEMMA ConcatTwo ==
  ASSUME NEW S, NEW a \in Seq(S), NEW x \in S, NEW y \in S
  PROVE /\ a \o <<x, y>> \in Seq(S) /\ Len(a \o <<x, y>>) = Len(a) + 2
        /\ (a \o <<x, y>>)[Len(a)+1] = x /\ (a \o <<x, y>>)[Len(a)+2] = y
        /\ \A i \in 1..Len(a) : (a \o <<x, y>>)[i] = a[i]
<1> DEFINE t == <<x, y>>
<1>1. t \in Seq(S) /\ Len(t) = 2 /\ t[1] = x /\ t[2] = y
  OBVIOUS
<1>2. Len(a) \in Nat
  OBVIOUS
<1> HIDE DEF t
<1>5. a \o t \in Seq(S) /\ Len(a \o t) = Len(a) + Len(t)
      /\ \A i \in 1..(Len(a) + Len(t)) : (a \o t)[i] = IF i <= Len(a) THEN a[i] ELSE t[i - Len(a)]
  BY <1>1, ConcatProperties, Zenon
<1>3. a \o t \in Seq(S) /\ Len(a \o t) = Len(a) + 2
      /\ \A i \in 1..(Len(a) + 2) : (a \o t)[i] = IF i <= Len(a) THEN a[i] ELSE t[i - Len(a)]
  BY <1>1, <1>5
<1>4. /\ (a \o t)[Len(a)+1] = x /\ (a \o t)[Len(a)+2] = y
      /\ \A i \in 1..Len(a) : (a \o t)[i] = a[i]
  BY <1>1, <1>2, <1>3
<1> QED BY <1>3, <1>4 DEF t

\* Sequences with the same elements are the same.
LEMMA SameElements ==
  ASSUME NEW S, NEW a \in Seq(S), NEW b \in Seq(S), Len(a) = Len(b),
         \A i \in 1..Len(a) : a[i] = b[i]
  PROVE  a = b
<1>1. DOMAIN a = 1..Len(a) /\ DOMAIN b = 1..Len(a)
  OBVIOUS
<1>2. a = [i \in 1..Len(a) |-> a[i]] /\ b = [i \in 1..Len(a) |-> b[i]]
  BY <1>1
<1>3. [i \in 1..Len(a) |-> a[i]] = [i \in 1..Len(a) |-> b[i]]
  OBVIOUS
<1> QED BY <1>2, <1>3

\* The statements of a settlement, with a commission and without.
LEMMA FiveStatements ==
  ASSUME NEW s1, NEW s2, NEW s3, NEW s4, NEW s5
  PROVE  <<s1, s2>> \o <<s3>> \o <<s4, s5>> = <<s1, s2, s3, s4, s5>>
<1> DEFINE S == {s1, s2, s3, s4, s5}
           two == <<s1, s2>>
           three == Append(two, s3)
           five == <<s1, s2, s3, s4, s5>>
<1>1. two \in Seq(S) /\ Len(two) = 2 /\ two[1] = s1 /\ two[2] = s2
  OBVIOUS
<1>2. /\ five \in Seq(S) /\ Len(five) = 5 /\ five[1] = s1 /\ five[2] = s2 /\ five[3] = s3
      /\ five[4] = s4 /\ five[5] = s5
  OBVIOUS
<1>3. s3 \in S /\ s4 \in S /\ s5 \in S
  OBVIOUS
<1>4. <<s1, s2>> \o <<s3>> = three
  BY <1>1, <1>3, AppendIsConcat
<1>11. three = Append(two, s3)
  OBVIOUS
<1>12. two \in Seq(S) /\ s3 \in S
  BY <1>1, <1>3
<1> HIDE DEF S, two, five, three
<1>5. /\ three \in Seq(S) /\ Len(three) = Len(two) + 1
      /\ \A i \in 1..Len(two) : three[i] = two[i]
      /\ three[Len(two) + 1] = s3
  BY <1>11, <1>12, AppendProperties
<1>6. /\ three \in Seq(S) /\ Len(three) = 3 /\ three[1] = s1 /\ three[2] = s2 /\ three[3] = s3
  BY <1>1, <1>5
<1> DEFINE all == three \o <<s4, s5>>
<1>13. all = three \o <<s4, s5>>
  OBVIOUS
<1>14. three \in Seq(S) /\ s4 \in S /\ s5 \in S
  BY <1>3, <1>6
<1> HIDE DEF all
<1>7. /\ all \in Seq(S) /\ Len(all) = Len(three) + 2
      /\ all[Len(three) + 1] = s4 /\ all[Len(three) + 2] = s5
      /\ \A i \in 1..Len(three) : all[i] = three[i]
  BY <1>13, <1>14, ConcatTwo
<1>8. /\ all \in Seq(S) /\ Len(all) = 5 /\ all[1] = s1 /\ all[2] = s2 /\ all[3] = s3
      /\ all[4] = s4 /\ all[5] = s5
  BY <1>6, <1>7
<1>9. \A i \in 1..Len(all) : all[i] = five[i]
  BY <1>2, <1>8
<1>10. all = five
  BY <1>2, <1>8, <1>9, SameElements
<1> QED BY <1>4, <1>10 DEF all, five

LEMMA FourStatements ==
  ASSUME NEW s1, NEW s2, NEW s4, NEW s5
  PROVE  <<s1, s2>> \o <<>> \o <<s4, s5>> = <<s1, s2, s4, s5>>
<1> DEFINE S == {s1, s2, s4, s5}
           two == <<s1, s2>>
           four == <<s1, s2, s4, s5>>
<1>1. two \in Seq(S) /\ Len(two) = 2 /\ two[1] = s1 /\ two[2] = s2
  OBVIOUS
<1>2. /\ four \in Seq(S) /\ Len(four) = 4 /\ four[1] = s1 /\ four[2] = s2 /\ four[3] = s4
      /\ four[4] = s5
  OBVIOUS
<1>3. s4 \in S /\ s5 \in S
  OBVIOUS
<1>4. <<s1, s2>> \o <<>> = two
  BY <1>1, ConcatEmptySeq
<1> HIDE DEF S, two, four
<1> DEFINE all == two \o <<s4, s5>>
<1>13. all = two \o <<s4, s5>>
  OBVIOUS
<1>14. two \in Seq(S) /\ s4 \in S /\ s5 \in S
  BY <1>1, <1>3
<1> HIDE DEF all
<1>7. /\ all \in Seq(S) /\ Len(all) = Len(two) + 2
      /\ all[Len(two) + 1] = s4 /\ all[Len(two) + 2] = s5
      /\ \A i \in 1..Len(two) : all[i] = two[i]
  BY <1>13, <1>14, ConcatTwo
<1>8. /\ all \in Seq(S) /\ Len(all) = 4 /\ all[1] = s1 /\ all[2] = s2 /\ all[3] = s4
      /\ all[4] = s5
  BY <1>1, <1>7
<1>9. \A i \in 1..Len(all) : all[i] = four[i]
  BY <1>2, <1>8
<1>10. all = four
  BY <1>2, <1>8, <1>9, SameElements
<1> QED BY <1>4, <1>10 DEF all, four

LEMMA NewSettlement ==
  ASSUME NEW id, id \in DOMAIN slipSlips', NEW fee, slipTodo' = Slips!SettleStatements(id, fee)
  PROVE  /\ TodoInv'
         /\ \A s : Pending(s)' <=>
              \/ s = Slips!AddLedger("release", id) \/ s = Slips!AddLedger("settlement", id)
              \/ fee > 0 /\ s = Slips!AddLedger("commission", id)
              \/ s = Slips!UpdateBet(id) \/ s = Slips!UpdateBalance(id)
<1> DEFINE s1 == Slips!AddLedger("release", id)
           s2 == Slips!AddLedger("settlement", id)
           s3 == Slips!AddLedger("commission", id)
           s4 == Slips!UpdateBet(id)
           s5 == Slips!UpdateBalance(id)
<1>1. {s1, s2, s3, s4, s5} \subseteq SlipStatement'
  BY DEF SlipStatement, LedgerType, Slips!AddLedger, Slips!UpdateBalance, Slips!UpdateBet
<1>2. /\ s1.do = "ledger" /\ s1.bet = id /\ s1.type = "release"
      /\ s2.do = "ledger" /\ s2.bet = id /\ s2.type = "settlement"
      /\ s3.do = "ledger" /\ s3.bet = id /\ s3.type = "commission"
      /\ s4.do = "update" /\ s4.bet = id
      /\ s5.do = "balance" /\ s5.bet = id
  BY StatementsDiffer
<1>3. slipTodo' = <<s1, s2>> \o (IF fee > 0 THEN <<s3>> ELSE <<>>) \o <<s4, s5>>
  BY DEF Slips!SettleStatements
<1> HIDE DEF s1, s2, s3, s4, s5
<1>4. CASE fee > 0
  <2>1. slipTodo' = <<s1, s2, s3, s4, s5>>
    BY <1>3, <1>4, FiveStatements
  <2>2. /\ slipTodo' \in Seq(SlipStatement') /\ DOMAIN slipTodo' = {1, 2, 3, 4, 5}
        /\ slipTodo'[1] = s1 /\ slipTodo'[2] = s2 /\ slipTodo'[3] = s3
        /\ slipTodo'[4] = s4 /\ slipTodo'[5] = s5
    BY <1>1, <2>1
  <2>3. /\ ~IsClosing(s1) /\ ~IsClosing(s3) /\ ~IsClosing(s4) /\ ~IsClosing(s5)
        /\ s1 # s2 /\ s1 # s3 /\ s1 # s4 /\ s1 # s5 /\ s2 # s3 /\ s2 # s4 /\ s2 # s5
        /\ s3 # s4 /\ s3 # s5 /\ s4 # s5
    BY <1>2 DEF IsClosing, Closings
  <2>4. \A j, k \in DOMAIN slipTodo' :
         /\ slipTodo'[j].bet = slipTodo'[k].bet
         /\ slipTodo'[j] = slipTodo'[k] => j = k
         /\ IsClosing(slipTodo'[j]) => j = 2
         /\ slipTodo'[j].do = "update" => j = 4
         /\ slipTodo'[j].do # "insert"
    BY <1>2, <2>2, <2>3
  <2>5. TodoInv'
    <3>1. 2 < 4
      OBVIOUS
    <3> QED BY <2>2, <2>4, <3>1 DEF TodoInv, IsClosing
  <2>6. \A s : Pending(s)' <=> s = s1 \/ s = s2 \/ s = s3 \/ s = s4 \/ s = s5
    BY <2>2 DEF Pending
  <2> QED BY <1>4, <2>5, <2>6 DEF s1, s2, s3, s4, s5
<1>5. CASE ~(fee > 0)
  <2>1. slipTodo' = <<s1, s2, s4, s5>>
    BY <1>3, <1>5, FourStatements
  <2>2. /\ slipTodo' \in Seq(SlipStatement') /\ DOMAIN slipTodo' = {1, 2, 3, 4}
        /\ slipTodo'[1] = s1 /\ slipTodo'[2] = s2 /\ slipTodo'[3] = s4
        /\ slipTodo'[4] = s5
    BY <1>1, <2>1
  <2>3. /\ ~IsClosing(s1) /\ ~IsClosing(s4) /\ ~IsClosing(s5)
        /\ s1 # s2 /\ s1 # s4 /\ s1 # s5 /\ s2 # s4 /\ s2 # s5 /\ s4 # s5
    BY <1>2 DEF IsClosing, Closings
  <2>4. \A j, k \in DOMAIN slipTodo' :
         /\ slipTodo'[j].bet = slipTodo'[k].bet
         /\ slipTodo'[j] = slipTodo'[k] => j = k
         /\ IsClosing(slipTodo'[j]) => j = 2
         /\ slipTodo'[j].do = "update" => j = 3
         /\ slipTodo'[j].do # "insert"
    BY <1>2, <2>2, <2>3
  <2>5. TodoInv'
    <3>1. 2 < 3
      OBVIOUS
    <3> QED BY <2>2, <2>4, <3>1 DEF TodoInv, IsClosing
  <2>6. \A s : Pending(s)' <=> s = s1 \/ s = s2 \/ s = s4 \/ s = s5
    BY <2>2 DEF Pending
  <2> QED BY <1>5, <2>5, <2>6 DEF s1, s2, s3, s4, s5
<1> QED BY <1>4, <1>5

-----------------------------------------------------------------------------

\* The sums and counts are those of the lemmas.
LEMMA SlipSum ==
  ASSUME NEW f, NEW S
  PROVE  Slips!SumFunctionOnSet(f, S) = SumFunctionOnSet(f, S)
BY DEF SumFunctionOnSet, FoldFunctionOnSet, MapThenFoldSet, Slips!SumFunctionOnSet,
       Slips!FoldFunctionOnSet, Slips!MapThenFoldSet

LEMMA SlipCard ==
  ASSUME NEW S
  PROVE  Slips!Cardinality(S) = Cardinality(S)
BY DEF Slips!Cardinality, Cardinality

\* What a bet holds is a number, and does not depend on its status.
LEMMA HoldTyped ==
  ASSUME NEW b \in Slips!Bet
  PROVE  /\ Slips!HoldAmount(b) \in Nat /\ b.stake \in Nat /\ b.user \in Bettor
         /\ b.price - 1 \in Nat
         /\ \A status : Slips!HoldAmount([b EXCEPT !.status = status]) = Slips!HoldAmount(b)
<1>1. b.stake \in Nat /\ b.price \in Nat \ {0} /\ b.user \in Bettor
  BY RecordsAssumption DEF Slips!Bet, RecordsAssumption
<1>2. b.price - 1 \in Nat
  BY <1>1
<1>3. b.stake * (b.price - 1) \in Nat
  BY <1>1, <1>2
<1>4. \A status : [b EXCEPT !.status = status].stake = b.stake
                  /\ [b EXCEPT !.status = status].price = b.price
                  /\ [b EXCEPT !.status = status].side = b.side
  BY DEF Slips!Bet
<1> QED BY <1>1, <1>2, <1>3, <1>4 DEF Slips!HoldAmount

\* What rows hold for a user, now and later: the same bets hold the same,
LEMMA HeldTyped ==
  ASSUME SlipTyped, NEW u
  PROVE  /\ IsFiniteSet(HeldBets(u)) /\ Held(u) = SumFunctionOnSet(Slips!RowHolds, HeldBets(u))
         /\ \A id \in DOMAIN slipRows :
              Slips!RowHolds[id] = Slips!HoldAmount(slipRows[id]) /\ Slips!RowHolds[id] \in Int
         /\ Held(u) \in Int
<1>1. DOMAIN slipRows \subseteq 1..placed /\ placed \in Int
  BY DEF SlipTyped
<1>2. IsFiniteSet(HeldBets(u)) /\ HeldBets(u) \subseteq DOMAIN slipRows
  <2>1. HeldBets(u) \subseteq 1..placed
    BY <1>1 DEF HeldBets
  <2>2. IsFiniteSet(1..placed)
    BY <1>1, FS_Interval
  <2> QED BY <2>1, <2>2, FS_Subset DEF HeldBets
<1>3. \A id \in DOMAIN slipRows :
        Slips!RowHolds[id] = Slips!HoldAmount(slipRows[id]) /\ Slips!RowHolds[id] \in Int
  <2>1. \A id \in DOMAIN slipRows : slipRows[id] \in Slips!Bet
    BY DEF SlipTyped, Slips!BetRecordsTypeOK
  <2> QED BY <2>1, HoldTyped DEF Slips!RowHolds
<1>4. Held(u) = SumFunctionOnSet(Slips!RowHolds, HeldBets(u))
  BY SlipSum DEF Held
<1>5. SumFunctionOnSet(Slips!RowHolds, HeldBets(u)) \in Int
  BY <1>2, <1>3, SumInt
<1> QED BY <1>2, <1>3, <1>4, <1>5

LEMMA HeldLater ==
  ASSUME NEW u
  PROVE  /\ Held(u)' = SumFunctionOnSet(Slips!RowHolds', HeldBets(u)')
         /\ \A id \in DOMAIN slipRows' : Slips!RowHolds'[id] = Slips!HoldAmount(slipRows'[id])
BY SlipSum DEF Held, Slips!RowHolds

\* Every row of u that holds money now does later, with the same amount, and no other.
LEMMA HeldStays ==
  ASSUME SlipTyped, NEW u,
         \A id : id \in HeldBets(u)' <=> id \in HeldBets(u),
         \A id \in HeldBets(u) : slipRows'[id] = slipRows[id]
  PROVE  Held(u)' = Held(u)
<1>1. HeldBets(u)' = HeldBets(u)
  OBVIOUS
<1>2. HeldBets(u) \subseteq DOMAIN slipRows /\ HeldBets(u)' \subseteq DOMAIN slipRows'
  BY DEF HeldBets
<1>3. \A id \in HeldBets(u) : Slips!RowHolds[id] = Slips!RowHolds'[id]
  BY <1>1, <1>2, HeldTyped, HeldLater
<1>4. SumFunctionOnSet(Slips!RowHolds, HeldBets(u)) = SumFunctionOnSet(Slips!RowHolds', HeldBets(u))
  BY <1>3, HeldTyped, SumSame
<1> QED BY <1>1, <1>4, HeldTyped, HeldLater

\* One bet holds besides.
LEMMA HeldGrows ==
  ASSUME SlipTyped, NEW u, NEW b, b \notin HeldBets(u), slipRows'[b] \in Slips!Bet,
         \A id : id \in HeldBets(u)' <=> id \in HeldBets(u) \/ id = b,
         \A id \in HeldBets(u) : slipRows'[id] = slipRows[id]
  PROVE  Held(u)' = Held(u) + Slips!HoldAmount(slipRows'[b])
<1>1. HeldBets(u)' = HeldBets(u) \cup {b}
  OBVIOUS
<1>2. HeldBets(u) \subseteq DOMAIN slipRows /\ HeldBets(u)' \subseteq DOMAIN slipRows'
  BY DEF HeldBets
<1>3. \A id \in HeldBets(u) : Slips!RowHolds[id] = Slips!RowHolds'[id] /\ Slips!RowHolds'[id] \in Int
  BY <1>1, <1>2, HeldTyped, HeldLater
<1>4. SumFunctionOnSet(Slips!RowHolds, HeldBets(u)) = SumFunctionOnSet(Slips!RowHolds', HeldBets(u))
  BY <1>3, HeldTyped, SumSame
<1>5. Slips!RowHolds'[b] = Slips!HoldAmount(slipRows'[b]) /\ Slips!RowHolds'[b] \in Int
  BY <1>1, <1>2, HeldLater, HoldTyped
<1>6. SumFunctionOnSet(Slips!RowHolds', HeldBets(u) \cup {b})
        = SumFunctionOnSet(Slips!RowHolds', HeldBets(u)) + Slips!RowHolds'[b]
  BY <1>3, <1>5, HeldTyped, SumAdd
<1> QED BY <1>1, <1>4, <1>5, <1>6, HeldTyped, HeldLater

\* One bet no longer holds.
LEMMA HeldShrinks ==
  ASSUME SlipTyped, NEW u, NEW b, b \in HeldBets(u),
         \A id : id \in HeldBets(u)' <=> id \in HeldBets(u) /\ id # b,
         \A id \in HeldBets(u) : id # b => slipRows'[id] = slipRows[id]
  PROVE  Held(u)' = Held(u) - Slips!HoldAmount(slipRows[b])
<1>1. HeldBets(u)' = HeldBets(u) \ {b}
  OBVIOUS
<1>2. HeldBets(u) \subseteq DOMAIN slipRows /\ HeldBets(u)' \subseteq DOMAIN slipRows'
  BY DEF HeldBets
<1>3. \A id \in HeldBets(u) \ {b} : Slips!RowHolds[id] = Slips!RowHolds'[id]
  BY <1>1, <1>2, HeldTyped, HeldLater
<1>4. IsFiniteSet(HeldBets(u)) /\ IsFiniteSet(HeldBets(u) \ {b})
  BY HeldTyped, FS_Subset
<1>5. SumFunctionOnSet(Slips!RowHolds, HeldBets(u) \ {b})
        = SumFunctionOnSet(Slips!RowHolds', HeldBets(u) \ {b})
  BY <1>3, <1>4, SumSame
<1>6. \A id \in HeldBets(u) : Slips!RowHolds[id] \in Int
  BY <1>2, HeldTyped
<1>7. SumFunctionOnSet(Slips!RowHolds, HeldBets(u))
        = Slips!RowHolds[b] + SumFunctionOnSet(Slips!RowHolds, HeldBets(u) \ {b})
  BY <1>4, <1>6, SumRemove
<1>8. SumFunctionOnSet(Slips!RowHolds, HeldBets(u) \ {b}) \in Int
  BY <1>4, <1>6, SumInt
<1>9. Slips!RowHolds[b] = Slips!HoldAmount(slipRows[b]) /\ Slips!RowHolds[b] \in Int
  BY <1>2, HeldTyped
<1>10. Held(u) = SumFunctionOnSet(Slips!RowHolds, HeldBets(u)) /\ Held(u)' = SumFunctionOnSet(Slips!RowHolds', HeldBets(u) \ {b})
  BY <1>1, HeldTyped, HeldLater
<1> DEFINE x == SumFunctionOnSet(Slips!RowHolds, HeldBets(u) \ {b})
           h == Slips!HoldAmount(slipRows[b])
<1>11. Held(u) = h + x /\ Held(u)' = x /\ x \in Int /\ h \in Int
  BY <1>5, <1>7, <1>8, <1>9, <1>10
<1> HIDE DEF x, h
<1> QED BY <1>11 DEF h

LEMMA SlipFacts ==
  ASSUME SlipTyped
  PROVE  /\ \A id \in DOMAIN slipSlips :
              /\ slipSlips[id] \in Slips!Bet /\ slipSlips[id].user \in Bettor
              /\ id \in Slips!Id /\ id \in 1..placed
         /\ \A id \in DOMAIN slipRows : slipRows[id] \in Slips!Bet /\ id \in 1..placed
         /\ \A u \in Bettor : account[u].exposure \in Nat /\ accountRow[u].exposure \in Nat
         /\ \A id \in DOMAIN slipSlips \cap DOMAIN slipRows : slipRows[id].user = slipSlips[id].user
<1>1. \A id \in DOMAIN slipSlips : slipSlips[id] \in Slips!Bet /\ id \in Slips!Id /\ id \in 1..placed
  BY DEF SlipTyped, Slips!BetRecordsTypeOK
<1>2. \A u \in Bettor : account[u].exposure \in Nat /\ accountRow[u].exposure \in Nat
  BY DEF SlipTyped, Slips!BetRecordsTypeOK, Slips!Funds
<1>3. \A id \in DOMAIN slipRows : slipRows[id] \in Slips!Bet /\ id \in 1..placed
  BY DEF SlipTyped, Slips!BetRecordsTypeOK
<1> QED BY <1>1, <1>2, <1>3, HoldTyped DEF SlipTyped

\* What a reader has read is read again, and who drifts drifts: the rest is as it was.
LEMMA DriftKeeps ==
  ASSUME SlipsInv,
         UNCHANGED <<slipSlips, slipRows, slipPosted, accountRow, slipTodo, placed, placing, unsaved>>,
         account' \in [Bettor -> Slips!Funds],
         drifted \subseteq drifted', drifted' \subseteq Bettor,
         \A u \in Bettor \ drifted' : account'[u].exposure = account[u].exposure,
         DOMAIN slipReading' = RowReader,
         \A r \in RowReader :
           slipReading'[r] # Slips!NotReading =>
             slipReading'[r] \in [user : Bettor, row : Slips!Funds]
  PROVE  SlipsInv'
<1>1. SlipTyped'
  BY DEF SlipsInv, SlipTyped, Slips!BetRecordsTypeOK
<1>2. TodoInv'
  BY DEF SlipsInv, TodoInv, SlipStatement
<1>3. \A s : Pending(s)' <=> Pending(s)
  BY DEF Pending
<1>4. \A id : Placing(id)' <=> Placing(id)
  BY DEF Placing
<1>5. PlacingInv'
  BY <1>3, <1>4 DEF SlipsInv, PlacingInv
<1>6. ClosingInv'
  BY <1>3 DEF SlipsInv, ClosingInv, Ended
<1>7. Slips!ClosedIsPosted'
  BY DEF SlipsInv, Slips!ClosedIsPosted
<1>8. KeptInv'
  BY <1>3 DEF SlipsInv, KeptInv, RowAsKept
<1>9. HeldInv'
  <2>1. ASSUME NEW u PROVE Held(u)' = Held(u)
    BY <1>4, HeldStays DEF HeldBets, SlipsInv
  <2> QED BY <1>3, <2>1 DEF SlipsInv, HeldInv
<1> QED BY <1>1, <1>2, <1>5, <1>6, <1>7, <1>8, <1>9 DEF SlipsInv

\* Sections that run no statement, readings, and readings written back.
LEMMA QuietKeeps ==
  ASSUME SlipsInv,
         \/ \E how, winner : Slips!CloseMarket(how, winner)
         \/ Slips!AllClosed
         \/ \E r \in RowReader, u \in Bettor : Slips!ReadBalance(r, u)
         \/ \E r \in RowReader : Slips!SyncBalance(r)
         \/ UNCHANGED slipsVars
  PROVE  SlipsInv'
<1>1. /\ account \in [Bettor -> Slips!Funds] /\ accountRow \in [Bettor -> Slips!Funds]
      /\ drifted \subseteq Bettor /\ DOMAIN slipReading = RowReader
      /\ \A r \in RowReader :
           slipReading[r] # Slips!NotReading =>
             slipReading[r] \in [user : Bettor, row : Slips!Funds]
  BY DEF SlipsInv, SlipTyped, Slips!BetRecordsTypeOK
<1>2. CASE (\E how, winner : Slips!CloseMarket(how, winner)) \/ Slips!AllClosed \/ UNCHANGED slipsVars
  <2>1. UNCHANGED <<slipSlips, slipRows, slipPosted, account, accountRow, slipTodo, placed,
                    placing, slipReading, drifted, unsaved>>
    BY <1>2 DEF Slips!CloseMarket, Slips!Section, Slips!Locked, Slips!AllClosed, slipsVars
  <2> QED BY <1>1, <2>1, DriftKeeps
<1>3. ASSUME NEW r \in RowReader, NEW u \in Bettor, Slips!ReadBalance(r, u)
      PROVE  SlipsInv'
  <2>1. /\ UNCHANGED <<slipSlips, slipRows, slipPosted, account, accountRow, slipTodo, placed,
                       placing, drifted, unsaved>>
        /\ slipReading' = [slipReading EXCEPT ![r] = [user |-> u, row |-> accountRow[u]]]
    BY <1>3 DEF Slips!ReadBalance
  <2>2. [user |-> u, row |-> accountRow[u]] \in [user : Bettor, row : Slips!Funds]
    BY <1>1
  <2> QED BY <1>1, <2>1, <2>2, DriftKeeps
<1>4. ASSUME NEW r \in RowReader, Slips!SyncBalance(r)
      PROVE  SlipsInv'
  <2> DEFINE u == slipReading[r].user
             row == slipReading[r].row
  <2>1. u \in Bettor /\ row \in Slips!Funds
    BY <1>1, <1>4 DEF Slips!SyncBalance
  <2>2. /\ UNCHANGED <<slipSlips, slipRows, slipPosted, accountRow, slipTodo, placed,
                       placing, unsaved>>
        /\ account' = [account EXCEPT ![u] = row]
        /\ slipReading' = [slipReading EXCEPT ![r] = Slips!NotReading]
        /\ drifted' = IF account[u].exposure = row.exposure THEN drifted ELSE drifted \cup {u}
    BY <1>4 DEF Slips!SyncBalance
  <2> HIDE DEF u, row
  <2>3. ASSUME NEW v \in Bettor \ drifted' PROVE account'[v].exposure = account[v].exposure
    <3>1. CASE v = u
      <4>1. account'[v] = row
        BY <1>1, <2>1, <2>2, <3>1
      <4>2. account[u].exposure = row.exposure
        BY <2>1, <2>2, <2>3, <3>1
      <4> QED BY <3>1, <4>1, <4>2
    <3>2. CASE v # u
      BY <1>1, <2>2, <3>2
    <3> QED BY <3>1, <3>2
  <2>4. account' \in [Bettor -> Slips!Funds]
    BY <1>1, <2>1, <2>2
  <2>5. drifted \subseteq drifted' /\ drifted' \subseteq Bettor
    BY <1>1, <2>1, <2>2
  <2>6. /\ DOMAIN slipReading' = RowReader
        /\ \A q \in RowReader :
             slipReading'[q] # Slips!NotReading =>
               slipReading'[q] \in [user : Bettor, row : Slips!Funds]
    BY <1>1, <2>2
  <2> QED BY <2>2, <2>3, <2>4, <2>5, <2>6, DriftKeeps
<1> QED BY <1>2, <1>3, <1>4

\* A request that holds nothing leaves its bet, and its user has drifted.
LEMMA HoldFailsKeeps ==
  ASSUME SlipsInv, NEW p \in Placer, Slips!HoldFails(p)
  PROVE  SlipsInv'
<1> DEFINE b == placing[p]
<1>0. SlipTyped /\ PlacingInv /\ HeldInv
  BY DEF SlipsInv
<1>1. /\ b \in DOMAIN slipSlips /\ slipTodo = <<>>
      /\ placing' = [placing EXCEPT ![p] = Slips!None]
      /\ drifted' = drifted \cup {slipSlips[b].user}
      /\ UNCHANGED <<slipSlips, slipRows, slipPosted, account, accountRow, slipTodo, placed,
                     slipReading, unsaved>>
  BY <1>0 DEF Slips!HoldFails, Slips!Locked, PlacingInv
<1>3. \A id : id # b /\ id # Slips!None => (Placing(id)' <=> Placing(id))
  BY <1>0, <1>1 DEF Placing, PlacingInv
<1>4. \A id \in DOMAIN slipSlips : id # Slips!None
  BY <1>0, SlipFacts DEF Slips!Id, Slips!None
<1> HIDE DEF b
<1>5. \A s : ~Pending(s) /\ ~Pending(s)'
  BY <1>1, NothingPending DEF Pending
<1>6. SlipTyped'
  <2>1. slipSlips[b].user \in Bettor
    BY <1>0, <1>1, SlipFacts
  <2>2. placing' \in [Placer -> {Slips!None} \cup Slips!Id]
    BY <1>0, <1>1 DEF SlipTyped, Slips!BetRecordsTypeOK
  <2> QED BY <1>0, <1>1, <2>1, <2>2 DEF SlipTyped, Slips!BetRecordsTypeOK
<1>7. TodoInv'
  BY <1>1 DEF SlipsInv, TodoInv, SlipStatement
<1>8. PlacingInv'
  BY <1>0, <1>1, <1>5 DEF PlacingInv
<1>9. ClosingInv' /\ Slips!ClosedIsPosted'
  BY <1>1, <1>5 DEF SlipsInv, ClosingInv, Ended, Slips!ClosedIsPosted
<1>10. KeptInv'
  BY <1>1, <1>5 DEF SlipsInv, KeptInv, RowAsKept
<1>11. HeldInv'
  <2> SUFFICES ASSUME NEW u \in Bettor, u \notin drifted, u # slipSlips[b].user
               PROVE  account[u].exposure = accountRow[u].exposure /\ account[u].exposure = Held(u)'
    BY <1>1, <1>5 DEF HeldInv
  <2>1. account[u].exposure = accountRow[u].exposure /\ account[u].exposure = Held(u)
    BY <1>0, <1>5 DEF HeldInv
  <2>2. ASSUME NEW id
        PROVE  id \in HeldBets(u)' <=> id \in HeldBets(u)
    <3>1. CASE id = b
      BY <1>0, <1>1, <3>1, SlipFacts DEF HeldBets
    <3>2. CASE id # b
      <4>1. id \in DOMAIN slipRows => id # Slips!None
        BY <1>0, SlipFacts DEF Slips!None
      <4> QED BY <1>1, <1>3, <3>2, <4>1 DEF HeldBets
    <3> QED BY <3>1, <3>2
  <2>3. Held(u)' = Held(u)
    BY <1>0, <1>1, <2>2, HeldStays
  <2> QED BY <2>1, <2>3
<1> QED BY <1>6, <1>7, <1>8, <1>9, <1>10, <1>11 DEF SlipsInv

\* A hold takes as much from its user as the bet's row says.
LEMMA HoldFundsKeeps ==
  ASSUME SlipsInv, NEW p \in Placer, Slips!HoldFunds(p)
  PROVE  SlipsInv'
<1>1. PICK id \in DOMAIN slipSlips : placing[p] = id
  BY DEF Slips!HoldFunds, SlipsInv, PlacingInv
<1> DEFINE b == slipSlips[id]
           u == b.user
<1>0. SlipTyped /\ PlacingInv /\ HeldInv /\ KeptInv
  BY DEF SlipsInv
<1>2. /\ slipTodo = <<>>
      /\ account' = [account EXCEPT ![u].exposure = @ + Slips!HoldAmount(b)]
      /\ placing' = [placing EXCEPT ![p] = Slips!None]
      /\ slipTodo' = <<Slips!AddLedger("hold", id), Slips!UpdateBalance(id)>>
      /\ drifted' = IF b.status = "matched" THEN drifted ELSE drifted \cup {u}
      /\ UNCHANGED <<slipSlips, slipRows, slipPosted, accountRow, placed, slipReading, unsaved>>
  BY <1>1 DEF Slips!HoldFunds, Slips!Section, Slips!Locked
<1>3. /\ b \in Slips!Bet /\ u \in Bettor /\ Slips!HoldAmount(b) \in Nat /\ id # Slips!None
      /\ account \in [Bettor -> Slips!Funds] /\ account[u].exposure \in Nat
  BY <1>0, SlipFacts, HoldTyped DEF Slips!None, SlipTyped, Slips!BetRecordsTypeOK
<1> HIDE DEF b, u
<1>4. /\ account' \in [Bettor -> Slips!Funds]
      /\ account'[u].exposure = account[u].exposure + Slips!HoldAmount(b)
      /\ \A v \in Bettor \ {u} : account'[v] = account[v]
  <2>1. [account[u] EXCEPT !.exposure = account[u].exposure + Slips!HoldAmount(b)] \in Slips!Funds
    BY <1>3 DEF Slips!Funds
  <2>2. account' = [account EXCEPT ![u] = [account[u] EXCEPT !.exposure = account[u].exposure + Slips!HoldAmount(b)]]
    BY <1>2
  <2>3. account'[u] = [account[u] EXCEPT !.exposure = account[u].exposure + Slips!HoldAmount(b)]
    BY <1>3, <2>2
  <2>4. account'[u].exposure = account[u].exposure + Slips!HoldAmount(b)
    BY <1>3, <2>3 DEF Slips!Funds
  <2>5. account' \in [Bettor -> Slips!Funds]
    BY <1>3, <2>1, <2>2
  <2>6. \A v \in Bettor \ {u} : account'[v] = account[v]
    BY <1>3, <2>2
  <2> QED BY <2>4, <2>5, <2>6
<1>5. \A s : ~Pending(s)
  BY <1>2, NothingPending
<1>6. /\ TodoInv'
      /\ \A s : Pending(s)' <=> s = Slips!AddLedger("hold", id) \/ s = Slips!UpdateBalance(id)
  BY <1>2, NewHold
<1>7. /\ \A i : ~Pending(Slips!SaveBet(i))' /\ ~Pending(Slips!UpdateBet(i))'
      /\ \A t \in Closings : \A i : ~Pending(Slips!AddLedger(t, i))'
      /\ Pending(Slips!UpdateBalance(id))'
  BY <1>6, StatementsDiffer DEF Closings
<1>8. SlipTyped'
  <2>1. placing' \in [Placer -> {Slips!None} \cup Slips!Id]
    BY <1>0, <1>2 DEF SlipTyped, Slips!BetRecordsTypeOK
  <2>2. drifted' \subseteq Bettor
    BY <1>0, <1>2, <1>3 DEF SlipTyped, Slips!BetRecordsTypeOK
  <2> QED BY <1>0, <1>2, <1>4, <2>1, <2>2 DEF SlipTyped, Slips!BetRecordsTypeOK
<1>9. PlacingInv'
  BY <1>0, <1>2, <1>7 DEF PlacingInv
<1>10. ClosingInv'
  BY <1>2, <1>5, <1>7 DEF SlipsInv, ClosingInv, Ended, Closings
<1>11. Slips!ClosedIsPosted'
  BY <1>2 DEF SlipsInv, Slips!ClosedIsPosted
<1>12. KeptInv'
  BY <1>0, <1>2, <1>5, <1>7 DEF KeptInv, RowAsKept
<1>13. \A i : i # id /\ i # Slips!None => (Placing(i)' <=> Placing(i))
  BY <1>0, <1>1, <1>2 DEF Placing, PlacingInv
<1>14. Placing(id) /\ ~Placing(id)'
  BY <1>0, <1>1, <1>2, <1>3 DEF Placing, PlacingInv
<1>15. HeldInv'
  <2> SUFFICES ASSUME NEW v \in Bettor, v \notin drifted'
               PROVE  /\ account'[v].exposure = Held(v)'
                      /\ v = u \/ account'[v].exposure = accountRow[v].exposure
    BY <1>2, <1>7 DEF HeldInv, u, b
  <2>1. v \notin drifted /\ account[v].exposure = accountRow[v].exposure /\ account[v].exposure = Held(v)
    BY <1>0, <1>2, <1>5 DEF HeldInv
  <2>2. \A i \in DOMAIN slipRows : i # Slips!None
    BY <1>0, SlipFacts DEF Slips!None
  <2>3. CASE v # u
    <3>1. ASSUME NEW i PROVE i \in HeldBets(v)' <=> i \in HeldBets(v)
      <4>1. CASE i = id
        <5>1. i \in DOMAIN slipRows => slipRows[i].user = u
          BY <1>0, <4>1, SlipFacts DEF u, b
        <5> QED BY <1>2, <2>3, <5>1 DEF HeldBets
      <4>2. CASE i # id
        BY <1>2, <1>13, <2>2, <4>2 DEF HeldBets
      <4> QED BY <4>1, <4>2
    <3>2. Held(v)' = Held(v)
      BY <1>0, <1>2, <3>1, HeldStays
    <3> QED BY <1>4, <2>1, <2>3, <3>2
  <2>4. CASE v = u
    <3>1. b.status = "matched"
      BY <1>2, <2>4
    <3>2. id \in DOMAIN slipRows /\ slipRows[id] = b
      BY <1>0, <1>5, <2>1, <2>4 DEF KeptInv, RowAsKept, u, b
    <3>3. id \notin HeldBets(v) /\ slipRows'[id] \in Slips!Bet /\ slipRows'[id] = b
      BY <1>2, <1>3, <1>14, <3>2 DEF HeldBets
    <3>4. ASSUME NEW i PROVE i \in HeldBets(v)' <=> i \in HeldBets(v) \/ i = id
      <4>1. CASE i = id
        BY <1>2, <1>14, <2>4, <3>1, <3>2, <4>1 DEF HeldBets, u
      <4>2. CASE i # id
        BY <1>2, <1>13, <2>2, <4>2 DEF HeldBets
      <4> QED BY <4>1, <4>2
    <3>5. Held(v)' = Held(v) + Slips!HoldAmount(b)
      BY <1>0, <1>2, <3>3, <3>4, HeldGrows
    <3> QED BY <1>4, <2>1, <2>4, <3>5
  <2> QED BY <2>3, <2>4
<1> QED BY <1>6, <1>8, <1>9, <1>10, <1>11, <1>12, <1>15 DEF SlipsInv

\* A bet is placed in memory, and its row is about to follow; nothing is held yet.
LEMMA PlaceBetKeeps ==
  ASSUME SlipsInv, NEW p \in Placer, NEW b \in Slips!NewBet, Slips!PlaceAndMatch(p, b)
  PROVE  SlipsInv'
<1>15. PICK id : id = placed + 1
  OBVIOUS
<1>0. SlipTyped /\ PlacingInv /\ HeldInv /\ KeptInv /\ ClosingInv
  BY DEF SlipsInv
<1>1. /\ slipTodo = <<>> /\ id \in Slips!Id /\ placing[p] = Slips!None
      /\ slipSlips' = Slips!Keep(slipSlips, id, b) /\ placed' = id
      /\ placing' = [placing EXCEPT ![p] = id] /\ slipTodo' = <<Slips!SaveBet(id)>>
      /\ UNCHANGED <<slipRows, slipPosted, account, accountRow, slipReading, drifted, unsaved>>
  BY <1>15 DEF Slips!PlaceAndMatch, Slips!Section, Slips!Locked
<1>2. b \in Slips!Bet /\ b.status = "matched"
  BY DEF Slips!NewBet
<1>3. /\ placed \in Nat /\ id \notin 1..placed /\ id # Slips!None
      /\ 1..placed \subseteq 1..id /\ id \in 1..id /\ id \in 0..MaxRecordedBets
  BY <1>0, <1>1, <1>15, RecordsAssumption DEF SlipTyped, Slips!None, Slips!Id, RecordsAssumption
<1>4. /\ DOMAIN slipSlips' = DOMAIN slipSlips \cup {id} /\ id \notin DOMAIN slipSlips
      /\ slipSlips'[id] = b /\ \A i \in DOMAIN slipSlips : slipSlips'[i] = slipSlips[i]
  <2>1. id \notin DOMAIN slipSlips
    BY <1>0, <1>3, SlipFacts
  <2> QED BY <1>1, <2>1 DEF Slips!Keep
<1>5. \A s : ~Pending(s)
  BY <1>1, NothingPending
<1>6. TodoInv' /\ \A s : Pending(s)' <=> s = Slips!SaveBet(id)
  BY <1>1, <1>4, NewRow
<1>7. /\ \A i : /\ ~Pending(Slips!UpdateBalance(i))' /\ ~Pending(Slips!UpdateBet(i))'
                /\ Pending(Slips!SaveBet(i))' <=> i = id
      /\ \A t, i : ~Pending(Slips!AddLedger(t, i))'
  BY <1>6, StatementsDiffer
<1>8. id \notin DOMAIN slipRows
  BY <1>0, <1>3, SlipFacts
<1>9. SlipTyped'
  <2>1. placing' \in [Placer -> {Slips!None} \cup Slips!Id]
    BY <1>0, <1>1 DEF SlipTyped, Slips!BetRecordsTypeOK
  <2>2. DOMAIN slipSlips' \subseteq Slips!Id /\ DOMAIN slipSlips' \subseteq 1..id
    BY <1>0, <1>1, <1>3, <1>4, SlipFacts
  <2>3. \A i \in DOMAIN slipSlips' : slipSlips'[i] \in Slips!Bet
    BY <1>0, <1>2, <1>4, SlipFacts
  <2>4. slipPosted \subseteq [type : LedgerType, bet : 1..id]
    BY <1>0, <1>3 DEF SlipTyped
  <2>5. DOMAIN slipRows \subseteq 1..id
    BY <1>0, <1>3 DEF SlipTyped
  <2>6. \A i \in DOMAIN slipSlips' \cap DOMAIN slipRows : slipRows[i].user = slipSlips'[i].user
    BY <1>0, <1>4, <1>8 DEF SlipTyped
  <2> QED BY <1>0, <1>1, <1>3, <2>1, <2>2, <2>3, <2>4, <2>5, <2>6 DEF SlipTyped, Slips!BetRecordsTypeOK
<1>10. PlacingInv'
  <2>1. placing' \in [Placer -> {Slips!None} \cup DOMAIN slipSlips']
    BY <1>0, <1>1, <1>4 DEF PlacingInv
  <2>2. \A q, r \in Placer : placing'[q] = placing'[r] /\ placing'[q] # Slips!None => q = r
    BY <1>0, <1>1, <1>3, <1>4 DEF PlacingInv
  <2>3. Placing(id)'
    BY <1>0, <1>1 DEF Placing, PlacingInv
  <2> QED BY <1>2, <1>4, <1>7, <2>1, <2>2, <2>3 DEF PlacingInv
<1>11. ClosingInv'
  <2> SUFFICES ASSUME NEW i \in Slips!Id
               PROVE  /\ \A t1, t2 \in Closings : Ended(t1, i)' /\ Ended(t2, i)' => t1 = t2
                      /\ \A t \in Closings :
                           Ended(t, i)' => i <= placed' /\ (i \in DOMAIN slipSlips' => slipSlips'[i].status # "matched")
                      /\ i \in DOMAIN slipSlips' \ unsaved' =>
                           /\ slipSlips'[i].status = "settled" => Ended("settlement", i)'
                           /\ slipSlips'[i].status = "void" => Ended("void", i)'
    BY DEF ClosingInv
  <2>1. \A t : Ended(t, i)' <=> Ended(t, i)
    BY <1>1, <1>5, <1>7 DEF Ended
  <2>2. CASE i = id
    <3>1. ~(i <= placed)
      BY <1>3, <1>15, <2>2
    <3>2. \A t \in Closings : ~Ended(t, i)
      BY <1>0, <3>1 DEF ClosingInv
    <3> QED BY <1>2, <1>4, <2>1, <2>2, <3>2
  <2>3. CASE i # id
    <3>1. i <= placed => i <= placed'
      BY <1>1, <1>3, <1>15 DEF Slips!Id
    <3>2. i \in DOMAIN slipSlips' => i \in DOMAIN slipSlips /\ slipSlips'[i] = slipSlips[i]
      BY <1>4, <2>3
    <3> QED BY <1>0, <1>1, <2>1, <3>1, <3>2 DEF ClosingInv
  <2> QED BY <2>2, <2>3
<1>12. Slips!ClosedIsPosted'
  BY <1>1 DEF SlipsInv, Slips!ClosedIsPosted
<1>13. KeptInv'
  <2>1. ASSUME NEW i \in DOMAIN slipSlips, i \notin unsaved \/ slipSlips[i].user \notin drifted
        PROVE  RowAsKept(i)'
    BY <1>0, <1>1, <1>4, <1>5, <1>7, <2>1 DEF KeptInv, RowAsKept
  <2>2. RowAsKept(id)'
    BY <1>1, <1>7, <1>8 DEF RowAsKept
  <2> QED BY <1>1, <1>4, <2>1, <2>2 DEF KeptInv
<1>14. HeldInv'
  <2>1. ASSUME NEW u PROVE Held(u)' = Held(u)
    <3>1. ASSUME NEW i PROVE i \in HeldBets(u)' <=> i \in HeldBets(u)
      <4>1. i # id => (Placing(i)' => Placing(i))
        BY <1>0, <1>1 DEF Placing, PlacingInv
      <4>2. i # Slips!None => (Placing(i) => Placing(i)')
        BY <1>0, <1>1 DEF Placing, PlacingInv
      <4>3. i \in DOMAIN slipRows => i # id /\ i # Slips!None
        BY <1>0, <1>8, SlipFacts DEF Slips!None
      <4> QED BY <1>1, <4>1, <4>2, <4>3 DEF HeldBets
    <3> QED BY <1>0, <1>1, <3>1, HeldStays
  <2> QED BY <1>0, <1>1, <1>5, <1>7, <2>1 DEF HeldInv
<1> QED BY <1>6, <1>9, <1>10, <1>11, <1>12, <1>13, <1>14 DEF SlipsInv

\* A bet of which nothing is pending ends: its row, its user's and its posting follow.
LEMMA EndBetKeeps ==
  ASSUME SlipsInv, NEW id \in Slips!OpenSlips, NEW type \in {"settlement", "void"}, NEW st,
         st = IF type = "settlement" THEN "settled" ELSE "void",
         slipTodo = <<>>, TodoInv',
         \A i : /\ ~Pending(Slips!SaveBet(i))'
                /\ Pending(Slips!UpdateBet(i))' <=> i = id
                /\ Pending(Slips!UpdateBalance(i))' <=> i = id,
         \A t \in Closings : \A i : Pending(Slips!AddLedger(t, i))' <=> t = type /\ i = id,
         slipSlips' = [slipSlips EXCEPT ![id].status = st],
         account' \in [Bettor -> Slips!Funds],
         account'[slipSlips[id].user].exposure =
           IF account[slipSlips[id].user].exposure > slipSlips[id].stake
           THEN account[slipSlips[id].user].exposure - slipSlips[id].stake ELSE 0,
         \A v \in Bettor \ {slipSlips[id].user} : account'[v].exposure = account[v].exposure,
         drifted' = Slips!ReleasedAsHeld(id),
         UNCHANGED <<slipRows, slipPosted, accountRow, placed, placing, slipReading, unsaved>>
  PROVE  SlipsInv'
<1>1. PICK b : b = slipSlips[id]
  OBVIOUS
<1>2. PICK u : u = b.user
  OBVIOUS
<1>0. SlipTyped /\ PlacingInv /\ HeldInv /\ KeptInv /\ ClosingInv
  BY DEF SlipsInv
<1>3. /\ id \in DOMAIN slipSlips /\ b \in Slips!Bet /\ u \in Bettor /\ b.status = "matched"
      /\ Slips!HoldAmount(b) \in Nat /\ b.stake \in Nat /\ id \in Slips!Id
  BY <1>0, <1>1, <1>2, SlipFacts, HoldTyped DEF Slips!OpenSlips
<1>4. /\ DOMAIN slipSlips' = DOMAIN slipSlips
      /\ slipSlips'[id] = [b EXCEPT !.status = st]
      /\ \A i \in DOMAIN slipSlips \ {id} : slipSlips'[i] = slipSlips[i]
  BY <1>1, <1>3
<1>5. /\ slipSlips'[id] \in Slips!Bet /\ slipSlips'[id].status = st /\ slipSlips'[id].user = u
      /\ st # "matched"
      /\ [slipSlips'[id] EXCEPT !.status = "matched"] = b
      /\ Slips!HoldAmount(slipSlips'[id]) = Slips!HoldAmount(b)
  <2>1. st \in {"settled", "void"}
    OBVIOUS
  <2>2. [b EXCEPT !.status = st] \in Slips!Bet /\ [b EXCEPT !.status = st].status = st
        /\ [b EXCEPT !.status = st].user = b.user
    BY <1>3, <2>1 DEF Slips!Bet
  <2>3. [[b EXCEPT !.status = st] EXCEPT !.status = "matched"] = b
    BY <1>3 DEF Slips!Bet
  <2>4. Slips!HoldAmount([b EXCEPT !.status = st]) = Slips!HoldAmount(b)
    BY <1>3, HoldTyped
  <2> QED BY <1>2, <1>4, <2>1, <2>2, <2>3, <2>4
<1>6. \A s : ~Pending(s)
  BY NothingPending
<1>7. /\ drifted \subseteq drifted' /\ drifted' \subseteq Bettor
      /\ u \notin drifted' =>
           Slips!HoldAmount(b) = b.stake /\ account[u].exposure >= b.stake /\ ~Placing(id)
  <2>1. drifted \subseteq Bettor
    BY <1>0 DEF SlipTyped, Slips!BetRecordsTypeOK
  <2>2. drifted' = IF Slips!HoldAmount(b) = b.stake /\ account[u].exposure >= b.stake
                      /\ id \notin Slips!Range(placing)
                   THEN drifted ELSE drifted \cup {u}
    BY <1>1, <1>2 DEF Slips!ReleasedAsHeld
  <2>3. id \notin Slips!Range(placing) => ~Placing(id)
    BY <1>0 DEF Slips!Range, Placing, PlacingInv
  <2> QED BY <1>3, <2>1, <2>2, <2>3
<1>8. SlipTyped'
  <2>1. \A i \in DOMAIN slipSlips' : slipSlips'[i] \in Slips!Bet
    BY <1>0, <1>4, <1>5, SlipFacts
  <2>2. \A i \in DOMAIN slipSlips' \cap DOMAIN slipRows : slipRows[i].user = slipSlips'[i].user
    BY <1>0, <1>1, <1>2, <1>4, <1>5, SlipFacts
  <2> QED BY <1>0, <1>4, <1>7, <2>1, <2>2 DEF SlipTyped, Slips!BetRecordsTypeOK
<1>9. \A i : Placing(i)' <=> Placing(i)
  BY DEF Placing
<1>10. PlacingInv'
  BY <1>0, <1>4, <1>5, <1>7, <1>9 DEF PlacingInv
<1>11. ClosingInv'
  <2> SUFFICES ASSUME NEW i \in Slips!Id
               PROVE  /\ \A t1, t2 \in Closings : Ended(t1, i)' /\ Ended(t2, i)' => t1 = t2
                      /\ \A t \in Closings :
                           Ended(t, i)' => i <= placed /\ (i \in DOMAIN slipSlips' => slipSlips'[i].status # "matched")
                      /\ i \in DOMAIN slipSlips' \ unsaved =>
                           /\ slipSlips'[i].status = "settled" => Ended("settlement", i)'
                           /\ slipSlips'[i].status = "void" => Ended("void", i)'
    BY DEF ClosingInv
  <2>1. \A t \in Closings : Ended(t, i)' <=> Ended(t, i) \/ (t = type /\ i = id)
    BY <1>6 DEF Ended
  <2>2. {"settlement", "void"} \subseteq Closings
    BY DEF Closings
  <2>3. CASE i = id
    <3>1. \A t \in Closings : ~Ended(t, i)
      BY <1>0, <1>1, <1>3, <2>3 DEF ClosingInv
    <3>2. i <= placed
      BY <1>0, <1>3, <2>3, SlipFacts DEF SlipTyped
    <3>3. Ended(type, i)' /\ \A t \in Closings : Ended(t, i)' => t = type
      BY <2>1, <2>2, <2>3, <3>1
    <3>4. \A t1, t2 \in Closings : Ended(t1, i)' /\ Ended(t2, i)' => t1 = t2
      BY <3>3
    <3> QED BY <1>5, <2>3, <3>2, <3>3, <3>4
  <2>4. CASE i # id
    BY <1>0, <1>4, <2>1, <2>2, <2>4 DEF ClosingInv
  <2> QED BY <2>3, <2>4
<1>12. Slips!ClosedIsPosted'
  BY DEF SlipsInv, Slips!ClosedIsPosted
<1>13. KeptInv'
  <2> SUFFICES ASSUME NEW i \in DOMAIN slipSlips,
                      i \notin unsaved \/ slipSlips'[i].user \notin drifted'
               PROVE  RowAsKept(i)'
    BY <1>4 DEF KeptInv
  <2>1. CASE i = id
    <3>1. RowAsKept(i)
      BY <1>0, <1>1, <1>2, <1>5, <1>7, <2>1 DEF KeptInv
    <3>2. id \in DOMAIN slipRows /\ slipRows[id] = b
      BY <1>1, <1>6, <2>1, <3>1 DEF RowAsKept
    <3> QED BY <1>5, <2>1, <3>2 DEF RowAsKept
  <2>2. CASE i # id
    <3>1. RowAsKept(i)
      BY <1>0, <1>4, <1>7, <2>2 DEF KeptInv
    <3> QED BY <1>4, <1>6, <2>2, <3>1 DEF RowAsKept
  <2> QED BY <2>1, <2>2
<1>14. HeldInv'
  <2> SUFFICES ASSUME NEW v \in Bettor, v \notin drifted'
               PROVE  /\ v # u => /\ account'[v].exposure = accountRow[v].exposure
                                  /\ account'[v].exposure = Held(v)'
                      /\ v = u => /\ account'[v].exposure = Held(v)' - Slips!HoldAmount(b)
                                  /\ accountRow[v].exposure = Held(v)'
    <3> USE <1>1, <1>2, <1>3, <1>4, <1>5
    <3> QED BY DEF HeldInv
  <2>1. v \notin drifted /\ account[v].exposure = accountRow[v].exposure /\ account[v].exposure = Held(v)
    BY <1>0, <1>6, <1>7 DEF HeldInv
  <2>2. Held(v)' = Held(v)
    BY <1>0, <1>9, HeldStays DEF HeldBets
  <2>3. ASSUME v = u PROVE account'[v].exposure = Held(v) - Slips!HoldAmount(b)
    <3>1. account[u].exposure \in Nat
      BY <1>0, <1>3, SlipFacts
    <3>2. Slips!HoldAmount(b) = b.stake /\ account[u].exposure >= b.stake
      BY <1>7, <2>3
    <3>3. account'[u].exposure = account[u].exposure - b.stake
      BY <1>1, <1>2, <1>3, <3>1, <3>2
    <3> QED BY <2>1, <2>3, <3>2, <3>3
  <2> QED BY <1>1, <1>2, <2>1, <2>2, <2>3
<1> QED BY <1>8, <1>10, <1>11, <1>12, <1>13, <1>14 DEF SlipsInv

\* What is released is no more than what is on hold.
LEMMA Released ==
  ASSUME SlipTyped, NEW u \in Bettor, NEW stake \in Nat,
         NEW rel, rel = Slips!Release(u, stake)
  PROVE  /\ rel \in [Bettor -> Slips!Funds] /\ rel[u].balance \in Int
         /\ rel[u].exposure = IF account[u].exposure > stake THEN account[u].exposure - stake ELSE 0
         /\ \A v \in Bettor \ {u} : rel[v] = account[v]
<1> DEFINE left == IF account[u].exposure > stake THEN account[u].exposure - stake ELSE 0
           acct == [account[u] EXCEPT !.exposure = left]
<1>1. account \in [Bettor -> Slips!Funds] /\ account[u] \in Slips!Funds /\ account[u].exposure \in Nat
  BY DEF SlipTyped, Slips!BetRecordsTypeOK, Slips!Funds
<1>2. left \in Nat
  BY <1>1
<1>3. rel = [account EXCEPT ![u] = acct]
  BY DEF Slips!Release
<1> HIDE DEF left
<1>4. acct \in Slips!Funds /\ acct.exposure = left /\ acct.balance \in Int
  BY <1>1, <1>2 DEF Slips!Funds
<1> HIDE DEF acct
<1>5. rel \in [Bettor -> Slips!Funds] /\ rel[u] = acct /\ \A v \in Bettor \ {u} : rel[v] = account[v]
  BY <1>1, <1>3, <1>4
<1> QED BY <1>4, <1>5 DEF left

\* A payment changes the balance and not what is on hold.
LEMMA PaidOut ==
  ASSUME NEW rel \in [Bettor -> Slips!Funds], NEW u \in Bettor, NEW gain \in Int,
         NEW paid, paid = [rel EXCEPT ![u].balance = @ + gain]
  PROVE  /\ paid \in [Bettor -> Slips!Funds] /\ paid[u].exposure = rel[u].exposure
         /\ \A v \in Bettor \ {u} : paid[v] = rel[v]
<1> DEFINE acct == [rel[u] EXCEPT !.balance = rel[u].balance + gain]
<1>1. acct \in Slips!Funds /\ acct.exposure = rel[u].exposure
  BY DEF Slips!Funds
<1>2. paid = [rel EXCEPT ![u] = acct]
  OBVIOUS
<1> HIDE DEF acct
<1> QED BY <1>1, <1>2

LEMMA SettleSlipKeeps ==
  ASSUME SlipsInv, NEW id, Slips!SettleBet(id)
  PROVE  SlipsInv'
<1> DEFINE b == slipSlips[id]
           fee == Slips!Commission(Slips!Pnl(b))
<1>0. SlipTyped
  BY DEF SlipsInv
<1>1. /\ slipTodo = <<>> /\ id \in Slips!OpenSlips /\ id \in DOMAIN slipSlips
      /\ slipSlips' = [slipSlips EXCEPT ![id].status = "settled"]
      /\ account' = [Slips!Release(b.user, b.stake) EXCEPT ![b.user].balance = @ + Slips!Pnl(b) - fee]
      /\ slipTodo' = Slips!SettleStatements(id, fee)
      /\ drifted' = Slips!ReleasedAsHeld(id)
      /\ UNCHANGED <<slipRows, slipPosted, accountRow, placed, placing, slipReading, unsaved>>
  BY DEF Slips!SettleBet, Slips!OpenSlips
<1>2. b \in Slips!Bet /\ b.user \in Bettor /\ b.stake \in Nat /\ b.price - 1 \in Nat
  BY <1>0, <1>1, SlipFacts, HoldTyped
<1>3. Slips!Pnl(b) \in Int /\ fee \in Int
  <2>1. b.stake * (b.price - 1) \in Int /\ b.stake \in Int
    BY <1>2
  <2>2. Slips!Pnl(b) \in Int
    BY <2>1 DEF Slips!Pnl
  <2>3. CommissionRate \in Nat
    BY RecordsAssumption DEF RecordsAssumption
  <2>4. \A x \in Int : Slips!Commission(x) \in Int
    BY <2>3 DEF Slips!Commission
  <2> QED BY <2>2, <2>4
<1>4. PICK gain \in Int : gain = Slips!Pnl(b) - fee
  BY <1>3
<1>6. /\ account' \in [Bettor -> Slips!Funds]
      /\ account'[b.user].exposure = IF account[b.user].exposure > b.stake
                                     THEN account[b.user].exposure - b.stake ELSE 0
      /\ \A v \in Bettor \ {b.user} : account'[v].exposure = account[v].exposure
  <2>1. PICK rel : rel = Slips!Release(b.user, b.stake)
    OBVIOUS
  <2>2. PICK u : u = b.user
    OBVIOUS
  <2>3. /\ rel \in [Bettor -> Slips!Funds] /\ rel[u].balance \in Int
        /\ rel[u].exposure = IF account[u].exposure > b.stake
                             THEN account[u].exposure - b.stake ELSE 0
        /\ \A v \in Bettor \ {u} : rel[v] = account[v]
    BY <1>0, <1>2, <2>1, <2>2, Released
  <2>4. account' = [rel EXCEPT ![u].balance = @ + gain]
    <3>1. rel[u].balance + Slips!Pnl(b) - fee = rel[u].balance + gain
      BY <1>3, <1>4, <2>3
    <3> QED BY <1>1, <2>1, <2>2, <3>1
  <2>5. /\ account' \in [Bettor -> Slips!Funds] /\ account'[u].exposure = rel[u].exposure
        /\ \A v \in Bettor \ {u} : account'[v] = rel[v]
    BY <1>2, <1>4, <2>2, <2>3, <2>4, PaidOut
  <2> QED BY <2>2, <2>3, <2>5
<1>7. id \in DOMAIN slipSlips'
  BY <1>1
<1>8. /\ TodoInv'
      /\ \A s : Pending(s)' <=>
           \/ s = Slips!AddLedger("release", id) \/ s = Slips!AddLedger("settlement", id)
           \/ fee > 0 /\ s = Slips!AddLedger("commission", id)
           \/ s = Slips!UpdateBet(id) \/ s = Slips!UpdateBalance(id)
  BY <1>1, <1>7, NewSettlement
<1> HIDE DEF fee
<1>9. \A i : /\ ~Pending(Slips!SaveBet(i))'
             /\ Pending(Slips!UpdateBet(i))' <=> i = id
             /\ Pending(Slips!UpdateBalance(i))' <=> i = id
  BY <1>8, StatementsDiffer
<1>10. \A t \in Closings : \A i : Pending(Slips!AddLedger(t, i))' <=> t = "settlement" /\ i = id
  BY <1>8, StatementsDiffer DEF Closings
<1> QED BY <1>1, <1>6, <1>8, <1>9, <1>10, EndBetKeeps

LEMMA VoidSlipKeeps ==
  ASSUME SlipsInv, NEW id, Slips!VoidBet(id)
  PROVE  SlipsInv'
<1> DEFINE b == slipSlips[id]
<1>0. SlipTyped
  BY DEF SlipsInv
<1>1. /\ slipTodo = <<>> /\ id \in Slips!OpenSlips /\ id \in DOMAIN slipSlips
      /\ slipSlips' = [slipSlips EXCEPT ![id].status = "void"]
      /\ account' = Slips!Release(b.user, b.stake)
      /\ slipTodo' = <<Slips!AddLedger("void", id), Slips!UpdateBalance(id), Slips!UpdateBet(id)>>
      /\ drifted' = Slips!ReleasedAsHeld(id)
      /\ UNCHANGED <<slipRows, slipPosted, accountRow, placed, placing, slipReading, unsaved>>
  BY DEF Slips!VoidBet, Slips!OpenSlips
<1>2. b \in Slips!Bet /\ b.user \in Bettor /\ b.stake \in Nat
  BY <1>0, <1>1, SlipFacts, HoldTyped
<1>6. /\ account' \in [Bettor -> Slips!Funds]
      /\ account'[b.user].exposure = IF account[b.user].exposure > b.stake
                                     THEN account[b.user].exposure - b.stake ELSE 0
      /\ \A v \in Bettor \ {b.user} : account'[v].exposure = account[v].exposure
  BY <1>0, <1>1, <1>2, Released
<1>7. id \in DOMAIN slipSlips'
  BY <1>1
<1>8. /\ TodoInv'
      /\ \A s : Pending(s)' <=>
           \/ s = Slips!AddLedger("void", id) \/ s = Slips!UpdateBalance(id)
           \/ s = Slips!UpdateBet(id)
  BY <1>1, <1>7, NewVoid
<1>9. \A i : /\ ~Pending(Slips!SaveBet(i))'
             /\ Pending(Slips!UpdateBet(i))' <=> i = id
             /\ Pending(Slips!UpdateBalance(i))' <=> i = id
  BY <1>8, StatementsDiffer
<1>10. \A t \in Closings : \A i : Pending(Slips!AddLedger(t, i))' <=> t = "void" /\ i = id
  BY <1>8, StatementsDiffer DEF Closings
<1> QED BY <1>1, <1>6, <1>8, <1>9, <1>10, EndBetKeeps

\* A cash-out ends its bet in memory and the ledger alone; its user drifts.
LEMMA CashoutSlipKeeps ==
  ASSUME SlipsInv, NEW id \in Slips!Id, Slips!CashoutAccept(id)
  PROVE  SlipsInv'
<1>1. PICK b : b = slipSlips[id]
  OBVIOUS
<1>2. PICK u : u = b.user
  OBVIOUS
<1>0. SlipTyped /\ PlacingInv /\ HeldInv /\ KeptInv /\ ClosingInv
  BY DEF SlipsInv
<1>3. PICK worth : worth = IF b.side = "back" THEN (b.stake * (b.price - 1) * 90) \div 100
                                              ELSE (b.stake * 95) \div 100
  OBVIOUS
<1>4. /\ slipTodo = <<>> /\ id \in DOMAIN slipSlips /\ b.status = "matched"
      /\ slipSlips' = [slipSlips EXCEPT ![id].status = "settled", ![id].cashed = TRUE]
      /\ account' = [Slips!Release(u, b.stake) EXCEPT ![u].balance = @ + worth]
      /\ slipTodo' = <<Slips!AddLedger("cashout-release", id), Slips!AddLedger("cashout", id)>>
      /\ drifted' = drifted \cup {u} /\ unsaved' = unsaved \cup {id}
      /\ UNCHANGED <<slipRows, slipPosted, accountRow, placed, placing, slipReading>>
  BY <1>1, <1>2, <1>3 DEF Slips!CashoutAccept, Slips!Section, Slips!Locked, Slips!OpenSlips
<1>5. b \in Slips!Bet /\ u \in Bettor /\ b.stake \in Nat /\ b.price - 1 \in Nat
  BY <1>0, <1>1, <1>2, <1>4, SlipFacts, HoldTyped
<1>6. worth \in Int
  <2>1. b.stake * (b.price - 1) \in Int
    BY <1>5
  <2>2. b.stake * (b.price - 1) * 90 \in Int /\ b.stake * 95 \in Int
    BY <1>5, <2>1
  <2> QED BY <1>3, <2>2
<1>7. /\ DOMAIN slipSlips' = DOMAIN slipSlips
      /\ slipSlips'[id] \in Slips!Bet /\ slipSlips'[id].status = "settled"
      /\ slipSlips'[id].user = u
      /\ \A i \in DOMAIN slipSlips \ {id} : slipSlips'[i] = slipSlips[i]
  <2>1. PICK bet : bet = [b EXCEPT !.status = "settled", !.cashed = TRUE]
    OBVIOUS
  <2>2. bet \in Slips!Bet /\ bet.status = "settled" /\ bet.user = u
    BY <1>2, <1>5, <2>1 DEF Slips!Bet
  <2>3. slipSlips' = [slipSlips EXCEPT ![id] = bet]
    BY <1>1, <1>4, <2>1
  <2> QED BY <1>4, <2>2, <2>3
<1>8. /\ account' \in [Bettor -> Slips!Funds]
      /\ \A v \in Bettor \ {u} : account'[v].exposure = account[v].exposure
  <2>1. PICK rel : rel = Slips!Release(u, b.stake)
    OBVIOUS
  <2>2. rel \in [Bettor -> Slips!Funds] /\ \A v \in Bettor \ {u} : rel[v] = account[v]
    BY <1>0, <1>5, <2>1, Released
  <2>3. account' = [rel EXCEPT ![u].balance = @ + worth]
    BY <1>4, <2>1
  <2> QED BY <1>5, <1>6, <2>2, <2>3, PaidOut
<1>9. \A s : ~Pending(s)
  BY <1>4, NothingPending
<1>10. /\ TodoInv'
       /\ \A s : Pending(s)' <=>
            \/ s = Slips!AddLedger("cashout-release", id) \/ s = Slips!AddLedger("cashout", id)
  BY <1>4, <1>7, NewCashout
<1>11. /\ \A i : /\ ~Pending(Slips!SaveBet(i))' /\ ~Pending(Slips!UpdateBet(i))'
                 /\ ~Pending(Slips!UpdateBalance(i))'
       /\ \A t \in Closings : \A i : Pending(Slips!AddLedger(t, i))' <=> (t = "cashout" /\ i = id)
  BY <1>10, StatementsDiffer DEF Closings
<1>12. SlipTyped'
  <2>1. \A i \in DOMAIN slipSlips' : slipSlips'[i] \in Slips!Bet
    BY <1>0, <1>7, SlipFacts
  <2>2. \A i \in DOMAIN slipSlips' \cap DOMAIN slipRows : slipRows[i].user = slipSlips'[i].user
    BY <1>0, <1>1, <1>2, <1>7, SlipFacts
  <2>3. drifted' \subseteq Bettor /\ unsaved' \subseteq Slips!Id
    BY <1>0, <1>4, <1>5 DEF SlipTyped, Slips!BetRecordsTypeOK
  <2> QED BY <1>0, <1>4, <1>7, <1>8, <2>1, <2>2, <2>3 DEF SlipTyped, Slips!BetRecordsTypeOK
<1>13. PlacingInv'
  BY <1>0, <1>4, <1>7, <1>11 DEF PlacingInv
<1>14. ClosingInv'
  <2> SUFFICES ASSUME NEW i \in Slips!Id
               PROVE  /\ \A t1, t2 \in Closings : Ended(t1, i)' /\ Ended(t2, i)' => t1 = t2
                      /\ \A t \in Closings :
                           Ended(t, i)' => i <= placed /\ (i \in DOMAIN slipSlips' => slipSlips'[i].status # "matched")
                      /\ i \in DOMAIN slipSlips' \ unsaved' =>
                           /\ slipSlips'[i].status = "settled" => Ended("settlement", i)'
                           /\ slipSlips'[i].status = "void" => Ended("void", i)'
    BY <1>4 DEF ClosingInv
  <2>1. \A t \in Closings : Ended(t, i)' <=> Ended(t, i) \/ (t = "cashout" /\ i = id)
    BY <1>4, <1>9, <1>11 DEF Ended
  <2>2. {"settlement", "void"} \subseteq Closings
    BY DEF Closings
  <2>3. CASE i = id
    <3>1. \A t \in Closings : ~Ended(t, i)
      BY <1>0, <1>1, <1>4, <2>3 DEF ClosingInv
    <3>2. i <= placed
      BY <1>0, <1>4, <2>3, SlipFacts DEF SlipTyped
    <3> QED BY <1>4, <1>7, <2>1, <2>3, <3>1, <3>2
  <2>4. CASE i # id
    BY <1>0, <1>4, <1>7, <2>1, <2>2, <2>4 DEF ClosingInv
  <2> QED BY <2>3, <2>4
<1>18. drifted' = drifted \cup {u} /\ unsaved' = unsaved \cup {id}
  BY <1>4, Zenon
<1>15. Slips!ClosedIsPosted'
  BY <1>4 DEF SlipsInv, Slips!ClosedIsPosted
<1>16. KeptInv'
  <2> SUFFICES ASSUME NEW i \in DOMAIN slipSlips,
                      i \notin unsaved' \/ slipSlips'[i].user \notin drifted'
               PROVE  RowAsKept(i)'
    BY <1>7 DEF KeptInv
  <2>1. i # id
    <3>1. slipSlips'[id].user = u
      BY <1>7
    <3>2. u \in drifted' /\ id \in unsaved'
      BY <1>18
    <3> QED BY <3>1, <3>2
  <2>2. RowAsKept(i)
    BY <1>0, <1>4, <1>7, <2>1 DEF KeptInv
  <2> QED BY <1>4, <1>7, <1>9, <1>11, <2>1, <2>2 DEF RowAsKept
<1>17. HeldInv'
  <2> SUFFICES ASSUME NEW v \in Bettor, v \notin drifted'
               PROVE  account'[v].exposure = accountRow[v].exposure /\ account'[v].exposure = Held(v)'
    BY <1>4, <1>11 DEF HeldInv
  <2>1. v # u /\ v \notin drifted
    BY <1>4
  <2>2. account[v].exposure = accountRow[v].exposure /\ account[v].exposure = Held(v)
    BY <1>0, <1>9, <2>1 DEF HeldInv
  <2>3. Held(v)' = Held(v)
    BY <1>0, <1>4, HeldStays DEF HeldBets, Placing
  <2> QED BY <1>8, <2>1, <2>2, <2>3
<1> QED BY <1>10, <1>12, <1>13, <1>14, <1>15, <1>16, <1>17 DEF SlipsInv

-----------------------------------------------------------------------------

\* What every statement leaves alone, whether it is run or fails.
LEMMA StatementStart ==
  ASSUME SlipsInv, NEW s, s = Head(slipTodo), slipTodo # <<>>, slipTodo' = Tail(slipTodo),
         UNCHANGED <<slipSlips, account, placed, placing, slipReading>>
  PROVE  /\ TodoInv' /\ s \in SlipStatement /\ Pending(s) /\ s.bet \in DOMAIN slipSlips
         /\ \A x : Pending(x)' <=> Pending(x) /\ x # s
         /\ \A x : Pending(x) => x.bet = s.bet
         /\ s.do = "update" => \A x : Pending(x) => ~IsClosing(x)
         /\ s.do = "insert" => \A x : ~Pending(x)'
         /\ \A i : Placing(i)' <=> Placing(i)
         /\ slipSlips[s.bet].user \in Bettor
<1>1. TodoInv /\ SlipTyped
  BY DEF SlipsInv
<1>2. /\ TodoInv' /\ s \in SlipStatement /\ Pending(s)
      /\ \A x : Pending(x)' <=> Pending(x) /\ x # s
      /\ \A x : Pending(x) => x.bet = s.bet
      /\ s.do = "update" => \A x : Pending(x) => ~IsClosing(x)
      /\ s.do = "insert" => \A x : ~Pending(x)'
  BY <1>1, TodoShrinks
<1>3. s.bet \in DOMAIN slipSlips
  BY <1>2, StatementIs
<1>4. \A i : Placing(i)' <=> Placing(i)
  BY DEF Placing
<1> QED BY <1>1, <1>2, <1>3, <1>4, SlipFacts

\* The row of a new bet is filed: nothing else is written in its section.
LEMMA InsertKeeps ==
  ASSUME SlipsInv, NEW s, s = Head(slipTodo), slipTodo # <<>>, slipTodo' = Tail(slipTodo),
         s.do = "insert", slipRows' = Slips!Keep(slipRows, s.bet, slipSlips[s.bet]),
         UNCHANGED <<slipSlips, account, placed, placing, slipReading, slipPosted, accountRow,
                     drifted, unsaved>>
  PROVE  SlipsInv'
<1>1. PICK id : id = s.bet
  OBVIOUS
<1>0. SlipTyped /\ PlacingInv /\ HeldInv /\ KeptInv /\ ClosingInv
  BY DEF SlipsInv
<1>2. /\ TodoInv' /\ id \in DOMAIN slipSlips /\ Pending(Slips!SaveBet(id))
      /\ \A x : Pending(x) => x = Slips!SaveBet(id)
      /\ \A x : ~Pending(x)'
      /\ \A i : Placing(i)' <=> Placing(i)
  <2>1. s = Slips!SaveBet(id)
    BY <1>1, StatementStart, StatementIs
  <2> QED BY <1>1, <2>1, StatementStart
<1>3. /\ Placing(id) /\ slipSlips[id].status = "matched"
      /\ \A i : ~Pending(Slips!UpdateBet(i)) /\ ~Pending(Slips!UpdateBalance(i))
      /\ \A t, i : ~Pending(Slips!AddLedger(t, i))
      /\ \A i : i # id => ~Pending(Slips!SaveBet(i))
  BY <1>0, <1>2, StatementsDiffer DEF PlacingInv
<1>4. /\ DOMAIN slipRows' = DOMAIN slipRows \cup {id} /\ slipRows'[id] = slipSlips[id]
      /\ \A i \in DOMAIN slipRows : i # id => slipRows'[i] = slipRows[i]
  BY <1>1 DEF Slips!Keep
<1>5. /\ id \in Slips!Id /\ id \in 1..placed /\ slipSlips[id] \in Slips!Bet
  BY <1>0, <1>2, SlipFacts
<1>6. SlipTyped'
  BY <1>0, <1>4, <1>5 DEF SlipTyped, Slips!BetRecordsTypeOK
<1>7. PlacingInv'
  BY <1>0, <1>2 DEF PlacingInv
<1>8. ClosingInv'
  BY <1>0, <1>2, <1>3 DEF ClosingInv, Ended
<1>9. Slips!ClosedIsPosted'
  BY <1>3, <1>4 DEF SlipsInv, Slips!ClosedIsPosted
<1>10. KeptInv'
  <2> SUFFICES ASSUME NEW i \in DOMAIN slipSlips, i \notin unsaved \/ slipSlips[i].user \notin drifted
               PROVE  RowAsKept(i)'
    BY DEF KeptInv
  <2>1. RowAsKept(i)
    BY <1>0 DEF KeptInv
  <2>2. CASE i = id
    BY <1>2, <1>4, <2>2 DEF RowAsKept
  <2>3. CASE i # id
    BY <1>2, <1>3, <1>4, <2>1, <2>3 DEF RowAsKept
  <2> QED BY <2>2, <2>3
<1>11. HeldInv'
  <2>1. ASSUME NEW u PROVE Held(u)' = Held(u)
    <3>1. ASSUME NEW i PROVE i \in HeldBets(u)' <=> i \in HeldBets(u)
      BY <1>2, <1>3, <1>4 DEF HeldBets
    <3>2. \A i \in HeldBets(u) : slipRows'[i] = slipRows[i]
      BY <1>3, <1>4 DEF HeldBets
    <3> QED BY <1>0, <3>1, <3>2, HeldStays
  <2> QED BY <1>0, <1>2, <1>3, <2>1 DEF HeldInv
<1> QED BY <1>2, <1>6, <1>7, <1>8, <1>9, <1>10, <1>11 DEF SlipsInv

\* The row of a bet that ended changes: it holds nothing any more.
LEMMA UpdateKeeps ==
  ASSUME SlipsInv, NEW s, s = Head(slipTodo), slipTodo # <<>>, slipTodo' = Tail(slipTodo),
         s.do = "update", s.bet \in DOMAIN slipRows,
         slipRows' = Slips!Keep(slipRows, s.bet, slipSlips[s.bet]),
         UNCHANGED <<slipSlips, account, placed, placing, slipReading, slipPosted, accountRow,
                     drifted, unsaved>>
  PROVE  SlipsInv'
<1>1. PICK id : id = s.bet
  OBVIOUS
<1>0. SlipTyped /\ PlacingInv /\ HeldInv /\ KeptInv /\ ClosingInv
  BY DEF SlipsInv
<1>2. /\ TodoInv' /\ id \in DOMAIN slipSlips /\ Pending(Slips!UpdateBet(id))
      /\ s = Slips!UpdateBet(id)
      /\ \A x : Pending(x)' <=> Pending(x) /\ x # s
      /\ \A x : Pending(x) => x.bet = id /\ ~IsClosing(x)
      /\ \A i : Placing(i)' <=> Placing(i)
      /\ slipSlips[id].user \in Bettor
  <2>1. s = Slips!UpdateBet(id)
    BY <1>1, StatementStart, StatementIs
  <2> QED BY <1>1, <2>1, StatementStart
<1>3. /\ slipSlips[id].status # "matched" /\ ~Pending(Slips!SaveBet(id))
      /\ slipSlips[id].user \notin drifted => ~Placing(id)
  BY <1>0, <1>2 DEF PlacingInv
<1>4. /\ \A i : Pending(Slips!SaveBet(i))' <=> Pending(Slips!SaveBet(i))
      /\ \A i : Pending(Slips!UpdateBalance(i))' <=> Pending(Slips!UpdateBalance(i))
      /\ \A i : ~Pending(Slips!UpdateBet(i))'
      /\ \A i : Pending(Slips!UpdateBet(i)) => i = id
      /\ \A t \in Closings : \A i : ~Pending(Slips!AddLedger(t, i)) /\ ~Pending(Slips!AddLedger(t, i))'
  BY <1>2, StatementsDiffer DEF IsClosing
<1>5. /\ DOMAIN slipRows' = DOMAIN slipRows /\ slipRows'[id] = slipSlips[id] /\ id \in DOMAIN slipRows
      /\ \A i \in DOMAIN slipRows : i # id => slipRows'[i] = slipRows[i]
  BY <1>1 DEF Slips!Keep
<1>6. /\ id \in Slips!Id /\ id \in 1..placed /\ slipSlips[id] \in Slips!Bet
      /\ slipRows[id].user = slipSlips[id].user
  BY <1>0, <1>2, <1>5, SlipFacts
<1>7. SlipTyped'
  BY <1>0, <1>5, <1>6 DEF SlipTyped, Slips!BetRecordsTypeOK
<1>8. PlacingInv'
  BY <1>0, <1>2, <1>4 DEF PlacingInv
<1>9. \A t \in Closings : \A i :
        /\ Ended(t, i)' <=> Ended(t, i)
        /\ Ended(t, i) <=> [type |-> t, bet |-> i] \in slipPosted
  BY <1>4 DEF Ended
<1>10. ClosingInv'
  BY <1>0, <1>9 DEF ClosingInv, Closings
<1>11. Slips!ClosedIsPosted'
  <2> SUFFICES ASSUME NEW i \in DOMAIN slipRows, i \notin unsaved
               PROVE  /\ slipRows'[i].status = "settled" => [type |-> "settlement", bet |-> i] \in slipPosted
                      /\ slipRows'[i].status = "void" => [type |-> "void", bet |-> i] \in slipPosted
    BY <1>5 DEF Slips!ClosedIsPosted
  <2>1. CASE i = id
    <3>1. {"settlement", "void"} \subseteq Closings
      BY DEF Closings
    <3>2. /\ slipSlips[id].status = "settled" => Ended("settlement", id)
          /\ slipSlips[id].status = "void" => Ended("void", id)
      BY <1>0, <1>2, <1>6, <2>1 DEF ClosingInv
    <3> QED BY <1>5, <1>9, <2>1, <3>1, <3>2
  <2>2. CASE i # id
    BY <1>5, <2>2 DEF SlipsInv, Slips!ClosedIsPosted
  <2> QED BY <2>1, <2>2
<1>12. KeptInv'
  <2> SUFFICES ASSUME NEW i \in DOMAIN slipSlips, i \notin unsaved \/ slipSlips[i].user \notin drifted
               PROVE  RowAsKept(i)'
    BY DEF KeptInv
  <2>1. RowAsKept(i)
    BY <1>0 DEF KeptInv
  <2>2. CASE i = id
    BY <1>3, <1>4, <1>5, <2>2 DEF RowAsKept
  <2>3. CASE i # id
    BY <1>4, <1>5, <2>1, <2>3 DEF RowAsKept
  <2> QED BY <2>2, <2>3
<1>13. HeldInv'
  <2> SUFFICES ASSUME NEW v \in Bettor, v \notin drifted
               PROVE  /\ account[v].exposure = accountRow[v].exposure
                           \/ \E i \in DOMAIN slipSlips : Pending(Slips!UpdateBalance(i)) /\ slipSlips[i].user = v
                      /\ account[v].exposure = Held(v)'
    BY <1>4 DEF HeldInv
  <2>1. /\ account[v].exposure = accountRow[v].exposure
             \/ \E i \in DOMAIN slipSlips : Pending(Slips!UpdateBalance(i)) /\ slipSlips[i].user = v
        /\ v # slipSlips[id].user => account[v].exposure = Held(v)
        /\ v = slipSlips[id].user => account[v].exposure = Held(v) - Slips!HoldAmount(slipSlips[id])
    BY <1>0, <1>2, <1>4 DEF HeldInv
  <2>2. CASE v # slipSlips[id].user
    <3>1. ASSUME NEW i PROVE i \in HeldBets(v)' <=> i \in HeldBets(v)
      BY <1>2, <1>5, <1>6, <2>2 DEF HeldBets
    <3>2. \A i \in HeldBets(v) : slipRows'[i] = slipRows[i]
      BY <1>5, <1>6, <2>2 DEF HeldBets
    <3>3. Held(v)' = Held(v)
      BY <1>0, <3>1, <3>2, HeldStays
    <3> QED BY <2>1, <2>2, <3>3
  <2>3. CASE v = slipSlips[id].user
    <3>1. slipRows[id] = [slipSlips[id] EXCEPT !.status = "matched"]
      BY <1>0, <1>2, <1>3, <2>3 DEF KeptInv, RowAsKept
    <3>2. slipRows[id].status = "matched" /\ Slips!HoldAmount(slipRows[id]) = Slips!HoldAmount(slipSlips[id])
      <4>1. [slipSlips[id] EXCEPT !.status = "matched"].status = "matched"
        BY <1>6 DEF Slips!Bet
      <4> QED BY <1>6, <3>1, <4>1, HoldTyped
    <3>3. id \in HeldBets(v)
      BY <1>3, <1>5, <1>6, <2>3, <3>2 DEF HeldBets
    <3>4. ASSUME NEW i PROVE i \in HeldBets(v)' <=> i \in HeldBets(v) /\ i # id
      BY <1>2, <1>3, <1>5 DEF HeldBets
    <3>5. \A i \in HeldBets(v) : i # id => slipRows'[i] = slipRows[i]
      BY <1>5 DEF HeldBets
    <3>6. Held(v)' = Held(v) - Slips!HoldAmount(slipRows[id])
      BY <1>0, <3>3, <3>4, <3>5, HeldShrinks
    <3> QED BY <2>1, <2>3, <3>2, <3>6
  <2> QED BY <2>1, <2>2, <2>3
<1> QED BY <1>2, <1>7, <1>8, <1>10, <1>11, <1>12, <1>13 DEF SlipsInv

\* There is no row to change: the insert has failed, which is known.
LEMMA NoRowKeeps ==
  ASSUME SlipsInv, NEW s, s = Head(slipTodo), slipTodo # <<>>, slipTodo' = Tail(slipTodo),
         s.do = "update", s.bet \notin DOMAIN slipRows,
         UNCHANGED <<slipSlips, slipRows, account, placed, placing, slipReading, slipPosted,
                     accountRow, drifted, unsaved>>
  PROVE  SlipsInv'
<1>1. PICK id : id = s.bet
  OBVIOUS
<1>0. SlipTyped /\ PlacingInv /\ HeldInv /\ KeptInv /\ ClosingInv
  BY DEF SlipsInv
<1>2. /\ TodoInv' /\ id \in DOMAIN slipSlips /\ Pending(Slips!UpdateBet(id))
      /\ s = Slips!UpdateBet(id)
      /\ \A x : Pending(x)' <=> Pending(x) /\ x # s
      /\ \A x : Pending(x) => x.bet = id
      /\ \A i : Placing(i)' <=> Placing(i)
  <2>1. s = Slips!UpdateBet(id)
    BY <1>1, StatementStart, StatementIs
  <2> QED BY <1>1, <2>1, StatementStart
<1>3. /\ \A i : Pending(Slips!SaveBet(i))' <=> Pending(Slips!SaveBet(i))
      /\ \A i : Pending(Slips!UpdateBalance(i))' <=> Pending(Slips!UpdateBalance(i))
      /\ \A i : ~Pending(Slips!UpdateBet(i))'
      /\ \A i : Pending(Slips!UpdateBet(i)) => i = id
      /\ \A t, i : Pending(Slips!AddLedger(t, i))' <=> Pending(Slips!AddLedger(t, i))
  BY <1>2, StatementsDiffer
<1>4. id \in unsaved /\ slipSlips[id].user \in drifted
  <2>1. ~RowAsKept(id)
    BY <1>0, <1>1, <1>2 DEF RowAsKept, PlacingInv
  <2> QED BY <1>0, <1>2, <2>1 DEF KeptInv
<1>5. SlipTyped'
  BY <1>0 DEF SlipTyped, Slips!BetRecordsTypeOK
<1>6. PlacingInv'
  BY <1>0, <1>2, <1>3 DEF PlacingInv
<1>7. ClosingInv' /\ Slips!ClosedIsPosted'
  BY <1>3 DEF SlipsInv, ClosingInv, Ended, Slips!ClosedIsPosted
<1>8. KeptInv'
  BY <1>0, <1>3, <1>4 DEF KeptInv, RowAsKept
<1>9. HeldInv'
  <2>1. ASSUME NEW u PROVE Held(u)' = Held(u)
    BY <1>0, <1>2, HeldStays DEF HeldBets
  <2> QED BY <1>0, <1>3, <1>4, <2>1 DEF HeldInv
<1> QED BY <1>2, <1>5, <1>6, <1>7, <1>8, <1>9 DEF SlipsInv

\* What is posted was about to be.
LEMMA LedgerKeeps ==
  ASSUME SlipsInv, NEW s, s = Head(slipTodo), slipTodo # <<>>, slipTodo' = Tail(slipTodo),
         s.do = "ledger", slipPosted' = slipPosted \cup {[type |-> s.type, bet |-> s.bet]},
         UNCHANGED <<slipSlips, slipRows, account, placed, placing, slipReading, accountRow,
                     drifted, unsaved>>
  PROVE  SlipsInv'
<1>1. PICK id : id = s.bet
  OBVIOUS
<1>0. SlipTyped /\ PlacingInv /\ HeldInv /\ KeptInv /\ ClosingInv
  BY DEF SlipsInv
<1>2. /\ TodoInv' /\ id \in DOMAIN slipSlips /\ Pending(s) /\ s.type \in LedgerType
      /\ s = Slips!AddLedger(s.type, id)
      /\ \A x : Pending(x)' <=> Pending(x) /\ x # s
      /\ \A i : Placing(i)' <=> Placing(i)
  <2>1. s = Slips!AddLedger(s.type, id) /\ s.type \in LedgerType
    BY <1>1, StatementStart, StatementIs
  <2> QED BY <1>1, <2>1, StatementStart
<1>3. /\ \A i : Pending(Slips!SaveBet(i))' <=> Pending(Slips!SaveBet(i))
      /\ \A i : Pending(Slips!UpdateBalance(i))' <=> Pending(Slips!UpdateBalance(i))
      /\ \A i : Pending(Slips!UpdateBet(i))' <=> Pending(Slips!UpdateBet(i))
  BY <1>2, StatementsDiffer
<1>4. ASSUME NEW t, NEW i PROVE Ended(t, i)' <=> Ended(t, i)
  <2>1. CASE t = s.type /\ i = id
    BY <1>1, <1>2, <2>1 DEF Ended
  <2>2. CASE ~(t = s.type /\ i = id)
    <3>1. Slips!AddLedger(t, i) # s
      BY <1>2, <2>2, StatementsDiffer
    <3>2. [type |-> t, bet |-> i] \in slipPosted' <=> [type |-> t, bet |-> i] \in slipPosted
      BY <1>1, <2>2
    <3> QED BY <1>2, <3>1, <3>2 DEF Ended
  <2> QED BY <2>1, <2>2
<1>5. SlipTyped'
  <2>1. [type |-> s.type, bet |-> id] \in [type : LedgerType, bet : 1..placed]
    BY <1>0, <1>2, SlipFacts
  <2> QED BY <1>0, <1>1, <2>1 DEF SlipTyped, Slips!BetRecordsTypeOK
<1>6. PlacingInv'
  BY <1>0, <1>2, <1>3 DEF PlacingInv
<1>7. ClosingInv'
  BY <1>0, <1>4 DEF ClosingInv
<1>8. Slips!ClosedIsPosted'
  BY DEF SlipsInv, Slips!ClosedIsPosted
<1>9. KeptInv'
  BY <1>0, <1>3 DEF KeptInv, RowAsKept
<1>10. HeldInv'
  <2>1. ASSUME NEW u PROVE Held(u)' = Held(u)
    BY <1>0, <1>2, HeldStays DEF HeldBets
  <2> QED BY <1>0, <1>3, <2>1 DEF HeldInv
<1> QED BY <1>2, <1>5, <1>6, <1>7, <1>8, <1>9, <1>10 DEF SlipsInv

\* A user's row is written from memory.
LEMMA BalanceKeeps ==
  ASSUME SlipsInv, NEW s, s = Head(slipTodo), slipTodo # <<>>, slipTodo' = Tail(slipTodo),
         s.do = "balance", NEW w, w = slipSlips[s.bet].user,
         accountRow' = [accountRow EXCEPT ![w] = account[w]],
         UNCHANGED <<slipSlips, slipRows, account, placed, placing, slipReading, slipPosted,
                     drifted, unsaved>>
  PROVE  SlipsInv'
<1>1. PICK id : id = s.bet
  OBVIOUS
<1>0. SlipTyped /\ PlacingInv /\ HeldInv /\ KeptInv /\ ClosingInv
  BY DEF SlipsInv
<1>2. /\ TodoInv' /\ id \in DOMAIN slipSlips /\ w \in Bettor
      /\ s = Slips!UpdateBalance(id)
      /\ \A x : Pending(x)' <=> Pending(x) /\ x # s
      /\ \A x : Pending(x) => x.bet = id
      /\ \A i : Placing(i)' <=> Placing(i)
  <2>1. s = Slips!UpdateBalance(id)
    BY <1>1, StatementStart, StatementIs
  <2> QED BY <1>1, <2>1, StatementStart
<1>3. /\ \A i : Pending(Slips!SaveBet(i))' <=> Pending(Slips!SaveBet(i))
      /\ \A i : ~Pending(Slips!UpdateBalance(i))'
      /\ \A i : Pending(Slips!UpdateBalance(i)) => i = id
      /\ \A i : Pending(Slips!UpdateBet(i)) => i = id
      /\ \A i : Pending(Slips!UpdateBet(i))' <=> Pending(Slips!UpdateBet(i))
      /\ \A t, i : Pending(Slips!AddLedger(t, i))' <=> Pending(Slips!AddLedger(t, i))
  BY <1>2, StatementsDiffer
<1>4. /\ accountRow' \in [Bettor -> Slips!Funds] /\ accountRow'[w] = account[w]
      /\ \A v \in Bettor \ {w} : accountRow'[v] = accountRow[v]
  BY <1>0, <1>2 DEF SlipTyped, Slips!BetRecordsTypeOK
<1>5. SlipTyped'
  BY <1>0, <1>4 DEF SlipTyped, Slips!BetRecordsTypeOK
<1>6. PlacingInv'
  BY <1>0, <1>2, <1>3 DEF PlacingInv
<1>7. ClosingInv' /\ Slips!ClosedIsPosted'
  BY <1>3 DEF SlipsInv, ClosingInv, Ended, Slips!ClosedIsPosted
<1>8. KeptInv'
  BY <1>0, <1>3 DEF KeptInv, RowAsKept
<1>9. HeldInv'
  <2>1. ASSUME NEW u PROVE Held(u)' = Held(u)
    BY <1>0, <1>2, HeldStays DEF HeldBets
  <2>2. ASSUME NEW v \in Bettor, v \notin drifted
        PROVE  account[v].exposure = accountRow'[v].exposure
    BY <1>0, <1>1, <1>3, <1>4, <2>2 DEF HeldInv
  <2> QED BY <1>0, <1>3, <2>1, <2>2 DEF HeldInv
<1> QED BY <1>2, <1>5, <1>6, <1>7, <1>8, <1>9 DEF SlipsInv

\* What fails is known to have.
LEMMA FailureKeeps ==
  ASSUME SlipsInv, Slips!StatementFails
  PROVE  SlipsInv'
<1>1. PICK s : s = Head(slipTodo)
  OBVIOUS
<1>2. PICK id : id = s.bet
  OBVIOUS
<1>0. SlipTyped /\ PlacingInv /\ HeldInv /\ KeptInv /\ ClosingInv
  BY DEF SlipsInv
<1>3. /\ slipTodo # <<>> /\ slipTodo' = Tail(slipTodo)
      /\ drifted' = IF s.do = "ledger" THEN drifted ELSE drifted \cup {slipSlips[id].user}
      /\ unsaved' = IF s.do = "balance" THEN unsaved ELSE unsaved \cup {id}
      /\ UNCHANGED <<slipSlips, slipRows, slipPosted, account, accountRow, placed, placing,
                     slipReading>>
  BY <1>1, <1>2 DEF Slips!StatementFails
<1>4. /\ TodoInv' /\ s \in SlipStatement /\ id \in DOMAIN slipSlips /\ Pending(s)
      /\ \A x : Pending(x)' <=> Pending(x) /\ x # s
      /\ \A x : Pending(x) => x.bet = id
      /\ \A i : Placing(i)' <=> Placing(i)
      /\ slipSlips[id].user \in Bettor
  BY <1>1, <1>2, <1>3, StatementStart
<1>5. /\ s.do \in {"insert", "update", "balance", "ledger"}
      /\ \A x : x.bet # id => (Pending(x)' <=> Pending(x))
      /\ \A i : i # id => /\ ~Pending(Slips!SaveBet(i)) /\ ~Pending(Slips!UpdateBet(i))
                          /\ ~Pending(Slips!UpdateBalance(i))
                          /\ \A t : ~Pending(Slips!AddLedger(t, i))
  BY <1>2, <1>4, StatementIs, StatementsDiffer
<1>6. /\ drifted \subseteq drifted' /\ drifted' \subseteq Bettor
      /\ unsaved \subseteq unsaved' /\ unsaved' \subseteq Slips!Id
  <2>1. drifted \subseteq Bettor /\ unsaved \subseteq Slips!Id /\ id \in Slips!Id
    BY <1>0, <1>4, SlipFacts DEF SlipTyped, Slips!BetRecordsTypeOK
  <2> QED BY <1>3, <1>4, <2>1
<1>7. SlipTyped'
  BY <1>0, <1>3, <1>6 DEF SlipTyped, Slips!BetRecordsTypeOK
<1>8. PlacingInv'
  BY <1>0, <1>3, <1>4, <1>6 DEF PlacingInv
<1>9. ClosingInv'
  <2> SUFFICES ASSUME NEW i \in Slips!Id
               PROVE  /\ \A t1, t2 \in Closings : Ended(t1, i)' /\ Ended(t2, i)' => t1 = t2
                      /\ \A t \in Closings :
                           Ended(t, i)' => i <= placed /\ (i \in DOMAIN slipSlips => slipSlips[i].status # "matched")
                      /\ i \in DOMAIN slipSlips \ unsaved' =>
                           /\ slipSlips[i].status = "settled" => Ended("settlement", i)'
                           /\ slipSlips[i].status = "void" => Ended("void", i)'
    BY <1>3 DEF ClosingInv
  <2>1. \A t : Ended(t, i)' => Ended(t, i)
    BY <1>3, <1>4 DEF Ended
  <2>2. ASSUME i \notin unsaved', NEW t, Ended(t, i) PROVE Ended(t, i)'
    <3>1. CASE i = id
      <4>1. s.do = "balance"
        BY <1>3, <2>2, <3>1
      <4>2. Slips!AddLedger(t, i) # s
        BY <4>1, StatementsDiffer
      <4> QED BY <1>3, <1>4, <2>2, <4>2 DEF Ended
    <3>2. CASE i # id
      BY <1>3, <1>5, <2>2, <3>2 DEF Ended
    <3> QED BY <3>1, <3>2
  <2> QED BY <1>0, <1>6, <2>1, <2>2 DEF ClosingInv
<1>10. Slips!ClosedIsPosted'
  BY <1>3, <1>6 DEF SlipsInv, Slips!ClosedIsPosted
<1>11. KeptInv'
  <2> SUFFICES ASSUME NEW i \in DOMAIN slipSlips, i \notin unsaved' \/ slipSlips[i].user \notin drifted'
               PROVE  RowAsKept(i)'
    BY <1>3 DEF KeptInv
  <2>1. RowAsKept(i)
    BY <1>0, <1>6 DEF KeptInv
  <2>2. /\ Pending(Slips!SaveBet(i))' <=> Pending(Slips!SaveBet(i))
        /\ Pending(Slips!UpdateBet(i))' <=> Pending(Slips!UpdateBet(i))
    <3>1. CASE i = id
      <4>1. s.do = "ledger" \/ s.do = "balance"
        BY <1>3, <1>5, <3>1
      <4>2. Slips!SaveBet(i) # s /\ Slips!UpdateBet(i) # s
        BY <4>1, StatementsDiffer
      <4> QED BY <1>4, <4>2
    <3>2. CASE i # id
      BY <1>4, <1>5, <3>2
    <3> QED BY <3>1, <3>2
  <2> QED BY <1>3, <2>1, <2>2 DEF RowAsKept
<1>12. HeldInv'
  <2>1. ASSUME NEW u PROVE Held(u)' = Held(u)
    BY <1>0, <1>3, <1>4, HeldStays DEF HeldBets
  <2>2. CASE s.do = "ledger"
    <3>1. \A i : /\ Slips!UpdateBet(i) # s /\ Slips!UpdateBalance(i) # s
      BY <2>2, StatementsDiffer
    <3>2. \A i : /\ Pending(Slips!UpdateBet(i))' <=> Pending(Slips!UpdateBet(i))
                 /\ Pending(Slips!UpdateBalance(i))' <=> Pending(Slips!UpdateBalance(i))
      BY <1>4, <3>1
    <3> QED BY <1>0, <1>3, <2>1, <2>2, <3>2 DEF HeldInv
  <2>3. CASE s.do # "ledger"
    <3> SUFFICES ASSUME NEW v \in Bettor, v \notin drifted'
                 PROVE  account[v].exposure = accountRow[v].exposure /\ account[v].exposure = Held(v)
      <4>1. \A i : i # id => ~Pending(Slips!UpdateBet(i))' /\ ~Pending(Slips!UpdateBalance(i))'
        BY <1>4, <1>5
      <4>2. slipSlips[id].user \in drifted'
        BY <1>3, <2>3
      <4> QED BY <1>3, <2>1, <4>1, <4>2 DEF HeldInv
    <3>1. v # slipSlips[id].user /\ v \notin drifted
      BY <1>3, <2>3
    <3> QED BY <1>0, <1>5, <3>1 DEF HeldInv
  <2> QED BY <2>2, <2>3
<1> QED BY <1>4, <1>7, <1>8, <1>9, <1>10, <1>11, <1>12 DEF SlipsInv

LEMMA StatementKeeps ==
  ASSUME SlipsInv, Slips!Statement
  PROVE  SlipsInv'
<1>1. PICK s : s = Head(slipTodo)
  OBVIOUS
<1>2. /\ slipTodo # <<>> /\ slipTodo' = Tail(slipTodo) /\ Slips!Written(s)
      /\ UNCHANGED <<slipSlips, account, placed, placing, slipReading, drifted, unsaved>>
  BY <1>1 DEF Slips!Statement
<1>3. CASE s.do = "insert" /\ slipRows' = Slips!Keep(slipRows, s.bet, slipSlips[s.bet])
             /\ UNCHANGED <<slipPosted, accountRow>>
  BY <1>1, <1>2, <1>3, InsertKeeps
<1>4. CASE s.do = "update" /\ s.bet \in DOMAIN slipRows
             /\ slipRows' = Slips!Keep(slipRows, s.bet, slipSlips[s.bet])
             /\ UNCHANGED <<slipPosted, accountRow>>
  BY <1>1, <1>2, <1>4, UpdateKeeps
<1>5. CASE s.do = "update" /\ s.bet \notin DOMAIN slipRows
             /\ UNCHANGED <<slipRows, slipPosted, accountRow>>
  BY <1>1, <1>2, <1>5, NoRowKeeps
<1>6. CASE s.do = "ledger" /\ slipPosted' = slipPosted \cup {[type |-> s.type, bet |-> s.bet]}
             /\ UNCHANGED <<slipRows, accountRow>>
  BY <1>1, <1>2, <1>6, LedgerKeeps
<1>7. CASE /\ s.do = "balance"
           /\ accountRow' = [accountRow EXCEPT ![slipSlips[s.bet].user] = account[slipSlips[s.bet].user]]
           /\ UNCHANGED <<slipRows, slipPosted>>
  BY <1>1, <1>2, <1>7, BalanceKeeps
<1> QED BY <1>2, <1>3, <1>4, <1>5, <1>6, <1>7 DEF Slips!Written

\* What would be lost of a bet if the process died now.
LEMMA UnwrittenIs ==
  ASSUME SlipTyped, PlacingInv, NEW id, NEW X, X = Slips!Unwritten(id)
  PROVE  \A x : x \in X <=> \/ Pending(x) /\ x.bet = id /\ x.do # "ledger"
                            \/ x = Slips!UpdateBalance(id) /\ Placing(id)
<1>1. X = {s \in Slips!Range(slipTodo) : s.bet = id /\ s.do # "ledger"}
            \cup {Slips!UpdateBalance(placing[p]) : p \in {q \in Placer : placing[q] = id}}
  BY DEF Slips!Unwritten
<1>2. \A x : x \in Slips!Range(slipTodo) <=> Pending(x)
  BY DEF Slips!Range, Pending
<1>3. \A x : x \in {Slips!UpdateBalance(placing[p]) : p \in {q \in Placer : placing[q] = id}}
               <=> x = Slips!UpdateBalance(id) /\ Placing(id)
  BY DEF Placing
<1> QED BY <1>1, <1>2, <1>3

\* A user whom a restart does not make drift has for each bet nothing or two things unwritten.
LEMMA NotHalfWritten ==
  ASSUME SlipTyped, PlacingInv, NEW id \in DOMAIN slipSlips,
         id \notin Slips!HalfWritten, NEW X, X = Slips!Unwritten(id), NEW x \in X
  PROVE  \E y \in X : y # x
<1> SUFFICES ASSUME \A y \in X : y = x PROVE FALSE
  OBVIOUS
<1>1. X = {x}
  OBVIOUS
<1>2. Cardinality(X) = 1
  BY <1>1, FS_Singleton
<1>3. Slips!Cardinality(Slips!Unwritten(id)) = 1
  BY <1>2, SlipCard
<1> QED BY <1>3 DEF Slips!HalfWritten

\* After a restart a user who has not drifted has on hold what the rows hold.
LEMMA HeldThroughRestart ==
  ASSUME SlipsInv, NEW v \in Bettor, v \notin drifted,
         \A id \in Slips!HalfWritten : slipSlips[id].user # v
  PROVE  /\ accountRow[v].exposure = Held(v)
         /\ \A id \in DOMAIN slipRows : slipRows[id].user = v => ~Placing(id)
<1>0. SlipTyped /\ PlacingInv /\ HeldInv /\ KeptInv /\ TodoInv
  BY DEF SlipsInv
<1>1. ASSUME NEW id \in DOMAIN slipSlips, slipSlips[id].user = v,
             NEW x, \/ Pending(x) /\ x.bet = id /\ x.do # "ledger"
                    \/ x = Slips!UpdateBalance(id) /\ Placing(id)
      PROVE  \E y : y # x /\ \/ Pending(y) /\ y.bet = id /\ y.do # "ledger"
                             \/ y = Slips!UpdateBalance(id) /\ Placing(id)
  <2>1. PICK X : X = Slips!Unwritten(id)
    OBVIOUS
  <2>2. \A y : y \in X <=> \/ Pending(y) /\ y.bet = id /\ y.do # "ledger"
                           \/ y = Slips!UpdateBalance(id) /\ Placing(id)
    BY <1>0, <2>1, UnwrittenIs
  <2>3. \E y \in X : y # x
    BY <1>0, <1>1, <2>1, <2>2, NotHalfWritten
  <2> QED BY <2>2, <2>3
<1>2. ASSUME NEW x, Pending(x)
      PROVE  /\ x.bet \in DOMAIN slipSlips /\ x.do \in {"insert", "update", "balance", "ledger"}
             /\ x.do = "insert" => x = Slips!SaveBet(x.bet)
             /\ x.do = "update" => x = Slips!UpdateBet(x.bet)
             /\ x.do = "balance" => x = Slips!UpdateBalance(x.bet)
  <2>1. x \in SlipStatement
    BY <1>0, <1>2 DEF TodoInv, Pending
  <2> QED BY <2>1, StatementIs
<1>3. ASSUME NEW i \in DOMAIN slipSlips, Pending(Slips!SaveBet(i)), NEW y, Pending(y)
      PROVE  y = Slips!SaveBet(i)
  BY <1>0, <1>3, StatementsDiffer DEF TodoInv, Pending
<1>4. ASSUME NEW id \in DOMAIN slipRows, slipRows[id].user = v, Placing(id)
      PROVE  FALSE
  <2>1. id \in DOMAIN slipSlips /\ slipSlips[id].user = v
    <3>1. id # Slips!None
      BY <1>0, SlipFacts DEF Slips!None
    <3> QED BY <1>0, <1>4, <3>1, SlipFacts DEF PlacingInv, Placing
  <2>2. PICK y : y # Slips!UpdateBalance(id) /\ Pending(y) /\ y.bet = id /\ y.do # "ledger"
    BY <1>1, <1>4, <2>1
  <2>3. y = Slips!SaveBet(id) \/ y = Slips!UpdateBet(id)
    BY <1>2, <2>2
  <2>4. CASE y = Slips!SaveBet(id)
    BY <1>0, <1>4, <2>1, <2>2, <2>4 DEF KeptInv, RowAsKept
  <2>5. CASE y = Slips!UpdateBet(id)
    BY <1>0, <1>4, <2>1, <2>2, <2>5 DEF PlacingInv
  <2> QED BY <2>3, <2>4, <2>5
<1>5. accountRow[v].exposure = Held(v)
  <2>1. CASE \E id \in DOMAIN slipSlips : Pending(Slips!UpdateBet(id)) /\ slipSlips[id].user = v
    <3>1. PICK id \in DOMAIN slipSlips : Pending(Slips!UpdateBet(id)) /\ slipSlips[id].user = v
      BY <2>1
    <3>2. ~Placing(id) /\ ~Pending(Slips!SaveBet(id))
      BY <1>0, <3>1 DEF PlacingInv
    <3>3. PICK y : y # Slips!UpdateBet(id) /\ Pending(y) /\ y.bet = id /\ y.do # "ledger"
      BY <1>1, <3>1, <3>2, StatementsDiffer
    <3>4. Pending(Slips!UpdateBalance(id))
      BY <1>2, <3>2, <3>3
    <3> QED BY <1>0, <3>1, <3>4 DEF HeldInv
  <2>2. CASE ~ \E id \in DOMAIN slipSlips : Pending(Slips!UpdateBet(id)) /\ slipSlips[id].user = v
    <3>1. ASSUME NEW id \in DOMAIN slipSlips, Pending(Slips!UpdateBalance(id)), slipSlips[id].user = v
          PROVE  FALSE
      <4>1. PICK y : y # Slips!UpdateBalance(id) /\ Pending(y) /\ y.bet = id /\ y.do # "ledger"
        BY <1>1, <3>1, StatementsDiffer
      <4>2. y = Slips!SaveBet(id) \/ y = Slips!UpdateBet(id)
        BY <1>2, <4>1
      <4>3. y = Slips!SaveBet(id)
        BY <2>2, <3>1, <4>1, <4>2
      <4>4. Slips!UpdateBalance(id) = Slips!SaveBet(id)
        BY <1>3, <3>1, <4>1, <4>3
      <4> QED BY <4>4, StatementsDiffer
    <3> QED BY <1>0, <2>2, <3>1 DEF HeldInv
  <2> QED BY <2>1, <2>2
<1> QED BY <1>4, <1>5

\* The bets are forgotten and the users read back.
LEMMA RestartSlipKeeps ==
  ASSUME SlipsInv, Slips!Restart
  PROVE  SlipsInv'
<1>0. SlipTyped /\ PlacingInv /\ HeldInv /\ KeptInv /\ ClosingInv
  BY DEF SlipsInv
<1>1. /\ drifted' = drifted \cup {slipSlips[id].user : id \in Slips!HalfWritten}
      /\ slipSlips' = <<>> /\ account' = accountRow /\ slipTodo' = <<>>
      /\ placing' = [p \in Placer |-> Slips!None]
      /\ slipReading' = [r \in RowReader |-> Slips!NotReading]
      /\ UNCHANGED <<slipRows, slipPosted, accountRow, placed, unsaved>>
  BY DEF Slips!Restart, Slips!NoBets
<1>2. DOMAIN slipSlips' = {}
  BY <1>1
<1>3. \A s : ~Pending(s)'
  BY <1>1 DEF Pending
<1>4. \A id : Placing(id)' => id = Slips!None
  BY <1>1 DEF Placing
<1>5. SlipTyped'
  <2>1. drifted' \subseteq Bettor
    <3>1. \A id \in Slips!HalfWritten : slipSlips[id].user \in Bettor
      BY <1>0, SlipFacts DEF Slips!HalfWritten
    <3>2. drifted \subseteq Bettor
      BY <1>0 DEF SlipTyped, Slips!BetRecordsTypeOK
    <3> QED BY <1>1, <3>1, <3>2
  <2> QED BY <1>0, <1>1, <1>2, <2>1 DEF SlipTyped, Slips!BetRecordsTypeOK
<1>6. TodoInv'
  BY <1>1 DEF TodoInv
<1>7. PlacingInv'
  BY <1>1, <1>2 DEF PlacingInv
<1>8. ClosingInv'
  <2>1. \A t, i : Ended(t, i)' => Ended(t, i)
    BY <1>1, <1>3 DEF Ended
  <2> QED BY <1>0, <1>1, <1>2, <2>1 DEF ClosingInv
<1>9. Slips!ClosedIsPosted' /\ KeptInv'
  BY <1>1, <1>2 DEF SlipsInv, Slips!ClosedIsPosted, KeptInv
<1>10. HeldInv'
  <2> SUFFICES ASSUME NEW v \in Bettor, v \notin drifted'
               PROVE  accountRow[v].exposure = Held(v)'
    BY <1>1, <1>2 DEF HeldInv
  <2>1. v \notin drifted /\ \A id \in Slips!HalfWritten : slipSlips[id].user # v
    BY <1>1
  <2>2. /\ accountRow[v].exposure = Held(v)
        /\ \A id \in DOMAIN slipRows : slipRows[id].user = v => ~Placing(id)
    BY <2>1, HeldThroughRestart
  <2>3. \A id \in DOMAIN slipRows : id # Slips!None
    BY <1>0, SlipFacts DEF Slips!None
  <2>4. ASSUME NEW i PROVE i \in HeldBets(v)' <=> i \in HeldBets(v)
    BY <1>1, <1>4, <2>2, <2>3 DEF HeldBets
  <2>5. Held(v)' = Held(v)
    BY <1>0, <1>1, <2>4, HeldStays
  <2> QED BY <2>2, <2>5
<1> QED BY <1>5, <1>6, <1>7, <1>8, <1>9, <1>10 DEF SlipsInv

-----------------------------------------------------------------------------

LEMMA SlipsStart ==
  ASSUME Slips!InitRecords
  PROVE  SlipsInv
<1>1. /\ slipSlips = <<>> /\ slipRows = <<>> /\ slipPosted = {} /\ accountRow = account
      /\ account = [u \in Bettor |-> [balance |-> BettorOpening, exposure |-> 0]]
      /\ slipTodo = <<>> /\ placed = 0 /\ placing = [p \in Placer |-> Slips!None]
      /\ slipReading = [r \in RowReader |-> Slips!NotReading]
      /\ drifted = {} /\ unsaved = {}
  BY DEF Slips!InitRecords
<1>2. DOMAIN slipSlips = {} /\ DOMAIN slipRows = {}
  BY <1>1
<1>3. \A s : ~Pending(s)
  BY <1>1, NothingPending
<1>4. SlipTyped
  <2>1. account \in [Bettor -> Slips!Funds] /\ \A u \in Bettor : account[u].exposure = 0
    BY <1>1, RecordsAssumption DEF Slips!Funds, RecordsAssumption
  <2>2. 0 \in 0..MaxRecordedBets
    BY RecordsAssumption DEF RecordsAssumption
  <2> QED BY <1>1, <1>2, <2>1, <2>2 DEF SlipTyped, Slips!BetRecordsTypeOK
<1>5. TodoInv /\ PlacingInv /\ KeptInv /\ Slips!ClosedIsPosted
  BY <1>1, <1>2 DEF TodoInv, PlacingInv, KeptInv, Slips!ClosedIsPosted
<1>6. ClosingInv
  BY <1>1, <1>2, <1>3 DEF ClosingInv, Ended
<1>7. HeldInv
  <2>1. ASSUME NEW u PROVE Held(u) = 0
    <3>1. HeldBets(u) = {}
      BY <1>2 DEF HeldBets
    <3> QED BY <1>4, <3>1, HeldTyped, SumEmpty
  <2> QED BY <1>1, <1>2, <2>1 DEF HeldInv
<1> QED BY <1>4, <1>5, <1>6, <1>7 DEF SlipsInv

LEMMA SlipsStep ==
  ASSUME SlipsInv, [Slips!RecordNext]_Slips!recordVars
  PROVE  SlipsInv'
<1>1. ASSUME NEW p \in Placer, Slips!HoldFunds(p) PROVE SlipsInv'
  BY <1>1, HoldFundsKeeps
<1>2. ASSUME NEW p \in Placer, Slips!HoldFails(p) PROVE SlipsInv'
  BY <1>2, HoldFailsKeeps
<1>3. ASSUME NEW p \in Placer, NEW b \in Slips!NewBet, Slips!PlaceAndMatch(p, b) PROVE SlipsInv'
  BY <1>3, PlaceBetKeeps
<1>4. ASSUME NEW id \in Slips!Id, Slips!SettleBet(id) PROVE SlipsInv'
  BY <1>4, SettleSlipKeeps
<1>5. ASSUME NEW id \in Slips!Id, Slips!VoidBet(id) PROVE SlipsInv'
  BY <1>5, VoidSlipKeeps
<1>6. ASSUME NEW id \in Slips!Id, Slips!CashoutAccept(id) PROVE SlipsInv'
  BY <1>6, CashoutSlipKeeps
<1>7. ASSUME \/ \E how, winner : Slips!CloseMarket(how, winner)
             \/ Slips!AllClosed
             \/ \E r \in RowReader, u \in Bettor : Slips!ReadBalance(r, u)
             \/ \E r \in RowReader : Slips!SyncBalance(r)
             \/ UNCHANGED slipsVars
      PROVE  SlipsInv'
  BY <1>7, QuietKeeps
<1>8. ASSUME Slips!Statement \/ Slips!StatementFails \/ Slips!Restart PROVE SlipsInv'
  BY <1>8, StatementKeeps, FailureKeeps, RestartSlipKeeps
<1>9. ASSUME UNCHANGED Slips!recordVars PROVE UNCHANGED slipsVars
  BY <1>9 DEF Slips!recordVars, slipsVars
<1> QED BY <1>1, <1>2, <1>3, <1>4, <1>5, <1>6, <1>7, <1>8, <1>9 DEF Slips!RecordNext

-----------------------------------------------------------------------------

LEMMA SlipsPromise ==
  ASSUME SlipsInv
  PROVE  /\ Slips!BetRecordsTypeOK /\ Slips!ClosedOnce /\ Slips!ClosedIsPosted
         /\ Slips!HeldAsRecorded /\ Slips!ShownAsKept
<1>0. SlipTyped /\ PlacingInv /\ HeldInv /\ KeptInv /\ ClosingInv
  BY DEF SlipsInv
<1>1. Slips!BetRecordsTypeOK
  BY <1>0 DEF SlipTyped
<1>2. Slips!ClosedOnce
  <2> SUFFICES ASSUME NEW id \in Slips!Id, NEW X,
                      X = {r \in slipPosted : r.bet = id /\ r.type \in {"settlement", "void", "cashout"}}
               PROVE  Slips!Cardinality(X) <= 1
    BY DEF Slips!ClosedOnce
  <2>1. \A r, s \in X : r = s
    <3> SUFFICES ASSUME NEW r \in X, NEW s \in X PROVE r = s
      OBVIOUS
    <3>1. /\ r \in [type : LedgerType, bet : 1..placed] /\ r.bet = id /\ r.type \in Closings
          /\ s \in [type : LedgerType, bet : 1..placed] /\ s.bet = id /\ s.type \in Closings
      BY <1>0 DEF SlipTyped, Closings
    <3>2. r = [type |-> r.type, bet |-> id] /\ s = [type |-> s.type, bet |-> id]
      BY <3>1
    <3>3. Ended(r.type, id) /\ Ended(s.type, id)
      BY <3>2 DEF Ended
    <3>4. r.type = s.type
      BY <1>0, <3>1, <3>3 DEF ClosingInv
    <3> QED BY <3>2, <3>4
  <2>2. CASE X = {}
    BY <2>2, FS_EmptySet, SlipCard
  <2>3. CASE X # {}
    <3>1. PICK x : X = {x}
      BY <2>1, <2>3
    <3>2. Cardinality(X) = 1
      BY <3>1, FS_Singleton
    <3> QED BY <3>2, SlipCard
  <2> QED BY <2>2, <2>3
<1>3. Slips!ClosedIsPosted
  BY DEF SlipsInv
<1>4. Slips!HeldAsRecorded
  <2> SUFFICES ASSUME slipTodo = <<>>, NEW u \in Bettor, u \notin drifted
               PROVE  accountRow[u].exposure
                        = Slips!SumFunctionOnSet(Slips!RowHolds, Slips!ShownOpen(u) \ Slips!Range(placing))
    BY DEF Slips!HeldAsRecorded, Slips!Locked
  <2>1. \A s : ~Pending(s)
    BY NothingPending
  <2>2. accountRow[u].exposure = Held(u)
    BY <1>0, <2>1 DEF HeldInv
  <2>3. \A id : id \in Slips!Range(placing) <=> Placing(id)
    BY <1>0 DEF Slips!Range, Placing, PlacingInv
  <2>4. Slips!ShownOpen(u) \ Slips!Range(placing) = HeldBets(u)
    BY <2>3 DEF HeldBets, Slips!ShownOpen, Slips!Shown
  <2> QED BY <2>2, <2>4 DEF Held
<1>5. Slips!ShownAsKept
  <2> SUFFICES ASSUME slipTodo = <<>>, NEW id \in DOMAIN slipSlips, id \notin unsaved
               PROVE  id \in DOMAIN slipRows /\ slipRows[id] = slipSlips[id]
    BY DEF Slips!ShownAsKept, Slips!Locked
  <2>1. \A s : ~Pending(s)
    BY NothingPending
  <2> QED BY <1>0, <2>1 DEF KeptInv, RowAsKept
<1> QED BY <1>1, <1>2, <1>3, <1>4, <1>5

\* Through crashes, restarts and failed statements a bet is closed once in the ledger, a row
\* that is closed has its posting, and rows of bets and users agree and are shown (store.go,
\* db.go).
THEOREM SlipsKept ==
  Slips!RecordSpec => [](/\ Slips!BetRecordsTypeOK /\ Slips!ClosedOnce /\ Slips!ClosedIsPosted
                         /\ Slips!HeldAsRecorded /\ Slips!ShownAsKept)
<1>1. Slips!InitRecords => SlipsInv
  BY SlipsStart
<1>3. SlipsInv /\ [Slips!RecordNext]_Slips!recordVars => SlipsInv'
  BY SlipsStep
<1> DEFINE Promise == /\ Slips!BetRecordsTypeOK /\ Slips!ClosedOnce /\ Slips!ClosedIsPosted
                      /\ Slips!HeldAsRecorded /\ Slips!ShownAsKept
<1>4. SlipsInv => Promise
  BY SlipsPromise
<1> HIDE DEF Promise
<1>5. Slips!RecordSpec => []Promise
  BY <1>1, <1>3, <1>4, PTL DEF Slips!RecordSpec
<1> QED BY <1>5 DEF Promise

-----------------------------------------------------------------------------
\* All three together

\* The records of bets and of deposits, and what is shown of these, are right in every
\* behaviour of each (store.go, deposit.go, db.go); nothing is said of "part", so this is so
\* whichever of them it names.
THEOREM RecordsKept ==
  Slips!RecordSpec /\ Filing!RecordsSpec /\ Views!ViewsSpec => []RecordsHold
BY SlipsKept, FilingKept, ViewsKept, PTL DEF RecordsHold

-----------------------------------------------------------------------------
\* Reports: what is shown is what is paid

\* The bet of a holder of Store.mu who has fields of it still to write.
Ending(id) == panelWrites # <<>> /\ panelWrites[1].bet = id

\* Bets placed have a selection of their market.
PlacedInv ==
  /\ panelBets \in Seq(Panel!Bet) /\ Len(panelBets) <= MaxRecordedBets
  /\ \A id \in DOMAIN panelBets : panelBets[id].selection \in SelectionsOf[panelBets[id].market]

\* A bet is settled with what was posted for it, but for what is still to be written.
EndedInv ==
  \A id \in DOMAIN panelBets :
    /\ id \notin DOMAIN panelPosted => panelBets[id].profit = 0 /\ panelBets[id].status # "settled"
    /\ id \in DOMAIN panelPosted =>
         /\ panelPosted[id].amount \in Int
         /\ panelPosted[id].how = "settle" =>
              panelPosted[id].amount = Panel!Pnl(panelBets[id], panelPosted[id].winner)
         /\ \/ Ending(id)
            \/ panelBets[id].status = "settled" /\ panelBets[id].profit = panelPosted[id].amount

\* Field f of bet id is written last, or f and then g.
Last(id, f) == Len(panelWrites) = 1 /\ panelWrites[1] = [bet |-> id, field |-> f]
Both(id, f, g) ==
  /\ Len(panelWrites) = 2
  /\ panelWrites[1] = [bet |-> id, field |-> f] /\ panelWrites[2] = [bet |-> id, field |-> g]

\* How far the fields of a bet that ends are written.
WritesInv ==
  /\ panelWrites \in Seq([bet : DOMAIN panelPosted, field : {"profit", "status"}])
  /\ panelWrites # <<>> =>
       \E id \in DOMAIN panelPosted :
         \/ /\ Both(id, "profit", "status") \/ Both(id, "status", "profit")
            /\ Both(id, "status", "profit") => panelPosted[id].how = "cashout"
            /\ panelBets[id].status = "matched" /\ panelBets[id].profit = 0
         \/ /\ Last(id, "status") /\ panelBets[id].status = "matched"
            /\ panelBets[id].profit = panelPosted[id].amount
         \/ /\ Last(id, "profit") /\ panelPosted[id].how = "cashout"
            /\ panelBets[id].status = "settled" /\ panelBets[id].profit = 0

\* What bets pay when selection s wins.
Pays(ids, s) == Panel!SumFunctionOnSet([id \in ids |-> Panel!Pnl(panelBets[id], s)], ids)

\* Answers are about bets there are, and hold what those pay or were paid.
PositionsInv(a) ==
  /\ a.bets \subseteq DOMAIN panelBets
  /\ \A s \in a.listed : a.at[s] = Pays(a.bets, s)

LadderInv(a) ==
  /\ a.bets \subseteq DOMAIN panelBets
  /\ \A s \in a.run : a.yes = Pays(a.bets, s)
  /\ a.no = Pays(a.bets, Panel!NoWinner)

CountedInv(a) ==
  /\ {"what", "left", "seen"} \subseteq DOMAIN a
  /\ a.left \subseteq DOMAIN panelBets /\ DOMAIN a.seen \subseteq DOMAIN panelBets
  /\ \A id \in DOMAIN a.seen :
       a.seen[id].status = "settled" =>
         /\ id \in DOMAIN panelPosted
         /\ \/ a.seen[id].profit = panelPosted[id].amount
            \/ panelPosted[id].how = "cashout" /\ a.seen[id].profit = 0

DownlineInv(a) ==
  /\ a.below \subseteq Panel!GetDownlineUsers(a.user)
  /\ a.had \subseteq Panel!Rows(a.kind, a.user, a.below)

ReportInv(a) ==
  /\ a.had \subseteq a.rows
  /\ a.rows \subseteq Panel!Rows("pnl", a.user, Panel!GetDownlineUsers(a.user))
  /\ a.settled \subseteq DOMAIN panelPosted /\ a.pnl = Panel!PaidOn(a.settled)

AnswerInv(a) ==
  /\ a.what = "positions" => PositionsInv(a)
  /\ a.what = "ladder" => LadderInv(a)
  /\ a.what = "pnl" => CountedInv(a)
  /\ a.what = "downline" => DownlineInv(a)
  /\ a.what = "report" => ReportInv(a)

StateInv ==
  /\ panelUsers \subseteq Staff
  /\ PlacedInv /\ DOMAIN panelPosted \subseteq DOMAIN panelBets
  /\ EndedInv /\ WritesInv
  /\ DOMAIN panelListed = Event
  /\ \A m \in Event : panelListed[m] \subseteq SelectionsOf[m]

PanelInv ==
  /\ StateInv
  /\ DOMAIN panelAnswer = Viewer /\ \A v \in Viewer : AnswerInv(panelAnswer[v])

-----------------------------------------------------------------------------

\* What no step undoes: users stay, bets stay what they were placed as, and once settled
\* settled, and what was posted stays posted.
Grows ==
  /\ panelUsers \subseteq panelUsers'
  /\ DOMAIN panelBets \subseteq DOMAIN panelBets'
  /\ \A id \in DOMAIN panelBets :
       /\ panelBets'[id].user = panelBets[id].user
       /\ panelBets'[id].market = panelBets[id].market
       /\ panelBets'[id].selection = panelBets[id].selection
       /\ panelBets'[id].side = panelBets[id].side
       /\ panelBets'[id].price = panelBets[id].price
       /\ panelBets'[id].stake = panelBets[id].stake
       /\ panelBets[id].status = "settled" => panelBets'[id].status = "settled"
  /\ DOMAIN panelPosted \subseteq DOMAIN panelPosted'
  /\ \A id \in DOMAIN panelPosted : panelPosted'[id] = panelPosted[id]

\* A bet pays the same however far it is.
LEMMA PaysTheSame ==
  ASSUME NEW a, NEW b, NEW s, a.selection = b.selection, a.side = b.side, a.price = b.price,
         a.stake = b.stake
  PROVE  Panel!Pnl(a, s) = Panel!Pnl(b, s)
BY DEF Panel!Pnl, Panel!Gain

LEMMA PaysStays ==
  ASSUME Grows, NEW ids, ids \subseteq DOMAIN panelBets, NEW s
  PROVE  Pays(ids, s)' = Pays(ids, s)
<1>1. ASSUME NEW id \in ids PROVE Panel!Pnl(panelBets'[id], s) = Panel!Pnl(panelBets[id], s)
  BY <1>1, PaysTheSame DEF Grows
<1>2. [id \in ids |-> Panel!Pnl(panelBets'[id], s)] = [id \in ids |-> Panel!Pnl(panelBets[id], s)]
  BY <1>1
<1> QED BY <1>2 DEF Pays

LEMMA PaidStays ==
  ASSUME Grows, NEW ids, ids \subseteq DOMAIN panelPosted
  PROVE  Panel!PaidOn(ids)' = Panel!PaidOn(ids)
<1>1. [id \in ids |-> panelPosted'[id].amount] = [id \in ids |-> panelPosted[id].amount]
  BY DEF Grows
<1> QED BY <1>1 DEF Panel!PaidOn

\* A report about the same user has no fewer rows later.
LEMMA RowsGrow ==
  ASSUME Grows, NEW kind, NEW p, NEW below, NEW later, below \subseteq later
  PROVE  Panel!Rows(kind, p, below) \subseteq Panel!Rows(kind, p, later)'
BY DEF Grows, Panel!Rows, Panel!Known, Panel!Settled, Panel!DownlineStats, Panel!BetsOf

LEMMA DownlineGrows ==
  ASSUME Grows, NEW p
  PROVE  Panel!GetDownlineUsers(p) \subseteq Panel!GetDownlineUsers(p)'
BY DEF Grows, Panel!GetDownlineUsers

\* An answer stays right.
LEMMA AnswerStays ==
  ASSUME Grows, NEW a, AnswerInv(a)
  PROVE  AnswerInv(a)'
<1>1. ASSUME a.what = "positions" PROVE PositionsInv(a)'
  <2>1. PositionsInv(a)
    BY <1>1 DEF AnswerInv
  <2>2. ASSUME NEW s \in a.listed PROVE a.at[s] = Pays(a.bets, s)'
    BY <2>1, PaysStays DEF PositionsInv
  <2> QED BY <2>1, <2>2 DEF PositionsInv, Grows
<1>2. ASSUME a.what = "ladder" PROVE LadderInv(a)'
  <2>1. LadderInv(a)
    BY <1>2 DEF AnswerInv
  <2>2. ASSUME NEW s \in a.run PROVE a.yes = Pays(a.bets, s)'
    BY <2>1, PaysStays DEF LadderInv
  <2>3. a.no = Pays(a.bets, Panel!NoWinner)'
    BY <2>1, PaysStays DEF LadderInv
  <2> QED BY <2>1, <2>2, <2>3 DEF LadderInv, Grows, Panel!NoWinner
<1>3. ASSUME a.what = "pnl" PROVE CountedInv(a)'
  BY <1>3 DEF AnswerInv, CountedInv, Grows
<1>4. ASSUME a.what = "downline" PROVE DownlineInv(a)'
  <2>1. DownlineInv(a)
    BY <1>4 DEF AnswerInv
  <2> QED BY <2>1, RowsGrow, DownlineGrows DEF DownlineInv
<1>5. ASSUME a.what = "report" PROVE ReportInv(a)'
  <2>1. ReportInv(a)
    BY <1>5 DEF AnswerInv
  <2>2. DOMAIN panelPosted \subseteq DOMAIN panelPosted'
    BY DEF Grows
  <2>3. Panel!Rows("pnl", a.user, Panel!GetDownlineUsers(a.user))
          \subseteq Panel!Rows("pnl", a.user, Panel!GetDownlineUsers(a.user))'
    <3>1. Panel!GetDownlineUsers(a.user) \subseteq Panel!GetDownlineUsers(a.user)'
      BY DownlineGrows
    <3> QED BY <3>1, DownlineGrows DEF Grows, Panel!Rows, Panel!Known, Panel!Settled, Panel!DownlineStats, Panel!BetsOf
  <2> QED BY <2>1, <2>2, <2>3, PaidStays DEF ReportInv
<1> QED BY <1>1, <1>2, <1>3, <1>4, <1>5 DEF AnswerInv

\* The state is as it was, and so is what was true of it.
LEMMA SameState ==
  ASSUME StateInv,
         UNCHANGED <<panelUsers, panelBets, panelListed, panelWrites, panelPosted>>
  PROVE  StateInv' /\ Grows
<1>1. Grows
  BY DEF Grows
<1>2. PlacedInv' /\ EndedInv' /\ WritesInv'
  BY DEF StateInv, PlacedInv, EndedInv, WritesInv, Both, Last, Ending, Panel!Pnl, Panel!Gain, Panel!Bet
<1> QED BY <1>1, <1>2 DEF StateInv

LEMMA CreateUserKeeps ==
  ASSUME StateInv, NEW u \in Later, Panel!CreateUser(u)
  PROVE  StateInv' /\ Grows
<1>1. /\ panelUsers' = panelUsers \cup {u}
      /\ UNCHANGED <<panelBets, panelListed, panelWrites, panelPosted>>
  BY DEF Panel!CreateUser
<1>2. Grows
  BY <1>1 DEF Grows
<1>3. PlacedInv' /\ EndedInv' /\ WritesInv'
  BY <1>1 DEF StateInv, PlacedInv, EndedInv, WritesInv, Both, Last, Ending, Panel!Pnl, Panel!Gain, Panel!Bet
<1>4. panelUsers' \subseteq Staff
  BY <1>1, RecordsAssumption DEF RecordsAssumption, StateInv
<1> QED BY <1>1, <1>2, <1>3, <1>4 DEF StateInv

LEMMA MergeMarketKeeps ==
  ASSUME StateInv, NEW m \in Event, NEW s \in SUBSET SelectionsOf[m], Panel!MergeMarket(m, s)
  PROVE  StateInv' /\ Grows
<1>1. /\ panelListed' = [panelListed EXCEPT ![m] = s]
      /\ UNCHANGED <<panelUsers, panelBets, panelWrites, panelPosted>>
  BY DEF Panel!MergeMarket
<1>2. Grows
  BY <1>1 DEF Grows
<1>3. PlacedInv' /\ EndedInv' /\ WritesInv'
  BY <1>1 DEF StateInv, PlacedInv, EndedInv, WritesInv, Both, Last, Ending, Panel!Pnl, Panel!Gain, Panel!Bet
<1> QED BY <1>1, <1>2, <1>3 DEF StateInv

\* Bets are numbered in the order they are placed in.
LEMMA PlaceKeeps ==
  ASSUME StateInv, NEW u \in panelUsers, NEW m \in Event,
         NEW s \in UNION {SelectionsOf[x] : x \in Event}, NEW side \in {"back", "lay"},
         NEW price \in Price, NEW stake \in Stake,
         Panel!PlaceAndMatch([user |-> u, market |-> m, selection |-> s, side |-> side,
           price |-> price, stake |-> stake, status |-> "matched", profit |-> 0])
  PROVE  StateInv' /\ Grows
<1> DEFINE b == [user |-> u, market |-> m, selection |-> s, side |-> side, price |-> price,
                 stake |-> stake, status |-> "matched", profit |-> 0]
<1>1. /\ s \in SelectionsOf[m] /\ panelBets' = Append(panelBets, b)
      /\ Panel!Cardinality(DOMAIN panelBets) < MaxRecordedBets
      /\ UNCHANGED <<panelUsers, panelListed, panelWrites, panelPosted>>
  BY DEF Panel!PlaceAndMatch
<1>2. b \in Panel!Bet
  BY DEF Panel!Bet, StateInv
<1>3. /\ b.user = u /\ b.market = m /\ b.selection = s /\ b.status = "matched" /\ b.profit = 0
  OBVIOUS
<1>4. panelBets \in Seq(Panel!Bet)
  BY DEF StateInv, PlacedInv
<1> HIDE DEF b
<1>5. /\ panelBets' \in Seq(Panel!Bet) /\ Len(panelBets') = Len(panelBets) + 1
      /\ \A i \in 1..Len(panelBets) : panelBets'[i] = panelBets[i]
      /\ panelBets'[Len(panelBets) + 1] = b
  BY <1>1, <1>2, <1>4, AppendProperties
<1>6. Len(panelBets) < MaxRecordedBets
  <2>1. DOMAIN panelBets = 1..Len(panelBets) /\ Len(panelBets) \in Nat
    BY <1>4
  <2>2. Cardinality(1..Len(panelBets)) = Len(panelBets)
    <3>1. \A n \in Nat : Cardinality(1..n) = n
      BY FS_Interval
    <3> QED BY <2>1, <3>1
  <2>3. Panel!Cardinality(DOMAIN panelBets) = Cardinality(DOMAIN panelBets)
    BY DEF Panel!Cardinality, Cardinality
  <2> QED BY <1>1, <2>1, <2>2, <2>3
<1>7. /\ DOMAIN panelBets = 1..Len(panelBets) /\ DOMAIN panelBets' = 1..(Len(panelBets) + 1)
      /\ Len(panelBets) \in Nat
  BY <1>4, <1>5
<1>8. \A id \in DOMAIN panelBets' : id \in DOMAIN panelBets \/ id = Len(panelBets) + 1
  BY <1>7
<1>9. \A id \in DOMAIN panelBets : panelBets'[id] = panelBets[id] /\ id \in DOMAIN panelBets'
  BY <1>5, <1>7
<1>10. Grows
  BY <1>1, <1>9 DEF Grows
<1>11. PlacedInv'
  BY <1>1, <1>3, <1>5, <1>6, <1>7, <1>8, <1>9, RecordsAssumption
     DEF StateInv, PlacedInv, RecordsAssumption
<1>12. Len(panelBets) + 1 \notin DOMAIN panelPosted
  BY <1>7 DEF StateInv
<1>13. EndedInv'
  <2> SUFFICES ASSUME NEW id \in DOMAIN panelBets'
               PROVE  /\ id \notin DOMAIN panelPosted =>
                           panelBets'[id].profit = 0 /\ panelBets'[id].status # "settled"
                      /\ id \in DOMAIN panelPosted =>
                           /\ panelPosted[id].amount \in Int
                           /\ panelPosted[id].how = "settle" =>
                                panelPosted[id].amount
                                  = Panel!Pnl(panelBets'[id], panelPosted[id].winner)
                           /\ \/ Ending(id)
                              \/ /\ panelBets'[id].status = "settled"
                                 /\ panelBets'[id].profit = panelPosted[id].amount
    BY <1>1 DEF EndedInv, Ending, Panel!Pnl, Panel!Gain
  <2>1. CASE id \in DOMAIN panelBets
    BY <1>9, <2>1 DEF StateInv, EndedInv
  <2>2. CASE id = Len(panelBets) + 1
    BY <1>3, <1>5, <1>12, <2>2
  <2> QED BY <1>8, <2>1, <2>2
<1>14. WritesInv'
  <2>1. \A id \in DOMAIN panelPosted : panelBets'[id] = panelBets[id]
    BY <1>9 DEF StateInv
  <2> QED BY <1>1, <2>1 DEF StateInv, WritesInv, Both, Last
<1>15. DOMAIN panelPosted' \subseteq DOMAIN panelBets'
  BY <1>1, <1>9 DEF StateInv
<1> QED BY <1>1, <1>10, <1>11, <1>13, <1>14, <1>15 DEF StateInv

\* Bets of the market that are open are void, with no profit; nothing is being written.
LEMMA VoidMarketKeeps ==
  ASSUME StateInv, NEW m \in Event, Panel!VoidMarket(m)
  PROVE  StateInv' /\ Grows
<1>1. /\ panelBets' = [id \in DOMAIN panelBets |->
                         IF panelBets[id].market = m /\ Panel!Open(panelBets[id])
                         THEN [panelBets[id] EXCEPT !.status = "void"] ELSE panelBets[id]]
      /\ panelWrites = <<>>
      /\ UNCHANGED <<panelUsers, panelListed, panelWrites, panelPosted>>
  BY DEF Panel!VoidMarket, Panel!Locked
<1>2. panelBets \in Seq(Panel!Bet) /\ DOMAIN panelBets = 1..Len(panelBets) /\ Len(panelBets) \in Nat
  BY DEF StateInv, PlacedInv
<1>3. ASSUME NEW id \in DOMAIN panelBets
      PROVE  /\ panelBets[id] \in Panel!Bet /\ panelBets'[id] \in Panel!Bet
             /\ panelBets'[id].user = panelBets[id].user
             /\ panelBets'[id].market = panelBets[id].market
             /\ panelBets'[id].selection = panelBets[id].selection
             /\ panelBets'[id].side = panelBets[id].side
             /\ panelBets'[id].price = panelBets[id].price
             /\ panelBets'[id].stake = panelBets[id].stake
             /\ panelBets'[id].profit = panelBets[id].profit
             /\ \/ panelBets'[id].status = panelBets[id].status
                \/ panelBets[id].status = "matched" /\ panelBets'[id].status = "void"
  <2>1. panelBets[id] \in Panel!Bet
    BY <1>2
  <2>2. CASE panelBets[id].market = m /\ Panel!Open(panelBets[id])
    <3>1. panelBets'[id] = [panelBets[id] EXCEPT !.status = "void"]
      BY <1>1, <2>2
    <3> QED BY <2>1, <2>2, <3>1 DEF Panel!Bet, Panel!Open
  <2>3. CASE ~(panelBets[id].market = m /\ Panel!Open(panelBets[id]))
    <3>1. panelBets'[id] = panelBets[id]
      BY <1>1, <2>3
    <3> QED BY <2>1, <3>1
  <2> QED BY <2>2, <2>3
<1>4. DOMAIN panelBets' = DOMAIN panelBets /\ Len(panelBets') = Len(panelBets)
      /\ panelBets' \in Seq(Panel!Bet)
  <2>1. DOMAIN panelBets' = 1..Len(panelBets)
    BY <1>1, <1>2
  <2>2. panelBets' \in [1..Len(panelBets) -> Panel!Bet]
    BY <1>1, <1>2, <1>3, <2>1
  <2> QED BY <1>2, <2>1, <2>2
<1>5. Grows
  BY <1>1, <1>3, <1>4 DEF Grows
<1>6. PlacedInv'
  BY <1>3, <1>4 DEF StateInv, PlacedInv
<1>7. EndedInv'
  <2>1. ASSUME NEW id \in DOMAIN panelBets, id \in DOMAIN panelPosted
        PROVE  panelBets[id].status = "settled"
    BY <1>1, <2>1 DEF StateInv, EndedInv, Ending
  <2>2. ASSUME NEW id \in DOMAIN panelBets, NEW w
        PROVE  Panel!Pnl(panelBets'[id], w) = Panel!Pnl(panelBets[id], w)
    BY <1>3, PaysTheSame
  <2> QED BY <1>1, <1>3, <1>4, <2>1, <2>2 DEF StateInv, EndedInv, Ending
<1>8. WritesInv'
  BY <1>1 DEF StateInv, WritesInv
<1> QED BY <1>1, <1>4, <1>5, <1>6, <1>7, <1>8 DEF StateInv

LEMMA BetTyped ==
  ASSUME StateInv, NEW id \in DOMAIN panelBets
  PROVE  /\ panelBets[id] \in Panel!Bet
         /\ panelBets[id].price \in Nat \ {0} /\ panelBets[id].stake \in Nat
         /\ panelBets[id].profit \in Int
         /\ Panel!Gain(panelBets[id]) \in Int
         /\ \A w : Panel!Pnl(panelBets[id], w) \in Int
<1>1. panelBets[id] \in Panel!Bet
  BY DEF StateInv, PlacedInv
<1>2. /\ panelBets[id].price \in Nat \ {0} /\ panelBets[id].stake \in Nat
      /\ panelBets[id].profit \in Int
  BY <1>1, RecordsAssumption DEF Panel!Bet, RecordsAssumption
<1>3. Panel!Gain(panelBets[id]) \in Int
  BY <1>2 DEF Panel!Gain
<1> QED BY <1>1, <1>2, <1>3 DEF Panel!Pnl

\* A bet that is open, with nothing being written, is not posted yet; it is when it ends.
LEMMA EndKeeps ==
  ASSUME StateInv, NEW id \in DOMAIN panelBets, panelBets[id].status = "matched",
         panelWrites = <<>>, NEW order, NEW how, NEW winner, NEW amount \in Int,
         \/ /\ order = <<"profit", "status">> /\ how = "settle"
            /\ amount = Panel!Pnl(panelBets[id], winner)
         \/ order = <<"status", "profit">> /\ how = "cashout",
         Panel!End(id, order, how, winner, amount),
         UNCHANGED <<panelUsers, panelBets, panelListed>>
  PROVE  StateInv' /\ Grows
<1>1. id \notin DOMAIN panelPosted /\ panelBets[id].profit = 0
  BY DEF StateInv, EndedInv, Ending
<1>2. /\ DOMAIN panelPosted' = DOMAIN panelPosted \cup {id}
      /\ panelPosted'[id] = [how |-> how, winner |-> winner, amount |-> amount]
      /\ \A i \in DOMAIN panelPosted : panelPosted'[i] = panelPosted[i]
  BY <1>1 DEF Panel!End
<1>3. panelWrites' = [k \in DOMAIN order |-> [bet |-> id, field |-> order[k]]]
  BY DEF Panel!End
<1>4. DOMAIN order = 1..2 /\ {order[1], order[2]} \subseteq {"profit", "status"}
  OBVIOUS
<1>5. /\ panelWrites' \in Seq([bet : DOMAIN panelPosted', field : {"profit", "status"}])
      /\ Len(panelWrites') = 2
      /\ panelWrites'[1] = [bet |-> id, field |-> order[1]]
      /\ panelWrites'[2] = [bet |-> id, field |-> order[2]]
  <2>1. \A k \in 1..2 : order[k] \in {"profit", "status"}
    BY <1>4
  <2>2. panelWrites' \in [1..2 -> [bet : DOMAIN panelPosted', field : {"profit", "status"}]]
    BY <1>2, <1>3, <1>4, <2>1
  <2>3. DOMAIN panelWrites' = 1..2
    BY <1>3, <1>4
  <2> QED BY <1>3, <1>4, <2>2, <2>3
<1>6. panelPosted'[id].how = how /\ panelPosted'[id].winner = winner /\ panelPosted'[id].amount = amount
  BY <1>2
<1>7. Grows
  BY <1>2 DEF Grows
<1>8. PlacedInv'
  BY DEF StateInv, PlacedInv, Panel!Bet
<1>9. EndedInv'
  <2>1. Ending(id)'
    <3>1. panelWrites' # <<>>
      BY <1>5
    <3> QED BY <1>5, <3>1 DEF Ending
  <2>2. ASSUME NEW i \in DOMAIN panelBets, i # id
        PROVE  i \in DOMAIN panelPosted' <=> i \in DOMAIN panelPosted
    BY <1>2, <2>2
  <2>3. ~Ending(id)
    BY DEF Ending
  <2> QED BY <1>2, <1>6, <2>1, <2>2, <2>3 DEF StateInv, EndedInv, Ending, Panel!Pnl, Panel!Gain
<1>10. WritesInv'
  <2>1. CASE order = <<"profit", "status">> /\ how = "settle"
    <3>1. Both(id, "profit", "status")' /\ ~Both(id, "status", "profit")'
      BY <1>5, <2>1 DEF Both
    <3> QED BY <1>1, <1>2, <1>5, <3>1 DEF WritesInv
  <2>2. CASE order = <<"status", "profit">> /\ how = "cashout"
    <3>1. Both(id, "status", "profit")'
      BY <1>5, <2>2 DEF Both
    <3> QED BY <1>1, <1>2, <1>5, <1>6, <2>2, <3>1 DEF WritesInv
  <2> QED BY <2>1, <2>2
<1> QED BY <1>2, <1>7, <1>8, <1>9, <1>10 DEF StateInv

LEMMA SettleBetKeeps ==
  ASSUME StateInv, NEW id, Panel!SettleBet(id)
  PROVE  StateInv' /\ Grows
<1>1. /\ id \in DOMAIN panelBets /\ panelBets[id].status = "matched" /\ panelWrites = <<>>
      /\ Panel!End(id, Panel!SettleOrder, "settle", panelClosing.winner,
                   Panel!Pnl(panelBets[id], panelClosing.winner))
      /\ UNCHANGED <<panelUsers, panelBets, panelListed>>
  BY DEF Panel!SettleBet, Panel!Unsettled, Panel!Open
<1>2. Panel!Pnl(panelBets[id], panelClosing.winner) \in Int
  BY <1>1, BetTyped
<1>3. Panel!SettleOrder = <<"profit", "status">>
  BY DEF Panel!SettleOrder
<1> QED BY <1>1, <1>2, <1>3, EndKeeps

LEMMA CashoutAcceptKeeps ==
  ASSUME StateInv, NEW id, Panel!CashoutAccept(id)
  PROVE  StateInv' /\ Grows
<1> DEFINE b == panelBets[id]
           worth == IF b.side = "back" THEN (Panel!Gain(b) * 90) \div 100
                                       ELSE (b.stake * 95) \div 100
<1>1. /\ id \in DOMAIN panelBets /\ b.status = "matched" /\ panelWrites = <<>>
      /\ Panel!End(id, Panel!CashoutOrder, "cashout", Panel!NoWinner, worth)
      /\ UNCHANGED <<panelUsers, panelBets, panelListed>>
  BY DEF Panel!CashoutAccept, Panel!Locked, Panel!Open
<1>2. worth \in Int
  BY <1>1, BetTyped
<1>3. Panel!CashoutOrder = <<"status", "profit">>
  BY DEF Panel!CashoutOrder
<1> HIDE DEF worth
<1> QED BY <1>1, <1>2, <1>3, EndKeeps

\* Of a bet written, what a bet is placed as stays.
LEMMA WriteKeeps ==
  ASSUME StateInv, Panel!Write
  PROVE  StateInv' /\ Grows
<1> DEFINE field == panelWrites[1].field
           Writes == Seq([bet : DOMAIN panelPosted, field : {"profit", "status"}])
<1>1. /\ panelWrites # <<>> /\ panelWrites \in Writes /\ panelWrites' = Tail(panelWrites)
      /\ UNCHANGED <<panelUsers, panelListed, panelPosted>>
  BY DEF Panel!Write, StateInv, WritesInv
<1>2. /\ Tail(panelWrites) \in Writes /\ Head(panelWrites) = panelWrites[1]
      /\ Len(panelWrites) = 1 => Tail(panelWrites) = <<>>
      /\ Len(panelWrites) = 2 =>
           Len(Tail(panelWrites)) = 1 /\ Tail(panelWrites)[1] = panelWrites[2]
  BY <1>1
<1>3. PICK id \in DOMAIN panelPosted :
         \/ /\ Both(id, "profit", "status") \/ Both(id, "status", "profit")
            /\ Both(id, "status", "profit") => panelPosted[id].how = "cashout"
            /\ panelBets[id].status = "matched" /\ panelBets[id].profit = 0
         \/ /\ Last(id, "status") /\ panelBets[id].status = "matched"
            /\ panelBets[id].profit = panelPosted[id].amount
         \/ /\ Last(id, "profit") /\ panelPosted[id].how = "cashout"
            /\ panelBets[id].status = "settled" /\ panelBets[id].profit = 0
  BY <1>1 DEF StateInv, WritesInv
<1>4. id = panelWrites[1].bet /\ id \in DOMAIN panelBets /\ Ending(id)
  BY <1>1, <1>3 DEF Both, Last, StateInv, Ending
<1>5. panelBets \in Seq(Panel!Bet) /\ panelBets[id] \in Panel!Bet /\ panelPosted[id].amount \in Int
  BY <1>4 DEF StateInv, PlacedInv, EndedInv
<1>13. panelBets' = IF field = "profit"
                    THEN [panelBets EXCEPT ![id].profit = panelPosted[id].amount]
                    ELSE [panelBets EXCEPT ![id].status = "settled"]
  BY <1>2, <1>4 DEF Panel!Write
<1>6. /\ DOMAIN panelBets' = DOMAIN panelBets
      /\ \A j \in DOMAIN panelBets \ {id} : panelBets'[j] = panelBets[j]
      /\ panelBets'[id] = IF field = "profit"
                          THEN [panelBets[id] EXCEPT !.profit = panelPosted[id].amount]
                          ELSE [panelBets[id] EXCEPT !.status = "settled"]
  BY <1>4, <1>13
<1>7. /\ panelBets'[id] \in Panel!Bet
      /\ panelBets'[id].user = panelBets[id].user
      /\ panelBets'[id].market = panelBets[id].market
      /\ panelBets'[id].selection = panelBets[id].selection
      /\ panelBets'[id].side = panelBets[id].side
      /\ panelBets'[id].price = panelBets[id].price
      /\ panelBets'[id].stake = panelBets[id].stake
      /\ panelBets'[id].profit = IF field = "profit" THEN panelPosted[id].amount ELSE panelBets[id].profit
      /\ panelBets'[id].status = IF field = "profit" THEN panelBets[id].status ELSE "settled"
  <2>1. CASE field = "profit"
    <3>1. panelBets'[id] = [panelBets[id] EXCEPT !.profit = panelPosted[id].amount]
      BY <1>6, <2>1
    <3> HIDE DEF field
    <3> QED BY <1>5, <2>1, <3>1 DEF Panel!Bet
  <2>2. CASE field # "profit"
    <3>1. panelBets'[id] = [panelBets[id] EXCEPT !.status = "settled"]
      BY <1>6, <2>2
    <3> HIDE DEF field
    <3> QED BY <1>5, <2>2, <3>1 DEF Panel!Bet
  <2> QED BY <2>1, <2>2
<1>8. panelBets' \in Seq(Panel!Bet) /\ Len(panelBets') = Len(panelBets)
  <2>1. DOMAIN panelBets' = 1..Len(panelBets) /\ Len(panelBets) \in Nat
    BY <1>5, <1>6
  <2>2. \A j \in 1..Len(panelBets) : panelBets'[j] \in Panel!Bet
    BY <1>5, <1>6, <1>7
  <2>3. panelBets' \in [1..Len(panelBets) -> Panel!Bet]
    BY <1>13, <2>1, <2>2
  <2> QED BY <2>1, <2>3
<1> HIDE DEF field
<1>9. Grows
  BY <1>1, <1>6, <1>7 DEF Grows
<1>10. PlacedInv'
  BY <1>6, <1>7, <1>8 DEF StateInv, PlacedInv
<1>11. WritesInv'
  <2>1. panelWrites' \in Seq([bet : DOMAIN panelPosted', field : {"profit", "status"}])
    BY <1>1, <1>2
  <2>2. CASE Len(panelWrites) = 1
    BY <1>1, <1>2, <2>1, <2>2 DEF WritesInv
  <2>3. CASE Both(id, "profit", "status")
    <3>1. Last(id, "status")'
      BY <1>1, <1>2, <2>3 DEF Both, Last
    <3>2. panelBets'[id].status = "matched" /\ panelBets'[id].profit = panelPosted'[id].amount
      BY <1>1, <1>3, <1>4, <1>7, <2>3 DEF Both, Last, field
    <3> QED BY <1>1, <1>4, <2>1, <3>1, <3>2 DEF WritesInv
  <2>4. CASE Both(id, "status", "profit")
    <3>1. Last(id, "profit")'
      BY <1>1, <1>2, <2>4 DEF Both, Last
    <3>2. /\ panelBets'[id].status = "settled" /\ panelBets'[id].profit = 0
          /\ panelPosted'[id].how = "cashout"
      BY <1>1, <1>3, <1>4, <1>7, <2>4 DEF Both, Last, field
    <3> QED BY <1>1, <1>4, <2>1, <3>1, <3>2 DEF WritesInv
  <2> QED BY <1>3, <1>4, <2>2, <2>3, <2>4 DEF Last
<1>12. EndedInv'
  <2>1. ASSUME NEW j \in DOMAIN panelBets, j # id
        PROVE  /\ panelBets'[j] = panelBets[j] /\ ~Ending(j)
    BY <1>4, <1>6, <2>1 DEF Ending
  <2>2. \/ Ending(id)'
        \/ panelBets'[id].status = "settled" /\ panelBets'[id].profit = panelPosted[id].amount
    <3>1. CASE Len(panelWrites) = 1
      BY <1>3, <1>4, <1>7, <3>1 DEF Last, Both, field
    <3>2. CASE Both(id, "profit", "status") \/ Both(id, "status", "profit")
      <4>1. panelWrites' # <<>> /\ panelWrites'[1].bet = id
        <5>1. Len(panelWrites') = 1 /\ panelWrites'[1] = panelWrites[2]
          BY <1>1, <1>2, <3>2 DEF Both
        <5>2. panelWrites' # <<>>
          BY <5>1
        <5> QED BY <3>2, <5>1, <5>2 DEF Both
      <4> QED BY <4>1 DEF Ending
    <3> QED BY <1>3, <1>4, <3>1, <3>2 DEF Last
  <2>3. \A w : Panel!Pnl(panelBets'[id], w) = Panel!Pnl(panelBets[id], w)
    BY <1>7, PaysTheSame
  <2>4. ASSUME NEW j \in DOMAIN panelBets'
        PROVE  /\ j \notin DOMAIN panelPosted =>
                    panelBets'[j].profit = 0 /\ panelBets'[j].status # "settled"
               /\ j \in DOMAIN panelPosted =>
                    /\ panelPosted[j].amount \in Int
                    /\ panelPosted[j].how = "settle" =>
                         panelPosted[j].amount = Panel!Pnl(panelBets'[j], panelPosted[j].winner)
                    /\ \/ Ending(j)'
                       \/ /\ panelBets'[j].status = "settled"
                          /\ panelBets'[j].profit = panelPosted[j].amount
    <3>1. CASE j = id
      BY <1>3, <1>4, <2>2, <2>3, <3>1 DEF StateInv, EndedInv
    <3>2. CASE j # id
      BY <1>6, <2>1, <2>4, <3>2 DEF StateInv, EndedInv
    <3> QED BY <3>1, <3>2
  <2>5. ASSUME NEW j
        PROVE  (panelPosted[j].amount = Panel!Pnl(panelBets[j], panelPosted[j].winner))'
                 <=> panelPosted[j].amount = Panel!Pnl(panelBets'[j], panelPosted[j].winner)
    BY <1>1 DEF Panel!Pnl, Panel!Gain
  <2> QED BY <1>1, <2>4, <2>5 DEF EndedInv
<1> QED BY <1>1, <1>6, <1>9, <1>10, <1>11, <1>12 DEF StateInv

\* The sums are those of the lemmas.
LEMMA PanelSum ==
  ASSUME NEW f, NEW S
  PROVE  Panel!SumFunctionOnSet(f, S) = SumFunctionOnSet(f, S)
BY DEF SumFunctionOnSet, FoldFunctionOnSet, MapThenFoldSet, Panel!SumFunctionOnSet,
       Panel!FoldFunctionOnSet, Panel!MapThenFoldSet

\* There are finitely many bets.
LEMMA FiniteBets ==
  ASSUME StateInv, NEW ids, ids \subseteq DOMAIN panelBets
  PROVE  IsFiniteSet(ids)
<1>1. DOMAIN panelBets = 1..Len(panelBets) /\ Len(panelBets) \in Nat
  BY DEF StateInv, PlacedInv
<1>2. IsFiniteSet(DOMAIN panelBets)
  BY <1>1, FS_Interval
<1> QED BY <1>2, FS_Subset

\* What a bet adds to the position on a listed selection is what it pays when that wins.
LEMMA AddsWhatItPays ==
  ASSUME StateInv, NEW id \in DOMAIN panelBets, NEW s \in panelListed[panelBets[id].market]
  PROVE  Panel!Adds(panelBets[id], s) = Panel!Pnl(panelBets[id], s)
<1>1. Panel!Gain(panelBets[id]) \in Int /\ panelBets[id].stake \in Nat
  BY BetTyped
<1>2. panelBets[id].side \in {"back", "lay"}
  BY BetTyped DEF Panel!Bet
<1> QED BY <1>1, <1>2 DEF Panel!Adds, Panel!Pnl, Panel!Others

LEMMA PositionsAnswered ==
  ASSUME StateInv, NEW v, NEW u, NEW m, Panel!UserPositions(v, u, m)
  PROVE  \E a : AnswerInv(a) /\ Panel!Answer(v, a)
<1> DEFINE counted == {id \in Panel!OnMarket(u, m) : Panel!Open(panelBets[id])}
           selections == panelListed[m] \cup {panelBets[id].selection : id \in counted}
           at == [s \in selections |->
                    Panel!SumFunctionOnSet([id \in counted |-> Panel!Adds(panelBets[id], s)], counted)]
           a == [what |-> "positions", bets |-> counted, listed |-> panelListed[m], at |-> at]
<1>1. Panel!Answer(v, a)
  BY DEF Panel!UserPositions
<1>2. counted \subseteq DOMAIN panelBets /\ \A id \in counted : panelBets[id].market = m
  BY DEF Panel!OnMarket, Panel!BetsOf
<1>3. ASSUME NEW s \in panelListed[m]
      PROVE  at[s] = Pays(counted, s)
  <2>1. ASSUME NEW id \in counted
        PROVE  Panel!Adds(panelBets[id], s) = Panel!Pnl(panelBets[id], s)
    <3> HIDE DEF counted
    <3> QED BY <1>2, <2>1, AddsWhatItPays
  <2>2. [id \in counted |-> Panel!Adds(panelBets[id], s)]
          = [id \in counted |-> Panel!Pnl(panelBets[id], s)]
    <3> HIDE DEF counted
    <3> QED BY <2>1
  <2>3. s \in selections
    OBVIOUS
  <2>4. at[s] = Panel!SumFunctionOnSet([id \in counted |-> Panel!Adds(panelBets[id], s)], counted)
    <3> HIDE DEF counted, selections
    <3> QED BY <2>3
  <2> HIDE DEF counted, at
  <2> QED BY <2>2, <2>4 DEF Pays
<1>4. /\ a.what = "positions" /\ a.bets = counted /\ a.listed = panelListed[m] /\ a.at = at
  OBVIOUS
<1> HIDE DEF a, counted, at
<1>5. AnswerInv(a)
  BY <1>2, <1>3, <1>4 DEF AnswerInv, PositionsInv
<1> QED BY <1>1, <1>5

\* The sum of what is the other way round is the other way round.
LEMMA SumTurned ==
  ASSUME NEW S, IsFiniteSet(S), NEW f, NEW g,
         \A x \in S : f[x] \in Int /\ g[x] \in Int /\ f[x] = -g[x]
  PROVE  SumFunctionOnSet(f, S) = -SumFunctionOnSet(g, S)
<1> DEFINE z == [x \in S |-> 0]
<1>1. \A x \in S : f[x] \in Int /\ g[x] \in Int /\ z[x] = f[x] + g[x]
  OBVIOUS
<1>2. SumFunctionOnSet(z, S) = 0
  BY SumZero
<1>3. SumFunctionOnSet(f, S) \in Int /\ SumFunctionOnSet(g, S) \in Int
  BY SumInt
<1> HIDE DEF z
<1>4. SumFunctionOnSet(z, S) = SumFunctionOnSet(f, S) + SumFunctionOnSet(g, S)
  BY <1>1, SumPlus
<1> QED BY <1>2, <1>3, <1>4

LEMMA LadderAnswered ==
  ASSUME StateInv, NEW v, NEW u, NEW m \in Event, Panel!FancyPositions(v, u, m)
  PROVE  \E a : AnswerInv(a) /\ Panel!Answer(v, a)
<1> DEFINE counted == {id \in Panel!OnMarket(u, m) : panelBets[id].status # "void"}
           Gains(id) == IF panelBets[id].side = "back" THEN Panel!Gain(panelBets[id])
                                                       ELSE -Panel!Gain(panelBets[id])
           Stakes(id) == IF panelBets[id].side = "back" THEN panelBets[id].stake
                                                        ELSE -panelBets[id].stake
           yes == Panel!SumFunctionOnSet([id \in counted |-> Gains(id)], counted)
           no == -Panel!SumFunctionOnSet([id \in counted |-> Stakes(id)], counted)
           a == [what |-> "ladder", bets |-> counted,
                 open |-> {id \in counted : Panel!Open(panelBets[id])},
                 run |-> panelListed[m], yes |-> yes, no |-> no]
<1>1. Panel!Answer(v, a) /\ m \in Fancy
  BY DEF Panel!FancyPositions
<1>2. counted \subseteq DOMAIN panelBets /\ \A id \in counted : panelBets[id].market = m
  BY DEF Panel!OnMarket, Panel!BetsOf
<1>3. PICK f : SelectionsOf[m] = {f} /\ f # 0
  BY <1>1, RecordsAssumption DEF RecordsAssumption
<1> HIDE DEF counted
<1>4. ASSUME NEW id \in counted
      PROVE  /\ Panel!Pnl(panelBets[id], f) = Gains(id)
             /\ Stakes(id) \in Int /\ Panel!Pnl(panelBets[id], Panel!NoWinner) \in Int
             /\ Panel!Pnl(panelBets[id], Panel!NoWinner) = -Stakes(id)
  <2>1. panelBets[id].selection = f
    BY <1>2, <1>3 DEF StateInv, PlacedInv
  <2>2. /\ panelBets[id].stake \in Nat
        /\ \A w : Panel!Pnl(panelBets[id], w) \in Int
    BY <1>2, BetTyped
  <2> QED BY <1>3, <2>1, <2>2 DEF Panel!Pnl, Panel!NoWinner
<1>5. ASSUME NEW s \in panelListed[m]
      PROVE  yes = Pays(counted, s)
  <2>1. s = f
    BY <1>3 DEF StateInv
  <2>2. [id \in counted |-> Gains(id)] = [id \in counted |-> Panel!Pnl(panelBets[id], f)]
    <3> HIDE DEF Gains
    <3> QED BY <1>4
  <2> HIDE DEF Gains
  <2> QED BY <2>1, <2>2 DEF Pays
<1>6. no = Pays(counted, Panel!NoWinner)
  <2> DEFINE lost == [id \in counted |-> Panel!Pnl(panelBets[id], Panel!NoWinner)]
             stakes == [id \in counted |-> Stakes(id)]
  <2>1. IsFiniteSet(counted)
    BY <1>2, FiniteBets
  <2>2. \A id \in counted : lost[id] \in Int /\ stakes[id] \in Int /\ lost[id] = -stakes[id]
    <3> HIDE DEF Stakes
    <3> QED BY <1>4
  <2> HIDE DEF lost, stakes
  <2>3. SumFunctionOnSet(lost, counted) = -SumFunctionOnSet(stakes, counted)
    BY <2>1, <2>2, SumTurned
  <2>4. no = -Panel!SumFunctionOnSet(stakes, counted)
    BY DEF stakes
  <2>5. Pays(counted, Panel!NoWinner) = Panel!SumFunctionOnSet(lost, counted)
    BY DEF lost, Pays
  <2> HIDE DEF no
  <2> QED BY <2>3, <2>4, <2>5, PanelSum
<1>7. /\ a.what = "ladder" /\ a.bets = counted /\ a.run = panelListed[m]
      /\ a.yes = yes /\ a.no = no
  OBVIOUS
<1> HIDE DEF a, yes, no
<1>8. AnswerInv(a)
  BY <1>2, <1>5, <1>6, <1>7 DEF AnswerInv, LadderInv
<1> QED BY <1>1, <1>8

LEMMA BetsGot ==
  ASSUME StateInv, NEW v, NEW u, Panel!GetUserBets(v, u)
  PROVE  \E a : AnswerInv(a) /\ Panel!Answer(v, a)
<1> DEFINE a == [what |-> "pnl", left |-> Panel!BetsOf({u}), seen |-> <<>>]
<1>1. Panel!Answer(v, a)
  BY DEF Panel!GetUserBets
<1>2. Panel!BetsOf({u}) \subseteq DOMAIN panelBets
  BY DEF Panel!BetsOf
<1>3. a.what = "pnl" /\ a.left = Panel!BetsOf({u}) /\ a.seen = <<>>
  OBVIOUS
<1>4. DOMAIN a.seen = {} /\ {"what", "left", "seen"} \subseteq DOMAIN a
  BY <1>3
<1> HIDE DEF a
<1>5. AnswerInv(a)
  BY <1>2, <1>3, <1>4 DEF AnswerInv, CountedInv
<1> QED BY <1>1, <1>5

\* A bet read as settled shows what was posted, or, of one cashed out, nothing yet.
LEMMA BetCounted ==
  ASSUME StateInv, NEW v, AnswerInv(panelAnswer[v]), NEW id, Panel!CountBet(v, id)
  PROVE  \E a : AnswerInv(a) /\ Panel!Answer(v, a)
<1> DEFINE was == panelAnswer[v]
           seen == [i \in DOMAIN was.seen \cup {id} |->
                      IF i = id THEN [status |-> panelBets[id].status, profit |-> panelBets[id].profit]
                                ELSE was.seen[i]]
           a == [was EXCEPT !.left = was.left \ {id}, !.seen = seen]
<1>1. was.what = "pnl" /\ id \in was.left /\ Panel!Answer(v, a)
  BY DEF Panel!CountBet
<1>2. CountedInv(was)
  BY <1>1 DEF AnswerInv
<1>3. ASSUME panelBets[id].status = "settled"
      PROVE  /\ id \in DOMAIN panelPosted
             /\ \/ panelBets[id].profit = panelPosted[id].amount
                \/ panelPosted[id].how = "cashout" /\ panelBets[id].profit = 0
  <2>1. id \in DOMAIN panelBets
    BY <1>1, <1>2 DEF CountedInv
  <2>2. id \in DOMAIN panelPosted
    BY <1>3, <2>1 DEF StateInv, EndedInv
  <2>3. CASE Ending(id)
    <3>1. PICK i \in DOMAIN panelPosted :
             \/ /\ Both(i, "profit", "status") \/ Both(i, "status", "profit")
                /\ panelBets[i].status = "matched"
             \/ Last(i, "status") /\ panelBets[i].status = "matched"
             \/ /\ Last(i, "profit") /\ panelPosted[i].how = "cashout"
                /\ panelBets[i].profit = 0
      BY <2>3 DEF StateInv, WritesInv, Ending
    <3>2. i = id
      BY <2>3, <3>1 DEF Ending, Both, Last
    <3> QED BY <1>3, <2>2, <3>1, <3>2
  <2>4. CASE ~Ending(id)
    BY <2>1, <2>2, <2>4 DEF StateInv, EndedInv
  <2> QED BY <2>3, <2>4
<1>4. a.what = "pnl" /\ a.left = was.left \ {id} /\ a.seen = seen /\ DOMAIN a = DOMAIN was
  BY <1>1, <1>2 DEF CountedInv
<1>5. /\ DOMAIN seen = DOMAIN was.seen \cup {id}
      /\ seen[id] = [status |-> panelBets[id].status, profit |-> panelBets[id].profit]
      /\ \A i \in DOMAIN was.seen : i # id => seen[i] = was.seen[i]
  OBVIOUS
<1>6. seen[id].status = panelBets[id].status /\ seen[id].profit = panelBets[id].profit
  BY <1>5
<1> HIDE DEF a, seen, was
<1>7. AnswerInv(a)
  BY <1>1, <1>2, <1>3, <1>4, <1>5, <1>6 DEF AnswerInv, CountedInv
<1> QED BY <1>1, <1>7

LEMMA DownlineRead ==
  ASSUME StateInv, NEW v, NEW kind, NEW p, Panel!ReadDownline(v, kind, p)
  PROVE  \E a : AnswerInv(a) /\ Panel!Answer(v, a)
<1> DEFINE below == Panel!GetDownlineUsers(p)
           a == [what |-> "downline", kind |-> kind, user |-> p, below |-> below,
                 had |-> Panel!Rows(kind, p, below)]
<1>1. Panel!Answer(v, a)
  BY DEF Panel!ReadDownline
<1>2. /\ a.what = "downline" /\ a.kind = kind /\ a.user = p /\ a.below = below
      /\ a.had = Panel!Rows(kind, p, below)
  OBVIOUS
<1> HIDE DEF a
<1>3. AnswerInv(a)
  BY <1>2 DEF AnswerInv, DownlineInv
<1> QED BY <1>1, <1>3

\* While Store.mu is free, settled bets have the profit posted for them.
LEMMA ReportAnswered ==
  ASSUME StateInv, NEW v, AnswerInv(panelAnswer[v]), Panel!PanelReport(v)
  PROVE  \E a : AnswerInv(a) /\ Panel!Answer(v, a)
<1> DEFINE was == panelAnswer[v]
           rows == Panel!Rows(was.kind, was.user, was.below)
           settled == Panel!Settled(rows)
           pnl == Panel!SumFunctionOnSet([id \in rows |-> panelBets[id].profit], settled)
           a == [what |-> "report", kind |-> was.kind, user |-> was.user, had |-> was.had,
                 rows |-> rows, settled |-> settled, pnl |-> pnl]
<1>1. was.what = "downline" /\ panelWrites = <<>> /\ Panel!Answer(v, a)
  BY DEF Panel!PanelReport, Panel!Locked
<1>2. DownlineInv(was)
  BY <1>1 DEF AnswerInv
<1>3. was.had \subseteq rows
  BY <1>2 DEF DownlineInv
<1>4. rows \subseteq Panel!Rows("pnl", was.user, Panel!GetDownlineUsers(was.user))
  BY <1>2 DEF DownlineInv, Panel!Rows, Panel!Known, Panel!Settled, Panel!DownlineStats, Panel!BetsOf
<1>5. rows \subseteq DOMAIN panelBets
  BY DEF Panel!Rows, Panel!Known, Panel!Settled, Panel!DownlineStats, Panel!BetsOf
<1> HIDE DEF rows
<1>6. settled \subseteq rows /\ \A id \in settled : panelBets[id].status = "settled"
  BY DEF Panel!Settled
<1> HIDE DEF settled
<1>7. ASSUME NEW id \in settled
      PROVE  id \in DOMAIN panelPosted /\ panelBets[id].profit = panelPosted[id].amount
  BY <1>1, <1>5, <1>6 DEF StateInv, EndedInv, Ending
<1>8. pnl = Panel!PaidOn(settled)
  <2> DEFINE f == [id \in rows |-> panelBets[id].profit]
             g == [id \in settled |-> panelPosted[id].amount]
  <2>1. \A id \in settled : f[id] = g[id]
    BY <1>6, <1>7
  <2>2. IsFiniteSet(settled)
    BY <1>5, <1>6, FiniteBets
  <2>3. pnl = SumFunctionOnSet(f, settled) /\ Panel!PaidOn(settled) = SumFunctionOnSet(g, settled)
    BY PanelSum DEF Panel!PaidOn
  <2> HIDE DEF f, g, pnl
  <2> QED BY <2>1, <2>2, <2>3, SumSame
<1>9. /\ a.what = "report" /\ a.user = was.user /\ a.had = was.had /\ a.rows = rows
      /\ a.settled = settled /\ a.pnl = pnl
  OBVIOUS
<1> HIDE DEF a, pnl, was
<1>10. AnswerInv(a)
  BY <1>3, <1>4, <1>7, <1>8, <1>9 DEF AnswerInv, ReportInv
<1> QED BY <1>1, <1>10

\* One answer is given, and right; the others are as they were.
LEMMA AnsweredKeeps ==
  ASSUME PanelInv, NEW v \in Viewer, NEW a, AnswerInv(a), Panel!Answer(v, a)
  PROVE  PanelInv'
<1>1. /\ panelAnswer' = [panelAnswer EXCEPT ![v] = a]
      /\ UNCHANGED <<panelUsers, panelBets, panelListed, panelWrites, panelPosted>>
  BY DEF Panel!Answer
<1>2. StateInv' /\ Grows
  BY <1>1, SameState DEF PanelInv
<1>3. ASSUME NEW w \in Viewer PROVE AnswerInv(panelAnswer[w]) /\ AnswerInv(a)
  BY DEF PanelInv
<1>4. ASSUME NEW w \in Viewer PROVE AnswerInv(panelAnswer[w])'
  <2>1. panelAnswer'[w] = a \/ panelAnswer'[w] = panelAnswer[w]
    BY <1>1 DEF PanelInv
  <2> QED BY <1>2, <1>3, <2>1, AnswerStays
<1> QED BY <1>1, <1>2, <1>4 DEF PanelInv

\* No answer is given, and those given stay right.
LEMMA StepKeeps ==
  ASSUME PanelInv, StateInv', Grows, UNCHANGED panelAnswer
  PROVE  PanelInv'
<1>1. ASSUME NEW w \in Viewer PROVE AnswerInv(panelAnswer[w])'
  BY AnswerStays DEF PanelInv
<1> QED BY <1>1 DEF PanelInv

LEMMA PanelStarts ==
  ASSUME Panel!ReportsInit
  PROVE  PanelInv
<1>1. /\ panelBets = <<>> /\ panelPosted = <<>> /\ panelWrites = <<>>
      /\ panelListed = SelectionsOf /\ panelUsers = Staff \ Later
      /\ panelAnswer = [v \in Viewer |-> [what |-> "none"]]
  BY DEF Panel!ReportsInit, Panel!NoAnswer
<1>2. PlacedInv /\ EndedInv /\ WritesInv
  BY <1>1, RecordsAssumption DEF PlacedInv, EndedInv, WritesInv, RecordsAssumption
<1>3. \A v \in Viewer : AnswerInv(panelAnswer[v])
  <2>1. \A v \in Viewer : panelAnswer[v].what = "none"
    BY <1>1
  <2> QED BY <2>1 DEF AnswerInv
<1> QED BY <1>1, <1>2, <1>3, RecordsAssumption DEF PanelInv, StateInv, RecordsAssumption

LEMMA PanelInvKept ==
  ASSUME PanelInv, [Panel!ReportsNext]_panelVars
  PROVE  PanelInv'
<1>0. StateInv /\ \A v \in Viewer : AnswerInv(panelAnswer[v])
  BY DEF PanelInv
<1>1. CASE UNCHANGED panelVars
  BY <1>0, <1>1, SameState, StepKeeps DEF panelVars
<1>2. ASSUME NEW u \in Later, Panel!CreateUser(u) PROVE PanelInv'
  BY <1>0, <1>2, CreateUserKeeps, StepKeeps DEF Panel!CreateUser
<1>3. ASSUME NEW u \in panelUsers, NEW m \in Event, NEW s \in UNION {SelectionsOf[x] : x \in Event},
             NEW side \in {"back", "lay"}, NEW price \in Price, NEW stake \in Stake,
             Panel!PlaceAndMatch([user |-> u, market |-> m, selection |-> s, side |-> side,
               price |-> price, stake |-> stake, status |-> "matched", profit |-> 0])
      PROVE  PanelInv'
  <2>1. UNCHANGED panelAnswer
    BY <1>3 DEF Panel!PlaceAndMatch
  <2>2. StateInv' /\ Grows
    BY <1>0, <1>3, PlaceKeeps
  <2> QED BY <2>1, <2>2, StepKeeps
<1>4. ASSUME NEW m \in Event, NEW s \in SUBSET SelectionsOf[m], Panel!MergeMarket(m, s)
      PROVE  PanelInv'
  <2>1. UNCHANGED panelAnswer
    BY <1>4 DEF Panel!MergeMarket
  <2>2. StateInv' /\ Grows
    BY <1>0, <1>4, MergeMarketKeeps
  <2> QED BY <2>1, <2>2, StepKeeps
<1>5. ASSUME NEW m, NEW w, Panel!SettleMarket(m, w) \/ Panel!AllSettled
      PROVE  PanelInv'
  BY <1>0, <1>5, SameState, StepKeeps DEF Panel!SettleMarket, Panel!AllSettled
<1>6. ASSUME NEW m \in Event, Panel!VoidMarket(m) PROVE PanelInv'
  BY <1>0, <1>6, VoidMarketKeeps, StepKeeps DEF Panel!VoidMarket
<1>7. ASSUME NEW id, Panel!SettleBet(id) PROVE PanelInv'
  BY <1>0, <1>7, SettleBetKeeps, StepKeeps DEF Panel!SettleBet
<1>8. ASSUME NEW id, Panel!CashoutAccept(id) PROVE PanelInv'
  BY <1>0, <1>8, CashoutAcceptKeeps, StepKeeps DEF Panel!CashoutAccept
<1>9. ASSUME Panel!Write PROVE PanelInv'
  BY <1>0, <1>9, WriteKeeps, StepKeeps DEF Panel!Write
<1>10. ASSUME NEW v \in Viewer, NEW u, Panel!GetUserBets(v, u) PROVE PanelInv'
  BY <1>0, <1>10, BetsGot, AnsweredKeeps
<1>11. ASSUME NEW v \in Viewer, NEW u, NEW m \in Event, Panel!UserPositions(v, u, m)
       PROVE  PanelInv'
  BY <1>0, <1>11, PositionsAnswered, AnsweredKeeps
<1>12. ASSUME NEW v \in Viewer, NEW u, NEW m \in Event, Panel!FancyPositions(v, u, m)
       PROVE  PanelInv'
  BY <1>0, <1>12, LadderAnswered, AnsweredKeeps
<1>13. ASSUME NEW v \in Viewer, NEW kind, NEW u, Panel!ReadDownline(v, kind, u) PROVE PanelInv'
  BY <1>0, <1>13, DownlineRead, AnsweredKeeps
<1>14. ASSUME NEW v \in Viewer, Panel!PanelReport(v) PROVE PanelInv'
  BY <1>0, <1>14, ReportAnswered, AnsweredKeeps
<1>15. ASSUME NEW v \in Viewer, NEW id, Panel!CountBet(v, id) PROVE PanelInv'
  BY <1>0, <1>15, BetCounted, AnsweredKeeps
<1>16. CASE Panel!ReportsNext
  BY <1>2, <1>3, <1>4, <1>5, <1>6, <1>7, <1>8, <1>9, <1>10, <1>11, <1>12, <1>13, <1>14,
     <1>15, <1>16 DEF Panel!ReportsNext
<1> QED BY <1>1, <1>16

\* The invariant says what is promised of the answers.
LEMMA PanelPromises ==
  ASSUME PanelInv
  PROVE  /\ Panel!ReportsTypeOK /\ Panel!PositionIsPaid /\ Panel!LadderIsPaid
         /\ Panel!CountedAsPosted /\ Panel!ReportCovers
<1>0. StateInv /\ \A a \in {panelAnswer[v] : v \in Viewer} : AnswerInv(a)
  BY DEF PanelInv
<1>1. ASSUME NEW ids, ids \subseteq DOMAIN panelBets, NEW w, Panel!SettledWith(w, ids)
      PROVE  Pays(ids, w) = Panel!PaidOn(ids)
  <2>1. ASSUME NEW id \in ids
        PROVE  panelPosted[id].amount = Panel!Pnl(panelBets[id], w)
    BY <1>0, <1>1, <2>1 DEF StateInv, EndedInv, Panel!SettledWith
  <2>2. [id \in ids |-> panelPosted[id].amount] = [id \in ids |-> Panel!Pnl(panelBets[id], w)]
    BY <2>1
  <2> QED BY <2>2 DEF Pays, Panel!PaidOn
<1>2. Panel!PositionIsPaid
  BY <1>0, <1>1 DEF Panel!PositionIsPaid, Panel!Answers, AnswerInv, PositionsInv
<1>3. Panel!LadderIsPaid
  BY <1>0, <1>1 DEF Panel!LadderIsPaid, Panel!Answers, AnswerInv, LadderInv
<1>4. Panel!CountedAsPosted
  BY <1>0 DEF Panel!CountedAsPosted, Panel!Answers, AnswerInv, CountedInv
<1>5. Panel!ReportCovers
  BY <1>0 DEF Panel!ReportCovers, Panel!Answers, AnswerInv, ReportInv
<1>6. Panel!ReportsTypeOK
  <2>1. DOMAIN panelBets \subseteq Panel!Id
    BY <1>0, RecordsAssumption DEF StateInv, PlacedInv, Panel!Id, RecordsAssumption
  <2>2. Len(panelWrites) <= 2
    <3>1. CASE panelWrites = <<>>
      BY <3>1
    <3>2. CASE panelWrites # <<>>
      <4>1. PICK id \in DOMAIN panelPosted :
               \/ Both(id, "profit", "status") \/ Both(id, "status", "profit")
               \/ Last(id, "status") \/ Last(id, "profit")
        BY <1>0, <3>2 DEF StateInv, WritesInv
      <4>2. Len(panelWrites) = 1 \/ Len(panelWrites) = 2
        BY <4>1 DEF Both, Last
      <4>3. \A n : n = 1 \/ n = 2 => n <= 2
        OBVIOUS
      <4> QED BY <4>2, <4>3, Zenon
    <3> QED BY <3>1, <3>2
  <2> QED BY <1>0, <2>1, <2>2, BetTyped DEF StateInv, Panel!ReportsTypeOK
<1> QED BY <1>2, <1>3, <1>4, <1>5, <1>6

\* The four promises of Reports together, of any users, bets, requests and relistings (main.go,
\* store.go).
THEOREM PanelKept ==
  Panel!ReportsSpec =>
    [](/\ Panel!ReportsTypeOK /\ Panel!PositionIsPaid /\ Panel!LadderIsPaid
       /\ Panel!CountedAsPosted /\ Panel!ReportCovers)
<1>1. Panel!ReportsInit => PanelInv
  BY PanelStarts
<1>2. PanelInv /\ [Panel!ReportsNext]_(Panel!reportVars) => PanelInv'
  BY PanelInvKept DEF panelVars, Panel!reportVars
<1> DEFINE Promise == /\ Panel!ReportsTypeOK /\ Panel!PositionIsPaid /\ Panel!LadderIsPaid
                      /\ Panel!CountedAsPosted /\ Panel!ReportCovers
<1>3. PanelInv => Promise
  BY PanelPromises
<1> HIDE DEF Promise
<1>4. Panel!ReportsSpec => []Promise
  BY <1>1, <1>2, <1>3, PTL DEF Panel!ReportsSpec
<1> QED BY <1>4 DEF Promise

\* What players and the panel are shown of bets is what is paid (main.go), whatever "part" is.
THEOREM ReportsKept ==
  Panel!ReportsSpec => []ShownAsPaid
BY PanelKept, PTL DEF ShownAsPaid
================================================================================
