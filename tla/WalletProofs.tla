----------------------------- MODULE WalletProofs -----------------------------
(***************************************************************************)
(* Proofs about Wallet, for every set of users, goroutines and calls.      *)
(*                                                                         *)
(* The inductive invariant Inv adds to the types what the row lock is for: *)
(* a transaction past LockRow owns its user's row (LockInv), so what it    *)
(* computed from the row is still what the row asks for when it commits    *)
(* (DraftInv).  The refinement of Account and the safety properties        *)
(* follow; what the ledger adds up to needs that it is finite as well.     *)
(***************************************************************************)
EXTENDS Wallet, SumTheorems

Owns(p) == tx[p] # NoTx /\ tx[p].at \in {"cache", "commit"}

LockInv ==
  /\ \A p \in Proc : Owns(p) => rowLock[usr(p)] = p
  /\ \A u \in User : rowLock[u] # NoProc => Owns(rowLock[u]) /\ usr(rowLock[u]) = u

DraftInv ==
  \A p \in Proc : Owns(p) =>
    /\ Allowed(tx[p].req)
    /\ tx[p].req.op = "withdraw" => tx[p].req.amount > 0
    /\ tx[p].balance = NewBalance(tx[p].req)
    /\ tx[p].exposure = NewExposure(tx[p].req)
    /\ tx[p].at = "cache" => Reserves(tx[p].req)

\* A withdrawal in a transaction is positive: Withdraw turned others away.
WithdrawInv ==
  \A p \in Proc : tx[p] # NoTx /\ tx[p].req.op = "withdraw" => tx[p].req.amount > 0

Inv == TypeOK /\ LockInv /\ DraftInv /\ WithdrawInv

-----------------------------------------------------------------------------

\* A call in Requests has the fields of a Request, and only settles carry a
\* negative amount or a fee.
LEMMA RequestFields ==
  ASSUME NEW r \in Requests
  PROVE  /\ r.op \in Acc!Ops /\ r.user \in User /\ r.key \in Key
         /\ r.amount \in Int /\ r.fee \in Nat
         /\ r.op # "settle" => r.amount \in Nat /\ r.fee = 0
  BY WalletAssumption DEF Acc!AccountConstants, Acc!Request

\* What an allowed call writes to its row is never negative.
LEMMA UpdateIsNatural ==
  ASSUME NEW r \in Requests,
         balance \in [User -> Nat], exposure \in [User -> Nat],
         Allowed(r)
  PROVE  NewBalance(r) \in Nat /\ NewExposure(r) \in Nat
  <1>1. /\ r.op \in Acc!Ops /\ r.user \in User
        /\ r.amount \in Int /\ r.fee \in Nat
        /\ r.op # "settle" => r.amount \in Nat /\ r.fee = 0
    BY RequestFields
  <1>2. balance[r.user] \in Nat /\ exposure[r.user] \in Nat
    BY <1>1
  <1>3. NewBalance(r) \in Nat
    BY <1>1, <1>2 DEF NewBalance, Allowed, Acc!Payable, Acc!Available, Acc!Ops
  <1>4. NewExposure(r) \in Nat
    BY <1>1, <1>2 DEF NewExposure, Acc!ReleasedExposure, Acc!Ops
  <1> QED BY <1>3, <1>4

\* A call's ledger rows are ledger rows.
LEMMA RowsTyped ==
  ASSUME NEW r \in Requests
  PROVE  RowsOf(r) \subseteq Acc!LedgerRow
  <1>1. /\ r.op \in Acc!Ops /\ r.user \in User /\ r.key \in Key
        /\ r.amount \in Int /\ -r.amount \in Int /\ -r.fee \in Int
    BY RequestFields
  <1>2. \A k \in Acc!Kinds : \A a \in Int :
          Acc!Row(k, r.key, r.user, a) \in Acc!LedgerRow
    BY <1>1 DEF Acc!Row, Acc!LedgerRow
  <1>3. CASE r.op = "settle"
    BY <1>1, <1>2, <1>3 DEF RowsOf, Acc!SettlementRows, Acc!Kinds
  <1>4. CASE r.op # "settle"
    <2>1. (IF Reserves(r) THEN r.op ELSE "reference") \in Acc!Kinds
      BY <1>1 DEF Reserves, Acc!Kinds
    <2>2. (IF r.op \in {"hold", "withdraw"} THEN -r.amount ELSE r.amount) \in Int
      BY <1>1
    <2> QED BY <1>2, <1>4, <2>1, <2>2 DEF RowsOf
  <1> QED BY <1>3, <1>4

\* What is known of a goroutine's transaction.
LEMMA TxFields ==
  ASSUME TypeOK, NEW p \in Proc, tx[p] # NoTx
  PROVE  /\ tx[p] \in Tx
         /\ tx[p].at \in {"row", "cache", "commit"}
         /\ tx[p].req \in Requests
         /\ usr(p) \in User
         /\ tx[p].snapshot \in Nat
         /\ tx[p].balance \in Int /\ tx[p].exposure \in Int
  BY RequestFields DEF TypeOK, Tx, usr

-----------------------------------------------------------------------------

\* The invariant holds at the start.
THEOREM InitInv == Init => Inv
  <1> SUFFICES ASSUME Init PROVE Inv
    OBVIOUS
  <1> USE WalletAssumption DEF Init, Acc!AccountInit, Acc!AccountConstants
  <1>1. TypeOK
    BY DEF TypeOK
  <1>2. LockInv /\ DraftInv /\ WithdrawInv
    BY DEF LockInv, DraftInv, WithdrawInv, Owns
  <1> QED BY <1>1, <1>2 DEF Inv

\* The types survive every step; only LockRow and Commit need more than types.
LEMMA TypeStep ==
  ASSUME Inv, [Next]_vars
  PROVE  TypeOK'
  <1> USE DEF Inv, TypeOK
  <1>1. ASSUME NEW p \in Proc, NEW r \in Requests, Begin(p, r)
        PROVE  TypeOK'
    <2>1. r.user \in User
      BY RequestFields
    <2>2. [at |-> "row", req |-> r, snapshot |-> version[r.user],
           balance |-> 0, exposure |-> 0] \in Tx
      BY <2>1 DEF Tx
    <2> QED BY <1>1, <2>2 DEF Begin, dbVars
  <1>2. ASSUME NEW p \in Proc, LockRow(p)
        PROVE  TypeOK'
    <2>1. tx[p] \in Tx /\ usr(p) \in User /\ tx[p].req \in Requests
      BY <1>2, TxFields DEF LockRow, RowFree, At
    <2>2. NewBalance(tx[p].req) \in Nat /\ NewExposure(tx[p].req) \in Nat
      BY <1>2, <2>1, UpdateIsNatural DEF LockRow
    <2>3. Drafted(tx[p]) \in Tx
      BY <2>1, <2>2 DEF Drafted, Tx
    <2>4. tx' \in [Proc -> {NoTx} \cup Tx]
      BY <1>2, <2>3 DEF LockRow
    <2> QED BY <1>2, <2>4 DEF LockRow, dbVars
  <1>3. ASSUME NEW p \in Proc, Refuse(p) \/ NotSerializable(p)
        PROVE  TypeOK'
    BY <1>3 DEF Refuse, NotSerializable, Abandon, dbVars
  <1>4. ASSUME NEW p \in Proc, TouchCache(p)
        PROVE  TypeOK'
    <2>1. tx[p] \in Tx /\ usr(p) \in User /\ tx[p].req \in Requests
      BY <1>4, TxFields DEF TouchCache, At
    <2>2. CacheDelta(tx[p].req) \in Int
      BY <2>1, RequestFields DEF CacheDelta
    <2>3. tx' \in [Proc -> {NoTx} \cup Tx]
      BY <1>4, <2>1 DEF TouchCache, Tx
    <2> QED BY <1>4, <2>1, <2>2, <2>3 DEF TouchCache, dbVars
  <1>5. ASSUME NEW p \in Proc, Commit(p)
        PROVE  TypeOK'
    <2>1. tx[p] \in Tx /\ usr(p) \in User /\ tx[p].req \in Requests
      BY <1>5, TxFields DEF Commit, At
    <2>2. Owns(p)
      BY <1>5 DEF Commit, At, Owns
    <2>3. tx[p].balance \in Nat /\ tx[p].exposure \in Nat
      BY <2>1, <2>2, UpdateIsNatural DEF DraftInv
    <2>4. ledger' \subseteq Acc!LedgerRow
      BY <1>5, <2>1, RowsTyped DEF Commit, Acc!Post
    <2> QED BY <1>5, <2>1, <2>3, <2>4 DEF Commit
  <1>6. ASSUME NEW p \in Proc, CommitFails(p)
        PROVE  TypeOK'
    <2>1. tx[p] \in Tx /\ usr(p) \in User /\ tx[p].req \in Requests
      BY <1>6, TxFields DEF CommitFails, At
    <2>2. CacheDelta(tx[p].req) \in Int
      BY <2>1, RequestFields DEF CacheDelta
    <2> QED BY <1>6, <2>1, <2>2 DEF CommitFails, dbVars
  <1>7. ASSUME Crash
        PROVE  TypeOK'
    <2>1. \A p \in CrashedInFlight : usr(p) \in User
      BY TxFields DEF CrashedInFlight, At
    <2> QED BY <1>7, <2>1 DEF Crash, dbVars
  <1>8. ASSUME UNCHANGED vars
        PROVE  TypeOK'
    BY <1>8 DEF vars
  <1> QED BY <1>1, <1>2, <1>3, <1>4, <1>5, <1>6, <1>7, <1>8 DEF Next, Step

-----------------------------------------------------------------------------

\* A row has one owner: taking the lock needs it free, and only its owner
\* gives it back.
LEMMA LockStep ==
  ASSUME Inv, [Next]_vars
  PROVE  LockInv'
  <1> USE DEF Inv, TypeOK, LockInv, Owns, usr
  <1>1. ASSUME NEW p \in Proc, NEW r \in Requests, Begin(p, r)
        PROVE  LockInv'
    BY <1>1, WalletAssumption DEF Begin, NoTx
  <1>2. ASSUME NEW p \in Proc, LockRow(p)
        PROVE  LockInv'
    <2>1. tx[p] \in Tx /\ usr(p) \in User
      BY <1>2, TxFields DEF LockRow, RowFree, At
    <2>2. Drafted(tx[p]).req = tx[p].req /\ Drafted(tx[p]).at \in {"cache", "commit"}
          /\ Drafted(tx[p]) # NoTx
      BY DEF Drafted, NoTx
    <2>3. rowLock[usr(p)] = NoProc /\ tx'[p] = Drafted(tx[p])
          /\ \A q \in Proc \ {p} : tx'[q] = tx[q]
      BY <1>2 DEF LockRow, RowFree
    <2>4. ~Owns(p)
      BY <1>2 DEF LockRow, RowFree, At
    <2>5. rowLock'[usr(p)] = p /\ \A u \in User : u # usr(p) => rowLock'[u] = rowLock[u]
      BY <1>2, <2>1 DEF LockRow
    <2>6. ASSUME NEW q \in Proc, Owns(q)'
          PROVE  (rowLock[usr(q)] = q)'
      <3>1. CASE q = p
        BY <3>1, <2>1, <2>2, <2>3, <2>5
      <3>2. CASE q # p
        <4>1. Owns(q) /\ usr(q) = usr(q)' /\ usr(q) \in User
          BY <3>2, <2>3, <2>6, TxFields
        <4>2. usr(q) # usr(p)
          BY <4>1, <2>3, WalletAssumption
        <4> QED BY <4>1, <4>2, <2>5
      <3> QED BY <3>1, <3>2
    <2>7. ASSUME NEW u \in User, rowLock'[u] # NoProc
          PROVE  (Owns(rowLock[u]) /\ usr(rowLock[u]) = u)'
      <3>1. CASE u = usr(p)
        <4>1. rowLock'[u] = p
          BY <3>1, <2>5
        <4>2. Owns(p)' /\ usr(p)' = u
          BY <3>1, <2>2, <2>3
        <4> QED BY <4>1, <4>2, Zenon
      <3>2. CASE u # usr(p)
        <4>1. rowLock'[u] = rowLock[u] /\ Owns(rowLock[u]) /\ rowLock[u] \in Proc
              /\ usr(rowLock[u]) = u
          BY <3>2, <2>5, <2>7
        <4>2. tx'[rowLock[u]] = tx[rowLock[u]]
          BY <4>1, <2>3, <2>4
        <4> QED BY <4>1, <4>2
      <3> QED BY <3>1, <3>2
    <2> QED BY <2>6, <2>7
  <1>3. ASSUME NEW p \in Proc, Refuse(p) \/ NotSerializable(p)
        PROVE  LockInv'
    <2>1. ~Owns(p) /\ tx' = [tx EXCEPT ![p] = NoTx] /\ rowLock' = rowLock
      BY <1>3 DEF Refuse, NotSerializable, Abandon, RowFree, At
    <2> QED BY <2>1
  <1>4. ASSUME NEW p \in Proc, TouchCache(p)
        PROVE  LockInv'
    <2>1. tx[p] \in Tx /\ Owns(p)
      BY <1>4, TxFields DEF TouchCache, At
    <2>2. /\ tx'[p].at = "commit" /\ tx'[p].req = tx[p].req /\ tx'[p] # NoTx
          /\ \A q \in Proc \ {p} : tx'[q] = tx[q]
          /\ rowLock' = rowLock
      BY <1>4, <2>1 DEF TouchCache, Tx, NoTx
    <2> QED BY <2>1, <2>2
  <1>5. ASSUME NEW p \in Proc, Commit(p) \/ CommitFails(p)
        PROVE  LockInv'
    <2>1. Owns(p) /\ usr(p) \in User /\ rowLock[usr(p)] = p
      BY <1>5, TxFields DEF Commit, CommitFails, At
    <2>2. /\ tx' = [tx EXCEPT ![p] = NoTx]
          /\ rowLock' = [rowLock EXCEPT ![usr(p)] = NoProc]
      BY <1>5 DEF Commit, CommitFails
    <2>3. ASSUME NEW q \in Proc, Owns(q)'
          PROVE  (rowLock[usr(q)] = q)'
      <3>1. q # p /\ tx'[q] = tx[q]
        BY <2>2, <2>3
      <3>2. rowLock[usr(q)] = q /\ usr(q) \in User
        BY <3>1, <2>3, TxFields
      <3> QED BY <3>1, <3>2, <2>1, <2>2
    <2>4. ASSUME NEW u \in User, rowLock'[u] # NoProc
          PROVE  (Owns(rowLock[u]) /\ usr(rowLock[u]) = u)'
      <3>1. u # usr(p) /\ rowLock'[u] = rowLock[u]
        BY <2>1, <2>2, <2>4
      <3>2. rowLock[u] # p /\ rowLock[u] \in Proc /\ Owns(rowLock[u])
            /\ usr(rowLock[u]) = u
        BY <3>1, <2>4
      <3>3. tx'[rowLock[u]] = tx[rowLock[u]]
        BY <3>2, <2>2
      <3> QED BY <3>1, <3>2, <3>3
    <2> QED BY <2>3, <2>4
  <1>6. ASSUME Crash
        PROVE  LockInv'
    BY <1>6 DEF Crash
  <1>7. ASSUME UNCHANGED vars
        PROVE  LockInv'
    BY <1>7 DEF vars
  <1> QED BY <1>1, <1>2, <1>3, <1>4, <1>5, <1>6, <1>7 DEF Next, Step

\* What a call computes depends on its user's row alone.
LEMMA SameRow ==
  ASSUME NEW r, balance'[r.user] = balance[r.user], exposure'[r.user] = exposure[r.user]
  PROVE  /\ Allowed(r)' <=> Allowed(r)
         /\ NewBalance(r)' = NewBalance(r)
         /\ NewExposure(r)' = NewExposure(r)
  BY DEF Allowed, Acc!Payable, NewBalance, NewExposure, Acc!Available, Acc!ReleasedExposure

\* A draft stays what the row asks for: between LockRow and the commit only
\* the owner of the row's lock can write the row.
LEMMA DraftStep ==
  ASSUME Inv, [Next]_vars
  PROVE  DraftInv'
  <1> USE DEF Inv
  <1> DEFINE Good(q) ==
        /\ Allowed(tx[q].req)
        /\ tx[q].req.op = "withdraw" => tx[q].req.amount > 0
        /\ tx[q].balance = NewBalance(tx[q].req)
        /\ tx[q].exposure = NewExposure(tx[q].req)
        /\ tx[q].at = "cache" => Reserves(tx[q].req)
  <1>a. ASSUME NEW q \in Proc, Owns(q)', tx'[q] = tx[q],
               balance'[usr(q)] = balance[usr(q)],
               exposure'[usr(q)] = exposure[usr(q)]
        PROVE  Good(q)'
    <2>1. Owns(q) /\ Good(q)
      BY <1>a DEF Owns, DraftInv
    <2>2. PICK t : t = tx[q]
      OBVIOUS
    <2>3. /\ Allowed(t.req)' <=> Allowed(t.req)
          /\ NewBalance(t.req)' = NewBalance(t.req)
          /\ NewExposure(t.req)' = NewExposure(t.req)
      BY <1>a, <2>2, SameRow DEF usr
    <2> QED BY <1>a, <2>1, <2>2, <2>3 DEF Reserves
  <1>1. ASSUME NEW p \in Proc, NEW r \in Requests, Begin(p, r)
        PROVE  DraftInv'
    <2>1. ASSUME NEW q \in Proc, Owns(q)'
          PROVE  Good(q)'
      <3>1. q # p /\ tx'[q] = tx[q]
        BY <1>1, <2>1 DEF Begin, Owns, TypeOK
      <3> QED BY <1>a, <1>1, <2>1, <3>1 DEF Begin, dbVars
    <2> QED BY <2>1 DEF DraftInv
  <1>2. ASSUME NEW p \in Proc, LockRow(p)
        PROVE  DraftInv'
    <2>1. ASSUME NEW q \in Proc \ {p}, Owns(q)'
          PROVE  Good(q)'
      <3>1. tx'[q] = tx[q]
        BY <1>2, <2>1 DEF LockRow, TypeOK
      <3> QED BY <1>a, <1>2, <2>1, <3>1 DEF LockRow, dbVars
    <2>2. Good(p)'
      <3>1. PICK t : t = tx[p]
        OBVIOUS
      <3>2. tx'[p] = Drafted(t)
        BY <1>2, <3>1 DEF LockRow, TypeOK
      <3>3. /\ Allowed(t.req)' <=> Allowed(t.req)
            /\ NewBalance(t.req)' = NewBalance(t.req)
            /\ NewExposure(t.req)' = NewExposure(t.req)
        BY <1>2, SameRow DEF LockRow, dbVars
      <3>4. t.req.op = "withdraw" => t.req.amount > 0
        BY <1>2, <3>1 DEF WithdrawInv, LockRow, RowFree, At
      <3> QED BY <1>2, <3>1, <3>2, <3>3, <3>4 DEF LockRow, Drafted, Reserves
    <2> QED BY <2>1, <2>2 DEF DraftInv
  <1>3. ASSUME NEW p \in Proc, Refuse(p) \/ NotSerializable(p)
        PROVE  DraftInv'
    <2>1. ASSUME NEW q \in Proc, Owns(q)'
          PROVE  Good(q)'
      <3>1. tx'[q] = tx[q] /\ UNCHANGED dbVars
        BY <1>3, <2>1 DEF Refuse, NotSerializable, Abandon, Owns, TypeOK
      <3> QED BY <1>a, <2>1, <3>1 DEF dbVars
    <2> QED BY <2>1 DEF DraftInv
  <1>4. ASSUME NEW p \in Proc, TouchCache(p)
        PROVE  DraftInv'
    <2>1. ASSUME NEW q \in Proc \ {p}, Owns(q)'
          PROVE  Good(q)'
      <3>1. tx'[q] = tx[q]
        BY <1>4, <2>1 DEF TouchCache, TypeOK
      <3> QED BY <1>a, <1>4, <2>1, <3>1 DEF TouchCache, dbVars
    <2>2. Good(p)'
      <3>1. PICK t : t = tx[p]
        OBVIOUS
      <3>2. t \in Tx /\ Owns(p)
        BY <1>4, <3>1, TxFields DEF TouchCache, At, Owns
      <3>3. tx'[p] = [t EXCEPT !.at = "commit"]
        BY <1>4, <3>1 DEF TouchCache, TypeOK
      <3>4. /\ tx'[p].at = "commit" /\ tx'[p].req = t.req
            /\ tx'[p].balance = t.balance /\ tx'[p].exposure = t.exposure
        BY <3>2, <3>3 DEF Tx
      <3>5. /\ Allowed(t.req)' <=> Allowed(t.req)
            /\ NewBalance(t.req)' = NewBalance(t.req)
            /\ NewExposure(t.req)' = NewExposure(t.req)
        BY <1>4, SameRow DEF TouchCache, dbVars
      <3>6. Good(p)
        BY <3>2 DEF DraftInv
      <3> QED BY <3>1, <3>4, <3>5, <3>6
    <2> QED BY <2>1, <2>2 DEF DraftInv
  <1>5. ASSUME NEW p \in Proc, Commit(p) \/ CommitFails(p)
        PROVE  DraftInv'
    <2>1. ASSUME NEW q \in Proc, Owns(q)'
          PROVE  Good(q)'
      <3>1. q # p /\ tx'[q] = tx[q]
        BY <1>5, <2>1 DEF Commit, CommitFails, Owns, TypeOK
      <3>2. Owns(q) /\ Owns(p)
        BY <1>5, <2>1, <3>1 DEF Owns, Commit, CommitFails, At
      <3>3. usr(q) # usr(p) /\ usr(q) \in User
        BY <3>1, <3>2, TxFields DEF LockInv, Owns
      <3>4. balance'[usr(q)] = balance[usr(q)] /\ exposure'[usr(q)] = exposure[usr(q)]
        BY <1>5, <3>3 DEF Commit, CommitFails, TypeOK, dbVars
      <3> QED BY <1>a, <2>1, <3>1, <3>4
    <2> QED BY <2>1 DEF DraftInv
  <1>6. ASSUME Crash
        PROVE  DraftInv'
    BY <1>6 DEF Crash, DraftInv, Owns
  <1>7. ASSUME UNCHANGED vars
        PROVE  DraftInv'
    <2>1. ASSUME NEW q \in Proc, Owns(q)'
          PROVE  Good(q)'
      BY <1>a, <1>7, <2>1 DEF vars
    <2> QED BY <2>1 DEF DraftInv
  <1> QED BY <1>1, <1>2, <1>3, <1>4, <1>5, <1>6, <1>7 DEF Next, Step

\* Only Begin opens a transaction, and not for a withdrawal of nothing.
LEMMA WithdrawStep ==
  ASSUME Inv, [Next]_vars
  PROVE  WithdrawInv'
  <1> USE DEF Inv, TypeOK, WithdrawInv
  <1>1. ASSUME NEW p \in Proc, NEW r \in Requests, Begin(p, r)
        PROVE  WithdrawInv'
    BY <1>1 DEF Begin
  <1>2. ASSUME NEW p \in Proc, LockRow(p)
        PROVE  WithdrawInv'
    BY <1>2 DEF LockRow, RowFree, At, Drafted
  <1>3. ASSUME NEW p \in Proc, Refuse(p) \/ NotSerializable(p)
        PROVE  WithdrawInv'
    BY <1>3 DEF Refuse, NotSerializable, Abandon
  <1>4. ASSUME NEW p \in Proc, TouchCache(p)
        PROVE  WithdrawInv'
    <2>1. tx[p] \in Tx /\ tx[p] # NoTx
      BY <1>4, TxFields DEF TouchCache, At
    <2>2. tx'[p].req = tx[p].req /\ \A q \in Proc \ {p} : tx'[q] = tx[q]
      BY <1>4, <2>1 DEF TouchCache, Tx
    <2> QED BY <2>1, <2>2
  <1>5. ASSUME NEW p \in Proc, Commit(p) \/ CommitFails(p)
        PROVE  WithdrawInv'
    BY <1>5 DEF Commit, CommitFails
  <1>6. CASE Crash
    BY <1>6 DEF Crash
  <1>7. CASE UNCHANGED vars
    BY <1>7 DEF vars
  <1> QED BY <1>1, <1>2, <1>3, <1>4, <1>5, <1>6, <1>7 DEF Next, Step

\* Inv is inductive.
THEOREM Invariance == Spec => []Inv
  <1>1. Inv /\ [Next]_vars => Inv'
    BY TypeStep, LockStep, DraftStep, WithdrawStep DEF Inv
  <1> QED BY InitInv, <1>1, PTL DEF Spec

\* Every variable has its type; in particular balance >= 0 and exposure >= 0,
\* which the CHECK constraints of auth.users would otherwise have to refuse.
THEOREM TypeCorrect == Spec => []TypeOK
  BY Invariance, PTL DEF Inv

-----------------------------------------------------------------------------

\* What Commit does to the account is what Account lets the call do, on the
\* balance and exposure of the moment of the commit.
LEMMA CommitApplies ==
  ASSUME Inv, NEW p \in Proc, Commit(p)
  PROVE  /\ Acc!Apply(tx[p].req)
         /\ tx[p].req \in Requests
  <1> DEFINE r == tx[p].req
  <1>1. /\ r \in Requests /\ r.user \in User /\ usr(p) = r.user
        /\ r.op \in Acc!Ops /\ r.amount \in Int /\ r.fee \in Nat
        /\ r.op # "settle" => r.amount \in Nat /\ r.fee = 0
    BY TxFields, RequestFields DEF Inv, Commit, At, usr
  <1>2. /\ Allowed(r)
        /\ r.op = "withdraw" => r.amount > 0
        /\ tx[p].balance = NewBalance(r) /\ tx[p].exposure = NewExposure(r)
    BY DEF Inv, DraftInv, Owns, Commit, At
  <1>3. /\ balance' = [balance EXCEPT ![r.user] = NewBalance(r)]
        /\ exposure' = [exposure EXCEPT ![r.user] = NewExposure(r)]
        /\ Acc!Post(RowsOf(r))
    BY <1>1, <1>2 DEF Commit
  <1>4. balance \in [User -> Nat] /\ exposure \in [User -> Nat]
    BY DEF Inv, TypeOK
  <1> HIDE DEF r
  <1>5. ASSUME r.op = "hold"
        PROVE  Acc!Apply(r)
    <2>1. balance' = balance /\ exposure' = [exposure EXCEPT ![r.user] = @ + r.amount]
      BY <1>1, <1>3, <1>4, <1>5 DEF NewBalance, NewExposure
    <2>2. RowsOf(r) = {Acc!Row("hold", r.key, r.user, -r.amount)}
      BY <1>5 DEF RowsOf, Reserves
    <2> QED BY <1>2, <1>3, <1>5, <2>1, <2>2 DEF Acc!Apply, Acc!Post, Acc!HoldFunds, Allowed
  <1>6. ASSUME r.op = "release"
        PROVE  Acc!Apply(r)
    <2>1. balance' = balance
          /\ exposure' = [exposure EXCEPT ![r.user] = Acc!ReleasedExposure(r.user, r.amount)]
      BY <1>1, <1>3, <1>4, <1>6 DEF NewBalance, NewExposure
    <2>2. RowsOf(r) = {Acc!Row("release", r.key, r.user, r.amount)}
      BY <1>6 DEF RowsOf, Reserves
    <2> QED BY <1>3, <1>6, <2>1, <2>2 DEF Acc!Apply, Acc!Post, Acc!ReleaseFunds
  <1>7. ASSUME r.op = "settle"
        PROVE  Acc!Apply(r)
    <2>1. exposure' = exposure
          /\ balance' = [balance EXCEPT ![r.user] = @ + r.amount - r.fee]
      BY <1>1, <1>3, <1>4, <1>7 DEF NewBalance, NewExposure
    <2>2. RowsOf(r) = Acc!SettlementRows(r.user, r.key, r.amount, r.fee)
      BY <1>7 DEF RowsOf
    <2> QED BY <1>2, <1>3, <1>7, <2>1, <2>2 DEF Acc!Apply, Acc!Post, Acc!SettleBet, Acc!Payable, Allowed
  <1>8. ASSUME r.op = "deposit"
        PROVE  Acc!Apply(r)
    <2>1. exposure' = exposure /\ balance' = [balance EXCEPT ![r.user] = @ + r.amount]
      <3>1. r.fee = 0 /\ NewBalance(r) = balance[r.user] + r.amount
        BY <1>1, <1>4, <1>8 DEF NewBalance
      <3> QED BY <1>1, <1>3, <1>4, <1>8, <3>1 DEF NewExposure
    <2>2. RowsOf(r) = {Acc!Row("reference", r.key, r.user, r.amount)}
      BY <1>8 DEF RowsOf, Reserves
    <2> QED BY <1>3, <1>8, <2>1, <2>2 DEF Acc!Apply, Acc!Post, Acc!Deposit
  <1>9. ASSUME r.op = "withdraw"
        PROVE  Acc!Apply(r)
    <2>1. exposure' = exposure /\ balance' = [balance EXCEPT ![r.user] = @ - r.amount]
      BY <1>1, <1>3, <1>4, <1>9 DEF NewBalance, NewExposure
    <2>2. RowsOf(r) = {Acc!Row("reference", r.key, r.user, -r.amount)}
      BY <1>9 DEF RowsOf, Reserves
    <2> QED BY <1>2, <1>3, <1>9, <2>1, <2>2 DEF Acc!Apply, Acc!Post, Acc!Withdraw, Allowed
  <1> QED BY <1>1, <1>5, <1>6, <1>7, <1>8, <1>9 DEF Acc!Ops, r

\* Only a commit writes the committed account.
LEMMA OnlyCommitWrites ==
  ASSUME [Next]_vars, ~\E p \in Proc : Commit(p)
  PROVE  UNCHANGED dbVars
  BY DEF Next, Step, vars, dbVars, Begin, LockRow, Refuse, NotSerializable,
     Abandon, TouchCache, CommitFails, Crash

\* The transactions, locks and snapshots of concurrent calls implement the
\* atomic operations of Account: no update is lost, and no balance check is
\* stale by the time its call commits.
THEOREM Refinement == Spec => ImplementsAccount
  <1>1. Init => Acc!AccountInit
    BY DEF Init
  <1>2. Inv /\ [Next]_vars => [Acc!AccountNext]_(Acc!accountVars)
    <2> SUFFICES ASSUME Inv, [Next]_vars
                 PROVE  Acc!AccountNext \/ UNCHANGED Acc!accountVars
      OBVIOUS
    <2>1. CASE \E p \in Proc : Commit(p)
      BY <2>1, CommitApplies DEF Acc!AccountNext
    <2>2. CASE ~\E p \in Proc : Commit(p)
      BY <2>2, OnlyCommitWrites DEF dbVars, Acc!accountVars
    <2> QED BY <2>1, <2>2
  <1> QED BY <1>1, <1>2, Invariance, PTL DEF Spec, ImplementsAccount, Acc!AccountSpec

\* A committed step that reserves money or pays a withdrawal out leaves the
\* exposure covered by the balance.
THEOREM Solvency == Spec => NeverOvercommits
  <1> DEFINE Covered == \A u \in User :
        \/ exposure'[u] > exposure[u]
        \/ \E row \in ledger' \ ledger :
             row.user = u /\ row.kind = "reference" /\ row.amount < 0
        => exposure'[u] <= balance'[u]
  <1>1. ASSUME Inv, [Next]_vars
        PROVE  Covered
    <2>0. balance \in [User -> Nat] /\ exposure \in [User -> Nat]
      BY <1>1 DEF Inv, TypeOK
    <2>1. CASE ~\E p \in Proc : Commit(p)
      BY <1>1, <2>0, <2>1, OnlyCommitWrites DEF dbVars
    <2>2. ASSUME NEW p \in Proc, Commit(p)
          PROVE  Covered
      <3>1. Acc!Apply(tx[p].req) /\ tx[p].req \in Requests
        BY <1>1, <2>2, CommitApplies
      <3>2. PICK r \in Requests : Acc!Apply(r)
        BY <3>1
      <3>3. /\ r.op \in Acc!Ops /\ r.user \in User /\ r.key \in Key
            /\ r.amount \in Int /\ r.fee \in Nat
            /\ r.op # "settle" => r.amount \in Nat /\ r.fee = 0
        BY RequestFields
      <3>4. CASE r.op = "hold" /\ Acc!HoldFunds(r.user, r.amount, r.key)
        BY <2>0, <3>3, <3>4 DEF Acc!HoldFunds, Acc!Available, Acc!Post, Acc!Row
      <3>5. CASE r.op = "release" /\ Acc!ReleaseFunds(r.user, r.amount, r.key)
        BY <2>0, <3>3, <3>5 DEF Acc!ReleaseFunds, Acc!ReleasedExposure, Acc!Post, Acc!Row
      <3>6. CASE r.op = "settle" /\ Acc!SettleBet(r.user, r.key, r.amount, r.fee)
        BY <2>0, <3>3, <3>6 DEF Acc!SettleBet, Acc!Payable, Acc!SettlementRows, Acc!Post, Acc!Row
      <3>7. CASE r.op = "deposit" /\ Acc!Deposit(r.user, r.amount, r.key)
        BY <2>0, <3>3, <3>7 DEF Acc!Deposit, Acc!Post, Acc!Row
      <3>8. CASE r.op = "withdraw" /\ Acc!Withdraw(r.user, r.amount, r.key)
        BY <2>0, <3>3, <3>8 DEF Acc!Withdraw, Acc!Available, Acc!Post, Acc!Row
      <3> QED BY <3>2, <3>4, <3>5, <3>6, <3>7, <3>8 DEF Acc!Apply
    <2> QED BY <2>1, <2>2
  <1> QED BY <1>1, Invariance, PTL DEF Spec, NeverOvercommits
-----------------------------------------------------------------------------

\* What of a user's exposure Redis has ahead of the row changes only with the
\* row's lock or the transaction of its owner.
LEMMA SameInFlight ==
  ASSUME NEW u \in User, rowLock'[u] = rowLock[u],
         rowLock[u] # NoProc => tx'[rowLock[u]] = tx[rowLock[u]]
  PROVE  InFlight(u)' = InFlight(u)
  <1>1. CASE rowLock[u] = NoProc
    BY <1>1 DEF InFlight
  <1>2. CASE rowLock[u] # NoProc
    <2>1. PICK t : t = tx[rowLock[u]]
      OBVIOUS
    <2>2. InFlight(u) = (IF t.at = "commit" /\ Reserves(t.req) THEN CacheDelta(t.req) ELSE 0)
      BY <1>2, <2>1 DEF InFlight
    <2>3. InFlight(u)' = (IF t.at = "commit" /\ Reserves(t.req) THEN CacheDelta(t.req) ELSE 0)
      BY <1>2, <2>1 DEF InFlight, Reserves, CacheDelta
    <2> QED BY <2>2, <2>3
  <1> QED BY <1>1, <1>2

\* What Redis is ahead by while p owns its user's row.
LEMMA OwnerInFlight ==
  ASSUME Inv, NEW p \in Proc, Owns(p)
  PROVE  /\ usr(p) \in User /\ tx[p].req \in Requests
         /\ InFlight(usr(p)) = IF tx[p].at = "commit" /\ Reserves(tx[p].req)
                               THEN CacheDelta(tx[p].req) ELSE 0
  BY TxFields, WalletAssumption DEF Inv, LockInv, Owns, InFlight

\* The cached exposure stays in step with the row and its owner.
LEMMA CacheStep ==
  ASSUME Inv, CacheTracksExposure, [Next]_vars
  PROVE  CacheTracksExposure'
  <1> USE DEF Inv, TypeOK
  <1>a. ASSUME NEW u \in User \ drifted, rowLock'[u] = rowLock[u],
               rowLock[u] # NoProc => tx'[rowLock[u]] = tx[rowLock[u]],
               cache'[u] = cache[u], exposure'[u] = exposure[u]
        PROVE  cache'[u] = exposure'[u] + InFlight(u)'
    <2>1. InFlight(u)' = InFlight(u)
      BY <1>a, SameInFlight
    <2> QED BY <1>a, <2>1 DEF CacheTracksExposure
  <1>b. ASSUME NEW p \in Proc, ~Owns(p), NEW u \in User, rowLock[u] # NoProc
        PROVE  rowLock[u] # p
    BY <1>b DEF LockInv
  <1>c. ASSUME NEW p \in Proc, Owns(p), NEW u \in User, u # usr(p)
        PROVE  rowLock[u] # p
    BY <1>c, WalletAssumption DEF LockInv
  <1>1. ASSUME NEW p \in Proc, NEW r \in Requests, Begin(p, r)
        PROVE  CacheTracksExposure'
    <2>1. ~Owns(p)
      BY <1>1 DEF Begin, Owns
    <2> QED BY <1>1, <1>a, <1>b, <2>1 DEF Begin, dbVars, CacheTracksExposure
  <1>2. ASSUME NEW p \in Proc, Refuse(p) \/ NotSerializable(p)
        PROVE  CacheTracksExposure'
    <2>1. ~Owns(p)
      BY <1>2 DEF Refuse, NotSerializable, RowFree, At, Owns
    <2> QED BY <1>2, <1>a, <1>b, <2>1
            DEF Refuse, NotSerializable, Abandon, dbVars, CacheTracksExposure
  <1>3. ASSUME NEW p \in Proc, LockRow(p)
        PROVE  CacheTracksExposure'
    <2>1. ~Owns(p) /\ usr(p) \in User /\ rowLock[usr(p)] = NoProc
      BY <1>3, TxFields DEF LockRow, RowFree, At, Owns
    <2>2. PICK t : t = tx[p]
      OBVIOUS
    <2>3. rowLock'[usr(p)] = p /\ tx'[p] = Drafted(t) /\ UNCHANGED <<cache, exposure, drifted>>
      BY <1>3, <2>1, <2>2 DEF LockRow, dbVars
    <2>4. InFlight(usr(p)) = 0
      BY <2>1 DEF InFlight
    <2>5. ~(Drafted(t).at = "commit" /\ Reserves(Drafted(t).req))
      BY DEF Drafted
    <2>6. ASSUME NEW u \in User \ drifted, u = usr(p)
          PROVE  cache'[u] = exposure'[u] + InFlight(u)'
      <3>1. rowLock'[u] = p /\ InFlight(u) = 0
        BY <2>3, <2>4, <2>6
      <3>2. InFlight(u)' = 0
        BY <3>1, <2>3, <2>5 DEF InFlight, Reserves
      <3> QED BY <3>1, <3>2, <2>3 DEF CacheTracksExposure
    <2>7. ASSUME NEW u \in User \ drifted, u # usr(p)
          PROVE  cache'[u] = exposure'[u] + InFlight(u)'
      <3>1. rowLock'[u] = rowLock[u] /\ (rowLock[u] # NoProc => tx'[rowLock[u]] = tx[rowLock[u]])
        BY <1>3, <1>b, <2>1, <2>7 DEF LockRow
      <3> QED BY <1>a, <2>3, <3>1
    <2> QED BY <2>3, <2>6, <2>7 DEF CacheTracksExposure
  <1>4. ASSUME NEW p \in Proc, TouchCache(p)
        PROVE  CacheTracksExposure'
    <2>1. Owns(p) /\ tx[p] \in Tx /\ tx[p].at = "cache" /\ Reserves(tx[p].req)
      BY <1>4, TxFields DEF TouchCache, At, Owns, DraftInv
    <2>2. usr(p) \in User /\ InFlight(usr(p)) = 0 /\ CacheDelta(tx[p].req) \in Int
      BY <2>1, OwnerInFlight, RequestFields DEF CacheDelta
    <2>3. /\ tx'[p].at = "commit" /\ tx'[p].req = tx[p].req
          /\ \A q \in Proc \ {p} : tx'[q] = tx[q]
          /\ rowLock' = rowLock /\ exposure' = exposure /\ drifted \subseteq drifted'
      BY <1>4, <2>1 DEF TouchCache, dbVars, Tx
    <2>4. ASSUME NEW u \in User \ drifted', u = usr(p)
          PROVE  cache'[u] = exposure'[u] + InFlight(u)'
      <3>1. cache' = [cache EXCEPT ![usr(p)] = @ + CacheDelta(tx[p].req)]
        BY <1>4, <2>4 DEF TouchCache
      <3>2. rowLock[u] = p /\ p # NoProc
        BY <2>1, <2>4, WalletAssumption DEF LockInv
      <3>3. InFlight(u)' = CacheDelta(tx[p].req)
        <4>1. PICK r : r = tx[p].req
          OBVIOUS
        <4>2. InFlight(u)' = CacheDelta(r)
          BY <2>1, <2>3, <3>2, <4>1 DEF InFlight, Reserves, CacheDelta
        <4> QED BY <4>1, <4>2
      <3> QED BY <2>2, <2>3, <2>4, <3>1, <3>3 DEF CacheTracksExposure
    <2>5. ASSUME NEW u \in User \ drifted', u # usr(p)
          PROVE  cache'[u] = exposure'[u] + InFlight(u)'
      <3>1. rowLock[u] # NoProc => tx'[rowLock[u]] = tx[rowLock[u]]
        BY <1>c, <2>1, <2>3, <2>5
      <3>2. cache'[u] = cache[u]
        BY <1>4, <2>5 DEF TouchCache
      <3> QED BY <1>a, <2>3, <2>5, <3>1, <3>2
    <2> QED BY <2>4, <2>5 DEF CacheTracksExposure
  <1>5. ASSUME NEW p \in Proc, Commit(p)
        PROVE  CacheTracksExposure'
    <2>1. Owns(p) /\ tx[p].at = "commit" /\ p # NoProc
      BY <1>5, WalletAssumption DEF Commit, At, Owns
    <2>2. PICK r \in Requests : r = tx[p].req
      BY <2>1, OwnerInFlight
    <2>3. /\ usr(p) \in User /\ r.user = usr(p) /\ r.op \in Acc!Ops /\ r.amount \in Int
          /\ tx[p].exposure = NewExposure(r)
          /\ InFlight(usr(p)) = IF Reserves(r) THEN CacheDelta(r) ELSE 0
      BY <2>1, <2>2, OwnerInFlight, RequestFields DEF usr, DraftInv
    <2>4. /\ rowLock'[usr(p)] = NoProc
          /\ \A q \in Proc \ {p} : tx'[q] = tx[q]
          /\ \A u \in User : u # usr(p) => rowLock'[u] = rowLock[u] /\ exposure'[u] = exposure[u]
          /\ exposure'[usr(p)] = NewExposure(r) /\ cache' = cache
          /\ drifted \subseteq drifted' /\ (Clamps(r) => usr(p) \in drifted')
      BY <1>5, <2>2, <2>3 DEF Commit
    <2>5. ASSUME NEW u \in User \ drifted', u = usr(p)
          PROVE  cache'[u] = exposure'[u] + InFlight(u)'
      <3>1. InFlight(u)' = 0
        BY <2>4, <2>5 DEF InFlight
      <3>2. cache[u] = exposure[u] + (IF Reserves(r) THEN CacheDelta(r) ELSE 0)
        BY <2>3, <2>4, <2>5 DEF CacheTracksExposure
      <3>3. exposure[u] \in Nat /\ ~Clamps(r)
        BY <2>4, <2>5
      <3>4. NewExposure(r) = exposure[u] + (IF Reserves(r) THEN CacheDelta(r) ELSE 0)
        BY <2>3, <2>5, <3>3 DEF NewExposure, Acc!ReleasedExposure, Reserves, CacheDelta, Clamps
      <3> QED BY <2>4, <2>5, <3>1, <3>2, <3>4, <3>3
    <2>6. ASSUME NEW u \in User \ drifted', u # usr(p)
          PROVE  cache'[u] = exposure'[u] + InFlight(u)'
      <3>1. rowLock[u] # NoProc => tx'[rowLock[u]] = tx[rowLock[u]]
        BY <1>c, <2>1, <2>4, <2>6
      <3> QED BY <1>a, <2>4, <2>6, <3>1
    <2> QED BY <2>5, <2>6 DEF CacheTracksExposure
  <1>6. ASSUME NEW p \in Proc, CommitFails(p)
        PROVE  CacheTracksExposure'
    <2>1. Owns(p) /\ tx[p].at = "commit" /\ p # NoProc
      BY <1>6, WalletAssumption DEF CommitFails, At, Owns
    <2>2. /\ usr(p) \in User
          /\ InFlight(usr(p)) = IF Reserves(tx[p].req) THEN CacheDelta(tx[p].req) ELSE 0
          /\ CacheDelta(tx[p].req) \in Int
      BY <2>1, OwnerInFlight, RequestFields DEF CacheDelta
    <2>3. /\ rowLock'[usr(p)] = NoProc
          /\ \A q \in Proc \ {p} : tx'[q] = tx[q]
          /\ \A u \in User : u # usr(p) => rowLock'[u] = rowLock[u]
          /\ exposure' = exposure /\ drifted \subseteq drifted'
      BY <1>6, <2>2 DEF CommitFails, dbVars
    <2>4. ASSUME NEW u \in User \ drifted', u = usr(p)
          PROVE  cache'[u] = exposure'[u] + InFlight(u)'
      <3>1. InFlight(u)' = 0
        BY <2>3, <2>4 DEF InFlight
      <3>2. cache'[u] = cache[u] - (IF Reserves(tx[p].req) THEN CacheDelta(tx[p].req) ELSE 0)
        BY <1>6, <2>2, <2>4 DEF CommitFails
      <3> QED BY <2>2, <2>3, <2>4, <3>1, <3>2 DEF CacheTracksExposure
    <2>5. ASSUME NEW u \in User \ drifted', u # usr(p)
          PROVE  cache'[u] = exposure'[u] + InFlight(u)'
      <3>1. rowLock[u] # NoProc => tx'[rowLock[u]] = tx[rowLock[u]]
        BY <1>c, <2>1, <2>3, <2>5
      <3>2. cache'[u] = cache[u]
        BY <1>6, <2>5 DEF CommitFails
      <3> QED BY <1>a, <2>3, <2>5, <3>1, <3>2
    <2> QED BY <2>4, <2>5 DEF CacheTracksExposure
  <1>7. ASSUME Crash
        PROVE  CacheTracksExposure'
    <2>1. ASSUME NEW u \in User \ drifted'
          PROVE  cache'[u] = exposure'[u] + InFlight(u)'
      <3>1. InFlight(u)' = 0
        BY <1>7 DEF Crash, InFlight
      <3>2. InFlight(u) = 0
        BY <1>7, <2>1 DEF Crash, InFlight, CrashedInFlight, At, LockInv, Owns
      <3> QED BY <1>7, <2>1, <3>1, <3>2 DEF Crash, dbVars, CacheTracksExposure
    <2> QED BY <2>1 DEF CacheTracksExposure
  <1>8. ASSUME UNCHANGED vars
        PROVE  CacheTracksExposure'
    BY <1>8, <1>a DEF vars, CacheTracksExposure
  <1> QED BY <1>1, <1>2, <1>3, <1>4, <1>5, <1>6, <1>7, <1>8 DEF Next, Step

\* Risk checks that read the cached exposure read the row's, plus what the
\* call holding the row has already sent, for every user whose cache no Redis
\* error, ill-timed crash or clamped release has made drift.
THEOREM CacheFollows == Spec => []CacheTracksExposure
  <1>1. Init => CacheTracksExposure
    BY DEF Init, Acc!AccountInit, CacheTracksExposure, InFlight
  <1> QED BY <1>1, CacheStep, Invariance, PTL DEF Spec

-----------------------------------------------------------------------------
\* What the ledger's rows add up to.

\* The total of a set of rows, as a sum over the set.
LEMMA TotalIsSum ==
  ASSUME NEW rows
  PROVE  Total(rows) = SumFunctionOnSet([row \in rows |-> row.amount], rows)
BY DEF Total, SumFunction

\* Nothing adds up to zero, and one row to its amount.
LEMMA TotalOne ==
  ASSUME NEW row \in Acc!LedgerRow
  PROVE  Total({}) = 0 /\ Total({row}) = row.amount
<1> DEFINE amounts == [x \in {row} |-> x.amount]
<1>1. Total({}) = 0
  BY TotalIsSum, SumEmpty
<1>2. IsFiniteSet({}) /\ \A x \in {} : amounts[x] \in Int
  BY FS_EmptySet
<1>3. amounts[row] = row.amount /\ row.amount \in Int /\ row \notin {}
  BY DEF Acc!LedgerRow
<1>4. Total({row}) = SumFunctionOnSet(amounts, {} \cup {row})
  BY TotalIsSum
<1> HIDE DEF amounts
<1>5. SumFunctionOnSet(amounts, {} \cup {row}) = SumFunctionOnSet(amounts, {}) + amounts[row]
  BY ONLY <1>2, <1>3, SumAdd
<1>6. SumFunctionOnSet(amounts, {}) = 0
  BY SumEmpty
<1> QED BY <1>1, <1>3, <1>4, <1>5, <1>6

\* Rows that have no row in common add up separately.
LEMMA TotalUnion ==
  ASSUME NEW A \in SUBSET Acc!LedgerRow, NEW B \in SUBSET Acc!LedgerRow,
         IsFiniteSet(A), IsFiniteSet(B), A \cap B = {}
  PROVE  Total(A \cup B) = Total(A) + Total(B) /\ Total(A) \in Int /\ Total(B) \in Int
<1> DEFINE all == A \cup B
           amounts == [x \in all |-> x.amount]
<1>1. /\ IsFiniteSet(all) /\ A \in SUBSET all /\ all \ A = B
      /\ \A x \in all : amounts[x] \in Int
  BY FS_Union DEF Acc!LedgerRow
<1>2. Total(all) = SumFunctionOnSet(amounts, all)
  BY TotalIsSum
<1>3. ASSUME NEW S \in SUBSET all, IsFiniteSet(S)
      PROVE  Total(S) = SumFunctionOnSet(amounts, S)
  <2> DEFINE own == [x \in S |-> x.amount]
  <2>1. \A x \in S : own[x] = amounts[x]
    OBVIOUS
  <2>2. Total(S) = SumFunctionOnSet(own, S)
    BY TotalIsSum
  <2> HIDE DEF own, amounts, all
  <2>3. SumFunctionOnSet(own, S) = SumFunctionOnSet(amounts, S)
    BY ONLY <1>3, <2>1, SumSame
  <2> QED BY <2>2, <2>3
<1>4. Total(A) = SumFunctionOnSet(amounts, A) /\ Total(B) = SumFunctionOnSet(amounts, B)
  BY <1>1, <1>3
<1> HIDE DEF all, amounts
<1>5. SumFunctionOnSet(amounts, all)
        = SumFunctionOnSet(amounts, A) + SumFunctionOnSet(amounts, all \ A)
  BY ONLY <1>1, SumDisjoint
<1>6. SumFunctionOnSet(amounts, A) \in Int /\ SumFunctionOnSet(amounts, B) \in Int
  <2>1. (\A x \in A : amounts[x] \in Int) /\ (\A x \in B : amounts[x] \in Int)
    BY <1>1
  <2> QED BY <2>1, SumInt
<1> QED BY <1>1, <1>2, <1>4, <1>5, <1>6 DEF all

OfKinds(rows, u, kinds) == {row \in rows : row.user = u /\ row.kind \in kinds}

\* What new rows add to what a user's rows of some kinds add up to.
LEMMA PostedTotal ==
  ASSUME TypeOK, IsFiniteSet(ledger), NEW rows \in SUBSET Acc!LedgerRow,
         IsFiniteSet(rows), rows \cap ledger = {}, ledger' = ledger \cup rows,
         NEW u, NEW kinds
  PROVE  /\ Total(RowsFor(u, kinds)') = Total(RowsFor(u, kinds))
                                         + Total(OfKinds(rows, u, kinds))
         /\ Total(RowsFor(u, kinds)) \in Int
<1> DEFINE old == RowsFor(u, kinds)
           new == OfKinds(rows, u, kinds)
<1>1. RowsFor(u, kinds)' = old \cup new
  BY DEF RowsFor, OfKinds
<1>2. old \subseteq ledger /\ new \subseteq rows
  BY DEF RowsFor, OfKinds
<1>3. /\ old \in SUBSET Acc!LedgerRow /\ new \in SUBSET Acc!LedgerRow
      /\ IsFiniteSet(old) /\ IsFiniteSet(new) /\ old \cap new = {}
  BY <1>2, FS_Subset DEF TypeOK
<1> HIDE DEF old, new
<1>4. Total(old \cup new) = Total(old) + Total(new) /\ Total(old) \in Int
  BY ONLY <1>3, TotalUnion
<1> QED BY <1>1, <1>4 DEF old, new

\* What the ledger says of an account, for kinds that book its balance and its exposure.
BalanceKinds == {"settlement", "commission", "reference"}
ExposureKinds == {"hold", "release"}

HistoryInv == IsFiniteSet(ledger) /\ LedgerExplainsAccount

\* The rows of a call, all of its user, and what they add up to.
LEMMA RowsTotal ==
  ASSUME NEW r \in Requests
  PROVE  /\ IsFiniteSet(RowsOf(r)) /\ \A row \in RowsOf(r) : row.user = r.user
         /\ Total(OfKinds(RowsOf(r), r.user, BalanceKinds))
              = IF r.op \in {"deposit", "settle"} THEN r.amount - r.fee
                ELSE IF r.op = "withdraw" THEN -r.amount ELSE 0
         /\ Total(OfKinds(RowsOf(r), r.user, ExposureKinds))
              = IF r.op = "hold" THEN -r.amount
                ELSE IF r.op = "release" THEN r.amount ELSE 0
<1> DEFINE rows == RowsOf(r)
           inBalance == OfKinds(rows, r.user, BalanceKinds)
           inExposure == OfKinds(rows, r.user, ExposureKinds)
<1>1. /\ r.op \in Acc!Ops /\ r.user \in User /\ r.key \in Key
      /\ r.amount \in Int /\ r.fee \in Nat
      /\ r.op # "settle" => r.amount \in Nat /\ r.fee = 0
  BY RequestFields
<1>2. rows \subseteq Acc!LedgerRow
  BY RowsTyped
<1>3. CASE r.op = "settle"
  <2> DEFINE won == Acc!Row("settlement", r.key, r.user, r.amount)
             fee == Acc!Row("commission", r.key, r.user, -r.fee)
  <2>1. /\ won.user = r.user /\ won.kind = "settlement" /\ won.amount = r.amount
        /\ fee.user = r.user /\ fee.kind = "commission" /\ fee.amount = -r.fee
    BY DEF Acc!Row
  <2>2. won # fee
    BY <2>1
  <2>3. rows = {won} \cup {row \in {fee} : r.fee > 0}
    BY <1>3 DEF RowsOf, Acc!SettlementRows
  <2> HIDE DEF won, fee, rows
  <2>4. CASE r.fee > 0
    <3>1. rows = {won} \cup {fee} /\ won \in Acc!LedgerRow /\ fee \in Acc!LedgerRow
      BY <1>2, <2>3, <2>4
    <3>2. inBalance = {won} \cup {fee} /\ inExposure = {}
      BY <2>1, <3>1 DEF OfKinds, BalanceKinds, ExposureKinds
    <3>3. /\ {won} \in SUBSET Acc!LedgerRow /\ {fee} \in SUBSET Acc!LedgerRow
          /\ IsFiniteSet({won}) /\ IsFiniteSet({fee}) /\ {won} \cap {fee} = {}
      BY <2>2, <3>1, FS_Singleton
    <3>4. Total({won} \cup {fee}) = Total({won}) + Total({fee})
      BY ONLY <3>3, TotalUnion
    <3>5. Total({won}) = r.amount /\ Total({fee}) = -r.fee /\ Total({}) = 0
      BY <2>1, <3>1, TotalOne
    <3>6. IsFiniteSet(rows)
      BY <3>1, <3>3, FS_Union
    <3>7. Total(inBalance) = r.amount - r.fee
      BY <1>1, <3>2, <3>4, <3>5
    <3> QED BY <1>3, <2>1, <3>1, <3>2, <3>5, <3>6, <3>7 DEF rows
  <2>5. CASE ~(r.fee > 0)
    <3>1. rows = {won} /\ won \in Acc!LedgerRow /\ r.fee = 0
      BY <1>1, <1>2, <2>3, <2>5
    <3>2. inBalance = {won} /\ inExposure = {}
      BY <2>1, <3>1 DEF OfKinds, BalanceKinds, ExposureKinds
    <3>3. Total({won}) = r.amount /\ Total({}) = 0
      BY <2>1, <3>1, TotalOne
    <3>4. IsFiniteSet(rows)
      BY <3>1, FS_Singleton
    <3>5. Total(inBalance) = r.amount
      BY ONLY <3>2, <3>3
    <3>6. r.amount = r.amount - r.fee
      BY ONLY <1>1, <3>1
    <3>7. Total(inBalance) = r.amount - r.fee
      BY ONLY <3>5, <3>6
    <3> QED BY <1>3, <2>1, <3>1, <3>2, <3>3, <3>4, <3>7 DEF rows
  <2> QED BY <2>4, <2>5
<1>4. CASE r.op # "settle"
  <2> DEFINE kind == IF Reserves(r) THEN r.op ELSE "reference"
             amount == IF r.op \in {"hold", "withdraw"} THEN -r.amount ELSE r.amount
             one == Acc!Row(kind, r.key, r.user, amount)
  <2>1. rows = {one}
    BY <1>4 DEF RowsOf
  <2>2. one \in Acc!LedgerRow
    BY <1>2, <2>1
  <2>3. one.user = r.user /\ one.kind = kind /\ one.amount = amount
    BY DEF Acc!Row
  <2> HIDE DEF one, rows
  <2>4. Total({one}) = amount /\ Total({}) = 0
    BY <2>2, <2>3, TotalOne
  <2>5. IsFiniteSet(rows)
    BY <2>1, FS_Singleton
  <2>6. CASE Reserves(r)
    <3>1. kind \in ExposureKinds /\ kind \notin BalanceKinds
      BY <2>6 DEF Reserves, ExposureKinds, BalanceKinds
    <3>2. inBalance = {} /\ inExposure = {one}
      BY <2>1, <2>3, <3>1 DEF OfKinds
    <3>3. Total(inBalance) = 0 /\ Total(inExposure) = amount
      BY <2>4, <3>2
    <3> QED BY <2>1, <2>3, <2>5, <2>6, <3>3 DEF rows, Reserves
  <2>7. CASE ~Reserves(r)
    <3>1. kind \in BalanceKinds /\ kind \notin ExposureKinds
      BY <2>7 DEF ExposureKinds, BalanceKinds
    <3>2. inBalance = {one} /\ inExposure = {}
      BY <2>1, <2>3, <3>1 DEF OfKinds
    <3>3. Total(inBalance) = amount /\ Total(inExposure) = 0
      BY <2>4, <3>2
    <3>4. r.op \in {"deposit", "withdraw"} /\ r.fee = 0 /\ r.amount \in Nat
      BY <1>1, <1>4, <2>7 DEF Reserves, Acc!Ops
    <3> QED BY <2>1, <2>3, <2>5, <3>3, <3>4 DEF rows
  <2> QED BY <2>6, <2>7
<1> QED BY <1>3, <1>4

\* A commit under references that are new posts all of its rows; under one that is taken,
\* the account's history is lost, and the user counted in reused.
LEMMA CommitPosts ==
  ASSUME Inv, HistoryInv, NEW p \in Proc, Commit(p)
  PROVE  HistoryInv'
<1>1. PICK r \in Requests : r = tx[p].req
  BY TxFields DEF Commit, At, Inv
<1>2. /\ r.op \in Acc!Ops /\ r.user \in User /\ r.amount \in Int /\ r.fee \in Nat
      /\ r.op # "settle" => r.amount \in Nat /\ r.fee = 0
  BY RequestFields
<1>3. /\ IsFiniteSet(RowsOf(r)) /\ RowsOf(r) \subseteq Acc!LedgerRow
      /\ \A row \in RowsOf(r) : row.user = r.user
  BY RowsTotal, RowsTyped
<1>4. /\ balance' = [balance EXCEPT ![r.user] = NewBalance(r)]
      /\ exposure' = [exposure EXCEPT ![r.user] = NewExposure(r)]
      /\ ledger' = ledger \cup {row \in RowsOf(r) : ~Acc!IsPosted(row)}
      /\ drifted' = IF Clamps(r) THEN drifted \cup {r.user} ELSE drifted
      /\ reused' = IF \E row \in RowsOf(r) : Acc!IsPosted(row)
                   THEN reused \cup {r.user} ELSE reused
  <2>1. tx[p].balance = NewBalance(r) /\ tx[p].exposure = NewExposure(r)
    BY <1>1 DEF Inv, DraftInv, Owns, Commit, At
  <2> QED BY <1>1, <2>1 DEF Commit, Acc!Post, usr
<1>5. balance \in [User -> Nat] /\ exposure \in [User -> Nat] /\ TypeOK
  BY DEF Inv, TypeOK
<1>6. IsFiniteSet(ledger) /\ IsFiniteSet(ledger')
  <2>1. IsFiniteSet({row \in RowsOf(r) : ~Acc!IsPosted(row)})
    BY <1>3, FS_Subset
  <2> QED BY <1>4, <2>1, FS_Union DEF HistoryInv
<1>7. ASSUME NEW u \in User \ reused', u # r.user
      PROVE  /\ balance'[u] = OpeningBalance[u] + Total(RowsFor(u, BalanceKinds)')
             /\ u \notin drifted' => exposure'[u] = -Total(RowsFor(u, ExposureKinds)')
  <2>1. \A kinds : RowsFor(u, kinds)' = RowsFor(u, kinds)
    BY <1>3, <1>4, <1>7 DEF RowsFor
  <2>2. balance'[u] = balance[u] /\ exposure'[u] = exposure[u]
        /\ u \notin reused /\ (u \notin drifted' => u \notin drifted)
    BY <1>4, <1>5, <1>7
  <2> QED BY <2>1, <2>2 DEF HistoryInv, LedgerExplainsAccount, BalanceKinds, ExposureKinds
<1>8. ASSUME NEW u \in User \ reused', u = r.user
      PROVE  /\ balance'[u] = OpeningBalance[u] + Total(RowsFor(u, BalanceKinds)')
             /\ u \notin drifted' => exposure'[u] = -Total(RowsFor(u, ExposureKinds)')
  <2>1. \A row \in RowsOf(r) : ~Acc!IsPosted(row)
    BY <1>4, <1>8
  <2>2. ledger' = ledger \cup RowsOf(r)
    BY <1>4, <2>1
  <2>3. RowsOf(r) \cap ledger = {}
    BY <2>1 DEF Acc!IsPosted
  <2>4. /\ Total(RowsFor(u, BalanceKinds)')
             = Total(RowsFor(u, BalanceKinds)) + Total(OfKinds(RowsOf(r), u, BalanceKinds))
        /\ Total(RowsFor(u, ExposureKinds)')
             = Total(RowsFor(u, ExposureKinds)) + Total(OfKinds(RowsOf(r), u, ExposureKinds))
        /\ Total(RowsFor(u, BalanceKinds)) \in Int /\ Total(RowsFor(u, ExposureKinds)) \in Int
    BY <1>3, <1>5, <1>6, <2>2, <2>3, PostedTotal
  <2>5. PICK b \in Int, e \in Int : /\ b = Total(RowsFor(u, BalanceKinds))
                                    /\ e = Total(RowsFor(u, ExposureKinds))
    BY <2>4
  <2>6. balance'[u] = NewBalance(r) /\ exposure'[u] = NewExposure(r)
        /\ u \notin reused /\ (u \notin drifted' => u \notin drifted /\ ~Clamps(r))
    BY <1>4, <1>5, <1>8
  <2>7. OpeningBalance[u] \in Nat
    BY WalletAssumption DEF Acc!AccountConstants
  <2>8. balance[u] = OpeningBalance[u] + b /\ (u \notin drifted => exposure[u] = -e)
    BY <2>5, <2>6 DEF HistoryInv, LedgerExplainsAccount, BalanceKinds, ExposureKinds
  <2>9. balance'[u] = OpeningBalance[u] + Total(RowsFor(u, BalanceKinds)')
    <3>1. NewBalance(r) = IF r.op \in {"deposit", "settle"} THEN balance[u] + r.amount - r.fee
                          ELSE IF r.op = "withdraw" THEN balance[u] - r.amount ELSE balance[u]
      BY <1>8 DEF NewBalance
    <3>2. Total(RowsFor(u, BalanceKinds)')
            = b + (IF r.op \in {"deposit", "settle"} THEN r.amount - r.fee
                   ELSE IF r.op = "withdraw" THEN -r.amount ELSE 0)
      BY <1>8, <2>4, <2>5, RowsTotal
    <3> QED BY <1>2, <2>6, <2>7, <2>8, <3>1, <3>2
  <2>10. ASSUME u \notin drifted'
         PROVE  exposure'[u] = -Total(RowsFor(u, ExposureKinds)')
    <3>1. exposure[u] = -e /\ exposure[u] \in Nat /\ ~Clamps(r)
      BY <1>5, <2>6, <2>8, <2>10
    <3>2. NewExposure(r) = IF r.op = "hold" THEN exposure[u] + r.amount
                           ELSE IF r.op = "release" THEN exposure[u] - r.amount
                           ELSE exposure[u]
      BY <1>2, <1>8, <3>1 DEF NewExposure, Acc!ReleasedExposure, Clamps
    <3>3. Total(RowsFor(u, ExposureKinds)')
            = e + (IF r.op = "hold" THEN -r.amount
                   ELSE IF r.op = "release" THEN r.amount ELSE 0)
      BY <1>8, <2>4, <2>5, RowsTotal
    <3> QED BY <1>2, <2>6, <3>1, <3>2, <3>3
  <2> QED BY <2>9, <2>10
<1>9. LedgerExplainsAccount'
  BY <1>7, <1>8 DEF LedgerExplainsAccount, BalanceKinds, ExposureKinds
<1> QED BY <1>6, <1>9 DEF HistoryInv

\* No other step changes what the ledger has to explain.
LEMMA HistoryStep ==
  ASSUME Inv, HistoryInv, [Next]_vars
  PROVE  HistoryInv'
<1>1. CASE \E p \in Proc : Commit(p)
  BY <1>1, CommitPosts
<1>2. CASE ~\E p \in Proc : Commit(p)
  <2>1. UNCHANGED dbVars
    BY <1>2, OnlyCommitWrites
  <2>2. reused' = reused /\ drifted \subseteq drifted'
    BY <1>2 DEF Next, Step, vars, Begin, LockRow, Refuse, NotSerializable, Abandon,
                TouchCache, CommitFails, Crash
  <2>3. LedgerExplainsAccount'
    BY <2>1, <2>2 DEF HistoryInv, LedgerExplainsAccount, dbVars, RowsFor
  <2> QED BY <2>1, <2>3 DEF HistoryInv, dbVars
<1> QED BY <1>1, <1>2

\* GetBalance and the statements may read the ledger as the account's history: for
\* whoever never reused a reference its rows add up to the balance, through every
\* interleaving of calls, failed commit and crash, and to the exposure too unless a
\* release was clamped.
THEOREM LedgerExplains == Spec => []LedgerExplainsAccount
<1>1. Init => HistoryInv
  <2> SUFFICES ASSUME Init PROVE HistoryInv
    OBVIOUS
  <2>1. ledger = {} /\ balance = OpeningBalance /\ exposure = [u \in User |-> 0]
    BY DEF Init, Acc!AccountInit
  <2>2. IsFiniteSet(ledger)
    BY <2>1, FS_EmptySet
  <2>3. \A u, kinds : RowsFor(u, kinds) = {}
    BY <2>1 DEF RowsFor
  <2>4. Total({}) = 0
    BY TotalIsSum, SumEmpty
  <2>5. \A u \in User : OpeningBalance[u] \in Nat
    BY WalletAssumption DEF Acc!AccountConstants
  <2>6. LedgerExplainsAccount
    <3>1. ASSUME NEW u \in User
          PROVE  /\ balance[u] = OpeningBalance[u] + Total(RowsFor(u, BalanceKinds))
                 /\ exposure[u] = -Total(RowsFor(u, ExposureKinds))
      <4>1. Total(RowsFor(u, BalanceKinds)) = 0 /\ Total(RowsFor(u, ExposureKinds)) = 0
        BY <2>3, <2>4
      <4>2. balance[u] = OpeningBalance[u] /\ exposure[u] = 0 /\ OpeningBalance[u] \in Nat
        BY <2>1, <2>5
      <4>3. balance[u] = OpeningBalance[u] + Total(RowsFor(u, BalanceKinds))
        BY ONLY <4>1, <4>2
      <4>4. exposure[u] = -Total(RowsFor(u, ExposureKinds))
        <5>1. PICK n \in Int : n = Total(RowsFor(u, ExposureKinds)) /\ n = 0
          BY ONLY <4>1
        <5>2. -n = 0 - n
          BY ONLY n \in Int
        <5>3. 0 - n = 0
          BY ONLY <5>1
        <5>4. -n = -Total(RowsFor(u, ExposureKinds))
          BY ONLY <5>1, Zenon
        <5> QED BY ONLY <4>2, <5>2, <5>3, <5>4, Zenon
      <4> QED BY ONLY <4>3, <4>4
    <3> QED BY <3>1 DEF LedgerExplainsAccount, BalanceKinds, ExposureKinds
  <2> QED BY <2>2, <2>6 DEF HistoryInv
<1>2. HistoryInv => LedgerExplainsAccount
  BY DEF HistoryInv
<1> QED BY <1>1, <1>2, HistoryStep, Invariance, PTL DEF Spec
=============================================================================
