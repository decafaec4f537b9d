---------------------------- MODULE ServicesProofs ----------------------------
(***************************************************************************)
(* Proofs about six of the services MCServices runs side by side, for      *)
(* every value of their constants: Cashier (any users, payments, rounds,   *)
(* goroutines and failures), RateLimiter (any rate, burst and addresses),  *)
(* OddsFeed (any budget, sports and tiers), Tokens (any persons, tokens    *)
(* and goroutines), SafePlay (any players, calls and limits) and           *)
(* FraudWatch (any number of analyses, any window and threshold).          *)
(*                                                                         *)
(* Cashier.  Inv says what the unique row of a round is for: whoever is    *)
(* about to settle a round put its row there, is alone with it, and the    *)
(* round is not settled yet (SettlingInv).  A payment has no such row:     *)
(* goroutines that found it pending will each credit it or fail to, but    *)
(* none joins them after the first has completed it (CreditInv).           *)
(*                                                                         *)
(* RowsInv says what the rows of the ledger are for: a row's step has been *)
(* taken, so that a step that is taken once posts a row that is new.  With *)
(* the sums of SumTheorems the ledger explains every account, and no step  *)
(* makes or loses money.                                                   *)
(*                                                                         *)
(* RateLimiter.  RateInv, which adds to what was let through since a time  *)
(* what may be spent now, is inductive.  A forgotten bucket gives nothing  *)
(* away because it is full.                                                *)
(*                                                                         *)
(* OddsFeed.  The credits the client believes in are at most those there   *)
(* are and those of answers it did not get (BeliefInv), so that a fetch    *)
(* that asks the budget leaves what the pause keeps; the initial load asks *)
(* no one, and BudgetInv counts what is still to come of it.               *)
(*                                                                         *)
(* Tokens.  A key of the blacklist lives exactly as long as the token it   *)
(* is for (BlacklistInv), and a rotation writes for the owner of the token *)
(* it was given (OwnToken), so that it takes one key and puts one.         *)
(*                                                                         *)
(* SafePlay. A row says of an exclusion that did not miss it what its user *)
(* wished, so a check that read it cannot let the user bet (ExclusionInv); *)
(* papers that are approved while a submission is under way were approved  *)
(* during it (ApprovalInv).                                                *)
(*                                                                         *)
(* FraudWatch. A bet that is counted was added, and stays in the sorted    *)
(* set as long as no bet begun is a window later (FreqInv): the last to    *)
(* count of a burst counts all of it.                                      *)
(***************************************************************************)
EXTENDS Cashier, RateLimiter, OddsFeed, Tokens, SafePlay, FraudWatch, SumTheorems


SettlingInv ==
  \A p \in Proc : req[p].at = "settle" =>
    /\ req[p].round \in casinoBets /\ paid[req[p].round] = 0
    /\ \A q \in Proc : req[q].at = "settle" /\ req[q].round = req[p].round => q = p

CreditInv ==
  /\ \A p \in Proc : req[p].at = "complete" => payments[req[p].id] # NoPayment
  /\ \A p \in Proc : req[p].at = "credit" => payments[req[p].id].status = "completed"
  /\ CreditedByOverlapOnly

Inv == TypeOK /\ RoundsSettledOnce /\ SettlingInv /\ CreditInv

-----------------------------------------------------------------------------

\* What a goroutine knows of the request it is serving.
LEMMA RequestFields ==
  ASSUME TypeOK, NEW p \in Proc
  PROVE  /\ req[p].at \in {"insert", "hold"} =>
              /\ req[p] \in [at : {"insert", "hold"}, user : User, id : PaymentId,
                             amount : Amount]
              /\ req[p].user \in User /\ req[p].id \in PaymentId /\ req[p].amount \in Amount
         /\ req[p].at \in {"complete", "credit"} =>
              /\ req[p] \in [at : {"complete", "credit"}, id : PaymentId]
              /\ req[p].id \in PaymentId
         /\ req[p].at \in {"exists", "bet", "settle"} =>
              /\ req[p] \in [at : {"exists", "bet", "settle"}, round : Round]
              /\ req[p].round \in Round
<1>1. req[p] \in Request
  BY DEF TypeOK
<1> QED BY <1>1 DEF Request, Idle

\* A step to another stage of the same request.
LEMMA GotoKeepsType ==
  ASSUME TypeOK, NEW p \in Proc, NEW t,
         \/ req[p].at = "insert" /\ t = "hold"
         \/ req[p].at = "complete" /\ t = "credit"
         \/ req[p].at \in {"exists", "bet"} /\ t \in {"bet", "settle"}
  PROVE  [req EXCEPT ![p].at = t] \in [Proc -> Request]
<1>1. [req[p] EXCEPT !.at = t] \in Request
  BY RequestFields DEF Request
<1> QED BY <1>1 DEF TypeOK

\* A goroutine that has answered is idle.
LEMMA AnswerKeepsType ==
  ASSUME TypeOK, NEW p \in Proc
  PROVE  [req EXCEPT ![p] = Idle] \in [Proc -> Request]
BY DEF TypeOK, Request

\* Rows of the ledger, posted for a payment, a round or a transfer.
LedgerRow ==
  [kind : CashierKinds, user : User, amount : Int,
   key : PaymentId \cup Round \cup TransferKey]

\* Posting rows of the right type.
LEMMA PostKeepsType ==
  ASSUME ledger \subseteq LedgerRow, NEW rows \in SUBSET LedgerRow,
         ledger' = ledger \cup {row \in rows : ~Acc!IsPosted(row)}
  PROVE  ledger' \subseteq LedgerRow
OBVIOUS

\* A row that is made of typed parts.
LEMMA RowTyped ==
  ASSUME NEW kind \in CashierKinds, NEW key \in PaymentId \cup Round \cup TransferKey,
         NEW u \in User, NEW a \in Int
  PROVE  Acc!Row(kind, key, u, a) \in LedgerRow
BY DEF Acc!Row, LedgerRow

-----------------------------------------------------------------------------
\* The types.

\* The invariant holds at the start.
LEMMA InitInv == Init => Inv
<1> SUFFICES ASSUME Init PROVE Inv
  OBVIOUS
<1> USE CashierAssumption DEF Init, Acc!AccountInit
<1>1. TypeOK
  BY DEF TypeOK, Request
<1>2. RoundsSettledOnce
  BY DEF RoundsSettledOnce
<1>3. \A p \in Proc : req[p].at = "idle"
  BY DEF Idle
<1>4. SettlingInv
  BY <1>3 DEF SettlingInv
<1>5. CreditInv
  <2>1. \A i \in PaymentId : credits[i] = 0 /\ unmade[i] = 0 /\ ~IsCompleted(i)
    BY DEF IsCompleted, NoPayment
  <2> QED BY <1>3, <2>1 DEF CreditInv, CreditedByOverlapOnly
<1> QED BY <1>1, <1>2, <1>4, <1>5 DEF Inv

\* The steps of payments keep the types.
LEMMA PaymentTypes ==
  ASSUME Inv
  PROVE  /\ \A u \in User, i \in PaymentId, a \in Amount :
              InitiateDeposit(u, i, a) => TypeOK'
         /\ \A p \in Proc, u \in User, i \in PaymentId, a \in Amount :
              InitiateWithdrawal(p, u, i, a) => TypeOK'
         /\ \A p \in Proc : InsertWithdrawal(p) => TypeOK'
         /\ \A p \in Proc : HoldWithdrawal(p) => TypeOK'
         /\ \A p \in Proc : HoldRefused(p) => TypeOK'
         /\ \A p \in Proc, i \in PaymentId : HandleCryptoWebhook(p, i) => TypeOK'
         /\ \A p \in Proc : CompleteDeposit(p) => TypeOK'
         /\ \A p \in Proc : CreditDeposit(p) => TypeOK'
<1> USE DEF Inv
<1>0. Amount \subseteq Nat
  BY CashierAssumption
<1>1. ASSUME NEW u \in User, NEW i \in PaymentId, NEW a \in Amount,
             InitiateDeposit(u, i, a)
      PROVE  TypeOK'
  BY <1>1 DEF InitiateDeposit, Insert, TypeOK, creditVars, Payment, moneyVars
<1>2. ASSUME NEW p \in Proc, NEW u \in User, NEW i \in PaymentId, NEW a \in Amount,
             InitiateWithdrawal(p, u, i, a)
      PROVE  TypeOK'
  <2>1. [at |-> "insert", user |-> u, id |-> i, amount |-> a] \in Request
    BY DEF Request
  <2> QED BY <1>2, <2>1 DEF InitiateWithdrawal, Begin, TypeOK, creditVars, moneyVars
<1>3. ASSUME NEW p \in Proc, InsertWithdrawal(p)
      PROVE  TypeOK'
  <2>1. req' \in [Proc -> Request]
    BY <1>3, GotoKeepsType DEF InsertWithdrawal, Goto, At
  <2>2. payments' \in [PaymentId -> Payment \cup {NoPayment}]
    BY <1>3, RequestFields DEF InsertWithdrawal, Insert, At, TypeOK, creditVars, Payment
  <2> QED BY <1>3, <2>1, <2>2 DEF InsertWithdrawal, TypeOK, creditVars, moneyVars, countVars
<1>4. ASSUME NEW p \in Proc, HoldWithdrawal(p)
      PROVE  TypeOK'
  <2>1. /\ req[p].user \in User /\ req[p].id \in PaymentId
        /\ req[p].amount \in Nat /\ -req[p].amount \in Int
    <3>1. /\ req[p].user \in User /\ req[p].id \in PaymentId
          /\ req[p].amount \in Nat
      BY <1>4, <1>0, RequestFields DEF HoldWithdrawal, At
    <3> QED BY <3>1
  <2>2. req' \in [Proc -> Request]
    BY <1>4, AnswerKeepsType DEF HoldWithdrawal, Answer
  <2>3. exposure' \in [User -> Nat]
    BY <1>4, <2>1 DEF HoldWithdrawal, Acc!HoldFunds, TypeOK, creditVars
  <2>4. ledger' \subseteq LedgerRow
    <3>1. "hold" \in CashierKinds
      BY DEF CashierKinds, Acc!Kinds
    <3>2. {Acc!Row("hold", req[p].id, req[p].user, -req[p].amount)} \in SUBSET LedgerRow
      BY <2>1, <3>1, RowTyped
    <3> QED BY <1>4, <3>2, PostKeepsType
            DEF HoldWithdrawal, Acc!HoldFunds, Acc!Post, TypeOK, creditVars, LedgerRow
  <2> QED BY <1>4, <2>2, <2>3, <2>4
          DEF HoldWithdrawal, Acc!HoldFunds, TypeOK, creditVars, countVars, LedgerRow
<1>5. ASSUME NEW p \in Proc, HoldRefused(p)
      PROVE  TypeOK'
  <2>1. req' \in [Proc -> Request]
    BY <1>5, AnswerKeepsType DEF HoldRefused, Answer
  <2> QED BY <1>5, <2>1 DEF HoldRefused, TypeOK, creditVars, moneyVars, countVars
<1>6. ASSUME NEW p \in Proc, NEW i \in PaymentId, HandleCryptoWebhook(p, i)
      PROVE  TypeOK'
  <2>1. [at |-> "complete", id |-> i] \in Request
    BY DEF Request
  <2> QED BY <1>6, <2>1 DEF HandleCryptoWebhook, Begin, TypeOK, creditVars, moneyVars
<1>7. ASSUME NEW p \in Proc, CompleteDeposit(p)
      PROVE  TypeOK'
  <2>1. req' \in [Proc -> Request]
    BY <1>7, GotoKeepsType DEF CompleteDeposit, Goto, At
  <2>2. req[p].id \in PaymentId /\ payments[req[p].id] \in Payment
    BY <1>7, RequestFields DEF CompleteDeposit, At, CreditInv, TypeOK, creditVars
  <2>3. [payments[req[p].id] EXCEPT !.status = "completed"] \in Payment
    BY <2>2 DEF Payment
  <2>4. payments' \in [PaymentId -> Payment \cup {NoPayment}]
    BY <1>7, <2>2, <2>3 DEF CompleteDeposit, TypeOK, creditVars
  <2>5. rivals' \in [PaymentId -> Nat]
    <3>1. IsFiniteSet(Crediting(req[p].id) \ {p})
      <4>1. Crediting(req[p].id) \ {p} \in SUBSET Proc /\ IsFiniteSet(Proc)
        BY CashierAssumption DEF Crediting
      <4> QED BY <4>1, FS_Subset
    <3>2. Cardinality(Crediting(req[p].id) \ {p}) \in Nat
      BY <3>1, FS_CardinalityType
    <3> QED BY <1>7, <3>2 DEF CompleteDeposit, TypeOK
  <2> QED BY <1>7, <2>1, <2>4, <2>5 DEF CompleteDeposit, TypeOK, moneyVars, countVars
<1>8. ASSUME NEW p \in Proc, CreditDeposit(p)
      PROVE  TypeOK'
  <2> DEFINE i == req[p].id
  <2>1. i \in PaymentId /\ payments[i].status = "completed"
    BY <1>8, RequestFields DEF CreditDeposit, At, CreditInv
  <2>2. payments[i] \in Payment
    BY <2>1 DEF TypeOK, creditVars, NoPayment
  <2>3. payments[i].user \in User /\ payments[i].amount \in Nat
    BY <2>2, <1>0 DEF Payment
  <2>4. req' \in [Proc -> Request]
    BY <1>8, AnswerKeepsType DEF CreditDeposit, Answer
  <2>5. balance' \in [User -> Nat] /\ credits' \in [PaymentId -> Nat]
    BY <1>8, <2>1, <2>3 DEF CreditDeposit, Credit, Acc!Deposit, TypeOK, creditVars
  <2>6. ledger' \subseteq LedgerRow
    <3>1. "reference" \in CashierKinds
      BY DEF CashierKinds, Acc!Kinds
    <3>2. {Acc!Row("reference", i, payments[i].user, payments[i].amount)}
            \in SUBSET LedgerRow
      BY <2>1, <2>3, <3>1, RowTyped
    <3> QED BY <1>8, <3>2, PostKeepsType
            DEF CreditDeposit, Credit, Acc!Deposit, Acc!Post, TypeOK, creditVars, LedgerRow
  <2> QED BY <1>8, <2>4, <2>5, <2>6
          DEF CreditDeposit, Credit, Acc!Deposit, TypeOK, creditVars, countVars, LedgerRow
<1> QED BY <1>1, <1>2, <1>3, <1>4, <1>5, <1>6, <1>7, <1>8

\* So do those of sessions and rounds, and failures.
LEMMA RoundTypes ==
  ASSUME Inv
  PROVE  /\ \A s \in Session : CreateSession(s) => TypeOK'
         /\ \A s \in Session : CloseSession(s) => TypeOK'
         /\ \A p \in Proc, r \in Round : HandleSettlementWebhook(p, r) => TypeOK'
         /\ \A p \in Proc : CheckRound(p) => TypeOK'
         /\ \A p \in Proc : InsertCasinoBet(p) => TypeOK'
         /\ \A p \in Proc : SettleRound(p) => TypeOK'
         /\ \A p \in Proc : SettleRefused(p) => TypeOK'
         /\ \A p \in Proc : Fail(p) => TypeOK'
<1> USE DEF Inv
<1>1. ASSUME NEW s \in Session, CreateSession(s) \/ CloseSession(s)
      PROVE  TypeOK'
  BY <1>1 DEF CreateSession, CloseSession, TypeOK, creditVars, moneyVars, countVars
<1>2. ASSUME NEW p \in Proc, NEW r \in Round, HandleSettlementWebhook(p, r)
      PROVE  TypeOK'
  <2>1. [at |-> "exists", round |-> r] \in Request
    BY DEF Request
  <2> QED BY <1>2, <2>1 DEF HandleSettlementWebhook, Begin, TypeOK, creditVars, moneyVars
<1>3. ASSUME NEW p \in Proc, CheckRound(p)
      PROVE  TypeOK'
  <2>1. req' \in [Proc -> Request]
    BY <1>3, AnswerKeepsType, GotoKeepsType DEF CheckRound, Answer, Goto, At
  <2> QED BY <1>3, <2>1 DEF CheckRound, TypeOK, creditVars, moneyVars, countVars
<1>4. ASSUME NEW p \in Proc, InsertCasinoBet(p)
      PROVE  TypeOK'
  <2>1. req' \in [Proc -> Request]
    BY <1>4, AnswerKeepsType, GotoKeepsType DEF InsertCasinoBet, Answer, Goto, At
  <2>2. casinoBets' \subseteq Round
    BY <1>4, RequestFields DEF InsertCasinoBet, At, TypeOK, creditVars
  <2> QED BY <1>4, <2>1, <2>2 DEF InsertCasinoBet, TypeOK, creditVars, moneyVars, countVars
<1>5. ASSUME NEW p \in Proc, SettleRound(p)
      PROVE  TypeOK'
  <2> DEFINE r == req[p].round
             u == SessionUser[RoundOf[r]]
  <2>1. r \in Round /\ u \in User /\ RoundPnl[r] \in Int
    BY <1>5, RequestFields, CashierAssumption DEF SettleRound, At
  <2>2. req' \in [Proc -> Request]
    BY <1>5, AnswerKeepsType DEF SettleRound, Answer
  <2>3. balance' \in [User -> Nat] /\ paid' \in [Round -> Nat]
    <3>1. /\ balance' = [balance EXCEPT ![u] = @ + RoundPnl[r] - 0]
          /\ balance[u] + RoundPnl[r] - 0 >= 0
          /\ paid' = [paid EXCEPT ![r] = @ + 1]
      BY <1>5 DEF SettleRound, Acc!SettleBet, Acc!Payable
    <3>2. balance \in [User -> Nat] /\ paid \in [Round -> Nat]
      BY DEF TypeOK, creditVars
    <3> HIDE DEF r, u
    <3>3. balance[u] + RoundPnl[r] - 0 \in Nat
      BY <2>1, <3>1, <3>2
    <3> QED BY <2>1, <3>1, <3>2, <3>3
  <2>4. ledger' \subseteq LedgerRow
    <3>1. "settlement" \in CashierKinds /\ "commission" \in CashierKinds
      BY DEF CashierKinds, Acc!Kinds
    <3>2. Acc!SettlementRows(u, r, RoundPnl[r], 0) \in SUBSET LedgerRow
      <4>1. Acc!Row("settlement", r, u, RoundPnl[r]) \in LedgerRow
        BY <2>1, <3>1, RowTyped
      <4> QED BY <4>1 DEF Acc!SettlementRows
    <3> QED BY <1>5, <3>2, PostKeepsType
            DEF SettleRound, Acc!SettleBet, Acc!Post, TypeOK, creditVars, LedgerRow
  <2> QED BY <1>5, <2>2, <2>3, <2>4
          DEF SettleRound, Acc!SettleBet, TypeOK, creditVars, countVars, LedgerRow
<1>6. ASSUME NEW p \in Proc, SettleRefused(p)
      PROVE  TypeOK'
  <2>1. req' \in [Proc -> Request]
    BY <1>6, AnswerKeepsType DEF SettleRefused, Answer
  <2> QED BY <1>6, <2>1 DEF SettleRefused, TypeOK, creditVars, moneyVars, countVars
<1>7. ASSUME NEW p \in Proc, Fail(p)
      PROVE  TypeOK'
  <2>1. req' \in [Proc -> Request]
    BY <1>7, AnswerKeepsType DEF Fail, Answer
  <2> QED BY <1>7, <2>1 DEF Fail, TypeOK, creditVars, moneyVars
<1> QED BY <1>1, <1>2, <1>3, <1>4, <1>5, <1>6, <1>7

\* So does a transfer of credit.
LEMMA TransferTypes ==
  ASSUME Inv, NEW from \in User, NEW to \in User, NEW a \in Amount,
         TransferCredit(from, to, a)
  PROVE  TypeOK'
<1> USE DEF Inv
<1>1. a \in Nat /\ -a \in Int /\ from # to
  BY CashierAssumption DEF TransferCredit
<1>2. balance' \in [User -> Nat]
  BY <1>1 DEF TransferCredit, Moved, TypeOK, creditVars
<1>3. ledger' \subseteq LedgerRow
  <2> DEFINE key == [from |-> from, to |-> to, amount |-> a]
  <2>1. key \in TransferKey
    BY DEF TransferKey
  <2>2. "debit" \in CashierKinds /\ "credit" \in CashierKinds
    BY DEF CashierKinds
  <2>3. /\ Acc!Row("debit", key, from, -a) \in LedgerRow
        /\ Acc!Row("credit", key, to, a) \in LedgerRow
    <3> HIDE DEF key
    <3> QED BY <1>1, <2>1, <2>2, RowTyped
  <2>4. TransferRows(from, to, a) \in SUBSET LedgerRow
    BY <2>3 DEF TransferRows
  <2> QED BY <2>4, PostKeepsType DEF TransferCredit, Acc!Post, TypeOK, creditVars, LedgerRow
<1> QED BY <1>2, <1>3 DEF TransferCredit, TypeOK, creditVars, LedgerRow

\* No step leaves the types.
LEMMA TypeStep ==
  ASSUME Inv, [Next]_vars
  PROVE  TypeOK'
<1>1. CASE Next
  BY <1>1, PaymentTypes, RoundTypes, TransferTypes DEF Next, Serve
<1>2. CASE UNCHANGED vars
  BY <1>2 DEF vars, Inv, TypeOK
<1> QED BY <1>1, <1>2

-----------------------------------------------------------------------------
\* Rounds: the row in casino_bets comes first, and only one goroutine puts it there.

LEMMA RoundFrame ==
  ASSUME Inv, UNCHANGED <<casinoBets, paid>>,
         \A p \in Proc : req'[p].at = "settle" => req'[p] = req[p]
  PROVE  RoundsSettledOnce' /\ SettlingInv'
BY DEF Inv, RoundsSettledOnce, SettlingInv

\* A goroutine is at another step, and the others where they were.
LEMMA OtherSteps ==
  ASSUME TypeOK, NEW p \in Proc, NEW q \in Proc, NEW t
  PROVE  /\ [req EXCEPT ![p].at = t][q] = IF q = p THEN [req[p] EXCEPT !.at = t] ELSE req[q]
         /\ \A r : [req EXCEPT ![p] = r][q] = IF q = p THEN r ELSE req[q]
BY DEF TypeOK

\* No step settles a round twice.
LEMMA RoundStep ==
  ASSUME Inv, [Next]_vars
  PROVE  RoundsSettledOnce' /\ SettlingInv'
<1>0. TypeOK
  BY DEF Inv
<1>1. ASSUME UNCHANGED <<casinoBets, paid, req>>
      PROVE  RoundsSettledOnce' /\ SettlingInv'
  BY <1>1, RoundFrame
<1>2. ASSUME NEW p \in Proc, UNCHANGED <<casinoBets, paid>>,
             \/ Answer(p)
             \/ \E t : Goto(p, t) /\ t # "settle" /\ req[p].at # "idle"
             \/ \E r : Begin(p, r) /\ r.at # "settle"
      PROVE  RoundsSettledOnce' /\ SettlingInv'
  <2>1. ASSUME NEW q \in Proc, req'[q].at = "settle"
        PROVE  req'[q] = req[q]
    <3>1. CASE Answer(p)
      BY <2>1, <3>1, <1>0, OtherSteps DEF Answer, Idle
    <3>2. ASSUME NEW t, Goto(p, t), t # "settle", req[p].at # "idle"
          PROVE  req'[q] = req[q]
      <4>1. [req[p] EXCEPT !.at = t].at = t
        BY <1>0, <3>2 DEF TypeOK, Request, Idle
      <4> QED BY <2>1, <3>2, <4>1, <1>0, OtherSteps DEF Goto
    <3>3. ASSUME NEW r, Begin(p, r), r.at # "settle"
          PROVE  req'[q] = req[q]
      BY <2>1, <3>3, <1>0, OtherSteps DEF Begin
    <3> QED BY <1>2, <3>1, <3>2, <3>3
  <2> QED BY <1>2, <2>1, RoundFrame
<1>3. ASSUME NEW p \in Proc, NEW u \in User, NEW i \in PaymentId, NEW a \in Amount,
             InitiateWithdrawal(p, u, i, a)
      PROVE  RoundsSettledOnce' /\ SettlingInv'
  BY <1>2, <1>3 DEF InitiateWithdrawal
<1>4. ASSUME NEW p \in Proc, InsertWithdrawal(p) \/ CompleteDeposit(p)
      PROVE  RoundsSettledOnce' /\ SettlingInv'
  BY <1>2, <1>4 DEF InsertWithdrawal, CompleteDeposit, At
<1>5. ASSUME NEW p \in Proc,
             \/ HoldWithdrawal(p) \/ HoldRefused(p) \/ CreditDeposit(p)
             \/ SettleRefused(p) \/ Fail(p)
      PROVE  RoundsSettledOnce' /\ SettlingInv'
  BY <1>2, <1>5 DEF HoldWithdrawal, HoldRefused, CreditDeposit, SettleRefused, Fail
<1>6. ASSUME NEW p \in Proc, NEW i \in PaymentId, HandleCryptoWebhook(p, i)
      PROVE  RoundsSettledOnce' /\ SettlingInv'
  BY <1>2, <1>6 DEF HandleCryptoWebhook
<1>7. ASSUME NEW p \in Proc, NEW r \in Round, HandleSettlementWebhook(p, r)
      PROVE  RoundsSettledOnce' /\ SettlingInv'
  BY <1>2, <1>7 DEF HandleSettlementWebhook
<1>8. ASSUME NEW p \in Proc, CheckRound(p)
      PROVE  RoundsSettledOnce' /\ SettlingInv'
  BY <1>2, <1>8 DEF CheckRound, At
<1>9. ASSUME NEW p \in Proc, InsertCasinoBet(p)
      PROVE  RoundsSettledOnce' /\ SettlingInv'
  <2> DEFINE r == req[p].round
  <2>1. CASE r \in casinoBets
    BY <1>2, <1>9, <2>1 DEF InsertCasinoBet, NotInserted
  <2>2. CASE r \notin casinoBets
    <3>1. /\ casinoBets' = casinoBets \cup {r} /\ paid' = paid
          /\ req' = [req EXCEPT ![p].at = "settle"]
      BY <1>9, <2>2 DEF InsertCasinoBet, NotInserted, Goto
    <3>2. r \in Round /\ paid[r] = 0
      BY <1>0, <1>9, <2>2, RequestFields DEF InsertCasinoBet, At, Inv, RoundsSettledOnce, TypeOK
    <3>3. req'[p].at = "settle" /\ req'[p].round = r
      BY <1>0, <1>9, <3>1, RequestFields DEF InsertCasinoBet, At, TypeOK
    <3>4. \A q \in Proc \ {p} : req'[q] = req[q]
      BY <1>0, <3>1, OtherSteps
    <3>5. \A q \in Proc \ {p} : req[q].at = "settle" => req[q].round # r
      BY <2>2 DEF Inv, SettlingInv
    <3>6. SettlingInv'
      <4>1. ASSUME NEW q \in Proc, req'[q].at = "settle"
            PROVE  /\ req'[q].round \in casinoBets' /\ paid'[req'[q].round] = 0
                   /\ \A o \in Proc : req'[o].at = "settle"
                                       /\ req'[o].round = req'[q].round => o = q
        <5>1. CASE q = p
          BY <3>1, <3>2, <3>3, <3>4, <3>5, <5>1
        <5>2. CASE q # p
          BY <3>1, <3>3, <3>4, <3>5, <4>1, <5>2 DEF Inv, SettlingInv
        <5> QED BY <5>1, <5>2
      <4> QED BY <4>1 DEF SettlingInv
    <3>7. RoundsSettledOnce'
      BY <3>1 DEF Inv, RoundsSettledOnce
    <3> QED BY <3>6, <3>7
  <2> QED BY <2>1, <2>2
<1>10. ASSUME NEW p \in Proc, SettleRound(p)
       PROVE  RoundsSettledOnce' /\ SettlingInv'
  <2> DEFINE r == req[p].round
  <2>1. /\ r \in Round /\ r \in casinoBets /\ paid[r] = 0
        /\ \A q \in Proc : req[q].at = "settle" /\ req[q].round = r => q = p
    BY <1>0, <1>10, RequestFields DEF SettleRound, At, Inv, SettlingInv
  <2>2. /\ paid' = [paid EXCEPT ![r] = @ + 1] /\ casinoBets' = casinoBets
        /\ req' = [req EXCEPT ![p] = Idle]
    BY <1>10 DEF SettleRound, Answer
  <2>3. req'[p].at = "idle" /\ \A q \in Proc \ {p} : req'[q] = req[q]
    BY <1>0, <2>2 DEF Idle, TypeOK
  <2>4. paid'[r] = 1 /\ \A s \in Round \ {r} : paid'[s] = paid[s]
    BY <1>0, <2>1, <2>2 DEF TypeOK
  <2>5. RoundsSettledOnce'
    BY <2>1, <2>2, <2>4 DEF Inv, RoundsSettledOnce
  <2>6. ASSUME NEW q \in Proc, req'[q].at = "settle"
        PROVE  q # p /\ req'[q] = req[q] /\ req[q].round \in Round /\ req[q].round # r
    BY <1>0, <2>1, <2>3, <2>6, RequestFields
  <2>7. SettlingInv'
    <3>1. ASSUME NEW q \in Proc, req'[q].at = "settle"
          PROVE  /\ req'[q].round \in casinoBets' /\ paid'[req'[q].round] = 0
                 /\ \A o \in Proc : req'[o].at = "settle"
                                     /\ req'[o].round = req'[q].round => o = q
      BY <2>2, <2>4, <2>6, <3>1 DEF Inv, SettlingInv
    <3> QED BY <3>1 DEF SettlingInv
  <2> QED BY <2>5, <2>7
<1>11. CASE UNCHANGED vars
  BY <1>1, <1>11 DEF vars
<1>12. CASE Next
  <2>1. ASSUME NEW p \in Proc, Serve(p)
        PROVE  RoundsSettledOnce' /\ SettlingInv'
    BY <2>1, <1>3, <1>4, <1>5, <1>6, <1>7, <1>8, <1>9, <1>10 DEF Serve
  <2>2. ASSUME NEW u \in User, NEW i \in PaymentId, NEW a \in Amount,
               InitiateDeposit(u, i, a)
        PROVE  RoundsSettledOnce' /\ SettlingInv'
    BY <1>1, <2>2 DEF InitiateDeposit
  <2>3. ASSUME NEW s \in Session, CreateSession(s) \/ CloseSession(s)
        PROVE  RoundsSettledOnce' /\ SettlingInv'
    BY <1>1, <2>3 DEF CreateSession, CloseSession
  <2>4. ASSUME NEW from \in User, NEW to \in User, NEW a \in Amount,
               TransferCredit(from, to, a)
        PROVE  RoundsSettledOnce' /\ SettlingInv'
    BY <1>1, <2>4 DEF TransferCredit
  <2> QED BY <1>12, <2>1, <2>2, <2>3, <2>4 DEF Next
<1> QED BY <1>11, <1>12

-----------------------------------------------------------------------------
\* Payments: whoever credits one found it pending, when nothing had been credited.

LEMMA CreditingFinite ==
  ASSUME NEW i
  PROVE  IsFiniteSet(Crediting(i)) /\ Cardinality(Crediting(i)) \in Nat
<1>1. Crediting(i) \in SUBSET Proc /\ IsFiniteSet(Proc)
  BY CashierAssumption DEF Crediting
<1>2. IsFiniteSet(Crediting(i))
  BY <1>1, FS_Subset
<1> QED BY <1>2, FS_CardinalityType

\* What is known of the number of credits of a payment.
Counts(i) ==
  credits[i] + unmade[i]
    = IF IsCompleted(i) THEN 1 + rivals[i] - Cardinality(Crediting(i)) ELSE 0

LEMMA CountsAre ==
  /\ CreditedByOverlapOnly <=> \A i \in PaymentId : Counts(i)
  /\ CreditedByOverlapOnly' <=> \A i \in PaymentId : Counts(i)'
BY DEF CreditedByOverlapOnly, Counts

\* New rows and requests about other things.
LEMMA CreditFrame ==
  ASSUME Inv, UNCHANGED creditVars,
         \/ payments' = payments
         \/ \E u \in User, d \in {"deposit", "withdrawal"}, a \in Amount, i \in PaymentId :
              payments[i] = NoPayment /\ Insert(i, u, d, a),
         \A p \in Proc :
           {req[p].at, req'[p].at} \cap {"complete", "credit"} # {} => req'[p] = req[p]
  PROVE  CreditInv'
<1>0. TypeOK
  BY DEF Inv
<1>1. \A i \in PaymentId :
        \/ payments'[i] = payments[i]
        \/ payments[i].status = "none" /\ payments'[i].status = "pending"
  <2>1. ASSUME NEW u \in User, NEW d \in {"deposit", "withdrawal"}, NEW a \in Amount,
               NEW i \in PaymentId, payments[i] = NoPayment, Insert(i, u, d, a),
               NEW j \in PaymentId
        PROVE  \/ payments'[j] = payments[j]
               \/ payments[j].status = "none" /\ payments'[j].status = "pending"
    BY <1>0, <2>1 DEF Insert, TypeOK, NoPayment
  <2> QED BY <2>1
<1>2. \A i \in PaymentId : IsCompleted(i)' <=> IsCompleted(i)
  BY <1>1 DEF IsCompleted
<1>3. ASSUME NEW p \in Proc
      PROVE  /\ req'[p].at = "complete" => payments'[req'[p].id] # NoPayment
             /\ req'[p].at = "credit" => payments'[req'[p].id].status = "completed"
  <2>1. CASE req'[p].at \in {"complete", "credit"}
    <3>1. req'[p] = req[p] /\ req[p].at \in {"complete", "credit"}
      BY <2>1
    <3>2. req[p].id \in PaymentId
      BY <1>0, <3>1, RequestFields
    <3> QED BY <1>1, <3>1, <3>2 DEF Inv, CreditInv, NoPayment
  <2>2. CASE req'[p].at \notin {"complete", "credit"}
    BY <2>2
  <2> QED BY <2>1, <2>2
<1>5. \A i \in PaymentId : Crediting(i)' = Crediting(i)
  BY DEF Crediting
<1>6. \A i \in PaymentId : Counts(i) => Counts(i)'
  BY <1>2, <1>5 DEF Counts, creditVars
<1> QED BY <1>3, <1>6, CountsAre DEF CreditInv, Inv

\* A webhook that finds a payment pending joins those that will credit it.
LEMMA WebhookStep ==
  ASSUME Inv, NEW p \in Proc, NEW i \in PaymentId, HandleCryptoWebhook(p, i)
  PROVE  CreditInv'
<1>0. TypeOK
  BY DEF Inv
<1>1. /\ payments[i].status = "pending" /\ payments' = payments /\ UNCHANGED creditVars
      /\ req[p] = Idle /\ req' = [req EXCEPT ![p] = [at |-> "complete", id |-> i]]
  BY DEF HandleCryptoWebhook, Begin, IsPending
<1>2. /\ req'[p].at = "complete" /\ req'[p].id = i /\ req[p].at = "idle"
      /\ \A q \in Proc \ {p} : req'[q] = req[q]
  BY <1>0, <1>1 DEF TypeOK, Idle
<1>3. \A q \in Proc : req'[q].at = "complete" => payments'[req'[q].id] # NoPayment
  BY <1>1, <1>2 DEF Inv, CreditInv, NoPayment
<1>4. \A q \in Proc : req'[q].at = "credit" => payments'[req'[q].id].status = "completed"
  BY <1>1, <1>2 DEF Inv, CreditInv
<1>5. ASSUME NEW j \in PaymentId, Counts(j)
      PROVE  Counts(j)'
  <2>1. CASE j = i
    BY <1>1, <1>5, <2>1 DEF Counts, IsCompleted, creditVars
  <2>2. CASE j # i
    <3>1. Crediting(j)' = Crediting(j)
      BY <1>2, <2>2 DEF Crediting
    <3> QED BY <1>1, <1>5, <3>1 DEF Counts, IsCompleted, creditVars
  <2> QED BY <2>1, <2>2
<1> QED BY <1>3, <1>4, <1>5, CountsAre DEF CreditInv, Inv

\* The first webhook to complete a payment leaves the others its rivals; one that finds it
\* completed changes nothing.
LEMMA CompleteStep ==
  ASSUME Inv, NEW p \in Proc, CompleteDeposit(p)
  PROVE  CreditInv'
<1>0. TypeOK
  BY DEF Inv
<1> DEFINE i == req[p].id
<1>1. /\ i \in PaymentId /\ req[p].at = "complete" /\ credits' = credits /\ unmade' = unmade
      /\ payments[i] \in Payment
      /\ payments' = [payments EXCEPT ![i].status = "completed"]
      /\ req' = [req EXCEPT ![p].at = "credit"]
      /\ rivals' = IF IsCompleted(i) THEN rivals
                   ELSE [rivals EXCEPT ![i] = Cardinality(Crediting(i) \ {p})]
  BY <1>0, RequestFields DEF CompleteDeposit, Goto, At, Inv, CreditInv, TypeOK
<1>2. /\ req'[p].at = "credit" /\ req'[p].id = i
      /\ \A q \in Proc \ {p} : req'[q] = req[q]
  BY <1>0, <1>1, RequestFields DEF TypeOK
<1>3. payments'[i].status = "completed" /\ payments'[i] # NoPayment
  BY <1>0, <1>1 DEF TypeOK, Payment, NoPayment
<1>4. \A j \in PaymentId \ {i} : payments'[j] = payments[j]
  BY <1>0, <1>1 DEF TypeOK
<1>5. \A q \in Proc : req'[q].at = "complete" => payments'[req'[q].id] # NoPayment
  BY <1>0, <1>2, <1>3, <1>4, RequestFields DEF Inv, CreditInv
<1>6. \A q \in Proc : req'[q].at = "credit" => payments'[req'[q].id].status = "completed"
  BY <1>0, <1>2, <1>3, <1>4, RequestFields DEF Inv, CreditInv
<1>7. \A j \in PaymentId : Crediting(j)' = Crediting(j)
  BY <1>1, <1>2 DEF Crediting
<1>8. ASSUME NEW j \in PaymentId, Counts(j)
      PROVE  Counts(j)'
  <2>1. CASE j # i \/ IsCompleted(i)
    <3>1. (IsCompleted(j)' <=> IsCompleted(j)) /\ rivals'[j] = rivals[j]
      BY <1>0, <1>1, <1>3, <1>4, <2>1 DEF IsCompleted, TypeOK
    <3> QED BY <1>1, <1>7, <1>8, <3>1 DEF Counts
  <2>2. CASE j = i /\ ~IsCompleted(i)
    <3>1. IsCompleted(j)' /\ rivals'[j] = Cardinality(Crediting(j) \ {p})
      BY <1>0, <1>1, <1>3, <2>2 DEF IsCompleted, TypeOK
    <3>2. p \in Crediting(j)
      BY <1>1, <2>2 DEF Crediting
    <3>3. Cardinality(Crediting(j) \ {p}) = Cardinality(Crediting(j)) - 1
      BY <3>2, CreditingFinite, FS_RemoveElement
    <3>4. credits[j] + unmade[j] = 0
      BY <1>8, <2>2 DEF Counts
    <3> QED BY <1>1, <1>7, <3>1, <3>3, <3>4, CreditingFinite DEF Counts
  <2> QED BY <2>1, <2>2
<1> QED BY <1>5, <1>6, <1>8, CountsAre DEF CreditInv, Inv

\* A goroutine that has credited a completed payment, or failed to, is one less to.
LEMMA OneLess ==
  ASSUME Inv, NEW p \in Proc,
         UNCHANGED <<payments, rivals>>, req' = [req EXCEPT ![p] = Idle],
         \A i \in PaymentId :
           credits'[i] + unmade'[i]
             = credits[i] + unmade[i] + (IF IsCompleted(i) /\ p \in Crediting(i) THEN 1 ELSE 0)
  PROVE  CreditInv'
<1>0. TypeOK
  BY DEF Inv
<1>1. req'[p].at = "idle" /\ \A q \in Proc \ {p} : req'[q] = req[q]
  BY <1>0 DEF Idle, TypeOK
<1>2. \A q \in Proc : req'[q].at = "complete" => payments'[req'[q].id] # NoPayment
  BY <1>1 DEF Inv, CreditInv
<1>3. \A q \in Proc : req'[q].at = "credit" => payments'[req'[q].id].status = "completed"
  BY <1>1 DEF Inv, CreditInv
<1>4. ASSUME NEW j \in PaymentId, Counts(j)
      PROVE  Counts(j)'
  <2>1. Crediting(j)' = Crediting(j) \ {p}
    BY <1>1 DEF Crediting
  <2>2. Cardinality(Crediting(j)') = IF p \in Crediting(j) THEN Cardinality(Crediting(j)) - 1
                                     ELSE Cardinality(Crediting(j))
    BY <2>1, CreditingFinite, FS_RemoveElement
  <2>3. /\ IsCompleted(j)' <=> IsCompleted(j)
        /\ credits[j] \in Nat /\ unmade[j] \in Nat /\ rivals[j] \in Nat
    BY <1>0 DEF IsCompleted, TypeOK
  <2> QED BY <1>4, <2>2, <2>3, CreditingFinite DEF Counts
<1> QED BY <1>2, <1>3, <1>4, CountsAre DEF CreditInv, Inv

\* A credit made is a credit less to make.
LEMMA CreditStep ==
  ASSUME Inv, NEW p \in Proc, CreditDeposit(p)
  PROVE  CreditInv'
<1>0. TypeOK
  BY DEF Inv
<1> DEFINE i == req[p].id
<1>1. /\ i \in PaymentId /\ req[p].at = "credit" /\ UNCHANGED <<payments, rivals, unmade>>
      /\ credits' = [credits EXCEPT ![i] = @ + 1]
      /\ req' = [req EXCEPT ![p] = Idle]
  BY <1>0, RequestFields DEF CreditDeposit, Answer, At
<1>2. IsCompleted(i)
  BY <1>1 DEF Inv, CreditInv, IsCompleted
<1>3. ASSUME NEW j \in PaymentId
      PROVE  credits'[j] + unmade'[j]
             = credits[j] + unmade[j] + (IF IsCompleted(j) /\ p \in Crediting(j) THEN 1 ELSE 0)
  <2>1. credits[j] \in Nat /\ unmade[j] \in Nat /\ unmade'[j] = unmade[j]
        /\ credits'[j] = IF j = i THEN credits[j] + 1 ELSE credits[j]
    BY <1>0, <1>1 DEF TypeOK
  <2>2. p \in Crediting(j) <=> j = i
    BY <1>1 DEF Crediting
  <2> QED BY <1>2, <2>1, <2>2
<1> HIDE DEF i
<1> QED BY <1>1, <1>3, OneLess

\* A failure leaves the credit of a completed payment unmade, and no other.
LEMMA FailStep ==
  ASSUME Inv, NEW p \in Proc, Fail(p)
  PROVE  CreditInv'
<1>0. TypeOK
  BY DEF Inv
<1>1. /\ UNCHANGED <<payments, credits, rivals>> /\ req' = [req EXCEPT ![p] = Idle]
      /\ unmade' = [i \in PaymentId |-> IF IsCompleted(i) /\ p \in Crediting(i)
                                        THEN unmade[i] + 1 ELSE unmade[i]]
  BY DEF Fail, Answer
<1>2. ASSUME NEW j \in PaymentId
      PROVE  credits'[j] + unmade'[j]
             = credits[j] + unmade[j] + (IF IsCompleted(j) /\ p \in Crediting(j) THEN 1 ELSE 0)
  <2>1. /\ credits[j] \in Nat /\ unmade[j] \in Nat /\ credits'[j] = credits[j]
        /\ unmade'[j] = IF IsCompleted(j) /\ p \in Crediting(j) THEN unmade[j] + 1 ELSE unmade[j]
    BY <1>0, <1>1 DEF TypeOK
  <2> QED BY <2>1
<1> QED BY <1>1, <1>2, OneLess

\* Every step keeps the count of credits.
LEMMA CreditInvStep ==
  ASSUME Inv, [Next]_vars
  PROVE  CreditInv'
<1>0. TypeOK
  BY DEF Inv
<1>1. ASSUME UNCHANGED <<creditVars, req>>,
             \/ payments' = payments
             \/ \E u \in User, d \in {"deposit", "withdrawal"}, a \in Amount,
                  i \in PaymentId : payments[i] = NoPayment /\ Insert(i, u, d, a)
      PROVE  CreditInv'
  BY <1>1, CreditFrame
<1>2. ASSUME NEW p \in Proc, UNCHANGED creditVars,
             \/ payments' = payments
             \/ \E u \in User, d \in {"deposit", "withdrawal"}, a \in Amount,
                  i \in PaymentId : payments[i] = NoPayment /\ Insert(i, u, d, a),
             \/ Answer(p) /\ req[p].at \notin {"complete", "credit"}
             \/ \E t : /\ Goto(p, t) /\ t \notin {"complete", "credit"}
                      /\ req[p].at \notin {"idle", "complete", "credit"}
             \/ \E r : Begin(p, r) /\ r.at \notin {"complete", "credit"}
      PROVE  CreditInv'
  <2>1. ASSUME NEW q \in Proc, {req[q].at, req'[q].at} \cap {"complete", "credit"} # {}
        PROVE  req'[q] = req[q]
    <3>1. CASE Answer(p) /\ req[p].at \notin {"complete", "credit"}
      BY <2>1, <3>1, <1>0, OtherSteps DEF Answer, Idle
    <3>2. ASSUME NEW t, Goto(p, t), t \notin {"complete", "credit"},
                 req[p].at \notin {"idle", "complete", "credit"}
          PROVE  req'[q] = req[q]
      <4>1. [req[p] EXCEPT !.at = t].at = t
        BY <1>0, <3>2 DEF TypeOK, Request, Idle
      <4> QED BY <2>1, <3>2, <4>1, <1>0, OtherSteps DEF Goto
    <3>3. ASSUME NEW r, Begin(p, r), r.at \notin {"complete", "credit"}
          PROVE  req'[q] = req[q]
      BY <2>1, <3>3, <1>0, OtherSteps DEF Begin, Idle
    <3> QED BY <1>2, <3>1, <3>2, <3>3
  <2> QED BY <1>2, <2>1, CreditFrame
<1>3. ASSUME NEW p \in Proc, NEW u \in User, NEW i \in PaymentId, NEW a \in Amount,
             InitiateWithdrawal(p, u, i, a)
      PROVE  CreditInv'
  BY <1>2, <1>3 DEF InitiateWithdrawal
<1>4. ASSUME NEW p \in Proc, InsertWithdrawal(p)
      PROVE  CreditInv'
  BY <1>0, <1>2, <1>4, RequestFields DEF InsertWithdrawal, At
<1>5. ASSUME NEW p \in Proc,
             HoldWithdrawal(p) \/ HoldRefused(p) \/ SettleRefused(p) \/ SettleRound(p)
      PROVE  CreditInv'
  BY <1>2, <1>5 DEF HoldWithdrawal, HoldRefused, SettleRound, SettleRefused, At
<1>6. ASSUME NEW p \in Proc, NEW r \in Round, HandleSettlementWebhook(p, r)
      PROVE  CreditInv'
  BY <1>2, <1>6 DEF HandleSettlementWebhook
<1>7. ASSUME NEW p \in Proc, CheckRound(p) \/ InsertCasinoBet(p)
      PROVE  CreditInv'
  BY <1>2, <1>7 DEF CheckRound, InsertCasinoBet, At
<1>8. CASE UNCHANGED vars
  BY <1>1, <1>8 DEF vars, creditVars
<1>9. CASE Next
  <2>1. ASSUME NEW p \in Proc, Serve(p)
        PROVE  CreditInv'
    BY <2>1, <1>3, <1>4, <1>5, <1>6, <1>7, WebhookStep, CompleteStep, CreditStep,
       FailStep DEF Serve
  <2>2. ASSUME NEW u \in User, NEW i \in PaymentId, NEW a \in Amount,
               InitiateDeposit(u, i, a)
        PROVE  CreditInv'
    BY <1>1, <2>2 DEF InitiateDeposit
  <2>3. ASSUME NEW s \in Session, CreateSession(s) \/ CloseSession(s)
        PROVE  CreditInv'
    BY <1>1, <2>3 DEF CreateSession, CloseSession
  <2>4. ASSUME NEW from \in User, NEW to \in User, NEW a \in Amount,
               TransferCredit(from, to, a)
        PROVE  CreditInv'
    BY <1>1, <2>4 DEF TransferCredit
  <2> QED BY <1>9, <2>1, <2>2, <2>3, <2>4 DEF Next
<1> QED BY <1>8, <1>9

-----------------------------------------------------------------------------

\* The inductive invariant: what goroutines in the middle of a payment or a round may
\* rely on (internal/payment, internal/casino).
THEOREM Invariance == Spec => []Inv
<1>1. Init => Inv
  BY InitInv
<1>2. Inv /\ [Next]_vars => Inv'
  BY TypeStep, RoundStep, CreditInvStep DEF Inv
<1> QED BY <1>1, <1>2, PTL DEF Spec

\* Balances and exposures never go below zero: the wallet refuses what the account does
\* not cover, and a transfer of credit tests the balance it takes from.
THEOREM TypeCorrect == Spec => []TypeOK
<1>1. Inv => TypeOK
  BY DEF Inv
<1> QED BY <1>1, Invariance, PTL

\* However providers repeat and overlap their calls, and whatever fails between the
\* EXISTS query, the insert and the wallet, a round is settled once at most.
THEOREM RoundsOnce == Spec => []RoundsSettledOnce
<1>1. Inv => RoundsSettledOnce
  BY DEF Inv
<1> QED BY <1>1, Invariance, PTL

\* A payment is credited once when it is completed, once more for each webhook that had
\* found it pending before, and for no webhook after; and no credit of it is left out but
\* by a failure in between (HandleCryptoWebhook, completeDeposit of internal/payment).
THEOREM CreditsCounted == Spec => []CreditedByOverlapOnly
<1>1. Inv => CreditedByOverlapOnly
  BY DEF Inv, CreditInv
<1> QED BY <1>1, Invariance, PTL

-----------------------------------------------------------------------------
\* The rows of the ledger.

Holds(rows, u) == {row \in rows : row.user = u /\ row.kind = "hold"}
Others(rows, u) == {row \in rows : row.user = u /\ row.kind # "hold"}

\* What has been posted says what has been done, and what is about to be held for a
\* withdrawal has not been posted.
PostedInv ==
  \A row \in ledger :
    /\ row.kind = "hold" => row.key \in PaymentId /\ payments[row.key] # NoPayment
    /\ row.kind = "reference" => row.key \in PaymentId /\ credits[row.key] > 0
    /\ row.kind = "settlement" => row.key \in Round /\ paid[row.key] > 0

HoldingInv ==
  \A p \in Proc : req[p].at = "hold" =>
    /\ payments[req[p].id] # NoPayment
    /\ \A row \in ledger : row.kind = "hold" => row.key # req[p].id
    /\ \A q \in Proc : req[q].at = "hold" /\ req[q].id = req[p].id => q = p

RowsInv == IsFiniteSet(ledger) /\ PostedInv /\ HoldingInv

\* A total of rows is a sum of their amounts.
LEMMA TotalIsSum ==
  ASSUME NEW rows
  PROVE  Total(rows) = SumFunctionOnSet([row \in rows |-> row.amount], rows)
BY DEF Total, SumFunction

\* A row adds its amount to a total.
LEMMA TotalAdd ==
  ASSUME NEW L \in SUBSET LedgerRow, IsFiniteSet(L), NEW row \in LedgerRow, row \notin L
  PROVE  Total(L) \in Int /\ Total(L \cup {row}) = Total(L) + row.amount
<1> DEFINE all == L \cup {row}
           amounts == [x \in all |-> x.amount]
           own == [x \in L |-> x.amount]
<1>1. /\ \A x \in L : amounts[x] \in Int /\ own[x] = amounts[x]
      /\ amounts[row] = row.amount /\ row.amount \in Int
  BY DEF LedgerRow
<1>2. Total(all) = SumFunctionOnSet(amounts, all) /\ Total(L) = SumFunctionOnSet(own, L)
  BY TotalIsSum
<1> HIDE DEF amounts, own
<1>3. SumFunctionOnSet(own, L) = SumFunctionOnSet(amounts, L)
  <2>1. IsFiniteSet(L) /\ \A x \in L : own[x] = amounts[x]
    BY <1>1
  <2> QED BY ONLY <2>1, SumSame
<1>4. SumFunctionOnSet(amounts, L) \in Int
  <2>1. IsFiniteSet(L) /\ \A x \in L : amounts[x] \in Int
    BY <1>1
  <2> QED BY ONLY <2>1, SumInt
<1>5. SumFunctionOnSet(amounts, L \cup {row}) = SumFunctionOnSet(amounts, L) + amounts[row]
  <2>1. IsFiniteSet(L) /\ row \notin L /\ amounts[row] \in Int
        /\ \A x \in L : amounts[x] \in Int
    BY <1>1
  <2> QED BY ONLY <2>1, SumAdd
<1> QED BY <1>1, <1>2, <1>3, <1>4, <1>5

\* A row that holds money books to the exposure of its user, any other to the balance.
LEMMA BookHold ==
  ASSUME NEW L \in SUBSET LedgerRow, IsFiniteSet(L), NEW row \in LedgerRow, row \notin L,
         row.kind = "hold", NEW u
  PROVE  /\ Total(Holds(L, u)) \in Int
         /\ Total(Holds(L \cup {row}, u))
              = Total(Holds(L, u)) + (IF row.user = u THEN row.amount ELSE 0)
         /\ Others(L \cup {row}, u) = Others(L, u)
<1> DEFINE old == Holds(L, u)
<1>1. old \subseteq L
  BY DEF Holds
<1>2. old \in SUBSET LedgerRow /\ row \notin old /\ IsFiniteSet(old) /\ row \in LedgerRow
  BY <1>1, FS_Subset
<1>3. Others(L \cup {row}, u) = Others(L, u)
  BY DEF Others
<1>4. row.user = u => Holds(L \cup {row}, u) = old \cup {row}
  BY DEF Holds
<1>5. row.user # u => Holds(L \cup {row}, u) = old
  BY DEF Holds
<1> HIDE DEF old
<1>6. Total(old) \in Int /\ Total(old \cup {row}) = Total(old) + row.amount
  BY ONLY <1>2, TotalAdd
<1>7. PICK n \in Int : n = Total(old)
  BY <1>6
<1>8. row.amount \in Int
  BY <1>2 DEF LedgerRow
<1>9. row.user = u => Total(Holds(L \cup {row}, u)) = n + row.amount
  BY <1>4, <1>6, <1>7
<1>10. row.user # u => Total(Holds(L \cup {row}, u)) = n + 0
  BY <1>5, <1>7
<1>11. Total(Holds(L, u)) = n
  BY <1>7 DEF old
<1> QED BY ONLY <1>3, <1>7, <1>9, <1>10, <1>11

\* The same for the other rows.
LEMMA BookOther ==
  ASSUME NEW L \in SUBSET LedgerRow, IsFiniteSet(L), NEW row \in LedgerRow, row \notin L,
         row.kind # "hold", NEW u
  PROVE  /\ Total(Others(L, u)) \in Int
         /\ Total(Others(L \cup {row}, u))
              = Total(Others(L, u)) + (IF row.user = u THEN row.amount ELSE 0)
         /\ Holds(L \cup {row}, u) = Holds(L, u)
<1> DEFINE old == Others(L, u)
<1>1. old \subseteq L
  BY DEF Others
<1>2. old \in SUBSET LedgerRow /\ row \notin old /\ IsFiniteSet(old) /\ row \in LedgerRow
  BY <1>1, FS_Subset
<1>3. Holds(L \cup {row}, u) = Holds(L, u)
  BY DEF Holds
<1>4. row.user = u => Others(L \cup {row}, u) = old \cup {row}
  BY DEF Others
<1>5. row.user # u => Others(L \cup {row}, u) = old
  BY DEF Others
<1> HIDE DEF old
<1>6. Total(old) \in Int /\ Total(old \cup {row}) = Total(old) + row.amount
  BY ONLY <1>2, TotalAdd
<1>7. PICK n \in Int : n = Total(old)
  BY <1>6
<1>8. row.amount \in Int
  BY <1>2 DEF LedgerRow
<1>9. row.user = u => Total(Others(L \cup {row}, u)) = n + row.amount
  BY <1>4, <1>6, <1>7
<1>10. row.user # u => Total(Others(L \cup {row}, u)) = n + 0
  BY <1>5, <1>7
<1>11. Total(Others(L, u)) = n
  BY <1>7 DEF old
<1> QED BY ONLY <1>3, <1>7, <1>9, <1>10, <1>11

\* What the ledger has to explain of an account, in the rows as they are now.
Explained(u) ==
  /\ exposure[u] = -Total(Holds(ledger, u))
  /\ (\A i \in PaymentId : credits[i] > 1 => payments[i].user # u)
       => balance[u] = OpeningBalance[u] + Total(Others(ledger, u))

\* The ledger explains every account, now and after a step.
LEMMA ExplainedIs ==
  /\ LedgerExplainsAccount <=> \A u \in User : Explained(u)
  /\ LedgerExplainsAccount' <=> \A u \in User : Explained(u)'
<1>1. \A u : Rows(u, TRUE) = Holds(ledger, u) /\ Rows(u, FALSE) = Others(ledger, u)
  BY DEF Rows, Holds, Others
<1>2. \A u : Rows(u, TRUE)' = Holds(ledger', u) /\ Rows(u, FALSE)' = Others(ledger', u)
  BY DEF Rows, Holds, Others
<1> QED BY <1>1, <1>2 DEF LedgerExplainsAccount, Explained

-----------------------------------------------------------------------------
\* What the four steps do that post rows.

\* HoldWithdrawal posts a row that is new.
LEMMA WhatHoldDoes ==
  ASSUME Inv, RowsInv, NEW p \in Proc, HoldWithdrawal(p)
  PROVE  \E u \in User, a \in Nat, row \in LedgerRow :
           /\ row.kind = "hold" /\ row.key = req[p].id /\ row.user = u /\ row.amount = -a
           /\ row.key \in PaymentId /\ payments[row.key] # NoPayment
           /\ row \notin ledger /\ ledger' = ledger \cup {row}
           /\ exposure' = [exposure EXCEPT ![u] = @ + a]
           /\ UNCHANGED <<balance, payments, credits, paid>>
           /\ req' = [req EXCEPT ![p] = Idle]
<1> DEFINE u == req[p].user
           a == req[p].amount
           row == Acc!Row("hold", req[p].id, u, -a)
<1>1. req[p].at = "hold" /\ TypeOK
  BY DEF HoldWithdrawal, At, Inv
<1>2. u \in User /\ a \in Nat /\ -a \in Int /\ req[p].id \in PaymentId
  <2>1. u \in User /\ a \in Nat /\ req[p].id \in PaymentId
    BY <1>1, RequestFields, CashierAssumption
  <2> QED BY <2>1
<1>3. /\ row.kind = "hold" /\ row.key = req[p].id /\ row.user = u /\ row.amount = -a
      /\ row \in LedgerRow
  <2>1. "hold" \in CashierKinds
    BY DEF CashierKinds, Acc!Kinds
  <2> QED BY <1>2, <2>1, RowTyped DEF Acc!Row
<1>4. ~Acc!IsPosted(row) /\ row \notin ledger /\ payments[req[p].id] # NoPayment
  BY <1>1, <1>3 DEF RowsInv, HoldingInv, Acc!IsPosted
<1>5. ledger' = ledger \cup {row}
  BY <1>4 DEF HoldWithdrawal, Acc!HoldFunds, Acc!Post
<1>6. /\ exposure' = [exposure EXCEPT ![u] = @ + a]
      /\ UNCHANGED <<balance, payments, credits, paid>>
      /\ req' = [req EXCEPT ![p] = Idle]
  BY DEF HoldWithdrawal, Acc!HoldFunds, Answer, creditVars
<1> HIDE DEF u, a, row
<1> QED BY <1>2, <1>3, <1>4, <1>5, <1>6

\* A second credit of a payment finds its reference taken, and posts nothing.
LEMMA WhatCreditDoes ==
  ASSUME Inv, RowsInv, NEW p \in Proc, CreditDeposit(p)
  PROVE  \E i \in PaymentId, u \in User, a \in Nat, row \in LedgerRow :
           /\ row.kind = "reference" /\ row.key = i /\ row.user = u /\ row.amount = a
           /\ payments[i].user = u /\ payments[i].amount = a /\ payments[i] # NoPayment
           /\ credits[i] = 0 => row \notin ledger /\ ledger' = ledger \cup {row}
           /\ ledger' \in {ledger, ledger \cup {row}}
           /\ balance' = [balance EXCEPT ![u] = @ + a]
           /\ credits' = [credits EXCEPT ![i] = @ + 1]
           /\ UNCHANGED <<exposure, payments, paid>>
           /\ req' = [req EXCEPT ![p] = Idle]
<1> DEFINE i == req[p].id
           u == payments[i].user
           a == payments[i].amount
           row == Acc!Row("reference", i, u, a)
<1>1. req[p].at = "credit" /\ TypeOK
  BY DEF CreditDeposit, At, Inv
<1>2. i \in PaymentId /\ payments[i].status = "completed"
  BY <1>1, RequestFields DEF Inv, CreditInv
<1>3. payments[i] \in Payment /\ payments[i] # NoPayment
  BY <1>1, <1>2 DEF TypeOK, NoPayment
<1>4. u \in User /\ a \in Nat /\ a \in Int
  <2>1. Amount \subseteq Nat \ {0}
    BY CashierAssumption
  <2>2. u \in User /\ a \in Amount
    BY <1>3 DEF Payment
  <2> HIDE DEF u, a
  <2> QED BY ONLY <2>1, <2>2
<1>5. /\ row.kind = "reference" /\ row.key = i /\ row.user = u /\ row.amount = a
      /\ row \in LedgerRow
  <2>1. "reference" \in CashierKinds
    BY DEF CashierKinds, Acc!Kinds
  <2> QED BY <1>2, <1>4, <2>1, RowTyped DEF Acc!Row
<1>6. ASSUME credits[i] = 0
      PROVE  ~Acc!IsPosted(row) /\ row \notin ledger
  <2>1. \A r \in ledger : r.kind = "reference" => r.key # i
    BY <1>6 DEF RowsInv, PostedInv
  <2> HIDE DEF i
  <2> QED BY <1>5, <2>1 DEF Acc!IsPosted
<1>7. ledger' = ledger \cup {r \in {row} : ~Acc!IsPosted(r)}
  BY DEF CreditDeposit, Credit, Acc!Deposit, Acc!Post
<1>8. /\ balance' = [balance EXCEPT ![u] = @ + a]
      /\ credits' = [credits EXCEPT ![i] = @ + 1]
      /\ UNCHANGED <<exposure, payments, paid>>
      /\ req' = [req EXCEPT ![p] = Idle]
  BY DEF CreditDeposit, Credit, Acc!Deposit, Answer
<1> HIDE DEF i, u, a, row
<1>9. ledger' \in {ledger, ledger \cup {row}}
  BY <1>7
<1>10. credits[i] = 0 => row \notin ledger /\ ledger' = ledger \cup {row}
  BY <1>6, <1>7
<1>11. payments[i].user = u /\ payments[i].amount = a
  BY DEF u, a
<1> QED BY <1>2, <1>3, <1>4, <1>5, <1>8, <1>9, <1>10, <1>11

\* SettleRound posts a row that is new, for the round was not settled before.
LEMMA WhatSettleDoes ==
  ASSUME Inv, RowsInv, NEW p \in Proc, SettleRound(p)
  PROVE  \E r \in Round, u \in User, row \in LedgerRow :
           /\ row.kind = "settlement" /\ row.key = r /\ row.user = u
           /\ row.amount = RoundPnl[r] /\ RoundPnl[r] \in Int
           /\ row \notin ledger /\ ledger' = ledger \cup {row}
           /\ balance' = [balance EXCEPT ![u] = @ + RoundPnl[r]]
           /\ paid' = [paid EXCEPT ![r] = @ + 1]
           /\ UNCHANGED <<exposure, payments, credits>>
           /\ req' = [req EXCEPT ![p] = Idle]
<1> DEFINE r == req[p].round
           u == SessionUser[RoundOf[r]]
           row == Acc!Row("settlement", r, u, RoundPnl[r])
<1>1. req[p].at = "settle" /\ TypeOK
  BY DEF SettleRound, At, Inv
<1>2. r \in Round /\ u \in User /\ RoundPnl[r] \in Int /\ paid[r] = 0
  BY <1>1, RequestFields, CashierAssumption DEF Inv, SettlingInv
<1>3. /\ row.kind = "settlement" /\ row.key = r /\ row.user = u /\ row.amount = RoundPnl[r]
      /\ row \in LedgerRow
  <2>1. "settlement" \in CashierKinds
    BY DEF CashierKinds, Acc!Kinds
  <2> QED BY <1>2, <2>1, RowTyped DEF Acc!Row
<1>4. ~Acc!IsPosted(row) /\ row \notin ledger
  <2>1. \A x \in ledger : x.kind = "settlement" => x.key # r
    BY <1>2 DEF RowsInv, PostedInv
  <2> HIDE DEF r
  <2> QED BY <1>3, <2>1 DEF Acc!IsPosted
<1>5. ledger' = ledger \cup {row}
  <2>1. Acc!SettlementRows(u, r, RoundPnl[r], 0) = {row}
    BY DEF Acc!SettlementRows
  <2> QED BY <1>4, <2>1 DEF SettleRound, Acc!SettleBet, Acc!Post
<1>6. balance' = [balance EXCEPT ![u] = @ + RoundPnl[r]]
  <2>1. balance' = [balance EXCEPT ![u] = @ + RoundPnl[r] - 0]
    BY DEF SettleRound, Acc!SettleBet
  <2>2. balance[u] + RoundPnl[r] - 0 = balance[u] + RoundPnl[r]
    BY <1>1, <1>2 DEF TypeOK
  <2> QED BY <2>1, <2>2
<1>7. /\ paid' = [paid EXCEPT ![r] = @ + 1]
      /\ UNCHANGED <<exposure, payments, credits>>
      /\ req' = [req EXCEPT ![p] = Idle]
  BY DEF SettleRound, Acc!SettleBet, Answer, creditVars
<1> HIDE DEF r, u, row
<1> QED BY <1>2, <1>3, <1>4, <1>5, <1>6, <1>7

\* TransferCredit posts two rows, of the one user and of the other.
LEMMA WhatTransferDoes ==
  ASSUME Inv, NEW from \in User, NEW to \in User, NEW a \in Amount,
         TransferCredit(from, to, a)
  PROVE  \E debit \in LedgerRow, credit \in LedgerRow :
           /\ debit.kind = "debit" /\ debit.user = from /\ debit.amount = -a
           /\ credit.kind = "credit" /\ credit.user = to /\ credit.amount = a
           /\ debit \notin ledger /\ credit \notin ledger
           /\ ledger' = (ledger \cup {debit}) \cup {credit}
           /\ a \in Nat /\ from # to /\ balance' = Moved(from, to, a)
           /\ UNCHANGED <<exposure, payments, req, credits, paid>>
<1> DEFINE key == [from |-> from, to |-> to, amount |-> a]
           debit == Acc!Row("debit", key, from, -a)
           credit == Acc!Row("credit", key, to, a)
<1>1. a \in Nat /\ -a \in Int /\ a \in Int /\ from # to
  BY CashierAssumption DEF TransferCredit
<1>2. key \in TransferKey /\ "debit" \in CashierKinds /\ "credit" \in CashierKinds
  BY DEF TransferKey, CashierKinds
<1>3. /\ debit.kind = "debit" /\ debit.user = from /\ debit.amount = -a
      /\ credit.kind = "credit" /\ credit.user = to /\ credit.amount = a
  BY DEF Acc!Row
<1>4. debit \in LedgerRow /\ credit \in LedgerRow
  <2> HIDE DEF key
  <2> QED BY <1>1, <1>2, RowTyped
<1>5. TransferRows(from, to, a) = {debit, credit}
  BY DEF TransferRows
<1> HIDE DEF key, debit, credit
<1>6. ~Acc!IsPosted(debit) /\ ~Acc!IsPosted(credit)
  BY <1>5 DEF TransferCredit
<1>7. debit \notin ledger /\ credit \notin ledger
  BY <1>6 DEF Acc!IsPosted
<1>8. ledger' = (ledger \cup {debit}) \cup {credit}
  BY <1>5, <1>6 DEF TransferCredit, Acc!Post
<1> QED BY <1>1, <1>3, <1>4, <1>7, <1>8 DEF TransferCredit, creditVars

-----------------------------------------------------------------------------
\* No other step posts rows, and payments that are on record stay what they are.

\* Every other step leaves money, credits and settled rounds alone.
LEMMA OnlyFourPost ==
  ASSUME [Next]_vars
  PROVE  \/ \E p \in Proc : HoldWithdrawal(p) \/ CreditDeposit(p) \/ SettleRound(p)
         \/ \E from \in User, to \in User, a \in Amount : TransferCredit(from, to, a)
         \/ UNCHANGED <<moneyVars, credits, paid>>
<1>1. CASE UNCHANGED vars
  BY <1>1 DEF vars, moneyVars
<1>2. CASE Next
  <2>1. ASSUME NEW p \in Proc, Serve(p)
        PROVE  \/ HoldWithdrawal(p) \/ CreditDeposit(p) \/ SettleRound(p)
               \/ UNCHANGED <<moneyVars, credits, paid>>
    BY <2>1 DEF Serve, InitiateWithdrawal, InsertWithdrawal, HoldRefused,
                HandleCryptoWebhook, CompleteDeposit, HandleSettlementWebhook, CheckRound,
                InsertCasinoBet, SettleRefused, Fail, creditVars
  <2>2. ASSUME NEW u \in User, NEW i \in PaymentId, NEW a \in Amount,
               InitiateDeposit(u, i, a)
        PROVE  UNCHANGED <<moneyVars, credits, paid>>
    BY <2>2 DEF InitiateDeposit, creditVars
  <2>3. ASSUME NEW s \in Session, CreateSession(s) \/ CloseSession(s)
        PROVE  UNCHANGED <<moneyVars, credits, paid>>
    BY <2>3 DEF CreateSession, CloseSession, creditVars
  <2> QED BY <1>2, <2>1, <2>2, <2>3 DEF Next
<1> QED BY <1>1, <1>2

\* Payments are inserted where there is none, or completed.
LEMMA PaymentsWritten ==
  ASSUME [Next]_vars
  PROVE  \/ payments' = payments
         \/ \E u \in User, i \in PaymentId, a \in Amount, d \in {"deposit", "withdrawal"} :
              payments[i] = NoPayment /\ Insert(i, u, d, a)
         \/ \E p \in Proc : InsertWithdrawal(p) \/ CompleteDeposit(p)
<1>1. CASE UNCHANGED vars
  BY <1>1 DEF vars
<1>2. CASE Next
  <2>1. ASSUME NEW p \in Proc, Serve(p)
        PROVE  payments' = payments \/ InsertWithdrawal(p) \/ CompleteDeposit(p)
    BY <2>1 DEF Serve, InitiateWithdrawal, HoldWithdrawal, HoldRefused,
                HandleCryptoWebhook, CreditDeposit, HandleSettlementWebhook, CheckRound,
                InsertCasinoBet, SettleRound, SettleRefused, Fail
  <2>2. ASSUME NEW u \in User, NEW i \in PaymentId, NEW a \in Amount,
               InitiateDeposit(u, i, a)
        PROVE  payments[i] = NoPayment /\ Insert(i, u, "deposit", a)
    BY <2>2 DEF InitiateDeposit
  <2>3. ASSUME NEW s \in Session, CreateSession(s) \/ CloseSession(s)
        PROVE  payments' = payments
    BY <2>3 DEF CreateSession, CloseSession
  <2>4. ASSUME NEW from \in User, NEW to \in User, NEW a \in Amount,
               TransferCredit(from, to, a)
        PROVE  payments' = payments
    BY <2>4 DEF TransferCredit
  <2> QED BY <1>2, <2>1, <2>2, <2>3, <2>4 DEF Next
<1> QED BY <1>1, <1>2

\* A payment on record stays its user's, and of its amount.
LEMMA PaymentStays ==
  ASSUME Inv, [Next]_vars, NEW i \in PaymentId, payments[i] # NoPayment
  PROVE  /\ payments'[i] # NoPayment
         /\ payments'[i].user = payments[i].user /\ payments'[i].amount = payments[i].amount
<1>0. /\ payments \in [PaymentId -> Payment \cup {NoPayment}]
      /\ payments[i] \in Payment
  BY DEF Inv, TypeOK
<1>1. ASSUME NEW u, NEW j, NEW a, NEW d, payments[j] = NoPayment, Insert(j, u, d, a)
      PROVE  payments'[i] = payments[i]
  BY <1>0, <1>1 DEF Insert
<1>2. ASSUME NEW p \in Proc, InsertWithdrawal(p)
      PROVE  payments'[i] = payments[i]
  BY <1>1, <1>2 DEF InsertWithdrawal
<1>3. ASSUME NEW p \in Proc, CompleteDeposit(p)
      PROVE  /\ payments'[i] \in Payment
             /\ payments'[i].user = payments[i].user
             /\ payments'[i].amount = payments[i].amount
  <2>1. payments' = [payments EXCEPT ![req[p].id].status = "completed"]
    BY <1>3 DEF CompleteDeposit
  <2>2. payments'[i] \in {payments[i], [payments[i] EXCEPT !.status = "completed"]}
    BY <1>0, <2>1
  <2> QED BY <1>0, <2>2 DEF Payment
<1>4. \A x \in Payment : x # NoPayment
  BY DEF Payment, NoPayment
<1> QED BY <1>0, <1>1, <1>2, <1>3, <1>4, PaymentsWritten

\* Who holds money for a withdrawal has just recorded it.
LEMMA HoldingStep ==
  ASSUME Inv, [Next]_vars, NEW p \in Proc, req'[p].at = "hold", req'[p] # req[p]
  PROVE  InsertWithdrawal(p)
<1>0. TypeOK
  BY DEF Inv
<1>1. CASE UNCHANGED vars
  BY <1>1 DEF vars
<1>2. CASE Next
  <2>1. ASSUME NEW q \in Proc, Serve(q)
        PROVE  InsertWithdrawal(p)
    <3>1. CASE Answer(q)
      BY <1>0, <3>1, OtherSteps DEF Answer, Idle
    <3>2. ASSUME NEW t, Goto(q, t), t # "hold", req[q].at # "idle"
          PROVE  FALSE
      <4>1. [req[q] EXCEPT !.at = t].at = t
        BY <1>0, <3>2 DEF TypeOK, Request, Idle
      <4> QED BY <1>0, <3>2, <4>1, OtherSteps DEF Goto
    <3>3. ASSUME NEW r, Begin(q, r), r.at # "hold"
          PROVE  FALSE
      BY <1>0, <3>3, OtherSteps DEF Begin
    <3>4. CASE InsertWithdrawal(q)
      <4>1. p = q
        BY <1>0, <3>4, OtherSteps DEF InsertWithdrawal, Goto
      <4> QED BY <3>4, <4>1
    <3>5. ASSUME NEW u \in User, NEW i \in PaymentId, NEW a \in Amount,
                 InitiateWithdrawal(q, u, i, a)
          PROVE  FALSE
      BY <3>3, <3>5 DEF InitiateWithdrawal
    <3>6. ASSUME NEW i \in PaymentId, HandleCryptoWebhook(q, i)
          PROVE  FALSE
      BY <3>3, <3>6 DEF HandleCryptoWebhook
    <3>7. ASSUME NEW r \in Round, HandleSettlementWebhook(q, r)
          PROVE  FALSE
      BY <3>3, <3>7 DEF HandleSettlementWebhook
    <3>8. CASE CompleteDeposit(q) \/ CheckRound(q) \/ InsertCasinoBet(q)
      BY <3>1, <3>2, <3>8 DEF CompleteDeposit, CheckRound, InsertCasinoBet, At
    <3>9. CASE HoldWithdrawal(q) \/ HoldRefused(q) \/ CreditDeposit(q) \/ SettleRound(q)
               \/ SettleRefused(q) \/ Fail(q)
      BY <3>1, <3>9 DEF HoldWithdrawal, HoldRefused, CreditDeposit, SettleRound,
                        SettleRefused, Fail
    <3> QED BY <2>1, <3>4, <3>5, <3>6, <3>7, <3>8, <3>9 DEF Serve
  <2>2. ASSUME NEW u \in User, NEW i \in PaymentId, NEW a \in Amount,
               InitiateDeposit(u, i, a)
        PROVE  FALSE
    BY <2>2 DEF InitiateDeposit
  <2>3. ASSUME NEW s \in Session, CreateSession(s) \/ CloseSession(s)
        PROVE  FALSE
    BY <2>3 DEF CreateSession, CloseSession
  <2>4. ASSUME NEW from \in User, NEW to \in User, NEW a \in Amount,
               TransferCredit(from, to, a)
        PROVE  FALSE
    BY <2>4 DEF TransferCredit
  <2> QED BY <1>2, <2>1, <2>2, <2>3, <2>4 DEF Next
<1> QED BY <1>1, <1>2

-----------------------------------------------------------------------------
\* RowsInv is an invariant.

\* New rows say what their steps did.
LEMMA PostedStep ==
  ASSUME Inv, RowsInv, [Next]_vars
  PROVE  IsFiniteSet(ledger') /\ PostedInv'
<1>0. TypeOK
  BY DEF Inv
<1>1. \A i \in PaymentId : payments[i] # NoPayment => payments'[i] # NoPayment
  BY PaymentStays
<1>2. ASSUME NEW row, IsFiniteSet(ledger), ledger' \in {ledger, ledger \cup {row}},
             \A i \in PaymentId : credits[i] > 0 => credits'[i] > 0,
             \A r \in Round : paid[r] > 0 => paid'[r] > 0,
             row.kind = "hold" => row.key \in PaymentId /\ payments[row.key] # NoPayment,
             row.kind = "reference" => row.key \in PaymentId /\ credits'[row.key] > 0,
             row.kind = "settlement" => row.key \in Round /\ paid'[row.key] > 0
      PROVE  IsFiniteSet(ledger') /\ PostedInv'
  <2>1. IsFiniteSet(ledger')
    BY <1>2, FS_AddElement
  <2>2. PostedInv'
    BY <1>1, <1>2 DEF RowsInv, PostedInv
  <2> QED BY <2>1, <2>2
<1>3. ASSUME UNCHANGED <<moneyVars, credits, paid>>
      PROVE  IsFiniteSet(ledger') /\ PostedInv'
  BY <1>1, <1>3 DEF RowsInv, PostedInv, moneyVars
<1>4. ASSUME NEW p \in Proc, HoldWithdrawal(p)
      PROVE  IsFiniteSet(ledger') /\ PostedInv'
  <2>1. PICK row \in LedgerRow :
           /\ row.kind = "hold"
           /\ row.key \in PaymentId /\ payments[row.key] # NoPayment
           /\ ledger' = ledger \cup {row} /\ credits' = credits /\ paid' = paid
    BY <1>4, WhatHoldDoes
  <2> QED BY <1>2, <2>1 DEF RowsInv
<1>5. ASSUME NEW p \in Proc, CreditDeposit(p)
      PROVE  IsFiniteSet(ledger') /\ PostedInv'
  <2>1. PICK i \in PaymentId, row \in LedgerRow :
           /\ row.kind = "reference" /\ row.key = i
           /\ ledger' \in {ledger, ledger \cup {row}}
           /\ credits' = [credits EXCEPT ![i] = @ + 1] /\ paid' = paid
    BY <1>5, WhatCreditDoes
  <2>2. credits'[i] > 0 /\ \A j \in PaymentId : credits[j] > 0 => credits'[j] > 0
    BY <1>0, <2>1 DEF TypeOK
  <2> QED BY <1>2, <2>1, <2>2 DEF RowsInv
<1>6. ASSUME NEW p \in Proc, SettleRound(p)
      PROVE  IsFiniteSet(ledger') /\ PostedInv'
  <2>1. PICK r \in Round, row \in LedgerRow :
           /\ row.kind = "settlement" /\ row.key = r
           /\ ledger' = ledger \cup {row}
           /\ paid' = [paid EXCEPT ![r] = @ + 1] /\ credits' = credits
    BY <1>6, WhatSettleDoes
  <2>2. paid'[r] > 0 /\ \A x \in Round : paid[x] > 0 => paid'[x] > 0
    BY <1>0, <2>1 DEF TypeOK
  <2> QED BY <1>2, <2>1, <2>2 DEF RowsInv
<1>7. ASSUME NEW from \in User, NEW to \in User, NEW a \in Amount,
             TransferCredit(from, to, a)
      PROVE  IsFiniteSet(ledger') /\ PostedInv'
  <2>1. PICK debit \in LedgerRow, credit \in LedgerRow :
           /\ debit.kind = "debit" /\ credit.kind = "credit"
           /\ ledger' = (ledger \cup {debit}) \cup {credit}
           /\ credits' = credits /\ paid' = paid
    BY <1>7, WhatTransferDoes
  <2>2. IsFiniteSet(ledger')
    <3>1. IsFiniteSet(ledger \cup {debit})
      BY FS_AddElement DEF RowsInv
    <3> QED BY <2>1, <3>1, FS_AddElement
  <2>3. PostedInv'
    BY <1>1, <2>1 DEF RowsInv, PostedInv
  <2> QED BY <2>2, <2>3
<1> QED BY <1>3, <1>4, <1>5, <1>6, <1>7, OnlyFourPost

\* Nobody else comes to hold money for the same withdrawal.
LEMMA HoldingInvStep ==
  ASSUME Inv, RowsInv, [Next]_vars
  PROVE  HoldingInv'
<1>0. TypeOK
  BY DEF Inv
<1>1. ASSUME NEW p \in Proc, req[p].at = "hold"
      PROVE  /\ req[p].id \in PaymentId /\ payments[req[p].id] # NoPayment
             /\ payments'[req[p].id] # NoPayment
  BY <1>0, <1>1, RequestFields, PaymentStays DEF RowsInv, HoldingInv
<1>2. CASE \E p \in Proc : InsertWithdrawal(p)
  <2>1. PICK p \in Proc : InsertWithdrawal(p)
    BY <1>2
  <2> DEFINE i == req[p].id
  <2>2. /\ i \in PaymentId /\ payments[i] = NoPayment /\ ledger' = ledger
        /\ payments'[i].status = "pending"
        /\ \A q \in Proc \ {p} : req'[q] = req[q]
        /\ req'[p].id = i
    <3>1. req[p].at = "insert" /\ i \in PaymentId
      BY <1>0, <2>1, RequestFields DEF InsertWithdrawal, At
    <3>2. /\ req' = [req EXCEPT ![p].at = "hold"]
          /\ payments' = [payments EXCEPT ![i] =
               [user |-> req[p].user, direction |-> "withdrawal",
                amount |-> req[p].amount, status |-> "pending"]]
          /\ payments[i] = NoPayment /\ ledger' = ledger
      BY <2>1 DEF InsertWithdrawal, Goto, Insert, moneyVars
    <3>3. req'[p].id = i
      BY <1>0, <3>1, <3>2, RequestFields DEF TypeOK
    <3> QED BY <1>0, <3>1, <3>2, <3>3 DEF TypeOK
  <2>3. payments'[i] # NoPayment
    BY <2>2 DEF NoPayment
  <2>4. \A row \in ledger : row.kind = "hold" => row.key # i
    BY <2>2 DEF RowsInv, PostedInv
  <2>5. \A q \in Proc \ {p} : req[q].at = "hold" => req[q].id # i
    BY <1>1, <2>2
  <2> HIDE DEF i
  <2> QED BY <1>1, <2>2, <2>3, <2>4, <2>5 DEF RowsInv, HoldingInv
<1>3. CASE ~\E p \in Proc : InsertWithdrawal(p)
  <2>1. \A p \in Proc : req'[p].at = "hold" => req'[p] = req[p]
    BY <1>3, HoldingStep
  <2>2. ASSUME \A row \in ledger' : row.kind = "hold" => row \in ledger
        PROVE  HoldingInv'
    BY <1>1, <2>1, <2>2 DEF RowsInv, HoldingInv
  <2>3. ASSUME NEW p \in Proc, HoldWithdrawal(p)
        PROVE  HoldingInv'
    <3>1. PICK row \in LedgerRow :
             /\ row.key = req[p].id /\ ledger' = ledger \cup {row}
             /\ req' = [req EXCEPT ![p] = Idle]
      BY <2>3, WhatHoldDoes
    <3>2. req[p].at = "hold" /\ req'[p].at = "idle"
      BY <1>0, <2>3, <3>1 DEF HoldWithdrawal, At, TypeOK, Idle
    <3>3. \A q \in Proc : req[q].at = "hold" /\ req[q].id = req[p].id => q = p
      BY <3>2 DEF RowsInv, HoldingInv
    <3> QED BY <1>1, <2>1, <3>1, <3>2, <3>3 DEF RowsInv, HoldingInv
  <2>4. ASSUME NEW p \in Proc, CreditDeposit(p) \/ SettleRound(p)
        PROVE  \A row \in ledger' : row.kind = "hold" => row \in ledger
    <3>1. CASE CreditDeposit(p)
      BY <3>1, WhatCreditDoes
    <3>2. CASE SettleRound(p)
      BY <3>2, WhatSettleDoes
    <3> QED BY <2>4, <3>1, <3>2
  <2>5. ASSUME NEW from \in User, NEW to \in User, NEW a \in Amount,
               TransferCredit(from, to, a)
        PROVE  \A row \in ledger' : row.kind = "hold" => row \in ledger
    BY <2>5, WhatTransferDoes
  <2>6. ASSUME UNCHANGED <<moneyVars, credits, paid>>
        PROVE  \A row \in ledger' : row.kind = "hold" => row \in ledger
    BY <2>6 DEF moneyVars
  <2> QED BY <2>2, <2>3, <2>4, <2>5, <2>6, OnlyFourPost
<1> QED BY <1>2, <1>3

-----------------------------------------------------------------------------
\* What the ledger explains.

\* A payment that is credited is completed.
LEMMA CreditedIsCompleted ==
  ASSUME Inv, NEW i \in PaymentId, credits[i] # 0
  PROVE  payments[i].status = "completed"
<1>1. credits[i] \in Nat /\ unmade[i] \in Nat /\ credits[i] + unmade[i] # 0
  BY DEF Inv, TypeOK
<1> QED BY <1>1 DEF Inv, CreditInv, CreditedByOverlapOnly, IsCompleted

\* Payments credited twice stay so, and stay their user's.
LEMMA CreditedTwiceStays ==
  ASSUME Inv, [Next]_vars, \A i \in PaymentId : credits[i] > 1 => credits'[i] > 1, NEW u,
         \A i \in PaymentId : credits'[i] > 1 => payments'[i].user # u
  PROVE  \A i \in PaymentId : credits[i] > 1 => payments[i].user # u
<1>1. \A i \in PaymentId : credits[i] > 1 => payments[i] # NoPayment
  BY CreditedIsCompleted DEF Inv, TypeOK, NoPayment
<1> QED BY <1>1, PaymentStays

\* An account that nothing is posted for.
LEMMA StillExplained ==
  ASSUME Inv, [Next]_vars, NEW u \in User, Explained(u),
         \A i \in PaymentId : credits[i] > 1 => credits'[i] > 1,
         balance'[u] = balance[u], exposure'[u] = exposure[u],
         Holds(ledger', u) = Holds(ledger, u), Others(ledger', u) = Others(ledger, u)
  PROVE  Explained(u)'
<1>1. exposure'[u] = -Total(Holds(ledger', u))
  BY DEF Explained
<1>2. ASSUME \A i \in PaymentId : credits'[i] > 1 => payments'[i].user # u
      PROVE  balance'[u] = OpeningBalance[u] + Total(Others(ledger', u))
  BY <1>2, CreditedTwiceStays DEF Explained
<1> QED BY <1>1, <1>2 DEF Explained

\* An account whose balance moves by the amount of a row that holds nothing.
LEMMA RowExplains ==
  ASSUME Inv, RowsInv, [Next]_vars, NEW u \in User, Explained(u),
         \A i \in PaymentId : credits[i] > 1 => credits'[i] > 1,
         NEW row \in LedgerRow, NEW d \in Int, row \notin ledger, row.kind # "hold",
         row.user = u, row.amount = d,
         Holds(ledger', u) = Holds(ledger, u),
         Others(ledger', u) = Others(ledger \cup {row}, u),
         balance'[u] = balance[u] + d, exposure'[u] = exposure[u]
  PROVE  Explained(u)'
<1>1. exposure'[u] = -Total(Holds(ledger', u))
  BY DEF Explained
<1>2. ledger \in SUBSET LedgerRow /\ IsFiniteSet(ledger)
  BY DEF Inv, TypeOK, LedgerRow, RowsInv
<1>3. /\ Total(Others(ledger, u)) \in Int
      /\ Total(Others(ledger \cup {row}, u)) = Total(Others(ledger, u)) + d
  BY <1>2, BookOther
<1>4. ASSUME \A i \in PaymentId : credits'[i] > 1 => payments'[i].user # u
      PROVE  balance'[u] = OpeningBalance[u] + Total(Others(ledger', u))
  <2>1. balance[u] = OpeningBalance[u] + Total(Others(ledger, u))
    BY <1>4, CreditedTwiceStays DEF Explained
  <2>2. OpeningBalance[u] \in Int
    BY CashierAssumption
  <2> QED BY <1>3, <2>1, <2>2
<1> QED BY <1>1, <1>4 DEF Explained

\* Money held is a row that holds it.
LEMMA HoldExplained ==
  ASSUME Inv, RowsInv, LedgerExplainsAccount, [Next]_vars,
         NEW p \in Proc, HoldWithdrawal(p), NEW v \in User
  PROVE  Explained(v)'
<1>1. PICK u \in User, a \in Nat, row \in LedgerRow :
         /\ row.kind = "hold" /\ row.user = u /\ row.amount = -a
         /\ row \notin ledger /\ ledger' = ledger \cup {row}
         /\ exposure' = [exposure EXCEPT ![u] = @ + a]
         /\ balance' = balance /\ credits' = credits
  BY WhatHoldDoes
<1>2. /\ ledger \in SUBSET LedgerRow /\ IsFiniteSet(ledger)
      /\ exposure \in [User -> Nat]
  BY DEF Inv, TypeOK, LedgerRow, RowsInv
<1>3. Explained(v)
  BY ExplainedIs
<1>4. /\ Total(Holds(ledger, v)) \in Int
      /\ Total(Holds(ledger', v))
           = Total(Holds(ledger, v)) + (IF row.user = v THEN row.amount ELSE 0)
      /\ Others(ledger', v) = Others(ledger, v)
  BY <1>1, <1>2, BookHold
<1>5. exposure'[v] = -Total(Holds(ledger', v))
  <2>1. PICK n \in Int : n = Total(Holds(ledger, v))
    BY <1>4
  <2>2. exposure[v] = -n
    BY <1>3, <2>1 DEF Explained
  <2>3. CASE v = u
    <3>1. exposure'[v] = exposure[v] + a
      BY <1>1, <1>2, <2>3
    <3>2. Total(Holds(ledger', v)) = n + -a
      BY <1>1, <1>4, <2>1, <2>3
    <3>3. -n + a = -(n + -a)
      OBVIOUS
    <3> QED BY <2>2, <3>1, <3>2, <3>3
  <2>4. CASE v # u
    <3>1. exposure'[v] = exposure[v]
      BY <1>1, <1>2, <2>4
    <3>2. Total(Holds(ledger', v)) = n + 0
      BY <1>1, <1>4, <2>1, <2>4
    <3>3. n + 0 = n
      OBVIOUS
    <3> QED BY <2>2, <3>1, <3>2, <3>3
  <2> QED BY <2>3, <2>4
<1>6. ASSUME \A i \in PaymentId : credits'[i] > 1 => payments'[i].user # v
      PROVE  balance'[v] = OpeningBalance[v] + Total(Others(ledger', v))
  BY <1>1, <1>3, <1>4, <1>6, CreditedTwiceStays DEF Explained
<1> QED BY <1>5, <1>6 DEF Explained

\* A payment credited twice excuses its user, and concerns nobody else.
LEMMA CreditExplained ==
  ASSUME Inv, RowsInv, LedgerExplainsAccount, [Next]_vars,
         NEW p \in Proc, CreditDeposit(p), NEW v \in User
  PROVE  Explained(v)'
<1>1. PICK i \in PaymentId, u \in User, a \in Nat, row \in LedgerRow :
         /\ row.kind = "reference" /\ row.user = u /\ row.amount = a
         /\ payments[i].user = u
         /\ credits[i] = 0 => row \notin ledger /\ ledger' = ledger \cup {row}
         /\ ledger' \in {ledger, ledger \cup {row}}
         /\ balance' = [balance EXCEPT ![u] = @ + a]
         /\ credits' = [credits EXCEPT ![i] = @ + 1]
         /\ exposure' = exposure /\ payments' = payments
  BY WhatCreditDoes
<1>2. credits \in [PaymentId -> Nat] /\ balance \in [User -> Nat]
  BY DEF Inv, TypeOK
<1>3. Explained(v)
  BY ExplainedIs
<1>4. Holds(ledger', v) = Holds(ledger, v)
  BY <1>1 DEF Holds
<1>5. \A j \in PaymentId : credits[j] > 1 => credits'[j] > 1
  BY <1>1, <1>2
<1>6. CASE v # u
  <2>1. Others(ledger', v) = Others(ledger, v)
    BY <1>1, <1>6 DEF Others
  <2>2. balance'[v] = balance[v] /\ exposure'[v] = exposure[v]
    BY <1>1, <1>2, <1>6
  <2> QED BY <1>3, <1>4, <1>5, <2>1, <2>2, StillExplained
<1>7. CASE v = u /\ credits[i] = 0
  <2>1. Others(ledger', v) = Others(ledger \cup {row}, v) /\ row \notin ledger
    BY <1>1, <1>7
  <2>2. balance'[v] = balance[v] + a /\ exposure'[v] = exposure[v] /\ a \in Int
    BY <1>1, <1>2, <1>7
  <2>3. row.kind # "hold" /\ row.user = v /\ row.amount = a
    BY <1>1, <1>7
  <2> QED BY <1>3, <1>4, <1>5, <2>1, <2>2, <2>3, RowExplains
<1>8. CASE v = u /\ credits[i] # 0
  <2>1. credits'[i] > 1 /\ payments'[i].user = v
    BY <1>1, <1>2, <1>8
  <2>2. exposure'[v] = -Total(Holds(ledger', v))
    BY <1>1, <1>3, <1>4 DEF Explained
  <2> QED BY <2>1, <2>2 DEF Explained
<1> QED BY <1>6, <1>7, <1>8

\* A round is a row of its user.
LEMMA SettleExplained ==
  ASSUME Inv, RowsInv, LedgerExplainsAccount, [Next]_vars,
         NEW p \in Proc, SettleRound(p), NEW v \in User
  PROVE  Explained(v)'
<1>1. PICK r \in Round, u \in User, row \in LedgerRow :
         /\ row.kind = "settlement" /\ row.user = u
         /\ row.amount = RoundPnl[r] /\ RoundPnl[r] \in Int
         /\ row \notin ledger /\ ledger' = ledger \cup {row}
         /\ balance' = [balance EXCEPT ![u] = @ + RoundPnl[r]]
         /\ exposure' = exposure /\ credits' = credits
  BY WhatSettleDoes
<1>2. balance \in [User -> Nat]
  BY DEF Inv, TypeOK
<1>3. Explained(v)
  BY ExplainedIs
<1>4. Holds(ledger', v) = Holds(ledger, v)
  BY <1>1 DEF Holds
<1>5. CASE v # u
  <2>1. Others(ledger', v) = Others(ledger, v)
    BY <1>1, <1>5 DEF Others
  <2>2. balance'[v] = balance[v]
    BY <1>1, <1>2, <1>5
  <2> QED BY <1>1, <1>3, <1>4, <2>1, <2>2, StillExplained
<1>6. CASE v = u
  <2>1. balance'[v] = balance[v] + RoundPnl[r]
    BY <1>1, <1>2, <1>6
  <2>2. row.kind # "hold"
    BY <1>1
  <2> QED BY <1>1, <1>3, <1>4, <1>6, <2>1, <2>2, RowExplains
<1> QED BY <1>5, <1>6

\* A transfer is a row of each of its two users.
LEMMA TransferExplained ==
  ASSUME Inv, RowsInv, LedgerExplainsAccount, [Next]_vars,
         NEW from \in User, NEW to \in User, NEW a \in Amount,
         TransferCredit(from, to, a), NEW v \in User
  PROVE  Explained(v)'
<1>1. PICK debit \in LedgerRow, credit \in LedgerRow :
         /\ debit.kind = "debit" /\ debit.user = from /\ debit.amount = -a
         /\ credit.kind = "credit" /\ credit.user = to /\ credit.amount = a
         /\ debit \notin ledger /\ credit \notin ledger
         /\ ledger' = (ledger \cup {debit}) \cup {credit}
         /\ a \in Nat /\ from # to /\ balance' = Moved(from, to, a)
         /\ exposure' = exposure /\ credits' = credits
  BY WhatTransferDoes
<1>2. balance \in [User -> Nat]
  BY DEF Inv, TypeOK
<1>3. Explained(v)
  BY ExplainedIs
<1>4. Holds(ledger', v) = Holds(ledger, v)
  BY <1>1 DEF Holds
<1>5. CASE v # from /\ v # to
  <2>1. Others(ledger', v) = Others(ledger, v)
    BY <1>1, <1>5 DEF Others
  <2>2. balance'[v] = balance[v]
    BY <1>1, <1>2, <1>5 DEF Moved
  <2> QED BY <1>1, <1>3, <1>4, <2>1, <2>2, StillExplained
<1>6. CASE v = from
  <2>1. balance'[v] = balance[v] + -a /\ -a \in Int
    BY <1>1, <1>2, <1>6 DEF Moved
  <2>2. Others(ledger', v) = Others(ledger \cup {debit}, v)
    BY <1>1, <1>6 DEF Others
  <2>3. debit.kind # "hold"
    BY <1>1
  <2> QED BY <1>1, <1>3, <1>4, <1>6, <2>1, <2>2, <2>3, RowExplains
<1>7. CASE v = to
  <2>1. balance'[v] = balance[v] + a /\ a \in Int
    BY <1>1, <1>2, <1>7 DEF Moved
  <2>2. Others(ledger', v) = Others(ledger \cup {credit}, v)
    BY <1>1, <1>7 DEF Others
  <2>3. credit.kind # "hold"
    BY <1>1
  <2> QED BY <1>1, <1>3, <1>4, <1>7, <2>1, <2>2, <2>3, RowExplains
<1> QED BY <1>5, <1>6, <1>7

\* No step leaves an account unexplained.
LEMMA ExplainedStep ==
  ASSUME Inv, RowsInv, LedgerExplainsAccount, [Next]_vars
  PROVE  LedgerExplainsAccount'
<1>1. ASSUME NEW v \in User
      PROVE  Explained(v)'
  <2>1. ASSUME UNCHANGED <<moneyVars, credits, paid>>
        PROVE  Explained(v)'
    BY <2>1, ExplainedIs, StillExplained DEF moneyVars
  <2> QED BY <2>1, OnlyFourPost, HoldExplained, CreditExplained, SettleExplained,
             TransferExplained
<1> QED BY <1>1, ExplainedIs

-----------------------------------------------------------------------------
\* Where the money is.

\* A sum in which one account changes.
LEMMA SumMoves ==
  ASSUME NEW S, IsFiniteSet(S), NEW f, NEW g, NEW a \in S, NEW d \in Int,
         DOMAIN f = S, DOMAIN g = S, \A x \in S : f[x] \in Int,
         g[a] = f[a] + d, \A x \in S : x # a => g[x] = f[x]
  PROVE  SumFunction(f) \in Int /\ SumFunction(g) = SumFunction(f) + d
<1>2. (\A x \in S : f[x] \in Int) /\ g[a] = f[a] + d /\ \A x \in S : x # a => g[x] = f[x]
  OBVIOUS
<1>3. g[a] \in Int /\ g[a] - f[a] = d
  BY <1>2
<1>4. SumFunction(f) = SumFunctionOnSet(f, S) /\ SumFunction(g) = SumFunctionOnSet(g, S)
  BY DEF SumFunction
<1>5. SumFunctionOnSet(g, S) = SumFunctionOnSet(f, S) + (g[a] - f[a])
  <2>1. IsFiniteSet(S) /\ a \in S
    OBVIOUS
  <2> QED BY ONLY <1>2, <1>3, <2>1, SumChange
<1>6. SumFunctionOnSet(f, S) \in Int
  BY <1>2, SumInt
<1> QED BY <1>3, <1>4, <1>5, <1>6

\* What the sums add up.
LEMMA MoneyTyped ==
  ASSUME Inv
  PROVE  /\ IsFiniteSet(User) /\ IsFiniteSet(PaymentId) /\ IsFiniteSet(Round)
         /\ balance \in [User -> Int] /\ Brought \in [PaymentId -> Int]
         /\ Won \in [Round -> Int] /\ OpeningBalance \in [User -> Int]
<1>1. balance \in [User -> Int] /\ OpeningBalance \in [User -> Int]
  BY CashierAssumption DEF Inv, TypeOK
<1>2. Brought \in [PaymentId -> Int]
  <2>1. ASSUME NEW i \in PaymentId, credits[i] # 0
        PROVE  credits[i] * payments[i].amount \in Int
    <3>1. credits[i] \in Nat /\ payments[i] \in Payment
      BY <2>1, CreditedIsCompleted DEF Inv, TypeOK, NoPayment
    <3>2. payments[i].amount \in Nat
      BY <3>1, CashierAssumption DEF Payment
    <3> QED BY <3>1, <3>2
  <2> QED BY <2>1 DEF Brought
<1>3. Won \in [Round -> Int]
  <2>1. \A r \in Round : paid[r] \in Int /\ RoundPnl[r] \in Int
    BY CashierAssumption DEF Inv, TypeOK
  <2> QED BY <2>1 DEF Won
<1> QED BY <1>1, <1>2, <1>3, CashierAssumption

\* Brought is what it was unless something is credited.
LEMMA BroughtStays ==
  ASSUME Inv, [Next]_vars, credits' = credits
  PROVE  Brought' = Brought
<1>1. ASSUME NEW i \in PaymentId
      PROVE  Brought'[i] = Brought[i]
  <2>1. CASE credits[i] = 0
    BY <2>1 DEF Brought
  <2>2. CASE credits[i] # 0
    <3>1. payments[i] # NoPayment
      BY <2>2, CreditedIsCompleted DEF NoPayment
    <3>2. payments'[i].amount = payments[i].amount
      BY <3>1, PaymentStays
    <3> QED BY <2>2, <3>2 DEF Brought
  <2> QED BY <2>1, <2>2
<1> QED BY <1>1 DEF Brought

\* No step makes money or loses it.
LEMMA MoneyStep ==
  ASSUME Inv, RowsInv, MoneyConserved, [Next]_vars
  PROVE  MoneyConserved'
<1>0. /\ SumFunction(balance) \in Int /\ SumFunction(OpeningBalance) \in Int
      /\ SumFunction(Brought) \in Int /\ SumFunction(Won) \in Int
  <2>1. \A S, f : IsFiniteSet(S) /\ f \in [S -> Int] => SumFunction(f) \in Int
    <3>1. ASSUME NEW S, NEW f, IsFiniteSet(S), f \in [S -> Int]
          PROVE  SumFunction(f) \in Int
      <4>1. (\A x \in S : f[x] \in Int) /\ DOMAIN f = S
        BY <3>1
      <4>2. SumFunctionOnSet(f, S) \in Int
        BY <3>1, <4>1, SumInt
      <4> QED BY <4>1, <4>2 DEF SumFunction
    <3> QED BY <3>1
  <2> QED BY <2>1, MoneyTyped
<1>1. PICK b \in Int, o \in Int, c \in Int, w \in Int :
         /\ b = SumFunction(balance) /\ o = SumFunction(OpeningBalance)
         /\ c = SumFunction(Brought) /\ w = SumFunction(Won) /\ b = o + c + w
  BY <1>0 DEF MoneyConserved
<1>2. ASSUME UNCHANGED <<balance, credits, paid>>
      PROVE  MoneyConserved'
  <2>1. Brought' = Brought /\ Won' = Won
    BY <1>2, BroughtStays DEF Won
  <2> QED BY <1>2, <2>1 DEF MoneyConserved
<1>3. ASSUME NEW p \in Proc, CreditDeposit(p)
      PROVE  MoneyConserved'
  <2>1. PICK i \in PaymentId, u \in User, a \in Nat :
           /\ payments[i].amount = a
           /\ balance' = [balance EXCEPT ![u] = @ + a]
           /\ credits' = [credits EXCEPT ![i] = @ + 1]
           /\ payments' = payments /\ paid' = paid
    BY <1>3, WhatCreditDoes
  <2>2. Brought' = [Brought EXCEPT ![i] = @ + a]
    <3>1. credits \in [PaymentId -> Nat]
      BY DEF Inv, TypeOK
    <3>2. \A n \in Nat : (n + 1) * a = n * a + a /\ n * a \in Int /\ 0 * a = 0
      BY a \in Nat
    <3>3. ASSUME NEW j \in PaymentId
          PROVE  Brought'[j] = [Brought EXCEPT ![i] = @ + a][j]
      <4>1. CASE j # i
        BY <2>1, <3>1, <4>1 DEF Brought
      <4>2. CASE j = i
        <5>1. PICK n \in Nat : n = credits[i] /\ credits'[i] = n + 1
          BY <2>1, <3>1
        <5>2. Brought[i] = IF n = 0 THEN 0 ELSE n * a
          BY <2>1, <5>1 DEF Brought
        <5>3. Brought'[i] = (n + 1) * a
          <6>1. Brought' = [x \in PaymentId |-> IF credits'[x] = 0 THEN 0
                                                ELSE credits'[x] * payments'[x].amount]
            BY DEF Brought
          <6>2. credits'[i] # 0
            BY <5>1
          <6> QED BY <2>1, <5>1, <6>1, <6>2
        <5>4. Brought[i] = n * a
          BY <3>2, <5>2
        <5>5. [Brought EXCEPT ![i] = @ + a][i] = Brought[i] + a
          BY DEF Brought
        <5> QED BY <3>2, <4>2, <5>3, <5>4, <5>5
      <4> QED BY <4>1, <4>2
    <3> QED BY <3>3 DEF Brought
  <2>3. SumFunction(balance') = b + a
    <3>1. /\ IsFiniteSet(User) /\ u \in User /\ a \in Int
          /\ DOMAIN balance = User /\ DOMAIN balance' = User /\ \A x \in User : balance[x] \in Int
          /\ balance'[u] = balance[u] + a /\ \A x \in User : x # u => balance'[x] = balance[x]
      BY <2>1, MoneyTyped
    <3>2. SumFunction(balance') = SumFunction(balance) + a
      BY ONLY <3>1, SumMoves
    <3> QED BY <1>1, <3>2
  <2>4. SumFunction(Brought') = c + a
    <3>1. /\ IsFiniteSet(PaymentId) /\ i \in PaymentId /\ a \in Int
          /\ DOMAIN Brought = PaymentId /\ DOMAIN Brought' = PaymentId
          /\ \A x \in PaymentId : Brought[x] \in Int
          /\ Brought'[i] = Brought[i] + a
          /\ \A x \in PaymentId : x # i => Brought'[x] = Brought[x]
      BY <2>2, MoneyTyped
    <3>2. SumFunction(Brought') = SumFunction(Brought) + a
      BY ONLY <3>1, SumMoves
    <3> QED BY <1>1, <3>2
  <2>5. Won' = Won
    BY <2>1 DEF Won
  <2>6. SumFunction(balance') = o + SumFunction(Brought') + w
    BY <1>1, <2>3, <2>4
  <2> QED BY <1>1, <2>5, <2>6 DEF MoneyConserved
<1>4. ASSUME NEW p \in Proc, SettleRound(p)
      PROVE  MoneyConserved'
  <2>1. PICK r \in Round, u \in User :
           /\ RoundPnl[r] \in Int
           /\ balance' = [balance EXCEPT ![u] = @ + RoundPnl[r]]
           /\ paid' = [paid EXCEPT ![r] = @ + 1] /\ credits' = credits
    BY <1>4, WhatSettleDoes
  <2>2. PICK d \in Int : d = RoundPnl[r]
    BY <2>1
  <2>3. Won' = [Won EXCEPT ![r] = @ + d]
    <3>1. paid \in [Round -> Nat]
      BY DEF Inv, TypeOK
    <3>2. \A n \in Nat : (n + 1) * d = n * d + d
      BY d \in Int
    <3>3. ASSUME NEW x \in Round
          PROVE  Won'[x] = [Won EXCEPT ![r] = @ + d][x]
      <4>1. CASE x # r
        BY <2>1, <3>1, <4>1 DEF Won
      <4>2. CASE x = r
        <5>1. PICK n \in Nat : n = paid[r] /\ paid'[r] = n + 1
          BY <2>1, <3>1
        <5>2. Won[r] = n * d /\ Won'[r] = (n + 1) * d
          BY <2>2, <5>1 DEF Won
        <5>3. [Won EXCEPT ![r] = @ + d][r] = Won[r] + d
          BY DEF Won
        <5> QED BY <3>2, <4>2, <5>2, <5>3
      <4> QED BY <4>1, <4>2
    <3> QED BY <3>3 DEF Won
  <2>4. SumFunction(balance') = b + d
    <3>1. /\ IsFiniteSet(User) /\ u \in User /\ d \in Int
          /\ DOMAIN balance = User /\ DOMAIN balance' = User /\ \A x \in User : balance[x] \in Int
          /\ balance'[u] = balance[u] + d /\ \A x \in User : x # u => balance'[x] = balance[x]
      BY <2>1, <2>2, MoneyTyped
    <3>2. SumFunction(balance') = SumFunction(balance) + d
      BY ONLY <3>1, SumMoves
    <3> QED BY <1>1, <3>2
  <2>5. SumFunction(Won') = w + d
    <3>1. /\ IsFiniteSet(Round) /\ r \in Round /\ d \in Int
          /\ DOMAIN Won = Round /\ DOMAIN Won' = Round /\ \A x \in Round : Won[x] \in Int
          /\ Won'[r] = Won[r] + d /\ \A x \in Round : x # r => Won'[x] = Won[x]
      BY <2>3, MoneyTyped
    <3>2. SumFunction(Won') = SumFunction(Won) + d
      BY ONLY <3>1, SumMoves
    <3> QED BY <1>1, <3>2
  <2>6. Brought' = Brought
    BY <2>1, BroughtStays
  <2>7. SumFunction(balance') = o + c + SumFunction(Won')
    BY <1>1, <2>4, <2>5
  <2> QED BY <1>1, <2>6, <2>7 DEF MoneyConserved
<1>5. ASSUME NEW from \in User, NEW to \in User, NEW a \in Amount,
             TransferCredit(from, to, a)
      PROVE  MoneyConserved'
  <2>1. /\ a \in Nat /\ balance' = Moved(from, to, a)
        /\ credits' = credits /\ paid' = paid
    BY <1>5, WhatTransferDoes
  <2>2. -a \in Int /\ a \in Int
    BY <2>1
  <2> DEFINE taken == [balance EXCEPT ![from] = @ + -a]
  <2>3. balance \in [User -> Int] /\ taken \in [User -> Int] /\ IsFiniteSet(User)
    BY <2>2, MoneyTyped
  <2>4. Moved(from, to, a) = [taken EXCEPT ![to] = @ + a]
    <3>1. [balance EXCEPT ![from] = @ - a] = taken
      <4>1. balance[from] - a = balance[from] + -a
        BY <2>1, <2>3
      <4> QED BY <4>1
    <3> QED BY <3>1 DEF Moved
  <2>5. SumFunction(taken) = b + -a
    <3>1. /\ IsFiniteSet(User) /\ from \in User /\ -a \in Int
          /\ DOMAIN balance = User /\ DOMAIN taken = User /\ \A x \in User : balance[x] \in Int
          /\ taken[from] = balance[from] + -a
          /\ \A x \in User : x # from => taken[x] = balance[x]
      BY <2>2, <2>3
    <3> HIDE DEF taken
    <3>2. SumFunction(taken) = SumFunction(balance) + -a
      BY ONLY <3>1, SumMoves
    <3> QED BY <1>1, <3>2
  <2> HIDE DEF taken
  <2>6. SumFunction(balance') = (b + -a) + a
    <3>1. /\ IsFiniteSet(User) /\ to \in User /\ a \in Int
          /\ DOMAIN taken = User /\ DOMAIN balance' = User /\ \A x \in User : taken[x] \in Int
          /\ balance'[to] = taken[to] + a /\ \A x \in User : x # to => balance'[x] = taken[x]
      BY <2>1, <2>2, <2>3, <2>4
    <3>2. SumFunction(balance') = SumFunction(taken) + a
      BY ONLY <3>1, SumMoves
    <3> QED BY <1>1, <3>2, <2>5
  <2>7. (b + -a) + a = b
    BY <2>2
  <2>8. Brought' = Brought /\ Won' = Won
    BY <2>1, BroughtStays DEF Won
  <2> QED BY <1>1, <2>6, <2>7, <2>8 DEF MoneyConserved
<1>6. ASSUME NEW p \in Proc, HoldWithdrawal(p)
      PROVE  MoneyConserved'
  BY <1>2, <1>6, WhatHoldDoes
<1> QED BY <1>2, <1>3, <1>4, <1>5, <1>6, OnlyFourPost DEF moneyVars

\* At the start nothing is posted, brought in or won.
LEMMA InitMoney ==
  Init => RowsInv /\ LedgerExplainsAccount /\ MoneyConserved
<1> SUFFICES ASSUME Init
             PROVE  RowsInv /\ LedgerExplainsAccount /\ MoneyConserved
  OBVIOUS
<1>1. /\ ledger = {} /\ balance = OpeningBalance /\ exposure = [u \in User |-> 0]
      /\ credits = [i \in PaymentId |-> 0] /\ paid = [r \in Round |-> 0]
  BY DEF Init, Acc!AccountInit
<1>2. RowsInv
  <2>1. \A p \in Proc : req[p].at # "hold"
    BY DEF Init, Idle
  <2> QED BY <1>1, <2>1, FS_EmptySet DEF RowsInv, PostedInv, HoldingInv
<1>3. LedgerExplainsAccount
  <2>1. ASSUME NEW u \in User
        PROVE  Explained(u)
    <3>1. Holds(ledger, u) = {} /\ Others(ledger, u) = {}
      BY <1>1 DEF Holds, Others
    <3>2. Total({}) = 0
      BY TotalIsSum, SumEmpty
    <3>3. OpeningBalance[u] \in Nat
      BY CashierAssumption
    <3>4. balance[u] = OpeningBalance[u] + Total(Others(ledger, u))
      BY <1>1, <3>1, <3>2, <3>3
    <3>5. PICK n \in Int : n = Total(Holds(ledger, u)) /\ n = 0
      BY <3>1, <3>2
    <3>6. -n = 0 - n
      BY ONLY n \in Int
    <3>7. exposure[u] = -Total(Holds(ledger, u))
      <4>1. exposure[u] = 0
        BY <1>1
      <4>2. -n = 0
        BY ONLY <3>5, <3>6
      <4> QED BY ONLY <3>5, <4>1, <4>2
    <3> QED BY <3>4, <3>7 DEF Explained
  <2> QED BY <2>1, ExplainedIs
<1>4. MoneyConserved
  <2>1. \A i \in PaymentId : Brought[i] = 0
    BY <1>1 DEF Brought
  <2>2. \A r \in Round : Won[r] = 0
    <3>1. \A r \in Round : RoundPnl[r] \in Int /\ 0 * RoundPnl[r] = 0
      BY CashierAssumption
    <3> QED BY <1>1, <3>1 DEF Won
  <2>3. DOMAIN Brought = PaymentId /\ DOMAIN Won = Round
    BY DEF Brought, Won
  <2>4. SumFunctionOnSet(Brought, PaymentId) = 0 /\ SumFunctionOnSet(Won, Round) = 0
    BY <2>1, <2>2, SumZero, CashierAssumption
  <2>5. SumFunction(Brought) = 0 /\ SumFunction(Won) = 0
    BY <2>3, <2>4 DEF SumFunction
  <2>6. SumFunction(OpeningBalance) \in Int
    <3>1. DOMAIN OpeningBalance = User /\ \A u \in User : OpeningBalance[u] \in Int
      BY CashierAssumption
    <3>2. SumFunctionOnSet(OpeningBalance, User) \in Int
      BY <3>1, SumInt, CashierAssumption
    <3> QED BY <3>1, <3>2 DEF SumFunction
  <2> QED BY <1>1, <2>5, <2>6 DEF MoneyConserved
<1> QED BY <1>2, <1>3, <1>4

\* The rows of the ledger are what RowsInv says, throughout (the statements of
\* internal/payment, internal/casino and internal/hierarchy that post them).
THEOREM RowsKept == Spec => []RowsInv
<1>1. Init => Inv /\ RowsInv
  BY InitInv, InitMoney
<1>2. (Inv /\ RowsInv) /\ [Next]_vars => RowsInv'
  BY PostedStep, HoldingInvStep DEF RowsInv
<1> QED BY <1>1, <1>2, Invariance, PTL DEF Spec

\* Whatever fails between a row and the wallet, and however calls repeat and overlap,
\* the ledger explains every account, the money held by the withdrawals and the balance
\* by everything else, but for a user credited twice for one payment.  All balances
\* together are what was there at the start, what payments brought in as often as they
\* were credited, and what the rounds paid.
THEOREM MoneyKept == Spec => []MoneyExplained
<1>1. Init => Inv /\ RowsInv /\ MoneyExplained
  BY InitInv, InitMoney DEF MoneyExplained
<1>2. (Inv /\ RowsInv /\ MoneyExplained) /\ [Next]_vars => MoneyExplained'
  BY ExplainedStep, MoneyStep DEF MoneyExplained
<1> QED BY <1>1, <1>2, Invariance, RowsKept, PTL DEF Spec

-----------------------------------------------------------------------------

(***************************************************************************)
(* The rate limiter.                                                       *)
(***************************************************************************)

\* A product grows with its factor.
LEMMA TimesMonotone ==
  ASSUME NEW a \in Nat, NEW b \in Nat, NEW r \in Nat, a >= b
  PROVE  a * r >= b * r /\ a * r \in Nat /\ b * r \in Nat
<1>1. PICK d \in Nat : a = b + d
  <2>1. a - b \in Nat /\ a = b + (a - b)
    OBVIOUS
  <2> QED BY <2>1
<1>2. a * r = b * r + d * r
  BY <1>1
<1>3. d * r \in Nat /\ b * r \in Nat
  OBVIOUS
<1> QED BY <1>2, <1>3

\* One unit of time more refills Rate more.
LEMMA OneMore ==
  ASSUME NEW a \in Nat, NEW r \in Nat
  PROVE  (a + 1) * r = a * r + r /\ a * r \in Nat
OBVIOUS

\* What an address may spend is within a bucket.
LEMMA TokensRange ==
  ASSUME LimiterConstants, LimiterTypeOK, NEW ip \in IP, limiters[ip].lastCheck <= clock
  PROVE  Tokens(ip) \in 0..Burst
<1>1. CASE limiters[ip] = NoBucket
  BY <1>1 DEF Tokens, LimiterConstants
<1>2. CASE limiters[ip] # NoBucket
  <2>1. PICK b \in Bucket : limiters[ip] = b
    BY <1>2 DEF LimiterTypeOK
  <2>2. b.tokens \in 0..Burst /\ b.lastCheck \in Nat /\ b.lastCheck <= clock /\ clock \in Nat
    BY <2>1 DEF Bucket, Time, LimiterTypeOK, LimiterConstants
  <2>3. (clock - b.lastCheck) * Rate \in Nat
    <3>1. clock - b.lastCheck \in Nat
      BY <2>2
    <3> QED BY <3>1 DEF LimiterConstants
  <2>4. b.tokens + (clock - b.lastCheck) * Rate \in Nat
    BY <2>2, <2>3 DEF LimiterConstants
  <2>5. Tokens(ip) = AtMost(b.tokens + (clock - b.lastCheck) * Rate, Burst)
    BY <1>2, <2>1 DEF Tokens, Refilled
  <2> QED BY <2>4, <2>5 DEF AtMost, LimiterConstants
<1> QED BY <1>1, <1>2

LEMMA InitRate == LimiterConstants /\ LimiterInit => RateInv
<1> SUFFICES ASSUME LimiterConstants, LimiterInit PROVE RateInv
  OBVIOUS
<1>1. LimiterTypeOK
  BY DEF LimiterInit, LimiterConstants, LimiterTypeOK, Time
<1>2. \A ip \in IP : limiters[ip].lastCheck <= clock
  <2>1. NoBucket.lastCheck = 0
    BY DEF NoBucket
  <2>2. ASSUME NEW ip \in IP
        PROVE  limiters[ip].lastCheck = 0 /\ clock = 0
    BY <2>1 DEF LimiterInit
  <2>3. 0 <= 0
    OBVIOUS
  <2> QED BY <2>2, <2>3
<1>3. ASSUME NEW ip \in IP, NEW t \in Time
      PROVE  IF t <= clock THEN admitted[ip][t] + Tokens(ip) <= Burst + (clock - t) * Rate
             ELSE admitted[ip][t] = 0
  <2>1. admitted[ip][t] = 0 /\ Tokens(ip) = Burst /\ clock = 0 /\ t \in Nat
    BY DEF LimiterInit, Tokens, Time, LimiterConstants
  <2>2. CASE t = 0
    BY <2>1, <2>2 DEF LimiterConstants
  <2>3. CASE t # 0
    BY <2>1, <2>3
  <2> QED BY <2>2, <2>3
<1> QED BY <1>1, <1>2, <1>3 DEF RateInv

\* A request that finds a token: one more let through, one less to spend.
LEMMA AllowKeeps ==
  ASSUME LimiterConstants, RateInv, NEW ip \in IP, Allow(ip)
  PROVE  RateInv'
<1> DEFINE n == Tokens(ip)
<1>1. LimiterTypeOK /\ limiters[ip].lastCheck <= clock /\ clock \in Nat /\ clock' = clock
  BY DEF RateInv, Allow, LimiterTypeOK, Time, LimiterConstants
<1>2. n \in 1..Burst
  BY <1>1, TokensRange DEF Allow, LimiterConstants
<1>3. limiters'[ip] = [tokens |-> n - 1, lastCheck |-> clock]
  BY <1>1 DEF Allow, LimiterTypeOK
<1>4. limiters'[ip] \in Bucket /\ limiters'[ip] # NoBucket
  <2>1. n - 1 \in 0..Burst /\ n - 1 # -1
    BY <1>2 DEF LimiterConstants
  <2> QED BY <1>1, <1>3, <2>1 DEF Bucket, NoBucket, LimiterTypeOK
<1>5. \A jp \in IP : jp # ip => limiters'[jp] = limiters[jp]
  BY <1>1 DEF Allow, LimiterTypeOK
<1>6. \A jp \in IP : \A t \in Time :
        admitted'[jp][t] = IF jp = ip /\ t <= clock THEN admitted[jp][t] + 1 ELSE admitted[jp][t]
  BY <1>1 DEF Allow, LimiterTypeOK
<1>7. LimiterTypeOK'
  <2>1. admitted' \in [IP -> [Time -> Nat]]
    BY <1>1 DEF Allow, LimiterTypeOK
  <2>2. limiters' \in [IP -> Bucket \cup {NoBucket}]
    BY <1>1, <1>3, <1>4 DEF Allow, LimiterTypeOK
  <2> QED BY <1>1, <2>1, <2>2 DEF LimiterTypeOK
<1>8. \A jp \in IP : limiters'[jp].lastCheck <= clock'
  BY <1>1, <1>3, <1>5 DEF RateInv
<1>9. Tokens(ip)' = n - 1
  <2>1. Tokens(ip)' = AtMost(n - 1 + (clock - clock) * Rate, Burst)
    BY <1>1, <1>3, <1>4 DEF Tokens, Refilled
  <2>2. n - 1 + (clock - clock) * Rate = n - 1
    BY <1>1, <1>2 DEF LimiterConstants
  <2>3. ~(n - 1 > Burst)
    BY <1>2 DEF LimiterConstants
  <2> QED BY <2>1, <2>2, <2>3 DEF AtMost
<1>10. \A jp \in IP : jp # ip => Tokens(jp)' = Tokens(jp)
  BY <1>1, <1>5 DEF Tokens, Refilled
<1>11. ASSUME NEW jp \in IP, NEW t \in Time
       PROVE  IF t <= clock' THEN admitted'[jp][t] + Tokens(jp)' <= Burst + (clock' - t) * Rate
              ELSE admitted'[jp][t] = 0
  <2>1. IF t <= clock THEN admitted[jp][t] + Tokens(jp) <= Burst + (clock - t) * Rate
        ELSE admitted[jp][t] = 0
    BY DEF RateInv
  <2>2. admitted[jp][t] \in Nat
    BY <1>1 DEF LimiterTypeOK
  <2>3. CASE jp = ip
    BY <2>1, <2>2, <2>3, <1>1, <1>2, <1>6, <1>9
  <2>4. CASE jp # ip
    BY <2>1, <2>4, <1>1, <1>6, <1>10
  <2> QED BY <2>3, <2>4
<1> QED BY <1>7, <1>8, <1>11 DEF RateInv

\* A request that is refused writes its bucket as it is now.
LEMMA RefuseKeeps ==
  ASSUME LimiterConstants, RateInv, NEW ip \in IP, Refuse(ip)
  PROVE  RateInv'
<1> DEFINE n == Tokens(ip)
<1>1. LimiterTypeOK /\ limiters[ip].lastCheck <= clock /\ clock \in Nat /\ clock' = clock
      /\ admitted' = admitted
  BY DEF RateInv, Refuse, LimiterTypeOK, Time, LimiterConstants
<1>2. n \in 0..Burst
  BY <1>1, TokensRange
<1>3. limiters'[ip] = [tokens |-> n, lastCheck |-> clock]
  BY <1>1 DEF Refuse, LimiterTypeOK
<1>4. limiters'[ip] \in Bucket /\ limiters'[ip] # NoBucket
  <2>1. n # -1
    BY <1>2 DEF LimiterConstants
  <2> QED BY <1>1, <1>2, <1>3, <2>1 DEF Bucket, NoBucket, LimiterTypeOK
<1>5. \A jp \in IP : jp # ip => limiters'[jp] = limiters[jp]
  BY <1>1 DEF Refuse, LimiterTypeOK
<1>6. LimiterTypeOK'
  <2>1. limiters' \in [IP -> Bucket \cup {NoBucket}]
    BY <1>1, <1>3, <1>4 DEF Refuse, LimiterTypeOK
  <2> QED BY <1>1, <2>1 DEF LimiterTypeOK
<1>7. \A jp \in IP : limiters'[jp].lastCheck <= clock'
  BY <1>1, <1>3, <1>5 DEF RateInv
<1>8. Tokens(ip)' = n
  <2>1. Tokens(ip)' = AtMost(n + (clock - clock) * Rate, Burst)
    BY <1>1, <1>3, <1>4 DEF Tokens, Refilled
  <2>2. n + (clock - clock) * Rate = n /\ ~(n > Burst)
    BY <1>1, <1>2 DEF LimiterConstants
  <2> QED BY <2>1, <2>2 DEF AtMost
<1>9. \A jp \in IP : Tokens(jp)' = Tokens(jp)
  BY <1>1, <1>5, <1>8 DEF Tokens, Refilled
<1>10. ASSUME NEW jp \in IP, NEW t \in Time
       PROVE  IF t <= clock' THEN admitted'[jp][t] + Tokens(jp)' <= Burst + (clock' - t) * Rate
              ELSE admitted'[jp][t] = 0
  BY <1>1, <1>9 DEF RateInv
<1> QED BY <1>6, <1>7, <1>10 DEF RateInv

\* The buckets that are forgotten are full: nothing more may be spent than before.
LEMMA ForgetKeeps ==
  ASSUME LimiterConstants, RateInv, Forget
  PROVE  RateInv'
<1>1. LimiterTypeOK /\ clock \in Nat /\ clock' = clock /\ admitted' = admitted
  BY DEF RateInv, Forget, LimiterTypeOK, Time, LimiterConstants
<1>2. LimiterTypeOK'
  BY <1>1 DEF Forget, LimiterTypeOK
<1>3. \A ip \in IP : limiters'[ip].lastCheck <= clock'
  BY <1>1 DEF RateInv, Forget, NoBucket
<1>4. ASSUME NEW ip \in IP
      PROVE  Tokens(ip)' = Tokens(ip)
  <2>1. limiters'[ip] = IF clock - limiters[ip].lastCheck > IdleFor THEN NoBucket ELSE limiters[ip]
    BY DEF Forget
  <2>2. CASE limiters[ip] = NoBucket
    BY <2>1, <2>2, <1>1 DEF Tokens
  <2>3. CASE limiters[ip] # NoBucket /\ ~(clock - limiters[ip].lastCheck > IdleFor)
    BY <2>1, <2>3, <1>1 DEF Tokens, Refilled
  <2>4. CASE limiters[ip] # NoBucket /\ clock - limiters[ip].lastCheck > IdleFor
    <3>1. PICK b \in Bucket : limiters[ip] = b
      BY <2>4, <1>1 DEF LimiterTypeOK
    <3>2. b.tokens \in Nat /\ b.lastCheck \in Nat /\ clock - b.lastCheck > IdleFor
          /\ IdleFor \in Nat /\ Rate \in Nat /\ Burst \in Nat /\ IdleFor * Rate >= Burst
      BY <2>4, <3>1 DEF Bucket, Time, LimiterConstants
    <3>3. clock - b.lastCheck \in Nat /\ clock - b.lastCheck >= IdleFor
      BY <3>2, <1>1
    <3>4. /\ (clock - b.lastCheck) * Rate >= IdleFor * Rate
          /\ (clock - b.lastCheck) * Rate \in Nat /\ IdleFor * Rate \in Nat
      BY <3>2, <3>3, TimesMonotone
    <3>5. b.tokens + (clock - b.lastCheck) * Rate >= Burst
      BY <3>2, <3>4
    <3>6. AtMost(b.tokens + (clock - b.lastCheck) * Rate, Burst) = Burst
      BY <3>2, <3>4, <3>5 DEF AtMost
    <3>7. Tokens(ip) = Burst
      BY <2>4, <3>1, <3>6 DEF Tokens, Refilled
    <3>8. Tokens(ip)' = Burst
      BY <2>1, <2>4 DEF Tokens
    <3> QED BY <3>7, <3>8
  <2> QED BY <2>2, <2>3, <2>4
<1>5. ASSUME NEW ip \in IP, NEW t \in Time
      PROVE  IF t <= clock' THEN admitted'[ip][t] + Tokens(ip)' <= Burst + (clock' - t) * Rate
             ELSE admitted'[ip][t] = 0
  BY <1>1, <1>4 DEF RateInv
<1> QED BY <1>2, <1>3, <1>5 DEF RateInv

\* A unit of time adds Rate to the allowance, and no more than that to a bucket.
LEMMA PassKeeps ==
  ASSUME LimiterConstants, RateInv, Pass
  PROVE  RateInv'
<1>1. LimiterTypeOK /\ clock \in Nat /\ clock' = clock + 1 /\ clock' \in Time
      /\ admitted' = admitted /\ limiters' = limiters
  BY DEF RateInv, Pass, LimiterTypeOK, Time, LimiterConstants
<1>2. LimiterTypeOK'
  BY <1>1 DEF LimiterTypeOK
<1>3. ASSUME NEW ip \in IP
      PROVE  limiters'[ip].lastCheck <= clock' /\ limiters[ip].lastCheck \in Nat
  <2>1. limiters[ip].lastCheck <= clock
    BY DEF RateInv
  <2>2. limiters[ip].lastCheck \in Nat
    BY <1>1 DEF LimiterTypeOK, Bucket, NoBucket, Time, LimiterConstants
  <2> QED BY <1>1, <2>1, <2>2
<1>4. ASSUME NEW ip \in IP
      PROVE  Tokens(ip) \in 0..Burst /\ Tokens(ip)' \in 0..Burst /\ Tokens(ip)' <= Tokens(ip) + Rate
  <2>0. limiters[ip].lastCheck <= clock
    BY DEF RateInv
  <2>1. Tokens(ip) \in 0..Burst
    BY <1>1, <2>0, TokensRange
  <2>2. CASE limiters[ip] = NoBucket
    BY <1>1, <2>1, <2>2 DEF Tokens, LimiterConstants
  <2>3. CASE limiters[ip] # NoBucket
    <3>1. PICK b \in Bucket : limiters[ip] = b
      BY <2>3, <1>1 DEF LimiterTypeOK
    <3>2. b.tokens \in Nat /\ b.lastCheck \in Nat /\ clock - b.lastCheck \in Nat
          /\ Rate \in Nat /\ Burst \in Nat
      BY <3>1, <2>0, <1>1 DEF Bucket, Time, LimiterConstants
    <3> DEFINE had == (clock - b.lastCheck) * Rate
    <3>3. ((clock - b.lastCheck) + 1) * Rate = had + Rate /\ had \in Nat
      BY <3>2, OneMore
    <3>4. (clock + 1) - b.lastCheck = (clock - b.lastCheck) + 1
      BY <3>2, <1>1
    <3>5. Tokens(ip) = AtMost(b.tokens + had, Burst)
      BY <2>3, <3>1 DEF Tokens, Refilled
    <3>6. Tokens(ip)' = AtMost(b.tokens + (had + Rate), Burst)
      BY <2>3, <3>1, <3>3, <3>4, <1>1 DEF Tokens, Refilled
    <3> HIDE DEF had
    <3> QED BY <3>2, <3>3, <3>5, <3>6 DEF AtMost
  <2> QED BY <2>2, <2>3
<1>5. ASSUME NEW ip \in IP, NEW t \in Time
      PROVE  IF t <= clock' THEN admitted'[ip][t] + Tokens(ip)' <= Burst + (clock' - t) * Rate
             ELSE admitted'[ip][t] = 0
  <2>1. IF t <= clock THEN admitted[ip][t] + Tokens(ip) <= Burst + (clock - t) * Rate
        ELSE admitted[ip][t] = 0
    BY DEF RateInv
  <2>2. admitted[ip][t] \in Nat /\ t \in Nat /\ Burst \in Nat /\ Rate \in Nat
    BY <1>1 DEF LimiterTypeOK, Time, LimiterConstants
  <2>3. CASE t <= clock
    <3>1. clock - t \in Nat /\ (clock + 1) - t = (clock - t) + 1
      BY <2>2, <2>3, <1>1
    <3> DEFINE had == (clock - t) * Rate
    <3>2. ((clock - t) + 1) * Rate = had + Rate /\ had \in Nat
      BY <3>1, <2>2, OneMore
    <3>3. admitted[ip][t] + Tokens(ip) <= Burst + had
      BY <2>1, <2>3
    <3>4. (clock' - t) * Rate = had + Rate
      BY <3>1, <3>2, <1>1
    <3> HIDE DEF had
    <3>5. admitted[ip][t] + Tokens(ip)' <= Burst + (had + Rate)
      BY <3>2, <3>3, <1>4, <2>2
    <3>6. t <= clock'
      BY <1>1, <2>2, <2>3
    <3> QED BY <3>4, <3>5, <3>6, <1>1
  <2>4. CASE t = clock + 1
    <3>1. admitted[ip][t] = 0 /\ (clock' - t) * Rate = 0
      BY <2>1, <2>2, <2>4, <1>1
    <3> QED BY <3>1, <2>2, <2>4, <1>1, <1>4
  <2>5. CASE t > clock + 1
    BY <2>1, <2>2, <2>5, <1>1
  <2> QED BY <2>2, <2>3, <2>4, <2>5, <1>1
<1> QED BY <1>2, <1>3, <1>5 DEF RateInv

\* Each step of the limiter keeps the inductive form.
LEMMA NextRate == LimiterConstants /\ RateInv /\ [LimiterNext]_limiterVars => RateInv'
<1> SUFFICES ASSUME LimiterConstants, RateInv, [LimiterNext]_limiterVars PROVE RateInv'
  OBVIOUS
<1>1. ASSUME NEW ip \in IP, Allow(ip) PROVE RateInv'
  BY <1>1, AllowKeeps
<1>2. ASSUME NEW ip \in IP, Refuse(ip) PROVE RateInv'
  BY <1>2, RefuseKeeps
<1>3. CASE Forget
  BY <1>3, ForgetKeeps
<1>4. CASE Pass
  BY <1>4, PassKeeps
<1>5. CASE UNCHANGED limiterVars
  BY <1>5 DEF limiterVars, RateInv, LimiterTypeOK, Tokens, Refilled
<1> QED BY <1>1, <1>2, <1>3, <1>4, <1>5 DEF LimiterNext

\* The inductive form bounds what is let through.
LEMMA RateInvKept == LimiterConstants /\ RateInv => RateKept
<1> SUFFICES ASSUME LimiterConstants, RateInv, NEW ip \in IP, NEW t \in 0..clock
             PROVE  admitted[ip][t] <= Burst + (clock - t) * Rate
  BY DEF RateKept, RateInv
<1>1. LimiterTypeOK /\ clock \in Nat /\ t \in Time /\ t \in Nat /\ t <= clock
  BY DEF RateInv, LimiterTypeOK, Time, LimiterConstants
<1>2. Tokens(ip) \in 0..Burst
  BY <1>1, TokensRange DEF RateInv
<1> DEFINE more == (clock - t) * Rate
<1>3. more \in Nat
  <2>1. clock - t \in Nat
    BY <1>1
  <2> QED BY <2>1 DEF LimiterConstants
<1>4. admitted[ip][t] + Tokens(ip) <= Burst + more
  BY <1>1 DEF RateInv
<1>5. admitted[ip][t] \in Nat
  BY <1>1 DEF LimiterTypeOK
<1> HIDE DEF more
<1>6. admitted[ip][t] <= Burst + more
  BY <1>2, <1>3, <1>4, <1>5 DEF LimiterConstants
<1> QED BY <1>6 DEF more

\* Over any stretch of time an address is let through at most a full bucket and the refill
\* of that time, whatever the rate, the burst and the age at which buckets are forgotten,
\* as long as a bucket of that age is full (PerIPRateLimiter.Allow and its cleanup).
THEOREM RateIsKept == LimiterConstants /\ LimiterSpec => []RateKept
<1> SUFFICES ASSUME LimiterConstants PROVE LimiterSpec => []RateKept
  OBVIOUS
<1>1. LimiterInit => RateInv
  BY InitRate
<1>2. RateInv /\ [LimiterNext]_limiterVars => RateInv'
  BY NextRate
<1>3. RateInv => RateKept
  BY RateInvKept
<1> QED BY <1>1, <1>2, <1>3, PTL DEF LimiterSpec

-----------------------------------------------------------------------------

(***************************************************************************)
(* The budget of the odds service.                                         *)
(***************************************************************************)

\* The fetches of the initial load still to come.
ToLoad ==
  IF stage = "discovering" THEN Cardinality(Hot)
  ELSE IF stage = "loading" THEN Cardinality(toVisit) ELSE 0

\* What a round visits.
RoundInv ==
  /\ stage = "discovering" => creditsRemaining = 0 /\ toVisit = {}
  /\ stage = "loading" => round = "hot" /\ toVisit \subseteq Hot
  /\ round = "scores" => toVisit \subseteq Scored

\* The client believes in no more credits than there are, but for answers it did not get;
\* where it believes in none, there are none or none of its calls was answered.
BeliefInv ==
  /\ creditsRemaining > 0 => creditsRemaining <= unspent + unheard
  /\ creditsRemaining = 0 => unspent = 0 \/ unspent >= Credits - unheard

BudgetInv == unspent >= PauseBelow - 1 - Cardinality(Hot) + ToLoad - unheard

FeedInv == FeedTypeOK /\ RoundInv /\ BeliefInv /\ BudgetInv

LEMMA HotIsFinite == IsFiniteSet(Hot) /\ Cardinality(Hot) \in Nat
BY FeedAssumption, FS_CardinalityType

LEMMA InitFeed == FeedInit => FeedInv
<1> SUFFICES ASSUME FeedInit PROVE FeedInv
  OBVIOUS
<1>1. FeedTypeOK
  BY FeedAssumption DEF FeedInit, FeedTypeOK
<1>2. RoundInv
  BY DEF FeedInit, RoundInv
<1>3. BeliefInv
  BY FeedAssumption DEF FeedInit, BeliefInv
<1>4. BudgetInv
  BY HotIsFinite, FeedAssumption DEF FeedInit, BudgetInv, ToLoad
<1> QED BY <1>1, <1>2, <1>3, <1>4 DEF FeedInv

\* The arithmetic of a call, for credits before and after, answers lost before and after.
LEMMA CallArithmetic ==
  ASSUME NEW c \in Nat, NEW d \in Nat, NEW l \in Nat, NEW m \in Nat, NEW r \in Nat,
         NEW top \in Nat, d = c \/ d = c - 1, m = l + 1,
         r > 0 => r <= c + l, r = 0 => c = 0 \/ c >= top - l
  PROVE  /\ r > 0 => r <= d + m
         /\ r = 0 => d = 0 \/ d >= top - m
OBVIOUS

LEMMA BudgetArithmetic ==
  ASSUME NEW c \in Nat, NEW d \in Nat, NEW l \in Nat, NEW m \in Nat, NEW pause \in Nat,
         NEW hot \in Nat, NEW n \in Nat, NEW k \in Nat, d >= c - 1, m >= l,
         c >= pause - 1 - hot + n - l,
         n = k + 1 \/ (n = k /\ n = 0 /\ (c = 0 \/ c >= pause - l))
  PROVE  d >= pause - 1 - hot + k - m
OBVIOUS

\* A call: of its credit the client is told, or it counts an answer lost.
LEMMA CallKeepsBelief ==
  ASSUME FeedTypeOK, BeliefInv, Told \/ NotTold
  PROVE  /\ BeliefInv'
         /\ unspent' \in 0..Credits /\ creditsRemaining' \in 0..Credits /\ unheard' \in 0..MaxLost
         /\ unspent' >= unspent - 1 /\ unheard' >= unheard
<1>1. unspent \in 0..Credits /\ creditsRemaining \in 0..Credits /\ unheard \in 0..MaxLost
  BY DEF FeedTypeOK
<1>2. Credits \in Nat /\ MaxLost \in Nat
  BY FeedAssumption
<1>3. unspent \in Nat /\ creditsRemaining \in Nat /\ unheard \in Nat
  BY <1>1, <1>2
<1>4. unspent' \in Nat /\ (unspent' = unspent \/ unspent' = unspent - 1)
  BY <1>3 DEF Told, NotTold, Spend
<1>5. unspent' \in 0..Credits /\ unspent' >= unspent - 1
  BY <1>1, <1>2, <1>4
<1>6. CASE Told
  <2>1. creditsRemaining' = unspent' /\ unheard' = unheard
    BY <1>6 DEF Told
  <2>2. unspent' <= unspent' + unheard' /\ unheard' >= unheard
    <3>1. PICK d \in Nat, m \in Nat : d = unspent' /\ m = unheard'
      BY <1>3, <1>4, <2>1
    <3>2. d <= d + m /\ m >= m
      OBVIOUS
    <3> QED BY <2>1, <3>1, <3>2
  <2>3. BeliefInv'
    BY <2>1, <2>2 DEF BeliefInv
  <2> QED BY <1>1, <1>5, <2>1, <2>2, <2>3
<1>7. CASE NotTold
  <2>1. creditsRemaining' = creditsRemaining /\ unheard' = unheard + 1 /\ unheard < MaxLost
    BY <1>7 DEF NotTold
  <2>2. unheard' \in Nat /\ unheard' \in 0..MaxLost /\ unheard' >= unheard
    BY <1>2, <1>3, <2>1
  <2>3. /\ creditsRemaining > 0 => creditsRemaining <= unspent + unheard
        /\ creditsRemaining = 0 => unspent = 0 \/ unspent >= Credits - unheard
    BY DEF BeliefInv
  <2>4. /\ creditsRemaining > 0 => creditsRemaining <= unspent' + unheard'
        /\ creditsRemaining = 0 => unspent' = 0 \/ unspent' >= Credits - unheard'
    <3>1. PICK d \in Nat, m \in Nat : d = unspent' /\ m = unheard'
      BY <1>4, <2>2
    <3>2. (d = unspent \/ d = unspent - 1) /\ m = unheard + 1
      BY <1>4, <2>1, <3>1
    <3>3. /\ creditsRemaining > 0 => creditsRemaining <= d + m
          /\ creditsRemaining = 0 => d = 0 \/ d >= Credits - m
      BY ONLY <1>2, <1>3, <2>3, <3>2, CallArithmetic
    <3> QED BY <3>1, <3>3
  <2>5. BeliefInv'
    BY <2>1, <2>4 DEF BeliefInv
  <2> QED BY <1>1, <1>5, <2>1, <2>2, <2>5
<1> QED BY <1>6, <1>7

\* A call the budget allows leaves what the pause is to keep.
LEMMA AllowedCallKeepsBudget ==
  ASSUME FeedTypeOK, BeliefInv, BudgetInv, Told \/ NotTold, stage = "ticking", stage' = stage,
         creditsRemaining > 0 => creditsRemaining >= PauseBelow
  PROVE  BudgetInv'
<1> DEFINE hot == Cardinality(Hot)
<1>1. hot \in Nat
  BY HotIsFinite
<1>2. ToLoad = 0 /\ ToLoad' = 0
  BY DEF ToLoad
<1>3. Credits \in Nat /\ PauseBelow \in Nat /\ Credits >= PauseBelow /\ MaxLost \in Nat
  BY FeedAssumption
<1>4. unspent \in Nat /\ creditsRemaining \in Nat /\ unheard \in Nat
  BY <1>3 DEF FeedTypeOK
<1>5. unspent' \in Nat /\ unspent' >= unspent - 1 /\ unheard' \in Nat /\ unheard' >= unheard
  BY <1>3, CallKeepsBelief
<1>6. unspent >= PauseBelow - 1 - hot + 0 - unheard
  BY <1>2 DEF BudgetInv
<1> HIDE DEF hot
<1>7. unspent = 0 \/ unspent >= PauseBelow - unheard
  <2>1. CASE creditsRemaining = 0
    <3>1. unspent = 0 \/ unspent >= Credits - unheard
      BY <2>1 DEF BeliefInv
    <3> QED BY <1>3, <1>4, <3>1
  <2>2. CASE creditsRemaining > 0
    <3>1. creditsRemaining <= unspent + unheard
      BY <2>2 DEF BeliefInv
    <3> QED BY <1>3, <1>4, <2>2, <3>1
  <2> QED BY <1>4, <2>1, <2>2
<1>8. unspent' >= PauseBelow - 1 - hot + 0 - unheard'
  <2>1. PICK d \in Nat, m \in Nat : d = unspent' /\ m = unheard'
    BY <1>5
  <2>2. d >= unspent - 1 /\ m >= unheard
    BY <1>5, <2>1
  <2>3. d >= PauseBelow - 1 - hot + 0 - m
    BY ONLY <1>1, <1>3, <1>4, <1>6, <1>7, <2>2, BudgetArithmetic
  <2> QED BY <2>1, <2>3
<1> QED BY <1>2, <1>8 DEF BudgetInv, hot

\* A call of the initial load is one less to come.
LEMMA LoadKeepsBudget ==
  ASSUME FeedTypeOK, RoundInv, BeliefInv, BudgetInv, NEW sport \in Sport, Visited(sport),
         Told \/ NotTold, stage = "loading"
  PROVE  BudgetInv'
<1> DEFINE hot == Cardinality(Hot)
           n == Cardinality(toVisit)
           k == Cardinality(toVisit \ {sport})
<1>1. hot \in Nat
  BY HotIsFinite
<1>2. IsFiniteSet(toVisit) /\ n \in Nat /\ sport \in toVisit
  BY HotIsFinite, FS_Subset, FS_CardinalityType DEF RoundInv, Visited
<1>3. k \in Nat /\ n = k + 1
  <2>1. k = n - 1 /\ IsFiniteSet(toVisit \ {sport})
    BY <1>2, FS_RemoveElement
  <2>2. k \in Nat
    BY <2>1, FS_CardinalityType
  <2> HIDE DEF n, k
  <2> QED BY <1>2, <2>1, <2>2
<1>4. ToLoad = n /\ ToLoad' = k
  BY DEF ToLoad, Visited
<1>5. unspent \in Nat /\ unheard \in Nat /\ PauseBelow \in Nat /\ Credits \in Nat /\ MaxLost \in Nat
  BY FeedAssumption DEF FeedTypeOK
<1>6. unspent' \in Nat /\ unspent' >= unspent - 1 /\ unheard' \in Nat /\ unheard' >= unheard
  BY <1>5, CallKeepsBelief
<1>7. unspent >= PauseBelow - 1 - hot + n - unheard
  BY <1>4 DEF BudgetInv
<1> HIDE DEF hot, n, k
<1>8. unspent' >= PauseBelow - 1 - hot + k - unheard'
  <2>1. PICK d \in Nat, m \in Nat : d = unspent' /\ m = unheard'
    BY <1>6
  <2>2. d >= unspent - 1 /\ m >= unheard
    BY <1>6, <2>1
  <2>3. d >= PauseBelow - 1 - hot + k - m
    BY ONLY <1>1, <1>2, <1>3, <1>5, <1>7, <2>2, BudgetArithmetic
  <2> QED BY <2>1, <2>3
<1> QED BY <1>4, <1>8 DEF BudgetInv, hot

LEMMA FetchOddsFeed ==
  ASSUME FeedInv, NEW sport \in Sport, FetchOdds(sport)
  PROVE  FeedInv'
<1> USE DEF FeedInv
<1>1. BeliefInv'
  BY CallKeepsBelief DEF FetchOdds
<1>2. FeedTypeOK'
  BY CallKeepsBelief DEF FetchOdds, FeedTypeOK, Visited
<1>3. RoundInv'
  <2>1. stage' = stage /\ round' = round /\ toVisit' \subseteq toVisit
    BY DEF FetchOdds, Visited
  <2>2. stage # "discovering"
    BY DEF FetchOdds, Visited, RoundInv
  <2> QED BY <2>1, <2>2 DEF RoundInv
<1>4. BudgetInv'
  <2>1. CASE stage = "loading"
    BY <2>1, LoadKeepsBudget DEF FetchOdds
  <2>2. CASE stage = "ticking"
    <3>1. BudgetAllows(sport) /\ stage' = stage /\ (Told \/ NotTold)
      BY <2>2 DEF FetchOdds, MayFetch, Visited
    <3> QED BY <2>2, <3>1, AllowedCallKeepsBudget DEF BudgetAllows
  <2>3. stage \in {"loading", "ticking"}
    BY DEF FetchOdds, Visited, FeedTypeOK, RoundInv
  <2> QED BY <2>1, <2>2, <2>3
<1> QED BY <1>1, <1>2, <1>3, <1>4

LEMMA FetchScoresFeed ==
  ASSUME FeedInv, NEW sport \in Sport, FetchScores(sport)
  PROVE  FeedInv'
<1> USE DEF FeedInv
<1>1. stage = "ticking" /\ stage' = stage /\ round' = round /\ toVisit' \subseteq toVisit
  BY DEF FetchScores, Visited, FeedTypeOK, RoundInv
<1>2. BeliefInv'
  BY CallKeepsBelief DEF FetchScores
<1>3. FeedTypeOK'
  <2>1. sport \in Hot
    BY FeedAssumption DEF FetchScores, Visited, RoundInv
  <2>2. liveScores' \subseteq Hot
    BY <2>1 DEF FetchScores, FeedTypeOK
  <2> QED BY <1>1, <2>2, CallKeepsBelief DEF FetchScores, FeedTypeOK
<1>4. RoundInv'
  BY <1>1 DEF RoundInv
<1>5. BudgetInv'
  <2>1. creditsRemaining > 0 => creditsRemaining >= PauseBelow
    <3>1. creditsRemaining \in Nat
      BY FeedAssumption DEF FeedTypeOK
    <3>2. creditsRemaining > 0 => creditsRemaining >= SaveScoresBelow
      BY DEF FetchScores, MayScore
    <3> QED BY <3>1, <3>2, FeedAssumption
  <2> QED BY <1>1, <2>1, AllowedCallKeepsBudget DEF FetchScores
<1> QED BY <1>2, <1>3, <1>4, <1>5

\* A round that begins has no call of the initial load before it.
LEMMA RoundFeed ==
  ASSUME FeedInv, NEW r \in DOMAIN Tiers, StartRound(r)
  PROVE  FeedInv'
<1> USE DEF FeedInv
<1>1. Tiers[r] \subseteq Sport /\ (r = "scores" => Tiers[r] = Scored)
  BY FeedAssumption DEF Tiers, Sport
<1>2. FeedTypeOK'
  BY <1>1 DEF StartRound, FeedTypeOK, cacheVars
<1>3. RoundInv'
  BY <1>1 DEF StartRound, RoundInv
<1>4. BeliefInv'
  BY DEF StartRound, BeliefInv
<1>5. BudgetInv'
  <2>1. ToLoad = 0 /\ ToLoad' = 0
    BY FS_EmptySet DEF StartRound, ToLoad
  <2> QED BY <2>1 DEF StartRound, BudgetInv
<1> QED BY <1>2, <1>3, <1>4, <1>5

LEMMA DiscoverFeed ==
  ASSUME FeedInv, DiscoverSports
  PROVE  FeedInv'
<1> USE DEF FeedInv
<1>1. FeedTypeOK'
  BY DEF DiscoverSports, FeedTypeOK, Tiers, Sport
<1>2. RoundInv'
  BY DEF DiscoverSports, RoundInv
<1>3. BeliefInv'
  BY DEF DiscoverSports, BeliefInv
<1>4. BudgetInv'
  <2>1. ToLoad' = ToLoad
    BY DEF DiscoverSports, ToLoad
  <2> QED BY <2>1 DEF DiscoverSports, BudgetInv
<1> QED BY <1>1, <1>2, <1>3, <1>4

\* A sport that is passed over.
LEMMA SkipFeed ==
  ASSUME FeedInv, NEW sport \in Sport, Skip(sport)
  PROVE  FeedInv'
<1> USE DEF FeedInv
<1>1. stage' = stage /\ round' = round /\ toVisit' = toVisit \ {sport} /\ sport \in toVisit
  BY DEF Skip, Visited
<1>2. FeedTypeOK'
  BY <1>1 DEF Skip, FeedTypeOK, cacheVars
<1>3. RoundInv'
  BY <1>1 DEF Skip, RoundInv
<1>4. BeliefInv'
  BY DEF Skip, BeliefInv
<1>5. BudgetInv'
  <2>1. ToLoad \in Nat /\ ToLoad' \in Nat /\ ToLoad' <= ToLoad
    <3>1. CASE stage = "loading"
      <4> DEFINE n == Cardinality(toVisit)
                 k == Cardinality(toVisit \ {sport})
      <4>1. IsFiniteSet(toVisit)
        BY <3>1, HotIsFinite, FS_Subset DEF RoundInv
      <4>2. n \in Nat /\ k \in Nat /\ k <= n
        BY <4>1, FS_Subset, FS_CardinalityType
      <4>3. ToLoad = n /\ ToLoad' = k
        BY <3>1, <1>1 DEF ToLoad
      <4> HIDE DEF n, k
      <4> QED BY <4>2, <4>3
    <3>2. CASE stage = "ticking"
      BY <3>2, <1>1 DEF ToLoad
    <3>3. stage \in {"loading", "ticking"}
      BY <1>1 DEF FeedTypeOK, RoundInv
    <3> QED BY <3>1, <3>2, <3>3
  <2>2. unspent \in Nat /\ unheard \in Nat /\ PauseBelow \in Nat /\ Cardinality(Hot) \in Nat
        /\ unspent' = unspent /\ unheard' = unheard
    BY HotIsFinite, FeedAssumption DEF Skip, FeedTypeOK
  <2>3. unspent >= PauseBelow - 1 - Cardinality(Hot) + ToLoad - unheard
    BY DEF BudgetInv
  <2>4. unspent >= PauseBelow - 1 - Cardinality(Hot) + ToLoad' - unheard
    BY ONLY <2>1, <2>2, <2>3
  <2> QED BY <2>2, <2>4 DEF BudgetInv
<1> QED BY <1>2, <1>3, <1>4, <1>5

LEMMA AgeFeed ==
  ASSUME FeedInv, NEW sport \in Sport, Age(sport)
  PROVE  FeedInv'
<1> USE DEF FeedInv
<1>1. FeedTypeOK'
  BY DEF Age, FeedTypeOK
<1>2. RoundInv' /\ BeliefInv'
  BY DEF Age, RoundInv, BeliefInv
<1>3. BudgetInv'
  BY DEF Age, BudgetInv, ToLoad
<1> QED BY <1>1, <1>2, <1>3

\* However often the client is not told what a call cost, it stops before the credits are
\* gone: what the pause is meant to keep is there, but for the initial load, which asks no
\* one, and one credit for each answer lost (fetchIfBudgetAllows).
THEOREM CreditsAreKept == FeedSpec => []CreditsKept
<1>1. FeedInit => FeedInv
  BY InitFeed
<1>2. FeedInv /\ [FeedNext]_feedVars => FeedInv'
  <2> SUFFICES ASSUME FeedInv, [FeedNext]_feedVars PROVE FeedInv'
    OBVIOUS
  <2>1. CASE DiscoverSports
    BY <2>1, DiscoverFeed
  <2>2. ASSUME NEW r \in DOMAIN Tiers, StartRound(r) PROVE FeedInv'
    BY <2>2, RoundFeed
  <2>3. ASSUME NEW sport \in Sport, Skip(sport) PROVE FeedInv'
    BY <2>3, SkipFeed
  <2>4. ASSUME NEW sport \in Sport, FetchOdds(sport) PROVE FeedInv'
    BY <2>4, FetchOddsFeed
  <2>5. ASSUME NEW sport \in Sport, FetchScores(sport) PROVE FeedInv'
    BY <2>5, FetchScoresFeed
  <2>6. ASSUME NEW sport \in Sport, Age(sport) PROVE FeedInv'
    BY <2>6, AgeFeed
  <2>7. CASE UNCHANGED feedVars
    BY <2>7 DEF feedVars, FeedInv, FeedTypeOK, RoundInv, BeliefInv, BudgetInv, ToLoad
  <2> QED BY <2>1, <2>2, <2>3, <2>4, <2>5, <2>6, <2>7 DEF FeedNext
<1>3. FeedInv => CreditsKept
  <2> SUFFICES ASSUME FeedInv PROVE unspent >= PauseBelow - 1 - Cardinality(Hot) - unheard
    BY DEF FeedInv, CreditsKept
  <2> DEFINE hot == Cardinality(Hot)
  <2>1. PICK n \in Nat : n = ToLoad
    <3>1. stage = "loading" => Cardinality(toVisit) \in Nat
      BY HotIsFinite, FS_Subset, FS_CardinalityType DEF FeedInv, RoundInv
    <3> QED BY <3>1, HotIsFinite DEF ToLoad
  <2>2. unspent \in Nat /\ unheard \in Nat /\ PauseBelow \in Nat /\ hot \in Nat
    BY HotIsFinite, FeedAssumption DEF FeedInv, FeedTypeOK
  <2>3. unspent >= PauseBelow - 1 - hot + n - unheard
    BY <2>1 DEF FeedInv, BudgetInv
  <2> HIDE DEF hot
  <2>4. unspent >= PauseBelow - 1 - hot - unheard
    BY <2>1, <2>2, <2>3
  <2> QED BY <2>4 DEF hot
<1> QED BY <1>1, <1>2, <1>3, PTL DEF FeedSpec

-----------------------------------------------------------------------------

(***************************************************************************)
(* The tokens of the gateway.                                              *)
(***************************************************************************)

\* The key of a token logged out ends with the token, and is there until it does.
BlacklistInv ==
  /\ \A t \in DOMAIN blacklist : blacklist[t] = Until(t)
  /\ \A t \in loggedOut : hour < Until(t) => t \in DOMAIN blacklist

\* Who rotates a token does so for the token's user.
OwnToken ==
  \A p \in Caller : Doing(p, "rotate") => served[p].token.user = served[p].user

\* What may be written for a goroutine.
Calls ==
  {NoCall} \cup [at : {"login"}, user : Person]
  \cup [at : {"rotate", "issue"}, user : Person, token : Token]
  \cup [at : {"password"}, user : Person, secret : Secret]

TokensInv ==
  /\ TokensTypeOK /\ served \in [Caller -> Calls] /\ IsFiniteSet(DOMAIN refreshKeys)
  /\ BlacklistInv /\ LoggedOutStaysOut /\ unanswered <= slips
  /\ OwnToken /\ RotationKeepsCount

-----------------------------------------------------------------------------

\* What is left of a function.
LEMMA WithoutIs ==
  ASSUME NEW f, NEW gone
  PROVE  /\ DOMAIN Without(f, gone) = DOMAIN f \ gone
         /\ \A x \in DOMAIN f \ gone : Without(f, gone)[x] = f[x]
BY DEF Without

LEMMA HourIs == TokensTypeOK => hour \in Nat /\ Hour \subseteq Nat
BY TokensAssumption DEF TokensTypeOK, Hour

\* What a goroutine knows of its request.
LEMMA CallFields ==
  ASSUME TokensTypeOK, NEW p \in Caller
  PROVE  /\ Doing(p, "login") => served[p].user \in Person
         /\ Doing(p, "rotate") => served[p].user \in Person /\ served[p].token \in Token
         /\ Doing(p, "issue") => served[p].user \in Person /\ served[p].token \in Token
         /\ Doing(p, "password") => served[p].user \in Person /\ served[p].secret \in Secret
BY DEF TokensTypeOK, Doing

LEMMA InitTokens == TokensInit => TokensInv
<1> SUFFICES ASSUME TokensInit PROVE TokensInv
  OBVIOUS
<1>1. DOMAIN refreshKeys = {} /\ DOMAIN blacklist = {}
  BY DEF TokensInit
<1>2. TokensTypeOK
  <2>1. hour \in Hour
    BY TokensAssumption DEF TokensInit, Hour
  <2>2. 0 \in 0..MaxCalls /\ 0 \in 0..MaxSlips
    BY TokensAssumption
  <2> QED BY <1>1, <2>1, <2>2, TokensAssumption DEF TokensInit, TokensTypeOK
<1>7. served \in [Caller -> Calls]
  BY DEF TokensInit, Calls
<1>3. IsFiniteSet(DOMAIN refreshKeys)
  BY <1>1, FS_EmptySet
<1>4. BlacklistInv /\ LoggedOutStaysOut /\ unanswered <= slips
  BY <1>1 DEF TokensInit, BlacklistInv, LoggedOutStaysOut
<1>5. OwnToken
  BY DEF TokensInit, OwnToken, Doing
<1>6. RotationKeepsCount
  <2> SUFFICES ASSUME NEW u \in Person
               PROVE  Cardinality(Redeemable(u)) + Cardinality(Rotating(u)) <= logins[u] + doubled[u]
    BY DEF RotationKeepsCount
  <2>1. Redeemable(u) = {} /\ Rotating(u) = {}
    BY <1>1 DEF Redeemable, Rotating, Doing, TokensInit
  <2>2. logins[u] = 0 /\ doubled[u] = 0
    BY DEF TokensInit
  <2>3. Cardinality({}) = 0 /\ 0 + 0 <= 0 + 0
    BY FS_EmptySet
  <2> QED BY <2>1, <2>2, <2>3
<1> QED BY <1>2, <1>3, <1>4, <1>5, <1>6, <1>7 DEF TokensInv

-----------------------------------------------------------------------------

(***************************************************************************)
(* Types.                                                                  *)
(***************************************************************************)

\* What TokensTypeOK says of a goroutine.
LEMMA CallsFit ==
  ASSUME served \in [Caller -> Calls], NEW p \in Caller
  PROVE  served[p] = NoCall \/
           /\ served[p].at \in {"login", "rotate", "issue", "password"}
           /\ served[p].user \in Person
           /\ Doing(p, "rotate") \/ Doing(p, "issue") => served[p].token \in Token
           /\ Doing(p, "password") => served[p].secret \in Secret
BY DEF Calls, Doing

\* A goroutine that does what a request says is serving one.
LEMMA CallKinds ==
  ASSUME served \in [Caller -> Calls], NEW p \in Caller
  PROVE  /\ Doing(p, "login") => served[p] \in [at : {"login"}, user : Person]
         /\ Doing(p, "rotate") => served[p] \in [at : {"rotate"}, user : Person, token : Token]
         /\ Doing(p, "issue") => served[p] \in [at : {"issue"}, user : Person, token : Token]
         /\ Doing(p, "password") => served[p] \in [at : {"password"}, user : Person, secret : Secret]
BY DEF Calls, Doing

\* How the steps write what goroutines serve.
LEMMA ServedStep ==
  ASSUME TokensInv, TokensNext
  PROVE  served' \in [Caller -> Calls]
<1> USE DEF TokensInv
<1>1. ASSUME NEW p \in Caller, Finish(p) PROVE served' \in [Caller -> Calls]
  BY <1>1 DEF Finish, Calls
<1>2. ASSUME NEW p \in Caller, NEW c \in Calls, Take(p, c) PROVE served' \in [Caller -> Calls]
  BY <1>2 DEF Take
<1>3. ASSUME NEW p \in Caller, NEW u \in Person, NEW secret \in Secret, Login(p, u, secret)
      PROVE  served' \in [Caller -> Calls]
  <2>1. [at |-> "login", user |-> u] \in Calls
    BY DEF Calls
  <2> QED BY <1>2, <1>3, <2>1 DEF Login
<1>4. ASSUME NEW p \in Caller, NEW t \in DOMAIN refreshKeys, Refresh(p, t)
      PROVE  served' \in [Caller -> Calls]
  <2>1. t \in Token
    BY DEF TokensTypeOK
  <2>2. [at |-> "rotate", user |-> t.user, token |-> t] \in Calls
    BY <2>1 DEF Calls, Token
  <2> QED BY <1>2, <1>4, <2>2 DEF Refresh
<1>5. ASSUME NEW p \in Caller, DeleteOld(p) PROVE served' \in [Caller -> Calls]
  <2>1. served[p] \in [at : {"rotate"}, user : Person, token : Token]
    BY <1>5, CallKinds DEF DeleteOld
  <2>2. [served[p] EXCEPT !.at = "issue"] \in Calls
    BY <2>1 DEF Calls
  <2>3. served' = [served EXCEPT ![p] = [served[p] EXCEPT !.at = "issue"]]
    BY <1>5 DEF DeleteOld, Continue
  <2> QED BY <2>2, <2>3
<1>6. ASSUME NEW p \in Caller, NEW t \in handed, NEW old \in Secret, NEW new \in Secret,
             ChangePassword(p, t, old, new)
      PROVE  served' \in [Caller -> Calls]
  <2>1. t \in Token
    BY DEF TokensTypeOK
  <2>2. [at |-> "password", user |-> t.user, secret |-> new] \in Calls
    BY <2>1 DEF Calls, Token
  <2> QED BY <1>2, <1>6, <2>2 DEF ChangePassword
<1>7. ASSUME NEW p \in Caller, StoreRefresh(p) \/ StoreFails(p) \/ IssueNew(p) \/ UpdatePassword(p)
      PROVE  served' \in [Caller -> Calls]
  BY <1>1, <1>7 DEF StoreRefresh, StoreFails, IssueNew, UpdatePassword
<1>8. ASSUME NEW t \in handed, Logout(t) \/ Authorized(t) PROVE served' \in [Caller -> Calls]
  BY <1>8 DEF Logout, Authorized
<1>9. ASSUME NEW u \in Person, NEW s \in {"active", "suspended"}, UpdateUserStatus(u, s)
      PROVE  served' \in [Caller -> Calls]
  BY <1>9 DEF UpdateUserStatus
<1>10. CASE Elapse
  BY <1>10 DEF Elapse
<1> QED BY <1>3, <1>4, <1>5, <1>6, <1>7, <1>8, <1>9, <1>10 DEF TokensNext

LEMMA IssuedIsToken ==
  ASSUME TokensTypeOK, NEW u \in Person
  PROVE  /\ Issued(u) \in Token /\ Issued(u).user = u /\ Issued(u).at = hour
         /\ Pair(u) \subseteq Token /\ \A t \in Pair(u) : t.user = u /\ t.at = hour
BY DEF TokensTypeOK, Issued, Pair, Token

LEMMA KeysStep ==
  ASSUME TokensInv, TokensNext
  PROVE  /\ DOMAIN refreshKeys' \subseteq Token
         /\ \A t \in DOMAIN refreshKeys' : refreshKeys'[t] \in Nat /\ refreshKeys'[t] > hour'
         /\ IsFiniteSet(DOMAIN refreshKeys')
<1> USE DEF TokensInv
<1> DEFINE Goal == /\ DOMAIN refreshKeys' \subseteq Token
                   /\ \A t \in DOMAIN refreshKeys' :
                        refreshKeys'[t] \in Nat /\ refreshKeys'[t] > hour'
                   /\ IsFiniteSet(DOMAIN refreshKeys')
<1>0. hour \in Nat
  BY HourIs
<1>1. ASSUME refreshKeys' = refreshKeys, hour' = hour PROVE Goal
  BY <1>1 DEF TokensTypeOK
<1>2. ASSUME NEW u \in Person, refreshKeys' = Put(refreshKeys, Issued(u), hour + RefreshTTL), hour' = hour
      PROVE  Goal
  <2> DEFINE k == Issued(u)
  <2>0. PICK end \in Nat : end = hour + RefreshTTL /\ end > hour
    BY <1>0, TokensAssumption
  <2>1. /\ DOMAIN refreshKeys' = DOMAIN refreshKeys \cup {k}
        /\ refreshKeys'[k] = end
        /\ \A x \in DOMAIN refreshKeys : x # k => refreshKeys'[x] = refreshKeys[x]
    <3>1. refreshKeys' = [x \in DOMAIN refreshKeys \cup {k} |-> IF x = k THEN end ELSE refreshKeys[x]]
      BY <1>2, <2>0 DEF Put
    <3> HIDE DEF k
    <3>2. DOMAIN refreshKeys' = DOMAIN refreshKeys \cup {k}
      BY ONLY <3>1
    <3>3. refreshKeys'[k] = end
      BY ONLY <3>1
    <3>4. \A x \in DOMAIN refreshKeys : x # k => refreshKeys'[x] = refreshKeys[x]
      BY ONLY <3>1
    <3> QED BY <3>2, <3>3, <3>4
  <2>2. k \in Token
    BY IssuedIsToken
  <2> HIDE DEF k
  <2>3. ASSUME NEW t \in DOMAIN refreshKeys'
        PROVE  refreshKeys'[t] \in Nat /\ refreshKeys'[t] > hour'
    <3>1. CASE t = k
      BY <1>2, <2>0, <2>1, <3>1
    <3>2. CASE t # k
      <4>1. t \in DOMAIN refreshKeys /\ refreshKeys'[t] = refreshKeys[t]
        BY <2>1, <3>2
      <4>2. refreshKeys[t] \in Nat /\ refreshKeys[t] > hour
        BY <4>1 DEF TokensTypeOK
      <4> QED BY <1>2, <4>1, <4>2
    <3> QED BY <3>1, <3>2
  <2>4. DOMAIN refreshKeys' \subseteq Token
    BY <2>1, <2>2 DEF TokensTypeOK
  <2>5. IsFiniteSet(DOMAIN refreshKeys')
    BY <2>1, FS_AddElement
  <2> QED BY <2>3, <2>4, <2>5
<1>3. ASSUME NEW t, refreshKeys' = Without(refreshKeys, {t}), hour' = hour PROVE Goal
  <2>1. DOMAIN refreshKeys' = DOMAIN refreshKeys \ {t}
    BY <1>3, WithoutIs
  <2>2. \A x \in DOMAIN refreshKeys' : refreshKeys'[x] = refreshKeys[x]
    BY <1>3, <2>1 DEF Without
  <2>3. IsFiniteSet(DOMAIN refreshKeys')
    BY <2>1, FS_Subset
  <2> QED BY <1>3, <2>1, <2>2, <2>3 DEF TokensTypeOK
<1>4. ASSUME Elapse PROVE Goal
  <2> DEFINE gone == {t \in DOMAIN refreshKeys : refreshKeys[t] <= hour'}
  <2>1. refreshKeys' = Without(refreshKeys, gone) /\ hour' = hour + 1
    BY <1>4 DEF Elapse
  <2>2. DOMAIN refreshKeys' = DOMAIN refreshKeys \ gone
    BY <2>1, WithoutIs
  <2> HIDE DEF gone
  <2>3. \A x \in DOMAIN refreshKeys' : refreshKeys'[x] = refreshKeys[x]
    BY <2>1, <2>2 DEF Without
  <2> USE DEF gone
  <2>4. IsFiniteSet(DOMAIN refreshKeys')
    BY <2>2, FS_Subset
  <2>5. hour' \in Nat
    BY <1>0, <2>1
  <2>6. ASSUME NEW x \in DOMAIN refreshKeys'
        PROVE  refreshKeys'[x] \in Nat /\ refreshKeys'[x] > hour'
    <3>1. x \in DOMAIN refreshKeys /\ ~(refreshKeys[x] <= hour')
      BY <2>2
    <3>2. refreshKeys[x] \in Nat
      BY <3>1 DEF TokensTypeOK
    <3>3. refreshKeys[x] > hour'
      BY <2>5, <3>1, <3>2
    <3> QED BY <2>3, <3>2, <3>3
  <2>7. DOMAIN refreshKeys' \subseteq Token
    BY <2>2 DEF TokensTypeOK
  <2> HIDE DEF gone
  <2> QED BY <2>4, <2>6, <2>7
<1> HIDE DEF Goal
<1>5. ASSUME NEW p \in Caller, StoreRefresh(p) PROVE Goal
  <2>1. served[p].user \in Person
    BY <1>5, CallFields DEF StoreRefresh
  <2> QED BY <1>2, <1>5, <2>1 DEF StoreRefresh
<1>6. ASSUME NEW p \in Caller, DeleteOld(p) PROVE Goal
  <2>1. \/ refreshKeys' = Without(refreshKeys, {served[p].token})
        \/ refreshKeys' = refreshKeys
    BY <1>6 DEF DeleteOld, Redeem
  <2> QED BY <1>1, <1>3, <1>6, <2>1 DEF DeleteOld
<1>7. ASSUME NEW p \in Caller, IssueNew(p) PROVE Goal
  <2>1. served[p].user \in Person
    BY <1>7, CallFields DEF IssueNew
  <2>2. \/ refreshKeys' = Put(refreshKeys, Issued(served[p].user), hour + RefreshTTL)
        \/ refreshKeys' = refreshKeys
    BY <1>7 DEF IssueNew
  <2> QED BY <1>1, <1>2, <1>7, <2>1, <2>2 DEF IssueNew
<1>8. ASSUME NEW p \in Caller,
             \/ \E u \in Person, secret \in Secret : Login(p, u, secret)
             \/ StoreFails(p) \/ UpdatePassword(p)
             \/ \E t \in DOMAIN refreshKeys : Refresh(p, t)
             \/ \E t \in handed, old, new \in Secret : ChangePassword(p, t, old, new)
      PROVE  Goal
  BY <1>1, <1>8 DEF Login, StoreFails, UpdatePassword, Refresh, ChangePassword
<1>9. ASSUME \/ \E t \in handed : Logout(t) \/ Authorized(t)
             \/ \E u \in Person, s \in {"active", "suspended"} : UpdateUserStatus(u, s)
      PROVE  Goal
  BY <1>1, <1>9 DEF Logout, Authorized, UpdateUserStatus
<1> HIDE DEF TokensInv
<1>10. Goal
  <2>1. CASE \E p \in Caller :
               \/ \E u \in Person, secret \in Secret : Login(p, u, secret)
               \/ StoreRefresh(p) \/ StoreFails(p)
               \/ \E t \in DOMAIN refreshKeys : Refresh(p, t)
               \/ DeleteOld(p) \/ IssueNew(p) \/ UpdatePassword(p)
               \/ \E t \in handed, old, new \in Secret : ChangePassword(p, t, old, new)
    BY <1>5, <1>6, <1>7, <1>8, <2>1
  <2> QED BY <1>4, <1>9, <2>1 DEF TokensNext
<1> QED BY <1>10 DEF Goal

\* The tokens handed out and the ones logged out, and the blacklist.
LEMMA HandedOutStep ==
  ASSUME TokensInv, TokensNext
  PROVE  /\ handed' \subseteq Token /\ loggedOut' \subseteq handed'
         /\ DOMAIN blacklist' \subseteq Token
         /\ BlacklistInv'
<1> USE DEF TokensInv
<1> DEFINE Goal == /\ handed' \subseteq Token /\ loggedOut' \subseteq handed'
                   /\ DOMAIN blacklist' \subseteq Token
                   /\ BlacklistInv'
<1>0. hour \in Nat
  BY HourIs
<1>1. ASSUME handed' = handed, loggedOut' = loggedOut, blacklist' = blacklist, hour' = hour
      PROVE  Goal
  BY <1>0, <1>1 DEF TokensTypeOK, BlacklistInv, Until
<1>2. ASSUME NEW u \in Person, handed' = handed \cup Pair(u), loggedOut' = loggedOut,
             blacklist' = blacklist, hour' = hour
      PROVE  Goal
  BY <1>0, <1>2, IssuedIsToken DEF TokensTypeOK, BlacklistInv, Until
<1>3. ASSUME NEW t \in handed, Logout(t) PROVE Goal
  <2>1. /\ blacklist' = Put(blacklist, t, Until(t)) /\ loggedOut' = loggedOut \cup {t}
        /\ handed' = handed /\ hour' = hour
    BY <1>3 DEF Logout
  <2>2. /\ DOMAIN blacklist' = DOMAIN blacklist \cup {t}
        /\ blacklist'[t] = Until(t)
        /\ \A x \in DOMAIN blacklist : x # t => blacklist'[x] = blacklist[x]
    BY <2>1 DEF Put
  <2>3. ASSUME NEW x \in DOMAIN blacklist' PROVE blacklist'[x] = Until(x)
    <3>1. CASE x = t
      BY <2>2, <3>1
    <3>2. CASE x # t
      BY <2>2, <3>2 DEF BlacklistInv
    <3> QED BY <3>1, <3>2
  <2>4. \A x \in loggedOut' : hour < Until(x) => x \in DOMAIN blacklist'
    BY <2>1, <2>2 DEF BlacklistInv
  <2>5. BlacklistInv'
    BY <2>1, <2>3, <2>4 DEF BlacklistInv, Until
  <2> QED BY <1>0, <2>1, <2>2, <2>5 DEF TokensTypeOK
<1>4. ASSUME NEW t \in handed, Authorized(t) PROVE Goal
  BY <1>1, <1>4 DEF Authorized
<1>5. ASSUME Elapse PROVE Goal
  <2> DEFINE gone == {t \in DOMAIN blacklist : blacklist[t] <= hour'}
  <2>1. /\ blacklist' = Without(blacklist, gone) /\ hour' = hour + 1
        /\ handed' = handed /\ loggedOut' = loggedOut
    BY <1>5 DEF Elapse
  <2>2. DOMAIN blacklist' = DOMAIN blacklist \ gone
        /\ \A x \in DOMAIN blacklist \ gone : blacklist'[x] = blacklist[x]
    BY <2>1, WithoutIs
  <2>3. \A x \in DOMAIN blacklist' : blacklist'[x] = Until(x)
    BY <2>2 DEF BlacklistInv
  <2>4. ASSUME NEW x \in loggedOut, hour' < Until(x) PROVE x \in DOMAIN blacklist'
    <3>1. x \in Token /\ Until(x) \in Nat /\ hour' \in Nat
      <4>1. x \in Token
        BY DEF TokensTypeOK
      <4>2. x.at \in Nat /\ x.ttl \in Nat
        BY <4>1, HourIs, TokensAssumption DEF Token
      <4> QED BY <4>1, <4>2, <1>0, <2>1, TokensAssumption DEF Until
    <3>2. hour < Until(x)
      BY <1>0, <2>1, <2>4, <3>1
    <3>3. x \in DOMAIN blacklist /\ blacklist[x] = Until(x)
      BY <3>2 DEF BlacklistInv
    <3>4. ~(blacklist[x] <= hour')
      BY <2>4, <3>1, <3>3
    <3>5. x \notin gone
      BY <3>4
    <3> QED BY <2>2, <3>3, <3>5
  <2>5. BlacklistInv'
    BY <2>1, <2>3, <2>4 DEF BlacklistInv, Until
  <2> HIDE DEF gone
  <2> QED BY <1>0, <2>1, <2>2, <2>5 DEF TokensTypeOK
<1> HIDE DEF Goal
<1>6. ASSUME NEW p \in Caller, StoreRefresh(p) PROVE Goal
  BY <1>2, <1>6, CallFields DEF StoreRefresh
<1>7. ASSUME NEW p \in Caller, IssueNew(p) PROVE Goal
  BY <1>2, <1>7, CallFields DEF IssueNew
<1>8. ASSUME NEW p \in Caller,
             \/ \E u \in Person, secret \in Secret : Login(p, u, secret)
             \/ StoreFails(p) \/ UpdatePassword(p) \/ DeleteOld(p)
             \/ \E t \in DOMAIN refreshKeys : Refresh(p, t)
             \/ \E t \in handed, old, new \in Secret : ChangePassword(p, t, old, new)
      PROVE  Goal
  BY <1>1, <1>8
     DEF Login, StoreFails, UpdatePassword, DeleteOld, Refresh, ChangePassword, sessionVars
<1>9. ASSUME NEW u \in Person, NEW s \in {"active", "suspended"}, UpdateUserStatus(u, s)
      PROVE  Goal
  BY <1>1, <1>9 DEF UpdateUserStatus, sessionVars
<1> HIDE DEF TokensInv
<1>10. Goal
  BY <1>3, <1>4, <1>5, <1>6, <1>7, <1>8, <1>9 DEF TokensNext
<1> QED BY <1>10 DEF Goal

\* A request is let in with a token that was logged out only where Redis did not answer.
LEMMA ChecksStep ==
  ASSUME TokensInv, TokensNext
  PROVE  unanswered' \in 0..MaxSlips /\ intrusions' \in Nat /\ LoggedOutStaysOut'
         /\ unanswered' <= slips'
<1> USE DEF TokensInv
<1>0. /\ unanswered \in Nat /\ unanswered <= slips /\ slips \in 0..MaxSlips /\ MaxSlips \in Nat
      /\ intrusions \in Nat /\ intrusions <= unanswered
  BY TokensAssumption DEF TokensTypeOK, LoggedOutStaysOut
<1>1. ASSUME UNCHANGED checkVars, slips' = slips \/ (slips < MaxSlips /\ slips' = slips + 1)
      PROVE  unanswered' \in 0..MaxSlips /\ intrusions' \in Nat /\ LoggedOutStaysOut'
             /\ unanswered' <= slips'
  BY <1>0, <1>1 DEF checkVars, LoggedOutStaysOut
<1>2. ASSUME NEW t \in handed, Passes(t)
      PROVE  unanswered' \in 0..MaxSlips /\ intrusions' \in Nat /\ LoggedOutStaysOut'
             /\ unanswered' <= slips'
  <2>1. CASE ~Revoked(t) /\ UNCHANGED <<unanswered, slips>>
    <3>1. t \notin loggedOut
      BY <1>2, <2>1 DEF Passes, Valid, Revoked, BlacklistInv, Until
    <3> QED BY <1>0, <1>2, <2>1, <3>1 DEF Passes, LoggedOutStaysOut
  <2>2. CASE Slip /\ unanswered' = unanswered + 1
    BY <1>0, <1>2, <2>2 DEF Passes, Slip, LoggedOutStaysOut
  <2> QED BY <1>2, <2>1, <2>2 DEF Passes
<1>3. ASSUME NEW p \in Caller,
             \/ \E u \in Person, secret \in Secret : Login(p, u, secret)
             \/ StoreRefresh(p) \/ StoreFails(p) \/ DeleteOld(p) \/ IssueNew(p) \/ UpdatePassword(p)
             \/ \E t \in DOMAIN refreshKeys : Refresh(p, t)
      PROVE  UNCHANGED checkVars /\ (slips' = slips \/ (slips < MaxSlips /\ slips' = slips + 1))
  BY <1>3 DEF Login, StoreRefresh, StoreFails, DeleteOld, IssueNew, UpdatePassword, Refresh,
              sessionVars, Slip
<1>4. ASSUME Elapse \/ \E u \in Person, s \in {"active", "suspended"} : UpdateUserStatus(u, s)
      PROVE  UNCHANGED checkVars /\ slips' = slips
  BY <1>4 DEF Elapse, UpdateUserStatus, sessionVars
<1>5. ASSUME NEW p \in Caller, NEW t \in handed, NEW old \in Secret, NEW new \in Secret,
             ChangePassword(p, t, old, new)
      PROVE  Passes(t)
  BY <1>5 DEF ChangePassword
<1>6. ASSUME NEW t \in handed, Logout(t) \/ Authorized(t) PROVE Passes(t)
  BY <1>6 DEF Logout, Authorized
<1> HIDE DEF TokensInv
<1> QED BY <1>1, <1>2, <1>3, <1>4, <1>5, <1>6 DEF TokensNext

\* The rest of the types.
LEMMA OtherTypesStep ==
  ASSUME TokensInv, TokensNext
  PROVE  /\ hour' \in Hour
         /\ standing' \in [Person -> {"active", "suspended"}] /\ password' \in [Person -> Secret]
         /\ logins' \in [Person -> Nat] /\ doubled' \in [Person -> Nat]
         /\ calls' \in 0..MaxCalls /\ slips' \in 0..MaxSlips
<1> USE DEF TokensInv
<1>1. hour' \in Hour
  <2>1. CASE Elapse
    BY <2>1, TokensAssumption DEF Elapse, Hour, TokensTypeOK
  <2>2. CASE ~Elapse
    <3>1. hour' = hour
      BY <2>2 DEF TokensNext, Login, StoreRefresh, StoreFails, Refresh, DeleteOld, IssueNew,
         UpdatePassword, ChangePassword, Logout, Authorized, UpdateUserStatus
    <3> QED BY <3>1 DEF TokensTypeOK
  <2> QED BY <2>1, <2>2
<1>2. standing' \in [Person -> {"active", "suspended"}]
  BY DEF TokensTypeOK, TokensNext, Login, StoreRefresh, StoreFails, Refresh, DeleteOld, IssueNew,
     UpdatePassword, ChangePassword, Logout, Authorized, UpdateUserStatus, Elapse, userVars
<1>3. password' \in [Person -> Secret]
  <2>1. ASSUME NEW p \in Caller, UpdatePassword(p) PROVE password' \in [Person -> Secret]
    BY <2>1, CallFields DEF UpdatePassword, TokensTypeOK
  <2> QED BY <2>1 DEF TokensTypeOK, TokensNext, Login, StoreRefresh, StoreFails, Refresh, DeleteOld,
     IssueNew, ChangePassword, Logout, Authorized, UpdateUserStatus, Elapse, userVars
<1>4. logins' \in [Person -> Nat]
  <2>1. ASSUME NEW p \in Caller, StoreRefresh(p) PROVE logins' \in [Person -> Nat]
    BY <2>1, CallFields DEF StoreRefresh, TokensTypeOK
  <2> QED BY <2>1 DEF TokensTypeOK, TokensNext, Login, StoreFails, Refresh, DeleteOld, IssueNew,
     UpdatePassword, ChangePassword, Logout, Authorized, UpdateUserStatus, Elapse, loginVars
<1>5. doubled' \in [Person -> Nat]
  <2>1. ASSUME NEW p \in Caller, DeleteOld(p) PROVE doubled' \in [Person -> Nat]
    <3>1. served[p].token.user \in Person
      BY <2>1, CallFields DEF DeleteOld, Token
    <3> QED BY <2>1, <3>1 DEF DeleteOld, TokensTypeOK
  <2> QED BY <2>1 DEF TokensTypeOK, TokensNext, Login, StoreRefresh, StoreFails, Refresh, IssueNew,
     UpdatePassword, ChangePassword, Logout, Authorized, UpdateUserStatus, Elapse, loginVars
<1>6. calls' \in 0..MaxCalls
  <2>1. calls \in 0..MaxCalls /\ MaxCalls \in Nat
    BY TokensAssumption DEF TokensTypeOK
  <2>2. calls' = calls \/ (calls < MaxCalls /\ calls' = calls + 1)
    BY DEF TokensNext, Login, StoreRefresh, StoreFails, Refresh, DeleteOld, IssueNew, Take,
       UpdatePassword, ChangePassword, Logout, Authorized, UpdateUserStatus, Elapse
  <2> QED BY <2>1, <2>2
<1>7. slips' \in 0..MaxSlips
  <2>1. slips \in 0..MaxSlips /\ MaxSlips \in Nat
    BY TokensAssumption DEF TokensTypeOK
  <2>2. slips' = slips \/ (slips < MaxSlips /\ slips' = slips + 1)
    BY DEF TokensNext, Login, StoreRefresh, StoreFails, Refresh, DeleteOld, IssueNew, Slip, Passes,
       UpdatePassword, ChangePassword, Logout, Authorized, UpdateUserStatus, Elapse
  <2> QED BY <2>1, <2>2
<1> QED BY <1>1, <1>2, <1>3, <1>4, <1>5, <1>6, <1>7

LEMMA TokensTypeStep ==
  ASSUME TokensInv, TokensNext
  PROVE  TokensTypeOK'
<1>1. \A p \in Caller : served'[p] = NoCall \/
           /\ served'[p].at \in {"login", "rotate", "issue", "password"}
           /\ served'[p].user \in Person
           /\ Doing(p, "rotate")' \/ Doing(p, "issue")' => served'[p].token \in Token
           /\ Doing(p, "password")' => served'[p].secret \in Secret
  BY ServedStep DEF Calls, Doing
<1> QED BY <1>1, KeysStep, HandedOutStep, ChecksStep, OtherTypesStep DEF TokensTypeOK

\* Whoever rotates a token does so for its user.
LEMMA OwnTokenStep ==
  ASSUME TokensInv, TokensNext
  PROVE  OwnToken'
<1> USE DEF TokensInv
<1> SUFFICES ASSUME NEW q \in Caller, served'[q] # NoCall, served'[q].at = "rotate"
             PROVE  served'[q].token.user = served'[q].user
  BY DEF OwnToken, Doing
<1>1. CASE served'[q] = served[q]
  BY <1>1 DEF OwnToken, Doing
<1>2. CASE served'[q] # served[q]
  <2>1. ASSUME NEW p \in Caller, NEW t \in DOMAIN refreshKeys, Refresh(p, t)
        PROVE  served'[q].token.user = served'[q].user
    BY <1>2, <2>1 DEF Refresh, Take
  <2>2. ASSUME NEW p \in Caller, NEW u \in Person, NEW secret \in Secret, Login(p, u, secret)
        PROVE  FALSE
    BY <1>2, <2>2 DEF Login, Take
  <2>3. ASSUME NEW p \in Caller, Finish(p) PROVE FALSE
    BY <1>2, <2>3 DEF Finish
  <2>4. ASSUME NEW p \in Caller, DeleteOld(p) PROVE FALSE
    <3>1. served' = [served EXCEPT ![p].at = "issue"]
      BY <2>4 DEF DeleteOld, Continue
    <3>2. q = p
      BY <1>2, <3>1
    <3>3. served[p] \in [at : {"rotate"}, user : Person, token : Token]
      BY <2>4, CallKinds DEF DeleteOld
    <3>4. served'[p].at = "issue"
      BY <3>1, <3>3
    <3> QED BY <3>2, <3>4
  <2>5. ASSUME NEW p \in Caller, NEW t \in handed, NEW old \in Secret, NEW new \in Secret,
               ChangePassword(p, t, old, new)
        PROVE  FALSE
    BY <1>2, <2>5 DEF ChangePassword, Take
  <2>6. served' # served
    BY <1>2
  <2> QED BY <2>1, <2>2, <2>3, <2>4, <2>5, <2>6 DEF TokensNext, StoreRefresh, StoreFails, IssueNew,
      UpdatePassword, Logout, Authorized, UpdateUserStatus, Elapse
<1> QED BY <1>1, <1>2

-----------------------------------------------------------------------------

(***************************************************************************)
(* Rotation.                                                               *)
(***************************************************************************)

\* Two sets that lose as much as they gain, or gain no more than is counted.
LEMMA CountArithmetic ==
  ASSUME NEW r \in Nat, NEW q \in Nat, NEW n \in Nat, NEW d \in Nat, r + q <= n + d,
         NEW r2 \in Nat, NEW q2 \in Nat, NEW n2 \in Nat, NEW d2 \in Nat, n2 >= n, d2 >= d,
         \/ r2 <= r /\ q2 <= q
         \/ r2 <= r + 1 /\ q2 <= q /\ n2 = n + 1
         \/ r2 <= r /\ q2 <= q + 1 /\ d2 = d + 1
         \/ r2 = r - 1 /\ q2 <= q + 1
         \/ r2 <= r + 1 /\ q2 = q - 1
  PROVE  r2 + q2 <= n2 + d2
OBVIOUS

\* A user's tokens and rotations are finitely many.
LEMMA CountsAreNumbers ==
  ASSUME TokensInv, NEW u \in Person
  PROVE  /\ IsFiniteSet(Redeemable(u)) /\ Cardinality(Redeemable(u)) \in Nat
         /\ IsFiniteSet(Rotating(u)) /\ Cardinality(Rotating(u)) \in Nat
         /\ logins[u] \in Nat /\ doubled[u] \in Nat
<1>1. IsFiniteSet(Redeemable(u))
  BY FS_Subset DEF TokensInv, Redeemable
<1>2. IsFiniteSet(Rotating(u))
  BY FS_Subset, TokensAssumption DEF Rotating
<1> QED BY <1>1, <1>2, FS_CardinalityType DEF TokensInv, TokensTypeOK

\* What is needed of a step, for one user: how its tokens R and its rotations Q change.
LEMMA CountStep ==
  ASSUME TokensInv, NEW u \in Person, NEW R, NEW Q, NEW n \in Nat, NEW d \in Nat,
         n >= logins[u], d >= doubled[u],
         \/ R \subseteq Redeemable(u) /\ Q \subseteq Rotating(u)
         \/ (\E x : R \subseteq Redeemable(u) \cup {x}) /\ Q \subseteq Rotating(u)
             /\ n = logins[u] + 1
         \/ R \subseteq Redeemable(u) /\ (\E x : Q \subseteq Rotating(u) \cup {x})
             /\ d = doubled[u] + 1
         \/ (\E x \in Redeemable(u) : R = Redeemable(u) \ {x})
             /\ (\E x : Q \subseteq Rotating(u) \cup {x})
         \/ (\E x : R \subseteq Redeemable(u) \cup {x})
             /\ (\E x \in Rotating(u) : Q = Rotating(u) \ {x})
  PROVE  Cardinality(R) + Cardinality(Q) <= n + d
<1>1. /\ IsFiniteSet(Redeemable(u)) /\ Cardinality(Redeemable(u)) \in Nat
      /\ IsFiniteSet(Rotating(u)) /\ Cardinality(Rotating(u)) \in Nat
      /\ logins[u] \in Nat /\ doubled[u] \in Nat
  BY CountsAreNumbers
<1>2. ASSUME NEW S, IsFiniteSet(S), NEW T, T \subseteq S
      PROVE  Cardinality(T) \in Nat /\ Cardinality(T) <= Cardinality(S)
  BY <1>2, FS_Subset, FS_CardinalityType
<1>3. ASSUME NEW S, IsFiniteSet(S), NEW x, NEW T, T \subseteq S \cup {x}
      PROVE  Cardinality(T) \in Nat /\ Cardinality(T) <= Cardinality(S) + 1
  <2>1. /\ IsFiniteSet(S \cup {x}) /\ Cardinality(S) \in Nat
        /\ Cardinality(S \cup {x}) = IF x \in S THEN Cardinality(S) ELSE Cardinality(S) + 1
    BY <1>3, FS_AddElement, FS_CardinalityType
  <2>2. Cardinality(T) \in Nat /\ Cardinality(T) <= Cardinality(S \cup {x})
    BY <1>2, <1>3, <2>1
  <2> QED BY <2>1, <2>2
<1>4. ASSUME NEW S, IsFiniteSet(S), NEW x \in S
      PROVE  Cardinality(S \ {x}) \in Nat /\ Cardinality(S \ {x}) = Cardinality(S) - 1
  BY <1>4, <1>2, FS_RemoveElement, FS_CardinalityType
<1> DEFINE r == Cardinality(Redeemable(u))
           q == Cardinality(Rotating(u))
           r2 == Cardinality(R)
           q2 == Cardinality(Q)
<1>5. r + q <= logins[u] + doubled[u]
  BY DEF TokensInv, RotationKeepsCount
<1>6. r2 \in Nat /\ q2 \in Nat
      /\ \/ r2 <= r /\ q2 <= q
         \/ r2 <= r + 1 /\ q2 <= q /\ n = logins[u] + 1
         \/ r2 <= r /\ q2 <= q + 1 /\ d = doubled[u] + 1
         \/ r2 = r - 1 /\ q2 <= q + 1
         \/ r2 <= r + 1 /\ q2 = q - 1
  <2>1. CASE R \subseteq Redeemable(u) /\ Q \subseteq Rotating(u)
    BY <1>1, <1>2, <2>1
  <2>2. CASE (\E x : R \subseteq Redeemable(u) \cup {x}) /\ Q \subseteq Rotating(u)
             /\ n = logins[u] + 1
    BY <1>1, <1>2, <1>3, <2>2
  <2>3. CASE R \subseteq Redeemable(u) /\ (\E x : Q \subseteq Rotating(u) \cup {x})
             /\ d = doubled[u] + 1
    BY <1>1, <1>2, <1>3, <2>3
  <2>4. CASE (\E x \in Redeemable(u) : R = Redeemable(u) \ {x})
             /\ (\E x : Q \subseteq Rotating(u) \cup {x})
    BY <1>1, <1>3, <1>4, <2>4
  <2>5. CASE (\E x : R \subseteq Redeemable(u) \cup {x})
             /\ (\E x \in Rotating(u) : Q = Rotating(u) \ {x})
    BY <1>1, <1>3, <1>4, <2>5
  <2> QED BY <2>1, <2>2, <2>3, <2>4, <2>5
<1> HIDE DEF r, q, r2, q2
<1>7. r \in Nat /\ q \in Nat
  BY <1>1 DEF r, q
<1>8. r2 + q2 <= n + d
  BY <1>1, <1>5, <1>6, <1>7, CountArithmetic
<1> QED BY <1>8 DEF r2, q2

\* The tokens and rotations of a user after a step.
LEMMA CountsAfter ==
  ASSUME TokensInv, NEW u \in Person, NEW R, NEW Q, R = Redeemable(u)', Q = Rotating(u)'
  PROVE  /\ R = {t \in DOMAIN refreshKeys' : t.user = u}
         /\ Q = {p \in Caller : served'[p] # NoCall /\ served'[p].at = "issue" /\ served'[p].user = u}
BY DEF Redeemable, Rotating, Doing

\* Steps that issue no token and begin no rotation.
LEMMA QuietStep ==
  ASSUME TokensInv, NEW u \in Person, DOMAIN refreshKeys' \subseteq DOMAIN refreshKeys,
         \A p \in Caller : served'[p] = served[p] \/ served'[p] = NoCall \/ served'[p].at # "issue",
         logins' = logins, doubled' = doubled
  PROVE  (Cardinality(Redeemable(u)) + Cardinality(Rotating(u)) <= logins[u] + doubled[u])'
<1>1. PICK R, Q : R = Redeemable(u)' /\ Q = Rotating(u)'
  OBVIOUS
<1>2. R \subseteq Redeemable(u)
  BY <1>1, CountsAfter DEF Redeemable
<1>3. Q \subseteq Rotating(u)
  BY <1>1, CountsAfter DEF Rotating, Doing
<1>4. logins[u] \in Nat /\ doubled[u] \in Nat
  BY CountsAreNumbers
<1>5. Cardinality(R) + Cardinality(Q) <= logins[u] + doubled[u]
  BY <1>2, <1>3, <1>4, CountStep
<1> QED BY <1>1, <1>5

LEMMA StoreCounts ==
  ASSUME TokensInv, NEW u \in Person, NEW p \in Caller, StoreRefresh(p)
  PROVE  (Cardinality(Redeemable(u)) + Cardinality(Rotating(u)) <= logins[u] + doubled[u])'
<1> USE DEF TokensInv
<1>1. PICK R, Q : R = Redeemable(u)' /\ Q = Rotating(u)'
  OBVIOUS
<1>2. PICK w \in Person : w = served[p].user
  BY CallFields DEF StoreRefresh
<1>3. /\ DOMAIN refreshKeys' = DOMAIN refreshKeys \cup {Issued(w)} /\ Issued(w).user = w
      /\ logins' = [logins EXCEPT ![w] = @ + 1] /\ doubled' = doubled
      /\ served' = [served EXCEPT ![p] = NoCall]
  <2>1. Issued(w).user = w
    BY IssuedIsToken
  <2> QED BY <1>2, <2>1 DEF StoreRefresh, Finish, Put
<1>4. Q \subseteq Rotating(u)
  BY <1>1, <1>3, CountsAfter DEF Rotating, Doing
<1>5. logins[u] \in Nat /\ doubled[u] \in Nat
  BY CountsAreNumbers
<1>6. CASE u = w
  <2>1. R \subseteq Redeemable(u) \cup {Issued(w)}
    BY <1>1, <1>3, CountsAfter DEF Redeemable
  <2>2. PICK n \in Nat : n = logins[u] + 1
    BY <1>5
  <2>3. logins'[u] = n
    BY <1>3, <1>6, <2>2 DEF TokensTypeOK
  <2>4. Cardinality(R) + Cardinality(Q) <= n + doubled[u]
    <3>1. (\E x : R \subseteq Redeemable(u) \cup {x}) /\ Q \subseteq Rotating(u) /\ n = logins[u] + 1
      BY <1>4, <2>1, <2>2
    <3>2. PICK d \in Nat : d = doubled[u]
      BY <1>5
    <3>3. n >= logins[u] /\ d >= doubled[u]
      BY <1>5, <2>2, <3>2
    <3>4. Cardinality(R) + Cardinality(Q) <= n + d
      BY ONLY TokensInv, u \in Person, <3>1, <3>3, CountStep
    <3> QED BY <3>2, <3>4
  <2> QED BY <1>1, <1>3, <2>3, <2>4
<1>7. CASE u # w
  <2>1. R \subseteq Redeemable(u)
    BY <1>1, <1>3, <1>7, CountsAfter DEF Redeemable
  <2>2. logins'[u] = logins[u]
    BY <1>3, <1>7 DEF TokensTypeOK
  <2>3. Cardinality(R) + Cardinality(Q) <= logins[u] + doubled[u]
    BY <1>4, <1>5, <2>1, CountStep
  <2> QED BY <1>1, <1>3, <2>2, <2>3
<1> QED BY <1>6, <1>7

\* The old token goes as the rotation comes, or the refresh is counted.
LEMMA DeleteCounts ==
  ASSUME TokensInv, NEW u \in Person, NEW p \in Caller, DeleteOld(p)
  PROVE  (Cardinality(Redeemable(u)) + Cardinality(Rotating(u)) <= logins[u] + doubled[u])'
<1> USE DEF TokensInv
<1>1. PICK R, Q : R = Redeemable(u)' /\ Q = Rotating(u)'
  OBVIOUS
<1>2. served[p] \in [at : {"rotate"}, user : Person, token : Token]
  BY CallKinds DEF DeleteOld
<1>3. PICK t \in Token : t = served[p].token
  BY <1>2
<1>4. t.user \in Person /\ served[p].user = t.user
  BY <1>3 DEF Token, OwnToken, DeleteOld
<1>5. /\ served' = [served EXCEPT ![p] = [served[p] EXCEPT !.at = "issue"]]
      /\ logins' = logins
  BY DEF DeleteOld, Continue
<1>6. Q \subseteq Rotating(u) \cup {p} /\ (u # t.user => Q \subseteq Rotating(u))
  BY <1>1, <1>2, <1>4, <1>5, CountsAfter DEF Rotating, Doing
<1>7. logins[u] \in Nat /\ doubled[u] \in Nat
  BY CountsAreNumbers
<1>8. DOMAIN refreshKeys' \subseteq DOMAIN refreshKeys
  BY <1>3 DEF DeleteOld, Redeem, Without
<1>9. R \subseteq Redeemable(u)
  BY <1>1, <1>8, CountsAfter DEF Redeemable
<1>10. CASE u # t.user
  <2>1. doubled'[u] = doubled[u]
    BY <1>3, <1>10 DEF DeleteOld, TokensTypeOK
  <2>2. Cardinality(R) + Cardinality(Q) <= logins[u] + doubled[u]
    BY <1>6, <1>7, <1>9, <1>10, CountStep
  <2> QED BY <1>1, <1>5, <2>1, <2>2
<1>11. CASE u = t.user /\ t \in DOMAIN refreshKeys /\ slips' = slips
  <2>1. doubled' = doubled
    BY <1>3, <1>11 DEF DeleteOld
  <2>2. refreshKeys' = Without(refreshKeys, {t})
    <3>1. ~Slip
      <4>1. slips \in Nat
        BY TokensAssumption DEF TokensTypeOK
      <4> QED BY <1>11, <4>1 DEF Slip
    <3> QED BY <1>3, <3>1 DEF DeleteOld, Redeem
  <2>3. DOMAIN refreshKeys' = DOMAIN refreshKeys \ {t}
    BY <2>2, WithoutIs
  <2>4. t \in Redeemable(u) /\ R = Redeemable(u) \ {t}
    BY <1>1, <1>11, <2>3, CountsAfter DEF Redeemable
  <2>5. Cardinality(R) + Cardinality(Q) <= logins[u] + doubled[u]
    <3>1. (\E x \in Redeemable(u) : R = Redeemable(u) \ {x})
          /\ (\E x : Q \subseteq Rotating(u) \cup {x})
      BY <1>6, <2>4
    <3>2. PICK n \in Nat, d \in Nat : n = logins[u] /\ d = doubled[u]
      BY <1>7
    <3>3. n >= logins[u] /\ d >= doubled[u]
      BY <3>2
    <3>4. Cardinality(R) + Cardinality(Q) <= n + d
      BY ONLY TokensInv, u \in Person, <3>1, <3>3, CountStep
    <3> QED BY <3>2, <3>4
  <2> QED BY <1>1, <1>5, <2>1, <2>5
<1>12. CASE u = t.user /\ ~(t \in DOMAIN refreshKeys /\ slips' = slips)
  <2>1. PICK d \in Nat : d = doubled[u] + 1
    BY <1>7
  <2>2. doubled'[u] = d
    BY <1>3, <1>12, <2>1 DEF DeleteOld, TokensTypeOK
  <2>3. Cardinality(R) + Cardinality(Q) <= logins[u] + d
    <3>1. /\ R \subseteq Redeemable(u) /\ (\E x : Q \subseteq Rotating(u) \cup {x})
          /\ d = doubled[u] + 1
      BY <1>6, <1>9, <2>1
    <3>2. d >= doubled[u] /\ logins[u] >= logins[u]
      BY <1>7, <2>1
    <3> QED BY <1>7, <3>1, <3>2, CountStep
  <2> QED BY <1>1, <1>5, <2>2, <2>3
<1> QED BY <1>10, <1>11, <1>12

\* The new token comes as the rotation goes.
LEMMA IssueCounts ==
  ASSUME TokensInv, NEW u \in Person, NEW p \in Caller, IssueNew(p)
  PROVE  (Cardinality(Redeemable(u)) + Cardinality(Rotating(u)) <= logins[u] + doubled[u])'
<1> USE DEF TokensInv
<1>1. PICK R, Q : R = Redeemable(u)' /\ Q = Rotating(u)'
  OBVIOUS
<1>2. PICK w \in Person : w = served[p].user
  BY CallFields DEF IssueNew
<1>3. /\ DOMAIN refreshKeys' \subseteq DOMAIN refreshKeys \cup {Issued(w)} /\ Issued(w).user = w
      /\ logins' = logins /\ doubled' = doubled
      /\ served' = [served EXCEPT ![p] = NoCall]
  <2>1. Issued(w).user = w
    BY IssuedIsToken
  <2> QED BY <1>2, <2>1 DEF IssueNew, Finish, loginVars, Put
<1>4. logins[u] \in Nat /\ doubled[u] \in Nat
  BY CountsAreNumbers
<1>5. CASE u = w
  <2>1. p \in Rotating(u)
    BY <1>2, <1>5 DEF IssueNew, Rotating
  <2>2. Q = Rotating(u) \ {p}
    BY <1>1, <1>3, CountsAfter DEF Rotating, Doing
  <2>3. R \subseteq Redeemable(u) \cup {Issued(w)}
    BY <1>1, <1>3, CountsAfter DEF Redeemable
  <2>4. Cardinality(R) + Cardinality(Q) <= logins[u] + doubled[u]
    <3>1. (\E x : R \subseteq Redeemable(u) \cup {x})
          /\ (\E x \in Rotating(u) : Q = Rotating(u) \ {x})
      BY <2>1, <2>2, <2>3
    <3>2. PICK n \in Nat, d \in Nat : n = logins[u] /\ d = doubled[u]
      BY <1>4
    <3>3. n >= logins[u] /\ d >= doubled[u]
      BY <3>2
    <3>4. Cardinality(R) + Cardinality(Q) <= n + d
      BY ONLY TokensInv, u \in Person, <3>1, <3>3, CountStep
    <3> QED BY <3>2, <3>4
  <2> QED BY <1>1, <1>3, <2>4
<1>6. CASE u # w
  <2>1. R \subseteq Redeemable(u)
    BY <1>1, <1>3, <1>6, CountsAfter DEF Redeemable
  <2>2. Q \subseteq Rotating(u)
    BY <1>1, <1>3, CountsAfter DEF Rotating, Doing
  <2>3. Cardinality(R) + Cardinality(Q) <= logins[u] + doubled[u]
    BY <1>4, <2>1, <2>2, CountStep
  <2> QED BY <1>1, <1>3, <2>3
<1> QED BY <1>5, <1>6

LEMMA RotationStep ==
  ASSUME TokensInv, TokensNext
  PROVE  RotationKeepsCount'
<1> USE DEF TokensInv
<1> SUFFICES ASSUME NEW u \in Person
             PROVE  (Cardinality(Redeemable(u)) + Cardinality(Rotating(u)) <= logins[u] + doubled[u])'
  BY DEF RotationKeepsCount
<1> DEFINE Goal ==
      (Cardinality(Redeemable(u)) + Cardinality(Rotating(u)) <= logins[u] + doubled[u])'
<1>1. ASSUME NEW p \in Caller, StoreRefresh(p) PROVE Goal
  BY <1>1, StoreCounts
<1>2. ASSUME NEW p \in Caller, DeleteOld(p) PROVE Goal
  BY <1>2, DeleteCounts
<1>3. ASSUME NEW p \in Caller, IssueNew(p) PROVE Goal
  BY <1>3, IssueCounts
<1>4. ASSUME Elapse PROVE Goal
  <2>1. DOMAIN refreshKeys' \subseteq DOMAIN refreshKeys
    BY <1>4 DEF Elapse, Without
  <2>2. served' = served /\ logins' = logins /\ doubled' = doubled
    BY <1>4 DEF Elapse, loginVars
  <2> HIDE DEF Goal
  <2>3. \A p \in Caller : served'[p] = served[p]
    BY <2>2
  <2> QED BY <2>1, <2>2, <2>3, QuietStep DEF Goal
<1>5. ASSUME NEW p \in Caller, NEW c, c = NoCall \/ c.at # "issue",
             served' = [served EXCEPT ![p] = c] \/ served' = served,
             refreshKeys' = refreshKeys, logins' = logins, doubled' = doubled
      PROVE  Goal
  <2>1. \A q \in Caller : served'[q] = served[q] \/ served'[q] = NoCall \/ served'[q].at # "issue"
    BY <1>5
  <2> HIDE DEF Goal
  <2> QED BY <1>5, <2>1, QuietStep DEF Goal
<1> HIDE DEF Goal
<1>6. ASSUME NEW p \in Caller, NEW v \in Person, NEW secret \in Secret, Login(p, v, secret) PROVE Goal
  BY <1>5, <1>6 DEF Login, Take, loginVars
<1>7. ASSUME NEW p \in Caller, NEW t \in DOMAIN refreshKeys, Refresh(p, t) PROVE Goal
  BY <1>5, <1>7 DEF Refresh, Take, loginVars
<1>8. ASSUME NEW p \in Caller, NEW t \in handed, NEW old \in Secret, NEW new \in Secret,
             ChangePassword(p, t, old, new)
      PROVE  Goal
  BY <1>5, <1>8 DEF ChangePassword, Take, loginVars
<1>9. ASSUME NEW p \in Caller, StoreFails(p) \/ UpdatePassword(p) PROVE Goal
  BY <1>5, <1>9 DEF StoreFails, UpdatePassword, Finish, loginVars
<1>10. ASSUME served' = served, refreshKeys' = refreshKeys, logins' = logins, doubled' = doubled
       PROVE  Goal
  <2>1. \A p \in Caller : served'[p] = served[p]
    BY <1>10
  <2> QED BY <1>10, <2>1, QuietStep DEF Goal
<1>11. ASSUME NEW t \in handed, Logout(t) \/ Authorized(t) PROVE Goal
  BY <1>10, <1>11 DEF Logout, Authorized, loginVars
<1>12. ASSUME NEW v \in Person, NEW s \in {"active", "suspended"}, UpdateUserStatus(v, s) PROVE Goal
  BY <1>10, <1>12 DEF UpdateUserStatus, loginVars
<1> HIDE DEF TokensInv
<1>13. Goal
  BY <1>1, <1>2, <1>3, <1>4, <1>6, <1>7, <1>8, <1>9, <1>11, <1>12 DEF TokensNext
<1> QED BY <1>13 DEF Goal

LEMMA TokensStep == TokensInv /\ [TokensNext]_tokenVars => TokensInv'
<1> SUFFICES ASSUME TokensInv, [TokensNext]_tokenVars PROVE TokensInv'
  OBVIOUS
<1>1. CASE TokensNext
  BY <1>1, TokensTypeStep, ServedStep, KeysStep, HandedOutStep, ChecksStep, OwnTokenStep,
     RotationStep
     DEF TokensInv
<1>2. CASE UNCHANGED tokenVars
  <2>1. TokensTypeOK'
    BY <1>2 DEF tokenVars, TokensInv, TokensTypeOK, Doing
  <2>2. RotationKeepsCount'
    BY <1>2 DEF tokenVars, TokensInv, RotationKeepsCount, Redeemable, Rotating, Doing
  <2> QED BY <1>2, <2>1, <2>2
          DEF tokenVars, TokensInv, BlacklistInv, Until, LoggedOutStaysOut, OwnToken, Doing
<1> QED BY <1>1, <1>2

\* Rotating refresh tokens leaves a user with no more of them than logins, but for those
\* refreshed twice at once or not deleted by Redis, and a token logged out, an access or a
\* refresh token, is let in again only by look-ups that Redis does not answer, however late
\* it is used (Login, RefreshToken, Logout, IsBlacklisted of internal/auth, AuthMiddleware).
THEOREM TokensAreKept == TokensSpec => []TokensHold
<1>1. TokensInit => TokensInv
  BY InitTokens
<1>2. TokensInv /\ [TokensNext]_tokenVars => TokensInv'
  BY TokensStep
<1>3. TokensInv => TokensHold
  BY DEF TokensInv, TokensHold
<1> QED BY <1>1, <1>2, <1>3, PTL DEF TokensSpec

-----------------------------------------------------------------------------

\* What is read of a row.
RowRead == [caps : [Cap -> Nat], excluded : Nat, cooling : Nat]

SafeCall ==
  {None}
  \cup [at : {"update"}, user : Player, read : RowRead, cap : Cap, value : Values]
  \cup [at : {"check"}, user : Player, read : RowRead, barred : Nat, stake : Stakes]
  \cup [at : {"suspend"}, user : Player]
  \cup [at : {"submit"}, user : Player, papers : Papers]

SafeCallsTyped == call \in [Call -> SafeCall]

\* A row says of an exclusion that did not miss it what its user wished, so that a check
\* has read it; and a row that is not there would say that there is none.
Known(u, end, wish) == end = wish \/ <<u, wish>> \in missed

ExclusionInv ==
  /\ \A u \in Player : Known(u, excluded[u], wished[u]) /\ (~limitsRow[u] => excluded[u] = 0)
  /\ \A p \in Call : call[p].at = "check" =>
       Known(call[p].user, call[p].read.excluded, call[p].barred)

\* Papers that are approved while a submission is under way were approved during it.
ApprovalInv ==
  \A p \in Call :
    call[p].at = "submit" /\ kyc[call[p].user] = "verified" =>
      <<call[p].user, approvals[call[p].user]>> \in late

SafeInv == SafeguardsHold /\ SafeCallsTyped /\ ExclusionInv /\ ApprovalInv

LEMMA SafeInitInv == SafeInit => SafeInv
BY SafeAssumption
DEF SafeInit, SafeInv, SafeguardsHold, SafeTypeOK, ExclusionHolds, ApprovalHolds,
    SafeCallsTyped, SafeCall, ExclusionInv, Known, ApprovalInv, None

\* The parts of a call.
LEMMA SafeCallFields ==
  ASSUME SafeCallsTyped, NEW p \in Call
  PROVE  /\ call[p] \in SafeCall
         /\ call[p].at \in {"none", "update", "check", "suspend", "submit"}
         /\ call[p].at # "none" => call[p] # None /\ call[p].user \in Player
         /\ call[p].at = "none" => call[p] = None
         /\ call[p].at \in {"update", "check"} => call[p].read \in RowRead
         /\ call[p].at = "update" => call[p].cap \in Cap /\ call[p].value \in Values
         /\ call[p].at = "check" => call[p].stake \in Stakes /\ call[p].barred \in Nat
         /\ call[p].at = "submit" => call[p].papers \in Papers
<1>1. call[p] \in SafeCall
  BY DEF SafeCallsTyped
<1> QED BY <1>1 DEF SafeCall, None

\* A goroutine goes on with a call that keeps what is known of calls.
LEMMA NextCallKeeps ==
  ASSUME SafeInv, NEW p \in Call, NEW c \in SafeCall, Next_(p, c),
         c.at = "check" => Known(c.user, c.read.excluded, c.barred),
         UNCHANGED <<limitsRow, excluded, wishVars>>
  PROVE  SafeCallsTyped' /\ ExclusionInv'
<1> USE DEF SafeInv, SafeCallsTyped, ExclusionInv, Known, Next_, wishVars
<1>1. SafeCallsTyped'
  OBVIOUS
<1>2. \A q \in Call : call'[q] = IF q = p THEN c ELSE call[q]
  OBVIOUS
<1>3. ExclusionInv'
  BY <1>2
<1> QED BY <1>1, <1>3

\* A goroutine goes on with a call other than a submission.
LEMMA NextCallApproves ==
  ASSUME SafeInv, NEW p \in Call, NEW c \in SafeCall, Next_(p, c), c.at # "submit",
         UNCHANGED paperVars
  PROVE  ApprovalInv'
<1>1. \A q \in Call : call'[q] = IF q = p THEN c ELSE call[q]
  BY DEF SafeInv, SafeCallsTyped, Next_
<1> QED BY <1>1 DEF SafeInv, ApprovalInv, paperVars

\* The types, but for the calls.
LEMMA CallsAt ==
  ASSUME SafeCallsTyped
  PROVE  \A p \in Call : call[p] = None \/ call[p].at \in {"update", "check", "suspend", "submit"}
BY SafeCallFields

LEMMA ReadTyped ==
  ASSUME SafeInv, NEW u \in Player
  PROVE  Read(u) \in RowRead
BY SafeAssumption DEF SafeInv, SafeguardsHold, SafeTypeOK, Read, RowRead

\* What is read of a user's row is what he wished, unless the exclusion missed it.
LEMMA ReadKnown ==
  ASSUME SafeInv, NEW u \in Player
  PROVE  Known(u, Read(u).excluded, wished[u])
BY DEF SafeInv, ExclusionInv, Known, Read

\* A call begins with a row that is read, and the exclusion its user wished.
LEMMA GetLimitsKeeps ==
  ASSUME SafeInv, NEW p \in Call, NEW u \in Player, NEW c \in SafeCall,
         c.at \in {"update", "check"},
         c.at = "check" => Known(c.user, c.read.excluded, c.barred), Next_(p, c),
         safeCalls' \in 0..MaxSafeCalls,
         UNCHANGED <<safeHour, limitVars, lossToday, status, paperVars, wishVars, letIn>>
  PROVE  SafeInv'
<1>1. SafeCallsTyped' /\ ExclusionInv'
  BY NextCallKeeps DEF limitVars
<1>2. ApprovalInv'
  BY NextCallApproves
<1>3. SafeguardsHold'
  BY <1>1, CallsAt
  DEF SafeInv, SafeguardsHold, SafeTypeOK, ExclusionHolds, ApprovalHolds, limitVars, paperVars,
      wishVars, SafeCallsTyped, SafeCall, None
<1> QED BY <1>1, <1>2, <1>3 DEF SafeInv

LEMMA UpdateLimitsKeeps ==
  ASSUME SafeInv, NEW p \in Call, NEW u \in Player, NEW cap \in Cap, NEW value \in Values,
         UpdateLimits(p, u, cap, value)
  PROVE  SafeInv'
<1> DEFINE c == [at |-> "update", user |-> u, read |-> Read(u), cap |-> cap, value |-> value]
<1>1. Next_(p, c) /\ safeCalls' \in 0..MaxSafeCalls
  <2>1. Start(p, c)
    BY DEF UpdateLimits, CheckCanBet, GetLimits
  <2> HIDE DEF c
  <2> QED BY <2>1, SafeAssumption DEF Start, SafeInv, SafeguardsHold, SafeTypeOK
<1>2. c \in SafeCall
  BY ReadTyped DEF SafeCall, SafeInv, SafeguardsHold, SafeTypeOK
<1> HIDE DEF c
<1>3. c.at = "update"
  BY DEF c
<1>4. UNCHANGED <<safeHour, limitVars, lossToday, status, paperVars, wishVars, letIn>>
  BY DEF UpdateLimits, GetLimits
<1> QED BY <1>1, <1>2, <1>3, <1>4, GetLimitsKeeps

LEMMA CheckCanBetKeeps ==
  ASSUME SafeInv, NEW p \in Call, NEW u \in Player, NEW stake \in Stakes,
         CheckCanBet(p, u, stake)
  PROVE  SafeInv'
<1> DEFINE c == [at |-> "check", user |-> u, read |-> Read(u), barred |-> wished[u],
                 stake |-> stake]
<1>1. Next_(p, c) /\ safeCalls' \in 0..MaxSafeCalls
  <2>1. Start(p, c)
    BY DEF UpdateLimits, CheckCanBet, GetLimits
  <2> HIDE DEF c
  <2> QED BY <2>1, SafeAssumption DEF Start, SafeInv, SafeguardsHold, SafeTypeOK
<1>2. c \in SafeCall
  BY ReadTyped DEF SafeCall, SafeInv, SafeguardsHold, SafeTypeOK
<1>3. Known(u, Read(u).excluded, wished[u])
  BY ReadKnown
<1> HIDE DEF c
<1>4. c.at = "check" /\ Known(c.user, c.read.excluded, c.barred)
  BY <1>3 DEF c
<1>5. UNCHANGED <<safeHour, limitVars, lossToday, status, paperVars, wishVars, letIn>>
  BY DEF CheckCanBet, GetLimits
<1> QED BY <1>1, <1>2, <1>4, <1>5, GetLimitsKeeps

LEMMA InsertDefaultsKeeps ==
  ASSUME SafeInv, NEW p \in Call, InsertDefaults(p)
  PROVE  SafeInv'
<1>1. call[p].user \in Player
  BY SafeCallFields DEF InsertDefaults, SafeInv
<1>2. SafeguardsHold'
  BY <1>1 DEF InsertDefaults, SafeInv, SafeguardsHold, SafeTypeOK, ExclusionHolds,
              ApprovalHolds, paperVars, wishVars
<1>3. ExclusionInv'
  BY <1>1 DEF InsertDefaults, SafeInv, SafeguardsHold, SafeTypeOK, ExclusionInv, Known,
              wishVars
<1>4. ApprovalInv' /\ SafeCallsTyped'
  BY DEF InsertDefaults, SafeInv, ApprovalInv, SafeCallsTyped, paperVars
<1> QED BY <1>2, <1>3, <1>4 DEF SafeInv

LEMMA SaveLimitsKeeps ==
  ASSUME SafeInv, NEW p \in Call, SaveLimits(p)
  PROVE  SafeInv'
<1> USE DEF SaveLimits, Untouched
<1>1. /\ call[p].user \in Player /\ call[p].read.caps \in [Cap -> Nat]
      /\ call[p].cap \in Cap /\ call[p].value \in Nat
  BY SafeCallFields, SafeAssumption DEF SafeInv, Is, RowRead
<1>2. None \in SafeCall /\ None.at # "check" /\ None.at # "submit"
  BY DEF None, SafeCall
<1>3. SafeCallsTyped' /\ ExclusionInv'
  <2>1. UNCHANGED <<limitsRow, excluded, wishVars>> /\ Next_(p, None)
    OBVIOUS
  <2> QED BY <2>1, <1>2, NextCallKeeps
<1>4. ApprovalInv'
  BY <1>2, NextCallApproves
<1>5. caps' \in [Player -> [Cap -> Nat]]
  BY <1>1 DEF SafeInv, SafeguardsHold, SafeTypeOK
<1>6. SafeguardsHold'
  BY <1>3, <1>5, CallsAt
  DEF SafeInv, SafeguardsHold, SafeTypeOK, ExclusionHolds, ApprovalHolds, paperVars,
      wishVars, SafeCallsTyped, SafeCall, None
<1> QED BY <1>3, <1>4, <1>6 DEF SafeInv

LEMMA AnswerCheckKeeps ==
  ASSUME SafeInv, NEW p \in Call, AnswerCheck(p)
  PROVE  SafeInv'
<1> USE DEF AnswerCheck
<1>1. None \in SafeCall /\ None.at # "check" /\ None.at # "submit"
  BY DEF None, SafeCall
<1>2. SafeCallsTyped' /\ ExclusionInv'
  <2>1. UNCHANGED <<limitsRow, excluded, wishVars>> /\ Next_(p, None)
    BY DEF limitVars
  <2> QED BY <2>1, <1>1, NextCallKeeps
<1>3. ApprovalInv'
  BY <1>1, NextCallApproves
<1>4. letIn' \subseteq missed /\ letIn' \subseteq Player \X Nat
  <2> DEFINE yes == Allowed(call[p].read, call[p].stake, lossToday[call[p].user])
  <2>1. /\ call[p].user \in Player /\ call[p].barred \in Nat /\ safeHour \in Nat
        /\ Known(call[p].user, call[p].read.excluded, call[p].barred)
    BY SafeCallFields DEF SafeInv, ExclusionInv, Is, SafeguardsHold, SafeTypeOK
  <2>2. yes /\ safeHour < call[p].barred => <<call[p].user, call[p].barred>> \in missed
    BY <2>1 DEF Allowed, Known
  <2>3. letIn \subseteq missed /\ letIn \subseteq Player \X Nat
    BY DEF SafeInv, SafeguardsHold, SafeTypeOK, ExclusionHolds
  <2> HIDE DEF yes
  <2>4. letIn' = IF yes /\ safeHour < call[p].barred
                 THEN letIn \cup {<<call[p].user, call[p].barred>>} ELSE letIn
    BY DEF yes
  <2> QED BY <2>1, <2>2, <2>3, <2>4
<1>5. SafeguardsHold'
  BY <1>2, <1>4, CallsAt
  DEF SafeInv, SafeguardsHold, SafeTypeOK, ExclusionHolds, ApprovalHolds, limitVars, paperVars,
      wishVars, SafeCallsTyped, SafeCall, None
<1> QED BY <1>2, <1>3, <1>5 DEF SafeInv

LEMMA SelfExcludeKeeps ==
  ASSUME SafeInv, NEW p \in Call, NEW u \in Player, NEW term \in Terms, SelfExclude(p, u, term)
  PROVE  SafeInv'
<1> DEFINE c == [at |-> "suspend", user |-> u]
<1> USE DEF SelfExclude, Start
<1>1. c \in SafeCall /\ c.at \notin {"check", "submit"} /\ Next_(p, c)
  BY DEF SafeCall
<1> HIDE DEF c
<1>2. SafeCallsTyped'
  BY <1>1 DEF SafeInv, SafeCallsTyped, Next_
<1>3. ApprovalInv'
  BY <1>1, NextCallApproves
<1>4. term \in Nat /\ safeHour \in Nat
  BY SafeAssumption DEF SafeInv, SafeguardsHold, SafeTypeOK
<1>5. ExclusionInv'
  <2>1. \A q \in Call : call'[q] = IF q = p THEN c ELSE call[q]
    BY <1>1 DEF SafeInv, SafeCallsTyped, Next_
  <2>2. missed \subseteq missed'
    OBVIOUS
  <2>3. ASSUME NEW v \in Player
        PROVE  Known(v, excluded[v], wished[v])' /\ (~limitsRow'[v] => excluded'[v] = 0)
    <3>1. Known(v, excluded[v], wished[v]) /\ (~limitsRow[v] => excluded[v] = 0)
      BY DEF SafeInv, ExclusionInv
    <3>2. CASE v # u
      BY <3>1, <3>2, <2>2 DEF Known, SafeInv, SafeguardsHold, SafeTypeOK
    <3>3. CASE v = u
      BY <3>1, <3>3 DEF Known, SafeInv, SafeguardsHold, SafeTypeOK
    <3> QED BY <3>2, <3>3
  <2>4. \A q \in Call : call[q].at = "check" =>
          Known(call[q].user, call[q].read.excluded, call[q].barred)
    BY DEF SafeInv, ExclusionInv
  <2> QED BY <1>1, <2>1, <2>2, <2>3, <2>4 DEF ExclusionInv, Known
<1>6. /\ excluded' \in [Player -> Nat] /\ wished' \in [Player -> Nat]
      /\ missed' \subseteq Player \X Nat /\ missed \subseteq missed'
  <2>1. safeHour + term \in Nat
    BY <1>4
  <2>2. missed \subseteq Player \X Nat /\ excluded \in [Player -> Nat] /\ wished \in [Player -> Nat]
    BY DEF SafeInv, SafeguardsHold, SafeTypeOK
  <2>3. missed' \in {missed, missed \cup {<<u, safeHour + term>>}}
    OBVIOUS
  <2>4. wished' = [wished EXCEPT ![u] = safeHour + term]
        /\ excluded' \in {excluded, [excluded EXCEPT ![u] = safeHour + term]}
    OBVIOUS
  <2> QED BY <2>1, <2>2, <2>3, <2>4
<1>7. SafeguardsHold'
  BY <1>2, <1>6, CallsAt, SafeAssumption
  DEF SafeInv, SafeguardsHold, SafeTypeOK, ExclusionHolds, ApprovalHolds, paperVars,
      wishVars, SafeCallsTyped, SafeCall, None
<1> QED BY <1>2, <1>3, <1>5, <1>7 DEF SafeInv

LEMMA SuspendKeeps ==
  ASSUME SafeInv, NEW p \in Call, Suspend(p)
  PROVE  SafeInv'
<1> USE DEF Suspend
<1>1. None \in SafeCall /\ None.at # "check" /\ None.at # "submit" /\ call[p].user \in Player
  BY SafeCallFields DEF None, SafeCall, Is, SafeInv
<1>2. SafeCallsTyped' /\ ExclusionInv'
  <2>1. UNCHANGED <<limitsRow, excluded, wishVars>> /\ Next_(p, None)
    BY DEF limitVars
  <2> QED BY <2>1, <1>1, NextCallKeeps
<1>3. ApprovalInv'
  BY <1>1, NextCallApproves
<1>4. SafeguardsHold'
  BY <1>1, <1>2, CallsAt
  DEF SafeInv, SafeguardsHold, SafeTypeOK, ExclusionHolds, ApprovalHolds, limitVars, paperVars,
      wishVars, SafeCallsTyped, SafeCall, None
<1> QED BY <1>2, <1>3, <1>4 DEF SafeInv

LEMMA SubmitKYCKeeps ==
  ASSUME SafeInv, NEW p \in Call, NEW u \in Player, NEW d \in Papers, SubmitKYC(p, u, d)
  PROVE  SafeInv'
<1> DEFINE c == [at |-> "submit", user |-> u, papers |-> d]
<1> USE DEF SubmitKYC, Start
<1>1. c \in SafeCall /\ c.at = "submit" /\ c.user = u /\ Next_(p, c)
  BY DEF SafeCall, SafeInv, SafeguardsHold, SafeTypeOK
<1> HIDE DEF c
<1>2. SafeCallsTyped' /\ ExclusionInv'
  <2>1. UNCHANGED <<limitsRow, excluded, wishVars>>
    BY DEF limitVars
  <2> QED BY <2>1, <1>1, NextCallKeeps
<1>3. ApprovalInv'
  <2>1. \A q \in Call : call'[q] = IF q = p THEN c ELSE call[q]
    BY <1>1 DEF SafeInv, SafeCallsTyped, Next_
  <2> QED BY <1>1, <2>1 DEF SafeInv, ApprovalInv, Open, paperVars
<1>4. SafeguardsHold'
  BY <1>2, CallsAt, SafeAssumption
  DEF SafeInv, SafeguardsHold, SafeTypeOK, ExclusionHolds, ApprovalHolds, limitVars, paperVars,
      wishVars, SafeCallsTyped, SafeCall, None
<1> QED BY <1>2, <1>3, <1>4 DEF SafeInv

LEMMA SavePapersKeeps ==
  ASSUME SafeInv, NEW p \in Call, SavePapers(p)
  PROVE  SafeInv'
<1> DEFINE u == call[p].user
<1> USE DEF SavePapers
<1>1. None \in SafeCall /\ None.at # "check" /\ None.at # "submit"
  BY DEF None, SafeCall
<1>2. u \in Player /\ call[p].papers \in Papers /\ call[p].at = "submit"
  BY SafeCallFields DEF Is, SafeInv
<1>3. SafeCallsTyped' /\ ExclusionInv'
  <2>1. UNCHANGED <<limitsRow, excluded, wishVars>> /\ Next_(p, None)
    BY DEF limitVars
  <2> QED BY <2>1, <1>1, NextCallKeeps
<1>4. undone' \subseteq late /\ undone' \subseteq Player \X Nat
  BY <1>2 DEF SafeInv, ApprovalInv, SafeguardsHold, SafeTypeOK, ApprovalHolds
<1>5. ApprovalInv'
  <2>1. \A q \in Call : call'[q] = IF q = p THEN None ELSE call[q]
    BY DEF SafeInv, SafeCallsTyped, Next_
  <2>2. \A v \in Player : kyc'[v] = "verified" => kyc[v] = "verified"
    BY DEF SafeInv, SafeguardsHold, SafeTypeOK
  <2>3. \A q \in Call : call[q].at = "submit" => call[q].user \in Player
    BY SafeCallFields DEF SafeInv
  <2> QED BY <1>1, <2>1, <2>2, <2>3 DEF SafeInv, ApprovalInv
<1>6. SafeguardsHold'
  BY <1>2, <1>3, <1>4, CallsAt
  DEF SafeInv, SafeguardsHold, SafeTypeOK, ExclusionHolds, ApprovalHolds, limitVars,
      wishVars, SafeCallsTyped, SafeCall, None
<1> QED BY <1>3, <1>5, <1>6 DEF SafeInv

\* The steps that are no goroutine's.
LEMMA OthersKeep ==
  ASSUME SafeInv, NEW u \in Player,
         \/ \E term \in Terms : SetCoolingOff(u, term)
         \/ \E verdict \in {"verified", "rejected"} : Review(u, verdict)
         \/ Lose(u)
  PROVE  SafeInv'
<1>1. SafeCallsTyped' /\ UNCHANGED <<limitsRow, excluded, wishVars, call, letIn, undone>>
  BY DEF SetCoolingOff, Review, Lose, SafeInv, SafeCallsTyped, limitVars, paperVars
<1>2. ExclusionInv'
  BY <1>1 DEF SafeInv, ExclusionInv, Known, wishVars
<1>3. ASSUME NEW term \in Terms, SetCoolingOff(u, term) PROVE SafeguardsHold' /\ ApprovalInv'
  <2>1. term \in Nat /\ safeHour \in Nat
    BY SafeAssumption DEF SafeInv, SafeguardsHold, SafeTypeOK
  <2>2. cooling' \in [Player -> Nat]
    BY <1>3, <2>1 DEF SafeInv, SafeguardsHold, SafeTypeOK, SetCoolingOff
  <2> QED
    BY <1>1, <1>3, <2>2, CallsAt, SafeAssumption
    DEF SafeInv, SafeguardsHold, SafeTypeOK, ExclusionHolds, ApprovalHolds, ApprovalInv,
        SetCoolingOff, paperVars, wishVars
<1>4. ASSUME NEW verdict \in {"verified", "rejected"}, Review(u, verdict)
      PROVE  SafeguardsHold' /\ ApprovalInv'
  <2>1. /\ approvals' \in [Player -> Nat] /\ late \subseteq late'
        /\ late' \subseteq Player \X Nat
    BY <1>4 DEF SafeInv, SafeguardsHold, SafeTypeOK, Review
  <2>2. SafeguardsHold'
    BY <1>1, <1>4, <2>1, SafeAssumption
    DEF SafeInv, SafeguardsHold, SafeTypeOK, ExclusionHolds, ApprovalHolds, Review, limitVars,
        wishVars
  <2>3. ApprovalInv'
    <3> SUFFICES ASSUME NEW p \in Call, call[p].at = "submit",
                        kyc'[call[p].user] = "verified"
                 PROVE  <<call[p].user, approvals'[call[p].user]>> \in late'
      BY <1>1 DEF ApprovalInv
    <3>1. CASE call[p].user = u
      BY <1>4, <3>1 DEF Review, Submitting, Is, SafeInv, SafeguardsHold, SafeTypeOK
    <3>2. CASE call[p].user # u
      BY <1>4, <2>1, <3>2 DEF Review, SafeInv, ApprovalInv, SafeguardsHold, SafeTypeOK
    <3> QED BY <3>1, <3>2
  <2> QED BY <2>2, <2>3
<1>5. ASSUME Lose(u) PROVE SafeguardsHold' /\ ApprovalInv'
  BY <1>1, <1>5, SafeAssumption
  DEF SafeInv, SafeguardsHold, SafeTypeOK, ExclusionHolds, ApprovalHolds, ApprovalInv,
      Lose, limitVars, paperVars, wishVars
<1> QED BY <1>1, <1>2, <1>3, <1>4, <1>5 DEF SafeInv

LEMMA SafeStepKeeps == SafeInv /\ [SafeNext]_safeVars => SafeInv'
<1> SUFFICES ASSUME SafeInv, [SafeNext]_safeVars PROVE SafeInv'
  OBVIOUS
<1>1. ASSUME NEW p \in Call, InsertDefaults(p) \/ SaveLimits(p) \/ AnswerCheck(p) \/ Suspend(p)
                             \/ SavePapers(p)
      PROVE  SafeInv'
  BY <1>1, InsertDefaultsKeeps, SaveLimitsKeeps, AnswerCheckKeeps, SuspendKeeps, SavePapersKeeps
<1>2. ASSUME NEW p \in Call, NEW u \in Player, NEW cap \in Cap, NEW value \in Values,
             UpdateLimits(p, u, cap, value)
      PROVE  SafeInv'
  BY <1>2, UpdateLimitsKeeps
<1>3. ASSUME NEW p \in Call, NEW u \in Player, NEW stake \in Stakes, CheckCanBet(p, u, stake)
      PROVE  SafeInv'
  BY <1>3, CheckCanBetKeeps
<1>4. ASSUME NEW p \in Call, NEW u \in Player, NEW term \in Terms, SelfExclude(p, u, term)
      PROVE  SafeInv'
  BY <1>4, SelfExcludeKeeps
<1>5. ASSUME NEW p \in Call, NEW u \in Player, NEW d \in Papers, SubmitKYC(p, u, d)
      PROVE  SafeInv'
  BY <1>5, SubmitKYCKeeps
<1>6. ASSUME NEW u \in Player,
             \/ \E term \in Terms : SetCoolingOff(u, term)
             \/ \E verdict \in {"verified", "rejected"} : Review(u, verdict)
             \/ Lose(u)
      PROVE  SafeInv'
  BY <1>6, OthersKeep
<1>7. CASE Wait
  BY <1>7, SafeAssumption DEF Wait, SafeInv, SafeguardsHold, SafeTypeOK, ExclusionHolds, ApprovalHolds,
     SafeCallsTyped, ExclusionInv, Known, ApprovalInv, limitVars, paperVars, wishVars
<1>8. CASE UNCHANGED safeVars
  BY <1>8 DEF safeVars, SafeInv, SafeguardsHold, SafeTypeOK, ExclusionHolds, ApprovalHolds,
     SafeCallsTyped, ExclusionInv, Known, ApprovalInv
<1> QED BY <1>1, <1>2, <1>3, <1>4, <1>5, <1>6, <1>7, <1>8 DEF SafeNext

\* Whatever calls overlap, a check that begins after a self-exclusion lets its user bet
\* while it lasts only if the exclusion found no row of his limits to be written to, and a
\* submission undoes an approval only if it was under way when the approval was made
\* (internal/responsible/service.go, internal/kyc/service.go).
THEOREM SafeguardsKept == SafeSpec => []SafeguardsHold
<1>1. SafeInv => SafeguardsHold
  BY DEF SafeInv
<1> QED BY <1>1, SafeInitInv, SafeStepKeeps, PTL DEF SafeSpec

-----------------------------------------------------------------------------

\* What is left of an analysis when its bet is added, and what there is of one in all.
Done == {"count", "address", "arb", "set side", "alert", "profile", "done"}

Stage == {"trim", "add"} \cup Done

BegunCall ==
  [at : Stage, now : 0..LastTick, market : Market, side : Side,
   address : Address, score : Nat]

FraudTyped ==
  /\ analysis \in [Analysis -> {NotYet} \cup BegunCall]
  /\ lastSide \in [Market -> [side : Side, set : Int]]
  /\ profile \in [score : 0..100, set : Int]
  /\ alerts \subseteq [call : Analysis, resolved : BOOLEAN]

\* The ticks of the bets that were added, and whether nothing begun may remove one.
Added == {analysis[c].now : c \in {x \in Analysis : analysis[x].at \in Done}}
Stays(t) == \A u \in Begun : u < t + Window

\* Bets that are counted were added, and what is added is there while it must stay.
FreqInv ==
  /\ counted \subseteq Added
  /\ \A t \in Added : Stays(t) => t \in freq

FraudInv == BurstIsFlagged /\ FraudTyped /\ FreqInv

LEMMA FraudInitInv == FraudInit => FraudInv
<1> SUFFICES ASSUME FraudInit PROVE FraudInv
  OBVIOUS
<1>1. FraudTyped /\ FraudTypeOK
  BY FraudAssumption DEF FraudInit, FraudTyped, FraudTypeOK, Never, Side
<1>2. Added = {}
  BY DEF FraudInit, Added, Done, NotYet
<1>3. OneIsFlagged
  <2>1. \A burst \in SUBSET counted : Cardinality(burst) = 0
    BY FS_EmptySet DEF FraudInit
  <2> QED BY <2>1, FraudAssumption DEF OneIsFlagged
<1> QED BY <1>1, <1>2, <1>3 DEF FraudInit, FraudInv, FreqInv, BurstIsFlagged

\* The parts of a call.
LEMMA AnalysisFields ==
  ASSUME FraudTyped, NEW c \in Analysis
  PROVE  /\ analysis[c].at # "not yet" => analysis[c] \in BegunCall
         /\ analysis[c] \in BegunCall =>
              /\ analysis[c].at \in Stage /\ analysis[c].at # "not yet" /\ analysis[c] # NotYet
              /\ analysis[c].now \in Nat /\ analysis[c].now \in 0..LastTick
              /\ analysis[c].side \in Side /\ analysis[c].address \in Address
              /\ analysis[c].score \in Nat
<1>1. NotYet.at = "not yet"
  BY DEF NotYet
<1>2. "not yet" \notin Stage
  BY DEF Stage, Done
<1>3. \A r \in BegunCall :
        /\ r.at \in Stage /\ r.now \in 0..LastTick /\ r.side \in Side /\ r.address \in Address
        /\ r.score \in Nat
  BY DEF BegunCall
<1>4. 0..LastTick \subseteq Nat
  BY FraudAssumption
<1>5. analysis[c] = NotYet \/ analysis[c] \in BegunCall
  BY DEF FraudTyped
<1> QED BY <1>1, <1>2, <1>3, <1>4, <1>5

LEMMA NatPlus == \A m, n \in Nat : m + n \in Nat
OBVIOUS

\* A call that goes on: the types stay, Begun too, and Added grows by its tick at most.
LEMMA GoesOn ==
  ASSUME FraudTyped, NEW c \in Analysis, analysis[c].at # "not yet", NEW at, NEW points \in Nat,
         at \in {"add"} \cup Done, Goes(c, at, points)
  PROVE  /\ analysis' \in [Analysis -> {NotYet} \cup BegunCall]
         /\ Begun' = Begun
         /\ analysis[c].at \in Done /\ at \in Done => Added' = Added
         /\ analysis[c].at = "add" /\ at \in Done => Added' = Added \cup {analysis[c].now}
         /\ analysis[c].at = "trim" /\ at = "add" => Added' = Added
<1> DEFINE new == [analysis[c] EXCEPT !.at = at, !.score = @ + points]
<1>1. analysis[c] \in BegunCall
  BY AnalysisFields
<1>2. new \in BegunCall /\ new.at = at /\ new.now = analysis[c].now
  <2>1. at \in Stage
    BY DEF Stage
  <2>2. analysis[c].score \in Nat
    BY <1>1, AnalysisFields
  <2>3. analysis[c].score + points \in Nat
    BY <2>2, NatPlus
  <2> QED BY <1>1, <2>1, <2>3 DEF BegunCall
<1>3. analysis' = [analysis EXCEPT ![c] = new]
  BY DEF Goes
<1> HIDE DEF new
<1>4. analysis' \in [Analysis -> {NotYet} \cup BegunCall]
  BY <1>2, <1>3 DEF FraudTyped
<1>5. \A x \in Analysis : x # c => analysis'[x] = analysis[x]
  BY <1>3 DEF FraudTyped
<1>6. analysis'[c] = new
  BY <1>3 DEF FraudTyped
<1>7. new # NotYet /\ analysis[c] # NotYet
  <2>1. at # "not yet" /\ NotYet.at = "not yet"
    BY DEF NotYet, Done
  <2> QED BY <1>1, <1>2, <2>1, AnalysisFields
<1>8. Begun' = Begun
  BY <1>2, <1>5, <1>6, <1>7 DEF Begun
<1>9. "add" \notin Done /\ "trim" \notin Done
  BY DEF Done
<1>10. analysis[c].at \in Done /\ at \in Done => Added' = Added
  BY <1>2, <1>5, <1>6 DEF Added
<1>11. analysis[c].at = "add" /\ at \in Done => Added' = Added \cup {analysis[c].now}
  BY <1>2, <1>5, <1>6, <1>9 DEF Added
<1>12. analysis[c].at = "trim" /\ at = "add" => Added' = Added
  BY <1>2, <1>5, <1>6, <1>9 DEF Added
<1> QED BY <1>4, <1>8, <1>10, <1>11, <1>12

\* A call that goes on and touches none of the sets of the bets keeps the invariant.
LEMMA QuietKeeps ==
  ASSUME FraudInv, FraudTyped', FraudTypeOK', Begun' = Begun, Added' = Added,
         UNCHANGED <<freq, counted, flagged>>
  PROVE  FraudInv'
BY DEF FraudInv, FreqInv, Stays, BurstIsFlagged, OneIsFlagged

\* The types that FraudTyped does not give.
LEMMA FraudTypes ==
  ASSUME FraudTyped, tick \in 0..LastTick, freq \subseteq 0..LastTick, ips \subseteq Address,
         counted \subseteq 0..LastTick, flagged \subseteq counted
  PROVE  FraudTypeOK
<1>1. \A m \in Market : lastSide[m].side \in Side
  BY DEF FraudTyped
<1>2. profile.score \in 0..100 /\ \A a \in alerts : a.call \in Analysis
  BY DEF FraudTyped
<1> QED BY <1>1, <1>2 DEF FraudTypeOK

LEMMA AnalyzeBetKeeps ==
  ASSUME FraudInv, NEW c \in Analysis, NEW market \in Market, NEW side \in Side,
         NEW address \in Address, NEW other \in OtherScores,
         AnalyzeBet(c, market, side, address, other)
  PROVE  FraudInv'
<1> DEFINE new == [at |-> "trim", now |-> tick, market |-> market, side |-> side,
                   address |-> address, score |-> other]
<1>1. new \in BegunCall /\ new.at = "trim" /\ new # NotYet
  <2>1. tick \in 0..LastTick /\ other \in Nat
    BY FraudAssumption DEF FraudInv, BurstIsFlagged, FraudTypeOK
  <2> QED BY <2>1 DEF BegunCall, Stage, NotYet
<1>2. analysis' = [analysis EXCEPT ![c] = new]
  BY DEF AnalyzeBet
<1> HIDE DEF new
<1>3. FraudTyped' /\ FraudTypeOK'
  BY <1>1, <1>2 DEF AnalyzeBet, FraudInv, BurstIsFlagged, FraudTyped, FraudTypeOK, keys
<1>4. \A x \in Analysis : analysis'[x] = IF x = c THEN new ELSE analysis[x]
  BY <1>2 DEF FraudInv, FraudTyped
<1>5. Begun \subseteq Begun'
  BY <1>4 DEF Begun, AnalyzeBet
<1>6. Added' = Added
  <2>1. analysis[c].at \notin Done /\ analysis'[c].at \notin Done
    <3>1. NotYet.at = "not yet" /\ "not yet" \notin Done /\ "trim" \notin Done
      BY DEF NotYet, Done
    <3>2. analysis[c] = NotYet
      BY DEF AnalyzeBet
    <3> QED BY <1>1, <1>4, <3>1, <3>2
  <2> QED BY <1>4, <2>1 DEF Added
<1>7. FreqInv'
  BY <1>5, <1>6 DEF FraudInv, FreqInv, Stays, AnalyzeBet, keys
<1>8. OneIsFlagged'
  BY <1>5 DEF FraudInv, BurstIsFlagged, OneIsFlagged, AnalyzeBet, keys
<1> QED BY <1>3, <1>7, <1>8 DEF FraudInv, BurstIsFlagged

LEMMA TrimKeeps ==
  ASSUME FraudInv, NEW c \in Analysis, Trim(c)
  PROVE  FraudInv'
<1>1. analysis[c].at = "trim" /\ analysis[c] \in BegunCall /\ analysis[c] # NotYet
  BY AnalysisFields DEF Trim, Does, FraudInv
<1>2. /\ analysis' \in [Analysis -> {NotYet} \cup BegunCall]
      /\ Begun' = Begun /\ Added' = Added
  BY <1>1, GoesOn DEF Trim, FraudInv
<1>3. FraudTyped' /\ FraudTypeOK'
  BY <1>2 DEF Trim, FraudInv, BurstIsFlagged, FraudTyped, FraudTypeOK
<1>4. analysis[c].now \in Begun /\ analysis[c].now \in Nat
  BY <1>1, AnalysisFields DEF Begun, FraudInv
<1>5. Added \subseteq Int
  <2>1. \A x \in Analysis : analysis[x].at \in Done => analysis[x].now \in Int
    <3>1. "not yet" \notin Done
      BY DEF Done
    <3>2. \A x \in Analysis : analysis[x].at \in Done => analysis[x].now \in Nat
      BY <3>1, AnalysisFields DEF FraudInv
    <3> QED BY <3>2
  <2> QED BY <2>1 DEF Added
<1>6. FreqInv'
  <2>1. ASSUME NEW t \in Added, Stays(t) PROVE t > analysis[c].now - Window
    BY <1>4, <1>5, <2>1, FraudAssumption DEF Stays
  <2> QED BY <1>2, <2>1 DEF FraudInv, FreqInv, Stays, Trim
<1>7. OneIsFlagged'
  BY <1>2 DEF FraudInv, BurstIsFlagged, OneIsFlagged, Trim
<1> QED BY <1>3, <1>6, <1>7 DEF FraudInv, BurstIsFlagged

LEMMA AddKeeps ==
  ASSUME FraudInv, NEW c \in Analysis, Add(c)
  PROVE  FraudInv'
<1>1. analysis[c].at = "add" /\ analysis[c] \in BegunCall
  BY AnalysisFields DEF Add, Does, FraudInv
<1>2. /\ analysis' \in [Analysis -> {NotYet} \cup BegunCall]
      /\ Begun' = Begun /\ Added' = Added \cup {analysis[c].now}
  BY <1>1, GoesOn DEF Add, FraudInv, Done
<1>3. FraudTyped' /\ FraudTypeOK'
  BY <1>1, <1>2, AnalysisFields DEF Add, FraudInv, BurstIsFlagged, FraudTyped, FraudTypeOK
<1>4. FreqInv'
  BY <1>2 DEF FraudInv, FreqInv, Stays, Add
<1>5. OneIsFlagged'
  BY <1>2 DEF FraudInv, BurstIsFlagged, OneIsFlagged, Add
<1> QED BY <1>3, <1>4, <1>5 DEF FraudInv, BurstIsFlagged

LEMMA CountKeeps ==
  ASSUME FraudInv, NEW c \in Analysis, Count(c)
  PROVE  FraudInv'
<1> DEFINE now == analysis[c].now
           yes == TooOften(Cardinality(freq))
<1>1. analysis[c].at = "count" /\ analysis[c] \in BegunCall
  BY AnalysisFields DEF Count, Does, FraudInv
<1>2. /\ analysis' \in [Analysis -> {NotYet} \cup BegunCall]
      /\ Begun' = Begun /\ Added' = Added
  BY <1>1, GoesOn, FraudAssumption DEF Count, FraudInv, Done, Flag
<1>3. now \in Added /\ now \in 0..LastTick
  BY <1>1, AnalysisFields DEF Added, Done, FraudInv
<1>4. FraudTyped' /\ FraudTypeOK'
  BY <1>2, <1>3 DEF Count, FraudInv, BurstIsFlagged, FraudTyped, FraudTypeOK, keys
<1>5. FreqInv'
  BY <1>2, <1>3 DEF FraudInv, FreqInv, Stays, Count, keys
<1>6. OneIsFlagged'
  <2> SUFFICES ASSUME NEW burst \in SUBSET counted', Cardinality(burst) > MaxPerWindow,
                      \A t \in burst, u \in Begun : u < t + Window
               PROVE  burst \cap flagged' # {}
    BY <1>2 DEF OneIsFlagged
  <2>1. counted' = counted \cup {now} /\ flagged \subseteq flagged'
    BY DEF Count
  <2>2. CASE now \notin burst
    BY <2>1, <2>2 DEF FraudInv, BurstIsFlagged, OneIsFlagged
  <2>3. CASE now \in burst
    <3>1. burst \subseteq freq
      BY <1>3, <2>1 DEF FraudInv, FreqInv, Stays
    <3>2. IsFiniteSet(freq)
      <4>1. IsFiniteSet(0..LastTick)
        BY FS_Interval, FraudAssumption
      <4> QED BY <4>1, FS_Subset DEF FraudInv, BurstIsFlagged, FraudTypeOK
    <3>3. Cardinality(burst) <= Cardinality(freq)
      BY <3>1, <3>2, FS_Subset
    <3>4. Cardinality(burst) \in Nat /\ Cardinality(freq) \in Nat /\ MaxPerWindow \in Nat
      BY <3>1, <3>2, FS_Subset, FS_CardinalityType, FraudAssumption
    <3>5. yes
      BY <3>3, <3>4 DEF TooOften
    <3>6. now \in flagged'
      BY <3>5 DEF Count
    <3> QED BY <2>3, <3>6
  <2> QED BY <2>2, <2>3
<1> QED BY <1>4, <1>5, <1>6 DEF FraudInv, BurstIsFlagged

\* The steps after the count.
LEMMA AfterCountKeeps ==
  ASSUME FraudInv, NEW c \in Analysis,
         CountAddress(c) \/ ReadSide(c) \/ SetSide(c) \/ CreateAlert(c) \/ SetProfile(c)
  PROVE  FraudInv'
<1>1. analysis[c].at \in Done /\ analysis[c] \in BegunCall
  BY AnalysisFields
  DEF CountAddress, ReadSide, SetSide, CreateAlert, SetProfile, Does, FraudInv, Done
<1>2. /\ analysis' \in [Analysis -> {NotYet} \cup BegunCall]
      /\ Begun' = Begun /\ Added' = Added
  <2>1. \E at \in Done, points \in Nat : Goes(c, at, points)
    BY FraudAssumption
    DEF CountAddress, ReadSide, SetSide, CreateAlert, SetProfile, Flag, Done
  <2>2. analysis[c].at # "not yet"
    BY <1>1 DEF Done
  <2> QED BY <1>1, <2>1, <2>2, GoesOn DEF FraudInv
<1>3. UNCHANGED <<tick, freq, counted, flagged>>
  BY DEF CountAddress, ReadSide, SetSide, CreateAlert, SetProfile, keys
<1>4. ips' \subseteq Address
  <2>1. ips' = ips \/ ips' = ips \cup {analysis[c].address}
    BY DEF CountAddress, ReadSide, SetSide, CreateAlert, SetProfile, keys
  <2>2. analysis[c].address \in Address /\ ips \subseteq Address
    BY <1>1, AnalysisFields DEF FraudInv, BurstIsFlagged, FraudTypeOK
  <2> QED BY <2>1, <2>2
<1>5. tick \in Int
  BY FraudAssumption DEF FraudInv, BurstIsFlagged, FraudTypeOK
<1>6. lastSide' \in [Market -> [side : Side, set : Int]]
  <2> DEFINE last == [side |-> analysis[c].side, set |-> tick]
  <2>1. last \in [side : Side, set : Int]
    BY <1>1, <1>5, AnalysisFields DEF FraudInv
  <2>2. lastSide' = lastSide \/ lastSide' = [lastSide EXCEPT ![analysis[c].market] = last]
    BY DEF CountAddress, ReadSide, SetSide, CreateAlert, SetProfile, keys
  <2> HIDE DEF last
  <2> QED BY <2>1, <2>2 DEF FraudInv, FraudTyped
<1>7. profile' \in [score : 0..100, set : Int]
  <2> DEFINE new == [score |-> Least(analysis[c].score, 100), set |-> tick]
  <2>1. new \in [score : 0..100, set : Int]
    <3>1. analysis[c].score \in Nat
      BY <1>1, AnalysisFields DEF FraudInv
    <3>2. Least(analysis[c].score, 100) \in 0..100
      BY <3>1 DEF Least
    <3> QED BY <1>5, <3>2
  <2>2. profile' = profile \/ profile' = new
    BY DEF CountAddress, ReadSide, SetSide, CreateAlert, SetProfile, keys
  <2> HIDE DEF new
  <2> QED BY <2>1, <2>2 DEF FraudInv, FraudTyped
<1>9. alerts' \subseteq [call : Analysis, resolved : BOOLEAN]
  <2> DEFINE new == [call |-> c, resolved |-> FALSE]
  <2>1. new \in [call : Analysis, resolved : BOOLEAN]
    OBVIOUS
  <2>2. alerts' = alerts \/ alerts' = alerts \cup {new}
    BY DEF CountAddress, ReadSide, SetSide, CreateAlert, SetProfile, keys
  <2> HIDE DEF new
  <2> QED BY <2>1, <2>2 DEF FraudInv, FraudTyped
<1>8. FraudTyped' /\ FraudTypeOK'
  BY <1>2, <1>3, <1>4, <1>6, <1>7, <1>9
  DEF FraudInv, BurstIsFlagged, FraudTyped, FraudTypeOK
<1> QED BY <1>2, <1>3, <1>8, QuietKeeps

LEMMA FraudStepKeeps == FraudInv /\ [FraudNext]_fraudVars => FraudInv'
<1> SUFFICES ASSUME FraudInv, [FraudNext]_fraudVars PROVE FraudInv'
  OBVIOUS
<1>1. ASSUME NEW c \in Analysis, NEW market \in Market, NEW side \in Side,
             NEW address \in Address, NEW other \in OtherScores,
             AnalyzeBet(c, market, side, address, other)
      PROVE  FraudInv'
  BY <1>1, AnalyzeBetKeeps
<1>2. ASSUME NEW c \in Analysis, Trim(c) \/ Add(c) \/ Count(c)
      PROVE  FraudInv'
  BY <1>2, TrimKeeps, AddKeeps, CountKeeps
<1>3. ASSUME NEW c \in Analysis,
             CountAddress(c) \/ ReadSide(c) \/ SetSide(c) \/ CreateAlert(c) \/ SetProfile(c)
      PROVE  FraudInv'
  BY <1>3, AfterCountKeeps
<1>4. ASSUME NEW c \in Analysis, ResolveAlert(c) PROVE FraudInv'
  <2>1. Begun' = Begun /\ Added' = Added
    BY <1>4 DEF ResolveAlert, Begun, Added
  <2>2. FraudTyped' /\ FraudTypeOK'
    <3> DEFINE new == [call |-> c, resolved |-> TRUE]
    <3>1. new \in [call : Analysis, resolved : BOOLEAN]
      OBVIOUS
    <3>2. alerts' \subseteq alerts \cup {new}
      BY <1>4 DEF ResolveAlert
    <3> HIDE DEF new
    <3>3. FraudTyped'
      BY <1>4, <3>1, <3>2 DEF ResolveAlert, FraudInv, FraudTyped, keys
    <3>4. /\ (tick \in 0..LastTick)' /\ (freq \subseteq 0..LastTick)' /\ (ips \subseteq Address)'
          /\ (counted \subseteq 0..LastTick)' /\ (flagged \subseteq counted)'
      BY <1>4 DEF ResolveAlert, FraudInv, BurstIsFlagged, FraudTypeOK, keys
    <3> QED BY <3>3, <3>4, FraudTypes, PTL
  <2> QED BY <1>4, <2>1, <2>2, QuietKeeps DEF ResolveAlert, keys
<1>5. CASE Tick \/ UNCHANGED fraudVars
  <2>1. Begun' = Begun /\ Added' = Added
    BY <1>5 DEF Tick, fraudVars, Begun, Added
  <2>2. FraudTyped' /\ FraudTypeOK'
    <3>1. FraudTyped'
      BY <1>5 DEF Tick, fraudVars, FraudInv, FraudTyped, keys
    <3>2. (tick \in 0..LastTick)'
      BY <1>5, FraudAssumption DEF Tick, fraudVars, FraudInv, BurstIsFlagged, FraudTypeOK
    <3>3. /\ (freq \subseteq 0..LastTick)' /\ (ips \subseteq Address)'
          /\ (counted \subseteq 0..LastTick)' /\ (flagged \subseteq counted)'
      BY <1>5 DEF Tick, fraudVars, FraudInv, BurstIsFlagged, FraudTypeOK, keys
    <3> QED BY <3>1, <3>2, <3>3, FraudTypes, PTL
  <2> QED BY <1>5, <2>1, <2>2, QuietKeeps DEF Tick, fraudVars, keys
<1> QED BY <1>1, <1>2, <1>3, <1>4, <1>5 DEF FraudNext

\* Whatever analyses of one user's bets run into each other, more bets in a window than
\* the threshold have one flagged (internal/fraud/service.go).
THEOREM BurstsAreFlagged == FraudSpec => []BurstIsFlagged
<1>1. FraudInv => BurstIsFlagged
  BY DEF FraudInv
<1> QED BY <1>1, FraudInitInv, FraudStepKeeps, PTL DEF FraudSpec

=============================================================================
