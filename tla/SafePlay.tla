-------------------------------- MODULE SafePlay --------------------------------
(***************************************************************************)
(* internal/responsible/service.go and internal/kyc/service.go: a player's *)
(* own limits, exclusions and papers, as rows of Postgres that each call   *)
(* reads and then writes in statements of their own.  Nothing else in the  *)
(* repository calls the two services but kyc's handlers, so the calls come *)
(* in any order.  CheckDepositLimit and GetSessionDuration, which only     *)
(* read what is here, are left out.                                        *)
(***************************************************************************)
EXTENDS Integers

CONSTANTS
  Player, Call,           \* users, and goroutines
  Cap, Default, Values,   \* the limits, their defaults, and what users set them to
  Stakes, Terms,          \* what is bet, and for how long one is excluded
  Papers, NoPapers,       \* documents
  LastSafeHour, MaxSafeCalls   \* bounds

ASSUME SafeAssumption ==
  /\ {"stake", "loss"} \subseteq Cap /\ Default \in [Cap -> Nat]
  /\ Values \subseteq Nat /\ Stakes \subseteq Nat /\ Terms \subseteq Nat
  /\ LastSafeHour \in Nat /\ MaxSafeCalls \in Nat

VARIABLES
  safeHour,
  limitsRow,    \* responsible_gambling: whether a user has a row
  caps,         \*   its limits
  excluded,     \*   self_excluded_until, 0 for NULL
  cooling,      \*   cooling_off_until
  lossToday,    \* what the user's bets settled today have lost
  status,       \* users.status
  kyc,          \* users.kyc_status
  papers,       \* users.kyc_document_id
  call,         \* what each goroutine has read and is about to do
  wished,       \* history: the end of each user's last exclusion, 0 before the first
  missed,       \* history: the exclusions that met no row
  letIn,        \* history: the exclusions against which a bet was allowed
  approvals,    \* history: how often a user's papers were approved
  late,         \* history: the approvals made while a submission was under way
  undone,       \* history: the approvals that a submission undid
  safeCalls

safeVars ==
  <<safeHour, limitsRow, caps, excluded, cooling, lossToday, status, kyc, papers, call, wished,
    missed, letIn, approvals, late, undone, safeCalls>>
limitVars == <<limitsRow, caps, excluded, cooling>>
wishVars == <<wished, missed>>
paperVars == <<kyc, papers, approvals, late, undone>>

None == [at |-> "none"]

SafeInit ==
  /\ safeHour = 0
  /\ limitsRow = [u \in Player |-> FALSE] /\ caps = [u \in Player |-> Default]
  /\ excluded = [u \in Player |-> 0] /\ cooling = [u \in Player |-> 0]
  /\ lossToday = [u \in Player |-> 0]
  /\ status = [u \in Player |-> "active"]
  /\ kyc = [u \in Player |-> "pending"] /\ papers = [u \in Player |-> NoPapers]
  /\ call = [p \in Call |-> None]
  /\ wished = [u \in Player |-> 0] /\ missed = {} /\ letIn = {}
  /\ approvals = [u \in Player |-> 0] /\ late = {} /\ undone = {}
  /\ safeCalls = 0

Is(p, at) == call[p].at = at
Next_(p, c) == call' = [call EXCEPT ![p] = c]
Start(p, c) ==
  /\ call[p] = None /\ Next_(p, c)
  /\ safeCalls < MaxSafeCalls /\ safeCalls' = safeCalls + 1

\* A row as it is read: with the defaults where there is none.
Read(u) ==
  IF limitsRow[u] THEN [caps |-> caps[u], excluded |-> excluded[u], cooling |-> cooling[u]]
  ELSE [caps |-> Default, excluded |-> 0, cooling |-> 0]

-----------------------------------------------------------------------------
\* Limits

\* GetLimits: a call that finds no row inserts one, or finds that another did, and
\* goes on with the defaults.
GetLimits(p, next) ==
  /\ Start(p, next)
  /\ UNCHANGED <<safeHour, limitVars, lossToday, status, paperVars, wishVars, letIn>>

InsertDefaults(p) ==
  LET u == call[p].user IN
  /\ call[p] # None /\ call[p].at \in {"update", "check"} /\ ~limitsRow[u]
  /\ limitsRow' = [limitsRow EXCEPT ![u] = TRUE]
  /\ UNCHANGED <<safeHour, caps, excluded, cooling, lossToday, status, paperVars, call,
                 wishVars, letIn, safeCalls>>

UpdateLimits(p, u, cap, value) ==
  GetLimits(p, [at |-> "update", user |-> u, read |-> Read(u), cap |-> cap, value |-> value])

CheckCanBet(p, u, stake) ==
  GetLimits(p, [at |-> "check", user |-> u, read |-> Read(u), barred |-> wished[u],
                stake |-> stake])

\* Mutant: the row is written as it was read.
WholeRow(u, read) ==
  /\ excluded' = [excluded EXCEPT ![u] = read.excluded]
  /\ cooling' = [cooling EXCEPT ![u] = read.cooling]

\* The UPDATE names the limits alone.
Untouched(u, read) == UNCHANGED <<excluded, cooling>>

\* The UPDATE of all the limits, with one changed.
SaveLimits(p) ==
  LET u == call[p].user IN
  /\ Is(p, "update") /\ limitsRow[u]
  /\ caps' = [caps EXCEPT ![u] = [call[p].read.caps EXCEPT ![call[p].cap] = call[p].value]]
  /\ Untouched(u, call[p].read)
  /\ Next_(p, None)
  /\ UNCHANGED <<safeHour, limitsRow, lossToday, status, paperVars, wishVars, letIn,
                 safeCalls>>

Allowed(read, stake, loss) ==
  /\ read.excluded <= safeHour /\ read.cooling <= safeHour
  /\ stake <= read.caps["stake"]
  /\ loss < read.caps["loss"]

\* The day's loss is read last, and the answer given.
AnswerCheck(p) ==
  LET u == call[p].user  yes == Allowed(call[p].read, call[p].stake, lossToday[u]) IN
  /\ Is(p, "check") /\ limitsRow[u]
  /\ letIn' = IF yes /\ safeHour < call[p].barred
              THEN letIn \cup {<<u, call[p].barred>>} ELSE letIn
  /\ Next_(p, None)
  /\ UNCHANGED <<safeHour, limitVars, lossToday, status, paperVars, wishVars, safeCalls>>

\* SelfExclude's first UPDATE, which changes nothing where there is no row.
SelfExclude(p, u, term) ==
  LET end == safeHour + term IN
  /\ Start(p, [at |-> "suspend", user |-> u])
  /\ wished' = [wished EXCEPT ![u] = end]
  /\ IF limitsRow[u] THEN excluded' = [excluded EXCEPT ![u] = end] /\ UNCHANGED missed
     ELSE missed' = missed \cup {<<u, end>>} /\ UNCHANGED excluded
  /\ UNCHANGED <<safeHour, limitsRow, caps, cooling, lossToday, status, paperVars, letIn>>

\* Its second, unless the process is gone.
Suspend(p) ==
  /\ Is(p, "suspend") /\ Next_(p, None)
  /\ \/ status' = [status EXCEPT ![call[p].user] = "suspended"]
     \/ UNCHANGED status
  /\ UNCHANGED <<safeHour, limitVars, lossToday, paperVars, wishVars, letIn, safeCalls>>

SetCoolingOff(u, term) ==
  /\ safeCalls < MaxSafeCalls /\ safeCalls' = safeCalls + 1
  /\ cooling' = IF limitsRow[u] THEN [cooling EXCEPT ![u] = safeHour + term] ELSE cooling
  /\ UNCHANGED <<safeHour, limitsRow, caps, excluded, lossToday, status, paperVars, call,
                 wishVars, letIn>>

-----------------------------------------------------------------------------
\* Papers

\* SubmitKYC reads the status, ...
Open(u) == kyc[u] # "verified"

SubmitKYC(p, u, d) ==
  /\ Open(u)
  /\ Start(p, [at |-> "submit", user |-> u, papers |-> d])
  /\ UNCHANGED <<safeHour, limitVars, lossToday, status, paperVars, wishVars, letIn>>

\* ... and then writes it.
SavePapers(p) ==
  LET u == call[p].user IN
  /\ Is(p, "submit")
  /\ kyc' = [kyc EXCEPT ![u] = "under_review"]
  /\ papers' = [papers EXCEPT ![u] = call[p].papers]
  /\ undone' = IF kyc[u] = "verified" THEN undone \cup {<<u, approvals[u]>>} ELSE undone
  /\ Next_(p, None)
  /\ UNCHANGED <<safeHour, limitVars, lossToday, status, wishVars, letIn, approvals, late,
                 safeCalls>>

Submitting(u) == \E p \in Call : Is(p, "submit") /\ call[p].user = u

\* ApproveKYC, RejectKYC: whatever the status is.
Review(u, verdict) ==
  /\ safeCalls < MaxSafeCalls /\ safeCalls' = safeCalls + 1
  /\ kyc' = [kyc EXCEPT ![u] = verdict]
  /\ approvals' = [approvals EXCEPT ![u] = IF verdict = "verified" THEN @ + 1 ELSE @]
  /\ late' = IF verdict = "verified" /\ Submitting(u)
             THEN late \cup {<<u, approvals'[u]>>} ELSE late
  /\ UNCHANGED <<safeHour, limitVars, lossToday, status, papers, call, wishVars, letIn, undone>>

-----------------------------------------------------------------------------

\* A bet of the user is settled at a loss; an hour passes.  A loss limit is NULL until
\* one is set: Default has a limit that no loss reaches.
Lose(u) ==
  /\ lossToday[u] + 1 < Default["loss"] /\ lossToday' = [lossToday EXCEPT ![u] = @ + 1]
  /\ UNCHANGED <<safeHour, limitVars, status, paperVars, call, wishVars, letIn, safeCalls>>

Wait ==
  /\ safeHour < LastSafeHour /\ safeHour' = safeHour + 1
  /\ UNCHANGED <<limitVars, lossToday, status, paperVars, call, wishVars, letIn, safeCalls>>

SafeNext ==
  \/ \E p \in Call :
       \/ InsertDefaults(p) \/ SaveLimits(p) \/ AnswerCheck(p) \/ Suspend(p) \/ SavePapers(p)
       \/ \E u \in Player :
            \/ \E cap \in Cap, value \in Values : UpdateLimits(p, u, cap, value)
            \/ \E stake \in Stakes : CheckCanBet(p, u, stake)
            \/ \E term \in Terms : SelfExclude(p, u, term)
            \/ \E d \in Papers : SubmitKYC(p, u, d)
  \/ \E u \in Player :
       \/ \E term \in Terms : SetCoolingOff(u, term)
       \/ \E verdict \in {"verified", "rejected"} : Review(u, verdict)
       \/ Lose(u)
  \/ Wait

SafeSpec == SafeInit /\ [][SafeNext]_safeVars

-----------------------------------------------------------------------------

\* Values of every variable.
SafeTypeOK ==
  /\ safeHour \in 0..LastSafeHour
  /\ limitsRow \in [Player -> BOOLEAN] /\ caps \in [Player -> [Cap -> Nat]]
  /\ excluded \in [Player -> Nat] /\ cooling \in [Player -> Nat] /\ lossToday \in [Player -> Nat]
  /\ status \in [Player -> {"active", "suspended"}]
  /\ kyc \in [Player -> {"pending", "under_review", "verified", "rejected"}]
  /\ papers \in [Player -> Papers \cup {NoPapers}]
  /\ \A p \in Call : call[p] = None \/ call[p].at \in {"update", "check", "suspend", "submit"}
  /\ wished \in [Player -> Nat]
  /\ approvals \in [Player -> Nat]
  /\ {missed, letIn, late, undone} \subseteq SUBSET (Player \X Nat)
  /\ safeCalls \in 0..MaxSafeCalls

\* A bet is allowed by a check that begins in a user's exclusion and answers in it only
\* where the exclusion met no row of limits, as it does of a user whose limits nobody asked
\* for before: SelfExclude succeeds, suspends him and leaves nothing for the check to see.
\* Updates of his limits that read the row before an exclusion do not undo it.
ExclusionHolds == letIn \subseteq missed

\* A submission undoes an approval only if it was under way when the approval was made:
\* it read the status before and writes whatever it is by then.
ApprovalHolds == undone \subseteq late

\* A self-exclusion that met a row keeps its user out, and an approval of papers that no
\* submission was under way for stands, though both rows are read and written by calls
\* that overlap (internal/responsible, internal/kyc).
SafeguardsHold == SafeTypeOK /\ ExclusionHolds /\ ApprovalHolds

=============================================================================
