------------------------------ MODULE MCRecords ------------------------------
(***************************************************************************)
(* Deposits and the records of the mock server, with values of their       *)
(* constants.  They share no state, so a behaviour is one of one of them,  *)
(* which "part" names, and the others stand still; "positions" and "panel" *)
(* are the reports, with bets on one kind of market each.  Deposits has a  *)
(* player with two accounts to pay to, a limit that two deposits exceed,   *)
(* and two goroutines.                                                     *)
(***************************************************************************)
EXTENDS Deposits, Records, TLC

CONSTANTS alice, hdfc, sbi

MCPlayer == {alice}
MCAccount == {hdfc, sbi}
MCOffers == [u \in MCPlayer |-> MCAccount]
MCOpeningBalance == [u \in MCPlayer |-> 0]
MCHolderParent == ("a" :> "m") @@ ("c" :> "a")
MCRole == ("m" :> "master") @@ ("a" :> "agent") @@ ("c" :> "client")
MCOwnerOf == ("x" :> "a") @@ ("y" :> "m")
MCStaffParent == ("b" :> "a")
MCSelectionsOf == ("match" :> {1, 2}) @@ ("over" :> {3})

\* The accounts are alike, and so are those who serve requests.
MCSymmetry == Permutations(MCAccount) \cup Permutations(Proc) \cup Permutations(Clerk)

recordsVars == <<part, vars, slipsVars, filingVars, viewsVars, panelVars>>

RecordsInit ==
  /\ part \in {"deposits", "slips", "filing", "views", "positions", "panel"}
  /\ Init
  /\ Slips!InitRecords /\ Filing!RecordsInit /\ Views!ViewsInit /\ Panel!ReportsInit

\* Every part but p stands still.
Only(p) ==
  /\ part = p /\ UNCHANGED part
  /\ p # "deposits" => UNCHANGED vars
  /\ p # "slips" => UNCHANGED slipsVars
  /\ p # "filing" => UNCHANGED filingVars
  /\ p # "views" => UNCHANGED viewsVars
  /\ p \notin {"positions", "panel"} => UNCHANGED panelVars

\* A bound: bets of some on one market, which alone is closed or relisted, who is created,
\* and what is asked for; no step but the answers' own reads an answer.
Within(event, bettors, created, asked) ==
  /\ \A id \in DOMAIN panelBets' :
       panelBets'[id].market = event /\ panelBets'[id].user \in bettors
  /\ panelClosing'.market \in {"none", event}
  /\ \A e \in Event \ {event} : panelListed'[e] = panelListed[e]
  /\ panelUsers' \subseteq created
  /\ \A v \in Viewer : panelAnswer'[v].what \in asked \cup {"none"}

RecordsNext ==
  \/ Only("deposits") /\ Next
  \/ Only("slips") /\ Slips!RecordNext
  \/ Only("filing") /\ Filing!RecordsNext
  \/ Only("views") /\ Views!ViewsNext
  \/ Only("positions") /\ Panel!ReportsNext /\ Within("match", {"c"}, Staff \ Later, {"positions"})
  \/ Only("panel") /\ Panel!ReportsNext
       /\ Within("over", Staff, Staff, {"ladder", "pnl", "downline", "report"})

RecordsSpec == RecordsInit /\ [][RecordsNext]_recordsVars

=============================================================================
