----------------------------- MODULE MCSettlement -----------------------------
(***************************************************************************)
(* Instances of Settlement for TLC.  alice's back bet 1 is matched in part *)
(* and her hold covers the rest; bob's lay bet 2 took the other side; the  *)
(* third bet is for the instance whose bets do not fit one batch.          *)
(***************************************************************************)
EXTENDS Settlement

CONSTANTS alice, bob, red, blue, d1

MCUser == {alice, bob}
MCSelection == {red, blue}
MCBet == {1, 2}
MCKey == {1, 2, 3, d1}
MCOpeningBalance == [u \in MCUser |-> IF u = alice THEN 1 ELSE 4]
MCOpeningExposure == [u \in MCUser |-> IF u = alice THEN 1 ELSE 0]
MCCommissionRate == [u \in MCUser |-> 50]

Bet1 == [user |-> alice, selection |-> red, side |-> "back", price |-> 2,
         stake |-> 3, matched |-> 2, status |-> "partial"]
Bet2 == [user |-> bob, selection |-> red, side |-> "lay", price |-> 2,
         stake |-> 2, matched |-> 2, status |-> "matched"]
MCPlaced == <<Bet1, Bet2>>

\* Three bets, which do not fit one batch.
ThreeBets == {1, 2, 3}
ThreePlaced == <<Bet1, Bet2, [Bet2 EXCEPT !.user = alice, !.side = "back"]>>

NoRequests == {}
MCRequests ==
  {[op |-> "withdraw", user |-> alice, amount |-> 2, fee |-> 0, key |-> d1]}
=============================================================================
