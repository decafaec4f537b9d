------------------------------- MODULE MCHouse -------------------------------
(***************************************************************************)
(* Instances of House: an agent with money, a player under the agent with  *)
(* some and one yet to be created, a demo account, one market of each of   *)
(* the ways money is booked, bets that compete for a player's money.       *)
(***************************************************************************)
EXTENDS House

CONSTANTS agent, player, novice, demo, odds, fancy

MCUser == {agent, player, novice, demo}
MCParent == [u \in MCUser |-> IF u \in {player, novice} THEN agent ELSE NoUser]
MCOpening == [u \in {agent, player} |-> IF u = agent THEN 500 ELSE 600]
MCMarket == {odds, fancy}
MCKind == [m \in MCMarket |-> IF m = fancy THEN "fancy" ELSE "match_odds"]
MCQuote == {[back |-> 200, lay |-> 202], [back |-> 202, lay |-> 300],
            [back |-> 0, lay |-> 150]}

Asked(m, side, price, stake, ref) ==
  [op |-> "bet", user |-> player, market |-> m, selection |-> 1,
   side |-> side, price |-> price, stake |-> stake, ref |-> ref]

MCRequests ==
  { Asked(odds, "back", 200, 300, 1), Asked(odds, "lay", 300, 100, 2),
    Asked(fancy, "back", 202, 300, 1), Asked(fancy, "lay", 150, 200, 0),
    [op |-> "withdraw", user |-> player, amount |-> 400],
    [op |-> "withdraw", user |-> player, amount |-> -200] }

=============================================================================
