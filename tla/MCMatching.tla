------------------------------ MODULE MCMatching ------------------------------
(***************************************************************************)
(* Instances of MatchingEngine for TLC.  Times and score weights are the   *)
(* code's divided by 1000: a price counts 1000000 a hundredth, backs count *)
(* their time from 999999999, and it is about 1775000000.  Prices lie far  *)
(* enough apart for orders to match in spite of that.                      *)
(***************************************************************************)
EXTENDS MatchingEngine

CONSTANTS alice, bob

MCUser == {alice, bob}
MCMoney == [u \in MCUser |-> IF u = alice THEN 1 ELSE 3]

Order(u, s, p, amount) == [user |-> u, side |-> s, price |-> p, stake |-> amount]

\* Two lays at one price and a better one, and backs that take them in parts;
\* the first lay is one that can meet a back already in the book.
MCRequest == <<Order(alice, "lay", 200, 2), Order(bob, "lay", 200, 1),
               Order(bob, "back", 1000, 2), Order(alice, "lay", 190, 1)>>
MCBet == 1..4

=============================================================================
