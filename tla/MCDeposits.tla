------------------------------ MODULE MCDeposits ------------------------------
(***************************************************************************)
(* Instances of Deposits for TLC: a player with two accounts to pay to, a  *)
(* limit that two deposits exceed, and two goroutines.                     *)
(***************************************************************************)
EXTENDS Deposits

CONSTANTS alice, hdfc, sbi

MCPlayer == {alice}
MCAccount == {hdfc, sbi}
MCOffers == [u \in MCPlayer |-> MCAccount]
MCOpeningBalance == [u \in MCPlayer |-> 0]
=============================================================================
