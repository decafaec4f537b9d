------------------------------- MODULE MCWallet -------------------------------
(***************************************************************************)
(* Instances of Wallet for TLC: two users, two goroutines, calls that      *)
(* compete for one user's money, a release too many, a losing bet, and a   *)
(* bet id and a reference that are used twice.                             *)
(***************************************************************************)
EXTENDS Wallet

CONSTANTS alice, bob, b1, b2, d1

MCUser == {alice, bob}
MCKey == {b1, b2, d1}
MCOpeningBalance == [u \in MCUser |-> IF u = alice THEN 3 ELSE 1]

Call(op, u, amount, fee, key) ==
  [op |-> op, user |-> u, amount |-> amount, fee |-> fee, key |-> key]

MCRequests ==
  { Call("hold", alice, 2, 0, b1), Call("hold", alice, 3, 0, b2),
    Call("release", alice, 2, 0, b1), Call("settle", alice, -2, 0, b1),
    Call("settle", alice, 2, 1, b2), Call("withdraw", alice, 2, 0, d1),
    Call("deposit", bob, 1, 0, d1), Call("hold", bob, 1, 0, b2) }

=============================================================================
