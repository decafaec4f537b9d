------------------------------- MODULE MCSessions -------------------------------
(***************************************************************************)
(* An instance of Sessions: two goroutines and a clock whose tick is       *)
(* longer than the shortest of the periods and shorter than the longest.   *)
(***************************************************************************)
EXTENDS Sessions, TLC

MCNoTime == -1

\* The goroutines are alike.
MCSymmetry == Permutations(Proc)

=============================================================================
