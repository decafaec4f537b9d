------------------------------ MODULE MCOddsStream ------------------------------
(***************************************************************************)
(* Two connections of one user, on the first a subscription to two markets *)
(* with two ticks; channels that hold one update.                          *)
(***************************************************************************)
EXTENDS OddsStream

CONSTANTS first, second, watch, m1, m2

MCConn == {first, second}
MCConnUser == [c \in MCConn |-> "user"]
MCSub == {watch}
MCSubConn == [s \in MCSub |-> first]
MCSubMarkets == [s \in MCSub |-> <<m1, m2>>]

=============================================================================
