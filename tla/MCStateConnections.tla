------------------------- MODULE MCStateConnections -------------------------
(* An instance of StateConnections for TLC. *)
EXTENDS StateConnectionsProps, TLC

CONSTANTS w1, w2, r1, r2, r3

Workers == {w1, w2}
Requests == {r1, r2, r3}
TwoOnOne == r1 :> w1 @@ r2 :> w1 @@ r3 :> w2
=============================================================================
