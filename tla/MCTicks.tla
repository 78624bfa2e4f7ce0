------------------------------- MODULE MCTicks -------------------------------
(* A table of thirteen prices, each 10% above the one before, with three     *)
(* decimals, and every sell price in its range.                              *)
EXTENDS Ticks

MCPrices[t \in 0..MaxTickExp] == IF t = 0 THEN One ELSE Mul(MCPrices[t - 1], 1100)
MCSellPrices == MinPrice..MaxPrice

=============================================================================
