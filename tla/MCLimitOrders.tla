----------------------------- MODULE MCLimitOrders -----------------------------
(* Small instances of LimitOrders for TLC. *)
EXTENDS LimitOrders, TLC

CONSTANTS alice, bob

MCEach == {<<alice, alice>>, <<bob, bob>>}
MCForBob == {<<alice, bob>>}
MCTicks == {-1, 1}
MCPrices100 == (-1 :> 33) @@ (1 :> 300)
MCPrices10 == (-1 :> 8) @@ (1 :> 12)
MCOpen == {[mode |-> "open", maxJits |-> 2]}
MCModes == [mode : Modes, maxJits : {1}]
MCSymmetry == Permutations({alice, bob})

=============================================================================
