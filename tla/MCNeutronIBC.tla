----------------------------- MODULE MCNeutronIBC -----------------------------
(* Instances of NeutronIBC for TLC. *)
EXTENDS NeutronIBC

CONSTANTS c1, c2, u1, r1, feeModule, collector, escrow, ntrn, atom

OneNtrn == [d \in Denoms |-> IF d = ntrn THEN 1 ELSE 0]
OneAtom == [d \in Denoms |-> IF d = ntrn THEN 0 ELSE 1]
Nothing == [d \in Denoms |-> 0]
Both == [d \in Denoms |-> 1]
Fee(recv, ack, timeout) == [RecvFee |-> recv, AckFee |-> ack, TimeoutFee |-> timeout]

MCFeeChoices == {Fee(Nothing, OneNtrn, Both), Fee(OneNtrn, OneNtrn, OneNtrn), Fee(Nothing, Nothing, OneNtrn)}
MCFeeParams == {[FeeEnabled |-> TRUE, MinFee |-> Fee(Nothing, OneNtrn, Both)],
                [FeeEnabled |-> FALSE, MinFee |-> Fee(Nothing, OneNtrn, OneNtrn)]}
MCTokens == {OneNtrn}
MCRegisterFees == {Nothing, OneNtrn}
MCIctxParams == {[MsgSubmitTxMaxMessages |-> 1, RegisterFee |-> OneNtrn],
                 [MsgSubmitTxMaxMessages |-> 2, RegisterFee |-> OneAtom]}
=============================================================================
