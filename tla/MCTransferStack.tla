---------------------------- MODULE MCTransferStack ----------------------------
(* Instances of TransferStack for TLC. *)
EXTENDS TransferStack

CONSTANTS c1, r1, feeModule, collector, escrow, intermediate, ntrn, l1, none

OneNtrn == [d \in Denoms |-> IF d = ntrn THEN 1 ELSE 0]
Nothing == [d \in Denoms |-> 0]
Fee(recv, ack, timeout) == [RecvFee |-> recv, AckFee |-> ack, TimeoutFee |-> timeout]

MCFeeChoices == {Fee(Nothing, OneNtrn, OneNtrn)}
MCFeeParams == {[FeeEnabled |-> TRUE, MinFee |-> Fee(Nothing, OneNtrn, OneNtrn)]}
MCTokens == {OneNtrn}
MCRegisterFees == {Nothing}
MCIctxParams == {[MsgSubmitTxMaxMessages |-> 1, RegisterFee |-> OneNtrn]}
MCMaxOut == OneNtrn
MCMaxIn == OneNtrn
=============================================================================
