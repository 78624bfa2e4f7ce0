---------------------------- MODULE TransferWrapper ----------------------------
(***************************************************************************)
(* x/transfer: the wrapper of ibc-go's transfer application that locks     *)
(* fees for contracts and passes the outcome of a transfer to the sending  *)
(* contract.  Transfers of ordinary accounts pass through unchanged.       *)
(***************************************************************************)
EXTENDS FeeRefunder, ContractManager, IBCCore

CONSTANT Escrow           \* holds the tokens that left over the transfer channel

ASSUME EscrowAssumption == Escrow \in Accounts \ {FeeModule}

TransferPort == <<"transfer">>

\* The wrapped application refunds the tokens of a failed transfer (external).
Refunded(b, packet, failed) ==
    IF failed THEN Send(b, Escrow, packet.sender, packet.token) ELSE b

CanRefund(packet, failed) == failed => Covers(bank[Escrow], packet.token)

\* Fees are locked for the sequence read here; the wrapped Transfer escrows
\* the tokens from what the fees have left, and sends the packet.
Transfer(sender, ch, token, fee) ==
    LET isContract == sender \in Contracts
        paid == IF isContract THEN LockedBank(bank, sender, fee) ELSE bank
    IN  /\ isContract => Validate(fee)
        /\ ~IsZero(token)
        /\ isContract => CanLock(bank, sender, fee)
        /\ IF isContract
           THEN LockFees(sender, <<ch, GetNextSequenceSend(ch)>>, fee)
           ELSE UNCHANGED feeInfos
        /\ Covers(paid[sender], token)
        /\ bank' = Send(paid, sender, Escrow, token)
        /\ CanSend(ch)
        /\ SendPacket(ch, sender, token)
        /\ UNCHANGED <<feeParams, failures, handled>>

\* OnAcknowledgementPacket: the wrapped application first, then
\* HandleAcknowledgement, which ignores senders that are not contracts.
TransferAcknowledgement(p, relayer, kind, ok) ==
    LET packet == packets[p]
        failed == kind = "error"
        refunded == Refunded(bank, packet, failed)
    IN  /\ CanAcknowledge(p)
        /\ CanRefund(packet, failed)
        /\ Acknowledge(p)
        /\ IF packet.sender \in Contracts
           THEN /\ DistributeAcknowledgementFee(refunded, relayer, p)
                /\ Sudo(packet.sender, <<kind, p>>, ok)
           ELSE /\ bank' = refunded
                /\ UNCHANGED <<feeInfos, failures, handled>>
        /\ UNCHANGED feeParams

\* OnTimeoutPacket, in the same way.
TransferTimeout(p, relayer, ok) ==
    LET packet == packets[p]
        refunded == Refunded(bank, packet, TRUE)
    IN  /\ CanTimeout(p)
        /\ CanRefund(packet, TRUE)
        /\ Timeout(p)
        /\ IF packet.sender \in Contracts
           THEN /\ DistributeTimeoutFee(refunded, relayer, p)
                /\ Sudo(packet.sender, <<"timeout", p>>, ok)
           ELSE /\ bank' = refunded
                /\ UNCHANGED <<feeInfos, failures, handled>>
        /\ UNCHANGED feeParams

=============================================================================
