------------------------------ MODULE NeutronIBC ------------------------------
(***************************************************************************)
(* The packet life cycle of neutron: interchain transactions and wrapped   *)
(* transfers of contracts, over one fee refunder, one contract manager and *)
(* one IBC core.  Channel 0 is the transfer channel; ICA channels follow.  *)
(***************************************************************************)
EXTENDS InterchainTxs, TransferWrapper

CONSTANTS Users,          \* senders that are not contracts
          Relayers,
          InitialBalance, \* of every contract and user, in every denomination
          FeeChoices,     \* fees a sender may offer
          FeeParamChoices,
          IctxParamChoices,
          RegisterFees,
          Tokens,         \* amounts a transfer may carry
          MsgCounts,      \* numbers of messages in a MsgSubmitTx
          MaxFailures,    \* bound: failures stored per contract
          MaxPackets,     \* bound: packets sent on all channels
          MaxNesting      \* bound: resubmissions of one failure within each other

ASSUME SendersAssumption ==
    /\ Users \subseteq Accounts /\ Relayers \subseteq Accounts
    /\ FeeModule \notin Users \cup Relayers
    /\ Users \cap Contracts = {}
    /\ InitialBalance \in Nat /\ MaxFailures \in Nat /\ MaxPackets \in Nat /\ MaxNesting \in Nat

ASSUME ChoicesAssumption ==
    /\ FeeChoices \subseteq Fees
    /\ FeeParamChoices \subseteq FeeParams
    /\ IctxParamChoices \subseteq IctxParams
    /\ RegisterFees \subseteq Coins /\ Tokens \subseteq Coins
    /\ MsgCounts \subseteq Nat

vars == <<bank, feeInfos, feeParams, failures, handled, ibcVars, ictxVars>>

Init ==
    /\ bank = [a \in Accounts |-> [d \in Denoms |->
                  IF a \in Contracts \cup Users THEN InitialBalance ELSE 0]]
    /\ feeInfos = EmptyStore
    /\ feeParams \in FeeParamChoices
    /\ failures = [c \in Contracts |-> EmptyStore]
    /\ handled = EmptyStore
    /\ channels = Put(EmptyStore, 0, NewChannel(TransferPort, "UNORDERED", "OPEN"))
    /\ nextChannel = 1
    /\ packets = EmptyStore
    /\ active = EmptyStore
    /\ ictxParams \in IctxParamChoices

OnTransferChannel(p) == channels[p[1]].port = TransferPort

\* The bound on stored failures limits the failing callbacks that are explored.
MayFail(ok) == ok \/ \A c \in Contracts : Cardinality(DOMAIN failures[c]) < MaxFailures

\* The bound on packets lets them be spread over the channels in any way.
MaySend == Cardinality(Packets) < MaxPackets

Register == \E c \in Contracts, id \in IcaIds, o \in Orderings, fee \in RegisterFees :
    RegisterInterchainAccount(c, id, o, fee)

ChanOpenAck == \E ch \in DOMAIN channels, ok \in BOOLEAN :
    MayFail(ok) /\ HandleChanOpenAck(ch, ok)

Submit == \E c \in Contracts, id \in IcaIds, n \in MsgCounts, fee \in FeeChoices :
    MaySend /\ SubmitTx(c, id, n, fee)

IcaAck == \E p \in InFlight, r \in Relayers, k \in {"response", "error"}, ok \in BOOLEAN :
    MayFail(ok) /\ ~OnTransferChannel(p) /\ HandleAcknowledgement(p, r, k, ok)

IcaTimeout == \E p \in InFlight, r \in Relayers, ok \in BOOLEAN :
    MayFail(ok) /\ ~OnTransferChannel(p) /\ HandleTimeout(p, r, ok)

SendTransfer == \E s \in Contracts \cup Users, t \in Tokens, fee \in FeeChoices :
    MaySend /\ Transfer(s, 0, t, fee) /\ UNCHANGED ictxVars

TransferAck == \E p \in InFlight, r \in Relayers, k \in {"response", "error"}, ok \in BOOLEAN :
    /\ MayFail(ok) /\ OnTransferChannel(p)
    /\ TransferAcknowledgement(p, r, k, ok)
    /\ UNCHANGED ictxVars

TransferTimedOut == \E p \in InFlight, r \in Relayers, ok \in BOOLEAN :
    /\ MayFail(ok) /\ OnTransferChannel(p)
    /\ TransferTimeout(p, r, ok)
    /\ UNCHANGED ictxVars

CounterpartyRecv == \E p \in InFlight :
    Recv(p) /\ UNCHANGED <<bank, feeInfos, feeParams, failures, handled, ictxVars>>

Resubmit == \E c \in Contracts, n \in 1..MaxNesting : \E id \in DOMAIN failures[c] :
    /\ ResubmitFailure(c, id, n)
    /\ UNCHANGED <<bank, feeInfos, feeParams, ibcVars, ictxVars>>

FeeGovernance == \E params \in FeeParamChoices :
    /\ UpdateFeeParams(params)
    /\ UNCHANGED <<failures, handled, ibcVars, ictxVars>>

IctxGovernance == \E params \in IctxParamChoices : UpdateIctxParams(params)

Next ==
    \/ Register \/ ChanOpenAck \/ Submit \/ IcaAck \/ IcaTimeout
    \/ SendTransfer \/ TransferAck \/ TransferTimedOut
    \/ CounterpartyRecv \/ Resubmit \/ FeeGovernance \/ IctxGovernance

Spec == Init /\ [][Next]_vars

-----------------------------------------------------------------------------
Ports == {TransferPort} \cup (Contracts \X IcaIds)
Senders == Contracts \cup Users

ChannelEnds ==
    [port : Ports, ordering : Orderings, state : {"INIT", "OPEN", "CLOSED"},
     nextSend : 1..(MaxSequence + 1), nextRecv : Nat, nextAck : Nat]

PacketRecords == [sender : Senders, token : Coins, status : {"sent", "received", "settled"}]

\* The variables have the types of the stores they model.
TypeOK ==
    /\ bank \in [Accounts -> Coins]
    /\ IsStore(feeInfos, PacketIds, FeeInfos)
    /\ feeParams \in FeeParams
    /\ IsStore(channels, ChannelIds, ChannelEnds)
    /\ nextChannel \in 1..MaxChannels
    /\ IsStore(packets, PacketIds, PacketRecords)
    /\ IsStore(active, Ports, DOMAIN channels)
    /\ ictxParams \in IctxParams
    /\ DOMAIN failures = Contracts

FeeAmounts(infos, d) == [p \in DOMAIN infos |-> Total(infos[p].fee)[d]]

\* The fee refunder's account holds, in every denomination, exactly the fees
\* recorded in its store: no fee is paid out twice, none is left behind, and
\* a distribution never lacks the coins it must send (keeper.go panics then).
EscrowBacked == \A d \in Denoms : bank[FeeModule][d] = SumOf(FeeAmounts(feeInfos, d))

\* A fee is locked only for a packet that is in flight, in the name of the
\* contract that sent it: the sequence LockFees is given is the one the packet
\* gets, and the fee goes away with the packet.
FeesFollowPackets ==
    \A p \in DOMAIN feeInfos :
        /\ p \in InFlight
        /\ feeInfos[p].payer = packets[p].sender
        /\ feeInfos[p].payer \in Contracts

StoredFailures(x) ==
    UNION {{c} \X {id \in DOMAIN failures[c] : failures[c][id][2] = x} : c \in Contracts}

\* The callbacks about packet (or channel) x that were committed.
Executed(x) == {payload \in DOMAIN handled : payload[2] = x}

DeliveredOnce(x, owner) ==
    IF Executed(x) = {} THEN \E id \in DOMAIN failures[owner] : StoredFailures(x) = {<<owner, id>>}
    ELSE StoredFailures(x) = {} /\ \E payload \in DOMAIN handled : Executed(x) = {payload}

NotDelivered(x) == StoredFailures(x) = {} /\ Executed(x) = {}

\* The outcome of every packet a contract sent, and of every channel it
\* opened, reaches that contract with one payload and in one message: either a
\* callback committed, or it is stored as one failure that this contract can
\* resubmit, never both and never neither, over any order of failures and
\* resubmissions.
CallbackExactlyOnce ==
    /\ \A p \in Packets :
          IF packets[p].status = "settled" /\ packets[p].sender \in Contracts
          THEN DeliveredOnce(p, packets[p].sender)
          ELSE NotDelivered(p)
    /\ \A ch \in DOMAIN channels \ {0} :
          IF channels[ch].state = "INIT" THEN NotDelivered(<<ch, 0>>)
          ELSE DeliveredOnce(<<ch, 0>>, ICAOwnerFromPort(channels[ch].port))

\* Once a callback has been committed no later message executes it again; only
\* a contract that resubmits a failure from within the resubmission of this
\* failure runs its callback repeatedly, and then in this one message.
DeliveredIsFinal ==
    [][\A payload \in DOMAIN handled : Handled(payload)' = Handled(payload)]_vars

-----------------------------------------------------------------------------
\* The inductive invariant behind EscrowBacked and FeesFollowPackets.

\* The stored fees have finitely many coins and the module account holds them.
EscrowOf(b, infos) ==
    \A d \in Denoms : /\ FiniteStore(FeeAmounts(infos, d))
                      /\ b[FeeModule][d] = SumOf(FeeAmounts(infos, d))

\* Distribution pays the ack and the timeout fee only, so a stored fee has no
\* receive fee: Fee.Validate rejects it before the fee is stored.
NoRecvFee(infos) == \A p \in DOMAIN infos : IsZero(infos[p].fee.RecvFee)

\* The next send sequence of a channel, and the next channel id, are unused.
FreshIds ==
    /\ \A p \in Packets : p[1] \in DOMAIN channels /\ p[2] < channels[p[1]].nextSend
    /\ \A ch \in DOMAIN channels : ch < nextChannel

IndInv ==
    /\ TypeOK
    /\ FeesFollowPackets
    /\ EscrowOf(bank, feeInfos)
    /\ NoRecvFee(feeInfos)
    /\ FreshIds

=============================================================================
