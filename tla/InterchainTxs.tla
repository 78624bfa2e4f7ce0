----------------------------- MODULE InterchainTxs -----------------------------
(***************************************************************************)
(* x/interchaintxs: a contract registers interchain accounts (ICA          *)
(* channels), submits transactions to them and gets the outcome of every   *)
(* packet back through a sudo callback.                                    *)
(***************************************************************************)
EXTENDS FeeRefunder, ContractManager, IBCCore

CONSTANTS IcaIds,             \* interchain account ids
          FeeCollector,       \* where registration fees go
          ChargedContracts    \* contracts whose code id is not below the first charged one

ASSUME ContractsAssumption ==
    /\ Contracts \subseteq Accounts
    /\ FeeModule \notin Contracts
    /\ FeeCollector \in Accounts \ {FeeModule}
    /\ ChargedContracts \subseteq Contracts

VARIABLES active,             \* store: ICA port -> active channel id
          ictxParams          \* [MsgSubmitTxMaxMessages, RegisterFee]

ictxVars == <<active, ictxParams>>

IctxParams == [MsgSubmitTxMaxMessages : Nat, RegisterFee : Coins]

\* The port encodes the owner: contract address and interchain account id.
IcaPort(c, id) == <<c, id>>
ICAOwnerFromPort(port) == port[1]

\* The packet a contract sends to its interchain account carries no tokens.
NoToken == [d \in Denoms |-> 0]

\* PrepareSudoCallbackMessage, PrepareOpenAckCallbackMessage: the callback is
\* told apart by the kind of outcome and by the packet (or channel) it is about.
Callback(kind, p) == <<kind, p>>
OpenAckCallback(ch) == <<"open_ack", <<ch, 0>>>>

-----------------------------------------------------------------------------
\* ChargeFee, skipped for contracts stored before the fee was introduced.
CanCharge(c, fee) ==
    c \in ChargedContracts =>
        IsAnyGTE(fee, ictxParams.RegisterFee) /\ Covers(bank[c], fee)

ChargedBank(c, fee) ==
    IF c \in ChargedContracts THEN Send(bank, c, FeeCollector, fee) ELSE bank

\* The ICA controller opens a channel for a port that has no active channel,
\* or whose active channel is closed and had the same ordering.
CanOpenChannel(port, ordering) ==
    port \in DOMAIN active =>
        /\ channels[active[port]].state = "CLOSED"
        /\ channels[active[port]].ordering = ordering

RegisterInterchainAccount(c, id, ordering, fee) ==
    /\ CanCharge(c, fee)
    /\ bank' = ChargedBank(c, fee)
    /\ CanOpenChannel(IcaPort(c, id), ordering)
    /\ AddChannel(IcaPort(c, id), ordering)
    /\ UNCHANGED <<feeInfos, feeParams, failures, handled, packets, ictxVars>>

\* OnChanOpenAck: the controller activates the channel, then the contract is
\* called; an error of the contract does not undo the opening.
HandleChanOpenAck(ch, ok) ==
    /\ ch \in DOMAIN channels
    /\ channels[ch].state = "INIT"
    /\ LET port == channels[ch].port
       IN  /\ port \in DOMAIN active => ~IsOpen(active[port])
           /\ active' = Put(active, port, ch)
           /\ Sudo(ICAOwnerFromPort(port), OpenAckCallback(ch), ok)
    /\ channels' = [channels EXCEPT ![ch].state = "OPEN"]
    /\ UNCHANGED <<bank, feeInfos, feeParams, nextChannel, packets, ictxParams>>

\* The sequence is read before the fees are locked and the packet is sent
\* after; SendTx fails unless the active channel is open.
SubmitTx(c, id, msgs, fee) ==
    /\ Validate(fee)
    /\ msgs \in 1..ictxParams.MsgSubmitTxMaxMessages
    /\ IcaPort(c, id) \in DOMAIN active
    /\ LET ch == active[IcaPort(c, id)]
       IN  /\ CanLock(bank, c, fee)
           /\ LockFees(c, <<ch, GetNextSequenceSend(ch)>>, fee)
           /\ bank' = LockedBank(bank, c, fee)
           /\ CanSend(ch)
           /\ SendPacket(ch, c, NoToken)
    /\ UNCHANGED <<feeParams, failures, handled, ictxVars>>

\* kind is "response" or "error", whichever the counterparty acknowledged with.
HandleAcknowledgement(p, relayer, kind, ok) ==
    /\ CanAcknowledge(p)
    /\ Acknowledge(p)
    /\ DistributeAcknowledgementFee(bank, relayer, p)
    /\ Sudo(ICAOwnerFromPort(channels[p[1]].port), Callback(kind, p), ok)
    /\ UNCHANGED <<feeParams, ictxVars>>

HandleTimeout(p, relayer, ok) ==
    /\ CanTimeout(p)
    /\ Timeout(p)
    /\ DistributeTimeoutFee(bank, relayer, p)
    /\ Sudo(ICAOwnerFromPort(channels[p[1]].port), Callback("timeout", p), ok)
    /\ UNCHANGED <<feeParams, ictxVars>>

UpdateIctxParams(params) ==
    /\ params.MsgSubmitTxMaxMessages > 0
    /\ ictxParams' = params
    /\ UNCHANGED <<bank, feeInfos, feeParams, failures, handled, ibcVars, active>>

=============================================================================
