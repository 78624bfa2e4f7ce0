----------------------------- MODULE TransferStack -----------------------------
(***************************************************************************)
(* The IBC transfer stack of app.go.  A packet that arrives passes the     *)
(* wasm hooks (x/ibc-hooks), the rate limit (x/ibc-rate-limit) and the GMP *)
(* middleware (x/gmp) on its way to the transfer wrapper; a packet that    *)
(* leaves passes the rate limit on its way to IBC core.  Outcomes of sent  *)
(* packets come back through the same layers.                              *)
(*                                                                         *)
(* The rate limiter is a contract (external) that counts, per              *)
(* denomination, what left and what arrived.  The counterparty (external)  *)
(* holds vouchers for what it credited, and sends them back.               *)
(***************************************************************************)
EXTENDS NeutronIBC

CONSTANTS Limiters,       \* rate limit contracts governance may configure
          NoLimiter,      \* the empty contract address
          MaxOut, MaxIn,  \* the limiters' quotas, net of the other direction
          Intermediate    \* DeriveIntermediateSender(channel, sender)

ASSUME StackAssumption ==
    /\ NoLimiter \notin Limiters
    /\ MaxOut \in Coins /\ MaxIn \in Coins
    /\ Escrow \notin Contracts \cup Users \cup Relayers
    /\ Intermediate \in Accounts \ (Contracts \cup Users \cup Relayers \cup {Escrow, FeeModule})

VARIABLES limiter,        \* params.ContractAddress of x/ibc-rate-limit
          outflow, inflow,\* [Limiters -> Coins], state of the contracts
          charged,        \* history: packet -> limiter that admitted it
          undone,         \* history: packet -> limiter that took it back
          arrived,        \* packets the counterparty credited
          outside         \* vouchers on the counterparty

limitVars == <<limiter, outflow, inflow, charged, undone>>
stackVars == <<vars, limitVars, arrived, outside>>

Zero == [d \in Denoms |-> 0]

StackInit ==
    /\ Init
    /\ limiter \in Limiters \cup {NoLimiter}
    /\ outflow = [l \in Limiters |-> Zero]
    /\ inflow = [l \in Limiters |-> Zero]
    /\ charged = EmptyStore
    /\ undone = EmptyStore
    /\ arrived = {}
    /\ outside = Zero

-----------------------------------------------------------------------------
\* The limiter contract's send_packet, recv_packet and undo_send (external).
AdmitsSend(l, token) == Covers(Add(MaxOut, inflow[l]), Add(outflow[l], token))
AdmitsRecv(l, token) == Covers(Add(MaxIn, outflow[l]), Add(inflow[l], token))
SaturatingSub(a, b) == [d \in Denoms |-> IF a[d] >= b[d] THEN a[d] - b[d] ELSE 0]

\* ICS4Wrapper.SendPacket: without a configured contract the packet passes;
\* an error of the contract fails the transfer.
RateLimitSend(p, token) ==
    IF limiter = NoLimiter THEN UNCHANGED <<outflow, charged>>
    ELSE /\ AdmitsSend(limiter, token)
         /\ outflow' = [outflow EXCEPT ![limiter] = Add(@, token)]
         /\ charged' = Put(charged, p, limiter)

\* RevertSentPacket: the contract that is configured now takes the packet
\* back.  Its failure (done = FALSE) is swallowed.
\* (Mutant: a failure for a packet the contract has not counted is returned.)
RevertOrFail(p, done) ==
    IF limiter = NoLimiter THEN UNCHANGED <<outflow, undone>>
    ELSE /\ Covers(outflow[limiter], packets[p].token)
         /\ outflow' = [outflow EXCEPT ![limiter] = Sub(@, packets[p].token)]
         /\ undone' = Put(undone, p, limiter)

RevertSentPacket(p, done) ==
    IF limiter = NoLimiter \/ ~done THEN UNCHANGED <<outflow, undone>>
    ELSE /\ outflow' = [outflow EXCEPT ![limiter] = SaturatingSub(@, packets[p].token)]
         /\ undone' = Put(undone, p, limiter)

StackSend == \E s \in Contracts \cup Users, t \in Tokens, fee \in FeeChoices :
    /\ MaySend
    /\ Transfer(s, 0, t, fee)
    /\ RateLimitSend(<<0, GetNextSequenceSend(0)>>, t)
    /\ UNCHANGED <<ictxVars, limiter, inflow, undone, arrived, outside>>

\* The counterparty credits the receiver, or answers with an error.
StackCounterpartyRecv == \E p \in InFlight, credited \in BOOLEAN :
    /\ Recv(p)
    /\ IF credited
       THEN arrived' = arrived \cup {p} /\ outside' = Add(outside, packets[p].token)
       ELSE UNCHANGED <<arrived, outside>>
    /\ UNCHANGED <<bank, feeInfos, feeParams, failures, handled, ictxVars, limitVars>>

\* Mutant: the quota is taken back for every acknowledgement.
RevertIfAny(p, kind, done) == RevertSentPacket(p, done)

\* OnAcknowledgementPacket of the rate limit, before the wrapped application.
RevertIfError(p, kind, done) ==
    IF kind = "error" THEN RevertSentPacket(p, done) ELSE UNCHANGED <<outflow, undone>>

StackAck == \E p \in InFlight, r \in Relayers, ok, done \in BOOLEAN :
    LET kind == IF p \in arrived THEN "response" ELSE "error"
    IN  /\ MayFail(ok)
        /\ RevertIfError(p, kind, done)
        /\ TransferAcknowledgement(p, r, kind, ok)
        /\ UNCHANGED <<ictxVars, limiter, inflow, charged, arrived, outside>>

StackTimeout == \E p \in InFlight, r \in Relayers, ok, done \in BOOLEAN :
    /\ MayFail(ok)
    /\ RevertSentPacket(p, done)
    /\ TransferTimeout(p, r, ok)
    /\ UNCHANGED <<ictxVars, limiter, inflow, charged, arrived, outside>>

-----------------------------------------------------------------------------
\* Memos: none or not for this chain; a wasm key that is well formed for the
\* receiver, or malformed; a GMP message with a payload, or of unknown type.
Memos == {"plain", "wasm", "malformed", "gmp", "unknown"}

\* validateAndParseMemo: a well-formed memo names the receiver as the contract.
ValidMemo(memo, receiver) == memo # "malformed" /\ (memo = "wasm" => receiver \in Contracts)

\* The GMP middleware replaces the memo by the payload for the layers below,
\* which is after the hooks have looked at it, and refuses unknown types.
GMPAccepts(memo) == memo # "unknown"

\* OnRecvPacket of the rate limit.
RateLimitRecv(token) ==
    IF limiter = NoLimiter THEN UNCHANGED inflow
    ELSE /\ AdmitsRecv(limiter, token)
         /\ inflow' = [inflow EXCEPT ![limiter] = Add(@, token)]

\* The transfer application pays the tokens out of the escrow (external).
ReceivedBank(b, to, token) == Send(b, Escrow, to, token)

\* WasmHooks.OnRecvPacketOverride: the tokens go to the intermediate account,
\* which then executes the contract with these tokens as its funds; ok is the
\* result of the execution.
HookReceive(token, receiver, memo, ok) ==
    IF memo = "wasm"
    THEN /\ ok
         /\ bank' = Send(ReceivedBank(bank, Intermediate, token), Intermediate, receiver, token)
    ELSE bank' = ReceivedBank(bank, receiver, token)

\* Mutant: the tokens stay where they are when the contract fails.
ReceiveNotDiscarded == \E receiver \in Contracts \cup Users, t \in Tokens :
    /\ Covers(outside, t) /\ Covers(bank[Escrow], t)
    /\ RateLimitRecv(t)
    /\ bank' = ReceivedBank(bank, receiver, t)
    /\ UNCHANGED <<feeInfos, feeParams, failures, handled, ibcVars, ictxVars,
                   limiter, outflow, charged, undone, arrived, outside>>

\* Vouchers come back.  Whatever layer refuses, the acknowledgement is an
\* error, IBC core writes none of the state changes of the layers before it,
\* and the counterparty restores the vouchers: nothing changes.
StackReceive == \E receiver \in Contracts \cup Users, t \in Tokens, memo \in Memos, ok \in BOOLEAN :
    /\ Covers(outside, t)
    /\ ValidMemo(memo, receiver)
    /\ RateLimitRecv(t)
    /\ GMPAccepts(memo)
    /\ Covers(bank[Escrow], t)
    /\ HookReceive(t, receiver, memo, ok)
    /\ outside' = Sub(outside, t)
    /\ UNCHANGED <<feeInfos, feeParams, failures, handled, ibcVars, ictxVars,
                   limiter, outflow, charged, undone, arrived>>

\* MsgUpdateParams of x/ibc-rate-limit from the authority.
ConfigureLimiter == \E l \in Limiters \cup {NoLimiter} :
    /\ limiter' = l
    /\ UNCHANGED <<vars, outflow, inflow, charged, undone, arrived, outside>>

StackResubmit == Resubmit /\ UNCHANGED <<limitVars, arrived, outside>>
StackFeeGovernance == FeeGovernance /\ UNCHANGED <<limitVars, arrived, outside>>

StackNext ==
    \/ StackSend \/ StackCounterpartyRecv \/ StackAck \/ StackTimeout
    \/ StackReceive \/ ConfigureLimiter \/ StackResubmit \/ StackFeeGovernance

StackSpec == StackInit /\ [][StackNext]_stackVars

StackSettle(p) == (StackAck \/ StackTimeout) /\ p \in InFlight /\ p \notin InFlight'

\* Relaying is permissionless and paid for, so a message that stays
\* deliverable is eventually delivered; its outcome and the success of the
\* callback are free.
StackFairSpec == StackSpec /\ \A p \in PacketIds : WF_stackVars(StackSettle(p))

-----------------------------------------------------------------------------
TokensOf(S, d) == [p \in S |-> packets[p].token[d]]

\* The packets that left and whose tokens did not come back in a refund.
Gone(p) == p \in InFlight \/ p \in arrived

\* The escrow account holds exactly the tokens that are on the counterparty or
\* in packets that may still be refunded.  A late or second refund, a refund
\* of tokens the counterparty credited, or a receipt whose later layer fails
\* would break it, and with it a refund or a receipt that is due.
TokensBacked ==
    \A d \in Denoms :
        bank[Escrow][d] = outside[d] + SumOf(TokensOf(InFlight \ arrived, d))

\* What a limiter admitted and was not refunded, less what it let in, stays
\* within its quota, apart from the packets it took back without having
\* admitted them: those were sent before governance configured it.
OutflowWithinQuota ==
    \A l \in Limiters, d \in Denoms :
        LET admitted == {p \in DOMAIN charged : charged[p] = l /\ Gone(p)}
            foreign == {p \in DOMAIN undone : undone[p] = l
                                               /\ ~(p \in DOMAIN charged /\ charged[p] = l)}
        IN  SumOf(TokensOf(admitted, d))
              <= MaxOut[d] + inflow[l][d] + SumOf(TokensOf(foreign, d))

\* Every transfer is settled in the end, although the outcome passes the rate
\* limit and the refund needs tokens that receipts also draw on.
TransfersSettle == \A p \in PacketIds : p \in InFlight ~> p \notin InFlight

\* The fee refunder's store and account, with the packets that were sent, are
\* an escrow of the abstract specification.
Escrowed == INSTANCE FeeEscrow WITH
                Amounts <- {Total(fee) : fee \in FeeChoices},
                held    <- bank[FeeModule],
                claims  <- [p \in DOMAIN feeInfos |-> Total(feeInfos[p].fee)],
                used    <- Packets

\* Interchain transactions and transfers use the refunder as that escrow: a
\* fee is locked for a packet id that is new, and paid out whole and once, by
\* whichever of acknowledgement and timeout comes.
FeesAreEscrowed == Escrowed!Spec

=============================================================================
