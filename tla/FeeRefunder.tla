------------------------------ MODULE FeeRefunder ------------------------------
(***************************************************************************)
(* x/feerefunder: fees that a contract locks when it sends an IBC packet   *)
(* and that are paid out when the packet is acknowledged or times out.     *)
(*                                                                         *)
(* sdk.Coins is a function from denominations to amounts, so every value   *)
(* here is a valid Coins (sorted, no duplicates); zero amounts stand for   *)
(* absent coins.  A handler that returns an error or panics is reverted by *)
(* the message router, so an operation is one action whose guard is that   *)
(* no error occurs.                                                        *)
(***************************************************************************)
EXTENDS Stores

CONSTANTS Denoms,      \* denominations
          Accounts,    \* all addresses that hold coins
          FeeModule    \* the feerefunder module account

ASSUME FeeModuleAssumption == FeeModule \in Accounts

VARIABLES bank,        \* [Accounts -> Coins]
          feeInfos,    \* store: packet id -> [payer, fee]
          feeParams    \* [FeeEnabled, MinFee]

Coins == [Denoms -> Nat]
Fees == [RecvFee : Coins, AckFee : Coins, TimeoutFee : Coins]
FeeInfos == [payer : Accounts, fee : Fees]
FeeParams == [FeeEnabled : BOOLEAN, MinFee : Fees]

IsZero(c) == \A d \in Denoms : c[d] = 0
Add(a, b) == [d \in Denoms |-> a[d] + b[d]]
Sub(a, b) == [d \in Denoms |-> a[d] - b[d]]
Covers(a, b) == \A d \in Denoms : a[d] >= b[d]

\* Coins.IsAnyGTE: some coin of a is required by b and is large enough.
IsAnyGTE(a, b) == \E d \in Denoms : a[d] > 0 /\ b[d] > 0 /\ a[d] >= b[d]

\* The balances after from has sent c to to; the guard of a send is
\* Covers(b[from], c).
Send(b, from, to, c) ==
    LET paid == [b EXCEPT ![from] = Sub(b[from], c)]
    IN  [paid EXCEPT ![to] = Add(paid[to], c)]

-----------------------------------------------------------------------------
Total(fee) == Add(Add(fee.RecvFee, fee.AckFee), fee.TimeoutFee)

\* Mutant: a receive fee is let through.
ValidateAny(fee) == TRUE

Validate(fee) == IsZero(fee.RecvFee)

hasNotAllowedCoins(fees, params) ==
    \E d \in Denoms : fees[d] > 0 /\ params[d] = 0

checkFees(fee) ==
    LET min == feeParams.MinFee
    IN  /\ Validate(fee)
        /\ ~IsZero(fee.AckFee) /\ ~IsZero(fee.TimeoutFee)
        /\ IsAnyGTE(fee.TimeoutFee, min.TimeoutFee)
        /\ IsAnyGTE(fee.AckFee, min.AckFee)
        /\ ~hasNotAllowedCoins(fee.TimeoutFee, min.TimeoutFee)
        /\ ~hasNotAllowedCoins(fee.AckFee, min.AckFee)

\* LockFees(payer, packetID, fee), which the senders of packets call before
\* they send.  LockFees leaves the store alone when fees are disabled; the
\* balances it starts from are passed in and the new ones are returned by
\* LockedBank, because the caller moves coins as well.
CanLock(b, payer, fee) ==
    feeParams.FeeEnabled => checkFees(fee) /\ Covers(b[payer], Total(fee))

LockedBank(b, payer, fee) ==
    IF feeParams.FeeEnabled THEN Send(b, payer, FeeModule, Total(fee)) ELSE b

\* Mutant: the fee is recorded although fees are disabled.
LockFeesAlways(payer, packetID, fee) ==
    feeInfos' = Put(feeInfos, packetID, [payer |-> payer, fee |-> fee])

LockFees(payer, packetID, fee) ==
    feeInfos' = IF feeParams.FeeEnabled
                THEN Put(feeInfos, packetID, [payer |-> payer, fee |-> fee])
                ELSE feeInfos

\* distributeFee twice, first to the relayer and then to the payer.  A send
\* that fails panics, which reverts the relayer's transaction.
CanDistribute(b, toRelayer, toPayer) == Covers(b[FeeModule], Add(toRelayer, toPayer))

Distributed(b, relayer, payer, toRelayer, toPayer) ==
    Send(Send(b, FeeModule, relayer, toRelayer), FeeModule, payer, toPayer)

DistributeAcknowledgementFee(b, relayer, packetID) ==
    IF packetID \in DOMAIN feeInfos
    THEN LET info == feeInfos[packetID]
         IN  /\ CanDistribute(b, info.fee.AckFee, info.fee.TimeoutFee)
             /\ bank' = Distributed(b, relayer, info.payer,
                                    info.fee.AckFee, info.fee.TimeoutFee)
             /\ feeInfos' = Drop(feeInfos, packetID)
    ELSE /\ bank' = b
         /\ UNCHANGED feeInfos

\* Mutant: the fee info is not removed.
DistributeTimeoutKeepsInfo(b, relayer, packetID) ==
    /\ IF packetID \in DOMAIN feeInfos
       THEN LET info == feeInfos[packetID]
            IN  bank' = Distributed(b, relayer, info.payer,
                                    info.fee.TimeoutFee, info.fee.AckFee)
       ELSE bank' = b
    /\ UNCHANGED feeInfos

DistributeTimeoutFee(b, relayer, packetID) ==
    IF packetID \in DOMAIN feeInfos
    THEN LET info == feeInfos[packetID]
         IN  /\ CanDistribute(b, info.fee.TimeoutFee, info.fee.AckFee)
             /\ bank' = Distributed(b, relayer, info.payer,
                                    info.fee.TimeoutFee, info.fee.AckFee)
             /\ feeInfos' = Drop(feeInfos, packetID)
    ELSE /\ bank' = b
         /\ UNCHANGED feeInfos

\* MsgUpdateParams from the authority; Params.Validate checks the minimum fee.
UpdateFeeParams(params) ==
    /\ Validate(params.MinFee)
    /\ feeParams' = params
    /\ UNCHANGED <<bank, feeInfos>>

=============================================================================
