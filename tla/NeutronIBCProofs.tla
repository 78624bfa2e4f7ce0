--------------------------- MODULE NeutronIBCProofs ---------------------------
(***************************************************************************)
(* For every set of contracts, users, relayers and denominations, and for  *)
(* every choice of fees and parameters: the fee refunder's account holds   *)
(* exactly the locked fees, and fees are locked only for packets in        *)
(* flight.  The proof is by the inductive invariant IndInv, which also     *)
(* survives the layers of TransferStack.                                   *)
(***************************************************************************)
EXTENDS TransferStack, StoreLemmas

\* How long the provers may take for a leaf, in seconds, and with no types.
USE SMTT(30), ZenonT(30), Untyped

-----------------------------------------------------------------------------
\* Coins.

\* Sums and differences of coins are coins.
LEMMA CoinsArithmetic ==
    ASSUME NEW a \in Coins, NEW b \in Coins
    PROVE  /\ Add(a, b) \in Coins
           /\ \A d \in Denoms : Add(a, b)[d] = a[d] + b[d]
           /\ Covers(a, b) => Sub(a, b) \in Coins
           /\ \A d \in Denoms : Sub(a, b)[d] = a[d] - b[d]
BY DEF Coins, Add, Sub, Covers

\* The total of a fee is a coins value.
LEMMA TotalType ==
    ASSUME NEW fee \in Fees
    PROVE  /\ Total(fee) \in Coins
           /\ \A d \in Denoms :
                 Total(fee)[d] = fee.RecvFee[d] + fee.AckFee[d] + fee.TimeoutFee[d]
BY DEF Fees, Total, Add, Coins

\* What a covered send does to the balances: it moves coins from one account
\* to another and touches no third account.
LEMMA SendLemma ==
    ASSUME NEW b \in [Accounts -> Coins], NEW from \in Accounts, NEW to \in Accounts,
           NEW c \in Coins, Covers(b[from], c)
    PROVE  /\ Send(b, from, to, c) \in [Accounts -> Coins]
           /\ \A a \in Accounts \ {from, to} : Send(b, from, to, c)[a] = b[a]
           /\ from # to => /\ Send(b, from, to, c)[from] = Sub(b[from], c)
                           /\ Send(b, from, to, c)[to] = Add(b[to], c)
<1> DEFINE paid == [b EXCEPT ![from] = Sub(b[from], c)]
<1>1. Sub(b[from], c) \in Coins BY CoinsArithmetic
<1>2. paid \in [Accounts -> Coins] BY <1>1
<1>3. Add(paid[to], c) \in Coins BY <1>2, CoinsArithmetic
<1>4. Send(b, from, to, c) = [paid EXCEPT ![to] = Add(paid[to], c)] BY DEF Send
<1> QED BY <1>1, <1>2, <1>3, <1>4

\* A send that does not involve the fee module leaves its balance alone.
LEMMA SendKeepsEscrow ==
    ASSUME NEW b \in [Accounts -> Coins], NEW from \in Accounts \ {FeeModule},
           NEW to \in Accounts \ {FeeModule}, NEW c \in Coins, Covers(b[from], c),
           NEW infos, EscrowOf(b, infos)
    PROVE  EscrowOf(Send(b, from, to, c), infos)
BY SendLemma, FeeModuleAssumption DEF EscrowOf

-----------------------------------------------------------------------------
\* The amounts of a fee store follow its updates.
LEMMA FeeAmountsPut ==
    ASSUME NEW infos, NEW p, NEW info, NEW d \in Denoms
    PROVE  FeeAmounts(Put(infos, p, info), d)
             = Put(FeeAmounts(infos, d), p, Total(info.fee)[d])
BY DEF FeeAmounts, Put

\* In the same way for a removed fee.
LEMMA FeeAmountsDrop ==
    ASSUME NEW infos, NEW p, NEW d \in Denoms
    PROVE  FeeAmounts(Drop(infos, p), d) = Drop(FeeAmounts(infos, d), p)
BY DEF FeeAmounts, Drop

\* Locking: the payer's coins move to the module account and are recorded.
LEMMA LockKeepsEscrow ==
    ASSUME NEW b \in [Accounts -> Coins], NEW infos, EscrowOf(b, infos),
           NEW p, p \notin DOMAIN infos,
           NEW payer \in Accounts \ {FeeModule}, NEW fee \in Fees,
           Covers(b[payer], Total(fee))
    PROVE  EscrowOf(Send(b, payer, FeeModule, Total(fee)),
                    Put(infos, p, [payer |-> payer, fee |-> fee]))
<1> DEFINE info == [payer |-> payer, fee |-> fee]
           sent == Send(b, payer, FeeModule, Total(fee))
<1> SUFFICES ASSUME NEW d \in Denoms
             PROVE  /\ FiniteStore(FeeAmounts(Put(infos, p, info), d))
                    /\ sent[FeeModule][d] = SumOf(FeeAmounts(Put(infos, p, info), d))
  BY DEF EscrowOf
<1>1. Total(fee) \in Coins /\ Total(fee)[d] \in Nat
  BY TotalType DEF Coins
<1>2. sent[FeeModule] = Add(b[FeeModule], Total(fee))
  BY <1>1, SendLemma, FeeModuleAssumption
<1>3. sent[FeeModule][d] = b[FeeModule][d] + Total(fee)[d]
  BY <1>1, <1>2, CoinsArithmetic, FeeModuleAssumption
<1>4. /\ FiniteStore(FeeAmounts(infos, d))
      /\ b[FeeModule][d] = SumOf(FeeAmounts(infos, d))
  BY DEF EscrowOf
<1>5. p \notin DOMAIN FeeAmounts(infos, d)
  BY DEF FeeAmounts
<1>6. FeeAmounts(Put(infos, p, info), d) = Put(FeeAmounts(infos, d), p, Total(fee)[d])
  BY FeeAmountsPut
<1>7. /\ FiniteStore(Put(FeeAmounts(infos, d), p, Total(fee)[d]))
      /\ SumOf(Put(FeeAmounts(infos, d), p, Total(fee)[d]))
           = SumOf(FeeAmounts(infos, d)) + Total(fee)[d]
  BY <1>1, <1>4, <1>5, SumPut
<1> QED BY <1>3, <1>4, <1>6, <1>7

\* Distribution: the two parts of the fee leave the module account and the
\* record is deleted.  The parts add up to the total because the receive fee
\* is zero.
LEMMA DistributeKeepsEscrow ==
    ASSUME NEW b \in [Accounts -> Coins], NEW infos, EscrowOf(b, infos),
           NEW p \in DOMAIN infos, infos[p].fee \in Fees, IsZero(infos[p].fee.RecvFee),
           NEW relayer \in Accounts \ {FeeModule}, NEW payer \in Accounts \ {FeeModule},
           NEW c1 \in Coins, NEW c2 \in Coins,
           \A d \in Denoms : c1[d] + c2[d] = infos[p].fee.AckFee[d] + infos[p].fee.TimeoutFee[d],
           CanDistribute(b, c1, c2)
    PROVE  /\ Distributed(b, relayer, payer, c1, c2) \in [Accounts -> Coins]
           /\ EscrowOf(Distributed(b, relayer, payer, c1, c2), Drop(infos, p))
<1> DEFINE b1 == Send(b, FeeModule, relayer, c1)
           b2 == Send(b1, FeeModule, payer, c2)
           total(d) == Total(infos[p].fee)[d]
<1>1. b[FeeModule] \in Coins BY FeeModuleAssumption
<1>2. Covers(b[FeeModule], c1)
  BY <1>1 DEF CanDistribute, Covers, Add, Coins
<1>3. b1 \in [Accounts -> Coins] /\ b1[FeeModule] = Sub(b[FeeModule], c1)
  BY <1>2, SendLemma, FeeModuleAssumption
<1>4. \A d \in Denoms : b1[FeeModule][d] = b[FeeModule][d] - c1[d]
  BY <1>1, <1>3, CoinsArithmetic
<1>5. Covers(b1[FeeModule], c2)
  BY <1>1, <1>4 DEF CanDistribute, Covers, Add, Coins
<1>6. b2 \in [Accounts -> Coins] /\ b2[FeeModule] = Sub(b1[FeeModule], c2)
  BY <1>3, <1>5, SendLemma, FeeModuleAssumption
<1>7. b1[FeeModule] \in Coins BY <1>3, FeeModuleAssumption
<1>8. \A d \in Denoms : b2[FeeModule][d] = b1[FeeModule][d] - c2[d]
  BY <1>6, <1>7, CoinsArithmetic
<1>9. b2 = Distributed(b, relayer, payer, c1, c2) BY DEF Distributed
<1>10. ASSUME NEW d \in Denoms
       PROVE  /\ FiniteStore(FeeAmounts(Drop(infos, p), d))
              /\ b2[FeeModule][d] = SumOf(FeeAmounts(Drop(infos, p), d))
  <2> DEFINE amounts == FeeAmounts(infos, d)
  <2>1. FiniteStore(amounts) /\ b[FeeModule][d] = SumOf(amounts)
    BY DEF EscrowOf
  <2>2. p \in DOMAIN amounts /\ amounts[p] = total(d)
    BY DEF FeeAmounts
  <2>3. total(d) \in Nat /\ total(d) = c1[d] + c2[d]
    <3>1. infos[p].fee.RecvFee[d] = 0 BY DEF IsZero
    <3>2. /\ infos[p].fee.AckFee[d] \in Nat /\ infos[p].fee.TimeoutFee[d] \in Nat
          /\ c1[d] \in Nat /\ c2[d] \in Nat
      BY DEF Fees, Coins
    <3>3. total(d) = 0 + infos[p].fee.AckFee[d] + infos[p].fee.TimeoutFee[d]
      BY <3>1, TotalType
    <3> QED BY <3>2, <3>3
  <2>4. FiniteStore(Drop(amounts, p)) /\ SumOf(amounts) = SumOf(Drop(amounts, p)) + total(d)
    BY <2>1, <2>2, <2>3, SumDrop
  <2>5. SumOf(Drop(amounts, p)) \in Nat BY <2>4, SumType
  <2>6. FeeAmounts(Drop(infos, p), d) = Drop(amounts, p) BY FeeAmountsDrop
  <2>7. b2[FeeModule][d] = b[FeeModule][d] - c1[d] - c2[d] BY <1>4, <1>8
  <2>8. c1[d] \in Nat /\ c2[d] \in Nat BY DEF Coins
  <2> HIDE DEF b1, b2, amounts, total
  <2>9. b2[FeeModule][d] = SumOf(Drop(amounts, p))
    BY <2>1, <2>3, <2>4, <2>5, <2>7, <2>8
  <2> QED BY <2>4, <2>6, <2>9
<1> QED BY <1>6, <1>9, <1>10 DEF EscrowOf

-----------------------------------------------------------------------------
\* Channels and packets.

\* What every action on channels and packets keeps.
IbcOK ==
    /\ IsStore(channels, ChannelIds, ChannelEnds)
    /\ nextChannel \in 1..MaxChannels
    /\ IsStore(packets, PacketIds, PacketRecords)
    /\ FreshIds

\* Sending uses a fresh packet id and leaves the other packets alone.
LEMMA SendPacketLemma ==
    ASSUME IbcOK, NEW ch, CanSend(ch), NEW sender \in Senders, NEW token \in Coins,
           SendPacket(ch, sender, token)
    PROVE  LET p == <<ch, channels[ch].nextSend>>
           IN  /\ IbcOK'
               /\ DOMAIN channels' = DOMAIN channels
               /\ p \in PacketIds /\ p \notin Packets /\ p \in InFlight'
               /\ packets'[p].sender = sender
               /\ \A q \in InFlight : q \in InFlight' /\ packets'[q].sender = packets[q].sender
<1> DEFINE p == <<ch, channels[ch].nextSend>>
<1>1. ch \in DOMAIN channels /\ ch \in ChannelIds /\ channels[ch] \in ChannelEnds
  BY DEF IbcOK, IsStore, CanSend, IsOpen
<1>2. channels[ch].nextSend \in 1..MaxSequence
  BY <1>1, BoundsAssumption DEF CanSend, ChannelEnds
<1>3. p \in PacketIds BY <1>1, <1>2 DEF PacketIds
<1>4. p \notin Packets
  BY <1>2 DEF IbcOK, FreshIds
<1>5. packets' = Put(packets, p, [sender |-> sender, token |-> token, status |-> "sent"])
  BY DEF SendPacket
<1>6. /\ DOMAIN channels' = DOMAIN channels
      /\ channels'[ch].nextSend = channels[ch].nextSend + 1
      /\ \A x \in DOMAIN channels : x # ch => channels'[x] = channels[x]
  BY <1>1 DEF SendPacket, IbcOK, IsStore, ChannelEnds
<1>7. IsStore(channels', ChannelIds, ChannelEnds)
  BY <1>1, <1>2, BoundsAssumption DEF SendPacket, IbcOK, IsStore, ChannelEnds
<1>8. IsStore(packets', PacketIds, PacketRecords)
  BY <1>3, <1>5 DEF IbcOK, IsStore, Put, PacketRecords
<1>9. FreshIds'
  <2>1. ASSUME NEW q \in Packets'
        PROVE  q[1] \in DOMAIN channels' /\ q[2] < channels'[q[1]].nextSend
    <3>1. CASE q = p BY <1>1, <1>2, <1>6, <3>1
    <3>2. CASE q # p
      <4>1. q \in Packets BY <1>5, <3>2 DEF Put, Packets
      <4>2. q[1] \in DOMAIN channels /\ q[2] < channels[q[1]].nextSend
        BY <4>1 DEF IbcOK, FreshIds
      <4>3. q[2] \in Nat BY <4>1 DEF IbcOK, IsStore, PacketIds, Packets
      <4> QED BY <1>2, <1>6, <4>2, <4>3
    <3> QED BY <3>1, <3>2
  <2>2. \A x \in DOMAIN channels' : x < nextChannel'
    BY <1>6 DEF SendPacket, IbcOK, FreshIds
  <2> QED BY <2>1, <2>2 DEF FreshIds
<1>10. nextChannel' \in 1..MaxChannels BY DEF SendPacket, IbcOK
<1>11. p \in InFlight' /\ packets'[p].sender = sender
  BY <1>5 DEF InFlight, Packets, Put
<1>12. \A q \in InFlight : q \in InFlight' /\ packets'[q].sender = packets[q].sender
  BY <1>4, <1>5 DEF InFlight, Packets, Put
<1> QED BY <1>3, <1>4, <1>6, <1>7, <1>8, <1>9, <1>10, <1>11, <1>12 DEF IbcOK

\* A relayed message changes the status of one packet, and of its channel
\* nothing that ids depend on.
LEMMA RelayLemma ==
    ASSUME IbcOK, NEW p \in InFlight, Recv(p) \/ Acknowledge(p) \/ Timeout(p)
    PROVE  /\ IbcOK'
           /\ DOMAIN channels' = DOMAIN channels
           /\ \A q \in InFlight : q # p =>
                 q \in InFlight' /\ packets'[q].sender = packets[q].sender
           /\ packets'[p].sender = packets[p].sender
           /\ Recv(p) => p \in InFlight'
<1>1. p \in Packets /\ packets[p] \in PacketRecords BY DEF InFlight, IbcOK, IsStore, Packets
<1>2. p[1] \in DOMAIN channels /\ channels[p[1]] \in ChannelEnds
  BY <1>1 DEF IbcOK, FreshIds, IsStore
<1>3. /\ DOMAIN channels' = DOMAIN channels
      /\ IsStore(channels', ChannelIds, ChannelEnds)
      /\ \A x \in DOMAIN channels : channels'[x].nextSend = channels[x].nextSend
  <2>1. CASE Recv(p) BY <2>1, <1>2 DEF Recv, IbcOK, IsStore, ChannelEnds
  <2>2. CASE Acknowledge(p) BY <2>2, <1>2 DEF Acknowledge, IbcOK, IsStore, ChannelEnds
  <2>3. CASE Timeout(p) BY <2>3, <1>2 DEF Timeout, IbcOK, IsStore, ChannelEnds
  <2> QED BY <2>1, <2>2, <2>3
<1>4. \E st \in {"received", "settled"} :
         /\ packets' = [packets EXCEPT ![p].status = st]
         /\ Recv(p) => st = "received"
  BY <1>1 DEF Recv, CanRecv, Acknowledge, Timeout
<1>5. nextChannel' = nextChannel BY DEF Recv, Acknowledge, Timeout
<1>6. PICK st \in {"received", "settled"} :
         /\ packets' = [packets EXCEPT ![p].status = st]
         /\ Recv(p) => st = "received"
  BY <1>4, ZenonT(60)
<1>7. /\ DOMAIN packets' = DOMAIN packets
      /\ packets'[p].status = st
      /\ packets'[p].sender = packets[p].sender
      /\ \A q \in Packets : q # p => packets'[q] = packets[q]
  BY <1>1, <1>6 DEF IbcOK, IsStore, Packets, PacketRecords
<1>8. IsStore(packets', PacketIds, PacketRecords)
  BY <1>1, <1>6 DEF IbcOK, IsStore, Packets, PacketRecords
<1>9. FreshIds'
  BY <1>3, <1>5, <1>7 DEF IbcOK, FreshIds, Packets
<1> QED
  BY <1>3, <1>5, <1>6, <1>7, <1>8, <1>9 DEF IbcOK, InFlight, Packets

-----------------------------------------------------------------------------
\* Fees and packets together.

\* What relates the fee store to the packets.
FeesOK ==
    /\ bank \in [Accounts -> Coins]
    /\ IsStore(feeInfos, PacketIds, FeeInfos)
    /\ FeesFollowPackets
    /\ EscrowOf(bank, feeInfos)
    /\ NoRecvFee(feeInfos)

\* Locking the fee of a packet and sending that packet keeps them related.
\* The balances go from bank over b (what the fee leaves) to bank'.
LEMMA LockAndSend ==
    ASSUME IbcOK, FeesOK, feeParams \in FeeParams,
           NEW ch, CanSend(ch), NEW c \in Contracts, NEW token \in Coins, NEW fee \in Fees,
           CanLock(bank, c, fee), LockFees(c, <<ch, GetNextSequenceSend(ch)>>, fee),
           SendPacket(ch, c, token)
    PROVE  LET b == LockedBank(bank, c, fee)
           IN  /\ b \in [Accounts -> Coins]
               /\ IsStore(feeInfos', PacketIds, FeeInfos)
               /\ FeesFollowPackets'
               /\ EscrowOf(b, feeInfos')
               /\ NoRecvFee(feeInfos')
<1> DEFINE p == <<ch, channels[ch].nextSend>>
           info == [payer |-> c, fee |-> fee]
<1>0. c \in Senders /\ c \in Accounts \ {FeeModule} BY ContractsAssumption DEF Senders
<1>1. /\ p \in PacketIds /\ p \notin Packets /\ p \in InFlight'
      /\ packets'[p].sender = c
      /\ \A q \in InFlight : q \in InFlight' /\ packets'[q].sender = packets[q].sender
  BY <1>0, SendPacketLemma
<1>2. p \notin DOMAIN feeInfos
  BY <1>1 DEF FeesOK, FeesFollowPackets, InFlight
<1>3. CASE ~feeParams.FeeEnabled
  BY <1>1, <1>3 DEF FeesOK, FeesFollowPackets, LockFees, LockedBank
<1>4. CASE feeParams.FeeEnabled
  <2>1. /\ feeInfos' = Put(feeInfos, p, info)
        /\ LockedBank(bank, c, fee) = Send(bank, c, FeeModule, Total(fee))
        /\ Covers(bank[c], Total(fee))
        /\ IsZero(fee.RecvFee)
    BY <1>4 DEF LockFees, LockedBank, CanLock, checkFees, Validate, GetNextSequenceSend
  <2>2. Total(fee) \in Coins BY TotalType
  <2>3. Send(bank, c, FeeModule, Total(fee)) \in [Accounts -> Coins]
    BY <1>0, <2>1, <2>2, SendLemma, FeeModuleAssumption DEF FeesOK
  <2>4. EscrowOf(Send(bank, c, FeeModule, Total(fee)), feeInfos')
    BY <1>0, <1>2, <2>1, LockKeepsEscrow DEF FeesOK
  <2>5. IsStore(feeInfos', PacketIds, FeeInfos)
    BY <1>0, <1>1, <2>1 DEF FeesOK, IsStore, Put, FeeInfos
  <2>6. /\ DOMAIN feeInfos' = DOMAIN feeInfos \cup {p}
        /\ feeInfos'[p] = info
        /\ \A q \in DOMAIN feeInfos : feeInfos'[q] = feeInfos[q]
    BY <1>2, <2>1 DEF Put
  <2>7. FeesFollowPackets'
    BY <1>1, <2>6 DEF FeesOK, FeesFollowPackets
  <2>8. NoRecvFee(feeInfos')
    BY <2>1, <2>6 DEF FeesOK, NoRecvFee
  <2> QED BY <2>1, <2>3, <2>4, <2>5, <2>7, <2>8
<1> QED BY <1>3, <1>4

\* Settling a packet pays its fee out of balances b that differ from bank by
\* a refund only.
LEMMA Distribute ==
    ASSUME IbcOK, FeesOK, NEW p \in InFlight, Acknowledge(p) \/ Timeout(p),
           NEW relayer \in Relayers,
           NEW b \in [Accounts -> Coins], EscrowOf(b, feeInfos),
           \/ DistributeAcknowledgementFee(b, relayer, p)
           \/ DistributeTimeoutFee(b, relayer, p)
    PROVE  FeesOK'
<1>1. relayer \in Accounts \ {FeeModule} BY SendersAssumption
<1>2. \A q \in InFlight : q # p => q \in InFlight' /\ packets'[q].sender = packets[q].sender
  BY RelayLemma
<1>3. CASE p \notin DOMAIN feeInfos
  <2>1. bank' = b /\ feeInfos' = feeInfos
    BY <1>3 DEF DistributeAcknowledgementFee, DistributeTimeoutFee
  <2>2. FeesFollowPackets' BY <1>2, <1>3, <2>1 DEF FeesOK, FeesFollowPackets
  <2> QED BY <2>1, <2>2 DEF FeesOK
<1>4. CASE p \in DOMAIN feeInfos
  <2> DEFINE info == feeInfos[p]
             ack == info.fee.AckFee
             timeout == info.fee.TimeoutFee
  <2>1. info \in FeeInfos /\ info.payer \in Accounts \ {FeeModule}
    BY <1>4, ContractsAssumption DEF FeesOK, IsStore, FeesFollowPackets
  <2>2. info.fee \in Fees /\ ack \in Coins /\ timeout \in Coins
    BY <2>1 DEF FeeInfos, Fees
  <2>3. IsZero(info.fee.RecvFee) BY <1>4 DEF FeesOK, NoRecvFee
  <2>4. feeInfos' = Drop(feeInfos, p)
    BY <1>4 DEF DistributeAcknowledgementFee, DistributeTimeoutFee
  <2>5. bank' \in [Accounts -> Coins] /\ EscrowOf(bank', feeInfos')
    <3>0. \A d \in Denoms : ack[d] \in Nat /\ timeout[d] \in Nat
      BY <2>2 DEF Coins
    <3>1. CASE DistributeAcknowledgementFee(b, relayer, p)
      <4>1. CanDistribute(b, ack, timeout) /\ bank' = Distributed(b, relayer, info.payer, ack, timeout)
        BY <1>4, <3>1 DEF DistributeAcknowledgementFee
      <4> QED
        BY <1>1, <1>4, <2>1, <2>2, <2>3, <2>4, <4>1, DistributeKeepsEscrow
    <3>2. CASE DistributeTimeoutFee(b, relayer, p)
      <4>1. CanDistribute(b, timeout, ack) /\ bank' = Distributed(b, relayer, info.payer, timeout, ack)
        BY <1>4, <3>2 DEF DistributeTimeoutFee
      <4>2. \A d \in Denoms : timeout[d] + ack[d] = ack[d] + timeout[d]
        BY <3>0
      <4> QED
        BY <1>1, <1>4, <2>1, <2>2, <2>3, <2>4, <4>1, <4>2, DistributeKeepsEscrow, ZenonT(60)
    <3> QED BY <3>1, <3>2
  <2>6. /\ DOMAIN feeInfos' = DOMAIN feeInfos \ {p}
        /\ \A q \in DOMAIN feeInfos' : feeInfos'[q] = feeInfos[q]
    BY <2>4 DEF Drop
  <2>7. IsStore(feeInfos', PacketIds, FeeInfos)
    BY <2>4 DEF FeesOK, IsStore, Drop
  <2>8. FeesFollowPackets' /\ NoRecvFee(feeInfos')
    BY <1>2, <2>6 DEF FeesOK, FeesFollowPackets, NoRecvFee
  <2> QED BY <2>5, <2>7, <2>8 DEF FeesOK
<1> QED BY <1>3, <1>4

-----------------------------------------------------------------------------
\* The other small steps.

\* A callback, and a resubmission, leave every contract with a failure store.
LEMMA SudoLemma ==
    ASSUME DOMAIN failures = Contracts, NEW c, NEW payload, NEW ok \in BOOLEAN,
           Sudo(c, payload, ok)
    PROVE  DOMAIN failures' = Contracts
BY DEF Sudo, AddContractFailure

\* Opening a channel allocates an unused id.
LEMMA AddChannelLemma ==
    ASSUME IbcOK, NEW port \in Ports, NEW ordering \in Orderings,
           AddChannel(port, ordering), UNCHANGED packets
    PROVE  IbcOK' /\ DOMAIN channels \subseteq DOMAIN channels'
<1> DEFINE new == NewChannel(port, ordering, "INIT")
<1>1. nextChannel \in ChannelIds /\ nextChannel' \in 1..MaxChannels
  BY BoundsAssumption DEF AddChannel, IbcOK, ChannelIds
<1>2. new \in ChannelEnds BY BoundsAssumption DEF NewChannel, ChannelEnds
<1> HIDE DEF new
<1>3. /\ DOMAIN channels' = DOMAIN channels \cup {nextChannel}
      /\ channels'[nextChannel] = new
      /\ \A ch \in DOMAIN channels : ch # nextChannel => channels'[ch] = channels[ch]
      /\ channels' = Put(channels, nextChannel, new)
      /\ nextChannel' = nextChannel + 1
  BY DEF AddChannel, Put, new
<1>4. IsStore(channels', ChannelIds, ChannelEnds)
  BY <1>1, <1>2, <1>3 DEF IbcOK, IsStore, Put
<1>5. \A ch \in DOMAIN channels : ch \in Nat /\ ch < nextChannel
  BY DEF IbcOK, FreshIds, IsStore, ChannelIds
<1>6. \A p \in Packets : p[1] \in DOMAIN channels /\ p[2] < channels[p[1]].nextSend
  BY DEF IbcOK, FreshIds
<1>7. FreshIds'
  <2>1. ASSUME NEW p \in Packets
        PROVE  p[1] \in DOMAIN channels' /\ p[2] < channels'[p[1]].nextSend
    BY <1>1, <1>3, <1>5, <1>6
  <2>2. \A ch \in DOMAIN channels' : ch < nextChannel'
    BY <1>1, <1>3, <1>5 DEF ChannelIds
  <2> QED BY <2>1, <2>2 DEF FreshIds, Packets
<1> QED BY <1>1, <1>3, <1>4, <1>7 DEF IbcOK

\* IndInv, in the parts the lemmas are about.
LEMMA IndInvParts ==
    IndInv <=> /\ FeesOK /\ IbcOK
               /\ feeParams \in FeeParams
               /\ IsStore(active, Ports, DOMAIN channels)
               /\ ictxParams \in IctxParams
               /\ DOMAIN failures = Contracts
BY DEF IndInv, TypeOK, FeesOK, IbcOK

\* The same of the next state.
LEMMA PrimedParts ==
    IndInv' <=> /\ FeesOK' /\ IbcOK'
                /\ feeParams' \in FeeParams
                /\ IsStore(active', Ports, DOMAIN channels')
                /\ ictxParams' \in IctxParams
                /\ DOMAIN failures' = Contracts
BY DEF IndInv, TypeOK, FeesOK, IbcOK

-----------------------------------------------------------------------------
\* The initial states satisfy the inductive invariant: no fee, no coins.
LEMMA InitIndInv == Init => IndInv
<1> SUFFICES ASSUME Init PROVE IndInv OBVIOUS
<1> USE DEF Init
<1>1. bank \in [Accounts -> Coins] BY SendersAssumption DEF Coins
<1>2. \A d \in Denoms : FeeAmounts(feeInfos, d) = EmptyStore
  BY DEF FeeAmounts, EmptyStore
<1>3. EscrowOf(bank, feeInfos)
  <2>1. \A d \in Denoms : bank[FeeModule][d] = 0
    BY FeeModuleAssumption, ContractsAssumption, SendersAssumption
  <2> QED BY <1>2, <2>1, SumEmpty DEF EscrowOf
<1>4. FeesOK
  BY <1>1, <1>3 DEF FeesOK, IsStore, EmptyStore, FeesFollowPackets, NoRecvFee
<1>5. NewChannel(TransferPort, "UNORDERED", "OPEN") \in ChannelEnds
  BY BoundsAssumption DEF NewChannel, ChannelEnds, Ports, Orderings
<1>6. IbcOK
  <2>1. 0 \in ChannelIds /\ 1 \in 1..MaxChannels BY BoundsAssumption DEF ChannelIds
  <2>2. DOMAIN channels = {0} /\ channels[0] \in ChannelEnds
    BY <1>5 DEF Put, EmptyStore
  <2>3. channels \in [DOMAIN channels -> ChannelEnds]
    BY <2>2 DEF Put
  <2>4. Packets = {} BY DEF Packets, EmptyStore
  <2> QED BY <2>1, <2>2, <2>3, <2>4 DEF IbcOK, IsStore, EmptyStore, FreshIds, Packets
<1> QED
  BY <1>4, <1>6, IndInvParts, ChoicesAssumption DEF IsStore, EmptyStore

\* Every step preserves the inductive invariant.
LEMMA NextIndInv == IndInv /\ [Next]_vars => IndInv'
<1> SUFFICES ASSUME IndInv, [Next]_vars PROVE IndInv' OBVIOUS
<1>1. /\ FeesOK /\ IbcOK
      /\ feeParams \in FeeParams
      /\ IsStore(active, Ports, DOMAIN channels)
      /\ ictxParams \in IctxParams
      /\ DOMAIN failures = Contracts
  BY IndInvParts
<1> DEFINE Rest == /\ feeParams' \in FeeParams
                   /\ IsStore(active', Ports, DOMAIN channels')
                   /\ ictxParams' \in IctxParams
                   /\ DOMAIN failures' = Contracts
<1>a. /\ Contracts \subseteq Accounts \ {FeeModule}
      /\ Senders \subseteq Accounts \ {FeeModule}
      /\ FeeCollector \in Accounts \ {FeeModule}
      /\ Escrow \in Accounts \ {FeeModule}
  BY ContractsAssumption, SendersAssumption, EscrowAssumption DEF Senders
<1>2. CASE Register
  <2>1. PICK c \in Contracts, id \in IcaIds, o \in Orderings, fee \in RegisterFees :
             RegisterInterchainAccount(c, id, o, fee)
    BY <1>2 DEF Register
  <2>2. IcaPort(c, id) \in Ports BY DEF IcaPort, Ports
  <2>3. IbcOK' /\ DOMAIN channels \subseteq DOMAIN channels'
    BY <1>1, <2>1, <2>2, AddChannelLemma DEF RegisterInterchainAccount
  <2>4. fee \in Coins BY ChoicesAssumption
  <2>5. bank' \in [Accounts -> Coins] /\ EscrowOf(bank', feeInfos)
    BY <1>1, <1>a, <2>1, <2>4, SendLemma, SendKeepsEscrow
       DEF RegisterInterchainAccount, ChargedBank, CanCharge, FeesOK
  <2>6. packets' = packets /\ feeInfos' = feeInfos BY <2>1 DEF RegisterInterchainAccount
  <2>7. FeesOK'
    BY <1>1, <2>5, <2>6, ZenonT(60) DEF FeesOK, FeesFollowPackets, InFlight, Packets
  <2>8. Rest
    BY <1>1, <2>1, <2>3 DEF RegisterInterchainAccount, ictxVars, IsStore
  <2> QED BY <2>3, <2>7, <2>8, PrimedParts
<1>3. CASE ChanOpenAck
  <2>1. PICK ch \in DOMAIN channels, ok \in BOOLEAN : HandleChanOpenAck(ch, ok)
    BY <1>3 DEF ChanOpenAck
  <2>2. channels[ch] \in ChannelEnds BY <1>1 DEF IbcOK, IsStore
  <2>3. channels' = [channels EXCEPT ![ch].state = "OPEN"] /\ UNCHANGED <<bank, feeInfos, feeParams, nextChannel, packets, ictxParams>>
    BY <2>1 DEF HandleChanOpenAck
  <2>4. /\ DOMAIN channels' = DOMAIN channels
        /\ IsStore(channels', ChannelIds, ChannelEnds)
        /\ \A x \in DOMAIN channels : channels'[x].nextSend = channels[x].nextSend
    BY <1>1, <2>2, <2>3 DEF IbcOK, IsStore, ChannelEnds
  <2>5. IbcOK' BY <1>1, <2>3, <2>4 DEF IbcOK, FreshIds, Packets
  <2>6. FeesOK' BY <1>1, <2>3 DEF FeesOK, FeesFollowPackets, InFlight, Packets
  <2>7. DOMAIN failures' = Contracts BY <1>1, <2>1, SudoLemma DEF HandleChanOpenAck
  <2>8. channels[ch].port \in Ports BY <2>2 DEF ChannelEnds
  <2>9. IsStore(active', Ports, DOMAIN channels')
    BY <1>1, <2>1, <2>4, <2>8 DEF HandleChanOpenAck, IsStore, Put
  <2> QED BY <1>1, <2>3, <2>5, <2>6, <2>7, <2>9, PrimedParts
<1>4. CASE Submit
  <2>1. PICK c \in Contracts, id \in IcaIds, n \in MsgCounts, fee \in FeeChoices :
             SubmitTx(c, id, n, fee)
    BY <1>4 DEF Submit
  <2> DEFINE ch == active[IcaPort(c, id)]
  <2>2. /\ CanLock(bank, c, fee)
        /\ LockFees(c, <<ch, GetNextSequenceSend(ch)>>, fee)
        /\ bank' = LockedBank(bank, c, fee)
        /\ CanSend(ch)
        /\ SendPacket(ch, c, NoToken)
        /\ UNCHANGED <<feeParams, failures, handled, ictxVars>>
    BY <2>1 DEF SubmitTx
  <2> HIDE DEF ch
  <2>3. NoToken \in Coins /\ fee \in Fees /\ c \in Senders
    BY ChoicesAssumption DEF NoToken, Coins, Senders
  <2>4. IbcOK' /\ DOMAIN channels' = DOMAIN channels
    BY <1>1, <2>2, <2>3, SendPacketLemma, ZenonT(60)
  <2>5. FeesOK'
    BY <1>1, <2>2, <2>3, LockAndSend DEF FeesOK
  <2>6. Rest BY <1>1, <2>2, <2>4, ZenonT(60) DEF ictxVars
  <2> QED BY <2>4, <2>5, <2>6, PrimedParts
<1>5. CASE IcaAck
  <2>1. PICK p \in InFlight, r \in Relayers, k \in {"response", "error"}, ok \in BOOLEAN :
             HandleAcknowledgement(p, r, k, ok)
    BY <1>5 DEF IcaAck
  <2>2. IbcOK' /\ DOMAIN channels' = DOMAIN channels
    BY <1>1, <2>1, RelayLemma, ZenonT(60) DEF HandleAcknowledgement
  <2>3. FeesOK'
    BY <1>1, <2>1, Distribute, ZenonT(60) DEF HandleAcknowledgement, FeesOK
  <2>4. DOMAIN failures' = Contracts BY <1>1, <2>1, SudoLemma, ZenonT(60) DEF HandleAcknowledgement
  <2>5. Rest BY <1>1, <2>1, <2>2, <2>4, ZenonT(60) DEF HandleAcknowledgement, ictxVars
  <2> QED BY <2>2, <2>3, <2>5, PrimedParts, ZenonT(60)
<1>6. CASE IcaTimeout
  <2>1. PICK p \in InFlight, r \in Relayers, ok \in BOOLEAN : HandleTimeout(p, r, ok)
    BY <1>6 DEF IcaTimeout
  <2>2. IbcOK' /\ DOMAIN channels' = DOMAIN channels
    BY <1>1, <2>1, RelayLemma, ZenonT(60) DEF HandleTimeout
  <2>3. FeesOK'
    BY <1>1, <2>1, Distribute, ZenonT(60) DEF HandleTimeout, FeesOK
  <2>4. DOMAIN failures' = Contracts BY <1>1, <2>1, SudoLemma, ZenonT(60) DEF HandleTimeout
  <2>5. Rest BY <1>1, <2>1, <2>2, <2>4 DEF HandleTimeout, ictxVars
  <2> QED BY <2>2, <2>3, <2>5, PrimedParts, ZenonT(60)
<1>7. CASE SendTransfer
  <2>1. PICK s \in Senders, t \in Tokens, fee \in FeeChoices :
             Transfer(s, 0, t, fee) /\ UNCHANGED ictxVars
    BY <1>7 DEF SendTransfer, Senders
  <2>2. t \in Coins /\ fee \in Fees BY ChoicesAssumption
  <2>3. /\ CanSend(0) /\ SendPacket(0, s, t)
        /\ UNCHANGED <<feeParams, failures, handled>>
    BY <2>1 DEF Transfer
  <2>4. IbcOK' /\ DOMAIN channels' = DOMAIN channels
    BY <1>1, <2>2, <2>3, SendPacketLemma, ZenonT(60)
  <2>5. FeesOK'
    <3>1. CASE s \in Contracts
      <4> DEFINE paid == LockedBank(bank, s, fee)
      <4>1. /\ CanLock(bank, s, fee)
            /\ LockFees(s, <<0, GetNextSequenceSend(0)>>, fee)
            /\ Covers(paid[s], t)
            /\ bank' = Send(paid, s, Escrow, t)
        BY <2>1, <3>1 DEF Transfer
      <4>2. /\ paid \in [Accounts -> Coins]
            /\ IsStore(feeInfos', PacketIds, FeeInfos)
            /\ FeesFollowPackets'
            /\ EscrowOf(paid, feeInfos')
            /\ NoRecvFee(feeInfos')
        BY <1>1, <2>2, <2>3, <3>1, <4>1, LockAndSend
      <4> HIDE DEF paid
      <4>3. bank' \in [Accounts -> Coins] /\ EscrowOf(bank', feeInfos')
        BY <1>a, <2>2, <4>1, <4>2, SendLemma, SendKeepsEscrow
      <4> QED BY <4>2, <4>3 DEF FeesOK
    <3>2. CASE s \notin Contracts
      <4>1. /\ feeInfos' = feeInfos
            /\ Covers(bank[s], t)
            /\ bank' = Send(bank, s, Escrow, t)
        BY <2>1, <3>2 DEF Transfer
      <4>2. bank' \in [Accounts -> Coins] /\ EscrowOf(bank', feeInfos')
        BY <1>1, <1>a, <2>2, <4>1, SendLemma, SendKeepsEscrow DEF FeesOK
      <4>3. \A q \in InFlight : q \in InFlight' /\ packets'[q].sender = packets[q].sender
        BY <1>1, <2>2, <2>3, SendPacketLemma, ZenonT(60)
      <4> QED BY <1>1, <4>1, <4>2, <4>3, ZenonT(60) DEF FeesOK, FeesFollowPackets
    <3> QED BY <3>1, <3>2
  <2>6. Rest BY <1>1, <2>1, <2>3, <2>4, ZenonT(60) DEF ictxVars
  <2> QED BY <2>4, <2>5, <2>6, PrimedParts
<1>8. ASSUME NEW p \in InFlight, NEW failed \in BOOLEAN, CanRefund(packets[p], failed)
      PROVE  LET b == Refunded(bank, packets[p], failed)
             IN  b \in [Accounts -> Coins] /\ EscrowOf(b, feeInfos)
  <2>1. packets[p].sender \in Senders /\ packets[p].token \in Coins
    BY <1>1 DEF IbcOK, IsStore, InFlight, Packets, PacketRecords
  <2> QED
    BY <1>1, <1>8, <1>a, <2>1, SendLemma, SendKeepsEscrow, ZenonT(60) DEF Refunded, CanRefund, FeesOK
<1>9. ASSUME NEW p \in InFlight, Acknowledge(p) \/ Timeout(p), packets[p].sender \notin Contracts,
             NEW b \in [Accounts -> Coins], EscrowOf(b, feeInfos), bank' = b, feeInfos' = feeInfos
      PROVE  FeesOK'
  <2>1. p \notin DOMAIN feeInfos BY <1>1, <1>9, ZenonT(60) DEF FeesOK, FeesFollowPackets
  <2>2. \A q \in InFlight : q # p => q \in InFlight' /\ packets'[q].sender = packets[q].sender
    BY <1>1, <1>9, RelayLemma, ZenonT(60)
  <2> QED BY <1>1, <1>9, <2>1, <2>2, ZenonT(60) DEF FeesOK, FeesFollowPackets
<1>10. CASE TransferAck
  <2>1. PICK p \in InFlight, r \in Relayers, k \in {"response", "error"}, ok \in BOOLEAN :
             TransferAcknowledgement(p, r, k, ok) /\ UNCHANGED ictxVars
    BY <1>10 DEF TransferAck
  <2> DEFINE b == Refunded(bank, packets[p], k = "error")
  <2>2. /\ CanRefund(packets[p], k = "error") /\ Acknowledge(p)
        /\ IF packets[p].sender \in Contracts
           THEN /\ DistributeAcknowledgementFee(b, r, p)
                /\ Sudo(packets[p].sender, <<k, p>>, ok)
           ELSE bank' = b /\ UNCHANGED <<feeInfos, failures, handled>>
        /\ UNCHANGED feeParams
    BY <2>1 DEF TransferAcknowledgement
  <2>3. b \in [Accounts -> Coins] /\ EscrowOf(b, feeInfos) BY <1>8, <2>2, ZenonT(60)
  <2> HIDE DEF b
  <2>4. IbcOK' /\ DOMAIN channels' = DOMAIN channels BY <1>1, <2>2, RelayLemma, ZenonT(60)
  <2>5. FeesOK' /\ DOMAIN failures' = Contracts
    <3>1. CASE packets[p].sender \in Contracts
      BY <1>1, <2>2, <2>3, <3>1, Distribute, SudoLemma, ZenonT(60)
    <3>2. CASE packets[p].sender \notin Contracts
      BY <1>1, <1>9, <2>2, <2>3, <3>2, ZenonT(60)
    <3> QED BY <3>1, <3>2
  <2>6. Rest BY <1>1, <2>1, <2>2, <2>4, <2>5, ZenonT(60) DEF ictxVars
  <2> QED BY <2>4, <2>5, <2>6, PrimedParts
<1>11. CASE TransferTimedOut
  <2>1. PICK p \in InFlight, r \in Relayers, ok \in BOOLEAN :
             TransferTimeout(p, r, ok) /\ UNCHANGED ictxVars
    BY <1>11 DEF TransferTimedOut
  <2> DEFINE b == Refunded(bank, packets[p], TRUE)
  <2>2. /\ CanRefund(packets[p], TRUE) /\ Timeout(p)
        /\ IF packets[p].sender \in Contracts
           THEN /\ DistributeTimeoutFee(b, r, p)
                /\ Sudo(packets[p].sender, <<"timeout", p>>, ok)
           ELSE bank' = b /\ UNCHANGED <<feeInfos, failures, handled>>
        /\ UNCHANGED feeParams
    BY <2>1, ZenonT(60) DEF TransferTimeout
  <2>3. b \in [Accounts -> Coins] /\ EscrowOf(b, feeInfos) BY <1>8, <2>2, ZenonT(60)
  <2> HIDE DEF b
  <2>4. IbcOK' /\ DOMAIN channels' = DOMAIN channels BY <1>1, <2>2, RelayLemma, ZenonT(60)
  <2>5. FeesOK' /\ DOMAIN failures' = Contracts
    <3>1. CASE packets[p].sender \in Contracts
      BY <1>1, <2>2, <2>3, <3>1, Distribute, SudoLemma, ZenonT(60)
    <3>2. CASE packets[p].sender \notin Contracts
      BY <1>1, <1>9, <2>2, <2>3, <3>2, ZenonT(60)
    <3> QED BY <3>1, <3>2
  <2>6. Rest BY <1>1, <2>1, <2>2, <2>4, <2>5, ZenonT(60) DEF ictxVars
  <2> QED BY <2>4, <2>5, <2>6, PrimedParts, ZenonT(60)
<1>12. CASE CounterpartyRecv
  <2>1. PICK p \in InFlight : Recv(p) BY <1>12 DEF CounterpartyRecv
  <2>2. UNCHANGED <<bank, feeInfos, feeParams, failures, handled, ictxVars>>
    BY <1>12 DEF CounterpartyRecv
  <2>3. /\ IbcOK' /\ DOMAIN channels' = DOMAIN channels
        /\ \A q \in InFlight : q \in InFlight' /\ packets'[q].sender = packets[q].sender
    BY <1>1, <2>1, RelayLemma
  <2>4. FeesOK' BY <1>1, <2>2, <2>3 DEF FeesOK, FeesFollowPackets
  <2>5. Rest BY <1>1, <2>2, <2>3 DEF ictxVars
  <2> QED BY <2>3, <2>4, <2>5, PrimedParts, ZenonT(60)
<1>13. CASE Resubmit
  <2>1. /\ UNCHANGED <<bank, feeInfos, feeParams, ibcVars, ictxVars>>
        /\ DOMAIN failures' = Contracts
    BY <1>1, <1>13 DEF Resubmit, ResubmitFailure, resubmitFailure
  <2> QED
    BY <2>1, ZenonT(60) DEF IndInv, TypeOK, FeesFollowPackets, InFlight, Packets, FreshIds, ibcVars, ictxVars
<1>14. CASE FeeGovernance
  <2>1. /\ UNCHANGED <<bank, feeInfos, failures, ibcVars, ictxVars>>
        /\ feeParams' \in FeeParams
    BY <1>14, ChoicesAssumption DEF FeeGovernance, UpdateFeeParams
  <2> QED
    BY <2>1, ZenonT(60) DEF IndInv, TypeOK, FeesFollowPackets, InFlight, Packets, FreshIds, ibcVars, ictxVars
<1>15. CASE IctxGovernance
  <2>1. /\ UNCHANGED <<bank, feeInfos, feeParams, failures, ibcVars, active>>
        /\ ictxParams' \in IctxParams
    BY <1>15, ChoicesAssumption DEF IctxGovernance, UpdateIctxParams
  <2> QED
    BY <2>1, ZenonT(60) DEF IndInv, TypeOK, FeesFollowPackets, InFlight, Packets, FreshIds, ibcVars
<1>16. CASE UNCHANGED vars
  BY <1>16, ZenonT(60)
     DEF IndInv, TypeOK, FeesFollowPackets, InFlight, Packets, FreshIds, vars, ibcVars, ictxVars
<1> QED
  BY <1>2, <1>3, <1>4, <1>5, <1>6, <1>7, <1>10, <1>11, <1>12, <1>13, <1>14, <1>15, <1>16
     DEF Next

-----------------------------------------------------------------------------
\* The inductive invariant holds in every reachable state.
THEOREM Inductive == Spec => []IndInv
BY InitIndInv, NextIndInv, PTL DEF Spec

\* The stores of the fee refunder, the channels and the packets keep their
\* types under every handler.
THEOREM TypeCorrect == Spec => []TypeOK
<1>1. IndInv => TypeOK BY DEF IndInv
<1> QED BY <1>1, Inductive, PTL

\* The fee refunder's account holds exactly the fees its store records, so
\* the panic of a distribution that cannot be paid is never reached.
THEOREM EscrowIsBacked == Spec => []EscrowBacked
<1>1. IndInv => EscrowBacked BY DEF IndInv, EscrowBacked, EscrowOf
<1> QED BY <1>1, Inductive, PTL

\* LockFees is always given the id of the packet that is then sent, and the
\* fee is gone when the packet is.
THEOREM FeesAreForPackets == Spec => []FeesFollowPackets
<1>1. IndInv => FeesFollowPackets BY DEF IndInv
<1> QED BY <1>1, Inductive, PTL

-----------------------------------------------------------------------------
\* What the layers of the stack leave to NeutronIBC.

\* The stack has the transfer channel and no other.
TransferOnly == DOMAIN channels = {0} /\ channels[0].port = TransferPort

\* Every step but a receipt is a step of NeutronIBC.
LEMMA StackStep ==
    ASSUME IndInv, TransferOnly, [StackNext]_stackVars, ~StackReceive
    PROVE  [Next]_vars
<1>1. \A p \in InFlight : OnTransferChannel(p)
  <2>1. \A p \in Packets : p[1] \in DOMAIN channels BY DEF IndInv, FreshIds
  <2> QED BY <2>1 DEF InFlight, TransferOnly, OnTransferChannel
<1>2. CASE StackSend
  <2>1. SendTransfer BY <1>2, ZenonT(60) DEF StackSend, SendTransfer
  <2> QED BY <2>1 DEF Next
<1>3. CASE StackCounterpartyRecv
  <2>1. CounterpartyRecv BY <1>3 DEF StackCounterpartyRecv, CounterpartyRecv
  <2> QED BY <2>1 DEF Next
<1>4. CASE StackAck
  <2>1. PICK p \in InFlight, r \in Relayers, ok \in BOOLEAN, k \in {"response", "error"} :
             MayFail(ok) /\ TransferAcknowledgement(p, r, k, ok) /\ UNCHANGED ictxVars
    BY <1>4 DEF StackAck
  <2>2. TransferAck BY <1>1, <2>1 DEF TransferAck
  <2> QED BY <2>2 DEF Next
<1>5. CASE StackTimeout
  <2>1. PICK p \in InFlight, r \in Relayers, ok \in BOOLEAN :
             MayFail(ok) /\ TransferTimeout(p, r, ok) /\ UNCHANGED ictxVars
    BY <1>5 DEF StackTimeout
  <2>2. TransferTimedOut BY <1>1, <2>1 DEF TransferTimedOut
  <2> QED BY <2>2 DEF Next
<1>6. CASE ConfigureLimiter \/ UNCHANGED stackVars
  BY <1>6 DEF ConfigureLimiter, stackVars
<1>7. CASE StackResubmit \/ StackFeeGovernance
  BY <1>7 DEF StackResubmit, StackFeeGovernance, Next
<1> QED BY <1>2, <1>3, <1>4, <1>5, <1>6, <1>7 DEF StackNext

\* No step opens a channel or changes the port of one.
LEMMA TransferOnlyStep ==
    ASSUME IndInv, TransferOnly, [StackNext]_stackVars
    PROVE  TransferOnly'
<1>0. IsStore(channels, ChannelIds, ChannelEnds) /\ channels[0] \in ChannelEnds
  BY DEF IndInv, TypeOK, IsStore, TransferOnly
<1>1. CASE StackSend
  <2>1. \E s, t : SendPacket(0, s, t) BY <1>1, ZenonT(60) DEF StackSend, Transfer
  <2> QED BY <1>0, <2>1 DEF SendPacket, TransferOnly, ChannelEnds
<1>2. ASSUME NEW p, Recv(p) \/ Acknowledge(p) \/ Timeout(p) PROVE TransferOnly'
  <2>1. CASE Recv(p) BY <1>0, <2>1 DEF Recv, TransferOnly, ChannelEnds
  <2>2. CASE Acknowledge(p) BY <1>0, <2>2 DEF Acknowledge, TransferOnly, ChannelEnds
  <2>3. CASE Timeout(p) BY <1>0, <2>3 DEF Timeout, TransferOnly, ChannelEnds
  <2> QED BY <1>2, <2>1, <2>2, <2>3
<1>3. CASE StackCounterpartyRecv \/ StackAck \/ StackTimeout
  <2>1. \E p \in InFlight : Recv(p) \/ Acknowledge(p) \/ Timeout(p)
    BY <1>3, ZenonT(60) DEF StackCounterpartyRecv, StackAck, StackTimeout, TransferAcknowledgement, TransferTimeout
  <2> QED BY <1>2, <2>1
<1>4. CASE StackReceive \/ ConfigureLimiter \/ StackResubmit \/ StackFeeGovernance
           \/ UNCHANGED stackVars
  <2>1. channels' = channels
    BY <1>4 DEF StackReceive, ConfigureLimiter, StackResubmit, Resubmit, StackFeeGovernance,
                FeeGovernance, stackVars, vars, ibcVars
  <2> QED BY <2>1 DEF TransferOnly
<1> QED BY <1>1, <1>3, <1>4 DEF StackNext

\* What a receipt does to the balances: it takes the tokens out of the escrow
\* account, and touches neither the fee module nor anything else of NeutronIBC.
Receipt(t) ==
    /\ bank' \in [Accounts -> Coins]
    /\ bank'[FeeModule] = bank[FeeModule]
    /\ bank'[Escrow] = Sub(bank[Escrow], t)
    /\ Covers(bank[Escrow], t) /\ Covers(outside, t)
    /\ outside' = Sub(outside, t)
    /\ UNCHANGED <<feeInfos, feeParams, failures, handled, ibcVars, ictxVars>>

LEMMA ReceiptLemma ==
    ASSUME IndInv, StackReceive
    PROVE  \E t \in Tokens : Receipt(t) /\ RateLimitRecv(t)
<1>1. PICK receiver \in Contracts \cup Users, t \in Tokens, memo \in Memos, ok \in BOOLEAN :
           /\ Covers(outside, t) /\ RateLimitRecv(t) /\ Covers(bank[Escrow], t)
           /\ HookReceive(t, receiver, memo, ok)
           /\ outside' = Sub(outside, t)
           /\ UNCHANGED <<feeInfos, feeParams, failures, handled, ibcVars, ictxVars>>
  BY ZenonT(60) DEF StackReceive
<1>2. /\ t \in Coins /\ bank \in [Accounts -> Coins]
      /\ receiver \in Accounts \ {FeeModule, Escrow}
      /\ Escrow \in Accounts \ {FeeModule} /\ FeeModule \in Accounts
      /\ Intermediate \in Accounts \ {FeeModule, Escrow, receiver}
  BY ChoicesAssumption, ContractsAssumption, SendersAssumption, EscrowAssumption,
     StackAssumption, FeeModuleAssumption DEF IndInv, TypeOK
<1>3. CASE memo # "wasm"
  <2>1. bank' = Send(bank, Escrow, receiver, t) BY <1>1, <1>3 DEF HookReceive, ReceivedBank
  <2>2. /\ bank' \in [Accounts -> Coins] /\ bank'[FeeModule] = bank[FeeModule]
        /\ bank'[Escrow] = Sub(bank[Escrow], t)
    BY <1>1, <1>2, <2>1, SendLemma
  <2> QED BY <1>1, <2>2 DEF Receipt
<1>4. CASE memo = "wasm"
  <2> DEFINE b == Send(bank, Escrow, Intermediate, t)
  <2>1. bank' = Send(b, Intermediate, receiver, t) BY <1>1, <1>4 DEF HookReceive, ReceivedBank
  <2>2. /\ b \in [Accounts -> Coins] /\ b[FeeModule] = bank[FeeModule]
        /\ b[Escrow] = Sub(bank[Escrow], t) /\ b[Intermediate] = Add(bank[Intermediate], t)
    BY <1>1, <1>2, SendLemma
  <2> HIDE DEF b
  <2>3. Covers(b[Intermediate], t)
    BY <1>2, <2>2 DEF Covers, Add, Coins
  <2>4. /\ bank' \in [Accounts -> Coins] /\ bank'[FeeModule] = b[FeeModule]
        /\ bank'[Escrow] = b[Escrow]
    BY <1>2, <2>1, <2>2, <2>3, SendLemma
  <2> QED BY <1>1, <2>2, <2>4 DEF Receipt
<1> QED BY <1>3, <1>4

\* A receipt keeps the fees and the packets as they are.
LEMMA ReceiveIndInv ==
    ASSUME IndInv, NEW t, Receipt(t)
    PROVE  IndInv'
<1>1. FeesOK' /\ IbcOK'
  <2>1. FeesOK /\ IbcOK BY IndInvParts
  <2>2. bank' \in [Accounts -> Coins] /\ EscrowOf(bank', feeInfos')
    BY <2>1 DEF Receipt, FeesOK, EscrowOf
  <2>3. UNCHANGED <<feeInfos, channels, nextChannel, packets>> BY DEF Receipt, ibcVars
  <2> QED BY <2>1, <2>2, <2>3 DEF FeesOK, FeesFollowPackets, IbcOK, FreshIds, InFlight, Packets
<1>2. UNCHANGED <<feeParams, active, ictxParams, failures, channels>>
  BY DEF Receipt, ibcVars, ictxVars
<1> QED BY <1>1, <1>2, IndInvParts, PrimedParts

\* The inductive invariant of NeutronIBC is one of the stack.
StackBase == IndInv /\ TransferOnly

LEMMA StackBaseInit == StackInit => StackBase
<1>1. StackInit => IndInv BY InitIndInv DEF StackInit
<1>2. StackInit => TransferOnly
  BY DEF StackInit, Init, TransferOnly, Put, EmptyStore, NewChannel
<1> QED BY <1>1, <1>2 DEF StackBase

LEMMA StackBaseStep == StackBase /\ [StackNext]_stackVars => StackBase'
<1> SUFFICES ASSUME IndInv, TransferOnly, [StackNext]_stackVars PROVE StackBase'
  BY DEF StackBase
<1>1. TransferOnly' BY TransferOnlyStep
<1>2. CASE StackReceive
  <2>1. IndInv' BY <1>2, ReceiptLemma, ReceiveIndInv
  <2> QED BY <1>1, <2>1 DEF StackBase
<1>3. CASE ~StackReceive
  <2>1. IndInv' BY <1>3, StackStep, NextIndInv
  <2> QED BY <1>1, <2>1 DEF StackBase
<1> QED BY <1>2, <1>3

\* Whatever the hooks, the rate limit and the GMP middleware do, the fee
\* refunder's account holds exactly the locked fees.
THEOREM StackFeesBacked == StackSpec => []EscrowBacked
<1>1. StackBase => EscrowBacked BY DEF StackBase, IndInv, EscrowBacked, EscrowOf
<1> QED BY <1>1, StackBaseInit, StackBaseStep, PTL DEF StackSpec

\* Sending adds one unused packet id.
LEMMA SendAddsPacket ==
    ASSUME IbcOK, NEW ch, CanSend(ch), NEW sender \in Senders, NEW token \in Coins,
           SendPacket(ch, sender, token)
    PROVE  LET p == <<ch, GetNextSequenceSend(ch)>>
           IN  p \in PacketIds /\ p \notin Packets /\ Packets' = Packets \cup {p}
<1>1. <<ch, channels[ch].nextSend>> \in PacketIds /\ <<ch, channels[ch].nextSend>> \notin Packets
  BY SendPacketLemma
<1>2. Packets' = Packets \cup {<<ch, channels[ch].nextSend>>}
  BY DEF SendPacket, Packets, Put
<1> QED BY <1>1, <1>2 DEF GetNextSequenceSend

=============================================================================
