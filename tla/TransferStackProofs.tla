-------------------------- MODULE TransferStackProofs --------------------------
(***************************************************************************)
(* Proofs about the tokens of TransferStack, for every set of contracts,   *)
(* users, relayers, denominations and rate limiters, and every choice of   *)
(* amounts and quotas: the escrow account backs the tokens that left, and  *)
(* a limiter's quota bounds them.                                          *)
(***************************************************************************)
EXTENDS NeutronIBCProofs

\* How long the provers may take for a leaf, in seconds, and with no types.
USE SMTT(30), ZenonT(30), Untyped

-----------------------------------------------------------------------------
\* Sums of tokens.

\* The tokens of denomination d in the packets S of the packet store pk.
TokenSum(pk, S, d) == SumOf([p \in S |-> pk[p].token[d]])

HasTokens(pk, S) == S \subseteq PacketIds /\ \A p \in S : pk[p].token \in Coins

\* There are finitely many packet ids, so these sums are numbers.
LEMMA TokensFinite ==
    ASSUME NEW pk, NEW S, HasTokens(pk, S), NEW d \in Denoms
    PROVE  FiniteStore([p \in S |-> pk[p].token[d]]) /\ TokenSum(pk, S, d) \in Nat
<1>1. IsFiniteSet(PacketIds)
  <2>1. IsFiniteSet(ChannelIds) /\ IsFiniteSet(1..MaxSequence)
    BY BoundsAssumption, FS_Interval DEF ChannelIds
  <2> QED BY <2>1, FS_Product, ZenonT(60) DEF PacketIds
<1>2. IsFiniteSet(S) BY <1>1, FS_Subset DEF HasTokens
<1>3. \A p \in S : pk[p].token[d] \in Nat BY DEF HasTokens, Coins
<1> DEFINE f == [p \in S |-> pk[p].token[d]]
<1>4. DOMAIN f = S /\ \A p \in DOMAIN f : f[p] \in Nat BY <1>3
<1> HIDE DEF f
<1>5. FiniteStore(f) BY <1>2, <1>4, FiniteSum
<1> QED BY <1>5, SumType DEF f, TokenSum

\* One more packet adds its tokens.
LEMMA TokensAdd ==
    ASSUME NEW pk, NEW S, NEW p, p \notin S, HasTokens(pk, S \cup {p}), NEW d \in Denoms
    PROVE  TokenSum(pk, S \cup {p}, d) = TokenSum(pk, S, d) + pk[p].token[d]
<1> DEFINE f == [q \in S |-> pk[q].token[d]]
           g == [q \in S \cup {p} |-> pk[q].token[d]]
<1>1. HasTokens(pk, S) BY DEF HasTokens
<1>2. FiniteStore(f) BY <1>1, TokensFinite
<1>3. pk[p].token[d] \in Nat BY DEF HasTokens, Coins
<1>4. g = Put(f, p, pk[p].token[d]) /\ p \notin DOMAIN f BY DEF Put
<1> HIDE DEF f, g
<1>5. SumOf(g) = SumOf(f) + pk[p].token[d] BY <1>2, <1>3, <1>4, SumPut
<1> QED BY <1>5 DEF f, g, TokenSum

\* One packet less takes them away.
LEMMA TokensCut ==
    ASSUME NEW pk, NEW S, NEW p \in S, HasTokens(pk, S), NEW d \in Denoms
    PROVE  TokenSum(pk, S, d) = TokenSum(pk, S \ {p}, d) + pk[p].token[d]
<1>1. S = (S \ {p}) \cup {p} OBVIOUS
<1> DEFINE R == S \ {p}
<1>2. p \notin R /\ HasTokens(pk, R \cup {p}) BY <1>1
<1> HIDE DEF R
<1>3. TokenSum(pk, R \cup {p}, d) = TokenSum(pk, R, d) + pk[p].token[d]
  BY <1>2, TokensAdd
<1> QED BY <1>1, <1>3 DEF R

\* The sum depends on the tokens only.
LEMMA TokensSame ==
    ASSUME NEW pk, NEW pk2, NEW S, \A p \in S : pk2[p].token = pk[p].token, NEW d
    PROVE  TokenSum(pk2, S, d) = TokenSum(pk, S, d)
<1>1. [p \in S |-> pk2[p].token[d]] = [p \in S |-> pk[p].token[d]] OBVIOUS
<1> QED BY <1>1 DEF TokenSum

\* Fewer packets have no more tokens.
LEMMA TokensPart ==
    ASSUME NEW pk, NEW S, NEW T, S \subseteq T, HasTokens(pk, T), NEW d \in Denoms
    PROVE  TokenSum(pk, S, d) <= TokenSum(pk, T, d)
<1> DEFINE f == [p \in S |-> pk[p].token[d]]
           g == [p \in T |-> pk[p].token[d]]
<1>1. FiniteStore(g) BY TokensFinite
<1>2. DOMAIN f \subseteq DOMAIN g /\ \A p \in DOMAIN f : f[p] = g[p] OBVIOUS
<1> HIDE DEF f, g
<1>3. SumOf(f) <= SumOf(g) BY <1>1, <1>2, SumSubset
<1> QED BY <1>3 DEF f, g, TokenSum

-----------------------------------------------------------------------------
\* The inductive invariant of the stack's own state.

\* A packet is taken back at most once, and then its tokens did not stay away.
LimitTypes ==
    /\ limiter \in Limiters \cup {NoLimiter}
    /\ outflow \in [Limiters -> Coins] /\ inflow \in [Limiters -> Coins]
    /\ outside \in Coins
    /\ arrived \subseteq {p \in Packets : packets[p].status # "sent"}
    /\ DOMAIN charged \subseteq Packets
    /\ DOMAIN undone \subseteq Packets \ (InFlight \cup arrived)

\* The packets a limiter still counts, and those it took back uncounted.
Kept(l) == {p \in DOMAIN charged : charged[p] = l /\ ~(p \in DOMAIN undone /\ undone[p] = l)}
Foreign(l) == {p \in DOMAIN undone : undone[p] = l /\ ~(p \in DOMAIN charged /\ charged[p] = l)}

\* A limiter's counter is within its quota, and short of what it admitted by
\* no more than the packets it never counted.
QuotaInv == \A l \in Limiters, d \in Denoms :
    /\ outflow[l][d] <= MaxOut[d] + inflow[l][d]
    /\ TokenSum(packets, Kept(l), d) <= outflow[l][d] + TokenSum(packets, Foreign(l), d)

StackInv == StackBase /\ LimitTypes /\ TokensBacked /\ QuotaInv

\* The sets the invariant sums over are sets of packets with tokens.
LEMMA PacketsHaveTokens ==
    ASSUME IndInv
    PROVE  HasTokens(packets, Packets) /\ \A S : S \subseteq Packets => HasTokens(packets, S)
<1>1. IsStore(packets, PacketIds, PacketRecords) BY DEF IndInv, TypeOK
<1>2. \A p \in Packets : p \in PacketIds /\ packets[p].token \in Coins
  BY <1>1 DEF IsStore, Packets, PacketRecords
<1> QED BY <1>2 DEF HasTokens

LEMMA PrimedTokens ==
    ASSUME IndInv'
    PROVE  \A S : S \subseteq Packets' => HasTokens(packets', S)
<1>1. IsStore(packets', PacketIds, PacketRecords) BY DEF IndInv, TypeOK
<1>2. \A p \in Packets' : p \in PacketIds /\ packets'[p].token \in Coins
  BY <1>1 DEF IsStore, Packets, PacketRecords
<1> QED BY <1>2 DEF HasTokens

LEMMA StackInvInit == StackInit => StackInv
<1> SUFFICES ASSUME StackInit PROVE StackInv OBVIOUS
<1>1. StackBase BY StackBaseInit
<1>2. /\ limiter \in Limiters \cup {NoLimiter}
      /\ outflow = [l \in Limiters |-> Zero] /\ inflow = [l \in Limiters |-> Zero]
      /\ charged = EmptyStore /\ undone = EmptyStore /\ arrived = {} /\ outside = Zero
      /\ packets = EmptyStore
  BY DEF StackInit, Init
<1>3. Zero \in Coins /\ \A d \in Denoms : Zero[d] = 0 BY DEF Zero, Coins
<1>4. LimitTypes BY <1>2, <1>3 DEF LimitTypes, EmptyStore
<1>5. \A d : TokenSum(packets, {}, d) = 0
  <2>1. \A d : [p \in {} |-> packets[p].token[d]] = EmptyStore BY DEF EmptyStore
  <2> QED BY <2>1, SumEmpty DEF TokenSum
<1>6. TokensBacked
  <2>1. InFlight \ arrived = {} BY <1>2 DEF InFlight, Packets, EmptyStore
  <2>2. \A d \in Denoms : bank[Escrow][d] = 0
    BY EscrowAssumption, StackAssumption DEF StackInit, Init
  <2>3. \A d \in Denoms : SumOf(TokensOf({}, d)) = 0 BY <1>5 DEF TokensOf, TokenSum
  <2>4. \A d \in Denoms : outside[d] = 0 BY <1>2, <1>3
  <2> QED BY <2>1, <2>2, <2>3, <2>4 DEF TokensBacked
<1>7. QuotaInv
  <2>1. ASSUME NEW l \in Limiters, NEW d \in Denoms
        PROVE  /\ outflow[l][d] <= MaxOut[d] + inflow[l][d]
               /\ TokenSum(packets, Kept(l), d) <= outflow[l][d] + TokenSum(packets, Foreign(l), d)
    <3>1. Kept(l) = {} /\ Foreign(l) = {} BY <1>2 DEF Kept, Foreign, EmptyStore
    <3>2. outflow[l][d] = 0 /\ inflow[l][d] = 0 BY <1>2, <1>3
    <3>3. MaxOut[d] \in Nat BY StackAssumption DEF Coins
    <3> QED BY <1>5, <3>1, <3>2, <3>3
  <2> QED BY <2>1 DEF QuotaInv
<1> QED BY <1>1, <1>4, <1>6, <1>7 DEF StackInv

-----------------------------------------------------------------------------
\* What the steps of the stack do, in the terms of that invariant.

\* Packet p is new.
New(p, t) ==
    /\ p \in PacketIds /\ p \notin Packets /\ t \in Coins
    /\ Packets' = Packets \cup {p}
    /\ packets'[p].token = t /\ packets'[p].status = "sent"
    /\ \A q \in Packets : packets'[q] = packets[q]

\* Packet p goes on to status st.
Moved(p, st) ==
    /\ p \in InFlight /\ Packets' = Packets
    /\ packets'[p].status = st /\ packets'[p].token = packets[p].token
    /\ \A q \in Packets \ {p} : packets'[q] = packets[q]

Leaves(p, t) ==
    /\ New(p, t)
    /\ bank'[Escrow] = Add(bank[Escrow], t)
    /\ RateLimitSend(p, t)
    /\ UNCHANGED <<limiter, inflow, undone, arrived, outside>>

Credited(p) ==
    /\ Moved(p, "received") /\ packets[p].status = "sent"
    /\ arrived' = arrived \cup {p} /\ outside' = Add(outside, packets[p].token)
    /\ bank'[Escrow] = bank[Escrow] /\ UNCHANGED limitVars

Refused(p) ==
    /\ Moved(p, "received") /\ packets[p].status = "sent"
    /\ bank'[Escrow] = bank[Escrow] /\ UNCHANGED <<limitVars, arrived, outside>>

ComesBack(p) ==
    /\ Moved(p, "settled") /\ p \notin arrived
    /\ Covers(bank[Escrow], packets[p].token)
    /\ bank'[Escrow] = Sub(bank[Escrow], packets[p].token)
    /\ \E done \in BOOLEAN : RevertSentPacket(p, done)
    /\ UNCHANGED <<limiter, inflow, charged, arrived, outside>>

Confirmed(p) ==
    /\ Moved(p, "settled") /\ p \in arrived
    /\ bank'[Escrow] = bank[Escrow] /\ UNCHANGED <<limitVars, arrived, outside>>

Returns(t) ==
    /\ t \in Tokens /\ Receipt(t) /\ RateLimitRecv(t)
    /\ UNCHANGED <<limiter, outflow, charged, undone, arrived>>

Aside ==
    /\ packets' = packets /\ bank'[Escrow] = bank[Escrow]
    /\ limiter' \in Limiters \cup {NoLimiter}
    /\ UNCHANGED <<outflow, inflow, charged, undone, arrived, outside>>

\* A payment between other accounts leaves the escrow account alone.
LEMMA SendElsewhere ==
    ASSUME NEW b, DOMAIN b = Accounts, NEW from, from # Escrow, NEW to, to # Escrow, NEW c
    PROVE  DOMAIN Send(b, from, to, c) = Accounts /\ Send(b, from, to, c)[Escrow] = b[Escrow]
BY EscrowAssumption DEF Send

\* So does a distribution.
LEMMA DistributionElsewhere ==
    ASSUME NEW b, DOMAIN b = Accounts, NEW r \in Relayers, NEW p, IndInv,
           \/ DistributeAcknowledgementFee(b, r, p)
           \/ DistributeTimeoutFee(b, r, p)
    PROVE  bank'[Escrow] = b[Escrow]
<1>1. r # Escrow /\ FeeModule # Escrow BY StackAssumption, EscrowAssumption
<1>2. CASE p \in DOMAIN feeInfos
  <2>1. feeInfos[p].payer \in Contracts BY <1>2 DEF IndInv, FeesFollowPackets
  <2>2. feeInfos[p].payer # Escrow BY <2>1, StackAssumption
  <2>3. \E c1, c2 : bank' = Distributed(b, r, feeInfos[p].payer, c1, c2)
    BY <1>2, ZenonT(60) DEF DistributeAcknowledgementFee, DistributeTimeoutFee
  <2> QED BY <1>1, <2>2, <2>3, SendElsewhere DEF Distributed
<1>3. CASE p \notin DOMAIN feeInfos
  BY <1>3 DEF DistributeAcknowledgementFee, DistributeTimeoutFee
<1> QED BY <1>2, <1>3

\* Recv, Acknowledge and Timeout change one packet's status.
LEMMA RelayMoves ==
    ASSUME IndInv, NEW p \in InFlight
    PROVE  /\ Recv(p) => Moved(p, "received") /\ packets[p].status = "sent"
           /\ Acknowledge(p) \/ Timeout(p) => Moved(p, "settled")
<1>1. p \in Packets /\ packets[p] \in PacketRecords /\ packets \in [Packets -> PacketRecords]
  BY DEF InFlight, IndInv, TypeOK, IsStore, Packets
<1>2. ASSUME NEW st, packets' = [packets EXCEPT ![p].status = st] PROVE Moved(p, st)
  BY <1>1, <1>2 DEF Moved, Packets, PacketRecords
<1> QED BY <1>2, ZenonT(60) DEF Recv, CanRecv, Acknowledge, Timeout

\* Every step of the stack is one of these.
StackShape ==
    \/ \E p \in PacketIds, t \in Coins : Leaves(p, t)
    \/ \E p \in InFlight : Credited(p) \/ Refused(p) \/ ComesBack(p) \/ Confirmed(p)
    \/ \E t \in Tokens : Returns(t)
    \/ Aside

LEMMA EveryStackStep ==
    ASSUME StackBase, LimitTypes, [StackNext]_stackVars
    PROVE  StackShape
<1>0. /\ IndInv /\ IbcOK /\ bank \in [Accounts -> Coins] /\ DOMAIN bank = Accounts
  BY IndInvParts DEF StackBase, FeesOK
<1>a. \A p \in Packets : packets[p].token \in Coins /\ packets[p].sender \in Senders
  BY <1>0 DEF IbcOK, IsStore, PacketRecords, Packets
<1>b. /\ Escrow \in Accounts \ {FeeModule} /\ FeeModule \in Accounts
      /\ \A s \in Senders : s \in Accounts \ {Escrow, FeeModule}
  BY EscrowAssumption, StackAssumption, FeeModuleAssumption, SendersAssumption,
     ContractsAssumption DEF Senders
<1>1. CASE StackSend
  <2>1. PICK s \in Senders, t \in Tokens, fee \in FeeChoices :
             /\ Transfer(s, 0, t, fee) /\ RateLimitSend(<<0, GetNextSequenceSend(0)>>, t)
             /\ UNCHANGED <<limiter, inflow, undone, arrived, outside>>
    BY <1>1, ZenonT(60) DEF StackSend, Senders
  <2> DEFINE p == <<0, GetNextSequenceSend(0)>>
  <2>2. t \in Coins BY ChoicesAssumption
  <2>3. CanSend(0) /\ SendPacket(0, s, t) BY <2>1 DEF Transfer
  <2>4. p \in PacketIds /\ p \notin Packets /\ Packets' = Packets \cup {p}
    BY <1>0, <2>2, <2>3, SendAddsPacket
  <2>5. packets' = Put(packets, p, [sender |-> s, token |-> t, status |-> "sent"])
    BY <2>3 DEF SendPacket, GetNextSequenceSend
  <2> HIDE DEF p
  <2>6. New(p, t) BY <2>2, <2>4, <2>5 DEF New, Put, Packets
  <2> DEFINE paid == IF s \in Contracts THEN LockedBank(bank, s, fee) ELSE bank
  <2>7. /\ bank' = Send(paid, s, Escrow, t) /\ Covers(paid[s], t)
        /\ s \in Contracts => CanLock(bank, s, fee)
    BY <2>1 DEF Transfer
  <2>8. paid \in [Accounts -> Coins] /\ paid[Escrow] = bank[Escrow]
    <3>1. CASE s \in Contracts /\ feeParams.FeeEnabled
      <4>1. Total(fee) \in Coins /\ Covers(bank[s], Total(fee))
        BY <2>7, <3>1, ChoicesAssumption, TotalType, ZenonT(60) DEF CanLock
      <4>2. paid = Send(bank, s, FeeModule, Total(fee)) BY <3>1 DEF LockedBank
      <4> QED BY <1>0, <1>b, <4>1, <4>2, SendLemma
    <3>2. CASE ~(s \in Contracts /\ feeParams.FeeEnabled)
      BY <1>0, <3>2 DEF LockedBank
    <3> QED BY <3>1, <3>2
  <2> HIDE DEF paid
  <2>9. bank'[Escrow] = Add(bank[Escrow], t)
    BY <1>b, <2>2, <2>7, <2>8, SendLemma
  <2>10. Leaves(p, t) BY <2>1, <2>6, <2>9, ZenonT(60) DEF Leaves, p
  <2> QED BY <2>2, <2>4, <2>10 DEF StackShape
<1>2. CASE StackCounterpartyRecv
  <2>1. PICK p \in InFlight, credited \in BOOLEAN :
             /\ Recv(p)
             /\ IF credited
                THEN arrived' = arrived \cup {p} /\ outside' = Add(outside, packets[p].token)
                ELSE UNCHANGED <<arrived, outside>>
             /\ UNCHANGED <<bank, limitVars>>
    BY <1>2 DEF StackCounterpartyRecv
  <2>2. Moved(p, "received") /\ packets[p].status = "sent" BY <1>0, <2>1, RelayMoves, ZenonT(60)
  <2>3. Credited(p) \/ Refused(p) BY <2>1, <2>2 DEF Credited, Refused
  <2> QED BY <2>3 DEF StackShape
<1>3. ASSUME NEW p \in InFlight, NEW r \in Relayers, p \notin arrived, CanRefund(packets[p], TRUE),
             Acknowledge(p) \/ Timeout(p),
             LET b == Refunded(bank, packets[p], TRUE)
             IN  \/ DistributeAcknowledgementFee(b, r, p) \/ DistributeTimeoutFee(b, r, p)
                 \/ bank' = b,
             \E done \in BOOLEAN : RevertSentPacket(p, done),
             UNCHANGED <<limiter, inflow, charged, arrived, outside>>
      PROVE  StackShape
  <2> DEFINE b == Refunded(bank, packets[p], TRUE)
  <2>1. /\ packets[p].token \in Coins /\ packets[p].sender \in Accounts \ {Escrow}
        /\ Covers(bank[Escrow], packets[p].token)
    BY <1>a, <1>b, <1>3, ZenonT(60) DEF InFlight, CanRefund
  <2>2. b \in [Accounts -> Coins] /\ b[Escrow] = Sub(bank[Escrow], packets[p].token)
    BY <1>0, <1>b, <2>1, SendLemma DEF Refunded
  <2>3. DOMAIN b = Accounts BY <2>2, ZenonT(60)
  <2>4. DistributeAcknowledgementFee(b, r, p) \/ DistributeTimeoutFee(b, r, p) \/ bank' = b
    BY <1>3, ZenonT(60)
  <2> HIDE DEF b
  <2>5. bank'[Escrow] = b[Escrow] BY <1>0, <2>3, <2>4, DistributionElsewhere
  <2>6. Moved(p, "settled") BY <1>0, <1>3, RelayMoves, ZenonT(60)
  <2>7. ComesBack(p) BY <1>3, <2>1, <2>2, <2>5, <2>6, ZenonT(60) DEF ComesBack
  <2> QED BY <2>7 DEF StackShape
<1>4. CASE StackAck
  <2>1. PICK p \in InFlight, r \in Relayers, ok \in BOOLEAN, done \in BOOLEAN :
          LET kind == IF p \in arrived THEN "response" ELSE "error"
          IN  /\ RevertIfError(p, kind, done)
              /\ TransferAcknowledgement(p, r, kind, ok)
              /\ UNCHANGED <<limiter, inflow, charged, arrived, outside>>
    BY <1>4, ZenonT(60) DEF StackAck
  <2>2. CASE p \in arrived
    <3>1. /\ RevertIfError(p, "response", done) /\ TransferAcknowledgement(p, r, "response", ok)
          /\ UNCHANGED <<limiter, inflow, charged, arrived, outside>>
      BY <2>1, <2>2
    <3>2. Acknowledge(p) /\ UNCHANGED <<outflow, undone>>
      BY <3>1 DEF TransferAcknowledgement, RevertIfError
    <3>3. DistributeAcknowledgementFee(bank, r, p) \/ bank' = bank
      BY <3>1 DEF TransferAcknowledgement, Refunded
    <3>4. bank'[Escrow] = bank[Escrow] BY <1>0, <3>3, DistributionElsewhere
    <3>5. Moved(p, "settled") BY <1>0, <3>2, RelayMoves, ZenonT(60)
    <3>6. Confirmed(p) BY <2>2, <3>1, <3>2, <3>4, <3>5 DEF Confirmed, limitVars
    <3> QED BY <3>6 DEF StackShape
  <2>3. CASE p \notin arrived
    <3>1. /\ RevertIfError(p, "error", done) /\ TransferAcknowledgement(p, r, "error", ok)
          /\ UNCHANGED <<limiter, inflow, charged, arrived, outside>>
      BY <2>1, <2>3
    <3>2. /\ Acknowledge(p) /\ CanRefund(packets[p], TRUE)
          /\ \/ DistributeAcknowledgementFee(Refunded(bank, packets[p], TRUE), r, p)
             \/ bank' = Refunded(bank, packets[p], TRUE)
      BY <3>1, ZenonT(60) DEF TransferAcknowledgement
    <3>3. RevertSentPacket(p, done) BY <3>1 DEF RevertIfError
    <3> QED BY <1>3, <2>3, <3>1, <3>2, <3>3, ZenonT(60)
  <2> QED BY <2>2, <2>3
<1>5. CASE StackTimeout
  <2>1. PICK p \in InFlight, r \in Relayers, ok \in BOOLEAN, done \in BOOLEAN :
             /\ RevertSentPacket(p, done) /\ TransferTimeout(p, r, ok)
             /\ UNCHANGED <<limiter, inflow, charged, arrived, outside>>
    BY <1>5, ZenonT(60) DEF StackTimeout
  <2>2. /\ Timeout(p) /\ CanTimeout(p) /\ CanRefund(packets[p], TRUE)
        /\ \/ DistributeTimeoutFee(Refunded(bank, packets[p], TRUE), r, p)
           \/ bank' = Refunded(bank, packets[p], TRUE)
    BY <2>1, ZenonT(60) DEF TransferTimeout
  <2>3. p \notin arrived BY <2>2, ZenonT(60) DEF CanTimeout, LimitTypes
  <2> QED BY <1>3, <2>1, <2>2, <2>3, ZenonT(60)
<1>6. CASE StackReceive
  <2>1. PICK t \in Tokens : Receipt(t) /\ RateLimitRecv(t) BY <1>0, <1>6, ReceiptLemma
  <2>2. Returns(t) BY <1>6, <2>1 DEF Returns, StackReceive
  <2> QED BY <2>2 DEF StackShape
<1>7. CASE ConfigureLimiter \/ StackResubmit \/ StackFeeGovernance \/ UNCHANGED stackVars
  <2>1. Aside
    BY <1>7, ZenonT(60) DEF Aside, LimitTypes, ConfigureLimiter, StackResubmit, Resubmit, StackFeeGovernance,
                FeeGovernance, UpdateFeeParams, stackVars, vars, ibcVars, limitVars
  <2> QED BY <2>1 DEF StackShape
<1> QED BY <1>1, <1>2, <1>4, <1>5, <1>6, <1>7 DEF StackNext

-----------------------------------------------------------------------------
\* The steps keep the types, and what is known of arrived and undone.
LEMMA LimitTypesStep ==
    ASSUME StackBase, StackBase', LimitTypes, StackShape
    PROVE  LimitTypes'
<1>0. /\ \A p \in Packets : packets[p].token \in Coins
      /\ \A p \in Packets : packets[p].status \in {"sent", "received", "settled"}
  BY DEF StackBase, IndInv, TypeOK, IsStore, PacketRecords, Packets
<1>a. \A t \in Tokens : t \in Coins BY ChoicesAssumption
<1>1. ASSUME NEW p, NEW t, Leaves(p, t) PROVE LimitTypes'
  <2>1. /\ New(p, t) /\ RateLimitSend(p, t) /\ UNCHANGED <<limiter, inflow, undone, arrived, outside>>
    BY <1>1 DEF Leaves
  <2>2. outflow' \in [Limiters -> Coins] /\ DOMAIN charged' \subseteq Packets'
    <3>1. CASE limiter = NoLimiter BY <2>1, <3>1, ZenonT(60) DEF RateLimitSend, LimitTypes, New
    <3>2. CASE limiter # NoLimiter
      <4>1. limiter \in Limiters /\ outflow[limiter] \in Coins /\ t \in Coins
        BY <2>1, <3>2 DEF LimitTypes, New
      <4>2. Add(outflow[limiter], t) \in Coins BY <4>1, CoinsArithmetic
      <4>3. /\ outflow' = [outflow EXCEPT ![limiter] = Add(outflow[limiter], t)]
            /\ charged' = Put(charged, p, limiter)
        BY <2>1, <3>2 DEF RateLimitSend
      <4>4. outflow' \in [Limiters -> Coins] BY <4>1, <4>2, <4>3 DEF LimitTypes
      <4>5. DOMAIN charged' \subseteq Packets' BY <2>1, <4>3 DEF LimitTypes, New, Put
      <4> QED BY <4>4, <4>5
    <3> QED BY <3>1, <3>2
  <2>3. InFlight' = InFlight \cup {p} /\ p \notin Packets
    BY <2>1, ZenonT(60) DEF New, InFlight, Packets
  <2>4. arrived' \subseteq {q \in Packets' : packets'[q].status # "sent"}
    BY <2>1 DEF LimitTypes, New
  <2>5. DOMAIN undone' \subseteq Packets' \ (InFlight' \cup arrived')
    BY <2>1, <2>3 DEF LimitTypes, New
  <2> QED BY <2>1, <2>2, <2>4, <2>5, ZenonT(60) DEF LimitTypes
<1>2. ASSUME NEW p, NEW st \in {"received", "settled"}, Moved(p, st)
      PROVE  /\ Packets' = Packets
             /\ p \in Packets /\ packets'[p].status # "sent"
             /\ InFlight' = IF st = "settled" THEN InFlight \ {p} ELSE InFlight
             /\ \A q \in arrived : packets'[q].status # "sent"
  BY <1>2 DEF Moved, InFlight, LimitTypes, Packets
<1>3. ASSUME NEW p \in InFlight, Credited(p) PROVE LimitTypes'
  <2>1. /\ Moved(p, "received") /\ arrived' = arrived \cup {p}
        /\ outside' = Add(outside, packets[p].token) /\ UNCHANGED limitVars
    BY <1>3 DEF Credited
  <2>2. Packets' = Packets /\ InFlight' = InFlight /\ packets'[p].status # "sent"
        /\ \A q \in arrived : packets'[q].status # "sent"
    BY <1>2, <2>1
  <2>3. outside' \in Coins BY <1>0, <2>1, CoinsArithmetic, ZenonT(60) DEF LimitTypes, InFlight
  <2> QED BY <2>1, <2>2, <2>3 DEF LimitTypes, limitVars, InFlight
<1>4. ASSUME NEW p \in InFlight, Refused(p) \/ Confirmed(p) PROVE LimitTypes'
  <2>1. (Moved(p, "received") \/ Moved(p, "settled")) /\ UNCHANGED <<limitVars, arrived, outside>>
    BY <1>4 DEF Refused, Confirmed
  <2>2. Packets' = Packets /\ InFlight' \subseteq InFlight
        /\ \A q \in arrived : packets'[q].status # "sent"
    BY <1>2, <2>1
  <2> QED BY <2>1, <2>2, ZenonT(60) DEF LimitTypes, limitVars
<1>5. ASSUME NEW p \in InFlight, ComesBack(p) PROVE LimitTypes'
  <2>1. Moved(p, "settled") /\ p \notin arrived /\ UNCHANGED <<limiter, inflow, charged, arrived, outside>>
    BY <1>5, ZenonT(60) DEF ComesBack
  <2>2. PICK done \in BOOLEAN : RevertSentPacket(p, done) BY <1>5 DEF ComesBack
  <2>3. Packets' = Packets /\ InFlight' = InFlight \ {p}
        /\ \A q \in arrived : packets'[q].status # "sent"
    BY <1>2, <2>1
  <2>4. outflow' \in [Limiters -> Coins] /\ DOMAIN undone' \subseteq DOMAIN undone \cup {p}
    <3>1. CASE limiter = NoLimiter \/ ~done BY <2>2, <3>1 DEF RevertSentPacket, LimitTypes
    <3>2. CASE limiter # NoLimiter /\ done
      <4>1. limiter \in Limiters /\ outflow[limiter] \in Coins /\ packets[p].token \in Coins
        BY <1>0, <3>2 DEF LimitTypes, InFlight
      <4>2. SaturatingSub(outflow[limiter], packets[p].token) \in Coins
        BY <4>1 DEF SaturatingSub, Coins
      <4>3. /\ outflow' = [outflow EXCEPT ![limiter] = SaturatingSub(outflow[limiter], packets[p].token)]
            /\ undone' = Put(undone, p, limiter)
        BY <2>2, <3>2 DEF RevertSentPacket
      <4>4. outflow' \in [Limiters -> Coins] BY <4>1, <4>2, <4>3 DEF LimitTypes
      <4> QED BY <4>3, <4>4 DEF Put
    <3> QED BY <3>1, <3>2
  <2>5. DOMAIN undone' \subseteq Packets' \ (InFlight' \cup arrived')
    BY <2>1, <2>3, <2>4 DEF LimitTypes, InFlight
  <2> QED BY <2>1, <2>3, <2>4, <2>5 DEF LimitTypes
<1>6. ASSUME NEW t \in Tokens, Returns(t) PROVE LimitTypes'
  <2>1. /\ Covers(outside, t) /\ outside' = Sub(outside, t) /\ packets' = packets
        /\ RateLimitRecv(t) /\ UNCHANGED <<limiter, outflow, charged, undone, arrived>>
    BY <1>6 DEF Returns, Receipt, ibcVars
  <2>2. outside' \in Coins BY <1>a, <2>1, CoinsArithmetic DEF LimitTypes
  <2>3. inflow' \in [Limiters -> Coins]
    <3>1. CASE limiter = NoLimiter BY <2>1, <3>1 DEF RateLimitRecv, LimitTypes
    <3>2. CASE limiter # NoLimiter
      <4>1. limiter \in Limiters /\ inflow[limiter] \in Coins BY <3>2 DEF LimitTypes
      <4>2. Add(inflow[limiter], t) \in Coins BY <1>a, <4>1, CoinsArithmetic
      <4>3. inflow' = [inflow EXCEPT ![limiter] = Add(inflow[limiter], t)]
        BY <2>1, <3>2 DEF RateLimitRecv
      <4> QED BY <4>1, <4>2, <4>3 DEF LimitTypes
    <3> QED BY <3>1, <3>2
  <2> QED BY <2>1, <2>2, <2>3, ZenonT(60) DEF LimitTypes, InFlight, Packets
<1>7. ASSUME Aside PROVE LimitTypes'
  BY <1>7, ZenonT(60) DEF Aside, LimitTypes, InFlight, Packets
<1> QED BY <1>1, <1>3, <1>4, <1>5, <1>6, <1>7 DEF StackShape

-----------------------------------------------------------------------------
\* The escrow account changes as the vouchers and the refundable packets do.
LEMMA BackedStep ==
    ASSUME StackBase, StackBase', LimitTypes, LimitTypes', TokensBacked, StackShape
    PROVE  TokensBacked'
<1> DEFINE A == InFlight \ arrived
           A2 == InFlight' \ arrived'
<1>0. /\ IndInv /\ IndInv' /\ bank[Escrow] \in Coins /\ bank'[Escrow] \in Coins
      /\ outside \in Coins /\ outside' \in Coins
  BY EscrowAssumption, ZenonT(60) DEF StackBase, IndInv, TypeOK, LimitTypes
<1>1. \A d \in Denoms : bank[Escrow][d] = outside[d] + TokenSum(packets, A, d)
  BY ZenonT(60) DEF TokensBacked, TokensOf, TokenSum
<1>2. SUFFICES ASSUME NEW d \in Denoms
               PROVE  bank'[Escrow][d] = outside'[d] + TokenSum(packets', A2, d)
  BY DEF TokensBacked, TokensOf, TokenSum
<1>3. HasTokens(packets, A) /\ HasTokens(packets', A2)
  <2>1. HasTokens(packets, A) BY <1>0, PacketsHaveTokens, ZenonT(60) DEF InFlight
  <2>2. HasTokens(packets', A2) BY <1>0, PrimedTokens DEF InFlight
  <2> QED BY <2>1, <2>2
<1>4. /\ TokenSum(packets, A, d) \in Nat /\ TokenSum(packets', A2, d) \in Nat
      /\ bank[Escrow][d] \in Nat /\ outside[d] \in Nat
      /\ bank[Escrow][d] = outside[d] + TokenSum(packets, A, d)
  BY <1>0, <1>1, <1>3, TokensFinite, ZenonT(60) DEF Coins
<1>5. A \subseteq Packets BY DEF InFlight
<1> HIDE DEF A, A2
<1>6. ASSUME NEW p, NEW t, Leaves(p, t)
      PROVE  bank'[Escrow][d] = outside'[d] + TokenSum(packets', A2, d)
  <2>1. New(p, t) /\ bank'[Escrow] = Add(bank[Escrow], t) /\ arrived' = arrived /\ outside' = outside
    BY <1>6, ZenonT(60) DEF Leaves
  <2>2. InFlight' = InFlight \cup {p} /\ p \notin Packets
    BY <2>1, ZenonT(60) DEF New, InFlight, Packets
  <2>3. A2 = A \cup {p} /\ p \notin A BY <1>5, <2>1, <2>2, ZenonT(60) DEF A, A2, LimitTypes
  <2>4. TokenSum(packets', A2, d) = TokenSum(packets', A, d) + t[d]
    <3>1. packets'[p].token = t BY <2>1 DEF New
    <3> QED BY <1>3, <2>3, <3>1, TokensAdd, ZenonT(60)
  <2>5. TokenSum(packets', A, d) = TokenSum(packets, A, d)
    <3>1. \A q \in A : packets'[q].token = packets[q].token BY <1>5, <2>1 DEF New
    <3> QED BY <3>1, TokensSame
  <2>6. bank'[Escrow][d] = bank[Escrow][d] + t[d] /\ t[d] \in Nat
    BY <2>1 DEF Add, New, Coins
  <2> QED BY <1>4, <2>1, <2>4, <2>5, <2>6
<1>7. ASSUME NEW p, NEW st, Moved(p, st)
      PROVE  \A S : S \subseteq Packets => TokenSum(packets', S, d) = TokenSum(packets, S, d)
  <2>1. \A q \in Packets : packets'[q].token = packets[q].token BY <1>7 DEF Moved
  <2> QED BY <2>1, TokensSame
<1>8. ASSUME NEW p \in InFlight, p \notin arrived, A2 = A \ {p}, NEW st, Moved(p, st)
      PROVE  /\ TokenSum(packets, A, d) = TokenSum(packets', A2, d) + packets[p].token[d]
             /\ packets[p].token[d] \in Nat
  <2>1. p \in A BY <1>8 DEF A
  <2>2. TokenSum(packets, A, d) = TokenSum(packets, A2, d) + packets[p].token[d]
    BY <1>3, <1>8, <2>1, TokensCut, ZenonT(60)
  <2>3. TokenSum(packets', A2, d) = TokenSum(packets, A2, d) BY <1>5, <1>7, <1>8
  <2>4. packets[p].token[d] \in Nat BY <1>3, <2>1 DEF HasTokens, Coins
  <2> QED BY <2>2, <2>3, <2>4
<1>9. ASSUME NEW p \in InFlight, Credited(p)
      PROVE  bank'[Escrow][d] = outside'[d] + TokenSum(packets', A2, d)
  <2>1. /\ Moved(p, "received") /\ arrived' = arrived \cup {p} /\ packets[p].status = "sent"
        /\ outside' = Add(outside, packets[p].token) /\ bank'[Escrow] = bank[Escrow]
    BY <1>9 DEF Credited
  <2>2. InFlight' = InFlight BY <2>1 DEF Moved, InFlight, Packets
  <2>3. p \notin arrived /\ A2 = A \ {p} BY <2>1, <2>2, ZenonT(60) DEF A, A2, LimitTypes
  <2>4. /\ TokenSum(packets, A, d) = TokenSum(packets', A2, d) + packets[p].token[d]
        /\ packets[p].token[d] \in Nat
    BY <1>8, <2>1, <2>3, ZenonT(60)
  <2>5. outside'[d] = outside[d] + packets[p].token[d] BY <2>1, ZenonT(60) DEF Add
  <2> QED BY <1>4, <2>1, <2>4, <2>5
<1>10. ASSUME NEW p \in InFlight, ComesBack(p)
       PROVE  bank'[Escrow][d] = outside'[d] + TokenSum(packets', A2, d)
  <2>1. /\ Moved(p, "settled") /\ arrived' = arrived /\ p \notin arrived /\ outside' = outside
        /\ bank'[Escrow] = Sub(bank[Escrow], packets[p].token)
    BY <1>10 DEF ComesBack
  <2>2. InFlight' = InFlight \ {p} BY <2>1 DEF Moved, InFlight, Packets
  <2>3. A2 = A \ {p} BY <2>1, <2>2 DEF A, A2
  <2>4. /\ TokenSum(packets, A, d) = TokenSum(packets', A2, d) + packets[p].token[d]
        /\ packets[p].token[d] \in Nat
    BY <1>8, <2>1, <2>3, ZenonT(60)
  <2>5. bank'[Escrow][d] = bank[Escrow][d] - packets[p].token[d] BY <2>1 DEF Sub
  <2> QED BY <1>4, <2>1, <2>4, <2>5
<1>11. ASSUME NEW p \in InFlight, Refused(p) \/ Confirmed(p)
       PROVE  bank'[Escrow][d] = outside'[d] + TokenSum(packets', A2, d)
  <2>1. arrived' = arrived /\ outside' = outside /\ bank'[Escrow] = bank[Escrow]
    BY <1>11 DEF Refused, Confirmed
  <2>2. \E st : Moved(p, st) BY <1>11 DEF Refused, Confirmed
  <2>3. A2 = A
    <3>1. CASE Refused(p)
      <4>1. InFlight' = InFlight BY <3>1 DEF Refused, Moved, InFlight, Packets
      <4> QED BY <2>1, <4>1 DEF A, A2
    <3>2. CASE Confirmed(p)
      <4>1. InFlight' = InFlight \ {p} /\ p \in arrived
        BY <3>2 DEF Confirmed, Moved, InFlight, Packets
      <4> QED BY <2>1, <4>1 DEF A, A2
    <3> QED BY <1>11, <3>1, <3>2
  <2>4. TokenSum(packets', A, d) = TokenSum(packets, A, d) BY <1>5, <1>7, <2>2
  <2> QED BY <1>4, <2>1, <2>3, <2>4, ZenonT(60)
<1>12. ASSUME NEW t \in Tokens, Returns(t)
       PROVE  bank'[Escrow][d] = outside'[d] + TokenSum(packets', A2, d)
  <2>1. /\ packets' = packets /\ arrived' = arrived
        /\ outside' = Sub(outside, t) /\ bank'[Escrow] = Sub(bank[Escrow], t)
    BY <1>12 DEF Returns, Receipt, ibcVars
  <2>2. A2 = A BY <2>1 DEF A, A2, InFlight, Packets
  <2>3. t[d] \in Nat BY ChoicesAssumption DEF Coins
  <2>4. outside'[d] = outside[d] - t[d] /\ bank'[Escrow][d] = bank[Escrow][d] - t[d]
    BY <2>1 DEF Sub
  <2> QED BY <1>4, <2>1, <2>2, <2>3, <2>4
<1>13. ASSUME Aside PROVE bank'[Escrow][d] = outside'[d] + TokenSum(packets', A2, d)
  <2>1. /\ packets' = packets /\ arrived' = arrived /\ outside' = outside
        /\ bank'[Escrow] = bank[Escrow]
    BY <1>13 DEF Aside
  <2>2. A2 = A BY <2>1 DEF A, A2, InFlight, Packets
  <2> QED BY <1>4, <2>1, <2>2
<1> QED BY <1>6, <1>9, <1>10, <1>11, <1>12, <1>13, ZenonT(60) DEF StackShape

-----------------------------------------------------------------------------
\* What QuotaInv says of one limiter and one denomination.
QuotaOf(out, in, kept, foreign, max) == out <= max + in /\ kept <= out + foreign

\* The tokens of a packet that exists do not change.
LEMMA TokensStay ==
    ASSUME StackShape
    PROVE  \A q \in Packets : packets'[q].token = packets[q].token
BY ZenonT(60) DEF StackShape, Leaves, Credited, Refused, ComesBack, Confirmed, Returns, Receipt, Aside,
       New, Moved, ibcVars

\* Admissions add to the counter what they add to the packets kept, and what
\* is taken back leaves the counter and the packets kept together.
LEMMA QuotaStep ==
    ASSUME StackBase, StackBase', LimitTypes, LimitTypes', QuotaInv, StackShape
    PROVE  QuotaInv'
<1> SUFFICES ASSUME NEW l \in Limiters, NEW d \in Denoms
             PROVE  QuotaOf(outflow'[l][d], inflow'[l][d], TokenSum(packets', Kept(l)', d),
                            TokenSum(packets', Foreign(l)', d), MaxOut[d])
  BY ZenonT(60) DEF QuotaInv, QuotaOf
<1> DEFINE K == Kept(l)
           F == Foreign(l)
           K2 == Kept(l)'
           F2 == Foreign(l)'
<1>0. /\ IndInv /\ IndInv'
      /\ outflow[l] \in Coins /\ inflow[l] \in Coins /\ outflow'[l] \in Coins /\ inflow'[l] \in Coins
  BY ZenonT(60) DEF StackBase, LimitTypes
<1>1. K \subseteq Packets /\ F \subseteq Packets /\ K2 \subseteq Packets' /\ F2 \subseteq Packets'
  BY DEF Kept, Foreign, LimitTypes
<1>2. HasTokens(packets, K) /\ HasTokens(packets, F) /\ HasTokens(packets', K2) /\ HasTokens(packets', F2)
  BY <1>0, <1>1, PacketsHaveTokens, PrimedTokens, ZenonT(60)
<1>3. /\ TokenSum(packets, K, d) \in Nat /\ TokenSum(packets, F, d) \in Nat
      /\ TokenSum(packets', K2, d) \in Nat /\ TokenSum(packets', F2, d) \in Nat
      /\ outflow[l][d] \in Nat /\ inflow[l][d] \in Nat
      /\ outflow'[l][d] \in Nat /\ inflow'[l][d] \in Nat /\ MaxOut[d] \in Nat
  BY <1>0, <1>2, TokensFinite, StackAssumption, ZenonT(60) DEF Coins
<1>4. /\ outflow[l][d] <= MaxOut[d] + inflow[l][d]
      /\ TokenSum(packets, K, d) <= outflow[l][d] + TokenSum(packets, F, d)
  BY ZenonT(60) DEF QuotaInv
<1>5. TokenSum(packets', K, d) = TokenSum(packets, K, d)
      /\ TokenSum(packets', F, d) = TokenSum(packets, F, d)
  BY <1>1, TokensStay, TokensSame
<1> HIDE DEF K, F, K2, F2
<1>a. ASSUME NEW p, p \notin F, NEW T, T = F \cup {p}, HasTokens(packets', T),
             NEW t, packets'[p].token = t
      PROVE  TokenSum(packets', T, d) = TokenSum(packets', F, d) + t[d]
  BY <1>a, TokensAdd, ZenonT(60)
<1> DEFINE Goal == QuotaOf(outflow'[l][d], inflow'[l][d], TokenSum(packets', K2, d),
                           TokenSum(packets', F2, d), MaxOut[d])
<1>6. SUFFICES Goal BY ZenonT(60) DEF K2, F2
<1>7. ASSUME outflow'[l][d] = outflow[l][d], inflow'[l][d] >= inflow[l][d], K2 = K, F2 = F
      PROVE  Goal
  BY <1>3, <1>4, <1>5, <1>7 DEF QuotaOf
<1>8. ASSUME outflow' = outflow, charged' = charged, undone' = undone,
             inflow'[l][d] >= inflow[l][d]
      PROVE  Goal
  <2>1. K2 = K /\ F2 = F BY <1>8, ZenonT(60) DEF K, F, K2, F2, Kept, Foreign
  <2> QED BY <1>7, <1>8, <2>1, ZenonT(60)
<1>9. ASSUME NEW p, NEW t, Leaves(p, t) PROVE Goal
  <2>1. New(p, t) /\ RateLimitSend(p, t) /\ inflow' = inflow /\ undone' = undone /\ t \in Coins
    BY <1>9 DEF Leaves, New
  <2>2. p \notin DOMAIN charged /\ p \notin DOMAIN undone /\ p \notin K
    BY <2>1, <1>1, ZenonT(60) DEF New, LimitTypes, K
  <2>3. CASE limiter = NoLimiter
    <3>1. outflow' = outflow /\ charged' = charged BY <2>1, <2>3 DEF RateLimitSend
    <3> QED BY <1>3, <1>8, <2>1, <3>1
  <2>4. CASE limiter # NoLimiter
    <3>1. /\ AdmitsSend(limiter, t) /\ charged' = Put(charged, p, limiter)
          /\ outflow' = [outflow EXCEPT ![limiter] = Add(outflow[limiter], t)]
      BY <2>1, <2>4 DEF RateLimitSend
    <3>2. F2 = F
      BY <2>1, <2>2, <3>1, ZenonT(60) DEF F, F2, Foreign, Put
    <3>3. CASE limiter = l
      <4>1. K2 = K \cup {p} BY <2>1, <2>2, <3>1, <3>3, ZenonT(60) DEF K, K2, Kept, Put
      <4>2. TokenSum(packets', K2, d) = TokenSum(packets', K, d) + t[d]
        <5>1. packets'[p].token = t BY <2>1 DEF New
        <5> QED BY <1>2, <2>2, <4>1, <5>1, TokensAdd, ZenonT(60)
      <4>3. outflow' = [outflow EXCEPT ![l] = Add(outflow[l], t)] BY <3>1, <3>3
      <4>4. outflow'[l][d] = outflow[l][d] + t[d] /\ t[d] \in Nat
        BY <2>1, <4>3, ZenonT(60) DEF LimitTypes, Add, Coins
      <4>5. MaxOut[d] + inflow[l][d] >= outflow[l][d] + t[d]
        BY <3>1, <3>3, ZenonT(60) DEF AdmitsSend, Covers, Add
      <4> QED BY <1>3, <1>4, <1>5, <2>1, <3>2, <4>2, <4>4, <4>5 DEF QuotaOf
    <3>4. CASE limiter # l
      <4>1. K2 = K BY <2>1, <2>2, <3>1, <3>4, ZenonT(60) DEF K, K2, Kept, Put
      <4>2. outflow'[l] = outflow[l] BY <3>1, <3>4, ZenonT(60) DEF LimitTypes
      <4> QED BY <1>3, <1>7, <2>1, <3>2, <4>1, <4>2
    <3> QED BY <3>3, <3>4, ZenonT(60)
  <2> QED BY <2>3, <2>4, ZenonT(60)
<1>10. ASSUME NEW p \in InFlight, ComesBack(p) PROVE Goal
  <2>1. PICK done \in BOOLEAN : RevertSentPacket(p, done) BY <1>10, ZenonT(60) DEF ComesBack
  <2>2. charged' = charged /\ inflow' = inflow BY <1>10 DEF ComesBack
  <2>3. p \notin DOMAIN undone /\ p \notin F BY DEF LimitTypes, F, Foreign
  <2>4. CASE limiter = NoLimiter \/ ~done
    <3>1. outflow' = outflow /\ undone' = undone BY <2>1, <2>4 DEF RevertSentPacket
    <3> QED BY <1>3, <1>8, <2>2, <3>1
  <2>5. CASE limiter # NoLimiter /\ done
    <3> DEFINE t == packets[p].token
    <3>1. /\ outflow' = [outflow EXCEPT ![limiter] = SaturatingSub(outflow[limiter], t)]
          /\ undone' = Put(undone, p, limiter)
      BY <2>1, <2>5 DEF RevertSentPacket
    <3>a. p \in Packets /\ packets'[p].token = t BY TokensStay DEF InFlight
    <3>2. CASE limiter # l
      <4>1. K2 = K /\ F2 = F BY <2>2, <2>3, <3>1, <3>2, ZenonT(60) DEF K, K2, F, F2, Kept, Foreign, Put
      <4>2. outflow'[l] = outflow[l] BY <3>1, <3>2, ZenonT(60) DEF LimitTypes
      <4> QED BY <1>3, <1>7, <2>2, <4>1, <4>2
    <3>3. CASE limiter = l
      <4>1. outflow'[l][d] = IF outflow[l][d] >= t[d] THEN outflow[l][d] - t[d] ELSE 0
        <5>1. outflow' = [outflow EXCEPT ![l] = SaturatingSub(outflow[l], t)] BY <3>1, <3>3
        <5>2. outflow'[l] = SaturatingSub(outflow[l], t) BY <5>1 DEF LimitTypes
        <5> QED BY <5>2 DEF SaturatingSub
      <4>2. t[d] \in Nat
        <5>1. HasTokens(packets, Packets) BY <1>0, PacketsHaveTokens
        <5> QED BY <3>a, <5>1 DEF HasTokens, Coins
      <4>3. CASE p \in DOMAIN charged /\ charged[p] = l
        <5>1. p \in K /\ K2 = K \ {p} /\ F2 = F
          BY <2>2, <2>3, <3>1, <3>3, <4>3, ZenonT(60) DEF K, K2, F, F2, Kept, Foreign, Put
        <5>2. TokenSum(packets, K, d) = TokenSum(packets, K2, d) + t[d]
          BY <1>2, <5>1, TokensCut, ZenonT(60)
        <5>3. TokenSum(packets', K2, d) = TokenSum(packets, K2, d)
          BY <1>1, <5>1, TokensStay, TokensSame DEF K
        <5> HIDE DEF t
        <5> QED BY <1>3, <1>4, <1>5, <2>2, <4>1, <4>2, <5>1, <5>2, <5>3 DEF QuotaOf
      <4>4. CASE ~(p \in DOMAIN charged /\ charged[p] = l)
        <5>1. K2 = K /\ F2 = F \cup {p}
          BY <2>2, <2>3, <3>1, <3>3, <4>4, ZenonT(60) DEF K, K2, F, F2, Kept, Foreign, Put
        <5>2. TokenSum(packets', F2, d) = TokenSum(packets', F, d) + t[d]
          BY <1>2, <1>a, <2>3, <3>a, <5>1, ZenonT(60)
        <5> HIDE DEF t
        <5> QED BY <1>3, <1>4, <1>5, <2>2, <4>1, <4>2, <5>1, <5>2 DEF QuotaOf
      <4> QED BY <4>3, <4>4, ZenonT(60)
    <3> QED BY <3>2, <3>3, ZenonT(60)
  <2> QED BY <2>4, <2>5, ZenonT(60)
<1>11. ASSUME NEW p, Credited(p) \/ Refused(p) \/ Confirmed(p) PROVE Goal
  <2>1. UNCHANGED limitVars BY <1>11 DEF Credited, Refused, Confirmed
  <2> QED BY <1>3, <1>8, <2>1 DEF limitVars
<1>12. ASSUME NEW t \in Tokens, Returns(t) PROVE Goal
  <2>1. RateLimitRecv(t) /\ outflow' = outflow /\ charged' = charged /\ undone' = undone
    BY <1>12 DEF Returns
  <2>2. inflow'[l][d] >= inflow[l][d]
    <3>1. CASE limiter = l /\ limiter # NoLimiter
      <4>1. inflow' = [inflow EXCEPT ![l] = Add(inflow[l], t)] BY <2>1, <3>1 DEF RateLimitRecv
      <4>2. inflow'[l][d] = inflow[l][d] + t[d] BY <4>1 DEF LimitTypes, Add
      <4>3. t[d] \in Nat BY ChoicesAssumption DEF Coins
      <4> QED BY <1>3, <4>2, <4>3
    <3>2. CASE ~(limiter = l /\ limiter # NoLimiter)
      <4>1. inflow'[l] = inflow[l] BY <2>1, <3>2 DEF RateLimitRecv, LimitTypes
      <4> QED BY <1>3, <4>1
    <3> QED BY <3>1, <3>2
  <2> QED BY <1>8, <2>1, <2>2, ZenonT(60)
<1>13. ASSUME Aside PROVE Goal
  <2>1. UNCHANGED <<outflow, inflow, charged, undone>> BY <1>13 DEF Aside
  <2> QED BY <1>3, <1>8, <2>1
<1> QED BY <1>9, <1>10, <1>11, <1>12, <1>13, ZenonT(60) DEF StackShape

\* The invariant of the stack is inductive.
LEMMA StackInvStep == StackInv /\ [StackNext]_stackVars => StackInv'
<1> SUFFICES ASSUME StackInv, [StackNext]_stackVars PROVE StackInv' OBVIOUS
<1>0. StackBase /\ LimitTypes /\ TokensBacked /\ QuotaInv BY DEF StackInv
<1>1. StackBase' BY <1>0, StackBaseStep
<1>2. StackShape BY <1>0, EveryStackStep
<1>3. LimitTypes' BY <1>0, <1>1, <1>2, LimitTypesStep
<1>4. TokensBacked' BY <1>0, <1>1, <1>2, <1>3, BackedStep
<1>5. QuotaInv' BY <1>0, <1>1, <1>2, <1>3, QuotaStep
<1> QED BY <1>1, <1>3, <1>4, <1>5 DEF StackInv

\* A limiter keeps counting what it admitted and was not refunded.
LEMMA QuotaBounds == StackInv => OutflowWithinQuota
<1> SUFFICES ASSUME StackBase, LimitTypes, QuotaInv, NEW l \in Limiters, NEW d \in Denoms
             PROVE  SumOf(TokensOf({p \in DOMAIN charged : charged[p] = l /\ Gone(p)}, d))
                      <= MaxOut[d] + inflow[l][d] + SumOf(TokensOf(Foreign(l), d))
  BY DEF StackInv, OutflowWithinQuota, Foreign
<1> DEFINE admitted == {p \in DOMAIN charged : charged[p] = l /\ Gone(p)}
<1>1. admitted \subseteq Kept(l) BY DEF LimitTypes, Gone, Kept
<1>2. Kept(l) \subseteq Packets /\ Foreign(l) \subseteq Packets BY DEF Kept, Foreign, LimitTypes
<1>3. HasTokens(packets, Kept(l)) /\ HasTokens(packets, Foreign(l)) /\ HasTokens(packets, admitted)
  BY <1>1, <1>2, PacketsHaveTokens DEF StackBase
<1> HIDE DEF admitted
<1>4. TokenSum(packets, admitted, d) <= TokenSum(packets, Kept(l), d)
  BY <1>1, <1>3, TokensPart
<1>5. /\ outflow[l][d] <= MaxOut[d] + inflow[l][d]
      /\ TokenSum(packets, Kept(l), d) <= outflow[l][d] + TokenSum(packets, Foreign(l), d)
  BY DEF QuotaInv
<1>6. /\ TokenSum(packets, admitted, d) \in Nat /\ TokenSum(packets, Kept(l), d) \in Nat
      /\ TokenSum(packets, Foreign(l), d) \in Nat
      /\ outflow[l][d] \in Nat /\ inflow[l][d] \in Nat /\ MaxOut[d] \in Nat
  <2>1. /\ TokenSum(packets, admitted, d) \in Nat /\ TokenSum(packets, Kept(l), d) \in Nat
        /\ TokenSum(packets, Foreign(l), d) \in Nat
    BY <1>3, TokensFinite, ZenonT(60)
  <2>2. outflow[l] \in Coins /\ inflow[l] \in Coins /\ MaxOut \in Coins
    BY StackAssumption DEF LimitTypes
  <2> QED BY <2>1, <2>2 DEF Coins
<1>7. TokenSum(packets, admitted, d) <= MaxOut[d] + inflow[l][d] + TokenSum(packets, Foreign(l), d)
  BY <1>4, <1>5, <1>6
<1> QED BY <1>7 DEF TokenSum, TokensOf, admitted

\* The escrow account holds exactly the tokens that are outside or may still
\* be refunded, for any number of transfers, outcomes, receipts and hook
\* failures: every refund and every receipt that is due can be paid.
THEOREM TokensAreBacked == StackSpec => []TokensBacked
<1>1. StackInv => TokensBacked BY DEF StackInv
<1> QED BY <1>1, StackInvInit, StackInvStep, PTL DEF StackSpec

\* Whatever governance configures and however many undo calls are swallowed,
\* what a limiter admitted and is still away exceeds its net quota by no more
\* than the packets it took back without having admitted them.
THEOREM QuotaHolds == StackSpec => []OutflowWithinQuota
BY QuotaBounds, StackInvInit, StackInvStep, PTL DEF StackSpec

=============================================================================
