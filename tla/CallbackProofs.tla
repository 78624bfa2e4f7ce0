---------------------------- MODULE CallbackProofs ----------------------------
(***************************************************************************)
(* Callbacks are delivered exactly once.  A callback is due for a packet   *)
(* of a contract once the packet is settled, and for a channel once it has *)
(* left the state INIT; the invariant says that exactly the due callbacks  *)
(* were committed or stored as a failure.  The links between channels,     *)
(* ports and senders show that the contract called is the one that waits.  *)
(*                                                                         *)
(* The fee refunder is the abstract escrow of FeeEscrow.                   *)
(*                                                                         *)
(* Both are shown for NeutronIBC and under the layers of TransferStack.    *)
(***************************************************************************)
EXTENDS NeutronIBCProofs, WellFoundedInduction

\* How long the provers may take for a leaf, in seconds, and with no types.
USE SMTT(30), ZenonT(30), Untyped

\* What a callback may be about: a packet, or <<ch, 0>> for a channel.
Due ==
    {p \in Packets : packets[p].status = "settled" /\ packets[p].sender \in Contracts}
    \cup {x \in ChannelIds \X {0} :
             x[1] # 0 /\ x[1] \in DOMAIN channels /\ channels[x[1]].state # "INIT"}

Owner(x) == IF x[2] = 0 THEN ICAOwnerFromPort(channels[x[1]].port) ELSE packets[x].sender

CallsOK == \A x : IF x \in Due THEN DeliveredOnce(x, Owner(x)) ELSE NotDelivered(x)

\* The ids of a contract's failures are natural numbers below some bound.
FailureIdsOK ==
    /\ DOMAIN failures = Contracts
    /\ \A c \in Contracts : \E n \in Nat : DOMAIN failures[c] \subseteq 0..n

\* Channel 0 is the open transfer channel, every other one belongs to a
\* contract; packets are sent on channels that were opened, on an ICA channel
\* by its owner; an active channel has the port it is active for.
LinksOK ==
    /\ 0 \in DOMAIN channels /\ channels[0].port = TransferPort /\ channels[0].state # "INIT"
    /\ \A ch \in DOMAIN channels \ {0} : channels[ch].port \in Contracts \X IcaIds
    /\ \A p \in Packets : /\ channels[p[1]].state # "INIT"
                          /\ p[1] # 0 => packets[p].sender = channels[p[1]].port[1]
    /\ \A port \in DOMAIN active : channels[active[port]].port = port

\* A bounded, non-empty set of natural numbers has a largest element.
LEMMA LargestNatural ==
    ASSUME NEW S, S # {}, NEW n \in Nat, S \subseteq 0..n
    PROVE  \E m \in S : \A x \in S : x <= m
<1> DEFINE U == {k \in Nat : \A x \in S : x <= k}
<1>1. U \subseteq Nat /\ U # {}
  <2>1. n \in U OBVIOUS
  <2> QED BY <2>1
<1> DEFINE R == {ss \in Nat \X Nat : ss[1] < ss[2]}
<1>2. IsWellFoundedOn(R, Nat) BY NatLessThanWellFounded, ZenonT(60) DEF OpToRel
<1>3. \A a, b \in Nat : a < b => <<a, b>> \in R OBVIOUS
<1> HIDE DEF R, U
<1>4. PICK m \in U : \A y \in U : ~ (<<y, m>> \in R)
  BY <1>1, <1>2, WFMin, ZenonT(60)
<1>5. m \in Nat /\ \A x \in S : x <= m BY <1>4 DEF U
<1>6. m \in S
  <2> SUFFICES ASSUME m \notin S PROVE FALSE OBVIOUS
  <2>1. \A x \in S : x \in Nat /\ x < m BY <1>5
  <2>2. m # 0
    <3>1. PICK x \in S : TRUE BY ZenonT(60)
    <3> QED BY <1>5, <2>1, <3>1
  <2>3. m - 1 \in U BY <1>5, <2>1, <2>2 DEF U
  <2>4. <<m - 1, m>> \in R BY <1>3, <1>5, <2>2
  <2> QED BY <1>4, <2>3, <2>4
<1> QED BY <1>5, <1>6

\* The id a failure is stored under is not in use.
LEMMA NextIdIsNew ==
    ASSUME FailureIdsOK, NEW c \in Contracts
    PROVE  /\ GetNextFailureIDKey(c) \in Nat
           /\ GetNextFailureIDKey(c) \notin DOMAIN failures[c]
           /\ DOMAIN failures[c] \subseteq 0..GetNextFailureIDKey(c)
<1>1. PICK n \in Nat : DOMAIN failures[c] \subseteq 0..n BY DEF FailureIdsOK
<1>2. CASE DOMAIN failures[c] = {} BY <1>2 DEF GetNextFailureIDKey
<1>3. CASE DOMAIN failures[c] # {}
  <2> DEFINE IsMax(id) == \A x \in DOMAIN failures[c] : x <= id
             max == CHOOSE id \in DOMAIN failures[c] : IsMax(id)
  <2>1. \E id \in DOMAIN failures[c] : IsMax(id) BY <1>1, <1>3, LargestNatural
  <2>2. max \in DOMAIN failures[c] /\ IsMax(max) BY <2>1
  <2>3. GetNextFailureIDKey(c) = 1 + max BY <1>3 DEF GetNextFailureIDKey
  <2> HIDE DEF max
  <2>4. max \in Nat BY <1>1, <2>2
  <2> QED BY <1>1, <2>2, <2>3, <2>4
<1> QED BY <1>2, <1>3

-----------------------------------------------------------------------------
\* Nothing but the listed sets matters for a delivery.
LEMMA DeliveryCarries ==
    ASSUME NEW x, NEW owner \in Contracts, DeliveredOnce(x, owner),
           DOMAIN failures = Contracts, DOMAIN failures' = Contracts,
           StoredFailures(x)' = StoredFailures(x), Executed(x)' = Executed(x)
    PROVE  DeliveredOnce(x, owner)'
<1>1. CASE Executed(x) = {}
  <2>1. PICK id \in DOMAIN failures[owner] : StoredFailures(x) = {<<owner, id>>}
    BY <1>1 DEF DeliveredOnce
  <2>2. <<owner, id>> \in StoredFailures(x)' BY <2>1
  <2>3. id \in DOMAIN failures'[owner] BY <2>2 DEF StoredFailures
  <2> QED BY <1>1, <2>1, <2>3 DEF DeliveredOnce
<1>2. CASE Executed(x) # {}
  <2>1. StoredFailures(x) = {} /\ \E payload \in DOMAIN handled : Executed(x) = {payload}
    BY <1>2 DEF DeliveredOnce
  <2>2. PICK payload : Executed(x) = {payload} BY <2>1
  <2>3. payload \in DOMAIN handled' BY <2>2 DEF Executed
  <2> QED BY <1>2, <2>1, <2>2, <2>3 DEF DeliveredOnce
<1> QED BY <1>1, <1>2

\* A step that calls nobody and makes nothing due.
LEMMA NoDelivery ==
    ASSUME CallsOK, FailureIdsOK, failures' = failures, handled' = handled,
           Due' = Due, \A x \in Due : Owner(x)' = Owner(x)
    PROVE  CallsOK' /\ FailureIdsOK'
<1>1. \A x : StoredFailures(x)' = StoredFailures(x) /\ Executed(x)' = Executed(x)
  BY DEF StoredFailures, Executed
<1>2. ASSUME NEW x \in Due PROVE DeliveredOnce(x, Owner(x))'
  BY <1>1 DEF CallsOK, DeliveredOnce
<1>3. ASSUME NEW x, x \notin Due PROVE NotDelivered(x)'
  BY <1>1, <1>3 DEF CallsOK, NotDelivered
<1>4. CallsOK' BY <1>2, <1>3 DEF CallsOK
<1> QED BY <1>4 DEF FailureIdsOK

\* Sudo delivers one callback: it is committed or stored, under a new id.
LEMMA SudoDelivers ==
    ASSUME FailureIdsOK, NEW c \in Contracts, NEW kind, NEW x, NEW ok \in BOOLEAN,
           NotDelivered(x), Sudo(c, <<kind, x>>, ok)
    PROVE  /\ DeliveredOnce(x, c)'
           /\ FailureIdsOK'
           /\ \A y : y # x => /\ StoredFailures(y)' = StoredFailures(y)
                              /\ Executed(y)' = Executed(y)
           /\ \A payload \in DOMAIN handled : Handled(payload)' = Handled(payload)
<1> DEFINE pl == <<kind, x>>
<1>0. pl[2] = x /\ DOMAIN failures = Contracts BY DEF FailureIdsOK
<1>1. pl \notin DOMAIN handled BY <1>0 DEF NotDelivered, Executed
<1> HIDE DEF pl
<1>2. CASE ok
  <2>1. handled' = Put(handled, pl, Handled(pl) + 1) /\ failures' = failures
    BY <1>2 DEF Sudo, pl
  <2>2. /\ DOMAIN handled' = DOMAIN handled \cup {pl}
        /\ \A q \in DOMAIN handled : handled'[q] = handled[q]
    BY <1>1, <2>1 DEF Put
  <2>3. \A y : StoredFailures(y)' = StoredFailures(y) BY <2>1 DEF StoredFailures
  <2>4. Executed(x)' = {pl} BY <1>0, <2>2 DEF NotDelivered, Executed
  <2>5. ASSUME NEW y, y # x PROVE Executed(y)' = Executed(y)
    BY <1>0, <2>2, <2>5 DEF Executed
  <2>6. DeliveredOnce(x, c)'
    BY <2>2, <2>3, <2>4 DEF DeliveredOnce, NotDelivered
  <2>7. FailureIdsOK' BY <2>1 DEF FailureIdsOK
  <2>8. \A q \in DOMAIN handled : Handled(q)' = Handled(q) BY <2>2 DEF Handled
  <2> QED BY <2>3, <2>5, <2>6, <2>7, <2>8
<1>3. CASE ~ok
  <2> DEFINE id == GetNextFailureIDKey(c)
  <2>1. failures' = [failures EXCEPT ![c] = Put(failures[c], id, pl)] /\ handled' = handled
    BY <1>3 DEF Sudo, AddContractFailure, pl
  <2>2. /\ id \in Nat /\ id \notin DOMAIN failures[c]
        /\ DOMAIN failures[c] \subseteq 0..id
    BY NextIdIsNew
  <2> HIDE DEF id
  <2>3. /\ DOMAIN failures' = Contracts
        /\ failures'[c] = Put(failures[c], id, pl)
        /\ \A e \in Contracts \ {c} : failures'[e] = failures[e]
    BY <1>0, <2>1
  <2>4. /\ DOMAIN failures'[c] = DOMAIN failures[c] \cup {id}
        /\ failures'[c][id] = pl
        /\ \A k \in DOMAIN failures[c] : failures'[c][k] = failures[c][k]
    BY <2>2, <2>3 DEF Put
  <2>5. FailureIdsOK'
    <3>1. DOMAIN failures'[c] \subseteq 0..id BY <2>2, <2>4
    <3> QED BY <2>2, <2>3, <3>1 DEF FailureIdsOK
  <2>6. \A y : Executed(y)' = Executed(y) BY <2>1 DEF Executed
  <2>7. StoredFailures(x)' = {<<c, id>>}
    <3>1. ASSUME NEW f PROVE f \in StoredFailures(x)' <=> f = <<c, id>>
      <4>1. f \in StoredFailures(x)' <=>
              \E e \in Contracts : \E k \in DOMAIN failures'[e] :
                  f = <<e, k>> /\ failures'[e][k][2] = x
        BY DEF StoredFailures
      <4>2. \A e \in Contracts : \A k \in DOMAIN failures[e] : failures[e][k][2] # x
        <5>1. ASSUME NEW e \in Contracts, NEW k \in DOMAIN failures[e], failures[e][k][2] = x
              PROVE  <<e, k>> \in StoredFailures(x)
          BY <5>1 DEF StoredFailures
        <5> QED BY <5>1 DEF NotDelivered
      <4>3. ASSUME f \in StoredFailures(x)' PROVE f = <<c, id>>
        <5>1. PICK e \in Contracts : \E k \in DOMAIN failures'[e] :
                  f = <<e, k>> /\ failures'[e][k][2] = x
          BY <4>1, <4>3
        <5>2. PICK k \in DOMAIN failures'[e] : f = <<e, k>> /\ failures'[e][k][2] = x
          BY <5>1
        <5>3. e = c BY <2>3, <4>2, <5>2
        <5>4. k = id BY <2>4, <4>2, <5>2, <5>3
        <5> QED BY <5>2, <5>3, <5>4
      <4>4. <<c, id>> \in StoredFailures(x)'
        BY <1>0, <2>4 DEF StoredFailures
      <4> QED BY <4>3, <4>4
    <3> QED BY <3>1
  <2>8. ASSUME NEW y, y # x PROVE StoredFailures(y)' = StoredFailures(y)
    <3>1. ASSUME NEW f PROVE f \in StoredFailures(y)' <=> f \in StoredFailures(y)
      <4>1. f \in StoredFailures(y)' <=>
              \E e \in Contracts : \E k \in DOMAIN failures'[e] :
                  f = <<e, k>> /\ failures'[e][k][2] = y
        BY DEF StoredFailures
      <4>2. f \in StoredFailures(y) <=>
              \E e \in Contracts : \E k \in DOMAIN failures[e] :
                  f = <<e, k>> /\ failures[e][k][2] = y
        BY DEF StoredFailures
      <4> QED BY <1>0, <2>2, <2>3, <2>4, <2>8, <4>1, <4>2
    <3> QED BY <3>1
  <2>9. Executed(x)' = {} BY <2>6 DEF NotDelivered
  <2>10. id \in DOMAIN failures'[c] BY <2>4
  <2>11. DeliveredOnce(x, c)' BY <2>7, <2>9, <2>10 DEF DeliveredOnce
  <2>12. \A q \in DOMAIN handled : Handled(q)' = Handled(q) BY <2>1 DEF Handled
  <2> QED BY <2>5, <2>6, <2>8, <2>11, <2>12
<1> QED BY <1>2, <1>3

\* A step that makes the callback about x due and makes it.
LEMMA Delivery ==
    ASSUME CallsOK, FailureIdsOK, NEW c \in Contracts, NEW kind, NEW x, NEW ok \in BOOLEAN,
           x \notin Due, Due' = Due \cup {x}, Owner(x)' = c,
           \A y \in Due : Owner(y)' = Owner(y) /\ Owner(y) \in Contracts,
           Sudo(c, <<kind, x>>, ok)
    PROVE  /\ CallsOK' /\ FailureIdsOK'
           /\ \A payload \in DOMAIN handled : Handled(payload)' = Handled(payload)
<1>1. NotDelivered(x) BY DEF CallsOK
<1>2. /\ DeliveredOnce(x, c)'
      /\ FailureIdsOK'
      /\ \A y : y # x => StoredFailures(y)' = StoredFailures(y) /\ Executed(y)' = Executed(y)
      /\ \A payload \in DOMAIN handled : Handled(payload)' = Handled(payload)
  BY <1>1, SudoDelivers
<1>3. ASSUME NEW y \in Due PROVE DeliveredOnce(y, Owner(y))'
  <2>1. y # x /\ DeliveredOnce(y, Owner(y)) BY DEF CallsOK
  <2>2. PICK o \in Contracts : o = Owner(y) OBVIOUS
  <2>3. DeliveredOnce(y, o) BY <2>1, <2>2
  <2>4. DeliveredOnce(y, o)' BY <1>2, <2>1, <2>3, DeliveryCarries DEF FailureIdsOK
  <2>5. o = Owner(y)' BY <2>2
  <2> QED BY <2>4, <2>5 DEF DeliveredOnce
<1>4. ASSUME NEW y, y \notin Due, y # x PROVE NotDelivered(y)'
  BY <1>2, <1>4 DEF CallsOK, NotDelivered
<1> QED BY <1>2, <1>3, <1>4 DEF CallsOK

\* The resubmission of a failure commits the callback it holds.
LEMMA Resubmission ==
    ASSUME CallsOK, FailureIdsOK, NEW c \in Contracts, NEW id \in DOMAIN failures[c], NEW n,
           Due' = Due, \A y \in Due : Owner(y)' = Owner(y) /\ Owner(y) \in Contracts,
           resubmitFailure(c, id, n)
    PROVE  /\ CallsOK' /\ FailureIdsOK'
           /\ \A payload \in DOMAIN handled : Handled(payload)' = Handled(payload)
<1>p. PICK pl : pl = failures[c][id] OBVIOUS
<1>x. PICK x : x = pl[2] OBVIOUS
<1>0. DOMAIN failures = Contracts BY DEF FailureIdsOK
<1>1. /\ handled' = Put(handled, pl, Handled(pl) + n)
      /\ failures' = [failures EXCEPT ![c] = Drop(failures[c], id)]
  BY <1>p DEF resubmitFailure
<1>2. <<c, id>> \in StoredFailures(x) BY <1>p, <1>x DEF StoredFailures
<1>3. x \in Due /\ DeliveredOnce(x, Owner(x))
  BY <1>2 DEF CallsOK, NotDelivered
<1>4. Executed(x) = {} /\ StoredFailures(x) = {<<c, id>>} /\ Owner(x) = c
  BY <1>2, <1>3 DEF DeliveredOnce
<1>5. pl \notin DOMAIN handled BY <1>4, <1>x DEF Executed
<1>6. /\ DOMAIN handled' = DOMAIN handled \cup {pl}
      /\ \A q \in DOMAIN handled : handled'[q] = handled[q]
  BY <1>1, <1>5 DEF Put
<1>7. /\ DOMAIN failures' = Contracts
      /\ DOMAIN failures'[c] = DOMAIN failures[c] \ {id}
      /\ \A k \in DOMAIN failures'[c] : failures'[c][k] = failures[c][k]
      /\ \A e \in Contracts \ {c} : failures'[e] = failures[e]
  BY <1>0, <1>1 DEF Drop
<1>8. FailureIdsOK'
  <2>1. ASSUME NEW e \in Contracts PROVE \E m \in Nat : DOMAIN failures'[e] \subseteq 0..m
    BY <1>7 DEF FailureIdsOK
  <2> QED BY <1>7, <2>1 DEF FailureIdsOK
<1>9. Executed(x)' = {pl} BY <1>4, <1>6, <1>x DEF Executed
<1>10. ASSUME NEW y, y # x PROVE Executed(y)' = Executed(y)
  BY <1>6, <1>10, <1>x DEF Executed
<1>11. ASSUME NEW y, NEW f
       PROVE  f \in StoredFailures(y)' <=> f \in StoredFailures(y) /\ f # <<c, id>>
  <2>1. f \in StoredFailures(y)' <=>
          \E e \in Contracts : \E k \in DOMAIN failures'[e] :
              f = <<e, k>> /\ failures'[e][k][2] = y
    BY DEF StoredFailures
  <2>2. f \in StoredFailures(y) <=>
          \E e \in Contracts : \E k \in DOMAIN failures[e] :
              f = <<e, k>> /\ failures[e][k][2] = y
    BY DEF StoredFailures
  <2> QED BY <1>7, <2>1, <2>2
<1>12. ASSUME NEW y, y # x PROVE StoredFailures(y)' = StoredFailures(y)
  <2>1. <<c, id>> \notin StoredFailures(y) BY <1>12, <1>p, <1>x DEF StoredFailures
  <2> QED BY <1>11, <2>1
<1>13. StoredFailures(x)' = {} BY <1>4, <1>11
<1>14. DeliveredOnce(x, Owner(x))' BY <1>6, <1>9, <1>13 DEF DeliveredOnce
<1>15. ASSUME NEW y \in Due, y # x PROVE DeliveredOnce(y, Owner(y))'
  <2>1. DeliveredOnce(y, Owner(y)) BY DEF CallsOK
  <2>2. PICK o \in Contracts : o = Owner(y) OBVIOUS
  <2>3. DeliveredOnce(y, o) BY <2>1, <2>2
  <2>4. DeliveredOnce(y, o)'
    BY <1>0, <1>7, <1>10, <1>12, <1>15, <2>3, DeliveryCarries
  <2>5. o = Owner(y)' BY <2>2
  <2> QED BY <2>4, <2>5 DEF DeliveredOnce
<1>16. ASSUME NEW y, y \notin Due PROVE NotDelivered(y)'
  <2>1. y # x BY <1>3, <1>16
  <2> QED BY <1>10, <1>12, <1>16, <2>1 DEF CallsOK, NotDelivered
<1>17. CallsOK' BY <1>14, <1>15, <1>16 DEF CallsOK
<1>18. \A q \in DOMAIN handled : Handled(q)' = Handled(q) BY <1>6 DEF Handled
<1> QED BY <1>8, <1>17, <1>18

-----------------------------------------------------------------------------
\* The contract a due callback is for.
LEMMA OwnersAreContracts ==
    ASSUME LinksOK, IbcOK
    PROVE  \A y \in Due : Owner(y) \in Contracts
<1> TAKE y \in Due
<1>1. CASE y \in Packets
  <2>1. y \in PacketIds /\ y[2] # 0 BY <1>1 DEF IbcOK, IsStore, PacketIds, Packets
  <2>2. packets[y].sender \in Contracts BY <1>1, <2>1 DEF Due
  <2> QED BY <2>1, <2>2 DEF Owner
<1>2. CASE y \in ChannelIds \X {0}
  <2>1. y[1] # 0 /\ y[1] \in DOMAIN channels /\ y[2] = 0
    BY <1>2 DEF Due, IbcOK, IsStore, PacketIds, Packets
  <2>2. channels[y[1]].port \in Contracts \X IcaIds BY <2>1 DEF LinksOK
  <2> QED BY <2>1, <2>2 DEF Owner, ICAOwnerFromPort
<1> QED BY <1>1, <1>2 DEF Due

\* A step that opens no channel: new channels are in INIT, new packets are on
\* open channels, and the packets of S are settled.
LEMMA Frame ==
    ASSUME IbcOK, IbcOK', LinksOK, active' = active, NEW S,
           \A ch \in DOMAIN channels :
               /\ ch \in DOMAIN channels' /\ channels'[ch].port = channels[ch].port
               /\ channels'[ch].state = "INIT" <=> channels[ch].state = "INIT",
           \A ch \in DOMAIN channels' \ DOMAIN channels :
               channels'[ch].state = "INIT" /\ channels'[ch].port \in Contracts \X IcaIds,
           \A q \in Packets :
               /\ q \in Packets' /\ packets'[q].sender = packets[q].sender
               /\ packets'[q].status = "settled" <=> packets[q].status = "settled" \/ q \in S,
           \A q \in Packets' \ Packets :
               /\ q[1] \in DOMAIN channels /\ channels[q[1]].state # "INIT"
               /\ packets'[q].status # "settled"
               /\ q[1] # 0 => packets'[q].sender = channels[q[1]].port[1],
           IsStore(active, Ports, DOMAIN channels)
    PROVE  /\ LinksOK'
           /\ Due' = Due \cup {q \in S \cap Packets : packets[q].sender \in Contracts}
           /\ \A y \in Due : Owner(y)' = Owner(y) /\ Owner(y) \in Contracts
<1>1. \A q \in Packets : q[1] \in DOMAIN channels BY DEF IbcOK, FreshIds
<1>2. /\ \A q \in Packets : q \in PacketIds /\ q[2] # 0
      /\ \A q \in Packets' : q \in PacketIds /\ q[2] # 0
  BY DEF IbcOK, IsStore, PacketIds, Packets
<1>3. LinksOK'
  <2>1. /\ 0 \in DOMAIN channels' /\ channels'[0].port = TransferPort
        /\ channels'[0].state # "INIT"
    BY DEF LinksOK
  <2>2. \A ch \in DOMAIN channels' \ {0} : channels'[ch].port \in Contracts \X IcaIds
    BY DEF LinksOK
  <2>3. ASSUME NEW q \in Packets'
        PROVE  /\ channels'[q[1]].state # "INIT"
               /\ q[1] # 0 => packets'[q].sender = channels'[q[1]].port[1]
    <3>1. CASE q \in Packets BY <1>1, <3>1 DEF LinksOK
    <3>2. CASE q \notin Packets BY <3>2
    <3> QED BY <3>1, <3>2
  <2>4. \A port \in DOMAIN active' : channels'[active'[port]].port = port
    BY DEF LinksOK, IsStore
  <2> QED BY <2>1, <2>2, <2>3, <2>4 DEF LinksOK
<1>4. DOMAIN channels \subseteq ChannelIds /\ DOMAIN channels' \subseteq ChannelIds
  BY DEF IbcOK, IsStore
<1>5. ASSUME NEW y
      PROVE  y \in Due' <=> y \in Due \cup {q \in S \cap Packets : packets[q].sender \in Contracts}
  <2>1. CASE y \in Packets'
    <3>1. y \in Due' <=> packets'[y].status = "settled" /\ packets'[y].sender \in Contracts
      BY <1>2, <2>1 DEF Due
    <3>2. CASE y \in Packets
      <4>1. y \in Due <=> packets[y].status = "settled" /\ packets[y].sender \in Contracts
        BY <1>2, <3>2 DEF Due
      <4> QED BY <3>1, <3>2, <4>1
    <3>3. CASE y \notin Packets
      <4>1. y \notin Due BY <1>2, <2>1, <3>3 DEF Due
      <4> QED BY <2>1, <3>1, <3>3, <4>1
    <3> QED BY <3>2, <3>3
  <2>2. CASE y \notin Packets'
    <3>1. y \notin Packets BY <2>2
    <3>2. y \in Due' <=> y \in ChannelIds \X {0} /\ y[1] # 0 /\ y[1] \in DOMAIN channels'
                          /\ channels'[y[1]].state # "INIT"
      BY <2>2 DEF Due
    <3>3. y \in Due <=> y \in ChannelIds \X {0} /\ y[1] # 0 /\ y[1] \in DOMAIN channels
                          /\ channels[y[1]].state # "INIT"
      BY <3>1 DEF Due
    <3> QED BY <3>1, <3>2, <3>3
  <2> QED BY <2>1, <2>2
<1>6. ASSUME NEW y \in Due PROVE Owner(y)' = Owner(y)
  <2>1. CASE y \in Packets BY <1>2, <2>1 DEF Owner
  <2>2. CASE y \notin Packets
    <3>1. y[2] = 0 /\ y[1] \in DOMAIN channels BY <2>2 DEF Due
    <3> QED BY <3>1 DEF Owner, ICAOwnerFromPort
  <2> QED BY <2>1, <2>2
<1> QED BY <1>3, <1>5, <1>6, OwnersAreContracts

\* The links after a send, which makes nothing due.
LEMMA SendFrame ==
    ASSUME IbcOK, IbcOK', LinksOK, IsStore(active, Ports, DOMAIN channels), active' = active,
           NEW ch, CanSend(ch), NEW sender \in Senders, NEW token \in Coins,
           ch # 0 => sender = channels[ch].port[1],
           SendPacket(ch, sender, token)
    PROVE  LinksOK' /\ Due' = Due /\ \A y \in Due : Owner(y)' = Owner(y) /\ Owner(y) \in Contracts
<1> DEFINE p == <<ch, channels[ch].nextSend>>
           rec == [sender |-> sender, token |-> token, status |-> "sent"]
<1>1. ch \in DOMAIN channels /\ channels[ch].state = "OPEN" BY DEF CanSend, IsOpen
<1>2. channels[ch] \in ChannelEnds BY <1>1 DEF IbcOK, IsStore
<1>3. p \notin Packets BY SendPacketLemma
<1>4. packets' = Put(packets, p, rec) /\ channels' = [channels EXCEPT ![ch].nextSend = @ + 1]
  BY DEF SendPacket
<1>5. \A c \in DOMAIN channels :
          /\ c \in DOMAIN channels' /\ channels'[c].port = channels[c].port
          /\ channels'[c].state = channels[c].state
  BY <1>2, <1>4 DEF ChannelEnds
<1>6. DOMAIN channels' = DOMAIN channels BY <1>4
<1>7. rec.status = "sent" /\ rec.sender = sender /\ p[1] = ch OBVIOUS
<1> HIDE DEF p, rec
<1>8. \A q \in Packets : q \in Packets' /\ packets'[q] = packets[q]
  BY <1>3, <1>4 DEF Packets, Put
<1>9. \A q \in Packets' \ Packets : q = p /\ packets'[q] = rec
  BY <1>4 DEF Packets, Put
<1> DEFINE S == {}
<1>10. \A q \in Packets :
         /\ q \in Packets' /\ packets'[q].sender = packets[q].sender
         /\ packets'[q].status = "settled" <=> packets[q].status = "settled" \/ q \in S
  BY <1>8
<1>11. \A q \in Packets' \ Packets :
         /\ q[1] \in DOMAIN channels /\ channels[q[1]].state # "INIT"
         /\ packets'[q].status # "settled"
         /\ q[1] # 0 => packets'[q].sender = channels[q[1]].port[1]
  BY <1>1, <1>7, <1>9
<1> HIDE DEF S
<1>12. /\ LinksOK'
       /\ Due' = Due \cup {q \in S \cap Packets : packets[q].sender \in Contracts}
       /\ \A y \in Due : Owner(y)' = Owner(y) /\ Owner(y) \in Contracts
  BY <1>5, <1>6, <1>10, <1>11, Frame
<1> QED BY <1>12 DEF S

\* The links after a message of a relayer; an acknowledgement or a timeout
\* makes the callback of a contract due.
LEMMA RelayFrame ==
    ASSUME IbcOK, IbcOK', LinksOK, IsStore(active, Ports, DOMAIN channels), active' = active,
           NEW p \in InFlight, NEW settled \in BOOLEAN,
           IF settled THEN Acknowledge(p) \/ Timeout(p) ELSE Recv(p)
    PROVE  /\ LinksOK'
           /\ Due' = Due \cup (IF settled /\ packets[p].sender \in Contracts THEN {p} ELSE {})
           /\ \A y \in Due : Owner(y)' = Owner(y) /\ Owner(y) \in Contracts
           /\ packets[p].sender \in Contracts => p \notin Due /\ Owner(p)' = packets[p].sender
<1>1. p \in Packets /\ packets[p] \in PacketRecords /\ p[1] \in DOMAIN channels
  BY DEF InFlight, IbcOK, IsStore, Packets, FreshIds
<1>2. channels[p[1]] \in ChannelEnds /\ channels[p[1]].state # "INIT"
  BY <1>1 DEF IbcOK, IsStore, LinksOK
<1> DEFINE st == IF settled THEN "settled" ELSE "received"
<1>3. packets' = [packets EXCEPT ![p].status = st]
  BY DEF Acknowledge, Timeout, Recv
<1>4. DOMAIN channels' = DOMAIN channels
  BY DEF Acknowledge, Timeout, Recv
<1>5. ASSUME NEW c \in DOMAIN channels
      PROVE  /\ channels'[c].port = channels[c].port
             /\ channels'[c].state = "INIT" <=> channels[c].state = "INIT"
  <2>1. CASE c # p[1] BY <2>1 DEF Acknowledge, Timeout, Recv
  <2>2. CASE c = p[1]
    BY <1>2, <2>2 DEF Acknowledge, Timeout, Recv, ChannelEnds
  <2> QED BY <2>1, <2>2
<1>6. /\ Packets' = Packets
      /\ \A q \in Packets : packets'[q].sender = packets[q].sender
      /\ \A q \in Packets : q # p => packets'[q] = packets[q]
      /\ packets'[p].status = st
  BY <1>1, <1>3 DEF Packets, PacketRecords
<1>7. packets[p].status # "settled" BY DEF InFlight
<1> DEFINE S == IF settled THEN {p} ELSE {}
<1>8. \A q \in Packets :
         packets'[q].status = "settled" <=> packets[q].status = "settled" \/ q \in S
  BY <1>6, <1>7
<1> HIDE DEF S, st
<1>9. /\ LinksOK'
      /\ Due' = Due \cup {q \in S \cap Packets : packets[q].sender \in Contracts}
      /\ \A y \in Due : Owner(y)' = Owner(y) /\ Owner(y) \in Contracts
  BY <1>4, <1>5, <1>6, <1>8, Frame, ZenonT(60)
<1>10. {q \in S \cap Packets : packets[q].sender \in Contracts}
          = (IF settled /\ packets[p].sender \in Contracts THEN {p} ELSE {})
  BY <1>1 DEF S
<1>11. p[2] # 0 BY <1>1 DEF IbcOK, IsStore, PacketIds, Packets
<1>12. p \notin Due BY <1>7, <1>11 DEF Due
<1>13. Owner(p)' = packets[p].sender BY <1>1, <1>6, <1>11 DEF Owner
<1> QED BY <1>9, <1>10, <1>12, <1>13

\* The opening of a channel makes its callback due.
LEMMA OpenFrame ==
    ASSUME IbcOK, IbcOK', LinksOK, IsStore(active, Ports, DOMAIN channels),
           NEW ch \in DOMAIN channels, channels[ch].state = "INIT",
           channels' = [channels EXCEPT ![ch].state = "OPEN"], packets' = packets,
           active' = Put(active, channels[ch].port, ch)
    PROVE  /\ LinksOK'
           /\ <<ch, 0>> \notin Due /\ Due' = Due \cup {<<ch, 0>>}
           /\ Owner(<<ch, 0>>)' = ICAOwnerFromPort(channels[ch].port)
           /\ ICAOwnerFromPort(channels[ch].port) \in Contracts
           /\ \A y \in Due : Owner(y)' = Owner(y) /\ Owner(y) \in Contracts
<1>1. ch # 0 /\ channels[ch].port \in Contracts \X IcaIds BY DEF LinksOK
<1>2. channels[ch] \in ChannelEnds /\ DOMAIN channels \subseteq ChannelIds BY DEF IbcOK, IsStore
<1>3. /\ DOMAIN channels' = DOMAIN channels
      /\ \A c \in DOMAIN channels : channels'[c].port = channels[c].port
      /\ \A c \in DOMAIN channels : c # ch => channels'[c] = channels[c]
      /\ channels'[ch].state = "OPEN"
  BY <1>2 DEF ChannelEnds
<1>4. \A q \in Packets : q[1] \in DOMAIN channels /\ q[2] # 0
  BY DEF IbcOK, FreshIds, IsStore, PacketIds, Packets
<1>5. LinksOK'
  <2>1. /\ 0 \in DOMAIN channels' /\ channels'[0].port = TransferPort
        /\ channels'[0].state # "INIT"
    BY <1>1, <1>3 DEF LinksOK
  <2>2. \A c \in DOMAIN channels' \ {0} : channels'[c].port \in Contracts \X IcaIds
    BY <1>3 DEF LinksOK
  <2>3. \A q \in Packets' : /\ channels'[q[1]].state # "INIT"
                            /\ q[1] # 0 => packets'[q].sender = channels'[q[1]].port[1]
    BY <1>3, <1>4 DEF LinksOK, Packets
  <2>4. \A port \in DOMAIN active' : channels'[active'[port]].port = port
    BY <1>3 DEF LinksOK, Put, IsStore
  <2> QED BY <2>1, <2>2, <2>3, <2>4 DEF LinksOK
<1>6. <<ch, 0>> \notin Due BY <1>4 DEF Due
<1>7. ASSUME NEW y PROVE y \in Due' <=> y \in Due \cup {<<ch, 0>>}
  <2>1. CASE y \in Packets
    BY <1>4, <2>1 DEF Due, Packets
  <2>2. CASE y \notin Packets
    <3>1. y \in Due' <=> y \in ChannelIds \X {0} /\ y[1] # 0 /\ y[1] \in DOMAIN channels'
                          /\ channels'[y[1]].state # "INIT"
      BY <2>2 DEF Due, Packets
    <3>2. y \in Due <=> y \in ChannelIds \X {0} /\ y[1] # 0 /\ y[1] \in DOMAIN channels
                          /\ channels[y[1]].state # "INIT"
      BY <2>2 DEF Due
    <3>3. CASE y = <<ch, 0>> BY <1>1, <1>2, <1>3, <3>1, <3>3
    <3>4. CASE y # <<ch, 0>> BY <1>3, <3>1, <3>2, <3>4
    <3> QED BY <3>3, <3>4
  <2> QED BY <2>1, <2>2
<1>8. ASSUME NEW y \in Due PROVE Owner(y)' = Owner(y)
  <2>1. CASE y \in Packets BY <1>4, <2>1 DEF Owner
  <2>2. CASE y \notin Packets
    <3>1. y[2] = 0 /\ y[1] \in DOMAIN channels BY <2>2 DEF Due
    <3> QED BY <1>3, <3>1 DEF Owner, ICAOwnerFromPort
  <2> QED BY <2>1, <2>2
<1>9. Owner(<<ch, 0>>)' = ICAOwnerFromPort(channels[ch].port)
  BY <1>3, ZenonT(60) DEF Owner, ICAOwnerFromPort
<1>10. ICAOwnerFromPort(channels[ch].port) \in Contracts BY <1>1 DEF ICAOwnerFromPort
<1> QED BY <1>5, <1>6, <1>7, <1>8, <1>9, <1>10, OwnersAreContracts

-----------------------------------------------------------------------------
CallInv == LinksOK /\ CallsOK /\ FailureIdsOK

CommittedStay == \A payload \in DOMAIN handled : Handled(payload)' = Handled(payload)

\* Every step keeps the invariant, and changes no committed callback.
LEMMA CallStep ==
    ASSUME IndInv, IndInv', CallInv, [Next]_vars
    PROVE  CallInv' /\ CommittedStay
<1>1. IbcOK /\ IsStore(active, Ports, DOMAIN channels) BY IndInvParts
<1>2. IbcOK' BY PrimedParts
<1>3. LinksOK /\ CallsOK /\ FailureIdsOK BY DEF CallInv
<1>4. ASSUME failures' = failures, handled' = handled, LinksOK', Due' = Due,
             \A y \in Due : Owner(y)' = Owner(y)
      PROVE  CallInv' /\ CommittedStay
  <2>1. CallsOK' /\ FailureIdsOK' BY <1>3, <1>4, NoDelivery
  <2> QED BY <1>4, <2>1 DEF CallInv, CommittedStay, Handled
<1>5. ASSUME NEW p \in InFlight, NEW kind, NEW ok \in BOOLEAN, packets[p].sender \in Contracts,
             Acknowledge(p) \/ Timeout(p), active' = active,
             Sudo(packets[p].sender, <<kind, p>>, ok)
      PROVE  CallInv' /\ CommittedStay
  <2>1. PICK c \in Contracts : c = packets[p].sender BY <1>5
  <2>2. /\ LinksOK' /\ p \notin Due /\ Due' = Due \cup {p} /\ Owner(p)' = c
        /\ \A y \in Due : Owner(y)' = Owner(y) /\ Owner(y) \in Contracts
    BY <1>1, <1>2, <1>3, <1>5, <2>1, RelayFrame, ZenonT(60)
  <2>3. Sudo(c, <<kind, p>>, ok) BY <1>5, <2>1
  <2>4. CallsOK' /\ FailureIdsOK' /\ CommittedStay
    BY <1>3, <2>2, <2>3, Delivery DEF CommittedStay
  <2> QED BY <2>2, <2>4 DEF CallInv
<1>6. ASSUME NEW p \in InFlight, ~OnTransferChannel(p)
      PROVE  packets[p].sender = ICAOwnerFromPort(channels[p[1]].port)
             /\ packets[p].sender \in Contracts
  <2>1. p \in Packets /\ p[1] \in DOMAIN channels BY <1>1 DEF InFlight, IbcOK, FreshIds
  <2>2. p[1] # 0 BY <1>3, <1>6 DEF LinksOK, OnTransferChannel
  <2> QED BY <1>3, <2>1, <2>2 DEF LinksOK, ICAOwnerFromPort
<1>7. CASE Register
  <2>1. PICK c \in Contracts, id \in IcaIds, o \in Orderings :
             /\ AddChannel(IcaPort(c, id), o)
             /\ UNCHANGED <<failures, handled, packets, active>>
    BY <1>7 DEF Register, RegisterInterchainAccount, ictxVars
  <2> DEFINE new == NewChannel(IcaPort(c, id), o, "INIT")
  <2>2. channels' = Put(channels, nextChannel, new) BY <2>1 DEF AddChannel
  <2>3. new.state = "INIT" /\ new.port \in Contracts \X IcaIds BY DEF NewChannel, IcaPort
  <2>4. nextChannel \notin DOMAIN channels BY <1>1 DEF IbcOK, FreshIds, IsStore, ChannelIds
  <2> HIDE DEF new
  <2>5. /\ \A ch \in DOMAIN channels : ch \in DOMAIN channels' /\ channels'[ch] = channels[ch]
        /\ \A ch \in DOMAIN channels' \ DOMAIN channels : channels'[ch] = new
    BY <2>2, <2>4 DEF Put
  <2> DEFINE S == {}
  <2>6. /\ Packets' = Packets
        /\ \A q \in Packets :
             /\ q \in Packets' /\ packets'[q].sender = packets[q].sender
             /\ packets'[q].status = "settled" <=> packets[q].status = "settled" \/ q \in S
    BY <2>1 DEF Packets
  <2> HIDE DEF S
  <2>7. /\ LinksOK'
        /\ Due' = Due \cup {q \in S \cap Packets : packets[q].sender \in Contracts}
        /\ \A y \in Due : Owner(y)' = Owner(y) /\ Owner(y) \in Contracts
    BY <1>1, <1>2, <1>3, <2>1, <2>3, <2>5, <2>6, Frame, ZenonT(60)
  <2> QED BY <1>4, <2>1, <2>7 DEF S
<1>8. CASE ChanOpenAck
  <2>1. PICK ch \in DOMAIN channels, ok \in BOOLEAN : HandleChanOpenAck(ch, ok)
    BY <1>8 DEF ChanOpenAck
  <2>2. PICK c : c = ICAOwnerFromPort(channels[ch].port) OBVIOUS
  <2>3. /\ channels[ch].state = "INIT"
        /\ channels' = [channels EXCEPT ![ch].state = "OPEN"] /\ packets' = packets
        /\ active' = Put(active, channels[ch].port, ch)
        /\ Sudo(c, <<"open_ack", <<ch, 0>>>>, ok)
    BY <2>1, <2>2 DEF HandleChanOpenAck, OpenAckCallback
  <2>4. /\ LinksOK' /\ <<ch, 0>> \notin Due /\ Due' = Due \cup {<<ch, 0>>}
        /\ Owner(<<ch, 0>>)' = c /\ c \in Contracts
        /\ \A y \in Due : Owner(y)' = Owner(y) /\ Owner(y) \in Contracts
    BY <1>1, <1>2, <1>3, <2>2, <2>3, OpenFrame, ZenonT(60)
  <2>5. CallsOK' /\ FailureIdsOK' /\ CommittedStay
    BY <1>3, <2>3, <2>4, Delivery DEF CommittedStay
  <2> QED BY <2>4, <2>5 DEF CallInv
<1>9. CASE Submit
  <2>1. PICK c \in Contracts, id \in IcaIds, n \in MsgCounts, fee \in FeeChoices :
             SubmitTx(c, id, n, fee)
    BY <1>9 DEF Submit
  <2>2. PICK ch : ch = active[IcaPort(c, id)] OBVIOUS
  <2>3. /\ IcaPort(c, id) \in DOMAIN active
        /\ CanSend(ch) /\ SendPacket(ch, c, NoToken)
        /\ UNCHANGED <<failures, handled, active>>
    BY <2>1, <2>2 DEF SubmitTx, ictxVars
  <2>4. channels[ch].port = <<c, id>> BY <1>3, <2>2, <2>3 DEF LinksOK, IcaPort
  <2>5. c \in Senders /\ NoToken \in Coins /\ c = channels[ch].port[1]
    BY <2>4 DEF Senders, NoToken, Coins
  <2>6. /\ LinksOK' /\ Due' = Due
        /\ \A y \in Due : Owner(y)' = Owner(y) /\ Owner(y) \in Contracts
    BY <1>1, <1>2, <1>3, <2>3, <2>5, SendFrame, ZenonT(60)
  <2> QED BY <1>4, <2>3, <2>6
<1>10. CASE IcaAck
  <2>1. PICK p \in InFlight, r \in Relayers, k \in {"response", "error"}, ok \in BOOLEAN :
             ~OnTransferChannel(p) /\ HandleAcknowledgement(p, r, k, ok)
    BY <1>10 DEF IcaAck
  <2>2. /\ Acknowledge(p) /\ active' = active
        /\ Sudo(ICAOwnerFromPort(channels[p[1]].port), <<k, p>>, ok)
    BY <2>1, ZenonT(60) DEF HandleAcknowledgement, Callback, ictxVars
  <2> QED BY <1>5, <1>6, <2>1, <2>2, ZenonT(60)
<1>11. CASE IcaTimeout
  <2>1. PICK p \in InFlight, r \in Relayers, ok \in BOOLEAN :
             ~OnTransferChannel(p) /\ HandleTimeout(p, r, ok)
    BY <1>11 DEF IcaTimeout
  <2>2. /\ Timeout(p) /\ active' = active
        /\ Sudo(ICAOwnerFromPort(channels[p[1]].port), <<"timeout", p>>, ok)
    BY <2>1, ZenonT(60) DEF HandleTimeout, Callback, ictxVars
  <2> QED BY <1>5, <1>6, <2>1, <2>2
<1>12. CASE SendTransfer
  <2>1. PICK s \in Senders, t \in Tokens, fee \in FeeChoices :
             Transfer(s, 0, t, fee) /\ UNCHANGED ictxVars
    BY <1>12 DEF SendTransfer, Senders
  <2>2. t \in Coins BY ChoicesAssumption
  <2>3. CanSend(0) /\ SendPacket(0, s, t) /\ UNCHANGED <<failures, handled, active>>
    BY <2>1 DEF Transfer, ictxVars
  <2>4. /\ LinksOK' /\ Due' = Due
        /\ \A y \in Due : Owner(y)' = Owner(y) /\ Owner(y) \in Contracts
    BY <1>1, <1>2, <1>3, <2>2, <2>3, SendFrame
  <2> QED BY <1>4, <2>3, <2>4
<1>13. ASSUME NEW p \in InFlight, Acknowledge(p) \/ Timeout(p), packets[p].sender \notin Contracts,
              UNCHANGED <<failures, handled, active>>
       PROVE  CallInv' /\ CommittedStay
  <2>1. /\ LinksOK' /\ Due' = Due \cup {}
        /\ \A y \in Due : Owner(y)' = Owner(y) /\ Owner(y) \in Contracts
    BY <1>1, <1>2, <1>3, <1>13, RelayFrame, ZenonT(60)
  <2> QED BY <1>4, <1>13, <2>1
<1>14. CASE TransferAck
  <2>1. PICK p \in InFlight, r \in Relayers, k \in {"response", "error"}, ok \in BOOLEAN :
             TransferAcknowledgement(p, r, k, ok) /\ UNCHANGED ictxVars
    BY <1>14 DEF TransferAck
  <2>2. /\ Acknowledge(p) /\ active' = active
        /\ packets[p].sender \in Contracts => Sudo(packets[p].sender, <<k, p>>, ok)
        /\ packets[p].sender \notin Contracts => UNCHANGED <<failures, handled>>
    BY <2>1 DEF TransferAcknowledgement, ictxVars
  <2> QED BY <1>5, <1>13, <2>2
<1>15. CASE TransferTimedOut
  <2>1. PICK p \in InFlight, r \in Relayers, ok \in BOOLEAN :
             TransferTimeout(p, r, ok) /\ UNCHANGED ictxVars
    BY <1>15 DEF TransferTimedOut
  <2>2. /\ Timeout(p) /\ active' = active
        /\ packets[p].sender \in Contracts => Sudo(packets[p].sender, <<"timeout", p>>, ok)
        /\ packets[p].sender \notin Contracts => UNCHANGED <<failures, handled>>
    BY <2>1, ZenonT(60) DEF TransferTimeout, ictxVars
  <2> QED BY <1>5, <1>13, <2>2
<1>16. CASE CounterpartyRecv
  <2>1. PICK p \in InFlight : Recv(p) /\ UNCHANGED <<failures, handled, active>>
    BY <1>16 DEF CounterpartyRecv, ictxVars
  <2>2. /\ LinksOK' /\ Due' = Due \cup {}
        /\ \A y \in Due : Owner(y)' = Owner(y) /\ Owner(y) \in Contracts
    BY <1>1, <1>2, <1>3, <2>1, RelayFrame, ZenonT(60)
  <2> QED BY <1>4, <2>1, <2>2
<1>17. ASSUME UNCHANGED <<ibcVars, active>>
       PROVE  LinksOK' /\ Due' = Due /\ \A y \in Due : Owner(y)' = Owner(y)
  BY <1>3, <1>17 DEF LinksOK, Due, Owner, Packets, ibcVars
<1>18. CASE Resubmit
  <2>1. PICK c \in Contracts, n \in 1..MaxNesting : \E id \in DOMAIN failures[c] :
             ResubmitFailure(c, id, n) /\ UNCHANGED <<ibcVars, active>>
    BY <1>18 DEF Resubmit, ictxVars
  <2>2. PICK id \in DOMAIN failures[c] : resubmitFailure(c, id, n) /\ UNCHANGED <<ibcVars, active>>
    BY <2>1 DEF ResubmitFailure
  <2>3. CallsOK' /\ FailureIdsOK' /\ CommittedStay
    BY <1>1, <1>3, <1>17, <2>2, OwnersAreContracts, Resubmission DEF CommittedStay
  <2> QED BY <1>17, <2>2, <2>3 DEF CallInv
<1>19. CASE FeeGovernance \/ IctxGovernance \/ UNCHANGED vars
  <2>1. UNCHANGED <<ibcVars, active>> /\ failures' = failures /\ handled' = handled
    BY <1>19 DEF FeeGovernance, IctxGovernance, UpdateIctxParams, vars, ictxVars
  <2> QED BY <1>4, <1>17, <2>1
<1> QED
  BY <1>7, <1>8, <1>9, <1>10, <1>11, <1>12, <1>14, <1>15, <1>16, <1>18, <1>19 DEF Next

\* Nothing is due, stored or committed in the beginning.
LEMMA CallInit == Init => CallInv
<1> SUFFICES ASSUME Init PROVE CallInv OBVIOUS
<1>1. Packets = {} /\ active = EmptyStore /\ DOMAIN channels = {0}
      /\ channels[0] = NewChannel(TransferPort, "UNORDERED", "OPEN")
  BY DEF Init, Packets, EmptyStore, Put
<1>2. LinksOK BY <1>1 DEF LinksOK, EmptyStore, NewChannel
<1>3. Due = {} BY <1>1 DEF Due
<1>4. FailureIdsOK
  <2>1. ASSUME NEW c \in Contracts PROVE DOMAIN failures[c] \subseteq 0..0
    BY DEF Init, EmptyStore
  <2> QED BY <2>1 DEF Init, FailureIdsOK
<1>5. ASSUME NEW x PROVE NotDelivered(x)
  <2>1. Executed(x) = {} BY DEF Init, Executed, EmptyStore
  <2>2. \A c \in Contracts : failures[c] = EmptyStore BY DEF Init
  <2>3. \A c \in Contracts : DOMAIN failures[c] = {} BY <2>2 DEF EmptyStore
  <2>4. StoredFailures(x) = {} BY <2>3 DEF StoredFailures
  <2> QED BY <2>1, <2>4 DEF NotDelivered
<1>6. CallsOK BY <1>3, <1>5 DEF CallsOK
<1> QED BY <1>2, <1>4, <1>6 DEF CallInv

\* The invariant is what CallbackExactlyOnce says, packet by packet.
LEMMA CallInvImplies ==
    ASSUME IbcOK, CallInv
    PROVE  CallbackExactlyOnce
<1>1. CallsOK BY DEF CallInv
<1>2. ASSUME NEW p \in Packets
      PROVE  IF packets[p].status = "settled" /\ packets[p].sender \in Contracts
             THEN DeliveredOnce(p, packets[p].sender)
             ELSE NotDelivered(p)
  <2>1. p[2] # 0 BY DEF IbcOK, IsStore, PacketIds, Packets
  <2>2. p \in Due <=> packets[p].status = "settled" /\ packets[p].sender \in Contracts
    BY <2>1 DEF Due
  <2>3. Owner(p) = packets[p].sender BY <2>1 DEF Owner
  <2> QED BY <1>1, <2>2, <2>3 DEF CallsOK
<1>3. ASSUME NEW ch \in DOMAIN channels \ {0}
      PROVE  IF channels[ch].state = "INIT" THEN NotDelivered(<<ch, 0>>)
             ELSE DeliveredOnce(<<ch, 0>>, ICAOwnerFromPort(channels[ch].port))
  <2>1. <<ch, 0>> \notin Packets /\ ch \in ChannelIds
    BY DEF IbcOK, IsStore, PacketIds, Packets
  <2>2. <<ch, 0>> \in Due <=> channels[ch].state # "INIT" BY <2>1 DEF Due
  <2>3. Owner(<<ch, 0>>) = ICAOwnerFromPort(channels[ch].port) BY DEF Owner
  <2> QED BY <1>1, <2>2, <2>3 DEF CallsOK
<1> QED BY <1>2, <1>3 DEF CallbackExactlyOnce

\* Every callback that is due is committed or stored, once, for any number of
\* contracts, channels, packets, failures and nested resubmissions.
THEOREM CallbacksExactlyOnce == Spec => []CallbackExactlyOnce
<1>1. IndInv => IbcOK BY IndInvParts
<1>2. IndInv /\ IndInv' /\ CallInv /\ [Next]_vars => CallInv' BY CallStep
<1>3. IndInv /\ CallInv => CallbackExactlyOnce BY <1>1, CallInvImplies
<1> QED BY <1>2, <1>3, CallInit, Inductive, PTL DEF Spec

\* No message executes again what an earlier message has committed.
THEOREM CommittedOnce == Spec => DeliveredIsFinal
<1>1. IndInv /\ IndInv' /\ CallInv /\ [Next]_vars => CallInv' BY CallStep
<1>2. IndInv /\ IndInv' /\ CallInv /\ [Next]_vars
        => [\A payload \in DOMAIN handled : Handled(payload)' = Handled(payload)]_vars
  BY CallStep DEF CommittedStay
<1> QED BY <1>1, <1>2, CallInit, Inductive, PTL DEF Spec, DeliveredIsFinal

\* The outcome of a transfer reaches its contract exactly once, also through
\* the rate limit's OnAcknowledgementPacket and OnTimeoutPacket.
THEOREM StackCallbacks == StackSpec => []CallbackExactlyOnce
<1>1. StackBase /\ StackBase' /\ CallInv /\ [StackNext]_stackVars => CallInv'
  <2> SUFFICES ASSUME IndInv, IndInv', TransferOnly, CallInv, [StackNext]_stackVars PROVE CallInv'
    BY DEF StackBase
  <2>1. CASE StackReceive
    <3>1. PICK t \in Tokens : Receipt(t) BY <2>1, ReceiptLemma
    <3>2. UNCHANGED <<failures, handled, channels, nextChannel, packets, active>>
      BY <3>1 DEF Receipt, ibcVars, ictxVars
    <3>3. LinksOK' BY <3>2 DEF CallInv, LinksOK, Packets
    <3>4. Due' = Due /\ \A y : Owner(y)' = Owner(y) BY <3>2 DEF Due, Owner, Packets
    <3>5. CallsOK' /\ FailureIdsOK' BY <3>2, <3>4, NoDelivery DEF CallInv
    <3> QED BY <3>3, <3>5 DEF CallInv
  <2>2. CASE ~StackReceive
    <3>1. [Next]_vars BY <2>2, StackStep
    <3> QED BY <3>1, CallStep
  <2> QED BY <2>1, <2>2
<1>2. StackBase /\ CallInv => CallbackExactlyOnce
  BY IndInvParts, CallInvImplies DEF StackBase
<1>3. StackInit => CallInv BY CallInit DEF StackInit
<1> QED BY <1>1, <1>2, <1>3, StackBaseInit, StackBaseStep, PTL DEF StackSpec

-----------------------------------------------------------------------------
\* The refunder is an escrow.  A step is first classified by what it does to
\* the packets and to the fee store; what it does to the balance of the module
\* account then follows from the inductive invariant before and after it.

\* What a step may do to the packet ids and to the stored fees.
Same == Packets' = Packets /\ feeInfos' = feeInfos

SentFree(p) == p \notin Packets /\ Packets' = Packets \cup {p} /\ feeInfos' = feeInfos

SentWithFee(p, payer, fee) ==
    /\ p \notin Packets /\ Packets' = Packets \cup {p}
    /\ feeInfos' = Put(feeInfos, p, [payer |-> payer, fee |-> fee])

Paid(p) == p \in DOMAIN feeInfos /\ Packets' = Packets /\ feeInfos' = Drop(feeInfos, p)

FeeStep ==
    \/ Same
    \/ \E p \in PacketIds : SentFree(p) \/ Paid(p)
    \/ \E p \in PacketIds, payer \in Contracts, fee \in FeeChoices : SentWithFee(p, payer, fee)

\* A relayed message changes a packet's status and adds or removes none.
LEMMA RelayKeepsPackets ==
    ASSUME NEW p, Recv(p) \/ Acknowledge(p) \/ Timeout(p)
    PROVE  Packets' = Packets
BY DEF Recv, Acknowledge, Timeout, Packets

\* A distribution pays the fee of its packet, or does nothing.
LEMMA DistributionShape ==
    ASSUME NEW b, NEW relayer, NEW p \in InFlight, IbcOK, Packets' = Packets,
           \/ DistributeAcknowledgementFee(b, relayer, p)
           \/ DistributeTimeoutFee(b, relayer, p)
    PROVE  FeeStep
<1>1. p \in PacketIds BY DEF InFlight, Packets, IbcOK, IsStore
<1>2. CASE p \in DOMAIN feeInfos
  <2>1. feeInfos' = Drop(feeInfos, p)
    BY <1>2 DEF DistributeAcknowledgementFee, DistributeTimeoutFee
  <2> QED BY <1>1, <1>2, <2>1 DEF FeeStep, Paid
<1>3. CASE p \notin DOMAIN feeInfos
  <2>1. feeInfos' = feeInfos
    BY <1>3 DEF DistributeAcknowledgementFee, DistributeTimeoutFee
  <2> QED BY <2>1 DEF FeeStep, Same
<1> QED BY <1>2, <1>3

\* A contract's packet is sent with the fee, or without one when fees are off.
LEMMA LockShape ==
    ASSUME IbcOK, NEW ch, CanSend(ch), NEW c \in Contracts, NEW token \in Coins,
           NEW fee \in FeeChoices, LockFees(c, <<ch, GetNextSequenceSend(ch)>>, fee),
           SendPacket(ch, c, token)
    PROVE  FeeStep
<1> DEFINE p == <<ch, GetNextSequenceSend(ch)>>
<1>1. c \in Senders BY DEF Senders
<1>2. p \in PacketIds /\ p \notin Packets /\ Packets' = Packets \cup {p}
  BY <1>1, SendAddsPacket
<1> HIDE DEF p
<1>3. CASE feeParams.FeeEnabled
  <2>1. SentWithFee(p, c, fee) BY <1>2, <1>3 DEF LockFees, SentWithFee, p
  <2> QED BY <1>2, <2>1 DEF FeeStep
<1>4. CASE ~feeParams.FeeEnabled
  <2>1. SentFree(p) BY <1>2, <1>4 DEF LockFees, SentFree
  <2> QED BY <1>2, <2>1 DEF FeeStep
<1> QED BY <1>3, <1>4

\* Every step of the handlers is one of these.
LEMMA EveryStep ==
    ASSUME IndInv, [Next]_vars
    PROVE  FeeStep
<1>1. IbcOK BY IndInvParts
<1>2. CASE Register
  <2>1. Packets' = Packets /\ feeInfos' = feeInfos
    BY <1>2 DEF Register, RegisterInterchainAccount, Packets
  <2> QED BY <2>1 DEF FeeStep, Same
<1>3. CASE ChanOpenAck
  <2>1. Packets' = Packets /\ feeInfos' = feeInfos
    BY <1>3 DEF ChanOpenAck, HandleChanOpenAck, Packets
  <2> QED BY <2>1 DEF FeeStep, Same
<1>4. CASE Submit
  <2>1. PICK c \in Contracts, id \in IcaIds, n \in MsgCounts, fee \in FeeChoices :
             SubmitTx(c, id, n, fee)
    BY <1>4 DEF Submit
  <2> DEFINE ch == active[IcaPort(c, id)]
  <2>2. /\ LockFees(c, <<ch, GetNextSequenceSend(ch)>>, fee)
        /\ CanSend(ch)
        /\ SendPacket(ch, c, NoToken)
    BY <2>1 DEF SubmitTx
  <2> HIDE DEF ch
  <2>3. NoToken \in Coins BY DEF NoToken, Coins
  <2> QED BY <1>1, <2>2, <2>3, LockShape
<1>5. CASE IcaAck
  <2>1. PICK p \in InFlight, r \in Relayers, k \in {"response", "error"}, ok \in BOOLEAN :
             HandleAcknowledgement(p, r, k, ok)
    BY <1>5 DEF IcaAck
  <2>2. Acknowledge(p) /\ DistributeAcknowledgementFee(bank, r, p)
    BY <2>1 DEF HandleAcknowledgement
  <2> QED BY <1>1, <2>2, RelayKeepsPackets, DistributionShape
<1>6. CASE IcaTimeout
  <2>1. PICK p \in InFlight, r \in Relayers, ok \in BOOLEAN : HandleTimeout(p, r, ok)
    BY <1>6 DEF IcaTimeout
  <2>2. Timeout(p) /\ DistributeTimeoutFee(bank, r, p)
    BY <2>1 DEF HandleTimeout
  <2> QED BY <1>1, <2>2, RelayKeepsPackets, DistributionShape
<1>7. CASE SendTransfer
  <2>1. PICK s \in Senders, t \in Tokens, fee \in FeeChoices : Transfer(s, 0, t, fee)
    BY <1>7 DEF SendTransfer, Senders
  <2>2. t \in Coins BY ChoicesAssumption
  <2>3. CanSend(0) /\ SendPacket(0, s, t) BY <2>1 DEF Transfer
  <2>4. CASE s \in Contracts
    <3>1. LockFees(s, <<0, GetNextSequenceSend(0)>>, fee) BY <2>1, <2>4 DEF Transfer
    <3> QED BY <1>1, <2>2, <2>3, <2>4, <3>1, LockShape
  <2>5. CASE s \notin Contracts
    <3>1. feeInfos' = feeInfos BY <2>1, <2>5 DEF Transfer
    <3> DEFINE p == <<0, GetNextSequenceSend(0)>>
    <3>2. p \in PacketIds /\ p \notin Packets /\ Packets' = Packets \cup {p}
      BY <1>1, <2>2, <2>3, SendAddsPacket
    <3> HIDE DEF p
    <3>3. SentFree(p) BY <3>1, <3>2 DEF SentFree
    <3> QED BY <3>2, <3>3 DEF FeeStep
  <2> QED BY <2>4, <2>5
<1>8. CASE TransferAck
  <2>1. PICK p \in InFlight, r \in Relayers, k \in {"response", "error"}, ok \in BOOLEAN :
             TransferAcknowledgement(p, r, k, ok)
    BY <1>8 DEF TransferAck
  <2>2. /\ Acknowledge(p)
        /\ \/ DistributeAcknowledgementFee(Refunded(bank, packets[p], k = "error"), r, p)
           \/ feeInfos' = feeInfos
    BY <2>1 DEF TransferAcknowledgement
  <2>3. Packets' = Packets BY <2>2, RelayKeepsPackets
  <2> QED BY <1>1, <2>2, <2>3, DistributionShape DEF FeeStep, Same
<1>9. CASE TransferTimedOut
  <2>1. PICK p \in InFlight, r \in Relayers, ok \in BOOLEAN : TransferTimeout(p, r, ok)
    BY <1>9 DEF TransferTimedOut
  <2>2. /\ Timeout(p)
        /\ \/ DistributeTimeoutFee(Refunded(bank, packets[p], TRUE), r, p)
           \/ feeInfos' = feeInfos
    BY <2>1, ZenonT(60) DEF TransferTimeout
  <2>3. Packets' = Packets BY <2>2, RelayKeepsPackets
  <2> QED BY <1>1, <2>2, <2>3, DistributionShape, ZenonT(60) DEF FeeStep, Same
<1>10. CASE CounterpartyRecv
  <2>1. PICK p \in InFlight : Recv(p) /\ feeInfos' = feeInfos BY <1>10 DEF CounterpartyRecv
  <2> QED BY <2>1, RelayKeepsPackets DEF FeeStep, Same
<1>11. CASE Resubmit \/ FeeGovernance \/ IctxGovernance \/ UNCHANGED vars
  <2>1. packets' = packets /\ feeInfos' = feeInfos
    BY <1>11 DEF Resubmit, FeeGovernance, IctxGovernance, UpdateFeeParams, UpdateIctxParams,
                 vars, ibcVars
  <2> QED BY <2>1 DEF FeeStep, Same, Packets
<1> QED
  BY <1>2, <1>3, <1>4, <1>5, <1>6, <1>7, <1>8, <1>9, <1>10, <1>11 DEF Next

-----------------------------------------------------------------------------
Claims(infos) == [p \in DOMAIN infos |-> Total(infos[p].fee)]

\* The balance of the module account changes as the stored fees do.
LEMMA HeldByStore ==
    ASSUME IndInv, IndInv'
    PROVE  /\ bank[FeeModule] \in Coins /\ bank'[FeeModule] \in Coins
           /\ \A d \in Denoms : /\ FiniteStore(FeeAmounts(feeInfos, d))
                                /\ bank[FeeModule][d] = SumOf(FeeAmounts(feeInfos, d))
                                /\ bank'[FeeModule][d] = SumOf(FeeAmounts(feeInfos', d))
BY FeeModuleAssumption, ZenonT(60) DEF IndInv, TypeOK, EscrowOf

\* A step of the handlers is a step of the escrow, or leaves it alone.
LEMMA StepRefines ==
    ASSUME IndInv, IndInv', [Next]_vars
    PROVE  [Escrowed!Next]_Escrowed!vars
<1> DEFINE held == bank[FeeModule]
           held2 == bank'[FeeModule]
<1>1. FeeStep BY EveryStep
<1>2. /\ held \in Coins /\ held2 \in Coins
      /\ \A d \in Denoms : /\ FiniteStore(FeeAmounts(feeInfos, d))
                           /\ held[d] = SumOf(FeeAmounts(feeInfos, d))
                           /\ held2[d] = SumOf(FeeAmounts(feeInfos', d))
  BY HeldByStore, ZenonT(60)
<1>3. IsStore(feeInfos, PacketIds, FeeInfos) /\ DOMAIN feeInfos \subseteq Packets
  BY ZenonT(60) DEF IndInv, TypeOK, FeesFollowPackets, InFlight
<1>4. \A p \in DOMAIN feeInfos : Total(feeInfos[p].fee) \in Coins
  BY <1>3, TotalType DEF IsStore, FeeInfos
<1> HIDE DEF held, held2
<1>5. feeInfos' = feeInfos => held2 = held
  BY <1>2 DEF Coins
<1>6. CASE Same
  <2>1. held2 = held /\ Packets' = Packets /\ feeInfos' = feeInfos BY <1>5, <1>6 DEF Same
  <2> QED BY <2>1 DEF Escrowed!vars, held, held2
<1>7. ASSUME NEW p \in PacketIds, SentFree(p) PROVE Escrowed!Next
  <2>1. held2 = held /\ feeInfos' = feeInfos BY <1>5, <1>7 DEF SentFree
  <2>2. Escrowed!SendFree(p) BY <1>7, <2>1 DEF SentFree, Escrowed!SendFree, held, held2
  <2> QED BY <2>2 DEF Escrowed!Next
<1>8. ASSUME NEW p \in PacketIds, Paid(p) PROVE Escrowed!Next
  <2>1. p \in DOMAIN feeInfos /\ feeInfos' = Drop(feeInfos, p) /\ Packets' = Packets
    BY <1>8 DEF Paid
  <2>2. ASSUME NEW d \in Denoms PROVE held2[d] = held[d] - Total(feeInfos[p].fee)[d]
    <3> DEFINE s == FeeAmounts(feeInfos, d)
    <3>1. p \in DOMAIN s /\ s[p] = Total(feeInfos[p].fee)[d] /\ s[p] \in Nat
      BY <1>4, <2>1 DEF FeeAmounts, Coins
    <3>2. FeeAmounts(feeInfos', d) = Drop(s, p) BY <2>1, FeeAmountsDrop
    <3> HIDE DEF s
    <3>3. FiniteStore(Drop(s, p)) /\ SumOf(s) = SumOf(Drop(s, p)) + s[p]
      BY <1>2, <3>1, SumDrop, ZenonT(60) DEF s
    <3>4. held[d] = SumOf(s) /\ held2[d] = SumOf(Drop(s, p)) BY <1>2, <3>2 DEF s
    <3>5. held[d] \in Nat /\ held2[d] \in Nat BY <1>2 DEF Coins
    <3> QED BY <3>1, <3>3, <3>4, <3>5
  <2>3. held2 = [d \in Denoms |-> held[d] - Claims(feeInfos)[p][d]]
    BY <1>2, <2>1, <2>2 DEF Coins, Claims
  <2>4. Claims(feeInfos') = Drop(Claims(feeInfos), p) BY <2>1 DEF Claims, Drop
  <2>5. Escrowed!PayOut(p)
    BY <2>1, <2>3, <2>4 DEF Escrowed!PayOut, Escrowed!Drop, Drop, Claims, held, held2
  <2> QED BY <2>5 DEF Escrowed!Next
<1>9. ASSUME NEW p \in PacketIds, NEW payer \in Contracts, NEW fee \in FeeChoices,
             SentWithFee(p, payer, fee)
      PROVE  Escrowed!Next
  <2> DEFINE info == [payer |-> payer, fee |-> fee]
  <2>1. /\ p \notin Packets /\ Packets' = Packets \cup {p}
        /\ feeInfos' = Put(feeInfos, p, info) /\ p \notin DOMAIN feeInfos
    BY <1>3, <1>9 DEF SentWithFee
  <2>2. Total(fee) \in Coins BY ChoicesAssumption, TotalType
  <2>3. ASSUME NEW d \in Denoms PROVE held2[d] = held[d] + Total(fee)[d]
    <3> DEFINE s == FeeAmounts(feeInfos, d)
    <3>1. p \notin DOMAIN s BY <2>1, ZenonT(60) DEF FeeAmounts
    <3>2. FeeAmounts(feeInfos', d) = Put(s, p, Total(fee)[d]) BY <2>1, FeeAmountsPut
    <3> HIDE DEF s
    <3>3. Total(fee)[d] \in Nat BY <2>2 DEF Coins
    <3>4. SumOf(Put(s, p, Total(fee)[d])) = SumOf(s) + Total(fee)[d]
      BY <1>2, <3>1, <3>3, SumPut DEF s
    <3> QED BY <1>2, <3>2, <3>4, ZenonT(60) DEF s
  <2>4. held2 = [d \in Denoms |-> held[d] + Total(fee)[d]]
    BY <1>2, <2>3 DEF Coins
  <2>5. Claims(feeInfos') = Put(Claims(feeInfos), p, Total(fee)) BY <2>1, ZenonT(60) DEF Claims, Put
  <2>6. Escrowed!Lock(p, Total(fee))
    BY <2>1, <2>4, <2>5, ZenonT(60) DEF Escrowed!Lock, Escrowed!Put, Put, Claims, held, held2
  <2> QED BY <2>6 DEF Escrowed!Next
<1> QED BY <1>1, <1>6, <1>7, <1>8, <1>9 DEF FeeStep

\* In the beginning the refunder holds nothing, for no packet.
LEMMA EscrowInit == Init => Escrowed!Init
<1> SUFFICES ASSUME Init PROVE Escrowed!Init OBVIOUS
<1>1. bank[FeeModule] = [d \in Denoms |-> 0]
  BY FeeModuleAssumption, ContractsAssumption, SendersAssumption DEF Init
<1>2. feeInfos = EmptyStore /\ packets = EmptyStore BY DEF Init
<1>3. Packets = {} BY <1>2 DEF Packets, EmptyStore
<1>4. Claims(feeInfos) = EmptyStore BY <1>2 DEF Claims, EmptyStore
<1> QED BY <1>1, <1>3, <1>4 DEF Escrowed!Init, Escrowed!EmptyStore, EmptyStore, Claims

\* The fee refunder as NeutronIBC's handlers use it is the abstract escrow:
\* for every set of contracts, fees and parameters, a fee is locked once, for
\* a packet id that is new, and leaves whole and once.
THEOREM RefundsAreAnEscrow == Spec => FeesAreEscrowed
<1>1. IndInv /\ IndInv' /\ [Next]_vars => [Escrowed!Next]_Escrowed!vars
  BY StepRefines
<1> QED BY <1>1, EscrowInit, Inductive, PTL DEF Spec, FeesAreEscrowed, Escrowed!Spec

\* Under the whole stack the refunder is still the abstract escrow.
THEOREM StackFeesEscrowed == StackSpec => FeesAreEscrowed
<1>1. StackInit => Escrowed!Init BY EscrowInit DEF StackInit
<1>2. StackBase /\ StackBase' /\ [StackNext]_stackVars => [Escrowed!Next]_Escrowed!vars
  <2> SUFFICES ASSUME StackBase, StackBase', [StackNext]_stackVars
               PROVE  [Escrowed!Next]_Escrowed!vars
    OBVIOUS
  <2>0. IndInv /\ IndInv' /\ TransferOnly BY DEF StackBase
  <2>1. CASE StackReceive
    <3>1. PICK t \in Tokens : Receipt(t) BY <2>0, <2>1, ReceiptLemma
    <3>2. bank'[FeeModule] = bank[FeeModule] /\ feeInfos' = feeInfos /\ packets' = packets
      BY <3>1 DEF Receipt, ibcVars
    <3> QED BY <3>2 DEF Escrowed!vars, Packets
  <2>2. CASE ~StackReceive
    <3>1. [Next]_vars BY <2>0, <2>2, StackStep
    <3> QED BY <2>0, <3>1, StepRefines
  <2> QED BY <2>1, <2>2
<1> QED
  BY <1>1, <1>2, StackBaseInit, StackBaseStep, PTL DEF StackSpec, FeesAreEscrowed, Escrowed!Spec

=============================================================================
