-------------------------------- MODULE IBCCore --------------------------------
(***************************************************************************)
(* The part of ibc-go the neutron modules rely on (external code): channel *)
(* ends, send sequences, packet commitments and the relayers' messages.    *)
(*                                                                         *)
(* A packet is in flight while its commitment exists.  The counterparty    *)
(* may receive it; it is then acknowledged, or else it times out, and      *)
(* either way the commitment is deleted before the callback runs, so at    *)
(* most one of the two callbacks is made.  An ORDERED channel delivers and *)
(* acknowledges in sequence and is closed by a timeout.  packets keeps the *)
(* settled packets as well; the commitments are its in-flight part.        *)
(***************************************************************************)
EXTENDS Stores

CONSTANTS MaxChannels,     \* bound: number of channel ids ever allocated
          MaxSequence      \* bound: packets sent per channel

ASSUME BoundsAssumption == MaxChannels \in Nat \ {0} /\ MaxSequence \in Nat

VARIABLES channels,        \* store: channel id -> channel end
          nextChannel,     \* the next channel id; ids are never reused
          packets          \* store: packet id -> [sender, token, status]

ibcVars == <<channels, nextChannel, packets>>

Orderings == {"ORDERED", "UNORDERED"}
ChannelIds == 0..(MaxChannels - 1)
PacketIds == ChannelIds \X (1..MaxSequence)

Packets == DOMAIN packets
InFlight == {p \in Packets : packets[p].status # "settled"}

NewChannel(port, ordering, state) ==
    [port |-> port, ordering |-> ordering, state |-> state,
     nextSend |-> 1, nextRecv |-> 1, nextAck |-> 1]

AddChannel(port, ordering) ==
    /\ nextChannel < MaxChannels
    /\ channels' = Put(channels, nextChannel, NewChannel(port, ordering, "INIT"))
    /\ nextChannel' = nextChannel + 1

GetNextSequenceSend(ch) == channels[ch].nextSend

IsOpen(ch) == ch \in DOMAIN channels /\ channels[ch].state = "OPEN"

CanSend(ch) == IsOpen(ch) /\ channels[ch].nextSend <= MaxSequence

SendPacket(ch, sender, token) ==
    /\ UNCHANGED nextChannel
    /\ packets' = Put(packets, <<ch, channels[ch].nextSend>>,
                      [sender |-> sender, token |-> token, status |-> "sent"])
    /\ channels' = [channels EXCEPT ![ch].nextSend = @ + 1]

\* The counterparty executes packet p.
CanRecv(p) ==
    /\ p \in Packets /\ packets[p].status = "sent"
    /\ channels[p[1]].ordering = "ORDERED" => channels[p[1]].nextRecv = p[2]

Recv(p) ==
    /\ UNCHANGED nextChannel
    /\ CanRecv(p)
    /\ packets' = [packets EXCEPT ![p].status = "received"]
    /\ channels' = [channels EXCEPT ![p[1]].nextRecv =
                       IF channels[p[1]].ordering = "ORDERED" THEN @ + 1 ELSE @]

\* A relayer's MsgAcknowledgement for p.
CanAcknowledge(p) ==
    /\ p \in Packets /\ packets[p].status = "received"
    /\ IsOpen(p[1])
    /\ channels[p[1]].ordering = "ORDERED" => channels[p[1]].nextAck = p[2]

Acknowledge(p) ==
    /\ UNCHANGED nextChannel
    /\ packets' = [packets EXCEPT ![p].status = "settled"]
    /\ channels' = [channels EXCEPT ![p[1]].nextAck =
                       IF channels[p[1]].ordering = "ORDERED" THEN @ + 1 ELSE @]

\* A relayer's MsgTimeout for p; possible on a closed channel as well.
CanTimeout(p) == p \in Packets /\ packets[p].status = "sent"

Timeout(p) ==
    /\ UNCHANGED nextChannel
    /\ packets' = [packets EXCEPT ![p].status = "settled"]
    /\ channels' = [channels EXCEPT ![p[1]].state =
                       IF channels[p[1]].ordering = "ORDERED" THEN "CLOSED" ELSE @]

=============================================================================
