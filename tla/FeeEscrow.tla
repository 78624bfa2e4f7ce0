------------------------------ MODULE FeeEscrow ------------------------------
(***************************************************************************)
(* What the fee refunder promises the senders of packets: a packet's fee   *)
(* is taken at most once, before the packet exists; it is kept whole, and  *)
(* it leaves the escrow whole, in one step and once.  Who is paid what, and*)
(* which module sends the packet, is left open.                            *)
(***************************************************************************)
EXTENDS Stores

CONSTANTS Denoms,
          PacketIds,
          Amounts      \* the coins a fee may consist of

VARIABLES held,        \* coins in the escrow
          claims,      \* store: packet id -> coins locked for it
          used         \* packet ids that were ever sent

vars == <<held, claims, used>>

Init ==
    /\ held = [d \in Denoms |-> 0]
    /\ claims = EmptyStore
    /\ used = {}

\* A packet is sent with a fee.
Lock(p, c) ==
    /\ p \notin used
    /\ used' = used \cup {p}
    /\ claims' = Put(claims, p, c)
    /\ held' = [d \in Denoms |-> held[d] + c[d]]

\* A packet is sent without one.
SendFree(p) ==
    /\ p \notin used
    /\ used' = used \cup {p}
    /\ UNCHANGED <<held, claims>>

\* The packet's outcome is known: its whole fee is paid out.
PayOut(p) ==
    /\ p \in DOMAIN claims
    /\ claims' = Drop(claims, p)
    /\ held' = [d \in Denoms |-> held[d] - claims[p][d]]
    /\ UNCHANGED used

Next ==
    \/ \E p \in PacketIds, c \in Amounts : Lock(p, c)
    \/ \E p \in PacketIds : SendFree(p) \/ PayOut(p)

Spec == Init /\ [][Next]_vars

=============================================================================
