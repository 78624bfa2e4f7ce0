-------------------------- MODULE TokenFactoryProofs --------------------------
(***************************************************************************)
(* Proofs about TokenFactory, for any denoms, accounts, hooks and messages *)
(* of hooks:                                                               *)
(*   - a denom that was given up stays so, and escrow accounts keep what   *)
(*     they owe;                                                           *)
(*   - the supply of a denom is what the accounts hold;                    *)
(*   - only a hook that is whitelisted can stop a message.                 *)
(* The invariant relates every frame's saved store to those of the frames  *)
(* inside it and to the store, which is what makes the store safe to go on *)
(* with whether a message succeeds or fails.                               *)
(***************************************************************************)
EXTENDS TokenFactory, StoreLemmas, TLAPS

\* How long the provers may take for a leaf, in seconds.
USE SMTT(30), ZenonT(30)

\* All elements of a sequence but the last.
LEMMA FrontProperties ==
    ASSUME NEW S, NEW c \in Seq(S), c # << >>
    PROVE  /\ SubSeq(c, 1, Len(c) - 1) \in Seq(S)
           /\ Len(SubSeq(c, 1, Len(c) - 1)) = Len(c) - 1
           /\ \A i \in 1..Len(c) - 1 : SubSeq(c, 1, Len(c) - 1)[i] = c[i]
<1>1. PICK n \in Nat : n = Len(c) - 1
  OBVIOUS
<1>2. SubSeq(c, 1, n) \in Seq(S)
  BY <1>1
<1>3. Len(SubSeq(c, 1, n)) = n
  BY <1>1
<1>4. \A i \in 1..n : SubSeq(c, 1, n)[i] = c[i]
  BY <1>1
<1> QED BY <1>1, <1>2, <1>3, <1>4

\* From here on leaves are translated without types.
USE Untyped

AdminStores == UNION {[D -> Accounts \cup {NoOne}] : D \in SUBSET Denoms}

HookStores == UNION {[D -> Contracts] : D \in SUBSET Denoms}

StoreSet ==
    [bank : [Holders \X Coins -> Int], supply : [Denoms -> Int], vouchers : [EscrowAddrs \X Denoms -> Int],
     metadata : SUBSET Denoms, creators : SUBSET Denoms, admins : AdminStores, hooks : HookStores]

Stored(s) == /\ s \in StoreSet
             /\ DOMAIN s.admins = s.metadata /\ s.creators = s.metadata /\ DOMAIN s.hooks \subseteq s.metadata

FrameSet ==
    [op : {"mint", "burn", "force", "send", "out", "in"}, from : Holders, to : Holders,
     coins : SUBSET Denoms, phase : {"block", "track"}, at : Coins, todo : SUBSET Denoms,
     calling : Contracts \cup {NoOne}, saved : StoreSet]

TypeInv ==
    /\ Stored(store)
    /\ calls \in Seq(FrameSet) /\ \A i \in 1..Len(calls) : Stored(calls[i].saved)
    /\ channels \subseteq EscrowAddrs /\ escrows \in [Factories -> SUBSET EscrowAddrs]
    /\ restarts \in Nat

GivenUp(s, d) == d \in DOMAIN s.admins /\ s.admins[d] = NoOne

\* What was given up in s is so in t, with the same supply and hook.
Kept(s, t) ==
    \A d \in Denoms : GivenUp(s, d) =>
        GivenUp(t, d) /\ t.supply[d] = s.supply[d] /\ HookIn(t, d) = HookIn(s, d)

\* The coins that the message of frame f burns in the end were not given up in s.
MayBurn(s, f) == f.op = "burn" => \A d \in f.coins : ~GivenUp(s, d)

KeptInv ==
    /\ \A i \in 1..Len(calls) : Kept(calls[i].saved, store)
    /\ \A i, j \in 1..Len(calls) : i < j => Kept(calls[i].saved, calls[j].saved)
    /\ \A i, j \in 1..Len(calls) : i <= j => MayBurn(calls[i].saved, calls[j])

\* With the channels of C open.
Covers(s, C) ==
    \A e \in EscrowAddrs, d \in Denoms :
        /\ s.bank[<<e, d>>] >= s.vouchers[<<e, d>>]
        /\ e \notin C => s.vouchers[<<e, d>>] = 0

\* Only an incoming transfer takes from an escrow account.
Spares(f, C) == /\ f.op = "in" => f.from \in C /\ f.to \in Accounts
                /\ f.op # "in" => f.from \notin C
                /\ f.op = "out" => f.to \in C
                /\ f.op = "burn" => f.to \in Factories

CoversInv ==
    restarts = 0 =>
       /\ Covers(store, channels)
       /\ \A i \in 1..Len(calls) : Covers(calls[i].saved, channels) /\ Spares(calls[i], channels)
       /\ \A f \in Factories : escrows[f] = channels

IInv == TypeInv /\ KeptInv /\ CoversInv

-----------------------------------------------------------------------------
(* The transfer. *)

\* Balances stay balances.
LEMMA PlusMinusType ==
    ASSUME NEW X, NEW Y, NEW b \in [X \X Y -> Int], NEW a, NEW ds
    PROVE  /\ Plus(b, a, ds) \in [X \X Y -> Int]
           /\ Minus(b, a, ds) \in [X \X Y -> Int]
  BY DEF Plus, Minus

\* What Settled changes.
LEMMA SettledFields ==
    ASSUME NEW s, Stored(s), NEW f \in FrameSet
    PROVE  /\ Stored(Settled(s, f))
           /\ Settled(s, f).admins = s.admins /\ Settled(s, f).hooks = s.hooks
           /\ f.op # "burn" => Settled(s, f).supply = s.supply
           /\ \A d \in Denoms \ f.coins : Settled(s, f).supply[d] = s.supply[d]
<1> DEFINE bank == Moved(s.bank, f.from, f.to, f.coins)
           less == [d \in Denoms |-> IF d \in f.coins THEN s.supply[d] - 1 ELSE s.supply[d]]
<1>0. /\ s.bank \in [Holders \X Coins -> Int] /\ s.vouchers \in [EscrowAddrs \X Denoms -> Int]
      /\ s.supply \in [Denoms -> Int]
  BY DEF Stored, StoreSet
<1>1. bank \in [Holders \X Coins -> Int] /\ Minus(bank, f.to, f.coins) \in [Holders \X Coins -> Int]
  <2>0. PICK b : b = s.bank
    OBVIOUS
  <2>a. b \in [Holders \X Coins -> Int]
    BY <1>0, <2>0
  <2>1. PICK m : m = Minus(b, f.from, f.coins)
    OBVIOUS
  <2>2. m \in [Holders \X Coins -> Int]
    BY <2>a, <2>1, PlusMinusType, ZenonT(60)
  <2>3. bank = Plus(m, f.to, f.coins)
    BY <2>0, <2>1 DEF Moved
  <2> HIDE DEF bank
  <2>4. bank \in [Holders \X Coins -> Int]
    BY <2>2, <2>3, PlusMinusType, ZenonT(60)
  <2> QED BY <2>4, PlusMinusType, ZenonT(60)
<1>2. /\ Plus(s.vouchers, f.to, f.coins) \in [EscrowAddrs \X Denoms -> Int]
      /\ Minus(s.vouchers, f.from, f.coins) \in [EscrowAddrs \X Denoms -> Int]
  <2>1. PICK v : v = s.vouchers
    OBVIOUS
  <2>2. v \in [EscrowAddrs \X Denoms -> Int]
    BY <1>0, <2>1
  <2>3. /\ Plus(v, f.to, f.coins) \in [EscrowAddrs \X Denoms -> Int]
        /\ Minus(v, f.from, f.coins) \in [EscrowAddrs \X Denoms -> Int]
    BY <2>2, PlusMinusType, ZenonT(60)
  <2> QED BY <2>1, <2>3
<1>3. less \in [Denoms -> Int] /\ \A d \in Denoms \ f.coins : less[d] = s.supply[d]
  BY <1>0
<1> HIDE DEF bank, less
<1>4. CASE f.op = "burn"
  <2>1. Settled(s, f) = [s EXCEPT !.bank = Minus(bank, f.to, f.coins), !.supply = less]
    BY <1>4 DEF Settled, bank, less
  <2> QED BY <1>1, <1>3, <1>4, <2>1, ZenonT(60) DEF Stored, StoreSet
<1>5. CASE f.op = "out"
  <2>1. Settled(s, f) = [s EXCEPT !.bank = bank, !.vouchers = Plus(s.vouchers, f.to, f.coins)]
    BY <1>5 DEF Settled, bank
  <2> QED BY <1>1, <1>2, <1>5, <2>1, ZenonT(60) DEF Stored, StoreSet
<1>6. CASE f.op = "in"
  <2>1. Settled(s, f) = [s EXCEPT !.bank = bank, !.vouchers = Minus(s.vouchers, f.from, f.coins)]
    BY <1>6 DEF Settled, bank
  <2> QED BY <1>1, <1>2, <1>6, <2>1, ZenonT(60) DEF Stored, StoreSet
<1>7. CASE f.op \notin {"burn", "out", "in"}
  <2>1. Settled(s, f) = [s EXCEPT !.bank = bank]
    BY <1>7 DEF Settled, bank
  <2> QED BY <1>1, <1>7, <2>1 DEF Stored, StoreSet
<1> QED BY <1>4, <1>5, <1>6, <1>7

\* A transfer that spares the escrow accounts leaves them covered.
LEMMA SettledCovers ==
    ASSUME NEW s, Stored(s), NEW f \in FrameSet, NEW C \in SUBSET EscrowAddrs,
           Covers(s, C), Spares(f, C), Pays(s.bank, f.from, f.coins)
    PROVE  Covers(Settled(s, f), C)
<1> SUFFICES ASSUME NEW e \in EscrowAddrs, NEW d \in Denoms
             PROVE  /\ Settled(s, f).bank[<<e, d>>] >= Settled(s, f).vouchers[<<e, d>>]
                    /\ e \notin C => Settled(s, f).vouchers[<<e, d>>] = 0
  BY ZenonT(60) DEF Covers
<1>1. PICK b, v : b = s.bank /\ v = s.vouchers
  OBVIOUS
<1>2. b \in [Holders \X Coins -> Int] /\ v \in [EscrowAddrs \X Denoms -> Int]
  BY <1>1 DEF Stored, StoreSet
<1>3. e \in Holders /\ d \in Coins /\ e \notin Accounts /\ e \notin Factories
  BY FactoryAssumption DEF Holders, Coins
<1>4. PICK m : m = Moved(b, f.from, f.to, f.coins)
  OBVIOUS
<1>5. /\ m \in [Holders \X Coins -> Int]
      /\ m[<<e, d>>] = b[<<e, d>>] - (IF e = f.from /\ d \in f.coins THEN 1 ELSE 0)
                                   + (IF e = f.to /\ d \in f.coins THEN 1 ELSE 0)
  BY <1>2, <1>3, <1>4 DEF Minus, Plus, Moved
<1>6. b[<<e, d>>] \in Int /\ v[<<e, d>>] \in Int
  BY <1>2, <1>3
<1>7. /\ b[<<e, d>>] >= v[<<e, d>>]
      /\ e \notin C => v[<<e, d>>] = 0
      /\ e = f.from /\ d \in f.coins => b[<<e, d>>] >= 1
  BY <1>1 DEF Covers, Pays
<1>8. CASE f.op = "burn"
  <2>1. Settled(s, f).bank = Minus(m, f.to, f.coins) /\ Settled(s, f).vouchers = v
    BY <1>1, <1>4, <1>8, ZenonT(60) DEF Settled, Stored, StoreSet
  <2>2. Minus(m, f.to, f.coins)[<<e, d>>] = m[<<e, d>>]
    BY <1>3, <1>5, <1>8 DEF Spares, Minus
  <2>3. f.from \notin C
    BY <1>8 DEF Spares
  <2> QED BY <1>3, <1>5, <1>6, <1>7, <2>1, <2>2, <2>3
<1>9. CASE f.op = "out"
  <2>1. Settled(s, f).bank = m /\ Settled(s, f).vouchers = Plus(v, f.to, f.coins)
    BY <1>1, <1>4, <1>9, ZenonT(60) DEF Settled, Stored, StoreSet
  <2>2. Plus(v, f.to, f.coins)[<<e, d>>] = IF e = f.to /\ d \in f.coins THEN v[<<e, d>>] + 1 ELSE v[<<e, d>>]
    BY <1>2 DEF Plus, Minus
  <2>3. f.from \notin C /\ f.to \in C
    BY <1>9 DEF Spares
  <2> QED BY <1>5, <1>6, <1>7, <2>1, <2>2, <2>3
<1>10. CASE f.op = "in"
  <2>1. Settled(s, f).bank = m /\ Settled(s, f).vouchers = Minus(v, f.from, f.coins)
    BY <1>1, <1>4, <1>10, ZenonT(60) DEF Settled, Stored, StoreSet
  <2>2. Minus(v, f.from, f.coins)[<<e, d>>] = IF e = f.from /\ d \in f.coins THEN v[<<e, d>>] - 1 ELSE v[<<e, d>>]
    BY <1>2 DEF Plus, Minus
  <2>3. f.from \in C /\ f.to # e
    BY <1>3, <1>10 DEF Spares
  <2> QED BY <1>5, <1>6, <1>7, <2>1, <2>2, <2>3
<1>11. CASE f.op \notin {"burn", "out", "in"}
  <2>1. Settled(s, f).bank = m /\ Settled(s, f).vouchers = v
    BY <1>1, <1>4, <1>11 DEF Settled, Stored, StoreSet
  <2>2. f.from \notin C
    BY <1>11 DEF Spares
  <2> QED BY <1>5, <1>6, <1>7, <2>1, <2>2
<1> QED BY <1>8, <1>9, <1>10, <1>11

\* A transfer keeps what it may not burn.
LEMMA SettledKept ==
    ASSUME NEW r, NEW s, Stored(s), NEW f \in FrameSet, Kept(r, s), MayBurn(r, f)
    PROVE  Kept(r, Settled(s, f))
<1>1. /\ Settled(s, f).admins = s.admins /\ Settled(s, f).hooks = s.hooks
      /\ f.op # "burn" => Settled(s, f).supply = s.supply
      /\ \A d \in Denoms \ f.coins : Settled(s, f).supply[d] = s.supply[d]
  BY SettledFields
<1> QED BY <1>1 DEF Kept, GivenUp, MayBurn, HookIn

\* Keeping is transitive.
LEMMA KeptTransitive ==
    ASSUME NEW r, NEW s, NEW t, Kept(r, s), Kept(s, t)
    PROVE  Kept(r, t)
  BY DEF Kept

-----------------------------------------------------------------------------
(* The shapes of a step that leaves the channels alone: it changes the store,
   begins a message, waits for the next hook of one, or ends one. *)

SameMessage(g, f) == /\ g.op = f.op /\ g.from = f.from /\ g.to = f.to /\ g.coins = f.coins
                     /\ g.saved = f.saved

Steady == UNCHANGED <<channels, escrows, restarts>>

\* The store changes to one that keeps what was given up and covers the channels.
Sound == /\ Stored(store') /\ Kept(store, store')
         /\ restarts = 0 => Covers(store', channels)

Quiet == Steady /\ Sound /\ calls' = calls

Push == /\ Steady /\ Sound
        /\ \E g \in FrameSet : /\ calls' = Append(calls, g) /\ g.saved = store
                               /\ MayBurn(store, g) /\ (restarts = 0 => Spares(g, channels))

Wait == /\ Steady /\ store' = store /\ calls # << >>
        /\ \E g \in FrameSet : SameMessage(g, Top) /\ calls' = [calls EXCEPT ![Len(calls)] = g]

Pop == /\ Steady /\ calls # << >> /\ calls' = SubSeq(calls, 1, Len(calls) - 1)
       /\ \/ store' = Top.saved
          \/ \E f \in FrameSet : /\ SameMessage(f, Top) /\ Pays(store.bank, f.from, f.coins)
                                 /\ store' = Settled(store, f)

\* A change of the store within the innermost message is sound for all.
LEMMA QuietKeeps == IInv /\ Quiet => IInv' /\ Kept(Committed, Committed')
<1> SUFFICES ASSUME IInv, Quiet PROVE IInv' /\ Kept(Committed, Committed')
  OBVIOUS
<1> USE DEF Quiet, Steady, Sound
<1>1. TypeInv'
  BY DEF IInv, TypeInv
<1>2. \A i \in 1..Len(calls) : Kept(calls[i].saved, store')
  BY KeptTransitive DEF IInv, KeptInv
<1>3. KeptInv'
  BY <1>2 DEF IInv, KeptInv
<1>4. CoversInv'
  BY DEF IInv, CoversInv
<1>5. Kept(Committed, Committed')
  BY DEF Committed, Kept
<1> QED BY <1>1, <1>3, <1>4, <1>5 DEF IInv

\* A new message may burn what the messages around it may.
LEMMA PushKeeps == IInv /\ Push => IInv' /\ Kept(Committed, Committed')
<1> SUFFICES ASSUME IInv, Push PROVE IInv' /\ Kept(Committed, Committed')
  OBVIOUS
<1>0. PICK g \in FrameSet : /\ calls' = Append(calls, g) /\ g.saved = store
                            /\ MayBurn(store, g) /\ (restarts = 0 => Spares(g, channels))
  BY DEF Push
<1> USE DEF Steady, Sound
<1>a. Steady /\ Sound
  BY DEF Push
<1>b. calls \in Seq(FrameSet) /\ Stored(store)
  BY DEF IInv, TypeInv
<1>1. /\ Len(calls') = Len(calls) + 1 /\ Len(calls) \in Nat
      /\ calls'[Len(calls) + 1] = g
      /\ \A i \in 1..Len(calls) : calls'[i] = calls[i]
      /\ calls' \in Seq(FrameSet)
  BY <1>0, <1>b
<1>2. TypeInv'
  BY <1>0, <1>1, <1>a, <1>b DEF IInv, TypeInv
<1>3. \A i \in 1..Len(calls) : Kept(calls[i].saved, store) /\ Kept(calls[i].saved, store')
  BY <1>a, KeptTransitive DEF IInv, KeptInv
<1>4. \A i \in 1..Len(calls) : MayBurn(calls[i].saved, g)
  BY <1>0, <1>3 DEF MayBurn, Kept, FrameSet
<1>5. KeptInv'
  <2>1. \A i \in 1..Len(calls') : Kept(calls'[i].saved, store')
    BY <1>0, <1>1, <1>3, <1>a
  <2>2. \A i, j \in 1..Len(calls') : i < j => Kept(calls'[i].saved, calls'[j].saved)
    <3> SUFFICES ASSUME NEW i \in 1..Len(calls'), NEW j \in 1..Len(calls'), i < j
                 PROVE  Kept(calls'[i].saved, calls'[j].saved)
      OBVIOUS
    <3>1. i \in 1..Len(calls) /\ calls'[i] = calls[i]
      BY <1>1
    <3>2. CASE j = Len(calls) + 1
      BY <1>0, <1>1, <1>3, <3>1, <3>2
    <3>3. CASE j # Len(calls) + 1
      <4>1. j \in 1..Len(calls) /\ calls'[j] = calls[j]
        BY <1>1, <3>3
      <4> QED BY <3>1, <4>1 DEF IInv, KeptInv
    <3> QED BY <3>2, <3>3
  <2>3. \A i, j \in 1..Len(calls') : i <= j => MayBurn(calls'[i].saved, calls'[j])
    BY <1>0, <1>1, <1>4 DEF IInv, KeptInv
  <2> QED BY <2>1, <2>2, <2>3 DEF KeptInv
<1>6. CoversInv'
  BY <1>0, <1>1, <1>a DEF IInv, CoversInv
<1>7. Kept(Committed, Committed')
  <2>1. Committed' = Committed
    BY <1>0, <1>1, <1>b DEF Committed
  <2> QED BY <2>1 DEF Kept
<1> QED BY <1>2, <1>5, <1>6, <1>7 DEF IInv

\* Waiting for the next hook changes nothing that matters.
LEMMA WaitKeeps == IInv /\ Wait => IInv' /\ Kept(Committed, Committed')
<1> SUFFICES ASSUME IInv, Wait PROVE IInv' /\ Kept(Committed, Committed')
  OBVIOUS
<1>0. PICK g \in FrameSet : SameMessage(g, Top) /\ calls' = [calls EXCEPT ![Len(calls)] = g]
  BY ZenonT(60) DEF Wait
<1>a. Steady /\ store' = store /\ calls # << >>
  BY DEF Wait
<1>b. calls \in Seq(FrameSet)
  BY DEF IInv, TypeInv
<1>1. /\ Len(calls') = Len(calls) /\ Len(calls) \in Nat \ {0}
      /\ calls' \in Seq(FrameSet)
      /\ \A i \in 1..Len(calls) : i # Len(calls) => calls'[i] = calls[i]
      /\ calls'[Len(calls)] = g
  BY <1>0, <1>a, <1>b
<1>2. \A i \in 1..Len(calls) : SameMessage(calls'[i], calls[i])
  BY <1>0, <1>1, ZenonT(60) DEF SameMessage, Top
<1>3. TypeInv'
  BY <1>1, <1>2, <1>a DEF IInv, TypeInv, Steady, SameMessage
<1>4. KeptInv'
  BY <1>1, <1>2, <1>a DEF IInv, KeptInv, SameMessage, MayBurn
<1>5. CoversInv'
  BY <1>1, <1>2, <1>a DEF IInv, CoversInv, SameMessage, Spares, Steady
<1>6. calls' # << >> /\ calls'[1].saved = calls[1].saved
  BY <1>1, <1>2 DEF SameMessage
<1>7. Kept(Committed, Committed')
  BY <1>6, <1>a DEF Committed, Kept
<1> QED BY <1>3, <1>4, <1>5, <1>7 DEF IInv

\* A message ends with the store it began with, or with its transfer.
LEMMA PopKeeps == IInv /\ Pop => IInv' /\ Kept(Committed, Committed')
<1> SUFFICES ASSUME IInv, Pop PROVE IInv' /\ Kept(Committed, Committed')
  OBVIOUS
<1>a. Steady /\ calls # << >> /\ calls' = SubSeq(calls, 1, Len(calls) - 1)
  BY DEF Pop
<1>b. /\ calls \in Seq(FrameSet) /\ Stored(store)
      /\ \A i \in 1..Len(calls) : Stored(calls[i].saved)
      /\ channels \in SUBSET EscrowAddrs
  BY DEF IInv, TypeInv
<1>1. /\ Len(calls) \in Nat \ {0} /\ Len(calls') = Len(calls) - 1
      /\ calls' \in Seq(FrameSet)
      /\ \A i \in 1..Len(calls') : calls'[i] = calls[i]
      /\ Len(calls) \in 1..Len(calls) /\ Top = calls[Len(calls)]
  <2>1. Len(calls) \in Nat \ {0} /\ Top = calls[Len(calls)]
    BY <1>a, <1>b DEF Top
  <2>2. /\ calls' \in Seq(FrameSet) /\ Len(calls') = Len(calls) - 1
        /\ \A i \in 1..Len(calls) - 1 : calls'[i] = calls[i]
    BY <1>a, <1>b, FrontProperties
  <2> QED BY <2>1, <2>2
<1>2. Stored(store') /\ (restarts = 0 => Covers(store', channels))
  <2>1. CASE store' = Top.saved
    BY <1>1, <1>b, <2>1 DEF IInv, CoversInv
  <2>2. ASSUME NEW f \in FrameSet, SameMessage(f, Top), Pays(store.bank, f.from, f.coins),
               store' = Settled(store, f)
        PROVE  Stored(store') /\ (restarts = 0 => Covers(store', channels))
    <3>1. Stored(store')
      BY <1>b, <2>2, SettledFields
    <3>2. ASSUME restarts = 0 PROVE Covers(store, channels) /\ Spares(f, channels)
      BY <1>1, <2>2, <3>2 DEF IInv, CoversInv, SameMessage, Spares
    <3> QED BY <1>b, <2>2, <3>1, <3>2, SettledCovers
  <2> QED BY <2>1, <2>2 DEF Pop
<1>3. \A i \in 1..Len(calls) : Kept(calls[i].saved, store')
  <2> SUFFICES ASSUME NEW i \in 1..Len(calls) PROVE Kept(calls[i].saved, store')
    OBVIOUS
  <2>1. CASE store' = Top.saved
    <3>1. CASE i = Len(calls)
      BY <1>1, <2>1, <3>1 DEF Kept
    <3>2. CASE i # Len(calls)
      BY <1>1, <2>1, <3>2 DEF IInv, KeptInv
    <3> QED BY <3>1, <3>2
  <2>2. ASSUME NEW f \in FrameSet, SameMessage(f, Top), store' = Settled(store, f)
        PROVE  Kept(calls[i].saved, store')
    <3>1. Kept(calls[i].saved, store) /\ MayBurn(calls[i].saved, f)
      BY <1>1, <2>2 DEF IInv, KeptInv, SameMessage, MayBurn
    <3> QED BY <1>b, <2>2, <3>1, SettledKept
  <2> QED BY <2>1, <2>2 DEF Pop
<1>4. TypeInv'
  BY <1>1, <1>2, <1>a DEF IInv, TypeInv, Steady
<1>5. KeptInv'
  <2>1. \A i \in 1..Len(calls') : i \in 1..Len(calls) /\ calls'[i] = calls[i]
    BY <1>1
  <2>2. \A i \in 1..Len(calls') : Kept(calls'[i].saved, store')
    BY <1>3, <2>1
  <2>3. \A i, j \in 1..Len(calls') : i < j => Kept(calls'[i].saved, calls'[j].saved)
    BY <2>1 DEF IInv, KeptInv
  <2>4. \A i, j \in 1..Len(calls') : i <= j => MayBurn(calls'[i].saved, calls'[j])
    BY <2>1 DEF IInv, KeptInv
  <2> QED BY <2>2, <2>3, <2>4 DEF KeptInv
<1>6. CoversInv'
  BY <1>1, <1>2, <1>a DEF IInv, CoversInv, Steady
<1>7. Kept(Committed, Committed')
  <2>1. CASE Len(calls) = 1
    <3>1. Committed = calls[1].saved /\ Committed' = store'
      BY <1>1, <1>a, <2>1 DEF Committed
    <3> QED BY <1>1, <1>3, <3>1
  <2>2. CASE Len(calls) # 1
    <3>1. calls' # << >> /\ calls'[1] = calls[1]
      BY <1>1, <2>2
    <3>2. Committed = calls[1].saved /\ Committed' = calls[1].saved
      BY <1>a, <3>1 DEF Committed
    <3> QED BY <3>2 DEF Kept
  <2> QED BY <2>1, <2>2
<1> QED BY <1>4, <1>5, <1>6, <1>7 DEF IInv

-----------------------------------------------------------------------------
(* Every action takes a step of one of the shapes. *)

\* A frame at a hook is the frame of the same message.
LEMMA AtHookFrame ==
    ASSUME Stored(store), NEW f \in FrameSet, NEW g \in AtHook(f)
    PROVE  g \in FrameSet /\ SameMessage(g, f)
<1>1. PICK d \in f.todo : g = [f EXCEPT !.at = d, !.todo = {e \in f.todo : Rank[e] > Rank[d]}, !.calling = HookOf(d)]
  BY ZenonT(60) DEF AtHook
<1>2. f.todo \in SUBSET Denoms
  BY DEF FrameSet
<1>3. {e \in f.todo : Rank[e] > Rank[d]} \in SUBSET Denoms /\ d \in Coins
  BY <1>2 DEF Coins
<1>4. store.hooks \in HookStores
  BY DEF Stored, StoreSet
<1>5. HookOf(d) \in Contracts \cup {NoOne}
  BY <1>4 DEF HookOf, HookIn, HookStores
<1> HIDE DEF HookOf
<1>6. g \in FrameSet
  BY <1>1, <1>3, <1>5, ZenonT(60) DEF FrameSet
<1>7. SameMessage(g, f)
  BY <1>1 DEF FrameSet, SameMessage
<1> QED BY <1>6, <1>7

\* SendCoins begins a message, or makes the transfer at once.
LEMMA SendCoinsShape ==
    ASSUME IInv, NEW op \in {"mint", "burn", "force", "send", "out", "in"}, NEW s, NEW from \in Holders,
           NEW to \in Holders, NEW coins \in SUBSET Denoms, SendCoins(op, s, from, to, coins),
           Stored(s), Kept(store, s), restarts = 0 => Covers(s, channels),
           op = "burn" => \A d \in coins : ~GivenUp(store, d),
           restarts = 0 => /\ op = "in" => from \in channels /\ to \in Accounts
                           /\ op # "in" => from \notin channels
                           /\ op = "out" => to \in channels
                           /\ op = "burn" => to \in Factories
    PROVE  Quiet \/ Push
<1> DEFINE f == [op |-> op, from |-> from, to |-> to, coins |-> coins, phase |-> "block",
                 at |-> Native, todo |-> coins, calling |-> NoOne, saved |-> store]
<1>0. Stored(store) /\ channels \in SUBSET EscrowAddrs
  BY DEF IInv, TypeInv
<1>1. f \in FrameSet
  BY <1>0, ZenonT(60) DEF FrameSet, Stored, Coins
<1>2. f.op = op /\ f.from = from /\ f.to = to /\ f.coins = coins /\ f.saved = store
  OBVIOUS
<1>3. /\ Steady
      /\ \/ \E g \in AtHook(f) : store' = s /\ calls' = Append(calls, g)
         \/ Pays(s.bank, from, coins) /\ store' = Settled(s, f) /\ calls' = calls
  BY DEF SendCoins, Steady
<1> HIDE DEF f
<1>4. MayBurn(store, f) /\ (restarts = 0 => Spares(f, channels))
  BY <1>2 DEF MayBurn, Spares
<1>5. ASSUME NEW g \in AtHook(f), store' = s, calls' = Append(calls, g)
      PROVE  Push
  <2>1. g \in FrameSet /\ SameMessage(g, f)
    BY <1>0, <1>1, AtHookFrame
  <2>2. g.saved = store /\ MayBurn(store, g) /\ (restarts = 0 => Spares(g, channels))
    BY <1>2, <1>4, <2>1, ZenonT(60) DEF SameMessage, MayBurn, Spares
  <2> QED BY <1>3, <1>5, <2>1, <2>2 DEF Push, Sound
<1>6. ASSUME Pays(s.bank, from, coins), store' = Settled(s, f), calls' = calls
      PROVE  Quiet
  <2>1. Stored(store')
    BY <1>1, <1>6, SettledFields, ZenonT(60)
  <2>2. Kept(store, store')
    BY <1>1, <1>4, <1>6, SettledKept
  <2>3. restarts = 0 => Covers(store', channels)
    BY <1>0, <1>1, <1>2, <1>4, <1>6, SettledCovers, ZenonT(60)
  <2> QED BY <1>3, <1>6, <2>1, <2>2, <2>3 DEF Quiet, Sound
<1> QED BY <1>3, <1>5, <1>6

\* A frame that goes on waits or returns.
LEMMA ProceedShape ==
    ASSUME IInv, calls # << >>, NEW f \in FrameSet, SameMessage(f, Top), Proceed(f)
    PROVE  Wait \/ Pop
<1>0. Stored(store)
  BY DEF IInv, TypeInv
<1>1. ASSUME NEW g \in AtHook(f), Await(g) PROVE Wait
  <2>1. g \in FrameSet /\ SameMessage(g, f)
    BY <1>0, AtHookFrame
  <2>2. SameMessage(g, Top)
    BY <2>1 DEF SameMessage
  <2> QED BY <1>1, <2>1, <2>2, ZenonT(60) DEF Wait, Await, Steady
<1>2. ASSUME NEW g \in AtHook(Tracking(f)), Await(g) PROVE Wait
  <2>0. Tracking(f) \in FrameSet /\ SameMessage(Tracking(f), f)
    BY ZenonT(60) DEF Tracking, FrameSet, SameMessage
  <2>1. g \in FrameSet /\ SameMessage(g, Tracking(f))
    BY <1>0, <2>0, AtHookFrame
  <2>2. SameMessage(g, Top)
    BY <2>0, <2>1 DEF SameMessage
  <2> QED BY <1>2, <2>1, <2>2, ZenonT(60) DEF Wait, Await, Steady
<1>3. ASSUME Return(IF Pays(store.bank, f.from, f.coins) THEN Settled(store, f) ELSE f.saved)
      PROVE  Pop
  <2>1. Steady /\ calls' = SubSeq(calls, 1, Len(calls) - 1)
    BY <1>3 DEF Return, Steady
  <2>2. CASE Pays(store.bank, f.from, f.coins)
    BY <1>3, <2>1, <2>2 DEF Return, Pop
  <2>3. CASE ~Pays(store.bank, f.from, f.coins)
    <3>1. store' = Top.saved
      BY <1>3, <2>3, ZenonT(60) DEF Return, SameMessage
    <3> QED BY <2>1, <3>1 DEF Pop
  <2> QED BY <2>2, <2>3
<1> QED BY <1>1, <1>2, <1>3 DEF Proceed

\* Only an administrator acts on a denom, so it was not given up.
LEMMA AdminActs ==
    ASSUME NEW a \in Accounts, NEW d \in Denoms, a = Admin(d)
    PROVE  ~GivenUp(store, d) /\ d \in DOMAIN store.admins
  BY FactoryAssumption DEF Admin, GivenUp

\* CreateDenom adds a denom that was not there.
LEMMA CreateDenomShape == ASSUME IInv, NEW d \in Denoms, CreateDenom(d) PROVE Quiet
<1> DEFINE fee == params[d.factory].fee
           paid == [store EXCEPT !.bank = IF fee = 0 THEN @ ELSE Moved(@, d.creator, FeeCollector, {Native})]
           made == WithDenom(paid, d, d.creator)
<1>0. Stored(store)
  BY DEF IInv, TypeInv
<1>1. /\ d \notin store.metadata /\ store' = made
      /\ Steady /\ calls' = calls
  BY DEF CreateDenom, CanCreateDenom, Change, Steady
<1>2. PICK b, m : b = store.bank /\ m = IF fee = 0 THEN b ELSE Moved(b, d.creator, FeeCollector, {Native})
  OBVIOUS
<1>3. b \in [Holders \X Coins -> Int]
  BY <1>0, <1>2 DEF Stored, StoreSet
<1>4. m \in [Holders \X Coins -> Int]
  BY <1>2, <1>3 DEF Moved, Plus, Minus
<1>5. \A e \in EscrowAddrs, x \in Denoms : m[<<e, x>>] = b[<<e, x>>]
  BY <1>2, <1>3, FactoryAssumption, ZenonT(60) DEF Moved, Plus, Minus, Holders, Coins
<1>6. made = [store EXCEPT !.bank = m, !.metadata = @ \cup {d}, !.admins = Put(@, d, d.creator), !.creators = @ \cup {d}]
  BY <1>0, <1>2, ZenonT(60) DEF WithDenom, Stored, StoreSet
<1>7. /\ Put(store.admins, d, d.creator) \in AdminStores
      /\ DOMAIN Put(store.admins, d, d.creator) = store.metadata \cup {d}
      /\ \A x \in store.metadata : Put(store.admins, d, d.creator)[x] = store.admins[x]
  <2>1. store.admins \in [store.metadata -> Accounts \cup {NoOne}] /\ store.metadata \in SUBSET Denoms
    BY <1>0 DEF Stored, StoreSet, AdminStores
  <2>2. Put(store.admins, d, d.creator) \in [store.metadata \cup {d} -> Accounts \cup {NoOne}]
    BY <2>1, FactoryAssumption, ZenonT(60) DEF Put
  <2>3. store.metadata \cup {d} \in SUBSET Denoms
    BY <2>1, ZenonT(60)
  <2> QED BY <1>1, <2>1, <2>2, <2>3 DEF AdminStores, Put
<1> HIDE DEF fee, paid, made
<1>8. PICK A : A = Put(store.admins, d, d.creator)
  OBVIOUS
<1>9. /\ store'.admins = A /\ store'.metadata = store.metadata \cup {d} /\ store'.creators = store.creators \cup {d}
      /\ store'.bank = m /\ store'.supply = store.supply /\ store'.vouchers = store.vouchers
      /\ store'.hooks = store.hooks
      /\ store' \in [bank : {m}, supply : {store.supply}, vouchers : {store.vouchers}, admins : {A}, hooks : {store.hooks},
                     metadata : {store.metadata \cup {d}}, creators : {store.creators \cup {d}}]
  BY <1>0, <1>1, <1>6, <1>8, ZenonT(60) DEF Stored, StoreSet
<1>10. Stored(store')
  <2>1. A \in AdminStores /\ DOMAIN A = store.metadata \cup {d} /\ store.metadata \cup {d} \in SUBSET Denoms
    BY <1>0, <1>7, <1>8 DEF Stored, StoreSet
  <2>2. /\ store.supply \in [Denoms -> Int] /\ store.vouchers \in [EscrowAddrs \X Denoms -> Int]
        /\ store.hooks \in HookStores /\ store.creators = store.metadata
        /\ DOMAIN store.hooks \subseteq store.metadata
    BY <1>0 DEF Stored, StoreSet
  <2>3. store' \in StoreSet
    BY <1>4, <1>9, <2>1, <2>2, ZenonT(60) DEF StoreSet
  <2> QED BY <1>9, <2>1, <2>2, <2>3 DEF Stored
<1>11. Kept(store, store')
  <2> SUFFICES ASSUME NEW x \in Denoms, GivenUp(store, x)
               PROVE  GivenUp(store', x) /\ store'.supply[x] = store.supply[x] /\ HookIn(store', x) = HookIn(store, x)
    BY DEF Kept
  <2>1. x \in store.metadata
    BY <1>0 DEF GivenUp, Stored
  <2>2. x \in DOMAIN A /\ A[x] = store.admins[x]
    BY <1>7, <1>8, <2>1
  <2> QED BY <1>9, <2>2 DEF GivenUp, HookIn
<1>12. restarts = 0 => Covers(store', channels)
  <2>1. restarts = 0 => Covers(store, channels)
    BY DEF IInv, CoversInv
  <2>2. \A e \in EscrowAddrs, x \in Denoms : store'.bank[<<e, x>>] = store.bank[<<e, x>>]
    BY <1>2, <1>5, <1>9, ZenonT(60)
  <2>3. store'.vouchers = store.vouchers
    BY <1>9
  <2> QED BY <2>1, <2>2, <2>3, ZenonT(60) DEF Covers
<1> QED BY <1>1, <1>10, <1>11, <1>12 DEF Quiet, Sound

\* mintTo adds to the supply of a denom that has an administrator.
LEMMA MintShape ==
    ASSUME IInv, NEW a \in Accounts, NEW d \in Denoms, NEW to \in Holders, Mint(a, d, to)
    PROVE  Quiet \/ Push
<1> DEFINE minted == [store EXCEPT !.bank[<<d.factory, d>>] = @ + 1, !.supply[d] = @ + 1]
<1>0. Stored(store) /\ d.factory \in Holders /\ d.factory \notin EscrowAddrs /\ d \in Coins
  BY FactoryAssumption, ZenonT(60) DEF IInv, TypeInv, Holders, Coins
<1>1. ~GivenUp(store, d) /\ SendCoins("mint", minted, d.factory, to, {d})
  BY AdminActs DEF Mint
<1>2. PICK b, u : b = store.bank /\ u = store.supply
  OBVIOUS
<1>3. b \in [Holders \X Coins -> Int] /\ u \in [Denoms -> Int]
  BY <1>0, <1>2 DEF Stored, StoreSet
<1>4. /\ minted.bank = [b EXCEPT ![<<d.factory, d>>] = @ + 1]
      /\ minted.supply = [u EXCEPT ![d] = @ + 1]
      /\ minted = [store EXCEPT !.bank = [b EXCEPT ![<<d.factory, d>>] = @ + 1], !.supply = [u EXCEPT ![d] = @ + 1]]
      /\ minted.admins = store.admins /\ minted.hooks = store.hooks /\ minted.vouchers = store.vouchers
  BY <1>0, <1>2 DEF Stored, StoreSet
<1> HIDE DEF minted
<1>5. PICK c, w : c = [b EXCEPT ![<<d.factory, d>>] = @ + 1] /\ w = [u EXCEPT ![d] = @ + 1]
  BY ZenonT(60)
<1>a. PICK m : m = d.factory
  OBVIOUS
<1>b. m \in Holders /\ m \notin EscrowAddrs /\ c = [b EXCEPT ![<<m, d>>] = @ + 1]
  BY <1>0, <1>5, <1>a
<1>c. c \in [Holders \X Coins -> Int]
  BY <1>0, <1>3, <1>b
<1>d. w \in [Denoms -> Int] /\ \A x \in Denoms : x # d => w[x] = u[x]
  BY <1>3, <1>5
<1>7. \A e \in EscrowAddrs, x \in Denoms : c[<<e, x>>] = b[<<e, x>>]
  BY <1>0, <1>3, <1>b DEF Holders, Coins
<1>8. Stored(minted)
  BY <1>0, <1>4, <1>5, <1>c, <1>d, ZenonT(60) DEF Stored, StoreSet
<1>9. Kept(store, minted)
  BY <1>1, <1>2, <1>4, <1>5, <1>d DEF Kept, GivenUp, HookIn
<1>10. restarts = 0 => Covers(minted, channels)
  <2>1. restarts = 0 => Covers(store, channels)
    BY DEF IInv, CoversInv
  <2>2. \A e \in EscrowAddrs, x \in Denoms : minted.bank[<<e, x>>] = store.bank[<<e, x>>]
    <3>1. minted.bank = c
      BY <1>4, <1>5
    <3> QED BY <1>2, <1>7, <3>1, ZenonT(60)
  <2>3. minted.vouchers = store.vouchers
    BY <1>4
  <2> QED BY <2>1, <2>2, <2>3 DEF Covers
<1>11. d.factory \notin channels
  BY <1>0 DEF IInv, TypeInv
<1> QED BY <1>0, <1>1, <1>8, <1>9, <1>10, <1>11, SendCoinsShape

\* The messages that begin with a transfer.
LEMMA TransferShape ==
    ASSUME IInv, NEW op \in {"burn", "force", "send", "out", "in"}, NEW from \in Holders, NEW to \in Holders,
           NEW coins \in SUBSET Denoms, SendCoins(op, store, from, to, coins),
           op = "burn" => \A d \in coins : ~GivenUp(store, d),
           restarts = 0 => /\ op = "in" => from \in channels /\ to \in Accounts
                           /\ op # "in" => from \notin channels
                           /\ op = "out" => to \in channels
                           /\ op = "burn" => to \in Factories
    PROVE  Quiet \/ Push
<1>1. Stored(store) /\ Kept(store, store) /\ (restarts = 0 => Covers(store, channels))
  BY DEF IInv, TypeInv, Kept, CoversInv
<1> QED BY <1>1, SendCoinsShape

\* What burnFrom and forceTransfer may take from is no open channel's.
LEMMA InBoundsSpares ==
    ASSUME IInv, NEW d \in Denoms, NEW x, InBounds(d.factory, x)
    PROVE  restarts = 0 => x \notin channels
  BY FactoryAssumption DEF IInv, CoversInv, InBounds, IsEscrowAddress

\* A bank send.
LEMMA BankSendShape ==
    ASSUME IInv, NEW a \in Accounts, NEW x \in Holders, NEW coins \in CoinSets, BankSend(a, x, coins)
    PROVE  Quiet \/ Push
<1>1. SendCoins("send", store, a, x, coins) /\ coins \in SUBSET Denoms
  BY FactoryAssumption, ZenonT(60) DEF BankSend
<1>2. a \in Holders /\ a \notin channels
  BY FactoryAssumption, ZenonT(60) DEF IInv, TypeInv, Holders
<1> QED BY <1>1, <1>2, TransferShape

\* Burns, forced transfers and ICS-20 transfers.
LEMMA SendsShape ==
    ASSUME IInv, NEW a \in Accounts, NEW d \in Denoms, NEW x \in Holders
    PROVE  /\ Burn(a, d, x) => Quiet \/ Push
           /\ \A y \in Holders : ForceTransfer(a, d, x, y) => Quiet \/ Push
           /\ \A e \in EscrowAddrs : TransferOut(a, e, d) \/ TransferIn(e, a, d) => Quiet \/ Push
<1>0. a \in Holders /\ d.factory \in Factories /\ d.factory \in Holders /\ {d} \in SUBSET Denoms
      /\ EscrowAddrs \subseteq Holders
  BY FactoryAssumption, ZenonT(60) DEF Holders
<1>1. channels \subseteq EscrowAddrs /\ a \notin channels
  BY FactoryAssumption, ZenonT(60) DEF IInv, TypeInv
<1>2. ASSUME Burn(a, d, x) PROVE Quiet \/ Push
  <2>1. ~GivenUp(store, d) /\ SendCoins("burn", store, x, d.factory, {d})
    BY <1>2, AdminActs DEF Burn
  <2>2. restarts = 0 => x \notin channels
    BY <1>2, InBoundsSpares DEF Burn
  <2> QED BY <1>0, <2>1, <2>2, TransferShape
<1>3. ASSUME NEW y \in Holders, ForceTransfer(a, d, x, y) PROVE Quiet \/ Push
  <2>1. SendCoins("force", store, x, y, {d})
    BY <1>3 DEF ForceTransfer
  <2>2. restarts = 0 => x \notin channels
    BY <1>3, InBoundsSpares DEF ForceTransfer
  <2> QED BY <1>0, <2>1, <2>2, TransferShape
<1>4. ASSUME NEW e \in EscrowAddrs, TransferOut(a, e, d) PROVE Quiet \/ Push
  <2>1. SendCoins("out", store, a, e, {d}) /\ e \in channels
    BY <1>4 DEF TransferOut
  <2> QED BY <1>0, <1>1, <2>1, TransferShape
<1>5. ASSUME NEW e \in EscrowAddrs, TransferIn(e, a, d) PROVE Quiet \/ Push
  <2>1. SendCoins("in", store, e, a, {d}) /\ e \in channels
    BY <1>5 DEF TransferIn
  <2> QED BY <1>0, <1>1, <2>1, TransferShape
<1> QED BY <1>2, <1>3, <1>4, <1>5

\* ChangeAdmin changes a denom that has an administrator.
LEMMA ChangeAdminShape ==
    ASSUME IInv, NEW a \in Accounts, NEW d \in Denoms, NEW x \in Accounts \cup {NoOne}, ChangeAdmin(a, d, x)
    PROVE  Quiet
<1>0. Stored(store) /\ (restarts = 0 => Covers(store, channels))
  BY DEF IInv, TypeInv, CoversInv
<1>1. ~GivenUp(store, d) /\ d \in DOMAIN store.admins
  BY AdminActs DEF ChangeAdmin
<1>2. PICK A : A = Put(store.admins, d, x)
  OBVIOUS
<1>3. /\ store' = [store EXCEPT !.admins = A]
      /\ Steady /\ calls' = calls
  BY <1>2 DEF ChangeAdmin, Change, Steady
<1>4. store.admins \in [store.metadata -> Accounts \cup {NoOne}] /\ store.metadata \in SUBSET Denoms
  BY <1>0 DEF Stored, StoreSet, AdminStores
<1>5. /\ A \in [store.metadata -> Accounts \cup {NoOne}]
      /\ \A y \in store.metadata : y # d => A[y] = store.admins[y]
  BY <1>1, <1>2, <1>4 DEF Put
<1>6. A \in AdminStores /\ DOMAIN A = store.metadata /\ DOMAIN store.admins = store.metadata
  BY <1>4, <1>5 DEF AdminStores
<1>7. Stored(store')
  BY <1>0, <1>3, <1>6 DEF Stored, StoreSet
<1>8. /\ store'.admins = A /\ store'.hooks = store.hooks /\ store'.supply = store.supply
      /\ store'.bank = store.bank /\ store'.vouchers = store.vouchers
  BY <1>0, <1>3 DEF Stored, StoreSet
<1>9. Kept(store, store')
  BY <1>1, <1>5, <1>6, <1>8 DEF Kept, GivenUp, HookIn
<1>10. restarts = 0 => Covers(store', channels)
  BY <1>0, <1>8 DEF Covers
<1> QED BY <1>3, <1>7, <1>9, <1>10 DEF Quiet, Sound

\* So does SetBeforeSendHook.
LEMMA SetBeforeSendHookShape ==
    ASSUME IInv, NEW a \in Accounts, NEW d \in Denoms, NEW c \in Contracts \cup {NoOne}, SetBeforeSendHook(a, d, c)
    PROVE  Quiet
<1>0. Stored(store) /\ (restarts = 0 => Covers(store, channels))
  BY DEF IInv, TypeInv, CoversInv
<1>1. ~GivenUp(store, d) /\ d \in store.metadata
  BY <1>0, AdminActs DEF SetBeforeSendHook, Stored
<1>2. PICK H, K : H = store.hooks /\ K = IF c = NoOne THEN Drop(H, d) ELSE Put(H, d, c)
  OBVIOUS
<1>3. /\ store' = [store EXCEPT !.hooks = K]
      /\ Steady /\ calls' = calls
  BY <1>2 DEF SetBeforeSendHook, Change, Steady
<1>4. H \in [DOMAIN H -> Contracts] /\ DOMAIN H \subseteq store.metadata /\ store.metadata \in SUBSET Denoms
  BY <1>0, <1>2 DEF Stored, StoreSet, HookStores
<1>5. /\ DOMAIN K \subseteq store.metadata /\ K \in [DOMAIN K -> Contracts]
      /\ \A y \in Denoms : y # d => (y \in DOMAIN K <=> y \in DOMAIN H) /\ (y \in DOMAIN H => K[y] = H[y])
  <2>1. CASE c = NoOne
    BY <1>2, <1>4, <2>1 DEF Drop
  <2>2. CASE c # NoOne
    BY <1>1, <1>2, <1>4, <2>2 DEF Put
  <2> QED BY <2>1, <2>2
<1>6. K \in HookStores
  BY <1>4, <1>5 DEF HookStores
<1>7. Stored(store')
  BY <1>0, <1>3, <1>5, <1>6 DEF Stored, StoreSet
<1>8. /\ store'.admins = store.admins /\ store'.hooks = K /\ store'.supply = store.supply
      /\ store'.bank = store.bank /\ store'.vouchers = store.vouchers
  BY <1>0, <1>3 DEF Stored, StoreSet
<1>9. Kept(store, store')
  BY <1>1, <1>2, <1>5, <1>8 DEF Kept, GivenUp, HookIn
<1>10. restarts = 0 => Covers(store', channels)
  BY <1>0, <1>8 DEF Covers
<1> QED BY <1>3, <1>7, <1>9, <1>10 DEF Quiet, Sound

\* Nothing of it changes.
LEMMA IdleShape == IInv /\ UNCHANGED <<store, channels, escrows, restarts, calls>> => Quiet
  BY DEF IInv, TypeInv, CoversInv, Quiet, Sound, Steady, Kept

\* A channel opens between messages; both factories store its escrow address.
LEMMA OpenChannelKeeps ==
    ASSUME IInv, NEW e \in EscrowAddrs, OpenChannel(e)
    PROVE  IInv' /\ Kept(Committed, Committed')
<1>1. /\ calls = << >> /\ calls' = << >> /\ store' = store /\ restarts' = restarts
      /\ channels' = channels \cup {e} /\ escrows' = [f \in Factories |-> escrows[f] \cup {e}]
  BY DEF OpenChannel, StoreEscrowAddress
<1>2. TypeInv'
  BY <1>1 DEF IInv, TypeInv
<1>3. KeptInv'
  BY <1>1 DEF KeptInv
<1>4. CoversInv'
  <2>1. restarts = 0 => Covers(store', channels')
    BY <1>1 DEF IInv, CoversInv, Covers
  <2>2. restarts = 0 => \A f \in Factories : escrows'[f] = channels'
    BY <1>1 DEF IInv, CoversInv
  <2> QED BY <1>1, <2>1, <2>2 DEF CoversInv
<1>5. Kept(Committed, Committed')
  BY <1>1 DEF Committed, Kept
<1> QED BY <1>2, <1>3, <1>4, <1>5 DEF IInv

\* A restart finds all denoms in the creators' index.
LEMMA RestartKeeps == ASSUME IInv, Restart PROVE IInv' /\ Kept(Committed, Committed')
<1>0. Stored(store) /\ restarts \in Nat
  BY DEF IInv, TypeInv
<1>1. PICK A, H : /\ A = [d \in store.creators |-> Admin(d)]
                  /\ H = [d \in {x \in store.creators : HookOf(x) # NoOne} |-> HookOf(d)]
  BY Zenon
<1>2. /\ calls = << >> /\ calls' = << >> /\ restarts' = restarts + 1 /\ channels' = channels
      /\ escrows' = [f \in Factories |-> {}]
      /\ store' = [store EXCEPT !.metadata = @ \cup store.creators, !.admins = A, !.hooks = H]
  BY <1>1 DEF Restart
<1>3. /\ store.admins \in [store.metadata -> Accounts \cup {NoOne}] /\ store.creators = store.metadata
      /\ store.metadata \in SUBSET Denoms
      /\ store.hooks \in [DOMAIN store.hooks -> Contracts] /\ DOMAIN store.hooks \subseteq store.metadata
  BY <1>0 DEF Stored, StoreSet, AdminStores, HookStores
<1>4. A = store.admins
  BY <1>1, <1>3 DEF Admin
<1>5. /\ DOMAIN H \subseteq store.metadata /\ H \in [DOMAIN H -> Contracts]
      /\ \A d \in store.metadata : IF HookOf(d) # NoOne THEN d \in DOMAIN H /\ H[d] = HookOf(d) ELSE d \notin DOMAIN H
  <2>1. \A d \in store.metadata : HookOf(d) # NoOne => HookOf(d) \in Contracts
    BY <1>3 DEF HookOf, HookIn
  <2> QED BY <1>1, <1>3, <2>1
<1>6. H \in HookStores
  BY <1>3, <1>5 DEF HookStores
<1>7. Stored(store')
  BY <1>0, <1>2, <1>3, <1>4, <1>5, <1>6, Zenon DEF Stored, StoreSet
<1>8. store'.admins = store.admins /\ store'.hooks = H /\ store'.supply = store.supply
  BY <1>0, <1>2, <1>4 DEF Stored, StoreSet
<1>9. Kept(store, store')
  BY <1>3, <1>5, <1>8 DEF Kept, GivenUp, HookIn, HookOf
<1>10. TypeInv'
  BY <1>2, <1>7 DEF IInv, TypeInv
<1>11. KeptInv'
  BY <1>2 DEF KeptInv
<1>12. CoversInv'
  BY <1>0, <1>2 DEF CoversInv
<1>13. Kept(Committed, Committed')
  BY <1>2, <1>9 DEF Committed
<1> QED BY <1>10, <1>11, <1>12, <1>13 DEF IInv

\* InitGenesis: no channel is open.
LEMMA InitInv == Init => IInv
<1> SUFFICES ASSUME Init PROVE IInv
  OBVIOUS
<1>1. calls = << >> /\ channels = {} /\ escrows = [f \in Factories |-> {}] /\ restarts = 0
  BY DEF Init
<1>2. GenesisAdmins \in AdminStores /\ GenesisHooks \in HookStores /\ DOMAIN GenesisHooks \subseteq DOMAIN GenesisAdmins
      /\ DOMAIN GenesisAdmins \in SUBSET Denoms
  BY FactoryAssumption DEF AdminStores, HookStores, IsStore
<1>3. PICK b, u, v :
        /\ b = [x \in Holders \X Coins |->
                  IF x[2] = Native THEN IF x[1] \in Accounts THEN InitialNative ELSE 0
                  ELSE IF x[2] \in DOMAIN GenesisAdmins /\ x[1] = x[2].creator THEN 1 ELSE 0]
        /\ u = [d \in Denoms |-> IF d \in DOMAIN GenesisAdmins THEN 1 ELSE 0]
        /\ v = [x \in EscrowAddrs \X Denoms |-> 0]
  BY Zenon
<1>4. store = [bank |-> b, supply |-> u, vouchers |-> v, metadata |-> DOMAIN GenesisAdmins,
               creators |-> DOMAIN GenesisAdmins, admins |-> GenesisAdmins, hooks |-> GenesisHooks]
  BY <1>3 DEF Init
<1>5. b \in [Holders \X Coins -> Int] /\ u \in [Denoms -> Int] /\ v \in [EscrowAddrs \X Denoms -> Int]
  BY <1>3, FactoryAssumption
<1>6. Stored(store)
  BY <1>2, <1>4, <1>5 DEF Stored, StoreSet
<1>7. TypeInv
  BY <1>1, <1>6 DEF TypeInv
<1>8. KeptInv
  BY <1>1 DEF KeptInv
<1>9. CoversInv
  <2>1. store.bank = b /\ store.vouchers = v
    BY <1>4
  <2>2. \A e \in EscrowAddrs, d \in Denoms : b[<<e, d>>] >= v[<<e, d>>] /\ v[<<e, d>>] = 0
    BY <1>3, FactoryAssumption DEF Holders, Coins
  <2>3. Covers(store, channels)
    BY <2>1, <2>2 DEF Covers
  <2> QED BY <1>1, <2>3 DEF CoversInv
<1> QED BY <1>7, <1>8, <1>9 DEF IInv

\* Every step keeps the invariant, and keeps for good what was given up.
LEMMA NextKeeps == IInv /\ [Next]_vars => IInv' /\ Kept(Committed, Committed')
<1> SUFFICES ASSUME IInv, [Next]_vars PROVE IInv' /\ Kept(Committed, Committed')
  OBVIOUS
<1>0. ASSUME calls # << >> PROVE Top \in FrameSet /\ SameMessage(Top, Top)
  BY <1>0 DEF IInv, TypeInv, Top, SameMessage
<1>1. CASE HookReturns
  BY <1>0, <1>1, ProceedShape, WaitKeeps, PopKeeps DEF HookReturns
<1>2. CASE HookFails
  <2>1. CASE BlockingFails
    <3>1. Pop
      BY <1>2, <2>1 DEF HookFails, BlockingFails, Return, Pop, Steady
    <3> QED BY <3>1, PopKeeps
  <2>2. CASE TrackingFails
    <3>1. PICK f : f = [Top EXCEPT !.todo = {d \in Top.todo : d.factory # Top.at.factory}]
      BY Zenon
    <3>2. f \in FrameSet /\ SameMessage(f, Top) /\ Proceed(f) /\ calls # << >>
      BY <1>0, <1>2, <2>2, <3>1 DEF HookFails, TrackingFails, FrameSet, SameMessage
    <3> QED BY <3>2, ProceedShape, WaitKeeps, PopKeeps
  <2> QED BY <1>2, <2>1, <2>2 DEF HookFails
<1>3. ASSUME NEW d \in Denoms, CreateDenom(d) PROVE IInv' /\ Kept(Committed, Committed')
  BY <1>3, CreateDenomShape, QuietKeeps
<1>4. ASSUME NEW a \in Accounts, NEW d \in Denoms, NEW x \in Holders, Mint(a, d, x) \/ Burn(a, d, x)
      PROVE  IInv' /\ Kept(Committed, Committed')
  BY <1>4, MintShape, SendsShape, QuietKeeps, PushKeeps
<1>5. ASSUME NEW a \in Accounts, NEW d \in Denoms, NEW x \in Holders, NEW y \in Holders, ForceTransfer(a, d, x, y)
      PROVE  IInv' /\ Kept(Committed, Committed')
  BY <1>5, SendsShape, QuietKeeps, PushKeeps
<1>6. ASSUME NEW a \in Accounts, NEW d \in Denoms, NEW x \in Accounts \cup {NoOne}, ChangeAdmin(a, d, x)
      PROVE  IInv' /\ Kept(Committed, Committed')
  BY <1>6, ChangeAdminShape, QuietKeeps
<1>7. ASSUME NEW a \in Accounts, NEW d \in Denoms, NEW c \in Contracts \cup {NoOne}, SetBeforeSendHook(a, d, c)
      PROVE  IInv' /\ Kept(Committed, Committed')
  BY <1>7, SetBeforeSendHookShape, QuietKeeps
<1>8. ASSUME NEW a \in Accounts, NEW x \in Holders, NEW coins \in CoinSets, BankSend(a, x, coins)
      PROVE  IInv' /\ Kept(Committed, Committed')
  <2>1. Quiet \/ Push
    BY <1>8, BankSendShape
  <2> QED BY <2>1, QuietKeeps, PushKeeps
<1>9. ASSUME NEW a \in Accounts, NEW e \in EscrowAddrs, NEW d \in Denoms, TransferOut(a, e, d) \/ TransferIn(e, a, d)
      PROVE  IInv' /\ Kept(Committed, Committed')
  <2>1. a \in Holders
    BY DEF Holders
  <2>2. Quiet \/ Push
    BY <1>9, <2>1, SendsShape
  <2> QED BY <2>2, QuietKeeps, PushKeeps
<1>10. CASE UNCHANGED <<store, channels, escrows, restarts, calls>>
  BY <1>10, IdleShape, QuietKeeps
<1>11. ASSUME NEW e \in EscrowAddrs, OpenChannel(e) PROVE IInv' /\ Kept(Committed, Committed')
  BY <1>11, OpenChannelKeeps
<1>12. CASE Restart
  BY <1>12, RestartKeeps
<1>13. ASSUME NEW f \in Factories, NEW p \in ParamChoices[f], UpdateParams(f, p) PROVE IInv' /\ Kept(Committed, Committed')
  BY <1>10, <1>13 DEF UpdateParams
<1>14. ASSUME NEW c \in Contracts, NEW id \in Codes, Migrate(c, id) PROVE IInv' /\ Kept(Committed, Committed')
  BY <1>10, <1>14 DEF Migrate
<1>15. CASE UNCHANGED vars
  BY <1>10, <1>15 DEF vars
<1> QED BY <1>1, <1>2, <1>3, <1>4, <1>5, <1>6, <1>7, <1>8, <1>9, <1>11, <1>12, <1>13, <1>14, <1>15 DEF Next

\* Until a restart an escrow account holds what left through its channel, for
\* any denoms, hooks and nested messages: burnFrom and forceTransfer refuse the
\* escrow addresses that OnChanOpenAck and OnChanOpenConfirm have stored.
THEOREM EscrowsCover == Spec => []EscrowCovers
<1>1. IInv => EscrowCovers
  BY DEF IInv, CoversInv, TypeInv, Covers, EscrowCovers
<1> QED BY <1>1, InitInv, NextKeeps, PTL DEF Spec

\* A denom whose admin was given up stays without one, and its supply and its
\* hook stay as they are, whatever hooks do within messages, and over restarts.
THEOREM GivenUpForGood == Spec => RenouncedForever
<1> DEFINE Step == \A d \in DOMAIN Committed.admins :
                      Committed.admins[d] = NoOne =>
                         /\ d \in DOMAIN Committed'.admins /\ Committed'.admins[d] = NoOne
                         /\ Committed'.supply[d] = Committed.supply[d]
                         /\ HookIn(Committed, d)' = HookIn(Committed, d)
<1>1. IInv /\ [Next]_vars => [Step]_vars
  <2> SUFFICES ASSUME IInv, [Next]_vars PROVE Step
    OBVIOUS
  <2>1. Kept(Committed, Committed')
    BY NextKeeps
  <2>2. Stored(Committed)
    <3>1. calls # << >> => 1 \in 1..Len(calls)
      BY DEF IInv, TypeInv
    <3> QED BY <3>1 DEF Committed, IInv, TypeInv
  <2>3. DOMAIN Committed.admins \subseteq Denoms
    BY <2>2 DEF Stored, StoreSet, AdminStores
  <2> HIDE DEF Committed
  <2> QED BY <2>1, <2>3 DEF Kept, GivenUp, HookIn
<1> QED BY <1>1, InitInv, NextKeeps, PTL DEF Spec, RenouncedForever

-----------------------------------------------------------------------------
(* The supply.  A unit that mintTo has created is with the module account
   until its message ends, so each pending mint explains one unit there. *)

Amounts(s, d) == [h \in Holders |-> s.bank[<<h, d>>]]

\* In s no balance is negative, and the supply is what the accounts hold.
Sums(s) ==
    \A d \in Denoms : /\ \A h \in Holders : s.bank[<<h, d>>] \in Nat
                      /\ s.supply[d] = SumOf(Amounts(s, d))

\* Factories only send what they mint and receive what they burn.
Routed(f) == /\ f.from # f.to
             /\ f.from \in Factories <=> f.op = "mint"
             /\ f.to \in Factories <=> f.op = "burn"

\* What the message of frame f has left with account x.
Minted(f, x, d) == IF f.op = "mint" /\ x = f.from /\ d \in f.coins THEN 1 ELSE 0

\* The factories hold in t what they hold in s and what f has minted.
Custody(s, t, f) ==
    \A x \in Factories, d \in Denoms : t.bank[<<x, d>>] = s.bank[<<x, d>>] + Minted(f, x, d)

SameCustody(s, t) == \A x \in Factories, d \in Denoms : t.bank[<<x, d>>] = s.bank[<<x, d>>]

\* The store that the messages within message i began with.
Within(i) == IF i = Len(calls) THEN store ELSE calls[i + 1].saved

SupplyInv ==
    /\ Sums(store)
    /\ \A i \in 1..Len(calls) : /\ Sums(calls[i].saved) /\ Routed(calls[i])
                                /\ Custody(calls[i].saved, Within(i), calls[i])
    /\ \A x \in Factories, d \in Denoms : Committed.bank[<<x, d>>] = 0

\* Amounts are finite stores.
LEMMA AmountsFinite ==
    ASSUME NEW s, Sums(s), NEW d \in Denoms
    PROVE  FiniteStore(Amounts(s, d)) /\ SumOf(Amounts(s, d)) \in Nat
<1>1. IsFiniteSet(Holders)
  BY FactoryAssumption DEF Holders
<1>2. FiniteStore(Amounts(s, d))
  BY <1>1, FiniteSum, Zenon DEF Amounts, Sums
<1> QED BY <1>2, SumType

\* One unit more or less with one account.
LEMMA AmountsChange ==
    ASSUME NEW a, FiniteStore(a), SumOf(a) \in Nat, NEW h \in DOMAIN a, a[h] \in Nat, NEW n \in Int, a[h] + n \in Nat,
           NEW c, DOMAIN c = DOMAIN a, c[h] = a[h] + n, \A j \in DOMAIN a \ {h} : c[j] = a[j]
    PROVE  FiniteStore(c) /\ SumOf(c) = SumOf(a) + n
<1>1. FiniteStore(c) /\ SumOf(c) = SumOf(a) - a[h] + c[h]
  BY SumChange
<1> QED BY <1>1

\* A transfer moves a unit between accounts, or burns it.
LEMMA SettledSums ==
    ASSUME NEW s, Stored(s), NEW f \in FrameSet, Sums(s), Routed(f), Pays(s.bank, f.from, f.coins)
    PROVE  Sums(Settled(s, f)) /\ Custody(Settled(s, f), s, f)
<1>0. f.from \in Holders /\ f.to \in Holders /\ f.coins \in SUBSET Denoms /\ f.from # f.to
  BY DEF FrameSet, Routed
<1>1. PICK b, t : b = s.bank /\ t = Settled(s, f)
  OBVIOUS
<1>2. b \in [Holders \X Coins -> Int] /\ s.supply \in [Denoms -> Int]
  BY <1>1 DEF Stored, StoreSet
<1>3. /\ t.bank = IF f.op = "burn" THEN Minus(Moved(b, f.from, f.to, f.coins), f.to, f.coins)
                                   ELSE Moved(b, f.from, f.to, f.coins)
      /\ \A d \in Denoms : t.supply[d] = IF f.op = "burn" /\ d \in f.coins THEN s.supply[d] - 1 ELSE s.supply[d]
  BY <1>1 DEF Settled, Stored, StoreSet
<1>4. ASSUME NEW d \in Denoms, NEW h \in Holders
      PROVE  /\ b[<<h, d>>] \in Nat
             /\ d \in f.coins /\ h = f.from => b[<<h, d>>] >= 1
             /\ t.bank[<<h, d>>] = IF d \in f.coins /\ h = f.from THEN b[<<h, d>>] - 1
                                   ELSE IF d \in f.coins /\ h = f.to /\ f.op # "burn" THEN b[<<h, d>>] + 1
                                   ELSE b[<<h, d>>]
  <2>1. b[<<h, d>>] \in Nat /\ (d \in f.coins /\ h = f.from => b[<<h, d>>] >= 1)
    BY <1>1 DEF Sums, Pays
  <2>2. /\ Moved(b, f.from, f.to, f.coins)[<<h, d>>] =
             IF d \in f.coins /\ h = f.from THEN b[<<h, d>>] - 1
             ELSE IF d \in f.coins /\ h = f.to THEN b[<<h, d>>] + 1 ELSE b[<<h, d>>]
        /\ Minus(Moved(b, f.from, f.to, f.coins), f.to, f.coins)[<<h, d>>] =
             IF d \in f.coins /\ h = f.from THEN b[<<h, d>>] - 1 ELSE b[<<h, d>>]
    <3>0. <<h, d>> \in Holders \X Coins
      BY DEF Coins
    <3>1. PICK x, y, z : x = f.from /\ y = f.to /\ z = f.coins /\ x # y
      BY <1>0
    <3>2. PICK m : m = Minus(b, x, z)
      OBVIOUS
    <3>3. m \in [Holders \X Coins -> Int] /\ m[<<h, d>>] = IF h = x /\ d \in z THEN b[<<h, d>>] - 1 ELSE b[<<h, d>>]
      BY <1>2, <3>0, <3>2 DEF Minus
    <3>4. PICK p : p = Plus(m, y, z)
      OBVIOUS
    <3>5. p \in [Holders \X Coins -> Int] /\ p[<<h, d>>] = IF h = y /\ d \in z THEN m[<<h, d>>] + 1 ELSE m[<<h, d>>]
      BY <3>0, <3>3, <3>4 DEF Plus
    <3>6. Minus(p, y, z)[<<h, d>>] = IF h = y /\ d \in z THEN p[<<h, d>>] - 1 ELSE p[<<h, d>>]
      BY <3>0, <3>5 DEF Minus
    <3>7. Moved(b, x, y, z) = p
      BY <3>2, <3>4 DEF Moved
    <3> QED BY <2>1, <3>1, <3>3, <3>5, <3>6, <3>7
  <2> QED BY <1>3, <2>1, <2>2
<1>5. Custody(t, s, f)
  <2> SUFFICES ASSUME NEW x \in Factories, NEW d \in Denoms
               PROVE  s.bank[<<x, d>>] = t.bank[<<x, d>>] + Minted(f, x, d)
    BY DEF Custody
  <2>1. x \in Holders
    BY DEF Holders
  <2>2. (x = f.from => f.op = "mint") /\ (x = f.to => f.op = "burn")
    BY DEF Routed
  <2> QED BY <1>0, <1>1, <1>4, <2>1, <2>2 DEF Minted
<1>6. ASSUME NEW d \in Denoms
      PROVE  /\ \A h \in Holders : t.bank[<<h, d>>] \in Nat
             /\ t.supply[d] = SumOf(Amounts(t, d))
  <2>1. \A h \in Holders : t.bank[<<h, d>>] \in Nat
    BY <1>4
  <2>2. FiniteStore(Amounts(s, d)) /\ SumOf(Amounts(s, d)) \in Nat /\ s.supply[d] = SumOf(Amounts(s, d))
    BY AmountsFinite DEF Sums
  <2>3. CASE d \notin f.coins
    <3>1. Amounts(t, d) = Amounts(s, d)
      BY <1>1, <1>4, <2>3 DEF Amounts
    <3> QED BY <1>3, <2>1, <2>2, <2>3, <3>1
  <2>4. CASE d \in f.coins
    <3> DEFINE less == [h \in Holders |-> IF h = f.from THEN b[<<h, d>>] - 1 ELSE b[<<h, d>>]]
    <3>1. FiniteStore(less) /\ SumOf(less) = SumOf(Amounts(s, d)) - 1
      <4>0. PICK n \in Int, x \in Holders : n = 0 - 1 /\ x = f.from
        BY <1>0
      <4>1. /\ x \in DOMAIN Amounts(s, d) /\ Amounts(s, d)[x] \in Nat /\ Amounts(s, d)[x] + n \in Nat
            /\ DOMAIN less = DOMAIN Amounts(s, d) /\ less[x] = Amounts(s, d)[x] + n
            /\ \A j \in DOMAIN Amounts(s, d) \ {x} : less[j] = Amounts(s, d)[j]
        BY <1>0, <1>1, <1>4, <2>4, <4>0 DEF Amounts
      <4> HIDE DEF less
      <4>2. FiniteStore(less) /\ SumOf(less) = SumOf(Amounts(s, d)) + n
        BY <2>2, <4>1, AmountsChange
      <4> QED BY <2>2, <4>0, <4>2
    <3>2. CASE f.op = "burn"
      <4>1. Amounts(t, d) = less
        BY <1>4, <2>4, <3>2 DEF Amounts
      <4> QED BY <1>3, <2>1, <2>2, <2>4, <3>1, <3>2, <4>1
    <3>3. CASE f.op # "burn"
      <4>1. /\ f.to \in DOMAIN less /\ less[f.to] \in Nat /\ less[f.to] + 1 \in Nat
            /\ DOMAIN Amounts(t, d) = DOMAIN less /\ Amounts(t, d)[f.to] = less[f.to] + 1
            /\ \A j \in DOMAIN less \ {f.to} : Amounts(t, d)[j] = less[j]
        BY <1>0, <1>4, <2>4, <3>3 DEF Amounts
      <4>2. SumOf(less) \in Nat
        BY <3>1, SumType
      <4> HIDE DEF less
      <4>3. SumOf(Amounts(t, d)) = SumOf(less) + 1
        BY <3>1, <4>1, <4>2, AmountsChange
      <4> QED BY <1>3, <2>1, <2>2, <3>1, <3>3, <4>3
    <3> QED BY <3>2, <3>3
  <2> QED BY <2>3, <2>4
<1> QED BY <1>1, <1>5, <1>6 DEF Sums

\* mintTo adds a unit to its module account and to the supply.
LEMMA MintedSums ==
    ASSUME NEW s, Stored(s), Sums(s), NEW d \in Denoms, NEW m \in Factories, NEW t, NEW f,
           t.bank = [s.bank EXCEPT ![<<m, d>>] = @ + 1], t.supply = [s.supply EXCEPT ![d] = @ + 1],
           f.op = "mint", f.from = m, f.coins = {d}
    PROVE  Sums(t) /\ Custody(s, t, f)
<1>1. PICK b, u : b = s.bank /\ u = s.supply
  OBVIOUS
<1>2. b \in [Holders \X Coins -> Int] /\ u \in [Denoms -> Int] /\ m \in Holders
  BY <1>1 DEF Stored, StoreSet, Holders
<1>3. ASSUME NEW x \in Denoms, NEW h \in Holders
      PROVE  /\ b[<<h, x>>] \in Nat
             /\ t.bank[<<h, x>>] = IF x = d /\ h = m THEN b[<<h, x>>] + 1 ELSE b[<<h, x>>]
  <2>1. b[<<h, x>>] \in Nat
    BY <1>1 DEF Sums
  <2>2. t.bank = [b EXCEPT ![<<m, d>>] = b[<<m, d>>] + 1] /\ <<h, x>> \in Holders \X Coins
    BY <1>1 DEF Coins
  <2> QED BY <1>2, <2>1, <2>2, Zenon
<1>4. Custody(s, t, f)
  <2> SUFFICES ASSUME NEW x \in Factories, NEW y \in Denoms
               PROVE  t.bank[<<x, y>>] = s.bank[<<x, y>>] + Minted(f, x, y)
    BY DEF Custody
  <2>1. x \in Holders
    BY DEF Holders
  <2> QED BY <1>1, <1>3, <2>1 DEF Minted
<1>5. ASSUME NEW x \in Denoms
      PROVE  /\ \A h \in Holders : t.bank[<<h, x>>] \in Nat
             /\ t.supply[x] = SumOf(Amounts(t, x))
  <2>1. \A h \in Holders : t.bank[<<h, x>>] \in Nat
    BY <1>3
  <2>2. FiniteStore(Amounts(s, x)) /\ SumOf(Amounts(s, x)) \in Nat /\ u[x] = SumOf(Amounts(s, x))
    BY <1>1, AmountsFinite DEF Sums
  <2>3. t.supply[x] = IF x = d THEN u[x] + 1 ELSE u[x]
    BY <1>1, <1>2
  <2>4. CASE x # d
    <3>1. Amounts(t, x) = Amounts(s, x)
      BY <1>1, <1>3, <2>4 DEF Amounts
    <3> QED BY <2>1, <2>2, <2>3, <2>4, <3>1
  <2>5. CASE x = d
    <3>1. /\ m \in DOMAIN Amounts(s, x) /\ Amounts(s, x)[m] \in Nat /\ Amounts(s, x)[m] + 1 \in Nat
          /\ DOMAIN Amounts(t, x) = DOMAIN Amounts(s, x) /\ Amounts(t, x)[m] = Amounts(s, x)[m] + 1
          /\ \A j \in DOMAIN Amounts(s, x) \ {m} : Amounts(t, x)[j] = Amounts(s, x)[j]
      BY <1>1, <1>2, <1>3, <2>5 DEF Amounts
    <3>2. SumOf(Amounts(t, x)) = SumOf(Amounts(s, x)) + 1
      BY <2>2, <3>1, AmountsChange
    <3> QED BY <2>1, <2>2, <2>3, <2>5, <3>2
  <2> QED BY <2>4, <2>5
<1> QED BY <1>4, <1>5 DEF Sums

\* The store changes within the innermost message, or a message begins.
Pass == Sums(store') /\ SameCustody(store, store') /\ calls' = calls

Enter == /\ Sums(store')
         /\ \E g \in FrameSet : /\ calls' = Append(calls, g) /\ g.saved = store
                                /\ Routed(g) /\ Custody(store, store', g)

LEMMA PassSums == ASSUME TypeInv, SupplyInv, Pass PROVE SupplyInv'
<1>0. calls \in Seq(FrameSet) /\ calls' = calls /\ SameCustody(store, store') /\ Sums(store')
  BY DEF TypeInv, Pass
<1>1. ASSUME NEW i \in 1..Len(calls)
      PROVE  Sums(calls[i].saved) /\ Routed(calls[i]) /\ Custody(calls[i].saved, Within(i)', calls[i])
  <2>1. Sums(calls[i].saved) /\ Routed(calls[i]) /\ Custody(calls[i].saved, Within(i), calls[i])
    BY DEF SupplyInv
  <2>2. CASE i = Len(calls)
    <3>1. Within(i) = store /\ Within(i)' = store'
      BY <1>0, <2>2 DEF Within
    <3> QED BY <1>0, <2>1, <3>1 DEF Custody, SameCustody
  <2>3. CASE i # Len(calls)
    <3>1. Within(i)' = Within(i)
      BY <1>0, <2>3 DEF Within
    <3> QED BY <2>1, <3>1
  <2> QED BY <2>2, <2>3
<1>2. \A x \in Factories, d \in Denoms : Committed'.bank[<<x, d>>] = 0
  <2>1. CASE calls = << >>
    <3>1. Committed = store /\ Committed' = store'
      BY <1>0, <2>1 DEF Committed
    <3> QED BY <1>0, <3>1 DEF SupplyInv, SameCustody
  <2>2. CASE calls # << >>
    <3>1. Committed' = Committed
      BY <1>0, <2>2 DEF Committed
    <3> QED BY <3>1 DEF SupplyInv
  <2> QED BY <2>1, <2>2
<1> QED BY <1>0, <1>1, <1>2 DEF SupplyInv

LEMMA EnterSums == ASSUME TypeInv, SupplyInv, Enter PROVE SupplyInv'
<1>0. PICK g \in FrameSet : /\ calls' = Append(calls, g) /\ g.saved = store
                            /\ Routed(g) /\ Custody(store, store', g)
  BY DEF Enter
<1>1. calls \in Seq(FrameSet)
  BY DEF TypeInv
<1>2. /\ Len(calls') = Len(calls) + 1 /\ Len(calls) \in Nat
      /\ calls'[Len(calls) + 1] = g
      /\ \A i \in 1..Len(calls) : calls'[i] = calls[i]
  BY <1>0, <1>1
<1>3. ASSUME NEW i \in 1..Len(calls')
      PROVE  Sums(calls'[i].saved) /\ Routed(calls'[i]) /\ Custody(calls'[i].saved, Within(i)', calls'[i])
  <2>1. CASE i = Len(calls) + 1
    <3>1. Within(i)' = store' /\ calls'[i] = g
      BY <1>2, <2>1 DEF Within
    <3> QED BY <1>0, <3>1 DEF SupplyInv
  <2>2. CASE i # Len(calls) + 1
    <3>1. i \in 1..Len(calls) /\ calls'[i] = calls[i] /\ calls'[i + 1] = IF i = Len(calls) THEN g ELSE calls[i + 1]
      BY <1>2, <2>2
    <3>2. Within(i)' = Within(i)
      BY <1>0, <1>2, <3>1 DEF Within
    <3> QED BY <3>1, <3>2 DEF SupplyInv
  <2> QED BY <2>1, <2>2
<1>4. Committed' = Committed
  <2>1. CASE calls = << >>
    <3>1. Len(calls) = 0 /\ calls' # << >> /\ calls'[1] = g
      BY <1>0, <1>1, <1>2, <2>1
    <3> QED BY <1>0, <2>1, <3>1 DEF Committed
  <2>2. CASE calls # << >>
    <3>1. calls' # << >> /\ calls'[1] = calls[1]
      BY <1>0, <1>1, <1>2, <2>2
    <3> QED BY <2>2, <3>1 DEF Committed
  <2> QED BY <2>1, <2>2
<1>5. Sums(store')
  BY DEF Enter
<1> QED BY <1>3, <1>4, <1>5 DEF SupplyInv

LEMMA WaitSums == ASSUME TypeInv, SupplyInv, Wait PROVE SupplyInv'
<1>0. PICK g \in FrameSet : SameMessage(g, Top) /\ calls' = [calls EXCEPT ![Len(calls)] = g]
  BY Zenon DEF Wait
<1>1. store' = store /\ calls # << >> /\ calls \in Seq(FrameSet)
  BY DEF TypeInv, Wait
<1>2. /\ Len(calls') = Len(calls) /\ Len(calls) \in Nat \ {0}
      /\ \A i \in 1..Len(calls) : i # Len(calls) => calls'[i] = calls[i]
      /\ calls'[Len(calls)] = g
  BY <1>0, <1>1
<1>3. \A i \in 1..Len(calls) : SameMessage(calls'[i], calls[i])
  BY <1>0, <1>2, ZenonT(60) DEF SameMessage, Top
<1>4. ASSUME NEW i \in 1..Len(calls')
      PROVE  Sums(calls'[i].saved) /\ Routed(calls'[i]) /\ Custody(calls'[i].saved, Within(i)', calls'[i])
  <2>1. Sums(calls[i].saved) /\ Routed(calls[i]) /\ Custody(calls[i].saved, Within(i), calls[i])
    BY <1>2 DEF SupplyInv
  <2>2. SameMessage(calls'[i], calls[i])
    BY <1>2, <1>3
  <2>3. Within(i)' = Within(i)
    <3>1. CASE i = Len(calls)
      BY <1>1, <1>2, <3>1 DEF Within
    <3>2. CASE i # Len(calls)
      <4>1. i + 1 \in 1..Len(calls)
        BY <1>2, <3>2
      <4> QED BY <1>2, <1>3, <3>2, <4>1 DEF Within, SameMessage
    <3> QED BY <3>1, <3>2
  <2> QED BY <2>1, <2>2, <2>3 DEF SameMessage, Routed, Custody, Minted
<1>5. Committed' = Committed
  <2>1. calls' # << >> /\ calls'[1].saved = calls[1].saved
    BY <1>2, <1>3 DEF SameMessage
  <2> QED BY <1>1, <2>1 DEF Committed
<1> QED BY <1>1, <1>4, <1>5 DEF SupplyInv

LEMMA PopSums == ASSUME TypeInv, SupplyInv, Pop PROVE SupplyInv'
<1>a. calls # << >> /\ calls' = SubSeq(calls, 1, Len(calls) - 1)
  BY DEF Pop
<1>b. calls \in Seq(FrameSet) /\ Stored(store)
  BY DEF TypeInv
<1>1. /\ Len(calls) \in Nat \ {0} /\ Len(calls') = Len(calls) - 1
      /\ \A i \in 1..Len(calls) - 1 : calls'[i] = calls[i]
      /\ Len(calls) \in 1..Len(calls) /\ Top = calls[Len(calls)]
  BY <1>a, <1>b, FrontProperties DEF Top
<1>2. /\ Sums(store) /\ Sums(Top.saved) /\ Routed(Top) /\ Custody(Top.saved, store, Top)
  BY <1>1 DEF SupplyInv, Within
<1>3. Sums(store') /\ SameCustody(Top.saved, store')
  <2>1. CASE store' = Top.saved
    BY <1>2, <2>1 DEF SameCustody
  <2>2. ASSUME NEW f \in FrameSet, SameMessage(f, Top), Pays(store.bank, f.from, f.coins), store' = Settled(store, f)
        PROVE  Sums(store') /\ SameCustody(Top.saved, store')
    <3>1. Routed(f) /\ Custody(Top.saved, store, f)
      BY <1>2, <2>2 DEF SameMessage, Routed, Custody, Minted
    <3>2. Sums(store') /\ Custody(store', store, f)
      BY <1>2, <1>b, <2>2, <3>1, SettledSums
    <3>3. ASSUME NEW x \in Factories, NEW d \in Denoms PROVE store'.bank[<<x, d>>] = Top.saved.bank[<<x, d>>]
      <4>1. /\ store.bank[<<x, d>>] = store'.bank[<<x, d>>] + Minted(f, x, d)
            /\ store.bank[<<x, d>>] = Top.saved.bank[<<x, d>>] + Minted(f, x, d)
        BY <3>1, <3>2 DEF Custody
      <4>2. store'.bank[<<x, d>>] \in Nat /\ Top.saved.bank[<<x, d>>] \in Nat
        BY <1>2, <3>2 DEF Sums, Holders
      <4>3. Minted(f, x, d) \in Nat
        BY DEF Minted
      <4> QED BY <4>1, <4>2, <4>3
    <3> QED BY <3>2, <3>3 DEF SameCustody
  <2> QED BY <2>1, <2>2 DEF Pop
<1>4. ASSUME NEW i \in 1..Len(calls')
      PROVE  Sums(calls'[i].saved) /\ Routed(calls'[i]) /\ Custody(calls'[i].saved, Within(i)', calls'[i])
  <2>1. i \in 1..Len(calls) /\ calls'[i] = calls[i] /\ i # Len(calls) /\ Len(calls') \in Nat
    BY <1>1
  <2>2. /\ Sums(calls[i].saved) /\ Routed(calls[i])
        /\ Custody(calls[i].saved, calls[i + 1].saved, calls[i])
    BY <2>1 DEF SupplyInv, Within
  <2>3. CASE i = Len(calls')
    <3>1. Within(i)' = store' /\ calls[i + 1] = Top
      BY <1>1, <2>3 DEF Within
    <3> QED BY <1>3, <2>1, <2>2, <3>1 DEF Custody, SameCustody
  <2>4. CASE i # Len(calls')
    <3>1. Within(i)' = calls[i + 1].saved
      BY <1>1, <2>4 DEF Within
    <3> QED BY <2>1, <2>2, <3>1
  <2> QED BY <2>3, <2>4
<1>5. \A x \in Factories, d \in Denoms : Committed'.bank[<<x, d>>] = 0
  <2>1. CASE Len(calls) = 1
    <3>1. Committed = Top.saved /\ Committed' = store'
      BY <1>1, <1>a, <2>1 DEF Committed
    <3> QED BY <1>3, <3>1 DEF SupplyInv, SameCustody
  <2>2. CASE Len(calls) # 1
    <3>1. calls' # << >> /\ calls'[1] = calls[1]
      BY <1>1, <2>2
    <3>2. Committed' = Committed
      BY <1>a, <3>1 DEF Committed
    <3> QED BY <3>2 DEF SupplyInv
  <2> QED BY <2>1, <2>2
<1> QED BY <1>3, <1>4, <1>5 DEF SupplyInv

\* The frame of a message that begins.
NewFrame(op, from, to, coins) ==
    [op |-> op, from |-> from, to |-> to, coins |-> coins, phase |-> "block",
     at |-> Native, todo |-> coins, calling |-> NoOne, saved |-> store]

LEMMA NewFrameFields ==
    ASSUME Stored(store), NEW op \in {"mint", "burn", "force", "send", "out", "in"}, NEW from \in Holders,
           NEW to \in Holders, NEW coins \in SUBSET Denoms, NEW f, f = NewFrame(op, from, to, coins)
    PROVE  /\ f \in FrameSet
           /\ f.op = op /\ f.from = from /\ f.to = to /\ f.coins = coins /\ f.saved = store /\ f.todo = coins
<1>1. f \in FrameSet
  BY ZenonT(60) DEF NewFrame, FrameSet, Stored, Coins
<1> QED BY <1>1 DEF NewFrame

\* A message whose own part has minted what it moves out of the factory.
LEMMA SendCoinsSums ==
    ASSUME TypeInv, SupplyInv, NEW op \in {"mint", "burn", "force", "send", "out", "in"}, NEW s, NEW from \in Holders,
           NEW to \in Holders, NEW coins \in SUBSET Denoms, SendCoins(op, s, from, to, coins),
           Stored(s), Sums(s), from # to, from \in Factories <=> op = "mint", to \in Factories <=> op = "burn",
           Custody(store, s, NewFrame(op, from, to, coins))
    PROVE  Pass \/ Enter
<1>0. PICK f : f = NewFrame(op, from, to, coins)
  OBVIOUS
<1>1. Stored(store) /\ Sums(store)
  BY DEF TypeInv, SupplyInv
<1>2. /\ f \in FrameSet
      /\ f.op = op /\ f.from = from /\ f.to = to /\ f.coins = coins /\ f.saved = store
  BY <1>0, <1>1, NewFrameFields
<1>3. Routed(f) /\ Custody(store, s, f)
  BY <1>0, <1>2 DEF Routed
<1>4. \/ \E g \in AtHook(f) : store' = s /\ calls' = Append(calls, g)
      \/ Pays(s.bank, from, coins) /\ store' = Settled(s, f) /\ calls' = calls
  BY <1>0 DEF SendCoins, NewFrame
<1>5. ASSUME NEW g \in AtHook(f), store' = s, calls' = Append(calls, g)
      PROVE  Enter
  <2>1. g \in FrameSet /\ SameMessage(g, f)
    BY <1>1, <1>2, AtHookFrame
  <2>2. g.saved = store /\ Routed(g) /\ Custody(store, s, g)
    BY <1>2, <1>3, <2>1 DEF SameMessage, Routed, Custody, Minted
  <2> QED BY <1>5, <2>1, <2>2 DEF Enter
<1>6. ASSUME Pays(s.bank, from, coins), store' = Settled(s, f), calls' = calls
      PROVE  Pass
  <2>1. Sums(store') /\ Custody(store', s, f)
    BY <1>2, <1>3, <1>6, SettledSums
  <2>2. ASSUME NEW x \in Factories, NEW d \in Denoms PROVE store'.bank[<<x, d>>] = store.bank[<<x, d>>]
    <3>1. /\ s.bank[<<x, d>>] = store'.bank[<<x, d>>] + Minted(f, x, d)
          /\ s.bank[<<x, d>>] = store.bank[<<x, d>>] + Minted(f, x, d)
      BY <1>3, <2>1 DEF Custody
    <3>2. store'.bank[<<x, d>>] \in Nat /\ store.bank[<<x, d>>] \in Nat
      BY <1>1, <2>1 DEF Sums, Holders
    <3>3. Minted(f, x, d) \in Nat
      BY DEF Minted
    <3> QED BY <3>1, <3>2, <3>3
  <2> QED BY <1>6, <2>1, <2>2 DEF Pass, SameCustody
<1> QED BY <1>4, <1>5, <1>6

LEMMA MintSums ==
    ASSUME TypeInv, SupplyInv, NEW a \in Accounts, NEW d \in Denoms, NEW to \in Holders, Mint(a, d, to)
    PROVE  Pass \/ Enter
<1>0. Stored(store) /\ Sums(store)
  BY DEF TypeInv, SupplyInv
<1>1. PICK m \in Factories : m = d.factory
  BY FactoryAssumption
<1>2. PICK s : s = [store EXCEPT !.bank[<<m, d>>] = @ + 1, !.supply[d] = @ + 1]
  OBVIOUS
<1>3. SendCoins("mint", s, m, to, {d}) /\ to \notin Factories
  BY <1>1, <1>2 DEF Mint, InBounds
<1>4. m \in Holders /\ m # to /\ {d} \in SUBSET Denoms /\ d \in Coins
  BY <1>3 DEF Holders, Coins
<1>5. PICK b, u : b = [store.bank EXCEPT ![<<m, d>>] = @ + 1] /\ u = [store.supply EXCEPT ![d] = @ + 1]
  BY Zenon
<1>6. b \in [Holders \X Coins -> Int] /\ u \in [Denoms -> Int]
  <2>1. store.bank \in [Holders \X Coins -> Int] /\ store.supply \in [Denoms -> Int]
    BY <1>0 DEF Stored, StoreSet
  <2> QED BY <1>4, <1>5, <2>1
<1>7. s = [store EXCEPT !.bank = b, !.supply = u]
  BY <1>0, <1>2, <1>5 DEF Stored, StoreSet
<1>8. Stored(s) /\ s.bank = b /\ s.supply = u
  BY <1>0, <1>6, <1>7, Zenon DEF Stored, StoreSet
<1>9. PICK f : f = NewFrame("mint", m, to, {d})
  OBVIOUS
<1>10. f.op = "mint" /\ f.from = m /\ f.coins = {d}
  BY <1>0, <1>4, <1>9, NewFrameFields
<1>11. Sums(s) /\ Custody(store, s, f)
  BY <1>0, <1>5, <1>8, <1>10, MintedSums
<1> QED BY <1>3, <1>4, <1>8, <1>9, <1>11, SendCoinsSums

LEMMA TransferSums ==
    ASSUME TypeInv, SupplyInv, NEW op \in {"burn", "force", "send", "out", "in"}, NEW from \in Holders,
           NEW to \in Holders, NEW coins \in SUBSET Denoms, SendCoins(op, store, from, to, coins),
           from # to, from \notin Factories, to \in Factories <=> op = "burn"
    PROVE  Pass \/ Enter
<1>1. Stored(store) /\ Sums(store)
  BY DEF TypeInv, SupplyInv
<1>2. PICK f : f = NewFrame(op, from, to, coins)
  OBVIOUS
<1>3. f.op = op
  BY <1>1, <1>2, NewFrameFields
<1>4. Custody(store, store, f)
  <2> SUFFICES ASSUME NEW x \in Factories, NEW d \in Denoms
               PROVE  store.bank[<<x, d>>] = store.bank[<<x, d>>] + Minted(f, x, d)
    BY DEF Custody
  <2>1. store.bank[<<x, d>>] \in Nat
    BY <1>1 DEF Sums, Holders
  <2>2. Minted(f, x, d) = 0
    BY <1>3 DEF Minted
  <2> QED BY <2>1, <2>2
<1> QED BY <1>1, <1>2, <1>4, SendCoinsSums

\* What changes neither balances nor the supply.
LEMMA SameSums ==
    ASSUME TypeInv, SupplyInv, calls' = calls, store'.supply = store.supply,
           \A h \in Holders, d \in Denoms : store'.bank[<<h, d>>] = store.bank[<<h, d>>]
    PROVE  Pass
<1>1. \A d \in Denoms : Amounts(store', d) = Amounts(store, d)
  BY DEF Amounts
<1>2. Sums(store')
  BY <1>1 DEF SupplyInv, Sums
<1> QED BY <1>2 DEF Pass, SameCustody, Holders

\* InitGenesis: the creators hold the supply of the genesis denoms.
LEMMA InitSums == ASSUME Init PROVE SupplyInv
<1>0. IInv /\ calls = << >>
  BY InitInv DEF Init
<1>1. ASSUME NEW d \in Denoms, NEW h \in Holders
      PROVE  store.bank[<<h, d>>] = IF d \in DOMAIN GenesisAdmins /\ h = d.creator THEN 1 ELSE 0
  <2>1. PICK b : b = [x \in Holders \X Coins |->
                        IF x[2] = Native THEN IF x[1] \in Accounts THEN InitialNative ELSE 0
                        ELSE IF x[2] \in DOMAIN GenesisAdmins /\ x[1] = x[2].creator THEN 1 ELSE 0]
    BY Zenon
  <2>2. store.bank = b
    BY <2>1 DEF Init
  <2>3. <<h, d>> \in Holders \X Coins /\ d # Native
    BY FactoryAssumption DEF Coins
  <2> QED BY <2>1, <2>2, <2>3
<1>2. ASSUME NEW d \in Denoms PROVE store.supply[d] = IF d \in DOMAIN GenesisAdmins THEN 1 ELSE 0
  BY DEF Init
<1>3. ASSUME NEW d \in Denoms PROVE store.supply[d] = SumOf(Amounts(store, d))
  <2> DEFINE none == [h \in Holders |-> 0]
  <2>1. IsFiniteSet(Holders) /\ d.creator \in Holders
    BY FactoryAssumption DEF Holders
  <2>2. FiniteStore(none) /\ SumOf(none) = 0
    <3>1. Units(none) = {}
      BY DEF Units
    <3> QED BY <3>1, FS_EmptySet DEF FiniteStore, SumOf
  <2>3. CASE d \in DOMAIN GenesisAdmins
    <3>1. /\ d.creator \in DOMAIN none /\ none[d.creator] = 0
          /\ DOMAIN Amounts(store, d) = DOMAIN none /\ Amounts(store, d)[d.creator] = 1
          /\ \A j \in DOMAIN none \ {d.creator} : Amounts(store, d)[j] = none[j]
      BY <1>1, <2>1, <2>3 DEF Amounts
    <3> HIDE DEF none
    <3>2. SumOf(Amounts(store, d)) = SumOf(none) - 0 + 1
      BY <2>2, <3>1, SumChange
    <3> QED BY <1>2, <2>2, <2>3, <3>2
  <2>4. CASE d \notin DOMAIN GenesisAdmins
    <3>1. Amounts(store, d) = none
      BY <1>1, <2>4 DEF Amounts
    <3> QED BY <1>2, <2>2, <2>4, <3>1
  <2> QED BY <2>3, <2>4
<1>4. Sums(store)
  BY <1>1, <1>3 DEF Sums
<1>5. ASSUME NEW x \in Factories, NEW d \in Denoms PROVE Committed.bank[<<x, d>>] = 0
  <2>1. x \in Holders /\ x # d.creator
    BY FactoryAssumption DEF Holders
  <2> QED BY <1>0, <1>1, <2>1 DEF Committed
<1> QED BY <1>0, <1>4, <1>5 DEF SupplyInv

LEMMA NextSums == ASSUME IInv, SupplyInv, [Next]_vars PROVE SupplyInv'
<1>0. TypeInv
  BY DEF IInv
<1>a. ASSUME Pass \/ Enter PROVE SupplyInv'
  BY <1>0, <1>a, PassSums, EnterSums
<1>b. ASSUME Wait \/ Pop PROVE SupplyInv'
  BY <1>0, <1>b, WaitSums, PopSums
<1>c. ASSUME calls # << >> PROVE Top \in FrameSet /\ SameMessage(Top, Top)
  BY <1>c DEF IInv, TypeInv, Top, SameMessage
<1>1. CASE HookReturns
  BY <1>b, <1>c, <1>1, ProceedShape DEF HookReturns
<1>2. CASE HookFails
  <2>1. CASE BlockingFails
    <3>1. Pop
      BY <1>2, <2>1 DEF HookFails, BlockingFails, Return, Pop, Steady
    <3> QED BY <1>b, <3>1
  <2>2. CASE TrackingFails
    <3>1. PICK f : f = [Top EXCEPT !.todo = {d \in Top.todo : d.factory # Top.at.factory}]
      BY Zenon
    <3>2. f \in FrameSet /\ SameMessage(f, Top) /\ Proceed(f) /\ calls # << >>
      BY <1>c, <1>2, <2>2, <3>1 DEF HookFails, TrackingFails, FrameSet, SameMessage
    <3> QED BY <1>b, <3>2, ProceedShape
  <2> QED BY <1>2, <2>1, <2>2 DEF HookFails
<1>3. ASSUME NEW d \in Denoms, CreateDenom(d) PROVE SupplyInv'
  <2>1. PICK m : m = IF params[d.factory].fee = 0 THEN store.bank ELSE Moved(store.bank, d.creator, FeeCollector, {Native})
    OBVIOUS
  <2>2. calls' = calls /\ store'.bank = m /\ store'.supply = store.supply
    <3>1. store' = WithDenom([store EXCEPT !.bank = m], d, d.creator) /\ calls' = calls
      BY <1>3, <2>1 DEF CreateDenom, Change
    <3> QED BY <1>0, <3>1 DEF WithDenom, TypeInv, Stored, StoreSet
  <2>3. \A h \in Holders, x \in Denoms : m[<<h, x>>] = store.bank[<<h, x>>]
    <3>1. store.bank \in [Holders \X Coins -> Int]
      BY <1>0 DEF TypeInv, Stored, StoreSet
    <3> QED BY <2>1, <3>1, FactoryAssumption DEF Moved, Plus, Minus, Coins
  <2>4. Pass
    BY <1>0, <2>2, <2>3, SameSums
  <2> QED BY <1>a, <2>4
<1>4. ASSUME NEW a \in Accounts, NEW d \in Denoms, NEW x \in Holders, Mint(a, d, x) PROVE SupplyInv'
  BY <1>0, <1>a, <1>4, MintSums
<1>5. ASSUME NEW a \in Accounts, NEW d \in Denoms, NEW x \in Holders, Burn(a, d, x) PROVE SupplyInv'
  <2>1. /\ SendCoins("burn", store, x, d.factory, {d}) /\ x \notin Factories
        /\ d.factory \in Factories /\ d.factory \in Holders /\ {d} \in SUBSET Denoms
    BY <1>5, FactoryAssumption DEF Burn, InBounds, Holders
  <2>2. x # d.factory
    BY <2>1
  <2>3. Pass \/ Enter
    BY <1>0, <2>1, <2>2, TransferSums
  <2> QED BY <1>a, <2>3
<1>6. ASSUME NEW a \in Accounts, NEW d \in Denoms, NEW x \in Holders, NEW y \in Holders \ {x}, ForceTransfer(a, d, x, y)
      PROVE  SupplyInv'
  <2>1. SendCoins("force", store, x, y, {d}) /\ x \notin Factories /\ y \notin Factories /\ {d} \in SUBSET Denoms
    BY <1>6 DEF ForceTransfer, InBounds
  <2>2. Pass \/ Enter
    BY <1>0, <2>1, TransferSums
  <2> QED BY <1>a, <2>2
<1>7. ASSUME NEW a \in Accounts, NEW x \in Holders, NEW coins \in CoinSets, BankSend(a, x, coins) PROVE SupplyInv'
  <2>1. /\ SendCoins("send", store, a, x, coins) /\ x \notin Factories /\ a # x /\ coins \in SUBSET Denoms
        /\ a \in Holders /\ a \notin Factories
    BY <1>7, FactoryAssumption DEF BankSend, Holders
  <2>2. Pass \/ Enter
    BY <1>0, <2>1, TransferSums
  <2> QED BY <1>a, <2>2
<1>8. ASSUME NEW a \in Accounts, NEW e \in EscrowAddrs, NEW d \in Denoms, TransferOut(a, e, d) \/ TransferIn(e, a, d)
      PROVE  SupplyInv'
  <2>1. /\ a \in Holders /\ e \in Holders /\ a \notin Factories /\ e \notin Factories /\ a # e /\ {d} \in SUBSET Denoms
        /\ SendCoins("out", store, a, e, {d}) \/ SendCoins("in", store, e, a, {d})
    BY <1>8, FactoryAssumption DEF TransferOut, TransferIn, Holders
  <2>2. Pass \/ Enter
    BY <1>0, <2>1, TransferSums
  <2> QED BY <1>a, <2>2
<1>9. ASSUME calls' = calls, store'.supply = store.supply, store'.bank = store.bank PROVE SupplyInv'
  BY <1>0, <1>a, <1>9, SameSums
<1>10. ASSUME NEW a, NEW d, NEW x, ChangeAdmin(a, d, x) \/ SetBeforeSendHook(a, d, x) PROVE SupplyInv'
  <2>1. calls' = calls /\ store'.supply = store.supply /\ store'.bank = store.bank
    BY <1>0, <1>10 DEF ChangeAdmin, SetBeforeSendHook, Change, TypeInv, Stored, StoreSet
  <2> QED BY <1>9, <2>1
<1>11. CASE Restart
  <2>1. calls' = calls /\ store'.supply = store.supply /\ store'.bank = store.bank
    BY <1>0, <1>11 DEF Restart, TypeInv, Stored, StoreSet
  <2> QED BY <1>9, <2>1
<1>12. CASE UNCHANGED <<store, calls>>
  BY <1>9, <1>12
<1>13. ASSUME NEW e, OpenChannel(e) PROVE SupplyInv'
  BY <1>12, <1>13 DEF OpenChannel
<1>14. ASSUME NEW f, NEW p, UpdateParams(f, p) \/ Migrate(f, p) PROVE SupplyInv'
  BY <1>12, <1>14 DEF UpdateParams, Migrate
<1>15. CASE UNCHANGED vars
  BY <1>12, <1>15 DEF vars
<1> QED BY <1>1, <1>2, <1>3, <1>4, <1>5, <1>6, <1>7, <1>8, <1>10, <1>11, <1>13, <1>14, <1>15 DEF Next

\* At every moment, within messages of hooks too, the supply of a denom is what
\* the accounts hold, and between messages the module accounts hold none of it.
THEOREM SupplyIsAccounted == Spec => []SupplyAccounted
<1>1. IInv /\ SupplyInv /\ [Next]_vars => IInv' /\ SupplyInv'
  BY NextKeeps, NextSums
<1>2. SupplyInv => SupplyAccounted
  BY DEF SupplyInv, Sums, Amounts, Committed, SupplyAccounted
<1>3. Init => IInv /\ SupplyInv
  BY InitInv, InitSums
<1> QED BY <1>1, <1>2, <1>3, PTL DEF Spec

-----------------------------------------------------------------------------
(* Hooks.  A message that waits for a hook waits for one that is whitelisted:
   parameters and codes change between messages only. *)

Listed(f) == /\ f.todo \subseteq f.coins /\ f.at \in f.coins /\ f.calling \in Contracts
             /\ IsHookWhitelisted(f.at, f.calling)

ListedInv == \A i \in 1..Len(calls) : Listed(calls[i])

LEMMA AtHookListed ==
    ASSUME Stored(store), NEW f \in FrameSet, f.todo \subseteq f.coins, NEW g \in AtHook(f)
    PROVE  Listed(g)
<1>1. PICK d \in f.todo : /\ g = [f EXCEPT !.at = d, !.todo = {e \in f.todo : Rank[e] > Rank[d]}, !.calling = HookOf(d)]
                          /\ Listens(d)
  BY Zenon DEF AtHook
<1>2. HookOf(d) \in Contracts /\ IsHookWhitelisted(d, HookOf(d))
  <2>1. store.hooks \in HookStores
    BY DEF Stored, StoreSet
  <2>2. HookOf(d) # NoOne /\ IsHookWhitelisted(d, HookOf(d))
    BY <1>1 DEF Listens
  <2> QED BY <2>1, <2>2 DEF HookOf, HookIn, HookStores
<1>3. PICK c, T : c = HookOf(d) /\ T = {e \in f.todo : Rank[e] > Rank[d]}
  BY Zenon
<1>4. g.at = d /\ g.calling = c /\ g.todo = T /\ g.coins = f.coins
  BY <1>1, <1>3 DEF FrameSet
<1> QED BY <1>2, <1>3, <1>4 DEF Listed

\* A message that begins at a hook is listed; the others stay so.
LEMMA SendCoinsListed ==
    ASSUME TypeInv, ListedInv, NEW op \in {"mint", "burn", "force", "send", "out", "in"}, NEW s, NEW from \in Holders,
           NEW to \in Holders, NEW coins \in SUBSET Denoms, SendCoins(op, s, from, to, coins)
    PROVE  ListedInv' /\ Len(calls') >= Len(calls)
<1>0. Stored(store) /\ calls \in Seq(FrameSet) /\ Len(calls) \in Nat
  BY DEF TypeInv
<1>1. PICK f : f = NewFrame(op, from, to, coins)
  OBVIOUS
<1>2. f \in FrameSet /\ f.todo \subseteq f.coins
  BY <1>0, <1>1, NewFrameFields
<1>3. /\ params' = params /\ code' = code
      /\ calls' = calls \/ \E g \in AtHook(f) : calls' = Append(calls, g)
  BY <1>1 DEF SendCoins, NewFrame
<1>4. CASE calls' = calls
  BY <1>0, <1>3, <1>4 DEF ListedInv, Listed, IsHookWhitelisted
<1>5. ASSUME NEW g \in AtHook(f), calls' = Append(calls, g)
      PROVE  ListedInv' /\ Len(calls') >= Len(calls)
  <2>1. g \in FrameSet /\ Listed(g)
    BY <1>0, <1>2, AtHookFrame, AtHookListed
  <2>2. /\ Len(calls') = Len(calls) + 1 /\ calls'[Len(calls) + 1] = g
        /\ \A i \in 1..Len(calls) : calls'[i] = calls[i]
    BY <1>0, <1>5, <2>1
  <2>3. \A i \in 1..Len(calls') : Listed(calls'[i])
    BY <1>0, <2>1, <2>2 DEF ListedInv
  <2>4. params' = params /\ code' = code
    BY <1>3
  <2>5. ListedInv'
    BY <2>3, <2>4 DEF ListedInv, Listed, IsHookWhitelisted
  <2> QED BY <1>0, <2>2, <2>5
<1> QED BY <1>3, <1>4, <1>5

\* A frame that goes on is at a listed hook again, or makes the transfer of its
\* message, or lacks the funds.
LEMMA ProceedListed ==
    ASSUME TypeInv, ListedInv, calls # << >>, NEW f \in FrameSet, SameMessage(f, Top), f.todo \subseteq f.coins, Proceed(f)
    PROVE  /\ ListedInv'
           /\ Len(calls') < Len(calls) => store' = Settled(store, Top) \/ ~Pays(store.bank, Top.from, Top.coins)
<1>0. Stored(store) /\ calls \in Seq(FrameSet) /\ Len(calls) \in Nat \ {0}
  BY DEF TypeInv
<1>1. ASSUME NEW g \in FrameSet, Listed(g), Await(g)
      PROVE  ListedInv' /\ Len(calls') = Len(calls)
  <2>1. /\ params' = params /\ code' = code /\ Len(calls') = Len(calls)
        /\ \A i \in 1..Len(calls) : calls'[i] = IF i = Len(calls) THEN g ELSE calls[i]
    BY <1>0, <1>1 DEF Await
  <2>2. \A i \in 1..Len(calls') : Listed(calls'[i])
    BY <1>1, <2>1 DEF ListedInv
  <2> QED BY <2>1, <2>2 DEF ListedInv, Listed, IsHookWhitelisted
<1>2. ASSUME NEW g \in AtHook(f), Await(g) PROVE ListedInv' /\ Len(calls') = Len(calls)
  BY <1>0, <1>1, <1>2, AtHookFrame, AtHookListed
<1>3. ASSUME NEW g \in AtHook(Tracking(f)), Await(g) PROVE ListedInv' /\ Len(calls') = Len(calls)
  <2>1. PICK t : t = Tracking(f)
    OBVIOUS
  <2>2. t \in FrameSet /\ t.todo \subseteq t.coins
    BY <2>1, ZenonT(60) DEF Tracking, FrameSet
  <2> QED BY <1>0, <1>1, <1>3, <2>1, <2>2, AtHookFrame, AtHookListed
<1>4. ASSUME Return(IF Pays(store.bank, f.from, f.coins) THEN Settled(store, f) ELSE f.saved)
      PROVE  /\ ListedInv'
             /\ store' = Settled(store, Top) \/ ~Pays(store.bank, Top.from, Top.coins)
  <2>1. /\ params' = params /\ code' = code /\ Len(calls') = Len(calls) - 1
        /\ \A i \in 1..Len(calls) - 1 : calls'[i] = calls[i]
    BY <1>0, <1>4, FrontProperties DEF Return
  <2>2. \A i \in 1..Len(calls') : Listed(calls'[i])
    BY <1>0, <2>1 DEF ListedInv
  <2>3. ListedInv'
    BY <2>1, <2>2, Zenon DEF ListedInv, Listed, IsHookWhitelisted
  <2>4. Settled(store, f) = Settled(store, Top) /\ f.from = Top.from /\ f.coins = Top.coins
    BY DEF SameMessage, Settled
  <2>5. Pays(store.bank, f.from, f.coins) => store' = Settled(store, f)
    BY <1>4 DEF Return
  <2> QED BY <2>3, <2>4, <2>5
<1> QED BY <1>0, <1>2, <1>3, <1>4 DEF Proceed

\* What may end the innermost message.
Ended == Len(calls') < Len(calls) =>
            \/ store' = Settled(store, Top)
            \/ ~Pays(store.bank, Top.from, Top.coins)
            \/ /\ Top.phase = "block"
               /\ \E d \in Top.coins, c \in Contracts : IsHookWhitelisted(d, c)

LEMMA NextListed == ASSUME IInv, ListedInv, [Next]_vars PROVE ListedInv' /\ Ended
<1>0. TypeInv /\ calls \in Seq(FrameSet) /\ Len(calls) \in Nat
  BY DEF IInv, TypeInv
<1>a. ASSUME calls # << >> PROVE Top \in FrameSet /\ SameMessage(Top, Top) /\ Listed(Top)
  BY <1>0, <1>a DEF ListedInv, Top, SameMessage
<1>b. ASSUME NEW op \in {"mint", "burn", "force", "send", "out", "in"}, NEW s, NEW from \in Holders,
             NEW to \in Holders, NEW coins \in SUBSET Denoms, SendCoins(op, s, from, to, coins)
      PROVE  ListedInv' /\ Ended
  <2>1. ListedInv' /\ Len(calls') >= Len(calls)
    BY <1>0, <1>b, SendCoinsListed
  <2>2. ~(Len(calls') < Len(calls))
    <3>1. calls' \in Seq(FrameSet)
      BY NextKeeps DEF IInv, TypeInv
    <3> QED BY <1>0, <2>1, <3>1
  <2> QED BY <2>1, <2>2 DEF Ended
<1>c. ASSUME NEW f \in FrameSet, SameMessage(f, Top), f.todo \subseteq f.coins, Proceed(f), calls # << >>
      PROVE  ListedInv' /\ Ended
  BY <1>0, <1>c, ProceedListed DEF Ended
<1>1. CASE HookReturns
  <2>1. calls # << >> /\ Proceed(Top)
    BY <1>1 DEF HookReturns
  <2>2. Top \in FrameSet /\ SameMessage(Top, Top) /\ Top.todo \subseteq Top.coins
    BY <1>a, <2>1 DEF Listed
  <2> QED BY <1>c, <2>1, <2>2
<1>2. CASE HookFails
  <2>0. calls # << >> /\ (BlockingFails \/ TrackingFails)
    BY <1>2 DEF HookFails
  <2>1. Top \in FrameSet /\ Listed(Top)
    BY <1>a, <2>0
  <2>2. CASE BlockingFails
    <3>1. /\ params' = params /\ code' = code /\ Len(calls') = Len(calls) - 1 /\ Top.phase = "block"
          /\ \A i \in 1..Len(calls) - 1 : calls'[i] = calls[i]
      BY <1>0, <2>0, <2>2, FrontProperties DEF BlockingFails, Return
    <3>2. \A i \in 1..Len(calls') : Listed(calls'[i])
      BY <1>0, <3>1 DEF ListedInv
    <3>3. ListedInv'
      BY <3>1, <3>2 DEF ListedInv, Listed, IsHookWhitelisted
    <3>4. \E d \in Top.coins, c \in Contracts : IsHookWhitelisted(d, c)
      BY <2>1 DEF Listed
    <3> QED BY <3>1, <3>3, <3>4 DEF Ended
  <2>3. CASE TrackingFails
    <3>1. PICK f : f = [Top EXCEPT !.todo = {d \in Top.todo : d.factory # Top.at.factory}]
      BY Zenon
    <3>2. f \in FrameSet /\ SameMessage(f, Top) /\ Proceed(f)
      BY <2>1, <2>3, <3>1 DEF TrackingFails, FrameSet, SameMessage
    <3>3. f.todo \subseteq f.coins
      BY <2>1, <3>1 DEF FrameSet, Listed
    <3> QED BY <1>c, <2>0, <3>2, <3>3
  <2> QED BY <2>0, <2>2, <2>3
<1>3. ASSUME calls' = calls, UNCHANGED <<params, code>> \/ calls = << >> PROVE ListedInv' /\ Ended
  BY <1>0, <1>3 DEF ListedInv, Listed, IsHookWhitelisted, Ended
<1>4. ASSUME NEW d, CreateDenom(d) PROVE ListedInv' /\ Ended
  BY <1>3, <1>4 DEF CreateDenom, Change
<1>5. ASSUME NEW a, NEW d, NEW x, ChangeAdmin(a, d, x) \/ SetBeforeSendHook(a, d, x) PROVE ListedInv' /\ Ended
  BY <1>3, <1>5 DEF ChangeAdmin, SetBeforeSendHook, Change
<1>6. ASSUME NEW a \in Accounts, NEW d \in Denoms, NEW x \in Holders, Mint(a, d, x) \/ Burn(a, d, x)
      PROVE  ListedInv' /\ Ended
  <2>1. d.factory \in Holders /\ {d} \in SUBSET Denoms
    BY FactoryAssumption DEF Holders
  <2> QED BY <1>b, <1>6, <2>1 DEF Mint, Burn
<1>7. ASSUME NEW a \in Accounts, NEW d \in Denoms, NEW x \in Holders, NEW y \in Holders, ForceTransfer(a, d, x, y)
      PROVE  ListedInv' /\ Ended
  <2>1. {d} \in SUBSET Denoms
    OBVIOUS
  <2> QED BY <1>b, <1>7, <2>1 DEF ForceTransfer
<1>8. ASSUME NEW a \in Accounts, NEW x \in Holders, NEW coins \in CoinSets, BankSend(a, x, coins) PROVE ListedInv' /\ Ended
  <2>1. a \in Holders /\ coins \in SUBSET Denoms
    BY FactoryAssumption DEF Holders
  <2> QED BY <1>b, <1>8, <2>1 DEF BankSend
<1>9. ASSUME NEW a \in Accounts, NEW e \in EscrowAddrs, NEW d \in Denoms, TransferOut(a, e, d) \/ TransferIn(e, a, d)
      PROVE  ListedInv' /\ Ended
  <2>1. a \in Holders /\ e \in Holders /\ {d} \in SUBSET Denoms
    BY DEF Holders
  <2> QED BY <1>b, <1>9, <2>1 DEF TransferOut, TransferIn
<1>10. CASE Restart
  BY <1>3, <1>10 DEF Restart
<1>11. ASSUME NEW e, OpenChannel(e) PROVE ListedInv' /\ Ended
  BY <1>3, <1>11 DEF OpenChannel
<1>12. ASSUME NEW f, NEW p, UpdateParams(f, p) \/ Migrate(f, p) PROVE ListedInv' /\ Ended
  BY <1>3, <1>12 DEF UpdateParams, Migrate
<1>13. CASE UNCHANGED vars
  BY <1>3, <1>13 DEF vars
<1> QED BY <1>1, <1>2, <1>4, <1>5, <1>6, <1>7, <1>8, <1>9, <1>10, <1>11, <1>12, <1>13 DEF Next

\* A message that moves coins succeeds unless the funds are missing or a
\* contract that is whitelisted at that moment stops it before the transfer:
\* a hook that left the whitelist, or was migrated, blocks nothing.
THEOREM BlockedByTheListed == Spec => BlockedByListedOnly
<1>1. IInv /\ ListedInv /\ [Next]_vars => IInv' /\ ListedInv' /\ [Ended]_vars
  BY NextKeeps, NextListed
<1>2. Init => IInv /\ ListedInv
  BY InitInv DEF Init, ListedInv
<1>3. BlockedByListedOnly <=> [][Ended]_vars
  BY PTL DEF BlockedByListedOnly, Ended
<1> QED BY <1>1, <1>2, <1>3, PTL DEF Spec

=============================================================================
