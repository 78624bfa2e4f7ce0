----------------------------- MODULE StoreLemmas -----------------------------
(***************************************************************************)
(* Lemmas on the sums of Stores.  A store is finite when it has finitely   *)
(* many coin units; Put and Drop keep it finite and change its sum by the  *)
(* amount that is written or deleted.  The lemmas need no induction: they  *)
(* follow from the cardinality of unions, differences and intervals.       *)
(***************************************************************************)
EXTENDS Stores, Integers, FiniteSetTheorems, TLAPS

\* A fact of no type.  The SMT translation infers types wherever it can, at a
\* cost that grows with the obligations before; where this fact is used it
\* does without.
LEMMA Untyped == \A f : f = [i \in {1} |-> f[i]] => f[1] = f[1]
OBVIOUS

\* The coins under one key are as many as the amount stored there.
LEMMA SliceCardinality ==
    ASSUME NEW k, NEW v \in Nat
    PROVE  /\ IsFiniteSet({k} \X (1..v))
           /\ Cardinality({k} \X (1..v)) = v
<1> DEFINE f == [i \in 1..v |-> <<k, i>>]
<1>1. IsFiniteSet(1..v) /\ Cardinality(1..v) = v
  BY FS_Interval
<1>2. f \in Bijection(1..v, {k} \X (1..v))
  <2>1. f \in [1..v -> {k} \X (1..v)] OBVIOUS
  <2>2. \A a, b \in DOMAIN f : f[a] = f[b] => a = b OBVIOUS
  <2>3. \A t \in {k} \X (1..v) : \E i \in 1..v : f[i] = t
    <3> TAKE t \in {k} \X (1..v)
    <3>1. t[2] \in 1..v /\ t = <<k, t[2]>> OBVIOUS
    <3>2. f[t[2]] = t BY <3>1
    <3> QED BY <3>1, <3>2
  <2> HIDE DEF f
  <2> QED BY <2>1, <2>2, <2>3 DEF Bijection, Injection, Surjection, IsInjective
<1>3. ExistsBijection(1..v, {k} \X (1..v))
  BY <1>2, Zenon DEF ExistsBijection
<1> QED
  BY <1>1, <1>3, FS_Bijection

\* The empty store holds nothing.
LEMMA SumEmpty == FiniteStore(EmptyStore) /\ SumOf(EmptyStore) = 0
<1>1. Units(EmptyStore) = {}
  BY DEF Units, EmptyStore
<1> QED
  BY <1>1, FS_EmptySet DEF FiniteStore, SumOf

\* A sum is a natural number.
LEMMA SumType ==
    ASSUME NEW s, FiniteStore(s)
    PROVE  SumOf(s) \in Nat
BY FS_CardinalityType DEF FiniteStore, SumOf

\* Writing amount v under a new key adds v to the sum.
LEMMA SumPut ==
    ASSUME NEW s, FiniteStore(s), NEW k, k \notin DOMAIN s, NEW v \in Nat
    PROVE  /\ FiniteStore(Put(s, k, v))
           /\ SumOf(Put(s, k, v)) = SumOf(s) + v
<1> DEFINE slice == {k} \X (1..v)
<1>1. Units(Put(s, k, v)) = Units(s) \cup slice
  <2>1. ASSUME NEW x PROVE x \in Units(Put(s, k, v)) <=> x \in Units(s) \cup slice
    BY Zenon DEF Units, Put
  <2> QED BY <2>1
<1>2. Units(s) \cap slice = {}
  BY DEF Units
<1>3. IsFiniteSet(slice) /\ Cardinality(slice) = v
  BY SliceCardinality
<1>4. IsFiniteSet(Units(s)) BY DEF FiniteStore
<1>5. Cardinality(Units(s)) \in Nat BY <1>4, FS_CardinalityType
<1>6. /\ IsFiniteSet(Units(s) \cup slice)
      /\ Cardinality(Units(s) \cup slice)
           = Cardinality(Units(s)) + Cardinality(slice) - Cardinality(Units(s) \cap slice)
  BY <1>3, <1>4, FS_Union, Zenon
<1>7. Cardinality({}) = 0 BY FS_EmptySet
<1>8. FiniteStore(Put(s, k, v)) BY <1>1, <1>6 DEF FiniteStore
<1> HIDE DEF slice
<1>a. Cardinality(Units(s) \cup slice) = Cardinality(Units(s)) + v - 0
  BY <1>2, <1>3, <1>6, <1>7, Zenon
<1>9. Cardinality(Units(s) \cup slice) = Cardinality(Units(s)) + v
  BY <1>5, <1>a
<1>10. SumOf(Put(s, k, v)) = SumOf(s) + v
  BY <1>1, <1>9 DEF SumOf
<1> QED BY <1>8, <1>10

\* Deleting a key takes its amount off the sum, which was at least as large.
LEMMA SumDrop ==
    ASSUME NEW s, FiniteStore(s), NEW k \in DOMAIN s, s[k] \in Nat
    PROVE  /\ FiniteStore(Drop(s, k))
           /\ SumOf(s) = SumOf(Drop(s, k)) + s[k]
<1> DEFINE slice == {k} \X (1..s[k])
<1>1. Units(s) = Units(Drop(s, k)) \cup slice
  <2>1. ASSUME NEW x PROVE x \in Units(s) <=> x \in Units(Drop(s, k)) \cup slice
    BY DEF Units, Drop
  <2> QED BY <2>1
<1>2. Units(Drop(s, k)) \cap slice = {}
  BY DEF Units, Drop
<1>3. IsFiniteSet(slice) /\ Cardinality(slice) = s[k]
  BY SliceCardinality, Zenon
<1>4. IsFiniteSet(Units(s)) BY DEF FiniteStore
<1>5. IsFiniteSet(Units(Drop(s, k)))
  BY <1>1, <1>4, FS_Subset
<1>6. Cardinality(Units(Drop(s, k))) \in Nat BY <1>5, FS_CardinalityType
<1>7. Cardinality(Units(Drop(s, k)) \cup slice)
        = Cardinality(Units(Drop(s, k))) + Cardinality(slice)
            - Cardinality(Units(Drop(s, k)) \cap slice)
  BY <1>3, <1>5, FS_Union
<1>8. Cardinality({}) = 0 BY FS_EmptySet
<1> HIDE DEF slice
<1>a. Cardinality(Units(Drop(s, k)) \cup slice) = Cardinality(Units(Drop(s, k))) + s[k] - 0
  BY <1>2, <1>3, <1>7, <1>8, Zenon
<1>9. Cardinality(Units(Drop(s, k)) \cup slice) = Cardinality(Units(Drop(s, k))) + s[k]
  BY <1>6, <1>a
<1>10. SumOf(s) = SumOf(Drop(s, k)) + s[k]
  BY <1>1, <1>9 DEF SumOf
<1> QED BY <1>5, <1>10 DEF FiniteStore

\* A store with finitely many keys has finitely many coins.
LEMMA FiniteSum ==
    ASSUME NEW s, IsFiniteSet(DOMAIN s), \A k \in DOMAIN s : s[k] \in Nat
    PROVE  FiniteStore(s)
<1> DEFINE Slice(k) == {k} \X (1..s[k])
           slices == {Slice(k) : k \in DOMAIN s}
           f == [k \in DOMAIN s |-> Slice(k)]
<1>1. \A k \in DOMAIN s : IsFiniteSet(Slice(k))
  BY SliceCardinality
<1>2. Units(s) = UNION slices
  BY DEF Units
<1> HIDE DEF Slice
<1>3. f \in Surjection(DOMAIN s, slices)
  BY DEF Surjection
<1> HIDE DEF f
<1>4. IsFiniteSet(slices)
  BY <1>3, FS_Surjection
<1>5. \A t \in slices : IsFiniteSet(t)
  BY <1>1
<1> QED BY <1>2, <1>4, <1>5, FS_UNION DEF FiniteStore

\* A part of a store sums up to no more than the whole.
LEMMA SumSubset ==
    ASSUME NEW s, NEW t, FiniteStore(t), DOMAIN s \subseteq DOMAIN t,
           \A k \in DOMAIN s : s[k] = t[k]
    PROVE  FiniteStore(s) /\ SumOf(s) <= SumOf(t)
<1>1. Units(s) \subseteq Units(t)
  BY DEF Units
<1> QED BY <1>1, FS_Subset DEF FiniteStore, SumOf

\* Two stores that agree except under k.
LEMMA SumChange ==
    ASSUME NEW s, FiniteStore(s), NEW k \in DOMAIN s, s[k] \in Nat,
           NEW t, DOMAIN t = DOMAIN s, t[k] \in Nat,
           \A j \in DOMAIN s \ {k} : t[j] = s[j]
    PROVE  FiniteStore(t) /\ SumOf(t) = SumOf(s) - s[k] + t[k]
<1> DEFINE r == Drop(s, k)
           v == t[k]
           p == Put(r, k, v)
<1>1. FiniteStore(r) /\ SumOf(s) = SumOf(r) + s[k] BY SumDrop
<1>2. k \notin DOMAIN r BY DEF Drop
<1>3. FiniteStore(p) /\ SumOf(p) = SumOf(r) + v
  <2> HIDE DEF r, v
  <2> QED BY <1>1, <1>2, SumPut DEF v
<1>4. Units(t) = Units(p)
  <2>1. DOMAIN p = DOMAIN t /\ \A j \in DOMAIN t : p[j] = t[j] BY DEF Put, Drop
  <2> HIDE DEF p
  <2> QED BY <2>1 DEF Units
<1>5. SumOf(r) \in Nat BY <1>1, SumType
<1> HIDE DEF r, v, p
<1> QED BY <1>1, <1>3, <1>4, <1>5 DEF FiniteStore, SumOf, v

\* What a store holds under k, if anything.
Held(s, k) == IF k \in DOMAIN s THEN s[k] ELSE 0

\* Writing and deleting a key that may be present.
LEMMA SumWrite ==
    ASSUME NEW s, FiniteStore(s), NEW k, Held(s, k) \in Nat, NEW v \in Nat
    PROVE  /\ FiniteStore(Put(s, k, v)) /\ SumOf(Put(s, k, v)) = SumOf(s) - Held(s, k) + v
           /\ FiniteStore(Drop(s, k)) /\ SumOf(Drop(s, k)) = SumOf(s) - Held(s, k)
<1>1. SumOf(s) \in Nat BY SumType
<1>2. CASE k \in DOMAIN s
  <2> DEFINE p == Put(s, k, v)
  <2>1. s[k] = Held(s, k) BY <1>2 DEF Held
  <2>2. FiniteStore(Drop(s, k)) /\ SumOf(s) = SumOf(Drop(s, k)) + s[k] BY <1>2, <2>1, SumDrop
  <2>3. DOMAIN p = DOMAIN s /\ p[k] = v /\ \A j \in DOMAIN s \ {k} : p[j] = s[j]
    BY <1>2 DEF Put
  <2> HIDE DEF p
  <2>4. FiniteStore(p) /\ SumOf(p) = SumOf(s) - s[k] + v BY <1>2, <2>1, <2>3, SumChange
  <2>5. SumOf(Drop(s, k)) \in Nat BY <2>2, SumType
  <2> QED BY <1>1, <2>1, <2>2, <2>4, <2>5 DEF p
<1>3. CASE k \notin DOMAIN s
  <2>1. Held(s, k) = 0 BY <1>3 DEF Held
  <2>2. FiniteStore(Put(s, k, v)) /\ SumOf(Put(s, k, v)) = SumOf(s) + v BY <1>3, SumPut
  <2>3. Units(Drop(s, k)) = Units(s)
    <3>1. DOMAIN Drop(s, k) = DOMAIN s /\ \A j \in DOMAIN s : Drop(s, k)[j] = s[j] BY <1>3 DEF Drop
    <3> QED BY <3>1 DEF Units
  <2> QED BY <1>1, <2>1, <2>2, <2>3 DEF FiniteStore, SumOf
<1> QED BY <1>2, <1>3

\* A store that holds s on one set of keys and t on another.
LEMMA SumJoin ==
    ASSUME NEW s, FiniteStore(s), NEW t, FiniteStore(t), NEW r,
           DOMAIN s \cap DOMAIN t = {}, DOMAIN r = DOMAIN s \cup DOMAIN t,
           \A k \in DOMAIN s : r[k] = s[k], \A k \in DOMAIN t : r[k] = t[k]
    PROVE  FiniteStore(r) /\ SumOf(r) = SumOf(s) + SumOf(t)
<1>1. Units(r) = Units(s) \cup Units(t)
  <2>1. ASSUME NEW x PROVE x \in Units(r) <=> x \in Units(s) \cup Units(t)
    <3>1. x \in Units(r) => x \in Units(s) \cup Units(t) BY DEF Units
    <3>2. x \in Units(s) => x \in Units(r) BY DEF Units
    <3>3. x \in Units(t) => x \in Units(r) BY DEF Units
    <3> QED BY <3>1, <3>2, <3>3
  <2> QED BY <2>1
<1>2. Units(s) \cap Units(t) = {}
  <2>1. ASSUME NEW x, x \in Units(s), x \in Units(t) PROVE FALSE
    <3>1. x[1] \in DOMAIN s BY <2>1 DEF Units
    <3>2. x[1] \in DOMAIN t BY <2>1 DEF Units
    <3> QED BY <3>1, <3>2
  <2> QED BY <2>1
<1>3. /\ IsFiniteSet(Units(s) \cup Units(t))
      /\ Cardinality(Units(s) \cup Units(t)) =
            Cardinality(Units(s)) + Cardinality(Units(t)) - Cardinality(Units(s) \cap Units(t))
  BY FS_Union DEF FiniteStore
<1>4. SumOf(s) \in Nat /\ SumOf(t) \in Nat BY SumType
<1>5. Cardinality(Units(s) \cap Units(t)) = 0 BY <1>2, FS_EmptySet
<1>6. IsFiniteSet(Units(r)) BY <1>1, <1>3
<1>7. Cardinality(Units(r)) = Cardinality(Units(s)) + Cardinality(Units(t)) - 0
  BY <1>1, <1>3, <1>5
<1> QED BY <1>4, <1>6, <1>7 DEF FiniteStore, SumOf

=============================================================================
