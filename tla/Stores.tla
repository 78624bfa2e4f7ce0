-------------------------------- MODULE Stores --------------------------------
(***************************************************************************)
(* Key-value stores and coins, shared by all component modules.            *)
(*                                                                         *)
(* A KVStore of a keeper is a function whose domain is the set of keys     *)
(* that are present.  A sum over a store is the number of its coin units:  *)
(* the unit <<k, i>> is the i-th coin held under key k.  Counting units    *)
(* keeps sums free of recursion, so they can be reasoned about with the    *)
(* theorems on finite cardinalities.                                       *)
(***************************************************************************)
EXTENDS Naturals, FiniteSets

EmptyStore == [k \in {} |-> 0]

\* store.Set(k, v)
Put(s, k, v) == [x \in DOMAIN s \cup {k} |-> IF x = k THEN v ELSE s[x]]

\* store.Delete(k); deleting an absent key changes nothing
Drop(s, k) == [x \in DOMAIN s \ {k} |-> s[x]]

\* s is a store with keys in K and values in V
IsStore(s, K, V) == DOMAIN s \subseteq K /\ s \in [DOMAIN s -> V]

\* The coin units of a store of amounts, and their number.
Units(s) == UNION {{k} \X (1..s[k]) : k \in DOMAIN s}
SumOf(s) == Cardinality(Units(s))
FiniteStore(s) == IsFiniteSet(Units(s))

=============================================================================
