----------------------------- MODULE SolvencyProofs -----------------------------
(***************************************************************************)
(* The limit orders of LimitOrders, for every set of users, ticks, prices, *)
(* amounts and parameters: the module account is solvent, and the shares   *)
(* of a tranche's users are backed.                                        *)
(***************************************************************************)
EXTENDS DexProofs

\* How long the provers may take for a leaf, in seconds, and with no types.
USE SMTT(30), ZenonT(30), Untyped

-----------------------------------------------------------------------------
(* LimitOrders: solvency *)

Res(k, t, d) == IF k[1] = d THEN t.maker ELSE t.taker
BookSum(tr, ina, d) == SumOf(Reserves(tr, d)) + SumOf(Reserves(ina, d))

LEMMA ReservesFinite ==
    ASSUME NEW s, IsBook(s), NEW d
    PROVE  FiniteStore(Reserves(s, d)) /\ SumOf(Reserves(s, d)) \in Nat
<1> DEFINE r == Reserves(s, d)
<1>1. DOMAIN r = DOMAIN s /\ IsFiniteSet(DOMAIN r) BY DEF Reserves, IsBook
<1>2. \A k \in DOMAIN r : r[k] \in Nat BY <1>1, BookRecord DEF Reserves
<1> HIDE DEF r
<1>3. FiniteStore(r) BY <1>1, <1>2, FiniteSum
<1> QED BY <1>3, SumType DEF r

\* Writing and deleting a tranche.
LEMMA ReservesPut ==
    ASSUME NEW s, IsBook(s), NEW k \in Keys, NEW t \in TrancheRecords, NEW d
    PROVE  LET h == IF k \in DOMAIN s THEN Res(k, s[k], d) ELSE 0
           IN  /\ h \in Nat /\ Res(k, t, d) \in Nat
               /\ SumOf(Reserves(Put(s, k, t), d)) = SumOf(Reserves(s, d)) - h + Res(k, t, d)
               /\ SumOf(Reserves(Drop(s, k), d)) = SumOf(Reserves(s, d)) - h
<1> DEFINE h == IF k \in DOMAIN s THEN Res(k, s[k], d) ELSE 0
           r == Reserves(s, d)
           v == Res(k, t, d)
<1>1. v \in Nat BY DEF Res, TrancheRecords
<1>2. h \in Nat BY BookRecord DEF Res
<1>3. Held(r, k) = h BY DEF Held, Reserves, Res
<1>4. FiniteStore(r) BY ReservesFinite
<1>5. Reserves(Put(s, k, t), d) = Put(r, k, v) BY ZenonT(60) DEF Reserves, Put, Res
<1>6. Reserves(Drop(s, k), d) = Drop(r, k) BY DEF Reserves, Drop
<1> HIDE DEF h, r, v
<1>7. /\ SumOf(Put(r, k, v)) = SumOf(r) - Held(r, k) + v
      /\ SumOf(Drop(r, k)) = SumOf(r) - Held(r, k)
  BY <1>1, <1>2, <1>3, <1>4, SumWrite
<1>8. /\ h \in Nat /\ v \in Nat
      /\ SumOf(Reserves(Put(s, k, t), d)) = SumOf(r) - h + v
      /\ SumOf(Reserves(Drop(s, k), d)) = SumOf(r) - h
  BY <1>1, <1>2, <1>3, <1>5, <1>6, <1>7
<1> QED BY <1>8 DEF h, r, v

\* UpdateTranche replaces the reserves of a tranche, whichever store it ends
\* in; a record it overwrites among the inactive ones only lowers the sum.
LEMMA UpdateSum ==
    ASSUME IsBook(tranches), IsBook(inactive), NEW k \in DOMAIN tranches, NEW t \in TrancheRecords,
           UpdateTranche(k, t), NEW d
    PROVE  LET new == BookSum(tranches, inactive, d) - Res(k, tranches[k], d) + Res(k, t, d)
           IN  /\ BookSum(tranches', inactive', d) <= new
               /\ k \notin DOMAIN inactive => BookSum(tranches', inactive', d) = new
<1> DEFINE o == Res(k, tranches[k], d)
           v == Res(k, t, d)
           h == IF k \in DOMAIN inactive THEN Res(k, inactive[k], d) ELSE 0
           A == SumOf(Reserves(tranches, d))
           B == SumOf(Reserves(inactive, d))
<1>1. k \in Keys BY BookRecord
<1>2. A \in Nat /\ B \in Nat BY ReservesFinite
<1>3. /\ o \in Nat /\ v \in Nat
      /\ SumOf(Reserves(Put(tranches, k, t), d)) = A - o + v
      /\ SumOf(Reserves(Drop(tranches, k), d)) = A - o
  BY <1>1, ReservesPut
<1>4. h \in Nat /\ SumOf(Reserves(Put(inactive, k, t), d)) = B - h + v
  BY <1>1, ReservesPut
<1>5. k \notin DOMAIN inactive => h = 0 OBVIOUS
<1>6. ~HasTokenIn(t) /\ ~HasTokenOut(t) => v = 0
  BY DEF HasTokenIn, HasTokenOut, Res, TrancheRecords
<1> HIDE DEF o, v, h, A, B
<1>7. CASE HasTokenIn(t)
  <2>1. tranches' = Put(tranches, k, t) /\ inactive' = inactive BY <1>7 DEF UpdateTranche
  <2>2. BookSum(tranches', inactive', d) = A - o + v + B BY <1>3, <2>1 DEF BookSum, B
  <2> QED BY <1>2, <1>3, <2>2 DEF BookSum, A, B, o, v
<1>8. CASE ~HasTokenIn(t) /\ HasTokenOut(t)
  <2>1. tranches' = Drop(tranches, k) /\ inactive' = Put(inactive, k, t) BY <1>8 DEF UpdateTranche
  <2>2. BookSum(tranches', inactive', d) = A - o + (B - h + v) BY <1>3, <1>4, <2>1 DEF BookSum
  <2>3. /\ A - o + (B - h + v) <= A + B - o + v
        /\ h = 0 => A - o + (B - h + v) = A + B - o + v
    BY <1>2, <1>3, <1>4
  <2>4. BookSum(tranches, inactive, d) = A + B BY DEF BookSum, A, B
  <2>5. o \in Nat /\ v \in Nat /\ h \in Nat BY <1>3, <1>4
  <2> QED BY <1>2, <1>5, <2>2, <2>3, <2>4, <2>5 DEF o, v
<1>9. CASE ~HasTokenIn(t) /\ ~HasTokenOut(t)
  <2>1. tranches' = Drop(tranches, k) /\ inactive' = inactive BY <1>9 DEF UpdateTranche
  <2>2. BookSum(tranches', inactive', d) = A - o + B BY <1>3, <2>1 DEF BookSum, B
  <2>3. A - o + B = A + B - o + v BY <1>2, <1>3, <1>6, <1>9
  <2> QED BY <1>2, <1>3, <2>2, <2>3 DEF BookSum, A, B, o, v
<1> QED BY <1>7, <1>8, <1>9, ZenonT(60)

LEMMA UpdateInactiveSum ==
    ASSUME IsBook(tranches), IsBook(inactive), NEW k \in DOMAIN inactive, NEW t \in TrancheRecords,
           UpdateInactiveTranche(k, t), NEW d
    PROVE  BookSum(tranches', inactive', d) =
                BookSum(tranches, inactive, d) - Res(k, inactive[k], d) + Res(k, t, d)
<1> DEFINE v == Res(k, t, d)
           h == Res(k, inactive[k], d)
           A == SumOf(Reserves(tranches, d))
           B == SumOf(Reserves(inactive, d))
<1>1. k \in Keys BY BookRecord
<1>2. A \in Nat /\ B \in Nat BY ReservesFinite
<1>3. /\ h \in Nat /\ v \in Nat
      /\ SumOf(Reserves(Put(inactive, k, t), d)) = B - h + v
      /\ SumOf(Reserves(Drop(inactive, k), d)) = B - h
  BY <1>1, ReservesPut
<1>4. ~HasTokenIn(t) /\ ~HasTokenOut(t) => v = 0
  BY DEF HasTokenIn, HasTokenOut, Res, TrancheRecords
<1>5. tranches' = tranches BY DEF UpdateInactiveTranche
<1> HIDE DEF v, h, A, B
<1>6. SumOf(Reserves(inactive', d)) = B - h + v
  <2>1. CASE HasTokenIn(t) \/ HasTokenOut(t) BY <1>3, <2>1 DEF UpdateInactiveTranche
  <2>2. CASE ~(HasTokenIn(t) \/ HasTokenOut(t))
    <3>1. SumOf(Reserves(inactive', d)) = B - h BY <1>3, <2>2 DEF UpdateInactiveTranche
    <3> QED BY <1>2, <1>3, <1>4, <2>2, <3>1
  <2> QED BY <2>1, <2>2
<1>7. BookSum(tranches', inactive', d) = A + (B - h + v) BY <1>5, <1>6 DEF BookSum, A
<1> QED BY <1>2, <1>3, <1>7 DEF BookSum, A, B, v, h

\* A purge only moves reserves.
LEMMA PurgeSum ==
    ASSUME IsBook(tranches), IsBook(inactive), NEW P \in SUBSET DOMAIN tranches, PurgeStep(P), NEW d
    PROVE  /\ BookSum(tranches', inactive', d) <= BookSum(tranches, inactive, d)
           /\ DOMAIN tranches \cap DOMAIN inactive = {} =>
                BookSum(tranches', inactive', d) = BookSum(tranches, inactive, d)
<1> DEFINE R == Reserves(tranches, d)
           Q == Reserves(inactive, d)
           A == [k \in P |-> R[k]]
           B == [k \in DOMAIN tranches \ P |-> R[k]]
           C == [k \in DOMAIN inactive \ P |-> Q[k]]
<1>1. FiniteStore(R) /\ SumOf(R) \in Nat /\ FiniteStore(Q) /\ SumOf(Q) \in Nat BY ReservesFinite
<1>2. DOMAIN R = DOMAIN tranches /\ DOMAIN Q = DOMAIN inactive BY DEF Reserves
<1>3. Reserves(tranches', d) = B BY ZenonT(60) DEF PurgeStep, Reserves
<1>4. Reserves(inactive', d) = [k \in DOMAIN inactive \cup P |-> IF k \in P THEN R[k] ELSE Q[k]]
  BY ZenonT(60) DEF PurgeStep, Reserves
<1> HIDE DEF R, Q
<1>5. /\ DOMAIN A = P /\ DOMAIN B = DOMAIN tranches \ P /\ DOMAIN C = DOMAIN inactive \ P
      /\ \A k \in P : A[k] = R[k]
      /\ \A k \in DOMAIN tranches \ P : B[k] = R[k]
      /\ \A k \in DOMAIN inactive \ P : C[k] = Q[k]
  BY ZenonT(60)
<1> HIDE DEF A, B, C
<1>6. FiniteStore(A) /\ FiniteStore(B) /\ FiniteStore(C) /\ SumOf(C) <= SumOf(Q)
  BY <1>1, <1>2, <1>5, SumSubset
<1>7. SumOf(R) = SumOf(A) + SumOf(B) BY <1>2, <1>5, <1>6, SumJoin, ZenonT(60)
<1>8. SumOf(Reserves(inactive', d)) = SumOf(A) + SumOf(C)
  <2> DEFINE r == Reserves(inactive', d)
  <2>1. /\ DOMAIN r = DOMAIN A \cup DOMAIN C /\ DOMAIN A \cap DOMAIN C = {}
        /\ \A k \in DOMAIN A : r[k] = A[k]
        /\ \A k \in DOMAIN C : r[k] = C[k]
    BY <1>4, <1>5, ZenonT(60)
  <2> HIDE DEF r
  <2> QED BY <1>6, <2>1, SumJoin DEF r
<1>9. DOMAIN tranches \cap DOMAIN inactive = {} => SumOf(C) = SumOf(Q)
  <2> SUFFICES ASSUME DOMAIN tranches \cap DOMAIN inactive = {} PROVE SumOf(C) = SumOf(Q) OBVIOUS
  <2>1. DOMAIN C = DOMAIN Q /\ \A k \in DOMAIN Q : C[k] = Q[k] BY <1>2, <1>5, ZenonT(60)
  <2>2. Units(C) = Units(Q) BY <2>1 DEF Units
  <2> QED BY <2>2 DEF SumOf
<1>10. SumOf(A) \in Nat /\ SumOf(B) \in Nat /\ SumOf(C) \in Nat BY <1>6, SumType
<1> QED BY <1>1, <1>3, <1>6, <1>7, <1>8, <1>9, <1>10 DEF BookSum, R, Q

Covered(tr, ina, d, x) ==
    /\ x >= BookSum(tr, ina, d)
    /\ restarts = 0 => x = BookSum(tr, ina, d)

\* The position once the running order is settled.
Booked(d) == Position(d) + Payable(d) - Receivable(d)

SolvInv ==
    \A d \in Denoms :
        /\ FiniteStore(Debts(d))
        /\ Covered(tranches, inactive, d, Booked(d))
        /\ order # NoOrder => Covered(saved[1], saved[2], d, Position(d))

LEMMA PositionInt ==
    ASSUME Types, NEW d \in Denoms, FiniteStore(Debts(d))
    PROVE  /\ Position(d) \in Int /\ Payable(d) \in Nat /\ Receivable(d) \in Nat
           /\ BookSum(tranches, inactive, d) \in Nat
           /\ order = NoOrder => Booked(d) = Position(d)
<1>1. dex[d] \in Nat BY DEF Types
<1>2. Dec(dex[d]) \in Nat /\ SumOf(Debts(d)) \in Nat BY <1>1, DecNat, SumType
<1>3. Position(d) \in Int BY <1>2 DEF Position
<1>4. Payable(d) \in Nat BY SwapInNat DEF Payable
<1>5. Receivable(d) \in Nat BY OrderParts, ZenonT(60) DEF Receivable
<1>6. BookSum(tranches, inactive, d) \in Nat BY ReservesFinite DEF Types, BookSum
<1>7. order = NoOrder => Booked(d) = Position(d) BY <1>3 DEF Booked, Payable, Receivable
<1> QED BY <1>3, <1>4, <1>5, <1>6, <1>7

\* A new position and a new sum that moved alike.
LEMMA CoveredStep ==
    ASSUME NEW x \in Int, NEW y \in Int, NEW s \in Int, NEW z \in Int, NEW v \in Int,
           x >= s, restarts = 0 => x = s, restarts' = 0 => restarts = 0,
           y = x + v, z <= s + v, restarts = 0 => z = s + v
    PROVE  y >= z /\ (restarts' = 0 => y = z)
OBVIOUS

LEMMA SwapSolvent ==
    ASSUME Types, SolvInv, FreshInv, NEW k \in DOMAIN tranches, NEW in \in Nat, NEW out \in Nat,
           NEW f \in BOOLEAN, SwapStep(k, in, out, f), Types'
    PROVE  SolvInv'
<1>1. /\ order # NoOrder /\ k \in Liquidity /\ out <= tranches[k].maker
      /\ UpdateTranche(k, Swapped(tranches[k], in, out))
      /\ UNCHANGED <<dex, frac, saved, restarts>>
  BY DEF SwapStep, bank, env
<1> SUFFICES ASSUME NEW d \in Denoms
             PROVE  /\ FiniteStore(Debts(d))'
                    /\ Covered(tranches, inactive, d, Booked(d))'
                    /\ Covered(saved[1], saved[2], d, Position(d))'
  BY DEF SolvInv
<1>2. /\ FiniteStore(Debts(d)) /\ Covered(tranches, inactive, d, Booked(d))
      /\ Covered(saved[1], saved[2], d, Position(d))
  BY <1>1, ZenonT(60) DEF SolvInv
<1>3. Debts(d)' = Debts(d) /\ Position(d)' = Position(d) BY <1>1, ZenonT(60) DEF Debts, Position
<1>4. Covered(saved[1], saved[2], d, Position(d))' BY <1>1, <1>2, <1>3, ZenonT(60) DEF Covered
<1> DEFINE t == tranches[k]
           w == Swapped(t, in, out)
           v == Res(k, w, d) - Res(k, t, d)
<1>5. t \in TrancheRecords /\ t.maker \in Nat /\ t.taker \in Nat BY BookRecord, ZenonT(60) DEF Types
<1>6. w \in TrancheRecords /\ w.maker = t.maker - out /\ w.taker = t.taker + in
  BY <1>1, <1>5, SwappedRecord, ZenonT(60)
<1>7. k[1] = Other(order.in) /\ order.in \in {0, 1} /\ d \in {0, 1}
  BY <1>1, OrderParts, LimitOrdersAssumption, ZenonT(60) DEF Liquidity
<1>8. v = IF d = order.in THEN in ELSE -out
  BY <1>5, <1>6, <1>7 DEF Res, Other
<1>9. /\ order' # NoOrder /\ order'.in = order.in /\ order'.got = order.got + out
      /\ order'.left = order.left - in /\ order'.amount = order.amount
  BY SwappedOrder
<1>10. Booked(d)' = Booked(d) + v
  <2>1. order.got \in Nat /\ order.left \in Nat /\ order.amount \in Nat BY <1>1, OrderParts, ZenonT(60)
  <2>2. Dec(order.amount) \in Nat BY <2>1, DecNat
  <2>3. Position(d) \in Int BY <1>2, PositionInt, ZenonT(60)
  <2>4. CASE d = order.in
    <3>1. Booked(d) = Position(d) + (Dec(order.amount) - order.left) - 0
      BY <1>1, <1>7, <2>4 DEF Booked, Payable, Receivable, SwapIn, Other
    <3>2. Booked(d)' = Position(d)' + (Dec(order'.amount) - order'.left) - 0
      BY <1>7, <1>9, <2>4 DEF Booked, Payable, Receivable, SwapIn, Other
    <3> QED BY <1>3, <1>8, <1>9, <2>1, <2>2, <2>3, <2>4, <3>1, <3>2
  <2>5. CASE d # order.in
    <3>1. Booked(d) = Position(d) + 0 - order.got
      BY <1>1, <1>7, <2>5 DEF Booked, Payable, Receivable, Other
    <3>2. Booked(d)' = Position(d)' + 0 - order'.got
      BY <1>7, <1>9, <2>5 DEF Booked, Payable, Receivable, Other
    <3> QED BY <1>3, <1>8, <1>9, <2>1, <2>3, <2>5, <3>1, <3>2
  <2> QED BY <2>4, <2>5
<1>11. /\ BookSum(tranches', inactive', d) <= BookSum(tranches, inactive, d) - Res(k, t, d) + Res(k, w, d)
       /\ k \notin DOMAIN inactive =>
            BookSum(tranches', inactive', d) = BookSum(tranches, inactive, d) - Res(k, t, d) + Res(k, w, d)
  BY <1>1, <1>6, UpdateSum, ZenonT(60) DEF Types
<1>12. restarts = 0 => k \notin DOMAIN inactive BY ZenonT(60) DEF FreshInv, Fresh
<1> DEFINE x == Booked(d)
           y == Booked(d)'
           S == BookSum(tranches, inactive, d)
           z == BookSum(tranches', inactive', d)
<1>13. Res(k, t, d) \in Int /\ Res(k, w, d) \in Int BY <1>5, <1>6 DEF Res, TrancheRecords
<1>14. x \in Int /\ S \in Int BY <1>2, PositionInt DEF Booked
<1>15. z \in Int BY ReservesFinite DEF Types, BookSum
<1>16. x >= S /\ (restarts = 0 => x = S) BY <1>2, ZenonT(60) DEF Covered
<1> HIDE DEF x, y, S, z, t, w
<1>17. v \in Int /\ z <= S + v /\ (restarts = 0 => z = S + v)
  BY <1>11, <1>12, <1>13, <1>14, <1>15 DEF S, z
<1> HIDE DEF v
<1>18. y = x + v /\ y \in Int BY <1>10, <1>14, <1>17 DEF x, y
<1>19. y >= z /\ (restarts' = 0 => y = z) BY <1>1, <1>14, <1>15, <1>16, <1>17, <1>18, CoveredStep
<1> QED BY <1>2, <1>3, <1>4, <1>19, ZenonT(60) DEF Covered, y, z

LEMMA FinishSolvent ==
    ASSUME Types, SolvInv, FreshInv, NEW k \in Keys, NEW t \in TrancheRecords, NEW u \in UserRecords,
           NEW n \in Nat, FinishStep(k, t, u, n), Types'
    PROVE  SolvInv'
<1>1. /\ order # NoOrder /\ order' = NoOrder /\ restarts' = restarts /\ k[1] = order.in
      /\ CanExchange(order.creator, order.receiver, order.in, order.got, SwapIn + Dec(n))
      /\ Exchange(order.creator, order.receiver, order.in, order.got, SwapIn + Dec(n))
  BY DEF FinishStep, env
<1>2. /\ order.creator \in Users /\ order.receiver \in Users /\ order.in \in {0, 1}
      /\ order.in \in Denoms /\ order.got \in Nat
  BY <1>1, OrderParts, LimitOrdersAssumption, ZenonT(60)
<1>3. SwapIn \in Nat /\ Dec(n) \in Nat /\ SwapIn + Dec(n) \in Nat
  <2>1. SwapIn \in Nat /\ Dec(n) \in Nat BY <1>1, SwapInNat, DecNat
  <2> QED BY <2>1
<1> SUFFICES ASSUME NEW d \in Denoms
             PROVE  FiniteStore(Debts(d))' /\ Covered(tranches, inactive, d, Booked(d))'
  BY <1>1, ZenonT(60) DEF SolvInv
<1>4. FiniteStore(Debts(d)) /\ Covered(tranches, inactive, d, Booked(d)) /\ d \in {0, 1}
  BY LimitOrdersAssumption, ZenonT(60) DEF SolvInv
<1>5. /\ FiniteStore(Debts(d)')
      /\ Position(d)' = Position(d) - Only(Other(order.in), order.got)[d] + Only(order.in, SwapIn + Dec(n))[d]
  BY <1>1, <1>2, <1>3, <1>4, BankExchanges
<1> DEFINE v == IF d = order.in THEN Dec(n) ELSE 0
           x == Booked(d)
           y == Booked(d)'
           S == BookSum(tranches, inactive, d)
           z == BookSum(tranches', inactive', d)
<1>6. Position(d) \in Int /\ x \in Int /\ S \in Int BY <1>4, PositionInt DEF Booked
<1>7. y = Position(d)'
  <2>a. Only(Other(order.in), order.got)[d] \in Nat /\ Only(order.in, SwapIn + Dec(n))[d] \in Nat
    BY <1>2, <1>3, ZenonT(60) DEF Only
  <2>1. Position(d)' \in Int BY <1>5, <1>6, <2>a
  <2> QED BY <1>1, <2>1 DEF Booked, Payable, Receivable
<1>8. y = x + v
  <2>1. CASE d = order.in
    <3>1. x = Position(d) + SwapIn - 0 BY <1>1, <1>2, <2>1 DEF Booked, Payable, Receivable, Other
    <3>2. Position(d)' = Position(d) - 0 + (SwapIn + Dec(n)) BY <1>2, <1>5, <2>1 DEF Only, Other
    <3> QED BY <1>3, <1>6, <1>7, <2>1, <3>1, <3>2
  <2>2. CASE d # order.in
    <3>1. x = Position(d) + 0 - order.got BY <1>1, <1>2, <1>4, <2>2 DEF Booked, Payable, Receivable, Other
    <3>2. Position(d)' = Position(d) - order.got + 0 BY <1>2, <1>4, <1>5, <2>2 DEF Only, Other
    <3> QED BY <1>2, <1>6, <1>7, <2>2, <3>1, <3>2
  <2> QED BY <2>1, <2>2
<1>9. z \in Int BY ReservesFinite DEF Types, BookSum
<1>10. x >= S /\ (restarts = 0 => x = S) BY <1>4 DEF Covered
<1>11. z <= S + v /\ (restarts = 0 => z = S + v)
  <2>1. CASE n = 0
    <3>1. Dec(n) = 0 BY <2>1, PrecisionAssumption DEF Dec
    <3>2. z = S BY <2>1 DEF FinishStep
    <3> QED BY <1>6, <3>1, <3>2
  <2>2. CASE n > 0
    <3> DEFINE w == WithMakerOrder(t, n)
               h == IF k \in DOMAIN tranches THEN Res(k, tranches[k], d) ELSE 0
               A == SumOf(Reserves(tranches, d))
               B == SumOf(Reserves(inactive, d))
    <3>1. tranches' = Put(tranches, k, w) /\ inactive' = inactive BY <2>2 DEF FinishStep
    <3>2. w \in TrancheRecords /\ w.maker = t.maker + Dec(n) /\ w.taker = t.taker BY PlacedRecord
    <3>3. /\ h \in Nat /\ Res(k, w, d) \in Nat
          /\ SumOf(Reserves(Put(tranches, k, w), d)) = A - h + Res(k, w, d)
      BY <3>2, ReservesPut DEF Types
    <3>4. A \in Nat /\ B \in Nat BY ReservesFinite DEF Types
    <3>5. Res(k, w, d) = Res(k, t, d) + v /\ Res(k, t, d) \in Nat
      BY <1>1, <1>3, <3>2 DEF Res, TrancheRecords
    <3>6. Res(k, t, d) <= h /\ (restarts = 0 => Res(k, t, d) = h)
      <4>1. CASE k \in DOMAIN tranches /\ t = tranches[k] BY <3>3, <4>1
      <4>2. CASE k[3] = trancheCount /\ t = NewLimitOrderTranche(order.expires)
        <5>1. Res(k, t, d) = 0 BY <4>2 DEF Res, NewLimitOrderTranche
        <5>2. restarts = 0 => k \notin DOMAIN tranches
          <6>1. restarts = 0 /\ k \in DOMAIN tranches => k[3] < trancheCount BY ZenonT(60) DEF FreshInv, Fresh
          <6>2. trancheCount \in Nat BY DEF Types
          <6> QED BY <4>2, <6>1, <6>2
        <5> QED BY <3>3, <5>1, <5>2
      <4> QED BY <4>1, <4>2 DEF FinishStep
    <3>7. z = A - h + Res(k, w, d) + B BY <3>1, <3>3 DEF BookSum
    <3>8. S = A + B BY DEF BookSum
    <3>9. v \in Int BY <1>3
    <3> HIDE DEF A, B, h, w, v, z, S
    <3> QED BY <3>3, <3>4, <3>5, <3>6, <3>7, <3>8, <3>9
  <2> QED BY <2>1, <2>2
<1>12. v \in Int BY <1>3
<1> HIDE DEF v, x, y, S, z
<1>13. y >= z /\ (restarts' = 0 => y = z)
  BY <1>1, <1>6, <1>8, <1>9, <1>10, <1>11, <1>12, CoveredStep
<1> QED BY <1>5, <1>13 DEF Covered, y, z

LEMMA TakeOutSolvent ==
    ASSUME Types, SolvInv, FreshInv, NEW a \in DOMAIN users, NEW t \in TrancheRecords, NEW u \in UserRecords,
           NEW rest \in Nat, NEW out \in Nat, TakeOut(a, t, u, rest, out), Types'
    PROVE  SolvInv'
<1> DEFINE k == KeyOf(a)
           old == FindLimitOrderTranche(k)
<1>1. /\ order = NoOrder /\ order' = NoOrder /\ restarts' = restarts /\ Found(k)
      /\ rest <= old.maker /\ out <= old.taker
      /\ t.maker = old.maker - rest /\ t.taker = old.taker - out
      /\ IF k \in DOMAIN tranches THEN UpdateTranche(k, t) ELSE UpdateInactiveTranche(k, t)
      /\ SendFromDex(a[1], Pays(k, rest, out))
  BY ZenonT(60) DEF TakeOut, env
<1>2. k \in Keys /\ old \in TrancheRecords /\ a[1] \in Users BY <1>1, UserTranche, ZenonT(60)
<1> SUFFICES ASSUME NEW d \in Denoms
             PROVE  FiniteStore(Debts(d))' /\ Covered(tranches, inactive, d, Booked(d))'
  BY <1>1, ZenonT(60) DEF SolvInv
<1> DEFINE v == -Pays(k, rest, out)[d]
           x == Booked(d)
           y == Booked(d)'
           S == BookSum(tranches, inactive, d)
           z == BookSum(tranches', inactive', d)
<1>3. FiniteStore(Debts(d)) /\ Covered(tranches, inactive, d, Booked(d)) BY DEF SolvInv
<1>4. Pays(k, rest, out) \in [Denoms -> Nat] BY DEF Pays
<1>5. FiniteStore(Debts(d)') /\ Position(d)' = Position(d) - Pays(k, rest, out)[d]
  BY <1>1, <1>2, <1>3, <1>4, BankPaysOut, ZenonT(60)
<1>6. Position(d) \in Int /\ x = Position(d) /\ S \in Int BY <1>1, <1>3, PositionInt
<1>7. Pays(k, rest, out)[d] \in Nat BY <1>4
<1>8. y = x + v
  <2>1. Position(d)' \in Int BY <1>5, <1>6, <1>7
  <2>2. y = Position(d)' BY <1>1, <2>1 DEF Booked, Payable, Receivable
  <2> QED BY <1>5, <1>6, <1>7, <2>2
<1>9. z \in Int BY ReservesFinite DEF Types, BookSum
<1>10. x >= S /\ (restarts = 0 => x = S) BY <1>3 DEF Covered
<1>11. Res(k, t, d) - Res(k, old, d) = v /\ Res(k, t, d) \in Int /\ Res(k, old, d) \in Int
  <2>1. old.maker \in Nat /\ old.taker \in Nat BY <1>2 DEF TrancheRecords
  <2> QED BY <1>1, <2>1 DEF Res, Pays
<1>12. z <= S - Res(k, old, d) + Res(k, t, d)
       /\ (restarts = 0 => z = S - Res(k, old, d) + Res(k, t, d))
  <2>1. CASE k \in DOMAIN tranches
    <3>1. old = tranches[k] /\ UpdateTranche(k, t) BY <1>1, <2>1, ZenonT(60) DEF FindLimitOrderTranche
    <3>2. restarts = 0 => k \notin DOMAIN inactive BY <2>1, ZenonT(60) DEF FreshInv, Fresh
    <3> QED BY <2>1, <3>1, <3>2, UpdateSum, ZenonT(60) DEF Types
  <2>2. CASE k \notin DOMAIN tranches
    <3>1. old = inactive[k] /\ k \in DOMAIN inactive /\ UpdateInactiveTranche(k, t)
      BY <1>1, <2>2, ZenonT(60) DEF FindLimitOrderTranche, Found
    <3>2. z = S - Res(k, old, d) + Res(k, t, d) BY <3>1, UpdateInactiveSum, ZenonT(60) DEF Types
    <3> QED BY <1>9, <3>2
  <2> QED BY <2>1, <2>2, ZenonT(60)
<1> HIDE DEF x, y, S, z
<1>13. v \in Int BY <1>7
<1> HIDE DEF v
<1>14. z <= S + v /\ (restarts = 0 => z = S + v) /\ y \in Int
  BY <1>6, <1>8, <1>9, <1>11, <1>12, <1>13
<1>15. y >= z /\ (restarts' = 0 => y = z)
  BY <1>1, <1>6, <1>8, <1>9, <1>10, <1>13, <1>14, CoveredStep, ZenonT(60)
<1> QED BY <1>5, <1>15 DEF Covered, y, z

LEMMA PurgeSolvent ==
    ASSUME Types, SolvInv, FreshInv, NEW P \in SUBSET DOMAIN tranches, PurgeStep(P), Types'
    PROVE  SolvInv'
<1>1. /\ order = NoOrder /\ order' = NoOrder /\ dex' = dex /\ restarts \in Nat
      /\ \/ frac' = frac /\ restarts' = restarts
         \/ frac' = [x \in Users \X Denoms |-> 0] /\ restarts' = restarts + 1
  BY DEF PurgeStep, Types
<1> SUFFICES ASSUME NEW d \in Denoms
             PROVE  FiniteStore(Debts(d))' /\ Covered(tranches, inactive, d, Booked(d))'
  BY <1>1 DEF SolvInv
<1> DEFINE x == Position(d)
           y == Position(d)'
           S == BookSum(tranches, inactive, d)
           z == BookSum(tranches', inactive', d)
<1>2. FiniteStore(Debts(d)) /\ Covered(tranches, inactive, d, Booked(d)) BY DEF SolvInv
<1>3. x \in Int /\ S \in Int /\ Booked(d) = x BY <1>1, <1>2, PositionInt
<1>4. x >= S /\ (restarts = 0 => x = S) BY <1>2, <1>3 DEF Covered
<1>5. z <= S /\ (restarts = 0 => z = S)
  <2>1. restarts = 0 => DOMAIN tranches \cap DOMAIN inactive = {} BY ZenonT(60) DEF FreshInv, Fresh
  <2> QED BY <2>1, PurgeSum DEF Types
<1>6. z \in Int BY ReservesFinite DEF Types, BookSum
<1>7. FiniteStore(Debts(d))' /\ y \in Int /\ y >= x /\ (restarts' = 0 => y = x /\ restarts = 0)
  <2>1. CASE frac' = frac /\ restarts' = restarts
    <3>1. Debts(d)' = Debts(d) /\ Position(d)' = Position(d) BY <1>1, <2>1, ZenonT(60) DEF Debts, Position
    <3> QED BY <1>2, <1>3, <2>1, <3>1
  <2>2. CASE frac' = [a \in Users \X Denoms |-> 0] /\ restarts' = restarts + 1
    <3>1. Debts(d)' = [a \in Users |-> 0] BY <2>2 DEF Debts
    <3>2. Units([a \in Users |-> 0]) = {} BY DEF Units
    <3>3. FiniteStore(Debts(d)') /\ SumOf(Debts(d)') = 0 BY <3>1, <3>2, FS_EmptySet DEF FiniteStore, SumOf
    <3>4. dex[d] \in Nat BY DEF Types
    <3>5. Dec(dex[d]) \in Nat /\ SumOf(Debts(d)) \in Nat BY <1>2, <3>4, DecNat, SumType
    <3>6. y = Dec(dex[d]) - 0 BY <1>1, <3>3 DEF Position
    <3>7. x = Dec(dex[d]) - SumOf(Debts(d)) BY DEF Position
    <3>8. y \in Int /\ y >= x BY <3>5, <3>6, <3>7
    <3>9. restarts' # 0 BY <1>1, <2>2
    <3> QED BY <3>3, <3>8, <3>9
  <2> QED BY <1>1, <2>1, <2>2
<1>8. Booked(d)' = y BY <1>1, <1>7 DEF Booked, Payable, Receivable
<1> HIDE DEF x, y, S, z
<1>9. y >= z /\ (restarts' = 0 => y = z) BY <1>3, <1>4, <1>5, <1>6, <1>7
<1> QED BY <1>7, <1>8, <1>9 DEF Covered, z

LEMMA SolvInit == Init => SolvInv
<1> SUFFICES ASSUME Init, NEW d \in Denoms
             PROVE  FiniteStore(Debts(d)) /\ Covered(tranches, inactive, d, Booked(d))
  BY DEF SolvInv, Init
<1>1. Debts(d) = [a \in Users |-> 0] BY DEF Init, Debts
<1>2. Units([a \in Users |-> 0]) = {} BY DEF Units
<1>3. FiniteStore(Debts(d)) /\ SumOf(Debts(d)) = 0 BY <1>1, <1>2, FS_EmptySet DEF FiniteStore, SumOf
<1>4. dex[d] = 0 BY DEF Init
<1>5. Dec(dex[d]) = 0 BY <1>4, PrecisionAssumption DEF Dec
<1>6. Booked(d) = 0 BY <1>3, <1>5 DEF Booked, Position, Payable, Receivable, Init
<1>7. Units(Reserves(EmptyStore, d)) = {} BY DEF Reserves, Units, EmptyStore
<1>8. SumOf(Reserves(EmptyStore, d)) = 0 BY <1>7, FS_EmptySet DEF SumOf
<1>9. BookSum(tranches, inactive, d) = 0 BY <1>8 DEF Init, BookSum
<1> QED BY <1>3, <1>6, <1>9 DEF Covered

LEMMA SolvStep == ASSUME Types, SolvInv, FreshInv, DexStep, Types' PROVE SolvInv'
<1>1. CASE OpenStep
  <2>1. /\ order = NoOrder /\ order' # NoOrder /\ order'.left = Dec(order'.amount) /\ order'.got = 0
        /\ saved'[1] = tranches /\ saved'[2] = inactive
        /\ UNCHANGED <<tranches, inactive, dex, frac, restarts>>
    BY <1>1, ZenonT(60) DEF OpenStep, bank, env
  <2> SUFFICES ASSUME NEW d \in Denoms
               PROVE  /\ FiniteStore(Debts(d))'
                      /\ Covered(tranches, inactive, d, Booked(d))'
                      /\ Covered(saved[1], saved[2], d, Position(d))'
    BY DEF SolvInv
  <2>2. FiniteStore(Debts(d)) /\ Covered(tranches, inactive, d, Booked(d)) BY DEF SolvInv
  <2>3. Position(d) \in Int /\ Booked(d) = Position(d) BY <2>1, <2>2, PositionInt
  <2>4. Debts(d)' = Debts(d) /\ Position(d)' = Position(d) BY <2>1, ZenonT(60) DEF Debts, Position
  <2>5. order'.amount \in Nat BY <1>1 DEF OpenStep, OrderRecords
  <2>6. SwapIn' = 0 BY <2>1, <2>5, DecNat DEF SwapIn
  <2>7. Booked(d)' = Position(d) BY <2>1, <2>3, <2>4, <2>6 DEF Booked, Payable, Receivable
  <2> QED BY <2>1, <2>2, <2>3, <2>4, <2>7 DEF Covered
<1>2. CASE \E k \in DOMAIN tranches, in \in Nat, out \in Nat, f \in BOOLEAN : SwapStep(k, in, out, f)
  BY <1>2, SwapSolvent
<1>3. CASE \E k \in Keys, t \in TrancheRecords, u \in UserRecords, n \in Nat : FinishStep(k, t, u, n)
  BY <1>3, FinishSolvent
<1>4. CASE RevertStep
  <2>1. /\ order # NoOrder /\ order' = NoOrder /\ tranches' = saved[1] /\ inactive' = saved[2]
        /\ UNCHANGED <<dex, frac, restarts>>
    BY <1>4 DEF RevertStep, bank, env
  <2> SUFFICES ASSUME NEW d \in Denoms
               PROVE  FiniteStore(Debts(d))' /\ Covered(tranches, inactive, d, Booked(d))'
    BY <2>1, ZenonT(60) DEF SolvInv
  <2>2. FiniteStore(Debts(d)) /\ Covered(saved[1], saved[2], d, Position(d)) BY <2>1 DEF SolvInv
  <2>3. Position(d) \in Int BY <2>2, PositionInt
  <2>4. Debts(d)' = Debts(d) /\ Position(d)' = Position(d) BY <2>1, ZenonT(60) DEF Debts, Position
  <2>5. Booked(d)' = Position(d) BY <2>1, <2>3, <2>4 DEF Booked, Payable, Receivable
  <2> QED BY <2>1, <2>2, <2>4, <2>5 DEF Covered
<1>5. CASE \E x \in DOMAIN users, t \in TrancheRecords, u \in UserRecords, rest \in Nat, out \in Nat :
            TakeOut(x, t, u, rest, out)
  BY <1>5, TakeOutSolvent
<1>6. CASE \E P \in SUBSET DOMAIN tranches : PurgeStep(P) BY <1>6, PurgeSolvent
<1>7. CASE IdleStep
  BY <1>7, ZenonT(60) DEF IdleStep, SolvInv, Covered, Booked, Position, Debts, Payable, Receivable, SwapIn
<1> QED BY <1>1, <1>2, <1>3, <1>4, <1>5, <1>6, <1>7 DEF DexStep

LEMMA SolvImpliesSolvent == ASSUME Types, SolvInv PROVE Solvent
<1> SUFFICES ASSUME NEW d \in Denoms
             PROVE  Assets(d) >= Liabilities(d) /\ (restarts = 0 => Assets(d) = Liabilities(d))
  BY DEF Solvent
<1>1. FiniteStore(Debts(d)) /\ Covered(tranches, inactive, d, Booked(d)) BY DEF SolvInv
<1>2. Payable(d) \in Nat /\ Receivable(d) \in Nat BY <1>1, PositionInt
<1>3. dex[d] \in Nat BY DEF Types
<1>4. Dec(dex[d]) \in Nat /\ SumOf(Debts(d)) \in Nat BY <1>1, <1>3, DecNat, SumType
<1>5. SumOf(Reserves(tranches, d)) \in Nat /\ SumOf(Reserves(inactive, d)) \in Nat
  BY ReservesFinite DEF Types
<1> QED BY <1>1, <1>2, <1>4, <1>5 DEF Covered, Booked, Position, BookSum, Assets, Liabilities

-----------------------------------------------------------------------------
(* LimitOrders: the shares of a tranche's users stay within its total *)

ShareSum(k) == SumOf([x \in UsersOf(k) |-> users[x].shares])
FindIn(tr, ina, k) == IF k \in DOMAIN tr THEN tr[k] ELSE ina[k]
SharesWithin(tr, ina) ==
    \A k \in DOMAIN tr \cup DOMAIN ina : ShareSum(k) <= FindIn(tr, ina, k).totalMaker

SharesInv ==
    restarts = 0 => /\ SharesWithin(tranches, inactive)
                    /\ order # NoOrder => SharesWithin(saved[1], saved[2])

LEMMA SharesFinite ==
    ASSUME Types, NEW k
    PROVE  /\ FiniteStore([x \in UsersOf(k) |-> users[x].shares]) /\ ShareSum(k) \in Nat
           /\ \A x \in DOMAIN users : users[x].shares \in Nat
<1> DEFINE s == [x \in UsersOf(k) |-> users[x].shares]
<1>1. \A x \in DOMAIN users : users[x].shares \in Nat BY DEF Types, IsStore, UserRecords
<1>2. DOMAIN s = UsersOf(k) /\ UsersOf(k) \subseteq DOMAIN users BY DEF UsersOf
<1>3. IsFiniteSet(DOMAIN s) BY <1>2, FS_Subset DEF Types
<1>4. \A x \in DOMAIN s : s[x] \in Nat BY <1>1, <1>2
<1> HIDE DEF s
<1>5. FiniteStore(s) BY <1>3, <1>4, FiniteSum
<1> QED BY <1>1, <1>5, SumType, ZenonT(60) DEF s, ShareSum

\* Writing the record u of user x moves the shares of one tranche only.
LEMMA SharesMove ==
    ASSUME Types, NEW x, NEW u \in UserRecords, UpdateTrancheUser(x, u), NEW k,
           k = <<u.side, u.tick, x[2]>>, x \in DOMAIN users => KeyOf(x) = k
    PROVE  LET h == IF x \in DOMAIN users THEN users[x].shares ELSE 0
           IN  /\ h \in Nat /\ u.shares \in Nat
               /\ ShareSum(k)' = ShareSum(k) - h + (IF IsEmpty(u) THEN 0 ELSE u.shares)
               /\ \A j : j # k => ShareSum(j)' = ShareSum(j)
<1> DEFINE h == IF x \in DOMAIN users THEN users[x].shares ELSE 0
           s(j) == [y \in UsersOf(j) |-> users[y].shares]
<1>1. h \in Nat /\ u.shares \in Nat /\ FiniteStore(s(k)) /\ ShareSum(k) \in Nat
  BY SharesFinite, ZenonT(60) DEF UserRecords
<1>2. Held(s(k), x) = h
  <2>1. x \in UsersOf(k) <=> x \in DOMAIN users BY ZenonT(60) DEF UsersOf
  <2> QED BY <2>1, ZenonT(60) DEF Held
<1>3. /\ SumOf(Put(s(k), x, u.shares)) = ShareSum(k) - h + u.shares
      /\ SumOf(Drop(s(k), x)) = ShareSum(k) - h
  <2> DEFINE r == s(k)
             v == u.shares
  <2>1. ShareSum(k) = SumOf(r) BY DEF ShareSum
  <2>2. FiniteStore(r) /\ Held(r, x) \in Nat /\ v \in Nat BY <1>1, <1>2, ZenonT(60)
  <2> HIDE DEF r, v
  <2>3. SumOf(Put(r, x, v)) = SumOf(r) - Held(r, x) + v /\ SumOf(Drop(r, x)) = SumOf(r) - Held(r, x)
    BY <2>2, SumWrite, ZenonT(60)
  <2> QED BY <1>2, <2>1, <2>3, ZenonT(60) DEF r, v
<1>4. CASE IsEmpty(u)
  <2>1. users' = Drop(users, x) BY <1>4 DEF UpdateTrancheUser
  <2>2. s(k)' = Drop(s(k), x) BY <2>1, ZenonT(60) DEF UsersOf, KeyOf, Drop
  <2>3. \A j : j # k => s(j)' = s(j)
    <3> SUFFICES ASSUME NEW j, j # k PROVE s(j)' = s(j) BY ZenonT(60)
    <3>1. UsersOf(j)' = UsersOf(j) BY <2>1, ZenonT(60) DEF UsersOf, KeyOf, Drop
    <3>2. \A y \in UsersOf(j) : users'[y] = users[y] BY <2>1 DEF UsersOf, KeyOf, Drop
    <3> QED BY <3>1, <3>2, ZenonT(60)
  <2>4. ShareSum(k)' = ShareSum(k) - h BY <1>3, <2>2, ZenonT(60) DEF ShareSum
  <2>5. \A j : j # k => ShareSum(j)' = ShareSum(j) BY <2>3, ZenonT(60) DEF ShareSum
  <2> QED BY <1>1, <1>4, <2>4, <2>5
<1>5. CASE ~IsEmpty(u)
  <2>1. users' = Put(users, x, u) BY <1>5 DEF UpdateTrancheUser
  <2>2. s(k)' = Put(s(k), x, u.shares)
    <3>1. UsersOf(k)' = UsersOf(k) \cup {x} BY <2>1, ZenonT(60) DEF UsersOf, KeyOf, Put
    <3>2. \A y \in UsersOf(k)' : users'[y].shares = IF y = x THEN u.shares ELSE users[y].shares
      BY <2>1, ZenonT(60) DEF UsersOf, Put
    <3> QED BY <3>1, <3>2, ZenonT(60) DEF Put
  <2>3. \A j : j # k => s(j)' = s(j)
    <3> SUFFICES ASSUME NEW j, j # k PROVE s(j)' = s(j) BY ZenonT(60)
    <3>1. UsersOf(j)' = UsersOf(j) BY <2>1 DEF UsersOf, KeyOf, Put
    <3>2. \A y \in UsersOf(j) : users'[y] = users[y] BY <2>1 DEF UsersOf, KeyOf, Put
    <3> QED BY <3>1, <3>2, ZenonT(60)
  <2>4. ShareSum(k)' = ShareSum(k) - h + u.shares BY <1>3, <2>2, ZenonT(60) DEF ShareSum
  <2>5. \A j : j # k => ShareSum(j)' = ShareSum(j) BY <2>3, ZenonT(60) DEF ShareSum
  <2> QED BY <1>1, <1>5, <2>4, <2>5, ZenonT(60)
<1> QED BY <1>4, <1>5, ZenonT(60)

\* What FindLimitOrderTranche finds after tranche k was written.
LEMMA UpdateFinds ==
    ASSUME DOMAIN tranches \cap DOMAIN inactive = {}, NEW k \in DOMAIN tranches \cup DOMAIN inactive, NEW t,
           IF k \in DOMAIN tranches THEN UpdateTranche(k, t) ELSE UpdateInactiveTranche(k, t)
    PROVE  \A j \in DOMAIN tranches' \cup DOMAIN inactive' :
                IF j = k THEN FindIn(tranches', inactive', j) = t
                ELSE /\ j \in DOMAIN tranches \cup DOMAIN inactive
                     /\ FindIn(tranches', inactive', j) = FindIn(tranches, inactive, j)
<1>1. CASE k \in DOMAIN tranches
  <2>1. CASE HasTokenIn(t) BY <1>1, <2>1 DEF UpdateTranche, FindIn, Put
  <2>2. CASE ~HasTokenIn(t) /\ HasTokenOut(t)
    <3>1. tranches' = Drop(tranches, k) /\ inactive' = Put(inactive, k, t) BY <1>1, <2>2 DEF UpdateTranche
    <3> QED BY <3>1, ZenonT(60) DEF FindIn, Put, Drop
  <2>3. CASE ~HasTokenIn(t) /\ ~HasTokenOut(t)
    <3>1. tranches' = Drop(tranches, k) /\ inactive' = inactive BY <1>1, <2>3 DEF UpdateTranche
    <3> QED BY <1>1, <3>1, ZenonT(60) DEF FindIn, Drop
  <2> QED BY <2>1, <2>2, <2>3, ZenonT(60)
<1>2. CASE k \notin DOMAIN tranches
  BY <1>2, ZenonT(60) DEF UpdateInactiveTranche, FindIn, Put, Drop
<1> QED BY <1>1, <1>2, ZenonT(60)

LEMMA SharesInit == Init => SharesInv
BY DEF Init, SharesInv, SharesWithin, EmptyStore

LEMMA SharesStep == ASSUME Types, SharesInv, FreshInv, DexStep PROVE SharesInv'
<1>0. restarts \in Nat BY DEF Types
<1> SUFFICES ASSUME restarts' = 0
             PROVE  /\ SharesWithin(tranches, inactive)'
                    /\ (order # NoOrder => SharesWithin(saved[1], saved[2]))'
  BY DEF SharesInv
<1>a. ASSUME users' = users PROVE \A j : ShareSum(j)' = ShareSum(j)
  BY <1>a DEF ShareSum, UsersOf, KeyOf
<1>b. \A j \in DOMAIN tranches \cup DOMAIN inactive : FindIn(tranches, inactive, j) \in TrancheRecords
  BY BookRecord, ZenonT(60) DEF Types, FindIn
<1>1. CASE OpenStep
  <2>1. /\ saved'[1] = tranches /\ saved'[2] = inactive /\ restarts = 0
        /\ UNCHANGED <<tranches, inactive, users>>
    BY <1>1 DEF OpenStep, env
  <2> QED BY <1>a, <2>1, ZenonT(60) DEF SharesInv, SharesWithin
<1>2. CASE \E k \in DOMAIN tranches, in \in Nat, out \in Nat, f \in BOOLEAN : SwapStep(k, in, out, f)
  <2>1. PICK k \in DOMAIN tranches, in \in Nat, out \in Nat, f \in BOOLEAN : SwapStep(k, in, out, f)
    BY <1>2
  <2> DEFINE w == Swapped(tranches[k], in, out)
  <2>2. /\ restarts = 0 /\ order # NoOrder /\ UNCHANGED <<users, saved>>
        /\ UpdateTranche(k, w) /\ out <= tranches[k].maker
    BY <2>1 DEF SwapStep, env
  <2>3. w.totalMaker = tranches[k].totalMaker BY <2>2, SwappedRecord, BookRecord DEF Types
  <2>4. SharesWithin(saved[1], saved[2])' BY <1>a, <2>2, ZenonT(60) DEF SharesInv, SharesWithin
  <2>5. SharesWithin(tranches, inactive) /\ DOMAIN tranches \cap DOMAIN inactive = {}
    BY <2>2, ZenonT(60) DEF SharesInv, FreshInv, Fresh
  <2>6. FindIn(tranches, inactive, k) = tranches[k] BY DEF FindIn
  <2> HIDE DEF w
  <2>7. \A j \in DOMAIN tranches' \cup DOMAIN inactive' :
            IF j = k THEN FindIn(tranches', inactive', j) = w
            ELSE /\ j \in DOMAIN tranches \cup DOMAIN inactive
                 /\ FindIn(tranches', inactive', j) = FindIn(tranches, inactive, j)
    BY <2>2, <2>5, UpdateFinds, ZenonT(60)
  <2>8. SharesWithin(tranches, inactive)' BY <1>a, <2>2, <2>3, <2>5, <2>6, <2>7, ZenonT(60) DEF SharesWithin
  <2> QED BY <2>4, <2>8
<1>3. CASE \E k \in Keys, t \in TrancheRecords, u \in UserRecords, n \in Nat : FinishStep(k, t, u, n)
  <2>1. PICK k \in Keys, t \in TrancheRecords, u \in UserRecords, n \in Nat : FinishStep(k, t, u, n)
    BY <1>3
  <2> DEFINE x == PlaceUserKey(k)
             m == u.shares + n
             v == [u EXCEPT !.shares = m]
             h == IF x \in DOMAIN users THEN users[x].shares ELSE 0
  <2>2. /\ restarts = 0 /\ order' = NoOrder /\ UpdateTrancheUser(x, v)
        /\ \/ x \in DOMAIN users /\ u = users[x] /\ u.side = k[1] /\ u.tick = k[2]
           \/ x \notin DOMAIN users /\ u = [side |-> k[1], tick |-> k[2], shares |-> 0, withdrawn |-> 0]
        /\ \/ k \in DOMAIN tranches /\ t = tranches[k]
           \/ k[3] = trancheCount /\ t = NewLimitOrderTranche(order.expires)
    BY <2>1 DEF FinishStep, env
  <2>3. u.shares \in Nat /\ m \in Nat BY DEF UserRecords
  <2>4. x[2] = k[3] /\ k = <<k[1], k[2], k[3]>> BY DEF PlaceUserKey, Keys
  <2>5. h = u.shares BY <2>2
  <2>6. x \in DOMAIN users => KeyOf(x) = k BY <2>2, <2>4 DEF KeyOf
  <2>7. u.side = k[1] /\ u.tick = k[2] BY <2>2
  <2> HIDE DEF m, x
  <2>8. v \in UserRecords /\ v.side = u.side /\ v.tick = u.tick /\ v.shares = m
    BY <2>3 DEF UserRecords
  <2>9. k = <<v.side, v.tick, x[2]>> BY <2>4, <2>7, <2>8
  <2> HIDE DEF v
  <2>10. /\ ShareSum(k)' = ShareSum(k) - h + (IF IsEmpty(v) THEN 0 ELSE v.shares)
         /\ \A j : j # k => ShareSum(j)' = ShareSum(j)
    BY <2>2, <2>6, <2>8, <2>9, SharesMove
  <2>11. ShareSum(k) \in Nat BY SharesFinite, ZenonT(60)
  <2>12. ShareSum(k)' <= ShareSum(k) + n /\ ShareSum(k)' \in Int
    BY <2>3, <2>5, <2>8, <2>10, <2>11 DEF m
  <2>13. SharesWithin(tranches, inactive) BY <2>2, ZenonT(60) DEF SharesInv
  <2>14. CASE n = 0
    <3>1. UNCHANGED <<tranches, inactive>> BY <2>1, <2>14 DEF FinishStep
    <3> SUFFICES ASSUME NEW j \in DOMAIN tranches \cup DOMAIN inactive
                 PROVE  ShareSum(j)' <= FindIn(tranches, inactive, j).totalMaker
      BY <2>2, <3>1, ZenonT(60) DEF SharesWithin
    <3>2. FindIn(tranches, inactive, j).totalMaker \in Int BY <1>b, ZenonT(60) DEF TrancheRecords
    <3>3. ShareSum(j) <= FindIn(tranches, inactive, j).totalMaker BY <2>13 DEF SharesWithin
    <3>4. CASE j = k BY <2>11, <2>12, <2>14, <3>2, <3>3, <3>4
    <3>5. CASE j # k BY <2>10, <3>3, <3>5, ZenonT(60)
    <3> QED BY <3>4, <3>5, ZenonT(60)
  <2>15. CASE n > 0
    <3> DEFINE w == WithMakerOrder(t, n)
    <3>1. tranches' = Put(tranches, k, w) /\ inactive' = inactive BY <2>1, <2>15 DEF FinishStep
    <3>2. w.totalMaker = t.totalMaker + n BY PlacedRecord
    <3>3. t.totalMaker \in Int BY DEF TrancheRecords
    <3>4. ShareSum(k) <= t.totalMaker
      <4>1. CASE k \in DOMAIN tranches /\ t = tranches[k]
        BY <2>13, <4>1 DEF SharesWithin, FindIn
      <4>2. CASE k[3] = trancheCount /\ t = NewLimitOrderTranche(order.expires)
        <5>1. \A y \in DOMAIN users : y[2] < trancheCount BY <2>2, ZenonT(60) DEF FreshInv
        <5>2. trancheCount \in Nat BY DEF Types
        <5>3. \A y \in DOMAIN users : KeyOf(y)[3] = y[2] BY DEF KeyOf
        <5>4. UsersOf(k) = {} BY <4>2, <5>1, <5>2, <5>3 DEF UsersOf
        <5>5. Units([y \in UsersOf(k) |-> users[y].shares]) = {} BY <5>4 DEF Units
        <5>6. ShareSum(k) = 0 BY <5>5, FS_EmptySet, Zenon DEF ShareSum, SumOf
        <5>7. t.totalMaker = 0 BY <4>2 DEF NewLimitOrderTranche
        <5> QED BY <5>6, <5>7
      <4> QED BY <2>2, <4>1, <4>2, ZenonT(60)
    <3> HIDE DEF w
    <3> SUFFICES ASSUME NEW j \in DOMAIN tranches' \cup DOMAIN inactive'
                 PROVE  ShareSum(j)' <= FindIn(tranches', inactive', j).totalMaker
      BY <2>2, ZenonT(60) DEF SharesWithin
    <3>5. CASE j = k
      <4>1. FindIn(tranches', inactive', j) = w BY <3>1, <3>5 DEF FindIn, Put
      <4> QED BY <2>11, <2>12, <3>2, <3>3, <3>4, <3>5, <4>1
    <3>6. CASE j # k
      <4>1. /\ j \in DOMAIN tranches \cup DOMAIN inactive
            /\ FindIn(tranches', inactive', j) = FindIn(tranches, inactive, j)
        BY <3>1, <3>6 DEF FindIn, Put
      <4> QED BY <2>10, <2>13, <3>6, <4>1, ZenonT(60) DEF SharesWithin
    <3> QED BY <3>5, <3>6
  <2> QED BY <2>14, <2>15
<1>4. CASE RevertStep
  <2>1. /\ tranches' = saved[1] /\ inactive' = saved[2] /\ restarts = 0 /\ users' = users
        /\ order # NoOrder /\ order' = NoOrder
    BY <1>4 DEF RevertStep, env
  <2> QED BY <1>a, <2>1, ZenonT(60) DEF SharesInv, SharesWithin
<1>5. CASE \E x \in DOMAIN users, t \in TrancheRecords, u \in UserRecords, rest \in Nat, out \in Nat :
            TakeOut(x, t, u, rest, out)
  <2>1. PICK x \in DOMAIN users, t \in TrancheRecords, u \in UserRecords, rest \in Nat, out \in Nat :
            TakeOut(x, t, u, rest, out)
    BY <1>5
  <2>k. PICK k : k = KeyOf(x) OBVIOUS
  <2> DEFINE old == FindIn(tranches, inactive, k)
  <2>2. /\ restarts = 0 /\ order' = NoOrder /\ UpdateTrancheUser(x, u)
        /\ k \in DOMAIN tranches \cup DOMAIN inactive
        /\ IF k \in DOMAIN tranches THEN UpdateTranche(k, t) ELSE UpdateInactiveTranche(k, t)
        /\ u.side = users[x].side /\ u.tick = users[x].tick /\ u.shares = users[x].shares
        /\ \/ t.totalMaker = old.totalMaker
           \/ t.totalMaker = old.totalMaker - u.shares /\ IsEmpty(u)
    BY <2>k, <2>1, ZenonT(60) DEF TakeOut, env, Found, FindLimitOrderTranche, FindIn
  <2>3. SharesWithin(tranches, inactive) /\ DOMAIN tranches \cap DOMAIN inactive = {}
    BY <2>2, ZenonT(60) DEF SharesInv, FreshInv, Fresh
  <2>4. k = <<u.side, u.tick, x[2]>> BY <2>k, <2>2, ZenonT(60) DEF KeyOf
  <2>5. /\ u.shares \in Nat
        /\ ShareSum(k)' = ShareSum(k) - u.shares + (IF IsEmpty(u) THEN 0 ELSE u.shares)
        /\ \A j : j # k => ShareSum(j)' = ShareSum(j)
    <3>1. UpdateTrancheUser(x, u) /\ u.shares = users[x].shares /\ KeyOf(x) = k BY <2>k, <2>2, ZenonT(60)
    <3> QED BY <2>4, <3>1, SharesMove, ZenonT(60)
  <2>6. ShareSum(k) \in Nat BY SharesFinite, ZenonT(60)
  <2>7. ShareSum(k) <= old.totalMaker BY <2>2, <2>3, ZenonT(60) DEF SharesWithin
  <2>8. old.totalMaker \in Int BY <1>b, <2>2, ZenonT(60) DEF TrancheRecords
  <2> HIDE DEF old
  <2>9. ShareSum(k)' <= t.totalMaker BY <2>2, <2>5, <2>6, <2>7, <2>8
  <2>10. \A j \in DOMAIN tranches' \cup DOMAIN inactive' :
            IF j = k THEN FindIn(tranches', inactive', j) = t
            ELSE /\ j \in DOMAIN tranches \cup DOMAIN inactive
                 /\ FindIn(tranches', inactive', j) = FindIn(tranches, inactive, j)
    BY <2>2, <2>3, UpdateFinds, ZenonT(60)
  <2> SUFFICES ASSUME NEW j \in DOMAIN tranches' \cup DOMAIN inactive'
               PROVE  ShareSum(j)' <= FindIn(tranches', inactive', j).totalMaker
    BY <2>2, ZenonT(60) DEF SharesWithin
  <2>11. CASE j = k BY <2>9, <2>10, <2>11, ZenonT(60)
  <2>12. CASE j # k BY <2>3, <2>5, <2>10, <2>12, ZenonT(60) DEF SharesWithin
  <2> QED BY <2>11, <2>12
<1>6. CASE \E P \in SUBSET DOMAIN tranches : PurgeStep(P)
  <2>1. PICK P \in SUBSET DOMAIN tranches : PurgeStep(P) BY <1>6
  <2>2. /\ restarts = 0 /\ order' = NoOrder /\ users' = users
        /\ tranches' = [k \in DOMAIN tranches \ P |-> tranches[k]]
        /\ inactive' = [k \in DOMAIN inactive \cup P |-> IF k \in P THEN tranches[k] ELSE inactive[k]]
    BY <1>0, <2>1 DEF PurgeStep
  <2>3. \A j \in DOMAIN tranches' \cup DOMAIN inactive' :
            /\ j \in DOMAIN tranches \cup DOMAIN inactive
            /\ FindIn(tranches', inactive', j) = FindIn(tranches, inactive, j)
    <3>1. DOMAIN tranches \cap DOMAIN inactive = {} BY <2>2 DEF FreshInv, Fresh
    <3> QED BY <2>2, <3>1, ZenonT(60) DEF FindIn
  <2> QED BY <1>a, <2>2, <2>3, ZenonT(60) DEF SharesInv, SharesWithin
<1>7. CASE IdleStep
  <2>1. UNCHANGED <<tranches, inactive, users, order, saved, restarts>> BY <1>7 DEF IdleStep
  <2> QED BY <1>a, <2>1, ZenonT(60) DEF SharesInv, SharesWithin
<1> QED BY <1>1, <1>2, <1>3, <1>4, <1>5, <1>6, <1>7, ZenonT(60) DEF DexStep

-----------------------------------------------------------------------------
\* The module account covers the reserves of every tranche, the fractional
\* balances it owes and the position of the running order; before a restart it
\* holds exactly that.
THEOREM AccountIsSolvent == Spec => []Solvent
<1>1. ASSUME Types, SolvInv, FreshInv, [Next]_vars PROVE SolvInv'
  BY <1>1, EveryDexStep, TypesStep, SolvStep
<1>2. Types /\ SolvInv => Solvent BY SolvImpliesSolvent
<1> QED BY <1>1, <1>2, SolvInit, DexTypes, TranchesAreFresh, PTL DEF Spec

\* Before a restart the users of a tranche never hold more shares than its
\* TotalMakerDenom.
THEOREM SharesAreBacked == Spec => []SharesBacked
<1>1. ASSUME Types, SharesInv, FreshInv, [Next]_vars PROVE SharesInv'
  BY <1>1, EveryDexStep, SharesStep
<1>2. SharesInv => SharesBacked
  BY DEF SharesInv, SharesWithin, ShareSum, FindIn, FindLimitOrderTranche, SharesBacked
<1> QED BY <1>1, <1>2, SharesInit, DexTypes, TranchesAreFresh, PTL DEF Spec

=============================================================================
