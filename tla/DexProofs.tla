------------------------------- MODULE DexProofs -------------------------------
(***************************************************************************)
(* Proofs about x/dex, for every set of users, ticks, prices, amounts and  *)
(* parameters:                                                             *)
(*   - what the binary search of types/price.go finds, in a table of any   *)
(*     length with rising prices;                                          *)
(*   - the limit orders of LimitOrders: types are kept, expirations are    *)
(*     recorded, JIT orders live one block, the book is never crossed and  *)
(*     tranche keys are new.                                               *)
(***************************************************************************)
EXTENDS LimitOrders, Ticks, StoreLemmas

\* How long the provers may take for a leaf, in seconds, and with no types.
USE SMTT(30), ZenonT(30), Untyped

-----------------------------------------------------------------------------
(* Ticks *)

\* Inverting a positive price gives an integer number of units again.
LEMMA QuoInteger ==
    ASSUME NEW y \in Int, y > 0
    PROVE  Quo(One, y) \in Int
<1>1. One * Precision * Precision \in Int
    BY PrecisionAssumption DEF One
<1>2. (One * Precision * Precision) \div y \in Int
    BY <1>1
<1> DEFINE x == (One * Precision * Precision) \div y
<1>3. x \div Precision \in Int /\ x % Precision \in Int
    BY <1>2, PrecisionAssumption
<1>4. ChopRound(x) \in Int
    BY <1>3 DEF ChopRound
<1> QED BY <1>4 DEF Quo

\* What is kept besides the loop's own invariant.
SearchTyped == price \in Int /\ price > 0 /\ tick \in TableTicks \cup {None}

LEMMA LookupInteger ==
    ASSUME SearchTyped PROVE lookup \in Int
BY QuoInteger, PrecisionAssumption DEF SearchTyped, lookup, One

LEMMA MidBetween ==
    ASSUME TableRises, left \in TableTicks, right \in TableTicks, left < right
    PROVE  mid \in TableTicks /\ left <= mid /\ mid < right /\ (right - left # 1 => left < mid)
BY DEF mid, TableTicks, TableRises

\* Rounding below the loop: of two neighbours the nearer one is chosen, so the
\* price cannot lie beyond the other one.
LEMMA RoundWithinOne ==
    ASSUME TableRises, LoopInvariant, lookup \in Int, left < right => right - left = 1,
           NEW t, t = IF Distance(left) < Distance(right) THEN left ELSE right
    PROVE  /\ t \in TableTicks
           /\ t > 0 => PrecomputedPrices[t - 1] < lookup
           /\ t < MaxTickExp => lookup < PrecomputedPrices[t + 1]
<1>1. CASE left = right
    BY <1>1 DEF LoopInvariant
<1>2. CASE right = left + 1
    <2> DEFINE low == PrecomputedPrices[left]
    <2> DEFINE high == PrecomputedPrices[right]
    <2>1. low \in Nat /\ high \in Nat /\ low < high
        BY <1>2 DEF TableRises, LoopInvariant, TableTicks
    <2>2. CASE Distance(left) < Distance(right)
        <3>1. lookup < high
            BY <2>1, <2>2 DEF Distance
        <3> QED BY <3>1, <2>2, <1>2 DEF LoopInvariant
    <2>3. CASE ~(Distance(left) < Distance(right))
        <3>1. low < lookup
            BY <2>1, <2>3 DEF Distance
        <3>2. right - 1 = left
            BY <1>2 DEF LoopInvariant, TableTicks, TableRises
        <3> QED BY <3>1, <3>2, <2>3 DEF LoopInvariant
    <2> QED BY <2>2, <2>3
<1> QED BY <1>1, <1>2 DEF LoopInvariant, TableTicks, TableRises

SearchInv == SearchTyped /\ LoopInvariant /\ WithinOneTick

LEMMA SearchInitInv == ASSUME TableRises, SellPrices \subseteq Int PROVE SearchInit => SearchInv
<1> SUFFICES ASSUME SearchInit PROVE SearchInv
    OBVIOUS
<1>1. MinPrice \in Int
    BY QuoInteger DEF MinPrice, CalcPrice, TableRises, TableTicks
<1>2. PICK sell \in SellPrices : ~IsPriceOutOfRange(sell) /\ price = Quo(One, sell) /\ ~IsPriceOutOfRange(price)
    BY DEF SearchInit
<1>3. sell \in Int /\ sell > 0
    BY <1>1, <1>2 DEF IsPriceOutOfRange, TableRises
<1>4. price \in Int
    BY <1>2, <1>3, QuoInteger
<1>5. price > 0
    BY <1>1, <1>2, <1>4 DEF IsPriceOutOfRange, TableRises
<1> QED BY <1>4, <1>5 DEF SearchInit, SearchInv, SearchTyped, LoopInvariant, WithinOneTick, TableTicks, TableRises, None

LEMMA SearchStepInv == ASSUME TableRises, SearchInv, [SearchNext]_searchVars PROVE SearchInv'
<1>1. lookup \in Int
    BY LookupInteger DEF SearchInv
<1>2. CASE ReturnMid
    <2>1. mid \in TableTicks /\ PrecomputedPrices[mid] = lookup /\ tick' = mid
        BY <1>2, MidBetween DEF ReturnMid, Searching, AtMid, SearchInv, LoopInvariant
    <2>2. lookup' = lookup
        BY <1>2 DEF ReturnMid, lookup
    <2>3. (mid > 0 => PrecomputedPrices[mid - 1] < lookup) /\ (mid < MaxTickExp => lookup < PrecomputedPrices[mid + 1])
        BY <2>1 DEF TableRises, TableTicks
    <2> QED BY <2>1, <2>2, <2>3, <1>2 DEF ReturnMid, SearchInv, SearchTyped, LoopInvariant, WithinOneTick
<1>3. CASE GoRight
    <2>1. mid \in TableTicks /\ left < mid /\ mid < right /\ PrecomputedPrices[mid] < lookup /\ left' = mid + 1
        BY <1>3, MidBetween DEF GoRight, Searching, SearchInv, LoopInvariant
    <2>2. lookup' = lookup /\ tick' = None /\ right' = right
        BY <1>3 DEF GoRight, lookup, Searching
    <2>3. left' \in TableTicks /\ left' <= right /\ left' - 1 = mid
        BY <2>1 DEF SearchInv, LoopInvariant, TableTicks, TableRises
    <2> QED BY <2>1, <2>2, <2>3, <1>3 DEF GoRight, SearchInv, SearchTyped, LoopInvariant, WithinOneTick
<1>4. CASE GoLeft
    <2>1. mid \in TableTicks /\ left < mid /\ mid < right /\ PrecomputedPrices[mid] > lookup /\ right' = mid - 1
        BY <1>4, MidBetween DEF GoLeft, Searching, SearchInv, LoopInvariant
    <2>2. lookup' = lookup /\ tick' = None /\ left' = left
        BY <1>4 DEF GoLeft, lookup, Searching
    <2>3. right' \in TableTicks /\ left <= right' /\ right' + 1 = mid
        BY <2>1 DEF SearchInv, LoopInvariant, TableTicks, TableRises
    <2>4. lookup < PrecomputedPrices[right' + 1]
        BY <2>1, <2>3, <1>1 DEF TableRises
    <2> QED BY <2>1, <2>2, <2>3, <2>4, <1>4 DEF GoLeft, SearchInv, SearchTyped, LoopInvariant, WithinOneTick
<1>5. CASE Round
    <2>1. lookup' = lookup
        BY <1>5 DEF Round, lookup
    <2>2. /\ tick' \in TableTicks
          /\ tick' > 0 => PrecomputedPrices[tick' - 1] < lookup
          /\ tick' < MaxTickExp => lookup < PrecomputedPrices[tick' + 1]
        BY <1>1, <1>5, RoundWithinOne DEF Round, SearchInv
    <2> QED BY <2>1, <2>2, <1>5 DEF Round, SearchInv, SearchTyped, LoopInvariant, WithinOneTick
<1>6. CASE UNCHANGED searchVars
    BY <1>6 DEF searchVars, SearchInv, SearchTyped, LoopInvariant, WithinOneTick, lookup
<1> QED BY <1>2, <1>3, <1>4, <1>5, <1>6 DEF SearchNext

\* A tick with the price strictly between its neighbours is the tick of that
\* price, if the table has the price at all.
LEMMA WithinOneIsExact == ASSUME TableRises, SearchInv PROVE ExactTick
<1> SUFFICES ASSUME tick # None, NEW t \in TableTicks, PrecomputedPrices[t] = lookup PROVE tick = t
    BY DEF ExactTick
<1>1. tick \in TableTicks
    BY DEF SearchInv, SearchTyped
<1>2. ~(t < tick)
    <2> SUFFICES ASSUME t < tick PROVE FALSE
        OBVIOUS
    <2>1. tick - 1 \in TableTicks /\ t <= tick - 1 /\ tick > 0
        BY <1>1 DEF TableTicks, TableRises
    <2>2. PrecomputedPrices[t] <= PrecomputedPrices[tick - 1]
        BY <2>1 DEF TableRises, TableTicks
    <2> QED BY <2>1, <2>2 DEF SearchInv, WithinOneTick, TableRises
<1>3. ~(tick < t)
    <2> SUFFICES ASSUME tick < t PROVE FALSE
        OBVIOUS
    <2>1. tick + 1 \in TableTicks /\ tick + 1 <= t /\ tick < MaxTickExp
        BY <1>1 DEF TableTicks, TableRises
    <2>2. PrecomputedPrices[tick + 1] <= PrecomputedPrices[t]
        BY <2>1 DEF TableRises, TableTicks
    <2> QED BY <2>1, <2>2 DEF SearchInv, WithinOneTick, TableRises
<1> QED BY <1>1, <1>2, <1>3 DEF TableTicks, TableRises

\* BinarySearchPriceToTick, for every rising table: the bounds stay in the
\* table, the tick returned has the price strictly between its neighbours, and
\* a price of the table is found at its own tick.
THEOREM PriceToTick == Search => [](LoopInvariant /\ WithinOneTick /\ ExactTick)
<1>1. SearchInit => SearchInv
    BY SearchInitInv, TicksAssumption
<1>2. SearchInv /\ [SearchNext]_searchVars => SearchInv'
    BY SearchStepInv, TicksAssumption
<1>3. SearchInv => LoopInvariant /\ WithinOneTick /\ ExactTick
    BY WithinOneIsExact, TicksAssumption DEF SearchInv
<1> QED BY <1>1, <1>2, <1>3, PTL DEF Search

-----------------------------------------------------------------------------
(* Decimals *)

LEMMA DivNat ==
    ASSUME NEW a \in Nat, NEW b \in Nat \ {0}
    PROVE  a \div b \in Nat /\ b * (a \div b) <= a /\ a < b * (a \div b) + b
<1>1. a \div b \in Nat OBVIOUS
<1>2. b * (a \div b) <= a OBVIOUS
<1>3. a < b * (a \div b) + b OBVIOUS
<1> QED BY <1>1, <1>2, <1>3

LEMMA ModNat ==
    ASSUME NEW a \in Nat, NEW b \in Nat \ {0}
    PROVE  a % b = a - b * (a \div b) /\ a % b \in Nat
<1>1. a % b = a - b * (a \div b) OBVIOUS
<1>2. a % b \in Nat OBVIOUS
<1> QED BY <1>1, <1>2

\* ChopRound rounds to the nearest.
LEMMA ChopNearest ==
    ASSUME NEW x \in Nat
    PROVE  /\ ChopRound(x) \in Nat
           /\ 2 * (Precision * ChopRound(x)) <= 2 * x + Precision
           /\ 2 * (Precision * ChopRound(x)) >= 2 * x - Precision
<1> DEFINE q == x \div Precision
           r == x % Precision
<1>1. Precision \in Nat \ {0} BY PrecisionAssumption
<1>2. q \in Nat BY <1>1, DivNat
<1>3. r = x - Precision * q /\ r \in 0..(Precision - 1)
  <2>1. r = x - Precision * q BY <1>1
  <2>2. r \in 0..(Precision - 1) BY <1>1
  <2> QED BY <2>1, <2>2
<1>a. ChopRound(x) = IF r * 2 < Precision \/ (r * 2 = Precision /\ q % 2 = 0) THEN q ELSE q + 1
  BY DEF ChopRound
<1> HIDE DEF q, r
<1>4. \/ ChopRound(x) = q /\ r * 2 <= Precision
      \/ ChopRound(x) = q + 1 /\ r * 2 >= Precision
  BY <1>a, <1>1, <1>3
<1>5. Precision * (q + 1) = Precision * q + Precision BY <1>1, <1>2
<1>6. Precision * q \in Nat BY <1>1, <1>2
<1> QED BY <1>1, <1>2, <1>3, <1>4, <1>5, <1>6

LEMMA DecNat == \A n \in Nat : Dec(n) \in Nat
BY PrecisionAssumption DEF Dec

LEMMA MulNat == ASSUME NEW x \in Nat, NEW y \in Nat PROVE Mul(x, y) \in Nat
<1>1. x * y \in Nat OBVIOUS
<1> QED BY <1>1, ChopNearest DEF Mul

LEMMA QuoNat == ASSUME NEW x \in Nat, NEW y \in Nat \ {0} PROVE Quo(x, y) \in Nat
<1>1. x * Precision * Precision \in Nat BY PrecisionAssumption
<1>2. (x * Precision * Precision) \div y \in Nat BY <1>1, DivNat
<1> QED BY <1>2, ChopNearest DEF Quo

-----------------------------------------------------------------------------
(* The fractional banker: what leaves or enters the account, whole tokens  *)
(* and fractions taken together, is the amount that was booked.            *)

BankOK(b) == b.dex \in [Denoms -> Nat] /\ b.frac \in [Users \X Denoms -> Nat]
OwedAll(b, d) == [a \in Users |-> b.frac[<<a, d>>]]
Net(b, d) == Dec(b.dex[d]) - SumOf(OwedAll(b, d))

\* The net position after one user's fraction and the account have changed.
LEMMA NetChange ==
    ASSUME NEW b, BankOK(b), NEW c, BankOK(c), NEW a \in Users, NEW d \in Denoms,
           FiniteStore(OwedAll(b, d)),
           \A x \in Users \ {a} : c.frac[<<x, d>>] = b.frac[<<x, d>>]
    PROVE  /\ FiniteStore(OwedAll(c, d))
           /\ Net(c, d) = Net(b, d) + Dec(c.dex[d]) - Dec(b.dex[d])
                            - c.frac[<<a, d>>] + b.frac[<<a, d>>]
<1> DEFINE s == OwedAll(b, d)
           t == OwedAll(c, d)
<1>1. b.frac[<<a, d>>] \in Nat /\ c.frac[<<a, d>>] \in Nat BY DEF BankOK
<1>2. b.dex[d] \in Nat /\ c.dex[d] \in Nat BY DEF BankOK
<1>3. Dec(b.dex[d]) \in Nat /\ Dec(c.dex[d]) \in Nat BY <1>2, DecNat
<1>4. /\ a \in DOMAIN s /\ s[a] = b.frac[<<a, d>>] /\ t[a] = c.frac[<<a, d>>]
      /\ DOMAIN t = DOMAIN s /\ \A j \in DOMAIN s \ {a} : t[j] = s[j]
  BY DEF OwedAll
<1> HIDE DEF s, t
<1>5. FiniteStore(t) /\ SumOf(t) = SumOf(s) - s[a] + t[a] BY <1>1, <1>4, SumChange DEF s
<1>6. SumOf(s) \in Nat BY SumType DEF s
<1> QED BY <1>1, <1>3, <1>4, <1>5, <1>6 DEF Net, s, t

LEMMA PaysOut ==
    ASSUME NEW b, BankOK(b), NEW a \in Users, NEW out \in [Denoms -> Nat],
           CanSendFromDex(b, a, out), NEW c, c = SentFromDex(b, a, out)
    PROVE  /\ BankOK(c)
           /\ \A d \in Denoms : FiniteStore(OwedAll(b, d)) =>
                FiniteStore(OwedAll(c, d)) /\ Net(c, d) = Net(b, d) - out[d]
<1> DEFINE w(d) == Owed(b, a, d, out)
           q(d) == TruncateInt(w(d))
<1>1. Precision \in Nat \ {0} BY PrecisionAssumption
<1>2. ASSUME NEW d \in Denoms
      PROVE  /\ w(d) \in Nat /\ q(d) \in Nat /\ q(d) <= b.dex[d] /\ b.dex[d] \in Nat
             /\ w(d) = b.frac[<<a, d>>] + out[d] /\ b.frac[<<a, d>>] \in Nat /\ out[d] \in Nat
             /\ w(d) % Precision = w(d) - Precision * q(d) /\ w(d) % Precision \in Nat
  <2>1. b.frac[<<a, d>>] \in Nat /\ out[d] \in Nat /\ b.dex[d] \in Nat BY DEF BankOK
  <2>2. w(d) = b.frac[<<a, d>>] + out[d] BY DEF Owed
  <2>3. w(d) \in Nat BY <2>1, <2>2
  <2>4. q(d) <= b.dex[d] BY DEF CanSendFromDex
  <2> DEFINE v == w(d)
  <2> HIDE DEF v, w
  <2>5. v \div Precision \in Nat BY <1>1, <2>3, DivNat DEF v
  <2>6. v % Precision = v - Precision * (v \div Precision) /\ v % Precision \in Nat
    BY <1>1, <2>3, ModNat, ZenonT(60) DEF v
  <2> QED BY <2>1, <2>2, <2>3, <2>4, <2>5, <2>6 DEF v, TruncateInt
<1>3. /\ c.dex = [d \in Denoms |-> b.dex[d] - q(d)]
      /\ c.frac = [x \in Users \X Denoms |-> IF x[1] = a THEN w(x[2]) % Precision ELSE b.frac[x]]
  BY DEF SentFromDex
<1> HIDE DEF w, q
<1>4. BankOK(c)
  <2>1. ASSUME NEW d \in Denoms PROVE b.dex[d] - q(d) \in Nat
    <3>1. q(d) \in Nat /\ b.dex[d] \in Nat /\ q(d) <= b.dex[d] BY <1>2, ZenonT(60)
    <3> QED BY <3>1
  <2>2. \A x \in Users \X Denoms : x[2] \in Denoms /\ b.frac[x] \in Nat BY DEF BankOK
  <2>3. \A x \in Users \X Denoms : w(x[2]) % Precision \in Nat BY <1>2, <2>2, ZenonT(60)
  <2>4. c.dex \in [Denoms -> Nat] BY <1>3, <2>1
  <2>5. c.frac \in [Users \X Denoms -> Nat] BY <1>3, <2>2, <2>3
  <2> QED BY <2>4, <2>5 DEF BankOK
<1>5. ASSUME NEW d \in Denoms, FiniteStore(OwedAll(b, d))
      PROVE  FiniteStore(OwedAll(c, d)) /\ Net(c, d) = Net(b, d) - out[d]
  <2>1. \A x \in Users \ {a} : c.frac[<<x, d>>] = b.frac[<<x, d>>] BY <1>3
  <2>2. c.frac[<<a, d>>] = w(d) - Precision * q(d) BY <1>2, <1>3
  <2>3. c.dex[d] = b.dex[d] - q(d) BY <1>3
  <2>4. /\ FiniteStore(OwedAll(c, d))
        /\ Net(c, d) = Net(b, d) + Dec(c.dex[d]) - Dec(b.dex[d])
                            - c.frac[<<a, d>>] + b.frac[<<a, d>>]
    BY <1>4, <1>5, <2>1, NetChange
  <2>a. q(d) \in Nat /\ b.dex[d] \in Nat BY <1>2, ZenonT(60)
  <2>5. Dec(c.dex[d]) = Dec(b.dex[d]) - Precision * q(d) BY <1>1, <2>a, <2>3 DEF Dec
  <2>6. Dec(b.dex[d]) \in Int /\ Precision * q(d) \in Int BY <1>1, <2>a DEF Dec
  <2>7. Net(b, d) \in Int
    <3>1. SumOf(OwedAll(b, d)) \in Nat BY <1>5, SumType
    <3> QED BY <2>6, <3>1 DEF Net
  <2>8. w(d) = b.frac[<<a, d>>] + out[d] /\ b.frac[<<a, d>>] \in Nat /\ out[d] \in Nat BY <1>2
  <2>9. Net(c, d) = Net(b, d) - out[d] BY <2>2, <2>4, <2>5, <2>6, <2>7, <2>8
  <2> QED BY <2>4, <2>9
<1> QED BY <1>4, <1>5

LEMMA PaysIn ==
    ASSUME NEW b, BankOK(b), NEW a \in Users, NEW in \in [Denoms -> Nat],
           NEW c, c = SentToDex(b, a, in)
    PROVE  /\ BankOK(c)
           /\ \A d \in Denoms : FiniteStore(OwedAll(b, d)) =>
                FiniteStore(OwedAll(c, d)) /\ Net(c, d) = Net(b, d) + in[d]
<1> DEFINE p(d) == Payment(b, a, d, in)
<1>1. Precision \in Nat \ {0} BY PrecisionAssumption
<1>2. ASSUME NEW d \in Denoms
      PROVE  /\ p(d) \in Nat /\ b.dex[d] \in Nat /\ b.frac[<<a, d>>] \in Nat /\ in[d] \in Nat
             /\ b.frac[<<a, d>>] + Dec(p(d)) >= in[d]
  <2> DEFINE f == b.frac[<<a, d>>]
             i == in[d]
  <2>1. f \in Nat /\ i \in Nat /\ b.dex[d] \in Nat BY DEF BankOK
  <2>2. p(d) = IF i <= f THEN 0 ELSE CeilInt(i - f) BY DEF Payment, UserPays
  <2> HIDE DEF f, i
  <2>3. CASE i <= f
    <3>1. p(d) = 0 BY <2>2, <2>3
    <3>2. Dec(0) = 0 BY <1>1 DEF Dec
    <3> QED BY <2>1, <2>3, <3>1, <3>2 DEF f, i
  <2>4. CASE ~(i <= f)
    <3> DEFINE y == i - f + Precision - 1
    <3>1. y \in Nat BY <1>1, <2>1, <2>4
    <3>2. p(d) = y \div Precision BY <2>2, <2>4 DEF CeilInt
    <3>3. y \div Precision \in Nat /\ y < Precision * (y \div Precision) + Precision
      BY <1>1, <3>1, DivNat
    <3>4. Dec(p(d)) = Precision * (y \div Precision) BY <1>1, <3>2, <3>3 DEF Dec
    <3>5. Precision * (y \div Precision) \in Nat BY <1>1, <3>3
    <3>6. f + Dec(p(d)) >= i BY <1>1, <2>1, <3>3, <3>4, <3>5
    <3> QED BY <2>1, <3>2, <3>3, <3>6 DEF f, i
  <2> QED BY <2>3, <2>4
<1>3. /\ c.dex = [d \in Denoms |-> b.dex[d] + p(d)]
      /\ c.frac = [x \in Users \X Denoms |->
                    IF x[1] = a THEN b.frac[x] + Dec(p(x[2])) - in[x[2]] ELSE b.frac[x]]
  BY DEF SentToDex
<1> HIDE DEF p
<1>4. BankOK(c)
  <2>1. ASSUME NEW d \in Denoms PROVE b.dex[d] + p(d) \in Nat
    <3>1. p(d) \in Nat /\ b.dex[d] \in Nat BY <1>2, ZenonT(60)
    <3> QED BY <3>1
  <2>2. ASSUME NEW x \in Users \X Denoms
        PROVE  c.frac[x] \in Nat
    <3>1. x[2] \in Denoms /\ b.frac[x] \in Nat BY DEF BankOK
    <3>2. CASE x[1] = a
      <4>1. x = <<a, x[2]>> BY <3>2
      <4>2. c.frac[x] = b.frac[x] + Dec(p(x[2])) - in[x[2]] BY <1>3, <3>2
      <4>3. Dec(p(x[2])) \in Nat BY <1>2, <3>1, DecNat, ZenonT(60)
      <4>4. b.frac[x] + Dec(p(x[2])) >= in[x[2]] /\ in[x[2]] \in Nat BY <1>2, <3>1, <4>1
      <4> QED BY <3>1, <4>2, <4>3, <4>4
    <3>3. CASE x[1] # a BY <1>3, <3>1, <3>3
    <3> QED BY <3>2, <3>3
  <2>3. c.dex \in [Denoms -> Nat] BY <1>3, <2>1
  <2>4. c.frac \in [Users \X Denoms -> Nat] BY <1>3, <2>2
  <2> QED BY <2>3, <2>4 DEF BankOK
<1>5. ASSUME NEW d \in Denoms, FiniteStore(OwedAll(b, d))
      PROVE  FiniteStore(OwedAll(c, d)) /\ Net(c, d) = Net(b, d) + in[d]
  <2>1. \A x \in Users \ {a} : c.frac[<<x, d>>] = b.frac[<<x, d>>] BY <1>3
  <2>2. c.frac[<<a, d>>] = b.frac[<<a, d>>] + Dec(p(d)) - in[d] BY <1>3
  <2>3. c.dex[d] = b.dex[d] + p(d) BY <1>3
  <2>4. /\ FiniteStore(OwedAll(c, d))
        /\ Net(c, d) = Net(b, d) + Dec(c.dex[d]) - Dec(b.dex[d])
                            - c.frac[<<a, d>>] + b.frac[<<a, d>>]
    BY <1>4, <1>5, <2>1, NetChange
  <2>a. p(d) \in Nat /\ b.dex[d] \in Nat BY <1>2, ZenonT(60)
  <2>5. Dec(c.dex[d]) = Dec(b.dex[d]) + Dec(p(d)) BY <1>1, <2>a, <2>3 DEF Dec
  <2>6. Dec(b.dex[d]) \in Int /\ Dec(p(d)) \in Int BY <1>1, <2>a DEF Dec
  <2>7. Net(b, d) \in Int
    <3>1. SumOf(OwedAll(b, d)) \in Nat BY <1>5, SumType
    <3> QED BY <2>6, <3>1 DEF Net
  <2>8. b.frac[<<a, d>>] \in Nat /\ in[d] \in Nat BY <1>2
  <2>9. Net(c, d) = Net(b, d) + in[d] BY <2>2, <2>4, <2>5, <2>6, <2>7, <2>8
  <2> QED BY <2>4, <2>9
<1> QED BY <1>4, <1>5

-----------------------------------------------------------------------------
(* LimitOrders: types *)

Keys == Sides \X BookTicks \X Nat
TrancheRecords ==
    [maker : Nat, taker : Nat, totalMaker : Int, totalTaker : Nat, expires : Int]
UserRecords == [side : Sides, tick : BookTicks, shares : Nat, withdrawn : Nat]
OrderRecords ==
    [type : OrderTypes, creator : Users, receiver : Users, in : Denoms, tick : Ticks,
     amount : Nat, expires : Int, maxOut : Nat, minSell : Nat,
     left : Nat, got : Nat, seen : SUBSET Keys, filled : BOOLEAN]

IsBook(s) == IsStore(s, Keys, TrancheRecords) /\ IsFiniteSet(DOMAIN s)

\* What an order keeps while it runs.
OrderOK ==
    order # NoOrder =>
        /\ order \in OrderRecords
        /\ order.left <= Dec(order.amount)
        /\ order.maxOut > 0 => order.got <= Dec(order.maxOut)
        /\ ~Expiring(order.type) => order.expires = NoExpiration
        /\ order.type = "GTT" => order.expires > 0
        /\ IsBook(saved[1]) /\ IsBook(saved[2])

Types ==
    /\ IsBook(tranches) /\ IsBook(inactive)
    /\ IsStore(users, Users \X Nat, UserRecords) /\ IsFiniteSet(DOMAIN users)
    /\ trancheCount \in Nat /\ jitsInBlock \in Nat /\ now \in Nat \ {0} /\ restarts \in Nat
    /\ dex \in [Denoms -> Nat] /\ frac \in [Users \X Denoms -> Nat]
    /\ OrderOK

LEMMA BookRecord ==
    ASSUME NEW s, IsBook(s), NEW k \in DOMAIN s
    PROVE  /\ k \in Keys /\ s[k] \in TrancheRecords
           /\ s[k].maker \in Nat /\ s[k].taker \in Nat /\ s[k].totalMaker \in Int
           /\ s[k].totalTaker \in Nat /\ s[k].expires \in Int
BY DEF IsBook, IsStore, TrancheRecords

LEMMA KeyParts ==
    ASSUME NEW k \in Keys
    PROVE  /\ k[1] \in {0, 1} /\ k[2] \in BookTicks /\ k[3] \in Nat
           /\ Price(k) \in Nat \ {0}
<1>1. k[1] \in Sides /\ k[2] \in BookTicks /\ k[3] \in Nat BY DEF Keys
<1>2. Sides = {0, 1} BY LimitOrdersAssumption DEF Sides
<1>3. k[2] \in Ticks \cup {-t : t \in Ticks} BY <1>1 DEF BookTicks
<1>4. Prices[k[2]] \in Nat \ {0} BY <1>3, LimitOrdersAssumption
<1> QED BY <1>1, <1>2, <1>4 DEF Price

\* Writing a store keeps it a book.
LEMMA BookPut ==
    ASSUME NEW s, IsBook(s), NEW k \in Keys, NEW t \in TrancheRecords
    PROVE  IsBook(Put(s, k, t)) /\ IsBook(Drop(s, k))
<1>1. IsFiniteSet(DOMAIN s \cup {k}) /\ IsFiniteSet(DOMAIN s \ {k})
  BY FS_AddElement, FS_RemoveElement DEF IsBook
<1>2. DOMAIN Put(s, k, t) = DOMAIN s \cup {k} /\ DOMAIN Drop(s, k) = DOMAIN s \ {k}
  BY DEF Put, Drop
<1>3. IsStore(Put(s, k, t), Keys, TrancheRecords) BY DEF Put, IsBook, IsStore
<1>4. IsStore(Drop(s, k), Keys, TrancheRecords) BY DEF Drop, IsBook, IsStore
<1> QED BY <1>1, <1>2, <1>3, <1>4 DEF IsBook

\* What UpdateTranche and UpdateInactiveTranche do to the two stores.
LEMMA UpdatesBooks ==
    ASSUME IsBook(tranches), IsBook(inactive), NEW k \in Keys, NEW t \in TrancheRecords,
           UpdateTranche(k, t) \/ UpdateInactiveTranche(k, t)
    PROVE  IsBook(tranches') /\ IsBook(inactive')
<1>1. /\ tranches' \in {tranches, Put(tranches, k, t), Drop(tranches, k)}
      /\ inactive' \in {inactive, Put(inactive, k, t), Drop(inactive, k)}
  BY DEF UpdateTranche, UpdateInactiveTranche
<1> QED BY <1>1, BookPut

LEMMA UserPut ==
    ASSUME Types, NEW x \in Users \X Nat, NEW u \in UserRecords, UpdateTrancheUser(x, u)
    PROVE  IsStore(users', Users \X Nat, UserRecords) /\ IsFiniteSet(DOMAIN users')
<1>1. IsFiniteSet(DOMAIN users \cup {x}) /\ IsFiniteSet(DOMAIN users \ {x})
  BY FS_AddElement, FS_RemoveElement DEF Types
<1>2. CASE IsEmpty(u)
  <2>1. users' = Drop(users, x) BY <1>2 DEF UpdateTrancheUser
  <2> QED BY <1>1, <2>1 DEF Drop, Types, IsStore
<1>3. CASE ~IsEmpty(u)
  <2>1. users' = Put(users, x, u) BY <1>3 DEF UpdateTrancheUser
  <2> QED BY <1>1, <2>1 DEF Put, Types, IsStore
<1> QED BY <1>2, <1>3

-----------------------------------------------------------------------------
(* LimitOrders: what the steps do *)

\* What is left of in after a swap that does not exhaust the tranche buys less
\* than one token: the two roundings cost too little for more.
LEMMA Exhausts ==
    ASSUME Precision >= 4, NEW in \in Nat, NEW P \in Nat \ {0},
           NEW m, m = Mul(P, Quo(in, P)), m <= in
    PROVE  Quo(in - m, P) < One
<1> DEFINE R == Precision
           x1 == (in * R * R) \div P
           out == ChopRound(x1)
           rest == in - m
           x2 == (rest * R * R) \div P
           q == ChopRound(x2)
<1>1. R \in Nat /\ R >= 4 /\ in * R * R \in Nat BY PrecisionAssumption
<1>2. x1 \in Nat /\ in * R * R < P * x1 + P BY <1>1, DivNat
<1>3. out \in Nat /\ 2 * (R * out) >= 2 * x1 - R BY <1>2, ChopNearest
<1>4. P * out \in Nat BY <1>3
<1>5. m = ChopRound(P * out) BY DEF Mul, Quo
<1>6. m \in Nat /\ 2 * (R * m) >= 2 * (P * out) - R BY <1>4, <1>5, ChopNearest
<1>7. rest \in Nat /\ rest * R * R \in Nat BY <1>1, <1>6
<1>8. x2 \in Nat /\ P * x2 <= rest * R * R BY <1>7, DivNat
<1>9. q \in Nat /\ 2 * (R * q) <= 2 * x2 + R BY <1>8, ChopNearest
<1>10. Quo(in - m, P) = q BY DEF Quo
<1> HIDE DEF x1, out, x2, q
<1>11. 2 * (R * R * m) >= 2 * (P * (R * out)) - R * R
  <2> DEFINE A == 2 * (R * m)
             B == 2 * (P * out) - R
  <2>1. A \in Int /\ B \in Int /\ A >= B BY <1>1, <1>3, <1>4, <1>6
  <2> HIDE DEF A, B
  <2>2. R * A >= R * B BY <1>1, <2>1
  <2>3. R * A = 2 * (R * R * m) BY <1>1, <1>6 DEF A
  <2>4. R * B = 2 * (P * (R * out)) - R * R BY <1>1, <1>3 DEF B
  <2> QED BY <2>2, <2>3, <2>4
<1>12. 2 * (P * (R * out)) >= 2 * (P * x1) - P * R
  <2> DEFINE A == 2 * (R * out)
             B == 2 * x1 - R
  <2>1. A \in Int /\ B \in Int /\ A >= B BY <1>1, <1>2, <1>3
  <2> HIDE DEF A, B
  <2>2. P * A >= P * B BY <2>1
  <2>3. P * A = 2 * (P * (R * out)) BY <1>1, <1>3 DEF A
  <2>4. P * B = 2 * (P * x1) - P * R BY <1>1, <1>2 DEF B
  <2> QED BY <2>2, <2>3, <2>4
<1>13. rest * R * R = in * R * R - R * R * m BY <1>1, <1>6
<1>14. 2 * (P * x2) < 2 * P + P * R + R * R
  <2>1. /\ R * R * m \in Int /\ P * (R * out) \in Int /\ R * R \in Int /\ P * x1 \in Int
        /\ P * R \in Int /\ P * x2 \in Int /\ rest * R * R \in Int /\ in * R * R \in Int
    BY <1>1, <1>2, <1>3, <1>6, <1>7, <1>8
  <2> QED BY <1>2, <1>8, <1>11, <1>12, <1>13, <2>1
<1>15. P * (R * R) >= R * R
  <2>1. R * R \in Nat BY <1>1
  <2> DEFINE S == R * R
  <2> HIDE DEF S
  <2>2. P * S >= S BY <2>1 DEF S
  <2> QED BY <2>2 DEF S
<1>16. 2 * x2 < 2 + R + R * R
  <2> DEFINE C == 2 + R + R * R - 2 * x2
  <2>1. C \in Int /\ P * C = 2 * P + P * R + P * (R * R) - 2 * (P * x2) BY <1>1, <1>8
  <2>2. P * C > 0
    <3>1. P * R \in Int /\ P * (R * R) \in Int /\ P * x2 \in Int /\ R * R \in Int BY <1>1, <1>8
    <3> QED BY <1>14, <1>15, <2>1, <3>1
  <2> HIDE DEF C
  <2>3. C > 0 BY <2>1, <2>2
  <2> QED BY <1>1, <1>8, <2>3 DEF C
<1>17. R * R >= 4 * R BY <1>1
<1>18. 2 * (R * q) < 2 * (R * R)
  <2>1. R * R \in Int /\ R * q \in Int BY <1>1, <1>9
  <2> QED BY <1>1, <1>8, <1>9, <1>16, <1>17, <2>1
<1>19. q < R
  <2> SUFFICES ASSUME q >= R PROVE FALSE BY <1>1, <1>9
  <2>1. R * q >= R * R BY <1>1, <1>9
  <2> QED BY <1>1, <1>9, <1>18, <2>1
<1> QED BY <1>10, <1>19 DEF One

\* The parts of a running order.
LEMMA OrderParts ==
    ASSUME Types, order # NoOrder
    PROVE  /\ order \in OrderRecords
           /\ order.type \in OrderTypes /\ order.creator \in Users /\ order.receiver \in Users
           /\ order.in \in {0, 1} /\ order.tick \in Ticks /\ order.amount \in Nat
           /\ order.expires \in Int /\ order.maxOut \in Nat /\ order.left \in Nat
           /\ order.got \in Nat /\ order.seen \subseteq Keys /\ order.filled \in BOOLEAN
           /\ order.left <= Dec(order.amount)
BY LimitOrdersAssumption DEF Types, OrderOK, OrderRecords

\* A round of Swap: in goes into tranche k, out comes out of it, and the order
\* is filled (f) unless the tranche is exhausted.
SwapStep(k, in, out, f) ==
    /\ order # NoOrder /\ ~order.filled /\ k \in Liquidity
    /\ out <= tranches[k].maker /\ in <= order.left
    /\ order.maxOut > 0 => order.got + out <= Dec(order.maxOut)
    /\ Precision >= 4 => f \/ out = tranches[k].maker
    /\ UpdateTranche(k, Swapped(tranches[k], in, out))
    /\ order' = [order EXCEPT !.left = order.left - in, !.got = order.got + out,
                              !.seen = order.seen \cup {k}, !.filled = f]
    /\ UNCHANGED <<users, expirations, trancheCount, jitsInBlock, bank, env, saved>>

LEMMA SwapSteps ==
    ASSUME Types, SwapTranche
    PROVE  \E k \in DOMAIN tranches, in \in Nat, out \in Nat, f \in BOOLEAN : SwapStep(k, in, out, f)
<1>1. order # NoOrder /\ ~order.filled BY DEF SwapTranche
<1> DEFINE out(k) == OutAmount(k, tranches[k], order.left, MaxOutLeft)
           in(k) == InAmount(k, order.left, out(k))
           rest(k) == order.left - in(k)
           spent(k) == Quo(rest(k), Price(k)) < One
           maxed(k) == order.maxOut > 0 /\ order.got + out(k) >= Dec(order.maxOut)
<1>2. PICK k \in Liquidity :
         /\ UpdateTranche(k, Swapped(tranches[k], in(k), out(k)))
         /\ order' = [order EXCEPT !.left = rest(k), !.got = order.got + out(k),
                                   !.seen = order.seen \cup {k}, !.filled = spent(k) \/ maxed(k)]
  BY ZenonT(60) DEF SwapTranche
<1>3. k \in DOMAIN tranches BY DEF Liquidity
<1>4. tranches[k].maker \in Nat /\ Price(k) \in Nat \ {0} BY <1>3, BookRecord, KeyParts DEF Types
<1>5. order.left \in Nat /\ order.got \in Nat /\ order.maxOut \in Nat BY <1>1, OrderParts
<1> DEFINE q == Quo(order.left, Price(k))
<1>6. q \in Nat BY <1>4, <1>5, QuoNat
<1>7. Dec(order.maxOut) \in Nat BY <1>5, DecNat
<1>8. order.maxOut > 0 => order.got <= Dec(order.maxOut) BY <1>1 DEF Types, OrderOK
<1>9. MaxOutLeft \in Int /\ (order.maxOut = 0 => MaxOutLeft = -1)
      /\ (order.maxOut > 0 => MaxOutLeft = Dec(order.maxOut) - order.got /\ MaxOutLeft \in Nat)
  BY <1>5, <1>7, <1>8 DEF MaxOutLeft
<1> HIDE DEF q
<1>10. /\ out(k) \in Nat /\ out(k) <= tranches[k].maker
       /\ order.maxOut > 0 => out(k) <= MaxOutLeft
       /\ \/ out(k) \in {tranches[k].maker, q}
          \/ order.maxOut > 0 /\ out(k) = MaxOutLeft
  <2> DEFINE m == MinDec(tranches[k].maker, q)
  <2>1. out(k) = IF MaxOutLeft < 0 THEN m ELSE MinDec(m, MaxOutLeft) BY DEF OutAmount, q
  <2>2. m \in Nat /\ m <= tranches[k].maker /\ m \in {tranches[k].maker, q} BY <1>4, <1>6 DEF MinDec
  <2> HIDE DEF m, out
  <2>3. CASE order.maxOut = 0 BY <2>1, <2>2, <2>3, <1>9
  <2>4. CASE order.maxOut > 0 BY <2>1, <2>2, <2>4, <1>4, <1>9 DEF MinDec
  <2> QED BY <2>3, <2>4, <1>5
<1> HIDE DEF out
<1>11. Mul(Price(k), out(k)) \in Nat BY <1>4, <1>10, MulNat
<1>12. in(k) \in Nat /\ in(k) <= order.left /\ in(k) \in {Mul(Price(k), out(k)), order.left}
       /\ in(k) <= Mul(Price(k), out(k))
  BY <1>5, <1>11 DEF InAmount, MinDec
<1> HIDE DEF in
<1>13. rest(k) \in Nat BY <1>5, <1>12
<1>14. order.maxOut > 0 => order.got + out(k) <= Dec(order.maxOut)
  BY <1>5, <1>7, <1>9, <1>10
<1>15. ASSUME Precision >= 4, out(k) # tranches[k].maker PROVE spent(k) \/ maxed(k)
  <2>1. CASE order.maxOut > 0 /\ out(k) = MaxOutLeft BY <2>1, <1>5, <1>7, <1>9
  <2>2. CASE out(k) = q /\ in(k) = order.left
    <3>1. rest(k) = 0 BY <2>2, <1>5
    <3>2. Quo(0, Price(k)) = 0
      <4>1. Precision \in Nat \ {0} BY PrecisionAssumption
      <4>2. (0 * Precision * Precision) \div Price(k) = 0
        <5>1. 0 * Precision * Precision = 0 BY <4>1
        <5>2. 0 \div Price(k) = 0 BY <1>4
        <5> QED BY <5>1, <5>2
      <4>3. 0 \div Precision = 0 /\ 0 % Precision = 0 BY <4>1
      <4> QED BY <4>1, <4>2, <4>3 DEF Quo, ChopRound
    <3> QED BY <3>1, <3>2, PrecisionAssumption DEF One
  <2>3. CASE out(k) = q /\ in(k) = Mul(Price(k), out(k))
    <3>1. in(k) = Mul(Price(k), Quo(order.left, Price(k))) BY <2>3 DEF q
    <3> QED BY <3>1, <1>4, <1>5, <1>12, <1>15, Exhausts
  <2> QED BY <2>1, <2>2, <2>3, <1>10, <1>12, <1>15
<1>16. SwapStep(k, in(k), out(k), spent(k) \/ maxed(k))
  <2> HIDE DEF spent, maxed
  <2> QED BY <1>1, <1>2, <1>10, <1>12, <1>14, <1>15 DEF SwapStep, SwapTranche, rest
<1> QED BY <1>3, <1>10, <1>12, <1>16, ZenonT(60)

\* The end of an order that succeeds: n tokens go into tranche k, which was t,
\* for the order's receiver, whose record was u.
FinishStep(k, t, u, n) ==
    /\ order # NoOrder
    /\ k[1] = order.in /\ k[2] = -order.tick
    /\ \/ /\ k \in DOMAIN tranches /\ t = tranches[k] /\ ~HasExpiration(t)
          /\ ~Expiring(order.type) /\ trancheCount' = trancheCount
       \/ /\ k[3] = trancheCount /\ t = NewLimitOrderTranche(order.expires)
          /\ trancheCount' = trancheCount + 1
    /\ \/ /\ PlaceUserKey(k) \in DOMAIN users /\ u = users[PlaceUserKey(k)]
          /\ u.side = k[1] /\ u.tick = k[2]
       \/ /\ PlaceUserKey(k) \notin DOMAIN users
          /\ u = [side |-> k[1], tick |-> k[2], shares |-> 0, withdrawn |-> 0]
    /\ n > 0 => /\ ~order.filled /\ Liquidity = {}
                /\ tranches' = Put(tranches, k, WithMakerOrder(t, n))
                /\ inactive' = inactive
                /\ expirations' = expirations \cup
                        IF Expiring(order.type) THEN {<<order.expires, k>>} ELSE {}
    /\ n = 0 => UNCHANGED <<tranches, inactive, expirations>>
    /\ UpdateTrancheUser(PlaceUserKey(k), [u EXCEPT !.shares = u.shares + n])
    /\ jitsInBlock' = IF order.type = "JIT" THEN jitsInBlock + 1 ELSE jitsInBlock
    /\ CanExchange(order.creator, order.receiver, order.in, order.got, SwapIn + Dec(n))
    /\ Exchange(order.creator, order.receiver, order.in, order.got, SwapIn + Dec(n))
    /\ order' = NoOrder /\ saved' = <<EmptyStore, EmptyStore>>
    /\ UNCHANGED env

LEMMA TruncateNat == ASSUME NEW x \in Nat PROVE TruncateInt(x) \in Nat
BY PrecisionAssumption, DivNat DEF TruncateInt

LEMMA FinishSteps ==
    ASSUME Types, FinishOrder
    PROVE  \E k \in Keys, t \in TrancheRecords, u \in UserRecords, n \in Nat : FinishStep(k, t, u, n)
<1>1. order # NoOrder BY DEF FinishOrder, SwapDone
<1>2. PICK k \in PlaceKeys :
        /\ OrderSucceeds(k)
        /\ IF AmountToPlace > 0
           THEN /\ UpdateTranche(k, WithMakerOrder(PlaceTranche(k), AmountToPlace))
                /\ expirations' = expirations \cup
                        IF Expiring(order.type) THEN {<<order.expires, k>>} ELSE {}
           ELSE UNCHANGED <<tranches, inactive, expirations>>
        /\ UpdateTrancheUser(PlaceUserKey(k), [PlaceUser(k) EXCEPT !.shares = PlaceUser(k).shares + AmountToPlace])
        /\ trancheCount' = NextTrancheCount
        /\ jitsInBlock' = IF order.type = "JIT" THEN jitsInBlock + 1 ELSE jitsInBlock
        /\ Exchange(order.creator, order.receiver, order.in, order.got, TotalIn)
        /\ order' = NoOrder /\ saved' = <<EmptyStore, EmptyStore>>
        /\ UNCHANGED env
  BY DEF FinishOrder
<1> DEFINE n == AmountToPlace
           t == PlaceTranche(k)
           u == PlaceUser(k)
           x == PlaceUserKey(k)
<1>3. n \in Nat BY <1>1, OrderParts, TruncateNat DEF AmountToPlace
<1>4. n > 0 => ~order.filled /\ Liquidity = {} BY DEF AmountToPlace, FinishOrder, SwapDone
<1>5. /\ k[1] = order.in /\ k[2] = -order.tick /\ k \in Keys /\ t \in TrancheRecords
      /\ \/ /\ k \in DOMAIN tranches /\ t = tranches[k] /\ ~HasExpiration(t)
            /\ ~Expiring(order.type) /\ trancheCount' = trancheCount
         \/ /\ k[3] = trancheCount /\ t = NewLimitOrderTranche(order.expires)
            /\ trancheCount' = trancheCount + 1
  <2>1. CASE Joins
    <3>1. k \in GTCPlaceTranches BY <2>1 DEF PlaceKeys
    <3>2. k \in DOMAIN tranches /\ k[1] = order.in /\ k[2] = -order.tick /\ ~HasExpiration(tranches[k])
      BY <3>1 DEF GTCPlaceTranches
    <3>3. k \in Keys /\ tranches[k] \in TrancheRecords BY <3>2, BookRecord DEF Types
    <3> QED BY <1>2, <2>1, <3>2, <3>3 DEF PlaceTranche, NextTrancheCount, Joins
  <2>2. CASE ~Joins
    <3>1. k = <<order.in, -order.tick, trancheCount>> BY <2>2 DEF PlaceKeys
    <3>2. order.in \in Sides /\ order.tick \in Ticks /\ trancheCount \in Nat
      BY <1>1, OrderParts, LimitOrdersAssumption DEF Sides, Types
    <3>3. k \in Keys BY <3>1, <3>2 DEF Keys, BookTicks
    <3>4. t = NewLimitOrderTranche(order.expires) BY <2>2 DEF PlaceTranche
    <3>5. t \in TrancheRecords
      BY <1>1, <3>4, OrderParts DEF NewLimitOrderTranche, TrancheRecords
    <3> QED BY <1>2, <2>2, <3>1, <3>3, <3>4, <3>5 DEF NextTrancheCount
  <2> QED BY <2>1, <2>2
<1>6. x \in Users \X Nat BY <1>1, <1>5, OrderParts, KeyParts DEF PlaceUserKey
<1>7. /\ u \in UserRecords
      /\ \/ x \in DOMAIN users /\ u = users[x] /\ u.side = k[1] /\ u.tick = k[2]
         \/ x \notin DOMAIN users /\ u = [side |-> k[1], tick |-> k[2], shares |-> 0, withdrawn |-> 0]
  <2>1. CASE x \in DOMAIN users
    <3>1. u = users[x] BY <2>1 DEF PlaceUser
    <3>2. KeyOf(x) = k BY <1>2, <2>1 DEF OrderSucceeds, DuplicateTrancheKey
    <3>3. <<users[x].side, users[x].tick, x[2]>> = k BY <3>2 DEF KeyOf
    <3>4. k[1] = users[x].side /\ k[2] = users[x].tick BY <3>3
    <3>5. users[x] \in UserRecords BY <2>1 DEF Types, IsStore
    <3> QED BY <2>1, <3>1, <3>4, <3>5
  <2>2. CASE x \notin DOMAIN users
    <3>1. u = [side |-> k[1], tick |-> k[2], shares |-> 0, withdrawn |-> 0]
      BY <2>2, <1>5 DEF PlaceUser
    <3>2. k[1] \in Sides /\ k[2] \in BookTicks BY <1>5 DEF Keys
    <3> QED BY <2>2, <3>1, <3>2 DEF UserRecords
  <2> QED BY <2>1, <2>2
<1>8. n > 0 => HasTokenIn(WithMakerOrder(t, n))
  <2>1. t.maker \in Nat BY <1>5 DEF TrancheRecords
  <2>2. n > 0 => Dec(n) > 0 BY <1>3, PrecisionAssumption DEF Dec
  <2>3. WithMakerOrder(t, n).maker = t.maker + Dec(n) BY <1>5 DEF WithMakerOrder, TrancheRecords
  <2> QED BY <2>1, <2>2, <2>3, <1>3, DecNat DEF HasTokenIn
<1>9. n > 0 => /\ tranches' = Put(tranches, k, WithMakerOrder(t, n)) /\ inactive' = inactive
               /\ expirations' = expirations \cup
                        IF Expiring(order.type) THEN {<<order.expires, k>>} ELSE {}
  BY <1>2, <1>8 DEF UpdateTranche
<1>10. n = 0 => UNCHANGED <<tranches, inactive, expirations>> BY <1>2
<1>11. CanExchange(order.creator, order.receiver, order.in, order.got, SwapIn + Dec(n))
  BY <1>2 DEF OrderSucceeds, TotalIn
<1>12. Exchange(order.creator, order.receiver, order.in, order.got, SwapIn + Dec(n))
  BY <1>2 DEF TotalIn
<1>13. FinishStep(k, t, u, n)
  <2> HIDE DEF n, t, u
  <2>1. UpdateTrancheUser(PlaceUserKey(k), [u EXCEPT !.shares = u.shares + n]) BY <1>2 DEF u, n
  <2> QED BY <1>1, <1>2, <1>4, <1>5, <1>7, <1>9, <1>10, <1>11, <1>12, <2>1 DEF FinishStep
<1> QED BY <1>3, <1>5, <1>7, <1>13

\* A withdrawal or a cancel of x: rest and out leave the tranche of x, which
\* becomes t, and the record of x becomes u.
TakeOut(x, t, u, rest, out) ==
    LET k == KeyOf(x)
        old == FindLimitOrderTranche(k)
    IN  /\ order = NoOrder /\ Found(k)
        /\ rest <= old.maker /\ out <= old.taker
        /\ t.maker = old.maker - rest /\ t.taker = old.taker - out /\ t.expires = old.expires
        /\ u.side = users[x].side /\ u.tick = users[x].tick /\ u.shares = users[x].shares
        /\ \/ t.totalMaker = old.totalMaker
           \/ t.totalMaker = old.totalMaker - u.shares /\ IsEmpty(u)
        /\ IF k \in DOMAIN tranches THEN UpdateTranche(k, t) ELSE UpdateInactiveTranche(k, t)
        /\ UpdateTrancheUser(x, u)
        /\ SendFromDex(x[1], Pays(k, rest, out))
        /\ \/ expirations' = expirations
           \/ expirations' = expirations \ {<<t.expires, k>>} /\ ~HasTokenIn(t)
        /\ UNCHANGED <<trancheCount, jitsInBlock, env, order, saved>>

\* What a user is paid is a decimal, and no more than the tranche holds.
LEMMA ClaimsBounded ==
    ASSUME NEW k \in Keys, NEW t \in TrancheRecords, NEW u \in UserRecords, t.totalMaker > 0
    PROVE  /\ TokenIn(k, t, u) \in Nat /\ TokenIn(k, t, u) <= t.maker
           /\ TokenOut(k, t, u) \in Nat /\ TokenOut(k, t, u) <= t.taker
           /\ SharesToWithdraw(k, t, u) \in Nat
<1>1. Price(k) \in Nat \ {0} BY KeyParts
<1>2. /\ t.maker \in Nat /\ t.taker \in Nat /\ t.totalTaker \in Nat
      /\ t.totalMaker \in Nat \ {0}
  BY DEF TrancheRecords
<1>3. u.shares \in Nat /\ u.withdrawn \in Nat BY DEF UserRecords
<1>4. AmountFilled(k, t) \in Nat BY <1>1, <1>2, QuoNat DEF AmountFilled
<1>5. RatioFilled(k, t) \in Nat
  <2>1. QuoInt(AmountFilled(k, t), t.totalMaker) \in Nat BY <1>2, <1>4, DivNat DEF QuoInt
  <2> QED BY <2>1, PrecisionAssumption DEF RatioFilled, MinDec, One
<1>6. AmountUnfilled(k, t) \in Nat
  <2>1. Dec(t.totalMaker) \in Nat BY <1>2, DecNat
  <2> QED BY <2>1, <1>4 DEF AmountUnfilled, MaxDec
<1>7. MakerClaim(k, t, u) \in Nat
  <2>1. MulInt(AmountUnfilled(k, t), u.shares) \in Nat BY <1>3, <1>6 DEF MulInt
  <2> QED BY <2>1, <1>2, DivNat DEF MakerClaim, QuoInt
<1>8. SharesToWithdraw(k, t, u) \in Nat
  <2>1. MulInt(RatioFilled(k, t), u.shares) \in Nat BY <1>3, <1>5 DEF MulInt
  <2> QED BY <2>1, <1>3 DEF SharesToWithdraw, MaxDec
<1>9. TakerClaim(k, t, u) \in Nat BY <1>1, <1>8, MulNat DEF TakerClaim
<1>10. TokenIn(k, t, u) \in Nat /\ TokenIn(k, t, u) <= t.maker BY <1>2, <1>7 DEF TokenIn, MinDec
<1>11. TokenOut(k, t, u) \in Nat /\ TokenOut(k, t, u) <= t.taker BY <1>2, <1>9 DEF TokenOut, MinDec
<1> QED BY <1>8, <1>10, <1>11

\* The tranche of a user is a record of the book.
LEMMA UserTranche ==
    ASSUME Types, NEW x \in DOMAIN users, Found(KeyOf(x))
    PROVE  /\ KeyOf(x) \in Keys /\ users[x] \in UserRecords /\ x \in Users \X Nat
           /\ FindLimitOrderTranche(KeyOf(x)) \in TrancheRecords
<1>1. users[x] \in UserRecords /\ x \in Users \X Nat BY DEF Types, IsStore
<1>2. KeyOf(x) \in Keys /\ FindLimitOrderTranche(KeyOf(x)) \in TrancheRecords
  <2> DEFINE k == KeyOf(x)
  <2>1. k \in DOMAIN tranches \/ k \in DOMAIN inactive BY DEF Found
  <2> QED BY <2>1, BookRecord DEF Types, FindLimitOrderTranche
<1> QED BY <1>1, <1>2

LEMMA WithdrawTakesOut ==
    ASSUME Types, NEW x \in DOMAIN users, WithdrawFilledLimitOrder(x)
    PROVE  \E t \in TrancheRecords, u \in UserRecords, rest \in Nat, out \in Nat : TakeOut(x, t, u, rest, out)
<1> DEFINE k == KeyOf(x)
           old == FindLimitOrderTranche(k)
           v == users[x]
           out == TokenOut(k, old, v)
           rest == IF WasFilled(k) THEN TokenIn(k, old, v) ELSE 0
           t == [old EXCEPT !.taker = old.taker - out, !.maker = old.maker - rest]
           w == IF WasFilled(k) THEN Dec(v.shares) ELSE v.withdrawn + SharesToWithdraw(k, old, v)
           u == [v EXCEPT !.withdrawn = w]
<1>1. order = NoOrder /\ Found(k) /\ old.totalMaker > 0 BY DEF WithdrawFilledLimitOrder, CanWithdraw
<1>2. k \in Keys /\ v \in UserRecords /\ x \in Users \X Nat /\ old \in TrancheRecords
  BY <1>1, UserTranche
<1>3. /\ rest \in Nat /\ rest <= old.maker /\ out \in Nat /\ out <= old.taker
      /\ SharesToWithdraw(k, old, v) \in Nat
  <2>1. old.maker \in Nat BY <1>2 DEF TrancheRecords
  <2> QED BY <1>1, <1>2, <2>1, ClaimsBounded
<1>4. w \in Nat
  <2>1. v.shares \in Nat /\ v.withdrawn \in Nat BY <1>2 DEF UserRecords
  <2> QED BY <2>1, <1>3, DecNat
<1>5. /\ IF k \in DOMAIN tranches THEN UpdateTranche(k, t) ELSE UpdateInactiveTranche(k, t)
      /\ UpdateTrancheUser(x, u) /\ SendFromDex(x[1], Pays(k, rest, out))
      /\ UNCHANGED <<expirations, trancheCount, jitsInBlock, env, order, saved>>
  <2>1. CASE WasFilled(k) BY <2>1 DEF WithdrawFilledLimitOrder, WasFilled
  <2>2. CASE ~WasFilled(k) BY <2>2 DEF WithdrawFilledLimitOrder, WasFilled
  <2> QED BY <2>1, <2>2
<1> HIDE DEF k, old, v, out, rest, w
<1>6. /\ t \in TrancheRecords /\ t.maker = old.maker - rest /\ t.taker = old.taker - out
      /\ t.expires = old.expires /\ t.totalMaker = old.totalMaker
  <2> DEFINE a == old.taker - out
             b == old.maker - rest
  <2>1. old.maker \in Nat /\ old.taker \in Nat BY <1>2 DEF TrancheRecords
  <2>2. a \in Nat /\ b \in Nat BY <1>3, <2>1
  <2> HIDE DEF a, b
  <2>3. t = [old EXCEPT !.taker = a, !.maker = b] BY DEF a, b
  <2>4. t \in TrancheRecords BY <1>2, <2>2, <2>3, ZenonT(60) DEF TrancheRecords
  <2>5. t.maker = b /\ t.taker = a /\ t.expires = old.expires /\ t.totalMaker = old.totalMaker
    BY <1>2, <2>3, ZenonT(60) DEF TrancheRecords
  <2> QED BY <2>4, <2>5 DEF a, b
<1>7. u \in UserRecords /\ u.side = v.side /\ u.tick = v.tick /\ u.shares = v.shares
  BY <1>2, <1>4 DEF UserRecords
<1> HIDE DEF t, u
<1>8. TakeOut(x, t, u, rest, out)
  BY <1>1, <1>3, <1>5, <1>6, <1>7, ZenonT(60) DEF TakeOut, k, old, v
<1> QED BY <1>3, <1>6, <1>7, <1>8

LEMMA CancelTakesOut ==
    ASSUME Types, NEW x \in DOMAIN users, CancelLimitOrder(x)
    PROVE  \E t \in TrancheRecords, u \in UserRecords, rest \in Nat, out \in Nat : TakeOut(x, t, u, rest, out)
<1> DEFINE k == KeyOf(x)
           old == FindLimitOrderTranche(k)
           v == users[x]
           out == TokenOut(k, old, v)
           rest == TokenIn(k, old, v)
           total == TotalTakerLeft(k, old, v, out)
           t == [old EXCEPT !.maker = old.maker - rest, !.taker = old.taker - out,
                            !.totalMaker = old.totalMaker - v.shares, !.totalTaker = total]
           u == [v EXCEPT !.withdrawn = Dec(v.shares)]
<1>1. order = NoOrder /\ Found(k) /\ old.totalMaker > 0 /\ total >= 0
  BY DEF CancelLimitOrder, CanWithdraw
<1>2. k \in Keys /\ v \in UserRecords /\ x \in Users \X Nat /\ old \in TrancheRecords
  BY <1>1, UserTranche, ZenonT(60)
<1>3. rest \in Nat /\ rest <= old.maker /\ out \in Nat /\ out <= old.taker
  BY <1>1, <1>2, ClaimsBounded
<1>4. v.shares \in Nat /\ v.withdrawn \in Nat /\ Dec(v.shares) \in Nat
  <2>1. v.shares \in Nat /\ v.withdrawn \in Nat BY <1>2 DEF UserRecords
  <2> QED BY <2>1, DecNat
<1>5. total \in Nat
  <2>1. Mul(v.withdrawn, Price(k)) \in Nat BY <1>2, <1>4, KeyParts, MulNat
  <2>2. old.totalTaker \in Nat BY <1>2 DEF TrancheRecords
  <2> QED BY <1>1, <1>3, <2>1, <2>2 DEF TotalTakerLeft
<1>6. /\ IF k \in DOMAIN tranches THEN UpdateTranche(k, t) ELSE UpdateInactiveTranche(k, t)
      /\ UpdateTrancheUser(x, u) /\ SendFromDex(x[1], Pays(k, rest, out))
      /\ expirations' = ExpirationsAfter(k, t)
      /\ UNCHANGED <<trancheCount, jitsInBlock, env, order, saved>>
  BY DEF CancelLimitOrder, WasFilled
<1> HIDE DEF k, old, v, out, rest, total
<1>7. /\ t \in TrancheRecords /\ t.maker = old.maker - rest /\ t.taker = old.taker - out
      /\ t.expires = old.expires /\ t.totalMaker = old.totalMaker - v.shares
  <2> DEFINE a == old.taker - out
             b == old.maker - rest
             c == old.totalMaker - v.shares
  <2>1. old.maker \in Nat /\ old.taker \in Nat /\ old.totalMaker \in Int BY <1>2 DEF TrancheRecords
  <2>2. a \in Nat /\ b \in Nat /\ c \in Int BY <1>3, <1>4, <2>1
  <2> HIDE DEF a, b, c
  <2>3. t = [old EXCEPT !.maker = b, !.taker = a, !.totalMaker = c, !.totalTaker = total]
    BY DEF a, b, c
  <2>4. t \in TrancheRecords BY <1>2, <1>5, <2>2, <2>3, ZenonT(60) DEF TrancheRecords
  <2>5. t.maker = b /\ t.taker = a /\ t.expires = old.expires /\ t.totalMaker = c
    BY <1>2, <2>3, ZenonT(60) DEF TrancheRecords
  <2> QED BY <2>4, <2>5 DEF a, b, c
<1>8. /\ u \in UserRecords /\ u.side = v.side /\ u.tick = v.tick /\ u.shares = v.shares
      /\ IsEmpty(u)
  BY <1>2, <1>4 DEF UserRecords, IsEmpty
<1> HIDE DEF t, u
<1>9. TakeOut(x, t, u, rest, out)
  BY <1>1, <1>3, <1>6, <1>7, <1>8, ZenonT(60) DEF TakeOut, ExpirationsAfter, k, old, v
<1> QED BY <1>3, <1>7, <1>8, <1>9

\* The purge of the tranches P, in a new block or in the first one after a
\* restart.
PurgeStep(P) ==
    /\ order = NoOrder /\ P \subseteq DOMAIN tranches
    /\ tranches' = [k \in DOMAIN tranches \ P |-> tranches[k]]
    /\ inactive' = [k \in DOMAIN inactive \cup P |-> IF k \in P THEN tranches[k] ELSE inactive[k]]
    /\ ExpirationsRecorded =>
        \A k \in DOMAIN tranches \ P :
            /\ HasExpiration(tranches[k]) => <<tranches[k].expires, k>> \in expirations'
            /\ ~IsJIT(tranches[k])
    /\ now' = now + 1 /\ jitsInBlock' = 0
    /\ \/ UNCHANGED <<trancheCount, frac, restarts>>
       \/ restarts' = restarts + 1 /\ trancheCount' = 0 /\ frac' = [x \in Users \X Denoms |-> 0]
    /\ UNCHANGED <<users, dex, order, saved>>

LEMMA PurgeSteps ==
    ASSUME BeginBlock \/ Restart
    PROVE  \E P \in SUBSET DOMAIN tranches : PurgeStep(P)
<1>1. PICK recorded : /\ recorded \in {expirations, Recreated}
                      /\ PurgeExpiredLimitOrders(recorded)
  BY DEF BeginBlock, Restart
<1>2. PICK S \in SUBSET recorded :
        LET purged == {e[2] : e \in S} \cap DOMAIN tranches
        IN  /\ Purges(S, recorded, now + 1)
            /\ tranches' = [k \in DOMAIN tranches \ purged |-> tranches[k]]
            /\ inactive' = [k \in DOMAIN inactive \cup purged |->
                                IF k \in purged THEN tranches[k] ELSE inactive[k]]
            /\ expirations' = recorded \ S
  BY <1>1 DEF PurgeExpiredLimitOrders
<1> DEFINE P == {e[2] : e \in S} \cap DOMAIN tranches
<1>3. ASSUME ExpirationsRecorded, NEW k \in DOMAIN tranches \ P
      PROVE  /\ HasExpiration(tranches[k]) => <<tranches[k].expires, k>> \in expirations'
             /\ ~IsJIT(tranches[k])
  <2> DEFINE e == <<tranches[k].expires, k>>
  <2>1. HasExpiration(tranches[k]) => e \in recorded
    <3>1. CASE recorded = expirations BY <3>1, <1>3 DEF ExpirationsRecorded
    <3>2. CASE recorded = Recreated BY <3>2, <1>3 DEF Recreated
    <3> QED BY <1>1, <3>1, <3>2
  <2>2. e \notin S
    <3> SUFFICES ASSUME e \in S PROVE FALSE OBVIOUS
    <3>1. e[2] = k OBVIOUS
    <3>2. k \in P BY <3>1, <1>3
    <3> QED BY <3>2, <1>3
  <2>3. ~IsJIT(tranches[k])
    <3> SUFFICES ASSUME IsJIT(tranches[k]) PROVE FALSE OBVIOUS
    <3>1. HasExpiration(tranches[k]) /\ e[1] = JITGoodTilTime
      BY DEF IsJIT, HasExpiration, JITGoodTilTime, NoExpiration
    <3>2. \A f \in recorded : f[1] = JITGoodTilTime => f \in S BY <1>2 DEF Purges
    <3> HIDE DEF e
    <3> QED BY <2>1, <2>2, <3>1, <3>2
  <2> QED BY <1>2, <2>1, <2>2, <2>3
<1>4. PurgeStep(P)
  <2>1. CASE BeginBlock BY <1>2, <1>3, <2>1, ZenonT(60) DEF PurgeStep, BeginBlock, bank
  <2>2. CASE Restart BY <1>2, <1>3, <2>2, ZenonT(60) DEF PurgeStep, Restart
  <2> QED BY <2>1, <2>2
<1> QED BY <1>4

\* An order is accepted for execution.
OpenStep ==
    /\ order = NoOrder /\ order' # NoOrder
    /\ order' \in OrderRecords /\ order'.left = Dec(order'.amount) /\ order'.got = 0
    /\ order'.seen = {} /\ order'.filled = FALSE
    /\ ~Expiring(order'.type) => order'.expires = NoExpiration
    /\ order'.type = "GTT" => order'.expires > 0
    /\ saved' = <<tranches, inactive>>
    /\ UNCHANGED <<tranches, inactive, users, expirations, trancheCount, jitsInBlock, bank, env>>

LEMMA OpenSteps ==
    ASSUME Types, Place
    PROVE  OpenStep
<1>1. PICK p \in Parties, d \in Denoms, l \in Ticks, amount \in Amounts, type \in OrderTypes,
           maxOut \in MaxAmountsOut, minSell \in MinSellPrices :
        \E exp \in ExpirationTimes(type) :
            PlaceLimitOrder(p, d, l, amount, type, exp, maxOut, minSell)
  BY DEF Place
<1>2. PICK exp \in ExpirationTimes(type) :
            PlaceLimitOrder(p, d, l, amount, type, exp, maxOut, minSell)
  BY <1>1
<1>3. /\ p[1] \in Users /\ p[2] \in Users /\ amount \in Nat /\ maxOut \in Nat /\ minSell \in Nat
      /\ type \in {"GTC", "GTT", "JIT", "IOC", "FOK"}
  BY LimitOrdersAssumption
<1>4. now \in Nat \ {0} /\ MaxTime \in Nat BY LimitOrdersAssumption DEF Types
<1>5. exp \in Int /\ (~Expiring(type) => exp = NoExpiration) /\ (type = "GTT" => exp > 0)
  <2>1. CASE type = "GTT" BY <1>4, <2>1 DEF ExpirationTimes, Expiring
  <2>2. CASE type = "JIT" BY <2>2 DEF ExpirationTimes, Expiring, JITGoodTilTime
  <2>3. CASE type \notin {"GTT", "JIT"} BY <2>3 DEF ExpirationTimes, Expiring, NoExpiration
  <2> QED BY <2>1, <2>2, <2>3
<1> DEFINE o == [type |-> type, creator |-> p[1], receiver |-> p[2], in |-> d, tick |-> l,
                 amount |-> amount, expires |-> exp, maxOut |-> maxOut, minSell |-> minSell,
                 left |-> Dec(amount), got |-> 0, seen |-> {}, filled |-> FALSE]
<1>6. order' = o BY <1>2, ZenonT(60) DEF PlaceLimitOrder
<1>7. o \in OrderRecords BY <1>3, <1>5, DecNat, ZenonT(60) DEF OrderRecords
<1>8. o # NoOrder
  <2>1. o.type # "none" BY <1>3
  <2>2. NoOrder.type = "none" BY DEF NoOrder
  <2> QED BY <2>1, <2>2
<1>9. /\ o.left = Dec(o.amount) /\ o.got = 0 /\ o.seen = {} /\ o.filled = FALSE
      /\ ~Expiring(o.type) => o.expires = NoExpiration
      /\ o.type = "GTT" => o.expires > 0
  BY <1>5
<1> HIDE DEF o
<1> QED BY <1>2, <1>6, <1>7, <1>8, <1>9, ZenonT(60) DEF OpenStep, PlaceLimitOrder

\* What the account holds beyond the fractions it owes.
Position(d) == Dec(dex[d]) - SumOf(Debts(d))

LEMMA BankPaysOut ==
    ASSUME Types, NEW a \in Users, NEW out \in [Denoms -> Nat], SendFromDex(a, out)
    PROVE  /\ dex' \in [Denoms -> Nat] /\ frac' \in [Users \X Denoms -> Nat]
           /\ \A d \in Denoms : FiniteStore(Debts(d)) =>
                FiniteStore(Debts(d)') /\ Position(d)' = Position(d) - out[d]
<1> DEFINE b == Balances
           c == SentFromDex(b, a, out)
<1>1. BankOK(b) /\ \A d : OwedAll(b, d) = Debts(d) /\ Net(b, d) = Position(d)
  BY DEF BankOK, Balances, Types, OwedAll, Debts, Net, Position
<1>2. CanSendFromDex(b, a, out) /\ dex' = c.dex /\ frac' = c.frac BY DEF SendFromDex, SetBalances
<1> HIDE DEF b, c
<1>3. /\ BankOK(c)
      /\ \A d \in Denoms : FiniteStore(OwedAll(b, d)) =>
                FiniteStore(OwedAll(c, d)) /\ Net(c, d) = Net(b, d) - out[d]
  BY <1>1, <1>2, PaysOut DEF c
<1>4. \A d : OwedAll(c, d) = Debts(d)' /\ Net(c, d) = Position(d)'
  BY <1>2, ZenonT(60) DEF OwedAll, Debts, Net, Position
<1>5. dex' \in [Denoms -> Nat] /\ frac' \in [Users \X Denoms -> Nat] BY <1>2, <1>3 DEF BankOK
<1> QED BY <1>1, <1>3, <1>4, <1>5

LEMMA BankExchanges ==
    ASSUME Types, NEW a \in Users, NEW r \in Users, NEW d \in Denoms, NEW out \in Nat, NEW in \in Nat,
           CanExchange(a, r, d, out, in), Exchange(a, r, d, out, in)
    PROVE  /\ dex' \in [Denoms -> Nat] /\ frac' \in [Users \X Denoms -> Nat]
           /\ \A e \in Denoms : FiniteStore(Debts(e)) =>
                /\ FiniteStore(Debts(e)')
                /\ Position(e)' = Position(e) - Only(Other(d), out)[e] + Only(d, in)[e]
<1> DEFINE b == Balances
           o == Only(Other(d), out)
           i == Only(d, in)
           m == SentFromDex(b, r, o)
           c == SentToDex(m, a, i)
<1>1. BankOK(b) /\ \A e : OwedAll(b, e) = Debts(e) /\ Net(b, e) = Position(e)
  BY DEF BankOK, Balances, Types, OwedAll, Debts, Net, Position
<1>2. CanSendFromDex(b, r, o) /\ dex' = c.dex /\ frac' = c.frac
  BY DEF CanExchange, Exchange, SetBalances, AfterOut
<1>3. o \in [Denoms -> Nat] /\ i \in [Denoms -> Nat] BY DEF Only
<1> HIDE DEF b, m, c, o, i
<1>4. /\ BankOK(m)
      /\ \A e \in Denoms : FiniteStore(OwedAll(b, e)) =>
                FiniteStore(OwedAll(m, e)) /\ Net(m, e) = Net(b, e) - o[e]
  BY <1>1, <1>2, <1>3, PaysOut DEF m
<1>5. /\ BankOK(c)
      /\ \A e \in Denoms : FiniteStore(OwedAll(m, e)) =>
                FiniteStore(OwedAll(c, e)) /\ Net(c, e) = Net(m, e) + i[e]
  BY <1>3, <1>4, PaysIn DEF c
<1>6. \A e : OwedAll(c, e) = Debts(e)' /\ Net(c, e) = Position(e)'
  BY <1>2, ZenonT(60) DEF OwedAll, Debts, Net, Position
<1>7. dex' \in [Denoms -> Nat] /\ frac' \in [Users \X Denoms -> Nat] BY <1>2, <1>5, ZenonT(60) DEF BankOK
<1>8. ASSUME NEW e \in Denoms, FiniteStore(Debts(e))
      PROVE  FiniteStore(Debts(e)') /\ Position(e)' = Position(e) - o[e] + i[e]
  <2>1. FiniteStore(OwedAll(m, e)) /\ Net(m, e) = Net(b, e) - o[e] BY <1>1, <1>4, <1>8
  <2>2. FiniteStore(OwedAll(c, e)) /\ Net(c, e) = Net(m, e) + i[e] BY <1>5, <2>1
  <2> QED BY <1>1, <1>6, <2>1, <2>2, ZenonT(60)
<1> QED BY <1>7, <1>8 DEF o, i

RevertStep ==
    /\ order # NoOrder /\ tranches' = saved[1] /\ inactive' = saved[2]
    /\ order' = NoOrder /\ saved' = <<EmptyStore, EmptyStore>>
    /\ UNCHANGED <<users, expirations, trancheCount, jitsInBlock, bank, env>>

IdleStep ==
    UNCHANGED <<tranches, inactive, users, expirations, trancheCount, jitsInBlock, dex, frac,
                now, restarts, order, saved>>

\* Every step has one of these shapes.
DexStep ==
    \/ OpenStep
    \/ \E k \in DOMAIN tranches, in \in Nat, out \in Nat, f \in BOOLEAN : SwapStep(k, in, out, f)
    \/ \E k \in Keys, t \in TrancheRecords, u \in UserRecords, n \in Nat : FinishStep(k, t, u, n)
    \/ RevertStep
    \/ \E x \in DOMAIN users, t \in TrancheRecords, u \in UserRecords, rest \in Nat, out \in Nat :
            TakeOut(x, t, u, rest, out)
    \/ \E P \in SUBSET DOMAIN tranches : PurgeStep(P)
    \/ IdleStep

LEMMA EveryDexStep == ASSUME Types, [Next]_vars PROVE DexStep
<1>1. CASE Place BY <1>1, OpenSteps DEF DexStep
<1>2. CASE SwapTranche BY <1>2, SwapSteps DEF DexStep
<1>3. CASE FinishOrder BY <1>3, FinishSteps DEF DexStep
<1>4. CASE RevertOrder
  <2>1. RevertStep BY <1>4 DEF RevertOrder, RevertStep, SwapDone
  <2> QED BY <2>1 DEF DexStep
<1>5. CASE \E x \in DOMAIN users : WithdrawFilledLimitOrder(x)
  BY <1>5, WithdrawTakesOut DEF DexStep
<1>6. CASE \E x \in DOMAIN users : CancelLimitOrder(x)
  BY <1>6, CancelTakesOut DEF DexStep
<1>7. CASE BeginBlock \/ Restart BY <1>7, PurgeSteps DEF DexStep
<1>8. CASE UpdateParams
  <2>1. IdleStep BY <1>8 DEF UpdateParams, IdleStep, bank
  <2> QED BY <2>1 DEF DexStep
<1>9. CASE UNCHANGED vars
  <2>1. IdleStep BY <1>9 DEF vars, IdleStep
  <2> QED BY <2>1 DEF DexStep
<1> QED BY <1>1, <1>2, <1>3, <1>4, <1>5, <1>6, <1>7, <1>8, <1>9 DEF Next

\* What Swap makes of a tranche.
LEMMA SwappedRecord ==
    ASSUME NEW t \in TrancheRecords, NEW in \in Nat, NEW out \in Nat, out <= t.maker
    PROVE  /\ Swapped(t, in, out) \in TrancheRecords
           /\ Swapped(t, in, out).maker = t.maker - out
           /\ Swapped(t, in, out).taker = t.taker + in
           /\ Swapped(t, in, out).totalMaker = t.totalMaker
           /\ Swapped(t, in, out).expires = t.expires
<1> DEFINE a == t.taker + in
           b == t.maker - out
           c == t.totalTaker + in
<1>1. t.maker \in Nat /\ t.taker \in Nat /\ t.totalTaker \in Nat BY DEF TrancheRecords
<1>2. a \in Nat /\ b \in Nat /\ c \in Nat BY <1>1
<1>3. Swapped(t, in, out) = [t EXCEPT !.taker = a, !.maker = b, !.totalTaker = c] BY DEF Swapped
<1> HIDE DEF a, b, c
<1>4. Swapped(t, in, out) \in TrancheRecords BY <1>2, <1>3, ZenonT(60) DEF TrancheRecords
<1>5. /\ Swapped(t, in, out).maker = b /\ Swapped(t, in, out).taker = a
      /\ Swapped(t, in, out).totalMaker = t.totalMaker /\ Swapped(t, in, out).expires = t.expires
  BY <1>3 DEF TrancheRecords
<1> QED BY <1>4, <1>5 DEF a, b

\* What PlaceMakerLimitOrder makes of one.
LEMMA PlacedRecord ==
    ASSUME NEW t \in TrancheRecords, NEW n \in Nat
    PROVE  /\ WithMakerOrder(t, n) \in TrancheRecords
           /\ WithMakerOrder(t, n).maker = t.maker + Dec(n)
           /\ WithMakerOrder(t, n).taker = t.taker
           /\ WithMakerOrder(t, n).totalMaker = t.totalMaker + n
           /\ WithMakerOrder(t, n).expires = t.expires
<1> DEFINE b == t.maker + Dec(n)
           c == t.totalMaker + n
<1>1. t.maker \in Nat /\ t.totalMaker \in Int /\ Dec(n) \in Nat BY DecNat DEF TrancheRecords
<1>2. b \in Nat /\ c \in Int BY <1>1
<1>3. WithMakerOrder(t, n) = [t EXCEPT !.maker = b, !.totalMaker = c] BY DEF WithMakerOrder
<1> HIDE DEF b, c
<1>4. WithMakerOrder(t, n) \in TrancheRecords BY <1>2, <1>3, ZenonT(60) DEF TrancheRecords
<1>5. /\ WithMakerOrder(t, n).maker = b /\ WithMakerOrder(t, n).taker = t.taker
      /\ WithMakerOrder(t, n).totalMaker = c /\ WithMakerOrder(t, n).expires = t.expires
  BY <1>3 DEF TrancheRecords
<1> QED BY <1>4, <1>5 DEF b, c

LEMMA EmptyBook == IsBook(EmptyStore)
BY FS_EmptySet DEF IsBook, IsStore, EmptyStore

\* The order after a round of Swap.
LEMMA SwappedOrder ==
    ASSUME Types, NEW k \in DOMAIN tranches, NEW in \in Nat, NEW out \in Nat, NEW f \in BOOLEAN,
           SwapStep(k, in, out, f)
    PROVE  /\ order' \in OrderRecords /\ order' # NoOrder
           /\ order'.left = order.left - in /\ order'.got = order.got + out
           /\ order'.seen = order.seen \cup {k} /\ order'.filled = f
           /\ order'.type = order.type /\ order'.in = order.in /\ order'.tick = order.tick
           /\ order'.amount = order.amount /\ order'.expires = order.expires
           /\ order'.maxOut = order.maxOut
<1> DEFINE a == order.left - in
           b == order.got + out
           c == order.seen \cup {k}
<1>1. order # NoOrder /\ in <= order.left BY DEF SwapStep
<1>2. order \in OrderRecords /\ order.left \in Nat /\ order.got \in Nat /\ order.seen \subseteq Keys
  BY <1>1, OrderParts
<1>3. k \in Keys BY BookRecord DEF Types
<1>4. a \in Nat /\ b \in Nat /\ c \in SUBSET Keys BY <1>1, <1>2, <1>3
<1>5. order' = [order EXCEPT !.left = a, !.got = b, !.seen = c, !.filled = f] BY DEF SwapStep
<1> HIDE DEF a, b, c
<1>6. order' \in OrderRecords BY <1>2, <1>4, <1>5, ZenonT(60) DEF OrderRecords
<1>7. /\ order'.left = a /\ order'.got = b /\ order'.seen = c /\ order'.filled = f
      /\ order'.type = order.type /\ order'.in = order.in /\ order'.tick = order.tick
      /\ order'.amount = order.amount /\ order'.expires = order.expires
      /\ order'.maxOut = order.maxOut
  BY <1>2, <1>5 DEF OrderRecords
<1>8. order' # NoOrder
  <2>1. order'.type \in {"GTC", "GTT", "JIT", "IOC", "FOK"}
    BY <1>6, LimitOrdersAssumption, ZenonT(60) DEF OrderRecords
  <2>2. NoOrder.type = "none" BY DEF NoOrder
  <2> QED BY <2>1, <2>2
<1> QED BY <1>6, <1>7, <1>8 DEF a, b, c

LEMMA SwapInNat == ASSUME Types, order # NoOrder PROVE SwapIn \in Nat
<1>1. order.left \in Nat /\ order.amount \in Nat /\ order.left <= Dec(order.amount) BY OrderParts
<1> QED BY <1>1, DecNat DEF SwapIn

LEMMA TypesInit == Init => Types
<1> SUFFICES ASSUME Init PROVE Types OBVIOUS
<1>1. IsBook(tranches) /\ IsBook(inactive) BY EmptyBook DEF Init
<1>2. IsStore(users, Users \X Nat, UserRecords) /\ IsFiniteSet(DOMAIN users)
  BY FS_EmptySet DEF Init, IsStore, EmptyStore
<1>3. dex \in [Denoms -> Nat] /\ frac \in [Users \X Denoms -> Nat] BY DEF Init
<1> QED BY <1>1, <1>2, <1>3 DEF Init, Types, OrderOK

LEMMA TypesStep == ASSUME Types, DexStep PROVE Types'
<1> DEFINE Rest == /\ trancheCount' \in Nat /\ jitsInBlock' \in Nat /\ now' \in Nat \ {0} /\ restarts' \in Nat
<1>0. /\ IsBook(tranches) /\ IsBook(inactive) /\ OrderOK
      /\ IsStore(users, Users \X Nat, UserRecords) /\ IsFiniteSet(DOMAIN users)
      /\ trancheCount \in Nat /\ jitsInBlock \in Nat /\ now \in Nat \ {0} /\ restarts \in Nat
      /\ dex \in [Denoms -> Nat] /\ frac \in [Users \X Denoms -> Nat]
  BY DEF Types
<1>1. CASE OpenStep
  <2>1. OrderOK'
    <3>1. saved'[1] = tranches /\ saved'[2] = inactive BY <1>1 DEF OpenStep
    <3>2. order'.amount \in Nat /\ order'.maxOut \in Nat BY <1>1 DEF OpenStep, OrderRecords
    <3>3. Dec(order'.amount) \in Nat /\ Dec(order'.maxOut) \in Nat BY <3>2, DecNat
    <3>4. order'.left <= Dec(order'.amount) /\ order'.got <= Dec(order'.maxOut)
      BY <1>1, <3>3 DEF OpenStep
    <3> QED BY <1>0, <1>1, <3>1, <3>4 DEF OpenStep, OrderOK
  <2> QED BY <1>0, <1>1, <2>1 DEF OpenStep, Types, bank, env
<1>2. CASE \E k \in DOMAIN tranches, in \in Nat, out \in Nat, f \in BOOLEAN : SwapStep(k, in, out, f)
  <2>1. PICK k \in DOMAIN tranches, in \in Nat, out \in Nat, f \in BOOLEAN : SwapStep(k, in, out, f)
    BY <1>2
  <2>2. k \in Keys /\ tranches[k] \in TrancheRecords /\ out <= tranches[k].maker
    BY <1>0, <2>1, BookRecord DEF SwapStep
  <2>3. Swapped(tranches[k], in, out) \in TrancheRecords BY <2>2, SwappedRecord
  <2>4. IsBook(tranches') /\ IsBook(inactive')
    BY <1>0, <2>1, <2>2, <2>3, UpdatesBooks DEF SwapStep
  <2>5. OrderOK'
    <3>1. order # NoOrder /\ in <= order.left /\ saved' = saved
          /\ (order.maxOut > 0 => order.got + out <= Dec(order.maxOut))
      BY <2>1 DEF SwapStep
    <3>2. order.left \in Nat /\ order.left <= Dec(order.amount) /\ order.amount \in Nat
      BY <3>1, OrderParts
    <3>3. order.left - in <= Dec(order.amount) BY <3>1, <3>2, DecNat
    <3>4. /\ order' \in OrderRecords
          /\ order'.left = order.left - in /\ order'.got = order.got + out
          /\ order'.type = order.type /\ order'.expires = order.expires
          /\ order'.amount = order.amount /\ order'.maxOut = order.maxOut
      BY <2>1, SwappedOrder
    <3> QED BY <1>0, <3>1, <3>3, <3>4 DEF OrderOK
  <2> QED BY <1>0, <2>1, <2>4, <2>5 DEF SwapStep, Types, bank, env
<1>3. CASE \E k \in Keys, t \in TrancheRecords, u \in UserRecords, n \in Nat : FinishStep(k, t, u, n)
  <2>1. PICK k \in Keys, t \in TrancheRecords, u \in UserRecords, n \in Nat : FinishStep(k, t, u, n)
    BY <1>3
  <2>2. IsBook(tranches') /\ IsBook(inactive')
    <3>1. CASE n = 0 BY <1>0, <2>1, <3>1 DEF FinishStep
    <3>2. CASE n > 0
      <4>1. tranches' = Put(tranches, k, WithMakerOrder(t, n)) /\ inactive' = inactive
        BY <2>1, <3>2 DEF FinishStep
      <4>2. WithMakerOrder(t, n) \in TrancheRecords BY PlacedRecord
      <4> QED BY <1>0, <4>1, <4>2, BookPut
    <3> QED BY <3>1, <3>2
  <2>3. order # NoOrder BY <2>1 DEF FinishStep
  <2>4. IsStore(users', Users \X Nat, UserRecords) /\ IsFiniteSet(DOMAIN users')
    <3> DEFINE m == u.shares + n
               v == [u EXCEPT !.shares = m]
    <3>1. PlaceUserKey(k) \in Users \X Nat BY <2>3, OrderParts, KeyParts DEF PlaceUserKey
    <3>2. m \in Nat BY DEF UserRecords
    <3>3. UpdateTrancheUser(PlaceUserKey(k), v) BY <2>1 DEF FinishStep
    <3> HIDE DEF m
    <3>4. v \in UserRecords BY <3>2 DEF UserRecords
    <3> HIDE DEF v
    <3> QED BY <3>1, <3>3, <3>4, UserPut
  <2>5. dex' \in [Denoms -> Nat] /\ frac' \in [Users \X Denoms -> Nat]
    <3>1. SwapIn \in Nat /\ Dec(n) \in Nat BY <2>3, SwapInNat, DecNat
    <3>2. SwapIn + Dec(n) \in Nat BY <3>1
    <3>3. order.creator \in Users /\ order.receiver \in Users /\ order.got \in Nat /\ order.in \in Denoms
      BY <2>3, OrderParts, LimitOrdersAssumption
    <3>4. /\ CanExchange(order.creator, order.receiver, order.in, order.got, SwapIn + Dec(n))
          /\ Exchange(order.creator, order.receiver, order.in, order.got, SwapIn + Dec(n))
      BY <2>1 DEF FinishStep
    <3> QED BY <3>2, <3>3, <3>4, BankExchanges, ZenonT(60)
  <2>6. Rest /\ order' = NoOrder BY <1>0, <2>1 DEF FinishStep, env
  <2> QED BY <2>2, <2>4, <2>5, <2>6 DEF Types, OrderOK
<1>4. CASE RevertStep
  <2>1. IsBook(saved[1]) /\ IsBook(saved[2]) BY <1>0, <1>4 DEF RevertStep, OrderOK
  <2> QED BY <1>0, <1>4, <2>1 DEF RevertStep, Types, OrderOK, bank, env
<1>5. CASE \E x \in DOMAIN users, t \in TrancheRecords, u \in UserRecords, rest \in Nat, out \in Nat :
            TakeOut(x, t, u, rest, out)
  <2>1. PICK x \in DOMAIN users, t \in TrancheRecords, u \in UserRecords, rest \in Nat, out \in Nat :
            TakeOut(x, t, u, rest, out)
    BY <1>5
  <2>2. /\ order = NoOrder /\ Found(KeyOf(x)) /\ UpdateTrancheUser(x, u)
        /\ UpdateTranche(KeyOf(x), t) \/ UpdateInactiveTranche(KeyOf(x), t)
        /\ SendFromDex(x[1], Pays(KeyOf(x), rest, out))
        /\ UNCHANGED <<trancheCount, jitsInBlock, now, restarts, order, saved>>
    BY <2>1, ZenonT(60) DEF TakeOut, env
  <2>3. KeyOf(x) \in Keys /\ x \in Users \X Nat BY <2>2, UserTranche, ZenonT(60)
  <2>4. IsBook(tranches') /\ IsBook(inactive') BY <1>0, <2>2, <2>3, UpdatesBooks, ZenonT(60)
  <2>5. IsStore(users', Users \X Nat, UserRecords) /\ IsFiniteSet(DOMAIN users')
    BY <2>2, <2>3, UserPut, ZenonT(60)
  <2>6. dex' \in [Denoms -> Nat] /\ frac' \in [Users \X Denoms -> Nat]
    <3>1. x[1] \in Users BY <2>3
    <3>2. Pays(KeyOf(x), rest, out) \in [Denoms -> Nat] BY DEF Pays
    <3> QED BY <2>2, <3>1, <3>2, BankPaysOut, ZenonT(60)
  <2> QED BY <1>0, <2>2, <2>4, <2>5, <2>6, ZenonT(60) DEF Types, OrderOK
<1>6. CASE \E P \in SUBSET DOMAIN tranches : PurgeStep(P)
  <2>1. PICK P \in SUBSET DOMAIN tranches : PurgeStep(P) BY <1>6
  <2>2. IsBook(tranches')
    <3>1. tranches' = [k \in DOMAIN tranches \ P |-> tranches[k]] BY <2>1 DEF PurgeStep
    <3>2. IsFiniteSet(DOMAIN tranches \ P) BY <1>0, FS_Subset DEF IsBook
    <3> QED BY <1>0, <3>1, <3>2 DEF IsBook, IsStore
  <2>3. IsBook(inactive')
    <3>1. inactive' = [k \in DOMAIN inactive \cup P |-> IF k \in P THEN tranches[k] ELSE inactive[k]]
      BY <2>1, ZenonT(60) DEF PurgeStep
    <3>2. IsFiniteSet(DOMAIN inactive \cup P) BY <1>0, FS_Subset, FS_Union, ZenonT(60) DEF IsBook
    <3> QED BY <1>0, <3>1, <3>2 DEF IsBook, IsStore
  <2>4. frac' \in [Users \X Denoms -> Nat] BY <1>0, <2>1 DEF PurgeStep
  <2>5. Rest BY <1>0, <2>1 DEF PurgeStep
  <2> QED BY <1>0, <2>1, <2>2, <2>3, <2>4, <2>5, ZenonT(60) DEF PurgeStep, Types, OrderOK
<1>7. CASE IdleStep BY <1>0, <1>7 DEF IdleStep, Types, OrderOK
<1> QED BY <1>1, <1>2, <1>3, <1>4, <1>5, <1>6, <1>7 DEF DexStep

-----------------------------------------------------------------------------
(* LimitOrders: expirations.  A running order may fail and bring the saved *)
(* book back, so what holds of the book also has to hold of the saved one. *)

Recorded(tr) ==
    \A k \in DOMAIN tr : HasExpiration(tr[k]) => <<tr[k].expires, k>> \in expirations
JITKeys(tr) == {k \in DOMAIN tr : IsJIT(tr[k])}
JITsCounted(tr) == Cardinality(JITKeys(tr)) <= jitsInBlock

ExpiryInv ==
    /\ Recorded(tranches) /\ JITsCounted(tranches)
    /\ order # NoOrder => Recorded(saved[1]) /\ JITsCounted(saved[1])

\* A book with no new tranches and no new expirations.
Narrows(tr2, tr) ==
    DOMAIN tr2 \subseteq DOMAIN tr /\ \A k \in DOMAIN tr2 : tr2[k].expires = tr[k].expires

LEMMA UpdateNarrows ==
    ASSUME NEW k \in DOMAIN tranches, NEW t, t.expires = tranches[k].expires, UpdateTranche(k, t)
    PROVE  /\ Narrows(tranches', tranches)
           /\ ~HasTokenIn(t) => k \notin DOMAIN tranches'
           /\ \A j \in DOMAIN tranches' : j # k => tranches'[j] = tranches[j]
BY DEF UpdateTranche, Narrows, Put, Drop

LEMMA SwapNarrows ==
    ASSUME Types, NEW k \in DOMAIN tranches, NEW in \in Nat, NEW out \in Nat, NEW f \in BOOLEAN,
           SwapStep(k, in, out, f)
    PROVE  Narrows(tranches', tranches)
<1>1. tranches[k] \in TrancheRecords /\ out <= tranches[k].maker BY BookRecord DEF Types, SwapStep
<1>2. Swapped(tranches[k], in, out).expires = tranches[k].expires BY <1>1, SwappedRecord
<1> QED BY <1>2, UpdateNarrows DEF SwapStep

LEMMA TakeOutNarrows ==
    ASSUME Types, NEW x \in DOMAIN users, NEW t \in TrancheRecords, NEW u \in UserRecords,
           NEW rest \in Nat, NEW out \in Nat, TakeOut(x, t, u, rest, out)
    PROVE  /\ Narrows(tranches', tranches)
           /\ ~HasTokenIn(t) => KeyOf(x) \notin DOMAIN tranches'
<1> DEFINE k == KeyOf(x)
<1>1. CASE k \in DOMAIN tranches
  <2>1. t.expires = tranches[k].expires /\ UpdateTranche(k, t)
    BY <1>1, ZenonT(60) DEF TakeOut, FindLimitOrderTranche
  <2> QED BY <1>1, <2>1, UpdateNarrows, ZenonT(60)
<1>2. CASE k \notin DOMAIN tranches
  <2>1. tranches' = tranches BY <1>2, ZenonT(60) DEF TakeOut, UpdateInactiveTranche
  <2> QED BY <1>2, <2>1 DEF Narrows
<1> QED BY <1>1, <1>2, ZenonT(60)

LEMMA NarrowJITs ==
    ASSUME NEW tr, NEW tr2, Narrows(tr2, tr), IsFiniteSet(DOMAIN tr)
    PROVE  Cardinality(JITKeys(tr2)) <= Cardinality(JITKeys(tr))
<1>1. JITKeys(tr2) \subseteq JITKeys(tr) BY ZenonT(60) DEF Narrows, JITKeys, IsJIT
<1>2. IsFiniteSet(JITKeys(tr)) BY FS_Subset DEF JITKeys
<1> QED BY <1>1, <1>2, FS_Subset

\* The JITs after one tranche was written.
LEMMA PutJIT ==
    ASSUME NEW tr, IsFiniteSet(DOMAIN tr), NEW k, NEW t
    PROVE  /\ Cardinality(JITKeys(Put(tr, k, t))) <= Cardinality(JITKeys(tr)) + 1
           /\ ~IsJIT(t) => Cardinality(JITKeys(Put(tr, k, t))) <= Cardinality(JITKeys(tr))
           /\ Cardinality(JITKeys(tr)) \in Nat
<1> DEFINE S == JITKeys(tr)
           T == JITKeys(Put(tr, k, t))
<1>1. T \subseteq S \cup {k} /\ (~IsJIT(t) => T \subseteq S) BY DEF JITKeys, Put
<1>2. IsFiniteSet(S) BY FS_Subset DEF JITKeys
<1> HIDE DEF S, T
<1>3. Cardinality(S) \in Nat BY <1>2, FS_CardinalityType
<1>4. IsFiniteSet(S \cup {k}) /\ Cardinality(S \cup {k}) <= Cardinality(S) + 1
  BY <1>2, <1>3, FS_AddElement
<1>5. IsFiniteSet(T) /\ Cardinality(T) <= Cardinality(S \cup {k}) BY <1>1, <1>4, FS_Subset
<1>6. ~IsJIT(t) => Cardinality(T) <= Cardinality(S) BY <1>1, <1>2, FS_Subset
<1>7. Cardinality(T) \in Nat /\ Cardinality(S \cup {k}) \in Nat BY <1>4, <1>5, FS_CardinalityType
<1> QED BY <1>3, <1>4, <1>5, <1>6, <1>7 DEF S, T

\* A tranche with an expiration is only placed by an order that has it.
LEMMA PlacedExpires ==
    ASSUME Types, NEW k \in Keys, NEW t \in TrancheRecords, NEW u \in UserRecords, NEW n \in Nat,
           FinishStep(k, t, u, n)
    PROVE  /\ HasExpiration(t) => Expiring(order.type) /\ t.expires = order.expires
           /\ IsJIT(t) => order.type = "JIT"
<1>1. order # NoOrder BY DEF FinishStep
<1>2. /\ ~Expiring(order.type) => order.expires = NoExpiration
      /\ order.type = "GTT" => order.expires > 0
  BY <1>1 DEF Types, OrderOK
<1>3. \/ ~HasExpiration(t)
      \/ t = NewLimitOrderTranche(order.expires)
  BY DEF FinishStep
<1>4. CASE ~HasExpiration(t) BY <1>4 DEF HasExpiration, IsJIT, NoExpiration, JITGoodTilTime
<1>5. CASE t = NewLimitOrderTranche(order.expires)
  <2>1. t.expires = order.expires BY <1>5 DEF NewLimitOrderTranche
  <2> QED BY <1>2, <2>1 DEF HasExpiration, IsJIT, NoExpiration, JITGoodTilTime, Expiring
<1> QED BY <1>3, <1>4, <1>5, ZenonT(60)

LEMMA ExpiryInit == Init => ExpiryInv
<1> SUFFICES ASSUME Init PROVE ExpiryInv OBVIOUS
<1>1. DOMAIN tranches = {} BY DEF Init, EmptyStore
<1>2. JITKeys(tranches) = {} BY <1>1 DEF JITKeys
<1>3. Cardinality({}) = 0 BY FS_EmptySet
<1> QED BY <1>1, <1>2, <1>3 DEF Init, ExpiryInv, Recorded, JITsCounted

LEMMA ExpiryStep == ASSUME Types, ExpiryInv, DexStep PROVE ExpiryInv'
<1>0. IsFiniteSet(DOMAIN tranches) /\ jitsInBlock \in Nat BY DEF Types, IsBook
<1>a. ASSUME Narrows(tranches', tranches), jitsInBlock' = jitsInBlock PROVE JITsCounted(tranches)'
  <2>1. Cardinality(JITKeys(tranches')) <= Cardinality(JITKeys(tranches)) BY <1>0, <1>a, NarrowJITs
  <2>2. IsFiniteSet(JITKeys(tranches)) /\ IsFiniteSet(JITKeys(tranches'))
    BY <1>0, <1>a, FS_Subset DEF JITKeys, Narrows
  <2>3. Cardinality(JITKeys(tranches)) \in Nat /\ Cardinality(JITKeys(tranches')) \in Nat
    BY <2>2, FS_CardinalityType
  <2>4. Cardinality(JITKeys(tranches)) <= jitsInBlock BY DEF ExpiryInv, JITsCounted
  <2>5. Cardinality(JITKeys(tranches')) <= jitsInBlock' BY <1>0, <1>a, <2>1, <2>3, <2>4
  <2> QED BY <2>5 DEF JITsCounted, JITKeys, IsJIT
<1>b. ASSUME Narrows(tranches', tranches), expirations' = expirations PROVE Recorded(tranches)'
  BY <1>b DEF ExpiryInv, Recorded, Narrows, HasExpiration
<1>1. CASE OpenStep
  <2>1. saved'[1] = tranches BY <1>1 DEF OpenStep
  <2> QED BY <1>1, <2>1, ZenonT(60) DEF OpenStep, ExpiryInv, Recorded, JITsCounted, JITKeys, IsJIT, HasExpiration
<1>2. CASE \E k \in DOMAIN tranches, in \in Nat, out \in Nat, f \in BOOLEAN : SwapStep(k, in, out, f)
  <2>1. PICK k \in DOMAIN tranches, in \in Nat, out \in Nat, f \in BOOLEAN : SwapStep(k, in, out, f)
    BY <1>2
  <2>2. /\ UNCHANGED <<expirations, jitsInBlock, saved>> /\ order # NoOrder
    BY <2>1 DEF SwapStep
  <2>3. Recorded(tranches)' /\ JITsCounted(tranches)' BY <1>a, <1>b, <2>1, <2>2, SwapNarrows
  <2> QED BY <2>2, <2>3, ZenonT(60) DEF ExpiryInv, Recorded, JITsCounted, JITKeys, IsJIT, HasExpiration
<1>3. CASE \E k \in Keys, t \in TrancheRecords, u \in UserRecords, n \in Nat : FinishStep(k, t, u, n)
  <2>1. PICK k \in Keys, t \in TrancheRecords, u \in UserRecords, n \in Nat : FinishStep(k, t, u, n)
    BY <1>3
  <2>2. /\ order' = NoOrder
        /\ jitsInBlock' = IF order.type = "JIT" THEN jitsInBlock + 1 ELSE jitsInBlock
    BY <2>1 DEF FinishStep
  <2>3. CASE n = 0
    <3>1. UNCHANGED <<tranches, expirations>> BY <2>1, <2>3 DEF FinishStep
    <3>2. JITsCounted(tranches)'
      <4>1. IsFiniteSet(JITKeys(tranches)) BY <1>0, FS_Subset DEF JITKeys
      <4>2. Cardinality(JITKeys(tranches)) \in Nat BY <4>1, FS_CardinalityType
      <4>3. Cardinality(JITKeys(tranches)) <= jitsInBlock' BY <1>0, <2>2, <4>2 DEF ExpiryInv, JITsCounted
      <4> QED BY <3>1, <4>3 DEF JITsCounted, JITKeys, IsJIT
    <3> QED BY <2>2, <3>1, <3>2 DEF ExpiryInv, Recorded, HasExpiration
  <2>4. CASE n > 0
    <3> DEFINE w == WithMakerOrder(t, n)
    <3>1. /\ tranches' = Put(tranches, k, w)
          /\ expirations' = expirations \cup IF Expiring(order.type) THEN {<<order.expires, k>>} ELSE {}
      BY <2>1, <2>4 DEF FinishStep
    <3>2. w.expires = t.expires BY PlacedRecord
    <3>3. /\ HasExpiration(w) => Expiring(order.type) /\ w.expires = order.expires
          /\ IsJIT(w) => order.type = "JIT"
      BY <2>1, <3>2, PlacedExpires DEF HasExpiration, IsJIT
    <3> HIDE DEF w
    <3>4. Recorded(tranches)'
      <4> SUFFICES ASSUME NEW j \in DOMAIN tranches', HasExpiration(tranches'[j])
                   PROVE  <<tranches'[j].expires, j>> \in expirations'
        BY DEF Recorded, HasExpiration
      <4>1. CASE j = k
        <5>1. tranches'[j] = w BY <3>1, <4>1 DEF Put
        <5> QED BY <3>1, <3>3, <4>1, <5>1
      <4>2. CASE j # k
        <5>1. j \in DOMAIN tranches /\ tranches'[j] = tranches[j] BY <3>1, <4>2 DEF Put
        <5> QED BY <3>1, <5>1, ZenonT(60) DEF ExpiryInv, Recorded
      <4> QED BY <4>1, <4>2
    <3>5. JITsCounted(tranches)'
      <4> DEFINE T == JITKeys(tranches')
                 S == JITKeys(tranches)
      <4>1. /\ Cardinality(T) <= Cardinality(S) + 1 /\ Cardinality(S) \in Nat
            /\ ~IsJIT(w) => Cardinality(T) <= Cardinality(S)
        BY <1>0, <3>1, PutJIT
      <4>2. IsFiniteSet(T)
        <5>1. IsFiniteSet(DOMAIN tranches') BY <1>0, <3>1, FS_AddElement DEF Put
        <5> QED BY <5>1, FS_Subset DEF JITKeys
      <4>3. Cardinality(T) \in Nat BY <4>2, FS_CardinalityType
      <4>4. Cardinality(S) <= jitsInBlock BY DEF ExpiryInv, JITsCounted
      <4> HIDE DEF S, T
      <4>5. Cardinality(T) <= jitsInBlock' BY <1>0, <2>2, <3>3, <4>1, <4>3, <4>4
      <4> QED BY <4>5 DEF JITsCounted, JITKeys, IsJIT, T
    <3> QED BY <2>2, <3>4, <3>5 DEF ExpiryInv
  <2> QED BY <2>3, <2>4
<1>4. CASE RevertStep
  BY <1>4 DEF RevertStep, ExpiryInv, Recorded, JITsCounted, JITKeys, IsJIT, HasExpiration
<1>5. CASE \E x \in DOMAIN users, t \in TrancheRecords, u \in UserRecords, rest \in Nat, out \in Nat :
            TakeOut(x, t, u, rest, out)
  <2>1. PICK x \in DOMAIN users, t \in TrancheRecords, u \in UserRecords, rest \in Nat, out \in Nat :
            TakeOut(x, t, u, rest, out)
    BY <1>5
  <2>2. /\ UNCHANGED <<jitsInBlock, saved, order>> /\ order = NoOrder
        /\ \/ expirations' = expirations
           \/ expirations' = expirations \ {<<t.expires, KeyOf(x)>>} /\ ~HasTokenIn(t)
    BY <2>1, ZenonT(60) DEF TakeOut
  <2>3. Narrows(tranches', tranches) /\ (~HasTokenIn(t) => KeyOf(x) \notin DOMAIN tranches')
    BY <2>1, TakeOutNarrows
  <2>4. Recorded(tranches)'
    <3>1. CASE expirations' = expirations BY <1>b, <2>3, <3>1
    <3>2. CASE expirations' = expirations \ {<<t.expires, KeyOf(x)>>} /\ ~HasTokenIn(t)
      BY <2>3, <3>2, ZenonT(60) DEF ExpiryInv, Recorded, Narrows, HasExpiration
    <3> QED BY <2>2, <3>1, <3>2
  <2> QED BY <1>a, <2>2, <2>3, <2>4, ZenonT(60) DEF ExpiryInv
<1>6. CASE \E P \in SUBSET DOMAIN tranches : PurgeStep(P)
  <2>1. PICK P \in SUBSET DOMAIN tranches : PurgeStep(P) BY <1>6
  <2>2. /\ order' = NoOrder /\ jitsInBlock' = 0
        /\ tranches' = [k \in DOMAIN tranches \ P |-> tranches[k]]
    BY <2>1 DEF PurgeStep
  <2>3. ExpirationsRecorded BY DEF ExpiryInv, Recorded, ExpirationsRecorded
  <2>4. \A k \in DOMAIN tranches \ P :
            /\ HasExpiration(tranches[k]) => <<tranches[k].expires, k>> \in expirations'
            /\ ~IsJIT(tranches[k])
    BY <2>1, <2>3 DEF PurgeStep
  <2>5. Recorded(tranches)' BY <2>2, <2>4 DEF Recorded, HasExpiration
  <2>6. JITKeys(tranches)' = {} BY <2>2, <2>4, ZenonT(60) DEF JITKeys, IsJIT
  <2>7. Cardinality({}) = 0 BY FS_EmptySet
  <2> QED BY <2>2, <2>5, <2>6, <2>7 DEF ExpiryInv, JITsCounted
<1>7. CASE IdleStep
  BY <1>7, ZenonT(60) DEF IdleStep, ExpiryInv, Recorded, JITsCounted, JITKeys, IsJIT, HasExpiration
<1> QED BY <1>1, <1>2, <1>3, <1>4, <1>5, <1>6, <1>7 DEF DexStep

-----------------------------------------------------------------------------
(* LimitOrders: the book is never crossed, provided a larger tick has a    *)
(* price that is no smaller, as CalcPrice has it, and decimals have at     *)
(* least two bits: 10^27 units in the code.                                *)

PricesRise ==
    /\ \A s, t \in Ticks \cup {-t : t \in Ticks} : s <= t => Prices[s] <= Prices[t]
    /\ Precision >= 4

Uncrossed(tr) ==
    \A j, k \in DOMAIN tr :
        (j[1] = 0 /\ k[1] = 1 /\ ~IsExpired(tr[j]) /\ ~IsExpired(tr[k])) => j[2] + k[2] > 0

\* An order that is not filled has exhausted the tranches it met.
CrossInv ==
    /\ Uncrossed(tranches)
    /\ order # NoOrder =>
        Uncrossed(saved[1]) /\ (~order.filled => order.seen \cap DOMAIN tranches = {})

LEMMA NarrowUncrossed ==
    ASSUME Uncrossed(tranches), Narrows(tranches', tranches), now \in Nat, now' \in {now, now + 1},
           IsBook(tranches)
    PROVE  Uncrossed(tranches)'
<1>1. ASSUME NEW k \in DOMAIN tranches' PROVE k \in DOMAIN tranches /\ (IsExpired(tranches[k]) => IsExpired(tranches[k])')
  <2>1. k \in DOMAIN tranches /\ tranches'[k].expires = tranches[k].expires BY DEF Narrows
  <2>2. tranches[k].expires \in Int BY <2>1, BookRecord
  <2> QED BY <2>1, <2>2 DEF IsExpired, HasExpiration, IsJIT
<1> QED BY <1>1, ZenonT(60) DEF Uncrossed

LEMMA CrossInit == Init => CrossInv
BY DEF Init, CrossInv, Uncrossed, EmptyStore

LEMMA CrossStep == ASSUME PricesRise, Types, CrossInv, DexStep PROVE CrossInv'
<1>0. IsBook(tranches) /\ now \in Nat BY DEF Types
<1>1. CASE OpenStep
  <2>1. saved'[1] = tranches BY <1>1, ZenonT(60) DEF OpenStep
  <2>2. order'.seen \cap DOMAIN tranches' = {} BY <1>1 DEF OpenStep
  <2> QED BY <1>1, <2>1, <2>2 DEF OpenStep, CrossInv, Uncrossed, IsExpired, HasExpiration, IsJIT, env
<1>2. CASE \E k \in DOMAIN tranches, in \in Nat, out \in Nat, f \in BOOLEAN : SwapStep(k, in, out, f)
  <2>1. PICK k \in DOMAIN tranches, in \in Nat, out \in Nat, f \in BOOLEAN : SwapStep(k, in, out, f)
    BY <1>2
  <2>2. /\ now' = now /\ saved' = saved /\ order # NoOrder /\ ~order.filled
        /\ UpdateTranche(k, Swapped(tranches[k], in, out))
        /\ out <= tranches[k].maker /\ (f \/ out = tranches[k].maker)
    BY <2>1 DEF SwapStep, env, PricesRise
  <2>3. Narrows(tranches', tranches) BY <2>1, SwapNarrows
  <2>4. Uncrossed(tranches)' BY <1>0, <2>2, <2>3, NarrowUncrossed DEF CrossInv
  <2>5. ~f => k \notin DOMAIN tranches'
    <3>1. tranches[k] \in TrancheRecords /\ tranches[k].maker \in Nat BY <1>0, BookRecord
    <3>2. ~f => Swapped(tranches[k], in, out).maker = 0 BY <2>2, <3>1, SwappedRecord
    <3> QED BY <2>2, <3>2 DEF UpdateTranche, HasTokenIn, Drop
  <2>6. order'.seen = order.seen \cup {k} /\ order'.filled = f BY <2>1, SwappedOrder
  <2>7. order.seen \cap DOMAIN tranches = {} BY <2>2 DEF CrossInv
  <2>8. ~order'.filled => order'.seen \cap DOMAIN tranches' = {}
    BY <2>3, <2>5, <2>6, <2>7 DEF Narrows
  <2>9. Uncrossed(saved[1])' BY <2>2, ZenonT(60) DEF CrossInv, Uncrossed, IsExpired, HasExpiration, IsJIT
  <2> QED BY <2>4, <2>8, <2>9 DEF CrossInv
<1>3. CASE \E k \in Keys, t \in TrancheRecords, u \in UserRecords, n \in Nat : FinishStep(k, t, u, n)
  <2>1. PICK k \in Keys, t \in TrancheRecords, u \in UserRecords, n \in Nat : FinishStep(k, t, u, n)
    BY <1>3
  <2>2. order' = NoOrder /\ now' = now /\ order # NoOrder BY <2>1 DEF FinishStep, env
  <2>3. CASE n = 0
    <3>1. tranches' = tranches BY <2>1, <2>3 DEF FinishStep
    <3> QED BY <2>2, <3>1, ZenonT(60) DEF CrossInv, Uncrossed, IsExpired, HasExpiration, IsJIT
  <2>4. CASE n > 0
    <3>1. /\ ~order.filled /\ Liquidity = {} /\ k[1] = order.in /\ k[2] = -order.tick
          /\ tranches' = Put(tranches, k, WithMakerOrder(t, n))
      BY <2>1, <2>4 DEF FinishStep
    <3>2. order.in \in {0, 1} /\ order.tick \in Ticks BY <2>2, OrderParts
    <3>3. ASSUME NEW j \in DOMAIN tranches, j[1] = Other(order.in), ~IsExpired(tranches[j])
          PROVE  j[2] + k[2] > 0
      <4>1. j \notin order.seen BY <2>2, <3>1 DEF CrossInv
      <4>2. ~(Price(j) <= Prices[order.tick]) BY <3>1, <3>3, <4>1, ZenonT(60) DEF Liquidity
      <4>3. j \in Keys BY <1>0, BookRecord
      <4>4. j[2] \in BookTicks BY <4>3, KeyParts
      <4>5. Ticks \subseteq Int BY LimitOrdersAssumption
      <4>a. BookTicks \subseteq Int BY <4>5 DEF BookTicks
      <4>6. j[2] \in Int /\ order.tick \in Int BY <3>2, <4>4, <4>5, <4>a, ZenonT(60)
      <4>7. ~(j[2] <= order.tick) BY <3>2, <4>2, <4>4 DEF PricesRise, Price, BookTicks
      <4> QED BY <3>1, <4>6, <4>7
    <3>4. ASSUME NEW j \in DOMAIN tranches', j # k
          PROVE  j \in DOMAIN tranches /\ tranches'[j] = tranches[j]
      BY <3>1, <3>4 DEF Put
    <3>5. Uncrossed(tranches)'
      <4> SUFFICES ASSUME NEW i \in DOMAIN tranches', NEW j \in DOMAIN tranches', i[1] = 0, j[1] = 1,
                          ~IsExpired(tranches'[i]), ~IsExpired(tranches'[j])
                   PROVE  i[2] + j[2] > 0
        BY <2>2 DEF Uncrossed, IsExpired, HasExpiration, IsJIT
      <4>1. CASE i = k
        <5>1. j # k /\ order.in = 0 BY <3>1, <4>1
        <5>2. j[1] = Other(order.in) BY <5>1 DEF Other
        <5>3. j \in DOMAIN tranches /\ ~IsExpired(tranches[j]) BY <3>4, <5>1
        <5>4. j[2] + k[2] > 0 BY <3>3, <5>2, <5>3
        <5>5. j \in Keys BY <1>0, <5>3, BookRecord
        <5>6. j[2] \in Int /\ k[2] \in Int BY <5>5, KeyParts, LimitOrdersAssumption DEF BookTicks
        <5> QED BY <4>1, <5>4, <5>6
      <4>2. CASE j = k
        <5>1. i # k /\ order.in = 1 BY <3>1, <4>2
        <5>2. i[1] = Other(order.in) BY <5>1 DEF Other
        <5>3. i \in DOMAIN tranches /\ ~IsExpired(tranches[i]) BY <3>4, <5>1
        <5> QED BY <3>3, <4>2, <5>2, <5>3
      <4>3. CASE i # k /\ j # k
        BY <3>4, <4>3 DEF CrossInv, Uncrossed
      <4> QED BY <4>1, <4>2, <4>3
    <3> QED BY <2>2, <3>5 DEF CrossInv
  <2> QED BY <2>3, <2>4
<1>4. CASE RevertStep
  BY <1>4, ZenonT(60) DEF RevertStep, CrossInv, Uncrossed, IsExpired, HasExpiration, IsJIT, env
<1>5. CASE \E x \in DOMAIN users, t \in TrancheRecords, u \in UserRecords, rest \in Nat, out \in Nat :
            TakeOut(x, t, u, rest, out)
  <2>1. Narrows(tranches', tranches) BY <1>5, TakeOutNarrows
  <2>2. now' = now /\ order' = NoOrder BY <1>5 DEF TakeOut, env
  <2> QED BY <1>0, <2>1, <2>2, NarrowUncrossed, ZenonT(60) DEF CrossInv
<1>6. CASE \E P \in SUBSET DOMAIN tranches : PurgeStep(P)
  <2>1. Narrows(tranches', tranches) BY <1>6 DEF PurgeStep, Narrows
  <2>2. now' = now + 1 /\ order' = NoOrder BY <1>6 DEF PurgeStep
  <2> QED BY <1>0, <2>1, <2>2, NarrowUncrossed, ZenonT(60) DEF CrossInv
<1>7. CASE IdleStep
  BY <1>7, ZenonT(60) DEF IdleStep, CrossInv, Uncrossed, IsExpired, HasExpiration, IsJIT
<1> QED BY <1>1, <1>2, <1>3, <1>4, <1>5, <1>6, <1>7 DEF DexStep

-----------------------------------------------------------------------------
(* LimitOrders: the two stores share no key, and every key was issued, as  *)
(* long as the tranche count was not lost in a restart.                    *)

Fresh(tr, ina) ==
    /\ DOMAIN tr \cap DOMAIN ina = {}
    /\ \A k \in DOMAIN tr \cup DOMAIN ina : k[3] < trancheCount

FreshInv ==
    restarts = 0 =>
        /\ Fresh(tranches, inactive)
        /\ order # NoOrder => Fresh(saved[1], saved[2])
        /\ \A x \in DOMAIN users : x[2] < trancheCount

LEMMA UpdateFresh ==
    ASSUME Fresh(tranches, inactive), NEW k \in DOMAIN tranches, NEW t, UpdateTranche(k, t),
           trancheCount' = trancheCount
    PROVE  Fresh(tranches, inactive)'
<1>1. CASE HasTokenIn(t)
  <2>1. DOMAIN tranches' = DOMAIN tranches /\ inactive' = inactive
    BY <1>1 DEF UpdateTranche, Put
  <2> QED BY <2>1 DEF Fresh
<1>2. CASE ~HasTokenIn(t)
  <2>1. DOMAIN tranches' = DOMAIN tranches \ {k} /\ DOMAIN inactive' \subseteq DOMAIN inactive \cup {k}
    BY <1>2 DEF UpdateTranche, Put, Drop
  <2> QED BY <2>1 DEF Fresh
<1> QED BY <1>1, <1>2

LEMMA FreshInit == Init => FreshInv
BY DEF Init, FreshInv, Fresh, EmptyStore

LEMMA FreshStep == ASSUME Types, FreshInv, DexStep PROVE FreshInv'
<1>0. restarts \in Nat /\ trancheCount \in Nat BY DEF Types
<1> SUFFICES ASSUME restarts' = 0
             PROVE  /\ Fresh(tranches, inactive)'
                    /\ (order # NoOrder => Fresh(saved[1], saved[2]))'
                    /\ \A x \in DOMAIN users' : x[2] < trancheCount'
  BY ZenonT(60) DEF FreshInv
<1>1. CASE OpenStep
  <2>1. saved'[1] = tranches /\ saved'[2] = inactive /\ restarts = 0 BY <1>1 DEF OpenStep, env
  <2> QED BY <1>1, <2>1, ZenonT(60) DEF OpenStep, FreshInv, Fresh
<1>2. CASE \E k \in DOMAIN tranches, in \in Nat, out \in Nat, f \in BOOLEAN : SwapStep(k, in, out, f)
  <2>1. PICK k \in DOMAIN tranches, in \in Nat, out \in Nat, f \in BOOLEAN : SwapStep(k, in, out, f)
    BY <1>2
  <2>2. /\ restarts = 0 /\ order # NoOrder /\ UNCHANGED <<trancheCount, users, saved>>
        /\ UpdateTranche(k, Swapped(tranches[k], in, out))
    BY <2>1 DEF SwapStep, env
  <2>3. Fresh(tranches, inactive)' BY <2>2, UpdateFresh DEF FreshInv
  <2> QED BY <2>2, <2>3, ZenonT(60) DEF FreshInv, Fresh
<1>3. CASE \E k \in Keys, t \in TrancheRecords, u \in UserRecords, n \in Nat : FinishStep(k, t, u, n)
  <2>1. PICK k \in Keys, t \in TrancheRecords, u \in UserRecords, n \in Nat : FinishStep(k, t, u, n)
    BY <1>3
  <2>2. /\ restarts = 0 /\ order' = NoOrder
        /\ \/ k \in DOMAIN tranches /\ trancheCount' = trancheCount
           \/ k[3] = trancheCount /\ trancheCount' = trancheCount + 1
        /\ UpdateTrancheUser(PlaceUserKey(k), [u EXCEPT !.shares = u.shares + n])
    BY <2>1 DEF FinishStep, env
  <2>a. Fresh(tranches, inactive) /\ \A x \in DOMAIN users : x[2] < trancheCount
    BY <2>2 DEF FreshInv
  <2>b. \A j \in DOMAIN tranches \cup DOMAIN inactive : j[3] \in Nat
    BY BookRecord, KeyParts DEF Types
  <2>3. k[3] < trancheCount' /\ trancheCount' \in Nat /\ k \notin DOMAIN inactive
        /\ (trancheCount' = trancheCount \/ trancheCount' = trancheCount + 1)
    BY <1>0, <2>2, <2>a, <2>b DEF Fresh
  <2>4. DOMAIN tranches' \subseteq DOMAIN tranches \cup {k} /\ inactive' = inactive
    <3>1. CASE n = 0 BY <2>1, <3>1 DEF FinishStep
    <3>2. CASE n > 0 BY <2>1, <3>2 DEF FinishStep, Put
    <3> QED BY <3>1, <3>2
  <2>5. Fresh(tranches, inactive)'
    <3>1. \A j \in DOMAIN tranches \cup DOMAIN inactive : j[3] < trancheCount'
      BY <1>0, <2>3, <2>a, <2>b DEF Fresh
    <3> QED BY <2>3, <2>4, <2>a, <3>1 DEF Fresh
  <2>6. DOMAIN users' \subseteq DOMAIN users \cup {PlaceUserKey(k)}
    BY <2>2 DEF UpdateTrancheUser, Put, Drop
  <2>7. \A x \in DOMAIN users : x[2] \in Nat BY DEF Types, IsStore
  <2>8. PlaceUserKey(k)[2] = k[3] BY DEF PlaceUserKey
  <2>9. \A x \in DOMAIN users' : x[2] < trancheCount'
    <3>1. \A x \in DOMAIN users : x[2] < trancheCount' BY <1>0, <2>3, <2>7, <2>a
    <3> QED BY <2>3, <2>6, <2>8, <3>1
  <2> QED BY <2>2, <2>5, <2>9
<1>4. CASE RevertStep BY <1>4 DEF RevertStep, FreshInv, Fresh, env
<1>5. CASE \E x \in DOMAIN users, t \in TrancheRecords, u \in UserRecords, rest \in Nat, out \in Nat :
            TakeOut(x, t, u, rest, out)
  <2>1. PICK x \in DOMAIN users, t \in TrancheRecords, u \in UserRecords, rest \in Nat, out \in Nat :
            TakeOut(x, t, u, rest, out)
    BY <1>5
  <2>2. /\ restarts = 0 /\ order' = NoOrder /\ trancheCount' = trancheCount
        /\ UpdateTrancheUser(x, u) /\ Found(KeyOf(x))
        /\ IF KeyOf(x) \in DOMAIN tranches THEN UpdateTranche(KeyOf(x), t) ELSE UpdateInactiveTranche(KeyOf(x), t)
    BY <2>1, ZenonT(60) DEF TakeOut, env
  <2>3. Fresh(tranches, inactive)'
    <3>1. CASE KeyOf(x) \in DOMAIN tranches BY <2>2, <3>1, UpdateFresh, ZenonT(60) DEF FreshInv
    <3>2. CASE KeyOf(x) \notin DOMAIN tranches
      <4>1. KeyOf(x) \in DOMAIN inactive BY <2>2, <3>2, ZenonT(60) DEF Found
      <4>2. tranches' = tranches /\ DOMAIN inactive' \subseteq DOMAIN inactive
        BY <2>2, <3>2, <4>1, ZenonT(60) DEF UpdateInactiveTranche, Put, Drop
      <4> QED BY <2>2, <4>2, ZenonT(60) DEF FreshInv, Fresh
    <3> QED BY <3>1, <3>2
  <2>4. DOMAIN users' \subseteq DOMAIN users BY <2>2 DEF UpdateTrancheUser, Put, Drop
  <2> QED BY <2>2, <2>3, <2>4, ZenonT(60) DEF FreshInv
<1>6. CASE \E P \in SUBSET DOMAIN tranches : PurgeStep(P)
  <2>1. PICK P \in SUBSET DOMAIN tranches : PurgeStep(P) BY <1>6
  <2>2. /\ restarts = 0 /\ trancheCount' = trancheCount /\ order' = NoOrder /\ users' = users
        /\ DOMAIN tranches' = DOMAIN tranches \ P /\ DOMAIN inactive' = DOMAIN inactive \cup P
    BY <1>0, <2>1 DEF PurgeStep
  <2> QED BY <2>2 DEF FreshInv, Fresh
<1>7. CASE IdleStep BY <1>7, ZenonT(60) DEF IdleStep, FreshInv, Fresh
<1> QED BY <1>1, <1>2, <1>3, <1>4, <1>5, <1>6, <1>7, ZenonT(60) DEF DexStep

-----------------------------------------------------------------------------
\* The books, the tranche users and the running order keep their types.
THEOREM DexTypes == Spec => []Types
<1>1. ASSUME Types, [Next]_vars PROVE Types' BY <1>1, EveryDexStep, TypesStep
<1> QED BY <1>1, TypesInit, PTL DEF Spec

\* Every active tranche that expires has its expiration record, whatever swaps,
\* cancels, reverts and restarts happened, so that the purge finds it.
THEOREM ExpirationsAreRecorded == Spec => []ExpirationsRecorded
<1>1. ASSUME Types, ExpiryInv, [Next]_vars PROVE ExpiryInv' BY <1>1, EveryDexStep, ExpiryStep
<1>2. ExpiryInv => ExpirationsRecorded BY ZenonT(60) DEF ExpiryInv, Recorded, ExpirationsRecorded
<1> QED BY <1>1, <1>2, ExpiryInit, DexTypes, PTL DEF Spec

\* The active JIT tranches were all placed in the current block.
THEOREM JITsLeave == Spec => []JITsLiveOneBlock
<1>1. ASSUME Types, ExpiryInv, [Next]_vars PROVE ExpiryInv' BY <1>1, EveryDexStep, ExpiryStep
<1>2. ExpiryInv => JITsLiveOneBlock BY ZenonT(60) DEF ExpiryInv, JITsCounted, JITKeys, JITsLiveOneBlock
<1> QED BY <1>1, <1>2, ExpiryInit, DexTypes, PTL DEF Spec

\* When prices rise with ticks, no order leaves tranches on both sides of the
\* book that would trade with each other.
THEOREM BookStaysUncrossed == PricesRise => (Spec => []BookNotCrossed)
<1> SUFFICES ASSUME PricesRise PROVE Spec => []BookNotCrossed OBVIOUS
<1>1. ASSUME Types, CrossInv, [Next]_vars PROVE CrossInv' BY <1>1, EveryDexStep, CrossStep
<1>2. CrossInv => BookNotCrossed BY DEF CrossInv, Uncrossed, BookNotCrossed
<1> QED BY <1>1, <1>2, CrossInit, DexTypes, PTL DEF Spec

\* Before a restart the tranche keys are new, and no tranche is on both books.
THEOREM TranchesAreFresh == Spec => []FreshInv
<1>1. ASSUME Types, FreshInv, [Next]_vars PROVE FreshInv' BY <1>1, EveryDexStep, FreshStep
<1> QED BY <1>1, FreshInit, DexTypes, PTL DEF Spec

=============================================================================
