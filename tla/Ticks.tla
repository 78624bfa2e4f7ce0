--------------------------------- MODULE Ticks ---------------------------------
(***************************************************************************)
(* x/dex/types/price.go: from a price to a tick.  Only the prices of the   *)
(* ticks 0..MaxTickExp are tabulated; a price below one is inverted, with  *)
(* rounding, and its tick negated.  The tick is found by a binary search,  *)
(* one pass of its loop per step here, so that what the loop keeps true    *)
(* can be stated and proved for tables of any length.                      *)
(***************************************************************************)
EXTENDS PrecDec

CONSTANTS
    MaxTickExp,             \* the largest tick of the table
    PrecomputedPrices,      \* the table, as decimals
    SellPrices              \* the LimitSellPrices of orders

VARIABLES
    price,      \* the argument of CalcTickIndexFromPrice
    left,       \* the bounds of the search
    right,
    tick        \* what BinarySearchPriceToTick returns, or None

searchVars == <<price, left, right, tick>>

None == -1
TableTicks == 0..MaxTickExp

CalcPrice(t) == IF t < 0 THEN Quo(One, PrecomputedPrices[-t]) ELSE PrecomputedPrices[t]

MaxPrice == CalcPrice(MaxTickExp)
MinPrice == CalcPrice(-MaxTickExp)
IsPriceOutOfRange(p) == p > MaxPrice \/ p < MinPrice

\* What the code relies on: the prices of the table rise from one (that no two
\* are equal is tested by TestPriceDups), and the smallest price is not zero.
TableRises ==
    /\ MaxTickExp \in Nat \ {0}
    /\ PrecomputedPrices \in [TableTicks -> Nat]
    /\ PrecomputedPrices[0] = One
    /\ \A s, t \in TableTicks : s < t => PrecomputedPrices[s] < PrecomputedPrices[t]
    /\ MinPrice > 0

ASSUME TicksAssumption == TableRises /\ SellPrices \subseteq Int

\* The price that is looked up: the inverted one for a price below one.
lookup == IF price < One THEN Quo(One, price) ELSE price

mid == (left + right) \div 2
Distance(t) == IF PrecomputedPrices[t] <= lookup THEN lookup - PrecomputedPrices[t]
                                                 ELSE PrecomputedPrices[t] - lookup

-----------------------------------------------------------------------------
(* PlaceLimitOrder inverts the sell price; a price out of range is refused. *)
SearchInit ==
    /\ \E sell \in SellPrices :
        /\ ~IsPriceOutOfRange(sell)
        /\ price = Quo(One, sell)
        /\ ~IsPriceOutOfRange(price)
    /\ left = 0
    /\ right = MaxTickExp
    /\ tick = None

Searching == tick = None /\ left < right
AtMid == PrecomputedPrices[mid] = lookup

ReturnMid ==
    /\ Searching /\ AtMid
    /\ tick' = mid
    /\ UNCHANGED <<price, left, right>>

GoRight ==
    /\ Searching /\ ~AtMid /\ right - left # 1
    /\ PrecomputedPrices[mid] < lookup
    /\ left' = mid + 1
    /\ UNCHANGED <<price, right, tick>>

GoLeft ==
    /\ Searching /\ ~AtMid /\ right - left # 1
    /\ PrecomputedPrices[mid] > lookup
    /\ right' = mid - 1
    /\ UNCHANGED <<price, left, tick>>

\* Mutant: the upper bound.
RoundUp ==
    /\ tick = None
    /\ left < right => right - left = 1 /\ ~AtMid
    /\ tick' = right
    /\ UNCHANGED <<price, left, right>>

\* Below the loop: reached when the bounds meet, or are neighbours.
Round ==
    /\ tick = None
    /\ left < right => right - left = 1 /\ ~AtMid
    /\ tick' = IF Distance(left) < Distance(right) THEN left ELSE right
    /\ UNCHANGED <<price, left, right>>

SearchNext == ReturnMid \/ GoRight \/ GoLeft \/ Round

Search == SearchInit /\ [][SearchNext]_searchVars

-----------------------------------------------------------------------------
\* The loop keeps the bounds inside the table, in order, and one tick wider
\* than the price: the tick below left is too cheap, the tick above right too
\* dear.  Neither left = mid + 1 nor right = mid - 1 leaves the table, so the
\* uint64 subtraction cannot wrap.
LoopInvariant ==
    /\ left \in TableTicks /\ right \in TableTicks /\ left <= right
    /\ left > 0 => PrecomputedPrices[left - 1] < lookup
    /\ right < MaxTickExp => lookup < PrecomputedPrices[right + 1]

\* The tick returned is one of the two around the price: the price lies
\* strictly between the tick below it and the tick above it, although the
\* search discards each tick that it has looked at.
WithinOneTick ==
    tick # None =>
        /\ tick \in TableTicks
        /\ tick > 0 => PrecomputedPrices[tick - 1] < lookup
        /\ tick < MaxTickExp => lookup < PrecomputedPrices[tick + 1]

\* A price of the table is found at its own tick.
ExactTick ==
    tick # None => \A t \in TableTicks : PrecomputedPrices[t] = lookup => tick = t

=============================================================================
