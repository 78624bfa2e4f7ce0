------------------------------ MODULE LimitOrders ------------------------------
(***************************************************************************)
(* x/dex: the limit orders of one pair of tokens.  Makers put reserves     *)
(* into tranches of the order book, takers swap against them tick by tick, *)
(* makers withdraw what was filled or cancel, expired tranches are purged  *)
(* at the beginning of a block.                                            *)
(*                                                                         *)
(* A tranche key is <<side, tick, n>>: the tranche sells token side for    *)
(* the other token, tick counts from the taker's token to the maker's, so  *)
(* that a larger tick is a worse price for the taker, and n is the n of    *)
(* the code's "tk-n".  Reserves are decimals, shares whole tokens.         *)
(*                                                                         *)
(* PlaceLimitOrder is one message but swaps in a loop: the loop is a       *)
(* sequence of steps during which order # NoOrder and nothing else runs;   *)
(* saved is the book that a failing message goes back to.                  *)
(***************************************************************************)
EXTENDS FractionalBanker

CONSTANTS Parties,        \* the pairs <<creator, receiver>> of orders
          Ticks,          \* limit ticks, from the token in to the token out
          Prices,         \* CalcPrice on Ticks and their negatives
          Amounts,        \* whole tokens of an order
          OrderTypes,     \* of "GTC", "GTT", "JIT", "IOC", "FOK"
          MaxAmountsOut,  \* MaxAmountOut of takers; 0: not given
          MinSellPrices,  \* MinAverageSellPrice; 0: not given
          InitialBalance,
          ParamChoices,   \* records [mode, maxJits]
          Dust,           \* units of rounding allowed per tranche
          MaxTranches,    \* bound: tranche keys issued
          MaxTime,        \* bound: block times
          MaxRestarts     \* bound: restarts from an exported genesis

Other(d) == 1 - d
Modes == {"open", "withdrawOnly", "paused"}
NoExpiration == -1
JITGoodTilTime == 0
NoOrder == [type |-> "none"]

ASSUME LimitOrdersAssumption ==
    /\ Denoms = {0, 1} /\ Parties \subseteq Users \X Users
    /\ Ticks \subseteq Int /\ Amounts \subseteq Nat \ {0}
    /\ OrderTypes \subseteq {"GTC", "GTT", "JIT", "IOC", "FOK"}
    /\ Prices \in [Ticks \cup {-t : t \in Ticks} -> Nat \ {0}]
    /\ MaxAmountsOut \subseteq Nat /\ MinSellPrices \subseteq Nat
    /\ ParamChoices \subseteq [mode : Modes, maxJits : Nat]
    /\ InitialBalance \in Nat /\ Dust \in Nat
    /\ MaxTranches \in Nat /\ MaxTime \in Nat /\ MaxRestarts \in Nat

VARIABLES tranches,     \* store: key -> active tranche
          inactive,     \* store: key -> inactive tranche
          users,        \* store: <<user, n>> -> tranche user
          expirations,  \* set of <<time, key>>
          trancheCount, jitsInBlock,
          now, params, restarts,
          order,        \* the order being executed, or NoOrder
          saved         \* <<tranches, inactive>> before that order

env == <<now, params, restarts>>
vars == <<tranches, inactive, users, expirations, trancheCount, jitsInBlock,
          dex, wallet, frac, now, params, restarts, order, saved>>

Sides == Denoms
BookTicks == {-t : t \in Ticks}
Price(k) == Prices[k[2]]
TakerOnly(type) == type \in {"IOC", "FOK"}
Expiring(type) == type \in {"GTT", "JIT"}

-----------------------------------------------------------------------------
(* types/limit_order_tranche.go *)

NewLimitOrderTranche(exp) ==
    [maker |-> 0, taker |-> 0, totalMaker |-> 0, totalTaker |-> 0, expires |-> exp]

HasTokenIn(t) == t.maker > 0
HasTokenOut(t) == t.taker > 0
IsPlaceTranche(t) == t.maker = Dec(t.totalMaker)
HasExpiration(t) == t.expires # NoExpiration
IsJIT(t) == t.expires = JITGoodTilTime
IsExpired(t) == HasExpiration(t) /\ ~IsJIT(t) /\ t.expires <= now

\* DecTotalTakerDenom in the maker's token
AmountFilled(k, t) == Quo(t.totalTaker, Price(k))
RatioFilled(k, t) == MinDec(QuoInt(AmountFilled(k, t), t.totalMaker), One)
AmountUnfilled(k, t) == MaxDec(0, Dec(t.totalMaker) - AmountFilled(k, t))

\* What RemoveTokenIn gives tranche user u
MakerClaim(k, t, u) == QuoInt(MulInt(AmountUnfilled(k, t), u.shares), t.totalMaker)
TokenIn(k, t, u) == MinDec(MakerClaim(k, t, u), t.maker)

\* CalcWithdrawAmount

\* Mutant: earlier withdrawals are forgotten.
SharesOfRatio(k, t, u) == MulInt(RatioFilled(k, t), u.shares)

SharesToWithdraw(k, t, u) == MaxDec(0, MulInt(RatioFilled(k, t), u.shares) - u.withdrawn)
TakerClaim(k, t, u) == Mul(SharesToWithdraw(k, t, u), Price(k))
TokenOut(k, t, u) == MinDec(TakerClaim(k, t, u), t.taker)

\* Swap against t with the taker's remaining tokens in; maxOut < 0: no maximum
OutAmount(k, t, in, maxOut) ==
    LET out == MinDec(t.maker, Quo(in, Price(k)))
    IN  IF maxOut < 0 THEN out ELSE MinDec(out, maxOut)

InAmount(k, in, out) == MinDec(Mul(Price(k), out), in)

Swapped(t, in, out) ==
    [t EXCEPT !.taker = @ + in, !.maker = @ - out, !.totalTaker = @ + in]

\* PlaceMakerLimitOrder
WithMakerOrder(t, n) == [t EXCEPT !.maker = @ + Dec(n), !.totalMaker = @ + n]

-----------------------------------------------------------------------------
(* The stores of tranches and tranche users. *)

\* Tranche keys sort as the strings "tk-n/": by digits, not by value.
Digits(n) == IF n < 10 THEN 1 ELSE CHOOSE d \in 2..20 : 10 ^ (d - 1) <= n /\ n < 10 ^ d
TrancheKeyLess(m, n) ==
    LET x == m * 10 ^ Digits(n)
        y == n * 10 ^ Digits(m)
    IN  x < y \/ (x = y /\ m < n)

\* The order of the store: side, tick, key.
KeyLess(j, k) ==
    \/ j[1] < k[1]
    \/ j[1] = k[1] /\ j[2] < k[2]
    \/ j[1] = k[1] /\ j[2] = k[2] /\ TrancheKeyLess(j[3], k[3])

IsFirst(k, S) == \A j \in S \ {k} : KeyLess(k, j)

\* UpdateTranche
UpdateTranche(k, t) ==
    /\ tranches' = IF HasTokenIn(t) THEN Put(tranches, k, t) ELSE Drop(tranches, k)
    /\ inactive' = IF ~HasTokenIn(t) /\ HasTokenOut(t) THEN Put(inactive, k, t) ELSE inactive

UpdateInactiveTranche(k, t) ==
    /\ inactive' = IF HasTokenIn(t) \/ HasTokenOut(t) THEN Put(inactive, k, t) ELSE Drop(inactive, k)
    /\ UNCHANGED tranches

\* FindLimitOrderTranche
WasFilled(k) == k \notin DOMAIN tranches
FindLimitOrderTranche(k) == IF k \in DOMAIN tranches THEN tranches[k] ELSE inactive[k]
Found(k) == k \in DOMAIN tranches \cup DOMAIN inactive

KeyOf(x) == <<users[x].side, users[x].tick, x[2]>>
IsEmpty(u) == u.withdrawn = Dec(u.shares)

\* Mutant: a tranche user is never deleted.
KeepTrancheUser(x, u) == users' = Put(users, x, u)

\* UpdateTrancheUser
UpdateTrancheUser(x, u) ==
    users' = IF IsEmpty(u) THEN Drop(users, x) ELSE Put(users, x, u)

-----------------------------------------------------------------------------
\* A payment of x in denomination d.
Only(d, x) == [e \in Denoms |-> IF e = d THEN x ELSE 0]

SendFromDex(a, out) == CanSendFromDex(Balances, a, out) /\ SetBalances(SentFromDex(Balances, a, out))

\* PlaceLimitOrderCore sends out to r, then takes in from c, in the other token d.
AfterOut(r, d, out) == SentFromDex(Balances, r, Only(Other(d), out))

CanExchange(c, r, d, out, in) ==
    /\ CanSendFromDex(Balances, r, Only(Other(d), out))
    /\ CanSendToDex(AfterOut(r, d, out), c, Only(d, in))

Exchange(c, r, d, out, in) == SetBalances(SentToDex(AfterOut(r, d, out), c, Only(d, in)))

-----------------------------------------------------------------------------
(* MsgPlaceLimitOrder *)

\* GTT orders name a time after the block's, the others none.
ExpirationTimes(type) ==
    CASE type = "GTT" -> now + 1 .. MaxTime
      [] type = "JIT" -> {JITGoodTilTime}
      [] OTHER -> {NoExpiration}

\* Validate, AssertNotPaused, AssertNotWithdrawOnly, ValidateGoodTilExpiration
PlaceLimitOrder(p, d, tick, amount, type, exp, maxOut, minSell) ==
    /\ order = NoOrder /\ params.mode = "open"
    /\ trancheCount < MaxTranches
    /\ maxOut > 0 => TakerOnly(type)
    /\ order' = [type |-> type, creator |-> p[1], receiver |-> p[2], in |-> d, tick |-> tick,
                 amount |-> amount, expires |-> exp, maxOut |-> maxOut, minSell |-> minSell,
                 left |-> Dec(amount), got |-> 0, seen |-> {}, filled |-> FALSE]
    /\ saved' = <<tranches, inactive>>
    /\ UNCHANGED <<tranches, inactive, users, expirations, trancheCount, jitsInBlock, bank, env>>

\* Mutant: stops at the limit price instead of past it.
LiquidityBelowLimit ==
    {k \in DOMAIN tranches \ order.seen :
        /\ k[1] = Other(order.in)
        /\ ~IsExpired(tranches[k])
        /\ Price(k) < Prices[order.tick]}

\* LiquidityIterator: the tranches the swap still meets within its limit price
Liquidity ==
    {k \in DOMAIN tranches \ order.seen :
        /\ k[1] = Other(order.in)
        /\ ~IsExpired(tranches[k])
        /\ Price(k) <= Prices[order.tick]}

MaxOutLeft == IF order.maxOut = 0 THEN -1 ELSE Dec(order.maxOut) - order.got

\* One round of the loop in Swap, with SaveLiquidity
SwapTranche ==
    /\ order # NoOrder /\ ~order.filled
    /\ \E k \in Liquidity :
        LET t == tranches[k]
            out == OutAmount(k, t, order.left, MaxOutLeft)
            in == InAmount(k, order.left, out)
            left == order.left - in
            spent == Quo(left, Price(k)) < One
            maxed == order.maxOut > 0 /\ order.got + out >= Dec(order.maxOut)
        IN  /\ IsFirst(k, Liquidity)
            /\ UpdateTranche(k, Swapped(t, in, out))
            /\ order' = [order EXCEPT !.left = left, !.got = @ + out,
                                      !.seen = @ \cup {k}, !.filled = spent \/ maxed]
    /\ UNCHANGED <<users, expirations, trancheCount, jitsInBlock, bank, env, saved>>

SwapDone == order # NoOrder /\ (order.filled \/ Liquidity = {})
SwapIn == Dec(order.amount) - order.left
MinAvgSellPrice == IF order.minSell = 0 THEN Quo(One, Prices[order.tick]) ELSE order.minSell

\* The checks of TakerLimitOrderSwap
TakerSwapOK ==
    /\ order.type = "FOK" => order.filled
    /\ SwapIn > 0
    /\ Quo(order.got, SwapIn) >= MinAvgSellPrice
    /\ order.got > 0

\* The check of MakerLimitOrderSwap
MakerSwapOK ==
    SwapIn > 0 =>
        Quo(Quo(order.left, Prices[order.tick]) + order.got, Dec(order.amount)) >= MinAvgSellPrice

\* GetGTCPlaceTranche, GetOrInitPlaceTranche
GTCPlaceTranches ==
    {k \in DOMAIN tranches :
        /\ k[1] = order.in /\ k[2] = -order.tick
        /\ IsPlaceTranche(tranches[k]) /\ ~HasExpiration(tranches[k])}
Joins == ~Expiring(order.type) /\ GTCPlaceTranches # {}
PlaceKeys ==
    IF Joins THEN {k \in GTCPlaceTranches : IsFirst(k, GTCPlaceTranches)}
    ELSE {<<order.in, -order.tick, trancheCount>>}
PlaceTranche(k) == IF Joins THEN tranches[k] ELSE NewLimitOrderTranche(order.expires)

\* NewTrancheKey
NextTrancheCount == IF Joins THEN trancheCount ELSE trancheCount + 1

\* GetOrInitLimitOrderTrancheUser
PlaceUserKey(k) == <<order.receiver, k[3]>>
DuplicateTrancheKey(k) == PlaceUserKey(k) \in DOMAIN users /\ KeyOf(PlaceUserKey(k)) # k
PlaceUser(k) ==
    IF PlaceUserKey(k) \in DOMAIN users THEN users[PlaceUserKey(k)]
    ELSE [side |-> order.in, tick |-> -order.tick, shares |-> 0, withdrawn |-> 0]

AmountToPlace ==
    IF order.filled \/ TakerOnly(order.type) THEN 0 ELSE TruncateInt(order.left)
TotalIn == SwapIn + Dec(AmountToPlace)

AssertCanPlaceJIT == order.type = "JIT" => jitsInBlock # params.maxJits

OrderSucceeds(k) ==
    /\ IF TakerOnly(order.type) THEN TakerSwapOK ELSE MakerSwapOK
    /\ ~DuplicateTrancheKey(k)
    /\ AssertCanPlaceJIT
    /\ CanExchange(order.creator, order.receiver, order.in, order.got, TotalIn)

\* The rest of ExecutePlaceLimitOrder and PlaceLimitOrderCore
FinishOrder == SwapDone /\ \E k \in PlaceKeys :
    /\ OrderSucceeds(k)
    /\ IF AmountToPlace > 0
       THEN /\ UpdateTranche(k, WithMakerOrder(PlaceTranche(k), AmountToPlace))
            /\ expirations' = expirations \cup
                    IF Expiring(order.type) THEN {<<order.expires, k>>} ELSE {}
       ELSE UNCHANGED <<tranches, inactive, expirations>>
    /\ UpdateTrancheUser(PlaceUserKey(k), [PlaceUser(k) EXCEPT !.shares = @ + AmountToPlace])
    /\ trancheCount' = NextTrancheCount
    /\ jitsInBlock' = IF order.type = "JIT" THEN jitsInBlock + 1 ELSE jitsInBlock
    /\ Exchange(order.creator, order.receiver, order.in, order.got, TotalIn)
    /\ order' = NoOrder /\ saved' = <<EmptyStore, EmptyStore>>
    /\ UNCHANGED env

\* An error: the message leaves no trace.
RevertOrder == SwapDone /\ \E k \in PlaceKeys :
    /\ ~OrderSucceeds(k)
    /\ tranches' = saved[1] /\ inactive' = saved[2]
    /\ order' = NoOrder /\ saved' = <<EmptyStore, EmptyStore>>
    /\ UNCHANGED <<users, expirations, trancheCount, jitsInBlock, bank, env>>

-----------------------------------------------------------------------------
(* MsgWithdrawFilledLimitOrder and MsgCancelLimitOrder of the user and     *)
(* tranche x = <<user, n>>.  A tranche whose total is zero panics on the   *)
(* division; a negative one leaves nothing to withdraw, which is an error. *)

CanWithdraw(x) ==
    /\ order = NoOrder /\ params.mode # "paused"
    /\ Found(KeyOf(x)) /\ FindLimitOrderTranche(KeyOf(x)).totalMaker > 0

Pays(k, makerOut, takerOut) == [d \in Denoms |-> IF d = k[1] THEN makerOut ELSE takerOut]

WithdrawFilledLimitOrder(x) ==
    LET k == KeyOf(x)
        t == FindLimitOrderTranche(k)
        u == users[x]
        out == TokenOut(k, t, u)
        rest == IF WasFilled(k) THEN TokenIn(k, t, u) ELSE 0
        after == [t EXCEPT !.taker = @ - out, !.maker = @ - rest]
    IN  /\ CanWithdraw(x) /\ (out > 0 \/ rest > 0)
        /\ IF WasFilled(k)
           THEN /\ UpdateInactiveTranche(k, after)
                /\ UpdateTrancheUser(x, [u EXCEPT !.withdrawn = Dec(u.shares)])
           ELSE /\ UpdateTranche(k, after)
                /\ UpdateTrancheUser(x, [u EXCEPT !.withdrawn = @ + SharesToWithdraw(k, t, u)])
        /\ SendFromDex(x[1], Pays(k, rest, out))
        /\ UNCHANGED <<expirations, trancheCount, jitsInBlock, env, order, saved>>

\* Mutant: what the user was paid now is subtracted, earlier withdrawals are not.
TotalTakerLessOut(k, t, u, out) == t.totalTaker - out

\* TotalTakerDenom after user u left with out; SetTotalTakerDenom panics below 0
TotalTakerLeft(k, t, u, out) == t.totalTaker - (Mul(u.withdrawn, Price(k)) + out)

\* The expirations after a cancel: dust on the book keeps its record
ExpirationsAfter(k, after) ==
    IF HasExpiration(after) /\ ~HasTokenIn(after)
    THEN expirations \ {<<after.expires, k>>} ELSE expirations

CancelLimitOrder(x) ==
    LET k == KeyOf(x)
        t == FindLimitOrderTranche(k)
        u == users[x]
        in == TokenIn(k, t, u)
        out == TokenOut(k, t, u)
        total == TotalTakerLeft(k, t, u, out)
        after == [t EXCEPT !.maker = @ - in, !.taker = @ - out,
                           !.totalMaker = @ - u.shares, !.totalTaker = total]
    IN  /\ CanWithdraw(x) /\ total >= 0 /\ (in > 0 \/ out > 0)
        /\ UpdateTrancheUser(x, [u EXCEPT !.withdrawn = Dec(u.shares)])
        /\ IF WasFilled(k) THEN UpdateInactiveTranche(k, after) ELSE UpdateTranche(k, after)
        /\ expirations' = ExpirationsAfter(k, after)
        /\ SendFromDex(x[1], Pays(k, in, out))
        /\ UNCHANGED <<trancheCount, jitsInBlock, env, order, saved>>

-----------------------------------------------------------------------------
(* PurgeExpiredLimitOrders, at BeginBlock.  JIT orders always go; GTT      *)
(* orders go in the order of the store until the gas allowance is used up. *)

ExpiresBefore(e, f) == e[1] < f[1] \/ (e[1] = f[1] /\ KeyLess(e[2], f[2]))

\* Mutant: the gas allowance also stops the purge of JIT orders.
PurgesPrefix(S, recorded, time) ==
    /\ \A e \in S : e[1] <= time
    /\ \A e \in S, f \in recorded : ExpiresBefore(f, e) => f \in S

Purges(S, recorded, time) ==
    /\ \A e \in S : e[1] <= time
    /\ \A e \in recorded : e[1] = JITGoodTilTime => e \in S
    /\ \A e \in S, f \in recorded : ExpiresBefore(f, e) => f \in S

PurgeExpiredLimitOrders(recorded) ==
    \E S \in SUBSET recorded :
        LET purged == {e[2] : e \in S} \cap DOMAIN tranches
        IN  /\ Purges(S, recorded, now + 1)
            /\ tranches' = [k \in DOMAIN tranches \ purged |-> tranches[k]]
            /\ inactive' = [k \in DOMAIN inactive \cup purged |->
                                IF k \in purged THEN tranches[k] ELSE inactive[k]]
            /\ expirations' = recorded \ S

\* The count of JITs is transient: it starts at 0 in every block.
BeginBlock ==
    /\ order = NoOrder /\ now < MaxTime
    /\ now' = now + 1 /\ jitsInBlock' = 0
    /\ PurgeExpiredLimitOrders(expirations)
    /\ UNCHANGED <<users, trancheCount, bank, params, restarts, order, saved>>

UpdateParams ==
    /\ order = NoOrder
    /\ params' \in ParamChoices \ {params}
    /\ UNCHANGED <<tranches, inactive, users, expirations, trancheCount, jitsInBlock, bank,
                   now, restarts, order, saved>>

\* Mutant: the expiration records are not part of the genesis either.
NoneRecreated == {}

\* InitGenesis records the expirations of the active tranches
Recreated == {<<tranches[k].expires, k>> : k \in {j \in DOMAIN tranches : HasExpiration(tranches[j])}}

\* ExportGenesis, InitGenesis and the first block: the tranche count and the
\* fractional balances are not part of the genesis.
Restart ==
    /\ order = NoOrder /\ now < MaxTime /\ restarts < MaxRestarts
    /\ restarts' = restarts + 1
    /\ trancheCount' = 0
    /\ frac' = [x \in Users \X Denoms |-> 0]
    /\ now' = now + 1 /\ jitsInBlock' = 0
    /\ PurgeExpiredLimitOrders(Recreated)
    /\ UNCHANGED <<users, dex, wallet, params, order, saved>>

-----------------------------------------------------------------------------
Init ==
    /\ tranches = EmptyStore /\ inactive = EmptyStore /\ users = EmptyStore
    /\ expirations = {} /\ trancheCount = 0 /\ jitsInBlock = 0
    /\ dex = [d \in Denoms |-> 0]
    /\ wallet = [x \in Users \X Denoms |-> InitialBalance]
    /\ frac = [x \in Users \X Denoms |-> 0]
    /\ now = 1 /\ params \in ParamChoices /\ restarts = 0
    /\ order = NoOrder /\ saved = <<EmptyStore, EmptyStore>>

Place ==
    \E p \in Parties, d \in Denoms, tick \in Ticks, amount \in Amounts, type \in OrderTypes,
       maxOut \in MaxAmountsOut, minSell \in MinSellPrices :
        \E exp \in ExpirationTimes(type) :
            PlaceLimitOrder(p, d, tick, amount, type, exp, maxOut, minSell)

Next ==
    \/ Place
    \/ SwapTranche
    \/ FinishOrder
    \/ RevertOrder
    \/ \E x \in DOMAIN users : WithdrawFilledLimitOrder(x)
    \/ \E x \in DOMAIN users : CancelLimitOrder(x)
    \/ BeginBlock
    \/ UpdateParams
    \/ Restart

Spec == Init /\ [][Next]_vars

-----------------------------------------------------------------------------
Reserves(store, d) == [k \in DOMAIN store |-> IF k[1] = d THEN store[k].maker ELSE store[k].taker]

\* What the running order has taken out of tranches and not received yet, and
\* put into tranches and not paid yet.
Receivable(d) == IF order # NoOrder /\ d = Other(order.in) THEN order.got ELSE 0
Payable(d) == IF order # NoOrder /\ d = order.in THEN SwapIn ELSE 0

Assets(d) == Dec(dex[d]) + Payable(d)
Liabilities(d) ==
    SumOf(Reserves(tranches, d)) + SumOf(Reserves(inactive, d)) + SumOf(Debts(d)) + Receivable(d)

(***************************************************************************)
(* The module account holds exactly the reserves of all tranches and the   *)
(* fractions owed to users: no rounding in Swap, Withdraw, RemoveTokenIn   *)
(* or the fractional banker makes or loses a unit.  A restart forgets the  *)
(* fractions and may leave the account with more.                          *)
(***************************************************************************)
Solvent ==
    \A d \in Denoms : /\ Assets(d) >= Liabilities(d)
                      /\ restarts = 0 => Assets(d) = Liabilities(d)

UsersOf(k) == {x \in DOMAIN users : KeyOf(x) = k}
Standing == {k \in DOMAIN tranches \cup DOMAIN inactive : FindLimitOrderTranche(k).totalMaker > 0}
Quiet == order = NoOrder /\ restarts = 0

(***************************************************************************)
(* The shares of the users of a tranche never exceed its TotalMakerDenom,  *)
(* so the ratios of RemoveTokenIn and Withdraw never add up to more than   *)
(* the whole tranche and the division by the total never meets a zero.     *)
(***************************************************************************)
SharesBacked ==
    restarts = 0 =>
        \A k \in DOMAIN tranches \cup DOMAIN inactive :
            SumOf([x \in UsersOf(k) |-> users[x].shares]) <= FindLimitOrderTranche(k).totalMaker

TakerClaims(k) == SumOf([x \in UsersOf(k) |-> TakerClaim(k, FindLimitOrderTranche(k), users[x])])
MakerClaims(k) == SumOf([x \in UsersOf(k) |-> MakerClaim(k, FindLimitOrderTranche(k), users[x])])

\* RatioFilled is cut off to one unit, which costs a unit per share; the other
\* roundings of a tranche's life add Dust.
Slack(k) == FindLimitOrderTranche(k).totalMaker + Dust
TakerSlack(k) == CeilInt(Slack(k) * Price(k)) + Dust

(***************************************************************************)
(* Whatever was swapped, withdrawn and cancelled before, the reserves of a *)
(* tranche cover what its users can still withdraw, up to rounding: the    *)
(* caps of CalcWithdrawAmount and RemoveTokenIn only ever cut dust, nobody *)
(* is paid out of another user's share.                                    *)
(***************************************************************************)
ClaimsCovered ==
    Quiet => \A k \in Standing : /\ TakerClaims(k) <= FindLimitOrderTranche(k).taker + TakerSlack(k)
                                 /\ MakerClaims(k) <= FindLimitOrderTranche(k).maker + Slack(k)

(***************************************************************************)
(* Conversely the users of a tranche can take out all of its reserves up   *)
(* to rounding: a tranche without users holds only dust.                   *)
(***************************************************************************)
ReservesClaimed ==
    Quiet => \A k \in Standing : /\ FindLimitOrderTranche(k).taker <= TakerClaims(k) + TakerSlack(k)
                                 /\ FindLimitOrderTranche(k).maker <= MakerClaims(k) + Slack(k)

(***************************************************************************)
(* The book is never crossed: no order that is still live would trade with *)
(* another at both their prices.  ExecutePlaceLimitOrder swaps against     *)
(* every better tranche before it places the rest.                         *)
(***************************************************************************)
BookNotCrossed ==
    order = NoOrder =>
        \A j, k \in DOMAIN tranches :
            (j[1] = 0 /\ k[1] = 1 /\ ~IsExpired(tranches[j]) /\ ~IsExpired(tranches[k]))
                => j[2] + k[2] > 0

(***************************************************************************)
(* Every active tranche that expires has its expiration record, so that    *)
(* PurgeExpiredLimitOrders will find it, also after a cancel that leaves   *)
(* dust and after a restart.                                               *)
(***************************************************************************)
ExpirationsRecorded ==
    \A k \in DOMAIN tranches :
        HasExpiration(tranches[k]) => <<tranches[k].expires, k>> \in expirations

(***************************************************************************)
(* A JIT order is live in its own block only: the active JIT tranches were *)
(* all placed in the current block, whatever the gas allowance was.        *)
(***************************************************************************)
JITsLiveOneBlock ==
    Cardinality({k \in DOMAIN tranches : IsJIT(tranches[k])}) <= jitsInBlock

(***************************************************************************)
(* SetTotalTakerDenom never panics in CancelLimitOrder, nor does the       *)
(* division by TotalMakerDenom: a maker can always cancel.                 *)
(***************************************************************************)
CancelNeverPanics ==
    order = NoOrder =>
        \A x \in DOMAIN users :
            LET k == KeyOf(x)
                t == FindLimitOrderTranche(k)
            IN  Found(k) => /\ t.totalMaker # 0
                            /\ TotalTakerLeft(k, t, users[x], TokenOut(k, t, users[x])) >= 0

=============================================================================
