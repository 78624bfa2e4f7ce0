--------------------------------- MODULE Pools ---------------------------------
(***************************************************************************)
(* x/dex: the liquidity pools.  Depositors put one or both tokens of a     *)
(* pair into a pool and get shares, takers swap against the pools of a     *)
(* pair tick by tick, share holders withdraw their part, and a multi-hop   *)
(* swap chains swaps over several pairs along the best of its routes.      *)
(*                                                                         *)
(* A pool is <<token0, token1, center, fee>>, its reserves <<r0, r1>>.  It *)
(* sells side 1 (token0) at tick -center + fee and side 2 (token1) at      *)
(* center + fee; a larger tick is a worse price for the taker.  An empty   *)
(* side is not stored in the code and is 0 here.  A pool that was created  *)
(* once stays in the domain of pools, as its id stays in the store.        *)
(*                                                                         *)
(* A message runs in several steps during which msg # NoMsg and nothing    *)
(* else runs: the entries of a deposit, the hops of a route, and the       *)
(* rounds of Keeper.Swap, held in swap.  saved are the pools that a        *)
(* failing message goes back to.                                           *)
(***************************************************************************)
EXTENDS FractionalBanker, FiniteSetsExt, Sequences

CONSTANTS Parties,        \* the pairs <<creator, receiver>> of deposits and withdrawals
          PoolKeys,       \* the pools that may be created
          Prices,         \* CalcPrice on the ticks of the pools
          Seeds,          \* first deposits: functions from pools to <<d0, d1>>
          Founder,        \* the user who made them
          DepositLists,   \* the entries of MsgDeposit
          Takers,         \* the users who swap
          SwapAmounts,    \* whole tokens of takers
          LimitTicks,     \* ticks of their limit prices
          RouteLists,     \* the routes of MsgMultiHopSwap
          ExitPrices,     \* ExitLimitPrice
          InitialBalance,
          InitialParams,  \* a record [mode, feeTiers, whitelist]
          ParamChoices,   \* those UpdateParams may set
          Dust,           \* units of rounding allowed
          MaxMessages     \* bound: messages executed

ASSUME PoolsAssumption ==
    /\ PoolKeys \subseteq {k \in Denoms \X Denoms \X Int \X Nat : k[1] # k[2]}
    /\ \A k \in PoolKeys : {k[3] + k[4], k[4] - k[3], -k[3], -k[4]} \subseteq DOMAIN Prices
    /\ \A s, t \in DOMAIN Prices : s < t => Prices[s] < Prices[t]
    /\ Founder \in Users /\ Takers \subseteq Users /\ Parties \subseteq Users \X Users

VARIABLES pools,        \* pool reserves: pool |-> <<r0, r1>>
          shares,       \* balances of the share tokens: [Users \X PoolKeys -> Nat]
          params,
          msg,          \* the message that is running
          swap,         \* its call of Keeper.Swap
          saved,        \* the pools before the message
          messages      \* messages begun, for the bound

vars == <<pools, shares, params, msg, swap, saved, messages, bank>>

NoMsg == [type |-> "none"]
NotSwapping == [in |-> -1]
Idle == msg = NoMsg

Sides == {1, 2}
Empty == <<0, 0>>
Reserves(ps, k) == IF k \in DOMAIN ps THEN ps[k] ELSE Empty

\* PoolReserves.Key.TickIndexTakerToMaker and MakerPrice of a side
MakerTick(k, s) == IF s = 1 THEN -k[3] + k[4] ELSE k[3] + k[4]
MakerPrice(k, s) == Prices[MakerTick(k, s)]
Side(k, d) == IF k[1] = d THEN 1 ELSE 2

\* bankKeeper.GetSupply of the pool denom
Supply(k) == MapThenSumSet(LAMBDA u : shares[<<u, k>>], Users)

\* A payment of the two tokens of pool k.
Coins(k, x) == [d \in Denoms |-> IF d = k[1] THEN x[1] ELSE IF d = k[2] THEN x[2] ELSE 0]
Only(d, x) == [e \in Denoms |-> IF e = d THEN x ELSE 0]
Plus(x, y) == [d \in Denoms |-> x[d] + y[d]]
NoCoins == [d \in Denoms |-> 0]

-----------------------------------------------------------------------------
(* Swaps *)

\* LiquidityIterator: the pools that sell token out for token in
Liquidity(ps, in, out) ==
    {k \in DOMAIN ps : {k[1], k[2]} = {in, out} /\ ps[k][Side(k, out)] > 0}

\* The order of the store's keys: by tick, then by fee
Cheapest(K, out) ==
    CHOOSE k \in K : \A j \in K :
        LET tk == MakerTick(k, Side(k, out))
            tj == MakerTick(j, Side(j, out))
        IN  tk < tj \/ (tk = tj /\ k[4] <= j[4])

\* Pool.Swap: side s of pool k sells for at most left of the other token
OutAmount(k, s, left) == MinDec(pools[k][s], Quo(left, MakerPrice(k, s)))
InAmount(k, s, out, left) == MinDec(Mul(MakerPrice(k, s), out), left)

NoLimit == 0

\* Keeper.Swap is called without a maximum amount out.
NewSwap(in, out, amount, limit) ==
    [in |-> in, out |-> out, left |-> amount, got |-> 0, limit |-> limit, seen |-> {},
     filled |-> FALSE]

Within(k) == swap.limit = NoLimit \/ MakerPrice(k, Side(k, swap.out)) <= swap.limit
Ahead == {k \in Liquidity(pools, swap.in, swap.out) \ swap.seen : Within(k)}

Swapping == swap # NotSwapping
SwapDone == Swapping /\ (swap.filled \/ Ahead = {})

\* One round of the loop, with SaveLiquidity
SwapPool ==
    /\ Swapping /\ ~SwapDone
    /\ LET k == Cheapest(Ahead, swap.out)
           s == Side(k, swap.out)
           out == OutAmount(k, s, swap.left)
           in == InAmount(k, s, out, swap.left)
       IN  /\ pools' = [pools EXCEPT ![k][s] = @ - out, ![k][3 - s] = @ + in]
           /\ swap' = [swap EXCEPT !.left = @ - in, !.got = @ + out, !.seen = @ \cup {k},
                                   !.filled = Quo(swap.left - in, MakerPrice(k, s)) < One]
    /\ UNCHANGED <<shares, params, msg, saved, messages, bank>>

\* The beginning, the success and the failure of a message.
Begin(m) ==
    /\ Idle /\ messages < MaxMessages /\ messages' = messages + 1
    /\ params.mode = "open"         \* AssertNotPaused, AssertNotWithdrawOnly
    /\ msg' = m /\ saved' = pools
    /\ UNCHANGED <<pools, shares, params, bank>>

End == msg' = NoMsg /\ swap' = NotSwapping /\ saved' = EmptyStore /\ UNCHANGED <<params, messages>>
Revert == End /\ pools' = saved /\ UNCHANGED <<shares, bank>>

-----------------------------------------------------------------------------
(* MsgDeposit *)

CenterPrice1To0(k) == Prices[-k[3]]

\* CalcAmountAsToken0
AmountAsToken0(k, x) == x[1] + Quo(x[2], CenterPrice1To0(k))

\* CalcGreatestMatchingRatio
MatchingRatio(p, x) ==
    <<IF p[2] > 0 THEN MinDec(x[1], Quo(Mul(x[2], p[1]), p[2])) ELSE x[1],
      IF p[1] > 0 THEN MinDec(x[2], Quo(Mul(x[1], p[2]), p[1])) ELSE x[2]>>

\* CalcAutoswapAmount: the part of x that has to be swapped to match the ratio of p
AutoswapAmount(p, k, x) ==
    LET excess == Mul(p[1], x[2]) - Mul(p[2], x[1])
        Swapped(y) == Quo(y, AmountAsToken0(k, p))
    IN  IF p = Empty THEN Empty
        ELSE IF excess >= 0 THEN <<0, Dec(CeilInt(Swapped(excess)))>>
        ELSE <<Quo(Swapped(-excess), CenterPrice1To0(k)), 0>>

\* CalcAutoswapFee
AutoswapFee(k, value) == Mul(One - Prices[-k[4]], value)

\* Mutant: rounded up.
SharesMintedUp(p, k, value, fee, supply) ==
    IF AmountAsToken0(k, p) > 0
    THEN CeilInt(Quo(MulInt(value, supply), AmountAsToken0(k, p) + fee))
    ELSE CeilInt(value)

\* CalcSharesMinted
SharesMinted(p, k, value, fee, supply) ==
    IF AmountAsToken0(k, p) > 0
    THEN TruncateInt(Quo(MulInt(value, supply), AmountAsToken0(k, p) + fee))
    ELSE TruncateInt(value)

\* Pool.Deposit of x; a pool whose dust is worth nothing cannot be divided by
CanPoolDeposit(p, k) == p # Empty => AmountAsToken0(k, p) > 0

PoolDeposit(p, k, x, supply, autoswap) ==
    LET in == IF autoswap THEN x ELSE MatchingRatio(p, x)
        fee == IF autoswap THEN AutoswapFee(k, AmountAsToken0(k, AutoswapAmount(p, k, x))) ELSE 0
    IN  [in |-> in,
         minted |-> SharesMinted(p, k, AmountAsToken0(k, in) - fee, fee, supply)]

\* IsPoolBehindEnemyLines
BehindEnemyLines(k, x) ==
    \E s \in Sides : /\ x[s] > 0
                     /\ \E j \in Liquidity(pools, k[s], k[3 - s]) :
                            -MakerTick(k, s) > MakerTick(j, Side(j, k[3 - s]))

\* Mutant: one tick short.
SwapOnDepositLimitShort(k, s) == Prices[-MakerTick(k, s) - 2]

\* limitPrice0, limitPrice1
SwapOnDepositLimit(k, s) == Prices[-MakerTick(k, s) - 1]

Amounts(e) == <<Dec(e.amounts[1]), Dec(e.amounts[2])>>

\* The stages of an entry: 1 and 2 swap side 1 and 2 on deposit, 3 deposits.
StageAfter(e, s) ==
    Min({3} \cup {t \in s + 1 .. 2 : e.swap /\ e.amounts[t] > 0})

\* m goes on with the entries in list.
WithEntries(m, list) ==
    IF list = <<>> THEN [m EXCEPT !.list = list, !.stage = 0]
    ELSE [m EXCEPT !.list = list, !.stage = StageAfter(Head(list), 0), !.swapped = FALSE,
                   !.in = Amounts(Head(list)), !.deposit = Amounts(Head(list))]

\* MsgDeposit.Validate: no pool twice
DistinctPools(list) == \A i, j \in DOMAIN list : list[i].pool = list[j].pool => i = j

\* DepositCore: u pays, r gets the shares
BeginDeposit(u, r, list) ==
    /\ DistinctPools(list)
    /\ Begin(WithEntries([type |-> "deposit", user |-> u, receiver |-> r, list |-> list,
                          stage |-> 0, swapped |-> FALSE, in |-> Empty, deposit |-> Empty,
                          paid |-> NoCoins, minted |-> [k \in PoolKeys |-> 0]], list))
    /\ UNCHANGED swap

Depositing == msg.type = "deposit"
Current == Head(msg.list)
Used == Amounts(Current)[msg.stage] - swap.left

\* PerformSwapOnDepositSwap: the amount buys what lies behind the deposit's own price
BeginSwapOnDeposit ==
    /\ Depositing /\ msg.stage \in Sides /\ ~Swapping
    /\ LET k == Current.pool
           s == msg.stage
       IN  swap' = NewSwap(k[s], k[3 - s], Amounts(Current)[s], SwapOnDepositLimit(k, s))
    /\ UNCHANGED <<pools, shares, params, msg, saved, messages, bank>>

\* The rest of one half of SwapOnDeposit
EndSwapOnDeposit ==
    /\ Depositing /\ SwapDone
    /\ LET s == msg.stage
           paid == IF swap.filled THEN Used ELSE Amounts(Current)[s]
           next == [msg EXCEPT !.stage = StageAfter(Current, s)]
       IN  IF Used > 0 /\ msg.swapped THEN Revert     \* ErrDoubleSidedSwapOnDeposit
           ELSE /\ msg' = IF Used = 0 THEN next
                          ELSE [next EXCEPT !.swapped = TRUE, !.in[s] = paid,
                                            !.deposit[s] = paid - Used,
                                            !.deposit[3 - s] = @ + swap.got]
                /\ swap' = NotSwapping
                /\ UNCHANGED <<pools, shares, params, saved, messages, bank>>

ValidateFee(u, k) == k[4] \in params.feeTiers \/ u \in params.whitelist

\* ExecuteDeposit, for one entry
ExecuteDeposit ==
    LET e == Current
        k == e.pool
        p == Reserves(pools, k)
        d == PoolDeposit(p, k, msg.deposit, Supply(k), e.autoswap)
        paid == IF e.autoswap THEN msg.in ELSE d.in
    IN  /\ Depositing /\ msg.stage = 3
        /\ \/ /\ \/ ~ValidateFee(msg.user, k)
                 \/ BehindEnemyLines(k, msg.deposit) /\ (e.failOnBel \/ e.swap)
              /\ Revert
           \/ /\ ValidateFee(msg.user, k)
              /\ BehindEnemyLines(k, msg.deposit) /\ ~e.failOnBel /\ ~e.swap
              /\ msg' = WithEntries(msg, Tail(msg.list))          \* failedDeposits
              /\ UNCHANGED <<pools, shares, params, swap, saved, messages, bank>>
           \/ /\ ValidateFee(msg.user, k) /\ ~BehindEnemyLines(k, msg.deposit)
              /\ IF ~CanPoolDeposit(p, k) \/ paid = Empty \/ d.minted <= 0 THEN Revert
                 ELSE /\ pools' = Put(pools, k, <<p[1] + d.in[1], p[2] + d.in[2]>>)
                      /\ msg' = WithEntries([msg EXCEPT !.paid = Plus(@, Coins(k, paid)),
                                                        !.minted[k] = @ + d.minted],
                                            Tail(msg.list))
                      /\ UNCHANGED <<shares, params, swap, saved, messages, bank>>

\* The rest of DepositCore: SendFractionalCoinsFromAccountToDex, MintShares
EndDeposit ==
    /\ Depositing /\ msg.stage = 0
    /\ IF ~CanSendToDex(Balances, msg.user, msg.paid) THEN Revert
       ELSE /\ SetBalances(SentToDex(Balances, msg.user, msg.paid))
            /\ shares' = [x \in DOMAIN shares |->
                            IF x[1] = msg.receiver THEN shares[x] + msg.minted[x[2]]
                                                   ELSE shares[x]]
            /\ End /\ UNCHANGED pools

-----------------------------------------------------------------------------
(* MsgWithdrawal, MsgWithdrawalWithShares *)

\* RedeemValue of n shares
RedeemValue(p, n, supply) == [s \in Sides |-> MinDec(QuoInt(MulInt(p[s], n), supply), p[s])]

EntriesOf(list, k) == {i \in DOMAIN list : list[i].pool = k}
SharesOf(list, k) == MapThenSumSet(LAMBDA i : list[i].n, EntriesOf(list, k))

\* Mutant: a pool may be named twice.
ValidWithdrawalTwice(list) == \A i \in DOMAIN list : list[i].pool \in DOMAIN pools

\* MsgWithdrawal.Validate and PoolDataToPools
ValidWithdrawal(list) ==
    DistinctPools(list) /\ \A i \in DOMAIN list : list[i].pool \in DOMAIN pools

\* WithdrawHandler: u burns shares, r gets the tokens.  The pools are loaded before
\* the first entry is executed and each is saved less what its entry takes.
Withdraw(u, r, list) ==
    LET out(i) == RedeemValue(pools[list[i].pool], list[i].n, Supply(list[i].pool))
        paid == [d \in Denoms |-> MapThenSumSet(LAMBDA i : Coins(list[i].pool, out(i))[d], DOMAIN list)]
    IN  /\ Idle /\ messages < MaxMessages /\ messages' = messages + 1
        /\ params.mode # "paused" /\ ValidWithdrawal(list)
        /\ \A k \in PoolKeys : SharesOf(list, k) <= shares[<<u, k>>]
        /\ pools' = [k \in DOMAIN pools |->
                        IF EntriesOf(list, k) = {} THEN pools[k]
                        ELSE [s \in Sides |-> pools[k][s] - out(Max(EntriesOf(list, k)))[s]]]
        /\ shares' = [x \in DOMAIN shares |->
                        IF x[1] = u THEN shares[x] - SharesOf(list, x[2]) ELSE shares[x]]
        /\ CanSendFromDex(Balances, r, paid)
        /\ SetBalances(SentFromDex(Balances, r, paid))
        /\ UNCHANGED <<params, msg, swap, saved>>

\* One or all of the shares of one or two pools of a pair.
Withdrawals(u) ==
    LET entries == UNION {{[pool |-> k, n |-> n] : n \in {1, shares[<<u, k>>]} \cap 1..shares[<<u, k>>]}
                            : k \in DOMAIN pools}
    IN  {<<e>> : e \in entries} \cup
        {l \in entries \X entries : l[1].pool[1] = l[2].pool[1] /\ l[1].pool[2] = l[2].pool[2]}

-----------------------------------------------------------------------------
(* MsgPlaceLimitOrder of a taker, "IMMEDIATE_OR_CANCEL", against pools *)

PlaceTakerOrder(u, in, out, amount, tick) ==
    /\ Begin([type |-> "taker", user |-> u, amount |-> Dec(amount), limit |-> Prices[tick]])
    /\ swap' = NewSwap(in, out, Dec(amount), Prices[tick])

\* The checks of TakerLimitOrderSwap
TakerSwapOK(used) ==
    used > 0 /\ swap.got > 0 /\ Quo(swap.got, used) >= Quo(One, msg.limit)

\* The rest of PlaceLimitOrderCore: the coins out are sent before those in are taken.
EndTakerOrder ==
    /\ msg.type = "taker" /\ SwapDone
    /\ LET used == msg.amount - swap.left
           out == Only(swap.out, swap.got)
           in == Only(swap.in, used)
           paidOut == SentFromDex(Balances, msg.user, out)
       IN  IF /\ TakerSwapOK(used)
              /\ CanSendFromDex(Balances, msg.user, out) /\ CanSendToDex(paidOut, msg.user, in)
           THEN SetBalances(SentToDex(paidOut, msg.user, in)) /\ End /\ UNCHANGED <<pools, shares>>
           ELSE Revert

-----------------------------------------------------------------------------
(* MsgMultiHopSwap: a route is a sequence of tokens *)

\* GetCurrPrice, of the pools before the message
HasPrice(in, out) == Liquidity(saved, in, out) # {}
CurrPrice(in, out) == LET k == Cheapest(Liquidity(saved, in, out), out) IN MakerPrice(k, Side(k, out))

HasRouteData(route) == \A i \in 1..Len(route) - 1 : HasPrice(route[i], route[i + 1])

\* HopsToRouteData: RemainingBestPrice at each hop
RemainingBestPrice(route) ==
    LET best[i \in 1..Len(route)] ==
            IF i = Len(route) THEN One ELSE Quo(best[i + 1], CurrPrice(route[i], route[i + 1]))
    IN  best

NoRoute == [coin |-> 0]

\* m goes on with routes; RunMultihopRoute starts from the pools before the message.
WithRoutes(m, routes) ==
    [m EXCEPT !.routes = routes, !.hop = 1, !.coin = m.amount, !.price = One,
              !.dust = NoCoins, !.bounds = {}]

\* MultiHopSwapCore
BeginMultiHopSwap(u, routes, amount, exit, best) ==
    /\ Begin(WithRoutes([type |-> "hops", user |-> u, amount |-> Dec(amount), exit |-> exit,
                         best |-> best, in |-> routes[1][1], out |-> routes[1][Len(routes[1])],
                         routes |-> routes, hop |-> 1, coin |-> 0, price |-> One,
                         dust |-> NoCoins, bounds |-> {}, cache |-> EmptyStore,
                         chosen |-> NoRoute], routes))
    /\ UNCHANGED swap

Hopping == msg.type = "hops" /\ msg.routes # <<>>
Route == Head(msg.routes)
PriceBound == Mul(msg.price, RemainingBestPrice(Route)[msg.hop])

\* The next route, after one that failed or was not chosen
NextRoute(m) ==
    /\ msg' = WithRoutes(m, Tail(m.routes))
    /\ pools' = saved /\ swap' = NotSwapping
    /\ UNCHANGED <<shares, params, saved, messages, bank>>

\* Mutant: the key is the pair of tokens.
CacheKeyPair == <<Route[msg.hop], Route[msg.hop + 1]>>

\* newCacheKey: the tokens of the hop and its amount in.  The amount is compared as a
\* pointer and thus stands for the hops that led to it.
CacheKey == SubSeq(Route, 1, msg.hop + 1)

\* The rest of a round of RunMultihopRoute, with the result of MultihopStep
AfterStep(m, step) ==
    IF ~step.filled THEN NextRoute(m)                             \* ErrNoLiquidity
    ELSE /\ msg' = [m EXCEPT !.hop = @ + 1, !.coin = step.coin, !.price = Quo(step.coin, m.amount),
                             !.dust = Plus(@, Only(Route[msg.hop], step.dust))]
         /\ pools' = step.pools /\ swap' = NotSwapping
         /\ UNCHANGED <<shares, params, saved, messages, bank>>

\* The greedy abort, a step found in stepCache, or the call of SwapFullAmountIn
BeginHop ==
    /\ Hopping /\ ~Swapping /\ msg.hop < Len(Route)
    /\ LET m == [msg EXCEPT !.bounds = @ \cup {PriceBound}]
       IN  IF ~HasRouteData(Route) \/ msg.exit > PriceBound THEN NextRoute(msg)
           ELSE IF CacheKey \in DOMAIN msg.cache THEN AfterStep(m, msg.cache[CacheKey])
           ELSE /\ swap' = NewSwap(Route[msg.hop], Route[msg.hop + 1], msg.coin, NoLimit)
                /\ msg' = m
                /\ UNCHANGED <<pools, shares, params, saved, messages, bank>>

\* The rest of MultihopStep, after SwapFullAmountIn
EndHop ==
    /\ Hopping /\ SwapDone
    /\ LET step == [pools |-> pools, coin |-> swap.got, dust |-> swap.left, filled |-> swap.filled]
       IN  AfterStep([msg EXCEPT !.cache = Put(@, CacheKey, step)], step)

\* Mutant: the limit is not checked again after the last hop.
RouteOKUnchecked == TRUE

\* The last check of RunMultihopRoute
RouteOK == msg.exit <= msg.price

\* One round of the loop in CalulateMultiHopSwap
EndRoute ==
    /\ Hopping /\ msg.hop = Len(Route)
    /\ LET done == [msg EXCEPT !.chosen = [pools |-> pools, coin |-> msg.coin, dust |-> msg.dust]]
       IN  IF ~RouteOK \/ (msg.best /\ msg.coin <= msg.chosen.coin) THEN NextRoute(msg)
           ELSE NextRoute(IF msg.best THEN done ELSE [done EXCEPT !.routes = <<Route>>])

\* The rest of MultiHopSwapCore.  When no route was chosen the message fails: all
\* routes failed, or bestRoute.write is nil because all had nothing out.
EndMultiHopSwap ==
    /\ msg.type = "hops" /\ msg.routes = <<>>
    /\ IF msg.chosen = NoRoute THEN Revert
       ELSE LET in == Only(msg.in, msg.amount)
                out == Plus(msg.chosen.dust, Only(msg.out, msg.chosen.coin))
                paidIn == SentToDex(Balances, msg.user, in)
            IN  IF CanSendToDex(Balances, msg.user, in) /\ CanSendFromDex(paidIn, msg.user, out)
                THEN /\ SetBalances(SentFromDex(paidIn, msg.user, out))
                     /\ pools' = msg.chosen.pools
                     /\ End /\ UNCHANGED shares
                ELSE Revert

-----------------------------------------------------------------------------

\* UpdateParams
UpdateParams(ps) ==
    /\ Idle /\ messages < MaxMessages /\ messages' = messages + 1
    /\ params # ps /\ params' = ps
    /\ UNCHANGED <<pools, shares, msg, swap, saved, bank>>

\* The pools after a first deposit into each, with whole tokens paid by the founder.
Init ==
    \E seed \in Seeds :
        /\ pools = [k \in DOMAIN seed |-> <<Dec(seed[k][1]), Dec(seed[k][2])>>]
        /\ shares = [x \in Users \X PoolKeys |->
                        IF x[1] = Founder /\ x[2] \in DOMAIN seed
                        THEN TruncateInt(AmountAsToken0(x[2], pools[x[2]])) ELSE 0]
        /\ dex = [d \in Denoms |-> MapThenSumSet(LAMBDA k : TruncateInt(Coins(k, pools[k])[d]),
                                                 DOMAIN seed)]
        /\ wallet = [x \in Users \X Denoms |-> InitialBalance]
        /\ frac = [x \in Users \X Denoms |-> 0]
        /\ params = InitialParams
        /\ msg = NoMsg /\ swap = NotSwapping /\ saved = EmptyStore
        /\ messages = 0

Next ==
    \/ \E p \in Parties, list \in DepositLists : BeginDeposit(p[1], p[2], list)
    \/ BeginSwapOnDeposit
    \/ SwapPool
    \/ EndSwapOnDeposit
    \/ ExecuteDeposit
    \/ EndDeposit
    \/ \E p \in Parties : \E list \in Withdrawals(p[1]) : Withdraw(p[1], p[2], list)
    \/ \E u \in Takers, k \in PoolKeys, s \in Sides, n \in SwapAmounts, t \in LimitTicks :
            PlaceTakerOrder(u, k[s], k[3 - s], n, t)
    \/ EndTakerOrder
    \/ \E u \in Takers, routes \in RouteLists, n \in SwapAmounts, exit \in ExitPrices,
          best \in BOOLEAN : BeginMultiHopSwap(u, routes, n, exit, best)
    \/ BeginHop
    \/ EndHop
    \/ EndRoute
    \/ EndMultiHopSwap
    \/ \E ps \in ParamChoices : UpdateParams(ps)

Spec == Init /\ [][Next]_vars

-----------------------------------------------------------------------------

\* The whole tokens of the module account are the reserves of all pools and the
\* fractions owed to users, exactly: no message of ExecuteDeposit, ExecuteWithdraw,
\* Swap or a multi-hop route creates, loses or strands a unit, although each
\* settles with the bank once, after changing several pools.
PoolsSolvent ==
    Idle => \A d \in Denoms :
        Dec(dex[d]) = MapThenSumSet(LAMBDA k : Coins(k, pools[k])[d], DOMAIN pools)
                      + MapThenSumSet(LAMBDA u : frac[<<u, d>>], Users)

\* A deposit with SwapOnDeposit first buys all liquidity that its own price would
\* cross, so the check for enemy lines that follows is redundant and the
\* double-sided swap is impossible, as the comments in deposit.go say.
SwapOnDepositClears ==
    Depositing =>
        /\ msg.stage = 3 /\ Current.swap => ~BehindEnemyLines(Current.pool, msg.deposit)
        /\ msg.swapped /\ SwapDone => Used = 0

\* The greedy abort of RunMultihopRoute never gives up a route that would have
\* reached its exit price: what a route finally pays is, up to rounding, within the
\* bound that was computed before each of its hops from the pools at the start.
PriceUpperBound ==
    Hopping /\ msg.hop = Len(Route) => \A b \in msg.bounds : msg.price <= b + Dust

\* No message lowers what one share of a pool is worth at the pool's center price,
\* beyond rounding: neither another holder's deposit with its autoswap, nor a
\* withdrawal, nor a swap, nor a list of which one entry fails takes value from the
\* holders.  before are the pools when the message began, now when it ended.
KeepsShareValue(before, now) ==
    \A k \in DOMAIN before :
        Supply(k) > 0 /\ Supply(k)' > 0 =>
            AmountAsToken0(k, now[k]) * Supply(k) + Dust * Supply(k)'
                >= AmountAsToken0(k, before[k]) * Supply(k)'

ShareValueKept ==
    [][Idle' => KeepsShareValue(IF Idle THEN pools ELSE saved, pools')]_vars

\* A multi-hop swap that succeeds pays its sender at least the exit limit price for
\* the whole amount, up to rounding, counting the fraction the dex still owes, and
\* takes no more than the amount, whichever routes were tried and failed before.
Worth(u, d) == Dec(wallet[<<u, d>>]) + frac[<<u, d>>]
ExitPriceMet ==
    [][msg.type = "hops" /\ Idle' /\ bank' # bank =>
          \A u \in Users, in, out \in Denoms :
             u = msg.user /\ in = msg.in /\ out = msg.out =>
                /\ Worth(u, out)' + Dust >= Worth(u, out) + Mul(msg.exit, msg.amount)
                /\ Worth(u, in)' + msg.amount >= Worth(u, in)]_vars

=============================================================================
