CONSTANTS
    alice = alice
    bob = bob
    carol = carol
    Users = {alice, bob, carol}
    Denoms = {0, 1, 2, 3}
    Precision = 100
    Parties <- MCParties
    PoolKeys <- MCPoolKeys
    Prices <- MCPrices
    Seeds <- MCSeeds
    Founder = carol
    DepositLists <- MCDepositLists
    Takers = {bob}
    SwapAmounts = {1, 3}
    LimitTicks = {2}
    RouteLists <- MCRouteLists
    ExitPrices = {1, 70}
    InitialBalance = 8
    InitialParams <- MCInitialParams
    ParamChoices <- MCParamChoices
    Dust = 2
    MaxMessages = 3
SPECIFICATION Spec
INVARIANTS  SwapOnDepositClears PriceUpperBound
PROPERTIES ShareValueKept ExitPriceMet
CHECK_DEADLOCK FALSE
