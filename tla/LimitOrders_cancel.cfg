CONSTANTS
    alice = alice
    bob = bob
    Denoms = {0, 1}
    Users = {alice, bob}
    Parties <- MCEach
    Ticks <- MCTicks
    Prices <- MCPrices100
    Precision = 100
    Amounts = {2, 3}
    OrderTypes = {"GTC", "FOK"}
    MaxAmountsOut = {0}
    MinSellPrices = {0}
    InitialBalance = 4
    ParamChoices <- MCOpen
    Dust = 4
    MaxTranches = 3
    MaxTime = 1
    MaxRestarts = 0
SPECIFICATION Spec
INVARIANT CancelNeverPanics
CHECK_DEADLOCK FALSE
