CONSTANTS
    alice = alice
    bob = bob
    Denoms = {0, 1}
    Users = {alice, bob}
    Parties <- MCForBob
    Ticks <- MCTicks
    Prices <- MCPrices10
    Precision = 10
    Amounts = {1, 3}
    OrderTypes = {"GTT", "JIT", "IOC"}
    MaxAmountsOut = {0}
    MinSellPrices = {0, 12}
    InitialBalance = 3
    ParamChoices <- MCModes
    Dust = 4
    MaxTranches = 2
    MaxTime = 3
    MaxRestarts = 1
SPECIFICATION Spec
INVARIANTS  ExpirationsRecorded JITsLiveOneBlock BookNotCrossed
CHECK_DEADLOCK FALSE
