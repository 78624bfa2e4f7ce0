CONSTANTS
  alice = alice
  hook = hook
  escrow = escrow
  nobody = nobody
  Factories = {"tokenfactory", "coinfactory"}
  Denoms <- MCDenoms
  Rank <- MCRank
  Accounts = {alice, hook}
  Contracts = {hook}
  Codes = {1, 2}
  EscrowAddrs = {escrow}
  untrn = untrn
  Native = untrn
  FeeCollector = hook
  ParamChoices <- MCParamChoices
  CoinSets <- MCCoinSets
  NoOne = nobody
  GenesisAdmins <- MCAdmins
  GenesisHooks <- MCHooks
  InitialNative = 2
  MaxSupply = 1
  MaxSent = 1
  MaxRestarts = 1
SPECIFICATION Spec
INVARIANTS SupplyAccounted EscrowCovers
PROPERTIES  BlockedByListedOnly
