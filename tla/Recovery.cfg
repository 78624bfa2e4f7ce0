SPECIFICATION RecoverySpec
CONSTANTS
  Names = {1}
  Periods = {1}
  Limits = {5}
  Removable = {}
  Modulus = 64
  MaxHeight = 4
  MaxEvents = 3
  HaltHeight = 1
  RecoveryHeight = 3
  Schedule = 1
  Holder = "holder"
  Voter = "voter"
  Recipient = "recipient"
  Proxy = "proxy"
  BondDenom = "ntrn"
  Chains = {"neutron-1", "neutron-2"}
  Uploader <- MCUploader
  RestoredAdmin <- MCRestoredAdmin
  RestoredCW2 <- MCRestoredCW2
  Vesting <- MCVesting
  clawbackTransfers <- MCTransfers
  Txs <- MCTxs
  Dispatched <- MCDispatched
  Worlds <- MCWorlds
INVARIANTS  RestoredForGood PoolsBacked
PROPERTIES ProxyStakeKept  ClawbackIsOneTransfer
CHECK_DEADLOCK FALSE
