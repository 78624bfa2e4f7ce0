SPECIFICATION IcqFairSpec
CONSTANTS
  c1 = c1
  u1 = u1
  icq = icq
  Owners = {c1}
  Others = {u1}
  IcqModule = icq
  KeySets = {"k1"}
  Hashes = {1, 2}
  RemoteHeights = {1, 2}
  IcqParamChoices <- MCParams
  InitialBalance = 2
  MaxQueries = 2
  MaxLocalHeight = 2
  MaxRestarts = 1
  MaxNesting = 2
  HeightModulus = 64
INVARIANTS DepositsBacked NoOrphanHashes
PROPERTIES ResultsOnlyNewer ServicePeriod TxAtMostOnce CleanupCompletes
