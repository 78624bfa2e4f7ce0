SPECIFICATION StackFairSpec
CONSTANTS
  c1 = c1
  r1 = r1
  feeModule = feeModule
  collector = collector
  escrow = escrow
  intermediate = intermediate
  ntrn = ntrn
  l1 = l1
  none = none
  Denoms = {ntrn}
  Accounts = {c1, r1, feeModule, collector, escrow, intermediate}
  FeeModule = feeModule
  Contracts = {c1}
  IcaIds = {"ica"}
  FeeCollector = collector
  ChargedContracts = {c1}
  Escrow = escrow
  Users = {}
  Relayers = {r1}
  MaxChannels = 1
  MaxSequence = 2
  MaxFailures = 2
  MaxPackets = 3
  MaxNesting = 2
  InitialBalance = 6
  Limiters = {l1}
  NoLimiter = none
  Intermediate = intermediate
  MaxOut <- MCMaxOut
  MaxIn <- MCMaxIn
  FeeChoices <- MCFeeChoices
  FeeParamChoices <- MCFeeParams
  IctxParamChoices <- MCIctxParams
  RegisterFees <- MCRegisterFees
  Tokens <- MCTokens
  MsgCounts = {1}
INVARIANTS TokensBacked OutflowWithinQuota 
  
