SPECIFICATION Spec
CONSTANTS
  c1 = c1
  c2 = c2
  u1 = u1
  r1 = r1
  feeModule = feeModule
  collector = collector
  escrow = escrow
  ntrn = ntrn
  atom = atom
  Denoms = {ntrn, atom}
  Accounts = {c1, r1, feeModule, collector, escrow}
  FeeModule = feeModule
  Contracts = {c1}
  IcaIds = {"ica"}
  FeeCollector = collector
  ChargedContracts = {c1}
  Escrow = escrow
  Users = {}
  Relayers = {r1}
  MaxChannels = 3
  MaxSequence = 2
  MaxFailures = 2
  MaxPackets = 3
  MaxNesting = 1
  InitialBalance = 4
  FeeChoices <- MCFeeChoices
  FeeParamChoices <- MCFeeParams
  IctxParamChoices <- MCIctxParams
  RegisterFees <- MCRegisterFees
  Tokens <- MCTokens
  MsgCounts = {1, 2}
INVARIANTS   CallbackExactlyOnce
