SPECIFICATION Spec
\* A node stops for good when BeginBlock fails.
CHECK_DEADLOCK FALSE
CONSTANTS
  c1 = c1
  c2 = c2
  v1 = v1
  v2 = v2
  ChainIds = {c1, c2}
  Validators = {v1, v2}
  Fees = {0, 1, 2}
  BondedSets <- MCBondedSets
  Geneses <- MCGeneses
  BlockHeights = {0, 2, 4}
  MaxHeight = 4
  MaxFunds = 5
  TransfersFail = TRUE
INVARIANT
  SchedulesTakeEffect
