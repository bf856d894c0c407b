SPECIFICATION Spec
\* The ledger is bounded, and nodes that disagree stop.
CHECK_DEADLOCK FALSE
CONSTANTS
  c1 = c1
  c2 = c2
  n1 = n1
  n2 = n2
  Nodes = {n1, n2}
  Quorums <- MCQuorums
  Consumers = {c1, c2}
  Sorted <- MCSorted
  Lenient = {c1}
  Hashed = {c1}
  Blocks <- MCBlocks
  NoBlock = NoBlock
  Configs <- MCConfigs
  Reached <- MCReached
  Validators = {}
  Fees = {}
  BondedSets <- NoValidators
  Geneses <- MCGeneses
  BlockHeights = {}
  MaxHeight = 3
  MaxFunds = 2
INVARIANTS
  TypeOK
  DivergenceHasCause
  RegularNodesAgree
  ServedHasPaid
PROPERTIES
  NodesAreAtomic
