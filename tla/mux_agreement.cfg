SPECIFICATION Spec
CONSTANTS
  Provider = Provider
  c1 = c1
  c2 = c2
  Consumers = {c1, c2}
  Lenient = {c1}
  Hashed = {c2}
  Unparsable = Unparsable
  NoBlock = NoBlock
  Blocks <- MCBlocks
  Configs <- AnyConfigured
  ActiveSets <- AnyActive
  MaxHeight = 4
  HaltHeight = 4
  Troubles = {"refuse", "info", "provider", "block", "crash"}
  MaxTroubles = 3
INVARIANTS
  HashCoversCommitted
  GenesisBeforeBlocks
  ServedExecutes
PROPERTIES
  ServedIsActive
  BlocksAreAtomic
