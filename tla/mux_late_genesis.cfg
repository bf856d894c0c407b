SPECIFICATION Spec
CONSTANTS
  Provider = Provider
  c1 = c1
  c2 = c2
  Consumers = {c1, c2}
  Lenient = {c1, c2}
  Hashed = {}
  Unparsable = Unparsable
  NoBlock = NoBlock
  Blocks <- MCBlocks
  Configs <- SecondAddedLater
  ActiveSets <- AnyActive
  MaxHeight = 2
  HaltHeight = 0
  Troubles = {"crash"}
  MaxTroubles = 1
INVARIANT
  GenesisHasValidators
