SPECIFICATION Spec
CONSTANTS
  Provider = Provider
  c1 = c1
  c2 = c2
  Consumers = {c1, c2}
  Lenient = {c1, c2}
  Hashed = {}
  Unparsable = Unparsable
  NoBlock = NoBlock
  Blocks <- MCBlocks
  Configs <- BothConfigured
  ActiveSets <- AnyActive
  MaxHeight = 2
  HaltHeight = 0
  Troubles = {"refuse"}
  MaxTroubles = 1
INVARIANT
  SharesProviderHeight
