SPECIFICATION FairSpec
CONSTANTS
  Provider = Provider
  c1 = c1
  c2 = c2
  Consumers = {c1, c2}
  Lenient = {c1}
  Hashed = {c2}
  Unparsable = Unparsable
  NoBlock = NoBlock
  Blocks <- MCBlocks
  Configs <- BothConfigured
  ActiveSets <- AnyActive
  MaxHeight = 2
  HaltHeight = 0
  Troubles = {"refuse", "rpc", "lost", "info", "query", "provider", "crash", "consumerCrash"}
  MaxTroubles = 2
PROPERTIES
  DecidedIsCommitted
