SPECIFICATION Spec
CONSTANTS
  Provider = Provider
  c1 = c1
  c2 = c2
  Consumers = {c1, c2}
  Lenient = {c1}
  Hashed = {c2}
  Unparsable = Unparsable
  NoBlock = NoBlock
  Blocks <- MCBlocks
  Configs <- BothConfigured
  ActiveSets <- AnyActive
  MaxHeight = 3
  HaltHeight = 0
  Troubles = {"refuse", "rpc", "lost", "query", "provider", "block", "crash", "consumerCrash"}
  MaxTroubles = 2
INVARIANTS
  TypeOK
  ConsumerNeverAhead
  ResultsMatchExecution
  NeverInitializedAgain
PROPERTIES
  ImplementsSharedHeight
  ProviderExecutesFirst
  RejectedLeftAlone
