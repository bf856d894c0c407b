SPECIFICATION Spec
\* The process ends.
CHECK_DEADLOCK FALSE
CONSTANTS
  provId = provId
  consId = consId
  word = word
  ICS = ICS
  None = None
  Parts = {provId, consId, word, ICS}
  Provider <- MCProvider
  Files <- MCFiles
  Flags <- MCFlags
  Sent <- MCSent
  Garbage <- MCGarbage
INVARIANTS
  TypeOK
  NoUseAfterClose
  StopReleases
  ReachesItsChain
PROPERTIES
  HandlersFixed
  SignalEnds
