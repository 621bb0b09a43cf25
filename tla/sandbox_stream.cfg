\* A log stream over an execution that is run, cancelled, reaped or replayed.
SPECIFICATION FairSpec
CONSTANTS
  Exec = {e1}
  Backend = "sqlite"
  MaxChunks = 1
  StoreFaults = FALSE
  Canceller = {c1}
  Reader = {r1}
  MaxBoots = 1
CHECK_DEADLOCK FALSE
INVARIANTS
  LogIsWhole
PROPERTIES
  StreamsEnd
