\* Two executions, one possibly a retry of the other, and a restart at any
\* point: what recovery owes them.
SPECIFICATION FairSpec
CONSTANTS
  Exec = {e1, e2}
  Backend = "sqlite"
  MaxChunks = 0
  StoreFaults = FALSE
  Canceller = {}
  Reader = {}
  MaxBoots = 2
CHECK_DEADLOCK FALSE
INVARIANTS
  NothingIsStranded
PROPERTIES
  ImplementsLifecycle
