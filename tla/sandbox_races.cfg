\* Every race on one execution: two cancellations, the dispatched worker, the
\* recovery thread, a crash and failing store calls, on the Postgres backend.
SPECIFICATION Spec
CONSTANTS
  Exec = {e1}
  Backend = "postgres"
  MaxChunks = 1
  StoreFaults = TRUE
  Canceller = {c1, c2}
  Reader = {}
  MaxBoots = 2
SYMMETRY Symmetry
CHECK_DEADLOCK FALSE
INVARIANTS
  SingleLaunch
  TimelineIsTrue
  CancelReplyIsFinal
PROPERTIES
  TerminalIsFinal
