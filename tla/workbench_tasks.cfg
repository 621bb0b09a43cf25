\* Plans and canvases: retried, cancelled, replayed and interrupted by a
\* restart at any point; what recovery owes them.
SPECIFICATION FairSpec
CONSTANTS
  Task = {t1, t2}
  Export = {}
  Backend = "postgres"
  Source = {}
  Found = {0}
  MaxSteps = 1
  Engine = {}
  StoreFaults = FALSE
  Requested = {"plan", "canvas"}
  Together = {"plan", "canvas"}
  Canceller = {c1}
  MaxBoots = 2
CHECK_DEADLOCK FALSE
INVARIANTS
  NothingIsStranded
  CancelledNeverRan
PROPERTIES
  ImplementsLifecycle
