\* Chat turns: one of every kind and a short one on one session, the owner
\* renaming and deleting it, store faults, disconnects and a crash, on SQLite.
\* Requests: with and without owner headers, three deployments, and what
\* earlier releases left, within the budgets of MCServer.
SPECIFICATION ServerSpec
CONSTANTS
  t1 = t1
  t2 = t2
  Turn = {t1, t2}
  Token = {"a", "x", "y", "l1", "l2", "chart", "unavailable"}
  Link = {"l1", "l2"}
  Preamble = {"x"}
  Forbidden <- Phrases
  Ask <- Turns
  Faults = TRUE
  Backend = "sqlite"
  MaxOps = 1
  Connector <- Bindings
  Header <- Headers
  Deployments <- Settings
  Histories <- Past
  Budgets <- Bounds
CHECK_DEADLOCK FALSE
INVARIANTS
  NothingUnsafeLeaves
  TurnsAreWhole
  BytesBehindLinks
  
PROPERTIES
  RenameSticks
