\* Three clients and four calls for two slots.
SPECIFICATION Spec
CONSTANTS
  Client = {a, b, c}
  MaxConcurrent = 2
  Failures = 2
  OpenSec = 2
  Attempts = 2
  Ttl = 2
  MaxTime = 3
  Threads = 3
  MaxCalls = 4
CHECK_DEADLOCK FALSE
INVARIANTS
  OnlyOverflowWaits
