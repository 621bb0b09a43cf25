\* Two clients and four calls for one slot, a thread for each of them or one for
\* both, in two ticks of the clock.
SPECIFICATION FairSpec
CONSTANTS
  Client = {a, b}
  MaxConcurrent = 1
  Failures = 2
  OpenSec = 1
  Attempts = 2
  Ttl = 1
  MaxTime = 2
  Threads = 2
  MaxCalls = 4
CHECK_DEADLOCK FALSE
INVARIANTS
  SlotsAreCounted
  ReadsAreSound
PROPERTIES
  CallsReturn
