\* A sidecar ends while the startup thread finds it healthy.
SPECIFICATION FairSpec
CONSTANTS
  Attempts = 2
  Chat = {a, b}
  Persona = {p, q}
  MaxTurns = 2
  MaxRequests = 2
  Execution = {e1, e2}
  MaxLog = 2
  MaxAnswers = 2
  Exec = {x1}
  MaxChunks = 2
CHECK_DEADLOCK FALSE
PROPERTY FailsClosed
