\* Two startup attempts; two chats, two messages and two requests beside them;
\* two watched runs with two chunks of log; one program that writes two chunks.
SPECIFICATION FairSpec
CONSTANTS
  Attempts = 2
  Chat = {a, b}
  Persona = {p, q}
  MaxTurns = 2
  MaxRequests = 2
  Execution = {e1, e2}
  MaxLog = 2
  MaxAnswers = 2
  Exec = {x1}
  MaxChunks = 2
CHECK_DEADLOCK FALSE
INVARIANTS
  OneSidecar
  ChatsStayApart
  LogsAreWhole
PROPERTIES
  ShellSettles
  WatchedRunsEnd
