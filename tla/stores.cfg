\* Three requests with one key and two payloads, on either route, with
\* disconnects at every point, failing stores, a crash, and time; three calls
\* on an execution and a task in Postgres; two releases; four lines, three
\* commits, two files kept, two jobs killed; two chats, which
\* one owner may take; a move of three tables with two rows each, exported twice.
SPECIFICATION StoresSpec
CONSTANTS
  Request = {c1, c2, c3}
  Payload = {p1, p2}
  TTL = 2
  StoreFaults = TRUE
  MaxCrashes = 1
  Exec = {e1}
  Task = {t1}
  Connection = {c1, c2, c3}
  Text = {2}
  Version = {v1, v2}
  MaxLines = 4
  MaxCommits = 3
  KeepFiles = 2
  MaxDeaths = 2
  Growing = {"conversations", "workbench_tasks", "workbench_task_events"}
  MaxRows = 2
  MaxExports = 2
  Session = {s1, s2}
  Owner = {"", "o1"}
SYMMETRY Symmetry
CHECK_DEADLOCK FALSE
INVARIANTS
  ReplayIsOwn
  AnswersOncePerTTL
  PendingHasOwner
  TransactionsGetThrough
  DeploymentsAreHonest
  
  CutoverIsSound
PROPERTIES
  JobsAreAtomic
