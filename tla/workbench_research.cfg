\* A research task through either engine, or a canvas and its export, with
\* failing store calls, a cancellation and an interrupting recovery; and a
\* plan with its retry.
SPECIFICATION Spec
CONSTANTS
  Task = {t1, t2}
  Export = {x1}
  Backend = "sqlite"
  Source = {s1, s2}
  Found = {0, 8}
  MaxSteps = 3
  Engine = {"legacy", "langgraph"}
  StoreFaults = TRUE
  Requested = {"plan", "canvas", "browse", "deep_research"}
  Together = {"plan"}
  Canceller = {c1}
  MaxBoots = 1
SYMMETRY Symmetry
CHECK_DEADLOCK FALSE
INVARIANTS
  TasksRunOnce
  ResearchIsSound
