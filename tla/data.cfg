\* Starts of every release, uploads, ingestions and questions of three
\* callers, within the budgets of MCData.
SPECIFICATION FairSpec
CONSTANTS
  d1 = d1
  d2 = d2
  m1 = m1
  i1 = i1
  i2 = i2
  q1 = q1
  t1 = t1
  Task = {t1}
  Doc = {d1, d2}
  Image = {m1}
  Ingestion = {i1, i2}
  Query = {q1}
  Content = {"text", "blank", "scanned"}
  Header = {"alice", "bob", ""}
  NoOwner = ""
  Works <- AllWorks
CHECK_DEADLOCK FALSE
INVARIANTS
  StoredIsThere
PROPERTIES
  StartsAreSafe
  AttachedDocumentsAnswer
  IngestionsEnd
