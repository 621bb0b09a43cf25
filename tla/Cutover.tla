------------------------------- MODULE Cutover --------------------------------
(***************************************************************************)
(* The move of the runtime metadata from SQLite to Postgres                *)
(* (backend/services/runtime_metadata_snapshot.py and                      *)
(* runtime_metadata_inventory.py, the schema of backend/alembic/versions): *)
(* a snapshot is exported table by table while the server goes on writing, *)
(* imported in one transaction into an empty database, compared, and the   *)
(* server is then started on Postgres.                                     *)
(***************************************************************************)
EXTENDS Naturals, Sequences

CONSTANTS
  Growing,      \* the tables the server writes rows of, others stay empty
  MaxRows,      \* rows a table comes to have
  MaxExports    \* exports that are taken

(* RUNTIME_METADATA_TABLES, in the order of export and import.               *)
Inventory == <<
  "conversations", "sessions", "session_messages", "idempotency_keys",
  "chat_artifacts", "knowledge_documents", "knowledge_ingestions",
  "knowledge_chunks", "media_uploads", "auth_users", "auth_user_identities",
  "workbench_tasks", "workbench_task_events", "workbench_workspace_outputs",
  "code_sandbox_executions", "code_sandbox_execution_events",
  "code_sandbox_execution_logs", "schema_migrations">>

(* The schema: the tables a table's foreign keys refer to, and whether       *)
(* Postgres numbers its rows.                                                *)
Table(name, parents, identity) ==
  [name |-> name, parents |-> parents, identity |-> identity]

ChatTables ==
  {Table("conversations", {}, TRUE), Table("sessions", {}, FALSE),
   Table("session_messages", {}, FALSE), Table("idempotency_keys", {}, FALSE),
   Table("chat_artifacts", {}, FALSE), Table("schema_migrations", {}, FALSE)}

KnowledgeTables ==
  {Table("knowledge_documents", {}, FALSE),
   Table("knowledge_ingestions", {"knowledge_documents"}, FALSE),
   Table("knowledge_chunks", {"knowledge_ingestions", "knowledge_documents"}, FALSE),
   Table("media_uploads", {}, FALSE)}

WorkbenchTables ==
  {Table("workbench_tasks", {}, FALSE),
   Table("workbench_task_events", {"workbench_tasks"}, TRUE)}

OutputTables == {Table("workbench_workspace_outputs", {"workbench_tasks"}, FALSE)}

SandboxTables ==
  {Table("code_sandbox_executions", {}, FALSE),
   Table("code_sandbox_execution_events", {"code_sandbox_executions"}, FALSE),
   Table("code_sandbox_execution_logs", {"code_sandbox_executions"}, FALSE)}

AccountTables ==
  {Table("auth_users", {}, FALSE), Table("auth_user_identities", {"auth_users"}, FALSE)}

Schema == ChatTables \union KnowledgeTables \union WorkbenchTables \union OutputTables
            \union SandboxTables \union AccountTables

Parents(t) == UNION {table.parents : table \in {x \in Schema : x.name = t}}

ASSUME CutoverAssumption ==
  /\ MaxRows \in Nat /\ MaxExports \in Nat
  /\ \A t \in Growing : (\E table \in Schema : table.name = t) /\ Parents(t) \subseteq Growing

Numbered == {table.name : table \in {x \in Schema : x.identity /\ x.name \in Growing}}
ResetTasksOnly == {"workbench_task_events"}
Reset == {"conversations", "workbench_task_events"}  \* those the import resets

VARIABLES
  source,     \* SQLite: of each table, the rows, numbered per table
  snapshot,   \* the exported file
  target,     \* Postgres
  staged,     \* what the transaction of the import has written
  numbers,    \* the next number of each numbered table
  move,       \* the point the move is at
  collided    \* whether Postgres gave out a number twice

cutoverVars == <<source, snapshot, target, staged, numbers, move, collided>>

Nothing == [t \in Growing |-> {}]
Follow(pc) == move' = [move EXCEPT !.pc = pc, !.at = 0]

(* What is left of the inventory; a table without rows has nothing to do.    *)
Left == {n \in DOMAIN Inventory : n > move.at /\ Inventory[n] \in Growing}
Exhausted == Left = {}
Goes(n) == move' = [move EXCEPT !.at = n]
IsNext(n) == n \in Left /\ \A k \in Left : n <= k

(* Row n of a table belongs to row n of each of its parents.                 *)
Refers(db, t) == \A p \in Parents(t) : db[t] \subseteq db[p]
Resolves(db) == \A t \in Growing : Refers(db, t)

(* The server writes to SQLite, a row after those it belongs to.             *)
WriteSource(t) ==
    /\ move.pc # "serving"
    /\ \E n \in 1..MaxRows :
         /\ source[t] = 1..(n - 1) /\ \A p \in Parents(t) : n \in source[p]
         /\ source' = [source EXCEPT ![t] = @ \union {n}]
    /\ UNCHANGED <<snapshot, target, staged, numbers, move, collided>>

BeginExport ==
    /\ move.pc \in {"idle", "exported"} /\ move.exports < MaxExports
    /\ move' = [pc |-> "export", at |-> 0, exports |-> move.exports + 1]
    /\ snapshot' = Nothing
    /\ UNCHANGED <<source, target, staged, numbers, collided>>

(* Each table is read by a statement, and so in a transaction, of its own.   *)
FetchTableRows ==
    /\ move.pc = "export"
    /\ IF Exhausted
         THEN Follow("exported") /\ UNCHANGED snapshot
         ELSE \E n \in Left :
                /\ IsNext(n) /\ Goes(n)
                /\ snapshot' = [snapshot EXCEPT ![Inventory[n]] = source[Inventory[n]]]
    /\ UNCHANGED <<source, target, staged, numbers, collided>>

(* Every table has to be empty.                                              *)
BeginImport ==
    /\ move.pc = "exported" /\ target = Nothing
    /\ Follow("import") /\ staged' = Nothing
    /\ UNCHANGED <<source, snapshot, target, numbers, collided>>

(* The rows of a table are inserted; a foreign key that does not resolve     *)
(* ends the transaction.                                                     *)
InsertRows ==
    /\ move.pc = "import"
    /\ \E n \in Left :
         /\ IsNext(n)
         /\ staged' = [staged EXCEPT ![Inventory[n]] = snapshot[Inventory[n]]]
         /\ IF Refers(staged', Inventory[n]) THEN Goes(n) ELSE Follow("exported")
    /\ UNCHANGED <<source, snapshot, target, numbers, collided>>

(* RESTART WITH the highest number and one.                                  *)
CommitImport ==
    /\ move.pc = "import" /\ Exhausted
    /\ target' = staged
    /\ numbers' = [t \in Numbered |->
         IF t \in Reset
           THEN 1 + (CHOOSE n \in 0..MaxRows : staged[t] = 1..n)
           ELSE numbers[t]]
    /\ Follow("imported")
    /\ UNCHANGED <<source, snapshot, staged, collided>>

(* The parity check; the server is started on Postgres after it.             *)
CompareSnapshot ==
    /\ move.pc = "imported"
    /\ Follow(IF target = snapshot THEN "serving" ELSE "idle")
    /\ UNCHANGED <<source, snapshot, target, staged, numbers, collided>>

(* Postgres numbers the rows of the server; a number that is taken is a      *)
(* violation of the primary key.                                             *)
WriteTarget(t) ==
    /\ move.pc = "serving" /\ numbers[t] <= 2 * MaxRows
    /\ numbers' = [numbers EXCEPT ![t] = @ + 1]
    /\ collided' = (collided \/ numbers[t] \in target[t])
    /\ target' = [target EXCEPT ![t] = @ \union {numbers[t]}]
    /\ UNCHANGED <<source, snapshot, staged, move>>

(* Export or import is cut short: the file is not there, or the transaction  *)
(* is rolled back.                                                           *)
MoveDies ==
    /\ \/ move.pc = "export" /\ Follow("idle")
       \/ move.pc = "import" /\ Follow("exported")
    /\ UNCHANGED <<source, snapshot, target, staged, numbers, collided>>

CutoverStep ==
    \/ \E t \in Growing : WriteSource(t)
    \/ BeginExport \/ FetchTableRows \/ BeginImport \/ InsertRows \/ CommitImport
    \/ CompareSnapshot
    \/ \E t \in Numbered : WriteTarget(t)
    \/ MoveDies

CutoverInit ==
    /\ source = Nothing /\ snapshot = Nothing /\ target = Nothing /\ staged = Nothing
    /\ numbers = [t \in Numbered |-> 1]
    /\ move = [pc |-> "idle", at |-> 0, exports |-> 0]
    /\ collided = FALSE
=============================================================================
