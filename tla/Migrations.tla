------------------------------ MODULE Migrations ------------------------------
(***************************************************************************)
(* The start of the backend on its SQLite file: apply_migrations           *)
(* (services/db_migrations.py) runs the numbered scripts of                *)
(* backend/migrations that the ledger does not hold, in order, before the  *)
(* application serves.  executescript commits the BEGIN IMMEDIATE before   *)
(* it, so every statement of a script is a transaction of its own and the  *)
(* process may die between any two.                                        *)
(*                                                                         *)
(* Eight of the scripts stand for the kinds there are: tables, a column,   *)
(* columns with a backfill, a table rebuilt, columns of several tables.    *)
(***************************************************************************)
EXTENDS Naturals, Sequences, FiniteSets

CONSTANT Task       \* rows that workbench_tasks may come to hold

VARIABLES
    schema,         \* [table that exists -> its columns]
    ledger,         \* schema_migrations: [script recorded -> checksum]
    rows,           \* [tasks table -> the tasks in it]
    release,        \* how many scripts the installed release brings
    edited,         \* scripts whose file was changed after it shipped
    boot,           \* [phase, script, at]: the process and where it is
    interrupted     \* history: a start was cut short inside a script

migrationVars == <<schema, ledger, rows, release, edited, boot, interrupted>>

Ledger == "schema_migrations"
Tasks == "workbench_tasks"
TasksV2 == "workbench_tasks_v2"

Create(table, columns) == [op |-> "create", table |-> table, columns |-> columns]
Add(table, column) == [op |-> "add", table |-> table, columns |-> {column}]
Backfill(table, column) == [op |-> "update", table |-> table, columns |-> {column}]
Copy(columns) == [op |-> "copy", table |-> Tasks, columns |-> columns]
Drop(table) == [op |-> "drop", table |-> table, columns |-> {}]
Rename == [op |-> "rename", table |-> TasksV2, columns |-> {}]

LedgerTable == <<Create(Ledger, {"id"})>>
CoreTables == <<Create("conversations", {"turns"})>>
ConversationUsers == <<Add("conversations", "user_name")>>
KnowledgeTables == <<Create("knowledge_documents", {"id"})>>
TaskTable == <<Create(Tasks, {"prompt"})>>
TaskSources ==
    <<Add(Tasks, "source_ids"), Add(Tasks, "auth_mode"),
      Backfill(Tasks, "source_ids")>>

TaskColumns == {"prompt", "source_ids", "auth_mode"}

\* Mutant: the old table is dropped before its rows are copied.
TaskStatusesDropFirst ==
    <<Create(TasksV2, TaskColumns), Drop(Tasks), Copy(TaskColumns), Rename>>

TaskStatuses ==
    <<Create(TasksV2, TaskColumns), Copy(TaskColumns), Drop(Tasks), Rename>>

StorageKeys ==
    <<Add("knowledge_documents", "storage_key"),
      Add("conversations", "storage_key")>>

\* _list_migration_files: 001, 002, 003, 007, 013, 017, 021 and 022.
Scripts == <<LedgerTable, CoreTables, ConversationUsers, KnowledgeTables,
             TaskTable, TaskSources, TaskStatuses, StorageKeys>>

Releases == 1..Len(Scripts)

Checksum(script) == IF script \in edited THEN "edited" ELSE "shipped"

Has(table) == table \in DOMAIN schema

With(function, x, y) == [z \in DOMAIN function \union {x} |->
                            IF z = x THEN y ELSE function[z]]
Without(function, x) == [z \in DOMAIN function \ {x} |-> function[z]]

-----------------------------------------------------------------------------
(***************************************************************************)
(* One statement of a script against the database.                         *)
(***************************************************************************)
Duplicate(s) ==
    s.op = "add" /\ Has(s.table) /\ s.columns \subseteq schema[s.table]

\* No such table or column, a table or row that is there already.
Refuses(s) ==
    CASE s.op = "create" -> FALSE
      [] s.op = "copy" -> ~(/\ Has(Tasks) /\ s.columns \subseteq schema[Tasks]
                            /\ rows[Tasks] \intersect rows[TasksV2] = {})
      [] s.op = "rename" -> ~Has(TasksV2) \/ Has(Tasks)
      [] s.op = "update" -> ~(Has(s.table) /\ s.columns \subseteq schema[s.table])
      [] OTHER -> ~Has(s.table)

\* A table created again keeps what it is (IF NOT EXISTS).
SchemaAfter(s) ==
    CASE s.op = "create" -> IF Has(s.table) THEN schema
                            ELSE With(schema, s.table, s.columns)
      [] s.op = "add" -> With(schema, s.table, schema[s.table] \union s.columns)
      [] s.op = "drop" -> Without(schema, s.table)
      [] s.op = "rename" -> With(Without(schema, TasksV2), Tasks, schema[TasksV2])
      [] OTHER -> schema

RowsAfter(s) ==
    CASE s.op = "copy" -> [rows EXCEPT ![TasksV2] = @ \union rows[Tasks]]
      [] s.op = "drop" -> [rows EXCEPT ![s.table] = {}]
      [] s.op = "rename" -> [rows EXCEPT ![Tasks] = rows[TasksV2], ![TasksV2] = {}]
      [] OTHER -> rows

-----------------------------------------------------------------------------
Phase(phase) == [phase |-> phase, script |-> 0, at |-> 0]

\* Mutant: the last statement of a script is not reached.
AtLastSkipped(script, at) ==
    IF at >= Len(Scripts[script]) /\ at > 1
    THEN [phase |-> "recording", script |-> script, at |-> 0]
    ELSE [phase |-> "running", script |-> script, at |-> at]

At(script, at) ==
    IF at > Len(Scripts[script]) THEN [phase |-> "recording", script |-> script, at |-> 0]
    ELSE [phase |-> "running", script |-> script, at |-> at]

Recorded(script) == script \in DOMAIN ledger

\* The first script of the release the loop does not pass over.
Unsettled == {i \in 1..release : ~Recorded(i) \/ ledger[i] # Checksum(i)}
First(scripts) == CHOOSE i \in scripts : \A j \in scripts : i <= j

Start ==
    /\ boot.phase \in {"down", "refused"}
    /\ boot' = Phase("checking")
    /\ UNCHANGED <<schema, ledger, rows, release, edited, interrupted>>

\* Mutant: a script that is recorded is not compared with its file.
CheckLedgerById ==
    /\ boot.phase = "checking"
    /\ LET pending == {i \in 1..release : ~Recorded(i)} IN
       boot' = IF pending = {} THEN Phase("serving") ELSE At(First(pending), 1)
    /\ UNCHANGED <<schema, ledger, rows, release, edited, interrupted>>

CheckLedger ==
    /\ boot.phase = "checking"
    /\ boot' = IF Unsettled = {} THEN Phase("serving")
               ELSE IF Recorded(First(Unsettled)) THEN Phase("refused")
               ELSE At(First(Unsettled), 1)
    /\ UNCHANGED <<schema, ledger, rows, release, edited, interrupted>>

Statement == Scripts[boot.script][boot.at]

Execute ==
    /\ boot.phase = "running"
    /\ ~Duplicate(Statement) /\ ~Refuses(Statement)
    /\ schema' = SchemaAfter(Statement)
    /\ rows' = RowsAfter(Statement)
    /\ boot' = At(boot.script, boot.at + 1)
    /\ UNCHANGED <<ledger, release, edited, interrupted>>

\* A duplicate column ends the script; the rest of it is not run.
TreatAsApplied ==
    /\ boot.phase = "running"
    /\ Duplicate(Statement)
    /\ boot' = At(boot.script, Len(Scripts[boot.script]) + 1)
    /\ UNCHANGED <<schema, ledger, rows, release, edited, interrupted>>

RefuseToStart ==
    /\ boot.phase = "running"
    /\ Refuses(Statement)
    /\ boot' = Phase("refused")
    /\ UNCHANGED <<schema, ledger, rows, release, edited, interrupted>>

Record ==
    /\ boot.phase = "recording"
    /\ ledger' = With(ledger, boot.script, Checksum(boot.script))
    /\ boot' = Phase("checking")
    /\ UNCHANGED <<schema, rows, release, edited, interrupted>>

\* The disk is full or the file locked: the script ends where it is, and
\* the ROLLBACK finds no transaction.
StatementFails ==
    /\ boot.phase \in {"running", "recording"}
    /\ boot' = Phase("refused")
    /\ interrupted' = TRUE
    /\ UNCHANGED <<schema, ledger, rows, release, edited>>

\* The process dies or is stopped.
Die ==
    /\ boot.phase # "down"
    /\ boot' = Phase("down")
    /\ interrupted' = (interrupted \/ boot.phase \in {"running", "recording"})
    /\ UNCHANGED <<schema, ledger, rows, release, edited>>

\* Another release is installed, an older one too.
Deploy(r) ==
    /\ boot.phase = "down"
    /\ release' = r
    /\ UNCHANGED <<schema, ledger, rows, edited, boot, interrupted>>

\* A shipped file is changed, which backend/migrations/README.md forbids.
\* Bound: one file.
Edit(script) ==
    /\ boot.phase = "down" /\ edited = {}
    /\ edited' = edited \union {script}
    /\ UNCHANGED <<schema, ledger, rows, release, boot, interrupted>>

\* A task is created: the INSERT names the columns the release knows.
KnownColumns == IF release < 6 THEN {"prompt"} ELSE TaskColumns

AddTask(t) ==
    /\ boot.phase = "serving" /\ Has(Tasks)
    /\ KnownColumns \subseteq schema[Tasks]
    /\ rows' = [rows EXCEPT ![Tasks] = @ \union {t}]
    /\ UNCHANGED <<schema, ledger, release, edited, boot, interrupted>>

MigrationVarsAre(tables, recorded, r, phase) ==
    /\ schema = tables
    /\ ledger = recorded
    /\ release = r
    /\ rows = [table \in {Tasks, TasksV2} |-> {}]
    /\ edited = {}
    /\ boot = Phase(phase)
    /\ interrupted = FALSE

\* A new file, or one from before there was a ledger.
FreshInit ==
    \E r \in Releases :
        \/ MigrationVarsAre(<<>>, <<>>, r, "down")
        \/ MigrationVarsAre([t \in {"conversations"} |-> {"turns"}], <<>>, r, "down")

\* Every script of this release has been applied.
FullSchema ==
    [t \in {Ledger, "conversations", "knowledge_documents", Tasks} |->
        CASE t = Ledger -> {"id"}
          [] t = "conversations" -> {"turns", "user_name", "storage_key"}
          [] t = "knowledge_documents" -> {"id", "storage_key"}
          [] t = Tasks -> TaskColumns]

ServingInit ==
    MigrationVarsAre(FullSchema, [i \in Releases |-> "shipped"],
                     Len(Scripts), "serving")
=============================================================================
