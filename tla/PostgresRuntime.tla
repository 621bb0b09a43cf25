--------------------------- MODULE PostgresRuntime ---------------------------
(***************************************************************************)
(* The Postgres repositories of the code sandbox and the workbench         *)
(* (PostgresCodeSandboxExecutionRepository,                                *)
(* PostgresWorkbenchTaskRepository, postgres_runtime_support): every call  *)
(* opens a connection and runs one READ COMMITTED transaction, statement   *)
(* by statement, next to those of other threads.  A job is an execution    *)
(* or a task: a record, the events numbered within it and, for an          *)
(* execution, its numbered log chunks.                                     *)
(*                                                                         *)
(* SandboxStore and WorkbenchStore take each of these calls for one step;  *)
(* PostgresRuntime shows that they may.                                    *)
(***************************************************************************)
EXTENDS Naturals, Sequences, FiniteSets

CONSTANTS
    Exec,           \* rows of code_sandbox_executions
    Task,           \* rows of workbench_tasks
    Connection,     \* bound: the calls of a behaviour, one each
    Text            \* output a run may hand over, in chunks

\* They are rows of two tables, each with a fresh uuid.
ASSUME JobAssumption == Exec \intersect Task = {}

Job == Exec \union Task

VARIABLES
    record,         \* committed rows: [Job -> columns]
    events,         \* committed events: [Job -> {[seq, type]}]
    logs,           \* committed log chunks: [Job -> sequence numbers]
    outputs,        \* tasks with a committed workspace output
    conn            \* [Connection -> its call and how far it is]

postgresVars == <<record, events, logs, outputs, conn>>

NoRow == [status |-> "absent", detail |-> "none", output |-> 0, logSeq |-> 0,
          kind |-> "none"]

-----------------------------------------------------------------------------
(***************************************************************************)
(* The calls: INSERT a record, UPDATE it WHERE status IN from, append to   *)
(* the log, add an output, or none of these; then an event.                *)
(***************************************************************************)
Insert(j, kind) ==
    [op |-> "insert", job |-> j, type |-> "queued", from |-> {"absent"},
     set |-> [status |-> "queued", kind |-> kind]]

Update(j, from, set, type) ==
    [op |-> "update", job |-> j, type |-> type, from |-> from, set |-> set]

Plain(op, j, type) ==
    [op |-> op, job |-> j, type |-> type, from |-> {}, set |-> <<>>]

CreateExecution(e) == Insert(e, "none")

StartExecution(e) ==
    Update(e, {"queued"}, [status |-> "running"], "started")

CompleteExecution(e, text) ==
    Update(e, {"queued", "running"},
           [status |-> "completed", detail |-> "none", output |-> text], "completed")

\* Mutant: UPDATE ... WHERE id = ?
FailExecutionAny(e, detail, text) ==
    Update(e, {"queued", "running", "completed", "failed", "cancelled"},
           [status |-> "failed", detail |-> detail, output |-> text], "failed")

FailExecution(e, detail, text) ==
    Update(e, {"queued", "running"},
           [status |-> "failed", detail |-> detail, output |-> text], "failed")

CancelExecution(e, detail) ==
    Update(e, {"queued", "running"},
           [status |-> "cancelled", detail |-> detail], "cancelled")

AppendLogChunk(e) == Plain("log", e, "log")

AppendExecutionEvent(e) == Plain("event", e, "cancel_requested")

CreateTask(t, kind) == Insert(t, kind)

ClaimTask(t) == Update(t, {"queued"}, [status |-> "running"], "started")

CompleteTask(t) ==
    Update(t, {"queued", "running"}, [status |-> "completed"], "completed")

FailTask(t) == Update(t, {"queued", "running"}, [status |-> "failed"], "failed")

\* Mutant: a task that runs can be cancelled.
CancelTaskRunning(t) ==
    Update(t, {"queued", "running"}, [status |-> "cancelled"], "cancelled")

CancelTask(t) == Update(t, {"queued"}, [status |-> "cancelled"], "cancelled")

CreateOutput(t) == Plain("output", t, "output_created")

AppendTaskEvent(t) == Plain("event", t, "retry_created")

ExecutionCalls(e) ==
    {CreateExecution(e), StartExecution(e), CancelExecution(e, "by_request"),
     AppendLogChunk(e), AppendExecutionEvent(e)}
    \union {CompleteExecution(e, text) : text \in Text}
    \union {FailExecution(e, "runtime_failed", text) : text \in Text}

TaskCalls(t) ==
    {CreateTask(t, "canvas"), ClaimTask(t), CompleteTask(t), FailTask(t),
     CancelTask(t), CreateOutput(t), AppendTaskEvent(t)}

Calls == UNION ({ExecutionCalls(e) : e \in Exec} \union {TaskCalls(t) : t \in Task})

-----------------------------------------------------------------------------
(***************************************************************************)
(* Locks.  SELECT ... FOR UPDATE and UPDATE lock the record until the end  *)
(* of the transaction; the foreign key of an output shares it meanwhile.   *)
(* A record that is not committed is locked by nobody but its inserter.    *)
(***************************************************************************)
NoCall == [pc |-> "idle", call |-> Plain("none", "none", "none"), new |-> NoRow,
           seq |-> 0]

Open == {"locking", "writing", "numbering", "inserting", "committing"}

JobOf(c) == conn[c].call.job
OpOf(c) == conn[c].call.op

HoldsRow(c) ==
    \/ conn[c].pc \in {"inserting", "committing"}
    \/ conn[c].pc = "numbering" /\ OpOf(c) \in {"insert", "update", "log"}
    \/ conn[c].pc = "writing" /\ OpOf(c) \in {"update", "log"}

SharesRow(c) == conn[c].pc = "numbering" /\ OpOf(c) = "output"

Others(c) == {d \in Connection \ {c} : JobOf(d) = JobOf(c)}

FreeToShare(c) == \A d \in Others(c) : ~HoldsRow(d)

FreeToLock(c) == \A d \in Others(c) : ~HoldsRow(d) /\ ~SharesRow(d)

-----------------------------------------------------------------------------
At(c, pc) == conn' = [conn EXCEPT ![c].pc = pc]

\* The connection is closed; what was not committed is gone.
Close(c) == conn' = [conn EXCEPT ![c] = [NoCall EXCEPT !.pc = "closed"]]

FirstPc(call) ==
    CASE call.op \in {"insert", "output"} -> "writing"
      [] call.op \in {"update", "log"} -> "locking"
      [] OTHER -> "numbering"

\* Mutant: a task may be claimed twice.
CallableByAll(call) ==
    /\ (call.op = "insert") = (record[call.job] = NoRow)
    /\ call.op = "insert" =>
        \A c \in Connection : OpOf(c) = call.op => JobOf(c) # call.job

\* Ids are fresh: nobody else inserts the record, and nobody names one that was
\* not stored.  Whoever claimed a task is alone to add its output.
Callable(call) ==
    /\ (call.op = "insert") = (record[call.job] = NoRow)
    /\ call.op \in {"insert", "output"} =>
        \A c \in Connection : OpOf(c) = call.op => JobOf(c) # call.job

Begin(c, call) ==
    /\ conn[c].pc = "idle" /\ Callable(call)
    /\ conn' = [conn EXCEPT ![c] = [NoCall EXCEPT !.pc = FirstPc(call), !.call = call]]
    /\ UNCHANGED <<record, events, logs, outputs>>

\* Mutant: SELECT 1 FROM ... without FOR UPDATE.
LockParentRowNot(c) ==
    /\ conn[c].pc = "locking"
    /\ At(c, "writing")
    /\ UNCHANGED <<record, events, logs, outputs>>

LockParentRow(c) ==
    /\ conn[c].pc = "locking"
    /\ FreeToLock(c)
    /\ At(c, "writing")
    /\ UNCHANGED <<record, events, logs, outputs>>

\* COALESCE(MAX(seq), 0) + 1
NextSequence(used) ==
    1 + CHOOSE n \in used \union {0} : \A k \in used : k <= n

Numbers(j) == {event.seq : event \in events[j]}

\* What the statement makes of the record.
Written(c) ==
    LET old == record[JobOf(c)]
        set == conn[c].call.set
    IN IF OpOf(c) = "log"
       THEN [old EXCEPT !.logSeq = NextSequence(logs[JobOf(c)]), !.output = @ + 1]
       ELSE [column \in DOMAIN old |->
                IF column \in DOMAIN set THEN set[column] ELSE old[column]]

Matches(c) == OpOf(c) = "update" => record[JobOf(c)].status \in conn[c].call.from

Write(c) ==
    /\ conn[c].pc = "writing"
    /\ OpOf(c) = "output" => FreeToShare(c)
    /\ IF Matches(c)
       THEN conn' = [conn EXCEPT ![c].pc = "numbering", ![c].new = Written(c)]
       ELSE Close(c)
    /\ UNCHANGED <<record, events, logs, outputs>>

\* lock_parent_row, again or for the first time, and next_scoped_sequence.
Number(c) ==
    /\ conn[c].pc = "numbering"
    /\ FreeToLock(c)
    /\ conn' = [conn EXCEPT ![c].pc = "inserting",
                            ![c].seq = NextSequence(Numbers(JobOf(c)))]
    /\ UNCHANGED <<record, events, logs, outputs>>

\* The number of an event is unique within its job.
InsertEvent(c) ==
    /\ conn[c].pc = "inserting"
    /\ At(c, IF conn[c].seq \in Numbers(JobOf(c)) THEN "collided" ELSE "committing")
    /\ UNCHANGED <<record, events, logs, outputs>>

Commit(c) ==
    /\ conn[c].pc = "committing"
    /\ LET j == JobOf(c) IN
       /\ record' = [record EXCEPT ![j] = IF OpOf(c) \in {"event", "output"} THEN @
                                    ELSE conn[c].new]
       /\ events' = [events EXCEPT ![j] = @ \union
                        {[seq |-> conn[c].seq, type |-> conn[c].call.type]}]
       /\ logs' = [logs EXCEPT ![j] = IF OpOf(c) = "log"
                                      THEN @ \union {conn[c].new.logSeq} ELSE @]
       /\ outputs' = IF OpOf(c) = "output" THEN outputs \union {j} ELSE outputs
    /\ Close(c)

\* The connection is lost.
Abort(c) ==
    /\ conn[c].pc \in Open
    /\ Close(c)
    /\ UNCHANGED <<record, events, logs, outputs>>

Step(c) ==
    LockParentRow(c) \/ Write(c) \/ Number(c) \/ InsertEvent(c) \/ Commit(c)

PostgresStep ==
    \E c \in Connection :
        \/ Step(c) \/ Abort(c)
        \/ \E call \in Calls : Begin(c, call)

\* A job may have been stored, and started, before.
Histories == {<<>>, <<"queued">>, <<"queued", "started">>}

StatusAfter(history) ==
    CASE Len(history) = 0 -> "absent" [] Len(history) = 1 -> "queued"
      [] OTHER -> "running"

PostgresInit ==
    /\ \E history \in [Job -> Histories] :
        /\ record = [j \in Job |-> [NoRow EXCEPT !.status = StatusAfter(history[j]),
                        !.kind = IF j \in Task /\ history[j] # <<>> THEN "canvas" ELSE @]]
        /\ events = [j \in Job |->
                {[seq |-> n, type |-> history[j][n]] : n \in DOMAIN history[j]}]
    /\ logs = [j \in Job |-> {}]
    /\ outputs = {}
    /\ conn = [c \in Connection |-> NoCall]

-----------------------------------------------------------------------------
(***************************************************************************)
(* What the Postgres repositories owe to the callers that take each of     *)
(* their methods for one step.                                             *)
(***************************************************************************)

Timeline(j) ==
    [n \in 1..Cardinality(events[j]) |->
        (CHOOSE event \in events[j] : event.seq = n).type]

Executions == INSTANCE SandboxStore WITH
    Backend <- "postgres",
    status <- [e \in Exec |-> record[e].status],
    detail <- [e \in Exec |-> record[e].detail],
    logSeq <- [e \in Exec |-> record[e].logSeq],
    output <- [e \in Exec |-> record[e].output],
    timeline <- [e \in Exec |-> Timeline(e)]

Tasks == INSTANCE WorkbenchStore WITH
    Backend <- "postgres",
    Export <- {},
    status <- [t \in Task |-> record[t].status],
    kind <- [t \in Task |-> record[t].kind],
    timeline <- [t \in Task |-> Timeline(t)],
    linked <- [t \in Task |-> {}]

(***************************************************************************)
(* The events of a job are numbered 1, 2, 3 ... without a gap, so are its  *)
(* log chunks, as far as last_log_seq says; and no call fails because      *)
(* another one took its number (lock_parent_row, next_scoped_sequence).    *)
(***************************************************************************)
NumbersNeverCollide ==
    /\ \A j \in Job :
        /\ Numbers(j) = 1..Cardinality(events[j])
        /\ logs[j] = 1..record[j].logSeq
    /\ \A c \in Connection : conn[c].pc # "collided"

(***************************************************************************)
(* Whatever transactions interleave, what is committed changes by whole    *)
(* operations of SandboxStore: a guard never passes on a status that has   *)
(* changed by the time its row is written, and no half of an operation is  *)
(* ever seen (PostgresCodeSandboxExecutionRepository).                     *)
(***************************************************************************)
ExecutionStep(e) ==
    \/ Executions!CreateExecution(e)
    \/ Executions!MarkStarted(e)
    \/ \E text \in Text : Executions!MarkCompleted(e, text)
    \/ \E text \in Text : Executions!MarkFailed(e, "runtime_failed", text)
    \/ Executions!MarkCancelled(e, "by_request")
    \/ Executions!AppendLogChunk(e)
    \/ Executions!AppendEvent(e, "cancel_requested")

ExecutionsAreAtomic ==
    [][\/ UNCHANGED <<record, events>>
       \/ \E e \in Exec : ExecutionStep(e)]_(Executions!storeVars)

(***************************************************************************)
(* The same of the tasks, their outputs and WorkbenchStore                 *)
(* (PostgresWorkbenchTaskRepository).                                      *)
(***************************************************************************)
TaskStep(t) ==
    \/ Tasks!CreateTask(t, "canvas")
    \/ Tasks!ClaimTask(t)
    \/ Tasks!MarkCompleted(t)
    \/ Tasks!MarkFailed(t)
    \/ Tasks!MarkCancelled(t)
    \/ Tasks!CreateOutput(t)
    \/ Tasks!AppendEvent(t, "retry_created")

TasksAreAtomic ==
    [][\/ UNCHANGED <<record, events>>
       \/ \E t \in Task : TaskStep(t)]_(Tasks!storeVars)

(***************************************************************************)
(* The transactions never wait for each other: of those that want a row,   *)
(* one can go on, because the row is locked before anything else is        *)
(* touched, or only shared by the one output there is (lock_parent_row).   *)
(***************************************************************************)
Waits(c) ==
    \/ conn[c].pc \in {"locking", "numbering"} /\ ~FreeToLock(c)
    \/ conn[c].pc = "writing" /\ OpOf(c) = "output" /\ ~FreeToShare(c)

NobodyDeadlocks ==
    \A c \in Connection : Waits(c) =>
        \E d \in Others(c) : conn[d].pc \in Open /\ ~Waits(d)

(***************************************************************************)
(* TransactionsGetThrough.  However their statements interleave, no two    *)
(* transactions take one number, and none waits for ever.                  *)
(***************************************************************************)
TransactionsGetThrough == NumbersNeverCollide /\ NobodyDeadlocks

(***************************************************************************)
(* JobsAreAtomic.  What the transactions of both repositories commit are   *)
(* whole operations of SandboxStore and WorkbenchStore.                    *)
(***************************************************************************)
JobsAreAtomic == ExecutionsAreAtomic /\ TasksAreAtomic
=============================================================================
