---------------------------- MODULE WorkbenchStore ---------------------------
(***************************************************************************)
(* The durable side of the workbench: the row and the event timeline of a  *)
(* task (backend/services/workbench_task_store.py), its workspace output   *)
(* and the artifacts linked to it (workbench_workspace_output_store.py),   *)
(* and the Postgres repository of workbench_runtime.py.                    *)
(*                                                                         *)
(* Every operation is one committed transaction: SQLite opens it with      *)
(* BEGIN IMMEDIATE, Postgres locks the task's row (lock_parent_row) before *)
(* it numbers an event.  An UPDATE that matches no row is rolled back      *)
(* together with its event.                                                *)
(***************************************************************************)
EXTENDS Naturals, Sequences, FiniteSets

CONSTANTS
  Task,      (* the task ids, each a fresh uuid used by one submission      *)
  Export,    (* POST .../exports requests; each makes one artifact          *)
  Backend    (* the runtime metadata backend, "sqlite" or "postgres"        *)

ASSUME BackendAssumption == Backend \in {"sqlite", "postgres"}

VARIABLES
  status,    (* the row's status, "absent" before the row is inserted       *)
  kind,      (* the row's task_kind, "none" before                          *)
  timeline,  (* the event types of the task, by sequence number             *)
  outputs,   (* the tasks that have a workspace output                      *)
  linked     (* metadata.artifacts of the output: the exports linked to it  *)

storeVars == <<status, kind, timeline, outputs, linked>>

-----------------------------------------------------------------------------
TerminalStatus == {"completed", "failed", "cancelled"}
Status == {"absent", "queued", "running"} \cup TerminalStatus

ResearchKind == {"browse", "deep_research"}
TaskKind == {"plan", "canvas"} \cup ResearchKind

TerminalEvent == {"completed", "failed", "cancelled"}
ResearchEvent ==
  {"sources_resolved", "source_skipped", "source_completed", "plan_created",
   "step_started", "follow_up", "synthesis"}
EventType == TerminalEvent \cup ResearchEvent \cup
  {"queued", "started", "output_created", "output_exported",
   "retry_requested", "retry_created"}

IsTerminal(t) == status[t] \in TerminalStatus

-----------------------------------------------------------------------------
(* _append_event: seq is MAX(seq) + 1 of the task, in one transaction.      *)
Record(t, type) == timeline' = [timeline EXCEPT ![t] = Append(@, type)]

(* Mutation: the event is named after the row's status.                      *)
EventOfStatus(to) == to

EventOf(to) == IF to = "running" THEN "started" ELSE to

(* Mutation: the event is committed although the UPDATE matched no row.     *)
MoveStatusNoRollback(t, from, to) ==
  /\ status' = [status EXCEPT ![t] = IF @ \in from THEN to ELSE @]
  /\ Record(t, EventOf(to))
  /\ UNCHANGED <<kind, outputs, linked>>

(* UPDATE ... SET status = to WHERE status IN from, then the event; rowcount *)
(* 0 rolls the transaction back.                                             *)
MoveStatus(t, from, to) ==
  /\ IF status[t] \in from
     THEN /\ status' = [status EXCEPT ![t] = to]
          /\ Record(t, EventOf(to))
     ELSE UNCHANGED <<status, timeline>>
  /\ UNCHANGED <<kind, outputs, linked>>

CreateTask(t, k) ==
  /\ status[t] = "absent"
  /\ status' = [status EXCEPT ![t] = "queued"]
  /\ kind' = [kind EXCEPT ![t] = k]
  /\ Record(t, "queued")
  /\ UNCHANGED <<outputs, linked>>

ClaimTask(t) == MoveStatus(t, {"queued"}, "running")

(* The two backends disagree on the states a task may be completed from.    *)
Completable == IF Backend = "sqlite" THEN {"running"} ELSE {"queued", "running"}

MarkCompleted(t) == MoveStatus(t, Completable, "completed")

(* Mutation: UPDATE ... WHERE id = ? without the status.                    *)
UnsettledOrSettled == {"queued", "running"} \cup TerminalStatus

Unsettled == {"queued", "running"}

MarkFailed(t) == MoveStatus(t, Unsettled, "failed")

(* Mutation: a running task can be cancelled, as in the code sandbox.       *)
CancellableUnsettled == {"queued", "running"}

(* Only what has not been claimed can be cancelled.                         *)
Cancellable == {"queued"}

MarkCancelled(t) == MoveStatus(t, Cancellable, "cancelled")

AppendEvent(t, type) ==
  /\ Record(t, type)
  /\ UNCHANGED <<status, kind, outputs, linked>>

(* The output row and its event; nothing looks at the task's status.        *)
CreateOutput(t) ==
  /\ outputs' = outputs \cup {t}
  /\ Record(t, "output_created")
  /\ UNCHANGED <<status, kind, linked>>

(* replace_workspace_output_metadata: the whole list, no comparison with    *)
(* what is there.                                                           *)
ReplaceLinks(t, links) ==
  /\ linked' = [linked EXCEPT ![t] = links]
  /\ UNCHANGED <<status, kind, timeline, outputs>>

StoreInit ==
  /\ status = [t \in Task |-> "absent"]
  /\ kind = [t \in Task |-> "none"]
  /\ timeline = [t \in Task |-> <<>>]
  /\ outputs = {}
  /\ linked = [t \in Task |-> {}]

StoreTypeOK ==
  /\ status \in [Task -> Status]
  /\ kind \in [Task -> TaskKind \cup {"none"}]
  /\ timeline \in [Task -> Seq(EventType)]
  /\ outputs \subseteq Task
  /\ linked \in [Task -> SUBSET Export]
=============================================================================
