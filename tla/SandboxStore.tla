---------------------------- MODULE SandboxStore ----------------------------
(***************************************************************************)
(* The durable side of a code sandbox execution: its row, its log and its  *)
(* event timeline (backend/services/code_sandbox_execution_store.py,       *)
(* code_sandbox_log_store.py and the Postgres repository of                *)
(* code_sandbox_runtime.py).                                               *)
(*                                                                         *)
(* Every operation below is one committed transaction: SQLite opens it     *)
(* with BEGIN IMMEDIATE, Postgres takes SELECT ... FOR UPDATE on the       *)
(* execution's row before it touches the row or computes a sequence        *)
(* number.  A status update whose WHERE clause matches no row is rolled    *)
(* back together with its event, hence changes nothing.                    *)
(***************************************************************************)
EXTENDS Naturals, Sequences, FiniteSets

CONSTANTS
  Exec,      (* the execution ids, each a fresh uuid used by one submission *)
  Backend    (* the runtime metadata backend, "sqlite" or "postgres"        *)

ASSUME BackendAssumption == Backend \in {"sqlite", "postgres"}

VARIABLES
  status,    (* the row's status, "absent" before the row is inserted       *)
  detail,    (* the row's error_detail, "none" for NULL                     *)
  logSeq,    (* last_log_seq: the log chunks stored, numbered 1 .. logSeq   *)
  output,    (* how many chunks the row's stdout and stderr columns hold    *)
  timeline   (* the event types of the execution, by sequence number        *)

storeVars == <<status, detail, logSeq, output, timeline>>

-----------------------------------------------------------------------------
TerminalStatus == {"completed", "failed", "cancelled"}
Status == {"absent", "queued", "running"} \cup TerminalStatus

(* error_detail, one name per message the code writes.                      *)
RunnerDetail == {"by_request", "runtime_failed", "no_result", "exit_failed",
                 "timed_out"}
ReaperDetail == {"interrupted", "overdue"}
Detail == {"none", "before_start"} \cup RunnerDetail \cup ReaperDetail

TerminalEvent == {"completed", "failed", "timed_out", "cancelled"}
EventType == TerminalEvent \cup
  {"queued", "started", "log", "cancel_requested", "recovered_after_restart",
   "retry_requested", "retry_created"}

IsTerminal(e) == status[e] \in TerminalStatus

(* The row's timed_out column: set by the two messages that report it.      *)
TimedOut(d) == d \in {"timed_out", "overdue"}

-----------------------------------------------------------------------------
(* _append_event: seq is MAX(seq) + 1 of the execution, read and inserted   *)
(* in one transaction; no event is ever deleted.                            *)
Record(e, type) == timeline' = [timeline EXCEPT ![e] = Append(@, type)]

(* Mutation: the columns of the row and of the event are swapped.           *)
MoveStatusSwapped(e, from, to, d, type) ==
  IF status[e] \in from
  THEN /\ status' = [status EXCEPT ![e] = type]
       /\ detail' = [detail EXCEPT ![e] = d]
       /\ Record(e, to)
  ELSE UNCHANGED <<status, detail, timeline>>

(* Mutation: the event is committed although the UPDATE matched no row.     *)
MoveStatusNoRollback(e, from, to, d, type) ==
  /\ status' = [status EXCEPT ![e] = IF @ \in from THEN to ELSE @]
  /\ detail' = [detail EXCEPT ![e] = IF status[e] \in from THEN d ELSE @]
  /\ Record(e, type)

(* UPDATE ... SET status = to WHERE status IN from, then the event; rowcount *)
(* 0 rolls the transaction back.                                             *)
MoveStatus(e, from, to, d, type) ==
  IF status[e] \in from
  THEN /\ status' = [status EXCEPT ![e] = to]
       /\ detail' = [detail EXCEPT ![e] = d]
       /\ Record(e, type)
  ELSE UNCHANGED <<status, detail, timeline>>

CreateExecution(e) ==
  /\ status[e] = "absent"
  /\ status' = [status EXCEPT ![e] = "queued"]
  /\ Record(e, "queued")
  /\ UNCHANGED <<detail, logSeq, output>>

MarkStarted(e) ==
  /\ MoveStatus(e, {"queued"}, "running", detail[e], "started")
  /\ UNCHANGED <<logSeq, output>>

(* The two backends disagree on the states a run may be completed from.     *)
Completable == IF Backend = "sqlite" THEN {"running"} ELSE {"queued", "running"}

MarkCompleted(e, text) ==
  /\ MoveStatus(e, Completable, "completed", "none", "completed")
  /\ output' = IF status[e] \in Completable
               THEN [output EXCEPT ![e] = text] ELSE output
  /\ UNCHANGED logSeq

(* Only the SQLite store names a timeout in the timeline.                   *)
FailedEvent(d) ==
  IF Backend = "sqlite" /\ TimedOut(d) THEN "timed_out" ELSE "failed"

(* Mutation: UPDATE ... WHERE id = ? without the status.                    *)
UnsettledOrSettled == Status

(* The statuses failure and cancellation start from.                        *)
Unsettled == {"queued", "running"}

MarkFailed(e, d, text) ==
  /\ MoveStatus(e, Unsettled, "failed", d, FailedEvent(d))
  /\ output' = IF status[e] \in Unsettled
               THEN [output EXCEPT ![e] = text] ELSE output
  /\ UNCHANGED logSeq

(* Cancellation leaves the stdout and stderr columns as the chunks left     *)
(* them.                                                                    *)
MarkCancelled(e, d) ==
  /\ MoveStatus(e, Unsettled, "cancelled", d, "cancelled")
  /\ UNCHANGED <<logSeq, output>>

(* The log row, last_log_seq, the stdout or stderr column and the log event *)
(* are written together; nothing looks at the status.                       *)
AppendLogChunk(e) ==
  /\ logSeq' = [logSeq EXCEPT ![e] = @ + 1]
  /\ output' = [output EXCEPT ![e] = @ + 1]
  /\ Record(e, "log")
  /\ UNCHANGED <<status, detail>>

(* append_execution_event: the event alone, whatever the row's status.      *)
AppendEvent(e, type) ==
  /\ Record(e, type)
  /\ UNCHANGED <<status, detail, logSeq, output>>

StoreInit ==
  /\ status = [e \in Exec |-> "absent"]
  /\ detail = [e \in Exec |-> "none"]
  /\ logSeq = [e \in Exec |-> 0]
  /\ output = [e \in Exec |-> 0]
  /\ timeline = [e \in Exec |-> <<>>]

StoreTypeOK ==
  /\ status \in [Exec -> Status]
  /\ detail \in [Exec -> Detail]
  /\ logSeq \in [Exec -> Nat]
  /\ output \in [Exec -> Nat]
  /\ timeline \in [Exec -> Seq(EventType)]
=============================================================================
