---------------------------- MODULE SandboxSystem ---------------------------
(***************************************************************************)
(* The code sandbox as a whole: the HTTP operations of                     *)
(* backend/application/code_sandbox.py (submit, retry, cancel, log         *)
(* stream), each running in a thread of its own, composed with the workers *)
(* and the recovery thread of SandboxRuntime, and with process crashes.    *)
(***************************************************************************)
EXTENDS SandboxRuntime, TLC

CONSTANTS
  Canceller,  (* POST .../cancel requests, each handled once               *)
  Reader,     (* GET .../logs streams, each opened once                    *)
  MaxBoots    (* bound: process starts, the first one included             *)

ASSUME SystemAssumption == MaxBoots \in Nat \ {0}

VARIABLES
  origin,    (* the execution a retry was made from, {} for a submission   *)
  cancel,    (* [Canceller -> the request's next step, target and reply]   *)
  stream,    (* [Reader -> the stream's next step, target and cursor]      *)
  boots      (* process starts so far                                      *)

requestVars == <<origin, cancel, stream>>
vars == <<storeVars, workerVars, recoveryVars, requestVars, boots>>

(* code and body are what the client is told; body is a status.             *)
CancelPC == {"idle", "pre_start", "reread", "noting", "signalling",
             "awaiting", "replied", "lost"}
NoCancel == [pc |-> "idle", exec |-> {}, code |-> 0, body |-> "absent"]

StreamPC == {"idle", "polling", "reading", "done", "lost"}
NoStream == [pc |-> "idle", exec |-> {}, seen |-> 0, polled |-> "absent"]

-----------------------------------------------------------------------------
(* execute_code_sandbox_request: the row is inserted before anything is     *)
(* dispatched.  In sync mode the request thread itself is the "api" worker. *)
Submit(e) ==
  /\ CreateExecution(e)
  /\ Goto(<<e, "api">>, "submitted")
  /\ UNCHANGED <<token, verdict, kept, recoveryVars, requestVars, boots>>

(* Mutation: the lineage starts with the new execution's event and the      *)
(* source's is forgotten.                                                   *)
RetryTargetOnly(source, e) ==
  /\ IsTerminal(source)
  /\ CreateExecution(e)
  /\ origin' = [origin EXCEPT ![e] = {source}]
  /\ Goto(<<e, "api">>, "noting_target")
  /\ UNCHANGED <<token, verdict, kept, recoveryVars, cancel, stream, boots>>

(* retry_code_sandbox_execution: reads the source, inserts the new row, and *)
(* then notes the lineage on both timelines in transactions of their own.   *)
(* A terminal source does not change between the read and the insert.       *)
Retry(source, e) ==
  /\ IsTerminal(source)
  /\ CreateExecution(e)
  /\ origin' = [origin EXCEPT ![e] = {source}]
  /\ Goto(<<e, "api">>, "noting_source")
  /\ UNCHANGED <<token, verdict, kept, recoveryVars, cancel, stream, boots>>

NoteRetryRequested(e) ==
  /\ pc[<<e, "api">>] = "noting_source"
  /\ \E source \in origin[e] : AppendEvent(source, "retry_requested")
  /\ Goto(<<e, "api">>, "noting_target")
  /\ UNCHANGED <<token, verdict, kept, recoveryVars, requestVars, boots>>

NoteRetryCreated(e) ==
  /\ pc[<<e, "api">>] = "noting_target"
  /\ AppendEvent(e, "retry_created")
  /\ Goto(<<e, "api">>, "submitted")
  /\ UNCHANGED <<token, verdict, kept, recoveryVars, requestVars, boots>>

(* The read that follows the insert, or the write of a lineage event,       *)
(* raises and ends the request: the new row stays queued and nothing is     *)
(* dispatched.                                                              *)
SubmissionFails(e) ==
  /\ StoreFaults
  /\ \/ pc[<<e, "api">>] \in {"noting_source", "noting_target"}
     \/ pc[<<e, "api">>] = "submitted" /\ origin[e] = {}
  /\ Goto(<<e, "api">>, "done")
  /\ UNCHANGED <<storeVars, token, verdict, kept, recoveryVars, requestVars, boots>>

-----------------------------------------------------------------------------
(* cancel_code_sandbox_execution decides on the status it reads first.      *)

CancelSet(c, next, target, code, body) ==
  cancel' = [cancel EXCEPT ![c] =
    [pc |-> next, exec |-> target, code |-> code, body |-> body]]

CancelGoto(c, next) == CancelSet(c, next, cancel[c].exec, 0, "absent")

CancelReply(c, code, body) == CancelSet(c, "replied", cancel[c].exec, code, body)

CancelLoad(c, e) ==
  /\ cancel[c].pc = "idle"
  /\ \/ status[e] = "queued"  /\ CancelSet(c, "pre_start", {e}, 0, "absent")
     \/ status[e] = "running" /\ CancelSet(c, "noting", {e}, 0, "absent")
     \/ IsTerminal(e)         /\ CancelSet(c, "replied", {e}, 409, status[e])
  /\ UNCHANGED <<storeVars, workerVars, recoveryVars, origin, stream, boots>>

CancelQueued(c) ==
  /\ cancel[c].pc = "pre_start"
  /\ \E e \in cancel[c].exec : MarkCancelled(e, "before_start")
  /\ CancelGoto(c, "reread")
  /\ UNCHANGED <<workerVars, recoveryVars, origin, stream, boots>>

(* Mutation: the reply is assumed instead of read back.                     *)
CancelAssumed(c) ==
  /\ cancel[c].pc = "reread"
  /\ CancelReply(c, 200, "cancelled")
  /\ UNCHANGED <<storeVars, workerVars, recoveryVars, origin, stream, boots>>

CancelReread(c) ==
  /\ cancel[c].pc = "reread"
  /\ \E e \in cancel[c].exec : CancelReply(c, 200, status[e])
  /\ UNCHANGED <<storeVars, workerVars, recoveryVars, origin, stream, boots>>

(* Mutation: the token is set before the request is on the timeline.        *)
CancelUnnoted(c) ==
  /\ cancel[c].pc = "noting"
  /\ CancelGoto(c, "signalling")
  /\ UNCHANGED <<storeVars, workerVars, recoveryVars, origin, stream, boots>>

CancelNote(c) ==
  /\ cancel[c].pc = "noting"
  /\ \E e \in cancel[c].exec : AppendEvent(e, "cancel_requested")
  /\ CancelGoto(c, "signalling")
  /\ UNCHANGED <<workerVars, recoveryVars, origin, stream, boots>>

(* request_cancel creates the token when there is none.                     *)
CancelSignal(c) ==
  /\ cancel[c].pc = "signalling"
  /\ \E e \in cancel[c].exec : token' = [token EXCEPT ![e] = "set"]
  /\ CancelGoto(c, "awaiting")
  /\ UNCHANGED <<storeVars, pc, verdict, kept, recoveryVars, origin, stream, boots>>

CancelAcknowledged(c) ==
  /\ cancel[c].pc = "awaiting"
  /\ \E e \in cancel[c].exec :
       /\ status[e] # "running"
       /\ CancelReply(c, 200, status[e])
  /\ UNCHANGED <<storeVars, workerVars, recoveryVars, origin, stream, boots>>

(* _RUNNING_CANCEL_WAIT_SEC is over.                                        *)
CancelExpires(c) ==
  /\ cancel[c].pc = "awaiting"
  /\ \E e \in cancel[c].exec :
       /\ status[e] = "running"
       /\ CancelReply(c, 409, status[e])
  /\ UNCHANGED <<storeVars, workerVars, recoveryVars, origin, stream, boots>>

(* A store call of the request raises: the client gets an error, no reply.  *)
CancelFails(c) ==
  /\ StoreFaults
  /\ cancel[c].pc \in {"pre_start", "reread", "noting", "awaiting"}
  /\ CancelGoto(c, "lost")
  /\ UNCHANGED <<storeVars, workerVars, recoveryVars, origin, stream, boots>>

CancelStep(c) ==
  \/ CancelQueued(c) \/ CancelReread(c) \/ CancelNote(c) \/ CancelSignal(c)
  \/ CancelAcknowledged(c) \/ CancelExpires(c)

-----------------------------------------------------------------------------
(* stream_code_sandbox_execution_logs: the status is read before the chunks *)
(* and decides, after them, whether the stream ends.                        *)

StreamGoto(r, next, target, seen, polled) ==
  /\ stream' = [stream EXCEPT ![r] =
       [pc |-> next, exec |-> target, seen |-> seen, polled |-> polled]]
  /\ UNCHANGED <<storeVars, workerVars, recoveryVars, origin, cancel, boots>>

StreamOpen(r, e) ==
  /\ stream[r].pc = "idle"
  /\ status[e] # "absent"
  /\ StreamGoto(r, "polling", {e}, 0, "absent")

StreamPoll(r) ==
  /\ stream[r].pc = "polling"
  /\ \E e \in stream[r].exec :
       StreamGoto(r, "reading", {e}, stream[r].seen, status[e])

(* Mutation: cancelled is missing from the statuses that end a stream.      *)
AfterReadNoCancelled(polled) ==
  IF polled \in {"completed", "failed"} THEN "done" ELSE "polling"

AfterRead(polled) == IF polled \in TerminalStatus THEN "done" ELSE "polling"

(* Mutation: a terminal status ends the stream before the last chunks are   *)
(* listed.                                                                  *)
StreamReadEarlyDone(r) ==
  /\ stream[r].pc = "reading"
  /\ \E e \in stream[r].exec :
       StreamGoto(r, AfterRead(stream[r].polled), {e},
                  IF stream[r].polled \in TerminalStatus
                  THEN stream[r].seen ELSE logSeq[e],
                  stream[r].polled)

StreamRead(r) ==
  /\ stream[r].pc = "reading"
  /\ \E e \in stream[r].exec :
       StreamGoto(r, AfterRead(stream[r].polled), {e}, logSeq[e], stream[r].polled)

StreamStep(r) == StreamPoll(r) \/ StreamRead(r)

-----------------------------------------------------------------------------
(* The process dies and is started again: only the store survives.          *)
Crash ==
  /\ boots < MaxBoots
  /\ boots' = boots + 1
  /\ RuntimeBoots
  /\ cancel' = [c \in Canceller |->
       IF cancel[c].pc \in {"idle", "replied"} THEN cancel[c]
       ELSE [pc |-> "lost", exec |-> cancel[c].exec, code |-> 0, body |-> "absent"]]
  /\ stream' = [r \in Reader |->
       IF stream[r].pc \in {"idle", "done"} THEN stream[r]
       ELSE [pc |-> "lost", exec |-> stream[r].exec, seen |-> stream[r].seen,
             polled |-> stream[r].polled]]
  /\ UNCHANGED <<storeVars, origin>>

RuntimeStep ==
  /\ \/ \E w \in Worker :
          WorkerStep(w) \/ EmitChunk(w) \/ ChunkWriteFails(w) \/ StoreCallFails(w)
     \/ RecoveryStep
     \/ RecoveryFails
  /\ UNCHANGED <<requestVars, boots>>

RequestStep ==
  \/ \E e \in Exec : \/ Submit(e) \/ NoteRetryRequested(e) \/ NoteRetryCreated(e)
                     \/ SubmissionFails(e)
                     \/ \E source \in Exec : Retry(source, e)
  \/ \E c \in Canceller : CancelStep(c) \/ CancelFails(c) \/ \E e \in Exec : CancelLoad(c, e)
  \/ \E r \in Reader : StreamStep(r) \/ \E e \in Exec : StreamOpen(r, e)

Next == RuntimeStep \/ RequestStep \/ Crash

Init ==
  /\ StoreInit
  /\ RuntimeInit
  /\ origin = [e \in Exec |-> {}]
  /\ cancel = [c \in Canceller |-> NoCancel]
  /\ stream = [r \in Reader |-> NoStream]
  /\ boots = 1

Spec == Init /\ [][Next]_vars

(* Threads are scheduled, the provider is bounded by its deadline, and a    *)
(* request in progress goes on.  Nobody owes the system a submission, a     *)
(* cancellation, a log chunk or a crash.                                    *)
Fairness ==
  /\ \A w \in Worker : WF_vars(WorkerStep(w) /\ UNCHANGED <<requestVars, boots>>)
  /\ WF_vars(RecoveryStep /\ UNCHANGED <<requestVars, boots>>)
  /\ \A e \in Exec : WF_vars(NoteRetryRequested(e) \/ NoteRetryCreated(e))
  /\ \A c \in Canceller : WF_vars(CancelStep(c))
  /\ \A r \in Reader : WF_vars(StreamStep(r))

FairSpec == Spec /\ Fairness

-----------------------------------------------------------------------------
(***************************************************************************)
(* What the code sandbox guarantees, and what its documentation says it    *)
(* guarantees.                                                             *)
(***************************************************************************)

TypeOK ==
  /\ StoreTypeOK
  /\ RuntimeTypeOK
  /\ origin \in [Exec -> SUBSET Exec]
  /\ cancel \in [Canceller -> [pc : CancelPC, exec : SUBSET Exec,
                               code : {0, 200, 409}, body : Status]]
  /\ stream \in [Reader -> [pc : StreamPC, exec : SUBSET Exec,
                            seen : Nat, polled : Status]]
  /\ boots \in Nat

-----------------------------------------------------------------------------
(* Vocabulary.                                                              *)

At(e, types) == {i \in DOMAIN timeline[e] : timeline[e][i] \in types}

Occurs(e, type) == Cardinality(At(e, {type}))

(* The event that reports the row's terminal status.                        *)
SettlingEvent(e) ==
  IF status[e] = "failed" THEN FailedEvent(detail[e]) ELSE status[e]

(* Some worker has claimed the execution and is not through with it.        *)
HasRunner(e) == \E via \in Via : pc[<<e, via>>] \in Running

(* The outcome was written by the worker that ran the execution.            *)
SettledByRunner(e) ==
  \/ status[e] = "completed"
  \/ IsTerminal(e) /\ detail[e] \in RunnerDetail

-----------------------------------------------------------------------------
(* A settled execution keeps its status and its error_detail for ever,      *)
(* whichever of the runner, a canceller and the reaper was second.          *)
TerminalIsFinal ==
  [][\A e \in Exec : IsTerminal(e) =>
       status'[e] = status[e] /\ detail'[e] = detail[e]]_vars

(* The timeline settles exactly when the row does: one terminal event, of   *)
(* the kind the row reports, although four call sites compete to write it.  *)
TimelineSettlesOnce ==
  \A e \in Exec :
    /\ IsTerminal(e) <=> At(e, TerminalEvent) # {}
    /\ \A i, j \in At(e, TerminalEvent) : i = j
    /\ \A i \in At(e, TerminalEvent) : timeline[e][i] = SettlingEvent(e)

(* The dispatched thread and the recovery thread may both take an execution *)
(* up; the provider is launched for at most one of them, ever.              *)
SingleLaunch ==
  \A e \in Exec :
    /\ \A u, v \in Via :
         pc[<<e, u>>] \in Running /\ pc[<<e, v>>] \in Running => u = v
    /\ \A i, j \in At(e, {"started"}) : i = j
    /\ HasRunner(e) => At(e, {"started"}) # {}

(* Nothing that presupposes a run is in the timeline before its start, not  *)
(* even what cancellers and the reaper write from a status they read        *)
(* earlier.                                                                 *)
StartComesFirst ==
  \A e \in Exec : \A i \in At(e, {"log", "completed", "failed", "timed_out",
                                  "cancel_requested", "recovered_after_restart"}) :
    \E j \in 1 .. i - 1 : timeline[e][j] = "started"

(* When the runner itself settled the execution, every chunk was stored     *)
(* before: the run is over when its terminal event says so.                 *)
RunnerSettlesLast ==
  \A e \in Exec : SettledByRunner(e) =>
    \A i \in At(e, {"log"}), j \in At(e, TerminalEvent) : i < j

(* The stdout and stderr a completed execution reports are its whole log,   *)
(* no chunk lost to another writer of the same columns.                     *)
CompletedOutputIsLog ==
  \A e \in Exec : status[e] = "completed" => output[e] = logSeq[e]

(* A log stream that said done has delivered every chunk of an execution    *)
(* its runner settled, whenever the chunks and the outcome were stored      *)
(* between its two reads.                                                   *)
StreamDeliversAll ==
  \A r \in Reader : stream[r].pc = "done" =>
    \A e \in stream[r].exec : SettledByRunner(e) => stream[r].seen = logSeq[e]

(* A cancellation answered 200 reports a settled execution, and the report  *)
(* stays true, across crashes too.                                          *)
CancelReplyIsFinal ==
  \A c \in Canceller : cancel[c].code = 200 =>
    /\ cancel[c].body \in TerminalStatus
    /\ \A e \in cancel[c].exec : status[e] = cancel[c].body

(* "Execution cancelled by request." is never said of an execution whose    *)
(* cancellation nobody had requested by then.                               *)
ByRequestWasRequested ==
  \A e \in Exec : detail[e] = "by_request" =>
    \E i \in At(e, {"cancel_requested"}), j \in At(e, {"cancelled"}) : i < j

(* The two halves of a retry's lineage: a retry that names its source is    *)
(* named by its source, whatever died in between.                           *)
LineageIsMutual ==
  \A source \in Exec :
    Cardinality({e \in Exec : source \in origin[e] /\ Occurs(e, "retry_created") > 0})
      <= Occurs(source, "retry_requested")

-----------------------------------------------------------------------------
(* Who is still going to act on an unsettled execution.                     *)

QueuedHasTaker(e) ==
  \/ \E via \in Via : pc[<<e, via>>] \in Submitting \cup Preparing
  \/ phase \in {"boot", "reap", "reap_note", "reap_fail"}
  \/ phase = "replay" /\ e \in todo

RunningHasTaker(e) ==
  \/ HasRunner(e)
  \/ phase = "boot"
  \/ phase = "reap" /\ e \in todo
  \/ phase \in {"reap_note", "reap_fail"} /\ e \in todo \cup reaping.exec

(* As long as the store answers, no execution is stranded: a queued or      *)
(* running one always has a thread that will take it further, through the   *)
(* races of dispatch, recovery, cancellation and restart.                   *)
NoExecutionStranded ==
  ~StoreFaults =>
    \A e \in Exec :
      /\ status[e] = "queued" => QueuedHasTaker(e)
      /\ status[e] = "running" => RunningHasTaker(e)

-----------------------------------------------------------------------------
(* The implementation of the abstract lifecycle, its liveness included.     *)

Lifecycle ==
  INSTANCE DurableLifecycle WITH Job <- Exec, CancelFrom <- {"queued", "running"}

(* Every status change of the rows is one the lifecycle allows, and every   *)
(* accepted execution settles although processes crash.                     *)
ImplementsLifecycle == Lifecycle!FairSpec

(* An open log stream ends, by itself or with the process.                  *)
StreamsEnd ==
  \A r \in Reader : stream[r].pc = "polling" ~> stream[r].pc \in {"done", "lost"}

-----------------------------------------------------------------------------
(* Statements of the documentation the code does not keep.                  *)

(* docs/api/API_REFERENCE.md: a running cancellation returns 200 once the   *)
(* durable record reaches status = cancelled.                               *)
Cancel200IsCancelled ==
  \A c \in Canceller : cancel[c].code = 200 => cancel[c].body = "cancelled"

(* docs/api/API_REFERENCE.md: execution.cancelled before start is for a     *)
(* queued execution; "Execution cancelled before start." is what its        *)
(* error_detail says.                                                       *)
CancelledBeforeStartNeverRan ==
  \A e \in Exec : detail[e] = "before_start" => At(e, {"started"}) = {}

(* docs/api/API_REFERENCE.md: startup recovery fails abandoned running      *)
(* executions closed.  An execution whose runner is alive is not abandoned. *)
ReapedWasAbandoned ==
  \A e \in Exec : detail[e] \in ReaperDetail => ~HasRunner(e)

-----------------------------------------------------------------------------
(* What the runs ask for, in one formula each.                              *)

(* The timeline tells what happened: it settles once and with the row,      *)
(* nothing comes before the start it presupposes, and a cancellation by     *)
(* request was requested.                                                   *)
TimelineIsTrue ==
  TimelineSettlesOnce /\ StartComesFirst /\ ByRequestWasRequested

(* The log of a run is whole, in the order of the timeline, in the columns  *)
(* of a completed row and at whoever streamed it to its end.                *)
LogIsWhole == RunnerSettlesLast /\ CompletedOutputIsLog /\ StreamDeliversAll

(* Whatever dies, no execution is left without somebody who will take it    *)
(* further, nor a retry without its lineage.                                *)
NothingIsStranded == NoExecutionStranded /\ LineageIsMutual

(***************************************************************************)
(* For TLC: executions, requests and streams are interchangeable in Init,  *)
(* Next and every safety property.                                         *)
(***************************************************************************)
Symmetry ==
  Permutations(Exec) \cup Permutations(Canceller) \cup Permutations(Reader)
=============================================================================
