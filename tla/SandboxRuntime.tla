--------------------------- MODULE SandboxRuntime ---------------------------
(***************************************************************************)
(* The process-local side of the code sandbox: the supervisor's cancel     *)
(* tokens (code_sandbox_supervisor.py), the threads that run               *)
(* execute_code_sandbox_execution, and the startup recovery thread         *)
(* (code_sandbox_execution_service.py, main.py).                           *)
(*                                                                         *)
(* An execution may be taken up by two workers: <<e, "api">>, the thread   *)
(* dispatched (async) or the request itself (sync) after the submission,   *)
(* and <<e, "recovery">>, the recovery thread when it replays e.  They     *)
(* interleave at every transaction, token access and provider event.       *)
(***************************************************************************)
EXTENDS SandboxStore

CONSTANTS
  MaxChunks,    (* bound: log chunks stored per execution                  *)
  StoreFaults   (* whether a store call may raise Persistence{Read,Write}- *)
                (* Error (a locked database, a lost connection)            *)

ASSUME RuntimeAssumption == MaxChunks \in Nat /\ StoreFaults \in BOOLEAN

VARIABLES
  token,     (* _cancel_events: no entry, an Event not set, an Event set    *)
  pc,        (* what the worker does next                                   *)
  verdict,   (* how the provider run ended, as the worker knows it          *)
  kept,      (* chunks in the worker's stdout and stderr accumulators       *)
  phase,     (* what the recovery thread does next                          *)
  todo,      (* the ids of its current list not yet handled                 *)
  reaping    (* the execution read by the reaper and its stale columns      *)

workerVars == <<token, pc, verdict, kept>>
recoveryVars == <<phase, todo, reaping>>

Via == {"api", "recovery"}
Worker == Exec \X Via

(* "noting_source" and "noting_target" are the two lineage events of a      *)
(* retry, written by the request before it dispatches the new execution.    *)
Submitting == {"noting_source", "noting_target", "submitted"}
Preparing == {"loading", "checking", "preempting", "starting"}
Running == {"started", "streaming", "draining", "abnormal", "settling"}
PC == {"idle", "releasing", "done"} \cup Submitting \cup Preparing \cup Running

(* exit_failed: a non-zero status or an error_detail of the provider.       *)
Verdict == {"none", "exit_zero", "exit_failed", "timed_out", "cancelled",
            "raised", "no_result"}

NoReap == [exec |-> {}, text |-> 0, d |-> "none"]

(* cancel_requested(): the recovery thread passes supervisor=None.          *)
CancelRequested(w) == w[2] = "api" /\ token[w[1]] = "set"

Goto(w, next) == pc' = [pc EXCEPT ![w] = next]

-----------------------------------------------------------------------------
(* execute_code_sandbox_execution, in program order.                        *)

Register(w) ==
  /\ pc[w] = "submitted"
  /\ token' = [token EXCEPT ![w[1]] = IF @ = "none" THEN "clear" ELSE @]
  /\ Goto(w, "loading")
  /\ UNCHANGED <<storeVars, verdict, kept, recoveryVars>>

Load(w) ==
  /\ pc[w] = "loading"
  /\ Goto(w, IF IsTerminal(w[1]) THEN "releasing" ELSE "checking")
  /\ UNCHANGED <<storeVars, token, verdict, kept, recoveryVars>>

CheckCancel(w) ==
  /\ pc[w] = "checking"
  /\ Goto(w, IF CancelRequested(w) THEN "preempting" ELSE "starting")
  /\ UNCHANGED <<storeVars, token, verdict, kept, recoveryVars>>

CancelBeforeStart(w) ==
  /\ pc[w] = "preempting"
  /\ MarkCancelled(w[1], "before_start")
  /\ Goto(w, "releasing")
  /\ UNCHANGED <<token, verdict, kept, recoveryVars>>

(* Mutation: the None of mark_execution_started is ignored.                 *)
StartUnchecked(w) ==
  /\ pc[w] = "starting"
  /\ MarkStarted(w[1])
  /\ Goto(w, "started")
  /\ UNCHANGED <<token, verdict, kept, recoveryVars>>

(* A worker that loses the race for the queued row returns.                 *)
Start(w) ==
  /\ pc[w] = "starting"
  /\ MarkStarted(w[1])
  /\ Goto(w, IF status[w[1]] = "queued" THEN "started" ELSE "releasing")
  /\ UNCHANGED <<token, verdict, kept, recoveryVars>>

(* build_provider_request_for_execution reads the row back; rows are never  *)
(* deleted, so it always finds it.                                          *)
LaunchProvider(w) ==
  /\ pc[w] = "started"
  /\ Goto(w, "streaming")
  /\ UNCHANGED <<storeVars, token, verdict, kept, recoveryVars>>

(* Mutation: a chunk is stored by the pump after the run was settled.       *)
EmitChunkLate(w) ==
  /\ pc[w] \in {"streaming", "draining", "releasing"}
  /\ logSeq[w[1]] < MaxChunks
  /\ AppendLogChunk(w[1])
  /\ kept' = [kept EXCEPT ![w] = @ + 1]
  /\ UNCHANGED <<token, pc, verdict, recoveryVars>>

(* Mutation: the chunks drained after the decision are only logged.         *)
EmitChunkUnkept(w) ==
  /\ pc[w] \in {"streaming", "draining"}
  /\ logSeq[w[1]] < MaxChunks
  /\ AppendLogChunk(w[1])
  /\ kept' = [kept EXCEPT ![w] = IF pc[w] = "streaming" THEN @ + 1 ELSE @]
  /\ UNCHANGED <<token, pc, verdict, recoveryVars>>

(* The provider keeps yielding chunks after it decided how the run ended:   *)
(* it drains the pump's queue before it yields the result, and the worker   *)
(* stores the result's own stdout and stderr.                               *)
EmitChunk(w) ==
  /\ pc[w] \in {"streaming", "draining"}
  /\ logSeq[w[1]] < MaxChunks
  /\ AppendLogChunk(w[1])
  /\ kept' = [kept EXCEPT ![w] = @ + 1]
  /\ UNCHANGED <<token, pc, verdict, recoveryVars>>

(* The polling loop of the provider leaves with a decision; only a set      *)
(* token makes it report a cancellation, but the container may exit or      *)
(* reach its deadline before the loop looks at the token again.             *)
ProviderDecides(w) ==
  /\ pc[w] = "streaming"
  /\ \E v \in {"exit_zero", "exit_failed", "timed_out", "cancelled"} :
       /\ v = "cancelled" => CancelRequested(w)
       /\ verdict' = [verdict EXCEPT ![w] = v]
  /\ Goto(w, "draining")
  /\ UNCHANGED <<storeVars, token, kept, recoveryVars>>

ProviderRaises(w) ==
  /\ pc[w] \in {"streaming", "draining"}
  /\ verdict' = [verdict EXCEPT ![w] = "raised"]
  /\ Goto(w, "abnormal")
  /\ UNCHANGED <<storeVars, token, kept, recoveryVars>>

ProviderReturnsNothing(w) ==
  /\ pc[w] = "streaming"
  /\ verdict' = [verdict EXCEPT ![w] = "no_result"]
  /\ Goto(w, "abnormal")
  /\ UNCHANGED <<storeVars, token, kept, recoveryVars>>

(* Without a result the worker asks the token whether this was a            *)
(* cancellation.                                                            *)
ResolveAbnormal(w) ==
  /\ pc[w] = "abnormal"
  /\ verdict' = [verdict EXCEPT ![w] = IF CancelRequested(w) THEN "cancelled" ELSE @]
  /\ Goto(w, "settling")
  /\ UNCHANGED <<storeVars, token, kept, recoveryVars>>

Complete(w) ==
  /\ pc[w] = "draining"
  /\ verdict[w] = "exit_zero"
  /\ MarkCompleted(w[1], kept[w])
  /\ Goto(w, "releasing")
  /\ UNCHANGED <<token, verdict, kept, recoveryVars>>

FailureDetail(v) ==
  CASE v = "raised"    -> "runtime_failed"
    [] v = "no_result" -> "no_result"
    [] v = "timed_out" -> "timed_out"
    [] OTHER           -> "exit_failed"

Fail(w) ==
  /\ pc[w] \in {"draining", "settling"}
  /\ verdict[w] \in {"exit_failed", "timed_out", "raised", "no_result"}
  /\ MarkFailed(w[1], FailureDetail(verdict[w]), kept[w])
  /\ Goto(w, "releasing")
  /\ UNCHANGED <<token, verdict, kept, recoveryVars>>

AcknowledgeCancel(w) ==
  /\ pc[w] \in {"draining", "settling"}
  /\ verdict[w] = "cancelled"
  /\ MarkCancelled(w[1], "by_request")
  /\ Goto(w, "releasing")
  /\ UNCHANGED <<token, verdict, kept, recoveryVars>>

(* The finally clause.                                                      *)
Release(w) ==
  /\ pc[w] = "releasing"
  /\ token' = IF w[2] = "api" THEN [token EXCEPT ![w[1]] = "none"] ELSE token
  /\ Goto(w, "done")
  /\ UNCHANGED <<storeVars, verdict, kept, recoveryVars>>

(* append_log_chunk raises inside the provider loop: the text is already in *)
(* the accumulator, and the handler treats it as a failed run.              *)
ChunkWriteFails(w) ==
  /\ StoreFaults
  /\ pc[w] \in {"streaming", "draining"}
  /\ logSeq[w[1]] < MaxChunks
  /\ kept' = [kept EXCEPT ![w] = @ + 1]
  /\ verdict' = [verdict EXCEPT ![w] = "raised"]
  /\ Goto(w, "abnormal")
  /\ UNCHANGED <<storeVars, token, recoveryVars>>

(* Any other store call that raises unwinds through finally and ends the    *)
(* thread; when it is the recovery thread nothing else is replayed.         *)
StoreCallFails(w) ==
  /\ StoreFaults
  /\ pc[w] \in {"loading", "preempting", "starting", "started", "draining",
                "settling"}
  /\ Goto(w, "releasing")
  /\ IF w[2] = "recovery"
     THEN phase' = "dead" /\ todo' = {}
     ELSE UNCHANGED <<phase, todo>>
  /\ UNCHANGED <<storeVars, token, verdict, kept, reaping>>

WorkerStep(w) ==
  \/ Register(w) \/ Load(w) \/ CheckCancel(w) \/ CancelBeforeStart(w)
  \/ Start(w) \/ LaunchProvider(w) \/ ProviderDecides(w) \/ ProviderRaises(w)
  \/ ProviderReturnsNothing(w) \/ ResolveAbnormal(w)
  \/ Complete(w) \/ Fail(w) \/ AcknowledgeCancel(w) \/ Release(w)

-----------------------------------------------------------------------------
(* The recovery thread: reap the running executions, then replay the queued *)
(* ones, one after the other.  The lists are ordered by queued_at, a clock  *)
(* reading taken before the insert, which orders nothing the model keeps.   *)

(* Mutation: queued executions are reaped with the running ones.            *)
ListUnsettled ==
  /\ phase = "boot"
  /\ todo' = {e \in Exec : status[e] \in Unsettled}
  /\ phase' = "reap"
  /\ UNCHANGED <<storeVars, workerVars, reaping>>

(* Mutation: the reaper is not run at startup.                              *)
ListNoRunning ==
  /\ phase = "boot"
  /\ todo' = {}
  /\ phase' = "reap"
  /\ UNCHANGED <<storeVars, workerVars, reaping>>

ListRunning ==
  /\ phase = "boot"
  /\ todo' = {e \in Exec : status[e] = "running"}
  /\ phase' = "reap"
  /\ UNCHANGED <<storeVars, workerVars, reaping>>

(* get_execution: stdout and stderr are remembered here and written back by *)
(* ReapFail; whether the deadline has passed depends on the clock.          *)
ReapRead ==
  /\ phase = "reap"
  /\ \E e \in todo, d \in ReaperDetail :
       /\ todo' = todo \ {e}
       /\ reaping' = [exec |-> {e}, text |-> output[e], d |-> d]
  /\ phase' = "reap_note"
  /\ UNCHANGED <<storeVars, workerVars>>

ReapNote ==
  /\ phase = "reap_note"
  /\ \E e \in reaping.exec : AppendEvent(e, "recovered_after_restart")
  /\ phase' = "reap_fail"
  /\ UNCHANGED <<workerVars, todo, reaping>>

ReapFail ==
  /\ phase = "reap_fail"
  /\ \E e \in reaping.exec : MarkFailed(e, reaping.d, reaping.text)
  /\ phase' = "reap"
  /\ reaping' = NoReap
  /\ UNCHANGED <<workerVars, todo>>

(* Mutation: queued executions are not replayed at startup.                 *)
ListNoQueued ==
  /\ phase = "reap"
  /\ todo = {}
  /\ phase' = "replay"
  /\ UNCHANGED <<storeVars, workerVars, todo, reaping>>

ListQueued ==
  /\ phase = "reap"
  /\ todo = {}
  /\ todo' = {e \in Exec : status[e] = "queued"}
  /\ phase' = "replay"
  /\ UNCHANGED <<storeVars, workerVars, reaping>>

(* execute_code_sandbox_execution(supervisor=None), called inline: the next *)
(* id is taken when the previous call has returned.                         *)
ReplayNext ==
  /\ phase = "replay"
  /\ \A e \in Exec : pc[<<e, "recovery">>] \in {"idle", "done"}
  /\ \E e \in todo :
       /\ todo' = todo \ {e}
       /\ Goto(<<e, "recovery">>, "loading")
  /\ UNCHANGED <<storeVars, token, verdict, kept, phase, reaping>>

RecoveryFails ==
  /\ StoreFaults
  /\ phase \in {"boot", "reap", "reap_note", "reap_fail"}
  /\ phase' = "dead"
  /\ todo' = {}
  /\ reaping' = NoReap
  /\ UNCHANGED <<storeVars, workerVars>>

RecoveryStep ==
  \/ ListRunning \/ ReapRead \/ ReapNote \/ ReapFail
  \/ ListQueued \/ ReplayNext

-----------------------------------------------------------------------------
(* A process starts with no threads, no tokens and a recovery thread; a     *)
(* crash or a redeploy brings the survivors of the store back to this.      *)
RuntimeBoots ==
  /\ token' = [e \in Exec |-> "none"]
  /\ pc' = [w \in Worker |-> "idle"]
  /\ verdict' = [w \in Worker |-> "none"]
  /\ kept' = [w \in Worker |-> 0]
  /\ phase' = "boot"
  /\ todo' = {}
  /\ reaping' = NoReap

RuntimeInit ==
  /\ token = [e \in Exec |-> "none"]
  /\ pc = [w \in Worker |-> "idle"]
  /\ verdict = [w \in Worker |-> "none"]
  /\ kept = [w \in Worker |-> 0]
  /\ phase = "boot"
  /\ todo = {}
  /\ reaping = NoReap

Phase == {"boot", "reap", "reap_note", "reap_fail", "replay", "dead"}

RuntimeTypeOK ==
  /\ token \in [Exec -> {"none", "clear", "set"}]
  /\ pc \in [Worker -> PC]
  /\ verdict \in [Worker -> Verdict]
  /\ kept \in [Worker -> Nat]
  /\ phase \in Phase
  /\ todo \in SUBSET Exec
  /\ reaping \in [exec : SUBSET Exec, text : Nat, d : ReaperDetail \cup {"none"}]
=============================================================================
