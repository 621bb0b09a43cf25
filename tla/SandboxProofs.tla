---------------------------- MODULE SandboxProofs ---------------------------
(***************************************************************************)
(* Machine-checked proofs about the code sandbox, for any number of        *)
(* executions, requests, streams and restarts, either backend, and with or *)
(* without store faults.                                                   *)
(***************************************************************************)
EXTENDS SandboxSystem, TLAPS, FiniteSetTheorems

-----------------------------------------------------------------------------
(* The transactions of the store.                                           *)

(* A transaction that moves the status keeps the store well typed.          *)
LEMMA MoveStatusType ==
  ASSUME StoreTypeOK, NEW e \in Exec, NEW from, NEW to \in Status,
         NEW d \in Detail, NEW type \in EventType,
         MoveStatus(e, from, to, d, type)
  PROVE  /\ status' \in [Exec -> Status]
         /\ detail' \in [Exec -> Detail]
         /\ timeline' \in [Exec -> Seq(EventType)]
<1>1. CASE status[e] \in from
  <2>1. Append(timeline[e], type) \in Seq(EventType)
    BY DEF StoreTypeOK
  <2>2. /\ status' = [status EXCEPT ![e] = to]
        /\ detail' = [detail EXCEPT ![e] = d]
        /\ timeline' = [timeline EXCEPT ![e] = Append(timeline[e], type)]
    BY <1>1 DEF MoveStatus, Record
  <2>3. QED BY <2>1, <2>2 DEF StoreTypeOK
<1>2. CASE status[e] \notin from
  BY <1>2 DEF StoreTypeOK, MoveStatus
<1>3. QED BY <1>1, <1>2

(* So does each store operation.                                            *)
LEMMA StoreOperationType ==
  ASSUME StoreTypeOK, NEW e \in Exec,
         \/ CreateExecution(e)
         \/ MarkStarted(e)
         \/ \E text \in Nat : MarkCompleted(e, text)
         \/ \E d \in Detail, text \in Nat : MarkFailed(e, d, text)
         \/ \E d \in Detail : MarkCancelled(e, d)
         \/ AppendLogChunk(e)
         \/ \E type \in EventType : AppendEvent(e, type)
  PROVE  StoreTypeOK'
<1>1. CASE CreateExecution(e)
  BY <1>1 DEF CreateExecution, Record, StoreTypeOK, Status, EventType
<1>2. CASE MarkStarted(e)
  <2>1. "running" \in Status /\ "started" \in EventType /\ detail[e] \in Detail
    BY DEF StoreTypeOK, Status, EventType
  <2>2. QED BY <1>2, <2>1, MoveStatusType DEF MarkStarted, StoreTypeOK
<1>3. ASSUME NEW text \in Nat, MarkCompleted(e, text) PROVE StoreTypeOK'
  <2>1. "completed" \in Status /\ "completed" \in EventType /\ "none" \in Detail
    BY DEF Status, TerminalStatus, EventType, TerminalEvent, Detail
  <2>2. QED BY <1>3, <2>1, MoveStatusType DEF MarkCompleted, StoreTypeOK
<1>4. ASSUME NEW d \in Detail, NEW text \in Nat, MarkFailed(e, d, text)
      PROVE  StoreTypeOK'
  <2>1. "failed" \in Status /\ FailedEvent(d) \in EventType
    BY DEF Status, TerminalStatus, EventType, TerminalEvent, FailedEvent
  <2>2. QED BY <1>4, <2>1, MoveStatusType DEF MarkFailed, StoreTypeOK
<1>5. ASSUME NEW d \in Detail, MarkCancelled(e, d) PROVE StoreTypeOK'
  <2>1. "cancelled" \in Status /\ "cancelled" \in EventType
    BY DEF Status, TerminalStatus, EventType, TerminalEvent
  <2>2. QED BY <1>5, <2>1, MoveStatusType DEF MarkCancelled, StoreTypeOK
<1>6. CASE AppendLogChunk(e)
  BY <1>6 DEF AppendLogChunk, Record, StoreTypeOK, EventType
<1>7. ASSUME NEW type \in EventType, AppendEvent(e, type) PROVE StoreTypeOK'
  BY <1>7 DEF AppendEvent, Record, StoreTypeOK
<1>8. QED BY <1>1, <1>2, <1>3, <1>4, <1>5, <1>6, <1>7

(* Workers are pairs of an execution and the way it was taken up.           *)
LEMMA WorkerParts ==
  /\ \A w \in Worker : w[1] \in Exec /\ w[2] \in Via /\ w = <<w[1], w[2]>>
  /\ \A e \in Exec, via \in Via : <<e, via>> \in Worker
  /\ "api" \in Via /\ "recovery" \in Via
  BY DEF Worker, Via

(* The steps of a worker keep the store and the runtime well typed.         *)
LEMMA WorkerStepType ==
  ASSUME StoreTypeOK, RuntimeTypeOK, NEW w \in Worker,
         WorkerStep(w) \/ EmitChunk(w) \/ ChunkWriteFails(w) \/ StoreCallFails(w)
  PROVE  StoreTypeOK' /\ RuntimeTypeOK'
<1> DEFINE e == w[1]
<1>e. e \in Exec
  BY WorkerParts
<1>k. kept[w] \in Nat
  BY DEF RuntimeTypeOK
<1> USE DEF RuntimeTypeOK, recoveryVars, Goto, PC, Submitting, Preparing, Running,
            Verdict
<1>u. ASSUME UNCHANGED storeVars PROVE StoreTypeOK'
  BY <1>u DEF StoreTypeOK, storeVars
<1>1. CASE Register(w)
  BY <1>1, <1>e, <1>u DEF Register
<1>2. CASE Load(w)
  BY <1>2, <1>u DEF Load
<1>3. CASE CheckCancel(w)
  BY <1>3, <1>u DEF CheckCancel
<1>4. CASE CancelBeforeStart(w)
  <2>1. "before_start" \in Detail
    BY DEF Detail
  <2>2. StoreTypeOK'
    BY <1>4, <1>e, <2>1, StoreOperationType DEF CancelBeforeStart
  <2>3. QED BY <1>4, <2>2 DEF CancelBeforeStart
<1>5. CASE Start(w)
  <2>1. StoreTypeOK'
    BY <1>5, <1>e, StoreOperationType DEF Start
  <2>2. QED BY <1>5, <2>1 DEF Start
<1>6. CASE LaunchProvider(w)
  BY <1>6, <1>u DEF LaunchProvider
<1>7. CASE ProviderDecides(w)
  BY <1>7, <1>u DEF ProviderDecides
<1>8. CASE ProviderRaises(w)
  BY <1>8, <1>u DEF ProviderRaises
<1>9. CASE ProviderReturnsNothing(w)
  BY <1>9, <1>u DEF ProviderReturnsNothing
<1>10. CASE ResolveAbnormal(w)
  BY <1>10, <1>u DEF ResolveAbnormal
<1>11. CASE Complete(w)
  <2>1. StoreTypeOK'
    BY <1>11, <1>e, <1>k, StoreOperationType DEF Complete
  <2>2. QED BY <1>11, <2>1 DEF Complete
<1>12. CASE Fail(w)
  <2>1. FailureDetail(verdict[w]) \in Detail
    BY DEF FailureDetail, Detail, RunnerDetail
  <2>2. StoreTypeOK'
    BY <1>12, <1>e, <1>k, <2>1, StoreOperationType DEF Fail
  <2>3. QED BY <1>12, <2>2 DEF Fail
<1>13. CASE AcknowledgeCancel(w)
  <2>1. "by_request" \in Detail
    BY DEF Detail, RunnerDetail
  <2>2. StoreTypeOK'
    BY <1>13, <1>e, <2>1, StoreOperationType DEF AcknowledgeCancel
  <2>3. QED BY <1>13, <2>2 DEF AcknowledgeCancel
<1>14. CASE Release(w)
  BY <1>14, <1>e, <1>u DEF Release
<1>15. CASE EmitChunk(w)
  <2>1. StoreTypeOK'
    BY <1>15, <1>e, StoreOperationType DEF EmitChunk
  <2>2. QED BY <1>15, <2>1 DEF EmitChunk
<1>16. CASE ChunkWriteFails(w)
  BY <1>16, <1>u DEF ChunkWriteFails
<1>17. CASE StoreCallFails(w)
  BY <1>17, <1>u DEF StoreCallFails, Phase
<1>18. QED
  BY <1>1, <1>2, <1>3, <1>4, <1>5, <1>6, <1>7, <1>8, <1>9, <1>10, <1>11, <1>12,
     <1>13, <1>14, <1>15, <1>16, <1>17 DEF WorkerStep

(* The steps of the recovery thread keep them well typed.                   *)
LEMMA RecoveryStepType ==
  ASSUME StoreTypeOK, RuntimeTypeOK, RecoveryStep \/ RecoveryFails
  PROVE  StoreTypeOK' /\ RuntimeTypeOK'
<1> USE DEF RuntimeTypeOK, workerVars, Phase
<1>u. ASSUME UNCHANGED storeVars PROVE StoreTypeOK'
  BY <1>u DEF StoreTypeOK, storeVars
<1>n. NoReap \in [exec : SUBSET Exec, text : Nat, d : ReaperDetail \cup {"none"}]
  BY DEF NoReap
<1>1. CASE ListRunning
  BY <1>1, <1>u DEF ListRunning
<1>2. CASE ReapRead
  <2>1. PICK e \in todo, d \in ReaperDetail :
          /\ todo' = todo \ {e}
          /\ reaping' = [exec |-> {e}, text |-> output[e], d |-> d]
    BY <1>2 DEF ReapRead
  <2>2. e \in Exec /\ output[e] \in Nat
    BY DEF StoreTypeOK
  <2>3. reaping' \in [exec : SUBSET Exec, text : Nat, d : ReaperDetail \cup {"none"}]
    BY <2>1, <2>2
  <2>4. QED BY <1>2, <1>u, <2>1, <2>3 DEF ReapRead
<1>3. CASE ReapNote
  <2>1. PICK e \in reaping.exec : AppendEvent(e, "recovered_after_restart")
    BY <1>3 DEF ReapNote
  <2>2. e \in Exec /\ "recovered_after_restart" \in EventType
    BY DEF EventType
  <2>3. StoreTypeOK'
    BY <2>1, <2>2, StoreOperationType
  <2>4. QED BY <1>3, <2>3 DEF ReapNote
<1>4. CASE ReapFail
  <2>1. PICK e \in reaping.exec : MarkFailed(e, reaping.d, reaping.text)
    BY <1>4 DEF ReapFail
  <2>2. e \in Exec /\ reaping.d \in Detail /\ reaping.text \in Nat
    BY DEF Detail
  <2>3. StoreTypeOK'
    BY <2>1, <2>2, StoreOperationType
  <2>4. QED BY <1>4, <1>n, <2>3 DEF ReapFail
<1>5. CASE ListQueued
  BY <1>5, <1>u DEF ListQueued
<1>6. CASE ReplayNext
  <2>1. PICK e \in todo : /\ todo' = todo \ {e}
                         /\ Goto(<<e, "recovery">>, "loading")
    BY <1>6 DEF ReplayNext
  <2>2. "loading" \in PC
    BY DEF PC, Preparing
  <2>3. pc' \in [Worker -> PC]
    BY <2>1, <2>2 DEF Goto
  <2>4. QED BY <1>6, <1>u, <2>1, <2>3 DEF ReplayNext
<1>7. CASE RecoveryFails
  BY <1>7, <1>n, <1>u DEF RecoveryFails
<1>8. QED BY <1>1, <1>2, <1>3, <1>4, <1>5, <1>6, <1>7 DEF RecoveryStep

(* The requests keep the whole state well typed.                            *)
LEMMA RequestStepType ==
  ASSUME TypeOK, RequestStep
  PROVE  TypeOK'
<1> USE DEF TypeOK, recoveryVars, workerVars, requestVars
<1>u. ASSUME UNCHANGED storeVars PROVE StoreTypeOK'
  BY <1>u DEF StoreTypeOK, storeVars
<1>g. ASSUME NEW e \in Exec, NEW next \in PC, Goto(<<e, "api">>, next),
             UNCHANGED <<token, verdict, kept, phase, todo, reaping>>
      PROVE  RuntimeTypeOK'
  BY <1>g DEF RuntimeTypeOK, Goto
<1>r. ASSUME UNCHANGED <<token, pc, verdict, kept, phase, todo, reaping>>
      PROVE  RuntimeTypeOK'
  BY <1>r DEF RuntimeTypeOK
<1>p. {"noting_source", "noting_target", "submitted", "done"} \subseteq PC
  BY DEF PC, Submitting
<1>1. ASSUME NEW e \in Exec, Submit(e) PROVE TypeOK'
  <2>1. StoreTypeOK'
    BY <1>1, StoreOperationType DEF Submit
  <2>2. QED BY <1>1, <1>g, <1>p, <2>1 DEF Submit
<1>2. ASSUME NEW e \in Exec, NoteRetryRequested(e) PROVE TypeOK'
  <2>1. "retry_requested" \in EventType
    BY DEF EventType
  <2>2. StoreTypeOK'
    BY <1>2, <2>1, StoreOperationType DEF NoteRetryRequested
  <2>3. QED BY <1>2, <1>g, <1>p, <2>2 DEF NoteRetryRequested
<1>3. ASSUME NEW e \in Exec, NoteRetryCreated(e) PROVE TypeOK'
  <2>1. "retry_created" \in EventType
    BY DEF EventType
  <2>2. StoreTypeOK'
    BY <1>3, <2>1, StoreOperationType DEF NoteRetryCreated
  <2>3. QED BY <1>3, <1>g, <1>p, <2>2 DEF NoteRetryCreated
<1>4. ASSUME NEW e \in Exec, SubmissionFails(e) PROVE TypeOK'
  BY <1>4, <1>g, <1>p, <1>u DEF SubmissionFails
<1>5. ASSUME NEW e \in Exec, NEW source \in Exec, Retry(source, e) PROVE TypeOK'
  <2>1. StoreTypeOK'
    BY <1>5, StoreOperationType DEF Retry
  <2>2. QED BY <1>5, <1>g, <1>p, <2>1 DEF Retry
<1>a. "absent" \in Status
  BY DEF Status
<1> USE <1>a DEF CancelPC, CancelSet, CancelGoto, CancelReply
<1>6. ASSUME NEW c \in Canceller, CancelQueued(c) PROVE TypeOK'
  <2>1. "before_start" \in Detail
    BY DEF Detail
  <2>2. StoreTypeOK'
    BY <1>6, <2>1, StoreOperationType DEF CancelQueued
  <2>3. QED BY <1>6, <1>r, <2>2 DEF CancelQueued
<1>7. ASSUME NEW c \in Canceller, CancelReread(c) PROVE TypeOK'
  <2>1. PICK e \in cancel[c].exec : CancelReply(c, 200, status[e])
    BY <1>7 DEF CancelReread
  <2>2. status[e] \in Status
    BY DEF StoreTypeOK
  <2>3. QED BY <1>7, <1>r, <1>u, <2>1, <2>2 DEF CancelReread
<1>8. ASSUME NEW c \in Canceller, CancelNote(c) PROVE TypeOK'
  <2>1. "cancel_requested" \in EventType
    BY DEF EventType
  <2>2. StoreTypeOK'
    BY <1>8, <2>1, StoreOperationType DEF CancelNote
  <2>3. QED BY <1>8, <1>r, <2>2 DEF CancelNote
<1>9. ASSUME NEW c \in Canceller, CancelSignal(c) PROVE TypeOK'
  <2>1. RuntimeTypeOK'
    BY <1>9 DEF CancelSignal, RuntimeTypeOK
  <2>2. QED BY <1>9, <1>u, <2>1 DEF CancelSignal
<1>10. ASSUME NEW c \in Canceller, CancelAcknowledged(c) \/ CancelExpires(c)
       PROVE  TypeOK'
  <2>1. PICK e \in cancel[c].exec, code \in {200, 409} :
          CancelReply(c, code, status[e])
    BY <1>10 DEF CancelAcknowledged, CancelExpires
  <2>2. status[e] \in Status
    BY DEF StoreTypeOK
  <2>3. QED
    BY <1>10, <1>r, <1>u, <2>1, <2>2 DEF CancelAcknowledged, CancelExpires
<1>11. ASSUME NEW c \in Canceller, CancelFails(c) PROVE TypeOK'
  BY <1>11, <1>r, <1>u DEF CancelFails
<1>12. ASSUME NEW c \in Canceller, NEW e \in Exec, CancelLoad(c, e) PROVE TypeOK'
  <2>1. status[e] \in Status /\ "absent" \in Status
    BY DEF StoreTypeOK, Status
  <2>2. cancel'[c] \in [pc : CancelPC, exec : SUBSET Exec, code : {0, 200, 409},
                        body : Status]
    BY <1>12, <2>1 DEF CancelLoad
  <2>3. QED BY <1>12, <1>r, <1>u, <2>2 DEF CancelLoad
<1>13. ASSUME NEW r \in Reader, StreamPoll(r) PROVE TypeOK'
  <2>1. \A e \in Exec : status[e] \in Status
    BY DEF StoreTypeOK
  <2>2. QED BY <1>13, <1>r, <1>u, <2>1 DEF StreamPoll, StreamGoto, StreamPC
<1>14. ASSUME NEW r \in Reader, StreamRead(r) PROVE TypeOK'
  <2>1. \A e \in Exec : logSeq[e] \in Nat
    BY DEF StoreTypeOK
  <2>2. QED BY <1>14, <1>r, <1>u, <2>1 DEF StreamRead, StreamGoto, AfterRead, StreamPC
<1>15. ASSUME NEW r \in Reader, NEW e \in Exec, StreamOpen(r, e) PROVE TypeOK'
  <2>1. "absent" \in Status
    BY DEF Status
  <2>2. QED BY <1>15, <1>r, <1>u, <2>1 DEF StreamOpen, StreamGoto, StreamPC
<1>16. QED
  BY <1>1, <1>2, <1>3, <1>4, <1>5, <1>6, <1>7, <1>8, <1>9, <1>10, <1>11, <1>12,
     <1>13, <1>14, <1>15 DEF RequestStep, CancelStep, StreamStep

(* Every step keeps the state well typed.                                   *)
LEMMA StepType == TypeOK /\ [Next]_vars => TypeOK'
<1> SUFFICES ASSUME TypeOK, [Next]_vars PROVE TypeOK'
  OBVIOUS
<1>1. CASE RuntimeStep
  <2>1. StoreTypeOK' /\ RuntimeTypeOK'
    BY <1>1, WorkerStepType, RecoveryStepType DEF RuntimeStep, TypeOK
  <2>2. QED BY <1>1, <2>1 DEF RuntimeStep, TypeOK, requestVars
<1>2. CASE RequestStep
  BY <1>2, RequestStepType
<1>3. CASE Crash
  <2>1. StoreTypeOK'
    BY <1>3 DEF Crash, TypeOK, StoreTypeOK, storeVars
  <2>2. RuntimeTypeOK'
    BY <1>3 DEF Crash, RuntimeBoots, RuntimeTypeOK, PC, Verdict, Phase, NoReap,
                Detail
  <2>3. "absent" \in Status
    BY DEF Status
  <2>4. QED
    BY <1>3, <2>1, <2>2, <2>3 DEF Crash, TypeOK, CancelPC, StreamPC
<1>4. CASE UNCHANGED vars
  BY <1>4 DEF vars, storeVars, workerVars, recoveryVars, requestVars, TypeOK,
              StoreTypeOK, RuntimeTypeOK
<1>5. QED BY <1>1, <1>2, <1>3, <1>4 DEF Next

(* The state is well typed initially.                                       *)
LEMMA InitType == Init => TypeOK
  BY SystemAssumption
     DEF Init, StoreInit, RuntimeInit, TypeOK, StoreTypeOK, RuntimeTypeOK, Status,
         Detail, PC, Verdict, Phase, NoReap, NoCancel, NoStream, CancelPC, StreamPC

(* Type correctness: rows, timelines, tokens, threads and requests never    *)
(* leave their ranges.                                                      *)
THEOREM TypeCorrect == Spec => []TypeOK
<1>1. QED BY InitType, StepType, PTL DEF Spec

-----------------------------------------------------------------------------
(* What a step can do to a row and its timeline.  A run is completed or     *)
(* failed only by a worker that claimed it or by the reaper that found it   *)
(* running, a claimed execution is never queued again, and what is noted    *)
(* about a run is noted after its start: this is the strengthening.         *)

Taken(e) == status[e] \notin {"absent", "queued"} /\ At(e, {"started"}) # {}

Requested(e) == At(e, {"cancel_requested"}) # {}

ClaimInv ==
  /\ \A e \in Exec : status[e] = "running" => Taken(e)
  /\ \A e \in Exec : HasRunner(e) => Taken(e)
  /\ \A e \in Exec, u, v \in Via :
       pc[<<e, u>>] \in Running /\ pc[<<e, v>>] \in Running => u = v
  /\ phase \in {"reap", "reap_note", "reap_fail"} => \A e \in todo : Taken(e)
  /\ \A e \in reaping.exec : Taken(e)

(* Whoever says that a cancellation was requested knows it from the         *)
(* timeline, and a canceller notes its request on one that has started.     *)
RequestInv ==
  /\ \A e \in Exec : token[e] = "set" => Requested(e)
  /\ \A w \in Worker : verdict[w] = "cancelled" => Requested(w[1])
  /\ \A c \in Canceller : \A d, e \in cancel[c].exec : d = e
  /\ \A c \in Canceller : cancel[c].pc = "noting" => \A e \in cancel[c].exec : Taken(e)
  /\ \A c \in Canceller :
       cancel[c].pc = "signalling" => \A e \in cancel[c].exec : Requested(e)

Moves ==
  {<<"absent", "queued">>, <<"queued", "running">>, <<"queued", "cancelled">>,
   <<"running", "completed">>, <<"running", "failed">>, <<"running", "cancelled">>}

(* The event that reports a move.                                           *)
EventOf(to, d) ==
  CASE to = "running" -> "started"
    [] to = "failed"  -> FailedEvent(d)
    [] OTHER          -> to

RunNote == {"log", "cancel_requested", "recovered_after_restart"}
LineageNote == {"retry_requested", "retry_created"}

StatusStep ==
  \/ UNCHANGED <<status, detail, timeline>>
  \/ /\ UNCHANGED <<status, detail>>
     /\ \E e \in Exec, type \in RunNote \cup LineageNote :
          (type \in RunNote => Taken(e)) /\ Record(e, type)
  \/ \E e \in Exec, to \in Status, d \in Detail :
       /\ <<status[e], to>> \in Moves
       /\ d = "by_request" => detail[e] = d \/ (Requested(e) /\ to = "cancelled")
       /\ status' = [status EXCEPT ![e] = to]
       /\ detail' = [detail EXCEPT ![e] = d]
       /\ Record(e, EventOf(to, d))

(* The guarded updates of the store make no other change, provided that no  *)
(* queued execution is completed or failed.                                 *)
LEMMA StoreStatusStep ==
  ASSUME StoreTypeOK, NEW e \in Exec,
         \/ CreateExecution(e)
         \/ MarkStarted(e)
         \/ Taken(e) /\ \E text \in Nat : MarkCompleted(e, text)
         \/ Taken(e) /\ \E d \in Detail \ {"by_request"}, text \in Nat : MarkFailed(e, d, text)
         \/ \E d \in Detail : (d = "by_request" => Requested(e)) /\ MarkCancelled(e, d)
         \/ Taken(e) /\ AppendLogChunk(e)
         \/ Taken(e) /\ \E type \in RunNote : AppendEvent(e, type)
         \/ \E type \in LineageNote : AppendEvent(e, type)
  PROVE  StatusStep
<1> USE DEF StatusStep
<1>t. /\ TerminalStatus \cup {"queued", "running"} \subseteq Status
      /\ "none" \in Detail /\ detail[e] \in Detail
  BY DEF Status, Detail, StoreTypeOK
<1>q. ASSUME NEW from, NEW to \in Status, NEW d \in Detail,
             MoveStatus(e, from, to, d, EventOf(to, d)),
             status[e] \in from => <<status[e], to>> \in Moves,
             d = "by_request" => detail[e] = d \/ (Requested(e) /\ to = "cancelled")
      PROVE  StatusStep
  BY <1>q DEF MoveStatus
<1>1. CASE CreateExecution(e)
  <2>1. detail = [detail EXCEPT ![e] = detail[e]]
    BY DEF StoreTypeOK
  <2>2. EventOf("queued", detail[e]) = "queued" /\ <<status[e], "queued">> \in Moves
    BY <1>1 DEF EventOf, CreateExecution, Moves
  <2>3. QED BY <1>1, <1>t, <2>1, <2>2 DEF CreateExecution
<1>2. CASE MarkStarted(e)
  <2>1. EventOf("running", detail[e]) = "started"
    BY DEF EventOf
  <2>2. MoveStatus(e, {"queued"}, "running", detail[e], EventOf("running", detail[e]))
    BY <1>2, <2>1 DEF MarkStarted
  <2>3. QED BY <1>q, <1>t, <2>2 DEF Moves
<1>3. ASSUME Taken(e), NEW text \in Nat, MarkCompleted(e, text) PROVE StatusStep
  <2>1. EventOf("completed", "none") = "completed"
    BY DEF EventOf
  <2>2. MoveStatus(e, Completable, "completed", "none", EventOf("completed", "none"))
    BY <1>3, <2>1 DEF MarkCompleted
  <2>3. "completed" \in Status
    BY DEF Status, TerminalStatus
  <2>4. status[e] \in Completable => <<status[e], "completed">> \in Moves
    BY <1>3 DEF Completable, Taken, Moves
  <2>5. QED BY <1>q, <1>t, <2>2, <2>3, <2>4
<1>4. ASSUME Taken(e), NEW d \in Detail \ {"by_request"}, NEW text \in Nat,
             MarkFailed(e, d, text)
      PROVE  StatusStep
  <2>1. EventOf("failed", d) = FailedEvent(d)
    BY DEF EventOf
  <2>2. MoveStatus(e, Unsettled, "failed", d, EventOf("failed", d))
    BY <1>4, <2>1 DEF MarkFailed
  <2>3. "failed" \in Status
    BY DEF Status, TerminalStatus
  <2>4. status[e] \in Unsettled => <<status[e], "failed">> \in Moves
    BY <1>4 DEF Unsettled, Taken, Moves
  <2>5. QED BY <1>q, <2>2, <2>3, <2>4
<1>5. ASSUME NEW d \in Detail, d = "by_request" => Requested(e), MarkCancelled(e, d)
      PROVE  StatusStep
  <2>1. EventOf("cancelled", d) = "cancelled"
    BY DEF EventOf
  <2>2. MoveStatus(e, Unsettled, "cancelled", d, EventOf("cancelled", d))
    BY <1>5, <2>1 DEF MarkCancelled
  <2>3. "cancelled" \in Status
    BY DEF Status, TerminalStatus
  <2>4. status[e] \in Unsettled => <<status[e], "cancelled">> \in Moves
    BY DEF Unsettled, Moves
  <2>5. QED BY <1>5, <1>q, <2>2, <2>3, <2>4
<1>6. CASE Taken(e) /\ AppendLogChunk(e)
  BY <1>6 DEF AppendLogChunk, RunNote
<1>7. CASE Taken(e) /\ \E type \in RunNote : AppendEvent(e, type)
  BY <1>7 DEF AppendEvent
<1>8. CASE \E type \in LineageNote : AppendEvent(e, type)
  BY <1>8 DEF AppendEvent, RunNote, LineageNote
<1>9. QED BY <1>1, <1>2, <1>3, <1>4, <1>5, <1>6, <1>7, <1>8

(* What a new event does to the places of events of given types.            *)
LEMMA RecordAt ==
  ASSUME StoreTypeOK, NEW e \in Exec, NEW type \in EventType, Record(e, type),
         NEW f \in Exec
  PROVE  /\ Len(timeline[f]) \in Nat
         /\ DOMAIN timeline[f] = 1..Len(timeline[f])
         /\ \A i \in 1..Len(timeline[f]) : timeline'[f][i] = timeline[f][i]
         /\ f # e => timeline'[f] = timeline[f]
         /\ f = e => timeline'[f][Len(timeline[f]) + 1] = type
         /\ \A types : At(f, types)' =
              IF f = e /\ type \in types THEN At(f, types) \cup {Len(timeline[f]) + 1}
              ELSE At(f, types)
<1>1. timeline[f] \in Seq(EventType)
  BY DEF StoreTypeOK
<1>2. timeline'[f] = IF f = e THEN Append(timeline[f], type) ELSE timeline[f]
  BY DEF Record, StoreTypeOK
<1>3. /\ Len(timeline[f]) \in Nat
      /\ DOMAIN timeline[f] = 1..Len(timeline[f])
      /\ \A i \in 1..Len(timeline[f]) : timeline'[f][i] = timeline[f][i]
      /\ f = e => timeline'[f][Len(timeline[f]) + 1] = type
      /\ DOMAIN timeline'[f] = IF f = e THEN 1..(Len(timeline[f]) + 1)
                               ELSE 1..Len(timeline[f])
  BY <1>1, <1>2
<1>4. ASSUME NEW types
      PROVE  At(f, types)' =
               IF f = e /\ type \in types THEN At(f, types) \cup {Len(timeline[f]) + 1}
               ELSE At(f, types)
  BY <1>3 DEF At
<1>5. QED BY <1>2, <1>3, <1>4

(* The events of a step are events.                                         *)
LEMMA EventsAreTyped ==
  /\ RunNote \cup LineageNote \subseteq EventType
  /\ \A to \in Status \ {"absent"}, d \in Detail : EventOf(to, d) \in EventType
  BY DEF RunNote, LineageNote, EventType, TerminalEvent, EventOf, FailedEvent, Status,
         TerminalStatus

(* The timeline only grows.                                                 *)
LEMMA TimelineGrows ==
  ASSUME StoreTypeOK, StatusStep, NEW e \in Exec, NEW types
  PROVE  At(e, types) \subseteq At(e, types)'
<1>1. CASE UNCHANGED timeline
  BY <1>1 DEF At
<1>2. ASSUME NEW f \in Exec, NEW type \in EventType, Record(f, type)
      PROVE  At(e, types) \subseteq At(e, types)'
  BY <1>2, RecordAt
<1>3. \A f \in Exec, to \in Status : <<status[f], to>> \in Moves => to # "absent"
  BY DEF Moves
<1>4. QED BY <1>1, <1>2, <1>3, EventsAreTyped DEF StatusStep

(* A taken execution stays taken.                                           *)
LEMMA TakenForEver ==
  ASSUME StoreTypeOK, StatusStep, NEW e \in Exec, Taken(e)
  PROVE  Taken(e)'
<1>1. At(e, {"started"})' # {}
  BY TimelineGrows DEF Taken
<1>2. status'[e] \notin {"absent", "queued"}
  BY DEF StoreTypeOK, StatusStep, Taken, Moves
<1>3. QED BY <1>1, <1>2 DEF Taken

(* What becomes running is taken with its start.                            *)
LEMMA RunningIsTaken ==
  ASSUME StoreTypeOK, StatusStep, ClaimInv, NEW e \in Exec, status'[e] = "running"
  PROVE  Taken(e)'
<1>1. CASE status[e] = "running"
  BY <1>1, TakenForEver DEF ClaimInv
<1>2. CASE status[e] # "running"
  <2>1. PICK f \in Exec, to \in Status, d \in Detail :
          status' = [status EXCEPT ![f] = to] /\ Record(f, EventOf(to, d))
    BY <1>2 DEF StatusStep
  <2>2. f = e /\ to = "running"
    BY <1>2, <2>1 DEF StoreTypeOK
  <2>3. Record(e, "started") /\ "started" \in EventType
    BY <2>1, <2>2 DEF EventOf, EventType
  <2>4. At(e, {"started"})' = At(e, {"started"}) \cup {Len(timeline[e]) + 1}
    BY <2>3, RecordAt
  <2>5. QED BY <2>4 DEF Taken
<1>3. QED BY <1>1, <1>2

(* A step that lets no further worker claim an execution keeps the claims   *)
(* in order.                                                                *)
LEMMA NoNewClaim ==
  ASSUME StoreTypeOK, RuntimeTypeOK, ClaimInv, StatusStep,
         \A w \in Worker : pc'[w] \in Running => pc[w] \in Running,
         phase' \in {"reap", "reap_note", "reap_fail"} =>
           \A e \in todo' : e \in Exec /\ Taken(e),
         \A e \in reaping'.exec : e \in Exec /\ Taken(e)
  PROVE  ClaimInv'
<1>1. \A e \in Exec : HasRunner(e)' => Taken(e)'
  BY WorkerParts, TakenForEver DEF ClaimInv, HasRunner
<1>2. \A e \in Exec, u, v \in Via :
        pc'[<<e, u>>] \in Running /\ pc'[<<e, v>>] \in Running => u = v
  BY WorkerParts DEF ClaimInv
<1>3. \A e \in Exec : (status[e] = "running" => Taken(e))'
  BY RunningIsTaken
<1>4. QED BY <1>1, <1>2, <1>3, TakenForEver DEF ClaimInv

(* The workers: only Start claims, and it claims a queued execution.        *)
LEMMA WorkerClaim ==
  ASSUME StoreTypeOK, RuntimeTypeOK, ClaimInv, RequestInv, NEW w \in Worker,
         WorkerStep(w) \/ EmitChunk(w) \/ ChunkWriteFails(w) \/ StoreCallFails(w)
  PROVE  StatusStep /\ ClaimInv'
<1> DEFINE e == w[1]
<1>e. /\ e \in Exec /\ w[2] \in Via /\ w = <<e, w[2]>>
      /\ kept[w] \in Nat
      /\ todo \subseteq Exec /\ reaping.exec \subseteq Exec
  BY WorkerParts DEF RuntimeTypeOK
<1>r. ASSUME pc[w] \in Running PROVE Taken(e)
  BY <1>e, <1>r DEF ClaimInv, HasRunner
<1>q. ASSUME StatusStep,
             \E next \in PC : Goto(w, next) /\ (next \in Running => pc[w] \in Running),
             UNCHANGED recoveryVars
      PROVE  StatusStep /\ ClaimInv'
  <2>1. \A x \in Worker : pc'[x] \in Running => pc[x] \in Running
    BY <1>q DEF Goto, RuntimeTypeOK
  <2>2. QED BY <1>q, <1>e, <2>1, NoNewClaim DEF ClaimInv, recoveryVars
<1> USE DEF PC, Submitting, Preparing, Running
<1>1. CASE \/ Register(w) \/ Load(w) \/ CheckCancel(w) \/ LaunchProvider(w)
           \/ ProviderDecides(w) \/ ProviderRaises(w) \/ ProviderReturnsNothing(w)
           \/ ResolveAbnormal(w) \/ Release(w) \/ ChunkWriteFails(w)
  <2>1. /\ StatusStep /\ UNCHANGED recoveryVars
        /\ \E next \in PC : Goto(w, next) /\ (next \in Running => pc[w] \in Running)
    BY <1>1 DEF Register, Load, CheckCancel, LaunchProvider, ProviderDecides,
                ProviderRaises, ProviderReturnsNothing, ResolveAbnormal, Release,
                ChunkWriteFails, storeVars, recoveryVars, StatusStep
  <2>2. QED BY <1>q, <2>1
<1>2. CASE StoreCallFails(w)
  <2>1. StatusStep
    BY <1>2 DEF StoreCallFails, storeVars, StatusStep
  <2>2. \A x \in Worker : pc'[x] \in Running => pc[x] \in Running
    BY <1>2 DEF StoreCallFails, Goto, RuntimeTypeOK
  <2>3. QED BY <1>2, <1>e, <2>1, <2>2, NoNewClaim DEF StoreCallFails, ClaimInv
<1>3. CASE EmitChunk(w)
  <2>1. StatusStep
    BY <1>3, <1>e, <1>r, StoreStatusStep DEF EmitChunk
  <2>2. QED BY <1>3, <1>e, <2>1, NoNewClaim DEF EmitChunk, ClaimInv, recoveryVars
<1>4. CASE CancelBeforeStart(w)
  <2>1. "before_start" \in Detail /\ "before_start" # "by_request"
    BY DEF Detail
  <2>2. StatusStep
    BY <1>4, <1>e, <2>1, StoreStatusStep DEF CancelBeforeStart
  <2>3. QED BY <1>4, <1>q, <2>2 DEF CancelBeforeStart
<1>5. CASE Complete(w)
  <2>1. StatusStep
    BY <1>5, <1>e, <1>r, StoreStatusStep DEF Complete
  <2>2. QED BY <1>5, <1>q, <2>1 DEF Complete
<1>6. CASE Fail(w)
  <2>1. FailureDetail(verdict[w]) \in Detail \ {"by_request"}
    BY DEF FailureDetail, Detail, RunnerDetail
  <2>2. Taken(e)
    BY <1>6, <1>r DEF Fail
  <2>3. StatusStep
    BY <1>6, <1>e, <2>1, <2>2, StoreStatusStep DEF Fail
  <2>4. QED BY <1>6, <1>q, <2>3 DEF Fail
<1>7. CASE AcknowledgeCancel(w)
  <2>1. "by_request" \in Detail /\ Requested(e)
    BY <1>7 DEF Detail, RunnerDetail, AcknowledgeCancel, RequestInv
  <2>2. StatusStep
    BY <1>7, <1>e, <2>1, StoreStatusStep DEF AcknowledgeCancel
  <2>3. QED BY <1>7, <1>q, <2>2 DEF AcknowledgeCancel
<1>8. CASE Start(w)
  <2>1. StatusStep
    BY <1>8, <1>e, StoreStatusStep DEF Start
  <2>2. CASE status[e] # "queued"
    BY <1>8, <1>q, <2>1, <2>2 DEF Start
  <2>3. CASE status[e] = "queued"
    <3>1. Taken(e)'
      <4>1. status'[e] = "running"
        BY <1>8, <1>e, <2>3 DEF Start, MarkStarted, MoveStatus, StoreTypeOK
      <4>2. QED BY <1>e, <2>1, <4>1, RunningIsTaken
    <3>2. \A via \in Via : pc[<<e, via>>] \notin Running
      BY <1>e, <2>3 DEF ClaimInv, HasRunner, Taken
    <3>3. pc' = [pc EXCEPT ![w] = "started"]
      BY <1>8, <2>3 DEF Start, Goto
    <3>4. \A f \in Exec, via \in Via :
            pc'[<<f, via>>] \in Running => pc[<<f, via>>] \in Running \/ <<f, via>> = w
      BY <3>3, WorkerParts DEF RuntimeTypeOK
    <3>5. \A f \in Exec : HasRunner(f)' => Taken(f)'
      BY <1>e, <2>1, <3>1, <3>4, TakenForEver DEF ClaimInv, HasRunner
    <3>6. \A f \in Exec, u, v \in Via :
            pc'[<<f, u>>] \in Running /\ pc'[<<f, v>>] \in Running => u = v
      BY <1>e, <3>2, <3>4 DEF ClaimInv
    <3>7. \A f \in Exec : (status[f] = "running" => Taken(f))'
      BY <2>1, RunningIsTaken
    <3>8. QED
      BY <1>8, <1>e, <2>1, <3>5, <3>6, <3>7, TakenForEver DEF Start, ClaimInv, recoveryVars
  <2>4. QED BY <2>2, <2>3
<1>9. QED
  BY <1>1, <1>2, <1>3, <1>4, <1>5, <1>6, <1>7, <1>8 DEF WorkerStep

(* The recovery thread fails only what it listed as running, and claims     *)
(* nothing by itself.                                                       *)
LEMMA RecoveryClaim ==
  ASSUME StoreTypeOK, RuntimeTypeOK, ClaimInv, RecoveryStep \/ RecoveryFails
  PROVE  StatusStep /\ ClaimInv'
<1>t. todo \subseteq Exec /\ reaping.exec \subseteq Exec
  BY DEF RuntimeTypeOK
<1>n. NoReap.exec = {}
  BY DEF NoReap
<1>s. UNCHANGED storeVars => StatusStep
  BY DEF storeVars, StatusStep
<1>p. ASSUME UNCHANGED pc PROVE \A w \in Worker : pc'[w] \in Running => pc[w] \in Running
  BY <1>p
<1> USE DEF workerVars
<1>1. CASE ListRunning
  <2>1. \A e \in todo' : e \in Exec /\ Taken(e)
    BY <1>1 DEF ListRunning, ClaimInv
  <2>2. QED BY <1>1, <1>t, <1>s, <1>p, <2>1, NoNewClaim DEF ListRunning, ClaimInv
<1>2. CASE ReapRead
  <2>1. PICK e \in todo, d \in ReaperDetail :
          /\ todo' = todo \ {e}
          /\ reaping' = [exec |-> {e}, text |-> output[e], d |-> d]
    BY <1>2 DEF ReapRead
  <2>2. reaping'.exec = {e}
    BY <2>1
  <2>3. \A f \in todo : Taken(f)
    BY <1>2 DEF ReapRead, ClaimInv
  <2>4. \A f \in todo' \cup reaping'.exec : f \in Exec /\ Taken(f)
    BY <1>t, <2>1, <2>2, <2>3
  <2>5. QED BY <1>2, <1>s, <1>p, <2>4, NoNewClaim DEF ReapRead
<1>3. CASE ReapNote
  <2>1. PICK e \in reaping.exec : AppendEvent(e, "recovered_after_restart")
    BY <1>3 DEF ReapNote
  <2>2. e \in Exec /\ Taken(e) /\ "recovered_after_restart" \in RunNote
    BY <1>t DEF ClaimInv, RunNote
  <2>3. StatusStep
    BY <2>1, <2>2, StoreStatusStep
  <2>4. QED BY <1>3, <1>t, <1>p, <2>3, NoNewClaim DEF ReapNote, ClaimInv
<1>4. CASE ReapFail
  <2>1. PICK e \in reaping.exec : MarkFailed(e, reaping.d, reaping.text)
    BY <1>4 DEF ReapFail
  <2>2. e \in Exec /\ reaping.d \in Detail \ {"by_request"} /\ reaping.text \in Nat
    BY <1>t DEF RuntimeTypeOK, Detail, ReaperDetail
  <2>3. StatusStep
    BY <2>1, <2>2, StoreStatusStep DEF ClaimInv
  <2>4. reaping'.exec = {}
    BY <1>4, <1>n DEF ReapFail
  <2>5. QED BY <1>4, <1>t, <1>p, <2>3, <2>4, NoNewClaim DEF ReapFail, ClaimInv
<1>5. CASE ListQueued
  BY <1>5, <1>t, <1>s, <1>p, NoNewClaim DEF ListQueued, ClaimInv
<1>6. CASE ReplayNext
  <2>1. PICK e \in todo : Goto(<<e, "recovery">>, "loading")
    BY <1>6 DEF ReplayNext
  <2>2. "loading" \notin Running
    BY DEF Running
  <2>3. \A w \in Worker : pc'[w] \in Running => pc[w] \in Running
    BY <2>1, <2>2 DEF Goto, RuntimeTypeOK
  <2>4. QED BY <1>6, <1>t, <1>s, <2>3, NoNewClaim DEF ReplayNext, ClaimInv
<1>7. CASE RecoveryFails
  BY <1>7, <1>n, <1>s, <1>p, NoNewClaim DEF RecoveryFails, ClaimInv
<1>8. QED BY <1>1, <1>2, <1>3, <1>4, <1>5, <1>6, <1>7 DEF RecoveryStep

(* No request completes or fails an execution, and none claims one.         *)
LEMMA RequestClaim ==
  ASSUME TypeOK, ClaimInv, RequestInv, RequestStep
  PROVE  StatusStep /\ ClaimInv'
<1>t. /\ StoreTypeOK /\ RuntimeTypeOK
      /\ todo \subseteq Exec /\ reaping.exec \subseteq Exec
      /\ \A c \in Canceller : cancel[c].exec \subseteq Exec
      /\ \A e \in Exec : origin[e] \subseteq Exec
  BY DEF TypeOK, RuntimeTypeOK
<1>s. UNCHANGED storeVars => StatusStep
  BY DEF storeVars, StatusStep
<1>g. ASSUME StatusStep, NEW e \in Exec,
             \E next \in Submitting \cup {"done"} : Goto(<<e, "api">>, next),
             UNCHANGED recoveryVars
      PROVE  StatusStep /\ ClaimInv'
  <2>1. \A w \in Worker : pc'[w] \in Running => pc[w] \in Running
    BY <1>g, <1>t DEF Goto, Running, Submitting, RuntimeTypeOK
  <2>2. QED BY <1>g, <1>t, <2>1, NoNewClaim DEF recoveryVars, ClaimInv
<1>k. ASSUME StatusStep, UNCHANGED <<pc, recoveryVars>> PROVE StatusStep /\ ClaimInv'
  BY <1>k, <1>t, NoNewClaim DEF recoveryVars, ClaimInv
<1>e. "cancel_requested" \in RunNote /\ {"retry_requested", "retry_created"} \subseteq LineageNote
  BY DEF RunNote, LineageNote
<1> USE DEF Submitting, workerVars
<1>1. ASSUME NEW e \in Exec,
             Submit(e) \/ \E source \in Exec : Retry(source, e)
      PROVE  StatusStep /\ ClaimInv'
  <2>1. CreateExecution(e)
    BY <1>1 DEF Submit, Retry
  <2>2. StatusStep
    BY <1>t, <2>1, StoreStatusStep
  <2>3. QED BY <1>1, <1>g, <2>2 DEF Submit, Retry
<1>2. ASSUME NEW e \in Exec, NoteRetryRequested(e) PROVE StatusStep /\ ClaimInv'
  <2>1. PICK source \in origin[e] : AppendEvent(source, "retry_requested")
    BY <1>2 DEF NoteRetryRequested
  <2>2. StatusStep
    BY <1>t, <1>e, <2>1, StoreStatusStep
  <2>3. QED BY <1>2, <1>g, <2>2 DEF NoteRetryRequested
<1>3. ASSUME NEW e \in Exec, NoteRetryCreated(e) PROVE StatusStep /\ ClaimInv'
  <2>1. StatusStep
    BY <1>3, <1>t, <1>e, StoreStatusStep DEF NoteRetryCreated
  <2>2. QED BY <1>3, <1>g, <2>1 DEF NoteRetryCreated
<1>4. ASSUME NEW e \in Exec, SubmissionFails(e) PROVE StatusStep /\ ClaimInv'
  BY <1>4, <1>g, <1>s DEF SubmissionFails
<1>5. ASSUME NEW c \in Canceller, CancelQueued(c) PROVE StatusStep /\ ClaimInv'
  <2>1. PICK e \in cancel[c].exec : MarkCancelled(e, "before_start")
    BY <1>5 DEF CancelQueued
  <2>2. e \in Exec /\ "before_start" \in Detail /\ "before_start" # "by_request"
    BY <1>t DEF Detail
  <2>3. StatusStep
    BY <1>t, <2>1, <2>2, StoreStatusStep
  <2>4. QED BY <1>5, <1>k, <2>3 DEF CancelQueued
<1>6. ASSUME NEW c \in Canceller, CancelNote(c) PROVE StatusStep /\ ClaimInv'
  <2>1. PICK e \in cancel[c].exec : AppendEvent(e, "cancel_requested")
    BY <1>6 DEF CancelNote
  <2>2. Taken(e)
    BY <1>6 DEF CancelNote, RequestInv
  <2>3. StatusStep
    BY <1>t, <1>e, <2>1, <2>2, StoreStatusStep
  <2>4. QED BY <1>6, <1>k, <2>3 DEF CancelNote
<1>7. ASSUME NEW c \in Canceller,
             \/ CancelReread(c) \/ CancelSignal(c) \/ CancelAcknowledged(c)
             \/ CancelExpires(c) \/ CancelFails(c) \/ \E e \in Exec : CancelLoad(c, e)
      PROVE  StatusStep /\ ClaimInv'
  BY <1>7, <1>k, <1>s
     DEF CancelReread, CancelSignal, CancelAcknowledged, CancelExpires, CancelFails,
         CancelLoad
<1>8. ASSUME NEW r \in Reader, StreamStep(r) \/ \E e \in Exec : StreamOpen(r, e)
      PROVE  StatusStep /\ ClaimInv'
  BY <1>8, <1>k, <1>s DEF StreamStep, StreamPoll, StreamRead, StreamOpen, StreamGoto
<1>9. QED
  BY <1>1, <1>2, <1>3, <1>4, <1>5, <1>6, <1>7, <1>8 DEF RequestStep, CancelStep

(* Every step makes one status change of Moves at most and keeps the claims *)
(* in order; a crash forgets the claims.                                    *)
LEMMA StepClaim ==
  TypeOK /\ ClaimInv /\ RequestInv /\ [Next]_vars => StatusStep /\ ClaimInv'
<1> SUFFICES ASSUME TypeOK, ClaimInv, RequestInv, [Next]_vars PROVE StatusStep /\ ClaimInv'
  OBVIOUS
<1>t. StoreTypeOK /\ RuntimeTypeOK
  BY DEF TypeOK
<1>1. CASE RuntimeStep
  BY <1>1, <1>t, WorkerClaim, RecoveryClaim DEF RuntimeStep
<1>2. CASE RequestStep
  BY <1>2, RequestClaim
<1>3. CASE Crash
  <2>1. StatusStep
    BY <1>3 DEF Crash, storeVars, StatusStep
  <2>2. \A w \in Worker : pc'[w] \notin Running
    BY <1>3 DEF Crash, RuntimeBoots, Running
  <2>3. phase' = "boot" /\ reaping'.exec = {}
    BY <1>3 DEF Crash, RuntimeBoots, NoReap
  <2>4. QED BY <1>t, <2>1, <2>2, <2>3, NoNewClaim
<1>4. CASE UNCHANGED vars
  <2>1. /\ StatusStep
        /\ UNCHANGED <<status, timeline, pc, phase, todo, reaping>>
    BY <1>4 DEF vars, storeVars, workerVars, recoveryVars, StatusStep
  <2>2. QED BY <2>1 DEF ClaimInv, HasRunner, Taken, At
<1>5. QED BY <1>1, <1>2, <1>3, <1>4 DEF Next

(* Initially nothing is claimed and nothing requested.                      *)
LEMMA InitClaim == Init => ClaimInv /\ RequestInv
<1> SUFFICES ASSUME Init PROVE ClaimInv /\ RequestInv
  OBVIOUS
<1>1. \A e \in Exec, via \in Via : pc[<<e, via>>] \notin Running
  BY WorkerParts DEF Init, RuntimeInit, Running
<1>2. phase = "boot" /\ reaping.exec = {}
  BY DEF Init, RuntimeInit, NoReap
<1>3. \A e \in Exec : status[e] = "absent"
  BY DEF Init, StoreInit
<1>4. ClaimInv
  BY <1>1, <1>2, <1>3 DEF ClaimInv, HasRunner
<1>5. RequestInv
  BY DEF Init, RuntimeInit, RequestInv, NoCancel
<1>6. QED BY <1>4, <1>5

(* What is requested and taken stays so.                                    *)
LEMMA RequestedForEver ==
  ASSUME StoreTypeOK, StatusStep,
         \A e \in Exec : token'[e] = "set" => token[e] = "set" \/ Requested(e),
         \A w \in Worker : verdict'[w] = "cancelled" =>
           verdict[w] = "cancelled" \/ Requested(w[1]),
         \A c \in Canceller : cancel'[c].pc \in {"noting", "signalling"} =>
           cancel'[c] = cancel[c],
         \A c \in Canceller :
           cancel'[c].exec = cancel[c].exec /\ cancel[c].exec \subseteq Exec,
         RequestInv
  PROVE  RequestInv'
<1>1. \A e \in Exec : Requested(e) => Requested(e)'
  BY TimelineGrows DEF Requested
<1>2. \A w \in Worker : w[1] \in Exec
  BY WorkerParts
<1>3. QED BY <1>1, <1>2, TakenForEver DEF RequestInv

(* A worker asks the token before it says that it was cancelled.            *)
LEMMA WorkerRequest ==
  ASSUME TypeOK, StatusStep, RequestInv, NEW w \in Worker, UNCHANGED cancel,
         WorkerStep(w) \/ EmitChunk(w) \/ ChunkWriteFails(w) \/ StoreCallFails(w)
  PROVE  RequestInv'
<1>t. /\ StoreTypeOK /\ RuntimeTypeOK
      /\ \A c \in Canceller : cancel[c].exec \subseteq Exec
      /\ w[1] \in Exec
  BY WorkerParts DEF TypeOK
<1>q. ASSUME \A e \in Exec : token'[e] = "set" => token[e] = "set",
             \A x \in Worker : verdict'[x] = "cancelled" =>
               verdict[x] = "cancelled" \/ (x = w /\ CancelRequested(w))
      PROVE  RequestInv'
  <2>1. CancelRequested(w) => Requested(w[1])
    BY <1>t DEF CancelRequested, RequestInv
  <2>2. QED BY <1>t, <1>q, <2>1, RequestedForEver
<1>1. CASE UNCHANGED <<token, verdict>>
  BY <1>1, <1>q
<1>2. CASE Register(w) \/ Release(w)
  BY <1>2, <1>q, <1>t DEF Register, Release, RuntimeTypeOK
<1>3. CASE \/ ProviderDecides(w) \/ ProviderRaises(w) \/ ProviderReturnsNothing(w)
           \/ ResolveAbnormal(w) \/ ChunkWriteFails(w)
  <2>1. PICK v \in Verdict :
          /\ verdict' = [verdict EXCEPT ![w] = v]
          /\ v = "cancelled" => verdict[w] = "cancelled" \/ CancelRequested(w)
    BY <1>3, <1>t DEF ProviderDecides, ProviderRaises, ProviderReturnsNothing,
                      ResolveAbnormal, ChunkWriteFails, Verdict, RuntimeTypeOK
  <2>2. UNCHANGED token
    BY <1>3 DEF ProviderDecides, ProviderRaises, ProviderReturnsNothing,
                ResolveAbnormal, ChunkWriteFails
  <2>3. QED BY <1>q, <1>t, <2>1, <2>2 DEF RuntimeTypeOK
<1>4. QED
  BY <1>1, <1>2, <1>3
  DEF WorkerStep, Load, CheckCancel, CancelBeforeStart, Start, LaunchProvider, Complete,
      Fail, AcknowledgeCancel, EmitChunk, StoreCallFails

(* A canceller notes its request before it signals.                         *)
LEMMA CancelRequest ==
  ASSUME TypeOK, ClaimInv, RequestInv, StatusStep, NEW c \in Canceller,
         CancelStep(c) \/ CancelFails(c) \/ \E e \in Exec : CancelLoad(c, e)
  PROVE  RequestInv'
<1>t. /\ StoreTypeOK /\ RuntimeTypeOK
      /\ \A x \in Canceller : cancel[x].exec \subseteq Exec
  BY DEF TypeOK
<1>1. \A e \in Exec : Requested(e) => Requested(e)'
  BY <1>t, TimelineGrows DEF Requested
<1>2. \A e \in Exec : Taken(e) => Taken(e)'
  BY <1>t, TakenForEver
<1>w. \A w \in Worker : w[1] \in Exec
  BY WorkerParts
<1>q. ASSUME UNCHANGED verdict,
             \A e \in Exec : token'[e] = "set" => token[e] = "set" \/ Requested(e),
             \A x \in Canceller \ {c} : cancel'[x] = cancel[x],
             \A d, e \in cancel'[c].exec : d = e,
             cancel'[c].pc = "noting" => \A e \in cancel'[c].exec : Taken(e)',
             cancel'[c].pc = "signalling" => \A e \in cancel'[c].exec : Requested(e)'
      PROVE  RequestInv'
  BY <1>t, <1>1, <1>2, <1>w, <1>q DEF RequestInv
<1>s. ASSUME NEW next, NEW target, NEW code, NEW body, CancelSet(c, next, target, code, body)
      PROVE  /\ \A x \in Canceller \ {c} : cancel'[x] = cancel[x]
             /\ cancel'[c].pc = next /\ cancel'[c].exec = target
  BY <1>s DEF CancelSet, TypeOK
<1>u. \A d, e \in cancel[c].exec : d = e
  BY DEF RequestInv
<1>r. ASSUME NEW next \in {"reread", "awaiting", "replied", "lost"}, NEW code, NEW body,
             CancelSet(c, next, cancel[c].exec, code, body), UNCHANGED verdict,
             \A e \in Exec : token'[e] = "set" => token[e] = "set" \/ Requested(e)
      PROVE  RequestInv'
  BY <1>q, <1>r, <1>s, <1>u
<1>3. CASE CancelNote(c)
  <2>1. PICK e \in cancel[c].exec : AppendEvent(e, "cancel_requested")
    BY <1>3 DEF CancelNote
  <2>2. "cancel_requested" \in EventType /\ e \in Exec
    BY <1>t DEF EventType
  <2>3. At(e, {"cancel_requested"})' = At(e, {"cancel_requested"}) \cup {Len(timeline[e]) + 1}
    BY <1>t, <2>1, <2>2, RecordAt DEF AppendEvent
  <2>4. \A d \in cancel[c].exec : Requested(d)'
    BY <1>u, <2>3 DEF Requested
  <2>5. CancelSet(c, "signalling", cancel[c].exec, 0, "absent")
        /\ UNCHANGED <<token, verdict>>
    BY <1>3 DEF CancelNote, CancelGoto, workerVars
  <2>6. QED BY <1>q, <1>s, <1>u, <2>4, <2>5
<1>4. CASE CancelSignal(c)
  <2>1. PICK e \in cancel[c].exec : token' = [token EXCEPT ![e] = "set"]
    BY <1>4 DEF CancelSignal
  <2>2. e \in Exec /\ Requested(e)
    BY <1>4, <1>t DEF CancelSignal, RequestInv
  <2>3. \A d \in Exec : token'[d] = "set" => token[d] = "set" \/ Requested(d)
    BY <1>t, <2>1, <2>2 DEF RuntimeTypeOK
  <2>4. QED BY <1>4, <1>r, <2>3 DEF CancelSignal, CancelGoto
<1>5. CASE \/ CancelQueued(c) \/ CancelReread(c) \/ CancelAcknowledged(c)
           \/ CancelExpires(c) \/ CancelFails(c)
  <2>1. /\ UNCHANGED <<token, verdict>>
        /\ \E next \in {"reread", "replied", "lost"} : \E code, body :
             CancelSet(c, next, cancel[c].exec, code, body)
    BY <1>5 DEF CancelQueued, CancelReread, CancelAcknowledged, CancelExpires,
                CancelFails, CancelGoto, CancelReply, workerVars
  <2>2. QED BY <1>r, <2>1
<1>6. ASSUME NEW e \in Exec, CancelLoad(c, e) PROVE RequestInv'
  <2>1. UNCHANGED <<token, verdict>>
    BY <1>6 DEF CancelLoad, workerVars
  <2>2. CASE status[e] = "running" /\ CancelSet(c, "noting", {e}, 0, "absent")
    <3>1. Taken(e)'
      BY <1>2, <2>2 DEF ClaimInv
    <3>2. QED BY <1>q, <1>s, <2>1, <2>2, <3>1
  <2>3. ASSUME NEW next \in {"pre_start", "replied"}, NEW code, NEW body,
               CancelSet(c, next, {e}, code, body)
        PROVE  RequestInv'
    BY <1>q, <1>s, <2>1, <2>3
  <2>4. QED BY <1>6, <2>2, <2>3 DEF CancelLoad
<1>7. QED BY <1>3, <1>4, <1>5, <1>6 DEF CancelStep

(* Every step keeps both invariants: the other requests neither signal nor  *)
(* note a cancellation, and a crash forgets the tokens.                     *)
LEMMA StepRequest ==
  TypeOK /\ ClaimInv /\ RequestInv /\ [Next]_vars => RequestInv'
<1> SUFFICES ASSUME TypeOK, ClaimInv, RequestInv, [Next]_vars PROVE RequestInv'
  OBVIOUS
<1>t. /\ StoreTypeOK
      /\ \A c \in Canceller : cancel[c].exec \subseteq Exec
  BY DEF TypeOK
<1>s. StatusStep
  BY StepClaim
<1>q. ASSUME UNCHANGED <<token, verdict, cancel>> PROVE RequestInv'
  BY <1>q, <1>s, <1>t, RequestedForEver
<1>1. ASSUME NEW w \in Worker, UNCHANGED cancel,
             WorkerStep(w) \/ EmitChunk(w) \/ ChunkWriteFails(w) \/ StoreCallFails(w)
      PROVE  RequestInv'
  BY <1>1, <1>s, WorkerRequest
<1>2. CASE (RecoveryStep \/ RecoveryFails) /\ UNCHANGED cancel
  BY <1>2, <1>q DEF RecoveryStep, RecoveryFails, ListRunning, ReapRead, ReapNote, ReapFail,
                    ListQueued, ReplayNext, workerVars
<1>3. ASSUME NEW e \in Exec,
             \/ Submit(e) \/ NoteRetryRequested(e) \/ NoteRetryCreated(e)
             \/ SubmissionFails(e) \/ \E source \in Exec : Retry(source, e)
      PROVE  RequestInv'
  BY <1>3, <1>q DEF Submit, NoteRetryRequested, NoteRetryCreated, SubmissionFails, Retry,
                    requestVars
<1>4. ASSUME NEW c \in Canceller,
             CancelStep(c) \/ CancelFails(c) \/ \E e \in Exec : CancelLoad(c, e)
      PROVE  RequestInv'
  BY <1>4, <1>s, CancelRequest
<1>5. ASSUME NEW r \in Reader, StreamStep(r) \/ \E e \in Exec : StreamOpen(r, e)
      PROVE  RequestInv'
  BY <1>5, <1>q DEF StreamStep, StreamPoll, StreamRead, StreamOpen, StreamGoto, workerVars
<1>6. CASE Crash
  <2>1. /\ \A e \in Exec : token'[e] # "set"
        /\ \A w \in Worker : verdict'[w] # "cancelled"
    BY <1>6 DEF Crash, RuntimeBoots
  <2>2. \A c \in Canceller :
          /\ cancel'[c].exec = cancel[c].exec
          /\ cancel'[c].pc \in {"noting", "signalling"} => cancel'[c] = cancel[c]
    BY <1>6 DEF Crash
  <2>3. QED BY <1>s, <1>t, <2>1, <2>2, RequestedForEver
<1>7. CASE UNCHANGED vars
  BY <1>7, <1>q DEF vars, workerVars, requestVars
<1>8. QED
  BY <1>1, <1>2, <1>3, <1>4, <1>5, <1>6, <1>7
  DEF Next, RuntimeStep, RequestStep, requestVars

(* At most one worker of an execution is past its claim, the reaper only    *)
(* holds executions that were claimed, and whoever acts on a cancellation   *)
(* has it from the timeline.                                                *)
THEOREM ClaimsInOrder == Spec => [](ClaimInv /\ RequestInv)
<1>1. TypeOK /\ ClaimInv /\ RequestInv /\ [Next]_vars => ClaimInv' /\ RequestInv'
  BY StepClaim, StepRequest
<1>2. QED BY <1>1, InitClaim, TypeCorrect, PTL DEF Spec

(* A settled execution keeps its status and error_detail, whichever of the  *)
(* runner, a canceller and the reaper comes second.                         *)
THEOREM SettledForEver == Spec => TerminalIsFinal
<1>1. TypeOK /\ ClaimInv /\ RequestInv /\ [Next]_vars =>
        [\A e \in Exec : IsTerminal(e) => status'[e] = status[e] /\ detail'[e] = detail[e]]_vars
  <2> SUFFICES ASSUME TypeOK, ClaimInv, RequestInv, [Next]_vars, NEW e \in Exec, IsTerminal(e)
               PROVE  status'[e] = status[e] /\ detail'[e] = detail[e]
    OBVIOUS
  <2>1. StatusStep
    BY StepClaim
  <2>2. QED
    BY <2>1 DEF StatusStep, Moves, IsTerminal, TerminalStatus, TypeOK, StoreTypeOK
<1>2. QED BY <1>1, TypeCorrect, ClaimsInOrder, PTL DEF Spec, TerminalIsFinal

-----------------------------------------------------------------------------
(* What the timeline tells.  Together with the claims and requests the four *)
(* parts are inductive: an event is only ever added at the end.             *)

StartsOnce(e) ==
  /\ status[e] \in {"absent", "queued"} => At(e, {"started"}) = {}
  /\ \A i, j \in At(e, {"started"}) : i = j

SettlesOnce(e) ==
  /\ IsTerminal(e) <=> At(e, TerminalEvent) # {}
  /\ \A i, j \in At(e, TerminalEvent) : i = j
  /\ \A i \in At(e, TerminalEvent) : timeline[e][i] = SettlingEvent(e)

Presuming == {"log", "completed", "failed", "timed_out", "cancel_requested",
              "recovered_after_restart"}

StartsFirst(e) ==
  \A i \in At(e, Presuming) : \E j \in 1 .. i - 1 : timeline[e][j] = "started"

RequestsFirst(e) ==
  detail[e] = "by_request" =>
    \E i \in At(e, {"cancel_requested"}), j \in At(e, {"cancelled"}) : i < j

TimelineInv ==
  \A e \in Exec : StartsOnce(e) /\ SettlesOnce(e) /\ StartsFirst(e) /\ RequestsFirst(e)

(* A step leaves an execution alone, notes something on its timeline, or    *)
(* moves it and says so.                                                    *)
Alone(e) ==
  status'[e] = status[e] /\ detail'[e] = detail[e] /\ timeline'[e] = timeline[e]

Noted(e, type) ==
  /\ status'[e] = status[e] /\ detail'[e] = detail[e]
  /\ type \in RunNote => Taken(e)
  /\ Record(e, type)

Moved(e, to, d) ==
  /\ <<status[e], to>> \in Moves
  /\ d = "by_request" => detail[e] = d \/ (Requested(e) /\ to = "cancelled")
  /\ status'[e] = to /\ detail'[e] = d
  /\ Record(e, EventOf(to, d))

LEMMA OneExecutionStep ==
  ASSUME StoreTypeOK, StatusStep, NEW e \in Exec
  PROVE  \/ Alone(e)
         \/ \E type \in RunNote \cup LineageNote : Noted(e, type)
         \/ \E to \in Status, d \in Detail : Moved(e, to, d)
<1>1. CASE UNCHANGED <<status, detail, timeline>>
  BY <1>1 DEF Alone
<1>2. ASSUME UNCHANGED <<status, detail>>, NEW f \in Exec,
             NEW type \in RunNote \cup LineageNote,
             type \in RunNote => Taken(f), Record(f, type)
      PROVE  Alone(e) \/ Noted(e, type)
  BY <1>2 DEF Alone, Noted, Record, StoreTypeOK
<1>3. ASSUME NEW f \in Exec, NEW to \in Status, NEW d \in Detail,
             <<status[f], to>> \in Moves,
             d = "by_request" => detail[f] = d \/ (Requested(f) /\ to = "cancelled"),
             status' = [status EXCEPT ![f] = to],
             detail' = [detail EXCEPT ![f] = d],
             Record(f, EventOf(to, d))
      PROVE  Alone(e) \/ Moved(e, to, d)
  <2>1. CASE f = e
    BY <1>3, <2>1 DEF Moved, StoreTypeOK
  <2>2. CASE f # e
    BY <1>3, <2>2 DEF Alone, Record, StoreTypeOK
  <2>3. QED BY <2>1, <2>2
<1>4. QED BY <1>1, <1>2, <1>3 DEF StatusStep

(* A move is reported by one event: a start, or the end it leads to.        *)
LEMMA MoveEvents ==
  ASSUME NEW e, NEW to \in Status, NEW d \in Detail, <<status[e], to>> \in Moves
  PROVE  /\ EventOf(to, d) \in EventType
         /\ to = "queued" => EventOf(to, d) = "queued"
         /\ to = "running" => EventOf(to, d) = "started" /\ status[e] = "queued"
         /\ to \in TerminalStatus <=> EventOf(to, d) \in TerminalEvent
         /\ to \in {"queued", "running"} \cup TerminalStatus
         /\ to \in {"completed", "failed"} => status[e] = "running"
         /\ EventOf(to, d) \in Presuming => to \in {"completed", "failed"}
         /\ to \in TerminalStatus =>
              EventOf(to, d) = IF to = "failed" THEN FailedEvent(d) ELSE to
         /\ to = "cancelled" => EventOf(to, d) = "cancelled"
         /\ status[e] \notin TerminalStatus
  BY DEF Moves, EventOf, FailedEvent, EventType, TerminalEvent, TerminalStatus, Presuming

(* An event at the end of a timeline whose start is there presumes nothing. *)
LEMMA PresumesStart ==
  ASSUME StoreTypeOK, NEW e \in Exec, NEW type \in EventType, Record(e, type),
         StartsFirst(e), type \in Presuming => At(e, {"started"}) # {}
  PROVE  StartsFirst(e)'
<1> DEFINE n == Len(timeline[e])
<1>1. /\ n \in Nat /\ DOMAIN timeline[e] = 1..n
      /\ \A i \in 1..n : timeline'[e][i] = timeline[e][i]
      /\ At(e, Presuming)' \subseteq At(e, Presuming) \cup {n + 1}
      /\ type \notin Presuming => At(e, Presuming)' = At(e, Presuming)
  BY RecordAt
<1>2. ASSUME NEW i \in At(e, Presuming)
      PROVE  \E j \in 1 .. i - 1 : timeline'[e][j] = "started"
  <2>1. PICK j \in 1 .. i - 1 : timeline[e][j] = "started"
    BY DEF StartsFirst
  <2>2. i \in 1..n
    BY <1>1 DEF At
  <2>3. j \in 1..n
    BY <1>1, <2>2
  <2>4. QED BY <1>1, <2>1, <2>3
<1>3. ASSUME type \in Presuming
      PROVE  \E j \in 1 .. (n + 1) - 1 : timeline'[e][j] = "started"
  <2>1. PICK j \in 1..n : timeline[e][j] = "started"
    BY <1>1, <1>3 DEF At
  <2>2. j \in 1 .. (n + 1) - 1 /\ timeline'[e][j] = "started"
    BY <1>1, <2>1
  <2>3. QED BY <2>2
<1>4. QED BY <1>1, <1>2, <1>3 DEF StartsFirst

(* What is noted neither starts nor settles.                                *)
LEMMA NotedKeeps ==
  ASSUME StoreTypeOK, NEW e \in Exec, NEW type \in RunNote \cup LineageNote,
         Noted(e, type),
         StartsOnce(e), SettlesOnce(e), StartsFirst(e), RequestsFirst(e)
  PROVE  (StartsOnce(e) /\ SettlesOnce(e) /\ StartsFirst(e) /\ RequestsFirst(e))'
<1> DEFINE n == Len(timeline[e])
<1>t. /\ type \in EventType /\ type \notin TerminalEvent /\ type # "started"
      /\ type \in Presuming => type \in RunNote
  BY DEF RunNote, LineageNote, EventType, TerminalEvent, Presuming
<1>1. /\ n \in Nat /\ DOMAIN timeline[e] = 1..n
      /\ \A i \in 1..n : timeline'[e][i] = timeline[e][i]
      /\ At(e, {"started"})' = At(e, {"started"})
      /\ At(e, TerminalEvent)' = At(e, TerminalEvent)
      /\ At(e, {"cancel_requested"}) \subseteq At(e, {"cancel_requested"})'
      /\ At(e, {"cancelled"}) \subseteq At(e, {"cancelled"})'
  BY <1>t, RecordAt DEF Noted
<1>2. StartsOnce(e)'
  BY <1>1 DEF StartsOnce, Noted
<1>3. SettlesOnce(e)'
  <2>1. \A i \in At(e, TerminalEvent) : timeline'[e][i] = timeline[e][i]
    BY <1>1 DEF At
  <2>2. SettlingEvent(e)' = SettlingEvent(e) /\ IsTerminal(e)' = IsTerminal(e)
    BY DEF SettlingEvent, IsTerminal, Noted
  <2>3. QED BY <1>1, <2>1, <2>2 DEF SettlesOnce
<1>4. StartsFirst(e)'
  BY <1>t, PresumesStart DEF Noted, Taken
<1>5. RequestsFirst(e)'
  BY <1>1 DEF RequestsFirst, Noted
<1>6. QED BY <1>2, <1>3, <1>4, <1>5

(* A move adds the start or the end, neither of which was there.            *)
LEMMA MovedKeeps ==
  ASSUME StoreTypeOK, NEW e \in Exec, NEW to \in Status, NEW d \in Detail,
         Moved(e, to, d), status[e] = "running" => Taken(e),
         StartsOnce(e), SettlesOnce(e), StartsFirst(e), RequestsFirst(e)
  PROVE  (StartsOnce(e) /\ SettlesOnce(e) /\ StartsFirst(e) /\ RequestsFirst(e))'
<1> DEFINE n == Len(timeline[e])
           type == EventOf(to, d)
<1>m. /\ type \in EventType
      /\ to = "queued" => type = "queued"
      /\ to = "running" => type = "started" /\ status[e] = "queued"
      /\ to \in TerminalStatus <=> type \in TerminalEvent
      /\ to \in {"queued", "running"} \cup TerminalStatus
      /\ to \in {"completed", "failed"} => status[e] = "running"
      /\ type \in Presuming => to \in {"completed", "failed"}
      /\ to \in TerminalStatus => type = IF to = "failed" THEN FailedEvent(d) ELSE to
      /\ to = "cancelled" => type = "cancelled"
      /\ status[e] \notin TerminalStatus
  BY MoveEvents DEF Moved
<1> HIDE DEF type
<1>r. Record(e, type)
  BY DEF Moved, type
<1>1. /\ n \in Nat /\ DOMAIN timeline[e] = 1..n
      /\ timeline'[e][n + 1] = type
      /\ At(e, {"started"})' =
           IF type = "started" THEN At(e, {"started"}) \cup {n + 1} ELSE At(e, {"started"})
      /\ At(e, TerminalEvent)' =
           IF type \in TerminalEvent THEN At(e, TerminalEvent) \cup {n + 1}
           ELSE At(e, TerminalEvent)
      /\ At(e, {"cancel_requested"}) \subseteq At(e, {"cancel_requested"})'
      /\ At(e, {"cancelled"})' =
           IF type = "cancelled" THEN At(e, {"cancelled"}) \cup {n + 1}
           ELSE At(e, {"cancelled"})
  <2>1. /\ n \in Nat /\ DOMAIN timeline[e] = 1..n
        /\ timeline'[e][n + 1] = type
    BY <1>m, <1>r, RecordAt
  <2>2. \A types :
          At(e, types)' = IF type \in types THEN At(e, types) \cup {n + 1} ELSE At(e, types)
    BY <1>m, <1>r, RecordAt
  <2>3. QED BY <2>1, <2>2
<1>2. StartsOnce(e)'
  <2>1. type = "started" => to = "running"
    BY <1>m DEF TerminalEvent
  <2>2. to \in {"absent", "queued"} => At(e, {"started"})' = {}
    <3>1. to = "queued" => status[e] = "absent"
      BY DEF Moved, Moves
    <3>2. to # "absent"
      BY <1>m DEF TerminalStatus
    <3>3. QED BY <1>1, <1>m, <2>1, <3>1, <3>2 DEF StartsOnce
  <2>3. \A i, j \in At(e, {"started"})' : i = j
    BY <1>1, <1>m, <2>1 DEF StartsOnce
  <2>4. QED BY <2>2, <2>3 DEF StartsOnce, Moved
<1>3. SettlesOnce(e)'
  <2>1. At(e, TerminalEvent) = {}
    BY <1>m DEF SettlesOnce, IsTerminal
  <2>2. IsTerminal(e)' <=> At(e, TerminalEvent)' # {}
    BY <1>1, <1>m, <2>1 DEF IsTerminal, Moved
  <2>3. type \in TerminalEvent => SettlingEvent(e)' = type
    BY <1>m DEF SettlingEvent, Moved
  <2>4. QED BY <1>1, <2>1, <2>2, <2>3 DEF SettlesOnce
<1>4. StartsFirst(e)'
  BY <1>m, <1>r, PresumesStart DEF Taken
<1>5. RequestsFirst(e)'
  <2>1. CASE detail[e] = "by_request"
    BY <1>1, <2>1 DEF RequestsFirst
  <2>2. CASE d = "by_request" /\ detail[e] # "by_request"
    <3>1. PICK i \in At(e, {"cancel_requested"}) : TRUE
      BY <2>2 DEF Moved, Requested
    <3>2. n + 1 \in Nat /\ i < n + 1
      BY <1>1 DEF At
    <3>3. to = "cancelled"
      BY <2>2 DEF Moved
    <3>4. n + 1 \in At(e, {"cancelled"})'
      BY <1>1, <1>m, <3>3
    <3>5. QED BY <1>1, <3>1, <3>2, <3>4 DEF RequestsFirst
  <2>3. QED BY <2>1, <2>2 DEF RequestsFirst, Moved
<1>6. QED BY <1>2, <1>3, <1>4, <1>5

LEMMA StepTimeline ==
  TypeOK /\ ClaimInv /\ RequestInv /\ TimelineInv /\ [Next]_vars => TimelineInv'
<1> SUFFICES ASSUME TypeOK, ClaimInv, RequestInv, TimelineInv, [Next]_vars,
                    NEW e \in Exec
             PROVE  (StartsOnce(e) /\ SettlesOnce(e) /\ StartsFirst(e) /\ RequestsFirst(e))'
  BY DEF TimelineInv
<1>t. /\ StoreTypeOK
      /\ StartsOnce(e) /\ SettlesOnce(e) /\ StartsFirst(e) /\ RequestsFirst(e)
      /\ status[e] = "running" => Taken(e)
  BY DEF TypeOK, TimelineInv, ClaimInv
<1>1. CASE Alone(e)
  <2>1. \A types : At(e, types)' = At(e, types)
    BY <1>1 DEF Alone, At
  <2>2. SettlingEvent(e)' = SettlingEvent(e) /\ IsTerminal(e)' = IsTerminal(e)
    BY <1>1 DEF Alone, SettlingEvent, IsTerminal
  <2>3. QED
    BY <1>1, <1>t, <2>1, <2>2
    DEF Alone, StartsOnce, SettlesOnce, StartsFirst, RequestsFirst
<1>2. ASSUME NEW type \in RunNote \cup LineageNote, Noted(e, type)
      PROVE  (StartsOnce(e) /\ SettlesOnce(e) /\ StartsFirst(e) /\ RequestsFirst(e))'
  BY <1>2, <1>t, NotedKeeps
<1>3. ASSUME NEW to \in Status, NEW d \in Detail, Moved(e, to, d)
      PROVE  (StartsOnce(e) /\ SettlesOnce(e) /\ StartsFirst(e) /\ RequestsFirst(e))'
  BY <1>3, <1>t, MovedKeeps
<1>4. QED BY <1>t, <1>1, <1>2, <1>3, StepClaim, OneExecutionStep

LEMMA InitTimeline == Init => TimelineInv
<1> SUFFICES ASSUME Init, NEW e \in Exec
             PROVE  StartsOnce(e) /\ SettlesOnce(e) /\ StartsFirst(e) /\ RequestsFirst(e)
  BY DEF TimelineInv
<1>1. timeline[e] = <<>> /\ status[e] = "absent" /\ detail[e] = "none"
  BY DEF Init, StoreInit
<1>2. \A types : At(e, types) = {}
  BY <1>1 DEF At
<1>3. QED
  BY <1>1, <1>2
  DEF StartsOnce, SettlesOnce, StartsFirst, RequestsFirst, IsTerminal, TerminalStatus

THEOREM TimelineInOrder == Spec => []TimelineInv
<1>1. QED BY InitTimeline, StepTimeline, TypeCorrect, ClaimsInOrder, PTL DEF Spec

(* The timeline tells what happened: it settles once and with the row,      *)
(* nothing comes before the start it presupposes, and a cancellation by     *)
(* request was requested, whichever of the runner, the cancellers and the   *)
(* reaper write to it from what they read earlier.                          *)
THEOREM TimelineTellsTheTruth == Spec => []TimelineIsTrue
<1>1. TimelineInv => TimelineIsTrue
  BY DEF TimelineInv, TimelineIsTrue, TimelineSettlesOnce, StartComesFirst,
         ByRequestWasRequested, SettlesOnce, StartsFirst, RequestsFirst, Presuming
<1>2. QED BY <1>1, TimelineInOrder, PTL

(* Of the dispatched thread and the recovery thread at most one is past its *)
(* claim at any time, no execution is started twice, and what runs was      *)
(* started.                                                                 *)
THEOREM LaunchedOnce == Spec => []SingleLaunch
<1>1. ClaimInv /\ TimelineInv => SingleLaunch
  BY DEF ClaimInv, TimelineInv, SingleLaunch, StartsOnce, Taken
<1>2. QED BY <1>1, ClaimsInOrder, TimelineInOrder, PTL

-----------------------------------------------------------------------------
(* What a canceller is told.  It knows more of the row with each step it    *)
(* takes: that it exists, that it was started, that it is settled.          *)

KnowsRow(e, reply) ==
  /\ reply.pc = "pre_start" => status[e] # "absent"
  /\ reply.pc \in {"noting", "signalling", "awaiting"} =>
       status[e] \notin {"absent", "queued"}
  /\ reply.pc = "reread" => IsTerminal(e)
  /\ reply.code = 200 => IsTerminal(e) /\ status[e] = reply.body

KnowsTheRow(reply) ==
  /\ reply.code = 200 => reply.body \in TerminalStatus
  /\ \A e \in reply.exec : KnowsRow(e, reply)

ReplyInv == \A c \in Canceller : KnowsTheRow(cancel[c])

(* What was known stays true, as a row never goes back.                     *)
LEMMA KnownForEver ==
  ASSUME StoreTypeOK, StatusStep, NEW c \in Canceller, cancel[c].exec \subseteq Exec,
         KnowsTheRow(cancel[c])
  PROVE  \A e \in cancel[c].exec :
           /\ status[e] # "absent" => status'[e] # "absent"
           /\ status[e] \notin {"absent", "queued"} => status'[e] \notin {"absent", "queued"}
           /\ IsTerminal(e) => status'[e] = status[e]
  BY DEF StatusStep, StoreTypeOK, Moves, IsTerminal, TerminalStatus

LEMMA UntouchedReplies ==
  ASSUME StoreTypeOK, StatusStep, ReplyInv, NEW c \in Canceller,
         cancel[c].exec \subseteq Exec,
         \/ cancel'[c] = cancel[c]
         \/ cancel'[c].exec = cancel[c].exec /\ cancel'[c].pc = "lost" /\ cancel'[c].code = 0
  PROVE  KnowsTheRow(cancel[c])'
  BY KnownForEver DEF ReplyInv, KnowsTheRow, KnowsRow, IsTerminal

(* The canceller that moves has just read or written what it now knows.     *)
LEMMA CancelKnows ==
  ASSUME TypeOK, RequestInv, StatusStep, ReplyInv, NEW c \in Canceller,
         CancelStep(c) \/ CancelFails(c) \/ \E e \in Exec : CancelLoad(c, e)
  PROVE  ReplyInv'
<1>t. /\ StoreTypeOK
      /\ \A x \in Canceller : cancel[x].exec \subseteq Exec
      /\ \A d, e \in cancel[c].exec : d = e
      /\ KnowsTheRow(cancel[c])
  BY DEF TypeOK, RequestInv, ReplyInv
<1>q. ASSUME NEW next, NEW target, NEW code, NEW body,
             CancelSet(c, next, target, code, body),
             code = 200 => body \in TerminalStatus,
             \A e \in target : KnowsRow(e, [pc |-> next, exec |-> target, code |-> code,
                                            body |-> body])'
      PROVE  ReplyInv'
  <2>1. \A x \in Canceller \ {c} : cancel'[x] = cancel[x]
    BY <1>q DEF CancelSet, TypeOK
  <2>2. cancel'[c] = [pc |-> next, exec |-> target, code |-> code, body |-> body]
    BY <1>q DEF CancelSet, TypeOK
  <2>3. KnowsTheRow(cancel[c])'
    BY <1>q, <2>2 DEF KnowsTheRow
  <2>4. QED BY <1>t, <2>1, <2>3, UntouchedReplies DEF ReplyInv
<1>1. CASE CancelQueued(c)
  <2>1. PICK e \in cancel[c].exec : MarkCancelled(e, "before_start")
    BY <1>1 DEF CancelQueued
  <2>2. e \in Exec /\ status[e] \in Status \ {"absent"}
    BY <1>1, <1>t DEF CancelQueued, KnowsTheRow, KnowsRow, StoreTypeOK
  <2>3. status'[e] \in TerminalStatus
    BY <1>t, <2>1, <2>2
    DEF MarkCancelled, MoveStatus, Unsettled, Status, TerminalStatus, StoreTypeOK
  <2>4. \A d \in cancel[c].exec : IsTerminal(d)'
    BY <1>t, <2>3 DEF IsTerminal
  <2>5. CancelSet(c, "reread", cancel[c].exec, 0, "absent")
    BY <1>1 DEF CancelQueued, CancelGoto
  <2>6. QED BY <1>q, <2>4, <2>5 DEF KnowsRow
<1>2. CASE CancelReread(c) \/ CancelAcknowledged(c)
  <2>1. PICK e \in cancel[c].exec :
          /\ CancelReply(c, 200, status[e])
          /\ cancel[c].pc = "awaiting" => status[e] # "running"
          /\ cancel[c].pc \in {"reread", "awaiting"}
          /\ UNCHANGED status
    BY <1>2 DEF CancelReread, CancelAcknowledged, storeVars
  <2>2. status[e] \in TerminalStatus
    BY <1>t, <2>1 DEF KnowsTheRow, KnowsRow, IsTerminal, StoreTypeOK, Status
  <2>3. QED BY <1>q, <1>t, <2>1, <2>2 DEF CancelReply, KnowsRow, IsTerminal
<1>3. CASE CancelNote(c) \/ CancelSignal(c)
  <2>1. PICK next \in {"signalling", "awaiting"} :
          CancelSet(c, next, cancel[c].exec, 0, "absent")
    BY <1>3 DEF CancelNote, CancelSignal, CancelGoto
  <2>2. \A e \in cancel[c].exec : status'[e] \notin {"absent", "queued"}
    BY <1>3, <1>t, KnownForEver DEF CancelNote, CancelSignal, KnowsTheRow, KnowsRow
  <2>3. QED BY <1>q, <2>1, <2>2 DEF KnowsRow
<1>4. CASE CancelExpires(c) \/ CancelFails(c)
  <2>1. PICK next \in {"replied", "lost"}, code \in {0, 409},
             body \in {"absent", "running"} :
          CancelSet(c, next, cancel[c].exec, code, body)
    BY <1>4 DEF CancelExpires, CancelFails, CancelGoto, CancelReply
  <2>2. QED BY <1>q, <2>1 DEF KnowsRow
<1>5. ASSUME NEW e \in Exec, CancelLoad(c, e) PROVE ReplyInv'
  <2>1. UNCHANGED status
    BY <1>5 DEF CancelLoad, storeVars
  <2>2. PICK next \in {"pre_start", "noting", "replied"}, code \in {0, 409},
             body \in {"absent"} \cup TerminalStatus :
          /\ CancelSet(c, next, {e}, code, body)
          /\ status[e] # "absent"
          /\ next = "noting" => status[e] = "running"
    BY <1>5 DEF CancelLoad, IsTerminal, TerminalStatus
  <2>3. QED BY <1>q, <2>1, <2>2 DEF KnowsRow
<1>6. QED BY <1>1, <1>2, <1>3, <1>4, <1>5 DEF CancelStep

LEMMA StepReply ==
  TypeOK /\ ClaimInv /\ RequestInv /\ ReplyInv /\ [Next]_vars => ReplyInv'
<1> SUFFICES ASSUME TypeOK, ClaimInv, RequestInv, ReplyInv, [Next]_vars PROVE ReplyInv'
  OBVIOUS
<1>t. StoreTypeOK /\ StatusStep /\ \A c \in Canceller : cancel[c].exec \subseteq Exec
  BY StepClaim DEF TypeOK
<1>1. CASE \E c \in Canceller :
             CancelStep(c) \/ CancelFails(c) \/ \E e \in Exec : CancelLoad(c, e)
  BY <1>1, <1>t, CancelKnows
<1>2. CASE UNCHANGED cancel
  BY <1>2, <1>t, UntouchedReplies DEF ReplyInv
<1>3. CASE Crash
  <2>1. ASSUME NEW c \in Canceller
        PROVE  \/ cancel'[c] = cancel[c]
               \/ /\ cancel'[c].exec = cancel[c].exec
                  /\ cancel'[c].pc = "lost" /\ cancel'[c].code = 0
    BY <1>3 DEF Crash
  <2>2. QED BY <1>t, <2>1, UntouchedReplies DEF ReplyInv
<1>4. CASE RequestStep /\ ~\E c \in Canceller :
             CancelStep(c) \/ CancelFails(c) \/ \E e \in Exec : CancelLoad(c, e)
  <2>1. UNCHANGED cancel
    BY <1>4 DEF RequestStep, Submit, NoteRetryRequested, NoteRetryCreated, SubmissionFails,
                Retry, StreamStep, StreamPoll, StreamRead, StreamOpen, StreamGoto, requestVars
  <2>2. QED BY <1>2, <2>1
<1>5. QED BY <1>1, <1>2, <1>3, <1>4 DEF Next, RuntimeStep, requestVars, vars

(* A cancellation answered 200 reports a settled execution, and the report  *)
(* stays true: across the runner, the reaper, other cancellers and crashes. *)
THEOREM CancelRepliesStay == Spec => []CancelReplyIsFinal
<1>1. Init => ReplyInv
  BY DEF Init, NoCancel, ReplyInv, KnowsTheRow
<1>2. ReplyInv => CancelReplyIsFinal
  BY DEF ReplyInv, KnowsTheRow, KnowsRow, CancelReplyIsFinal
<1>3. QED BY <1>1, <1>2, StepReply, TypeCorrect, ClaimsInOrder, PTL DEF Spec

-----------------------------------------------------------------------------
(* Who is still going to act on an execution.                               *)

Attended(e) ==
  /\ status[e] = "queued" => QueuedHasTaker(e)
  /\ status[e] = "running" => RunningHasTaker(e)

(* The reaper holds one execution at a time.                                *)
ReapsOne == \A d, e \in reaping.exec : d = e

(* A step of another execution's worker, or one that is not about the       *)
(* execution.                                                               *)
LEMMA AttendantStays ==
  ASSUME NEW e \in Exec, Attended(e), UNCHANGED recoveryVars,
         status'[e] = status[e], \A via \in Via : pc'[<<e, via>>] = pc[<<e, via>>]
  PROVE  Attended(e)'
  BY DEF Attended, QueuedHasTaker, RunningHasTaker, HasRunner, recoveryVars

(* A worker hands its execution on until the execution is settled.          *)
LEMMA WorkerAttends ==
  ASSUME TypeOK, ClaimInv, NEW e \in Exec, Attended(e), NEW w \in Worker,
         WorkerStep(w) \/ EmitChunk(w)
  PROVE  Attended(e)'
<1>t. pc \in [Worker -> PC] /\ status \in [Exec -> Status]
  BY DEF TypeOK, StoreTypeOK, RuntimeTypeOK
<1>w. w[1] \in Exec /\ w[2] \in Via /\ w = <<w[1], w[2]>>
  BY WorkerParts
<1>p. UNCHANGED recoveryVars
  BY DEF WorkerStep, Register, Load, CheckCancel, CancelBeforeStart, Start, LaunchProvider,
         ProviderDecides, ProviderRaises, ProviderReturnsNothing, ResolveAbnormal,
         Complete, Fail, AcknowledgeCancel, Release, EmitChunk
<1>o. \A v \in Worker : v # w => pc'[v] = pc[v]
  BY <1>t
     DEF WorkerStep, Register, Load, CheckCancel, CancelBeforeStart, Start, LaunchProvider,
         ProviderDecides, ProviderRaises, ProviderReturnsNothing, ResolveAbnormal,
         Complete, Fail, AcknowledgeCancel, Release, EmitChunk, Goto
<1>c. pc[w] \in Running => status[w[1]] # "queued"
  BY <1>w DEF ClaimInv, HasRunner, Taken
<1>g. ASSUME status'[e] = status[e], w[1] = e,
             pc[w] \in Running => pc'[w] \in Running,
             pc[w] \in Submitting \cup Preparing /\ status[e] = "queued" =>
               pc'[w] \in Submitting \cup Preparing
      PROVE  Attended(e)'
  <2>1. HasRunner(e) => HasRunner(e)'
    BY <1>o, <1>w, <1>g, WorkerParts DEF HasRunner
  <2>2. status[e] = "queued" /\ (\E via \in Via : pc[<<e, via>>] \in Submitting \cup Preparing)
          => \E via \in Via : pc'[<<e, via>>] \in Submitting \cup Preparing
    BY <1>o, <1>w, <1>g, WorkerParts
  <2>3. QED BY <1>p, <1>g, <2>1, <2>2
            DEF Attended, QueuedHasTaker, RunningHasTaker, recoveryVars
<1>1. CASE w[1] # e
  <2>1. status'[e] = status[e]
    BY <1>t, <1>w, <1>1
       DEF WorkerStep, Register, Load, CheckCancel, CancelBeforeStart, Start, LaunchProvider,
           ProviderDecides, ProviderRaises, ProviderReturnsNothing, ResolveAbnormal,
           Complete, Fail, AcknowledgeCancel, Release, EmitChunk, MarkCancelled, MarkStarted,
           MarkCompleted, MarkFailed, MoveStatus, AppendLogChunk, storeVars
  <2>2. \A via \in Via : <<e, via>> \in Worker /\ <<e, via>> # w
    BY <1>w, <1>1, WorkerParts
  <2>3. QED BY <1>o, <1>p, <2>1, <2>2, AttendantStays
<1> USE DEF Submitting, Preparing, Running
<1>2. CASE w[1] = e /\ Start(w)
  <2>1. CASE status[e] = "queued"
    <3>1. status'[e] = "running" /\ pc'[w] = "started"
      BY <1>t, <1>2, <2>1 DEF Start, MarkStarted, MoveStatus, Goto
    <3>2. QED BY <1>w, <1>2, <3>1 DEF Attended, RunningHasTaker, HasRunner
  <2>2. CASE status[e] # "queued"
    <3>1. status'[e] = status[e] /\ pc[w] = "starting"
      BY <1>t, <1>2, <2>2 DEF Start, MarkStarted, MoveStatus
    <3>2. QED BY <1>g, <1>2, <2>2, <3>1
  <2>3. QED BY <2>1, <2>2
<1>3. CASE w[1] = e /\ (CancelBeforeStart(w) \/ Complete(w) \/ Fail(w) \/ AcknowledgeCancel(w))
  <2>1. status'[e] \notin {"queued", "running"}
    BY <1>t, <1>c, <1>3
       DEF CancelBeforeStart, Complete, Fail, AcknowledgeCancel, MarkCancelled, MarkCompleted,
           MarkFailed, MoveStatus, Completable, Unsettled
  <2>2. QED BY <2>1 DEF Attended
<1>4. CASE w[1] = e /\ (\/ Register(w) \/ Load(w) \/ CheckCancel(w) \/ LaunchProvider(w)
                        \/ ProviderDecides(w) \/ ProviderRaises(w)
                        \/ ProviderReturnsNothing(w) \/ ResolveAbnormal(w)
                        \/ Release(w) \/ EmitChunk(w))
  <2>1. status'[e] = status[e]
    BY <1>4 DEF Register, Load, CheckCancel, LaunchProvider, ProviderDecides, ProviderRaises,
                ProviderReturnsNothing, ResolveAbnormal, Release, EmitChunk,
                AppendLogChunk, storeVars
  <2>2. /\ pc[w] \in Running => pc'[w] \in Running
        /\ pc[w] \in Submitting \cup Preparing /\ status[e] = "queued" =>
             pc'[w] \in Submitting \cup Preparing
    BY <1>t, <1>4
       DEF Register, Load, CheckCancel, LaunchProvider, ProviderDecides, ProviderRaises,
           ProviderReturnsNothing, ResolveAbnormal, Release, EmitChunk, Goto,
           IsTerminal, TerminalStatus
  <2>3. QED BY <1>g, <1>4, <2>1, <2>2
<1>5. QED BY <1>1, <1>2, <1>3, <1>4 DEF WorkerStep

(* Recovery takes up what nobody else would.                                *)
LEMMA RecoveryAttends ==
  ASSUME TypeOK, ClaimInv, ReapsOne, NEW e \in Exec, Attended(e), RecoveryStep
  PROVE  Attended(e)'
<1>t. pc \in [Worker -> PC] /\ status \in [Exec -> Status] /\ todo \subseteq Exec
  BY DEF TypeOK, StoreTypeOK, RuntimeTypeOK
<1> USE DEF Attended, QueuedHasTaker, RunningHasTaker, HasRunner
<1>1. CASE ListRunning
  BY <1>1 DEF ListRunning, storeVars, workerVars
<1>2. CASE ReapRead
  <2>1. PICK f \in todo, d \in ReaperDetail :
          /\ todo' = todo \ {f}
          /\ reaping' = [exec |-> {f}, text |-> output[f], d |-> d]
    BY <1>2 DEF ReapRead
  <2>2. todo' \cup reaping'.exec = todo
    BY <2>1
  <2>3. UNCHANGED <<status, pc>> /\ phase = "reap" /\ phase' = "reap_note"
    BY <1>2 DEF ReapRead, storeVars, workerVars
  <2>4. QED BY <2>2, <2>3
<1>3. CASE ReapNote
  <2>1. UNCHANGED <<status, pc, todo, reaping>> /\ phase = "reap_note" /\ phase' = "reap_fail"
    BY <1>3 DEF ReapNote, AppendEvent, workerVars
  <2>2. QED BY <2>1
<1>4. CASE ReapFail
  <2>1. PICK f \in reaping.exec : MarkFailed(f, reaping.d, reaping.text)
    BY <1>4 DEF ReapFail
  <2>2. UNCHANGED <<pc, todo>> /\ phase = "reap_fail" /\ phase' = "reap"
    BY <1>4 DEF ReapFail, workerVars
  <2>3. CASE f = e
    <3>1. status'[e] \notin {"queued", "running"}
      BY <1>t, <2>1, <2>3 DEF MarkFailed, MoveStatus, Unsettled
    <3>2. QED BY <3>1
  <2>4. CASE f # e
    <3>1. status'[e] = status[e] /\ e \notin reaping.exec
      BY <1>t, <2>1, <2>4 DEF MarkFailed, MoveStatus, ReapsOne
    <3>2. QED BY <2>2, <3>1
  <2>5. QED BY <2>3, <2>4
<1>5. CASE ListQueued
  BY <1>5 DEF ListQueued, storeVars, workerVars
<1>6. CASE ReplayNext
  <2>1. PICK f \in todo : todo' = todo \ {f} /\ Goto(<<f, "recovery">>, "loading")
    BY <1>6 DEF ReplayNext
  <2>2. UNCHANGED <<status, phase>> /\ phase = "replay"
    BY <1>6 DEF ReplayNext, storeVars
  <2>3. f \in Exec /\ pc[<<f, "recovery">>] \in {"idle", "done"}
    BY <1>t, <1>6, <2>1 DEF ReplayNext
  <2>4. \A v \in Worker : pc'[v] = IF v = <<f, "recovery">> THEN "loading" ELSE pc[v]
    BY <1>t, <2>1 DEF Goto
  <2>5. HasRunner(e) => HasRunner(e)'
    BY <2>3, <2>4, WorkerParts DEF Running
  <2>6. QueuedHasTaker(e) => QueuedHasTaker(e)'
    <3>1. CASE f = e
      BY <2>4, <3>1, WorkerParts DEF Preparing
    <3>2. CASE f # e
      BY <2>1, <2>2, <2>4, <3>2, WorkerParts
    <3>3. QED BY <3>1, <3>2
  <2>7. QED BY <2>2, <2>5, <2>6
<1>7. QED BY <1>1, <1>2, <1>3, <1>4, <1>5, <1>6 DEF RecoveryStep

(* A request hands the execution it creates to a worker, and cancels only   *)
(* before the start.                                                        *)
LEMMA RequestAttends ==
  ASSUME ~StoreFaults, TypeOK, NEW e \in Exec, Attended(e), RequestStep
  PROVE  Attended(e)'
<1>t. pc \in [Worker -> PC] /\ status \in [Exec -> Status]
  BY DEF TypeOK, StoreTypeOK, RuntimeTypeOK
<1>1. ASSUME NEW f \in Exec, NEW next \in {"submitted", "noting_source"},
             CreateExecution(f), Goto(<<f, "api">>, next), UNCHANGED recoveryVars
      PROVE  Attended(e)'
  <2>1. CASE f = e
    <3>1. status'[e] = "queued"
      BY <1>t, <1>1, <2>1 DEF CreateExecution
    <3>2. pc'[<<e, "api">>] = next
      BY <1>t, <1>1, <2>1, WorkerParts DEF Goto
    <3>3. QED BY <1>1, <3>1, <3>2, WorkerParts DEF Attended, QueuedHasTaker, Submitting
  <2>2. CASE f # e
    BY <1>t, <1>1, <2>2, AttendantStays, WorkerParts DEF CreateExecution, Goto
  <2>3. QED BY <2>1, <2>2
<1>2. ASSUME NEW f \in Exec, pc[<<f, "api">>] \in Submitting,
             NEW next \in Submitting, Goto(<<f, "api">>, next),
             UNCHANGED <<status, recoveryVars>>
      PROVE  Attended(e)'
  <2>1. \A v \in Worker : pc'[v] = IF v = <<f, "api">> THEN next ELSE pc[v]
    BY <1>t, <1>2 DEF Goto
  <2>2. HasRunner(e) => HasRunner(e)'
    BY <1>2, <2>1, WorkerParts DEF HasRunner, Running, Submitting
  <2>3. QueuedHasTaker(e) => QueuedHasTaker(e)'
    <3>1. CASE f = e
      BY <1>2, <2>1, <3>1, WorkerParts DEF QueuedHasTaker
    <3>2. CASE f # e
      BY <1>2, <2>1, <3>2, WorkerParts DEF QueuedHasTaker, recoveryVars
    <3>3. QED BY <3>1, <3>2
  <2>4. QED BY <1>2, <2>2, <2>3 DEF Attended, RunningHasTaker, recoveryVars
<1>3. ASSUME NEW f \in Exec,
             \/ Submit(f) \/ NoteRetryRequested(f) \/ NoteRetryCreated(f)
             \/ \E source \in Exec : Retry(source, f)
      PROVE  Attended(e)'
  BY <1>1, <1>2, <1>3
     DEF Submit, NoteRetryRequested, NoteRetryCreated, Retry, AppendEvent, Submitting
<1>4. ASSUME NEW c \in Canceller, CancelStep(c) \/ \E f \in Exec : CancelLoad(c, f)
      PROVE  Attended(e)'
  <2>1. UNCHANGED <<pc, recoveryVars>>
    BY <1>4 DEF CancelStep, CancelQueued, CancelReread, CancelNote, CancelSignal,
                CancelAcknowledged, CancelExpires, CancelLoad, workerVars
  <2>2. status'[e] = status[e] \/ status'[e] = "cancelled"
    BY <1>t, <1>4 DEF CancelStep, CancelQueued, CancelReread, CancelNote, CancelSignal,
                CancelAcknowledged, CancelExpires, CancelLoad, MarkCancelled, MoveStatus,
                AppendEvent, storeVars
  <2>3. QED BY <2>1, <2>2, AttendantStays DEF Attended
<1>5. ASSUME NEW r \in Reader, StreamStep(r) \/ \E f \in Exec : StreamOpen(r, f)
      PROVE  Attended(e)'
  <2>1. UNCHANGED <<status, pc, recoveryVars>>
    BY <1>5 DEF StreamStep, StreamPoll, StreamRead, StreamOpen, StreamGoto, storeVars, workerVars
  <2>2. QED BY <2>1, AttendantStays
<1>6. QED BY <1>3, <1>4, <1>5 DEF RequestStep, SubmissionFails, CancelFails

(* The reaper takes one execution after the other.                          *)
LEMMA ReapsOneByOne == Spec => []ReapsOne
<1>1. Init => ReapsOne
  BY DEF Init, RuntimeInit, NoReap, ReapsOne
<1>2. ReapsOne /\ [Next]_vars => ReapsOne'
  <2> SUFFICES ASSUME ReapsOne, [Next]_vars PROVE ReapsOne'
    OBVIOUS
  <2>1. \/ UNCHANGED reaping
        \/ reaping' = NoReap
        \/ \E e, text, d : reaping' = [exec |-> {e}, text |-> text, d |-> d]
    <3>1. CASE UNCHANGED vars
      BY <3>1 DEF vars, recoveryVars
    <3>2. CASE RequestStep
      BY <3>2 DEF RequestStep, Submit, NoteRetryRequested, NoteRetryCreated, SubmissionFails,
                  Retry, CancelStep, CancelQueued, CancelReread, CancelNote, CancelSignal,
                  CancelAcknowledged, CancelExpires, CancelFails, CancelLoad, StreamStep,
                  StreamPoll, StreamRead, StreamOpen, StreamGoto, recoveryVars
    <3>3. ASSUME NEW w \in Worker,
                 WorkerStep(w) \/ EmitChunk(w) \/ ChunkWriteFails(w) \/ StoreCallFails(w)
          PROVE  UNCHANGED reaping
      BY <3>3 DEF WorkerStep, Register, Load, CheckCancel, CancelBeforeStart, Start,
                  LaunchProvider, ProviderDecides, ProviderRaises, ProviderReturnsNothing,
                  ResolveAbnormal, Complete, Fail, AcknowledgeCancel, Release, EmitChunk,
                  ChunkWriteFails, StoreCallFails, recoveryVars
    <3>4. CASE RecoveryStep \/ RecoveryFails \/ Crash
      BY <3>4 DEF RecoveryStep, RecoveryFails, ListRunning, ReapRead, ReapNote, ReapFail,
                  ListQueued, ReplayNext, Crash, RuntimeBoots
    <3>5. QED BY <3>1, <3>2, <3>3, <3>4 DEF Next, RuntimeStep
  <2>2. QED BY <2>1 DEF ReapsOne, NoReap
<1>3. QED BY <1>1, <1>2, PTL DEF Spec

(* An execution that is queued or running is never without a thread that    *)
(* will take it further, as long as the store answers.                      *)
LEMMA NobodyStranded == Spec => []NoExecutionStranded
<1>1. Init => NoExecutionStranded
  BY DEF Init, StoreInit, NoExecutionStranded
<1>2. TypeOK /\ ClaimInv /\ ReapsOne /\ NoExecutionStranded /\ [Next]_vars
        => NoExecutionStranded'
  <2> SUFFICES ASSUME TypeOK, ClaimInv, ReapsOne, [Next]_vars, ~StoreFaults,
                      NEW e \in Exec, Attended(e)
               PROVE  Attended(e)'
    BY DEF NoExecutionStranded, Attended
  <2>1. CASE UNCHANGED vars
    BY <2>1, AttendantStays DEF vars, storeVars, workerVars, recoveryVars
  <2>2. CASE RuntimeStep
    BY <2>2, WorkerAttends, RecoveryAttends
       DEF RuntimeStep, ChunkWriteFails, StoreCallFails, RecoveryFails
  <2>3. CASE RequestStep
    BY <2>3, RequestAttends
  <2>4. CASE Crash
    BY <2>4 DEF Crash, RuntimeBoots, Attended, QueuedHasTaker, RunningHasTaker
  <2>5. QED BY <2>1, <2>2, <2>3, <2>4 DEF Next
<1>3. QED BY <1>1, <1>2, TypeCorrect, ClaimsInOrder, ReapsOneByOne, PTL DEF Spec

-----------------------------------------------------------------------------
(* The lineage of a retry: who has named its source, or is about to.        *)

LineageEvent == {"retry_requested", "retry_created"}

Naming(e) == At(e, {"retry_created"}) # {} \/ pc[<<e, "api">>] = "noting_target"

Retries(source) == {e \in Exec : source \in origin[e] /\ Naming(e)}

Requests(source) == At(source, {"retry_requested"})

(* The source has heard of every retry before the retry names it.           *)
LineageInv ==
  /\ \A e \in Exec : status[e] = "absent" =>
       ~Naming(e) /\ pc[<<e, "api">>] # "noting_source"
  /\ \A e \in Exec : \A r, s \in origin[e] : r = s
  /\ \A source \in Exec :
       /\ IsFiniteSet(Retries(source))
       /\ IsFiniteSet(Requests(source))
       /\ Cardinality(Retries(source)) <= Cardinality(Requests(source))

(* Nothing is said of a retry.                                              *)
Silent ==
  \/ UNCHANGED timeline
  \/ \E e \in Exec, type \in EventType \ LineageEvent : Record(e, type)

(* A silent step adds no lineage event to any timeline.                     *)
LEMMA SilentLineage ==
  ASSUME StoreTypeOK, Silent, NEW e \in Exec
  PROVE  /\ At(e, {"retry_created"})' = At(e, {"retry_created"})
         /\ Requests(e)' = Requests(e)
<1>1. CASE UNCHANGED timeline
  BY <1>1 DEF At, Requests
<1>2. ASSUME NEW u \in Exec, NEW type \in EventType \ LineageEvent, Record(u, type)
      PROVE  /\ At(e, {"retry_created"})' = At(e, {"retry_created"})
             /\ Requests(e)' = Requests(e)
  BY <1>2, RecordAt DEF LineageEvent, Requests
<1>3. QED BY <1>1, <1>2 DEF Silent

(* A step after which no source is named by a retry that did not name it    *)
(* before.                                                                  *)
LEMMA NobodyNew ==
  ASSUME LineageInv,
         \A e \in Exec : status'[e] = "absent" =>
           /\ status[e] = "absent"
           /\ pc'[<<e, "api">>] = "noting_source" => pc[<<e, "api">>] = "noting_source",
         \A e \in Exec : Naming(e)' => Naming(e) /\ origin'[e] = origin[e],
         \A e \in Exec : \A r, s \in origin'[e] : r = s,
         \A source \in Exec : Requests(source)' = Requests(source)
  PROVE  LineageInv'
<1>1. ASSUME NEW source \in Exec
      PROVE  /\ IsFiniteSet(Retries(source))'
             /\ IsFiniteSet(Requests(source))'
             /\ (Cardinality(Retries(source)) <= Cardinality(Requests(source)))'
  <2>1. Retries(source)' \in SUBSET Retries(source)
    BY DEF Retries
  <2>2. /\ IsFiniteSet(Retries(source)')
        /\ Cardinality(Retries(source)') <= Cardinality(Retries(source))
        /\ Cardinality(Retries(source)') \in Nat
    BY <2>1, FS_Subset, FS_CardinalityType DEF LineageInv
  <2>3. Cardinality(Retries(source)) \in Nat /\ Cardinality(Requests(source)) \in Nat
    BY FS_CardinalityType DEF LineageInv
  <2>4. QED BY <2>2, <2>3 DEF LineageInv
<1>2. QED BY <1>1 DEF LineageInv

(* The source hears of the retry.                                           *)
LEMMA SourceHears ==
  ASSUME StoreTypeOK, pc \in [Worker -> PC], LineageInv, UNCHANGED origin,
         NEW e \in Exec, NoteRetryRequested(e), origin[e] \subseteq Exec
  PROVE  LineageInv'
<1>1. PICK source \in origin[e] : AppendEvent(source, "retry_requested")
  BY DEF NoteRetryRequested
<1>s. source \in Exec /\ \A s \in origin[e] : s = source
  BY DEF LineageInv
<1>2. /\ Record(source, "retry_requested") /\ UNCHANGED status
      /\ "retry_requested" \in EventType
  BY <1>1 DEF AppendEvent, EventType
<1>3. /\ Len(timeline[source]) \in Nat
      /\ DOMAIN timeline[source] = 1 .. Len(timeline[source])
      /\ Requests(source)' = Requests(source) \cup {Len(timeline[source]) + 1}
      /\ \A u \in Exec \ {source} : Requests(u)' = Requests(u)
      /\ \A u \in Exec : At(u, {"retry_created"})' = At(u, {"retry_created"})
  BY <1>2, <1>s, RecordAt DEF Requests
<1>4. \A u \in Exec : pc'[<<u, "api">>] = IF u = e THEN "noting_target" ELSE pc[<<u, "api">>]
  BY WorkerParts DEF NoteRetryRequested, Goto
<1>5. \A u \in Exec : Naming(u)' <=> Naming(u) \/ u = e
  BY <1>3, <1>4 DEF Naming
<1>6. ASSUME NEW u \in Exec \ {source}
      PROVE  Retries(u)' = Retries(u)
  BY <1>5, <1>s DEF Retries
<1>7. Retries(source)' = Retries(source) \cup {e}
  BY <1>5, <1>s DEF Retries
<1>8. /\ IsFiniteSet(Retries(source)')
      /\ IsFiniteSet(Requests(source)')
      /\ Cardinality(Retries(source)') <= Cardinality(Requests(source)')
  <2>1. IsFiniteSet(Retries(source)) /\ IsFiniteSet(Requests(source))
        /\ Cardinality(Retries(source)) <= Cardinality(Requests(source))
    BY <1>s DEF LineageInv
  <2>2. Cardinality(Retries(source)) \in Nat /\ Cardinality(Requests(source)) \in Nat
    BY <2>1, FS_CardinalityType
  <2>3. Len(timeline[source]) + 1 \notin Requests(source)
    BY <1>3 DEF Requests, At
  <2>4. /\ IsFiniteSet(Requests(source)')
        /\ Cardinality(Requests(source)') = Cardinality(Requests(source)) + 1
    <3> DEFINE R == Requests(source)
               n == Len(timeline[source]) + 1
    <3> HIDE DEF R, n
    <3>1. IsFiniteSet(R) /\ n \notin R
      BY <2>1, <2>3 DEF R, n
    <3>2. IsFiniteSet(R \cup {n}) /\ Cardinality(R \cup {n}) = Cardinality(R) + 1
      BY <3>1, FS_AddElement
    <3>3. QED BY <1>3, <3>2 DEF R, n
  <2>5. /\ IsFiniteSet(Retries(source)')
        /\ Cardinality(Retries(source)') \in
             {Cardinality(Retries(source)), Cardinality(Retries(source)) + 1}
    BY <1>7, <2>1, FS_AddElement
  <2>6. QED BY <2>1, <2>2, <2>4, <2>5
<1>9. status[e] # "absent"
  BY DEF NoteRetryRequested, LineageInv
<1>10. \A u \in Exec : status'[u] = "absent" =>
        ~Naming(u)' /\ pc'[<<u, "api">>] # "noting_source"
  BY <1>2, <1>4, <1>5, <1>9 DEF LineageInv
<1>11. ASSUME NEW u \in Exec \ {source}
       PROVE  /\ IsFiniteSet(Retries(u))'
              /\ IsFiniteSet(Requests(u))'
              /\ (Cardinality(Retries(u)) <= Cardinality(Requests(u)))'
  BY <1>3, <1>6 DEF LineageInv
<1>12. QED BY <1>8, <1>10, <1>11 DEF LineageInv

(* Everything but a retry's own steps is silent about it.                   *)
SilentStep ==
  /\ Silent
  /\ UNCHANGED origin
  /\ \A e \in Exec : pc'[<<e, "api">>] \in {"noting_source", "noting_target"} =>
       pc'[<<e, "api">>] = pc[<<e, "api">>]

(* A step silent about lineage keeps every retry's two ends in agreement.   *)
LEMMA SilentStepKeeps ==
  ASSUME StoreTypeOK, StatusStep, LineageInv, SilentStep
  PROVE  LineageInv'
<1>1. \A e \in Exec : /\ At(e, {"retry_created"})' = At(e, {"retry_created"})
                      /\ Requests(e)' = Requests(e)
  BY SilentLineage DEF SilentStep
<1>2. \A e \in Exec : status'[e] = "absent" => status[e] = "absent"
  BY DEF StatusStep, Moves, StoreTypeOK
<1>3. \A e \in Exec : Naming(e)' => Naming(e)
  BY <1>1 DEF Naming, SilentStep
<1>4. \A e \in Exec :
        pc'[<<e, "api">>] = "noting_source" => pc[<<e, "api">>] = "noting_source"
  BY DEF SilentStep
<1>5. /\ \A e \in Exec : Naming(e)' => Naming(e) /\ origin'[e] = origin[e]
      /\ \A e \in Exec : \A r, s \in origin'[e] : r = s
  BY <1>3 DEF SilentStep, LineageInv
<1>6. QED BY <1>1, <1>2, <1>4, <1>5, NobodyNew

(* Workers and the recovery thread say nothing of lineage.                  *)
LEMMA RuntimeIsSilent ==
  ASSUME TypeOK, RuntimeStep
  PROVE  SilentStep
<1>t. /\ pc \in [Worker -> PC] /\ todo \subseteq Exec /\ reaping.exec \subseteq Exec
      /\ \A w \in Worker : w[1] \in Exec
      /\ \A e \in Exec : <<e, "api">> \in Worker /\ <<e, "recovery">> \in Worker
  BY WorkerParts DEF TypeOK, RuntimeTypeOK
<1>e. {"started", "completed", "failed", "timed_out", "cancelled", "log",
       "recovered_after_restart"} \subseteq EventType \ LineageEvent
  BY DEF EventType, TerminalEvent, LineageEvent
<1>m. ASSUME NEW e \in Exec,
             \/ MarkStarted(e) \/ AppendLogChunk(e)
             \/ AppendEvent(e, "recovered_after_restart")
             \/ \E text : MarkCompleted(e, text)
             \/ \E d : MarkCancelled(e, d)
             \/ \E d, text : MarkFailed(e, d, text)
      PROVE  Silent
  BY <1>e, <1>m DEF MarkStarted, AppendLogChunk, AppendEvent, MarkCompleted, MarkCancelled,
                    MarkFailed, MoveStatus, FailedEvent, Silent
<1>u. UNCHANGED storeVars => Silent
  BY DEF Silent, storeVars
<1>1. UNCHANGED origin
  BY DEF RuntimeStep, requestVars
<1>2. Silent
  <2>1. ASSUME NEW w \in Worker,
               WorkerStep(w) \/ EmitChunk(w) \/ ChunkWriteFails(w) \/ StoreCallFails(w)
        PROVE  Silent
    <3>1. \/ UNCHANGED storeVars
          \/ MarkStarted(w[1]) \/ AppendLogChunk(w[1])
          \/ \E text : MarkCompleted(w[1], text)
          \/ \E d : MarkCancelled(w[1], d)
          \/ \E d, text : MarkFailed(w[1], d, text)
      BY <2>1 DEF WorkerStep, Register, Load, CheckCancel, CancelBeforeStart, Start,
                  LaunchProvider, ProviderDecides, ProviderRaises, ProviderReturnsNothing,
                  ResolveAbnormal, Complete, Fail, AcknowledgeCancel, Release, EmitChunk,
                  ChunkWriteFails, StoreCallFails
    <3>2. QED BY <1>t, <1>m, <1>u, <3>1
  <2>2. ASSUME RecoveryStep \/ RecoveryFails
        PROVE  Silent
    <3>1. \/ UNCHANGED storeVars
          \/ \E e \in Exec : \/ AppendEvent(e, "recovered_after_restart")
                             \/ \E d, text : MarkFailed(e, d, text)
      BY <1>t, <2>2 DEF RecoveryStep, RecoveryFails, ListRunning, ReapRead, ReapNote, ReapFail,
                        ListQueued, ReplayNext
    <3>2. QED BY <1>m, <1>u, <3>1
  <2>3. QED BY <2>1, <2>2 DEF RuntimeStep
<1>3. \A e \in Exec : pc'[<<e, "api">>] \in {"noting_source", "noting_target"} =>
        pc'[<<e, "api">>] = pc[<<e, "api">>]
  <2>1. UNCHANGED pc \/ \E w \in Worker, next \in PC \ {"noting_source", "noting_target"} :
                          Goto(w, next)
    <3>1. ASSUME NEW w \in Worker,
                 WorkerStep(w) \/ EmitChunk(w) \/ ChunkWriteFails(w) \/ StoreCallFails(w)
          PROVE  UNCHANGED pc
                 \/ \E next \in PC \ {"noting_source", "noting_target"} : Goto(w, next)
      BY <3>1 DEF WorkerStep, Register, Load, CheckCancel, CancelBeforeStart, Start,
                  LaunchProvider, ProviderDecides, ProviderRaises, ProviderReturnsNothing,
                  ResolveAbnormal, Complete, Fail, AcknowledgeCancel, Release, EmitChunk,
                  ChunkWriteFails, StoreCallFails, PC, Preparing, Running
    <3>2. ASSUME RecoveryStep \/ RecoveryFails
          PROVE  UNCHANGED pc \/ \E e \in Exec : Goto(<<e, "recovery">>, "loading")
      BY <1>t, <3>2 DEF RecoveryStep, RecoveryFails, ListRunning, ReapRead, ReapNote, ReapFail,
                        ListQueued, ReplayNext, workerVars
    <3>3. "loading" \in PC \ {"noting_source", "noting_target"}
      BY DEF PC, Preparing
    <3>4. QED BY <1>t, <3>1, <3>2, <3>3 DEF RuntimeStep
  <2>2. QED BY <1>t, <2>1 DEF Goto
<1>4. QED BY <1>1, <1>2, <1>3 DEF SilentStep

(* Every step keeps the two ends of a retry in agreement.                   *)
LEMMA LineageStep ==
  TypeOK /\ ClaimInv /\ RequestInv /\ LineageInv /\ [Next]_vars => LineageInv'
<1> SUFFICES ASSUME TypeOK, ClaimInv, RequestInv, LineageInv, [Next]_vars
             PROVE  LineageInv'
  OBVIOUS
<1>t. /\ StoreTypeOK /\ pc \in [Worker -> PC] /\ StatusStep
      /\ origin \in [Exec -> SUBSET Exec] /\ status \in [Exec -> Status]
      /\ \A c \in Canceller : cancel[c].exec \subseteq Exec
      /\ \A e \in Exec : <<e, "api">> \in Worker
  BY StepClaim, WorkerParts DEF TypeOK, RuntimeTypeOK, StoreTypeOK
<1>e. {"queued", "cancelled", "cancel_requested"} \subseteq EventType \ LineageEvent
  BY DEF EventType, TerminalEvent, LineageEvent
<1>p. UNCHANGED <<timeline, origin, pc>> => SilentStep
  BY DEF SilentStep, Silent
<1>1. CASE UNCHANGED vars
  BY <1>1, <1>p, <1>t, SilentStepKeeps DEF vars, storeVars, workerVars, requestVars
<1>2. CASE RuntimeStep
  BY <1>2, <1>t, RuntimeIsSilent, SilentStepKeeps
<1>3. CASE Crash
  <2>1. SilentStep
    BY <1>3, <1>t DEF Crash, RuntimeBoots, SilentStep, Silent, storeVars
  <2>2. QED BY <1>t, <2>1, SilentStepKeeps
<1>4. ASSUME NEW c \in Canceller,
             CancelStep(c) \/ CancelFails(c) \/ \E e \in Exec : CancelLoad(c, e)
      PROVE  LineageInv'
  <2>1. Silent
    <3>1. \/ UNCHANGED storeVars
          \/ \E e \in Exec : \/ MarkCancelled(e, "before_start")
                             \/ AppendEvent(e, "cancel_requested")
      BY <1>4, <1>t DEF CancelStep, CancelQueued, CancelReread, CancelNote, CancelSignal,
                  CancelAcknowledged, CancelExpires, CancelFails, CancelLoad
    <3>2. QED BY <1>e, <3>1 DEF MarkCancelled, MoveStatus, AppendEvent, Silent, storeVars
  <2>2. UNCHANGED <<origin, pc>>
    BY <1>4 DEF CancelStep, CancelQueued, CancelReread, CancelNote, CancelSignal,
                CancelAcknowledged, CancelExpires, CancelFails, CancelLoad, workerVars
  <2>3. QED BY <1>t, <2>1, <2>2, SilentStepKeeps DEF SilentStep
<1>5. ASSUME NEW r \in Reader, StreamStep(r) \/ \E e \in Exec : StreamOpen(r, e)
      PROVE  LineageInv'
  <2>1. UNCHANGED <<timeline, origin, pc>>
    BY <1>5 DEF StreamStep, StreamPoll, StreamRead, StreamOpen, StreamGoto, storeVars,
                workerVars
  <2>2. QED BY <1>p, <1>t, <2>1, SilentStepKeeps
<1>6. ASSUME NEW e \in Exec, Submit(e) \/ SubmissionFails(e)
      PROVE  LineageInv'
  <2>1. Silent
    BY <1>6, <1>e DEF Submit, SubmissionFails, CreateExecution, Silent, storeVars
  <2>2. UNCHANGED origin
    BY <1>6 DEF Submit, SubmissionFails, requestVars
  <2>3. \A u \in Exec : pc'[<<u, "api">>] \in {"noting_source", "noting_target"} =>
          pc'[<<u, "api">>] = pc[<<u, "api">>]
    BY <1>6, <1>t DEF Submit, SubmissionFails, Goto
  <2>4. QED BY <1>t, <2>1, <2>2, <2>3, SilentStepKeeps DEF SilentStep
<1>7. ASSUME NEW e \in Exec, NEW source \in Exec, Retry(source, e)
      PROVE  LineageInv'
  <2>1. Silent
    BY <1>7, <1>e DEF Retry, CreateExecution, Silent
  <2>2. \A u \in Exec : /\ At(u, {"retry_created"})' = At(u, {"retry_created"})
                        /\ Requests(u)' = Requests(u)
    BY <1>t, <2>1, SilentLineage
  <2>3. status[e] = "absent" /\ ~Naming(e) /\ status'[e] = "queued"
    BY <1>7, <1>t DEF Retry, CreateExecution, LineageInv
  <2>4. \A u \in Exec \ {e} : /\ pc'[<<u, "api">>] = pc[<<u, "api">>]
                              /\ origin'[u] = origin[u]
                              /\ status'[u] = status[u]
    BY <1>7, <1>t DEF Retry, Goto, CreateExecution
  <2>5. pc'[<<e, "api">>] = "noting_source" /\ origin'[e] = {source}
    BY <1>7, <1>t DEF Retry, Goto
  <2>6. \A u \in Exec : Naming(u)' => u # e /\ Naming(u)
    BY <2>2, <2>3, <2>4, <2>5 DEF Naming
  <2>7. /\ \A u \in Exec : Naming(u)' => Naming(u) /\ origin'[u] = origin[u]
        /\ \A u \in Exec : \A r, s \in origin'[u] : r = s
    <3>1. \A u \in Exec \ {e} : \A r, s \in origin'[u] : r = s
      BY <2>4 DEF LineageInv
    <3>2. \A r, s \in origin'[e] : r = s
      BY <2>5
    <3>3. QED BY <2>4, <2>6, <3>1, <3>2
  <2>8. \A u \in Exec : status'[u] = "absent" =>
          /\ status[u] = "absent"
          /\ pc'[<<u, "api">>] = "noting_source" => pc[<<u, "api">>] = "noting_source"
    BY <2>3, <2>4
  <2>9. QED BY <2>2, <2>7, <2>8, NobodyNew
<1>8. ASSUME NEW e \in Exec, NoteRetryRequested(e)
      PROVE  LineageInv'
  <2>1. UNCHANGED origin
    BY <1>8 DEF NoteRetryRequested, requestVars
  <2>2. QED BY <1>8, <1>t, <2>1, SourceHears
<1>9. ASSUME NEW e \in Exec, NoteRetryCreated(e)
      PROVE  LineageInv'
  <2>1. /\ Record(e, "retry_created") /\ UNCHANGED <<status, origin>>
        /\ "retry_created" \in EventType
    BY <1>9 DEF NoteRetryCreated, AppendEvent, requestVars, EventType
  <2>2. \A u \in Exec :
          /\ Requests(u)' = Requests(u)
          /\ u # e => At(u, {"retry_created"})' = At(u, {"retry_created"})
    BY <1>t, <2>1, RecordAt DEF Requests
  <2>3. \A u \in Exec :
          pc'[<<u, "api">>] = IF u = e THEN "submitted" ELSE pc[<<u, "api">>]
    BY <1>9, <1>t DEF NoteRetryCreated, Goto
  <2>4. Naming(e)
    BY <1>9 DEF NoteRetryCreated, Naming
  <2>5. \A u \in Exec : Naming(u)' => Naming(u)
    BY <2>2, <2>3, <2>4 DEF Naming
  <2>6. \A u \in Exec : status'[u] = "absent" =>
          /\ status[u] = "absent"
          /\ pc'[<<u, "api">>] = "noting_source" => pc[<<u, "api">>] = "noting_source"
    BY <2>1, <2>3, <2>4 DEF LineageInv
  <2>7. /\ \A u \in Exec : Naming(u)' => Naming(u) /\ origin'[u] = origin[u]
        /\ \A u \in Exec : \A r, s \in origin'[u] : r = s
    BY <2>1, <2>5 DEF LineageInv
  <2>8. QED BY <2>2, <2>6, <2>7, NobodyNew
<1>10. QED
  BY <1>1, <1>2, <1>3, <1>4, <1>5, <1>6, <1>7, <1>8, <1>9 DEF Next, RequestStep

(* At first nothing was retried.                                            *)
LEMMA LineageInit == Init => LineageInv
<1> SUFFICES ASSUME Init PROVE LineageInv
  OBVIOUS
<1>1. \A e \in Exec : /\ timeline[e] = <<>> /\ origin[e] = {}
                      /\ pc[<<e, "api">>] = "idle"
  BY WorkerParts DEF Init, StoreInit, RuntimeInit
<1>n. ASSUME NEW e \in Exec PROVE \A types : At(e, types) = {}
  <2>1. timeline[e] = <<>>
    BY <1>1
  <2>2. QED BY <2>1 DEF At
<1>2. \A e \in Exec : Retries(e) = {} /\ Requests(e) = {} /\ ~Naming(e)
  BY <1>1, <1>n DEF Retries, Requests, Naming
<1>3. IsFiniteSet({}) /\ Cardinality({}) = 0
  BY FS_EmptySet
<1>4. \A e \in Exec : Cardinality(Retries(e)) <= Cardinality(Requests(e))
  BY <1>2, <1>3
<1>5. QED BY <1>1, <1>2, <1>3, <1>4 DEF LineageInv

(* A retry that names its source is counted by it, whatever dies between    *)
(* the transactions that note the two ends.                                 *)
LEMMA LineageCounts == LineageInv => LineageIsMutual
<1> SUFFICES ASSUME LineageInv, NEW source \in Exec
             PROVE  Cardinality({e \in Exec : source \in origin[e] /\ Occurs(e, "retry_created") > 0})
                      <= Occurs(source, "retry_requested")
  BY DEF LineageIsMutual
<1> DEFINE Named == {e \in Exec : source \in origin[e] /\ Occurs(e, "retry_created") > 0}
<1>1. Cardinality({}) = 0
  BY FS_EmptySet
<1>2. Named \in SUBSET Retries(source)
  BY <1>1 DEF Retries, Naming, Occurs
<1>3. IsFiniteSet(Retries(source)) /\ IsFiniteSet(Requests(source))
      /\ Cardinality(Retries(source)) <= Cardinality(Requests(source))
  BY DEF LineageInv
<1>4. IsFiniteSet(Named) /\ Cardinality(Named) <= Cardinality(Retries(source))
  BY <1>2, <1>3, FS_Subset
<1>5. /\ Cardinality(Named) \in Nat /\ Cardinality(Retries(source)) \in Nat
      /\ Cardinality(Requests(source)) \in Nat
  BY <1>3, <1>4, FS_CardinalityType
<1>6. QED BY <1>3, <1>4, <1>5 DEF Occurs, Requests

(* No accepted execution is left without somebody to take it further, and   *)
(* no retry without its lineage, whatever dies.                             *)
THEOREM NothingIsLost == Spec => []NothingIsStranded
<1>1. TypeOK /\ ClaimInv /\ RequestInv /\ LineageInv /\ [Next]_vars => LineageInv'
  BY LineageStep
<1>2. Spec => []LineageInv
  BY <1>1, LineageInit, TypeCorrect, ClaimsInOrder, PTL DEF Spec
<1>3. LineageInv /\ NoExecutionStranded => NothingIsStranded
  BY LineageCounts DEF NothingIsStranded
<1>4. QED BY <1>2, <1>3, NobodyStranded, PTL

-----------------------------------------------------------------------------
(* The log of a run.                                                        *)

(* A worker's accumulators are empty until it has claimed its execution;    *)
(* nobody but the request works on what is not yet in the store, and the    *)
(* recovery thread takes an execution up at most once per process.          *)
KeptInv ==
  /\ \A e \in Exec : status[e] = "absent" => pc[<<e, "api">>] = "idle"
  /\ \A w \in Worker : pc[w] \in {"idle"} \cup Submitting \cup Preparing => kept[w] = 0
  /\ phase \in {"boot", "reap", "reap_note", "reap_fail"} =>
       \A e \in Exec : pc[<<e, "recovery">>] = "idle"
  /\ phase = "replay" => \A e \in todo : pc[<<e, "recovery">>] = "idle"

Emitting == {"started", "streaming", "draining"}

(* What the runner has accumulated is the log while it emits; once it has   *)
(* settled the execution nobody emits any more.                             *)
LogInv(e) ==
  /\ status[e] \in {"absent", "queued"} => logSeq[e] = 0
  /\ \A via \in Via : pc[<<e, via>>] \in Emitting => kept[<<e, via>>] = logSeq[e]
  /\ SettledByRunner(e) => ~HasRunner(e)
  /\ status[e] = "completed" => output[e] = logSeq[e]
  /\ SettledByRunner(e) =>
       \A i \in At(e, {"log"}), j \in At(e, TerminalEvent) : i < j

(* A reader that is about to leave, or has left, saw a settled execution.   *)
StreamInv(r) ==
  /\ stream[r].pc = "reading" /\ stream[r].polled \in TerminalStatus =>
       \A e \in stream[r].exec : IsTerminal(e)
  /\ stream[r].pc = "done" => \A e \in stream[r].exec :
       IsTerminal(e) /\ (SettledByRunner(e) => stream[r].seen = logSeq[e])

(* A worker writes nothing down before it has claimed its execution.        *)
LEMMA KeptStep ==
  ASSUME TypeOK, ClaimInv, RequestInv, KeptInv, [Next]_vars
  PROVE  KeptInv'
<1>t. /\ pc \in [Worker -> PC] /\ status \in [Exec -> Status] /\ kept \in [Worker -> Nat]
      /\ StoreTypeOK /\ StatusStep /\ todo \subseteq Exec
  BY StepClaim DEF TypeOK, StoreTypeOK, RuntimeTypeOK
<1>a. \A e \in Exec : status'[e] = "absent" => status[e] = "absent"
  BY <1>t DEF StatusStep, Moves, StoreTypeOK
<1>w. /\ \A w \in Worker : w[1] \in Exec /\ w[2] \in Via /\ w = <<w[1], w[2]>>
      /\ \A e \in Exec, via \in Via : <<e, via>> \in Worker
      /\ "api" \in Via /\ "recovery" \in Via
  BY WorkerParts
<1>p. "idle" \notin Submitting \cup Preparing \cup Running
  BY DEF Submitting, Preparing, Running
<1>q. ASSUME UNCHANGED <<pc, kept, recoveryVars>> PROVE KeptInv'
  BY <1>q, <1>a DEF KeptInv, recoveryVars
<1>1. CASE UNCHANGED vars
  BY <1>1, <1>q DEF vars, workerVars
<1>2. ASSUME NEW w \in Worker,
             WorkerStep(w) \/ EmitChunk(w) \/ ChunkWriteFails(w) \/ StoreCallFails(w)
      PROVE  KeptInv'
  <2>1. pc[w] # "idle"
    BY <1>2
       DEF WorkerStep, Register, Load, CheckCancel, CancelBeforeStart, Start, LaunchProvider,
           ProviderDecides, ProviderRaises, ProviderReturnsNothing, ResolveAbnormal,
           Complete, Fail, AcknowledgeCancel, Release, EmitChunk, ChunkWriteFails,
           StoreCallFails
  <2>2. /\ \A v \in Worker : v # w => pc'[v] = pc[v] /\ kept'[v] = kept[v]
        /\ pc'[w] \in {"idle"} \cup Submitting \cup Preparing =>
             /\ pc[w] \in Submitting \cup Preparing
             /\ kept'[w] = kept[w]
        /\ \/ UNCHANGED recoveryVars
           \/ w[2] = "recovery" /\ phase' = "dead"
           \/ UNCHANGED <<phase, todo>>
    BY <1>2, <1>t
       DEF WorkerStep, Register, Load, CheckCancel, CancelBeforeStart, Start, LaunchProvider,
           ProviderDecides, ProviderRaises, ProviderReturnsNothing, ResolveAbnormal,
           Complete, Fail, AcknowledgeCancel, Release, EmitChunk, ChunkWriteFails,
           StoreCallFails, Goto, Submitting, Preparing
  <2>3. \A e \in Exec : status'[e] = "absent" => pc'[<<e, "api">>] = "idle"
    BY <1>a, <1>w, <2>1, <2>2 DEF KeptInv
  <2>4. \A v \in Worker : pc'[v] \in {"idle"} \cup Submitting \cup Preparing => kept'[v] = 0
    BY <2>2 DEF KeptInv
  <2>5. \A e \in Exec : pc[<<e, "recovery">>] = "idle" => pc'[<<e, "recovery">>] = "idle"
    BY <1>w, <2>1, <2>2
  <2>6. QED BY <2>2, <2>3, <2>4, <2>5, <1>t DEF KeptInv, recoveryVars
<1>3. CASE RecoveryStep \/ RecoveryFails
  <2>1. CASE ReplayNext
    <3>1. PICK e \in todo : todo' = todo \ {e} /\ Goto(<<e, "recovery">>, "loading")
      BY <2>1 DEF ReplayNext
    <3>2. UNCHANGED <<kept, phase>> /\ phase = "replay"
      BY <2>1 DEF ReplayNext
    <3>3. \A v \in Worker : pc'[v] = IF v = <<e, "recovery">> THEN "loading" ELSE pc[v]
      BY <1>t, <3>1 DEF Goto
    <3>4. kept[<<e, "recovery">>] = 0
      BY <1>t, <1>w, <3>1, <3>2 DEF KeptInv
    <3>5. \A f \in Exec : pc'[<<f, "api">>] = pc[<<f, "api">>]
      BY <1>w, <3>3
    <3>6. \A f \in todo' : pc'[<<f, "recovery">>] = "idle"
      BY <1>t, <1>w, <3>1, <3>2, <3>3 DEF KeptInv
    <3>7. QED BY <1>a, <3>2, <3>3, <3>4, <3>5, <3>6 DEF KeptInv
  <2>2. CASE ~ReplayNext
    <3>1. /\ UNCHANGED <<pc, kept>>
          /\ \/ phase' = "dead"
             \/ phase \in {"boot", "reap", "reap_note", "reap_fail"} /\ todo' \subseteq Exec
      BY <1>3, <1>t, <2>2
         DEF RecoveryStep, RecoveryFails, ListRunning, ReapRead, ReapNote, ReapFail,
             ListQueued, workerVars
    <3>2. QED BY <1>a, <3>1 DEF KeptInv
  <2>3. QED BY <2>1, <2>2
<1>4. ASSUME NEW e \in Exec,
             \/ Submit(e) \/ NoteRetryRequested(e) \/ NoteRetryCreated(e) \/ SubmissionFails(e)
             \/ \E source \in Exec : Retry(source, e)
      PROVE  KeptInv'
  <2>1. PICK next \in Submitting \cup {"done"} : Goto(<<e, "api">>, next)
    BY <1>4 DEF Submit, NoteRetryRequested, NoteRetryCreated, SubmissionFails, Retry,
                Submitting
  <2>2. UNCHANGED <<kept, recoveryVars>>
    BY <1>4 DEF Submit, NoteRetryRequested, NoteRetryCreated, SubmissionFails, Retry
  <2>3. \A v \in Worker : pc'[v] = IF v = <<e, "api">> THEN next ELSE pc[v]
    BY <1>t, <2>1 DEF Goto
  <2>4. pc[<<e, "api">>] \in {"idle"} \cup Submitting
    BY <1>4 DEF Submit, NoteRetryRequested, NoteRetryCreated, SubmissionFails, Retry,
                Submitting, CreateExecution, KeptInv
  <2>5. status'[e] # "absent"
    <3>1. CASE Submit(e) \/ \E source \in Exec : Retry(source, e)
      BY <3>1, <1>t DEF Submit, Retry, CreateExecution
    <3>2. CASE NoteRetryRequested(e) \/ NoteRetryCreated(e) \/ SubmissionFails(e)
      <4>1. pc[<<e, "api">>] # "idle"
        BY <3>2 DEF NoteRetryRequested, NoteRetryCreated, SubmissionFails
      <4>2. QED BY <4>1, <1>a DEF KeptInv
    <3>3. QED BY <1>4, <3>1, <3>2
  <2>6. \A f \in Exec : pc'[<<f, "recovery">>] = pc[<<f, "recovery">>]
    BY <1>w, <2>3
  <2>7. kept[<<e, "api">>] = 0
    BY <1>w, <2>4 DEF KeptInv
  <2>8. \A f \in Exec : status'[f] = "absent" => pc'[<<f, "api">>] = "idle"
    BY <1>a, <1>w, <2>3, <2>5 DEF KeptInv
  <2>9. \A v \in Worker : pc'[v] \in {"idle"} \cup Submitting \cup Preparing => kept'[v] = 0
    BY <2>2, <2>3, <2>7 DEF KeptInv
  <2>10. QED BY <1>t, <2>2, <2>6, <2>8, <2>9 DEF KeptInv, recoveryVars
<1>5. ASSUME NEW c \in Canceller,
             CancelStep(c) \/ CancelFails(c) \/ \E e \in Exec : CancelLoad(c, e)
      PROVE  KeptInv'
  BY <1>5, <1>q
     DEF CancelStep, CancelQueued, CancelReread, CancelNote, CancelSignal,
         CancelAcknowledged, CancelExpires, CancelFails, CancelLoad, workerVars
<1>6. ASSUME NEW r \in Reader, StreamStep(r) \/ \E e \in Exec : StreamOpen(r, e)
      PROVE  KeptInv'
  BY <1>6, <1>q DEF StreamStep, StreamPoll, StreamRead, StreamOpen, StreamGoto, workerVars
<1>7. CASE Crash
  BY <1>7, <1>w DEF Crash, RuntimeBoots, KeptInv
<1>8. QED
  BY <1>1, <1>2, <1>3, <1>4, <1>5, <1>6, <1>7 DEF Next, RuntimeStep, RequestStep

(* A transaction that is neither a chunk of the execution nor its runner's  *)
(* last word.                                                               *)
LogQuiet(e) ==
  /\ logSeq'[e] = logSeq[e]
  /\ At(e, {"log"})' = At(e, {"log"})
  /\ status'[e] \in {"absent", "queued"} => status[e] \in {"absent", "queued"}
  /\ SettledByRunner(e)' =>
       /\ SettledByRunner(e)
       /\ status'[e] = status[e] /\ output'[e] = output[e]
       /\ At(e, TerminalEvent)' = At(e, TerminalEvent)

(* What anybody but the runner writes leaves the log alone.                 *)
LEMMA QuietStores ==
  ASSUME StoreTypeOK, NEW e \in Exec, NEW f \in Exec,
         \/ UNCHANGED storeVars
         \/ CreateExecution(f)
         \/ MarkStarted(f)
         \/ MarkCancelled(f, "before_start")
         \/ \E d \in Detail \ RunnerDetail, text \in Nat : MarkFailed(f, d, text)
         \/ \E type \in EventType \ ({"log"} \cup TerminalEvent) : AppendEvent(f, type)
         \/ /\ f # e \/ IsTerminal(f)
            /\ \/ \E text : MarkCompleted(f, text)
               \/ \E d \in Detail, text \in Nat : MarkFailed(f, d, text)
               \/ \E d \in Detail : MarkCancelled(f, d)
         \/ f # e /\ AppendLogChunk(f)
  PROVE  LogQuiet(e)
<1>a. ASSUME status'[e] = status[e], detail'[e] = detail[e], logSeq'[e] = logSeq[e],
             output'[e] = output[e], At(e, {"log"})' = At(e, {"log"}),
             At(e, TerminalEvent)' = At(e, TerminalEvent)
      PROVE  LogQuiet(e)
  BY <1>a DEF LogQuiet, SettledByRunner, IsTerminal
<1>t. ASSUME timeline'[e] = timeline[e]
      PROVE  \A types : At(e, types)' = At(e, types)
  BY <1>t DEF At
<1>r. ASSUME NEW type \in EventType, Record(f, type), f # e
      PROVE  timeline'[e] = timeline[e]
  BY <1>r DEF Record, StoreTypeOK
<1>b. ASSUME NEW type \in EventType \ {"log"}, Record(f, type)
      PROVE  At(e, {"log"})' = At(e, {"log"})
  BY <1>b, RecordAt
<1>1. CASE UNCHANGED storeVars
  BY <1>1, <1>a, <1>t DEF storeVars
<1>2. CASE CreateExecution(f)
  <2>1. "queued" \in EventType \ ({"log"} \cup TerminalEvent)
    BY DEF EventType, TerminalEvent
  <2>2. At(e, {"log"})' = At(e, {"log"}) /\ At(e, TerminalEvent)' = At(e, TerminalEvent)
    BY <1>2, <2>1, RecordAt DEF CreateExecution
  <2>3. QED BY <1>2, <2>2
            DEF CreateExecution, StoreTypeOK, LogQuiet, SettledByRunner, IsTerminal,
                TerminalStatus
<1>3. ASSUME NEW from, NEW to \in {"running", "cancelled", "failed"}, NEW d \in Detail,
             NEW type \in EventType \ {"log"}, MoveStatus(f, from, to, d, type),
             status[f] \in from => status[f] \notin TerminalStatus,
             UNCHANGED logSeq, f # e \/ status[f] \notin from => output'[e] = output[e],
             to \in TerminalStatus => d \notin RunnerDetail
      PROVE  LogQuiet(e)
  <2>1. CASE status[f] \in from /\ f = e
    <3>1. status'[e] = to /\ detail'[e] = d
      BY <1>3, <2>1 DEF MoveStatus, StoreTypeOK
    <3>2. ~SettledByRunner(e)' /\ to \notin {"absent", "queued"}
      BY <1>3, <3>1 DEF SettledByRunner, IsTerminal
    <3>3. At(e, {"log"})' = At(e, {"log"})
      BY <1>3, <1>b, <2>1 DEF MoveStatus
    <3>4. QED BY <1>3, <3>1, <3>2, <3>3 DEF LogQuiet
  <2>2. CASE status[f] \in from /\ f # e
    <3>1. timeline'[e] = timeline[e]
      BY <1>3, <1>r, <2>2 DEF MoveStatus
    <3>2. status'[e] = status[e] /\ detail'[e] = detail[e] /\ output'[e] = output[e]
      BY <1>3, <2>2 DEF MoveStatus, StoreTypeOK
    <3>3. QED BY <1>3, <1>a, <1>t, <3>1, <3>2
  <2>3. CASE status[f] \notin from
    BY <1>3, <1>a, <1>t, <2>3 DEF MoveStatus
  <2>4. QED BY <2>1, <2>2, <2>3
<1>4. CASE MarkStarted(f)
  <2>1. "started" \in EventType \ {"log"} /\ detail[f] \in Detail
        /\ "running" \notin TerminalStatus
    BY DEF EventType, StoreTypeOK, TerminalStatus
  <2>2. QED BY <1>3, <1>4, <2>1 DEF MarkStarted, TerminalStatus
<1>5. CASE MarkCancelled(f, "before_start")
  <2>1. "cancelled" \in EventType \ {"log"} /\ "before_start" \in Detail \ RunnerDetail
    BY DEF EventType, TerminalEvent, Detail, RunnerDetail
  <2>2. QED BY <1>3, <1>5, <2>1 DEF MarkCancelled, Unsettled, TerminalStatus
<1>6. ASSUME NEW d \in Detail \ RunnerDetail, NEW text \in Nat, MarkFailed(f, d, text)
      PROVE  LogQuiet(e)
  <2>1. FailedEvent(d) \in EventType \ {"log"} /\ d \in Detail \ RunnerDetail
    BY DEF EventType, TerminalEvent, FailedEvent
  <2>2. f # e \/ status[f] \notin Unsettled => output'[e] = output[e]
    BY <1>6 DEF MarkFailed, StoreTypeOK
  <2>3. QED BY <1>3, <1>6, <2>1, <2>2 DEF MarkFailed, Unsettled, TerminalStatus
<1>7. ASSUME NEW type \in EventType \ ({"log"} \cup TerminalEvent), AppendEvent(f, type)
      PROVE  LogQuiet(e)
  <2>1. At(e, {"log"})' = At(e, {"log"}) /\ At(e, TerminalEvent)' = At(e, TerminalEvent)
    BY <1>7, RecordAt DEF AppendEvent
  <2>2. QED BY <1>7, <1>a, <2>1 DEF AppendEvent
<1>8. ASSUME f # e \/ IsTerminal(f),
             NEW from, NEW to, NEW d, NEW type \in EventType,
             MoveStatus(f, from, to, d, type),
             status[f] \in from => status[f] \notin TerminalStatus,
             UNCHANGED logSeq, f # e \/ status[f] \notin from => output'[e] = output[e]
      PROVE  LogQuiet(e)
  <2>1. CASE status[f] \in from
    <3>1. f # e
      BY <1>8, <2>1 DEF IsTerminal
    <3>2. timeline'[e] = timeline[e]
      BY <1>8, <1>r, <2>1, <3>1 DEF MoveStatus
    <3>3. status'[e] = status[e] /\ detail'[e] = detail[e] /\ output'[e] = output[e]
      BY <1>8, <2>1, <3>1 DEF MoveStatus, StoreTypeOK
    <3>4. QED BY <1>8, <1>a, <1>t, <3>2, <3>3
  <2>2. CASE status[f] \notin from
    BY <1>8, <1>a, <1>t, <2>2 DEF MoveStatus
  <2>3. QED BY <2>1, <2>2
<1>9. ASSUME f # e \/ IsTerminal(f), NEW text, MarkCompleted(f, text)
      PROVE  LogQuiet(e)
  <2>1. "completed" \in EventType
    BY DEF EventType, TerminalEvent
  <2>2. f # e \/ status[f] \notin Completable => output'[e] = output[e]
    BY <1>9 DEF MarkCompleted, StoreTypeOK
  <2>3. status[f] \in Completable => status[f] \notin TerminalStatus
    BY DEF Completable, TerminalStatus
  <2>4. QED BY <1>8, <1>9, <2>1, <2>2, <2>3 DEF MarkCompleted
<1>10. ASSUME f # e \/ IsTerminal(f), NEW d \in Detail, NEW text \in Nat, MarkFailed(f, d, text)
       PROVE  LogQuiet(e)
  <2>1. FailedEvent(d) \in EventType
    BY DEF EventType, TerminalEvent, FailedEvent
  <2>2. f # e \/ status[f] \notin Unsettled => output'[e] = output[e]
    BY <1>10 DEF MarkFailed, StoreTypeOK
  <2>3. QED BY <1>8, <1>10, <2>1, <2>2 DEF MarkFailed, Unsettled, TerminalStatus
<1>11. ASSUME f # e \/ IsTerminal(f), NEW d \in Detail, MarkCancelled(f, d)
       PROVE  LogQuiet(e)
  <2>1. "cancelled" \in EventType
    BY DEF EventType, TerminalEvent
  <2>2. QED BY <1>8, <1>11, <2>1 DEF MarkCancelled, Unsettled, TerminalStatus
<1>12. CASE f # e /\ AppendLogChunk(f)
  <2>1. "log" \in EventType
    BY DEF EventType
  <2>2. timeline'[e] = timeline[e] /\ logSeq'[e] = logSeq[e] /\ output'[e] = output[e]
    BY <1>12, <1>r, <2>1 DEF AppendLogChunk, StoreTypeOK
  <2>3. QED BY <1>12, <1>a, <1>t, <2>2 DEF AppendLogChunk
<1>13. QED
  BY <1>1, <1>2, <1>4, <1>5, <1>6, <1>7, <1>9, <1>10, <1>11, <1>12

(* A step that lets nobody else run the execution keeps its log as it is.   *)
LEMMA LogKeeps ==
  ASSUME NEW e \in Exec, LogInv(e), LogQuiet(e),
         \A via \in Via : pc'[<<e, via>>] \in Emitting =>
           pc[<<e, via>>] \in Emitting /\ kept'[<<e, via>>] = kept[<<e, via>>],
         HasRunner(e)' => HasRunner(e)
  PROVE  LogInv(e)'
<1>1. SettledByRunner(e)' => ~HasRunner(e)'
  BY DEF LogInv, LogQuiet
<1>2. status'[e] = "completed" => output'[e] = logSeq'[e]
  BY DEF LogInv, LogQuiet, SettledByRunner
<1>3. SettledByRunner(e)' => \A i \in At(e, {"log"})', j \in At(e, TerminalEvent)' : i < j
  BY DEF LogInv, LogQuiet
<1>4. QED BY <1>1, <1>2, <1>3 DEF LogInv, LogQuiet

(* The runner has the last word on its execution.                           *)
LEMMA RunnerSettles ==
  ASSUME StoreTypeOK, pc \in [Worker -> PC], ClaimInv, NEW e \in Exec, NEW via \in Via,
         LogInv(e), SettlesOnce(e), status[e] = "running",
         pc[<<e, via>>] \in Running, Goto(<<e, via>>, "releasing"), UNCHANGED logSeq,
         NEW type \in TerminalEvent, Record(e, type), status'[e] \in TerminalStatus,
         status'[e] = "completed" => output'[e] = logSeq[e]
  PROVE  LogInv(e)'
<1>1. \A v \in Via : pc'[<<e, v>>] \notin Running
  BY WorkerParts DEF Goto, ClaimInv, Running
<1>2. ~HasRunner(e)' /\ \A v \in Via : pc'[<<e, v>>] \notin Emitting
  BY <1>1 DEF HasRunner, Running, Emitting
<1>3. At(e, TerminalEvent) = {}
  BY DEF SettlesOnce, IsTerminal, TerminalStatus
<1>4. type \in EventType /\ type # "log"
  BY DEF EventType, TerminalEvent
<1>5. /\ Len(timeline[e]) \in Nat
      /\ DOMAIN timeline[e] = 1 .. Len(timeline[e])
      /\ At(e, {"log"})' = At(e, {"log"})
      /\ At(e, TerminalEvent)' = {Len(timeline[e]) + 1}
  BY <1>3, <1>4, RecordAt
<1>6. \A i \in At(e, {"log"}) : i < Len(timeline[e]) + 1
  BY <1>5 DEF At
<1>7. QED BY <1>2, <1>5, <1>6 DEF LogInv, TerminalStatus

(* A worker adds to the log of its own execution, and settles it last.      *)
LEMMA WorkerLog ==
  ASSUME StoreTypeOK, RuntimeTypeOK, ClaimInv, KeptInv, NEW e \in Exec,
         LogInv(e), SettlesOnce(e), NEW w \in Worker,
         WorkerStep(w) \/ EmitChunk(w) \/ ChunkWriteFails(w) \/ StoreCallFails(w)
  PROVE  LogInv(e)'
<1>t. /\ pc \in [Worker -> PC] /\ kept \in [Worker -> Nat]
      /\ logSeq \in [Exec -> Nat] /\ output \in [Exec -> Nat] /\ status \in [Exec -> Status]
      /\ detail \in [Exec -> Detail]
  BY DEF RuntimeTypeOK, StoreTypeOK
<1>w. w[1] \in Exec /\ w[2] \in Via /\ w = <<w[1], w[2]>>
  BY WorkerParts
<1>o. \A v \in Worker : v # w => pc'[v] = pc[v] /\ kept'[v] = kept[v]
  BY <1>t
     DEF WorkerStep, Register, Load, CheckCancel, CancelBeforeStart, Start, LaunchProvider,
         ProviderDecides, ProviderRaises, ProviderReturnsNothing, ResolveAbnormal,
         Complete, Fail, AcknowledgeCancel, Release, EmitChunk, ChunkWriteFails,
         StoreCallFails, Goto
<1>d. /\ \A v \in Verdict : FailureDetail(v) \in Detail
      /\ "by_request" \in Detail /\ verdict[w] \in Verdict
  BY DEF FailureDetail, Detail, RunnerDetail, RuntimeTypeOK
<1>q. ASSUME LogQuiet(e),
             pc'[w] \in Emitting => pc[w] \in Emitting /\ kept'[w] = kept[w],
             pc'[w] \in Running => pc[w] \in Running
      PROVE  LogInv(e)'
  <2>1. \A via \in Via : pc'[<<e, via>>] \in Emitting =>
          pc[<<e, via>>] \in Emitting /\ kept'[<<e, via>>] = kept[<<e, via>>]
    BY <1>o, <1>q, WorkerParts
  <2>2. HasRunner(e)' => HasRunner(e)
    BY <1>o, <1>q, WorkerParts DEF HasRunner
  <2>3. QED BY <1>q, <2>1, <2>2, LogKeeps
<1> USE DEF Emitting, Running
<1>1. CASE \/ Register(w) \/ Load(w) \/ CheckCancel(w) \/ LaunchProvider(w)
           \/ ProviderDecides(w) \/ ProviderRaises(w) \/ ProviderReturnsNothing(w)
           \/ ResolveAbnormal(w) \/ Release(w) \/ ChunkWriteFails(w) \/ StoreCallFails(w)
  <2>1. UNCHANGED storeVars
    BY <1>1 DEF Register, Load, CheckCancel, LaunchProvider, ProviderDecides, ProviderRaises,
                ProviderReturnsNothing, ResolveAbnormal, Release, ChunkWriteFails,
                StoreCallFails
  <2>2. LogQuiet(e)
    BY <1>w, <2>1, QuietStores
  <2>3. /\ pc'[w] \in Emitting => pc[w] \in Emitting /\ kept'[w] = kept[w]
        /\ pc'[w] \in Running => pc[w] \in Running
    BY <1>1, <1>t
       DEF Register, Load, CheckCancel, LaunchProvider, ProviderDecides, ProviderRaises,
           ProviderReturnsNothing, ResolveAbnormal, Release, ChunkWriteFails,
           StoreCallFails, Goto
  <2>4. QED BY <1>q, <2>2, <2>3
<1>2. CASE CancelBeforeStart(w)
  <2>1. LogQuiet(e) /\ pc'[w] = "releasing"
    BY <1>2, <1>t, <1>w, QuietStores DEF CancelBeforeStart, Goto
  <2>2. QED BY <1>q, <2>1
<1>3. CASE Start(w)
  <2>1. LogQuiet(e)
    BY <1>3, <1>w, QuietStores DEF Start
  <2>2. CASE w[1] # e \/ status[w[1]] # "queued"
    <3>1. CASE w[1] # e
      <4>1. \A via \in Via : <<e, via>> \in Worker /\ <<e, via>> # w
        BY <1>w, <3>1, WorkerParts
      <4>2. QED BY <1>o, <2>1, <4>1, LogKeeps DEF HasRunner
    <3>2. CASE status[w[1]] # "queued"
      <4>1. pc'[w] = "releasing"
        BY <1>3, <1>t, <3>2 DEF Start, Goto
      <4>2. QED BY <1>q, <2>1, <4>1
    <3>3. QED BY <2>2, <3>1, <3>2
  <2>3. CASE w[1] = e /\ status[e] = "queued"
    <3>1. /\ status'[e] = "running" /\ logSeq'[e] = logSeq[e] /\ pc'[w] = "started"
          /\ kept'[w] = kept[w] /\ pc[w] = "starting"
      BY <1>3, <1>t, <2>3 DEF Start, MarkStarted, MoveStatus, Goto
    <3>2. kept[w] = 0 /\ logSeq[e] = 0
      BY <2>3, <3>1 DEF KeptInv, LogInv, Preparing
    <3>3. \A via \in Via : <<e, via>> # w => pc[<<e, via>>] \notin Emitting
      BY <2>3 DEF ClaimInv, HasRunner, Taken
    <3>4. \A via \in Via : pc'[<<e, via>>] \in Emitting => kept'[<<e, via>>] = logSeq'[e]
      BY <1>o, <3>1, <3>2, <3>3, WorkerParts
    <3>5. ~SettledByRunner(e)'
      BY <3>1 DEF SettledByRunner, IsTerminal, TerminalStatus
    <3>6. QED BY <3>1, <3>4, <3>5 DEF LogInv
  <2>4. QED BY <2>2, <2>3
<1>4. CASE Complete(w) \/ Fail(w) \/ AcknowledgeCancel(w)
  <2>1. /\ pc[w] \in Running /\ Goto(w, "releasing") /\ UNCHANGED kept
        /\ UNCHANGED logSeq /\ pc'[w] = "releasing"
    BY <1>4, <1>t
       DEF Complete, Fail, AcknowledgeCancel, Goto, MarkCompleted, MarkFailed, MarkCancelled
  <2>2. CASE w[1] # e \/ IsTerminal(w[1])
    <3>1. LogQuiet(e)
      BY <1>4, <1>t, <1>w, <1>d, <2>2, QuietStores DEF Complete, Fail, AcknowledgeCancel
    <3>2. QED BY <1>q, <2>1, <3>1
  <2>3. CASE w[1] = e /\ ~IsTerminal(e)
    <3>1. status[e] = "running"
      BY <1>t, <1>w, <2>1, <2>3 DEF ClaimInv, HasRunner, Taken, Status, IsTerminal
    <3>2. PICK type \in TerminalEvent : Record(e, type)
      BY <1>4, <2>3, <3>1
         DEF Complete, Fail, AcknowledgeCancel, MarkCompleted, MarkFailed, MarkCancelled,
             MoveStatus, Completable, Unsettled, TerminalEvent, FailedEvent
    <3>3. status'[e] \in TerminalStatus
      BY <1>4, <1>t, <2>3, <3>1
         DEF Complete, Fail, AcknowledgeCancel, MarkCompleted, MarkFailed, MarkCancelled,
             MoveStatus, Completable, Unsettled, TerminalStatus
    <3>4. status'[e] = "completed" => output'[e] = logSeq[e]
      <4>1. CASE Complete(w)
        <5>1. output'[e] = kept[w]
          BY <1>t, <2>3, <3>1, <4>1 DEF Complete, MarkCompleted, Completable
        <5>2. kept[w] = logSeq[e]
          BY <1>w, <2>3, <4>1 DEF LogInv, Complete
        <5>3. QED BY <5>1, <5>2
      <4>2. CASE Fail(w) \/ AcknowledgeCancel(w)
        BY <1>t, <2>3, <3>1, <4>2
           DEF Fail, AcknowledgeCancel, MarkFailed, MarkCancelled, MoveStatus, Unsettled
      <4>3. QED BY <1>4, <4>1, <4>2
    <3>5. QED BY <1>t, <1>w, <2>1, <2>3, <3>1, <3>2, <3>3, <3>4, RunnerSettles
  <2>4. QED BY <2>2, <2>3
<1>5. CASE EmitChunk(w)
  <2>1. pc[w] \in Running /\ UNCHANGED pc
    BY <1>5 DEF EmitChunk
  <2>2. CASE w[1] # e
    <3>1. LogQuiet(e)
      BY <1>5, <1>w, <2>2, QuietStores DEF EmitChunk
    <3>2. \A via \in Via : <<e, via>> \in Worker /\ <<e, via>> # w
      BY <1>w, <2>2, WorkerParts
    <3>3. QED BY <1>o, <3>1, <3>2, LogKeeps DEF HasRunner
  <2>3. CASE w[1] = e
    <3>1. /\ logSeq'[e] = logSeq[e] + 1 /\ output'[e] = output[e] + 1
          /\ kept'[w] = kept[w] + 1 /\ UNCHANGED <<status, detail>>
          /\ pc[w] \in Emitting
      BY <1>5, <1>t, <2>3 DEF EmitChunk, AppendLogChunk
    <3>2. HasRunner(e) /\ Taken(e)
      BY <1>w, <2>1, <2>3 DEF HasRunner, ClaimInv
    <3>3. ~SettledByRunner(e) /\ status[e] \notin {"absent", "queued"}
      BY <3>2 DEF LogInv, Taken
    <3>4. ~SettledByRunner(e)'
      BY <3>1, <3>3 DEF SettledByRunner, IsTerminal
    <3>5. \A via \in Via : pc'[<<e, via>>] \in Emitting => <<e, via>> = w
      BY <1>w, <2>1, <2>3 DEF ClaimInv
    <3>6. kept[w] = logSeq[e]
      BY <1>w, <2>3, <3>1 DEF LogInv
    <3>7. \A via \in Via : pc'[<<e, via>>] \in Emitting => kept'[<<e, via>>] = logSeq'[e]
      BY <3>1, <3>5, <3>6
    <3>8. QED BY <3>1, <3>3, <3>4, <3>7 DEF LogInv, SettledByRunner
  <2>4. QED BY <2>2, <2>3
<1>6. QED BY <1>1, <1>2, <1>3, <1>4, <1>5 DEF WorkerStep

(* Every step keeps the log of every run whole.                             *)
LEMMA LogStep ==
  ASSUME TypeOK, ClaimInv, RequestInv, TimelineInv, KeptInv,
         NEW e \in Exec, LogInv(e), [Next]_vars
  PROVE  LogInv(e)'
<1>t. /\ StoreTypeOK /\ RuntimeTypeOK /\ pc \in [Worker -> PC]
      /\ todo \subseteq Exec /\ reaping.exec \subseteq Exec
      /\ reaping.d \in ReaperDetail \cup {"none"} /\ reaping.text \in Nat
      /\ \A c \in Canceller : cancel[c].exec \subseteq Exec
      /\ \A f \in Exec : origin[f] \subseteq Exec
  BY DEF TypeOK, RuntimeTypeOK
<1>e. {"cancel_requested", "recovered_after_restart", "retry_requested", "retry_created"}
        \subseteq EventType \ ({"log"} \cup TerminalEvent)
  BY DEF EventType, TerminalEvent
<1>q. ASSUME LogQuiet(e), UNCHANGED kept,
             \/ UNCHANGED pc
             \/ \E w \in Worker, next \in PC \ Running : Goto(w, next)
      PROVE  LogInv(e)'
  <2>1. \A via \in Via : pc'[<<e, via>>] \in Running => pc'[<<e, via>>] = pc[<<e, via>>]
    BY <1>q, <1>t, WorkerParts DEF Goto
  <2>2. Emitting \subseteq Running
    BY DEF Emitting, Running
  <2>3. QED BY <1>q, <2>1, <2>2, LogKeeps DEF HasRunner
<1>u. UNCHANGED storeVars => LogQuiet(e)
  BY <1>t, QuietStores
<1>p. /\ "loading" \in PC \ Running /\ Submitting \cup {"done"} \subseteq PC \ Running
      /\ \A f \in Exec, via \in Via : <<f, via>> \in Worker
      /\ "api" \in Via /\ "recovery" \in Via
  BY WorkerParts DEF PC, Preparing, Running, Submitting
<1>1. CASE UNCHANGED vars
  BY <1>1, <1>q, <1>u DEF vars, workerVars
<1>2. ASSUME NEW w \in Worker,
             WorkerStep(w) \/ EmitChunk(w) \/ ChunkWriteFails(w) \/ StoreCallFails(w)
      PROVE  LogInv(e)'
  BY <1>2, <1>t, WorkerLog DEF TimelineInv
<1>3. CASE RecoveryStep \/ RecoveryFails
  <2>1. LogQuiet(e)
    <3>1. CASE ReapNote
      BY <1>e, <1>t, <3>1, QuietStores DEF ReapNote
    <3>2. CASE ReapFail
      <4>1. PICK f \in reaping.exec : MarkFailed(f, reaping.d, reaping.text)
        BY <3>2 DEF ReapFail
      <4>2. f \in Exec /\ reaping.d \in Detail \ RunnerDetail /\ reaping.text \in Nat
        BY <1>t, <4>1 DEF Detail, RunnerDetail, ReaperDetail
      <4>3. \E d \in Detail \ RunnerDetail, text \in Nat : MarkFailed(f, d, text)
        BY <4>1, <4>2
      <4>4. QED BY <1>t, <4>2, <4>3, QuietStores
    <3>3. CASE ~ReapNote /\ ~ReapFail
      BY <1>3, <1>u, <3>3 DEF RecoveryStep, RecoveryFails, ListRunning, ReapRead, ListQueued,
                              ReplayNext
    <3>4. QED BY <3>1, <3>2, <3>3
  <2>2. /\ UNCHANGED kept
        /\ UNCHANGED pc \/ \E f \in Exec : Goto(<<f, "recovery">>, "loading")
    BY <1>3, <1>t DEF RecoveryStep, RecoveryFails, ListRunning, ReapRead, ReapNote, ReapFail,
                      ListQueued, ReplayNext, workerVars
  <2>3. QED BY <1>p, <1>q, <2>1, <2>2
<1>4. ASSUME NEW f \in Exec,
             \/ Submit(f) \/ NoteRetryRequested(f) \/ NoteRetryCreated(f) \/ SubmissionFails(f)
             \/ \E source \in Exec : Retry(source, f)
      PROVE  LogInv(e)'
  <2>1. LogQuiet(e)
    <3>1. \/ UNCHANGED storeVars \/ CreateExecution(f)
          \/ \E g \in Exec, type \in {"retry_requested", "retry_created"} : AppendEvent(g, type)
      BY <1>4, <1>t DEF Submit, NoteRetryRequested, NoteRetryCreated, SubmissionFails, Retry
    <3>2. QED BY <1>e, <1>t, <3>1, QuietStores
  <2>2. UNCHANGED kept /\ \E next \in Submitting \cup {"done"} : Goto(<<f, "api">>, next)
    BY <1>4 DEF Submit, NoteRetryRequested, NoteRetryCreated, SubmissionFails, Retry,
                Submitting
  <2>3. QED BY <1>p, <1>q, <2>1, <2>2
<1>5. ASSUME NEW c \in Canceller,
             CancelStep(c) \/ CancelFails(c) \/ \E f \in Exec : CancelLoad(c, f)
      PROVE  LogInv(e)'
  <2>1. \/ UNCHANGED storeVars
        \/ \E f \in Exec : \/ MarkCancelled(f, "before_start")
                           \/ AppendEvent(f, "cancel_requested")
    BY <1>5, <1>t DEF CancelStep, CancelQueued, CancelReread, CancelNote, CancelSignal,
                CancelAcknowledged, CancelExpires, CancelFails, CancelLoad
  <2>2. LogQuiet(e)
    BY <1>e, <1>t, <2>1, QuietStores
  <2>3. UNCHANGED <<pc, kept>>
    BY <1>5 DEF CancelStep, CancelQueued, CancelReread, CancelNote, CancelSignal,
                CancelAcknowledged, CancelExpires, CancelFails, CancelLoad, workerVars
  <2>4. QED BY <1>q, <2>2, <2>3
<1>6. ASSUME NEW r \in Reader, StreamStep(r) \/ \E f \in Exec : StreamOpen(r, f)
      PROVE  LogInv(e)'
  BY <1>6, <1>q, <1>u DEF StreamStep, StreamPoll, StreamRead, StreamOpen, StreamGoto, workerVars
<1>7. CASE Crash
  <2>1. \A via \in Via : pc'[<<e, via>>] = "idle"
    BY <1>7, WorkerParts DEF Crash, RuntimeBoots
  <2>2. LogQuiet(e)
    BY <1>7, <1>u DEF Crash
  <2>3. QED BY <2>1, <2>2, LogKeeps DEF HasRunner, Running, Emitting
<1>8. QED
  BY <1>1, <1>2, <1>3, <1>4, <1>5, <1>6, <1>7 DEF Next, RuntimeStep, RequestStep

(* What is settled stays as it is; settled by its runner, it is logged in   *)
(* full.                                                                    *)
LEMMA SettledStays ==
  ASSUME TypeOK, ClaimInv, RequestInv, [Next]_vars, NEW e \in Exec, IsTerminal(e)
  PROVE  status'[e] = status[e] /\ detail'[e] = detail[e]
<1>1. StatusStep
  BY StepClaim
<1>2. QED
  BY <1>1 DEF StatusStep, Moves, IsTerminal, TerminalStatus, TypeOK, StoreTypeOK

(* The log of what nobody runs does not grow.                               *)
LEMMA LogStays ==
  ASSUME TypeOK, NEW e \in Exec, ~HasRunner(e), [Next]_vars
  PROVE  logSeq'[e] = logSeq[e] \/ status[e] = "absent"
<1>t. /\ logSeq \in [Exec -> Nat] /\ todo \subseteq Exec /\ reaping.exec \subseteq Exec
      /\ \A c \in Canceller : cancel[c].exec \subseteq Exec
      /\ \A w \in Worker : w[1] \in Exec /\ w[2] \in Via /\ w = <<w[1], w[2]>>
  BY WorkerParts DEF TypeOK, StoreTypeOK, RuntimeTypeOK
<1>1. UNCHANGED vars \/ Crash => UNCHANGED logSeq
  BY DEF vars, storeVars, Crash
<1>2. ASSUME NEW w \in Worker,
             WorkerStep(w) \/ EmitChunk(w) \/ ChunkWriteFails(w) \/ StoreCallFails(w)
      PROVE  logSeq'[e] = logSeq[e]
  <2>1. CASE EmitChunk(w)
    <3>1. w[1] # e
      BY <1>t, <2>1 DEF EmitChunk, HasRunner, Running
    <3>2. QED BY <1>t, <2>1, <3>1 DEF EmitChunk, AppendLogChunk
  <2>2. CASE ~EmitChunk(w)
    BY <1>2, <2>2
       DEF WorkerStep, Register, Load, CheckCancel, CancelBeforeStart, Start, LaunchProvider,
           ProviderDecides, ProviderRaises, ProviderReturnsNothing, ResolveAbnormal,
           Complete, Fail, AcknowledgeCancel, Release, ChunkWriteFails, StoreCallFails,
           storeVars, MarkStarted, MarkCompleted, MarkFailed, MarkCancelled, MoveStatus
  <2>3. QED BY <2>1, <2>2
<1>3. RecoveryStep \/ RecoveryFails => UNCHANGED logSeq
  BY DEF RecoveryStep, RecoveryFails, ListRunning, ReapRead, ReapNote, ReapFail, ListQueued,
         ReplayNext, storeVars, AppendEvent, MarkFailed
<1>4. ASSUME NEW f \in Exec,
             \/ Submit(f) \/ NoteRetryRequested(f) \/ NoteRetryCreated(f) \/ SubmissionFails(f)
             \/ \E source \in Exec : Retry(source, f)
      PROVE  logSeq'[e] = logSeq[e] \/ status[e] = "absent"
  BY <1>4, <1>t DEF Submit, NoteRetryRequested, NoteRetryCreated, SubmissionFails, Retry,
                    CreateExecution, AppendEvent, storeVars
<1>5. ASSUME NEW c \in Canceller,
             CancelStep(c) \/ CancelFails(c) \/ \E f \in Exec : CancelLoad(c, f)
      PROVE  UNCHANGED logSeq
  BY <1>5 DEF CancelStep, CancelQueued, CancelReread, CancelNote, CancelSignal,
              CancelAcknowledged, CancelExpires, CancelFails, CancelLoad, storeVars,
              AppendEvent, MarkCancelled
<1>6. ASSUME NEW r \in Reader, StreamStep(r) \/ \E f \in Exec : StreamOpen(r, f)
      PROVE  UNCHANGED logSeq
  BY <1>6 DEF StreamStep, StreamPoll, StreamRead, StreamOpen, StreamGoto, storeVars
<1>7. QED
  BY <1>1, <1>2, <1>3, <1>4, <1>5, <1>6 DEF Next, RuntimeStep, RequestStep

(* A reader that has seen the end keeps having seen it all.                 *)
LEMMA StreamStepKeeps ==
  ASSUME TypeOK, ClaimInv, RequestInv, \A e \in Exec : LogInv(e),
         NEW r \in Reader, StreamInv(r), [Next]_vars
  PROVE  StreamInv(r)'
<1>t. /\ stream[r].exec \subseteq Exec
      /\ stream \in [Reader -> [pc : StreamPC, exec : SUBSET Exec, seen : Nat, polled : Status]]
  BY DEF TypeOK
<1>s. ASSUME NEW e \in Exec, IsTerminal(e) PROVE IsTerminal(e)'
  BY <1>s, SettledStays DEF IsTerminal
<1>l. ASSUME NEW e \in Exec, IsTerminal(e), SettledByRunner(e)'
      PROVE  SettledByRunner(e) /\ logSeq'[e] = logSeq[e]
  <2>1. SettledByRunner(e)
    BY <1>l, SettledStays DEF IsTerminal, SettledByRunner
  <2>2. ~HasRunner(e) /\ status[e] # "absent"
    BY <1>l, <2>1 DEF LogInv, IsTerminal, TerminalStatus
  <2>3. QED BY <2>1, <2>2, LogStays
<1>q. ASSUME stream'[r] = stream[r] \/ stream'[r].pc = "lost"
      PROVE  StreamInv(r)'
  BY <1>q, <1>t, <1>s, <1>l DEF StreamInv
<1>1. ASSUME NEW q \in Reader, StreamStep(q) \/ \E e \in Exec : StreamOpen(q, e)
      PROVE  StreamInv(r)'
  <2>1. CASE q # r
    BY <1>1, <1>t, <1>q, <2>1 DEF StreamStep, StreamPoll, StreamRead, StreamOpen, StreamGoto
  <2>2. CASE q = r
    <3>1. CASE \E e \in Exec : StreamOpen(r, e)
      BY <1>t, <3>1 DEF StreamOpen, StreamGoto, StreamInv
    <3>2. CASE StreamPoll(r)
      BY <1>t, <3>2 DEF StreamPoll, StreamGoto, StreamInv, IsTerminal, storeVars
    <3>3. CASE StreamRead(r)
      <4>1. PICK e \in stream[r].exec :
              StreamGoto(r, AfterRead(stream[r].polled), {e}, logSeq[e], stream[r].polled)
        BY <3>3 DEF StreamRead
      <4>2. /\ stream'[r].pc = AfterRead(stream[r].polled) /\ stream'[r].exec = {e}
            /\ stream'[r].seen = logSeq[e] /\ UNCHANGED storeVars
        BY <1>t, <4>1 DEF StreamGoto
      <4>3. stream'[r].pc = "done" => IsTerminal(e)
        BY <1>t, <3>3, <4>1, <4>2 DEF StreamRead, AfterRead, StreamInv
      <4>4. stream'[r].pc # "reading"
        BY <4>2 DEF AfterRead
      <4>5. QED BY <4>2, <4>3, <4>4 DEF StreamInv, storeVars, IsTerminal
    <3>4. QED BY <1>1, <2>2, <3>1, <3>2, <3>3 DEF StreamStep
  <2>3. QED BY <2>1, <2>2
<1>2. CASE UNCHANGED stream
  BY <1>2, <1>q
<1>3. CASE Crash
  BY <1>3, <1>q DEF Crash
<1>4. ASSUME ~Crash, ~\E q \in Reader : StreamStep(q) \/ \E e \in Exec : StreamOpen(q, e)
      PROVE  UNCHANGED stream
  BY <1>4 DEF Next, RuntimeStep, RequestStep, Submit, NoteRetryRequested, NoteRetryCreated,
              SubmissionFails, Retry, CancelStep, CancelQueued, CancelReread, CancelNote,
              CancelSignal, CancelAcknowledged, CancelExpires, CancelFails, CancelLoad,
              CancelGoto, CancelReply, CancelSet, requestVars, vars
<1>5. QED BY <1>1, <1>2, <1>3, <1>4

(* At first there is no log.                                                *)
LEMMA LogInit ==
  Init => KeptInv /\ (\A e \in Exec : LogInv(e)) /\ \A r \in Reader : StreamInv(r)
<1> SUFFICES ASSUME Init PROVE KeptInv /\ (\A e \in Exec : LogInv(e)) /\ \A r \in Reader : StreamInv(r)
  OBVIOUS
<1>1. KeptInv
  BY WorkerParts DEF Init, StoreInit, RuntimeInit, RuntimeBoots, KeptInv
<1>2. \A e \in Exec : LogInv(e)
  BY WorkerParts
     DEF Init, StoreInit, RuntimeInit, LogInv, Emitting, SettledByRunner, IsTerminal,
         TerminalStatus
<1>3. \A r \in Reader : StreamInv(r)
  BY DEF Init, NoStream, StreamInv
<1>4. QED BY <1>1, <1>2, <1>3

(* A run's log is whole: every chunk is stored before the runner's last     *)
(* word, a completed row reports all of them, and a stream that said done   *)
(* has delivered them, whatever was written between its two reads.          *)
THEOREM LogsAreWhole == Spec => []LogIsWhole
<1>1. TypeOK /\ ClaimInv /\ RequestInv /\ KeptInv /\ [Next]_vars => KeptInv'
  BY KeptStep
<1>2. Spec => []KeptInv
  BY <1>1, LogInit, TypeCorrect, ClaimsInOrder, PTL DEF Spec
<1>3. TypeOK /\ ClaimInv /\ RequestInv /\ TimelineInv /\ KeptInv
        /\ (\A e \in Exec : LogInv(e)) /\ [Next]_vars => (\A e \in Exec : LogInv(e))'
  BY LogStep
<1>4. Spec => [](\A e \in Exec : LogInv(e))
  BY <1>2, <1>3, LogInit, TypeCorrect, ClaimsInOrder, TimelineInOrder, PTL DEF Spec
<1>5. TypeOK /\ ClaimInv /\ RequestInv /\ (\A e \in Exec : LogInv(e))
        /\ (\A r \in Reader : StreamInv(r)) /\ [Next]_vars => (\A r \in Reader : StreamInv(r))'
  BY StreamStepKeeps
<1>6. Spec => [](\A r \in Reader : StreamInv(r))
  BY <1>4, <1>5, LogInit, TypeCorrect, ClaimsInOrder, PTL DEF Spec
<1>7. (\A e \in Exec : LogInv(e)) /\ (\A r \in Reader : StreamInv(r)) => LogIsWhole
  BY DEF LogIsWhole, RunnerSettlesLast, CompletedOutputIsLog, StreamDeliversAll, LogInv,
         StreamInv
<1>8. QED BY <1>4, <1>6, <1>7, PTL

(* Every status change is one of the abstract lifecycle's.                  *)
THEOREM RefinesLifecycle == Spec => Lifecycle!Spec
<1>1. Init => Lifecycle!Init
  BY DEF Init, StoreInit, Lifecycle!Init
<1>2. TypeOK /\ ClaimInv /\ RequestInv /\ [Next]_vars => [Lifecycle!Next]_status
  <2> SUFFICES ASSUME TypeOK, ClaimInv, RequestInv, [Next]_vars, status' # status
               PROVE  Lifecycle!Next
    OBVIOUS
  <2>1. PICK e \in Exec, to \in Status :
          <<status[e], to>> \in Moves /\ status' = [status EXCEPT ![e] = to]
    BY StepClaim DEF StatusStep
  <2>2. Lifecycle!Accept(e) \/ Lifecycle!Start(e) \/ Lifecycle!Settle(e)
    BY <2>1 DEF Moves, Lifecycle!Accept, Lifecycle!Start, Lifecycle!Settle,
                Lifecycle!Complete, Lifecycle!Fail, Lifecycle!Cancel, Lifecycle!Move
  <2>3. QED BY <2>2 DEF Lifecycle!Next
<1>3. QED
  BY <1>1, <1>2, TypeCorrect, ClaimsInOrder, PTL DEF Spec, Lifecycle!Spec
=============================================================================
