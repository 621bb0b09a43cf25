---------------------------- MODULE Idempotency ------------------------------
(***************************************************************************)
(* Idempotency keys: the record of one (key, route, scope) in              *)
(* backend/services/idempotency_service.py and the requests that carry the *)
(* key through backend/application/chat.py (an SSE stream, produced in     *)
(* worker threads) or application/upload.py (one call on the event loop).  *)
(*                                                                         *)
(* claim, store_completed and release_pending are one transaction each.    *)
(* Claims of other keys touch this record only when they delete every      *)
(* expired record (Sweep).                                                 *)
(***************************************************************************)
EXTENDS Naturals, FiniteSets

CONSTANTS
  Request,      (* the requests that carry the key                          *)
  Payload,      (* what they may ask for, by request_hash                   *)
  TTL,          (* GOAT_IDEMPOTENCY_TTL_SEC, in ticks of the clock          *)
  StoreFaults,  (* whether storing or releasing may fail                    *)
  MaxCrashes    (* bound: crashes of the process                            *)

ASSUME IdempotencyAssumption ==
  TTL \in Nat \ {0} /\ StoreFaults \in BOOLEAN /\ MaxCrashes \in Nat

VARIABLES
  route,    (* "chat" or "upload"                                           *)
  row,      (* the record; left is the time until expires_at                *)
  pc,       (* what each request does next                                  *)
  payload,  (* the payload of the requests that arrived                     *)
  reply,    (* what each client was told, and whose response it was         *)
  written,  (* the requests whose turn, or document, was persisted          *)
  since,    (* the time since a request claimed, or stored its response     *)
  overran,  (* the requests that outlived their claim                       *)
  crashes

vars == <<route, row, pc, payload, reply, written, since, overran, crashes>>
clocks == <<since, overran>>

Absent == [state |-> "none", payload |-> {}, body |-> {}, left |-> 0]
NoReply == [code |-> "none", body |-> {}]

Executing == {"claimed", "streaming", "ending", "storing", "ingesting", "cut",
              "releasing"}
Closing == {"closing", "leaking"}
PC == {"idle", "leaked", "replied", "gone"} \cup Closing \cup Executing

Goto(r, next) == pc' = [pc EXCEPT ![r] = next]

Answer(r, code, body) ==
  /\ Goto(r, "replied")
  /\ reply' = [reply EXCEPT ![r] = [code |-> code, body |-> body]]

-----------------------------------------------------------------------------
(* The operations of the store.                                             *)

Live == row.state # "none" /\ row.left > 0

(* Mutation: the expiry of the claim is kept.                               *)
CompletedUnextended(r) ==
  IF row.payload = payload[r]
  THEN [row EXCEPT !.state = "completed", !.body = {r}] ELSE row

(* Mutation: UPDATE ... without request_hash in its WHERE.                  *)
CompletedAnyHash(r) ==
  IF row.state # "none"
  THEN [row EXCEPT !.state = "completed", !.body = {r}, !.left = TTL] ELSE row

(* store_completed matches the hash, not the status and not the claimer.    *)
Completed(r) ==
  IF row.payload = payload[r]
  THEN [row EXCEPT !.state = "completed", !.body = {r}, !.left = TTL] ELSE row

(* release_pending: any pending claim of the same payload goes.             *)
Released(r) ==
  IF row.state = "pending" /\ row.payload = payload[r] THEN Absent ELSE row

-----------------------------------------------------------------------------
(* A request arrives.  analyze_upload_json runs on the event loop from its  *)
(* claim to its reply, so that uploads of one process do not interleave.    *)

Arrive(r, p) ==
  /\ pc[r] = "idle"
  /\ route = "upload" => \A s \in Request : pc[s] \notin Executing
  /\ payload' = [payload EXCEPT ![r] = {p}]
  /\ UNCHANGED <<route, written, crashes>>

TakeClaim(r, p) ==
  /\ row' = [state |-> "pending", payload |-> {p}, body |-> {}, left |-> TTL]
  /\ Goto(r, "claimed")
  /\ since' = [since EXCEPT ![r] = 0]
  /\ UNCHANGED <<reply, overran>>

Claim(r, p) == Arrive(r, p) /\ ~Live /\ TakeClaim(r, p)

ClaimConflicts(r, p) ==
  /\ Arrive(r, p)
  /\ Live
  /\ row.payload # {p}
  /\ Answer(r, "conflict", {})
  /\ UNCHANGED <<row, clocks>>

ClaimReplays(r, p) ==
  /\ Arrive(r, p)
  /\ Live
  /\ row.payload = {p}
  /\ row.state = "completed"
  /\ Answer(r, "replay", row.body)
  /\ UNCHANGED <<row, clocks>>

(* Mutation: a pending record of the same payload is taken over.            *)
ClaimTakesOver(r, p) ==
  /\ Arrive(r, p)
  /\ Live
  /\ row.payload = {p}
  /\ row.state = "pending"
  /\ TakeClaim(r, p)

ClaimInProgress(r, p) ==
  /\ Arrive(r, p)
  /\ Live
  /\ row.payload = {p}
  /\ row.state = "pending"
  /\ Answer(r, "in_progress", {})
  /\ UNCHANGED <<row, clocks>>

-----------------------------------------------------------------------------
(* POST /api/chat.                                                          *)

Advance(r, from, to) ==
  /\ pc[r] = from
  /\ Goto(r, to)
  /\ UNCHANGED <<route, row, payload, reply, clocks, crashes>>

(* The response generator is first asked for a chunk.                       *)
StartStream(r) ==
  /\ route = "chat"
  /\ Advance(r, "claimed", "streaming")
  /\ UNCHANGED written

(* persist_and_log_chat_result, for an answer or a refusal; if it raises    *)
(* after the log entry, the stream ends in an error and done all the same.  *)
WriteTurn(r) ==
  /\ Advance(r, "streaming", "ending")
  /\ written' = written \cup {r}

(* The model fails or says nothing, or logging fails: an error, then done.  *)
FailTurn(r) == Advance(r, "streaming", "ending") /\ UNCHANGED written

(* The client took the done chunk and the generator is resumed.             *)
FinishStream(r) == Advance(r, "ending", "storing") /\ UNCHANGED written

(* Mutation: except Exception, which GeneratorExit is not.                  *)
DisconnectUnreleased(r) ==
  \/ Advance(r, "streaming", "closing") /\ UNCHANGED written
  \/ Advance(r, "ending", "gone") /\ UNCHANGED written

(* The client goes away and the generator is closed where it was suspended, *)
(* or the source stream raises.                                             *)
Disconnect(r) ==
  \/ Advance(r, "streaming", "cut") /\ UNCHANGED written
  \/ Advance(r, "ending", "releasing") /\ UNCHANGED written

(* A generator that never ran is dropped without a release.                 *)
DropUnstarted(r) ==
  /\ route = "chat"
  /\ Advance(r, "claimed", "leaked")
  /\ UNCHANGED written

(* Closing the source stream runs its finally clause, which may still log   *)
(* and persist the turn so far.                                             *)
CloseSource(r) ==
  /\ Advance(r, "closing", "gone") \/ Advance(r, "leaking", "leaked")
  /\ \/ written' = written
     \/ written' = written \cup {r}

-----------------------------------------------------------------------------
(* POST /api/upload/analyze.                                                *)

StartIngest(r) ==
  /\ route = "upload"
  /\ Advance(r, "claimed", "ingesting")
  /\ UNCHANGED written

Ingest(r) ==
  /\ Advance(r, "ingesting", "storing")
  /\ written' = written \cup {r}

(* KnowledgeValidationError, the only error that releases the claim.        *)
RejectUpload(r) == Advance(r, "ingesting", "releasing") /\ UNCHANGED written

IngestFails(r) == Advance(r, "ingesting", "leaked") /\ UNCHANGED written

-----------------------------------------------------------------------------
(* Both routes end by storing the response or by releasing the claim.       *)

Store(r) ==
  /\ pc[r] = "storing"
  /\ row' = Completed(r)
  /\ Answer(r, "ok", {r})
  /\ since' = [since EXCEPT ![r] = 0]
  /\ UNCHANGED <<route, payload, written, overran, crashes>>

StoreFails(r) ==
  /\ StoreFaults
  /\ Advance(r, "storing", "leaked")
  /\ UNCHANGED written

AfterRelease(r) == IF pc[r] = "cut" THEN "closing" ELSE "gone"

Release(r) ==
  /\ pc[r] \in {"cut", "releasing"}
  /\ row' = Released(r)
  /\ Goto(r, AfterRelease(r))
  /\ UNCHANGED <<route, payload, reply, written, clocks, crashes>>

(* A release that fails is logged and forgotten.                            *)
ReleaseFails(r) ==
  /\ StoreFaults
  /\ Advance(r, "cut", "leaking") \/ Advance(r, "releasing", "leaked")
  /\ UNCHANGED written

-----------------------------------------------------------------------------
(* Time passes, for the record and for the requests; ages stop at TTL.      *)
(* Mutation: the ages are not capped.                                       *)
OlderRunning(r) ==
  IF pc[r] = "idle" THEN since[r] ELSE since[r] + 1

Older(r) ==
  IF pc[r] = "idle" \/ since[r] = TTL THEN since[r] ELSE since[r] + 1

Tick ==
  /\ row' = [row EXCEPT !.left = IF @ = 0 THEN 0 ELSE @ - 1]
  /\ since' = [r \in Request |-> Older(r)]
  /\ overran' = overran \cup {r \in Request : pc[r] \in Executing /\ Older(r) = TTL}
  /\ UNCHANGED <<route, pc, payload, reply, written, crashes>>

(* The claim of another key deletes this record once it has expired.        *)
Sweep ==
  /\ row.state # "none"
  /\ row.left = 0
  /\ row' = Absent
  /\ UNCHANGED <<route, pc, payload, reply, written, clocks, crashes>>

(* The process dies: its requests are lost, the record stays.               *)
Crash ==
  /\ crashes < MaxCrashes
  /\ crashes' = crashes + 1
  /\ pc' = [r \in Request |->
       IF pc[r] \in Executing \cup {"leaking"} THEN "leaked"
       ELSE IF pc[r] = "closing" THEN "gone" ELSE pc[r]]
  /\ UNCHANGED <<route, row, payload, reply, written, clocks>>

RequestStep(r) ==
  \/ \E p \in Payload : \/ Claim(r, p) \/ ClaimConflicts(r, p)
                        \/ ClaimReplays(r, p) \/ ClaimInProgress(r, p)
  \/ StartStream(r) \/ WriteTurn(r) \/ FailTurn(r) \/ FinishStream(r)
  \/ Disconnect(r) \/ DropUnstarted(r) \/ CloseSource(r)
  \/ StartIngest(r) \/ Ingest(r) \/ RejectUpload(r) \/ IngestFails(r)
  \/ Store(r) \/ StoreFails(r) \/ Release(r) \/ ReleaseFails(r)

Next == (\E r \in Request : RequestStep(r)) \/ Tick \/ Sweep \/ Crash

Init ==
  /\ route \in {"chat", "upload"}
  /\ row = Absent
  /\ pc = [r \in Request |-> "idle"]
  /\ payload = [r \in Request |-> {}]
  /\ reply = [r \in Request |-> NoReply]
  /\ written = {}
  /\ since = [r \in Request |-> 0]
  /\ overran = {}
  /\ crashes = 0

Spec == Init /\ [][Next]_vars

-----------------------------------------------------------------------------
(***************************************************************************)
(* What an idempotency key promises, for as long as no request outlives    *)
(* its claim, and what the documentation promises of it.                   *)
(***************************************************************************)

TypeOK ==
  /\ route \in {"chat", "upload"}
  /\ row \in [state : {"none", "pending", "completed"}, payload : SUBSET Payload,
              body : SUBSET Request, left : 0 .. TTL]
  /\ pc \in [Request -> PC]
  /\ payload \in [Request -> SUBSET Payload]
  /\ reply \in [Request -> [code : {"none", "ok", "replay", "conflict", "in_progress"},
                            body : SUBSET Request]]
  /\ written \subseteq Request
  /\ since \in [Request -> 0 .. TTL]
  /\ overran \subseteq Request
  /\ crashes \in Nat

(* While no request has outlived its claim, only one of them executes,      *)
(* whatever disconnects, releases and crashes happen around it.             *)
OneAtATime ==
  overran = {} =>
    \A r, s \in Request : pc[r] \in Executing /\ pc[s] \in Executing => r = s

(* What a client is replayed is the complete response of a request with its *)
(* own payload, even when claims were outlived and taken again.             *)
ReplayIsOwn ==
  \A r \in Request : reply[r].code = "replay" =>
    \E s \in Request : /\ reply[r].body = {s}
                       /\ payload[s] = payload[r]
                       /\ reply[s].code = "ok"

(* While no request has outlived its claim, two requests with the key that  *)
(* both persisted their turn and answered are further apart than TTL.       *)
AnswersOncePerTTL ==
  overran = {} =>
    \A r, s \in written :
      /\ reply[r].code = "ok" /\ since[r] < TTL
      /\ reply[s].code = "ok" /\ since[s] < TTL
      => r = s

(* A key is never in progress for nobody: a live claim has a request that   *)
(* executes, unless one was dropped before its stream began, failed in      *)
(* ingestion or in the store, or died with the process.                     *)
PendingHasOwner ==
  Live /\ row.state = "pending" =>
    \E r \in Request : payload[r] = row.payload /\ pc[r] \in Executing \cup {"leaking", "leaked"}

(* docs/api/API_REFERENCE.md: a duplicate key with the same payload avoids  *)
(* duplicate session and conversation writes.                               *)
AvoidsDuplicateWrites ==
  overran = {} =>
    \A r, s \in written :
      payload[r] = payload[s] /\ since[r] < TTL /\ since[s] < TTL => r = s
=============================================================================
