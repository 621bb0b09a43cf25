----------------------------- MODULE StoresProofs -----------------------------
(***************************************************************************)
(* Machine-checked proofs about the stores the operators rely on: the      *)
(* idempotency keys, for any number of requests, payloads and crashes and  *)
(* every TTL; the transactions of the Postgres repositories; deployments;  *)
(* the jobs of the operators; and the move to Postgres.                    *)
(***************************************************************************)
EXTENDS StoresSystem, TLAPS, FiniteSetTheorems, SequenceTheorems

(* The strengthening.  While no request has outlived its claim, a request   *)
(* that executes still holds the record, and its age and the record's       *)
(* remaining time add up to TTL; the same holds of the record of a request  *)
(* that answered less than TTL ago.  Whoever has no answer has no reply.    *)

Holds(r) ==
  /\ row.state = "pending"
  /\ row.payload = payload[r]
  /\ row.left + since[r] = TTL
  /\ since[r] < TTL

Kept(r) ==
  /\ row.state = "completed"
  /\ row.body = {r}
  /\ row.left + since[r] = TTL

Unanswered == \A r \in Request : pc[r] # "replied" => reply[r].code = "none"

Timely ==
  overran = {} =>
    /\ \A r \in Request : pc[r] \in Executing => Holds(r)
    /\ \A r \in Request : reply[r].code = "ok" /\ since[r] < TTL => Kept(r)

CompletedIsOwn ==
  row.state = "completed" =>
    \E s \in Request : /\ row.body = {s}
                       /\ payload[s] = row.payload
                       /\ reply[s].code = "ok"

Owned == Executing \cup {"leaking", "leaked"}

PendingIsOwned ==
  row.state = "pending" =>
    \E r \in Request : payload[r] = row.payload /\ pc[r] \in Owned

(* A step of a request inside its handler: only its own place changes.      *)
Inside(r) ==
  /\ pc[r] \notin {"idle", "replied"}
  /\ \E q \in PC \ {"idle", "replied"} :
       /\ pc' = [pc EXCEPT ![r] = q]
       /\ q \in Executing => pc[r] \in Executing
       /\ pc[r] \in Owned => q \in Owned
  /\ UNCHANGED <<route, row, payload, reply, clocks, crashes>>

(* A request that is answered without executing.                            *)
TurnedAway(r, p) ==
  /\ Arrive(r, p)
  /\ \E code \in {"conflict", "replay", "in_progress"}, body \in SUBSET Request :
       /\ Answer(r, code, body)
       /\ code = "replay" =>
            row.payload = {p} /\ row.state = "completed" /\ body = row.body
  /\ UNCHANGED <<row, clocks>>

(* Every step of a request is one of five kinds.                            *)
LEMMA StepKinds ==
  ASSUME TypeOK, NEW r \in Request, RequestStep(r)
  PROVE  /\ written' \subseteq Request
         /\ \/ Inside(r)
            \/ \E p \in Payload : TurnedAway(r, p) \/ Claim(r, p)
            \/ Store(r)
            \/ Release(r)
<1> USE DEF TypeOK
<1>1. ASSUME NEW p \in Payload,
             ClaimConflicts(r, p) \/ ClaimReplays(r, p) \/ ClaimInProgress(r, p)
      PROVE  written' \subseteq Request /\ TurnedAway(r, p)
  <2>1. CASE ClaimConflicts(r, p)
    BY <2>1 DEF ClaimConflicts, TurnedAway, Arrive
  <2>2. CASE ClaimReplays(r, p)
    BY <2>2 DEF ClaimReplays, TurnedAway, Arrive
  <2>3. CASE ClaimInProgress(r, p)
    BY <2>3 DEF ClaimInProgress, TurnedAway, Arrive
  <2> QED BY <1>1, <2>1, <2>2, <2>3
<1>2. ASSUME NEW from \in PC \ {"idle", "replied"}, NEW to \in PC \ {"idle", "replied"},
             Advance(r, from, to),
             to \in Executing => from \in Executing,
             from \in Owned => to \in Owned
      PROVE  Inside(r)
  BY <1>2 DEF Advance, Inside, Goto
<1>3. CASE StartStream(r) \/ WriteTurn(r) \/ FailTurn(r) \/ FinishStream(r)
  BY <1>2, <1>3 DEF StartStream, WriteTurn, FailTurn, FinishStream, PC, Executing, Owned
<1>4. CASE Disconnect(r) \/ DropUnstarted(r) \/ CloseSource(r)
  BY <1>2, <1>4 DEF Disconnect, DropUnstarted, CloseSource, PC, Closing, Executing, Owned
<1>5. CASE StartIngest(r) \/ Ingest(r) \/ RejectUpload(r) \/ IngestFails(r)
  BY <1>2, <1>5 DEF StartIngest, Ingest, RejectUpload, IngestFails, PC, Executing, Owned
<1>6. CASE StoreFails(r) \/ ReleaseFails(r)
  BY <1>2, <1>6 DEF StoreFails, ReleaseFails, PC, Closing, Executing, Owned
<1>7. CASE Store(r) \/ Release(r) \/ \E p \in Payload : Claim(r, p)
  BY <1>7 DEF Store, Release, Claim, Arrive
<1> QED BY <1>1, <1>3, <1>4, <1>5, <1>6, <1>7 DEF RequestStep

-----------------------------------------------------------------------------
(* Types.                                                                   *)

LEMMA TypeStep == ASSUME TypeOK, [Next]_vars PROVE TypeOK'
<1> USE DEF TypeOK
<1>ttl. TTL \in Nat /\ TTL > 0
  BY IdempotencyAssumption DEF IdempotencyAssumption
<1>1. ASSUME NEW r \in Request, RequestStep(r) PROVE TypeOK'
  <2>1. written' \subseteq Request
    BY <1>1, StepKinds
  <2>2. CASE Inside(r)
    BY <2>1, <2>2 DEF Inside, clocks
  <2>3. ASSUME NEW p \in Payload, TurnedAway(r, p) PROVE TypeOK'
    <3>1. PICK code \in {"conflict", "replay", "in_progress"}, body \in SUBSET Request :
            Answer(r, code, body)
      BY <2>3 DEF TurnedAway
    <3>2. payload' \in [Request -> SUBSET Payload] /\ UNCHANGED <<route, crashes>>
      BY <2>3 DEF TurnedAway, Arrive
    <3>3. UNCHANGED <<row, since, overran>>
      BY <2>3 DEF TurnedAway, clocks
    <3>4. "replied" \in PC
      BY DEF PC
    <3> QED BY <2>1, <3>1, <3>2, <3>3, <3>4 DEF Answer, Goto
  <2>4. ASSUME NEW p \in Payload, Claim(r, p) PROVE TypeOK'
    BY <1>ttl, <2>1, <2>4 DEF Claim, Arrive, TakeClaim, Goto, PC, Executing
  <2>5. CASE Store(r)
    <3>1. row' \in [state : {"none", "pending", "completed"}, payload : SUBSET Payload,
                    body : SUBSET Request, left : 0 .. TTL]
      <4>1. {r} \in SUBSET Request /\ TTL \in 0 .. TTL
        BY <1>ttl
      <4>2. row' = row \/ row' = [row EXCEPT !.state = "completed", !.body = {r}, !.left = TTL]
        BY <2>5 DEF Store, Completed
      <4> QED BY <4>1, <4>2
    <3>2. pc' \in [Request -> PC] /\ since' \in [Request -> 0 .. TTL]
      BY <1>ttl, <2>5 DEF Store, Answer, Goto, PC
    <3>3. [code |-> "ok", body |-> {r}]
            \in [code : {"none", "ok", "replay", "conflict", "in_progress"},
                 body : SUBSET Request]
      OBVIOUS
    <3>4. reply' = [reply EXCEPT ![r] = [code |-> "ok", body |-> {r}]]
      BY <2>5 DEF Store, Answer
    <3>5. UNCHANGED <<route, payload, overran, crashes>>
      BY <2>5 DEF Store
    <3> QED BY <2>1, <3>1, <3>2, <3>3, <3>4, <3>5
  <2>6. CASE Release(r)
    BY <1>ttl, <2>1, <2>6 DEF Release, Released, Absent, AfterRelease, Goto, PC, Closing, clocks
  <2> QED BY <1>1, StepKinds, <2>2, <2>3, <2>4, <2>5, <2>6
<1>2. CASE Tick
  <2>1. \A r \in Request : Older(r) \in 0 .. TTL
    BY <1>ttl DEF Older
  <2>2. row' \in [state : {"none", "pending", "completed"}, payload : SUBSET Payload,
                  body : SUBSET Request, left : 0 .. TTL]
    <3> DEFINE later == IF row.left = 0 THEN 0 ELSE row.left - 1
    <3>a. \A x \in 0 .. TTL : (IF x = 0 THEN 0 ELSE x - 1) \in 0 .. TTL
      BY <1>ttl
    <3>1. row.left \in 0 .. TTL /\ later \in 0 .. TTL
      BY <3>a
    <3>2. row' = [row EXCEPT !.left = later]
      BY <1>2 DEF Tick
    <3> HIDE DEF later
    <3> QED BY <3>1, <3>2
  <2> QED BY <1>2, <2>1, <2>2 DEF Tick
<1>3. CASE Sweep
  BY <1>3, <1>ttl DEF Sweep, Absent, clocks
<1>4. CASE Crash
  BY <1>4 DEF Crash, PC, Executing, clocks
<1>5. CASE UNCHANGED vars
  BY <1>5 DEF vars
<1> QED BY <1>1, <1>2, <1>3, <1>4, <1>5 DEF Next

(* Records, replies and ages never leave their ranges.                      *)
THEOREM TypeCorrect == Spec => []TypeOK
<1>1. Init => TypeOK
  BY IdempotencyAssumption DEF IdempotencyAssumption, Init, TypeOK, Absent, NoReply, PC
<1> QED BY <1>1, TypeStep, PTL DEF Spec

-----------------------------------------------------------------------------
(* One request at a time.                                                   *)

LEMMA UnansweredStep == ASSUME TypeOK, Unanswered, [Next]_vars PROVE Unanswered'
<1> USE DEF TypeOK, Unanswered
<1>1. ASSUME NEW r \in Request, RequestStep(r) PROVE Unanswered'
  <2>1. CASE Inside(r)
    BY <2>1 DEF Inside
  <2>2. ASSUME NEW p \in Payload, TurnedAway(r, p) PROVE Unanswered'
    BY <2>2 DEF TurnedAway, Answer, Goto
  <2>3. ASSUME NEW p \in Payload, Claim(r, p) PROVE Unanswered'
    BY <2>3 DEF Claim, Arrive, TakeClaim, Goto
  <2>4. CASE Store(r)
    BY <2>4 DEF Store, Answer, Goto
  <2>5. CASE Release(r)
    BY <2>5 DEF Release, Goto
  <2> QED BY <1>1, StepKinds, <2>1, <2>2, <2>3, <2>4, <2>5
<1>2. CASE Tick \/ Sweep \/ UNCHANGED vars
  BY <1>2 DEF Tick, Sweep, vars
<1>3. CASE Crash
  BY <1>3 DEF Crash, Executing
<1> QED BY <1>1, <1>2, <1>3 DEF Next

(* A step of a request keeps the invariant of the claims: whoever executes  *)
(* holds the record, so that nobody else can claim, store or release it.    *)
LEMMA RequestTimely ==
  ASSUME TypeOK, Unanswered, OneAtATime, Timely, NEW r \in Request, RequestStep(r)
  PROVE  OneAtATime' /\ Timely'
<1> USE DEF TypeOK
<1>ttl. TTL \in Nat /\ TTL > 0
  BY IdempotencyAssumption DEF IdempotencyAssumption
<1>same. overran' = overran
  BY StepKinds DEF Inside, TurnedAway, Claim, TakeClaim, Store, Release, clocks
<1> SUFFICES ASSUME overran = {}
             PROVE  /\ \A s, t \in Request :
                         pc'[s] \in Executing /\ pc'[t] \in Executing => s = t
                    /\ \A s \in Request : pc'[s] \in Executing => Holds(s)'
                    /\ \A s \in Request : reply'[s].code = "ok" /\ since'[s] < TTL
                                          => Kept(s)'
  BY <1>same DEF OneAtATime, Timely
<1>one. \A s, t \in Request : pc[s] \in Executing /\ pc[t] \in Executing => s = t
  BY DEF OneAtATime
<1>holds. \A s \in Request : pc[s] \in Executing => Holds(s)
  BY DEF Timely
<1>kept. \A s \in Request : reply[s].code = "ok" /\ since[s] < TTL => Kept(s)
  BY DEF Timely
<1>idle. "idle" \notin Executing /\ "replied" \notin Executing
  BY DEF Executing
<1>1. CASE Inside(r)
  <2>1. UNCHANGED <<row, payload, reply, since>>
    BY <1>1 DEF Inside, clocks
  <2>2. \A s \in Request : pc'[s] \in Executing => pc[s] \in Executing
    BY <1>1 DEF Inside
  <2> QED BY <1>one, <1>holds, <1>kept, <2>1, <2>2 DEF Holds, Kept
<1>2. ASSUME NEW p \in Payload, TurnedAway(r, p)
      PROVE  /\ \A s, t \in Request :
                  pc'[s] \in Executing /\ pc'[t] \in Executing => s = t
             /\ \A s \in Request : pc'[s] \in Executing => Holds(s)'
             /\ \A s \in Request : reply'[s].code = "ok" /\ since'[s] < TTL
                                   => Kept(s)'
  <2>1. UNCHANGED <<row, since>>
    BY <1>2 DEF TurnedAway, clocks
  <2>2. \A s \in Request : pc'[s] \in Executing => s # r /\ pc[s] \in Executing
    BY <1>2, <1>idle DEF TurnedAway, Answer, Goto
  <2>3. \A s \in Request : s # r => payload'[s] = payload[s]
    BY <1>2 DEF TurnedAway, Arrive
  <2>4. \A s \in Request : reply'[s].code = "ok" => reply[s].code = "ok"
    BY <1>2 DEF TurnedAway, Answer
  <2> QED BY <1>one, <1>holds, <1>kept, <2>1, <2>2, <2>3, <2>4 DEF Holds, Kept
<1>3. ASSUME NEW p \in Payload, Claim(r, p)
      PROVE  /\ \A s, t \in Request :
                  pc'[s] \in Executing /\ pc'[t] \in Executing => s = t
             /\ \A s \in Request : pc'[s] \in Executing => Holds(s)'
             /\ \A s \in Request : reply'[s].code = "ok" /\ since'[s] < TTL
                                   => Kept(s)'
  <2>1. \A s \in Request : ~Holds(s) /\ ~(since[s] < TTL /\ Kept(s))
    BY <1>3, <1>ttl DEF Claim, Live, Holds, Kept
  <2>2. \A s \in Request : pc[s] \notin Executing
    BY <1>holds, <2>1
  <2>3. \A s \in Request : pc'[s] \in Executing => s = r
    BY <1>3, <2>2 DEF Claim, TakeClaim, Goto
  <2>4. Holds(r)'
    BY <1>3, <1>ttl DEF Claim, Arrive, TakeClaim, Holds
  <2>5. reply[r].code = "none" /\ reply' = reply
    BY <1>3 DEF Claim, Arrive, TakeClaim, Unanswered
  <2>6. \A s \in Request : s # r => since'[s] = since[s]
    BY <1>3 DEF Claim, TakeClaim
  <2>7. \A s \in Request : ~(reply'[s].code = "ok" /\ since'[s] < TTL)
    BY <1>kept, <2>1, <2>5, <2>6
  <2> QED BY <2>3, <2>4, <2>7
<1>4. CASE Store(r)
  <2>1. pc[r] \in Executing
    BY <1>4 DEF Store, Executing
  <2>2. Holds(r)
    BY <1>holds, <2>1
  <2>3. \A s \in Request : pc'[s] \notin Executing
    BY <1>4, <1>one, <1>idle, <2>1 DEF Store, Answer, Goto
  <2>4. row' = [row EXCEPT !.state = "completed", !.body = {r}, !.left = TTL]
    BY <1>4, <2>2 DEF Store, Completed, Holds
  <2>5. Kept(r)'
    <3>1. row'.state = "completed" /\ row'.body = {r} /\ row'.left = TTL
      BY <2>4
    <3>2. since'[r] = 0
      BY <1>4 DEF Store
    <3> QED BY <1>ttl, <3>1, <3>2 DEF Kept
  <2>6. \A s \in Request : s # r =>
          ~(reply'[s].code = "ok" /\ since'[s] < TTL)
    <3>1. \A s \in Request : s # r =>
            reply'[s] = reply[s] /\ since'[s] = since[s]
      BY <1>4 DEF Store, Answer
    <3> QED BY <1>kept, <2>2, <3>1 DEF Holds, Kept
  <2> QED BY <2>3, <2>5, <2>6
<1>5. CASE Release(r)
  <2>1. pc[r] \in Executing
    BY <1>5 DEF Release, Executing
  <2>2. Holds(r)
    BY <1>holds, <2>1
  <2>3. \A s \in Request : pc'[s] \notin Executing
    BY <1>5, <1>one, <2>1 DEF Release, AfterRelease, Goto, Executing
  <2>4. reply' = reply /\ since' = since
    BY <1>5 DEF Release, clocks
  <2>5. \A s \in Request : ~(reply[s].code = "ok" /\ since[s] < TTL)
    BY <1>kept, <2>2 DEF Holds, Kept
  <2> QED BY <2>3, <2>4, <2>5
<1> QED BY StepKinds, <1>1, <1>2, <1>3, <1>4, <1>5

(* While time passes, the record and its holder age together, and a holder  *)
(* that reaches TTL is marked as having outlived its claim.                 *)
LEMMA TickTimely ==
  ASSUME TypeOK, Unanswered, OneAtATime, Timely, Tick
  PROVE  OneAtATime' /\ Timely'
<1> USE DEF TypeOK
<1>ttl. TTL \in Nat /\ TTL > 0
  BY IdempotencyAssumption DEF IdempotencyAssumption
<1>1. pc' = pc /\ payload' = payload /\ reply' = reply /\ overran \subseteq overran'
  BY DEF Tick
<1>2. overran' = {} => overran = {}
  BY <1>1
<1>3. OneAtATime'
  BY <1>1, <1>2 DEF OneAtATime
<1>4. SUFFICES ASSUME overran' = {}
               PROVE  /\ \A r \in Request : pc[r] \in Executing => Holds(r)'
                      /\ \A r \in Request : reply[r].code = "ok" /\ since'[r] < TTL
                                            => Kept(r)'
  BY <1>1, <1>3 DEF Timely
<1>5. \A r \in Request : since'[r] = Older(r)
  BY DEF Tick
<1>6. \A r \in Request : pc[r] # "idle" /\ since'[r] # TTL =>
        since[r] < TTL /\ since'[r] = since[r] + 1
  <2> SUFFICES ASSUME NEW r \in Request, pc[r] # "idle", since'[r] # TTL
               PROVE  since[r] < TTL /\ since'[r] = since[r] + 1
    OBVIOUS
  <2>1. since[r] # TTL /\ since'[r] = since[r] + 1
    BY <1>5 DEF Older
  <2>2. since[r] \in 0 .. TTL
    OBVIOUS
  <2>3. \A x \in 0 .. TTL : x # TTL => x < TTL
    BY <1>ttl
  <2> QED BY <2>1, <2>2, <2>3
<1>7. row.left # 0 => row' = [row EXCEPT !.left = row.left - 1]
  BY DEF Tick
<1>8. ASSUME NEW r \in Request, pc[r] \in Executing PROVE Holds(r)'
  <2>1. Holds(r)
    BY <1>2, <1>4, <1>8 DEF Timely
  <2>2. Older(r) # TTL
    BY <1>4, <1>8 DEF Tick
  <2>3. since'[r] = since[r] + 1 /\ since'[r] < TTL
    <3>1. since'[r] = since[r] + 1 /\ since'[r] # TTL
      BY <1>5, <1>6, <1>8, <2>2 DEF Executing
    <3>2. since[r] \in 0 .. TTL /\ since[r] < TTL
      BY <2>1 DEF Holds
    <3> QED BY <1>ttl, <3>1, <3>2
  <2>4. row.left # 0 /\ row.left - 1 \in Nat
    BY <1>ttl, <2>1 DEF Holds
  <2>5. row'.state = row.state /\ row'.payload = row.payload /\ row'.left = row.left - 1
    BY <1>7, <2>4
  <2> QED BY <1>1, <1>ttl, <2>1, <2>3, <2>5 DEF Holds
<1>9. ASSUME NEW r \in Request, reply[r].code = "ok", since'[r] < TTL PROVE Kept(r)'
  <2>1. pc[r] = "replied"
    BY <1>9 DEF Unanswered
  <2>2. since[r] < TTL /\ since'[r] = since[r] + 1
    BY <1>6, <1>9, <1>ttl, <2>1
  <2>3. Kept(r)
    BY <1>2, <1>4, <1>9, <2>2 DEF Timely
  <2>4. row.left # 0
    BY <1>ttl, <2>2, <2>3 DEF Kept
  <2>5. row'.state = row.state /\ row'.body = row.body /\ row'.left = row.left - 1
    BY <1>7, <2>4
  <2> QED BY <1>ttl, <2>2, <2>3, <2>5 DEF Kept
<1> QED BY <1>8, <1>9

LEMMA TimelyStep ==
  ASSUME TypeOK, Unanswered, OneAtATime, Timely, [Next]_vars
  PROVE  OneAtATime' /\ Timely'
<1> USE DEF TypeOK
<1>1. CASE \E r \in Request : RequestStep(r)
  BY <1>1, RequestTimely
<1>2. CASE Tick
  BY <1>2, TickTimely
<1>3. CASE Sweep
  <2>1. UNCHANGED <<pc, payload, reply, since, overran>> /\ row.left = 0
    BY <1>3 DEF Sweep, clocks
  <2>2. \A r \in Request : ~Holds(r) /\ ~(since[r] < TTL /\ Kept(r))
    BY <2>1, IdempotencyAssumption DEF IdempotencyAssumption, Holds, Kept
  <2> QED BY <2>1, <2>2 DEF OneAtATime, Timely
<1>4. CASE Crash
  <2>1. UNCHANGED <<row, reply, since, overran>>
    BY <1>4 DEF Crash, clocks
  <2>2. \A r \in Request : pc'[r] \notin Executing
    BY <1>4 DEF Crash, Executing
  <2> QED BY <2>1, <2>2 DEF OneAtATime, Timely, Kept
<1>5. CASE UNCHANGED vars
  BY <1>5 DEF vars, OneAtATime, Timely, Holds, Kept
<1> QED BY <1>1, <1>2, <1>3, <1>4, <1>5 DEF Next

(* The inductive invariant of the claims.                                   *)
THEOREM ClaimsAreHeld == Spec => [](Unanswered /\ OneAtATime /\ Timely)
<1>1. Init => Unanswered /\ OneAtATime /\ Timely
  <2> SUFFICES ASSUME Init PROVE Unanswered /\ OneAtATime /\ Timely
    OBVIOUS
  <2>1. \A r \in Request : pc[r] \notin Executing /\ reply[r].code = "none"
    BY DEF Init, NoReply, Executing
  <2> QED BY <2>1 DEF Unanswered, OneAtATime, Timely
<1>2. TypeOK /\ Unanswered /\ OneAtATime /\ Timely /\ [Next]_vars
      => (Unanswered /\ OneAtATime /\ Timely)'
  BY UnansweredStep, TimelyStep
<1> QED BY <1>1, <1>2, TypeCorrect, PTL DEF Spec

(* Requests with one key execute one at a time, until one outlives its      *)
(* claim.                                                                   *)
THEOREM ExecutesAlone == Spec => []OneAtATime
BY ClaimsAreHeld, PTL

(* Of the requests that persisted their turn and answered, no two did so    *)
(* within TTL of each other, until one outlives its claim.                  *)
THEOREM AnsweredOnce == Spec => []AnswersOncePerTTL
<1>1. TypeOK /\ Timely => AnswersOncePerTTL
  <2> SUFFICES ASSUME TypeOK, Timely, overran = {}, NEW r \in Request, NEW s \in Request,
                      reply[r].code = "ok", since[r] < TTL,
                      reply[s].code = "ok", since[s] < TTL
               PROVE  r = s
    BY DEF TypeOK, AnswersOncePerTTL
  <2>1. Kept(r) /\ Kept(s)
    BY DEF Timely
  <2> QED BY <2>1 DEF Kept
<1> QED BY <1>1, TypeCorrect, ClaimsAreHeld, PTL

-----------------------------------------------------------------------------
(* What is replayed.                                                        *)

(* A reply, and the payload it answers, stay.                               *)
LEMMA RepliesStay ==
  ASSUME TypeOK, Unanswered, [Next]_vars
  PROVE  \A s \in Request : reply[s].code = "ok" =>
           reply'[s] = reply[s] /\ payload'[s] = payload[s]
<1> USE DEF TypeOK
<1>0. \A s \in Request : reply[s].code = "ok" => pc[s] = "replied"
  BY DEF Unanswered
<1>1. ASSUME NEW r \in Request, RequestStep(r)
      PROVE  /\ \A s \in Request \ {r} : reply'[s] = reply[s] /\ payload'[s] = payload[s]
             /\ pc[r] # "replied"
  <2>1. CASE Inside(r)
    BY <2>1 DEF Inside
  <2>2. ASSUME NEW p \in Payload, TurnedAway(r, p) \/ Claim(r, p)
        PROVE  /\ \A s \in Request \ {r} : reply'[s] = reply[s] /\ payload'[s] = payload[s]
               /\ pc[r] # "replied"
    BY <2>2 DEF TurnedAway, Claim, Arrive, TakeClaim, Answer
  <2>3. CASE Store(r) \/ Release(r)
    BY <2>3 DEF Store, Release, Answer
  <2> QED BY <1>1, StepKinds, <2>1, <2>2, <2>3
<1>2. CASE Tick \/ Sweep \/ Crash \/ UNCHANGED vars
  BY <1>2 DEF Tick, Sweep, Crash, vars
<1> QED BY <1>0, <1>1, <1>2 DEF Next

LEMMA ReplayStep ==
  ASSUME TypeOK, Unanswered, CompletedIsOwn, ReplayIsOwn, [Next]_vars
  PROVE  CompletedIsOwn' /\ ReplayIsOwn'
<1> USE DEF TypeOK
<1>stay. \A s \in Request : reply[s].code = "ok" =>
           reply'[s] = reply[s] /\ payload'[s] = payload[s]
  BY RepliesStay
<1>row. CASE /\ row'.state = "completed" =>
                  /\ row.state = "completed"
                  /\ row'.body = row.body /\ row'.payload = row.payload
             /\ \A r \in Request : reply'[r].code = "replay" =>
                  reply'[r] = reply[r] /\ payload'[r] = payload[r]
  <2>1. CompletedIsOwn'
    BY <1>stay, <1>row DEF CompletedIsOwn
  <2>2. ReplayIsOwn'
    BY <1>stay, <1>row DEF ReplayIsOwn
  <2> QED BY <2>1, <2>2
<1>1. ASSUME NEW r \in Request, RequestStep(r) PROVE CompletedIsOwn' /\ ReplayIsOwn'
  <2>1. CASE Inside(r)
    BY <2>1, <1>row DEF Inside
  <2>2. ASSUME NEW p \in Payload, TurnedAway(r, p) PROVE CompletedIsOwn' /\ ReplayIsOwn'
    <3>1. row' = row
      BY <2>2 DEF TurnedAway
    <3>2. CompletedIsOwn'
      BY <1>stay, <3>1 DEF CompletedIsOwn
    <3>3. \A s \in Request \ {r} : reply'[s] = reply[s] /\ payload'[s] = payload[s]
      BY <2>2 DEF TurnedAway, Arrive, Answer
    <3>4. PICK code \in {"conflict", "replay", "in_progress"}, body \in SUBSET Request :
            /\ Answer(r, code, body)
            /\ code = "replay" =>
                 row.payload = {p} /\ row.state = "completed" /\ body = row.body
      BY <2>2 DEF TurnedAway
    <3>5. reply'[r].code = "replay" =>
            /\ row.payload = payload'[r]
            /\ row.state = "completed"
            /\ reply'[r].body = row.body
      BY <2>2, <3>4 DEF TurnedAway, Arrive, Answer
    <3>6. ASSUME NEW t \in Request, reply'[t].code = "replay"
          PROVE  \E s \in Request : /\ reply'[t].body = {s}
                                    /\ payload'[s] = payload'[t]
                                    /\ reply'[s].code = "ok"
      <4>1. CASE t = r
        BY <1>stay, <3>5, <3>6, <4>1 DEF CompletedIsOwn
      <4>2. CASE t # r
        <5>1. reply'[t] = reply[t] /\ payload'[t] = payload[t] /\ reply[t].code = "replay"
          BY <3>3, <3>6, <4>2
        <5>2. PICK s \in Request :
                 reply[t].body = {s} /\ payload[s] = payload[t] /\ reply[s].code = "ok"
          BY <5>1 DEF ReplayIsOwn
        <5> QED BY <1>stay, <5>1, <5>2
      <4> QED BY <4>1, <4>2
    <3> QED BY <3>2, <3>6 DEF ReplayIsOwn
  <2>3. ASSUME NEW p \in Payload, Claim(r, p) PROVE CompletedIsOwn' /\ ReplayIsOwn'
    <3>1. row'.state = "pending" /\ reply' = reply
      BY <2>3 DEF Claim, TakeClaim
    <3>2. reply[r].code = "none" /\ \A s \in Request \ {r} : payload'[s] = payload[s]
      BY <2>3 DEF Claim, Arrive, Unanswered
    <3> QED BY <1>row, <3>1, <3>2
  <2>4. CASE Store(r)
    <3>1. /\ payload' = payload
          /\ reply'[r] = [code |-> "ok", body |-> {r}]
          /\ \A s \in Request \ {r} : reply'[s] = reply[s]
      BY <2>4 DEF Store, Answer
    <3>2. ReplayIsOwn'
      <4>1. ASSUME NEW t \in Request, reply'[t].code = "replay"
            PROVE  \E s \in Request : /\ reply'[t].body = {s}
                                      /\ payload'[s] = payload'[t]
                                      /\ reply'[s].code = "ok"
        <5>1. reply'[t] = reply[t]
          BY <3>1, <4>1
        <5>2. PICK s \in Request : /\ reply[t].body = {s}
                                   /\ payload[s] = payload[t]
                                   /\ reply[s].code = "ok"
          BY <4>1, <5>1 DEF ReplayIsOwn
        <5> QED BY <1>stay, <3>1, <5>1, <5>2
      <4> QED BY <4>1 DEF ReplayIsOwn
    <3>3. CASE row.payload = payload[r]
      <4>1. row'.body = {r} /\ row'.payload = row.payload
        BY <2>4, <3>3 DEF Store, Completed
      <4> QED BY <3>1, <3>2, <3>3, <4>1 DEF CompletedIsOwn
    <3>4. CASE row.payload # payload[r]
      <4>1. row' = row
        BY <2>4, <3>4 DEF Store, Completed
      <4> QED BY <1>stay, <3>2, <4>1 DEF CompletedIsOwn
    <3> QED BY <3>3, <3>4
  <2>5. CASE Release(r)
    <3>1. row' = row \/ row'.state = "none"
      BY <2>5 DEF Release, Released, Absent
    <3> QED BY <1>row, <2>5, <3>1 DEF Release
  <2> QED BY <1>1, StepKinds, <2>1, <2>2, <2>3, <2>4, <2>5
<1>2. CASE Tick
  <2>1. row'.state = row.state /\ row'.body = row.body /\ row'.payload = row.payload
    BY <1>2 DEF Tick
  <2> QED BY <1>2, <1>row, <2>1 DEF Tick
<1>3. CASE Sweep
  BY <1>3, <1>row DEF Sweep, Absent
<1>4. CASE Crash \/ UNCHANGED vars
  BY <1>4, <1>row DEF Crash, vars
<1> QED BY <1>1, <1>2, <1>3, <1>4 DEF Next

(* A replay is the complete response of a request with the same payload,    *)
(* even after claims were outlived, taken again and stored into twice.      *)
THEOREM ReplaysAreOwn == Spec => []ReplayIsOwn
<1>1. Init => CompletedIsOwn /\ ReplayIsOwn
  BY DEF Init, CompletedIsOwn, ReplayIsOwn, Absent, NoReply
<1>2. TypeOK /\ Unanswered /\ CompletedIsOwn /\ ReplayIsOwn /\ [Next]_vars
      => (CompletedIsOwn /\ ReplayIsOwn)'
  BY ReplayStep
<1> QED BY <1>1, <1>2, TypeCorrect, ClaimsAreHeld, PTL DEF Spec

-----------------------------------------------------------------------------
(* What is in progress.                                                     *)

LEMMA OwnedStep == ASSUME TypeOK, PendingIsOwned, [Next]_vars PROVE PendingIsOwned'
<1> USE DEF TypeOK
<1>1. ASSUME NEW r \in Request, RequestStep(r) PROVE PendingIsOwned'
  <2>1. CASE Inside(r)
    <3>1. row' = row /\ payload' = payload /\ \A s \in Request : pc[s] \in Owned => pc'[s] \in Owned
      BY <2>1 DEF Inside
    <3> QED BY <3>1 DEF PendingIsOwned
  <2>2. ASSUME NEW p \in Payload, TurnedAway(r, p) PROVE PendingIsOwned'
    <3>1. row' = row /\ \A s \in Request : pc[s] \in Owned =>
            pc'[s] = pc[s] /\ payload'[s] = payload[s]
      BY <2>2 DEF TurnedAway, Arrive, Answer, Goto, Owned, Executing
    <3> QED BY <3>1 DEF PendingIsOwned
  <2>3. ASSUME NEW p \in Payload, Claim(r, p) PROVE PendingIsOwned'
    <3>1. row'.payload = payload'[r] /\ pc'[r] \in Owned
      BY <2>3 DEF Claim, Arrive, TakeClaim, Goto, Owned, Executing
    <3> QED BY <3>1 DEF PendingIsOwned
  <2>4. CASE Store(r) \/ Release(r)
    <3>1. /\ row.payload = payload[r] => row'.state # "pending"
          /\ row.payload # payload[r] => row' = row
      <4>1. CASE Store(r)
        BY <4>1 DEF Store, Completed
      <4>2. CASE Release(r)
        BY <4>2 DEF Release, Released, Absent
      <4> QED BY <2>4, <4>1, <4>2
    <3>2. payload' = payload /\ \A s \in Request \ {r} : pc'[s] = pc[s]
      BY <2>4 DEF Store, Release, Answer, Goto
    <3> QED BY <3>1, <3>2 DEF PendingIsOwned
  <2> QED BY <1>1, StepKinds, <2>1, <2>2, <2>3, <2>4
<1>2. CASE Tick
  <2>1. row'.state = row.state /\ row'.payload = row.payload /\ payload' = payload /\ pc' = pc
    BY <1>2 DEF Tick
  <2> QED BY <2>1 DEF PendingIsOwned
<1>3. CASE Sweep
  BY <1>3 DEF Sweep, Absent, PendingIsOwned
<1>4. CASE Crash
  <2>1. row' = row /\ payload' = payload /\ \A s \in Request : pc[s] \in Owned => pc'[s] \in Owned
    BY <1>4 DEF Crash, Owned
  <2> QED BY <2>1 DEF PendingIsOwned
<1>5. CASE UNCHANGED vars
  BY <1>5 DEF vars, PendingIsOwned
<1> QED BY <1>1, <1>2, <1>3, <1>4, <1>5 DEF Next

(* A live claim has somebody who executes, or who was lost in one of the    *)
(* ways the code does not release.                                          *)
THEOREM ClaimsHaveOwners == Spec => []PendingHasOwner
<1>1. Init => PendingIsOwned
  BY DEF Init, PendingIsOwned, Absent
<1>2. TypeOK /\ PendingIsOwned /\ [Next]_vars => PendingIsOwned'
  BY OwnedStep
<1>3. PendingIsOwned => PendingHasOwner
  BY DEF PendingIsOwned, PendingHasOwner, Owned
<1> QED BY <1>1, <1>2, <1>3, TypeCorrect, PTL DEF Spec

(***************************************************************************)
(* KeysAreFollowed.  A behaviour of StoresSystem is one of the idempotency *)
(* keys alone, so that all that is proved of those holds in it.            *)
(***************************************************************************)
THEOREM KeysAreFollowed == StoresSpec => Spec
<1>1. StoresInit => Init
  BY DEF StoresInit
<1>2. [StoresNext]_storesVars => [Next]_vars
  BY DEF StoresNext, InPostgres, InDeployment, InMaintenance, InPurge, InCutover, storesVars, vars
<1> QED BY <1>1, <1>2, PTL DEF StoresSpec, Spec

-----------------------------------------------------------------------------
(***************************************************************************)
(* The transactions of the Postgres repositories.                          *)
(***************************************************************************)
LEMMA OthersLeaveTheJobsAlone ==
  StoresNext => PostgresStep \/ UNCHANGED postgresVars
BY DEF StoresNext, InKeys, InPostgres, InDeployment, InMaintenance, InPurge, InCutover

\* COALESCE(MAX(seq), 0) + 1 of numbers without a gap is the next of them.
LEMMA NextOfAll ==
  ASSUME NEW n \in Nat
  PROVE  NextSequence(1..n) = n + 1
<1> DEFINE used == 1..n
           Highest(m) == \A k \in used : k <= m
<1>1. n \in used \union {0} /\ Highest(n)
  OBVIOUS
<1>2. \A m \in used \union {0} : Highest(m) => m = n
  <2>1. SUFFICES ASSUME NEW m \in used \union {0}, Highest(m) PROVE m = n
    OBVIOUS
  <2>2. CASE n = 0
    BY <2>1, <2>2
  <2>3. CASE n # 0
    <3>1. n \in used
      BY <2>3
    <3>2. n <= m /\ m <= n /\ m \in Nat
      BY <2>1, <3>1
    <3> QED BY <3>2
  <2> QED BY <2>2, <2>3
<1> DEFINE top == CHOOSE m \in used \union {0} : Highest(m)
<1>4. NextSequence(used) = 1 + top
  BY DEF NextSequence
<1>3. top = n
  <2> HIDE DEF Highest, used
  <2> QED BY <1>1, <1>2
<1> HIDE DEF top
<1> QED BY <1>3, <1>4

-----------------------------------------------------------------------------
Columns == {"status", "detail", "output", "logSeq", "kind"}

RowOk(r) ==
  /\ r = [column \in Columns |-> r[column]] /\ r.logSeq \in Nat
  /\ r # NoRow => r.status # "absent"

CallOk(call) ==
  /\ call.job \in Job
  /\ call.op \in {"insert", "update", "log", "output", "event"}
  /\ call.op \in {"insert", "update"} =>
       /\ "status" \in DOMAIN call.set /\ call.set["status"] # "absent"
       /\ "logSeq" \notin DOMAIN call.set

IsOpen(k) == k.pc \in Open

\* Who has locked the record, and who shares it, of the connections k.
Holding(k) ==
  \/ k.pc \in {"inserting", "committing"}
  \/ k.pc = "numbering" /\ k.call.op \in {"insert", "update", "log"}
  \/ k.pc = "writing" /\ k.call.op \in {"update", "log"}

Sharing(k) == k.pc = "numbering" /\ k.call.op = "output"

\* What a transaction has made of the record it will commit.
Changed(k) ==
  k.pc \in {"numbering", "inserting", "committing"} /\ k.call.op \in {"insert", "update", "log"}

NewOk(k, rec) ==
  LET old == rec[k.call.job] IN
  /\ RowOk(k.new) /\ k.new # NoRow
  /\ k.new.logSeq = IF k.call.op = "log" THEN old.logSeq + 1 ELSE old.logSeq

ConnOk(k, rec, evs) ==
  /\ k = [pc |-> k.pc, call |-> k.call, new |-> k.new, seq |-> k.seq]
  /\ k.pc \in Open \union {"idle", "closed"}
  /\ ~IsOpen(k) => k.call = NoCall.call
  /\ IsOpen(k) => CallOk(k.call) /\ (k.call.op = "insert" <=> rec[k.call.job] = NoRow)
  /\ k.pc = "locking" => k.call.op \in {"update", "log"}
  /\ k.pc = "writing" => k.call.op # "event"
  /\ Changed(k) => NewOk(k, rec)
  /\ k.pc \in {"inserting", "committing"} => k.seq = Cardinality(evs[k.call.job]) + 1

\* Two transactions on one job: one of them inserts it or adds its output, and
\* who has locked the record is alone with it.
Apart(k, l) ==
  IsOpen(k) /\ IsOpen(l) /\ k.call.job = l.call.job =>
    /\ ~(k.call.op = l.call.op /\ k.call.op \in {"insert", "output"})
    /\ ~(Holding(k) /\ (Holding(l) \/ Sharing(l)))
    /\ ~(Holding(l) /\ (Holding(k) \/ Sharing(k)))

JobOk(j, rec, evs, lgs) ==
  /\ RowOk(rec[j])
  /\ IsFiniteSet(evs[j]) /\ {event.seq : event \in evs[j]} = 1..Cardinality(evs[j])
  /\ lgs[j] = 1..rec[j].logSeq

PostgresInv ==
  /\ DOMAIN record = Job /\ DOMAIN events = Job /\ DOMAIN logs = Job
  /\ DOMAIN conn = Connection
  /\ \A j \in Job : JobOk(j, record, events, logs)
  /\ \A c \in Connection : ConnOk(conn[c], record, events)
  /\ \A c \in Connection : \A d \in Connection \ {c} : Apart(conn[c], conn[d])

LEMMA PostgresInvInit == PostgresInit => PostgresInv
<1> SUFFICES ASSUME PostgresInit PROVE PostgresInv
  OBVIOUS
<1>1. PICK past \in [Job -> Histories] :
        /\ record = [j \in Job |-> [NoRow EXCEPT !.status = StatusAfter(past[j]),
                        !.kind = IF j \in Task /\ past[j] # <<>> THEN "canvas" ELSE @]]
        /\ events = [j \in Job |->
                {[seq |-> n, type |-> past[j][n]] : n \in DOMAIN past[j]}]
  BY DEF PostgresInit
<1>2. ASSUME NEW j \in Job
      PROVE  JobOk(j, record, events, logs)
  <2>1. past[j] \in Histories
    OBVIOUS
  <2>2. RowOk(record[j]) /\ record[j].logSeq = 0
    <3>1. StatusAfter(past[j]) = "absent" => past[j] = <<>>
      BY <2>1 DEF Histories, StatusAfter
    <3> QED BY <1>1, <3>1 DEF RowOk, NoRow, Columns
  <2>3. logs[j] = {} /\ 1..0 = {}
    <3>1. logs = [i \in Job |-> {}]
      BY DEF PostgresInit
    <3> QED BY <3>1
  <2>5. events[j] = {[seq |-> n, type |-> past[j][n]] : n \in DOMAIN past[j]}
    BY <1>1
  <2>4. IsFiniteSet(events[j]) /\ {event.seq : event \in events[j]} = 1..Cardinality(events[j])
    <3>1. CASE past[j] = <<>>
      <4>0. DOMAIN past[j] = {}
        BY <3>1
      <4>1. events[j] = {}
        BY <2>5, <4>0
      <4>2. Cardinality({}) = 0 /\ IsFiniteSet({}) /\ 1..0 = {}
        BY FS_EmptySet
      <4> QED BY <4>1, <4>2
    <3>2. CASE past[j] = <<"queued">>
      <4>0. DOMAIN past[j] = {1} /\ past[j][1] = "queued"
        BY <3>2
      <4>1. events[j] = {[seq |-> 1, type |-> "queued"]}
        BY <2>5, <4>0
      <4>2. Cardinality(events[j]) = 1 /\ IsFiniteSet(events[j]) /\ 1..1 = {1}
        <5>1. 1..1 = {1}
          OBVIOUS
        <5>2. \A x : Cardinality({x}) = 1 /\ IsFiniteSet({x})
          BY FS_Singleton
        <5> QED BY <4>1, <5>1, <5>2
      <4> QED BY <4>1, <4>2
    <3>3. CASE past[j] = <<"queued", "started">>
      <4> DEFINE first == [seq |-> 1, type |-> "queued"]
                 second == [seq |-> 2, type |-> "started"]
      <4>0. DOMAIN past[j] = {1, 2} /\ past[j][1] = "queued" /\ past[j][2] = "started"
        BY <3>3
      <4>1. events[j] = {first} \union {second}
        BY <2>5, <4>0
      <4>2. IsFiniteSet({first}) /\ Cardinality({first}) = 1 /\ second \notin {first}
        BY FS_Singleton
      <4>5. IsFiniteSet({first} \union {second}) /\ Cardinality({first} \union {second}) = 1 + 1
        <5> HIDE DEF first, second
        <5> QED BY <4>2, FS_AddElement
      <4>3. IsFiniteSet(events[j]) /\ Cardinality(events[j]) = 2
        BY <4>1, <4>5
      <4>4. {event.seq : event \in events[j]} = {1, 2} /\ 1..2 = {1, 2}
        BY <4>1
      <4> QED BY <4>3, <4>4
    <3> QED BY <2>1, <3>1, <3>2, <3>3 DEF Histories
  <2> QED BY <2>2, <2>3, <2>4 DEF JobOk
<1>3. \A c \in Connection : ConnOk(conn[c], record, events) /\ ~IsOpen(conn[c])
  BY DEF PostgresInit, NoCall, ConnOk, IsOpen, Open, Changed
<1> QED BY <1>1, <1>2, <1>3 DEF PostgresInv, Apart, PostgresInit

\* A connection moves and nothing is committed.
LEMMA ConnectionMoves ==
  ASSUME PostgresInv, NEW c \in Connection, NEW k,
         conn' = [conn EXCEPT ![c] = k], UNCHANGED <<record, events, logs>>,
         ConnOk(k, record, events), \A d \in Connection \ {c} : Apart(k, conn[d])
  PROVE  PostgresInv'
<1>1. DOMAIN conn' = Connection /\ conn'[c] = k /\ \A d \in Connection \ {c} : conn'[d] = conn[d]
  BY DEF PostgresInv
<1>2. \A b \in Connection : ConnOk(conn[b], record, events)'
  BY <1>1 DEF PostgresInv
<1>3. \A b \in Connection : \A d \in Connection \ {b} : Apart(conn[b], conn[d])'
  <2>1. SUFFICES ASSUME NEW b \in Connection, NEW d \in Connection \ {b}
                 PROVE  Apart(conn'[b], conn'[d])
    OBVIOUS
  <2>2. CASE b = c
    BY <2>2, <1>1
  <2>3. CASE d = c
    <3>1. Apart(k, conn[b])
      BY <2>3
    <3> QED BY <3>1, <1>1, <2>3, <2>1 DEF Apart
  <2>4. CASE b # c /\ d # c
    BY <2>4, <1>1 DEF PostgresInv
  <2> QED BY <2>2, <2>3, <2>4
<1> QED BY <1>1, <1>2, <1>3 DEF PostgresInv

LEMMA CallsAreOk == ASSUME NEW call \in Calls
                    PROVE  CallOk(call)
<1>1. CASE \E e \in Exec : call \in ExecutionCalls(e)
  <2>1. PICK e \in Exec : call \in ExecutionCalls(e)
    BY <1>1
  <2>2. e \in Job
    BY DEF Job
  <2> QED BY <2>1, <2>2 DEF ExecutionCalls, CallOk, CreateExecution, StartExecution, CompleteExecution,
            FailExecution, CancelExecution, AppendLogChunk, AppendExecutionEvent, Insert, Update, Plain
<1>2. CASE \E t \in Task : call \in TaskCalls(t)
  <2>1. PICK t \in Task : call \in TaskCalls(t)
    BY <1>2
  <2>2. t \in Job
    BY DEF Job
  <2> QED BY <2>1, <2>2 DEF TaskCalls, CallOk, CreateTask, ClaimTask, CompleteTask, FailTask, CancelTask,
            CreateOutput, AppendTaskEvent, Insert, Update, Plain
<1> QED BY <1>1, <1>2 DEF Calls

-----------------------------------------------------------------------------
LEMMA ConnectionFields ==
  ASSUME NEW x, x = [pc |-> x.pc, call |-> x.call, new |-> x.new, seq |-> x.seq],
         NEW p, NEW a
  PROVE  /\ [x EXCEPT !.pc = p, !.call = a] = [pc |-> p, call |-> a, new |-> x.new, seq |-> x.seq]
         /\ [x EXCEPT !.pc = p, !.new = a] = [pc |-> p, call |-> x.call, new |-> a, seq |-> x.seq]
         /\ [x EXCEPT !.pc = p, !.seq = a] = [pc |-> p, call |-> x.call, new |-> x.new, seq |-> a]
<1> DEFINE q == x.pc  b == x.call  n == x.new  s == x.seq
<1>1. x \in [pc : {q}, call : {b}, new : {n}, seq : {s}]
  OBVIOUS
<1> HIDE DEF q, b, n, s
<1>2. [x EXCEPT !.pc = p, !.call = a] \in [pc : {p}, call : {a}, new : {n}, seq : {s}]
  BY <1>1
<1>3. [x EXCEPT !.pc = p, !.new = a] \in [pc : {p}, call : {b}, new : {a}, seq : {s}]
  BY <1>1
<1>4. [x EXCEPT !.pc = p, !.seq = a] \in [pc : {p}, call : {b}, new : {n}, seq : {a}]
  BY <1>1
<1>5. ASSUME NEW y, NEW y1, NEW y2, NEW y3, NEW y4,
             y \in [pc : {y1}, call : {y2}, new : {y3}, seq : {y4}]
      PROVE  y = [pc |-> y1, call |-> y2, new |-> y3, seq |-> y4]
  BY <1>5
<1>6. [x EXCEPT !.pc = p, !.call = a] = [pc |-> p, call |-> a, new |-> n, seq |-> s]
  <2> DEFINE y == [x EXCEPT !.pc = p, !.call = a]
  <2>1. y \in [pc : {p}, call : {a}, new : {n}, seq : {s}]
    BY <1>2
  <2> HIDE DEF y
  <2>2. y = [pc |-> p, call |-> a, new |-> n, seq |-> s]
    BY <2>1, <1>5
  <2> QED BY <2>2 DEF y
<1>7. [x EXCEPT !.pc = p, !.new = a] = [pc |-> p, call |-> b, new |-> a, seq |-> s]
  <2> DEFINE y == [x EXCEPT !.pc = p, !.new = a]
  <2>1. y \in [pc : {p}, call : {b}, new : {a}, seq : {s}]
    BY <1>3
  <2> HIDE DEF y
  <2>2. y = [pc |-> p, call |-> b, new |-> a, seq |-> s]
    BY <2>1, <1>5
  <2> QED BY <2>2 DEF y
<1>8. [x EXCEPT !.pc = p, !.seq = a] = [pc |-> p, call |-> b, new |-> n, seq |-> a]
  <2> DEFINE y == [x EXCEPT !.pc = p, !.seq = a]
  <2>1. y \in [pc : {p}, call : {b}, new : {n}, seq : {a}]
    BY <1>4
  <2> HIDE DEF y
  <2>2. y = [pc |-> p, call |-> b, new |-> n, seq |-> a]
    BY <2>1, <1>5
  <2> QED BY <2>2 DEF y
<1> QED BY <1>6, <1>7, <1>8 DEF q, b, n, s

\* One lemma per statement.
LEMMA BeginKept ==
  ASSUME PostgresInv, NEW c \in Connection, NEW call \in Calls, Begin(c, call)
  PROVE  PostgresInv'
<1> DEFINE k == [NoCall EXCEPT !.pc = FirstPc(call), !.call = call]
<1>1. /\ conn' = [conn EXCEPT ![c] = k] /\ UNCHANGED <<record, events, logs>>
      /\ (call.op = "insert") = (record[call.job] = NoRow)
      /\ call.op \in {"insert", "output"} =>
           \A d \in Connection : conn[d].call.op = call.op => conn[d].call.job # call.job
  BY DEF Begin, Callable, OpOf, JobOf
<1>2. CallOk(call)
  BY CallsAreOk
<1>3. /\ k = [pc |-> k.pc, call |-> k.call, new |-> k.new, seq |-> k.seq]
      /\ k.call = call /\ k.pc = FirstPc(call)
  <2>0. NoCall = [pc |-> NoCall.pc, call |-> NoCall.call, new |-> NoCall.new, seq |-> NoCall.seq]
    BY DEF NoCall
  <2>1. k = [pc |-> FirstPc(call), call |-> call, new |-> NoCall.new, seq |-> NoCall.seq]
    <3> DEFINE x == NoCall
               p == FirstPc(call)
    <3>1. k = [x EXCEPT !.pc = p, !.call = call]
      OBVIOUS
    <3>2. x = [pc |-> x.pc, call |-> x.call, new |-> x.new, seq |-> x.seq]
      BY <2>0
    <3> HIDE DEF x, p, k
    <3>3. k = [pc |-> p, call |-> call, new |-> x.new, seq |-> x.seq]
      BY <3>1, <3>2, ConnectionFields
    <3> QED BY <3>3 DEF x, p
  <2> HIDE DEF k
  <2> QED BY <2>1
<1>4. /\ k.pc \in {"writing", "locking", "numbering"}
      /\ k.pc = "writing" => call.op \in {"insert", "output"}
      /\ k.pc = "locking" => call.op \in {"update", "log"}
      /\ k.pc = "numbering" => call.op = "event"
  BY <1>3, <1>2 DEF FirstPc, CallOk
<1> HIDE DEF k
<1>5. ConnOk(k, record, events)
  BY <1>1, <1>2, <1>3, <1>4 DEF ConnOk, IsOpen, Open, Changed
<1>6. ~Holding(k) /\ ~Sharing(k)
  BY <1>3, <1>4 DEF Holding, Sharing
<1>7. ASSUME NEW d \in Connection \ {c}
      PROVE  Apart(k, conn[d])
  BY <1>1, <1>3, <1>6 DEF Apart
<1> QED BY <1>1, <1>5, <1>7, ConnectionMoves

\* A connection that is closed is nobody's concern.
LEMMA CloseKept ==
  ASSUME PostgresInv, NEW c \in Connection, Close(c), UNCHANGED <<record, events, logs>>
  PROVE  PostgresInv'
<1> DEFINE k == [NoCall EXCEPT !.pc = "closed"]
<1>1. k.pc = "closed" /\ k = [pc |-> k.pc, call |-> k.call, new |-> k.new, seq |-> k.seq]
      /\ k.call = NoCall.call
  BY DEF NoCall
<1>2. conn' = [conn EXCEPT ![c] = k]
  BY DEF Close
<1> HIDE DEF k
<1>3. ConnOk(k, record, events) /\ ~IsOpen(k)
  BY <1>1 DEF ConnOk, IsOpen, Open, Changed
<1>4. \A d \in Connection \ {c} : Apart(k, conn[d])
  BY <1>3 DEF Apart
<1> QED BY <1>2, <1>3, <1>4, ConnectionMoves

\* Going on within a call: what the connection then holds nobody else does.
LEMMA GoesOn ==
  ASSUME PostgresInv, NEW c \in Connection, NEW k,
         conn' = [conn EXCEPT ![c] = k], UNCHANGED <<record, events, logs>>,
         ConnOk(k, record, events), k.call = conn[c].call, IsOpen(conn[c]),
         Holding(k) => Holding(conn[c]) \/ FreeToLock(c) \/ k.call.op = "insert",
         Sharing(k) => Sharing(conn[c]) \/ FreeToShare(c)
  PROVE  PostgresInv'
<1>1. ASSUME NEW d \in Connection \ {c}
      PROVE  Apart(k, conn[d])
  <2>1. SUFFICES ASSUME IsOpen(conn[d]), k.call.job = conn[d].call.job
                 PROVE  /\ ~(k.call.op = conn[d].call.op /\ k.call.op \in {"insert", "output"})
                        /\ ~(Holding(k) /\ (Holding(conn[d]) \/ Sharing(conn[d])))
                        /\ ~(Holding(conn[d]) /\ (Holding(k) \/ Sharing(k)))
    BY DEF Apart
  <2>2. d \in Others(c)
    BY <2>1 DEF Others, JobOf
  <2>3. Apart(conn[c], conn[d])
    BY DEF PostgresInv
  <2>4. FreeToLock(c) => ~Holding(conn[d]) /\ ~Sharing(conn[d])
    BY <2>2 DEF FreeToLock, HoldsRow, SharesRow, Holding, Sharing, OpOf
  <2>5. FreeToShare(c) => ~Holding(conn[d])
    BY <2>2 DEF FreeToShare, HoldsRow, Holding, OpOf
  <2>6. k.call.op # "insert"
    <3>1. SUFFICES ASSUME k.call.op = "insert" PROVE FALSE
      OBVIOUS
    <3>2. record[conn[c].call.job] = NoRow
      BY <3>1 DEF PostgresInv, ConnOk
    <3>3. conn[d].call.op = "insert"
      BY <3>2, <2>1 DEF PostgresInv, ConnOk
    <3> QED BY <3>1, <3>3, <2>3, <2>1 DEF Apart
  <2> QED BY <2>1, <2>3, <2>4, <2>5, <2>6 DEF Apart
<1> QED BY <1>1, ConnectionMoves

LEMMA LockKept ==
  ASSUME PostgresInv, NEW c \in Connection, LockParentRow(c)
  PROVE  PostgresInv'
<1> DEFINE k == [conn[c] EXCEPT !.pc = "writing"]
<1>0. conn[c].pc = "locking" /\ FreeToLock(c) /\ UNCHANGED <<record, events, logs>>
  BY DEF LockParentRow
<1>1. conn' = [conn EXCEPT ![c] = k]
  BY DEF LockParentRow, At
<1>2. ConnOk(conn[c], record, events)
  BY DEF PostgresInv
<1>3. /\ k = [pc |-> k.pc, call |-> k.call, new |-> k.new, seq |-> k.seq]
      /\ k.pc = "writing" /\ k.call = conn[c].call
  BY <1>2 DEF ConnOk
<1> HIDE DEF k
<1>4. ConnOk(k, record, events)
  BY <1>0, <1>2, <1>3 DEF ConnOk, IsOpen, Open, Changed
<1>5. IsOpen(conn[c]) /\ ~Sharing(k)
  BY <1>0, <1>3 DEF IsOpen, Open, Sharing
<1> QED BY <1>0, <1>1, <1>3, <1>4, <1>5, GoesOn

\* What UPDATE, INSERT and the log make of a record.
LEMMA WrittenIsOk ==
  ASSUME PostgresInv, NEW c \in Connection, IsOpen(conn[c]),
         conn[c].call.op \in {"insert", "update", "log"}
  PROVE  /\ RowOk(Written(c)) /\ Written(c) # NoRow
         /\ Written(c).logSeq = IF conn[c].call.op = "log"
              THEN record[conn[c].call.job].logSeq + 1 ELSE record[conn[c].call.job].logSeq
<1> DEFINE call == conn[c].call
           old == record[call.job]
<1>1. CallOk(call) /\ (call.op = "insert" <=> old = NoRow)
  BY DEF PostgresInv, ConnOk
<1>2. RowOk(old) /\ logs[call.job] = 1..old.logSeq
  BY <1>1 DEF PostgresInv, JobOk, CallOk
<1>3. CASE call.op = "log"
  <2>1. Written(c) = [old EXCEPT !.logSeq = NextSequence(1..old.logSeq), !.output = @ + 1]
    BY <1>2, <1>3 DEF Written, OpOf, JobOf
  <2>2. NextSequence(1..old.logSeq) = old.logSeq + 1
    BY <1>2, NextOfAll DEF RowOk
  <2>3. old # NoRow
    BY <1>1, <1>3
  <2> HIDE DEF old, call
  <2>4. /\ Written(c).logSeq = old.logSeq + 1 /\ Written(c).status = old.status
        /\ Written(c) = [column \in Columns |-> Written(c)[column]]
    BY <2>1, <2>2, <1>2 DEF RowOk, Columns
  <2>5. NoRow.status = "absent"
    BY DEF NoRow
  <2>6. old.status # "absent"
    BY <2>3, <1>2 DEF RowOk
  <2>7. Written(c) # NoRow
    BY <2>4, <2>5, <2>6
  <2>8. old.logSeq + 1 \in Nat
    BY <1>2 DEF RowOk
  <2>9. RowOk(Written(c))
    BY <2>4, <2>6, <2>8 DEF RowOk
  <2> QED BY <2>4, <2>7, <2>9, <1>3 DEF call, old
<1>4. CASE call.op # "log"
  <2> DEFINE set == call.set
  <2>1. Written(c) = [column \in DOMAIN old |->
                IF column \in DOMAIN set THEN set[column] ELSE old[column]]
    BY <1>4 DEF Written, OpOf, JobOf
  <2>2. "status" \in DOMAIN set /\ set["status"] # "absent" /\ "logSeq" \notin DOMAIN set
    BY <1>1, <1>4 DEF CallOk
  <2>3. DOMAIN old = Columns
    BY <1>2 DEF RowOk
  <2>4. /\ Written(c).status = set["status"] /\ Written(c).logSeq = old.logSeq
        /\ Written(c) = [column \in Columns |-> Written(c)[column]]
    BY <2>1, <2>2, <2>3 DEF Columns
  <2>5. NoRow.status = "absent"
    BY DEF NoRow
  <2> HIDE DEF set
  <2> QED BY <2>2, <2>4, <2>5, <1>2, <1>4 DEF RowOk
<1> QED BY <1>3, <1>4

LEMMA WriteKept ==
  ASSUME PostgresInv, NEW c \in Connection, Write(c)
  PROVE  PostgresInv'
<1> DEFINE k == [conn[c] EXCEPT !.pc = "numbering", !.new = Written(c)]
<1>0. conn[c].pc = "writing" /\ UNCHANGED <<record, events, logs>>
      /\ (conn[c].call.op = "output" => FreeToShare(c))
  BY DEF Write, OpOf
<1>1. conn' = [conn EXCEPT ![c] = k] \/ Close(c)
  BY DEF Write
<1>2. ConnOk(conn[c], record, events) /\ IsOpen(conn[c])
  BY <1>0 DEF PostgresInv, IsOpen, Open
<1>3. /\ k = [pc |-> k.pc, call |-> k.call, new |-> k.new, seq |-> k.seq]
      /\ k.pc = "numbering" /\ k.call = conn[c].call /\ k.new = Written(c)
  <2> DEFINE x == conn[c]
             w == Written(c)
  <2>1. x = [pc |-> x.pc, call |-> x.call, new |-> x.new, seq |-> x.seq]
    BY <1>2 DEF ConnOk
  <2>2. k = [x EXCEPT !.pc = "numbering", !.new = w]
    OBVIOUS
  <2> HIDE DEF x, w, k
  <2>3. k = [pc |-> "numbering", call |-> x.call, new |-> w, seq |-> x.seq]
    BY <2>1, <2>2, ConnectionFields
  <2> QED BY <2>3 DEF x, w
<1> HIDE DEF k
<1>4. ConnOk(k, record, events)
  <2>1. Changed(k) => NewOk(k, record)
    BY <1>3, <1>2, WrittenIsOk DEF Changed, NewOk
  <2> QED BY <1>0, <1>2, <1>3, <2>1 DEF ConnOk, IsOpen, Open
<1>5. Holding(k) => Holding(conn[c]) \/ k.call.op = "insert"
  BY <1>0, <1>3 DEF Holding
<1>6. Sharing(k) => FreeToShare(c)
  BY <1>0, <1>3 DEF Sharing
<1>7. CASE conn' = [conn EXCEPT ![c] = k]
  BY <1>0, <1>7, <1>2, <1>3, <1>4, <1>5, <1>6, GoesOn
<1>8. CASE Close(c)
  BY <1>0, <1>8, CloseKept
<1> QED BY <1>1, <1>7, <1>8

LEMMA NumberKept ==
  ASSUME PostgresInv, NEW c \in Connection, Number(c)
  PROVE  PostgresInv'
<1> DEFINE k == [conn[c] EXCEPT !.pc = "inserting", !.seq = NextSequence(Numbers(JobOf(c)))]
<1>0. conn[c].pc = "numbering" /\ FreeToLock(c) /\ UNCHANGED <<record, events, logs>>
      /\ conn' = [conn EXCEPT ![c] = k]
  BY DEF Number
<1>2. ConnOk(conn[c], record, events) /\ IsOpen(conn[c])
  BY <1>0 DEF PostgresInv, IsOpen, Open
<1>3. /\ k = [pc |-> k.pc, call |-> k.call, new |-> k.new, seq |-> k.seq]
      /\ k.pc = "inserting" /\ k.call = conn[c].call /\ k.new = conn[c].new
      /\ k.seq = NextSequence(Numbers(conn[c].call.job))
  <2> DEFINE x == conn[c]
             next == NextSequence(Numbers(JobOf(c)))
  <2>1. x = [pc |-> x.pc, call |-> x.call, new |-> x.new, seq |-> x.seq]
    BY <1>2 DEF ConnOk
  <2>2. k = [x EXCEPT !.pc = "inserting", !.seq = next]
    OBVIOUS
  <2> HIDE DEF x, next, k
  <2>3. k = [pc |-> "inserting", call |-> x.call, new |-> x.new, seq |-> next]
    BY <2>1, <2>2, ConnectionFields
  <2> QED BY <2>3 DEF x, next, JobOf
<1> HIDE DEF k
<1>4. k.seq = Cardinality(events[k.call.job]) + 1
  <2> DEFINE j == conn[c].call.job
             n == Cardinality(events[j])
  <2>1. j \in Job
    BY <1>2 DEF ConnOk, CallOk
  <2>2. IsFiniteSet(events[j]) /\ Numbers(j) = 1..n
    BY <2>1 DEF PostgresInv, JobOk, Numbers
  <2>3. n \in Nat
    BY <2>2, FS_CardinalityType
  <2> HIDE DEF n
  <2>4. NextSequence(1..n) = n + 1
    BY <2>3, NextOfAll
  <2> QED BY <1>3, <2>2, <2>4 DEF n
<1>5. ConnOk(k, record, events)
  <2>1. Changed(k) => Changed(conn[c])
    BY <1>3, <1>0 DEF Changed
  <2>2. NewOk(k, record) <=> NewOk(conn[c], record)
    BY <1>3 DEF NewOk
  <2> QED BY <1>0, <1>2, <1>3, <1>4, <2>1, <2>2 DEF ConnOk, IsOpen, Open
<1>6. ~Sharing(k)
  BY <1>3 DEF Sharing
<1> QED BY <1>0, <1>2, <1>3, <1>5, <1>6, GoesOn

LEMMA InsertEventKept ==
  ASSUME PostgresInv, NEW c \in Connection, InsertEvent(c)
  PROVE  PostgresInv'
<1> DEFINE k == [conn[c] EXCEPT !.pc = "committing"]
<1>0. conn[c].pc = "inserting" /\ UNCHANGED <<record, events, logs>>
  BY DEF InsertEvent
<1>2. ConnOk(conn[c], record, events) /\ IsOpen(conn[c])
  BY <1>0 DEF PostgresInv, IsOpen, Open
<1>1. conn[c].seq \notin Numbers(JobOf(c))
  <2> DEFINE j == conn[c].call.job
             n == Cardinality(events[j])
  <2>1. j \in Job
    BY <1>2 DEF ConnOk, CallOk
  <2>2. IsFiniteSet(events[j]) /\ Numbers(j) = 1..n
    BY <2>1 DEF PostgresInv, JobOk, Numbers
  <2>3. n \in Nat
    BY <2>2, FS_CardinalityType
  <2>4. conn[c].seq = n + 1
    BY <1>0, <1>2 DEF ConnOk
  <2> HIDE DEF n
  <2>5. n + 1 \notin 1..n
    BY <2>3
  <2> QED BY <2>2, <2>4, <2>5 DEF JobOf
<1>3. conn' = [conn EXCEPT ![c] = k]
  BY <1>1 DEF InsertEvent, At
<1>4. /\ k = [pc |-> k.pc, call |-> k.call, new |-> k.new, seq |-> k.seq]
      /\ k.pc = "committing" /\ k.call = conn[c].call /\ k.new = conn[c].new
      /\ k.seq = conn[c].seq
  BY <1>2 DEF ConnOk
<1> HIDE DEF k
<1>5. ConnOk(k, record, events)
  <2>1. Changed(k) => Changed(conn[c])
    BY <1>4, <1>0 DEF Changed
  <2>2. NewOk(k, record) <=> NewOk(conn[c], record)
    BY <1>4 DEF NewOk
  <2> QED BY <1>0, <1>2, <1>4, <2>1, <2>2 DEF ConnOk, IsOpen, Open
<1>6. ~Sharing(k) /\ Holding(conn[c])
  BY <1>0, <1>4 DEF Sharing, Holding
<1> QED BY <1>0, <1>2, <1>3, <1>4, <1>5, <1>6, GoesOn

\* What is committed: a row, the next event, and the next chunk of a log.
LEMMA CommitKept ==
  ASSUME PostgresInv, NEW c \in Connection, Commit(c)
  PROVE  PostgresInv'
<1> DEFINE k == conn[c]
           j == k.call.job
           n == Cardinality(events[j])
           event == [seq |-> k.seq, type |-> k.call.type]
<1>0. /\ k.pc = "committing" /\ Close(c)
      /\ record' = [record EXCEPT ![j] = IF k.call.op \in {"event", "output"} THEN @ ELSE k.new]
      /\ events' = [events EXCEPT ![j] = @ \union {event}]
      /\ logs' = [logs EXCEPT ![j] = IF k.call.op = "log" THEN @ \union {k.new.logSeq} ELSE @]
  BY DEF Commit, JobOf, OpOf
<1>1. ConnOk(k, record, events) /\ IsOpen(k) /\ j \in Job /\ CallOk(k.call) /\ k.seq = n + 1
  BY <1>0 DEF PostgresInv, IsOpen, Open, ConnOk, CallOk
<1>2. /\ DOMAIN record' = Job /\ DOMAIN events' = Job /\ DOMAIN logs' = Job
      /\ \A i \in Job \ {j} : record'[i] = record[i] /\ events'[i] = events[i] /\ logs'[i] = logs[i]
  BY <1>0 DEF PostgresInv
<1>3. IsFiniteSet(events'[j]) /\ {e.seq : e \in events'[j]} = 1..Cardinality(events'[j])
  <2>1. IsFiniteSet(events[j]) /\ {e.seq : e \in events[j]} = 1..n
    BY <1>1 DEF PostgresInv, JobOk
  <2>2. n \in Nat
    BY <2>1, FS_CardinalityType
  <2>3. events'[j] = events[j] \union {event}
    BY <1>0, <1>1 DEF PostgresInv
  <2> HIDE DEF n
  <2>4. n + 1 \notin 1..n /\ 1..(n + 1) = 1..n \union {n + 1}
    BY <2>2
  <2>5. event \notin events[j]
    BY <2>1, <2>4, <1>1
  <2>6. IsFiniteSet(events'[j]) /\ Cardinality(events'[j]) = n + 1
    <3>1. Cardinality(events[j]) = n
      BY DEF n
    <3> QED BY <2>1, <2>3, <2>5, <3>1, FS_AddElement
  <2>7. {e.seq : e \in events'[j]} = {e.seq : e \in events[j]} \union {event.seq}
    BY <2>3
  <2> QED BY <2>1, <2>4, <2>6, <2>7, <1>1
<1>4. /\ RowOk(record'[j]) /\ logs'[j] = 1..record'[j].logSeq
      /\ record'[j] = NoRow <=> (record[j] = NoRow /\ k.call.op # "insert")
  <2>1. RowOk(record[j]) /\ logs[j] = 1..record[j].logSeq
    BY <1>1 DEF PostgresInv, JobOk
  <2>2. CASE k.call.op \in {"event", "output"}
    <3>1. record'[j] = record[j] /\ logs'[j] = logs[j]
      BY <1>0, <1>1, <2>2 DEF PostgresInv
    <3> QED BY <3>1, <2>1, <2>2
  <2>3. CASE k.call.op \in {"insert", "update"}
    <3>1. record'[j] = k.new /\ logs'[j] = logs[j]
      BY <1>0, <1>1, <2>3 DEF PostgresInv
    <3>2. RowOk(k.new) /\ k.new # NoRow /\ k.new.logSeq = record[j].logSeq
      BY <1>0, <1>1, <2>3 DEF ConnOk, Changed, NewOk
    <3>3. k.call.op = "insert" <=> record[j] = NoRow
      BY <1>1 DEF ConnOk
    <3> QED BY <3>1, <3>2, <3>3, <2>1
  <2>4. CASE k.call.op = "log"
    <3>1. record'[j] = k.new /\ logs'[j] = logs[j] \union {k.new.logSeq}
      BY <1>0, <1>1, <2>4 DEF PostgresInv
    <3>2. RowOk(k.new) /\ k.new # NoRow /\ k.new.logSeq = record[j].logSeq + 1
      BY <1>0, <1>1, <2>4 DEF ConnOk, Changed, NewOk
    <3>3. record[j] # NoRow
      BY <1>1, <2>4 DEF ConnOk
    <3> DEFINE m == record[j].logSeq
    <3>4. m \in Nat
      BY <2>1 DEF RowOk
    <3> HIDE DEF m
    <3>5. 1..(m + 1) = 1..m \union {m + 1}
      BY <3>4
    <3>6. logs'[j] = 1..k.new.logSeq
      BY <3>1, <3>2, <3>5, <2>1 DEF m
    <3> QED BY <3>1, <3>2, <3>3, <3>6
  <2> QED BY <1>1, <2>2, <2>3, <2>4 DEF CallOk
<1>5. \A i \in Job : JobOk(i, record, events, logs)'
  BY <1>2, <1>3, <1>4 DEF PostgresInv, JobOk
<1>6. DOMAIN conn' = Connection /\ \A d \in Connection \ {c} : conn'[d] = conn[d]
  BY <1>0 DEF Close, PostgresInv
<1>7. ConnOk(conn'[c], record', events') /\ ~IsOpen(conn'[c])
  <2>1. conn'[c] = [NoCall EXCEPT !.pc = "closed"]
    BY <1>0 DEF Close, PostgresInv
  <2>2. conn'[c] = [pc |-> "closed", call |-> NoCall.call, new |-> NoCall.new, seq |-> NoCall.seq]
    BY <2>1 DEF NoCall
  <2> QED BY <2>2 DEF ConnOk, IsOpen, Open, Changed
<1>8. ASSUME NEW d \in Connection \ {c}
      PROVE  ConnOk(conn[d], record', events')
  <2>1. ConnOk(conn[d], record, events) /\ Apart(k, conn[d])
    BY DEF PostgresInv
  <2>2. CASE IsOpen(conn[d]) /\ conn[d].call.job = j
    <3>1. ~Holding(conn[d]) /\ ~Sharing(conn[d])
      BY <1>0, <1>1, <2>1, <2>2 DEF Apart, Holding
    <3>2. ~Changed(conn[d]) /\ conn[d].pc \notin {"inserting", "committing"}
      BY <3>1 DEF Holding, Changed
    <3>3. conn[d].call.op = "insert" <=> record'[j] = NoRow
      <4>1. conn[d].call.op = "insert" <=> record[j] = NoRow
        BY <2>1, <2>2 DEF ConnOk
      <4>2. k.call.op = "insert" <=> record[j] = NoRow
        BY <1>1 DEF ConnOk
      <4>3. ~(k.call.op = "insert" /\ conn[d].call.op = "insert")
        BY <2>1, <2>2, <1>1 DEF Apart
      <4> QED BY <4>1, <4>2, <4>3, <1>4
    <3> QED BY <2>1, <2>2, <3>2, <3>3 DEF ConnOk
  <2>3. CASE ~(IsOpen(conn[d]) /\ conn[d].call.job = j)
    <3>1. IsOpen(conn[d]) => conn[d].call.job \in Job \ {j}
      BY <2>1, <2>3 DEF ConnOk, CallOk
    <3>2. CASE IsOpen(conn[d])
      <4>1. record'[conn[d].call.job] = record[conn[d].call.job]
            /\ events'[conn[d].call.job] = events[conn[d].call.job]
        BY <3>1, <3>2, <1>2
      <4> QED BY <4>1, <2>1 DEF ConnOk, NewOk
    <3>3. CASE ~IsOpen(conn[d])
      BY <2>1, <3>3 DEF ConnOk, IsOpen, Open, Changed
    <3> QED BY <3>2, <3>3
  <2> QED BY <2>2, <2>3
<1>9. \A b \in Connection : \A d \in Connection \ {b} : Apart(conn'[b], conn'[d])
  BY <1>6, <1>7 DEF PostgresInv, Apart
<1> HIDE DEF k, j, n, event
<1> QED BY <1>2, <1>5, <1>6, <1>7, <1>8, <1>9 DEF PostgresInv

LEMMA PostgresInvHolds == StoresSpec => []PostgresInv
<1>1. StoresInit => PostgresInv
  BY PostgresInvInit DEF StoresInit
<1>2. PostgresInv /\ [StoresNext]_storesVars => PostgresInv'
  <2>1. ASSUME PostgresInv, PostgresStep PROVE PostgresInv'
    <3>1. PICK c \in Connection : Step(c) \/ Abort(c) \/ \E call \in Calls : Begin(c, call)
      BY <2>1 DEF PostgresStep
    <3>2. CASE Abort(c)
      BY <3>2, <2>1, CloseKept DEF Abort
    <3> QED BY <3>1, <3>2, <2>1, BeginKept, LockKept, WriteKept, NumberKept, InsertEventKept,
               CommitKept DEF Step
  <2>2. PostgresInv /\ UNCHANGED postgresVars => PostgresInv'
    BY DEF postgresVars, PostgresInv
  <2>3. UNCHANGED storesVars => UNCHANGED postgresVars
    BY DEF storesVars
  <2> QED BY <2>1, <2>2, <2>3, OthersLeaveTheJobsAlone
<1> QED BY <1>1, <1>2, PTL DEF StoresSpec

(***************************************************************************)
(* EveryTransactionGetsThrough.  For any connections on any executions and *)
(* tasks: the numbers of the events and log chunks of a job stay without a *)
(* gap, no transaction fails because another took its number, and of those *)
(* that wait for a row there is always one that has it and can go on.      *)
(***************************************************************************)
THEOREM EveryTransactionGetsThrough == StoresSpec => []TransactionsGetThrough
<1>1. PostgresInv => NumbersNeverCollide
  BY DEF PostgresInv, JobOk, ConnOk, Open, NumbersNeverCollide, Numbers
<1>2. ASSUME PostgresInv, NEW c \in Connection, Waits(c)
      PROVE  \E d \in Others(c) : conn[d].pc \in Open /\ ~Waits(d)
  <2>1. PICK d \in Others(c) : HoldsRow(d) \/ SharesRow(d)
    BY <1>2 DEF Waits, FreeToLock, FreeToShare
  <2>2. d \in Connection /\ (Holding(conn[d]) \/ Sharing(conn[d]))
    BY <2>1 DEF Others, HoldsRow, SharesRow, Holding, Sharing, OpOf
  <2>3. IsOpen(conn[d])
    BY <2>2 DEF Holding, Sharing, IsOpen, Open
  <2>4. ASSUME NEW e \in Others(d)
        PROVE  ~HoldsRow(e) /\ ~SharesRow(e)
    <3>1. e \in Connection \ {d} /\ conn[e].call.job = conn[d].call.job /\ Apart(conn[d], conn[e])
      BY <1>2, <2>2, <2>4 DEF Others, JobOf, PostgresInv
    <3>2. HoldsRow(e) => Holding(conn[e]) /\ IsOpen(conn[e])
      BY DEF HoldsRow, Holding, OpOf, IsOpen, Open
    <3>3. SharesRow(e) => Sharing(conn[e]) /\ IsOpen(conn[e])
      BY DEF SharesRow, Sharing, OpOf, IsOpen, Open
    <3>4. Sharing(conn[d]) /\ Sharing(conn[e]) => conn[d].call.op = "output" /\ conn[e].call.op = "output"
      BY DEF Sharing
    <3> QED BY <3>1, <3>2, <3>3, <3>4, <2>2, <2>3 DEF Apart
  <2>5. ~Waits(d)
    BY <2>4 DEF Waits, FreeToLock, FreeToShare
  <2> QED BY <2>1, <2>3, <2>5 DEF IsOpen
<1>3. PostgresInv => NobodyDeadlocks
  BY <1>2 DEF NobodyDeadlocks
<1> QED BY <1>1, <1>3, PostgresInvHolds, PTL DEF TransactionsGetThrough

-----------------------------------------------------------------------------
(***************************************************************************)
(* What a transaction commits is what its statements made of the record    *)
(* that is still there: nobody else has written it since.                  *)
(***************************************************************************)
RowAfter(call, old) ==
  IF call.op = "log"
  THEN [old EXCEPT !.logSeq = @ + 1, !.output = @ + 1]
  ELSE [column \in DOMAIN old |->
          IF column \in DOMAIN call.set THEN call.set[column] ELSE old[column]]

WorkOk(k, rec) ==
  IsOpen(k) =>
    /\ k.call \in Calls
    /\ Changed(k) =>
         /\ k.new = RowAfter(k.call, rec[k.call.job])
         /\ k.call.op = "update" => rec[k.call.job].status \in k.call.from

WorkInv == \A c \in Connection : WorkOk(conn[c], record)

LEMMA WorkInvInit == PostgresInit => WorkInv
<1> SUFFICES ASSUME PostgresInit, NEW c \in Connection
             PROVE  WorkOk(conn[c], record)
  BY DEF WorkInv
<1>1. conn[c].pc = "idle"
  BY DEF PostgresInit, NoCall
<1> QED BY <1>1 DEF WorkOk, IsOpen, Open

\* A connection moves, and nothing it has made of the record changes.
LEMMA WorkMoves ==
  ASSUME PostgresInv, WorkInv, NEW c \in Connection, NEW k,
         conn' = [conn EXCEPT ![c] = k], UNCHANGED record, WorkOk(k, record)
  PROVE  WorkInv'
<1>1. conn'[c] = k /\ \A d \in Connection \ {c} : conn'[d] = conn[d]
  BY DEF PostgresInv
<1> QED BY <1>1 DEF WorkInv, WorkOk

LEMMA WorkCloses ==
  ASSUME PostgresInv, WorkInv, NEW c \in Connection, Close(c), UNCHANGED record
  PROVE  WorkInv'
<1> DEFINE k == [NoCall EXCEPT !.pc = "closed"]
<1>1. conn' = [conn EXCEPT ![c] = k] /\ k.pc = "closed"
  BY DEF Close, NoCall
<1> HIDE DEF k
<1> QED BY <1>1, WorkMoves DEF WorkOk, IsOpen, Open

\* The statements of a call, up to its commit.
LEMMA StatementsWork ==
  ASSUME PostgresInv, WorkInv, NEW c \in Connection,
         LockParentRow(c) \/ Write(c) \/ Number(c) \/ InsertEvent(c)
  PROVE  WorkInv'
<1> DEFINE k == conn[c]
           j == k.call.job
<1>1. k = [pc |-> k.pc, call |-> k.call, new |-> k.new, seq |-> k.seq]
  BY DEF PostgresInv, ConnOk
<1>2. WorkOk(k, record)
  BY DEF WorkInv
<1>3. CASE LockParentRow(c)
  <2> DEFINE l == [k EXCEPT !.pc = "writing"]
  <2>1. conn' = [conn EXCEPT ![c] = l] /\ UNCHANGED record /\ k.pc = "locking"
    BY <1>3 DEF LockParentRow, At
  <2>2. l.pc = "writing" /\ l.call = k.call
    BY <1>1
  <2> HIDE DEF l
  <2>3. WorkOk(l, record)
    BY <1>2, <2>1, <2>2 DEF WorkOk, IsOpen, Open, Changed
  <2> QED BY <2>1, <2>3, WorkMoves
<1>4. CASE Write(c) /\ Matches(c)
  <2> DEFINE l == [k EXCEPT !.pc = "numbering", !.new = Written(c)]
  <2>1. conn' = [conn EXCEPT ![c] = l] /\ UNCHANGED record /\ k.pc = "writing"
    BY <1>4 DEF Write
  <2>2. l.pc = "numbering" /\ l.call = k.call /\ l.new = Written(c)
    BY <1>1
  <2>3. j \in Job /\ k.call \in Calls /\ k.call.op # "event"
    BY <1>2, <2>1 DEF WorkOk, IsOpen, Open, PostgresInv, ConnOk, CallOk
  <2>4. NextSequence(logs[j]) = record[j].logSeq + 1
    BY <2>3, NextOfAll DEF PostgresInv, JobOk, RowOk
  <2>5. Written(c) = RowAfter(k.call, record[j])
    BY <2>4 DEF Written, RowAfter, JobOf, OpOf
  <2>6. k.call.op = "update" => record[j].status \in k.call.from
    BY <1>4 DEF Matches, JobOf, OpOf
  <2> HIDE DEF l
  <2>7. WorkOk(l, record)
    BY <2>2, <2>3, <2>5, <2>6 DEF WorkOk
  <2> QED BY <2>1, <2>7, WorkMoves
<1>5. CASE Write(c) /\ ~Matches(c)
  BY <1>5, WorkCloses DEF Write
<1>6. CASE Number(c)
  <2> DEFINE number == NextSequence(Numbers(JobOf(c)))
             l == [k EXCEPT !.pc = "inserting", !.seq = number]
  <2>1. conn' = [conn EXCEPT ![c] = l] /\ UNCHANGED record /\ k.pc = "numbering"
    BY <1>6 DEF Number
  <2>2. l.pc = "inserting" /\ l.call = k.call /\ l.new = k.new
    BY <1>1
  <2> HIDE DEF l
  <2>3. WorkOk(l, record)
    BY <1>2, <2>1, <2>2 DEF WorkOk, IsOpen, Open, Changed
  <2> QED BY <2>1, <2>3, WorkMoves
<1>7. CASE InsertEvent(c)
  <2> DEFINE p == IF k.seq \in Numbers(JobOf(c)) THEN "collided" ELSE "committing"
             l == [k EXCEPT !.pc = p]
  <2>1. conn' = [conn EXCEPT ![c] = l] /\ UNCHANGED record /\ k.pc = "inserting"
    BY <1>7 DEF InsertEvent, At
  <2>2. l.pc = p /\ l.call = k.call /\ l.new = k.new
    BY <1>1
  <2> HIDE DEF l
  <2>3. WorkOk(l, record)
    BY <1>2, <2>1, <2>2 DEF WorkOk, IsOpen, Open, Changed
  <2> QED BY <2>1, <2>3, WorkMoves
<1> QED BY <1>3, <1>4, <1>5, <1>6, <1>7

\* Who commits a record has locked it, so that nobody else has made something
\* of what it was.
LEMMA CommitWorks ==
  ASSUME PostgresInv, WorkInv, NEW c \in Connection, Commit(c)
  PROVE  WorkInv'
<1> DEFINE k == conn[c]
           j == k.call.job
<1>1. k.pc = "committing" /\ IsOpen(k) /\ j \in Job
  BY DEF Commit, IsOpen, Open, PostgresInv, ConnOk, CallOk
<1>2. \A i \in Job \ {j} : record'[i] = record[i]
  BY DEF Commit, JobOf, PostgresInv
<1>3. conn'[c].pc = "closed" /\ \A d \in Connection \ {c} : conn'[d] = conn[d]
  BY DEF Commit, Close, NoCall, PostgresInv
<1>4. WorkOk(conn'[c], record')
  BY <1>3 DEF WorkOk, IsOpen, Open
<1>5. ASSUME NEW d \in Connection \ {c}
      PROVE  WorkOk(conn[d], record')
  <2>1. WorkOk(conn[d], record) /\ Apart(k, conn[d]) /\ (IsOpen(conn[d]) => conn[d].call.job \in Job)
    BY DEF WorkInv, PostgresInv, ConnOk, CallOk
  <2>2. CASE ~IsOpen(conn[d]) \/ conn[d].call.job # j
    BY <2>1, <2>2, <1>2 DEF WorkOk
  <2>3. CASE IsOpen(conn[d]) /\ conn[d].call.job = j
    <3>1. ~Changed(conn[d])
      BY <2>1, <2>3, <1>1 DEF Apart, Holding, Changed
    <3> QED BY <3>1, <2>1 DEF WorkOk
  <2> QED BY <2>2, <2>3
<1> QED BY <1>3, <1>4, <1>5 DEF WorkInv

LEMMA BeginWorks ==
  ASSUME PostgresInv, WorkInv, NEW c \in Connection, NEW call \in Calls, Begin(c, call)
  PROVE  WorkInv'
<1> DEFINE k == [NoCall EXCEPT !.pc = FirstPc(call), !.call = call]
<1>1. conn' = [conn EXCEPT ![c] = k] /\ UNCHANGED record
  BY DEF Begin
<1>2. k.pc = FirstPc(call) /\ k.call = call
  BY DEF NoCall
<1>3. k.pc = "numbering" => call.op \notin {"insert", "update", "log"}
  BY <1>2 DEF FirstPc
<1>4. k.pc \notin {"inserting", "committing"}
  BY <1>2 DEF FirstPc
<1> HIDE DEF k
<1>5. WorkOk(k, record)
  BY <1>2, <1>3, <1>4 DEF WorkOk, Changed
<1> QED BY <1>1, <1>5, WorkMoves

LEMMA WorkInvHolds == StoresSpec => []WorkInv
<1>1. StoresInit => WorkInv
  BY WorkInvInit DEF StoresInit
<1>2. PostgresInv /\ WorkInv /\ [StoresNext]_storesVars => WorkInv'
  <2>1. ASSUME PostgresInv, WorkInv, PostgresStep PROVE WorkInv'
    <3>1. PICK c \in Connection : Step(c) \/ Abort(c) \/ \E call \in Calls : Begin(c, call)
      BY <2>1 DEF PostgresStep
    <3>2. CASE Abort(c)
      BY <3>2, <2>1, WorkCloses DEF Abort
    <3>3. CASE Step(c)
      BY <3>3, <2>1, StatementsWork, CommitWorks DEF Step
    <3> QED BY <3>1, <3>2, <3>3, <2>1, BeginWorks
  <2>2. WorkInv /\ UNCHANGED postgresVars => WorkInv'
    BY DEF postgresVars, WorkInv
  <2>3. UNCHANGED storesVars => UNCHANGED postgresVars
    BY DEF storesVars
  <2> QED BY <2>1, <2>2, <2>3, OthersLeaveTheJobsAlone
<1> QED BY <1>1, <1>2, PostgresInvHolds, PTL DEF StoresSpec
-----------------------------------------------------------------------------
\* The events of a job, in the order of their numbers.
Line(evs) ==
  [n \in 1..Cardinality(evs) |-> (CHOOSE event \in evs : event.seq = n).type]

\* As many events as there are numbers: one event has each.
LEMMA NumberedOnce ==
  ASSUME NEW evs, IsFiniteSet(evs), {event.seq : event \in evs} = 1..Cardinality(evs),
         NEW a \in evs, NEW b \in evs, a.seq = b.seq
  PROVE  a = b
<1> DEFINE n == Cardinality(evs)
           f == [event \in evs |-> event.seq]
<1>1. n \in Nat /\ IsFiniteSet(1..n) /\ Cardinality(1..n) = n
  <2>1. n \in Nat
    BY FS_CardinalityType
  <2> QED BY <2>1, FS_Interval
<1>2. f \in Surjection(evs, 1..n)
  BY DEF Surjection
<1> HIDE DEF n
<1>3. f \in Injection(evs, 1..n)
  BY <1>1, <1>2, FS_SurjSameCardinalityImpliesInj DEF n
<1> QED BY <1>3 DEF Injection, IsInjective

LEMMA LineGrows ==
  ASSUME NEW evs, IsFiniteSet(evs), {event.seq : event \in evs} = 1..Cardinality(evs),
         NEW type
  PROVE  Line(evs \union {[seq |-> Cardinality(evs) + 1, type |-> type]}) = Append(Line(evs), type)
<1> DEFINE n == Cardinality(evs)
           last == [seq |-> n + 1, type |-> type]
           more == evs \union {last}
           Of(S, m) == CHOOSE event \in S : event.seq = m
<1>1. n \in Nat
  BY FS_CardinalityType
<1>2. last.seq = n + 1 /\ last.type = type
  OBVIOUS
<1>3. \A event \in evs : event.seq \in 1..n
  OBVIOUS
<1> HIDE DEF last
<1>4. last \notin evs
  <2> HIDE DEF n
  <2> QED BY <1>1, <1>2, <1>3
<1>5. Cardinality(more) = n + 1
  BY <1>4, FS_AddElement
<1>6. ASSUME NEW m \in 1..n PROVE Of(more, m) = Of(evs, m)
  <2>1. \E event \in evs : event.seq = m
    OBVIOUS
  <2>2. Of(evs, m) \in evs /\ Of(evs, m).seq = m
    BY <2>1
  <2>3. Of(more, m) \in more /\ Of(more, m).seq = m
    BY <2>1
  <2>4. m # n + 1
    <3> HIDE DEF n
    <3> QED BY <1>1
  <2>5. Of(more, m) \in evs
    BY <2>3, <2>4, <1>2
  <2> HIDE DEF Of
  <2> QED BY <2>2, <2>3, <2>5, NumberedOnce
<1>7. Of(more, n + 1) = last
  <2>1. last \in more /\ last.seq = n + 1
    BY <1>2
  <2>2. Of(more, n + 1) \in more /\ Of(more, n + 1).seq = n + 1
    BY <2>1
  <2>3. n + 1 \notin 1..n
    <3> HIDE DEF n
    <3> QED BY <1>1
  <2> HIDE DEF Of
  <2> QED BY <2>2, <2>3, <1>3
<1>8. Line(evs) = [m \in 1..n |-> Of(evs, m).type]
  BY DEF Line
<1>9. Line(more) = [m \in 1..(n + 1) |-> Of(more, m).type]
  BY <1>5 DEF Line
<1> DEFINE s == [m \in 1..n |-> Of(evs, m).type]
           T == {type} \union {s[m] : m \in 1..n}
<1> HIDE DEF n, Of, more
<1>10. s \in Seq(T) /\ Len(s) = n
  BY <1>1
<1>11. Append(s, type) = [m \in 1..(n + 1) |-> IF m = n + 1 THEN type ELSE s[m]]
  <2>1. Append(s, type) \in Seq(T) /\ Len(Append(s, type)) = n + 1
        /\ \A m \in 1..(n + 1) : Append(s, type)[m] = IF m = n + 1 THEN type ELSE s[m]
    <3> HIDE DEF s, T
    <3>1. type \in T
      BY DEF T
    <3> QED BY <1>1, <1>10, <3>1
  <2> DEFINE b == Append(s, type)
  <2>2. b \in Seq(T) /\ Len(b) = n + 1
    BY <2>1
  <2>3. \A m \in 1..(n + 1) : b[m] = IF m = n + 1 THEN type ELSE s[m]
    BY <2>1
  <2> HIDE DEF s, T, b
  <2>4. b = [m \in 1..(n + 1) |-> b[m]]
    BY <1>1, <2>2
  <2>5. b = [m \in 1..(n + 1) |-> IF m = n + 1 THEN type ELSE s[m]]
    BY <2>3, <2>4
  <2> QED BY <2>5 DEF b
<1>12. \A m \in 1..(n + 1) : Of(more, m).type = IF m = n + 1 THEN type ELSE s[m]
  BY <1>1, <1>2, <1>6, <1>7
<1>13. Line(more) = [m \in 1..(n + 1) |-> IF m = n + 1 THEN type ELSE s[m]]
  BY <1>9, <1>12
<1>14. Line(more) = Append(s, type) /\ Line(evs) = s
  BY <1>13, <1>11, <1>8
<1> HIDE DEF s
<1> QED BY <1>14 DEF more, last, n

\* What is committed: one record as its statements made it, one event after
\* the others of its job, and the output if that was the call.
Committed(call) ==
  /\ call.job \in Job
  /\ record' = [record EXCEPT ![call.job] =
                  IF call.op \in {"event", "output"} THEN @ ELSE RowAfter(call, @)]
  /\ call.op = "insert" => record[call.job] = NoRow
  /\ call.op = "update" => record[call.job].status \in call.from
  /\ \A i \in Job : Timeline(i)' = IF i = call.job THEN Append(Timeline(i), call.type)
                                   ELSE Timeline(i)
  /\ outputs' = IF call.op = "output" THEN outputs \union {call.job} ELSE outputs

LEMMA WhatIsCommitted ==
  ASSUME PostgresInv, WorkInv, NEW c \in Connection, Commit(c)
  PROVE  \E call \in Calls : Committed(call)
<1> DEFINE k == conn[c]
           call == k.call
           j == call.job
<1>1. k.pc = "committing" /\ IsOpen(k) /\ WorkOk(k, record) /\ ConnOk(k, record, events)
  BY DEF Commit, IsOpen, Open, PostgresInv, WorkInv
<1>2. call \in Calls /\ j \in Job /\ CallOk(call)
  BY <1>1 DEF WorkOk, ConnOk, CallOk
<1>3. call.op \notin {"event", "output"} => Changed(k)
  BY <1>1, <1>2 DEF Changed, CallOk
<1>4. record' = [record EXCEPT ![j] = IF call.op \in {"event", "output"} THEN @ ELSE RowAfter(call, @)]
  BY <1>1, <1>3 DEF Commit, JobOf, OpOf, WorkOk
<1>5. call.op = "insert" => record[j] = NoRow
  BY <1>1 DEF ConnOk
<1>6. call.op = "update" => record[j].status \in call.from
  BY <1>1, <1>3 DEF WorkOk
<1>7. ASSUME NEW i \in Job
      PROVE  Timeline(i)' = IF i = j THEN Append(Timeline(i), call.type) ELSE Timeline(i)
  <2>1. Timeline(i) = Line(events[i]) /\ Timeline(i)' = Line(events'[i])
    BY DEF Timeline, Line
  <2>2. CASE i # j
    <3>1. events'[i] = events[i]
      BY <2>2 DEF Commit, JobOf, PostgresInv
    <3> QED BY <2>1, <2>2, <3>1
  <2>3. CASE i = j
    <3>1. events'[j] = events[j] \union {[seq |-> k.seq, type |-> call.type]}
      BY <1>2 DEF Commit, JobOf, PostgresInv
    <3>2. k.seq = Cardinality(events[j]) + 1
      BY <1>1 DEF ConnOk
    <3>3. IsFiniteSet(events[j]) /\ {event.seq : event \in events[j]} = 1..Cardinality(events[j])
      BY <1>2 DEF PostgresInv, JobOk
    <3>4. Line(events'[j]) = Append(Line(events[j]), call.type)
      BY <3>1, <3>2, <3>3, LineGrows
    <3> QED BY <2>1, <2>3, <3>4
  <2> QED BY <2>2, <2>3
<1>8. outputs' = IF call.op = "output" THEN outputs \union {j} ELSE outputs
  BY DEF Commit, OpOf, JobOf
<1> HIDE DEF call
<1> QED BY <1>2, <1>4, <1>5, <1>6, <1>7, <1>8 DEF Committed

-----------------------------------------------------------------------------
LEMMA CommittedToExecutions ==
  ASSUME PostgresInv, NEW call \in Calls, Committed(call)
  PROVE  (\E e \in Exec : ExecutionStep(e)) \/ UNCHANGED (Executions!storeVars)
<1> DEFINE e == call.job
           status == [x \in Exec |-> record[x].status]
           detail == [x \in Exec |-> record[x].detail]
           logSeq == [x \in Exec |-> record[x].logSeq]
           output == [x \in Exec |-> record[x].output]
           timeline == [x \in Exec |-> Timeline(x)]
           now == record'[e]
<1>1. \A i \in Job \ {e} : record'[i] = record[i] /\ Timeline(i)' = Timeline(i)
  BY DEF Committed, PostgresInv
<1>2. e \in Job /\ Timeline(e)' = Append(Timeline(e), call.type)
      /\ now = IF call.op \in {"event", "output"} THEN record[e] ELSE RowAfter(call, record[e])
  BY DEF Committed, PostgresInv
<1>3. \A x \in Exec : x \in Job
  BY DEF Job
<1>4. CASE e \notin Exec
  <2>1. status' = status /\ detail' = detail /\ logSeq' = logSeq /\ output' = output /\ timeline' = timeline
    BY <1>1, <1>3, <1>4
  <2> QED BY <2>1 DEF Executions!storeVars
<1>5. CASE e \in Exec
  <2>1. /\ status' = [status EXCEPT ![e] = now.status]
        /\ detail' = [detail EXCEPT ![e] = now.detail]
        /\ logSeq' = [logSeq EXCEPT ![e] = now.logSeq]
        /\ output' = [output EXCEPT ![e] = now.output]
        /\ timeline' = [timeline EXCEPT ![e] = Append(@, call.type)]
    BY <1>1, <1>2, <1>3, <1>5
  <2>2. /\ status[e] = record[e].status /\ detail[e] = record[e].detail
        /\ logSeq[e] = record[e].logSeq /\ output[e] = record[e].output
    BY <1>5
  <2>3. call \in ExecutionCalls(e)
    <3>1. ASSUME NEW t \in Task, call \in TaskCalls(t) PROVE FALSE
      <4>1. e = t
        BY <3>1 DEF TaskCalls, CreateTask, ClaimTask, CompleteTask, FailTask, CancelTask, CreateOutput,
                    AppendTaskEvent, Insert, Update, Plain
      <4> QED BY <4>1, <1>5, JobAssumption
    <3>2. ASSUME NEW x \in Exec, call \in ExecutionCalls(x) PROVE x = e
      BY <3>2 DEF ExecutionCalls, CreateExecution, StartExecution, CompleteExecution, FailExecution,
                  CancelExecution, AppendLogChunk, AppendExecutionEvent, Insert, Update, Plain
    <3> QED BY <3>1, <3>2 DEF Calls
  <2>4. RowOk(record[e]) /\ DOMAIN record[e] = Columns
    BY <1>2 DEF PostgresInv, JobOk, RowOk
  <2>5. CASE call = CreateExecution(e)
    <3>1. call.op = "insert" /\ call.type = "queued" /\ call.set = [status |-> "queued", kind |-> "none"]
      BY <2>5 DEF CreateExecution, Insert
    <3>2. record[e] = NoRow
      BY <3>1 DEF Committed
    <3>3. now.status = "queued" /\ now.detail = record[e].detail /\ now.logSeq = record[e].logSeq
          /\ now.output = record[e].output
      BY <1>2, <2>4, <3>1 DEF RowAfter, Columns
    <3>4. record[e].status = "absent"
      BY <3>2 DEF NoRow
    <3>5. Executions!CreateExecution(e)
      <4>1. detail' = detail /\ logSeq' = logSeq /\ output' = output
        BY <2>1, <2>2, <3>3
      <4> QED BY <4>1, <2>1, <2>2, <3>1, <3>3, <3>4 DEF Executions!CreateExecution, Executions!Record
    <3> QED BY <3>5, <1>5 DEF ExecutionStep
  <2>6. CASE call = StartExecution(e)
    <3>1. call.op = "update" /\ call.type = "started" /\ call.set = [status |-> "running"]
          /\ call.from = {"queued"}
      BY <2>6 DEF StartExecution, Update
    <3>2. record[e].status = "queued"
      BY <3>1 DEF Committed
    <3>3. now.status = "running" /\ now.detail = record[e].detail /\ now.logSeq = record[e].logSeq
          /\ now.output = record[e].output
      BY <1>2, <2>4, <3>1 DEF RowAfter, Columns
    <3>4. Executions!MarkStarted(e)
      <4>1. detail' = [detail EXCEPT ![e] = detail[e]] /\ logSeq' = logSeq /\ output' = output
        BY <2>1, <2>2, <3>3
      <4> QED BY <4>1, <2>1, <2>2, <3>1, <3>2, <3>3
              DEF Executions!MarkStarted, Executions!MoveStatus, Executions!Record
    <3> QED BY <3>4, <1>5 DEF ExecutionStep
  <2>7. ASSUME NEW text \in Text, call = CompleteExecution(e, text)
        PROVE  \E x \in Exec : ExecutionStep(x)
    <3>1. call.op = "update" /\ call.type = "completed" /\ call.from = {"queued", "running"}
          /\ call.set = [status |-> "completed", detail |-> "none", output |-> text]
      BY <2>7 DEF CompleteExecution, Update
    <3>2. record[e].status \in {"queued", "running"}
      BY <3>1 DEF Committed
    <3>3. now.status = "completed" /\ now.detail = "none" /\ now.logSeq = record[e].logSeq
          /\ now.output = text
      BY <1>2, <2>4, <3>1 DEF RowAfter, Columns
    <3>4. Executions!MarkCompleted(e, text)
      <4>1. logSeq' = logSeq
        BY <2>1, <2>2, <3>3
      <4> QED BY <4>1, <2>1, <2>2, <3>1, <3>2, <3>3
              DEF Executions!MarkCompleted, Executions!MoveStatus, Executions!Record,
                  Executions!Completable
    <3> QED BY <3>4, <1>5 DEF ExecutionStep
  <2>8. ASSUME NEW text \in Text, call = FailExecution(e, "runtime_failed", text)
        PROVE  \E x \in Exec : ExecutionStep(x)
    <3>1. call.op = "update" /\ call.type = "failed" /\ call.from = {"queued", "running"}
          /\ call.set = [status |-> "failed", detail |-> "runtime_failed", output |-> text]
      BY <2>8 DEF FailExecution, Update
    <3>2. record[e].status \in {"queued", "running"}
      BY <3>1 DEF Committed
    <3>3. now.status = "failed" /\ now.detail = "runtime_failed" /\ now.logSeq = record[e].logSeq
          /\ now.output = text
      BY <1>2, <2>4, <3>1 DEF RowAfter, Columns
    <3>4. Executions!MarkFailed(e, "runtime_failed", text)
      <4>1. logSeq' = logSeq
        BY <2>1, <2>2, <3>3
      <4> QED BY <4>1, <2>1, <2>2, <3>1, <3>2, <3>3
              DEF Executions!MarkFailed, Executions!MoveStatus, Executions!Record,
                  Executions!Unsettled, Executions!FailedEvent
    <3> QED BY <3>4, <1>5 DEF ExecutionStep
  <2>9. CASE call = CancelExecution(e, "by_request")
    <3>1. call.op = "update" /\ call.type = "cancelled" /\ call.from = {"queued", "running"}
          /\ call.set = [status |-> "cancelled", detail |-> "by_request"]
      BY <2>9 DEF CancelExecution, Update
    <3>2. record[e].status \in {"queued", "running"}
      BY <3>1 DEF Committed
    <3>3. now.status = "cancelled" /\ now.detail = "by_request" /\ now.logSeq = record[e].logSeq
          /\ now.output = record[e].output
      BY <1>2, <2>4, <3>1 DEF RowAfter, Columns
    <3>4. Executions!MarkCancelled(e, "by_request")
      <4>1. logSeq' = logSeq /\ output' = output
        BY <2>1, <2>2, <3>3
      <4> QED BY <4>1, <2>1, <2>2, <3>1, <3>2, <3>3
              DEF Executions!MarkCancelled, Executions!MoveStatus, Executions!Record,
                  Executions!Unsettled
    <3> QED BY <3>4, <1>5 DEF ExecutionStep
  <2>10. CASE call = AppendLogChunk(e)
    <3>1. call.op = "log" /\ call.type = "log"
      BY <2>10 DEF AppendLogChunk, Plain
    <3>2. now.status = record[e].status /\ now.detail = record[e].detail
          /\ now.logSeq = record[e].logSeq + 1 /\ now.output = record[e].output + 1
      <4>1. now = [record[e] EXCEPT !.logSeq = @ + 1, !.output = @ + 1]
        BY <1>2, <3>1 DEF RowAfter
      <4> QED BY <4>1, <2>4 DEF Columns
    <3>3. Executions!AppendLogChunk(e)
      <4>1. status' = status /\ detail' = detail
        BY <2>1, <2>2, <3>2
      <4> QED BY <4>1, <2>1, <2>2, <3>1, <3>2
              DEF Executions!AppendLogChunk, Executions!Record
    <3> QED BY <3>3, <1>5 DEF ExecutionStep
  <2>11. CASE call = AppendExecutionEvent(e)
    <3>1. call.op = "event" /\ call.type = "cancel_requested"
      BY <2>11 DEF AppendExecutionEvent, Plain
    <3>2. Executions!AppendEvent(e, "cancel_requested")
      <4>1. now = record[e]
        BY <1>2, <3>1
      <4>2. status' = status /\ detail' = detail /\ logSeq' = logSeq /\ output' = output
        BY <2>1, <2>2, <4>1
      <4> QED BY <4>2, <2>1, <3>1 DEF Executions!AppendEvent, Executions!Record
    <3> QED BY <3>2, <1>5 DEF ExecutionStep
  <2> HIDE DEF e
  <2> QED BY <2>3, <2>5, <2>6, <2>7, <2>8, <2>9, <2>10, <2>11 DEF ExecutionCalls
<1> QED BY <1>4, <1>5
LEMMA CommittedToTasks ==
  ASSUME PostgresInv, NEW call \in Calls, Committed(call)
  PROVE  (\E t \in Task : TaskStep(t)) \/ UNCHANGED (Tasks!storeVars)
<1> DEFINE t == call.job
           status == [x \in Task |-> record[x].status]
           kind == [x \in Task |-> record[x].kind]
           timeline == [x \in Task |-> Timeline(x)]
           linked == [x \in Task |-> {}]
           now == record'[t]
<1>1. \A i \in Job \ {t} : record'[i] = record[i] /\ Timeline(i)' = Timeline(i)
  BY DEF Committed, PostgresInv
<1>2. /\ t \in Job /\ Timeline(t)' = Append(Timeline(t), call.type)
      /\ now = IF call.op \in {"event", "output"} THEN record[t] ELSE RowAfter(call, record[t])
      /\ outputs' = IF call.op = "output" THEN outputs \union {t} ELSE outputs
  BY DEF Committed, PostgresInv
<1>3. \A x \in Task : x \in Job
  BY DEF Job
<1>4. CASE t \notin Task
  <2>1. call.op # "output"
    <3>1. \E x \in Exec : call \in ExecutionCalls(x)
      <4>1. ASSUME NEW x \in Task, call \in TaskCalls(x) PROVE t = x
        BY <4>1 DEF TaskCalls, CreateTask, ClaimTask, CompleteTask, FailTask, CancelTask, CreateOutput,
                    AppendTaskEvent, Insert, Update, Plain
      <4> QED BY <4>1, <1>4 DEF Calls
    <3> QED BY <3>1 DEF ExecutionCalls, CreateExecution, StartExecution, CompleteExecution,
                        FailExecution, CancelExecution, AppendLogChunk, AppendExecutionEvent,
                        Insert, Update, Plain
  <2>2. status' = status /\ kind' = kind /\ timeline' = timeline /\ outputs' = outputs /\ linked' = linked
    BY <1>1, <1>2, <1>3, <1>4, <2>1
  <2> QED BY <2>2 DEF Tasks!storeVars
<1>5. CASE t \in Task
  <2>1. /\ status' = [status EXCEPT ![t] = now.status]
        /\ kind' = [kind EXCEPT ![t] = now.kind]
        /\ timeline' = [timeline EXCEPT ![t] = Append(@, call.type)]
        /\ linked' = linked
    BY <1>1, <1>2, <1>3, <1>5
  <2>2. status[t] = record[t].status /\ kind[t] = record[t].kind
    BY <1>5
  <2>3. call \in TaskCalls(t)
    <3>1. ASSUME NEW e \in Exec, call \in ExecutionCalls(e) PROVE FALSE
      <4>1. t = e
        BY <3>1 DEF ExecutionCalls, CreateExecution, StartExecution, CompleteExecution, FailExecution,
                    CancelExecution, AppendLogChunk, AppendExecutionEvent, Insert, Update, Plain
      <4> QED BY <4>1, <1>5, JobAssumption
    <3>2. ASSUME NEW x \in Task, call \in TaskCalls(x) PROVE x = t
      BY <3>2 DEF TaskCalls, CreateTask, ClaimTask, CompleteTask, FailTask, CancelTask, CreateOutput,
                  AppendTaskEvent, Insert, Update, Plain
    <3> QED BY <3>1, <3>2 DEF Calls
  <2>4. RowOk(record[t]) /\ DOMAIN record[t] = Columns
    BY <1>2 DEF PostgresInv, JobOk, RowOk
  <2>5. CASE call = CreateTask(t, "canvas")
    <3>1. call.op = "insert" /\ call.type = "queued" /\ call.set = [status |-> "queued", kind |-> "canvas"]
      BY <2>5 DEF CreateTask, Insert
    <3>2. record[t].status = "absent"
      BY <3>1 DEF Committed, NoRow
    <3>3. now.status = "queued" /\ now.kind = "canvas"
      BY <1>2, <2>4, <3>1 DEF RowAfter, Columns
    <3>4. Tasks!CreateTask(t, "canvas")
      <4>1. outputs' = outputs
        BY <1>2, <3>1
      <4> QED BY <4>1, <2>1, <2>2, <3>1, <3>2, <3>3 DEF Tasks!CreateTask, Tasks!Record
    <3> QED BY <3>4, <1>5 DEF TaskStep
  <2>6. CASE call = ClaimTask(t)
    <3>1. call.op = "update" /\ call.type = "started" /\ call.from = {"queued"}
          /\ call.set = [status |-> "running"]
      BY <2>6 DEF ClaimTask, Update
    <3>2. record[t].status \in {"queued"}
      BY <3>1 DEF Committed
    <3>3. now.status = "running" /\ now.kind = record[t].kind
      BY <1>2, <2>4, <3>1 DEF RowAfter, Columns
    <3>4. Tasks!ClaimTask(t)
      <4>1. kind' = kind /\ outputs' = outputs
        BY <1>2, <2>1, <2>2, <3>1, <3>3
      <4> QED BY <4>1, <2>1, <2>2, <3>1, <3>2, <3>3
              DEF Tasks!ClaimTask, Tasks!MoveStatus, Tasks!Record, Tasks!EventOf
    <3> QED BY <3>4, <1>5 DEF TaskStep
  <2>7. CASE call = CompleteTask(t)
    <3>1. call.op = "update" /\ call.type = "completed" /\ call.from = {"queued", "running"}
          /\ call.set = [status |-> "completed"]
      BY <2>7 DEF CompleteTask, Update
    <3>2. record[t].status \in {"queued", "running"}
      BY <3>1 DEF Committed
    <3>3. now.status = "completed" /\ now.kind = record[t].kind
      BY <1>2, <2>4, <3>1 DEF RowAfter, Columns
    <3>4. Tasks!MarkCompleted(t)
      <4>1. kind' = kind /\ outputs' = outputs
        BY <1>2, <2>1, <2>2, <3>1, <3>3
      <4> QED BY <4>1, <2>1, <2>2, <3>1, <3>2, <3>3
              DEF Tasks!MarkCompleted, Tasks!MoveStatus, Tasks!Record, Tasks!EventOf, Tasks!Completable
    <3> QED BY <3>4, <1>5 DEF TaskStep
  <2>8. CASE call = FailTask(t)
    <3>1. call.op = "update" /\ call.type = "failed" /\ call.from = {"queued", "running"}
          /\ call.set = [status |-> "failed"]
      BY <2>8 DEF FailTask, Update
    <3>2. record[t].status \in {"queued", "running"}
      BY <3>1 DEF Committed
    <3>3. now.status = "failed" /\ now.kind = record[t].kind
      BY <1>2, <2>4, <3>1 DEF RowAfter, Columns
    <3>4. Tasks!MarkFailed(t)
      <4>1. kind' = kind /\ outputs' = outputs
        BY <1>2, <2>1, <2>2, <3>1, <3>3
      <4> QED BY <4>1, <2>1, <2>2, <3>1, <3>2, <3>3
              DEF Tasks!MarkFailed, Tasks!MoveStatus, Tasks!Record, Tasks!EventOf, Tasks!Unsettled
    <3> QED BY <3>4, <1>5 DEF TaskStep
  <2>9. CASE call = CancelTask(t)
    <3>1. call.op = "update" /\ call.type = "cancelled" /\ call.from = {"queued"}
          /\ call.set = [status |-> "cancelled"]
      BY <2>9 DEF CancelTask, Update
    <3>2. record[t].status \in {"queued"}
      BY <3>1 DEF Committed
    <3>3. now.status = "cancelled" /\ now.kind = record[t].kind
      BY <1>2, <2>4, <3>1 DEF RowAfter, Columns
    <3>4. Tasks!MarkCancelled(t)
      <4>1. kind' = kind /\ outputs' = outputs
        BY <1>2, <2>1, <2>2, <3>1, <3>3
      <4> QED BY <4>1, <2>1, <2>2, <3>1, <3>2, <3>3
              DEF Tasks!MarkCancelled, Tasks!MoveStatus, Tasks!Record, Tasks!EventOf, Tasks!Cancellable
    <3> QED BY <3>4, <1>5 DEF TaskStep
  <2>10. CASE call = CreateOutput(t)
    <3>1. call.op = "output" /\ call.type = "output_created"
      BY <2>10 DEF CreateOutput, Plain
    <3>2. status' = status /\ kind' = kind /\ outputs' = outputs \union {t}
      BY <1>2, <2>1, <2>2, <3>1
    <3>3. Tasks!CreateOutput(t)
      BY <3>1, <3>2, <2>1 DEF Tasks!CreateOutput, Tasks!Record
    <3> QED BY <3>3, <1>5 DEF TaskStep
  <2>11. CASE call = AppendTaskEvent(t)
    <3>1. call.op = "event" /\ call.type = "retry_created"
      BY <2>11 DEF AppendTaskEvent, Plain
    <3>2. status' = status /\ kind' = kind /\ outputs' = outputs
      BY <1>2, <2>1, <2>2, <3>1
    <3>3. Tasks!AppendEvent(t, "retry_created")
      BY <3>1, <3>2, <2>1 DEF Tasks!AppendEvent, Tasks!Record
    <3> QED BY <3>3, <1>5 DEF TaskStep
  <2> HIDE DEF t
  <2> QED BY <2>3, <2>5, <2>6, <2>7, <2>8, <2>9, <2>10, <2>11 DEF TaskCalls
<1> QED BY <1>4, <1>5

\* A step of no commit leaves every store as it was.
LEMMA NothingCommitted ==
  ASSUME UNCHANGED <<record, events, outputs>>
  PROVE  UNCHANGED (Executions!storeVars) /\ UNCHANGED (Tasks!storeVars)
BY DEF Executions!storeVars, Tasks!storeVars, Timeline

(***************************************************************************)
(* TransactionsAreWhole.  For any connections on any executions and tasks: *)
(* whatever is committed is one whole operation of SandboxStore or of      *)
(* WorkbenchStore, though its statements interleave with those of others   *)
(* and any connection may be lost.  SandboxSystem and WorkbenchSystem may  *)
(* take each call for one step.                                            *)
(***************************************************************************)
THEOREM TransactionsAreWhole == StoresSpec => JobsAreAtomic
<1> DEFINE Whole ==
             /\ (\E e \in Exec : ExecutionStep(e)) \/ UNCHANGED (Executions!storeVars)
             /\ (\E t \in Task : TaskStep(t)) \/ UNCHANGED (Tasks!storeVars)
<1>1. PostgresInv /\ WorkInv /\ [StoresNext]_storesVars => Whole
  <2>1. ASSUME PostgresInv, WorkInv, PostgresStep PROVE Whole
    <3>1. PICK c \in Connection : Step(c) \/ Abort(c) \/ \E call \in Calls : Begin(c, call)
      BY <2>1 DEF PostgresStep
    <3>2. CASE Commit(c)
      <4>1. PICK call \in Calls : Committed(call)
        BY <3>2, <2>1, WhatIsCommitted
      <4> QED BY <4>1, <2>1, CommittedToExecutions, CommittedToTasks
    <3>3. CASE ~Commit(c)
      <4>1. UNCHANGED <<record, events, outputs>>
        BY <3>1, <3>3 DEF Step, Abort, Begin, LockParentRow, Write, Number, InsertEvent
      <4> QED BY <4>1, NothingCommitted
    <3> QED BY <3>2, <3>3
  <2>2. UNCHANGED postgresVars => Whole
    BY NothingCommitted DEF postgresVars
  <2>3. UNCHANGED storesVars => UNCHANGED postgresVars
    BY DEF storesVars
  <2> QED BY <2>1, <2>2, <2>3, OthersLeaveTheJobsAlone
<1>2. Whole => [\/ UNCHANGED <<record, events>>
                \/ \E e \in Exec : ExecutionStep(e)]_(Executions!storeVars)
  OBVIOUS
<1>3. Whole => [\/ UNCHANGED <<record, events>>
                \/ \E t \in Task : TaskStep(t)]_(Tasks!storeVars)
  OBVIOUS
<1> QED BY <1>1, <1>2, <1>3, PostgresInvHolds, WorkInvHolds, PTL
        DEF StoresSpec, JobsAreAtomic, ExecutionsAreAtomic, TasksAreAtomic

-----------------------------------------------------------------------------
(***************************************************************************)
(* Deployments.  A run of the script goes through the entries of the tree  *)
(* in a fixed order of phases, and what each phase has reached decides     *)
(* what may be there: while entries are copied there is no manifest.       *)
(***************************************************************************)
LEMMA OthersLeaveTheHost ==
  StoresNext => ReleaseStep \/ UNCHANGED releaseVars
BY DEF StoresNext, InKeys, InPostgres, InDeployment, InMaintenance, InPurge, InCutover

Pcs == {"idle", "validate", "remove", "copy", "keep", "name", "stop", "unit",
        "unit_health", "free", "start", "pid", "health", "contract", "done"}

\* From here on the entries of the bundle are in the tree ...
Copied == {"keep", "name", "stop", "unit", "unit_health", "free", "start", "pid",
           "health", "contract", "done"}

\* ... and from here on the port is the new server's.
Taken == {"unit_health", "start", "pid", "health", "contract", "done"}

Runs == [pc : Pcs, bundle : Version \union {Missing}, named : Version \union {Missing},
         kept : Version \union {Missing}, todo : SUBSET Entries]
Servers == {NoServer} \union [release : Version, by : {"unit", "pid", "new", "stray"}]

ReleaseTypes ==
  /\ host \in {"systemd", "nohup", "bare", "windows"}
  /\ tree \in [Entries -> Version \union {Missing, "data"}]
  /\ \A n \in Entries \ Preserved : tree[n] \in Version \union {Missing}
  /\ deploy \in Runs /\ server \in Servers
  /\ pidfile \in BOOLEAN /\ unitUp \in BOOLEAN
  /\ history \in Seq(Version) /\ Len(history) <= 2

\* The manifest names what is there, and is away while that changes.
TreeInv ==
  /\ \A n \in Bundled : tree[Manifest] # Missing => tree[n] \in {tree[Manifest], Missing}
  /\ tree["var"] = "data"
  /\ deploy.pc = "validate" => deploy.bundle \in Version
  /\ deploy.pc \notin {"idle", "validate"} =>
       deploy.named = deploy.bundle /\ deploy.bundle \in Version
  /\ deploy.pc = "remove" => /\ deploy.todo \subseteq Entries \ Preserved
                             /\ \A n \in (Entries \ Preserved) \ deploy.todo : tree[n] = Missing
  /\ deploy.pc = "copy" => /\ deploy.todo \subseteq Bundled
                           /\ \A n \in Bundled \ deploy.todo : tree[n] = deploy.bundle
  /\ deploy.pc \in {"copy", "keep", "name"} => tree[Manifest] = Missing
  /\ deploy.pc \in Copied => \A n \in Bundled : tree[n] = deploy.bundle

\* The manifest that was put aside is the last one that was named.
HistoryInv ==
  /\ ~Installing /\ history # <<>> => tree[Manifest] = history[Len(history)]
  /\ ~Installing /\ Len(history) = 2 => tree[Previous] = history[1]
  /\ deploy.pc = "validate" => deploy.kept = tree[Manifest]
  /\ Installing /\ history # <<>> => deploy.kept = history[Len(history)]
  /\ deploy.pc = "name" /\ history # <<>> => tree[Previous] = history[Len(history)]

\* Who knows of the server, and from which phase on it is the new one.
ServerInv ==
  /\ server.by = "pid" => pidfile
  /\ server.by = "unit" => host = "systemd"
  /\ unitUp => host = "systemd"
  /\ server.by = "new" => deploy.pc = "pid"
  /\ deploy.pc \in {"unit", "free"} => server.by # "pid"
  /\ deploy.pc \in {"unit", "unit_health"} => host = "systemd"
  /\ deploy.pc \in Taken =>
       \/ server = NoServer
       \/ server.release = deploy.bundle
       \/ server.by = "stray" /\ host \in {"systemd", "bare"}

ReleaseInv == ReleaseTypes /\ TreeInv /\ HistoryInv /\ ServerInv

LEMMA ReleaseInvInit == ReleaseInit => ReleaseInv
<1> SUFFICES ASSUME ReleaseInit PROVE ReleaseInv
  OBVIOUS
<1>1. ReleaseTypes
  <2> USE DEF ReleaseInit
  <2>1. tree \in [Entries -> Version \union {Missing, "data"}]
    OBVIOUS
  <2>2. \A n \in Entries \ Preserved : tree[n] \in Version \union {Missing}
    OBVIOUS
  <2>3. deploy \in Runs /\ server \in Servers
    BY DEF NoDeploy, Pcs, Runs, Servers
  <2>4. history \in Seq(Version) /\ Len(history) <= 2
    OBVIOUS
  <2> QED BY <2>1, <2>2, <2>3, <2>4 DEF ReleaseTypes
<1>2. TreeInv
  BY DEF ReleaseInit, TreeInv, NoDeploy, NoServer, Entries, Bundled, Preserved, Copied, Missing,
         Manifest, Previous
<1>3. HistoryInv
  BY DEF ReleaseInit, HistoryInv, NoDeploy, Installing
<1>4. ServerInv
  BY DEF ReleaseInit, ServerInv, NoDeploy, NoServer, Taken
<1> QED BY <1>1, <1>2, <1>3, <1>4 DEF ReleaseInv

\* What the commands of the script make of a run and of a server.
LEMMA RunsStayRuns ==
  ASSUME NEW d \in Runs, NEW p \in Pcs, NEW todo \in SUBSET Entries
  PROVE  /\ [d EXCEPT !.pc = p] \in Runs
         /\ [d EXCEPT !.todo = todo] \in Runs
         /\ [d EXCEPT !.pc = p, !.todo = todo] \in Runs
         /\ NoDeploy \in Runs
BY DEF Runs, NoDeploy, Pcs

LEMMA ServersStayServers ==
  ASSUME NEW x \in Servers, x # NoServer, NEW by \in {"unit", "pid", "new", "stray"}
  PROVE  [x EXCEPT !.by = by] \in Servers
BY DEF Servers, NoServer

\* The fields of a run a command leaves alone.
SameRelease(d) ==
  d.bundle = deploy.bundle /\ d.named = deploy.named /\ d.kept = deploy.kept

LEMMA Validates ==
  ASSUME deploy \in Runs, ValidateReleaseArtifacts
  PROVE  /\ deploy.pc = "validate" /\ deploy' \in Runs /\ SameRelease(deploy')
         /\ UNCHANGED <<host, tree, server, pidfile, unitUp, history>>
         /\ \/ deploy'.pc = "idle"
            \/ /\ deploy.named = deploy.bundle
               /\ deploy'.pc = "remove" /\ deploy'.todo = Entries \ Preserved
<1> USE DEF Keep
<1>1. PICK expected \in Version :
        IF deploy.named = deploy.bundle /\ deploy.named = expected
          THEN deploy' = [deploy EXCEPT !.pc = "remove", !.todo = Entries \ Preserved]
          ELSE To("idle")
  BY DEF ValidateReleaseArtifacts
<1>2. deploy.pc = "validate" /\ UNCHANGED <<host, tree, server, pidfile, unitUp, history>>
  BY DEF ValidateReleaseArtifacts
<1>3. CASE deploy.named = deploy.bundle /\ deploy.named = expected
  <2>1. deploy' = [deploy EXCEPT !.pc = "remove", !.todo = Entries \ Preserved]
    BY <1>1, <1>3
  <2> QED BY <2>1, <1>2, <1>3 DEF Runs, SameRelease, Pcs
<1>4. CASE ~(deploy.named = deploy.bundle /\ deploy.named = expected)
  <2>1. deploy' = [deploy EXCEPT !.pc = "idle"]
    BY <1>1, <1>4 DEF To
  <2> QED BY <2>1, <1>2 DEF Runs, SameRelease, Pcs
<1> QED BY <1>3, <1>4

LEMMA Removes ==
  ASSUME deploy \in Runs, RemovePath
  PROVE  /\ deploy.pc = "remove" /\ deploy' \in Runs /\ SameRelease(deploy')
         /\ UNCHANGED <<host, server, pidfile, unitUp, history>>
         /\ \/ deploy.todo = {} /\ deploy'.pc = "copy" /\ deploy'.todo = Bundled /\ tree' = tree
            \/ \E n \in deploy.todo : /\ tree' = [tree EXCEPT ![n] = Missing]
                                     /\ deploy'.pc = "remove" /\ deploy'.todo = deploy.todo \ {n}
<1> USE DEF Keep
<1>1. deploy.pc = "remove" /\ UNCHANGED <<host, server, pidfile, unitUp, history>>
  BY DEF RemovePath
<1>2. CASE deploy.todo = {}
  <2>1. deploy' = [deploy EXCEPT !.pc = "copy", !.todo = Bundled] /\ tree' = tree
    BY <1>2 DEF RemovePath
  <2> QED BY <2>1, <1>1, <1>2 DEF Runs, SameRelease, Pcs, Entries
<1>3. CASE deploy.todo # {}
  <2>1. PICK n \in deploy.todo : /\ tree' = [tree EXCEPT ![n] = Missing]
                                 /\ deploy' = [deploy EXCEPT !.todo = @ \ {n}]
    BY <1>3 DEF RemovePath
  <2> QED BY <2>1, <1>1 DEF Runs, SameRelease, Pcs
<1> QED BY <1>2, <1>3

\* Of the names that were kept, what is left when one more comes.
LEMMA OlderNames ==
  ASSUME NEW h \in Seq(Version), Len(h) <= 2
  PROVE  /\ (IF Len(h) = 2 THEN Tail(h) ELSE h) \in Seq(Version)
         /\ Len(IF Len(h) = 2 THEN Tail(h) ELSE h) <= 1
         /\ Len(IF Len(h) = 2 THEN Tail(h) ELSE h) = 1 => 
              (IF Len(h) = 2 THEN Tail(h) ELSE h)[1] = h[Len(h)]
<1>1. CASE Len(h) = 2
  <2>1. h # <<>>
    BY <1>1
  <2>2. Tail(h) \in Seq(Version) /\ Len(Tail(h)) = 1 /\ Tail(h)[1] = h[2]
    BY <2>1, <1>1, HeadTailProperties
  <2>3. (IF Len(h) = 2 THEN Tail(h) ELSE h) = Tail(h) /\ h[Len(h)] = h[2]
    BY <1>1
  <2> HIDE <1>1
  <2> QED BY <2>2, <2>3
<1>2. CASE Len(h) # 2
  <2> DEFINE n == Len(h)
  <2>1. n \in Nat /\ n <= 2 /\ n # 2
    BY <1>2
  <2> HIDE DEF n
  <2>2. n <= 1
    BY <2>1
  <2> QED BY <1>2, <2>2 DEF n
<1> QED BY <1>1, <1>2

LEMMA TypesKept ==
  ASSUME ReleaseInv, ReleaseStep
  PROVE  ReleaseTypes'
<1> USE DEF ReleaseInv, Keep
<1>e. /\ "remove" \in Pcs /\ "copy" \in Pcs /\ "keep" \in Pcs /\ "name" \in Pcs /\ "stop" \in Pcs
      /\ "unit" \in Pcs /\ "unit_health" \in Pcs /\ "free" \in Pcs /\ "start" \in Pcs /\ "pid" \in Pcs
      /\ "health" \in Pcs /\ "contract" \in Pcs /\ "done" \in Pcs /\ "idle" \in Pcs /\ "validate" \in Pcs
  BY DEF Pcs
<1>d. deploy' \in Runs
  <2> USE <1>e, RunsStayRuns DEF ReleaseTypes, To
  <2>1. CASE \E b, m \in Version : BeginDeploy(b, m)
    <3>1. PICK b \in Version, m \in Version : BeginDeploy(b, m)
      BY <2>1
    <3>2. tree[Manifest] \in Version \union {Missing}
      BY DEF Entries, Bundled, Preserved, Manifest, Previous
    <3> QED BY <3>1, <3>2 DEF BeginDeploy, NoDeploy, Runs
  <2>2. CASE ValidateReleaseArtifacts
    <3>1. Entries \ Preserved \in SUBSET Entries
      OBVIOUS
    <3> QED BY <2>2, <3>1, Validates
  <2>3. CASE RemovePath
    <3>1. deploy.todo \in SUBSET Entries
      BY DEF Runs
    <3>2. Bundled \in SUBSET Entries
      BY DEF Entries
    <3>3. CASE deploy.todo = {}
      <4>1. deploy' = [deploy EXCEPT !.pc = "copy", !.todo = Bundled]
        BY <2>3, <3>3 DEF RemovePath
      <4> QED BY <4>1, <3>2
    <3>4. CASE deploy.todo # {}
      <4>1. PICK n \in deploy.todo : deploy' = [deploy EXCEPT !.todo = @ \ {n}]
        BY <2>3, <3>4 DEF RemovePath
      <4>2. deploy.todo \ {n} \in SUBSET Entries
        BY <3>1
      <4> QED BY <4>1, <4>2
    <3> QED BY <3>3, <3>4
  <2>4. CASE CopyEntry
    <3>1. deploy.todo \in SUBSET Entries
      BY DEF Runs
    <3>3. CASE deploy.todo = {}
      BY <2>4, <3>3 DEF CopyEntry
    <3>4. CASE deploy.todo # {}
      <4>1. PICK n \in deploy.todo : deploy' = [deploy EXCEPT !.todo = @ \ {n}]
        BY <2>4, <3>4 DEF CopyEntry
      <4>2. deploy.todo \ {n} \in SUBSET Entries
        BY <3>1
      <4> QED BY <4>1, <4>2
    <3> QED BY <3>3, <3>4
  <2>5. CASE KeepPreviousManifest
    BY <2>5 DEF KeepPreviousManifest
  <2>6. CASE CopyManifest
    BY <2>6 DEF CopyManifest
  <2>7. CASE StopPidfile
    BY <2>7 DEF StopPidfile
  <2>8. CASE RestartUnit
    BY <2>8 DEF RestartUnit
  <2>9. CASE UnitHealth
    BY <2>9 DEF UnitHealth
  <2>10. CASE FreePort
    BY <2>10 DEF FreePort
  <2>11. CASE StartServer
    BY <2>11 DEF StartServer
  <2>12. CASE WritePidfile
    BY <2>12 DEF WritePidfile
  <2>13. CASE HealthcheckPort
    BY <2>13 DEF HealthcheckPort
  <2>14. CASE PostDeployCheck
    BY <2>14 DEF PostDeployCheck
  <2>15. CASE ReportSuccess
    BY <2>15 DEF ReportSuccess
  <2>16. CASE DeployDies
    BY <2>16 DEF DeployDies
  <2>17. CASE ServerDies
    BY <2>17 DEF ServerDies
  <2>18. CASE UnitRestarts
    BY <2>18 DEF UnitRestarts
  <2>19. CASE Reboot
    BY <2>19 DEF Reboot
  <2> QED BY <2>1, <2>2, <2>3, <2>4, <2>5, <2>6, <2>7, <2>8, <2>9, <2>10, <2>11, <2>12, <2>13, <2>14, <2>15, <2>16, <2>17, <2>18, <2>19 DEF ReleaseStep, Scripted
<1>s. server' \in Servers
  <2> USE ServersStayServers DEF ReleaseTypes
  <2>0. NoServer \in Servers
    BY DEF Servers
  <2>b. ASSUME NEW held \in Servers, NEW by \in {"unit", "new"}, Boots(held, by)
        PROVE  server' \in Servers
    <3>1. tree["backend"] \in Version \union {Missing}
      BY DEF Entries, Bundled, Preserved, Manifest, Previous
    <3> QED BY <2>b, <3>1 DEF Boots, Servers
  <2>n. server.by # "nobody" => server # NoServer
    BY DEF NoServer
  <2>1. CASE \E b, m \in Version : BeginDeploy(b, m)
    BY <2>1, <2>0 DEF BeginDeploy
  <2>2. CASE ValidateReleaseArtifacts
    BY <2>2, <2>0 DEF ValidateReleaseArtifacts
  <2>3. CASE RemovePath
    BY <2>3, <2>0 DEF RemovePath
  <2>4. CASE CopyEntry
    BY <2>4, <2>0 DEF CopyEntry
  <2>5. CASE KeepPreviousManifest
    BY <2>5, <2>0 DEF KeepPreviousManifest
  <2>6. CASE CopyManifest
    BY <2>6, <2>0 DEF CopyManifest
  <2>7. CASE StopPidfile
    BY <2>7, <2>0 DEF StopPidfile, StoppedByPid
  <2>8. CASE RestartUnit
    BY <2>8, <2>0, <2>b DEF RestartUnit
  <2>9. CASE UnitHealth
    BY <2>9, <2>0 DEF UnitHealth
  <2>10. CASE FreePort
    BY <2>10, <2>0 DEF FreePort
  <2>11. CASE StartServer
    BY <2>11, <2>0, <2>b DEF StartServer
  <2>12. CASE WritePidfile
    BY <2>12, <2>0, <2>n DEF WritePidfile
  <2>13. CASE HealthcheckPort
    BY <2>13, <2>0 DEF HealthcheckPort, StoppedByPid, NothingStopped
  <2>14. CASE PostDeployCheck
    BY <2>14, <2>0 DEF PostDeployCheck, StoppedByPid, NothingStopped
  <2>15. CASE ReportSuccess
    BY <2>15, <2>0 DEF ReportSuccess
  <2>16. CASE DeployDies
    BY <2>16, <2>0, <2>n DEF DeployDies
  <2>17. CASE ServerDies
    BY <2>17, <2>0 DEF ServerDies
  <2>18. CASE UnitRestarts
    BY <2>18, <2>0, <2>b DEF UnitRestarts
  <2>19. CASE Reboot
    BY <2>19, <2>0 DEF Reboot
  <2> QED BY <2>1, <2>2, <2>3, <2>4, <2>5, <2>6, <2>7, <2>8, <2>9, <2>10, <2>11, <2>12, <2>13, <2>14, <2>15, <2>16, <2>17, <2>18, <2>19 DEF ReleaseStep, Scripted
<1>t. /\ tree' \in [Entries -> Version \union {Missing, "data"}]
      /\ \A n \in (Entries \ Preserved) : tree[n]' \in Version \union {Missing}
  <2> USE DEF ReleaseTypes, TreeInv, Entries, Bundled, Preserved, Manifest, Previous, Runs
  <2>1. CASE \E b, m \in Version : BeginDeploy(b, m)
    BY <2>1 DEF BeginDeploy
  <2>2. CASE ValidateReleaseArtifacts
    BY <2>2 DEF ValidateReleaseArtifacts
  <2>3. CASE RemovePath
    BY <2>3 DEF RemovePath
  <2>4. CASE CopyEntry
    BY <2>4 DEF CopyEntry
  <2>5. CASE KeepPreviousManifest
    BY <2>5 DEF KeepPreviousManifest
  <2>6. CASE CopyManifest
    BY <2>6 DEF CopyManifest
  <2>7. CASE StopPidfile
    BY <2>7 DEF StopPidfile
  <2>8. CASE RestartUnit
    BY <2>8 DEF RestartUnit
  <2>9. CASE UnitHealth
    BY <2>9 DEF UnitHealth
  <2>10. CASE FreePort
    BY <2>10 DEF FreePort
  <2>11. CASE StartServer
    BY <2>11 DEF StartServer
  <2>12. CASE WritePidfile
    BY <2>12 DEF WritePidfile
  <2>13. CASE HealthcheckPort
    BY <2>13 DEF HealthcheckPort
  <2>14. CASE PostDeployCheck
    BY <2>14 DEF PostDeployCheck
  <2>15. CASE ReportSuccess
    BY <2>15 DEF ReportSuccess
  <2>16. CASE DeployDies
    BY <2>16 DEF DeployDies
  <2>17. CASE ServerDies
    BY <2>17 DEF ServerDies
  <2>18. CASE UnitRestarts
    BY <2>18 DEF UnitRestarts
  <2>19. CASE Reboot
    BY <2>19 DEF Reboot
  <2> QED BY <2>1, <2>2, <2>3, <2>4, <2>5, <2>6, <2>7, <2>8, <2>9, <2>10, <2>11, <2>12, <2>13, <2>14, <2>15, <2>16, <2>17, <2>18, <2>19 DEF ReleaseStep, Scripted
<1>r. host' = host /\ pidfile' \in BOOLEAN /\ unitUp' \in BOOLEAN
  <2> USE DEF ReleaseTypes, StoppedByPid, NothingStopped
  <2>1. CASE \E b, m \in Version : BeginDeploy(b, m)
    BY <2>1 DEF BeginDeploy
  <2>2. CASE ValidateReleaseArtifacts
    BY <2>2 DEF ValidateReleaseArtifacts
  <2>3. CASE RemovePath
    BY <2>3 DEF RemovePath
  <2>4. CASE CopyEntry
    BY <2>4 DEF CopyEntry
  <2>5. CASE KeepPreviousManifest
    BY <2>5 DEF KeepPreviousManifest
  <2>6. CASE CopyManifest
    BY <2>6 DEF CopyManifest
  <2>7. CASE StopPidfile
    BY <2>7 DEF StopPidfile
  <2>8. CASE RestartUnit
    BY <2>8 DEF RestartUnit
  <2>9. CASE UnitHealth
    BY <2>9 DEF UnitHealth
  <2>10. CASE FreePort
    BY <2>10 DEF FreePort
  <2>11. CASE StartServer
    BY <2>11 DEF StartServer
  <2>12. CASE WritePidfile
    BY <2>12 DEF WritePidfile
  <2>13. CASE HealthcheckPort
    BY <2>13 DEF HealthcheckPort
  <2>14. CASE PostDeployCheck
    BY <2>14 DEF PostDeployCheck
  <2>15. CASE ReportSuccess
    BY <2>15 DEF ReportSuccess
  <2>16. CASE DeployDies
    BY <2>16 DEF DeployDies
  <2>17. CASE ServerDies
    BY <2>17 DEF ServerDies
  <2>18. CASE UnitRestarts
    BY <2>18 DEF UnitRestarts
  <2>19. CASE Reboot
    BY <2>19 DEF Reboot
  <2> QED BY <2>1, <2>2, <2>3, <2>4, <2>5, <2>6, <2>7, <2>8, <2>9, <2>10, <2>11, <2>12, <2>13, <2>14, <2>15, <2>16, <2>17, <2>18, <2>19 DEF ReleaseStep, Scripted
<1>h. history' \in Seq(Version) /\ Len(history') <= 2
  <2> USE DEF ReleaseTypes
  <2>1. CASE \E b, m \in Version : BeginDeploy(b, m)
    BY <2>1 DEF BeginDeploy
  <2>2. CASE ValidateReleaseArtifacts
    BY <2>2 DEF ValidateReleaseArtifacts
  <2>3. CASE RemovePath
    BY <2>3 DEF RemovePath
  <2>4. CASE CopyEntry
    BY <2>4 DEF CopyEntry
  <2>5. CASE KeepPreviousManifest
    BY <2>5 DEF KeepPreviousManifest
  <2>6. CASE CopyManifest
    <3>1. deploy.named \in Version
      BY <2>6 DEF CopyManifest, TreeInv
    <3> DEFINE older == IF Len(history) = 2 THEN Tail(history) ELSE history
    <3>0. history \in Seq(Version) /\ Len(history) <= 2
      OBVIOUS
    <3>2. older \in Seq(Version) /\ Len(older) <= 1
      BY <3>0, OlderNames
    <3>3. history' = Append(older, deploy.named)
      BY <2>6 DEF CopyManifest
    <3> QED BY <3>1, <3>2, <3>3
  <2>7. CASE StopPidfile
    BY <2>7 DEF StopPidfile
  <2>8. CASE RestartUnit
    BY <2>8 DEF RestartUnit
  <2>9. CASE UnitHealth
    BY <2>9 DEF UnitHealth
  <2>10. CASE FreePort
    BY <2>10 DEF FreePort
  <2>11. CASE StartServer
    BY <2>11 DEF StartServer
  <2>12. CASE WritePidfile
    BY <2>12 DEF WritePidfile
  <2>13. CASE HealthcheckPort
    BY <2>13 DEF HealthcheckPort
  <2>14. CASE PostDeployCheck
    BY <2>14 DEF PostDeployCheck
  <2>15. CASE ReportSuccess
    BY <2>15 DEF ReportSuccess
  <2>16. CASE DeployDies
    BY <2>16 DEF DeployDies, Forgotten
  <2>17. CASE ServerDies
    BY <2>17 DEF ServerDies
  <2>18. CASE UnitRestarts
    BY <2>18 DEF UnitRestarts
  <2>19. CASE Reboot
    BY <2>19 DEF Reboot, Forgotten
  <2> QED BY <2>1, <2>2, <2>3, <2>4, <2>5, <2>6, <2>7, <2>8, <2>9, <2>10, <2>11, <2>12, <2>13, <2>14, <2>15, <2>16, <2>17, <2>18, <2>19 DEF ReleaseStep, Scripted
<1> QED BY <1>d, <1>s, <1>t, <1>r, <1>h DEF ReleaseTypes

LEMMA TreeKept ==
  ASSUME ReleaseInv, ReleaseStep
  PROVE  TreeInv'
<1> USE VersionAssumption DEF ReleaseInv, Keep, Entries, Bundled, Preserved, Manifest, Previous, Missing
<1>1. CASE \E b, m \in Version : BeginDeploy(b, m)
  BY <1>1 DEF BeginDeploy, NoDeploy, ReleaseTypes, Runs, TreeInv, Pcs, Copied
<1>2. CASE ValidateReleaseArtifacts
  BY <1>2, Validates DEF SameRelease, ReleaseTypes, Runs, TreeInv, Pcs, Copied
<1>3. CASE RemovePath
  BY <1>3, Removes DEF SameRelease, ReleaseTypes, Runs, TreeInv, Pcs, Copied
<1>4. CASE CopyEntry
  BY <1>4 DEF CopyEntry, To, ReleaseTypes, Runs, TreeInv, Pcs, Copied
<1>5. CASE KeepPreviousManifest
  BY <1>5 DEF KeepPreviousManifest, To, ReleaseTypes, Runs, TreeInv, Pcs, Copied
<1>6. CASE CopyManifest
  BY <1>6 DEF CopyManifest, To, ReleaseTypes, Runs, TreeInv, Pcs, Copied
<1>7. CASE StopPidfile
  BY <1>7 DEF StopPidfile, To, StoppedByPid, ReleaseTypes, Runs, TreeInv, Pcs, Copied
<1>8. CASE RestartUnit
  BY <1>8 DEF RestartUnit, Boots, To, ReleaseTypes, Runs, TreeInv, Pcs, Copied
<1>9. CASE UnitHealth
  BY <1>9 DEF UnitHealth, To, ReleaseTypes, Runs, TreeInv, Pcs, Copied
<1>10. CASE FreePort
  BY <1>10 DEF FreePort, To, ReleaseTypes, Runs, TreeInv, Pcs, Copied
<1>11. CASE StartServer
  BY <1>11 DEF StartServer, Boots, To, ReleaseTypes, Runs, TreeInv, Pcs, Copied
<1>12. CASE WritePidfile
  BY <1>12 DEF WritePidfile, To, ReleaseTypes, Runs, TreeInv, Pcs, Copied
<1>13. CASE HealthcheckPort
  BY <1>13 DEF HealthcheckPort, To, NothingStopped, StoppedByPid, ReleaseTypes, Runs, TreeInv, Pcs, Copied
<1>14. CASE PostDeployCheck
  BY <1>14 DEF PostDeployCheck, To, NothingStopped, StoppedByPid, ReleaseTypes, Runs, TreeInv, Pcs, Copied
<1>15. CASE ReportSuccess
  BY <1>15 DEF ReportSuccess, To, ReleaseTypes, Runs, TreeInv, Pcs, Copied
<1>16. CASE DeployDies
  BY <1>16 DEF DeployDies, Forgotten, NoDeploy, ReleaseTypes, Runs, TreeInv, Pcs, Copied
<1>17. CASE ServerDies
  BY <1>17 DEF ServerDies, ReleaseTypes, Runs, TreeInv, Pcs, Copied
<1>18. CASE UnitRestarts
  BY <1>18 DEF UnitRestarts, Boots, ReleaseTypes, Runs, TreeInv, Pcs, Copied
<1>19. CASE Reboot
  BY <1>19 DEF Reboot, Forgotten, NoDeploy, ReleaseTypes, Runs, TreeInv, Pcs, Copied
<1> QED BY <1>1, <1>2, <1>3, <1>4, <1>5, <1>6, <1>7, <1>8, <1>9, <1>10, <1>11, <1>12, <1>13, <1>14, <1>15, <1>16, <1>17, <1>18, <1>19 DEF ReleaseStep, Scripted

LEMMA HistoryKept ==
  ASSUME ReleaseInv, ReleaseStep
  PROVE  HistoryInv'
<1> USE VersionAssumption DEF ReleaseInv, Keep, Entries, Bundled, Preserved, Manifest, Previous, Missing
<1>1. CASE \E b, m \in Version : BeginDeploy(b, m)
  BY <1>1 DEF BeginDeploy, NoDeploy, ReleaseTypes, Runs, TreeInv, HistoryInv, Installing
<1>2. CASE ValidateReleaseArtifacts
  BY <1>2, Validates DEF SameRelease, ReleaseTypes, Runs, TreeInv, HistoryInv, Installing
<1>3. CASE RemovePath
  BY <1>3, Removes DEF SameRelease, ReleaseTypes, Runs, TreeInv, HistoryInv, Installing
<1>4. CASE CopyEntry
  BY <1>4 DEF CopyEntry, To, ReleaseTypes, Runs, TreeInv, HistoryInv, Installing
<1>5. CASE KeepPreviousManifest
  BY <1>5 DEF KeepPreviousManifest, To, ReleaseTypes, Runs, TreeInv, HistoryInv, Installing
<1>6. CASE CopyManifest
  <2> DEFINE older == IF Len(history) = 2 THEN Tail(history) ELSE history
  <2>1. /\ deploy.pc = "name" /\ tree' = [tree EXCEPT ![Manifest] = deploy.named]
        /\ history' = Append(older, deploy.named)
    BY <1>6 DEF CopyManifest
  <2>2. deploy'.pc = "stop"
    BY <1>6 DEF CopyManifest, To, ReleaseTypes, Runs
  <2>3. history \in Seq(Version) /\ Len(history) <= 2 /\ deploy.named \in Version
    BY <2>1 DEF ReleaseTypes, TreeInv
  <2>4. /\ older \in Seq(Version) /\ Len(older) <= 1
        /\ Len(older) = 1 => older[1] = history[Len(history)]
    BY <2>3, OlderNames
  <2>5. Len(older) = 1 => history # <<>>
    BY <2>3
  <2> HIDE DEF older
  <2>6. /\ Len(history') = Len(older) + 1 /\ history'[Len(history')] = deploy.named
        /\ Len(older) = 1 => history'[1] = older[1]
    BY <2>1, <2>3, <2>4
  <2>7. tree'[Manifest] = deploy.named /\ tree'[Previous] = tree[Previous]
    BY <2>1 DEF ReleaseTypes
  <2>8. Len(history') = 2 => tree'[Previous] = history'[1]
    <3>1. SUFFICES ASSUME Len(history') = 2 PROVE tree'[Previous] = history'[1]
      OBVIOUS
    <3>2. Len(older) = 1
      <4> DEFINE n == Len(older)
      <4>1. n \in Nat
        BY <2>4
      <4>2. n + 1 = 2
        BY <3>1, <2>6
      <4> HIDE DEF n
      <4>3. n = 1
        BY <4>1, <4>2
      <4> QED BY <4>3 DEF n
    <3>3. tree[Previous] = history[Len(history)]
      BY <3>2, <2>5, <2>1 DEF HistoryInv
    <3> QED BY <3>2, <3>3, <2>4, <2>6, <2>7
  <2> QED BY <2>2, <2>6, <2>7, <2>8 DEF HistoryInv, Installing
<1>7. CASE StopPidfile
  BY <1>7 DEF StopPidfile, To, StoppedByPid, ReleaseTypes, Runs, TreeInv, HistoryInv, Installing
<1>8. CASE RestartUnit
  BY <1>8 DEF RestartUnit, Boots, To, ReleaseTypes, Runs, TreeInv, HistoryInv, Installing
<1>9. CASE UnitHealth
  BY <1>9 DEF UnitHealth, To, ReleaseTypes, Runs, TreeInv, HistoryInv, Installing
<1>10. CASE FreePort
  BY <1>10 DEF FreePort, To, ReleaseTypes, Runs, TreeInv, HistoryInv, Installing
<1>11. CASE StartServer
  BY <1>11 DEF StartServer, Boots, To, ReleaseTypes, Runs, TreeInv, HistoryInv, Installing
<1>12. CASE WritePidfile
  BY <1>12 DEF WritePidfile, To, ReleaseTypes, Runs, TreeInv, HistoryInv, Installing
<1>13. CASE HealthcheckPort
  BY <1>13 DEF HealthcheckPort, To, NothingStopped, StoppedByPid, ReleaseTypes, Runs, TreeInv, HistoryInv, Installing
<1>14. CASE PostDeployCheck
  BY <1>14 DEF PostDeployCheck, To, NothingStopped, StoppedByPid, ReleaseTypes, Runs, TreeInv, HistoryInv, Installing
<1>15. CASE ReportSuccess
  BY <1>15 DEF ReportSuccess, To, ReleaseTypes, Runs, TreeInv, HistoryInv, Installing
<1>16. CASE DeployDies
  BY <1>16 DEF DeployDies, Forgotten, NoDeploy, ReleaseTypes, Runs, TreeInv, HistoryInv, Installing
<1>17. CASE ServerDies
  BY <1>17 DEF ServerDies, ReleaseTypes, Runs, TreeInv, HistoryInv, Installing
<1>18. CASE UnitRestarts
  BY <1>18 DEF UnitRestarts, Boots, ReleaseTypes, Runs, TreeInv, HistoryInv, Installing
<1>19. CASE Reboot
  BY <1>19 DEF Reboot, Forgotten, NoDeploy, ReleaseTypes, Runs, TreeInv, HistoryInv, Installing
<1> QED BY <1>1, <1>2, <1>3, <1>4, <1>5, <1>6, <1>7, <1>8, <1>9, <1>10, <1>11, <1>12, <1>13, <1>14, <1>15, <1>16, <1>17, <1>18, <1>19 DEF ReleaseStep, Scripted

LEMMA ServerKept ==
  ASSUME ReleaseInv, ReleaseStep
  PROVE  ServerInv'
<1> USE VersionAssumption DEF ReleaseInv, Keep, Entries, Bundled, Preserved, Manifest, Previous, Missing
<1>1. CASE \E b, m \in Version : BeginDeploy(b, m)
  BY <1>1 DEF BeginDeploy, NoDeploy, ReleaseTypes, Runs, TreeInv, ServerInv, NoServer, Taken, Copied
<1>2. CASE ValidateReleaseArtifacts
  BY <1>2, Validates DEF SameRelease, ReleaseTypes, Runs, TreeInv, ServerInv, NoServer, Taken, Copied
<1>3. CASE RemovePath
  BY <1>3, Removes DEF SameRelease, ReleaseTypes, Runs, TreeInv, ServerInv, NoServer, Taken, Copied
<1>4. CASE CopyEntry
  BY <1>4 DEF CopyEntry, To, ReleaseTypes, Runs, TreeInv, ServerInv, NoServer, Taken, Copied
<1>5. CASE KeepPreviousManifest
  BY <1>5 DEF KeepPreviousManifest, To, ReleaseTypes, Runs, TreeInv, ServerInv, NoServer, Taken, Copied
<1>6. CASE CopyManifest
  BY <1>6 DEF CopyManifest, To, ReleaseTypes, Runs, TreeInv, ServerInv, NoServer, Taken, Copied
<1>7. CASE StopPidfile
  BY <1>7 DEF StopPidfile, To, StoppedByPid, ReleaseTypes, Runs, TreeInv, ServerInv, NoServer, Taken, Copied
<1>8. CASE RestartUnit
  <2> DEFINE held == IF server.by = "unit" THEN NoServer ELSE server
  <2>1. /\ deploy.pc = "unit" /\ deploy'.pc = "unit_health" /\ deploy'.bundle = deploy.bundle
        /\ pidfile' = pidfile /\ host' = host
    BY <1>8 DEF RestartUnit, To, ReleaseTypes, Runs
  <2>2. host = "systemd" /\ server.by # "pid" /\ server.by # "new"
    BY <2>1 DEF ServerInv
  <2>3. tree["backend"] = deploy.bundle
    BY <2>1 DEF TreeInv, Copied
  <2>4. server' = held \/ server' = [release |-> deploy.bundle, by |-> "unit"]
    BY <1>8, <2>3 DEF RestartUnit, Boots
  <2>5. \/ server' = NoServer
        \/ server' = server /\ server.by = "stray"
        \/ server' = NoServer
        \/ server' = [release |-> deploy.bundle, by |-> "unit"]
    BY <2>4, <2>2 DEF ReleaseTypes, Servers
  <2> QED BY <2>1, <2>2, <2>5 DEF ServerInv, NoServer, Taken
<1>9. CASE UnitHealth
  BY <1>9 DEF UnitHealth, To, ReleaseTypes, Runs, TreeInv, ServerInv, NoServer, Taken, Copied
<1>10. CASE FreePort
  <2>1. /\ deploy.pc = "free" /\ deploy'.bundle = deploy.bundle
        /\ pidfile' = pidfile /\ host' = host /\ unitUp' = unitUp
        /\ \/ host = "bare" /\ server' = server /\ deploy'.pc = "start"
           \/ server' = NoServer /\ deploy'.pc = "start"
           \/ server' = server /\ deploy'.pc = "idle"
    BY <1>10 DEF FreePort, To, ReleaseTypes, Runs
  <2>2. server.by # "pid" /\ server.by # "new" /\ (host = "bare" => server.by # "unit")
    BY <2>1 DEF ServerInv
  <2>3. server = NoServer \/ server.by \in {"unit", "stray"}
    BY <2>2 DEF ReleaseTypes, Servers
  <2> QED BY <2>1, <2>2, <2>3 DEF ServerInv, NoServer, Taken
<1>11. CASE StartServer
  BY <1>11 DEF StartServer, Boots, To, ReleaseTypes, Runs, TreeInv, ServerInv, NoServer, Taken, Copied
<1>12. CASE WritePidfile
  BY <1>12 DEF WritePidfile, To, ReleaseTypes, Runs, TreeInv, ServerInv, NoServer, Taken, Copied
<1>13. CASE HealthcheckPort
  BY <1>13 DEF HealthcheckPort, To, NothingStopped, StoppedByPid, ReleaseTypes, Runs, TreeInv, ServerInv, NoServer, Taken, Copied
<1>14. CASE PostDeployCheck
  BY <1>14 DEF PostDeployCheck, To, NothingStopped, StoppedByPid, ReleaseTypes, Runs, TreeInv, ServerInv, NoServer, Taken, Copied
<1>15. CASE ReportSuccess
  BY <1>15 DEF ReportSuccess, To, ReleaseTypes, Runs, TreeInv, ServerInv, NoServer, Taken, Copied
<1>16. CASE DeployDies
  BY <1>16 DEF DeployDies, Forgotten, NoDeploy, ReleaseTypes, Runs, TreeInv, ServerInv, NoServer, Taken, Copied
<1>17. CASE ServerDies
  BY <1>17 DEF ServerDies, ReleaseTypes, Runs, TreeInv, ServerInv, NoServer, Taken, Copied
<1>18. CASE UnitRestarts
  BY <1>18 DEF UnitRestarts, Boots, ReleaseTypes, Runs, TreeInv, ServerInv, NoServer, Taken, Copied
<1>19. CASE Reboot
  BY <1>19 DEF Reboot, Forgotten, NoDeploy, ReleaseTypes, Runs, TreeInv, ServerInv, NoServer, Taken, Copied
<1> QED BY <1>1, <1>2, <1>3, <1>4, <1>5, <1>6, <1>7, <1>8, <1>9, <1>10, <1>11, <1>12, <1>13, <1>14, <1>15, <1>16, <1>17, <1>18, <1>19 DEF ReleaseStep, Scripted

LEMMA ReleaseInvHolds == StoresSpec => []ReleaseInv
<1>1. StoresInit => ReleaseInv
  BY ReleaseInvInit DEF StoresInit
<1>2. ReleaseInv /\ [StoresNext]_storesVars => ReleaseInv'
  <2>1. ReleaseInv /\ ReleaseStep => ReleaseInv'
    BY TypesKept, TreeKept, HistoryKept, ServerKept DEF ReleaseInv
  <2>2. ReleaseInv /\ UNCHANGED releaseVars => ReleaseInv'
    BY DEF ReleaseInv, ReleaseTypes, TreeInv, HistoryInv, ServerInv, releaseVars, Installing
  <2>3. UNCHANGED storesVars => UNCHANGED releaseVars
    BY DEF storesVars
  <2> QED BY <2>1, <2>2, <2>3, OthersLeaveTheHost
<1> QED BY <1>1, <1>2, PTL DEF StoresSpec

(***************************************************************************)
(* DeploymentsTellTheTruth.  Wherever a deployment is cut short, whatever  *)
(* host it is on: the manifest names what is in the tree, a rollback has   *)
(* its manifest, the data is untouched, and a success that is reported is  *)
(* of the release that is in service.                                      *)
(***************************************************************************)
THEOREM DeploymentsTellTheTruth == StoresSpec => []DeploymentsAreHonest
<1>1. ReleaseInv => InstallsAreHonest
  BY DEF ReleaseInv, TreeInv, HistoryInv, InstallsAreHonest
<1>2. ReleaseInv => DeploysServe
  BY DEF ReleaseInv, ServerInv, DeploysServe, Taken
<1> QED BY <1>1, <1>2, ReleaseInvHolds, PTL DEF DeploymentsAreHonest

-----------------------------------------------------------------------------
(***************************************************************************)
(* The jobs of the operators.                                              *)
(***************************************************************************)
LEMMA OthersLeaveTheJobs ==
  StoresNext => RotationStep \/ BackupStep  \/ UNCHANGED maintenanceVars
BY DEF StoresNext, InKeys, InPostgres, InDeployment, InMaintenance, InPurge, InCutover

\* What pruning leaves: the newest, as they were, and the last one for sure.
LEMMA PruneKeepsTheNewest ==
  ASSUME NEW S, NEW files \in Seq(S)
  PROVE  /\ PruneOld(files) \in Seq(S)
         /\ \E d \in Nat : /\ Len(files) = Len(PruneOld(files)) + d
                           /\ \A i \in 1..Len(PruneOld(files)) : PruneOld(files)[i] = files[i + d]
                           /\ d > 0 => Len(PruneOld(files)) = KeepFiles
<1> DEFINE n == Len(files)
<1>1. n \in Nat
  OBVIOUS
<1>2. KeepFiles \in Nat /\ KeepFiles > 0
  BY MaintenanceAssumption
<1>3. CASE n > KeepFiles
  <2> DEFINE d == n - KeepFiles
  <2>1. d \in Nat /\ d > 0 /\ d + 1 \in 1..n
    BY <1>1, <1>2, <1>3
  <2>2. PruneOld(files) = SubSeq(files, d + 1, n)
    BY <1>3 DEF PruneOld
  <2>3. SubSeq(files, d + 1, n) \in Seq(S) /\ Len(SubSeq(files, d + 1, n)) = n - (d + 1) + 1
        /\ \A i \in 1..(n - (d + 1) + 1) : SubSeq(files, d + 1, n)[i] = files[d + 1 + i - 1]
    <3>1. d + 1 \in 1..Len(files) + 1 /\ n \in 0..Len(files) /\ d + 1 <= n
      BY <2>1, <1>1
    <3>2. \A i \in (d + 1)..n : i \in 1..Len(files)
      BY <3>1, <1>1, <2>1
    <3> QED BY <3>1, <3>2, SubSeqProperties
  <2>4. n - (d + 1) + 1 = KeepFiles /\ n = KeepFiles + d
    BY <1>1, <1>2
  <2>5. \A i \in 1..KeepFiles : d + 1 + i - 1 = i + d
    BY <2>1, <1>2
  <2>6. Len(PruneOld(files)) = KeepFiles
        /\ \A i \in 1..KeepFiles : PruneOld(files)[i] = files[i + d]
    BY <2>2, <2>3, <2>4, <2>5
  <2> HIDE DEF d
  <2> QED BY <2>1, <2>2, <2>3, <2>4, <2>6
<1>4. CASE ~(n > KeepFiles)
  <2>1. PruneOld(files) = SubSeq(files, 1, n)
    BY <1>4 DEF PruneOld
  <2>2. SubSeq(files, 1, n) = files
    OBVIOUS
  <2>3. n = n + 0 /\ \A i \in 1..n : i + 0 = i
    BY <1>1
  <2>4. PruneOld(files) = files
    BY <2>1, <2>2
  <2>5. 0 \in Nat /\ ~(0 > 0)
    OBVIOUS
  <2> QED BY <2>4, <2>3, <2>5
<1> QED BY <1>3, <1>4

-----------------------------------------------------------------------------
\* Rotation.  The log is what was written after the last truncation, and
\* archives are ordered: what comes after an archive that has a line the log
\* has lost are later lines.
Archived(l) ==
  \E i \in 1..Len(archives) :
    /\ l \in archives[i]
    /\ \A j \in 1..Len(archives) : i < j => \A k \in archives[j] : k > l

Outdated(l) ==
  /\ Len(archives) >= KeepFiles
  /\ \A j \in 1..Len(archives) : \A k \in archives[j] : k > l

RotationInv ==
  /\ appended \in Nat /\ log \subseteq 1..appended /\ lost \subseteq 1..appended
  /\ archives \in Seq(SUBSET (1..appended))
  /\ \A l \in 1..appended : l \notin log => \A k \in log : k > l
  /\ job = "truncate" => Len(archives) > 0
  /\ \A l \in 1..appended : l \in log \union lost \/ Archived(l) \/ Outdated(l)

LEMMA RotationInvInit == MaintenanceInit => RotationInv
BY DEF MaintenanceInit, RotationInv

\* Lines are appended to archives that keep their place.
LEMMA AppendedArchive ==
  ASSUME RotationInv, NEW copied \in SUBSET log, archives' = Append(archives, copied),
         UNCHANGED <<log, appended, lost>>
  PROVE  /\ archives' \in Seq(SUBSET (1..appended'))
         /\ Len(archives') = Len(archives) + 1 /\ archives'[Len(archives')] = copied
         /\ \A l \in 1..appended' : l \in (log \union lost)' \/ Archived(l)' \/ Outdated(l)'
<1> USE DEF RotationInv
<1>1. copied \in SUBSET (1..appended)
  OBVIOUS
<1>2. /\ archives' \in Seq(SUBSET (1..appended))
      /\ Len(archives') = Len(archives) + 1 /\ archives'[Len(archives) + 1] = copied
      /\ \A i \in 1..Len(archives) : archives'[i] = archives[i]
  BY <1>1, AppendProperties
<1>3. ASSUME NEW l \in 1..appended, l \notin log \union lost
      PROVE  Archived(l)' \/ Outdated(l)'
  <2>0. \A k \in copied : k > l
    BY <1>3
  <2> DEFINE n == Len(archives)
  <2>n. n \in Nat /\ Len(archives') = n + 1
    BY <1>2
  <2>1. \A j \in 1..(n + 1) : j \in 1..n \/ j = n + 1
    BY <2>n
  <2>2. CASE Archived(l)
    <3>1. PICK i \in 1..n : /\ l \in archives[i]
                            /\ \A j \in 1..n : i < j => \A k \in archives[j] : k > l
      BY <2>2 DEF Archived
    <3>2. i \in 1..(n + 1) /\ l \in archives'[i]
      BY <3>1, <1>2, <2>n
    <3>3. \A j \in 1..(n + 1) : i < j => \A k \in archives'[j] : k > l
      BY <3>1, <1>2, <2>0, <2>1
    <3> QED BY <3>2, <3>3, <2>n DEF Archived
  <2>3. CASE Outdated(l)
    <3>1. n >= KeepFiles /\ \A j \in 1..n : \A k \in archives[j] : k > l
      BY <2>3 DEF Outdated
    <3>2. n + 1 >= KeepFiles
      BY <3>1, <2>n, MaintenanceAssumption
    <3>3. \A j \in 1..(n + 1) : \A k \in archives'[j] : k > l
      BY <3>1, <1>2, <2>0, <2>1
    <3> QED BY <3>2, <3>3, <2>n DEF Outdated
  <2> QED BY <1>3, <2>2, <2>3
<1> QED BY <1>2, <1>3

LEMMA RotationKept ==
  ASSUME RotationInv, RotationStep \/ BackupStep
  PROVE  RotationInv'
<1>1. CASE WriteLine
  <2>1. /\ appended' = appended + 1 /\ log' = log \union {appended + 1}
        /\ lost' = lost
        /\ job' = job /\ archives' = archives
    BY <1>1 DEF WriteLine, backupVars
  <2>2. appended' \in Nat /\ 1..appended' = 1..appended \union {appended'} 
    BY <2>1 DEF RotationInv
  <2>3. log' \subseteq 1..appended' /\ lost' \subseteq 1..appended'
    BY <2>1, <2>2 DEF RotationInv
  <2>4. archives' \in Seq(SUBSET (1..appended'))
    <3>1. Seq(SUBSET (1..appended)) \subseteq Seq(SUBSET (1..appended'))
      BY <2>2
    <3> QED BY <3>1, <2>1 DEF RotationInv
  <2>5. \A l \in 1..appended' : l \notin log' => \A k \in log' : k > l
    BY <2>1, <2>2 DEF RotationInv
  <2>6. \A l \in 1..appended' : l \in (log \union lost)' \/ Archived(l)' \/ Outdated(l)'
    BY <2>1, <2>2 DEF RotationInv, Archived, Outdated
  <2> QED BY <2>1, <2>2, <2>3, <2>4, <2>5, <2>6 DEF RotationInv
<1>2. CASE BeginRotation
  BY <1>2 DEF BeginRotation, RotationInv, Then, logVars, Archived, Outdated
<1>3. CASE CopyLog
  <2>1. archives' = Append(archives, log) /\ UNCHANGED <<log, appended, lost>>
    BY <1>3 DEF CopyLog
  <2>2. log \in SUBSET log
    OBVIOUS
  <2> QED BY <2>1, <2>2, AppendedArchive DEF RotationInv
<1>4. CASE TruncateLog
  <2>1. /\ job = "truncate" /\ job' # "truncate" /\ log' = {}
        /\ lost' = lost \union (log \ archives[Len(archives)])
        /\ UNCHANGED <<appended, archives>>
    BY <1>4 DEF TruncateLog, Then
  <2>2. ASSUME NEW l \in log, l \notin lost'
        PROVE  Archived(l)
    <3> DEFINE n == Len(archives)
    <3>1. n \in Nat /\ n > 0 /\ l \in archives[n]
      BY <2>1, <2>2 DEF RotationInv
    <3> QED BY <3>1 DEF Archived
  <2> QED BY <2>1, <2>2 DEF RotationInv, Archived, Outdated
<1>5. CASE PruneOldArchives
  <2> DEFINE pruned == PruneOld(archives)
  <2>1. /\ job # "truncate" /\ job' # "truncate" /\ archives' = pruned
        /\ UNCHANGED <<log, appended, lost>>
    BY <1>5 DEF PruneOldArchives, Then
  <2>2. archives \in Seq(SUBSET (1..appended))
    BY DEF RotationInv
  <2>3. pruned \in Seq(SUBSET (1..appended))
    BY <2>2, PruneKeepsTheNewest
  <2>4. PICK d \in Nat : /\ Len(archives) = Len(pruned) + d
                         /\ \A i \in 1..Len(pruned) : pruned[i] = archives[i + d]
                         /\ d > 0 => Len(pruned) = KeepFiles
    BY <2>2, PruneKeepsTheNewest
  <2> DEFINE m == Len(pruned)
             n == Len(archives)
  <2>5. m \in Nat /\ n \in Nat /\ n = m + d
    BY <2>2, <2>3, <2>4
  <2>6. ASSUME NEW l \in 1..appended, Archived(l)
        PROVE  Archived(l)' \/ Outdated(l)'
    <3>1. PICK i \in 1..n : /\ l \in archives[i]
                            /\ \A j \in 1..n : i < j => \A k \in archives[j] : k > l
      BY <2>6 DEF Archived
    <3>2. CASE i > d
      <4>1. i - d \in 1..m /\ i - d + d = i
        BY <3>2, <2>5
      <4>2. l \in pruned[i - d]
        BY <4>1, <2>4, <3>1
      <4>3. ASSUME NEW j \in 1..m, i - d < j
            PROVE  \A k \in pruned[j] : k > l
        <5>1. j + d \in 1..n /\ i < j + d /\ pruned[j] = archives[j + d]
          BY <4>3, <2>5, <2>4
        <5> QED BY <5>1, <3>1
      <4> QED BY <4>1, <4>2, <4>3, <2>1 DEF Archived
    <3>3. CASE ~(i > d)
      <4>1. d > 0 /\ m = KeepFiles
        BY <3>3, <2>4, <2>5
      <4>2. ASSUME NEW j \in 1..m
            PROVE  \A k \in pruned[j] : k > l
        <5>1. j + d \in 1..n /\ i < j + d /\ pruned[j] = archives[j + d]
          BY <3>3, <2>5, <2>4
        <5> QED BY <5>1, <3>1
      <4>3. m >= KeepFiles
        BY <4>1, <2>5
      <4> QED BY <4>2, <4>3, <2>1 DEF Outdated
    <3> QED BY <3>2, <3>3
  <2>7. ASSUME NEW l \in 1..appended, Outdated(l)
        PROVE  Outdated(l)'
    <3>1. m >= KeepFiles
      <4>1. n >= KeepFiles
        BY <2>7 DEF Outdated
      <4>2. CASE d > 0
        BY <4>2, <2>4, <2>5
      <4>3. CASE ~(d > 0)
        BY <4>3, <4>1, <2>5
      <4> QED BY <4>2, <4>3
    <3>2. ASSUME NEW j \in 1..m
          PROVE  \A k \in pruned[j] : k > l
      <4>1. j + d \in 1..n /\ pruned[j] = archives[j + d]
        BY <2>5, <2>4
      <4> QED BY <4>1, <2>7 DEF Outdated
    <3> QED BY <3>1, <3>2, <2>1 DEF Outdated
  <2> HIDE DEF pruned
  <2> QED BY <2>1, <2>3, <2>6, <2>7 DEF RotationInv
<1>6. CASE JobDies
  <2>1. /\ job' # "truncate" /\ UNCHANGED <<log, appended, lost>>
        /\ archives' = archives \/ \E copied \in SUBSET log : archives' = Append(archives, copied)
    BY <1>6 DEF JobDies
  <2>2. CASE archives' = archives
    BY <2>1, <2>2 DEF RotationInv, Archived, Outdated
  <2>3. CASE \E copied \in SUBSET log : archives' = Append(archives, copied)
    BY <2>1, <2>3, AppendedArchive DEF RotationInv
  <2> QED BY <2>1, <2>2, <2>3
<1>7. ASSUME UNCHANGED logVars, job' = "truncate" => job = "truncate"
      PROVE  RotationInv'
  BY <1>7 DEF logVars, RotationInv, Archived, Outdated
<1>8. CASE CommitTransaction
  BY <1>8, <1>7 DEF CommitTransaction
<1>9. CASE OpenBackup
  BY <1>9, <1>7 DEF OpenBackup, Then
<1>10. CASE CopyDatabase
  BY <1>10, <1>7 DEF CopyDatabase, Then
<1>11. CASE PruneOldBackups
  BY <1>11, <1>7 DEF PruneOldBackups, Then
<1> QED BY <1>1, <1>2, <1>3, <1>4, <1>5, <1>6, <1>8, <1>9, <1>10, <1>11
        DEF RotationStep, BackupStep

-----------------------------------------------------------------------------
\* Backups.  Pruning comes right after a backup that was finished, which is
\* then the newest and so among those that stay.
BackupInv ==
  /\ commits \in Nat /\ kept \in Nat /\ backups \in Seq(Nat)
  /\ job = "copy_db" => Len(backups) > 0
  /\ job = "prune_db" => Len(backups) > 0 /\ backups[Len(backups)] = kept
  /\ BackupsAreKept

LEMMA BackupInvInit == MaintenanceInit => BackupInv
BY DEF MaintenanceInit, BackupInv, BackupsAreKept

LEMMA BackupKept ==
  ASSUME BackupInv, RotationStep \/ BackupStep
  PROVE  BackupInv'
<1> DEFINE n == Len(backups)
<1>n. n \in Nat
  BY DEF BackupInv
<1>1. CASE CommitTransaction
  BY <1>1 DEF CommitTransaction, BackupInv, BackupsAreKept
<1>2. CASE OpenBackup
  <2>1. /\ backups' = Append(backups, 0) /\ job' \notin {"prune_db"} /\ UNCHANGED <<commits, kept>>
    BY <1>2 DEF OpenBackup, Then
  <2>2. /\ backups' \in Seq(Nat) /\ Len(backups') = n + 1
        /\ \A i \in 1..n : backups'[i] = backups[i]
    BY <2>1, AppendProperties DEF BackupInv
  <2>3. BackupsAreKept'
    <3>1. \A i \in 1..n : i \in 1..(n + 1)
      BY <1>n
    <3>2. DOMAIN backups = 1..n /\ DOMAIN backups' = 1..(n + 1)
      BY <2>2 DEF BackupInv
    <3> QED BY <2>1, <2>2, <3>1, <3>2 DEF BackupInv, BackupsAreKept
  <2>4. Len(backups') > 0
    BY <2>2, <1>n
  <2> QED BY <2>1, <2>2, <2>3, <2>4 DEF BackupInv
<1>3. CASE CopyDatabase
  <2>1. /\ job = "copy_db" /\ job' # "copy_db"
        /\ backups' = [backups EXCEPT ![n] = commits] /\ kept' = commits /\ commits' = commits
    BY <1>3 DEF CopyDatabase, Then
  <2>2. n > 0 /\ commits \in Nat
    BY <1>3 DEF CopyDatabase, BackupInv
  <2>3. n \in DOMAIN backups /\ n \in 1..n
    BY <2>2, <1>n DEF BackupInv
  <2>4. backups' \in Seq(Nat) /\ Len(backups') = n /\ backups'[n] = commits
    BY <2>1, <2>2, <2>3, ExceptSeq DEF BackupInv
  <2>5. n \in DOMAIN backups' /\ commits >= commits
    BY <2>3, <2>4, <2>2
  <2>6. BackupsAreKept'
    BY <2>1, <2>4, <2>5 DEF BackupsAreKept
  <2> QED BY <2>1, <2>2, <2>4, <2>6 DEF BackupInv
<1>4. CASE PruneOldBackups
  <2> DEFINE pruned == PruneOld(backups)
  <2>1. /\ job = "prune_db" /\ job' \notin {"copy_db", "prune_db"} /\ backups' = pruned
        /\ UNCHANGED <<commits, kept>>
    BY <1>4 DEF PruneOldBackups, Then
  <2>2. backups \in Seq(Nat) /\ n > 0 /\ backups[n] = kept /\ kept \in Nat
    BY <2>1 DEF BackupInv
  <2>3. pruned \in Seq(Nat)
    BY <2>2, PruneKeepsTheNewest
  <2>4. PICK d \in Nat : /\ n = Len(pruned) + d
                         /\ \A i \in 1..Len(pruned) : pruned[i] = backups[i + d]
                         /\ d > 0 => Len(pruned) = KeepFiles
    BY <2>2, PruneKeepsTheNewest
  <2> DEFINE m == Len(pruned)
  <2>5. m \in Nat /\ m > 0
    <3>1. m \in Nat
      BY <2>3
    <3>2. CASE d > 0
      BY <3>1, <3>2, <2>4, MaintenanceAssumption
    <3>3. CASE ~(d > 0)
      BY <3>1, <3>3, <2>4, <2>2
    <3> QED BY <3>1, <3>2, <3>3
  <2>6. m \in 1..m /\ m + d = n
    BY <2>5, <2>4
  <2> HIDE DEF pruned
  <2>9. DOMAIN pruned = 1..m
    BY <2>3
  <2>7. m \in DOMAIN pruned /\ pruned[m] = kept
    BY <2>9, <2>6, <2>4, <2>2
  <2>8. BackupsAreKept'
    BY <2>1, <2>7, <2>2 DEF BackupsAreKept
  <2> QED BY <2>1, <2>3, <2>8 DEF BackupInv
<1>5. CASE JobDies
  BY <1>5 DEF JobDies, BackupInv, BackupsAreKept, backupVars
<1>6. ASSUME UNCHANGED backupVars, job' = "copy_db" => job = "copy_db",
             job' = "prune_db" => job = "prune_db"
      PROVE  BackupInv'
  BY <1>6 DEF backupVars, BackupInv, BackupsAreKept
<1>7. CASE WriteLine
  BY <1>7, <1>6 DEF WriteLine
<1>8. CASE BeginRotation
  BY <1>8, <1>6 DEF BeginRotation, Then
<1>9. CASE CopyLog
  BY <1>9, <1>6 DEF CopyLog, Then
<1>10. CASE TruncateLog
  BY <1>10, <1>6 DEF TruncateLog, Then
<1>11. CASE PruneOldArchives
  BY <1>11, <1>6 DEF PruneOldArchives, Then
<1> QED BY <1>1, <1>2, <1>3, <1>4, <1>5, <1>7, <1>8, <1>9, <1>10, <1>11
        DEF RotationStep, BackupStep

-----------------------------------------------------------------------------
\* The purge.  What it is about to delete had no owner when it was selected,
\* and who got one since is remembered.
PurgeInv ==
  /\ owner \in [Session -> Owner \union {NoOwner}]
  /\ purge.pc = "delete" =>
       purge.ids \subseteq Session /\ \A s \in purge.ids : owner[s] = NoOwner \/ s \in taken
  /\ PurgesSpareOwners

LEMMA OthersLeaveThePurge ==
  StoresNext => PurgeStep \/ UNCHANGED purgeVars
BY DEF StoresNext, InKeys, InPostgres, InDeployment, InMaintenance, InPurge, InCutover

LEMMA PurgeKept ==
  ASSUME PurgeInv, PurgeStep
  PROVE  PurgeInv'
<1> USE DEF PurgeInv, PurgesSpareOwners
<1>1. ASSUME UNCHANGED <<owner, purge, taken, wronged>>
      PROVE  PurgeInv'
  BY <1>1
<1>2. ASSUME NEW s \in Session,
             \/ LogConversation(s) \/ CreateChatArtifact(s) \/ DeleteSession(s)
             \/ NameSessionInTask(s) \/ CreateWorkspaceOutput(s)
      PROVE  PurgeInv'
  BY <1>2, <1>1 DEF LogConversation, CreateChatArtifact, DeleteSession, NameSessionInTask,
                    CreateWorkspaceOutput, Fill
<1>3. ASSUME NEW s \in Session, NEW o \in Owner, UpsertSession(s, o)
      PROVE  PurgeInv'
  BY <1>3 DEF UpsertSession, Fill
<1>4. CASE SelectOwnerless
  BY <1>4 DEF SelectOwnerless, Ownerless
<1>5. CASE PurgeOwnerlessHistory
  BY <1>5 DEF PurgeOwnerlessHistory, NoPurge
<1>6. CASE PurgeDies
  BY <1>6 DEF PurgeDies, NoPurge
<1> QED BY <1>2, <1>3, <1>4, <1>5, <1>6 DEF PurgeStep

-----------------------------------------------------------------------------
(***************************************************************************)
(* JobsKeepTheirPromise.  However often a rotation, a backup or a purge is *)
(* killed, for any number of files that are kept, of chats and of owners:  *)
(* lines of the log are in it or in an archive unless they are older than  *)
(* all of those, or were written between the copy and the truncation of    *)
(* one rotation; a backup stays as recent as the last finished one; and a  *)
(* purge deletes no chat that has an owner it did not get after the purge  *)
(* selected it.                                                            *)
(***************************************************************************)
THEOREM JobsKeepTheirPromise == StoresSpec => []JobsLoseNothing
<1> DEFINE Inv == RotationInv /\ BackupInv /\ PurgeInv
<1>1. StoresInit => Inv
  <2>1. PurgeInit => PurgeInv
    BY DEF PurgeInit, PurgeInv, PurgesSpareOwners, NoPurge
  <2> QED BY <2>1, RotationInvInit, BackupInvInit DEF StoresInit
<1>2. Inv /\ [StoresNext]_storesVars => Inv'
  <2>1. RotationInv /\ BackupInv /\ (RotationStep \/ BackupStep) => RotationInv' /\ BackupInv'
    BY RotationKept, BackupKept
  <2>2. RotationInv /\ BackupInv /\ UNCHANGED maintenanceVars => RotationInv' /\ BackupInv'
    BY DEF maintenanceVars, logVars, backupVars, RotationInv, Archived, Outdated,
           BackupInv, BackupsAreKept
  <2>3. PurgeInv /\ UNCHANGED purgeVars => PurgeInv'
    BY DEF purgeVars, PurgeInv, PurgesSpareOwners
  <2>4. UNCHANGED storesVars => UNCHANGED maintenanceVars /\ UNCHANGED purgeVars
    BY DEF storesVars
  <2> QED BY <2>1, <2>2, <2>3, <2>4, PurgeKept, OthersLeaveTheJobs, OthersLeaveThePurge
<1>3. Inv => JobsLoseNothing
  <2>1. RotationInv => RotationLosesNothing
    BY DEF RotationInv, RotationLosesNothing, Archived, Outdated
  <2> QED BY <2>1 DEF BackupInv, PurgeInv, JobsLoseNothing
<1> QED BY <1>1, <1>2, <1>3, PTL DEF StoresSpec

-----------------------------------------------------------------------------
(***************************************************************************)
(* The move to Postgres.                                                   *)
(***************************************************************************)
LEMMA OthersLeaveTheMove ==
  StoresNext => CutoverStep \/ UNCHANGED cutoverVars
BY DEF StoresNext, InKeys, InPostgres, InDeployment, InMaintenance, InPurge, InCutover

\* What the schema says: its tables are those of the inventory, and Postgres
\* numbers the rows of no other than the two tables the import resets.
Inventoried(t) == \E n \in DOMAIN Inventory : Inventory[n] = t

LEMMA InventoryIsWhole ==
  /\ DOMAIN Inventory = 1..18
  /\ Inventoried("conversations")
  /\ Inventoried("sessions")
  /\ Inventoried("session_messages")
  /\ Inventoried("idempotency_keys")
  /\ Inventoried("chat_artifacts")
  /\ Inventoried("knowledge_documents")
  /\ Inventoried("knowledge_ingestions")
  /\ Inventoried("knowledge_chunks")
  /\ Inventoried("media_uploads")
  /\ Inventoried("auth_users")
  /\ Inventoried("auth_user_identities")
  /\ Inventoried("workbench_tasks")
  /\ Inventoried("workbench_task_events")
  /\ Inventoried("workbench_workspace_outputs")
  /\ Inventoried("code_sandbox_executions")
  /\ Inventoried("code_sandbox_execution_events")
  /\ Inventoried("code_sandbox_execution_logs")
  /\ Inventoried("schema_migrations")
<1>1. DOMAIN Inventory = 1..18
  BY DEF Inventory
<1>2. Inventoried("conversations")
  <2>1. Inventory[1] = "conversations" /\ 1 \in 1..18
    BY DEF Inventory
  <2> QED BY <2>1, <1>1 DEF Inventoried
<1>3. Inventoried("sessions")
  <2>1. Inventory[2] = "sessions" /\ 2 \in 1..18
    BY DEF Inventory
  <2> QED BY <2>1, <1>1 DEF Inventoried
<1>4. Inventoried("session_messages")
  <2>1. Inventory[3] = "session_messages" /\ 3 \in 1..18
    BY DEF Inventory
  <2> QED BY <2>1, <1>1 DEF Inventoried
<1>5. Inventoried("idempotency_keys")
  <2>1. Inventory[4] = "idempotency_keys" /\ 4 \in 1..18
    BY DEF Inventory
  <2> QED BY <2>1, <1>1 DEF Inventoried
<1>6. Inventoried("chat_artifacts")
  <2>1. Inventory[5] = "chat_artifacts" /\ 5 \in 1..18
    BY DEF Inventory
  <2> QED BY <2>1, <1>1 DEF Inventoried
<1>7. Inventoried("knowledge_documents")
  <2>1. Inventory[6] = "knowledge_documents" /\ 6 \in 1..18
    BY DEF Inventory
  <2> QED BY <2>1, <1>1 DEF Inventoried
<1>8. Inventoried("knowledge_ingestions")
  <2>1. Inventory[7] = "knowledge_ingestions" /\ 7 \in 1..18
    BY DEF Inventory
  <2> QED BY <2>1, <1>1 DEF Inventoried
<1>9. Inventoried("knowledge_chunks")
  <2>1. Inventory[8] = "knowledge_chunks" /\ 8 \in 1..18
    BY DEF Inventory
  <2> QED BY <2>1, <1>1 DEF Inventoried
<1>10. Inventoried("media_uploads")
  <2>1. Inventory[9] = "media_uploads" /\ 9 \in 1..18
    BY DEF Inventory
  <2> QED BY <2>1, <1>1 DEF Inventoried
<1>11. Inventoried("auth_users")
  <2>1. Inventory[10] = "auth_users" /\ 10 \in 1..18
    BY DEF Inventory
  <2> QED BY <2>1, <1>1 DEF Inventoried
<1>12. Inventoried("auth_user_identities")
  <2>1. Inventory[11] = "auth_user_identities" /\ 11 \in 1..18
    BY DEF Inventory
  <2> QED BY <2>1, <1>1 DEF Inventoried
<1>13. Inventoried("workbench_tasks")
  <2>1. Inventory[12] = "workbench_tasks" /\ 12 \in 1..18
    BY DEF Inventory
  <2> QED BY <2>1, <1>1 DEF Inventoried
<1>14. Inventoried("workbench_task_events")
  <2>1. Inventory[13] = "workbench_task_events" /\ 13 \in 1..18
    BY DEF Inventory
  <2> QED BY <2>1, <1>1 DEF Inventoried
<1>15. Inventoried("workbench_workspace_outputs")
  <2>1. Inventory[14] = "workbench_workspace_outputs" /\ 14 \in 1..18
    BY DEF Inventory
  <2> QED BY <2>1, <1>1 DEF Inventoried
<1>16. Inventoried("code_sandbox_executions")
  <2>1. Inventory[15] = "code_sandbox_executions" /\ 15 \in 1..18
    BY DEF Inventory
  <2> QED BY <2>1, <1>1 DEF Inventoried
<1>17. Inventoried("code_sandbox_execution_events")
  <2>1. Inventory[16] = "code_sandbox_execution_events" /\ 16 \in 1..18
    BY DEF Inventory
  <2> QED BY <2>1, <1>1 DEF Inventoried
<1>18. Inventoried("code_sandbox_execution_logs")
  <2>1. Inventory[17] = "code_sandbox_execution_logs" /\ 17 \in 1..18
    BY DEF Inventory
  <2> QED BY <2>1, <1>1 DEF Inventoried
<1>19. Inventoried("schema_migrations")
  <2>1. Inventory[18] = "schema_migrations" /\ 18 \in 1..18
    BY DEF Inventory
  <2> QED BY <2>1, <1>1 DEF Inventoried
<1> QED BY <1>1, <1>2, <1>3, <1>4, <1>5, <1>6, <1>7, <1>8, <1>9, <1>10, <1>11, <1>12, <1>13, <1>14, <1>15, <1>16, <1>17, <1>18, <1>19

Described(some) ==
  \A table \in some : Inventoried(table.name) /\ (table.identity => table.name \in Reset)

LEMMA SchemaDescribed == Described(Schema)
<1> USE InventoryIsWhole DEF Described, Table
<1>1. Described(ChatTables)
  BY DEF ChatTables, Reset
<1>2. Described(KnowledgeTables)
  BY DEF KnowledgeTables
<1>3. Described(WorkbenchTables)
  BY DEF WorkbenchTables, Reset
<1>4. Described(OutputTables)
  BY DEF OutputTables
<1>5. Described(SandboxTables)
  BY DEF SandboxTables
<1>6. Described(AccountTables)
  BY DEF AccountTables
<1> QED BY <1>1, <1>2, <1>3, <1>4, <1>5, <1>6 DEF Schema

LEMMA GrowingTables ==
  /\ \A t \in Growing : \E n \in DOMAIN Inventory : Inventory[n] = t
  /\ Numbered \subseteq Growing \intersect Reset
  /\ \A t \in Growing : Parents(t) \subseteq Growing
  /\ MaxRows \in Nat /\ DOMAIN Inventory \subseteq Nat \ {0}
BY InventoryIsWhole, SchemaDescribed, CutoverAssumption DEF Described, Inventoried, Numbered

-----------------------------------------------------------------------------
\* A table has its rows from the first on.
Rows == {1..n : n \in 0..MaxRows}
Tables == [Growing -> Rows]

\* The tables the import has been through.
Went(t) == \E n \in DOMAIN Inventory : n <= move.at /\ Inventory[n] = t

MovePcs == {"idle", "export", "exported", "import", "imported", "serving"}

CutoverInv ==
  /\ source \in Tables /\ snapshot \in Tables
  /\ target \in [Growing -> SUBSET Nat] /\ staged \in Tables
  /\ numbers \in [Numbered -> Nat \ {0}]
  /\ move \in [pc : MovePcs, at : Nat, exports : Nat]
  /\ collided = FALSE
  /\ move.pc = "import" =>
       \A t \in Growing : IF Went(t) THEN staged[t] = snapshot[t] /\ Refers(staged, t)
                          ELSE staged[t] = {}
  /\ move.pc \notin {"imported", "serving"} => target = Nothing
  /\ move.pc = "imported" => target = snapshot /\ Resolves(target)
  /\ move.pc \in {"imported", "serving"} =>
       \A t \in Numbered : target[t] \subseteq 1..(numbers[t] - 1)

LEMMA EmptyTables == Nothing \in Tables /\ {} \in Rows /\ Tables \subseteq [Growing -> SUBSET Nat]
<1>1. {} \in Rows
  <2>1. 0 \in 0..MaxRows /\ 1..0 = {}
    BY GrowingTables
  <2> QED BY <2>1 DEF Rows
<1>2. Rows \subseteq SUBSET Nat
  BY DEF Rows
<1> QED BY <1>1, <1>2 DEF Nothing, Tables

LEMMA CutoverInvInit == CutoverInit => CutoverInv
BY EmptyTables DEF CutoverInit, CutoverInv, MovePcs

LEMMA Followed ==
  ASSUME move \in [pc : MovePcs, at : Nat, exports : Nat], NEW p \in MovePcs, Follow(p)
  PROVE  move' \in [pc : MovePcs, at : Nat, exports : Nat] /\ move'.pc = p /\ move'.at = 0
BY DEF Follow

\* Rows the server writes come after those that are there.
LEMMA RowsGrow ==
  ASSUME NEW n \in 1..MaxRows
  PROVE  1..(n - 1) \union {n} \in Rows
<1>1. n \in 0..MaxRows /\ 1..(n - 1) \union {n} = 1..n
  BY GrowingTables
<1> QED BY <1>1 DEF Rows

\* A table that is inserted refers to rows that are there; those that were
\* before go on to do so, as tables only get their rows.
LEMMA InsertedTable ==
  ASSUME CutoverInv, move.pc = "import", NEW n \in Left, IsNext(n),
         staged' = [staged EXCEPT ![Inventory[n]] = snapshot[Inventory[n]]],
         Refers(staged', Inventory[n]), move'.at = n, snapshot' = snapshot
  PROVE  \A t \in Growing : IF Went(t)' THEN staged'[t] = snapshot'[t] /\ Refers(staged', t)
                            ELSE staged'[t] = {}
<1> DEFINE new == Inventory[n]
<1>1. new \in Growing /\ n > move.at /\ n \in DOMAIN Inventory /\ n \in Nat /\ move.at \in Nat
  BY GrowingTables DEF Left, CutoverInv
<1>2. /\ staged'[new] = snapshot[new]
      /\ \A t \in Growing \ {new} : staged'[t] = staged[t]
  BY <1>1 DEF CutoverInv, Tables
<1>4. ASSUME NEW t \in Growing
      PROVE  Went(t)' <=> Went(t) \/ t = new
  <2>1. ASSUME NEW k \in DOMAIN Inventory, k <= n, Inventory[k] = t
        PROVE  Went(t) \/ t = new
    <3>1. CASE k <= move.at
      BY <2>1, <3>1 DEF Went
    <3>2. CASE ~(k <= move.at)
      <4>1. k \in Nat
        BY GrowingTables
      <4>2. k \in Left
        BY <2>1, <3>2, <4>1, <1>1 DEF Left
      <4>3. k = n
        BY <4>2, <4>1, <2>1, <1>1 DEF IsNext
      <4> QED BY <4>3, <2>1
    <3> QED BY <3>1, <3>2
  <2>2. Went(t)' => Went(t) \/ t = new
    BY <2>1 DEF Went
  <2>3. t = new => Went(t)'
    BY <1>1 DEF Went
  <2>4. Went(t) => Went(t)'
    <3>1. SUFFICES ASSUME NEW k \in DOMAIN Inventory, k <= move.at, Inventory[k] = t PROVE Went(t)'
      BY DEF Went
    <3>2. k \in Nat
      BY GrowingTables
    <3>3. k <= n
      BY <3>1, <3>2, <1>1
    <3> QED BY <3>1, <3>3 DEF Went
  <2> QED BY <2>2, <2>3, <2>4
<1>5. \A t \in Growing : staged[t] \subseteq staged'[t]
  BY <1>2, <1>1 DEF CutoverInv
<1>6. \A t \in Growing : Refers(staged, t) => \A p \in Parents(t) : staged[t] \subseteq staged'[p]
  BY <1>5, GrowingTables DEF Refers
<1>7. \A t \in Growing \ {new} : Refers(staged, t) => Refers(staged', t)
  BY <1>6, <1>2 DEF Refers
<1> QED BY <1>1, <1>2, <1>4, <1>7 DEF CutoverInv

LEMMA CutoverKept ==
  ASSUME CutoverInv, CutoverStep
  PROVE  CutoverInv'
<1>1. CASE \E t \in Growing : WriteSource(t)
  <2>1. PICK t \in Growing : WriteSource(t)
    BY <1>1
  <2>2. PICK n \in 1..MaxRows : source[t] = 1..(n - 1) /\ source' = [source EXCEPT ![t] = @ \union {n}]
    BY <2>1 DEF WriteSource
  <2>3. source' \in Tables
    BY <2>2, RowsGrow DEF CutoverInv, Tables
  <2> QED BY <2>1, <2>3 DEF WriteSource, CutoverInv, Went
<1>2. CASE BeginExport
  BY <1>2, EmptyTables DEF BeginExport, CutoverInv, MovePcs
<1>3. CASE FetchTableRows
  <2>0. UNCHANGED <<source, target, staged, numbers, collided>> /\ move.pc = "export"
    BY <1>3 DEF FetchTableRows
  <2>1. CASE Exhausted
    <3>1. snapshot' = snapshot /\ move'.pc = "exported" /\ move' \in [pc : MovePcs, at : Nat, exports : Nat]
      <4>1. "exported" \in MovePcs
        BY DEF MovePcs
      <4> QED BY <1>3, <2>1, <4>1, Followed DEF FetchTableRows, CutoverInv
    <3> QED BY <3>1, <2>0 DEF CutoverInv
  <2>2. CASE ~Exhausted
    <3>1. PICK n \in Left : Goes(n) /\ snapshot' = [snapshot EXCEPT ![Inventory[n]] = source[Inventory[n]]]
      BY <1>3, <2>2 DEF FetchTableRows
    <3>2. n \in Nat /\ Inventory[n] \in Growing
      BY GrowingTables DEF Left
    <3>3. snapshot' \in Tables
      BY <3>1, <3>2 DEF CutoverInv, Tables
    <3>4. move'.pc = "export" /\ move' \in [pc : MovePcs, at : Nat, exports : Nat]
      BY <3>1, <3>2, <2>0 DEF Goes, CutoverInv
    <3> QED BY <3>3, <3>4, <2>0 DEF CutoverInv
  <2> QED BY <2>1, <2>2
<1>4. CASE BeginImport
  <2>1. /\ UNCHANGED <<source, snapshot, target, numbers, collided>> /\ target = Nothing /\ staged' = Nothing
        /\ move'.pc = "import" /\ move'.at = 0 /\ move' \in [pc : MovePcs, at : Nat, exports : Nat]
    BY <1>4 DEF BeginImport, Follow, CutoverInv, MovePcs
  <2>2. \A t \in Growing : ~Went(t)' /\ staged'[t] = {}
    BY <2>1, GrowingTables DEF Went, Nothing
  <2> QED BY <2>1, <2>2, EmptyTables DEF CutoverInv
<1>5. CASE InsertRows
  <2>1. PICK n \in Left : /\ IsNext(n)
                          /\ staged' = [staged EXCEPT ![Inventory[n]] = snapshot[Inventory[n]]]
                          /\ IF Refers(staged', Inventory[n]) THEN Goes(n) ELSE Follow("exported")
    BY <1>5 DEF InsertRows
  <2>2. move.pc = "import" /\ UNCHANGED <<source, snapshot, target, numbers, collided>>
    BY <1>5 DEF InsertRows
  <2>3. n \in Nat /\ Inventory[n] \in Growing
    BY GrowingTables DEF Left
  <2>4. staged' \in Tables
    BY <2>1, <2>3 DEF CutoverInv, Tables
  <2>5. CASE Refers(staged', Inventory[n])
    <3>1. move'.pc = "import" /\ move'.at = n /\ move' \in [pc : MovePcs, at : Nat, exports : Nat]
      BY <2>1, <2>5, <2>3, <2>2 DEF Goes, CutoverInv
    <3>2. \A t \in Growing : IF Went(t)' THEN staged'[t] = snapshot'[t] /\ Refers(staged', t)
                             ELSE staged'[t] = {}
      BY <2>1, <2>2, <2>5, <3>1, InsertedTable
    <3> QED BY <2>2, <2>4, <3>1, <3>2 DEF CutoverInv
  <2>6. CASE ~Refers(staged', Inventory[n])
    <3>1. move'.pc = "exported" /\ move' \in [pc : MovePcs, at : Nat, exports : Nat]
      <4>1. "exported" \in MovePcs
        BY DEF MovePcs
      <4> QED BY <2>1, <2>6, <4>1, Followed DEF CutoverInv
    <3> QED BY <2>2, <2>4, <3>1 DEF CutoverInv
  <2> QED BY <2>5, <2>6
<1>6. CASE CommitImport
  <2>1. /\ move.pc = "import" /\ Exhausted /\ target' = staged
        /\ numbers' = [t \in Numbered |->
             IF t \in Reset THEN 1 + (CHOOSE n \in 0..MaxRows : staged[t] = 1..n) ELSE numbers[t]]
        /\ UNCHANGED <<source, snapshot, staged, collided>>
    BY <1>6 DEF CommitImport
  <2>2. move'.pc = "imported" /\ move' \in [pc : MovePcs, at : Nat, exports : Nat]
    BY <1>6 DEF CommitImport, Follow, CutoverInv, MovePcs
  <2>3. \A t \in Growing : Went(t)
    <3>1. SUFFICES ASSUME NEW t \in Growing PROVE Went(t)
      OBVIOUS
    <3>2. PICK n \in DOMAIN Inventory : Inventory[n] = t
      BY GrowingTables
    <3>3. n \notin Left /\ n \in Nat /\ move.at \in Nat
      BY <2>1, GrowingTables DEF Exhausted, CutoverInv
    <3>4. n <= move.at
      BY <3>2, <3>3 DEF Left
    <3> QED BY <3>2, <3>4 DEF Went
  <2>4. staged = snapshot /\ Resolves(staged)
    BY <2>1, <2>3 DEF CutoverInv, Tables, Resolves
  <2>5. ASSUME NEW t \in Numbered
        PROVE  numbers'[t] \in Nat \ {0} /\ staged[t] = 1..(numbers'[t] - 1)
    <3>1. t \in Growing /\ t \in Reset
      BY GrowingTables
    <3>2. \E n \in 0..MaxRows : staged[t] = 1..n
      BY <3>1 DEF CutoverInv, Tables, Rows
    <3> DEFINE n == CHOOSE n \in 0..MaxRows : staged[t] = 1..n
    <3>3. n \in 0..MaxRows /\ staged[t] = 1..n
      BY <3>2
    <3>4. numbers'[t] = 1 + n
      BY <2>1, <3>1
    <3> HIDE DEF n
    <3>5. n \in Nat
      BY <3>3, GrowingTables
    <3>6. 1 + n \in Nat \ {0} /\ 1 + n - 1 = n
      BY <3>5
    <3> QED BY <3>3, <3>4, <3>6
  <2>6. numbers' \in [Numbered -> Nat \ {0}]
    BY <2>1, <2>5
  <2>7. target' \in [Growing -> SUBSET Nat]
    BY <2>1, EmptyTables DEF CutoverInv
  <2> QED BY <2>1, <2>2, <2>4, <2>5, <2>6, <2>7 DEF CutoverInv, Resolves
<1>7. CASE CompareSnapshot
  BY <1>7 DEF CompareSnapshot, Follow, CutoverInv, MovePcs
<1>8. CASE \E t \in Numbered : WriteTarget(t)
  <2>1. PICK t \in Numbered : WriteTarget(t)
    BY <1>8
  <2>2. /\ move.pc = "serving" /\ numbers' = [numbers EXCEPT ![t] = @ + 1]
        /\ collided' = (collided \/ numbers[t] \in target[t])
        /\ target' = [target EXCEPT ![t] = @ \union {numbers[t]}]
        /\ UNCHANGED <<source, snapshot, staged, move>>
    BY <2>1 DEF WriteTarget
  <2>3. t \in Growing /\ numbers[t] \in Nat \ {0} /\ target[t] \subseteq 1..(numbers[t] - 1)
    BY <2>2, GrowingTables DEF CutoverInv
  <2>4. numbers[t] \notin target[t]
    BY <2>3
  <2>5. collided' = FALSE
    BY <2>2, <2>4 DEF CutoverInv
  <2>6. numbers' \in [Numbered -> Nat \ {0}]
    BY <2>2, <2>3 DEF CutoverInv
  <2>7. target' \in [Growing -> SUBSET Nat]
    BY <2>2, <2>3 DEF CutoverInv
  <2>8. target'[t] \subseteq 1..(numbers'[t] - 1)
    <3>1. target'[t] = target[t] \union {numbers[t]} /\ numbers'[t] = numbers[t] + 1
      BY <2>2, <2>3 DEF CutoverInv
    <3> QED BY <3>1, <2>3
  <2>9. \A u \in Numbered \ {t} : target'[u] = target[u] /\ numbers'[u] = numbers[u]
    BY <2>2, GrowingTables DEF CutoverInv
  <2> QED BY <2>2, <2>5, <2>6, <2>7, <2>8, <2>9 DEF CutoverInv
<1>9. CASE MoveDies
  <2>1. /\ UNCHANGED <<source, snapshot, target, staged, numbers, collided>>
        /\ move.pc \in {"export", "import"} /\ move'.pc \in {"idle", "exported"}
        /\ move' \in [pc : MovePcs, at : Nat, exports : Nat]
    <3>1. "idle" \in MovePcs /\ "exported" \in MovePcs
      BY DEF MovePcs
    <3>2. CASE move.pc = "export" /\ Follow("idle")
      BY <1>9, <3>1, <3>2, Followed DEF MoveDies, CutoverInv
    <3>3. CASE move.pc = "import" /\ Follow("exported")
      BY <1>9, <3>1, <3>3, Followed DEF MoveDies, CutoverInv
    <3> QED BY <1>9, <3>2, <3>3 DEF MoveDies
  <2> QED BY <2>1 DEF CutoverInv
<1> QED BY <1>1, <1>2, <1>3, <1>4, <1>5, <1>6, <1>7, <1>8, <1>9 DEF CutoverStep

(***************************************************************************)
(* MovesAreWhole.  However the server writes while a snapshot is exported, *)
(* and wherever the move is cut short: what is in Postgres is a snapshot   *)
(* as a whole whose references resolve, or nothing, and Postgres goes on   *)
(* numbering after the rows that were imported.  For any tables and any    *)
(* number of rows.                                                         *)
(***************************************************************************)
THEOREM MovesAreWhole == StoresSpec => []CutoverIsSound
<1>1. StoresInit => CutoverInv
  BY CutoverInvInit DEF StoresInit
<1>2. CutoverInv /\ [StoresNext]_storesVars => CutoverInv'
  <2>1. CutoverInv /\ UNCHANGED cutoverVars => CutoverInv'
    BY DEF cutoverVars, CutoverInv, Went
  <2>2. UNCHANGED storesVars => UNCHANGED cutoverVars
    BY DEF storesVars
  <2> QED BY <2>1, <2>2, CutoverKept, OthersLeaveTheMove
<1>3. CutoverInv => CutoverIsSound
  BY DEF CutoverInv, CutoverIsSound
<1> QED BY <1>1, <1>2, <1>3, PTL DEF StoresSpec
===============================================================================
