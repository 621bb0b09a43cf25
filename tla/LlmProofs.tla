------------------------------ MODULE LlmProofs ------------------------------
(***************************************************************************)
(* Machine-checked proofs about the clients of Ollama, for any set of      *)
(* clients and any number of slots, calls and retries.                     *)
(***************************************************************************)
EXTENDS LlmSystem, FiniteSetTheorems, SequenceTheorems, TLAPS

ClientRow ==
  [pc : {"idle", "reading", "parsing", "queued", "holding", "planned"},
   call : Reads \cup {"none", "completion", "answer", "tools"},
   attempt : Nat, began : Nat, fetched : Nat]

ClientTypeOK == clock \in Nat /\ client \in [Client -> ClientRow]

(***************************************************************************)
(* SlotsAreCounted relates the gate to what the clients are doing.  It is  *)
(* inductive once it is known that the queue is a sequence of clients,     *)
(* that nobody is asleep and notified at once, and that the holders are    *)
(* finitely many, though the clients need not be.                          *)
(***************************************************************************)
GateInv ==
  /\ waiting \in Seq(Client)
  /\ asleep \cap notified = {}
  /\ IsFiniteSet(Doing("holding"))
  /\ SlotsAreCounted

-----------------------------------------------------------------------------
(* Queues without repetition.                                               *)

LEMMA AppendKeeps ==
  ASSUME NEW s \in Seq(Client), IsInjective(s), NEW c \in Client, c \notin ToSet(s)
  PROVE  /\ Append(s, c) \in Seq(Client)
         /\ IsInjective(Append(s, c))
         /\ ToSet(Append(s, c)) = ToSet(s) \cup {c}
<1>1. /\ Append(s, c) \in Seq(Client)
      /\ Len(Append(s, c)) = Len(s) + 1
      /\ \A i \in 1..Len(s) : Append(s, c)[i] = s[i]
      /\ Append(s, c)[Len(s) + 1] = c
  BY AppendProperties
<1>2. DOMAIN s = 1..Len(s) /\ DOMAIN Append(s, c) = 1..(Len(s) + 1) /\ Len(s) \in Nat
  BY <1>1
<1>3. \A i \in 1..Len(s) : s[i] # c
  BY <1>2 DEF ToSet
<1>4. IsInjective(Append(s, c))
  BY <1>1, <1>2, <1>3 DEF IsInjective
<1>5. ToSet(Append(s, c)) = ToSet(s) \cup {c}
  BY <1>1, <1>2 DEF ToSet
<1>6. QED BY <1>1, <1>4, <1>5

LEMMA TailKeeps ==
  ASSUME NEW s \in Seq(Client), IsInjective(s), s # <<>>
  PROVE  /\ Tail(s) \in Seq(Client)
         /\ IsInjective(Tail(s))
         /\ ToSet(Tail(s)) = ToSet(s) \ {Head(s)}
<1>1. /\ Tail(s) \in Seq(Client)
      /\ Len(Tail(s)) = Len(s) - 1
      /\ \A i \in 1..Len(Tail(s)) : Tail(s)[i] = s[i + 1]
  BY HeadTailProperties
<1>2. /\ DOMAIN s = 1..Len(s) /\ DOMAIN Tail(s) = 1..(Len(s) - 1)
      /\ Len(s) \in Nat \ {0} /\ Head(s) = s[1]
  BY <1>1
<1>3. IsInjective(Tail(s))
  BY <1>1, <1>2 DEF IsInjective
<1>4. \A i \in 1..Len(s) : i # 1 => i - 1 \in 1..(Len(s) - 1) /\ s[i] = Tail(s)[i - 1]
  BY <1>1, <1>2
<1>5. \A i \in 1..Len(s) : i # 1 => s[i] # s[1]
  BY <1>2 DEF IsInjective
<1>6. ToSet(Tail(s)) = ToSet(s) \ {Head(s)}
  <2>1. ASSUME NEW i \in 1..Len(Tail(s))
        PROVE  Tail(s)[i] \in ToSet(s) \ {Head(s)}
    <3>1. i + 1 \in 1..Len(s) /\ i + 1 # 1 /\ Tail(s)[i] = s[i + 1]
      BY <1>1, <1>2
    <3>2. QED BY <1>2, <1>5, <3>1 DEF ToSet
  <2>2. ASSUME NEW i \in 1..Len(s), s[i] # Head(s)
        PROVE  s[i] \in ToSet(Tail(s))
    BY <1>2, <1>4, <2>2 DEF ToSet
  <2>3. DOMAIN s = 1..Len(s) /\ DOMAIN Tail(s) = 1..Len(Tail(s))
    BY <1>1, <1>2
  <2>4. QED BY <2>1, <2>2, <2>3 DEF ToSet
<1>7. QED BY <1>1, <1>3, <1>6

-----------------------------------------------------------------------------
(* One client moves at a time.                                              *)

Only(c) == \A d \in Client \ {c} : client'[d] = client[d]

LEMMA DoingMoves ==
  ASSUME NEW c \in Client, Only(c), NEW pc
  PROVE  Doing(pc)' = IF client'[c].pc = pc THEN Doing(pc) \cup {c} ELSE Doing(pc) \ {c}
  BY DEF Only, Doing

(* A client that had no slot and did not wait takes one at once.            *)
LEMMA EnterKeeps ==
  ASSUME GateInv, GateAssumption, NEW c \in Client, Only(c), Enter,
         client[c].pc \notin {"queued", "holding"}, client'[c].pc = "holding"
  PROVE  GateInv'
<1>1. Doing("holding")' = Doing("holding") \cup {c} /\ c \notin Doing("holding")
  BY DoingMoves DEF Doing
<1>2. Doing("queued")' = Doing("queued")
  BY DoingMoves DEF Doing
<1>3. /\ IsFiniteSet(Doing("holding"))'
      /\ Cardinality(Doing("holding"))' = Cardinality(Doing("holding")) + 1
  BY <1>1, FS_AddElement DEF GateInv
<1>4. Cardinality(Doing("holding")) \in Nat
  BY FS_CardinalityType DEF GateInv
<1>5. active' = Cardinality(Doing("holding"))' /\ active' <= MaxConcurrent
  BY <1>3, <1>4 DEF Enter, EntersAtOnce, HasSlot, GateInv, SlotsAreCounted, GateAssumption
<1>6. QED BY <1>2, <1>3, <1>5 DEF Enter, GateInv, SlotsAreCounted

(* Or it goes to sleep at the end of the queue.                             *)
LEMMA EnqueueKeeps ==
  ASSUME GateInv, NEW c \in Client, Only(c), Enqueue(c),
         client[c].pc \notin {"queued", "holding"}, client'[c].pc = "queued"
  PROVE  GateInv'
<1>1. Doing("holding")' = Doing("holding")
  BY DoingMoves DEF Doing
<1>2. Doing("queued")' = Doing("queued") \cup {c} /\ c \notin Doing("queued")
  BY DoingMoves DEF Doing
<1>3. /\ waiting' \in Seq(Client)
      /\ IsInjective(waiting')
      /\ ToSet(waiting') = Doing("queued")'
  <2>1. waiting \in Seq(Client) /\ IsInjective(waiting) /\ ToSet(waiting) = Doing("queued")
    BY DEF GateInv, SlotsAreCounted
  <2>2. waiting' = Append(waiting, c)
    BY DEF Enqueue
  <2>3. QED BY <1>2, <2>1, <2>2, AppendKeeps
<1>4. (asleep \cup notified)' = Doing("queued")'
  BY <1>2 DEF Enqueue, GateInv, SlotsAreCounted
<1>5. (asleep \cap notified)' = {}
  BY <1>2 DEF Enqueue, GateInv, SlotsAreCounted
<1>6. QED BY <1>1, <1>3, <1>4, <1>5 DEF Enqueue, GateInv, SlotsAreCounted

(* The head of the queue finds a slot.                                      *)
LEMMA AdmitKeeps ==
  ASSUME GateInv, GateAssumption, NEW c \in Client, Only(c), Admit(c),
         client[c].pc = "queued", client'[c].pc = "holding"
  PROVE  GateInv'
<1>1. Doing("holding")' = Doing("holding") \cup {c} /\ c \notin Doing("holding")
  BY DoingMoves DEF Doing
<1>2. Doing("queued")' = Doing("queued") \ {c}
  BY DoingMoves DEF Doing
<1>3. /\ IsFiniteSet(Doing("holding"))'
      /\ Cardinality(Doing("holding"))' = Cardinality(Doing("holding")) + 1
  BY <1>1, FS_AddElement DEF GateInv
<1>4. Cardinality(Doing("holding")) \in Nat
  BY FS_CardinalityType DEF GateInv
<1>5. active' = Cardinality(Doing("holding"))' /\ active' <= MaxConcurrent
  BY <1>3, <1>4 DEF Admit, Admitted, HasSlot, GateInv, SlotsAreCounted, GateAssumption
<1>6. waiting # <<>> /\ Head(waiting) = c
  BY DEF Admit, Admitted, GateInv, SlotsAreCounted, ToSet, Doing
<1>7. /\ waiting' \in Seq(Client)
      /\ IsInjective(waiting')
      /\ ToSet(waiting') = Doing("queued")'
  BY <1>2, <1>6, TailKeeps DEF Admit, GateInv, SlotsAreCounted
<1>8. (asleep \cup notified)' = Doing("queued")'
  BY <1>2 DEF Admit, Admitted, GateInv, SlotsAreCounted
<1>9. QED BY <1>3, <1>5, <1>7, <1>8 DEF Admit, GateInv, SlotsAreCounted

(* A holder gives its slot back and wakes everybody.                        *)
LEMMA LeaveKeeps ==
  ASSUME GateInv, GateAssumption, NEW c \in Client, Only(c), Leave,
         client[c].pc = "holding", client'[c].pc \notin {"queued", "holding"}
  PROVE  GateInv'
<1>1. Doing("holding")' = Doing("holding") \ {c} /\ c \in Doing("holding")
  BY DoingMoves DEF Doing
<1>2. Doing("queued")' = Doing("queued")
  BY DoingMoves DEF Doing
<1>3. /\ IsFiniteSet(Doing("holding"))'
      /\ Cardinality(Doing("holding"))' = Cardinality(Doing("holding")) - 1
  BY <1>1, FS_RemoveElement DEF GateInv
<1>4. Cardinality(Doing("holding")) \in Nat
  BY FS_CardinalityType DEF GateInv
<1>5. active' = Cardinality(Doing("holding"))' /\ active' <= MaxConcurrent
  BY <1>3, <1>4 DEF Leave, GateInv, SlotsAreCounted, GateAssumption
<1>6. (asleep \cup notified)' = Doing("queued")'
  BY <1>2 DEF Leave, GateInv, SlotsAreCounted
<1>7. QED BY <1>2, <1>3, <1>5, <1>6 DEF Leave, GateInv, SlotsAreCounted

(* A waiter that was woken and finds no slot sleeps again.                  *)
LEMMA SleepAgainKeeps ==
  ASSUME GateInv, NEW c \in Client, SleepAgain(c), UNCHANGED client
  PROVE  GateInv'
<1>1. \A pc : Doing(pc)' = Doing(pc)
  BY DEF Doing
<1>2. (asleep \cup notified)' = Doing("queued")'
  BY <1>1 DEF SleepAgain, GateInv, SlotsAreCounted
<1>3. QED BY <1>1, <1>2 DEF SleepAgain, GateInv, SlotsAreCounted

(* What happens away from the gate does not disturb it.                     *)
LEMMA AwayKeeps ==
  ASSUME GateInv, UNCHANGED gateVars, NEW c \in Client, Only(c),
         client[c].pc \notin {"queued", "holding"},
         client'[c].pc \notin {"queued", "holding"}
  PROVE  GateInv'
<1>1. Doing("holding")' = Doing("holding") /\ Doing("queued")' = Doing("queued")
  BY DoingMoves DEF Doing
<1>2. QED BY <1>1 DEF gateVars, GateInv, SlotsAreCounted

-----------------------------------------------------------------------------
(* The steps of the clients.                                                *)

LEMMA RowMoves ==
  ASSUME ClientTypeOK, NEW c \in Client, NEW r \in ClientRow,
         client' = [client EXCEPT ![c] = r]
  PROVE  client' \in [Client -> ClientRow] /\ Only(c) /\ client'[c] = r
  BY DEF ClientTypeOK, Only

LEMMA GotoMoves ==
  ASSUME ClientTypeOK, NEW c \in Client,
         NEW pc \in {"idle", "reading", "parsing", "queued", "holding", "planned"},
         Goto(c, pc)
  PROVE  client' \in [Client -> ClientRow] /\ Only(c) /\ client'[c].pc = pc
<1>1. [client[c] EXCEPT !.pc = pc] \in ClientRow
  BY DEF ClientTypeOK, ClientRow
<1>2. client' = [client EXCEPT ![c] = [client[c] EXCEPT !.pc = pc]]
  BY DEF Goto
<1>3. [client[c] EXCEPT !.pc = pc].pc = pc
  BY DEF ClientTypeOK, ClientRow
<1>4. QED BY <1>1, <1>2, <1>3, RowMoves

LEMMA ReturnMoves ==
  ASSUME ClientTypeOK, NEW c \in Client, Return(c)
  PROVE  client' \in [Client -> ClientRow] /\ Only(c) /\ client'[c].pc = "idle"
<1>1. Idle \in ClientRow /\ Idle.pc = "idle"
  BY DEF Idle, ClientRow
<1>2. QED BY <1>1, RowMoves DEF Return

(* Asking for a slot, from wherever a client asks.                          *)
LEMMA AskKeeps ==
  ASSUME ClientTypeOK, GateInv, GateAssumption, NEW c \in Client,
         NEW call \in {"completion", "answer", "tools"},
         client[c].pc \notin {"queued", "holding"}, AskForSlot(c, call)
  PROVE  client' \in [Client -> ClientRow] /\ GateInv'
<1>1. ASSUME NEW pc \in {"queued", "holding"}, Now(c, pc, call)
      PROVE  client' \in [Client -> ClientRow] /\ Only(c) /\ client'[c].pc = pc
  <2>1. [client[c] EXCEPT !.pc = pc, !.call = call] \in ClientRow
    BY DEF ClientTypeOK, ClientRow
  <2>2. client' = [client EXCEPT ![c] = [client[c] EXCEPT !.pc = pc, !.call = call]]
    BY <1>1 DEF Now
  <2>3. [client[c] EXCEPT !.pc = pc, !.call = call].pc = pc
    BY DEF ClientTypeOK, ClientRow
  <2>4. QED BY <2>1, <2>2, <2>3, RowMoves
<1>2. CASE Enter /\ Now(c, "holding", call)
  BY <1>1, <1>2, EnterKeeps
<1>3. CASE Enqueue(c) /\ Now(c, "queued", call)
  BY <1>1, <1>3, EnqueueKeeps
<1>4. QED BY <1>2, <1>3 DEF AskForSlot

(* Calls begin at the cache, at the breaker or at the gate.                 *)
LEMMA BeginKeeps ==
  ASSUME ClientTypeOK, GateInv, NEW c \in Client, Begin(c)
  PROVE  ClientTypeOK' /\ GateInv'
<1>i. client[c].pc = "idle"
  BY DEF Begin, AnswerFromCache, Refuse, BeginRead, GenerateCompletion, PlanToolCall,
         YieldChatTokens, YieldGenerateTokens, StreamTokensWithTools, Infer, Call
<1>1. CASE AnswerFromCache(c) \/ Refuse(c)
  <2>1. UNCHANGED <<gateVars, clock, client>>
    BY <1>1 DEF AnswerFromCache, Refuse, readVars
  <2>2. QED BY <1>i, <2>1, AwayKeeps DEF Only, ClientTypeOK
<1>2. ASSUME NEW call \in Reads, BeginRead(c, call) PROVE ClientTypeOK' /\ GateInv'
  <2> DEFINE r == [Idle EXCEPT !.pc = "reading", !.call = call, !.attempt = 1,
                               !.began = clock]
  <2>1. r \in ClientRow /\ r.pc = "reading"
    BY DEF Idle, ClientRow, ClientTypeOK
  <2>2. client' = [client EXCEPT ![c] = r] /\ UNCHANGED <<gateVars, clock>>
    BY <1>2 DEF BeginRead
  <2> HIDE DEF r
  <2>3. client' \in [Client -> ClientRow] /\ Only(c) /\ client'[c].pc = "reading"
    BY <2>1, <2>2, RowMoves
  <2>4. QED BY <1>i, <2>2, <2>3, AwayKeeps DEF ClientTypeOK
<1>3. ASSUME NEW call \in {"completion", "answer", "tools"}, Infer(c, call)
      PROVE  ClientTypeOK' /\ GateInv'
  BY <1>i, <1>3, AskKeeps, GateAssumption DEF Infer, readVars, ClientTypeOK
<1>4. QED
  BY <1>1, <1>2, <1>3
  DEF Begin, GenerateCompletion, PlanToolCall, YieldChatTokens, YieldGenerateTokens,
      StreamTokensWithTools

(* Reads go on, retry and end away from the gate.                           *)
LEMMA ReadKeeps ==
  ASSUME ClientTypeOK, GateInv, NEW c \in Client,
         ReadSucceeds(c) \/ KeepTags(c) \/ KeepShow(c) \/ Retry(c) \/ ReadFails(c)
  PROVE  ClientTypeOK' /\ GateInv'
<1>p. client[c].pc \in {"reading", "parsing"} /\ UNCHANGED <<gateVars, clock>>
  BY DEF ReadSucceeds, KeepTags, KeepShow, Retry, ReadFails, readVars
<1>q. ASSUME client' \in [Client -> ClientRow], Only(c),
             client'[c].pc \in {"idle", "reading", "parsing"}
      PROVE  ClientTypeOK' /\ GateInv'
  BY <1>p, <1>q, AwayKeeps DEF ClientTypeOK
<1>1. CASE ReadSucceeds(c)
  <2> DEFINE r == [client[c] EXCEPT !.pc = "parsing", !.fetched = clock]
  <2>1. r \in ClientRow /\ r.pc = "parsing"
    BY DEF ClientTypeOK, ClientRow
  <2>2. client' = [client EXCEPT ![c] = r]
    BY <1>1 DEF ReadSucceeds
  <2> HIDE DEF r
  <2>3. QED BY <1>q, <2>1, <2>2, RowMoves
<1>2. CASE Retry(c)
  <2> DEFINE r == [client[c] EXCEPT !.pc = "reading", !.attempt = @ + 1, !.fetched = 0]
  <2>0. client[c] \in ClientRow /\ client[c].attempt + 1 \in Nat /\ 0 \in Nat
    BY DEF ClientTypeOK, ClientRow
  <2>1. r \in ClientRow /\ r.pc = "reading"
    BY <2>0 DEF ClientRow
  <2>2. client' = [client EXCEPT ![c] = r]
    BY <1>2 DEF Retry
  <2> HIDE DEF r
  <2>3. QED BY <1>q, <2>1, <2>2, RowMoves
<1>3. CASE Return(c)
  BY <1>3, <1>q, ReturnMoves
<1>4. QED BY <1>1, <1>2, <1>3 DEF KeepTags, KeepShow, ReadFails

(* The holder of a slot gives it back whatever ends its call, a waiter      *)
(* looks again, and a plan is followed up.                                  *)
LEMMA GateStepKeeps ==
  ASSUME ClientTypeOK, GateInv, NEW c \in Client,
         \/ LookAgain(c) \/ PostChatFails(c) \/ EndInference(c) \/ DropStream(c)
         \/ StreamToolFollowup(c)
  PROVE  ClientTypeOK' /\ GateInv'
<1>c. UNCHANGED clock
  BY DEF LookAgain, PostChatFails, EndInference, DropStream, StreamToolFollowup, readVars
<1>q. c \in notified => client[c].pc = "queued"
  BY DEF GateInv, SlotsAreCounted, Doing
<1>1. CASE Admit(c) /\ Goto(c, "holding")
  <2>1. client[c].pc = "queued"
    BY <1>1, <1>q DEF Admit, Admitted
  <2>2. QED BY <1>1, <1>c, <2>1, GotoMoves, AdmitKeeps, GateAssumption DEF ClientTypeOK
<1>2. CASE SleepAgain(c) /\ UNCHANGED client
  BY <1>2, <1>c, SleepAgainKeeps DEF ClientTypeOK
<1>3. CASE /\ client[c].pc = "holding" /\ Leave
           /\ Return(c) \/ Goto(c, "planned")
  <2>1. /\ client' \in [Client -> ClientRow] /\ Only(c)
        /\ client'[c].pc \in {"idle", "planned"}
    BY <1>3, GotoMoves, ReturnMoves
  <2>2. QED BY <1>3, <1>c, <2>1, LeaveKeeps, GateAssumption DEF ClientTypeOK
<1>4. CASE client[c].pc = "planned" /\ AskForSlot(c, "answer")
  BY <1>4, <1>c, AskKeeps, GateAssumption DEF ClientTypeOK
<1>5. QED
  BY <1>1, <1>2, <1>3, <1>4
  DEF LookAgain, PostChatFails, EndInference, Planned, DropStream, Streams, StreamToolFollowup

LEMMA StepKeeps ==
  ClientTypeOK /\ GateInv /\ [Next]_vars => ClientTypeOK' /\ GateInv'
<1> SUFFICES ASSUME ClientTypeOK, GateInv, [Next]_vars
             PROVE  ClientTypeOK' /\ GateInv'
  OBVIOUS
<1>q. ASSUME UNCHANGED <<gateVars, client>>, clock' \in Nat
      PROVE  ClientTypeOK' /\ GateInv'
  BY <1>q DEF gateVars, ClientTypeOK, GateInv, SlotsAreCounted, Doing
<1>1. CASE ClockTicks
  BY <1>1, <1>q DEF ClockTicks, Tick, ClientTypeOK
<1>2. ASSUME NEW c \in Client, Begin(c) \/ Go(c) \/ DropStream(c)
      PROVE  ClientTypeOK' /\ GateInv'
  BY <1>2, BeginKeeps, ReadKeeps, GateStepKeeps DEF Go
<1>3. ASSUME NEW c \in Client, YieldChunk(c) \/ NextChunk(c)
      PROVE  ClientTypeOK' /\ GateInv'
  BY <1>3, <1>q DEF YieldChunk, NextChunk, readVars, ClientTypeOK
<1>4. CASE UNCHANGED vars
  BY <1>4, <1>q DEF vars, readVars, ClientTypeOK
<1>5. QED BY <1>1, <1>2, <1>3, <1>4 DEF Next

LEMMA InitKeeps == Init => ClientTypeOK /\ GateInv
<1> SUFFICES ASSUME Init PROVE ClientTypeOK /\ GateInv
  OBVIOUS
<1>1. Idle \in ClientRow /\ Idle.pc = "idle"
  BY DEF Idle, ClientRow
<1>2. ClientTypeOK
  BY <1>1 DEF Init, ReadsInit, ClientTypeOK
<1>3. Doing("holding") = {} /\ Doing("queued") = {}
  BY <1>1 DEF Init, Doing
<1>4. waiting \in Seq(Client) /\ IsInjective(waiting) /\ ToSet(waiting) = {}
  BY DEF Init, GateInit, IsInjective, ToSet
<1>5. active = Cardinality(Doing("holding")) /\ active <= MaxConcurrent
  BY <1>3, FS_EmptySet, GateAssumption DEF Init, GateInit, GateAssumption
<1>6. asleep \cup notified = Doing("queued") /\ asleep \cap notified = {}
  BY <1>3 DEF Init, GateInit
<1>7. QED BY <1>2, <1>3, <1>4, <1>5, <1>6, FS_EmptySet DEF GateInv, SlotsAreCounted

(* The gate knows its clients in every reachable state: never more holders  *)
(* than slots, none lost and none given back twice, by an answer, an error, *)
(* a disconnect or a plan, and nobody waits who is not in the queue once.   *)
THEOREM EverySlotHasItsHolder == Spec => []SlotsAreCounted
<1>1. GateInv => SlotsAreCounted
  BY DEF GateInv
<1>2. QED BY <1>1, InitKeeps, StepKeeps, PTL DEF Spec

-----------------------------------------------------------------------------
(* The reads.  A breaker's state is the history of its client's failures,   *)
(* and no report in the cache or on its way there was fetched before the    *)
(* request for it began; with the types these parts are inductive.          *)

BreakerRow == [state : {"closed", "open", "half_open"}, failures : Nat, until : Nat]

MissRow == [count : Nat, at : Nat]

ReadsTypeOK ==
  /\ breaker \in [Client -> BreakerRow]
  /\ missed \in [Client -> MissRow]
  /\ cache \in [expires : Nat, fetched : Nat]
  /\ told \in Nat

BreakerInv(c) ==
  /\ breaker[c].state = "closed" =>
       breaker[c].failures = missed[c].count /\ missed[c].count < Failures
  /\ breaker[c].state # "closed" => missed[c].count >= Failures
  /\ breaker[c].state = "open" =>
       /\ breaker[c].until = missed[c].at + OpenSec
       /\ client[c].pc \notin {"reading", "parsing"}
  /\ breaker[c].state = "half_open" => clock >= missed[c].at + OpenSec

ReportInv(c) ==
  /\ client[c].pc \in {"reading", "parsing"} => client[c].began <= clock
  /\ client[c].pc = "parsing" =>
       client[c].began <= client[c].fetched /\ client[c].fetched <= clock

CacheInv ==
  /\ cache.fetched <= clock
  /\ cache.expires <= cache.fetched + Ttl
  /\ told <= Ttl

ReadInv == ReadsTypeOK /\ CacheInv /\ \A c \in Client : BreakerInv(c) /\ ReportInv(c)

(* A step that is not a read leaves what reads know alone.                  *)
LEMMA AwayFromReads ==
  ASSUME ClientTypeOK, ReadInv, UNCHANGED <<readVars, told>>,
         \A c \in Client : client'[c].pc \in {"reading", "parsing"} => client'[c] = client[c]
  PROVE  ReadInv'
<1>1. ReadsTypeOK' /\ CacheInv'
  BY DEF ReadInv, ReadsTypeOK, CacheInv, readVars
<1>2. ASSUME NEW c \in Client PROVE BreakerInv(c)' /\ ReportInv(c)'
  BY DEF ReadInv, BreakerInv, ReportInv, readVars
<1>3. QED BY <1>1, <1>2 DEF ReadInv

(* One client's read changes one breaker.                                   *)
LEMMA OneReads ==
  ASSUME ClientTypeOK, ReadInv, UNCHANGED clock, NEW c \in Client, Only(c),
         \A d \in Client \ {c} : breaker'[d] = breaker[d] /\ missed'[d] = missed[d],
         ReadsTypeOK', CacheInv', BreakerInv(c)', ReportInv(c)'
  PROVE  ReadInv'
<1>1. ASSUME NEW d \in Client \ {c} PROVE BreakerInv(d)' /\ ReportInv(d)'
  BY DEF Only, ReadInv, BreakerInv, ReportInv
<1>2. QED BY <1>1 DEF ReadInv

(* A call that begins.                                                      *)
LEMMA BeginReads ==
  ASSUME ClientTypeOK, ReadInv, NEW c \in Client, Begin(c)
  PROVE  ReadInv'
<1>t. /\ client[c] \in ClientRow /\ breaker[c] \in BreakerRow /\ missed[c] \in MissRow
      /\ clock \in Nat /\ Ttl \in Nat /\ OpenSec \in Nat /\ Failures \in Nat
      /\ cache.expires \in Nat /\ cache.fetched \in Nat
      /\ BreakerInv(c) /\ ReportInv(c) /\ told \in Nat
  BY ReadsAssumption DEF ClientTypeOK, ReadInv, ReadsTypeOK
<1>1. CASE AnswerFromCache(c)
  <2>1. UNCHANGED <<readVars, client>> /\ CacheHit
    BY <1>1 DEF AnswerFromCache
  <2>2. clock - cache.fetched \in Nat /\ clock - cache.fetched <= Ttl
    BY <1>t, <2>1 DEF CacheHit, ReadInv, CacheInv
  <2>3. told' \in Nat /\ told' <= Ttl
    BY <1>1, <1>t, <2>2 DEF AnswerFromCache, Tell, ReadInv, CacheInv
  <2>4. ReadsTypeOK' /\ CacheInv'
    BY <2>1, <2>3 DEF ReadInv, ReadsTypeOK, CacheInv, readVars
  <2>5. BreakerInv(c)' /\ ReportInv(c)'
    BY <1>t, <2>1 DEF BreakerInv, ReportInv, readVars
  <2>6. QED BY <2>1, <2>4, <2>5, OneReads DEF Only, readVars
<1>2. CASE Refuse(c)
  BY <1>2, AwayFromReads DEF Refuse
<1>3. ASSUME NEW call \in Reads, BeginRead(c, call) PROVE ReadInv'
  <2> DEFINE r == [Idle EXCEPT !.pc = "reading", !.call = call, !.attempt = 1,
                               !.began = clock]
             b == BeforeReadCall(breaker[c])
  <2>1. r \in ClientRow /\ r.pc = "reading" /\ r.began = clock
    BY <1>t DEF Idle, ClientRow
  <2>2. client' = [client EXCEPT ![c] = r] /\ UNCHANGED <<clock, cache, missed, told>>
        /\ breaker' = [breaker EXCEPT ![c] = b] /\ ~Refuses(breaker[c])
    BY <1>3 DEF BeginRead
  <2>3. /\ b \in BreakerRow /\ b.state # "open"
        /\ breaker[c].state # "open" => b = breaker[c]
        /\ breaker[c].state = "open" => b.state = "half_open"
    BY <1>t DEF BeforeReadCall, BreakerRow
  <2> HIDE DEF r, b
  <2>4. Only(c) /\ client'[c] = r
    BY <2>1, <2>2, RowMoves
  <2>5. /\ breaker'[c] = b /\ breaker' \in [Client -> BreakerRow]
        /\ \A d \in Client \ {c} : breaker'[d] = breaker[d]
    BY <2>2, <2>3 DEF ReadInv, ReadsTypeOK
  <2>6. ReadsTypeOK' /\ CacheInv'
    BY <2>2, <2>5 DEF ReadInv, ReadsTypeOK, CacheInv
  <2>7. breaker[c].state = "open" => clock >= missed[c].at + OpenSec
    BY <1>t, <2>2 DEF Refuses, BreakerInv, BreakerRow, MissRow
  <2>8. BreakerInv(c)'
    BY <1>t, <2>2, <2>3, <2>5, <2>7 DEF BreakerInv
  <2>9. ReportInv(c)'
    BY <1>t, <2>1, <2>2, <2>4 DEF ReportInv
  <2>10. QED BY <2>2, <2>4, <2>5, <2>6, <2>8, <2>9, OneReads
<1>4. ASSUME NEW call \in {"completion", "answer", "tools"}, Infer(c, call) PROVE ReadInv'
  <2>1. PICK pc \in {"queued", "holding"} : Now(c, pc, call)
    BY <1>4 DEF Infer, AskForSlot
  <2>2. \A d \in Client : client'[d].pc \in {"reading", "parsing"} => client'[d] = client[d]
    BY <1>t, <2>1 DEF Now, ClientTypeOK, ClientRow
  <2>3. QED BY <1>4, <2>2, AwayFromReads DEF Infer
<1>5. QED
  BY <1>1, <1>2, <1>3, <1>4
  DEF Begin, GenerateCompletion, PlanToolCall, YieldChatTokens, YieldGenerateTokens,
      StreamTokensWithTools

(* A read that goes on, is retried, or ends.                                *)
LEMMA ReadsGoOn ==
  ASSUME ClientTypeOK, ReadInv, NEW c \in Client,
         ReadSucceeds(c) \/ KeepTags(c) \/ KeepShow(c) \/ Retry(c) \/ ReadFails(c)
  PROVE  ReadInv'
<1>t. /\ client[c] \in ClientRow /\ breaker[c] \in BreakerRow /\ missed[c] \in MissRow
      /\ clock \in Nat /\ Ttl \in Nat /\ OpenSec \in Nat /\ Failures \in Nat \ {0}
      /\ cache \in [expires : Nat, fetched : Nat]
      /\ BreakerInv(c) /\ ReportInv(c) /\ CacheInv /\ ReadsTypeOK
  BY ReadsAssumption DEF ClientTypeOK, ReadInv, ReadsTypeOK
<1>c. UNCHANGED <<clock, told>>
  BY DEF ReadSucceeds, KeepTags, KeepShow, Retry, ReadFails, readVars
<1>p. client[c].pc \in {"reading", "parsing"} /\ breaker[c].state # "open"
  BY <1>t DEF ReadSucceeds, KeepTags, KeepShow, Retry, ReadFails, BreakerInv
<1>1. CASE ReadSucceeds(c)
  <2> DEFINE r == [client[c] EXCEPT !.pc = "parsing", !.fetched = clock]
  <2>1. r \in ClientRow /\ r.pc = "parsing" /\ r.fetched = clock /\ r.began = client[c].began
    BY <1>t DEF ClientRow
  <2>2. client' = [client EXCEPT ![c] = r] /\ client[c].pc = "reading" /\ UNCHANGED cache
        /\ breaker' = [breaker EXCEPT ![c] = Closed] /\ missed' = [missed EXCEPT ![c] = NoMiss]
    BY <1>1 DEF ReadSucceeds, MarkReadSuccess
  <2> HIDE DEF r
  <2>3. Only(c) /\ client'[c] = r
    BY <2>1, <2>2, RowMoves
  <2>4. /\ Closed \in BreakerRow /\ NoMiss \in MissRow
        /\ Closed.state = "closed" /\ Closed.failures = 0 /\ NoMiss.count = 0
    BY DEF Closed, NoMiss, BreakerRow, MissRow
  <2>5. /\ breaker' \in [Client -> BreakerRow] /\ missed' \in [Client -> MissRow]
        /\ breaker'[c] = Closed /\ missed'[c] = NoMiss
        /\ \A d \in Client \ {c} : breaker'[d] = breaker[d] /\ missed'[d] = missed[d]
    BY <1>t, <2>2, <2>4 DEF ReadsTypeOK
  <2>6. ReadsTypeOK' /\ CacheInv'
    BY <1>c, <1>t, <2>2, <2>5 DEF ReadsTypeOK, CacheInv
  <2>7. BreakerInv(c)'
    BY <1>t, <2>4, <2>5 DEF BreakerInv
  <2>8. ReportInv(c)'
    BY <1>c, <1>t, <2>1, <2>2, <2>3 DEF ReportInv
  <2>9. QED BY <1>c, <2>3, <2>5, <2>6, <2>7, <2>8, OneReads
<1>2. CASE KeepTags(c) \/ KeepShow(c)
  <2>1. Return(c) /\ UNCHANGED <<breaker, missed>> /\ client[c].pc = "parsing"
    BY <1>2 DEF KeepTags, KeepShow
  <2>2. Only(c) /\ client'[c].pc = "idle"
    BY <2>1, ReturnMoves
  <2>3. \/ cache' = NoEntry
        \/ cache' = cache
        \/ cache' = Entry(client[c].began, client[c].fetched)
    BY <1>2 DEF KeepTags, KeepShow
  <2>4. /\ cache' \in [expires : Nat, fetched : Nat]
        /\ cache'.fetched <= clock /\ cache'.expires <= cache'.fetched + Ttl
    BY <1>t, <2>1, <2>3 DEF NoEntry, Entry, ReportInv, CacheInv, ClientRow
  <2>5. ReadsTypeOK' /\ CacheInv'
    BY <1>c, <1>t, <2>1, <2>4 DEF ReadsTypeOK, CacheInv
  <2>6. BreakerInv(c)' /\ ReportInv(c)'
    BY <1>c, <1>t, <2>1, <2>2 DEF BreakerInv, ReportInv
  <2>7. QED BY <1>c, <2>1, <2>2, <2>5, <2>6, OneReads
<1>3. CASE Retry(c)
  <2> DEFINE r == [client[c] EXCEPT !.pc = "reading", !.attempt = @ + 1, !.fetched = 0]
  <2>0. client[c].attempt + 1 \in Nat /\ 0 \in Nat
    BY <1>t DEF ClientRow
  <2>1. r \in ClientRow /\ r.pc = "reading" /\ r.began = client[c].began
    BY <1>t, <2>0 DEF ClientRow
  <2>2. client' = [client EXCEPT ![c] = r] /\ UNCHANGED <<cache, breaker, missed>>
    BY <1>3 DEF Retry, readVars
  <2> HIDE DEF r
  <2>3. Only(c) /\ client'[c] = r
    BY <2>1, <2>2, RowMoves
  <2>4. ReadsTypeOK' /\ CacheInv'
    BY <1>c, <1>t, <2>2 DEF ReadsTypeOK, CacheInv
  <2>5. BreakerInv(c)' /\ ReportInv(c)'
    BY <1>c, <1>p, <1>t, <2>1, <2>2, <2>3 DEF BreakerInv, ReportInv
  <2>6. QED BY <1>c, <2>2, <2>3, <2>4, <2>5, OneReads
<1>4. CASE ReadFails(c)
  <2> DEFINE b == MarkReadFailure(breaker[c])
             m == Miss(missed[c])
  <2>1. Return(c) /\ UNCHANGED cache
        /\ breaker' = [breaker EXCEPT ![c] = b] /\ missed' = [missed EXCEPT ![c] = m]
    BY <1>4 DEF ReadFails
  <2>2. Only(c) /\ client'[c].pc = "idle"
    BY <2>1, ReturnMoves
  <2>3. m \in MissRow /\ m.at = clock
        /\ m.count = IF missed[c].count < Failures THEN missed[c].count + 1 ELSE missed[c].count
    BY <1>t DEF Miss, MissRow
  <2>4. CASE breaker[c].state = "half_open"
    <3>1. b \in BreakerRow /\ b.state = "open" /\ b.until = clock + OpenSec
      BY <1>t, <2>4 DEF MarkReadFailure, OpenAgain, BreakerRow
    <3>2. m.count >= Failures
      BY <1>t, <2>3, <2>4 DEF BreakerInv, MissRow
    <3> HIDE DEF b, m
    <3>3. /\ breaker' \in [Client -> BreakerRow] /\ missed' \in [Client -> MissRow]
          /\ breaker'[c] = b /\ missed'[c] = m
          /\ \A d \in Client \ {c} : breaker'[d] = breaker[d] /\ missed'[d] = missed[d]
      BY <1>t, <2>1, <2>3, <3>1 DEF ReadsTypeOK
    <3>4. ReadsTypeOK' /\ CacheInv'
      BY <1>c, <1>t, <2>1, <3>3 DEF ReadsTypeOK, CacheInv
    <3>5. BreakerInv(c)' /\ ReportInv(c)'
      BY <1>c, <2>2, <2>3, <3>1, <3>2, <3>3 DEF BreakerInv, ReportInv
    <3>6. QED BY <1>c, <2>2, <3>3, <3>4, <3>5, OneReads
  <2>5. CASE breaker[c].state = "closed"
    <3>1. breaker[c].failures = missed[c].count /\ missed[c].count < Failures
      BY <1>t, <2>5 DEF BreakerInv
    <3>2. m.count = breaker[c].failures + 1
      BY <1>t, <2>3, <3>1
    <3>3. /\ b \in BreakerRow
          /\ m.count >= Failures => b.state = "open" /\ b.until = clock + OpenSec
          /\ m.count < Failures => b.state = "closed" /\ b.failures = m.count
      BY <1>t, <2>5, <3>1, <3>2 DEF MarkReadFailure, OpenAgain, BreakerRow
    <3>4. m.count \in Nat
      BY <2>3 DEF MissRow
    <3> HIDE DEF b, m
    <3>5. /\ breaker' \in [Client -> BreakerRow] /\ missed' \in [Client -> MissRow]
          /\ breaker'[c] = b /\ missed'[c] = m
          /\ \A d \in Client \ {c} : breaker'[d] = breaker[d] /\ missed'[d] = missed[d]
      BY <1>t, <2>1, <2>3, <3>3 DEF ReadsTypeOK
    <3>6. ReadsTypeOK' /\ CacheInv'
      BY <1>c, <1>t, <2>1, <3>5 DEF ReadsTypeOK, CacheInv
    <3>7. BreakerInv(c)' /\ ReportInv(c)'
      BY <1>c, <1>t, <2>2, <2>3, <3>3, <3>4, <3>5 DEF BreakerInv, ReportInv
    <3>8. QED BY <1>c, <2>2, <3>5, <3>6, <3>7, OneReads
  <2>6. QED BY <1>p, <1>t, <2>4, <2>5 DEF BreakerRow
<1>5. QED BY <1>1, <1>2, <1>3, <1>4

(* Every step keeps what reads know.                                        *)
LEMMA ReadStepKeeps ==
  ClientTypeOK /\ ReadInv /\ [Next]_vars => ReadInv'
<1> SUFFICES ASSUME ClientTypeOK, ReadInv, [Next]_vars PROVE ReadInv'
  OBVIOUS
<1>1. CASE ClockTicks
  <2>1. clock' = clock + 1 /\ UNCHANGED <<breaker, cache, missed, client, told>>
    BY <1>1 DEF ClockTicks, Tick
  <2>t. /\ clock \in Nat /\ OpenSec \in Nat /\ cache.fetched \in Nat
        /\ client \in [Client -> ClientRow] /\ missed \in [Client -> MissRow]
    BY ReadsAssumption DEF ClientTypeOK, ReadInv, ReadsTypeOK
  <2>2. ReadsTypeOK' /\ CacheInv'
    BY <2>1, <2>t DEF ReadInv, ReadsTypeOK, CacheInv
  <2>3. ASSUME NEW c \in Client PROVE BreakerInv(c)' /\ ReportInv(c)'
    <3>1. BreakerInv(c) /\ ReportInv(c) /\ client[c] \in ClientRow /\ missed[c] \in MissRow
      BY <2>t DEF ReadInv
    <3>2. QED BY <2>1, <2>t, <3>1 DEF BreakerInv, ReportInv, ClientRow, MissRow
  <2>4. QED BY <2>2, <2>3 DEF ReadInv
<1>2. ASSUME NEW c \in Client, Begin(c) PROVE ReadInv'
  BY <1>2, BeginReads
<1>3. ASSUME NEW c \in Client, Go(c) \/ DropStream(c) \/ YieldChunk(c) \/ NextChunk(c)
      PROVE  ReadInv'
  <2>1. CASE ReadSucceeds(c) \/ KeepTags(c) \/ KeepShow(c) \/ Retry(c) \/ ReadFails(c)
    BY <2>1, ReadsGoOn
  <2>2. CASE \/ LookAgain(c) \/ PostChatFails(c) \/ EndInference(c) \/ DropStream(c)
             \/ StreamToolFollowup(c) \/ YieldChunk(c) \/ NextChunk(c)
    <3>1. UNCHANGED <<readVars, told>>
      BY <2>2 DEF LookAgain, PostChatFails, EndInference, DropStream, StreamToolFollowup,
                  YieldChunk, NextChunk
    <3>2. \/ UNCHANGED client
          \/ Goto(c, "holding") \/ Goto(c, "planned") \/ Return(c)
          \/ Now(c, "queued", "answer") \/ Now(c, "holding", "answer")
      BY <2>2 DEF LookAgain, PostChatFails, EndInference, DropStream, StreamToolFollowup,
                  YieldChunk, NextChunk, Planned, AskForSlot
    <3>3. \A d \in Client : client'[d].pc \in {"reading", "parsing"} => client'[d] = client[d]
      BY <3>2 DEF Goto, Return, Now, Idle, ClientTypeOK, ClientRow
    <3>4. QED BY <3>1, <3>3, AwayFromReads
  <2>3. QED BY <1>3, <2>1, <2>2 DEF Go
<1>4. CASE UNCHANGED vars
  BY <1>4, AwayFromReads DEF vars
<1>5. QED BY <1>1, <1>2, <1>3, <1>4 DEF Next

(* At first nothing failed and nothing was reported.                        *)
LEMMA ReadInit == Init => ReadInv
<1> SUFFICES ASSUME Init PROVE ReadInv
  OBVIOUS
<1>1. /\ Closed \in BreakerRow /\ NoMiss \in MissRow /\ NoEntry \in [expires : Nat, fetched : Nat]
      /\ Closed.state = "closed" /\ Closed.failures = 0 /\ NoMiss.count = 0
      /\ NoEntry.expires = 0 /\ NoEntry.fetched = 0 /\ Idle.pc = "idle"
  BY DEF Closed, NoMiss, NoEntry, BreakerRow, MissRow, Idle
<1>2. ReadsTypeOK /\ CacheInv
  BY <1>1, ReadsAssumption DEF Init, ReadsInit, ReadsTypeOK, CacheInv
<1>3. \A c \in Client : BreakerInv(c) /\ ReportInv(c)
  BY <1>1, ReadsAssumption DEF Init, ReadsInit, BreakerInv, ReportInv
<1>4. QED BY <1>2, <1>3 DEF ReadInv

(* A client's breaker refuses exactly while the last of enough failed reads *)
(* is recent, whatever succeeded, was retried or probed meanwhile; and      *)
(* nobody is told capabilities that were reported longer ago than the cache *)
(* may keep them.                                                           *)
THEOREM ReadsTellTheTruth == Spec => []ReadsAreSound
<1>1. ClientTypeOK /\ ReadInv => ReadsAreSound
  <2> SUFFICES ASSUME ClientTypeOK, ReadInv PROVE ReadsAreSound
    OBVIOUS
  <2>1. ASSUME NEW c \in Client
        PROVE  Refuses(breaker[c]) <=> /\ missed[c].count >= Failures
                                       /\ clock < missed[c].at + OpenSec
    <3>1. /\ BreakerInv(c) /\ breaker[c] \in BreakerRow /\ missed[c] \in MissRow
          /\ clock \in Nat /\ OpenSec \in Nat /\ Failures \in Nat
      BY ReadsAssumption DEF ReadInv, ReadsTypeOK, ClientTypeOK
    <3>2. QED BY <3>1 DEF BreakerInv, Refuses, BreakerRow, MissRow
  <2>2. QED BY <2>1 DEF ReadsAreSound, BreakerIsExact, CapabilitiesAreFresh, ReadInv, CacheInv
<1>2. Spec => []ClientTypeOK
  BY InitKeeps, StepKeeps, PTL DEF Spec
<1>3. QED BY <1>1, <1>2, ReadInit, ReadStepKeeps, PTL DEF Spec
=============================================================================
