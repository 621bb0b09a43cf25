------------------------------ MODULE LlmSystem ------------------------------
(***************************************************************************)
(* The clients of Ollama.  A request or a background task has an           *)
(* OllamaService of its own (get_llm_client) and makes one call after the  *)
(* other: reads of the tags or of a model's capabilities, completions,     *)
(* streams, and tool streams, which a plan breaks off for a follow-up      *)
(* (chat_stream_driver).  All of it runs in the worker threads the server  *)
(* has one pool of: a call that waits keeps its thread, a stream takes one *)
(* for every chunk.                                                        *)
(***************************************************************************)
EXTENDS Naturals, Sequences, FiniteSets, SequencesExt

CONSTANTS
    Client,         \* clients of Ollama: the requests and tasks under way
    MaxConcurrent,  \* ollama_max_concurrent_requests
    Failures,       \* ollama_circuit_breaker_failures
    OpenSec,        \* ollama_circuit_breaker_open_sec
    Attempts,       \* ollama_read_retry_attempts
    Ttl,            \* model_cap_cache_ttl_sec
    MaxTime,        \* bound: the clock
    Threads,        \* bound: the worker threads, 40 in the program
    MaxCalls        \* bound: the calls of all clients

ASSUME GateAssumption == MaxConcurrent \in Nat \ {0}

ASSUME ReadsAssumption ==
    /\ Failures \in Nat \ {0} /\ OpenSec \in Nat \ {0} /\ Attempts \in Nat \ {0}
    /\ Ttl \in Nat /\ MaxTime \in Nat

ASSUME PoolAssumption == Threads \in Nat \ {0}

VARIABLES
    waiting,        \* tokens, in request order
    active,         \* slots in use
    asleep,         \* who sleeps on the condition
    notified,       \* who was notified and has not looked again yet
    clock,          \* time.monotonic()
    breaker,        \* [Client -> breaker of its OllamaService]
    cache,          \* the capabilities of the model, class-wide
    missed,         \* [Client -> its failed reads since the last success]
    outage,         \* the same for the whole process
    client,         \* [Client -> what it is doing]
    threads,        \* how many worker threads there are
    pool,           \* the clients that have one
    calls,          \* how many calls were made
    told            \* the oldest capabilities a caller was given, by age

gateVars == <<waiting, active, asleep, notified>>

readVars == <<clock, breaker, cache, missed, outage>>

vars == <<gateVars, readVars, client, threads, pool, calls, told>>

-----------------------------------------------------------------------------
(***************************************************************************)
(* _InferenceConcurrencyGate (goat_ai/llm/ollama_client.py): a condition   *)
(* variable, the tokens that wait in the order of their requests, and how  *)
(* many hold a slot.  Every stretch under the condition's lock is one      *)
(* step.                                                                   *)
(***************************************************************************)
\* What lets the one at the head in, once it looks.
HasSlot == active < MaxConcurrent

\* Asking for a slot: at once, or asleep behind the others.
EntersAtOnce == waiting = <<>> /\ HasSlot

Enter ==
    /\ EntersAtOnce
    /\ active' = active + 1
    /\ UNCHANGED <<waiting, asleep, notified>>

Enqueue(c) ==
    /\ ~EntersAtOnce
    /\ waiting' = Append(waiting, c)
    /\ asleep' = asleep \union {c}
    /\ UNCHANGED <<active, notified>>

\* Awake, it looks: in, or asleep again.
Admitted(c) == c \in notified /\ Head(waiting) = c /\ HasSlot

Admit(c) ==
    /\ Admitted(c)
    /\ waiting' = Tail(waiting)
    /\ active' = active + 1
    /\ notified' = notified \ {c}
    /\ UNCHANGED asleep

SleepAgain(c) ==
    /\ c \in notified /\ ~Admitted(c)
    /\ notified' = notified \ {c}
    /\ asleep' = asleep \union {c}
    /\ UNCHANGED <<waiting, active>>

\* Mutant: notify_all only when the call succeeded.
LeaveSilently ==
    /\ active' = active - 1
    /\ UNCHANGED <<waiting, asleep, notified>>

Leave ==
    /\ active' = active - 1
    /\ notified' = notified \union asleep
    /\ asleep' = {}
    /\ UNCHANGED waiting

GateInit ==
    /\ waiting = <<>> /\ active = 0
    /\ asleep = {} /\ notified = {}

-----------------------------------------------------------------------------
(***************************************************************************)
(* The idempotent reads of OllamaService, /api/tags and /api/show: the     *)
(* circuit breaker of each client and the capability cache they share.     *)
(***************************************************************************)
Closed == [state |-> "closed", failures |-> 0, until |-> 0]

NoEntry == [expires |-> 0, fetched |-> 0]

NoMiss == [count |-> 0, at |-> 0]

-----------------------------------------------------------------------------
(* _before_read_call *)
Refuses(b) == b.state = "open" /\ clock < b.until

BeforeReadCall(b) == IF b.state = "open" THEN [b EXCEPT !.state = "half_open"] ELSE b

(* _mark_read_success *)
MarkReadSuccess(b) == Closed

OpenAgain(failures) ==
    [state |-> "open", failures |-> failures, until |-> clock + OpenSec]

\* Mutant: a probe that fails leaves the breaker half open.
MarkReadFailureLenient(b) ==
    IF b.state # "half_open" /\ b.failures + 1 >= Failures THEN OpenAgain(b.failures + 1)
    ELSE [b EXCEPT !.failures = @ + 1]

(* _mark_read_failure *)
MarkReadFailure(b) ==
    IF b.state = "half_open" THEN OpenAgain(Failures)
    ELSE IF b.failures + 1 >= Failures THEN OpenAgain(b.failures + 1)
    ELSE [b EXCEPT !.failures = @ + 1]

Miss(m) == [count |-> IF m.count < Failures THEN m.count + 1 ELSE m.count, at |-> clock]

-----------------------------------------------------------------------------
(* The cache of _load_model_show. *)
CacheHit == Ttl > 0 /\ clock < cache.expires

\* Mutant: the entry lives from when it is written.
EntryFromNow(began, fetched) ==
    IF Ttl > 0 THEN [expires |-> clock + Ttl, fetched |-> fetched] ELSE cache

Entry(began, fetched) ==
    IF Ttl > 0 THEN [expires |-> began + Ttl, fetched |-> fetched] ELSE cache

ReadsInit(clients) ==
    /\ clock = 0
    /\ breaker = [c \in clients |-> Closed]
    /\ cache = NoEntry
    /\ missed = [c \in clients |-> NoMiss]
    /\ outage = NoMiss

Tick ==
    /\ clock < MaxTime
    /\ clock' = clock + 1
    /\ UNCHANGED <<breaker, cache, missed, outage>>

-----------------------------------------------------------------------------
Reads == {"tags", "show"}

Idle == [pc |-> "idle", call |-> "none", attempt |-> 0, began |-> 0, fetched |-> 0]

Goto(c, pc) == client' = [client EXCEPT ![c].pc = pc]

\* The call is over, however it ended; the next one, if any, may begin.
Return(c) == client' = [client EXCEPT ![c] = Idle]

Call(c) ==
    /\ client[c].pc = "idle" /\ calls < MaxCalls
    /\ calls' = calls + 1

Now(c, pc, call) == client' = [client EXCEPT ![c].pc = pc, ![c].call = call]

Tell(age) == told' = IF age > told THEN age ELSE told

-----------------------------------------------------------------------------
AnswerFromCache(c) ==
    /\ Call(c) /\ CacheHit
    /\ Tell(clock - cache.fetched)
    /\ UNCHANGED <<gateVars, readVars, client>>

Refuse(c) ==
    /\ Call(c) /\ Refuses(breaker[c])
    /\ UNCHANGED <<gateVars, readVars, client, told>>

BeginRead(c, call) ==
    /\ Call(c) /\ ~Refuses(breaker[c])
    /\ call = "show" => ~CacheHit
    /\ breaker' = [breaker EXCEPT ![c] = BeforeReadCall(@)]
    /\ client' = [client EXCEPT ![c] = [Idle EXCEPT !.pc = "reading", !.call = call,
                                         !.attempt = 1, !.began = clock]]
    /\ UNCHANGED <<gateVars, clock, cache, missed, outage, told>>

\* 200: the breaker closes before the body is parsed.
ReadSucceeds(c) ==
    /\ client[c].pc = "reading"
    /\ breaker' = [breaker EXCEPT ![c] = MarkReadSuccess(@)]
    /\ missed' = [missed EXCEPT ![c] = NoMiss]
    /\ outage' = NoMiss
    /\ client' = [client EXCEPT ![c].pc = "parsing", ![c].fetched = clock]
    /\ UNCHANGED <<gateVars, clock, cache, calls, told>>

\* A list that no longer names the model drops it from the cache.
KeepTags(c) ==
    /\ client[c].pc = "parsing" /\ client[c].call = "tags"
    /\ \/ cache' = NoEntry
       \/ UNCHANGED cache
    /\ Return(c)
    /\ UNCHANGED <<gateVars, clock, breaker, missed, outage, calls, told>>

KeepShow(c) ==
    /\ client[c].pc = "parsing" /\ client[c].call = "show"
    /\ cache' = Entry(client[c].began, client[c].fetched)
    /\ Return(c)
    /\ UNCHANGED <<gateVars, clock, breaker, missed, outage, calls, told>>

\* A connection error, 408, 425, 429, 5xx, or a body that does not parse.
Retry(c) ==
    /\ client[c].pc \in {"reading", "parsing"}
    /\ client[c].attempt < Attempts
    /\ client' = [client EXCEPT ![c].pc = "reading", ![c].attempt = @ + 1, ![c].fetched = 0]
    /\ UNCHANGED <<gateVars, readVars, calls, told>>

\* The last attempt, or a status that is not retried.
ReadFails(c) ==
    /\ \/ client[c].pc = "reading"
       \/ client[c].pc = "parsing" /\ client[c].attempt = Attempts
    /\ breaker' = [breaker EXCEPT ![c] = MarkReadFailure(@)]
    /\ missed' = [missed EXCEPT ![c] = Miss(@)]
    /\ outage' = Miss(outage)
    /\ Return(c)
    /\ UNCHANGED <<gateVars, clock, cache, calls, told>>

-----------------------------------------------------------------------------
AskForSlot(c, call) ==
    \/ Enter /\ Now(c, "holding", call)
    \/ Enqueue(c) /\ Now(c, "queued", call)

Infer(c, call) ==
    /\ Call(c)
    /\ AskForSlot(c, call)
    /\ UNCHANGED <<readVars, told>>

\* An answer in one piece, or as a stream, which brings no plan.
GenerateCompletion(c) == Infer(c, "completion")
PlanToolCall(c) == Infer(c, "completion")
YieldChatTokens(c) == Infer(c, "answer")
YieldGenerateTokens(c) == Infer(c, "answer")

StreamTokensWithTools(c) == Infer(c, "tools")

LookAgain(c) ==
    /\ \/ Admit(c) /\ Goto(c, "holding")
       \/ SleepAgain(c) /\ UNCHANGED client
    /\ UNCHANGED <<readVars, calls, told>>

Planned(c) == client[c].call = "tools" /\ Goto(c, "planned")

\* Mutant: the plan keeps its stream, and so its slot, open meanwhile.
EndInferenceLate(c) ==
    /\ client[c].pc = "holding"
    /\ \/ Leave /\ Return(c)
       \/ Planned(c) /\ UNCHANGED gateVars
    /\ UNCHANGED <<readVars, calls, told>>

\* The answer or the stream is complete or interrupted, or the turn breaks it
\* off: it was blocked, or has a plan to follow up.
EndInference(c) ==
    /\ client[c].pc = "holding"
    /\ Leave
    /\ Return(c) \/ Planned(c)
    /\ UNCHANGED <<readVars, calls, told>>

\* Ollama does not answer, or rejects the tools.
PostChatFails(c) ==
    /\ client[c].pc = "holding"
    /\ Leave
    /\ Return(c)
    /\ UNCHANGED <<readVars, calls, told>>

StreamToolFollowup(c) ==
    /\ client[c].pc = "planned"
    /\ AskForSlot(c, "answer")
    /\ UNCHANGED <<readVars, calls, told>>

-----------------------------------------------------------------------------
(* The pool.  Starlette runs a handler, and every step of a generator that *)
(* streams, in a thread; who asks for one waits in line.                   *)
HasThread == Cardinality(pool) < threads

Begin(c) ==
    /\ HasThread
    /\ \/ AnswerFromCache(c) \/ Refuse(c)
       \/ \E call \in Reads : BeginRead(c, call)
       \/ GenerateCompletion(c) \/ PlanToolCall(c)
       \/ YieldChatTokens(c) \/ YieldGenerateTokens(c) \/ StreamTokensWithTools(c)
    /\ pool' = IF client'[c].pc = "idle" THEN pool ELSE pool \union {c}
    /\ UNCHANGED threads

Go(c) ==
    /\ c \in pool
    /\ \/ ReadSucceeds(c) \/ KeepTags(c) \/ KeepShow(c) \/ Retry(c) \/ ReadFails(c)
       \/ LookAgain(c) \/ PostChatFails(c) \/ EndInference(c) \/ StreamToolFollowup(c)
    /\ pool' = IF client'[c].pc = "idle" THEN pool \ {c} ELSE pool
    /\ UNCHANGED threads

Streams(c) == client[c].pc = "holding" /\ client[c].call \in {"answer", "tools"}

\* A chunk is on its way to the consumer, the generator is suspended.
YieldChunk(c) ==
    /\ Streams(c) /\ c \in pool
    /\ pool' = pool \ {c}
    /\ UNCHANGED <<gateVars, readVars, client, threads, calls, told>>

NextChunk(c) ==
    /\ Streams(c) /\ c \notin pool /\ HasThread
    /\ pool' = pool \union {c}
    /\ UNCHANGED <<gateVars, readVars, client, threads, calls, told>>

\* The consumer disconnects: the suspended generator is closed, without a thread.
DropStream(c) ==
    /\ Streams(c) /\ c \notin pool
    /\ Leave
    /\ Return(c)
    /\ UNCHANGED <<readVars, threads, pool, calls, told>>

ClockTicks == Tick /\ UNCHANGED <<gateVars, client, threads, pool, calls, told>>

Next ==
    \/ ClockTicks
    \/ \E c \in Client : Begin(c) \/ Go(c) \/ YieldChunk(c) \/ NextChunk(c) \/ DropStream(c)

Init ==
    /\ GateInit
    /\ ReadsInit(Client)
    /\ client = [c \in Client |-> Idle]
    /\ threads \in 1..Threads /\ pool = {}
    /\ calls = 0
    /\ told = 0

Spec == Init /\ [][Next]_vars

\* A thread runs on.  Reads have a timeout, and an answer ends after some
\* chunk or other.  The line for the threads is in order, and a consumer reads
\* on; that it goes is nothing to rely on.
FairSpec == Spec /\ \A c \in Client : SF_vars(Go(c)) /\ SF_vars(NextChunk(c))

-----------------------------------------------------------------------------
Doing(pc) == {c \in Client : client[c].pc = pc}

(***************************************************************************)
(* Every slot in use has its holder, and every token in the queue somebody *)
(* who will look at it: no path out of a call, by an error, a disconnect   *)
(* or a plan, keeps a slot or gives it back twice                          *)
(* (_InferenceConcurrencyGate.acquire).                                    *)
(***************************************************************************)
SlotsAreCounted ==
    /\ active = Cardinality(Doing("holding"))
    /\ active <= MaxConcurrent
    /\ IsInjective(waiting)
    /\ ToSet(waiting) = Doing("queued")
    /\ asleep \union notified = Doing("queued")

(***************************************************************************)
(* The breaker of a client refuses a read exactly while at least Failures  *)
(* reads have failed since the last success and the last of them is less   *)
(* than OpenSec ago, whatever it went through meanwhile (_before_read_call,*)
(* _mark_read_failure).                                                    *)
(***************************************************************************)
BreakerIsExact ==
    \A c \in Client :
        Refuses(breaker[c]) <=>
            /\ missed[c].count >= Failures
            /\ clock < missed[c].at + OpenSec

(***************************************************************************)
(* Nobody is told capabilities that Ollama reported longer than the time   *)
(* to live ago, however long the report was under way (_load_model_show).  *)
(***************************************************************************)
CapabilitiesAreFresh == told <= Ttl

(* Every thread is kept by somebody who sleeps, and a stream that has a    *)
(* slot waits for one.                                                     *)
Stuck == ~HasThread /\ pool \subseteq asleep /\ Doing("holding") # {}

(***************************************************************************)
(* CallsReturn.  Every call returns, also behind its own tool stream and   *)
(* behind streams whose consumers are slow: who waits for a slot gets one, *)
(* unless the waiters keep every thread there is.  With a thread for each  *)
(* client they cannot; with fewer they can (RequestsTimeOut), and that is  *)
(* the only way in which a call stays.                                     *)
(***************************************************************************)
CallsReturn == \A c \in Client : client[c].pc # "idle" ~> client[c].pc = "idle" \/ Stuck

(***************************************************************************)
(* RequestsTimeOut.  docs/operations/OPERATIONS.md:324 names a "first SSE  *)
(* event timeout": nobody waits for a slot for ever.  The timeout is only  *)
(* that of the request to Ollama, which begins with the slot; waiters that *)
(* have all the threads keep the streams that hold the slots from ending.  *)
(***************************************************************************)
RequestsTimeOut == \A c \in Client : client[c].pc = "queued" ~> client[c].pc # "queued"

(***************************************************************************)
(* OPERATIONS.md: after that many consecutive failed reads the breaker is  *)
(* open, for that many seconds: no read begins.                            *)
(***************************************************************************)
BreakerSparesOllama ==
    [][\A c \in Client :
        (outage.count >= Failures /\ clock < outage.at + OpenSec) =>
            ~(client[c].pc = "idle" /\ client'[c].pc = "reading")]_vars

(***************************************************************************)
(* OPERATIONS.md: only what overflows the limit waits: while a slot is     *)
(* free, the head of the queue does not sleep.                             *)
(***************************************************************************)
OnlyOverflowWaits ==
    waiting # <<>> /\ HasSlot => Head(waiting) \in notified

(***************************************************************************)
(* ReadsAreSound.  The breaker of a client is open exactly while it has to *)
(* be, and what reads tell is no older than the cache may be.              *)
(***************************************************************************)
ReadsAreSound == BreakerIsExact /\ CapabilitiesAreFresh
=============================================================================
