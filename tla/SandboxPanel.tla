----------------------------- MODULE SandboxPanel -----------------------------
(***************************************************************************)
(* The sandbox panel of the page, useCodeSandboxController.ts: a run is    *)
(* watched through its log stream (api/codeSandbox.ts), and by polling     *)
(* once the stream breaks.  Answers to polls arrive in any order, also     *)
(* after the next run has begun.  Of the server it keeps the status and    *)
(* the length of the log of an execution.                                  *)
(***************************************************************************)
EXTENDS Naturals, Sequences, FiniteSets

CONSTANTS
    Execution,   \* executions
    MaxLog,      \* bound: chunks in the log of one
    MaxAnswers   \* bound: answers under way at a time

ASSUME PanelAssumption == MaxLog \in Nat /\ MaxAnswers \in Nat

VARIABLES
    execution,   \* [Execution -> its status and the length of its log]
    posted,    \* the run whose POST is not answered yet, {} or a singleton
    result,    \* what the panel shows of a run, {} or a singleton
    lines,     \* the live log
    logStream, \* the run whose log stream is open, {} or a singleton
    poll,      \* the run the interval asks for, {} or a singleton
    answers,   \* answers to GET /executions/{id} under way to the panel
    last,      \* history: the run that was answered last, {} or a singleton
    left       \* history: why it is not watched to its end: the user left the panel
               \* ("user"), an answer of another run came ("late"), or "no"

history == <<last, left>>

panelVars == <<execution, posted, result, lines, logStream, poll, answers, history>>

Shown(x) == {[exec |-> x, status |-> execution[x].status]}

Settled(x) == execution[x].status \in {"completed", "failed", "cancelled"}

\* The statuses at which refreshSandboxExecution stops watching.
StopsWatching == {"completed", "failed"}

Cursor == Len(lines)

StopMonitoring == logStream' = {} /\ poll' = {}

Fetch(x) == Cardinality(answers) < MaxAnswers /\ answers' = answers \union Shown(x)

-----------------------------------------------------------------------------
\* POST /code-sandbox/exec makes a row; a worker runs it, logs and ends it.
Submit(x) ==
    /\ execution[x].status = "absent"
    /\ execution' = [execution EXCEPT ![x].status = "queued"]

Proceed(x) ==
    /\ \/ /\ execution[x].status = "queued"
          /\ \E s \in {"running", "failed", "cancelled"} :
               execution' = [execution EXCEPT ![x].status = s]
       \/ /\ execution[x].status = "running" /\ execution[x].log < MaxLog
          /\ execution' = [execution EXCEPT ![x].log = @ + 1]
       \/ /\ execution[x].status = "running"
          /\ \E s \in {"completed", "failed", "cancelled"} :
               execution' = [execution EXCEPT ![x].status = s]
    /\ UNCHANGED <<posted, result, lines, logStream, poll, answers, history>>

-----------------------------------------------------------------------------
\* Mutant: the lines of the last run stay.
RunCodeSandboxOver(x) ==
    /\ posted = {}
    /\ Submit(x)
    /\ posted' = {x} /\ left' = "no"
    /\ StopMonitoring
    /\ UNCHANGED <<result, lines, answers, last>>

RunCodeSandbox(x) ==
    /\ posted = {}
    /\ Submit(x)
    /\ posted' = {x} /\ left' = "no"
    /\ lines' = <<>>
    /\ StopMonitoring
    /\ UNCHANGED <<result, answers, last>>

\* A sync run is answered at its end; an async one at once, and then watched.
RunAnswered(x) ==
    /\ x \in posted
    /\ posted' = {} /\ last' = {x}
    /\ \/ Settled(x) /\ result' = Shown(x) /\ UNCHANGED logStream
       \/ result' = {[exec |-> x, status |-> "queued"]} /\ logStream' = {x}
    /\ UNCHANGED <<execution, lines, poll, answers, left>>

RunRefused(x) ==
    /\ x \in posted
    /\ posted' = {} /\ result' = {}
    /\ UNCHANGED <<execution, lines, logStream, poll, answers, history>>

-----------------------------------------------------------------------------
\* A chunk of the log, in order, from the cursor.
LogEvent(x) ==
    /\ x \in logStream /\ Cursor < execution[x].log
    /\ lines' = Append(lines, <<x, Cursor + 1>>)
    /\ UNCHANGED <<execution, posted, result, logStream, poll, answers, history>>

StatusEvent(x) ==
    /\ x \in logStream
    /\ \E r \in result : r.exec = x /\ r.status # execution[x].status
    /\ result' = Shown(x)
    /\ UNCHANGED <<execution, posted, lines, logStream, poll, answers, history>>

\* Mutant: the stream's end is taken for the run's.
DoneEventOnly(x) ==
    /\ x \in logStream /\ Settled(x) /\ Cursor = execution[x].log
    /\ logStream' = {}
    /\ UNCHANGED <<execution, posted, result, lines, poll, answers, history>>

\* The run is over and its log delivered: fetched once more, or else polled.
DoneEvent(x) ==
    /\ x \in logStream /\ Settled(x) /\ Cursor = execution[x].log
    /\ logStream' = {}
    /\ \/ Fetch(x) /\ UNCHANGED poll
       \/ poll' = {x} /\ UNCHANGED answers
    /\ UNCHANGED <<execution, posted, result, lines, history>>

\* onError: the stream is not opened again, the durable status is polled.
StreamBreaks(x) ==
    /\ x \in logStream
    /\ logStream' = {} /\ poll' = {x}
    /\ UNCHANGED <<execution, posted, result, lines, answers, history>>

\* The interval; a request that fails is forgotten.
PollTick(x) ==
    /\ x \in poll
    /\ Fetch(x)
    /\ UNCHANGED <<execution, posted, result, lines, logStream, poll, history>>

\* refreshSandboxExecution: whichever run the answer is of.
RefreshSandboxExecution(r) ==
    /\ r \in answers
    /\ answers' = answers \ {r}
    /\ result' = {r}
    /\ \/ r.status \in StopsWatching /\ StopMonitoring
          /\ left' = IF logStream \union poll \subseteq {r.exec} THEN left ELSE "late"
       \/ r.status \notin StopsWatching /\ UNCHANGED <<logStream, poll, left>>
    /\ UNCHANGED <<execution, posted, lines, last>>

ClosePanel ==
    /\ logStream \union poll # {}
    /\ StopMonitoring /\ left' = "user"
    /\ UNCHANGED <<execution, posted, result, lines, answers, last>>

-----------------------------------------------------------------------------
PanelInit ==
    /\ execution = [x \in Execution |-> [status |-> "absent", log |-> 0]]
    /\ posted = {} /\ result = {} /\ lines = <<>>
    /\ logStream = {} /\ poll = {} /\ answers = {}
    /\ last = {} /\ left = "no"

PanelStep(x) ==
    \/ RunAnswered(x) \/ LogEvent(x) \/ StatusEvent(x) \/ DoneEvent(x) \/ PollTick(x)

WatchStep ==
    \/ \E x \in Execution :
         \/ RunCodeSandbox(x) \/ RunRefused(x) \/ StreamBreaks(x) \/ PanelStep(x)
         \/ Proceed(x)
    \/ \E r \in answers : RefreshSandboxExecution(r)
    \/ ClosePanel
=============================================================================
