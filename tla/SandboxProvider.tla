---------------------------- MODULE SandboxProvider ----------------------------
(***************************************************************************)
(* One run of a program by a sandbox provider,                             *)
(* backend/services/code_sandbox_provider.py: the program writes, threads  *)
(* pump what it wrote into a queue, and the loop of _stream_container_run  *)
(* (Docker) or _stream_host_run (localhost) hands the queue on as log      *)
(* chunks, looks for the end of the program, for a cancellation and for    *)
(* the deadline, and sums up.  The two pumps of the localhost provider are *)
(* one, which ends with the later of them; the limit on the bytes of a log *)
(* is left out.                                                            *)
(***************************************************************************)
EXTENDS Naturals

CONSTANTS
    Exec,        \* executions
    MaxChunks    \* bound: the chunks a program writes

ASSUME ProviderAssumption == MaxChunks \in Nat

VARIABLES
    provider,    \* [Exec -> "docker" or "localhost"]
    program,     \* [Exec -> its state: running, ok, bad or killed]
    written,     \* [Exec -> chunks the program wrote]
    queued,      \* [Exec -> chunks the pump put into the queue]
    cut,         \* [Exec -> the chunks that end inside of a character]
    pump,        \* [Exec -> whether the pump runs, is done, broke and told, or
                 \*  broke silently]
    cancelled,   \* [Exec -> cancel_requested()]
    overdue,     \* [Exec -> the deadline of the loop has passed]
    loop,        \* [Exec -> next step of the loop]
    emitted,     \* [Exec -> chunks handed on to the log]
    verdict,     \* [Exec -> how the loop ended]
    status       \* [Exec -> the execution's status]

output == <<written, queued, cut, emitted>>

providerVars == <<provider, program, output, pump, cancelled, overdue, loop, verdict, status>>

Terminal == {"completed", "failed", "cancelled"}

Loop(x, from, to) == loop[x] = from /\ loop' = [loop EXCEPT ![x] = to]

Exited(x) == program[x] # "running"

\* pump_stream has put its last; pump_logs does not tell before the join.
Finished(x) == pump[x] # "on"

-----------------------------------------------------------------------------
\* POST /code-sandbox/exec: the row is queued, a worker takes it up later.
Enqueue(x) ==
    /\ status[x] = "absent"
    /\ status' = [status EXCEPT ![x] = "queued"]
    /\ UNCHANGED <<provider, program, output, pump, cancelled, overdue, loop, verdict>>

\* The loop and the pumps begin, after the program was given its input, if any.
StartsLoop(x, from) ==
    /\ Loop(x, from, "drain")
    /\ pump' = [pump EXCEPT ![x] = "on"]

RunStream(x) ==
    /\ status[x] = "queued"
    /\ status' = [status EXCEPT ![x] = "running"]
    /\ program' = [program EXCEPT ![x] = "running"]
    /\ \/ StartsLoop(x, "idle")
       \/ provider[x] = "localhost" /\ Loop(x, "idle", "stdin") /\ UNCHANGED pump
    /\ UNCHANGED <<provider, output, cancelled, overdue, verdict>>

\* process.stdin.write returns once the program has read, or the pipe holds it all.
WriteStdin(x) ==
    /\ StartsLoop(x, "stdin")
    /\ UNCHANGED <<provider, program, output, cancelled, overdue, verdict, status>>

\* No container or process can be started; Docker fails under the loop; the input
\* goes to a program that ended; the output files cannot be collected.
RunStreamRaises(x) ==
    /\ \/ status[x] = "queued" /\ UNCHANGED loop
       \/ provider[x] = "docker" /\ Loop(x, "poll", "gone")
       \/ Exited(x) /\ Loop(x, "stdin", "gone")
       \/ Loop(x, "late", "gone") \/ Loop(x, "whole", "gone")
    /\ program' = [program EXCEPT ![x] = IF @ = "running" THEN "killed" ELSE @]
    /\ status' = [status EXCEPT ![x] = IF cancelled[x] THEN "cancelled" ELSE "failed"]
    /\ UNCHANGED <<provider, output, pump, cancelled, overdue, verdict>>

ProgramWrites(x) ==
    /\ program[x] = "running" /\ written[x] < MaxChunks
    /\ written' = [written EXCEPT ![x] = @ + 1]
    /\ UNCHANGED <<provider, program, queued, cut, emitted, pump, cancelled, overdue, loop, verdict,
                   status>>

ProgramExits(x) ==
    /\ program[x] = "running"
    /\ \E end \in {"ok", "bad"} : program' = [program EXCEPT ![x] = end]
    /\ UNCHANGED <<provider, output, pump, cancelled, overdue, loop, verdict, status>>

\* What a read returns may end inside of a character.
PumpLogs(x) ==
    /\ pump[x] = "on" /\ queued[x] < written[x]
    /\ queued' = [queued EXCEPT ![x] = @ + 1]
    /\ \E here \in SUBSET {queued[x] + 1} : cut' = [cut EXCEPT ![x] = @ \union here]
    /\ UNCHANGED <<provider, program, written, emitted, pump, cancelled, overdue, loop, verdict,
                   status>>

\* The end of the output; a child of the program may hold the pipe for longer.
PumpEnds(x) ==
    /\ pump[x] = "on" /\ Exited(x) /\ queued[x] = written[x]
    /\ pump' = [pump EXCEPT ![x] = "done"]
    /\ UNCHANGED <<provider, program, output, cancelled, overdue, loop, verdict, status>>

\* A pump tells of a DockerException or, of a pipe, an OSError.  Whatever else ends
\* the stream of a container is not told.
PumpBreaks(x) ==
    /\ pump[x] = "on"
    /\ \/ pump' = [pump EXCEPT ![x] = "broken"]
       \/ provider[x] = "docker" /\ pump' = [pump EXCEPT ![x] = "silent"]
    /\ UNCHANGED <<provider, program, output, cancelled, overdue, loop, verdict, status>>

RequestCancel(x) ==
    /\ status[x] = "running" /\ ~cancelled[x]
    /\ cancelled' = [cancelled EXCEPT ![x] = TRUE]
    /\ UNCHANGED <<provider, program, output, pump, overdue, loop, verdict, status>>

DeadlinePasses(x) ==
    /\ loop[x] \notin {"idle", "stdin"} /\ status[x] = "running" /\ ~overdue[x]
    /\ overdue' = [overdue EXCEPT ![x] = TRUE]
    /\ UNCHANGED <<provider, program, output, pump, cancelled, loop, verdict, status>>

-----------------------------------------------------------------------------
\* _decode_text of each chunk by itself: of a character that was cut both parts are
\* replaced.
CutAt(x, i) == {i - 1, i} \cap cut[x] # {}

LogText(x) == [i \in 1..emitted[x] |-> IF CutAt(x, i) THEN "replaced" ELSE "as written"]

\* _drain_log_queue, each chunk appended to the log of the execution.
DrainLogQueue(x) ==
    /\ Loop(x, "drain", "poll")
    /\ emitted' = [emitted EXCEPT ![x] = queued[x]]
    /\ UNCHANGED <<provider, program, written, queued, cut, pump, cancelled, overdue, verdict, status>>

Leave(x, why) ==
    /\ Loop(x, "poll", "join")
    /\ verdict' = [verdict EXCEPT ![x] = why]

Kill(x) == program' = [program EXCEPT ![x] = IF Exited(x) THEN @ ELSE "killed"]

\* Mutant: the localhost loop does not wait for its pumps.
ExitSeenUnpumped(x) == Exited(x)

\* container.reload() or process.poll(); the localhost loop waits for the pumps.
ExitSeen(x) == Exited(x) /\ (provider[x] = "localhost" => Finished(x))

\* Mutant: once the program has exited the deadline is not looked at.
TimesOutRunning(x) == overdue[x] /\ ~Exited(x) /\ Leave(x, "timed_out") /\ Kill(x)

TimesOut(x) == overdue[x] /\ Leave(x, "timed_out") /\ Kill(x)

\* Docker looks at the cancellation first, localhost at the end of the program.
Poll(x) ==
    /\ \/ ExitSeen(x) /\ (provider[x] = "docker" => ~cancelled[x])
          /\ Leave(x, "exit") /\ UNCHANGED program
       \/ cancelled[x] /\ (provider[x] = "localhost" => ~ExitSeen(x))
          /\ Leave(x, "cancelled") /\ Kill(x)
       \/ ~cancelled[x] /\ ~ExitSeen(x) /\ ~overdue[x]
          /\ Loop(x, "poll", "drain") /\ UNCHANGED <<program, verdict>>
       \/ ~cancelled[x] /\ ~ExitSeen(x) /\ TimesOut(x)
    /\ UNCHANGED <<provider, output, pump, cancelled, overdue, status>>

\* The threads are joined for a second and the queue is drained once more.
FinalDrain(x) ==
    /\ Loop(x, "join", IF pump[x] = "on" THEN "late" ELSE "whole")
    /\ emitted' = [emitted EXCEPT ![x] = queued[x]]
    /\ UNCHANGED <<provider, program, written, queued, cut, pump, cancelled, overdue, verdict, status>>

\* Cancelled, timed out, the pump's error, and only then the exit code.
Outcome(x) ==
    IF verdict[x] = "cancelled" THEN "cancelled"
    ELSE IF verdict[x] = "exit" /\ pump[x] # "broken" /\ program[x] = "ok" THEN "completed"
    ELSE "failed"

SandboxProviderResult(x) ==
    /\ loop[x] \in {"late", "whole"}
    /\ status' = [status EXCEPT ![x] = Outcome(x)]
    /\ loop' = [loop EXCEPT ![x] = IF @ = "late" THEN "gone_late" ELSE "gone"]
    /\ UNCHANGED <<provider, program, output, pump, cancelled, overdue, verdict>>

-----------------------------------------------------------------------------
ProviderInit ==
    /\ provider \in [Exec -> {"docker", "localhost"}]
    /\ program = [x \in Exec |-> "none"]
    /\ written = [x \in Exec |-> 0] /\ queued = [x \in Exec |-> 0]
    /\ emitted = [x \in Exec |-> 0] /\ cut = [x \in Exec |-> {}]
    /\ pump = [x \in Exec |-> "none"]
    /\ cancelled = [x \in Exec |-> FALSE] /\ overdue = [x \in Exec |-> FALSE]
    /\ loop = [x \in Exec |-> "idle"]
    /\ verdict = [x \in Exec |-> "none"]
    /\ status = [x \in Exec |-> "absent"]

RunnerStep(x) ==
    \/ RunStream(x) \/ DrainLogQueue(x) \/ Poll(x) \/ FinalDrain(x) \/ SandboxProviderResult(x)

ProviderStep(x) ==
    \/ Enqueue(x) \/ RunnerStep(x) \/ WriteStdin(x) \/ RunStreamRaises(x)
    \/ RequestCancel(x) \/ DeadlinePasses(x)
    \/ ProgramWrites(x) \/ ProgramExits(x) \/ PumpLogs(x) \/ PumpEnds(x) \/ PumpBreaks(x)
=============================================================================
