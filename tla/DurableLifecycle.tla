-------------------------- MODULE DurableLifecycle --------------------------
(***************************************************************************)
(* What the API promises of a durable job, a code sandbox execution or a   *)
(* workbench task, without threads, tokens or restarts: it is accepted, it *)
(* is started at most once, and it settles once, in one of three ways; a   *)
(* result can only come from a started job, and every accepted job         *)
(* settles.                                                                *)
(***************************************************************************)
CONSTANTS
  Job,
  CancelFrom   (* the statuses a job can be cancelled from *)

VARIABLE status

Init == status = [j \in Job |-> "absent"]

Move(j, from, to) ==
  /\ status[j] \in from
  /\ status' = [status EXCEPT ![j] = to]

Accept(j)   == Move(j, {"absent"}, "queued")
Start(j)    == Move(j, {"queued"}, "running")
Complete(j) == Move(j, {"running"}, "completed")
Fail(j)     == Move(j, {"running"}, "failed")
Cancel(j)   == Move(j, CancelFrom, "cancelled")

Settle(j) == Complete(j) \/ Fail(j) \/ Cancel(j)

Next == \E j \in Job : Accept(j) \/ Start(j) \/ Settle(j)

Spec == Init /\ [][Next]_status

(* An accepted job is neither left queued nor left running.                 *)
FairSpec == Spec /\ \A j \in Job : WF_status(Start(j) \/ Settle(j))
=============================================================================
