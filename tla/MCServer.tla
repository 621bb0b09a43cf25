------------------------------- MODULE MCServer -------------------------------
(***************************************************************************)
(* An instance of the server for TLC: of its chat turns, and of requests   *)
(* for stored resources.                                                   *)
(***************************************************************************)
EXTENDS ServerSystem, TLC

CONSTANTS t1, t2

-----------------------------------------------------------------------------
(***************************************************************************)
(* Chat turns.                                                             *)
(***************************************************************************)
(* Two tokens that must not meet.                                           *)
Phrases == {<<"x", "y">>}

(* Every way through the driver and the guards, with an answer that is      *)
(* safe, one that is refused while it streams, one that is refused when its *)
(* chart block is taken out, one with two files and an empty one.           *)
Request(paths, modes, inputs, knowledge, replies) ==
  [path : paths, native : {TRUE}, mode : modes, input : inputs,
   knowledge : knowledge, reply : replies]

Anything ==
  Request({"plain"}, {"full"}, {"safe"}, {FALSE},
          {<<"x", Chart, "y">>, <<"a", "x", "y">>, <<"l1", "l2">>, <<>>})
  \cup Request({"chart"}, {"full"}, {"safe"}, {FALSE}, {<<"y">>, <<"l1">>})
  \cup Request({"search"}, {"full"}, {"safe"}, {FALSE}, {<<"a">>})
  \cup Request({"plain"}, {"full"}, {"unsafe", "context"}, BOOLEAN, {<<"a">>})
  \cup Request({"plain"}, {"off"}, {"unsafe"}, {FALSE}, {<<"x", "y">>})
  \cup {[path |-> "search", native |-> FALSE, mode |-> "output_only",
         input |-> "unsafe", knowledge |-> TRUE, reply |-> <<"x", "y">>]}

(* A short answer with a file, and a refused request.                       *)
Something ==
  [path : {"plain"}, native : {FALSE}, mode : {"input_only"},
   input : {"safe", "unsafe"}, knowledge : {FALSE}, reply : {<<"l1">>}]

Turns == t1 :> Anything @@ t2 :> Something

-----------------------------------------------------------------------------
(***************************************************************************)
(* Requests for stored resources.                                          *)
(***************************************************************************)
Everything == [features |-> {"sandbox", "workbench"}, langgraph |-> TRUE,
               web |-> TRUE]

WorkbenchOnly == [features |-> {"workbench"}, langgraph |-> FALSE, web |-> FALSE]

SandboxOnly == [features |-> {"sandbox"}, langgraph |-> FALSE, web |-> TRUE]

Settings == {Everything, WorkbenchOnly, SandboxOnly}

\* A connector of the tenant there once was, one of an owner, and one of the
\* local principal.
Bindings == [s \in {"connector:tenant", "connector:owner", "connector:local"} |->
    CASE s = "connector:tenant" ->
            [tenants |-> {"tenant:2"}, principals |-> {}, owners |-> {}]
      [] s = "connector:owner" ->
            [tenants |-> {}, principals |-> {}, owners |-> {"o1"}]
      [] OTHER ->
            [tenants |-> {DefaultTenant}, principals |-> {LocalPrincipal},
             owners |-> {}]]

Body(work, sources, project) ==
    [work |-> work, sources |-> sources, project |-> project]

Canvas == {Body("canvas", {}, FALSE)}

Bodies == {Body("canvas", {"web"}, FALSE), Body("browse", {}, FALSE),
           Body("browse", {"knowledge", "unknown"}, FALSE),
           Body("browse", {"project_memory"}, FALSE),
           Body("browse", {"connector:tenant"}, FALSE),
           Body("browse", {"connector:local"}, FALSE),
           Body("browse", {"connector:owner"}, FALSE)}

Headers == {NoOwner, "o1", "o2"}

\* What a release with accounts, keys and tenants may have left.
Old(kind, owner, tenant, state) ==
    [NoRow EXCEPT !.kind = kind, !.owner = owner, !.tenant = tenant,
        !.creator = "principal:key", !.state = state]

OldTask(tenant, state, work, sources) ==
    [Old("task", "o1", tenant, state) EXCEPT !.work = work, !.sources = sources,
        !.session = 1]

Nothing == <<>>

OldChats == <<Old("session", "o1", DefaultTenant, "none"),
              Old("session", "o1", "tenant:2", "none"),
              Old("session", NoOwner, DefaultTenant, "none")>>

OldWork == <<Old("session", "o1", "tenant:2", "none"),
             OldTask("tenant:2", "completed", "browse", {"connector:tenant"}),
             OldTask(DefaultTenant, "completed", "browse", {"connector:owner"}),
             OldTask("tenant:2", "queued", "canvas", {})>>

OldRuns == <<Old("execution", "o1", "tenant:2", "queued"),
             Old("execution", "o1", DefaultTenant, "completed")>>

Past == {Nothing, OldChats, OldWork, OldRuns}

Scope(routes, bodies, rows, reads) ==
    [routes |-> routes, bodies |-> bodies, rows |-> rows, reads |-> reads]

Sandbox == Scope({"post_execution", "get_execution", "cancel_execution",
                  "retry_execution"}, {}, 4, 1)

Tasks == Scope({"get_sources", "post_task", "get_task", "get_task_events",
                "cancel_task", "retry_task"}, Bodies, 6, 1)

Outputs == Scope({"post_task", "get_task", "get_output", "list_outputs",
                  "export_output", "get_artifact", "delete_history"}, Canvas, 6, 1)

History == Scope({"post_chat", "post_task", "get_session", "list_history",
                  "rename_session", "delete_session", "delete_history"},
                 Canvas, 5, 1)

Exports == Scope({"post_chat", "post_task", "export_output", "get_artifact",
                  "delete_session"}, Canvas, 3, 1)

Budget(requests, restarts, runs, scope) ==
    [requests |-> requests, restarts |-> restarts, runs |-> runs,
     scope |-> scope]

\* What callers see of each other's executions, tasks, outputs, chats and
\* exports, and of what is left of earlier releases.
Bounds == {Budget(3, 0, 1, Sandbox), Budget(3, 1, 0, Tasks),
           Budget(3, 0, 1, Outputs), Budget(3, 0, 0, History),
           Budget(4, 0, 1, Exports)}
=============================================================================
