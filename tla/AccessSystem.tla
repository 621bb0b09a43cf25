---------------------------- MODULE AccessSystem ----------------------------
(***************************************************************************)
(* Requests, with and without an owner header, against the resources they  *)
(* create and those that earlier releases left, while the runners work and *)
(* the process is started again with other settings.  The budget bounds    *)
(* what happens in one behaviour, and what is asked for.                   *)
(***************************************************************************)
EXTENDS Visibility

CONSTANTS
    Header,         \* what clients send as X-GOAT-Owner-Id, NoOwner if nothing
    Deployments,    \* the settings a process may be started with
    Histories,      \* the rows that may be there from earlier releases
    Budgets         \* how often things happen: [requests, restarts, runs], and
                    \* what is asked for (scope): [routes, bodies, rows, reads]

(***************************************************************************)
(* What a source is bound to, so that it may be used or shown.             *)
(***************************************************************************)
Bound(s, tenant, principal, owner) ==
    s \in DOMAIN Connector =>
        /\ Connector[s].tenants \in {{}, Connector[s].tenants \union {tenant}}
        /\ Connector[s].principals \in {{}, Connector[s].principals \union {principal}}
        /\ Connector[s].owners \in {{}, Connector[s].owners \union {owner}}

IsRow(r) ==
    /\ r = [kind |-> r.kind, owner |-> r.owner, tenant |-> r.tenant,
            creator |-> r.creator, state |-> r.state, session |-> r.session,
            task |-> r.task, work |-> r.work, sources |-> r.sources]
    /\ r.kind = "task" => \A s \in r.sources : Bound(s, r.tenant, r.creator, r.owner)

\* Earlier releases resolved the sources of a task as this one does, and
\* the bindings are still those.
ASSUME HistoryAssumption ==
    \A rows \in Histories :
        /\ rows \in Seq({rows[i] : i \in DOMAIN rows})
        /\ \A i \in DOMAIN rows : IsRow(rows[i])

VARIABLE budget

accessVars == <<settings, row, reply, budget>>

AccessInit ==
    /\ settings \in Deployments
    /\ row \in Histories
    /\ reply = NoReply
    /\ budget \in Budgets

Spend(what) ==
    /\ budget[what] > 0
    /\ budget' = [budget EXCEPT ![what] = @ - 1]

(***************************************************************************)
(* What may be asked now: of an id, one that has been given out or the     *)
(* next one, which nobody has.                                             *)
(***************************************************************************)
Bodiless == [work |-> "none", sources |-> {}, project |-> FALSE]

ById == {"get_execution", "cancel_execution", "retry_execution", "get_task",
         "get_task_events", "cancel_task", "retry_task", "get_output",
         "export_output", "get_artifact", "get_session", "rename_session",
         "delete_session"}

Ids == 1 .. Min({Len(row) + 1, budget.scope.rows})

SessionIds == {0} \union {i \in DOMAIN row : row[i].kind = "session"}

Creates == {"post_task", "post_execution", "post_chat"}

Reads == {"get_execution", "get_sources", "get_task", "get_task_events",
          "get_output", "list_outputs", "get_artifact", "list_history",
          "get_session"}

\* Bounds: how many rows are asked for; only the last requests read.
InScope ==
    IF budget.requests = 0 THEN {}
    ELSE {r \in budget.scope.routes :
             /\ r \in Creates => Len(row) < budget.scope.rows
             /\ r \in Reads => budget.requests <= budget.scope.reads}

Asks ==
    [route : InScope \intersect {"post_task"}, id : SessionIds,
     body : budget.scope.bodies]
    \union [route : InScope \intersect {"list_outputs"}, id : SessionIds,
            body : {Bodiless}]
    \union [route : InScope \intersect ById, id : Ids, body : {Bodiless}]
    \union [route : InScope \ (ById \union {"post_task", "list_outputs"}),
            id : {0}, body : {Bodiless}]

\* security_middleware, as far as it can be reached, and the handler.
Serve(header, request) ==
    /\ Spend("requests")
    /\ Handle(request, LocalContext(header))
    /\ UNCHANGED settings

\* A queued task or execution is run to its end.
Run(id) ==
    /\ Spend("runs")
    /\ RunToEnd(id)
    /\ UNCHANGED settings

\* Rows outlive the process.
Restart ==
    /\ Spend("restarts")
    /\ settings' \in Deployments
    /\ reply' = NoReply
    /\ UNCHANGED row

AccessNext ==
    \/ \E header \in Header, request \in Asks : Serve(header, request)
    \/ \E id \in DOMAIN row : Run(id)
    \/ Restart

AccessSpec == AccessInit /\ [][AccessNext]_accessVars

-----------------------------------------------------------------------------
(***************************************************************************)
(* SeenIsOwn.  Whatever an answer shows, or an operation changed, through  *)
(* retries, exports, lists and deletions: a caller sees rows of the        *)
(* default tenant only, none of those an earlier release stored for        *)
(* another one, and with an owner header that owner's only, also not those *)
(* of nobody.                                                              *)
(***************************************************************************)
SeenIsOwn == \A seen \in reply.seen :
    /\ seen.tenant = reply.tenant
    /\ reply.owner # NoOwner => seen.owner = reply.owner

(***************************************************************************)
(* SourcesAreAllowed.  A task, also one that came of a retry by somebody   *)
(* else, only names connectors that are bound to its own tenant, creator   *)
(* and owner, and a list shows a caller no others.                         *)
(***************************************************************************)
SourcesAreAllowed ==
    /\ \A task \in Rows("task") : \A s \in task.sources :
           Bound(s, task.tenant, task.creator, task.owner)
    /\ \A s \in reply.sources :
           Bound(s, reply.tenant, reply.principal, reply.owner)

(***************************************************************************)
(* ReadersOwn.  What is shown, changed or used is one's own.               *)
(***************************************************************************)
ReadersOwn == SeenIsOwn /\ SourcesAreAllowed
=============================================================================
