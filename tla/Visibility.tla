----------------------------- MODULE Visibility -----------------------------
(***************************************************************************)
(* The operations on stored resources behind the middleware, and what each *)
(* of them shows to whom: sandbox executions (routers/code_sandbox.py),    *)
(* workbench tasks, their outputs and the exports of those                 *)
(* (routers/workbench.py), chat sessions (routers/history.py) and          *)
(* artifacts (routers/artifacts.py), with the decisions they rest on       *)
(* (services/authorizer.py).                                               *)
(*                                                                         *)
(* A resource is a row with the ownership it was stored with; its id is    *)
(* its place in the sequence of all rows, so that ids are never used       *)
(* again.  Of its life a row keeps only what decides between an answer and *)
(* a conflict: how an execution or a task really runs is in SandboxSystem  *)
(* and WorkbenchSystem.  Rows of releases that still had accounts, keys    *)
(* and tenants are read with the ownership those gave them.  A request is  *)
(* a record [route, id, body]; require_session_owner is off, because its   *)
(* setting is one of those that load_settings refuses.                     *)
(***************************************************************************)
EXTENDS Integers, Sequences, FiniteSets, FiniteSetsExt

CONSTANT Connector      \* connector bindings: [id -> tenants, principals, owners]

\* parse_workbench_connector_bindings_json: the ids start with connector:.
ASSUME ConnectorAssumption ==
    DOMAIN Connector \intersect {"web", "knowledge", "project_memory"} = {}

VARIABLES
    settings,       \* [features, langgraph, web] of the running process
    row,            \* every row ever stored, NoRow where it was deleted
    reply           \* the last answer

(***************************************************************************)
(* What security_middleware (platform/http_security.py) makes of a         *)
(* request.  load_settings refuses to start with any setting of the logins *)
(* and API keys there once were (settings.py:427), and main.py mounts no   *)
(* route of theirs: of the branches of the middleware only the last one    *)
(* can be reached.  Everybody is the same local principal of the default   *)
(* tenant with every scope, and only the owner header tells callers apart. *)
(* That branch asks no rate limiter.                                       *)
(***************************************************************************)
\* What is stored, or sent, when there is no owner id.
NoOwner == ""

DefaultTenant == "tenant:default"

LocalPrincipal == "principal:local-noauth"

ReadScopes == {"history:read", "artifact:read", "knowledge:read",
               "workbench:read"}

WriteScopes == {"history:write", "artifact:write", "sandbox:execute",
                "workbench:write", "workbench:export"}

FullScopes == ReadScopes \union WriteScopes

\* build_local_authorization_context
LocalContext(header) ==
    [principal |-> LocalPrincipal, owner |-> header, tenant |-> DefaultTenant,
     scopes |-> FullScopes]

NoRow == [kind |-> "none", owner |-> NoOwner, tenant |-> "none",
          creator |-> "none", state |-> "none", session |-> 0, task |-> 0,
          work |-> "none", sources |-> {}]

NoReply == [status |-> 0, principal |-> "none", owner |-> NoOwner,
            tenant |-> "none", seen |-> {}, sources |-> {}]

(***************************************************************************)
(* Answers.  seen is what an answer shows of stored rows, or changed, and  *)
(* sources the retrieval sources it lists.                                 *)
(***************************************************************************)
Reply(context, status, seen, sources) ==
    reply' = [status |-> status, principal |-> context.principal,
              owner |-> context.owner, tenant |-> context.tenant,
              seen |-> seen, sources |-> sources]

AnswerWith(context, status, seen) == Reply(context, status, seen, {})

\* The routers turn the exceptions of the use cases into these.
StatusOf == [unavailable |-> 503, denied |-> 403, not_found |-> 404,
             conflict |-> 409, invalid |-> 422]

Decline(context, error) ==
    /\ AnswerWith(context, StatusOf[error], {})
    /\ UNCHANGED row

Show(context, error, seen) ==
    IF error = "none" THEN AnswerWith(context, 200, seen) /\ UNCHANGED row
    ELSE Decline(context, error)

\* A new row, and an answer that shows it together with others.
Store(context, status, new, others) ==
    /\ row' = Append(row, new)
    /\ AnswerWith(context, status, {new} \union others)

\* PersistedResourceOwnership.from_auth_context
Owned(kind, context) ==
    [NoRow EXCEPT !.kind = kind, !.owner = context.owner,
        !.tenant = context.tenant, !.creator = context.principal]

\* The ownership of a stored row, given on to another one.
Inherited(kind, from) ==
    [NoRow EXCEPT !.kind = kind, !.owner = from.owner,
        !.tenant = from.tenant, !.creator = from.creator]

Is(kind, id) == id \in DOMAIN row /\ row[id].kind = kind

Rows(kind) == {row[i] : i \in {j \in DOMAIN row : row[j].kind = kind}}

Terminal == {"completed", "cancelled"}

(***************************************************************************)
(* The decisions of services/authorizer.py: the scopes, then the tenant,   *)
(* then the owner.                                                         *)
(***************************************************************************)
\* Mutant: what has no owner is everybody's.
OwnerVisibleUnowned(resource, context) ==
    context.owner = NoOwner \/ resource.owner \in {NoOwner, context.owner}

OwnerVisible(resource, context) ==
    context.owner = NoOwner \/ resource.owner = context.owner

AuthorizeOwned(context, resource, scopes) ==
    IF ~(scopes \subseteq context.scopes) THEN "scope_missing"
    ELSE IF resource.tenant # context.tenant THEN "tenant_mismatch"
    ELSE IF ~OwnerVisible(resource, context) THEN "owner_mismatch"
    ELSE "ok"

AuthorizeSessionRead(context, session) ==
    AuthorizeOwned(context, session, {"history:read"})

AuthorizeSessionWrite(context, session) ==
    AuthorizeOwned(context, session, {"history:write", "history:read"})

AuthorizeArtifactRead(context, artifact) ==
    AuthorizeOwned(context, artifact, {"artifact:read"})

AuthorizeTaskRead(context, task) ==
    AuthorizeOwned(context, task, {"workbench:read"})

AuthorizeTaskWrite(context, task) ==
    AuthorizeOwned(context, task, {"workbench:write"})

AuthorizeOutputRead(context, output) ==
    AuthorizeOwned(context, output, {"workbench:read"})

AuthorizeOutputExport(context, output) ==
    AuthorizeOwned(context, output,
                   {"workbench:read", "workbench:export", "artifact:write"})

\* No scope of its own: sandbox:execute was asked for by the gate.
AuthorizeExecutionRead(context, execution) ==
    AuthorizeOwned(context, execution, {})

\* A missing scope is told; anything else looks like a row that is not there.
Concealed(decision) ==
    CASE decision = "ok" -> "none"
      [] decision = "scope_missing" -> "denied"
      [] OTHER -> "not_found"

(***************************************************************************)
(* The gates of the two features (services/feature_gate_service.py).       *)
(***************************************************************************)
SandboxGate(context) ==
    IF "sandbox" \notin settings.features THEN "unavailable"
    ELSE IF "sandbox:execute" \notin context.scopes THEN "denied"
    ELSE "none"

WorkbenchGate ==
    IF "workbench" \notin settings.features THEN "unavailable" ELSE "none"

(***************************************************************************)
(* Code sandbox executions.                                                *)
(***************************************************************************)
LoadExecution(id, context) ==
    IF SandboxGate(context) # "none" THEN SandboxGate(context)
    ELSE IF ~Is("execution", id) THEN "not_found"
    ELSE IF AuthorizeExecutionRead(context, row[id]) # "ok" THEN "not_found"
    ELSE "none"

\* _normalize_request refuses what exceeds a limit or leaves the workspace.
\* A synchronous execution is over when it is answered.
PostExecution(context) ==
    \/ SandboxGate(context) # "none" /\ Decline(context, SandboxGate(context))
    \/ SandboxGate(context) = "none" /\ Decline(context, "invalid")
    \/ /\ SandboxGate(context) = "none"
       /\ \E mode \in {<<"queued", 202>>, <<"completed", 200>>} :
              Store(context, mode[2],
                    [Owned("execution", context) EXCEPT !.state = mode[1]], {})

\* The record, its events, or its log.
GetExecution(id, context) ==
    LET error == LoadExecution(id, context)
    IN  Show(context, error, IF error = "none" THEN {row[id]} ELSE {})

CancelExecution(id, context) ==
    LET error == LoadExecution(id, context)
        cancelled == [row[id] EXCEPT !.state = "cancelled"]
    IN  IF error # "none" THEN Decline(context, error)
        ELSE IF row[id].state # "queued" THEN Decline(context, "conflict")
        ELSE /\ row' = [row EXCEPT ![id] = cancelled]
             /\ AnswerWith(context, 200, {cancelled})

\* The new execution belongs to whom the first one belonged to.
RetryExecution(id, context) ==
    LET error == LoadExecution(id, context)
    IN  IF error # "none" THEN Decline(context, error)
        ELSE IF row[id].state \notin Terminal THEN Decline(context, "conflict")
        ELSE Store(context, 202,
                   [Inherited("execution", row[id]) EXCEPT !.state = "queued"],
                   {row[id]})

(***************************************************************************)
(* The retrieval sources a task may name (services/                        *)
(* workbench_source_catalog.py, workbench_source_registry.py).             *)
(***************************************************************************)
Research == {"browse", "deep_research"}

Builtin(kinds, ready, scopes, project) ==
    [kinds |-> kinds, ready |-> ready, scopes |-> scopes, project |-> project,
     tenants |-> {}, principals |-> {}, owners |-> {}]

ConnectorSource(binding) ==
    [kinds |-> Research, ready |-> settings.langgraph, scopes |-> {},
     project |-> FALSE, tenants |-> binding.tenants,
     principals |-> binding.principals, owners |-> binding.owners]

SourceIds == {"web", "knowledge", "project_memory"} \union DOMAIN Connector

Catalog == [s \in SourceIds |->
    CASE s = "web" -> Builtin(Research, settings.web, {}, FALSE)
      [] s = "knowledge" ->
            Builtin(Research \union {"plan"}, TRUE, {"knowledge:read"}, FALSE)
      [] s = "project_memory" -> Builtin(Research, settings.langgraph, {}, TRUE)
      [] OTHER -> ConnectorSource(Connector[s])]

AuthorizeSource(context, source) ==
    IF ~(({"workbench:read"} \union source.scopes) \subseteq context.scopes)
    THEN "scope_missing"
    ELSE IF source.tenants # {} /\ context.tenant \notin source.tenants
    THEN "tenant_mismatch"
    ELSE IF source.principals # {} /\ context.principal \notin source.principals
    THEN "principal_mismatch"
    ELSE IF source.owners # {} /\ context.owner \notin source.owners
    THEN "owner_mismatch"
    ELSE "ok"

Requested(body) ==
    IF body.work \in Research /\ body.sources = {} THEN {"web"}
    ELSE body.sources

\* resolve_requested_sources: a source that is denied comes before one that
\* is unknown, and a concealed one counts as unknown.
ResolveError(asked, context) ==
    LET Decided(s) == IF s \notin SourceIds THEN "not_found"
                      ELSE Concealed(AuthorizeSource(context, Catalog[s]))
    IN  IF \E s \in asked : Decided(s) = "denied" THEN "denied"
        ELSE IF \E s \in asked : Decided(s) = "not_found" THEN "invalid"
        ELSE "none"

SupportsKind(asked, work) == \A s \in asked : work \in Catalog[s].kinds

MeetsRequirements(asked, project) ==
    project \/ \A s \in asked : ~Catalog[s].project

SourcesError(asked, work, project, context) ==
    IF ResolveError(asked, context) # "none" THEN ResolveError(asked, context)
    ELSE IF ~SupportsKind(asked, work) THEN "invalid"
    ELSE IF ~MeetsRequirements(asked, project) THEN "invalid"
    ELSE "none"

VisibleSources(context) ==
    {s \in SourceIds : AuthorizeSource(context, Catalog[s]) = "ok"}

GetSources(context) ==
    IF WorkbenchGate # "none" THEN Decline(context, WorkbenchGate)
    ELSE IF "workbench:read" \notin context.scopes THEN Decline(context, "denied")
    ELSE /\ Reply(context, 200, {}, VisibleSources(context))
         /\ UNCHANGED row

(***************************************************************************)
(* Workbench tasks.                                                        *)
(***************************************************************************)
LoadTask(id, context, mode) ==
    IF WorkbenchGate # "none" THEN WorkbenchGate
    ELSE IF ~Is("task", id) THEN "not_found"
    ELSE Concealed(IF mode = "write" THEN AuthorizeTaskWrite(context, row[id])
                   ELSE AuthorizeTaskRead(context, row[id]))

\* filter_visible_workspace_outputs
VisibleOutputs(outputs, context) ==
    {o \in outputs : AuthorizeOutputRead(context, o) = "ok"}

OutputsOfTask(id) == {o \in Rows("output") : o.task = id}

OutputsOfSession(id) == {o \in Rows("output") : o.session = id}

CreateError(body, context) ==
    IF WorkbenchGate # "none" THEN WorkbenchGate
    ELSE IF "workbench:write" \notin context.scopes THEN "denied"
    ELSE LET error == SourcesError(Requested(body), body.work, body.project, context)
         IN  IF error # "none" THEN error
             ELSE IF /\ body.work \in Research
                     /\ \A s \in Requested(body) : ~Catalog[s].ready
                  THEN "invalid"
             ELSE "none"

NewTask(context, session, work, sources) ==
    [Owned("task", context) EXCEPT !.state = "queued", !.session = session,
        !.work = work, !.sources = sources]

PostTask(session, body, context) ==
    LET error == CreateError(body, context)
    IN  IF error # "none" THEN Decline(context, error)
        ELSE Store(context, 202,
                   NewTask(context, session, body.work, Requested(body)), {})

GetTask(id, context) ==
    LET error == LoadTask(id, context, "read")
    IN  Show(context, error,
             IF error # "none" THEN {}
             ELSE {row[id]} \union VisibleOutputs(OutputsOfTask(id), context))

GetTaskEvents(id, context) ==
    LET error == LoadTask(id, context, "read")
    IN  Show(context, error, IF error # "none" THEN {} ELSE {row[id]})

CancelTask(id, context) ==
    LET error == LoadTask(id, context, "write")
        cancelled == [row[id] EXCEPT !.state = "cancelled"]
    IN  IF error # "none" THEN Decline(context, error)
        ELSE IF row[id].state # "queued" THEN Decline(context, "conflict")
        ELSE /\ row' = [row EXCEPT ![id] = cancelled]
             /\ AnswerWith(context, 200, {cancelled} \union
                    VisibleOutputs(OutputsOfTask(id), context))

\* The new task belongs to whoever asked for the retry, and so its sources
\* are resolved once more, for them.
RetryTask(id, context) ==
    LET error == LoadTask(id, context, "write")
        sources == SourcesError(row[id].sources, row[id].work,
                                "project_memory" \in row[id].sources, context)
    IN  IF error # "none" THEN Decline(context, error)
        ELSE IF row[id].state \notin Terminal THEN Decline(context, "conflict")
        ELSE IF sources # "none" THEN Decline(context, sources)
        ELSE Store(context, 202,
                   NewTask(context, row[id].session, row[id].work, row[id].sources),
                   {row[id]})

(***************************************************************************)
(* What the runner leaves: a canvas task an output of the task's owner.    *)
(***************************************************************************)
RunToEnd(id) ==
    /\ id \in DOMAIN row
    /\ row[id].state = "queued"
    /\ LET done == [row EXCEPT ![id].state = "completed"]
       IN  row' = IF row[id].work = "canvas"
                  THEN Append(done, [Inherited("output", row[id]) EXCEPT
                                        !.task = id, !.session = row[id].session])
                  ELSE done
    /\ UNCHANGED reply

(***************************************************************************)
(* Workspace outputs and their exports.                                    *)
(***************************************************************************)
LoadOutput(id, context, mode) ==
    IF WorkbenchGate # "none" THEN WorkbenchGate
    ELSE IF ~Is("output", id) THEN "not_found"
    ELSE Concealed(IF mode = "export" THEN AuthorizeOutputExport(context, row[id])
                   ELSE AuthorizeOutputRead(context, row[id]))

GetOutput(id, context) ==
    LET error == LoadOutput(id, context, "read")
    IN  Show(context, error, IF error # "none" THEN {} ELSE {row[id]})

\* Those of a session; without one, and without a project, 422.
ListOutputs(session, context) ==
    LET error == IF WorkbenchGate # "none" THEN WorkbenchGate
                 ELSE IF "workbench:read" \notin context.scopes THEN "denied"
                 ELSE IF session = 0 THEN "invalid" ELSE "none"
    IN  Show(context, error,
             IF error # "none" THEN {}
             ELSE VisibleOutputs(OutputsOfSession(session), context))

\* The artifact belongs to whom the output belongs to.  A format or a file
\* name that does not fit is refused.
ExportOutput(id, context) ==
    LET error == LoadOutput(id, context, "export")
    IN  IF error # "none" THEN Decline(context, error)
        ELSE \/ Decline(context, "invalid")
             \/ Store(context, 201,
                      [Inherited("artifact", row[id]) EXCEPT
                          !.session = row[id].session], {row[id]})

(***************************************************************************)
(* Artifacts: the rule of load_artifact_for_download, then the decision.   *)
(***************************************************************************)
LoadArtifact(id, context) ==
    /\ Is("artifact", id)
    /\ \/ row[id].owner = context.owner
       \/ NoOwner \in {row[id].owner, context.owner}

GetArtifact(id, context) ==
    IF LoadArtifact(id, context) /\ AuthorizeArtifactRead(context, row[id]) = "ok"
    THEN Show(context, "none", {row[id]})
    ELSE Decline(context, "not_found")

(***************************************************************************)
(* Chat sessions: the first turn of one, and the history of a caller.      *)
(***************************************************************************)
PostChat(context) == Store(context, 200, Owned("session", context), {})

\* The owner and the tenant the SQL of a list or of a deletion asks for.
Filtered(r, context) ==
    /\ context.owner = NoOwner \/ r.owner = context.owner
    /\ r.tenant = context.tenant

ListHistory(context) ==
    Show(context, "none",
         {s \in Rows("session") :
             /\ Filtered(s, context)
             /\ AuthorizeSessionRead(context, s) = "ok"})

Deleted(Gone(_)) ==
    [i \in DOMAIN row |-> IF Gone(i) THEN NoRow ELSE row[i]]

\* On SQLite the artifacts go by the same filter as the sessions.
DeleteHistory(context) ==
    LET Gone(i) == /\ row[i].kind \in {"session", "artifact"}
                   /\ Filtered(row[i], context)
    IN  /\ row' = Deleted(Gone)
        /\ AnswerWith(context, 204, {row[i] : i \in {j \in DOMAIN row : Gone(j)}})

\* Whatever the reason, a refusal looks like a session that is not there.
LoadSession(id, context, mode) ==
    LET decision == IF mode = "write" THEN AuthorizeSessionWrite(context, row[id])
                    ELSE AuthorizeSessionRead(context, row[id])
    IN  IF ~Is("session", id) \/ decision # "ok" THEN "not_found" ELSE "none"

GetSession(id, context) ==
    LET error == LoadSession(id, context, "read")
    IN  Show(context, error,
             IF error # "none" THEN {}
             ELSE {row[id]} \union VisibleOutputs(OutputsOfSession(id), context))

\* An empty title is refused before anything is read.
RenameSession(id, context) ==
    LET error == LoadSession(id, context, "write")
    IN  \/ Decline(context, "invalid")
        \/ /\ error # "none"
           /\ Decline(context, error)
        \/ /\ error = "none"
           /\ AnswerWith(context, 204, {row[id]})
           /\ UNCHANGED row

\* Reading it is enough; its artifacts go with it.
DeleteSession(id, context) ==
    LET error == LoadSession(id, context, "read")
        Gone(i) == i = id \/ (row[i].kind = "artifact" /\ row[i].session = id)
    IN  IF error # "none" THEN Decline(context, error)
        ELSE /\ row' = Deleted(Gone)
             /\ AnswerWith(context, 204, {row[id]})

(***************************************************************************)
(* The routes.                                                             *)
(***************************************************************************)
Handle(request, context) ==
    LET to == request.route
    IN  \/ to = "post_execution" /\ PostExecution(context)
        \/ to = "get_execution" /\ GetExecution(request.id, context)
        \/ to = "cancel_execution" /\ CancelExecution(request.id, context)
        \/ to = "retry_execution" /\ RetryExecution(request.id, context)
        \/ to = "get_sources" /\ GetSources(context)
        \/ to = "post_task" /\ PostTask(request.id, request.body, context)
        \/ to = "get_task" /\ GetTask(request.id, context)
        \/ to = "get_task_events" /\ GetTaskEvents(request.id, context)
        \/ to = "cancel_task" /\ CancelTask(request.id, context)
        \/ to = "retry_task" /\ RetryTask(request.id, context)
        \/ to = "get_output" /\ GetOutput(request.id, context)
        \/ to = "list_outputs" /\ ListOutputs(request.id, context)
        \/ to = "export_output" /\ ExportOutput(request.id, context)
        \/ to = "get_artifact" /\ GetArtifact(request.id, context)
        \/ to = "post_chat" /\ PostChat(context)
        \/ to = "list_history" /\ ListHistory(context)
        \/ to = "delete_history" /\ DeleteHistory(context)
        \/ to = "get_session" /\ GetSession(request.id, context)
        \/ to = "rename_session" /\ RenameSession(request.id, context)
        \/ to = "delete_session" /\ DeleteSession(request.id, context)
=============================================================================
