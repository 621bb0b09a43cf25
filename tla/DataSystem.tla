----------------------------- MODULE DataSystem -----------------------------
(***************************************************************************)
(* The backend process over its database file and its object store: it     *)
(* starts (Migrations), serves uploads and knowledge requests, and dies,   *)
(* at any step, taking every thread with it.                               *)
(***************************************************************************)
EXTENDS Knowledge

CONSTANT Works      \* bounds: what a behaviour uses, one of these records

vars == <<migrationVars, uploadVars, knowledgeVars, work>>

IsWork(w) ==
    /\ w.migrating \in BOOLEAN /\ w.local \in BOOLEAN
    /\ w.docs \subseteq Doc /\ w.images \subseteq Image
    /\ w.ingestions \subseteq Ingestion /\ w.queries \subseteq Query

ASSUME WorkAssumption == \A w \in Works : IsWork(w)

Serving == boot.phase = "serving" /\ release = Len(Scripts)

Booting ==
    /\ \/ Start \/ CheckLedger \/ Execute \/ TreatAsApplied \/ RefuseToStart
       \/ Record \/ StatementFails
    /\ UNCHANGED <<uploadVars, knowledgeVars, work>>

Operating ==
    /\ work.migrating
    /\ \/ \E r \in Releases : Deploy(r) \/ Edit(r)
       \/ \E t \in Task : AddTask(t)
    /\ UNCHANGED <<uploadVars, knowledgeVars, work>>

Uploading(x) ==
    /\ \/ UploadStep(x)
       \/ \E header \in Header, content \in Content :
              Serving /\ x \in work.docs \union work.images
                      /\ BeginUpload(x, header, content)
    /\ UNCHANGED <<migrationVars, knowledgeVars, work>>

Ingesting(i) ==
    /\ \/ IngestionStep(i)
       \/ \E d \in Doc, header \in Header :
              Serving /\ i \in work.ingestions /\ BeginIngestion(i, d, header)
    /\ UNCHANGED <<migrationVars, work>>

Querying(q) ==
    /\ \/ QueryStep(q)
       \/ \E kind \in {"search", "answer"}, header \in Header,
             wanted \in SUBSET Doc, matches \in SUBSET work.docs :
              Serving /\ q \in work.queries
                      /\ BeginQuery(q, kind, header, wanted, matches)
    /\ UNCHANGED <<migrationVars, work>>

Crash ==
    /\ Die /\ UploadsDie /\ KnowledgeDies
    /\ UNCHANGED work

Next ==
    \/ Booting \/ Operating \/ Crash
    \/ \E x \in Upload : Uploading(x)
    \/ \E i \in Ingestion : Ingesting(i)
    \/ \E q \in Query : Querying(q)

Init ==
    /\ work \in Works
    /\ IF work.migrating THEN FreshInit ELSE ServingInit
    /\ UploadInit
    /\ KnowledgeInit

Spec == Init /\ [][Next]_vars

\* Threads are scheduled until the process dies.
Fairness == \A i \in Ingestion : WF_vars(IngestionStep(i) /\ UNCHANGED <<migrationVars, work>>)

FairSpec == Spec /\ Fairness

-----------------------------------------------------------------------------
(***************************************************************************)
(* What the backend owes to its stored data.                               *)
(***************************************************************************)

\* The variables hold what they may (not listed in a run's properties).
TypeOK ==
    /\ \A t \in DOMAIN schema : schema[t] \in SUBSET (TaskColumns \union
            {"id", "turns", "user_name", "storage_key"})
    /\ DOMAIN ledger \subseteq Releases
    /\ objects \intersect torn = {}
    /\ \A x \in Upload : upload[x].status \in {0, 200, 500}
    /\ chunks \subseteq Ingestion

(***************************************************************************)
(* A process that serves holds every script of its release in the ledger,  *)
(* with the file as it is now: whatever starts died or were refused        *)
(* before, whichever releases were installed in between, and no shipped    *)
(* script was changed behind it (apply_migrations).                        *)
(***************************************************************************)
ServesItsRelease ==
    boot.phase = "serving" =>
        \A i \in 1..release : Recorded(i) /\ ledger[i] = Checksum(i)

(***************************************************************************)
(* A start that was never cut short, nor any before it, leaves every       *)
(* column the release needs, whether the file was new or older than the    *)
(* ledger (apply_migrations, _execute_script).                             *)
(***************************************************************************)
Lasting(s) == s.op \in {"create", "add"} /\ s.table # TasksV2

AppliedWhole(script) ==
    \A j \in DOMAIN Scripts[script] :
        LET s == Scripts[script][j] IN
        Lasting(s) => Has(s.table) /\ s.columns \subseteq schema[s.table]

UninterruptedIsComplete ==
    boot.phase = "serving" /\ ~interrupted =>
        \A script \in DOMAIN ledger : AppliedWhole(script)

(***************************************************************************)
(* db_migrations.py:4 says additive steps are idempotent: a script that is *)
(* in the ledger has had all its effect.                                   *)
(***************************************************************************)
RecordedIsApplied ==
    boot.phase = "serving" =>
        \A script \in DOMAIN ledger : AppliedWhole(script)

(***************************************************************************)
(* No start loses a task: one that is stored stays in workbench_tasks or   *)
(* in the table that replaces it, wherever the rebuild of                  *)
(* 021_workbench_task_cancelled_status.sql is cut short, and however often *)
(* it is tried again.                                                      *)
(***************************************************************************)
TasksSurvive ==
    [][rows[Tasks] \union rows[TasksV2] \subseteq rows'[Tasks] \union rows'[TasksV2]]_vars

(***************************************************************************)
(* A stored document or image has all its bytes, and whoever was told that *)
(* an upload succeeded can read it (create_knowledge_upload_from_bytes,    *)
(* create_media_upload_from_bytes).                                        *)
(***************************************************************************)
Readable(header, x) ==
    IF x \in Image THEN LoadImage(header, x) = 200 ELSE MayRead(header, x)

UploadsAreWhole ==
    \A x \in Upload :
        /\ Stored(x) => KeySet(x) \subseteq objects
        /\ upload[x].status = 200 => Stored(x) /\ Readable(upload[x].row.by, x)

(***************************************************************************)
(* What is called completed or indexed can be searched: a completed        *)
(* ingestion has its chunk rows and a readable source, and a document that *)
(* is reported indexed has an index file, a whole one in S3                *)
(* (start_knowledge_ingestion, get_knowledge_upload).                      *)
(***************************************************************************)
IndexedIsSearchable ==
    /\ \A i \in Ingestion :
          ingestion[i].status = "completed" =>
             LET d == ingestion[i].doc IN
             /\ row[d].content # "scanned"
             /\ i \in chunks <=> row[d].content = "text"
             /\ Index(d) \in objects \union torn
    /\ \A d \in Doc :
          UploadStatus(d) = "indexed" =>
             /\ Index(d) \in objects \union torn
             /\ ~LocalStore => Index(d) \in objects

(***************************************************************************)
(* An answer about attached documents that its caller may read is not      *)
(* empty when one of them is indexed as it is given: what lexical          *)
(* retrieval misses, the first chunks make up for                          *)
(* (build_chat_knowledge_header, _fallback_answer_scope).                 *)
(***************************************************************************)
Answered(q) == query[q].pc # "answered" /\ query'[q].status = 200

AttachedDocumentsAnswer ==
    [][\A q \in Query :
        LET wanted == query[q].wanted IN
        /\ Answered(q) /\ query[q].kind = "answer"
        /\ \A d \in wanted : MayRead(query[q].by, d)
        /\ \E d \in wanted : UploadStatus(d) = "indexed"
        => query'[q].hits # {}]_vars

(***************************************************************************)
(* An ingestion that was accepted ends, completed or failed, unless the    *)
(* process died or the database refused to record the failure              *)
(* (start_knowledge_ingestion).                                            *)
(***************************************************************************)
IngestionsEnd ==
    \A i \in Ingestion :
        ingestion[i].status = "running" ~>
            \/ ingestion[i].status \in {"completed", "failed"}
            \/ ingest[i].pc \in {"lost", "unrecorded"}

(***************************************************************************)
(* StartsAreSafe.  Starts that are cut short anywhere and tried again,     *)
(* with whatever release, never lose a task, and a process that serves has *)
(* the schema of its release.                                              *)
(***************************************************************************)
StartsAreSafe == []ServesItsRelease /\ []UninterruptedIsComplete /\ TasksSurvive

(***************************************************************************)
(* StoredIsThere.  What is reported stored, completed or indexed can be    *)
(* read and searched, whatever failed on the way to it.                    *)
(***************************************************************************)
StoredIsThere == UploadsAreWhole /\ IndexedIsSearchable
=============================================================================
