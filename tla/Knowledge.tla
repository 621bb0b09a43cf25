------------------------------ MODULE Knowledge ------------------------------
(***************************************************************************)
(* What is done with knowledge documents: ingestion (normalise, chunk,     *)
(* index: start_knowledge_ingestion), and the search and the answers over  *)
(* the vector index and the chunk rows (search_knowledge,                  *)
(* build_chat_knowledge_header).  The endpoints are synchronous: each     *)
(* request has a thread, and threads meet in the database and in the       *)
(* object store, where every document has one index file.                  *)
(*                                                                         *)
(* A "text" file has one chunk, a "blank" one none, and no text can be had *)
(* from a "scanned" one.                                                   *)
(***************************************************************************)
EXTENDS Uploads

CONSTANTS
    Ingestion,      \* POST /knowledge/ingestions requests
    Query           \* POST /knowledge/search and /answers requests

VARIABLES
    ingestion,      \* knowledge_ingestions: [id -> document and status]
    chunks,         \* the ingestions with rows in knowledge_chunks
    ingest,         \* [Ingestion -> the request's thread]
    query           \* [Query -> the request's thread]

knowledgeVars == <<ingestion, chunks, ingest, query>>

NoIngestion == [doc |-> "none", status |-> "absent"]
NoIngest == [pc |-> "idle", doc |-> "none", reply |-> 0]

Index(d) == <<"index", d>>

\* knowledge_chunks of a document, whatever ingestion they are from.
ChunksOf(d) == {i \in chunks : ingestion[i].doc = d}

\* get_knowledge_upload
UploadStatus(d) == IF ChunksOf(d) # {} THEN "indexed" ELSE "uploaded"

-----------------------------------------------------------------------------
IngestGoto(i, pc) == ingest' = [ingest EXCEPT ![i].pc = pc]

IngestReply(i, status) ==
    ingest' = [ingest EXCEPT ![i].pc = "answered", ![i].reply = status]

CreateIngestion(i, d) ==
    ingestion' = [ingestion EXCEPT ![i] = [doc |-> d, status |-> "running"]]

UpdateIngestionStatus(i, status) ==
    ingestion' = [ingestion EXCEPT ![i].status = status]

BeginIngestion(i, d, header) ==
    /\ ingest[i].pc = "idle"
    /\ IF MayRead(header, d)
       THEN /\ ingest' = [ingest EXCEPT ![i] = [pc |-> "normalizing", doc |-> d, reply |-> 0]]
            /\ CreateIngestion(i, d)
       ELSE /\ IngestReply(i, 404)
            /\ UNCHANGED ingestion
    /\ UNCHANGED <<uploadVars, chunks, query>>

\* The source is read and the normalised text written next to it.
Normalize(i) ==
    /\ ingest[i].pc = "normalizing"
    /\ <<"source", ingest[i].doc>> \in objects
    /\ row[ingest[i].doc].content # "scanned"
    /\ IngestGoto(i, "indexing")
    /\ UNCHANGED <<uploadVars, ingestion, chunks, query>>

\* persist_vector_index on the local store: truncate, then write.
OpenIndex(i) ==
    /\ ingest[i].pc = "indexing" /\ LocalStore
    /\ objects' = objects \ {Index(ingest[i].doc)}
    /\ torn' = torn \union {Index(ingest[i].doc)}
    /\ IngestGoto(i, "writing")
    /\ UNCHANGED <<row, upload, ingestion, chunks, query>>

WriteIndex(i) ==
    /\ ingest[i].pc = IF LocalStore THEN "writing" ELSE "indexing"
    /\ Write(Index(ingest[i].doc))
    /\ IngestGoto(i, "chunking")
    /\ UNCHANGED <<row, upload, ingestion, chunks, query>>

ChunkRows(i) ==
    IF row[ingest[i].doc].content = "text" THEN chunks \union {i} ELSE chunks \ {i}

\* Mutant: the chunk rows may come before the index.
ReplaceChunksEarly(i) ==
    /\ ingest[i].pc \in {"indexing", "chunking"}
    /\ chunks' = ChunkRows(i)
    /\ ingest' = [ingest EXCEPT ![i].pc = IF @ = "chunking" THEN "completing" ELSE @]
    /\ UNCHANGED <<uploadVars, ingestion, query>>

\* replace_chunks: what it deletes are rows of this ingestion only.
ReplaceChunks(i) ==
    /\ ingest[i].pc = "chunking"
    /\ chunks' = ChunkRows(i)
    /\ IngestGoto(i, "completing")
    /\ UNCHANGED <<uploadVars, ingestion, query>>

Complete(i) ==
    /\ ingest[i].pc = "completing"
    /\ UpdateIngestionStatus(i, "completed")
    /\ IngestReply(i, 200)
    /\ UNCHANGED <<uploadVars, chunks, query>>

Working == {"normalizing", "indexing", "writing", "chunking", "completing"}

\* Mutant: the failure of the last step is not recorded.
IngestionRaisesUnseen(i) ==
    /\ ingest[i].pc \in Working
    /\ IF ingest[i].pc = "completing" THEN IngestReply(i, 500)
       ELSE IngestGoto(i, "failing")
    /\ UNCHANGED <<uploadVars, ingestion, chunks, query>>

\* Any step may raise.
IngestionRaises(i) ==
    /\ ingest[i].pc \in Working
    /\ IngestGoto(i, "failing")
    /\ UNCHANGED <<uploadVars, ingestion, chunks, query>>

Fail(i) ==
    /\ ingest[i].pc = "failing"
    /\ UpdateIngestionStatus(i, "failed")
    /\ IngestReply(i, 500)
    /\ UNCHANGED <<uploadVars, chunks, query>>

\* The failure cannot be recorded: the row stays "running".
FailUnrecorded(i) ==
    /\ ingest[i].pc = "failing"
    /\ ingest' = [ingest EXCEPT ![i].pc = "unrecorded", ![i].reply = 500]
    /\ UNCHANGED <<uploadVars, ingestion, chunks, query>>

IngestionStep(i) ==
    \/ Normalize(i) \/ OpenIndex(i) \/ WriteIndex(i) \/ ReplaceChunks(i)
    \/ Complete(i) \/ IngestionRaises(i) \/ Fail(i) \/ FailUnrecorded(i)

-----------------------------------------------------------------------------
(***************************************************************************)
(* A query: a search, or an answer, which falls back on the chunk rows of  *)
(* the documents attached to it.  matches: the documents whose text shares *)
(* a word with the question.  The ranking and the cut to top_k are left    *)
(* out: hits are a set.                                                    *)
(***************************************************************************)
NoQuery == [pc |-> "idle", kind |-> "search", by |-> NoOwner, wanted |-> {},
            matches |-> {}, allowed |-> {}, files |-> {}, read |-> {},
            hits |-> {}, status |-> 0]

QueryReply(q, status, hits) ==
    query' = [query EXCEPT ![q].pc = "answered", ![q].status = status,
                           ![q].hits = hits]

\* _authorized_document_ids_for_request
AllowedDocuments(header, wanted) ==
    {d \in Doc : MayRead(header, d) /\ (d \in wanted \/ wanted = {})}

BeginQuery(q, kind, header, wanted, matches) ==
    /\ query[q].pc = "idle"
    /\ query' = [query EXCEPT ![q] =
            [NoQuery EXCEPT !.pc = "listing", !.kind = kind, !.by = header,
                            !.wanted = wanted, !.matches = matches,
                            !.allowed = AllowedDocuments(header, wanted)]]
    /\ UNCHANGED <<uploadVars, ingestion, chunks, ingest>>

\* list_keys names torn files too.
ListIndex(q) ==
    /\ query[q].pc = "listing"
    /\ query' = [query EXCEPT ![q].pc = "reading",
            ![q].files = {d \in Doc : Index(d) \in objects \union torn}]
    /\ UNCHANGED <<uploadVars, ingestion, chunks, ingest>>

\* Every file is read, whoever's it is, before any is left out.
ReadIndex(q, d) ==
    /\ query[q].pc = "reading" /\ d \in query[q].files \ query[q].read
    /\ IF Index(d) \in objects
       THEN query' = [query EXCEPT ![q].read = @ \union {d}]
       ELSE QueryReply(q, 500, {})
    /\ UNCHANGED <<uploadVars, ingestion, chunks, ingest>>

\* search_vector_index: an empty list of filters filters nothing.
Hits(q) ==
    {d \in query[q].read : /\ query[q].allowed = {} \/ d \in query[q].allowed
                           /\ d \in query[q].matches
                           /\ row[d].content = "text"}

\* Mutant: a search that finds nothing is the last word.
FallsBackNever(q) == FALSE

FallsBack(q) == query[q].kind = "answer" /\ query[q].wanted # {} /\ Hits(q) = {}

Search(q) ==
    /\ query[q].pc = "reading" /\ query[q].read = query[q].files
    /\ IF FallsBack(q)
       THEN query' = [query EXCEPT ![q].pc = "resolving"]
       ELSE QueryReply(q, 200, Hits(q))
    /\ UNCHANGED <<uploadVars, ingestion, chunks, ingest>>

\* resolve_knowledge_documents
ResolveAttached(q) ==
    /\ query[q].pc = "resolving"
    /\ IF \A d \in query[q].wanted : MayRead(query[q].by, d)
       THEN query' = [query EXCEPT ![q].pc = "attached"]
       ELSE QueryReply(q, 404, {})
    /\ UNCHANGED <<uploadVars, ingestion, chunks, ingest>>

\* The first chunk row of each attached document.
FallBack(q) ==
    /\ query[q].pc = "attached"
    /\ QueryReply(q, 200, {d \in query[q].wanted : ChunksOf(d) # {}})
    /\ UNCHANGED <<uploadVars, ingestion, chunks, ingest>>

QueryFails(q) ==
    /\ query[q].pc \in {"listing", "reading", "resolving", "attached"}
    /\ QueryReply(q, 500, {})
    /\ UNCHANGED <<uploadVars, ingestion, chunks, ingest>>

QueryStep(q) ==
    \/ ListIndex(q) \/ Search(q) \/ ResolveAttached(q) \/ FallBack(q)
    \/ QueryFails(q)
    \/ \E d \in Doc : ReadIndex(q, d)

Dead(thread) == IF thread.pc \in {"idle", "answered", "unrecorded"} THEN thread
                ELSE [thread EXCEPT !.pc = "lost"]

KnowledgeDies ==
    /\ ingest' = [i \in Ingestion |-> Dead(ingest[i])]
    /\ query' = [q \in Query |-> Dead(query[q])]
    /\ UNCHANGED <<ingestion, chunks>>

KnowledgeInit ==
    /\ ingestion = [i \in Ingestion |-> NoIngestion]
    /\ chunks = {}
    /\ ingest = [i \in Ingestion |-> NoIngest]
    /\ query = [q \in Query |-> NoQuery]
=============================================================================
