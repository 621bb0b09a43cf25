------------------------------- MODULE Uploads -------------------------------
(***************************************************************************)
(* Files a client brings: knowledge documents (services/knowledge_service, *)
(* knowledge_storage, knowledge_repository) and images for vision chat     *)
(* (services/media_service), each as bytes in the object store             *)
(* (goat_ai/uploads/object_store) and a row in the database.  An upload    *)
(* runs in a thread of its own; its store calls are its steps and each may *)
(* raise.                                                                  *)
(***************************************************************************)
EXTENDS Migrations

CONSTANTS
    Doc,            \* ids of knowledge documents, each uploaded once
    Image,          \* ids of image attachments, each uploaded once
    Header,         \* owner headers of callers, NoOwner among them
    NoOwner,        \* no such header, and no owner
    Content         \* kinds of file: "text", "blank", "scanned"

\* A document's id starts with doc-, an image's with att-.
ASSUME UploadAssumption == Doc \intersect Image = {} /\ "none" \notin Content

VARIABLES
    objects,        \* keys of the object store that hold their content
    torn,           \* keys whose file was truncated and not written
    row,            \* knowledge_documents and media_uploads, by id
    upload,         \* [id -> the thread of its upload]
    work            \* what the behaviour uses: see DataSystem

uploadVars == <<objects, torn, row, upload>>

\* settings.object_store_backend: the local object store, or S3.
LocalStore == work.local

Upload == Doc \union Image

NoRow == [by |-> NoOwner, content |-> "none"]

NoUpload == [pc |-> "idle", put |-> 0, row |-> NoRow, status |-> 0]

\* The keys an upload writes, in order.
Keys(x) == IF x \in Doc THEN << <<"source", x>> >>
           ELSE << <<"image", x>>, <<"image_meta", x>> >>

KeySet(x) == {Keys(x)[i] : i \in DOMAIN Keys(x)}

-----------------------------------------------------------------------------
(***************************************************************************)
(* The decisions of services/authorizer.py on these rows.  Everybody has   *)
(* every scope and the default tenant (see Visibility): what is left of    *)
(* them is the owner.                                                      *)
(***************************************************************************)
OwnerSees(header, owner) == header = NoOwner \/ owner = header

Stored(x) == row[x] # NoRow

MayRead(header, x) == Stored(x) /\ OwnerSees(header, row[x].by)

\* load_normalized_base64_for_ollama
LoadImage(header, x) ==
    IF MayRead(header, x) /\ <<"image", x>> \in objects THEN 200 ELSE 404

-----------------------------------------------------------------------------
(***************************************************************************)
(* put_bytes.  The local store truncates the file and writes it: when that *)
(* raises, or the process dies, a torn file may be left.                   *)
(***************************************************************************)
Write(key) ==
    /\ objects' = objects \union {key}
    /\ torn' = torn \ {key}

WriteFails(key) ==
    \/ UNCHANGED <<objects, torn>>
    \/ /\ LocalStore
       /\ objects' = objects \ {key}
       /\ torn' = torn \union {key}

Delete(key) ==
    /\ objects' = objects \ {key}
    /\ torn' = torn \ {key}

-----------------------------------------------------------------------------
UploadGoto(x, pc) == upload' = [upload EXCEPT ![x].pc = pc]

Answer(x, status) ==
    upload' = [upload EXCEPT ![x].pc = "answered", ![x].status = status]

\* The body was read and is of a supported kind.
BeginUpload(x, header, content) ==
    /\ upload[x].pc = "idle"
    /\ upload' = [upload EXCEPT ![x] =
                    [pc |-> "putting", put |-> 0, status |-> 0,
                     row |-> [by |-> header, content |-> content]]]
    /\ UNCHANGED <<objects, torn, row>>

Put(x) ==
    /\ upload[x].pc = "putting"
    /\ LET next == upload[x].put + 1 IN
       /\ Write(Keys(x)[next])
       /\ upload' = [upload EXCEPT ![x].put = next,
                     ![x].pc = IF next = Len(Keys(x)) THEN "inserting" ELSE @]
    /\ UNCHANGED row

\* What an earlier put of the same upload wrote is left behind.
PutFails(x) ==
    /\ upload[x].pc = "putting"
    /\ WriteFails(Keys(x)[upload[x].put + 1])
    /\ Answer(x, 500)
    /\ UNCHANGED row

\* The INSERT of a document names the columns of the last migration.
Insertable(x) ==
    x \in Doc => /\ Has("knowledge_documents")
                 /\ "storage_key" \in schema["knowledge_documents"]

Insert(x) ==
    /\ upload[x].pc = "inserting" /\ Insertable(x)
    /\ row' = [row EXCEPT ![x] = upload[x].row]
    /\ IF x \in Doc THEN UploadGoto(x, "auditing") ELSE Answer(x, 200)
    /\ UNCHANGED <<objects, torn>>

InsertFails(x) ==
    /\ upload[x].pc = "inserting"
    /\ UploadGoto(x, "deleting")
    /\ UNCHANGED <<objects, torn, row>>

\* The objects are deleted in the order they were put.
DeleteNext(x) ==
    /\ upload[x].pc = "deleting"
    /\ Delete(Keys(x)[1 + Len(Keys(x)) - upload[x].put])
    /\ upload' = [upload EXCEPT ![x].put = @ - 1,
                  ![x].pc = IF upload[x].put = 1 THEN "answered" ELSE @,
                  ![x].status = IF upload[x].put = 1 THEN 500 ELSE @]
    /\ UNCHANGED row

DeleteFails(x) ==
    /\ upload[x].pc = "deleting"
    /\ Answer(x, 500)
    /\ UNCHANGED <<objects, torn, row>>

\* The document is read back for the audit record.
Audit(x) ==
    /\ upload[x].pc = "auditing"
    /\ Answer(x, 200)
    /\ UNCHANGED <<objects, torn, row>>

\* Mutant: the cleanup covers the audit as well as the INSERT.
AuditFailsCleans(x) ==
    /\ upload[x].pc = "auditing"
    /\ UploadGoto(x, "deleting")
    /\ UNCHANGED <<objects, torn, row>>

AuditFails(x) ==
    /\ upload[x].pc = "auditing"
    /\ Answer(x, 500)
    /\ UNCHANGED <<objects, torn, row>>

UploadStep(x) ==
    \/ Put(x) \/ PutFails(x)
    \/ Insert(x) \/ InsertFails(x)
    \/ DeleteNext(x) \/ DeleteFails(x)
    \/ Audit(x) \/ AuditFails(x)

UploadsDie ==
    /\ upload' = [x \in Upload |->
                    IF upload[x].pc \in {"idle", "answered"} THEN upload[x]
                    ELSE [upload[x] EXCEPT !.pc = "lost"]]
    /\ UNCHANGED <<objects, torn, row>>

UploadInit ==
    /\ objects = {}
    /\ torn = {}
    /\ row = [x \in Upload |-> NoRow]
    /\ upload = [x \in Upload |-> NoUpload]
=============================================================================
