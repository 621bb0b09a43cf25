----------------------------- MODULE DataProofs -----------------------------
(***************************************************************************)
(* What the backend owes to its stored data, for any number of documents,  *)
(* images, ingestions, queries, callers and tasks: uploads and the indexes *)
(* of ingestions are whole (StoredIsThere), a start that is cut short      *)
(* neither loses a task nor serves another schema than its release's       *)
(* (StartsAreSafe), and an answer about documents that are attached and    *)
(* indexed cites one of them (AttachedDocumentsAnswer).                    *)
(***************************************************************************)
EXTENDS DataSystem, TLAPS, WellFoundedInduction, NaturalsInduction

(***************************************************************************)
(* Uploads.  Every file has keys of its own, and a row is inserted only    *)
(* when all of them hold their content: from then on nobody writes or      *)
(* deletes them.                                                           *)
(***************************************************************************)
Sound(x, u, r, kept) ==
    /\ u \in [pc : {u.pc}, put : {u.put}, row : {u.row}, status : {u.status}]
    /\ u.pc = "putting" => /\ u.put \in 0..(Len(Keys(x)) - 1)
                           /\ \A j \in 1..u.put : Keys(x)[j] \in kept
    /\ u.pc = "inserting" => u.put = Len(Keys(x)) /\ KeySet(x) \subseteq kept
    /\ u.pc = "deleting" => u.put \in 1..Len(Keys(x))
    /\ u.pc \in {"idle", "putting", "inserting", "deleting"} =>
           r = NoRow /\ u.status # 200
    /\ u.pc = "auditing" => r # NoRow
    /\ u.pc # "idle" => u.row.content # "none"
    /\ r # NoRow => r = u.row /\ KeySet(x) \subseteq kept
    /\ u.status = 200 => r # NoRow

UploadInv ==
    /\ DOMAIN upload = Upload /\ upload = [x \in Upload |-> upload[x]]
    /\ row = [x \in Upload |-> row[x]]
    /\ \A x \in Upload : Sound(x, upload[x], row[x], objects)

LEMMA KeysOf ==
    ASSUME NEW x \in Upload
    PROVE  /\ x \in Doc => Keys(x) = << <<"source", x>> >> /\ Len(Keys(x)) = 1
           /\ x \notin Doc => /\ Keys(x) = << <<"image", x>>, <<"image_meta", x>> >>
                              /\ Len(Keys(x)) = 2
           /\ KeySet(x) = {Keys(x)[j] : j \in 1..Len(Keys(x))}
<1>1. /\ x \in Doc => Keys(x) = << <<"source", x>> >>
      /\ x \notin Doc => Keys(x) = << <<"image", x>>, <<"image_meta", x>> >>
    BY DEF Keys
<1>2. Len(<< <<"source", x>> >>) = 1 /\ DOMAIN << <<"source", x>> >> = 1..1
    OBVIOUS
<1>3. /\ Len(<< <<"image", x>>, <<"image_meta", x>> >>) = 2
      /\ DOMAIN << <<"image", x>>, <<"image_meta", x>> >> = 1..2
    OBVIOUS
<1>4. DOMAIN Keys(x) = 1..Len(Keys(x))
    BY <1>1, <1>2, <1>3
<1> QED BY <1>1, <1>2, <1>3, <1>4 DEF KeySet

LEMMA KeysAre ==
    ASSUME NEW x \in Upload
    PROVE  /\ x \in Doc => KeySet(x) = {<<"source", x>>}
           /\ x \notin Doc => KeySet(x) = {<<"image", x>>, <<"image_meta", x>>}
           /\ \A j \in 1..Len(Keys(x)) : Keys(x)[j] \in KeySet(x)
<1>1. CASE x \in Doc
    BY <1>1, KeysOf
<1>2. CASE x \notin Doc
  <2>1. Keys(x)[1] = <<"image", x>> /\ Keys(x)[2] = <<"image_meta", x>>
    BY <1>2, KeysOf
  <2>2. 1..2 = {1, 2} /\ Len(Keys(x)) = 2
    BY <1>2, KeysOf
  <2> QED BY <1>2, <2>1, <2>2, KeysOf
<1> QED BY <1>1, <1>2

LEMMA KeysApart ==
    ASSUME NEW x \in Upload, NEW key \in KeySet(x)
    PROVE  /\ \A y \in Upload : y # x => key \notin KeySet(y)
           /\ \A d : key # Index(d)
BY KeysAre DEF Index

\* The upload is not the worse for writes to other keys.
LEMMA SoundKept ==
    ASSUME NEW x \in Upload, NEW u, NEW r, NEW kept, NEW left,
           Sound(x, u, r, kept), KeySet(x) \intersect kept \subseteq left
    PROVE  Sound(x, u, r, left)
<1>1. \A j \in 1..Len(Keys(x)) : Keys(x)[j] \in KeySet(x)
    BY KeysAre
<1>2. Len(Keys(x)) \in Nat
    BY KeysOf
<1>3. ASSUME u.pc = "putting"
      PROVE  \A j \in 1..u.put : Keys(x)[j] \in left
    BY <1>1, <1>2, <1>3 DEF Sound
<1> QED BY <1>3 DEF Sound

\* A step of the upload of x, which may touch its own keys only.
LEMMA UploadMoves ==
    ASSUME UploadInv, NEW x \in Upload, NEW u, NEW r,
           upload' = [upload EXCEPT ![x] = u], row' = [row EXCEPT ![x] = r],
           Sound(x, u, r, objects'), objects \ KeySet(x) \subseteq objects'
    PROVE  UploadInv'
<1>1. upload' = [y \in Upload |-> IF y = x THEN u ELSE upload[y]]
    BY DEF UploadInv
<1>2. row' = [y \in Upload |-> IF y = x THEN r ELSE row[y]]
    BY DEF UploadInv
<1>3. ASSUME NEW y \in Upload
      PROVE  Sound(y, upload'[y], row'[y], objects')
  <2>1. CASE y = x
    BY <1>1, <1>2, <2>1
  <2>2. CASE y # x
    <3>1. KeySet(y) \intersect objects \subseteq objects'
      BY <2>2, KeysApart
    <3>2. Sound(y, upload[y], row[y], objects)
      BY DEF UploadInv
    <3>3. Sound(y, upload[y], row[y], objects')
      BY <3>1, <3>2, SoundKept
    <3> QED BY <1>1, <1>2, <2>2, <3>3
  <2> QED BY <2>1, <2>2
<1>4. DOMAIN upload' = Upload /\ upload' = [y \in Upload |-> upload'[y]]
    BY <1>1
<1>5. row' = [y \in Upload |-> row'[y]]
    BY <1>2
<1> QED BY <1>3, <1>4, <1>5 DEF UploadInv

LEMMA UploadShape ==
    ASSUME UploadInv, NEW x \in Upload
    PROVE  /\ Sound(x, upload[x], row[x], objects)
           /\ upload[x] \in [pc : {upload[x].pc}, put : {upload[x].put},
                             row : {upload[x].row}, status : {upload[x].status}]
           /\ row = [row EXCEPT ![x] = row[x]]
BY DEF UploadInv, Sound

LEMMA BeginUploadSound ==
    ASSUME UploadInv, NEW x \in Upload, NEW header, NEW content \in Content,
           BeginUpload(x, header, content)
    PROVE  UploadInv'
<1> DEFINE u == [pc |-> "putting", put |-> 0, status |-> 0,
                 row |-> [by |-> header, content |-> content]]
<1>1. u.pc = "putting" /\ u.put = 0 /\ u.status = 0 /\ u.row.content = content
    OBVIOUS
<1>2. u \in [pc : {u.pc}, put : {u.put}, row : {u.row}, status : {u.status}]
    OBVIOUS
<1>3. upload' = [upload EXCEPT ![x] = u] /\ objects' = objects /\ row' = row
    BY DEF BeginUpload
<1>4. row[x] = NoRow
    BY UploadShape DEF Sound, BeginUpload
<1> HIDE DEF u
<1>5. 0 \in 0..(Len(Keys(x)) - 1)
    BY KeysOf
<1>6. Sound(x, u, row[x], objects)
    BY <1>1, <1>2, <1>4, <1>5, UploadAssumption DEF Sound
<1> QED BY <1>3, <1>6, UploadShape, UploadMoves

LEMMA PutSound ==
    ASSUME UploadInv, NEW x \in Upload, Put(x)
    PROVE  UploadInv'
<1> DEFINE next == upload[x].put + 1
           u == [upload[x] EXCEPT !.put = next,
                     !.pc = IF next = Len(Keys(x)) THEN "inserting" ELSE @]
<1>0. Sound(x, upload[x], row[x], objects) /\ upload[x].pc = "putting"
    BY UploadShape DEF Put
<1>1. /\ upload[x].put \in 0..(Len(Keys(x)) - 1)
      /\ \A j \in 1..upload[x].put : Keys(x)[j] \in objects
    BY <1>0 DEF Sound
<1>2. upload' = [upload EXCEPT ![x] = u] /\ row' = row
    BY DEF Put
<1>3. objects' = objects \union {Keys(x)[next]}
    BY DEF Put, Write
<1>4. /\ u.pc = (IF next = Len(Keys(x)) THEN "inserting" ELSE "putting")
      /\ u.put = next /\ u.row = upload[x].row /\ u.status = upload[x].status
      /\ u \in [pc : {u.pc}, put : {u.put}, row : {u.row}, status : {u.status}]
    BY <1>0, UploadShape
<1> HIDE DEF u
<1>5. \A j \in 1..next : Keys(x)[j] \in objects'
    BY <1>1, <1>3
<1>6. Len(Keys(x)) \in Nat /\ KeySet(x) = {Keys(x)[j] : j \in 1..Len(Keys(x))}
    BY KeysOf
<1>7. Sound(x, u, row[x], objects')
  <2>1. row[x] = NoRow /\ u.status # 200 /\ u.row.content # "none"
    BY <1>0, <1>4 DEF Sound
  <2>2. CASE next = Len(Keys(x))
    BY <1>4, <1>5, <1>6, <2>1, <2>2 DEF Sound
  <2>3. CASE next # Len(Keys(x))
    BY <1>1, <1>4, <1>5, <1>6, <2>1, <2>3 DEF Sound
  <2> QED BY <2>2, <2>3
<1> QED BY <1>2, <1>3, <1>7, UploadShape, UploadMoves

\* The other ends of an upload, and a process that dies under it.
Ended(u, pc, status) == [u EXCEPT !.pc = pc, !.status = status]

Cut(u) == [u EXCEPT !.pc = "lost"]

LEMMA EndSound ==
    ASSUME NEW x \in Upload, NEW u, NEW r, NEW status,
           Sound(x, u, r, objects), u.pc # "idle", status # 200 \/ r # NoRow
    PROVE  /\ Sound(x, Cut(u), r, objects)
           /\ Sound(x, Ended(u, "answered", status), r, objects)
           /\ Ended(u, "answered", status).pc = "answered"
<1> DEFINE v == Cut(u)
           w == Ended(u, "answered", status)
<1>1. /\ v.pc = "lost" /\ v.row = u.row /\ v.status = u.status
      /\ v \in [pc : {v.pc}, put : {v.put}, row : {v.row}, status : {v.status}]
    BY DEF Sound, Cut
<1>2. /\ w.pc = "answered" /\ w.row = u.row /\ w.status = status
      /\ w \in [pc : {w.pc}, put : {w.put}, row : {w.row}, status : {w.status}]
    BY DEF Sound, Ended
<1> HIDE DEF v, w
<1>3. Sound(x, v, r, objects)
    BY <1>1 DEF Sound
<1>4. Sound(x, w, r, objects)
    BY <1>2 DEF Sound
<1> QED BY <1>2, <1>3, <1>4 DEF v, w

LEMMA AnswerEnds ==
    ASSUME UploadInv, NEW x \in Upload, NEW status, Answer(x, status)
    PROVE  upload' = [upload EXCEPT ![x] = Ended(upload[x], "answered", status)]
BY DEF Answer, Ended, UploadInv

LEMMA PutFailsSound ==
    ASSUME UploadInv, NEW x \in Upload, PutFails(x)
    PROVE  UploadInv'
<1> DEFINE next == upload[x].put + 1
           u == Ended(upload[x], "answered", 500)
<1>0. Sound(x, upload[x], row[x], objects) /\ upload[x].pc = "putting"
    BY UploadShape DEF PutFails
<1>1. next \in 1..Len(Keys(x))
    BY <1>0, KeysOf DEF Sound
<1>2. upload' = [upload EXCEPT ![x] = u] /\ row' = row
    BY AnswerEnds DEF PutFails
<1>3. objects \ KeySet(x) \subseteq objects'
    BY <1>1, KeysAre DEF PutFails, WriteFails
<1>4. Sound(x, u, row[x], objects) /\ row[x] = NoRow /\ u.pc = "answered"
  <2>1. 500 # 200 /\ upload[x].pc # "idle"
    BY <1>0
  <2>2. row[x] = NoRow
    BY <1>0 DEF Sound
  <2> QED BY <1>0, <2>1, <2>2, EndSound
<1> HIDE DEF u
<1>5. Sound(x, u, row[x], objects')
    BY <1>4 DEF Sound
<1> QED BY <1>2, <1>3, <1>5, UploadShape, UploadMoves

LEMMA InsertSound ==
    ASSUME UploadInv, NEW x \in Upload, Insert(x)
    PROVE  UploadInv'
<1> DEFINE t == upload[x]
           u == IF x \in Doc THEN [t EXCEPT !.pc = "auditing"]
                ELSE [t EXCEPT !.pc = "answered", !.status = 200]
<1>0. Sound(x, upload[x], row[x], objects) /\ upload[x].pc = "inserting"
    BY UploadShape DEF Insert
<1>1. /\ upload' = [upload EXCEPT ![x] = u]
      /\ row' = [row EXCEPT ![x] = upload[x].row] /\ objects' = objects
  <2>1. x \in Doc => upload' = [upload EXCEPT ![x].pc = "auditing"]
    BY DEF Insert, UploadGoto
  <2>2. x \notin Doc => upload' = [upload EXCEPT ![x] = Ended(t, "answered", 200)]
    BY AnswerEnds DEF Insert
  <2>3. DOMAIN upload = Upload
    BY DEF UploadInv
  <2>4. CASE x \in Doc
    BY <2>1, <2>3, <2>4 DEF Insert
  <2>5. CASE x \notin Doc
    BY <2>2, <2>5 DEF Insert, Ended
  <2> QED BY <2>4, <2>5
<1>2. /\ u.pc \in {"auditing", "answered"} /\ u.row = t.row
      /\ u \in [pc : {u.pc}, put : {u.put}, row : {u.row}, status : {u.status}]
  <2>1. t \in [pc : {t.pc}, put : {t.put}, row : {t.row}, status : {t.status}]
    BY UploadShape
  <2> HIDE DEF t
  <2>2. CASE x \in Doc
    BY <2>1, <2>2
  <2>3. CASE x \notin Doc
    BY <2>1, <2>3
  <2> QED BY <2>2, <2>3
<1> HIDE DEF u
<1>3. upload[x].row # NoRow
  <2>1. NoRow.content = "none"
    BY DEF NoRow
  <2>2. upload[x].row.content # "none"
    BY <1>0 DEF Sound
  <2> QED BY <2>1, <2>2
<1>4. Sound(x, u, upload[x].row, objects')
    BY <1>0, <1>1, <1>2, <1>3 DEF Sound
<1> QED BY <1>1, <1>4, UploadMoves

LEMMA InsertFailsSound ==
    ASSUME UploadInv, NEW x \in Upload, InsertFails(x)
    PROVE  UploadInv'
<1> DEFINE u == [upload[x] EXCEPT !.pc = "deleting"]
<1>0. Sound(x, upload[x], row[x], objects) /\ upload[x].pc = "inserting"
    BY UploadShape DEF InsertFails
<1>1. upload' = [upload EXCEPT ![x] = u] /\ row' = row /\ objects' = objects
    BY DEF InsertFails, UploadGoto
<1>2. /\ u.pc = "deleting" /\ u.row = upload[x].row /\ u.put = upload[x].put
      /\ u.status = upload[x].status
      /\ u \in [pc : {u.pc}, put : {u.put}, row : {u.row}, status : {u.status}]
    BY <1>0, UploadShape
<1> HIDE DEF u
<1>3. Len(Keys(x)) \in 1..2
    BY KeysOf
<1>4. /\ u.put \in 1..Len(Keys(x)) /\ row[x] = NoRow /\ u.status # 200
      /\ u.row.content # "none"
  <2>1. u.put = Len(Keys(x)) /\ u.put \in Nat /\ u.put >= 1
    BY <1>0, <1>2, <1>3 DEF Sound
  <2>2. row[x] = NoRow /\ u.status # 200 /\ u.row.content # "none"
    BY <1>0, <1>2 DEF Sound
  <2> QED BY <2>1, <2>2
<1>5. Sound(x, u, row[x], objects')
    BY <1>2, <1>4 DEF Sound
<1> QED BY <1>1, <1>5, UploadShape, UploadMoves

LEMMA DeleteNextSound ==
    ASSUME UploadInv, NEW x \in Upload, DeleteNext(x)
    PROVE  UploadInv'
<1> DEFINE last == upload[x].put = 1
           u == [upload[x] EXCEPT !.put = @ - 1,
                    !.pc = IF last THEN "answered" ELSE @,
                    !.status = IF last THEN 500 ELSE @]
<1>0. Sound(x, upload[x], row[x], objects) /\ upload[x].pc = "deleting"
    BY UploadShape DEF DeleteNext
<1>1. upload[x].put \in 1..Len(Keys(x)) /\ Len(Keys(x)) \in 1..2
  <2>1. upload[x].put \in 1..Len(Keys(x))
    BY <1>0 DEF Sound
  <2>2. Len(Keys(x)) = 1 \/ Len(Keys(x)) = 2
    BY KeysOf
  <2> QED BY <2>1, <2>2
<1>2. upload' = [upload EXCEPT ![x] = u] /\ row' = row
  <2>1. upload' = [upload EXCEPT ![x].put = @ - 1,
                   ![x].pc = IF last THEN "answered" ELSE @,
                   ![x].status = IF last THEN 500 ELSE @]
    BY DEF DeleteNext
  <2>2. DOMAIN upload = Upload /\ row' = row
    BY DEF DeleteNext, UploadInv
  <2> QED BY <2>1, <2>2, ZenonT(60)
<1>3. objects \ KeySet(x) \subseteq objects'
  <2>1. 1 + Len(Keys(x)) - upload[x].put \in 1..Len(Keys(x))
    <3>1. ASSUME NEW n \in 1..2, NEW p \in 1..n PROVE 1 + n - p \in 1..n
      OBVIOUS
    <3> QED BY <1>1, <3>1
  <2> QED BY <2>1, KeysAre DEF DeleteNext, Delete
<1>4. /\ u.pc = (IF last THEN "answered" ELSE "deleting") /\ u.row = upload[x].row
      /\ u.put = upload[x].put - 1
      /\ u.status = (IF last THEN 500 ELSE upload[x].status)
      /\ u \in [pc : {u.pc}, put : {u.put}, row : {u.row}, status : {u.status}]
    BY <1>0, UploadShape
<1> HIDE DEF u
<1>5. Sound(x, u, row[x], objects')
    BY <1>0, <1>1, <1>4 DEF Sound
<1> QED BY <1>2, <1>3, <1>5, UploadShape, UploadMoves

LEMMA UploadEnds ==
    ASSUME UploadInv, NEW x \in Upload, DeleteFails(x) \/ Audit(x) \/ AuditFails(x)
    PROVE  UploadInv'
<1>0. Sound(x, upload[x], row[x], objects) /\ upload[x].pc \in {"deleting", "auditing"}
    BY UploadShape DEF DeleteFails, Audit, AuditFails
<1>1. row' = row /\ objects' = objects
    BY DEF DeleteFails, Audit, AuditFails
<1>2. \A status : Answer(x, status) =>
          upload' = [upload EXCEPT ![x] = Ended(upload[x], "answered", status)]
    BY AnswerEnds
<1>3. ASSUME NEW status, Answer(x, status), status # 200 \/ row[x] # NoRow
      PROVE  UploadInv'
  <2>1. Sound(x, Ended(upload[x], "answered", status), row[x], objects)
    BY <1>0, <1>3, EndSound
  <2> QED BY <1>1, <1>2, <1>3, <2>1, UploadShape, UploadMoves
<1>4. CASE Answer(x, 500)
    BY <1>3, <1>4
<1>5. CASE upload[x].pc = "auditing" /\ Answer(x, 200)
  <2>1. row[x] # NoRow
    BY <1>0, <1>5 DEF Sound
  <2> QED BY <1>3, <1>5, <2>1
<1> QED BY <1>4, <1>5 DEF DeleteFails, Audit, AuditFails

LEMMA DeathSound ==
    ASSUME UploadInv, UploadsDie
    PROVE  UploadInv'
<1>1. ASSUME NEW x \in Upload
      PROVE  Sound(x, upload'[x], row[x], objects)
  <2>1. CASE upload[x].pc \in {"idle", "answered"}
    BY <2>1, UploadShape DEF UploadsDie
  <2>2. CASE upload[x].pc \notin {"idle", "answered"}
    <3>1. Sound(x, Cut(upload[x]), row[x], objects)
      <4>1. 500 # 200
        OBVIOUS
      <4> QED BY <2>2, <4>1, UploadShape, EndSound
    <3>2. upload'[x] = Cut(upload[x])
      BY <2>2 DEF UploadsDie, Cut
    <3> QED BY <3>1, <3>2
  <2> QED BY <2>1, <2>2
<1>2. upload' = [x \in Upload |-> upload'[x]] /\ DOMAIN upload' = Upload
    BY DEF UploadsDie
<1> QED BY <1>1, <1>2 DEF UploadsDie, UploadInv

LEMMA UploadStepSound ==
    ASSUME UploadInv, NEW x \in Upload, UploadStep(x)
    PROVE  UploadInv'
BY PutSound, PutFailsSound, InsertSound, InsertFailsSound, DeleteNextSound, UploadEnds
   DEF UploadStep

\* Writes to no key of an upload do not touch it.
LEMMA UploadsKept ==
    ASSUME UploadInv, UNCHANGED <<upload, row>>,
           \A x \in Upload : objects \intersect KeySet(x) \subseteq objects'
    PROVE  UploadInv'
BY SoundKept DEF UploadInv

(***************************************************************************)
(* Ingestions.  An index that was once written is there from then on, torn *)
(* or, in S3, whole; an ingestion has chunk rows only after it wrote one.  *)
(***************************************************************************)
Store == [rows |-> row, kept |-> objects, cut |-> torn, local |-> LocalStore]

There(d, s) ==
    /\ Index(d) \in s.kept \union s.cut
    /\ ~s.local => Index(d) \in s.kept

Mid == {"normalizing", "indexing", "writing", "chunking", "completing", "failing"}

Searchable(i, d, chunked, s) ==
    /\ d \in Doc /\ s.rows[d] # NoRow /\ s.rows[d].content # "scanned"
    /\ There(d, s)
    /\ i \in chunked <=> s.rows[d].content = "text"

Indexed(i, g, n, chunked, s) ==
    /\ g \in [pc : {g.pc}, doc : {g.doc}, reply : {g.reply}]
    /\ n \in [doc : {n.doc}, status : {n.status}]
    /\ g.pc = "idle" => n.status = "absent" /\ i \notin chunked
    /\ g.pc \in Mid =>
           /\ n.doc = g.doc /\ n.status = "running"
           /\ g.doc \in Doc /\ s.rows[g.doc] # NoRow
    /\ g.pc \in {"normalizing", "indexing", "writing", "chunking"} => i \notin chunked
    /\ g.pc \in {"indexing", "writing", "chunking", "completing"} =>
           s.rows[g.doc].content # "scanned"
    /\ g.pc \in {"chunking", "completing"} => There(g.doc, s)
    /\ g.pc = "completing" => (i \in chunked <=> s.rows[g.doc].content = "text")
    /\ i \in chunked => n.doc \in Doc /\ There(n.doc, s)
    /\ n.status = "completed" => Searchable(i, n.doc, chunked, s)

IngestionInv ==
    /\ ingest = [i \in Ingestion |-> ingest[i]]
    /\ ingestion = [i \in Ingestion |-> ingestion[i]]
    /\ chunks \subseteq Ingestion
    /\ \A i \in Ingestion : Indexed(i, ingest[i], ingestion[i], chunks, Store)

\* Documents stay as they were stored, indexes stay where they are.
Grows(s, t) ==
    /\ \A d \in Doc : There(d, s) => There(d, t)
    /\ \A d \in Doc : s.rows[d] # NoRow => t.rows[d] = s.rows[d]

LEMMA StoreIs ==
    /\ Store.rows = row /\ Store.kept = objects /\ Store.cut = torn
    /\ Store.local = LocalStore
BY DEF Store

LEMMA StoreWillBe ==
    /\ (Store').rows = row' /\ (Store').kept = objects' /\ (Store').cut = torn'
    /\ (Store').local = LocalStore'
BY DEF Store

LEMMA IndexedKept ==
    ASSUME NEW i, NEW g, NEW n, NEW chunked, NEW more, NEW s, NEW t,
           Indexed(i, g, n, chunked, s), Grows(s, t), i \in chunked <=> i \in more
    PROVE  Indexed(i, g, n, more, t)
<1>1. g.pc \in Mid => /\ n.doc = g.doc /\ n.status = "running"
                      /\ g.doc \in Doc /\ t.rows[g.doc] = s.rows[g.doc]
                      /\ There(g.doc, s) => There(g.doc, t)
    BY DEF Indexed, Grows
<1>2. n.status = "completed" =>
          /\ Searchable(i, n.doc, chunked, s) /\ t.rows[n.doc] = s.rows[n.doc]
          /\ There(n.doc, s) => There(n.doc, t)
    BY DEF Indexed, Grows, Searchable
<1>3. n.status = "completed" => Searchable(i, n.doc, more, t)
    BY <1>2 DEF Searchable
<1>4. i \in more => n.doc \in Doc /\ There(n.doc, t)
    BY DEF Indexed, Grows
<1>5. {"indexing", "writing", "chunking", "completing"} \subseteq Mid
    BY DEF Mid
<1> QED BY <1>1, <1>3, <1>4, <1>5 DEF Indexed

LEMMA IngestionShape ==
    ASSUME IngestionInv, NEW i \in Ingestion
    PROVE  /\ Indexed(i, ingest[i], ingestion[i], chunks, Store)
           /\ ingestion = [ingestion EXCEPT ![i] = ingestion[i]]
BY DEF IngestionInv

LEMMA IngestionMoves ==
    ASSUME IngestionInv, NEW i \in Ingestion, NEW g, NEW n,
           ingest' = [ingest EXCEPT ![i] = g],
           ingestion' = [ingestion EXCEPT ![i] = n],
           chunks' \ {i} = chunks \ {i}, Grows(Store, Store'),
           Indexed(i, g, n, chunks', Store')
    PROVE  IngestionInv'
<1>1. ingest' = [j \in Ingestion |-> IF j = i THEN g ELSE ingest[j]]
    BY DEF IngestionInv
<1>2. ingestion' = [j \in Ingestion |-> IF j = i THEN n ELSE ingestion[j]]
    BY DEF IngestionInv
<1>3. ASSUME NEW j \in Ingestion
      PROVE  Indexed(j, ingest'[j], ingestion'[j], chunks', Store')
  <2>1. CASE j = i
    BY <1>1, <1>2, <2>1
  <2>2. CASE j # i
    <3>1. j \in chunks <=> j \in chunks'
      BY <2>2
    <3>2. Indexed(j, ingest[j], ingestion[j], chunks', Store')
      BY <3>1, IngestionShape, IndexedKept
    <3> QED BY <1>1, <1>2, <2>2, <3>2
  <2> QED BY <2>1, <2>2
<1>4. chunks' \subseteq Ingestion
    BY DEF IngestionInv
<1> QED BY <1>1, <1>2, <1>3, <1>4 DEF IngestionInv

LEMMA IngestionsKept ==
    ASSUME IngestionInv, Grows(Store, Store'), UNCHANGED <<ingestion, chunks, ingest>>
    PROVE  IngestionInv'
<1>1. \A i \in Ingestion : Indexed(i, ingest[i], ingestion[i], chunks, Store')
    BY IngestionShape, IndexedKept
<1> QED BY <1>1 DEF IngestionInv

LEMMA SameStore ==
    ASSUME UNCHANGED <<row, objects, torn, work>>
    PROVE  Store' = Store /\ Grows(Store, Store')
<1>1. Store' = Store
    BY DEF Store, LocalStore
<1> QED BY <1>1 DEF Grows

\* A thread at its next step, on the same row of knowledge_ingestions.
Going(g, pc) == [g EXCEPT !.pc = pc]

LEMMA GotoIs ==
    ASSUME IngestionInv, NEW i \in Ingestion, NEW pc
    PROVE  /\ IngestGoto(i, pc) => ingest' = [ingest EXCEPT ![i] = Going(ingest[i], pc)]
           /\ Going(ingest[i], pc).pc = pc /\ Going(ingest[i], pc).doc = ingest[i].doc
           /\ Going(ingest[i], pc) \in [pc : {Going(ingest[i], pc).pc},
                  doc : {Going(ingest[i], pc).doc}, reply : {Going(ingest[i], pc).reply}]
<1>1. ingest[i] \in [pc : {ingest[i].pc}, doc : {ingest[i].doc}, reply : {ingest[i].reply}]
    BY IngestionShape DEF Indexed
<1> QED BY <1>1 DEF Going, IngestGoto, IngestionInv

LEMMA BeginIngestionSound ==
    ASSUME IngestionInv, NEW i \in Ingestion, NEW d \in Doc, NEW header,
           BeginIngestion(i, d, header), work' = work
    PROVE  IngestionInv'
<1>0. ingest[i].pc = "idle" /\ chunks' = chunks
    BY DEF BeginIngestion
<1>1. Indexed(i, ingest[i], ingestion[i], chunks, Store)
    BY IngestionShape
<1>2. Store' = Store /\ Grows(Store, Store')
    BY SameStore DEF BeginIngestion, uploadVars
<1>3. ingestion[i].status = "absent" /\ i \notin chunks
    BY <1>0, <1>1 DEF Indexed
<1>4. CASE MayRead(header, d)
  <2> DEFINE g == [pc |-> "normalizing", doc |-> d, reply |-> 0]
             n == [doc |-> d, status |-> "running"]
  <2>1. ingest' = [ingest EXCEPT ![i] = g] /\ ingestion' = [ingestion EXCEPT ![i] = n]
    BY <1>4 DEF BeginIngestion, CreateIngestion
  <2>2. /\ g.pc = "normalizing" /\ g.doc = d
        /\ g \in [pc : {g.pc}, doc : {g.doc}, reply : {g.reply}]
        /\ n.doc = d /\ n.status = "running" /\ n \in [doc : {n.doc}, status : {n.status}]
    OBVIOUS
  <2>3. Store.rows[d] # NoRow
    BY <1>4, StoreIs DEF MayRead, Stored
  <2> HIDE DEF g, n
  <2>4. Indexed(i, g, n, chunks', Store')
    BY <1>0, <1>2, <1>3, <2>2, <2>3 DEF Indexed, Mid
  <2> QED BY <1>0, <1>2, <2>1, <2>4, IngestionMoves
<1>5. CASE ~MayRead(header, d)
  <2> DEFINE g == [ingest[i] EXCEPT !.pc = "answered", !.reply = 404]
  <2>1. ingest' = [ingest EXCEPT ![i] = g] /\ ingestion' = ingestion
    BY <1>5 DEF BeginIngestion, IngestReply, IngestionInv
  <2>2. /\ g.pc = "answered" /\ g \in [pc : {g.pc}, doc : {g.doc}, reply : {g.reply}]
    BY <1>1 DEF Indexed
  <2> HIDE DEF g
  <2>3. Indexed(i, g, ingestion[i], chunks', Store')
    BY <1>0, <1>1, <1>2, <1>3, <2>2 DEF Indexed, Mid
  <2> QED BY <1>0, <1>2, <2>1, <2>3, IngestionShape, IngestionMoves
<1> QED BY <1>4, <1>5

\* A step that leaves the row and the chunks of its ingestion.
LEMMA GoesOn ==
    ASSUME IngestionInv, NEW i \in Ingestion, NEW pc, IngestGoto(i, pc),
           UNCHANGED <<ingestion, chunks>>, Grows(Store, Store'),
           Indexed(i, Going(ingest[i], pc), ingestion[i], chunks, Store')
    PROVE  IngestionInv'
BY GotoIs, IngestionShape, IngestionMoves

LEMMA NormalizeSound ==
    ASSUME IngestionInv, NEW i \in Ingestion, Normalize(i), work' = work
    PROVE  IngestionInv'
<1> DEFINE g == Going(ingest[i], "indexing")
<1>0. ingest[i].pc = "normalizing" /\ row[ingest[i].doc].content # "scanned"
    BY DEF Normalize
<1>1. Indexed(i, ingest[i], ingestion[i], chunks, Store)
    BY IngestionShape
<1>2. Store' = Store /\ Grows(Store, Store')
    BY SameStore DEF Normalize, uploadVars
<1>3. g.pc = "indexing" /\ g.doc = ingest[i].doc
      /\ g \in [pc : {g.pc}, doc : {g.doc}, reply : {g.reply}]
    BY GotoIs
<1> HIDE DEF g
<1>4. Indexed(i, g, ingestion[i], chunks, Store')
    BY <1>0, <1>1, <1>2, <1>3, StoreIs DEF Indexed, Mid
<1> QED BY <1>2, <1>4, GoesOn DEF Normalize, g

LEMMA OpenIndexSound ==
    ASSUME IngestionInv, NEW i \in Ingestion, OpenIndex(i), work' = work
    PROVE  IngestionInv'
<1> DEFINE g == Going(ingest[i], "writing")
<1>0. /\ ingest[i].pc = "indexing" /\ LocalStore /\ LocalStore' = LocalStore
      /\ row' = row /\ objects' = objects \ {Index(ingest[i].doc)}
      /\ torn' = torn \union {Index(ingest[i].doc)}
    BY DEF OpenIndex, LocalStore
<1>1. Indexed(i, ingest[i], ingestion[i], chunks, Store)
    BY IngestionShape
<1>2. Grows(Store, Store')
    BY <1>0, StoreIs, StoreWillBe DEF Grows, There
<1>3. g.pc = "writing" /\ g.doc = ingest[i].doc
      /\ g \in [pc : {g.pc}, doc : {g.doc}, reply : {g.reply}]
    BY GotoIs
<1> HIDE DEF g
<1>4. Indexed(i, ingest[i], ingestion[i], chunks, Store')
    BY <1>1, <1>2, IndexedKept
<1>5. Indexed(i, g, ingestion[i], chunks, Store')
    BY <1>0, <1>3, <1>4 DEF Indexed, Mid
<1> QED BY <1>2, <1>5, GoesOn DEF OpenIndex, g

LEMMA WriteIndexSound ==
    ASSUME IngestionInv, NEW i \in Ingestion, WriteIndex(i), work' = work
    PROVE  IngestionInv'
<1> DEFINE g == Going(ingest[i], "chunking")
           key == Index(ingest[i].doc)
<1>0. /\ ingest[i].pc \in {"writing", "indexing"} /\ LocalStore' = LocalStore
      /\ row' = row /\ objects' = objects \union {key}
      /\ torn' = torn \ {key}
    BY DEF WriteIndex, Write, LocalStore
<1>1. Indexed(i, ingest[i], ingestion[i], chunks, Store)
    BY IngestionShape
<1>2. Grows(Store, Store') /\ There(ingest[i].doc, Store')
    BY <1>0, StoreIs, StoreWillBe DEF Grows, There
<1>3. g.pc = "chunking" /\ g.doc = ingest[i].doc
      /\ g \in [pc : {g.pc}, doc : {g.doc}, reply : {g.reply}]
    BY GotoIs
<1> HIDE DEF g
<1>4. Indexed(i, ingest[i], ingestion[i], chunks, Store')
    BY <1>1, <1>2, IndexedKept
<1>5. Indexed(i, g, ingestion[i], chunks, Store')
    BY <1>0, <1>2, <1>3, <1>4 DEF Indexed, Mid
<1> QED BY <1>2, <1>5, GoesOn DEF WriteIndex, g

LEMMA ReplaceChunksSound ==
    ASSUME IngestionInv, NEW i \in Ingestion, ReplaceChunks(i), work' = work
    PROVE  IngestionInv'
<1> DEFINE g == Going(ingest[i], "completing")
<1>0. /\ ingest[i].pc = "chunking" /\ chunks' = ChunkRows(i)
      /\ ingestion' = ingestion /\ IngestGoto(i, "completing")
    BY DEF ReplaceChunks
<1>1. Indexed(i, ingest[i], ingestion[i], chunks, Store)
    BY IngestionShape
<1>2. Store' = Store /\ Grows(Store, Store')
    BY SameStore DEF ReplaceChunks, uploadVars
<1>3. /\ g.pc = "completing" /\ g.doc = ingest[i].doc /\ ingest' = [ingest EXCEPT ![i] = g]
      /\ g \in [pc : {g.pc}, doc : {g.doc}, reply : {g.reply}]
    BY <1>0, GotoIs
<1> HIDE DEF g
<1>4. /\ i \in chunks' <=> Store.rows[ingest[i].doc].content = "text"
      /\ chunks' \ {i} = chunks \ {i}
    BY <1>0, StoreIs DEF ChunkRows
<1>5. Indexed(i, g, ingestion[i], chunks', Store')
    BY <1>0, <1>1, <1>2, <1>3, <1>4 DEF Indexed, Mid
<1> QED BY <1>0, <1>2, <1>3, <1>4, <1>5, IngestionShape, IngestionMoves

\* The row of an ingestion gets its last status.
LEMMA SettleSound ==
    ASSUME IngestionInv, NEW i \in Ingestion, NEW status, NEW reply,
           UpdateIngestionStatus(i, status), IngestReply(i, reply),
           UNCHANGED <<chunks, row, objects, torn, work>>,
           ingest[i].pc \in {"completing", "failing"},
           status = "completed" => ingest[i].pc = "completing"
    PROVE  IngestionInv'
<1> DEFINE g == [ingest[i] EXCEPT !.pc = "answered", !.reply = reply]
           n == [ingestion[i] EXCEPT !.status = status]
<1>1. Indexed(i, ingest[i], ingestion[i], chunks, Store)
    BY IngestionShape
<1>2. Store' = Store /\ Grows(Store, Store')
    BY SameStore
<1>3. ingest' = [ingest EXCEPT ![i] = g] /\ ingestion' = [ingestion EXCEPT ![i] = n]
    BY DEF UpdateIngestionStatus, IngestReply, IngestionInv
<1>4. /\ g.pc = "answered" /\ g \in [pc : {g.pc}, doc : {g.doc}, reply : {g.reply}]
      /\ n.doc = ingestion[i].doc /\ n.status = status
      /\ n \in [doc : {n.doc}, status : {n.status}]
    BY <1>1 DEF Indexed
<1> HIDE DEF g, n
<1>5. status = "completed" => Searchable(i, n.doc, chunks, Store)
    BY <1>1, <1>4 DEF Indexed, Mid, Searchable
<1>6. Indexed(i, g, n, chunks', Store')
    BY <1>1, <1>2, <1>4, <1>5 DEF Indexed, Mid
<1> QED BY <1>2, <1>3, <1>6, IngestionMoves

LEMMA StopsSound ==
    ASSUME IngestionInv, NEW i \in Ingestion,
           IngestionRaises(i) \/ FailUnrecorded(i), work' = work
    PROVE  IngestionInv'
<1>0. UNCHANGED <<chunks, row, objects, torn, ingestion>>
    BY DEF IngestionRaises, FailUnrecorded, uploadVars
<1>1. Indexed(i, ingest[i], ingestion[i], chunks, Store)
    BY IngestionShape
<1>2. Store' = Store /\ Grows(Store, Store')
    BY <1>0, SameStore
<1>3. CASE IngestionRaises(i)
  <2> DEFINE g == Going(ingest[i], "failing")
  <2>1. /\ g.pc = "failing" /\ g.doc = ingest[i].doc
        /\ g \in [pc : {g.pc}, doc : {g.doc}, reply : {g.reply}]
    BY GotoIs
  <2> HIDE DEF g
  <2>2. ingest[i].pc \in Mid
    BY <1>3 DEF IngestionRaises, Working, Mid
  <2>3. Indexed(i, g, ingestion[i], chunks, Store')
    BY <1>1, <1>2, <2>1, <2>2 DEF Indexed, Mid
  <2> QED BY <1>0, <1>2, <1>3, <2>3, GoesOn DEF IngestionRaises, g
<1>4. CASE FailUnrecorded(i)
  <2> DEFINE g == [ingest[i] EXCEPT !.pc = "unrecorded", !.reply = 500]
  <2>1. ingest' = [ingest EXCEPT ![i] = g] /\ ingest[i].pc = "failing"
    <3>1. ingest = [j \in Ingestion |-> ingest[j]]
      BY DEF IngestionInv
    <3>2. /\ ingest' = [ingest EXCEPT ![i].pc = "unrecorded", ![i].reply = 500]
          /\ ingest[i].pc = "failing"
      BY <1>4 DEF FailUnrecorded
    <3> QED BY <3>1, <3>2, ZenonT(30)
  <2>2. g.pc = "unrecorded" /\ g \in [pc : {g.pc}, doc : {g.doc}, reply : {g.reply}]
    BY <1>1 DEF Indexed
  <2> HIDE DEF g
  <2>3. Indexed(i, g, ingestion[i], chunks, Store')
    BY <1>1, <1>2, <2>1, <2>2 DEF Indexed, Mid
  <2> QED BY <1>0, <1>2, <2>1, <2>3, IngestionShape, IngestionMoves
<1> QED BY <1>3, <1>4

LEMMA IngestionStepSound ==
    ASSUME IngestionInv, NEW i \in Ingestion, IngestionStep(i), work' = work
    PROVE  IngestionInv'
<1>1. CASE Complete(i)
  <2>1. /\ UpdateIngestionStatus(i, "completed") /\ IngestReply(i, 200)
        /\ ingest[i].pc = "completing" /\ UNCHANGED <<chunks, row, objects, torn>>
    BY <1>1 DEF Complete, uploadVars
  <2> QED BY <2>1, SettleSound
<1>2. CASE Fail(i)
  <2>1. /\ UpdateIngestionStatus(i, "failed") /\ IngestReply(i, 500)
        /\ ingest[i].pc = "failing" /\ UNCHANGED <<chunks, row, objects, torn>>
    BY <1>2 DEF Fail, uploadVars
  <2> QED BY <2>1, SettleSound
<1> QED BY <1>1, <1>2, NormalizeSound, OpenIndexSound, WriteIndexSound,
           ReplaceChunksSound, StopsSound DEF IngestionStep

LEMMA IngestionDeath ==
    ASSUME IngestionInv, KnowledgeDies, UNCHANGED <<row, objects, torn, work>>
    PROVE  IngestionInv'
<1>1. Store' = Store
    BY SameStore
<1>2. ASSUME NEW i \in Ingestion
      PROVE  Indexed(i, Dead(ingest[i]), ingestion[i], chunks, Store)
  <2> DEFINE g == [ingest[i] EXCEPT !.pc = "lost"]
  <2>1. Indexed(i, ingest[i], ingestion[i], chunks, Store)
    BY IngestionShape
  <2>2. g.pc = "lost" /\ g \in [pc : {g.pc}, doc : {g.doc}, reply : {g.reply}]
    BY <2>1 DEF Indexed
  <2>3. Dead(ingest[i]) \in {ingest[i], g}
    BY DEF Dead
  <2> HIDE DEF g
  <2>4. Indexed(i, g, ingestion[i], chunks, Store)
    BY <2>1, <2>2 DEF Indexed, Mid
  <2> QED BY <2>1, <2>3, <2>4
<1> QED BY <1>1, <1>2 DEF KnowledgeDies, IngestionInv

(***************************************************************************)
(* Uploads and ingestions share the object store, not their keys.          *)
(***************************************************************************)
LEMMA RowsStay ==
    ASSUME UploadInv, NEW x \in Upload, work' = work,
           row' = row \/ (row[x] = NoRow /\ \E r : row' = [row EXCEPT ![x] = r]),
           \A d : (Index(d) \in objects <=> Index(d) \in objects')
               /\ (Index(d) \in torn <=> Index(d) \in torn')
    PROVE  Grows(Store, Store')
<1>1. \A d \in Doc : row[d] # NoRow => row'[d] = row[d]
    BY DEF UploadInv, Upload
<1>2. LocalStore' = LocalStore
    BY DEF LocalStore
<1> QED BY <1>1, <1>2, StoreIs, StoreWillBe DEF Grows, There

LEMMA UploadsGrow ==
    ASSUME UploadInv, NEW x \in Upload, UploadStep(x), work' = work
    PROVE  Grows(Store, Store')
<1>0. Sound(x, upload[x], row[x], objects)
    BY UploadShape
<1>1. ASSUME NEW key \in KeySet(x), row' = row,
             Write(key) \/ WriteFails(key) \/ Delete(key)
      PROVE  Grows(Store, Store')
  <2>1. \A d : Index(d) # key
    BY KeysApart
  <2>2. \A d : (Index(d) \in objects <=> Index(d) \in objects')
            /\ (Index(d) \in torn <=> Index(d) \in torn')
    BY <1>1, <2>1 DEF Write, WriteFails, Delete
  <2> QED BY <1>1, <2>2, RowsStay
<1>2. CASE Put(x) \/ PutFails(x)
  <2>1. upload[x].put + 1 \in 1..Len(Keys(x))
    BY <1>0, <1>2, KeysOf DEF Sound, Put, PutFails
  <2>2. Keys(x)[upload[x].put + 1] \in KeySet(x)
    BY <2>1, KeysAre
  <2> QED BY <1>1, <1>2, <2>2 DEF Put, PutFails
<1>3. CASE DeleteNext(x)
  <2>1. upload[x].put \in 1..Len(Keys(x)) /\ Len(Keys(x)) \in Nat
    BY <1>0, <1>3, KeysOf DEF Sound, DeleteNext
  <2>2. 1 + Len(Keys(x)) - upload[x].put \in 1..Len(Keys(x))
    BY <2>1
  <2>3. Keys(x)[1 + Len(Keys(x)) - upload[x].put] \in KeySet(x)
    BY <2>2, KeysAre
  <2> QED BY <1>1, <1>3, <2>3 DEF DeleteNext
<1>4. CASE Insert(x)
  <2>1. row[x] = NoRow
    BY <1>0, <1>4 DEF Sound, Insert
  <2> QED BY <1>4, <2>1, RowsStay DEF Insert
<1>5. CASE InsertFails(x) \/ DeleteFails(x) \/ Audit(x) \/ AuditFails(x)
    BY <1>5, SameStore DEF InsertFails, DeleteFails, Audit, AuditFails
<1> QED BY <1>2, <1>3, <1>4, <1>5 DEF UploadStep

LEMMA IngestionsSpare ==
    ASSUME UploadInv, NEW i \in Ingestion, IngestionStep(i)
    PROVE  UploadInv'
<1>1. \A x \in Upload : \A d : Index(d) \notin KeySet(x)
    BY KeysApart
<1>2. /\ UNCHANGED <<upload, row>>
      /\ objects' = objects \/ \E d : objects' \in {objects \union {Index(d)},
                                                    objects \ {Index(d)}}
    BY DEF IngestionStep, Normalize, OpenIndex, WriteIndex, Write, ReplaceChunks,
           Complete, IngestionRaises, Fail, FailUnrecorded, uploadVars
<1>3. \A x \in Upload : objects \intersect KeySet(x) \subseteq objects'
    BY <1>1, <1>2
<1> QED BY <1>2, <1>3, UploadsKept

StoredInv == UploadInv /\ IngestionInv

LEMMA StoredStays ==
    ASSUME StoredInv, UNCHANGED <<uploadVars, ingestion, chunks, ingest, work>>
    PROVE  StoredInv'
<1>1. UploadInv'
    BY DEF StoredInv, UploadInv, uploadVars
<1>2. IngestionInv'
    BY SameStore, IngestionsKept DEF StoredInv, uploadVars
<1> QED BY <1>1, <1>2 DEF StoredInv

LEMMA StoredStep == StoredInv /\ [Next]_vars => StoredInv'
<1> SUFFICES ASSUME StoredInv, [Next]_vars PROVE StoredInv'
    OBVIOUS
<1>0. UploadInv /\ IngestionInv
    BY DEF StoredInv
<1>1. CASE Booting \/ Operating
    BY <1>1, StoredStays DEF Booting, Operating, knowledgeVars
<1>2. CASE Crash
  <2>1. UploadsDie /\ KnowledgeDies /\ UNCHANGED <<row, objects, torn, work>>
    BY <1>2 DEF Crash, UploadsDie
  <2> QED BY <1>0, <2>1, DeathSound, IngestionDeath DEF StoredInv
<1>3. ASSUME NEW x \in Upload, Uploading(x) PROVE StoredInv'
  <2>0. UNCHANGED <<ingestion, chunks, ingest, work>>
    BY <1>3 DEF Uploading, knowledgeVars
  <2>1. CASE UploadStep(x)
    BY <1>0, <2>0, <2>1, UploadStepSound, UploadsGrow, IngestionsKept DEF StoredInv
  <2>2. ASSUME NEW header \in Header, NEW content \in Content,
               BeginUpload(x, header, content)
        PROVE  StoredInv'
    <3>1. UNCHANGED <<row, objects, torn>>
      BY <2>2 DEF BeginUpload
    <3> QED BY <1>0, <2>0, <2>2, <3>1, BeginUploadSound, SameStore, IngestionsKept
            DEF StoredInv
  <2> QED BY <1>3, <2>1, <2>2 DEF Uploading
<1>4. ASSUME NEW i \in Ingestion, Ingesting(i) PROVE StoredInv'
  <2>0. work' = work
    BY <1>4 DEF Ingesting
  <2>1. CASE IngestionStep(i)
    BY <1>0, <2>0, <2>1, IngestionStepSound, IngestionsSpare DEF StoredInv
  <2>2. ASSUME NEW d \in Doc, NEW header \in Header, BeginIngestion(i, d, header)
        PROVE  StoredInv'
    <3>1. UploadInv'
      BY <1>0, <2>2 DEF BeginIngestion, uploadVars, UploadInv
    <3>2. IngestionInv'
      BY <1>0, <2>0, <2>2, BeginIngestionSound
    <3> QED BY <3>1, <3>2 DEF StoredInv
  <2> QED BY <1>4, <2>1, <2>2 DEF Ingesting
<1>5. ASSUME NEW q \in Query, Querying(q) PROVE StoredInv'
  <2>1. UNCHANGED <<uploadVars, ingestion, chunks, ingest, work>>
    BY <1>5 DEF Querying, QueryStep, BeginQuery, ListIndex, ReadIndex, Search,
                ResolveAttached, FallBack, QueryFails
  <2> QED BY <2>1, StoredStays
<1>6. CASE UNCHANGED vars
    BY <1>6, StoredStays DEF vars, knowledgeVars
<1> QED BY <1>1, <1>2, <1>3, <1>4, <1>5, <1>6 DEF Next

LEMMA StoredInit == Init => StoredInv
<1> SUFFICES ASSUME Init PROVE StoredInv
    OBVIOUS
<1>1. /\ objects = {} /\ row = [x \in Upload |-> NoRow]
      /\ upload = [x \in Upload |-> NoUpload]
    BY DEF Init, UploadInit
<1>2. /\ ingestion = [i \in Ingestion |-> NoIngestion] /\ chunks = {}
      /\ ingest = [i \in Ingestion |-> NoIngest]
    BY DEF Init, KnowledgeInit
<1>3. \A x \in Upload : Sound(x, NoUpload, NoRow, objects)
    BY DEF Sound, NoUpload
<1>4. UploadInv
    BY <1>1, <1>3 DEF UploadInv
<1>5. \A i \in Ingestion : Indexed(i, NoIngest, NoIngestion, {}, Store)
    BY DEF Indexed, NoIngest, NoIngestion, Mid
<1>6. IngestionInv
    BY <1>2, <1>5 DEF IngestionInv
<1> QED BY <1>4, <1>6 DEF StoredInv

LEMMA StoredMeans == StoredInv => StoredIsThere
<1> SUFFICES ASSUME StoredInv PROVE StoredIsThere
    OBVIOUS
<1>0. UploadInv /\ IngestionInv
    BY DEF StoredInv
<1>1. ASSUME NEW x \in Upload
      PROVE  /\ Stored(x) => KeySet(x) \subseteq objects
             /\ upload[x].status = 200 => Stored(x) /\ Readable(upload[x].row.by, x)
  <2>1. Sound(x, upload[x], row[x], objects)
    BY <1>0, UploadShape
  <2>2. Stored(x) => KeySet(x) \subseteq objects /\ row[x] = upload[x].row
    BY <2>1 DEF Sound, Stored
  <2>3. upload[x].status = 200 => Stored(x)
    BY <2>1 DEF Sound, Stored
  <2>4. x \in Image => <<"image", x>> \in KeySet(x)
    BY KeysAre, UploadAssumption
  <2>5. Stored(x) => Readable(upload[x].row.by, x)
    BY <2>2, <2>4 DEF Readable, LoadImage, MayRead, OwnerSees
  <2> QED BY <2>2, <2>3, <2>5
<1>2. \A i \in Ingestion : Indexed(i, ingest[i], ingestion[i], chunks, Store)
    BY <1>0, IngestionShape
<1>3. ASSUME NEW i \in Ingestion, ingestion[i].status = "completed"
      PROVE  LET d == ingestion[i].doc IN
             /\ row[d].content # "scanned"
             /\ i \in chunks <=> row[d].content = "text"
             /\ Index(d) \in objects \union torn
    BY <1>2, <1>3, StoreIs DEF Indexed, Searchable, There
<1>4. ASSUME NEW d \in Doc, UploadStatus(d) = "indexed"
      PROVE  /\ Index(d) \in objects \union torn
             /\ ~LocalStore => Index(d) \in objects
  <2>1. PICK i \in chunks : ingestion[i].doc = d
    BY <1>4 DEF UploadStatus, ChunksOf
  <2>2. i \in Ingestion
    BY <1>0 DEF IngestionInv
  <2>3. There(d, Store)
    BY <1>2, <2>1, <2>2 DEF Indexed
  <2> QED BY <2>3, StoreIs DEF There
<1> QED BY <1>1, <1>3, <1>4 DEF StoredIsThere, UploadsAreWhole, IndexedIsSearchable

(***************************************************************************)
(* What is reported stored, completed or indexed can be read and searched, *)
(* for any number of uploads and ingestions that race, fail anywhere or    *)
(* are cut short by the death of the process.                              *)
(***************************************************************************)
THEOREM StoredDataIsThere == Spec => []StoredIsThere
BY StoredInit, StoredStep, StoredMeans, PTL DEF Spec

(***************************************************************************)
(* Starts.  The statements of the scripts, one by one.                     *)
(***************************************************************************)
LEMMA ScriptsAre ==
    /\ Len(Scripts) = 8 /\ Releases = 1..8
    /\ Scripts[1] = LedgerTable /\ Scripts[2] = CoreTables
    /\ Scripts[3] = ConversationUsers /\ Scripts[4] = KnowledgeTables
    /\ Scripts[5] = TaskTable /\ Scripts[6] = TaskSources
    /\ Scripts[7] = TaskStatuses /\ Scripts[8] = StorageKeys
BY DEF Scripts, Releases

LEMMA StatementsAre ==
    /\ Len(LedgerTable) = 1 /\ LedgerTable[1] = Create(Ledger, {"id"})
    /\ Len(CoreTables) = 1 /\ CoreTables[1] = Create("conversations", {"turns"})
    /\ Len(ConversationUsers) = 1
    /\ ConversationUsers[1] = Add("conversations", "user_name")
    /\ Len(KnowledgeTables) = 1
    /\ KnowledgeTables[1] = Create("knowledge_documents", {"id"})
    /\ Len(TaskTable) = 1 /\ TaskTable[1] = Create(Tasks, {"prompt"})
    /\ Len(TaskSources) = 3 /\ TaskSources[1] = Add(Tasks, "source_ids")
    /\ TaskSources[2] = Add(Tasks, "auth_mode")
    /\ TaskSources[3] = Backfill(Tasks, "source_ids")
    /\ Len(TaskStatuses) = 4 /\ TaskStatuses[1] = Create(TasksV2, TaskColumns)
    /\ TaskStatuses[2] = Copy(TaskColumns) /\ TaskStatuses[3] = Drop(Tasks)
    /\ TaskStatuses[4] = Rename
    /\ Len(StorageKeys) = 2 /\ StorageKeys[1] = Add("knowledge_documents", "storage_key")
    /\ StorageKeys[2] = Add("conversations", "storage_key")
BY DEF LedgerTable, CoreTables, ConversationUsers, KnowledgeTables, TaskTable,
       TaskSources, TaskStatuses, StorageKeys

LEMMA ScriptLengths ==
    ASSUME NEW s \in 1..8
    PROVE  /\ s = 6 => Len(Scripts[s]) = 3
           /\ s = 7 => Len(Scripts[s]) = 4
           /\ s = 8 => Len(Scripts[s]) = 2
           /\ s \notin {6, 7, 8} => Len(Scripts[s]) = 1
           /\ DOMAIN Scripts[s] = 1..Len(Scripts[s])
           /\ Len(Scripts[s]) \in Nat /\ 1 <= Len(Scripts[s])
<1>1. /\ DOMAIN LedgerTable = 1..1 /\ DOMAIN CoreTables = 1..1
      /\ DOMAIN ConversationUsers = 1..1 /\ DOMAIN KnowledgeTables = 1..1
      /\ DOMAIN TaskTable = 1..1 /\ DOMAIN TaskSources = 1..3
      /\ DOMAIN TaskStatuses = 1..4 /\ DOMAIN StorageKeys = 1..2
    BY DEF LedgerTable, CoreTables, ConversationUsers, KnowledgeTables, TaskTable,
           TaskSources, TaskStatuses, StorageKeys
<1>2. CASE s = 1
    BY <1>1, <1>2, ScriptsAre, StatementsAre
<1>3. CASE s = 2
    BY <1>1, <1>3, ScriptsAre, StatementsAre
<1>4. CASE s = 3
    BY <1>1, <1>4, ScriptsAre, StatementsAre
<1>5. CASE s = 4
    BY <1>1, <1>5, ScriptsAre, StatementsAre
<1>6. CASE s = 5
    BY <1>1, <1>6, ScriptsAre, StatementsAre
<1>7. CASE s = 6
    BY <1>1, <1>7, ScriptsAre, StatementsAre
<1>8. CASE s = 7
    BY <1>1, <1>8, ScriptsAre, StatementsAre
<1>9. CASE s = 8
    BY <1>1, <1>9, ScriptsAre, StatementsAre
<1> QED BY <1>2, <1>3, <1>4, <1>5, <1>6, <1>7, <1>8, <1>9

LEMMA StatementIs ==
    ASSUME NEW s \in 1..8, NEW a \in 1..Len(Scripts[s])
    PROVE  \/ s = 1 /\ a = 1 /\ Scripts[s][a] = Create(Ledger, {"id"})
           \/ s = 2 /\ a = 1 /\ Scripts[s][a] = Create("conversations", {"turns"})
           \/ s = 3 /\ a = 1 /\ Scripts[s][a] = Add("conversations", "user_name")
           \/ s = 4 /\ a = 1 /\ Scripts[s][a] = Create("knowledge_documents", {"id"})
           \/ s = 5 /\ a = 1 /\ Scripts[s][a] = Create(Tasks, {"prompt"})
           \/ s = 6 /\ a = 1 /\ Scripts[s][a] = Add(Tasks, "source_ids")
           \/ s = 6 /\ a = 2 /\ Scripts[s][a] = Add(Tasks, "auth_mode")
           \/ s = 6 /\ a = 3 /\ Scripts[s][a] = Backfill(Tasks, "source_ids")
           \/ s = 7 /\ a = 1 /\ Scripts[s][a] = Create(TasksV2, TaskColumns)
           \/ s = 7 /\ a = 2 /\ Scripts[s][a] = Copy(TaskColumns)
           \/ s = 7 /\ a = 3 /\ Scripts[s][a] = Drop(Tasks)
           \/ s = 7 /\ a = 4 /\ Scripts[s][a] = Rename
           \/ s = 8 /\ a = 1 /\ Scripts[s][a] = Add("knowledge_documents", "storage_key")
           \/ s = 8 /\ a = 2 /\ Scripts[s][a] = Add("conversations", "storage_key")
<1>1. CASE s = 6
  <2>1. a \in 1..3
    BY <1>1, ScriptsAre, StatementsAre
  <2> QED BY <1>1, <2>1, ScriptsAre, StatementsAre
<1>2. CASE s = 7
  <2>1. a \in 1..4
    BY <1>2, ScriptsAre, StatementsAre
  <2> QED BY <1>2, <2>1, ScriptsAre, StatementsAre
<1>3. CASE s = 8
  <2>1. a \in 1..2
    BY <1>3, ScriptsAre, StatementsAre
  <2> QED BY <1>3, <2>1, ScriptsAre, StatementsAre
<1>4. CASE s \in 1..5
  <2>0. Len(Scripts[s]) = 1
    <3>1. s \notin {6, 7, 8}
      BY <1>4
    <3> QED BY <3>1, ScriptLengths
  <2>1. a = 1
    BY <2>0
  <2>2. s = 1 \/ s = 2 \/ s = 3 \/ s = 4 \/ s = 5
    BY <1>4
  <2> QED BY <2>1, <2>2, ScriptsAre, StatementsAre
<1> QED BY <1>1, <1>2, <1>3, <1>4

(***************************************************************************)
(* Tasks.  The rebuild of workbench_tasks drops the old table only right   *)
(* after it copied its rows, in the same start.                            *)
(***************************************************************************)
IsAt(b) ==
    /\ b.phase \in {"running", "recording"} => b.script \in 1..8
    /\ b.phase = "running" => b.at \in 1..Len(Scripts[b.script])

Copied(b, tasks, copies) ==
    b.phase = "running" /\ b.script = 7 =>
        /\ b.at = 3 => tasks \subseteq copies
        /\ b.at = 4 => tasks = {}

TaskInv ==
    /\ IsAt(boot)
    /\ release \in 1..8
    /\ rows = [t \in {Tasks, TasksV2} |-> rows[t]]
    /\ Copied(boot, rows[Tasks], rows[TasksV2])

LEMMA AtIs ==
    ASSUME NEW s \in 1..8, NEW a \in Nat, a >= 1
    PROVE  /\ IsAt(At(s, a))
           /\ a > Len(Scripts[s]) => At(s, a).phase = "recording" /\ At(s, a).script = s
           /\ a <= Len(Scripts[s]) => /\ At(s, a).phase = "running"
                                      /\ At(s, a).script = s /\ At(s, a).at = a
<1>1. Len(Scripts[s]) \in Nat
    BY ScriptLengths
<1>2. CASE a > Len(Scripts[s])
    BY <1>1, <1>2 DEF At, IsAt
<1>3. CASE a <= Len(Scripts[s])
    BY <1>1, <1>3 DEF At, IsAt
<1> QED BY <1>1, <1>2, <1>3

LEMMA PhaseIs ==
    ASSUME NEW phase
    PROVE  Phase(phase).phase = phase
BY DEF Phase

\* The least of them is the one First chooses.
LEMMA FirstIs ==
    ASSUME NEW S, S \subseteq Nat, S # {}
    PROVE  First(S) \in S /\ \A y \in S : First(S) <= y
<1>1. \E x \in S : \A y \in S : ~ (<<y, x>> \in OpToRel(<, Nat))
    BY NatLessThanWellFounded, WFMin
<1>2. PICK x \in S : \A y \in S : ~ (<<y, x>> \in OpToRel(<, Nat))
    BY <1>1
<1>3. \A y \in S : x <= y
  <2> SUFFICES ASSUME NEW y \in S, ~ (x <= y) PROVE FALSE
    OBVIOUS
  <2>1. x \in Nat /\ y \in Nat /\ y < x
    OBVIOUS
  <2>2. <<y, x>> \in OpToRel(<, Nat)
    BY <2>1 DEF OpToRel
  <2> QED BY <1>2, <2>2
<1> QED BY <1>2, <1>3 DEF First

LEMMA UnsettledIs ==
    ASSUME TaskInv, Unsettled # {}
    PROVE  /\ First(Unsettled) \in Unsettled /\ First(Unsettled) \in 1..8
           /\ \A y \in Unsettled : First(Unsettled) <= y
<1>1. Unsettled \subseteq 1..8 /\ Unsettled \subseteq Nat
    BY DEF TaskInv, Unsettled
<1> QED BY <1>1, FirstIs

LEMMA CheckGoes ==
    ASSUME CheckLedger
    PROVE  \/ boot' = Phase("serving") /\ Unsettled = {}
           \/ boot' = Phase("refused") /\ Unsettled # {}
           \/ /\ Unsettled # {} /\ ~Recorded(First(Unsettled))
              /\ boot' = At(First(Unsettled), 1)
BY DEF CheckLedger

LEMMA CheckTasks ==
    ASSUME TaskInv, CheckLedger
    PROVE  TaskInv'
<1>1. UNCHANGED <<rows, release>>
    BY DEF CheckLedger
<1>2. CASE boot' \in {Phase("serving"), Phase("refused")}
  <2>1. boot'.phase \in {"serving", "refused"}
    BY <1>2, PhaseIs
  <2> QED BY <1>1, <2>1 DEF TaskInv, IsAt, Copied
<1>3. CASE Unsettled # {} /\ boot' = At(First(Unsettled), 1)
  <2> DEFINE s == First(Unsettled)
  <2>1. s \in 1..8
    BY <1>3, UnsettledIs
  <2>2. boot' = At(s, 1)
    BY <1>3
  <2> HIDE DEF s
  <2>3. IsAt(At(s, 1)) /\ At(s, 1).at = 1
    <3>1. 1 <= Len(Scripts[s])
      BY <2>1, ScriptLengths
    <3> QED BY <2>1, <3>1, AtIs
  <2> QED BY <1>1, <2>2, <2>3 DEF TaskInv, Copied
<1> QED BY <1>2, <1>3, CheckGoes

\* Where a statement was executed, the start goes on to the next one.
LEMMA ExecuteGoes ==
    ASSUME TaskInv, Execute
    PROVE  /\ boot.script \in 1..8 /\ boot.at \in 1..Len(Scripts[boot.script])
           /\ Len(Scripts[boot.script]) \in Nat
           /\ IsAt(boot')
           /\ \/ /\ boot.at < Len(Scripts[boot.script])
                 /\ boot'.phase = "running" /\ boot'.script = boot.script
                 /\ boot'.at = boot.at + 1
              \/ /\ boot.at = Len(Scripts[boot.script])
                 /\ boot'.phase = "recording" /\ boot'.script = boot.script
<1> DEFINE s == boot.script
           a == boot.at
<1>1. s \in 1..8 /\ a \in 1..Len(Scripts[s])
    BY DEF TaskInv, IsAt, Execute
<1>2. boot' = At(s, a + 1)
    BY DEF Execute
<1> HIDE DEF s, a
<1>3. Len(Scripts[s]) \in Nat
    BY <1>1, ScriptLengths
<1>4. a \in Nat /\ a + 1 \in Nat /\ a + 1 >= 1 /\ a <= Len(Scripts[s])
    BY <1>1, <1>3
<1>5. CASE a < Len(Scripts[s])
  <2>1. a + 1 <= Len(Scripts[s])
    BY <1>3, <1>4, <1>5
  <2>2. /\ IsAt(boot') /\ boot'.phase = "running" /\ boot'.script = s
        /\ boot'.at = a + 1
    BY <1>1, <1>2, <1>4, <2>1, AtIs
  <2> QED BY <1>1, <1>3, <1>5, <2>2 DEF s, a
<1>6. CASE a = Len(Scripts[s])
  <2>1. a + 1 > Len(Scripts[s])
    BY <1>3, <1>4, <1>6
  <2>2. IsAt(boot') /\ boot'.phase = "recording" /\ boot'.script = s
    BY <1>1, <1>2, <1>4, <2>1, AtIs
  <2> QED BY <1>1, <1>3, <1>6, <2>2 DEF s, a
<1> QED BY <1>3, <1>4, <1>5, <1>6

\* Only the rebuild of workbench_tasks moves rows.
LEMMA RebuildIsLast ==
    ASSUME NEW s \in 1..8, NEW a \in 1..Len(Scripts[s])
    PROVE  \/ Scripts[s][a].op \in {"create", "add", "update"}
           \/ s = 7 /\ a = 2 /\ Scripts[s][a] = Copy(TaskColumns)
           \/ s = 7 /\ a = 3 /\ Scripts[s][a] = Drop(Tasks)
           \/ s = 7 /\ a = 4 /\ Scripts[s][a] = Rename
<1>1. CASE s = 7
  <2> DEFINE it == Scripts[s][a]
  <2>1. \/ it = Create(TasksV2, TaskColumns)
        \/ a = 2 /\ it = Copy(TaskColumns)
        \/ a = 3 /\ it = Drop(Tasks)
        \/ a = 4 /\ it = Rename
    BY <1>1, StatementIs
  <2> HIDE DEF it
  <2>2. it = Create(TasksV2, TaskColumns) => it.op = "create"
    BY DEF Create
  <2>3. \/ it.op \in {"create", "add", "update"}
        \/ a = 2 /\ it = Copy(TaskColumns)
        \/ a = 3 /\ it = Drop(Tasks)
        \/ a = 4 /\ it = Rename
    BY <2>1, <2>2
  <2> QED BY <1>1, <2>3 DEF it
<1>2. CASE s # 7
  <2> DEFINE it == Scripts[s][a]
  <2>1. \/ \E t, c : it = Create(t, c)
        \/ \E t, c : it = Add(t, c)
        \/ \E t, c : it = Backfill(t, c)
    BY <1>2, StatementIs, SMTT(60)
  <2> HIDE DEF it
  <2>2. /\ \A t, c : Create(t, c).op = "create"
        /\ \A t, c : Add(t, c).op = "add"
        /\ \A t, c : Backfill(t, c).op = "update"
    BY DEF Create, Add, Backfill
  <2>3. it.op \in {"create", "add", "update"}
    BY <2>1, <2>2
  <2> QED BY <2>3 DEF it
<1> QED BY <1>1, <1>2

LEMMA RowsGo ==
    ASSUME TaskInv, Execute
    PROVE  /\ Statement.op \in {"create", "add", "update"} => rows' = rows
           /\ Statement = Copy(TaskColumns) =>
                  /\ boot.script = 7 /\ boot.at = 2
                  /\ rows' = [rows EXCEPT ![TasksV2] = @ \union rows[Tasks]]
           /\ Statement = Drop(Tasks) =>
                  /\ boot.script = 7 /\ boot.at = 3 /\ rows' = [rows EXCEPT ![Tasks] = {}]
           /\ Statement = Rename =>
                  /\ boot.script = 7 /\ boot.at = 4
                  /\ rows' = [rows EXCEPT ![Tasks] = rows[TasksV2], ![TasksV2] = {}]
           /\ \/ Statement.op \in {"create", "add", "update"}
              \/ Statement = Copy(TaskColumns)
              \/ Statement = Drop(Tasks)
              \/ Statement = Rename
<1>1. boot.script \in 1..8 /\ boot.at \in 1..Len(Scripts[boot.script])
    BY ExecuteGoes
<1>2. rows' = RowsAfter(Statement)
    BY DEF Execute
<1>3. /\ Copy(TaskColumns).op = "copy" /\ Drop(Tasks).op = "drop"
      /\ Drop(Tasks).table = Tasks /\ Rename.op = "rename"
    BY DEF Copy, Drop, Rename
<1>4. \/ Statement.op \in {"create", "add", "update"}
      \/ boot.script = 7 /\ boot.at = 2 /\ Statement = Copy(TaskColumns)
      \/ boot.script = 7 /\ boot.at = 3 /\ Statement = Drop(Tasks)
      \/ boot.script = 7 /\ boot.at = 4 /\ Statement = Rename
    BY <1>1, RebuildIsLast DEF Statement
<1>5. Statement.op \in {"create", "add", "update"} => rows' = rows
    BY <1>2 DEF RowsAfter
<1>6. Statement = Copy(TaskColumns) =>
          rows' = [rows EXCEPT ![TasksV2] = @ \union rows[Tasks]]
    BY <1>2, <1>3 DEF RowsAfter
<1>7. Statement = Drop(Tasks) => rows' = [rows EXCEPT ![Tasks] = {}]
    BY <1>2, <1>3 DEF RowsAfter
<1>8. Statement = Rename =>
          rows' = [rows EXCEPT ![Tasks] = rows[TasksV2], ![TasksV2] = {}]
    BY <1>2, <1>3 DEF RowsAfter
<1> QED BY <1>3, <1>4, <1>5, <1>6, <1>7, <1>8

TasksStay == rows[Tasks] \union rows[TasksV2] \subseteq rows'[Tasks] \union rows'[TasksV2]

LEMMA ExecuteTasks ==
    ASSUME TaskInv, Execute
    PROVE  TaskInv' /\ TasksStay
<1>0. /\ release' = release /\ release \in 1..8
      /\ rows = [t \in {Tasks, TasksV2} |-> rows[t]] /\ boot.phase = "running"
      /\ Copied(boot, rows[Tasks], rows[TasksV2])
    BY DEF Execute, TaskInv
<1>1. Tasks # TasksV2
    BY DEF Tasks, TasksV2
<1>2. IsAt(boot')
    BY ExecuteGoes
<1>3. boot'.phase = "running" =>
          /\ boot'.script = boot.script /\ boot'.at = boot.at + 1 /\ boot.at \in Nat
          /\ boot.at < Len(Scripts[boot.script])
    BY ExecuteGoes
<1>4. CASE Statement.op \in {"create", "add", "update"}
  <2>1. rows' = rows
    BY <1>4, RowsGo
  <2>2. ASSUME boot'.phase = "running", boot'.script = 7, boot'.at \in {3, 4} PROVE FALSE
    <3>1. boot.script = 7 /\ boot.at \in {2, 3}
      BY <1>3, <2>2
    <3>2. Statement \in {Copy(TaskColumns), Drop(Tasks)}
      BY <3>1, ScriptsAre, StatementsAre DEF Statement
    <3> QED BY <1>4, <3>2 DEF Copy, Drop
  <2> QED BY <1>0, <1>2, <2>1, <2>2 DEF TaskInv, Copied, TasksStay
<1>5. CASE Statement = Copy(TaskColumns)
  <2>1. rows'[Tasks] = rows[Tasks] /\ rows'[TasksV2] = rows[TasksV2] \union rows[Tasks]
    BY <1>0, <1>1, <1>5, RowsGo
  <2>2. rows' = [t \in {Tasks, TasksV2} |-> rows'[t]]
    BY <1>0, <1>5, RowsGo
  <2>3. boot'.phase = "running" => boot'.at = 3
    BY <1>3, <1>5, RowsGo
  <2> QED BY <1>0, <1>2, <2>1, <2>2, <2>3 DEF TaskInv, Copied, TasksStay
<1>6. CASE Statement = Drop(Tasks)
  <2>1. rows'[Tasks] = {} /\ rows'[TasksV2] = rows[TasksV2]
    BY <1>0, <1>1, <1>6, RowsGo
  <2>2. rows' = [t \in {Tasks, TasksV2} |-> rows'[t]]
    BY <1>0, <1>6, RowsGo
  <2>3. boot'.phase = "running" => boot'.at = 4
    BY <1>3, <1>6, RowsGo
  <2>4. rows[Tasks] \subseteq rows[TasksV2]
    BY <1>0, <1>6, RowsGo DEF Copied
  <2> QED BY <1>0, <1>2, <2>1, <2>2, <2>3, <2>4 DEF TaskInv, Copied, TasksStay
<1>7. CASE Statement = Rename
  <2>1. rows'[Tasks] = rows[TasksV2] /\ rows'[TasksV2] = {}
    BY <1>0, <1>1, <1>7, RowsGo
  <2>2. rows' = [t \in {Tasks, TasksV2} |-> rows'[t]]
    BY <1>0, <1>7, RowsGo
  <2>3. boot'.phase # "running"
    <3>1. boot.script = 7 /\ boot.at = 4
      BY <1>7, RowsGo
    <3>2. Len(Scripts[boot.script]) = 4
      BY <3>1, ExecuteGoes, ScriptLengths
    <3>3. ~(boot.at < Len(Scripts[boot.script]))
      BY <3>1, <3>2
    <3> QED BY <1>3, <3>3
  <2>4. rows[Tasks] = {}
    BY <1>0, <1>7, RowsGo DEF Copied
  <2> QED BY <1>0, <1>2, <2>1, <2>2, <2>3, <2>4 DEF TaskInv, Copied, TasksStay
<1> QED BY <1>4, <1>5, <1>6, <1>7, RowsGo

\* Whatever else starts, stops or writes.
LEMMA TaskStep == TaskInv /\ [Next]_vars => TaskInv' /\ TasksStay
<1> SUFFICES ASSUME TaskInv, [Next]_vars PROVE TaskInv' /\ TasksStay
    OBVIOUS
<1>0. rows = [t \in {Tasks, TasksV2} |-> rows[t]] /\ Tasks # TasksV2
    BY DEF TaskInv, Tasks, TasksV2
<1>1. ASSUME rows' = rows, release' \in 1..8,
             boot'.phase \notin {"running", "recording"} \/ boot' = boot
      PROVE  TaskInv' /\ TasksStay
    BY <1>1 DEF TaskInv, IsAt, Copied, TasksStay
<1>2. CASE Execute
    BY <1>2, ExecuteTasks
<1>3. CASE CheckLedger
    BY <1>3, CheckTasks DEF CheckLedger, TasksStay
<1>4. CASE TreatAsApplied
  <2> DEFINE s == boot.script
  <2>1. s \in 1..8 /\ boot' = At(s, Len(Scripts[s]) + 1)
    BY <1>4 DEF TreatAsApplied, TaskInv, IsAt
  <2> HIDE DEF s
  <2>2. Len(Scripts[s]) \in Nat
    BY <2>1, ScriptLengths
  <2>3. Len(Scripts[s]) + 1 \in Nat /\ Len(Scripts[s]) + 1 >= 1
        /\ Len(Scripts[s]) + 1 > Len(Scripts[s])
    BY <2>2
  <2>4. IsAt(boot') /\ boot'.phase = "recording"
    BY <2>1, <2>3, AtIs
  <2> QED BY <1>4, <2>4 DEF TreatAsApplied, TaskInv, Copied, TasksStay
<1>5. CASE Start \/ RefuseToStart \/ Record \/ StatementFails
    BY <1>1, <1>5, PhaseIs DEF Start, RefuseToStart, Record, StatementFails, TaskInv
<1>6. CASE Die
    BY <1>1, <1>6, PhaseIs DEF Die, TaskInv
<1>7. ASSUME NEW r \in Releases, Deploy(r) \/ Edit(r) PROVE TaskInv' /\ TasksStay
    BY <1>1, <1>7, ScriptsAre DEF Deploy, Edit, TaskInv
<1>8. ASSUME NEW t \in Task, AddTask(t) PROVE TaskInv' /\ TasksStay
  <2>1. boot' = boot /\ boot.phase = "serving" /\ release' = release
    BY <1>8 DEF AddTask
  <2>2. rows' = [rows EXCEPT ![Tasks] = @ \union {t}]
    BY <1>8 DEF AddTask
  <2>3. /\ rows'[Tasks] = rows[Tasks] \union {t} /\ rows'[TasksV2] = rows[TasksV2]
        /\ rows' = [x \in {Tasks, TasksV2} |-> rows'[x]]
    BY <1>0, <2>2
  <2> QED BY <2>1, <2>3 DEF TaskInv, IsAt, Copied, TasksStay
<1>9. CASE UNCHANGED migrationVars
    BY <1>1, <1>9 DEF migrationVars, TaskInv
<1>10. CASE Booting
    BY <1>2, <1>3, <1>4, <1>5, <1>10 DEF Booting
<1>11. CASE Operating
    BY <1>7, <1>8, <1>11 DEF Operating
<1>12. CASE Crash
    BY <1>6, <1>12 DEF Crash
<1>13. CASE \/ \E x \in Upload : Uploading(x)
            \/ \E i \in Ingestion : Ingesting(i)
            \/ \E q \in Query : Querying(q)
    BY <1>9, <1>13 DEF Uploading, Ingesting, Querying
<1>14. CASE UNCHANGED vars
    BY <1>9, <1>14 DEF vars
<1> QED BY <1>10, <1>11, <1>12, <1>13, <1>14 DEF Next

(***************************************************************************)
(* The schema where no start was cut short: the one the first m scripts    *)
(* and k statements of the next one give.                                  *)
(***************************************************************************)
ConversationColumns(m) ==
    {"turns"} \union (IF m >= 3 THEN {"user_name"} ELSE {})
              \union (IF m >= 8 THEN {"storage_key"} ELSE {})

DocumentColumns(m, k) ==
    {"id"} \union (IF m >= 8 \/ (m = 7 /\ k >= 1) THEN {"storage_key"} ELSE {})

ColumnsOfTasks(m, k) ==
    {"prompt"} \union (IF m >= 6 \/ (m = 5 /\ k >= 1) THEN {"source_ids"} ELSE {})
               \union (IF m >= 6 \/ (m = 5 /\ k >= 2) THEN {"auth_mode"} ELSE {})

Shape(s, copies, m, k) ==
    /\ m >= 1 => Ledger \in DOMAIN s
    /\ Ledger \in DOMAIN s => s[Ledger] = {"id"}
    /\ m >= 2 => "conversations" \in DOMAIN s
    /\ "conversations" \in DOMAIN s => s["conversations"] = ConversationColumns(m)
    /\ m >= 4 => "knowledge_documents" \in DOMAIN s
    /\ "knowledge_documents" \in DOMAIN s =>
           s["knowledge_documents"] = DocumentColumns(m, k)
    /\ m >= 5 => (Tasks \notin DOMAIN s <=> m = 6 /\ k = 3)
    /\ Tasks \in DOMAIN s => s[Tasks] = ColumnsOfTasks(m, k)
    /\ m = 6 /\ k >= 1 => TasksV2 \in DOMAIN s
    /\ TasksV2 \in DOMAIN s => s[TasksV2] = TaskColumns
    /\ ~(m = 6 /\ k >= 2) => copies = {}

LEMMA TablesApart ==
    /\ Ledger \notin {Tasks, TasksV2, "conversations", "knowledge_documents"}
    /\ Tasks \notin {TasksV2, "conversations", "knowledge_documents"}
    /\ TasksV2 \notin {"conversations", "knowledge_documents"}
BY DEF Ledger, Tasks, TasksV2

LEMMA CreateDoes ==
    ASSUME NEW t, NEW c, Statement = Create(t, c), Execute
    PROVE  /\ DOMAIN schema' = DOMAIN schema \union {t}
           /\ t \notin DOMAIN schema => schema'[t] = c
           /\ \A u \in DOMAIN schema : schema'[u] = schema[u]
<1>1. Statement.op = "create" /\ Statement.table = t /\ Statement.columns = c
    BY DEF Create
<1>2. schema' = IF Has(t) THEN schema ELSE With(schema, t, c)
    BY <1>1 DEF Execute, SchemaAfter
<1> QED BY <1>2 DEF Has, With

LEMMA AddDoes ==
    ASSUME NEW t, NEW c, Statement = Add(t, c), Execute
    PROVE  /\ t \in DOMAIN schema /\ DOMAIN schema' = DOMAIN schema
           /\ schema'[t] = schema[t] \union {c}
           /\ \A u \in DOMAIN schema : u # t => schema'[u] = schema[u]
<1>1. Statement.op = "add" /\ Statement.table = t /\ Statement.columns = {c}
    BY DEF Add
<1>2. schema' = With(schema, t, schema[t] \union {c})
    BY <1>1 DEF Execute, SchemaAfter
<1>3. t \in DOMAIN schema
    BY <1>1 DEF Execute, Refuses, Has
<1> QED BY <1>2, <1>3 DEF With

LEMMA OthersDo ==
    ASSUME Execute
    PROVE  /\ Statement.op \in {"update", "copy"} => schema' = schema
           /\ Statement = Drop(Tasks) =>
                  /\ DOMAIN schema' = DOMAIN schema \ {Tasks}
                  /\ \A u \in DOMAIN schema' : schema'[u] = schema[u]
           /\ Statement = Rename =>
                  /\ TasksV2 \in DOMAIN schema
                  /\ DOMAIN schema' = (DOMAIN schema \ {TasksV2}) \union {Tasks}
                  /\ schema'[Tasks] = schema[TasksV2]
                  /\ \A u \in DOMAIN schema \ {Tasks, TasksV2} : schema'[u] = schema[u]
<1>1. schema' = SchemaAfter(Statement) /\ ~Refuses(Statement)
    BY DEF Execute
<1>2. Statement.op \in {"update", "copy"} => schema' = schema
    BY <1>1 DEF SchemaAfter
<1>3. Statement = Drop(Tasks) => schema' = Without(schema, Tasks)
    BY <1>1 DEF SchemaAfter, Drop
<1>4. Statement = Rename =>
          /\ schema' = With(Without(schema, TasksV2), Tasks, schema[TasksV2])
          /\ TasksV2 \in DOMAIN schema
    BY <1>1 DEF SchemaAfter, Rename, Refuses, Has
<1> QED BY <1>2, <1>3, <1>4, TablesApart DEF With, Without

(***************************************************************************)
(* What was not cut short is never there twice and misses nothing.         *)
(***************************************************************************)
Pending == Shape(schema, rows[TasksV2], boot.script - 1, boot.at - 1)

LEMMA NothingTwice ==
    ASSUME TaskInv, boot.phase = "running", Pending
    PROVE  ~Duplicate(Statement) /\ ~Refuses(Statement)
<1> DEFINE s == boot.script
           a == boot.at
<1>0. s \in 1..8 /\ a \in 1..Len(Scripts[s]) /\ Statement = Scripts[s][a]
    BY DEF TaskInv, IsAt, Statement
<1>1. Shape(schema, rows[TasksV2], s - 1, a - 1)
    BY DEF Pending
<1> HIDE DEF s, a
<1>2. ASSUME NEW t, NEW c, Statement = Create(t, c)
      PROVE  ~Duplicate(Statement) /\ ~Refuses(Statement)
    BY <1>2 DEF Create, Duplicate, Refuses
<1>3. ASSUME NEW t, NEW c, Statement = Add(t, c), Has(t), c \notin schema[t]
      PROVE  ~Duplicate(Statement) /\ ~Refuses(Statement)
    BY <1>3 DEF Add, Duplicate, Refuses
<1>4. /\ s = 3 => Has("conversations") /\ "user_name" \notin schema["conversations"]
      /\ s = 8 => Has("conversations") /\ "storage_key" \notin schema["conversations"]
    BY <1>0, <1>1 DEF Shape, Has, ConversationColumns
<1>5. ASSUME s = 8, a = 1
      PROVE  Has("knowledge_documents") /\ "storage_key" \notin schema["knowledge_documents"]
    BY <1>1, <1>5 DEF Shape, Has, DocumentColumns
<1>6. ASSUME s = 6, a \in {1, 2, 3}
      PROVE  /\ Has(Tasks) /\ schema[Tasks] = ColumnsOfTasks(5, a - 1)
             /\ a = 1 => "source_ids" \notin schema[Tasks]
             /\ a = 2 => "auth_mode" \notin schema[Tasks]
             /\ a = 3 => "source_ids" \in schema[Tasks]
    BY <1>1, <1>6 DEF Shape, Has, ColumnsOfTasks
<1>7. CASE s = 6 /\ a = 3 /\ Statement = Backfill(Tasks, "source_ids")
    BY <1>6, <1>7 DEF Backfill, Duplicate, Refuses
<1>8. CASE s = 7 /\ a = 2 /\ Statement = Copy(TaskColumns)
  <2>1. Has(Tasks) /\ schema[Tasks] = TaskColumns /\ rows[TasksV2] = {}
    BY <1>1, <1>8 DEF Shape, Has, ColumnsOfTasks, TaskColumns
  <2> QED BY <1>8, <2>1 DEF Copy, Duplicate, Refuses
<1>9. CASE s = 7 /\ a = 3 /\ Statement = Drop(Tasks)
  <2>1. Has(Tasks)
    BY <1>1, <1>9 DEF Shape, Has
  <2> QED BY <1>9, <2>1 DEF Drop, Duplicate, Refuses
<1>10. CASE s = 7 /\ a = 4 /\ Statement = Rename
  <2>1. ~Has(Tasks) /\ Has(TasksV2)
    BY <1>1, <1>10 DEF Shape, Has
  <2> QED BY <1>10, <2>1 DEF Rename, Duplicate, Refuses
<1>11. CASE s = 3 /\ Statement = Add("conversations", "user_name")
    BY <1>3, <1>4, <1>11
<1>12. CASE s = 8 /\ a = 2 /\ Statement = Add("conversations", "storage_key")
    BY <1>3, <1>4, <1>12
<1>13. CASE s = 8 /\ a = 1 /\ Statement = Add("knowledge_documents", "storage_key")
    BY <1>3, <1>5, <1>13
<1>14. CASE s = 6 /\ a = 1 /\ Statement = Add(Tasks, "source_ids")
    BY <1>3, <1>6, <1>14
<1>15. CASE s = 6 /\ a = 2 /\ Statement = Add(Tasks, "auth_mode")
    BY <1>3, <1>6, <1>15
<1> DEFINE fine == ~Duplicate(Statement) /\ ~Refuses(Statement)
<1>16. \A t, c : Statement = Create(t, c) => fine
    BY <1>2
<1>17. \/ \E t, c : Statement = Create(t, c)
       \/ s = 3 /\ Statement = Add("conversations", "user_name")
       \/ s = 6 /\ a = 1 /\ Statement = Add(Tasks, "source_ids")
       \/ s = 6 /\ a = 2 /\ Statement = Add(Tasks, "auth_mode")
       \/ s = 6 /\ a = 3 /\ Statement = Backfill(Tasks, "source_ids")
       \/ s = 7 /\ a = 2 /\ Statement = Copy(TaskColumns)
       \/ s = 7 /\ a = 3 /\ Statement = Drop(Tasks)
       \/ s = 7 /\ a = 4 /\ Statement = Rename
       \/ s = 8 /\ a = 1 /\ Statement = Add("knowledge_documents", "storage_key")
       \/ s = 8 /\ a = 2 /\ Statement = Add("conversations", "storage_key")
  <2>1. \/ s = 1 /\ a = 1 /\ Scripts[s][a] = Create(Ledger, {"id"})
        \/ s = 2 /\ a = 1 /\ Scripts[s][a] = Create("conversations", {"turns"})
        \/ s = 3 /\ a = 1 /\ Scripts[s][a] = Add("conversations", "user_name")
        \/ s = 4 /\ a = 1 /\ Scripts[s][a] = Create("knowledge_documents", {"id"})
        \/ s = 5 /\ a = 1 /\ Scripts[s][a] = Create(Tasks, {"prompt"})
        \/ s = 6 /\ a = 1 /\ Scripts[s][a] = Add(Tasks, "source_ids")
        \/ s = 6 /\ a = 2 /\ Scripts[s][a] = Add(Tasks, "auth_mode")
        \/ s = 6 /\ a = 3 /\ Scripts[s][a] = Backfill(Tasks, "source_ids")
        \/ s = 7 /\ a = 1 /\ Scripts[s][a] = Create(TasksV2, TaskColumns)
        \/ s = 7 /\ a = 2 /\ Scripts[s][a] = Copy(TaskColumns)
        \/ s = 7 /\ a = 3 /\ Scripts[s][a] = Drop(Tasks)
        \/ s = 7 /\ a = 4 /\ Scripts[s][a] = Rename
        \/ s = 8 /\ a = 1 /\ Scripts[s][a] = Add("knowledge_documents", "storage_key")
        \/ s = 8 /\ a = 2 /\ Scripts[s][a] = Add("conversations", "storage_key")
    BY <1>0, StatementIs
  <2>2. Statement = Scripts[s][a]
    BY <1>0
  <2> HIDE DEF s, a
  <2> QED BY <2>1, <2>2
<1> QED BY <1>7, <1>8, <1>9, <1>10, <1>11, <1>12, <1>13, <1>14, <1>15, <1>16, <1>17

\* After a statement the schema has the shape of the place after it.
Followed(s, a) ==
    \/ a < Len(Scripts[s]) /\ Shape(schema', rows'[TasksV2], s - 1, a)
    \/ a = Len(Scripts[s]) /\ Shape(schema', rows'[TasksV2], s, 0)

LEMMA LengthsAre ==
    /\ Len(Scripts[1]) = 1 /\ Len(Scripts[2]) = 1 /\ Len(Scripts[3]) = 1
    /\ Len(Scripts[4]) = 1 /\ Len(Scripts[5]) = 1 /\ Len(Scripts[6]) = 3
    /\ Len(Scripts[7]) = 4 /\ Len(Scripts[8]) = 2
BY ScriptsAre, StatementsAre

LEMMA CreateShapes ==
    ASSUME Execute, NEW s \in {1, 2, 4, 5, 7}, Shape(schema, rows[TasksV2], s - 1, 0),
           rows' = rows,
           \/ s = 1 /\ Statement = Create(Ledger, {"id"})
           \/ s = 2 /\ Statement = Create("conversations", {"turns"})
           \/ s = 4 /\ Statement = Create("knowledge_documents", {"id"})
           \/ s = 5 /\ Statement = Create(Tasks, {"prompt"})
           \/ s = 7 /\ Statement = Create(TasksV2, TaskColumns)
    PROVE  Followed(s, 1)
<1>1. CASE s = 1 /\ Statement = Create(Ledger, {"id"})
  <2>1. /\ DOMAIN schema' = DOMAIN schema \union {Ledger}
        /\ Ledger \notin DOMAIN schema => schema'[Ledger] = {"id"}
        /\ \A u \in DOMAIN schema : schema'[u] = schema[u]
    BY <1>1, CreateDoes
  <2>2. Shape(schema, rows[TasksV2], 0, 0)
    BY <1>1
  <2>3. Shape(schema', rows'[TasksV2], 1, 0)
    BY <2>1, <2>2, TablesApart
       DEF Shape, ConversationColumns, DocumentColumns, ColumnsOfTasks
  <2>4. s - 1 = 0 /\ 1 = Len(Scripts[s])
    BY <1>1, LengthsAre
  <2> QED BY <1>1, <2>3, <2>4 DEF Followed
<1>2. CASE s = 2 /\ Statement = Create("conversations", {"turns"})
  <2>1. /\ DOMAIN schema' = DOMAIN schema \union {"conversations"}
        /\ "conversations" \notin DOMAIN schema => schema'["conversations"] = {"turns"}
        /\ \A u \in DOMAIN schema : schema'[u] = schema[u]
    BY <1>2, CreateDoes
  <2>2. Shape(schema, rows[TasksV2], 1, 0)
    BY <1>2
  <2>3. Shape(schema', rows'[TasksV2], 2, 0)
    BY <2>1, <2>2, TablesApart
       DEF Shape, ConversationColumns, DocumentColumns, ColumnsOfTasks
  <2>4. s - 1 = 1 /\ 1 = Len(Scripts[s])
    BY <1>2, LengthsAre
  <2> QED BY <1>2, <2>3, <2>4 DEF Followed
<1>3. CASE s = 4 /\ Statement = Create("knowledge_documents", {"id"})
  <2>1. /\ DOMAIN schema' = DOMAIN schema \union {"knowledge_documents"}
        /\ "knowledge_documents" \notin DOMAIN schema => schema'["knowledge_documents"] = {"id"}
        /\ \A u \in DOMAIN schema : schema'[u] = schema[u]
    BY <1>3, CreateDoes
  <2>2. Shape(schema, rows[TasksV2], 3, 0)
    BY <1>3
  <2>3. Shape(schema', rows'[TasksV2], 4, 0)
    BY <2>1, <2>2, TablesApart
       DEF Shape, ConversationColumns, DocumentColumns, ColumnsOfTasks
  <2>4. s - 1 = 3 /\ 1 = Len(Scripts[s])
    BY <1>3, LengthsAre
  <2> QED BY <1>3, <2>3, <2>4 DEF Followed
<1>4. CASE s = 5 /\ Statement = Create(Tasks, {"prompt"})
  <2>1. /\ DOMAIN schema' = DOMAIN schema \union {Tasks}
        /\ Tasks \notin DOMAIN schema => schema'[Tasks] = {"prompt"}
        /\ \A u \in DOMAIN schema : schema'[u] = schema[u]
    BY <1>4, CreateDoes
  <2>2. Shape(schema, rows[TasksV2], 4, 0)
    BY <1>4
  <2>3. Shape(schema', rows'[TasksV2], 5, 0)
    BY <2>1, <2>2, TablesApart
       DEF Shape, ConversationColumns, DocumentColumns, ColumnsOfTasks
  <2>4. s - 1 = 4 /\ 1 = Len(Scripts[s])
    BY <1>4, LengthsAre
  <2> QED BY <1>4, <2>3, <2>4 DEF Followed
<1>5. CASE s = 7 /\ Statement = Create(TasksV2, TaskColumns)
  <2>1. /\ DOMAIN schema' = DOMAIN schema \union {TasksV2}
        /\ TasksV2 \notin DOMAIN schema => schema'[TasksV2] = TaskColumns
        /\ \A u \in DOMAIN schema : schema'[u] = schema[u]
    BY <1>5, CreateDoes
  <2>2. Shape(schema, rows[TasksV2], 6, 0)
    BY <1>5
  <2>3. Shape(schema', rows'[TasksV2], 6, 1)
    BY <2>1, <2>2, TablesApart
       DEF Shape, ConversationColumns, DocumentColumns, ColumnsOfTasks
  <2>4. s - 1 = 6 /\ 1 < Len(Scripts[s])
    BY <1>5, LengthsAre
  <2> QED BY <1>5, <2>3, <2>4 DEF Followed
<1> QED BY <1>1, <1>2, <1>3, <1>4, <1>5

LEMMA AddShapes ==
    ASSUME Execute, NEW s \in {3, 6, 8}, NEW a \in 1..2,
           Shape(schema, rows[TasksV2], s - 1, a - 1), rows' = rows,
           \/ s = 3 /\ a = 1 /\ Statement = Add("conversations", "user_name")
           \/ s = 6 /\ a = 1 /\ Statement = Add(Tasks, "source_ids")
           \/ s = 6 /\ a = 2 /\ Statement = Add(Tasks, "auth_mode")
           \/ s = 8 /\ a = 1 /\ Statement = Add("knowledge_documents", "storage_key")
           \/ s = 8 /\ a = 2 /\ Statement = Add("conversations", "storage_key")
    PROVE  Followed(s, a)
<1>1. CASE s = 3 /\ a = 1 /\ Statement = Add("conversations", "user_name")
  <2>1. Shape(schema', rows'[TasksV2], 3, 0)
    BY <1>1, AddDoes, TablesApart
       DEF Shape, ConversationColumns, DocumentColumns, ColumnsOfTasks
  <2>9. s - 1 \in Int /\ Len(Scripts[3]) = 1 /\ Len(Scripts[6]) = 3
        /\ Len(Scripts[7]) = 4 /\ Len(Scripts[8]) = 2
    BY LengthsAre
  <2> QED BY <1>1, <2>1, <2>9 DEF Followed
<1>2. CASE s = 6 /\ a = 1 /\ Statement = Add(Tasks, "source_ids")
  <2>1. Shape(schema', rows'[TasksV2], 5, 1)
    BY <1>2, AddDoes, TablesApart
       DEF Shape, ConversationColumns, DocumentColumns, ColumnsOfTasks
  <2>9. s - 1 \in Int /\ Len(Scripts[3]) = 1 /\ Len(Scripts[6]) = 3
        /\ Len(Scripts[7]) = 4 /\ Len(Scripts[8]) = 2
    BY LengthsAre
  <2> QED BY <1>2, <2>1, <2>9 DEF Followed
<1>3. CASE s = 6 /\ a = 2 /\ Statement = Add(Tasks, "auth_mode")
  <2>1. Shape(schema', rows'[TasksV2], 5, 2)
    BY <1>3, AddDoes, TablesApart
       DEF Shape, ConversationColumns, DocumentColumns, ColumnsOfTasks
  <2>9. s - 1 \in Int /\ Len(Scripts[3]) = 1 /\ Len(Scripts[6]) = 3
        /\ Len(Scripts[7]) = 4 /\ Len(Scripts[8]) = 2
    BY LengthsAre
  <2> QED BY <1>3, <2>1, <2>9 DEF Followed
<1>4. CASE s = 8 /\ a = 1 /\ Statement = Add("knowledge_documents", "storage_key")
  <2>1. Shape(schema', rows'[TasksV2], 7, 1)
    BY <1>4, AddDoes, TablesApart
       DEF Shape, ConversationColumns, DocumentColumns, ColumnsOfTasks
  <2>9. s - 1 \in Int /\ Len(Scripts[3]) = 1 /\ Len(Scripts[6]) = 3
        /\ Len(Scripts[7]) = 4 /\ Len(Scripts[8]) = 2
    BY LengthsAre
  <2> QED BY <1>4, <2>1, <2>9 DEF Followed
<1>5. CASE s = 8 /\ a = 2 /\ Statement = Add("conversations", "storage_key")
  <2>1. Shape(schema', rows'[TasksV2], 8, 0)
    BY <1>5, AddDoes, TablesApart
       DEF Shape, ConversationColumns, DocumentColumns, ColumnsOfTasks
  <2>9. s - 1 \in Int /\ Len(Scripts[3]) = 1 /\ Len(Scripts[6]) = 3
        /\ Len(Scripts[7]) = 4 /\ Len(Scripts[8]) = 2
    BY LengthsAre
  <2> QED BY <1>5, <2>1, <2>9 DEF Followed
<1> QED BY <1>1, <1>2, <1>3, <1>4, <1>5

LEMMA RebuildShapes ==
    ASSUME TaskInv, Execute, NEW s \in {6, 7}, NEW a \in 2..4,
           Shape(schema, rows[TasksV2], s - 1, a - 1),
           \/ s = 6 /\ a = 3 /\ Statement = Backfill(Tasks, "source_ids")
           \/ s = 7 /\ a = 2 /\ Statement = Copy(TaskColumns)
           \/ s = 7 /\ a = 3 /\ Statement = Drop(Tasks)
           \/ s = 7 /\ a = 4 /\ Statement = Rename
    PROVE  Followed(s, a)
<1>0. rows = [t \in {Tasks, TasksV2} |-> rows[t]]
    BY DEF TaskInv
<1>1. CASE s = 6 /\ a = 3 /\ Statement = Backfill(Tasks, "source_ids")
  <2>1. Statement.op = "update"
    BY <1>1 DEF Backfill
  <2>2. Shape(schema', rows'[TasksV2], 6, 0)
    BY <1>1, <2>1, OthersDo, RowsGo, TablesApart
       DEF Shape, ConversationColumns, DocumentColumns, ColumnsOfTasks
  <2>9. s - 1 \in Int /\ Len(Scripts[3]) = 1 /\ Len(Scripts[6]) = 3
        /\ Len(Scripts[7]) = 4 /\ Len(Scripts[8]) = 2
    BY LengthsAre
  <2> QED BY <1>1, <2>2, <2>9 DEF Followed
<1>2. CASE s = 7 /\ a = 2 /\ Statement = Copy(TaskColumns)
  <2>1. Statement.op = "copy"
    BY <1>2 DEF Copy
  <2>2. Shape(schema', rows'[TasksV2], 6, 2)
    BY <1>2, <2>1, OthersDo, TablesApart
       DEF Shape, ConversationColumns, DocumentColumns, ColumnsOfTasks
  <2>9. s - 1 \in Int /\ Len(Scripts[3]) = 1 /\ Len(Scripts[6]) = 3
        /\ Len(Scripts[7]) = 4 /\ Len(Scripts[8]) = 2
    BY LengthsAre
  <2> QED BY <1>2, <2>2, <2>9 DEF Followed
<1>3. CASE s = 7 /\ a = 3 /\ Statement = Drop(Tasks)
  <2>1. Shape(schema', rows'[TasksV2], 6, 3)
    BY <1>3, OthersDo, TablesApart
       DEF Shape, ConversationColumns, DocumentColumns, ColumnsOfTasks
  <2>9. s - 1 \in Int /\ Len(Scripts[3]) = 1 /\ Len(Scripts[6]) = 3
        /\ Len(Scripts[7]) = 4 /\ Len(Scripts[8]) = 2
    BY LengthsAre
  <2> QED BY <1>3, <2>1, <2>9 DEF Followed
<1>4. CASE s = 7 /\ a = 4 /\ Statement = Rename
  <2>1. rows'[TasksV2] = {}
    BY <1>0, <1>4, RowsGo, TablesApart
  <2>2. schema'[Tasks] = TaskColumns
    BY <1>4, OthersDo DEF Shape
  <2>3. ColumnsOfTasks(7, 0) = TaskColumns
    BY DEF ColumnsOfTasks, TaskColumns
  <2>4. Shape(schema', rows'[TasksV2], 7, 0)
    BY <1>4, <2>1, <2>2, <2>3, OthersDo, TablesApart
       DEF Shape, ConversationColumns, DocumentColumns
  <2>9. s - 1 \in Int /\ Len(Scripts[3]) = 1 /\ Len(Scripts[6]) = 3
        /\ Len(Scripts[7]) = 4 /\ Len(Scripts[8]) = 2
    BY LengthsAre
  <2> QED BY <1>4, <2>4, <2>9 DEF Followed
<1> QED BY <1>1, <1>2, <1>3, <1>4

LEMMA ExecuteShapes ==
    ASSUME TaskInv, Execute, Pending
    PROVE  Followed(boot.script, boot.at)
<1> DEFINE s == boot.script
           a == boot.at
<1>0. s \in 1..8 /\ a \in 1..Len(Scripts[s]) /\ Statement = Scripts[s][a]
    BY ExecuteGoes DEF Statement
<1>1. Shape(schema, rows[TasksV2], s - 1, a - 1)
    BY DEF Pending
<1> HIDE DEF s, a
<1>2. ASSUME a = 1,
             \/ s = 1 /\ Statement = Create(Ledger, {"id"})
             \/ s = 2 /\ Statement = Create("conversations", {"turns"})
             \/ s = 4 /\ Statement = Create("knowledge_documents", {"id"})
             \/ s = 5 /\ Statement = Create(Tasks, {"prompt"})
             \/ s = 7 /\ Statement = Create(TasksV2, TaskColumns)
      PROVE  Followed(s, a)
  <2>1. rows' = rows
    <3>1. Statement.op = "create"
      BY <1>2 DEF Create
    <3> QED BY <3>1, RowsGo
  <2>2. s \in {1, 2, 4, 5, 7} /\ Shape(schema, rows[TasksV2], s - 1, 0)
    BY <1>1, <1>2
  <2>3. Followed(s, 1)
    BY <1>2, <2>1, <2>2, CreateShapes
  <2> QED BY <1>2, <2>3
<1>3. ASSUME a \in 1..2, s \in {3, 6, 8},
             \/ s = 3 /\ a = 1 /\ Statement = Add("conversations", "user_name")
             \/ s = 6 /\ a = 1 /\ Statement = Add(Tasks, "source_ids")
             \/ s = 6 /\ a = 2 /\ Statement = Add(Tasks, "auth_mode")
             \/ s = 8 /\ a = 1 /\ Statement = Add("knowledge_documents", "storage_key")
             \/ s = 8 /\ a = 2 /\ Statement = Add("conversations", "storage_key")
      PROVE  Followed(s, a)
  <2>1. rows' = rows
    <3>1. Statement.op = "add"
      BY <1>3 DEF Add
    <3> QED BY <3>1, RowsGo
  <2> QED BY <1>1, <1>3, <2>1, AddShapes
<1>4. ASSUME s \in {6, 7}, a \in 2..4,
             \/ s = 6 /\ a = 3 /\ Statement = Backfill(Tasks, "source_ids")
             \/ s = 7 /\ a = 2 /\ Statement = Copy(TaskColumns)
             \/ s = 7 /\ a = 3 /\ Statement = Drop(Tasks)
             \/ s = 7 /\ a = 4 /\ Statement = Rename
      PROVE  Followed(s, a)
    BY <1>1, <1>4, RebuildShapes
<1>5. \/ /\ a = 1
         /\ \/ s = 1 /\ Statement = Create(Ledger, {"id"})
            \/ s = 2 /\ Statement = Create("conversations", {"turns"})
            \/ s = 4 /\ Statement = Create("knowledge_documents", {"id"})
            \/ s = 5 /\ Statement = Create(Tasks, {"prompt"})
            \/ s = 7 /\ Statement = Create(TasksV2, TaskColumns)
      \/ /\ a \in 1..2 /\ s \in {3, 6, 8}
         /\ \/ s = 3 /\ a = 1 /\ Statement = Add("conversations", "user_name")
            \/ s = 6 /\ a = 1 /\ Statement = Add(Tasks, "source_ids")
            \/ s = 6 /\ a = 2 /\ Statement = Add(Tasks, "auth_mode")
            \/ s = 8 /\ a = 1 /\ Statement = Add("knowledge_documents", "storage_key")
            \/ s = 8 /\ a = 2 /\ Statement = Add("conversations", "storage_key")
      \/ /\ s \in {6, 7} /\ a \in 2..4
         /\ \/ s = 6 /\ a = 3 /\ Statement = Backfill(Tasks, "source_ids")
            \/ s = 7 /\ a = 2 /\ Statement = Copy(TaskColumns)
            \/ s = 7 /\ a = 3 /\ Statement = Drop(Tasks)
            \/ s = 7 /\ a = 4 /\ Statement = Rename
  <2>1. \/ s = 1 /\ a = 1 /\ Scripts[s][a] = Create(Ledger, {"id"})
        \/ s = 2 /\ a = 1 /\ Scripts[s][a] = Create("conversations", {"turns"})
        \/ s = 3 /\ a = 1 /\ Scripts[s][a] = Add("conversations", "user_name")
        \/ s = 4 /\ a = 1 /\ Scripts[s][a] = Create("knowledge_documents", {"id"})
        \/ s = 5 /\ a = 1 /\ Scripts[s][a] = Create(Tasks, {"prompt"})
        \/ s = 6 /\ a = 1 /\ Scripts[s][a] = Add(Tasks, "source_ids")
        \/ s = 6 /\ a = 2 /\ Scripts[s][a] = Add(Tasks, "auth_mode")
        \/ s = 6 /\ a = 3 /\ Scripts[s][a] = Backfill(Tasks, "source_ids")
        \/ s = 7 /\ a = 1 /\ Scripts[s][a] = Create(TasksV2, TaskColumns)
        \/ s = 7 /\ a = 2 /\ Scripts[s][a] = Copy(TaskColumns)
        \/ s = 7 /\ a = 3 /\ Scripts[s][a] = Drop(Tasks)
        \/ s = 7 /\ a = 4 /\ Scripts[s][a] = Rename
        \/ s = 8 /\ a = 1 /\ Scripts[s][a] = Add("knowledge_documents", "storage_key")
        \/ s = 8 /\ a = 2 /\ Scripts[s][a] = Add("conversations", "storage_key")
    BY <1>0, StatementIs
  <2>2. Statement = Scripts[s][a]
    BY <1>0
  <2> HIDE DEF s, a
  <2> QED BY <2>1, <2>2
<1>6. Followed(s, a)
    BY <1>2, <1>3, <1>4, <1>5
<1> QED BY <1>6 DEF s, a

(***************************************************************************)
(* The ledger holds the first scripts, and the schema has their shape,     *)
(* where no start was cut short.                                           *)
(***************************************************************************)
Applied(m) == DOMAIN ledger = 1..m /\ Shape(schema, rows[TasksV2], m, 0)

ShapeInv ==
    ~interrupted =>
        /\ boot.phase = "running" => DOMAIN ledger = 1..(boot.script - 1) /\ Pending
        /\ boot.phase = "recording" =>
               /\ DOMAIN ledger = 1..(boot.script - 1)
               /\ Shape(schema, rows[TasksV2], boot.script, 0)
        /\ boot.phase \notin {"running", "recording"} => \E m \in 0..8 : Applied(m)

LEMMA ExecuteInv ==
    ASSUME TaskInv, ShapeInv, Execute
    PROVE  ShapeInv'
<1> SUFFICES ASSUME ~interrupted PROVE ShapeInv'
    BY DEF Execute, ShapeInv
<1>1. DOMAIN ledger = 1..(boot.script - 1) /\ Pending /\ ledger' = ledger
    BY DEF Execute, ShapeInv
<1>2. Followed(boot.script, boot.at)
    BY <1>1, ExecuteShapes
<1>3. /\ boot.script \in 1..8 /\ boot.at \in 1..Len(Scripts[boot.script])
      /\ Len(Scripts[boot.script]) \in Nat
    BY ExecuteGoes
<1>4. CASE boot.at < Len(Scripts[boot.script])
  <2>1. boot'.phase = "running" /\ boot'.script = boot.script /\ boot'.at = boot.at + 1
    BY <1>3, <1>4, ExecuteGoes
  <2>2. Shape(schema', rows'[TasksV2], boot.script - 1, boot.at)
    BY <1>2, <1>3, <1>4 DEF Followed
  <2>3. boot'.at - 1 = boot.at
    BY <1>3, <2>1
  <2>4. Pending'
    BY <2>1, <2>2, <2>3 DEF Pending
  <2> QED BY <1>1, <2>1, <2>4 DEF ShapeInv
<1>5. CASE boot.at = Len(Scripts[boot.script])
  <2>1. boot'.phase = "recording" /\ boot'.script = boot.script
    BY <1>3, <1>5, ExecuteGoes
  <2>2. Shape(schema', rows'[TasksV2], boot.script, 0)
    BY <1>2, <1>3, <1>5 DEF Followed
  <2> QED BY <1>1, <2>1, <2>2 DEF ShapeInv
<1> QED BY <1>3, <1>4, <1>5

\* Scripts are taken in order: the first that is not recorded comes next.
LEMMA CheckInv ==
    ASSUME TaskInv, ShapeInv, CheckLedger
    PROVE  ShapeInv'
<1> SUFFICES ASSUME ~interrupted PROVE ShapeInv'
    BY DEF CheckLedger, ShapeInv
<1>0. UNCHANGED <<schema, ledger, rows, release, interrupted>> /\ boot.phase = "checking"
    BY DEF CheckLedger
<1>1. PICK m \in 0..8 : Applied(m)
    BY <1>0 DEF ShapeInv
<1>2. CASE boot' \in {Phase("serving"), Phase("refused")}
  <2>1. boot'.phase \notin {"running", "recording"}
    BY <1>2, PhaseIs
  <2> QED BY <1>0, <1>1, <2>1 DEF ShapeInv, Applied
<1>3. CASE Unsettled # {} /\ ~Recorded(First(Unsettled)) /\ boot' = At(First(Unsettled), 1)
  <2> DEFINE s == First(Unsettled)
  <2>1. /\ s \in Unsettled /\ s \in 1..8 /\ s \notin 1..m
        /\ \A y \in Unsettled : s <= y
    BY <1>1, <1>3, UnsettledIs DEF Recorded, Applied
  <2>2. boot' = At(s, 1)
    BY <1>3
  <2>3. s \in 1..release /\ release \in 1..8
    BY <2>1 DEF Unsettled, TaskInv
  <2>4. m + 1 \in 1..release => m + 1 \in Unsettled
    BY <1>1 DEF Unsettled, Recorded, Applied
  <2> HIDE DEF s
  <2>5. s - 1 = m
    BY <1>1, <2>1, <2>3, <2>4
  <2>6. 1 <= Len(Scripts[s])
    BY <2>1, ScriptLengths
  <2>7. boot'.phase = "running" /\ boot'.script = s /\ boot'.at = 1
    BY <2>1, <2>2, <2>6, AtIs
  <2>8. boot'.at - 1 = 0
    BY <2>7
  <2>9. Pending'
    BY <1>0, <1>1, <2>5, <2>7, <2>8 DEF Pending, Applied
  <2> QED BY <1>0, <1>1, <2>5, <2>7, <2>9 DEF ShapeInv, Applied
<1> QED BY <1>2, <1>3, CheckGoes

LEMMA RecordInv ==
    ASSUME TaskInv, ShapeInv, Record
    PROVE  ShapeInv'
<1> SUFFICES ASSUME ~interrupted PROVE ShapeInv'
    BY DEF Record, ShapeInv
<1>0. /\ boot.phase = "recording" /\ boot' = Phase("checking")
      /\ ledger' = With(ledger, boot.script, Checksum(boot.script))
      /\ UNCHANGED <<schema, rows>>
    BY DEF Record
<1>1. PICK s \in 1..8 : boot.script = s
    BY <1>0 DEF TaskInv, IsAt
<1>2. DOMAIN ledger = 1..(s - 1) /\ Shape(schema, rows[TasksV2], s, 0)
    BY <1>0, <1>1 DEF ShapeInv
<1>3. DOMAIN ledger' = 1..s
    BY <1>0, <1>1, <1>2 DEF With
<1>4. Applied(s)'
    BY <1>0, <1>2, <1>3 DEF Applied
<1>5. boot'.phase = "checking" /\ s \in 0..8
    BY <1>0, PhaseIs
<1> QED BY <1>4, <1>5 DEF ShapeInv

LEMMA ShapeStep == TaskInv /\ ShapeInv /\ [Next]_vars => ShapeInv'
<1> SUFFICES ASSUME TaskInv, ShapeInv, [Next]_vars PROVE ShapeInv'
    OBVIOUS
<1>1. ASSUME UNCHANGED <<schema, ledger, interrupted>>, rows'[TasksV2] = rows[TasksV2],
             boot' = boot \/ /\ boot.phase \notin {"running", "recording"}
                             /\ boot'.phase \notin {"running", "recording"}
      PROVE  ShapeInv'
  <2>1. CASE interrupted
    BY <1>1, <2>1 DEF ShapeInv
  <2>2. CASE ~interrupted /\ boot' = boot
    BY <1>1, <2>2 DEF ShapeInv, Applied, Pending
  <2>3. CASE ~interrupted /\ boot' # boot
    <3>1. \E m \in 0..8 : Applied(m)
      BY <1>1, <2>3 DEF ShapeInv
    <3>2. \E m \in 0..8 : Applied(m)'
      BY <1>1, <3>1 DEF Applied
    <3> QED BY <1>1, <2>3, <3>2 DEF ShapeInv
  <2> QED BY <2>1, <2>2, <2>3
<1>2. CASE Execute
    BY <1>2, ExecuteInv
<1>3. CASE CheckLedger
    BY <1>3, CheckInv
<1>4. CASE Record
    BY <1>4, RecordInv
<1>5. CASE TreatAsApplied \/ RefuseToStart
  <2>1. interrupted
    <3> SUFFICES ASSUME ~interrupted PROVE FALSE
      OBVIOUS
    <3>1. boot.phase = "running" /\ Pending
      BY <1>5 DEF TreatAsApplied, RefuseToStart, ShapeInv
    <3>2. ~Duplicate(Statement) /\ ~Refuses(Statement)
      BY <3>1, NothingTwice
    <3> QED BY <1>5, <3>2 DEF TreatAsApplied, RefuseToStart
  <2> QED BY <1>5, <2>1 DEF TreatAsApplied, RefuseToStart, ShapeInv
<1>6. CASE StatementFails
    BY <1>6 DEF StatementFails, ShapeInv
<1>7. CASE Start
  <2>1. boot'.phase = "checking" /\ boot.phase \in {"down", "refused"}
    BY <1>7, PhaseIs DEF Start
  <2> QED BY <1>1, <1>7, <2>1 DEF Start
<1>8. CASE Die
  <2>1. boot'.phase = "down"
    BY <1>8, PhaseIs DEF Die
  <2>2. CASE boot.phase \in {"running", "recording"}
    BY <1>8, <2>2 DEF Die, ShapeInv
  <2>3. CASE boot.phase \notin {"running", "recording"} /\ interrupted
    BY <1>8, <2>3 DEF Die, ShapeInv
  <2>4. CASE boot.phase \notin {"running", "recording"} /\ ~interrupted
    <3>1. \E m \in 0..8 : Applied(m)
      BY <2>4 DEF ShapeInv
    <3>2. \E m \in 0..8 : Applied(m)'
      BY <1>8, <3>1 DEF Applied, Die
    <3> QED BY <2>1, <3>2 DEF ShapeInv
  <2> QED BY <2>2, <2>3, <2>4
<1>9. ASSUME NEW r \in Releases, Deploy(r) \/ Edit(r) PROVE ShapeInv'
    BY <1>1, <1>9 DEF Deploy, Edit
<1>10. ASSUME NEW t \in Task, AddTask(t) PROVE ShapeInv'
  <2>1. rows = [x \in {Tasks, TasksV2} |-> rows[x]] /\ Tasks # TasksV2
    BY DEF TaskInv, Tasks, TasksV2
  <2>2. rows'[TasksV2] = rows[TasksV2]
    BY <1>10, <2>1 DEF AddTask
  <2> QED BY <1>1, <1>10, <2>2 DEF AddTask
<1>11. CASE UNCHANGED migrationVars
    BY <1>1, <1>11 DEF migrationVars
<1>12. CASE Booting
    BY <1>2, <1>3, <1>4, <1>5, <1>6, <1>7, <1>12 DEF Booting
<1>13. CASE Operating
    BY <1>9, <1>10, <1>13 DEF Operating
<1>14. CASE Crash
    BY <1>8, <1>14 DEF Crash
<1>15. CASE \/ \E x \in Upload : Uploading(x)
            \/ \E i \in Ingestion : Ingesting(i)
            \/ \E q \in Query : Querying(q)
    BY <1>11, <1>15 DEF Uploading, Ingesting, Querying
<1>16. CASE UNCHANGED vars
    BY <1>11, <1>16 DEF vars
<1> QED BY <1>12, <1>13, <1>14, <1>15, <1>16 DEF Next

\* Every column of a recorded script is in a schema of the shape.
LEMMA ShapeIsWhole ==
    ASSUME NEW m \in 0..8, Applied(m), NEW script \in DOMAIN ledger
    PROVE  AppliedWhole(script)
<1>0. script \in 1..8 /\ script <= m /\ Shape(schema, rows[TasksV2], m, 0)
    BY DEF Applied
<1> SUFFICES ASSUME NEW j \in DOMAIN Scripts[script], Lasting(Scripts[script][j])
             PROVE  /\ Has(Scripts[script][j].table)
                    /\ Scripts[script][j].columns \subseteq schema[Scripts[script][j].table]
    BY DEF AppliedWhole
<1> DEFINE it == Scripts[script][j]
<1>1. j \in 1..Len(Scripts[script])
    BY <1>0, ScriptLengths
<1>2. /\ \A t, c : /\ Create(t, c).op = "create" /\ Create(t, c).table = t
                   /\ Create(t, c).columns = c
      /\ \A t, c : /\ Add(t, c).op = "add" /\ Add(t, c).table = t
                   /\ Add(t, c).columns = {c}
    BY DEF Create, Add
<1>3. it.op \in {"create", "add"} /\ it.table # TasksV2
    BY DEF Lasting
<1>4. /\ \A t, c : Backfill(t, c).op = "update"
      /\ Copy(TaskColumns).op = "copy" /\ Drop(Tasks).op = "drop" /\ Rename.op = "rename"
    BY DEF Backfill, Copy, Drop, Rename
<1>5. \/ script = 1 /\ it = Create(Ledger, {"id"})
      \/ script = 2 /\ it = Create("conversations", {"turns"})
      \/ script = 3 /\ it = Add("conversations", "user_name")
      \/ script = 4 /\ it = Create("knowledge_documents", {"id"})
      \/ script = 5 /\ it = Create(Tasks, {"prompt"})
      \/ script = 6 /\ it = Add(Tasks, "source_ids")
      \/ script = 6 /\ it = Add(Tasks, "auth_mode")
      \/ script = 8 /\ it = Add("knowledge_documents", "storage_key")
      \/ script = 8 /\ it = Add("conversations", "storage_key")
  <2>1. \A t, c : it # Backfill(t, c)
    BY <1>3, <1>4
  <2>2. it # Copy(TaskColumns) /\ it # Drop(Tasks) /\ it # Rename
    BY <1>3, <1>4
  <2>3. it # Create(TasksV2, TaskColumns)
    BY <1>2, <1>3
  <2> QED BY <1>0, <1>1, <2>1, <2>2, <2>3, StatementIs
<1> HIDE DEF it
<1>6. CASE it.table \in {"conversations", Ledger}
  <2> QED BY <1>0, <1>2, <1>5, <1>6, TablesApart DEF Shape, Has, ConversationColumns, it
<1>7. CASE it.table = "knowledge_documents"
  <2> QED BY <1>0, <1>2, <1>5, <1>7, TablesApart DEF Shape, Has, DocumentColumns, it
<1>8. CASE it.table = Tasks
  <2> QED BY <1>0, <1>2, <1>5, <1>8, TablesApart DEF Shape, Has, ColumnsOfTasks, it
<1> QED BY <1>2, <1>5, <1>6, <1>7, <1>8

\* Nothing that serves sees its ledger, its release or a script change.
LEMMA ServesStep == TaskInv /\ ServesItsRelease /\ [Next]_vars => ServesItsRelease'
<1> SUFFICES ASSUME TaskInv, ServesItsRelease, [Next]_vars PROVE ServesItsRelease'
    OBVIOUS
<1>1. ASSUME boot'.phase # "serving" PROVE ServesItsRelease'
    BY <1>1 DEF ServesItsRelease
<1>2. ASSUME UNCHANGED <<ledger, release, edited, boot>> PROVE ServesItsRelease'
    BY <1>2 DEF ServesItsRelease, Recorded, Checksum
<1>3. CASE CheckLedger
  <2>1. UNCHANGED <<ledger, release, edited>>
    BY <1>3 DEF CheckLedger
  <2>2. CASE Unsettled = {}
    BY <2>1, <2>2 DEF ServesItsRelease, Unsettled, Recorded, Checksum
  <2>3. CASE boot' = Phase("refused")
    BY <1>1, <2>3, PhaseIs
  <2>4. CASE Unsettled # {} /\ boot' = At(First(Unsettled), 1)
    <3>1. boot'.phase \in {"running", "recording"}
      BY <2>4 DEF At
    <3> QED BY <1>1, <3>1
  <2> QED BY <1>3, <2>2, <2>3, <2>4, CheckGoes
<1>4. CASE Execute \/ TreatAsApplied
  <2>1. boot'.phase \in {"running", "recording"}
    BY <1>4 DEF Execute, TreatAsApplied, At
  <2> QED BY <1>1, <2>1
<1>5. CASE Start \/ RefuseToStart \/ Record \/ StatementFails \/ Die
  <2>1. boot'.phase \in {"checking", "refused", "down"}
    BY <1>5, PhaseIs DEF Start, RefuseToStart, Record, StatementFails, Die
  <2> QED BY <1>1, <2>1
<1>6. ASSUME NEW r \in Releases, Deploy(r) \/ Edit(r) PROVE ServesItsRelease'
    BY <1>1, <1>6 DEF Deploy, Edit
<1>7. ASSUME NEW t \in Task, AddTask(t) PROVE ServesItsRelease'
    BY <1>2, <1>7 DEF AddTask
<1>8. CASE UNCHANGED migrationVars
    BY <1>2, <1>8 DEF migrationVars
<1>9. CASE Booting
    BY <1>3, <1>4, <1>5, <1>9 DEF Booting
<1>10. CASE Operating
    BY <1>6, <1>7, <1>10 DEF Operating
<1>11. CASE Crash
    BY <1>5, <1>11 DEF Crash
<1>12. CASE \/ \E x \in Upload : Uploading(x)
            \/ \E i \in Ingestion : Ingesting(i)
            \/ \E q \in Query : Querying(q)
    BY <1>8, <1>12 DEF Uploading, Ingesting, Querying
<1>13. CASE UNCHANGED vars
    BY <1>8, <1>13 DEF vars
<1> QED BY <1>9, <1>10, <1>11, <1>12, <1>13 DEF Next

LEMMA StartInit == Init => TaskInv /\ ShapeInv /\ ServesItsRelease
<1> SUFFICES ASSUME Init PROVE TaskInv /\ ShapeInv /\ ServesItsRelease
    OBVIOUS
<1>1. ASSUME NEW tables, NEW recorded, NEW r \in 1..8, NEW phase \in {"down", "serving"},
             MigrationVarsAre(tables, recorded, r, phase)
      PROVE  /\ TaskInv /\ schema = tables /\ ledger = recorded /\ release = r
             /\ edited = {} /\ boot.phase = phase /\ rows[TasksV2] = {}
  <2>1. /\ schema = tables /\ ledger = recorded /\ release = r /\ edited = {}
        /\ rows = [t \in {Tasks, TasksV2} |-> {}] /\ boot.phase = phase
    BY <1>1, PhaseIs DEF MigrationVarsAre
  <2> QED BY <2>1 DEF TaskInv, IsAt, Copied
<1>2. ASSUME NEW m \in 0..8, Applied(m), boot.phase \in {"down", "serving"}
      PROVE  ShapeInv
    BY <1>2 DEF ShapeInv
<1>3. CASE FreshInit
  <2>1. PICK r \in 1..8 :
            \/ MigrationVarsAre(<<>>, <<>>, r, "down")
            \/ MigrationVarsAre([t \in {"conversations"} |-> {"turns"}], <<>>, r, "down")
    BY <1>3, ScriptsAre DEF FreshInit
  <2>2. /\ TaskInv /\ ledger = <<>> /\ boot.phase = "down" /\ rows[TasksV2] = {}
        /\ schema \in {<<>>, [t \in {"conversations"} |-> {"turns"}]}
    BY <1>1, <2>1
  <2>3. DOMAIN ledger = 1..0 /\ DOMAIN schema \subseteq {"conversations"}
    BY <2>2
  <2>4. "conversations" \in DOMAIN schema => schema["conversations"] = {"turns"}
    BY <2>2
  <2>5. Applied(0)
    BY <2>2, <2>3, <2>4, TablesApart DEF Applied, Shape, ConversationColumns
  <2> QED BY <1>2, <2>2, <2>5 DEF ServesItsRelease
<1>4. CASE ServingInit
  <2>1. MigrationVarsAre(FullSchema, [i \in 1..8 |-> "shipped"], 8, "serving")
    BY <1>4, ScriptsAre DEF ServingInit
  <2>2. /\ TaskInv /\ ledger = [i \in 1..8 |-> "shipped"] /\ boot.phase = "serving"
        /\ rows[TasksV2] = {} /\ schema = FullSchema /\ release = 8 /\ edited = {}
    BY <1>1, <2>1
  <2>3. DOMAIN ledger = 1..8
    BY <2>2
  <2>4. /\ DOMAIN schema = {Ledger, "conversations", "knowledge_documents", Tasks}
        /\ schema[Ledger] = {"id"} /\ schema[Tasks] = TaskColumns
        /\ schema["conversations"] = {"turns", "user_name", "storage_key"}
        /\ schema["knowledge_documents"] = {"id", "storage_key"}
    BY <2>2, TablesApart DEF FullSchema
  <2>5. /\ ConversationColumns(8) = {"turns", "user_name", "storage_key"}
        /\ DocumentColumns(8, 0) = {"id", "storage_key"}
        /\ ColumnsOfTasks(8, 0) = TaskColumns
    BY DEF ConversationColumns, DocumentColumns, ColumnsOfTasks, TaskColumns
  <2>6. Applied(8)
    BY <2>2, <2>3, <2>4, <2>5, TablesApart DEF Applied, Shape
  <2>7. ServesItsRelease
    BY <2>2, <2>3 DEF ServesItsRelease, Recorded, Checksum
  <2> QED BY <1>2, <2>2, <2>6, <2>7
<1> QED BY <1>3, <1>4 DEF Init

LEMMA ShapeMeans == ShapeInv => UninterruptedIsComplete
<1> SUFFICES ASSUME ShapeInv, boot.phase = "serving", ~interrupted
             PROVE  \A script \in DOMAIN ledger : AppliedWhole(script)
    BY DEF UninterruptedIsComplete
<1>1. PICK m \in 0..8 : Applied(m)
    BY DEF ShapeInv
<1> QED BY <1>1, ShapeIsWhole

(***************************************************************************)
(* Starts that are cut short anywhere and tried again, with whatever       *)
(* release, never lose a task, for any number of them; a process that      *)
(* serves has every script of its release in the ledger, and their whole   *)
(* effect unless a start was cut short (apply_migrations).                 *)
(***************************************************************************)
THEOREM StartsStaySafe == Spec => StartsAreSafe
<1>1. TaskInv /\ [Next]_vars => [TasksStay]_vars
    BY TaskStep
<1> QED BY <1>1, StartInit, TaskStep, ShapeStep, ServesStep, ShapeMeans, PTL
        DEF Spec, StartsAreSafe, TasksSurvive, TasksStay

-----------------------------------------------------------------------------
(***************************************************************************)
(* Queries.  A thread replies once, by Search or by FallBack when it       *)
(* replies 200, and FallBack is what Search gives way to when it found     *)
(* nothing.                                                                *)
(***************************************************************************)
IsQuery(t) ==
    t \in [pc : {t.pc}, kind : {t.kind}, by : {t.by}, wanted : {t.wanted},
           matches : {t.matches}, allowed : {t.allowed}, files : {t.files},
           read : {t.read}, hits : {t.hits}, status : {t.status}]

QueryOk(t) == IsQuery(t) /\ (t.status = 200 => t.pc = "answered")

QueryInv == DOMAIN query = Query /\ \A q \in Query : QueryOk(query[q])

LEMMA OthersLeaveTheQueries ==
    Next => \/ \E q \in Query : Querying(q)
            \/ UNCHANGED query
            \/ KnowledgeDies
BY DEF Next, Booting, Operating, Uploading, Ingesting, Crash, knowledgeVars, IngestionStep,
       Normalize, OpenIndex, WriteIndex, ReplaceChunks, Complete, IngestionRaises, Fail,
       FailUnrecorded, BeginIngestion

\* What the EXCEPTs of a thread leave of it.
LEMMA GoesToIs ==
    ASSUME NEW t, QueryOk(t), t.pc # "answered", NEW pc
    PROVE  LET u == [t EXCEPT !.pc = pc] IN QueryOk(u) /\ u.status # 200
BY DEF QueryOk, IsQuery

LEMMA ReplyIs ==
    ASSUME QueryInv, NEW q \in Query, NEW status, NEW hits, QueryReply(q, status, hits)
    PROVE  /\ DOMAIN query' = Query /\ \A p \in Query \ {q} : query'[p] = query[p]
           /\ QueryOk(query'[q]) /\ query'[q].status = status /\ query'[q].hits = hits
<1> DEFINE t == query[q]
           u == [t EXCEPT !.pc = "answered", !.status = status, !.hits = hits]
<1>1. query' = [query EXCEPT ![q] = u]
    BY DEF QueryReply
<1>2. IsQuery(t) /\ DOMAIN query = Query
    BY DEF QueryInv, QueryOk
<1> HIDE DEF t
<1>3. IsQuery(u) /\ u.pc = "answered" /\ u.status = status /\ u.hits = hits
    BY <1>2 DEF IsQuery
<1> HIDE DEF u
<1> QED BY <1>1, <1>2, <1>3 DEF QueryOk

\* A step of the thread of q: what it asks for stays, and a reply of 200 is one
\* of the two.
LEMMA QuerySteps ==
    ASSUME QueryInv, NEW q \in Query, Querying(q)
    PROVE  /\ DOMAIN query' = Query /\ \A p \in Query \ {q} : query'[p] = query[p]
           /\ QueryOk(query'[q])
           /\ query[q].pc # "answered" /\ query'[q].status = 200 =>
                \/ Search(q) /\ ~FallsBack(q) /\ query'[q].hits = Hits(q)
                \/ query'[q].hits = {d \in query[q].wanted : ChunksOf(d) # {}}
<1> DEFINE t == query[q]
<1>0. QueryOk(t) /\ DOMAIN query = Query
    BY DEF QueryInv
<1>1. ASSUME NEW kind, NEW header, NEW wanted, NEW matches,
             BeginQuery(q, kind, header, wanted, matches)
      PROVE  /\ DOMAIN query' = Query /\ \A p \in Query \ {q} : query'[p] = query[p]
             /\ QueryOk(query'[q]) /\ query'[q].status # 200
  <2> DEFINE some == AllowedDocuments(header, wanted)
             u == [NoQuery EXCEPT !.pc = "listing", !.kind = kind, !.by = header,
                            !.wanted = wanted, !.matches = matches, !.allowed = some]
  <2>1. query' = [query EXCEPT ![q] = u]
    BY <1>1 DEF BeginQuery
  <2> HIDE DEF some
  <2>2. QueryOk(u) /\ u.status = 0
    <3> DEFINE s == NoQuery
               v == [s EXCEPT !.pc = "listing", !.kind = kind, !.by = header]
               w == [v EXCEPT !.wanted = wanted, !.matches = matches, !.allowed = some]
    <3>1. IsQuery(s) /\ s.status = 0
      BY DEF IsQuery, NoQuery
    <3>2. u = w
      OBVIOUS
    <3> HIDE DEF s, u
    <3>3. IsQuery(v) /\ v.status = 0
      BY <3>1 DEF IsQuery
    <3> HIDE DEF v
    <3>4. IsQuery(w) /\ w.status = 0
      BY <3>3 DEF IsQuery
    <3> HIDE DEF w
    <3> QED BY <3>2, <3>4 DEF QueryOk
  <2> HIDE DEF u
  <2> QED BY <1>0, <2>1, <2>2
<1>2. ASSUME NEW u, query' = [query EXCEPT ![q] = u], QueryOk(u), u.status # 200
      PROVE  /\ DOMAIN query' = Query /\ \A p \in Query \ {q} : query'[p] = query[p]
             /\ QueryOk(query'[q]) /\ query'[q].status # 200
    BY <1>0, <1>2
<1>3. CASE ListIndex(q)
  <2> DEFINE found == {d \in Doc : Index(d) \in objects \union torn}
             u == [t EXCEPT !.pc = "reading", !.files = found]
  <2>1. query' = [query EXCEPT ![q] = u] /\ t.pc = "listing"
    BY <1>3 DEF ListIndex
  <2> HIDE DEF found, t
  <2>2. QueryOk(u) /\ u.status # 200
    BY <1>0, <2>1 DEF QueryOk, IsQuery
  <2> HIDE DEF u
  <2> QED BY <1>2, <2>1, <2>2
<1>4. CASE \E d \in Doc : ReadIndex(q, d)
  <2>1. PICK d \in Doc : ReadIndex(q, d)
    BY <1>4
  <2>2. CASE QueryReply(q, 500, {})
    BY <2>2, ReplyIs
  <2>3. CASE query' = [query EXCEPT ![q].read = @ \union {d}]
    <3> DEFINE u == [t EXCEPT !.read = @ \union {d}]
    <3>1. query' = [query EXCEPT ![q] = u] /\ t.pc = "reading"
      BY <2>1, <2>3 DEF ReadIndex
    <3> HIDE DEF t
    <3>2. QueryOk(u) /\ u.status # 200
      BY <1>0, <3>1 DEF QueryOk, IsQuery
    <3> HIDE DEF u
    <3> QED BY <1>2, <3>1, <3>2
  <2> QED BY <2>1, <2>2, <2>3 DEF ReadIndex
<1>5. CASE Search(q) /\ FallsBack(q)
  <2>1. query' = [query EXCEPT ![q] = [t EXCEPT !.pc = "resolving"]] /\ t.pc = "reading"
    BY <1>5 DEF Search
  <2>2. QueryOk([t EXCEPT !.pc = "resolving"]) /\ [t EXCEPT !.pc = "resolving"].status # 200
    BY <1>0, <2>1, GoesToIs
  <2> QED BY <1>2, <2>1, <2>2
<1>6. CASE Search(q) /\ ~FallsBack(q)
  <2>1. QueryReply(q, 200, Hits(q))
    BY <1>6 DEF Search
  <2> QED BY <1>6, <2>1, ReplyIs
<1>7. CASE ResolveAttached(q)
  <2>1. CASE QueryReply(q, 404, {})
    BY <2>1, ReplyIs
  <2>2. CASE query' = [query EXCEPT ![q].pc = "attached"]
    <3>1. query' = [query EXCEPT ![q] = [t EXCEPT !.pc = "attached"]] /\ t.pc = "resolving"
      BY <1>7, <2>2 DEF ResolveAttached
    <3>2. QueryOk([t EXCEPT !.pc = "attached"]) /\ [t EXCEPT !.pc = "attached"].status # 200
      BY <1>0, <3>1, GoesToIs
    <3> QED BY <1>2, <3>1, <3>2
  <2> QED BY <1>7, <2>1, <2>2 DEF ResolveAttached
<1>8. CASE FallBack(q)
    BY <1>8, ReplyIs DEF FallBack
<1>9. CASE QueryFails(q)
    BY <1>9, ReplyIs DEF QueryFails
<1> QED BY <1>1, <1>3, <1>4, <1>5, <1>6, <1>7, <1>8, <1>9 DEF Querying, QueryStep

\* A process that dies replies to nobody.
LEMMA QueriesDie ==
    ASSUME QueryInv, KnowledgeDies
    PROVE  QueryInv' /\ \A q \in Query : query[q].pc # "answered" => query'[q].status # 200
<1>1. query' = [q \in Query |-> Dead(query[q])]
    BY DEF KnowledgeDies
<1>2. ASSUME NEW q \in Query
      PROVE  QueryOk(Dead(query[q])) /\ (query[q].pc # "answered" => Dead(query[q]).status # 200)
  <2>1. QueryOk(query[q])
    BY DEF QueryInv
  <2>2. CASE Dead(query[q]) = query[q]
    BY <2>1, <2>2 DEF QueryOk
  <2>3. CASE Dead(query[q]) # query[q]
    <3>1. Dead(query[q]) = [query[q] EXCEPT !.pc = "lost"] /\ query[q].pc # "answered"
      BY <2>3 DEF Dead
    <3> QED BY <2>1, <3>1, GoesToIs
  <2> QED BY <2>2, <2>3
<1> QED BY <1>1, <1>2 DEF QueryInv

LEMMA QueryInvHolds == Spec => []QueryInv
<1>1. Init => QueryInv
  <2>1. QueryOk(NoQuery)
    BY DEF QueryOk, IsQuery, NoQuery
  <2> QED BY <2>1 DEF Init, KnowledgeInit, QueryInv
<1>2. QueryInv /\ [Next]_vars => QueryInv'
  <2>1. ASSUME QueryInv, NEW q \in Query, Querying(q) PROVE QueryInv'
    BY <2>1, QuerySteps DEF QueryInv
  <2>2. QueryInv /\ UNCHANGED query => QueryInv'
    BY DEF QueryInv
  <2>3. UNCHANGED vars => UNCHANGED query
    BY DEF vars, knowledgeVars
  <2> QED BY <2>1, <2>2, <2>3, QueriesDie, OthersLeaveTheQueries
<1> QED BY <1>1, <1>2, PTL DEF Spec

(***************************************************************************)
(* AttachedAreFound.  For any documents, ingestions, callers and queries:  *)
(* an answer about attached documents which its caller may read has a hit  *)
(* when one of them is indexed, whatever the search found.                 *)
(***************************************************************************)
THEOREM AttachedAreFound == Spec => AttachedDocumentsAnswer
<1> DEFINE Found(q) ==
             /\ Answered(q) /\ query[q].kind = "answer"
             /\ \A d \in query[q].wanted : MayRead(query[q].by, d)
             /\ \E d \in query[q].wanted : UploadStatus(d) = "indexed"
             => query'[q].hits # {}
<1>1. ASSUME QueryInv, Next, NEW q \in Query PROVE Found(q)
  <2>1. SUFFICES ASSUME Answered(q), query[q].kind = "answer",
                        \E d \in query[q].wanted : UploadStatus(d) = "indexed"
                 PROVE  query'[q].hits # {}
    OBVIOUS
  <2>2. query[q].pc # "answered" /\ query[q].status # 200 /\ query'[q].status = 200
    BY <1>1, <2>1 DEF Answered, QueryInv, QueryOk
  <2>3. Querying(q)
    <3>1. ASSUME NEW p \in Query, Querying(p) PROVE p = q
      BY <1>1, <2>2, <3>1, QuerySteps
    <3> QED BY <1>1, <2>2, <3>1, QueriesDie, OthersLeaveTheQueries
  <2>4. CASE Search(q) /\ ~FallsBack(q) /\ query'[q].hits = Hits(q)
    BY <2>1, <2>4 DEF FallsBack
  <2>5. CASE query'[q].hits = {d \in query[q].wanted : ChunksOf(d) # {}}
    <3>1. PICK d \in query[q].wanted : UploadStatus(d) = "indexed"
      BY <2>1
    <3>2. ChunksOf(d) # {}
      BY <3>1 DEF UploadStatus
    <3> QED BY <2>5, <3>2
  <2> QED BY <1>1, <2>2, <2>3, <2>4, <2>5, QuerySteps
<1>2. QueryInv /\ [Next]_vars => [\A q \in Query : Found(q)]_vars
  BY <1>1
<1> QED BY <1>2, QueryInvHolds, PTL DEF Spec, AttachedDocumentsAnswer
=============================================================================
