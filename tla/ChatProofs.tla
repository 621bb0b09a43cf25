------------------------------ MODULE ChatProofs ------------------------------
(***************************************************************************)
(* What holds of chat turns for any number of turns on the session, any    *)
(* requests and answers, any forbidden phrases, any number of history      *)
(* operations, on both backends, with and without failing stores.          *)
(*                                                                         *)
(* A turn is sound by its request, its run and what its client was sent    *)
(* alone (SoundTurn), so that a step of one turn leaves the others sound.  *)
(* What turns leave to each other are messages: a sound message is a       *)
(* refusal or what a turn that can no longer change had said (GoodMessage). *)
(***************************************************************************)
EXTENDS ChatSystem, TLAPS, SequenceTheorems

Phase ==
  {"idle", "preguard", "retrieving", "guard", "planning", "searching",
   "answering", "failing", "settling", "filing", "refused", "prerefused",
   "logging", "reading", "titling", "generating", "writing", "finishing", "over"}

Early == {"idle", "preguard", "retrieving", "guard"}
Late == {"logging", "reading", "titling", "generating", "writing", "finishing"}

Title == {"none", "renamed", "blocked", "derived"}
Buffer == [text : Seq(Token), held : Nat, blocked : BOOLEAN]

RunRecord ==
  [pc : Phase, todo : Seq(Token), buffer : Buffer, suspended : BOOLEAN,
   open : BOOLEAN, links : SUBSET Link, chart : BOOLEAN, title : Title,
   created : SUBSET Turn]

Sent ==
  [shown : Seq(Token), refused : BOOLEAN, files : SUBSET Link, chart : BOOLEAN,
   error : BOOLEAN, done : BOOLEAN]

AnyText == {Refusal} \cup {Strip(text) : text \in Seq(Token)}
AnyMessage == [turn : Turn, text : AnyText, links : SUBSET (Turn \X Link)]
Row == [title : Title, created : SUBSET Turn, messages : Seq(AnyMessage)]

TypeOK ==
  /\ ask \in [Turn -> Requests]
  /\ base \in [Turn -> Seq(AnyMessage)]
  /\ run \in [Turn -> RunRecord]
  /\ out \in [Turn -> Sent]
  /\ session \in Row \cup {NoSession}
  /\ visible \in Seq(AnyMessage)

(* What a turn has said, and may end with, is reviewed; the buffer holds    *)
(* back what the mode asks for.                                             *)
Reviewed(mode, buffer) ==
  /\ buffer.held <= Len(buffer.text)
  /\ Passes(mode, Released(buffer))
  /\ ~buffer.blocked => Passes(mode, buffer.text)

HoldsBack(mode, buffer) ==
  buffer.held = IF mode = "off" \/ buffer.text = <<>> THEN 0 ELSE Holdback

(* A turn said all of its answer, or has no safeguard and lost its client.  *)
ToTheEnd(a, r) == r.todo = <<>> \/ (a.mode = "off" /\ ~r.open)

FilesOf(r) == LinksIn(Strip(r.buffer.text))

(* The turn a with the run r whose client was sent o.                       *)
SoundTurn(a, r, o) ==
  /\ o.shown = Released(r.buffer)
  /\ Reviewed(a.mode, r.buffer)
  /\ o.done => r.pc = "over"
  /\ r.pc \in Early => r.buffer = EmptyBuffer /\ r.todo = <<>> /\ r.open
  /\ r.pc \in Early \cup LlmPhases \cup {"settling", "failing"} => r.links = {}
  /\ r.pc \in Early \cup LlmPhases \cup {"settling", "failing", "filing"} => ~o.refused
  /\ r.pc \in {"refused", "prerefused"} => o.refused
  /\ r.pc = "failing" => o.error
  /\ r.pc \in LlmPhases => ~r.buffer.blocked /\ HoldsBack(a.mode, r.buffer)
  /\ r.pc = "settling" /\ ~r.buffer.blocked =>
       HoldsBack(a.mode, r.buffer) /\ (r.todo = <<>> \/ ~r.open)
  /\ r.pc \in Late \cup {"filing"} /\ ~o.refused =>
       /\ r.buffer.held = 0
       /\ Passes(a.mode, Strip(r.buffer.text))
       /\ ToTheEnd(a, r)
       /\ r.links \subseteq FilesOf(r)
  /\ r.pc \in Late /\ ~o.refused =>
       r.links = FilesOf(r) /\ o.files = r.links /\ o.chart = r.chart
  /\ o.done /\ ~o.error /\ ~o.refused =>
       /\ r.todo = <<>>
       /\ r.buffer.held = 0
       /\ o.files = FilesOf(r)
       /\ o.chart = r.chart
  /\ r.pc = "over" /\ r.open => o.done \/ FilesOf(r) # {}

TurnInv == \A t \in Turn : SoundTurn(ask[t], run[t], out[t])

(* What the turn m.turn has left for good, with the requests and the runs.  *)
GoodMessage(m, requests, runs) ==
  /\ runs[m.turn].pc \in {"finishing", "over"}
  /\ \/ m.text = Refusal
     \/ /\ m.text = Strip(runs[m.turn].buffer.text)
        /\ Passes(requests[m.turn].mode, m.text)
        /\ ToTheEnd(requests[m.turn], runs[m.turn])

Good(messages) == \A i \in 1..Len(messages) : GoodMessage(messages[i], ask, run)

StoreInv ==
  /\ session # NoSession => Good(session.messages)
  /\ Good(visible)
  /\ \A t \in Turn : Good(base[t])

(* Bytes are written before anything names them, and never deleted.         *)
Backed(messages) == \A i \in 1..Len(messages) : messages[i].links \subseteq object

LinkInv ==
  /\ artifact \subseteq object
  /\ \A t \in Turn : {t} \X run[t].links \subseteq object
  /\ session # NoSession => Backed(session.messages)
  /\ Backed(visible)
  /\ \A t \in Turn : Backed(base[t])

(* A turn that writes has the title of the owner, if it read the title      *)
(* while that was there.                                                    *)
TitleInv ==
  \A t \in Turn \ stale : session.title = "renamed" =>
    /\ run[t].pc # "generating"
    /\ run[t].pc = "writing" /\ ~out[t].refused => run[t].title = "renamed"

IInv == TypeOK /\ TurnInv /\ StoreInv /\ LinkInv /\ TitleInv

-----------------------------------------------------------------------------
(* The buffer.                                                              *)

(* What passes review does so to every point of it: a forbidden phrase in a *)
(* prefix is one in the text.                                               *)
LEMMA PrefixPasses ==
  ASSUME NEW mode \in Mode, NEW S, NEW text \in Seq(S), NEW prefix \in Seq(S),
         Len(prefix) <= Len(text),
         \A i \in 1..Len(prefix) : prefix[i] = text[i],
         Passes(mode, text)
  PROVE  Passes(mode, prefix)
<1>1. SUFFICES ASSUME ReviewsOutput(mode), NEW phrase \in Forbidden,
                      Occurs(phrase, prefix)
               PROVE  Occurs(phrase, text)
  BY DEF Passes, Allowed
<1>2. PICK i \in 1..Len(prefix) :
         /\ i + Len(phrase) - 1 <= Len(prefix)
         /\ \A j \in 1..Len(phrase) : prefix[i + j - 1] = phrase[j]
  BY <1>1 DEF Occurs
<1>3. Len(phrase) \in Nat /\ Len(prefix) \in Nat /\ Len(text) \in Nat
  BY ModerationAssumption
<1>4. i \in 1..Len(text) /\ i + Len(phrase) - 1 <= Len(text)
  BY <1>2, <1>3
<1>5. ASSUME NEW j \in 1..Len(phrase) PROVE text[i + j - 1] = phrase[j]
  <2>1. i + j - 1 \in 1..Len(prefix)
    BY <1>2, <1>3
  <2> QED BY <2>1, <1>2
<1> QED BY <1>4, <1>5 DEF Occurs

(* The empty buffer is sound.                                               *)
LEMMA EmptyBufferIsReviewed ==
  ASSUME NEW mode \in Mode
  PROVE  /\ EmptyBuffer \in Buffer
         /\ Reviewed(mode, EmptyBuffer)
         /\ HoldsBack(mode, EmptyBuffer)
         /\ Released(EmptyBuffer) = <<>>
<1>1. EmptyBuffer \in Buffer /\ Len(EmptyBuffer.text) = 0
  BY DEF EmptyBuffer, Buffer
<1>2. SubSeq(<<>>, 1, 0) = <<>>
  BY SubSeqEmpty, EmptySeq
<1>3. Released(EmptyBuffer) = <<>>
  BY <1>2 DEF Released, EmptyBuffer
<1>4. Passes(mode, <<>>)
  BY DEF Passes, Allowed, Occurs
<1> QED BY <1>1, <1>3, <1>4 DEF Reviewed, HoldsBack, EmptyBuffer

(* What is released of a buffer is the text, without what is held back.     *)
LEMMA ReleasedIsAPrefix ==
  ASSUME NEW b \in Buffer, b.held <= Len(b.text)
  PROVE  /\ Released(b) \in Seq(Token)
         /\ Len(Released(b)) = Len(b.text) - b.held
         /\ \A i \in 1..Len(Released(b)) : Released(b)[i] = b.text[i]
         /\ b.held = 0 => Released(b) = b.text
<1>1. b.text \in Seq(Token) /\ b.held \in Nat /\ Len(b.text) \in Nat
  BY DEF Buffer
<1>2. Len(b.text) - b.held \in Nat /\ Len(b.text) - b.held <= Len(b.text)
  BY <1>1
<1>3. \A i \in 1..Len(b.text) : b.text[i] \in Token
  BY <1>1
<1>4. /\ SubSeq(b.text, 1, Len(b.text) - b.held) \in Seq(Token)
      /\ Len(SubSeq(b.text, 1, Len(b.text) - b.held)) = Len(b.text) - b.held
      /\ \A i \in 1..(Len(b.text) - b.held) :
           SubSeq(b.text, 1, Len(b.text) - b.held)[i] = b.text[i]
  BY <1>1, <1>2, <1>3
<1>5. b.held = 0 => SubSeq(b.text, 1, Len(b.text) - b.held) = b.text
  BY <1>1, SubSeqFull
<1> QED BY <1>4, <1>5 DEF Released

(* A token leaves the buffer reviewed, and what is released passes.         *)
LEMMA PushReviews ==
  ASSUME NEW mode \in Mode, NEW b \in Buffer, NEW token \in Token,
         Reviewed(mode, b), HoldsBack(mode, b), ~b.blocked
  PROVE  /\ Push(mode, b, token) \in Buffer
         /\ Reviewed(mode, Push(mode, b, token))
         /\ ~Push(mode, b, token).blocked => HoldsBack(mode, Push(mode, b, token))
<1> DEFINE text == Append(b.text, token)
           after == Push(mode, b, token)
<1>1. /\ b.text \in Seq(Token) /\ b.held \in Nat /\ Len(b.text) \in Nat
      /\ text \in Seq(Token) /\ Len(text) = Len(b.text) + 1
      /\ \A i \in 1..Len(b.text) : text[i] = b.text[i]
      /\ text # <<>>
  BY DEF Buffer
<1>2. b.held <= Len(b.text) /\ Passes(mode, b.text)
  BY DEF Reviewed
<1> HIDE DEF text
<1>3. CASE Passes(mode, text)
  <2>1. after = [text |-> text, held |-> HeldAfter(mode, b), blocked |-> FALSE]
    BY <1>3 DEF Push, text
  <2>2. /\ HeldAfter(mode, b) \in Nat
        /\ HeldAfter(mode, b) <= Len(text)
        /\ HeldAfter(mode, b) = IF mode = "off" THEN 0 ELSE Holdback
    BY <1>1, <1>2 DEF HeldAfter, Holdback, HoldsBack
  <2> HIDE DEF after
  <2>3. /\ after \in Buffer /\ after.text = text /\ ~after.blocked
        /\ after.held = HeldAfter(mode, b)
    BY <2>1, <2>2, <1>1 DEF Buffer
  <2>4. Passes(mode, Released(after))
    BY <2>2, <2>3, <1>1, <1>3, ReleasedIsAPrefix, PrefixPasses
  <2>5. Reviewed(mode, after) /\ HoldsBack(mode, after)
    BY <2>2, <2>3, <2>4, <1>1, <1>3 DEF Reviewed, HoldsBack
  <2> QED BY <2>3, <2>5 DEF after
<1>4. CASE ~Passes(mode, text)
  <2>1. after = [text |-> text, held |-> b.held + 1, blocked |-> TRUE]
    BY <1>4 DEF Push, text
  <2> HIDE DEF after
  <2>2. after \in Buffer /\ after.text = text /\ after.blocked /\ after.held = b.held + 1
    BY <2>1, <1>1 DEF Buffer
  <2>3. /\ Released(after) \in Seq(Token)
        /\ Len(Released(after)) <= Len(b.text)
        /\ \A i \in 1..Len(Released(after)) : Released(after)[i] = b.text[i]
    <3>1. after.held <= Len(after.text)
      BY <2>2, <1>1, <1>2
    <3>2. /\ Released(after) \in Seq(Token)
          /\ Len(Released(after)) = Len(after.text) - after.held
          /\ \A i \in 1..Len(Released(after)) : Released(after)[i] = after.text[i]
      BY <2>2, <3>1, ReleasedIsAPrefix
    <3>3. Len(Released(after)) <= Len(b.text)
      BY <3>2, <2>2, <1>1
    <3>4. ASSUME NEW i \in 1..Len(Released(after)) PROVE Released(after)[i] = b.text[i]
      <4>1. i \in 1..Len(b.text) /\ after.text[i] = text[i]
        BY <3>2, <3>3, <2>2, <1>1
      <4> QED BY <3>2, <4>1, <1>1
    <3> QED BY <3>2, <3>3, <3>4
  <2>4. Passes(mode, Released(after))
    BY <2>3, <1>1, <1>2, PrefixPasses
  <2>5. Reviewed(mode, after)
    BY <2>2, <2>4, <1>1, <1>2 DEF Reviewed
  <2> QED BY <2>2, <2>5 DEF after
<1> QED BY <1>3, <1>4

(* At the end nothing is held back of a text that passes.                   *)
LEMMA FlushReleasesAll ==
  ASSUME NEW mode \in Mode, NEW b \in Buffer, Reviewed(mode, b), ~b.blocked
  PROVE  /\ Flush(b) \in Buffer
         /\ Reviewed(mode, Flush(b))
         /\ Flush(b).held = 0 /\ Flush(b).text = b.text
         /\ b.held = 0 => Flush(b) = b
         /\ b.held # 0 => Flush(b) # b
<1>1. Flush(b) = [b EXCEPT !.held = 0]
  BY DEF Flush
<1>2. /\ Flush(b) \in Buffer /\ Flush(b).held = 0 /\ Flush(b).text = b.text
      /\ Flush(b).blocked = b.blocked
      /\ b.held = 0 => Flush(b) = b
  BY <1>1 DEF Buffer
<1>3. Passes(mode, b.text) /\ Len(b.text) \in Nat
  BY DEF Reviewed, Buffer
<1>4. Released(Flush(b)) = b.text
  BY <1>2, <1>3, ReleasedIsAPrefix
<1> QED BY <1>2, <1>3, <1>4 DEF Reviewed

-----------------------------------------------------------------------------
(* The steps of one turn.                                                   *)

(* A step of t moves its own state, to a sound one, and a turn that has     *)
(* been stored no longer changes what it said.                              *)
Moves(t) ==
  /\ ask' = [ask EXCEPT ![t] = ask'[t]]
  /\ run' = [run EXCEPT ![t] = run'[t]]
  /\ out' = [out EXCEPT ![t] = out'[t]]
  /\ ask'[t] \in Requests /\ run'[t] \in RunRecord /\ out'[t] \in Sent
  /\ SoundTurn(ask'[t], run'[t], out'[t])
  /\ run[t].pc \in {"finishing", "over"} =>
       /\ run'[t].pc \in {"finishing", "over"}
       /\ run'[t].buffer = run[t].buffer
       /\ run'[t].todo = run[t].todo
       /\ run'[t].open = run[t].open
       /\ ask'[t] = ask[t]

(* How a step of one turn is written.                                       *)
LEMMA StepMoves ==
  ASSUME TypeOK, NEW t \in Turn, NEW r \in RunRecord, NEW o \in Sent,
         ask' = ask,
         run' = [run EXCEPT ![t] = r],
         out' = [out EXCEPT ![t] = o],
         SoundTurn(ask[t], r, o),
         run[t].pc \in {"finishing", "over"} =>
           /\ r.pc \in {"finishing", "over"}
           /\ r.buffer = run[t].buffer /\ r.todo = run[t].todo
           /\ r.open = run[t].open
  PROVE  Moves(t)
<1>1. /\ run'[t] = r /\ out'[t] = o /\ ask'[t] = ask[t] /\ ask[t] \in Requests
      /\ ask' = [ask EXCEPT ![t] = ask[t]]
  BY DEF TypeOK
<1> QED BY <1>1 DEF Moves

(* A step that changes the record of the run only.                          *)
LEMMA QuietStepMoves ==
  ASSUME TypeOK, NEW t \in Turn, NEW r \in RunRecord,
         ask' = ask,
         run' = [run EXCEPT ![t] = r],
         out' = out,
         SoundTurn(ask[t], r, out[t]),
         run[t].pc \in {"finishing", "over"} =>
           /\ r.pc \in {"finishing", "over"}
           /\ r.buffer = run[t].buffer /\ r.todo = run[t].todo
           /\ r.open = run[t].open
  PROVE  Moves(t)
<1>1. out' = [out EXCEPT ![t] = out[t]] /\ out[t] \in Sent
  BY DEF TypeOK
<1> QED BY <1>1, StepMoves

LEMMA BeginMoves ==
  ASSUME TypeOK, TurnInv, NEW t \in Turn, NEW a \in Ask[t], Begin(t, a)
  PROVE  Moves(t)
<1> DEFINE next == IF a.knowledge THEN "preguard" ELSE "guard"
           r == [run[t] EXCEPT !.pc = next]
<1>1. /\ a \in Requests /\ a.mode \in Mode
      /\ run[t] \in RunRecord /\ out[t] \in Sent /\ run[t].pc = "idle"
      /\ SoundTurn(ask[t], run[t], out[t])
  BY StreamAssumption DEF TypeOK, TurnInv, Begin, Requests
<1>2. /\ r \in RunRecord /\ r.pc \in {"preguard", "guard"}
      /\ r.buffer = EmptyBuffer /\ r.todo = <<>> /\ r.open /\ r.links = {}
  BY <1>1 DEF RunRecord, Phase, SoundTurn, Early
<1>3. /\ ask' = [ask EXCEPT ![t] = a] /\ run' = [run EXCEPT ![t] = r]
      /\ out' = [out EXCEPT ![t] = out[t]]
  BY <1>1 DEF Begin, Goto, Become, TypeOK
<1>4. /\ out[t].shown = Released(EmptyBuffer) /\ ~out[t].done /\ ~out[t].refused
  BY <1>1 DEF SoundTurn, Early
<1> HIDE DEF r, next
<1>5. SoundTurn(a, r, out[t])
  BY <1>1, <1>2, <1>4, EmptyBufferIsReviewed DEF SoundTurn, Early, Late, LlmPhases
<1>6. ask'[t] = a /\ run'[t] = r /\ out'[t] = out[t]
  BY <1>3 DEF TypeOK
<1> QED BY <1>1, <1>2, <1>3, <1>5, <1>6 DEF Moves

(* A turn is refused, dies or ends in an error.                             *)
LEMMA EndInErrorMoves ==
  ASSUME TypeOK, TurnInv, NEW t \in Turn, EndInError(t), ask' = ask,
         run[t].pc \notin {"finishing", "over"}
  PROVE  Moves(t)
<1> DEFINE r == [run[t] EXCEPT !.pc = "over"]
           o == [out[t] EXCEPT !.error = TRUE, !.done = TRUE]
<1>1. /\ run[t] \in RunRecord /\ out[t] \in Sent
      /\ SoundTurn(ask[t], run[t], out[t])
  BY DEF TypeOK, TurnInv
<1>2. /\ r \in RunRecord /\ r.pc = "over" /\ r.buffer = run[t].buffer
      /\ r.open = run[t].open
  BY <1>1 DEF RunRecord, Phase
<1>3. o \in Sent /\ o.error /\ o.done /\ o.shown = out[t].shown
  BY <1>1 DEF Sent
<1>4. run' = [run EXCEPT ![t] = r]
  BY DEF EndInError, Dies, Goto, Become
<1>5. CASE run[t].open
  <2>1. out' = [out EXCEPT ![t] = o]
    BY <1>5 DEF EndInError, Send
  <2> HIDE DEF r, o
  <2>2. SoundTurn(ask[t], r, o)
    BY <1>1, <1>2, <1>3 DEF SoundTurn, Early, Late, LlmPhases
  <2> QED BY <1>2, <1>3, <1>4, <2>1, <2>2, StepMoves
<1>6. CASE ~run[t].open
  <2>1. out' = out
    BY <1>6 DEF EndInError, Dies
  <2> HIDE DEF r, o
  <2>2. SoundTurn(ask[t], r, out[t])
    BY <1>1, <1>2, <1>6 DEF SoundTurn, Early, Late, LlmPhases
  <2> QED BY <1>2, <1>4, <2>1, <2>2, QuietStepMoves
<1> QED BY <1>5, <1>6

(* A token is said, and reviewed before any of it is sent.                  *)
LEMMA SayMoves ==
  ASSUME TypeOK, TurnInv, NEW t \in Turn, NEW token \in Token,
         NEW todo \in Seq(Token), NEW next \in LlmPhases,
         run[t].pc \in LlmPhases, Say(t, token, todo, next), ask' = ask
  PROVE  Moves(t)
<1> DEFINE mode == ask[t].mode
           after == Push(mode, run[t].buffer, token)
           fresh == Released(after) # Released(run[t].buffer)
           r == [run[t] EXCEPT !.buffer = after, !.todo = todo,
                   !.suspended = fresh,
                   !.pc = IF after.blocked THEN "settling" ELSE next]
           o == [out[t] EXCEPT !.shown = Released(after)]
<1>1. /\ run[t] \in RunRecord /\ run[t].buffer \in Buffer /\ out[t] \in Sent
      /\ mode \in Mode /\ SoundTurn(ask[t], run[t], out[t])
  BY DEF TypeOK, TurnInv, Requests, RunRecord
<1>2. /\ after \in Buffer /\ Reviewed(mode, after)
      /\ ~after.blocked => HoldsBack(mode, after)
  <2>1. /\ Reviewed(mode, run[t].buffer) /\ HoldsBack(mode, run[t].buffer)
        /\ ~run[t].buffer.blocked
    BY <1>1 DEF SoundTurn
  <2> HIDE DEF mode
  <2> QED BY <1>1, <2>1, PushReviews
<1>3. /\ run' = [run EXCEPT ![t] = r] /\ out' = [out EXCEPT ![t] = o]
  BY DEF Say, Become, Send
<1> HIDE DEF after
<1>4. Released(after) \in Seq(Token)
  BY <1>2, ReleasedIsAPrefix DEF Reviewed
<1>5. after.blocked \in BOOLEAN
  BY <1>2 DEF Buffer
<1>6. /\ r \in RunRecord /\ r.buffer = after /\ r.open = run[t].open
      /\ r.links = run[t].links
      /\ IF after.blocked THEN r.pc = "settling" ELSE r.pc = next
  BY <1>1, <1>2, <1>5 DEF RunRecord, Phase, LlmPhases
<1>7. /\ o \in Sent /\ o.shown = Released(after) /\ o.done = out[t].done
      /\ o.refused = out[t].refused
  BY <1>1, <1>4 DEF Sent
<1> HIDE DEF r, o
<1>8. SoundTurn(ask[t], r, o)
  BY <1>1, <1>2, <1>6, <1>7 DEF SoundTurn, Early, Late, LlmPhases
<1> QED BY <1>3, <1>6, <1>7, <1>8, StepMoves DEF LlmPhases

(* One step per action of a turn.                                           *)
LEMMA StepsMove ==
  ASSUME TypeOK, TurnInv, NEW t \in Turn, Step(t) \/ Disconnect(t)
  PROVE  Moves(t)
<1>a. /\ run[t] \in RunRecord /\ out[t] \in Sent
      /\ ask[t] \in Requests /\ ask[t].mode \in Mode
      /\ SoundTurn(ask[t], run[t], out[t])
  BY DEF TypeOK, TurnInv, Requests
<1>b. run[t].buffer \in Buffer /\ run[t].todo \in Seq(Token) /\ run[t].links \in SUBSET Link
  BY <1>a DEF RunRecord
<1>1. ASSUME PreGuard(t) PROVE Moves(t)
  <2>1. CASE ReviewsInput(ask[t].mode) /\ ask[t].input = "unsafe"
    <3> DEFINE r == [run[t] EXCEPT !.pc = "prerefused"]
               o == [out[t] EXCEPT !.refused = TRUE]
    <3>1. r \in RunRecord /\ r.pc = "prerefused" /\ r.buffer = run[t].buffer /\ r.todo = run[t].todo /\ r.open = run[t].open
      /\ r.links = run[t].links /\ r.chart = run[t].chart
      BY <1>a, <1>b, <1>1 DEF RunRecord, Phase, Title, PreGuard, LlmPhases
    <3>2. o \in Sent /\ o.shown = out[t].shown /\ o.done = out[t].done /\ o.error = out[t].error
      /\ o.refused
      BY <1>a, <1>b, <1>1 DEF RunRecord, Sent, PreGuard
    <3>3. ask' = ask /\ run' = [run EXCEPT ![t] = r] /\ out' = [out EXCEPT ![t] = o]
      BY <1>1, <2>1 DEF PreGuard, Goto, Become, Send, Keep, Refuse
    <3> HIDE DEF r, o
    <3>4. SoundTurn(ask[t], r, o)
      BY <3>1, <3>2, <1>a, <1>1, <2>1 DEF SoundTurn, Early, Late, LlmPhases, ToTheEnd, FilesOf, PreGuard
    <3>5. run[t].pc \notin {"finishing", "over"}
      BY <1>1 DEF PreGuard, LlmPhases
    <3> QED BY <3>1, <3>2, <3>3, <3>4, <3>5, StepMoves
  <2>2. CASE ~(ReviewsInput(ask[t].mode) /\ ask[t].input = "unsafe")
    <3> DEFINE r == [run[t] EXCEPT !.pc = "retrieving"]
    <3>1. r \in RunRecord /\ r.pc = "retrieving" /\ r.buffer = run[t].buffer /\ r.todo = run[t].todo /\ r.open = run[t].open
      /\ r.links = run[t].links /\ r.chart = run[t].chart
      BY <1>a, <1>b, <1>1 DEF RunRecord, Phase, Title, PreGuard, LlmPhases
    <3>2. ask' = ask /\ run' = [run EXCEPT ![t] = r] /\ out' = out
      BY <1>1, <2>2 DEF PreGuard, Goto, Become, Keep, Dies
    <3> HIDE DEF r
    <3>3. SoundTurn(ask[t], r, out[t])
      BY <3>1, <1>a, <1>1, <2>2 DEF SoundTurn, Early, Late, LlmPhases, ToTheEnd, FilesOf, PreGuard
    <3>4. run[t].pc # "over" /\ (run[t].pc = "finishing" => r.pc = "over")
      BY <1>1, <3>1 DEF PreGuard, LlmPhases
    <3> QED BY <3>1, <3>2, <3>3, <3>4, QuietStepMoves
  <2> QED BY <2>1, <2>2
<1>2. ASSUME Retrieve(t) PROVE Moves(t)
  <2> DEFINE r == [run[t] EXCEPT !.pc = "guard"]
  <2>1. r \in RunRecord /\ r.pc = "guard" /\ r.buffer = run[t].buffer /\ r.todo = run[t].todo /\ r.open = run[t].open
      /\ r.links = run[t].links /\ r.chart = run[t].chart
    BY <1>a, <1>b, <1>2 DEF RunRecord, Phase, Title, Retrieve, LlmPhases
  <2>2. ask' = ask /\ run' = [run EXCEPT ![t] = r] /\ out' = out
    BY <1>2 DEF Retrieve, Goto, Become, Keep
  <2> HIDE DEF r
  <2>3. SoundTurn(ask[t], r, out[t])
    BY <2>1, <1>a, <1>2 DEF SoundTurn, Early, Late, LlmPhases, ToTheEnd, FilesOf, Retrieve
  <2>4. run[t].pc \notin {"finishing", "over"}
    BY <1>2 DEF Retrieve, LlmPhases
  <2> QED BY <2>1, <2>2, <2>3, <2>4, QuietStepMoves
<1>3. ASSUME RetrieveFails(t) PROVE Moves(t)
  <2> QED BY <1>3, EndInErrorMoves DEF RetrieveFails, Keep
<1>4. ASSUME InputGuard(t) PROVE Moves(t)
  <2>1. CASE ReviewsInput(ask[t].mode) /\ ask[t].input # "safe"
    <3> DEFINE r == [run[t] EXCEPT !.pc = "refused"]
               o == [out[t] EXCEPT !.refused = TRUE]
    <3>1. r \in RunRecord /\ r.pc = "refused" /\ r.buffer = run[t].buffer /\ r.todo = run[t].todo /\ r.open = run[t].open
      /\ r.links = run[t].links /\ r.chart = run[t].chart
      BY <1>a, <1>b, <1>4 DEF RunRecord, Phase, Title, InputGuard, LlmPhases
    <3>2. o \in Sent /\ o.shown = out[t].shown /\ o.done = out[t].done /\ o.error = out[t].error
      /\ o.refused
      BY <1>a, <1>b, <1>4 DEF RunRecord, Sent, InputGuard
    <3>3. ask' = ask /\ run' = [run EXCEPT ![t] = r] /\ out' = [out EXCEPT ![t] = o]
      BY <1>4, <2>1 DEF InputGuard, Goto, Become, Send, Keep, Refuse
    <3> HIDE DEF r, o
    <3>4. SoundTurn(ask[t], r, o)
      BY <3>1, <3>2, <1>a, <1>4, <2>1 DEF SoundTurn, Early, Late, LlmPhases, ToTheEnd, FilesOf, InputGuard
    <3>5. run[t].pc \notin {"finishing", "over"}
      BY <1>4 DEF InputGuard, LlmPhases
    <3> QED BY <3>1, <3>2, <3>3, <3>4, <3>5, StepMoves
  <2>2. CASE ~(ReviewsInput(ask[t].mode) /\ ask[t].input # "safe")
    <3> DEFINE r == [run[t] EXCEPT !.pc = FirstPhase(ask[t]), !.todo = ask[t].reply]
    <3>1. /\ r \in RunRecord /\ r.pc \in LlmPhases /\ r.buffer = run[t].buffer
          /\ r.open = run[t].open /\ r.links = run[t].links
      BY <1>a, <1>b DEF RunRecord, Phase, Requests, FirstPhase, LlmPhases
    <3>2. ask' = ask /\ run' = [run EXCEPT ![t] = r] /\ out' = out
      BY <1>4, <2>2 DEF InputGuard, Become, Keep
    <3> HIDE DEF r
    <3>3. r.buffer = EmptyBuffer /\ run[t].pc = "guard" /\ ~EmptyBuffer.blocked
      BY <3>1, <1>a, <1>4 DEF InputGuard, SoundTurn, Early, EmptyBuffer
    <3>4. SoundTurn(ask[t], r, out[t])
      BY <3>1, <3>3, <1>a, EmptyBufferIsReviewed DEF SoundTurn, Early, Late, LlmPhases
    <3> QED BY <3>1, <3>2, <3>3, <3>4, QuietStepMoves
  <2> QED BY <2>1, <2>2
<1>5. ASSUME NEW token \in Preamble, PlanSays(t, token) PROVE Moves(t)
  <2>1. /\ token \in Token /\ run[t].todo \in Seq(Token)
        /\ run[t].pc \in LlmPhases /\ ~run[t].buffer.blocked
    BY <1>5, <1>a, <1>b, StreamAssumption DEF PlanSays, LlmPhases, SoundTurn
  <2>2. Say(t, token, run[t].todo, "planning") /\ ask' = ask
    BY <1>5 DEF PlanSays, Keep
  <2> QED BY <2>1, <2>2, SayMoves DEF LlmPhases
<1>6. ASSUME Think(t) PROVE Moves(t)
  <2> DEFINE r == [run[t] EXCEPT !.suspended = TRUE]
  <2>1. r \in RunRecord /\ r.pc = run[t].pc /\ r.buffer = run[t].buffer /\ r.todo = run[t].todo /\ r.open = run[t].open
      /\ r.links = run[t].links /\ r.chart = run[t].chart
    BY <1>a, <1>b, <1>6 DEF RunRecord, Phase, Title, Think, LlmPhases
  <2>2. ask' = ask /\ run' = [run EXCEPT ![t] = r] /\ out' = out
    BY <1>6 DEF Think, Goto, Become, Keep
  <2> HIDE DEF r
  <2>3. SoundTurn(ask[t], r, out[t])
    BY <2>1, <1>a, <1>6 DEF SoundTurn, Early, Late, LlmPhases, ToTheEnd, FilesOf, Think
  <2>4. run[t].pc \notin {"finishing", "over"}
    BY <1>6 DEF Think, LlmPhases
  <2> QED BY <2>1, <2>2, <2>3, <2>4, QuietStepMoves
<1>7. ASSUME PlanChart(t) PROVE Moves(t)
  <2> DEFINE r == [run[t] EXCEPT !.pc = "answering", !.chart = TRUE, !.suspended = FALSE]
  <2>1. r \in RunRecord /\ r.pc = "answering" /\ r.buffer = run[t].buffer /\ r.todo = run[t].todo
      /\ r.open = run[t].open /\ r.links = run[t].links
    BY <1>a, <1>b, <1>7 DEF RunRecord, Phase, Title, PlanChart, LlmPhases
  <2>2. ask' = ask /\ run' = [run EXCEPT ![t] = r] /\ out' = out
    BY <1>7 DEF PlanChart, Goto, Become, Keep
  <2> HIDE DEF r
  <2>3. SoundTurn(ask[t], r, out[t])
    BY <2>1, <1>a, <1>7 DEF SoundTurn, Early, Late, LlmPhases, ToTheEnd, FilesOf, PlanChart
  <2>4. run[t].pc \notin {"finishing", "over"}
    BY <1>7 DEF PlanChart, LlmPhases
  <2> QED BY <2>1, <2>2, <2>3, <2>4, QuietStepMoves
<1>8. ASSUME PlanNothing(t) PROVE Moves(t)
  <2> DEFINE said == ask[t].path = "chart" /\ run[t].buffer # EmptyBuffer
  <2> DEFINE r == [run[t] EXCEPT !.suspended = FALSE,
                     !.todo = IF said THEN <<>> ELSE @,
                     !.pc = IF said THEN "settling"
                            ELSE IF ask[t].path = "search" THEN "searching"
                            ELSE "answering"]
  <2>1. /\ r \in RunRecord /\ r.buffer = run[t].buffer /\ r.open = run[t].open
        /\ r.links = run[t].links
        /\ r.pc \in {"searching", "answering"} \/ (r.pc = "settling" /\ r.todo = <<>>)
    <3>1. CASE said
      <4>1. r = [run[t] EXCEPT !.suspended = FALSE, !.todo = <<>>, !.pc = "settling"]
        BY <3>1
      <4> HIDE DEF r
      <4>2. <<>> \in Seq(Token) /\ "settling" \in Phase
        BY DEF Phase
      <4>3. r \in RunRecord
        BY <4>1, <4>2, <1>a DEF RunRecord
      <4> QED BY <4>1, <4>3, <1>a DEF RunRecord
    <3>2. CASE ~said
      <4> DEFINE next == IF ask[t].path = "search" THEN "searching" ELSE "answering"
      <4>1. r = [run[t] EXCEPT !.suspended = FALSE, !.todo = @, !.pc = next]
        BY <3>2
      <4> HIDE DEF r
      <4>2. next \in {"searching", "answering"}
        OBVIOUS
      <4> HIDE DEF next
      <4> QED BY <4>1, <4>2, <1>a, <1>b DEF RunRecord, Phase
    <3> QED BY <3>1, <3>2
  <2>2. ask' = ask /\ run' = [run EXCEPT ![t] = r] /\ out' = out
    BY <1>8 DEF PlanNothing, Become, Keep
  <2> HIDE DEF r, said
  <2>3. SoundTurn(ask[t], r, out[t])
    BY <2>1, <1>a, <1>8 DEF SoundTurn, Early, Late, LlmPhases, ToTheEnd, FilesOf, PlanNothing
  <2>4. run[t].pc \notin {"finishing", "over"}
    BY <1>8 DEF PlanNothing
  <2> QED BY <2>1, <2>2, <2>3, <2>4, QuietStepMoves
<1>9. ASSUME Search(t) PROVE Moves(t)
  <2> DEFINE r == [run[t] EXCEPT !.pc = "answering", !.suspended = FALSE]
  <2>1. r \in RunRecord /\ r.pc = "answering" /\ r.buffer = run[t].buffer /\ r.todo = run[t].todo /\ r.open = run[t].open
      /\ r.links = run[t].links /\ r.chart = run[t].chart
    BY <1>a, <1>b, <1>9 DEF RunRecord, Phase, Title, Search, LlmPhases
  <2>2. ask' = ask /\ run' = [run EXCEPT ![t] = r] /\ out' = out
    BY <1>9 DEF Search, Goto, Become, Keep
  <2> HIDE DEF r
  <2>3. SoundTurn(ask[t], r, out[t])
    BY <2>1, <1>a, <1>9 DEF SoundTurn, Early, Late, LlmPhases, ToTheEnd, FilesOf, Search
  <2>4. run[t].pc \notin {"finishing", "over"}
    BY <1>9 DEF Search, LlmPhases
  <2> QED BY <2>1, <2>2, <2>3, <2>4, QuietStepMoves
<1>10. ASSUME SearchFails(t) PROVE Moves(t)
  <2>1. /\ Unavailable \in Token /\ <<>> \in Seq(Token)
        /\ run[t].pc \in LlmPhases /\ ~run[t].buffer.blocked
    BY <1>10, <1>a, <1>b, StreamAssumption DEF SearchFails, LlmPhases, SoundTurn
  <2>2. Say(t, Unavailable, <<>>, "answering") /\ ask' = ask
    BY <1>10 DEF SearchFails, Keep
  <2> QED BY <2>1, <2>2, SayMoves DEF LlmPhases
<1>11. ASSUME Answer(t) PROVE Moves(t)
  <2>1. /\ Head(run[t].todo) \in Token /\ Tail(run[t].todo) \in Seq(Token)
        /\ run[t].pc \in LlmPhases /\ ~run[t].buffer.blocked
    BY <1>11, <1>a, <1>b, StreamAssumption DEF Answer, LlmPhases, SoundTurn
  <2>2. Say(t, Head(run[t].todo), Tail(run[t].todo), "answering") /\ ask' = ask
    BY <1>11 DEF Answer, Keep
  <2> QED BY <2>1, <2>2, SayMoves DEF LlmPhases
<1>12. ASSUME EndAnswer(t) PROVE Moves(t)
  <2> DEFINE r == [run[t] EXCEPT !.pc = "settling", !.suspended = FALSE]
  <2>1. r \in RunRecord /\ r.pc = "settling" /\ r.todo = <<>> /\ r.buffer = run[t].buffer /\ r.todo = run[t].todo /\ r.open = run[t].open
      /\ r.links = run[t].links /\ r.chart = run[t].chart
    BY <1>a, <1>b, <1>12 DEF RunRecord, Phase, Title, EndAnswer, LlmPhases
  <2>2. ask' = ask /\ run' = [run EXCEPT ![t] = r] /\ out' = out
    BY <1>12 DEF EndAnswer, Goto, Become, Keep
  <2> HIDE DEF r
  <2>3. SoundTurn(ask[t], r, out[t])
    BY <2>1, <1>a, <1>12 DEF SoundTurn, Early, Late, LlmPhases, ToTheEnd, FilesOf, EndAnswer
  <2>4. run[t].pc \notin {"finishing", "over"}
    BY <1>12 DEF EndAnswer, LlmPhases
  <2> QED BY <2>1, <2>2, <2>3, <2>4, QuietStepMoves
<1>13. ASSUME LlmFails(t) PROVE Moves(t)
  <2> DEFINE r == [run[t] EXCEPT !.pc = "failing"]
             o == [out[t] EXCEPT !.error = TRUE]
  <2>1. r \in RunRecord /\ r.pc = "failing" /\ r.buffer = run[t].buffer /\ r.todo = run[t].todo /\ r.open = run[t].open
    /\ r.links = run[t].links /\ r.chart = run[t].chart
    BY <1>a, <1>b, <1>13 DEF RunRecord, Phase, Title, LlmFails, LlmPhases
  <2>2. o \in Sent /\ o.shown = out[t].shown /\ o.refused = out[t].refused /\ o.done = out[t].done /\ o.error
    BY <1>a, <1>b, <1>13 DEF RunRecord, Sent, LlmFails
  <2>3. ask' = ask /\ run' = [run EXCEPT ![t] = r] /\ out' = [out EXCEPT ![t] = o]
    BY <1>13 DEF LlmFails, Goto, Become, Send, Keep, Refuse
  <2> HIDE DEF r, o
  <2>4. SoundTurn(ask[t], r, o)
    BY <2>1, <2>2, <1>a, <1>13 DEF SoundTurn, Early, Late, LlmPhases, ToTheEnd, FilesOf, LlmFails
  <2>5. run[t].pc \notin {"finishing", "over"}
    BY <1>13 DEF LlmFails, LlmPhases
  <2> QED BY <2>1, <2>2, <2>3, <2>4, <2>5, StepMoves
<1>14. ASSUME FailTurn(t) PROVE Moves(t)
  <2> DEFINE r == [run[t] EXCEPT !.pc = "over"]
             o == [out[t] EXCEPT !.done = TRUE]
  <2>1. r \in RunRecord /\ r.pc = "over" /\ r.buffer = run[t].buffer /\ r.todo = run[t].todo /\ r.open = run[t].open
    /\ r.links = run[t].links /\ r.chart = run[t].chart
    BY <1>a, <1>b, <1>14 DEF RunRecord, Phase, Title, FailTurn, LlmPhases
  <2>2. o \in Sent /\ o.shown = out[t].shown /\ o.refused = out[t].refused /\ o.done /\ o.error = out[t].error
    BY <1>a, <1>b, <1>14 DEF RunRecord, Sent, FailTurn
  <2>3. ask' = ask /\ run' = [run EXCEPT ![t] = r] /\ out' = [out EXCEPT ![t] = o]
    BY <1>14 DEF FailTurn, Goto, Become, Send, Keep, Refuse
  <2> HIDE DEF r, o
  <2>4. SoundTurn(ask[t], r, o)
    BY <2>1, <2>2, <1>a, <1>14 DEF SoundTurn, Early, Late, LlmPhases, ToTheEnd, FilesOf, FailTurn
  <2>5. run[t].pc \notin {"finishing", "over"}
    BY <1>14 DEF FailTurn, LlmPhases
  <2> QED BY <2>1, <2>2, <2>3, <2>4, <2>5, StepMoves
<1>15. ASSUME SettleEmpty(t) PROVE Moves(t)
  <2> QED BY <1>15, EndInErrorMoves DEF SettleEmpty, Keep
<1>16. ASSUME SettleAccepted(t) PROVE Moves(t)
  <2> DEFINE after == Flush(run[t].buffer)
             fresh == after # run[t].buffer
  <2>1. /\ ~run[t].buffer.blocked /\ Passes(ask[t].mode, Strip(run[t].buffer.text))
        /\ run[t].pc = "settling" /\ run[t].buffer.text # <<>>
    BY <1>16 DEF SettleAccepted, Accepted
  <2>2. /\ after \in Buffer /\ Reviewed(ask[t].mode, after) /\ after.held = 0
        /\ after.text = run[t].buffer.text
        /\ fresh <=> run[t].buffer.held # 0
    BY <2>1, <1>a, <1>b, FlushReleasesAll DEF SoundTurn
  <2>3. Released(after) \in Seq(Token)
    BY <2>2, ReleasedIsAPrefix DEF Reviewed
  <2>4. CASE fresh /\ ~run[t].open
    <3> DEFINE r == [run[t] EXCEPT !.pc = "over"]
    <3>1. r \in RunRecord /\ r.pc = "over" /\ r.buffer = run[t].buffer /\ r.todo = run[t].todo /\ r.open = run[t].open
      /\ r.links = run[t].links /\ r.chart = run[t].chart
      BY <1>a, <1>b, <1>16 DEF RunRecord, Phase, Title, SettleAccepted, LlmPhases
    <3>2. ask' = ask /\ run' = [run EXCEPT ![t] = r] /\ out' = out
      BY <1>16, <2>4 DEF SettleAccepted, Goto, Become, Keep, Dies
    <3> HIDE DEF r
    <3>3. SoundTurn(ask[t], r, out[t])
      BY <3>1, <1>a, <1>16, <2>4 DEF SoundTurn, Early, Late, LlmPhases, ToTheEnd, FilesOf, SettleAccepted
    <3>4. run[t].pc # "over" /\ (run[t].pc = "finishing" => r.pc = "over")
      BY <1>16, <3>1 DEF SettleAccepted, LlmPhases
    <3> QED BY <3>1, <3>2, <3>3, <3>4, QuietStepMoves
  <2>5. CASE ~(fresh /\ ~run[t].open)
    <3> DEFINE r == [run[t] EXCEPT !.buffer = after, !.suspended = fresh, !.pc = "filing"]
               o == [out[t] EXCEPT !.shown = Released(after)]
    <3>1. /\ r \in RunRecord /\ r.pc = "filing" /\ r.buffer = after /\ r.todo = run[t].todo
          /\ r.open = run[t].open /\ r.links = run[t].links
      BY <1>a, <1>b, <2>2 DEF RunRecord, Phase
    <3>2. /\ o \in Sent /\ o.shown = Released(after) /\ o.done = out[t].done
          /\ o.refused = out[t].refused
      BY <1>a, <2>3 DEF Sent
    <3>3. ask' = ask /\ run' = [run EXCEPT ![t] = r] /\ out' = [out EXCEPT ![t] = o]
      BY <1>16, <2>5 DEF SettleAccepted, Become, Send, Keep
    <3>4. ToTheEnd(ask[t], r)
      <4>1. /\ HoldsBack(ask[t].mode, run[t].buffer)
            /\ run[t].todo = <<>> \/ ~run[t].open
        BY <2>1, <1>a DEF SoundTurn
      <4>2. ask[t].mode # "off" => run[t].open
        BY <4>1, <2>1, <2>2, <2>5 DEF HoldsBack, Holdback
      <4> QED BY <3>1, <4>1, <4>2 DEF ToTheEnd
    <3> HIDE DEF r, o, after
    <3>5. SoundTurn(ask[t], r, o)
      BY <3>1, <3>2, <3>4, <2>1, <2>2, <1>a DEF SoundTurn, Early, Late, LlmPhases, FilesOf
    <3> QED BY <3>1, <3>2, <3>3, <3>5, <2>1, StepMoves
  <2> QED BY <2>4, <2>5
<1>17. ASSUME SettleRefused(t) PROVE Moves(t)
  <2>1. CASE run[t].open
    <3> DEFINE r == [run[t] EXCEPT !.pc = "refused"]
               o == [out[t] EXCEPT !.refused = TRUE]
    <3>1. r \in RunRecord /\ r.pc = "refused" /\ r.buffer = run[t].buffer /\ r.todo = run[t].todo /\ r.open = run[t].open
      /\ r.links = run[t].links /\ r.chart = run[t].chart
      BY <1>a, <1>b, <1>17 DEF RunRecord, Phase, Title, SettleRefused, LlmPhases
    <3>2. o \in Sent /\ o.shown = out[t].shown /\ o.done = out[t].done /\ o.error = out[t].error
      /\ o.refused
      BY <1>a, <1>b, <1>17 DEF RunRecord, Sent, SettleRefused
    <3>3. ask' = ask /\ run' = [run EXCEPT ![t] = r] /\ out' = [out EXCEPT ![t] = o]
      BY <1>17, <2>1 DEF SettleRefused, Goto, Become, Send, Keep, Refuse
    <3> HIDE DEF r, o
    <3>4. SoundTurn(ask[t], r, o)
      BY <3>1, <3>2, <1>a, <1>17, <2>1 DEF SoundTurn, Early, Late, LlmPhases, ToTheEnd, FilesOf, SettleRefused
    <3>5. run[t].pc \notin {"finishing", "over"}
      BY <1>17 DEF SettleRefused, LlmPhases
    <3> QED BY <3>1, <3>2, <3>3, <3>4, <3>5, StepMoves
  <2>2. CASE ~run[t].open
    <3> DEFINE r == [run[t] EXCEPT !.pc = "over"]
    <3>1. r \in RunRecord /\ r.pc = "over" /\ r.buffer = run[t].buffer /\ r.todo = run[t].todo /\ r.open = run[t].open
      /\ r.links = run[t].links /\ r.chart = run[t].chart
      BY <1>a, <1>b, <1>17 DEF RunRecord, Phase, Title, SettleRefused, LlmPhases
    <3>2. ask' = ask /\ run' = [run EXCEPT ![t] = r] /\ out' = out
      BY <1>17, <2>2 DEF SettleRefused, Goto, Become, Keep, Dies
    <3> HIDE DEF r
    <3>3. SoundTurn(ask[t], r, out[t])
      BY <3>1, <1>a, <1>17, <2>2 DEF SoundTurn, Early, Late, LlmPhases, ToTheEnd, FilesOf, SettleRefused
    <3>4. run[t].pc # "over" /\ (run[t].pc = "finishing" => r.pc = "over")
      BY <1>17, <3>1 DEF SettleRefused, LlmPhases
    <3> QED BY <3>1, <3>2, <3>3, <3>4, QuietStepMoves
  <2> QED BY <2>1, <2>2
<1>18. ASSUME NEW l \in Link, File(t, l) PROVE Moves(t)
  <2> DEFINE r == [run[t] EXCEPT !.links = @ \cup {l}, !.suspended = FALSE]
  <2>1. r \in RunRecord /\ r.pc = run[t].pc /\ r.buffer = run[t].buffer /\ r.todo = run[t].todo
      /\ r.open = run[t].open /\ r.links = run[t].links \cup {l}
    BY <1>a, <1>b, <1>18 DEF RunRecord, Phase, Title, File, Unfiled, LlmPhases
  <2>2. ask' = ask /\ run' = [run EXCEPT ![t] = r] /\ out' = out
    BY <1>18 DEF File, Unfiled, Goto, Become, Keep
  <2> HIDE DEF r
  <2>3. SoundTurn(ask[t], r, out[t])
    BY <2>1, <1>a, <1>18 DEF SoundTurn, Early, Late, LlmPhases, ToTheEnd, FilesOf, File, Unfiled
  <2>4. run[t].pc \notin {"finishing", "over"}
    BY <1>18 DEF File, Unfiled, LlmPhases
  <2> QED BY <2>1, <2>2, <2>3, <2>4, QuietStepMoves
<1>19. ASSUME NEW l \in Link, FileUnregistered(t, l) PROVE Moves(t)
  <2> QED BY <1>19, EndInErrorMoves DEF FileUnregistered, RegisterRefused
<1>20. ASSUME NEW l \in Link, FileUnwritten(t, l) PROVE Moves(t)
  <2>1. FilesOf(run[t]) # {}
    BY <1>20 DEF FileUnwritten, Unfiled, FilesOf
  <2> DEFINE r == [run[t] EXCEPT !.pc = "over"]
  <2>2. r \in RunRecord /\ r.pc = "over" /\ r.buffer = run[t].buffer /\ r.todo = run[t].todo /\ r.open = run[t].open
      /\ r.links = run[t].links /\ r.chart = run[t].chart
    BY <1>a, <1>b DEF RunRecord, Phase
  <2>3. ask' = ask /\ run' = [run EXCEPT ![t] = r] /\ out' = out /\ run[t].pc = "filing"
    BY <1>20 DEF FileUnwritten, Dies, Goto, Become, Keep
  <2> HIDE DEF r
  <2>4. SoundTurn(ask[t], r, out[t])
    BY <2>1, <2>2, <2>3, <1>a DEF SoundTurn, Early, Late, LlmPhases, FilesOf
  <2> QED BY <2>2, <2>3, <2>4, QuietStepMoves
<1>21. ASSUME SendExtras(t) PROVE Moves(t)
  <2> DEFINE extras == run[t].links # {} \/ run[t].chart
  <2>1. CASE extras /\ ~run[t].open
    <3> DEFINE r == [run[t] EXCEPT !.pc = "over"]
    <3>1. r \in RunRecord /\ r.pc = "over" /\ r.buffer = run[t].buffer /\ r.todo = run[t].todo /\ r.open = run[t].open
      /\ r.links = run[t].links /\ r.chart = run[t].chart
      BY <1>a, <1>b, <1>21 DEF RunRecord, Phase, Title, SendExtras, LlmPhases
    <3>2. ask' = ask /\ run' = [run EXCEPT ![t] = r] /\ out' = out
      BY <1>21, <2>1 DEF SendExtras, Goto, Become, Keep, Dies
    <3> HIDE DEF r
    <3>3. SoundTurn(ask[t], r, out[t])
      BY <3>1, <1>a, <1>21, <2>1 DEF SoundTurn, Early, Late, LlmPhases, ToTheEnd, FilesOf, SendExtras
    <3>4. run[t].pc # "over" /\ (run[t].pc = "finishing" => r.pc = "over")
      BY <1>21, <3>1 DEF SendExtras, LlmPhases
    <3> QED BY <3>1, <3>2, <3>3, <3>4, QuietStepMoves
  <2>2. CASE ~(extras /\ ~run[t].open)
    <3> DEFINE r == [run[t] EXCEPT !.pc = "logging", !.suspended = extras]
               o == [out[t] EXCEPT !.files = run[t].links, !.chart = run[t].chart]
    <3>1. r \in RunRecord /\ r.pc = "logging" /\ r.buffer = run[t].buffer /\ r.todo = run[t].todo /\ r.open = run[t].open
      /\ r.links = run[t].links /\ r.chart = run[t].chart
      BY <1>a, <1>b DEF RunRecord, Phase
    <3>2. /\ o \in Sent /\ o.files = run[t].links /\ o.chart = run[t].chart
          /\ o.shown = out[t].shown /\ o.done = out[t].done /\ o.refused = out[t].refused
      BY <1>a, <1>b DEF Sent, RunRecord
    <3>3. ask' = ask /\ run' = [run EXCEPT ![t] = r] /\ out' = [out EXCEPT ![t] = o]
      BY <1>21, <2>2 DEF SendExtras, Become, Send, Keep
    <3>4. run[t].pc = "filing" /\ FilesOf(run[t]) \subseteq run[t].links
      BY <1>21 DEF SendExtras, Unfiled, FilesOf
    <3> HIDE DEF r, o, extras
    <3>5. FilesOf(r) = run[t].links
      BY <3>1, <3>4, <1>a DEF SoundTurn, FilesOf
    <3>6. SoundTurn(ask[t], r, o)
      BY <3>1, <3>2, <3>4, <3>5, <1>a DEF SoundTurn, Early, Late, LlmPhases, FilesOf, ToTheEnd
    <3> QED BY <3>1, <3>2, <3>3, <3>4, <3>5, <3>6, StepMoves
  <2> QED BY <2>1, <2>2
<1>22. ASSUME Log(t) PROVE Moves(t)
  <2> DEFINE r == [run[t] EXCEPT !.pc = "reading"]
  <2>1. r \in RunRecord /\ r.pc = "reading" /\ r.buffer = run[t].buffer /\ r.todo = run[t].todo /\ r.open = run[t].open
      /\ r.links = run[t].links /\ r.chart = run[t].chart
    BY <1>a, <1>b, <1>22 DEF RunRecord, Phase, Title, Log, LlmPhases
  <2>2. ask' = ask /\ run' = [run EXCEPT ![t] = r] /\ out' = out
    BY <1>22 DEF Log, Goto, Become, Keep
  <2> HIDE DEF r
  <2>3. SoundTurn(ask[t], r, out[t])
    BY <2>1, <1>a, <1>22 DEF SoundTurn, Early, Late, LlmPhases, ToTheEnd, FilesOf, Log
  <2>4. run[t].pc \notin {"finishing", "over"}
    BY <1>22 DEF Log, LlmPhases
  <2> QED BY <2>1, <2>2, <2>3, <2>4, QuietStepMoves
<1>23. ASSUME ReadSession(t) PROVE Moves(t)
  <2> DEFINE r == [run[t] EXCEPT
               !.created = IF Exists THEN session.created ELSE {t},
               !.title = IF out[t].refused THEN "blocked" ELSE "none",
               !.pc = IF out[t].refused THEN "writing" ELSE "titling"]
  <2>1. (IF Exists THEN session.created ELSE {t}) \in SUBSET Turn
    BY DEF Exists, TypeOK, Row
  <2>2. /\ r \in RunRecord /\ r.pc \in {"writing", "titling"}
        /\ r.buffer = run[t].buffer /\ r.todo = run[t].todo /\ r.open = run[t].open
      /\ r.links = run[t].links /\ r.chart = run[t].chart
    BY <1>a, <1>b, <2>1 DEF RunRecord, Phase, Title
  <2>3. ask' = ask /\ run' = [run EXCEPT ![t] = r] /\ out' = out /\ run[t].pc = "reading"
    BY <1>23 DEF ReadSession, Become, Keep
  <2> HIDE DEF r
  <2>4. SoundTurn(ask[t], r, out[t])
    BY <2>2, <2>3, <1>a DEF SoundTurn, Early, Late, LlmPhases, FilesOf, ToTheEnd
  <2> QED BY <2>2, <2>3, <2>4, QuietStepMoves
<1>24. ASSUME ReadTitle(t) PROVE Moves(t)
  <2>1. CASE Exists
    <3> DEFINE r == [run[t] EXCEPT !.title = session.title, !.pc = "writing"]
    <3>1. r \in RunRecord /\ r.pc = "writing" /\ r.buffer = run[t].buffer /\ r.todo = run[t].todo /\ r.open = run[t].open
      /\ r.links = run[t].links /\ r.chart = run[t].chart
      BY <1>a, <1>b, <2>1 DEF RunRecord, Phase, Exists, TypeOK, Row
    <3>2. ask' = ask /\ run' = [run EXCEPT ![t] = r] /\ out' = out /\ run[t].pc = "titling"
      BY <1>24, <2>1 DEF ReadTitle, Become, Keep
    <3> HIDE DEF r
    <3>3. SoundTurn(ask[t], r, out[t])
      BY <3>1, <3>2, <1>a DEF SoundTurn, Early, Late, LlmPhases, FilesOf, ToTheEnd
    <3> QED BY <3>1, <3>2, <3>3, QuietStepMoves
  <2>2. CASE ~Exists
    <3> DEFINE r == [run[t] EXCEPT !.pc = "generating"]
    <3>1. r \in RunRecord /\ r.pc = "generating" /\ r.buffer = run[t].buffer /\ r.todo = run[t].todo /\ r.open = run[t].open
      /\ r.links = run[t].links /\ r.chart = run[t].chart
      BY <1>a, <1>b, <1>24 DEF RunRecord, Phase, Title, ReadTitle, LlmPhases
    <3>2. ask' = ask /\ run' = [run EXCEPT ![t] = r] /\ out' = out
      BY <1>24, <2>2 DEF ReadTitle, Goto, Become, Keep, Dies
    <3> HIDE DEF r
    <3>3. SoundTurn(ask[t], r, out[t])
      BY <3>1, <1>a, <1>24, <2>2 DEF SoundTurn, Early, Late, LlmPhases, ToTheEnd, FilesOf, ReadTitle
    <3>4. run[t].pc # "over" /\ (run[t].pc = "finishing" => r.pc = "over")
      BY <1>24, <3>1 DEF ReadTitle, LlmPhases
    <3> QED BY <3>1, <3>2, <3>3, <3>4, QuietStepMoves
  <2> QED BY <2>1, <2>2
<1>25. ASSUME GenerateTitle(t) PROVE Moves(t)
  <2> DEFINE r == [run[t] EXCEPT !.title = "derived", !.pc = "writing"]
  <2>1. r \in RunRecord /\ r.pc = "writing" /\ r.buffer = run[t].buffer /\ r.todo = run[t].todo /\ r.open = run[t].open
      /\ r.links = run[t].links /\ r.chart = run[t].chart
    BY <1>a, <1>b, <1>25 DEF RunRecord, Phase, Title, GenerateTitle, LlmPhases
  <2>2. ask' = ask /\ run' = [run EXCEPT ![t] = r] /\ out' = out
    BY <1>25 DEF GenerateTitle, Goto, Become, Keep
  <2> HIDE DEF r
  <2>3. SoundTurn(ask[t], r, out[t])
    BY <2>1, <1>a, <1>25 DEF SoundTurn, Early, Late, LlmPhases, ToTheEnd, FilesOf, GenerateTitle
  <2>4. run[t].pc \notin {"finishing", "over"}
    BY <1>25 DEF GenerateTitle, LlmPhases
  <2> QED BY <2>1, <2>2, <2>3, <2>4, QuietStepMoves
<1>26. ASSUME Write(t) PROVE Moves(t)
  <2> DEFINE r == [run[t] EXCEPT !.pc = "finishing"]
  <2>1. r \in RunRecord /\ r.pc = "finishing" /\ r.buffer = run[t].buffer /\ r.todo = run[t].todo /\ r.open = run[t].open
      /\ r.links = run[t].links /\ r.chart = run[t].chart
    BY <1>a, <1>b DEF RunRecord, Phase
  <2>2. ask' = ask /\ run' = [run EXCEPT ![t] = r] /\ out' = out /\ run[t].pc = "writing"
    BY <1>26 DEF Write, Goto, Become
  <2> HIDE DEF r
  <2>3. SoundTurn(ask[t], r, out[t])
    BY <2>1, <2>2, <1>a DEF SoundTurn, Early, Late, LlmPhases, FilesOf, ToTheEnd
  <2> QED BY <2>1, <2>2, <2>3, QuietStepMoves
<1>27. ASSUME PersistFails(t) PROVE Moves(t)
  <2> QED BY <1>27, EndInErrorMoves DEF PersistFails, Keep
<1>28. ASSUME Finish(t) PROVE Moves(t)
  <2>1. CASE run[t].open
    <3> DEFINE r == [run[t] EXCEPT !.pc = "over"]
               o == [out[t] EXCEPT !.done = TRUE]
    <3>1. r \in RunRecord /\ r.pc = "over" /\ r.buffer = run[t].buffer /\ r.todo = run[t].todo /\ r.open = run[t].open
      /\ r.links = run[t].links /\ r.chart = run[t].chart
      BY <1>a, <1>b DEF RunRecord, Phase
    <3>2. /\ o \in Sent /\ o.done /\ o.shown = out[t].shown /\ o.refused = out[t].refused
          /\ o.files = out[t].files /\ o.chart = out[t].chart /\ o.error = out[t].error
      BY <1>a DEF Sent
    <3>3. /\ ask' = ask /\ run' = [run EXCEPT ![t] = r] /\ out' = [out EXCEPT ![t] = o]
          /\ run[t].pc = "finishing"
      BY <1>28, <2>1 DEF Finish, Goto, Become, Send, Keep
    <3> HIDE DEF r, o
    <3>4. SoundTurn(ask[t], r, o)
      BY <3>1, <3>2, <3>3, <2>1, <1>a DEF SoundTurn, Early, Late, LlmPhases, FilesOf, ToTheEnd
    <3> QED BY <3>1, <3>2, <3>3, <3>4, StepMoves
  <2>2. CASE ~run[t].open
    <3> DEFINE r == [run[t] EXCEPT !.pc = "over"]
    <3>1. r \in RunRecord /\ r.pc = "over" /\ r.buffer = run[t].buffer /\ r.todo = run[t].todo /\ r.open = run[t].open
      /\ r.links = run[t].links /\ r.chart = run[t].chart
      BY <1>a, <1>b, <1>28 DEF RunRecord, Phase, Title, Finish, LlmPhases
    <3>2. ask' = ask /\ run' = [run EXCEPT ![t] = r] /\ out' = out
      BY <1>28, <2>2 DEF Finish, Goto, Become, Keep, Dies
    <3> HIDE DEF r
    <3>3. SoundTurn(ask[t], r, out[t])
      BY <3>1, <1>a, <1>28, <2>2 DEF SoundTurn, Early, Late, LlmPhases, ToTheEnd, FilesOf, Finish
    <3>4. run[t].pc # "over" /\ (run[t].pc = "finishing" => r.pc = "over")
      BY <1>28, <3>1 DEF Finish, LlmPhases
    <3> QED BY <3>1, <3>2, <3>3, <3>4, QuietStepMoves
  <2> QED BY <2>1, <2>2
<1>29. ASSUME Disconnect(t) PROVE Moves(t)
  <2>1. CASE run[t].pc \in LlmPhases
    <3> DEFINE r == [run[t] EXCEPT !.open = FALSE, !.pc = "settling"]
    <3>1. /\ r \in RunRecord /\ r.pc = "settling" /\ r.buffer = run[t].buffer /\ ~r.open
          /\ r.links = run[t].links
      BY <1>a, <1>b DEF RunRecord, Phase
    <3>2. ask' = ask /\ run' = [run EXCEPT ![t] = r] /\ out' = out
      BY <1>29, <2>1 DEF Disconnect, Become, Keep, LlmPhases
    <3> HIDE DEF r
    <3>3. SoundTurn(ask[t], r, out[t])
      BY <3>1, <2>1, <1>a DEF SoundTurn, Early, Late, LlmPhases
    <3> QED BY <3>1, <3>2, <3>3, <2>1, QuietStepMoves DEF LlmPhases
  <2>2. CASE run[t].pc \notin LlmPhases
    <3> DEFINE r == [run[t] EXCEPT !.open = FALSE, !.pc = "over"]
    <3>1. r \in RunRecord /\ r.pc = "over" /\ r.buffer = run[t].buffer /\ ~r.open
      BY <1>a, <1>b DEF RunRecord, Phase
    <3>2. /\ ask' = ask /\ run' = [run EXCEPT ![t] = r] /\ out' = out
          /\ run[t].pc \in {"refused", "prerefused", "failing", "filing", "logging"}
      BY <1>29, <2>2 DEF Disconnect, Become, Keep
    <3> HIDE DEF r
    <3>3. SoundTurn(ask[t], r, out[t])
      BY <3>1, <3>2, <1>a DEF SoundTurn, Early, Late, LlmPhases
    <3> QED BY <3>1, <3>2, <3>3, QuietStepMoves
  <2> QED BY <2>1, <2>2
<1> QED BY <1>1, <1>2, <1>3, <1>4, <1>5, <1>6, <1>7, <1>8, <1>9, <1>10, <1>11, <1>12, <1>13, <1>14, <1>15, <1>16, <1>17, <1>18, <1>19, <1>20, <1>21, <1>22, <1>23, <1>24, <1>25, <1>26, <1>27, <1>28, <1>29 DEF Step

-----------------------------------------------------------------------------
(* The steps of all turns together.                                         *)

(* What a turn that has been stored has said, stays.                        *)
Settled(u) ==
  run[u].pc \in {"finishing", "over"} =>
    /\ run'[u].pc \in {"finishing", "over"}
    /\ run'[u].buffer = run[u].buffer
    /\ ToTheEnd(ask[u], run[u]) => ToTheEnd(ask'[u], run'[u])
    /\ ask'[u] = ask[u]

(* A step of one turn leaves all of them sound.                             *)
LEMMA MovesKeepTurns ==
  ASSUME TypeOK, TurnInv, NEW t \in Turn, Moves(t)
  PROVE  /\ ask' \in [Turn -> Requests] /\ run' \in [Turn -> RunRecord]
         /\ out' \in [Turn -> Sent]
         /\ TurnInv'
         /\ \A u \in Turn : Settled(u)
<1>1. /\ ask' \in [Turn -> Requests] /\ run' \in [Turn -> RunRecord]
      /\ out' \in [Turn -> Sent]
  BY DEF Moves, TypeOK
<1>2. ASSUME NEW u \in Turn, u # t
      PROVE  ask'[u] = ask[u] /\ run'[u] = run[u] /\ out'[u] = out[u]
  BY <1>2 DEF Moves, TypeOK
<1>3. ASSUME NEW u \in Turn PROVE SoundTurn(ask'[u], run'[u], out'[u])
  BY <1>2 DEF Moves, TurnInv
<1>4. ASSUME NEW u \in Turn PROVE Settled(u)
  BY <1>2 DEF Moves, Settled, ToTheEnd
<1> QED BY <1>1, <1>3, <1>4 DEF TurnInv

(* So does every step of the system.                                        *)
LEMMA TurnsStep ==
  ASSUME TypeOK, TurnInv, [Next]_allVars
  PROVE  /\ ask' \in [Turn -> Requests] /\ run' \in [Turn -> RunRecord]
         /\ out' \in [Turn -> Sent]
         /\ TurnInv'
         /\ \A u \in Turn : Settled(u)
<1>1. CASE TurnNext
  <2>1. PICK t \in Turn : (\E a \in Ask[t] : Begin(t, a)) \/ Step(t) \/ Disconnect(t)
    BY <1>1 DEF TurnNext
  <2>2. Moves(t)
    BY <2>1, BeginMoves, StepsMove
  <2> QED BY <2>2, MovesKeepTurns
<1>2. CASE UNCHANGED <<ask, run, out>>
  BY <1>2 DEF TypeOK, TurnInv, Settled
<1>3. CASE Crash
  <2>1. ask' = ask /\ out' = out
    BY <1>3 DEF Crash
  <2>2. ASSUME NEW u \in Turn
        PROVE  /\ run'[u] \in RunRecord
               /\ SoundTurn(ask[u], run'[u], out[u])
               /\ Settled(u)
    <3>1. run[u] \in RunRecord /\ SoundTurn(ask[u], run[u], out[u])
      BY DEF TypeOK, TurnInv
    <3>2. CASE run[u].pc = "idle"
      <4>1. run'[u] = run[u]
        BY <1>3, <3>2 DEF Crash
      <4> QED BY <2>1, <3>1, <4>1 DEF Settled
    <3>3. CASE run[u].pc # "idle"
      <4>1. run'[u] = [run[u] EXCEPT !.pc = "over", !.open = FALSE]
        BY <1>3, <3>3 DEF Crash
      <4>2. /\ run'[u] \in RunRecord /\ run'[u].pc = "over" /\ ~run'[u].open
            /\ run'[u].buffer = run[u].buffer /\ run'[u].todo = run[u].todo
            /\ run'[u].chart = run[u].chart
        BY <3>1, <4>1 DEF RunRecord, Phase
      <4>3. SoundTurn(ask[u], run'[u], out[u])
        BY <3>1, <4>2 DEF SoundTurn, Early, Late, LlmPhases, FilesOf
      <4> QED BY <2>1, <4>2, <4>3 DEF Settled, ToTheEnd
    <3> QED BY <3>2, <3>3
  <2>3. run' \in [Turn -> RunRecord]
    <3>1. run' = [u \in Turn |-> run'[u]]
      BY <1>3 DEF Crash
    <3> QED BY <2>2, <3>1
  <2> QED BY <2>1, <2>2, <2>3 DEF TypeOK, TurnInv
<1> QED BY <1>1, <1>2, <1>3
     DEF Next, RenameCheck, Rename, DeleteCheck, Delete, DeleteAll, Check,
         allVars, vars, streamVars

(* Most steps of a turn leave the store alone, except that bytes may be     *)
(* added, and do not touch its title.                                       *)
Quiet(t) ==
  /\ UNCHANGED <<session, visible, base>>
  /\ artifact' = artifact /\ object \subseteq object'
  /\ run'[t].links = run[t].links
  /\ run'[t].pc \notin {"generating", "writing"}
  /\ \A u \in Turn \ {t} : run'[u] = run[u] /\ out'[u] = out[u]

LEMMA QuietStep ==
  ASSUME TypeOK, NEW t \in Turn, NEW r, NEW o,
         run' = [run EXCEPT ![t] = r],
         out' = [out EXCEPT ![t] = o],
         r.links = run[t].links, r.pc \notin {"generating", "writing"},
         Keep(t)
  PROVE  Quiet(t)
  BY DEF TypeOK, Quiet, Keep, storeVars

LEMMA QuietSteps ==
  ASSUME TypeOK, NEW t \in Turn, Step(t) \/ Disconnect(t)
  PROVE  \/ Quiet(t) \/ ReadSession(t) \/ ReadTitle(t) \/ GenerateTitle(t)
         \/ Write(t) \/ \E l \in Link : File(t, l)
<1>a. run[t] \in RunRecord
  BY DEF TypeOK
<1> USE DEF TypeOK, Quiet, Keep, Goto, Become, Send, Dies, EndInError, LlmPhases, storeVars
<1>1. ASSUME PreGuard(t) PROVE Quiet(t)
  BY <1>a, <1>1 DEF PreGuard, RunRecord
<1>2. ASSUME Retrieve(t) PROVE Quiet(t)
  BY <1>a, <1>2 DEF Retrieve, RunRecord
<1>3. ASSUME RetrieveFails(t) PROVE Quiet(t)
  BY <1>a, <1>3 DEF RetrieveFails, RunRecord
<1>4. ASSUME InputGuard(t) PROVE Quiet(t)
  <2>1. CASE ReviewsInput(ask[t].mode) /\ ask[t].input # "safe"
    <3> DEFINE r == [run[t] EXCEPT !.pc = "refused"]
    <3>1. run' = [run EXCEPT ![t] = r] /\ out' = [out EXCEPT ![t] = [out[t] EXCEPT !.refused = TRUE]] /\ Keep(t)
      BY <1>4, <2>1 DEF InputGuard, Refuse
    <3>2. r.links = run[t].links /\ r.pc \notin {"generating", "writing"}
      BY <1>a DEF RunRecord, Refuse
    <3> HIDE DEF r
    <3> QED BY <3>1, <3>2, QuietStep
  <2>2. CASE ~(ReviewsInput(ask[t].mode) /\ ask[t].input # "safe")
    <3> DEFINE r == [run[t] EXCEPT !.pc = FirstPhase(ask[t]), !.todo = ask[t].reply]
    <3>1. run' = [run EXCEPT ![t] = r] /\ out' = [out EXCEPT ![t] = out[t]] /\ Keep(t)
      BY <1>4, <2>2 DEF InputGuard, FirstPhase
    <3>2. r.links = run[t].links /\ r.pc \notin {"generating", "writing"}
      BY <1>a DEF RunRecord, FirstPhase
    <3> HIDE DEF r
    <3> QED BY <3>1, <3>2, QuietStep
  <2> QED BY <2>1, <2>2
<1>5. ASSUME NEW token \in Preamble, PlanSays(t, token) PROVE Quiet(t)
  BY <1>a, <1>5 DEF PlanSays, Say, RunRecord
<1>6. ASSUME Think(t) PROVE Quiet(t)
  BY <1>a, <1>6 DEF Think, RunRecord
<1>7. ASSUME PlanChart(t) PROVE Quiet(t)
  BY <1>a, <1>7 DEF PlanChart, RunRecord
<1>8. ASSUME PlanNothing(t) PROVE Quiet(t)
  BY <1>a, <1>8 DEF PlanNothing, RunRecord
<1>9. ASSUME Search(t) PROVE Quiet(t)
  BY <1>a, <1>9 DEF Search, RunRecord
<1>10. ASSUME SearchFails(t) PROVE Quiet(t)
  BY <1>a, <1>10 DEF SearchFails, Say, RunRecord
<1>11. ASSUME Answer(t) PROVE Quiet(t)
  BY <1>a, <1>11 DEF Answer, Say, RunRecord
<1>12. ASSUME EndAnswer(t) PROVE Quiet(t)
  BY <1>a, <1>12 DEF EndAnswer, RunRecord
<1>13. ASSUME LlmFails(t) PROVE Quiet(t)
  BY <1>a, <1>13 DEF LlmFails, RunRecord
<1>14. ASSUME FailTurn(t) PROVE Quiet(t)
  BY <1>a, <1>14 DEF FailTurn, RunRecord
<1>15. ASSUME SettleEmpty(t) PROVE Quiet(t)
  BY <1>a, <1>15 DEF SettleEmpty, RunRecord
<1>16. ASSUME SettleAccepted(t) PROVE Quiet(t)
  <2> DEFINE after == Flush(run[t].buffer)
             fresh == after # run[t].buffer
  <2>1. CASE fresh /\ ~run[t].open
    <3> DEFINE r == [run[t] EXCEPT !.pc = "over"]
    <3>1. run' = [run EXCEPT ![t] = r] /\ out' = [out EXCEPT ![t] = out[t]] /\ Keep(t)
      BY <1>16, <2>1 DEF SettleAccepted
    <3>2. r.links = run[t].links /\ r.pc \notin {"generating", "writing"}
      BY <1>a DEF RunRecord
    <3> HIDE DEF r
    <3> QED BY <3>1, <3>2, QuietStep
  <2>2. CASE ~(fresh /\ ~run[t].open)
    <3> DEFINE r == [run[t] EXCEPT !.buffer = after, !.suspended = fresh, !.pc = "filing"]
    <3>1. run' = [run EXCEPT ![t] = r] /\ out' = [out EXCEPT ![t] = [out[t] EXCEPT !.shown = Released(after)]] /\ Keep(t)
      BY <1>16, <2>2 DEF SettleAccepted
    <3>2. r.links = run[t].links /\ r.pc \notin {"generating", "writing"}
      BY <1>a DEF RunRecord
    <3> HIDE DEF r
    <3> QED BY <3>1, <3>2, QuietStep
  <2> QED BY <2>1, <2>2
<1>17. ASSUME SettleRefused(t) PROVE Quiet(t)
  BY <1>a, <1>17 DEF SettleRefused, Refuse, RunRecord
<1>18. ASSUME NEW l \in Link, FileUnregistered(t, l) PROVE Quiet(t)
  BY <1>a, <1>18 DEF FileUnregistered, RegisterRefused, RunRecord
<1>19. ASSUME NEW l \in Link, FileUnwritten(t, l) PROVE Quiet(t)
  BY <1>a, <1>19 DEF FileUnwritten, RunRecord
<1>20. ASSUME SendExtras(t) PROVE Quiet(t)
  <2> DEFINE extras == run[t].links # {} \/ run[t].chart
  <2>1. CASE extras /\ ~run[t].open
    <3> DEFINE r == [run[t] EXCEPT !.pc = "over"]
    <3>1. run' = [run EXCEPT ![t] = r] /\ out' = [out EXCEPT ![t] = out[t]] /\ Keep(t)
      BY <1>20, <2>1 DEF SendExtras
    <3>2. r.links = run[t].links /\ r.pc \notin {"generating", "writing"}
      BY <1>a DEF RunRecord
    <3> HIDE DEF r
    <3> QED BY <3>1, <3>2, QuietStep
  <2>2. CASE ~(extras /\ ~run[t].open)
    <3> DEFINE r == [run[t] EXCEPT !.pc = "logging", !.suspended = extras]
    <3>1. run' = [run EXCEPT ![t] = r] /\ out' = [out EXCEPT ![t] = [out[t] EXCEPT !.files = run[t].links, !.chart = run[t].chart]] /\ Keep(t)
      BY <1>20, <2>2 DEF SendExtras
    <3>2. r.links = run[t].links /\ r.pc \notin {"generating", "writing"}
      BY <1>a DEF RunRecord
    <3> HIDE DEF r
    <3> QED BY <3>1, <3>2, QuietStep
  <2> QED BY <2>1, <2>2
<1>21. ASSUME Log(t) PROVE Quiet(t)
  BY <1>a, <1>21 DEF Log, RunRecord
<1>22. ASSUME PersistFails(t) PROVE Quiet(t)
  BY <1>a, <1>22 DEF PersistFails, RunRecord
<1>23. ASSUME Finish(t) PROVE Quiet(t)
  BY <1>a, <1>23 DEF Finish, RunRecord
<1>24. ASSUME Disconnect(t) PROVE Quiet(t)
  <2>1. CASE run[t].pc \in LlmPhases
    <3> DEFINE r == [run[t] EXCEPT !.open = FALSE, !.pc = "settling"]
    <3>1. run' = [run EXCEPT ![t] = r] /\ out' = [out EXCEPT ![t] = out[t]] /\ Keep(t)
      BY <1>24, <2>1 DEF Disconnect
    <3>2. r.links = run[t].links /\ r.pc \notin {"generating", "writing"}
      BY <1>a DEF RunRecord
    <3> HIDE DEF r
    <3> QED BY <3>1, <3>2, QuietStep
  <2>2. CASE run[t].pc \notin LlmPhases
    <3> DEFINE r == [run[t] EXCEPT !.open = FALSE, !.pc = "over"]
    <3>1. run' = [run EXCEPT ![t] = r] /\ out' = [out EXCEPT ![t] = out[t]] /\ Keep(t)
      BY <1>24, <2>2 DEF Disconnect
    <3>2. r.links = run[t].links /\ r.pc \notin {"generating", "writing"}
      BY <1>a DEF RunRecord
    <3> HIDE DEF r
    <3> QED BY <3>1, <3>2, QuietStep
  <2> QED BY <2>1, <2>2
<1> QED BY <1>1, <1>2, <1>3, <1>4, <1>5, <1>6, <1>7, <1>8, <1>9, <1>10, <1>11, <1>12, <1>13, <1>14, <1>15, <1>16, <1>17, <1>18, <1>19, <1>20, <1>21, <1>22, <1>23, <1>24 DEF Step

-----------------------------------------------------------------------------
(* The messages.                                                            *)

(* A good message, or one with its words, stays good.                       *)
LEMMA GoodStaysGood ==
  ASSUME NEW m, NEW n, m.turn \in Turn, n.turn = m.turn, n.text = m.text,
         GoodMessage(m, ask, run),
         \A u \in Turn : Settled(u)
  PROVE  GoodMessage(n, ask', run')
  BY DEF GoodMessage, Settled

(* What a turn stores: the messages it brought along, and its own.          *)
LEMMA PayloadIsWell ==
  ASSUME NEW b \in Seq(AnyMessage), NEW t \in Turn, NEW text \in AnyText,
         NEW links \in SUBSET (Turn \X Link)
  PROVE  LET p == Payload(b, t, text, links) IN
         /\ p \in Seq(AnyMessage) /\ Len(p) = Len(b) + 1
         /\ \A i \in 1..Len(b) :
              /\ p[i].turn = b[i].turn /\ p[i].text = b[i].text
              /\ p[i].links \in {b[i].links, links}
         /\ p[Len(p)].turn = t /\ p[Len(p)].text = text
         /\ p[Len(p)].links \in {{}, links}
<1> DEFINE Linked(m) == IF m.text = text /\ links # {}
                        THEN [m EXCEPT !.links = links] ELSE m
           own == Message(t, text, {})
           all == Append(b, own)
           p == Payload(b, t, text, links)
<1>1. /\ own \in AnyMessage /\ own.turn = t /\ own.text = text /\ own.links = {}
  BY DEF Message, AnyMessage
<1>2. ASSUME NEW m \in AnyMessage
      PROVE  /\ Linked(m) \in AnyMessage
             /\ Linked(m).turn = m.turn /\ Linked(m).text = m.text
             /\ Linked(m).links \in {m.links, links}
  BY DEF AnyMessage
<1> HIDE DEF own
<1>3. /\ all \in Seq(AnyMessage) /\ Len(all) = Len(b) + 1 /\ Len(b) \in Nat
      /\ \A i \in 1..Len(b) : all[i] = b[i]
      /\ all[Len(b) + 1] = own
  BY <1>1
<1>4. p = [i \in 1..Len(b) + 1 |-> Linked(all[i])]
  BY DEF Payload, own
<1> HIDE DEF Linked, all, p
<1>5. \A i \in 1..Len(b) + 1 : all[i] \in AnyMessage /\ p[i] = Linked(all[i])
  BY <1>3, <1>4
<1>6. p \in Seq(AnyMessage) /\ Len(p) = Len(b) + 1
  <2>1. p \in [1..Len(b) + 1 -> AnyMessage]
    BY <1>2, <1>4, <1>5
  <2>2. Len(b) + 1 \in Nat
    BY <1>3
  <2> QED BY <2>1, <2>2, <1>4
<1>7. \A i \in 1..Len(b) :
        /\ p[i].turn = b[i].turn /\ p[i].text = b[i].text
        /\ p[i].links \in {b[i].links, links}
  <2>1. ASSUME NEW i \in 1..Len(b)
        PROVE  i \in 1..Len(b) + 1 /\ all[i] = b[i]
    BY <1>3
  <2> QED BY <2>1, <1>2, <1>5
<1>8. /\ p[Len(p)].turn = t /\ p[Len(p)].text = text
      /\ p[Len(p)].links \in {{}, links}
  <2>1. Len(p) \in 1..Len(b) + 1 /\ all[Len(p)] = own
    BY <1>3, <1>6
  <2> QED BY <2>1, <1>1, <1>2, <1>5
<1> QED BY <1>6, <1>7, <1>8 DEF p

(* What the history has, and what a client may know of it.                  *)
LEMMA KnownIsGood ==
  ASSUME TypeOK, StoreInv, LinkInv, NEW known \in Known
  PROVE  /\ known \in Seq(AnyMessage)
         /\ Good(known) /\ Backed(known)
<1>1. CASE known = <<>>
  BY <1>1 DEF Good, Backed
<1>2. CASE known # <<>>
  <2>1. known = Texts /\ Exists /\ session \in Row
    BY <1>2 DEF Known, Texts, Exists, TypeOK
  <2>2. Messages \in Seq(AnyMessage) /\ Good(Messages)
    BY <2>1 DEF Messages, TypeOK, Row, StoreInv, Exists
  <2> DEFINE text(i) == Message(Messages[i].turn, Messages[i].text, {})
  <2>3. known = [i \in 1..Len(Messages) |-> text(i)] /\ Len(Messages) \in Nat
    BY <2>1, <2>2 DEF Texts
  <2>4. ASSUME NEW i \in 1..Len(Messages)
        PROVE  /\ text(i) \in AnyMessage /\ text(i).links = {}
               /\ text(i).turn = Messages[i].turn /\ text(i).text = Messages[i].text
    <3>1. Messages[i] \in AnyMessage
      BY <2>2
    <3> QED BY <3>1 DEF Message, AnyMessage
  <2> HIDE DEF text
  <2>5. known \in Seq(AnyMessage) /\ Len(known) = Len(Messages)
    BY <2>3, <2>4
  <2>6. ASSUME NEW i \in 1..Len(known)
        PROVE  GoodMessage(known[i], ask, run) /\ known[i].links \subseteq object
    <3>1. i \in 1..Len(Messages) /\ known[i] = text(i)
      BY <2>3, <2>5
    <3>2. GoodMessage(Messages[i], ask, run)
      BY <3>1, <2>2 DEF Good
    <3> QED BY <3>1, <3>2, <2>4 DEF GoodMessage
  <2> QED BY <2>5, <2>6 DEF Good, Backed
<1> QED BY <1>1, <1>2

(* The history and the requests after a step that stores nothing new.       *)
LEMMA NothingNewIsStored ==
  ASSUME TypeOK, StoreInv, LinkInv, \A u \in Turn : Settled(u),
         \/ session' = session
         \/ session # NoSession /\ session' = [session EXCEPT !.title = "renamed"]
         \/ session' = NoSession,
         visible' \in {visible, <<>>},
         base' = base \/ \E t \in Turn, known \in Known : base' = [base EXCEPT ![t] = known],
         object \subseteq object'
  PROVE  /\ base' \in [Turn -> Seq(AnyMessage)]
         /\ session' \in Row \cup {NoSession}
         /\ visible' \in Seq(AnyMessage)
         /\ StoreInv'
         /\ session' # NoSession => Backed(session.messages)' 
         /\ Backed(visible)'
         /\ \A t \in Turn : Backed(base[t])'
<1>1. ASSUME NEW s \in Seq(AnyMessage), Good(s), Backed(s)
      PROVE  /\ \A i \in 1..Len(s) : GoodMessage(s[i], ask', run')
             /\ \A i \in 1..Len(s) : s[i].links \subseteq object'
  <2>1. \A i \in 1..Len(s) : s[i] \in AnyMessage
    OBVIOUS
  <2>2. \A i \in 1..Len(s) : s[i].turn \in Turn
    BY <2>1 DEF AnyMessage
  <2> QED BY <1>1, <2>2, GoodStaysGood DEF Good, Backed
<1>2. /\ visible' \in Seq(AnyMessage)
      /\ Good(visible)' /\ Backed(visible)'
  <2>1. CASE visible' = visible
    BY <2>1, <1>1 DEF TypeOK, StoreInv, LinkInv, Good, Backed
  <2>2. CASE visible' = <<>>
    BY <2>2 DEF Good, Backed
  <2> QED BY <2>1, <2>2
<1>3. /\ session' \in Row \cup {NoSession}
      /\ session' # NoSession => Good(session.messages)' /\ Backed(session.messages)'
  <2>1. CASE session' = NoSession
    BY <2>1
  <2>2. CASE session # NoSession /\ session' # NoSession
    <3>1. session \in Row
      BY <2>2 DEF TypeOK
    <3>2. session' \in Row /\ session'.messages = session.messages
      BY <3>1, <2>2 DEF Row, Title
    <3>3. session.messages \in Seq(AnyMessage) /\ Good(session.messages) /\ Backed(session.messages)
      BY <3>1, <2>2 DEF Row, StoreInv, LinkInv
    <3> QED BY <3>2, <3>3, <1>1 DEF Good, Backed
  <2>3. CASE session = NoSession /\ session' # NoSession
    BY <2>3
  <2> QED BY <2>1, <2>2, <2>3
<1>4. /\ base' \in [Turn -> Seq(AnyMessage)]
      /\ \A t \in Turn : base'[t] = base[t] \/ base'[t] \in Known
  BY KnownIsGood DEF TypeOK
<1>5. \A t \in Turn : Good(base[t])' /\ Backed(base[t])'
  <2>1. ASSUME NEW t \in Turn
        PROVE  \E s \in Seq(AnyMessage) : base'[t] = s /\ Good(s) /\ Backed(s)
    BY <1>4, KnownIsGood DEF TypeOK, StoreInv, LinkInv
  <2> QED BY <2>1, <1>1 DEF Good, Backed
<1> QED BY <1>2, <1>3, <1>4, <1>5 DEF StoreInv

(* The history after a turn is written: what the turn brought along, and    *)
(* its own exchange.                                                        *)
LEMMA WriteStores ==
  ASSUME TypeOK, TurnInv, StoreInv, LinkInv, \A u \in Turn : Settled(u),
         NEW t \in Turn, Write(t)
  PROVE  /\ session' \in Row /\ visible' \in Seq(AnyMessage)
         /\ session'.title = run[t].title
         /\ Good(session.messages)' /\ Backed(session.messages)'
         /\ Good(visible)' /\ Backed(visible)'
<1> DEFINE text == StoredText(t)
           links == StoredLinks(t)
           p == Payload(base[t], t, text, links)
<1>1. /\ run[t] \in RunRecord /\ out[t] \in Sent /\ base[t] \in Seq(AnyMessage)
      /\ SoundTurn(ask[t], run[t], out[t])
      /\ Good(base[t]) /\ Backed(base[t])
      /\ {t} \X run[t].links \subseteq object
      /\ run[t].pc = "writing"
  BY DEF TypeOK, TurnInv, StoreInv, LinkInv, Write
<1>2. text \in AnyText
  BY <1>1 DEF StoredText, AnyText, RunRecord, Buffer
<1>3. links \in SUBSET (Turn \X Link) /\ links \subseteq object
  BY <1>1 DEF StoredLinks, RunRecord
<1>4. GoodMessage([turn |-> t, text |-> text, links |-> {}], ask', run')
  <2>1. /\ run'[t] = [run[t] EXCEPT !.pc = "finishing"] /\ ask'[t] = ask[t]
    BY DEF Write, Goto, Become, TypeOK
  <2>2. /\ run'[t].pc = "finishing" /\ run'[t].buffer = run[t].buffer
        /\ run'[t].todo = run[t].todo /\ run'[t].open = run[t].open
    BY <2>1, <1>1 DEF RunRecord
  <2>3. CASE out[t].refused
    BY <2>2, <2>3 DEF GoodMessage, StoredText
  <2>4. CASE ~out[t].refused
    <3>1. text = Strip(run[t].buffer.text) /\ Passes(ask[t].mode, text) /\ ToTheEnd(ask[t], run[t])
      BY <2>4, <1>1 DEF SoundTurn, Late, StoredText
    <3> QED BY <3>1, <2>1, <2>2 DEF GoodMessage, ToTheEnd
  <2> QED BY <2>3, <2>4
<1>5. /\ visible' = p /\ object' = object
      /\ session' = [title |-> run[t].title,
            created |-> IF Exists THEN session.created ELSE run[t].created,
            messages |-> p]
  BY DEF Write, Upsert, SessionRow, ReplaceMessages
<1>6. /\ (IF Exists THEN session.created ELSE run[t].created) \in SUBSET Turn
      /\ run[t].title \in Title
  BY <1>1 DEF TypeOK, Exists, Row, RunRecord
<1> HIDE DEF text, links
<1>7. /\ p \in Seq(AnyMessage) /\ Len(p) = Len(base[t]) + 1
      /\ \A i \in 1..Len(base[t]) :
           /\ p[i].turn = base[t][i].turn /\ p[i].text = base[t][i].text
           /\ p[i].links \in {base[t][i].links, links}
      /\ p[Len(p)].turn = t /\ p[Len(p)].text = text
      /\ p[Len(p)].links \in {{}, links}
  BY <1>1, <1>2, <1>3, PayloadIsWell
<1> HIDE DEF p
<1>8. ASSUME NEW i \in 1..Len(p)
      PROVE  GoodMessage(p[i], ask', run') /\ p[i].links \subseteq object'
  <2>1. CASE i \in 1..Len(base[t])
    <3>1. base[t][i] \in AnyMessage
      BY <1>1, <2>1
    <3>2. /\ base[t][i].turn \in Turn /\ GoodMessage(base[t][i], ask, run)
          /\ base[t][i].links \subseteq object
      BY <3>1, <2>1, <1>1 DEF AnyMessage, Good, Backed
    <3> QED BY <3>2, <2>1, <1>3, <1>5, <1>7, GoodStaysGood
  <2>2. CASE i \notin 1..Len(base[t])
    <3>1. i = Len(p)
      BY <2>2, <1>7, <1>1
    <3> QED BY <3>1, <1>3, <1>4, <1>5, <1>7 DEF GoodMessage
  <2> QED BY <2>1, <2>2
<1>9. session' \in Row /\ session'.title = run[t].title /\ session'.messages = p
  BY <1>5, <1>6, <1>7 DEF Row
<1> QED BY <1>5, <1>7, <1>8, <1>9 DEF Good, Backed

(* Artifacts and files have their bytes after a step that adds no file.     *)
LEMMA LinksKept ==
  ASSUME TypeOK, LinkInv, object \subseteq object', artifact' \subseteq artifact,
         \A u \in Turn : run'[u].links = run[u].links
  PROVE  /\ artifact' \subseteq object'
         /\ \A u \in Turn : {u} \X run'[u].links \subseteq object'
  BY DEF LinkInv

-----------------------------------------------------------------------------
(* The invariant.                                                           *)

(* Everything together is inductive.                                        *)
LEMMA Invariant == Spec => []IInv
<1>1. Init => IInv
  <2> SUFFICES ASSUME Init PROVE IInv
    OBVIOUS
  <2> USE DEF Init, StoreInit, StreamInit
  <2>1. ASSUME NEW t \in Turn
        PROVE  /\ ask[t] \in Requests /\ ask[t].mode \in Mode
               /\ run[t] = Idle /\ out[t] = Silence /\ base[t] = <<>>
    <3>1. (CHOOSE a \in Ask[t] : TRUE) \in Ask[t]
      BY StreamAssumption
    <3> QED BY <3>1, StreamAssumption DEF Requests
  <2>2. /\ Idle \in RunRecord /\ Idle.pc = "idle" /\ Idle.buffer = EmptyBuffer
        /\ Idle.todo = <<>> /\ Idle.open /\ Idle.links = {}
    <3>1. EmptyBuffer \in Buffer
      BY DEF EmptyBuffer, Buffer
    <3> QED BY <3>1 DEF Idle, RunRecord, Phase, Title
  <2>3. /\ Silence \in Sent /\ Silence.shown = <<>> /\ ~Silence.refused /\ ~Silence.done
    BY DEF Silence, Sent
  <2>4. TypeOK
    <3>1. /\ ask = [t \in Turn |-> ask[t]] /\ run = [t \in Turn |-> run[t]]
          /\ out = [t \in Turn |-> out[t]] /\ base = [t \in Turn |-> base[t]]
      OBVIOUS
    <3>2. <<>> \in Seq(AnyMessage)
      OBVIOUS
    <3> QED BY <2>1, <2>2, <2>3, <3>1, <3>2 DEF TypeOK
  <2>5. TurnInv
    <3> SUFFICES ASSUME NEW t \in Turn PROVE SoundTurn(ask[t], run[t], out[t])
      BY DEF TurnInv
    <3> QED BY <2>1, <2>2, <2>3, EmptyBufferIsReviewed
            DEF SoundTurn, Early, Late, LlmPhases
  <2>6. StoreInv
    BY <2>1 DEF StoreInv, Good
  <2>7. LinkInv
    BY <2>1, <2>2 DEF LinkInv, Backed
  <2>8. TitleInv
    BY DEF TitleInv, NoSession
  <2> QED BY <2>4, <2>5, <2>6, <2>7, <2>8 DEF IInv
<1>2. IInv /\ [Next]_allVars => IInv'
  <2> SUFFICES ASSUME IInv, [Next]_allVars PROVE IInv'
    OBVIOUS
  <2>a. /\ ask' \in [Turn -> Requests] /\ run' \in [Turn -> RunRecord]
        /\ out' \in [Turn -> Sent]
        /\ TurnInv'
        /\ \A u \in Turn : Settled(u)
    BY TurnsStep DEF IInv
  <2> DEFINE Rest == /\ base' \in [Turn -> Seq(AnyMessage)]
                     /\ session' \in Row \cup {NoSession}
                     /\ visible' \in Seq(AnyMessage)
                     /\ StoreInv' /\ LinkInv' /\ TitleInv'
  <2>b. SUFFICES Rest
    BY <2>a DEF IInv, TypeOK
  <2>c. ASSUME UNCHANGED storeVars, base' = base,
               \A u \in Turn : run'[u].links = run[u].links
        PROVE  /\ base' \in [Turn -> Seq(AnyMessage)]
               /\ session' \in Row \cup {NoSession}
               /\ visible' \in Seq(AnyMessage)
               /\ StoreInv' /\ LinkInv'
    <3>1. /\ artifact' \subseteq object' /\ \A u \in Turn : {u} \X run'[u].links \subseteq object'
      BY <2>c, LinksKept DEF IInv, storeVars
    <3> QED BY <3>1, <2>a, <2>c, NothingNewIsStored DEF IInv, LinkInv, storeVars
  <2>1. ASSUME NEW t \in Turn, NEW a \in Ask[t], Begin(t, a), Observed PROVE Rest
    <3>1. /\ run[t] \in RunRecord /\ run[t].pc = "idle"
          /\ run'[t].pc \in {"preguard", "guard"} /\ run'[t].links = run[t].links
          /\ \A u \in Turn \ {t} : run'[u] = run[u]
          /\ out' = out /\ UNCHANGED storeVars
          /\ \E known \in Known : base' = [base EXCEPT ![t] = known]
      <4>1. run[t] \in RunRecord /\ run[t].pc = "idle"
        BY <2>1 DEF IInv, TypeOK, Begin
      <4> DEFINE r == [run[t] EXCEPT !.pc = IF a.knowledge THEN "preguard" ELSE "guard"]
      <4>2. r.pc \in {"preguard", "guard"} /\ r.links = run[t].links
        BY <4>1 DEF RunRecord
      <4>3. run' = [run EXCEPT ![t] = r]
        BY <2>1 DEF Begin, Goto, Become
      <4> HIDE DEF r
      <4>4. run'[t] = r /\ \A u \in Turn \ {t} : run'[u] = run[u]
        BY <4>3 DEF IInv, TypeOK
      <4>5. /\ out' = out /\ UNCHANGED storeVars
            /\ \E known \in Known : base' = [base EXCEPT ![t] = known]
        BY <2>1 DEF Begin
      <4> QED BY <4>1, <4>2, <4>4, <4>5
    <3>2. /\ artifact' \subseteq object' /\ \A u \in Turn : {u} \X run'[u].links \subseteq object'
      BY <3>1, LinksKept DEF IInv, storeVars
    <3>3. /\ base' \in [Turn -> Seq(AnyMessage)] /\ session' \in Row \cup {NoSession}
          /\ visible' \in Seq(AnyMessage) /\ StoreInv' /\ LinkInv'
      BY <3>1, <3>2, <2>a, NothingNewIsStored DEF IInv, LinkInv, storeVars
    <3>4. TitleInv'
      <4>1. stale' = stale /\ session' = session
        BY <3>1, <2>1 DEF Observed, Retitled, storeVars
      <4> QED BY <3>1, <4>1 DEF TitleInv, IInv
    <3> QED BY <3>3, <3>4
  <2>2. ASSUME NEW t \in Turn, Quiet(t), Observed PROVE Rest
    <3>1. /\ UNCHANGED <<session, visible, base>> /\ \A u \in Turn : run'[u].links = run[u].links
          /\ object \subseteq object' /\ artifact' \subseteq artifact
      BY <2>2 DEF Quiet
    <3>2. /\ artifact' \subseteq object' /\ \A u \in Turn : {u} \X run'[u].links \subseteq object'
      BY <3>1, LinksKept DEF IInv
    <3>3. /\ base' \in [Turn -> Seq(AnyMessage)] /\ session' \in Row \cup {NoSession}
          /\ visible' \in Seq(AnyMessage) /\ StoreInv' /\ LinkInv'
      BY <3>1, <3>2, <2>a, NothingNewIsStored DEF IInv, LinkInv
    <3>4. TitleInv'
      <4>1. stale' = stale
        BY <3>1, <2>2 DEF Observed, Retitled
      <4> QED BY <2>2, <3>1, <4>1 DEF TitleInv, IInv, Quiet
    <3> QED BY <3>3, <3>4
  <2>3. ASSUME NEW t \in Turn, NEW l \in Link, File(t, l), Observed PROVE Rest
    <3>1. /\ UNCHANGED <<session, visible, base, out>>
          /\ object' = object \cup {<<t, l>>} /\ artifact' = artifact \cup {<<t, l>>}
          /\ run'[t].links = run[t].links \cup {l} /\ run'[t].pc = "filing"
          /\ \A u \in Turn \ {t} : run'[u] = run[u]
      <4>1. run[t] \in RunRecord /\ run[t].pc = "filing"
            /\ run'[t] = [run[t] EXCEPT !.links = @ \cup {l}, !.suspended = FALSE]
        BY <2>3 DEF IInv, TypeOK, File, Become
      <4>2. run'[t].links = run[t].links \cup {l} /\ run'[t].pc = "filing"
        BY <4>1 DEF RunRecord
      <4> QED BY <4>2, <2>3 DEF File, PutAndRegister, PutBytes, Register, IInv, TypeOK, Become
    <3>2. artifact' \subseteq object'
      BY <3>1 DEF IInv, LinkInv
    <3>3. ASSUME NEW u \in Turn PROVE {u} \X run'[u].links \subseteq object'
      BY <3>1 DEF IInv, LinkInv
    <3>4. /\ base' \in [Turn -> Seq(AnyMessage)] /\ session' \in Row \cup {NoSession}
          /\ visible' \in Seq(AnyMessage) /\ StoreInv' /\ LinkInv'
      BY <3>1, <3>2, <3>3, <2>a, NothingNewIsStored DEF IInv, LinkInv
    <3>5. TitleInv'
      <4>1. stale' = stale
        BY <3>1, <2>3 DEF Observed, Retitled
      <4> QED BY <3>1, <4>1 DEF TitleInv, IInv
    <3> QED BY <3>4, <3>5
  <2>4. ASSUME NEW t \in Turn, ReadSession(t) \/ ReadTitle(t) \/ GenerateTitle(t), Observed
        PROVE  Rest
    <3>a. run[t] \in RunRecord
      BY DEF IInv, TypeOK
    <3>1. /\ UNCHANGED storeVars /\ base' = base /\ out' = out
          /\ run'[t].links = run[t].links
          /\ \A u \in Turn \ {t} : run'[u] = run[u]
      <4> USE DEF Keep, Become, Goto, RunRecord, IInv, TypeOK
      <4>1. CASE ReadSession(t)
        BY <3>a, <4>1 DEF ReadSession
      <4>2. CASE ReadTitle(t)
        <5>1. CASE Exists
          BY <3>a, <4>2, <5>1 DEF ReadTitle
        <5>2. CASE ~Exists
          BY <3>a, <4>2, <5>2 DEF ReadTitle
        <5> QED BY <5>1, <5>2
      <4>3. CASE GenerateTitle(t)
        BY <3>a, <4>3 DEF GenerateTitle
      <4> QED BY <4>1, <4>2, <4>3, <2>4
    <3>2. /\ base' \in [Turn -> Seq(AnyMessage)] /\ session' \in Row \cup {NoSession}
          /\ visible' \in Seq(AnyMessage) /\ StoreInv' /\ LinkInv'
      BY <3>1, <2>c
    <3>3. stale' = stale /\ session' = session
      BY <3>1, <2>4 DEF Observed, Retitled, storeVars
    <3>4. \/ run'[t].pc = "titling"
          \/ run'[t].pc = "writing" /\ out[t].refused
          \/ run'[t].pc = "writing" /\ run'[t].title = session.title
          \/ run'[t].pc = "generating" /\ session = NoSession
          \/ run'[t].pc = "writing" /\ run[t].pc = "generating"
      <4>1. CASE ReadSession(t)
        BY <3>a, <4>1 DEF ReadSession, Become, RunRecord, IInv, TypeOK
      <4>2. CASE ReadTitle(t)
        <5> DEFINE r == run[t]
        <5>1. CASE Exists
          <6>1. run' = [run EXCEPT ![t] = [r EXCEPT !.title = session.title, !.pc = "writing"]]
            BY <4>2, <5>1 DEF ReadTitle, Become
          <6> QED BY <3>a, <6>1 DEF RunRecord, IInv, TypeOK
        <5>2. CASE ~Exists
          <6>1. run' = [run EXCEPT ![t] = [r EXCEPT !.pc = "generating"]]
            BY <4>2, <5>2 DEF ReadTitle, Become, Goto
          <6> QED BY <3>a, <5>2, <6>1 DEF RunRecord, IInv, TypeOK, Exists
        <5> QED BY <5>1, <5>2
      <4>3. CASE GenerateTitle(t)
        BY <3>a, <4>3 DEF GenerateTitle, Become, RunRecord, IInv, TypeOK
      <4> QED BY <4>1, <4>2, <4>3, <2>4
    <3>5. TitleInv'
      BY <3>1, <3>3, <3>4 DEF TitleInv, IInv, NoSession
    <3> QED BY <3>2, <3>5
  <2>5. ASSUME NEW t \in Turn, Write(t), Observed PROVE Rest
    <3>1. /\ session' \in Row /\ visible' \in Seq(AnyMessage)
          /\ session'.title = run[t].title
          /\ Good(session.messages)' /\ Backed(session.messages)'
          /\ Good(visible)' /\ Backed(visible)'
      BY <2>5, <2>a, WriteStores DEF IInv
    <3>2. /\ UNCHANGED <<artifact, object>> /\ base' = base /\ out' = out
          /\ run[t].pc = "writing" /\ run'[t].pc = "finishing"
          /\ run'[t].links = run[t].links
          /\ \A u \in Turn \ {t} : run'[u] = run[u]
      <4>1. run[t] \in RunRecord
        BY DEF IInv, TypeOK
      <4> QED BY <2>5, <4>1 DEF Write, Goto, Become, RunRecord, IInv, TypeOK
    <3>3. /\ artifact' \subseteq object' /\ \A u \in Turn : {u} \X run'[u].links \subseteq object'
      BY <3>2, LinksKept DEF IInv
    <3>4. ASSUME NEW u \in Turn PROVE Good(base[u])' /\ Backed(base[u])'
      <4>1. base[u] \in Seq(AnyMessage) /\ Good(base[u]) /\ Backed(base[u])
        BY DEF IInv, TypeOK, StoreInv, LinkInv
      <4>2. \A i \in 1..Len(base[u]) : base[u][i] \in AnyMessage
        BY <4>1
      <4>3. \A i \in 1..Len(base[u]) : base[u][i].turn \in Turn
        BY <4>2 DEF AnyMessage
      <4>4. \A i \in 1..Len(base[u]) : GoodMessage(base[u][i], ask', run')
        BY <4>1, <4>3, <2>a, GoodStaysGood DEF Good
      <4> QED BY <4>1, <4>4, <3>2 DEF Good, Backed
    <3>5. StoreInv' /\ LinkInv'
      BY <3>1, <3>3, <3>4 DEF StoreInv, LinkInv
    <3>6. TitleInv'
      <4>1. SUFFICES ASSUME NEW u \in Turn \ stale', session'.title = "renamed"
                     PROVE  /\ run'[u].pc # "generating"
                            /\ run'[u].pc = "writing" /\ ~out'[u].refused => run'[u].title = "renamed"
        BY DEF TitleInv
      <4>2. CASE u = t
        BY <3>2, <4>2
      <4>3. CASE u # t /\ session.title = "renamed"
        <5>1. u \notin stale
          BY <4>1, <2>5 DEF Observed
        <5> QED BY <3>2, <4>3, <5>1 DEF TitleInv, IInv
      <4>4. CASE u # t /\ session.title # "renamed"
        <5>1. u \notin HasRead
          BY <4>1, <4>4, <2>5 DEF Observed, Retitled
        <5> QED BY <3>2, <4>4, <5>1 DEF HasRead
      <4> QED BY <4>2, <4>3, <4>4
    <3> QED BY <3>1, <3>2, <3>5, <3>6 DEF IInv, TypeOK
  <2>6. CASE RenameCheck \/ DeleteCheck \/ UNCHANGED allVars
    <3>1. UNCHANGED <<storeVars, ask, base, run, out, stale>>
      BY <2>6 DEF RenameCheck, DeleteCheck, Check, allVars, vars, streamVars, systemVars
    <3>2. TitleInv'
      BY <3>1 DEF TitleInv, IInv, storeVars
    <3> QED BY <3>1, <3>2, <2>c
  <2>7. CASE Rename
    <3>1. /\ UNCHANGED <<visible, artifact, object, base, run, out>>
          /\ IF session # NoSession
             THEN /\ session' = [session EXCEPT !.title = "renamed"]
                  /\ stale' = stale \cup HasRead
             ELSE UNCHANGED <<session, stale>>
      BY <2>7 DEF Rename, RenameRow, streamVars, Exists
    <3>2. /\ artifact' \subseteq object' /\ \A u \in Turn : {u} \X run'[u].links \subseteq object'
      BY <3>1, LinksKept DEF IInv
    <3>3. /\ base' \in [Turn -> Seq(AnyMessage)] /\ session' \in Row \cup {NoSession}
          /\ visible' \in Seq(AnyMessage) /\ StoreInv' /\ LinkInv'
      BY <3>1, <3>2, <2>a, NothingNewIsStored DEF IInv, LinkInv
    <3>4. TitleInv'
      BY <3>1 DEF TitleInv, IInv, HasRead
    <3> QED BY <3>3, <3>4
  <2>8. CASE Delete \/ DeleteAll
    <3>1. /\ UNCHANGED <<object, base, run, out, stale>>
          /\ session' \in {session, NoSession} /\ visible' \in {visible, <<>>}
          /\ artifact' \subseteq artifact
      BY <2>8 DEF Delete, DeleteAll, DeleteRow, DeleteAllRows, DeleteAllRowsById, streamVars
    <3>2. /\ artifact' \subseteq object' /\ \A u \in Turn : {u} \X run'[u].links \subseteq object'
      BY <3>1, LinksKept DEF IInv
    <3>3. /\ base' \in [Turn -> Seq(AnyMessage)] /\ session' \in Row \cup {NoSession}
          /\ visible' \in Seq(AnyMessage) /\ StoreInv' /\ LinkInv'
      BY <3>1, <3>2, <2>a, NothingNewIsStored DEF IInv, LinkInv
    <3>4. TitleInv'
      BY <3>1 DEF TitleInv, IInv, NoSession
    <3> QED BY <3>3, <3>4
  <2>9. CASE Crash
    <3>1. /\ UNCHANGED <<storeVars, base, out, stale>>
          /\ \A u \in Turn : /\ run'[u].links = run[u].links
                             /\ run'[u].pc \notin {"generating", "writing"}
      <4>1. ASSUME NEW u \in Turn
            PROVE  /\ run'[u].links = run[u].links
                   /\ run'[u].pc \notin {"generating", "writing"}
        <5>1. run[u] \in RunRecord
          BY DEF IInv, TypeOK
        <5>2. CASE run[u].pc = "idle"
          BY <2>9, <5>2 DEF Crash
        <5>3. CASE run[u].pc # "idle"
          <6>1. run'[u] = [run[u] EXCEPT !.pc = "over", !.open = FALSE]
            BY <2>9, <5>3 DEF Crash
          <6> QED BY <5>1, <6>1 DEF RunRecord
        <5> QED BY <5>2, <5>3
      <4> QED BY <4>1, <2>9 DEF Crash
    <3>2. TitleInv'
      BY <3>1 DEF TitleInv
    <3> QED BY <3>1, <3>2, <2>c
  <2>10. CASE TurnNext
    <3>1. PICK t \in Turn : (\E a \in Ask[t] : Begin(t, a)) \/ Step(t) \/ Disconnect(t)
      BY <2>10 DEF TurnNext
    <3>2. Observed
      BY <2>10 DEF TurnNext
    <3>3. CASE \E a \in Ask[t] : Begin(t, a)
      BY <2>1, <3>2, <3>3
    <3>4. CASE Step(t) \/ Disconnect(t)
      <4>1. \/ Quiet(t) \/ ReadSession(t) \/ ReadTitle(t) \/ GenerateTitle(t)
            \/ Write(t) \/ \E l \in Link : File(t, l)
        BY <3>4, QuietSteps DEF IInv
      <4> HIDE DEF Rest
      <4> QED BY <4>1, <3>2, <2>2, <2>3, <2>4, <2>5
    <3> QED BY <3>1, <3>3, <3>4
  <2> QED BY <2>6, <2>7, <2>8, <2>9, <2>10 DEF Next
<1> QED BY <1>1, <1>2, PTL DEF Spec

(* Chat turns and the session keep their types.                             *)
THEOREM TypeCorrect == Spec => []TypeOK
<1>1. IInv => TypeOK
  BY DEF IInv
<1> QED BY <1>1, Invariant, PTL

(* The stored messages are good, and have their bytes.                      *)
LEMMA StoredAreGood ==
  ASSUME IInv, NEW m \in Stored
  PROVE  m \in AnyMessage /\ GoodMessage(m, ask, run) /\ m.links \subseteq object
<1>1. Exists /\ session \in Row
  BY DEF Stored, IInv, TypeOK, Exists
<1>2. Messages \in Seq(AnyMessage) /\ Good(Messages) /\ Backed(Messages)
  BY <1>1 DEF Messages, IInv, TypeOK, Row, StoreInv, LinkInv, Exists
<1>3. PICK i \in DOMAIN Messages : m = Messages[i]
  BY <1>1 DEF Stored
<1>4. i \in 1..Len(Messages) /\ Messages[i] \in AnyMessage
  BY <1>2
<1> QED BY <1>2, <1>3, <1>4 DEF Good, Backed

(* Whatever fails and whoever deletes, for any number of turns: what has a  *)
(* row or is linked from the history has its bytes.                         *)
THEOREM LinksHaveTheirBytes == Spec => []BytesBehindLinks
<1>1. IInv => BytesBehindLinks
  BY StoredAreGood DEF BytesBehindLinks, IInv, LinkInv
<1> QED BY <1>1, Invariant, PTL

(* Nothing that fails the review is shown or stored, for any answers and    *)
(* any forbidden phrases: not at a token, a chart block or a tool call.     *)
THEOREM WhatLeavesIsReviewed == Spec => []NothingUnsafeLeaves
<1>1. IInv => NothingUnsafeLeaves
  <2> SUFFICES ASSUME IInv PROVE NothingUnsafeLeaves
    OBVIOUS
  <2>1. ASSUME NEW t \in Turn PROVE Passes(ask[t].mode, out[t].shown)
    BY DEF IInv, TurnInv, SoundTurn, Reviewed
  <2>2. ASSUME NEW m \in Stored PROVE Passes(ask[m.turn].mode, m.text)
    BY StoredAreGood, ModerationAssumption DEF GoodMessage, Passes
  <2> QED BY <2>1, <2>2 DEF NothingUnsafeLeaves
<1> QED BY <1>1, Invariant, PTL

(* What a client was told done for was shown to it entirely, what is stored *)
(* was said to its end, and a client that stays is told done.               *)
THEOREM TurnsComeWhole == Spec => []TurnsAreWhole
<1>1. IInv => TurnsAreWhole
  <2> SUFFICES ASSUME IInv PROVE TurnsAreWhole
    OBVIOUS
  <2>1. ASSUME NEW t \in Turn
        PROVE  run[t] \in RunRecord /\ run[t].buffer \in Buffer
               /\ SoundTurn(ask[t], run[t], out[t])
    BY DEF IInv, TypeOK, TurnInv, RunRecord
  <2>2. DoneIsComplete
    <3> SUFFICES ASSUME NEW t \in Turn, Clean(t)
                 PROVE  /\ run[t].todo = <<>>
                        /\ out[t].shown = run[t].buffer.text
                        /\ out[t].files = LinksIn(Strip(run[t].buffer.text))
                        /\ out[t].chart = run[t].chart
      BY DEF DoneIsComplete
    <3>1. /\ run[t].todo = <<>> /\ run[t].buffer.held = 0
          /\ out[t].files = FilesOf(run[t]) /\ out[t].chart = run[t].chart
          /\ out[t].shown = Released(run[t].buffer)
          /\ run[t].buffer.held <= Len(run[t].buffer.text)
      BY <2>1 DEF Clean, SoundTurn, Reviewed
    <3>2. out[t].shown = run[t].buffer.text
      BY <3>1, <2>1, ReleasedIsAPrefix
    <3> QED BY <3>1, <3>2 DEF FilesOf
  <2>3. StoredIsWhole
    BY StoredAreGood DEF StoredIsWhole, GoodMessage, ToTheEnd
  <2>4. DoneIsSaid
    BY <2>1 DEF DoneIsSaid, Over, SoundTurn, FilesOf
  <2> QED BY <2>2, <2>3, <2>4 DEF TurnsAreWhole
<1> QED BY <1>1, Invariant, PTL

(* A title the owner has set is lost to a refusal or to a turn that had     *)
(* read the title before it was there, and to nothing else.                 *)
THEOREM OwnersTitleStays == Spec => RenameSticks
<1>1. IInv /\ [Next]_allVars =>
        \A t \in Turn :
          /\ run[t].pc = "writing" /\ run'[t].pc = "finishing"
          /\ Exists /\ session.title = "renamed"
          /\ session'.title # "renamed"
          => out[t].refused \/ t \in stale
  <2> SUFFICES ASSUME IInv, [Next]_allVars, NEW t \in Turn,
                      run[t].pc = "writing", run'[t].pc = "finishing",
                      session.title = "renamed",
                      ~out[t].refused, t \notin stale
               PROVE  session'.title = "renamed"
    OBVIOUS
  <2>1. run[t].title = "renamed"
    BY DEF IInv, TitleInv
  <2>2. PICK u \in Turn : (\E a \in Ask[u] : Begin(u, a)) \/ Step(u) \/ Disconnect(u)
    <3>1. CASE Crash
      <4>1. run'[t] = [run[t] EXCEPT !.pc = "over", !.open = FALSE] /\ run[t] \in RunRecord
        BY <3>1 DEF Crash, IInv, TypeOK
      <4>2. run'[t].pc = "over"
        BY <4>1 DEF RunRecord
      <4> QED BY <4>2
    <3>2. CASE UNCHANGED run
      BY <3>2
    <3> QED BY <3>1, <3>2 DEF Next, TurnNext, RenameCheck, DeleteCheck, Check, Rename,
              Delete, DeleteAll, allVars, vars, streamVars
  <2>3. Moves(u)
    BY <2>2, BeginMoves, StepsMove DEF IInv
  <2>4. u = t
    BY <2>3 DEF Moves, IInv, TypeOK
  <2>5. CASE Write(t)
    BY <2>5, <2>1 DEF Write, Upsert, SessionRow
  <2>6. CASE ~Write(t)
    <3>1. CASE Quiet(t) \/ \E l \in Link : File(t, l)
      BY <3>1 DEF Quiet, File
    <3>2. CASE ReadSession(t) \/ ReadTitle(t) \/ GenerateTitle(t) \/ \E a \in Ask[t] : Begin(t, a)
      BY <3>2 DEF ReadSession, ReadTitle, GenerateTitle, Begin
    <3> QED BY <3>1, <3>2, <2>2, <2>4, <2>6, QuietSteps DEF IInv
  <2> QED BY <2>5, <2>6
<1> QED BY <1>1, Invariant, PTL DEF Spec, RenameSticks
=============================================================================
