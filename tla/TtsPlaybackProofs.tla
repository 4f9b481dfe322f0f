------------------------- MODULE TtsPlaybackProofs -------------------------
(***************************************************************************)
(* Three facts about speaking an answer, for every number of slots and     *)
(* chunks and whatever times out, fails or becomes stale: when the chat    *)
(* task frees the context, its player is gone and the speaker silent; each *)
(* slot of the pool has one owner; and what is heard is the answer, from   *)
(* its beginning and, when it is reported complete, to its end.            *)
(***************************************************************************)
EXTENDS TtsPlayback, SequenceTheorems, FiniteSetTheorems, TLAPS

\* Both tasks are records of their fields.
TasksAreRecords ==
  /\ producer = [pc |-> producer.pc, slot |-> producer.slot, left |-> producer.left,
                 last |-> producer.last]
  /\ player = [pc |-> player.pc, held |-> player.held, ret |-> player.ret,
               started |-> player.started]
  /\ player.started \in BOOLEAN

\* Who may have the speaker on: it is half open only between the two calls that
\* start it, and a player that never started it has left it silent.
Quiet == ~speaker.open /\ ~speaker.started /\ ~speaker.pa

SpeakerShape ==
  /\ speaker \in [open : BOOLEAN, started : BOOLEAN, pa : BOOLEAN]
  /\ speaker.started => player.started
  /\ speaker.started \/ Quiet \/ player.pc = "enable"
  /\ player.pc \in {"open", "enable"} => ~player.started
  /\ player.pc \in {"write", "written", "stop"} => player.started
  /\ player.pc \in {"give", "gone"} => Quiet

\* The semaphore is given by a player that is on its way out, and the context
\* is freed after it was taken.
DoneShape ==
  /\ done \in BOOLEAN
  /\ done => player.pc = "gone"
  /\ producer.pc \in {"delete", "conclude", "over"} => player.pc = "gone"

SpeechInv == TasksAreRecords /\ SpeakerShape /\ DoneShape

\* Stopping the speaker silences it, unless it is between its two calls.
LEMMA StoppedIsQuiet ==
  ASSUME SpeakerShape
  PROVE  /\ Stopped \in [open : BOOLEAN, started : BOOLEAN, pa : BOOLEAN]
         /\ ~Stopped.started /\ ~Stopped.pa
         /\ player.pc # "enable" => ~Stopped.open
BY DEF SpeakerShape, Quiet, Stopped, Silent

\* The initial state satisfies the invariant.
LEMMA SpeechInit == PlaybackInit => SpeechInv
<1>. SUFFICES ASSUME PlaybackInit PROVE SpeechInv
  OBVIOUS
<1>1. player.pc = "top" /\ player.started = FALSE /\ producer.pc = "open" /\ done = FALSE
  BY DEF PlaybackInit
<1>2. TasksAreRecords
  BY DEF PlaybackInit, TasksAreRecords
<1>3. speaker = Silent
  BY DEF PlaybackInit
<1>. QED  BY <1>1, <1>2, <1>3 DEF SpeechInv, SpeakerShape, DoneShape, Quiet, Silent

\* The client and its callback touch neither the speaker nor the semaphore,
\* and stay before the end of the speech.
LEMMA ClientStep ==
  SpeechInv /\ (OpenRequest \/ ReadStream \/ RefuseOdd \/ OfferChunk \/ FillSlot \/ SendSlot)
    => SpeechInv'
<1>. SUFFICES ASSUME SpeechInv,
                     OpenRequest \/ ReadStream \/ RefuseOdd \/ OfferChunk \/ FillSlot \/ SendSlot
              PROVE  SpeechInv'
  OBVIOUS
<1>1. UNCHANGED <<done, player, speaker>>
  BY DEF OpenRequest, ReadStream, RefuseOdd, OfferChunk, FillSlot, SendSlot, ClientFrame,
         CallbackFrame
<1>2. /\ producer' = [pc |-> producer'.pc, slot |-> producer'.slot, left |-> producer'.left,
                      last |-> producer'.last]
      /\ producer'.pc \in {"read", "finish", "offer", "odd", "fill", "send"}
  <2>1. CASE OpenRequest
    BY <2>1 DEF OpenRequest, ProducerGoes, EndRequest, SpeechInv, TasksAreRecords
  <2>2. CASE ReadStream
    BY <2>2 DEF ReadStream, ProducerGoes, EndRequest, SpeechInv, TasksAreRecords
  <2>3. CASE RefuseOdd
    BY <2>3 DEF RefuseOdd, Return, SpeechInv, TasksAreRecords
  <2>4. CASE OfferChunk
    BY <2>4 DEF OfferChunk, Return, SpeechInv, TasksAreRecords
  <2>5. CASE FillSlot
    BY <2>5 DEF FillSlot, ProducerGoes, Return, SpeechInv, TasksAreRecords
  <2>6. CASE SendSlot
    BY <2>6 DEF SendSlot, Return, SpeechInv, TasksAreRecords
  <2>. QED  BY <2>1, <2>2, <2>3, <2>4, <2>5, <2>6
<1>. QED  BY <1>1, <1>2 DEF SpeechInv, TasksAreRecords, SpeakerShape, DoneShape, Quiet

\* The chat task may stop the speaker under the player, and passes the wait for
\* it only by taking what the player gave.
LEMMA FinishStep ==
  SpeechInv /\ (SendMarker \/ AwaitPlayer \/ DeleteContext \/ Conclude) => SpeechInv'
<1>. SUFFICES ASSUME SpeechInv, SendMarker \/ AwaitPlayer \/ DeleteContext \/ Conclude
              PROVE  SpeechInv'
  OBVIOUS
<1>1. player' = player /\ speaker' \in {speaker, Stopped}
  BY DEF SendMarker, AwaitPlayer, DeleteContext, Conclude, FinishFrame
<1>2. producer' = [pc |-> producer'.pc, slot |-> producer'.slot, left |-> producer'.left,
                   last |-> producer'.last]
  BY DEF SendMarker, AwaitPlayer, DeleteContext, Conclude, ProducerGoes, SpeechInv,
         TasksAreRecords
<1>3. SpeakerShape'
  BY <1>1, StoppedIsQuiet DEF SpeechInv, SpeakerShape, Quiet
<1>4. DoneShape'
  <2>1. CASE SendMarker
    BY <2>1, <1>1 DEF SendMarker, ProducerGoes, SpeechInv, TasksAreRecords, DoneShape
  <2>2. CASE AwaitPlayer
    BY <2>2, <1>1 DEF AwaitPlayer, ProducerGoes, SpeechInv, TasksAreRecords, DoneShape
  <2>3. CASE DeleteContext \/ Conclude
    BY <2>3, <1>1
    DEF DeleteContext, Conclude, ProducerGoes, SpeechInv, TasksAreRecords, DoneShape
  <2>. QED  BY <2>1, <2>2, <2>3
<1>. QED  BY <1>1, <1>2, <1>3, <1>4 DEF SpeechInv, TasksAreRecords

\* The player starts the speaker in two steps, stops it if it started it, and
\* gives the semaphore last.
LEMMA PlayerStep == SpeechInv /\ Player => SpeechInv'
<1>. SUFFICES ASSUME SpeechInv, Player PROVE SpeechInv'
  OBVIOUS
<1>. USE DEF SpeechInv, TasksAreRecords, SpeakerShape, DoneShape, Quiet, PlayerFrame,
             PlayerGoes, PlayerExits
<1>1. CASE LoopTop
  BY <1>1 DEF LoopTop
<1>2. CASE PollQueue
  BY <1>2 DEF PollQueue
<1>3. CASE CountSlot
  BY <1>3 DEF CountSlot
<1>4. CASE Buffered
  BY <1>4 DEF Buffered
<1>5. CASE OpenSpeaker
  BY <1>5, StoppedIsQuiet DEF OpenSpeaker
<1>6. CASE EnableSpeaker
  <2>1. UNCHANGED <<producer, done>> /\ player.pc = "enable"
    BY <1>6 DEF EnableSpeaker
  <2>2. CASE /\ speaker' = [open |-> TRUE, started |-> TRUE, pa |-> TRUE]
             /\ player' = [player EXCEPT !.pc = "write", !.started = TRUE]
    <3>1. player'.pc = "write" /\ player'.started = TRUE
      BY <2>2
    <3>2. speaker' \in [open : BOOLEAN, started : BOOLEAN, pa : BOOLEAN] /\ speaker'.started
      BY <2>2
    <3>3. player' = [pc |-> player'.pc, held |-> player'.held, ret |-> player'.ret,
                     started |-> player'.started]
      BY <2>2
    <3>. QED  BY <2>1, <3>1, <3>2, <3>3
  <2>3. CASE speaker' = Silent /\ PlayerExits("HARDWARE")
    BY <2>1, <2>3 DEF Silent
  <2>. QED  BY <1>6, <2>2, <2>3 DEF EnableSpeaker
<1>7. CASE WriteSlot
  BY <1>7 DEF WriteSlot
<1>8. CASE WrittenSlot
  BY <1>8 DEF WrittenSlot
<1>9. CASE ReportFailure
  BY <1>9 DEF ReportFailure
<1>10. CASE DrainQueue
  BY <1>10 DEF DrainQueue
<1>11. CASE StopSpeaker
  BY <1>11, StoppedIsQuiet DEF StopSpeaker
<1>12. CASE GiveDone
  BY <1>12 DEF GiveDone
<1>. QED
  BY <1>1, <1>2, <1>3, <1>4, <1>5, <1>6, <1>7, <1>8, <1>9, <1>10, <1>11, <1>12 DEF Player

\* The invariant holds in every reachable state.
THEOREM SpeechInductive == PlaybackSpec => []SpeechInv
<1>1. SpeechInv /\ [PlaybackNext]_playbackVars => SpeechInv'
  <2>. SUFFICES ASSUME SpeechInv, [PlaybackNext]_playbackVars PROVE SpeechInv'
    OBVIOUS
  <2>1. CASE Producer
    BY <2>1, ClientStep, FinishStep DEF Producer
  <2>2. CASE Player
    BY <2>2, PlayerStep
  <2>3. CASE NewInteractionBegins \/ UNCHANGED playbackVars
    BY <2>3
    DEF NewInteractionBegins, playbackVars, SpeechInv, TasksAreRecords, SpeakerShape,
                DoneShape, Quiet
  <2>. QED  BY <2>1, <2>2, <2>3 DEF PlaybackNext
<1>. QED  BY <1>1, SpeechInit, PTL DEF PlaybackSpec

\* What the chat task frees at the end of a speech is used by nobody any more,
\* and the speaker is off: finish_tts_stream_playback waits for the player
\* for as long as it takes.
THEOREM NothingOutlives == PlaybackSpec => []NothingOutlivesTheSpeech
<1>1. SpeechInv => NothingOutlivesTheSpeech
  BY DEF SpeechInv, SpeakerShape, DoneShape, Quiet, Silent, NothingOutlivesTheSpeech
<1>. QED  BY <1>1, SpeechInductive, PTL

----------------------------------------------------------------------------
(* The pool: one owner per slot, and room for every transfer                *)

Holds(q, s) == \E i \in DOMAIN q : q[i] = s
Carries(q, s) == \E i \in DOMAIN q : q[i].slot = s
Distinct(q) == \A i, j \in DOMAIN q : q[i] = q[j] => i = j
DistinctSlots(q) == \A i, j \in DOMAIN q : q[i].slot = q[j].slot => i = j

\* What the play queue is made of; how many chunks it has; its marker is last.
Entries == {Marker} \cup [slot : Slots, chunk : Nat]
Chunks(q) == IF Carries(q, None) THEN Len(q) - 1 ELSE Len(q)
MarkerLast(q) == \A i \in DOMAIN q : q[i].slot = None => i = Len(q)

\* What a queue holds after one more element, and after its first one has left.
LEMMA AppendHolds ==
  ASSUME NEW S, NEW q \in Seq(S), NEW x \in S
  PROVE  /\ \A s : Holds(Append(q, x), s) <=> Holds(q, s) \/ s = x
         /\ Distinct(q) /\ ~Holds(q, x) => Distinct(Append(q, x))
<1>1. /\ DOMAIN q = 1 .. Len(q) /\ Len(q) \in Nat
      /\ DOMAIN Append(q, x) = 1 .. Len(q) + 1
      /\ \A i \in 1 .. Len(q) : Append(q, x)[i] = q[i]
      /\ Append(q, x)[Len(q) + 1] = x
  BY LenProperties, AppendProperties
<1>. QED  BY <1>1 DEF Holds, Distinct

\* The same for the play queue, whose entries carry slots.
LEMMA AppendCarries ==
  ASSUME NEW S, NEW q \in Seq(S), NEW x \in S
  PROVE  /\ \A s : Carries(Append(q, x), s) <=> Carries(q, s) \/ s = x.slot
         /\ DistinctSlots(q) /\ ~Carries(q, x.slot) => DistinctSlots(Append(q, x))
<1>1. /\ DOMAIN q = 1 .. Len(q) /\ Len(q) \in Nat
      /\ DOMAIN Append(q, x) = 1 .. Len(q) + 1
      /\ \A i \in 1 .. Len(q) : Append(q, x)[i] = q[i]
      /\ Append(q, x)[Len(q) + 1] = x
  BY LenProperties, AppendProperties
<1>. QED  BY <1>1 DEF Carries, DistinctSlots

\* Taking the head of a queue without repetitions removes just that element.
LEMMA TailHolds ==
  ASSUME NEW S, NEW q \in Seq(S), q # <<>>, Distinct(q)
  PROVE  /\ \A s : Holds(Tail(q), s) <=> Holds(q, s) /\ s # Head(q)
         /\ Holds(q, Head(q)) /\ Head(q) \in S
         /\ Tail(q) \in Seq(S)
         /\ Distinct(Tail(q))
<1>1. /\ DOMAIN q = 1 .. Len(q) /\ Len(q) \in Nat \ {0}
      /\ DOMAIN Tail(q) = 1 .. Len(q) - 1
      /\ \A i \in 1 .. Len(q) - 1 : Tail(q)[i] = q[i + 1]
      /\ Head(q) = q[1] /\ Head(q) \in S
      /\ Tail(q) \in Seq(S)
  BY LenProperties, HeadTailProperties, EmptySeq
<1>2. ASSUME NEW s PROVE Holds(Tail(q), s) <=> Holds(q, s) /\ s # Head(q)
  <2>1. ASSUME Holds(Tail(q), s) PROVE Holds(q, s) /\ s # Head(q)
    <3>1. PICK i \in 1 .. Len(q) - 1 : q[i + 1] = s
      BY <1>1, <2>1 DEF Holds
    <3>. QED  BY <1>1, <3>1 DEF Holds, Distinct
  <2>2. ASSUME Holds(q, s), s # Head(q) PROVE Holds(Tail(q), s)
    <3>1. PICK i \in 2 .. Len(q) : q[i] = s
      BY <1>1, <2>2 DEF Holds
    <3>2. i - 1 \in 1 .. Len(q) - 1 /\ Tail(q)[i - 1] = q[(i - 1) + 1] /\ (i - 1) + 1 = i
      BY <1>1, <3>1
    <3>. QED  BY <1>1, <3>1, <3>2 DEF Holds
  <2>. QED  BY <2>1, <2>2
<1>3. Distinct(Tail(q))
  BY <1>1 DEF Distinct
<1>4. Holds(q, Head(q))
  BY <1>1 DEF Holds
<1>. QED  BY <1>1, <1>2, <1>3, <1>4

\* Taking the head of the play queue removes just its slot.
LEMMA TailCarries ==
  ASSUME NEW S, NEW q \in Seq(S), q # <<>>, DistinctSlots(q)
  PROVE  /\ \A s : Carries(Tail(q), s) <=> Carries(q, s) /\ s # Head(q).slot
         /\ Carries(q, Head(q).slot) /\ Head(q) \in S
         /\ Tail(q) \in Seq(S)
         /\ DistinctSlots(Tail(q))
<1>1. /\ DOMAIN q = 1 .. Len(q) /\ Len(q) \in Nat \ {0}
      /\ DOMAIN Tail(q) = 1 .. Len(q) - 1
      /\ \A i \in 1 .. Len(q) - 1 : Tail(q)[i] = q[i + 1]
      /\ Head(q) = q[1] /\ Head(q) \in S
      /\ Tail(q) \in Seq(S)
  BY LenProperties, HeadTailProperties, EmptySeq
<1>2. ASSUME NEW s PROVE Carries(Tail(q), s) <=> Carries(q, s) /\ s # Head(q).slot
  <2>1. ASSUME Carries(Tail(q), s) PROVE Carries(q, s) /\ s # Head(q).slot
    <3>1. PICK i \in 1 .. Len(q) - 1 : q[i + 1].slot = s
      BY <1>1, <2>1 DEF Carries
    <3>. QED  BY <1>1, <3>1 DEF Carries, DistinctSlots
  <2>2. ASSUME Carries(q, s), s # Head(q).slot PROVE Carries(Tail(q), s)
    <3>1. PICK i \in 2 .. Len(q) : q[i].slot = s
      BY <1>1, <2>2 DEF Carries
    <3>2. i - 1 \in 1 .. Len(q) - 1 /\ Tail(q)[i - 1] = q[(i - 1) + 1] /\ (i - 1) + 1 = i
      BY <1>1, <3>1
    <3>. QED  BY <1>1, <3>1, <3>2 DEF Carries
  <2>. QED  BY <2>1, <2>2
<1>3. DistinctSlots(Tail(q))
  BY <1>1 DEF DistinctSlots
<1>4. Carries(q, Head(q).slot)
  BY <1>1 DEF Carries
<1>. QED  BY <1>1, <1>2, <1>3, <1>4

\* The first n numbers are n.
LEMMA CountToN == ASSUME NEW n \in Nat PROVE Cardinality(1 .. n) = n
BY FS_Interval

\* A free queue that lacks a slot has room for it: Release never loses one.
LEMMA FreeHasRoom ==
  ASSUME NEW q \in Seq(Slots), Distinct(q), NEW s \in Slots, ~Holds(q, s)
  PROVE  Len(q) < SlotCount
<1>1. q \in [1 .. Len(q) -> Slots \ {s}] /\ Len(q) \in Nat
  BY LenProperties DEF Holds
<1>2. q \in Injection(1 .. Len(q), Slots \ {s})
  BY <1>1 DEF Injection, IsInjective, Distinct
<1>3. IsFiniteSet(Slots) /\ Cardinality(Slots) = SlotCount
  BY SlotAssumption, FS_Interval DEF Slots
<1>4. IsFiniteSet(Slots \ {s}) /\ Cardinality(Slots \ {s}) = SlotCount - 1
  BY <1>3, FS_RemoveElement
<1>5. Len(q) \in Nat
  BY <1>1
<1>6. Cardinality(1 .. Len(q)) = Len(q)
  BY <1>5, CountToN
<1>7. Len(q) <= SlotCount - 1
  BY <1>2, <1>4, <1>6, FS_Injection
<1>. QED  BY <1>5, <1>7, SlotAssumption

\* A play queue without the marker has a place left, whatever is sent next.
LEMMA PlayHasPlace ==
  ASSUME NEW q \in Seq(Entries), DistinctSlots(q), ~Carries(q, None)
  PROVE  Len(q) < SlotCount + 1
<1>. DEFINE f == [i \in 1 .. Len(q) |-> q[i].slot]
<1>1. q \in [1 .. Len(q) -> Entries] /\ Len(q) \in Nat
  BY LenProperties
<1>2. \A i \in 1 .. Len(q) : q[i].slot \in Slots
  BY <1>1 DEF Entries, Marker, Carries
<1>3. f \in Injection(1 .. Len(q), Slots)
  BY <1>1, <1>2 DEF Injection, IsInjective, DistinctSlots
<1>4. IsFiniteSet(Slots) /\ Cardinality(Slots) = SlotCount
  BY SlotAssumption, FS_Interval DEF Slots
<1>5. Len(q) \in Nat
  BY <1>1
<1>6. Cardinality(1 .. Len(q)) = Len(q)
  BY <1>5, CountToN
<1>7. Len(q) <= SlotCount
  BY <1>3, <1>4, <1>6, FS_Injection
<1>. QED  BY <1>5, <1>7, SlotAssumption

\* An entry at the end of the play queue: a chunk counts, the marker does not.
LEMMA ChunksAppend ==
  ASSUME NEW q \in Seq(Entries), NEW e \in Entries, ~Carries(q, None)
  PROVE  /\ Append(q, e) \in Seq(Entries)
         /\ Chunks(q) = Len(q)
         /\ Len(Append(q, e)) = Len(q) + 1
         /\ \A i \in 1 .. Len(q) : Append(q, e)[i] = q[i]
         /\ Append(q, e)[Len(q) + 1] = e
         /\ Chunks(Append(q, e)) = IF e.slot = None THEN Chunks(q) ELSE Chunks(q) + 1
<1>1. /\ Append(q, e) \in Seq(Entries)
      /\ Len(q) \in Nat /\ Len(Append(q, e)) = Len(q) + 1
      /\ \A i \in 1 .. Len(q) : Append(q, e)[i] = q[i]
      /\ Append(q, e)[Len(q) + 1] = e
  BY LenProperties, AppendProperties
<1>2. Carries(Append(q, e), None) <=> e.slot = None
  BY AppendCarries
<1>. QED  BY <1>1, <1>2 DEF Chunks

\* An entry less at the head: behind the marker there is nothing.
LEMMA ChunksTail ==
  ASSUME NEW q \in Seq(Entries), q # <<>>, DistinctSlots(q), MarkerLast(q)
  PROVE  /\ Tail(q) \in Seq(Entries) /\ Head(q) = q[1] /\ Head(q) \in Entries
         /\ DOMAIN q = 1 .. Len(q) /\ Len(q) \in Nat \ {0}
         /\ DOMAIN Tail(q) = 1 .. Len(q) - 1
         /\ \A i \in 1 .. Len(q) - 1 : Tail(q)[i] = q[i + 1]
         /\ MarkerLast(Tail(q))
         /\ Chunks(q) \in Nat /\ Chunks(Tail(q)) \in Nat
         /\ Chunks(Tail(q)) = IF Head(q).slot = None THEN Chunks(q) ELSE Chunks(q) - 1
         /\ Head(q).slot = None => Tail(q) = <<>> /\ Chunks(q) = 0
<1>1. /\ DOMAIN q = 1 .. Len(q) /\ Len(q) \in Nat \ {0}
      /\ DOMAIN Tail(q) = 1 .. Len(q) - 1 /\ Len(Tail(q)) = Len(q) - 1
      /\ \A i \in 1 .. Len(q) - 1 : Tail(q)[i] = q[i + 1]
      /\ Head(q) = q[1] /\ Head(q) \in Entries
      /\ Tail(q) \in Seq(Entries)
  BY LenProperties, HeadTailProperties, EmptySeq
<1>2. Carries(Tail(q), None) <=> Carries(q, None) /\ Head(q).slot # None
  BY TailCarries
<1>3. MarkerLast(Tail(q))
  BY <1>1 DEF MarkerLast
<1>4. Head(q).slot = None => Carries(q, None) /\ Len(q) = 1
  BY <1>1 DEF MarkerLast, Carries
<1>5. Len(Tail(q)) = 0 => Tail(q) = <<>>
  BY <1>1, EmptySeq
<1>6. Carries(Tail(q), None) => Len(Tail(q)) > 0
  BY <1>1 DEF Carries
<1>. QED  BY <1>1, <1>2, <1>3, <1>4, <1>5, <1>6 DEF Chunks

\* A free queue f, a play queue p and two hands a and b share the slots out.
OneOwner(f, p, a, b) ==
  /\ f \in Seq(Slots) /\ Distinct(f)
  /\ p \in Seq(Entries) /\ DistinctSlots(p)
  /\ a \in Slots \cup {None} /\ b \in Slots \cup {None}
  /\ \A s \in Slots :
       /\ Holds(f, s) \/ Carries(p, s) \/ a = s \/ b = s
       /\ Holds(f, s) => ~Carries(p, s) /\ a # s /\ b # s
       /\ Carries(p, s) => a # s /\ b # s
       /\ a = s => b # s

\* The producer takes a slot from the free queue ...
LEMMA TakeFree ==
  ASSUME NEW f, NEW p, NEW b, OneOwner(f, p, None, b), f # <<>>
  PROVE  Head(f) \in Slots /\ OneOwner(Tail(f), p, Head(f), b)
<1>1. /\ \A s : Holds(Tail(f), s) <=> Holds(f, s) /\ s # Head(f)
      /\ Holds(f, Head(f)) /\ Head(f) \in Slots
      /\ Tail(f) \in Seq(Slots) /\ Distinct(Tail(f))
  BY TailHolds DEF OneOwner
<1>2. None \notin Slots
  BY SlotAssumption DEF Slots, None
<1>. QED  BY <1>1, <1>2 DEF OneOwner

\* ... a hand gives its slot back, for which there is room ...
LEMMA GiveFree ==
  ASSUME NEW f, NEW p, NEW a, NEW b, OneOwner(f, p, a, b), a # None
  PROVE  Len(f) < SlotCount /\ OneOwner(Append(f, a), p, None, b)
<1>1. a \in Slots /\ ~Holds(f, a) /\ f \in Seq(Slots) /\ Distinct(f)
  BY DEF OneOwner
<1>2. Len(f) < SlotCount
  BY <1>1, FreeHasRoom
<1>3. /\ \A s : Holds(Append(f, a), s) <=> Holds(f, s) \/ s = a
      /\ Distinct(Append(f, a))
      /\ Append(f, a) \in Seq(Slots)
  BY <1>1, AppendHolds, AppendProperties
<1>4. None \notin Slots
  BY SlotAssumption DEF Slots, None
<1>. QED  BY <1>1, <1>2, <1>3, <1>4 DEF OneOwner

\* The two hands are alike.
LEMMA HandsSwap ==
  ASSUME NEW f, NEW p, NEW a, NEW b, OneOwner(f, p, a, b)
  PROVE  OneOwner(f, p, b, a)
BY DEF OneOwner

\* ... the producer sends its slot, for which there is room too ...
LEMMA SendEntry ==
  ASSUME NEW f, NEW p, NEW a, NEW b, OneOwner(f, p, a, b), ~Carries(p, None), NEW c \in Nat,
         a # None
  PROVE  /\ Len(p) < SlotCount + 1 /\ [slot |-> a, chunk |-> c] \in Entries
         /\ OneOwner(f, Append(p, [slot |-> a, chunk |-> c]), None, b)
<1>. DEFINE e == [slot |-> a, chunk |-> c]
<1>1. a \in Slots /\ ~Carries(p, a) /\ p \in Seq(Entries) /\ DistinctSlots(p) /\ e.slot = a
  BY DEF OneOwner
<1>2. Len(p) < SlotCount + 1
  BY <1>1, PlayHasPlace
<1>3. e \in Entries
  BY <1>1 DEF Entries
<1>4. /\ \A s : Carries(Append(p, e), s) <=> Carries(p, s) \/ s = a
      /\ DistinctSlots(Append(p, e))
      /\ Append(p, e) \in Seq(Entries)
  BY <1>1, <1>3, AppendCarries, AppendProperties
<1>5. None \notin Slots
  BY SlotAssumption DEF Slots, None
<1>. QED  BY <1>1, <1>2, <1>3, <1>4, <1>5 DEF OneOwner

\* ... or the marker ...
LEMMA SendNone ==
  ASSUME NEW f, NEW p, NEW a, NEW b, OneOwner(f, p, a, b), ~Carries(p, None)
  PROVE  /\ Len(p) < SlotCount + 1 /\ Marker \in Entries
         /\ OneOwner(f, Append(p, Marker), a, b)
<1>1. p \in Seq(Entries) /\ DistinctSlots(p) /\ Marker.slot = None
  BY DEF OneOwner, Marker
<1>2. Len(p) < SlotCount + 1
  BY <1>1, PlayHasPlace
<1>3. Marker \in Entries
  BY DEF Entries
<1>4. /\ \A s : Carries(Append(p, Marker), s) <=> Carries(p, s) \/ s = None
      /\ DistinctSlots(Append(p, Marker))
      /\ Append(p, Marker) \in Seq(Entries)
  BY <1>1, <1>3, AppendCarries, AppendProperties
<1>5. None \notin Slots
  BY SlotAssumption DEF Slots, None
<1>. QED  BY <1>1, <1>2, <1>3, <1>4, <1>5 DEF OneOwner

\* ... and the player takes an entry into its empty hand.
LEMMA ReceiveEntry ==
  ASSUME NEW f, NEW p, NEW a, OneOwner(f, p, a, None), p # <<>>
  PROVE  Head(p) \in Entries /\ OneOwner(f, Tail(p), a, Head(p).slot)
<1>1. /\ \A s : Carries(Tail(p), s) <=> Carries(p, s) /\ s # Head(p).slot
      /\ Carries(p, Head(p).slot) /\ Head(p) \in Entries
      /\ Tail(p) \in Seq(Entries) /\ DistinctSlots(Tail(p))
  BY TailCarries DEF OneOwner
<1>2. Head(p).slot \in Slots \cup {None}
  BY <1>1 DEF Entries, Marker
<1>3. None \notin Slots
  BY SlotAssumption DEF Slots, None
<1>. QED  BY <1>1, <1>2, <1>3 DEF OneOwner

----------------------------------------------------------------------------
(* The inductive invariant                                                  *)

Requesting  == {"open", "read", "odd", "offer", "fill", "send", "finish"}
SendingDone == {"await", "overtime", "delete", "conclude", "over"}
HasChunk    == {"count", "buffer", "open", "enable", "write"}
Leaving     == {"fail", "drain", "stop", "give", "gone"}
Codes       == {"OK", "INVALID_SIZE", "INVALID_STATE", "TIMEOUT", "HARDWARE"}

ProducerStates == [pc : Requesting \cup SendingDone, slot : Slots \cup {None}, left : Nat,
                   last : BOOLEAN]
StreamStates   == [received : Nat, accepted : BOOLEAN, overflow : BOOLEAN, abort : BOOLEAN,
                   ret : {"OK", "FAILED", "HTTP_ERROR"}]
PlayerStates   == [pc : {"top", "poll", "written"} \cup HasChunk \cup Leaving,
                   held : Entries, ret : Codes, started : BOOLEAN]

USE DEF ProducerStates, StreamStates, PlayerStates

Typed ==
  /\ queued \in Nat /\ played \in Seq(Nat) /\ status \in Codes
  /\ producer \in ProducerStates /\ stream \in StreamStates /\ player \in PlayerStates

\* The chunks the producer has sent, and those of them the player has taken.
Sent == stream.received - producer.left
Taken == Sent - Chunks(play)

\* A hand is full just where its task holds a slot; the marker ends the queue of
\* a producer that sends nothing more.
PoolInv ==
  /\ OneOwner(free, play, producer.slot, player.held.slot)
  /\ producer.slot # None <=> producer.pc \in {"fill", "send"}
  /\ player.held.slot # None <=> player.pc \in HasChunk
  /\ MarkerLast(play)
  /\ Carries(play, None) => producer.pc \in SendingDone

\* Nothing received is left unsent unless it was refused, which the status tells;
\* the count of queued chunks is exact but for the one between count and queue;
\* the queue continues where the player is.
StreamInv ==
  /\ stream.abort => status # "OK"
  /\ producer.pc \in {"open", "read", "finish"} \cup SendingDone =>
       stream.abort \/ producer.left = 0
  /\ producer.pc \in {"fill", "send"} => producer.left > 0
  /\ producer.left <= stream.received
  /\ queued = Chunks(play) + (IF producer.pc = "send" THEN 1 ELSE 0)
                           + (IF player.pc = "count" THEN 1 ELSE 0)
  /\ \A i \in DOMAIN play : play[i].slot # None => play[i].chunk = Taken + i

\* What is heard is what was taken, as long as nothing has failed; a player that
\* leaves without a failure has heard everything.
HeardInv ==
  /\ Len(played) <= Taken
  /\ \A i \in DOMAIN played : played[i] = i
  /\ status = "OK" /\ fresh /\ player.pc \in HasChunk =>
       player.held.chunk = Taken /\ Len(played) = Taken - 1
  /\ status = "OK" /\ fresh /\ player.pc \in {"top", "poll", "written"} => Len(played) = Taken
  /\ status = "OK" /\ fresh /\ player.pc \in Leaving /\ (player.pc = "fail" => player.ret = "OK")
       => producer.pc \in SendingDone /\ Len(played) = Sent

\* Who blames an interruption was interrupted; a complete answer stays complete.
BlameInv ==
  /\ player.ret = "INVALID_STATE" => ~fresh
  /\ status = "INVALID_STATE" => ~fresh
  /\ outcome = "complete" =>
       producer.pc = "over" /\ player.pc = "gone" /\ Len(played) = stream.received

StreamIInv == Typed /\ PoolInv /\ StreamInv /\ HeardInv /\ BlameInv

\* The initial state satisfies the invariant.
LEMMA StreamInit == PlaybackInit => StreamIInv
<1>. SUFFICES ASSUME PlaybackInit PROVE StreamIInv
  OBVIOUS
<1>. USE DEF PlaybackInit
<1>1. Marker \in Entries /\ Marker.slot = None
  BY DEF Entries, Marker
<1>2. /\ \A s : ~Carries(<<>>, s)
      /\ <<>> \in Seq(Entries) /\ <<>> \in Seq(Nat) /\ Len(<<>>) = 0
      /\ DOMAIN <<>> = {}
  <2>1. Len(<<>>) = 0 /\ <<>> \in Seq(Entries) /\ <<>> \in Seq(Nat)
    BY EmptySeq
  <2>2. DOMAIN <<>> = {}
    OBVIOUS
  <2>. QED  BY <2>1, <2>2 DEF Carries
<1>3. Chunks(<<>>) = 0
  BY <1>2 DEF Chunks
<1>4. OneOwner(free, play, producer.slot, player.held.slot)
  <2>1. free \in Seq(Slots)
    BY SlotAssumption, IsASeq DEF Slots
  <2>2. \A s \in Slots : Holds(free, s)
    BY DEF Holds
  <2>3. None \notin Slots
    BY SlotAssumption DEF Slots, None
  <2>. QED  BY <1>1, <1>2, <2>1, <2>2, <2>3 DEF OneOwner, Distinct, DistinctSlots
<1>5. Typed
  <2>1. queued \in Nat /\ played \in Seq(Nat) /\ status \in Codes
    BY <1>2 DEF Codes
  <2>2. producer \in ProducerStates
    BY DEF Requesting
  <2>3. stream \in StreamStates
    OBVIOUS
  <2>4. player \in PlayerStates
    BY <1>1 DEF Codes
  <2>. QED  BY <2>1, <2>2, <2>3, <2>4 DEF Typed
<1>6. PoolInv
  BY <1>1, <1>2, <1>4 DEF PoolInv, MarkerLast, HasChunk
<1>7. StreamInv /\ HeardInv /\ BlameInv
  BY <1>2, <1>3
  DEF StreamInv, HeardInv, BlameInv, Taken, Sent, SendingDone, HasChunk, Leaving
<1>. QED  BY <1>5, <1>6, <1>7 DEF StreamIInv

\* The numbers of the invariant are numbers.
LEMMA QueueFacts ==
  ASSUME Typed, PoolInv
  PROVE  /\ Chunks(play) \in Nat /\ Len(play) \in Nat /\ DOMAIN play = 1 .. Len(play)
         /\ Len(played) \in Nat /\ DOMAIN played = 1 .. Len(played)
         /\ Sent \in Int /\ Taken \in Int
<1>1. play \in Seq(Entries) /\ played \in Seq(Nat)
  BY DEF PoolInv, OneOwner, Typed
<1>2. /\ Len(play) \in Nat /\ DOMAIN play = 1 .. Len(play)
      /\ Len(played) \in Nat /\ DOMAIN played = 1 .. Len(played)
  BY <1>1, LenProperties
<1>3. Chunks(play) \in Nat
  BY <1>2 DEF Chunks, Carries
<1>4. producer.left \in Nat /\ stream.received \in Nat
  BY DEF Typed
<1>. QED  BY <1>2, <1>3, <1>4 DEF Sent, Taken

----------------------------------------------------------------------------
(* The inductive step: the producer                                         *)

\* A new interaction only makes the tasks stale.
LEMMA InterruptStep ==
  StreamIInv /\ (NewInteractionBegins \/ UNCHANGED playbackVars) => StreamIInv'
<1>. SUFFICES ASSUME StreamIInv, NewInteractionBegins \/ UNCHANGED playbackVars
              PROVE  StreamIInv'
  OBVIOUS
<1>1. /\ UNCHANGED <<status, queued, free, play, producer, stream, player, played, outcome>>
      /\ fresh' => fresh
  <2>1. CASE NewInteractionBegins
    BY <2>1 DEF NewInteractionBegins
  <2>2. CASE UNCHANGED playbackVars
    BY <2>2 DEF playbackVars
  <2>. QED  BY <2>1, <2>2
<1>2. Typed' /\ PoolInv' /\ StreamInv'
  BY <1>1 DEF StreamIInv, Typed, PoolInv, StreamInv, Taken, Sent
<1>3. HeardInv' /\ BlameInv'
  BY <1>1 DEF StreamIInv, HeardInv, BlameInv, Taken, Sent
<1>. QED  BY <1>2, <1>3 DEF StreamIInv

\* The client reads events: what it has received and not yet sent grows together.
LEMMA RequestStep == StreamIInv /\ (OpenRequest \/ ReadStream) => StreamIInv'
<1>. SUFFICES ASSUME StreamIInv, OpenRequest \/ ReadStream PROVE StreamIInv'
  OBVIOUS
<1>1. UNCHANGED <<status, queued, free, play, player, played, fresh, outcome>>
  BY DEF OpenRequest, ReadStream, ClientFrame
<1>. DEFINE Effect ==
       /\ producer' = [producer EXCEPT !.pc = producer'.pc, !.left = producer'.left,
                                       !.last = producer'.last]
       /\ producer'.pc \in {"read", "finish", "offer", "odd"}
       /\ producer'.left \in Nat /\ producer'.last \in BOOLEAN
       /\ stream' \in StreamStates
       /\ stream'.abort = stream.abort
       /\ producer'.left <= stream'.received
       /\ Sent' = Sent
       /\ producer'.pc \in {"read", "finish"} => producer'.left = producer.left
<1>2. producer.pc \in {"open", "read"}
  BY DEF OpenRequest, ReadStream
<1>3. /\ producer.left \in Nat /\ stream.received \in Nat /\ producer.left <= stream.received
      /\ ~stream.abort => producer.left = 0
      /\ producer \in ProducerStates
      /\ stream \in StreamStates
  BY <1>2 DEF StreamIInv, Typed, StreamInv
<1>4. ASSUME NEW r \in {"OK", "FAILED", "HTTP_ERROR"}, EndRequest(r) PROVE Effect
  BY <1>3, <1>4 DEF EndRequest, ProducerGoes, Sent
<1>5. Effect
  <2>1. CASE OpenRequest
    <3>1. CASE ProducerGoes("read") /\ UNCHANGED stream
      BY <1>3, <3>1 DEF ProducerGoes, Sent
    <3>. QED  BY <2>1, <3>1, <1>4 DEF OpenRequest
  <2>2. CASE UNCHANGED producer /\ stream' = [stream EXCEPT !.overflow = TRUE] /\ ReadStream
    BY <1>3, <2>2 DEF Sent, ReadStream
  <2>3. ASSUME ~stream.abort,
               NEW n \in 1 .. MaxChunks - stream.received, NEW last \in BOOLEAN,
               NEW ret \in {"OK", "HTTP_ERROR"}, NEW pc \in {"offer", "odd"},
               producer' = [producer EXCEPT !.pc = pc, !.left = n, !.last = last],
               stream' = [stream EXCEPT !.received = @ + n, !.ret = ret]
        PROVE  Effect
    <3>1. n \in Nat /\ stream.received + n \in Nat
      BY <1>3, SlotAssumption
    <3>2. /\ producer'.left = n /\ producer'.pc = pc /\ producer'.last = last
          /\ producer' = [producer EXCEPT !.pc = producer'.pc, !.left = producer'.left,
                                          !.last = producer'.last]
      BY <1>3, <2>3
    <3>3. /\ stream'.received = stream.received + n /\ stream'.abort = stream.abort
          /\ stream' \in StreamStates
      <4>1. DOMAIN stream = {"received", "accepted", "overflow", "abort", "ret"}
        BY <1>3
      <4>2. stream'.received = stream.received + n /\ stream'.ret = ret
            /\ stream'.abort = stream.abort
        BY <2>3, <4>1
      <4>. QED  BY <1>3, <2>3, <3>1, <4>2
    <3>4. Sent' = Sent
      BY <1>3, <2>3, <3>1, <3>2, <3>3 DEF Sent
    <3>. QED  BY <2>3, <1>3, <3>1, <3>2, <3>3, <3>4
  <2>4. CASE ReadStream
    <3>1. CASE \E ret \in {"OK", "FAILED", "HTTP_ERROR"} : EndRequest(ret)
      BY <3>1, <1>4
    <3>2. CASE \E n \in 1 .. MaxChunks - stream.received, last \in BOOLEAN :
                 \E ret \in IF last THEN {"OK", "HTTP_ERROR"} ELSE {"OK"} :
                 \E pc \in {"offer", "odd"} :
                   /\ ~stream.abort
                   /\ producer' = [producer EXCEPT !.pc = pc, !.left = n, !.last = last]
                   /\ stream' = [stream EXCEPT !.received = @ + n, !.ret = ret]
      BY <3>2, <2>3
    <3>3. CASE UNCHANGED producer /\ stream' = [stream EXCEPT !.overflow = TRUE]
      BY <2>4, <3>3, <2>2
    <3>. QED  BY <2>4, <3>1, <3>2, <3>3 DEF ReadStream
  <2>. QED  BY <2>1, <2>4
<1>. HIDE DEF Effect
<1>6. /\ producer'.slot = producer.slot /\ producer'.pc \in {"read", "finish", "offer", "odd"}
      /\ producer'.left <= stream'.received /\ stream'.abort = stream.abort /\ Sent' = Sent
      /\ producer'.pc \in {"read", "finish"} => producer'.left = producer.left
  BY <1>5, <1>3 DEF Effect
<1>7. Typed'
  BY <1>1, <1>3, <1>5 DEF Effect, StreamIInv, Typed, Requesting
<1>8. PoolInv'
  BY <1>1, <1>2, <1>6 DEF StreamIInv, PoolInv, SendingDone
<1>9. StreamInv'
  BY <1>1, <1>2, <1>6 DEF StreamIInv, StreamInv, SendingDone, Taken
<1>10. HeardInv' /\ BlameInv'
  BY <1>1, <1>2, <1>6 DEF StreamIInv, HeardInv, BlameInv, SendingDone, Taken
<1>. QED  BY <1>7, <1>8, <1>9, <1>10 DEF StreamIInv

\* tts_playback_fail keeps the first failure.
LEMMA FailKeepsFirst ==
  ASSUME Typed, NEW ret \in Codes \ {"OK"}, Fail(ret)
  PROVE  /\ status' \in Codes /\ status' # "OK"
         /\ status # "OK" => status' = status
         /\ status = "OK" => status' = ret
BY DEF Fail, Typed, Codes

\* The callback returns to the client with an empty hand, and with everything sent
\* unless it refuses the rest.
LEMMA ReturnStep ==
  ASSUME StreamIInv, producer.pc \in {"odd", "offer", "fill"},
         NEW accepted \in BOOLEAN, Return(accepted), accepted => producer.left = 0,
         UNCHANGED <<queued, play, player, played, fresh, outcome>>,
         status' \in Codes, status # "OK" => status' = status, ~accepted => status' # "OK",
         status' = "INVALID_STATE" => ~fresh,
         OneOwner(free', play, None, player.held.slot)
  PROVE  StreamIInv'
<1>1. /\ producer' \in ProducerStates
      /\ producer'.pc \in {"read", "finish"} /\ producer'.slot = None
      /\ producer'.left = producer.left
  BY DEF StreamIInv, Typed, Return, Requesting
<1>2. /\ stream' \in StreamStates
      /\ stream'.received = stream.received
      /\ stream'.abort <=> stream.abort \/ ~accepted
  BY DEF StreamIInv, Typed, Return
<1>3. Sent' = Sent
  BY <1>1, <1>2 DEF Sent
<1>4. Typed'
  BY <1>1, <1>2 DEF StreamIInv, Typed
<1>5. PoolInv'
  BY <1>1 DEF StreamIInv, PoolInv, SendingDone
<1>6. StreamInv'
  BY <1>1, <1>2, <1>3 DEF StreamIInv, StreamInv, SendingDone, Taken
<1>7. HeardInv' /\ BlameInv'
  BY <1>1, <1>2, <1>3 DEF StreamIInv, HeardInv, BlameInv, SendingDone, Taken
<1>. QED  BY <1>4, <1>5, <1>6, <1>7 DEF StreamIInv

\* RefuseOdd and OfferChunk: a refusal names its true reason, a free slot is taken.
LEMMA OfferStep == StreamIInv /\ (RefuseOdd \/ OfferChunk) => StreamIInv'
<1>. SUFFICES ASSUME StreamIInv, RefuseOdd \/ OfferChunk PROVE StreamIInv'
  OBVIOUS
<1>1. /\ UNCHANGED <<queued, play, player, played, fresh, outcome>>
      /\ producer.pc \in {"odd", "offer"}
  BY DEF RefuseOdd, OfferChunk, CallbackFrame
<1>2. /\ producer.slot = None /\ OneOwner(free, play, None, player.held.slot)
      /\ status \in Codes /\ (status = "INVALID_STATE" => ~fresh) /\ Typed
  BY <1>1 DEF StreamIInv, PoolInv, Typed, BlameInv
<1>3. CASE RefuseOdd
  <2>1. UNCHANGED free /\ Return(FALSE)
    BY <1>3 DEF RefuseOdd
  <2>2. /\ status' \in Codes /\ status' # "OK" /\ (status # "OK" => status' = status)
        /\ status' = "INVALID_STATE" => ~fresh
    <3>1. CASE fresh
      <4>1. Fail("INVALID_SIZE") /\ "INVALID_SIZE" \in Codes \ {"OK"}
        BY <1>3, <3>1 DEF RefuseOdd, Codes
      <4>. QED  BY <1>2, <4>1, FailKeepsFirst
    <3>2. CASE ~fresh
      <4>1. Fail("INVALID_STATE") /\ "INVALID_STATE" \in Codes \ {"OK"}
        BY <1>3, <3>2 DEF RefuseOdd, Codes
      <4>. QED  BY <1>2, <3>2, <4>1, FailKeepsFirst
    <3>. QED  BY <3>1, <3>2
  <2>. QED  BY <1>1, <1>2, <2>1, <2>2, ReturnStep
<1>4. CASE OfferChunk /\ producer.left = 0
  <2>1. UNCHANGED <<status, free>> /\ Return(TRUE)
    BY <1>4 DEF OfferChunk
  <2>. QED  BY <1>1, <1>2, <1>4, <2>1, ReturnStep
<1>5. CASE OfferChunk /\ producer.left # 0 /\ (status # "OK" \/ ~fresh)
  <2>1. UNCHANGED free /\ Return(FALSE) /\ Fail("INVALID_STATE")
    BY <1>5 DEF OfferChunk
  <2>2. "INVALID_STATE" \in Codes \ {"OK"}
    BY DEF Codes
  <2>3. /\ status' \in Codes /\ status' # "OK" /\ (status # "OK" => status' = status)
        /\ status = "OK" => status' = "INVALID_STATE"
    BY <1>2, <2>1, <2>2, FailKeepsFirst
  <2>. QED  BY <1>1, <1>2, <1>5, <2>1, <2>3, ReturnStep
<1>6. CASE OfferChunk /\ producer.left # 0 /\ status = "OK" /\ fresh /\ free = <<>>
           /\ Fail("TIMEOUT") /\ Return(FALSE) /\ UNCHANGED free
  <2>1. "TIMEOUT" \in Codes \ {"OK"}
    BY DEF Codes
  <2>2. status' \in Codes /\ status' = "TIMEOUT"
    BY <1>2, <1>6, <2>1, FailKeepsFirst
  <2>. QED  BY <1>1, <1>2, <1>6, <2>2, ReturnStep
<1>7. CASE OfferChunk /\ producer.left # 0 /\ free # <<>> /\ free' = Tail(free)
           /\ producer' = [producer EXCEPT !.pc = "fill", !.slot = Head(free)]
           /\ UNCHANGED <<status, stream>>
  <2>1. Head(free) \in Slots /\ OneOwner(free', play, Head(free), player.held.slot)
    BY <1>2, <1>7, TakeFree
  <2>2. /\ producer' \in ProducerStates
        /\ producer'.pc = "fill" /\ producer'.slot = Head(free) /\ producer'.slot # None
        /\ producer'.left = producer.left /\ producer.left > 0 /\ producer.pc = "offer"
    <3>1. producer.pc = "offer" /\ producer.left \in Nat /\ producer.left > 0
      BY <1>7 DEF OfferChunk, StreamIInv, Typed
    <3>2. Head(free) # None
      BY <2>1, SlotAssumption DEF Slots, None
    <3>3. producer \in ProducerStates
      BY DEF StreamIInv, Typed
    <3>4. "fill" \in Requesting /\ Head(free) \in Slots \cup {None}
      BY <2>1 DEF Requesting
    <3>5. /\ producer'.pc = "fill" /\ producer'.slot = Head(free)
          /\ producer'.left = producer.left
      BY <1>7, <3>3
    <3>6. producer' \in ProducerStates
      BY <1>7, <3>3, <3>4
    <3>. QED  BY <3>1, <3>2, <3>5, <3>6
  <2>3. Sent' = Sent
    BY <1>7, <2>2 DEF Sent
  <2>4. Typed'
    BY <1>1, <1>7, <2>2 DEF StreamIInv, Typed
  <2>5. PoolInv'
    BY <1>1, <2>1, <2>2 DEF StreamIInv, PoolInv, SendingDone
  <2>6. StreamInv'
    BY <1>1, <1>7, <2>2, <2>3 DEF StreamIInv, StreamInv, SendingDone, Taken
  <2>7. HeardInv' /\ BlameInv'
    BY <1>1, <1>7, <2>2, <2>3 DEF StreamIInv, HeardInv, BlameInv, SendingDone, Taken
  <2>. QED  BY <2>4, <2>5, <2>6, <2>7 DEF StreamIInv
<1>. QED  BY <1>1, <1>3, <1>4, <1>5, <1>6, <1>7 DEF OfferChunk

\* FillSlot: a slot that came too late goes back, another one is counted.
LEMMA FillStep == StreamIInv /\ FillSlot => StreamIInv'
<1>. SUFFICES ASSUME StreamIInv, FillSlot PROVE StreamIInv'
  OBVIOUS
<1>1. /\ UNCHANGED <<play, player, played, fresh, outcome>>
      /\ producer.pc = "fill"
  BY DEF FillSlot, CallbackFrame
<1>2. /\ producer.slot # None /\ OneOwner(free, play, producer.slot, player.held.slot)
      /\ status \in Codes /\ (status = "INVALID_STATE" => ~fresh) /\ Typed
  BY <1>1 DEF StreamIInv, PoolInv, Typed, BlameInv
<1>3. CASE status # "OK" \/ ~fresh
  <2>1. UNCHANGED queued /\ Return(FALSE) /\ Release(producer.slot)
    BY <1>3 DEF FillSlot
  <2>2. OneOwner(free', play, None, player.held.slot)
    BY <1>2, <2>1, GiveFree DEF Release
  <2>3. /\ status' \in Codes /\ status' # "OK" /\ (status # "OK" => status' = status)
        /\ status' = "INVALID_STATE" => ~fresh
    <3>1. CASE fresh
      BY <1>2, <1>3, <3>1 DEF FillSlot
    <3>2. CASE ~fresh
      <4>1. Fail("INVALID_STATE") /\ "INVALID_STATE" \in Codes \ {"OK"}
        BY <1>3, <3>2 DEF FillSlot, Codes
      <4>. QED  BY <1>2, <3>2, <4>1, FailKeepsFirst
    <3>. QED  BY <3>1, <3>2
  <2>. QED  BY <1>1, <2>1, <2>2, <2>3, ReturnStep
<1>4. CASE status = "OK" /\ fresh
  <2>1. queued' = queued + 1 /\ ProducerGoes("send") /\ UNCHANGED <<status, stream, free>>
    BY <1>4 DEF FillSlot
  <2>2. /\ producer' \in ProducerStates
        /\ producer'.pc = "send" /\ producer'.slot = producer.slot
        /\ producer'.left = producer.left
    BY <2>1 DEF StreamIInv, Typed, Requesting, ProducerGoes
  <2>3. Sent' = Sent
    BY <2>1, <2>2 DEF Sent
  <2>4. Typed'
    BY <1>1, <2>1, <2>2 DEF StreamIInv, Typed
  <2>5. PoolInv'
    BY <1>1, <1>2, <2>1, <2>2 DEF StreamIInv, PoolInv, SendingDone
  <2>6. StreamInv'
    BY <1>1, <1>2, <2>1, <2>2, <2>3, QueueFacts
    DEF StreamIInv, StreamInv, SendingDone, Taken
  <2>7. HeardInv' /\ BlameInv'
    BY <1>1, <2>1, <2>2, <2>3 DEF StreamIInv, HeardInv, BlameInv, SendingDone, Taken
  <2>. QED  BY <2>4, <2>5, <2>6, <2>7 DEF StreamIInv
<1>. QED  BY <1>3, <1>4

\* SendSlot: the chunk follows the last one sent; there is always room.
LEMMA SendStep == StreamIInv /\ SendSlot => StreamIInv'
<1>. SUFFICES ASSUME StreamIInv, SendSlot PROVE StreamIInv'
  OBVIOUS
<1>. DEFINE e == [slot |-> producer.slot, chunk |-> Sent + 1]
<1>1. /\ UNCHANGED <<player, played, fresh, outcome>>
      /\ producer.pc = "send"
  BY DEF SendSlot, CallbackFrame
<1>2. /\ producer.slot # None /\ OneOwner(free, play, producer.slot, player.held.slot)
      /\ ~Carries(play, None) /\ producer.left > 0 /\ producer.left <= stream.received
      /\ producer.left \in Nat /\ stream.received \in Nat /\ Sent \in Nat
  BY <1>1 DEF StreamIInv, PoolInv, Typed, StreamInv, SendingDone, Sent
<1>3. /\ Len(play) < SlotCount + 1 /\ e \in Entries
      /\ OneOwner(free, Append(play, e), None, player.held.slot)
  BY <1>2, SendEntry
<1>4. /\ play' = Append(play, e)
      /\ producer' = [producer EXCEPT !.pc = "offer", !.slot = None, !.left = @ - 1]
      /\ UNCHANGED <<status, stream, queued, free>>
  BY <1>3 DEF SendSlot, PlayHasRoom, Sent
<1>5. /\ producer' \in ProducerStates
      /\ producer'.pc = "offer" /\ producer'.slot = None
      /\ producer'.left = producer.left - 1
  <2>1. producer \in ProducerStates
    BY DEF StreamIInv, Typed
  <2>2. "offer" \in Requesting /\ producer.left - 1 \in Nat
    BY <1>2 DEF Requesting
  <2>3. /\ producer'.pc = "offer" /\ producer'.slot = None
        /\ producer'.left = producer.left - 1
    BY <1>4, <2>1
  <2>4. producer' \in ProducerStates
    BY <1>4, <2>1, <2>2
  <2>. QED  BY <2>3, <2>4
<1>6. Sent' = Sent + 1
  BY <1>2, <1>4, <1>5 DEF Sent
<1>7. play \in Seq(Entries)
  BY <1>2 DEF OneOwner
<1>8. /\ Chunks(play) = Len(play) /\ Chunks(play') = Chunks(play) + 1
      /\ Len(play') = Len(play) + 1
      /\ \A i \in 1 .. Len(play) : play'[i] = play[i]
      /\ play'[Len(play) + 1] = e /\ e.slot = producer.slot
  BY <1>2, <1>3, <1>4, <1>7, ChunksAppend
<1>9. Len(play) \in Nat /\ DOMAIN play = 1 .. Len(play) /\ DOMAIN play' = 1 .. Len(play) + 1
  BY <1>3, <1>4, <1>7, <1>8, LenProperties, AppendProperties
<1>10. Taken' = Taken
  BY <1>2, <1>6, <1>8, <1>9 DEF Taken
<1>11. Typed'
  BY <1>1, <1>4, <1>5 DEF StreamIInv, Typed
<1>12. PoolInv'
  <2>1. MarkerLast(play')
    BY <1>2, <1>8, <1>9 DEF MarkerLast, Carries
  <2>2. ~Carries(play', None)
    BY <1>2, <1>8, <1>9 DEF Carries
  <2>. QED  BY <1>1, <1>3, <1>4, <1>5, <2>1, <2>2 DEF StreamIInv, PoolInv
<1>13. StreamInv'
  <2>1. \A i \in DOMAIN play' : play'[i].slot # None => play'[i].chunk = Taken' + i
    <3>1. e.chunk = Taken + (Len(play) + 1)
      BY <1>2, <1>8, <1>9 DEF Taken
    <3>. QED  BY <1>8, <1>9, <1>10, <3>1 DEF StreamIInv, StreamInv
  <2>. QED
    BY <1>1, <1>2, <1>4, <1>5, <1>8, <1>9, <2>1
    DEF StreamIInv, StreamInv, SendingDone
<1>14. HeardInv' /\ BlameInv'
  BY <1>1, <1>2, <1>4, <1>5, <1>6, <1>10 DEF StreamIInv, HeardInv, BlameInv, SendingDone
<1>. QED  BY <1>11, <1>12, <1>13, <1>14 DEF StreamIInv

\* SendMarker: the marker ends the queue.
LEMMA MarkStep == StreamIInv /\ SendMarker => StreamIInv'
<1>. SUFFICES ASSUME StreamIInv, SendMarker PROVE StreamIInv'
  OBVIOUS
<1>1. /\ UNCHANGED <<queued, free, stream, player, played, fresh, outcome>>
      /\ producer.pc = "finish" /\ ProducerGoes("await")
  BY DEF SendMarker, FinishFrame
<1>2. /\ OneOwner(free, play, producer.slot, player.held.slot) /\ producer.slot = None
      /\ ~Carries(play, None)
  BY <1>1 DEF StreamIInv, PoolInv, SendingDone
<1>3. /\ Len(play) < SlotCount + 1 /\ Marker \in Entries
      /\ OneOwner(free, Append(play, Marker), producer.slot, player.held.slot)
  BY <1>2, SendNone
<1>4. play' = Append(play, Marker) /\ UNCHANGED status
  BY <1>3 DEF SendMarker, PlayHasRoom
<1>5. /\ producer' \in ProducerStates
      /\ producer'.pc = "await" /\ producer'.slot = None
      /\ producer'.left = producer.left
  BY <1>1, <1>2 DEF StreamIInv, Typed, SendingDone, ProducerGoes
<1>6. Sent' = Sent
  BY <1>1, <1>5 DEF Sent
<1>7. play \in Seq(Entries)
  BY <1>2 DEF OneOwner
<1>8. /\ Marker.slot = None
      /\ Chunks(play') = Chunks(play)
      /\ Len(play') = Len(play) + 1
      /\ \A i \in 1 .. Len(play) : play'[i] = play[i]
      /\ play'[Len(play) + 1] = Marker
  BY <1>2, <1>3, <1>4, <1>7, ChunksAppend DEF Marker
<1>9. Len(play) \in Nat /\ DOMAIN play = 1 .. Len(play) /\ DOMAIN play' = 1 .. Len(play) + 1
  BY <1>3, <1>4, <1>7, <1>8, LenProperties, AppendProperties
<1>10. Taken' = Taken
  BY <1>6, <1>8 DEF Taken
<1>11. Typed'
  BY <1>1, <1>4, <1>5 DEF StreamIInv, Typed
<1>12. PoolInv'
  <2>1. MarkerLast(play')
    BY <1>2, <1>8, <1>9 DEF MarkerLast, Carries
  <2>. QED  BY <1>1, <1>2, <1>3, <1>4, <1>5, <2>1 DEF StreamIInv, PoolInv, SendingDone
<1>13. StreamInv'
  <2>1. \A i \in DOMAIN play' : play'[i].slot # None => play'[i].chunk = Taken' + i
    BY <1>8, <1>9, <1>10 DEF StreamIInv, StreamInv
  <2>. QED  BY <1>1, <1>2, <1>4, <1>5, <1>8, <2>1 DEF StreamIInv, StreamInv, SendingDone
<1>14. HeardInv' /\ BlameInv'
  BY <1>1, <1>2, <1>4, <1>5, <1>6, <1>10 DEF StreamIInv, HeardInv, BlameInv, SendingDone
<1>. QED  BY <1>11, <1>12, <1>13, <1>14 DEF StreamIInv

\* The chat task waits for the player and concludes: an answer it calls complete was
\* heard to its end.
LEMMA EndStep ==
  StreamIInv /\ SpeechInv /\ (AwaitPlayer \/ DeleteContext \/ Conclude) => StreamIInv'
<1>. SUFFICES ASSUME StreamIInv, SpeechInv, AwaitPlayer \/ DeleteContext \/ Conclude
              PROVE  StreamIInv'
  OBVIOUS
<1>1. /\ UNCHANGED <<queued, free, play, stream, player, played, fresh>>
      /\ producer.pc \in {"await", "overtime", "delete", "conclude"}
  BY DEF AwaitPlayer, DeleteContext, Conclude, FinishFrame
<1>2. \E pc \in {"overtime", "delete", "conclude", "over"} : ProducerGoes(pc)
  BY DEF AwaitPlayer, DeleteContext, Conclude
<1>3. /\ producer' \in ProducerStates
      /\ producer'.pc \in {"overtime", "delete", "conclude", "over"}
      /\ producer'.slot = producer.slot /\ producer'.left = producer.left
  BY <1>2 DEF StreamIInv, Typed, SendingDone, ProducerGoes
<1>4. Sent' = Sent /\ Taken' = Taken
  BY <1>1, <1>3 DEF Sent, Taken
<1>5. /\ status' \in Codes /\ (status # "OK" => status' = status)
      /\ status' \in {status, "TIMEOUT"}
  <2>1. CASE Fail("TIMEOUT")
    <3>1. "TIMEOUT" \in Codes \ {"OK"}
      BY DEF Codes
    <3>2. Typed
      BY DEF StreamIInv
    <3>. QED  BY <2>1, <3>1, <3>2, FailKeepsFirst
  <2>2. CASE UNCHANGED status
    BY <2>2 DEF StreamIInv, Typed
  <2>. QED  BY <2>1, <2>2 DEF AwaitPlayer, DeleteContext, Conclude
<1>6. Typed'
  BY <1>1, <1>3, <1>5 DEF StreamIInv, Typed
<1>7. PoolInv'
  BY <1>1, <1>3 DEF StreamIInv, PoolInv, SendingDone
<1>8. StreamInv'
  BY <1>1, <1>3, <1>4, <1>5 DEF StreamIInv, StreamInv, SendingDone
<1>9. HeardInv'
  BY <1>1, <1>3, <1>4, <1>5 DEF StreamIInv, HeardInv, SendingDone
<1>10. BlameInv'
  <2>1. CASE AwaitPlayer \/ DeleteContext
    <3>1. UNCHANGED outcome
      BY <2>1 DEF AwaitPlayer, DeleteContext
    <3>. QED  BY <1>1, <1>3, <1>5, <3>1 DEF StreamIInv, BlameInv
  <2>2. CASE Conclude /\ outcome' = "complete"
    <3>1. producer.pc = "conclude" /\ ProducerGoes("over") /\ status = "OK" /\ fresh
          /\ UNCHANGED status
      BY <2>2 DEF Conclude
    <3>2. player.pc = "gone" /\ producer'.pc = "over"
      BY <3>1 DEF SpeechInv, DoneShape, ProducerGoes, StreamIInv, Typed
    <3>3. Len(played) = Sent /\ producer.left = 0 /\ stream.received \in Nat
      BY <3>1, <3>2 DEF StreamIInv, HeardInv, StreamInv, Leaving, SendingDone, Typed
    <3>4. Len(played') = stream'.received
      BY <1>1, <3>3 DEF Sent
    <3>. QED  BY <1>1, <3>1, <3>2, <3>4 DEF StreamIInv, BlameInv
  <2>3. CASE Conclude /\ outcome' # "complete"
    <3>1. UNCHANGED status
      BY <2>3 DEF Conclude
    <3>. QED  BY <1>1, <2>3, <3>1 DEF StreamIInv, BlameInv
  <2>. QED  BY <2>1, <2>2, <2>3
<1>. QED  BY <1>6, <1>7, <1>8, <1>9, <1>10 DEF StreamIInv

----------------------------------------------------------------------------
(* The inductive step: the player                                           *)

\* A player that moves on keeps what it holds.
LEMMA PlayerMove ==
  ASSUME StreamIInv, NEW pc, PlayerGoes(pc),
         pc \in {"top", "poll", "written"} \cup HasChunk \cup Leaving
  PROVE  /\ player' \in PlayerStates
         /\ player'.pc = pc /\ player'.held = player.held /\ player'.ret = player.ret
         /\ player'.started = player.started
BY DEF StreamIInv, Typed, PlayerGoes

\* Steps of the player that touch neither queue.
LEMMA PlayerKeepsQueues ==
  StreamIInv /\ (LoopTop \/ WrittenSlot \/ ReportFailure \/ StopSpeaker \/ GiveDone)
    => StreamIInv'
<1>. SUFFICES ASSUME StreamIInv, LoopTop \/ WrittenSlot \/ ReportFailure \/ StopSpeaker \/ GiveDone
              PROVE  StreamIInv'
  OBVIOUS
<1>. USE DEF Codes
<1>1. UNCHANGED <<queued, free, play, producer, stream, played, fresh, outcome>>
  BY DEF LoopTop, WrittenSlot, ReportFailure, StopSpeaker, GiveDone, PlayerFrame
<1>2. player.held.slot = None /\ player.held \in Entries /\ player.pc \notin HasChunk
  BY
  DEF StreamIInv, PoolInv, Typed, LoopTop, WrittenSlot, ReportFailure, StopSpeaker, GiveDone, HasChunk
<1>3. Sent' = Sent /\ Taken' = Taken
  BY <1>1 DEF Sent, Taken
<1>4. CASE LoopTop
  <2>1. /\ player.pc = "top" /\ UNCHANGED status
        /\ PlayerGoes(IF status = "OK" THEN "poll" ELSE "fail")
    BY <1>4 DEF LoopTop
  <2>2. /\ player' \in PlayerStates
        /\ player'.pc = IF status = "OK" THEN "poll" ELSE "fail"
        /\ player'.held = player.held /\ player'.ret = player.ret
    BY <2>1, PlayerMove DEF Leaving
  <2>. QED
    BY <1>1, <1>2, <1>3, <2>1, <2>2
    DEF StreamIInv, Typed, PoolInv, StreamInv, HeardInv, BlameInv, HasChunk, Leaving
<1>5. CASE WrittenSlot
  <2>1. player.pc = "written" /\ UNCHANGED status
    BY <1>5 DEF WrittenSlot
  <2>2. CASE fresh
    <3>1. PlayerGoes("top")
      BY <1>5, <2>2 DEF WrittenSlot
    <3>2. /\ player' \in PlayerStates
          /\ player'.pc = "top" /\ player'.held = player.held /\ player'.ret = player.ret
      BY <3>1, PlayerMove
    <3>. QED
      BY <1>1, <1>2, <1>3, <2>1, <3>2
      DEF StreamIInv, Typed, PoolInv, StreamInv, HeardInv, BlameInv, HasChunk, Leaving
  <2>3. CASE ~fresh
    <3>1. PlayerExits("INVALID_STATE")
      BY <1>5, <2>3 DEF WrittenSlot
    <3>2. /\ player' \in PlayerStates
          /\ player'.pc = "fail" /\ player'.held = Marker /\ Marker.slot = None
      BY <3>1 DEF PlayerExits, StreamIInv, Typed, Leaving, Entries, Marker
    <3>. QED
      BY <1>1, <1>2, <1>3, <2>1, <2>3, <3>2
      DEF StreamIInv, Typed, PoolInv, StreamInv, HeardInv, BlameInv, HasChunk, Leaving
  <2>. QED  BY <2>2, <2>3
<1>6. CASE ReportFailure
  <2>1. player.pc = "fail" /\ PlayerGoes("drain")
    BY <1>6 DEF ReportFailure
  <2>2. /\ player' \in PlayerStates
        /\ player'.pc = "drain" /\ player'.held = player.held /\ player'.ret = player.ret
    BY <2>1, PlayerMove DEF Leaving
  <2>3. /\ status' \in Codes /\ (status # "OK" => status' = status)
        /\ player.ret # "OK" => status' # "OK"
        /\ status' \in {status, player.ret}
    <3>1. CASE player.ret = "OK"
      BY <1>6, <3>1 DEF ReportFailure, StreamIInv, Typed
    <3>2. CASE player.ret # "OK"
      <4>1. Fail(player.ret) /\ player.ret \in Codes \ {"OK"} /\ Typed
        BY <1>6, <3>2 DEF ReportFailure, StreamIInv, Typed
      <4>. QED  BY <4>1, FailKeepsFirst
    <3>. QED  BY <3>1, <3>2
  <2>. QED
    BY <1>1, <1>2, <1>3, <2>1, <2>2, <2>3
    DEF StreamIInv, Typed, PoolInv, StreamInv, HeardInv, BlameInv, HasChunk, Leaving
<1>7. CASE StopSpeaker
  <2>1. player.pc = "stop" /\ PlayerGoes("give")
    BY <1>7 DEF StopSpeaker
  <2>2. /\ player' \in PlayerStates
        /\ player'.pc = "give" /\ player'.held = player.held /\ player'.ret = player.ret
    BY <2>1, PlayerMove DEF Leaving
  <2>3. /\ status' \in Codes /\ (status # "OK" => status' = status)
        /\ status' \in {status, "HARDWARE"}
    <3>1. CASE UNCHANGED status
      BY <3>1 DEF StreamIInv, Typed
    <3>2. CASE Fail("HARDWARE")
      <4>1. "HARDWARE" \in Codes \ {"OK"} /\ Typed
        BY DEF StreamIInv
      <4>. QED  BY <3>2, <4>1, FailKeepsFirst
    <3>. QED  BY <1>7, <3>1, <3>2 DEF StopSpeaker
  <2>. QED
    BY <1>1, <1>2, <1>3, <2>1, <2>2, <2>3
    DEF StreamIInv, Typed, PoolInv, StreamInv, HeardInv, BlameInv, HasChunk, Leaving
<1>8. CASE GiveDone
  <2>1. player.pc = "give" /\ PlayerGoes("gone") /\ UNCHANGED status
    BY <1>8 DEF GiveDone, PlayerFrame
  <2>2. /\ player' \in PlayerStates
        /\ player'.pc = "gone" /\ player'.held = player.held /\ player'.ret = player.ret
    BY <2>1, PlayerMove DEF Leaving
  <2>. QED
    BY <1>1, <1>2, <1>3, <2>1, <2>2
    DEF StreamIInv, Typed, PoolInv, StreamInv, HeardInv, BlameInv, HasChunk, Leaving
<1>. QED  BY <1>4, <1>5, <1>6, <1>7, <1>8

\* A player that leaves in the middle of a chunk gives its slot back.
LEMMA ExitStep ==
  ASSUME StreamIInv, NEW ret \in Codes \ {"OK"}, PlayerExits(ret), Release(player.held.slot),
         player.pc \in HasChunk,
         ret = "INVALID_STATE" => ~fresh,
         UNCHANGED <<status, play, producer, stream, played, fresh, outcome>>,
         queued' = IF player.pc = "count" THEN queued - 1 ELSE queued
  PROVE  StreamIInv'
<1>1. /\ OneOwner(free, play, producer.slot, player.held.slot) /\ player.held.slot # None
      /\ player.held \in Entries
  BY DEF StreamIInv, PoolInv, Typed
<1>2. Len(free) < SlotCount /\ OneOwner(Append(free, player.held.slot), play, producer.slot, None)
  BY <1>1, HandsSwap, GiveFree
<1>3. OneOwner(free', play, producer.slot, None)
  BY <1>1, <1>2 DEF Release
<1>4. /\ player' \in PlayerStates
      /\ player'.pc = "fail" /\ player'.held = Marker /\ Marker.slot = None /\ player'.ret = ret
  BY DEF PlayerExits, StreamIInv, Typed, Leaving, Entries, Marker
<1>5. Sent' = Sent /\ Taken' = Taken
  BY DEF Sent, Taken
<1>6. Typed' /\ PoolInv'
  <2>1. queued' \in Nat
    BY QueueFacts DEF StreamIInv, Typed, PoolInv, StreamInv
  <2>. QED  BY <1>3, <1>4, <2>1 DEF StreamIInv, Typed, PoolInv, HasChunk
<1>7. StreamInv'
  BY <1>4, <1>5, QueueFacts DEF StreamIInv, StreamInv, HasChunk
<1>8. HeardInv' /\ BlameInv'
  BY <1>4, <1>5 DEF StreamIInv, HeardInv, BlameInv, HasChunk, Leaving
<1>. QED  BY <1>6, <1>7, <1>8 DEF StreamIInv

\* A player that goes on with its slot in hand.
LEMMA HoldStep ==
  ASSUME StreamIInv, player.pc \in HasChunk,
         player' \in PlayerStates,
         player'.pc \in HasChunk \ {"count"},
         player'.held = player.held, player'.ret = player.ret,
         UNCHANGED <<status, free, play, producer, stream, played, fresh, outcome>>,
         queued' = IF player.pc = "count" THEN queued - 1 ELSE queued
  PROVE  StreamIInv'
<1>1. Sent' = Sent /\ Taken' = Taken
  BY DEF Sent, Taken
<1>2. queued' \in Nat
  BY QueueFacts DEF StreamIInv, Typed, PoolInv, StreamInv
<1>3. Typed' /\ PoolInv'
  BY <1>2 DEF StreamIInv, Typed, PoolInv
<1>4. StreamInv'
  BY <1>1, QueueFacts DEF StreamIInv, StreamInv, HasChunk
<1>5. HeardInv' /\ BlameInv'
  BY <1>1 DEF StreamIInv, HeardInv, BlameInv, HasChunk, Leaving
<1>. QED  BY <1>3, <1>4, <1>5 DEF StreamIInv

\* CountSlot: the count of queued chunks covers what is taken off it.
LEMMA CountStep == StreamIInv /\ CountSlot => StreamIInv'
<1>. SUFFICES ASSUME StreamIInv, CountSlot PROVE StreamIInv'
  OBVIOUS
<1>1. /\ player.pc = "count" /\ player.pc \in HasChunk
      /\ UNCHANGED <<status, play, producer, stream, played, fresh, outcome>>
  BY DEF CountSlot, PlayerFrame, HasChunk
<1>2. queued > 0 /\ queued' = queued - 1
  BY <1>1, QueueFacts DEF StreamIInv, StreamInv, CountSlot
<1>3. CASE fresh
  <2>1. PICK pc \in {"buffer", "write"} : PlayerGoes(pc) /\ UNCHANGED free
    BY <1>2, <1>3 DEF CountSlot
  <2>2. /\ player' \in PlayerStates
        /\ player'.pc = pc /\ player'.held = player.held /\ player'.ret = player.ret
    BY <2>1, PlayerMove DEF HasChunk
  <2>. QED  BY <1>1, <1>2, <2>1, <2>2, HoldStep DEF HasChunk
<1>4. CASE ~fresh
  <2>1. Release(player.held.slot) /\ PlayerExits("INVALID_STATE")
    BY <1>4 DEF CountSlot
  <2>2. "INVALID_STATE" \in Codes \ {"OK"}
    BY DEF Codes
  <2>. QED  BY <1>1, <1>2, <1>4, <2>1, <2>2, ExitStep
<1>. QED  BY <1>3, <1>4

\* A player that gives up as interrupted was interrupted.
LEMMA ReasonIsTrue ==
  ASSUME StreamIInv, status # "OK" \/ ~fresh
  PROVE  Reason \in Codes \ {"OK"} /\ (Reason = "INVALID_STATE" => ~fresh)
BY DEF StreamIInv, Typed, BlameInv, Reason, Codes

\* Buffered: go on, or give up with the slot released.
LEMMA BufferStep == StreamIInv /\ Buffered => StreamIInv'
<1>. SUFFICES ASSUME StreamIInv, Buffered PROVE StreamIInv'
  OBVIOUS
<1>1. /\ player.pc = "buffer" /\ player.pc \in HasChunk
      /\ UNCHANGED <<status, queued, play, producer, stream, played, fresh, outcome>>
  BY DEF Buffered, PlayerFrame, HasChunk
<1>2. CASE status = "OK" /\ fresh
  <2>1. PICK pc \in {"open", "write"} : PlayerGoes(pc) /\ UNCHANGED free
    BY <1>2 DEF Buffered
  <2>2. /\ player' \in PlayerStates
        /\ player'.pc = pc /\ player'.held = player.held /\ player'.ret = player.ret
    BY <2>1, PlayerMove DEF HasChunk
  <2>. QED  BY <1>1, <2>1, <2>2, HoldStep DEF HasChunk
<1>3. CASE status # "OK" \/ ~fresh
  <2>1. Release(player.held.slot) /\ PlayerExits(Reason)
    BY <1>3 DEF Buffered
  <2>. QED  BY <1>1, <1>3, <2>1, ReasonIsTrue, ExitStep
<1>. QED  BY <1>2, <1>3

\* The two calls that start the speaker.
LEMMA SpeakerStep == StreamIInv /\ (OpenSpeaker \/ EnableSpeaker) => StreamIInv'
<1>. SUFFICES ASSUME StreamIInv, OpenSpeaker \/ EnableSpeaker PROVE StreamIInv'
  OBVIOUS
<1>1. /\ player.pc \in {"open", "enable"} /\ player.pc \in HasChunk
      /\ UNCHANGED <<status, queued, play, producer, stream, played, fresh, outcome>>
  BY DEF OpenSpeaker, EnableSpeaker, PlayerFrame, HasChunk
<1>2. CASE PlayerExits("HARDWARE") /\ Release(player.held.slot)
  <2>1. "HARDWARE" \in Codes \ {"OK"}
    BY DEF Codes
  <2>. QED  BY <1>1, <1>2, <2>1, ExitStep
<1>3. CASE PlayerGoes("enable") /\ UNCHANGED free
  <2>1. /\ player' \in PlayerStates
        /\ player'.pc = "enable" /\ player'.held = player.held /\ player'.ret = player.ret
    BY <1>3, PlayerMove DEF HasChunk
  <2>. QED  BY <1>1, <1>3, <2>1, HoldStep DEF HasChunk
<1>4. CASE player' = [player EXCEPT !.pc = "write", !.started = TRUE] /\ UNCHANGED free
  <2>1. /\ player' \in PlayerStates
        /\ player'.pc = "write" /\ player'.held = player.held /\ player'.ret = player.ret
    BY <1>4 DEF StreamIInv, Typed, HasChunk
  <2>. QED  BY <1>1, <1>4, <2>1, HoldStep DEF HasChunk
<1>. QED  BY <1>2, <1>3, <1>4 DEF OpenSpeaker, EnableSpeaker

\* WriteSlot: what is heard next is the chunk that follows.
LEMMA WriteStep == StreamIInv /\ WriteSlot => StreamIInv'
<1>. SUFFICES ASSUME StreamIInv, WriteSlot PROVE StreamIInv'
  OBVIOUS
<1>1. /\ player.pc = "write" /\ player.pc \in HasChunk /\ Release(player.held.slot)
      /\ UNCHANGED <<status, queued, play, producer, stream, fresh, outcome>>
  BY DEF WriteSlot, PlayerFrame, HasChunk
<1>2. /\ OneOwner(free, play, producer.slot, player.held.slot) /\ player.held.slot # None
      /\ player.held \in Entries
  BY <1>1 DEF StreamIInv, PoolInv, Typed
<1>3. OneOwner(free', play, producer.slot, None)
  <2>1. Len(free) < SlotCount /\ OneOwner(Append(free, player.held.slot), play, producer.slot, None)
    BY <1>2, HandsSwap, GiveFree
  <2>. QED  BY <1>1, <1>2, <2>1 DEF Release
<1>4. CASE PlayerExits("HARDWARE") /\ UNCHANGED played
  <2>1. "HARDWARE" \in Codes \ {"OK"}
    BY DEF Codes
  <2>. QED  BY <1>1, <1>4, <2>1, ExitStep
<1>5. CASE player' = [player EXCEPT !.pc = "written", !.held = Marker]
  <2>1. /\ player' \in PlayerStates
        /\ player'.pc = "written" /\ player'.held = Marker /\ Marker.slot = None
        /\ player'.ret = player.ret
    BY <1>5 DEF StreamIInv, Typed, Entries, Marker
  <2>2. Sent' = Sent /\ Taken' = Taken
    BY <1>1 DEF Sent, Taken
  <2>3. PoolInv'
    BY <1>1, <1>3, <2>1 DEF StreamIInv, PoolInv, HasChunk
  <2>4. StreamInv'
    BY <1>1, <2>1, <2>2 DEF StreamIInv, StreamInv
  <2>5. BlameInv'
    BY <1>1, <2>1 DEF StreamIInv, BlameInv
  <2>6. Typed' /\ HeardInv'
    <3>1. CASE status = "OK" /\ fresh /\ played' = Append(played, player.held.chunk)
      <4>1. /\ player.held.chunk = Taken /\ Len(played) = Taken - 1 /\ Taken \in Int
            /\ played \in Seq(Nat) /\ Len(played) \in Nat /\ DOMAIN played = 1 .. Len(played)
        BY <1>1, <3>1, QueueFacts DEF StreamIInv, HeardInv, Typed
      <4>2. Taken \in Nat
        BY <4>1
      <4>3. /\ played' \in Seq(Nat) /\ Len(played') = Taken /\ DOMAIN played' = 1 .. Taken
            /\ \A i \in 1 .. Len(played) : played'[i] = played[i]
            /\ played'[Taken] = Taken
        BY <3>1, <4>1, <4>2, AppendProperties, LenProperties
      <4>4. \A i \in DOMAIN played' : played'[i] = i
        BY <4>1, <4>2, <4>3 DEF StreamIInv, HeardInv
      <4>. QED
        BY <1>1, <2>1, <2>2, <4>1, <4>2, <4>3, <4>4
        DEF StreamIInv, Typed, HeardInv, HasChunk, Leaving
    <3>2. CASE (status # "OK" \/ ~fresh) /\ UNCHANGED played
      BY <1>1, <2>1, <2>2, <3>2 DEF StreamIInv, Typed, HeardInv, HasChunk, Leaving
    <3>. QED  BY <1>5, <2>1, <3>1, <3>2 DEF WriteSlot, PlayerExits
  <2>. QED  BY <2>3, <2>4, <2>5, <2>6 DEF StreamIInv
<1>. QED  BY <1>4, <1>5 DEF WriteSlot

\* What both ways of taking an entry off the play queue have in common.
LEMMA TakeStep ==
  ASSUME StreamIInv, play # <<>>, player.held.slot = None
  PROVE  /\ Head(play) \in Entries /\ OneOwner(free, Tail(play), producer.slot, Head(play).slot)
         /\ Tail(play) \in Seq(Entries)
         /\ MarkerLast(Tail(play))
         /\ Carries(Tail(play), None) => producer.pc \in SendingDone
         /\ Chunks(play) \in Nat /\ Chunks(Tail(play)) \in Nat
         /\ Head(play).slot = None => /\ producer.pc \in SendingDone
                                      /\ Chunks(play) = 0 /\ Chunks(Tail(play)) = 0
         /\ Head(play).slot # None => /\ Chunks(Tail(play)) = Chunks(play) - 1
                                      /\ Head(play).chunk = Taken + 1
         /\ \A i \in DOMAIN Tail(play) : Tail(play)[i].slot # None =>
              Tail(play)[i].chunk = Taken + 1 + i
<1>1. /\ OneOwner(free, play, producer.slot, None) /\ play \in Seq(Entries) /\ DistinctSlots(play)
      /\ MarkerLast(play)
  BY DEF StreamIInv, PoolInv, OneOwner
<1>2. Head(play) \in Entries /\ OneOwner(free, Tail(play), producer.slot, Head(play).slot)
  BY <1>1, ReceiveEntry
<1>3. /\ Tail(play) \in Seq(Entries) /\ Head(play) = play[1] /\ Head(play) \in Entries
      /\ DOMAIN play = 1 .. Len(play) /\ Len(play) \in Nat \ {0}
      /\ DOMAIN Tail(play) = 1 .. Len(play) - 1
      /\ \A i \in 1 .. Len(play) - 1 : Tail(play)[i] = play[i + 1]
      /\ MarkerLast(Tail(play))
      /\ Chunks(play) \in Nat /\ Chunks(Tail(play)) \in Nat
      /\ Chunks(Tail(play)) = IF Head(play).slot = None THEN Chunks(play) ELSE Chunks(play) - 1
      /\ Head(play).slot = None => Tail(play) = <<>> /\ Chunks(play) = 0
  BY <1>1, ChunksTail
<1>4. Carries(Tail(play), None) => Carries(play, None)
  BY <1>1, TailCarries
<1>5. Head(play).slot = None => Carries(play, None)
  BY <1>3 DEF Carries
<1>6. Carries(play, None) => producer.pc \in SendingDone
  BY DEF StreamIInv, PoolInv
<1>7. Taken \in Int /\ \A i \in DOMAIN play : play[i].slot # None => play[i].chunk = Taken + i
  BY QueueFacts DEF StreamIInv, StreamInv
<1>8. \A i \in DOMAIN Tail(play) : Tail(play)[i].slot # None =>
              Tail(play)[i].chunk = Taken + 1 + i
  BY <1>3, <1>7
<1>9. Head(play).slot # None => Head(play).chunk = Taken + 1
  BY <1>3, <1>7
<1>. QED  BY <1>2, <1>3, <1>4, <1>5, <1>6, <1>8, <1>9

\* PollQueue: the next chunk, the marker, or nothing and a reason to leave.
LEMMA PollStep == StreamIInv /\ PollQueue => StreamIInv'
<1>. SUFFICES ASSUME StreamIInv, PollQueue PROVE StreamIInv'
  OBVIOUS
<1>1. /\ player.pc = "poll" /\ player.held.slot = None
      /\ UNCHANGED <<status, queued, free, producer, stream, played, fresh, outcome>>
  BY DEF PollQueue, PlayerFrame, StreamIInv, PoolInv, HasChunk
<1>2. Sent' = Sent /\ Sent \in Int
  BY <1>1, QueueFacts DEF Sent, StreamIInv
<1>3. CASE play = <<>> /\ UNCHANGED play /\ (status # "OK" \/ ~fresh) /\ PlayerExits(Reason)
  <2>1. Reason \in Codes \ {"OK"} /\ (Reason = "INVALID_STATE" => ~fresh)
    BY <1>3, ReasonIsTrue
  <2>2. /\ player' \in PlayerStates
        /\ player'.pc = "fail" /\ player'.held = Marker /\ Marker.slot = None
        /\ player'.ret = Reason
    BY <1>3, <2>1 DEF PlayerExits, StreamIInv, Typed, Leaving, Entries, Marker
  <2>3. Taken' = Taken
    BY <1>2, <1>3 DEF Taken
  <2>. QED
    BY <1>1, <1>2, <1>3, <2>1, <2>2, <2>3
    DEF StreamIInv, Typed, PoolInv, StreamInv, HeardInv, BlameInv, HasChunk, Leaving
<1>4. CASE play # <<>> /\ play' = Tail(play)
  <2>. DEFINE next == IF Head(play).slot = None THEN "fail" ELSE "count"
  <2>1. /\ Head(play) \in Entries
        /\ OneOwner(free, play', producer.slot, Head(play).slot)
        /\ MarkerLast(play')
        /\ Carries(play', None) => producer.pc \in SendingDone
        /\ Chunks(play) \in Nat /\ Chunks(play') \in Nat
        /\ Head(play).slot = None => /\ producer.pc \in SendingDone
                                     /\ Chunks(play) = 0 /\ Chunks(play') = 0
        /\ Head(play).slot # None => /\ Chunks(play') = Chunks(play) - 1
                                     /\ Head(play).chunk = Taken + 1
        /\ \A i \in DOMAIN play' : play'[i].slot # None => play'[i].chunk = Taken + 1 + i
    BY <1>1, <1>4, TakeStep
  <2>2. Head(play) = Marker <=> Head(play).slot = None
    BY <2>1, SlotAssumption DEF Entries, Marker, None, Slots
  <2>3. player' = [player EXCEPT !.pc = next, !.held = Head(play)]
    BY <1>4, <2>2 DEF PollQueue
  <2>4. /\ player' \in PlayerStates
        /\ player'.pc = next /\ player'.held = Head(play) /\ player'.ret = player.ret
    BY <2>1, <2>3 DEF StreamIInv, Typed, HasChunk, Leaving
  <2>5. Typed' /\ PoolInv'
    BY <1>1, <2>1, <2>4 DEF StreamIInv, Typed, PoolInv, HasChunk
  <2>6. CASE Head(play).slot = None
    <3>1. Taken' = Taken /\ Taken = Sent
      BY <1>2, <2>1, <2>6 DEF Taken
    <3>2. \A i \in DOMAIN play' : play'[i].slot # None => FALSE
      BY <2>1, <2>6, <1>4, TailCarries, ChunksTail DEF StreamIInv, PoolInv, OneOwner
    <3>3. StreamInv'
      BY <1>1, <2>1, <2>4, <2>6, <3>1, <3>2 DEF StreamIInv, StreamInv
    <3>4. HeardInv' /\ BlameInv'
      BY <1>1, <1>2, <2>1, <2>4, <2>6, <3>1
      DEF StreamIInv, HeardInv, BlameInv, HasChunk, Leaving
    <3>. QED  BY <2>5, <3>3, <3>4 DEF StreamIInv
  <2>7. CASE Head(play).slot # None
    <3>1. Taken' = Taken + 1 /\ Taken \in Int
      BY <1>2, <2>1, <2>7 DEF Taken
    <3>2. StreamInv'
      BY <1>1, <2>1, <2>4, <2>7, <3>1 DEF StreamIInv, StreamInv
    <3>3. Len(played) \in Nat
      BY QueueFacts DEF StreamIInv
    <3>4. HeardInv' /\ BlameInv'
      BY <1>1, <1>2, <2>1, <2>4, <2>7, <3>1, <3>3
      DEF StreamIInv, HeardInv, BlameInv, HasChunk, Leaving
    <3>. QED  BY <2>5, <3>2, <3>4 DEF StreamIInv
  <2>. QED  BY <2>6, <2>7
<1>. QED  BY <1>3, <1>4 DEF PollQueue

\* DrainQueue: a leaving player returns every slot it finds.
LEMMA DrainStep == StreamIInv /\ DrainQueue => StreamIInv'
<1>. SUFFICES ASSUME StreamIInv, DrainQueue PROVE StreamIInv'
  OBVIOUS
<1>1. /\ player.pc = "drain" /\ player.held.slot = None
      /\ UNCHANGED <<status, producer, stream, played, fresh, outcome>>
  BY DEF DrainQueue, PlayerFrame, StreamIInv, PoolInv, HasChunk
<1>2. Sent' = Sent /\ Sent \in Int /\ Taken \in Int /\ Len(played) \in Nat
  BY <1>1, QueueFacts DEF Sent, StreamIInv
<1>3. CASE play = <<>>
  <2>1. UNCHANGED <<play, free, queued>> /\ \E pc \in {"stop", "give"} : PlayerGoes(pc)
    BY <1>3 DEF DrainQueue
  <2>2. /\ player' \in PlayerStates
        /\ player'.pc \in {"stop", "give"} /\ player'.held = player.held
        /\ player'.ret = player.ret
    BY <2>1, PlayerMove DEF Leaving
  <2>3. Taken' = Taken
    BY <1>2, <2>1 DEF Taken
  <2>. QED
    BY <1>1, <1>2, <2>1, <2>2, <2>3
    DEF StreamIInv, Typed, PoolInv, StreamInv, HeardInv, BlameInv, HasChunk, Leaving
<1>4. CASE play # <<>>
  <2>1. /\ play' = Tail(play) /\ Release(Head(play).slot) /\ UNCHANGED player
        /\ queued' = IF Head(play) # Marker /\ queued > 0 THEN queued - 1 ELSE queued
    BY <1>4 DEF DrainQueue
  <2>2. /\ Head(play) \in Entries
        /\ OneOwner(free, play', producer.slot, Head(play).slot)
        /\ MarkerLast(play')
        /\ Carries(play', None) => producer.pc \in SendingDone
        /\ Chunks(play) \in Nat /\ Chunks(play') \in Nat
        /\ Head(play).slot = None => /\ producer.pc \in SendingDone
                                     /\ Chunks(play) = 0 /\ Chunks(play') = 0
        /\ Head(play).slot # None => /\ Chunks(play') = Chunks(play) - 1
                                     /\ Head(play).chunk = Taken + 1
        /\ \A i \in DOMAIN play' : play'[i].slot # None => play'[i].chunk = Taken + 1 + i
    BY <1>1, <1>4, <2>1, TakeStep
  <2>3. Head(play) = Marker <=> Head(play).slot = None
    BY <2>2, SlotAssumption DEF Entries, Marker, None, Slots
  <2>4. OneOwner(free', play', producer.slot, None)
    <3>1. CASE Head(play).slot = None
      BY <2>1, <2>2, <3>1 DEF Release
    <3>2. CASE Head(play).slot # None
      <4>1. /\ Len(free) < SlotCount
            /\ OneOwner(Append(free, Head(play).slot), play', producer.slot, None)
        BY <2>2, <3>2, HandsSwap, GiveFree
      <4>. QED  BY <2>1, <3>2, <4>1 DEF Release
    <3>. QED  BY <3>1, <3>2
  <2>5. queued = Chunks(play) + (IF producer.pc = "send" THEN 1 ELSE 0)
    BY <1>1, <2>2 DEF StreamIInv, StreamInv
  <2>6. queued' = Chunks(play') + (IF producer.pc = "send" THEN 1 ELSE 0) /\ queued' \in Nat
    <3>1. CASE Head(play).slot = None
      <4>1. queued' = queued
        BY <2>1, <2>3, <3>1
      <4>2. Chunks(play) = 0 /\ Chunks(play') = 0
        BY <2>2, <3>1
      <4>. QED  BY <2>5, <4>1, <4>2
    <3>2. CASE Head(play).slot # None
      <4>1. queued > 0 \/ Chunks(play) = 0
        BY <2>2, <2>5
      <4>2. Chunks(play) > 0
        BY <2>2, <3>2
      <4>. QED  BY <2>1, <2>2, <2>3, <2>5, <3>2, <4>1, <4>2
    <3>. QED  BY <3>1, <3>2
  <2>7. Typed' /\ PoolInv'
    BY <1>1, <2>1, <2>2, <2>4, <2>6 DEF StreamIInv, Typed, PoolInv
  <2>8. CASE Head(play).slot = None
    <3>1. Taken' = Taken
      BY <1>2, <2>2, <2>8 DEF Taken
    <3>2. \A i \in DOMAIN play' : play'[i].slot # None => FALSE
      BY <2>2, <2>8, <1>4, <2>1, TailCarries, ChunksTail DEF StreamIInv, PoolInv, OneOwner
    <3>3. StreamInv'
      BY <1>1, <2>1, <2>6, <3>1, <3>2 DEF StreamIInv, StreamInv
    <3>. QED
      BY <1>1, <1>2, <2>1, <2>7, <3>1, <3>3
      DEF StreamIInv, HeardInv, BlameInv, HasChunk, Leaving
  <2>9. CASE Head(play).slot # None
    <3>1. Taken' = Taken + 1
      BY <1>2, <2>2, <2>9 DEF Taken
    <3>2. StreamInv'
      <4>1. /\ queued' = Chunks(play') + (IF producer.pc = "send" THEN 1 ELSE 0)
                                      + (IF player.pc = "count" THEN 1 ELSE 0)
        BY <1>1, <2>2, <2>6
      <4>2. \A i \in DOMAIN play' : play'[i].slot # None => play'[i].chunk = Taken' + i
        BY <2>2, <2>9, <3>1
      <4>. QED  BY <1>1, <2>1, <4>1, <4>2 DEF StreamIInv, StreamInv
    <3>. QED
      BY <1>1, <1>2, <2>1, <2>7, <3>1, <3>2
      DEF StreamIInv, HeardInv, BlameInv, HasChunk, Leaving
  <2>. QED  BY <2>8, <2>9
<1>. QED  BY <1>3, <1>4

----------------------------------------------------------------------------
(* The theorems                                                             *)

\* The invariant holds in every reachable state.
THEOREM StreamInductive == PlaybackSpec => []StreamIInv
<1>1. StreamIInv /\ SpeechInv /\ [PlaybackNext]_playbackVars => StreamIInv'
  BY RequestStep, OfferStep, FillStep, SendStep, MarkStep, EndStep, PlayerKeepsQueues,
     CountStep, BufferStep, SpeakerStep, WriteStep, PollStep, DrainStep, InterruptStep
  DEF PlaybackNext, Producer, Player
<1>. QED  BY <1>1, StreamInit, SpeechInductive, PTL DEF PlaybackSpec

\* A set without two elements has none or one.
LEMMA AtMostOne ==
  ASSUME NEW T, \A i, j \in T : i = j
  PROVE  Cardinality(T) = IF T = {} THEN 0 ELSE 1
<1>1. CASE T = {}
  BY <1>1, FS_EmptySet
<1>2. CASE T # {}
  <2>1. PICK i \in T : TRUE
    BY <1>2
  <2>2. T = {i}
    BY <2>1
  <2>. QED  BY <1>2, <2>2, FS_Singleton
<1>. QED  BY <1>1, <1>2

\* Every slot of the pool is in one place at every moment, so no queue ever
\* refuses what it is given: for every number of slots and every interleaving of
\* the callback and the player task.
THEOREM OneOwnerEach == PlaybackSpec => []EverySlotHasOneOwner
<1>1. StreamIInv => EverySlotHasOneOwner
  <2>. SUFFICES ASSUME StreamIInv PROVE EverySlotHasOneOwner
    OBVIOUS
  <2>1. /\ OneOwner(free, play, producer.slot, player.held.slot)
        /\ producer.pc \in {"send", "finish"} => ~Carries(play, None)
    BY DEF StreamIInv, PoolInv, SendingDone
  <2>2. producer.pc \in {"send", "finish"} => PlayHasRoom
    BY <2>1, PlayHasPlace DEF OneOwner, PlayHasRoom
  <2>3. ASSUME NEW s \in Slots
        PROVE  Cardinality({i \in DOMAIN free : free[i] = s})
               + Cardinality({i \in DOMAIN play : play[i].slot = s})
               + (IF producer.slot = s THEN 1 ELSE 0)
               + (IF player.held.slot = s THEN 1 ELSE 0) = 1
    <3>1. /\ Len(free) \in Nat /\ DOMAIN free = 1 .. Len(free)
          /\ Len(play) \in Nat /\ DOMAIN play = 1 .. Len(play)
      BY <2>1, LenProperties DEF OneOwner
    <3>2. \A i, j \in DOMAIN free : free[i] = s /\ free[j] = s => i = j
      BY <2>1 DEF OneOwner, Distinct
    <3>3. \A i, j \in DOMAIN play : play[i].slot = s /\ play[j].slot = s => i = j
      BY <2>1 DEF OneOwner, DistinctSlots
    <3>4. Cardinality({i \in DOMAIN free : free[i] = s}) = IF Holds(free, s) THEN 1 ELSE 0
      BY <3>1, <3>2, AtMostOne DEF Holds
    <3>5. Cardinality({i \in DOMAIN play : play[i].slot = s}) = IF Carries(play, s) THEN 1 ELSE 0
      BY <3>1, <3>3, AtMostOne DEF Carries
    <3>. QED  BY <2>1, <3>4, <3>5 DEF OneOwner
  <2>. QED  BY <2>2, <2>3 DEF EverySlotHasOneOwner
<1>. QED  BY <1>1, StreamInductive, PTL

\* What is heard is a beginning of the answer, an answer reported complete was
\* heard whole, and only a new interaction counts as one: for every number of
\* slots and chunks, and wherever a task fails, times out or becomes stale.
THEOREM Faithful == PlaybackSpec => []SpeechIsFaithful
<1>1. StreamIInv => SpeechIsFaithful
  BY DEF StreamIInv, HeardInv, BlameInv, SpeechIsFaithful
<1>. QED  BY <1>1, StreamInductive, PTL
=============================================================================
