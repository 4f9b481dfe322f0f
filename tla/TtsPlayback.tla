---------------------------- MODULE TtsPlayback ----------------------------
(***************************************************************************)
(* Speaking one answer: speak_pet_answer of components/app_runtime/src/    *)
(* aiqa_runtime.c with the streaming client of components/tts_client and   *)
(* the speaker driver of components/audio_capture.                         *)
(*                                                                         *)
(* The chat task runs the HTTP client, whose callback copies the PCM of    *)
(* each server event into slots taken from a free queue and sends them to  *)
(* a player task over the play queue; an empty marker ends the stream.     *)
(* Both tasks share a status that leaves OK at most once, and a new        *)
(* interaction may make both of them stale at any moment.                  *)
(*                                                                         *)
(* A slot holds one chunk of PCM; chunks are numbered as they arrive.      *)
(* Waits with a time limit may end in vain only while what they wait for   *)
(* is missing.                                                             *)
(***************************************************************************)
EXTENDS Naturals, Sequences, FiniteSets

CONSTANTS
  SlotCount,    \* AIQA_TTS_PLAYBACK_SLOT_COUNT
  MaxChunks     \* bound: the chunks of PCM the server sends

ASSUME SlotAssumption == SlotCount \in Nat \ {0} /\ MaxChunks \in Nat

VARIABLES
  status,       \* context->status
  queued,       \* context->queued_pcm_bytes, in chunks
  free,         \* context->free_queue
  play,         \* context->play_queue: slots with their chunks, and the marker
  done,         \* context->done
  producer,     \* the chat task: where it is, the slot in its hand, the chunks
                \* left of an event, is that event the remainder of the stream
  stream,       \* the client: chunks received, was an event accepted, overflow,
                \* abort_requested, and how the transport ended
  player,       \* the player task: where it is, what it holds, playback_ret
  speaker,      \* the driver: is the codec open, s_started, is the PA on
  played,       \* the chunks written to the speaker, in order
  fresh,        \* is this still the current interaction
  live,         \* is the request epoch still the current one
  outcome       \* what speak_pet_answer concludes

playbackVars == <<status, queued, free, play, done, producer, stream, player, speaker,
                  played, fresh, live, outcome>>

Slots == 1 .. SlotCount
None == 0                                  \* a NULL slot
Marker == [slot |-> None, chunk |-> 0]     \* the NULL that ends the play queue
Silent == [open |-> FALSE, started |-> FALSE, pa |-> FALSE]

PlaybackInit ==
  /\ status = "OK" /\ queued = 0
  /\ free = [i \in Slots |-> i] /\ play = <<>> /\ done = FALSE
  /\ producer = [pc |-> "open", slot |-> None, left |-> 0, last |-> FALSE]
  /\ stream = [received |-> 0, accepted |-> FALSE, overflow |-> FALSE,
               abort |-> FALSE, ret |-> "OK"]
  /\ player = [pc |-> "top", held |-> Marker, ret |-> "OK", started |-> FALSE]
  /\ speaker = Silent /\ played = <<>>
  /\ fresh = TRUE /\ live = TRUE /\ outcome = "none"

-----------------------------------------------------------------------------

\* tts_playback_fail: only the first failure is kept.
Fail(ret) == status' = IF status = "OK" THEN ret ELSE status

\* release_tts_playback_slot: a full queue would lose the slot.
Release(slot) ==
  free' = IF slot # None /\ Len(free) < SlotCount THEN Append(free, slot) ELSE free

\* AIQA_TTS_PLAYBACK_PLAY_QUEUE_DEPTH leaves room for the marker.
PlayHasRoom == Len(play) < SlotCount + 1

\* aiqa_audio_playback_hw_stop
Stopped == IF speaker.started THEN Silent ELSE [speaker EXCEPT !.pa = FALSE]

-----------------------------------------------------------------------------
(* The client                                                               *)

ProducerGoes(pc) == producer' = [producer EXCEPT !.pc = pc]

EndRequest(ret) == ProducerGoes("finish") /\ stream' = [stream EXCEPT !.ret = ret]

ClientFrame == UNCHANGED <<status, queued, free, play, done, player, speaker, played,
                           fresh, live, outcome>>

\* A request that cannot be built, sent or is cancelled fails at once.
OpenRequest ==
  /\ producer.pc = "open"
  /\ \/ live /\ ProducerGoes("read") /\ UNCHANGED stream
     \/ EndRequest("FAILED")
  /\ ClientFrame

\* One turn of tts_read_stream: give up, fail, reach the end of the stream
\* (with or without an HTTP error), or receive an event: n chunks of PCM, in
\* the stream or left over at its end, or something that cannot be decoded.
ReadStream ==
  /\ producer.pc = "read"
  /\ \/ EndRequest("FAILED")
     \/ /\ live /\ ~stream.abort
        /\ \/ \E ret \in {"OK", "HTTP_ERROR"} : EndRequest(ret)
           \/ /\ ~stream.overflow
              /\ \E n \in 1 .. MaxChunks - stream.received, last \in BOOLEAN :
                 \E ret \in IF last THEN {"OK", "HTTP_ERROR"} ELSE {"OK"} :
                 \E pc \in {"offer", "odd"} :
                   /\ producer' = [producer EXCEPT !.pc = pc, !.left = n, !.last = last]
                   /\ stream' = [stream EXCEPT !.received = @ + n, !.ret = ret]
           \/ /\ ~stream.overflow /\ UNCHANGED producer
              /\ stream' = [stream EXCEPT !.overflow = TRUE]
  /\ ClientFrame

-----------------------------------------------------------------------------
(* The callback, tts_playback_audio_callback                                *)

CallbackFrame == UNCHANGED <<done, player, speaker, played, fresh, live, outcome>>

\* Back in the client: it reads on, or was at the end of the stream.
Return(accepted) ==
  /\ producer' = [producer EXCEPT !.pc = IF producer.last THEN "finish" ELSE "read",
                                  !.slot = None]
  /\ stream' = [stream EXCEPT !.accepted = @ \/ accepted, !.abort = @ \/ ~accepted]

\* An event of an odd number of bytes is refused as a whole.
RefuseOdd ==
  /\ producer.pc = "odd"
  /\ Fail(IF fresh THEN "INVALID_SIZE" ELSE "INVALID_STATE") /\ Return(FALSE)
  /\ CallbackFrame /\ UNCHANGED <<queued, free, play>>

\* The loop over the chunks of an event.
OfferChunk ==
  /\ producer.pc = "offer"
  /\ IF producer.left = 0
     THEN Return(TRUE) /\ UNCHANGED <<status, free>>
     ELSE IF status # "OK" \/ ~fresh
     THEN Fail("INVALID_STATE") /\ Return(FALSE) /\ UNCHANGED free
     ELSE \/ /\ free # <<>> /\ free' = Tail(free)
             /\ producer' = [producer EXCEPT !.pc = "fill", !.slot = Head(free)]
             /\ UNCHANGED <<status, stream>>
          \/ /\ free = <<>> /\ Fail("TIMEOUT") /\ Return(FALSE)
             /\ UNCHANGED free
  /\ CallbackFrame /\ UNCHANGED <<queued, play>>

\* A slot that came too late is kept.
MutFillSlot ==
  /\ producer.pc = "fill"
  /\ IF status # "OK" \/ ~fresh
     THEN Fail("INVALID_STATE") /\ Return(FALSE) /\ UNCHANGED <<queued, free>>
     ELSE /\ queued' = queued + 1 /\ ProducerGoes("send")
          /\ UNCHANGED <<status, stream, free>>
  /\ CallbackFrame /\ UNCHANGED play

\* The count is left to the sender, who forgets it.
MutFillSlotUncounted ==
  /\ producer.pc = "fill"
  /\ IF status # "OK" \/ ~fresh
     THEN /\ Release(producer.slot) /\ Return(FALSE)
          /\ IF fresh THEN UNCHANGED status ELSE Fail("INVALID_STATE")
     ELSE ProducerGoes("send") /\ UNCHANGED <<status, stream, free>>
  /\ CallbackFrame /\ UNCHANGED <<play, queued>>

\* The slot is there, perhaps too late; the count goes up before the send.
FillSlot ==
  /\ producer.pc = "fill"
  /\ IF status # "OK" \/ ~fresh
     THEN /\ Release(producer.slot) /\ Return(FALSE)
          /\ IF fresh THEN UNCHANGED status ELSE Fail("INVALID_STATE")
          /\ UNCHANGED queued
     ELSE /\ queued' = queued + 1 /\ ProducerGoes("send")
          /\ UNCHANGED <<status, stream, free>>
  /\ CallbackFrame /\ UNCHANGED play

SendSlot ==
  /\ producer.pc = "send"
  /\ \/ /\ PlayHasRoom
        /\ play' = Append(play, [slot |-> producer.slot,
                                 chunk |-> stream.received - producer.left + 1])
        /\ producer' = [producer EXCEPT !.pc = "offer", !.slot = None, !.left = @ - 1]
        /\ UNCHANGED <<status, stream, queued, free>>
     \/ /\ ~PlayHasRoom
        /\ queued' = queued - 1 /\ Release(producer.slot)
        /\ Fail("TIMEOUT") /\ Return(FALSE)
        /\ UNCHANGED play
  /\ CallbackFrame

-----------------------------------------------------------------------------
(* finish_tts_stream_playback and the end of speak_pet_answer               *)

FinishFrame == UNCHANGED <<queued, free, stream, player, played, fresh, live>>

SendMarker ==
  /\ producer.pc = "finish" /\ ProducerGoes("await")
  /\ IF PlayHasRoom THEN play' = Append(play, Marker) /\ UNCHANGED <<status, speaker>>
                    ELSE Fail("TIMEOUT") /\ speaker' = Stopped /\ UNCHANGED play
  /\ FinishFrame /\ UNCHANGED <<done, outcome>>

\* A player that does not finish in time is not waited for.
MutAwaitPlayer ==
  /\ producer.pc = "await"
  /\ IF done THEN done' = FALSE /\ UNCHANGED <<status, speaker>>
             ELSE Fail("TIMEOUT") /\ speaker' = Stopped /\ UNCHANGED done
  /\ ProducerGoes("delete")
  /\ FinishFrame /\ UNCHANGED <<play, outcome>>

\* Wait for the player; after 30 s stop the speaker and wait for as long as
\* it takes.
AwaitPlayer ==
  /\ producer.pc \in {"await", "overtime"}
  /\ IF done
     THEN done' = FALSE /\ ProducerGoes("delete") /\ UNCHANGED <<status, speaker>>
     ELSE /\ producer.pc = "await" /\ ProducerGoes("overtime")
          /\ Fail("TIMEOUT") /\ speaker' = Stopped /\ UNCHANGED done
  /\ FinishFrame /\ UNCHANGED <<play, outcome>>

\* The queues, the semaphore and the slots are freed.
DeleteContext ==
  /\ producer.pc = "delete" /\ ProducerGoes("conclude")
  /\ FinishFrame /\ UNCHANGED <<status, play, done, speaker, outcome>>

Conclude ==
  /\ producer.pc = "conclude" /\ ProducerGoes("over")
  /\ outcome' = IF ~fresh THEN "stale"
                ELSE IF status = "OK" /\ stream.ret = "OK" /\ stream.accepted
                        /\ ~stream.overflow THEN "complete"
                ELSE "failed"
  /\ FinishFrame /\ UNCHANGED <<status, play, done, speaker>>

Producer == OpenRequest \/ ReadStream \/ RefuseOdd \/ OfferChunk \/ FillSlot \/ SendSlot
            \/ SendMarker \/ AwaitPlayer \/ DeleteContext \/ Conclude

-----------------------------------------------------------------------------
(* The player, tts_stream_playback_task                                     *)

PlayerFrame == UNCHANGED <<producer, stream, fresh, live, outcome>>

PlayerGoes(pc) == player' = [player EXCEPT !.pc = pc]
PlayerExits(ret) == player' = [player EXCEPT !.pc = "fail", !.held = Marker, !.ret = ret]

\* Why the player gives up when it finds the status changed or itself stale.
Reason == IF status # "OK" THEN status ELSE "INVALID_STATE"

LoopTop ==
  /\ player.pc = "top" /\ PlayerGoes(IF status = "OK" THEN "poll" ELSE "fail")
  /\ PlayerFrame /\ UNCHANGED <<status, queued, free, play, done, speaker, played>>

PollQueue ==
  /\ player.pc = "poll"
  /\ \/ /\ play # <<>> /\ play' = Tail(play)
        /\ player' = [player EXCEPT !.pc = IF Head(play) = Marker THEN "fail" ELSE "count",
                                    !.held = Head(play)]
     \/ /\ play = <<>> /\ (status # "OK" \/ ~fresh) /\ PlayerExits(Reason)
        /\ UNCHANGED play
  /\ PlayerFrame /\ UNCHANGED <<status, queued, free, done, speaker, played>>

\* The slot leaves the count; the first one, and one after a starved queue,
\* waits for more to be buffered.
CountSlot ==
  /\ player.pc = "count"
  /\ IF queued > 0 /\ fresh
     THEN /\ \E pc \in IF player.started THEN {"buffer", "write"} ELSE {"buffer"} :
               PlayerGoes(pc)
          /\ UNCHANGED free
     ELSE Release(player.held.slot) /\ PlayerExits("INVALID_STATE")
  /\ queued' = IF queued > 0 THEN queued - 1 ELSE 0
  /\ PlayerFrame /\ UNCHANGED <<status, play, done, speaker, played>>

\* maybe_wait_for_tts_buffer: enough is buffered, the producer has finished,
\* or 900 ms are over.
Buffered ==
  /\ player.pc = "buffer"
  /\ IF status = "OK" /\ fresh
     THEN PlayerGoes(IF player.started THEN "write" ELSE "open") /\ UNCHANGED free
     ELSE Release(player.held.slot) /\ PlayerExits(Reason)
  /\ PlayerFrame /\ UNCHANGED <<status, queued, play, done, speaker, played>>

\* aiqa_audio_playback_hw_init and _start: open the codec, then enable the
\* amplifier; a failure closes what was opened.
OpenSpeaker ==
  /\ player.pc = "open"
  /\ \/ speaker' = [speaker EXCEPT !.open = TRUE] /\ PlayerGoes("enable")
        /\ UNCHANGED free
     \/ speaker' = Stopped /\ Release(player.held.slot) /\ PlayerExits("HARDWARE")
  /\ PlayerFrame /\ UNCHANGED <<status, queued, play, done, played>>

EnableSpeaker ==
  /\ player.pc = "enable"
  /\ \/ /\ speaker' = [open |-> TRUE, started |-> TRUE, pa |-> TRUE]
        /\ player' = [player EXCEPT !.pc = "write", !.started = TRUE]
        /\ UNCHANGED free
     \/ speaker' = Silent /\ Release(player.held.slot) /\ PlayerExits("HARDWARE")
  /\ PlayerFrame /\ UNCHANGED <<status, queued, play, done, played>>

\* A failed write drops its chunk and goes on.
MutWriteSlot ==
  /\ player.pc = "write"
  /\ Release(player.held.slot)
  /\ player' = [player EXCEPT !.pc = "written", !.held = Marker]
  /\ \/ status = "OK" /\ fresh /\ speaker.started
        /\ played' = Append(played, player.held.chunk)
     \/ UNCHANGED played
  /\ PlayerFrame /\ UNCHANGED <<status, queued, play, done, speaker>>

\* Write the chunk unless the status has changed or the player is stale; the
\* slot is released in any case.
WriteSlot ==
  /\ player.pc = "write"
  /\ Release(player.held.slot)
  /\ \/ /\ status = "OK" /\ fresh /\ speaker.started
        /\ played' = Append(played, player.held.chunk)
        /\ player' = [player EXCEPT !.pc = "written", !.held = Marker]
     \/ status = "OK" /\ fresh /\ PlayerExits("HARDWARE") /\ UNCHANGED played
     \/ /\ status # "OK" \/ ~fresh
        /\ player' = [player EXCEPT !.pc = "written", !.held = Marker]
        /\ UNCHANGED played
  /\ PlayerFrame /\ UNCHANGED <<status, queued, play, done, speaker>>

WrittenSlot ==
  /\ player.pc = "written"
  /\ IF fresh THEN PlayerGoes("top") ELSE PlayerExits("INVALID_STATE")
  /\ PlayerFrame /\ UNCHANGED <<status, queued, free, play, done, speaker, played>>

ReportFailure ==
  /\ player.pc = "fail" /\ PlayerGoes("drain")
  /\ IF player.ret = "OK" THEN UNCHANGED status ELSE Fail(player.ret)
  /\ PlayerFrame /\ UNCHANGED <<queued, free, play, done, speaker, played>>

\* A player that never started the speaker leaves without a sign.
MutDrainQueue ==
  /\ player.pc = "drain"
  /\ IF play # <<>>
     THEN /\ play' = Tail(play) /\ Release(Head(play).slot)
          /\ queued' = IF Head(play) # Marker /\ queued > 0 THEN queued - 1 ELSE queued
          /\ UNCHANGED player
     ELSE /\ PlayerGoes(IF player.started THEN "stop" ELSE "gone")
          /\ UNCHANGED <<play, free, queued>>
  /\ PlayerFrame /\ UNCHANGED <<status, done, speaker, played>>

DrainQueue ==
  /\ player.pc = "drain"
  /\ IF play # <<>>
     THEN /\ play' = Tail(play) /\ Release(Head(play).slot)
          /\ queued' = IF Head(play) # Marker /\ queued > 0 THEN queued - 1 ELSE queued
          /\ UNCHANGED player
     ELSE /\ PlayerGoes(IF player.started THEN "stop" ELSE "give")
          /\ UNCHANGED <<play, free, queued>>
  /\ PlayerFrame /\ UNCHANGED <<status, done, speaker, played>>

StopSpeaker ==
  /\ player.pc = "stop" /\ PlayerGoes("give")
  /\ speaker' = Stopped
  /\ UNCHANGED status \/ (speaker.started /\ Fail("HARDWARE"))
  /\ PlayerFrame /\ UNCHANGED <<queued, free, play, done, played>>

GiveDone ==
  /\ player.pc = "give" /\ PlayerGoes("gone") /\ done' = TRUE
  /\ PlayerFrame /\ UNCHANGED <<status, queued, free, play, speaker, played>>

Player == LoopTop \/ PollQueue \/ CountSlot \/ Buffered \/ OpenSpeaker \/ EnableSpeaker
          \/ WriteSlot \/ WrittenSlot \/ ReportFailure \/ DrainQueue \/ StopSpeaker
          \/ GiveDone

-----------------------------------------------------------------------------

\* A new interaction: first the generation, then the request epoch.
NewInteractionBegins ==
  /\ \/ fresh /\ fresh' = FALSE /\ UNCHANGED live
     \/ ~fresh /\ live /\ live' = FALSE /\ UNCHANGED fresh
  /\ UNCHANGED <<status, queued, free, play, done, producer, stream, player, speaker,
                 played, outcome>>

PlaybackNext == Producer \/ Player \/ NewInteractionBegins

PlaybackSpec == PlaybackInit /\ [][PlaybackNext]_playbackVars

\* Both tasks run when they can: every wait of theirs has a time limit but the
\* last one for the player, and the server's stream is finite.
PlaybackFairness == WF_playbackVars(Producer) /\ WF_playbackVars(Player)

-----------------------------------------------------------------------------
(* Properties                                                               *)

\* The slots travel in a circle of two queues and two hands: none is lost, none
\* is in two places, so the producer is never starved by the pool itself and no
\* queue ever refuses what it is given (the marker has the one place left).
EverySlotHasOneOwner ==
  /\ \A s \in Slots :
       Cardinality({i \in DOMAIN free : free[i] = s})
       + Cardinality({i \in DOMAIN play : play[i].slot = s})
       + (IF producer.slot = s THEN 1 ELSE 0)
       + (IF player.held.slot = s THEN 1 ELSE 0) = 1
  /\ producer.pc \in {"send", "finish"} => PlayHasRoom

\* What is heard is a beginning of the answer, in order; an answer reported as
\* complete was heard to its end, although each task may fail, time out or be
\* interrupted at any step; and the player takes itself for interrupted only by
\* a new interaction: its count of queued bytes never runs below what it takes
\* off, in whatever order the two tasks add, send, receive and remove.
SpeechIsFaithful ==
  /\ \A i \in DOMAIN played : played[i] = i
  /\ outcome = "complete" => Len(played) = stream.received
  /\ status = "INVALID_STATE" => ~fresh

\* When the context on the chat task's stack is freed, nobody uses it any more:
\* the player is gone, and it has left the speaker silent.
NothingOutlivesTheSpeech ==
  producer.pc \in {"conclude", "over"} => player.pc = "gone" /\ speaker = Silent

\* A speech that has begun ends: no wait of one task for the other is for ever.
SpeechEnds == producer.pc # "open" ~> producer.pc = "over"

=============================================================================
