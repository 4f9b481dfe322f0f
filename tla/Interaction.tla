---------------------------- MODULE Interaction ----------------------------
(***************************************************************************)
(* One voice interaction of the device, from the press of the button to    *)
(* the spoken answer, as the tasks of components/app_runtime/src/          *)
(* aiqa_runtime.c carry it out: the state task owns the state machine, the *)
(* button task presses, the audio task records, the ASR task transcribes,  *)
(* the chat task answers and speaks, and the net task connects and resets. *)
(* They share the interaction generation, one commit mutex, four bounded   *)
(* queues and the request epochs of the three cloud clients.               *)
(*                                                                         *)
(* Counters that wrap (the generation and the epochs, 32 bits wide in the  *)
(* code) are taken modulo Wrap and skip 0, which means "none".  A post     *)
(* with a bounded wait is lost only when its queue is full.                *)
(***************************************************************************)
EXTENDS Naturals, Sequences

CONSTANTS
  Wrap,         \* the number of values of a generation or an epoch
  AppDepth,     \* AIQA_APP_QUEUE_DEPTH
  ChatDepth,    \* AIQA_CHAT_QUEUE_DEPTH
  AudioDepth,   \* AIQA_AUDIO_QUEUE_DEPTH
  AsrDepth,     \* AIQA_ASR_QUEUE_DEPTH
  MaxOrders     \* bound: presses, factory resets and lost configurations

ASSUME WrapAssumption == Wrap \in Nat /\ Wrap > 2
ASSUME DepthAssumption ==
  /\ {AppDepth, ChatDepth, AudioDepth, AsrDepth} \subseteq Nat \ {0}
  /\ MaxOrders \in Nat

\* Two commands fit the queues of the audio and of the chat task.
ASSUME RoomAssumption == AudioDepth >= 2 /\ ChatDepth >= 2

\* No job outlives the counters: a behaviour has fewer interactions than a
\* generation has values, as the 2^32 of the code exceed any it will see.
ASSUME RunAssumption == 2 * MaxOrders + 2 < Wrap

VARIABLES
  mach,        \* the state machine: its state and its last error
  todo,        \* what the state task has left to do for the event it handles
  gen,         \* s_interaction_generation
  epoch,       \* the request epochs of the ASR, chat and TTS clients
  lock,        \* the holder of s_interaction_commit_mutex
  appq, chatq, audioq, asrq, netq,
  button,      \* the button, and the presses and resets so far
  audio,       \* the audio task
  recording,   \* s_recording: no buffer, a wiped one, or one with audio
  asr,         \* the ASR task
  chat,        \* the chat task
  net,         \* the net task
  transcript,  \* the generation of s_latest_transcript, 0 when it is empty
  reply,       \* s_local_pet_reply: its kind and generation
  pet,         \* the generation of the answer on the dialogue view
  config,      \* is a configuration stored, is its snapshot published
  buffers,     \* the PCM buffers that are allocated
  dropped,     \* has an event or command that ends a phase been lost
  silent       \* the generation whose transcript came back empty

vars == <<mach, todo, gen, epoch, lock, appq, chatq, audioq, asrq, netq, button,
          audio, recording, asr, chat, net, transcript, reply, pet, config,
          buffers, dropped, silent>>
lapses == <<dropped, silent>>

-----------------------------------------------------------------------------
(* Generations, epochs and queues *)

Successor(v) == (v + 1) % Wrap

IsCurrent(g) == g # 0 /\ g = gen
EpochIsCurrent(client, e) == e # 0 /\ e = epoch[client]

Event(type, value) == [type |-> type, value |-> value]

HasRoom(q, depth) == Len(q) < depth

\* A post that waits as long as it takes.
PostCritical(e) == HasRoom(appq, AppDepth) /\ appq' = Append(appq, e)

\* A post that gives up after 100 ms: it is lost only to a full queue.
PostBounded(e) ==
  \/ PostCritical(e)
  \/ ~HasRoom(appq, AppDepth) /\ UNCHANGED appq

\* The same, for an event that some state waits for.
PostEnding(e) ==
  /\ PostBounded(e)
  /\ dropped' = (dropped \/ ~HasRoom(appq, AppDepth)) /\ UNCHANGED silent

-----------------------------------------------------------------------------
(* The state machine *)

Cancellable == {"IDLE", "IDLE_WITH_RESULT", "RECORDING", "TRANSCRIBING",
                "ASR_JOB_PENDING", "THINKING", "ERROR"}

Errors == {"CONFIG_MISSING", "CONFIG_CORRUPT", "NETWORK_FAILED", "AUTH_FAILED",
           "TLS_FAILED", "CERT_TIME_INVALID", "RATE_LIMITED",
           "PROVIDER_UNSUPPORTED", "AUDIO_TOO_LONG", "ASR_FAILED", "CHAT_FAILED",
           "TIMEOUT"}

Retryable == {"AUDIO_TOO_LONG", "ASR_FAILED", "CHAT_FAILED", "TIMEOUT", "CANCELLED"}

\* The states each event leads to, by the state it finds.
Moves ==
  {<<"BOOT", "BOOTED", "CONFIG_CHECK">>,
   <<"CONFIG_CHECK", "CONFIG_READY", "NETWORK_CONNECTING">>,
   <<"NETWORK_CONNECTING", "NETWORK_READY", "IDLE">>,
   <<"RECORDING", "PRESS_END", "TRANSCRIBING">>,
   <<"TRANSCRIBING", "ASR_STARTED", "TRANSCRIBING">>,
   <<"TRANSCRIBING", "ASR_JOB_SUBMITTED", "ASR_JOB_PENDING">>,
   <<"THINKING", "CHAT_STARTED", "THINKING">>,
   <<"THINKING", "CHAT_TOKEN", "THINKING">>,
   <<"THINKING", "CHAT_DONE", "IDLE_WITH_RESULT">>,
   <<"ERROR", "CONFIG_READY", "NETWORK_CONNECTING">>}
  \cup {<<s, "CHAT_STARTED", "THINKING">> : s \in {"IDLE", "IDLE_WITH_RESULT"}}
  \cup {<<s, "PRESS_START", "RECORDING">> :
          s \in {"IDLE", "IDLE_WITH_RESULT", "TRANSCRIBING", "ASR_JOB_PENDING",
                 "THINKING"}}
  \cup {<<s, "ASR_DONE", "THINKING">> : s \in {"TRANSCRIBING", "ASR_JOB_PENDING"}}

\* The machines an event may lead to: one when it is accepted, none when not.
Dispatch(m, type) ==
  CASE type = "CANCEL" ->
         IF m.state \in Cancellable THEN {[state |-> "IDLE", error |-> "CANCELLED"]}
                                    ELSE {}
    [] type = "FACTORY_RESET" -> {[state |-> "CONFIG_CHECK", error |-> "NONE"]}
    [] type \in Errors -> {[state |-> "ERROR", error |-> type]}
    [] m.state = "ERROR" /\ type = "PRESS_START" /\ m.error \in Retryable ->
         {[state |-> "RECORDING", error |-> "NONE"]}
    [] OTHER -> {[state |-> v[3], error |-> "NONE"] :
                   v \in {u \in Moves : u[1] = m.state /\ u[2] = type}}

InteractionScoped == {"ASR_STARTED", "ASR_JOB_SUBMITTED", "ASR_DONE", "ASR_FAILED",
                      "CHAT_STARTED", "CHAT_TOKEN", "CHAT_DONE", "CHAT_FAILED",
                      "AUTH_FAILED", "RATE_LIMITED", "PROVIDER_UNSUPPORTED",
                      "TIMEOUT"}

Stale(e) == e.value # 0 /\ e.value # gen /\ e.type \in InteractionScoped

-----------------------------------------------------------------------------
(* Initial states: a device that boots, and one that has idled through so   *)
(* many interactions that its counters are about to wrap.                   *)

Idle == [pc |-> "wait"]

InitWith(machine, events, g, configured) ==
  /\ mach = [state |-> machine, error |-> "NONE"]
  /\ appq = events
  /\ gen = g /\ epoch = [asr |-> g, chat |-> g, tts |-> g]
  /\ config = [stored |-> TRUE, published |-> configured]
  /\ todo = <<>> /\ lock = "free"
  /\ chatq = <<>> /\ audioq = <<>> /\ asrq = <<>> /\ netq = <<>>
  /\ button = [at |-> "up", orders |-> 0]
  /\ audio = Idle /\ asr = Idle /\ chat = Idle /\ net = Idle
  /\ recording = "none" /\ buffers = 0
  /\ transcript = 0 /\ reply = [kind |-> "none", gen |-> 0] /\ pet = 0
  /\ dropped = FALSE /\ silent = 0

Init ==
  \/ InitWith("BOOT", <<Event("BOOTED", 0)>>, 1, FALSE)
  \/ InitWith("IDLE", <<>>, Wrap - 1, TRUE)

-----------------------------------------------------------------------------
(* The state task: one event at a time, and the work the event leads to     *)

\* The clients are cancelled before the generation moves on.
MutNewInteraction == <<"cancelAsr", "cancelChat", "cancelTts", "bump", "resetChat",
                       "resetAudio", "drainAsr">>

NewInteraction == <<"bump", "resetChat", "resetAudio", "drainAsr",
                    "cancelAsr", "cancelChat", "cancelTts">>

\* Only the release of the button stops the recording.
MutWork(from, to, type, expired) ==
     (CASE from # to /\ to = "RECORDING" -> NewInteraction \o <<"clearText", "start">>
        [] from = "RECORDING" /\ type = "PRESS_END" -> <<"stop">>
        [] OTHER -> <<>>)
  \o (IF from # to /\ to = "THINKING" /\ type = "ASR_DONE" THEN <<"prompt">> ELSE <<>>)
  \o (IF expired \/ type = "FACTORY_RESET" THEN NewInteraction \o <<"clearIntent">>
                                           ELSE <<>>)
  \o (CASE type = "FACTORY_RESET" -> <<"reset">>
        [] type # "FACTORY_RESET" /\ to = "CONFIG_CHECK" -> <<"load">>
        [] to = "NETWORK_CONNECTING" -> <<"connect">>
        [] OTHER -> <<>>)

\* The work an accepted event leads to, in the order of app_state_task.
Work(from, to, type, expired) ==
     (CASE from # to /\ to = "RECORDING" -> NewInteraction \o <<"clearText", "start">>
        [] from # to /\ from = "RECORDING" -> <<"stop">>
        [] OTHER -> <<>>)
  \o (IF from # to /\ to = "THINKING" /\ type = "ASR_DONE" THEN <<"prompt">> ELSE <<>>)
  \o (IF expired \/ type = "FACTORY_RESET" THEN NewInteraction \o <<"clearIntent">>
                                           ELSE <<>>)
  \o (CASE type = "FACTORY_RESET" -> <<"reset">>
        [] type # "FACTORY_RESET" /\ to = "CONFIG_CHECK" -> <<"load">>
        [] to = "NETWORK_CONNECTING" -> <<"connect">>
        [] OTHER -> <<>>)

Handle(e, expired) ==
  IF Stale(e) THEN UNCHANGED <<mach, todo>>
  ELSE LET next == Dispatch(mach, e.type) IN
       IF next = {} THEN UNCHANGED <<mach, todo>>
       ELSE \E m \in next : /\ mach' = m
                            /\ todo' = Work(mach.state, m.state, e.type, expired)

TasksUnchanged == UNCHANGED <<button, audio, recording, asr, chat, net, buffers>>

ReceiveEvent ==
  /\ todo = <<>> /\ appq # <<>>
  /\ appq' = Tail(appq)
  /\ Handle(Head(appq), FALSE)
  /\ TasksUnchanged
  /\ UNCHANGED <<gen, epoch, lock, chatq, audioq, asrq, netq, transcript, reply, pet,
                 config, lapses>>

\* The deadline is forgotten while no job has been submitted.
MutAsrDeadline ==
  /\ todo = <<>> /\ mach.state = "ASR_JOB_PENDING" /\ appq = <<>>
  /\ Handle(Event("TIMEOUT", gen), TRUE)
  /\ TasksUnchanged
  /\ UNCHANGED <<gen, epoch, lock, appq, chatq, audioq, asrq, netq, transcript, reply,
                 pet, config, lapses>>

\* The 35 s of the ASR phase are over: the watchdog takes the place of no
\* event, or of one that only reports progress.
AsrDeadline ==
  /\ todo = <<>> /\ mach.state \in {"TRANSCRIBING", "ASR_JOB_PENDING"}
  /\ \/ appq = <<>> /\ UNCHANGED appq
     \/ /\ appq # <<>>
        /\ Head(appq).type \in {"ASR_STARTED", "ASR_JOB_SUBMITTED", "CHAT_TOKEN"}
        /\ appq' = Tail(appq)
  /\ Handle(Event("TIMEOUT", gen), TRUE)
  /\ TasksUnchanged
  /\ UNCHANGED <<gen, epoch, lock, chatq, audioq, asrq, netq, transcript, reply, pet,
                 config, lapses>>

Doing(step) == todo # <<>> /\ Head(todo) = step
Done == todo' = Tail(todo)
Then(step) == todo' = <<step>> \o Tail(todo)

\* begin_new_interaction takes the commit mutex for the generation alone.
BumpGeneration ==
  \/ /\ Doing("bump") /\ lock = "free"
     /\ gen' = Successor(gen)
     /\ IF gen' = 0 THEN Then("skipZero") /\ lock' = "state" ELSE Done /\ UNCHANGED lock
     /\ TasksUnchanged
     /\ UNCHANGED <<mach, epoch, appq, chatq, audioq, asrq, netq, transcript, reply,
                    pet, config, lapses>>
  \/ /\ Doing("skipZero")
     /\ gen' = 1 /\ lock' = "free" /\ Done
     /\ TasksUnchanged
     /\ UNCHANGED <<mach, epoch, appq, chatq, audioq, asrq, netq, transcript, reply,
                    pet, config, lapses>>

\* The audio queue keeps what it holds.
MutResetQueues ==
  /\ \/ Doing("resetChat") /\ chatq' = <<>> /\ UNCHANGED <<asrq, buffers>>
     \/ Doing("resetAudio") /\ UNCHANGED <<chatq, asrq, buffers>>
     \/ /\ Doing("drainAsr")
        /\ asrq' = <<>> /\ buffers' = buffers - Len(asrq)
        /\ UNCHANGED chatq
  /\ Done
  /\ UNCHANGED <<mach, gen, epoch, lock, appq, audioq, netq, button, audio, recording,
                 asr, chat, net, transcript, reply, pet, config, lapses>>

ResetQueues ==
  /\ \/ Doing("resetChat") /\ chatq' = <<>> /\ UNCHANGED <<audioq, asrq, buffers>>
     \/ Doing("resetAudio") /\ audioq' = <<>> /\ UNCHANGED <<chatq, asrq, buffers>>
     \/ /\ Doing("drainAsr")
        /\ asrq' = <<>> /\ buffers' = buffers - Len(asrq)
        /\ UNCHANGED <<chatq, audioq>>
  /\ Done
  /\ UNCHANGED <<mach, gen, epoch, lock, appq, netq, button, audio, recording, asr,
                 chat, net, transcript, reply, pet, config, lapses>>

\* aiqa_request_epoch_cancel: an addition, and a second store when it wraps.
CancelStep == [asr |-> "cancelAsr", chat |-> "cancelChat", tts |-> "cancelTts"]
RestoreStep == [asr |-> "restoreAsr", chat |-> "restoreChat", tts |-> "restoreTts"]

CancelRequests(client) ==
  /\ \/ /\ Doing(CancelStep[client])
        /\ epoch' = [epoch EXCEPT ![client] = Successor(@)]
        /\ IF epoch'[client] = 0 THEN Then(RestoreStep[client]) ELSE Done
     \/ /\ Doing(RestoreStep[client])
        /\ epoch' = [epoch EXCEPT ![client] = 1] /\ Done
  /\ TasksUnchanged
  /\ UNCHANGED <<mach, gen, lock, appq, chatq, audioq, asrq, netq, transcript, reply,
                 pet, config, lapses>>

\* The local reply survives a new recording.
MutClearTexts ==
  /\ Doing("clearText") /\ Done
  /\ pet' = 0 /\ transcript' = 0
  /\ TasksUnchanged
  /\ UNCHANGED <<mach, gen, epoch, lock, appq, chatq, audioq, asrq, netq, reply, config,
                 lapses>>

\* handle_recording_transition, its first half
ClearTexts ==
  /\ Doing("clearText") /\ Done
  /\ pet' = 0 /\ transcript' = 0 /\ reply' = [kind |-> "none", gen |-> 0]
  /\ TasksUnchanged
  /\ UNCHANGED <<mach, gen, epoch, lock, appq, chatq, audioq, asrq, netq, config,
                 lapses>>

\* handle_recording_transition, its second half: a command the audio queue
\* does not take becomes a failure of the interaction.
CommandAudio ==
  \E type \in {"start", "stop"} :
    /\ Doing(type) /\ Done
    /\ IF HasRoom(audioq, AudioDepth)
       THEN /\ audioq' = Append(audioq, [type |-> type, gen |-> gen])
            /\ UNCHANGED <<appq, lapses>>
       ELSE PostEnding(Event("ASR_FAILED", gen)) /\ UNCHANGED audioq
    /\ TasksUnchanged
    /\ UNCHANGED <<mach, gen, epoch, lock, chatq, asrq, netq, transcript, reply, pet,
                   config>>

ChatCommand(type, text) ==
  [type |-> type, gen |-> gen, chat |-> epoch["chat"], tts |-> epoch["tts"],
   text |-> text]

\* handle_chat_prompt_transition: an empty text is refused, a command that finds
\* no room is lost, and either is only logged.
PostPrompt ==
  /\ Doing("prompt") /\ Done
  /\ IF reply.kind = "visual"
     THEN PostEnding(Event("CHAT_DONE", gen)) /\ UNCHANGED chatq
     ELSE LET c == IF reply.kind = "spoken" THEN ChatCommand("REPLY", reply.gen)
                                            ELSE ChatCommand("PROMPT", transcript)
              room == HasRoom(chatq, ChatDepth) IN
          /\ chatq' = IF c.text # 0 /\ room THEN Append(chatq, c) ELSE chatq
          /\ dropped' = (dropped \/ (c.text # 0 /\ ~room))
          /\ UNCHANGED <<appq, silent>>
  /\ reply' = [kind |-> "none", gen |-> 0] /\ transcript' = 0
  /\ TasksUnchanged
  /\ UNCHANGED <<mach, gen, epoch, lock, audioq, asrq, netq, pet, config>>

\* post_clear_device_intent, whoever calls it: it carries the generation of
\* the moment of the call.
PostClearIntent ==
  chatq' = IF HasRoom(chatq, ChatDepth)
           THEN Append(chatq, [type |-> "CLEAR", gen |-> gen, chat |-> 0, tts |-> 0,
                               text |-> 0])
           ELSE chatq

ForgetIntent ==
  /\ Doing("clearIntent") /\ Done /\ PostClearIntent
  /\ TasksUnchanged
  /\ UNCHANGED <<mach, gen, epoch, lock, appq, audioq, asrq, netq, transcript, reply,
                 pet, config, lapses>>

\* FACTORY_RESET: drop the pending network commands and queue the reset.
\* The queue has just been drained, so the command fits.
OrderReset ==
  /\ Doing("reset") /\ Done
  /\ netq' = <<[type |-> "reset", gen |-> 0]>>
  /\ TasksUnchanged
  /\ UNCHANGED <<mach, gen, epoch, lock, appq, chatq, audioq, asrq, transcript, reply,
                 pet, config, lapses>>

\* load_config_event and its post
LoadConfig ==
  /\ Doing("load") /\ Done
  /\ \E type \in {"CONFIG_CORRUPT",
                  IF config.stored THEN "CONFIG_READY" ELSE "CONFIG_MISSING"} :
       /\ PostEnding(Event(type, 0))
       /\ config' = IF type = "CONFIG_READY" THEN [config EXCEPT !.published = TRUE]
                                             ELSE config
  /\ TasksUnchanged
  /\ UNCHANGED <<mach, gen, epoch, lock, chatq, audioq, asrq, netq, transcript, reply,
                 pet>>

\* The command to connect, or the failure that stands for it: no snapshot or
\* no memory for the job, or a queue full of Wi-Fi updates.
OrderConnect ==
  /\ Doing("connect") /\ Done
  /\ \/ /\ config.published
        /\ netq' = Append(netq, [type |-> "connect", gen |-> gen])
        /\ UNCHANGED <<appq, lapses>>
     \/ /\ \E type \in {"CONFIG_CORRUPT", "NETWORK_FAILED"} : PostEnding(Event(type, 0))
        /\ UNCHANGED netq
  /\ TasksUnchanged
  /\ UNCHANGED <<mach, gen, epoch, lock, chatq, audioq, asrq, transcript, reply, pet,
                 config>>

StateTask ==
  \/ ReceiveEvent \/ BumpGeneration \/ ResetQueues
  \/ \E client \in DOMAIN CancelStep : CancelRequests(client)
  \/ ClearTexts \/ CommandAudio \/ PostPrompt \/ ForgetIntent
  \/ OrderReset \/ LoadConfig \/ OrderConnect

-----------------------------------------------------------------------------
(* The button: every event it posts waits for room                          *)

Others == UNCHANGED <<mach, todo, gen, epoch, transcript, reply, pet, config>>

ButtonPosts(type, from, to) ==
  /\ button.at = from /\ PostCritical(Event(type, 0))
  /\ button' = [button EXCEPT !.at = to,
                              !.orders = @ + IF type = "PRESS_START" THEN 1 ELSE 0]
  /\ Others
  /\ UNCHANGED <<lock, chatq, audioq, asrq, netq, audio, recording, asr, chat, net,
                 buffers, lapses>>

Press == button.orders < MaxOrders /\ ButtonPosts("PRESS_START", "up", "down")
Release == ButtonPosts("PRESS_END", "down", "up")
HoldTooLong == ButtonPosts("AUDIO_TOO_LONG", "down", "held")

LetGo ==
  /\ button.at = "held" /\ button' = [button EXCEPT !.at = "up"]
  /\ Others
  /\ UNCHANGED <<lock, appq, chatq, audioq, asrq, netq, audio, recording, asr, chat,
                 net, buffers, lapses>>

\* FACTORY_RESET arrives through aiqa_runtime_post_event.
FactoryReset ==
  /\ button.orders < MaxOrders /\ PostCritical(Event("FACTORY_RESET", 0))
  /\ button' = [button EXCEPT !.orders = @ + 1]
  /\ Others
  /\ UNCHANGED <<lock, chatq, audioq, asrq, netq, audio, recording, asr, chat, net,
                 buffers, lapses>>

-----------------------------------------------------------------------------
(* The audio task                                                           *)

AudioFrame == UNCHANGED <<lock, chatq, netq, button, asr, chat, net, lapses>>

\* Take a command; only a START of the current interaction records.  The
\* buffer of the last recording is used again if there is one.  Allocating it
\* or starting the microphone may fail.
TakeAudioCommand ==
  /\ audio.pc = "wait" /\ audioq # <<>>
  /\ audioq' = Tail(audioq)
  /\ LET c == Head(audioq) IN
     IF c.type = "start" /\ IsCurrent(c.gen)
     THEN \/ /\ audio' = [pc |-> "capture", gen |-> c.gen]
             /\ recording' = "audio"
             /\ buffers' = buffers + IF recording = "none" THEN 1 ELSE 0
          \/ /\ audio' = [pc |-> "fail", event |-> Event("ASR_FAILED", c.gen)]
             /\ \/ recording = "none" /\ UNCHANGED <<recording, buffers>>
                \/ /\ recording' = "wiped"
                   /\ buffers' = buffers + IF recording = "none" THEN 1 ELSE 0
     ELSE UNCHANGED <<audio, recording, buffers>>
  /\ Others /\ AudioFrame
  /\ UNCHANGED <<appq, asrq>>

\* The interaction is over: forget what was recorded.
StopStale ==
  /\ audio.pc = "capture" /\ ~IsCurrent(audio.gen)
  /\ audio' = Idle /\ recording' = "wiped"
  /\ Others /\ AudioFrame
  /\ UNCHANGED <<appq, audioq, asrq, buffers>>

\* The buffer is full, or no sample was read: the recording fails.
StopEmpty ==
  /\ audio.pc = "capture"
  /\ \E type \in {"AUDIO_TOO_LONG", "ASR_FAILED"} :
       audio' = [pc |-> "fail", event |-> Event(type, audio.gen)]
  /\ recording' = "wiped"
  /\ Others /\ AudioFrame
  /\ UNCHANGED <<appq, audioq, asrq, buffers>>

\* The button was released (a STOP of this interaction is at the head of the
\* queue) or the time is up.  The epoch is captured now; the buffer leaves
\* with the command.
StopRecording ==
  /\ audio.pc = "capture"
  /\ \/ UNCHANGED audioq
     \/ /\ audioq # <<>> /\ Head(audioq) = [type |-> "stop", gen |-> audio.gen]
        /\ audioq' = Tail(audioq)
  /\ audio' = [pc |-> "hand", gen |-> audio.gen, epoch |-> epoch["asr"]]
  /\ recording' = "none"
  /\ Others /\ AudioFrame
  /\ UNCHANGED <<appq, asrq, buffers>>

HandOver ==
  /\ audio.pc = "hand"
  /\ IF HasRoom(asrq, AsrDepth)
     THEN /\ asrq' = Append(asrq, [gen |-> audio.gen, epoch |-> audio.epoch])
          /\ audio' = Idle /\ UNCHANGED buffers
     ELSE /\ audio' = [pc |-> "fail", event |-> Event("ASR_FAILED", audio.gen)]
          /\ buffers' = buffers - 1 /\ UNCHANGED asrq
  /\ Others /\ AudioFrame
  /\ UNCHANGED <<appq, audioq, recording>>

ReportAudioFailure ==
  /\ audio.pc = "fail" /\ PostCritical(audio.event) /\ audio' = Idle
  /\ Others /\ AudioFrame
  /\ UNCHANGED <<audioq, asrq, recording, buffers>>

AudioTask == TakeAudioCommand \/ StopStale \/ StopEmpty \/ StopRecording \/ HandOver
             \/ ReportAudioFailure

-----------------------------------------------------------------------------
(* The ASR task                                                             *)

AsrFrame == UNCHANGED <<mach, todo, gen, epoch, audioq, netq, button, audio, recording,
                        chat, net, config, dropped>>

AsrFails(event) ==
  asr' = [pc |-> "report", event |-> event, posts |-> <<"event", "clear">>]

\* A stale command is dropped without its buffer.
MutTakeAsrCommand ==
  /\ asr.pc = "wait" /\ asrq # <<>>
  /\ asrq' = Tail(asrq)
  /\ LET c == Head(asrq) IN
     IF IsCurrent(c.gen)
     THEN asr' = [pc |-> "started", gen |-> c.gen, epoch |-> c.epoch] ELSE UNCHANGED asr
  /\ AsrFrame /\ UNCHANGED <<silent, lock, appq, chatq, transcript, reply, pet, buffers>>

\* Take a command: a stale one is dropped with its buffer, one that finds no
\* configuration or no memory fails.
TakeAsrCommand ==
  /\ asr.pc = "wait" /\ asrq # <<>>
  /\ asrq' = Tail(asrq)
  /\ LET c == Head(asrq) IN
     IF ~IsCurrent(c.gen) THEN buffers' = buffers - 1 /\ UNCHANGED asr
     ELSE IF ~config.published
     THEN buffers' = buffers - 1 /\ AsrFails(Event("CONFIG_CORRUPT", c.gen))
     ELSE \/ buffers' = buffers - 1 /\ AsrFails(Event("ASR_FAILED", c.gen))
          \/ /\ asr' = [pc |-> "started", gen |-> c.gen, epoch |-> c.epoch]
             /\ UNCHANGED buffers
  /\ AsrFrame /\ UNCHANGED <<silent, lock, appq, chatq, transcript, reply, pet>>

AnnounceAsr ==
  /\ asr.pc = "started" /\ PostBounded(Event("ASR_STARTED", asr.gen))
  /\ asr' = [asr EXCEPT !.pc = "request"]
  /\ AsrFrame /\ UNCHANGED <<silent, lock, chatq, asrq, transcript, reply, pet, buffers>>

\* The request ends; it cannot succeed once its epoch is cancelled.  The
\* buffer is freed whatever the outcome.
EndTranscription ==
  /\ asr.pc = "request"
  /\ \E type \in {"ASR_DONE", "ASR_FAILED", "RATE_LIMITED"} :
       /\ type = "ASR_DONE" => EpochIsCurrent("asr", asr.epoch)
       /\ asr' = [pc |-> "lock", gen |-> asr.gen, type |-> type]
  /\ buffers' = buffers - 1
  /\ AsrFrame /\ UNCHANGED <<silent, lock, appq, chatq, asrq, transcript, reply, pet>>

\* The generation is not looked at again under the lock.
MutLockForAsr ==
  /\ asr.pc = "lock" /\ lock = "free"
  /\ lock' = "asr" /\ asr' = [asr EXCEPT !.pc = "commit"]
  /\ AsrFrame
  /\ UNCHANGED <<silent, appq, chatq, asrq, transcript, reply, pet, buffers>>

LockForAsr ==
  /\ asr.pc = "lock" /\ lock = "free"
  /\ IF IsCurrent(asr.gen) THEN lock' = "asr" /\ asr' = [asr EXCEPT !.pc = "commit"]
                           ELSE asr' = Idle /\ UNCHANGED lock
  /\ AsrFrame
  /\ UNCHANGED <<silent, appq, chatq, asrq, transcript, reply, pet, buffers>>

\* handle_local_command_transcript: a command the device understands answers itself.
LocalReply ==
  \/ \E kind \in {"visual", "spoken"} :
       reply' = [kind |-> kind, gen |-> asr.gen] /\ pet' = asr.gen
  \/ UNCHANGED <<reply, pet>>

\* Under the lock: the transcript, the dialogue and the local command.  The
\* provider may have heard nothing: an empty transcript is a success as well, and
\* no local command.
CommitTranscript ==
  /\ asr.pc = "commit" /\ lock' = "free"
  /\ \/ asr.type # "ASR_DONE" /\ UNCHANGED <<transcript, silent, reply, pet>>
     \/ /\ asr.type = "ASR_DONE"
        /\ transcript' = 0 /\ silent' = asr.gen /\ UNCHANGED <<reply, pet>>
     \/ /\ asr.type = "ASR_DONE"
        /\ transcript' = asr.gen /\ LocalReply /\ UNCHANGED silent
  /\ asr' = [pc |-> "report", event |-> Event(asr.type, asr.gen),
             posts |-> IF asr.type = "ASR_DONE" THEN <<"event">>
                                                ELSE <<"clear", "event">>]
  /\ AsrFrame /\ UNCHANGED <<appq, chatq, asrq, buffers>>

\* The outcome, and the order to forget a pending device intent.
ReportAsr ==
  /\ asr.pc = "report"
  /\ \/ Head(asr.posts) = "clear" /\ PostClearIntent /\ UNCHANGED appq
     \/ Head(asr.posts) = "event" /\ PostCritical(asr.event) /\ UNCHANGED chatq
  /\ asr' = IF Len(asr.posts) = 1 THEN Idle ELSE [asr EXCEPT !.posts = Tail(@)]
  /\ AsrFrame /\ UNCHANGED <<silent, lock, asrq, transcript, reply, pet, buffers>>

AsrTask == TakeAsrCommand \/ AnnounceAsr \/ EndTranscription \/ LockForAsr
           \/ CommitTranscript \/ ReportAsr

-----------------------------------------------------------------------------
(* The chat task                                                            *)

ChatFrame == UNCHANGED <<mach, todo, gen, epoch, audioq, asrq, netq, button, audio,
                         recording, asr, net, transcript, reply, config, buffers>>

ChatMoves(pc) == chat' = [chat EXCEPT !.pc = pc]

\* Take a command.  What CLEAR does to the controller of device intents is in
\* DeviceIntent.
TakeChatCommand ==
  /\ chat.pc = "wait" /\ chatq # <<>>
  /\ chatq' = Tail(chatq)
  /\ LET c == Head(chatq)
         job == [pc |-> "started", gen |-> c.gen, epoch |-> c.chat, tts |-> c.tts,
                 text |-> c.text, after |-> "wait"] IN
     chat' = IF c.type = "CLEAR" \/ ~IsCurrent(c.gen) THEN Idle
             ELSE IF ~config.published THEN [job EXCEPT !.pc = "unconfigured"]
             ELSE IF c.type = "REPLY" THEN [job EXCEPT !.pc = "speak", !.after = "end"]
             ELSE job
  /\ ChatFrame /\ UNCHANGED <<lock, appq, pet, lapses>>

ReportUnconfigured ==
  /\ chat.pc = "unconfigured" /\ PostEnding(Event("CONFIG_CORRUPT", chat.gen))
  /\ chat' = Idle
  /\ ChatFrame /\ UNCHANGED <<lock, chatq, pet>>

\* CHAT_STARTED; a pending device intent is looked at first.
AnnounceChat ==
  /\ chat.pc = "started" /\ PostBounded(Event("CHAT_STARTED", chat.gen))
  /\ \E pc \in {"lockPending", "classify"} : ChatMoves(pc)
  /\ ChatFrame /\ UNCHANGED <<lock, chatq, pet, lapses>>

\* lock_current_interaction, in the three places the chat task takes it
LockForChat ==
  /\ chat.pc \in {"lockPending", "lockIntent", "lockAnswer"} /\ lock = "free"
  /\ IF IsCurrent(chat.gen)
     THEN /\ lock' = "chat"
          /\ ChatMoves(CASE chat.pc = "lockPending" -> "pending"
                         [] chat.pc = "lockIntent" -> "intent"
                         [] chat.pc = "lockAnswer" -> "commit")
     ELSE chat' = Idle /\ UNCHANGED lock
  /\ ChatFrame /\ UNCHANGED <<appq, chatq, pet, lapses>>

\* The controller of device intents decides under the lock: a pending intent
\* may leave the transcript to the cloud, a new one is always answered.
HandleIntent ==
  /\ \/ chat.pc = "pending" /\ \E pc \in {"answer", "classify"} : ChatMoves(pc)
     \/ chat.pc = "intent" /\ ChatMoves("answer")
  /\ lock' = "free"
  /\ ChatFrame /\ UNCHANGED <<appq, chatq, pet, lapses>>

\* The classification ends: stale, failed or refused (the answer says so),
\* an intent, or none.
EndClassification ==
  /\ chat.pc = "classify"
  /\ IF IsCurrent(chat.gen)
     THEN \E pc \in {"answer", "lockIntent", "request"} :
            /\ pc # "answer" => EpochIsCurrent("chat", chat.epoch)
            /\ ChatMoves(pc)
     ELSE chat' = Idle
  /\ ChatFrame /\ UNCHANGED <<lock, appq, chatq, pet, lapses>>

\* complete_device_intent_reply: the check, the write (without the lock), the
\* speech, and the event.
CheckReply ==
  /\ chat.pc = "answer"
  /\ chat' = IF IsCurrent(chat.gen) THEN [chat EXCEPT !.pc = "show"] ELSE Idle
  /\ ChatFrame /\ UNCHANGED <<lock, appq, chatq, pet, lapses>>

ShowReply ==
  /\ chat.pc = "show" /\ pet' = chat.gen
  /\ chat' = [chat EXCEPT !.pc = "speak", !.after = "end"]
  /\ ChatFrame /\ UNCHANGED <<lock, appq, chatq, lapses>>

EndSpeech ==
  /\ chat.pc = "speak"
  /\ chat' = IF chat.after = "end" /\ IsCurrent(chat.gen) THEN [chat EXCEPT !.pc = "end"]
                                                          ELSE Idle
  /\ ChatFrame /\ UNCHANGED <<lock, appq, chatq, pet, lapses>>

EndReply ==
  /\ chat.pc = "end" /\ PostEnding(Event("CHAT_DONE", chat.gen)) /\ chat' = Idle
  /\ ChatFrame /\ UNCHANGED <<lock, chatq, pet>>

\* chat_stream_delta_callback: the dialogue under the lock, then the event.
StreamDelta ==
  /\ chat.pc = "request" /\ lock = "free" /\ IsCurrent(chat.gen)
  /\ pet' = chat.gen
  /\ \E pc \in {"request", "token"} : ChatMoves(pc)
  /\ ChatFrame /\ UNCHANGED <<lock, appq, chatq, lapses>>

PostToken ==
  /\ chat.pc = "token" /\ PostBounded(Event("CHAT_TOKEN", chat.gen))
  /\ ChatMoves("request")
  /\ ChatFrame /\ UNCHANGED <<lock, chatq, pet, lapses>>

EndChat ==
  /\ chat.pc = "request"
  /\ \E type \in {"CHAT_DONE", "CHAT_FAILED", "RATE_LIMITED"} :
       /\ type = "CHAT_DONE" => EpochIsCurrent("chat", chat.epoch)
       /\ chat' = [chat EXCEPT !.pc = "lockAnswer", !.after = type]
  /\ ChatFrame /\ UNCHANGED <<lock, appq, chatq, pet, lapses>>

CommitAnswer ==
  /\ chat.pc = "commit" /\ lock' = "free"
  /\ pet' = IF chat.after = "CHAT_DONE" THEN chat.gen ELSE pet
  /\ ChatMoves("report")
  /\ ChatFrame /\ UNCHANGED <<appq, chatq, lapses>>

ReportChat ==
  /\ chat.pc = "report" /\ PostCritical(Event(chat.after, chat.gen))
  /\ chat' = IF chat.after = "CHAT_DONE" THEN [chat EXCEPT !.pc = "speak"] ELSE Idle
  /\ ChatFrame /\ UNCHANGED <<lock, chatq, pet, lapses>>

ChatTask == TakeChatCommand \/ ReportUnconfigured \/ AnnounceChat \/ LockForChat
            \/ HandleIntent \/ EndClassification \/ CheckReply \/ ShowReply
            \/ EndSpeech \/ EndReply \/ StreamDelta \/ PostToken \/ EndChat
            \/ CommitAnswer \/ ReportChat

-----------------------------------------------------------------------------
(* The net task                                                             *)

NetFrame == UNCHANGED <<mach, todo, gen, epoch, lock, chatq, audioq, asrq, button,
                        audio, recording, asr, chat, transcript, reply, pet, buffers>>

TakeNetCommand ==
  /\ net.pc = "wait" /\ netq # <<>>
  /\ netq' = Tail(netq)
  /\ net' = [pc |-> Head(netq).type, gen |-> Head(netq).gen]
  /\ NetFrame /\ UNCHANGED <<appq, config, lapses>>

\* The result of a connection of another interaction is dropped.
EndConnect ==
  /\ net.pc = "connect"
  /\ IF IsCurrent(net.gen)
     THEN \E type \in {"NETWORK_READY", "NETWORK_FAILED"} :
            net' = [pc |-> "report", event |-> Event(type, 0)]
     ELSE net' = Idle
  /\ NetFrame /\ UNCHANGED <<appq, netq, config, lapses>>

ReportConnect ==
  /\ net.pc = "report" /\ PostCritical(net.event) /\ net' = Idle
  /\ NetFrame /\ UNCHANGED <<netq, config, lapses>>

\* A reset that fails says nothing.
MutEraseConfig ==
  /\ net.pc = "reset"
  /\ \/ /\ config' = [stored |-> FALSE, published |-> FALSE]
        /\ PostEnding(Event("CONFIG_MISSING", 0))
     \/ config' = [config EXCEPT !.published = FALSE] /\ UNCHANGED <<appq, lapses>>
  /\ net' = Idle
  /\ NetFrame /\ UNCHANGED netq

\* The reset clears the snapshot, erases the store or fails to, and its result
\* is posted with a bounded wait.
EraseConfig ==
  /\ net.pc = "reset"
  /\ \E erased \in BOOLEAN :
       /\ config' = [stored |-> config.stored /\ ~erased, published |-> FALSE]
       /\ PostEnding(Event(IF erased THEN "CONFIG_MISSING" ELSE "CONFIG_CORRUPT", 0))
  /\ net' = Idle
  /\ NetFrame /\ UNCHANGED netq

\* A Wi-Fi update that ends in RECOVERY_REQUIRED drops the snapshot it started
\* from, in the midst of whatever goes on, and then says so.
LoseConfig ==
  /\ net.pc = "wait" /\ button.orders < MaxOrders /\ config.published
  /\ config' = [config EXCEPT !.published = FALSE]
  /\ net' = [pc |-> "lost"]
  /\ button' = [button EXCEPT !.orders = @ + 1]
  /\ UNCHANGED <<mach, todo, gen, epoch, lock, appq, chatq, audioq, asrq, netq, audio,
                 recording, asr, chat, transcript, reply, pet, buffers, lapses>>

ReportLoss ==
  /\ net.pc = "lost" /\ PostEnding(Event("CONFIG_CORRUPT", 0)) /\ net' = Idle
  /\ NetFrame /\ UNCHANGED <<netq, config>>

NetTask == TakeNetCommand \/ EndConnect \/ ReportConnect \/ EraseConfig \/ ReportLoss

-----------------------------------------------------------------------------

ButtonTask == Press \/ Release \/ HoldTooLong \/ LetGo

Next == StateTask \/ AsrDeadline \/ ButtonTask \/ FactoryReset \/ AudioTask \/ AsrTask
        \/ ChatTask \/ NetTask \/ LoseConfig

Spec == Init /\ [][Next]_vars

\* Every task runs as long as it has something to do, the deadline passes, a
\* pressed button is released or held too long, and a streamed answer ends.
FairSpec ==
  /\ Spec /\ WF_vars(StateTask) /\ WF_vars(AsrDeadline)
  /\ WF_vars(Release \/ HoldTooLong)
  /\ WF_vars(AudioTask) /\ WF_vars(AsrTask) /\ WF_vars(NetTask)
  /\ WF_vars(ChatTask) /\ SF_vars(EndChat)

-----------------------------------------------------------------------------
(* Properties                                                               *)

\* The state task is between the first and the last step of a new interaction.
Renewing == \E i \in DOMAIN todo :
              todo[i] \in {"bump", "skipZero", "drainAsr", "resetChat", "resetAudio"}
                          \cup {CancelStep[c] : c \in DOMAIN CancelStep}
                          \cup {RestoreStep[c] : c \in DOMAIN RestoreStep}

\* Once a new interaction is under way, no request of an older one still runs
\* with an epoch the clients take for live, and none of the current one has
\* been cancelled with the older ones: bumping the generation before the
\* cancellations, and taking the epochs where they are taken, is what makes
\* the two counters agree although no lock joins them.
RequestLiveIffCurrent ==
  ~Renewing =>
    /\ asr.pc \in {"started", "request"} =>
         (EpochIsCurrent("asr", asr.epoch) <=> IsCurrent(asr.gen))
    /\ chat.pc \in {"classify", "request", "token"} =>
         (EpochIsCurrent("chat", chat.epoch) <=> IsCurrent(chat.gen))
    /\ chat.pc = "speak" =>
         (EpochIsCurrent("tts", chat.tts) <=> IsCurrent(chat.gen))

\* What the chat task is asked to answer or to say is the transcript or the
\* reply of the very interaction the command belongs to, never one left over
\* by an interaction that a press, the watchdog or a reset has ended.
PromptIsOwn ==
  /\ \A i \in DOMAIN chatq : chatq[i].type # "CLEAR" => chatq[i].text = chatq[i].gen
  /\ chat.pc # "wait" => chat.text = chat.gen

\* The commands of the current interaction always find room, and the transcript
\* its reader: the depth of two of the audio and chat queues is enough because
\* every new interaction empties them, and the state task that has just accepted
\* ASR_DONE meets an empty transcript only when that is what the provider heard,
\* never because the text it belongs to was cleared or replaced on the way.
FollowUpsFit ==
  /\ Doing("start") \/ Doing("stop") => HasRoom(audioq, AudioDepth)
  /\ Doing("prompt") /\ reply.kind # "visual" => HasRoom(chatq, ChatDepth)
  /\ Doing("prompt") /\ reply.kind = "none" => transcript = gen \/ silent = gen

\* The microphone records for the current interaction only while the machine
\* is RECORDING, or with the order to stop already on its way.
MicrophoneFollowsTheMachine ==
  audio.pc = "capture" /\ IsCurrent(audio.gen) /\ mach.state # "RECORDING" =>
    \/ \E i \in DOMAIN audioq : audioq[i] = [type |-> "stop", gen |-> audio.gen]
    \/ \E i \in DOMAIN todo : todo[i] \in {"stop", "bump"}

\* Every PCM buffer has one owner: the recording, a command on its way, or the
\* transcription; stale and refused commands are freed, none twice.
BuffersHaveOwners ==
  buffers = (IF recording # "none" THEN 1 ELSE 0) + (IF audio.pc = "hand" THEN 1 ELSE 0)
            + Len(asrq) + (IF asr.pc \in {"started", "request"} THEN 1 ELSE 0)

\* A result is written to what the interactions share (transcript, local
\* reply, conversation, and the dialogue but for the answer of a device
\* intent) only while its interaction is the current one.
CommitsAreCurrent ==
  [][/\ transcript' \notin {0, transcript} => transcript' = gen
     /\ reply' # reply /\ reply'.kind # "none" => reply'.gen = gen
     /\ pet' \notin {0, pet} /\ chat.pc # "show" => pet' = gen]_vars

\* The manual says a new press "drops stale results": an answer on the dialogue
\* view belongs to the current interaction, once its text has been cleared.
StaleResultsDropped ==
  [][pet' \notin {0, pet} => pet' = gen']_vars

\* The provider heard nothing, so nobody was asked and no watchdog runs: all that
\* is left of the interaction is a machine that waits for the next press or reset.
Unanswered == mach.state = "THINKING" /\ silent = gen

InteractionEnds ==
  mach.state \in {"RECORDING", "TRANSCRIBING", "ASR_JOB_PENDING", "THINKING"} ~>
    \/ mach.state \in {"IDLE", "IDLE_WITH_RESULT", "ERROR", "CONFIG_CHECK"}
    \/ Unanswered \/ dropped

StartUpEnds ==
  mach.state \in {"BOOT", "CONFIG_CHECK", "NETWORK_CONNECTING"} ~>
    (mach.state \notin {"BOOT", "CONFIG_CHECK", "NETWORK_CONNECTING"} \/ dropped)

\* Every interaction ends, whatever is lost, late, cancelled or refused on its
\* way: the machine leaves the busy states.  A device that boots or resets gets
\* to rest: idle, or with an error shown.  There are two excuses: an event that
\* ends them was lost to a queue that stayed full, or the transcript was empty
\* and the machine is left THINKING.
MachineSettles == InteractionEnds /\ StartUpEnds

\* The plan says "ASR success -> THINKING", "Latest ASR transcript -> Qwen chat
\* request": a success without a local reply puts a question to the chat task.
SuccessIsAsked ==
  [][Doing("prompt") /\ reply.kind = "none" /\ todo' # todo => chatq' # chatq]_vars

TypeOK ==
  /\ gen \in 0 .. Wrap - 1 /\ epoch \in [{"asr", "chat", "tts"} -> 0 .. Wrap - 1]
  /\ Len(appq) <= AppDepth /\ Len(chatq) <= ChatDepth /\ Len(audioq) <= AudioDepth
  /\ Len(asrq) <= AsrDepth
  /\ lock \in {"free", "state", "asr", "chat"}
  /\ recording \in {"none", "wiped", "audio"} /\ buffers \in Nat

=============================================================================
