------------------------- MODULE InteractionProofs -------------------------
(***************************************************************************)
(* What holds of the tasks of an interaction for queues of any depth and    *)
(* counters of any width: every PCM buffer has one owner, every result that *)
(* is committed under the commit mutex belongs to the current interaction,  *)
(* and what the chat task is asked to answer or to say is the text of the   *)
(* interaction that asks.  Where a generation is told from an older one, a  *)
(* behaviour has fewer interactions than a generation has values            *)
(* (RunAssumption): a request is live exactly when its interaction is the   *)
(* current one, the microphone follows the machine, and with room for two   *)
(* commands (RoomAssumption) the orders of the current interaction fit.     *)
(***************************************************************************)
EXTENDS Interaction, FiniteSets, SequenceTheorems, FiniteSetTheorems, TLAPS

Generations == 0 .. Wrap - 1
Clients == {"asr", "chat", "tts"}

AudioCommands == [type : {"start", "stop"}, gen : Generations]
AsrCommands   == [gen : Generations, epoch : Generations]

----------------------------------------------------------------------------
\* The invariant behind the buffers: what travels, and what the audio task
\* holds at each of its points.

CountersTyped ==
  /\ gen \in Generations /\ epoch \in [Clients -> Generations]
  /\ audioq \in Seq(AudioCommands) /\ asrq \in Seq(AsrCommands)

RecordingShape ==
  /\ recording \in {"none", "wiped", "audio"}
  /\ audio.pc = "capture" => audio.gen \in Generations /\ recording = "audio"
  /\ audio.pc = "hand" =>
       audio.gen \in Generations /\ audio.epoch \in Generations /\ recording = "none"

\* What the ASR task remembers at the points it leaves by changing one field.
AsrRecords ==
  /\ asr.pc = "started" => asr = [pc |-> "started", gen |-> asr.gen, epoch |-> asr.epoch]
  /\ asr.pc = "lock"    => asr = [pc |-> "lock", gen |-> asr.gen, type |-> asr.type]
  /\ asr.pc = "report"  => asr = [pc |-> "report", event |-> asr.event, posts |-> asr.posts]

BufferInv == CountersTyped /\ RecordingShape /\ AsrRecords /\ BuffersHaveOwners

bufferVars == <<gen, epoch, audioq, asrq, audio, recording, asr, buffers>>

LEMMA SuccessorTyped == \A v \in Generations : Successor(v) \in Generations
BY WrapAssumption DEF Generations, Successor

LEMMA BufferStutter == BufferInv /\ UNCHANGED bufferVars => BufferInv'
BY DEF BufferInv, bufferVars, CountersTyped, RecordingShape, AsrRecords, BuffersHaveOwners

LEMMA Counted == BufferInv => Len(asrq) \in Nat /\ buffers \in Nat
<1>. SUFFICES ASSUME BufferInv PROVE Len(asrq) \in Nat /\ buffers \in Nat
  OBVIOUS
<1>1. Len(asrq) \in Nat
  BY DEF BufferInv, CountersTyped
<1>. QED  BY <1>1 DEF BufferInv, BuffersHaveOwners

\* While the ASR task and its queue stand still, the count of the audio task's
\* own buffers decides.
OwnBuffers == (IF recording # "none" THEN 1 ELSE 0) + (IF audio.pc = "hand" THEN 1 ELSE 0)

LEMMA AudioBalance ==
  ASSUME BufferInv, UNCHANGED <<asrq, asr>>, buffers' = buffers + OwnBuffers' - OwnBuffers
  PROVE  BuffersHaveOwners'
<1>. DEFINE Asr == IF asr.pc \in {"started", "request"} THEN 1 ELSE 0
<1>1. Asr \in Nat /\ Len(asrq) \in Nat /\ Asr' = Asr /\ Len(asrq') = Len(asrq)
  BY Counted
<1>2. OwnBuffers \in Nat /\ OwnBuffers' \in Nat
  BY DEF OwnBuffers
<1>3. buffers = OwnBuffers + Len(asrq) + Asr
  BY DEF BufferInv, BuffersHaveOwners, OwnBuffers
<1>4. buffers' = OwnBuffers' + Len(asrq') + Asr'
  <2>. HIDE DEF Asr
  <2>. QED  BY <1>1, <1>2, <1>3
<1>. QED  BY <1>4 DEF BuffersHaveOwners, OwnBuffers

LEMMA BufferInit == Init => BufferInv
<1>. SUFFICES ASSUME Init PROVE BufferInv
  OBVIOUS
<1>1. /\ gen \in Generations /\ epoch = [asr |-> gen, chat |-> gen, tts |-> gen]
      /\ audioq = <<>> /\ asrq = <<>> /\ audio = Idle /\ asr = Idle
      /\ recording = "none" /\ buffers = 0
  BY WrapAssumption DEF Init, InitWith, Generations
<1>2. CountersTyped
  BY <1>1 DEF CountersTyped, Clients
<1>. QED
  BY <1>1, <1>2 DEF BufferInv, RecordingShape, AsrRecords, BuffersHaveOwners, Idle

\* The state task empties the ASR queue with the buffers in it, and posts
\* commands to the audio task.
LEMMA StateKeepsBuffers == BufferInv /\ StateTask => BufferInv'
<1>. SUFFICES ASSUME BufferInv, StateTask PROVE BufferInv'
  OBVIOUS
<1>1. CASE BumpGeneration
  <2>1. gen' \in Generations
    BY <1>1, SuccessorTyped, WrapAssumption
       DEF BumpGeneration, BufferInv, CountersTyped, Generations
  <2>2. UNCHANGED <<epoch, audioq, asrq, audio, recording, asr, buffers>>
    BY <1>1 DEF BumpGeneration, TasksUnchanged
  <2>. QED
    BY <2>1, <2>2 DEF BufferInv, CountersTyped, RecordingShape, AsrRecords, BuffersHaveOwners
<1>2. CASE ResetQueues
  <2>0. UNCHANGED <<gen, epoch, audio, recording, asr>>
    BY <1>2 DEF ResetQueues
  <2>1. CASE UNCHANGED <<asrq, buffers>> /\ (audioq' = <<>> \/ audioq' = audioq)
    <3>1. audioq' \in Seq(AudioCommands)
      BY <2>1, EmptySeq DEF BufferInv, CountersTyped
    <3>. QED
      BY <2>0, <2>1, <3>1 DEF BufferInv, CountersTyped, RecordingShape, AsrRecords,
                              BuffersHaveOwners
  <2>2. CASE asrq' = <<>> /\ buffers' = buffers - Len(asrq) /\ UNCHANGED audioq
    <3>1. Len(asrq) \in Nat /\ Len(asrq') = 0
      BY <2>2 DEF BufferInv, CountersTyped
    <3>. QED
      BY <2>0, <2>2, <3>1 DEF BufferInv, CountersTyped, RecordingShape, AsrRecords,
                              BuffersHaveOwners
  <2>. QED  BY <1>2, <2>1, <2>2 DEF ResetQueues
<1>3. CASE \E client \in DOMAIN CancelStep : CancelRequests(client)
  <2>1. PICK client \in Clients : CancelRequests(client)
    BY <1>3 DEF CancelStep, Clients
  <2>2. epoch' \in [Clients -> Generations]
    <3>1. epoch \in [Clients -> Generations]
      BY DEF BufferInv, CountersTyped
    <3>2. Successor(epoch[client]) \in Generations /\ 1 \in Generations
      BY <3>1, SuccessorTyped, WrapAssumption DEF Generations
    <3>3. \/ epoch' = [epoch EXCEPT ![client] = Successor(epoch[client])]
          \/ epoch' = [epoch EXCEPT ![client] = 1]
      BY <2>1 DEF CancelRequests
    <3>. QED  BY <3>1, <3>2, <3>3
  <2>3. UNCHANGED <<gen, audioq, asrq, audio, recording, asr, buffers>>
    BY <2>1 DEF CancelRequests, TasksUnchanged
  <2>. QED
    BY <2>2, <2>3 DEF BufferInv, CountersTyped, RecordingShape, AsrRecords, BuffersHaveOwners
<1>4. CASE CommandAudio
  <2>1. audioq' \in Seq(AudioCommands)
    <3>1. PICK type \in {"start", "stop"} :
            audioq' \in {audioq, Append(audioq, [type |-> type, gen |-> gen])}
      BY <1>4 DEF CommandAudio
    <3>2. [type |-> type, gen |-> gen] \in AudioCommands
      BY DEF BufferInv, CountersTyped, AudioCommands
    <3>. QED  BY <3>1, <3>2 DEF BufferInv, CountersTyped
  <2>2. UNCHANGED <<gen, epoch, asrq, audio, recording, asr, buffers>>
    BY <1>4 DEF CommandAudio, TasksUnchanged
  <2>. QED
    BY <2>1, <2>2 DEF BufferInv, CountersTyped, RecordingShape, AsrRecords, BuffersHaveOwners
<1>5. CASE ReceiveEvent \/ ClearTexts \/ PostPrompt \/ ForgetIntent \/ OrderReset
           \/ LoadConfig \/ OrderConnect
  <2>1. UNCHANGED bufferVars
    BY <1>5 DEF ReceiveEvent, ClearTexts, PostPrompt, ForgetIntent, OrderReset, LoadConfig,
                OrderConnect, TasksUnchanged, bufferVars
  <2>. QED  BY <2>1, BufferStutter
<1>. QED  BY <1>1, <1>2, <1>3, <1>4, <1>5 DEF StateTask

\* The audio task allocates a buffer at most once and hands it over or frees it.
LEMMA AudioKeepsBuffers == BufferInv /\ AudioTask => BufferInv'
<1>. SUFFICES ASSUME BufferInv, AudioTask PROVE BufferInv'
  OBVIOUS
<1>0. UNCHANGED <<gen, epoch, asr>>
  BY DEF AudioTask, TakeAudioCommand, StopStale, StopEmpty, StopRecording, HandOver,
         ReportAudioFailure, Others, AudioFrame
<1>1. CASE TakeAudioCommand
  <2>1. /\ audioq \in Seq(AudioCommands) /\ audioq # <<>>
        /\ audioq' = Tail(audioq) /\ UNCHANGED asrq /\ audio.pc = "wait"
    BY <1>1 DEF TakeAudioCommand, BufferInv, CountersTyped
  <2>2. Head(audioq) \in AudioCommands /\ audioq' \in Seq(AudioCommands)
    BY <2>1
  <2>3. Head(audioq).gen \in Generations
    BY <2>2 DEF AudioCommands
  <2>4. CASE /\ audio' = [pc |-> "capture", gen |-> Head(audioq).gen]
             /\ recording' = "audio"
             /\ buffers' = buffers + IF recording = "none" THEN 1 ELSE 0
    BY <1>0, <2>1, <2>2, <2>3, <2>4
       DEF BufferInv, CountersTyped, RecordingShape, AsrRecords, BuffersHaveOwners
  <2>5. CASE /\ audio' = [pc |-> "fail", event |-> Event("ASR_FAILED", Head(audioq).gen)]
             /\ \/ recording = "none" /\ UNCHANGED <<recording, buffers>>
                \/ /\ recording' = "wiped"
                   /\ buffers' = buffers + IF recording = "none" THEN 1 ELSE 0
    <3>1. audio'.pc = "fail" /\ recording' \in {"none", "wiped"}
      BY <2>5
    <3>2. buffers' = buffers + OwnBuffers' - OwnBuffers
      BY <2>1, <2>5, <3>1, Counted DEF OwnBuffers
    <3>3. BuffersHaveOwners'
      BY <1>0, <2>1, <3>2, AudioBalance
    <3>. QED
      BY <1>0, <2>1, <2>2, <3>1, <3>3
         DEF BufferInv, CountersTyped, RecordingShape, AsrRecords
  <2>6. CASE UNCHANGED <<audio, recording, buffers>>
    BY <1>0, <2>1, <2>2, <2>6
       DEF BufferInv, CountersTyped, RecordingShape, AsrRecords, BuffersHaveOwners
  <2>. QED  BY <1>1, <2>4, <2>5, <2>6 DEF TakeAudioCommand
<1>2. CASE StopStale \/ StopEmpty
  <2>1. /\ audio.pc = "capture" /\ audio'.pc \in {"wait", "fail"} /\ recording' = "wiped"
        /\ UNCHANGED <<audioq, asrq, buffers>>
    BY <1>2 DEF StopStale, StopEmpty, Idle
  <2>. QED
    BY <1>0, <2>1 DEF BufferInv, CountersTyped, RecordingShape, AsrRecords, BuffersHaveOwners
<1>3. CASE StopRecording
  <2>1. /\ audio.pc = "capture" /\ recording' = "none" /\ UNCHANGED <<asrq, buffers>>
        /\ audio' = [pc |-> "hand", gen |-> audio.gen, epoch |-> epoch["asr"]]
    BY <1>3 DEF StopRecording
  <2>2. audioq' \in Seq(AudioCommands)
    BY <1>3 DEF StopRecording, BufferInv, CountersTyped
  <2>3. epoch["asr"] \in Generations
    BY DEF BufferInv, CountersTyped, Clients
  <2>4. audio.gen \in Generations /\ recording = "audio"
    BY <2>1 DEF BufferInv, RecordingShape
  <2>5. audio'.pc = "hand" /\ audio'.gen = audio.gen /\ audio'.epoch = epoch["asr"]
    BY <2>1
  <2>6. RecordingShape'
    BY <2>1, <2>3, <2>4, <2>5 DEF RecordingShape
  <2>7. BuffersHaveOwners'
    <3>1. OwnBuffers = 1 /\ OwnBuffers' = 1
      BY <2>1, <2>4, <2>5 DEF OwnBuffers
    <3>. QED  BY <1>0, <2>1, <3>1, Counted, AudioBalance
  <2>. QED
    BY <1>0, <2>1, <2>2, <2>6, <2>7 DEF BufferInv, CountersTyped, AsrRecords
<1>4. CASE HandOver
  <2>1. audio.pc = "hand" /\ UNCHANGED <<audioq, recording>>
    BY <1>4 DEF HandOver
  <2>2. CASE /\ asrq' = Append(asrq, [gen |-> audio.gen, epoch |-> audio.epoch])
             /\ audio' = Idle /\ UNCHANGED buffers
    <3>1. [gen |-> audio.gen, epoch |-> audio.epoch] \in AsrCommands
      BY <2>1 DEF BufferInv, RecordingShape, AsrCommands
    <3>2. asrq' \in Seq(AsrCommands) /\ Len(asrq') = Len(asrq) + 1
      BY <2>2, <3>1 DEF BufferInv, CountersTyped
    <3>. QED
      BY <1>0, <2>1, <2>2, <3>2
         DEF BufferInv, CountersTyped, RecordingShape, AsrRecords, BuffersHaveOwners, Idle
  <2>3. CASE /\ audio' = [pc |-> "fail", event |-> Event("ASR_FAILED", audio.gen)]
             /\ buffers' = buffers - 1 /\ UNCHANGED asrq
    BY <1>0, <2>1, <2>3
       DEF BufferInv, CountersTyped, RecordingShape, AsrRecords, BuffersHaveOwners
  <2>. QED  BY <1>4, <2>2, <2>3 DEF HandOver
<1>5. CASE ReportAudioFailure
  <2>1. /\ audio.pc = "fail" /\ audio' = Idle
        /\ UNCHANGED <<audioq, asrq, recording, buffers>>
    BY <1>5 DEF ReportAudioFailure
  <2>. QED
    BY <1>0, <2>1 DEF BufferInv, CountersTyped, RecordingShape, AsrRecords,
                      BuffersHaveOwners, Idle
<1>. QED  BY <1>1, <1>2, <1>3, <1>4, <1>5 DEF AudioTask

\* The ASR task owns a buffer from the command on, and frees it when the
\* request ends, or at once if there will be none.
LEMMA AsrKeepsBuffers == BufferInv /\ AsrTask => BufferInv'
<1>. SUFFICES ASSUME BufferInv, AsrTask PROVE BufferInv'
  OBVIOUS
<1>0. UNCHANGED <<gen, epoch, audioq, audio, recording>>
  BY DEF AsrTask, TakeAsrCommand, AnnounceAsr, EndTranscription, LockForAsr,
         CommitTranscript, ReportAsr, AsrFrame
<1>1. CASE TakeAsrCommand
  <2>1. /\ asr.pc = "wait" /\ asrq \in Seq(AsrCommands) /\ asrq # <<>> /\ asrq' = Tail(asrq)
    BY <1>1 DEF TakeAsrCommand, BufferInv, CountersTyped
  <2>2. asrq' \in Seq(AsrCommands) /\ Len(asrq') = Len(asrq) - 1 /\ Len(asrq) \in Nat
    BY <2>1
  <2>3. CASE /\ buffers' = buffers - 1
             /\ \/ asr' = asr
                \/ asr' = [pc |-> "report", event |-> asr'.event, posts |-> asr'.posts]
    BY <1>0, <2>1, <2>2, <2>3
       DEF BufferInv, CountersTyped, RecordingShape, AsrRecords, BuffersHaveOwners
  <2>4. CASE /\ asr' = [pc |-> "started", gen |-> Head(asrq).gen, epoch |-> Head(asrq).epoch]
             /\ UNCHANGED buffers
    BY <1>0, <2>1, <2>2, <2>4
       DEF BufferInv, CountersTyped, RecordingShape, AsrRecords, BuffersHaveOwners
  <2>. QED  BY <1>1, <2>3, <2>4 DEF TakeAsrCommand, AsrFails
<1>2. CASE AnnounceAsr
  <2>1. asr.pc = "started" /\ asr'.pc = "request" /\ UNCHANGED <<asrq, buffers>>
    BY <1>2 DEF AnnounceAsr, BufferInv, AsrRecords
  <2>. QED
    BY <1>0, <2>1 DEF BufferInv, CountersTyped, RecordingShape, AsrRecords, BuffersHaveOwners
<1>3. CASE EndTranscription
  <2>1. /\ asr.pc = "request" /\ buffers' = buffers - 1 /\ UNCHANGED asrq
        /\ asr' = [pc |-> "lock", gen |-> asr'.gen, type |-> asr'.type]
    BY <1>3 DEF EndTranscription
  <2>. QED
    BY <1>0, <2>1 DEF BufferInv, CountersTyped, RecordingShape, AsrRecords, BuffersHaveOwners
<1>4. CASE LockForAsr \/ CommitTranscript \/ ReportAsr
  <2>1. asr.pc \in {"lock", "commit", "report"} /\ UNCHANGED <<asrq, buffers>>
    BY <1>4 DEF LockForAsr, CommitTranscript, ReportAsr
  <2>2. /\ asr'.pc \in {"wait", "commit", "report"}
        /\ asr'.pc = "report" =>
             asr' = [pc |-> "report", event |-> asr'.event, posts |-> asr'.posts]
    <3>1. CASE LockForAsr
      BY <3>1 DEF LockForAsr, BufferInv, AsrRecords, Idle
    <3>2. CASE CommitTranscript
      BY <3>2 DEF CommitTranscript
    <3>3. CASE ReportAsr
      BY <3>3 DEF ReportAsr, BufferInv, AsrRecords, Idle
    <3>. QED  BY <1>4, <3>1, <3>2, <3>3
  <2>. QED
    BY <1>0, <2>1, <2>2
       DEF BufferInv, CountersTyped, RecordingShape, AsrRecords, BuffersHaveOwners
<1>. QED  BY <1>1, <1>2, <1>3, <1>4 DEF AsrTask

\* The invariant of the buffers holds in every reachable state.
THEOREM BuffersInductive == Spec => []BufferInv
<1>1. BufferInv /\ [Next]_vars => BufferInv'
  <2>. SUFFICES ASSUME BufferInv, [Next]_vars PROVE BufferInv'
    OBVIOUS
  <2>1. CASE AsrDeadline \/ ButtonTask \/ FactoryReset \/ ChatTask \/ NetTask \/ LoseConfig
    <3>1. CASE AsrDeadline \/ FactoryReset \/ LoseConfig
      BY <3>1, BufferStutter DEF AsrDeadline, FactoryReset, LoseConfig, TasksUnchanged, Others,
                                 bufferVars
    <3>2. CASE ButtonTask
      BY <3>2, BufferStutter DEF ButtonTask, Press, Release, HoldTooLong, ButtonPosts, LetGo,
                                 Others, bufferVars
    <3>3. CASE ChatTask
      <4>1. UNCHANGED bufferVars
        BY <3>3 DEF ChatTask, TakeChatCommand, ReportUnconfigured, AnnounceChat, LockForChat,
           HandleIntent, EndClassification, CheckReply, ShowReply, EndSpeech, EndReply,
           StreamDelta, PostToken, EndChat, CommitAnswer, ReportChat, ChatFrame, bufferVars
      <4>. QED  BY <4>1, BufferStutter
    <3>4. CASE NetTask
      <4>1. UNCHANGED bufferVars
        BY <3>4 DEF NetTask, TakeNetCommand, EndConnect, ReportConnect, EraseConfig,
                    ReportLoss, NetFrame, bufferVars
      <4>. QED  BY <4>1, BufferStutter
    <3>. QED  BY <2>1, <3>1, <3>2, <3>3, <3>4
  <2>2. CASE UNCHANGED vars
    BY <2>2, BufferStutter DEF vars, bufferVars
  <2>. QED
    BY <2>1, <2>2, StateKeepsBuffers, AudioKeepsBuffers, AsrKeepsBuffers DEF Next
<1>. QED  BY <1>1, BufferInit, PTL DEF Spec

\* Every PCM buffer is owned by the recording, by one command on its way or by
\* the transcription, and freed once: record, hand over, drop, drain, free.
THEOREM EveryBufferHasOneOwner == Spec => []BuffersHaveOwners
<1>1. BufferInv => BuffersHaveOwners
  BY DEF BufferInv
<1>. QED  BY <1>1, BuffersInductive, PTL

----------------------------------------------------------------------------
\* The invariant behind the commits: whoever is in the section of the commit
\* mutex holds it and found its interaction current there, and the generation
\* moves under the mutex only, also in the two steps it takes to skip 0.

Committing == {"pending", "intent", "commit"}

PlainSteps == {"bump", "resetChat", "resetAudio", "drainAsr", "cancelAsr", "cancelChat",
               "cancelTts", "clearText", "start", "stop", "prompt", "clearIntent", "reset",
               "load", "connect"}
Steps == PlainSteps \cup {"skipZero", "restoreAsr", "restoreChat", "restoreTts"}

\* A second half of a step is done at once.
TodoShape ==
  /\ todo \in Seq(Steps)
  /\ todo # <<>> => Tail(todo) \in Seq(PlainSteps)
  /\ Doing("skipZero") => lock = "state"

ChatRecord ==
  chat.pc # "wait" =>
    chat = [pc |-> chat.pc, gen |-> chat.gen, epoch |-> chat.epoch, tts |-> chat.tts,
            text |-> chat.text, after |-> chat.after]

AsrLockRecord == asr.pc \in {"lock", "commit"} =>
                   asr = [pc |-> asr.pc, gen |-> asr.gen, type |-> asr.type]

SectionShape ==
  /\ asr.pc = "commit" => lock = "asr" /\ IsCurrent(asr.gen)
  /\ chat.pc \in Committing => lock = "chat" /\ IsCurrent(chat.gen)

CommitInv == TodoShape /\ ChatRecord /\ AsrRecords /\ AsrLockRecord /\ SectionShape

LEMMA CommitStutter ==
  CommitInv /\ UNCHANGED <<todo, lock, chat, asr, gen>> => CommitInv'
BY DEF CommitInv, TodoShape, Doing, ChatRecord, AsrRecords, AsrLockRecord, SectionShape,
       IsCurrent, Committing

LEMMA CommitInit == Init => CommitInv
<1>. SUFFICES ASSUME Init PROVE CommitInv
  OBVIOUS
<1>1. todo = <<>> /\ asr.pc = "wait" /\ chat.pc = "wait"
  BY DEF Init, InitWith, Idle
<1>. QED
  BY <1>1, EmptySeq DEF CommitInv, TodoShape, Doing, ChatRecord, AsrRecords, AsrLockRecord,
                        SectionShape, Committing

\* The steps an event leads to: no second halves, and the prompt only when the
\* transcription is done.
LEMMA WorkWithin ==
  ASSUME NEW from, NEW to, NEW type, NEW expired, NEW S,
         PlainSteps \ {"prompt"} \subseteq S,
         "prompt" \in S \/ ~(from # to /\ to = "THINKING" /\ type = "ASR_DONE")
  PROVE  Work(from, to, type, expired) \in Seq(S)
<1>0. {"bump", "resetChat", "resetAudio", "drainAsr", "cancelAsr", "cancelChat", "cancelTts",
       "clearText", "start", "stop", "clearIntent", "reset", "load", "connect"} \subseteq S
  BY DEF PlainSteps
<1>1. NewInteraction \in Seq(S)
  BY <1>0 DEF NewInteraction
<1>2. /\ NewInteraction \o <<"clearText", "start">> \in Seq(S)
      /\ NewInteraction \o <<"clearIntent">> \in Seq(S)
  <2>1. <<"clearText", "start">> \in Seq(S) /\ <<"clearIntent">> \in Seq(S)
    BY <1>0
  <2>. QED  BY <1>1, <2>1, ConcatProperties
<1>. DEFINE A == CASE from # to /\ to = "RECORDING" -> NewInteraction \o <<"clearText", "start">>
                   [] from # to /\ from = "RECORDING" -> <<"stop">>
                   [] OTHER -> <<>>
            B == IF from # to /\ to = "THINKING" /\ type = "ASR_DONE" THEN <<"prompt">> ELSE <<>>
            C == IF expired \/ type = "FACTORY_RESET" THEN NewInteraction \o <<"clearIntent">>
                                                      ELSE <<>>
            D == CASE type = "FACTORY_RESET" -> <<"reset">>
                   [] type # "FACTORY_RESET" /\ to = "CONFIG_CHECK" -> <<"load">>
                   [] to = "NETWORK_CONNECTING" -> <<"connect">>
                   [] OTHER -> <<>>
<1>3. /\ <<>> \in Seq(S) /\ <<"stop">> \in Seq(S) /\ <<"reset">> \in Seq(S)
      /\ <<"load">> \in Seq(S) /\ <<"connect">> \in Seq(S)
  BY <1>0, EmptySeq
<1>4. A \in Seq(S)
  <2>. HIDE DEF NewInteraction
  <2>. QED  BY <1>2, <1>3
<1>5. B \in Seq(S) /\ C \in Seq(S)
  <2>1. B \in Seq(S)
    BY <1>3
  <2>. QED  BY <1>2, <1>3, <2>1
<1>6. D \in Seq(S)
  BY <1>3
<1>7. Work(from, to, type, expired) = A \o B \o C \o D
  BY DEF Work
<1>. HIDE DEF A, B, C, D
<1>8. A \o B \in Seq(S)
  BY <1>4, <1>5, ConcatProperties
<1>9. A \o B \o C \in Seq(S)
  BY <1>5, <1>8, ConcatProperties
<1>. QED  BY <1>6, <1>7, <1>9, ConcatProperties

LEMMA WorkIsPlain ==
  ASSUME NEW from, NEW to, NEW type, NEW expired
  PROVE  Work(from, to, type, expired) \in Seq(PlainSteps)
<1>1. PlainSteps \ {"prompt"} \subseteq PlainSteps /\ "prompt" \in PlainSteps
  BY DEF PlainSteps
<1>. QED  BY <1>1, WorkWithin

\* A list without second halves is in shape.
LEMMA PlainTodo ==
  ASSUME todo' \in Seq(PlainSteps)
  PROVE  TodoShape'
<1>1. todo' \in Seq(Steps)
  BY DEF Steps
<1>2. todo' # <<>> => Tail(todo') \in Seq(PlainSteps) /\ Head(todo') \in PlainSteps
  OBVIOUS
<1>. QED  BY <1>1, <1>2 DEF TodoShape, Doing, PlainSteps

LEMMA DoneIsPlain == TodoShape /\ todo # <<>> /\ Done => TodoShape'
<1>. SUFFICES ASSUME TodoShape, todo # <<>>, Done PROVE TodoShape'
  OBVIOUS
<1>1. todo' \in Seq(PlainSteps)
  BY DEF TodoShape, Done
<1>. QED  BY <1>1, PlainTodo

LEMMA ThenShape ==
  ASSUME TodoShape, todo # <<>>, NEW step \in Steps, Then(step),
         step = "skipZero" => lock' = "state"
  PROVE  TodoShape'
<1>1. Tail(todo) \in Seq(PlainSteps) /\ todo' = <<step>> \o Tail(todo)
  BY DEF TodoShape, Then
<1>2. Tail(todo) \in Seq(Steps) /\ <<step>> \in Seq(Steps)
  BY <1>1 DEF Steps
<1>3. todo' \in Seq(Steps)
  BY <1>1, <1>2, ConcatProperties
<1>4. Head(todo') = step /\ Tail(todo') = Tail(todo)
  BY <1>1, <1>2
<1>. QED  BY <1>1, <1>3, <1>4 DEF TodoShape, Doing

\* The state task moves the generation when nobody is in the section, and
\* otherwise only works off its list.
LEMMA StateKeepsCommits == CommitInv /\ StateTask => CommitInv'
<1>. SUFFICES ASSUME CommitInv, StateTask PROVE CommitInv'
  OBVIOUS
<1>0. UNCHANGED <<asr, chat>>
  BY DEF StateTask, ReceiveEvent, BumpGeneration, ResetQueues, CancelRequests, ClearTexts,
         CommandAudio, PostPrompt, ForgetIntent, OrderReset, LoadConfig, OrderConnect,
         TasksUnchanged
<1>1. CASE ReceiveEvent
  <2>1. UNCHANGED <<lock, gen>> /\ Handle(Head(appq), FALSE)
    BY <1>1 DEF ReceiveEvent
  <2>2. UNCHANGED todo \/ todo' \in Seq(PlainSteps)
    BY <2>1, WorkIsPlain DEF Handle
  <2>3. TodoShape'
    BY <2>1, <2>2, PlainTodo DEF CommitInv, TodoShape, Doing
  <2>. QED
    BY <1>0, <2>1, <2>3 DEF CommitInv, ChatRecord, AsrRecords, AsrLockRecord, SectionShape,
                            IsCurrent, Committing
<1>2. CASE BumpGeneration
  <2>1. todo # <<>> /\ asr.pc # "commit" /\ chat.pc \notin Committing
    BY <1>2 DEF BumpGeneration, Doing, CommitInv, SectionShape, TodoShape
  <2>2. TodoShape'
    <3>1. CASE Then("skipZero") /\ lock' = "state"
      BY <2>1, <3>1, ThenShape DEF CommitInv, Steps
    <3>2. CASE Done
      BY <2>1, <3>2, DoneIsPlain DEF CommitInv
    <3>. QED  BY <1>2, <3>1, <3>2 DEF BumpGeneration
  <2>. QED
    BY <1>0, <2>1, <2>2 DEF CommitInv, ChatRecord, AsrRecords, AsrLockRecord, SectionShape,
                            Committing
<1>3. CASE \/ ResetQueues \/ \E client \in DOMAIN CancelStep : CancelRequests(client)
           \/ ClearTexts \/ CommandAudio \/ PostPrompt \/ ForgetIntent
           \/ OrderReset \/ LoadConfig \/ OrderConnect
  <2>1. UNCHANGED <<lock, gen>> /\ todo # <<>>
    BY <1>3 DEF ResetQueues, CancelRequests, ClearTexts, CommandAudio, PostPrompt,
                ForgetIntent, OrderReset, LoadConfig, OrderConnect, Doing
  <2>2. Done \/ \E client \in DOMAIN CancelStep : Then(RestoreStep[client])
    BY <1>3 DEF ResetQueues, CancelRequests, ClearTexts, CommandAudio, PostPrompt,
                ForgetIntent, OrderReset, LoadConfig, OrderConnect
  <2>3. TodoShape'
    <3>1. CASE Done
      BY <2>1, <3>1, DoneIsPlain DEF CommitInv
    <3>2. CASE \E client \in DOMAIN CancelStep : Then(RestoreStep[client])
      <4>1. PICK step \in {"restoreAsr", "restoreChat", "restoreTts"} : Then(step)
        BY <3>2 DEF CancelStep, RestoreStep
      <4>. QED  BY <2>1, <4>1, ThenShape DEF CommitInv, Steps
    <3>. QED  BY <2>2, <3>1, <3>2
  <2>. QED
    BY <1>0, <2>1, <2>3 DEF CommitInv, ChatRecord, AsrRecords, AsrLockRecord, SectionShape,
                            IsCurrent, Committing
<1>. QED  BY <1>1, <1>2, <1>3 DEF StateTask

\* The ASR task enters the section by finding the mutex free and its
\* generation current, and leaves it with its commit.
LEMMA AsrKeepsCommits == CommitInv /\ AsrTask => CommitInv'
<1>. SUFFICES ASSUME CommitInv, AsrTask PROVE CommitInv'
  OBVIOUS
<1>0. UNCHANGED <<todo, gen, chat>>
  BY DEF AsrTask, TakeAsrCommand, AnnounceAsr, EndTranscription, LockForAsr,
         CommitTranscript, ReportAsr, AsrFrame
<1>1. CASE TakeAsrCommand \/ AnnounceAsr \/ EndTranscription \/ ReportAsr
  <2>1. UNCHANGED lock /\ asr.pc # "commit"
    BY <1>1 DEF TakeAsrCommand, AnnounceAsr, EndTranscription, ReportAsr
  <2>2. AsrRecords' /\ AsrLockRecord' /\ asr'.pc # "commit"
    <3>1. CASE TakeAsrCommand
      BY <3>1 DEF TakeAsrCommand, AsrFails, CommitInv, AsrRecords, AsrLockRecord
    <3>2. CASE AnnounceAsr
      <4>1. asr'.pc = "request"
        BY <3>2 DEF AnnounceAsr, CommitInv, AsrRecords
      <4>. QED  BY <4>1 DEF AsrRecords, AsrLockRecord
    <3>3. CASE EndTranscription
      BY <3>3 DEF EndTranscription, AsrRecords, AsrLockRecord
    <3>4. CASE ReportAsr
      BY <3>4 DEF ReportAsr, CommitInv, AsrRecords, AsrLockRecord, Idle
    <3>. QED  BY <1>1, <3>1, <3>2, <3>3, <3>4
  <2>. QED
    BY <1>0, <2>1, <2>2 DEF CommitInv, TodoShape, Doing, ChatRecord, SectionShape, IsCurrent,
                            Committing
<1>2. CASE LockForAsr
  <2>1. asr.pc = "lock" /\ lock = "free"
    BY <1>2 DEF LockForAsr
  <2>2. ~Doing("skipZero") /\ chat.pc \notin Committing
    BY <2>1 DEF CommitInv, TodoShape, SectionShape
  <2>3. asr = [pc |-> "lock", gen |-> asr.gen, type |-> asr.type]
    BY <2>1 DEF CommitInv, AsrLockRecord
  <2>4. CASE IsCurrent(asr.gen) /\ lock' = "asr" /\ asr' = [asr EXCEPT !.pc = "commit"]
    <3>1. asr' = [pc |-> "commit", gen |-> asr.gen, type |-> asr.type]
      BY <2>3, <2>4
    <3>2. AsrRecords' /\ AsrLockRecord' /\ asr'.gen = asr.gen
      BY <3>1 DEF AsrRecords, AsrLockRecord
    <3>. QED
      BY <1>0, <2>2, <2>4, <3>2 DEF CommitInv, TodoShape, Doing, ChatRecord, SectionShape,
                                    IsCurrent, Committing
  <2>5. CASE asr' = Idle /\ UNCHANGED lock
    BY <1>0, <2>2, <2>5 DEF CommitInv, TodoShape, Doing, ChatRecord, AsrRecords,
                            AsrLockRecord, SectionShape, IsCurrent, Committing, Idle
  <2>. QED  BY <1>2, <2>4, <2>5 DEF LockForAsr
<1>3. CASE CommitTranscript
  <2>1. lock = "asr"
    BY <1>3 DEF CommitTranscript, CommitInv, SectionShape
  <2>2. ~Doing("skipZero") /\ chat.pc \notin Committing
    BY <2>1 DEF CommitInv, TodoShape, SectionShape
  <2>3. asr' = [pc |-> "report", event |-> asr'.event, posts |-> asr'.posts]
    BY <1>3 DEF CommitTranscript
  <2>4. AsrRecords' /\ AsrLockRecord' /\ asr'.pc = "report"
    BY <2>3 DEF AsrRecords, AsrLockRecord
  <2>. QED
    BY <1>0, <2>2, <2>4 DEF CommitInv, TodoShape, Doing, ChatRecord, SectionShape, Committing
<1>. QED  BY <1>1, <1>2, <1>3 DEF AsrTask

\* Changing the point of the chat task leaves the rest of its command.
LEMMA ChatMovesTo ==
  ASSUME ChatRecord, chat.pc # "wait", NEW pc, ChatMoves(pc)
  PROVE  ChatRecord' /\ chat'.pc = pc /\ chat'.gen = chat.gen /\ chat'.after = chat.after
BY DEF ChatRecord, ChatMoves

\* Outside the section the chat task neither takes nor leaves the mutex.
LEMMA ChatOutside ==
  ASSUME CommitInv, UNCHANGED <<todo, gen, asr, lock>>, ChatRecord', chat'.pc \notin Committing
  PROVE  CommitInv'
BY DEF CommitInv, TodoShape, Doing, AsrRecords, AsrLockRecord, SectionShape, IsCurrent,
       Committing

LEMMA ChatKeepsCommits == CommitInv /\ ChatTask => CommitInv'
<1>. SUFFICES ASSUME CommitInv, ChatTask PROVE CommitInv'
  OBVIOUS
<1>0. UNCHANGED <<todo, gen, asr>>
  BY DEF ChatTask, TakeChatCommand, ReportUnconfigured, AnnounceChat, LockForChat,
         HandleIntent, EndClassification, CheckReply, ShowReply, EndSpeech, EndReply,
         StreamDelta, PostToken, EndChat, CommitAnswer, ReportChat, ChatFrame
<1>1. ChatRecord
  BY DEF CommitInv
<1>2. CASE \/ TakeChatCommand \/ ReportUnconfigured \/ AnnounceChat \/ EndClassification
           \/ CheckReply \/ ShowReply \/ EndSpeech \/ EndReply \/ StreamDelta \/ PostToken
           \/ EndChat \/ ReportChat
  <2>1. UNCHANGED lock
    BY <1>2 DEF TakeChatCommand, ReportUnconfigured, AnnounceChat, EndClassification,
       CheckReply, ShowReply, EndSpeech, EndReply, StreamDelta, PostToken, EndChat, ReportChat
  <2>2. ChatRecord' /\ chat'.pc \notin Committing
    <3>1. CASE TakeChatCommand
      BY <3>1 DEF TakeChatCommand, ChatRecord, Committing, Idle
    <3>2. CASE ReportUnconfigured \/ EndReply
      BY <3>2 DEF ReportUnconfigured, EndReply, ChatRecord, Committing, Idle
    <3>3. CASE AnnounceChat
      BY <3>3, <1>1, ChatMovesTo DEF AnnounceChat, Committing
    <3>4. CASE EndClassification
      BY <3>4, <1>1, ChatMovesTo DEF EndClassification, ChatRecord, Committing, Idle
    <3>5. CASE CheckReply \/ ShowReply \/ EndSpeech \/ EndChat \/ ReportChat
      <4>1. chat.pc # "wait"
        BY <3>5 DEF CheckReply, ShowReply, EndSpeech, EndChat, ReportChat
      <4>2. chat = [pc |-> chat.pc, gen |-> chat.gen, epoch |-> chat.epoch,
                    tts |-> chat.tts, text |-> chat.text, after |-> chat.after]
        BY <1>1, <4>1 DEF ChatRecord
      <4>3. \/ chat' = Idle
            \/ \E pc \in {"show", "speak", "end"} : chat' = [chat EXCEPT !.pc = pc]
            \/ chat' = [chat EXCEPT !.pc = "speak", !.after = "end"]
            \/ \E type \in {"CHAT_DONE", "CHAT_FAILED", "RATE_LIMITED"} :
                 chat' = [chat EXCEPT !.pc = "lockAnswer", !.after = type]
        BY <3>5 DEF CheckReply, ShowReply, EndSpeech, EndChat, ReportChat
      <4>4. CASE chat' = Idle
        BY <4>4 DEF ChatRecord, Committing, Idle
      <4>5. ASSUME NEW pc \in {"show", "speak", "end"}, chat' = [chat EXCEPT !.pc = pc]
            PROVE  ChatRecord' /\ chat'.pc \notin Committing
        BY <1>1, <4>1, <4>5, ChatMovesTo DEF ChatMoves, Committing
      <4>6. ASSUME NEW pc \in {"speak", "lockAnswer"}, NEW after,
                   chat' = [chat EXCEPT !.pc = pc, !.after = after]
            PROVE  ChatRecord' /\ chat'.pc \notin Committing
        <5>1. chat' = [pc |-> pc, gen |-> chat.gen, epoch |-> chat.epoch,
                       tts |-> chat.tts, text |-> chat.text, after |-> after]
          BY <4>2, <4>6
        <5>. QED  BY <5>1 DEF ChatRecord, Committing
      <4>. QED  BY <4>3, <4>4, <4>5, <4>6
    <3>6. CASE StreamDelta \/ PostToken
      BY <3>6, <1>1, ChatMovesTo DEF StreamDelta, PostToken, Committing
    <3>. QED  BY <1>2, <3>1, <3>2, <3>3, <3>4, <3>5, <3>6
  <2>. QED  BY <1>0, <2>1, <2>2, ChatOutside
<1>3. CASE LockForChat
  <2>1. chat.pc \in {"lockPending", "lockIntent", "lockAnswer"} /\ lock = "free"
    BY <1>3 DEF LockForChat
  <2>2. ~Doing("skipZero") /\ asr.pc # "commit"
    BY <2>1 DEF CommitInv, TodoShape, SectionShape
  <2>3. CASE IsCurrent(chat.gen) /\ lock' = "chat" /\ \E pc \in Committing : ChatMoves(pc)
    <3>1. ChatRecord' /\ chat'.gen = chat.gen
      BY <1>1, <2>1, <2>3, ChatMovesTo
    <3>. QED
      BY <1>0, <2>2, <2>3, <3>1 DEF CommitInv, TodoShape, Doing, AsrRecords, AsrLockRecord,
                                    SectionShape, IsCurrent
  <2>4. CASE chat' = Idle /\ UNCHANGED lock
    BY <1>0, <2>4, ChatOutside DEF ChatRecord, Idle, Committing
  <2>. QED
    BY <1>3, <2>1, <2>3, <2>4 DEF LockForChat, Committing
<1>4. CASE HandleIntent \/ CommitAnswer
  <2>1. chat.pc \in Committing /\ lock' = "free" /\ lock = "chat"
    BY <1>4 DEF HandleIntent, CommitAnswer, CommitInv, SectionShape, Committing
  <2>2. ~Doing("skipZero") /\ asr.pc # "commit"
    BY <2>1 DEF CommitInv, TodoShape, SectionShape
  <2>3. PICK pc \in {"answer", "classify", "report"} : ChatMoves(pc)
    BY <1>4 DEF HandleIntent, CommitAnswer
  <2>4. ChatRecord' /\ chat'.pc \notin Committing
    BY <1>1, <2>1, <2>3, ChatMovesTo DEF Committing
  <2>. QED
    BY <1>0, <2>2, <2>4 DEF CommitInv, TodoShape, Doing, AsrRecords, AsrLockRecord,
                            SectionShape
<1>. QED  BY <1>2, <1>3, <1>4 DEF ChatTask

LEMMA NextKeepsCommits == CommitInv /\ [Next]_vars => CommitInv'
<1>. SUFFICES ASSUME CommitInv, [Next]_vars PROVE CommitInv'
  OBVIOUS
<1>1. CASE AsrDeadline
  <2>1. UNCHANGED <<lock, gen, asr, chat>> /\ Handle(Event("TIMEOUT", gen), TRUE)
    BY <1>1 DEF AsrDeadline, TasksUnchanged
  <2>2. UNCHANGED todo \/ todo' \in Seq(PlainSteps)
    BY <2>1, WorkIsPlain DEF Handle
  <2>3. TodoShape'
    BY <2>1, <2>2, PlainTodo DEF CommitInv, TodoShape, Doing
  <2>. QED
    BY <2>1, <2>3 DEF CommitInv, ChatRecord, AsrRecords, AsrLockRecord, SectionShape,
                      IsCurrent, Committing
<1>2. CASE FactoryReset \/ LoseConfig
  BY <1>2, CommitStutter DEF FactoryReset, LoseConfig, Others
<1>3. CASE ButtonTask
  BY <1>3, CommitStutter DEF ButtonTask, Press, Release, HoldTooLong, ButtonPosts, LetGo, Others
<1>4. CASE AudioTask
  <2>1. UNCHANGED <<todo, lock, chat, asr, gen>>
    BY <1>4 DEF AudioTask, TakeAudioCommand, StopStale, StopEmpty, StopRecording, HandOver,
                ReportAudioFailure, Others, AudioFrame
  <2>. QED  BY <2>1, CommitStutter
<1>5. CASE NetTask
  <2>1. UNCHANGED <<todo, lock, chat, asr, gen>>
    BY <1>5 DEF NetTask, TakeNetCommand, EndConnect, ReportConnect, EraseConfig, ReportLoss,
                NetFrame
  <2>. QED  BY <2>1, CommitStutter
<1>6. CASE UNCHANGED vars
  BY <1>6, CommitStutter DEF vars
<1>. QED
  BY <1>1, <1>2, <1>3, <1>4, <1>5, <1>6, StateKeepsCommits, AsrKeepsCommits,
     ChatKeepsCommits DEF Next

\* The invariant of the commits holds in every reachable state.
THEOREM CommitsInductive == Spec => []CommitInv
BY CommitInit, NextKeepsCommits, PTL DEF Spec

\* No task commits a transcript, a local reply or an answer of an interaction
\* that is over, however late its request comes back and whenever the button
\* is pressed: the generation is looked at under the mutex it moves under.  (The
\* answer of a device intent is shown outside; the property excepts it.)
THEOREM LateResultsAreDropped == Spec => CommitsAreCurrent
<1>1. CommitInv /\ [Next]_vars =>
        [/\ transcript' \notin {0, transcript} => transcript' = gen
         /\ reply' # reply /\ reply'.kind # "none" => reply'.gen = gen
         /\ pet' \notin {0, pet} /\ chat.pc # "show" => pet' = gen]_vars
  <2>. SUFFICES ASSUME CommitInv, Next
                PROVE  /\ transcript' \notin {0, transcript} => transcript' = gen
                       /\ reply' # reply /\ reply'.kind # "none" => reply'.gen = gen
                       /\ pet' \notin {0, pet} /\ chat.pc # "show" => pet' = gen
    OBVIOUS
  <2>1. CASE StateTask \/ AsrDeadline
    <3>1. /\ transcript' \in {transcript, 0} /\ pet' \in {pet, 0}
          /\ reply' \in {reply, [kind |-> "none", gen |-> 0]}
      BY <2>1 DEF StateTask, AsrDeadline, ReceiveEvent, BumpGeneration, ResetQueues,
         CancelRequests, ClearTexts, CommandAudio, PostPrompt, ForgetIntent, OrderReset,
         LoadConfig, OrderConnect
    <3>2. reply' # reply => reply'.kind = "none"
      BY <3>1
    <3>. QED  BY <3>1, <3>2
  <2>2. CASE ButtonTask \/ FactoryReset \/ LoseConfig
    BY <2>2 DEF ButtonTask, Press, Release, HoldTooLong, ButtonPosts, LetGo, FactoryReset,
                LoseConfig, Others
  <2>3. CASE AudioTask
    BY <2>3 DEF AudioTask, TakeAudioCommand, StopStale, StopEmpty, StopRecording, HandOver,
                ReportAudioFailure, Others
  <2>4. CASE NetTask
    BY <2>4 DEF NetTask, TakeNetCommand, EndConnect, ReportConnect, EraseConfig, ReportLoss,
                NetFrame
  <2>5. CASE AsrTask
    <3>1. CASE CommitTranscript
      <4>1. asr.gen = gen
        BY <3>1 DEF CommitTranscript, CommitInv, SectionShape, IsCurrent
      <4>. QED  BY <3>1, <4>1 DEF CommitTranscript, LocalReply
    <3>2. CASE ~CommitTranscript
      <4>1. UNCHANGED <<transcript, reply, pet>>
        BY <2>5, <3>2 DEF AsrTask, TakeAsrCommand, AnnounceAsr, EndTranscription, LockForAsr,
                          ReportAsr
      <4>. QED  BY <4>1
    <3>. QED  BY <3>1, <3>2
  <2>6. CASE ChatTask
    <3>1. UNCHANGED <<transcript, reply>>
      BY <2>6 DEF ChatTask, TakeChatCommand, ReportUnconfigured, AnnounceChat, LockForChat,
         HandleIntent, EndClassification, CheckReply, ShowReply, EndSpeech, EndReply,
         StreamDelta, PostToken, EndChat, CommitAnswer, ReportChat, ChatFrame
    <3>2. CASE StreamDelta
      BY <3>1, <3>2 DEF StreamDelta, IsCurrent
    <3>3. CASE CommitAnswer
      <4>1. chat.gen = gen
        BY <3>3 DEF CommitAnswer, CommitInv, SectionShape, Committing, IsCurrent
      <4>. QED  BY <3>1, <3>3, <4>1 DEF CommitAnswer
    <3>4. CASE ShowReply
      BY <3>1, <3>4 DEF ShowReply
    <3>5. CASE ~StreamDelta /\ ~CommitAnswer /\ ~ShowReply
      <4>1. UNCHANGED pet
        BY <2>6, <3>5 DEF ChatTask, TakeChatCommand, ReportUnconfigured, AnnounceChat,
           LockForChat, HandleIntent, EndClassification, CheckReply, EndSpeech, EndReply,
           PostToken, EndChat, ReportChat
      <4>. QED  BY <3>1, <4>1
    <3>. QED  BY <3>2, <3>3, <3>4, <3>5
  <2>. QED  BY <2>1, <2>2, <2>3, <2>4, <2>5, <2>6 DEF Next
<1>2. Spec => [][/\ transcript' \notin {0, transcript} => transcript' = gen
                 /\ reply' # reply /\ reply'.kind # "none" => reply'.gen = gen
                 /\ pet' \notin {0, pet} /\ chat.pc # "show" => pet' = gen]_vars
  BY <1>1, CommitsInductive, PTL DEF Spec
<1>. QED  BY <1>2 DEF CommitsAreCurrent

----------------------------------------------------------------------------
\* The invariant behind the prompts: from the clearing of the texts on, what the
\* busy states find in them is their own, for only a new interaction moves the
\* generation, and one that leads to a busy state clears the texts afterwards.

Busy == {"RECORDING", "TRANSCRIBING", "ASR_JOB_PENDING"}

Has(q, step) == \E i \in DOMAIN q : q[i] = step

\* The generation does not move again after the last clearing on the list.
Guarded(q) == \A i \in DOMAIN q : q[i] \in {"bump", "skipZero"} =>
                \E j \in DOMAIN q : i < j /\ q[j] = "clearText"

TextsOwn == transcript \in {0, gen} /\ (reply.kind # "none" => reply.gen = gen)

OwnCommands ==
  {c \in [type : {"CLEAR", "PROMPT", "REPLY"}, gen : Generations, chat : Generations,
          tts : Generations, text : Generations] : c.type # "CLEAR" => c.text = c.gen}

CommandsOwn ==
  /\ chatq \in Seq(OwnCommands)
  /\ chat.pc # "wait" => chat.text = chat.gen

TextsGuarded ==
  /\ mach.state \in Busy => Guarded(todo)
  /\ mach.state \in Busy \/ Has(todo, "prompt") => Has(todo, "clearText") \/ TextsOwn
  /\ Has(todo, "prompt") => todo = <<"prompt">>

TextInv == CommandsOwn /\ TextsGuarded

\* The first step of a list done, or replaced by its second half.
LEMMA TailHas ==
  ASSUME NEW S, NEW q \in Seq(S), q # <<>>, NEW step
  PROVE  /\ Has(Tail(q), step) => Has(q, step)
         /\ Has(q, step) /\ Head(q) # step => Has(Tail(q), step)
         /\ Guarded(q) => Guarded(Tail(q))
         /\ Guarded(q) /\ Head(q) \in {"bump", "skipZero"} => Has(Tail(q), "clearText")
<1>1. /\ DOMAIN q = 1 .. Len(q) /\ Len(q) \in Nat \ {0} /\ Head(q) = q[1]
      /\ DOMAIN Tail(q) = 1 .. Len(q) - 1
      /\ \A i \in 1 .. Len(q) - 1 : Tail(q)[i] = q[i + 1]
  BY LenProperties, HeadTailProperties, EmptySeq
<1>2. \A j \in 2 .. Len(q) : j - 1 \in 1 .. Len(q) - 1 /\ Tail(q)[j - 1] = q[j]
  BY <1>1
<1>3. Has(Tail(q), step) => Has(q, step)
  BY <1>1 DEF Has
<1>4. ASSUME NEW s, Has(q, s), Head(q) # s PROVE Has(Tail(q), s)
  <2>1. PICK i \in 2 .. Len(q) : q[i] = s
    BY <1>1, <1>4 DEF Has
  <2>. QED  BY <1>1, <1>2, <2>1 DEF Has
<1>5. ASSUME Guarded(q) PROVE Guarded(Tail(q))
  <2>1. ASSUME NEW i \in 1 .. Len(q) - 1, Tail(q)[i] \in {"bump", "skipZero"}
        PROVE  \E j \in DOMAIN Tail(q) : i < j /\ Tail(q)[j] = "clearText"
    <3>1. PICK j \in 1 .. Len(q) : i + 1 < j /\ q[j] = "clearText"
      BY <1>1, <1>5, <2>1 DEF Guarded
    <3>2. j - 1 \in DOMAIN Tail(q) /\ i < j - 1 /\ Tail(q)[j - 1] = "clearText"
      <4>1. j \in 2 .. Len(q)
        BY <1>1, <3>1
      <4>. QED  BY <1>1, <1>2, <3>1, <4>1
    <3>. QED  BY <3>2
  <2>. QED  BY <1>1, <2>1 DEF Guarded
<1>6. ASSUME Guarded(q), Head(q) \in {"bump", "skipZero"} PROVE Has(Tail(q), "clearText")
  <2>1. PICK j \in 1 .. Len(q) : 1 < j /\ q[j] = "clearText"
    BY <1>1, <1>6 DEF Guarded
  <2>2. j \in 2 .. Len(q)
    BY <1>1, <2>1
  <2>. QED  BY <1>1, <1>2, <2>1, <2>2 DEF Has
<1>. QED  BY <1>3, <1>4, <1>5, <1>6

LEMMA ThenHas ==
  ASSUME NEW S, NEW q \in Seq(S), q # <<>>, NEW first \in S, NEW step
  PROVE  /\ Has(<<first>> \o Tail(q), step) <=> first = step \/ Has(Tail(q), step)
         /\ Guarded(q) /\ first \notin {"bump", "skipZero"} => Guarded(<<first>> \o Tail(q))
         /\ Guarded(q) /\ Head(q) = "bump" => Guarded(<<first>> \o Tail(q))
<1>. DEFINE r == <<first>> \o Tail(q)
<1>1. /\ DOMAIN q = 1 .. Len(q) /\ Len(q) \in Nat \ {0} /\ Head(q) = q[1]
      /\ DOMAIN Tail(q) = 1 .. Len(q) - 1 /\ Len(Tail(q)) = Len(q) - 1
      /\ Tail(q) \in Seq(S)
      /\ \A i \in 1 .. Len(q) - 1 : Tail(q)[i] = q[i + 1]
  BY LenProperties, HeadTailProperties, EmptySeq
<1>2. <<first>> \in Seq(S) /\ Len(<<first>>) = 1 /\ <<first>>[1] = first
  OBVIOUS
<1>3. /\ r \in Seq(S) /\ Len(r) = Len(q)
      /\ \A i \in 1 .. Len(q) : r[i] = IF i <= 1 THEN <<first>>[i] ELSE Tail(q)[i - 1]
  <2>. HIDE DEF r
  <2>1. r = <<first>> \o Tail(q)
    BY DEF r
  <2>. QED  BY <1>1, <1>2, <2>1, ConcatProperties
<1>4. DOMAIN r = 1 .. Len(q) /\ r[1] = first
  BY <1>1, <1>2, <1>3, LenProperties
<1>5. \A i \in 2 .. Len(q) : r[i] = q[i] /\ r[i] = Tail(q)[i - 1] /\ i - 1 \in 1 .. Len(q) - 1
  BY <1>1, <1>3
<1>. HIDE DEF r
<1>6. Has(r, step) <=> first = step \/ Has(Tail(q), step)
  <2>1. ASSUME Has(Tail(q), step) PROVE Has(r, step)
    <3>1. PICK i \in 1 .. Len(q) - 1 : Tail(q)[i] = step
      BY <1>1, <2>1 DEF Has
    <3>2. i + 1 \in 2 .. Len(q) /\ (i + 1) - 1 = i
      BY <1>1, <3>1
    <3>. QED  BY <1>4, <1>5, <3>1, <3>2 DEF Has
  <2>2. ASSUME first = step PROVE Has(r, step)
    BY <1>1, <1>4, <2>2 DEF Has
  <2>3. ASSUME Has(r, step), first # step PROVE Has(Tail(q), step)
    <3>1. PICK i \in 2 .. Len(q) : r[i] = step
      BY <1>1, <1>4, <2>3 DEF Has
    <3>. QED  BY <1>1, <1>5, <3>1 DEF Has
  <2>. QED  BY <2>1, <2>2, <2>3
<1>7. ASSUME Guarded(q), first \notin {"bump", "skipZero"} \/ Head(q) = "bump"
      PROVE  Guarded(r)
  <2>1. ASSUME NEW i \in 1 .. Len(q), r[i] \in {"bump", "skipZero"}
        PROVE  q[i] \in {"bump", "skipZero"}
    BY <1>1, <1>4, <1>5, <1>7, <2>1
  <2>2. \A j \in 1 .. Len(q) : 1 < j => r[j] = q[j]
    BY <1>5
  <2>. QED  BY <1>1, <1>4, <2>1, <2>2, <1>7 DEF Guarded
<1>. QED  BY <1>6, <1>7 DEF r

LEMMA TextStutter ==
  TextInv /\ UNCHANGED <<mach, todo, gen, transcript, reply, chatq, chat>> => TextInv'
BY DEF TextInv, CommandsOwn, TextsGuarded, TextsOwn

LEMMA TextInit == Init => TextInv
<1>. SUFFICES ASSUME Init PROVE TextInv
  OBVIOUS
<1>1. /\ todo = <<>> /\ chatq = <<>> /\ chat.pc = "wait"
      /\ mach.state \in {"BOOT", "IDLE"}
  BY DEF Init, InitWith, Idle
<1>2. chatq \in Seq(OwnCommands)
  BY <1>1
<1>. QED  BY <1>1, <1>2 DEF TextInv, CommandsOwn, TextsGuarded, Busy, Has, Guarded

\* Where an accepted event leads, as far as the texts go.
LEMMA Leads ==
  ASSUME NEW type, NEW m \in Dispatch(mach, type)
  PROVE  \/ m.state = "RECORDING" /\ mach.state # "RECORDING" /\ type = "PRESS_START"
         \/ /\ m.state = "TRANSCRIBING" /\ mach.state = "RECORDING"
            /\ type = "PRESS_END"
         \/ /\ m.state \in {"TRANSCRIBING", "ASR_JOB_PENDING"}
            /\ mach.state = "TRANSCRIBING"
            /\ type \in {"ASR_STARTED", "ASR_JOB_SUBMITTED"}
         \/ /\ m.state = "THINKING" /\ type = "ASR_DONE"
            /\ mach.state \in {"TRANSCRIBING", "ASR_JOB_PENDING"}
         \/ /\ m.state \notin Busy
            /\ ~(mach.state # m.state /\ m.state = "THINKING" /\ type = "ASR_DONE")
<1>1. CASE type \in Errors \cup {"CANCEL", "FACTORY_RESET"}
  <2>1. m.state \in {"IDLE", "CONFIG_CHECK", "ERROR"}
    BY <1>1 DEF Dispatch, Errors
  <2>. QED  BY <2>1 DEF Busy
<1>2. CASE /\ type \notin Errors \cup {"CANCEL", "FACTORY_RESET"}
           /\ mach.state = "ERROR" /\ type = "PRESS_START" /\ mach.error \in Retryable
  BY <1>2 DEF Dispatch
<1>3. CASE /\ type \notin Errors \cup {"CANCEL", "FACTORY_RESET"}
           /\ ~(mach.state = "ERROR" /\ type = "PRESS_START" /\ mach.error \in Retryable)
  <2>1. PICK v \in Moves : v[1] = mach.state /\ v[2] = type /\ m.state = v[3]
    BY <1>3 DEF Dispatch
  <2>. QED  BY <2>1 DEF Moves, Busy
<1>. QED  BY <1>1, <1>2, <1>3

\* A new recording: the texts are cleared after the generation has moved.
LEMMA StartWork ==
  ASSUME NEW from, from # "RECORDING"
  PROVE  LET q == Work(from, "RECORDING", "PRESS_START", FALSE) IN
         Guarded(q) /\ Has(q, "clearText") /\ ~Has(q, "prompt")
<1>. DEFINE r == NewInteraction \o <<"clearText", "start">>
            q == Work(from, "RECORDING", "PRESS_START", FALSE)
<1>1. /\ NewInteraction \in Seq(PlainSteps) /\ <<"clearText", "start">> \in Seq(PlainSteps)
      /\ Len(NewInteraction) = 7 /\ Len(<<"clearText", "start">>) = 2
      /\ \A i \in 1 .. 7 : NewInteraction[i] # "prompt"
  BY DEF NewInteraction, PlainSteps
<1>2. /\ r \in Seq(PlainSteps) /\ Len(r) = 9
      /\ \A i \in 1 .. 9 : r[i] = IF i <= 7 THEN NewInteraction[i]
                                           ELSE <<"clearText", "start">>[i - 7]
  <2>. DEFINE tail == <<"clearText", "start">>
  <2>1. tail \in Seq(PlainSteps) /\ Len(tail) = 2
    BY <1>1
  <2>. HIDE DEF tail
  <2>2. /\ NewInteraction \o tail \in Seq(PlainSteps) /\ Len(NewInteraction \o tail) = 9
        /\ \A i \in 1 .. 9 : (NewInteraction \o tail)[i] = IF i <= 7 THEN NewInteraction[i]
                                                               ELSE tail[i - 7]
    <3>1. NewInteraction \in Seq(PlainSteps) /\ Len(NewInteraction) = 7
      BY <1>1
    <3>2. /\ NewInteraction \o tail \in Seq(PlainSteps)
          /\ Len(NewInteraction \o tail) = Len(NewInteraction) + Len(tail)
      BY <2>1, <3>1, ConcatProperties
    <3>3. \A i \in 1 .. Len(NewInteraction) + Len(tail) :
            (NewInteraction \o tail)[i] = IF i <= Len(NewInteraction) THEN NewInteraction[i]
                                          ELSE tail[i - Len(NewInteraction)]
      BY <2>1, <3>1, ConcatProperties
    <3>4. Len(NewInteraction) + Len(tail) = 9
      BY <2>1, <3>1
    <3>. QED  BY <2>1, <3>1, <3>2, <3>3, <3>4
  <2>. QED  BY <2>2 DEF tail
<1>3. q = r
  <2>1. q = r \o <<>> \o <<>> \o <<>>
    BY DEF Work
  <2>. HIDE DEF r
  <2>2. r \o <<>> = r
    BY <1>2, ConcatEmptySeq
  <2>. QED  BY <2>1, <2>2
<1>. HIDE DEF r
<1>4. DOMAIN r = 1 .. 9 /\ r[8] = "clearText" /\ r[9] = "start"
  BY <1>2
<1>5. Guarded(r)
  <2>1. \A i \in 1 .. 9 : r[i] \in {"bump", "skipZero"} => i < 8
    BY <1>4
  <2>. QED  BY <1>4, <2>1 DEF Guarded
<1>6. Has(r, "clearText")
  BY <1>4 DEF Has
<1>7. ~Has(r, "prompt")
  BY <1>1, <1>2, <1>4 DEF Has
<1>. QED  BY <1>3, <1>5, <1>6, <1>7

\* The transitions within the recording and the transcription.
LEMMA BusyWork ==
  /\ Work("RECORDING", "TRANSCRIBING", "PRESS_END", FALSE) = <<"stop">>
  /\ \A type \in {"ASR_STARTED", "ASR_JOB_SUBMITTED"} :
       \A to \in {"TRANSCRIBING", "ASR_JOB_PENDING"} :
         Work("TRANSCRIBING", to, type, FALSE) = <<>>
  /\ \A from \in {"TRANSCRIBING", "ASR_JOB_PENDING"} :
       Work(from, "THINKING", "ASR_DONE", FALSE) = <<"prompt">>
<1>1. /\ <<"stop">> \o <<>> = <<"stop">> /\ <<>> \o <<"prompt">> = <<"prompt">>
      /\ <<"prompt">> \o <<>> = <<"prompt">> /\ <<>> \o <<>> = <<>>
  <2>1. <<"stop">> \in Seq({"stop"}) /\ <<"prompt">> \in Seq({"prompt"})
    OBVIOUS
  <2>2. <<"stop">> \o <<>> = <<"stop">>
    BY <2>1, ConcatEmptySeq
  <2>3. <<>> \o <<"prompt">> = <<"prompt">> /\ <<"prompt">> \o <<>> = <<"prompt">>
    BY <2>1, ConcatEmptySeq
  <2>4. <<>> \o <<>> = <<>>
    BY EmptySeq, ConcatEmptySeq
  <2>. QED  BY <2>2, <2>3, <2>4
<1>. QED  BY <1>1 DEF Work

LEMMA HandleKeepsTexts ==
  ASSUME TextsGuarded, todo = <<>>, NEW e, NEW expired \in BOOLEAN,
         expired => e.type = "TIMEOUT",
         Handle(e, expired), UNCHANGED <<gen, transcript, reply>>
  PROVE  TextsGuarded'
<1>1. CASE UNCHANGED <<mach, todo>>
  BY <1>1 DEF TextsGuarded, TextsOwn
<1>2. CASE \E m \in Dispatch(mach, e.type) :
             mach' = m /\ todo' = Work(mach.state, m.state, e.type, expired)
  <2>1. PICK m \in Dispatch(mach, e.type) :
               mach' = m /\ todo' = Work(mach.state, m.state, e.type, expired)
    BY <1>2
  <2>2. mach'.state = m.state
    BY <2>1
  <2>3. mach.state \in Busy => TextsOwn
    BY DEF TextsGuarded, Has
  <2>4. CASE m.state = "RECORDING" /\ mach.state # "RECORDING" /\ e.type = "PRESS_START"
    <3>1. expired = FALSE
      BY <2>4
    <3>. QED  BY <2>1, <2>2, <2>4, <3>1, StartWork DEF TextsGuarded
  <2>5. CASE m.state = "TRANSCRIBING" /\ mach.state = "RECORDING" /\ e.type = "PRESS_END"
    <3>1. todo' = <<"stop">> /\ mach.state \in Busy
      BY <2>1, <2>5, BusyWork DEF Busy
    <3>2. ~Has(todo', "prompt") /\ Guarded(todo') /\ TextsOwn'
      BY <2>3, <3>1 DEF Has, Guarded, TextsOwn
    <3>. QED  BY <3>2 DEF TextsGuarded
  <2>6. CASE /\ m.state \in {"TRANSCRIBING", "ASR_JOB_PENDING"} /\ mach.state = "TRANSCRIBING"
             /\ e.type \in {"ASR_STARTED", "ASR_JOB_SUBMITTED"}
    <3>1. todo' = <<>> /\ mach.state \in Busy
      BY <2>1, <2>6, BusyWork DEF Busy
    <3>2. ~Has(todo', "prompt") /\ Guarded(todo') /\ TextsOwn'
      BY <2>3, <3>1 DEF Has, Guarded, TextsOwn
    <3>. QED  BY <3>2 DEF TextsGuarded
  <2>7. CASE /\ m.state = "THINKING" /\ e.type = "ASR_DONE"
             /\ mach.state \in {"TRANSCRIBING", "ASR_JOB_PENDING"}
    <3>1. todo' = <<"prompt">> /\ mach.state \in Busy /\ m.state \notin Busy
      BY <2>1, <2>7, BusyWork DEF Busy
    <3>2. TextsOwn'
      BY <2>3, <3>1 DEF TextsOwn
    <3>. QED  BY <2>2, <3>1, <3>2 DEF TextsGuarded
  <2>8. CASE /\ m.state \notin Busy
             /\ ~(mach.state # m.state /\ m.state = "THINKING" /\ e.type = "ASR_DONE")
    <3>1. todo' \in Seq(PlainSteps \ {"prompt"})
      <4>. DEFINE S == PlainSteps \ {"prompt"}
      <4>1. PlainSteps \ {"prompt"} \subseteq S
        OBVIOUS
      <4>. HIDE DEF S
      <4>2. todo' \in Seq(S)
        BY <2>1, <2>8, <4>1, WorkWithin
      <4>. QED  BY <4>2 DEF S
    <3>2. ~Has(todo', "prompt")
      BY <3>1 DEF Has
    <3>. QED  BY <2>2, <2>8, <3>2 DEF TextsGuarded
  <2>. QED  BY <2>4, <2>5, <2>6, <2>7, <2>8, Leads
<1>. QED  BY <1>1, <1>2 DEF Handle

\* A step done that neither moves the generation nor touches the texts, or one
\* half of a cancellation.
LEMMA PlainStepKeepsTexts ==
  ASSUME TextsGuarded, TodoShape, todo # <<>>,
         Head(todo) \notin {"clearText", "prompt", "bump", "skipZero"},
         Done \/ \E step \in {"restoreAsr", "restoreChat", "restoreTts"} : Then(step),
         UNCHANGED <<mach, gen, transcript, reply>>
  PROVE  TextsGuarded'
<1>1. todo \in Seq(Steps)
  BY DEF TodoShape
<1>2. ~Has(todo, "prompt")
  <2>1. Has(todo, "prompt") => Head(todo) = "prompt"
    BY DEF TextsGuarded
  <2>. QED  BY <2>1
<1>3. /\ ~Has(Tail(todo), "prompt")
      /\ Has(todo, "clearText") => Has(Tail(todo), "clearText")
      /\ Guarded(todo) => Guarded(Tail(todo))
  BY <1>1, <1>2, TailHas
<1>4. /\ ~Has(todo', "prompt")
      /\ Has(todo, "clearText") => Has(todo', "clearText")
      /\ Guarded(todo) => Guarded(todo')
  <2>1. CASE Done
    BY <1>3, <2>1 DEF Done
  <2>2. ASSUME NEW step \in {"restoreAsr", "restoreChat", "restoreTts"}, Then(step)
        PROVE  /\ ~Has(todo', "prompt")
               /\ Has(todo, "clearText") => Has(todo', "clearText")
               /\ Guarded(todo) => Guarded(todo')
    <3>1. step \in Steps /\ step \notin {"bump", "skipZero", "prompt", "clearText"}
      BY DEF Steps
    <3>2. todo' = <<step>> \o Tail(todo)
      BY <2>2 DEF Then
    <3>. QED  BY <1>1, <1>3, <3>1, <3>2, ThenHas
  <2>. QED  BY <2>1, <2>2
<1>5. TextsOwn => TextsOwn'
  BY DEF TextsOwn
<1>. QED  BY <1>4, <1>5 DEF TextsGuarded

\* Moving the generation needs a clearing to come when the state is busy.
LEMMA BumpKeepsTexts ==
  ASSUME TextsGuarded, TodoShape, BumpGeneration
  PROVE  TextsGuarded'
<1>1. /\ todo # <<>> /\ todo \in Seq(Steps) /\ Head(todo) \in {"bump", "skipZero"}
      /\ UNCHANGED mach
  BY DEF BumpGeneration, Doing, TodoShape
<1>2. ~Has(todo, "prompt")
  <2>1. Has(todo, "prompt") => Head(todo) = "prompt"
    BY DEF TextsGuarded
  <2>. QED  BY <1>1, <2>1
<1>3. /\ ~Has(Tail(todo), "prompt")
      /\ Guarded(todo) => Has(Tail(todo), "clearText") /\ Guarded(Tail(todo))
  BY <1>1, <1>2, TailHas
<1>4. CASE Done
  BY <1>1, <1>3, <1>4 DEF Done, TextsGuarded
<1>5. CASE Head(todo) = "bump" /\ Then("skipZero")
  <2>1. "skipZero" \in Steps /\ todo' = <<"skipZero">> \o Tail(todo)
    BY <1>5 DEF Steps, Then
  <2>2. /\ ~Has(todo', "prompt")
        /\ Guarded(todo) => Has(todo', "clearText") /\ Guarded(todo')
    BY <1>1, <1>3, <1>5, <2>1, ThenHas
  <2>. QED  BY <1>1, <2>2 DEF TextsGuarded
<1>. QED  BY <1>4, <1>5 DEF BumpGeneration, Doing

\* What is appended to the chat queue is own.
LEMMA PostsOwn ==
  ASSUME BufferInv, CommandsOwn, UNCHANGED chat, PostClearIntent
  PROVE  CommandsOwn'
<1>1. [type |-> "CLEAR", gen |-> gen, chat |-> 0, tts |-> 0, text |-> 0] \in OwnCommands
  BY WrapAssumption DEF BufferInv, CountersTyped, OwnCommands, Generations
<1>2. chatq' \in Seq(OwnCommands)
  BY <1>1 DEF PostClearIntent, CommandsOwn
<1>. QED  BY <1>2 DEF CommandsOwn

LEMMA PromptKeepsTexts ==
  ASSUME BufferInv, TodoShape, TextInv, PostPrompt
  PROVE  TextInv'
<1>1. /\ todo # <<>> /\ Head(todo) = "prompt" /\ Done
      /\ UNCHANGED <<mach, gen, epoch, chat>>
      /\ reply' = [kind |-> "none", gen |-> 0] /\ transcript' = 0
  BY DEF PostPrompt, Doing, TasksUnchanged
<1>2. Has(todo, "prompt")
  <2>1. 1 \in DOMAIN todo /\ todo[1] = "prompt"
    BY <1>1 DEF TodoShape
  <2>. QED  BY <2>1 DEF Has
<1>3. todo = <<"prompt">>
  BY <1>2 DEF TextInv, TextsGuarded
<1>4. TextsOwn
  <2>1. ~Has(todo, "clearText")
    BY <1>3 DEF Has
  <2>. QED  BY <1>2, <2>1 DEF TextInv, TextsGuarded
<1>5. todo' = <<>>
  BY <1>1, <1>3 DEF Done
<1>6. TextsGuarded'
  BY <1>1, <1>5 DEF TextsGuarded, TextsOwn, Has, Guarded
<1>7. chatq' \in Seq(OwnCommands)
  <2>0. chatq \in Seq(OwnCommands)
    BY DEF TextInv, CommandsOwn
  <2>1. ASSUME NEW type \in {"PROMPT", "REPLY"}
        PROVE  ChatCommand(type, gen) \in OwnCommands
    <3>1. gen \in Generations /\ epoch["chat"] \in Generations /\ epoch["tts"] \in Generations
      BY DEF BufferInv, CountersTyped, Clients
    <3>. QED  BY <3>1 DEF ChatCommand, OwnCommands
  <2>2. CASE reply.kind = "visual"
    BY <2>0, <2>2 DEF PostPrompt
  <2>3. CASE reply.kind = "spoken"
    <3>1. reply.gen = gen
      BY <1>4, <2>3 DEF TextsOwn
    <3>2. chatq' \in {chatq, Append(chatq, ChatCommand("REPLY", gen))}
      BY <2>3, <3>1 DEF PostPrompt
    <3>. QED  BY <2>0, <2>1, <3>2
  <2>4. CASE reply.kind \notin {"visual", "spoken"}
    <3>1. \/ chatq' = chatq
          \/ /\ ChatCommand("PROMPT", transcript).text # 0
             /\ chatq' = Append(chatq, ChatCommand("PROMPT", transcript))
      BY <2>4 DEF PostPrompt
    <3>2. ChatCommand("PROMPT", transcript).text = transcript
      BY DEF ChatCommand
    <3>3. chatq' = chatq \/ chatq' = Append(chatq, ChatCommand("PROMPT", gen))
      BY <1>4, <3>1, <3>2 DEF TextsOwn
    <3>. QED  BY <2>0, <2>1, <3>3
  <2>. QED  BY <2>2, <2>3, <2>4
<1>. QED  BY <1>1, <1>6, <1>7 DEF TextInv, CommandsOwn

LEMMA StateKeepsTexts == BufferInv /\ CommitInv /\ TextInv /\ StateTask => TextInv'
<1>. SUFFICES ASSUME BufferInv, CommitInv, TextInv, StateTask PROVE TextInv'
  OBVIOUS
<1>0. TodoShape /\ TextsGuarded /\ CommandsOwn
  BY DEF CommitInv, TextInv
<1>1. CASE ReceiveEvent
  <2>1. TextsGuarded'
    <3>1. /\ todo = <<>> /\ Handle(Head(appq), FALSE)
          /\ UNCHANGED <<gen, transcript, reply>>
      BY <1>1 DEF ReceiveEvent
    <3>. QED  BY <1>0, <3>1, HandleKeepsTexts
  <2>2. UNCHANGED <<chatq, chat>>
    BY <1>1 DEF ReceiveEvent, TasksUnchanged
  <2>. QED  BY <1>0, <2>1, <2>2 DEF TextInv, CommandsOwn
<1>2. CASE BumpGeneration
  <2>1. UNCHANGED <<chatq, chat>>
    BY <1>2 DEF BumpGeneration, TasksUnchanged
  <2>. QED  BY <1>0, <1>2, <2>1, BumpKeepsTexts DEF TextInv, CommandsOwn
<1>3. CASE ClearTexts
  <2>1. /\ todo # <<>> /\ Head(todo) = "clearText" /\ Done
        /\ transcript' = 0 /\ reply' = [kind |-> "none", gen |-> 0]
        /\ UNCHANGED <<chatq, chat, mach, gen>>
    BY <1>3 DEF ClearTexts, Doing, TasksUnchanged
  <2>2. TextsOwn'
    BY <2>1 DEF TextsOwn
  <2>3. ~Has(todo, "prompt")
    BY <1>0, <2>1 DEF TextsGuarded
  <2>4. todo \in Seq(Steps) /\ todo' = Tail(todo)
    BY <1>0, <2>1 DEF TodoShape, Done
  <2>5. ~Has(todo', "prompt") /\ (Guarded(todo) => Guarded(todo'))
    BY <2>1, <2>3, <2>4, TailHas
  <2>6. TextsGuarded'
    BY <1>0, <2>1, <2>2, <2>5 DEF TextsGuarded
  <2>. QED  BY <1>0, <2>1, <2>6 DEF TextInv, CommandsOwn
<1>4. CASE PostPrompt
  BY <1>0, <1>4, PromptKeepsTexts
<1>5. CASE \/ ResetQueues \/ \E client \in DOMAIN CancelStep : CancelRequests(client)
           \/ CommandAudio \/ ForgetIntent \/ OrderReset \/ LoadConfig \/ OrderConnect
  <2>1. TextsGuarded'
    <3>1. /\ todo # <<>> /\ Head(todo) \notin {"clearText", "prompt", "bump", "skipZero"}
          /\ UNCHANGED <<mach, gen, transcript, reply>>
      BY <1>5 DEF ResetQueues, CancelRequests, CancelStep, RestoreStep, CommandAudio,
         ForgetIntent, OrderReset, LoadConfig, OrderConnect, Doing
    <3>2. Done \/ \E step \in {"restoreAsr", "restoreChat", "restoreTts"} : Then(step)
      BY <1>5 DEF ResetQueues, CancelRequests, CancelStep, RestoreStep, CommandAudio,
         ForgetIntent, OrderReset, LoadConfig, OrderConnect
    <3>. QED  BY <1>0, <3>1, <3>2, PlainStepKeepsTexts
  <2>2. CommandsOwn'
    <3>1. UNCHANGED chat
      BY <1>5 DEF ResetQueues, CancelRequests, CommandAudio, ForgetIntent, OrderReset,
         LoadConfig, OrderConnect, TasksUnchanged
    <3>2. \/ ForgetIntent
          \/ chatq' = <<>>
          \/ chatq' = chatq
      BY <1>5 DEF ResetQueues, CancelRequests, CommandAudio, OrderReset, LoadConfig,
         OrderConnect
    <3>3. CASE ForgetIntent
      BY <1>0, <3>1, <3>3, PostsOwn DEF ForgetIntent
    <3>4. CASE chatq' = <<>> \/ chatq' = chatq
      <4>1. chatq' \in Seq(OwnCommands)
        BY <1>0, <3>4, EmptySeq DEF CommandsOwn
      <4>. QED  BY <1>0, <3>1, <4>1 DEF CommandsOwn
    <3>. QED  BY <3>2, <3>3, <3>4
  <2>. QED  BY <2>1, <2>2 DEF TextInv
<1>. QED  BY <1>1, <1>2, <1>3, <1>4, <1>5 DEF StateTask

LEMMA AsrKeepsTexts == BufferInv /\ CommitInv /\ TextInv /\ AsrTask => TextInv'
<1>. SUFFICES ASSUME BufferInv, CommitInv, TextInv, AsrTask PROVE TextInv'
  OBVIOUS
<1>0. UNCHANGED <<mach, todo, gen, chat>>
  BY DEF AsrTask, TakeAsrCommand, AnnounceAsr, EndTranscription, LockForAsr,
         CommitTranscript, ReportAsr, AsrFrame
<1>1. CASE TakeAsrCommand \/ AnnounceAsr \/ EndTranscription \/ LockForAsr
  <2>1. UNCHANGED <<transcript, reply, chatq>>
    BY <1>1 DEF TakeAsrCommand, AnnounceAsr, EndTranscription, LockForAsr
  <2>. QED  BY <1>0, <2>1, TextStutter
<1>2. CASE CommitTranscript
  <2>1. asr.gen = gen
    BY <1>2 DEF CommitTranscript, CommitInv, SectionShape, IsCurrent
  <2>2. TextsOwn => TextsOwn'
    BY <1>0, <1>2, <2>1 DEF CommitTranscript, LocalReply, TextsOwn
  <2>3. UNCHANGED chatq
    BY <1>2 DEF CommitTranscript
  <2>. QED  BY <1>0, <2>2, <2>3 DEF TextInv, CommandsOwn, TextsGuarded
<1>3. CASE ReportAsr
  <2>1. UNCHANGED <<transcript, reply>> /\ (PostClearIntent \/ UNCHANGED chatq)
    BY <1>3 DEF ReportAsr
  <2>2. CommandsOwn'
    BY <1>0, <2>1, PostsOwn DEF TextInv, CommandsOwn
  <2>. QED  BY <1>0, <2>1, <2>2 DEF TextInv, TextsGuarded, TextsOwn
<1>. QED  BY <1>1, <1>2, <1>3 DEF AsrTask

LEMMA ChatKeepsTexts == CommitInv /\ TextInv /\ ChatTask => TextInv'
<1>. SUFFICES ASSUME CommitInv, TextInv, ChatTask PROVE TextInv'
  OBVIOUS
<1>0. UNCHANGED <<mach, todo, gen, transcript, reply>>
  BY DEF ChatTask, TakeChatCommand, ReportUnconfigured, AnnounceChat, LockForChat,
         HandleIntent, EndClassification, CheckReply, ShowReply, EndSpeech, EndReply,
         StreamDelta, PostToken, EndChat, CommitAnswer, ReportChat, ChatFrame
<1>1. chatq' \in Seq(OwnCommands) /\ (chat'.pc # "wait" => chat'.text = chat'.gen)
  <2>1. CASE TakeChatCommand
    <3>1. chatq \in Seq(OwnCommands) /\ chatq # <<>> /\ chatq' = Tail(chatq)
      BY <2>1 DEF TakeChatCommand, TextInv, CommandsOwn
    <3>2. chatq' \in Seq(OwnCommands) /\ Head(chatq) \in OwnCommands
      BY <3>1
    <3>3. Head(chatq).type # "CLEAR" => Head(chatq).text = Head(chatq).gen
      BY <3>2 DEF OwnCommands
    <3>4. chat'.pc # "wait" => /\ Head(chatq).type # "CLEAR"
                               /\ chat'.text = Head(chatq).text
                               /\ chat'.gen = Head(chatq).gen
      BY <2>1 DEF TakeChatCommand, Idle
    <3>. QED  BY <3>2, <3>3, <3>4
  <2>2. CASE ~TakeChatCommand
    <3>1. UNCHANGED chatq /\ chat.pc # "wait"
      BY <2>2 DEF ChatTask, ReportUnconfigured, AnnounceChat, LockForChat,
         HandleIntent, EndClassification, CheckReply, ShowReply, EndSpeech, EndReply,
         StreamDelta, PostToken, EndChat, CommitAnswer, ReportChat
    <3>2. chat = [pc |-> chat.pc, gen |-> chat.gen, epoch |-> chat.epoch,
                  tts |-> chat.tts, text |-> chat.text, after |-> chat.after]
      BY <3>1 DEF CommitInv, ChatRecord
    <3>3. \/ chat' = Idle
          \/ \E pc : chat' = [chat EXCEPT !.pc = pc]
          \/ \E pc, after : chat' = [chat EXCEPT !.pc = pc, !.after = after]
      BY <2>2 DEF ChatTask, ReportUnconfigured, AnnounceChat, LockForChat,
         HandleIntent, EndClassification, CheckReply, ShowReply, EndSpeech, EndReply,
         StreamDelta, PostToken, EndChat, CommitAnswer, ReportChat, ChatMoves
    <3>4. CASE chat' = Idle
      BY <3>1, <3>4 DEF TextInv, CommandsOwn, Idle
    <3>5. ASSUME NEW pc, chat' = [chat EXCEPT !.pc = pc]
          PROVE  chat'.text = chat.text /\ chat'.gen = chat.gen
      BY <3>2, <3>5
    <3>6. ASSUME NEW pc, NEW after, chat' = [chat EXCEPT !.pc = pc, !.after = after]
          PROVE  chat'.text = chat.text /\ chat'.gen = chat.gen
      BY <3>2, <3>6
    <3>. QED  BY <3>1, <3>3, <3>4, <3>5, <3>6 DEF TextInv, CommandsOwn
  <2>. QED  BY <2>1, <2>2
<1>. QED  BY <1>0, <1>1 DEF TextInv, CommandsOwn, TextsGuarded, TextsOwn

LEMMA NextKeepsTexts == BufferInv /\ CommitInv /\ TextInv /\ [Next]_vars => TextInv'
<1>. SUFFICES ASSUME BufferInv, CommitInv, TextInv, [Next]_vars PROVE TextInv'
  OBVIOUS
<1>1. CASE AsrDeadline
  <2>1. /\ todo = <<>> /\ Handle(Event("TIMEOUT", gen), TRUE)
        /\ UNCHANGED <<gen, transcript, reply, chatq, chat>>
    BY <1>1 DEF AsrDeadline, TasksUnchanged
  <2>2. Event("TIMEOUT", gen).type = "TIMEOUT" /\ TextsGuarded
    BY DEF Event, TextInv
  <2>3. TextsGuarded'
    BY <2>1, <2>2, HandleKeepsTexts
  <2>. QED  BY <2>1, <2>3 DEF TextInv, CommandsOwn
<1>2. CASE ButtonTask \/ FactoryReset \/ LoseConfig
  BY <1>2, TextStutter DEF FactoryReset, LoseConfig, ButtonTask, Press, Release, HoldTooLong,
                           ButtonPosts, LetGo, Others
<1>3. CASE AudioTask
  <2>1. UNCHANGED <<mach, todo, gen, transcript, reply, chatq, chat>>
    BY <1>3 DEF AudioTask, TakeAudioCommand, StopStale, StopEmpty, StopRecording, HandOver,
                ReportAudioFailure, Others, AudioFrame
  <2>. QED  BY <2>1, TextStutter
<1>4. CASE NetTask
  <2>1. UNCHANGED <<mach, todo, gen, transcript, reply, chatq, chat>>
    BY <1>4 DEF NetTask, TakeNetCommand, EndConnect, ReportConnect, EraseConfig, ReportLoss,
                NetFrame
  <2>. QED  BY <2>1, TextStutter
<1>5. CASE UNCHANGED vars
  BY <1>5, TextStutter DEF vars
<1>. QED
  BY <1>1, <1>2, <1>3, <1>4, <1>5, StateKeepsTexts, AsrKeepsTexts, ChatKeepsTexts DEF Next

\* The invariant of the texts holds in every reachable state.
THEOREM TextsInductive == Spec => []TextInv
BY TextInit, NextKeepsTexts, BuffersInductive, CommitsInductive, PTL DEF Spec

\* Every prompt and every local reply that is queued, and every one the chat
\* task works on, carries the text of its own interaction.
THEOREM PromptsAreOwn == Spec => []PromptIsOwn
<1>1. TextInv => PromptIsOwn
  <2>. SUFFICES ASSUME TextInv PROVE PromptIsOwn
    OBVIOUS
  <2>1. \A i \in DOMAIN chatq : chatq[i] \in OwnCommands
    BY DEF TextInv, CommandsOwn
  <2>2. \A i \in DOMAIN chatq : chatq[i].type # "CLEAR" => chatq[i].text = chatq[i].gen
    BY <2>1 DEF OwnCommands
  <2>. QED  BY <2>2 DEF TextInv, CommandsOwn, PromptIsOwn
<1>. QED  BY <1>1, TextsInductive, PTL

----------------------------------------------------------------------------
\* What a queue or the list holds, whatever the order.

Elements(q) == {q[i] : i \in DOMAIN q}

LEMMA ElementsOf ==
  ASSUME NEW S, NEW q \in Seq(S)
  PROVE  /\ Elements(q) \subseteq S
         /\ \A e \in S : Elements(Append(q, e)) = Elements(q) \cup {e}
         /\ q # <<>> => /\ Head(q) \in Elements(q)
                        /\ Elements(q) = {Head(q)} \cup Elements(Tail(q))
<1>1. /\ DOMAIN q = 1 .. Len(q) /\ Len(q) \in Nat
      /\ \A i \in 1 .. Len(q) : q[i] \in S
  BY LenProperties
<1>2. Elements(q) \subseteq S
  BY <1>1 DEF Elements
<1>3. ASSUME NEW e \in S PROVE Elements(Append(q, e)) = Elements(q) \cup {e}
  <2>1. /\ DOMAIN Append(q, e) = 1 .. Len(q) + 1
        /\ \A i \in 1 .. Len(q) : Append(q, e)[i] = q[i]
        /\ Append(q, e)[Len(q) + 1] = e
    BY <1>1, AppendProperties
  <2>2. \A i \in 1 .. Len(q) + 1 : i \in 1 .. Len(q) \/ i = Len(q) + 1
    BY <1>1
  <2>3. 1 .. Len(q) \subseteq 1 .. Len(q) + 1 /\ Len(q) + 1 \in 1 .. Len(q) + 1
    BY <1>1
  <2>. QED  BY <1>1, <2>1, <2>2, <2>3 DEF Elements
<1>4. ASSUME q # <<>>
      PROVE  Head(q) \in Elements(q) /\ Elements(q) = {Head(q)} \cup Elements(Tail(q))
  <2>1. /\ Len(q) \in Nat \ {0} /\ Head(q) = q[1] /\ DOMAIN Tail(q) = 1 .. Len(q) - 1
        /\ \A i \in 1 .. Len(q) - 1 : Tail(q)[i] = q[i + 1]
    BY <1>4, LenProperties, HeadTailProperties, EmptySeq
  <2>2. \A j \in 1 .. Len(q) : j = 1 \/ (j - 1 \in 1 .. Len(q) - 1 /\ Tail(q)[j - 1] = q[j])
    BY <2>1
  <2>3. \A i \in 1 .. Len(q) - 1 : i + 1 \in 1 .. Len(q)
    BY <2>1
  <2>4. Head(q) \in Elements(q)
    BY <1>1, <2>1 DEF Elements
  <2>5. ASSUME NEW x \in Elements(Tail(q)) PROVE x \in Elements(q)
    BY <1>1, <2>1, <2>3, <2>5 DEF Elements
  <2>6. ASSUME NEW x \in Elements(q), x # Head(q) PROVE x \in Elements(Tail(q))
    <3>1. PICK j \in 1 .. Len(q) : x = q[j]
      BY <1>1 DEF Elements
    <3>. QED  BY <2>1, <2>2, <2>6, <3>1 DEF Elements
  <2>. QED  BY <2>4, <2>5, <2>6
<1>. QED  BY <1>2, <1>3, <1>4

LEMMA ConcatTyped ==
  ASSUME NEW S, NEW q \in Seq(S), NEW r \in Seq(S)
  PROVE  q \o r \in Seq(S)
BY ConcatProperties

LEMMA ElementsConcat ==
  ASSUME NEW S, NEW q \in Seq(S), NEW r \in Seq(S)
  PROVE  Elements(q \o r) = Elements(q) \cup Elements(r)
<1>. DEFINE m == Len(q)
            n == Len(r)
<1>1. m \in Nat /\ n \in Nat /\ DOMAIN q = 1 .. m /\ DOMAIN r = 1 .. n
  BY LenProperties
<1>2. /\ DOMAIN (q \o r) = 1 .. m + n
      /\ \A i \in 1 .. m + n : (q \o r)[i] = IF i <= m THEN q[i] ELSE r[i - m]
  BY ConcatProperties, LenProperties
<1>. HIDE DEF m, n
<1>3. \A i \in 1 .. m : i \in 1 .. m + n /\ i <= m
  BY <1>1
<1>4. \A i \in 1 .. n : m + i \in 1 .. m + n /\ ~(m + i <= m) /\ (m + i) - m = i
  BY <1>1
<1>5. \A i \in 1 .. m + n : i <= m => i \in 1 .. m
  BY <1>1
<1>6. \A i \in 1 .. m + n : ~(i <= m) => i - m \in 1 .. n
  BY <1>1
<1>7. ASSUME NEW x \in Elements(q) PROVE x \in Elements(q \o r)
  <2>1. PICK i \in 1 .. m : x = q[i]
    BY <1>1 DEF Elements
  <2>. QED  BY <1>2, <1>3, <2>1 DEF Elements
<1>8. ASSUME NEW x \in Elements(r) PROVE x \in Elements(q \o r)
  <2>1. PICK i \in 1 .. n : x = r[i]
    BY <1>1 DEF Elements
  <2>2. x = (q \o r)[m + i]
    BY <1>2, <1>4, <2>1
  <2>. QED  BY <1>2, <1>4, <2>1, <2>2 DEF Elements
<1>9. ASSUME NEW x \in Elements(q \o r) PROVE x \in Elements(q) \cup Elements(r)
  <2>1. PICK i \in 1 .. m + n : x = (q \o r)[i]
    BY <1>2 DEF Elements
  <2>2. CASE i <= m
    BY <1>1, <1>2, <1>5, <2>1, <2>2 DEF Elements
  <2>3. CASE ~(i <= m)
    BY <1>1, <1>2, <1>6, <2>1, <2>3 DEF Elements
  <2>. QED  BY <2>2, <2>3
<1>. QED  BY <1>7, <1>8, <1>9

----------------------------------------------------------------------------
\* The order of the list: every step has a rank, and a list of the state task
\* ascends.

Moving    == {"bump", "skipZero"}
Cleanings == {"resetChat", "resetAudio", "drainAsr"}
Cancels   == {"cancelAsr", "cancelChat", "cancelTts"}
Restores  == {"restoreAsr", "restoreChat", "restoreTts"}

Rank == [stop |-> 0, prompt |-> 1, bump |-> 2, skipZero |-> 2, resetChat |-> 3,
         resetAudio |-> 4, drainAsr |-> 5, cancelAsr |-> 6, restoreAsr |-> 6,
         cancelChat |-> 7, restoreChat |-> 7, cancelTts |-> 8, restoreTts |-> 8,
         clearText |-> 9, start |-> 10, clearIntent |-> 11, reset |-> 12, load |-> 12,
         connect |-> 12]

Ordered(q) == \A i, j \in DOMAIN q : i < j => Rank[q[i]] < Rank[q[j]]

LEMMA RankTyped == \A s \in Steps : Rank[s] \in Nat
BY DEF Rank, Steps, PlainSteps

LEMMA OrderedTail ==
  ASSUME NEW q \in Seq(Steps), q # <<>>, Ordered(q)
  PROVE  /\ Ordered(Tail(q))
         /\ \A s \in Elements(Tail(q)) : Rank[Head(q)] < Rank[s]
         /\ Elements(Tail(q)) = Elements(q) \ {Head(q)}
<1>1. /\ DOMAIN q = 1 .. Len(q) /\ Len(q) \in Nat \ {0} /\ Head(q) = q[1]
      /\ DOMAIN Tail(q) = 1 .. Len(q) - 1
      /\ \A i \in 1 .. Len(q) - 1 : Tail(q)[i] = q[i + 1]
      /\ \A i \in 1 .. Len(q) : q[i] \in Steps
  BY LenProperties, HeadTailProperties, EmptySeq
<1>2. \A i \in 1 .. Len(q) - 1 : i + 1 \in 1 .. Len(q) /\ 1 < i + 1
  BY <1>1
<1>3. Ordered(Tail(q))
  <2>1. ASSUME NEW i \in 1 .. Len(q) - 1, NEW j \in 1 .. Len(q) - 1, i < j
        PROVE  Rank[q[i + 1]] < Rank[q[j + 1]]
    <3>1. i + 1 < j + 1
      BY <2>1
    <3>. QED  BY <1>1, <1>2, <3>1 DEF Ordered
  <2>. QED  BY <1>1, <2>1 DEF Ordered
<1>4. \A s \in Elements(Tail(q)) : Rank[Head(q)] < Rank[s]
  <2>1. \A i \in 1 .. Len(q) - 1 : Rank[q[1]] < Rank[q[i + 1]]
    <3>1. 1 \in 1 .. Len(q)
      BY <1>1
    <3>. QED  BY <1>1, <1>2, <3>1 DEF Ordered
  <2>. QED  BY <1>1, <2>1 DEF Elements
<1>5. Head(q) \notin Elements(Tail(q))
  <2>1. Rank[Head(q)] \in Nat
    BY <1>1, RankTyped
  <2>. QED  BY <1>4, <2>1
<1>6. Elements(q) = {Head(q)} \cup Elements(Tail(q))
  BY ElementsOf
<1>. QED  BY <1>3, <1>4, <1>5, <1>6

LEMMA OrderedConcat ==
  ASSUME NEW q \in Seq(Steps), NEW r \in Seq(Steps), Ordered(q), Ordered(r),
         \A x \in Elements(q), y \in Elements(r) : Rank[x] < Rank[y]
  PROVE  Ordered(q \o r)
<1>. DEFINE m == Len(q)
            n == Len(r)
<1>1. m \in Nat /\ n \in Nat /\ DOMAIN q = 1 .. m /\ DOMAIN r = 1 .. n
  BY LenProperties
<1>2. /\ DOMAIN (q \o r) = 1 .. m + n
      /\ \A i \in 1 .. m + n : (q \o r)[i] = IF i <= m THEN q[i] ELSE r[i - m]
  BY ConcatProperties, LenProperties
<1>. HIDE DEF m, n
<1>3. ASSUME NEW i \in 1 .. m + n, NEW j \in 1 .. m + n, i < j
      PROVE  Rank[(q \o r)[i]] < Rank[(q \o r)[j]]
  <2>1. CASE j <= m
    <3>1. i \in 1 .. m /\ j \in 1 .. m /\ i <= m
      BY <1>1, <1>3, <2>1
    <3>. QED  BY <1>1, <1>2, <1>3, <2>1, <3>1 DEF Ordered
  <2>2. CASE i <= m /\ ~(j <= m)
    <3>1. i \in 1 .. m /\ j - m \in 1 .. n
      BY <1>1, <2>2
    <3>2. q[i] \in Elements(q) /\ r[j - m] \in Elements(r)
      BY <1>1, <3>1 DEF Elements
    <3>. QED  BY <1>2, <2>2, <3>2
  <2>3. CASE ~(i <= m)
    <3>1. i - m \in 1 .. n /\ j - m \in 1 .. n /\ i - m < j - m /\ ~(j <= m)
      BY <1>1, <1>3, <2>3
    <3>2. Rank[r[i - m]] < Rank[r[j - m]]
      BY <1>1, <3>1 DEF Ordered
    <3>. QED  BY <1>2, <2>3, <3>1, <3>2
  <2>. QED  BY <2>1, <2>2, <2>3
<1>. QED  BY <1>2, <1>3 DEF Ordered

LEMMA NewInteractionOrdered ==
  /\ NewInteraction \in Seq(Steps) /\ Ordered(NewInteraction)
  /\ Elements(NewInteraction) = {"bump"} \cup Cleanings \cup Cancels
<1>1. /\ Len(NewInteraction) = 7 /\ DOMAIN NewInteraction = 1 .. 7
      /\ NewInteraction \in Seq(Steps)
  BY DEF NewInteraction, Steps, PlainSteps
<1>2. /\ NewInteraction[1] = "bump" /\ NewInteraction[2] = "resetChat"
      /\ NewInteraction[3] = "resetAudio" /\ NewInteraction[4] = "drainAsr"
      /\ NewInteraction[5] = "cancelAsr" /\ NewInteraction[6] = "cancelChat"
      /\ NewInteraction[7] = "cancelTts"
  BY DEF NewInteraction
<1>3. \A i \in 1 .. 7 : i \in {1, 2, 3, 4, 5, 6, 7}
  OBVIOUS
<1>4. \A i \in 1 .. 7 : Rank[NewInteraction[i]] = i + 1
  BY <1>2, <1>3 DEF Rank
<1>5. Ordered(NewInteraction)
  BY <1>1, <1>4 DEF Ordered
<1>6. Elements(NewInteraction) \subseteq {"bump"} \cup Cleanings \cup Cancels
  BY <1>1, <1>2, <1>3 DEF Elements, Cleanings, Cancels
<1>7. {"bump"} \cup Cleanings \cup Cancels \subseteq Elements(NewInteraction)
  <2>1. {1, 2, 3, 4, 5, 6, 7} \subseteq DOMAIN NewInteraction
    BY <1>1
  <2>2. \A i \in {1, 2, 3, 4, 5, 6, 7} : NewInteraction[i] \in Elements(NewInteraction)
    BY <2>1 DEF Elements
  <2>. QED  BY <1>2, <2>2 DEF Cleanings, Cancels
<1>. QED  BY <1>1, <1>5, <1>6, <1>7

LEMMA ShortOrdered ==
  /\ <<>> \in Seq(Steps) /\ Ordered(<<>>) /\ Elements(<<>>) = {}
  /\ \A s \in Steps : /\ <<s>> \in Seq(Steps) /\ Ordered(<<s>>) /\ Elements(<<s>>) = {s}
  /\ <<"clearText", "start">> \in Seq(Steps) /\ Ordered(<<"clearText", "start">>)
  /\ Elements(<<"clearText", "start">>) = {"clearText", "start"}
<1>1. <<>> \in Seq(Steps) /\ Ordered(<<>>) /\ Elements(<<>>) = {}
  BY EmptySeq DEF Ordered, Elements
<1>2. ASSUME NEW s \in Steps
      PROVE  <<s>> \in Seq(Steps) /\ Ordered(<<s>>) /\ Elements(<<s>>) = {s}
  <2>1. DOMAIN <<s>> = {1} /\ <<s>>[1] = s
    OBVIOUS
  <2>. QED  BY <2>1 DEF Ordered, Elements
<1>3. /\ <<"clearText", "start">> \in Seq(Steps) /\ Ordered(<<"clearText", "start">>)
      /\ Elements(<<"clearText", "start">>) = {"clearText", "start"}
  <2>. DEFINE q == <<"clearText", "start">>
  <2>1. q \in Seq(Steps) /\ DOMAIN q = {1, 2} /\ q[1] = "clearText" /\ q[2] = "start"
    BY DEF Steps, PlainSteps
  <2>2. Rank["clearText"] = 9 /\ Rank["start"] = 10
    BY DEF Rank
  <2>. HIDE DEF q
  <2>3. Ordered(q)
    <3>1. ASSUME NEW i \in {1, 2}, NEW j \in {1, 2}, i < j PROVE Rank[q[i]] < Rank[q[j]]
      <4>1. i = 1 /\ j = 2
        BY <3>1
      <4>. QED  BY <2>1, <2>2, <4>1
    <3>. QED  BY <2>1, <3>1 DEF Ordered
  <2>4. Elements(q) = {"clearText", "start"}
    BY <2>1 DEF Elements
  <2>. QED  BY <2>1, <2>3, <2>4 DEF q
<1>. QED  BY <1>1, <1>2, <1>3

\* What each part of the work consists of.
RecordingSteps(from, to) ==
  IF from = to THEN {}
  ELSE IF to = "RECORDING" THEN {"bump", "clearText", "start"} \cup Cleanings \cup Cancels
  ELSE IF from = "RECORDING" THEN {"stop"} ELSE {}

PromptSteps(from, to, type) ==
  IF from # to /\ to = "THINKING" /\ type = "ASR_DONE" THEN {"prompt"} ELSE {}

ForgetSteps(type, expired) ==
  IF expired \/ type = "FACTORY_RESET" THEN {"bump", "clearIntent"} \cup Cleanings \cup Cancels
                                       ELSE {}

ConfigSteps(to, type) ==
  IF type = "FACTORY_RESET" THEN {"reset"}
  ELSE IF to = "CONFIG_CHECK" THEN {"load"}
  ELSE IF to = "NETWORK_CONNECTING" THEN {"connect"} ELSE {}

\* A new recording is the only transition that renews the interaction without
\* the order to forget the intent, and never with it.
LEMMA WorkOrdered ==
  ASSUME NEW from, NEW to, NEW type, NEW expired \in BOOLEAN,
         to = "RECORDING" => ~expired /\ type # "FACTORY_RESET",
         type = "FACTORY_RESET" => to = "CONFIG_CHECK"
  PROVE  LET q == Work(from, to, type, expired) IN
         /\ q \in Seq(Steps) /\ Ordered(q)
         /\ Elements(q) = RecordingSteps(from, to) \cup PromptSteps(from, to, type)
                          \cup ForgetSteps(type, expired) \cup ConfigSteps(to, type)
<1>. DEFINE A == CASE from # to /\ to = "RECORDING" -> NewInteraction \o <<"clearText", "start">>
                   [] from # to /\ from = "RECORDING" -> <<"stop">>
                   [] OTHER -> <<>>
            B == IF from # to /\ to = "THINKING" /\ type = "ASR_DONE" THEN <<"prompt">> ELSE <<>>
            C == IF expired \/ type = "FACTORY_RESET" THEN NewInteraction \o <<"clearIntent">>
                                                      ELSE <<>>
            D == CASE type = "FACTORY_RESET" -> <<"reset">>
                   [] type # "FACTORY_RESET" /\ to = "CONFIG_CHECK" -> <<"load">>
                   [] to = "NETWORK_CONNECTING" -> <<"connect">>
                   [] OTHER -> <<>>
<1>1. /\ {"stop", "prompt", "clearIntent", "reset", "load", "connect"} \subseteq Steps
      /\ {"bump"} \cup Cleanings \cup Cancels \subseteq Steps
  BY DEF Steps, PlainSteps, Cleanings, Cancels
<1>2. \A x \in {"bump"} \cup Cleanings \cup Cancels : 1 < Rank[x] /\ Rank[x] < 9
  BY DEF Rank, Cleanings, Cancels
<1>3. /\ Rank["stop"] = 0 /\ Rank["prompt"] = 1 /\ Rank["clearText"] = 9 /\ Rank["start"] = 10
      /\ Rank["clearIntent"] = 11 /\ Rank["reset"] = 12 /\ Rank["load"] = 12
      /\ Rank["connect"] = 12
  BY DEF Rank
<1>4. /\ NewInteraction \o <<"clearText", "start">> \in Seq(Steps)
      /\ Ordered(NewInteraction \o <<"clearText", "start">>)
      /\ Elements(NewInteraction \o <<"clearText", "start">>) =
           {"bump", "clearText", "start"} \cup Cleanings \cup Cancels
  <2>. DEFINE t == <<"clearText", "start">>
  <2>1. t \in Seq(Steps) /\ Ordered(t) /\ Elements(t) = {"clearText", "start"}
    BY ShortOrdered
  <2>. HIDE DEF t
  <2>2. \A x \in Elements(NewInteraction), y \in Elements(t) : Rank[x] < Rank[y]
    <3>1. \A x \in {"bump"} \cup Cleanings \cup Cancels :
            Rank[x] < Rank["clearText"] /\ Rank[x] < Rank["start"]
      BY DEF Rank, Cleanings, Cancels
    <3>. QED  BY <2>1, <3>1, NewInteractionOrdered
  <2>3. NewInteraction \o t \in Seq(Steps) /\ Ordered(NewInteraction \o t)
    BY <2>1, <2>2, NewInteractionOrdered, OrderedConcat, ConcatTyped
  <2>4. Elements(NewInteraction \o t) = {"bump", "clearText", "start"} \cup Cleanings \cup Cancels
    <3>1. Elements(NewInteraction \o t) = Elements(NewInteraction) \cup Elements(t)
      BY <2>1, NewInteractionOrdered, ElementsConcat
    <3>. QED  BY <2>1, <3>1, NewInteractionOrdered
  <2>. QED  BY <2>3, <2>4 DEF t
<1>5. /\ NewInteraction \o <<"clearIntent">> \in Seq(Steps)
      /\ Ordered(NewInteraction \o <<"clearIntent">>)
      /\ Elements(NewInteraction \o <<"clearIntent">>) =
           {"bump", "clearIntent"} \cup Cleanings \cup Cancels
  <2>. DEFINE t == <<"clearIntent">>
  <2>1. t \in Seq(Steps) /\ Ordered(t) /\ Elements(t) = {"clearIntent"}
    BY <1>1, ShortOrdered
  <2>. HIDE DEF t
  <2>2. \A x \in Elements(NewInteraction), y \in Elements(t) : Rank[x] < Rank[y]
    <3>1. \A x \in {"bump"} \cup Cleanings \cup Cancels : Rank[x] < Rank["clearIntent"]
      BY DEF Rank, Cleanings, Cancels
    <3>. QED  BY <2>1, <3>1, NewInteractionOrdered
  <2>3. NewInteraction \o t \in Seq(Steps) /\ Ordered(NewInteraction \o t)
    BY <2>1, <2>2, NewInteractionOrdered, OrderedConcat, ConcatTyped
  <2>4. Elements(NewInteraction \o t) = {"bump", "clearIntent"} \cup Cleanings \cup Cancels
    <3>1. Elements(NewInteraction \o t) = Elements(NewInteraction) \cup Elements(t)
      BY <2>1, NewInteractionOrdered, ElementsConcat
    <3>. QED  BY <2>1, <3>1, NewInteractionOrdered
  <2>. QED  BY <2>3, <2>4 DEF t
<1>6. A \in Seq(Steps) /\ Ordered(A) /\ Elements(A) = RecordingSteps(from, to)
  BY <1>1, <1>4, ShortOrdered DEF RecordingSteps
<1>7. B \in Seq(Steps) /\ Ordered(B) /\ Elements(B) = PromptSteps(from, to, type)
  BY <1>1, ShortOrdered DEF PromptSteps
<1>8. C \in Seq(Steps) /\ Ordered(C) /\ Elements(C) = ForgetSteps(type, expired)
  BY <1>1, <1>5, ShortOrdered DEF ForgetSteps
<1>9. D \in Seq(Steps) /\ Ordered(D) /\ Elements(D) = ConfigSteps(to, type)
  BY <1>1, ShortOrdered DEF ConfigSteps
<1>10. Work(from, to, type, expired) = A \o B \o C \o D
  BY DEF Work
<1>. HIDE DEF A, B, C, D
<1>11. A \o B \in Seq(Steps) /\ Ordered(A \o B) /\ Elements(A \o B) = Elements(A) \cup Elements(B)
  <2>1. \A x \in Elements(A), y \in Elements(B) : Rank[x] < Rank[y]
    BY <1>3, <1>6, <1>7 DEF RecordingSteps, PromptSteps
  <2>. QED  BY <1>6, <1>7, <2>1, OrderedConcat, ElementsConcat, ConcatTyped
<1>12. /\ A \o B \o C \in Seq(Steps) /\ Ordered(A \o B \o C)
       /\ Elements(A \o B \o C) = Elements(A) \cup Elements(B) \cup Elements(C)
  <2>1. \A x \in Elements(A) \cup Elements(B), y \in Elements(C) : Rank[x] < Rank[y]
    <3>1. CASE Elements(C) = {}
      BY <3>1
    <3>2. CASE to # "RECORDING"
      <4>1. \A x \in Elements(A) \cup Elements(B) : Rank[x] \in {0, 1}
        BY <1>3, <1>6, <1>7, <3>2 DEF RecordingSteps, PromptSteps
      <4>2. \A y \in Elements(C) : 1 < Rank[y]
        <5>1. \A y \in {"bump", "clearIntent"} \cup Cleanings \cup Cancels : 1 < Rank[y]
          BY DEF Rank, Cleanings, Cancels
        <5>. QED  BY <1>8, <5>1 DEF ForgetSteps
      <4>3. \A y \in Elements(C) : Rank[y] \in Nat
        BY <1>8, RankTyped, ElementsOf
      <4>. QED  BY <4>1, <4>2, <4>3
    <3>3. to = "RECORDING" => Elements(C) = {}
      BY <1>8 DEF ForgetSteps
    <3>. QED  BY <3>1, <3>2, <3>3
  <2>. DEFINE Q == A \o B
  <2>2. /\ Q \in Seq(Steps) /\ Ordered(Q) /\ Elements(Q) = Elements(A) \cup Elements(B)
        /\ A \o B \o C = Q \o C
    BY <1>11
  <2>. HIDE DEF Q
  <2>3. \A x \in Elements(Q), y \in Elements(C) : Rank[x] < Rank[y]
    BY <2>1, <2>2
  <2>4. Q \o C \in Seq(Steps) /\ Ordered(Q \o C)
    BY <1>8, <2>2, <2>3, OrderedConcat, ConcatTyped
  <2>5. Elements(Q \o C) = Elements(Q) \cup Elements(C)
    BY <1>8, <2>2, ElementsConcat
  <2>. QED  BY <2>2, <2>4, <2>5
<1>13. \A x \in Elements(A) \cup Elements(B) \cup Elements(C), y \in Elements(D) : Rank[x] < Rank[y]
  <2>1. \A x \in Elements(A) \cup Elements(B) \cup Elements(C) : Rank[x] < 12
    <3>1. \A x \in {"bump", "clearText", "start", "stop", "prompt", "clearIntent"}
                   \cup Cleanings \cup Cancels : Rank[x] < 12
      BY DEF Rank, Cleanings, Cancels
    <3>. QED  BY <1>6, <1>7, <1>8, <3>1 DEF RecordingSteps, PromptSteps, ForgetSteps
  <2>2. \A y \in Elements(D) : Rank[y] = 12
    BY <1>3, <1>9 DEF ConfigSteps
  <2>. QED  BY <2>1, <2>2
<1>14. /\ A \o B \o C \o D \in Seq(Steps) /\ Ordered(A \o B \o C \o D)
       /\ Elements(A \o B \o C \o D) = Elements(A) \cup Elements(B) \cup Elements(C)
                                       \cup Elements(D)
  <2>. DEFINE Q == A \o B \o C
  <2>1. /\ Q \in Seq(Steps) /\ Ordered(Q)
        /\ Elements(Q) = Elements(A) \cup Elements(B) \cup Elements(C)
        /\ A \o B \o C \o D = Q \o D
    BY <1>12
  <2>. HIDE DEF Q
  <2>2. \A x \in Elements(Q), y \in Elements(D) : Rank[x] < Rank[y]
    BY <1>13, <2>1
  <2>3. Q \o D \in Seq(Steps) /\ Ordered(Q \o D) /\ Elements(Q \o D) = Elements(Q) \cup Elements(D)
    BY <1>9, <2>1, <2>2, OrderedConcat, ElementsConcat, ConcatTyped
  <2>. QED  BY <2>1, <2>3
<1>. QED  BY <1>6, <1>7, <1>8, <1>9, <1>10, <1>14

\* Where an accepted event leads, as far as its work goes.
LEMMA DispatchTo ==
  ASSUME NEW type, NEW m \in Dispatch(mach, type)
  PROVE  /\ m.state = "RECORDING" => type = "PRESS_START" /\ mach.state # "RECORDING"
         /\ type = "PRESS_START" => m.state = "RECORDING"
         /\ type = "FACTORY_RESET" => m.state = "CONFIG_CHECK"
         /\ type = "TIMEOUT" => m.state = "ERROR"
         /\ m.state = "THINKING" /\ type = "ASR_DONE" =>
              mach.state \in {"TRANSCRIBING", "ASR_JOB_PENDING"}
         /\ m.state \in Busy =>
              mach.state \in Busy \/ type = "PRESS_START"
<1>1. CASE type = "CANCEL" \/ type \in Errors \cup {"FACTORY_RESET"}
  <2>1. /\ m.state \in {"IDLE", "CONFIG_CHECK", "ERROR"} /\ type # "PRESS_START"
        /\ type = "FACTORY_RESET" => m.state = "CONFIG_CHECK"
        /\ type = "TIMEOUT" => m.state = "ERROR"
    BY <1>1 DEF Dispatch, Errors
  <2>. QED  BY <2>1 DEF Busy
<1>2. CASE /\ type \notin Errors \cup {"CANCEL", "FACTORY_RESET"}
           /\ mach.state = "ERROR" /\ type = "PRESS_START" /\ mach.error \in Retryable
  BY <1>2 DEF Dispatch
<1>3. CASE /\ type \notin Errors \cup {"CANCEL", "FACTORY_RESET"}
           /\ ~(mach.state = "ERROR" /\ type = "PRESS_START" /\ mach.error \in Retryable)
  <2>1. PICK v \in Moves : v[1] = mach.state /\ v[2] = type /\ m.state = v[3]
    BY <1>3 DEF Dispatch
  <2>2. type # "TIMEOUT"
    BY <1>3 DEF Errors
  <2>. QED  BY <1>3, <2>1, <2>2 DEF Moves, Busy
<1>. QED  BY <1>1, <1>2, <1>3

\* What the list holds.  The move of the generation comes before the emptying
\* of the queues, this before the cancellations, and the recording or the
\* order to forget the intent after all of them.
Left == Elements(todo)

Renewal == Moving \cup Cleanings \cup Cancels \cup Restores

ListInv ==
  /\ Ordered(todo)
  /\ Left \cap Moving # {} => Cleanings \cup Cancels \subseteq Left
  /\ Left \cap Renewal # {} => "start" \in Left \/ "clearIntent" \in Left
  /\ "clearText" \in Left => "start" \in Left
  /\ "start" \in Left => mach.state = "RECORDING" /\ "clearIntent" \notin Left
  /\ "stop" \in Left => mach.state # "RECORDING"
  /\ "stop" \in Left /\ "clearIntent" \in Left => "bump" \in Left
  /\ "prompt" \in Left => mach.state = "THINKING"
  /\ "clearIntent" \in Left => mach.state \in {"ERROR", "CONFIG_CHECK"}

LEMMA ListStutter == ListInv /\ UNCHANGED <<todo, mach>> => ListInv'
BY DEF ListInv, Left

LEMMA ListInit == Init => ListInv
<1>. SUFFICES ASSUME Init PROVE ListInv
  OBVIOUS
<1>1. todo = <<>>
  BY DEF Init, InitWith
<1>2. Left = {} /\ Ordered(todo)
  BY <1>1, ShortOrdered DEF Left
<1>. QED  BY <1>2 DEF ListInv

LEMMA EmptyLeft == todo = <<>> => Left = {}
BY ShortOrdered DEF Left

LEMMA WorkLeft ==
  ASSUME NEW e, NEW expired \in BOOLEAN, expired => e.type = "TIMEOUT",
         NEW m \in Dispatch(mach, e.type), todo' = Work(mach.state, m.state, e.type, expired)
  PROVE  /\ Ordered(todo') /\ todo' \in Seq(Steps)
         /\ Left' = RecordingSteps(mach.state, m.state)
                    \cup PromptSteps(mach.state, m.state, e.type)
                    \cup ForgetSteps(e.type, expired) \cup ConfigSteps(m.state, e.type)
<1>1. m.state = "RECORDING" => ~expired /\ e.type # "FACTORY_RESET"
  BY DispatchTo
<1>2. e.type = "FACTORY_RESET" => m.state = "CONFIG_CHECK"
  BY DispatchTo
<1>. DEFINE q == Work(mach.state, m.state, e.type, expired)
<1>3. /\ q \in Seq(Steps) /\ Ordered(q)
      /\ Elements(q) = RecordingSteps(mach.state, m.state)
                       \cup PromptSteps(mach.state, m.state, e.type)
                       \cup ForgetSteps(e.type, expired) \cup ConfigSteps(m.state, e.type)
  BY <1>1, <1>2, WorkOrdered
<1>4. todo' = q
  OBVIOUS
<1>. HIDE DEF q
<1>. QED  BY <1>3, <1>4 DEF Left

LEMMA HandleKeepsList ==
  ASSUME ListInv, NEW e, NEW expired \in BOOLEAN, expired => e.type = "TIMEOUT",
         Handle(e, expired)
  PROVE  ListInv'
<1>1. CASE UNCHANGED <<mach, todo>>
  BY <1>1, ListStutter
<1>2. CASE \E m \in Dispatch(mach, e.type) :
             mach' = m /\ todo' = Work(mach.state, m.state, e.type, expired)
  <2>1. PICK m \in Dispatch(mach, e.type) :
               mach' = m /\ todo' = Work(mach.state, m.state, e.type, expired)
    BY <1>2
  <2>2. /\ Ordered(todo')
        /\ Left' = RecordingSteps(mach.state, m.state)
                   \cup PromptSteps(mach.state, m.state, e.type)
                   \cup ForgetSteps(e.type, expired) \cup ConfigSteps(m.state, e.type)
    BY <2>1, WorkLeft
  <2>3. /\ m.state = "RECORDING" => ~expired /\ e.type # "FACTORY_RESET"
        /\ e.type = "FACTORY_RESET" => m.state = "CONFIG_CHECK"
        /\ e.type = "TIMEOUT" => m.state = "ERROR"
    BY DispatchTo
  <2>4. mach'.state = m.state
    BY <2>1
  <2>. QED
    BY <2>2, <2>3, <2>4 DEF ListInv, RecordingSteps, PromptSteps, ForgetSteps, ConfigSteps,
       Moving, Cleanings, Cancels, Restores, Renewal
<1>. QED  BY <1>1, <1>2 DEF Handle

\* A step done is no longer on the list, and what is left comes after it.
LEMMA DoneLeft ==
  ASSUME ListInv, TodoShape, NEW s, Doing(s), Done
  PROVE  /\ Left' = Left \ {s} /\ Ordered(todo') /\ s \in Left /\ s \in Steps
         /\ \A x \in Left' : Rank[s] < Rank[x]
<1>1. todo \in Seq(Steps) /\ todo # <<>> /\ Head(todo) = s /\ Ordered(todo) /\ todo' = Tail(todo)
  BY DEF ListInv, TodoShape, Doing, Done
<1>2. s \in Steps /\ s \in Elements(todo)
  BY <1>1, ElementsOf
<1>. QED  BY <1>1, <1>2, OrderedTail DEF Left

LEMMA ThenLeft ==
  ASSUME ListInv, TodoShape, NEW s, Doing(s), NEW t \in Steps, Then(t), Rank[s] = Rank[t]
  PROVE  /\ Left' = (Left \ {s}) \cup {t} /\ Ordered(todo') /\ s \in Left /\ s \in Steps
         /\ \A x \in Left \ {s} : Rank[s] < Rank[x]
<1>1. /\ todo \in Seq(Steps) /\ todo # <<>> /\ Head(todo) = s /\ Ordered(todo)
      /\ todo' = <<t>> \o Tail(todo)
  BY DEF ListInv, TodoShape, Doing, Then
<1>2. s \in Steps /\ s \in Elements(todo) /\ Tail(todo) \in Seq(Steps)
  BY <1>1, ElementsOf
<1>3. /\ Ordered(Tail(todo)) /\ \A x \in Elements(Tail(todo)) : Rank[s] < Rank[x]
      /\ Elements(Tail(todo)) = Left \ {s}
  BY <1>1, OrderedTail DEF Left
<1>. DEFINE q == <<t>>
<1>4. q \in Seq(Steps) /\ Ordered(q) /\ Elements(q) = {t}
  BY ShortOrdered
<1>. HIDE DEF q
<1>5. Ordered(q \o Tail(todo)) /\ Elements(q \o Tail(todo)) = {t} \cup (Left \ {s})
  <2>1. \A x \in Elements(q), y \in Elements(Tail(todo)) : Rank[x] < Rank[y]
    BY <1>3, <1>4
  <2>2. Ordered(q \o Tail(todo))
    BY <1>2, <1>3, <1>4, <2>1, OrderedConcat
  <2>3. Elements(q \o Tail(todo)) = Elements(q) \cup Elements(Tail(todo))
    <3>1. q \in Seq(Steps) /\ Tail(todo) \in Seq(Steps)
      BY <1>2, <1>4
    <3>. QED  BY <3>1, ElementsConcat
  <2>. QED  BY <1>3, <1>4, <2>2, <2>3
<1>6. todo' = q \o Tail(todo)
  BY <1>1 DEF q
<1>. QED  BY <1>1, <1>2, <1>3, <1>5, <1>6 DEF Left

\* The steps that end before others begin.
LEMMA RankBefore ==
  /\ \A x \in Moving \cup {"stop", "prompt"} : \A y \in Steps \ (Moving \cup {"stop", "prompt"}) :
       Rank[x] < Rank[y]
  /\ \A x \in Renewal : Rank[x] < Rank["clearText"]
  /\ \A x \in Renewal \cup {"clearText"} : Rank[x] < Rank["start"] /\ Rank[x] < Rank["clearIntent"]
  /\ Rank["resetChat"] < Rank["resetAudio"] /\ Rank["resetAudio"] < Rank["drainAsr"]
  /\ \A x \in Cleanings : \A y \in Cancels \cup Restores : Rank[x] < Rank[y]
  /\ Rank["stop"] < Rank["prompt"]
  /\ \A x \in Moving : Rank["stop"] < Rank[x] /\ Rank["prompt"] < Rank[x]
BY DEF Rank, Steps, PlainSteps, Moving, Cleanings, Cancels, Restores, Renewal

LEMMA StopFirst == \A s \in Steps : ~(Rank[s] < Rank["stop"])
BY DEF Rank, Steps, PlainSteps

LEMMA DoneKeepsList ==
  ASSUME ListInv, TodoShape, NEW s, Doing(s), Done, UNCHANGED mach
  PROVE  ListInv'
<1>1. /\ Left' = Left \ {s} /\ Ordered(todo') /\ s \in Left /\ s \in Steps
      /\ \A x \in Left' : Rank[s] < Rank[x]
  BY DoneLeft
<1>2. \A x \in Steps : Rank[x] \in Nat
  BY RankTyped
<1>3. Left' \subseteq Steps
  <2>1. Left \subseteq Steps
    BY ElementsOf DEF TodoShape, Left
  <2>. QED  BY <1>1, <2>1
<1>4. Left' \cap Moving # {} => Cleanings \cup Cancels \subseteq Left'
  <2>1. SUFFICES ASSUME Left' \cap Moving # {} PROVE s \notin Cleanings \cup Cancels
    BY <1>1 DEF ListInv
  <2>2. PICK x \in Moving : x \in Left'
    BY <2>1
  <2>3. s \in Cleanings \cup Cancels => Rank[x] < Rank[s]
    BY <1>1, <2>2, RankBefore DEF Moving, Cleanings, Cancels
  <2>. QED  BY <1>1, <1>2, <1>3, <2>2, <2>3
<1>5. Left' \cap Renewal # {} => "start" \in Left' \/ "clearIntent" \in Left'
  <2>1. SUFFICES ASSUME Left' \cap Renewal # {} PROVE s # "start" /\ s # "clearIntent"
    BY <1>1 DEF ListInv
  <2>2. PICK x \in Renewal : x \in Left'
    BY <2>1
  <2>. QED  BY <1>1, <1>2, <1>3, <2>2, RankBefore
<1>6. "clearText" \in Left' => "start" \in Left'
  <2>1. SUFFICES ASSUME "clearText" \in Left' PROVE s # "start"
    BY <1>1 DEF ListInv
  <2>. QED  BY <1>1, <1>2, <1>3, <2>1, RankBefore
<1>7. "stop" \notin Left'
  BY <1>1, <1>2, StopFirst
<1>. QED  BY <1>1, <1>4, <1>5, <1>6, <1>7 DEF ListInv

LEMMA ThenKeepsList ==
  ASSUME ListInv, TodoShape, NEW s, Doing(s), NEW t, Then(t), UNCHANGED mach,
         <<s, t>> \in {<<"bump", "skipZero">>, <<"cancelAsr", "restoreAsr">>,
                       <<"cancelChat", "restoreChat">>, <<"cancelTts", "restoreTts">>}
  PROVE  ListInv'
<1>1. t \in Steps /\ Rank[s] = Rank[t]
  BY DEF Rank, Steps
<1>0. /\ s \in {"bump"} \cup Cancels /\ t \in {"skipZero"} \cup Restores
      /\ s = "bump" <=> t = "skipZero"
  BY DEF Cancels, Restores
<1>2. /\ Left' = (Left \ {s}) \cup {t} /\ Ordered(todo') /\ s \in Left /\ s \in Steps
      /\ \A x \in Left \ {s} : Rank[s] < Rank[x]
  BY <1>1, ThenLeft
<1>3. s \in Cancels => Left' \cap Moving = {}
  <2>1. SUFFICES ASSUME s \in Cancels, NEW x \in Moving, x \in Left PROVE FALSE
    BY <1>2 DEF Cancels, Moving
  <2>2. Rank[x] < Rank[s] /\ Rank[x] \in Nat /\ Rank[s] \in Nat
    BY <1>2, <2>1, RankBefore, RankTyped DEF Moving, Cancels, Steps, PlainSteps
  <2>3. Rank[s] < Rank[x]
    BY <1>2, <2>1 DEF Moving, Cancels
  <2>. QED  BY <2>2, <2>3
<1>4. "stop" \notin Left'
  BY <1>0, <1>2, StopFirst DEF Cancels, Restores
<1>. QED
  BY <1>0, <1>2, <1>3, <1>4 DEF ListInv, Moving, Cleanings, Cancels, Restores, Renewal

\* Which step each action of the state task takes from the list.
LEMMA StateSteps ==
  ASSUME StateTask, ~ReceiveEvent
  PROVE  /\ UNCHANGED mach
         /\ \/ \E s \in Steps : Doing(s) /\ Done
            \/ Doing("bump") /\ Then("skipZero")
            \/ \E client \in Clients : Doing(CancelStep[client]) /\ Then(RestoreStep[client])
<1>1. CASE BumpGeneration
  BY <1>1 DEF BumpGeneration, Steps, PlainSteps
<1>2. CASE ResetQueues
  BY <1>2 DEF ResetQueues, Steps, PlainSteps
<1>3. CASE \E client \in DOMAIN CancelStep : CancelRequests(client)
  <2>1. PICK client \in Clients : CancelRequests(client)
    BY <1>3 DEF CancelStep, Clients
  <2>2. CancelStep[client] \in Steps /\ RestoreStep[client] \in Steps
    BY <2>1 DEF CancelStep, RestoreStep, Clients, Steps, PlainSteps
  <2>. QED  BY <2>1, <2>2 DEF CancelRequests
<1>4. CASE \/ ClearTexts \/ CommandAudio \/ PostPrompt \/ ForgetIntent \/ OrderReset
           \/ LoadConfig \/ OrderConnect
  BY <1>4 DEF ClearTexts, CommandAudio, PostPrompt, ForgetIntent, OrderReset, LoadConfig,
     OrderConnect, Steps, PlainSteps
<1>. QED  BY <1>1, <1>2, <1>3, <1>4 DEF StateTask

LEMMA OthersKeepList ==
  (ButtonTask \/ FactoryReset \/ AudioTask \/ AsrTask \/ ChatTask \/ NetTask \/ LoseConfig
     \/ UNCHANGED vars)
  => UNCHANGED <<mach, todo, gen, epoch>>
<1>1. CASE ButtonTask \/ FactoryReset \/ LoseConfig
  BY <1>1 DEF ButtonTask, Press, Release, HoldTooLong, ButtonPosts, LetGo, FactoryReset,
     LoseConfig, Others
<1>2. CASE AudioTask
  BY <1>2 DEF AudioTask, TakeAudioCommand, StopStale, StopEmpty, StopRecording, HandOver,
     ReportAudioFailure, Others
<1>3. CASE AsrTask
  BY <1>3 DEF AsrTask, TakeAsrCommand, AnnounceAsr, EndTranscription, LockForAsr,
     CommitTranscript, ReportAsr, AsrFrame
<1>4. CASE ChatTask
  BY <1>4 DEF ChatTask, TakeChatCommand, ReportUnconfigured, AnnounceChat, LockForChat,
     HandleIntent, EndClassification, CheckReply, ShowReply, EndSpeech, EndReply,
     StreamDelta, PostToken, EndChat, CommitAnswer, ReportChat, ChatFrame
<1>5. CASE NetTask
  BY <1>5 DEF NetTask, TakeNetCommand, EndConnect, ReportConnect, EraseConfig, ReportLoss,
     NetFrame
<1>6. CASE UNCHANGED vars
  BY <1>6 DEF vars
<1>. QED  BY <1>1, <1>2, <1>3, <1>4, <1>5, <1>6

LEMMA NextKeepsList == CommitInv /\ ListInv /\ [Next]_vars => ListInv'
<1>. SUFFICES ASSUME CommitInv, ListInv, [Next]_vars PROVE ListInv'
  OBVIOUS
<1>0. TodoShape
  BY DEF CommitInv
<1>1. CASE ReceiveEvent
  BY <1>1, HandleKeepsList DEF ReceiveEvent
<1>2. CASE AsrDeadline
  <2>1. Handle(Event("TIMEOUT", gen), TRUE) /\ Event("TIMEOUT", gen).type = "TIMEOUT"
    BY <1>2 DEF AsrDeadline, Event
  <2>. QED  BY <2>1, HandleKeepsList
<1>3. CASE StateTask /\ ~ReceiveEvent
  <2>1. UNCHANGED mach
    BY <1>3, StateSteps
  <2>2. CASE \E s \in Steps : Doing(s) /\ Done
    BY <1>0, <2>1, <2>2, DoneKeepsList
  <2>3. CASE Doing("bump") /\ Then("skipZero")
    BY <1>0, <2>1, <2>3, ThenKeepsList
  <2>4. CASE \E client \in Clients : Doing(CancelStep[client]) /\ Then(RestoreStep[client])
    <3>1. PICK client \in Clients : Doing(CancelStep[client]) /\ Then(RestoreStep[client])
      BY <2>4
    <3>2. <<CancelStep[client], RestoreStep[client]>> \in
             {<<"cancelAsr", "restoreAsr">>, <<"cancelChat", "restoreChat">>,
              <<"cancelTts", "restoreTts">>}
      BY DEF Clients, CancelStep, RestoreStep
    <3>. QED  BY <1>0, <2>1, <3>1, <3>2, ThenKeepsList
  <2>. QED  BY <1>3, <2>2, <2>3, <2>4, StateSteps
<1>4. CASE ~(StateTask \/ AsrDeadline)
  <2>1. UNCHANGED <<todo, mach>>
    BY <1>4, OthersKeepList DEF Next
  <2>. QED  BY <2>1, ListStutter
<1>. QED  BY <1>1, <1>2, <1>3, <1>4

\* The list of the state task is in order in every reachable state.
THEOREM ListInductive == Spec => []ListInv
BY ListInit, NextKeepsList, CommitsInductive, PTL DEF Spec

----------------------------------------------------------------------------
\* The invariant behind the two counters: the generation is 0 only between the
\* two steps that skip it, an epoch whose cancellation is due lags one behind
\* the generation, and all others equal it.

NextGeneration(v) == IF v = Wrap - 1 THEN 1 ELSE v + 1

EpochAt(client) ==
  /\ "skipZero" \in Left => epoch[client] = Wrap - 1
  /\ RestoreStep[client] \in Left => epoch[client] = 0 /\ gen = 1
  /\ CancelStep[client] \in Left /\ Left \cap Moving = {} =>
       epoch[client] # 0 /\ gen = NextGeneration(epoch[client])
  /\ {CancelStep[client], RestoreStep[client]} \cap Left = {} \/ "bump" \in Left =>
       epoch[client] = gen

CounterInv ==
  /\ gen = 0 <=> "skipZero" \in Left
  /\ \A client \in Clients : EpochAt(client)

LEMMA CounterStutter == CounterInv /\ UNCHANGED <<todo, gen, epoch>> => CounterInv'
BY DEF CounterInv, EpochAt, Left

LEMMA CounterInit == Init => CounterInv
<1>. SUFFICES ASSUME Init PROVE CounterInv
  OBVIOUS
<1>1. todo = <<>> /\ gen # 0 /\ epoch = [asr |-> gen, chat |-> gen, tts |-> gen]
  BY WrapAssumption DEF Init, InitWith
<1>2. Left = {}
  BY <1>1, EmptyLeft
<1>3. \A client \in Clients : epoch[client] = gen
  BY <1>1 DEF Clients
<1>. QED  BY <1>1, <1>2, <1>3 DEF CounterInv, EpochAt

\* With nothing left to do, every epoch equals the generation.
LEMMA CountersRest ==
  ASSUME CounterInv, Left \cap (Moving \cup Cancels \cup Restores) = {}
  PROVE  gen # 0 /\ \A client \in Clients : epoch[client] = gen
<1>1. \A client \in Clients : CancelStep[client] \in Cancels /\ RestoreStep[client] \in Restores
  BY DEF Clients, CancelStep, RestoreStep, Cancels, Restores
<1>. QED  BY <1>1 DEF CounterInv, EpochAt, Moving

LEMMA StateKeepsCounters ==
  ASSUME BufferInv, CommitInv, ListInv, CounterInv, StateTask, ~ReceiveEvent
  PROVE  CounterInv'
<1>0. /\ TodoShape /\ Wrap \in Nat /\ Wrap > 2 /\ gen \in 0 .. Wrap - 1
      /\ \A client \in Clients : epoch[client] \in 0 .. Wrap - 1
      /\ epoch \in [Clients -> 0 .. Wrap - 1]
  BY WrapAssumption DEF CommitInv, BufferInv, CountersTyped, Generations
<1>1. CASE BumpGeneration
  <2>0. UNCHANGED epoch
    BY <1>1 DEF BumpGeneration
  <2>1. \A client \in Clients : CancelStep[client] \in Cancels /\ RestoreStep[client] \in Restores
    BY DEF Clients, CancelStep, RestoreStep, Cancels, Restores
  <2>2. CASE Doing("bump") /\ gen' = Successor(gen)
    <3>1. "bump" \in Left /\ "skipZero" \notin Left /\ Cancels \subseteq Left
      <4>1. "bump" \in Left
        BY <1>0, <2>2, ElementsOf DEF TodoShape, Doing, Left
      <4>2. "skipZero" \notin Left
        <5>1. Tail(todo) \in Seq(PlainSteps) /\ Left = {"bump"} \cup Elements(Tail(todo))
          BY <1>0, <2>2, ElementsOf DEF TodoShape, Doing, Left
        <5>. QED  BY <5>1, ElementsOf DEF PlainSteps
      <4>. QED  BY <4>1, <4>2 DEF ListInv, Moving
    <3>2. gen # 0 /\ \A client \in Clients : epoch[client] = gen
      BY <3>1 DEF CounterInv, EpochAt
    <3>3. CASE gen' = 0
      <4>1. Then("skipZero") /\ gen = Wrap - 1
        BY <1>0, <1>1, <2>2, <3>3 DEF BumpGeneration, Successor, Doing
      <4>2. Rank["bump"] = Rank["skipZero"] /\ "skipZero" \in Steps
        BY DEF Rank, Steps
      <4>3. Left' = (Left \ {"bump"}) \cup {"skipZero"}
        BY <1>0, <2>2, <4>1, <4>2, ThenLeft
      <4>4. Restores \cap Left = {}
        <5>1. Tail(todo) \in Seq(PlainSteps) /\ Left = {"bump"} \cup Elements(Tail(todo))
          BY <1>0, <2>2, ElementsOf DEF TodoShape, Doing, Left
        <5>. QED  BY <5>1, ElementsOf DEF PlainSteps, Restores
      <4>. QED
        BY <2>0, <2>1, <3>1, <3>2, <3>3, <4>1, <4>3, <4>4
           DEF CounterInv, EpochAt, Moving, Cancels, Restores
    <3>4. CASE gen' # 0
      <4>1. Done /\ gen' = NextGeneration(gen)
        <5>1. Done
          BY <1>1, <2>2, <3>4 DEF BumpGeneration, Doing
        <5>2. gen' = NextGeneration(gen)
          BY <1>0, <2>2, <3>4 DEF Successor, NextGeneration
        <5>. QED  BY <5>1, <5>2
      <4>2. Left' = Left \ {"bump"}
        BY <1>0, <2>2, <4>1, DoneLeft
      <4>4. Restores \cap Left = {}
        <5>1. Tail(todo) \in Seq(PlainSteps) /\ Left = {"bump"} \cup Elements(Tail(todo))
          BY <1>0, <2>2, ElementsOf DEF TodoShape, Doing, Left
        <5>. QED  BY <5>1, ElementsOf DEF PlainSteps, Restores
      <4>. QED
        BY <2>0, <2>1, <3>1, <3>2, <3>4, <4>1, <4>2, <4>4
           DEF CounterInv, EpochAt, Moving, Cancels, Restores, NextGeneration
    <3>. QED  BY <3>3, <3>4
  <2>3. CASE Doing("skipZero") /\ gen' = 1 /\ Done
    <3>1. Left' = Left \ {"skipZero"} /\ "skipZero" \in Left
      BY <1>0, <2>3, DoneLeft
    <3>2. Cancels \subseteq Left /\ (Restores \cup {"bump"}) \cap Left = {}
      <4>1. Tail(todo) \in Seq(PlainSteps) /\ Left = {"skipZero"} \cup Elements(Tail(todo))
        BY <1>0, <2>3, ElementsOf DEF TodoShape, Doing, Left
      <4>2. Restores \cap Left = {}
        BY <4>1, ElementsOf DEF PlainSteps, Restores
      <4>3. "bump" \notin Left
        <5>1. ASSUME "bump" \in Left PROVE FALSE
          <6>1. "bump" \in Left'
            BY <3>1, <5>1
          <6>2. Rank["skipZero"] < Rank["bump"]
            BY <1>0, <2>3, <6>1, DoneLeft
          <6>. QED  BY <6>2 DEF Rank
        <5>. QED  BY <5>1
      <4>. QED  BY <3>1, <4>2, <4>3 DEF ListInv, Moving
    <3>3. \A client \in Clients : epoch[client] = Wrap - 1
      BY <3>1 DEF CounterInv, EpochAt
    <3>. QED
      BY <1>0, <2>0, <2>1, <2>3, <3>1, <3>2, <3>3
         DEF CounterInv, EpochAt, Moving, Cancels, Restores, NextGeneration
  <2>. QED  BY <1>1, <2>2, <2>3 DEF BumpGeneration
<1>2. CASE \E client \in DOMAIN CancelStep : CancelRequests(client)
  <2>1. PICK client \in Clients : CancelRequests(client)
    BY <1>2 DEF CancelStep, Clients
  <2>2. UNCHANGED gen
    BY <2>1 DEF CancelRequests
  <2>. DEFINE c == CancelStep[client]
              r == RestoreStep[client]
  <2>3. /\ c \in Cancels /\ r \in Restores /\ r \in Steps /\ Rank[c] = Rank[r]
        /\ \A other \in Clients \ {client} :
             CancelStep[other] \notin {c, r} /\ RestoreStep[other] \notin {c, r}
    BY DEF Clients, CancelStep, RestoreStep, Cancels, Restores, Steps, Rank
  <2>4. /\ \A other \in Clients \ {client} : epoch'[other] = epoch[other]
        /\ \/ /\ Doing(c) /\ epoch'[client] = Successor(epoch[client])
              /\ IF epoch'[client] = 0 THEN Then(r) ELSE Done
           \/ Doing(r) /\ epoch'[client] = 1 /\ Done
    BY <1>0, <2>1 DEF CancelRequests
  <2>5. ASSUME Doing(c) \/ Doing(r) PROVE Left \cap Moving = {} /\ (c \in Left <=> r \notin Left)
    <3>1. PICK s \in {c, r} : Doing(s)
      BY <2>5
    <3>2. /\ todo \in Seq(Steps) /\ todo # <<>> /\ Head(todo) = s /\ Ordered(todo)
          /\ Tail(todo) \in Seq(PlainSteps)
      BY <1>0, <3>1 DEF ListInv, TodoShape, Doing
    <3>3. /\ Left = {s} \cup Elements(Tail(todo)) /\ s \in Steps
          /\ \A x \in Elements(Tail(todo)) : Rank[s] < Rank[x]
      BY <3>2, OrderedTail, ElementsOf DEF Left
    <3>4. /\ Rank[s] = Rank[c] /\ Rank[s] \in Nat
          /\ \A x \in Moving : Rank[x] < Rank[s] /\ Rank[x] \in Nat
      <4>1. \A x \in Moving : \A y \in Cancels \cup Restores :
              Rank[x] < Rank[y] /\ Rank[x] \in Nat /\ Rank[y] \in Nat
        BY DEF Rank, Moving, Cancels, Restores
      <4>2. Rank[s] = Rank[c]
        BY <2>3, <3>1
      <4>3. s \in Cancels \cup Restores
        BY <2>3, <3>1
      <4>4. \A x \in Moving : Rank[x] < Rank[s] /\ Rank[x] \in Nat
        BY <4>1, <4>3
      <4>5. Rank[s] \in Nat
        BY <3>3, RankTyped
      <4>. QED  BY <4>2, <4>4, <4>5
    <3>5. Left \cap Moving = {}
      BY <2>3, <3>1, <3>3, <3>4 DEF Moving, Cancels, Restores
    <3>6. c \notin Elements(Tail(todo)) /\ r \notin Elements(Tail(todo)) /\ c # r
      BY <2>3, <3>3, <3>4 DEF Cancels, Restores
    <3>. QED  BY <3>1, <3>3, <3>5, <3>6
  <2>6. CASE Doing(c) /\ epoch'[client] = Successor(epoch[client]) /\ epoch'[client] = 0 /\ Then(r)
    <3>1. Left' = (Left \ {c}) \cup {r} /\ c \in Left
      BY <1>0, <2>3, <2>6, ThenLeft
    <3>2. epoch[client] = Wrap - 1
      BY <1>0, <2>6 DEF Successor
    <3>3. gen = 1
      BY <1>0, <2>5, <2>6, <3>1, <3>2 DEF CounterInv, EpochAt, NextGeneration
    <3>4. EpochAt(client)'
      BY <2>2, <2>3, <2>5, <2>6, <3>1, <3>3 DEF EpochAt, Moving, Cancels, Restores
    <3>5. ASSUME NEW other \in Clients \ {client} PROVE EpochAt(other)'
      <4>1. EpochAt(other)
        BY DEF CounterInv
      <4>2. /\ CancelStep[other] \in Left' <=> CancelStep[other] \in Left
            /\ RestoreStep[other] \in Left' <=> RestoreStep[other] \in Left
            /\ \A x \in Moving : x \in Left' <=> x \in Left
        BY <2>3, <3>1, <3>5 DEF Moving, Cancels, Restores
      <4>. QED  BY <2>2, <2>4, <4>1, <4>2, <3>5 DEF EpochAt, Moving
    <3>6. gen' = 0 <=> "skipZero" \in Left'
      BY <2>2, <2>3, <3>1 DEF CounterInv, Cancels, Restores
    <3>. QED  BY <3>4, <3>5, <3>6 DEF CounterInv
  <2>7. CASE /\ Doing(c) /\ epoch'[client] = Successor(epoch[client]) /\ epoch'[client] # 0 /\ Done
    <3>1. Left' = Left \ {c} /\ c \in Left
      BY <1>0, <2>7, DoneLeft
    <3>2. epoch'[client] = NextGeneration(epoch[client]) /\ epoch[client] # Wrap - 1
      BY <1>0, <2>7 DEF Successor, NextGeneration
    <3>3. gen = epoch'[client] /\ r \notin Left
      BY <2>5, <2>7, <3>1, <3>2 DEF CounterInv, EpochAt
    <3>4. EpochAt(client)'
      BY <2>2, <2>3, <2>5, <2>7, <3>1, <3>3 DEF EpochAt, Moving, Cancels, Restores
    <3>5. ASSUME NEW other \in Clients \ {client} PROVE EpochAt(other)'
      <4>1. EpochAt(other)
        BY DEF CounterInv
      <4>2. /\ CancelStep[other] \in Left' <=> CancelStep[other] \in Left
            /\ RestoreStep[other] \in Left' <=> RestoreStep[other] \in Left
            /\ \A x \in Moving : x \in Left' <=> x \in Left
        BY <2>3, <3>1, <3>5 DEF Moving, Cancels, Restores
      <4>. QED  BY <2>2, <2>4, <4>1, <4>2, <3>5 DEF EpochAt, Moving
    <3>6. gen' = 0 <=> "skipZero" \in Left'
      BY <2>2, <2>3, <3>1 DEF CounterInv, Cancels, Restores
    <3>. QED  BY <3>4, <3>5, <3>6 DEF CounterInv
  <2>8. CASE Doing(r) /\ epoch'[client] = 1 /\ Done
    <3>1. Left' = Left \ {r} /\ r \in Left
      BY <1>0, <2>8, DoneLeft
    <3>3. gen = 1 /\ c \notin Left
      BY <2>5, <2>8, <3>1 DEF CounterInv, EpochAt
    <3>4. EpochAt(client)'
      BY <2>2, <2>3, <2>5, <2>8, <3>1, <3>3 DEF EpochAt, Moving, Cancels, Restores
    <3>5. ASSUME NEW other \in Clients \ {client} PROVE EpochAt(other)'
      <4>1. EpochAt(other)
        BY DEF CounterInv
      <4>2. /\ CancelStep[other] \in Left' <=> CancelStep[other] \in Left
            /\ RestoreStep[other] \in Left' <=> RestoreStep[other] \in Left
            /\ \A x \in Moving : x \in Left' <=> x \in Left
        BY <2>3, <3>1, <3>5 DEF Moving, Cancels, Restores
      <4>. QED  BY <2>2, <2>4, <4>1, <4>2, <3>5 DEF EpochAt, Moving
    <3>6. gen' = 0 <=> "skipZero" \in Left'
      BY <2>2, <2>3, <3>1 DEF CounterInv, Cancels, Restores
    <3>. QED  BY <3>4, <3>5, <3>6 DEF CounterInv
  <2>. QED  BY <2>4, <2>6, <2>7, <2>8
<1>3. CASE \/ ResetQueues \/ ClearTexts \/ CommandAudio \/ PostPrompt \/ ForgetIntent
           \/ OrderReset \/ LoadConfig \/ OrderConnect
  <2>1. UNCHANGED <<gen, epoch>>
    BY <1>3 DEF ResetQueues, ClearTexts, CommandAudio, PostPrompt, ForgetIntent, OrderReset,
       LoadConfig, OrderConnect
  <2>2. PICK s \in Steps \ (Moving \cup Cancels \cup Restores) : Doing(s) /\ Done
    BY <1>3 DEF ResetQueues, ClearTexts, CommandAudio, PostPrompt, ForgetIntent, OrderReset,
       LoadConfig, OrderConnect, Steps, PlainSteps, Moving, Cancels, Restores
  <2>3. Left' = Left \ {s}
    BY <1>0, <2>2, DoneLeft
  <2>4. \A x \in Moving \cup Cancels \cup Restores : x \in Left' <=> x \in Left
    BY <2>2, <2>3
  <2>5. \A client \in Clients : CancelStep[client] \in Cancels /\ RestoreStep[client] \in Restores
    BY DEF Clients, CancelStep, RestoreStep, Cancels, Restores
  <2>6. ASSUME NEW client \in Clients PROVE EpochAt(client)'
    <3>1. EpochAt(client)
      BY DEF CounterInv
    <3>. QED  BY <2>1, <2>4, <2>5, <3>1 DEF EpochAt, Moving
  <2>. QED  BY <2>1, <2>4, <2>6 DEF CounterInv, Moving
<1>. QED  BY <1>1, <1>2, <1>3 DEF StateTask

LEMMA HandleKeepsCounters ==
  ASSUME CounterInv, todo = <<>>, NEW e, NEW expired \in BOOLEAN,
         expired => e.type = "TIMEOUT", Handle(e, expired), UNCHANGED <<gen, epoch>>
  PROVE  CounterInv'
<1>0. Left = {}
  BY EmptyLeft
<1>1. gen # 0 /\ \A client \in Clients : epoch[client] = gen
  BY <1>0, CountersRest
<1>2. CASE UNCHANGED todo
  BY <1>2, CounterStutter
<1>3. CASE \E m \in Dispatch(mach, e.type) : todo' = Work(mach.state, m.state, e.type, expired)
  <2>1. PICK m \in Dispatch(mach, e.type) : todo' = Work(mach.state, m.state, e.type, expired)
    BY <1>3
  <2>2. Left' = RecordingSteps(mach.state, m.state)
                \cup PromptSteps(mach.state, m.state, e.type)
                \cup ForgetSteps(e.type, expired) \cup ConfigSteps(m.state, e.type)
    BY <2>1, WorkLeft
  <2>3. /\ "skipZero" \notin Left' /\ Left' \cap Restores = {}
        /\ Left' \cap Cancels # {} => "bump" \in Left'
    BY <2>2 DEF RecordingSteps, PromptSteps, ForgetSteps, ConfigSteps, Restores, Cancels, Cleanings
  <2>4. \A client \in Clients : CancelStep[client] \in Cancels /\ RestoreStep[client] \in Restores
    BY DEF Clients, CancelStep, RestoreStep, Cancels, Restores
  <2>. QED  BY <1>1, <2>3, <2>4 DEF CounterInv, EpochAt, Moving
<1>. QED  BY <1>2, <1>3 DEF Handle

LEMMA NextKeepsCounters ==
  BufferInv /\ CommitInv /\ ListInv /\ CounterInv /\ [Next]_vars => CounterInv'
<1>. SUFFICES ASSUME BufferInv, CommitInv, ListInv, CounterInv, [Next]_vars PROVE CounterInv'
  OBVIOUS
<1>1. CASE ReceiveEvent
  BY <1>1, HandleKeepsCounters DEF ReceiveEvent
<1>2. CASE AsrDeadline
  <2>1. /\ Handle(Event("TIMEOUT", gen), TRUE) /\ Event("TIMEOUT", gen).type = "TIMEOUT"
        /\ todo = <<>> /\ UNCHANGED <<gen, epoch>>
    BY <1>2 DEF AsrDeadline, Event
  <2>. QED  BY <2>1, HandleKeepsCounters
<1>3. CASE ~(StateTask \/ AsrDeadline)
  BY <1>3, OthersKeepList, CounterStutter DEF Next
<1>. QED  BY <1>1, <1>2, <1>3, StateKeepsCounters

THEOREM CountersInductive == Spec => []CounterInv
BY CounterInit, NextKeepsCounters, BuffersInductive, CommitsInductive, ListInductive, PTL
   DEF Spec

----------------------------------------------------------------------------
\* The chat task and its queue carry a generation with the two epochs that
\* went with it when the prompt was posted: with nothing else on the list.

LEMMA ElementsAppend ==
  ASSUME NEW S, NEW q \in Seq(S), NEW e
  PROVE  Elements(Append(q, e)) = Elements(q) \cup {e}
<1>1. q \in Seq(S \cup {e})
  OBVIOUS
<1>. QED  BY <1>1, ElementsOf

LEMMA NoElements == Elements(<<>>) = {}
BY ShortOrdered

Paired(c) == c.chat = c.gen /\ c.tts = c.gen /\ c.gen # 0

ChatPairInv ==
  /\ \A c \in Elements(chatq) : c.type # "CLEAR" => Paired(c)
  /\ chat.pc # "wait" => chat.epoch = chat.gen /\ chat.tts = chat.gen /\ chat.gen # 0

LEMMA ChatPairInit == Init => ChatPairInv
BY NoElements DEF Init, InitWith, Idle, ChatPairInv

LEMMA PostsPairs ==
  ASSUME TextInv, \A c \in Elements(chatq) : c.type # "CLEAR" => Paired(c), PostClearIntent
  PROVE  \A c \in Elements(chatq') : c.type # "CLEAR" => Paired(c)
<1>1. PICK e : e.type = "CLEAR" /\ chatq' \in {chatq, Append(chatq, e)}
  BY DEF PostClearIntent
<1>2. chatq \in Seq(OwnCommands)
  BY DEF TextInv, CommandsOwn
<1>3. Elements(Append(chatq, e)) = Elements(chatq) \cup {e}
  BY <1>2, ElementsAppend
<1>. QED  BY <1>1, <1>3

LEMMA PromptLeft == "prompt" \in Left => Has(todo, "prompt")
BY DEF Left, Elements, Has

\* The prompt is alone on the list.
LEMMA PromptAlone ==
  TextInv /\ "prompt" \in Left => todo = <<"prompt">> /\ Left = {"prompt"}
<1>. SUFFICES ASSUME TextInv, "prompt" \in Left
              PROVE  todo = <<"prompt">> /\ Left = {"prompt"}
  OBVIOUS
<1>1. todo = <<"prompt">>
  BY PromptLeft DEF TextInv, TextsGuarded
<1>. QED  BY <1>1, ShortOrdered DEF Left, Steps, PlainSteps

LEMMA DoingLeft ==
  ASSUME TodoShape, NEW s, Doing(s)
  PROVE  s \in Left /\ s \in Steps
BY ElementsOf DEF TodoShape, Doing, Left

LEMMA PromptKeepsPairs ==
  ASSUME BufferInv, CommitInv, TextInv, CounterInv, ChatPairInv, PostPrompt
  PROVE  ChatPairInv'
<1>1. "prompt" \in Left
  BY DoingLeft DEF PostPrompt, CommitInv
<1>2. gen # 0 /\ epoch["chat"] = gen /\ epoch["tts"] = gen
  BY <1>1, PromptAlone, CountersRest DEF Moving, Cancels, Restores, Clients
<1>3. ASSUME NEW type, NEW text PROVE Paired(ChatCommand(type, text))
  BY <1>2 DEF ChatCommand, Paired
<1>4. PICK e : Paired(e) /\ chatq' \in {chatq, Append(chatq, e)}
  <2>1. PICK type, text : chatq' \in {chatq, Append(chatq, ChatCommand(type, text))}
    BY DEF PostPrompt
  <2>. QED  BY <1>3, <2>1
<1>5. Elements(Append(chatq, e)) = Elements(chatq) \cup {e}
  BY ElementsAppend DEF TextInv, CommandsOwn
<1>6. UNCHANGED chat
  BY DEF PostPrompt, TasksUnchanged
<1>. QED  BY <1>4, <1>5, <1>6 DEF ChatPairInv

LEMMA ChatKeepsPairs == CommitInv /\ TextInv /\ ChatPairInv /\ ChatTask => ChatPairInv'
<1>. SUFFICES ASSUME CommitInv, TextInv, ChatPairInv, ChatTask PROVE ChatPairInv'
  OBVIOUS
<1>1. CASE TakeChatCommand
  <2>1. chatq \in Seq(OwnCommands) /\ chatq # <<>> /\ chatq' = Tail(chatq)
    BY <1>1 DEF TakeChatCommand, TextInv, CommandsOwn
  <2>2. Head(chatq) \in Elements(chatq) /\ Elements(chatq') \subseteq Elements(chatq)
    BY <2>1, ElementsOf
  <2>3. Head(chatq).type # "CLEAR" => Paired(Head(chatq))
    BY <2>2 DEF ChatPairInv
  <2>4. chat'.pc # "wait" => /\ Head(chatq).type # "CLEAR"
                             /\ chat'.gen = Head(chatq).gen
                             /\ chat'.epoch = Head(chatq).chat
                             /\ chat'.tts = Head(chatq).tts
    BY <1>1 DEF TakeChatCommand, Idle
  <2>. QED  BY <2>2, <2>3, <2>4 DEF ChatPairInv, Paired
<1>2. CASE ~TakeChatCommand
  <2>1. UNCHANGED chatq /\ chat.pc # "wait"
    BY <1>2 DEF ChatTask, ReportUnconfigured, AnnounceChat, LockForChat,
       HandleIntent, EndClassification, CheckReply, ShowReply, EndSpeech, EndReply,
       StreamDelta, PostToken, EndChat, CommitAnswer, ReportChat
  <2>2. chat = [pc |-> chat.pc, gen |-> chat.gen, epoch |-> chat.epoch,
                tts |-> chat.tts, text |-> chat.text, after |-> chat.after]
    BY <2>1 DEF CommitInv, ChatRecord
  <2>3. \/ chat' = Idle
        \/ \E pc : chat' = [chat EXCEPT !.pc = pc]
        \/ \E pc, after : chat' = [chat EXCEPT !.pc = pc, !.after = after]
    BY <1>2 DEF ChatTask, ReportUnconfigured, AnnounceChat, LockForChat,
       HandleIntent, EndClassification, CheckReply, ShowReply, EndSpeech, EndReply,
       StreamDelta, PostToken, EndChat, CommitAnswer, ReportChat, ChatMoves
  <2>4. CASE chat' = Idle
    BY <2>1, <2>4 DEF ChatPairInv, Idle
  <2>5. ASSUME NEW pc, chat' = [chat EXCEPT !.pc = pc]
        PROVE  chat'.gen = chat.gen /\ chat'.epoch = chat.epoch /\ chat'.tts = chat.tts
    BY <2>2, <2>5
  <2>6. ASSUME NEW pc, NEW after, chat' = [chat EXCEPT !.pc = pc, !.after = after]
        PROVE  chat'.gen = chat.gen /\ chat'.epoch = chat.epoch /\ chat'.tts = chat.tts
    BY <2>2, <2>6
  <2>. QED  BY <2>1, <2>3, <2>4, <2>5, <2>6 DEF ChatPairInv
<1>. QED  BY <1>1, <1>2

\* What becomes of the chat queue when its own task stands still.
LEMMA ChatQueueGrows ==
  ASSUME [Next]_vars, ~ChatTask
  PROVE  UNCHANGED chat /\ (PostPrompt \/ PostClearIntent \/ chatq' \in {<<>>, chatq})
<1>1. CASE StateTask
  <2>1. UNCHANGED chat
    BY <1>1 DEF StateTask, ReceiveEvent, BumpGeneration, ResetQueues, CancelRequests,
       ClearTexts, CommandAudio, PostPrompt, ForgetIntent, OrderReset, LoadConfig,
       OrderConnect, TasksUnchanged
  <2>2. PostPrompt \/ PostClearIntent \/ chatq' \in {<<>>, chatq}
    BY <1>1 DEF StateTask, ReceiveEvent, BumpGeneration, ResetQueues, CancelRequests,
       ClearTexts, CommandAudio, ForgetIntent, OrderReset, LoadConfig, OrderConnect
  <2>. QED  BY <2>1, <2>2
<1>2. CASE AsrDeadline \/ ButtonTask \/ FactoryReset \/ LoseConfig \/ UNCHANGED vars
  BY <1>2 DEF AsrDeadline, ButtonTask, Press, Release, HoldTooLong, ButtonPosts, LetGo,
     FactoryReset, LoseConfig, TasksUnchanged, vars
<1>3. CASE AudioTask
  BY <1>3 DEF AudioTask, TakeAudioCommand, StopStale, StopEmpty, StopRecording, HandOver,
     ReportAudioFailure, AudioFrame
<1>4. CASE AsrTask
  <2>1. UNCHANGED chat
    BY <1>4 DEF AsrTask, TakeAsrCommand, AnnounceAsr, EndTranscription, LockForAsr,
       CommitTranscript, ReportAsr, AsrFrame
  <2>2. PostClearIntent \/ chatq' = chatq
    BY <1>4 DEF AsrTask, TakeAsrCommand, AnnounceAsr, EndTranscription, LockForAsr,
       CommitTranscript, ReportAsr
  <2>. QED  BY <2>1, <2>2
<1>5. CASE NetTask
  BY <1>5 DEF NetTask, TakeNetCommand, EndConnect, ReportConnect, EraseConfig, ReportLoss,
     NetFrame
<1>. QED  BY <1>1, <1>2, <1>3, <1>4, <1>5 DEF Next

LEMMA NextKeepsPairs ==
  BufferInv /\ CommitInv /\ TextInv /\ CounterInv /\ ChatPairInv /\ [Next]_vars => ChatPairInv'
<1>. SUFFICES ASSUME BufferInv, CommitInv, TextInv, CounterInv, ChatPairInv, [Next]_vars
              PROVE  ChatPairInv'
  OBVIOUS
<1>1. CASE ChatTask
  BY <1>1, ChatKeepsPairs
<1>2. CASE ~ChatTask /\ PostPrompt
  BY <1>2, PromptKeepsPairs
<1>3. CASE ~ChatTask /\ ~PostPrompt
  <2>1. UNCHANGED chat /\ (PostClearIntent \/ chatq' \in {<<>>, chatq})
    BY <1>3, ChatQueueGrows
  <2>2. \A c \in Elements(chatq') : c.type # "CLEAR" => Paired(c)
    BY <2>1, PostsPairs, NoElements DEF ChatPairInv
  <2>. QED  BY <2>1, <2>2 DEF ChatPairInv
<1>. QED  BY <1>1, <1>2, <1>3

\* What the chat task works on carries the epochs of its own generation.
THEOREM PairsInductive == Spec => []ChatPairInv
BY ChatPairInit, NextKeepsPairs, BuffersInductive, CommitsInductive, TextsInductive,
   CountersInductive, PTL DEF Spec

----------------------------------------------------------------------------
\* What the events are: only the button and a reset give orders, and only the
\* ASR task reports that a transcription is done, from the record it keeps of it.

Orders   == {"PRESS_START", "FACTORY_RESET"}
Outcomes == {"ASR_DONE", "ASR_FAILED", "RATE_LIMITED"}
Holding  == {"capture", "hand"}
Working  == {"started", "request", "lock", "commit"}

EventTypes == Orders \cup Outcomes \cup
  {"BOOTED", "CONFIG_READY", "CONFIG_MISSING", "CONFIG_CORRUPT", "NETWORK_READY",
   "NETWORK_FAILED", "PRESS_END", "AUDIO_TOO_LONG", "ASR_STARTED", "CHAT_STARTED",
   "CHAT_TOKEN", "CHAT_DONE", "CHAT_FAILED"}

Events == [type : EventTypes, value : Generations]

ReportShape ==
  asr.pc = "report" =>
    /\ asr.event \in [type : Outcomes \cup {"CONFIG_CORRUPT"}, value : Generations]
    /\ \/ asr.posts = <<"event">>
       \/ /\ asr.event.type # "ASR_DONE"
          /\ asr.posts \in {<<"clear">>, <<"clear", "event">>, <<"event", "clear">>}

EventInv ==
  /\ appq \in Seq(Events)
  /\ netq \in Seq([type : {"connect", "reset"}, gen : Generations])
  /\ audio.pc = "fail" =>
       audio.event \in [type : {"ASR_FAILED", "AUDIO_TOO_LONG"}, value : Generations]
  /\ asr.pc \in Working => asr.gen \in Generations
  /\ asr.pc \in {"lock", "commit"} => asr.type \in Outcomes
  /\ ReportShape
  /\ chat.pc # "wait" => chat.gen \in Generations
  /\ chat.pc \in {"lockAnswer", "commit", "report"} =>
       chat.after \in {"CHAT_DONE", "CHAT_FAILED", "RATE_LIMITED"}
  /\ net.pc = "report" =>
       net.event \in [type : {"NETWORK_READY", "NETWORK_FAILED"}, value : Generations]

\* A post that gives no order, and reports a transcription only as it stands in
\* the record of the ASR task.
Posts ==
  \/ appq' = appq
  \/ \E e \in Events :
       /\ appq' = Append(appq, e) /\ e.type \notin Orders
       /\ e.type = "ASR_DONE" => asr.pc = "report" /\ asr.event = e

LEMMA PostOf ==
  ASSUME NEW e \in Events, e.type \notin Orders,
         e.type = "ASR_DONE" => asr.pc = "report" /\ asr.event = e,
         PostCritical(e) \/ PostBounded(e) \/ PostEnding(e)
  PROVE  Posts
BY DEF PostCritical, PostBounded, PostEnding, Posts

LEMMA EventTyped ==
  ASSUME NEW type \in EventTypes, NEW value \in Generations
  PROVE  /\ Event(type, value) \in Events
         /\ Event(type, value).type = type /\ Event(type, value).value = value
BY DEF Event, Events

LEMMA EventInit == Init => EventInv
<1>. SUFFICES ASSUME Init PROVE EventInv
  OBVIOUS
<1>1. /\ audio.pc = "wait" /\ asr.pc = "wait" /\ chat.pc = "wait" /\ net.pc = "wait"
      /\ netq = <<>> /\ appq \in {<<>>, <<Event("BOOTED", 0)>>}
  BY DEF Init, InitWith, Idle
<1>2. Event("BOOTED", 0) \in Events
  BY WrapAssumption, EventTyped DEF Generations, EventTypes
<1>3. appq \in Seq(Events) /\ netq \in Seq([type : {"connect", "reset"}, gen : Generations])
  <2>1. <<Event("BOOTED", 0)>> \in Seq(Events)
    BY <1>2
  <2>. QED  BY <1>1, <2>1, EmptySeq
<1>. QED  BY <1>1, <1>3 DEF EventInv, ReportShape, Working

\* What the posting tasks post.
LEMMA TasksPost ==
  ASSUME BufferInv, EventInv, ChatPairInv,
         (StateTask /\ ~ReceiveEvent) \/ Release \/ HoldTooLong \/ LetGo \/ AudioTask
         \/ AsrTask \/ ChatTask \/ NetTask \/ LoseConfig
  PROVE  Posts
<1>0. gen \in Generations /\ 0 \in Generations /\ 0 .. Wrap - 1 = Generations
  BY WrapAssumption DEF BufferInv, CountersTyped, Generations
<1>1. CASE StateTask /\ ~ReceiveEvent
  <2>1. \/ UNCHANGED appq
        \/ PostEnding(Event("ASR_FAILED", gen)) \/ PostEnding(Event("CHAT_DONE", gen))
        \/ \E type \in {"CONFIG_CORRUPT", "CONFIG_READY", "CONFIG_MISSING", "NETWORK_FAILED"} :
             PostEnding(Event(type, 0))
    BY <1>1 DEF StateTask, BumpGeneration, ResetQueues, CancelRequests, ClearTexts,
       CommandAudio, PostPrompt, ForgetIntent, OrderReset, LoadConfig, OrderConnect
  <2>2. CASE UNCHANGED appq
    BY <2>2 DEF Posts
  <2>3. CASE PostEnding(Event("ASR_FAILED", gen))
    BY <1>0, <2>3, EventTyped, PostOf DEF Orders, Outcomes, EventTypes
  <2>4. CASE PostEnding(Event("CHAT_DONE", gen))
    BY <1>0, <2>4, EventTyped, PostOf DEF Orders, Outcomes, EventTypes
  <2>5. ASSUME NEW type \in {"CONFIG_CORRUPT", "CONFIG_READY", "CONFIG_MISSING",
                             "NETWORK_FAILED"}, PostEnding(Event(type, 0))
        PROVE  Posts
    BY <1>0, <2>5, EventTyped, PostOf DEF Orders, Outcomes, EventTypes
  <2>. QED  BY <2>1, <2>2, <2>3, <2>4, <2>5
<1>2. CASE Release \/ HoldTooLong \/ LetGo \/ LoseConfig
  <2>1. \/ UNCHANGED appq
        \/ PostCritical(Event("PRESS_END", 0)) \/ PostCritical(Event("AUDIO_TOO_LONG", 0))
    BY <1>2 DEF Release, HoldTooLong, ButtonPosts, LetGo, LoseConfig
  <2>2. CASE UNCHANGED appq
    BY <2>2 DEF Posts
  <2>3. CASE PostCritical(Event("PRESS_END", 0))
    BY <1>0, <2>3, EventTyped, PostOf DEF Orders, Outcomes, EventTypes
  <2>4. CASE PostCritical(Event("AUDIO_TOO_LONG", 0))
    BY <1>0, <2>4, EventTyped, PostOf DEF Orders, Outcomes, EventTypes
  <2>. QED  BY <2>1, <2>2, <2>3, <2>4
<1>3. CASE AudioTask
  <2>1. UNCHANGED appq \/ (audio.pc = "fail" /\ PostCritical(audio.event))
    BY <1>3 DEF AudioTask, TakeAudioCommand, StopStale, StopEmpty, StopRecording, HandOver,
       ReportAudioFailure
  <2>2. CASE UNCHANGED appq
    BY <2>2 DEF Posts
  <2>3. CASE audio.pc = "fail" /\ PostCritical(audio.event)
    <3>1. audio.event \in Events /\ audio.event.type \in {"ASR_FAILED", "AUDIO_TOO_LONG"}
      BY <2>3 DEF EventInv, Events, EventTypes, Outcomes
    <3>2. audio.event.type \notin Orders /\ audio.event.type # "ASR_DONE"
      BY <3>1 DEF Orders
    <3>. QED  BY <2>3, <3>1, <3>2, PostOf
  <2>. QED  BY <2>1, <2>2, <2>3
<1>4. CASE AsrTask
  <2>1. \/ UNCHANGED appq
        \/ asr.pc = "started" /\ PostBounded(Event("ASR_STARTED", asr.gen))
        \/ asr.pc = "report" /\ PostCritical(asr.event)
    BY <1>4 DEF AsrTask, TakeAsrCommand, AnnounceAsr, EndTranscription, LockForAsr,
       CommitTranscript, ReportAsr
  <2>2. CASE UNCHANGED appq
    BY <2>2 DEF Posts
  <2>3. CASE asr.pc = "started" /\ PostBounded(Event("ASR_STARTED", asr.gen))
    <3>1. asr.gen \in Generations
      BY <2>3 DEF EventInv, Working
    <3>. QED  BY <2>3, <3>1, EventTyped, PostOf DEF Orders, Outcomes, EventTypes
  <2>4. CASE asr.pc = "report" /\ PostCritical(asr.event)
    <3>1. asr.event \in Events /\ asr.event.type \notin Orders
      BY <2>4 DEF EventInv, ReportShape, Events, EventTypes, Outcomes, Orders
    <3>. QED  BY <2>4, <3>1, PostOf
  <2>. QED  BY <2>1, <2>2, <2>3, <2>4
<1>5. CASE ChatTask
  <2>1. \/ UNCHANGED appq
        \/ chat.pc # "wait" /\ \E type \in {"CONFIG_CORRUPT", "CHAT_STARTED", "CHAT_DONE", "CHAT_TOKEN"} :
             LET e == Event(type, chat.gen) IN PostBounded(e) \/ PostEnding(e)
        \/ chat.pc = "report" /\ PostCritical(Event(chat.after, chat.gen))
    BY <1>5 DEF ChatTask, TakeChatCommand, ReportUnconfigured, AnnounceChat, LockForChat,
       HandleIntent, EndClassification, CheckReply, ShowReply, EndSpeech, EndReply,
       StreamDelta, PostToken, EndChat, CommitAnswer, ReportChat
  <2>2. CASE UNCHANGED appq
    BY <2>2 DEF Posts
  <2>3. ASSUME NEW type \in {"CONFIG_CORRUPT", "CHAT_STARTED", "CHAT_DONE", "CHAT_TOKEN"},
               chat.pc # "wait",
               PostBounded(Event(type, chat.gen)) \/ PostEnding(Event(type, chat.gen))
        PROVE  Posts
    <3>1. chat.gen \in Generations
      BY <2>3 DEF EventInv
    <3>. QED  BY <2>3, <3>1, EventTyped, PostOf DEF Orders, Outcomes, EventTypes
  <2>4. CASE chat.pc = "report" /\ PostCritical(Event(chat.after, chat.gen))
    <3>1. chat.gen \in Generations /\ chat.after \in {"CHAT_DONE", "CHAT_FAILED", "RATE_LIMITED"}
      BY <2>4 DEF EventInv
    <3>. QED  BY <2>4, <3>1, EventTyped, PostOf DEF Orders, Outcomes, EventTypes
  <2>. QED  BY <2>1, <2>2, <2>3, <2>4
<1>6. CASE NetTask
  <2>1. \/ UNCHANGED appq
        \/ net.pc = "report" /\ PostCritical(net.event)
        \/ \E type \in {"CONFIG_MISSING", "CONFIG_CORRUPT"} : PostEnding(Event(type, 0))
    BY <1>6 DEF NetTask, TakeNetCommand, EndConnect, ReportConnect, EraseConfig, ReportLoss
  <2>2. CASE UNCHANGED appq
    BY <2>2 DEF Posts
  <2>3. CASE net.pc = "report" /\ PostCritical(net.event)
    <3>1. net.event \in Events /\ net.event.type \in {"NETWORK_READY", "NETWORK_FAILED"}
      BY <2>3 DEF EventInv, Events, EventTypes
    <3>. QED  BY <2>3, <3>1, PostOf DEF Orders, Outcomes, EventTypes
  <2>4. ASSUME NEW type \in {"CONFIG_MISSING", "CONFIG_CORRUPT"}, PostEnding(Event(type, 0))
        PROVE  Posts
    BY <1>0, <2>4, EventTyped, PostOf DEF Orders, Outcomes, EventTypes
  <2>. QED  BY <2>1, <2>2, <2>3, <2>4
<1>. QED  BY <1>1, <1>2, <1>3, <1>4, <1>5, <1>6

LEMMA PostsTyped == appq \in Seq(Events) /\ Posts => appq' \in Seq(Events)
BY DEF Posts

LEMMA AudioKeepsEvents == BufferInv /\ EventInv /\ ChatPairInv /\ AudioTask => EventInv'
<1>. SUFFICES ASSUME BufferInv, EventInv, ChatPairInv, AudioTask PROVE EventInv'
  OBVIOUS
<1>1. UNCHANGED <<netq, asr, chat, net>>
  BY DEF AudioTask, TakeAudioCommand, StopStale, StopEmpty, StopRecording, HandOver,
     ReportAudioFailure, AudioFrame
<1>2. appq' \in Seq(Events)
  BY TasksPost, PostsTyped DEF EventInv
<1>3. audio'.pc = "fail" =>
        audio'.event \in [type : {"ASR_FAILED", "AUDIO_TOO_LONG"}, value : Generations]
  <2>1. CASE TakeAudioCommand
    <3>1. audioq \in Seq(AudioCommands) /\ audioq # <<>>
      BY <2>1 DEF TakeAudioCommand, BufferInv, CountersTyped
    <3>2. Head(audioq) \in AudioCommands
      BY <3>1
    <3>4. Head(audioq).gen \in Generations
      BY <3>2 DEF AudioCommands
    <3>3. \/ audio' = audio /\ audio.pc = "wait"
          \/ audio' = [pc |-> "capture", gen |-> Head(audioq).gen]
          \/ audio' = [pc |-> "fail", event |-> Event("ASR_FAILED", Head(audioq).gen)]
      BY <2>1 DEF TakeAudioCommand
    <3>. QED  BY <3>3, <3>4 DEF Event
  <2>2. CASE StopEmpty
    BY <2>2 DEF StopEmpty, Event, BufferInv, RecordingShape
  <2>3. CASE HandOver
    BY <2>3 DEF HandOver, Event, BufferInv, RecordingShape, Idle
  <2>4. CASE StopStale \/ StopRecording \/ ReportAudioFailure
    BY <2>4 DEF StopStale, StopRecording, ReportAudioFailure, Idle
  <2>. QED  BY <2>1, <2>2, <2>3, <2>4 DEF AudioTask
<1>. QED  BY <1>1, <1>2, <1>3 DEF EventInv, ReportShape

LEMMA AsrKeepsEvents == BufferInv /\ CommitInv /\ EventInv /\ ChatPairInv /\ AsrTask => EventInv'
<1>. SUFFICES ASSUME BufferInv, CommitInv, EventInv, ChatPairInv, AsrTask PROVE EventInv'
  OBVIOUS
<1>1. UNCHANGED <<netq, audio, chat, net>>
  BY DEF AsrTask, TakeAsrCommand, AnnounceAsr, EndTranscription, LockForAsr,
     CommitTranscript, ReportAsr, AsrFrame
<1>2. appq' \in Seq(Events)
  BY TasksPost, PostsTyped DEF EventInv
<1>3. /\ asr'.pc \in Working => asr'.gen \in Generations
      /\ asr'.pc \in {"lock", "commit"} => asr'.type \in Outcomes
      /\ ReportShape'
  <2>1. CASE TakeAsrCommand
    <3>1. asrq \in Seq(AsrCommands) /\ asrq # <<>> /\ asr.pc = "wait"
      BY <2>1 DEF TakeAsrCommand, BufferInv, CountersTyped
    <3>0. Head(asrq) \in AsrCommands
      BY <3>1
    <3>2. Head(asrq).gen \in Generations
      BY <3>0 DEF AsrCommands
    <3>3. \/ asr' = asr
          \/ AsrFails(Event("CONFIG_CORRUPT", Head(asrq).gen))
          \/ AsrFails(Event("ASR_FAILED", Head(asrq).gen))
          \/ asr' = [pc |-> "started", gen |-> Head(asrq).gen, epoch |-> Head(asrq).epoch]
      BY <2>1 DEF TakeAsrCommand
    <3>. QED  BY <3>1, <3>2, <3>3 DEF AsrFails, Event, Outcomes, Working, ReportShape
  <2>2. CASE AnnounceAsr
    <3>1. asr'.pc = "request" /\ asr'.gen = asr.gen /\ asr.pc = "started"
      BY <2>2 DEF AnnounceAsr, BufferInv, AsrRecords
    <3>. QED  BY <3>1 DEF EventInv, Working, ReportShape
  <2>3. CASE EndTranscription
    <3>1. PICK type \in Outcomes : asr' = [pc |-> "lock", gen |-> asr.gen, type |-> type]
      BY <2>3 DEF EndTranscription, Outcomes
    <3>2. asr.pc = "request"
      BY <2>3 DEF EndTranscription
    <3>. QED  BY <3>1, <3>2 DEF EventInv, Working, ReportShape
  <2>4. CASE LockForAsr
    <3>1. asr' = Idle \/ asr' = [asr EXCEPT !.pc = "commit"]
      BY <2>4 DEF LockForAsr
    <3>2. asr.pc = "lock" /\ asr = [pc |-> "lock", gen |-> asr.gen, type |-> asr.type]
      BY <2>4 DEF LockForAsr, BufferInv, AsrRecords
    <3>3. CASE asr' = Idle
      BY <3>3 DEF Idle, Working, ReportShape
    <3>4. CASE asr' = [asr EXCEPT !.pc = "commit"]
      <4>1. asr'.pc = "commit" /\ asr'.gen = asr.gen /\ asr'.type = asr.type
        BY <3>2, <3>4
      <4>. QED  BY <3>2, <4>1 DEF EventInv, Working, ReportShape
    <3>. QED  BY <3>1, <3>3, <3>4
  <2>5. CASE CommitTranscript
    <3>1. /\ asr'.pc = "report" /\ asr'.event = Event(asr.type, asr.gen)
          /\ asr'.posts = IF asr.type = "ASR_DONE" THEN <<"event">> ELSE <<"clear", "event">>
          /\ asr.type \in Outcomes /\ asr.gen \in Generations
      BY <2>5 DEF CommitTranscript, EventInv, Working
    <3>. QED  BY <3>1 DEF Event, Working, ReportShape
  <2>6. CASE ReportAsr
    <3>1. /\ asr.pc = "report"
          /\ asr = [pc |-> "report", event |-> asr.event, posts |-> asr.posts]
          /\ asr' = IF Len(asr.posts) = 1 THEN Idle ELSE [asr EXCEPT !.posts = Tail(@)]
      BY <2>6 DEF ReportAsr, BufferInv, AsrRecords
    <3>2. CASE Len(asr.posts) = 1
      BY <3>1, <3>2 DEF Idle, Working, ReportShape
    <3>3. CASE Len(asr.posts) # 1
      <4>1. asr'.pc = "report" /\ asr'.event = asr.event /\ asr'.posts = Tail(asr.posts)
        BY <3>1, <3>3
      <4>2. /\ asr.posts \in {<<"clear", "event">>, <<"event", "clear">>}
            /\ asr.event.type # "ASR_DONE"
        <5>1. Len(<<"event">>) = 1 /\ Len(<<"clear">>) = 1
          OBVIOUS
        <5>2. asr.posts # <<"event">> /\ asr.posts # <<"clear">>
          BY <3>3, <5>1
        <5>. QED  BY <3>1, <5>2 DEF EventInv, ReportShape
      <4>3. Tail(asr.posts) \in {<<"event">>, <<"clear">>}
        <5>1. Tail(<<"clear", "event">>) = <<"event">> /\ Tail(<<"event", "clear">>) = <<"clear">>
          OBVIOUS
        <5>. QED  BY <4>2, <5>1
      <4>. QED  BY <3>1, <4>1, <4>2, <4>3 DEF EventInv, ReportShape, Working
    <3>. QED  BY <3>2, <3>3
  <2>. QED  BY <2>1, <2>2, <2>3, <2>4, <2>5, <2>6 DEF AsrTask
<1>. QED  BY <1>1, <1>2, <1>3 DEF EventInv

LEMMA ChatKeepsEvents ==
  BufferInv /\ CommitInv /\ TextInv /\ EventInv /\ ChatPairInv /\ ChatTask => EventInv'
<1>. SUFFICES ASSUME BufferInv, CommitInv, TextInv, EventInv, ChatPairInv, ChatTask
              PROVE  EventInv'
  OBVIOUS
<1>1. UNCHANGED <<netq, audio, asr, net>>
  BY DEF ChatTask, TakeChatCommand, ReportUnconfigured, AnnounceChat, LockForChat,
     HandleIntent, EndClassification, CheckReply, ShowReply, EndSpeech, EndReply,
     StreamDelta, PostToken, EndChat, CommitAnswer, ReportChat, ChatFrame
<1>2. appq' \in Seq(Events)
  BY TasksPost, PostsTyped DEF EventInv
<1>3. /\ chat'.pc # "wait" => chat'.gen \in Generations
      /\ chat'.pc \in {"lockAnswer", "commit", "report"} =>
           chat'.after \in {"CHAT_DONE", "CHAT_FAILED", "RATE_LIMITED"}
  <2>1. CASE TakeChatCommand
    <3>1. chatq \in Seq(OwnCommands) /\ chatq # <<>>
      BY <2>1 DEF TakeChatCommand, TextInv, CommandsOwn
    <3>2. Head(chatq).gen \in Generations
      BY <3>1 DEF OwnCommands
    <3>3. /\ chat'.pc # "wait" => chat'.gen = Head(chatq).gen
          /\ chat'.pc \notin {"lockAnswer", "commit", "report"}
      BY <2>1 DEF TakeChatCommand, Idle
    <3>. QED  BY <3>2, <3>3
  <2>2. CASE ~TakeChatCommand
    <3>1. chat.pc # "wait"
      BY <2>2 DEF ChatTask, ReportUnconfigured, AnnounceChat, LockForChat,
         HandleIntent, EndClassification, CheckReply, ShowReply, EndSpeech, EndReply,
         StreamDelta, PostToken, EndChat, CommitAnswer, ReportChat
    <3>2. chat = [pc |-> chat.pc, gen |-> chat.gen, epoch |-> chat.epoch,
                  tts |-> chat.tts, text |-> chat.text, after |-> chat.after]
      BY <3>1 DEF CommitInv, ChatRecord
    <3>3. \/ chat' = Idle
          \/ \E pc : /\ chat' = [chat EXCEPT !.pc = pc]
                     /\ pc = "commit" => chat.pc = "lockAnswer"
                     /\ pc = "report" => chat.pc = "commit"
                     /\ pc # "lockAnswer"
          \/ \E pc, after : /\ chat' = [chat EXCEPT !.pc = pc, !.after = after]
                            /\ \/ pc = "speak"
                               \/ after \in {"CHAT_DONE", "CHAT_FAILED", "RATE_LIMITED"}
      <4>1. CASE LockForChat
        BY <4>1 DEF LockForChat, ChatMoves
      <4>2. CASE EndClassification \/ HandleIntent \/ AnnounceChat \/ StreamDelta \/ PostToken
        BY <4>2 DEF EndClassification, HandleIntent, AnnounceChat, StreamDelta, PostToken,
           ChatMoves
      <4>3. CASE CommitAnswer \/ ReportChat \/ EndSpeech \/ EndReply \/ CheckReply
                 \/ ReportUnconfigured
        BY <4>3 DEF CommitAnswer, ReportChat, EndSpeech, EndReply, CheckReply,
           ReportUnconfigured, ChatMoves
      <4>4. CASE ShowReply \/ EndChat
        BY <4>4 DEF ShowReply, EndChat
      <4>. QED  BY <2>2, <4>1, <4>2, <4>3, <4>4 DEF ChatTask
    <3>4. CASE chat' = Idle
      BY <3>4 DEF Idle
    <3>5. ASSUME NEW pc, chat' = [chat EXCEPT !.pc = pc]
          PROVE  chat'.pc = pc /\ chat'.gen = chat.gen /\ chat'.after = chat.after
      BY <3>2, <3>5
    <3>6. ASSUME NEW pc, NEW after, chat' = [chat EXCEPT !.pc = pc, !.after = after]
          PROVE  chat'.pc = pc /\ chat'.gen = chat.gen /\ chat'.after = after
      BY <3>2, <3>6
    <3>7. chat.gen \in Generations
      BY <3>1 DEF EventInv
    <3>8. CASE \E pc : /\ chat' = [chat EXCEPT !.pc = pc]
                       /\ pc = "commit" => chat.pc = "lockAnswer"
                       /\ pc = "report" => chat.pc = "commit"
                       /\ pc # "lockAnswer"
      <4>1. PICK pc : /\ chat' = [chat EXCEPT !.pc = pc]
                      /\ pc = "commit" => chat.pc = "lockAnswer"
                      /\ pc = "report" => chat.pc = "commit"
                      /\ pc # "lockAnswer"
        BY <3>8
      <4>2. chat'.pc = pc /\ chat'.gen = chat.gen /\ chat'.after = chat.after
        BY <3>5, <4>1
      <4>. QED  BY <3>7, <4>1, <4>2 DEF EventInv
    <3>9. CASE \E pc, after : /\ chat' = [chat EXCEPT !.pc = pc, !.after = after]
                              /\ \/ pc = "speak"
                                 \/ after \in {"CHAT_DONE", "CHAT_FAILED", "RATE_LIMITED"}
      BY <3>6, <3>7, <3>9
    <3>. QED  BY <3>3, <3>4, <3>8, <3>9
  <2>. QED  BY <2>1, <2>2
<1>. QED  BY <1>1, <1>2, <1>3 DEF EventInv, ReportShape

LEMMA NetKeepsEvents == BufferInv /\ EventInv /\ ChatPairInv /\ NetTask => EventInv'
<1>. SUFFICES ASSUME BufferInv, EventInv, ChatPairInv, NetTask PROVE EventInv'
  OBVIOUS
<1>1. UNCHANGED <<audio, asr, chat>>
  BY DEF NetTask, TakeNetCommand, EndConnect, ReportConnect, EraseConfig, ReportLoss, NetFrame
<1>2. appq' \in Seq(Events)
  BY TasksPost, PostsTyped DEF EventInv
<1>. DEFINE N == [type : {"connect", "reset"}, gen : Generations]
<1>3. netq \in Seq(N)
  BY DEF EventInv
<1>5. \A c \in N : c.type # "report"
  OBVIOUS
<1>4. /\ netq' \in Seq(N)
      /\ net'.pc = "report" =>
           net'.event \in [type : {"NETWORK_READY", "NETWORK_FAILED"}, value : Generations]
  <2>1. CASE TakeNetCommand
    <3>1. netq # <<>> /\ netq' = Tail(netq) /\ net'.pc = Head(netq).type
      BY <2>1 DEF TakeNetCommand
    <3>2. Head(netq) \in N /\ netq' \in Seq(N)
      <4>. HIDE DEF N
      <4>. QED  BY <1>3, <3>1
    <3>. QED  BY <1>5, <3>1, <3>2
  <2>2. CASE ~TakeNetCommand
    <3>1. UNCHANGED netq
      BY <2>2 DEF NetTask, EndConnect, ReportConnect, EraseConfig, ReportLoss, NetFrame
    <3>2. \/ net' = Idle
          \/ \E type \in {"NETWORK_READY", "NETWORK_FAILED"} :
               net' = [pc |-> "report", event |-> Event(type, 0)]
      BY <2>2 DEF NetTask, EndConnect, ReportConnect, EraseConfig, ReportLoss
    <3>3. 0 \in Generations
      BY WrapAssumption DEF Generations
    <3>. QED  BY <1>3, <3>1, <3>2, <3>3 DEF Idle, Event
  <2>. QED  BY <2>1, <2>2
<1>. QED  BY <1>1, <1>2, <1>4 DEF EventInv, ReportShape

LEMMA StateKeepsEvents == BufferInv /\ EventInv /\ ChatPairInv /\ StateTask => EventInv'
<1>. SUFFICES ASSUME BufferInv, EventInv, ChatPairInv, StateTask PROVE EventInv'
  OBVIOUS
<1>1. UNCHANGED <<audio, asr, chat, net>>
  BY DEF StateTask, ReceiveEvent, BumpGeneration, ResetQueues, CancelRequests, ClearTexts,
         CommandAudio, PostPrompt, ForgetIntent, OrderReset, LoadConfig, OrderConnect,
         TasksUnchanged
<1>2. appq' \in Seq(Events)
  <2>1. CASE ReceiveEvent
    BY <2>1 DEF ReceiveEvent, EventInv
  <2>. QED  BY <2>1, TasksPost, PostsTyped DEF EventInv
<1>. DEFINE N == [type : {"connect", "reset"}, gen : Generations]
<1>3. netq' \in Seq(N)
  <2>1. netq \in Seq(N) /\ gen \in Generations /\ 0 \in Generations
    BY WrapAssumption DEF EventInv, BufferInv, CountersTyped, Generations
  <2>2. \/ netq' = netq
        \/ netq' = <<[type |-> "reset", gen |-> 0]>>
        \/ netq' = Append(netq, [type |-> "connect", gen |-> gen])
    BY DEF StateTask, ReceiveEvent, BumpGeneration, ResetQueues, CancelRequests, ClearTexts,
           CommandAudio, PostPrompt, ForgetIntent, OrderReset, LoadConfig, OrderConnect
  <2>3. [type |-> "reset", gen |-> 0] \in N /\ [type |-> "connect", gen |-> gen] \in N
    BY <2>1
  <2>. HIDE DEF N
  <2>4. netq' = netq \/ \E c \in N : netq' = <<c>> \/ netq' = Append(netq, c)
    BY <2>2, <2>3
  <2>5. CASE \E c \in N : netq' = <<c>>
    <3>1. PICK c \in N : netq' = <<c>>
      BY <2>5
    <3>2. <<c>> \in Seq(N)
      OBVIOUS
    <3>. QED  BY <3>1, <3>2
  <2>6. CASE \E c \in N : netq' = Append(netq, c)
    BY <2>1, <2>6
  <2>. QED  BY <2>1, <2>4, <2>5, <2>6
<1>. QED  BY <1>1, <1>2, <1>3 DEF EventInv, ReportShape

LEMMA NextKeepsEvents ==
  BufferInv /\ CommitInv /\ TextInv /\ EventInv /\ ChatPairInv /\ [Next]_vars => EventInv'
<1>. SUFFICES ASSUME BufferInv, CommitInv, TextInv, EventInv, ChatPairInv, [Next]_vars
              PROVE  EventInv'
  OBVIOUS
<1>1. CASE AsrDeadline
  <2>1. UNCHANGED <<netq, audio, asr, chat, net>> /\ appq' \in Seq(Events)
    BY <1>1 DEF AsrDeadline, TasksUnchanged, EventInv
  <2>. QED  BY <2>1 DEF EventInv, ReportShape
<1>2. CASE ButtonTask \/ FactoryReset \/ LoseConfig
  <2>1. UNCHANGED <<netq, audio, asr, chat>> /\ (net' = net \/ net'.pc = "lost")
    BY <1>2 DEF ButtonTask, Press, Release, HoldTooLong, ButtonPosts, LetGo, FactoryReset,
       LoseConfig
  <2>2. appq' \in Seq(Events)
    <3>1. CASE Press \/ FactoryReset
      <4>1. \E type \in Orders : PostCritical(Event(type, 0))
        BY <3>1 DEF Press, FactoryReset, ButtonPosts, Orders
      <4>2. \A type \in Orders : Event(type, 0) \in Events
        BY WrapAssumption, EventTyped DEF Orders, EventTypes, Generations
      <4>. QED  BY <4>1, <4>2 DEF PostCritical, EventInv
    <3>2. CASE ~(Press \/ FactoryReset)
      BY <1>2, <3>2, TasksPost, PostsTyped DEF EventInv, ButtonTask
    <3>. QED  BY <3>1, <3>2
  <2>. QED  BY <2>1, <2>2 DEF EventInv, ReportShape
<1>3. CASE UNCHANGED vars
  BY <1>3 DEF vars, EventInv, ReportShape
<1>. QED
  BY <1>1, <1>2, <1>3, StateKeepsEvents, AudioKeepsEvents, AsrKeepsEvents, ChatKeepsEvents,
     NetKeepsEvents DEF Next

\* The events and the records they are taken from have the types said.
THEOREM EventsInductive == Spec => []EventInv
BY EventInit, NextKeepsEvents, BuffersInductive, CommitsInductive, TextsInductive,
   PairsInductive, PTL DEF Spec

----------------------------------------------------------------------------
\* How far the generation can get.  Every press moves it at most twice, once for
\* the recording and once for the deadline of what it leads to, and every reset
\* once; so it never comes back to a value it has had.

Count(q, type) == Cardinality({i \in DOMAIN q : q[i].type = type})

LEMMA CountOf ==
  ASSUME NEW S, NEW q \in Seq(S), NEW type
  PROVE  /\ Count(q, type) \in Nat
         /\ \A e \in S : Count(Append(q, e), type) =
                           IF e.type = type THEN Count(q, type) + 1 ELSE Count(q, type)
         /\ q # <<>> => Count(q, type) = IF Head(q).type = type THEN Count(Tail(q), type) + 1
                                                               ELSE Count(Tail(q), type)
<1>. DEFINE P(r) == {i \in DOMAIN r : r[i].type = type}
<1>1. ASSUME NEW r \in Seq(S) PROVE IsFiniteSet(P(r)) /\ Cardinality(P(r)) \in Nat
  <2>1. DOMAIN r = 1 .. Len(r) /\ Len(r) \in Nat
    BY LenProperties
  <2>2. IsFiniteSet(1 .. Len(r))
    BY <2>1, FS_Interval
  <2>3. IsFiniteSet(P(r))
    BY <2>1, <2>2, FS_Subset
  <2>. QED  BY <2>3, FS_CardinalityType
<1>2. ASSUME NEW e \in S
      PROVE  Cardinality(P(Append(q, e))) =
               IF e.type = type THEN Cardinality(P(q)) + 1 ELSE Cardinality(P(q))
  <2>1. /\ DOMAIN q = 1 .. Len(q) /\ Len(q) \in Nat
        /\ DOMAIN Append(q, e) = 1 .. Len(q) + 1
        /\ \A i \in 1 .. Len(q) : Append(q, e)[i] = q[i]
        /\ Append(q, e)[Len(q) + 1] = e
    BY LenProperties, AppendProperties
  <2>2. /\ \A i \in 1 .. Len(q) + 1 : i \in 1 .. Len(q) \/ i = Len(q) + 1
        /\ 1 .. Len(q) \subseteq 1 .. Len(q) + 1
        /\ Len(q) + 1 \in 1 .. Len(q) + 1 /\ Len(q) + 1 \notin 1 .. Len(q)
    BY <2>1
  <2>3. P(Append(q, e)) = IF e.type = type THEN P(q) \cup {Len(q) + 1} ELSE P(q)
    <3>1. ASSUME NEW i \in P(q) PROVE i \in P(Append(q, e))
      BY <2>1, <2>2, <3>1
    <3>2. ASSUME NEW i \in P(Append(q, e)), i \notin P(q)
          PROVE  i = Len(q) + 1 /\ e.type = type
      BY <2>1, <2>2, <3>2
    <3>3. e.type = type => Len(q) + 1 \in P(Append(q, e))
      BY <2>1, <2>2
    <3>. QED  BY <3>1, <3>2, <3>3
  <2>4. Len(q) + 1 \notin P(q)
    BY <2>1, <2>2
  <2>5. Cardinality(P(q) \cup {Len(q) + 1}) = Cardinality(P(q)) + 1
    <3>1. IsFiniteSet(P(q))
      BY <1>1
    <3>. QED  BY <2>4, <3>1, FS_AddElement
  <2>. QED  BY <2>3, <2>5
<1>3. ASSUME q # <<>>
      PROVE  Cardinality(P(q)) = IF Head(q).type = type THEN Cardinality(P(Tail(q))) + 1
                                                       ELSE Cardinality(P(Tail(q)))
  <2>1. /\ DOMAIN q = 1 .. Len(q) /\ Len(q) \in Nat \ {0} /\ Head(q) = q[1]
        /\ DOMAIN Tail(q) = 1 .. Len(q) - 1 /\ Tail(q) \in Seq(S)
        /\ \A i \in 1 .. Len(q) - 1 : Tail(q)[i] = q[i + 1]
    BY <1>3, LenProperties, HeadTailProperties, EmptySeq
  <2>. DEFINE R == {i \in 2 .. Len(q) : q[i].type = type}
              f == [i \in P(Tail(q)) |-> i + 1]
  <2>2. /\ \A i \in 1 .. Len(q) - 1 : i + 1 \in 2 .. Len(q)
        /\ \A j \in 2 .. Len(q) : j - 1 \in 1 .. Len(q) - 1 /\ (j - 1) + 1 = j
        /\ \A j \in 2 .. Len(q) : j \in 1 .. Len(q) /\ j # 1
        /\ \A j \in 1 .. Len(q) : j = 1 \/ j \in 2 .. Len(q)
        /\ 1 \in 1 .. Len(q)
    BY <2>1
  <2>3. f \in Bijection(P(Tail(q)), R)
    <3>1. f \in [P(Tail(q)) -> R]
      BY <2>1, <2>2
    <3>2. \A i, j \in P(Tail(q)) : f[i] = f[j] => i = j
      BY <2>1
    <3>3. \A j \in R : \E i \in P(Tail(q)) : f[i] = j
      <4>1. ASSUME NEW j \in R PROVE j - 1 \in P(Tail(q)) /\ f[j - 1] = j
        BY <2>1, <2>2, <4>1
      <4>. QED  BY <4>1
    <3>4. f \in Injection(P(Tail(q)), R)
      BY <3>1, <3>2 DEF Injection, IsInjective
    <3>5. f \in Surjection(P(Tail(q)), R)
      BY <3>1, <3>3 DEF Surjection
    <3>. QED  BY <3>4, <3>5 DEF Bijection
  <2>4. IsFiniteSet(P(Tail(q))) /\ IsFiniteSet(P(q))
    BY <1>1, <2>1
  <2>5. R \subseteq P(q)
    BY <2>1, <2>2
  <2>6. IsFiniteSet(R)
    BY <2>4, <2>5, FS_Subset
  <2>7. Cardinality(R) = Cardinality(P(Tail(q)))
    <3>1. ExistsBijection(P(Tail(q)), R)
      BY <2>3 DEF ExistsBijection
    <3>. QED  BY <3>1, <2>4, FS_Bijection
  <2>8. P(q) = IF Head(q).type = type THEN R \cup {1} ELSE R
    <3>1. ASSUME NEW i \in P(q), i # 1 PROVE i \in R
      BY <2>1, <2>2, <3>1
    <3>2. 1 \in P(q) <=> Head(q).type = type
      BY <2>1, <2>2
    <3>. QED  BY <2>5, <3>1, <3>2
  <2>9. 1 \notin R
    BY <2>2
  <2>10. Cardinality(R \cup {1}) = Cardinality(R) + 1
    BY <2>6, <2>9, FS_AddElement
  <2>. QED  BY <2>7, <2>8, <2>10
<1>. QED  BY <1>1, <1>2, <1>3 DEF Count

Position(g) == IF g = Wrap - 1 THEN 0 ELSE g
ToMove == IF Left \cap Moving # {} THEN 1 ELSE 0
InPhase == IF mach.state \in Busy THEN 1 ELSE 0

Presses == Count(appq, "PRESS_START")
Resets  == Count(appq, "FACTORY_RESET")

Spent    == Position(gen) + ToMove + InPhase
OnTheWay == 2 * Presses + Resets
Allowed  == 2 * button.orders + 1

Buttons == [at : {"up", "down", "held"}, orders : 0 .. MaxOrders]

BudgetInv == button \in Buttons /\ Spent + OnTheWay <= Allowed

LEMMA CountsTyped == EventInv => Presses \in Nat /\ Resets \in Nat
BY CountOf DEF EventInv, Presses, Resets

LEMMA PositionTyped == BufferInv => Position(gen) \in Nat
BY WrapAssumption DEF BufferInv, CountersTyped, Generations, Position

LEMMA BudgetTyped ==
  ASSUME BufferInv, EventInv, BudgetInv
  PROVE  /\ Spent \in Nat /\ OnTheWay \in Nat /\ Allowed \in Nat
         /\ Position(gen) \in Nat /\ ToMove \in {0, 1} /\ InPhase \in {0, 1}
         /\ Presses \in Nat /\ Resets \in Nat
         /\ button.orders \in 0 .. MaxOrders /\ button.orders \in Nat /\ MaxOrders \in Nat
<1>1. Position(gen) \in Nat /\ Presses \in Nat /\ Resets \in Nat /\ MaxOrders \in Nat
  BY PositionTyped, CountsTyped, DepthAssumption
<1>2. ToMove \in {0, 1} /\ InPhase \in {0, 1}
  BY DEF ToMove, InPhase
<1>3. button.orders \in 0 .. MaxOrders /\ button.orders \in Nat
  BY <1>1 DEF BudgetInv, Buttons
<1>. QED  BY <1>1, <1>2, <1>3 DEF Spent, OnTheWay, Allowed

LEMMA ButtonPressed ==
  ASSUME NEW b \in Buttons, NEW at \in {"up", "down", "held"}
  PROVE  /\ [b EXCEPT !.at = at] = [at |-> at, orders |-> b.orders]
         /\ [b EXCEPT !.at = at, !.orders = @ + 0] = [at |-> at, orders |-> b.orders + 0]
         /\ [b EXCEPT !.at = at, !.orders = @ + 1] = [at |-> at, orders |-> b.orders + 1]
         /\ [b EXCEPT !.orders = @ + 1] = [at |-> b.at, orders |-> b.orders + 1]
         /\ b.at \in {"up", "down", "held"} /\ b.orders \in 0 .. MaxOrders
<1>1. MaxOrders \in Nat
  BY DepthAssumption
<1>2. b \in [at : {"up", "down", "held"}, orders : Nat]
  BY <1>1 DEF Buttons
<1>3. b.at \in {"up", "down", "held"} /\ b.orders \in 0 .. MaxOrders
  BY DEF Buttons
<1>4. [b EXCEPT !.at = at] = [at |-> at, orders |-> b.orders]
  BY <1>2
<1>5. [b EXCEPT !.at = at, !.orders = @ + 0] = [at |-> at, orders |-> b.orders + 0]
  <2>1. ASSUME NEW c, c = [b EXCEPT !.at = at, !.orders = @ + 0]
        PROVE  c = [at |-> at, orders |-> b.orders + 0]
    BY <1>2, <2>1
  <2>. QED  BY <2>1
<1>6. [b EXCEPT !.at = at, !.orders = @ + 1] = [at |-> at, orders |-> b.orders + 1]
  <2>1. ASSUME NEW c, c = [b EXCEPT !.at = at, !.orders = @ + 1]
        PROVE  c = [at |-> at, orders |-> b.orders + 1]
    BY <1>2, <2>1
  <2>. QED  BY <2>1
<1>7. [b EXCEPT !.orders = @ + 1] = [at |-> b.at, orders |-> b.orders + 1]
  BY <1>2
<1>. QED  BY <1>3, <1>4, <1>5, <1>6, <1>7

\* The sums before and after a step.
LEMMA OrderSums ==
  ASSUME Presses \in Nat, Resets \in Nat, Presses' \in Nat, Resets' \in Nat
  PROVE  /\ OnTheWay \in Nat /\ OnTheWay' \in Nat
         /\ Presses = Presses' + 1 /\ Resets = Resets' => OnTheWay' + 2 = OnTheWay
         /\ Presses = Presses' /\ Resets = Resets' + 1 => OnTheWay' + 1 = OnTheWay
         /\ Presses' = Presses + 1 /\ Resets' = Resets => OnTheWay' <= OnTheWay + 2
         /\ Presses' = Presses /\ Resets' = Resets + 1 => OnTheWay' <= OnTheWay + 2
<1>1. PICK p \in Nat, r \in Nat, p1 \in Nat, r1 \in Nat :
        p = Presses /\ r = Resets /\ p1 = Presses' /\ r1 = Resets'
  OBVIOUS
<1>2. PICK w \in Nat, w1 \in Nat : w = 2 * p + r /\ w1 = 2 * p1 + r1
  OBVIOUS
<1>3. w = OnTheWay /\ w1 = OnTheWay'
  BY <1>1, <1>2 DEF OnTheWay
<1>4. /\ p = p1 + 1 /\ r = r1 => w1 + 2 = w
      /\ p = p1 /\ r = r1 + 1 => w1 + 1 = w
      /\ p1 = p + 1 /\ r1 = r => w1 <= w + 2
      /\ p1 = p /\ r1 = r + 1 => w1 <= w + 2
  BY <1>2
<1>. QED  BY <1>1, <1>3, <1>4

LEMMA BudgetSums ==
  ASSUME Spent \in Nat, OnTheWay \in Nat, Allowed \in Nat, Spent + OnTheWay <= Allowed,
         Spent' \in Nat, OnTheWay' \in Nat, Allowed' \in Nat,
         \/ Spent' <= Spent /\ OnTheWay' <= OnTheWay /\ Allowed <= Allowed'
         \/ Spent' <= Spent + 2 /\ OnTheWay' + 2 = OnTheWay /\ Allowed <= Allowed'
         \/ Spent' <= Spent + 1 /\ OnTheWay' + 1 = OnTheWay /\ Allowed <= Allowed'
         \/ Spent' <= Spent /\ OnTheWay' <= OnTheWay + 2 /\ Allowed' = Allowed + 2
  PROVE  Spent' + OnTheWay' <= Allowed'
<1>1. PICK s \in Nat, w \in Nat, a \in Nat, s1 \in Nat, w1 \in Nat, a1 \in Nat :
        /\ s = Spent /\ w = OnTheWay /\ a = Allowed
        /\ s1 = Spent' /\ w1 = OnTheWay' /\ a1 = Allowed'
  OBVIOUS
<1>2. /\ s + w <= a
      /\ \/ s1 <= s /\ w1 <= w /\ a <= a1
         \/ s1 <= s + 2 /\ w1 + 2 = w /\ a <= a1
         \/ s1 <= s + 1 /\ w1 + 1 = w /\ a <= a1
         \/ s1 <= s /\ w1 <= w + 2 /\ a1 = a + 2
  BY <1>1
<1>3. s1 + w1 <= a1
  BY <1>2
<1>. QED  BY <1>1, <1>3

LEMMA CountEmpty == \A type : Count(<<>>, type) = 0
<1>. SUFFICES ASSUME NEW type PROVE Count(<<>>, type) = 0
  OBVIOUS
<1>1. {i \in DOMAIN <<>> : <<>>[i].type = type} = {}
  OBVIOUS
<1>. QED  BY <1>1, FS_EmptySet DEF Count

LEMMA BudgetInit == Init => BudgetInv
<1>. SUFFICES ASSUME Init PROVE BudgetInv
  OBVIOUS
<1>1. /\ button = [at |-> "up", orders |-> 0] /\ todo = <<>>
      /\ mach.state \in {"BOOT", "IDLE"} /\ gen \in {1, Wrap - 1}
      /\ appq \in {<<>>, Append(<<>>, Event("BOOTED", 0))}
  BY DEF Init, InitWith
<1>2. Left = {}
  BY <1>1, EmptyLeft
<1>3. Presses = 0 /\ Resets = 0
  <2>1. Event("BOOTED", 0) \in Events /\ Event("BOOTED", 0).type = "BOOTED"
    BY WrapAssumption, EventTyped DEF Generations, EventTypes
  <2>2. ASSUME NEW type \in Orders
        PROVE  Count(<<>>, type) = 0 /\ Count(Append(<<>>, Event("BOOTED", 0)), type) = 0
    <3>. DEFINE q == <<>>
    <3>1. q \in Seq(Events) /\ Count(q, type) = 0
      BY CountEmpty
    <3>. HIDE DEF q
    <3>2. \A e \in Events : e.type # type => Count(Append(q, e), type) = Count(q, type)
      BY <3>1, CountOf
    <3>3. Count(Append(q, Event("BOOTED", 0)), type) = 0
      BY <2>1, <3>1, <3>2 DEF Orders
    <3>. QED  BY <3>1, <3>3 DEF q
  <2>. QED  BY <1>1, <2>2 DEF Presses, Resets, Orders
<1>. QED
  BY <1>1, <1>2, <1>3, WrapAssumption, DepthAssumption
     DEF BudgetInv, Buttons, Spent, OnTheWay, Allowed, Position, ToMove, InPhase, Moving, Busy

\* A post that gives no order leaves the orders on their way as they are.
LEMMA PostsCount == EventInv /\ Posts => Presses' = Presses /\ Resets' = Resets
<1>. SUFFICES ASSUME EventInv, Posts PROVE Presses' = Presses /\ Resets' = Resets
  OBVIOUS
<1>1. CASE appq' = appq
  BY <1>1 DEF Presses, Resets
<1>2. CASE \E e \in Events : appq' = Append(appq, e) /\ e.type \notin Orders
  <2>1. PICK e \in Events : appq' = Append(appq, e) /\ e.type \notin Orders
    BY <1>2
  <2>. QED  BY <2>1, CountOf DEF EventInv, Presses, Resets, Orders
<1>. QED  BY <1>1, <1>2 DEF Posts

LEMMA MoveDone ==
  ASSUME CommitInv, ListInv, StateTask, ~ReceiveEvent
  PROVE  ToMove' <= ToMove /\ ToMove \in Nat /\ ToMove' \in Nat
<1>1. CASE \E s \in Steps : Doing(s) /\ Done
  BY <1>1, DoneLeft DEF CommitInv, ToMove
<1>2. CASE Doing("bump") /\ Then("skipZero")
  <2>1. "bump" \in Left
    BY <1>2, DoingLeft DEF CommitInv
  <2>. QED  BY <2>1 DEF ToMove, Moving
<1>3. CASE \E client \in Clients : Doing(CancelStep[client]) /\ Then(RestoreStep[client])
  <2>1. PICK client \in Clients : Doing(CancelStep[client]) /\ Then(RestoreStep[client])
    BY <1>3
  <2>2. RestoreStep[client] \in Steps \ Moving /\ Rank[CancelStep[client]] = Rank[RestoreStep[client]]
    BY DEF Clients, CancelStep, RestoreStep, Rank, Steps, Moving
  <2>3. Left' = (Left \ {CancelStep[client]}) \cup {RestoreStep[client]}
    BY <2>1, <2>2, ThenLeft DEF CommitInv
  <2>. QED  BY <2>2, <2>3 DEF ToMove
<1>. QED  BY <1>1, <1>2, <1>3, StateSteps

\* The generation moves by one place, to one it has not had.
KnownAt(g, v) == g \in 1 .. Wrap - 1 /\ Position(g) <= Position(v)

LEMMA GenerationMoves ==
  ASSUME BufferInv, CommitInv, EventInv, ListInv, CounterInv, BudgetInv, BumpGeneration
  PROVE  /\ Position(gen') + ToMove' = Position(gen) + ToMove
         /\ \A g : KnownAt(g, gen) => KnownAt(g, gen') /\ g # gen'
<1>0. /\ Wrap \in Nat /\ Wrap > 2 /\ gen \in 0 .. Wrap - 1 /\ MaxOrders \in Nat
      /\ button.orders \in 0 .. MaxOrders /\ 2 * MaxOrders + 2 < Wrap
      /\ OnTheWay \in Nat /\ InPhase \in Nat
  BY WrapAssumption, RunAssumption, BudgetTyped DEF BufferInv, CountersTyped, Generations
<1>1. CASE Doing("bump") /\ gen' = Successor(gen)
  <2>1. "bump" \in Left
    BY <1>1, DoingLeft DEF CommitInv
  <2>2. ToMove = 1
    BY <2>1 DEF ToMove, Moving
  <2>3. gen # 0
    <3>1. \A client \in Clients : epoch[client] = gen
      BY <2>1 DEF CounterInv, EpochAt
    <3>2. "skipZero" \notin Left
      <4>1. /\ todo \in Seq(Steps) /\ todo # <<>> /\ Head(todo) = "bump" /\ Ordered(todo)
        BY <1>1 DEF CommitInv, TodoShape, ListInv, Doing
      <4>2. \A s \in Elements(Tail(todo)) : Rank["bump"] < Rank[s]
        BY <4>1, OrderedTail
      <4>3. "skipZero" \notin Elements(Tail(todo)) /\ Left = {"bump"} \cup Elements(Tail(todo))
        BY <4>1, <4>2, ElementsOf DEF Left, Rank
      <4>. QED  BY <4>3
    <3>. QED  BY <3>2 DEF CounterInv
  <2>4. Position(gen) < Wrap - 2
    <3>1. Position(gen) + 1 <= 2 * button.orders + 1
      BY <1>0, <2>2, PositionTyped DEF BudgetInv, Spent, Allowed
    <3>. QED  BY <1>0, <3>1, PositionTyped
  <2>5. CASE gen = Wrap - 1
    <3>1. gen' = 0
      BY <1>0, <1>1, <2>5 DEF Successor
    <3>2. Then("skipZero")
      BY <1>1, <3>1 DEF BumpGeneration, Doing
    <3>3. "skipZero" \in Left'
      <4>1. Rank["bump"] = Rank["skipZero"] /\ "skipZero" \in Steps
        BY DEF Rank, Steps
      <4>. QED  BY <1>1, <3>2, <4>1, ThenLeft DEF CommitInv
    <3>4. ToMove' = 1
      BY <3>3 DEF ToMove, Moving
    <3>. QED  BY <1>0, <2>2, <2>5, <3>1, <3>4 DEF Position, KnownAt
  <2>6. CASE gen # Wrap - 1
    <3>1. gen' = gen + 1 /\ gen' # Wrap - 1 /\ gen' # 0
      BY <1>0, <1>1, <2>4, <2>6 DEF Successor, Position
    <3>2. Done
      BY <1>1, <3>1 DEF BumpGeneration, Doing
    <3>3. Left' = Left \ {"bump"} /\ \A x \in Left' : Rank["bump"] < Rank[x]
      BY <1>1, <3>2, DoneLeft DEF CommitInv
    <3>4. ToMove' = 0
      BY <3>3 DEF ToMove, Moving, Rank
    <3>5. gen' \in Nat /\ Position(gen') = gen + 1 /\ Position(gen) = gen
      BY <1>0, <2>6, <3>1 DEF Position
    <3>6. ASSUME NEW g, KnownAt(g, gen) PROVE KnownAt(g, gen') /\ g # gen'
      <4>1. g \in 1 .. Wrap - 1 /\ Position(g) <= gen /\ Position(g) \in Nat
        BY <1>0, <3>5, <3>6 DEF KnownAt, Position
      <4>. QED  BY <1>0, <3>1, <3>5, <4>1 DEF KnownAt
    <3>. QED  BY <1>0, <2>2, <3>4, <3>5, <3>6
  <2>. QED  BY <2>5, <2>6
<1>2. CASE Doing("skipZero") /\ gen' = 1 /\ Done
  <2>1. /\ Left' = Left \ {"skipZero"} /\ "skipZero" \in Left
        /\ \A x \in Left' : Rank["skipZero"] < Rank[x]
    BY <1>2, DoneLeft DEF CommitInv
  <2>2. ToMove = 1 /\ ToMove' = 0 /\ gen = 0
    BY <2>1 DEF ToMove, Moving, CounterInv, Rank
  <2>3. Position(gen') = 1 /\ Position(gen) = 0
    BY <1>0, <1>2, <2>2 DEF Position
  <2>4. ASSUME NEW g, KnownAt(g, gen) PROVE KnownAt(g, gen') /\ g # gen'
    <3>1. g \in 1 .. Wrap - 1 /\ Position(g) <= 0 /\ Position(g) \in Nat
      BY <1>0, <2>3, <2>4 DEF KnownAt, Position
    <3>2. g = Wrap - 1
      BY <1>0, <3>1 DEF Position
    <3>. QED  BY <1>0, <1>2, <2>3, <3>1, <3>2 DEF KnownAt
  <2>. QED  BY <2>2, <2>3, <2>4
<1>. QED  BY <1>1, <1>2 DEF BumpGeneration

LEMMA StateKeepsBudget ==
  ASSUME BufferInv, CommitInv, EventInv, ListInv, CounterInv, ChatPairInv, BudgetInv,
         StateTask, ~ReceiveEvent
  PROVE  BudgetInv'
<1>1. UNCHANGED <<mach, button>>
  BY DEF StateTask, ReceiveEvent, BumpGeneration, ResetQueues, CancelRequests, ClearTexts,
         CommandAudio, PostPrompt, ForgetIntent, OrderReset, LoadConfig, OrderConnect,
         TasksUnchanged
<1>2. InPhase' = InPhase /\ Allowed' = Allowed /\ button' \in Buttons
  BY <1>1 DEF InPhase, Allowed, BudgetInv
<1>3. ToMove' <= ToMove /\ ToMove' \in Nat
  BY MoveDone
<1>4. OnTheWay' = OnTheWay
  BY TasksPost, PostsCount DEF OnTheWay
<1>5. /\ Position(gen) \in Nat /\ ToMove \in Nat /\ InPhase \in Nat
      /\ Spent \in Nat /\ OnTheWay \in Nat /\ Allowed \in Nat
  BY BudgetTyped
<1>6. Spent' <= Spent /\ Spent' \in Nat
  <2>1. CASE BumpGeneration
    <3>1. Position(gen') + ToMove' = Position(gen) + ToMove
      BY <2>1, GenerationMoves
    <3>2. Position(gen') + ToMove' + InPhase' = Position(gen) + ToMove + InPhase
      BY <1>2, <3>1
    <3>3. Spent' = Spent
      BY <3>2 DEF Spent, Position
    <3>. QED  BY <1>5, <3>3
  <2>2. CASE ~BumpGeneration
    <3>1. UNCHANGED gen
      BY <2>2 DEF StateTask, ReceiveEvent, ResetQueues, CancelRequests, ClearTexts,
         CommandAudio, PostPrompt, ForgetIntent, OrderReset, LoadConfig, OrderConnect
    <3>2. Position(gen)' = Position(gen)
      BY <3>1 DEF Position
    <3>. QED  BY <1>2, <1>3, <1>5, <3>2 DEF Spent
  <2>. QED  BY <2>1, <2>2
<1>7. Spent' + OnTheWay' <= Allowed'
  <2>1. /\ OnTheWay' \in Nat /\ OnTheWay' <= OnTheWay
        /\ Allowed' \in Nat /\ Allowed <= Allowed' /\ Spent + OnTheWay <= Allowed
    BY <1>2, <1>4, <1>5 DEF BudgetInv
  <2>. QED  BY <1>5, <1>6, <2>1, BudgetSums
<1>. QED  BY <1>2, <1>7 DEF BudgetInv

\* An event handled: a press pays for its recording and for a deadline, a reset
\* for its new interaction, and the deadline ends the phase that paid for it.
LEMMA HandleKeepsBudget ==
  ASSUME BufferInv, EventInv, ListInv, BudgetInv, todo = <<>>, gen' = gen, button' = button,
         NEW e, NEW expired \in BOOLEAN, Handle(e, expired),
         ~expired => appq # <<>> /\ appq' = Tail(appq) /\ e = Head(appq),
         expired => /\ appq' = appq \/ (appq # <<>> /\ appq' = Tail(appq))
                    /\ mach.state \in Busy /\ e.type = "TIMEOUT"
  PROVE  BudgetInv'
<1>0. /\ Presses \in Nat /\ Resets \in Nat /\ OnTheWay \in Nat /\ Spent \in Nat
      /\ Allowed \in Nat /\ Position(gen) \in Nat /\ ToMove \in {0, 1} /\ InPhase \in {0, 1}
  BY BudgetTyped
<1>1. ToMove = 0 /\ ToMove' \in {0, 1} /\ InPhase' \in {0, 1}
  BY EmptyLeft DEF ToMove, InPhase
<1>2. Spent = Position(gen) + InPhase
  BY <1>0, <1>1 DEF Spent
<1>3. Spent' = Position(gen) + ToMove' + InPhase'
  BY DEF Spent, Position
<1>4. Allowed' = Allowed /\ button' \in Buttons
  BY DEF Allowed, BudgetInv
<1>5. ASSUME appq # <<>>, NEW type
      PROVE  /\ Count(Tail(appq), type) \in Nat
             /\ Count(appq, type) = IF Head(appq).type = type THEN Count(Tail(appq), type) + 1
                                                             ELSE Count(Tail(appq), type)
  <2>1. appq \in Seq(Events) /\ Tail(appq) \in Seq(Events)
    BY <1>5 DEF EventInv
  <2>2. Count(Tail(appq), type) \in Nat
    BY <2>1, CountOf
  <2>3. Count(appq, type) = IF Head(appq).type = type THEN Count(Tail(appq), type) + 1
                                                      ELSE Count(Tail(appq), type)
    BY <1>5, <2>1, CountOf
  <2>. QED  BY <2>2, <2>3
<1>6. appq # <<>> /\ appq' = Tail(appq) =>
        /\ Presses' \in Nat /\ Resets' \in Nat
        /\ Presses = IF Head(appq).type = "PRESS_START" THEN Presses' + 1 ELSE Presses'
        /\ Resets = IF Head(appq).type = "FACTORY_RESET" THEN Resets' + 1 ELSE Resets'
  BY <1>5 DEF Presses, Resets
<1>7. appq' = appq => Presses' = Presses /\ Resets' = Resets
  BY DEF Presses, Resets
<1>8. /\ OnTheWay' \in Nat /\ OnTheWay' <= OnTheWay
      /\ ~expired /\ e.type = "PRESS_START" => OnTheWay' + 2 = OnTheWay
      /\ ~expired /\ e.type = "FACTORY_RESET" => OnTheWay' + 1 = OnTheWay
  <2>0. \A w, v \in Nat : w + 1 = v \/ w + 2 = v \/ w = v => w <= v
    OBVIOUS
  <2>1. CASE appq' = appq /\ expired
    BY <1>0, <1>7, <2>0, <2>1 DEF OnTheWay
  <2>2. CASE appq # <<>> /\ appq' = Tail(appq)
    <3>1. Presses' \in Nat /\ Resets' \in Nat
      BY <1>6, <2>2
    <3>2. CASE Head(appq).type = "PRESS_START"
      <4>1. Presses = Presses' + 1 /\ Resets = Resets'
        BY <1>6, <2>2, <3>2
      <4>2. OnTheWay' + 2 = OnTheWay /\ OnTheWay' \in Nat
        BY <1>0, <3>1, <4>1, OrderSums
      <4>. QED  BY <1>0, <2>0, <2>2, <3>2, <4>2
    <3>3. CASE Head(appq).type = "FACTORY_RESET"
      <4>1. Presses = Presses' /\ Resets = Resets' + 1
        BY <1>6, <2>2, <3>3
      <4>2. OnTheWay' + 1 = OnTheWay /\ OnTheWay' \in Nat
        BY <1>0, <3>1, <4>1, OrderSums
      <4>. QED  BY <1>0, <2>0, <2>2, <3>3, <4>2
    <3>4. CASE Head(appq).type \notin Orders
      <4>1. Presses = Presses' /\ Resets = Resets'
        BY <1>6, <2>2, <3>4 DEF Orders
      <4>2. OnTheWay' = OnTheWay
        BY <4>1 DEF OnTheWay
      <4>. QED  BY <1>0, <2>0, <2>2, <3>4, <4>2 DEF Orders
    <3>. QED  BY <3>2, <3>3, <3>4 DEF Orders
  <2>. QED  BY <2>1, <2>2
<1>13. Allowed' \in Nat /\ Allowed <= Allowed' /\ Spent + OnTheWay <= Allowed
  BY <1>0, <1>4 DEF BudgetInv
<1>9. CASE UNCHANGED <<mach, todo>>
  <2>1. ToMove' = ToMove /\ InPhase' = InPhase
    BY <1>9 DEF ToMove, InPhase, Left
  <2>2. Spent' = Spent
    BY <2>1 DEF Spent, Position
  <2>3. Spent' \in Nat /\ Spent' <= Spent
    BY <1>0, <2>2
  <2>4. Spent' + OnTheWay' <= Allowed'
    BY <1>0, <1>8, <1>13, <2>3, BudgetSums
  <2>. QED  BY <1>4, <2>4 DEF BudgetInv
<1>10. CASE \E m \in Dispatch(mach, e.type) :
              mach' = m /\ todo' = Work(mach.state, m.state, e.type, expired)
  <2>1. PICK m \in Dispatch(mach, e.type) :
               mach' = m /\ todo' = Work(mach.state, m.state, e.type, expired)
    BY <1>10
  <2>2. Left' = RecordingSteps(mach.state, m.state)
                \cup PromptSteps(mach.state, m.state, e.type)
                \cup ForgetSteps(e.type, expired) \cup ConfigSteps(m.state, e.type)
    BY <2>1, WorkLeft
  <2>3. /\ m.state = "RECORDING" => e.type = "PRESS_START"
        /\ e.type = "FACTORY_RESET" => m.state = "CONFIG_CHECK"
        /\ e.type = "TIMEOUT" => m.state = "ERROR"
        /\ m.state \in Busy => mach.state \in Busy \/ e.type = "PRESS_START"
    BY DispatchTo
  <2>4. mach'.state = m.state
    BY <2>1
  <2>5. ToMove' = 0 \/ e.type \in Orders \/ expired
    BY <2>2, <2>3 DEF ToMove, Moving, RecordingSteps, PromptSteps, ForgetSteps, ConfigSteps, Orders
  <2>6. /\ InPhase' <= InPhase \/ e.type = "PRESS_START"
        /\ e.type \in {"FACTORY_RESET", "TIMEOUT"} => InPhase' = 0
    BY <2>3, <2>4 DEF InPhase, Busy
  <2>7. PICK g \in Nat, b \in {0, 1}, m1 \in {0, 1}, b1 \in {0, 1} :
          g = Position(gen) /\ b = InPhase /\ m1 = ToMove' /\ b1 = InPhase'
    BY <1>0, <1>1
  <2>8. PICK s \in Nat, s1 \in Nat : s = g + b /\ s1 = g + m1 + b1
    OBVIOUS
  <2>9. s = Spent /\ s1 = Spent'
    BY <1>2, <1>3, <2>7, <2>8
  <2>10. \/ Spent' <= Spent /\ OnTheWay' <= OnTheWay
         \/ Spent' <= Spent + 2 /\ OnTheWay' + 2 = OnTheWay
         \/ Spent' <= Spent + 1 /\ OnTheWay' + 1 = OnTheWay
    <3>1. CASE expired
      <4>1. b = 1 /\ b1 = 0
        BY <2>6, <2>7, <3>1 DEF InPhase
      <4>2. s1 <= s
        BY <2>8, <4>1
      <4>. QED  BY <1>8, <2>9, <4>2
    <3>2. CASE ~expired /\ e.type = "PRESS_START"
      <4>1. s1 <= s + 2
        BY <2>8
      <4>. QED  BY <1>8, <2>9, <3>2, <4>1
    <3>3. CASE ~expired /\ e.type = "FACTORY_RESET"
      <4>1. b1 = 0
        BY <2>6, <2>7, <3>3
      <4>2. s1 <= s + 1
        BY <2>8, <4>1
      <4>. QED  BY <1>8, <2>9, <3>3, <4>2
    <3>4. CASE ~expired /\ e.type \notin Orders
      <4>1. m1 = 0 /\ b1 <= b
        BY <2>5, <2>6, <2>7, <3>4 DEF Orders
      <4>2. s1 <= s
        BY <2>8, <4>1
      <4>. QED  BY <1>8, <2>9, <4>2
    <3>. QED  BY <3>1, <3>2, <3>3, <3>4 DEF Orders
  <2>11. Spent' + OnTheWay' <= Allowed'
    BY <1>0, <1>8, <1>13, <2>9, <2>10, BudgetSums
  <2>. QED  BY <1>4, <2>11 DEF BudgetInv
<1>. QED  BY <1>9, <1>10 DEF Handle

\* Only the button and a reset give orders, within the bound.
LEMMA ButtonKeepsBudget ==
  ASSUME BufferInv, EventInv, ChatPairInv, BudgetInv, UNCHANGED <<mach, todo, gen>>,
         ButtonTask \/ FactoryReset \/ LoseConfig
  PROVE  BudgetInv'
<1>0. /\ Presses \in Nat /\ Resets \in Nat /\ OnTheWay \in Nat /\ Spent \in Nat
      /\ Allowed \in Nat /\ button.orders \in Nat /\ MaxOrders \in Nat
  BY BudgetTyped
<1>1. Spent' = Spent
  BY DEF Spent, Position, ToMove, InPhase, Left
<1>2. CASE Press \/ FactoryReset
  <2>1. PICK type \in Orders :
          PostCritical(Event(type, 0)) /\ button.orders < MaxOrders
    BY <1>2 DEF Press, FactoryReset, ButtonPosts, Orders
  <2>2. button' \in Buttons /\ button'.orders = button.orders + 1
    <3>1. button.orders + 1 \in 0 .. MaxOrders /\ button \in Buttons
      BY <1>0, <2>1 DEF BudgetInv
    <3>2. \E at \in {"up", "down", "held"} : button' = [at |-> at, orders |-> button.orders + 1]
      <4>1. CASE Press
        <5>1. button' = [button EXCEPT !.at = "down", !.orders = @ + 1]
          BY <4>1 DEF Press, ButtonPosts
        <5>. QED  BY <3>1, <5>1, ButtonPressed
      <4>2. CASE FactoryReset
        <5>1. button' = [button EXCEPT !.orders = @ + 1]
          BY <4>2 DEF FactoryReset
        <5>. QED  BY <3>1, <5>1, ButtonPressed
      <4>. QED  BY <1>2, <4>1, <4>2
    <3>. QED  BY <3>1, <3>2 DEF Buttons
  <2>3. /\ Event(type, 0) \in Events /\ Event(type, 0).type = type
        /\ appq' = Append(appq, Event(type, 0))
    BY <2>1, WrapAssumption, EventTyped DEF Orders, EventTypes, Generations, PostCritical
  <2>4. \A t : Count(Append(appq, Event(type, 0)), t) =
                 IF type = t THEN Count(appq, t) + 1 ELSE Count(appq, t)
    BY <2>3, CountOf DEF EventInv
  <2>5. /\ Presses' = IF type = "PRESS_START" THEN Presses + 1 ELSE Presses
        /\ Resets' = IF type = "FACTORY_RESET" THEN Resets + 1 ELSE Resets
    BY <2>3, <2>4 DEF Presses, Resets
  <2>6. OnTheWay' \in Nat /\ OnTheWay' <= OnTheWay + 2
    <3>1. CASE type = "PRESS_START"
      <4>1. Presses' = Presses + 1 /\ Resets' = Resets /\ Presses' \in Nat /\ Resets' \in Nat
        BY <1>0, <2>5, <3>1
      <4>. QED  BY <1>0, <4>1, OrderSums
    <3>2. CASE type = "FACTORY_RESET"
      <4>1. Presses' = Presses /\ Resets' = Resets + 1 /\ Presses' \in Nat /\ Resets' \in Nat
        BY <1>0, <2>5, <3>2
      <4>. QED  BY <1>0, <4>1, OrderSums
    <3>. QED  BY <3>1, <3>2 DEF Orders
  <2>7. Allowed' = Allowed + 2 /\ Allowed' \in Nat
    BY <1>0, <2>2 DEF Allowed
  <2>8. Spent' \in Nat /\ Spent' <= Spent /\ Spent + OnTheWay <= Allowed
    BY <1>0, <1>1 DEF BudgetInv
  <2>9. Spent' + OnTheWay' <= Allowed'
    BY <1>0, <2>6, <2>7, <2>8, BudgetSums
  <2>. QED  BY <2>2, <2>9 DEF BudgetInv
<1>3. CASE Release \/ HoldTooLong \/ LetGo \/ LoseConfig
  <2>1. OnTheWay' = OnTheWay
    BY <1>3, TasksPost, PostsCount DEF OnTheWay
  <2>2. PICK at \in {"up", "down", "held"}, n \in {0, 1} :
          /\ button' = [at |-> at, orders |-> button.orders + n]
          /\ n = 1 => button.orders < MaxOrders
    <3>0. button \in Buttons /\ button.orders + 0 = button.orders
      BY <1>0 DEF BudgetInv
    <3>1. CASE Release \/ HoldTooLong
      <4>1. \E at \in {"up", "held"} : button' = [button EXCEPT !.at = at, !.orders = @ + 0]
        BY <3>1 DEF Release, HoldTooLong, ButtonPosts
      <4>2. PICK at \in {"up", "held"} : button' = [button EXCEPT !.at = at, !.orders = @ + 0]
        BY <4>1
      <4>3. button' = [at |-> at, orders |-> button.orders + 0]
        BY <3>0, <4>2, ButtonPressed
      <4>. QED  BY <4>3
    <3>2. CASE LetGo
      <4>1. button' = [button EXCEPT !.at = "up"]
        BY <3>2 DEF LetGo
      <4>2. button' = [at |-> "up", orders |-> button.orders + 0]
        BY <3>0, <4>1, ButtonPressed
      <4>. QED  BY <4>2
    <3>3. CASE LoseConfig
      <4>1. button' = [button EXCEPT !.orders = @ + 1] /\ button.orders < MaxOrders
        BY <3>3 DEF LoseConfig
      <4>2. button' = [at |-> button.at, orders |-> button.orders + 1]
            /\ button.at \in {"up", "down", "held"}
        BY <3>0, <4>1, ButtonPressed
      <4>. QED  BY <4>1, <4>2
    <3>. QED  BY <1>3, <3>1, <3>2, <3>3
  <2>3. button.orders + n \in 0 .. MaxOrders /\ button.orders + n >= button.orders
    <3>1. button.orders <= MaxOrders
      BY BudgetTyped
    <3>. QED  BY <1>0, <2>2, <3>1
  <2>4. button' \in Buttons /\ Allowed' = 2 * (button.orders + n) + 1
    BY <2>2, <2>3 DEF Buttons, Allowed
  <2>5. Allowed' \in Nat /\ Allowed' >= Allowed
    BY <1>0, <2>3, <2>4 DEF Allowed
  <2>6. /\ Spent' \in Nat /\ Spent' <= Spent /\ Spent + OnTheWay <= Allowed
        /\ OnTheWay' \in Nat /\ OnTheWay' <= OnTheWay
    BY <1>0, <1>1, <2>1 DEF BudgetInv
  <2>7. Spent' + OnTheWay' <= Allowed'
    BY <1>0, <2>5, <2>6, BudgetSums
  <2>. QED  BY <2>4, <2>7 DEF BudgetInv
<1>. QED  BY <1>2, <1>3 DEF ButtonTask

LEMMA NextKeepsBudget ==
  BufferInv /\ CommitInv /\ EventInv /\ ListInv /\ CounterInv /\ ChatPairInv /\ BudgetInv
    /\ [Next]_vars => BudgetInv'
<1>. SUFFICES ASSUME BufferInv, CommitInv, EventInv, ListInv, CounterInv, ChatPairInv,
                     BudgetInv, [Next]_vars
              PROVE  BudgetInv'
  OBVIOUS
<1>1. CASE ReceiveEvent
  <2>. DEFINE e == Head(appq)
  <2>1. Handle(e, FALSE)
    BY <1>1 DEF ReceiveEvent
  <2>2. /\ todo = <<>> /\ appq # <<>> /\ appq' = Tail(appq) /\ e = Head(appq)
        /\ gen' = gen /\ button' = button
    BY <1>1 DEF ReceiveEvent, TasksUnchanged
  <2>. HIDE DEF e
  <2>3. PICK expired \in BOOLEAN : ~expired /\ Handle(e, expired)
    BY <2>1
  <2>. QED  BY <2>2, <2>3, HandleKeepsBudget
<1>2. CASE AsrDeadline
  <2>1. /\ todo = <<>>
        /\ appq' = appq \/ (appq # <<>> /\ appq' = Tail(appq))
        /\ mach.state \in Busy /\ gen' = gen /\ button' = button
    BY <1>2 DEF AsrDeadline, TasksUnchanged, Busy
  <2>2. PICK expired \in BOOLEAN, e \in {Event("TIMEOUT", gen)} : expired /\ Handle(e, expired)
    BY <1>2 DEF AsrDeadline
  <2>3. e.type = "TIMEOUT"
    BY <2>2 DEF Event
  <2>. QED  BY <2>1, <2>2, <2>3, HandleKeepsBudget
<1>3. CASE ~(StateTask \/ AsrDeadline)
  <2>1. UNCHANGED <<mach, todo, gen>>
    BY <1>3, OthersKeepList DEF Next
  <2>2. CASE ButtonTask \/ FactoryReset \/ LoseConfig
    BY <2>1, <2>2, ButtonKeepsBudget
  <2>3. CASE AudioTask \/ AsrTask \/ ChatTask \/ NetTask \/ UNCHANGED vars
    <3>1. UNCHANGED button
      <4>1. CASE AudioTask
        BY <4>1 DEF AudioTask, TakeAudioCommand, StopStale, StopEmpty, StopRecording,
           HandOver, ReportAudioFailure, AudioFrame
      <4>2. CASE AsrTask
        BY <4>2 DEF AsrTask, TakeAsrCommand, AnnounceAsr, EndTranscription, LockForAsr,
           CommitTranscript, ReportAsr, AsrFrame
      <4>3. CASE ChatTask
        BY <4>3 DEF ChatTask, TakeChatCommand, ReportUnconfigured, AnnounceChat,
           LockForChat, HandleIntent, EndClassification, CheckReply, ShowReply, EndSpeech,
           EndReply, StreamDelta, PostToken, EndChat, CommitAnswer, ReportChat, ChatFrame
      <4>4. CASE NetTask
        BY <4>4 DEF NetTask, TakeNetCommand, EndConnect, ReportConnect, EraseConfig,
           ReportLoss, NetFrame
      <4>5. CASE UNCHANGED vars
        BY <4>5 DEF vars
      <4>. QED  BY <2>3, <4>1, <4>2, <4>3, <4>4, <4>5
    <3>2. Presses' = Presses /\ Resets' = Resets
      <4>1. CASE UNCHANGED vars
        BY <4>1 DEF vars, Presses, Resets
      <4>. QED  BY <2>3, <4>1, TasksPost, PostsCount
    <3>. QED
      BY <2>1, <3>1, <3>2 DEF BudgetInv, Spent, OnTheWay, Allowed, Position, ToMove, InPhase, Left
  <2>. QED  BY <1>3, <2>2, <2>3 DEF Next
<1>. QED  BY <1>1, <1>2, <1>3, StateKeepsBudget

\* The generation never moves further than the presses and resets allow.
THEOREM BudgetInductive == Spec => []BudgetInv
BY BudgetInit, NextKeepsBudget, BuffersInductive, CommitsInductive, EventsInductive,
   ListInductive, CountersInductive, PairsInductive, PTL DEF Spec

----------------------------------------------------------------------------
\* The generations on their way to a transcript.  None is new to the device, and
\* from the move of the generation until the recording starts, or the intent is
\* forgotten, none is the current one.

Recorded  == {c.gen : c \in Elements(audioq)}
             \cup (IF audio.pc \in Holding THEN {audio.gen} ELSE {})
Submitted == {c.gen : c \in Elements(asrq)}
             \cup (IF asr.pc \in Working THEN {asr.gen} ELSE {})
Reported  == {e.value : e \in {x \in Elements(appq) : x.type = "ASR_DONE"}}
             \cup (IF asr.pc = "report" /\ asr.event.type = "ASR_DONE" THEN {asr.event.value}
                                                                       ELSE {})
Carried == Recorded \cup Submitted \cup Reported

Young == ("start" \in Left \/ "clearIntent" \in Left) /\ "bump" \notin Left

\* A recording that was handed over had its epoch read while it was current.
EpochsPaired ==
  /\ audio.pc = "hand" /\ audio.gen = gen => audio.epoch = gen
  /\ \A c \in Elements(asrq) : c.gen = gen => c.epoch = gen
  /\ asr.pc \in {"started", "request"} => asr.epoch = asr.gen

FreshInv ==
  /\ \A g \in Carried : KnownAt(g, gen)
  /\ Young => gen \notin Carried
  /\ EpochsPaired

LEMMA FreshInit == Init => FreshInv
<1>. SUFFICES ASSUME Init PROVE FreshInv
  OBVIOUS
<1>1. /\ audioq = <<>> /\ asrq = <<>> /\ todo = <<>> /\ audio.pc = "wait" /\ asr.pc = "wait"
      /\ appq \in {<<>>, Append(<<>>, Event("BOOTED", 0))}
  BY DEF Init, InitWith, Idle
<1>2. Left = {} /\ Elements(audioq) = {} /\ Elements(asrq) = {}
  BY <1>1, EmptyLeft, NoElements
<1>3. \A e \in Elements(appq) : e.type # "ASR_DONE"
  <2>1. Elements(Append(<<>>, Event("BOOTED", 0))) = {Event("BOOTED", 0)}
    <3>. DEFINE q == <<>>
    <3>1. q \in Seq(Events) /\ Elements(q) = {}
      BY NoElements
    <3>. HIDE DEF q
    <3>2. Elements(Append(q, Event("BOOTED", 0))) = {Event("BOOTED", 0)}
      BY <3>1, ElementsAppend
    <3>. QED  BY <3>2 DEF q
  <2>2. Event("BOOTED", 0).type = "BOOTED"
    BY DEF Event
  <2>. QED  BY <1>1, <2>1, <2>2, NoElements
<1>4. Carried = {}
  BY <1>1, <1>2, <1>3 DEF Carried, Recorded, Submitted, Reported, Holding, Working
<1>. QED  BY <1>1, <1>2, <1>4 DEF FreshInv, EpochsPaired

\* What the queues hold after a step of their own tasks.
LEMMA TakenFrom ==
  ASSUME NEW S, NEW q \in Seq(S), q # <<>>
  PROVE  Head(q) \in Elements(q) /\ Elements(Tail(q)) \subseteq Elements(q)
BY ElementsOf

LEMMA QueueSteps ==
  ASSUME BufferInv, EventInv
  PROVE  /\ audioq # <<>> /\ audioq' = Tail(audioq) =>
              Head(audioq) \in Elements(audioq) /\ Elements(audioq') \subseteq Elements(audioq)
         /\ asrq # <<>> /\ asrq' = Tail(asrq) =>
              Head(asrq) \in Elements(asrq) /\ Elements(asrq') \subseteq Elements(asrq)
         /\ appq # <<>> /\ appq' = Tail(appq) => Elements(appq') \subseteq Elements(appq)
         /\ \A c : audioq' = Append(audioq, c) => Elements(audioq') = Elements(audioq) \cup {c}
         /\ \A c : asrq' = Append(asrq, c) => Elements(asrq') = Elements(asrq) \cup {c}
         /\ \A e : appq' = Append(appq, e) => Elements(appq') = Elements(appq) \cup {e}
<1>1. audioq \in Seq(AudioCommands) /\ asrq \in Seq(AsrCommands) /\ appq \in Seq(Events)
  BY DEF BufferInv, CountersTyped, EventInv
<1>2. audioq # <<>> =>
        Head(audioq) \in Elements(audioq) /\ Elements(Tail(audioq)) \subseteq Elements(audioq)
  BY <1>1, TakenFrom
<1>3. asrq # <<>> => Head(asrq) \in Elements(asrq) /\ Elements(Tail(asrq)) \subseteq Elements(asrq)
  BY <1>1, TakenFrom
<1>4. appq # <<>> => Elements(Tail(appq)) \subseteq Elements(appq)
  BY <1>1, TakenFrom
<1>5. \A c : Elements(Append(audioq, c)) = Elements(audioq) \cup {c}
  BY <1>1, ElementsAppend
<1>6. \A c : Elements(Append(asrq, c)) = Elements(asrq) \cup {c}
  BY <1>1, ElementsAppend
<1>7. \A e : Elements(Append(appq, e)) = Elements(appq) \cup {e}
  BY <1>1, ElementsAppend
<1>8. /\ \A c : audioq' = Append(audioq, c) => Elements(audioq') = Elements(Append(audioq, c))
      /\ \A c : asrq' = Append(asrq, c) => Elements(asrq') = Elements(Append(asrq, c))
      /\ \A e : appq' = Append(appq, e) => Elements(appq') = Elements(Append(appq, e))
      /\ audioq' = Tail(audioq) => Elements(audioq') = Elements(Tail(audioq))
      /\ asrq' = Tail(asrq) => Elements(asrq') = Elements(Tail(asrq))
      /\ appq' = Tail(appq) => Elements(appq') = Elements(Tail(appq))
  BY DEF Elements
<1>. QED  BY <1>2, <1>3, <1>4, <1>5, <1>6, <1>7, <1>8

LEMMA PostsReported ==
  ASSUME BufferInv, EventInv, Posts, UNCHANGED asr
  PROVE  Reported' \subseteq Reported
<1>1. CASE appq' = appq
  BY <1>1 DEF Reported
<1>2. CASE \E e \in Events : /\ appq' = Append(appq, e)
                             /\ e.type = "ASR_DONE" => asr.pc = "report" /\ asr.event = e
  <2>1. PICK e \in Events : /\ appq' = Append(appq, e)
                            /\ e.type = "ASR_DONE" => asr.pc = "report" /\ asr.event = e
    BY <1>2
  <2>2. Elements(appq') = Elements(appq) \cup {e}
    BY <2>1, QueueSteps
  <2>. QED  BY <2>1, <2>2 DEF Reported
<1>. QED  BY <1>1, <1>2 DEF Posts

LEMMA AudioCarries ==
  ASSUME BufferInv, EventInv, ChatPairInv, AudioTask
  PROVE  Carried' \subseteq Carried
<1>1. Reported' \subseteq Reported
  BY TasksPost, PostsReported DEF AudioTask, TakeAudioCommand, StopStale, StopEmpty,
     StopRecording, HandOver, ReportAudioFailure, AudioFrame
<1>2. (Recorded \cup Submitted)' \subseteq Recorded \cup Submitted
  <2>0. UNCHANGED asr
    BY DEF AudioTask, TakeAudioCommand, StopStale, StopEmpty, StopRecording, HandOver,
           ReportAudioFailure, AudioFrame
  <2>1. CASE TakeAudioCommand
    <3>1. /\ Head(audioq) \in Elements(audioq) /\ Elements(audioq') \subseteq Elements(audioq)
          /\ UNCHANGED asrq /\ audio.pc = "wait"
      BY <2>1, QueueSteps DEF TakeAudioCommand
    <3>2. \/ audio' = audio
          \/ audio' = [pc |-> "capture", gen |-> Head(audioq).gen]
          \/ audio'.pc = "fail"
      BY <2>1 DEF TakeAudioCommand
    <3>. QED  BY <2>0, <3>1, <3>2 DEF Recorded, Submitted, Holding
  <2>2. CASE StopStale \/ StopEmpty \/ ReportAudioFailure
    BY <2>0, <2>2 DEF StopStale, StopEmpty, ReportAudioFailure, Idle, Recorded, Submitted, Holding
  <2>3. CASE StopRecording
    <3>1. /\ Elements(audioq') \subseteq Elements(audioq)
          /\ UNCHANGED asrq /\ audio.pc = "capture" /\ audio'.pc = "hand" /\ audio'.gen = audio.gen
      BY <2>3, QueueSteps DEF StopRecording
    <3>. QED  BY <2>0, <3>1 DEF Recorded, Submitted, Holding
  <2>4. CASE HandOver
    <3>1. /\ audio.pc = "hand" /\ UNCHANGED audioq /\ audio'.pc \in {"wait", "fail"}
          /\ \/ asrq' = asrq
             \/ asrq' = Append(asrq, [gen |-> audio.gen, epoch |-> audio.epoch])
      BY <2>4 DEF HandOver, Idle
    <3>2. \A c \in Elements(asrq') : c \in Elements(asrq) \/ c.gen = audio.gen
      BY <3>1, QueueSteps
    <3>. QED  BY <2>0, <3>1, <3>2 DEF Recorded, Submitted, Holding
  <2>. QED  BY <2>1, <2>2, <2>3, <2>4 DEF AudioTask
<1>. QED  BY <1>1, <1>2 DEF Carried

LEMMA AsrCarries ==
  ASSUME BufferInv, EventInv, ChatPairInv, AsrTask
  PROVE  Carried' \subseteq Carried
<1>1. Recorded' = Recorded
  BY DEF AsrTask, TakeAsrCommand, AnnounceAsr, EndTranscription, LockForAsr,
         CommitTranscript, ReportAsr, AsrFrame, Recorded
<1>2. CASE TakeAsrCommand
  <2>1. /\ Head(asrq) \in Elements(asrq) /\ Elements(asrq') \subseteq Elements(asrq)
        /\ asr.pc = "wait" /\ UNCHANGED appq
    BY <1>2, QueueSteps DEF TakeAsrCommand
  <2>2. \/ asr' = asr
        \/ asr'.pc = "report" /\ asr'.event.type \in {"CONFIG_CORRUPT", "ASR_FAILED"}
        \/ asr' = [pc |-> "started", gen |-> Head(asrq).gen, epoch |-> Head(asrq).epoch]
    BY <1>2 DEF TakeAsrCommand, AsrFails, Event
  <2>. QED  BY <1>1, <2>1, <2>2 DEF Carried, Submitted, Reported, Working
<1>3. CASE AnnounceAsr
  <2>1. /\ asr.pc = "started" /\ asr'.pc = "request" /\ asr'.gen = asr.gen /\ UNCHANGED asrq
    BY <1>3 DEF AnnounceAsr, BufferInv, AsrRecords
  <2>2. \A e \in Elements(appq') : e \in Elements(appq) \/ e.type # "ASR_DONE"
    <3>1. appq' = appq \/ appq' = Append(appq, Event("ASR_STARTED", asr.gen))
      BY <1>3 DEF AnnounceAsr, PostBounded, PostCritical
    <3>2. Event("ASR_STARTED", asr.gen).type # "ASR_DONE"
      BY DEF Event
    <3>. QED  BY <3>1, <3>2, QueueSteps
  <2>. QED  BY <1>1, <2>1, <2>2 DEF Carried, Submitted, Reported, Working
<1>4. CASE EndTranscription
  <2>1. /\ asr.pc = "request" /\ asr'.pc = "lock" /\ asr'.gen = asr.gen /\ UNCHANGED <<asrq, appq>>
    BY <1>4 DEF EndTranscription
  <2>. QED  BY <1>1, <2>1 DEF Carried, Submitted, Reported, Working
<1>5. CASE LockForAsr
  <2>1. asr.pc = "lock" /\ UNCHANGED <<asrq, appq>>
    BY <1>5 DEF LockForAsr
  <2>2. asr' = Idle \/ (asr'.pc = "commit" /\ asr'.gen = asr.gen)
    BY <1>5 DEF LockForAsr, BufferInv, AsrRecords
  <2>. QED  BY <1>1, <2>1, <2>2 DEF Carried, Submitted, Reported, Working, Idle
<1>6. CASE CommitTranscript
  <2>1. /\ asr.pc = "commit" /\ UNCHANGED <<asrq, appq>>
        /\ asr'.pc = "report" /\ asr'.event = Event(asr.type, asr.gen)
    BY <1>6 DEF CommitTranscript
  <2>2. asr'.event.value = asr.gen
    BY <2>1 DEF Event
  <2>. QED  BY <1>1, <2>1, <2>2 DEF Carried, Submitted, Reported, Working
<1>7. CASE ReportAsr
  <2>1. asr.pc = "report" /\ UNCHANGED asrq
    BY <1>7 DEF ReportAsr
  <2>2. asr' = Idle \/ (asr'.pc = "report" /\ asr'.event = asr.event)
    BY <1>7 DEF ReportAsr, BufferInv, AsrRecords
  <2>3. appq' = appq \/ appq' = Append(appq, asr.event)
    BY <1>7 DEF ReportAsr, PostCritical
  <2>4. \A e \in Elements(appq') : e \in Elements(appq) \/ e = asr.event
    BY <2>3, QueueSteps
  <2>5. Reported' \subseteq Reported
    BY <2>1, <2>2, <2>4 DEF Reported, Idle
  <2>6. Submitted' \subseteq Submitted
    BY <2>1, <2>2 DEF Submitted, Idle, Working
  <2>. QED  BY <1>1, <2>5, <2>6 DEF Carried
<1>. QED  BY <1>2, <1>3, <1>4, <1>5, <1>6, <1>7 DEF AsrTask

\* No step but the order to record or to stop brings a generation on its way.
LEMMA NextCarries ==
  ASSUME BufferInv, EventInv, ChatPairInv, [Next]_vars
  PROVE  /\ Carried' \subseteq Carried \cup {gen}
         /\ ~CommandAudio => Carried' \subseteq Carried
<1>1. CASE StateTask /\ ~ReceiveEvent
  <2>1. UNCHANGED <<audio, asr>>
    BY <1>1 DEF StateTask, BumpGeneration, ResetQueues, CancelRequests, ClearTexts,
       CommandAudio, PostPrompt, ForgetIntent, OrderReset, LoadConfig, OrderConnect,
       TasksUnchanged
  <2>2. Reported' \subseteq Reported
    BY <1>1, <2>1, TasksPost, PostsReported
  <2>3. Elements(asrq') \subseteq Elements(asrq)
    BY <1>1, NoElements DEF StateTask, BumpGeneration, ResetQueues, CancelRequests, ClearTexts,
       CommandAudio, PostPrompt, ForgetIntent, OrderReset, LoadConfig, OrderConnect
  <2>4. ~CommandAudio => Elements(audioq') \subseteq Elements(audioq)
    BY <1>1, NoElements DEF StateTask, BumpGeneration, ResetQueues, CancelRequests, ClearTexts,
       PostPrompt, ForgetIntent, OrderReset, LoadConfig, OrderConnect
  <2>5. CommandAudio => \A c \in Elements(audioq') : c \in Elements(audioq) \/ c.gen = gen
    <3>1. SUFFICES ASSUME CommandAudio, NEW c \in Elements(audioq')
                   PROVE  c \in Elements(audioq) \/ c.gen = gen
      OBVIOUS
    <3>2. audioq' = audioq \/ \E type \in {"start", "stop"} :
            audioq' = Append(audioq, [type |-> type, gen |-> gen])
      BY <3>1 DEF CommandAudio
    <3>. QED  BY <3>1, <3>2, QueueSteps
  <2>6. Submitted' \subseteq Submitted
    BY <2>1, <2>3 DEF Submitted
  <2>7. Recorded' \subseteq Recorded \cup {gen} /\ (~CommandAudio => Recorded' \subseteq Recorded)
    BY <2>1, <2>4, <2>5 DEF Recorded
  <2>. QED  BY <2>2, <2>6, <2>7 DEF Carried
<1>2. CASE ReceiveEvent \/ AsrDeadline
  <2>1. /\ UNCHANGED <<audio, asr, audioq, asrq>>
        /\ appq' = appq \/ (appq # <<>> /\ appq' = Tail(appq))
    BY <1>2 DEF ReceiveEvent, AsrDeadline, TasksUnchanged
  <2>2. Elements(appq') \subseteq Elements(appq)
    BY <2>1, QueueSteps
  <2>. QED  BY <2>1, <2>2 DEF Carried, Recorded, Submitted, Reported
<1>3. CASE ButtonTask \/ FactoryReset \/ LoseConfig \/ ChatTask \/ NetTask \/ UNCHANGED vars
  <2>1. UNCHANGED <<audio, asr, audioq, asrq>>
    <3>1. CASE ButtonTask \/ FactoryReset \/ LoseConfig \/ UNCHANGED vars
      BY <3>1 DEF ButtonTask, Press, Release, HoldTooLong, ButtonPosts, LetGo, FactoryReset,
         LoseConfig, vars
    <3>2. CASE ChatTask
      BY <3>2 DEF ChatTask, TakeChatCommand, ReportUnconfigured, AnnounceChat,
         LockForChat, HandleIntent, EndClassification, CheckReply, ShowReply, EndSpeech,
         EndReply, StreamDelta, PostToken, EndChat, CommitAnswer, ReportChat, ChatFrame
    <3>3. CASE NetTask
      BY <3>3 DEF NetTask, TakeNetCommand, EndConnect, ReportConnect, EraseConfig,
         ReportLoss, NetFrame
    <3>. QED  BY <1>3, <3>1, <3>2, <3>3
  <2>2. Reported' \subseteq Reported
    <3>1. CASE Press \/ FactoryReset
      <4>1. PICK type \in Orders : appq' = Append(appq, Event(type, 0))
        BY <3>1 DEF Press, FactoryReset, ButtonPosts, PostCritical, Orders
      <4>2. Event(type, 0).type # "ASR_DONE"
        BY <4>1 DEF Event, Orders
      <4>. QED  BY <2>1, <4>1, <4>2, QueueSteps DEF Reported
    <3>2. CASE UNCHANGED vars
      BY <3>2 DEF vars, Reported
    <3>. QED  BY <1>3, <2>1, <3>1, <3>2, TasksPost, PostsReported DEF ButtonTask
  <2>. QED  BY <2>1, <2>2 DEF Carried, Recorded, Submitted
<1>. QED  BY <1>1, <1>2, <1>3, AudioCarries, AsrCarries DEF Next


\* The step that skips the 0 is the next one, and the move of the generation
\* what the state task does when it is its turn.
LEMMA SkipFirst == TodoShape /\ "skipZero" \in Left => Doing("skipZero")
<1>. SUFFICES ASSUME TodoShape, "skipZero" \in Left PROVE Doing("skipZero")
  OBVIOUS
<1>1. todo # <<>>
  BY EmptyLeft
<1>2. todo \in Seq(Steps) /\ Tail(todo) \in Seq(PlainSteps)
  BY <1>1 DEF TodoShape
<1>3. Left = {Head(todo)} \cup Elements(Tail(todo))
  BY <1>1, <1>2, ElementsOf DEF Left
<1>4. Elements(Tail(todo)) \subseteq PlainSteps
  BY <1>2, ElementsOf
<1>5. "skipZero" \notin PlainSteps
  BY DEF PlainSteps
<1>. QED  BY <1>1, <1>3, <1>4, <1>5 DEF Doing

LEMMA BumpIsNext ==
  ASSUME StateTask, Doing("bump") \/ Doing("skipZero")
  PROVE  BumpGeneration
<1>1. todo # <<>> /\ Head(todo) \in Moving
  BY DEF Doing, Moving
<1>2. ~(ReceiveEvent \/ ResetQueues \/ ClearTexts \/ CommandAudio \/ PostPrompt
        \/ ForgetIntent \/ OrderReset \/ LoadConfig \/ OrderConnect)
  BY <1>1 DEF Moving, ReceiveEvent, ResetQueues, ClearTexts, CommandAudio, PostPrompt,
     ForgetIntent, OrderReset, LoadConfig, OrderConnect, Doing
<1>3. \A client \in DOMAIN CancelStep : ~CancelRequests(client)
  <2>1. \A client \in DOMAIN CancelStep :
          CancelStep[client] \notin Moving /\ RestoreStep[client] \notin Moving
    BY DEF CancelStep, RestoreStep, Moving
  <2>. QED  BY <1>1, <2>1 DEF CancelRequests, Doing
<1>. QED  BY <1>2, <1>3 DEF StateTask

LEMMA GenerationThere ==
  ASSUME BufferInv, CommitInv, CounterInv, StateTask, ~BumpGeneration
  PROVE  gen \in 1 .. Wrap - 1 /\ UNCHANGED gen
<1>1. gen \in 0 .. Wrap - 1 /\ Wrap \in Nat
  BY WrapAssumption DEF BufferInv, CountersTyped, Generations
<1>2. gen # 0
  BY SkipFirst, BumpIsNext DEF CommitInv, CounterInv
<1>3. UNCHANGED gen
  BY DEF StateTask, ReceiveEvent, ResetQueues, CancelRequests, ClearTexts,
     CommandAudio, PostPrompt, ForgetIntent, OrderReset, LoadConfig, OrderConnect
<1>. QED  BY <1>1, <1>2, <1>3

\* Between two moves of the generation the list only shortens.
LEMMA LeftShrinks ==
  ASSUME CommitInv, ListInv, StateTask, ~ReceiveEvent, ~BumpGeneration
  PROVE  /\ Left' \subseteq Left \cup Restores
         /\ \A s \in Left : s \in Left' \/ Doing(s)
         /\ "bump" \in Left => "bump" \in Left'
         /\ UNCHANGED mach
<1>0. TodoShape /\ UNCHANGED mach
  BY StateSteps DEF CommitInv
<1>1. ~Doing("bump")
  BY BumpIsNext
<1>2. CASE \E s \in Steps : Doing(s) /\ Done
  <2>1. PICK s \in Steps : Doing(s) /\ Done
    BY <1>2
  <2>2. Left' = Left \ {s}
    BY <1>0, <2>1, DoneLeft
  <2>. QED  BY <1>0, <1>1, <2>1, <2>2
<1>3. CASE \E client \in Clients : Doing(CancelStep[client]) /\ Then(RestoreStep[client])
  <2>1. PICK client \in Clients : Doing(CancelStep[client]) /\ Then(RestoreStep[client])
    BY <1>3
  <2>2. /\ RestoreStep[client] \in Steps /\ RestoreStep[client] \in Restores
        /\ CancelStep[client] # "bump" /\ Rank[CancelStep[client]] = Rank[RestoreStep[client]]
    BY DEF Clients, CancelStep, RestoreStep, Restores, Steps, Rank
  <2>3. Left' = (Left \ {CancelStep[client]}) \cup {RestoreStep[client]}
    BY <1>0, <2>1, <2>2, ThenLeft
  <2>. QED  BY <1>0, <2>1, <2>2, <2>3
<1>. QED  BY <1>0, <1>1, <1>2, <1>3, StateSteps

LEMMA OldStays ==
  ASSUME CommitInv, ListInv, StateTask, ~ReceiveEvent, ~BumpGeneration, Young'
  PROVE  Young /\ ~CommandAudio
<1>1. /\ Left' \subseteq Left \cup Restores /\ ("bump" \in Left => "bump" \in Left')
  BY LeftShrinks
<1>2. Young
  BY <1>1 DEF Young, Restores
<1>3. ~CommandAudio
  <2>1. SUFFICES ASSUME NEW type \in {"start", "stop"}, Doing(type), Done PROVE FALSE
    BY DEF CommandAudio
  <2>2. Left' = Left \ {type} /\ type \in Left
    BY <2>1, DoneLeft DEF CommitInv
  <2>. QED  BY <1>2, <2>1, <2>2 DEF Young, ListInv
<1>. QED  BY <1>2, <1>3

\* What is current while no older interaction is being ended has the current
\* epoch.
LEMMA EpochWhenCurrent ==
  ASSUME ListInv, CounterInv, ~Young
  PROVE  epoch["asr"] = gen
<1>1. EpochAt("asr") /\ CancelStep["asr"] = "cancelAsr" /\ RestoreStep["asr"] = "restoreAsr"
  BY DEF CounterInv, Clients, CancelStep, RestoreStep
<1>2. CASE "bump" \in Left
  BY <1>1, <1>2 DEF EpochAt
<1>3. CASE "bump" \notin Left
  <2>1. Left \cap Renewal = {}
    BY <1>3 DEF Young, ListInv
  <2>. QED  BY <1>1, <2>1 DEF EpochAt, Renewal, Cancels, Restores
<1>. QED  BY <1>2, <1>3

LEMMA AudioKeepsPairs ==
  ASSUME BufferInv, EventInv, ListInv, CounterInv, FreshInv, AudioTask
  PROVE  EpochsPaired'
<1>0. UNCHANGED <<gen, asr>>
  BY DEF AudioTask, TakeAudioCommand, StopStale, StopEmpty, StopRecording, HandOver,
         ReportAudioFailure, Others, AudioFrame
<1>1. CASE StopRecording
  <2>1. /\ audio.pc = "capture" /\ UNCHANGED asrq
        /\ audio' = [pc |-> "hand", gen |-> audio.gen, epoch |-> epoch["asr"]]
    BY <1>1 DEF StopRecording
  <2>2. audio.gen = gen => epoch["asr"] = gen
    <3>1. audio.gen \in Carried
      BY <2>1 DEF Carried, Recorded, Holding
    <3>. QED  BY <3>1, EpochWhenCurrent DEF FreshInv
  <2>3. (audio.pc = "hand" /\ audio.gen = gen => audio.epoch = gen)'
    BY <1>0, <2>1, <2>2
  <2>. QED  BY <1>0, <2>1, <2>3 DEF FreshInv, EpochsPaired
<1>2. CASE HandOver
  <2>1. /\ audio.pc = "hand" /\ audio'.pc \in {"wait", "fail"}
        /\ \/ asrq' = asrq
           \/ asrq' = Append(asrq, [gen |-> audio.gen, epoch |-> audio.epoch])
    BY <1>2 DEF HandOver, Idle
  <2>2. \A c \in Elements(asrq') :
          c \in Elements(asrq) \/ c = [gen |-> audio.gen, epoch |-> audio.epoch]
    BY <2>1, QueueSteps
  <2>. QED  BY <1>0, <2>1, <2>2 DEF FreshInv, EpochsPaired
<1>3. CASE TakeAudioCommand \/ StopStale \/ StopEmpty \/ ReportAudioFailure
  <2>1. UNCHANGED asrq /\ (audio' = audio \/ audio'.pc # "hand")
    BY <1>3 DEF TakeAudioCommand, StopStale, StopEmpty, ReportAudioFailure, Idle
  <2>. QED  BY <1>0, <2>1 DEF FreshInv, EpochsPaired
<1>. QED  BY <1>1, <1>2, <1>3 DEF AudioTask

LEMMA AsrKeepsPairs ==
  ASSUME BufferInv, EventInv, FreshInv, AsrTask
  PROVE  EpochsPaired'
<1>0. UNCHANGED <<gen, audio>>
  BY DEF AsrTask, TakeAsrCommand, AnnounceAsr, EndTranscription, LockForAsr,
         CommitTranscript, ReportAsr, AsrFrame
<1>1. CASE TakeAsrCommand
  <2>1. Head(asrq) \in Elements(asrq) /\ Elements(asrq') \subseteq Elements(asrq) /\ asr.pc = "wait"
    BY <1>1, QueueSteps DEF TakeAsrCommand
  <2>2. \/ asr' = asr
        \/ asr'.pc = "report"
        \/ /\ asr' = [pc |-> "started", gen |-> Head(asrq).gen, epoch |-> Head(asrq).epoch]
           /\ Head(asrq).gen = gen
    BY <1>1 DEF TakeAsrCommand, AsrFails, IsCurrent
  <2>3. Head(asrq).gen = gen => Head(asrq).epoch = gen
    BY <2>1 DEF FreshInv, EpochsPaired
  <2>4. (asr.pc \in {"started", "request"} => asr.epoch = asr.gen)'
    BY <2>1, <2>2, <2>3
  <2>. QED  BY <1>0, <2>1, <2>4 DEF FreshInv, EpochsPaired
<1>2. CASE AnnounceAsr
  <2>1. /\ UNCHANGED asrq /\ asr.pc = "started"
        /\ asr' = [pc |-> "request", gen |-> asr.gen, epoch |-> asr.epoch]
    BY <1>2 DEF AnnounceAsr, BufferInv, AsrRecords
  <2>. QED  BY <1>0, <2>1 DEF FreshInv, EpochsPaired
<1>3. CASE EndTranscription \/ LockForAsr \/ CommitTranscript \/ ReportAsr
  <2>1. UNCHANGED asrq
    BY <1>3 DEF EndTranscription, LockForAsr, CommitTranscript, ReportAsr
  <2>2. asr'.pc \notin {"started", "request"}
    <3>1. CASE EndTranscription \/ CommitTranscript
      BY <3>1 DEF EndTranscription, CommitTranscript
    <3>2. CASE LockForAsr
      BY <3>2 DEF LockForAsr, BufferInv, AsrRecords, Idle
    <3>3. CASE ReportAsr
      BY <3>3 DEF ReportAsr, BufferInv, AsrRecords, Idle
    <3>. QED  BY <1>3, <3>1, <3>2, <3>3
  <2>. QED  BY <1>0, <2>1, <2>2 DEF FreshInv, EpochsPaired
<1>. QED  BY <1>1, <1>2, <1>3 DEF AsrTask

\* What an event leads to starts with the move of the generation, if at all.
LEMMA HandledIsOld ==
  ASSUME todo = <<>>, NEW e, NEW expired \in BOOLEAN, expired => e.type = "TIMEOUT",
         Handle(e, expired)
  PROVE  ~Young'
<1>1. CASE todo' = todo
  <2>1. Left' = {}
    BY <1>1, EmptyLeft DEF Left
  <2>. QED  BY <2>1 DEF Young
<1>2. CASE todo' # todo
  <2>1. PICK m \in Dispatch(mach, e.type) :
          todo' = Work(mach.state, m.state, e.type, expired)
    BY <1>2 DEF Handle
  <2>2. Left' = RecordingSteps(mach.state, m.state)
                \cup PromptSteps(mach.state, m.state, e.type)
                \cup ForgetSteps(e.type, expired) \cup ConfigSteps(m.state, e.type)
    BY <2>1, WorkLeft
  <2>. QED  BY <2>2 DEF Young, RecordingSteps, PromptSteps, ForgetSteps, ConfigSteps
<1>. QED  BY <1>1, <1>2

LEMMA NextKeepsFresh ==
  BufferInv /\ CommitInv /\ EventInv /\ ListInv /\ CounterInv /\ ChatPairInv /\ BudgetInv
    /\ FreshInv /\ [Next]_vars => FreshInv'
<1>. SUFFICES ASSUME BufferInv, CommitInv, EventInv, ListInv, CounterInv, ChatPairInv,
                     BudgetInv, FreshInv, [Next]_vars
              PROVE  FreshInv'
  OBVIOUS
<1>0. /\ Carried' \subseteq Carried \cup {gen} /\ (~CommandAudio => Carried' \subseteq Carried)
      /\ \A g \in Carried : KnownAt(g, gen)
  BY NextCarries DEF FreshInv
<1>1. CASE BumpGeneration
  <2>1. ~CommandAudio /\ UNCHANGED <<audio, asr, asrq>>
    BY <1>1 DEF BumpGeneration, CommandAudio, Doing, TasksUnchanged
  <2>2. \A g \in Carried : KnownAt(g, gen') /\ g # gen'
    BY <1>0, <1>1, GenerationMoves
  <2>3. \A g \in Carried' : KnownAt(g, gen)' /\ g # gen'
    <3>1. \A g : KnownAt(g, gen') = KnownAt(g, gen)'
      BY DEF KnownAt, Position
    <3>. QED  BY <1>0, <2>1, <2>2, <3>1
  <2>4. EpochsPaired'
    <3>1. (audio.pc = "hand" => audio.gen \in Carried)'
      BY DEF Carried, Recorded, Holding
    <3>2. (\A c \in Elements(asrq) : c.gen \in Carried)'
      BY DEF Carried, Submitted
    <3>. QED  BY <2>1, <2>3, <3>1, <3>2 DEF FreshInv, EpochsPaired
  <2>. QED  BY <2>3, <2>4 DEF FreshInv
<1>2. CASE StateTask /\ ~ReceiveEvent /\ ~BumpGeneration
  <2>1. gen \in 1 .. Wrap - 1 /\ gen' = gen
    BY <1>2, GenerationThere
  <2>2. \A g \in Carried' : KnownAt(g, gen)'
    <3>1. KnownAt(gen, gen)
      BY <2>1, PositionTyped DEF KnownAt
    <3>2. \A g : KnownAt(g, gen)' = KnownAt(g, gen)
      BY <2>1 DEF KnownAt, Position
    <3>. QED  BY <1>0, <3>1, <3>2
  <2>3. Young' => gen' \notin Carried'
    BY <1>0, <1>2, <2>1, OldStays DEF FreshInv
  <2>4. EpochsPaired'
    <3>1. UNCHANGED <<audio, asr>> /\ asrq' \in {asrq, <<>>}
      BY <1>2 DEF StateTask, BumpGeneration, ResetQueues, CancelRequests, ClearTexts,
         CommandAudio, PostPrompt, ForgetIntent, OrderReset, LoadConfig, OrderConnect,
         TasksUnchanged
    <3>2. Elements(asrq') \subseteq Elements(asrq)
      BY <3>1, NoElements
    <3>. QED  BY <2>1, <3>1, <3>2 DEF FreshInv, EpochsPaired
  <2>. QED  BY <2>2, <2>3, <2>4 DEF FreshInv
<1>3. CASE ReceiveEvent \/ AsrDeadline
  <2>1. ~CommandAudio /\ UNCHANGED <<gen, audio, asr, asrq>> /\ todo = <<>>
    BY <1>3 DEF ReceiveEvent, AsrDeadline, CommandAudio, Doing, TasksUnchanged
  <2>2. ~Young'
    <3>1. CASE ReceiveEvent
      BY <2>1, <3>1, HandledIsOld DEF ReceiveEvent
    <3>2. CASE AsrDeadline
      <4>1. Handle(Event("TIMEOUT", gen), TRUE) /\ Event("TIMEOUT", gen).type = "TIMEOUT"
        BY <3>2 DEF AsrDeadline, Event
      <4>. QED  BY <2>1, <4>1, HandledIsOld
    <3>. QED  BY <1>3, <3>1, <3>2
  <2>3. \A g : KnownAt(g, gen)' = KnownAt(g, gen)
    BY <2>1 DEF KnownAt, Position
  <2>. QED  BY <1>0, <2>1, <2>2, <2>3 DEF FreshInv, EpochsPaired
<1>4. CASE ~(StateTask \/ AsrDeadline)
  <2>1. UNCHANGED <<todo, mach, gen>>
    BY <1>4, OthersKeepList DEF Next
  <2>2. ~CommandAudio /\ Young' = Young
    BY <1>4, <2>1 DEF StateTask, Young, Left
  <2>3. \A g : KnownAt(g, gen)' = KnownAt(g, gen)
    BY <2>1 DEF KnownAt, Position
  <2>4. EpochsPaired'
    <3>1. CASE ButtonTask \/ FactoryReset \/ LoseConfig \/ ChatTask \/ NetTask \/ UNCHANGED vars
      <4>1. UNCHANGED <<audio, asr, asrq>>
        <5>1. CASE ButtonTask \/ FactoryReset \/ LoseConfig \/ UNCHANGED vars
          BY <5>1 DEF ButtonTask, Press, Release, HoldTooLong, ButtonPosts, LetGo, FactoryReset,
             LoseConfig, vars
        <5>2. CASE ChatTask
          BY <5>2 DEF ChatTask, TakeChatCommand, ReportUnconfigured, AnnounceChat,
             LockForChat, HandleIntent, EndClassification, CheckReply, ShowReply, EndSpeech,
             EndReply, StreamDelta, PostToken, EndChat, CommitAnswer, ReportChat, ChatFrame
        <5>3. CASE NetTask
          BY <5>3 DEF NetTask, TakeNetCommand, EndConnect, ReportConnect, EraseConfig,
             ReportLoss, NetFrame
        <5>. QED  BY <3>1, <5>1, <5>2, <5>3
      <4>. QED  BY <2>1, <4>1 DEF FreshInv, EpochsPaired
    <3>. QED  BY <1>4, <3>1, AudioKeepsPairs, AsrKeepsPairs DEF Next
  <2>. QED  BY <1>0, <2>1, <2>2, <2>3, <2>4 DEF FreshInv
<1>. QED  BY <1>1, <1>2, <1>3, <1>4 DEF StateTask

\* No generation comes back while something still carries it, and what is
\* carried has the epoch of its generation.
THEOREM FreshInductive == Spec => []FreshInv
BY FreshInit, NextKeepsFresh, BuffersInductive, CommitsInductive, EventsInductive,
   ListInductive, CountersInductive, PairsInductive, BudgetInductive, PTL DEF Spec

\* While the state task is not between two interactions, the epoch of a request
\* is live exactly when its interaction is the current one: no lock joins the
\* two counters, the order of the steps of begin_new_interaction does.
THEOREM LiveIffCurrent == Spec => []RequestLiveIffCurrent
<1>1. ListInv /\ CounterInv /\ ChatPairInv /\ FreshInv => RequestLiveIffCurrent
  <2>. SUFFICES ASSUME ListInv, CounterInv, ChatPairInv, FreshInv, ~Renewing
                PROVE  RequestLiveIffCurrent
    BY DEF RequestLiveIffCurrent
  <2>1. Left \cap (Moving \cup Cancels \cup Restores) = {}
    BY DEF Renewing, Left, Elements, Moving, Cancels, Restores, CancelStep, RestoreStep
  <2>2. gen # 0 /\ \A client \in Clients : epoch[client] = gen
    BY <2>1, CountersRest
  <2>. QED  BY <2>2 DEF RequestLiveIffCurrent, ChatPairInv, FreshInv, EpochsPaired,
            EpochIsCurrent, IsCurrent, Clients
<1>. QED  BY <1>1, ListInductive, CountersInductive, PairsInductive, FreshInductive, PTL

----------------------------------------------------------------------------
\* The audio queue has room for the orders of the current interaction, and a
\* recording the machine has left is followed by the order to stop it.

\* The move of the generation leaves everything after it on the list.
LEMMA BumpLeft ==
  ASSUME CommitInv, ListInv, BumpGeneration
  PROVE  /\ Left' \subseteq Left \cup {"skipZero"} /\ Left \subseteq Left' \cup Moving
         /\ UNCHANGED <<mach, audioq, asrq, chatq, appq, audio, asr, chat, transcript, reply>>
<1>0. UNCHANGED <<mach, audioq, asrq, chatq, appq, audio, asr, chat, transcript, reply>>
  BY DEF BumpGeneration, TasksUnchanged
<1>1. \/ \E s \in Moving : Doing(s) /\ Done
      \/ Doing("bump") /\ Then("skipZero")
  BY DEF BumpGeneration, Moving
<1>2. CASE \E s \in Moving : Doing(s) /\ Done
  <2>1. PICK s \in Moving : Doing(s) /\ Done
    BY <1>2
  <2>2. Left' = Left \ {s}
    BY <2>1, DoneLeft DEF CommitInv
  <2>. QED  BY <1>0, <2>1, <2>2
<1>3. CASE Doing("bump") /\ Then("skipZero")
  <2>1. "skipZero" \in Steps /\ Rank["bump"] = Rank["skipZero"]
    BY DEF Steps, Rank
  <2>2. Left' = (Left \ {"bump"}) \cup {"skipZero"}
    BY <1>3, <2>1, ThenLeft DEF CommitInv
  <2>. QED  BY <1>0, <2>2 DEF Moving
<1>. QED  BY <1>1, <1>2, <1>3

LEMMA TailLength ==
  ASSUME NEW S, NEW q \in Seq(S)
  PROVE  /\ Len(q) \in Nat /\ (q = <<>> <=> Len(q) = 0)
         /\ q # <<>> => Len(Tail(q)) = Len(q) - 1
         /\ \A e : Len(Append(q, e)) = Len(q) + 1
<1>1. Len(q) \in Nat /\ (q = <<>> <=> Len(q) = 0)
  BY EmptySeq, LenProperties
<1>2. q # <<>> => Len(Tail(q)) = Len(q) - 1
  BY HeadTailProperties
<1>3. \A e : Len(Append(q, e)) = Len(q) + 1
  <2>1. SUFFICES ASSUME NEW e PROVE Len(Append(q, e)) = Len(q) + 1
    OBVIOUS
  <2>2. q \in Seq(S \cup {e}) /\ e \in S \cup {e}
    BY LenProperties, IsASeq
  <2>. QED  BY <2>2, AppendProperties
<1>. QED  BY <1>1, <1>2, <1>3

AudioRoomInv ==
  /\ "start" \in Left /\ "resetAudio" \notin Left => audioq = <<>>
  /\ mach.state = "RECORDING" /\ "start" \notin Left => Len(audioq) <= 1
  /\ "stop" \in Left => Len(audioq) <= 1

\* Every x of q comes before some y.
Answered(q, x, y) == \A i \in DOMAIN q : q[i] = x => \E j \in DOMAIN q : i < j /\ q[j] = y

AudioOrder(type) == [type |-> type, gen |-> gen]

StopOrdered ==
  /\ audio.pc = "capture" /\ audio.gen = gen => AudioOrder("stop") \in Elements(audioq)
  /\ Answered(audioq, AudioOrder("start"), AudioOrder("stop"))

MicInv ==
  mach.state # "RECORDING" /\ Left \cap {"bump", "skipZero", "stop"} = {} => StopOrdered

LEMMA AnsweredTail ==
  ASSUME NEW S, NEW q \in Seq(S), NEW x, NEW y, q # <<>>, Answered(q, x, y)
  PROVE  Answered(Tail(q), x, y) /\ (Head(q) = x => y \in Elements(Tail(q)))
<1>1. /\ Len(q) \in Nat \ {0} /\ DOMAIN q = 1 .. Len(q) /\ Head(q) = q[1]
      /\ DOMAIN Tail(q) = 1 .. Len(q) - 1
      /\ \A i \in 1 .. Len(q) - 1 : Tail(q)[i] = q[i + 1]
  BY LenProperties, HeadTailProperties, EmptySeq
<1>2. \A j \in 1 .. Len(q) : 1 < j => j - 1 \in 1 .. Len(q) - 1 /\ Tail(q)[j - 1] = q[j]
  BY <1>1
<1>3. Answered(Tail(q), x, y)
  <2>1. SUFFICES ASSUME NEW i \in 1 .. Len(q) - 1, Tail(q)[i] = x
                 PROVE  \E j \in 1 .. Len(q) - 1 : i < j /\ Tail(q)[j] = y
    BY <1>1 DEF Answered
  <2>2. i + 1 \in 1 .. Len(q) /\ q[i + 1] = x
    BY <1>1, <2>1
  <2>3. PICK k \in 1 .. Len(q) : i + 1 < k /\ q[k] = y
    BY <1>1, <2>2 DEF Answered
  <2>4. k - 1 \in 1 .. Len(q) - 1 /\ Tail(q)[k - 1] = y /\ i < k - 1
    BY <1>1, <1>2, <2>3
  <2>. QED  BY <2>4
<1>4. ASSUME Head(q) = x PROVE y \in Elements(Tail(q))
  <2>1. PICK k \in 1 .. Len(q) : 1 < k /\ q[k] = y
    BY <1>1, <1>4 DEF Answered
  <2>2. k - 1 \in DOMAIN Tail(q) /\ Tail(q)[k - 1] = y
    BY <1>1, <1>2, <2>1
  <2>. QED  BY <2>2 DEF Elements
<1>. QED  BY <1>3, <1>4

LEMMA AnsweredAppend ==
  ASSUME NEW S, NEW q \in Seq(S), NEW x, NEW y \in S, x # y
  PROVE  Answered(Append(q, y), x, y) /\ Answered(<<>>, x, y)
<1>1. /\ Len(q) \in Nat /\ DOMAIN q = 1 .. Len(q)
      /\ DOMAIN Append(q, y) = 1 .. Len(q) + 1 /\ Append(q, y)[Len(q) + 1] = y
  BY LenProperties, AppendProperties
<1>2. Len(q) + 1 \in 1 .. Len(q) + 1 /\ \A i \in 1 .. Len(q) + 1 : i < Len(q) + 1 \/ i = Len(q) + 1
  BY <1>1
<1>. QED  BY <1>1, <1>2 DEF Answered

LEMMA AudioRoomInit == Init => AudioRoomInv /\ MicInv
<1>. SUFFICES ASSUME Init PROVE AudioRoomInv /\ MicInv
  OBVIOUS
<1>1. todo = <<>> /\ audioq = <<>> /\ audio.pc = "wait" /\ Len(audioq) = 0
  BY DEF Init, InitWith, Idle
<1>2. Left = {} /\ DOMAIN audioq = {}
  BY <1>1, EmptyLeft
<1>. QED  BY <1>1, <1>2 DEF AudioRoomInv, MicInv, StopOrdered, Answered

\* The order to record finds an empty queue, and the order to stop one with room.
LEMMA AudioOrderFits ==
  ASSUME BufferInv, CommitInv, ListInv, AudioRoomInv
  PROVE  /\ Doing("start") => audioq = <<>> /\ Len(audioq) = 0
         /\ Doing("stop") => Len(audioq) <= 1
         /\ Doing("start") \/ Doing("stop") => HasRoom(audioq, AudioDepth)
<1>1. audioq \in Seq(AudioCommands) /\ AudioDepth \in Nat /\ AudioDepth >= 2
  BY DepthAssumption, RoomAssumption DEF BufferInv, CountersTyped
<1>2. ASSUME Doing("start") PROVE audioq = <<>>
  <2>1. /\ todo \in Seq(Steps) /\ todo # <<>> /\ Head(todo) = "start" /\ Ordered(todo)
    BY <1>2 DEF CommitInv, TodoShape, ListInv, Doing
  <2>2. /\ \A s \in Elements(Tail(todo)) : Rank["start"] < Rank[s]
        /\ Left = {"start"} \cup Elements(Tail(todo))
    BY <2>1, OrderedTail, ElementsOf DEF Left
  <2>3. "resetAudio" \notin Left
    BY <2>2 DEF Rank
  <2>. QED  BY <2>2, <2>3 DEF AudioRoomInv
<1>3. ASSUME Doing("stop") PROVE Len(audioq) <= 1
  BY <1>3, DoingLeft DEF AudioRoomInv, CommitInv
<1>4. Len(audioq) \in Nat /\ (audioq = <<>> => Len(audioq) = 0)
  BY <1>1, TailLength
<1>. QED  BY <1>1, <1>2, <1>3, <1>4 DEF HasRoom

\* What a handled event means for the recording.
LEMMA HandledRecording ==
  ASSUME todo = <<>>, NEW e, NEW expired \in BOOLEAN, expired => e.type = "TIMEOUT",
         Handle(e, expired)
  PROVE  /\ "start" \in Left' => "resetAudio" \in Left' /\ "bump" \in Left'
         /\ mach'.state = "RECORDING" => "start" \in Left' \/ mach.state = "RECORDING"
         /\ "stop" \in Left' => mach.state = "RECORDING"
         /\ mach.state = "RECORDING" => mach'.state = "RECORDING" \/ "stop" \in Left'
<1>1. CASE UNCHANGED <<mach, todo>>
  <2>1. Left' = {}
    BY <1>1, EmptyLeft DEF Left
  <2>. QED  BY <1>1, <2>1
<1>2. CASE ~UNCHANGED <<mach, todo>>
  <2>1. PICK m \in Dispatch(mach, e.type) :
          mach' = m /\ todo' = Work(mach.state, m.state, e.type, expired)
    BY <1>2 DEF Handle
  <2>2. Left' = RecordingSteps(mach.state, m.state)
                \cup PromptSteps(mach.state, m.state, e.type)
                \cup ForgetSteps(e.type, expired) \cup ConfigSteps(m.state, e.type)
    BY <2>1, WorkLeft
  <2>. QED  BY <2>1, <2>2 DEF RecordingSteps, PromptSteps, ForgetSteps, ConfigSteps, Cleanings,
            Cancels
<1>. QED  BY <1>1, <1>2

\* The state task but for the events it takes.
LEMMA StateKeepsRoom ==
  ASSUME BufferInv, CommitInv, EventInv, ListInv, CounterInv, BudgetInv, FreshInv,
         AudioRoomInv, MicInv, StateTask, ~ReceiveEvent
  PROVE  AudioRoomInv' /\ MicInv'
<1>0. audioq \in Seq(AudioCommands) /\ Len(audioq) \in Nat /\ UNCHANGED <<mach, audio>>
  <2>1. audioq \in Seq(AudioCommands) /\ UNCHANGED mach
    BY StateSteps DEF BufferInv, CountersTyped
  <2>2. UNCHANGED audio
    BY DEF StateTask, ReceiveEvent, BumpGeneration, ResetQueues, CancelRequests, ClearTexts,
       CommandAudio, PostPrompt, ForgetIntent, OrderReset, LoadConfig, OrderConnect,
       TasksUnchanged
  <2>. QED  BY <2>1, <2>2, TailLength
<1>1. CASE BumpGeneration
  <2>1. /\ Left' \subseteq Left \cup {"skipZero"} /\ Left \subseteq Left' \cup Moving
        /\ UNCHANGED audioq
    BY <1>1, BumpLeft
  <2>2. AudioRoomInv'
    BY <1>0, <2>1 DEF AudioRoomInv, Moving
  <2>3. \A g \in Carried : g # gen'
    BY <1>1, GenerationMoves DEF FreshInv
  <2>4. (audio.pc = "capture" => audio.gen # gen)' /\ AudioOrder("start")' \notin Elements(audioq)
    <3>1. AudioOrder("start")'.gen = gen'
      BY DEF AudioOrder
    <3>. QED  BY <1>0, <2>3, <3>1 DEF Carried, Recorded, Holding
  <2>5. MicInv'
    BY <2>1, <2>4 DEF MicInv, StopOrdered, Answered, Elements
  <2>. QED  BY <2>2, <2>5
<1>2. CASE CommandAudio
  <2>1. PICK type \in {"start", "stop"} :
          /\ Doing(type) /\ Done /\ UNCHANGED gen
          /\ HasRoom(audioq, AudioDepth) => audioq' = Append(audioq, AudioOrder(type))
    BY <1>2 DEF CommandAudio, AudioOrder
  <2>2. audioq' = Append(audioq, AudioOrder(type))
    BY <2>1, AudioOrderFits
  <2>3. Len(audioq') = Len(audioq) + 1
    BY <1>0, <2>2, TailLength
  <2>4. Left' = Left \ {type} /\ type \in Left
    BY <2>1, DoneLeft DEF CommitInv
  <2>5. CASE type = "start"
    <3>1. Len(audioq') = 1 /\ mach'.state = "RECORDING"
      BY <1>0, <2>1, <2>3, <2>4, <2>5, AudioOrderFits DEF ListInv
    <3>. QED  BY <1>0, <2>4, <2>5, <3>1 DEF AudioRoomInv, MicInv, StopOrdered, ListInv
  <2>6. CASE type = "stop"
    <3>1. AudioRoomInv'
      BY <1>0, <2>4, <2>6 DEF AudioRoomInv, ListInv
    <3>2. AudioOrder("stop") \in Elements(audioq')
      BY <2>2, <2>6, QueueSteps
    <3>3. Answered(audioq', AudioOrder("start"), AudioOrder("stop"))
      <4>1. AudioOrder("stop") \in AudioCommands /\ AudioOrder("start") # AudioOrder("stop")
        BY DEF AudioOrder, AudioCommands, BufferInv, CountersTyped
      <4>2. Answered(Append(audioq, AudioOrder("stop")), AudioOrder("start"), AudioOrder("stop"))
        BY <1>0, <4>1, AnsweredAppend
      <4>. QED  BY <2>2, <2>6, <4>2
    <3>4. MicInv'
      BY <2>1, <3>2, <3>3 DEF MicInv, StopOrdered, AudioOrder
    <3>. QED  BY <3>1, <3>4
  <2>. QED  BY <2>5, <2>6
<1>3. CASE ~BumpGeneration /\ ~CommandAudio
  <2>1. /\ Left' \subseteq Left \cup Restores /\ (\A s \in Left : s \in Left' \/ Doing(s))
        /\ UNCHANGED gen
    BY <1>3, LeftShrinks, GenerationThere
  <2>2. ~Doing("start") /\ ~Doing("stop") /\ ~Doing("bump") /\ ~Doing("skipZero")
    <3>1. ~Doing("bump") /\ ~Doing("skipZero")
      BY <1>3, BumpIsNext
    <3>2. SUFFICES ASSUME Doing("start") \/ Doing("stop") PROVE FALSE
      BY <3>1
    <3>3. \A s \in DOMAIN CancelStep : /\ CancelStep[s] \notin {"start", "stop"}
                                       /\ RestoreStep[s] \notin {"start", "stop"}
      BY DEF CancelStep, RestoreStep
    <3>4. \A s \in DOMAIN CancelStep : ~CancelRequests(s)
      BY <3>2, <3>3 DEF CancelRequests, Doing
    <3>. QED  BY <1>3, <3>2, <3>4 DEF StateTask, ReceiveEvent, BumpGeneration, ResetQueues,
              ClearTexts, PostPrompt, ForgetIntent, OrderReset, LoadConfig, OrderConnect, Doing
  <2>3. CASE Doing("resetAudio")
    <3>1. audioq' = <<>> /\ Len(audioq') = 0 /\ DOMAIN audioq' = {}
      <4>1. \A s \in DOMAIN CancelStep : /\ CancelStep[s] # "resetAudio"
                                         /\ RestoreStep[s] # "resetAudio"
        BY DEF CancelStep, RestoreStep
      <4>2. \A s \in DOMAIN CancelStep : ~CancelRequests(s)
        BY <2>3, <4>1 DEF CancelRequests, Doing
      <4>3. ResetQueues
        BY <1>3, <2>3, <4>2 DEF StateTask, ReceiveEvent, BumpGeneration, ResetQueues,
           CommandAudio, ClearTexts, PostPrompt, ForgetIntent, OrderReset, LoadConfig,
           OrderConnect, Doing
      <4>4. audioq' = <<>>
        BY <2>3, <4>3 DEF ResetQueues, Doing
      <4>. QED  BY <4>4
    <3>2. AudioRoomInv'
      BY <3>1 DEF AudioRoomInv
    <3>3. ASSUME "bump" \notin Left' PROVE ~(audio.pc = "capture" /\ audio.gen = gen)
      <4>1. "bump" \notin Left /\ "resetAudio" \in Left
        BY <2>1, <2>2, <2>3, <3>3, DoingLeft DEF CommitInv
      <4>2. Young
        BY <4>1 DEF ListInv, Young, Renewal, Cleanings
      <4>. QED  BY <4>2 DEF FreshInv, Carried, Recorded, Holding
    <3>4. MicInv'
      BY <1>0, <2>1, <3>1, <3>3 DEF MicInv, StopOrdered, Answered
    <3>. QED  BY <3>2, <3>4
  <2>4. CASE ~Doing("resetAudio")
    <3>1. UNCHANGED audioq
      BY <1>3, <2>4 DEF StateTask, ReceiveEvent, BumpGeneration, ResetQueues, CancelRequests,
         ClearTexts, PostPrompt, ForgetIntent, OrderReset, LoadConfig, OrderConnect
    <3>2. AudioRoomInv'
      BY <1>0, <2>1, <2>2, <2>4, <3>1 DEF AudioRoomInv, Restores
    <3>3. MicInv'
      BY <1>0, <2>1, <2>2, <3>1 DEF MicInv, StopOrdered, AudioOrder
    <3>. QED  BY <3>2, <3>3
  <2>. QED  BY <2>3, <2>4
<1>. QED  BY <1>1, <1>2, <1>3

\* An event handled: the recording begins with an empty queue on the list, and
\* ends with the order to stop.
LEMMA HandleKeepsRoom ==
  ASSUME AudioRoomInv, MicInv, todo = <<>>, UNCHANGED <<audioq, audio, gen>>,
         NEW e, NEW expired \in BOOLEAN, expired => e.type = "TIMEOUT", Handle(e, expired)
  PROVE  AudioRoomInv' /\ MicInv'
<1>0. Left = {}
  BY EmptyLeft
<1>1. /\ "start" \in Left' => "resetAudio" \in Left' /\ "bump" \in Left'
      /\ mach'.state = "RECORDING" => "start" \in Left' \/ mach.state = "RECORDING"
      /\ "stop" \in Left' => mach.state = "RECORDING"
      /\ mach.state = "RECORDING" => mach'.state = "RECORDING" \/ "stop" \in Left'
  BY HandledRecording
<1>2. AudioRoomInv'
  BY <1>0, <1>1 DEF AudioRoomInv
<1>3. MicInv'
  BY <1>0, <1>1 DEF MicInv, StopOrdered, AudioOrder
<1>. QED  BY <1>2, <1>3

LEMMA AudioKeepsRoom ==
  ASSUME BufferInv, EventInv, AudioRoomInv, MicInv, AudioTask
  PROVE  AudioRoomInv' /\ MicInv'
<1>0. UNCHANGED <<mach, todo, gen>> /\ Left' = Left
  BY OthersKeepList DEF Left
<1>1. audioq' = audioq \/ (audioq # <<>> /\ audioq' = Tail(audioq))
  BY DEF AudioTask, TakeAudioCommand, StopStale, StopEmpty, StopRecording, HandOver,
         ReportAudioFailure
<1>2. audioq \in Seq(AudioCommands)
  BY DEF BufferInv, CountersTyped
<1>3. AudioRoomInv'
  <2>1. Len(audioq) \in Nat /\ Len(audioq') \in Nat /\ Len(audioq') <= Len(audioq)
    <3>1. CASE audioq' = audioq
      BY <1>2, <3>1, TailLength
    <3>2. CASE audioq # <<>> /\ audioq' = Tail(audioq)
      <4>1. /\ Len(audioq) \in Nat /\ Len(audioq) # 0 /\ Len(Tail(audioq)) = Len(audioq) - 1
        BY <1>2, <3>2, TailLength
      <4>. QED  BY <3>2, <4>1
    <3>. QED  BY <1>1, <3>1, <3>2
  <2>2. audioq = <<>> => audioq' = <<>>
    BY <1>1
  <2>3. Len(audioq) <= 1 => Len(audioq') <= 1
    BY <2>1
  <2>. QED  BY <1>0, <2>2, <2>3 DEF AudioRoomInv
<1>4. ASSUME StopOrdered PROVE StopOrdered'
  <2>. DEFINE x == AudioOrder("start")
              y == AudioOrder("stop")
  <2>0. x' = x /\ y' = y
    BY <1>0 DEF AudioOrder
  <2>1. /\ audio.pc = "capture" /\ audio.gen = gen => y \in Elements(audioq)
        /\ Answered(audioq, x, y)
    BY <1>4 DEF StopOrdered
  <2>. HIDE DEF x, y
  <2>2. Answered(audioq', x, y)
    BY <1>1, <1>2, <2>1, AnsweredTail
  <2>3. ASSUME audio'.pc = "capture", audio'.gen = gen PROVE y \in Elements(audioq')
    <3>1. CASE TakeAudioCommand
      <4>1. /\ audioq # <<>> /\ audioq' = Tail(audioq) /\ Head(audioq).type = "start"
            /\ Head(audioq).gen = gen
        BY <2>3, <3>1 DEF TakeAudioCommand, IsCurrent
      <4>2. Head(audioq) \in AudioCommands
        BY <1>2, <4>1
      <4>3. Head(audioq) = x
        BY <4>1, <4>2 DEF x, AudioOrder, AudioCommands
      <4>. QED  BY <1>2, <2>1, <4>1, <4>3, AnsweredTail
    <3>2. CASE ~TakeAudioCommand
      BY <2>3, <3>2 DEF AudioTask, StopStale, StopEmpty, StopRecording, HandOver,
         ReportAudioFailure, Idle
    <3>. QED  BY <3>1, <3>2
  <2>. QED  BY <1>0, <2>0, <2>2, <2>3 DEF StopOrdered, x, y
<1>5. MicInv'
  BY <1>0, <1>4 DEF MicInv
<1>. QED  BY <1>3, <1>5

LEMMA NextKeepsRoom ==
  BufferInv /\ CommitInv /\ EventInv /\ ListInv /\ CounterInv /\ BudgetInv /\ FreshInv
    /\ AudioRoomInv /\ MicInv /\ [Next]_vars => AudioRoomInv' /\ MicInv'
<1>. SUFFICES ASSUME BufferInv, CommitInv, EventInv, ListInv, CounterInv, BudgetInv, FreshInv,
                     AudioRoomInv, MicInv, [Next]_vars
              PROVE  AudioRoomInv' /\ MicInv'
  OBVIOUS
<1>1. CASE StateTask /\ ~ReceiveEvent
  BY <1>1, StateKeepsRoom
<1>2. CASE ReceiveEvent
  BY <1>2, HandleKeepsRoom DEF ReceiveEvent, TasksUnchanged
<1>3. CASE AsrDeadline
  <2>1. /\ Handle(Event("TIMEOUT", gen), TRUE) /\ Event("TIMEOUT", gen).type = "TIMEOUT"
        /\ todo = <<>> /\ UNCHANGED <<audioq, audio, gen>>
    BY <1>3 DEF AsrDeadline, Event, TasksUnchanged
  <2>. QED  BY <2>1, HandleKeepsRoom
<1>4. CASE AudioTask
  BY <1>4, AudioKeepsRoom
<1>5. CASE ButtonTask \/ FactoryReset \/ LoseConfig \/ AsrTask \/ ChatTask \/ NetTask
           \/ UNCHANGED vars
  <2>1. UNCHANGED <<mach, todo, gen>> /\ Left' = Left
    BY <1>5, OthersKeepList DEF Left
  <2>2. UNCHANGED <<audioq, audio>>
    <3>1. CASE ButtonTask \/ FactoryReset \/ LoseConfig \/ UNCHANGED vars
      BY <3>1 DEF ButtonTask, Press, Release, HoldTooLong, ButtonPosts, LetGo, FactoryReset,
         LoseConfig, vars
    <3>2. CASE AsrTask
      BY <3>2 DEF AsrTask, TakeAsrCommand, AnnounceAsr, EndTranscription, LockForAsr,
         CommitTranscript, ReportAsr, AsrFrame
    <3>3. CASE ChatTask
      BY <3>3 DEF ChatTask, TakeChatCommand, ReportUnconfigured, AnnounceChat, LockForChat,
         HandleIntent, EndClassification, CheckReply, ShowReply, EndSpeech, EndReply,
         StreamDelta, PostToken, EndChat, CommitAnswer, ReportChat, ChatFrame
    <3>4. CASE NetTask
      BY <3>4 DEF NetTask, TakeNetCommand, EndConnect, ReportConnect, EraseConfig,
         ReportLoss, NetFrame
    <3>. QED  BY <1>5, <3>1, <3>2, <3>3, <3>4
  <2>. QED  BY <2>1, <2>2 DEF AudioRoomInv, MicInv, StopOrdered, AudioOrder
<1>. QED  BY <1>1, <1>2, <1>3, <1>4, <1>5 DEF Next

\* The audio queue has room for the orders of the current interaction, and every
\* recording the machine has left is on its way to a stop.
THEOREM RoomInductive == Spec => [](AudioRoomInv /\ MicInv)
BY AudioRoomInit, NextKeepsRoom, BuffersInductive, CommitsInductive, EventsInductive,
   ListInductive, CountersInductive, BudgetInductive, FreshInductive, PTL DEF Spec

\* The microphone records for the current interaction only while the machine is
\* RECORDING, or with the order to stop on its way: whatever took the machine
\* out of RECORDING, that order was posted, found room, and came after the order
\* to start.
THEOREM MicrophoneFollows == Spec => []MicrophoneFollowsTheMachine
<1>1. CounterInv /\ MicInv => MicrophoneFollowsTheMachine
  <2>. SUFFICES ASSUME CounterInv, MicInv, audio.pc = "capture", IsCurrent(audio.gen),
                       mach.state # "RECORDING",
                       ~(\E i \in DOMAIN todo : todo[i] \in {"stop", "bump"})
                PROVE  \E i \in DOMAIN audioq : audioq[i] = [type |-> "stop", gen |-> audio.gen]
    BY DEF MicrophoneFollowsTheMachine
  <2>1. "stop" \notin Left /\ "bump" \notin Left
    BY DEF Left, Elements
  <2>2. gen # 0 /\ audio.gen = gen
    BY DEF IsCurrent
  <2>3. "skipZero" \notin Left
    BY <2>2 DEF CounterInv
  <2>4. AudioOrder("stop") \in Elements(audioq)
    BY <2>1, <2>2, <2>3 DEF MicInv, StopOrdered
  <2>. QED  BY <2>2, <2>4 DEF Elements, AudioOrder
<1>. QED  BY <1>1, CountersInductive, RoomInductive, PTL

----------------------------------------------------------------------------
\* The one job of the current interaction: its recording is about to be ordered,
\* ordered, made, handed over, transcribed or reported, and in one place only.
\* As long as it may still succeed, nothing but one order to forget an intent is
\* in the chat queue or on its way there, and the transcript it reports is there
\* or came back empty.

AtMostOne(q, T) == \A i, j \in DOMAIN q : q[i] \in T /\ q[j] \in T => i = j

Current == (mach.state \in Busy /\ Left \cap Moving = {}) \/ "prompt" \in Left

Starts == {AudioOrder("start")}
Jobs   == {c \in AsrCommands : c.gen = gen}
Ready  == Event("ASR_DONE", gen)

ToStart   == "start" \in Left
Queued    == Elements(audioq) \cap Starts # {}
Held      == audio.pc \in Holding /\ audio.gen = gen
Sent      == Elements(asrq) \cap Jobs # {}
Worked    == asr.pc \in Working /\ asr.gen = gen
Reporting == asr.pc = "report" /\ asr.event = Ready
Finished  == Reporting \/ Ready \in Elements(appq) \/ "prompt" \in Left

OnlyAt(place) ==
  /\ ToStart  => place = 1
  /\ Queued   => place = 2
  /\ Held     => place = 3
  /\ Sent     => place = 4
  /\ Worked   => place = 5
  /\ Finished => place = 6
OnePlace == \E place \in 1 .. 6 : OnlyAt(place)

\* The transcript is there, or the provider heard nothing.
Told == transcript = gen \/ silent = gen

\* The transcription may still succeed.
Hoping == /\ asr.pc \in Working /\ asr.gen = gen
          /\ asr.pc \in {"lock", "commit"} => asr.type = "ASR_DONE"
Alive  == ToStart \/ Queued \/ Held \/ Sent \/ Hoping \/ Finished

ClearDue == asr.pc = "report" /\ "clear" \in Elements(asr.posts)
ChatRoom == Len(chatq) <= 1 /\ (ClearDue => Len(chatq) = 0)

JobSound ==
  /\ OnePlace /\ AtMostOne(audioq, Starts) /\ AtMostOne(asrq, Jobs)
  /\ Finished => Told
  /\ Alive /\ "resetChat" \notin Left => ChatRoom

JobInv == Current => JobSound

LEMMA OneTail ==
  ASSUME NEW S, NEW q \in Seq(S), NEW T, q # <<>>, AtMostOne(q, T)
  PROVE  AtMostOne(Tail(q), T) /\ (Head(q) \in T => Elements(Tail(q)) \cap T = {})
<1>1. /\ Len(q) \in Nat \ {0} /\ DOMAIN q = 1 .. Len(q) /\ Head(q) = q[1]
      /\ DOMAIN Tail(q) = 1 .. Len(q) - 1
      /\ \A i \in 1 .. Len(q) - 1 : Tail(q)[i] = q[i + 1]
  BY LenProperties, HeadTailProperties, EmptySeq
<1>2. \A i \in 1 .. Len(q) - 1 : i + 1 \in 1 .. Len(q) /\ i + 1 # 1
  BY <1>1
<1>3. AtMostOne(Tail(q), T)
  <2>1. SUFFICES ASSUME NEW i \in 1 .. Len(q) - 1, NEW j \in 1 .. Len(q) - 1,
                        Tail(q)[i] \in T, Tail(q)[j] \in T
                 PROVE  i = j
    BY <1>1 DEF AtMostOne
  <2>2. i + 1 = j + 1
    BY <1>1, <1>2, <2>1 DEF AtMostOne
  <2>. QED  BY <2>2
<1>4. ASSUME Head(q) \in T PROVE Elements(Tail(q)) \cap T = {}
  <2>1. SUFFICES ASSUME NEW i \in 1 .. Len(q) - 1, Tail(q)[i] \in T PROVE FALSE
    BY <1>1 DEF Elements
  <2>2. q[i + 1] \in T /\ q[1] \in T /\ i + 1 \in DOMAIN q /\ 1 \in DOMAIN q
    BY <1>1, <1>2, <1>4, <2>1
  <2>3. i + 1 = 1
    BY <2>2 DEF AtMostOne
  <2>. QED  BY <1>2, <2>3
<1>. QED  BY <1>3, <1>4

LEMMA OneAppend ==
  ASSUME NEW S, NEW q \in Seq(S), NEW T, NEW e, AtMostOne(q, T),
         e \notin T \/ Elements(q) \cap T = {}
  PROVE  AtMostOne(Append(q, e), T)
<1>1. q \in Seq(S \cup {e}) /\ e \in S \cup {e}
  BY LenProperties, IsASeq
<1>2. /\ Len(q) \in Nat /\ DOMAIN q = 1 .. Len(q)
      /\ DOMAIN Append(q, e) = 1 .. Len(q) + 1 /\ Append(q, e)[Len(q) + 1] = e
      /\ \A i \in 1 .. Len(q) : Append(q, e)[i] = q[i]
  BY <1>1, LenProperties, AppendProperties
<1>3. \A i \in 1 .. Len(q) + 1 : i \in 1 .. Len(q) \/ i = Len(q) + 1
  BY <1>2
<1>4. \A i \in 1 .. Len(q) : q[i] \in Elements(q)
  BY <1>2 DEF Elements
<1>5. SUFFICES ASSUME NEW i \in 1 .. Len(q) + 1, NEW j \in 1 .. Len(q) + 1,
                      Append(q, e)[i] \in T, Append(q, e)[j] \in T
               PROVE  i = j
  BY <1>2 DEF AtMostOne
<1>6. CASE i \in 1 .. Len(q) /\ j \in 1 .. Len(q)
  BY <1>2, <1>5, <1>6 DEF AtMostOne
<1>7. CASE ~(i \in 1 .. Len(q) /\ j \in 1 .. Len(q))
  BY <1>2, <1>3, <1>4, <1>5, <1>7
<1>. QED  BY <1>6, <1>7

LEMMA OneEmpty == \A T : AtMostOne(<<>>, T)
<1>1. DOMAIN <<>> = {}
  OBVIOUS
<1>. QED  BY <1>1 DEF AtMostOne

\* A place the job has not reached is not reached by a step that keeps to the
\* places it has.
LEMMA PlacesKept ==
  ASSUME OnePlace, ToStart' => ToStart, Queued' => Queued, Held' => Held, Sent' => Sent,
         Worked' => Worked, Finished' => Finished
  PROVE  OnePlace'
<1>1. PICK place \in 1 .. 6 : OnlyAt(place)
  BY DEF OnePlace
<1>2. OnlyAt(place)'
  BY <1>1 DEF OnlyAt
<1>. QED  BY <1>2 DEF OnePlace

LEMMA JobInit == Init => JobInv
<1>. SUFFICES ASSUME Init PROVE JobInv
  OBVIOUS
<1>1. todo = <<>> /\ mach.state \in {"BOOT", "IDLE"}
  BY DEF Init, InitWith
<1>2. Left = {} /\ mach.state \notin Busy
  BY <1>1, EmptyLeft DEF Busy
<1>. QED  BY <1>2 DEF JobInv, Current

\* A transcription is reported by the ASR task alone, out of its record.
LEMMA ReadyKept ==
  ASSUME BufferInv, EventInv, ChatPairInv, [Next]_vars, UNCHANGED gen
  PROVE  Ready' \in Elements(appq') => Ready \in Elements(appq) \/ Reporting
<1>0. Ready' = Ready /\ Ready.type = "ASR_DONE"
  BY DEF Ready, Event
<1>1. CASE Posts
  <2>1. CASE appq' = appq
    BY <1>0, <2>1
  <2>2. CASE \E e \in Events : /\ appq' = Append(appq, e)
                               /\ e.type = "ASR_DONE" => asr.pc = "report" /\ asr.event = e
    <3>1. PICK e \in Events : /\ appq' = Append(appq, e)
                              /\ e.type = "ASR_DONE" => asr.pc = "report" /\ asr.event = e
      BY <2>2
    <3>2. Elements(appq') = Elements(appq) \cup {e}
      BY <3>1, QueueSteps
    <3>. QED  BY <1>0, <3>1, <3>2 DEF Reporting
  <2>. QED  BY <1>1, <2>1, <2>2 DEF Posts
<1>2. CASE ReceiveEvent \/ AsrDeadline
  <2>1. appq' = appq \/ (appq # <<>> /\ appq' = Tail(appq))
    BY <1>2 DEF ReceiveEvent, AsrDeadline
  <2>. QED  BY <1>0, <2>1, QueueSteps
<1>3. CASE Press \/ FactoryReset
  <2>1. PICK type \in Orders : appq' = Append(appq, Event(type, 0))
    BY <1>3 DEF Press, FactoryReset, ButtonPosts, PostCritical, Orders
  <2>2. Event(type, 0).type # "ASR_DONE"
    BY <2>1 DEF Event, Orders
  <2>. QED  BY <1>0, <2>1, <2>2, QueueSteps
<1>4. CASE UNCHANGED vars
  BY <1>0, <1>4 DEF vars
<1>. QED  BY <1>1, <1>2, <1>3, <1>4, TasksPost DEF Next, ButtonTask

LEMMA AsrAlone == [Next]_vars /\ ~AsrTask => UNCHANGED asr
<1>1. CASE StateTask \/ AsrDeadline
  BY <1>1 DEF StateTask, ReceiveEvent, BumpGeneration, ResetQueues, CancelRequests, ClearTexts,
     CommandAudio, PostPrompt, ForgetIntent, OrderReset, LoadConfig, OrderConnect,
     AsrDeadline, TasksUnchanged
<1>2. CASE ButtonTask \/ FactoryReset \/ LoseConfig \/ UNCHANGED vars
  BY <1>2 DEF ButtonTask, Press, Release, HoldTooLong, ButtonPosts, LetGo, FactoryReset,
     LoseConfig, vars
<1>3. CASE AudioTask
  BY <1>3 DEF AudioTask, TakeAudioCommand, StopStale, StopEmpty, StopRecording, HandOver,
     ReportAudioFailure, AudioFrame
<1>4. CASE ChatTask
  BY <1>4 DEF ChatTask, TakeChatCommand, ReportUnconfigured, AnnounceChat, LockForChat,
     HandleIntent, EndClassification, CheckReply, ShowReply, EndSpeech, EndReply,
     StreamDelta, PostToken, EndChat, CommitAnswer, ReportChat, ChatFrame
<1>5. CASE NetTask
  BY <1>5 DEF NetTask, TakeNetCommand, EndConnect, ReportConnect, EraseConfig, ReportLoss,
     NetFrame
<1>. QED  BY <1>1, <1>2, <1>3, <1>4, <1>5 DEF Next

LEMMA ReportingKept ==
  ASSUME BufferInv, [Next]_vars, UNCHANGED gen, ~CommitTranscript
  PROVE  Reporting' => Reporting
<1>0. Ready' = Ready /\ Ready.type = "ASR_DONE"
  BY DEF Ready, Event
<1>1. CASE AsrTask
  <2>1. CASE TakeAsrCommand
    <3>1. \/ asr' = asr
          \/ asr'.pc = "report" /\ asr'.event.type \in {"CONFIG_CORRUPT", "ASR_FAILED"}
          \/ asr'.pc = "started"
      BY <2>1 DEF TakeAsrCommand, AsrFails, Event
    <3>. QED  BY <1>0, <3>1 DEF Reporting
  <2>2. CASE AnnounceAsr \/ EndTranscription \/ LockForAsr
    <3>1. asr'.pc # "report"
      BY <2>2 DEF AnnounceAsr, EndTranscription, LockForAsr, BufferInv, AsrRecords, Idle
    <3>. QED  BY <3>1 DEF Reporting
  <2>3. CASE ReportAsr
    <3>1. asr.pc = "report" /\ (asr' = Idle \/ (asr'.pc = "report" /\ asr'.event = asr.event))
      BY <2>3 DEF ReportAsr, BufferInv, AsrRecords
    <3>. QED  BY <1>0, <3>1 DEF Reporting, Idle
  <2>. QED  BY <1>1, <2>1, <2>2, <2>3 DEF AsrTask
<1>2. CASE ~AsrTask
  <2>1. UNCHANGED asr
    BY <1>2, AsrAlone
  <2>. QED  BY <1>0, <2>1 DEF Reporting
<1>. QED  BY <1>1, <1>2

\* The job starts afresh when the generation moves.
LEMMA BumpKeepsJob ==
  ASSUME BufferInv, CommitInv, TextInv, EventInv, ListInv, CounterInv, ChatPairInv, BudgetInv,
         FreshInv, BumpGeneration
  PROVE  JobInv'
<1>1. /\ Left' \subseteq Left \cup {"skipZero"} /\ Left \subseteq Left' \cup Moving
      /\ UNCHANGED <<mach, audioq, asrq, chatq, appq, audio, asr>>
  BY BumpLeft
<1>2. Left \cap Moving # {}
  BY DoingLeft DEF BumpGeneration, CommitInv, Moving
<1>3. "prompt" \notin Left'
  BY <1>1, <1>2, PromptAlone DEF Moving
<1>4. SUFFICES ASSUME Current' PROVE JobSound'
  BY DEF JobInv
<1>5. mach.state \in Busy
  BY <1>1, <1>3, <1>4 DEF Current
<1>6. ToStart' /\ "resetChat" \in Left'
  <2>1. Cleanings \subseteq Left /\ ("start" \in Left \/ "clearIntent" \in Left)
    BY <1>2 DEF ListInv, Renewal
  <2>2. "start" \in Left
    BY <1>5, <2>1 DEF ListInv, Busy
  <2>. QED  BY <1>1, <2>1, <2>2 DEF Cleanings, Moving, ToStart
<1>7. gen' \notin Carried'
  <2>1. \A g \in Carried : g # gen'
    BY GenerationMoves DEF FreshInv
  <2>2. ~CommandAudio /\ [Next]_vars
    BY DEF BumpGeneration, CommandAudio, Doing, StateTask, Next
  <2>. QED  BY <2>1, <2>2, NextCarries
<1>8. /\ (gen \notin Carried => Elements(audioq) \cap Starts = {} /\ ~Held)'
      /\ (gen \notin Carried => Elements(asrq) \cap Jobs = {} /\ ~Worked)'
      /\ (gen \notin Carried => ~Reporting /\ Ready \notin Elements(appq))'
  <2>1. (AudioOrder("start").gen = gen /\ Ready.type = "ASR_DONE" /\ Ready.value = gen)'
    BY DEF AudioOrder, Ready, Event
  <2>2. (gen \notin Carried => Elements(audioq) \cap Starts = {} /\ ~Held)'
    BY <2>1 DEF Carried, Recorded, Starts, Held
  <2>3. (gen \notin Carried => Elements(asrq) \cap Jobs = {} /\ ~Worked)'
    BY DEF Carried, Submitted, Jobs, Worked
  <2>4. (gen \notin Carried => ~Reporting /\ Ready \notin Elements(appq))'
    BY <2>1 DEF Carried, Reported, Reporting
  <2>. QED  BY <2>2, <2>3, <2>4
<1>9. OnlyAt(1)'
  BY <1>3, <1>7, <1>8 DEF OnlyAt, Queued, Sent, Finished
<1>10. AtMostOne(audioq', Starts') /\ AtMostOne(asrq', Jobs')
  BY <1>7, <1>8 DEF AtMostOne, Elements
<1>. QED  BY <1>3, <1>6, <1>7, <1>8, <1>9, <1>10 DEF JobSound, OnePlace, Finished

\* What the state task does for an interaction under way.
LEMMA StateKeepsJob ==
  ASSUME BufferInv, CommitInv, TextInv, EventInv, ListInv, CounterInv, ChatPairInv, FreshInv,
         AudioRoomInv, JobInv, StateTask, ~ReceiveEvent, ~BumpGeneration
  PROVE  JobInv'
<1>1. /\ Left' \subseteq Left \cup Restores /\ (\A s \in Left : s \in Left' \/ Doing(s))
      /\ UNCHANGED <<mach, gen>>
  BY LeftShrinks, GenerationThere
<1>2. UNCHANGED <<audio, asr>> /\ [Next]_vars
  BY DEF StateTask, ReceiveEvent, BumpGeneration, ResetQueues, CancelRequests, ClearTexts,
     CommandAudio, PostPrompt, ForgetIntent, OrderReset, LoadConfig, OrderConnect,
     TasksUnchanged, Next
<1>3. /\ audioq \in Seq(AudioCommands) /\ asrq \in Seq(AsrCommands)
      /\ chatq \in Seq(OwnCommands)
      /\ Starts' = Starts /\ Jobs' = Jobs /\ Ready' = Ready
  BY <1>1 DEF BufferInv, CountersTyped, TextInv, CommandsOwn, Starts, Jobs, Ready, AudioOrder,
     Event
<1>4. SUFFICES ASSUME Current' PROVE JobSound'
  BY DEF JobInv
<1>5. Current
  <2>1. ~Doing("bump") /\ ~Doing("skipZero")
    BY BumpIsNext
  <2>. QED  BY <1>1, <1>4, <2>1 DEF Current, Moving, Restores
<1>6. /\ OnePlace /\ AtMostOne(audioq, Starts) /\ AtMostOne(asrq, Jobs)
      /\ Finished => Told
      /\ Alive /\ "resetChat" \notin Left => ChatRoom
  BY <1>5 DEF JobInv, JobSound
<1>7. /\ Held' = Held /\ Worked' = Worked /\ Hoping' = Hoping /\ ClearDue' = ClearDue
      /\ Reporting' = Reporting
  BY <1>1, <1>2, <1>3 DEF Held, Worked, Hoping, ClearDue, Reporting
<1>8. (ToStart' => ToStart) /\ (Finished' => Finished)
  <2>1. Ready' \in Elements(appq') => Ready \in Elements(appq) \/ Reporting
    BY <1>1, <1>2, ReadyKept
  <2>. QED  BY <1>1, <1>7, <2>1 DEF Finished, ToStart, Restores
<1>9. ~PostPrompt /\ ~ForgetIntent
  <2>1. ASSUME PostPrompt PROVE FALSE
    <3>1. "prompt" \in Left /\ Left' = Left \ {"prompt"} /\ Left = {"prompt"}
      BY <2>1, DoneLeft, PromptAlone DEF PostPrompt, CommitInv
    <3>2. mach'.state = "THINKING"
      BY <1>1, <3>1 DEF ListInv
    <3>. QED  BY <1>4, <3>1, <3>2 DEF Current, Busy
  <2>2. ASSUME ForgetIntent PROVE FALSE
    <3>1. "clearIntent" \in Left
      BY <2>2, DoingLeft DEF ForgetIntent, CommitInv
    <3>2. "prompt" \notin Left
      BY <3>1, PromptAlone
    <3>. QED  BY <1>5, <3>1, <3>2 DEF Current, ListInv, Busy
  <2>. QED  BY <2>1, <2>2
<1>10. (Finished => Told)'
  <2>1. CASE ClearTexts
    <3>1. ToStart
      BY <2>1, DoingLeft DEF ClearTexts, CommitInv, ListInv, ToStart
    <3>2. ~Finished
      BY <1>6, <3>1 DEF OnePlace, OnlyAt
    <3>. QED  BY <1>8, <3>2
  <2>2. CASE ~ClearTexts
    <3>1. UNCHANGED <<transcript, silent>>
      BY <1>9, <2>2 DEF StateTask, ReceiveEvent, BumpGeneration, ResetQueues, CancelRequests,
         CommandAudio, OrderReset, LoadConfig, OrderConnect, PostEnding, lapses
    <3>. QED  BY <1>1, <1>6, <1>8, <3>1 DEF Told
  <2>. QED  BY <2>1, <2>2
<1>11. CASE CommandAudio
  <2>1. PICK type \in {"start", "stop"} :
          /\ Doing(type) /\ Done
          /\ HasRoom(audioq, AudioDepth) => audioq' = Append(audioq, AudioOrder(type))
    BY <1>11 DEF CommandAudio, AudioOrder
  <2>2. audioq' = Append(audioq, AudioOrder(type)) /\ UNCHANGED <<asrq, chatq>>
    BY <1>11, <2>1, AudioOrderFits DEF CommandAudio
  <2>3. Left' = Left \ {type} /\ type \in Left
    BY <2>1, DoneLeft DEF CommitInv
  <2>4. Elements(audioq') = Elements(audioq) \cup {AudioOrder(type)}
    BY <2>2, QueueSteps
  <2>5. Sent' = Sent /\ (ChatRoom' = ChatRoom)
    BY <1>3, <1>7, <2>2 DEF Sent, ChatRoom
  <2>6. "resetChat" \notin Left' => "resetChat" \notin Left
    BY <2>3
  <2>7. CASE type = "stop"
    <3>1. AudioOrder("stop") \notin Starts
      BY DEF Starts, AudioOrder
    <3>2. Queued' => Queued
      BY <1>3, <2>4, <2>7, <3>1 DEF Queued
    <3>3. OnePlace'
      BY <1>6, <1>7, <1>8, <2>5, <3>2, PlacesKept
    <3>4. AtMostOne(audioq', Starts')
      BY <1>3, <1>6, <2>2, <2>7, <3>1, OneAppend
    <3>5. Alive' => Alive
      BY <1>7, <1>8, <2>5, <3>2 DEF Alive
    <3>. QED  BY <1>3, <1>6, <1>10, <2>2, <2>5, <2>6, <3>3, <3>4, <3>5 DEF JobSound
  <2>8. CASE type = "start"
    <3>1. ToStart /\ ~ToStart' /\ Alive
      BY <2>3, <2>8 DEF ToStart, Alive
    <3>2. ~Queued /\ ~Held /\ ~Sent /\ ~Worked /\ ~Finished
      BY <1>6, <3>1 DEF OnePlace, OnlyAt
    <3>3. OnlyAt(2)'
      BY <1>7, <1>8, <2>5, <3>1, <3>2 DEF OnlyAt
    <3>4. AtMostOne(audioq', Starts')
      BY <1>3, <1>6, <2>2, <3>2, OneAppend DEF Queued
    <3>. QED  BY <1>3, <1>6, <1>10, <2>2, <2>5, <2>6, <3>1, <3>3, <3>4 DEF JobSound, OnePlace
  <2>. QED  BY <2>7, <2>8
<1>12. CASE ~CommandAudio
  <2>1. /\ audioq' \in {audioq, <<>>} /\ asrq' \in {asrq, <<>>} /\ chatq' \in {chatq, <<>>}
        /\ Doing("resetChat") => chatq' = <<>>
    <3>1. audioq' \in {audioq, <<>>} /\ asrq' \in {asrq, <<>>} /\ chatq' \in {chatq, <<>>}
      BY <1>9, <1>12 DEF StateTask, ReceiveEvent, BumpGeneration, ResetQueues, CancelRequests,
         ClearTexts, OrderReset, LoadConfig, OrderConnect
    <3>2. ASSUME Doing("resetChat") PROVE chatq' = <<>>
      <4>1. \A s \in DOMAIN CancelStep : /\ CancelStep[s] # "resetChat"
                                         /\ RestoreStep[s] # "resetChat"
        BY DEF CancelStep, RestoreStep
      <4>2. \A s \in DOMAIN CancelStep : ~CancelRequests(s)
        BY <3>2, <4>1 DEF CancelRequests, Doing
      <4>3. ResetQueues
        BY <1>9, <1>12, <3>2, <4>2 DEF StateTask, ReceiveEvent, BumpGeneration, ClearTexts,
           OrderReset, LoadConfig, OrderConnect, Doing
      <4>. QED  BY <3>2, <4>3 DEF ResetQueues, Doing
    <3>. QED  BY <3>1, <3>2
  <2>2. Queued' => Queued
    BY <1>3, <2>1, NoElements DEF Queued
  <2>3. Sent' => Sent
    BY <1>3, <2>1, NoElements DEF Sent
  <2>4. OnePlace'
    BY <1>6, <1>7, <1>8, <2>2, <2>3, PlacesKept
  <2>5. AtMostOne(audioq', Starts') /\ AtMostOne(asrq', Jobs')
    BY <1>3, <1>6, <2>1, OneEmpty
  <2>6. (Alive /\ "resetChat" \notin Left => ChatRoom)'
    <3>1. Alive' => Alive
      BY <1>7, <1>8, <2>2, <2>3 DEF Alive
    <3>2. CASE chatq' = <<>>
      <4>1. Len(chatq') = 0
        BY <3>2
      <4>. QED  BY <4>1 DEF ChatRoom
    <3>3. CASE chatq' # <<>>
      <4>1. chatq' = chatq /\ ~Doing("resetChat")
        BY <2>1, <3>3
      <4>. QED  BY <1>1, <1>6, <1>7, <3>1, <4>1 DEF ChatRoom
    <3>. QED  BY <3>2, <3>3
  <2>. QED  BY <1>10, <2>4, <2>5, <2>6 DEF JobSound
<1>. QED  BY <1>11, <1>12

\* An event handled: only a transcription that is reported goes on to a prompt.
LEMMA HandleKeepsJob ==
  ASSUME BufferInv, EventInv, FreshInv, JobInv, todo = <<>>,
         UNCHANGED <<gen, audio, asr, audioq, asrq, chatq, transcript, silent>>,
         appq' = appq \/ (appq # <<>> /\ appq' = Tail(appq)),
         NEW e, NEW expired \in BOOLEAN, Handle(e, expired),
         expired => e.type = "TIMEOUT", ~expired => appq # <<>> /\ e = Head(appq)
  PROVE  JobInv'
<1>0. Left = {} /\ Starts' = Starts /\ Jobs' = Jobs /\ Ready' = Ready
  BY EmptyLeft DEF Starts, Jobs, Ready, AudioOrder, Event
<1>1. SUFFICES ASSUME Current' PROVE JobSound'
  BY DEF JobInv
<1>2. mach.state \in Busy /\ ~ToStart' /\ ("prompt" \in Left' => Ready \in Elements(appq))
  <2>1. CASE UNCHANGED <<mach, todo>>
    <3>1. Left' = {}
      BY <2>1, EmptyLeft DEF Left
    <3>. QED  BY <1>1, <2>1, <3>1 DEF Current, ToStart
  <2>2. CASE ~UNCHANGED <<mach, todo>>
    <3>1. PICK m \in Dispatch(mach, e.type) :
            mach' = m /\ todo' = Work(mach.state, m.state, e.type, expired) /\ ~Stale(e)
      BY <2>2 DEF Handle
    <3>2. Left' = RecordingSteps(mach.state, m.state)
                  \cup PromptSteps(mach.state, m.state, e.type)
                  \cup ForgetSteps(e.type, expired) \cup ConfigSteps(m.state, e.type)
      BY <3>1, WorkLeft
    <3>3. CASE "prompt" \in Left'
      <4>1. /\ mach.state # m.state /\ m.state = "THINKING" /\ e.type = "ASR_DONE"
        BY <3>2, <3>3 DEF RecordingSteps, PromptSteps, ForgetSteps, ConfigSteps, Cleanings,
           Cancels
      <4>2. mach.state \in Busy
        BY <3>1, <4>1, DispatchTo DEF Busy
      <4>3. "start" \notin Left'
        BY <3>2, <4>1 DEF RecordingSteps, PromptSteps, ForgetSteps, ConfigSteps, Cleanings,
           Cancels
      <4>4. appq # <<>> /\ e = Head(appq) /\ appq \in Seq(Events)
        BY <4>1 DEF EventInv
      <4>5. e \in Elements(appq) /\ e \in Events
        BY <4>4, TakenFrom
      <4>6. e.value \in 1 .. Wrap - 1
        BY <4>1, <4>5 DEF FreshInv, Carried, Reported, KnownAt
      <4>7. e.value = gen
        BY <3>1, <4>1, <4>6 DEF Stale, InteractionScoped
      <4>8. e = Ready
        BY <4>1, <4>5, <4>7 DEF Ready, Event, Events
      <4>. QED  BY <4>2, <4>3, <4>5, <4>8 DEF ToStart
    <3>4. CASE "prompt" \notin Left'
      <4>1. m.state \in Busy /\ Left' \cap Moving = {}
        BY <1>1, <3>1, <3>4 DEF Current
      <4>2. "start" \notin Left' /\ ~(m.state = "RECORDING" /\ mach.state # "RECORDING")
        BY <3>2, <4>1 DEF RecordingSteps, PromptSteps, ForgetSteps, ConfigSteps, Moving,
           Cleanings, Cancels
      <4>3. mach.state \in Busy
        BY <3>1, <4>1, <4>2, DispatchTo
      <4>. QED  BY <3>4, <4>2, <4>3 DEF ToStart
    <3>. QED  BY <3>3, <3>4
  <2>. QED  BY <2>1, <2>2
<1>3. /\ OnePlace /\ AtMostOne(audioq, Starts) /\ AtMostOne(asrq, Jobs)
      /\ Finished => Told
      /\ Alive => ChatRoom
  BY <1>0, <1>2 DEF JobInv, JobSound, Current
<1>4. /\ Held' = Held /\ Worked' = Worked /\ Hoping' = Hoping /\ Queued' = Queued
      /\ Sent' = Sent /\ Reporting' = Reporting /\ ChatRoom' = ChatRoom
  BY <1>0 DEF Held, Worked, Hoping, Queued, Sent, Reporting, ChatRoom, ClearDue
<1>5. Finished' => Finished
  <2>1. Elements(appq') \subseteq Elements(appq)
    BY QueueSteps
  <2>. QED  BY <1>0, <1>2, <1>4, <2>1 DEF Finished
<1>6. OnePlace'
  BY <1>2, <1>3, <1>4, <1>5, PlacesKept
<1>7. Alive' => Alive
  BY <1>2, <1>4, <1>5 DEF Alive
<1>. QED  BY <1>0, <1>3, <1>4, <1>5, <1>6, <1>7 DEF JobSound, Told

\* The audio task takes the order, keeps the recording, and hands it over.
LEMMA AudioKeepsJob ==
  ASSUME BufferInv, EventInv, ChatPairInv, JobInv, AudioTask
  PROVE  JobInv'
<1>0. /\ UNCHANGED <<mach, todo, gen, asr, chatq, transcript, silent>> /\ [Next]_vars
      /\ Left' = Left /\ ~CommitTranscript
  <2>1. UNCHANGED <<asr, chatq, transcript, silent>> /\ [Next]_vars
    BY DEF AudioTask, TakeAudioCommand, StopStale, StopEmpty, StopRecording, HandOver,
           ReportAudioFailure, Others, AudioFrame, Next, lapses
  <2>2. ~CommitTranscript
    BY <2>1 DEF CommitTranscript
  <2>. QED  BY <2>1, <2>2, OthersKeepList DEF Left
<1>1. /\ audioq \in Seq(AudioCommands) /\ asrq \in Seq(AsrCommands)
      /\ Starts' = Starts /\ Jobs' = Jobs /\ Ready' = Ready
  BY <1>0 DEF BufferInv, CountersTyped, Starts, Jobs, Ready, AudioOrder, Event
<1>2. SUFFICES ASSUME Current' PROVE JobSound'
  BY DEF JobInv
<1>3. /\ OnePlace /\ AtMostOne(audioq, Starts) /\ AtMostOne(asrq, Jobs)
      /\ Finished => Told
      /\ Alive /\ "resetChat" \notin Left => ChatRoom
  BY <1>0, <1>2 DEF JobInv, JobSound, Current
<1>4. /\ ToStart' = ToStart /\ Worked' = Worked /\ Hoping' = Hoping /\ ChatRoom' = ChatRoom
      /\ Reporting' = Reporting
  BY <1>0, <1>1 DEF ToStart, Worked, Hoping, ChatRoom, ClearDue, Reporting
<1>5. Finished' => Finished
  BY <1>0, <1>4, ReadyKept DEF Finished
<1>6. SUFFICES OnePlace' /\ AtMostOne(audioq', Starts) /\ AtMostOne(asrq', Jobs)
               /\ (Alive' => Alive)
  BY <1>0, <1>1, <1>3, <1>4, <1>5 DEF JobSound, Told
<1>7. CASE TakeAudioCommand
  <2>1. /\ audio.pc = "wait" /\ audioq # <<>> /\ audioq' = Tail(audioq) /\ UNCHANGED asrq
    BY <1>7 DEF TakeAudioCommand
  <2>2. AtMostOne(audioq', Starts) /\ Elements(audioq') \subseteq Elements(audioq)
    BY <1>1, <1>3, <2>1, OneTail, TakenFrom
  <2>3. Sent' = Sent /\ ~Held /\ (Queued' => Queued)
    BY <1>1, <2>1, <2>2 DEF Sent, Held, Holding, Queued
  <2>4. CASE Held'
    <3>1. Head(audioq).type = "start" /\ Head(audioq).gen = gen
      BY <1>7, <2>1, <2>4 DEF TakeAudioCommand, Held, Holding, IsCurrent
    <3>2. Head(audioq) \in AudioCommands /\ Head(audioq) \in Elements(audioq)
      BY <1>1, <2>1, TakenFrom
    <3>3. Head(audioq) \in Starts
      BY <3>1, <3>2 DEF AudioCommands, Starts, AudioOrder
    <3>4. Queued /\ ~Queued'
      BY <1>1, <1>3, <2>1, <3>2, <3>3, OneTail DEF Queued
    <3>5. ~ToStart /\ ~Held /\ ~Sent /\ ~Worked /\ ~Finished
      BY <1>3, <3>4 DEF OnePlace, OnlyAt
    <3>6. OnlyAt(3)'
      BY <1>4, <1>5, <2>3, <3>4, <3>5 DEF OnlyAt
    <3>. QED  BY <1>3, <2>1, <2>2, <3>4, <3>6 DEF OnePlace, Alive
  <2>5. CASE ~Held'
    <3>1. OnePlace'
      BY <1>3, <1>4, <1>5, <2>3, <2>5, PlacesKept
    <3>. QED  BY <1>3, <1>4, <1>5, <2>1, <2>2, <2>3, <2>5, <3>1 DEF Alive
  <2>. QED  BY <2>4, <2>5
<1>8. CASE HandOver
  <2>1. /\ audio.pc = "hand" /\ UNCHANGED audioq /\ audio'.pc \in {"wait", "fail"}
        /\ \/ asrq' = asrq
           \/ asrq' = Append(asrq, [gen |-> audio.gen, epoch |-> audio.epoch])
    BY <1>8 DEF HandOver, Idle
  <2>2. Queued' = Queued /\ ~Held'
    BY <1>1, <2>1 DEF Queued, Held, Holding
  <2>. DEFINE c == [gen |-> audio.gen, epoch |-> audio.epoch]
  <2>3. c \in AsrCommands /\ (c \in Jobs <=> audio.gen = gen)
    BY <2>1 DEF BufferInv, RecordingShape, AsrCommands, Jobs
  <2>. HIDE DEF c
  <2>4. CASE asrq' = Append(asrq, c) /\ audio.gen = gen
    <3>1. Held
      BY <2>1, <2>4 DEF Held, Holding
    <3>2. ~ToStart /\ ~Queued /\ ~Sent /\ ~Worked /\ ~Finished
      BY <1>3, <3>1 DEF OnePlace, OnlyAt
    <3>3. AtMostOne(asrq', Jobs)
      BY <1>1, <1>3, <2>4, <3>2, OneAppend DEF Sent
    <3>4. OnlyAt(4)'
      BY <1>4, <1>5, <2>2, <3>2 DEF OnlyAt
    <3>. QED  BY <1>3, <2>1, <3>1, <3>3, <3>4 DEF OnePlace, Alive
  <2>5. CASE asrq' = asrq \/ (asrq' = Append(asrq, c) /\ audio.gen # gen)
    <3>1. Sent' => Sent
      <4>1. \A x \in Elements(asrq') : x \in Elements(asrq) \/ (x = c /\ c \notin Jobs)
        BY <2>3, <2>5, QueueSteps
      <4>. QED  BY <1>1, <4>1 DEF Sent
    <3>2. AtMostOne(asrq', Jobs)
      BY <1>1, <1>3, <2>3, <2>5, OneAppend
    <3>3. OnePlace'
      BY <1>3, <1>4, <1>5, <2>2, <3>1, PlacesKept
    <3>. QED  BY <1>3, <1>4, <1>5, <2>1, <2>2, <3>1, <3>2, <3>3 DEF Alive
  <2>. QED  BY <2>1, <2>4, <2>5 DEF c
<1>9. CASE StopRecording
  <2>1. /\ audio.pc = "capture" /\ audio'.pc = "hand" /\ audio'.gen = audio.gen
        /\ UNCHANGED asrq
        /\ audioq' = audioq \/ (audioq # <<>> /\ audioq' = Tail(audioq))
    BY <1>9 DEF StopRecording
  <2>2. AtMostOne(audioq', Starts) /\ Elements(audioq') \subseteq Elements(audioq)
    <3>1. CASE audioq' = audioq
      BY <1>3, <3>1
    <3>2. CASE audioq # <<>> /\ audioq' = Tail(audioq)
      BY <1>1, <1>3, <3>2, OneTail, TakenFrom
    <3>. QED  BY <2>1, <3>1, <3>2
  <2>3. (Queued' => Queued) /\ Sent' = Sent /\ Held' = Held
    BY <1>0, <1>1, <2>1, <2>2 DEF Queued, Sent, Held, Holding
  <2>4. OnePlace'
    BY <1>3, <1>4, <1>5, <2>3, PlacesKept
  <2>. QED  BY <1>3, <1>4, <1>5, <2>1, <2>2, <2>3, <2>4 DEF Alive
<1>10. CASE StopStale \/ StopEmpty \/ ReportAudioFailure
  <2>1. UNCHANGED <<audioq, asrq>> /\ audio'.pc \in {"wait", "fail"}
    BY <1>10 DEF StopStale, StopEmpty, ReportAudioFailure, Idle
  <2>2. Queued' = Queued /\ Sent' = Sent /\ ~Held'
    BY <1>1, <2>1 DEF Queued, Sent, Held, Holding
  <2>3. OnePlace'
    BY <1>3, <1>4, <1>5, <2>2, PlacesKept
  <2>. QED  BY <1>3, <1>4, <1>5, <2>1, <2>2, <2>3 DEF Alive
<1>. QED  BY <1>7, <1>8, <1>9, <1>10 DEF AudioTask

\* What the posts of the ASR task hold, and what is left after the first.
LEMMA PostsSteps ==
  ASSUME NEW p \in {<<"event">>, <<"clear">>, <<"clear", "event">>, <<"event", "clear">>}
  PROVE  /\ Head(p) = "clear" => "clear" \in Elements(p)
         /\ Head(p) = "clear" => "clear" \notin Elements(Tail(p))
         /\ "clear" \in Elements(Tail(p)) => "clear" \in Elements(p)
         /\ "clear" \notin Elements(<<"event">>)
<1>1. /\ p \in Seq({"clear", "event"}) /\ p # <<>>
      /\ Head(p) = "clear" => p = <<"clear">> \/ p = <<"clear", "event">>
  <2>1. CASE p = <<"event">>
    BY <2>1
  <2>2. CASE p = <<"clear">>
    BY <2>2
  <2>3. CASE p = <<"clear", "event">>
    BY <2>3
  <2>4. CASE p = <<"event", "clear">>
    <3>1. p[1] = "event" /\ p \in Seq({"clear", "event"}) /\ p # <<>>
      BY <2>4
    <3>2. Head(p) = "event"
      BY <3>1, HeadTailProperties
    <3>. QED  BY <3>1, <3>2
  <2>. QED  BY <2>1, <2>2, <2>3, <2>4
<1>2. Head(p) \in Elements(p) /\ Elements(Tail(p)) \subseteq Elements(p)
  BY <1>1, TakenFrom
<1>3. "clear" \notin Elements(<<"event">>)
  BY DEF Elements
<1>4. Tail(<<"clear">>) = <<>>
  OBVIOUS
<1>5. Tail(<<"clear", "event">>) = <<"event">>
  OBVIOUS
<1>6. Head(p) = "clear" => Tail(p) = <<>> \/ Tail(p) = <<"event">>
  BY <1>1, <1>4, <1>5
<1>. QED  BY <1>2, <1>3, <1>6, NoElements

LEMMA ClearPosted ==
  ASSUME TextInv, PostClearIntent, Len(chatq) = 0
  PROVE  Len(chatq') <= 1
<1>1. chatq \in Seq(OwnCommands)
  BY DEF TextInv, CommandsOwn
<1>2. \A c : Len(Append(chatq, c)) = Len(chatq) + 1
  BY <1>1, TailLength
<1>3. chatq' = chatq \/ \E c : chatq' = Append(chatq, c)
  BY DEF PostClearIntent
<1>4. \A c : Len(Append(chatq, c)) = 1
  BY <1>2
<1>. QED  BY <1>3, <1>4

\* The ASR task takes the recording and ends with its transcript, or with
\* nothing of the job left.
LEMMA AsrKeepsJob ==
  ASSUME BufferInv, CommitInv, TextInv, EventInv, ChatPairInv, JobInv, AsrTask
  PROVE  JobInv'
<1>0. /\ UNCHANGED <<mach, todo, gen, audio, audioq>> /\ [Next]_vars /\ Left' = Left
  BY DEF AsrTask, TakeAsrCommand, AnnounceAsr, EndTranscription, LockForAsr,
         CommitTranscript, ReportAsr, AsrFrame, Next, Left
<1>1. /\ asrq \in Seq(AsrCommands)
      /\ Starts' = Starts /\ Jobs' = Jobs /\ Ready' = Ready /\ Ready.type = "ASR_DONE"
  BY <1>0 DEF BufferInv, CountersTyped, Starts, Jobs, Ready, AudioOrder, Event
<1>2. SUFFICES ASSUME Current' PROVE JobSound'
  BY DEF JobInv
<1>3. /\ OnePlace /\ AtMostOne(audioq, Starts) /\ AtMostOne(asrq, Jobs)
      /\ Finished => Told
      /\ Alive /\ "resetChat" \notin Left => ChatRoom
  BY <1>0, <1>2 DEF JobInv, JobSound, Current
<1>4. /\ ToStart' = ToStart /\ Queued' = Queued /\ Held' = Held
      /\ Ready' \in Elements(appq') => Ready \in Elements(appq) \/ Reporting
      /\ ("prompt" \in Left)' = ("prompt" \in Left)
  BY <1>0, <1>1, ReadyKept DEF ToStart, Queued, Held
<1>5. CASE TakeAsrCommand
  <2>1. /\ asr.pc = "wait" /\ asrq # <<>> /\ asrq' = Tail(asrq)
        /\ UNCHANGED <<appq, chatq, transcript, silent>>
    BY <1>5 DEF TakeAsrCommand
  <2>2. AtMostOne(asrq', Jobs) /\ Elements(asrq') \subseteq Elements(asrq)
    BY <1>1, <1>3, <2>1, OneTail, TakenFrom
  <2>3. ~Worked /\ (Sent' => Sent) /\ (Finished' => Finished)
    <3>1. ~Reporting'
      BY <1>0, <1>5, <2>1, ReportingKept DEF Reporting, CommitTranscript
    <3>. QED  BY <1>1, <1>4, <2>1, <2>2, <3>1 DEF Worked, Working, Sent, Finished
  <2>4. CASE Head(asrq).gen = gen
    <3>1. Head(asrq) \in AsrCommands /\ Head(asrq) \in Elements(asrq)
      BY <1>1, <2>1, TakenFrom
    <3>2. Head(asrq) \in Jobs
      BY <2>4, <3>1 DEF Jobs
    <3>3. Sent /\ ~Sent'
      BY <1>1, <1>3, <2>1, <3>1, <3>2, OneTail DEF Sent
    <3>4. ~ToStart /\ ~Queued /\ ~Held /\ ~Finished
      BY <1>3, <3>3 DEF OnePlace, OnlyAt
    <3>5. OnlyAt(5)'
      BY <1>4, <2>3, <3>3, <3>4 DEF OnlyAt
    <3>6. CASE asr' = [pc |-> "started", gen |-> Head(asrq).gen, epoch |-> Head(asrq).epoch]
      <4>1. ~ClearDue /\ ~ClearDue' /\ Alive
        BY <2>1, <3>3, <3>6 DEF ClearDue, Alive
      <4>2. Left' = Left /\ Len(chatq') = Len(chatq)
        BY <1>0, <2>1
      <4>3. ("resetChat" \notin Left => ChatRoom)'
        BY <1>3, <4>1, <4>2 DEF ChatRoom
      <4>. QED  BY <1>0, <1>1, <1>3, <2>2, <2>3, <3>4, <3>5, <4>3 DEF JobSound, OnePlace
    <3>7. CASE asr'.pc = "report" \/ asr'.pc = "wait"
      <4>1. ~Hoping'
        BY <3>7 DEF Hoping, Working
      <4>2. ~Alive'
        BY <1>4, <2>3, <3>3, <3>4, <4>1 DEF Alive
      <4>. QED  BY <1>0, <1>1, <1>3, <2>2, <2>3, <3>4, <3>5, <4>2 DEF JobSound, OnePlace
    <3>8. \/ asr' = [pc |-> "started", gen |-> Head(asrq).gen, epoch |-> Head(asrq).epoch]
          \/ asr'.pc = "report" \/ asr'.pc = "wait"
      BY <1>5, <2>1 DEF TakeAsrCommand, AsrFails
    <3>. QED  BY <3>6, <3>7, <3>8
  <2>5. CASE Head(asrq).gen # gen
    <3>1. UNCHANGED asr
      BY <1>5, <2>5 DEF TakeAsrCommand, IsCurrent
    <3>2. Worked' = Worked /\ Hoping' = Hoping /\ ChatRoom' = ChatRoom
      BY <1>0, <2>1, <3>1 DEF Worked, Hoping, ChatRoom, ClearDue
    <3>3. OnePlace'
      BY <1>3, <1>4, <2>3, <3>2, PlacesKept
    <3>4. Alive' => Alive
      BY <1>4, <2>3, <3>2 DEF Alive
    <3>. QED  BY <1>0, <1>1, <1>3, <2>1, <2>2, <2>3, <3>2, <3>3, <3>4 DEF JobSound, Told
  <2>. QED  BY <2>4, <2>5
<1>6. CASE AnnounceAsr \/ EndTranscription \/ LockForAsr
  <2>1. /\ UNCHANGED <<asrq, chatq, transcript, silent>> /\ asr.pc # "report" /\ asr'.pc # "report"
        /\ (Worked' => Worked) /\ (Hoping' => Hoping)
    <3>1. CASE AnnounceAsr
      BY <1>0, <3>1 DEF AnnounceAsr, BufferInv, AsrRecords, Worked, Hoping, Working
    <3>2. CASE EndTranscription
      BY <1>0, <3>2 DEF EndTranscription, Worked, Hoping, Working
    <3>3. CASE LockForAsr
      <4>1. asr = [pc |-> "lock", gen |-> asr.gen, type |-> asr.type] /\ asr.pc = "lock"
        BY <3>3 DEF LockForAsr, BufferInv, AsrRecords
      <4>2. asr' = Idle \/ asr' = [pc |-> "commit", gen |-> asr.gen, type |-> asr.type]
        BY <3>3, <4>1 DEF LockForAsr
      <4>. QED  BY <1>0, <3>3, <4>1, <4>2 DEF LockForAsr, Worked, Hoping, Working, Idle
    <3>. QED  BY <1>6, <3>1, <3>2, <3>3
  <2>2. (Finished' => Finished) /\ Sent' = Sent /\ ChatRoom' = ChatRoom
    BY <1>0, <1>1, <1>4, <2>1 DEF Finished, Reporting, Sent, ChatRoom, ClearDue
  <2>3. OnePlace'
    BY <1>3, <1>4, <2>1, <2>2, PlacesKept
  <2>4. Alive' => Alive
    BY <1>4, <2>1, <2>2 DEF Alive
  <2>. QED  BY <1>0, <1>1, <1>3, <2>1, <2>2, <2>3, <2>4 DEF JobSound, Told
<1>7. CASE CommitTranscript
  <2>1. /\ asr.pc = "commit" /\ asr.gen = gen /\ UNCHANGED <<asrq, chatq, appq>>
        /\ asr'.pc = "report" /\ asr'.event = Event(asr.type, asr.gen)
        /\ asr.type = "ASR_DONE" =>
             asr'.posts = <<"event">> /\ (transcript' = gen \/ silent' = gen)
        /\ asr.type # "ASR_DONE" => UNCHANGED <<transcript, silent>>
    BY <1>7 DEF CommitTranscript, CommitInv, SectionShape, IsCurrent
  <2>2. Worked
    BY <2>1 DEF Worked, Working
  <2>3. ~ToStart /\ ~Queued /\ ~Held /\ ~Sent /\ ~Finished
    BY <1>3, <2>2 DEF OnePlace, OnlyAt
  <2>4. ~ToStart' /\ ~Queued' /\ ~Held' /\ ~Sent' /\ ~Worked' /\ ~Hoping'
    BY <1>1, <1>4, <2>1, <2>3 DEF Sent, Worked, Working, Hoping
  <2>5. OnlyAt(6)' /\ AtMostOne(audioq', Starts') /\ AtMostOne(asrq', Jobs')
    BY <1>0, <1>1, <1>3, <2>1, <2>4 DEF OnlyAt
  <2>6. CASE asr.type = "ASR_DONE"
    <3>1. Hoping /\ ~ClearDue /\ ~ClearDue'
      BY <2>1, <2>2, <2>6, PostsSteps DEF Hoping, Worked, ClearDue
    <3>2. Len(chatq') = Len(chatq) /\ Left' = Left /\ Told'
      BY <1>0, <2>1, <2>6 DEF Told
    <3>3. ("resetChat" \notin Left => ChatRoom)'
      BY <1>3, <3>1, <3>2 DEF ChatRoom, Alive
    <3>. QED  BY <2>5, <3>2, <3>3 DEF JobSound, OnePlace
  <2>7. CASE asr.type # "ASR_DONE"
    <3>1. asr'.event.type # "ASR_DONE"
      BY <2>1, <2>7 DEF Event
    <3>2. ~Finished'
      BY <1>1, <1>4, <2>1, <2>3, <3>1 DEF Finished, Reporting
    <3>3. ~Alive'
      BY <2>4, <3>2 DEF Alive
    <3>. QED  BY <2>5, <3>2, <3>3 DEF JobSound, OnePlace
  <2>. QED  BY <2>6, <2>7
<1>8. CASE ReportAsr
  <2>1. asr.pc = "report" /\ UNCHANGED <<asrq, transcript, silent>>
    BY <1>8 DEF ReportAsr
  <2>2. \/ asr' = Idle
        \/ asr'.pc = "report" /\ asr'.event = asr.event /\ asr'.posts = Tail(asr.posts)
    BY <1>8 DEF ReportAsr, BufferInv, AsrRecords
  <2>3. ~Worked /\ ~Worked' /\ ~Hoping' /\ Sent' = Sent
    BY <1>1, <2>1, <2>2 DEF Worked, Hoping, Working, Sent, Idle
  <2>4. Finished' => Finished
    BY <1>0, <1>1, <1>4, <2>1, <2>2 DEF Finished, Reporting, Idle
  <2>5. OnePlace'
    BY <1>3, <1>4, <2>3, <2>4, PlacesKept
  <2>6. Alive' => Alive
    BY <1>4, <2>3, <2>4 DEF Alive
  <2>7. ChatRoom => ChatRoom'
    <3>1. asr.posts \in {<<"event">>, <<"clear">>, <<"clear", "event">>, <<"event", "clear">>}
      BY <2>1 DEF EventInv, ReportShape
    <3>2. ClearDue' => asr'.posts = Tail(asr.posts) /\ "clear" \in Elements(Tail(asr.posts))
      BY <2>2 DEF ClearDue, Idle
    <3>3. CASE Head(asr.posts) = "clear"
      <4>1. ClearDue /\ ~ClearDue' /\ PostClearIntent
        <5>1. "clear" \in Elements(asr.posts) /\ "clear" \notin Elements(Tail(asr.posts))
          BY <3>1, <3>3, PostsSteps
        <5>2. PostClearIntent
          BY <1>8, <3>3 DEF ReportAsr
        <5>. QED  BY <2>1, <3>2, <5>1, <5>2 DEF ClearDue
      <4>. QED  BY <4>1, ClearPosted DEF ChatRoom
    <3>4. CASE Head(asr.posts) # "clear"
      <4>1. UNCHANGED chatq
        BY <1>8, <3>4 DEF ReportAsr
      <4>2. ClearDue' => ClearDue
        BY <2>1, <3>1, <3>2, PostsSteps DEF ClearDue
      <4>. QED  BY <4>1, <4>2 DEF ChatRoom
    <3>. QED  BY <3>3, <3>4
  <2>. QED  BY <1>0, <1>1, <1>3, <2>1, <2>4, <2>5, <2>6, <2>7 DEF JobSound, Told
<1>. QED  BY <1>5, <1>6, <1>7, <1>8 DEF AsrTask

\* The other tasks only shorten the chat queue.
LEMMA OthersKeepJob ==
  ASSUME BufferInv, TextInv, EventInv, ChatPairInv, JobInv,
         ButtonTask \/ FactoryReset \/ LoseConfig \/ ChatTask \/ NetTask \/ UNCHANGED vars
  PROVE  JobInv'
<1>0. /\ UNCHANGED <<mach, todo, gen, audio, audioq, asr, asrq, transcript, silent>>
      /\ chatq' = chatq \/ (chatq # <<>> /\ chatq' = Tail(chatq))
  <2>1. CASE ButtonTask \/ FactoryReset \/ LoseConfig \/ UNCHANGED vars
    BY <2>1 DEF ButtonTask, Press, Release, HoldTooLong, ButtonPosts, LetGo, FactoryReset,
       LoseConfig, Others, vars, lapses
  <2>2. CASE ChatTask
    BY <2>2 DEF ChatTask, TakeChatCommand, ReportUnconfigured, AnnounceChat,
       LockForChat, HandleIntent, EndClassification, CheckReply, ShowReply, EndSpeech,
       EndReply, StreamDelta, PostToken, EndChat, CommitAnswer, ReportChat, ChatFrame, PostEnding, lapses
  <2>3. CASE NetTask
    BY <2>3 DEF NetTask, TakeNetCommand, EndConnect, ReportConnect, EraseConfig, ReportLoss,
       NetFrame, PostEnding, lapses
  <2>. QED  BY <2>1, <2>2, <2>3
<1>1. /\ Left' = Left /\ Starts' = Starts /\ Jobs' = Jobs /\ Ready' = Ready /\ [Next]_vars
  BY <1>0 DEF Left, Starts, Jobs, Ready, AudioOrder, Event, Next
<1>2. SUFFICES ASSUME Current' PROVE JobSound'
  BY DEF JobInv
<1>3. /\ OnePlace /\ AtMostOne(audioq, Starts) /\ AtMostOne(asrq, Jobs)
      /\ Finished => Told
      /\ Alive /\ "resetChat" \notin Left => ChatRoom
  BY <1>0, <1>1, <1>2 DEF JobInv, JobSound, Current
<1>4. /\ ToStart' = ToStart /\ Queued' = Queued /\ Held' = Held /\ Sent' = Sent
      /\ Worked' = Worked /\ Hoping' = Hoping /\ ClearDue' = ClearDue
      /\ Reporting' = Reporting
  BY <1>0, <1>1 DEF ToStart, Queued, Held, Sent, Worked, Hoping, ClearDue, Reporting
<1>5. Finished' => Finished
  BY <1>0, <1>1, <1>4, ReadyKept DEF Finished
<1>6. ChatRoom => ChatRoom'
  <2>1. chatq \in Seq(OwnCommands)
    BY DEF TextInv, CommandsOwn
  <2>2. CASE chatq' = chatq
    BY <1>4, <2>2 DEF ChatRoom
  <2>3. CASE chatq # <<>> /\ chatq' = Tail(chatq)
    <3>1. Len(chatq) \in Nat /\ Len(chatq) # 0 /\ Len(chatq') = Len(chatq) - 1
      BY <2>1, <2>3, TailLength
    <3>2. Len(chatq) <= 1 => Len(chatq') <= 1 /\ Len(chatq') = 0
      BY <3>1
    <3>. QED  BY <3>2 DEF ChatRoom
  <2>. QED  BY <1>0, <2>2, <2>3
<1>7. OnePlace'
  BY <1>3, <1>4, <1>5, PlacesKept
<1>8. Alive' => Alive
  BY <1>4, <1>5 DEF Alive
<1>. QED  BY <1>0, <1>1, <1>3, <1>4, <1>5, <1>6, <1>7, <1>8 DEF JobSound, Told

LEMMA NextKeepsJob ==
  BufferInv /\ CommitInv /\ TextInv /\ EventInv /\ ListInv /\ CounterInv /\ ChatPairInv
    /\ BudgetInv /\ FreshInv /\ AudioRoomInv /\ JobInv /\ [Next]_vars => JobInv'
<1>. SUFFICES ASSUME BufferInv, CommitInv, TextInv, EventInv, ListInv, CounterInv, ChatPairInv,
                     BudgetInv, FreshInv, AudioRoomInv, JobInv, [Next]_vars
              PROVE  JobInv'
  OBVIOUS
<1>1. CASE BumpGeneration
  BY <1>1, BumpKeepsJob
<1>2. CASE StateTask /\ ~ReceiveEvent /\ ~BumpGeneration
  BY <1>2, StateKeepsJob
<1>3. CASE ReceiveEvent
  <2>1. /\ UNCHANGED <<gen, audio, asr, audioq, asrq, chatq, transcript, silent>> /\ todo = <<>>
        /\ appq # <<>> /\ appq' = Tail(appq)
    BY <1>3 DEF ReceiveEvent, TasksUnchanged, lapses
  <2>2. PICK expired \in BOOLEAN : ~expired /\ Handle(Head(appq), expired)
    BY <1>3 DEF ReceiveEvent
  <2>. QED  BY <2>1, <2>2, HandleKeepsJob
<1>4. CASE AsrDeadline
  <2>1. /\ UNCHANGED <<gen, audio, asr, audioq, asrq, chatq, transcript, silent>> /\ todo = <<>>
        /\ appq' = appq \/ (appq # <<>> /\ appq' = Tail(appq))
    BY <1>4 DEF AsrDeadline, TasksUnchanged, lapses
  <2>2. PICK expired \in BOOLEAN : expired /\ Handle(Event("TIMEOUT", gen), expired)
    BY <1>4 DEF AsrDeadline
  <2>3. Event("TIMEOUT", gen).type = "TIMEOUT"
    BY DEF Event
  <2>. QED  BY <2>1, <2>2, <2>3, HandleKeepsJob
<1>. QED  BY <1>1, <1>2, <1>3, <1>4, AudioKeepsJob, AsrKeepsJob, OthersKeepJob DEF Next,
          StateTask

\* The current interaction has one job, in one place.
THEOREM JobsInductive == Spec => []JobInv
BY JobInit, NextKeepsJob, BuffersInductive, CommitsInductive, TextsInductive, EventsInductive,
   ListInductive, CountersInductive, PairsInductive, BudgetInductive, FreshInductive,
   RoomInductive, PTL DEF Spec

\* The orders to record and to stop find room in a queue of two, the prompt
\* finds room, and its transcript unless the provider heard nothing: what older
\* interactions left is gone, nothing clears the text of this one, and its job
\* leaves at most one order to forget an intent.
THEOREM FollowUps == Spec => []FollowUpsFit
<1>1. BufferInv /\ CommitInv /\ TextInv /\ ListInv /\ CounterInv /\ AudioRoomInv /\ JobInv
        => FollowUpsFit
  <2>. SUFFICES ASSUME BufferInv, CommitInv, TextInv, ListInv, CounterInv, AudioRoomInv, JobInv
                PROVE  FollowUpsFit
    OBVIOUS
  <2>1. Doing("start") \/ Doing("stop") => HasRoom(audioq, AudioDepth)
    BY AudioOrderFits
  <2>2. ASSUME Doing("prompt")
        PROVE  HasRoom(chatq, ChatDepth) /\ Told
    <3>1. Left = {"prompt"}
      BY <2>2, DoingLeft, PromptAlone DEF CommitInv
    <3>2. Current /\ Finished /\ Alive /\ "resetChat" \notin Left
      BY <3>1 DEF Current, Finished, Alive
    <3>3. Len(chatq) <= 1 /\ Told
      BY <3>2 DEF JobInv, JobSound, ChatRoom
    <3>4. Len(chatq) \in Nat
      <4>1. chatq \in Seq(OwnCommands)
        BY DEF TextInv, CommandsOwn
      <4>. QED  BY <4>1, TailLength
    <3>5. Len(chatq) < ChatDepth
      BY <3>3, <3>4, DepthAssumption, RoomAssumption
    <3>. QED  BY <3>3, <3>5 DEF HasRoom
  <2>. QED  BY <2>1, <2>2 DEF FollowUpsFit, Told
<1>. QED  BY <1>1, BuffersInductive, CommitsInductive, TextsInductive, ListInductive,
          CountersInductive, RoomInductive, JobsInductive, PTL

=============================================================================
