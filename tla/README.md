# Verification of the waveshare voice assistant firmware

TLA+ models, TLC runs and TLAPS proofs for the ESP32-S3 voice assistant: an
ESP-IDF firmware in C (`src/components`, about 20,000 lines of C) with a browser
client (`src/client`) and host tools (`src/tools`).  The firmware records a
question while a button is held, has it transcribed and answered by cloud
services, and speaks the answer; it is configured over USB by a client that was
paired at the device.

Contents: 1 inventory, 2 plan, 3 modules and code, 4 runs, 5 proofs,
6 disagreements found, 7 what is abstract or missing.

## 1. Inventory

### Storage and network

| component | state it keeps | operations | hard behaviour |
|---|---|---|---|
| `config_store` (`aiqa_config_nvs_ab.c` 902 lines, `aiqa_config_nvs.c` 503, `aiqa_config_transaction.c` 356, `aiqa_config.c` 407) | flash: the legacy namespace, record slots A and B, the head (active slot and revision), the factory-reset tombstone; RAM: a lifecycle lock | load and migrate, stage, activate, discard, erase all; apply a Wi-Fi update; save preferences | power cuts between durable writes, commits that report an error and were applied, three tasks on one lock |
| `net_connect` (408) | Wi-Fi driver state, event bits | connect, disconnect, forget, sync time | driver callbacks against the caller's timeout |
| `provider_common` (215) | request epochs (atomics), provider tables | capture, cancel, is-current | two tasks and a wrapping counter |

The head must never name a record that is not there; an update must be visible
completely or not at all, across restarts; a reset must erase everything and be
resumed; a result must say what the flash and the network hold.

### Pairing and management

| component | state it keeps | operations | hard behaviour |
|---|---|---|---|
| `management_session`, lifecycle (505) | state machine, attempts, code, deadlines, bound connection and handshake | create, tick, local_open, begin, progress, client_finished_verified, device_finished_sent, authenticated_activity, disconnect, local_reset, get_status | a durable attempt ledger with power cuts, five ports that may fail, deadlines that saturate |
| `management_session`, crypto and channel (`aiqa_pairing_crypto.c` 530, `aiqa_secure_channel.c` 292, sessions 401) | EC-JPAKE context, traffic keys, record counters | rounds, finish; encrypt, decrypt | call order, counters at their limit, terminal failure |
| `management_session_esp` (225) | NVS lock record, local-action bits | load, store; post, pending, consume | two tasks on the bits, a namespace that opening creates |
| `management_access` (168) | registry: grant, generation, session id | prepare, activate, revoke, authorize | asked by other tasks while the owner revokes |
| `management_transport`, owner (`aiqa_usb_management.c` 522, `aiqa_pairing_rpc.c` 754) | the attempt (handshake id, device session, flags), the active channel, link epoch | read frames, pairing requests, encrypted requests, local actions, abort | handlers that call the lifecycle several times while it may revoke under them |
| `management_transport`, wire and protocol (1,156) | decoder state, dropped bytes | feed, parse, write | frames cut and joined at chunk boundaries |
| `management_service` (373) | one operation slot, sequence counters, results | submit, complete, status | readers against a writer without a lock |
| runtime's pairing overlay (`aiqa_runtime.c`, 900-1010 and 1540-1680) | UI queue, command numbers, acknowledgement, the panel | show, clear, draw a page | a wait that expires while its command is being drawn |

A code may be guessed at most `max_attempts` times whatever is restarted; a
window passes its code on once; nothing outlives the connection, window or
session it was made for; the four records of who may manage the device agree.

### Interaction

| component | state it keeps | operations | hard behaviour |
|---|---|---|---|
| `app_runtime` (`aiqa_runtime.c` 3,149; intent controller 329, UI 338, recording 102, events 98) | seven queues, the generation, the configuration snapshot, commit mutexes, playback slots, pairing overlay command and acknowledgement | tasks: state, UI, audio, button, network, ASR, chat, TTS playback | late events of an old interaction, full queues, cancelled clients, two consumers of one microphone |
| `app_core` (2,195) | state machine (336), boot gesture, push-to-talk filter, playback policy, device intents, language and local commands | dispatch, update | deadlines with a wrapping clock, press and release out of order |
| `asr_client` (1,356) | one HTTP request, diagnostics under a lock | transcribe, cancel, copy diagnostics | many calls under one time limit, a cancel between any two of them |
| `chat_client` (1,619) | one HTTP request, carry buffer, answer | send, stream, classify an intent, cancel | events cut anywhere by the network |
| `tts_client` (782) | one HTTP request, stream buffer | speak, cancel | a callback that blocks on the player |
| `audio_capture` (699), `board_wave_175c` (1,970) | I2S, codec, display, power rails | open, read, draw | blocking hardware I/O |

Stale results must not reach a new interaction; every interaction must end;
queues and slots must not leak; what is sent, shown and spoken is the recording,
the answer and the code it is taken for.

### Outside the firmware

`client` (browser, 3,765 lines of source): its serial connection, frame codec and
pairing session are modelled as the other end of the management link, its views
are not.  `tools` (provisioning and build scripts), `main` (calls the runtime's
start) and `tests` (host tests and contracts) are read for what they promise, and
not modelled.

### How the parts interact

Tasks exchange commands and events through FreeRTOS queues; the runtime's
generation marks which interaction an event belongs to.  The network task is the
only one that changes Wi-Fi and configuration records; preference saves on other
tasks share its lifecycle lock with a try-lock.  The USB owner task calls the
pairing lifecycle, whose ports call back into the owner (revoke), the NVS
adapter (lock record) and the runtime (show and clear the code, by a command to
the UI task and an acknowledgement).  A Wi-Fi update goes from the owner through
the management service's operation slot to the network task, and its result back
through the slot.  Physical actions set bits the owner takes on its next turn.

## 2. Plan

Order of work, most important first.  All but the last row is done.

| | module | composes | abstract specification | theorems |
|---|---|---|---|---|
| 1 | `ConfigStore` | NVS, network task, snapshot, preference saves | `DeviceConfig` (one stored configuration) | all of its safety properties, refinement (proved) |
| 2 | `PairingLifecycle` | lock record, local actions, display | none; guess and session ghosts | all of its safety properties (proved) |
| 3 | `UsbManagement` | 2 with requests, registry and channel | none; 2 runs inside it | all of its safety properties (proved) |
| 4 | `Interaction` | state machine, button, audio, ASR, chat and net tasks, request epochs | none; generations carried by every datum | all of its safety properties (proved) |
| 5 | `SecureSession` | browser, device owner and the link between them | none; the requests carried out, the records sealed | all of its safety properties (proved) |
| 6 | `TtsPlayback` | TTS client, producer, player, speaker driver | none; the chunks heard | all of its safety properties (proved) |
| 7 | `WifiOperation` | management service, net queue, owner, net and application task | none; the operation last decided | `StatusIsTrue` (proved) |
| 8 | `PairingScreen` | owner, UI task, display | the display port of 2 | `CodeIsWhereBelieved` (proved) |
| 9 | `AsrRequest`, `ChatRequest` | HTTP client, cancelling task; server | none; what was sent and received | all of its safety properties (proved) |
| 10 | gesture and push-to-talk filters, intent controller | none | reference definitions over bounded inputs | none planned |

## 3. Modules and code

### `DeviceConfig`

What the store promises: a variable `stored`, replaced by its immediate
successor revision in one step or removed in one step.

### `ConfigStore`

Durable state is `head`, `reset` (the tombstone) and `ns`, the content of the
three namespaces.  A content is empty, a record, *torn* (the layout marker is
there but no valid record) or *residue* (no marker, secret bytes remain): these
are the cases the loader and the erasing tell apart.  `pc` is where the owner is
(boot load, then the network task) and `op` what it is doing; `act` is the record
it loaded.  `resetReq`, `ready` and `creds` are the parts of the event and network
queues that matter to configuration; `snap` is the runtime's snapshot, `net` the
configuration whose Wi-Fi the station is on.

| code | actions |
|---|---|
| `load_active_record_unlocked`, migration | `LoadRejects`, `LoadActive`, `MigrateStage`, `MigrateActivate`, `MigrateUnstage`, `ShedLegacy`, `LoadSucceeds`, `LoadFails` |
| `aiqa_config_nvs_stage_record`, `activate_record`, `discard_record` | operators `StageRecord`, `ActivateRecord`, `DiscardRecord`, shared by their callers |
| `aiqa_config_transaction_apply_wifi`, `apply_management_wifi_job` | `TakeJob`, `BeginApply`, `StageCandidate`, `VerifyCandidate`, `TrialConnect`, `ActivateCandidate`, `Quarantine`, `RestoreConnect`, `UnstageCandidate`, `Retire`, `JobRecovers`, `JobRollsBack`, `JobCommits` |
| factory reset | `RequestReset`, `TakeReset`, `WriteTombstone`, `Erase`, `EraseMeta`, `EndReset` |
| other tasks, power | `SubmitJob`, `PostConnect`, `TakeConnect`, `StartSave`, `EndSave`, `PowerOn`, `PowerCut` |

Each durable write with its read-back is one step; the power may fail between
any two steps, and an interrupted write is the step that reports an error (with
any outcome) followed by `PowerCut`.  A NVS commit that reports success is
applied; one that reports an error is applied, not applied or, with
`TornWrites`, leaves a fragment.  The NVS library is not under `src/` and is
modelled from the results its callers distinguish.

A FACTORY_RESET event may come at any time after the boot load started:
`aiqa_runtime_post_event` accepts it, the state machine accepts it in every
state, and no in-tree producer limits when it is posted.

### `PairingLifecycle`

The C structure field by field, the lock record in flash (`durable`), the
display (`screen`) and the local-action bits (`presence`).  What the port ends when
it revokes a connection is not the lifecycle's state: it is `RevokePort` of
`UsbManagement`, and the handshake's crypto context is `rpc.session` there, which the
production port leaves alive (section 6).  Every public call starts with `refresh`:
in time (`InTime`), overdue (`Expire`) or with a failing clock (`ClockFails`).  A call that expires something ends there, except `local_open`,
which may go on from INACTIVE; it does so as its next step.  A call whose
conditions are not met has the effect of `Tick`.

`begin` is two steps, `Begin` up to the durable store and `ConsumeCode` from the
hand-over on, because a power cut between them must not buy another guess.  A
store that fails may have been applied; followed by `PowerLoss` it stands for
a cut inside the store.  The NVS record is absent, unreadable or a count:
opening for writing creates the namespace before the record is there.  A show or
clear the lifecycle gave up on may still reach the display (`DisplaySettles`).
`ClockMax` stands for `UINT64_MAX`: deadlines saturate there as in the code.
`guesses`, `windowGuesses`, `openedAt` and `activeAt` are history.

### `UsbManagement`

Extends `PairingLifecycle` with the owner task: `rpc` is `aiqa_pairing_rpc_t`,
`channel` the installed secure channel, `registry` the grant, `pc` the point
inside a handler.  One task runs all of it, but a handler calls the lifecycle
several times, and between two calls time passes, bits are posted, the display
settles and the power fails (`Outside`, `OwnerDies`); so every lifecycle call is
a step of its own, which conjoins the lifecycle's action with `RevokePort`, the
port it calls back: registry and channel go, the request handler's session stays.
Each call may fail as the lifecycle may (`CallFails`).

| code | actions |
|---|---|
| `process_local_action` | `LocalStart`, `LocalResetAction`, `DropAction` |
| `handle_status`, the loop's tick | `Poll` |
| `handle_prepare`, `handle_begin`, `handle_round_two`, `handle_finish` | `Prepare`, `PrepareRefused`, `BeginRequest`, `ConsumeCodeCallback`, `BeginProgress`, `RoundTwo`, `Finish`, `HandshakeRefused`, `HandshakeFailed` |
| sending the Finished, `aiqa_pairing_rpc_commit_finished` | `SendFinished`, `CommitRefused`, `PrepareAccess`, `FinishedSent`, `ActivateAccess` |
| `handle_secure_request`, `abort_active_connection` | `SecureRequest`, `RequestServed`, `Abort` |

Cryptographic checks may fail at any time; rate limits and malformed frames only
drop or refuse frames.  `rpc->connection_id` is the owner's connection exactly
while `prepared` and is folded into it.

### `Interaction`

One voice interaction, from the press to the spoken answer.  `mach` is the state
machine of `app_core`; `todo` is what the state task has still to do for the event
it handles, because bumping the generation, emptying the queues and cancelling
the three clients are separate steps the other tasks see in between.  Every
transcript, reply and recording carries the generation it is of, instead of its
text.  `audio`, `asr`, `chat` and `net` are the other tasks, each with the command
it works on; `lock` is the commit mutex; `buffers` counts the PCM buffers that are
allocated.

| code | actions |
|---|---|
| `app_task`, `begin_new_interaction`, `aiqa_state_machine_handle_event` | `ReceiveEvent`, `BumpGeneration`, `ResetQueues`, `CancelRequests`, `ClearTexts`, `CommandAudio`, `PostPrompt`, `ForgetIntent`, `OrderReset`, `LoadConfig`, `OrderConnect`, `AsrDeadline` |
| `button_task`; any caller of `aiqa_runtime_post_event` | `ButtonTask`; `FactoryReset` |
| `audio_task`, `asr_task`, `chat_task`, `net_task` | `AudioTask`, `AsrTask`, `ChatTask`, `NetTask`, one disjunct per step between two accesses to what the tasks share |

A client call is one step that ends with any result.  The recogniser may also report
OK with an empty text (`aiqa_asr_protocol.c` 370-398, `aiqa_runtime.c` 2127-2141):
`CommitTranscript` then stores no transcript, remembers the generation in `silent` and
posts ASR_DONE all the same.  `post_chat_prompt` refuses the empty prompt, which is
only logged (849-853, 1070-1075), so the machine stays in THINKING, which has no
watchdog, until the next press or reset (section 6).  A post with a bounded wait
is lost only if its queue is full, and then `dropped` remembers it.  A Wi-Fi
update that ends in RECOVERY_REQUIRED takes the snapshot away in the middle of an
interaction (`LoseConfig`, `ReportLoss`); the update itself is `ConfigStore`'s.

### `TtsPlayback`

`speak_pet_answer` and its player task.  Slots go round through `free` and `play`;
`status` leaves OK at most once; `queued` is the byte counter both tasks change;
`speaker` the codec and the amplifier.  The producer's steps are those of the
stream callback and of `finish_tts_stream_playback`; the player's are those of
`tts_stream_playback_task`, receive and count apart, since the producer may add
between them.

### `AsrRequest`

`aiqa_asr_transcribe_pcm_wav_once_with_epoch`, call by call, while another task
cancels.  The recording is a sequence of numbered bytes (header, then samples),
encoded by quads, so that `wire` shows a byte that is lost, repeated or padded.
`clock` counts ticks that pass in calls of the HTTP client only, each taken to
return within the timeout it was given.  A record of the diagnostics is written
in two steps, the epoch looked at and the fields set, under `diagLock`; the
cancellation moves the epoch first and clears the diagnostics later.  Recordings
are queued while nothing cancels: one queued in between is of an earlier
generation and is dropped by the ASR task before this call.

### `ChatRequest`

`chat_send_request`.  A streamed answer is a sequence of units: an event's delta
is its head and its tail with filling in between, its separator the two or four
characters of the code.  Chunks are cut anywhere, and the connection may end
anywhere.

### `SecureSession`

The browser (`conn`, `at`, `channel`, `rpc`, `nextRequestId`), the device (`server`, `window`, its
wire decoder) and the link (`c2d`, `d2c`).  A key is the record of everything its
derivation hashes, so two ends share it exactly if they saw the same handshake
and typed the same code.  Frames may be dropped by the rate limit, left over by a
closed connection or cut in the middle; a request may time out in the browser
while the device works on it.

### `WifiOperation`

The operation slot of the management service at the grain of single atomic
accesses: the two increments around a store, the three words, the reader's two
looks at the sequence number and its 64 attempts (`ReadAttempts`).  The owner
submits and reads, the network task applies and completes, the application task
drains the queue when the device is reset.  The accesses are taken to be
sequentially consistent; the weaker orders the code asks for are not modelled.

### `PairingScreen`

The owner sends SHOW and CLEAR with a sequence number and waits; the UI task
draws and acknowledges; a wait that expires withdraws its command by number.
`page_dirty` brings a page back that a code covered or a failed drawing lost: a
failed drawing leaves the old picture or the new one.  The owner's belief
(`codeVisible`, `fault`) is the display port of `PairingLifecycle`.

## 4. Runs

| run | states | question |
|---|---|---|
| `config_safety` | 280,358 | boots, migration, updates, resets and saves with storage errors, torn writes and power cuts: is the head intact, do results say what flash and network hold, does the flash refine `DeviceConfig`, and do boots come to an end? |
| `migration_orphan`, `reset_save_race`, `reset_stale_connect` | to the counterexample | three statements of tests and documentation the code does not meet (section 6) |
| `pairing_safety` | 699,821 | any caller, stale ids, failing ports, power cuts, a saturating clock: ledger, guesses, codes, ceilings; does every window close and every session end? |
| `usb_safety` | 551,605 | time, a fault, presses and power cuts between any two calls of a handler: do lifecycle, attempt, channel and registry agree, and does the owner come back to its loop with its window or session ended, whatever the client sends? |
| `revoke_leaves_secrets` | to the counterexample | a port contract the production port does not meet (section 6) |
| `interaction` | 520,966 | presses, resets and a lost configuration at any moment of the interactions of six tasks, with full queues, failed allocations, empty transcripts and wrapping counters: does everything belong to the current interaction, and does each come to its end? |
| `stale_reply`, `silent_answer` | to the counterexample | two statements of the plan the code does not meet: stale results are dropped, and a recognised question is asked (section 6) |
| `management` | 341,127 | three parts.  The link: reconnects, dropped, left-over and cut frames, timeouts, mistyped codes, the last counter: do both ends agree, is a request carried out once, is a nonce used once?  The services: a Wi-Fi update read while it is written, submitted, applied and cancelled; codes shown and given up while drawing is late or fails: is what is answered and shown true? |
| `cloud_clients` | 831,456 | speech, recognition and answer, each cancelled at any step: is what is sent, heard and shown the whole and nothing else, and does it stop in time? |

`management` and `cloud_clients` hold three parts each that share no state: every
behaviour is of one part (`system`, `client`) and leaves the others in an initial
state, so the states add up instead of multiplying.

Every property of a passing run has a mutant: a changed definition of the code's
model, such as a forgotten slot, an unstored attempt or a lock taken too late,
under which TLC finds the property violated.

### Properties

Store.  `HeadIntact`: the head never names a record that is missing, fragmentary
or of another revision.  `SnapshotIsStored`: when idle, the snapshot the device
runs on is the stored configuration.  `RollbackIsClean`, `SecretsAreGone`,
`NotCommittedIsDurable`: results mean what they say about the flash;
`SecretsAreGone` joins three of them, that an update reported OK leaves one copy,
that a reset reported done leaves none, and that no slot is served while the
legacy secrets are there.  `JobSettlesNetwork`: results mean what they say about
the network.  `DeviceConfigSpec`: refinement.  `BootsConverge`: however often the
power fails, a durable tombstone leads to an erased device, and a committed slot
is served again.

Pairing.  `GuessBudget`, `AttemptsAreNotRefunded`: attempts are paid in flash
first and come back only by a success or a physical reset.  `CeilingsHold`: no
renewal passes a ceiling.  `IInv`, the inductive invariant, has among its parts
that the count in RAM is the one in flash (`LedgerIsDurable`), that a window
passes its code on once (`OneGuessPerWindow`) and that a code on the display is known
to be there (`ShownCodeIsTracked`).  `EverythingExpires`: every window closes and every
session ends, whatever a peer keeps sending.

Owner.  `AccessIsLive`: an access is authorized exactly while its channel is
installed, and neither outlives the session.  `LoopIsSettled`: between frames
nothing is half committed.  `SecretsMatchWindow`: secrets of an earlier window
never meet a live handshake, although the port leaves them where they are.
`OwnerReleases`: whatever a client keeps sending, and wherever in a handler the
window expires, a port fails or a reset is pressed, the owner comes back to its loop
with no connection bound and no reset waiting, again and again.

Interaction.  `RequestLiveIffCurrent`: two counters no lock joins, the generation
and the clients' epochs, agree about which request is live.  `PromptIsOwn`,
`CommitsAreCurrent`: nothing of an earlier interaction is asked, said or written.
`FollowUpsFit`: two places are enough in the audio and chat queues, and a prompt
finds its transcript unless the recogniser heard nothing.
`MicrophoneFollowsTheMachine`, `BuffersHaveOwners`: recording stops with the state
machine, and every PCM buffer is freed once.  `MachineSettles`: every interaction,
start and reset comes to rest, with two excuses: the event that ends it was lost to a
queue that stayed full, or its transcript was empty (`Unanswered`).  The second is a
disagreement of its own: `SuccessIsAsked`, that a success of the recogniser is put to
the chat task, is violated (section 6).

Link.  `AnsweredOnce`: an accepted answer is of the request just sent, which was
carried out exactly once and in order.  `ChannelsAgree`: the two ends never hold
different keys for one handshake, and their counters agree at rest.
`NoNonceReuse`: no key seals two records under one nonce.

Services.  `StatusIsTrue`: a status is the words of one store and the outcome of
the update last accepted, and never goes back from settled to pending.
`ReservationEnds`.  `CodeIsWhereBelieved`: the panel shows the code the lifecycle
believes it shows, and no other.  `GivenUpCodeLeaves`, `LatestStateIsShown`: a
code given up leaves the panel, and the state posted last comes to be shown.

Cloud clients.  `EverySlotHasOneOwner`, `SpeechIsFaithful`,
`NothingOutlivesTheSpeech`, `SpeechEnds`: the slots go round, what is heard is a
beginning of the answer (all of it when complete), the player is gone and silent
before its context is freed, and the speech ends.  `AsrIsFaithful`: the server
answers only the whole recording.  `DiagnosticsAreCurrent`: what a status request
reads is of the current interaction.  `AnswerIsFaithful`: wherever events are cut,
the answer grows by each delta once and in order.  `RequestsStopInTime`: a
recognition keeps its one time limit, and a cancelled request begins at most one
more call.

### Bounds, and why they are enough

`ConfigStore`: two configurations (the old one and the candidate, or the reset
one and its successor); `MaxRevision` 3, so that migration, an update and the
refused update from the last revision all occur; `MaxFaults` 4 storage errors or
mid-operation power cuts, which reach an interrupted recovery of an interrupted
reset; power cuts while idle are free.  The violation runs take revision 2 and at
most two faults.

`PairingLifecycle`: two connections and two handshakes (the bound and a stale
one), two attempts (one to use, one to lock), durations of 2 and 3 with
`ClockMax` 6, so that renewals, both ceilings and saturation occur in one
behaviour, and two port faults (one to enter FAULT, one while there).
`UsbManagement`: one connection, since `aiqa_usb_management_start` fixes the
owner's; two handshakes, two attempts, durations of 2 and 3, `ClockMax` 4 and one
port fault, which may come inside any handler (what a second one adds is the lifecycle's
way through FAULT, which `pairing_safety` covers with two).  The handshakes are not
symmetric in this run, since it checks liveness.

`Interaction`: two orders of users or other tasks (a press over an unfinished
interaction, or over a reset, is the case the generations are for); the queues of
the audio and chat tasks have their real depth 2, the ASR queue's 2 holds the
recordings of both interactions, the event queue's 3 makes it run full; `Wrap` 7
exceeds the interactions of a behaviour as 2^32 exceeds those a request can
outlive, and the behaviours that begin just below it wrap.

`SecureSession`: three connections (a session, its loss, and the one after), two
handshakes (two keys to mistake), at most seven requests on a connection and
`LastCounter` 3, so that a session runs into the counter's end.

`WifiOperation`: two updates and a reset between them, identifiers from 1 and from
just below `IdWrap`; `ReadAttempts` 2 makes both a repeated and an abandoned read
occur.  `PairingScreen`: two windows and two local resets; `UiDepth` 2 is the least
that holds a SHOW and the CLEAR that takes it back.

`TtsPlayback`: two slots and four chunks, so the pool runs dry and fills again.
`AsrRequest`: two requests, a WAV of one full chunk and one that needs a second,
whose header ends inside the first quad; time limits a few ticks long, so that
each call can be the last.  `ChatRequest`: two events of up to four units and
chunks of up to four, so that a chunk may hold two events and a carry buffer less
than one.

The theorems hold for every value of these constants that the named assumptions
allow, with one reservation: `MaxFaults` and the bounds on chunks are parameters
of the proofs too, so they cover any finite number.  `Interaction` has two
assumptions beyond the types of its constants.  `RoomAssumption`: the queues of the
audio and of the chat task hold two commands, which is their depth in the code
(`aiqa_runtime.c:50-51`); with one, the order to stop could meet a full queue.
`RunAssumption`: a behaviour has fewer orders of users and other tasks than half the
values of a generation, that is, fewer than 2^31 presses since the device was
switched on.  Nothing in the code enforces it, and it is needed: a task delayed while
the counter goes all the way round would take its old generation for the current one.

`AsrRequest` has three.  `WavAssumption`: a chunk of the WAV is whole quads of the
encoding, as the 3072 bytes of the code are.  `TimeAssumption`: a socket timeout
is no longer than the time limit of a request.  `EpochAssumption`: a run of the device
has fewer interactions than an epoch has values, which the code does not enforce
either and which is needed for the same reason: an epoch that came back would make a
cancelled request current again.  `ChatRequest` has `ChatAssumption`, the types of
its bounds: the buffers, the chunks and the answers may have any size.

Deadlock is checked in the runs of the store, the pairing and the owner, where a
device that is off can be switched on and time passes.  The other runs
(`interaction`, `stale_reply`, `silent_answer`, `management`, `cloud_clients`) bound
what users, peers and servers do, so they do stop.

### Fairness

`ConfigStore`: weak fairness of the owner (the network task and the boot load
run) and of `PostConnect` (the state task runs).  Users, saves and power cuts are
not obliged to happen; both parts of `BootsConverge` are conditional on the device
going on to be restarted, because a reset or a load that failed is retried at the
next boot only.

`PairingLifecycle`: weak fairness of `TimePasses`, of `Expire`
(`management_task` calls `tick` on every turn of its loop) and of `ConsumeCode`
(a `begin` that has started runs on).  No call of a peer is fair.

`UsbManagement` (`UsbFairness`): weak fairness of `TimePasses` and of `Handler` (the
task runs a handler it has entered to its end), and strong fairness of
`LocalResetAction` and `Poll`: every turn of `management_task`
(`aiqa_usb_management.c` 401-443) acts on the bits and ticks before it reads at most
one chunk of frames, so requests that follow each other without a pause do not keep
the owner from either.  No request of a client is fair.

`Interaction`: weak fairness of each task (they run at fixed priorities and block
on their queues with time limits), of `AsrDeadline` (a timer of the state task)
and of `Release \/ HoldTooLong` (a pressed button is released or the recording
reaches its maximum); strong fairness of `EndChat`, since a streamed answer has
finitely many chunks although each chunk may be followed by another.

`TtsPlayback`: weak fairness of the two tasks.  `WifiOperation` and
`PairingScreen`: weak fairness of the owner, network, application and UI tasks,
and strong fairness of receiving a command once the display is ready: a display
whose initialisation failed is tried again with each command, and not for ever
in vain.  `AsrRequest`, `ChatRequest` and `SecureSession` state no liveness.

## 5. Proofs

Checked by TLAPS from nothing; no step is left out.  The pairing invariant is
also an invariant of `pairing_safety`; the other invariants show in the runs
through the properties they imply.

**`ConfigStoreProofs`** (from `ConfigStoreAssumption`).  `HeadIntact` alone is not
inductive: activating a candidate, quarantining it or erasing needs to know that
what the owner *remembers* in `act` is still what the flash holds.  `IInv` adds:
where the owner can be (`OwnerShape`), when it remembers something
(`NothingLoaded`), that from the load to the activation the head names `act` and
the slot holds it (`ActIsDurable`), what the legacy namespace may hold
(`LegacyShape`) and that erasing goes in order under the tombstone
(`EraseInOrder`).  `Inductive`, `TypeCorrect` and `HeadAlwaysIntact` follow.
`Refinement`: every step maps to an update, a reset or a stutter of `DeviceConfig`
under `stored <- Stored`; only the activation of a candidate and the tombstone
change `Stored`, and what a reset erases after its tombstone was missing already.
`NotCommitted` is the action property of the activation.

Its last part is about what is reported.  A result is reported several
steps after the writes it speaks of, so `RInv` follows the operation: which record
the head names at each point and what has been discarded by then (`FlashShape`),
what the network is connected with and which results are still possible
(`OutcomeShape`), when the snapshot is the stored configuration (`SnapShape`).
From `ResultsInductive`: `SnapshotStored`, `RollbacksAreClean`, `SecretsGone` and
the action property `JobsSettleNetwork`.

**`PairingLifecycleProofs`** (from `PolicyIsSafe`).  The budget is inductive
because the durable count runs ahead of the guesses by the one `begin` is about
to expose (`Budget`); this needs RAM and flash to agree outside FAULT
(`LedgerIsDurable`), ids to be bound exactly in live states (`IdShape`), code and
display to agree (`CodeShape`) and each deadline to lie under its ceiling
(`DeadlineShape`).  From `PairingInductive`: `PairingTypeCorrect`,
`GuessesBounded`, `LedgerAgrees`, `OneGuess`, `CodesAreTracked`,
`CeilingsAreHard`, and the action property `NoRefund`.

**`UsbManagementProofs`** (also from `UsbIsConnection`).  First
`HandlersAreOrdered`: an invariant of the handler points alone makes every owner
step an allowed step of the lifecycle.  That is so because each conjoins one, and says
nothing of the code; it is a lemma only (`OwnerSteps`), by which the lifecycle's `IInv`
holds of the owner too.  Then `UsbInv`,
which says of each point what the lifecycle's state can be there
(`PointShape`), is inductive (`OwnerInductive`), with `AccessesAreLive`,
`SecretsMatch` and `LoopsSettle` as consequences.

**`TtsPlaybackProofs`**.  The chat task's wait for the player is what makes freeing
the context safe; the invariant `SpeechInv` says which of the player's points may
have the speaker on (`SpeakerShape`) and that the semaphore is given last
(`DoneShape`).  `NothingOutlives` follows, for every number of slots and chunks.
`StreamIInv` is about the slots and what is in them: each is in `free`, in `play` or
in one of the two hands (`PoolInv`); the byte counter is the length of `play` but for
the chunk between count and queue, and the queue continues where the player is
(`StreamInv`); what was heard is what was taken as long as nothing has failed
(`HeardInv`), and a status other than OK has a cause (`BlameInv`).  `OneOwnerEach`
and `Faithful` follow.

**`CloudRequestProofs`** (from `WavAssumption`, `TimeAssumption` and
`EpochAssumption`).  `AsrInductive` is one invariant in six parts.  `EpochInv`: no
epoch comes back, so a request that has been cancelled stays cancelled.  `BodyInv`:
what was sent, followed by what is left of the parts begun, is the beginning of the
request, unit by unit; a write moves the boundary, a part extends both sides, and
since chunks are whole quads only the last part is padded.  `StageInv`: an answer is
awaited only behind the whole body; `AnswerInv`: what a status was made of.
`DiagInv` is about the race: a request that is current and has recorded finds the
record its own, and one that found itself current under the lock before a
cancellation is followed by the canceller's clearing, which waits for that lock.
`StopInv`: a call is entered with time left and by a request that was current when it
looked.  `AsrFaithful`, `AsrCurrent` and `AsrStops` follow; `ChatStopInv` says the
last of a question, and `RequestsStop` puts both together under the specification of
the run.

`AnswerFaithful` (from `ChatAssumption`) is about text that is taken out of a buffer
event by event while chunks cut the events anywhere.  Its invariant `ChatAnswerInv`
says, until the call is over, how far the parsing is: for some number i of events
(`Parsed`), the carry buffer is exactly what was received behind event i, the text is
what the events up to i say as far as it fits (`Written`), and event i + 1 has not
arrived whole (`Settled`); an answer that is not streamed is only stored (`WholeInv`).
A chunk that is not lost appends to the carry buffer and then takes out events until
none is whole.  That one such step takes exactly the next event is `EventTaken`: its
payload holds no unit of a separator, so the first separator of the buffer is the one
behind it, also where CR LF CR LF could be read from its middle (`FirstSeparator`).
When the stream ends, the rest is either an event that lost its separator, and is
said, or a part of one, which says nothing (`DeltaOfPart`, `RemainderProcessed`).
The invariant is needed because the property alone is silent on what is carried.

The operators of this model are folds and recursive functions over sequences, and
the library's theorems on induction cannot be instantiated by the provers here.  So
the module first derives what it needs in first-order form: every set of numbers
has a least element (from the library's well-foundedness of `Nat`), hence induction
over a set of numbers (`EveryNat`), hence a function with a first value and a step
(`Iterated`), hence that `FlattenSeq`, `TakeEvents` and the stream obey the equations
they are read by (`FlattenSteps`, `TakeSteps`, `StreamSteps`).

**`InteractionProofs`** (from `WrapAssumption` and `DepthAssumption` and, where it is
said, `RunAssumption` or `RoomAssumption`).  Several invariants of the same tasks.
`BufferInv` counts: a recording has a buffer while
the audio task captures and none while it hands one over, so every drop, drain and
hand-over moves or frees exactly one; `EveryBufferHasOneOwner` follows.
`CommitInv` is about the commit mutex: a task in its section holds it and has found
its generation current there (`SectionShape`), and the generation moves only while
the state task holds it, in the step that skips 0 as well (`TodoShape`).  So what was
current when it was looked at still is when it is written: `LateResultsAreDropped`.
`TextInv` is about the order of the state task's own steps: the generation moves only
with the clearing of the texts still to do behind it, nothing is asked before that is
done, and so the transcript a prompt is made of is of its own generation:
`PromptsAreOwn`.

`LiveIffCurrent` is the longest argument, since the generation and the three request
epochs are separate counters that no lock joins.  `ListInv`: the state task's list of
steps is done in the order of the code.  `CounterInv`: at each point of it, each epoch
is the generation or exactly one step behind.  `ChatPairInv` and `EventInv` say the
same of what is already on its way.  That an *old* generation never equals the current
one is a matter of counting: `BudgetInv` bounds how far the generation has moved since
the device was switched on by the orders given so far, the queued ones included, so
under `RunAssumption` it never comes round.  `FreshInv` is then inductive: what is
carried lies behind the current generation or is it, a generation just begun is
carried by nobody, and a recording was given the epoch of its own interaction.

`MicrophoneFollows` is about room.  `AudioRoomInv` (from `RoomAssumption`) says that the
audio queue is empty when the order to record is due and holds at most one command
when the order to stop is; `MicInv`, that once the machine has left RECORDING every
recording or order to record of the current interaction has an order to stop behind
it.  `FollowUps` (from `RoomAssumption`, and through `FreshInv` from `RunAssumption`)
adds `JobInv`: the current interaction has one job and it is in one place (the audio
queue, the audio task, the ASR queue, the ASR task or the event that ends it), what
older jobs left in the chat queue was drained with it, and the job leaves at most one
order to forget an intent; so the prompt finds room, and a transcript of its own
interaction or one the recogniser left empty (`Told`).

**`SecureSessionProofs`**.  The key of a record depends on the transcript of its
pairing.  `NonceInv` gives each end its own reason why a new channel's key has
sealed nothing: the device's carries the number of its attempt (`DeviceShape`), the
client's the connection and id of the request that began the pairing
(`ClientShape`).  Behind that a channel counts on, and refuses its last counter
before it would wrap.  `NoncesAreFresh` follows, whatever the link loses or keeps.

`LinkInv` adds what is on the way.  Requests leave the client with growing numbers,
and a request is carried out when it is taken off the link, so what was carried out,
what waits and what comes next are in one order (`RequestsInOrder`); frames that are
lost, cut short or left over keep it.  An answer is made of a request that was
carried out and bears the connection its key was agreed on (`AnswersOwn`).  While the
client waits, a channel's request is on the link, its answer is, or neither ever will
be, and the counters of the ends differ accordingly (`CountersMeet`); a key the device
has confirmed is of a past attempt or of the channel it holds (`OneKeyEach`,
`FreshKeys`).  `RequestsAnsweredOnce` and `EndsAgree` follow, with no assumption on
how much is sent or lost.

**`RuntimeServicesProofs`**, of the two services that answer for another task.
`ScreenIInv` (from `ScreenAssumption`): commands are numbered in the order they are
sent and handled in that order, so an acknowledgement that bears the last number says
that no command is left (`LastCommand`, `MatchedNumber`), and the panel keeps what the
UI task made of it; `CodeWhereBelieved` follows.  `ServiceIInv` (from
`ServiceAssumption`): the owner, one job in the network queue or one worker holds the
operation (`OneHolder`), and it is that of the update accepted last (`OwnJob`); the
sequence number is odd exactly while a store is going on (`Counter`), so a reader
that saw it even and unchanged has read the words of one store (`Reading`, `Answer`),
which are those of that update (`WordsTrue`); identifiers are not used twice (`Ids`).
`StatusTrue` follows.  Both assumptions say that no run of the device comes near 2^32
commands or updates.

**Model-checked only**: the liveness properties (`BootsConverge`,
`EverythingExpires`, `OwnerReleases`, `MachineSettles`, `SpeechEnds`, `ReservationEnds`,
`GivenUpCodeLeaves`, `LatestStateIsShown`).  TLAPS handles neither fairness nor
`ENABLED`.  Every safety property and every action property of a passing run is
proved.

## 6. Disagreements found

Each is the counterexample of a run of its own; `PROJECT.json` quotes the lines.

* `migration_orphan`: after a power cut between staging slot A and writing the
  first head, slot A has a marker and no head names it.  Every later load is
  refused, the migration is not retried and the intact legacy record is not used,
  while `tests/test_config_ab_nvs.py` describes a retry.
* `reset_save_race`: a factory reset that meets a preference save gives up before
  its tombstone, with no storage error, and is not resumed at the next boot.
* `reset_stale_connect`: a CONNECT command built from the snapshot before a
  reset, and queued behind it, connects the station with the erased credentials.
* `revoke_leaves_secrets`: the lifecycle's port is to invalidate the connection's
  crypto context; the production port revokes registry and channel and leaves the
  handshake's session in the request handler until a later request or abort.
  `SecretsMatchWindow`, proved, says that what is left cannot be used.
* `stale_reply`: the answer of a device intent is checked against the generation
  and then written without the commit mutex; a press between the two clears the
  dialogue and the old answer appears on it again, while
  `docs/IMPLEMENTATION_PLAN.md` says a new press drops stale results.
  `CommitsAreCurrent` says that every other result is dropped.
* `silent_answer`: an answer of the recogniser whose content is empty is reported as
  a success.  The prompt made of it is refused, which is only logged; nothing is asked
  and the device shows THINKING until the next press or reset, while
  `docs/IMPLEMENTATION_PLAN.md` has a success go on to the chat request and to a
  result.  `MachineSettles` says that every other interaction ends.

## 7. What is abstract or missing

* Configurations are opaque values that passed validation.  The encoding of
  records, the clamp of the token limit and the preference values are left out;
  a preference save is only its hold on the lifecycle lock.
* Connecting is a step with two outcomes.  Driver callbacks, loss of the link
  while running, time synchronisation and lost posted results are left out.
* JSON, hexadecimal and the arithmetic of cryptography are left out: in
  `UsbManagement` a check passes or fails, in `SecureSession` keys and records are
  symbolic.  `UsbManagement` leaves out rate limits, which only refuse frames;
  `SecureSession` has them.
* `WifiOperation` takes atomic accesses to be sequentially consistent.
* `Interaction` has one kind of reply for all the device intents (volume, language,
  profile) and leaves out the wording of views and the memory of earlier turns.
* `AsrRequest` takes each call of the HTTP client to return within its timeout.  A
  cancelled recognition may report OK with an empty text; its generation is stale
  by then, which is why `AsrIsFaithful` excepts it.  An answer cut by the
  connection is parsed like a whole one.  The request for a public audio URL is
  not modelled.
* `ChatRequest`: an event the parser cannot read is skipped, a stream cut by the
  connection is reported OK with what arrived; after an overflow of the carry
  buffer the screen may show a mixture of deltas, with the status BUFFER_TOO_SMALL.
  Classifying an intent is a request of its own and not modelled.
* In `PairingScreen` a failed drawing leaves the old picture or the new one;
  what a half-drawn picture looks like is not modelled.
* Not modelled: the button's gesture filter and the push-to-talk filter, the intent
  controller, the PCM ring and the memory of a conversation (sequential filters
  over small data); the I2S bus, which after a failed configuration keeps channels
  whose sample rate is 0, so that later initialisations are refused; sprites,
  registers and power rails; building of provider requests; the browser's views;
  the host tools.
