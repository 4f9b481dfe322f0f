--------------------------- MODULE MCCloudClients ---------------------------
(* Model checking of the three cloud clients in one run: TtsPlayback,       *)
(* AsrRequest and ChatRequest share no state, so each behaviour is of one   *)
(* of them and leaves the others in one of their initial states.            *)
EXTENDS TtsPlayback, AsrRequest, ChatRequest

VARIABLE client     \* the one that runs

allVars == <<client, playbackVars, asrVars, chatVars>>

Speech(step) == client = "tts" /\ step /\ UNCHANGED <<client, asrVars, chatVars>>
Recognition(step) == client = "asr" /\ step /\ UNCHANGED <<client, playbackVars, chatVars>>
Dialogue(step) == client = "chat" /\ step /\ UNCHANGED <<client, playbackVars, asrVars>>

Init ==
  /\ client \in {"tts", "asr", "chat"}
  /\ PlaybackInit
  /\ AsrInit /\ (client # "asr" => asrEpoch = 1)
  /\ ChatInit
  /\ client # "chat" =>
       /\ chat.stream
       /\ script = [events |-> <<[kind |-> "done", fill |-> 0]>>, separator |-> <<LF, LF>>]

Next == Speech(PlaybackNext) \/ Recognition(AsrNext) \/ Dialogue(ChatNext)

FairSpec ==
  Init /\ [][Next]_allVars /\ WF_allVars(Speech(Producer)) /\ WF_allVars(Speech(Player))

\* Neither the recognition nor the question outlives its interaction: all the
\* calls of a recognition share one time limit, and a cancelled request of
\* either begins at most one more call of the HTTP client, whichever call the
\* cancellation found it in (aiqa_asr_client.c, 256-311; aiqa_chat_client.c,
\* 173-231).
RequestsStopInTime == AsrStopsInTime /\ ChatStopsInTime
=============================================================================
