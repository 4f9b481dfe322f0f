----------------------------- MODULE AsrRequest -----------------------------
(***************************************************************************)
(* Transcribing one recording: aiqa_asr_transcribe_pcm_wav_once_with_epoch *)
(* of components/asr_client/src/aiqa_asr_client.c.  The ASR task uploads   *)
(* the WAV as base64 inside a JSON request whose length it has announced,  *)
(* waits for the answer and parses it; the application task may cancel the *)
(* request by its epoch at any moment; a status request reads the          *)
(* diagnostics, which both tasks write under a lock.                       *)
(*                                                                         *)
(* Time passes in ticks, and only in the calls of the HTTP client, each of *)
(* which is taken to return within the timeout the client was given.  Four *)
(* characters of base64 are one quad, the other parts of the request one   *)
(* unit each.                                                              *)
(***************************************************************************)
EXTENDS Integers, SequencesExt

CONSTANTS
  HeaderBytes,      \* AIQA_ASR_WAV_HEADER_BYTES
  WavSizes,         \* the sizes of a WAV, its header included
  RawChunk,         \* AIQA_ASR_BASE64_RAW_CHUNK_BYTES, a multiple of three
  BodyLimit,        \* AIQA_ASR_HTTP_RESPONSE_MAX_LEN
  TimeLimit,        \* AIQA_ASR_DEFAULT_TIMEOUT_MS
  SocketTimeout,    \* AIQA_ASR_SOCKET_TIMEOUT_MS
  EpochWrap,        \* the number of values of an epoch (2^32)
  MaxRequests,      \* bound: recordings
  MaxCancels        \* bound: new interactions

\* A chunk of the WAV is whole quads, so that padding comes at its end only.
ASSUME WavAssumption ==
  /\ HeaderBytes \in Nat /\ BodyLimit \in Nat /\ WavSizes \subseteq Nat \ {0}
  /\ RawChunk \in Nat \ {0} /\ RawChunk % 3 = 0
ASSUME TimeAssumption ==
  TimeLimit \in Nat /\ SocketTimeout \in Nat /\ SocketTimeout <= TimeLimit

\* No request outlives the epochs: a run of the device has fewer interactions
\* than an epoch has values.
ASSUME EpochAssumption ==
  /\ EpochWrap \in Nat /\ MaxCancels \in Nat /\ MaxRequests \in Nat
  /\ MaxCancels + 2 < EpochWrap

VARIABLES
  asrEpoch,         \* s_request_epoch
  canceller,        \* the task that cancels, and how often it has
  asrDiag,          \* s_diagnostics
  diagLock,         \* is s_diagnostics_lock held by the ASR task
  request,          \* the ASR task's call: where it is, its epoch, ret, status
  wav,              \* the size of its WAV
  upload,           \* the part it sends, what is left of it, the WAV offset
  wire,             \* what the server has received
  answer,           \* the server's answer, and how much of it was read
  clock,            \* ticks since the call, and the timeout of the client
  asrLate,          \* calls of the HTTP client begun after the cancellation
  requests          \* recordings so far

asrVars == <<asrEpoch, canceller, asrDiag, diagLock, request, wav, upload, wire, answer,
             clock, asrLate, requests>>

Least(a, b) == IF a < b THEN a ELSE b

Record(epoch, phase, posted, uploaded) ==
  [epoch |-> epoch, phase |-> phase, posted |-> posted, uploaded |-> uploaded]

NoAnswer == [http |-> "none", size |-> 0, end |-> 0, read |-> 0]

AsrInit ==
  /\ asrEpoch \in {1, EpochWrap - 1}
  /\ canceller = [pc |-> "idle", times |-> 0]
  /\ asrDiag = Record(0, "IDLE", 0, 0) /\ diagLock = FALSE
  /\ request = [pc |-> "done", epoch |-> 0, ret |-> "OK", status |-> "PROVIDER",
                log |-> <<>>, then |-> "done", text |-> FALSE]
  /\ wav = 0 /\ upload = [part |-> "prefix", left |-> <<>>, offset |-> 0]
  /\ wire = <<>> /\ answer = NoAnswer
  /\ clock = [elapsed |-> 0, timeout |-> SocketTimeout]
  /\ asrLate = 0 /\ requests = 0

-----------------------------------------------------------------------------
(* The body of the request *)

Text(name) == [kind |-> "text", raw |-> <<name>>]

\* copy_wav_virtual_chunk: the header, then the samples.
MutVirtualChunk(offset, length) ==
  [i \in 1 .. length |->
     IF offset + i <= HeaderBytes THEN <<"header", offset + i>>
                                  ELSE <<"pcm", offset + i>>]

VirtualChunk(offset, length) ==
  [i \in 1 .. length |->
     IF offset + i <= HeaderBytes THEN <<"header", offset + i>>
                                  ELSE <<"pcm", offset + i - HeaderBytes>>]

\* esp_crypto_base64_encode: a quad for every three bytes, the last padded.
Base64(raw) ==
  [k \in 1 .. (Len(raw) + 2) \div 3 |->
     [kind |-> "quad", raw |-> SubSeq(raw, 3 * k - 2, Least(3 * k, Len(raw)))]]

Bytes(units) == Len(units) + 3 * Cardinality({i \in DOMAIN units : units[i].kind = "quad"})

\* post_len: aiqa_asr_base64_encoded_len, the prefix, the quote and the suffix
PostLength == 4 * ((wav + 2) \div 3) + 3

-----------------------------------------------------------------------------
(* Epoch, time and diagnostics *)

RequestIsCurrent == request.epoch # 0 /\ request.epoch = asrEpoch

TimeIsUp == clock.elapsed >= TimeLimit

\* Every call gets the whole socket timeout.
MutSetTimeout == clock' = [clock EXCEPT !.timeout = SocketTimeout]

\* set_request_timeout: what is left of the limit, but no more than the
\* socket timeout.
SetTimeout ==
  clock' = [clock EXCEPT !.timeout = Least(TimeLimit - clock.elapsed, SocketTimeout)]

\* A call of the HTTP client that takes d ticks.
Call(d) ==
  /\ d \in 0 .. clock.timeout
  /\ clock' = [clock EXCEPT !.elapsed = @ + d]
  /\ asrLate' = asrLate + (IF RequestIsCurrent THEN 0 ELSE 1)

At(pc) == request.pc = pc
Goto(pc) == request' = [request EXCEPT !.pc = pc]

\* Write these records, one after the other, then go on.
LogThen(records, pc) ==
  request' = [request EXCEPT !.pc = "log", !.log = records, !.then = pc]

EndUpload(ret) == request' = [request EXCEPT !.pc = "uploaded", !.ret = ret]

\* read_asr_response returns, having recorded its answer, or without a word.
Answered(records, status) ==
  request' = [request EXCEPT !.pc = "log", !.log = Append(records, "RESPONSE_COMPLETE"),
                             !.then = "done", !.status = status]
Abandoned == request' = [request EXCEPT !.pc = "done", !.status = "PROVIDER"]

\* The first record does not ask for the epoch.
MutMayLog(phase) ==
  phase = "REQUEST_READY" \/ (RequestIsCurrent /\ asrDiag.epoch = request.epoch)

\* What the writers of the diagnostics ask inside the lock.
MayLog(phase) ==
  RequestIsCurrent /\ (phase = "REQUEST_READY" \/ asrDiag.epoch = request.epoch)

AsrFrame == UNCHANGED <<asrEpoch, canceller, wav, requests>>

\* The lock is taken and the epoch looked at ...
EnterLog ==
  /\ At("log") /\ ~diagLock
  /\ IF request.log = <<>> THEN Goto(request.then) /\ UNCHANGED diagLock
     ELSE IF MayLog(Head(request.log)) THEN Goto("logging") /\ diagLock' = TRUE
     ELSE request' = [request EXCEPT !.log = Tail(@)] /\ UNCHANGED diagLock
  /\ AsrFrame /\ UNCHANGED <<asrDiag, upload, wire, answer, clock, asrLate>>

\* ... and the record is written, whatever became of the epoch meanwhile.
WriteLog ==
  /\ At("logging")
  /\ LET phase == Head(request.log) IN
     asrDiag' = CASE phase = "REQUEST_READY" -> Record(request.epoch, phase, PostLength, 0)
                  [] phase \in {"UPLOAD_COMPLETE", "UPLOAD_FAILED"} ->
                       [asrDiag EXCEPT !.phase = phase, !.uploaded = Bytes(wire)]
                  [] OTHER -> [asrDiag EXCEPT !.phase = phase]
  /\ diagLock' = FALSE
  /\ request' = [request EXCEPT !.pc = "log", !.log = Tail(@)]
  /\ AsrFrame /\ UNCHANGED <<upload, wire, answer, clock, asrLate>>

\* The application task cancels: the epoch first, which skips 0 ...
CancelAsr ==
  /\ \/ /\ canceller.pc = "idle" /\ canceller.times < MaxCancels
        /\ asrEpoch' = (asrEpoch + 1) % EpochWrap
        /\ canceller' = [pc |-> IF asrEpoch' = 0 THEN "restore" ELSE "clear",
                         times |-> canceller.times + 1]
     \/ /\ canceller.pc = "restore"
        /\ asrEpoch' = 1 /\ canceller' = [canceller EXCEPT !.pc = "clear"]
  /\ UNCHANGED <<asrDiag, diagLock, request, wav, upload, wire, answer, clock, asrLate,
                 requests>>

\* ... the diagnostics after it.
ClearDiagnostics ==
  /\ canceller.pc = "clear" /\ ~diagLock
  /\ asrDiag' = Record(asrEpoch, "IDLE", 0, 0)
  /\ canceller' = [canceller EXCEPT !.pc = "idle"]
  /\ UNCHANGED <<asrEpoch, diagLock, request, wav, upload, wire, answer, clock, asrLate,
                 requests>>

-----------------------------------------------------------------------------
(* The upload *)

UploadFrame == AsrFrame /\ UNCHANGED <<asrDiag, diagLock, answer>>
Waiting == UNCHANGED <<clock, asrLate, wire>>

\* A recording is queued with the epoch of that moment.  One queued while a
\* new interaction cancels is of an earlier generation: the ASR task drops it.
QueueRecording ==
  /\ At("done") /\ canceller.pc = "idle" /\ requests < MaxRequests
  /\ requests' = requests + 1
  /\ \E w \in WavSizes : wav' = w
  /\ request' = [pc |-> "start", epoch |-> asrEpoch, ret |-> "OK", status |-> "PROVIDER",
                 log |-> <<>>, then |-> "done", text |-> FALSE]
  /\ upload' = [part |-> "prefix", left |-> <<Text("prefix")>>, offset |-> 0]
  /\ wire' = <<>> /\ answer' = NoAnswer
  /\ clock' = [elapsed |-> 0, timeout |-> SocketTimeout] /\ asrLate' = 0
  /\ UNCHANGED <<asrEpoch, canceller, asrDiag, diagLock>>

\* A request that cannot be built, or for which there is no memory, ends.
StartRequest ==
  /\ At("start")
  /\ \/ \E pc \in {"open", "done"} : LogThen(<<"REQUEST_READY">>, pc)
     \/ Abandoned
  /\ UploadFrame /\ Waiting /\ UNCHANGED upload

OpenConnection ==
  /\ \/ At("open") /\ (IF RequestIsCurrent THEN Goto("opening") ELSE EndUpload("INVALID_STATE"))
        /\ Waiting
     \/ At("opening") /\ (\E d \in 0 .. SocketTimeout : Call(d)) /\ UNCHANGED wire
        /\ (Goto("opened") \/ EndUpload("FAIL"))
     \/ At("opened") /\ (IF RequestIsCurrent THEN Goto("write") ELSE EndUpload("INVALID_STATE"))
        /\ Waiting
  /\ UploadFrame /\ UNCHANGED upload

\* The head of the loop of write_all.
PrepareWrite ==
  /\ At("write")
  /\ IF upload.left = <<>> THEN Goto("next") /\ UNCHANGED clock
     ELSE IF ~RequestIsCurrent THEN EndUpload("INVALID_STATE") /\ UNCHANGED clock
     ELSE IF TimeIsUp THEN EndUpload("TIMEOUT") /\ UNCHANGED clock
     ELSE SetTimeout /\ Goto("writing")
  /\ UploadFrame /\ UNCHANGED <<upload, wire, asrLate>>

\* esp_http_client_write: some of the units, none in time, or an error.
Write ==
  /\ At("writing")
  /\ \/ \E n \in 1 .. Len(upload.left), d \in 0 .. clock.timeout :
          /\ Call(d) /\ Goto("write")
          /\ wire' = wire \o SubSeq(upload.left, 1, n)
          /\ upload' = [upload EXCEPT !.left = SubSeq(@, n + 1, Len(@))]
     \/ Call(clock.timeout) /\ EndUpload("TIMEOUT") /\ UNCHANGED <<wire, upload>>
     \/ \E d \in 0 .. clock.timeout : Call(d) /\ EndUpload("FAIL") /\ UNCHANGED <<wire, upload>>
  /\ UploadFrame

Send(part, units, offset) ==
  Goto("write") /\ upload' = [part |-> part, left |-> units, offset |-> offset]

\* What follows the part that is written: the next chunk of the WAV, the
\* quote that closes it, the suffix, or the end.
NextPart ==
  /\ At("next")
  /\ CASE upload.part \in {"prefix", "audio"} /\ ~RequestIsCurrent ->
            EndUpload("INVALID_STATE") /\ UNCHANGED upload
       [] upload.part \in {"prefix", "audio"} /\ RequestIsCurrent /\ upload.offset < wav ->
            LET length == Least(wav - upload.offset, RawChunk) IN
            Send("audio", Base64(VirtualChunk(upload.offset, length)),
                 upload.offset + length)
       [] upload.part \in {"prefix", "audio"} /\ RequestIsCurrent /\ upload.offset >= wav ->
            Send("quote", <<Text("quote")>>, upload.offset)
       [] upload.part = "quote" -> Send("suffix", <<Text("suffix")>>, upload.offset)
       [] upload.part = "suffix" -> EndUpload("OK") /\ UNCHANGED upload
  /\ UploadFrame /\ Waiting

\* The socket's errno makes any failure a timeout.
EndOfUpload ==
  /\ At("uploaded")
  /\ \E ret \in {request.ret} \cup (IF request.ret = "OK" THEN {} ELSE {"TIMEOUT"}) :
       request' = [request EXCEPT
         !.pc = "log", !.then = "turn", !.ret = ret,
         !.log = <<IF ret = "OK" THEN "UPLOAD_COMPLETE" ELSE "UPLOAD_FAILED">>]
  /\ UploadFrame /\ Waiting /\ UNCHANGED upload

-----------------------------------------------------------------------------
(* The answer *)

AnswerFrame == AsrFrame /\ UNCHANGED <<asrDiag, diagLock, upload, wire>>

\* status_from_transport
Transported(ret) ==
  CASE ret \in {"OK", "TIMEOUT"} -> ret
    [] OTHER -> "PROVIDER"

\* The answer of a failed upload is awaited too.
MutAwaitAnswer ==
  /\ \/ /\ At("turn")
        /\ IF request.ret # "OK" \/ ~RequestIsCurrent THEN Goto("ask") /\ UNCHANGED clock
           ELSE IF TimeIsUp
           THEN request' = [request EXCEPT !.pc = "ask", !.ret = "TIMEOUT"] /\ UNCHANGED clock
           ELSE SetTimeout /\ Goto("ask")
     \/ /\ At("ask") /\ UNCHANGED clock
        /\ IF RequestIsCurrent THEN Goto("read")
           ELSE request' = [request EXCEPT !.pc = "done", !.status = Transported(request.ret)]
  /\ AnswerFrame /\ UNCHANGED <<answer, asrLate>>

\* After the upload: a new timeout, then the answer.  The epoch is asked
\* each time, and a request cancelled here ends with the status of its ret.
AwaitAnswer ==
  /\ \/ /\ At("turn")
        /\ IF request.ret # "OK" \/ ~RequestIsCurrent THEN Goto("ask") /\ UNCHANGED clock
           ELSE IF TimeIsUp
           THEN request' = [request EXCEPT !.pc = "ask", !.ret = "TIMEOUT"] /\ UNCHANGED clock
           ELSE SetTimeout /\ Goto("ask")
     \/ /\ At("ask") /\ UNCHANGED clock
        /\ IF request.ret = "OK" /\ RequestIsCurrent THEN Goto("read")
           ELSE request' = [request EXCEPT !.pc = "done", !.status = Transported(request.ret)]
  /\ AnswerFrame /\ UNCHANGED <<answer, asrLate>>

\* read_asr_response up to its first call
BeginAnswer ==
  /\ At("read")
  /\ IF ~RequestIsCurrent THEN Abandoned /\ UNCHANGED clock
     ELSE IF TimeIsUp THEN Answered(<<>>, "TIMEOUT") /\ UNCHANGED clock
     ELSE SetTimeout /\ LogThen(<<"WAITING_HEADERS">>, "fetch")
  /\ AnswerFrame /\ UNCHANGED <<answer, asrLate>>

\* esp_http_client_fetch_headers.  The server answers with any status and a
\* body in which the transcript, if there is one, ends somewhere.  A chunked
\* answer announces no length.
FetchHeaders ==
  /\ At("fetch")
  /\ \/ /\ Call(clock.timeout)
        /\ Answered(<<"WAITING_HEADERS">>, "TIMEOUT") /\ UNCHANGED answer
     \/ \E d \in 0 .. clock.timeout :
          /\ Call(d)
          /\ \/ Answered(<<"WAITING_HEADERS">>, "PROVIDER") /\ UNCHANGED answer
             \/ \E http \in {"OK", "AUTH"}, size \in 0 .. BodyLimit + 1, chunked \in BOOLEAN :
                \E end \in 0 .. size :
                  /\ answer' = [http |-> http, size |-> size, end |-> end, read |-> 0]
                  /\ IF ~chunked /\ size >= BodyLimit
                     THEN Answered(<<"WAITING_HEADERS">>, "BUFFER_TOO_SMALL")
                     ELSE LogThen(<<"WAITING_HEADERS">>, "body")
  /\ AnswerFrame

\* The head of the loop that reads the body.
PrepareRead ==
  /\ At("body")
  /\ IF answer.read + 1 >= BodyLimit THEN Goto("parse") /\ UNCHANGED clock
     ELSE IF ~RequestIsCurrent THEN Abandoned /\ UNCHANGED clock
     ELSE IF TimeIsUp THEN Answered(<<>>, "TIMEOUT") /\ UNCHANGED clock
     ELSE SetTimeout /\ Goto("reading")
  /\ AnswerFrame /\ UNCHANGED <<answer, asrLate>>

\* esp_http_client_read: some of the body, its end or the connection's, no
\* byte in time, or an error.
Read ==
  /\ At("reading")
  /\ \/ \E n \in 1 .. Least(answer.size, BodyLimit - 1) - answer.read, d \in 0 .. clock.timeout :
          Call(d) /\ Goto("body") /\ answer' = [answer EXCEPT !.read = @ + n]
     \/ \E d \in 0 .. clock.timeout : Call(d) /\ Goto("parse") /\ UNCHANGED answer
     \/ Call(clock.timeout) /\ Answered(<<>>, "TIMEOUT") /\ UNCHANGED answer
     \/ \E d \in 0 .. clock.timeout : Call(d) /\ Answered(<<>>, "PROVIDER") /\ UNCHANGED answer
  /\ AnswerFrame

\* What the body amounts to.  A body cut by the end of the connection is
\* parsed like a whole one.
ParseAnswer ==
  /\ At("parse")
  /\ LET parsed == answer.end \in 1 .. answer.read
         status == IF answer.read + 1 = BodyLimit /\ answer.read < answer.size
                   THEN "BUFFER_TOO_SMALL"
                   ELSE IF answer.http = "OK" /\ ~parsed THEN "PARSE" ELSE answer.http
     IN request' = [request EXCEPT !.pc = "log", !.log = <<"RESPONSE_COMPLETE">>,
                                   !.then = "done", !.status = status,
                                   !.text = (status = "OK")]
  /\ AnswerFrame /\ UNCHANGED <<answer, clock, asrLate>>

-----------------------------------------------------------------------------

AsrTask ==
  \/ StartRequest \/ OpenConnection \/ PrepareWrite \/ Write \/ NextPart \/ EndOfUpload
  \/ AwaitAnswer \/ BeginAnswer \/ FetchHeaders \/ PrepareRead \/ Read \/ ParseAnswer
  \/ EnterLog \/ WriteLog

AsrNext == QueueRecording \/ AsrTask \/ CancelAsr \/ ClearDiagnostics

AsrSpec == AsrInit /\ [][AsrNext]_asrVars

-----------------------------------------------------------------------------
(* Properties *)

AwaitsAnswer == request.pc \in {"read", "fetch", "body", "reading", "parse"}

\* The byte of the WAV at this position: the header, then the samples.
WavByte(i) == IF i <= HeaderBytes THEN <<"header", i>> ELSE <<"pcm", i - HeaderBytes>>

\* A quad holds three bytes of the WAV, the last one what is left.
WavQuads == (wav + 2) \div 3
WavQuad(k) ==
  [kind |-> "quad", raw |-> [j \in 1 .. Least(3, wav - 3 * (k - 1)) |-> WavByte(3 * (k - 1) + j)]]

\* The request: the prefix, the WAV, the quote and the suffix.
RequestUnit(n) ==
  IF n = 1 THEN Text("prefix")
  ELSE IF n <= WavQuads + 1 THEN WavQuad(n - 1)
  ELSE IF n = WavQuads + 2 THEN Text("quote") ELSE Text("suffix")

\* However the writes are cut, the request is as long as it announced and
\* holds the whole recording once.
UploadIsWhole ==
  /\ Bytes(wire) = PostLength
  /\ wire = [n \in 1 .. WavQuads + 3 |-> RequestUnit(n)]

\* The server is asked for an answer only to the whole recording, and OK means
\* a transcript it sent, unless a new interaction has cancelled the request
\* meanwhile (aiqa_asr_client.c, 798-897).
AsrIsFaithful ==
  /\ AwaitsAnswer => UploadIsWhole
  /\ At("done") /\ request.status = "OK" => request.text \/ ~RequestIsCurrent
  /\ request.text => answer.end \in 1 .. answer.read

\* The diagnostics a status request reads are those of the current
\* interaction, however late the request of an earlier one writes its own, and
\* never claim an upload that was not whole (aiqa_asr_client.c, 53-133, 158-171).
DiagnosticsAreCurrent ==
  canceller.pc = "idle" =>
    /\ asrDiag.epoch \in {0, asrEpoch}
    /\ asrDiag.phase \in {"UPLOAD_COMPLETE", "WAITING_HEADERS", "RESPONSE_COMPLETE"}
         => asrDiag.uploaded = asrDiag.posted /\ asrDiag.posted > 0

\* All the calls of one request share its time limit, and once it is
\* cancelled it begins at most one of them (aiqa_asr_client.c, 256-311, 399-439).
AsrStopsInTime == clock.elapsed <= TimeLimit /\ asrLate <= 1
=============================================================================
