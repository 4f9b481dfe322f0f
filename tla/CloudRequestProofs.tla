------------------------- MODULE CloudRequestProofs -------------------------
(***************************************************************************)
(* The requests to the cloud, for every WAV, every way their bytes are cut *)
(* into writes and reads, every time limit and every number of recordings  *)
(* and cancellations.  AsrInductive is an inductive invariant of           *)
(* AsrRequest: the server is asked for an answer only to the whole         *)
(* recording, the diagnostics are those of the current interaction, and a  *)
(* request ends in time.                                                   *)
(*                                                                         *)
(* Of ChatRequest two are proved: ChatStopInv, that a cancelled question   *)
(* ends in time, and ChatAnswerInv, that the answer is what the events     *)
(* that have arrived say, for every way the chunks cut them.  The second   *)
(* is an induction over the events; it rests on the least element of a set *)
(* of numbers, from which recursive functions and folds are shown to obey  *)
(* their equations.                                                        *)
(***************************************************************************)
EXTENDS MCCloudClients, FiniteSetTheorems, SequenceTheorems, WellFoundedInduction, TLAPS

-----------------------------------------------------------------------------
(* The invariant, part by part *)

\* The point of the call, whatever is being recorded on the way there.
Point == IF request.pc \in {"log", "logging"} THEN request.then ELSE request.pc

Calling == {"opening", "writing", "fetch", "reading"}
Awaiting == {"read", "fetch", "body", "reading", "parse"}
Uploading == {"start", "open", "opening", "opened", "write", "writing", "next"}
Points == Uploading \cup Awaiting \cup {"uploaded", "turn", "ask", "done"}

Ready    == <<"REQUEST_READY">>
Complete == <<"UPLOAD_COMPLETE">>
Failed   == <<"UPLOAD_FAILED">>
Awaited  == <<"WAITING_HEADERS">>
Respond  == <<"RESPONSE_COMPLETE">>
Both     == <<"WAITING_HEADERS", "RESPONSE_COMPLETE">>

Responses == {Awaited, Both, Respond}
Uploads   == {Complete, Failed}
Logs == {<<>>, Ready} \cup Responses \cup Uploads

Returns  == {"OK", "INVALID_STATE", "FAIL", "TIMEOUT"}
Statuses == {"OK", "TIMEOUT", "PROVIDER", "BUFFER_TOO_SMALL", "PARSE", "AUTH"}
Epochs   == 0 .. EpochWrap - 1

RequestTyped ==
  request \in [pc : Points \cup {"log", "logging"}, epoch : Epochs, ret : Returns,
               status : Statuses, log : Logs, then : Points, text : BOOLEAN]

\* What is recorded at each point of the call.
LogShape ==
  /\ request.pc \notin {"log", "logging"} => request.log = <<>>
  /\ request.pc = "logging" => request.log # <<>>
  /\ request.log = Ready => request.then \in {"open", "done"}
  /\ request.log \in Uploads => request.then = "turn"
  /\ request.log = Complete <=> request.log \in Uploads /\ request.ret = "OK"
  /\ request.log = Awaited => request.then \in {"fetch", "body"}
  /\ request.log \in Responses \ {Awaited} => request.then = "done"

AnswerShape ==
  /\ answer \in [http : {"none", "OK", "AUTH"}, size : Nat, end : Nat, read : Nat]
  /\ Point \in {"body", "reading", "parse"} => answer.http \in {"OK", "AUTH"}

Parts == {"prefix", "audio", "quote", "suffix"}

UploadTyped ==
  /\ wav \in Nat /\ upload.part \in Parts /\ upload.offset \in Nat
  /\ upload = [part |-> upload.part, left |-> upload.left, offset |-> upload.offset]

CallInv == RequestTyped /\ LogShape /\ AnswerShape /\ UploadTyped

-----------------------------------------------------------------------------
\* The epochs.

\* A run of the device has fewer interactions than an epoch has values, so no
\* epoch comes back: those from which it may start, the last and 1, included.
Rank(e) == IF e = EpochWrap - 1 THEN -1 ELSE e

\* An epoch is 0 only while the canceller skips 0, a request has one of those
\* there were, and while the canceller is at work no request is current.
EpochInv ==
  /\ asrEpoch \in Epochs
  /\ canceller \in [pc : {"idle", "restore", "clear"}, times : 0 .. MaxCancels]
  /\ Rank(asrEpoch) <= canceller.times + 1
  /\ asrEpoch = 0 <=> canceller.pc = "restore"
  /\ request.epoch = 0 \/ Rank(request.epoch) <= Rank(asrEpoch)
  /\ canceller.pc # "idle" => ~RequestIsCurrent

-----------------------------------------------------------------------------
\* The upload.

UnitsOfRequest == {RequestUnit(n) : n \in Nat}

\* The units of the parts begun so far.
Begun ==
  CASE upload.part = "prefix" -> 1
    [] upload.part = "audio"  -> 1 + (upload.offset + 2) \div 3
    [] upload.part = "quote"  -> WavQuads + 2
    [] upload.part = "suffix" -> WavQuads + 3

OffsetShape ==
  /\ upload.offset \in 0 .. wav
  /\ upload.part = "prefix" => upload.offset = 0
  /\ upload.part = "audio" => upload.offset = wav \/ upload.offset % 3 = 0
  /\ upload.part \in {"quote", "suffix"} => upload.offset = wav

AllSent == upload.part = "suffix" /\ upload.left = <<>>

\* Past the upload, of which the server is asked for an answer only if all of
\* it was sent.
Sent ==
  \/ request.log \in {Complete} \cup Responses
  \/ Point \in Awaiting
  \/ Point \in {"uploaded", "turn", "ask"} /\ request.ret = "OK"

\* What was sent and what is left of the parts begun is the request, in order.
BodyInv ==
  request.pc # "done" =>
    /\ wav \in WavSizes /\ OffsetShape
    /\ wire \in Seq(UnitsOfRequest) /\ upload.left \in Seq(UnitsOfRequest)
    /\ Len(wire) + Len(upload.left) = Begun
    /\ \A n \in 1 .. Len(wire) : wire[n] = RequestUnit(n)
    /\ \A n \in 1 .. Len(upload.left) : upload.left[n] = RequestUnit(Len(wire) + n)

\* Part by part, and what the end of the upload amounts to.
StageInv ==
  request.pc # "done" =>
    /\ Point = "next" => upload.left = <<>>
    /\ Sent => AllSent
    /\ Point \in Awaiting \/ request.log \in Responses => request.ret = "OK"

UploadInv == BodyInv /\ StageInv

-----------------------------------------------------------------------------
\* The answer.

\* OK is the status of a parsed transcript, or of a request that was cancelled
\* before its answer was read.
AnswerInv ==
  /\ request.status = "OK" => request.text \/ ~RequestIsCurrent
  /\ request.text => answer.end \in 1 .. answer.read
  /\ Point # "done" => request.status = "PROVIDER" /\ ~request.text

-----------------------------------------------------------------------------
\* The diagnostics.

Late == {"UPLOAD_COMPLETE", "WAITING_HEADERS", "RESPONSE_COMPLETE"}
Phases == Late \cup {"IDLE", "REQUEST_READY", "UPLOAD_FAILED"}

DiagShape ==
  /\ asrDiag \in [epoch : Epochs, phase : Phases, posted : Nat, uploaded : Nat]
  /\ asrDiag.phase \in Late => asrDiag.uploaded = asrDiag.posted /\ asrDiag.posted > 0
  /\ diagLock <=> request.pc = "logging"

\* Records the call has made.
Reported == request.pc # "done" /\ Point # "start" /\ request.log # Ready
Completed == \/ Point \in Awaiting \/ request.log \in Responses
             \/ Point \in {"turn", "ask"} /\ request.ret = "OK" /\ request.log = <<>>

\* The diagnostics are those of this request.
Own ==
  /\ asrDiag.epoch = request.epoch /\ asrDiag.posted = PostLength
  /\ Completed => asrDiag.uploaded = asrDiag.posted

\* A current request that has made a record finds it unharmed; one that is about
\* to write has found it so when it took the lock, and what it may have lost
\* meanwhile is its epoch only, after which the canceller waits for the lock.
DiagInv ==
  /\ DiagShape
  /\ canceller.pc = "idle" => asrDiag.epoch \in {0, asrEpoch}
  /\ Reported /\ RequestIsCurrent /\ (Point # "done" \/ request.log # <<>>) => Own
  /\ request.pc = "logging" => request.log = Ready \/ Own
  /\ request.pc = "logging" /\ canceller.pc = "idle" => RequestIsCurrent

-----------------------------------------------------------------------------
\* Time.

\* No call of the client is begun with more time than is left, nor by a request
\* that was known to be cancelled.
StopInv ==
  /\ clock \in [elapsed : Nat, timeout : Nat] /\ clock.elapsed <= TimeLimit
  /\ Point \in {"start", "open", "opening"} =>
       clock = [elapsed |-> 0, timeout |-> SocketTimeout]
  /\ Point \in Calling => clock.elapsed + clock.timeout <= TimeLimit
  /\ asrLate \in {0, 1}
  /\ Point \in {"start", "open"} \cup Calling => asrLate = 0
  /\ asrLate = 1 => ~RequestIsCurrent

-----------------------------------------------------------------------------
\* How a step changes the call, field by field.

Moved(pc, ret, verdict, log, then, heard) ==
  request' = [pc |-> pc, epoch |-> request.epoch, ret |-> ret, status |-> verdict, log |-> log,
              then |-> then, text |-> heard]

Goes(pc)     == Moved(pc, request.ret, request.status, request.log, request.then, request.text)
Ends(ret)    == Moved("uploaded", ret, request.status, request.log, request.then, request.text)
Logged(l, t) == Moved("log", request.ret, request.status, l, t, request.text)
Says(l, s)   == Moved("log", request.ret, s, l, "done", request.text)
Over(s)      == Moved("done", request.ret, s, request.log, request.then, request.text)

\* A second record goes behind the first.
LEMMA TwoRecords == \A p, q : Append(<<p>>, q) = <<p, q>>
<1>. TAKE p, q
<1>1. <<p>> \in Seq({p, q}) /\ <<p, q>> \in Seq({p, q}) /\ q \in {p, q}
  OBVIOUS
<1>2. Append(<<p>>, q) \in Seq({p, q}) /\ Len(Append(<<p>>, q)) = 2
      /\ Append(<<p>>, q)[1] = p /\ Append(<<p>>, q)[2] = q
  BY <1>1, AppendProperties
<1>3. \A i \in 1 .. 2 : Append(<<p>>, q)[i] = <<p, q>>[i]
  BY <1>2
<1>. QED  BY <1>1, <1>2, <1>3, SeqEqual

\* Lists of records are told apart, and taken apart.
LEMMA Records ==
  /\ \A p : <<p>> # <<>> /\ Head(<<p>>) = p /\ Tail(<<p>>) = <<>>
  /\ \A p, q : <<p, q>> # <<>> /\ Head(<<p, q>>) = p /\ Tail(<<p, q>>) = <<q>>
  /\ \A p, q : <<p>> = <<q>> => p = q
  /\ \A p, q, r : <<p>> # <<q, r>>
  /\ \A p : Append(<<>>, p) = <<p>>
OBVIOUS

\* No two of the lists the call records are the same.
LEMMA RecordsDiffer ==
  /\ <<>> \notin {Ready, Complete, Failed, Awaited, Respond, Both}
  /\ Ready \notin {Complete, Failed, Awaited, Respond, Both}
  /\ Complete \notin {Failed, Awaited, Respond, Both}
  /\ Failed \notin {Awaited, Respond, Both}
  /\ Awaited \notin {Respond, Both} /\ Respond # Both
<1>1. \A p, q \in {"REQUEST_READY", "UPLOAD_COMPLETE", "UPLOAD_FAILED", "WAITING_HEADERS",
                   "RESPONSE_COMPLETE"} :
        <<p>> # <<>> /\ (p # q => <<p>> # <<q>>) /\ <<p>> # Both
  BY Records DEF Both
<1>. QED  BY <1>1, Records DEF Ready, Complete, Failed, Awaited, Respond, Both

\* What each of them begins with, and what is left behind it.
LEMMA RecordsTaken ==
  /\ Head(Ready) = "REQUEST_READY" /\ Tail(Ready) = <<>>
  /\ Head(Complete) = "UPLOAD_COMPLETE" /\ Tail(Complete) = <<>>
  /\ Head(Failed) = "UPLOAD_FAILED" /\ Tail(Failed) = <<>>
  /\ Head(Awaited) = "WAITING_HEADERS" /\ Tail(Awaited) = <<>>
  /\ Head(Respond) = "RESPONSE_COMPLETE" /\ Tail(Respond) = <<>>
  /\ Head(Both) = "WAITING_HEADERS" /\ Tail(Both) = Respond
BY Records DEF Ready, Complete, Failed, Awaited, Respond, Both

LEMMA TailOfLog ==
  ASSUME NEW l \in Logs, l # <<>>
  PROVE  Tail(l) = <<>> \/ (Tail(l) = Respond /\ l = Both)
<1>1. l \in {Ready, Complete, Failed, Awaited, Respond, Both}
  BY DEF Logs, Uploads, Responses
<1>2. \A m \in {Ready, Complete, Failed, Awaited, Respond} : Tail(m) = <<>>
  BY RecordsTaken
<1>3. Tail(Both) = Respond
  BY RecordsTaken
<1>. HIDE DEF Ready, Complete, Failed, Awaited, Respond, Both
<1>. QED  BY <1>1, <1>2, <1>3

\* The operators that change the call, in terms of Moved.
LEMMA Writers ==
  ASSUME RequestTyped
  PROVE  /\ \A pc : Goto(pc) => Goes(pc)
         /\ \A ret : EndUpload(ret) => Ends(ret)
         /\ \A l, t : LogThen(l, t) => Logged(l, t)
         /\ \A s : Answered(<<>>, s) => Says(Respond, s)
         /\ \A s : Answered(<<"WAITING_HEADERS">>, s) => Says(Both, s)
         /\ Abandoned => Over("PROVIDER")
<1>1. \A pc : Goto(pc) => Goes(pc)
  BY DEF RequestTyped, Goto, Goes, Moved
<1>2. \A ret : EndUpload(ret) => Ends(ret)
  BY DEF RequestTyped, EndUpload, Ends, Moved
<1>3. \A l, t : LogThen(l, t) => Logged(l, t)
  BY DEF RequestTyped, LogThen, Logged, Moved
<1>4. \A l, s : Answered(l, s) => Says(Append(l, "RESPONSE_COMPLETE"), s)
  BY DEF RequestTyped, Answered, Says, Moved
<1>5. Abandoned => Over("PROVIDER")
  BY DEF RequestTyped, Abandoned, Over, Moved
<1>6. /\ Append(<<>>, "RESPONSE_COMPLETE") = Respond
      /\ Append(<<"WAITING_HEADERS">>, "RESPONSE_COMPLETE") = Both
  BY TwoRecords DEF Respond, Both
<1>7. \A s : Answered(<<>>, s) => Says(Respond, s)
  <2>. TAKE s
  <2>1. Answered(<<>>, s) => Says(Append(<<>>, "RESPONSE_COMPLETE"), s)
    BY <1>4
  <2>. QED  BY <2>1, <1>6
<1>8. \A s : Answered(<<"WAITING_HEADERS">>, s) => Says(Both, s)
  <2>. TAKE s
  <2>1. Answered(<<"WAITING_HEADERS">>, s)
          => Says(Append(<<"WAITING_HEADERS">>, "RESPONSE_COMPLETE"), s)
    BY <1>4
  <2>. QED  BY <2>1, <1>6
<1>. QED  BY <1>1, <1>2, <1>3, <1>5, <1>7, <1>8

\* The calls of the task that write no record.
LEMMA StartMoves ==
  ASSUME RequestTyped, StartRequest
  PROVE  At("start") /\ (Over("PROVIDER") \/ \E pc \in {"open", "done"} : Logged(Ready, pc))
BY Writers DEF StartRequest, Ready

LEMMA OpenMoves ==
  ASSUME RequestTyped, OpenConnection
  PROVE  \/ At("open") /\ ((RequestIsCurrent /\ Goes("opening")) \/ Ends("INVALID_STATE"))
         \/ At("opening") /\ (Goes("opened") \/ Ends("FAIL"))
         \/ At("opened") /\ ((RequestIsCurrent /\ Goes("write")) \/ Ends("INVALID_STATE"))
BY Writers DEF OpenConnection

LEMMA PrepareMoves ==
  ASSUME RequestTyped, PrepareWrite
  PROVE  At("write") /\ \/ upload.left = <<>> /\ Goes("next")
                        \/ RequestIsCurrent /\ Goes("writing")
                        \/ \E ret \in {"INVALID_STATE", "TIMEOUT"} : Ends(ret)
BY Writers DEF PrepareWrite

LEMMA WriteMoves ==
  ASSUME RequestTyped, Write
  PROVE  At("writing") /\ (Goes("write") \/ \E ret \in {"TIMEOUT", "FAIL"} : Ends(ret))
BY Writers DEF Write

\* The five cases of NextPart.
WavLeft == upload.part \in {"prefix", "audio"} /\ RequestIsCurrent /\ upload.offset < wav
SendChunk ==
  LET length == Least(wav - upload.offset, RawChunk)
  IN Send("audio", Base64(VirtualChunk(upload.offset, length)), upload.offset + length)

LEMMA NextCases ==
  ASSUME upload.part \in {"prefix", "audio", "quote", "suffix"},
         upload.offset \in Nat, wav \in Nat, NextPart
  PROVE  /\ At("next") /\ UNCHANGED wav
         /\ \/ WavLeft /\ SendChunk
            \/ /\ upload.part \in {"prefix", "audio"} /\ RequestIsCurrent /\ upload.offset >= wav
               /\ Send("quote", <<Text("quote")>>, upload.offset)
            \/ upload.part = "quote" /\ Send("suffix", <<Text("suffix")>>, upload.offset)
            \/ upload.part # "suffix" /\ EndUpload("INVALID_STATE") /\ UNCHANGED upload
            \/ upload.part = "suffix" /\ EndUpload("OK") /\ UNCHANGED upload
<1>0. At("next") /\ UNCHANGED wav
  BY DEF NextPart, UploadFrame, AsrFrame
<1>1. CASE upload.part = "suffix"
  BY <1>0, <1>1 DEF NextPart
<1>2. CASE upload.part = "quote"
  BY <1>0, <1>2 DEF NextPart
<1>3. CASE upload.part \in {"prefix", "audio"} /\ ~RequestIsCurrent
  BY <1>0, <1>3 DEF NextPart
<1>4. CASE WavLeft
  BY <1>0, <1>4 DEF NextPart, WavLeft, SendChunk
<1>5. CASE upload.part \in {"prefix", "audio"} /\ RequestIsCurrent /\ ~(upload.offset < wav)
  <2>1. upload.offset >= wav
    BY <1>5
  <2>. QED  BY <1>0, <1>5, <2>1 DEF NextPart
<1>. QED  BY <1>1, <1>2, <1>3, <1>4, <1>5 DEF WavLeft

LEMMA NextMoves ==
  ASSUME RequestTyped, UploadTyped, NextPart
  PROVE  At("next") /\ \/ Goes("write") /\ upload.part # "suffix"
                       \/ Ends("INVALID_STATE") /\ UNCHANGED upload
                       \/ upload.part = "suffix" /\ Ends("OK") /\ UNCHANGED upload
<1>1. upload.part \in {"prefix", "audio", "quote", "suffix"} /\ upload.offset \in Nat /\ wav \in Nat
  BY DEF UploadTyped, Parts
<1>2. \A p, l, o : Send(p, l, o) => Goes("write")
  BY Writers DEF Send
<1>. QED  BY <1>1, <1>2, NextCases, Writers DEF WavLeft, SendChunk

LEMMA EndMoves ==
  ASSUME RequestTyped, EndOfUpload
  PROVE  /\ At("uploaded")
         /\ \/ /\ request.ret = "OK"
               /\ Moved("log", "OK", request.status, Complete, "turn", request.text)
            \/ \E ret \in {request.ret, "TIMEOUT"} \ {"OK"} :
                 Moved("log", ret, request.status, Failed, "turn", request.text)
BY DEF EndOfUpload, RequestTyped, Moved, Complete, Failed

LEMMA AwaitMoves ==
  ASSUME RequestTyped, AwaitAnswer
  PROVE  \/ /\ At("turn")
            /\ \/ Goes("ask")
               \/ Moved("ask", "TIMEOUT", request.status, request.log, request.then, request.text)
         \/ /\ At("ask") /\ request.ret = "OK" /\ RequestIsCurrent /\ Goes("read")
         \/ /\ At("ask") /\ ~(request.ret = "OK" /\ RequestIsCurrent)
            /\ Over(Transported(request.ret))
<1>1. CASE At("turn")
  <2>1. Goto("ask") \/ request' = [request EXCEPT !.pc = "ask", !.ret = "TIMEOUT"]
    BY <1>1 DEF AwaitAnswer, At
  <2>. QED  BY <1>1, <2>1, Writers DEF RequestTyped, Moved
<1>2. CASE At("ask")
  <2>1. IF request.ret = "OK" /\ RequestIsCurrent THEN Goto("read")
        ELSE request' = [request EXCEPT !.pc = "done", !.status = Transported(request.ret)]
    BY <1>2 DEF AwaitAnswer, At
  <2>. QED  BY <1>2, <2>1, Writers DEF RequestTyped, Moved, Over
<1>. QED  BY <1>1, <1>2 DEF AwaitAnswer

LEMMA BeginMoves ==
  ASSUME RequestTyped, BeginAnswer
  PROVE  At("read") /\ \/ Over("PROVIDER")
                       \/ Says(Respond, "TIMEOUT")
                       \/ RequestIsCurrent /\ Logged(Awaited, "fetch")
BY Writers DEF BeginAnswer, Awaited

LEMMA FetchMoves ==
  ASSUME RequestTyped, FetchHeaders
  PROVE  At("fetch") /\ \/ \E s \in {"TIMEOUT", "PROVIDER", "BUFFER_TOO_SMALL"} :
                             Says(Both, s)
                        \/ Logged(Awaited, "body")
BY Writers DEF FetchHeaders, Awaited

LEMMA PrepareReadMoves ==
  ASSUME RequestTyped, PrepareRead
  PROVE  At("body") /\ \/ Goes("parse") \/ Over("PROVIDER")
                       \/ Says(Respond, "TIMEOUT")
                       \/ RequestIsCurrent /\ Goes("reading")
BY Writers DEF PrepareRead

LEMMA ReadMoves ==
  ASSUME RequestTyped, Read
  PROVE  At("reading") /\ \/ Goes("parse") \/ Goes("body")
                          \/ \E s \in {"TIMEOUT", "PROVIDER"} : Says(Respond, s)
BY Writers DEF Read

LEMMA ParseMoves ==
  ASSUME RequestTyped, answer.http \in {"OK", "AUTH"}, ParseAnswer
  PROVE  /\ At("parse")
         /\ \E s \in {"OK", "AUTH", "PARSE", "BUFFER_TOO_SMALL"} :
              /\ Moved("log", request.ret, s, Respond, "done", s = "OK")
              /\ s = "OK" => answer.end \in 1 .. answer.read
<1>. DEFINE s == IF answer.read + 1 = BodyLimit /\ answer.read < answer.size
                 THEN "BUFFER_TOO_SMALL"
                 ELSE IF answer.http = "OK" /\ ~(answer.end \in 1 .. answer.read)
                 THEN "PARSE" ELSE answer.http
<1>1. /\ At("parse")
      /\ request' = [request EXCEPT !.pc = "log", !.log = Respond,
                                    !.then = "done", !.status = s, !.text = (s = "OK")]
  BY DEF ParseAnswer, Respond
<1>2. Moved("log", request.ret, s, Respond, "done", s = "OK")
  <2>. HIDE DEF s
  <2>. QED  BY <1>1 DEF RequestTyped, Moved
<1>3. s \in {"OK", "AUTH", "PARSE", "BUFFER_TOO_SMALL"} /\ (s = "OK" => answer.end \in 1 .. answer.read)
  OBVIOUS
<1>. QED  BY <1>1, <1>2, <1>3

LEMMA EnterMoves ==
  ASSUME RequestTyped, EnterLog
  PROVE  /\ At("log") /\ ~diagLock
         /\ \/ request.log = <<>> /\ Goes(request.then) /\ UNCHANGED diagLock
            \/ request.log # <<>> /\ MayLog(Head(request.log)) /\ Goes("logging") /\ diagLock'
            \/ /\ request.log # <<>> /\ ~MayLog(Head(request.log)) /\ UNCHANGED diagLock
               /\ Logged(Tail(request.log), request.then)
<1>1. CASE request.log # <<>> /\ ~MayLog(Head(request.log))
  <2>1. request' = [request EXCEPT !.log = Tail(request.log)] /\ At("log") /\ ~diagLock
        /\ UNCHANGED diagLock
    BY <1>1 DEF EnterLog
  <2>. QED  BY <1>1, <2>1 DEF RequestTyped, Moved, Logged, At
<1>. QED  BY <1>1, Writers DEF EnterLog

LEMMA WriteLogMoves ==
  ASSUME RequestTyped, WriteLog
  PROVE  At("logging") /\ ~diagLock' /\ Logged(Tail(request.log), request.then)
<1>1. request' = [request EXCEPT !.pc = "log", !.log = Tail(request.log)] /\ At("logging")
      /\ ~diagLock'
  BY DEF WriteLog
<1>. QED  BY <1>1 DEF RequestTyped, Moved, Logged

-----------------------------------------------------------------------------
\* What the call records, and where.

\* CallInv holds at the start, and every step keeps it.
LEMMA CallInit == AsrInit => CallInv
BY EpochAssumption, RecordsDiffer DEF AsrInit, CallInv, RequestTyped, LogShape, AnswerShape,
   NoAnswer, Point, Points,
   Uploading, Awaiting, Returns, Statuses, Epochs, Logs, Uploads, Responses, UploadTyped, Parts

LEMMA QueueKeepsCall == CallInv /\ asrEpoch \in Epochs /\ QueueRecording => CallInv'
BY RecordsDiffer, WavAssumption DEF UploadTyped, Parts, QueueRecording, CallInv,
   RequestTyped, LogShape, AnswerShape, NoAnswer, Point, Points,
   Uploading, Awaiting, Returns, Statuses, Logs, Uploads, Responses

LEMMA OthersKeepCall == CallInv /\ (CancelAsr \/ ClearDiagnostics) => CallInv'
BY DEF CancelAsr, ClearDiagnostics, CallInv, RequestTyped, LogShape, AnswerShape, Point,
   UploadTyped

LEMMA StartRequestKeepsCall ==
  ASSUME CallInv, StartRequest
  PROVE  CallInv'
<1>. USE DEF CallInv
<1>1. RequestTyped'
  BY StartMoves, RecordsDiffer DEF RequestTyped, LogShape, At, Moved, Over, Logged, Points,
     Uploading, Awaiting,
     Returns, Statuses, Logs, Uploads, Responses
<1>2. LogShape'
  BY StartMoves, RecordsDiffer DEF RequestTyped, LogShape, At, Moved, Over, Logged, Logs,
     Uploads, Responses
<1>3. AnswerShape'
  <2>1. UNCHANGED answer
    BY DEF StartRequest, UploadFrame, AnswerFrame, AsrFrame
  <2>. QED  BY <2>1, StartMoves DEF AnswerShape, Point, At, Moved, Over, Logged,
               RequestTyped, LogShape
<1>4. UploadTyped'
  BY DEF StartRequest, UploadTyped, UploadFrame, AnswerFrame, AsrFrame, Parts
<1>. QED  BY <1>1, <1>2, <1>3, <1>4

LEMMA OpenConnectionKeepsCall ==
  ASSUME CallInv, OpenConnection
  PROVE  CallInv'
<1>. USE DEF CallInv
<1>1. RequestTyped'
  BY OpenMoves, RecordsDiffer DEF RequestTyped, LogShape, At, Moved, Goes, Ends, Points,
     Uploading, Awaiting,
     Returns, Statuses, Logs, Uploads, Responses
<1>2. LogShape'
  BY OpenMoves, RecordsDiffer DEF RequestTyped, LogShape, At, Moved, Goes, Ends, Logs,
     Uploads, Responses
<1>3. AnswerShape'
  <2>1. UNCHANGED answer
    BY DEF OpenConnection, UploadFrame, AnswerFrame, AsrFrame
  <2>. QED  BY <2>1, OpenMoves DEF AnswerShape, Point, At, Moved, Goes, Ends, RequestTyped,
               LogShape
<1>4. UploadTyped'
  BY DEF OpenConnection, UploadTyped, UploadFrame, AnswerFrame, AsrFrame, Parts
<1>. QED  BY <1>1, <1>2, <1>3, <1>4

LEMMA PrepareWriteKeepsCall ==
  ASSUME CallInv, PrepareWrite
  PROVE  CallInv'
<1>. USE DEF CallInv
<1>1. RequestTyped'
  BY PrepareMoves, RecordsDiffer DEF RequestTyped, LogShape, At, Moved, Goes, Ends, Points,
     Uploading, Awaiting,
     Returns, Statuses, Logs, Uploads, Responses
<1>2. LogShape'
  BY PrepareMoves, RecordsDiffer DEF RequestTyped, LogShape, At, Moved, Goes, Ends, Logs,
     Uploads, Responses
<1>3. AnswerShape'
  <2>1. UNCHANGED answer
    BY DEF PrepareWrite, UploadFrame, AnswerFrame, AsrFrame
  <2>. QED  BY <2>1, PrepareMoves DEF AnswerShape, Point, At, Moved, Goes, Ends,
               RequestTyped, LogShape
<1>4. UploadTyped'
  BY DEF PrepareWrite, UploadTyped, UploadFrame, AnswerFrame, AsrFrame, Parts
<1>. QED  BY <1>1, <1>2, <1>3, <1>4

LEMMA WriteKeepsCall ==
  ASSUME CallInv, Write
  PROVE  CallInv'
<1>. USE DEF CallInv
<1>1. RequestTyped'
  BY WriteMoves, RecordsDiffer DEF RequestTyped, LogShape, At, Moved, Goes, Ends, Points,
     Uploading, Awaiting,
     Returns, Statuses, Logs, Uploads, Responses
<1>2. LogShape'
  BY WriteMoves, RecordsDiffer DEF RequestTyped, LogShape, At, Moved, Goes, Ends, Logs,
     Uploads, Responses
<1>3. AnswerShape'
  <2>1. UNCHANGED answer
    BY DEF Write, UploadFrame, AnswerFrame, AsrFrame
  <2>. QED  BY <2>1, WriteMoves DEF AnswerShape, Point, At, Moved, Goes, Ends, RequestTyped,
               LogShape
<1>4. UploadTyped'
  <2>1. UNCHANGED upload \/ \E l : upload' = [upload EXCEPT !.left = l]
    BY DEF Write
  <2>. QED  BY <2>1 DEF Write, UploadTyped, UploadFrame, AsrFrame, Parts
<1>. QED  BY <1>1, <1>2, <1>3, <1>4

LEMMA NextPartKeepsCall ==
  ASSUME CallInv, NextPart
  PROVE  CallInv'
<1>. USE DEF CallInv
<1>1. RequestTyped'
  BY NextMoves, RecordsDiffer DEF RequestTyped, LogShape, At, Moved, Goes, Ends, Points,
     Uploading, Awaiting,
     Returns, Statuses, Logs, Uploads, Responses
<1>2. LogShape'
  BY NextMoves, RecordsDiffer DEF RequestTyped, LogShape, At, Moved, Goes, Ends, Logs,
     Uploads, Responses
<1>3. AnswerShape'
  <2>1. UNCHANGED answer
    BY DEF NextPart, UploadFrame, AnswerFrame, AsrFrame
  <2>. QED  BY <2>1, NextMoves DEF AnswerShape, Point, At, Moved, Goes, Ends, RequestTyped,
               LogShape
<1>4. UploadTyped'
  <2>1. upload.part \in {"prefix", "audio", "quote", "suffix"} /\ upload.offset \in Nat /\ wav \in Nat
    BY DEF UploadTyped, Parts
  <2>2. CASE WavLeft /\ SendChunk
    BY <2>1, <2>2, NextCases, WavAssumption DEF WavLeft, SendChunk, Send, Least, UploadTyped,
       Parts
  <2>3. CASE \E p \in Parts : \E l : Send(p, l, upload.offset)
    BY <2>1, <2>3, NextCases DEF Send, UploadTyped
  <2>4. CASE UNCHANGED upload
    BY <2>1, <2>4, NextCases DEF UploadTyped
  <2>. QED  BY <2>1, <2>2, <2>3, <2>4, NextCases DEF Parts
<1>. QED  BY <1>1, <1>2, <1>3, <1>4

LEMMA EndOfUploadKeepsCall ==
  ASSUME CallInv, EndOfUpload
  PROVE  CallInv'
<1>. USE DEF CallInv
<1>1. RequestTyped'
  BY EndMoves, RecordsDiffer DEF RequestTyped, LogShape, At, Moved, Points, Uploading, Awaiting,
     Returns, Statuses, Logs, Uploads, Responses
<1>2. LogShape'
  BY EndMoves, RecordsDiffer DEF RequestTyped, LogShape, At, Moved, Logs, Uploads, Responses
<1>3. AnswerShape'
  <2>1. UNCHANGED answer
    BY DEF EndOfUpload, UploadFrame, AnswerFrame, AsrFrame
  <2>. QED  BY <2>1, EndMoves DEF AnswerShape, Point, At, Moved, RequestTyped, LogShape
<1>4. UploadTyped'
  BY DEF EndOfUpload, UploadTyped, UploadFrame, AnswerFrame, AsrFrame, Parts
<1>. QED  BY <1>1, <1>2, <1>3, <1>4

LEMMA AwaitAnswerKeepsCall ==
  ASSUME CallInv, AwaitAnswer
  PROVE  CallInv'
<1>. USE DEF CallInv
<1>1. RequestTyped'
  BY AwaitMoves, RecordsDiffer DEF RequestTyped, LogShape, At, Moved, Goes, Over,
     Transported, Points, Uploading, Awaiting,
     Returns, Statuses, Logs, Uploads, Responses
<1>2. LogShape'
  BY AwaitMoves, RecordsDiffer DEF RequestTyped, LogShape, At, Moved, Goes, Over,
     Transported, Logs, Uploads, Responses
<1>3. AnswerShape'
  <2>1. UNCHANGED answer
    BY DEF AwaitAnswer, UploadFrame, AnswerFrame, AsrFrame
  <2>. QED  BY <2>1, AwaitMoves DEF AnswerShape, Point, At, Moved, Goes, Over, Transported,
               RequestTyped, LogShape
<1>4. UploadTyped'
  BY DEF AwaitAnswer, UploadTyped, UploadFrame, AnswerFrame, AsrFrame, Parts
<1>. QED  BY <1>1, <1>2, <1>3, <1>4

LEMMA BeginAnswerKeepsCall ==
  ASSUME CallInv, BeginAnswer
  PROVE  CallInv'
<1>. USE DEF CallInv
<1>1. RequestTyped'
  BY BeginMoves, RecordsDiffer DEF RequestTyped, LogShape, At, Moved, Over, Says, Logged,
     Points, Uploading, Awaiting,
     Returns, Statuses, Logs, Uploads, Responses
<1>2. LogShape'
  BY BeginMoves, RecordsDiffer DEF RequestTyped, LogShape, At, Moved, Over, Says, Logged,
     Logs, Uploads, Responses
<1>3. AnswerShape'
  <2>1. UNCHANGED answer
    BY DEF BeginAnswer, UploadFrame, AnswerFrame, AsrFrame
  <2>. QED  BY <2>1, BeginMoves DEF AnswerShape, Point, At, Moved, Over, Says, Logged,
               RequestTyped, LogShape
<1>4. UploadTyped'
  BY DEF BeginAnswer, UploadTyped, UploadFrame, AnswerFrame, AsrFrame, Parts
<1>. QED  BY <1>1, <1>2, <1>3, <1>4

LEMMA FetchHeadersKeepsCall ==
  ASSUME CallInv, FetchHeaders
  PROVE  CallInv'
<1>. USE DEF CallInv
<1>1. RequestTyped'
  BY FetchMoves, RecordsDiffer DEF RequestTyped, LogShape, At, Moved, Says, Logged, Points,
     Uploading, Awaiting,
     Returns, Statuses, Logs, Uploads, Responses
<1>2. LogShape'
  BY FetchMoves, RecordsDiffer DEF RequestTyped, LogShape, At, Moved, Says, Logged, Logs,
     Uploads, Responses
<1>3. AnswerShape'
  <2>1. \/ UNCHANGED answer /\ request'.then = "done" /\ request'.pc = "log"
        \/ \E http \in {"OK", "AUTH"}, size \in 0 .. BodyLimit + 1 : \E end \in 0 .. size :
             answer' = [http |-> http, size |-> size, end |-> end, read |-> 0]
    BY FetchMoves, Writers DEF FetchHeaders, Says, Moved, Answered
  <2>. QED  BY <2>1, WavAssumption DEF AnswerShape, Point
<1>4. UploadTyped'
  BY DEF FetchHeaders, UploadTyped, UploadFrame, AnswerFrame, AsrFrame, Parts
<1>. QED  BY <1>1, <1>2, <1>3, <1>4

LEMMA PrepareReadKeepsCall ==
  ASSUME CallInv, PrepareRead
  PROVE  CallInv'
<1>. USE DEF CallInv
<1>1. RequestTyped'
  BY PrepareReadMoves, RecordsDiffer DEF RequestTyped, LogShape, At, Moved, Goes, Over, Says,
     Points, Uploading, Awaiting,
     Returns, Statuses, Logs, Uploads, Responses
<1>2. LogShape'
  BY PrepareReadMoves, RecordsDiffer DEF RequestTyped, LogShape, At, Moved, Goes, Over, Says,
     Logs, Uploads, Responses
<1>3. AnswerShape'
  <2>1. UNCHANGED answer
    BY DEF PrepareRead, UploadFrame, AnswerFrame, AsrFrame
  <2>. QED  BY <2>1, PrepareReadMoves DEF AnswerShape, Point, At, Moved, Goes, Over, Says,
               RequestTyped, LogShape
<1>4. UploadTyped'
  BY DEF PrepareRead, UploadTyped, UploadFrame, AnswerFrame, AsrFrame, Parts
<1>. QED  BY <1>1, <1>2, <1>3, <1>4

LEMMA ReadKeepsCall ==
  ASSUME CallInv, Read
  PROVE  CallInv'
<1>. USE DEF CallInv
<1>1. RequestTyped'
  BY ReadMoves, RecordsDiffer DEF RequestTyped, LogShape, At, Moved, Goes, Says, Points,
     Uploading, Awaiting,
     Returns, Statuses, Logs, Uploads, Responses
<1>2. LogShape'
  BY ReadMoves, RecordsDiffer DEF RequestTyped, LogShape, At, Moved, Goes, Says, Logs,
     Uploads, Responses
<1>3. AnswerShape'
  <2>1. /\ At("reading")
        /\ (UNCHANGED answer \/ \E n \in Nat : answer' = [answer EXCEPT !.read = answer.read + n])
    BY WavAssumption DEF Read, AnswerShape, Least
  <2>. QED  BY <2>1, ReadMoves DEF AnswerShape, Point, At, Moved, Goes, Says
<1>4. UploadTyped'
  BY DEF Read, UploadTyped, UploadFrame, AnswerFrame, AsrFrame, Parts
<1>. QED  BY <1>1, <1>2, <1>3, <1>4

LEMMA ParseAnswerKeepsCall ==
  ASSUME CallInv, ParseAnswer
  PROVE  CallInv'
<1>. USE DEF CallInv
<1>a. At("parse") /\ UNCHANGED answer
  BY DEF ParseAnswer
<1>b. answer.http \in {"OK", "AUTH"}
  BY <1>a DEF AnswerShape, Point, At
<1>0. /\ At("parse")
      /\ \E s \in {"OK", "AUTH", "PARSE", "BUFFER_TOO_SMALL"}, t \in BOOLEAN :
           Moved("log", request.ret, s, Respond, "done", t)
  BY ParseMoves, <1>b
<1>1. RequestTyped'
  BY <1>0, RecordsDiffer DEF RequestTyped, LogShape, At, Moved, Points, Uploading, Awaiting,
     Returns, Statuses, Logs, Uploads, Responses
<1>2. LogShape'
  BY <1>0, RecordsDiffer DEF RequestTyped, LogShape, At, Moved, Logs, Uploads, Responses
<1>3. AnswerShape'
  <2>1. UNCHANGED answer
    BY <1>a
  <2>. QED  BY <2>1, <1>0 DEF AnswerShape, Point, At, Moved, RequestTyped, LogShape
<1>4. UploadTyped'
  BY <1>a DEF ParseAnswer, AnswerFrame, AsrFrame, UploadTyped
<1>. QED  BY <1>1, <1>2, <1>3, <1>4

\* The next record is one the point of the call allows.
LEMMA TailKeepsShape ==
  ASSUME RequestTyped, LogShape, request.log # <<>>, Logged(Tail(request.log), request.then)
  PROVE  LogShape'
<1>. USE RecordsDiffer, RecordsTaken DEF RequestTyped, LogShape, Moved, Logged, Uploads, Responses
<1>1. CASE request.log = Ready
  BY <1>1
<1>2. CASE request.log \in Uploads
  BY <1>2
<1>3. CASE request.log \in Responses
  BY <1>3
<1>. QED  BY <1>1, <1>2, <1>3 DEF Logs

LEMMA EnterLogKeepsCall ==
  ASSUME CallInv, EnterLog
  PROVE  CallInv'
<1>. USE DEF CallInv
<1>1. RequestTyped'
  BY EnterMoves, RecordsDiffer, RecordsTaken DEF RequestTyped, LogShape, At, Moved, Goes,
     Logged, Points, Uploading, Awaiting,
     Returns, Statuses, Logs, Uploads, Responses
<1>2. LogShape'
  <2>1. CASE request.log = <<>> /\ Goes(request.then)
    BY <2>1, RecordsDiffer DEF RequestTyped, LogShape, Moved, Goes, Logs, Uploads, Responses,
       Points, Uploading, Awaiting
  <2>2. CASE request.log # <<>> /\ Goes("logging")
    BY <2>2, RecordsDiffer DEF RequestTyped, LogShape, Moved, Goes, Logs, Uploads, Responses
  <2>3. CASE request.log # <<>> /\ Logged(Tail(request.log), request.then)
    BY <2>3, TailKeepsShape
  <2>. QED  BY <2>1, <2>2, <2>3, EnterMoves
<1>3. AnswerShape'
  <2>1. UNCHANGED answer
    BY DEF EnterLog, UploadFrame, AnswerFrame, AsrFrame
  <2>. QED  BY <2>1, EnterMoves DEF AnswerShape, Point, At, Moved, Goes, Logged,
               RequestTyped, LogShape
<1>4. UploadTyped'
  BY DEF EnterLog, UploadTyped, UploadFrame, AnswerFrame, AsrFrame, Parts
<1>. QED  BY <1>1, <1>2, <1>3, <1>4

LEMMA WriteLogKeepsCall ==
  ASSUME CallInv, WriteLog
  PROVE  CallInv'
<1>. USE DEF CallInv
<1>1. RequestTyped'
  BY WriteLogMoves, RecordsDiffer, RecordsTaken DEF RequestTyped, LogShape, At, Moved,
     Logged, Points, Uploading, Awaiting,
     Returns, Statuses, Logs, Uploads, Responses
<1>2. LogShape'
  BY WriteLogMoves, TailKeepsShape DEF LogShape, At
<1>3. AnswerShape'
  <2>1. UNCHANGED answer
    BY DEF WriteLog, UploadFrame, AnswerFrame, AsrFrame
  <2>. QED  BY <2>1, WriteLogMoves DEF AnswerShape, Point, At, Moved, Logged, RequestTyped,
               LogShape
<1>4. UploadTyped'
  BY DEF WriteLog, UploadTyped, UploadFrame, AnswerFrame, AsrFrame, Parts
<1>. QED  BY <1>1, <1>2, <1>3, <1>4

\* CallInv is kept by every step.
LEMMA StepKeepsCall ==
  ASSUME CallInv, EpochInv, AsrNext
  PROVE  CallInv'
BY QueueKeepsCall, OthersKeepCall, StartRequestKeepsCall, OpenConnectionKeepsCall,
   PrepareWriteKeepsCall, WriteKeepsCall, NextPartKeepsCall, EndOfUploadKeepsCall,
   AwaitAnswerKeepsCall, BeginAnswerKeepsCall, FetchHeadersKeepsCall, PrepareReadKeepsCall,
   ReadKeepsCall, ParseAnswerKeepsCall, EnterLogKeepsCall, WriteLogKeepsCall
   DEF AsrNext, AsrTask, EpochInv

-----------------------------------------------------------------------------
\* No epoch comes back: a request that is not the current one stays so.

\* The task of the request leaves the epochs alone.
LEMMA TaskKeepsEpoch ==
  ASSUME CallInv, AsrTask
  PROVE  request'.epoch = request.epoch /\ UNCHANGED <<asrEpoch, canceller, wav, requests>>
<1>. USE DEF CallInv
<1>1. UNCHANGED <<asrEpoch, canceller, wav, requests>>
  BY DEF AsrTask, StartRequest, OpenConnection, PrepareWrite, Write, NextPart, EndOfUpload,
     AwaitAnswer, BeginAnswer, FetchHeaders, PrepareRead, Read, ParseAnswer, EnterLog, WriteLog,
     UploadFrame, AnswerFrame, AsrFrame
<1>2. CASE NextPart
  BY <1>1, <1>2, NextMoves DEF Moved, Goes, Ends
<1>3. CASE ParseAnswer
  <2>1. At("parse")
    BY <1>3 DEF ParseAnswer
  <2>2. answer.http \in {"OK", "AUTH"}
    BY <2>1 DEF AnswerShape, Point, At
  <2>. QED  BY <1>1, <1>3, <2>2, ParseMoves DEF Moved
<1>4. CASE StartRequest
  BY <1>1, <1>4, StartMoves DEF Moved, Goes, Over, Ends, Logged, Says
<1>5. CASE OpenConnection
  BY <1>1, <1>5, OpenMoves DEF Moved, Goes, Over, Ends, Logged, Says
<1>6. CASE PrepareWrite
  BY <1>1, <1>6, PrepareMoves DEF Moved, Goes, Over, Ends, Logged, Says
<1>7. CASE Write
  BY <1>1, <1>7, WriteMoves DEF Moved, Goes, Over, Ends, Logged, Says
<1>8. CASE EndOfUpload
  BY <1>1, <1>8, EndMoves DEF Moved, Goes, Over, Ends, Logged, Says
<1>9. CASE AwaitAnswer
  BY <1>1, <1>9, AwaitMoves DEF Moved, Goes, Over, Ends, Logged, Says
<1>10. CASE BeginAnswer
  BY <1>1, <1>10, BeginMoves DEF Moved, Goes, Over, Ends, Logged, Says
<1>11. CASE FetchHeaders
  BY <1>1, <1>11, FetchMoves DEF Moved, Goes, Over, Ends, Logged, Says
<1>12. CASE PrepareRead
  BY <1>1, <1>12, PrepareReadMoves DEF Moved, Goes, Over, Ends, Logged, Says
<1>13. CASE Read
  BY <1>1, <1>13, ReadMoves DEF Moved, Goes, Over, Ends, Logged, Says
<1>14. CASE EnterLog
  BY <1>1, <1>14, EnterMoves DEF Moved, Goes, Over, Ends, Logged, Says
<1>15. CASE WriteLog
  BY <1>1, <1>15, WriteLogMoves DEF Moved, Goes, Over, Ends, Logged, Says
<1>. QED  BY <1>1, <1>2, <1>3, <1>4, <1>5, <1>6, <1>7, <1>8, <1>9, <1>10, <1>11, <1>12,
             <1>13, <1>14, <1>15 DEF AsrTask

LEMMA EpochInit == AsrInit => EpochInv
BY EpochAssumption DEF AsrInit, EpochInv, Epochs, Rank, RequestIsCurrent

\* A cancellation takes an epoch no request has had.
LEMMA CancelKeepsEpoch ==
  ASSUME CallInv, EpochInv, CancelAsr
  PROVE  EpochInv' /\ ~RequestIsCurrent' /\ canceller'.pc # "idle" /\ UNCHANGED request
<1>. USE EpochAssumption DEF CallInv, RequestTyped, EpochInv, Epochs, Rank
<1>1. CASE canceller.pc = "idle"
  <2>1. /\ asrEpoch' = (asrEpoch + 1) % EpochWrap /\ UNCHANGED request
        /\ canceller.times < MaxCancels
        /\ canceller' = [pc |-> IF asrEpoch' = 0 THEN "restore" ELSE "clear",
                         times |-> canceller.times + 1]
    BY <1>1 DEF CancelAsr
  <2>2. CASE asrEpoch = EpochWrap - 1
    <3>1. asrEpoch' = 0
      BY <2>1, <2>2
    <3>. QED  BY <2>1, <2>2, <3>1 DEF RequestIsCurrent
  <2>3. CASE asrEpoch # EpochWrap - 1
    <3>1. asrEpoch' = asrEpoch + 1
      BY <2>1, <2>3
    <3>. QED  BY <2>1, <2>3, <3>1 DEF RequestIsCurrent
  <2>. QED  BY <2>2, <2>3
<1>2. CASE canceller.pc = "restore"
  <2>1. /\ asrEpoch' = 1 /\ canceller' = [pc |-> "clear", times |-> canceller.times]
        /\ UNCHANGED request
    BY <1>2 DEF CancelAsr
  <2>. QED  BY <1>2, <2>1 DEF RequestIsCurrent
<1>. QED  BY <1>1, <1>2 DEF CancelAsr

\* EpochInv is kept, and only a new recording makes a request current.
LEMMA StepKeepsEpoch ==
  ASSUME CallInv, EpochInv, AsrNext
  PROVE  EpochInv' /\ (~QueueRecording /\ RequestIsCurrent' => RequestIsCurrent)
<1>1. CASE AsrTask
  BY <1>1, TaskKeepsEpoch DEF EpochInv, Rank, RequestIsCurrent
<1>2. CASE QueueRecording
  BY <1>2 DEF QueueRecording, EpochInv, Rank, Epochs, RequestIsCurrent
<1>3. CASE ClearDiagnostics
  BY <1>3 DEF ClearDiagnostics, EpochInv, Rank, RequestIsCurrent
<1>. QED  BY <1>1, <1>2, <1>3, CancelKeepsEpoch DEF AsrNext

-----------------------------------------------------------------------------
\* The upload.

\* An answer is awaited, and the upload reported as complete, only behind the
\* whole body: StageInv, step by step.
LEMMA StageInit == AsrInit => StageInv /\ BodyInv
BY DEF AsrInit, StageInv, BodyInv

LEMMA OthersKeepStage == StageInv /\ (CancelAsr \/ ClearDiagnostics) => StageInv'
BY DEF CancelAsr, ClearDiagnostics, StageInv, Point, Sent, AllSent

LEMMA QueueKeepsStage == QueueRecording => StageInv'
<1>. SUFFICES ASSUME QueueRecording PROVE StageInv'
  OBVIOUS
<1>1. request'.pc = "start" /\ request'.log = <<>>
  BY DEF QueueRecording
<1>. QED  BY <1>1, RecordsDiffer DEF StageInv, Point, Sent, Awaiting, Responses

LEMMA StartRequestKeepsStage ==
  ASSUME CallInv, StageInv, StartRequest
  PROVE  StageInv'
<1>. USE DEF CallInv
<1>1. UNCHANGED upload
  BY DEF StartRequest, UploadFrame, AnswerFrame, AsrFrame
<1>. QED
  BY <1>1, StartMoves, RecordsDiffer DEF RequestTyped, LogShape, At, Moved, Over, Logged,
     StageInv, Point, Points, Sent, AllSent,
     Uploading, Awaiting, Logs, Uploads, Responses

LEMMA OpenConnectionKeepsStage ==
  ASSUME CallInv, StageInv, OpenConnection
  PROVE  StageInv'
<1>. USE DEF CallInv
<1>1. UNCHANGED upload
  BY DEF OpenConnection, UploadFrame, AnswerFrame, AsrFrame
<1>. QED
  BY <1>1, OpenMoves, RecordsDiffer DEF RequestTyped, LogShape, At, Moved, Goes, Ends,
     StageInv, Point, Points, Sent, AllSent,
     Uploading, Awaiting, Logs, Uploads, Responses

LEMMA PrepareWriteKeepsStage ==
  ASSUME CallInv, StageInv, PrepareWrite
  PROVE  StageInv'
<1>. USE DEF CallInv
<1>1. UNCHANGED upload
  BY DEF PrepareWrite, UploadFrame, AnswerFrame, AsrFrame
<1>. QED
  BY <1>1, PrepareMoves, RecordsDiffer DEF RequestTyped, LogShape, At, Moved, Goes, Ends,
     StageInv, Point, Points, Sent, AllSent,
     Uploading, Awaiting, Logs, Uploads, Responses

LEMMA WriteKeepsStage ==
  ASSUME CallInv, StageInv, Write
  PROVE  StageInv'
<1>. USE DEF CallInv
<1>. QED
  BY WriteMoves, RecordsDiffer DEF RequestTyped, LogShape, At, Moved, Goes, Ends, StageInv,
     Point, Points, Sent, AllSent,
     Uploading, Awaiting, Logs, Uploads, Responses

LEMMA NextPartKeepsStage ==
  ASSUME CallInv, StageInv, NextPart
  PROVE  StageInv'
<1>. USE DEF CallInv
<1>. QED
  BY NextMoves, RecordsDiffer DEF RequestTyped, LogShape, At, Moved, Goes, Ends, StageInv,
     Point, Points, Sent, AllSent,
     Uploading, Awaiting, Logs, Uploads, Responses

LEMMA EndOfUploadKeepsStage ==
  ASSUME CallInv, StageInv, EndOfUpload
  PROVE  StageInv'
<1>. USE DEF CallInv
<1>1. UNCHANGED upload
  BY DEF EndOfUpload, UploadFrame, AnswerFrame, AsrFrame
<1>. QED
  BY <1>1, EndMoves, RecordsDiffer DEF RequestTyped, LogShape, At, Moved, StageInv, Point,
     Points, Sent, AllSent,
     Uploading, Awaiting, Logs, Uploads, Responses

LEMMA AwaitAnswerKeepsStage ==
  ASSUME CallInv, StageInv, AwaitAnswer
  PROVE  StageInv'
<1>. USE DEF CallInv
<1>1. UNCHANGED upload
  BY DEF AwaitAnswer, UploadFrame, AnswerFrame, AsrFrame
<1>. QED
  BY <1>1, AwaitMoves, RecordsDiffer DEF RequestTyped, LogShape, At, Moved, Goes, Over,
     Transported, StageInv, Point, Points, Sent, AllSent,
     Uploading, Awaiting, Logs, Uploads, Responses

LEMMA BeginAnswerKeepsStage ==
  ASSUME CallInv, StageInv, BeginAnswer
  PROVE  StageInv'
<1>. USE DEF CallInv
<1>1. UNCHANGED upload
  BY DEF BeginAnswer, UploadFrame, AnswerFrame, AsrFrame
<1>. QED
  BY <1>1, BeginMoves, RecordsDiffer DEF RequestTyped, LogShape, At, Moved, Over, Says,
     Logged, StageInv, Point, Points, Sent, AllSent,
     Uploading, Awaiting, Logs, Uploads, Responses

LEMMA FetchHeadersKeepsStage ==
  ASSUME CallInv, StageInv, FetchHeaders
  PROVE  StageInv'
<1>. USE DEF CallInv
<1>1. UNCHANGED upload
  BY DEF FetchHeaders, UploadFrame, AnswerFrame, AsrFrame
<1>. QED
  BY <1>1, FetchMoves, RecordsDiffer DEF RequestTyped, LogShape, At, Moved, Says, Logged,
     StageInv, Point, Points, Sent, AllSent,
     Uploading, Awaiting, Logs, Uploads, Responses

LEMMA PrepareReadKeepsStage ==
  ASSUME CallInv, StageInv, PrepareRead
  PROVE  StageInv'
<1>. USE DEF CallInv
<1>1. UNCHANGED upload
  BY DEF PrepareRead, UploadFrame, AnswerFrame, AsrFrame
<1>. QED
  BY <1>1, PrepareReadMoves, RecordsDiffer DEF RequestTyped, LogShape, At, Moved, Goes, Over,
     Says, StageInv, Point, Points, Sent, AllSent,
     Uploading, Awaiting, Logs, Uploads, Responses

LEMMA ReadKeepsStage ==
  ASSUME CallInv, StageInv, Read
  PROVE  StageInv'
<1>. USE DEF CallInv
<1>1. UNCHANGED upload
  BY DEF Read, UploadFrame, AnswerFrame, AsrFrame
<1>. QED
  BY <1>1, ReadMoves, RecordsDiffer DEF RequestTyped, LogShape, At, Moved, Goes, Says,
     StageInv, Point, Points, Sent, AllSent,
     Uploading, Awaiting, Logs, Uploads, Responses

LEMMA ParseAnswerKeepsStage ==
  ASSUME CallInv, StageInv, ParseAnswer
  PROVE  StageInv'
<1>. USE DEF CallInv
<1>1. UNCHANGED upload /\ At("parse")
  BY DEF ParseAnswer, AnswerFrame
<1>2. \E s, t : Moved("log", request.ret, s, Respond, "done", t)
  BY <1>1, ParseMoves DEF AnswerShape, Point, At
<1>. QED
  BY <1>1, <1>2, RecordsDiffer DEF RequestTyped, LogShape, At, Moved, StageInv, Point,
     Points, Sent, AllSent,
     Uploading, Awaiting, Logs, Uploads, Responses

\* A step that stays at its point and records nothing new.
LEMMA StaysAtStage ==
  ASSUME StageInv, request.pc # "done", UNCHANGED upload, Point' = Point,
         request'.ret = request.ret,
         \/ request'.log = request.log
         \/ request'.log # Complete /\ (request'.log \in Responses => request.log \in Responses)
  PROVE  StageInv'
<1>1. (Point = "next" => upload.left = <<>>) /\ (Sent => AllSent)
      /\ (Point \in Awaiting \/ request.log \in Responses => request.ret = "OK")
  BY DEF StageInv
<1>2. Sent' => Sent
  BY DEF Sent
<1>3. upload' = upload /\ (AllSent' <=> AllSent)
  BY DEF AllSent
<1>. QED  BY <1>1, <1>2, <1>3 DEF StageInv

LEMMA EnterLogKeepsStage ==
  ASSUME CallInv, StageInv, EnterLog
  PROVE  StageInv'
<1>1. UNCHANGED upload /\ RequestTyped
  BY DEF EnterLog, UploadFrame, AnswerFrame, AsrFrame, CallInv
<1>2. request.pc = "log" /\ request.log \in Logs /\ request.then \in Points
  BY <1>1, EnterMoves DEF RequestTyped, At
<1>3. "log" # "done" /\ "log" \notin Points /\ "logging" \notin Points
  BY DEF Points, Uploading, Awaiting
<1>4. CASE Goes(request.then)
  <2>1. /\ request'.pc = request.then /\ request'.then = request.then
        /\ request'.log = request.log /\ request'.ret = request.ret
    BY <1>4 DEF Moved, Goes
  <2>2. Point' = request.then /\ Point = request.then
    BY <1>2, <1>3, <2>1 DEF Point
  <2>. QED  BY <1>1, <1>2, <1>3, <2>1, <2>2, StaysAtStage
<1>5. CASE Goes("logging")
  <2>1. /\ request'.pc = "logging" /\ request'.then = request.then
        /\ request'.log = request.log /\ request'.ret = request.ret
    BY <1>5 DEF Moved, Goes
  <2>2. Point' = request.then /\ Point = request.then
    BY <1>2, <2>1 DEF Point
  <2>. QED  BY <1>1, <1>2, <1>3, <2>1, <2>2, StaysAtStage
<1>6. CASE request.log # <<>> /\ Logged(Tail(request.log), request.then)
  <2>1. /\ request'.pc = "log" /\ request'.then = request.then
        /\ request'.log = Tail(request.log) /\ request'.ret = request.ret
    BY <1>6 DEF Moved, Logged
  <2>2. Point' = request.then /\ Point = request.then
    BY <1>2, <2>1 DEF Point
  <2>3. Tail(request.log) = <<>> \/ (Tail(request.log) = Respond /\ request.log = Both)
    BY <1>2, <1>6, TailOfLog
  <2>4. Tail(request.log) # Complete
        /\ (Tail(request.log) \in Responses => request.log \in Responses)
    BY <2>3, RecordsDiffer DEF Responses
  <2>. QED  BY <1>1, <1>2, <1>3, <2>1, <2>2, <2>4, StaysAtStage
<1>. QED  BY <1>1, <1>4, <1>5, <1>6, EnterMoves

LEMMA WriteLogKeepsStage ==
  ASSUME CallInv, StageInv, WriteLog
  PROVE  StageInv'
<1>. USE DEF CallInv
<1>1. UNCHANGED upload
  BY DEF WriteLog, UploadFrame, AnswerFrame, AsrFrame
<1>. QED
  BY <1>1, WriteLogMoves, RecordsDiffer, RecordsTaken DEF RequestTyped, LogShape, At, Moved,
     Logged, StageInv, Point, Points, Sent, AllSent,
     Uploading, Awaiting, Logs, Uploads, Responses

-----------------------------------------------------------------------------
\* The body of the request.

\* The request to be sent depends on the WAV alone.
LEMMA UnitsKept ==
  ASSUME UNCHANGED wav
  PROVE  /\ \A n : RequestUnit(n)' = RequestUnit(n)
         /\ UnitsOfRequest' = UnitsOfRequest /\ WavQuads' = WavQuads
BY DEF RequestUnit, UnitsOfRequest, WavQuads, WavQuad

\* Steps that send nothing leave the body as it was.
LEMMA BodyKept ==
  ASSUME BodyInv, UNCHANGED <<wav, upload, wire>>, request'.pc # "done" => request.pc # "done"
  PROVE  BodyInv'
<1>1. OffsetShape => OffsetShape'
  BY DEF OffsetShape
<1>2. Begun' = Begun
  BY UnitsKept DEF Begun
<1>. QED  BY <1>1, <1>2, UnitsKept DEF BodyInv

\* A chunk of the WAV is its bytes from the offset on.
LEMMA ChunkBytes ==
  ASSUME NEW o \in Nat, NEW n \in Nat
  PROVE  /\ VirtualChunk(o, n) \in Seq({WavByte(i) : i \in Nat}) /\ Len(VirtualChunk(o, n)) = n
         /\ \A i \in 1 .. n : VirtualChunk(o, n)[i] = WavByte(o + i)
<1>1. /\ VirtualChunk(o, n) = [i \in 1 .. n |-> VirtualChunk(o, n)[i]]
      /\ \A i \in 1 .. n : VirtualChunk(o, n)[i] = WavByte(o + i)
  BY WavAssumption DEF VirtualChunk, WavByte
<1>2. \A i \in 1 .. n : VirtualChunk(o, n)[i] \in {WavByte(j) : j \in Nat}
  BY <1>1
<1>3. [i \in 1 .. n |-> VirtualChunk(o, n)[i]] \in Seq({WavByte(j) : j \in Nat})
  BY <1>2, IsASeq
<1>4. Len([i \in 1 .. n |-> VirtualChunk(o, n)[i]]) = n
  OBVIOUS
<1>. QED  BY <1>1, <1>3, <1>4

\* A part of a sequence, as a function.
LEMMA SubSeqIs ==
  ASSUME NEW S, NEW s \in Seq(S), NEW m \in Nat \ {0}, NEW n \in Nat, m <= n, n <= Len(s)
  PROVE  SubSeq(s, m, n) = [j \in 1 .. n - m + 1 |-> s[m + j - 1]]
<1>1. \A i \in m .. n : s[i] \in S
  BY ElementOfSeq, LenProperties
<1>2. /\ SubSeq(s, m, n) \in Seq(S) /\ Len(SubSeq(s, m, n)) = n - m + 1
      /\ \A i \in 1 .. n - m + 1 : SubSeq(s, m, n)[i] = s[m + i - 1]
  BY <1>1, SubSeqProperties
<1>3. SubSeq(s, m, n) \in [1 .. n - m + 1 -> S]
  BY <1>2, LenProperties
<1>. QED  BY <1>2, <1>3

\* The quads of a chunk, one by one.
LEMMA QuadsOf ==
  ASSUME NEW raw
  PROVE  /\ Base64(raw) = [k \in 1 .. (Len(raw) + 2) \div 3 |-> Base64(raw)[k]]
         /\ \A k \in 1 .. (Len(raw) + 2) \div 3 :
              Base64(raw)[k]
                = [kind |-> "quad", raw |-> SubSeq(raw, 3 * k - 2, Least(3 * k, Len(raw)))]
BY DEF Base64

\* One chunk of the WAV is whole quads, unless it is the last.
LEMMA ChunkQuads ==
  ASSUME wav \in Nat \ {0}, upload.offset \in 0 .. wav - 1, upload.offset % 3 = 0,
         NEW length, length = Least(wav - upload.offset, RawChunk)
  PROVE  LET q == Base64(VirtualChunk(upload.offset, length)) IN
         /\ q \in Seq(UnitsOfRequest) /\ Len(q) = (length + 2) \div 3
         /\ \A k \in 1 .. Len(q) : q[k] = RequestUnit(1 + (upload.offset + 2) \div 3 + k)
         /\ length \in Nat \ {0} /\ upload.offset + length \in 1 .. wav
         /\ upload.offset + length = wav \/ (upload.offset + length) % 3 = 0
         /\ (upload.offset + length + 2) \div 3 = (upload.offset + 2) \div 3 + (length + 2) \div 3
<1>. SUFFICES ASSUME NEW o, o = upload.offset, NEW raw, raw = VirtualChunk(o, length),
                     NEW q, q = Base64(raw)
              PROVE  /\ q \in Seq(UnitsOfRequest) /\ Len(q) = (length + 2) \div 3
                     /\ \A k \in 1 .. Len(q) : q[k] = RequestUnit(1 + (o + 2) \div 3 + k)
                     /\ length \in Nat \ {0} /\ o + length \in 1 .. wav
                     /\ o + length = wav \/ (o + length) % 3 = 0
                     /\ (o + length + 2) \div 3 = (o + 2) \div 3 + (length + 2) \div 3
  OBVIOUS
<1>1. PICK a \in Nat : o = 3 * a
  OBVIOUS
<1>2. PICK r \in Nat : RawChunk = 3 * r
  BY WavAssumption
<1>3. length \in Nat \ {0} /\ o + length \in 1 .. wav /\ (o + length = wav \/ length = 3 * r)
  <2>1. RawChunk \in Nat \ {0}
    BY WavAssumption
  <2>2. CASE wav - o <= RawChunk
    BY <2>1, <2>2 DEF Least
  <2>3. CASE ~(wav - o <= RawChunk)
    BY <1>2, <2>1, <2>3 DEF Least
  <2>. QED  BY <2>2, <2>3
<1>4. o + length = wav \/ (o + length) % 3 = 0
  BY <1>1, <1>2, <1>3
<1>5. (o + length + 2) \div 3 = a + (length + 2) \div 3 /\ (o + 2) \div 3 = a
  BY <1>1, <1>3
<1>6. DEFINE last == (length + 2) \div 3
<1>7. /\ raw \in Seq({WavByte(n) : n \in Nat}) /\ Len(raw) = length
      /\ \A i \in 1 .. length : raw[i] = WavByte(o + i)
  <2>1. o \in Nat /\ length \in Nat
    BY <1>1, <1>3
  <2>2. /\ VirtualChunk(o, length) \in Seq({WavByte(n) : n \in Nat})
        /\ Len(VirtualChunk(o, length)) = length
        /\ \A i \in 1 .. length : VirtualChunk(o, length)[i] = WavByte(o + i)
    BY ONLY <2>1, ChunkBytes
  <2>. QED  BY ONLY <2>2, raw = VirtualChunk(o, length)
<1>8. /\ q = [k \in 1 .. last |-> q[k]]
      /\ \A k \in 1 .. last :
           q[k] = [kind |-> "quad", raw |-> SubSeq(raw, 3 * k - 2, Least(3 * k, length))]
  <2>1. /\ Base64(raw) = [k \in 1 .. (Len(raw) + 2) \div 3 |-> Base64(raw)[k]]
        /\ \A k \in 1 .. (Len(raw) + 2) \div 3 :
             Base64(raw)[k] = [kind |-> "quad", raw |-> SubSeq(raw, 3 * k - 2, Least(3 * k,
             Len(raw)))]
    BY QuadsOf
  <2>2. Len(raw) = length
    BY <1>7
  <2>. QED  BY ONLY <2>1, <2>2, q = Base64(raw), last = (length + 2) \div 3
<1>9. ASSUME NEW k \in 1 .. last
      PROVE  q[k] = RequestUnit(1 + (o + 2) \div 3 + k)
  <2>1. a + k \in 1 .. WavQuads /\ 1 + (o + 2) \div 3 + k = 1 + (a + k)
    BY <1>1, <1>3, <1>5 DEF WavQuads
  <2>2. RequestUnit(1 + (a + k)) = WavQuad(a + k)
    <3>1. 1 + (a + k) # 1 /\ 1 + (a + k) <= WavQuads + 1 /\ 1 + (a + k) - 1 = a + k
      BY <1>1, <2>1 DEF WavQuads
    <3>. QED  BY <3>1 DEF RequestUnit
  <2>. DEFINE m == 3 * k - 2
              n == Least(3 * k, length)
              size == Least(3, wav - 3 * (a + k - 1))
  <2>3. n - m + 1 = size /\ m \in Nat \ {0} /\ n \in Nat /\ m <= n /\ n <= length
    <3>1. k \in Nat \ {0} /\ 3 * k - 2 <= length
      BY <1>3
    <3>2. CASE o + length = wav
      <4>1. wav - 3 * (a + k - 1) = length - 3 * k + 3
        BY <1>1, <1>3, <3>1, <3>2
      <4>. QED  BY <1>3, <3>1, <4>1 DEF Least
    <3>3. CASE length = 3 * r
      <4>1. k <= r /\ k \in Nat
        BY <1>2, <1>3, <3>1, <3>3
      <4>2. wav - 3 * (a + k - 1) >= 3
        BY <1>1, <1>2, <1>3, <3>1, <3>3, <4>1
      <4>. QED  BY <1>1, <1>2, <1>3, <3>1, <3>3, <4>1, <4>2 DEF Least
    <3>. QED  BY <1>3, <3>2, <3>3
  <2>4. SubSeq(raw, m, n) = [j \in 1 .. size |-> WavByte(3 * (a + k - 1) + j)]
    <3>1. \A j \in 1 .. size : m + j - 1 \in 1 .. length /\ o + (m + j - 1) = 3 * (a + k - 1) + j
      BY <1>1, <1>3, <2>3
    <3>. HIDE DEF m, n, size
    <3>2. SubSeq(raw, m, n) = [j \in 1 .. n - m + 1 |-> raw[m + j - 1]]
      BY <1>7, <2>3, SubSeqIs
    <3>3. \A j \in 1 .. size : raw[m + j - 1] = WavByte(3 * (a + k - 1) + j)
      BY <1>7, <3>1
    <3>4. SubSeq(raw, m, n) = [j \in 1 .. size |-> raw[m + j - 1]]
      BY <2>3, <3>2
    <3>. QED  BY <3>3, <3>4
  <2>5. q[k] = [kind |-> "quad", raw |-> SubSeq(raw, m, n)]
    BY <1>8
  <2>6. WavQuad(a + k) = [kind |-> "quad", raw |-> [j \in 1 .. size |-> WavByte(3 * (a + k - 1) + j)]]
    BY DEF WavQuad
  <2>. HIDE DEF m, n, size
  <2>7. q[k] = WavQuad(a + k)
    BY <2>4, <2>5, <2>6
  <2>. QED  BY <2>1, <2>2, <2>7
<1>10. q \in Seq(UnitsOfRequest) /\ Len(q) = last
  <2>1. last \in Nat /\ (o + 2) \div 3 \in Nat
    BY <1>1, <1>3
  <2>2. \A k \in 1 .. last : q[k] \in UnitsOfRequest
    BY <1>9, <2>1 DEF UnitsOfRequest
  <2>. HIDE DEF last
  <2>3. [k \in 1 .. last |-> q[k]] \in Seq(UnitsOfRequest) /\ Len([k \in 1 .. last |-> q[k]]) = last
    BY <2>1, <2>2, IsASeq
  <2>. QED  BY <1>8, <2>3
<1>. QED  BY <1>3, <1>4, <1>5, <1>9, <1>10

\* What is left follows what was sent.
Follows(w, l) ==
  /\ w \in Seq(UnitsOfRequest) /\ l \in Seq(UnitsOfRequest)
  /\ \A i \in 1 .. Len(w) : w[i] = RequestUnit(i)
  /\ \A i \in 1 .. Len(l) : l[i] = RequestUnit(Len(w) + i)

First(l, n) == SubSeq(l, 1, n)
Rest(l, n)  == SubSeq(l, n + 1, Len(l))

\* It still does when the first units of it are sent.
LEMMA UnitsMoved ==
  ASSUME NEW w \in Seq(UnitsOfRequest), NEW l \in Seq(UnitsOfRequest), Follows(w, l),
         NEW n \in 1 .. Len(l)
  PROVE  /\ Follows(w \o First(l, n), Rest(l, n))
         /\ Len(w \o First(l, n)) + Len(Rest(l, n)) = Len(w) + Len(l)
<1>. DEFINE h == First(l, n)
            v == w \o h
            r == Rest(l, n)
<1>. HIDE DEF h, v, r
<1>0. /\ w \in Seq(UnitsOfRequest) /\ l \in Seq(UnitsOfRequest)
      /\ \A i \in 1 .. Len(w) : w[i] = RequestUnit(i)
      /\ \A i \in 1 .. Len(l) : l[i] = RequestUnit(Len(w) + i)
  BY DEF Follows
<1>1. Len(w) \in Nat /\ Len(l) \in Nat /\ n \in Nat
  BY <1>0, LenProperties
<1>2. \A i \in 1 .. Len(l) : l[i] \in UnitsOfRequest
  BY <1>0, ElementOfSeq
<1>3. h \in Seq(UnitsOfRequest) /\ Len(h) = n /\ \A i \in 1 .. n : h[i] = l[i]
  <2>1. /\ h \in Seq(UnitsOfRequest) /\ Len(h) = IF 1 <= n THEN n - 1 + 1 ELSE 0
        /\ \A i \in 1 .. n - 1 + 1 : h[i] = l[1 + i - 1]
    BY <1>0, <1>1, <1>2, SubSeqProperties DEF First, h
  <2>. QED  BY <1>1, <2>1
<1>4. /\ r \in Seq(UnitsOfRequest) /\ Len(r) = Len(l) - n
      /\ \A i \in 1 .. Len(l) - n : r[i] = l[n + i]
  <2>1. /\ r \in Seq(UnitsOfRequest)
        /\ Len(r) = IF n + 1 <= Len(l) THEN Len(l) - (n + 1) + 1 ELSE 0
        /\ \A i \in 1 .. Len(l) - (n + 1) + 1 : r[i] = l[(n + 1) + i - 1]
    BY <1>0, <1>1, <1>2, SubSeqProperties DEF Rest, r
  <2>2. \A i \in 1 .. Len(l) - n : (n + 1) + i - 1 = n + i
    BY <1>1
  <2>3. (n + 1 <= Len(l) => Len(l) - (n + 1) + 1 = Len(l) - n) /\ (~(n + 1 <= Len(l)) => 0 = Len(l) - n)
        /\ Len(l) - (n + 1) + 1 = Len(l) - n
    BY <1>1
  <2>4. Len(r) = Len(l) - n
    BY <2>1, <2>3, Zenon
  <2>5. \A i \in 1 .. Len(l) - n : r[i] = l[n + i]
    BY <2>1, <2>2, <2>3, Zenon
  <2>. QED  BY <2>1, <2>4, <2>5, Zenon
<1>5. /\ v \in Seq(UnitsOfRequest) /\ Len(v) = Len(w) + n
      /\ \A i \in 1 .. Len(w) + n : v[i] = IF i <= Len(w) THEN w[i] ELSE h[i - Len(w)]
  BY <1>0, <1>1, <1>3, ConcatProperties DEF v
<1>6. ASSUME NEW i \in 1 .. Len(v) PROVE v[i] = RequestUnit(i)
  <2>1. CASE i <= Len(w)
    BY <1>0, <1>1, <1>5, <2>1
  <2>2. CASE ~(i <= Len(w))
    <3>1. i - Len(w) \in 1 .. n /\ Len(w) + (i - Len(w)) = i
      BY <1>1, <1>5, <2>2
    <3>2. l[i - Len(w)] = RequestUnit(Len(w) + (i - Len(w)))
      BY <1>0, <1>1, <3>1
    <3>. QED  BY <1>3, <1>5, <2>2, <3>1, <3>2
  <2>. QED  BY <2>1, <2>2
<1>7. ASSUME NEW i \in 1 .. Len(r) PROVE r[i] = RequestUnit(Len(v) + i)
  <2>1. /\ i \in 1 .. Len(l) - n /\ n + i \in 1 .. Len(l)
        /\ Len(w) + (n + i) = Len(v) + i
    BY <1>1, <1>4, <1>5
  <2>2. l[n + i] = RequestUnit(Len(w) + (n + i))
    BY <1>0, <2>1
  <2>3. r[i] = l[n + i]
    BY <1>4, <2>1
  <2>4. RequestUnit(Len(w) + (n + i)) = RequestUnit(Len(v) + i)
    BY <2>1, Zenon
  <2>. QED  BY <2>2, <2>3, <2>4, Zenon
<1>8. Len(v) + Len(r) = Len(w) + Len(l)
  <2>1. Len(v) = Len(w) + n
    BY <1>5, Zenon
  <2>2. Len(r) = Len(l) - n
    BY <1>4, Zenon
  <2>3. \A x, y, z \in Nat : (x + z) + (y - z) = x + y
    OBVIOUS
  <2>4. (Len(w) + n) + (Len(l) - n) = Len(w) + Len(l)
    BY <1>1, <2>3, Zenon
  <2>. QED  BY <2>1, <2>2, <2>4, Zenon
<1>9. Follows(v, r)
  BY <1>4, <1>5, <1>6, <1>7, Zenon DEF Follows
<1>. QED  BY <1>8, <1>9 DEF h, v, r

\* A new request begins with its prefix.
LEMMA QueueKeepsBody == QueueRecording => BodyInv'
<1>. SUFFICES ASSUME QueueRecording PROVE BodyInv'
  OBVIOUS
<1>1. /\ wav' \in WavSizes /\ wire' = <<>>
      /\ upload' = [part |-> "prefix", left |-> <<Text("prefix")>>, offset |-> 0]
  BY DEF QueueRecording
<1>2. RequestUnit(1)' = Text("prefix") /\ Text("prefix") \in UnitsOfRequest'
  BY DEF RequestUnit, UnitsOfRequest
<1>3. /\ <<Text("prefix")>> \in Seq(UnitsOfRequest') /\ <<>> \in Seq(UnitsOfRequest')
      /\ Len(<<Text("prefix")>>) = 1 /\ Len(<<>>) = 0 /\ <<Text("prefix")>>[1] = Text("prefix")
  <2>. DEFINE unit == Text("prefix")
  <2>. HIDE DEF unit
  <2>1. \A S, x : x \in S => <<x>> \in Seq(S) /\ <<>> \in Seq(S) /\ Len(<<x>>) = 1 /\ <<x>>[1] = x
    OBVIOUS
  <2>2. Len(<<>>) = 0
    BY EmptySeq
  <2>. QED  BY <1>2, <2>1, <2>2
<1>4. OffsetShape'
  BY <1>1, WavAssumption DEF OffsetShape
<1>5. Begun' = 1
  BY <1>1 DEF Begun
<1>. QED  BY <1>1, <1>2, <1>3, <1>4, <1>5 DEF BodyInv

\* A write sends the first units of what is left.
LEMMA WriteKeepsBody ==
  ASSUME CallInv, BodyInv, Write
  PROVE  BodyInv'
<1>1. At("writing") /\ UNCHANGED wav
  BY DEF Write, UploadFrame, AsrFrame
<1>2. CASE UNCHANGED <<wire, upload>>
  BY <1>1, <1>2, BodyKept DEF At
<1>3. ASSUME NEW n \in 1 .. Len(upload.left), wire' = wire \o SubSeq(upload.left, 1, n),
             upload' = [upload EXCEPT !.left = SubSeq(upload.left, n + 1, Len(upload.left))]
      PROVE  BodyInv'
  <2>1. /\ upload'.part = upload.part /\ upload'.offset = upload.offset
        /\ upload'.left = SubSeq(upload.left, n + 1, Len(upload.left))
    BY <1>3 DEF CallInv, UploadTyped
  <2>2. OffsetShape' = OffsetShape /\ Begun' = Begun
    BY <1>1, <2>1, UnitsKept DEF OffsetShape, Begun
  <2>3. /\ wav \in WavSizes /\ OffsetShape /\ Follows(wire, upload.left)
        /\ Len(wire) + Len(upload.left) = Begun
    BY <1>1 DEF BodyInv, At, Follows
  <2>4. Follows(wire', upload'.left) /\ Len(wire') + Len(upload'.left) = Begun
    <3>1. /\ wire \in Seq(UnitsOfRequest) /\ upload.left \in Seq(UnitsOfRequest)
          /\ n \in 1 .. Len(upload.left)
      BY <2>3 DEF Follows
    <3>2. /\ Follows(wire \o First(upload.left, n), Rest(upload.left, n))
          /\ Len(wire \o First(upload.left, n)) + Len(Rest(upload.left, n))
               = Len(wire) + Len(upload.left)
      BY <2>3, <3>1, UnitsMoved
    <3>3. wire' = wire \o First(upload.left, n) /\ upload'.left = Rest(upload.left, n)
      BY <1>3, <2>1 DEF First, Rest
    <3>. QED  BY <2>3, <3>2, <3>3, Zenon
  <2>. QED  BY <1>1, <2>2, <2>3, <2>4, UnitsKept DEF BodyInv, Follows
<1>. QED  BY <1>2, <1>3 DEF Write

\* The next part begins where the last one ended.
LEMMA PartKeepsBody ==
  ASSUME CallInv, BodyInv, request.pc # "done", upload.left = <<>>, UNCHANGED <<wav, wire>>,
         OffsetShape', upload'.left \in Seq(UnitsOfRequest), Begun' = Begun + Len(upload'.left),
         \A k \in 1 .. Len(upload'.left) : upload'.left[k] = RequestUnit(Begun + k)
  PROVE  BodyInv'
<1>1. /\ wav \in WavSizes /\ wire \in Seq(UnitsOfRequest) /\ Len(wire) = Begun
      /\ \A n \in 1 .. Len(wire) : wire[n] = RequestUnit(n)
  <2>1. Len(wire) \in Nat /\ Len(upload.left) = 0
    BY EmptySeq, LenProperties DEF BodyInv
  <2>. QED  BY <2>1 DEF BodyInv
<1>. QED  BY <1>1, UnitsKept DEF BodyInv

LEMMA NextKeepsBody ==
  ASSUME CallInv, BodyInv, StageInv, NextPart
  PROVE  BodyInv'
<1>0. upload.part \in {"prefix", "audio", "quote", "suffix"} /\ upload.offset \in Nat /\ wav \in Nat
  BY DEF CallInv, UploadTyped, Parts
<1>1. /\ At("next") /\ request.pc # "done" /\ upload.left = <<>> /\ UNCHANGED <<wav, wire>>
  BY <1>0, NextCases DEF StageInv, Point, At, NextPart, Waiting
<1>2. OffsetShape /\ wav \in WavSizes
  BY <1>1 DEF BodyInv
<1>3. CASE UNCHANGED upload
  BY <1>1, <1>3, BodyKept
<1>4. CASE WavLeft /\ SendChunk
  <2>. DEFINE length == Least(wav - upload.offset, RawChunk)
              q == Base64(VirtualChunk(upload.offset, length))
  <2>1. wav \in Nat \ {0} /\ upload.offset \in 0 .. wav - 1 /\ upload.offset % 3 = 0
    BY <1>0, <1>2, <1>4, WavAssumption DEF WavLeft, OffsetShape
  <2>2. upload' = [part |-> "audio", left |-> q, offset |-> upload.offset + length]
    BY <1>4 DEF SendChunk, Send
  <2>3. Begun = 1 + (upload.offset + 2) \div 3
    BY <1>0, <1>2, <1>4 DEF Begun, WavLeft, OffsetShape
  <2>4. /\ q \in Seq(UnitsOfRequest) /\ Len(q) = (length + 2) \div 3
        /\ \A k \in 1 .. Len(q) : q[k] = RequestUnit(1 + (upload.offset + 2) \div 3 + k)
        /\ length \in Nat \ {0} /\ upload.offset + length \in 1 .. wav
        /\ upload.offset + length = wav \/ (upload.offset + length) % 3 = 0
        /\ (upload.offset + length + 2) \div 3 = (upload.offset + 2) \div 3 + (length + 2) \div 3
    BY <2>1, ChunkQuads
  <2>. HIDE DEF length, q
  <2>5. OffsetShape'
    BY <1>0, <1>1, <2>1, <2>2, <2>4 DEF OffsetShape
  <2>6. Begun' = Begun + Len(q)
    <3>1. Begun' = 1 + (upload.offset + length + 2) \div 3
      BY <2>2 DEF Begun
    <3>2. (upload.offset + 2) \div 3 \in Nat /\ (length + 2) \div 3 \in Nat
      <4>1. \A k \in Nat : (k + 2) \div 3 \in Nat
        OBVIOUS
      <4>2. upload.offset \in Nat /\ length \in Nat
        BY <2>1, <2>4
      <4>. QED  BY <4>1, <4>2
    <3>. QED  BY <2>3, <2>4, <3>1, <3>2
  <2>. QED  BY <1>1, <2>2, <2>3, <2>4, <2>5, <2>6, PartKeepsBody
<1>5. ASSUME NEW x \in {"quote", "suffix"}, Send(x, <<Text(x)>>, upload.offset),
             upload.offset = wav, Begun = IF x = "quote" THEN WavQuads + 1 ELSE WavQuads + 2
      PROVE  BodyInv'
  <2>1. upload' = [part |-> x, left |-> <<Text(x)>>, offset |-> wav]
    BY <1>5 DEF Send
  <2>2. WavQuads \in Nat
    BY <1>0 DEF WavQuads
  <2>3. RequestUnit(Begun + 1) = Text(x) /\ Text(x) \in UnitsOfRequest
    <3>1. RequestUnit(Begun + 1) = Text(x)
      BY <1>5, <2>2 DEF RequestUnit
    <3>2. Begun + 1 \in Nat
      BY <1>5, <2>2
    <3>. QED  BY <3>1, <3>2 DEF UnitsOfRequest
  <2>4. Begun' = Begun + 1
    <3>1. WavQuads' = WavQuads
      BY <1>1, UnitsKept
    <3>2. CASE x = "quote"
      <4>1. Begun' = WavQuads' + 2
        BY <2>1, <3>2 DEF Begun
      <4>. QED  BY <1>5, <2>2, <3>1, <3>2, <4>1
    <3>3. CASE x = "suffix"
      <4>1. Begun' = WavQuads' + 3
        BY <2>1, <3>3 DEF Begun
      <4>. QED  BY <1>5, <2>2, <3>1, <3>3, <4>1
    <3>. QED  BY <3>2, <3>3
  <2>5. <<Text(x)>> \in Seq(UnitsOfRequest) /\ Len(<<Text(x)>>) = 1 /\ <<Text(x)>>[1] = Text(x)
    <3>1. \A S, y : y \in S => <<y>> \in Seq(S) /\ Len(<<y>>) = 1 /\ <<y>>[1] = y
      OBVIOUS
    <3>. QED  BY <2>3, <3>1
  <2>6. OffsetShape'
    BY <1>0, <1>1, <1>5, <2>1 DEF OffsetShape
  <2>. QED  BY <1>1, <2>1, <2>3, <2>4, <2>5, <2>6, PartKeepsBody
<1>6. CASE /\ upload.part \in {"prefix", "audio"} /\ upload.offset >= wav
           /\ Send("quote", <<Text("quote")>>, upload.offset)
  <2>1. upload.offset = wav
    BY <1>0, <1>2, <1>6 DEF OffsetShape
  <2>2. Begun = WavQuads + 1
    BY <1>0, <1>2, <1>6, <2>1, WavAssumption DEF Begun, WavQuads, OffsetShape
  <2>. QED  BY <1>5, <1>6, <2>1, <2>2
<1>7. CASE upload.part = "quote" /\ Send("suffix", <<Text("suffix")>>, upload.offset)
  <2>1. upload.offset = wav /\ Begun = WavQuads + 2
    BY <1>2, <1>7 DEF OffsetShape, Begun
  <2>. QED  BY <1>5, <1>7, <2>1
<1>. QED  BY <1>0, <1>3, <1>4, <1>6, <1>7, NextCases

\* The steps that leave the upload alone.
QuietStep ==
  \/ StartRequest \/ OpenConnection \/ PrepareWrite \/ EndOfUpload \/ AwaitAnswer \/ BeginAnswer
  \/ FetchHeaders \/ PrepareRead \/ Read \/ ParseAnswer \/ EnterLog \/ WriteLog
  \/ CancelAsr \/ ClearDiagnostics

LEMMA QuietFrame ==
  ASSUME QuietStep
  PROVE  UNCHANGED <<wav, upload, wire>> /\ (request'.pc # "done" => request.pc # "done")
<1>1. CASE CancelAsr \/ ClearDiagnostics
  BY <1>1 DEF CancelAsr, ClearDiagnostics
<1>2. CASE StartRequest \/ OpenConnection \/ PrepareWrite \/ EndOfUpload
  BY <1>2 DEF StartRequest, OpenConnection, PrepareWrite, EndOfUpload, UploadFrame, AsrFrame,
     Waiting, At, Call
<1>3. CASE AwaitAnswer \/ BeginAnswer \/ FetchHeaders \/ PrepareRead \/ Read
  BY <1>3 DEF AwaitAnswer, BeginAnswer, FetchHeaders, PrepareRead, Read, AnswerFrame,
     AsrFrame, At
<1>4. CASE ParseAnswer
  BY <1>4 DEF ParseAnswer, AnswerFrame, AsrFrame, At
<1>5. CASE EnterLog \/ WriteLog
  BY <1>5 DEF EnterLog, WriteLog, AsrFrame, At
<1>. QED  BY <1>1, <1>2, <1>3, <1>4, <1>5 DEF QuietStep

\* UploadInv is kept by every step.
LEMMA StepKeepsUpload ==
  ASSUME CallInv, UploadInv, AsrNext
  PROVE  UploadInv'
<1>1. BodyInv'
  <2>1. CASE QuietStep
    BY <2>1, QuietFrame, BodyKept DEF UploadInv
  <2>2. CASE ~QuietStep
    BY <2>2, QueueKeepsBody, WriteKeepsBody, NextKeepsBody DEF AsrNext, AsrTask, QuietStep,
       UploadInv
  <2>. QED  BY <2>1, <2>2
<1>2. StageInv'
  BY QueueKeepsStage, OthersKeepStage, StartRequestKeepsStage, OpenConnectionKeepsStage,
     PrepareWriteKeepsStage, WriteKeepsStage, NextPartKeepsStage, EndOfUploadKeepsStage,
     AwaitAnswerKeepsStage, BeginAnswerKeepsStage, FetchHeadersKeepsStage,
     PrepareReadKeepsStage,
     ReadKeepsStage, ParseAnswerKeepsStage, EnterLogKeepsStage, WriteLogKeepsStage
     DEF AsrNext, AsrTask, UploadInv
<1>. QED  BY <1>1, <1>2 DEF UploadInv

\* A request that was sent to its end is whole.
LEMMA SentIsWhole ==
  ASSUME CallInv, BodyInv, request.pc # "done", AllSent
  PROVE  UploadIsWhole /\ Bytes(wire) > 0
<1>1. /\ wire \in Seq(UnitsOfRequest) /\ Len(wire) = WavQuads + 3 /\ wav \in Nat \ {0}
      /\ \A n \in 1 .. Len(wire) : wire[n] = RequestUnit(n)
  <2>1. Len(upload.left) = 0 /\ Len(wire) \in Nat /\ upload.part = "suffix"
    BY EmptySeq, LenProperties DEF AllSent, BodyInv
  <2>. QED  BY <2>1, WavAssumption DEF BodyInv, Begun
<1>2. WavQuads \in Nat /\ DOMAIN wire = 1 .. WavQuads + 3
  BY <1>1, LenProperties DEF WavQuads
<1>3. wire = [n \in 1 .. WavQuads + 3 |-> RequestUnit(n)]
  <2>1. wire \in [1 .. WavQuads + 3 -> UnitsOfRequest]
    BY <1>1, LenProperties
  <2>. QED  BY <1>1, <2>1
<1>4. {i \in DOMAIN wire : wire[i].kind = "quad"} = 2 .. WavQuads + 1
  <2>1. ASSUME NEW n \in 1 .. WavQuads + 3
        PROVE  RequestUnit(n).kind = "quad" <=> n \in 2 .. WavQuads + 1
    <3>1. CASE n = 1 \/ ~(n <= WavQuads + 1)
      BY <1>2, <3>1 DEF RequestUnit, Text
    <3>2. CASE n # 1 /\ n <= WavQuads + 1
      BY <1>2, <3>2 DEF RequestUnit, WavQuad
    <3>. QED  BY <3>1, <3>2
  <2>2. \A n \in 1 .. WavQuads + 3 : wire[n] = RequestUnit(n)
    BY <1>1
  <2>. QED  BY <1>2, <2>1, <2>2
<1>5. Cardinality(2 .. WavQuads + 1) = WavQuads
  BY <1>2, FS_Interval
<1>6. Bytes(wire) = PostLength /\ Bytes(wire) > 0
  <2>1. Bytes(wire) = WavQuads + 3 + 3 * WavQuads
    BY <1>1, <1>4, <1>5 DEF Bytes
  <2>. QED  BY <1>1, <1>2, <2>1 DEF PostLength, WavQuads
<1>. QED  BY <1>3, <1>6 DEF UploadIsWhole

-----------------------------------------------------------------------------
\* The answer.

\* The steps that parse no answer.
Unparsed ==
  \/ StartRequest \/ OpenConnection \/ PrepareWrite \/ Write \/ NextPart \/ EndOfUpload
  \/ AwaitAnswer \/ BeginAnswer \/ FetchHeaders \/ PrepareRead \/ Read \/ EnterLog \/ WriteLog

\* They leave the text of the call alone, give it OK only when it is cancelled,
\* and take in an answer only before its end.
LEMMA UnparsedMoves ==
  ASSUME CallInv, Unparsed
  PROVE  /\ request'.text = request.text
         /\ request'.status = "OK" => request.status = "OK" \/ ~RequestIsCurrent
         /\ Point' # "done" => Point # "done" /\ request'.status = request.status
         /\ Point # "done" \/ UNCHANGED answer
<1>. USE DEF CallInv
<1>1. CASE StartRequest
  <2>1. UNCHANGED answer
    BY <1>1 DEF StartRequest, UploadFrame
  <2>. QED  BY <1>1, <2>1, StartMoves DEF LogShape, Point, At, Moved, Over, Logged
<1>2. CASE OpenConnection
  <2>1. UNCHANGED answer
    BY <1>2 DEF OpenConnection, UploadFrame
  <2>. QED  BY <1>2, <2>1, OpenMoves DEF LogShape, Point, At, Moved, Goes, Ends
<1>3. CASE PrepareWrite
  <2>1. UNCHANGED answer
    BY <1>3 DEF PrepareWrite, UploadFrame
  <2>. QED  BY <1>3, <2>1, PrepareMoves DEF LogShape, Point, At, Moved, Goes, Ends
<1>4. CASE Write
  <2>1. UNCHANGED answer
    BY <1>4 DEF Write, UploadFrame
  <2>. QED  BY <1>4, <2>1, WriteMoves DEF LogShape, Point, At, Moved, Goes, Ends
<1>5. CASE NextPart
  <2>1. UNCHANGED answer
    BY <1>5 DEF NextPart, UploadFrame
  <2>. QED  BY <1>5, <2>1, NextMoves DEF LogShape, Point, At, Moved, Goes, Ends
<1>6. CASE EndOfUpload
  <2>1. UNCHANGED answer
    BY <1>6 DEF EndOfUpload, UploadFrame
  <2>. QED  BY <1>6, <2>1, EndMoves DEF LogShape, Point, At, Moved
<1>7. CASE AwaitAnswer
  <2>1. UNCHANGED answer
    BY <1>7 DEF AwaitAnswer
  <2>. QED  BY <1>7, <2>1, AwaitMoves DEF LogShape, Point, At, Moved, Goes, Over, Transported
<1>8. CASE BeginAnswer
  BY <1>8, BeginMoves DEF LogShape, Point, At, Moved, Over, Says, Logged
<1>9. CASE FetchHeaders
  BY <1>9, FetchMoves DEF LogShape, Point, At, Moved, Says, Logged
<1>10. CASE PrepareRead
  BY <1>10, PrepareReadMoves DEF LogShape, Point, At, Moved, Goes, Over, Says
<1>11. CASE Read
  BY <1>11, ReadMoves DEF LogShape, Point, At, Moved, Goes, Says
<1>12. CASE EnterLog
  <2>1. UNCHANGED answer
    BY <1>12 DEF EnterLog
  <2>. QED  BY <1>12, <2>1, EnterMoves DEF RequestTyped, LogShape, Point, Points, Uploading,
               Awaiting, At, Moved, Goes, Logged
<1>13. CASE WriteLog
  <2>1. UNCHANGED answer
    BY <1>13 DEF WriteLog
  <2>. QED  BY <1>13, <2>1, WriteLogMoves DEF LogShape, Point, At, Moved, Logged
<1>. QED  BY <1>1, <1>2, <1>3, <1>4, <1>5, <1>6, <1>7, <1>8, <1>9, <1>10, <1>11, <1>12,
             <1>13 DEF Unparsed

\* AnswerInv: OK is said of a parsed transcript or of a cancelled request.
LEMMA AnswerInit == AsrInit => AnswerInv
BY EpochAssumption DEF AsrInit, AnswerInv, RequestIsCurrent, Point

LEMMA StepKeepsAnswer ==
  ASSUME CallInv, EpochInv, AnswerInv, AsrNext
  PROVE  AnswerInv'
<1>1. CASE QueueRecording
  BY <1>1 DEF QueueRecording, AnswerInv, Point
<1>2. CASE CancelAsr
  BY <1>2, CancelKeepsEpoch DEF CancelAsr, AnswerInv, Point
<1>3. CASE ClearDiagnostics
  BY <1>3 DEF ClearDiagnostics, AnswerInv, Point, RequestIsCurrent
<1>4. CASE Unparsed
  <2>1. RequestIsCurrent' => RequestIsCurrent
    BY <1>4, TaskKeepsEpoch DEF Unparsed, AsrTask, RequestIsCurrent, CallInv
  <2>. QED  BY <1>4, <2>1, UnparsedMoves DEF AnswerInv
<1>5. CASE ParseAnswer
  <2>1. UNCHANGED answer /\ At("parse")
    BY <1>5 DEF ParseAnswer
  <2>2. answer.http \in {"OK", "AUTH"}
    BY <2>1 DEF CallInv, AnswerShape, Point, At
  <2>3. PICK s \in {"OK", "AUTH", "PARSE", "BUFFER_TOO_SMALL"} :
          /\ Moved("log", request.ret, s, Respond, "done", s = "OK")
          /\ s = "OK" => answer.end \in 1 .. answer.read
    BY <1>5, <2>2, ParseMoves DEF CallInv
  <2>4. request'.status = s /\ (request'.text <=> s = "OK") /\ Point' = "done"
    BY <2>3 DEF Moved, Point
  <2>. QED  BY <2>1, <2>3, <2>4 DEF AnswerInv
<1>. QED  BY <1>1, <1>2, <1>3, <1>4, <1>5 DEF AsrNext, AsrTask, Unparsed

\* The request is live only as the invariants say.
LEMMA Faithful ==
  ASSUME CallInv, UploadInv, AnswerInv
  PROVE  AsrIsFaithful
<1>1. AwaitsAnswer => UploadIsWhole
  BY SentIsWhole DEF AwaitsAnswer, UploadInv, StageInv, Sent, Awaiting, Point
<1>. QED  BY <1>1 DEF AsrIsFaithful, AnswerInv, At

\* The steps that neither enter nor write a record.
Unlogged ==
  \/ StartRequest \/ OpenConnection \/ PrepareWrite \/ Write \/ NextPart \/ EndOfUpload
  \/ AwaitAnswer \/ BeginAnswer \/ FetchHeaders \/ PrepareRead \/ Read \/ ParseAnswer

\* A call that has something to record had recorded what came before.
Telling == Reported /\ (Point # "done" \/ request.log # <<>>)

LEMMA UnloggedFrame ==
  ASSUME Unlogged
  PROVE  UNCHANGED <<asrDiag, diagLock>>
BY DEF Unlogged, StartRequest, OpenConnection, PrepareWrite, Write, NextPart, EndOfUpload,
   AwaitAnswer, BeginAnswer, FetchHeaders, PrepareRead, Read, ParseAnswer, UploadFrame,
   AnswerFrame

\* They begin no record of a call that has not recorded what came before.
LEMMA UnloggedMoves ==
  ASSUME CallInv, Unlogged
  PROVE  /\ request.pc # "logging" /\ request'.pc # "logging"
         /\ Telling' => Telling
         /\ Telling' /\ Completed' => Completed
<1>. USE RecordsDiffer DEF CallInv, Telling, Reported, Completed, Point, Uploads, Responses, Awaiting
<1>1. CASE StartRequest
  BY <1>1, StartMoves DEF LogShape, At, Moved, Over, Logged
<1>2. CASE OpenConnection
  BY <1>2, OpenMoves DEF LogShape, At, Moved, Goes, Ends
<1>3. CASE PrepareWrite
  BY <1>3, PrepareMoves DEF LogShape, At, Moved, Goes, Ends
<1>4. CASE Write
  BY <1>4, WriteMoves DEF LogShape, At, Moved, Goes, Ends
<1>5. CASE NextPart
  BY <1>5, NextMoves DEF LogShape, At, Moved, Goes, Ends
<1>6. CASE EndOfUpload
  BY <1>6, EndMoves DEF LogShape, At, Moved
<1>7. CASE AwaitAnswer
  BY <1>7, AwaitMoves DEF LogShape, At, Moved, Goes, Over
<1>8. CASE BeginAnswer
  BY <1>8, BeginMoves DEF LogShape, At, Moved, Over, Says, Logged
<1>9. CASE FetchHeaders
  BY <1>9, FetchMoves DEF LogShape, At, Moved, Says, Logged
<1>10. CASE PrepareRead
  BY <1>10, PrepareReadMoves DEF LogShape, At, Moved, Goes, Over, Says
<1>11. CASE Read
  BY <1>11, ReadMoves DEF LogShape, At, Moved, Goes, Says
<1>12. CASE ParseAnswer
  <2>1. At("parse")
    BY <1>12 DEF ParseAnswer
  <2>2. answer.http \in {"OK", "AUTH"}
    BY <2>1 DEF CallInv, AnswerShape, Point, At
  <2>. QED  BY <1>12, <2>1, <2>2, ParseMoves DEF LogShape, At, Moved
<1>. QED  BY <1>1, <1>2, <1>3, <1>4, <1>5, <1>6, <1>7, <1>8, <1>9, <1>10, <1>11, <1>12
             DEF Unlogged

\* DiagInv: what is recorded is the call's own, or of no current interaction.
LEMMA DiagInit == AsrInit => DiagInv
BY EpochAssumption DEF AsrInit, DiagInv, DiagShape, Record, Epochs, Phases, Late, Reported

\* A record the call may enter is of a call that has recorded what came before.
LEMMA EnterLogKeepsDiag ==
  ASSUME CallInv, DiagInv, EnterLog
  PROVE  DiagInv'
<1>1. /\ At("log") /\ ~diagLock /\ UNCHANGED <<asrDiag, wav, asrEpoch, canceller>>
      /\ request.then \in Points /\ request.then # "logging"
      /\ (RequestIsCurrent' <=> RequestIsCurrent) /\ request'.epoch = request.epoch
  <2>1. request'.epoch = request.epoch
    BY EnterMoves DEF CallInv, Moved, Goes, Logged
  <2>. QED  BY <2>1 DEF EnterLog, AsrFrame, CallInv, RequestTyped, RequestIsCurrent, Points,
               Uploading, Awaiting
<1>2. request.log # <<>> /\ request.log # Ready /\ RequestIsCurrent => Own
  BY <1>1 DEF CallInv, LogShape, RequestTyped, Logs, Uploads, Responses, DiagInv, Reported,
     Point, At
<1>3. CASE request.log = <<>> /\ Goes(request.then) /\ UNCHANGED diagLock
  <2>1. Point' = Point /\ request'.log = request.log /\ request'.ret = request.ret
        /\ request'.pc = request.then
    BY <1>1, <1>3 DEF Moved, Goes, Point, At, Points, Uploading, Awaiting
  <2>2. (Completed' <=> Completed) /\ (Reported' => Reported) /\ PostLength' = PostLength
    BY <1>1, <2>1 DEF Completed, Reported, PostLength, At
  <2>3. Own => Own'
    BY <1>1, <2>2 DEF Own
  <2>. QED  BY <1>1, <1>3, <2>1, <2>2, <2>3 DEF DiagInv, DiagShape, At
<1>4. CASE request.log # <<>> /\ MayLog(Head(request.log)) /\ Goes("logging") /\ diagLock'
  <2>1. Point' = Point /\ request'.log = request.log /\ request'.ret = request.ret
        /\ request'.pc = "logging"
    BY <1>1, <1>4 DEF Moved, Goes, Point, At
  <2>2. (Completed' <=> Completed) /\ (Reported' => Reported) /\ PostLength' = PostLength
    BY <1>1, <2>1 DEF Completed, Reported, PostLength, At
  <2>3. Own => Own'
    BY <1>1, <2>2 DEF Own
  <2>4. RequestIsCurrent
    BY <1>4 DEF MayLog
  <2>. QED  BY <1>1, <1>2, <1>4, <2>1, <2>2, <2>3, <2>4 DEF DiagInv, DiagShape, At
<1>5. CASE /\ request.log # <<>> /\ ~MayLog(Head(request.log)) /\ UNCHANGED diagLock
           /\ Logged(Tail(request.log), request.then)
  <2>1. ~RequestIsCurrent
    BY <1>2, <1>5, RecordsTaken DEF MayLog, Own
  <2>2. request'.pc = "log"
    BY <1>5 DEF Moved, Logged
  <2>. QED  BY <1>1, <1>5, <2>1, <2>2 DEF DiagInv, DiagShape, At
<1>. QED  BY <1>3, <1>4, <1>5, EnterMoves DEF CallInv

\* What a record says of the upload.
LEMMA BytesTyped ==
  ASSUME BodyInv, request.pc # "done"
  PROVE  Bytes(wire) \in Nat /\ PostLength \in Nat \ {0}
<1>1. wire \in Seq(UnitsOfRequest) /\ wav \in Nat \ {0}
  BY WavAssumption DEF BodyInv
<1>2. Len(wire) \in Nat /\ DOMAIN wire = 1 .. Len(wire)
  BY <1>1, LenProperties
<1>3. IsFiniteSet(1 .. Len(wire))
  BY <1>2, FS_Interval
<1>4. Cardinality({i \in DOMAIN wire : wire[i].kind = "quad"}) \in Nat
  <2>1. {i \in DOMAIN wire : wire[i].kind = "quad"} \subseteq 1 .. Len(wire)
    BY <1>2
  <2>. QED  BY <1>3, <2>1, FS_Subset, FS_CardinalityType
<1>. QED  BY <1>1, <1>2, <1>4 DEF Bytes, PostLength

\* A record written late is still of the current interaction or of none, and
\* the one that ends the upload says what the server has received.
LEMMA WriteLogKeepsDiag ==
  ASSUME CallInv, UploadInv, DiagInv, WriteLog
  PROVE  DiagInv'
<1>. DEFINE phase == Head(request.log)
<1>1. /\ At("logging") /\ ~diagLock' /\ UNCHANGED <<wav, asrEpoch, canceller>>
      /\ request.log # <<>> /\ request.epoch \in Epochs /\ request.log \in Logs
      /\ request' = [pc |-> "log", epoch |-> request.epoch, ret |-> request.ret,
                     status |-> request.status, log |-> Tail(request.log),
                     then |-> request.then, text |-> request.text]
  BY WriteLogMoves DEF WriteLog, AsrFrame, CallInv, LogShape, RequestTyped, At, Moved, Logged
<1>2. (RequestIsCurrent' <=> RequestIsCurrent) /\ Point' = request.then /\ Point = request.then
      /\ PostLength' = PostLength /\ request'.pc = "log"
  BY <1>1 DEF RequestIsCurrent, Point, At, PostLength
<1>3. Bytes(wire) \in Nat /\ PostLength \in Nat \ {0}
  BY <1>1, BytesTyped DEF UploadInv, At
<1>4. asrDiag' = CASE phase = "REQUEST_READY" -> Record(request.epoch, phase, PostLength, 0)
                   [] phase \in {"UPLOAD_COMPLETE", "UPLOAD_FAILED"} ->
                        [asrDiag EXCEPT !.phase = phase, !.uploaded = Bytes(wire)]
                   [] OTHER -> [asrDiag EXCEPT !.phase = phase]
  BY DEF WriteLog
<1>5. asrDiag = [epoch |-> asrDiag.epoch, phase |-> asrDiag.phase, posted |-> asrDiag.posted,
                 uploaded |-> asrDiag.uploaded]
      /\ asrDiag.epoch \in Epochs /\ asrDiag.posted \in Nat /\ asrDiag.uploaded \in Nat
  BY DEF DiagInv, DiagShape
<1>6. ASSUME asrDiag'.epoch = request.epoch, asrDiag'.phase \in Phases, asrDiag'.posted \in Nat,
             asrDiag'.uploaded \in Nat,
             asrDiag' = [epoch |-> asrDiag'.epoch, phase |-> asrDiag'.phase,
                         posted |-> asrDiag'.posted, uploaded |-> asrDiag'.uploaded],
             asrDiag'.phase \in Late => asrDiag'.uploaded = asrDiag'.posted /\ asrDiag'.posted > 0,
             Own' \/ ~Telling'
      PROVE  DiagInv'
  <2>1. DiagShape'
    BY <1>1, <1>2, <1>6 DEF DiagShape
  <2>2. canceller'.pc = "idle" => asrDiag'.epoch \in {0, asrEpoch'}
    BY <1>1, <1>6 DEF DiagInv, RequestIsCurrent, At
  <2>. QED  BY <1>2, <1>6, <2>1, <2>2 DEF DiagInv, Telling
<1>7. CASE request.log = Ready
  <2>1. asrDiag' = Record(request.epoch, "REQUEST_READY", PostLength, 0)
    BY <1>4, <1>7, RecordsTaken
  <2>2. request.then \in {"open", "done"} /\ request'.log = <<>>
    BY <1>1, <1>7, RecordsTaken DEF CallInv, LogShape
  <2>3. Own'
    BY <1>1, <1>2, <2>1, <2>2, RecordsDiffer DEF Own, Record, Completed, Awaiting, Responses
  <2>. QED  BY <1>3, <1>6, <2>1, <2>3 DEF Record, Phases, Late
<1>8. CASE request.log # Ready
  <2>1. Own
    BY <1>1, <1>8 DEF DiagInv, At
  <2>2. CASE request.log = Complete
    <3>1. asrDiag' = [epoch |-> asrDiag.epoch, phase |-> "UPLOAD_COMPLETE",
                      posted |-> asrDiag.posted, uploaded |-> Bytes(wire)]
      BY <1>4, <1>5, <2>2, RecordsTaken
    <3>2. Bytes(wire) = PostLength
      BY <1>1, <2>2, SentIsWhole DEF UploadInv, StageInv, Sent, UploadIsWhole, At
    <3>3. Own'
      BY <1>1, <1>2, <2>1, <3>1, <3>2 DEF Own
    <3>. QED  BY <1>3, <1>5, <1>6, <2>1, <3>1, <3>2, <3>3 DEF Phases, Late, Own
  <2>3. CASE request.log = Failed
    <3>1. asrDiag' = [epoch |-> asrDiag.epoch, phase |-> "UPLOAD_FAILED",
                      posted |-> asrDiag.posted, uploaded |-> Bytes(wire)]
      BY <1>4, <1>5, <2>3, RecordsTaken
    <3>2. request.then = "turn" /\ request'.log = <<>> /\ request.ret # "OK"
      BY <1>1, <2>3, RecordsTaken, RecordsDiffer DEF CallInv, LogShape, Uploads
    <3>3. Own'
      BY <1>1, <1>2, <2>1, <3>1, <3>2, RecordsDiffer DEF Own, Completed, Awaiting, Responses
    <3>. QED  BY <1>3, <1>5, <1>6, <2>1, <3>1, <3>3 DEF Phases, Late, Own
  <2>4. CASE request.log \in Responses
    <3>1. /\ phase \in {"WAITING_HEADERS", "RESPONSE_COMPLETE"}
          /\ asrDiag' = [epoch |-> asrDiag.epoch, phase |-> phase,
                         posted |-> asrDiag.posted, uploaded |-> asrDiag.uploaded]
      BY <1>4, <1>5, <2>4, RecordsTaken DEF Responses
    <3>2. asrDiag.uploaded = asrDiag.posted /\ asrDiag.posted = PostLength
      BY <2>1, <2>4 DEF Own, Completed
    <3>3. Own'
      BY <1>1, <1>2, <2>1, <3>1, <3>2 DEF Own
    <3>. QED  BY <1>3, <1>5, <1>6, <2>1, <3>1, <3>2, <3>3 DEF Phases, Late, Own
  <2>. QED  BY <1>1, <1>8, <2>2, <2>3, <2>4 DEF Logs, Uploads
<1>. QED  BY <1>7, <1>8

\* DiagInv is kept by every step.
LEMMA StepKeepsDiag ==
  ASSUME CallInv, EpochInv, UploadInv, DiagInv, AsrNext
  PROVE  DiagInv'
<1>1. CASE QueueRecording
  <2>1. /\ request'.pc = "start" /\ At("done") /\ UNCHANGED <<asrDiag, diagLock, asrEpoch, canceller>>
    BY <1>1 DEF QueueRecording
  <2>. QED  BY <2>1 DEF DiagInv, DiagShape, Reported, Point, At
<1>2. CASE CancelAsr
  <2>1. /\ UNCHANGED <<asrDiag, diagLock, request, wav>> /\ ~RequestIsCurrent'
        /\ canceller'.pc # "idle"
    BY <1>2, CancelKeepsEpoch DEF CancelAsr
  <2>2. Own => Own'
    BY <2>1 DEF Own, Completed, PostLength, Point
  <2>. QED  BY <2>1, <2>2 DEF DiagInv, DiagShape
<1>3. CASE ClearDiagnostics
  <2>1. /\ asrDiag' = Record(asrEpoch, "IDLE", 0, 0) /\ UNCHANGED <<diagLock, request, asrEpoch>>
        /\ ~diagLock /\ canceller.pc = "clear"
    BY <1>3 DEF ClearDiagnostics
  <2>2. ~RequestIsCurrent' /\ asrEpoch \in Epochs
    BY <2>1 DEF EpochInv, RequestIsCurrent
  <2>. QED  BY <2>1, <2>2 DEF DiagInv, DiagShape, Record, Phases, Late
<1>4. CASE Unlogged
  <2>1. /\ UNCHANGED <<asrDiag, diagLock, wav, asrEpoch, canceller>>
        /\ request'.epoch = request.epoch
    BY <1>4, UnloggedFrame, TaskKeepsEpoch DEF AsrTask, Unlogged
  <2>2. (RequestIsCurrent' <=> RequestIsCurrent) /\ PostLength' = PostLength
    BY <2>1 DEF RequestIsCurrent, PostLength
  <2>3. Telling' /\ RequestIsCurrent' => Own'
    BY <1>4, <2>1, <2>2, UnloggedMoves DEF DiagInv, Own, Telling
  <2>. QED  BY <1>4, <2>1, <2>2, <2>3, UnloggedMoves DEF DiagInv, DiagShape, Telling
<1>. QED  BY <1>1, <1>2, <1>3, <1>4, EnterLogKeepsDiag, WriteLogKeepsDiag DEF AsrNext,
             AsrTask, Unlogged

\* What a status request reads is current.
LEMMA Current ==
  ASSUME DiagInv
  PROVE  DiagnosticsAreCurrent
BY DEF DiagInv, DiagShape, DiagnosticsAreCurrent, Late

-----------------------------------------------------------------------------
\* Time.

\* A call of the client takes no longer than its timeout ...
LEMMA CallTakes ==
  ASSUME StopInv, NEW d, Call(d)
  PROVE  /\ d \in 0 .. clock.timeout
         /\ clock' = [elapsed |-> clock.elapsed + d, timeout |-> clock.timeout]
         /\ asrLate' = asrLate + (IF RequestIsCurrent THEN 0 ELSE 1)
BY DEF StopInv, Call

\* ... which leaves it within the time limit.
LEMMA TimeoutSet ==
  ASSUME StopInv, ~TimeIsUp, SetTimeout
  PROVE  /\ clock' \in [elapsed : Nat, timeout : Nat]
         /\ clock'.elapsed + clock'.timeout <= TimeLimit /\ clock'.elapsed <= TimeLimit
BY TimeAssumption DEF StopInv, TimeIsUp, SetTimeout, Least

\* The clock runs in the calls of the client alone, and a call is entered in
\* time, by a request that is current.
LEMMA TaskClock ==
  ASSUME CallInv, StopInv, AsrTask
  PROVE  \/ /\ UNCHANGED <<clock, asrLate>>
            /\ Point' \in {"start", "open"} => Point \in {"start", "open"}
            /\ Point' \in {"writing", "fetch", "reading"} => Point' = Point
            /\ Point' = "opening" => Point = "opening" \/ (Point = "open" /\ RequestIsCurrent)
         \/ /\ RequestIsCurrent /\ ~TimeIsUp /\ SetTimeout /\ UNCHANGED asrLate
            /\ Point' \notin {"start", "open", "opening"}
         \/ /\ Point \in Calling /\ Point' \notin {"start", "open"} \cup Calling
            /\ \E d \in 0 .. clock.timeout : Call(d)
<1>. USE RecordsDiffer DEF CallInv, Point, Calling
<1>1. CASE StartRequest
  <2>1. UNCHANGED <<clock, asrLate>>
    BY <1>1 DEF StartRequest, Waiting
  <2>. QED  BY <1>1, <2>1, StartMoves DEF LogShape, At, Moved, Over, Logged
<1>2. CASE OpenConnection
  <2>1. /\ At("opening") \/ UNCHANGED <<clock, asrLate>>
        /\ At("opening") => \E d \in 0 .. SocketTimeout : Call(d)
    BY <1>2 DEF OpenConnection, Waiting, At
  <2>2. At("opening") => \E d \in 0 .. clock.timeout : Call(d)
    BY <2>1 DEF StopInv, At
  <2>. QED  BY <1>2, <2>1, <2>2, OpenMoves DEF LogShape, At, Moved, Goes, Ends
<1>3. CASE PrepareWrite
  <2>1. /\ At("write") /\ UNCHANGED asrLate
        /\ \/ UNCHANGED clock /\ (Goto("next") \/ \E ret \in {"INVALID_STATE", "TIMEOUT"} : EndUpload(ret))
           \/ RequestIsCurrent /\ ~TimeIsUp /\ SetTimeout /\ Goto("writing")
    BY <1>3 DEF PrepareWrite
  <2>. QED  BY <2>1, Writers DEF At, Moved, Goes, Ends
<1>4. CASE Write
  <2>1. \E d \in 0 .. clock.timeout : Call(d)
    BY <1>4 DEF Write, Call
  <2>. QED  BY <1>4, <2>1, WriteMoves DEF LogShape, At, Moved, Goes, Ends
<1>5. CASE NextPart
  <2>1. UNCHANGED <<clock, asrLate>>
    BY <1>5 DEF NextPart, Waiting
  <2>. QED  BY <1>5, <2>1, NextMoves DEF LogShape, At, Moved, Goes, Ends
<1>6. CASE EndOfUpload
  <2>1. UNCHANGED <<clock, asrLate>>
    BY <1>6 DEF EndOfUpload, Waiting
  <2>. QED  BY <1>6, <2>1, EndMoves DEF LogShape, At, Moved
<1>7. CASE AwaitAnswer
  <2>1. /\ UNCHANGED asrLate
        /\ UNCHANGED clock \/ (At("turn") /\ RequestIsCurrent /\ ~TimeIsUp /\ SetTimeout)
    <3>1. CASE At("turn")
      BY <1>7, <3>1 DEF AwaitAnswer, At
    <3>2. CASE ~At("turn")
      BY <1>7, <3>2 DEF AwaitAnswer
    <3>. QED  BY <3>1, <3>2
  <2>. QED  BY <1>7, <2>1, AwaitMoves DEF LogShape, At, Moved, Goes, Over
<1>8. CASE BeginAnswer
  <2>1. /\ UNCHANGED asrLate
        /\ \/ UNCHANGED clock /\ (Abandoned \/ Answered(<<>>, "TIMEOUT"))
           \/ RequestIsCurrent /\ ~TimeIsUp /\ SetTimeout
    BY <1>8 DEF BeginAnswer
  <2>2. CASE UNCHANGED clock /\ (Abandoned \/ Answered(<<>>, "TIMEOUT"))
    <3>1. Over("PROVIDER") \/ Says(Respond, "TIMEOUT")
      BY <2>2, Writers
    <3>. QED  BY <2>1, <2>2, <3>1 DEF Moved, Over, Says
  <2>3. CASE RequestIsCurrent /\ ~TimeIsUp /\ SetTimeout
    BY <1>8, <2>1, <2>3, BeginMoves DEF LogShape, At, Moved, Over, Says, Logged
  <2>. QED  BY <2>1, <2>2, <2>3
<1>9. CASE FetchHeaders
  <2>1. \E d \in 0 .. clock.timeout : Call(d)
    BY <1>9 DEF FetchHeaders, Call
  <2>. QED  BY <1>9, <2>1, FetchMoves DEF LogShape, At, Moved, Says, Logged
<1>10. CASE PrepareRead
  <2>1. /\ At("body") /\ UNCHANGED asrLate
        /\ \/ UNCHANGED clock /\ (Goto("parse") \/ Abandoned \/ Answered(<<>>, "TIMEOUT"))
           \/ RequestIsCurrent /\ ~TimeIsUp /\ SetTimeout /\ Goto("reading")
    BY <1>10 DEF PrepareRead
  <2>. QED  BY <2>1, Writers DEF At, Moved, Goes, Over, Says
<1>11. CASE Read
  <2>1. \E d \in 0 .. clock.timeout : Call(d)
    BY <1>11 DEF Read, Call
  <2>. QED  BY <1>11, <2>1, ReadMoves DEF LogShape, At, Moved, Goes, Says
<1>12. CASE ParseAnswer
  <2>1. UNCHANGED <<clock, asrLate>> /\ At("parse")
    BY <1>12 DEF ParseAnswer
  <2>2. answer.http \in {"OK", "AUTH"}
    BY <2>1 DEF AnswerShape, At
  <2>. QED  BY <1>12, <2>1, <2>2, ParseMoves DEF LogShape, At, Moved
<1>13. CASE EnterLog
  <2>1. UNCHANGED <<clock, asrLate>>
    BY <1>13 DEF EnterLog
  <2>2. Point' = Point
    BY <1>13, EnterMoves DEF RequestTyped, Points, Uploading, Awaiting, At, Moved, Goes, Logged
  <2>. HIDE DEF Point
  <2>. QED  BY <2>1, <2>2
<1>14. CASE WriteLog
  <2>1. UNCHANGED <<clock, asrLate>>
    BY <1>14 DEF WriteLog
  <2>2. Point' = Point
    BY <1>14, WriteLogMoves DEF At, Moved, Logged
  <2>. HIDE DEF Point
  <2>. QED  BY <2>1, <2>2
<1>. QED  BY <1>1, <1>2, <1>3, <1>4, <1>5, <1>6, <1>7, <1>8, <1>9, <1>10, <1>11, <1>12,
             <1>13, <1>14
     DEF AsrTask

\* StopInv holds at the start, and every step keeps it.
LEMMA StopInit == AsrInit => StopInv
BY TimeAssumption DEF AsrInit, StopInv, Point, Calling

LEMMA StepKeepsStop ==
  ASSUME CallInv, EpochInv, StopInv, AsrNext
  PROVE  StopInv'
<1>1. CASE QueueRecording
  BY <1>1, TimeAssumption DEF QueueRecording, StopInv, Point, Calling
<1>2. CASE CancelAsr
  BY <1>2, CancelKeepsEpoch DEF CancelAsr, StopInv, Point
<1>3. CASE ClearDiagnostics
  BY <1>3 DEF ClearDiagnostics, StopInv, Point, RequestIsCurrent
<1>4. CASE AsrTask
  <2>1. RequestIsCurrent' <=> RequestIsCurrent
    BY <1>4, TaskKeepsEpoch DEF RequestIsCurrent
  <2>2. CASE /\ UNCHANGED <<clock, asrLate>>
             /\ Point' \in {"start", "open"} => Point \in {"start", "open"}
             /\ Point' \in {"writing", "fetch", "reading"} => Point' = Point
             /\ Point' = "opening" => Point = "opening" \/ (Point = "open" /\ RequestIsCurrent)
    BY <2>1, <2>2, TimeAssumption DEF StopInv, Calling
  <2>3. CASE /\ RequestIsCurrent /\ ~TimeIsUp /\ SetTimeout /\ UNCHANGED asrLate
             /\ Point' \notin {"start", "open", "opening"}
    BY <2>1, <2>3, TimeoutSet DEF StopInv
  <2>4. ASSUME NEW d \in 0 .. clock.timeout, Call(d),
               Point \in Calling, Point' \notin {"start", "open"} \cup Calling
        PROVE  StopInv'
    <3>1. /\ clock' = [elapsed |-> clock.elapsed + d, timeout |-> clock.timeout]
          /\ asrLate' = (IF RequestIsCurrent THEN 0 ELSE 1)
      BY <2>4, CallTakes DEF StopInv
    <3>2. /\ clock.elapsed \in Nat /\ clock.timeout \in Nat
          /\ clock.elapsed + clock.timeout <= TimeLimit
      BY <2>4 DEF StopInv
    <3>3. clock.elapsed + d \in Nat /\ clock.elapsed + d <= TimeLimit
      BY <3>2, TimeAssumption
    <3>. QED  BY <2>1, <2>4, <3>1, <3>2, <3>3 DEF StopInv, Calling
  <2>. QED  BY <1>4, <2>2, <2>3, <2>4, TaskClock
<1>. QED  BY <1>1, <1>2, <1>3, <1>4 DEF AsrNext

\* A request that keeps to StopInv stops in time.
LEMMA Stops == ASSUME StopInv PROVE AsrStopsInTime
BY DEF StopInv, AsrStopsInTime

-----------------------------------------------------------------------------
\* The recognition as a whole.

\* The inductive invariant.
AsrInductive == CallInv /\ EpochInv /\ UploadInv /\ AnswerInv /\ DiagInv /\ StopInv

\* A step of another client changes nothing.
LEMMA StutterKeepsAsr ==
  ASSUME AsrInductive, UNCHANGED asrVars
  PROVE  AsrInductive'
<1>1. CallInv' /\ EpochInv'
  BY DEF asrVars, AsrInductive, CallInv, RequestTyped, LogShape, AnswerShape, UploadTyped,
     Point,
     EpochInv, Rank, RequestIsCurrent
<1>2. UploadInv'
  <2>1. BodyInv'
    BY BodyKept DEF asrVars, AsrInductive, UploadInv
  <2>. QED  BY <2>1 DEF asrVars, AsrInductive, UploadInv, StageInv, Point, Sent, AllSent
<1>3. AnswerInv' /\ StopInv'
  BY DEF asrVars, AsrInductive, AnswerInv, StopInv, Point, RequestIsCurrent
<1>4. DiagInv'
  BY DEF asrVars, AsrInductive, DiagInv, DiagShape, Reported, Completed, Own, Point, PostLength,
     RequestIsCurrent
<1>. QED  BY <1>1, <1>2, <1>3, <1>4 DEF AsrInductive

\* AsrInductive is inductive.
LEMMA AsrInitially == AsrInit => AsrInductive
BY CallInit, EpochInit, StageInit, AnswerInit, DiagInit, StopInit DEF AsrInductive, UploadInv

LEMMA AsrStepInductive == AsrInductive /\ [AsrNext]_asrVars => AsrInductive'
BY StepKeepsCall, StepKeepsEpoch, StepKeepsUpload, StepKeepsAnswer, StepKeepsDiag,
   StepKeepsStop,
   StutterKeepsAsr DEF AsrInductive

\* AsrInductive is an invariant: the call, its epoch, the bytes on the wire, the
\* answer, the diagnostics and the clock agree at every point of a request.
THEOREM AsrInductively == AsrSpec => []AsrInductive
BY AsrInitially, AsrStepInductive, PTL DEF AsrSpec

\* The server is asked for an answer only to the whole recording, sent once
\* however the writes were cut, and OK means a transcript it sent
\* (aiqa_asr_client.c, 798-897).
THEOREM AsrFaithful == AsrSpec => []AsrIsFaithful
<1>1. AsrInductive => AsrIsFaithful
  BY Faithful DEF AsrInductive
<1>. QED  BY <1>1, AsrInductively, PTL

\* The diagnostics are of the current interaction, however late the request of
\* an earlier one writes its own (aiqa_asr_client.c, 53-133, 158-171).
THEOREM AsrCurrent == AsrSpec => []DiagnosticsAreCurrent
<1>1. AsrInductive => DiagnosticsAreCurrent
  BY Current DEF AsrInductive
<1>. QED  BY <1>1, AsrInductively, PTL

\* The calls of one request share its time limit, and a cancelled one begins at
\* most one more (aiqa_asr_client.c, 256-311, 399-439).
THEOREM AsrStops == AsrSpec => []AsrStopsInTime
<1>1. AsrInductive => AsrStopsInTime
  BY Stops DEF AsrInductive
<1>. QED  BY <1>1, AsrInductively, PTL

-----------------------------------------------------------------------------
\* The question to the model: its end.

ChatCalling == {"opening", "writing", "fetch", "reading"}

ChatShape ==
  chat = [pc |-> chat.pc, stream |-> chat.stream, ret |-> chat.ret, http |-> chat.http,
          status |-> chat.status]

\* A call is begun by a request that is live, or was when it was last asked.
ChatStopInv ==
  /\ ChatShape /\ chatLate \in {0, 1}
  /\ chatLive \/ chat.pc \in ChatCalling => chatLate = 0

\* ChatStopInv is inductive.
LEMMA ChatStopInit == ChatInit => ChatStopInv
BY DEF ChatInit, ChatStopInv, ChatShape, ChatCalling

\* A step of the call leaves its answer streamed or not, and all but the last
\* leave its status.
CallSteps(s) == ChatShape' /\ chat'.stream = chat.stream /\ chat'.status = s

\* What the steps of the request do to its record.
LEMMA ChatWriters ==
  ASSUME ChatShape
  PROVE  /\ \A pc : ChatGoes(pc) => CallSteps(chat.status) /\ chat'.pc = pc
         /\ \A ret : EndCall(ret) => CallSteps(chat.status) /\ chat'.pc = "conclude"
         /\ \A s : ConcludeWith(s) => CallSteps(s) /\ chat'.pc = "done"
         /\ \A http : chat' = [chat EXCEPT !.pc = "read", !.http = http]
              => CallSteps(chat.status) /\ chat'.pc = "read"
<1>1. ASSUME NEW pc, ChatGoes(pc) PROVE CallSteps(chat.status) /\ chat'.pc = pc
  BY <1>1 DEF ChatShape, CallSteps, ChatGoes
<1>2. ASSUME NEW ret, EndCall(ret) PROVE CallSteps(chat.status) /\ chat'.pc = "conclude"
  BY <1>2 DEF ChatShape, CallSteps, EndCall
<1>3. ASSUME NEW s, ConcludeWith(s) PROVE CallSteps(s) /\ chat'.pc = "done"
  BY <1>3 DEF ChatShape, CallSteps, ConcludeWith
<1>4. ASSUME NEW http, chat' = [chat EXCEPT !.pc = "read", !.http = http]
      PROVE  CallSteps(chat.status) /\ chat'.pc = "read"
  BY <1>4 DEF ChatShape, CallSteps
<1>. QED  BY <1>1, <1>2, <1>3, <1>4

LEMMA ChatStepKeepsStop ==
  ASSUME ChatStopInv, [ChatNext]_chatVars
  PROVE  ChatStopInv'
<1>1. CASE StartChat
  <2>1. UNCHANGED <<chatLive, chatLate>> /\ \E pc \in {"open", "done"} : ChatGoes(pc)
    BY <1>1 DEF StartChat, BufferFrame
  <2>2. ChatShape' /\ chat'.pc \in {"open", "done"}
    BY <2>1, ChatWriters DEF ChatStopInv, CallSteps
  <2>. QED  BY <2>1, <2>2 DEF ChatStopInv, ChatCalling
<1>2. CASE CheckEpoch
  <2>1. UNCHANGED <<chatLive, chatLate>>
    BY <1>2 DEF CheckEpoch, BufferFrame
  <2>2. \/ chatLive /\ \E pc \in ChatCalling : ChatGoes(pc)
        \/ ChatGoes("answer") \/ (\E ret \in {"FAIL", "INVALID_STATE"} : EndCall(ret))
    BY <1>2 DEF CheckEpoch, ChatCalling
  <2>3. ChatShape' /\ (chatLive \/ chat'.pc \in {"answer", "conclude"})
    BY <2>2, ChatWriters DEF ChatStopInv, CallSteps
  <2>. QED  BY <2>1, <2>3 DEF ChatStopInv, ChatCalling
<1>3. CASE CallServer
  <2>1. /\ chat.pc \in ChatCalling /\ UNCHANGED chatLive
        /\ chatLate' = chatLate + (IF chatLive THEN 0 ELSE 1)
    BY <1>3 DEF CallServer, ChatCalls, BufferFrame, ChatCalling, ChatAt
  <2>2. \/ ChatGoes("write") \/ EndCall("FAIL")
        \/ \E http : chat' = [chat EXCEPT !.pc = "read", !.http = http]
    BY <1>3 DEF CallServer
  <2>3. ChatShape' /\ chat'.pc \in {"write", "conclude", "read"}
    BY <2>2, ChatWriters DEF ChatStopInv, CallSteps
  <2>. QED  BY <2>1, <2>3 DEF ChatStopInv, ChatCalling
<1>4. CASE ReadChunk
  <2>1. /\ chat.pc \in ChatCalling /\ UNCHANGED chatLive
        /\ chatLate' = chatLate + (IF chatLive THEN 0 ELSE 1)
    BY <1>4 DEF ReadChunk, ChatCalls, ChatCalling, ChatAt
  <2>2. ChatGoes("read") \/ \E ret : EndCall(ret)
    BY <1>4 DEF ReadChunk
  <2>3. ChatShape' /\ chat'.pc \in {"read", "conclude"}
    BY <2>2, ChatWriters DEF ChatStopInv, CallSteps
  <2>. QED  BY <2>1, <2>3 DEF ChatStopInv, ChatCalling
<1>5. CASE ConcludeAnswer
  <2>1. UNCHANGED <<chatLive, chatLate>> /\ \E s : ConcludeWith(s)
    BY <1>5, Zenon DEF ConcludeAnswer
  <2>2. ChatShape' /\ chat'.pc = "done"
    BY <2>1, ChatWriters DEF ChatStopInv, CallSteps
  <2>. QED  BY <2>1, <2>2 DEF ChatStopInv, ChatCalling
<1>6. CASE CancelChat
  BY <1>6 DEF CancelChat, ChatStopInv, ChatShape, ChatCalling
<1>7. CASE UNCHANGED chatVars
  BY <1>7 DEF chatVars, ChatStopInv, ChatShape, ChatCalling
<1>. QED  BY <1>1, <1>2, <1>3, <1>4, <1>5, <1>6, <1>7 DEF ChatNext

-----------------------------------------------------------------------------
(* The question to the model: its answer.  First, induction over the       *)
(* natural numbers, and what is defined by recursion on them.              *)

\* From the well-foundedness of Nat.
LEMMA LeastOfNats ==
  ASSUME NEW T, T \subseteq Nat, T # {}
  PROVE  \E x \in T : \A y \in T : x <= y
<1>. DEFINE R == {p \in Nat \X Nat : p[1] < p[2]}
<1>1. IsWellFoundedOn(OpToRel(<, Nat), Nat)
  BY NatLessThanWellFounded
<1>2. OpToRel(<, Nat) = R
  BY DEF OpToRel
<1>3. IsWellFoundedOn(R, Nat)
  BY <1>1, <1>2
<1>4. \A x, y \in Nat : ~(<<y, x>> \in R) => x <= y
  BY SMT
<1>. HIDE DEF R
<1>5. \E x \in T : \A y \in T : ~(<<y, x>> \in R)
  BY <1>3, WFMin
<1>. QED  BY <1>4, <1>5

\* Induction, for a set of numbers.
LEMMA EveryNat ==
  ASSUME NEW T, 0 \in T, \A n \in Nat : n \in T => n + 1 \in T
  PROVE  \A n \in Nat : n \in T
<1>. SUFFICES ASSUME NEW k \in Nat, k \notin T PROVE FALSE
  OBVIOUS
<1>1. PICK x \in Nat \ T : \A y \in Nat \ T : x <= y
  BY LeastOfNats
<1>2. x - 1 \in Nat /\ x - 1 \in T
  BY <1>1
<1>. QED  BY <1>1, <1>2

\* The function with a first value and a step exists.
IsIteration(f, S, b, step) ==
  f \in [Nat -> S] /\ f[0] = b /\ \A n \in Nat : f[n + 1] = step[<<n, f[n]>>]

LEMMA Iterated ==
  ASSUME NEW S, NEW b \in S, NEW step \in [Nat \X S -> S]
  PROVE  \E f : IsIteration(f, S, b, step)
<1>. DEFINE Upto(n) == {g \in [0 .. n -> S] :
                          g[0] = b /\ \A i \in 0 .. n - 1 : g[i + 1] = step[<<i, g[i]>>]}
<1>1. \A n \in Nat : Upto(n) # {}
  <2>. DEFINE T == {n \in Nat : Upto(n) # {}}
  <2>1. [i \in 0 .. 0 |-> b] \in Upto(0)
    OBVIOUS
  <2>2. ASSUME NEW n \in Nat, NEW g \in Upto(n)
        PROVE  \E h : h \in Upto(n + 1)
    <3>. DEFINE h == [i \in 0 .. n + 1 |-> IF i = n + 1 THEN step[<<n, g[n]>>] ELSE g[i]]
    <3>1. step[<<n, g[n]>>] \in S
      OBVIOUS
    <3>2. h \in [0 .. n + 1 -> S]
      BY <3>1
    <3>3. h[0] = b
      OBVIOUS
    <3>4. ASSUME NEW i \in 0 .. n PROVE h[i + 1] = step[<<i, h[i]>>]
      <4>1. CASE i = n
        <5>1. h[n + 1] = step[<<n, g[n]>>] /\ h[n] = g[n]
          OBVIOUS
        <5>. QED  BY <4>1, <5>1
      <4>2. CASE i # n
        <5>1. i \in 0 .. n - 1 /\ i + 1 \in 0 .. n /\ i + 1 # n + 1 /\ i # n + 1
          BY <4>2
        <5>. QED  BY <5>1
      <4>. QED  BY <4>1, <4>2
    <3>5. n + 1 - 1 = n
      OBVIOUS
    <3>. HIDE DEF h
    <3>. QED  BY <3>2, <3>3, <3>4, <3>5
  <2>3. 0 \in T
    BY <2>1
  <2>4. \A n \in Nat : n \in T => n + 1 \in T
    BY <2>2
  <2>. HIDE DEF T
  <2>5. \A n \in Nat : n \in T
    BY <2>3, <2>4, EveryNat
  <2>. QED  BY <2>5 DEF T
<1>2. ASSUME NEW n \in Nat, NEW g \in Upto(n), NEW h \in Upto(n + 1)
      PROVE  g[n] = h[n]
  <2>. DEFINE T == {i \in Nat : i <= n => g[i] = h[i]}
  <2>1. 0 \in T
    OBVIOUS
  <2>2. ASSUME NEW i \in Nat, i \in T PROVE i + 1 \in T
    <3>. SUFFICES ASSUME i + 1 <= n PROVE g[i + 1] = h[i + 1]
      OBVIOUS
    <3>1. i \in 0 .. n - 1 /\ i \in 0 .. n + 1 - 1 /\ g[i] = h[i]
      BY <2>2
    <3>2. g[i + 1] = step[<<i, g[i]>>] /\ h[i + 1] = step[<<i, h[i]>>]
      BY <3>1
    <3>. QED  BY <3>1, <3>2
  <2>. HIDE DEF T
  <2>3. n \in T
    BY <2>1, <2>2, EveryNat
  <2>. QED  BY <2>3 DEF T
<1>. DEFINE G(n) == CHOOSE g : g \in Upto(n)
            f == [n \in Nat |-> G(n)[n]]
<1>3. \A n \in Nat : G(n) \in Upto(n)
  <2>. HIDE DEF Upto
  <2>. QED  BY <1>1
<1>. HIDE DEF G
<1>4. f \in [Nat -> S]
  BY <1>3
<1>5. f[0] = b
  BY <1>3
<1>6. ASSUME NEW n \in Nat PROVE f[n + 1] = step[<<n, f[n]>>]
  <2>1. G(n) \in Upto(n) /\ G(n + 1) \in Upto(n + 1)
    BY <1>3
  <2>2. G(n)[n] = G(n + 1)[n]
    BY <1>2, <2>1
  <2>3. n \in 0 .. n + 1 - 1
    OBVIOUS
  <2>4. G(n + 1)[n + 1] = step[<<n, G(n + 1)[n]>>]
    BY <2>1, <2>3
  <2>. HIDE DEF Upto
  <2>. QED  BY <2>2, <2>4
<1>. HIDE DEF f
<1>. QED  BY <1>4, <1>5, <1>6 DEF IsIteration

\* FlattenSeq, one element after the other.
IsFlattening(f, S, w, m) ==
  /\ f \in [Nat -> Seq(S)] /\ f[0] = <<>>
  /\ \A n \in Nat : n < m => f[n + 1] = f[n] \o w[n + 1]
  /\ \A n \in 0 .. m : FlattenSeq([k \in 1 .. n |-> w[k]]) = f[n]

LEMMA FlattenSteps ==
  ASSUME NEW S, NEW m \in Nat, NEW w \in [1 .. m -> Seq(S)]
  PROVE  \E f : IsFlattening(f, S, w, m)
<1>. DEFINE step == [p \in Nat \X Seq(S) |-> IF p[1] < m THEN p[2] \o w[p[1] + 1] ELSE p[2]]
<1>1. step \in [Nat \X Seq(S) -> Seq(S)]
  <2>. SUFFICES ASSUME NEW i \in Nat, NEW q \in Seq(S), i < m
                PROVE  q \o w[i + 1] \in Seq(S)
    OBVIOUS
  <2>1. w[i + 1] \in Seq(S)
    OBVIOUS
  <2>. QED  BY <2>1, ConcatProperties
<1>2. <<>> \in Seq(S)
  OBVIOUS
<1>3. PICK f \in [Nat -> Seq(S)] :
        f[0] = <<>> /\ \A n \in Nat : f[n + 1] = step[<<n, f[n]>>]
  <2>1. PICK Q : Q = Seq(S)
    OBVIOUS
  <2>2. PICK e : e = <<>>
    OBVIOUS
  <2>3. step \in [Nat \X Q -> Q] /\ e \in Q
    BY <1>1, <1>2, <2>1, <2>2
  <2>. HIDE DEF step
  <2>4. \E f : IsIteration(f, Q, e, step)
    BY <2>3, Iterated
  <2>. QED  BY <2>1, <2>2, <2>4 DEF IsIteration
<1>4. ASSUME NEW n \in Nat, n < m
      PROVE  f[n + 1] = f[n] \o w[n + 1]
  BY <1>3, <1>4
<1>5. ASSUME NEW n \in 0 .. m
      PROVE  FlattenSeq([k \in 1 .. n |-> w[k]]) = f[n]
  <2>. DEFINE s == [k \in 1 .. n |-> w[k]]
              Is(g) == g = [i \in 1 .. n |-> IF i = 1 THEN w[1] ELSE g[i - 1] \o w[i]]
              g1 == CHOOSE g : g = [i \in 1 .. Len(s) |-> IF i = 1 THEN s[i] ELSE g[i - 1] \o s[i]]
  <2>1. s \in Seq(Seq(S)) /\ Len(s) = n /\ \A i \in 1 .. n : s[i] = w[i]
    OBVIOUS
  <2>2. CASE n = 0
    <3>1. s = <<>>
      BY <2>1, <2>2
    <3>. QED  BY <1>3, <2>1, <2>2, <3>1 DEF FlattenSeq
  <2>3. CASE n # 0
    <3>1. FlattenSeq(s) = g1[n]
      <4>. HIDE DEF s
      <4>. QED  BY <2>1, <2>3 DEF FlattenSeq
    <3>2. DEFINE h == [i \in 1 .. n |-> f[i]]
    <3>3. h = [i \in 1 .. n |-> IF i = 1 THEN s[i] ELSE h[i - 1] \o s[i]]
      <4>1. ASSUME NEW i \in 1 .. n
            PROVE  h[i] = IF i = 1 THEN s[i] ELSE h[i - 1] \o s[i]
        <5>1. f[i] = f[i - 1] \o w[i]
          <6>1. i - 1 \in Nat /\ i - 1 < m /\ (i - 1) + 1 = i
            OBVIOUS
          <6>. QED  BY <1>4, <6>1
        <5>2. CASE i = 1
          <6>1. w[1] \in Seq(S)
            BY <5>2
          <6>2. <<>> \o w[1] = w[1]
            BY <6>1, ConcatEmptySeq
          <6>3. h[i] = f[i] /\ s[i] = w[1] /\ f[i - 1] = <<>>
            BY <1>3, <5>2
          <6>. HIDE DEF h, s
          <6>. QED  BY <5>1, <5>2, <6>2, <6>3
        <5>3. CASE i # 1
          <6>1. h[i - 1] = f[i - 1] /\ h[i] = f[i] /\ s[i] = w[i]
            BY <5>3
          <6>. QED  BY <5>1, <5>3, <6>1
        <5>. QED  BY <5>2, <5>3
      <4>. HIDE DEF s
      <4>. QED  BY <4>1
    <3>4. g1 = [i \in 1 .. n |-> IF i = 1 THEN s[i] ELSE g1[i - 1] \o s[i]]
      <4>. HIDE DEF h, s
      <4>. QED  BY <2>1, <3>3
    <3>5. \A i \in 1 .. n : g1[i] = IF i = 1 THEN s[i] ELSE g1[i - 1] \o s[i]
      <4>. HIDE DEF g1, s
      <4>. QED  BY <3>4
    <3>6. \A i \in 1 .. n : h[i] = IF i = 1 THEN s[i] ELSE h[i - 1] \o s[i]
      <4>. HIDE DEF h, s
      <4>. QED  BY <3>3
    <3>7. g1[n] = h[n]
      <4>. HIDE DEF g1, h, s
      <4>. DEFINE T == {j \in Nat : j + 1 <= n => g1[j + 1] = h[j + 1]}
      <4>1. 0 \in T
        BY <3>5, <3>6
      <4>2. ASSUME NEW j \in Nat, j \in T PROVE j + 1 \in T
        <5>. SUFFICES ASSUME j + 2 <= n PROVE g1[j + 2] = h[j + 2]
          OBVIOUS
        <5>1. j + 2 \in 1 .. n /\ j + 2 # 1 /\ (j + 2) - 1 = j + 1
          OBVIOUS
        <5>2. g1[j + 2] = g1[j + 1] \o s[j + 2] /\ h[j + 2] = h[j + 1] \o s[j + 2]
          BY <3>5, <3>6, <5>1
        <5>3. g1[j + 1] = h[j + 1]
          BY <4>2
        <5>. QED  BY <5>2, <5>3
      <4>3. \A j \in Nat : j \in T => j + 1 \in T
        BY <4>2
      <4>4. n - 1 \in Nat /\ (n - 1) + 1 = n
        BY <2>3
      <4>5. \A j \in T : j + 1 <= n => g1[j + 1] = h[j + 1]
        OBVIOUS
      <4>. HIDE DEF T
      <4>6. n - 1 \in T
        BY <4>1, <4>3, <4>4, EveryNat
      <4>7. (n - 1) + 1 <= n
        OBVIOUS
      <4>8. g1[(n - 1) + 1] = h[(n - 1) + 1]
        BY <4>5, <4>6, <4>7
      <4>. QED  BY <4>4, <4>8
    <3>8. h[n] = f[n]
      BY <2>3
    <3>. HIDE DEF g1, h
    <3>. QED  BY <3>1, <3>7, <3>8
  <2>. QED  BY <2>2, <2>3
<1>. QED  BY <1>3, <1>4, <1>5 DEF IsFlattening

-----------------------------------------------------------------------------
(* What the server sends *)

\* The units, typed.
Kinds == {"lf", "cr", "head", "tail", "fill", "done"}
Units == [kind : Kinds, id : Nat]

\* The events of the answer, the first n of them as they are streamed, and
\* what they say.
EventCount == Len(script.events)
Event(i)  == Payload(i) \o script.separator
Stream(n) == FlattenSeq([k \in 1 .. n |-> Event(k)])
Said(n)   == FlattenSeq([k \in 1 .. n |-> Delta(Payload(k))])
Offset(n) == Len(Stream(n))

\* The least of a set, once one is named.
LEMMA MinIs ==
  ASSUME NEW T, T \subseteq Int, NEW x \in T, \A y \in T : x <= y
  PROVE  Min(T) = x
<1>1. \E z \in T : \A y \in T : z <= y
  OBVIOUS
<1>2. Min(T) \in T /\ \A y \in T : Min(T) <= y
  BY <1>1 DEF Min
<1>3. Min(T) <= x /\ x <= Min(T) /\ Min(T) \in Int
  BY <1>2
<1>. QED  BY <1>3

LEMMA LeastOfTwo ==
  ASSUME NEW a \in Int, NEW c \in Int
  PROVE  Min({a, c}) = IF a <= c THEN a ELSE c
BY MinIs

\* What <<h>> \o f and <<h>> \o f \o <<t>> consist of.
LEMMA HeadedIs ==
  ASSUME NEW S, NEW h \in S, NEW f \in Seq(S)
  PROVE  LET p == <<h>> \o f IN
         /\ p \in Seq(S) /\ Len(p) = Len(f) + 1 /\ p[1] = h
         /\ \A k \in 2 .. Len(f) + 1 : p[k] = f[k - 1]
<1>. DEFINE a == <<h>>
<1>1. a \in Seq(S) /\ Len(a) = 1 /\ a[1] = h /\ Len(f) \in Nat
  OBVIOUS
<1>. HIDE DEF a
<1>2. /\ a \o f \in Seq(S) /\ Len(a \o f) = Len(a) + Len(f)
      /\ \A k \in 1 .. Len(a) + Len(f) :
           (a \o f)[k] = IF k <= Len(a) THEN a[k] ELSE f[k - Len(a)]
  BY <1>1, ConcatProperties
<1>3. (a \o f)[1] = h /\ \A k \in 2 .. Len(f) + 1 : (a \o f)[k] = f[k - 1]
  BY <1>1, <1>2
<1>4. a \o f \in Seq(S) /\ Len(a \o f) = Len(f) + 1
  BY <1>1, <1>2
<1>. QED  BY <1>3, <1>4 DEF a

LEMMA WrappedIs ==
  ASSUME NEW S, NEW h \in S, NEW t \in S, NEW f \in Seq(S)
  PROVE  LET p == <<h>> \o f \o <<t>> IN
         /\ p \in Seq(S) /\ Len(p) = Len(f) + 2 /\ p[1] = h /\ p[Len(f) + 2] = t
         /\ \A k \in 2 .. Len(f) + 1 : p[k] = f[k - 1]
<1>. DEFINE a == <<h>> \o f
            c == <<t>>
<1>1. /\ a \in Seq(S) /\ Len(a) = Len(f) + 1 /\ a[1] = h /\ Len(f) \in Nat
      /\ \A k \in 2 .. Len(f) + 1 : a[k] = f[k - 1]
  BY HeadedIs
<1>2. c \in Seq(S) /\ Len(c) = 1 /\ c[1] = t
  OBVIOUS
<1>. HIDE DEF a, c
<1>3. /\ a \o c \in Seq(S) /\ Len(a \o c) = Len(a) + Len(c)
      /\ \A k \in 1 .. Len(a) + Len(c) :
           (a \o c)[k] = IF k <= Len(a) THEN a[k] ELSE c[k - Len(a)]
  BY <1>1, <1>2, ConcatProperties
<1>4. (a \o c)[1] = h /\ (a \o c)[Len(f) + 2] = t
      /\ \A k \in 2 .. Len(f) + 1 : (a \o c)[k] = f[k - 1]
  BY <1>1, <1>2, <1>3
<1>5. a \o c \in Seq(S) /\ Len(a \o c) = Len(f) + 2
  BY <1>1, <1>2, <1>3
<1>. QED  BY <1>4, <1>5 DEF a, c

LEMMA UnitsTyped ==
  /\ LF \in Units /\ CR \in Units /\ LF # CR
  /\ \A i \in Nat : \A kind \in Kinds : Unit(kind, i) \in Units /\ Unit(kind, i).kind = kind
BY DEF LF, CR, Unit, Units, Kinds

\* The events the server can send, and what separates them.
LEMMA ScriptTyped ==
  ASSUME script \in Scripts
  PROVE  /\ EventCount \in Nat \ {0} /\ \A i \in 1 .. EventCount : script.events[i] \in EventShapes
         /\ script.separator \in {<<LF, LF>>, <<CR, LF, CR, LF>>}
         /\ script.separator \in Seq(Units)
         /\ Len(script.separator) \in {2, 4}
<1>1. script.separator \in {<<LF, LF>>, <<CR, LF, CR, LF>>}
  BY DEF Scripts
<1>2. PICK n \in 1 .. MaxEvents : script.events \in [1 .. n -> EventShapes]
  BY DEF Scripts
<1>3. n \in Nat \ {0}
  BY ChatAssumption
<1>4. EventCount = n
  BY <1>2, <1>3 DEF EventCount
<1>5. script.separator \in Seq(Units) /\ Len(script.separator) \in {2, 4}
  <2>. DEFINE a == <<LF, LF>>
              c == <<CR, LF, CR, LF>>
  <2>1. a \in Seq(Units) /\ Len(a) = 2 /\ c \in Seq(Units) /\ Len(c) = 4
    BY UnitsTyped
  <2>2. script.separator \in {a, c}
    BY <1>1
  <2>. HIDE DEF a, c
  <2>. QED  BY <2>1, <2>2
<1>. QED  BY <1>1, <1>2, <1>3, <1>4, <1>5

\* An event holds no unit of a separator, and what its delta is read from lies
\* at its ends.
LEMMA PayloadIs ==
  ASSUME script \in Scripts, NEW i \in 1 .. EventCount
  PROVE  /\ Payload(i) \in Seq(Units) /\ Len(Payload(i)) \in Nat \ {0}
         /\ \A k \in 1 .. Len(Payload(i)) : Payload(i)[k] \notin {LF, CR}
                                            /\ Payload(i)[k].kind \notin {"lf", "cr"}
         /\ \/ /\ script.events[i].kind = "delta" /\ Len(Payload(i)) >= 2
               /\ Payload(i)[1].kind = "head" /\ Payload(i)[Len(Payload(i))].kind = "tail"
               /\ \A k \in 2 .. Len(Payload(i)) - 1 : Payload(i)[k].kind = "fill"
            \/ /\ script.events[i].kind = "done" /\ Len(Payload(i)) = 1
               /\ Payload(i)[1].kind = "done"
            \/ /\ script.events[i].kind = "other"
               /\ \A k \in 1 .. Len(Payload(i)) : Payload(i)[k].kind = "fill"
<1>1. PICK e : e = script.events[i]
  OBVIOUS
<1>2. /\ e \in EventShapes /\ e.kind \in {"delta", "done", "other"} /\ i \in Nat
      /\ e.fill \in Nat
  BY <1>1, ScriptTyped, ChatAssumption DEF EventShapes
<1>3. PICK n \in Nat : n = e.fill
  BY <1>2
<1>. DEFINE fill == [k \in 1 .. n |-> Unit("fill", i)]
            p == Payload(i)
<1>4. \A kind \in Kinds : Unit(kind, i) \in Units
  BY <1>2, UnitsTyped
<1>5. fill \in Seq(Units) /\ Len(fill) = n /\ \A k \in 1 .. n : fill[k] = Unit("fill", i)
  <2>1. PICK u \in Units : u = Unit("fill", i)
    BY <1>4 DEF Kinds
  <2>2. fill = [k \in 1 .. n |-> u]
    BY <2>1
  <2>. HIDE DEF fill
  <2>. QED  BY <2>1, <2>2
<1>6. /\ \A kind \in {"head", "tail", "fill", "done"} :
           Unit(kind, i) \notin {LF, CR} /\ Unit(kind, i).kind = kind
  BY DEF Unit, LF, CR
<1>7. p = CASE e.kind = "delta" -> <<Unit("head", i)>> \o fill \o <<Unit("tail", i)>>
            [] e.kind = "done" -> <<Unit("done", i)>>
            [] e.kind = "other" -> <<Unit("fill", i)>> \o fill
  BY <1>1, <1>3 DEF Payload
<1>. HIDE DEF fill, p
<1>8. CASE e.kind = "delta"
  <2>1. p = <<Unit("head", i)>> \o fill \o <<Unit("tail", i)>>
    BY <1>7, <1>8
  <2>2. /\ p \in Seq(Units) /\ Len(p) = n + 2
        /\ p[1] = Unit("head", i) /\ p[n + 2] = Unit("tail", i)
        /\ \A k \in 2 .. n + 1 : p[k] = fill[k - 1]
    BY <1>4, <1>5, <2>1, WrappedIs DEF Kinds
  <2>3. \A k \in 2 .. n + 1 : p[k] = Unit("fill", i)
    BY <1>5, <2>2
  <2>4. \A k \in 1 .. n + 2 : p[k] \notin {LF, CR} /\ p[k].kind \notin {"lf", "cr"}
    <3>1. \A k \in 1 .. n + 2 : k = 1 \/ k = n + 2 \/ k \in 2 .. n + 1
      OBVIOUS
    <3>. QED  BY <1>6, <2>2, <2>3, <3>1
  <2>5. p[1].kind = "head" /\ p[n + 2].kind = "tail"
        /\ \A k \in 2 .. n + 1 : p[k].kind = "fill"
    BY <1>6, <2>2, <2>3
  <2>6. Len(p) \in Nat \ {0} /\ Len(p) >= 2 /\ Len(p) - 1 = n + 1
    BY <2>2
  <2>. QED  BY <1>1, <1>8, <2>2, <2>4, <2>5, <2>6 DEF p
<1>9. CASE e.kind = "done"
  <2>1. p = <<Unit("done", i)>>
    BY <1>7, <1>9
  <2>2. PICK u \in Units : u = Unit("done", i)
    BY <1>4 DEF Kinds
  <2>3. p \in Seq(Units) /\ Len(p) = 1 /\ p[1] = u
    BY <2>1, <2>2
  <2>4. u.kind = "done" /\ u \notin {LF, CR}
    BY <1>6, <2>2
  <2>. QED  BY <1>1, <1>9, <2>3, <2>4 DEF p
<1>10. CASE e.kind = "other"
  <2>1. p = <<Unit("fill", i)>> \o fill
    BY <1>7, <1>10
  <2>2. /\ p \in Seq(Units) /\ Len(p) = n + 1 /\ p[1] = Unit("fill", i)
        /\ \A k \in 2 .. n + 1 : p[k] = fill[k - 1]
    BY <1>4, <1>5, <2>1, HeadedIs DEF Kinds
  <2>3. \A k \in 1 .. n + 1 : p[k] = Unit("fill", i)
    BY <1>5, <2>2
  <2>4. \A k \in 1 .. n + 1 : p[k] \notin {LF, CR} /\ p[k].kind = "fill"
    BY <1>6, <2>3
  <2>. QED  BY <1>1, <1>10, <2>2, <2>4 DEF p
<1>. QED  BY <1>2, <1>8, <1>9, <1>10

\* An event with the separator behind it.
LEMMA EventIs ==
  ASSUME script \in Scripts, NEW i \in 1 .. EventCount
  PROVE  /\ Event(i) \in Seq(Units)
         /\ Len(Event(i)) = Len(Payload(i)) + Len(script.separator)
         /\ \A k \in 1 .. Len(Payload(i)) : Event(i)[k] = Payload(i)[k]
         /\ \A k \in 1 .. Len(script.separator) :
              Event(i)[Len(Payload(i)) + k] = script.separator[k]
<1>1. Payload(i) \in Seq(Units) /\ script.separator \in Seq(Units)
  BY PayloadIs, ScriptTyped
<1>2. PICK p \in Seq(Units), q \in Seq(Units) : p = Payload(i) /\ q = script.separator
  BY <1>1
<1>3. /\ p \o q \in Seq(Units) /\ Len(p \o q) = Len(p) + Len(q)
      /\ \A k \in 1 .. Len(p) + Len(q) :
           (p \o q)[k] = IF k <= Len(p) THEN p[k] ELSE q[k - Len(p)]
  BY ConcatProperties
<1>4. Len(p) \in Nat /\ Len(q) \in Nat
  OBVIOUS
<1>5. \A k \in 1 .. Len(p) : (p \o q)[k] = p[k]
  BY <1>3, <1>4
<1>6. \A k \in 1 .. Len(q) : (p \o q)[Len(p) + k] = q[k]
  BY <1>3, <1>4
<1>. QED  BY <1>2, <1>3, <1>5, <1>6 DEF Event

\* The stream grows by one event at a time.
LEMMA StreamSteps ==
  ASSUME script \in Scripts
  PROVE  /\ Stream(0) = <<>>
         /\ \A n \in 0 .. EventCount : Stream(n) \in Seq(Units) /\ Offset(n) \in Nat
         /\ \A n \in 0 .. EventCount - 1 : Stream(n + 1) = Stream(n) \o Event(n + 1)
<1>. DEFINE w == [k \in 1 .. EventCount |-> Event(k)]
<1>1. EventCount \in Nat /\ w \in [1 .. EventCount -> Seq(Units)]
  BY ScriptTyped, EventIs
<1>2. \A n \in 0 .. EventCount : [k \in 1 .. n |-> w[k]] = [k \in 1 .. n |-> Event(k)]
  BY <1>1
<1>3. \A k \in 1 .. EventCount : w[k] = Event(k)
  OBVIOUS
<1>. HIDE DEF w
<1>4. PICK f : IsFlattening(f, Units, w, EventCount)
  BY <1>1, FlattenSteps
<1>5. /\ f \in [Nat -> Seq(Units)] /\ f[0] = <<>>
      /\ \A n \in Nat : n < EventCount => f[n + 1] = f[n] \o w[n + 1]
      /\ \A n \in 0 .. EventCount : FlattenSeq([k \in 1 .. n |-> w[k]]) = f[n]
  BY <1>4 DEF IsFlattening
<1>6. \A n \in 0 .. EventCount : Stream(n) = f[n]
  BY <1>2, <1>5 DEF Stream
<1>7. \A n \in 0 .. EventCount : Stream(n) \in Seq(Units) /\ Offset(n) \in Nat
  BY <1>5, <1>6, LenProperties DEF Offset
<1>8. ASSUME NEW n \in 0 .. EventCount - 1
      PROVE  Stream(n + 1) = Stream(n) \o Event(n + 1)
  <2>1. /\ n \in Nat /\ n < EventCount /\ n \in 0 .. EventCount
        /\ n + 1 \in 0 .. EventCount /\ n + 1 \in 1 .. EventCount
    BY <1>1
  <2>. QED  BY <1>3, <1>5, <1>6, <2>1
<1>9. Stream(0) = <<>>
  BY <1>1, <1>5, <1>6
<1>. QED  BY <1>7, <1>8, <1>9

\* Stream(n) is what Stream(m) begins with.
LEMMA StreamGrows ==
  ASSUME script \in Scripts, NEW n \in 0 .. EventCount, NEW m \in n .. EventCount
  PROVE  /\ Offset(n) <= Offset(m)
         /\ \A j \in 1 .. Offset(n) : Stream(m)[j] = Stream(n)[j]
<1>1. EventCount \in Nat
  BY ScriptTyped
<1>. DEFINE Begins(k) == /\ Offset(n) <= Offset(n + k)
                         /\ \A j \in 1 .. Offset(n) : Stream(n + k)[j] = Stream(n)[j]
            T == {k \in Nat : n + k <= EventCount => Begins(k)}
<1>2. Offset(n) \in Nat
  BY StreamSteps
<1>3. 0 \in T
  BY <1>1, <1>2
<1>4. ASSUME NEW k \in Nat, k \in T PROVE k + 1 \in T
  <2>. SUFFICES ASSUME n + (k + 1) <= EventCount PROVE Begins(k + 1)
    OBVIOUS
  <2>1. PICK i \in 0 .. EventCount - 1 : i = n + k
    BY <1>1
  <2>2. i \in 0 .. EventCount /\ i + 1 \in 1 .. EventCount /\ i + 1 = n + (k + 1)
    BY <1>1, <2>1
  <2>3. Stream(i + 1) = Stream(i) \o Event(i + 1)
    BY StreamSteps
  <2>4. PICK s \in Seq(Units), e \in Seq(Units) : s = Stream(i) /\ e = Event(i + 1)
    BY <2>2, StreamSteps, EventIs
  <2>5. /\ Len(s \o e) = Len(s) + Len(e)
        /\ \A j \in 1 .. Len(s) + Len(e) : (s \o e)[j] = IF j <= Len(s) THEN s[j] ELSE e[j - Len(s)]
    BY ConcatProperties
  <2>6. Offset(n) <= Len(s) /\ \A j \in 1 .. Offset(n) : s[j] = Stream(n)[j]
    BY <1>1, <1>4, <2>1, <2>2, <2>4 DEF Offset
  <2>7. Len(s) \in Nat /\ Len(e) \in Nat
    OBVIOUS
  <2>8. Offset(n) <= Len(s \o e) /\ \A j \in 1 .. Offset(n) : (s \o e)[j] = Stream(n)[j]
    BY <1>2, <2>5, <2>6, <2>7
  <2>9. Stream(n + (k + 1)) = s \o e
    BY <2>2, <2>3, <2>4
  <2>. QED  BY <2>8, <2>9 DEF Offset
<1>5. \A k \in Nat : k \in T => k + 1 \in T
  BY <1>4
<1>6. \A k \in T : n + k <= EventCount => Begins(k)
  OBVIOUS
<1>. HIDE DEF T
<1>7. m - n \in Nat /\ n + (m - n) = m /\ m <= EventCount
  BY <1>1
<1>8. m - n \in T
  BY <1>3, <1>5, <1>7, EveryNat
<1>. QED  BY <1>6, <1>7, <1>8

\* Where the next event lies in all that is streamed.
LEMMA EventLies ==
  ASSUME script \in Scripts, NEW i \in 0 .. EventCount - 1
  PROVE  /\ Offset(i + 1) = Offset(i) + Len(Event(i + 1)) /\ Offset(i + 1) <= Offset(EventCount)
         /\ \A j \in 1 .. Len(Event(i + 1)) : Streamed[Offset(i) + j] = Event(i + 1)[j]
<1>1. /\ EventCount \in Nat /\ i \in 0 .. EventCount
      /\ i + 1 \in 1 .. EventCount /\ i + 1 \in 0 .. EventCount
      /\ EventCount \in i + 1 .. EventCount
  BY ScriptTyped
<1>2. PICK s \in Seq(Units), e \in Seq(Units) : s = Stream(i) /\ e = Event(i + 1)
  BY <1>1, StreamSteps, EventIs
<1>3. /\ Len(s \o e) = Len(s) + Len(e)
      /\ \A j \in 1 .. Len(s) + Len(e) : (s \o e)[j] = IF j <= Len(s) THEN s[j] ELSE e[j - Len(s)]
  BY ConcatProperties
<1>4. Stream(i + 1) = s \o e
  BY <1>2, StreamSteps
<1>5. Len(s) \in Nat /\ Len(e) \in Nat
  OBVIOUS
<1>6. \A j \in 1 .. Len(e) : (s \o e)[Len(s) + j] = e[j] /\ Len(s) + j \in 1 .. Len(s \o e)
  BY <1>3, <1>5
<1>7. /\ Offset(i + 1) <= Offset(EventCount)
      /\ \A j \in 1 .. Offset(i + 1) : Stream(EventCount)[j] = Stream(i + 1)[j]
  BY <1>1, StreamGrows
<1>8. Streamed = Stream(EventCount)
  BY DEF Streamed, Stream, Event, EventCount
<1>9. Offset(i) = Len(s) /\ Offset(i + 1) = Len(s) + Len(e)
  BY <1>2, <1>3, <1>4 DEF Offset
<1>10. ASSUME NEW j \in 1 .. Len(e) PROVE Streamed[Len(s) + j] = e[j]
  <2>1. Len(s) + j \in 1 .. Offset(i + 1)
    BY <1>3, <1>6, <1>9
  <2>. QED  BY <1>4, <1>6, <1>7, <1>8, <2>1
<1>. QED  BY <1>2, <1>7, <1>9, <1>10

-----------------------------------------------------------------------------
(* Separators and deltas *)

\* IsPrefix and SubSeq, unit by unit.
LEMMA PrefixIs ==
  ASSUME NEW S, NEW a \in Seq(S), NEW t \in Seq(S)
  PROVE  IsPrefix(a, t) <=> Len(a) <= Len(t) /\ \A j \in 1 .. Len(a) : t[j] = a[j]
<1>. SUFFICES ASSUME Len(a) <= Len(t)
              PROVE  SubSeq(a, 1, Len(a)) = SubSeq(t, 1, Len(a))
                     <=> \A j \in 1 .. Len(a) : t[j] = a[j]
  BY DEF IsPrefix
<1>1. Len(a) \in Nat /\ Len(t) \in Nat
  OBVIOUS
<1>2. SubSeq(a, 1, Len(a)) = a
  BY SubSeqFull
<1>3. \A j \in 1 .. Len(a) : t[j] \in S
  BY <1>1
<1>4. /\ SubSeq(t, 1, Len(a)) \in Seq(S) /\ Len(SubSeq(t, 1, Len(a))) = Len(a)
      /\ \A j \in 1 .. Len(a) : SubSeq(t, 1, Len(a))[j] = t[j]
  <2>1. /\ SubSeq(t, 1, Len(a)) \in Seq(S)
        /\ Len(SubSeq(t, 1, Len(a))) = IF 1 <= Len(a) THEN Len(a) - 1 + 1 ELSE 0
        /\ \A j \in 1 .. Len(a) - 1 + 1 : SubSeq(t, 1, Len(a))[j] = t[1 + j - 1]
    BY <1>1, <1>3, SubSeqProperties
  <2>. QED  BY <1>1, <2>1
<1>5. ASSUME \A j \in 1 .. Len(a) : t[j] = a[j]
      PROVE  a = SubSeq(t, 1, Len(a))
  BY <1>4, <1>5, SeqEqual
<1>. QED  BY <1>2, <1>4, <1>5

LEMMA PartIs ==
  ASSUME NEW S, NEW s \in Seq(S), NEW a \in 0 .. Len(s), NEW z \in a .. Len(s)
  PROVE  LET t == SubSeq(s, a + 1, z) IN
         t \in Seq(S) /\ Len(t) = z - a /\ \A j \in 1 .. z - a : t[j] = s[a + j]
<1>1. a \in Nat /\ z \in Nat /\ Len(s) \in Nat
  OBVIOUS
<1>2. \A i \in a + 1 .. z : s[i] \in S
  BY <1>1
<1>3. /\ SubSeq(s, a + 1, z) \in Seq(S)
      /\ Len(SubSeq(s, a + 1, z)) = IF a + 1 <= z THEN z - (a + 1) + 1 ELSE 0
      /\ \A j \in 1 .. z - (a + 1) + 1 : SubSeq(s, a + 1, z)[j] = s[(a + 1) + j - 1]
  <2>1. a + 1 \in Int /\ z \in Int
    OBVIOUS
  <2>. QED  BY <1>2, <2>1, SubSeqProperties
<1>. QED  BY <1>1, <1>3

\* Where a separator starts.
LEMMA SeparatorIs ==
  ASSUME NEW s \in Seq(Units), NEW k \in 1 .. Len(s)
  PROVE  SeparatorAt(s, k) =
           IF k + 1 <= Len(s) /\ s[k] = LF /\ s[k + 1] = LF THEN 2
           ELSE IF k + 3 <= Len(s) /\ s[k] = CR /\ s[k + 1] = LF /\ s[k + 2] = CR /\ s[k + 3] = LF
                THEN 4 ELSE 0
<1>. DEFINE t == SubSeq(s, k, Len(s))
            two == <<LF, LF>>
            four == <<CR, LF, CR, LF>>
<1>1. Len(s) \in Nat /\ k - 1 \in 0 .. Len(s) /\ Len(s) \in k - 1 .. Len(s)
  OBVIOUS
<1>2. t \in Seq(Units) /\ Len(t) = Len(s) - (k - 1)
      /\ \A j \in 1 .. Len(s) - (k - 1) : t[j] = s[(k - 1) + j]
  <2>1. PICK a \in 0 .. Len(s) : a = k - 1
    BY <1>1
  <2>2. t = SubSeq(s, a + 1, Len(s))
    BY <2>1
  <2>. HIDE DEF t
  <2>. QED  BY <1>1, <2>1, <2>2, PartIs
<1>3. /\ two \in Seq(Units) /\ Len(two) = 2 /\ two[1] = LF /\ two[2] = LF
      /\ four \in Seq(Units) /\ Len(four) = 4
      /\ four[1] = CR /\ four[2] = LF /\ four[3] = CR /\ four[4] = LF
  BY UnitsTyped
<1>4. SeparatorAt(s, k) = IF IsPrefix(two, t) THEN 2 ELSE IF IsPrefix(four, t) THEN 4 ELSE 0
  BY DEF SeparatorAt
<1>. HIDE DEF t, two, four
<1>5. IsPrefix(two, t) <=> k + 1 <= Len(s) /\ s[k] = LF /\ s[k + 1] = LF
  <2>1. IsPrefix(two, t) <=> Len(two) <= Len(t) /\ \A j \in 1 .. Len(two) : t[j] = two[j]
    <3>1. two \in Seq(Units) /\ t \in Seq(Units)
      BY <1>2, <1>3
    <3>. QED  BY ONLY <3>1, PrefixIs
  <2>2. IsPrefix(two, t) <=> 2 <= Len(t) /\ t[1] = LF /\ t[2] = LF
    BY <1>3, <2>1
  <2>3. 2 <= Len(t) <=> k + 1 <= Len(s)
    BY <1>1, <1>2
  <2>4. ASSUME 2 <= Len(t) PROVE t[1] = s[k] /\ t[2] = s[k + 1]
    BY <1>1, <1>2, <2>4
  <2>. QED  BY <2>2, <2>3, <2>4
<1>6. IsPrefix(four, t) <=> k + 3 <= Len(s) /\ s[k] = CR /\ s[k + 1] = LF /\ s[k + 2] = CR /\ s[k + 3] = LF
  <2>1. IsPrefix(four, t) <=> Len(four) <= Len(t) /\ \A j \in 1 .. Len(four) : t[j] = four[j]
    <3>1. four \in Seq(Units) /\ t \in Seq(Units)
      BY <1>2, <1>3
    <3>. QED  BY ONLY <3>1, PrefixIs
  <2>2. IsPrefix(four, t) <=> 4 <= Len(t) /\ t[1] = CR /\ t[2] = LF /\ t[3] = CR /\ t[4] = LF
    BY <1>3, <2>1
  <2>3. 4 <= Len(t) <=> k + 3 <= Len(s)
    BY <1>1, <1>2
  <2>4. ASSUME 4 <= Len(t) PROVE t[1] = s[k] /\ t[2] = s[k + 1] /\ t[3] = s[k + 2] /\ t[4] = s[k + 3]
    BY <1>1, <1>2, <2>4
  <2>. QED  BY <2>2, <2>3, <2>4
<1>. QED  BY <1>4, <1>5, <1>6

\* Behind n units of no separator the first one that starts is the one that
\* follows them, and none starts before it is there as a whole: of CR LF CR LF
\* the LF in the middle is followed by a CR.
LEMMA FirstSeparator ==
  ASSUME NEW c \in Seq(Units), NEW n \in Nat, NEW q \in {<<LF, LF>>, <<CR, LF, CR, LF>>},
         \A j \in 1 .. n : j <= Len(c) => c[j] \notin {LF, CR},
         \A j \in 1 .. Len(q) : n + j <= Len(c) => c[n + j] = q[j]
  PROVE  /\ Len(c) < n + Len(q) => Separators(c) = {}
         /\ Len(c) >= n + Len(q) =>
              n + 1 \in Separators(c) /\ Min(Separators(c)) = n + 1 /\ SeparatorAt(c, n + 1) = Len(q)
<1>1. Len(c) \in Nat
  OBVIOUS
<1>2. ASSUME NEW k \in 1 .. Len(c), k <= n PROVE SeparatorAt(c, k) = 0
  <2>1. c[k] # LF /\ c[k] # CR
    BY <1>2
  <2>. QED  BY <2>1, SeparatorIs
<1>3. \A k \in Separators(c) : k \in 1 .. Len(c) /\ k >= n + 1 /\ SeparatorAt(c, k) # 0
  BY <1>1, <1>2 DEF Separators
<1>4. Separators(c) \subseteq Int
  BY <1>1 DEF Separators
<1>5. CASE Len(c) < n + Len(q) /\ q = <<LF, LF>>
  <2>1. Len(q) = 2
    BY <1>5
  <2>2. ASSUME NEW k \in Separators(c) PROVE FALSE
    <3>1. k \in Nat /\ k >= n + 1 /\ k + 1 <= Len(c)
      BY <1>1, <1>3 DEF Separators
    <3>. QED  BY <1>1, <1>5, <2>1, <3>1
  <2>. QED  BY <1>1, <1>5, <2>2
<1>6. CASE Len(c) < n + Len(q) /\ q = <<CR, LF, CR, LF>>
  <2>1. Len(q) = 4 /\ q[1] = CR /\ q[2] = LF /\ q[3] = CR /\ q[4] = LF
    BY <1>6
  <2>2. ASSUME NEW k \in Separators(c) PROVE FALSE
    <3>1. k \in 1 .. Len(c) /\ k >= n + 1 /\ k + 1 <= Len(c) /\ Len(c) <= n + 3
      BY <1>1, <1>3, <1>6, <2>1 DEF Separators
    <3>2. c[k] = LF /\ c[k + 1] = LF
      <4>1. ~(k + 3 <= Len(c))
        BY <3>1
      <4>. QED  BY <1>3, <3>1, <4>1, SeparatorIs
    <3>3. CASE k = n + 1
      <4>1. c[n + 1] = q[1]
        BY <1>1, <2>1, <3>1, <3>3
      <4>. QED  BY <2>1, <3>2, <3>3, <4>1, UnitsTyped
    <3>4. CASE k = n + 2
      <4>1. c[n + 3] = q[3] /\ k + 1 = n + 3
        BY <1>1, <2>1, <3>1, <3>4
      <4>. QED  BY <2>1, <3>2, <4>1, UnitsTyped
    <3>. QED  BY <1>1, <3>1, <3>3, <3>4
  <2>. QED  BY <1>1, <1>6, <2>2
<1>7. CASE Len(c) >= n + Len(q)
  <2>1. SeparatorAt(c, n + 1) = Len(q) /\ Len(q) \in {2, 4}
    <3>1. CASE q = <<LF, LF>>
      <4>1. Len(q) = 2 /\ q[1] = LF /\ q[2] = LF
        BY <3>1
      <4>2. n + 1 \in 1 .. Len(c) /\ (n + 1) + 1 <= Len(c) /\ (n + 1) + 1 = n + 2
        BY <1>1, <1>7, <4>1
      <4>3. c[n + 1] = LF /\ c[n + 2] = LF
        BY <1>1, <4>1, <4>2
      <4>. QED  BY <4>1, <4>2, <4>3, SeparatorIs
    <3>2. CASE q = <<CR, LF, CR, LF>>
      <4>1. Len(q) = 4 /\ q[1] = CR /\ q[2] = LF /\ q[3] = CR /\ q[4] = LF
        BY <3>2
      <4>2. /\ n + 1 \in 1 .. Len(c) /\ (n + 1) + 3 <= Len(c) /\ (n + 1) + 1 = n + 2
            /\ (n + 1) + 2 = n + 3 /\ (n + 1) + 3 = n + 4
        BY <1>1, <1>7, <4>1
      <4>3. c[n + 1] = CR /\ c[n + 2] = LF /\ c[n + 3] = CR /\ c[n + 4] = LF
        BY <1>1, <4>1, <4>2
      <4>. QED  BY <4>1, <4>2, <4>3, SeparatorIs, UnitsTyped
    <3>. QED  BY <3>1, <3>2
  <2>2. n + 1 \in Separators(c)
    <3>1. n + 1 \in 1 .. Len(c) - 1
      <4>1. PICK l \in {2, 4} : l = Len(q)
        BY <2>1
      <4>2. Len(c) >= n + l
        BY <1>7, <4>1
      <4>. QED  BY ONLY <1>1, <4>2, n \in Nat, l \in {2, 4}
    <3>. QED  BY <2>1, <3>1 DEF Separators
  <2>3. Min(Separators(c)) = n + 1
    BY <1>3, <1>4, <2>2, MinIs
  <2>. QED  BY <1>1, <1>7, <2>1, <2>2, <2>3
<1>8. Len(q) \in Nat
  OBVIOUS
<1>. QED  BY <1>1, <1>5, <1>6, <1>7, <1>8

\* What is carried behind the events taken is the beginning of the next one.
LEMMA CarriedIs ==
  ASSUME script \in Scripts, NEW i \in 0 .. EventCount, NEW r \in Offset(i) .. Offset(EventCount)
  PROVE  LET c == SubSeq(Streamed, Offset(i) + 1, r) IN
         /\ Streamed \in Seq(Units) /\ Len(Streamed) = Offset(EventCount)
         /\ Offset(i) \in 0 .. Len(Streamed) /\ r \in Offset(i) .. Len(Streamed)
         /\ c \in Seq(Units) /\ Len(c) = r - Offset(i)
         /\ i = EventCount => c = <<>> /\ r = Offset(i)
         /\ i < EventCount => \A j \in 1 .. Len(Event(i + 1)) :
                            j <= Len(c) => c[j] = Event(i + 1)[j]
<1>1. EventCount \in Nat /\ EventCount \in 0 .. EventCount /\ Streamed = Stream(EventCount)
  BY ScriptTyped DEF Streamed, Stream, Event, EventCount
<1>2. Streamed \in Seq(Units) /\ Len(Streamed) = Offset(EventCount) /\ Offset(EventCount) \in Nat
  BY <1>1, StreamSteps DEF Offset
<1>3. PICK a \in Nat : a = Offset(i)
  BY StreamSteps
<1>4. a \in 0 .. Len(Streamed) /\ r \in a .. Len(Streamed)
  BY <1>2, <1>3
<1>. DEFINE c == SubSeq(Streamed, a + 1, r)
<1>5. c \in Seq(Units) /\ Len(c) = r - a /\ \A j \in 1 .. r - a : c[j] = Streamed[a + j]
  BY <1>2, <1>4, PartIs
<1>. HIDE DEF c
<1>6. ASSUME i = EventCount PROVE c = <<>> /\ r = a
  BY <1>2, <1>3, <1>5, <1>6
<1>7. ASSUME i < EventCount, NEW j \in 1 .. Len(Event(i + 1)), j <= Len(c)
      PROVE  c[j] = Event(i + 1)[j]
  <2>1. i \in 0 .. EventCount - 1
    BY <1>1, <1>7
  <2>2. Streamed[a + j] = Event(i + 1)[j]
    BY <1>3, <2>1, EventLies
  <2>3. j \in 1 .. r - a
    BY <1>5, <1>7
  <2>. QED  BY <1>5, <2>2, <2>3
<1>. QED  BY <1>2, <1>3, <1>4, <1>5, <1>6, <1>7 DEF c

\* The least of some numbers is one of them.
LEMMA MinIn ==
  ASSUME NEW T, T \subseteq Nat, T # {}
  PROVE  Min(T) \in T /\ \A y \in T : Min(T) <= y
<1>1. PICK x \in T : \A y \in T : x <= y
  BY LeastOfNats
<1>2. T \subseteq Int
  OBVIOUS
<1>3. Min(T) = x
  BY <1>1, <1>2, MinIs
<1>. QED  BY <1>1, <1>3

LEMMA MinOfOne ==
  ASSUME NEW x \in Nat
  PROVE  Min({x}) = x
<1>1. {x} \subseteq Nat /\ {x} # {}
  OBVIOUS
<1>. QED  BY <1>1, MinIn

\* A delta is text.
LEMMA DeltaTyped ==
  ASSUME NEW e \in Seq(Units)
  PROVE  Delta(e) \in Seq(Units)
<1>. DEFINE heads == Positions(e, "head")
            tails == {k \in Positions(e, "tail") : heads # {} /\ k > Min(heads)}
<1>1. heads \subseteq 1 .. Len(e) /\ tails \subseteq 1 .. Len(e) /\ Len(e) \in Nat
  BY DEF Positions
<1>2. Delta(e) = IF Positions(e, "done") # {} \/ heads = {} \/ tails = {} THEN <<>>
                 ELSE <<e[Min(heads)], e[Min(tails)]>>
  BY DEF Delta
<1>. HIDE DEF heads, tails
<1>3. CASE heads # {} /\ tails # {}
  <2>1. heads \subseteq Nat /\ tails \subseteq Nat
    BY <1>1
  <2>2. Min(heads) \in 1 .. Len(e) /\ Min(tails) \in 1 .. Len(e)
    BY <1>1, <1>3, <2>1, MinIn
  <2>3. e[Min(heads)] \in Units /\ e[Min(tails)] \in Units
    BY <2>2
  <2>. QED  BY <1>2, <2>3
<1>. QED  BY <1>2, <1>3

\* What is said by the part of an event that has arrived, with what has
\* arrived of its separator: nothing before the event is whole.
LEMMA DeltaOfPart ==
  ASSUME script \in Scripts, NEW i \in 1 .. EventCount, NEW c \in Seq(Units),
         Len(c) <= Len(Event(i)),
         \A j \in 1 .. Len(Event(i)) : j <= Len(c) => c[j] = Event(i)[j]
  PROVE  Delta(c) = IF Len(c) >= Len(Payload(i)) THEN Delta(Payload(i)) ELSE <<>>
<1>. DEFINE p == Payload(i)
            n == Len(p)
<1>1. /\ Event(i) \in Seq(Units) /\ Len(Event(i)) = n + Len(script.separator)
      /\ \A k \in 1 .. n : Event(i)[k] = p[k]
      /\ \A k \in 1 .. Len(script.separator) : Event(i)[n + k] = script.separator[k]
  BY EventIs
<1>2. n \in Nat \ {0} /\ p \in Seq(Units) /\ Len(c) \in Nat
  BY PayloadIs
<1>3. \A k \in 1 .. Len(script.separator) : script.separator[k].kind \in {"lf", "cr"}
      /\ Len(script.separator) \in Nat
  <2>1. PICK q : q = script.separator
    OBVIOUS
  <2>2. LF.kind = "lf" /\ CR.kind = "cr"
    BY DEF LF, CR, Unit
  <2>3. CASE q = <<LF, LF>>
    BY <2>1, <2>2, <2>3
  <2>4. CASE q = <<CR, LF, CR, LF>>
    BY <2>1, <2>2, <2>4
  <2>. QED  BY <2>1, <2>3, <2>4, ScriptTyped
<1>4. /\ \A k \in 1 .. Len(c) : k <= n => c[k] = p[k]
      /\ \A k \in 1 .. Len(c) : k > n => c[k].kind \in {"lf", "cr"}
  <2>1. ASSUME NEW k \in 1 .. Len(c), k <= n PROVE c[k] = p[k]
    BY <1>1, <1>2, <1>3, <2>1
  <2>2. ASSUME NEW k \in 1 .. Len(c), k > n PROVE c[k].kind \in {"lf", "cr"}
    <3>1. k - n \in 1 .. Len(script.separator) /\ k = n + (k - n) /\ k \in 1 .. Len(Event(i))
      BY <1>1, <1>2, <1>3, <2>2
    <3>2. c[k] = script.separator[k - n]
      BY <1>1, <3>1
    <3>. QED  BY <1>3, <3>1, <3>2
  <2>. QED  BY <2>1, <2>2
<1>. HIDE DEF p, n
<1>5. ASSUME NEW d \in Seq(Units),
             \A k \in 1 .. Len(d) : k <= n => d[k] = p[k],
             \A k \in 1 .. Len(d) : k > n => d[k].kind \in {"lf", "cr"}
      PROVE  Delta(d) = IF script.events[i].kind = "delta" /\ Len(d) >= n THEN <<p[1], p[n]>>
                        ELSE <<>>
  <2>. DEFINE heads == Positions(d, "head")
              tails == {k \in Positions(d, "tail") : heads # {} /\ k > Min(heads)}
              dones == Positions(d, "done")
  <2>1. Delta(d) = IF dones # {} \/ heads = {} \/ tails = {} THEN <<>>
                   ELSE <<d[Min(heads)], d[Min(tails)]>>
    BY DEF Delta
  <2>2. Len(d) \in Nat
    OBVIOUS
  <2>3. CASE /\ script.events[i].kind = "delta" /\ n >= 2
             /\ p[1].kind = "head" /\ p[n].kind = "tail"
             /\ \A k \in 2 .. n - 1 : p[k].kind = "fill"
    <3>1. ASSUME NEW k \in 1 .. Len(d)
          PROVE  /\ d[k].kind # "done" /\ (d[k].kind = "head" <=> k = 1)
                 /\ (d[k].kind = "tail" <=> k = n)
      <4>1. k \in Nat \ {0} /\ n # 1
        <5>1. n >= 2 /\ n \in Nat
          BY <1>2, <2>3
        <5>2. k \in Nat \ {0}
          BY <2>2
        <5>. QED  BY <5>1, <5>2
      <4>2. CASE k = 1
        <5>1. k <= n
          BY <1>2, <4>2
        <5>2. d[k] = p[1] /\ k # n
          BY <1>5, <4>1, <4>2, <5>1
        <5>. QED  BY <2>3, <4>2, <5>2
      <4>3. CASE k = n
        <5>1. k <= n
          BY <1>2, <4>3
        <5>2. d[k] = p[n] /\ k # 1
          BY <1>5, <4>1, <4>3, <5>1
        <5>. QED  BY <2>3, <4>3, <5>2
      <4>4. CASE k # 1 /\ k < n
        <5>1. k \in 2 .. n - 1 /\ k # n /\ k <= n
          BY <1>2, <4>1, <4>4
        <5>. QED  BY <1>5, <2>3, <4>4, <5>1
      <4>5. CASE k > n
        <5>1. k # 1 /\ k # n
          BY <1>2, <4>1, <4>5
        <5>. QED  BY <1>5, <4>5, <5>1
      <4>. QED  BY <1>2, <4>1, <4>2, <4>3, <4>4, <4>5
    <3>2. \A k \in 1 .. Len(d) : /\ d[k].kind # "done" /\ (d[k].kind = "head" <=> k = 1)
                                 /\ (d[k].kind = "tail" <=> k = n)
      BY <3>1
    <3>3. dones = {} /\ heads = {k \in 1 .. Len(d) : k = 1}
          /\ Positions(d, "tail") = {k \in 1 .. Len(d) : k = n}
      BY <3>2 DEF Positions
    <3>4. CASE Len(d) >= n
      <4>1. heads = {1}
        BY <1>2, <2>2, <3>3, <3>4
      <4>2. Min(heads) = 1
        <5>. HIDE DEF heads
        <5>. QED  BY <4>1, MinOfOne
      <4>3. tails = {n}
        BY <1>2, <2>2, <2>3, <3>3, <3>4, <4>1, <4>2
      <4>4. Min(tails) = n
        <5>. HIDE DEF tails
        <5>. QED  BY <1>2, <4>3, MinOfOne
      <4>5. d[1] = p[1] /\ d[n] = p[n]
        <5>1. 1 \in 1 .. Len(d) /\ 1 <= n /\ n \in 1 .. Len(d) /\ n <= n
          BY <1>2, <2>2, <3>4
        <5>. QED  BY <1>5, <5>1
      <4>. HIDE DEF heads, tails, dones
      <4>. QED  BY <2>1, <2>3, <3>3, <3>4, <4>1, <4>2, <4>3, <4>4, <4>5
    <3>5. CASE ~(Len(d) >= n)
      <4>1. tails = {}
        BY <1>2, <2>2, <3>3, <3>5
      <4>. HIDE DEF heads, tails, dones
      <4>. QED  BY <2>1, <3>5, <4>1
    <3>. QED  BY <3>4, <3>5
  <2>4. CASE script.events[i].kind = "done" /\ n = 1 /\ p[1].kind = "done"
    <3>1. CASE Len(d) = 0
      <4>1. heads = {}
        BY <3>1 DEF Positions
      <4>. HIDE DEF heads, tails, dones
      <4>. QED  BY <2>1, <2>4, <4>1
    <3>2. CASE Len(d) # 0
      <4>1. 1 \in dones
        BY <1>5, <2>2, <2>4, <3>2 DEF Positions
      <4>. HIDE DEF heads, tails, dones
      <4>. QED  BY <2>1, <2>4, <4>1
    <3>. QED  BY <3>1, <3>2
  <2>5. CASE script.events[i].kind = "other" /\ \A k \in 1 .. n : p[k].kind = "fill"
    <3>1. \A k \in 1 .. Len(d) : d[k].kind # "head"
      <4>. SUFFICES ASSUME NEW k \in 1 .. Len(d) PROVE d[k].kind # "head"
        OBVIOUS
      <4>1. CASE k <= n
        BY <1>2, <1>5, <2>5, <4>1
      <4>2. CASE ~(k <= n)
        <5>1. k > n
          BY <1>2, <2>2, <4>2
        <5>. QED  BY <1>5, <5>1
      <4>. QED  BY <4>1, <4>2
    <3>2. heads = {}
      BY <3>1 DEF Positions
    <3>. HIDE DEF heads, tails, dones
    <3>. QED  BY <2>1, <2>5, <3>2
  <2>. QED  BY <2>3, <2>4, <2>5, PayloadIs DEF p, n
<1>6. Delta(c) = IF script.events[i].kind = "delta" /\ Len(c) >= n THEN <<p[1], p[n]>> ELSE <<>>
  BY <1>4, <1>5
<1>7. Delta(p) = IF script.events[i].kind = "delta" THEN <<p[1], p[n]>> ELSE <<>>
  <2>1. n = Len(p)
    BY DEF n
  <2>2. /\ \A k \in 1 .. Len(p) : k <= n => p[k] = p[k]
        /\ \A k \in 1 .. Len(p) : k > n => p[k].kind \in {"lf", "cr"}
        /\ Len(p) >= n
    BY <1>2, <2>1
  <2>. QED  BY <1>2, <1>5, <2>2
<1>. QED  BY <1>2, <1>6, <1>7 DEF p, n

-----------------------------------------------------------------------------
(* The buffer of the answer *)

\* The buffer of the answer, typed.
Buffers == [carry : Seq(Units), text : Seq(Units), stream : BOOLEAN, answer : BOOLEAN]

\* t is what of d fits, and a tells whether that is less than d.
Written(t, a, d) ==
  /\ Len(t) <= Len(d) /\ \A j \in 1 .. Len(t) : t[j] = d[j]
  /\ Len(t) <= TextMax
  /\ t = d \/ (a /\ Len(t) = TextMax)

\* append_result_delta: what is written stays what fits of all that is said.
LEMMA DeltaAppended ==
  ASSUME NEW b \in Buffers, NEW d \in Seq(Units)
  PROVE  /\ AppendDelta(b, d) \in Buffers
         /\ AppendDelta(b, d).carry = b.carry /\ AppendDelta(b, d).stream = b.stream
         /\ \A said \in Seq(Units) :
              Written(b.text, b.answer, said)
              => Written(AppendDelta(b, d).text, AppendDelta(b, d).answer, said \o d)
<1>. DEFINE room == Min({Len(d), TextMax - Len(b.text)})
            part == SubSeq(d, 1, room)
<1>1. PICK t \in Seq(Units) : t = b.text
  BY DEF Buffers
<1>2. Len(t) \in Nat /\ Len(d) \in Nat /\ TextMax \in Nat
  BY ChatAssumption
<1>3. room = IF Len(d) <= TextMax - Len(t) THEN Len(d) ELSE TextMax - Len(t)
  BY <1>1, <1>2, LeastOfTwo
<1>4. AppendDelta(b, d) = [b EXCEPT !.text = @ \o part, !.answer = @ \/ room < Len(d)]
  BY DEF AppendDelta
<1>. HIDE DEF room
<1>5. room \in Int /\ room <= Len(d)
  BY <1>2, <1>3
<1>6. /\ part \in Seq(Units) /\ Len(part) = IF 1 <= room THEN room ELSE 0
      /\ \A j \in 1 .. room : part[j] = d[j]
  <2>1. \A j \in 1 .. room : d[j] \in Units
    BY <1>2, <1>5
  <2>2. /\ SubSeq(d, 1, room) \in Seq(Units)
        /\ Len(SubSeq(d, 1, room)) = IF 1 <= room THEN room - 1 + 1 ELSE 0
        /\ \A j \in 1 .. room - 1 + 1 : SubSeq(d, 1, room)[j] = d[1 + j - 1]
    BY <1>5, <2>1, SubSeqProperties
  <2>. QED  BY <1>5, <2>2
<1>. HIDE DEF part
<1>7. /\ t \o part \in Seq(Units) /\ Len(t \o part) = Len(t) + Len(part)
      /\ \A j \in 1 .. Len(t) + Len(part) :
           (t \o part)[j] = IF j <= Len(t) THEN t[j] ELSE part[j - Len(t)]
  BY <1>6, ConcatProperties
<1>8. /\ AppendDelta(b, d) \in Buffers
      /\ AppendDelta(b, d).carry = b.carry /\ AppendDelta(b, d).stream = b.stream
      /\ AppendDelta(b, d).text = t \o part
      /\ AppendDelta(b, d).answer = (b.answer \/ room < Len(d))
  BY <1>1, <1>4, <1>7 DEF Buffers
<1>9. ASSUME NEW said \in Seq(Units), Written(t, b.answer, said)
      PROVE  Written(t \o part, b.answer \/ room < Len(d), said \o d)
  <2>1. /\ said \o d \in Seq(Units) /\ Len(said \o d) = Len(said) + Len(d)
        /\ \A j \in 1 .. Len(said) + Len(d) :
             (said \o d)[j] = IF j <= Len(said) THEN said[j] ELSE d[j - Len(said)]
    BY ConcatProperties
  <2>2. /\ Len(said) \in Nat /\ Len(t) <= Len(said) /\ Len(t) <= TextMax
        /\ \A j \in 1 .. Len(t) : t[j] = said[j]
    BY <1>9 DEF Written
  <2>3. CASE t = said
    <3>1. room \in Nat /\ Len(part) = room
      BY <1>2, <1>3, <1>6, <2>2
    <3>2. \A j \in 1 .. Len(t) + room : (t \o part)[j] = (said \o d)[j]
      <4>. SUFFICES ASSUME NEW j \in 1 .. Len(t) + room
                    PROVE  (t \o part)[j] = (said \o d)[j]
        OBVIOUS
      <4>1. CASE j <= Len(t)
        BY <1>2, <1>7, <2>1, <2>3, <3>1, <4>1
      <4>2. CASE ~(j <= Len(t))
        <5>1. j - Len(t) \in 1 .. room /\ j \in 1 .. Len(said) + Len(d)
              /\ j \in 1 .. Len(t) + Len(part)
          BY <1>2, <1>5, <2>3, <3>1, <4>2
        <5>. QED  BY <1>6, <1>7, <2>1, <2>3, <4>2, <5>1
      <4>. QED  BY <4>1, <4>2
    <3>3. Len(t \o part) = Len(t) + room /\ Len(t \o part) <= Len(said \o d)
          /\ Len(t \o part) <= TextMax
      BY <1>2, <1>3, <1>5, <1>7, <2>1, <2>3, <3>1
    <3>4. CASE room = Len(d)
      <4>1. t \o part = said \o d
        BY <1>7, <2>1, <2>3, <3>2, <3>3, <3>4, SeqEqual
      <4>. QED  BY <3>2, <3>3, <4>1 DEF Written
    <3>5. CASE room # Len(d)
      <4>1. room < Len(d) /\ Len(t \o part) = TextMax
        BY <1>2, <1>3, <3>3, <3>5
      <4>. QED  BY <3>2, <3>3, <4>1 DEF Written
    <3>. QED  BY <3>4, <3>5
  <2>4. CASE b.answer /\ Len(t) = TextMax
    <3>1. Len(part) = 0
      BY <1>2, <1>3, <1>6, <2>4
    <3>2. Len(t \o part) = Len(t)
      BY <1>2, <1>7, <3>1
    <3>3. \A j \in 1 .. Len(t) : (t \o part)[j] = t[j] /\ (said \o d)[j] = said[j]
      BY <1>2, <1>7, <2>1, <2>2, <3>1
    <3>4. Len(t) <= Len(said \o d)
      BY <1>2, <2>1, <2>2
    <3>. QED  BY <2>2, <2>4, <3>2, <3>3, <3>4 DEF Written
  <2>. QED  BY <1>9, <2>3, <2>4 DEF Written
<1>. QED  BY <1>1, <1>8, <1>9

\* process_stream_event: an event that fits in the buffer says its delta.
LEMMA EventProcessed ==
  ASSUME NEW b \in Buffers, NEW e \in Seq(Units)
  PROVE  /\ ProcessEvent(b, e) \in Buffers /\ ProcessEvent(b, e).carry = b.carry
         /\ b.stream => ProcessEvent(b, e).stream
         /\ ~ProcessEvent(b, e).stream =>
              \A said \in Seq(Units) :
                Written(b.text, b.answer, said)
                => Written(ProcessEvent(b, e).text, ProcessEvent(b, e).answer,
                           IF e = <<>> THEN said ELSE said \o Delta(e))
         /\ Len(e) < CarryMax /\ ~b.stream => ~ProcessEvent(b, e).stream
<1>1. Delta(e) \in Seq(Units)
  BY DeltaTyped
<1>2. CASE e = <<>>
  BY <1>2 DEF ProcessEvent
<1>3. CASE e # <<>> /\ Len(e) >= CarryMax
  <2>1. ProcessEvent(b, e) = [b EXCEPT !.stream = TRUE]
    BY <1>3 DEF ProcessEvent
  <2>2. ~(Len(e) < CarryMax)
    BY <1>3, ChatAssumption
  <2>. QED  BY <2>1, <2>2 DEF Buffers
<1>4. CASE e # <<>> /\ ~(Len(e) >= CarryMax)
  <2>1. ProcessEvent(b, e) = AppendDelta(b, Delta(e))
    BY <1>4 DEF ProcessEvent
  <2>. QED  BY <1>1, <1>4, <2>1, DeltaAppended
<1>. QED  BY <1>2, <1>3, <1>4

\* The first separator lies in the buffer.
LEMMA SeparatorsTyped ==
  ASSUME NEW s \in Seq(Units), Separators(s) # {}
  PROVE  /\ Min(Separators(s)) \in 1 .. Len(s) - 1
         /\ SeparatorAt(s, Min(Separators(s))) \in {2, 4}
<1>1. Separators(s) \subseteq Nat /\ Len(s) \in Nat
  BY DEF Separators
<1>2. Min(Separators(s)) \in Separators(s)
  BY <1>1, MinIn
<1>3. \A k \in Separators(s) : k \in 1 .. Len(s) - 1 /\ SeparatorAt(s, k) \in {2, 4}
  BY DEF Separators, SeparatorAt
<1>. QED  BY <1>2, <1>3

\* An event taken leaves a buffer, and a chunk once lost stays lost.
LEMMA TakeTyped ==
  ASSUME NEW b \in Buffers
  PROVE  TakeEvent(b) \in Buffers /\ (b.stream => TakeEvent(b).stream)
<1>1. CASE Separators(b.carry) = {}
  BY <1>1 DEF TakeEvent
<1>2. CASE Separators(b.carry) # {}
  <2>1. PICK c \in Seq(Units) : c = b.carry
    BY DEF Buffers
  <2>2. PICK at \in 1 .. Len(c) - 1 : at = Min(Separators(c))
    BY <1>2, <2>1, SeparatorsTyped
  <2>3. PICK behind \in Int : behind = at + SeparatorAt(c, at) /\ behind >= 1
    BY <1>2, <2>1, <2>2, SeparatorsTyped
  <2>. DEFINE rest == SubSeq(c, behind, Len(c))
              e == SubSeq(c, 1, at - 1)
              a == [b EXCEPT !.carry = rest]
  <2>4. rest \in Seq(Units)
    <3>1. \A j \in behind .. Len(c) : c[j] \in Units
      BY <2>3
    <3>2. Len(c) \in Int
      OBVIOUS
    <3>. QED  BY <2>3, <3>1, <3>2, SubSeqProperties
  <2>5. e \in Seq(Units)
    <3>1. \A j \in 1 .. at - 1 : c[j] \in Units
      BY <2>2
    <3>2. at - 1 \in Int
      OBVIOUS
    <3>. QED  BY <3>1, <3>2, SubSeqProperties
  <2>6. TakeEvent(b) = ProcessEvent(a, e)
    BY <1>2, <2>1, <2>2, <2>3 DEF TakeEvent
  <2>. HIDE DEF rest, e
  <2>7. a \in Buffers /\ a.stream = b.stream
    BY <2>4 DEF Buffers
  <2>. HIDE DEF a
  <2>. QED  BY <2>5, <2>6, <2>7, EventProcessed
<1>. QED  BY <1>1, <1>2

\* TakeEvents, one event after the other.
IsTaking(f, b) ==
  /\ f \in [Nat -> Buffers] /\ f[0] = b
  /\ \A n \in Nat : f[n + 1] = TakeEvent(f[n])
  /\ TakeEvents(b) = f[Len(b.carry)]

LEMMA TakeSteps ==
  ASSUME NEW b \in Buffers
  PROVE  \E f : IsTaking(f, b)
<1>. DEFINE step == [p \in Nat \X Buffers |-> TakeEvent(p[2])]
            Is(g) == g = [n \in Nat |-> IF n = 0 THEN b ELSE TakeEvent(g[n - 1])]
            taken == CHOOSE g : g = [n \in Nat |-> IF n = 0 THEN b ELSE TakeEvent(g[n - 1])]
<1>1. step \in [Nat \X Buffers -> Buffers]
  BY TakeTyped
<1>2. \A n \in Nat, c \in Buffers : step[<<n, c>>] = TakeEvent(c)
  OBVIOUS
<1>. HIDE DEF step
<1>3. PICK f : IsIteration(f, Buffers, b, step)
  BY <1>1, Iterated
<1>4. /\ f \in [Nat -> Buffers] /\ f[0] = b
      /\ \A n \in Nat : f[n + 1] = TakeEvent(f[n])
  BY <1>2, <1>3 DEF IsIteration
<1>5. f = [n \in Nat |-> IF n = 0 THEN b ELSE TakeEvent(f[n - 1])]
  <2>1. ASSUME NEW n \in Nat PROVE f[n] = IF n = 0 THEN b ELSE TakeEvent(f[n - 1])
    <3>1. CASE n # 0
      <4>1. n - 1 \in Nat /\ (n - 1) + 1 = n
        BY <3>1
      <4>. QED  BY <1>4, <3>1, <4>1
    <3>. QED  BY <1>4, <3>1
  <2>. QED  BY <1>4, <2>1
<1>6. taken = [n \in Nat |-> IF n = 0 THEN b ELSE TakeEvent(taken[n - 1])]
  BY <1>5
<1>7. TakeEvents(b) = taken[Len(b.carry)]
  BY DEF TakeEvents
<1>. HIDE DEF taken
<1>8. \A n \in Nat : taken[n] = IF n = 0 THEN b ELSE TakeEvent(taken[n - 1])
  BY <1>6
<1>9. \A n \in Nat : taken[n] = f[n]
  <2>. DEFINE T == {n \in Nat : taken[n] = f[n]}
  <2>1. 0 \in T
    BY <1>4, <1>8
  <2>2. ASSUME NEW n \in Nat, n \in T PROVE n + 1 \in T
    <3>1. taken[n + 1] = TakeEvent(taken[n])
      <4>1. n + 1 \in Nat /\ n + 1 # 0 /\ (n + 1) - 1 = n
        OBVIOUS
      <4>. QED  BY <1>8, <4>1
    <3>2. taken[n] = f[n]
      BY <2>2
    <3>. QED  BY <1>4, <3>1, <3>2
  <2>3. \A n \in Nat : n \in T => n + 1 \in T
    BY <2>2
  <2>. HIDE DEF T
  <2>4. \A n \in Nat : n \in T
    BY <2>1, <2>3, EveryNat
  <2>. QED  BY <2>4 DEF T
<1>10. Len(b.carry) \in Nat
  BY DEF Buffers
<1>. QED  BY <1>4, <1>7, <1>9, <1>10 DEF IsTaking

\* The text grows by the delta of one event at a time.
LEMMA SaidSteps ==
  ASSUME script \in Scripts
  PROVE  /\ Said(0) = <<>>
         /\ \A n \in 0 .. EventCount : Said(n) \in Seq(Units)
         /\ \A n \in 0 .. EventCount - 1 : Said(n + 1) = Said(n) \o Delta(Payload(n + 1))
<1>. DEFINE w == [k \in 1 .. EventCount |-> Delta(Payload(k))]
<1>1. EventCount \in Nat /\ \A k \in 1 .. EventCount : Delta(Payload(k)) \in Seq(Units)
  BY ScriptTyped, PayloadIs, DeltaTyped
<1>2. w \in [1 .. EventCount -> Seq(Units)]
  BY <1>1
<1>3. \A n \in 0 .. EventCount : [k \in 1 .. n |-> w[k]] = [k \in 1 .. n |-> Delta(Payload(k))]
  BY <1>1
<1>4. \A k \in 1 .. EventCount : w[k] = Delta(Payload(k))
  OBVIOUS
<1>. HIDE DEF w
<1>5. PICK f : IsFlattening(f, Units, w, EventCount)
  BY <1>1, <1>2, FlattenSteps
<1>6. /\ f \in [Nat -> Seq(Units)] /\ f[0] = <<>>
      /\ \A n \in Nat : n < EventCount => f[n + 1] = f[n] \o w[n + 1]
      /\ \A n \in 0 .. EventCount : FlattenSeq([k \in 1 .. n |-> w[k]]) = f[n]
  BY <1>5 DEF IsFlattening
<1>7. \A n \in 0 .. EventCount : Said(n) = f[n]
  BY <1>3, <1>6 DEF Said
<1>8. ASSUME NEW n \in 0 .. EventCount - 1
      PROVE  Said(n + 1) = Said(n) \o Delta(Payload(n + 1))
  <2>1. /\ n \in Nat /\ n < EventCount /\ n \in 0 .. EventCount
        /\ n + 1 \in 0 .. EventCount /\ n + 1 \in 1 .. EventCount
    BY <1>1
  <2>. QED  BY <1>4, <1>6, <1>7, <2>1
<1>9. Said(0) = <<>>
  BY <1>1, <1>6, <1>7
<1>10. ASSUME NEW n \in 0 .. EventCount PROVE Said(n) \in Seq(Units)
  <2>1. n \in Nat /\ Said(n) = f[n]
    BY <1>1, <1>7
  <2>. QED  BY <1>6, <2>1
<1>. QED  BY <1>8, <1>9, <1>10

\* Where an event ends, without its separator.
LEMMA EndIs ==
  ASSUME script \in Scripts, NEW n \in 0 .. EventCount - 1
  PROVE  /\ EndOf(n + 1) = Offset(n) + Len(Payload(n + 1))
         /\ EndOf(n + 1) \in Nat /\ Offset(n) < EndOf(n + 1) /\ EndOf(n + 1) <= Offset(n + 1)
<1>1. n + 1 \in 1 .. EventCount /\ n \in 0 .. EventCount
  BY ScriptTyped
<1>2. EndOf(n + 1) = Offset(n + 1) - Len(script.separator)
  BY DEF EndOf, Offset, Stream, Event
<1>3. /\ Offset(n + 1) = Offset(n) + Len(Event(n + 1))
      /\ Len(Event(n + 1)) = Len(Payload(n + 1)) + Len(script.separator)
  BY <1>1, EventLies, EventIs
<1>4. PICK a \in Nat, p \in Nat \ {0}, q \in Nat :
        a = Offset(n) /\ p = Len(Payload(n + 1)) /\ q = Len(script.separator)
  BY <1>1, PayloadIs, ScriptTyped, StreamSteps
<1>5. PICK e, o : e = EndOf(n + 1) /\ o = Offset(n + 1)
  OBVIOUS
<1>6. o = a + (p + q) /\ e = o - q
  BY <1>2, <1>3, <1>4, <1>5
<1>7. e = a + p /\ e \in Nat /\ a < e /\ e <= o
  BY <1>6
<1>. QED  BY <1>4, <1>5, <1>7

\* What has arrived whole, when the last event a separator ended is i.
LEMMA ArrivedIs ==
  ASSUME script \in Scripts, NEW i \in 0 .. EventCount,
         received \in Offset(i) .. Offset(EventCount),
         i < EventCount => received < Offset(i + 1)
  PROVE  Arrived = IF i = EventCount THEN Said(i)
                   ELSE Said(i) \o (IF received - Offset(i) >= Len(Payload(i + 1))
                                    THEN Delta(Payload(i + 1)) ELSE <<>>)
<1>. DEFINE w == [k \in 1 .. EventCount |->
                    IF EndOf(k) <= received THEN Delta(Payload(k)) ELSE <<>>]
<1>1. EventCount \in Nat /\ \A k \in 1 .. EventCount : Delta(Payload(k)) \in Seq(Units)
  BY ScriptTyped, PayloadIs, DeltaTyped
<1>2. w \in [1 .. EventCount -> Seq(Units)]
  <2>1. <<>> \in Seq(Units)
    OBVIOUS
  <2>. QED  BY <1>1, <2>1
<1>3. Arrived = FlattenSeq([k \in 1 .. EventCount |-> w[k]])
  BY DEF Arrived, EventCount
<1>4. \A k \in 1 .. EventCount : w[k] = IF EndOf(k) <= received THEN Delta(Payload(k)) ELSE <<>>
  OBVIOUS
<1>. HIDE DEF w
<1>5. PICK f : IsFlattening(f, Units, w, EventCount)
  BY <1>1, <1>2, FlattenSteps
<1>6. /\ f \in [Nat -> Seq(Units)] /\ f[0] = <<>>
      /\ \A n \in Nat : n < EventCount => f[n + 1] = f[n] \o w[n + 1]
      /\ \A n \in 0 .. EventCount : FlattenSeq([k \in 1 .. n |-> w[k]]) = f[n]
  BY <1>5 DEF IsFlattening
<1>7. \A n \in 0 .. EventCount : Offset(n) \in Nat
  BY StreamSteps
<1>8. received \in Nat
  BY <1>1, <1>7
<1>9. \A n \in Nat : n <= i => f[n] = Said(n)
  <2>. DEFINE T == {n \in Nat : n <= i => f[n] = Said(n)}
  <2>1. 0 \in T
    BY <1>6, SaidSteps
  <2>2. ASSUME NEW n \in Nat, n \in T PROVE n + 1 \in T
    <3>. SUFFICES ASSUME n + 1 <= i PROVE f[n + 1] = Said(n + 1)
      OBVIOUS
    <3>1. /\ n \in 0 .. EventCount - 1 /\ n < EventCount
          /\ n + 1 \in 1 .. EventCount /\ n + 1 \in 0 .. EventCount
          /\ i \in n + 1 .. EventCount
      BY <1>1
    <3>2. EndOf(n + 1) <= Offset(n + 1) /\ Offset(n + 1) <= Offset(i) /\ EndOf(n + 1) \in Nat
      BY <3>1, EndIs, StreamGrows
    <3>3. EndOf(n + 1) <= received
      BY <1>1, <1>7, <1>8, <3>1, <3>2
    <3>4. w[n + 1] = Delta(Payload(n + 1))
      BY <1>4, <3>1, <3>3
    <3>5. f[n] = Said(n)
      BY <2>2
    <3>. QED  BY <1>6, <3>1, <3>4, <3>5, SaidSteps
  <2>3. \A n \in Nat : n \in T => n + 1 \in T
    BY <2>2
  <2>. HIDE DEF T
  <2>4. \A n \in Nat : n \in T
    BY <2>1, <2>3, EveryNat
  <2>. QED  BY <2>4 DEF T
<1>10. Arrived = f[EventCount]
  BY <1>1, <1>3, <1>6
<1>11. CASE i = EventCount
  BY <1>1, <1>9, <1>10, <1>11
<1>12. CASE i # EventCount
  <2>1. /\ i \in 0 .. EventCount - 1 /\ i < EventCount /\ i \in Nat /\ i + 1 \in 1 .. EventCount
        /\ i + 1 \in 0 .. EventCount
    BY <1>1, <1>12
  <2>2. EndOf(i + 1) = Offset(i) + Len(Payload(i + 1)) /\ Len(Payload(i + 1)) \in Nat
    BY <2>1, EndIs, PayloadIs
  <2>3. EndOf(i + 1) <= received <=> received - Offset(i) >= Len(Payload(i + 1))
    BY <1>7, <1>8, <2>1, <2>2
  <2>4. f[i + 1] = Said(i) \o (IF received - Offset(i) >= Len(Payload(i + 1))
                               THEN Delta(Payload(i + 1)) ELSE <<>>)
    <3>1. f[i + 1] = f[i] \o w[i + 1]
      BY <1>6, <2>1
    <3>2. f[i] = Said(i)
      <4>1. i <= i
        BY <2>1
      <4>. QED  BY <1>9, <2>1, <4>1
    <3>. QED  BY <1>4, <2>1, <2>3, <3>1, <3>2
  <2>5. ASSUME NEW n \in Nat, n > i, n < EventCount PROVE f[n + 1] = f[n]
    <3>1. /\ n + 1 \in 1 .. EventCount /\ n \in 0 .. EventCount - 1
          /\ n \in 0 .. EventCount /\ n \in i + 1 .. EventCount
      BY <1>1, <2>1, <2>5
    <3>2. EndOf(n + 1) \in Nat /\ Offset(n) < EndOf(n + 1) /\ Offset(i + 1) <= Offset(n)
      BY <2>1, <3>1, EndIs, StreamGrows
    <3>3. ~(EndOf(n + 1) <= received)
      BY <1>7, <1>8, <2>1, <3>1, <3>2
    <3>4. w[n + 1] = <<>>
      BY <1>4, <3>1, <3>3
    <3>5. f[n] \in Seq(Units)
      BY <1>6
    <3>6. f[n] \o <<>> = f[n]
      BY <3>5, ConcatEmptySeq
    <3>. QED  BY <1>6, <2>5, <3>4, <3>6
  <2>6. \A n \in Nat : n > i /\ n <= EventCount => f[n] = f[i + 1]
    <3>. DEFINE T == {n \in Nat : n > i /\ n <= EventCount => f[n] = f[i + 1]}
    <3>1. 0 \in T
      BY <2>1
    <3>2. ASSUME NEW n \in Nat, n \in T PROVE n + 1 \in T
      <4>. SUFFICES ASSUME n + 1 > i, n + 1 <= EventCount PROVE f[n + 1] = f[i + 1]
        OBVIOUS
      <4>1. CASE n = i
        BY <4>1
      <4>2. CASE n # i
        <5>1. n > i /\ n < EventCount /\ n <= EventCount
          BY <1>1, <2>1, <4>2
        <5>. QED  BY <2>5, <3>2, <5>1
      <4>. QED  BY <4>1, <4>2
    <3>3. \A n \in Nat : n \in T => n + 1 \in T
      BY <3>2
    <3>. HIDE DEF T
    <3>4. \A n \in Nat : n \in T
      BY <3>1, <3>3, EveryNat
    <3>. QED  BY <3>4 DEF T
  <2>7. f[EventCount] = f[i + 1]
    BY <1>1, <2>1, <2>6
  <2>. QED  BY <1>10, <1>12, <2>4, <2>7
<1>. QED  BY <1>11, <1>12

\* The events up to i are taken, and what arrived behind them is carried.
Parsed(b, r, i) ==
  /\ r \in Offset(i) .. Offset(EventCount)
  /\ b.carry = SubSeq(Streamed, Offset(i) + 1, r)
  /\ Written(b.text, b.answer, Said(i))

\* No more event has arrived whole.
Settled(r, i) == i < EventCount => r < Offset(i + 1)

\* The part of a part.
LEMMA PartBounds ==
  ASSUME NEW l \in Nat, NEW a \in 0 .. l, NEW z \in a .. l, NEW m \in 0 .. z - a
  PROVE  /\ a + m \in 0 .. l
         /\ z \in a + m .. l
         /\ z - (a + m) = (z - a) - m
         /\ \A j \in 1 .. (z - a) - m : m + j \in 1 .. z - a /\ a + (m + j) = (a + m) + j
  OBVIOUS

LEMMA PartOfPart ==
  ASSUME NEW S, NEW s \in Seq(S), NEW a \in 0 .. Len(s), NEW z \in a .. Len(s),
         NEW c \in Seq(S), c = SubSeq(s, a + 1, z), NEW m \in 0 .. Len(c)
  PROVE  SubSeq(c, m + 1, Len(c)) = SubSeq(s, (a + m) + 1, z)
<1>1. /\ a \in Nat /\ z \in Nat /\ Len(s) \in Nat /\ m \in Nat /\ Len(c) \in Nat
      /\ Len(c) = z - a /\ \A j \in 1 .. z - a : c[j] = s[a + j]
  BY PartIs
<1>2. /\ a + m \in 0 .. Len(s)
      /\ z \in a + m .. Len(s)
      /\ z - (a + m) = (z - a) - m
      /\ \A j \in 1 .. (z - a) - m : m + j \in 1 .. z - a /\ a + (m + j) = (a + m) + j
  <2>1. PICK l \in Nat : l = Len(s)
    BY <1>1
  <2>2. a \in 0 .. l /\ z \in a .. l /\ m \in 0 .. z - a
    BY <1>1, <2>1
  <2>. QED  BY <2>1, <2>2, PartBounds
<1>3. PICK n \in 0 .. Len(s) : n = a + m
  BY <1>2
<1>4. /\ z \in n .. Len(s)
      /\ z - n = (z - a) - m
      /\ \A j \in 1 .. (z - a) - m : m + j \in 1 .. z - a /\ a + (m + j) = n + j
  BY <1>2, <1>3
<1>5. PICK k \in m .. Len(c) : k = Len(c)
  <2>1. PICK l \in Nat : l = Len(c)
    BY <1>1
  <2>2. l \in m .. l
    BY <1>1, <2>1
  <2>. QED  BY <2>1, <2>2
<1>. DEFINE t == SubSeq(c, m + 1, k)
            u == SubSeq(s, n + 1, z)
<1>6. t \in Seq(S) /\ Len(t) = k - m /\ \A j \in 1 .. k - m : t[j] = c[m + j]
  BY PartIs
<1>7. u \in Seq(S) /\ Len(u) = z - n /\ \A j \in 1 .. z - n : u[j] = s[n + j]
  BY <1>3, <1>4, PartIs
<1>. HIDE DEF t, u
<1>8. k - m = z - n /\ k - m = (z - a) - m
  BY <1>1, <1>4, <1>5
<1>9. Len(t) = Len(u)
  BY <1>8, <1>6, <1>7
<1>10. ASSUME NEW j \in 1 .. Len(t) PROVE t[j] = u[j]
  <2>1. j \in 1 .. k - m /\ j \in 1 .. z - n /\ j \in 1 .. (z - a) - m
    BY <1>8, <1>6
  <2>2. m + j \in 1 .. z - a /\ a + (m + j) = n + j
    BY <1>4, <2>1
  <2>3. t[j] = c[m + j] /\ u[j] = s[n + j]
    BY <1>6, <1>7, <2>1
  <2>4. c[m + j] = s[a + (m + j)]
    BY <1>1, <2>2
  <2>. QED  BY <2>2, <2>3, <2>4
<1>11. t = u
  BY <1>6, <1>7, <1>9, <1>10, SeqEqual
<1>. QED  BY <1>3, <1>5, <1>11 DEF t, u

\* A step of process_stream_chunk takes out the next event when it has arrived
\* with its separator, and nothing else.
LEMMA EventTaken ==
  ASSUME script \in Scripts, NEW b \in Buffers, ~b.stream, Len(b.carry) < CarryMax,
         NEW i \in 0 .. EventCount, NEW r, Parsed(b, r, i)
  PROVE  /\ Settled(r, i) => TakeEvent(b) = b
         /\ ~Settled(r, i) => /\ i < EventCount /\ Parsed(TakeEvent(b), r, i + 1)
                              /\ ~TakeEvent(b).stream
                              /\ Len(TakeEvent(b).carry) < Len(b.carry)
<1>1. PICK c \in Seq(Units) : c = b.carry
  BY DEF Buffers
<1>2. /\ r \in Offset(i) .. Offset(EventCount) /\ c = SubSeq(Streamed, Offset(i) + 1, r)
      /\ Written(b.text, b.answer, Said(i)) /\ EventCount \in Nat
  BY <1>1, ScriptTyped DEF Parsed
<1>3. /\ Streamed \in Seq(Units) /\ Len(Streamed) = Offset(EventCount)
      /\ Offset(i) \in 0 .. Len(Streamed) /\ r \in Offset(i) .. Len(Streamed)
      /\ Len(c) = r - Offset(i)
      /\ i = EventCount => c = <<>> /\ r = Offset(i)
      /\ i < EventCount => \A j \in 1 .. Len(Event(i + 1)) : j <= Len(c) => c[j] = Event(i + 1)[j]
  BY <1>2, CarriedIs
<1>4. Offset(i) \in Nat /\ Offset(EventCount) \in Nat /\ r \in Nat /\ Len(c) \in Nat
  <2>1. EventCount \in 0 .. EventCount
    BY <1>2
  <2>2. Offset(i) \in Nat /\ Offset(EventCount) \in Nat
    BY <2>1, StreamSteps
  <2>. QED  BY <1>2, <2>2
<1>5. CASE i = EventCount
  <2>1. Separators(c) = {}
    <3>1. Len(c) = 0
      BY <1>3, <1>5
    <3>. QED  BY <3>1 DEF Separators
  <2>. QED  BY <1>1, <1>2, <1>5, <2>1 DEF TakeEvent, Settled
<1>6. CASE i # EventCount
  <2>1. /\ i \in 0 .. EventCount - 1 /\ i < EventCount
        /\ i + 1 \in 1 .. EventCount /\ i + 1 \in 0 .. EventCount
    BY <1>2, <1>6
  <2>2. PICK p \in Seq(Units) : p = Payload(i + 1)
    BY <2>1, PayloadIs
  <2>3. PICK q : q = script.separator /\ q \in {<<LF, LF>>, <<CR, LF, CR, LF>>}
    BY ScriptTyped
  <2>4. PICK n \in Nat : n = Len(p)
    OBVIOUS
  <2>5. PICK l \in Nat \ {0} : l = Len(q)
    <3>1. PICK k \in {2, 4} : k = Len(script.separator)
      BY ScriptTyped
    <3>2. k = Len(q)
      BY <2>3, <3>1
    <3>3. k \in Nat \ {0}
      OBVIOUS
    <3>. QED  BY <3>2, <3>3
  <2>6. /\ n # 0 /\ \A k \in 1 .. n : p[k] \notin {LF, CR}
    BY <2>1, <2>2, <2>4, PayloadIs
  <2>7. /\ Len(Event(i + 1)) = n + l
        /\ \A k \in 1 .. n : Event(i + 1)[k] = p[k]
        /\ \A k \in 1 .. l : Event(i + 1)[n + k] = q[k]
    <3>1. /\ Len(Event(i + 1)) = Len(p) + Len(q)
          /\ \A k \in 1 .. Len(p) : Event(i + 1)[k] = p[k]
          /\ \A k \in 1 .. Len(q) : Event(i + 1)[Len(p) + k] = q[k]
      BY <2>1, <2>2, <2>3, EventIs
    <3>. QED  BY <2>4, <2>5, <3>1
  <2>8. Offset(i + 1) = Offset(i) + (n + l) /\ Offset(i + 1) <= Offset(EventCount)
    BY <2>1, <2>7, EventLies
  <2>9. ASSUME NEW k \in 1 .. n, k <= Len(c) PROVE c[k] = p[k]
    <3>1. k \in 1 .. Len(Event(i + 1))
      BY <2>7
    <3>2. c[k] = Event(i + 1)[k]
      BY <1>3, <2>1, <2>9, <3>1
    <3>. QED  BY <2>7, <3>2
  <2>10. \A k \in 1 .. n : k <= Len(c) => c[k] \notin {LF, CR}
    BY <2>6, <2>9
  <2>11. \A k \in 1 .. Len(q) : n + k <= Len(c) => c[n + k] = q[k]
    <3>. SUFFICES ASSUME NEW k \in 1 .. l, n + k <= Len(c) PROVE c[n + k] = q[k]
      BY <2>5
    <3>1. n + k \in 1 .. Len(Event(i + 1))
      BY <2>7
    <3>. QED  BY <1>3, <2>1, <2>7, <3>1
  <2>12. /\ Len(c) < n + l => Separators(c) = {}
         /\ Len(c) >= n + l =>
              n + 1 \in Separators(c) /\ Min(Separators(c)) = n + 1 /\ SeparatorAt(c, n + 1) = l
    <3>1. /\ Len(c) < n + Len(q) => Separators(c) = {}
          /\ Len(c) >= n + Len(q) => /\ n + 1 \in Separators(c) /\ Min(Separators(c)) = n + 1
                                     /\ SeparatorAt(c, n + 1) = Len(q)
      BY <2>3, <2>10, <2>11, FirstSeparator
    <3>. QED  BY <2>5, <3>1
  <2>13. Settled(r, i) <=> Len(c) < n + l
    BY <1>3, <1>4, <2>1, <2>8 DEF Settled
  <2>14. CASE Settled(r, i)
    BY <1>1, <2>12, <2>13, <2>14 DEF TakeEvent
  <2>15. CASE ~Settled(r, i)
    <3>1. Len(c) >= n + l
      BY <1>4, <2>13, <2>15
    <3>. DEFINE rest == SubSeq(c, (n + l) + 1, Len(c))
                a == [b EXCEPT !.carry = rest]
    <3>2. TakeEvent(b) = ProcessEvent(a, SubSeq(c, 1, n))
      <4>1. Separators(c) # {} /\ (n + 1) - 1 = n /\ (n + 1) + l = (n + l) + 1
        BY <2>12, <3>1
      <4>. QED  BY <1>1, <2>12, <3>1, <4>1 DEF TakeEvent
    <3>3. n + l \in 0 .. Len(c) /\ n \in 0 .. Len(c)
      BY <1>4, <3>1
    <3>4. rest = SubSeq(Streamed, Offset(i + 1) + 1, r)
      <4>1. PICK o \in 0 .. Len(Streamed) : o = Offset(i) /\ r \in o .. Len(Streamed)
        BY <1>3
      <4>2. PICK m \in 0 .. Len(c) : m = n + l
        BY <3>3
      <4>3. PICK s \in Seq(Units) : s = Streamed
        BY <1>3
      <4>4. PICK z \in o .. Len(s) : z = r
        BY <4>1, <4>3
      <4>5. o \in 0 .. Len(s) /\ c = SubSeq(s, o + 1, z)
        BY <1>2, <4>1, <4>3, <4>4
      <4>6. SubSeq(c, m + 1, Len(c)) = SubSeq(s, (o + m) + 1, z)
        BY <4>5, PartOfPart
      <4>. QED  BY <2>8, <4>1, <4>2, <4>3, <4>4, <4>6
    <3>5. rest \in Seq(Units) /\ Len(rest) = Len(c) - (n + l)
      <4>1. PICK m \in 0 .. Len(c) : m = n + l
        BY <3>3
      <4>2. Len(c) \in m .. Len(c)
        BY <1>4
      <4>. QED  BY <4>1, <4>2, PartIs
    <3>6. SubSeq(c, 1, n) = p
      <4>1. PICK z \in 0 .. Len(c) : z = 0
        BY <1>4
      <4>2. /\ SubSeq(c, z + 1, n) \in Seq(Units) /\ Len(SubSeq(c, z + 1, n)) = n - z
            /\ \A j \in 1 .. n - z : SubSeq(c, z + 1, n)[j] = c[z + j]
        <5>1. n \in z .. Len(c)
          BY <3>3, <4>1
        <5>. QED  BY <5>1, PartIs
      <4>3. PICK t : t = SubSeq(c, z + 1, n)
        OBVIOUS
      <4>4. t \in Seq(Units) /\ Len(t) = n /\ \A j \in 1 .. n : t[j] = c[j]
        BY <4>1, <4>2, <4>3
      <4>5. ASSUME NEW j \in 1 .. n PROVE t[j] = p[j]
        <5>1. j <= Len(c)
          BY <1>4, <3>3
        <5>. QED  BY <2>9, <4>4, <5>1
      <4>6. t = p
        BY <2>4, <4>4, <4>5, SeqEqual
      <4>7. z + 1 = 1
        BY <4>1
      <4>. QED  BY <4>3, <4>6, <4>7
    <3>. HIDE DEF rest
    <3>7. a \in Buffers /\ a.carry = rest /\ a.text = b.text /\ a.answer = b.answer /\ ~a.stream
      BY <3>5 DEF Buffers
    <3>. HIDE DEF a
    <3>8. TakeEvent(b) = ProcessEvent(a, p) /\ p # <<>> /\ Len(p) < CarryMax
      <4>1. Len(p) < CarryMax
        BY <1>1, <1>4, <2>4, <2>5, <3>1, ChatAssumption
      <4>2. p # <<>>
        BY <2>4, <2>6
      <4>3. TakeEvent(b) = ProcessEvent(a, p)
        <5>. HIDE DEF a
        <5>. QED  BY <3>2, <3>6
      <4>. QED  BY <4>1, <4>2, <4>3
    <3>9. /\ TakeEvent(b).carry = rest /\ ~TakeEvent(b).stream
          /\ \A said \in Seq(Units) :
               Written(b.text, b.answer, said)
               => Written(TakeEvent(b).text, TakeEvent(b).answer, said \o Delta(p))
      BY <3>7, <3>8, EventProcessed
    <3>10. Said(i) \in Seq(Units) /\ Said(i + 1) = Said(i) \o Delta(p)
      BY <2>1, <2>2, SaidSteps
    <3>11. Written(TakeEvent(b).text, TakeEvent(b).answer, Said(i + 1))
      BY <1>2, <3>9, <3>10
    <3>12. r \in Offset(i + 1) .. Offset(EventCount)
      BY <1>3, <1>4, <2>8, <3>1
    <3>13. Len(rest) < Len(c)
      BY <1>4, <3>1, <3>5
    <3>. QED  BY <1>1, <2>1, <2>15, <3>4, <3>9, <3>11, <3>12, <3>13 DEF Parsed
  <2>. QED  BY <2>14, <2>15
<1>. QED  BY <1>5, <1>6

LEMMA EventsTyped ==
  ASSUME NEW b \in Buffers
  PROVE  TakeEvents(b) \in Buffers /\ (b.stream => TakeEvents(b).stream)
<1>1. PICK f : IsTaking(f, b)
  BY TakeSteps
<1>2. /\ f \in [Nat -> Buffers] /\ f[0] = b
      /\ \A n \in Nat : f[n + 1] = TakeEvent(f[n])
      /\ TakeEvents(b) = f[Len(b.carry)]
  BY <1>1 DEF IsTaking
<1>. DEFINE T == {n \in Nat : b.stream => f[n].stream}
<1>3. 0 \in T
  BY <1>2
<1>4. ASSUME NEW n \in Nat, n \in T PROVE n + 1 \in T
  <2>1. PICK c \in Buffers : c = f[n] /\ f[n + 1] = TakeEvent(c)
    BY <1>2
  <2>2. b.stream => c.stream
    BY <1>4, <2>1
  <2>3. c.stream => TakeEvent(c).stream
    BY TakeTyped
  <2>4. b.stream => f[n + 1].stream
    BY <2>1, <2>2, <2>3
  <2>. QED  BY <2>4
<1>5. \A n \in Nat : n \in T => n + 1 \in T
  BY <1>4
<1>6. \A n \in T : b.stream => f[n].stream
  OBVIOUS
<1>. HIDE DEF T
<1>7. Len(b.carry) \in Nat
  BY DEF Buffers
<1>8. Len(b.carry) \in T
  BY <1>3, <1>5, <1>7, EveryNat
<1>. QED  BY <1>2, <1>6, <1>7, <1>8

\* After n steps k events are taken; each step but the last shortens what is
\* carried, m units to begin with.
Taken(c, r, k, n, m) ==
  /\ Parsed(c, r, k) /\ ~c.stream /\ Len(c.carry) <= m
  /\ Settled(r, k) \/ Len(c.carry) + n <= m

\* process_stream_chunk takes out every event that has arrived whole.
LEMMA EventsTaken ==
  ASSUME script \in Scripts, NEW b \in Buffers, ~b.stream, Len(b.carry) < CarryMax,
         NEW i \in 0 .. EventCount, NEW r, Parsed(b, r, i)
  PROVE  /\ ~TakeEvents(b).stream
         /\ \E k \in 0 .. EventCount : Parsed(TakeEvents(b), r, k) /\ Settled(r, k)
<1>1. PICK f : IsTaking(f, b)
  BY TakeSteps
<1>2. /\ f \in [Nat -> Buffers] /\ f[0] = b
      /\ \A n \in Nat : f[n + 1] = TakeEvent(f[n])
      /\ TakeEvents(b) = f[Len(b.carry)]
  BY <1>1 DEF IsTaking
<1>3. PICK m \in Nat : m = Len(b.carry)
  BY DEF Buffers
<1>4. \A c \in Buffers : Len(c.carry) \in Nat
  BY DEF Buffers
<1>. DEFINE T == {n \in Nat : \E k \in 0 .. EventCount : Taken(f[n], r, k, n, m)}
<1>5. 0 \in T
  <2>1. m <= m /\ m + 0 <= m
    OBVIOUS
  <2>2. Taken(b, r, i, 0, m)
    BY <1>3, <2>1 DEF Taken
  <2>3. \E k \in 0 .. EventCount : Taken(f[0], r, k, 0, m)
    BY <1>2, <2>2
  <2>. QED  BY <2>3
<1>6. ASSUME NEW n \in Nat, n \in T PROVE n + 1 \in T
  <2>1. PICK c \in Buffers : c = f[n] /\ f[n + 1] = TakeEvent(c)
    BY <1>2
  <2>2. PICK k \in 0 .. EventCount : Taken(c, r, k, n, m)
    BY <1>6, <2>1
  <2>3. /\ Parsed(c, r, k) /\ ~c.stream /\ Len(c.carry) <= m
        /\ Settled(r, k) \/ Len(c.carry) + n <= m
    BY <2>2 DEF Taken
  <2>4. Len(c.carry) \in Nat
    BY <1>4
  <2>5. Len(c.carry) < CarryMax
    BY <1>3, <2>3, <2>4, ChatAssumption
  <2>6. /\ Settled(r, k) => TakeEvent(c) = c
        /\ ~Settled(r, k) => /\ k < EventCount /\ Parsed(TakeEvent(c), r, k + 1)
                             /\ ~TakeEvent(c).stream
                             /\ Len(TakeEvent(c).carry) < Len(c.carry)
    BY <2>3, <2>5, EventTaken
  <2>7. \E j \in 0 .. EventCount : Taken(TakeEvent(c), r, j, n + 1, m)
    <3>1. CASE Settled(r, k)
      <4>1. Taken(TakeEvent(c), r, k, n + 1, m)
        BY <2>3, <2>6, <3>1 DEF Taken
      <4>. QED  BY <4>1
    <3>2. CASE ~Settled(r, k)
      <4>1. k + 1 \in 0 .. EventCount
        BY <2>6, <3>2, ScriptTyped
      <4>2. PICK d \in Buffers : d = TakeEvent(c)
        BY TakeTyped
      <4>3. PICK x \in Nat, y \in Nat : x = Len(d.carry) /\ y = Len(c.carry)
        BY <1>4
      <4>4. x < y /\ y + n <= m
        BY <2>3, <2>6, <3>2, <4>2, <4>3
      <4>5. x + (n + 1) <= m /\ x <= m
        BY <4>4
      <4>6. Taken(d, r, k + 1, n + 1, m)
        BY <2>6, <3>2, <4>2, <4>3, <4>5 DEF Taken
      <4>. QED  BY <4>1, <4>2, <4>6
    <3>. QED  BY <3>1, <3>2
  <2>. QED  BY <2>1, <2>7
<1>7. \A n \in Nat : n \in T => n + 1 \in T
  BY <1>6
<1>8. \A n \in T : \E k \in 0 .. EventCount : Taken(f[n], r, k, n, m)
  OBVIOUS
<1>. HIDE DEF T
<1>9. m \in T
  BY <1>5, <1>7, EveryNat
<1>10. PICK k \in 0 .. EventCount : Taken(f[m], r, k, m, m)
  BY <1>8, <1>9
<1>11. PICK c \in Buffers : c = f[m] /\ c = TakeEvents(b)
  BY <1>2, <1>3
<1>12. Settled(r, k)
  <2>. SUFFICES ASSUME ~Settled(r, k) PROVE FALSE
    OBVIOUS
  <2>1. Len(c.carry) = 0
    <3>1. PICK x \in Nat : x = Len(c.carry)
      BY <1>4
    <3>2. x + m <= m
      BY <1>10, <1>11, <3>1 DEF Taken
    <3>. QED  BY <3>1, <3>2
  <2>2. /\ r \in Offset(k) .. Offset(EventCount) /\ c.carry = SubSeq(Streamed, Offset(k) + 1, r)
    BY <1>10, <1>11 DEF Taken, Parsed
  <2>3. Len(c.carry) = r - Offset(k)
    BY <2>2, CarriedIs
  <2>4. /\ k \in 0 .. EventCount - 1 /\ r >= Offset(k + 1)
    <3>1. EventCount \in Nat /\ EventCount \in 0 .. EventCount /\ Offset(k) \in Nat
      BY ScriptTyped, StreamSteps
    <3>2. Offset(EventCount) \in Nat
      BY <3>1, StreamSteps
    <3>3. k < EventCount /\ ~(r < Offset(k + 1))
      BY DEF Settled
    <3>4. k \in 0 .. EventCount - 1
      BY <3>1, <3>3
    <3>5. k + 1 \in 0 .. EventCount
      BY <3>1, <3>4
    <3>6. Offset(k + 1) \in Nat /\ r \in Nat
      BY <2>2, <3>1, <3>2, <3>5, StreamSteps
    <3>. QED  BY <3>3, <3>4, <3>6
  <2>5. Offset(k) < Offset(k + 1) /\ Offset(k) \in Nat /\ Offset(k + 1) \in Nat
    <3>1. k \in 0 .. EventCount /\ k + 1 \in 0 .. EventCount
      BY <2>4, ScriptTyped
    <3>. QED  BY <2>4, <3>1, EndIs, StreamSteps
  <2>6. r \in Nat
    <3>1. EventCount \in 0 .. EventCount
      BY ScriptTyped
    <3>. QED  BY <2>2, <2>5, <3>1, StreamSteps
  <2>. QED  BY <2>1, <2>3, <2>4, <2>5, <2>6
<1>. QED  BY <1>10, <1>11, <1>12 DEF Taken

LEMMA ChunkTyped ==
  ASSUME NEW b \in Buffers, NEW chunk \in Seq(Units)
  PROVE  ProcessChunk(b, chunk) \in Buffers /\ (b.stream => ProcessChunk(b, chunk).stream)
<1>1. PICK a : a = [b EXCEPT !.carry = @ \o chunk]
  OBVIOUS
<1>2. a \in Buffers /\ a.stream = b.stream
  <2>1. b.carry \o chunk \in Seq(Units)
    BY ConcatProperties DEF Buffers
  <2>. QED  BY <1>1, <2>1 DEF Buffers
<1>3. TakeEvents(a) \in Buffers /\ (b.stream => TakeEvents(a).stream)
  BY <1>2, EventsTyped
<1>4. ProcessChunk(b, chunk) = IF Len(b.carry) + Len(chunk) >= CarryMax
                               THEN [b EXCEPT !.stream = TRUE] ELSE TakeEvents(a)
  BY <1>1 DEF ProcessChunk
<1>. QED  BY <1>3, <1>4 DEF Buffers

\* A chunk that is not lost takes the parsing as far as it goes.
LEMMA ChunkProcessed ==
  ASSUME script \in Scripts, NEW b \in Buffers, NEW i \in 0 .. EventCount, NEW r, Parsed(b, r, i),
         NEW z \in r .. Offset(EventCount), NEW chunk \in Seq(Units),
         chunk = SubSeq(Streamed, r + 1, z), ~ProcessChunk(b, chunk).stream
  PROVE  \E k \in 0 .. EventCount : Parsed(ProcessChunk(b, chunk), z, k) /\ Settled(z, k)
<1>1. PICK a : a = [b EXCEPT !.carry = @ \o chunk]
  OBVIOUS
<1>2. PICK c \in Seq(Units) : c = b.carry
  BY DEF Buffers
<1>3. ~b.stream
  BY ChunkTyped
<1>4. a \in Buffers /\ ~a.stream /\ a.carry = c \o chunk /\ a.text = b.text /\ a.answer = b.answer
  <2>1. c \o chunk \in Seq(Units)
    BY ConcatProperties
  <2>. QED  BY <1>1, <1>2, <1>3, <2>1 DEF Buffers
<1>5. Len(a.carry) = Len(c) + Len(chunk) /\ Len(c) \in Nat /\ Len(chunk) \in Nat
  BY <1>4, ConcatProperties
<1>6. ProcessChunk(b, chunk) = TakeEvents(a) /\ Len(a.carry) < CarryMax
  <2>1. ProcessChunk(b, chunk) = IF Len(c) + Len(chunk) >= CarryMax
                                 THEN [b EXCEPT !.stream = TRUE] ELSE TakeEvents(a)
    BY <1>1, <1>2 DEF ProcessChunk
  <2>2. [b EXCEPT !.stream = TRUE].stream = TRUE
    BY DEF Buffers
  <2>3. ~(Len(c) + Len(chunk) >= CarryMax)
    BY <2>1, <2>2
  <2>. QED  BY <1>5, <2>1, <2>3, ChatAssumption
<1>7. /\ r \in Offset(i) .. Offset(EventCount) /\ c = SubSeq(Streamed, Offset(i) + 1, r)
      /\ Written(b.text, b.answer, Said(i))
  BY <1>2 DEF Parsed
<1>8. /\ Streamed \in Seq(Units) /\ Len(Streamed) = Offset(EventCount)
      /\ Offset(i) \in 0 .. Len(Streamed) /\ r \in Offset(i) .. Len(Streamed)
  BY <1>7, CarriedIs
<1>9. c \o chunk = SubSeq(Streamed, Offset(i) + 1, z)
  <2>1. PICK s \in Seq(Units) : s = Streamed
    BY <1>8
  <2>2. PICK o \in 0 .. Len(s) : o = Offset(i) /\ r \in o .. Len(s) /\ z \in r .. Len(s)
    BY <1>8, <2>1
  <2>3. SubSeq(s, o + 1, r) \o SubSeq(s, r + 1, z) = SubSeq(s, o + 1, z)
    <3>1. PICK m \in 1 .. Len(s) + 1 : m = o + 1 /\ r \in m - 1 .. Len(s)
      BY <2>2
    <3>. QED  BY <2>2, <3>1, ConcatAdjacentSubSeq
  <2>. QED  BY <1>7, <2>1, <2>2, <2>3
<1>10. z \in Offset(i) .. Offset(EventCount)
  <2>1. PICK o \in Nat, l \in Nat : o = Offset(i) /\ l = Offset(EventCount)
    BY <1>8
  <2>. QED  BY <1>7, <2>1
<1>11. Parsed(a, z, i)
  BY <1>4, <1>7, <1>9, <1>10 DEF Parsed
<1>12. \E k \in 0 .. EventCount : Parsed(TakeEvents(a), z, k) /\ Settled(z, k)
  BY <1>4, <1>6, <1>11, EventsTaken
<1>. QED  BY <1>6, <1>12

LEMMA RemainderTyped ==
  ASSUME NEW b \in Buffers
  PROVE  /\ ProcessRemainder(b) \in Buffers
         /\ ProcessRemainder(b).text = ProcessEvent(b, b.carry).text
         /\ ProcessRemainder(b).answer = ProcessEvent(b, b.carry).answer
         /\ ProcessRemainder(b).stream = ProcessEvent(b, b.carry).stream
         /\ b.stream => ProcessRemainder(b).stream
<1>1. b.carry \in Seq(Units) /\ <<>> \in Seq(Units)
  BY DEF Buffers
<1>2. PICK p \in Buffers : p = ProcessEvent(b, b.carry) /\ (b.stream => p.stream)
  BY <1>1, EventProcessed
<1>3. ProcessRemainder(b) = [p EXCEPT !.carry = <<>>]
  BY <1>2 DEF ProcessRemainder
<1>. QED  BY <1>1, <1>2, <1>3 DEF Buffers

\* The rest of a settled stream is the event that lost its separator, or a
\* part of one that says nothing.
LEMMA RemainderProcessed ==
  ASSUME script \in Scripts, NEW b \in Buffers, NEW i \in 0 .. EventCount,
         Parsed(b, received, i), Settled(received, i), ~ProcessRemainder(b).stream
  PROVE  Written(ProcessRemainder(b).text, ProcessRemainder(b).answer, Arrived)
<1>1. PICK c \in Seq(Units) : c = b.carry
  BY DEF Buffers
<1>2. PICK p \in Buffers : p = ProcessEvent(b, c)
  BY EventProcessed
<1>3. /\ ProcessRemainder(b).text = p.text /\ ProcessRemainder(b).answer = p.answer /\ ~p.stream
  BY <1>1, <1>2, RemainderTyped
<1>4. /\ received \in Offset(i) .. Offset(EventCount)
      /\ c = SubSeq(Streamed, Offset(i) + 1, received)
      /\ Written(b.text, b.answer, Said(i))
  BY <1>1 DEF Parsed
<1>5. /\ Len(c) = received - Offset(i) /\ (i = EventCount => c = <<>>)
      /\ i < EventCount => \A j \in 1 .. Len(Event(i + 1)) : j <= Len(c) => c[j] = Event(i + 1)[j]
  BY <1>4, CarriedIs
<1>6. Said(i) \in Seq(Units) /\ EventCount \in Nat /\ Len(c) \in Nat
  BY SaidSteps, ScriptTyped
<1>7. Written(p.text, p.answer, IF c = <<>> THEN Said(i) ELSE Said(i) \o Delta(c))
  <2>1. PICK said \in Seq(Units) : said = Said(i)
    BY <1>6
  <2>2. \A d \in Seq(Units) :
          Written(b.text, b.answer, d)
          => Written(ProcessEvent(b, c).text, ProcessEvent(b, c).answer,
                     IF c = <<>> THEN d ELSE d \o Delta(c))
    <3>1. ~ProcessEvent(b, c).stream
      BY <1>2, <1>3
    <3>. QED  BY <3>1, EventProcessed
  <2>3. Written(b.text, b.answer, said)
    BY <1>4, <2>1
  <2>4. Written(ProcessEvent(b, c).text, ProcessEvent(b, c).answer,
                IF c = <<>> THEN said ELSE said \o Delta(c))
    BY <2>2, <2>3
  <2>5. Written(p.text, p.answer, IF c = <<>> THEN said ELSE said \o Delta(c))
    BY <1>2, <2>4
  <2>. QED  BY <2>1, <2>5
<1>8. Arrived = IF i = EventCount THEN Said(i)
                ELSE Said(i) \o (IF Len(c) >= Len(Payload(i + 1))
                                 THEN Delta(Payload(i + 1)) ELSE <<>>)
  BY <1>4, <1>5, ArrivedIs DEF Settled
<1>9. CASE i = EventCount
  BY <1>3, <1>5, <1>7, <1>8, <1>9
<1>10. CASE i # EventCount
  <2>1. i \in 0 .. EventCount - 1 /\ i < EventCount /\ i + 1 \in 1 .. EventCount
    BY <1>6, <1>10
  <2>2. Len(Payload(i + 1)) \in Nat \ {0}
    BY <2>1, PayloadIs
  <2>3. Len(c) <= Len(Event(i + 1))
    <3>1. PICK o \in Nat, e \in Nat : o = Offset(i) /\ e = Len(Event(i + 1))
      BY <2>1, StreamSteps, EventIs
    <3>2. Offset(i + 1) = o + e /\ received < o + e
      BY <2>1, <3>1, EventLies DEF Settled
    <3>3. received \in Nat
      <4>1. EventCount \in 0 .. EventCount
        BY <1>6
      <4>2. Offset(EventCount) \in Nat
        BY <4>1, StreamSteps
      <4>. QED  BY <1>4, <3>1, <4>2
    <3>. QED  BY <1>5, <3>1, <3>2, <3>3
  <2>4. Delta(c) = IF Len(c) >= Len(Payload(i + 1)) THEN Delta(Payload(i + 1)) ELSE <<>>
    BY <1>5, <2>1, <2>3, DeltaOfPart
  <2>5. Arrived = Said(i) \o Delta(c)
    BY <1>8, <1>10, <2>4
  <2>6. CASE c = <<>>
    <3>1. Delta(c) = <<>>
      <4>1. Len(c) = 0
        BY <2>6
      <4>2. ~(Len(c) >= Len(Payload(i + 1)))
        BY <2>2, <4>1
      <4>. QED  BY <2>4, <4>2
    <3>2. Arrived = Said(i)
      BY <1>6, <2>5, <3>1, ConcatEmptySeq
    <3>. QED  BY <1>3, <1>7, <2>6, <3>2
  <2>7. CASE c # <<>>
    BY <1>3, <1>7, <2>5, <2>7
  <2>. QED  BY <2>6, <2>7
<1>. QED  BY <1>9, <1>10

-----------------------------------------------------------------------------
(* The call keeps it so *)

\* The script is never changed, nor what is made of it.
LEMMA ScriptKept ==
  ASSUME script' = script
  PROVE  /\ EventCount' = EventCount /\ Streamed' = Streamed
         /\ \A i : Payload(i)' = Payload(i) /\ Offset(i)' = Offset(i) /\ Said(i)' = Said(i)
                   /\ EndOf(i)' = EndOf(i)
<1>1. EventCount' = EventCount
  BY DEF EventCount
<1>2. \A i : Payload(i)' = Payload(i)
  BY DEF Payload
<1>3. \A i : Event(i)' = Event(i)
  BY <1>2 DEF Event
<1>4. \A i : Stream(i)' = Stream(i)
  <2>1. \A i : [k \in 1 .. i |-> Event(k)'] = [k \in 1 .. i |-> Event(k)]
    BY <1>3
  <2>. QED  BY <2>1 DEF Stream
<1>5. \A i : Said(i)' = Said(i)
  <2>1. \A i : [k \in 1 .. i |-> Delta(Payload(k)')] = [k \in 1 .. i |-> Delta(Payload(k))]
    BY <1>2
  <2>. QED  BY <2>1 DEF Said
<1>6. \A i : Offset(i)' = Offset(i) /\ EndOf(i)' = EndOf(i)
  <2>1. \A i : EndOf(i) = Len(Stream(i)) - Len(script.separator)
    BY DEF EndOf, Stream, Event
  <2>2. \A i : EndOf(i)' = Len(Stream(i)') - Len(script'.separator)
    BY DEF EndOf, Stream, Event
  <2>. QED  BY <1>4, <2>1, <2>2 DEF Offset
<1>7. Streamed = Stream(EventCount) /\ Streamed' = Stream(EventCount)'
  BY DEF Streamed, Stream, Event, EventCount
<1>8. Streamed' = Streamed
  BY <1>1, <1>4, <1>7
<1>. QED  BY <1>1, <1>2, <1>5, <1>6, <1>8

LEMMA ArrivedKept ==
  ASSUME script' = script, received' = received
  PROVE  Arrived' = Arrived
<1>1. \A i : Payload(i)' = Payload(i) /\ EndOf(i)' = EndOf(i)
  BY ScriptKept
<1>2. [i \in 1 .. Len(script.events) |-> IF EndOf(i)' <= received THEN Delta(Payload(i)') ELSE <<>>]
      = [i \in 1 .. Len(script.events) |-> IF EndOf(i) <= received THEN Delta(Payload(i)) ELSE <<>>]
  BY <1>1
<1>. QED  BY <1>2 DEF Arrived

\* Types, and no more is received than is sent.
ChatTyped ==
  /\ script \in Scripts /\ ChatShape
  /\ stored \in Seq(Units) /\ carry \in Seq(Units) /\ text \in Seq(Units)
  /\ overflow \in [body : BOOLEAN, stream : BOOLEAN, answer : BOOLEAN]
  /\ received \in 0 .. Len(Body)

\* As long as no chunk is lost, what has been streamed is parsed as far as it
\* can be.
StreamInv ==
  chat.stream /\ ~overflow.stream =>
    \E i \in 0 .. EventCount : Parsed(Buffer, received, i) /\ Settled(received, i)

\* Of an answer that is not streamed nothing is parsed before it has ended.
WholeInv ==
  ~chat.stream =>
    /\ EventCount = 1 /\ text = <<>>
    /\ ~overflow.body => stored = SubSeq(Payload(1), 1, received)

\* The strengthening of AnswerIsFaithful: how far the answer is parsed until the
\* call is over, and that it is faithful from then on.
ChatAnswerInv ==
  /\ ChatTyped
  /\ IF chat.pc = "done" THEN AnswerIsFaithful
     ELSE chat.status # "OK" /\ StreamInv /\ WholeInv

LEMMA BodyTyped ==
  ASSUME ChatTyped
  PROVE  /\ Body \in Seq(Units) /\ Len(Body) \in Nat /\ received \in Nat
         /\ chat.stream => Body = Streamed /\ Len(Body) = Offset(EventCount)
         /\ ~chat.stream => Body = Payload(1)
<1>1. script \in Scripts /\ received \in 0 .. Len(Body) /\ EventCount \in Nat \ {0}
  BY ScriptTyped DEF ChatTyped
<1>2. 1 \in 1 .. EventCount /\ EventCount \in 0 .. EventCount
  BY <1>1
<1>3. Payload(1) \in Seq(Units)
  BY <1>1, <1>2, PayloadIs
<1>4. Streamed = Stream(EventCount) /\ Stream(EventCount) \in Seq(Units)
  BY <1>1, <1>2, StreamSteps DEF Streamed, Stream, Event, EventCount
<1>5. Body \in Seq(Units)
  BY <1>3, <1>4 DEF Body
<1>. QED  BY <1>1, <1>4, <1>5 DEF Body, Offset

LEMMA BufferTyped ==
  ASSUME ChatTyped
  PROVE  /\ Buffer \in Buffers /\ Buffer.carry = carry /\ Buffer.text = text
         /\ Buffer.stream = overflow.stream /\ Buffer.answer = overflow.answer
BY DEF ChatTyped, Buffer, Buffers

LEMMA WrittenIsPrefix ==
  ASSUME NEW t \in Seq(Units), NEW d \in Seq(Units), NEW a, Written(t, a, d)
  PROVE  IsPrefix(t, d)
BY PrefixIs DEF Written

\* All that the events taken say has arrived.
LEMMA ArrivedSaid ==
  ASSUME script \in Scripts, NEW i \in 0 .. EventCount,
         received \in Offset(i) .. Offset(EventCount), Settled(received, i)
  PROVE  /\ Arrived \in Seq(Units) /\ Len(Said(i)) <= Len(Arrived)
         /\ \A j \in 1 .. Len(Said(i)) : Arrived[j] = Said(i)[j]
<1>1. PICK s \in Seq(Units) : s = Said(i)
  BY SaidSteps
<1>2. CASE i = EventCount
  <2>1. Arrived = s
    BY <1>1, <1>2, ArrivedIs DEF Settled
  <2>2. Len(s) <= Len(s)
    OBVIOUS
  <2>. QED  BY <1>1, <2>1, <2>2
<1>3. CASE i # EventCount
  <2>1. i + 1 \in 1 .. EventCount
    BY <1>3, ScriptTyped
  <2>2. Delta(Payload(i + 1)) \in Seq(Units) /\ <<>> \in Seq(Units)
    BY <2>1, PayloadIs, DeltaTyped
  <2>3. PICK d \in Seq(Units) : Arrived = s \o d
    BY <1>1, <1>3, <2>2, ArrivedIs DEF Settled
  <2>4. /\ s \o d \in Seq(Units) /\ Len(s \o d) = Len(s) + Len(d)
        /\ \A j \in 1 .. Len(s) + Len(d) :
             (s \o d)[j] = IF j <= Len(s) THEN s[j] ELSE d[j - Len(s)]
    BY ConcatProperties
  <2>5. Len(s) \in Nat /\ Len(d) \in Nat
    OBVIOUS
  <2>6. Len(s) <= Len(s \o d) /\ \A j \in 1 .. Len(s) : (s \o d)[j] = s[j]
    BY <2>4, <2>5
  <2>. QED  BY <1>1, <2>3, <2>4, <2>6
<1>. QED  BY <1>2, <1>3

\* Nothing but what has arrived is ever said.
LEMMA ParsedIsFaithful ==
  ASSUME ChatTyped, StreamInv, chat.stream, ~overflow.stream
  PROVE  IsPrefix(text, Arrived)
<1>1. PICK i \in 0 .. EventCount : Parsed(Buffer, received, i) /\ Settled(received, i)
  BY DEF StreamInv
<1>2. script \in Scripts /\ text \in Seq(Units) /\ EventCount \in Nat
  BY ScriptTyped DEF ChatTyped
<1>3. /\ received \in Offset(i) .. Offset(EventCount)
      /\ Len(text) <= Len(Said(i)) /\ \A j \in 1 .. Len(text) : text[j] = Said(i)[j]
  BY <1>1, BufferTyped DEF Parsed, Written
<1>4. /\ Arrived \in Seq(Units) /\ Len(Said(i)) <= Len(Arrived)
      /\ \A j \in 1 .. Len(Said(i)) : Arrived[j] = Said(i)[j]
  BY <1>1, <1>2, <1>3, ArrivedSaid
<1>5. Said(i) \in Seq(Units)
  BY <1>2, SaidSteps
<1>6. PICK n \in Nat, m \in Nat, l \in Nat : n = Len(text) /\ m = Len(Said(i)) /\ l = Len(Arrived)
  BY <1>2, <1>4, <1>5
<1>7. n <= l /\ \A j \in 1 .. n : Arrived[j] = text[j]
  BY <1>3, <1>4, <1>6
<1>. QED  BY <1>2, <1>4, <1>6, <1>7, PrefixIs

\* ChatAnswerInv holds at first and implies the property.
LEMMA AnswerInvIsFaithful == ChatAnswerInv => AnswerIsFaithful
BY ParsedIsFaithful DEF ChatAnswerInv, AnswerIsFaithful, ChatAt

LEMMA ChatAnswerInit == ChatInit => ChatAnswerInv
<1>. SUFFICES ASSUME ChatInit PROVE ChatAnswerInv
  OBVIOUS
<1>1. /\ script \in Scripts /\ ChatShape /\ chat.pc = "start" /\ chat.status = "PROVIDER"
      /\ received = 0 /\ stored = <<>> /\ carry = <<>> /\ text = <<>>
      /\ overflow = [body |-> FALSE, stream |-> FALSE, answer |-> FALSE]
      /\ chat.stream \/ EventCount = 1
  <2>1. PICK streamed \in BOOLEAN :
          /\ chat = [pc |-> "start", stream |-> streamed, ret |-> "OK", http |-> "none",
                     status |-> "PROVIDER"]
          /\ streamed \/ Len(script.events) = 1
    BY DEF ChatInit
  <2>2. /\ ChatShape /\ chat.pc = "start" /\ chat.status = "PROVIDER"
        /\ chat.stream \/ EventCount = 1
    BY <2>1 DEF ChatShape, EventCount
  <2>. QED  BY <2>2 DEF ChatInit
<1>2. /\ EventCount \in Nat \ {0} /\ 0 \in 0 .. EventCount - 1
      /\ 0 \in 0 .. EventCount /\ EventCount \in 0 .. EventCount
      /\ 1 \in 1 .. EventCount
  BY <1>1, ScriptTyped
<1>3. <<>> \in Seq(Units) /\ Len(<<>>) = 0
  OBVIOUS
<1>4. Offset(0) = 0 /\ Said(0) = <<>> /\ Offset(EventCount) \in Nat
  BY <1>1, <1>2, <1>3, StreamSteps, SaidSteps DEF Offset
<1>5. Streamed \in Seq(Units) /\ Payload(1) \in Seq(Units)
  <2>1. Streamed = Stream(EventCount)
    BY DEF Streamed, Stream, Event, EventCount
  <2>. QED  BY <1>1, <1>2, <2>1, StreamSteps, PayloadIs
<1>6. received \in 0 .. Len(Body)
  <2>1. Body \in Seq(Units)
    BY <1>5 DEF Body
  <2>. QED  BY <1>1, <2>1
<1>7. ChatTyped
  BY <1>1, <1>3, <1>6 DEF ChatTyped
<1>8. \A s \in Seq(Units) : SubSeq(s, 1, 0) = <<>>
  BY <1>3, SubSeqEmpty
<1>9. StreamInv
  <2>1. 0 \in Offset(0) .. Offset(EventCount)
    BY <1>4
  <2>2. Written(<<>>, FALSE, <<>>)
    BY <1>3, ChatAssumption DEF Written
  <2>3. Buffer.carry = <<>> /\ Buffer.text = <<>> /\ Buffer.answer = FALSE
    BY <1>1 DEF Buffer
  <2>4. SubSeq(Streamed, Offset(0) + 1, 0) = <<>>
    <3>1. Offset(0) + 1 = 1
      BY <1>4
    <3>. QED  BY <1>5, <1>8, <3>1
  <2>5. Parsed(Buffer, received, 0)
    BY <1>1, <1>4, <2>1, <2>2, <2>3, <2>4 DEF Parsed
  <2>6. Settled(received, 0)
    <3>1. 0 < EndOf(0 + 1) /\ EndOf(0 + 1) <= Offset(0 + 1) /\ EndOf(0 + 1) \in Nat
      BY <1>1, <1>2, <1>4, EndIs
    <3>2. Offset(0 + 1) \in Nat
      <4>1. 0 + 1 \in 0 .. EventCount
        BY <1>2
      <4>. QED  BY <1>1, <4>1, StreamSteps
    <3>. QED  BY <1>1, <3>1, <3>2 DEF Settled
  <2>. QED  BY <1>2, <2>5, <2>6 DEF StreamInv
<1>10. WholeInv
  BY <1>1, <1>5, <1>8 DEF WholeInv
<1>. QED  BY <1>1, <1>7, <1>9, <1>10 DEF ChatAnswerInv

LEMMA ChatBodyKept ==
  ASSUME script' = script, chat'.stream = chat.stream
  PROVE  Body' = Body
BY ScriptKept DEF Body

\* The parts of the invariant after a step, in terms of the new buffer.
LEMMA ParsedKept ==
  ASSUME script' = script
  PROVE  /\ StreamInv' <=> (chat'.stream /\ ~overflow'.stream =>
                \E i \in 0 .. EventCount : Parsed(Buffer', received', i) /\ Settled(received', i))
         /\ WholeInv' <=> (~chat'.stream =>
                /\ EventCount = 1 /\ text' = <<>>
                /\ ~overflow'.body => stored' = SubSeq(Payload(1), 1, received'))
<1>1. /\ EventCount' = EventCount /\ Streamed' = Streamed
      /\ \A i : Payload(i)' = Payload(i) /\ Offset(i)' = Offset(i) /\ Said(i)' = Said(i)
  BY ScriptKept
<1>2. \A i : Parsed(Buffer, received, i)' <=> Parsed(Buffer', received', i)
  BY <1>1 DEF Parsed, Written
<1>3. \A i : Settled(received, i)' <=> Settled(received', i)
  BY <1>1 DEF Settled
<1>. QED  BY <1>1, <1>2, <1>3 DEF StreamInv, WholeInv

\* A step that leaves the answer alone keeps the invariant.
DataKept == UNCHANGED <<script, received, stored, carry, overflow, text>>

\* A step of the call before the body, or after it.
LEMMA CallKeepsAnswer ==
  ASSUME ChatAnswerInv, DataKept, chat.pc # "done",
         CallSteps(chat.status) \/ (\E s : CallSteps(s) /\ chat'.pc = "done" /\ s # "OK")
  PROVE  ChatAnswerInv'
<1>1. /\ script' = script /\ received' = received /\ Buffer' = Buffer /\ text' = text
      /\ stored' = stored /\ overflow' = overflow /\ ChatShape' /\ chat'.stream = chat.stream
      /\ chat'.status = chat.status \/ (chat'.pc = "done" /\ chat'.status # "OK")
  BY DEF DataKept, Buffer, CallSteps
<1>2. ChatTyped /\ StreamInv /\ WholeInv /\ chat.status # "OK"
  BY DEF ChatAnswerInv
<1>3. ChatTyped'
  <2>1. Body' = Body
    BY <1>1, ChatBodyKept
  <2>. QED  BY <1>1, <1>2, <2>1 DEF ChatTyped, DataKept
<1>4. StreamInv' /\ WholeInv'
  BY <1>1, <1>2, ParsedKept DEF StreamInv, WholeInv
<1>5. AnswerIsFaithful' \/ chat'.pc # "done"
  <2>1. Arrived' = Arrived
    BY <1>1, ArrivedKept
  <2>2. chat.stream /\ ~overflow.stream => IsPrefix(text, Arrived)
    BY <1>2, ParsedIsFaithful
  <2>. QED  BY <1>1, <1>2, <2>1, <2>2 DEF AnswerIsFaithful, ChatAt
<1>. QED  BY <1>1, <1>2, <1>3, <1>4, <1>5 DEF ChatAnswerInv

LEMMA StillKeepsAnswer ==
  ASSUME ChatAnswerInv, DataKept, chat' = chat
  PROVE  ChatAnswerInv'
<1>1. /\ script' = script /\ received' = received /\ Buffer' = Buffer /\ text' = text
      /\ stored' = stored /\ overflow' = overflow
  BY DEF DataKept, Buffer
<1>2. CASE chat.pc # "done"
  <2>1. CallSteps(chat.status)
    BY DEF ChatAnswerInv, ChatTyped, ChatShape, CallSteps
  <2>. QED  BY <1>2, <2>1, CallKeepsAnswer
<1>3. CASE chat.pc = "done"
  <2>1. ChatTyped'
    <3>1. Body' = Body
      BY <1>1, ChatBodyKept
    <3>. QED  BY <3>1 DEF ChatTyped, DataKept, ChatAnswerInv, ChatShape
  <2>2. Arrived' = Arrived
    BY <1>1, ArrivedKept
  <2>3. AnswerIsFaithful
    BY <1>3 DEF ChatAnswerInv
  <2>4. AnswerIsFaithful'
    BY <1>1, <2>2, <2>3 DEF AnswerIsFaithful, ChatAt
  <2>. QED  BY <1>3, <2>1, <2>4 DEF ChatAnswerInv
<1>. QED  BY <1>2, <1>3

\* The calls before the body.
LEMMA QuietKeepsAnswer ==
  ASSUME ChatAnswerInv, StartChat \/ CheckEpoch \/ CallServer
  PROVE  ChatAnswerInv'
<1>1. ChatShape
  BY DEF ChatAnswerInv, ChatTyped
<1>2. DataKept
  BY DEF DataKept, StartChat, CheckEpoch, CallServer, BufferFrame
<1>3. /\ chat.pc # "done"
      /\ \/ \E pc : ChatGoes(pc)
         \/ \E ret : EndCall(ret)
         \/ \E http : chat' = [chat EXCEPT !.pc = "read", !.http = http]
  <2>1. CASE StartChat
    BY <2>1 DEF StartChat, ChatAt
  <2>2. CASE CheckEpoch
    BY <2>2 DEF CheckEpoch, ChatAt
  <2>3. CASE CallServer
    BY <2>3 DEF CallServer, ChatAt
  <2>. QED  BY <2>1, <2>2, <2>3
<1>4. CallSteps(chat.status)
  BY <1>1, <1>3, ChatWriters
<1>. QED  BY <1>2, <1>3, <1>4, CallKeepsAnswer

LEMMA BufferKept ==
  ASSUME ChatTyped, NEW b \in Buffers, KeepBuffer(b)
  PROVE  /\ Buffer' = b /\ carry' = b.carry /\ text' = b.text
         /\ carry' \in Seq(Units) /\ text' \in Seq(Units)
         /\ overflow' \in [body : BOOLEAN, stream : BOOLEAN, answer : BOOLEAN]
         /\ overflow'.stream = b.stream /\ overflow'.answer = b.answer
BY DEF ChatTyped, KeepBuffer, Buffer, Buffers

\* A chunk, of an answer that is streamed and of one that is not.
LEMMA ReceiveKeepsAnswer ==
  ASSUME ChatTyped, StreamInv, WholeInv,
         NEW n \in Nat \ {0}, received + n <= Len(Body),
         ReceiveChunk(SubSeq(Body, received + 1, received + n)),
         script' = script, CallSteps(chat.status)
  PROVE  ChatTyped' /\ StreamInv' /\ WholeInv'
<1>1. /\ Body \in Seq(Units) /\ Len(Body) \in Nat /\ received \in Nat
      /\ chat.stream => Body = Streamed /\ Len(Body) = Offset(EventCount)
      /\ ~chat.stream => Body = Payload(1)
  BY BodyTyped
<1>2. PICK chunk : chunk = SubSeq(Body, received + 1, received + n)
  OBVIOUS
<1>3. chunk \in Seq(Units) /\ Len(chunk) = n
  <2>1. received \in 0 .. Len(Body) /\ received + n \in received .. Len(Body)
    BY <1>1
  <2>2. SubSeq(Body, received + 1, received + n) \in Seq(Units)
        /\ Len(SubSeq(Body, received + 1, received + n)) = (received + n) - received
    BY <1>1, <2>1, PartIs
  <2>. QED  BY <1>1, <1>2, <2>2
<1>4. received' = received + n
  BY <1>2, <1>3 DEF ReceiveChunk
<1>5. Body' = Body /\ chat'.stream = chat.stream
  BY ChatBodyKept DEF CallSteps
<1>6. received' \in 0 .. Len(Body')
  BY <1>1, <1>4, <1>5
<1>7. script \in Scripts /\ EventCount \in Nat
  BY ScriptTyped DEF ChatTyped
<1>8. CASE chat.stream
  <2>1. KeepBuffer(ProcessChunk(Buffer, chunk)) /\ stored' = stored
    BY <1>2, <1>8 DEF ReceiveChunk
  <2>2. PICK b \in Buffers : b = ProcessChunk(Buffer, chunk) /\ (Buffer.stream => b.stream)
    BY <1>3, BufferTyped, ChunkTyped
  <2>3. /\ Buffer' = b /\ carry' \in Seq(Units) /\ text' \in Seq(Units)
        /\ overflow' \in [body : BOOLEAN, stream : BOOLEAN, answer : BOOLEAN]
        /\ overflow'.stream = b.stream
    BY <2>1, <2>2, BufferKept
  <2>4. ChatTyped'
    BY <1>6, <1>7, <2>1, <2>3 DEF ChatTyped, CallSteps
  <2>5. ASSUME ~b.stream
        PROVE  \E i \in 0 .. EventCount : Parsed(b, received + n, i) /\ Settled(received + n, i)
    <3>1. ~overflow.stream
      BY <2>2, <2>5, BufferTyped
    <3>2. PICK i \in 0 .. EventCount : Parsed(Buffer, received, i)
      BY <1>8, <3>1 DEF StreamInv
    <3>3. PICK z \in received .. Offset(EventCount) : z = received + n
      BY <1>1, <1>8
    <3>4. chunk = SubSeq(Streamed, received + 1, z) /\ ~ProcessChunk(Buffer, chunk).stream
      BY <1>1, <1>2, <1>8, <2>2, <2>5, <3>3
    <3>5. \E k \in 0 .. EventCount : Parsed(ProcessChunk(Buffer, chunk), z, k) /\ Settled(z, k)
      BY <1>3, <1>7, <3>2, <3>4, BufferTyped, ChunkProcessed
    <3>. QED  BY <2>2, <3>3, <3>5
  <2>6. StreamInv' /\ WholeInv'
    BY <1>4, <1>5, <1>8, <2>3, <2>5, ParsedKept
  <2>. QED  BY <2>4, <2>6
<1>9. CASE ~chat.stream
  <2>. DEFINE fits == Len(stored) + Len(chunk) < BodyMax
  <2>1. /\ stored' = IF fits THEN stored \o chunk ELSE stored
        /\ overflow' = [overflow EXCEPT !.body = @ \/ ~fits]
        /\ carry' = carry /\ text' = text
    BY <1>2, <1>9 DEF ReceiveChunk
  <2>. HIDE DEF fits
  <2>2. stored \in Seq(Units) /\ carry \in Seq(Units) /\ text \in Seq(Units)
        /\ overflow \in [body : BOOLEAN, stream : BOOLEAN, answer : BOOLEAN]
    BY DEF ChatTyped
  <2>3. stored \o chunk \in Seq(Units)
    BY <1>3, <2>2, ConcatProperties
  <2>4. overflow' \in [body : BOOLEAN, stream : BOOLEAN, answer : BOOLEAN]
        /\ (~overflow'.body => ~overflow.body /\ fits)
    BY <2>1, <2>2 DEF fits
  <2>5. ChatTyped'
    BY <1>6, <1>7, <2>1, <2>2, <2>3, <2>4 DEF ChatTyped, CallSteps
  <2>6. EventCount = 1 /\ text = <<>> /\ (~overflow.body => stored = SubSeq(Payload(1), 1, received))
    BY <1>9 DEF WholeInv
  <2>7. ASSUME ~overflow'.body PROVE stored' = SubSeq(Payload(1), 1, received + n)
    <3>1. stored' = stored \o chunk /\ stored = SubSeq(Body, 1, received)
      BY <1>1, <1>9, <2>1, <2>4, <2>6, <2>7
    <3>2. PICK s \in Seq(Units) : s = Body
      BY <1>1
    <3>3. 1 \in 1 .. Len(s) + 1 /\ received \in 1 - 1 .. Len(s) /\ received + n \in received .. Len(s)
      BY <1>1, <3>2
    <3>4. SubSeq(s, 1, received) \o SubSeq(s, received + 1, received + n) = SubSeq(s, 1, received + n)
      BY <3>3, ConcatAdjacentSubSeq
    <3>. QED  BY <1>1, <1>2, <1>9, <3>1, <3>2, <3>4
  <2>8. StreamInv' /\ WholeInv'
    BY <1>4, <1>5, <1>9, <2>1, <2>6, <2>7, ParsedKept
  <2>. QED  BY <2>5, <2>8
<1>. QED  BY <1>8, <1>9

\* A read: a chunk, or the end of the body, of the connection or of the call.
LEMMA ReadKeepsAnswer ==
  ASSUME ChatAnswerInv, ReadChunk
  PROVE  ChatAnswerInv'
<1>1. chat.pc # "done" /\ script' = script /\ ChatShape /\ ChatTyped /\ StreamInv /\ WholeInv
      /\ chat.status # "OK"
  BY DEF ReadChunk, ChatAt, ChatAnswerInv, ChatTyped
<1>2. CASE \E n \in 1 .. Min({ChunkMax, Len(Body) - received}) :
             ChatGoes("read") /\ ReceiveChunk(SubSeq(Body, received + 1, received + n))
  <2>1. PICK n \in 1 .. Min({ChunkMax, Len(Body) - received}) :
          ChatGoes("read") /\ ReceiveChunk(SubSeq(Body, received + 1, received + n))
    BY <1>2
  <2>2. Len(Body) \in Nat /\ received \in Nat /\ ChunkMax \in Nat
    BY <1>1, BodyTyped, ChatAssumption
  <2>3. Min({ChunkMax, Len(Body) - received})
          = IF ChunkMax <= Len(Body) - received THEN ChunkMax ELSE Len(Body) - received
    BY <2>2, LeastOfTwo
  <2>4. n \in Nat \ {0} /\ received + n <= Len(Body)
    BY <2>2, <2>3
  <2>5. CallSteps(chat.status) /\ chat'.pc = "read"
    BY <1>1, <2>1, ChatWriters
  <2>6. ChatTyped' /\ StreamInv' /\ WholeInv'
    BY <1>1, <2>1, <2>4, <2>5, ReceiveKeepsAnswer
  <2>. QED  BY <1>1, <2>5, <2>6 DEF ChatAnswerInv, CallSteps
<1>3. CASE /\ \E ret \in {"OK", "FAIL"} : EndCall(ret)
           /\ UNCHANGED <<received, stored, carry, overflow, text>>
  <2>1. CallSteps(chat.status) /\ DataKept
    BY <1>1, <1>3, ChatWriters DEF DataKept
  <2>. QED  BY <1>1, <2>1, CallKeepsAnswer
<1>. QED  BY <1>2, <1>3 DEF ReadChunk

\* What is made of a streamed answer that has ended.
LEMMA StreamConcluded ==
  ASSUME ChatTyped, StreamInv, chat.stream, KeepBuffer(ProcessRemainder(Buffer)),
         UNCHANGED <<script, received, stored>>,
         NEW s, CallSteps(s), chat'.pc = "done",
         s = IF ProcessRemainder(Buffer).stream \/ ProcessRemainder(Buffer).answer
             THEN "BUFFER_TOO_SMALL"
             ELSE IF ProcessRemainder(Buffer).text = <<>> THEN "PARSE" ELSE "OK"
  PROVE  ChatTyped' /\ AnswerIsFaithful'
<1>1. PICK b \in Buffers : b = ProcessRemainder(Buffer) /\ (Buffer.stream => b.stream)
  BY BufferTyped, RemainderTyped
<1>2. /\ Buffer' = b /\ text' = b.text /\ carry' \in Seq(Units) /\ text' \in Seq(Units)
      /\ overflow' \in [body : BOOLEAN, stream : BOOLEAN, answer : BOOLEAN]
      /\ overflow'.stream = b.stream /\ overflow'.answer = b.answer
  BY <1>1, BufferKept
<1>3. ChatTyped'
  <2>1. Body' = Body
    BY ChatBodyKept DEF CallSteps
  <2>. QED  BY <1>2, <2>1 DEF ChatTyped, CallSteps
<1>4. Arrived' = Arrived
  BY ArrivedKept
<1>5. ASSUME ~b.stream PROVE IsPrefix(b.text, Arrived) /\ (b.answer \/ b.text = Arrived)
  <2>1. ~overflow.stream
    BY <1>1, <1>5, BufferTyped
  <2>2. PICK i \in 0 .. EventCount : Parsed(Buffer, received, i) /\ Settled(received, i)
    BY <2>1 DEF StreamInv
  <2>3. script \in Scripts /\ received \in Offset(i) .. Offset(EventCount)
    BY <2>2 DEF ChatTyped, Parsed
  <2>4. Written(b.text, b.answer, Arrived)
    BY <1>1, <1>5, <2>2, <2>3, BufferTyped, RemainderProcessed
  <2>5. Arrived \in Seq(Units) /\ b.text \in Seq(Units)
    BY <2>2, <2>3, ArrivedSaid DEF Buffers
  <2>6. IsPrefix(b.text, Arrived)
    BY <2>4, <2>5, WrittenIsPrefix
  <2>. QED  BY <2>4, <2>6 DEF Written
<1>6. chat'.status = "OK" => ~b.stream /\ ~b.answer
  BY <1>1 DEF CallSteps
<1>7. AnswerIsFaithful'
  BY <1>1, <1>2, <1>4, <1>5, <1>6 DEF AnswerIsFaithful, ChatAt
<1>. QED  BY <1>3, <1>7

\* What is made of an answer that is not streamed.
LEMMA WholeConcluded ==
  ASSUME ChatTyped, WholeInv, ~chat.stream, ~overflow.body, text' = Delta(stored),
         UNCHANGED <<script, received, stored, carry, overflow>>,
         NEW s, CallSteps(s), chat'.pc = "done",
         s = IF text' = <<>> THEN "PARSE" ELSE "OK"
  PROVE  ChatTyped' /\ AnswerIsFaithful'
<1>1. /\ EventCount = 1 /\ stored = SubSeq(Payload(1), 1, received) /\ script \in Scripts
      /\ stored \in Seq(Units)
  BY DEF WholeInv, ChatTyped
<1>2. /\ Payload(1) \in Seq(Units) /\ Len(Payload(1)) \in Nat /\ received \in Nat
      /\ received <= Len(Payload(1))
  BY BodyTyped DEF ChatTyped
<1>3. PICK p \in Seq(Units), l \in Nat \ {0} : p = Payload(1) /\ l = Len(p)
  BY <1>1, PayloadIs
<1>4. Len(stored) = received /\ \A j \in 1 .. received : stored[j] = p[j]
  <2>1. PICK z \in 0 .. Len(p) : z = 0
    BY <1>3
  <2>2. received \in z .. Len(p)
    BY <1>2, <1>3, <2>1
  <2>3. LET t == SubSeq(p, z + 1, received) IN
        Len(t) = received - z /\ \A j \in 1 .. received - z : t[j] = p[z + j]
    BY <2>2, PartIs
  <2>4. z + 1 = 1 /\ received - z = received /\ \A j \in 1 .. received : z + j = j
    BY <1>2, <2>1
  <2>. QED  BY <1>1, <1>3, <2>3, <2>4
<1>5. /\ Event(1) \in Seq(Units) /\ Len(Event(1)) \in Nat /\ l <= Len(Event(1))
      /\ \A k \in 1 .. l : Event(1)[k] = p[k]
  <2>1. /\ Len(Event(1)) = Len(Payload(1)) + Len(script.separator)
        /\ Event(1) \in Seq(Units)
        /\ \A k \in 1 .. Len(Payload(1)) : Event(1)[k] = Payload(1)[k]
    BY <1>1, EventIs
  <2>2. PICK q \in Nat : q = Len(script.separator)
    BY <1>1, ScriptTyped
  <2>. QED  BY <1>3, <2>1, <2>2
<1>6. Delta(stored) = IF received >= l THEN Delta(p) ELSE <<>>
  <2>1. Len(stored) <= Len(Event(1))
    BY <1>2, <1>3, <1>4, <1>5
  <2>2. ASSUME NEW j \in 1 .. Len(Event(1)), j <= Len(stored)
        PROVE  stored[j] = Event(1)[j]
    <3>1. j \in 1 .. received /\ j \in 1 .. l
      BY <1>2, <1>3, <1>4, <2>2
    <3>. QED  BY <1>4, <1>5, <3>1
  <2>3. Delta(stored) = IF Len(stored) >= Len(Payload(1)) THEN Delta(Payload(1)) ELSE <<>>
    <3>1. PICK i \in 1 .. EventCount : i = 1
      BY <1>1
    <3>2. \A j \in 1 .. Len(Event(i)) : j <= Len(stored) => stored[j] = Event(i)[j]
      BY <2>2, <3>1
    <3>3. Len(stored) <= Len(Event(i))
      BY <2>1, <3>1
    <3>4. Delta(stored) = IF Len(stored) >= Len(Payload(i)) THEN Delta(Payload(i)) ELSE <<>>
      BY <1>1, <3>2, <3>3, DeltaOfPart
    <3>. QED  BY <3>1, <3>4
  <2>. QED  BY <1>3, <1>4, <2>3
<1>7. Arrived = IF received >= l THEN Delta(p) ELSE <<>>
  <2>1. PICK i \in 0 .. EventCount - 1 : i = 0
    BY <1>1
  <2>2. i \in 0 .. EventCount /\ i + 1 = 1 /\ i # EventCount /\ EventCount \in 0 .. EventCount
    BY <1>1, <2>1
  <2>3. /\ EndOf(i + 1) = Offset(i) + Len(Payload(i + 1)) /\ Offset(i) = 0
        /\ EndOf(i + 1) <= Offset(i + 1) /\ Offset(i) < EndOf(i + 1)
        /\ Offset(i + 1) = Offset(i) + Len(Event(i + 1))
    <3>1. Len(<<>>) = 0
      OBVIOUS
    <3>. QED  BY <1>1, <2>1, <3>1, EndIs, EventLies, StreamSteps DEF Offset
  <2>4. Offset(1) = Len(Event(1)) /\ Len(Event(1)) > l
    <3>1. Len(Event(1)) = Len(Payload(1)) + Len(script.separator)
      BY <1>1, EventIs
    <3>2. PICK q \in {2, 4} : q = Len(script.separator)
      BY <1>1, ScriptTyped
    <3>3. q \in Nat /\ q > 0
      OBVIOUS
    <3>. QED  BY <1>3, <1>5, <2>2, <2>3, <3>1, <3>2, <3>3
  <2>5. received \in Offset(i) .. Offset(EventCount) /\ received < Offset(i + 1)
    BY <1>1, <1>2, <1>3, <1>5, <2>2, <2>3, <2>4
  <2>6. Arrived = Said(i) \o (IF received - Offset(i) >= Len(Payload(i + 1))
                              THEN Delta(Payload(i + 1)) ELSE <<>>)
    BY <1>1, <2>2, <2>5, ArrivedIs
  <2>7. Said(i) = <<>> /\ received - Offset(i) = received
    BY <1>1, <1>2, <2>1, <2>3, SaidSteps
  <2>8. Delta(p) \in Seq(Units) /\ <<>> \in Seq(Units)
    BY DeltaTyped
  <2>9. PICK d \in Seq(Units) : d = IF received >= l THEN Delta(p) ELSE <<>>
    BY <2>8
  <2>10. Arrived = <<>> \o d
    BY <1>3, <2>2, <2>6, <2>7, <2>9
  <2>. QED  BY <2>9, <2>10, ConcatEmptySeq
<1>8. Arrived' = Arrived /\ Body' = Body
  BY ArrivedKept, ChatBodyKept DEF CallSteps
<1>9. Delta(stored) \in Seq(Units)
  BY <1>1, DeltaTyped
<1>10. ChatTyped'
  BY <1>8, <1>9 DEF ChatTyped, CallSteps
<1>. QED  BY <1>6, <1>7, <1>8, <1>10 DEF AnswerIsFaithful, ChatAt, CallSteps

\* The end of the call.
LEMMA ConcludeKeepsAnswer ==
  ASSUME ChatAnswerInv, ConcludeAnswer
  PROVE  ChatAnswerInv'
<1>1. chat.pc # "done" /\ ChatShape /\ ChatTyped /\ StreamInv /\ WholeInv
  BY DEF ConcludeAnswer, ChatAt, ChatAnswerInv, ChatTyped
<1>2. UNCHANGED <<script, received, stored>>
  BY DEF ConcludeAnswer
<1>3. CASE /\ chat.ret = "OK" /\ ~(~chat.stream /\ overflow.body) /\ chat.http = "OK"
           /\ chat.stream
  <2>1. PICK b : b = ProcessRemainder(Buffer)
    OBVIOUS
  <2>2. PICK s : s = IF b.stream \/ b.answer THEN "BUFFER_TOO_SMALL"
                     ELSE IF b.text = <<>> THEN "PARSE" ELSE "OK"
    OBVIOUS
  <2>3. KeepBuffer(b) /\ ConcludeWith(s)
    BY <1>3, <2>1, <2>2 DEF ConcludeAnswer
  <2>4. CallSteps(s) /\ chat'.pc = "done"
    BY <1>1, <2>3, ChatWriters
  <2>5. ChatTyped' /\ AnswerIsFaithful'
    BY <1>1, <1>2, <1>3, <2>1, <2>2, <2>3, <2>4, StreamConcluded
  <2>. QED  BY <2>4, <2>5 DEF ChatAnswerInv
<1>4. CASE /\ chat.ret = "OK" /\ ~(~chat.stream /\ overflow.body) /\ chat.http = "OK"
           /\ ~chat.stream
  <2>1. PICK s : s = IF text' = <<>> THEN "PARSE" ELSE "OK"
    OBVIOUS
  <2>2. text' = Delta(stored) /\ UNCHANGED <<carry, overflow>> /\ ConcludeWith(s)
    BY <1>4, <2>1 DEF ConcludeAnswer
  <2>3. CallSteps(s) /\ chat'.pc = "done"
    BY <1>1, <2>2, ChatWriters
  <2>4. ChatTyped' /\ AnswerIsFaithful'
    BY <1>1, <1>2, <1>4, <2>1, <2>2, <2>3, WholeConcluded
  <2>. QED  BY <2>3, <2>4 DEF ChatAnswerInv
<1>5. CASE ~(chat.ret = "OK" /\ ~(~chat.stream /\ overflow.body) /\ chat.http = "OK")
  <2>1. PICK s : s = IF chat.ret # "OK" THEN "PROVIDER"
                     ELSE IF ~chat.stream /\ overflow.body THEN "BUFFER_TOO_SMALL"
                     ELSE chat.http
    OBVIOUS
  <2>2. s # "OK" /\ UNCHANGED <<carry, overflow, text>> /\ ConcludeWith(s)
    BY <1>5, <2>1 DEF ConcludeAnswer
  <2>3. CallSteps(s) /\ chat'.pc = "done"
    BY <1>1, <2>2, ChatWriters
  <2>4. DataKept
    BY <1>2, <2>2 DEF DataKept
  <2>. QED  BY <1>1, <2>2, <2>3, <2>4, CallKeepsAnswer
<1>. QED  BY <1>3, <1>4, <1>5

\* Every step keeps the invariant.
LEMMA StepKeepsChatAnswer ==
  ASSUME ChatAnswerInv, [ChatNext]_chatVars
  PROVE  ChatAnswerInv'
<1>1. CASE CancelChat
  BY <1>1, StillKeepsAnswer DEF CancelChat, DataKept
<1>2. CASE UNCHANGED chatVars
  BY <1>2, StillKeepsAnswer DEF chatVars, DataKept
<1>. QED  BY <1>1, <1>2, QuietKeepsAnswer, ReadKeepsAnswer, ConcludeKeepsAnswer DEF ChatNext

\* ChatAnswerInv is an inductive invariant: until the call is over the carry
\* buffer is what was received behind the last event taken, and the text is what
\* the events up to it say, as far as it fits (aiqa_chat_client.c, 62-171).
THEOREM ChatAnswered == ChatSpec => []ChatAnswerInv
BY ChatAnswerInit, StepKeepsChatAnswer, PTL DEF ChatSpec

\* For events and buffers of any size and chunks cut anywhere, a streamed answer
\* grows by the deltas of its events, each once and in order, and an answer
\* reported as OK is all of what has arrived (aiqa_chat_client.c, 62-171,
\* 415-443).
THEOREM AnswerFaithful == ChatSpec => []AnswerIsFaithful
<1>1. ChatAnswerInv => AnswerIsFaithful
  BY AnswerInvIsFaithful
<1>. QED  BY <1>1, ChatAnswered, PTL

-----------------------------------------------------------------------------
\* The clients side by side.

\* Neither the recognition nor the question outlives its interaction
\* (aiqa_asr_client.c, 256-311; aiqa_chat_client.c, 173-231).
THEOREM RequestsStop == FairSpec => []RequestsStopInTime
<1>. DEFINE Stopping == AsrInductive /\ ChatStopInv
<1>1. Init => Stopping
  BY AsrInitially, ChatStopInit DEF Init
<1>2. Stopping /\ [Next]_allVars => Stopping'
  <2>. SUFFICES ASSUME Stopping, [Next]_allVars PROVE Stopping'
    OBVIOUS
  <2>1. [AsrNext]_asrVars /\ [ChatNext]_chatVars
    BY DEF Next, Speech, Recognition, Dialogue, allVars
  <2>. QED  BY <2>1, AsrStepInductive, ChatStepKeepsStop
<1>3. Stopping => RequestsStopInTime
  BY Stops DEF AsrInductive, ChatStopInv, ChatStopsInTime, RequestsStopInTime
<1>. QED  BY <1>1, <1>2, <1>3, PTL DEF FairSpec
=============================================================================
