--------------------------- MODULE SecureSession ---------------------------
(***************************************************************************)
(* The management link between the browser and the device: the serial      *)
(* connection with its one request at a time, the password-authenticated   *)
(* handshake of four messages and two confirmations, and the authenticated *)
(* records that follow it.  Three parties take steps: the client           *)
(* (client/src/device), the task that owns the USB port, and the link,     *)
(* which keeps frames a closed connection never read and loses frames to   *)
(* the rate limit of the device.                                           *)
(*                                                                         *)
(* Cryptography is symbolic: a key is the record of everything the key     *)
(* derivation hashes, so two ends hold the same key exactly when they saw  *)
(* the same handshake and typed the same code, and a record opens only     *)
(* under the key that sealed it.  The windows, attempts and timers of the  *)
(* pairing lifecycle are module PairingLifecycle; here it is one word.     *)
(***************************************************************************)
EXTENDS Naturals, Sequences, FiniteSets, SequencesExt

CONSTANTS
    MaxConnections,  \* bound: how often the client connects
    MaxHandshakes,   \* bound: how many attempts the device prepares
    MaxRequests,     \* bound: request ids of one connection
    LastCounter      \* UINT64_MAX: the counter no record may carry

ASSUME LinkAssumption ==
    /\ MaxConnections \in Nat \ {0}
    /\ MaxHandshakes \in Nat \ {0}
    /\ MaxRequests \in Nat \ {0}
    /\ LastCounter \in Nat \ {0, 1}

VARIABLES
    at,          \* the client: closed, idle, or the method it waits for
    conn,        \* how many connections it has opened
    nextRequestId,
    pairing,     \* the handshake it runs: {} or {a context}
    channel,     \* cryptoSession once confirmed: {} or {a channel}
    rpc,         \* the attempt the device holds
    context,     \* its side of the handshake
    server,      \* active_channel
    window,      \* the lifecycle: closed, open, handshake or active
    handshakes,  \* how many attempts were prepared
    midFrame,    \* the decoder of the device waits for the rest of a payload
    c2d,         \* frames on their way to the device
    d2c,         \* frames on their way to the client
    executed,    \* the secure requests carried out, in order
    answered,    \* pairs of a secure request and the answer accepted for it
    sealed       \* every record ever sealed, with the records sealed twice

client == <<at, conn, nextRequestId, pairing, channel>>
device == <<rpc, context, server, window, handshakes, midFrame>>
ghosts == <<executed, answered, sealed>>
linkVars == <<client, device, c2d, d2c, ghosts>>

Codes == {"shown", "mistyped"}

(***************************************************************************)
(* The handshake.  A context collects the four round messages; each round  *)
(* message names the context that wrote it, and a message of the second    *)
(* round proves knowledge over the first-round messages its author saw.    *)
(***************************************************************************)
NewContext(by, hs, nonce, code) ==
    [by |-> by, hs |-> hs, nonce |-> nonce, code |-> code, seen |-> {}]

Has(ctx, by, n) == \E s \in ctx.seen : s.by = by /\ s.round = n

FirstRound(ctx) == {s \in ctx.seen : s.round = 1}

RoundMessage(ctx, n) ==
    [by |-> ctx.by, round |-> n, hs |-> ctx.hs, nonce |-> ctx.nonce,
     over |-> IF n = 1 THEN {} ELSE FirstRound(ctx)]

Write(ctx, n) == [ctx EXCEPT !.seen = @ \union {RoundMessage(ctx, n)}]

CanRead(ctx, msg, n) ==
    /\ msg.by # ctx.by /\ msg.round = n /\ ~Has(ctx, msg.by, n)
    /\ n = 2 => /\ Has(ctx, ctx.by, 1) /\ Has(ctx, msg.by, 1)
                /\ msg.over = FirstRound(ctx)

Read(ctx, msg) == [ctx EXCEPT !.seen = @ \union {msg}]

\* Mutant: the transcript of the handshake is left out of the derivation.
MutTranscript(ctx) == [hs |-> 0, nonce |-> <<>>, rounds |-> {}]

Transcript(ctx) == [hs |-> ctx.hs, nonce |-> ctx.nonce, rounds |-> ctx.seen]

Key(ctx) == [code |-> ctx.code, transcript |-> Transcript(ctx)]

\* The proof of having derived the same key, one label per role.
Finished(by, ctx) == [by |-> by, key |-> Key(ctx)]

\* Mutant: only the label of the proof is looked at.
MutVerifies(tag, by, ctx) == tag.by = by

Verifies(tag, by, ctx) == tag = Finished(by, ctx)

(***************************************************************************)
(* The records.  A channel holds one key and counts what it seals and what *)
(* it opens; a record is bound to its role, its key and its place.         *)
(***************************************************************************)
NewChannel(ctx) == [key |-> Key(ctx), send |-> 1, receive |-> 1]

CanSeal(ch) == ch.send # LastCounter

\* The counters are 64 bits wide: what follows the last one is 0.
Advance(counter) == IF counter = LastCounter THEN 0 ELSE counter + 1

\* What the cipher is keyed with: a key per direction, a nonce per counter.
CipherUse(by, ch) == [by |-> by, key |-> ch.key, counter |-> ch.send]

Record(by, ch, about) ==
    [kind |-> "sealed", use |-> CipherUse(by, ch), about |-> about]

Opens(ch, peer, frame) ==
    /\ frame.kind = "sealed"
    /\ frame.use = [by |-> peer, key |-> ch.key, counter |-> ch.receive]
    /\ frame.use.counter # LastCounter

\* sealed remembers each use of the cipher and counts the repeated ones.
NoteSealed(by, ch) ==
    IF CipherUse(by, ch) \in sealed.once
    THEN [sealed EXCEPT !.twice = @ \union {CipherUse(by, ch)}]
    ELSE [sealed EXCEPT !.once = @ \union {CipherUse(by, ch)}]

(***************************************************************************)
(* Frames in the clear.  about names the connection and the id of the      *)
(* request; only the id is on the wire.                                    *)
(***************************************************************************)
Public(method, about, hs, body) ==
    [kind |-> "public", method |-> method, about |-> about, hs |-> hs,
     body |-> body]

Part == [kind |-> "part"]   \* a frame whose writer stopped halfway

LinkInit ==
    /\ at = "closed" /\ conn = 0 /\ nextRequestId = 1
    /\ pairing = {} /\ channel = {}
    /\ rpc = [step |-> "none", hs |-> 0, nonce |-> <<>>]
    /\ context = {} /\ server = {} /\ window = "closed"
    /\ handshakes = 0 /\ midFrame = FALSE
    /\ c2d = <<>> /\ d2c = <<>>
    /\ executed = <<>> /\ answered = {}
    /\ sealed = [once |-> {}, twice |-> {}]

(***************************************************************************)
(* The client.                                                             *)
(***************************************************************************)
This == <<conn, nextRequestId - 1>>    \* the request it waits for

SendRequest(method, hs, body) ==
    /\ nextRequestId <= MaxRequests
    /\ at' = method
    /\ nextRequestId' = nextRequestId + 1
    /\ c2d' = Append(c2d, Public(method, <<conn, nextRequestId>>, hs, body))

\* connectPort: ids start again at 1; the first request is system.hello.
Connect ==
    /\ at = "closed" /\ conn < MaxConnections
    /\ conn' = conn + 1
    /\ at' = "hello" /\ nextRequestId' = 2
    /\ c2d' = Append(c2d, Public("hello", <<conn + 1, 1>>, 0, {}))
    /\ UNCHANGED <<pairing, channel, d2c, device, ghosts>>

\* close(): the session is destroyed, the decoder reset and the port closed;
\* what the host had buffered is gone, what the device still buffers is not,
\* and a write that was under way stops halfway.
Close ==
    /\ at' = "closed" /\ pairing' = {} /\ channel' = {}
    /\ d2c' \in Suffixes(d2c)
    /\ \/ c2d' = c2d
       \/ /\ c2d # <<>> /\ at # "idle" /\ Last(c2d).kind # "part"
          /\ Last(c2d).about = This
          /\ c2d' = Append(Front(c2d), Part)
    /\ UNCHANGED <<conn, nextRequestId, device, ghosts>>

\* Mutant: a secure request that times out is sent again.
MutGiveUp ==
    \/ at # "closed" /\ Close
    \/ /\ at = "secure" /\ \E ch \in channel :
            /\ CanSeal(ch)
            /\ c2d' = Append(c2d, Record("client", ch, This))
            /\ channel' = {[ch EXCEPT !.send = Advance(@)]}
            /\ sealed' = NoteSealed("client", ch)
       /\ UNCHANGED <<at, conn, nextRequestId, pairing, d2c, device, executed, answered>>

\* A timeout of the one request under way, the user, or the cable: the device
\* notices none of these, its connection is the port itself.
GiveUp == at # "closed" /\ Close

Pair ==
    /\ at = "idle"
    /\ SendRequest("prepare", 0, {<<conn, nextRequestId>>})
    /\ UNCHANGED <<conn, pairing, channel, d2c, device, ghosts>>

\* readFrame, then parseEnvelope: version, kind and the id of the request.
Answer == Head(d2c)

IsAnswer(frame) == frame.kind = "public" /\ frame.about[2] = This[2]

GotHello ==
    /\ at = "hello" /\ d2c # <<>>
    /\ IsAnswer(Answer) /\ Answer.method = "hello"
    /\ at' = "idle" /\ d2c' = Tail(d2c)
    /\ UNCHANGED <<conn, nextRequestId, pairing, channel, c2d, device, ghosts>>

\* The user typed a code; the first round is written at once.
GotPrepared ==
    /\ at = "prepare" /\ d2c # <<>>
    /\ IsAnswer(Answer) /\ Answer.method = "prepare"
    /\ \E code \in Codes :
        LET ctx == NewContext("client", Answer.hs, This, code)
        IN  /\ SendRequest("begin", ctx.hs, {RoundMessage(ctx, 1)})
            /\ pairing' = {Write(ctx, 1)}
    /\ d2c' = Tail(d2c)
    /\ UNCHANGED <<conn, channel, device, ghosts>>

\* PAIRING_UNAVAILABLE before an attempt exists leaves the connection open.
GotUnavailable ==
    /\ at = "prepare" /\ d2c # <<>>
    /\ IsAnswer(Answer) /\ Answer.method = "unavailable"
    /\ at' = "idle" /\ d2c' = Tail(d2c)
    /\ UNCHANGED <<conn, nextRequestId, pairing, channel, c2d, device, ghosts>>

GotRoundOne ==
    /\ at = "begin" /\ d2c # <<>>
    /\ IsAnswer(Answer) /\ Answer.method = "begin"
    /\ \E ctx \in pairing, msg \in Answer.body :
        /\ CanRead(ctx, msg, 1)
        /\ LET both == Read(ctx, msg)
           IN  /\ pairing' = {Write(both, 2)}
               /\ SendRequest("round2", ctx.hs, {RoundMessage(both, 2)})
    /\ d2c' = Tail(d2c)
    /\ UNCHANGED <<conn, channel, device, ghosts>>

GotRoundTwo ==
    /\ at = "round2" /\ d2c # <<>>
    /\ IsAnswer(Answer) /\ Answer.method = "round2"
    /\ \E ctx \in pairing, msg \in Answer.body :
        /\ CanRead(ctx, msg, 2)
        /\ pairing' = {Read(ctx, msg)}
        /\ SendRequest("finish", ctx.hs, {Finished("client", Read(ctx, msg))})
    /\ d2c' = Tail(d2c)
    /\ UNCHANGED <<conn, channel, device, ghosts>>

\* verifyFinished; a session from an earlier pairing is replaced.
GotFinished ==
    /\ at = "finish" /\ d2c # <<>>
    /\ IsAnswer(Answer) /\ Answer.method = "finish"
    /\ \E ctx \in pairing, tag \in Answer.body :
        /\ Verifies(tag, "device", ctx)
        /\ channel' = {NewChannel(ctx)}
    /\ pairing' = {}
    /\ at' = "idle" /\ d2c' = Tail(d2c)
    /\ UNCHANGED <<conn, nextRequestId, c2d, device, ghosts>>

SendSecure(ch) ==
    /\ nextRequestId' = nextRequestId + 1
    /\ c2d' = Append(c2d, Record("client", ch, <<conn, nextRequestId>>))
    /\ channel' = {[ch EXCEPT !.send = Advance(@)]}
    /\ sealed' = NoteSealed("client", ch)

RequestSecure ==
    /\ at = "idle" /\ nextRequestId <= MaxRequests
    /\ \E ch \in channel : CanSeal(ch) /\ SendSecure(ch)
    /\ at' = "secure"
    /\ UNCHANGED <<conn, pairing, d2c, device, executed, answered>>

\* encryptRequest refuses: not a management error, so the connection closes.
OutOfCounters ==
    /\ at = "idle"
    /\ \E ch \in channel : ~CanSeal(ch)
    /\ Close

GotSecure ==
    /\ at = "secure" /\ d2c # <<>>
    /\ \E ch \in channel :
        /\ Opens(ch, "device", Answer)
        /\ Answer.about[2] = This[2]
        /\ channel' = {[ch EXCEPT !.receive = Advance(@)]}
    /\ answered' = answered \union {<<This, Answer.about>>}
    /\ at' = "idle" /\ d2c' = Tail(d2c)
    /\ UNCHANGED <<conn, nextRequestId, pairing, c2d, device, executed, sealed>>

\* Anything else that arrives closes the connection: another id or shape, an
\* error, a record that does not open, or the rest of a frame cut short.
Acceptable ==
    CASE at = "hello" -> IsAnswer(Answer) /\ Answer.method = "hello"
      [] at = "prepare" ->
            IsAnswer(Answer) /\ Answer.method \in {"prepare", "unavailable"}
      [] at = "begin" ->
            /\ IsAnswer(Answer) /\ Answer.method = "begin"
            /\ \A ctx \in pairing, msg \in Answer.body : CanRead(ctx, msg, 1)
      [] at = "round2" ->
            /\ IsAnswer(Answer) /\ Answer.method = "round2"
            /\ \A ctx \in pairing, msg \in Answer.body : CanRead(ctx, msg, 2)
      [] at = "finish" ->
            /\ IsAnswer(Answer) /\ Answer.method = "finish"
            /\ \A ctx \in pairing, tag \in Answer.body :
                  Verifies(tag, "device", ctx)
      [] OTHER ->
            \E ch \in channel :
                Opens(ch, "device", Answer) /\ Answer.about[2] = This[2]

Reject ==
    /\ at \notin {"closed", "idle"} /\ d2c # <<>>
    /\ IF Answer.kind = "part" THEN Len(d2c) > 1 ELSE ~Acceptable
    /\ Close

(***************************************************************************)
(* The device: one task reads, decodes, handles and answers.               *)
(***************************************************************************)
Incoming == Head(c2d)

ClearAttempt ==
    /\ rpc' = [step |-> "none", hs |-> 0, nonce |-> <<>>]
    /\ context' = {}

\* abort_active_connection: the channel, the attempt, the lifecycle and the
\* decoder are cleared; the USB connection itself goes on.
Abort ==
    /\ ClearAttempt
    /\ server' = {} /\ window' = "closed" /\ midFrame' = FALSE

\* A response in the clear is written whole, in part, or not at all; what
\* became of it is not looked at.
Answers(method, hs, body) ==
    LET frame == Public(method, Incoming.about, hs, body)
    IN  d2c' \in {Append(d2c, frame), Append(d2c, Part), d2c}

Serves(method) ==
    /\ c2d # <<>> /\ ~midFrame /\ server = {}
    /\ Incoming.kind = "public" /\ Incoming.method = method
    /\ c2d' = Tail(c2d)
    /\ UNCHANGED <<client, midFrame, ghosts>>

ServeHello ==
    /\ Serves("hello")
    /\ Answers("hello", 0, {})
    /\ UNCHANGED <<rpc, context, server, window, handshakes>>

ServePrepare ==
    /\ Serves("prepare")
    /\ rpc.step = "none" /\ window = "open" /\ handshakes < MaxHandshakes
    /\ handshakes' = handshakes + 1
    /\ rpc' = [step |-> "prepared", hs |-> handshakes',
               nonce |-> CHOOSE n \in Incoming.body : TRUE]
    /\ Answers("prepare", handshakes', {})
    /\ UNCHANGED <<context, server, window>>

\* A second prepare, or one outside the window, drops the attempt it finds.
RefusePrepare ==
    /\ Serves("prepare")
    /\ rpc.step # "none" \/ window # "open"
    /\ ClearAttempt
    /\ Answers("unavailable", 0, {})
    /\ UNCHANGED <<server, window, handshakes>>

\* protocol_failed: a handshake under way takes its window with it.
ProtocolFailed ==
    /\ ClearAttempt
    /\ window' = IF context # {} /\ window = "handshake" THEN "closed"
                 ELSE window

FirstStepFits ==
    /\ rpc.step = "prepared" /\ context = {}
    /\ Incoming.hs = rpc.hs /\ window = "open"

ServeBegin ==
    /\ Serves("begin")
    /\ FirstStepFits
    /\ LET ctx == NewContext("device", rpc.hs, rpc.nonce, "shown")
       IN  \E msg \in Incoming.body :
            /\ CanRead(ctx, msg, 1)
            /\ context' = {Read(Write(ctx, 1), msg)}
            /\ Answers("begin", 0, {RoundMessage(ctx, 1)})
    /\ rpc' = [rpc EXCEPT !.step = "begun"]
    /\ window' = "handshake"
    /\ UNCHANGED <<server, handshakes>>

SecondStepFits ==
    /\ rpc.step = "begun"
    /\ Incoming.hs = rpc.hs /\ window = "handshake"
    /\ \A ctx \in context, msg \in Incoming.body : CanRead(ctx, msg, 2)

ServeRoundTwo ==
    /\ Serves("round2")
    /\ SecondStepFits
    /\ \E ctx \in context, msg \in Incoming.body :
        /\ context' = {Write(Read(ctx, msg), 2)}
        /\ Answers("round2", 0, {RoundMessage(ctx, 2)})
    /\ rpc' = [rpc EXCEPT !.step = "round2"]
    /\ UNCHANGED <<server, window, handshakes>>

LastStepFits ==
    /\ rpc.step = "round2"
    /\ Incoming.hs = rpc.hs /\ window = "handshake"
    /\ \A ctx \in context, tag \in Incoming.body : Verifies(tag, "client", ctx)

\* The last message of the handshake: the device commits only when its answer
\* was written and drained, and the commit itself may fail.
ServeFinish ==
    /\ Serves("finish")
    /\ LastStepFits
    /\ \E ctx \in context :
        /\ d2c' = Append(d2c, Public("finish", Incoming.about, 0,
                                     {Finished("device", ctx)}))
        /\ server' = {NewChannel(ctx)}
    /\ window' = "active"
    /\ ClearAttempt
    /\ UNCHANGED handshakes

FinishNotCommitted ==
    /\ c2d # <<>> /\ ~midFrame /\ server = {}
    /\ Incoming.kind = "public" /\ Incoming.method = "finish"
    /\ LastStepFits
    /\ c2d' = Tail(c2d)
    /\ \E ctx \in context :
        d2c' \in {d2c, Append(d2c, Part),
                  Append(d2c, Public("finish", Incoming.about, 0,
                                     {Finished("device", ctx)}))}
    /\ Abort
    /\ UNCHANGED <<client, handshakes, ghosts>>

ServeMisfit ==
    /\ \/ Serves("begin") /\ ~FirstStepFits
       \/ Serves("round2") /\ ~SecondStepFits
       \/ Serves("finish") /\ ~LastStepFits
    /\ ProtocolFailed
    /\ Answers("failed", 0, {})
    /\ UNCHANGED <<server, handshakes>>

\* A record that opens is a request: it is carried out, answered under the
\* channel and reported to the lifecycle, and each of these may fail.
OpensHere(ch) == ~midFrame /\ Opens(ch, "client", Incoming)

ServeSecure ==
    /\ c2d # <<>> /\ c2d' = Tail(c2d)
    /\ \E ch \in server :
        /\ OpensHere(ch)
        /\ executed' = Append(executed, Incoming.about)
        /\ LET ch1 == [ch EXCEPT !.receive = Advance(@)]
           IN  \/ /\ CanSeal(ch1)
                  /\ d2c' = Append(d2c, Record("device", ch1, Incoming.about))
                  /\ sealed' = NoteSealed("device", ch1)
                  /\ \/ /\ server' = {[ch1 EXCEPT !.send = Advance(@)]}
                        /\ UNCHANGED <<rpc, context, window, midFrame>>
                     \/ Abort              \* the lifecycle expired meanwhile
               \/ /\ CanSeal(ch1)
                  /\ d2c' = Append(d2c, Part)
                  /\ sealed' = NoteSealed("device", ch1)
                  /\ Abort
               \/ Abort /\ UNCHANGED <<d2c, sealed>>  \* no response, no record
    /\ UNCHANGED <<client, handshakes, answered>>

\* With a channel open every other frame ends it, without an answer.
RefuseSecure ==
    /\ c2d # <<>> /\ c2d' = Tail(c2d)
    /\ Incoming.kind # "part"
    /\ \E ch \in server : ~OpensHere(ch)
    /\ Abort
    /\ UNCHANGED <<client, handshakes, d2c, ghosts>>

\* A frame cut short: its payload is completed by the bytes that follow.
ReadPart ==
    /\ c2d # <<>> /\ Incoming.kind = "part"
    /\ c2d' = Tail(c2d) /\ midFrame' = TRUE
    /\ UNCHANGED <<client, rpc, context, server, window, handshakes, d2c, ghosts>>

\* Not a request any handler knows: a record after its channel ended, or the
\* splice of two frames.  The error carries the id 0.
ServeGarbage ==
    /\ c2d # <<>> /\ server = {}
    /\ midFrame \/ Incoming.kind = "sealed"
    /\ c2d' = Tail(c2d) /\ midFrame' = FALSE
    /\ LET frame == Public("failed", <<0, 0>>, 0, {})
       IN  d2c' \in {Append(d2c, frame), Append(d2c, Part), d2c}
    /\ UNCHANGED <<client, rpc, context, server, window, handshakes, ghosts>>

\* The request and byte limits drop a frame; a long payload swallows it.
DropFrame ==
    /\ c2d # <<>> /\ Incoming.kind # "part"
    /\ c2d' = Tail(c2d)
    /\ midFrame' \in {FALSE, midFrame}
    /\ UNCHANGED <<client, rpc, context, server, window, handshakes, d2c, ghosts>>

\* The button opens a window; timers close it and end the session.
WindowOpens ==
    /\ window = "closed" /\ window' = "open"
    /\ UNCHANGED <<client, rpc, context, server, handshakes, midFrame, c2d, d2c,
                   ghosts>>

WindowEnds ==
    /\ window # "closed" /\ window' = "closed" /\ server' = {}
    /\ UNCHANGED <<client, rpc, context, handshakes, midFrame, c2d, d2c, ghosts>>

ClientStep ==
    \/ Connect \/ GiveUp \/ Reject \/ Pair \/ GotHello \/ GotPrepared
    \/ GotUnavailable \/ GotRoundOne \/ GotRoundTwo \/ GotFinished
    \/ RequestSecure \/ OutOfCounters \/ GotSecure

DeviceStep ==
    \/ ServeHello \/ ServePrepare \/ RefusePrepare \/ ServeBegin
    \/ ServeRoundTwo \/ ServeFinish \/ FinishNotCommitted \/ ServeMisfit
    \/ ServeSecure \/ RefuseSecure \/ ReadPart \/ ServeGarbage \/ DropFrame

LinkNext == ClientStep \/ DeviceStep \/ WindowOpens \/ WindowEnds

LinkSpec == LinkInit /\ [][LinkNext]_linkVars

(***************************************************************************)
(* Properties.                                                             *)
(***************************************************************************)
Times(request) == Cardinality({i \in DOMAIN executed : executed[i] = request})

\* A secure answer the client accepts (requestSecure) belongs to the request it
\* just sent on this connection, and that request was carried out exactly
\* once; no request is carried out twice, answered or not, and those of one
\* connection in the order they were sent - across timeouts, reconnects, dropped
\* and half-written frames.
AnsweredOnce ==
    /\ \A pair \in answered : pair[1] = pair[2] /\ Times(pair[1]) = 1
    /\ \A i, j \in DOMAIN executed :
          i < j /\ executed[i][1] = executed[j][1]
             => executed[i][2] < executed[j][2]

InFlight(ch) ==
    \E frame \in Range(c2d) \union Range(d2c) :
        frame.kind = "sealed" /\ frame.use.key = ch.key

\* The two ends of one handshake never hold different keys, whatever code was
\* typed and whichever rounds were lost or left over; and while the client is
\* idle and nothing is under way, each end expects the very record the other
\* will seal next (the send and receive counters of aiqa_secure_channel).
ChannelsAgree ==
    \A c \in channel, d \in server :
        /\ c.key.transcript.hs = d.key.transcript.hs => c.key = d.key
        /\ c.key = d.key /\ at = "idle" /\ ~InFlight(c)
              => c.send = d.receive /\ c.receive = d.send

\* No key seals two records under one nonce: not across directions, not
\* across handshakes, and not at the end of the counter, where the code
\* refuses UINT64_MAX instead of wrapping.
NoNonceReuse == sealed.twice = {}
============================================================================
