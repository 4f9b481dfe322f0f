---------------------------- MODULE ChatRequest ----------------------------
(***************************************************************************)
(* Asking the model: chat_send_request of components/chat_client/src/      *)
(* aiqa_chat_client.c.  A streamed answer arrives as server events, cut    *)
(* into chunks anywhere; the client collects them in a carry buffer, takes *)
(* out every event a separator ends, and appends its delta to the answer.  *)
(* An answer that is not streamed is collected whole and then parsed.      *)
(*                                                                         *)
(* The body is a sequence of units: the characters of a separator, and the *)
(* parts of an event.  The delta of an event is two units of text, spread  *)
(* from its head to its tail, so an event that lost one of them, or that   *)
(* holds those of two events, shows.                                       *)
(***************************************************************************)
EXTENDS Integers, SequencesExt

CONSTANTS
  MaxEvents,     \* bound: the events of an answer
  MaxFill,       \* bound: units between the head and the tail of an event
  RequestUnits,  \* the length of the request
  ChunkMax,      \* the buffer of one read (512)
  CarryMax,      \* AIQA_CHAT_STREAM_CARRY_MAX_LEN
  BodyMax,       \* AIQA_CHAT_HTTP_RESPONSE_MAX_LEN
  TextMax        \* AIQA_CHAT_RESPONSE_TEXT_MAX_LEN, less its terminator

ASSUME ChatAssumption ==
  /\ MaxEvents \in Nat /\ MaxFill \in Nat /\ ChunkMax \in Nat
  /\ CarryMax \in Nat /\ BodyMax \in Nat /\ TextMax \in Nat

VARIABLES
  chat,          \* the call: where it is, is it streamed, ret, http, status
  script,        \* the events the server sends, and what separates them
  received,      \* units of the body received
  unsent,        \* units of the request still to be sent
  stored,        \* response.data
  carry,         \* response.carry
  overflow,      \* response.body_overflow, .stream_overflow, .answer_overflow
  text,          \* result.text
  chatLive,      \* is the epoch of the request still the current one
  chatLate       \* calls of the HTTP client begun after the cancellation

chatVars == <<chat, script, received, unsent, stored, carry, overflow, text, chatLive,
              chatLate>>

-----------------------------------------------------------------------------
(* What the server sends *)

Unit(kind, id) == [kind |-> kind, id |-> id]
LF == Unit("lf", 0)
CR == Unit("cr", 0)

\* An event is a delta, the end mark, or something without a delta.
EventShapes == [kind : {"delta", "done", "other"}, fill : 0 .. MaxFill]
Scripts ==
  [events : UNION {[1 .. n -> EventShapes] : n \in 1 .. MaxEvents},
   separator : {<<LF, LF>>, <<CR, LF, CR, LF>>}]

Payload(i) ==
  LET event == script.events[i]
      fill == [k \in 1 .. event.fill |-> Unit("fill", i)] IN
  CASE event.kind = "delta" -> <<Unit("head", i)>> \o fill \o <<Unit("tail", i)>>
    [] event.kind = "done" -> <<Unit("done", i)>>
    [] event.kind = "other" -> <<Unit("fill", i)>> \o fill

\* The streamed body: the separator of the last event may be missing, since
\* the connection may end at any unit.  An answer that is not streamed is
\* its first event alone.
Streamed ==
  FlattenSeq([i \in 1 .. Len(script.events) |-> Payload(i) \o script.separator])
Body == IF chat.stream THEN Streamed ELSE Payload(1)

-----------------------------------------------------------------------------
(* Events and deltas *)

Positions(s, kind) == {k \in 1 .. Len(s) : s[k].kind = kind}

\* aiqa_chat_parse_stream_delta_text: from the first head to the first tail
\* behind it; an end mark hides a delta.
Delta(event) ==
  LET heads == Positions(event, "head")
      tails == {k \in Positions(event, "tail") : heads # {} /\ k > Min(heads)} IN
  IF Positions(event, "done") # {} \/ heads = {} \/ tails = {} THEN <<>>
  ELSE <<event[Min(heads)], event[Min(tails)]>>

\* find_stream_event_separator: how long a separator starts here, 0 if none
SeparatorAt(s, k) ==
  IF IsPrefix(<<LF, LF>>, SubSeq(s, k, Len(s))) THEN 2
  ELSE IF IsPrefix(<<CR, LF, CR, LF>>, SubSeq(s, k, Len(s))) THEN 4 ELSE 0

Separators(s) == {k \in 1 .. Len(s) - 1 : SeparatorAt(s, k) # 0}

\* The text is cut without a sign.
MutAppendDelta(b, delta) ==
  LET room == Min({Len(delta), TextMax - Len(b.text)}) IN
  [b EXCEPT !.text = @ \o SubSeq(delta, 1, room)]

\* append_result_delta: what does not fit is cut and remembered as lost.
AppendDelta(b, delta) ==
  LET room == Min({Len(delta), TextMax - Len(b.text)}) IN
  [b EXCEPT !.text = @ \o SubSeq(delta, 1, room), !.answer = @ \/ room < Len(delta)]

\* process_stream_event
ProcessEvent(b, event) ==
  IF event = <<>> THEN b
  ELSE IF Len(event) >= CarryMax THEN [b EXCEPT !.stream = TRUE]
  ELSE AppendDelta(b, Delta(event))

\* process_stream_chunk, once the chunk is in the carry buffer: every event a
\* separator ends is taken out, and there are fewer of them than units.
TakeEvent(b) ==
  IF Separators(b.carry) = {} THEN b
  ELSE LET at == Min(Separators(b.carry))
           behind == at + SeparatorAt(b.carry, at) IN
       ProcessEvent([b EXCEPT !.carry = SubSeq(@, behind, Len(@))],
                    SubSeq(b.carry, 1, at - 1))

TakeEvents(b) ==
  LET taken[n \in Nat] == IF n = 0 THEN b ELSE TakeEvent(taken[n - 1])
  IN taken[Len(b.carry)]

\* The carry buffer starts anew with every chunk.
MutProcessChunk(b, chunk) ==
  IF Len(chunk) >= CarryMax THEN [b EXCEPT !.stream = TRUE]
  ELSE TakeEvents([b EXCEPT !.carry = chunk])

\* A chunk that does not fit behind what is carried is lost, and remembered.
ProcessChunk(b, chunk) ==
  IF Len(b.carry) + Len(chunk) >= CarryMax THEN [b EXCEPT !.stream = TRUE]
  ELSE TakeEvents([b EXCEPT !.carry = @ \o chunk])

\* process_stream_remainder
ProcessRemainder(b) == [ProcessEvent(b, b.carry) EXCEPT !.carry = <<>>]

Buffer == [carry |-> carry, text |-> text, stream |-> overflow.stream,
           answer |-> overflow.answer]

KeepBuffer(b) ==
  /\ carry' = b.carry /\ text' = b.text
  /\ overflow' = [overflow EXCEPT !.stream = b.stream, !.answer = b.answer]

-----------------------------------------------------------------------------
(* The call *)

ChatInit ==
  /\ script \in Scripts
  /\ \E stream \in BOOLEAN :
       /\ chat = [pc |-> "start", stream |-> stream, ret |-> "OK", http |-> "none",
                  status |-> "PROVIDER"]
       /\ stream \/ Len(script.events) = 1
  /\ received = 0 /\ unsent = RequestUnits /\ stored = <<>> /\ carry = <<>> /\ text = <<>>
  /\ overflow = [body |-> FALSE, stream |-> FALSE, answer |-> FALSE]
  /\ chatLive = TRUE /\ chatLate = 0

ChatAt(pc) == chat.pc = pc
ChatGoes(pc) == chat' = [chat EXCEPT !.pc = pc]
EndCall(ret) == chat' = [chat EXCEPT !.pc = "conclude", !.ret = ret]
ChatCalls == chatLate' = chatLate + (IF chatLive THEN 0 ELSE 1)

BufferFrame == UNCHANGED <<script, received, stored, carry, overflow, text, chatLive>>

\* A request without a configuration, a provider that can stream, or memory
\* ends at once.
StartChat ==
  /\ ChatAt("start") /\ \E pc \in {"open", "done"} : ChatGoes(pc)
  /\ BufferFrame /\ UNCHANGED <<unsent, chatLate>>

\* The epoch is not asked again once the request is under way.
MutCheckEpoch ==
  /\ \/ /\ ChatAt("open")
        /\ \/ IF chatLive THEN ChatGoes("opening") ELSE EndCall("INVALID_STATE")
           \/ EndCall("FAIL")
     \/ ChatAt("write") /\ ChatGoes(IF unsent = 0 THEN "answer" ELSE "writing")
     \/ ChatAt("answer") /\ ChatGoes("fetch")
     \/ ChatAt("read") /\ ChatGoes("reading")
  /\ BufferFrame /\ UNCHANGED <<unsent, chatLate>>

\* Before each call of the HTTP client the epoch is asked: before the
\* connection, in the loops of chat_write_all and chat_read_response, and
\* before the headers.
CheckEpoch ==
  /\ \/ /\ ChatAt("open")
        /\ \/ IF chatLive THEN ChatGoes("opening") ELSE EndCall("INVALID_STATE")
           \/ EndCall("FAIL")
     \/ /\ ChatAt("write")
        /\ IF unsent = 0 THEN ChatGoes("answer")
           ELSE IF chatLive THEN ChatGoes("writing") ELSE EndCall("INVALID_STATE")
     \/ /\ ChatAt("answer")
        /\ IF chatLive THEN ChatGoes("fetch") ELSE EndCall("INVALID_STATE")
     \/ /\ ChatAt("read")
        /\ IF chatLive THEN ChatGoes("reading") ELSE EndCall("INVALID_STATE")
  /\ BufferFrame /\ UNCHANGED <<unsent, chatLate>>

\* The calls before the body: open, write, fetch the headers.
CallServer ==
  /\ \/ ChatAt("opening") /\ ChatGoes("write") /\ UNCHANGED unsent
     \/ /\ ChatAt("writing") /\ ChatGoes("write")
        /\ \E n \in 1 .. unsent : unsent' = unsent - n
     \/ /\ ChatAt("fetch") /\ UNCHANGED unsent
        /\ \E http \in {"OK", "AUTH"} : chat' = [chat EXCEPT !.pc = "read", !.http = http]
     \/ /\ chat.pc \in {"opening", "writing", "fetch"}
        /\ EndCall("FAIL") /\ UNCHANGED unsent
  /\ ChatCalls /\ BufferFrame

\* A chunk arrives; what a streamed answer leaves in response.data is not read.
ReceiveChunk(chunk) ==
  /\ received' = received + Len(chunk)
  /\ IF chat.stream
     THEN KeepBuffer(ProcessChunk(Buffer, chunk)) /\ UNCHANGED stored
     ELSE LET fits == Len(stored) + Len(chunk) < BodyMax IN
          /\ stored' = IF fits THEN stored \o chunk ELSE stored
          /\ overflow' = [overflow EXCEPT !.body = @ \/ ~fits]
          /\ UNCHANGED <<carry, text>>

\* esp_http_client_read: a chunk, the end of the body or of the connection,
\* or an error.
ReadChunk ==
  /\ ChatAt("reading")
  /\ \/ \E n \in 1 .. Min({ChunkMax, Len(Body) - received}) :
          ChatGoes("read") /\ ReceiveChunk(SubSeq(Body, received + 1, received + n))
     \/ /\ \E ret \in {"OK", "FAIL"} : EndCall(ret)
        /\ UNCHANGED <<received, stored, carry, overflow, text>>
  /\ ChatCalls /\ UNCHANGED <<script, unsent, chatLive>>

ConcludeWith(status) == chat' = [chat EXCEPT !.pc = "done", !.status = status]

\* An overflow of the carry buffer is forgotten.
MutConcludeAnswer ==
  /\ ChatAt("conclude")
  /\ IF chat.ret = "OK" /\ ~(~chat.stream /\ overflow.body) /\ chat.http = "OK"
     THEN IF chat.stream
          THEN LET b == ProcessRemainder(Buffer) IN
               /\ KeepBuffer(b)
               /\ ConcludeWith(IF b.answer THEN "BUFFER_TOO_SMALL"
                               ELSE IF b.text = <<>> THEN "PARSE" ELSE "OK")
          ELSE /\ text' = Delta(stored) /\ UNCHANGED <<carry, overflow>>
               /\ ConcludeWith(IF text' = <<>> THEN "PARSE" ELSE "OK")
     ELSE /\ UNCHANGED <<carry, overflow, text>>
          /\ ConcludeWith(IF chat.ret # "OK" THEN "PROVIDER"
                          ELSE IF ~chat.stream /\ overflow.body THEN "BUFFER_TOO_SMALL"
                          ELSE chat.http)
  /\ UNCHANGED <<script, received, unsent, stored, chatLive, chatLate>>

\* What chat_send_request makes of it all.
ConcludeAnswer ==
  /\ ChatAt("conclude")
  /\ IF chat.ret = "OK" /\ ~(~chat.stream /\ overflow.body) /\ chat.http = "OK"
     THEN IF chat.stream
          THEN LET b == ProcessRemainder(Buffer) IN
               /\ KeepBuffer(b)
               /\ ConcludeWith(IF b.stream \/ b.answer THEN "BUFFER_TOO_SMALL"
                               ELSE IF b.text = <<>> THEN "PARSE" ELSE "OK")
          ELSE /\ text' = Delta(stored) /\ UNCHANGED <<carry, overflow>>
               /\ ConcludeWith(IF text' = <<>> THEN "PARSE" ELSE "OK")
     ELSE /\ UNCHANGED <<carry, overflow, text>>
          /\ ConcludeWith(IF chat.ret # "OK" THEN "PROVIDER"
                          ELSE IF ~chat.stream /\ overflow.body THEN "BUFFER_TOO_SMALL"
                          ELSE chat.http)
  /\ UNCHANGED <<script, received, unsent, stored, chatLive, chatLate>>

\* aiqa_chat_cancel_active_request
CancelChat ==
  /\ chatLive /\ chatLive' = FALSE
  /\ UNCHANGED <<chat, script, received, unsent, stored, carry, overflow, text, chatLate>>

ChatNext ==
  StartChat \/ CheckEpoch \/ CallServer \/ ReadChunk \/ ConcludeAnswer \/ CancelChat

ChatSpec == ChatInit /\ [][ChatNext]_chatVars

-----------------------------------------------------------------------------
(* Properties *)

EndOf(i) ==
  Len(FlattenSeq([k \in 1 .. i |-> Payload(k) \o script.separator])) - Len(script.separator)

\* The deltas of the events that have arrived whole, in their order.
Arrived ==
  FlattenSeq([i \in 1 .. Len(script.events) |->
                IF EndOf(i) <= received THEN Delta(Payload(i)) ELSE <<>>])

\* Wherever the chunks and the connection are cut, a streamed answer grows by
\* the deltas of its events, each once and in order, and an answer reported as
\* OK is all of what has arrived (aiqa_chat_client.c, 62-171, 415-443).
AnswerIsFaithful ==
  /\ chat.stream /\ ~overflow.stream => IsPrefix(text, Arrived)
  /\ ChatAt("done") /\ chat.status = "OK" => text = Arrived

\* A cancelled request begins at most one more call of the HTTP client.
ChatStopsInTime == chatLate <= 1
=============================================================================
