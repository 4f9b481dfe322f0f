----------------------- MODULE RuntimeServicesProofs -----------------------
(***************************************************************************)
(* The two services of the runtime that answer for another task: the pair- *)
(* ing screen shows the code the lifecycle believes it shows, and a status *)
(* request says what became of the Wi-Fi update it is asked about.         *)
(***************************************************************************)
EXTENDS WifiOperation, PairingScreen, SequenceTheorems, TLAPS

----------------------------------------------------------------------------
\* The pairing screen.  The commands are numbered in the order they are sent
\* and handled in that order, so an acknowledgement with the number of the last
\* one says that none is left; and what the UI task makes of a command stays on
\* the panel until the next.

Kinds == {"SHOW", "CLEAR"}
Reasons == {"open", "close", "fault", "reset"}

\* The UI task has a command in hand.
InHand == ui.message.type \in Kinds

\* What a command that was carried out leaves on the panel.
Effect(type, n, ok) ==
  ok => /\ type = "SHOW" => overlay /\ screen.code = n
        /\ type = "CLEAR" => ~overlay /\ screen.code = 0

\* The records, and their fields.
ScreenRecords ==
  /\ link = [pc |-> link.pc, sequence |-> link.sequence, type |-> link.type,
             reason |-> link.reason]
  /\ ui = [pc |-> ui.pc, message |-> ui.message, ok |-> ui.ok]
  /\ ui.message = Message(ui.message.type, ui.message.number)
  /\ uses = [windows |-> uses.windows, resets |-> uses.resets, posts |-> uses.posts,
             faults |-> uses.faults]
  /\ uiQueue \in Seq([type : Kinds, number : Nat])

\* The owner's command has the number that was given out last.
Numbered ==
  /\ link.sequence \in Nat
  /\ \/ link.sequence = commandSequence /\ link.sequence > 0
     \/ link.sequence = 0 /\ commandSequence \in {0, SequenceWrap - 1}

\* A window that is open, or is being opened, still has a CLEAR to send.
Owed == IF \/ link.pc = "idle" /\ codeVisible /\ ~fault
           \/ link.pc # "idle" /\ link.reason = "open" THEN 1 ELSE 0

NumbersCounted ==
  /\ uses.windows \in 0 .. MaxWindows /\ uses.resets \in 0 .. MaxLocalResets
  /\ link.sequence + Owed <= 2 * uses.windows + uses.resets

LinkShape ==
  /\ link.pc \in {"idle", "wait", "matched", "refused", "enterFault"}
  /\ link.type \in Kinds /\ link.reason \in Reasons
  /\ link.pc # "idle" => codeVisible /\ (link.type = "SHOW" <=> link.reason = "open")
  /\ link.pc = "enterFault" => link.reason = "open"

UiShape ==
  /\ ui.pc \in {"loop", "handle", "show", "done", "number", "ack"}
  /\ ui.pc \in {"show", "done", "number", "ack"} => InHand
  /\ ui.pc = "loop" => ui.message = IdleTurn
  /\ ui.pc = "show" => ui.message.type = "SHOW"

\* The commands on their way are in the order of their numbers.
InOrder ==
  /\ \A i \in DOMAIN uiQueue : uiQueue[i].number \in 1 .. link.sequence
  /\ \A i, j \in DOMAIN uiQueue : i < j => uiQueue[i].number < uiQueue[j].number
  /\ InHand => /\ ui.message.number \in 1 .. link.sequence
               /\ \A i \in DOMAIN uiQueue : ui.message.number < uiQueue[i].number

\* The number that was completed last belongs to none of them.
NotCompleted ==
  /\ completedSequence \in 0 .. link.sequence \cup {SequenceWrap - 1}
  /\ \A i \in DOMAIN uiQueue : uiQueue[i].number # completedSequence
  /\ InHand /\ ui.pc # "ack" => ui.message.number # completedSequence

\* The command the owner waits for is the last in the queue, in the hand of the
\* UI task, or done.
LastCommand ==
  link.pc \in {"wait", "matched"} =>
    \/ uiQueue # <<>> /\ uiQueue[Len(uiQueue)] = Message(link.type, link.sequence)
    \/ /\ uiQueue = <<>> /\ ui.message = Message(link.type, link.sequence)
       /\ ui.pc = "done" => Effect(link.type, link.sequence, ui.ok)
       /\ ui.pc \in {"number", "ack"} => Effect(link.type, link.sequence, completedOk)
    \/ uiQueue = <<>> /\ ~InHand /\ Effect(link.type, link.sequence, completedOk)

MatchedNumber == link.pc = "matched" => completedSequence = link.sequence

\* No command is on its way to the panel.
Quiet == uiQueue = <<>> /\ (InHand => ui.pc = "ack")

Believed ==
  link.pc = "idle" =>
    /\ codeVisible /\ ~fault => Quiet /\ overlay /\ screen.code = link.sequence
    /\ ~codeVisible => Quiet /\ ~overlay /\ screen.code = 0

OwnerInv == Numbered /\ NumbersCounted /\ LinkShape
PanelInv == LastCommand /\ MatchedNumber /\ Believed
ScreenIInv == ScreenRecords /\ OwnerInv /\ UiShape /\ InOrder /\ NotCompleted /\ PanelInv

LEMMA ModSmall == ASSUME NEW b \in Nat, NEW a \in Nat, a < b PROVE a % b = a
OBVIOUS

LEMMA ModSelf == ASSUME NEW b \in Nat, b > 0 PROVE b % b = 0
OBVIOUS

LEMMA AppendShape ==
  ASSUME NEW S, NEW q \in Seq(S), NEW e \in S
  PROVE  /\ Append(q, e) \in Seq(S) /\ Len(q) \in Nat /\ Len(Append(q, e)) = Len(q) + 1
         /\ DOMAIN q = 1 .. Len(q) /\ DOMAIN Append(q, e) = 1 .. Len(q) + 1
         /\ \A i \in 1 .. Len(q) : Append(q, e)[i] = q[i]
         /\ Append(q, e)[Len(q) + 1] = e
BY LenProperties, AppendProperties

LEMMA TailShape ==
  ASSUME NEW S, NEW q \in Seq(S), q # <<>>
  PROVE  /\ Head(q) = q[1] /\ Head(q) \in S /\ Tail(q) \in Seq(S)
         /\ Len(q) \in Nat \ {0} /\ Len(Tail(q)) = Len(q) - 1
         /\ DOMAIN q = 1 .. Len(q) /\ DOMAIN Tail(q) = 1 .. Len(q) - 1
         /\ \A i \in 1 .. Len(q) - 1 : Tail(q)[i] = q[i + 1]
BY LenProperties, HeadTailProperties, EmptySeq

LEMMA ScreenInitial == ScreenInit => ScreenIInv
<1>. SUFFICES ASSUME ScreenInit PROVE ScreenIInv
  OBVIOUS
<1>1. /\ uiQueue = <<>> /\ ui = [pc |-> "loop", message |-> IdleTurn, ok |-> FALSE]
      /\ link = [pc |-> "idle", sequence |-> 0, type |-> "CLEAR", reason |-> "close"]
      /\ uses = [windows |-> 0, resets |-> 0, posts |-> 0, faults |-> 0]
      /\ commandSequence \in {0, SequenceWrap - 1} /\ completedSequence = commandSequence
      /\ codeVisible = FALSE /\ fault = FALSE /\ overlay = FALSE /\ screen.code = 0
  BY DEF ScreenInit
<1>2. ~InHand /\ ui.message = Message("NONE", 0)
  BY <1>1 DEF InHand, IdleTurn, Message, Kinds
<1>3. ScreenRecords
  BY <1>1, <1>2 DEF ScreenRecords, Message
<1>4. OwnerInv
  BY <1>1, ScreenAssumption DEF OwnerInv, Numbered, NumbersCounted, Owed, LinkShape, Kinds,
                                Reasons
<1>5. UiShape /\ InOrder /\ NotCompleted
  BY <1>1, <1>2, ScreenAssumption DEF UiShape, InOrder, NotCompleted
<1>6. PanelInv
  BY <1>1, <1>2 DEF PanelInv, LastCommand, MatchedNumber, Believed, Quiet
<1>. QED  BY <1>3, <1>4, <1>5, <1>6 DEF ScreenIInv

\* The number of the next command is new.
LEMMA NextNumber ==
  ASSUME Numbered, link.sequence + 1 <= 2 * MaxWindows + MaxLocalResets
  PROVE  NextSequence = link.sequence + 1 /\ link.sequence + 1 < SequenceWrap - 1
<1>1. /\ SequenceWrap \in Nat /\ MaxWindows \in Nat /\ MaxLocalResets \in Nat
      /\ link.sequence \in Nat /\ link.sequence + 1 < SequenceWrap - 1
  BY ScreenAssumption DEF Numbered
<1>2. (link.sequence + 1) % SequenceWrap = link.sequence + 1
  BY <1>1, ModSmall
<1>3. SequenceWrap % SequenceWrap = 0
  BY <1>1, ModSelf
<1>4. CASE link.sequence = commandSequence
  BY <1>1, <1>2, <1>4 DEF NextSequence
<1>5. CASE link.sequence = 0 /\ commandSequence = SequenceWrap - 1
  <2>1. commandSequence + 1 = SequenceWrap
    BY <1>1, <1>5
  <2>. QED  BY <1>1, <1>3, <1>5, <2>1 DEF NextSequence
<1>6. CASE link.sequence = 0 /\ commandSequence = 0
  BY <1>1, <1>2, <1>6 DEF NextSequence
<1>. QED  BY <1>4, <1>5, <1>6 DEF Numbered

\* A command sent is the newest and the last.
LEMMA SendKeeps ==
  ASSUME ScreenIInv, NEW type \in Kinds, NEW reason \in Reasons, Send(type, reason),
         type = "SHOW" <=> reason = "open", codeVisible',
         uses' = [windows |-> uses'.windows, resets |-> uses'.resets,
                  posts |-> uses'.posts, faults |-> uses'.faults],
         uses'.windows \in 0 .. MaxWindows, uses'.resets \in 0 .. MaxLocalResets,
         link.sequence + 1 + (IF reason = "open" THEN 1 ELSE 0)
           <= 2 * uses'.windows + uses'.resets
  PROVE  ScreenIInv'
<1>. DEFINE n == link.sequence + 1
            m == Message(type, n)
<1>0. /\ MaxWindows \in Nat /\ MaxLocalResets \in Nat /\ SequenceWrap \in Nat
      /\ link.sequence \in Nat
  BY ScreenAssumption DEF ScreenIInv, OwnerInv, Numbered
<1>1. NextSequence = n /\ n < SequenceWrap - 1
  <2>1. link.sequence + 1 <= 2 * MaxWindows + MaxLocalResets
    BY <1>0
  <2>. QED  BY <2>1, NextNumber DEF ScreenIInv, OwnerInv
<1>2. /\ commandSequence' = n
      /\ \E place \in {"wait", "refused"} :
           /\ link' = [pc |-> place, sequence |-> n, type |-> type, reason |-> reason]
           /\ place = "wait" => uiQueue' = Append(uiQueue, m)
           /\ place = "refused" => uiQueue' = uiQueue
      /\ UNCHANGED <<completedSequence, ui, overlay, screen>>
  BY <1>1 DEF Send, uiVars
<1>3. /\ link'.sequence = n /\ link'.type = type /\ link'.reason = reason
      /\ link'.pc \in {"wait", "refused"}
      /\ link' = [pc |-> link'.pc, sequence |-> n, type |-> type, reason |-> reason]
      /\ link'.pc = "wait" => uiQueue' = Append(uiQueue, m)
      /\ link'.pc = "refused" => uiQueue' = uiQueue
  BY <1>2
<1>4. m \in [type : Kinds, number : Nat] /\ m.number = n
  BY <1>0 DEF Message
<1>5. uiQueue \in Seq([type : Kinds, number : Nat])
  BY DEF ScreenIInv, ScreenRecords
<1>. HIDE DEF n, m
<1>6. /\ uiQueue' \in Seq([type : Kinds, number : Nat])
      /\ \A i \in DOMAIN uiQueue' : \/ i \in DOMAIN uiQueue /\ uiQueue'[i] = uiQueue[i]
                                    \/ i = Len(uiQueue) + 1 /\ uiQueue'[i] = m
      /\ link'.pc = "wait" => uiQueue' # <<>> /\ uiQueue'[Len(uiQueue')] = m
  <2>1. CASE link'.pc = "wait"
    <3>1. uiQueue' = Append(uiQueue, m)
      BY <1>3, <2>1
    <3>2. /\ Append(uiQueue, m) \in Seq([type : Kinds, number : Nat]) /\ Len(uiQueue) \in Nat
          /\ Len(Append(uiQueue, m)) = Len(uiQueue) + 1 /\ DOMAIN uiQueue = 1 .. Len(uiQueue)
          /\ DOMAIN Append(uiQueue, m) = 1 .. Len(uiQueue) + 1
          /\ \A i \in 1 .. Len(uiQueue) : Append(uiQueue, m)[i] = uiQueue[i]
          /\ Append(uiQueue, m)[Len(uiQueue) + 1] = m
      BY <1>4, <1>5, AppendShape
    <3>3. \A i \in 1 .. Len(uiQueue) + 1 : i \in 1 .. Len(uiQueue) \/ i = Len(uiQueue) + 1
      BY <3>2
    <3>4. uiQueue' # <<>> /\ uiQueue'[Len(uiQueue')] = m
      BY <3>1, <3>2
    <3>. QED  BY <3>1, <3>2, <3>3, <3>4
  <2>2. CASE link'.pc = "refused"
    BY <1>3, <1>5, <2>2
  <2>. QED  BY <1>3, <2>1, <2>2
<1>7. ScreenRecords'
  <2>1. UNCHANGED ui
    BY <1>2
  <2>. QED  BY <1>3, <1>6, <2>1 DEF ScreenIInv, ScreenRecords
<1>8. OwnerInv'
  <2>1. Numbered'
    BY <1>0, <1>2, <1>3 DEF Numbered, n
  <2>2. NumbersCounted'
    <3>1. Owed' = IF reason = "open" THEN 1 ELSE 0
      BY <1>3 DEF Owed
    <3>. QED  BY <1>0, <1>3, <3>1 DEF NumbersCounted, n
  <2>3. LinkShape'
    BY <1>3 DEF LinkShape
  <2>. QED  BY <2>1, <2>2, <2>3 DEF OwnerInv
<1>9. UiShape' /\ InOrder' /\ NotCompleted'
  <2>1. UNCHANGED <<ui, completedSequence>> /\ (InHand <=> InHand')
    BY <1>2 DEF InHand
  <2>2. UiShape'
    BY <2>1 DEF ScreenIInv, UiShape
  <2>3. \A i \in DOMAIN uiQueue : uiQueue[i].number \in 1 .. link.sequence
    BY DEF ScreenIInv, InOrder
  <2>4. \A k \in 1 .. link.sequence : k \in 1 .. n /\ k < n
    BY <1>0 DEF n
  <2>5. InOrder'
    <3>1. \A i \in DOMAIN uiQueue' : uiQueue'[i].number \in 1 .. n
      <4>1. n \in 1 .. n
        BY <1>0 DEF n
      <4>. QED  BY <1>4, <1>6, <2>3, <2>4, <4>1
    <3>2. ASSUME NEW i \in DOMAIN uiQueue', NEW j \in DOMAIN uiQueue', i < j
          PROVE  uiQueue'[i].number < uiQueue'[j].number
      <4>1. i \in DOMAIN uiQueue /\ uiQueue'[i] = uiQueue[i]
        <5>1. Len(uiQueue) \in Nat /\ DOMAIN uiQueue = 1 .. Len(uiQueue)
          BY <1>5
        <5>2. \A k \in DOMAIN uiQueue' : k \in 1 .. Len(uiQueue) + 1
          BY <1>6, <5>1
        <5>3. i # Len(uiQueue) + 1
          BY <3>2, <5>1, <5>2
        <5>. QED  BY <1>6, <5>3
      <4>2. CASE j \in DOMAIN uiQueue /\ uiQueue'[j] = uiQueue[j]
        BY <3>2, <4>1, <4>2 DEF ScreenIInv, InOrder
      <4>3. CASE uiQueue'[j] = m
        BY <1>4, <2>3, <2>4, <4>1, <4>3
      <4>. QED  BY <1>6, <4>2, <4>3
    <3>3. InHand => ui.message.number \in 1 .. link.sequence
      BY DEF ScreenIInv, InOrder
    <3>4. ASSUME InHand, NEW i \in DOMAIN uiQueue'
          PROVE  ui.message.number < uiQueue'[i].number
      <4>1. CASE i \in DOMAIN uiQueue /\ uiQueue'[i] = uiQueue[i]
        BY <3>4, <4>1 DEF ScreenIInv, InOrder
      <4>2. CASE uiQueue'[i] = m
        BY <1>4, <2>4, <3>3, <3>4, <4>2
      <4>. QED  BY <1>6, <4>1, <4>2
    <3>. QED  BY <1>3, <2>1, <2>4, <3>1, <3>2, <3>3, <3>4 DEF InOrder
  <2>6. NotCompleted'
    <3>1. completedSequence \in 0 .. link.sequence \cup {SequenceWrap - 1}
      BY DEF ScreenIInv, NotCompleted
    <3>2. completedSequence \in 0 .. n \cup {SequenceWrap - 1} /\ completedSequence # n
      BY <1>0, <1>1, <3>1 DEF n
    <3>3. \A i \in DOMAIN uiQueue' : uiQueue'[i].number # completedSequence
      BY <1>4, <1>6, <3>2 DEF ScreenIInv, NotCompleted
    <3>. QED  BY <1>3, <2>1, <3>2, <3>3 DEF ScreenIInv, NotCompleted
  <2>. QED  BY <2>2, <2>5, <2>6
<1>10. PanelInv'
  <2>1. m = Message(type, n)
    BY DEF m
  <2>. QED  BY <1>3, <1>6, <2>1 DEF PanelInv, LastCommand, MatchedNumber, Believed
<1>. QED  BY <1>7, <1>8, <1>9, <1>10 DEF ScreenIInv

\* The number of the last command is completed: nothing is on its way, and the
\* result is that command's.
LEMMA MatchedEffect ==
  ASSUME ScreenIInv, link.pc = "matched"
  PROVE  Quiet /\ Effect(link.type, link.sequence, completedOk)
<1>1. completedSequence = link.sequence
  BY DEF ScreenIInv, PanelInv, MatchedNumber
<1>2. CASE uiQueue # <<>> /\ uiQueue[Len(uiQueue)] = Message(link.type, link.sequence)
  <2>1. Len(uiQueue) \in DOMAIN uiQueue
    BY <1>2 DEF ScreenIInv, ScreenRecords
  <2>2. uiQueue[Len(uiQueue)].number = link.sequence
    BY <1>2 DEF Message
  <2>. QED  BY <1>1, <2>1, <2>2 DEF ScreenIInv, NotCompleted
<1>3. CASE /\ uiQueue = <<>> /\ ui.message = Message(link.type, link.sequence)
           /\ ui.pc \in {"number", "ack"} => Effect(link.type, link.sequence, completedOk)
  <2>1. InHand /\ ui.message.number = link.sequence
    BY <1>3 DEF ScreenIInv, OwnerInv, LinkShape, InHand, Message
  <2>2. ui.pc = "ack"
    BY <1>1, <2>1 DEF ScreenIInv, NotCompleted
  <2>. QED  BY <1>3, <2>2 DEF Quiet
<1>4. CASE uiQueue = <<>> /\ ~InHand /\ Effect(link.type, link.sequence, completedOk)
  BY <1>4 DEF Quiet
<1>. QED  BY <1>2, <1>3, <1>4 DEF ScreenIInv, PanelInv, LastCommand

\* What the owner makes of an answer, or of none.
LEMMA AnswerKeeps ==
  ASSUME ScreenIInv, NEW ok, Answered(ok), link.pc \in {"wait", "matched", "refused"},
         \/ ok = FALSE
         \/ link.pc = "matched" /\ ok = completedOk,
         UNCHANGED <<commandSequence, completedSequence, completedOk, uiQueue, ui, overlay,
                     screen, uses>>
  PROVE  ScreenIInv'
<1>1. /\ codeVisible /\ (link.type = "SHOW" <=> link.reason = "open")
      /\ link.type \in Kinds /\ link.reason \in Reasons
      /\ link = [pc |-> link.pc, sequence |-> link.sequence, type |-> link.type,
                 reason |-> link.reason]
  BY DEF ScreenIInv, OwnerInv, LinkShape, ScreenRecords
<1>2. /\ link' = [pc |-> link'.pc, sequence |-> link.sequence, type |-> link.type,
                  reason |-> link.reason]
      /\ link'.pc = IF link.reason = "open" /\ ~ok THEN "enterFault" ELSE "idle"
      /\ link'.sequence = link.sequence /\ link'.type = link.type
      /\ link'.reason = link.reason
  BY <1>1 DEF Answered
<1>3. /\ link.type = "CLEAR" => (codeVisible' <=> ~ok)
      /\ link.type = "SHOW" => codeVisible'
  BY <1>1 DEF Answered
<1>4. /\ link.reason = "open" => ~fault'
      /\ link.reason = "fault" => fault'
      /\ link.reason \in {"close", "reset"} => (fault' <=> ~ok)
  BY <1>1 DEF Answered
<1>5. ok => Quiet /\ Effect(link.type, link.sequence, TRUE)
  BY MatchedEffect DEF Effect
<1>6. ScreenRecords'
  BY <1>2 DEF ScreenIInv, ScreenRecords
<1>7. OwnerInv'
  <2>1. Numbered'
    BY <1>2 DEF ScreenIInv, OwnerInv, Numbered
  <2>2. Owed' = Owed
    <3>1. Owed = IF link.reason = "open" THEN 1 ELSE 0
      BY DEF Owed
    <3>2. CASE link.reason = "open"
      BY <1>1, <1>2, <1>3, <1>4, <3>1, <3>2 DEF Owed
    <3>3. CASE link.reason # "open"
      BY <1>1, <1>2, <1>3, <1>4, <3>1, <3>3 DEF Owed, Reasons, Kinds
    <3>. QED  BY <3>2, <3>3
  <2>3. NumbersCounted'
    BY <1>2, <2>2 DEF ScreenIInv, OwnerInv, NumbersCounted
  <2>4. LinkShape'
    BY <1>1, <1>2, <1>3 DEF LinkShape
  <2>. QED  BY <2>1, <2>3, <2>4 DEF OwnerInv
<1>8. UiShape' /\ InOrder' /\ NotCompleted'
  BY <1>2 DEF ScreenIInv, UiShape, InOrder, NotCompleted, InHand
<1>9. PanelInv'
  <2>1. link'.pc \notin {"wait", "matched"}
    BY <1>2
  <2>2. Quiet => Quiet'
    BY DEF Quiet, InHand
  <2>3. Believed'
    <3>1. ASSUME link'.pc = "idle", codeVisible', ~fault'
          PROVE  Quiet' /\ overlay' /\ screen'.code = link'.sequence
      <4>1. ok /\ link.type = "SHOW"
        BY <1>1, <1>2, <1>3, <1>4, <3>1 DEF Reasons, Kinds
      <4>. QED  BY <1>2, <1>5, <2>2, <4>1 DEF Effect
    <3>2. ASSUME link'.pc = "idle", ~codeVisible'
          PROVE  Quiet' /\ ~overlay' /\ screen'.code = 0
      <4>1. ok /\ link.type = "CLEAR"
        BY <1>1, <1>3, <3>2 DEF Kinds
      <4>. QED  BY <1>5, <2>2, <4>1 DEF Effect
    <3>. QED  BY <3>1, <3>2 DEF Believed
  <2>. QED  BY <2>1, <2>3 DEF PanelInv, LastCommand, MatchedNumber
<1>. QED  BY <1>6, <1>7, <1>8, <1>9 DEF ScreenIInv

\* What the UI task does leaves the owner's part alone.
LEMMA OwnerPart ==
  ASSUME ScreenIInv, UNCHANGED <<commandSequence, link, codeVisible, fault>>,
         \/ uses' = uses
         \/ uses' = [uses EXCEPT !.faults = @ + 1]
         \/ uses' = [uses EXCEPT !.posts = @ + 1]
  PROVE  /\ OwnerInv'
         /\ uses' = [windows |-> uses'.windows, resets |-> uses'.resets,
                     posts |-> uses'.posts, faults |-> uses'.faults]
<1>1. uses = [windows |-> uses.windows, resets |-> uses.resets, posts |-> uses.posts,
              faults |-> uses.faults]
  BY DEF ScreenIInv, ScreenRecords
<1>2. /\ uses'.windows = uses.windows /\ uses'.resets = uses.resets
      /\ uses' = [windows |-> uses'.windows, resets |-> uses'.resets,
                  posts |-> uses'.posts, faults |-> uses'.faults]
  BY <1>1
<1>. QED
  BY <1>2 DEF ScreenIInv, OwnerInv, Numbered, NumbersCounted, Owed, LinkShape

\* A turn between two commands changes nothing the owner relies on.
LEMMA FreePart ==
  ASSUME ScreenIInv, ~InHand, ~InHand',
         UNCHANGED <<completedSequence, completedOk, uiQueue, link, codeVisible, fault, overlay>>,
         screen' = screen \/ (~overlay /\ screen'.code \in {0, screen.code}),
         ui' = [pc |-> ui'.pc, message |-> ui'.message, ok |-> ui'.ok],
         ui'.message = Message(ui'.message.type, ui'.message.number),
         ui'.pc \in {"loop", "handle"}, ui'.pc = "loop" => ui'.message = IdleTurn,
         OwnerInv',
         uses' = [windows |-> uses'.windows, resets |-> uses'.resets,
                  posts |-> uses'.posts, faults |-> uses'.faults]
  PROVE  ScreenIInv'
<1>1. ScreenRecords' /\ UiShape' /\ InOrder' /\ NotCompleted'
  BY DEF ScreenIInv, ScreenRecords, UiShape, InOrder, NotCompleted
<1>2. LastCommand'
  <2>1. ASSUME link.pc \in {"wait", "matched"}, ui.message = Message(link.type, link.sequence)
        PROVE  FALSE
    BY <2>1 DEF ScreenIInv, OwnerInv, LinkShape, InHand, Message
  <2>2. ASSUME Effect(link.type, link.sequence, completedOk)
        PROVE  Effect(link.type, link.sequence, completedOk)'
    BY <2>2 DEF Effect, ScreenIInv, OwnerInv, LinkShape
  <2>. QED  BY <2>1, <2>2 DEF ScreenIInv, PanelInv, LastCommand
<1>3. MatchedNumber' /\ Believed'
  BY DEF ScreenIInv, PanelInv, MatchedNumber, Believed, Quiet
<1>. QED  BY <1>1, <1>2, <1>3 DEF ScreenIInv, PanelInv


\* The UI task works on the command in hand: the queue stays, nobody relies on
\* the panel, and the command the owner waits for is this one or comes later.
LEMMA HandPart ==
  ASSUME ScreenIInv, InHand, ui.pc \in {"handle", "show", "done", "number"},
         UNCHANGED <<commandSequence, uiQueue, link, codeVisible, fault>>,
         ui' = [pc |-> ui'.pc, message |-> ui.message, ok |-> ui'.ok],
         ui'.pc \in {"show", "done", "number", "ack"},
         ui'.pc = "show" => ui.message.type = "SHOW",
         completedSequence' = IF ui'.pc = "ack" THEN ui.message.number ELSE completedSequence,
         uses' = uses \/ uses' = [uses EXCEPT !.faults = @ + 1]
  PROVE  /\ ScreenRecords' /\ OwnerInv' /\ UiShape' /\ InOrder' /\ NotCompleted'
         /\ MatchedNumber' /\ Believed'
         /\ link.pc \in {"wait", "matched"} =>
              \/ uiQueue # <<>> /\ uiQueue[Len(uiQueue)] = Message(link.type, link.sequence)
              \/ /\ uiQueue = <<>> /\ ui.message = Message(link.type, link.sequence)
                 /\ ui.pc = "done" => Effect(link.type, link.sequence, ui.ok)
                 /\ ui.pc = "number" => Effect(link.type, link.sequence, completedOk)
<1>1. ui'.message = ui.message /\ InHand'
  BY DEF InHand
<1>2. /\ OwnerInv'
      /\ uses' = [windows |-> uses'.windows, resets |-> uses'.resets,
                  posts |-> uses'.posts, faults |-> uses'.faults]
  BY OwnerPart
<1>3. ScreenRecords'
  BY <1>1, <1>2 DEF ScreenIInv, ScreenRecords
<1>4. UiShape' /\ InOrder'
  BY <1>1 DEF ScreenIInv, UiShape, InOrder
<1>5. NotCompleted'
  <2>1. CASE ui'.pc = "ack"
    <3>1. completedSequence' = ui.message.number
      BY <2>1
    <3>2. ui.message.number \in 1 .. link.sequence /\ link.sequence \in Nat
      BY DEF ScreenIInv, InOrder, OwnerInv, Numbered
    <3>3. \A i \in DOMAIN uiQueue : uiQueue[i].number # ui.message.number
      <4>1. ASSUME NEW i \in DOMAIN uiQueue PROVE uiQueue[i].number # ui.message.number
        <5>1. ui.message.number < uiQueue[i].number /\ uiQueue[i].number \in 1 .. link.sequence
          BY DEF ScreenIInv, InOrder
        <5>. QED  BY <3>2, <5>1
      <4>. QED  BY <4>1
    <3>4. ui.message.number \in 0 .. link.sequence
      BY <3>2
    <3>. QED  BY <2>1, <3>1, <3>3, <3>4 DEF NotCompleted
  <2>2. CASE ui'.pc # "ack"
    BY <1>1, <2>2 DEF ScreenIInv, NotCompleted
  <2>. QED  BY <2>1, <2>2
<1>6. ~Quiet
  BY DEF Quiet
<1>7. Believed'
  BY <1>6 DEF ScreenIInv, PanelInv, Believed
<1>8. link.pc # "matched"
  BY <1>6, MatchedEffect
<1>9. MatchedNumber'
  BY <1>8 DEF MatchedNumber
<1>. QED
  BY <1>2, <1>3, <1>4, <1>5, <1>7, <1>9 DEF ScreenIInv, PanelInv, LastCommand

\* The drawing of a command.
LEMMA DrawKeeps ==
  ASSUME ScreenIInv, Look \/ DrawCode \/ Clear
  PROVE  ScreenIInv'
<1>1. /\ InHand /\ ui.pc \in {"handle", "show"}
      /\ UNCHANGED <<commandSequence, completedSequence, uiQueue, link, codeVisible, fault>>
      /\ uses' = uses \/ uses' = [uses EXCEPT !.faults = @ + 1]
  BY DEF Look, DrawCode, Clear, Draw, InHand, Kinds, ScreenIInv, UiShape, commandVars, ownerVars
<1>2. ui = [pc |-> ui.pc, message |-> ui.message, ok |-> ui.ok]
  BY DEF ScreenIInv, ScreenRecords
<1>3. /\ ui' = [pc |-> ui'.pc, message |-> ui.message, ok |-> ui'.ok]
      /\ ui'.pc \in {"show", "done"}
      /\ ui'.pc = "show" => ui.message.type = "SHOW"
      /\ ui'.pc = "done" => Effect(ui.message.type, ui.message.number, ui.ok)'
  <2>1. CASE Look
    BY <1>2, <2>1 DEF Look, Effect
  <2>2. CASE DrawCode
    <3>1. PICK ok \in BOOLEAN :
            /\ Draw([code |-> ui.message.number, page |-> screen.page], ok)
            /\ overlay' = ok /\ ui' = [ui EXCEPT !.pc = "done", !.ok = ok]
      BY <2>2 DEF DrawCode
    <3>2. ui' = [pc |-> "done", message |-> ui.message, ok |-> ok]
      BY <1>2, <3>1
    <3>3. ui.message.type = "SHOW"
      BY <2>2 DEF DrawCode, ScreenIInv, UiShape
    <3>4. ok => overlay' /\ screen'.code = ui.message.number
      BY <3>1 DEF Draw
    <3>. QED  BY <3>2, <3>3, <3>4 DEF Effect
  <2>3. CASE Clear
    <3>1. PICK ok \in BOOLEAN :
            Draw(Page, ok) /\ overlay' = FALSE /\ ui' = [ui EXCEPT !.pc = "done", !.ok = ok]
      BY <2>3 DEF Clear
    <3>2. ui' = [pc |-> "done", message |-> ui.message, ok |-> ok]
      BY <1>2, <3>1
    <3>3. ui.message.type = "CLEAR"
      BY <2>3 DEF Clear
    <3>4. ok => ~overlay' /\ screen'.code = 0
      BY <3>1 DEF Draw, Page
    <3>. QED  BY <3>2, <3>3, <3>4 DEF Effect
  <2>. QED  BY <2>1, <2>2, <2>3
<1>4. /\ ScreenRecords' /\ OwnerInv' /\ UiShape' /\ InOrder' /\ NotCompleted'
      /\ MatchedNumber' /\ Believed'
      /\ link.pc \in {"wait", "matched"} =>
           \/ uiQueue # <<>> /\ uiQueue[Len(uiQueue)] = Message(link.type, link.sequence)
           \/ uiQueue = <<>> /\ ui.message = Message(link.type, link.sequence)
  BY <1>1, <1>3, HandPart
<1>5. LastCommand'
  <2>1. ui'.message = ui.message /\ ui'.pc \notin {"number", "ack"}
    BY <1>3
  <2>2. CASE uiQueue # <<>> /\ uiQueue[Len(uiQueue)] = Message(link.type, link.sequence)
    BY <1>1, <2>2 DEF LastCommand
  <2>3. CASE uiQueue = <<>> /\ ui.message = Message(link.type, link.sequence)
    <3>1. ui.message.type = link.type /\ ui.message.number = link.sequence
      BY <2>3 DEF Message
    <3>. QED  BY <1>1, <1>3, <2>1, <2>3, <3>1 DEF LastCommand
  <2>. QED  BY <1>1, <1>4, <2>2, <2>3 DEF LastCommand
<1>. QED  BY <1>4, <1>5 DEF ScreenIInv, PanelInv

\* Its result and its number are left for the owner.
LEMMA ReportKeeps ==
  ASSUME ScreenIInv, ReportOk \/ ReportNumber
  PROVE  ScreenIInv'
<1>1. /\ ui.pc \in {"done", "number"} /\ InHand
      /\ UNCHANGED <<commandSequence, uiQueue, link, codeVisible, fault, uses, overlay, screen>>
  BY DEF ReportOk, ReportNumber, ScreenIInv, UiShape, ownerVars
<1>2. ui = [pc |-> ui.pc, message |-> ui.message, ok |-> ui.ok]
  BY DEF ScreenIInv, ScreenRecords
<1>3. /\ ui' = [pc |-> ui'.pc, message |-> ui.message, ok |-> ui'.ok]
      /\ ui'.pc = IF ui.pc = "done" THEN "number" ELSE "ack"
      /\ completedSequence' = IF ui'.pc = "ack" THEN ui.message.number ELSE completedSequence
      /\ IF ui.pc = "done" THEN completedOk' = ui.ok ELSE UNCHANGED completedOk
  <2>1. CASE ReportOk
    BY <1>2, <2>1 DEF ReportOk
  <2>2. CASE ReportNumber
    BY <1>2, <2>2 DEF ReportNumber
  <2>. QED  BY <2>1, <2>2
<1>4. /\ ScreenRecords' /\ OwnerInv' /\ UiShape' /\ InOrder' /\ NotCompleted'
      /\ MatchedNumber' /\ Believed'
      /\ link.pc \in {"wait", "matched"} =>
           \/ uiQueue # <<>> /\ uiQueue[Len(uiQueue)] = Message(link.type, link.sequence)
           \/ /\ uiQueue = <<>> /\ ui.message = Message(link.type, link.sequence)
              /\ ui.pc = "done" => Effect(link.type, link.sequence, ui.ok)
              /\ ui.pc = "number" => Effect(link.type, link.sequence, completedOk)
  BY <1>1, <1>3, HandPart
<1>5. LastCommand'
  <2>1. ui'.message = ui.message /\ ui'.pc # "done"
    BY <1>1, <1>3
  <2>2. CASE uiQueue # <<>> /\ uiQueue[Len(uiQueue)] = Message(link.type, link.sequence)
    BY <1>1, <2>2 DEF LastCommand
  <2>3. CASE /\ uiQueue = <<>> /\ ui.message = Message(link.type, link.sequence)
             /\ ui.pc = "done" => Effect(link.type, link.sequence, ui.ok)
             /\ ui.pc = "number" => Effect(link.type, link.sequence, completedOk)
    <3>1. Effect(link.type, link.sequence, completedOk)'
      BY <1>1, <1>3, <2>3 DEF Effect
    <3>. QED  BY <1>1, <2>1, <2>3, <3>1 DEF LastCommand
  <2>. QED  BY <1>1, <1>4, <2>2, <2>3 DEF LastCommand
<1>. QED  BY <1>4, <1>5 DEF ScreenIInv, PanelInv

LEMMA AckKeeps ==
  ASSUME ScreenIInv, GiveAck
  PROVE  ScreenIInv'
<1>1. /\ ui.pc = "ack" /\ InHand
      /\ UNCHANGED <<commandSequence, completedSequence, completedOk, uiQueue, link,
                     codeVisible, fault, uses, overlay, screen>>
      /\ ui' = [ui EXCEPT !.pc = "loop", !.message = IdleTurn]
  BY DEF GiveAck, ScreenIInv, UiShape, ownerVars
<1>2. ui = [pc |-> ui.pc, message |-> ui.message, ok |-> ui.ok]
  BY DEF ScreenIInv, ScreenRecords
<1>3. ui' = [pc |-> "loop", message |-> IdleTurn, ok |-> ui.ok]
  BY <1>1, <1>2
<1>4. ~InHand' /\ ui'.message = Message("NONE", 0)
  BY <1>3 DEF InHand, IdleTurn, Message, Kinds
<1>5. ScreenRecords' /\ UiShape' /\ InOrder' /\ NotCompleted'
  BY <1>1, <1>3, <1>4 DEF ScreenIInv, ScreenRecords, UiShape, InOrder, NotCompleted, Message
<1>6. OwnerInv'
  BY <1>1, OwnerPart
<1>7. LastCommand'
  <2>1. Effect(link.type, link.sequence, completedOk) =>
          Effect(link.type, link.sequence, completedOk)'
    BY <1>1 DEF Effect
  <2>. QED  BY <1>1, <1>4, <2>1 DEF ScreenIInv, PanelInv, LastCommand
<1>8. MatchedNumber' /\ Believed'
  BY <1>1, <1>4 DEF ScreenIInv, PanelInv, MatchedNumber, Believed, Quiet
<1>. QED  BY <1>5, <1>6, <1>7, <1>8 DEF ScreenIInv, PanelInv

\* A turn without a command, and one that leaves a message to handle.
LEMMA TurnKeeps ==
  ASSUME ScreenIInv, ShowState \/ Animate
  PROVE  ScreenIInv'
<1>1. /\ ui.pc = "handle" /\ ~InHand
      /\ UNCHANGED <<commandSequence, completedSequence, completedOk, uiQueue, link,
                     codeVisible, fault, overlay>>
      /\ ui' = [ui EXCEPT !.pc = "loop", !.message = IdleTurn]
  <2>1. CASE ShowState
    BY <2>1 DEF ShowState, InHand, Kinds, commandVars, ownerVars
  <2>2. CASE Animate
    <3>1. ui.message = IdleTurn /\ ui = [pc |-> ui.pc, message |-> ui.message, ok |-> ui.ok]
      BY <2>2 DEF Animate, ScreenIInv, ScreenRecords
    <3>2. ui' = [ui EXCEPT !.pc = "loop", !.message = IdleTurn]
      BY <2>2, <3>1 DEF Animate
    <3>3. ~InHand
      BY <3>1 DEF InHand, IdleTurn, Message, Kinds
    <3>4. UNCHANGED <<commandSequence, completedSequence, completedOk, uiQueue, link,
                      codeVisible, fault, overlay>>
      BY <2>2 DEF Animate, commandVars, ownerVars
    <3>5. ui.pc = "handle"
      BY <2>2 DEF Animate
    <3>. QED  BY <3>2, <3>3, <3>4, <3>5
  <2>. QED  BY <2>1, <2>2
<1>2. /\ uses' = uses \/ uses' = [uses EXCEPT !.faults = @ + 1]
      /\ screen' = screen \/ (~overlay /\ screen'.code \in {0, screen.code})
  <2>1. CASE ShowState
    BY <2>1 DEF ShowState, Draw
  <2>2. CASE Animate
    BY <2>2 DEF Animate, Draw, Page
  <2>. QED  BY <2>1, <2>2
<1>3. ui' = [pc |-> "loop", message |-> IdleTurn, ok |-> ui.ok]
  <2>1. ui = [pc |-> ui.pc, message |-> ui.message, ok |-> ui.ok]
    BY DEF ScreenIInv, ScreenRecords
  <2>. QED  BY <1>1, <2>1
<1>4. ~InHand' /\ ui'.message = Message("NONE", 0)
  BY <1>3 DEF InHand, IdleTurn, Message, Kinds
<1>5. /\ OwnerInv'
      /\ uses' = [windows |-> uses'.windows, resets |-> uses'.resets,
                  posts |-> uses'.posts, faults |-> uses'.faults]
  BY <1>1, <1>2, OwnerPart
<1>6. /\ ui' = [pc |-> ui'.pc, message |-> ui'.message, ok |-> ui'.ok]
      /\ ui'.message = Message(ui'.message.type, ui'.message.number)
      /\ ui'.pc = "loop" /\ ui'.message = IdleTurn
  BY <1>3, <1>4 DEF Message
<1>. QED  BY <1>1, <1>2, <1>4, <1>5, <1>6, FreePart

LEMMA ReceiveKeeps ==
  ASSUME ScreenIInv, Receive
  PROVE  ScreenIInv'
<1>1. /\ ui.pc = "loop" /\ ui.message = IdleTurn /\ ~InHand
      /\ UNCHANGED <<commandSequence, completedSequence, completedOk, link, codeVisible,
                     fault, overlay, screen, uses>>
      /\ ui = [pc |-> ui.pc, message |-> ui.message, ok |-> ui.ok]
  BY DEF Receive, ScreenIInv, UiShape, ScreenRecords, InHand, IdleTurn, Message, Kinds,
         ownerVars
<1>2. OwnerInv'
  BY <1>1, OwnerPart
<1>3. uses' = [windows |-> uses'.windows, resets |-> uses'.resets,
               posts |-> uses'.posts, faults |-> uses'.faults]
  BY <1>1 DEF ScreenIInv, ScreenRecords
<1>4. CASE UNCHANGED uiQueue /\ \E m \in {IdleTurn, Message("STATE", stateSlot)} :
             ui' = [ui EXCEPT !.pc = "handle", !.message = m]
  <2>1. PICK m \in {IdleTurn, Message("STATE", stateSlot)} :
           ui' = [ui EXCEPT !.pc = "handle", !.message = m]
    BY <1>4
  <2>2. ui' = [pc |-> "handle", message |-> m, ok |-> ui.ok]
    BY <1>1, <2>1
  <2>3. m = Message(m.type, m.number) /\ m.type \notin Kinds
    BY <2>1 DEF IdleTurn, Message, Kinds
  <2>4. /\ ui' = [pc |-> ui'.pc, message |-> ui'.message, ok |-> ui'.ok]
        /\ ui'.message = Message(ui'.message.type, ui'.message.number)
        /\ ui'.pc = "handle" /\ ~InHand'
    BY <2>2, <2>3 DEF InHand
  <2>. QED  BY <1>1, <1>2, <1>3, <1>4, <2>4, FreePart
<1>5. CASE /\ uiQueue # <<>> /\ uiQueue' = Tail(uiQueue)
           /\ ui' = [ui EXCEPT !.pc = "handle", !.message = Head(uiQueue)]
  <2>1. uiQueue \in Seq([type : Kinds, number : Nat]) /\ link.sequence \in Nat
    BY DEF ScreenIInv, ScreenRecords, OwnerInv, Numbered
  <2>2. /\ Head(uiQueue) = uiQueue[1] /\ Head(uiQueue) \in [type : Kinds, number : Nat]
        /\ uiQueue' \in Seq([type : Kinds, number : Nat]) /\ Len(uiQueue) \in Nat \ {0}
        /\ DOMAIN uiQueue = 1 .. Len(uiQueue) /\ DOMAIN uiQueue' = 1 .. Len(uiQueue) - 1
        /\ \A i \in 1 .. Len(uiQueue) - 1 : uiQueue'[i] = uiQueue[i + 1]
    BY <1>5, <2>1, TailShape
  <2>3. Head(uiQueue) = Message(Head(uiQueue).type, Head(uiQueue).number)
    BY <2>2 DEF Message
  <2>4. /\ ui' = [pc |-> "handle", message |-> Head(uiQueue), ok |-> ui.ok]
        /\ ui'.message = Head(uiQueue) /\ ui'.pc = "handle" /\ InHand'
    BY <1>1, <1>5, <2>2 DEF InHand
  <2>5. ScreenRecords' /\ UiShape'
    BY <1>1, <1>3, <2>2, <2>3, <2>4 DEF ScreenIInv, ScreenRecords, UiShape
  <2>6. \A i \in 1 .. Len(uiQueue) - 1 : /\ i + 1 \in DOMAIN uiQueue
                                         /\ 1 < i + 1 /\ uiQueue'[i] = uiQueue[i + 1]
    BY <2>2
  <2>7. InOrder'
    <3>1. \A i \in DOMAIN uiQueue' : uiQueue'[i].number \in 1 .. link.sequence
      BY <2>2, <2>6 DEF ScreenIInv, InOrder
    <3>2. ASSUME NEW i \in DOMAIN uiQueue', NEW j \in DOMAIN uiQueue', i < j
          PROVE  uiQueue'[i].number < uiQueue'[j].number
      <4>1. i + 1 \in DOMAIN uiQueue /\ j + 1 \in DOMAIN uiQueue /\ i + 1 < j + 1
        BY <2>2, <2>6, <3>2
      <4>. QED  BY <2>2, <2>6, <4>1 DEF ScreenIInv, InOrder
    <3>3. Head(uiQueue).number \in 1 .. link.sequence
      BY <2>2 DEF ScreenIInv, InOrder
    <3>4. \A i \in DOMAIN uiQueue' : Head(uiQueue).number < uiQueue'[i].number
      <4>1. 1 \in DOMAIN uiQueue
        BY <2>2
      <4>. QED  BY <2>2, <2>6, <4>1 DEF ScreenIInv, InOrder
    <3>. QED  BY <1>1, <2>4, <3>1, <3>2, <3>3, <3>4 DEF InOrder
  <2>8. NotCompleted'
    <3>1. \A i \in DOMAIN uiQueue' : uiQueue'[i].number # completedSequence
      BY <2>2, <2>6 DEF ScreenIInv, NotCompleted
    <3>2. Head(uiQueue).number # completedSequence
      BY <2>2 DEF ScreenIInv, NotCompleted
    <3>. QED  BY <1>1, <2>4, <3>1, <3>2 DEF ScreenIInv, NotCompleted
  <2>9. LastCommand'
    <3>1. ASSUME link.pc \in {"wait", "matched"}
          PROVE  \/ uiQueue' # <<>> /\ uiQueue'[Len(uiQueue')] = Message(link.type, link.sequence)
                 \/ uiQueue' = <<>> /\ ui'.message = Message(link.type, link.sequence)
      <4>1. uiQueue[Len(uiQueue)] = Message(link.type, link.sequence)
        BY <1>5, <3>1 DEF ScreenIInv, PanelInv, LastCommand
      <4>2. CASE Len(uiQueue) = 1
        <5>1. uiQueue' = <<>>
          BY <2>2, <4>2
        <5>. QED  BY <2>2, <2>4, <4>1, <4>2, <5>1
      <4>3. CASE Len(uiQueue) # 1
        <5>1. Len(uiQueue') = Len(uiQueue) - 1 /\ Len(uiQueue') \in 1 .. Len(uiQueue) - 1
          BY <1>5, <2>1, <2>2, <4>3
        <5>2. uiQueue'[Len(uiQueue')] = uiQueue[Len(uiQueue)]
          <6>1. uiQueue'[Len(uiQueue')] = uiQueue[Len(uiQueue') + 1]
            BY <2>2, <5>1
          <6>2. Len(uiQueue') + 1 = Len(uiQueue)
            BY <2>2, <5>1
          <6>. QED  BY <6>1, <6>2
        <5>3. uiQueue' # <<>>
          BY <2>2, <5>1
        <5>. QED  BY <4>1, <5>2, <5>3
      <4>. QED  BY <4>2, <4>3
    <3>. QED  BY <1>1, <2>4, <3>1 DEF LastCommand
  <2>10. MatchedNumber' /\ Believed'
    BY <1>1, <1>5 DEF ScreenIInv, PanelInv, MatchedNumber, Believed, Quiet
  <2>. QED  BY <1>2, <2>5, <2>7, <2>8, <2>9, <2>10 DEF ScreenIInv, PanelInv
<1>. QED  BY <1>4, <1>5 DEF Receive

\* The commands of the owner are few enough for their numbers.
LEMMA CommandKeeps ==
  ASSUME ScreenIInv, OpenWindow \/ CloseWindow \/ ClearInFault
  PROVE  ScreenIInv'
<1>0. /\ MaxWindows \in Nat /\ MaxLocalResets \in Nat
      /\ link.sequence \in Nat /\ uses.windows \in 0 .. MaxWindows
      /\ uses.resets \in 0 .. MaxLocalResets
      /\ link.sequence + Owed <= 2 * uses.windows + uses.resets
  BY ScreenAssumption DEF ScreenIInv, OwnerInv, Numbered, NumbersCounted
<1>1. uses = [windows |-> uses.windows, resets |-> uses.resets, posts |-> uses.posts,
              faults |-> uses.faults]
  BY DEF ScreenIInv, ScreenRecords
<1>2. CASE OpenWindow
  <2>1. /\ Send("SHOW", "open") /\ codeVisible' = TRUE /\ uses.windows < MaxWindows
        /\ uses' = [uses EXCEPT !.windows = @ + 1] /\ Owed = 0
    BY <1>2 DEF OpenWindow, Owed
  <2>2. /\ uses' = [windows |-> uses'.windows, resets |-> uses'.resets,
                    posts |-> uses'.posts, faults |-> uses'.faults]
        /\ uses'.windows = uses.windows + 1 /\ uses'.resets = uses.resets
    BY <1>1, <2>1
  <2>3. /\ uses'.windows \in 0 .. MaxWindows /\ uses'.resets \in 0 .. MaxLocalResets
        /\ link.sequence + 1 + 1 <= 2 * uses'.windows + uses'.resets
    BY <1>0, <2>1, <2>2
  <2>4. "SHOW" \in Kinds /\ "open" \in Reasons
    BY DEF Kinds, Reasons
  <2>. QED  BY <2>1, <2>2, <2>3, <2>4, SendKeeps
<1>3. CASE CloseWindow \/ ClearInFault
  <2>1. PICK reason \in {"close", "fault"} : Send("CLEAR", reason)
    BY <1>3 DEF CloseWindow, ClearInFault
  <2>2. codeVisible' /\ Owed = 1 /\ uses' = uses
    BY <1>3 DEF CloseWindow, ClearInFault, Owed, ScreenIInv, OwnerInv, LinkShape
  <2>3. link.sequence + 1 + 0 <= 2 * uses'.windows + uses'.resets
    BY <1>0, <2>2
  <2>4. "CLEAR" \in Kinds /\ reason \in Reasons /\ reason # "open"
    BY DEF Kinds, Reasons
  <2>. QED  BY <1>0, <1>1, <2>1, <2>2, <2>3, <2>4, SendKeeps
<1>. QED  BY <1>2, <1>3

LEMMA ResetKeeps ==
  ASSUME ScreenIInv, LocalReset
  PROVE  ScreenIInv'
<1>0. /\ MaxWindows \in Nat /\ MaxLocalResets \in Nat
      /\ link.sequence \in Nat /\ uses.windows \in 0 .. MaxWindows
      /\ uses.resets \in 0 .. MaxLocalResets
      /\ link.sequence <= 2 * uses.windows + uses.resets
  BY ScreenAssumption DEF ScreenIInv, OwnerInv, Numbered, NumbersCounted, Owed
<1>1. uses = [windows |-> uses.windows, resets |-> uses.resets, posts |-> uses.posts,
              faults |-> uses.faults]
  BY DEF ScreenIInv, ScreenRecords
<1>2. uses' = [uses EXCEPT !.resets = @ + 1] /\ uses.resets < MaxLocalResets
  BY DEF LocalReset
<1>3. /\ uses' = [windows |-> uses'.windows, resets |-> uses'.resets,
                  posts |-> uses'.posts, faults |-> uses'.faults]
      /\ uses'.windows = uses.windows /\ uses'.resets = uses.resets + 1
  BY <1>1, <1>2
<1>4. /\ uses'.windows \in 0 .. MaxWindows /\ uses'.resets \in 0 .. MaxLocalResets
      /\ link.sequence + 1 <= 2 * uses'.windows + uses'.resets
  BY <1>0, <1>2, <1>3
<1>5. CASE codeVisible
  <2>1. Send("CLEAR", "reset") /\ codeVisible'
    BY <1>5 DEF LocalReset
  <2>2. "CLEAR" \in Kinds /\ "reset" \in Reasons
    BY DEF Kinds, Reasons
  <2>3. link.sequence + 1 + 0 <= 2 * uses'.windows + uses'.resets
    BY <1>0, <1>4
  <2>. QED  BY <1>3, <1>4, <2>1, <2>2, <2>3, SendKeeps
<1>6. CASE ~codeVisible
  <2>1. /\ UNCHANGED <<commandSequence, completedSequence, completedOk, uiQueue, link,
                       codeVisible, ui, overlay, screen>>
        /\ link.pc = "idle"
    BY <1>6 DEF LocalReset, commandVars, uiVars
  <2>2. Owed' = 0
    BY <1>6, <2>1 DEF Owed
  <2>3. OwnerInv'
    <3>1. Numbered' /\ LinkShape'
      BY <2>1 DEF ScreenIInv, OwnerInv, Numbered, LinkShape
    <3>2. NumbersCounted'
      BY <1>0, <1>4, <2>1, <2>2 DEF NumbersCounted
    <3>. QED  BY <3>1, <3>2 DEF OwnerInv
  <2>4. ScreenRecords'
    BY <1>3, <2>1 DEF ScreenIInv, ScreenRecords
  <2>5. UiShape' /\ InOrder' /\ NotCompleted'
    BY <2>1 DEF ScreenIInv, UiShape, InOrder, NotCompleted, InHand
  <2>6. PanelInv'
    BY <1>6, <2>1 DEF ScreenIInv, PanelInv, LastCommand, MatchedNumber, Believed, Quiet, InHand
  <2>. QED  BY <2>3, <2>4, <2>5, <2>6 DEF ScreenIInv
<1>. QED  BY <1>5, <1>6

LEMMA TakeAckKeeps ==
  ASSUME ScreenIInv, TakeAck
  PROVE  ScreenIInv'
<1>1. /\ link.pc = "wait"
      /\ UNCHANGED <<commandSequence, completedSequence, completedOk, uiQueue, codeVisible,
                     fault, ui, overlay, screen, uses>>
      /\ link' = [link EXCEPT !.pc =
                    IF completedSequence = link.sequence THEN "matched" ELSE "wait"]
  BY DEF TakeAck, Acknowledges, uiVars
<1>2. link = [pc |-> link.pc, sequence |-> link.sequence, type |-> link.type,
              reason |-> link.reason]
  BY DEF ScreenIInv, ScreenRecords
<1>3. /\ link' = [pc |-> link'.pc, sequence |-> link.sequence, type |-> link.type,
                  reason |-> link.reason]
      /\ link'.sequence = link.sequence /\ link'.type = link.type
      /\ link'.reason = link.reason /\ link'.pc \in {"wait", "matched"}
      /\ link'.pc = "matched" => completedSequence = link.sequence
  BY <1>1, <1>2
<1>4. ScreenRecords'
  BY <1>1, <1>3 DEF ScreenIInv, ScreenRecords
<1>5. OwnerInv'
  <2>1. Owed' = Owed
    BY <1>1, <1>3 DEF Owed
  <2>. QED
    BY <1>1, <1>3, <2>1 DEF ScreenIInv, OwnerInv, Numbered, NumbersCounted, LinkShape
<1>6. UiShape' /\ InOrder' /\ NotCompleted'
  BY <1>1, <1>3 DEF ScreenIInv, UiShape, InOrder, NotCompleted, InHand
<1>7. PanelInv'
  BY <1>1, <1>3 DEF ScreenIInv, PanelInv, LastCommand, MatchedNumber, Believed, Quiet, InHand,
                    Effect
<1>. QED  BY <1>4, <1>5, <1>6, <1>7 DEF ScreenIInv

\* A step that leaves what the invariant speaks of.
LEMMA ScreenStutter ==
  ASSUME ScreenIInv,
         UNCHANGED <<commandSequence, completedSequence, completedOk, uiQueue, link,
                     codeVisible, fault, ui, overlay, screen>>,
         uses' = uses \/ uses' = [uses EXCEPT !.posts = @ + 1]
  PROVE  ScreenIInv'
<1>1. /\ OwnerInv'
      /\ uses' = [windows |-> uses'.windows, resets |-> uses'.resets,
                  posts |-> uses'.posts, faults |-> uses'.faults]
  BY OwnerPart
<1>2. ScreenRecords'
  BY <1>1 DEF ScreenIInv, ScreenRecords
<1>3. UiShape' /\ InOrder' /\ NotCompleted'
  BY DEF ScreenIInv, UiShape, InOrder, NotCompleted, InHand
<1>4. PanelInv'
  BY DEF ScreenIInv, PanelInv, LastCommand, MatchedNumber, Believed, Quiet, InHand, Effect
<1>. QED  BY <1>1, <1>2, <1>3, <1>4 DEF ScreenIInv

LEMMA ScreenStep == ScreenIInv /\ [ScreenNext]_screenVars => ScreenIInv'
<1>. SUFFICES ASSUME ScreenIInv, [ScreenNext]_screenVars PROVE ScreenIInv'
  OBVIOUS
<1>1. CASE OpenWindow \/ CloseWindow \/ ClearInFault
  BY <1>1, CommandKeeps
<1>2. CASE LocalReset
  BY <1>2, ResetKeeps
<1>3. CASE TakeAck
  BY <1>3, TakeAckKeeps
<1>4. CASE ReadAnswer \/ TimeOut \/ Refused
  <2>1. UNCHANGED <<commandSequence, completedSequence, completedOk, uiQueue, ui, overlay,
                    screen, uses>>
    BY <1>4 DEF ReadAnswer, TimeOut, Refused, commandVars, uiVars
  <2>2. CASE ReadAnswer
    <3>1. Answered(completedOk) /\ link.pc = "matched"
      BY <2>2 DEF ReadAnswer
    <3>. QED  BY <2>1, <3>1, AnswerKeeps
  <2>3. CASE TimeOut \/ Refused
    <3>1. Answered(FALSE) /\ link.pc \in {"wait", "refused"}
      BY <2>3 DEF TimeOut, Refused
    <3>. QED  BY <2>1, <3>1, AnswerKeeps
  <2>. QED  BY <1>4, <2>2, <2>3
<1>5. CASE PostState
  <2>1. /\ UNCHANGED <<commandSequence, completedSequence, completedOk, uiQueue, link,
                       codeVisible, fault, ui, overlay, screen>>
        /\ uses' = [uses EXCEPT !.posts = @ + 1]
    BY <1>5 DEF PostState, commandVars, ownerVars, uiVars
  <2>. QED  BY <2>1, ScreenStutter
<1>6. CASE UNCHANGED screenVars
  BY <1>6, ScreenStutter DEF screenVars, commandVars, ownerVars, uiVars
<1>. QED
  BY <1>1, <1>2, <1>3, <1>4, <1>5, <1>6, ReceiveKeeps, DrawKeeps, ReportKeeps, AckKeeps,
     TurnKeeps DEF ScreenNext, OwnerWork, UiWork

\* The invariant of the pairing screen holds in every reachable state.
THEOREM ScreenInductive == ScreenSpec => []ScreenIInv
BY ScreenInitial, ScreenStep, PTL DEF ScreenSpec

\* Whatever times out, comes late, is refused or cannot be drawn: an owner at
\* rest with a window open has its own code on the panel, and one with no code
\* out has none there.
THEOREM CodeWhereBelieved == ScreenSpec => []CodeIsWhereBelieved
<1>1. ScreenIInv => CodeIsWhereBelieved
  BY DEF ScreenIInv, PanelInv, Believed, CodeIsWhereBelieved
<1>. QED  BY <1>1, ScreenInductive, PTL

----------------------------------------------------------------------------
\* The Wi-Fi operation.  The reservation, the job on its way and the completion
\* make one holder of the operation at a time; it alone stores, so the words of
\* an unmoved even counter are those of one store; and the words of a store are
\* those of the update that was accepted last.

States == {"NONE", "PENDING", "SUCCEEDED", "FAILED"}
Results == {"OK", "ROLLED_BACK", "CANCELLED"}
Operations == [id : Nat, state : States, result : Results]

OwnerPlaces == {"idle", "number", "store", "port", "release", "read", "readDone", "readFailed"}
Unsettled == {"complete", "read", "readDone", "readFailed"}
Free == {"idle", "drain", "post"}
WorkerPlaces == Free \cup Unsettled \cup {"store", "stored", "release"}

ServiceTyped ==
  /\ nextId \in 0 .. IdWrap - 1 /\ opSequence \in Nat /\ latest \in Operations
  /\ netQueue \in Seq(Nat)
  /\ pc \in [Tasks -> OwnerPlaces \cup WorkerPlaces] /\ step \in [Tasks -> 0 .. 4]
  /\ pc["owner"] \in OwnerPlaces /\ pc["net"] \in WorkerPlaces /\ pc["app"] \in WorkerPlaces
  /\ op \in [Tasks -> Operations] /\ before \in [Tasks -> Nat] /\ seen \in [Tasks -> Operations]
  /\ accepted \in Nat /\ status \in Operations /\ decided \in [id : Nat, result : Results]
  /\ used \in [submits : 0 .. MaxSubmits, reads : Int, resets : Int]

\* Jobs in a queue: the other commands are 0.
HasJob(q) == \E i \in DOMAIN q : q[i] # 0
OneJob(q) == \A i, j \in DOMAIN q : q[i] # 0 /\ q[j] # 0 => i = j
JobsAre(q, i) == \A k \in DOMAIN q : q[k] \in {0, i}

Submitting == pc["owner"] \in {"number", "store", "port", "release"}
Working(t) == pc[t] \in Unsettled \cup {"store", "stored", "release"}
Storing(t) == pc[t] = "store" /\ step[t] > 0

OneHolder ==
  /\ OneJob(netQueue)
  /\ Submitting => ~HasJob(netQueue) /\ ~Working("net") /\ ~Working("app")
  /\ HasJob(netQueue) => ~Working("net") /\ ~Working("app")
  /\ ~(Working("net") /\ Working("app"))
  /\ Submitting \/ HasJob(netQueue) \/ Working("net") \/ Working("app") => reserved

Pending == Operation(accepted, "PENDING", "OK")
Outcome == Operation(decided.id, IF decided.result = "OK" THEN "SUCCEEDED" ELSE "FAILED",
                     decided.result)

\* A job is that of the update accepted last, and so is its outcome.
OwnJob ==
  /\ Submitting => accepted = 0
  /\ JobsAre(netQueue, accepted)
  /\ HasJob(netQueue) => accepted # 0
  /\ \A t \in Workers : Working(t) => accepted # 0 /\ op[t] = Outcome /\ decided.id = accepted

\* The words while a worker has the operation, by the stores it has made.
SettledWords(t) ==
  /\ pc[t] \in Unsettled => latest = Pending
  /\ pc[t] = "store" =>
       latest = Operation(accepted, IF step[t] = 4 THEN op[t].state ELSE "PENDING",
                                    IF step[t] \in {3, 4} THEN op[t].result ELSE "OK")
  /\ pc[t] \in {"stored", "release"} => latest = op[t]

\* The words while the owner has it.
SubmittedWords ==
  LET o == op["owner"] IN
  /\ pc["owner"] \in {"store", "port"} =>
       o = NoOperation \/ (o.id # 0 /\ o = Operation(o.id, "PENDING", "OK"))
  /\ pc["owner"] = "store" =>
       /\ step["owner"] \in 2 .. 4 => latest.id = o.id
       /\ step["owner"] \in 3 .. 4 => latest.result = o.result
       /\ step["owner"] = 4 => latest.state = o.state
  /\ pc["owner"] = "port" => latest = o /\ o.id # 0
  /\ pc["owner"] = "release" => latest = NoOperation

Resting == ~Submitting /\ ~HasJob(netQueue) /\ ~Working("net") /\ ~Working("app")

WordsTrue ==
  /\ HasJob(netQueue) => latest = Pending
  /\ SettledWords("net") /\ SettledWords("app")
  /\ SubmittedWords
  /\ Resting => \/ accepted = 0 /\ latest = NoOperation
                \/ accepted # 0 /\ decided.id = accepted /\ latest = Outcome

\* The counter is odd while a task stores.
Counter ==
  /\ \A t \in Tasks : pc[t] \notin {"store", "read"} => step[t] = 0
  /\ opSequence % 2 = 1 <=> Storing("owner") \/ Storing("net") \/ Storing("app")

\* What a status request has read is still so, if the counter has not moved.
Reading ==
  pc["owner"] = "read" /\ step["owner"] > 0 =>
    /\ before["owner"] % 2 = 0 /\ before["owner"] <= opSequence
    /\ before["owner"] = opSequence =>
         /\ step["owner"] > 1 => seen["owner"].id = latest.id
         /\ step["owner"] > 2 => seen["owner"].state = latest.state
         /\ step["owner"] > 3 => seen["owner"].result = latest.result

\* The words a request ends with are the latest, or were when it was pending.
Answer ==
  pc["owner"] = "readDone" =>
    /\ \/ seen["owner"] = latest /\ ~Storing("net") /\ ~Storing("app")
       \/ seen["owner"] = Pending /\ accepted # 0
    /\ Settled(status) /\ status.id = accepted => seen["owner"] = status

\* An update that was reported settled stays so.
Reported ==
  /\ Settled(status) => status.id # 0
  /\ Settled(status) /\ status.id = accepted =>
       /\ status = latest /\ ~HasJob(netQueue)
       /\ \A t \in Workers : pc[t] \notin Unsettled \cup {"store"}

\* The identifiers given out so far, from a fresh counter or a wrapping one.
IdsSoFar == {status.id, accepted, op["owner"].id}
Counting ==
  /\ nextId \in 1 .. used.submits + 1
  /\ pc["owner"] = "number" => nextId <= used.submits
  /\ IdsSoFar \subseteq (0 .. nextId - 1) \cup {IdWrap - 1}
Wrapped == nextId = 0 /\ IdsSoFar \subseteq {0, IdWrap - 1}
AboutToWrap == nextId = IdWrap - 1 /\ IdsSoFar \subseteq {0}
Ids ==
  /\ pc["owner"] = "number" => used.submits > 0
  /\ Counting \/ Wrapped \/ AboutToWrap
  /\ pc["owner"] \in {"store", "port"} => op["owner"].id = 0 \/ op["owner"].id # status.id

ServiceIInv ==
  /\ ServiceTyped /\ OneHolder /\ OwnJob /\ WordsTrue /\ Counter /\ Reading /\ Answer
  /\ Reported /\ Ids


LEMMA ServiceInitial == ServiceInit => ServiceIInv
<1>. SUFFICES ASSUME ServiceInit PROVE ServiceIInv
  OBVIOUS
<1>. USE ServiceAssumption DEF ServiceInit
<1>1. /\ ~HasJob(netQueue) /\ OneJob(netQueue) /\ JobsAre(netQueue, accepted)
      /\ netQueue \in Seq(Nat)
  BY DEF HasJob, OneJob, JobsAre
<1>2. /\ ~Submitting /\ \A t \in Workers : ~Working(t) /\ ~Storing(t)
      /\ ~Storing("owner")
  BY DEF Submitting, Working, Storing, Tasks, Workers, Unsettled
<1>3. ServiceTyped
  BY <1>1 DEF ServiceTyped, Tasks, Operations, States, Results, NoOperation, Operation,
     OwnerPlaces, WorkerPlaces, Free
<1>4. OneHolder /\ OwnJob
  BY <1>1, <1>2 DEF OneHolder, OwnJob, Workers
<1>5. WordsTrue
  BY <1>1, <1>2 DEF WordsTrue, SettledWords, SubmittedWords, Tasks, Unsettled
<1>6. Counter
  BY <1>2 DEF Counter, Tasks, Workers
<1>7. Reading /\ Answer /\ Reported
  BY DEF Reading, Answer, Reported, Tasks, Settled, NoOperation, Operation
<1>8. Ids
  BY DEF Ids, IdsSoFar, Counting, AboutToWrap, Tasks, NoOperation, Operation
<1>. QED BY <1>3, <1>4, <1>5, <1>6, <1>7, <1>8 DEF ServiceIInv

LEMMA SubmitCounted ==
  ASSUME NEW u \in [submits : 0 .. MaxSubmits, reads : Int, resets : Int],
         u.submits < MaxSubmits
  PROVE  LET v == [u EXCEPT !.submits = @ + 1] IN
           /\ v \in [submits : 0 .. MaxSubmits, reads : Int, resets : Int]
           /\ v.submits = u.submits + 1
BY ServiceAssumption

LEMMA ReserveKeeps == ServiceIInv /\ Reserve => ServiceIInv'
<1>. SUFFICES ASSUME ServiceIInv, Reserve PROVE ServiceIInv'
  OBVIOUS
<1>0. ServiceTyped /\ OneHolder /\ OwnJob /\ WordsTrue /\ Counter /\ Reading /\ Answer
      /\ Reported /\ Ids
  BY DEF ServiceIInv
<1>1. /\ UNCHANGED <<netQueue, opSequence, latest, step, op, before, seen, status, decided, nextId>>
      /\ pc'["net"] = pc["net"] /\ pc'["app"] = pc["app"] /\ reserved'
      /\ pc["owner"] = "idle" /\ used.submits < MaxSubmits
      /\ \/ reserved /\ accepted' = accepted /\ pc' = pc
         \/ ~reserved /\ accepted' = 0 /\ pc'["owner"] = "number"
      /\ pc' \in [Tasks -> OwnerPlaces \cup WorkerPlaces]
      /\ used' = [used EXCEPT !.submits = @ + 1]
  BY <1>0 DEF ServiceTyped, Tasks, Reserve, Goto, OwnerPlaces
<1>2. /\ used'.submits = used.submits + 1 
      /\ used' \in [submits : 0 .. MaxSubmits, reads : Int, resets : Int]
  BY <1>0, <1>1, SubmitCounted DEF ServiceTyped
<1>4a. pc'["owner"] \in OwnerPlaces
  BY <1>0, <1>1, <1>2 DEF ServiceTyped, OwnerPlaces
<1>4. ServiceTyped'
  BY <1>0, <1>1, <1>2, <1>4a DEF ServiceTyped
<1>5. /\ \A t \in Workers : (Working(t) <=> Working(t)') /\ (Storing(t) <=> Storing(t)')
      /\ Storing("owner") <=> Storing("owner")'
      /\ ~Submitting
  BY <1>1 DEF Working, Storing, Workers, Submitting
<1>6. OneHolder' /\ OwnJob'
  BY <1>0, <1>1, <1>5 DEF OneHolder, OwnJob, Submitting, Outcome, Workers, JobsAre, HasJob
<1>7. WordsTrue'
  BY <1>0, <1>1, <1>5, <1>6 DEF WordsTrue, SettledWords, SubmittedWords, Submitting, Outcome,
       Pending, Resting, Workers, OneHolder, Working
<1>8. Counter' /\ Reading' /\ Answer'
  BY <1>0, <1>1, <1>5 DEF Counter, Reading, Answer, Tasks, Workers
<1>9. Reported'
  BY <1>0, <1>1, <1>5 DEF Reported, Workers, Unsettled, Free
<1>10. IdsSoFar' \subseteq IdsSoFar \cup {0}
  BY <1>1 DEF IdsSoFar
<1>11. Counting' \/ Wrapped' \/ AboutToWrap'
  BY <1>0, <1>1, <1>2, <1>10 DEF Ids, Counting, Wrapped, AboutToWrap, ServiceTyped
<1>12. Ids'
  BY <1>0, <1>1, <1>2, <1>11 DEF Ids, ServiceTyped
<1>. QED BY <1>4, <1>6, <1>7, <1>8, <1>9, <1>12 DEF ServiceIInv

LEMMA CallCounted ==
  ASSUME NEW u \in [submits : 0 .. MaxSubmits, reads : Int, resets : Int]
  PROVE  /\ [u EXCEPT !.reads = @ + 1] \in [submits : 0 .. MaxSubmits, reads : Int, resets : Int]
         /\ [u EXCEPT !.reads = @ + 1].submits = u.submits
         /\ [u EXCEPT !.resets = @ + 1] \in [submits : 0 .. MaxSubmits, reads : Int, resets : Int]
         /\ [u EXCEPT !.resets = @ + 1].submits = u.submits
<1>. DEFINE S == 0 .. MaxSubmits
<1>1. u \in [submits : S, reads : Int, resets : Int]
  OBVIOUS
<1>. HIDE DEF S
<1>. QED BY <1>1

LEMMA IdsKept ==
  ASSUME ServiceTyped, Ids, UNCHANGED <<nextId, accepted, status>>,
         op'["owner"].id = op["owner"].id, used'.submits = used.submits,
         pc'["owner"] = "number" => pc["owner"] = "number",
         pc'["owner"] \in {"store", "port"} => pc["owner"] \in {"store", "port"}
  PROVE  Ids'
<1>1. IdsSoFar' = IdsSoFar
  BY DEF IdsSoFar
<1>. QED BY <1>1 DEF Ids, Counting, Wrapped, AboutToWrap

\* The identifier that is given out now is not 0 and was not given out before.
LEMMA NumberIsFresh ==
  ASSUME ServiceTyped, Ids, pc["owner"] = "number",
         NEW id, id = IF nextId = 0 THEN 1 ELSE nextId,
         NEW next, next = (id + 1) % IdWrap
  PROVE  /\ id \in 1 .. IdWrap - 1 /\ id # status.id /\ next \in 0 .. IdWrap - 1
         /\ \/ /\ next \in 1 .. used.submits + 1
               /\ IdsSoFar \cup {id} \subseteq (0 .. next - 1) \cup {IdWrap - 1}
            \/ next = 0 /\ IdsSoFar \cup {id} \subseteq {0, IdWrap - 1}
<1>1. /\ IdWrap \in Nat /\ nextId \in 0 .. IdWrap - 1 /\ status.id \in IdsSoFar
      /\ used.submits \in 1 .. MaxSubmits /\ MaxSubmits < IdWrap - 1 /\ status.id \in Nat
      /\ IdWrap > 2 /\ MaxSubmits \in Nat
  BY ServiceAssumption DEF Ids, IdsSoFar, Operations, ServiceTyped
<1>2. CASE Counting
  <2>1. /\ nextId \in 1 .. used.submits /\ id = nextId /\ id + 1 < IdWrap /\ id + 1 \in Nat
        /\ IdsSoFar \subseteq (0 .. nextId - 1) \cup {IdWrap - 1}
    BY <1>1, <1>2 DEF Counting
  <2>2. next = id + 1
    BY <1>1, <2>1, ModSmall
  <2>. QED BY <1>1, <2>1, <2>2
<1>3. CASE Wrapped
  <2>1. id = 1 /\ 1 + 1 = 2 /\ 2 < IdWrap
    BY <1>1, <1>3 DEF Wrapped
  <2>2. next = 2
    BY <1>1, <2>1, ModSmall
  <2>. QED BY <1>1, <1>3, <2>1, <2>2 DEF Wrapped
<1>4. CASE AboutToWrap
  <2>1. id = IdWrap - 1 /\ id + 1 = IdWrap
    BY <1>1, <1>4 DEF AboutToWrap
  <2>2. next = 0
    BY <1>1, <2>1, ModSelf
  <2>. QED BY <1>1, <1>4, <2>1, <2>2 DEF AboutToWrap
<1>. QED BY <1>2, <1>3, <1>4 DEF Ids

LEMMA NumberKeeps == ServiceIInv /\ Number => ServiceIInv'
<1>. SUFFICES ASSUME ServiceIInv, Number PROVE ServiceIInv'
  OBVIOUS
<1>0. ServiceTyped /\ OneHolder /\ OwnJob /\ WordsTrue /\ Counter /\ Reading /\ Answer
      /\ Reported /\ Ids
  BY DEF ServiceIInv
<1>. DEFINE id == IF nextId = 0 THEN 1 ELSE nextId
            next == (id + 1) % IdWrap
<1>1. /\ UNCHANGED <<netQueue, opSequence, latest, step, before, seen, status, decided, accepted,
                     used, reserved>>
      /\ pc["owner"] = "number" /\ pc' = [pc EXCEPT !["owner"] = "store"]
      /\ op' = [op EXCEPT !["owner"] = Operation(id, "PENDING", "OK")]
      /\ nextId' = next
  BY DEF Number, Goto
<1>2. /\ id \in 1 .. IdWrap - 1 /\ id # status.id /\ next \in 0 .. IdWrap - 1
      /\ \/ /\ next \in 1 .. used.submits + 1
            /\ IdsSoFar \cup {id} \subseteq (0 .. next - 1) \cup {IdWrap - 1}
         \/ next = 0 /\ IdsSoFar \cup {id} \subseteq {0, IdWrap - 1}
  BY <1>0, <1>1, NumberIsFresh
<1>. HIDE DEF id, next
<1>3. /\ pc'["owner"] = "store" /\ pc'["net"] = pc["net"] /\ pc'["app"] = pc["app"]
      /\ op'["net"] = op["net"] /\ op'["app"] = op["app"] 
      /\ op'["owner"] = Operation(id, "PENDING", "OK") /\ op'["owner"].id = id
      /\ pc' \in [Tasks -> OwnerPlaces \cup WorkerPlaces]
      /\ op' \in [Tasks -> Operations]
  BY <1>0, <1>1, <1>2, ServiceAssumption
  DEF ServiceTyped, Tasks, OwnerPlaces, Operation, Operations, States, Results
<1>4a. pc'["owner"] \in OwnerPlaces
  BY <1>0, <1>1, <1>2, <1>3 DEF ServiceTyped, OwnerPlaces
<1>4. ServiceTyped'
  BY <1>0, <1>1, <1>2, <1>3, <1>4a DEF ServiceTyped
<1>5. /\ \A t \in Workers : (Working(t) <=> Working(t)') /\ (Storing(t) <=> Storing(t)')
      /\ step["owner"] = 0 /\ ~Storing("owner") /\ ~Storing("owner")' /\ Submitting
  BY <1>0, <1>1, <1>3 DEF Working, Storing, Workers, Submitting, Counter, Tasks
<1>6. OneHolder' /\ OwnJob'
  BY <1>0, <1>1, <1>3, <1>5 DEF OneHolder, OwnJob, Submitting, Outcome, Workers
<1>7. WordsTrue'
  BY <1>0, <1>1, <1>2, <1>3, <1>5, <1>6 DEF WordsTrue, SettledWords, SubmittedWords, Submitting,
     Outcome, Pending, Resting, Workers, OneHolder, Working
<1>8. Counter' /\ Reading' /\ Answer'
  BY <1>0, <1>1, <1>3, <1>5 DEF Counter, Reading, Answer, Tasks, Workers
<1>9. Reported'
  BY <1>0, <1>1, <1>3, <1>5 DEF Reported, Workers, Unsettled, Free
<1>10. IdsSoFar' \subseteq IdsSoFar \cup {id}
  BY <1>1, <1>3 DEF IdsSoFar
<1>11. Counting' \/ Wrapped'
  BY <1>0, <1>1, <1>2, <1>3, <1>10 DEF Counting, Wrapped
<1>12. Ids'
  BY <1>0, <1>1, <1>2, <1>3, <1>11 DEF Ids, ServiceTyped
<1>. QED BY <1>4, <1>6, <1>7, <1>8, <1>9, <1>12 DEF ServiceIInv

LEMMA GetStatusKeeps == ServiceIInv /\ GetStatus => ServiceIInv'
<1>. SUFFICES ASSUME ServiceIInv, GetStatus PROVE ServiceIInv'
  OBVIOUS
<1>0. ServiceTyped /\ OneHolder /\ OwnJob /\ WordsTrue /\ Counter /\ Reading /\ Answer
      /\ Reported /\ Ids
  BY DEF ServiceIInv
<1>1. /\ UNCHANGED <<netQueue, opSequence, latest, step, op, before, seen, status, decided, accepted,
                     nextId, reserved>>
      /\ pc["owner"] = "idle" /\ pc' = [pc EXCEPT !["owner"] = "read"]
      /\ used' = [used EXCEPT !.reads = @ + 1]
  BY DEF GetStatus, Goto
<1>2. /\ used' \in [submits : 0 .. MaxSubmits, reads : Int, resets : Int]
      /\ used'.submits = used.submits
  BY <1>0, <1>1, CallCounted DEF ServiceTyped
<1>3. /\ pc'["owner"] = "read" /\ pc'["net"] = pc["net"] /\ pc'["app"] = pc["app"]
      /\ pc' \in [Tasks -> OwnerPlaces \cup WorkerPlaces]
  BY <1>0, <1>1 DEF ServiceTyped, Tasks, OwnerPlaces
<1>4a. pc'["owner"] \in OwnerPlaces
  BY <1>0, <1>1, <1>2, <1>3 DEF ServiceTyped, OwnerPlaces
<1>4. ServiceTyped'
  BY <1>0, <1>1, <1>2, <1>3, <1>4a DEF ServiceTyped
<1>5. /\ \A t \in Workers : (Working(t) <=> Working(t)') /\ (Storing(t) <=> Storing(t)')
      /\ step["owner"] = 0 /\ ~Storing("owner") /\ ~Storing("owner")' /\ ~Submitting /\ ~Submitting'
  BY <1>0, <1>1, <1>3 DEF Working, Storing, Workers, Submitting, Counter, Tasks
<1>6. OneHolder' /\ OwnJob'
  BY <1>0, <1>1, <1>3, <1>5 DEF OneHolder, OwnJob, Outcome, Workers
<1>7. WordsTrue'
  BY <1>0, <1>1, <1>3, <1>5 DEF WordsTrue, SettledWords, SubmittedWords,
     Outcome, Pending, Resting, Workers
<1>8. Counter' /\ Reading' /\ Answer'
  BY <1>0, <1>1, <1>3, <1>5 DEF Counter, Reading, Answer, Tasks, Workers
<1>9. Reported'
  BY <1>0, <1>1, <1>3, <1>5 DEF Reported, Workers, Unsettled, Free
<1>10. Ids'
  BY <1>0, <1>1, <1>2, <1>3, IdsKept
<1>. QED BY <1>4, <1>6, <1>7, <1>8, <1>9, <1>10 DEF ServiceIInv

LEMMA Parity == ASSUME NEW n \in Nat PROVE n % 2 \in {0, 1} /\ ((n + 1) % 2 = 1 <=> n % 2 = 0)
OBVIOUS

\* What a store makes of the words.
LEMMA IdStored ==
  ASSUME NEW o \in Operations, NEW p \in Operations, NEW word, word = "id",
         NEW q, q = [o EXCEPT ![word] = p[word]]
  PROVE  q = Operation(p.id, o.state, o.result) /\ q \in Operations
<1>1. /\ o = [id |-> o.id, state |-> o.state, result |-> o.result]
      /\ p = [id |-> p.id, state |-> p.state, result |-> p.result]
      /\ o.id \in Nat /\ o.state \in States /\ o.result \in Results
      /\ p.id \in Nat /\ p.state \in States /\ p.result \in Results
  BY DEF Operations
<1>2. q = [o EXCEPT !["id"] = p["id"]]
  BY Zenon
<1>3. q = [o EXCEPT !.id = p.id]
  BY <1>2
<1>. QED BY <1>1, <1>3 DEF Operation, Operations

LEMMA ResultStored ==
  ASSUME NEW o \in Operations, NEW p \in Operations, NEW word, word = "result",
         NEW q, q = [o EXCEPT ![word] = p[word]]
  PROVE  q = Operation(o.id, o.state, p.result) /\ q \in Operations
<1>1. /\ o = [id |-> o.id, state |-> o.state, result |-> o.result]
      /\ p = [id |-> p.id, state |-> p.state, result |-> p.result]
      /\ o.id \in Nat /\ o.state \in States /\ o.result \in Results
      /\ p.id \in Nat /\ p.state \in States /\ p.result \in Results
  BY DEF Operations
<1>2. q = [o EXCEPT !["result"] = p["result"]]
  BY Zenon
<1>3. q = [o EXCEPT !.result = p.result]
  BY <1>2
<1>. QED BY <1>1, <1>3 DEF Operation, Operations

LEMMA StateStored ==
  ASSUME NEW o \in Operations, NEW p \in Operations, NEW word, word = "state",
         NEW q, q = [o EXCEPT ![word] = p[word]]
  PROVE  q = Operation(o.id, p.state, o.result) /\ q \in Operations
<1>1. /\ o = [id |-> o.id, state |-> o.state, result |-> o.result]
      /\ p = [id |-> p.id, state |-> p.state, result |-> p.result]
      /\ o.id \in Nat /\ o.state \in States /\ o.result \in Results
      /\ p.id \in Nat /\ p.state \in States /\ p.result \in Results
  BY DEF Operations
<1>2. q = [o EXCEPT !["state"] = p["state"]]
  BY Zenon
<1>3. q = [o EXCEPT !.state = p.state]
  BY <1>2
<1>. QED BY <1>1, <1>3 DEF Operation, Operations

LEMMA SameOperation ==
  ASSUME NEW o \in Operations, NEW p \in Operations,
         o.id = p.id, o.state = p.state, o.result = p.result
  PROVE  o = p
BY DEF Operations

LEMMA FieldsOf ==
  ASSUME NEW i, NEW s, NEW r
  PROVE  LET o == Operation(i, s, r) IN o.id = i /\ o.state = s /\ o.result = r
BY DEF Operation

\* A step of a store, by the place it has reached.
LEMMA StoreStepIs ==
  ASSUME ServiceTyped, NEW t \in Tasks, StoreStep(t)
  PROVE  /\ UNCHANGED <<reserved, nextId, netQueue, op, before, seen, accepted, status, decided, used>>
         /\ pc[t] = "store" /\ \A u \in Tasks \ {t} : step'[u] = step[u] /\ pc'[u] = pc[u]
         /\ latest' \in Operations /\ opSequence' \in Nat
         /\ pc' \in [Tasks -> OwnerPlaces \cup WorkerPlaces] /\ step' \in [Tasks -> 0 .. 4]
         /\ \/ step[t] = 0 /\ step'[t] = 1 /\ pc'[t] = "store"
               /\ opSequence' = opSequence + 1 /\ latest' = latest
            \/ step[t] = 1 /\ step'[t] = 2 /\ pc'[t] = "store" /\ opSequence' = opSequence
               /\ latest' = Operation(op[t].id, latest.state, latest.result)
            \/ step[t] = 2 /\ step'[t] = 3 /\ pc'[t] = "store" /\ opSequence' = opSequence
               /\ latest' = Operation(latest.id, latest.state, op[t].result)
            \/ step[t] = 3 /\ step'[t] = 4 /\ pc'[t] = "store" /\ opSequence' = opSequence
               /\ latest' = Operation(latest.id, op[t].state, latest.result)
            \/ step[t] = 4 /\ step'[t] = 0 /\ pc'[t] = AfterStore(t)
               /\ opSequence' = opSequence + 1 /\ latest' = latest
<1>. DEFINE o == op[t]
            word == StoreOrder[step[t]]
<1>1. /\ UNCHANGED <<reserved, nextId, netQueue, op, before, seen, accepted, status, decided, used>>
      /\ pc[t] = "store" /\ AfterStore(t) \in OwnerPlaces \cup WorkerPlaces
      /\ step \in [Tasks -> 0 .. 4] /\ pc \in [Tasks -> OwnerPlaces \cup WorkerPlaces]
      /\ latest \in Operations /\ o \in Operations /\ opSequence \in Nat
      /\ step' = [step EXCEPT ![t] = (step[t] + 1) % 5]
      /\ IF step[t] = 4 THEN pc' = [pc EXCEPT ![t] = AfterStore(t)] ELSE pc' = pc
  BY DEF ServiceTyped, StoreStep, AfterStore, OwnerPlaces, WorkerPlaces, Goto
<1>2. /\ step[t] \in 0 .. 4 /\ (0 + 1) % 5 = 1 /\ (1 + 1) % 5 = 2 /\ (2 + 1) % 5 = 3
      /\ (3 + 1) % 5 = 4 /\ (4 + 1) % 5 = 0
  BY <1>1
<1>3. /\ step' \in [Tasks -> 0 .. 4] /\ step'[t] = (step[t] + 1) % 5
      /\ pc' \in [Tasks -> OwnerPlaces \cup WorkerPlaces]
      /\ pc'[t] = IF step[t] = 4 THEN AfterStore(t) ELSE "store"
      /\ \A u \in Tasks \ {t} : step'[u] = step[u] /\ pc'[u] = pc[u]
  BY <1>1, <1>2
<1>4. IF step[t] \in {0, 4} THEN opSequence' = opSequence + 1 /\ latest' = latest
      ELSE /\ latest' = [latest EXCEPT ![word] = o[word]]
           /\ opSequence' = opSequence
  BY DEF StoreStep
<1>5. StoreOrder[1] = "id" /\ StoreOrder[2] = "result" /\ StoreOrder[3] = "state"
  BY DEF StoreOrder
<1>. HIDE DEF o
<1>6. CASE step[t] = 0
  BY <1>1, <1>2, <1>3, <1>4, <1>6
<1>7. CASE step[t] = 1
  <2>1. word = "id" /\ latest' = [latest EXCEPT ![word] = o[word]]
    BY <1>4, <1>5, <1>7 DEF word
  <2>. HIDE DEF word
  <2>2. latest \in Operations /\ o \in Operations
    BY <1>1
  <2>3. latest' = Operation(o.id, latest.state, latest.result) /\ latest' \in Operations
    BY <2>1, <2>2, IdStored, Zenon
  <2>. QED BY <1>1, <1>2, <1>3, <1>4, <1>7, <2>3 DEF o
<1>8. CASE step[t] = 2
  <2>1. word = "result" /\ latest' = [latest EXCEPT ![word] = o[word]]
    BY <1>4, <1>5, <1>8 DEF word
  <2>. HIDE DEF word
  <2>2. latest \in Operations /\ o \in Operations /\ word \in {"id", "state", "result"}
    BY <1>1, <2>1
  <2>3. latest' = Operation(latest.id, latest.state, o.result) /\ latest' \in Operations
    BY <2>1, <2>2, ResultStored, Zenon
  <2>. QED BY <1>1, <1>2, <1>3, <1>4, <1>8, <2>3 DEF o
<1>9. CASE step[t] = 3
  <2>1. word = "state" /\ latest' = [latest EXCEPT ![word] = o[word]]
    BY <1>4, <1>5, <1>9 DEF word
  <2>. HIDE DEF word
  <2>2. latest \in Operations /\ o \in Operations
    BY <1>1
  <2>3. latest' = Operation(latest.id, o.state, latest.result) /\ latest' \in Operations
    BY <2>1, <2>2, StateStored, Zenon
  <2>. QED BY <1>1, <1>2, <1>3, <1>4, <1>9, <2>3 DEF o
<1>10. CASE step[t] = 4
  BY <1>1, <1>2, <1>3, <1>4, <1>10
<1>. QED BY <1>2, <1>6, <1>7, <1>8, <1>9, <1>10

LEMMA OwnerStoreKeeps == ServiceIInv /\ StoreStep("owner") => ServiceIInv'
<1>. SUFFICES ASSUME ServiceIInv, StoreStep("owner") PROVE ServiceIInv'
  OBVIOUS
<1>0. ServiceTyped /\ OneHolder /\ OwnJob /\ WordsTrue /\ Counter /\ Reading /\ Answer
      /\ Reported /\ Ids
  BY DEF ServiceIInv
<1>. DEFINE o == op["owner"]
            n == step["owner"]
<1>1. /\ UNCHANGED <<reserved, nextId, netQueue, op, before, seen, accepted, status, decided, used>>
      /\ pc["owner"] = "store" /\ latest' \in Operations /\ opSequence' \in Nat
      /\ pc' \in [Tasks -> OwnerPlaces \cup WorkerPlaces] /\ step' \in [Tasks -> 0 .. 4]
      /\ pc'["net"] = pc["net"] /\ pc'["app"] = pc["app"]
      /\ step'["net"] = step["net"] /\ step'["app"] = step["app"]
      /\ \/ n = 0 /\ step'["owner"] = 1 /\ pc'["owner"] = "store"
            /\ opSequence' = opSequence + 1 /\ latest' = latest
         \/ n = 1 /\ step'["owner"] = 2 /\ pc'["owner"] = "store" /\ opSequence' = opSequence
            /\ latest' = Operation(o.id, latest.state, latest.result)
         \/ n = 2 /\ step'["owner"] = 3 /\ pc'["owner"] = "store" /\ opSequence' = opSequence
            /\ latest' = Operation(latest.id, latest.state, o.result)
         \/ n = 3 /\ step'["owner"] = 4 /\ pc'["owner"] = "store" /\ opSequence' = opSequence
            /\ latest' = Operation(latest.id, o.state, latest.result)
         \/ n = 4 /\ step'["owner"] = 0 /\ pc'["owner"] = AfterStore("owner")
            /\ opSequence' = opSequence + 1 /\ latest' = latest
  BY <1>0, StoreStepIs DEF Tasks
<1>2. /\ AfterStore("owner") = IF o.state = "PENDING" THEN "port" ELSE "release"
      /\ o \in Operations /\ latest \in Operations
  BY <1>0 DEF AfterStore, Workers, ServiceTyped, Tasks
<1>3. /\ Submitting /\ Submitting' /\ ~HasJob(netQueue) /\ ~Working("net") /\ ~Working("app")
      /\ ~Working("net")' /\ ~Working("app")' /\ ~Storing("net") /\ ~Storing("app")
      /\ ~Storing("net")' /\ ~Storing("app")' /\ accepted = 0
      /\ Storing("owner") <=> n > 0
      /\ Storing("owner")' <=> n < 4
      /\ pc'["owner"] \in {"store", "port", "release"}
  BY <1>0, <1>1, <1>2 DEF Submitting, Working, Storing, OneHolder, OwnJob, ServiceTyped, Tasks
<1>4a. pc'["owner"] \in OwnerPlaces
  BY <1>0, <1>1, <1>3 DEF ServiceTyped, OwnerPlaces
<1>4. ServiceTyped'
  BY <1>0, <1>1, <1>3, <1>4a DEF ServiceTyped
<1>5. OneHolder' /\ OwnJob'
  BY <1>0, <1>1, <1>3 DEF OneHolder, OwnJob, Workers
<1>6. SubmittedWords'
  <2>1. /\ o = NoOperation \/ (o.id # 0 /\ o = Operation(o.id, "PENDING", "OK"))
        /\ n \in 2 .. 4 => latest.id = o.id
        /\ n \in 3 .. 4 => latest.result = o.result
        /\ n = 4 => latest.state = o.state
    BY <1>0, <1>1 DEF WordsTrue, SubmittedWords
  <2>2. n = 4 => latest = o
    BY <1>2, <2>1, SameOperation
  <2>3. NoOperation.state # "PENDING" /\ (o = Operation(o.id, "PENDING", "OK") => o.state = "PENDING")
    BY <1>2 DEF NoOperation, Operation
  <2>4. op'["owner"] = o
    BY <1>1
  <2>5. CASE n < 4
    <3>1. pc'["owner"] = "store" /\ step'["owner"] = n + 1
      BY <1>1, <2>5
    <3>2. /\ n >= 1 => latest'.id = o.id
          /\ n >= 2 => latest'.result = o.result
          /\ n >= 3 => latest'.state = o.state
      BY <1>1, <2>1, <2>5, FieldsOf
    <3>. HIDE DEF o, n
    <3>3. n \in 0 .. 4 
      BY <1>0 DEF ServiceTyped, Tasks, n
    <3>. QED BY <2>1, <2>4, <3>1, <3>2, <3>3 DEF SubmittedWords
  <2>6. CASE n = 4
    <3>. HIDE DEF o, n
    <3>. QED BY <1>1, <1>2, <2>1, <2>2, <2>3, <2>4, <2>6 DEF SubmittedWords
  <2>. QED BY <1>0, <2>5, <2>6 DEF ServiceTyped, Tasks
<1>7. WordsTrue'
  BY <1>1, <1>3, <1>6 DEF WordsTrue, SettledWords, Resting, Working
<1>8. Counter'
  <2>0. \A t \in Tasks : pc'[t] \notin {"store", "read"} => step'[t] = 0
    BY <1>0, <1>1 DEF Counter, Tasks
  <2>1. /\ opSequence \in Nat /\ n \in 0 .. 4 /\ opSequence % 2 \in {0, 1}
        /\ (opSequence + 1) % 2 = 1 <=> opSequence % 2 = 0
        /\ opSequence % 2 = 1 <=> n > 0
    BY <1>0, <1>3, Parity DEF Counter, Tasks, ServiceTyped
  <2>2. \/ n \in {0, 4} /\ opSequence' = opSequence + 1
        \/ n \in 1 .. 3 /\ opSequence' = opSequence
    BY <1>1
  <2>. HIDE DEF n
  <2>3. opSequence' % 2 = 1 <=> n < 4
    BY <2>1, <2>2
  <2>. QED BY <1>3, <2>0, <2>3 DEF Counter
<1>9. Reading' /\ Answer' /\ Reported'
  BY <1>0, <1>1, <1>3 DEF Reading, Answer, Reported
<1>10. Ids'
  BY <1>0, <1>1, <1>3, IdsKept
<1>. QED BY <1>4, <1>5, <1>7, <1>8, <1>9, <1>10 DEF ServiceIInv

LEMMA JobAppended ==
  ASSUME NEW q \in Seq(Nat), ~HasJob(q), NEW i \in Nat, i # 0
  PROVE  /\ Append(q, i) \in Seq(Nat) /\ HasJob(Append(q, i))
         /\ OneJob(Append(q, i)) /\ JobsAre(Append(q, i), i)
<1>. DEFINE r == Append(q, i)
            n == Len(q) + 1
<1>1. /\ r \in Seq(Nat) /\ DOMAIN q = 1 .. Len(q) /\ DOMAIN r = 1 .. n /\ Len(q) \in Nat
      /\ \A k \in 1 .. Len(q) : r[k] = q[k]
      /\ r[n] = i
  BY AppendShape
<1>. HIDE DEF r
<1>2. \A k \in DOMAIN r : k # n => r[k] = 0
  BY <1>1 DEF HasJob
<1>3. n \in DOMAIN r /\ r[n] = i
  BY <1>1
<1>. HIDE DEF n
<1>. QED BY <1>1, <1>2, <1>3 DEF HasJob, OneJob, JobsAre, r

LEMMA CommandAppended ==
  ASSUME NEW q \in Seq(Nat)
  PROVE  /\ Append(q, 0) \in Seq(Nat) /\ HasJob(Append(q, 0)) <=> HasJob(q)
         /\ OneJob(q) => OneJob(Append(q, 0))
         /\ \A i : JobsAre(q, i) => JobsAre(Append(q, 0), i)
<1>. DEFINE r == Append(q, 0)
<1>1. /\ r \in Seq(Nat) /\ DOMAIN q = 1 .. Len(q) /\ DOMAIN r = 1 .. Len(q) + 1 /\ Len(q) \in Nat
      /\ \A i \in 1 .. Len(q) : r[i] = q[i]
      /\ r[Len(q) + 1] = 0
  BY AppendShape
<1>. HIDE DEF r
<1>2. \A i \in DOMAIN r : r[i] # 0 => i \in DOMAIN q /\ r[i] = q[i]
  BY <1>1
<1>3. \A i \in DOMAIN q : i \in DOMAIN r /\ r[i] = q[i]
  BY <1>1
<1>. QED BY <1>1, <1>2, <1>3 DEF HasJob, OneJob, JobsAre, r

LEMMA CommandTaken ==
  ASSUME NEW q \in Seq(Nat), q # <<>>, OneJob(q), NEW i, JobsAre(q, i)
  PROVE  /\ Tail(q) \in Seq(Nat) /\ Head(q) \in Nat /\ OneJob(Tail(q)) /\ JobsAre(Tail(q), i)
         /\ Head(q) = 0 => (HasJob(Tail(q)) <=> HasJob(q))
         /\ Head(q) # 0 => HasJob(q) /\ ~HasJob(Tail(q)) /\ Head(q) = i
<1>. DEFINE r == Tail(q)
            n == Len(q)
<1>1. /\ r \in Seq(Nat) /\ Head(q) \in Nat /\ DOMAIN q = 1 .. n /\ DOMAIN r = 1 .. n - 1
      /\ n \in Nat \ {0} /\ Head(q) = q[1]
      /\ \A k \in 1 .. n - 1 : r[k] = q[k + 1]
  BY TailShape
<1>. HIDE DEF r, n
<1>2. \A k \in DOMAIN r : k \in 1 .. n - 1 /\ k + 1 \in DOMAIN q /\ k + 1 # 1 /\ r[k] = q[k + 1]
  BY <1>1
<1>3. \A k \in DOMAIN q : k # 1 => k - 1 \in DOMAIN r /\ r[k - 1] = q[k]
  BY <1>1
<1>4. 1 \in DOMAIN q
  BY <1>1
<1>5. OneJob(r) /\ JobsAre(r, i)
  BY <1>2 DEF OneJob, JobsAre
<1>6. Head(q) = 0 => (HasJob(r) <=> HasJob(q))
  BY <1>1, <1>2, <1>3 DEF HasJob
<1>7. Head(q) # 0 => HasJob(q) /\ ~HasJob(r) /\ Head(q) = i
  BY <1>1, <1>2, <1>4 DEF HasJob, OneJob, JobsAre
<1>. QED BY <1>1, <1>5, <1>6, <1>7 DEF r

LEMMA PortKeeps == ServiceIInv /\ Port => ServiceIInv'
<1>. SUFFICES ASSUME ServiceIInv, Port PROVE ServiceIInv'
  OBVIOUS
<1>0. ServiceTyped /\ OneHolder /\ OwnJob /\ WordsTrue /\ Counter /\ Reading /\ Answer
      /\ Reported /\ Ids
  BY DEF ServiceIInv
<1>. DEFINE o == op["owner"]
<1>1. /\ UNCHANGED <<reserved, nextId, opSequence, latest, step, before, seen, status, decided, used>>
      /\ pc["owner"] = "port" /\ Submitting /\ ~HasJob(netQueue) /\ ~Working("net") /\ ~Working("app")
      /\ latest = o /\ o.id # 0 /\ o = Operation(o.id, "PENDING", "OK") /\ o.id # status.id
      /\ o.id \in Nat /\ accepted = 0 /\ step["owner"] = 0 /\ reserved
      /\ netQueue \in Seq(Nat)
  BY <1>0, FieldsOf DEF Port, Submitting, OneHolder, OwnJob, WordsTrue, SubmittedWords, Ids, NoOperation,
     Operations, Counter, Tasks, ServiceTyped
<1>2. CASE /\ netQueue' = Append(netQueue, o.id) /\ accepted' = o.id
           /\ Goto("owner", "idle") /\ UNCHANGED op
  <2>1. /\ pc'["owner"] = "idle" /\ pc'["net"] = pc["net"] /\ pc'["app"] = pc["app"]
        /\ pc' \in [Tasks -> OwnerPlaces \cup WorkerPlaces]
    BY <1>0, <1>2 DEF ServiceTyped, Tasks, OwnerPlaces, Goto
  <2>2. /\ netQueue' \in Seq(Nat) /\ HasJob(netQueue')
        /\ OneJob(netQueue') /\ JobsAre(netQueue', o.id)
    BY <1>1, <1>2, JobAppended
  <2>. HIDE DEF o
  <2>3a. pc'["owner"] \in OwnerPlaces
    BY <1>0, <1>1, <1>2, <2>1, <2>2 DEF ServiceTyped, OwnerPlaces
  <2>3. ServiceTyped'
    BY <1>0, <1>1, <1>2, <2>1, <2>2, <2>3a DEF ServiceTyped
  <2>4. /\ ~Submitting' /\ \A t \in Workers : ~Working(t) /\ ~Working(t)' /\ ~Storing(t) /\ ~Storing(t)'
        /\ ~Storing("owner") /\ ~Storing("owner")'
    BY <1>0, <1>1, <2>1 DEF Submitting, Working, Storing, Workers, OneHolder
  <2>5. OneHolder' /\ OwnJob'
    BY <1>0, <1>1, <1>2, <2>2, <2>4 DEF OneHolder, OwnJob, Workers
  <2>6. WordsTrue'
    BY <1>0, <1>1, <1>2, <2>1, <2>2, <2>4 DEF WordsTrue, SettledWords, SubmittedWords, Working, Resting,
       Pending, Workers
  <2>7. Counter' /\ Reading' /\ Answer' /\ Reported'
    BY <1>0, <1>1, <1>2, <2>1, <2>4 DEF Counter, Reading, Answer, Reported, Tasks, Workers
  <2>8. IdsSoFar' \subseteq IdsSoFar
    BY <1>1, <1>2 DEF IdsSoFar, o
  <2>9. Ids'
    BY <1>0, <1>1, <2>1, <2>8 DEF Ids, Counting, Wrapped, AboutToWrap
  <2>. QED BY <2>3, <2>5, <2>6, <2>7, <2>9 DEF ServiceIInv
<1>3. CASE /\ op' = [op EXCEPT !["owner"] = NoOperation]
           /\ Goto("owner", "store") /\ UNCHANGED <<netQueue, accepted>>
  <2>1. /\ pc'["owner"] = "store" /\ pc'["net"] = pc["net"] /\ pc'["app"] = pc["app"]
        /\ pc' \in [Tasks -> OwnerPlaces \cup WorkerPlaces]
        /\ op'["owner"] = NoOperation /\ op'["net"] = op["net"] /\ op'["app"] = op["app"]
        /\ op' \in [Tasks -> Operations] /\ NoOperation.id = 0
    BY <1>0, <1>3 DEF ServiceTyped, Tasks, OwnerPlaces, Goto, NoOperation, Operation, Operations,
       States, Results
  <2>. HIDE DEF o
  <2>2a. pc'["owner"] \in OwnerPlaces
    BY <1>0, <1>1, <1>3, <2>1 DEF ServiceTyped, OwnerPlaces
  <2>2. ServiceTyped'
    BY <1>0, <1>1, <1>3, <2>1, <2>2a DEF ServiceTyped
  <2>3. /\ Submitting' /\ \A t \in Workers : ~Working(t) /\ ~Working(t)' /\ ~Storing(t) /\ ~Storing(t)'
        /\ ~Storing("owner") /\ ~Storing("owner")'
    BY <1>0, <1>1, <2>1 DEF Submitting, Working, Storing, Workers, OneHolder
  <2>4. OneHolder' /\ OwnJob'
    BY <1>0, <1>1, <1>3, <2>3 DEF OneHolder, OwnJob, Workers
  <2>5. WordsTrue'
    BY <1>0, <1>1, <1>3, <2>1, <2>3 DEF WordsTrue, SettledWords, SubmittedWords, Working, Resting,
       Pending, Workers
  <2>6. Counter' /\ Reading' /\ Answer' /\ Reported'
    BY <1>0, <1>1, <1>3, <2>1, <2>3 DEF Counter, Reading, Answer, Reported, Tasks, Workers
  <2>7. IdsSoFar' \subseteq IdsSoFar \cup {0}
    BY <1>1, <1>3, <2>1 DEF IdsSoFar
  <2>8. Counting' \/ Wrapped' \/ AboutToWrap'
    BY <1>0, <1>1, <2>1, <2>7 DEF Ids, Counting, Wrapped, AboutToWrap, ServiceTyped
  <2>9. Ids'
    BY <1>1, <2>1, <2>8 DEF Ids
  <2>. QED BY <2>2, <2>4, <2>5, <2>6, <2>9 DEF ServiceIInv
<1>. QED BY <1>2, <1>3 DEF Port

LEMMA OwnerReleaseKeeps == ServiceIInv /\ Release("owner") => ServiceIInv'
<1>. SUFFICES ASSUME ServiceIInv, Release("owner") PROVE ServiceIInv'
  OBVIOUS
<1>0. ServiceTyped /\ OneHolder /\ OwnJob /\ WordsTrue /\ Counter /\ Reading /\ Answer
      /\ Reported /\ Ids
  BY DEF ServiceIInv
<1>1. /\ UNCHANGED <<nextId, opSequence, latest, netQueue, step, op, before, seen, accepted, status,
                     decided, used>>
      /\ pc["owner"] = "release" /\ pc' = [pc EXCEPT !["owner"] = "idle"] /\ Submitting
      /\ ~HasJob(netQueue) /\ ~Working("net") /\ ~Working("app") /\ accepted = 0
      /\ latest = NoOperation
  BY <1>0 DEF Release, Goto, Submitting, OneHolder, OwnJob, WordsTrue, SubmittedWords
<1>2. /\ pc'["owner"] = "idle" /\ pc'["net"] = pc["net"] /\ pc'["app"] = pc["app"]
      /\ pc' \in [Tasks -> OwnerPlaces \cup WorkerPlaces]
  BY <1>0, <1>1 DEF ServiceTyped, Tasks, OwnerPlaces
<1>3a. pc'["owner"] \in OwnerPlaces
  BY <1>0, <1>1, <1>2 DEF ServiceTyped, OwnerPlaces
<1>3. ServiceTyped'
  BY <1>0, <1>1, <1>2, <1>3a DEF ServiceTyped
<1>4. /\ ~Submitting' /\ \A t \in Workers : ~Working(t) /\ ~Working(t)' /\ ~Storing(t) /\ ~Storing(t)'
      /\ ~Storing("owner") /\ ~Storing("owner")' /\ step["owner"] = 0
  BY <1>0, <1>1, <1>2 DEF Submitting, Working, Storing, Workers, Counter, Tasks
<1>5. OneHolder' /\ OwnJob'
  BY <1>0, <1>1, <1>4 DEF OneHolder, OwnJob, Workers
<1>6. WordsTrue'
  BY <1>0, <1>1, <1>2, <1>4 DEF WordsTrue, SettledWords, SubmittedWords, Working, Resting, Workers
<1>7. Counter' /\ Reading' /\ Answer' /\ Reported'
  BY <1>0, <1>1, <1>2, <1>4 DEF Counter, Reading, Answer, Reported, Tasks, Workers
<1>8. Ids'
  BY <1>0, <1>1, <1>2, IdsKept
<1>. QED BY <1>3, <1>5, <1>6, <1>7, <1>8 DEF ServiceIInv

\* A step of a read, by the place it has reached.
LEMMA ReadStepIs ==
  ASSUME ServiceTyped, NEW t \in Tasks, ReadStep(t)
  PROVE  /\ UNCHANGED <<reserved, nextId, opSequence, latest, netQueue, op, accepted, status, decided,
                        used>>
         /\ pc[t] = "read" /\ pc'[t] \in {"read", "readDone", "readFailed"}
         /\ \A u \in Tasks \ {t} : /\ step'[u] = step[u] /\ pc'[u] = pc[u] /\ before'[u] = before[u]
                                   /\ seen'[u] = seen[u]
         /\ pc' \in [Tasks -> OwnerPlaces \cup WorkerPlaces] /\ step' \in [Tasks -> 0 .. 4]
         /\ before' \in [Tasks -> Nat] /\ seen' \in [Tasks -> Operations]
         /\ \/ step'[t] = 0 /\ pc'[t] # "readDone"
            \/ step[t] = 0 /\ step'[t] = 1 /\ pc'[t] = "read" /\ opSequence % 2 = 0
               /\ before'[t] = opSequence
            \/ step[t] = 1 /\ step'[t] = 2 /\ pc'[t] = "read" /\ before'[t] = before[t]
               /\ seen'[t] = Operation(latest.id, seen[t].state, seen[t].result)
            \/ step[t] = 2 /\ step'[t] = 3 /\ pc'[t] = "read" /\ before'[t] = before[t]
               /\ seen'[t] = Operation(seen[t].id, latest.state, seen[t].result)
            \/ step[t] = 3 /\ step'[t] = 4 /\ pc'[t] = "read" /\ before'[t] = before[t]
               /\ seen'[t] = Operation(seen[t].id, seen[t].state, latest.result)
            \/ step[t] = 4 /\ step'[t] = 0 /\ pc'[t] = "readDone" /\ seen'[t] = seen[t]
               /\ before[t] = opSequence
<1>1. /\ UNCHANGED <<reserved, nextId, opSequence, latest, netQueue, op, accepted, status, decided,
                     used>>
      /\ pc[t] = "read" /\ t \in Tasks
      /\ before' = [before EXCEPT ![t] = IF step[t] = 0 THEN opSequence ELSE before[t]]
  BY DEF ReadStep
<1>2. /\ step \in [Tasks -> 0 .. 4] /\ pc \in [Tasks -> OwnerPlaces \cup WorkerPlaces]
      /\ latest \in Operations /\ seen \in [Tasks -> Operations] /\ opSequence \in Nat
      /\ before \in [Tasks -> Nat]
      /\ {"read", "readDone", "readFailed"} \subseteq OwnerPlaces \cup WorkerPlaces
  BY DEF ServiceTyped, OwnerPlaces
<1>3. /\ before' \in [Tasks -> Nat] /\ \A u \in Tasks \ {t} : before'[u] = before[u]
      /\ before'[t] = IF step[t] = 0 THEN opSequence ELSE before[t]
  BY <1>1, <1>2
<1>4. CASE Retry(t) /\ UNCHANGED seen
  BY <1>1, <1>2, <1>3, <1>4 DEF Retry, Goto
<1>5. CASE /\ step[t] = 0 /\ opSequence % 2 = 0 /\ step' = [step EXCEPT ![t] = 1]
           /\ UNCHANGED <<seen, pc>>
  BY <1>1, <1>2, <1>3, <1>5
<1>6. CASE /\ step[t] = 4 /\ Unmoved(t) /\ step' = [step EXCEPT ![t] = 0]
           /\ Goto(t, "readDone") /\ UNCHANGED seen
  BY <1>1, <1>2, <1>3, <1>6 DEF Goto, Unmoved
<1>7. ASSUME step[t] \in 1 .. 3, NEW word, word = ReadOrder[step[t]],
             seen' = [seen EXCEPT ![t][word] = latest[word]],
             step' = [step EXCEPT ![t] = step[t] + 1], UNCHANGED pc
      PROVE  /\ step'[t] = step[t] + 1 /\ step' \in [Tasks -> 0 .. 4] /\ pc'[t] = "read"
             /\ seen' \in [Tasks -> Operations] /\ before'[t] = before[t]
             /\ \A u \in Tasks \ {t} : /\ step'[u] = step[u] /\ pc'[u] = pc[u]
                                       /\ seen'[u] = seen[u]
             /\ step[t] = 1 => seen'[t] = Operation(latest.id, seen[t].state, seen[t].result)
             /\ step[t] = 2 => seen'[t] = Operation(seen[t].id, latest.state, seen[t].result)
             /\ step[t] = 3 => seen'[t] = Operation(seen[t].id, seen[t].state, latest.result)
  <2>1. /\ step'[t] = step[t] + 1 /\ step' \in [Tasks -> 0 .. 4] /\ pc'[t] = "read"
        /\ before'[t] = before[t]
        /\ \A u \in Tasks \ {t} : step'[u] = step[u] /\ pc'[u] = pc[u]
    BY <1>1, <1>2, <1>3, <1>7
  <2>. DEFINE s == seen[t]
              q == [s EXCEPT ![word] = latest[word]]
  <2>2. seen' = [seen EXCEPT ![t] = q]
    BY <1>7
  <2>3. s \in Operations /\ latest \in Operations
    BY <1>1, <1>2
  <2>4. /\ step[t] = 1 => word = "id"
        /\ step[t] = 2 => word = "state"
        /\ step[t] = 3 => word = "result"
    BY <1>7 DEF ReadOrder
  <2>. HIDE DEF s
  <2>5. step[t] = 1 => q = Operation(latest.id, s.state, s.result) /\ q \in Operations
    BY <2>3, <2>4, IdStored, Zenon
  <2>6. step[t] = 2 => q = Operation(s.id, latest.state, s.result) /\ q \in Operations
    BY <2>3, <2>4, StateStored, Zenon
  <2>7. step[t] = 3 => q = Operation(s.id, s.state, latest.result) /\ q \in Operations
    BY <2>3, <2>4, ResultStored, Zenon
  <2>. HIDE DEF q
  <2>8. q \in Operations
    BY <1>7, <2>5, <2>6, <2>7
  <2>9. /\ seen' \in [Tasks -> Operations] /\ seen'[t] = q
        /\ \A u \in Tasks \ {t} : seen'[u] = seen[u]
    BY <1>1, <1>2, <2>2, <2>8
  <2>. QED BY <2>1, <2>5, <2>6, <2>7, <2>9 DEF s
<1>8. CASE /\ step[t] \in 1 .. 3
           /\ LET word == ReadOrder[step[t]]
              IN seen' = [seen EXCEPT ![t][word] = latest[word]]
           /\ step' = [step EXCEPT ![t] = step[t] + 1] /\ UNCHANGED pc
  <2>1. /\ step'[t] = step[t] + 1 /\ step' \in [Tasks -> 0 .. 4] /\ pc'[t] = "read"
        /\ seen' \in [Tasks -> Operations] /\ before'[t] = before[t]
        /\ \A u \in Tasks \ {t} : /\ step'[u] = step[u] /\ pc'[u] = pc[u]
                                  /\ seen'[u] = seen[u]
        /\ step[t] = 1 => seen'[t] = Operation(latest.id, seen[t].state, seen[t].result)
        /\ step[t] = 2 => seen'[t] = Operation(seen[t].id, latest.state, seen[t].result)
        /\ step[t] = 3 => seen'[t] = Operation(seen[t].id, seen[t].state, latest.result)
    BY <1>7, <1>8
  <2>. QED BY <1>1, <1>2, <1>3, <1>8, <2>1
<1>. QED BY <1>4, <1>5, <1>6, <1>8 DEF ReadStep

\* What the words say while no task stores and no update is being submitted.
LEMMA WordsAre ==
  ASSUME ServiceTyped, OneHolder, OwnJob, WordsTrue, ~Submitting, ~Storing("net"), ~Storing("app")
  PROVE  \/ latest = Pending /\ accepted # 0
         \/ latest = NoOperation /\ accepted = 0
         \/ /\ latest = Outcome /\ accepted # 0 /\ decided.id = accepted /\ ~HasJob(netQueue)
            /\ \A t \in Workers : pc[t] \notin Unsettled \cup {"store"}
<1>1. CASE HasJob(netQueue)
  BY <1>1 DEF WordsTrue, OwnJob
<1>2. ASSUME NEW t \in Workers, Working(t)
      PROVE  \/ latest = Pending /\ accepted # 0
             \/ /\ latest = Outcome /\ accepted # 0 /\ decided.id = accepted /\ ~HasJob(netQueue)
                /\ \A u \in Workers : pc[u] \notin Unsettled \cup {"store"}
  <2>1. /\ accepted # 0 /\ op[t] = Outcome /\ decided.id = accepted /\ ~HasJob(netQueue)
        /\ SettledWords(t) /\ \A u \in Workers \ {t} : ~Working(u)
    BY <1>2 DEF OneHolder, OwnJob, WordsTrue, Workers
  <2>2. CASE pc[t] \in Unsettled
    BY <2>1, <2>2 DEF SettledWords
  <2>3. CASE pc[t] = "store"
    <3>1. step[t] = 0
      BY <1>2, <2>3 DEF Storing, Workers, ServiceTyped, Tasks
    <3>. QED BY <2>1, <2>3, <3>1 DEF SettledWords, Pending
  <2>4. CASE pc[t] \in {"stored", "release"}
    BY <2>1, <2>4 DEF SettledWords, Working, Unsettled
  <2>. QED BY <1>2, <2>2, <2>3, <2>4 DEF Working
<1>3. CASE Resting
  <2>1. \A t \in Workers : pc[t] \notin Unsettled \cup {"store"}
    BY <1>3 DEF Resting, Working, Workers
  <2>. QED BY <1>3, <2>1 DEF Resting, WordsTrue
<1>. QED BY <1>1, <1>2, <1>3 DEF Resting, Workers

LEMMA OwnerReadKeeps == ServiceIInv /\ ReadStep("owner") => ServiceIInv'
<1>. SUFFICES ASSUME ServiceIInv, ReadStep("owner") PROVE ServiceIInv'
  OBVIOUS
<1>0. ServiceTyped /\ OneHolder /\ OwnJob /\ WordsTrue /\ Counter /\ Reading /\ Answer
      /\ Reported /\ Ids
  BY DEF ServiceIInv
<1>. DEFINE n == step["owner"]
            s == seen["owner"]
<1>1. /\ UNCHANGED <<reserved, nextId, opSequence, latest, netQueue, op, accepted, status, decided,
                     used>>
      /\ pc["owner"] = "read" /\ pc'["owner"] \in {"read", "readDone", "readFailed"}
      /\ step'["net"] = step["net"] /\ step'["app"] = step["app"]
      /\ pc'["net"] = pc["net"] /\ pc'["app"] = pc["app"]
      /\ pc' \in [Tasks -> OwnerPlaces \cup WorkerPlaces] /\ step' \in [Tasks -> 0 .. 4]
      /\ before' \in [Tasks -> Nat] /\ seen' \in [Tasks -> Operations]
      /\ \/ step'["owner"] = 0 /\ pc'["owner"] # "readDone"
         \/ n = 0 /\ step'["owner"] = 1 /\ pc'["owner"] = "read" /\ opSequence % 2 = 0
            /\ before'["owner"] = opSequence
         \/ n = 1 /\ step'["owner"] = 2 /\ pc'["owner"] = "read" /\ before'["owner"] = before["owner"]
            /\ seen'["owner"] = Operation(latest.id, s.state, s.result)
         \/ n = 2 /\ step'["owner"] = 3 /\ pc'["owner"] = "read" /\ before'["owner"] = before["owner"]
            /\ seen'["owner"] = Operation(s.id, latest.state, s.result)
         \/ n = 3 /\ step'["owner"] = 4 /\ pc'["owner"] = "read" /\ before'["owner"] = before["owner"]
            /\ seen'["owner"] = Operation(s.id, s.state, latest.result)
         \/ n = 4 /\ step'["owner"] = 0 /\ pc'["owner"] = "readDone" /\ seen'["owner"] = s
            /\ before["owner"] = opSequence
  BY <1>0, ReadStepIs DEF Tasks
<1>2a. pc'["owner"] \in OwnerPlaces
  BY <1>0, <1>1 DEF ServiceTyped, OwnerPlaces
<1>2. ServiceTyped'
  BY <1>0, <1>1, <1>2a DEF ServiceTyped
<1>3. /\ ~Submitting /\ ~Submitting'
      /\ \A t \in Workers : (Working(t) <=> Working(t)') /\ (Storing(t) <=> Storing(t)')
      /\ ~Storing("owner") /\ ~Storing("owner")'
  BY <1>1 DEF Submitting, Working, Storing, Workers
<1>4. OneHolder' /\ OwnJob'
  BY <1>0, <1>1, <1>3 DEF OneHolder, OwnJob, Workers, Outcome
<1>5. WordsTrue'
  BY <1>0, <1>1, <1>3 DEF WordsTrue, SettledWords, SubmittedWords, Outcome, Pending, Resting, Workers
<1>6. Counter'
  BY <1>0, <1>1, <1>3 DEF Counter, Tasks, Workers
<1>7. /\ latest \in Operations /\ s \in Operations /\ n \in 0 .. 4 /\ opSequence \in Nat
      /\ before["owner"] \in Nat
  BY <1>0 DEF ServiceTyped, Tasks
<1>8. /\ n > 0 => before["owner"] % 2 = 0 /\ before["owner"] <= opSequence
      /\ n > 0 /\ before["owner"] = opSequence =>
           /\ n > 1 => s.id = latest.id
           /\ n > 2 => s.state = latest.state
           /\ n > 3 => s.result = latest.result
  BY <1>0, <1>1 DEF Reading
<1>. HIDE DEF n, s
<1>9. Reading'
  <2>1. CASE step'["owner"] \in {0, 1}
    BY <1>1, <1>7, <2>1 DEF Reading
  <2>2. CASE step'["owner"] \in {2, 3, 4}
    BY <1>1, <1>7, <1>8, <2>2, FieldsOf DEF Reading
  <2>. QED BY <1>1, <2>1, <2>2 DEF Tasks
<1>10. Answer'
  <2>. SUFFICES ASSUME pc'["owner"] = "readDone"
                PROVE  /\ seen'["owner"] = latest /\ ~Storing("net") /\ ~Storing("app")
                       /\ Settled(status) /\ status.id = accepted => latest = status
    BY <1>1, <1>3 DEF Answer, Workers, Settled
  <2>1. n = 4 /\ seen'["owner"] = s /\ before["owner"] = opSequence
    BY <1>1
  <2>2. s = latest
    BY <1>7, <1>8, <2>1, SameOperation
  <2>3. ~Storing("net") /\ ~Storing("app")
    BY <1>0, <1>7, <1>8, <2>1 DEF Counter
  <2>. QED BY <1>0, <2>1, <2>2, <2>3 DEF Reported
<1>11. Reported'
  BY <1>0, <1>1 DEF Reported, Settled, Workers
<1>12. Ids'
  BY <1>0, <1>1, IdsKept
<1>. QED BY <1>2, <1>4, <1>5, <1>6, <1>9, <1>10, <1>11, <1>12 DEF ServiceIInv

LEMMA GotStatusKeeps == ServiceIInv /\ GotStatus => ServiceIInv'
<1>. SUFFICES ASSUME ServiceIInv, GotStatus PROVE ServiceIInv'
  OBVIOUS
<1>0. ServiceTyped /\ OneHolder /\ OwnJob /\ WordsTrue /\ Counter /\ Reading /\ Answer
      /\ Reported /\ Ids
  BY DEF ServiceIInv
<1>1. /\ UNCHANGED <<reserved, nextId, opSequence, latest, netQueue, step, op, before, seen, accepted,
                     decided, used>>
      /\ pc["owner"] \in {"readDone", "readFailed"} /\ pc' = [pc EXCEPT !["owner"] = "idle"]
      /\ status' = IF pc["owner"] = "readDone" THEN seen["owner"] ELSE status
  BY DEF GotStatus, Goto
<1>2. /\ pc'["owner"] = "idle" /\ pc'["net"] = pc["net"] /\ pc'["app"] = pc["app"]
      /\ pc' \in [Tasks -> OwnerPlaces \cup WorkerPlaces]
      /\ status' \in Operations
  BY <1>0, <1>1 DEF ServiceTyped, Tasks, OwnerPlaces
<1>3a. pc'["owner"] \in OwnerPlaces
  BY <1>0, <1>1, <1>2 DEF ServiceTyped, OwnerPlaces
<1>3. ServiceTyped'
  BY <1>0, <1>1, <1>2, <1>3a DEF ServiceTyped
<1>4. /\ ~Submitting /\ ~Submitting'
      /\ \A t \in Workers : (Working(t) <=> Working(t)') /\ (Storing(t) <=> Storing(t)')
      /\ ~Storing("owner") /\ ~Storing("owner")' /\ step["owner"] = 0
  BY <1>0, <1>1, <1>2 DEF Submitting, Working, Storing, Workers, Counter, Tasks
<1>5. OneHolder' /\ OwnJob'
  BY <1>0, <1>1, <1>2, <1>4 DEF OneHolder, OwnJob, Workers, Outcome
<1>6. WordsTrue'
  BY <1>0, <1>1, <1>2, <1>4 DEF WordsTrue, SettledWords, SubmittedWords, Outcome, Pending, Resting, Workers
<1>7. Counter' /\ Reading' /\ Answer'
  BY <1>0, <1>1, <1>2, <1>4 DEF Counter, Reading, Answer, Tasks, Workers
<1>8. CASE pc["owner"] = "readDone"
  <2>1. \/ seen["owner"] = latest /\ ~Storing("net") /\ ~Storing("app")
        \/ seen["owner"] = Pending /\ accepted # 0
    BY <1>0, <1>8 DEF Answer
  <2>2. /\ Pending.id = accepted /\ ~Settled(Pending) /\ NoOperation.id = 0 /\ ~Settled(NoOperation)
        /\ Outcome.id = decided.id
    BY FieldsOf DEF Pending, NoOperation, Outcome, Settled
  <2>3. ASSUME /\ seen["owner"] = Outcome /\ accepted # 0 /\ decided.id = accepted /\ ~HasJob(netQueue)
               /\ \A t \in Workers : pc[t] \notin Unsettled \cup {"store"}
               /\ latest = Outcome
        PROVE  Reported' /\ status'.id \in {accepted, 0}
    <3>1. Reported'
      BY <1>1, <1>2, <1>8, <2>2, <2>3 DEF Reported, Settled, Workers
    <3>2. status'.id \in {accepted, 0}
      BY <1>1, <1>8, <2>2, <2>3
    <3>. QED BY <3>1, <3>2
  <2>4. ASSUME seen["owner"] = Pending
        PROVE  Reported' /\ status'.id \in {accepted, 0}
    BY <1>1, <1>8, <2>2, <2>4 DEF Reported, Settled
  <2>5. ASSUME seen["owner"] = NoOperation
        PROVE  Reported' /\ status'.id \in {accepted, 0}
    BY <1>1, <1>8, <2>2, <2>5 DEF Reported, Settled
  <2>6. Reported' /\ status'.id \in {accepted, 0}
    BY <1>0, <1>4, <2>1, <2>3, <2>4, <2>5, WordsAre
  <2>7. IdsSoFar' \subseteq IdsSoFar \cup {0}
    BY <1>1, <2>6 DEF IdsSoFar
  <2>8. Counting' \/ Wrapped' \/ AboutToWrap'
    BY <1>0, <1>1, <1>2, <2>7 DEF Ids, Counting, Wrapped, AboutToWrap, ServiceTyped
  <2>9. Ids'
    BY <1>1, <1>2, <2>8 DEF Ids
  <2>. QED BY <1>3, <1>5, <1>6, <1>7, <2>6, <2>9 DEF ServiceIInv
<1>9. CASE pc["owner"] = "readFailed"
  <2>1. status' = status
    BY <1>1, <1>9
  <2>2. Reported'
    BY <1>0, <1>1, <1>2, <2>1 DEF Reported, Settled, Workers
  <2>3. Ids'
    BY <1>0, <1>1, <1>2, <2>1, IdsKept
  <2>. QED BY <1>3, <1>5, <1>6, <1>7, <2>2, <2>3 DEF ServiceIInv
<1>. QED BY <1>1, <1>8, <1>9

\* A worker that has the operation and has not settled it goes from place to
\* place without touching the words.
LEMMA WorkerMoves ==
  ASSUME ServiceIInv, NEW t \in Workers, NEW place \in Unsettled \cup {"store"},
         pc[t] \in Unsettled, pc' = [pc EXCEPT ![t] = place],
         UNCHANGED <<reserved, nextId, opSequence, latest, netQueue, op, accepted, status, decided,
                     used>>,
         step' \in [Tasks -> 0 .. 4], before' \in [Tasks -> Nat], seen' \in [Tasks -> Operations],
         place # "read" => step'[t] = 0,
         \A u \in Tasks \ {t} : /\ step'[u] = step[u] /\ before'[u] = before[u]
                                /\ seen'[u] = seen[u]
  PROVE  ServiceIInv'
<1>0. ServiceTyped /\ OneHolder /\ OwnJob /\ WordsTrue /\ Counter /\ Reading /\ Answer
      /\ Reported /\ Ids
  BY DEF ServiceIInv
<1>1. /\ pc' \in [Tasks -> OwnerPlaces \cup WorkerPlaces] /\ pc'[t] = place
      /\ \A u \in Tasks \ {t} : pc'[u] = pc[u]
      /\ place \in WorkerPlaces /\ t \in {"net", "app"} /\ Tasks = {"owner", "net", "app"}
  BY <1>0 DEF ServiceTyped, Tasks, Workers, WorkerPlaces
<1>2. ServiceTyped'
  BY <1>0, <1>1 DEF ServiceTyped
<1>3. /\ Submitting' <=> Submitting
      /\ \A u \in Workers : (Working(u) <=> Working(u)')
      /\ Working(t) /\ Working(t)' /\ ~Storing(t) /\ ~Storing(t)'
      /\ \A u \in Tasks \ {t} : (Storing(u) <=> Storing(u)')
  BY <1>1 DEF Submitting, Working, Storing, Workers, Unsettled
<1>4. OneHolder' /\ OwnJob'
  BY <1>0, <1>3 DEF OneHolder, OwnJob, Workers, Outcome
<1>5. ~(Settled(status) /\ status.id = accepted)
  BY <1>0 DEF Reported
<1>6. WordsTrue'
  <2>1. latest = Pending /\ ~Resting /\ ~Resting'
    BY <1>0, <1>3 DEF WordsTrue, SettledWords, Resting, Workers
  <2>2. SettledWords(t)'
    BY <1>1, <2>1 DEF SettledWords, Pending, Unsettled
  <2>3. \A u \in Workers \ {t} : SettledWords(u)'
    BY <1>0, <1>1 DEF WordsTrue, SettledWords, Pending, Workers
  <2>4. SubmittedWords'
    BY <1>0, <1>1 DEF WordsTrue, SubmittedWords
  <2>. QED BY <1>0, <2>1, <2>2, <2>3, <2>4 DEF WordsTrue, Workers, Pending
<1>7. Counter'
  <2>1. \A u \in Tasks : pc'[u] \notin {"store", "read"} => step'[u] = 0
    BY <1>0, <1>1 DEF Counter
  <2>2. Storing("owner") \/ Storing("net") \/ Storing("app")
        <=> Storing("owner")' \/ Storing("net")' \/ Storing("app")'
    BY <1>1, <1>3
  <2>. QED BY <1>0, <2>1, <2>2 DEF Counter
<1>8. Reading' /\ Answer'
  BY <1>0, <1>1, <1>3, <1>5 DEF Reading, Answer, Pending, Settled
<1>9. Reported'
  BY <1>0, <1>5 DEF Reported, Settled
<1>10. Ids'
  BY <1>0, <1>1, IdsKept
<1>. QED BY <1>2, <1>4, <1>6, <1>7, <1>8, <1>9, <1>10 DEF ServiceIInv

LEMMA ClaimKeeps == ASSUME ServiceIInv, NEW t \in Workers, Claim(t) PROVE ServiceIInv'
<1>1. /\ pc[t] = "complete" /\ step \in [Tasks -> 0 .. 4] /\ before \in [Tasks -> Nat]
      /\ seen \in [Tasks -> Operations] /\ "read" \in Unsettled /\ "complete" \in Unsettled
  BY DEF Claim, ServiceIInv, ServiceTyped, Unsettled
<1>. QED BY <1>1, WorkerMoves DEF Claim, Goto

LEMMA VerifyKeeps == ASSUME ServiceIInv, NEW t \in Workers, Verify(t) PROVE ServiceIInv'
<1>1. /\ pc[t] \in {"readDone", "readFailed"} /\ step[t] = 0
      /\ step \in [Tasks -> 0 .. 4] /\ before \in [Tasks -> Nat] /\ seen \in [Tasks -> Operations]
      /\ "complete" \in Unsettled /\ pc[t] \in Unsettled
      /\ UNCHANGED <<reserved, nextId, opSequence, latest, netQueue, op, accepted, status, decided,
                     used, step, before, seen>>
  BY DEF Verify, ServiceIInv, ServiceTyped, Unsettled, Counter, Tasks, Workers
<1>2. PICK place \in {"store", "complete"} : pc' = [pc EXCEPT ![t] = place]
  BY DEF Verify, Goto
<1>. QED BY <1>1, <1>2, WorkerMoves

LEMMA WorkerReadKeeps == ASSUME ServiceIInv, NEW t \in Workers, ReadStep(t) PROVE ServiceIInv'
<1>. DEFINE place == pc'[t]
<1>1. ServiceTyped /\ t \in Tasks /\ pc \in [Tasks -> OwnerPlaces \cup WorkerPlaces]
  BY DEF ServiceIInv, ServiceTyped, Workers, Tasks
<1>2. /\ UNCHANGED <<reserved, nextId, opSequence, latest, netQueue, op, accepted, status, decided,
                     used>>
      /\ pc[t] = "read" /\ place \in {"read", "readDone", "readFailed"}
      /\ \A u \in Tasks \ {t} : /\ step'[u] = step[u] /\ pc'[u] = pc[u] /\ before'[u] = before[u]
                                /\ seen'[u] = seen[u]
      /\ pc' \in [Tasks -> OwnerPlaces \cup WorkerPlaces] /\ step' \in [Tasks -> 0 .. 4]
      /\ before' \in [Tasks -> Nat] /\ seen' \in [Tasks -> Operations]
      /\ place # "read" => step'[t] = 0
  <2>. HIDE DEF place
  <2>1. /\ UNCHANGED <<reserved, nextId, opSequence, latest, netQueue, op, accepted, status, decided,
                     used>>
        /\ pc[t] = "read" /\ place \in {"read", "readDone", "readFailed"}
        /\ \A u \in Tasks \ {t} : /\ step'[u] = step[u] /\ pc'[u] = pc[u] /\ before'[u] = before[u]
                                  /\ seen'[u] = seen[u]
        /\ pc' \in [Tasks -> OwnerPlaces \cup WorkerPlaces] /\ step' \in [Tasks -> 0 .. 4]
        /\ before' \in [Tasks -> Nat] /\ seen' \in [Tasks -> Operations]
    BY <1>1, ReadStepIs DEF place
  <2>2. step'[t] = 0 \/ place = "read"
    BY <1>1, ReadStepIs DEF place
  <2>. QED BY <2>1, <2>2
<1>. HIDE DEF place
<1>3. pc' = [pc EXCEPT ![t] = place]
  BY <1>1, <1>2 DEF place
<1>4. place \in Unsettled \cup {"store"} /\ pc[t] \in Unsettled
  BY <1>2 DEF Unsettled
<1>. QED BY <1>2, <1>3, <1>4, WorkerMoves

LEMMA WorkerStoreKeeps == ASSUME ServiceIInv, NEW t \in Workers, StoreStep(t) PROVE ServiceIInv'
<1>0. ServiceTyped /\ OneHolder /\ OwnJob /\ WordsTrue /\ Counter /\ Reading /\ Answer
      /\ Reported /\ Ids
  BY DEF ServiceIInv
<1>. DEFINE o == op[t]
            n == step[t]
<1>1. /\ UNCHANGED <<reserved, nextId, netQueue, op, before, seen, accepted, status, decided, used>>
      /\ pc[t] = "store" /\ latest' \in Operations /\ opSequence' \in Nat
      /\ pc' \in [Tasks -> OwnerPlaces \cup WorkerPlaces] /\ step' \in [Tasks -> 0 .. 4]
      /\ \A u \in Tasks \ {t} : step'[u] = step[u] /\ pc'[u] = pc[u]
      /\ \/ n = 0 /\ step'[t] = 1 /\ pc'[t] = "store"
            /\ opSequence' = opSequence + 1 /\ latest' = latest
         \/ n = 1 /\ step'[t] = 2 /\ pc'[t] = "store" /\ opSequence' = opSequence
            /\ latest' = Operation(o.id, latest.state, latest.result)
         \/ n = 2 /\ step'[t] = 3 /\ pc'[t] = "store" /\ opSequence' = opSequence
            /\ latest' = Operation(latest.id, latest.state, o.result)
         \/ n = 3 /\ step'[t] = 4 /\ pc'[t] = "store" /\ opSequence' = opSequence
            /\ latest' = Operation(latest.id, o.state, latest.result)
         \/ n = 4 /\ step'[t] = 0 /\ pc'[t] = "stored"
            /\ opSequence' = opSequence + 1 /\ latest' = latest
  BY <1>0, StoreStepIs DEF AfterStore, Tasks, Workers
<1>2. /\ t \in {"net", "app"} /\ t \in Tasks /\ Tasks = {"owner", "net", "app"}
      /\ Workers = {"net", "app"} /\ n \in 0 .. 4 /\ o \in Operations
      /\ latest \in Operations /\ opSequence \in Nat /\ before["owner"] \in Nat
  BY <1>0 DEF Tasks, Workers, ServiceTyped
<1>3. /\ ~Submitting /\ ~Submitting' /\ ~HasJob(netQueue) /\ Working(t) /\ Working(t)'
      /\ \A u \in Workers \ {t} : ~Working(u) /\ ~Working(u)'
      /\ \A u \in Tasks \ {t} : ~Storing(u) /\ ~Storing(u)'
      /\ Storing(t) <=> n > 0
      /\ Storing(t)' <=> n < 4
  <2>1. Working(t) /\ Working(t)' /\ (Submitting' <=> Submitting)
    BY <1>1, <1>2 DEF Working, Submitting
  <2>2. ~Submitting /\ ~HasJob(netQueue) /\ \A u \in Workers \ {t} : ~Working(u)
    BY <1>0, <1>2, <2>1 DEF OneHolder
  <2>3. \A u \in Workers \ {t} : ~Working(u)' /\ ~Storing(u) /\ ~Storing(u)'
    BY <1>1, <1>2, <2>2 DEF Working, Storing
  <2>4. ~Storing("owner") /\ ~Storing("owner")'
    BY <1>1, <1>2, <2>2 DEF Submitting, Storing
  <2>5. (Storing(t) <=> n > 0) /\ (Storing(t)' <=> n < 4)
    BY <1>1, <1>2 DEF Storing
  <2>. QED BY <1>2, <2>1, <2>2, <2>3, <2>4, <2>5
<1>4. ServiceTyped'
  BY <1>0, <1>1, <1>2 DEF ServiceTyped, WorkerPlaces
<1>5. OneHolder' /\ OwnJob'
  BY <1>0, <1>1, <1>2, <1>3 DEF OneHolder, OwnJob, Outcome
<1>6. /\ latest = Operation(accepted, IF n = 4 THEN o.state ELSE "PENDING",
                                      IF n \in {3, 4} THEN o.result ELSE "OK")
      /\ o = Outcome /\ o.id = accepted /\ accepted # 0
      /\ ~(Settled(status) /\ status.id = accepted)
  BY <1>0, <1>1, <1>2, <1>3, FieldsOf DEF WordsTrue, SettledWords, OwnJob, Outcome, Reported
<1>7. /\ n \in 0 .. 3 => latest' = Operation(accepted, IF n = 3 THEN o.state ELSE "PENDING",
                                                       IF n \in {2, 3} THEN o.result ELSE "OK")
      /\ n = 4 => latest' = o
  <2>1. o = Operation(o.id, o.state, o.result)
    BY <1>2 DEF Operations, Operation
  <2>. HIDE DEF o, n
  <2>. QED BY <1>1, <1>2, <1>6, <2>1, FieldsOf
<1>8. WordsTrue'
  <2>1. op'[t] = o
    BY <1>1
  <2>2. n < 4 => pc'[t] = "store" /\ step'[t] = n + 1
    BY <1>1
  <2>3. n = 4 => pc'[t] = "stored"
    BY <1>1
  <2>4. SettledWords(t)'
    <3>. HIDE DEF o, n
    <3>. QED BY <1>1, <1>2, <1>7, <2>1, <2>2, <2>3 DEF SettledWords, Unsettled
  <2>5. \A u \in Workers \ {t} : SettledWords(u)'
    BY <1>2, <1>3 DEF SettledWords, Working
  <2>6. SubmittedWords'
    BY <1>3 DEF SubmittedWords, Submitting
  <2>. QED BY <1>1, <1>2, <1>3, <2>4, <2>5, <2>6 DEF WordsTrue, Resting
<1>9. \/ n \in {0, 4} /\ opSequence' = opSequence + 1
      \/ n \in 1 .. 3 /\ opSequence' = opSequence
  BY <1>1
<1>10. /\ opSequence % 2 \in {0, 1} /\ ((opSequence + 1) % 2 = 1 <=> opSequence % 2 = 0)
       /\ opSequence % 2 = 1 <=> n > 0
  BY <1>0, <1>2, <1>3, Parity DEF Counter
<1>11. Counter'
  <2>1. \A u \in Tasks : pc'[u] \notin {"store", "read"} => step'[u] = 0
    BY <1>0, <1>1, <1>2 DEF Counter
  <2>2. opSequence' % 2 = 1 <=> n < 4
    <3>. HIDE DEF n
    <3>. QED BY <1>2, <1>9, <1>10
  <2>3. Storing("owner")' \/ Storing("net")' \/ Storing("app")' <=> n < 4
    BY <1>2, <1>3
  <2>. QED BY <2>1, <2>2, <2>3 DEF Counter
<1>12. Reading'
  <2>. SUFFICES ASSUME pc'["owner"] = "read", step'["owner"] > 0
                PROVE  /\ before["owner"] % 2 = 0 /\ before["owner"] <= opSequence'
                       /\ before["owner"] # opSequence'
    BY <1>1 DEF Reading
  <2>1. before["owner"] % 2 = 0 /\ before["owner"] <= opSequence
    BY <1>0, <1>1, <1>2 DEF Reading
  <2>. HIDE DEF n
  <2>. QED BY <1>2, <1>9, <1>10, <2>1
<1>13. Answer'
  <2>. SUFFICES ASSUME pc'["owner"] = "readDone"
                PROVE  seen["owner"] = Pending /\ accepted # 0
    BY <1>1, <1>6 DEF Answer, Pending, Settled
  <2>1. \/ seen["owner"] = latest /\ ~Storing(t)
        \/ seen["owner"] = Pending
    BY <1>0, <1>1, <1>2 DEF Answer
  <2>. HIDE DEF n
  <2>2. n = 0 => latest = Pending
    BY <1>6 DEF Pending
  <2>. QED BY <1>2, <1>3, <1>6, <2>1, <2>2
<1>14. Reported'
  BY <1>0, <1>1, <1>6 DEF Reported, Settled
<1>15. Ids'
  BY <1>0, <1>1, <1>2, IdsKept
<1>. QED BY <1>4, <1>5, <1>8, <1>11, <1>12, <1>13, <1>14, <1>15 DEF ServiceIInv

LEMMA CompletedKeeps == ASSUME ServiceIInv, NEW t \in Workers, Completed(t) PROVE ServiceIInv'
<1>0. ServiceTyped /\ OneHolder /\ OwnJob /\ WordsTrue /\ Counter /\ Reading /\ Answer
      /\ Reported /\ Ids
  BY DEF ServiceIInv
<1>1. /\ UNCHANGED <<reserved, nextId, opSequence, latest, netQueue, step, op, before, seen, accepted,
                     status, decided, used>>
      /\ pc[t] = "stored" /\ pc' = [pc EXCEPT ![t] = "release"]
      /\ Workers = {"net", "app"} /\ Tasks = {"owner", "net", "app"}
  BY DEF Completed, Goto, Workers, Tasks
<1>2. /\ pc' \in [Tasks -> OwnerPlaces \cup WorkerPlaces] /\ pc'[t] = "release"
      /\ \A u \in Tasks \ {t} : pc'[u] = pc[u]
  BY <1>0, <1>1 DEF ServiceTyped, WorkerPlaces
<1>3. ServiceTyped'
  BY <1>0, <1>1, <1>2 DEF ServiceTyped, WorkerPlaces
<1>4. /\ Submitting' <=> Submitting
      /\ \A u \in Workers : (Working(u) <=> Working(u)')
      /\ Working(t)
      /\ \A u \in Tasks : (Storing(u) <=> Storing(u)')
  BY <1>1, <1>2 DEF Submitting, Working, Storing
<1>5. OneHolder' /\ OwnJob'
  BY <1>0, <1>1, <1>4 DEF OneHolder, OwnJob, Outcome
<1>6. WordsTrue'
  <2>1. SettledWords(t)' /\ \A u \in Workers \ {t} : SettledWords(u)'
    BY <1>0, <1>1, <1>2 DEF WordsTrue, SettledWords, Pending, Unsettled
  <2>2. SubmittedWords'
    BY <1>0, <1>1, <1>2 DEF WordsTrue, SubmittedWords
  <2>3. ~Resting' /\ ~HasJob(netQueue)'
    BY <1>0, <1>1, <1>4 DEF Resting, OneHolder
  <2>. QED BY <1>1, <2>1, <2>2, <2>3 DEF WordsTrue
<1>7. Counter'
  BY <1>0, <1>1, <1>2, <1>4 DEF Counter
<1>8. Reading' /\ Answer' /\ Reported'
  BY <1>0, <1>1, <1>2, <1>4 DEF Reading, Answer, Reported, Pending, Unsettled, Settled
<1>9. Ids'
  BY <1>0, <1>1, <1>2, IdsKept
<1>. QED BY <1>3, <1>5, <1>6, <1>7, <1>8, <1>9 DEF ServiceIInv

LEMMA WorkerReleaseKeeps == ASSUME ServiceIInv, NEW t \in Workers, Release(t) PROVE ServiceIInv'
<1>0. ServiceTyped /\ OneHolder /\ OwnJob /\ WordsTrue /\ Counter /\ Reading /\ Answer
      /\ Reported /\ Ids
  BY DEF ServiceIInv
<1>. DEFINE place == IF t = "app" THEN "drain" ELSE "idle"
<1>1. /\ UNCHANGED <<nextId, opSequence, latest, netQueue, step, op, before, seen, accepted,
                     status, decided, used>>
      /\ pc[t] = "release" /\ pc' = [pc EXCEPT ![t] = place] /\ place \in Free
      /\ Workers = {"net", "app"} /\ Tasks = {"owner", "net", "app"}
  BY DEF Release, Goto, Workers, Tasks, Free
<1>. HIDE DEF place
<1>2. /\ pc' \in [Tasks -> OwnerPlaces \cup WorkerPlaces] /\ pc'[t] = place
      /\ \A u \in Tasks \ {t} : pc'[u] = pc[u]
  BY <1>0, <1>1 DEF ServiceTyped, WorkerPlaces
<1>3. ServiceTyped'
  BY <1>0, <1>1, <1>2 DEF ServiceTyped, WorkerPlaces
<1>4. /\ ~Submitting' /\ ~Submitting /\ ~HasJob(netQueue) /\ Working(t)
      /\ \A u \in Workers : ~Working(u)'
      /\ \A u \in Tasks : (Storing(u) <=> Storing(u)')
  <2>1. Working(t) /\ ~Working(t)' /\ (Submitting' <=> Submitting)
    BY <1>1, <1>2 DEF Working, Submitting, Free, Unsettled
  <2>2. ~Submitting /\ ~HasJob(netQueue) /\ \A u \in Workers \ {t} : ~Working(u)
    BY <1>0, <1>1, <2>1 DEF OneHolder
  <2>3. \A u \in Workers \ {t} : ~Working(u)'
    BY <1>1, <1>2, <2>2 DEF Working
  <2>4. \A u \in Tasks : (Storing(u) <=> Storing(u)')
    BY <1>1, <1>2 DEF Storing, Free
  <2>. QED BY <2>1, <2>2, <2>3, <2>4
<1>5. OneHolder' /\ OwnJob'
  BY <1>0, <1>1, <1>4 DEF OneHolder, OwnJob
<1>6. WordsTrue'
  <2>1. latest = Outcome /\ decided.id = accepted /\ accepted # 0
    BY <1>0, <1>1, <1>4 DEF WordsTrue, SettledWords, OwnJob
  <2>2. \A u \in Workers : SettledWords(u)'
    BY <1>4 DEF SettledWords, Working
  <2>3. SubmittedWords'
    BY <1>4 DEF SubmittedWords, Submitting
  <2>. QED BY <1>1, <1>4, <2>1, <2>2, <2>3 DEF WordsTrue, Outcome
<1>7. Counter'
  BY <1>0, <1>1, <1>2, <1>4 DEF Counter
<1>8. Reading' /\ Answer'
  BY <1>0, <1>1, <1>2, <1>4 DEF Reading, Answer, Pending, Settled
<1>9. Reported'
  BY <1>0, <1>1, <1>4 DEF Reported, Settled, Working
<1>10. Ids'
  BY <1>0, <1>1, <1>2, IdsKept
<1>. QED BY <1>3, <1>5, <1>6, <1>7, <1>8, <1>9, <1>10 DEF ServiceIInv

\* A job leaves the queue with its result decided.
LEMMA JobTaken ==
  ASSUME ServiceIInv, NEW t \in Workers, NEW r \in Results,
         pc[t] \in Free, netQueue # <<>>, Head(netQueue) # 0, netQueue' = Tail(netQueue),
         Decide(t, Head(netQueue), r),
         UNCHANGED <<reserved, nextId, opSequence, latest, step, before, seen, accepted, status, used>>
  PROVE  ServiceIInv'
<1>0. ServiceTyped /\ OneHolder /\ OwnJob /\ WordsTrue /\ Counter /\ Reading /\ Answer
      /\ Reported /\ Ids
  BY DEF ServiceIInv
<1>1. /\ Tail(netQueue) \in Seq(Nat) /\ OneJob(netQueue') /\ JobsAre(netQueue', accepted)
      /\ HasJob(netQueue) /\ ~HasJob(netQueue') /\ Head(netQueue) = accepted
      /\ accepted \in Nat /\ netQueue' = Tail(netQueue)
  BY <1>0, CommandTaken DEF OneHolder, OwnJob, ServiceTyped
<1>. DEFINE state == IF r = "OK" THEN "SUCCEEDED" ELSE "FAILED"
<1>2. /\ op' = [op EXCEPT ![t] = Operation(accepted, state, r)]
      /\ decided' = [id |-> accepted, result |-> r]
      /\ pc' = [pc EXCEPT ![t] = "complete"]
      /\ Workers = {"net", "app"} /\ Tasks = {"owner", "net", "app"} /\ state \in States
      /\ Operation(accepted, state, r) \in Operations
  BY <1>1 DEF Decide, Goto, Workers, Tasks, Operation, Operations, States
<1>3. Outcome' = Operation(accepted, state, r) /\ decided' \in [id : Nat, result : Results]
      /\ decided'.id = accepted
  BY <1>1, <1>2 DEF Outcome
<1>. HIDE DEF state
<1>4. /\ pc' \in [Tasks -> OwnerPlaces \cup WorkerPlaces] /\ pc'[t] = "complete"
      /\ op' \in [Tasks -> Operations] /\ op'[t] = Operation(accepted, state, r)
      /\ \A u \in Tasks \ {t} : pc'[u] = pc[u] /\ op'[u] = op[u]
  BY <1>0, <1>2 DEF ServiceTyped, WorkerPlaces, Unsettled
<1>5. ServiceTyped'
  BY <1>0, <1>1, <1>2, <1>3, <1>4 DEF ServiceTyped, WorkerPlaces, Unsettled
<1>6. /\ ~Submitting' /\ ~Submitting /\ Working(t)' /\ reserved
      /\ \A u \in Workers : ~Working(u) /\ (u # t => ~Working(u)')
      /\ \A u \in Tasks : (Storing(u) <=> Storing(u)')
  <2>1. Working(t)' /\ (Submitting' <=> Submitting)
    BY <1>2, <1>4 DEF Working, Submitting, Unsettled
  <2>2. ~Submitting /\ reserved /\ \A u \in Workers : ~Working(u)
    BY <1>0, <1>1, <1>2 DEF OneHolder
  <2>3. \A u \in Workers \ {t} : ~Working(u)'
    BY <1>2, <1>4, <2>2 DEF Working
  <2>4. \A u \in Tasks : (Storing(u) <=> Storing(u)')
    BY <1>2, <1>4 DEF Storing, Free
  <2>. QED BY <2>1, <2>2, <2>3, <2>4
<1>7. OneHolder' /\ OwnJob'
  BY <1>0, <1>1, <1>2, <1>3, <1>4, <1>6 DEF OneHolder, OwnJob
<1>8. WordsTrue'
  <2>1. latest = Pending
    BY <1>0, <1>1 DEF WordsTrue
  <2>2. SettledWords(t)'
    BY <1>4, <2>1 DEF SettledWords, Pending, Unsettled
  <2>3. \A u \in Workers \ {t} : SettledWords(u)'
    BY <1>6 DEF SettledWords, Working
  <2>4. SubmittedWords'
    BY <1>6 DEF SubmittedWords, Submitting
  <2>. QED BY <1>1, <1>2, <1>6, <2>2, <2>3, <2>4 DEF WordsTrue, Resting
<1>9. Counter'
  BY <1>0, <1>2, <1>4, <1>6 DEF Counter, Free
<1>10. Reading' /\ Answer' /\ Reported'
  BY <1>0, <1>1, <1>2, <1>4, <1>6 DEF Reading, Answer, Reported, Pending, Settled
<1>11. Ids'
  BY <1>0, <1>2, <1>4, IdsKept
<1>. QED BY <1>5, <1>7, <1>8, <1>9, <1>10, <1>11 DEF ServiceIInv

\* A worker that has nothing to do with the operation moves on.
LEMMA FreeMoves ==
  ASSUME ServiceIInv, NEW t \in Workers, NEW place \in Free,
         pc[t] \in Free, pc' = [pc EXCEPT ![t] = place],
         netQueue' \in Seq(Nat), HasJob(netQueue') <=> HasJob(netQueue), OneJob(netQueue'),
         JobsAre(netQueue', accepted),
         used' \in [submits : 0 .. MaxSubmits, reads : Int, resets : Int],
         used'.submits = used.submits,
         UNCHANGED <<reserved, nextId, opSequence, latest, step, op, before, seen, accepted, status,
                     decided>>
  PROVE  ServiceIInv'
<1>0. ServiceTyped /\ OneHolder /\ OwnJob /\ WordsTrue /\ Counter /\ Reading /\ Answer
      /\ Reported /\ Ids
  BY DEF ServiceIInv
<1>1. /\ Workers = {"net", "app"} /\ Tasks = {"owner", "net", "app"}
      /\ place \in WorkerPlaces /\ place \notin Unsettled \cup {"store", "stored", "release"}
      /\ pc[t] \notin Unsettled \cup {"store", "stored", "release"}
  BY DEF Workers, Tasks, Free, WorkerPlaces, Unsettled
<1>2. /\ pc' \in [Tasks -> OwnerPlaces \cup WorkerPlaces] /\ pc'[t] = place
      /\ \A u \in Tasks \ {t} : pc'[u] = pc[u]
  BY <1>0, <1>1 DEF ServiceTyped
<1>3. ServiceTyped'
  BY <1>0, <1>1, <1>2 DEF ServiceTyped
<1>4. /\ Submitting' <=> Submitting
      /\ \A u \in Workers : (Working(u)' <=> Working(u))
      /\ \A u \in Tasks : (Storing(u)' <=> Storing(u))
  BY <1>1, <1>2 DEF Submitting, Working, Storing
<1>5. OneHolder' /\ OwnJob'
  BY <1>0, <1>1, <1>4 DEF OneHolder, OwnJob, Outcome
<1>6. WordsTrue'
  <2>1. \A u \in Workers : SettledWords(u)'
    BY <1>0, <1>1, <1>2 DEF WordsTrue, SettledWords, Pending
  <2>2. SubmittedWords'
    BY <1>0, <1>1, <1>2 DEF WordsTrue, SubmittedWords
  <2>3. Resting' <=> Resting
    BY <1>1, <1>4 DEF Resting
  <2>. QED BY <1>0, <1>1, <2>1, <2>2, <2>3 DEF WordsTrue, Pending, Outcome
<1>7. Counter'
  <2>1. \A u \in Tasks : pc'[u] \notin {"store", "read"} => step'[u] = 0
    BY <1>0, <1>1, <1>2 DEF Counter, Unsettled
  <2>. QED BY <1>0, <1>1, <1>4, <2>1 DEF Counter
<1>8. Reading' /\ Answer'
  BY <1>0, <1>1, <1>2, <1>4 DEF Reading, Answer, Pending, Settled
<1>9. Reported'
  BY <1>0, <1>1, <1>2 DEF Reported, Settled
<1>10. Ids'
  BY <1>0, <1>1, <1>2, IdsKept
<1>. QED BY <1>3, <1>5, <1>6, <1>7, <1>8, <1>9, <1>10 DEF ServiceIInv

\* A command that is not a job is taken.
LEMMA OtherTaken ==
  ASSUME ServiceIInv, NEW t \in Workers, pc[t] \in Free, netQueue # <<>>, Head(netQueue) = 0,
         netQueue' = Tail(netQueue),
         UNCHANGED <<reserved, nextId, opSequence, latest, pc, step, op, before, seen, accepted, status,
                     decided, used>>
  PROVE  ServiceIInv'
<1>1. ServiceTyped /\ OneJob(netQueue) /\ JobsAre(netQueue, accepted)
  BY DEF ServiceIInv, OneHolder, OwnJob
<1>2. /\ Tail(netQueue) \in Seq(Nat) /\ OneJob(Tail(netQueue)) /\ JobsAre(Tail(netQueue), accepted)
      /\ HasJob(Tail(netQueue)) <=> HasJob(netQueue)
  BY <1>1, CommandTaken DEF ServiceTyped
<1>. DEFINE place == pc[t]
<1>3. pc' = [pc EXCEPT ![t] = place] /\ place \in Free
  BY <1>1 DEF ServiceTyped, Workers, Tasks
<1>. HIDE DEF place
<1>4. used' \in [submits : 0 .. MaxSubmits, reads : Int, resets : Int] /\ used'.submits = used.submits
  BY <1>1 DEF ServiceTyped
<1>. QED BY <1>2, <1>3, <1>4, FreeMoves

LEMMA NetTakeKeeps == ServiceIInv /\ NetTake => ServiceIInv'
<1>. SUFFICES ASSUME ServiceIInv, NetTake PROVE ServiceIInv'
  OBVIOUS
<1>1. /\ "net" \in Workers /\ pc["net"] \in Free /\ netQueue # <<>> /\ netQueue' = Tail(netQueue)
      /\ UNCHANGED <<reserved, nextId, opSequence, latest, step, before, seen, accepted, status, used>>
  BY DEF NetTake, Workers, Free
<1>2. CASE Head(netQueue) = 0
  <2>1. UNCHANGED <<pc, op, decided>>
    BY <1>2 DEF NetTake
  <2>. QED BY <1>1, <1>2, <2>1, OtherTaken
<1>3. CASE Head(netQueue) # 0
  <2>1. PICK r \in Results : Decide("net", Head(netQueue), r)
    BY <1>3 DEF NetTake, Results
  <2>. QED BY <1>1, <1>3, <2>1, JobTaken
<1>. QED BY <1>2, <1>3

LEMMA DrainKeeps == ServiceIInv /\ Drain => ServiceIInv'
<1>. SUFFICES ASSUME ServiceIInv, Drain PROVE ServiceIInv'
  OBVIOUS
<1>1. /\ "app" \in Workers /\ pc["app"] \in Free /\ netQueue # <<>> /\ netQueue' = Tail(netQueue)
      /\ UNCHANGED <<reserved, nextId, opSequence, latest, step, before, seen, accepted, status, used>>
  BY DEF Drain, Workers, Free
<1>2. CASE Head(netQueue) = 0
  <2>1. UNCHANGED <<pc, op, decided>>
    BY <1>2 DEF Drain
  <2>. QED BY <1>1, <1>2, <2>1, OtherTaken
<1>3. CASE Head(netQueue) # 0
  <2>1. Decide("app", Head(netQueue), "CANCELLED") /\ "CANCELLED" \in Results
    BY <1>3 DEF Drain, Results
  <2>. QED BY <1>1, <1>3, <2>1, JobTaken
<1>. QED BY <1>2, <1>3

\* The application task resets: it goes to the drain, finds the queue empty, and
\* posts its command.
LEMMA FactoryResetKeeps == ServiceIInv /\ (FactoryReset \/ DrainEnd \/ PostReset) => ServiceIInv'
<1>. SUFFICES ASSUME ServiceIInv, FactoryReset \/ DrainEnd \/ PostReset PROVE ServiceIInv'
  OBVIOUS
<1>1. /\ ServiceTyped /\ OneJob(netQueue) /\ JobsAre(netQueue, accepted) /\ netQueue \in Seq(Nat)
      /\ "app" \in Workers
      /\ used \in [submits : 0 .. MaxSubmits, reads : Int, resets : Int]
  BY DEF ServiceIInv, OneHolder, OwnJob, ServiceTyped, Workers
<1>2. /\ pc["app"] \in Free
      /\ UNCHANGED <<reserved, nextId, opSequence, latest, step, op, before, seen, accepted, status,
                     decided>>
  BY DEF FactoryReset, DrainEnd, PostReset, Free
<1>3. PICK place \in Free : pc' = [pc EXCEPT !["app"] = place]
  BY DEF FactoryReset, DrainEnd, PostReset, Goto, Free
<1>4. netQueue' = netQueue \/ netQueue' = Append(netQueue, 0)
  BY DEF FactoryReset, DrainEnd, PostReset
<1>5. /\ netQueue' \in Seq(Nat) /\ OneJob(netQueue') /\ JobsAre(netQueue', accepted)
      /\ HasJob(netQueue') <=> HasJob(netQueue)
  <2>1. CASE netQueue' = netQueue
    BY <1>1, <2>1
  <2>2. CASE netQueue' = Append(netQueue, 0)
    <3>1. /\ Append(netQueue, 0) \in Seq(Nat) /\ OneJob(Append(netQueue, 0))
          /\ JobsAre(Append(netQueue, 0), accepted)
          /\ HasJob(Append(netQueue, 0)) <=> HasJob(netQueue)
      BY <1>1, CommandAppended
    <3>. QED BY <2>2, <3>1
  <2>. QED BY <1>4, <2>1, <2>2
<1>6. used' = used \/ used' = [used EXCEPT !.resets = @ + 1]
  BY DEF FactoryReset, DrainEnd, PostReset
<1>7. used' \in [submits : 0 .. MaxSubmits, reads : Int, resets : Int] /\ used'.submits = used.submits
  BY <1>1, <1>6, CallCounted
<1>. QED BY <1>1, <1>2, <1>3, <1>5, <1>7, FreeMoves

LEMMA ServiceStutters == ServiceIInv /\ UNCHANGED serviceVars => ServiceIInv'
<1>. SUFFICES ASSUME ServiceIInv, UNCHANGED serviceVars PROVE ServiceIInv'
  OBVIOUS
<1>1. UNCHANGED <<reserved, nextId, opSequence, latest, netQueue, pc, step, op, before, seen, accepted,
                  status, decided, used>>
  BY DEF serviceVars
<1>2. ServiceTyped' /\ OneHolder' /\ OwnJob'
  BY <1>1 DEF ServiceIInv, ServiceTyped, OneHolder, OwnJob, Submitting, Working, Outcome
<1>3. WordsTrue'
  BY <1>1 DEF ServiceIInv, WordsTrue, SettledWords, SubmittedWords, Resting, Submitting, Working,
     Outcome, Pending
<1>4. Counter' /\ Reading' /\ Answer' /\ Reported'
  BY <1>1 DEF ServiceIInv, Counter, Reading, Answer, Reported, Storing, Pending, Settled
<1>5. Ids'
  BY <1>1, IdsKept DEF ServiceIInv
<1>. QED BY <1>2, <1>3, <1>4, <1>5 DEF ServiceIInv

LEMMA ServiceStepKeeps == ServiceIInv /\ [ServiceNext]_serviceVars => ServiceIInv'
<1>. SUFFICES ASSUME ServiceIInv, ServiceNext PROVE ServiceIInv'
  BY ServiceStutters
<1>1. CASE OwnerStep
  BY <1>1, NumberKeeps, PortKeeps, OwnerReleaseKeeps, GotStatusKeeps, OwnerStoreKeeps, OwnerReadKeeps
  DEF OwnerStep
<1>2. ASSUME NEW t \in Workers, WorkerStep(t) PROVE ServiceIInv'
  BY <1>2, ClaimKeeps, VerifyKeeps, CompletedKeeps, WorkerReleaseKeeps, WorkerStoreKeeps, WorkerReadKeeps
  DEF WorkerStep
<1>3. CASE NetStep
  BY <1>2, <1>3, NetTakeKeeps DEF NetStep, Workers
<1>4. CASE AppStep
  BY <1>2, <1>4, DrainKeeps, FactoryResetKeeps DEF AppStep, Workers
<1>. QED BY <1>1, <1>3, <1>4, ReserveKeeps, GetStatusKeeps, FactoryResetKeeps DEF ServiceNext

\* The holder of the operation, the words it stores, the counter it stores them
\* under and the identifiers given out so far, in every state that is reached
\* (store_operation, copy_latest_operation, complete_wifi_update).
THEOREM ServiceInductive == ServiceSpec => []ServiceIInv
BY ServiceInitial, ServiceStepKeeps, PTL DEF ServiceSpec

\* A status that changes was read, whole, from the words of one store.
LEMMA StatusReads ==
  ASSUME ServiceIInv, ServiceNext, status' # status
  PROVE  /\ pc["owner"] = "readDone" /\ status' = seen["owner"]
         /\ UNCHANGED <<accepted, decided>>
<1>1. GotStatus \/ status' = status
  BY DEF ServiceNext, OwnerStep, NetStep, AppStep, WorkerStep, Reserve, GetStatus, FactoryReset, Number,
     Port, Release, StoreStep, ReadStep, NetTake, Drain, DrainEnd, PostReset, Claim, Verify, Completed
<1>. QED BY <1>1 DEF GotStatus

\* What a status request answers is what became of the update the owner was
\* last told of (copy_latest_operation against store_operation).
THEOREM StatusTrue == ServiceSpec => StatusIsTrue
<1>1. ASSUME ServiceIInv, ServiceNext, status' # status
      PROVE  /\ status'.id = accepted
             /\ (status'.state = "NONE") <=> (accepted = 0)
             /\ ~Settled(status') => status'.result = "OK"
             /\ Settled(status') =>
                  /\ decided = [id |-> status'.id, result |-> status'.result]
                  /\ (status'.state = "SUCCEEDED") <=> (status'.result = "OK")
             /\ ~(Settled(status) /\ status'.id = status.id)
  <2>1. /\ pc["owner"] = "readDone" /\ status' = seen["owner"]
    BY <1>1, StatusReads
  <2>2. /\ \/ seen["owner"] = latest /\ ~Storing("net") /\ ~Storing("app")
           \/ seen["owner"] = Pending /\ accepted # 0
        /\ Settled(status) /\ status.id = accepted => seen["owner"] = status
    BY <1>1, <2>1 DEF ServiceIInv, Answer
  <2>3. \/ seen["owner"] = Pending /\ accepted # 0
        \/ seen["owner"] = NoOperation /\ accepted = 0
        \/ seen["owner"] = Outcome /\ accepted # 0 /\ decided.id = accepted
    BY <1>1, <2>1, <2>2, WordsAre DEF ServiceIInv, Submitting
  <2>4. decided = [id |-> decided.id, result |-> decided.result] /\ decided.result \in Results
    BY <1>1 DEF ServiceIInv, ServiceTyped
  <2>5. status'.id = accepted
    BY <2>1, <2>3, FieldsOf DEF Pending, NoOperation, Outcome
  <2>6. ~(Settled(status) /\ status'.id = status.id)
    BY <1>1, <2>1, <2>2, <2>5
  <2>7. CASE status' = Pending /\ accepted # 0
    BY <2>5, <2>6, <2>7, FieldsOf DEF Pending, Settled
  <2>8. CASE status' = NoOperation /\ accepted = 0
    BY <2>5, <2>6, <2>8, FieldsOf DEF NoOperation, Settled
  <2>9. CASE status' = Outcome /\ accepted # 0 /\ decided.id = accepted
    <3>1. /\ status'.id = accepted /\ status'.result = decided.result
          /\ status'.state = IF decided.result = "OK" THEN "SUCCEEDED" ELSE "FAILED"
      BY <2>9, FieldsOf DEF Outcome
    <3>. QED BY <2>4, <2>6, <2>9, <3>1 DEF Settled
  <2>. QED BY <2>1, <2>3, <2>7, <2>8, <2>9
<1>2. ServiceIInv /\ [ServiceNext]_serviceVars =>
        [status' # status =>
          /\ status'.id = accepted
          /\ (status'.state = "NONE") <=> (accepted = 0)
          /\ ~Settled(status') => status'.result = "OK"
          /\ Settled(status') =>
               /\ decided = [id |-> status'.id, result |-> status'.result]
               /\ (status'.state = "SUCCEEDED") <=> (status'.result = "OK")
          /\ ~(Settled(status) /\ status'.id = status.id)]_serviceVars
  BY <1>1 DEF serviceVars
<1>. QED BY <1>2, ServiceInductive, PTL DEF ServiceSpec, StatusIsTrue
=============================================================================
