--------------------------- MODULE PairingScreen ---------------------------
(* How a pairing code reaches the screen and leaves it, aiqa_runtime.c: the *)
(* owner of the USB link sends SHOW and CLEAR commands to the UI task and   *)
(* waits for each, the UI task draws, and the application posts the states  *)
(* whose pages it draws when no code covers them.  A wait may expire while  *)
(* the command is still queued or being drawn; drawing may fail.            *)
EXTENDS Integers, Sequences

CONSTANTS
  SequenceWrap,      \* command sequences are below it (2^32), and it is even
  UiDepth,           \* places in the command queue (AIQA_UI_QUEUE_DEPTH, 8)
  MaxWindows,        \* bound: pairing windows the owner opens
  MaxLocalResets,    \* bound: resets of a faulted lifecycle
  MaxPosts,          \* bound: states the application posts
  MaxFaults          \* bound: drawings that fail

\* No run of the device comes near 2^32 commands: a window sends two at most,
\* a local reset one.
ASSUME ScreenAssumption ==
  /\ SequenceWrap \in Nat /\ {MaxWindows, MaxLocalResets} \subseteq Nat
  /\ 2 * MaxWindows + MaxLocalResets < SequenceWrap - 1

VARIABLES
  commandSequence,   \* s_pairing_ui_command_sequence
  completedSequence, \* s_pairing_ui_completed_sequence
  completedOk,       \* s_pairing_ui_completed_ok
  canceledSequence,  \* s_pairing_ui_canceled_sequence, 0: none
  ack,               \* s_pairing_ui_ack, a binary semaphore
  uiQueue,           \* s_ui_queue: commands
  stateSlot,         \* s_ui_state_queue: the state posted last, or None
  posted,            \* the number of the last state posted, 0: BOOT
  link,              \* the owner: its place, command and reason
  codeVisible,       \* the lifecycle's code_visible
  fault,             \* the lifecycle is in FAULT
  ui,                \* the UI task: its place, message and result
  lastPage,          \* its last_message
  overlay,           \* its pairing_overlay
  pageDirty,         \* its page_dirty
  displayReady,      \* its display_ready
  screen,            \* the code (its command) and the page the panel shows
  uses               \* how often each bounded event came

commandVars == <<commandSequence, completedSequence, completedOk, canceledSequence,
                 ack, uiQueue>>
ownerVars == <<link, codeVisible, fault>>
uiVars == <<ui, lastPage, overlay, pageDirty, displayReady, screen>>
screenVars == <<commandVars, stateSlot, posted, ownerVars, uiVars, uses>>

None == -1
Message(t, n) == [type |-> t, number |-> n]
IdleTurn == Message("NONE", 0)

\* The command counter wraps after 2^32 commands, from any settled state.
ScreenInit ==
  /\ commandSequence \in {0, SequenceWrap - 1}
  /\ completedSequence = commandSequence /\ completedOk = FALSE
  /\ canceledSequence = 0 /\ ack = FALSE
  /\ uiQueue = <<>> /\ stateSlot = None /\ posted = 0
  /\ link = [pc |-> "idle", sequence |-> 0, type |-> "CLEAR", reason |-> "close"]
  /\ codeVisible = FALSE /\ fault = FALSE
  /\ ui = [pc |-> "loop", message |-> IdleTurn, ok |-> FALSE]
  /\ lastPage = 0 /\ overlay = FALSE
  /\ displayReady \in BOOLEAN /\ pageDirty \in {FALSE, displayReady}
  /\ screen = [code |-> 0, page |-> IF displayReady /\ ~pageDirty THEN 0 ELSE None]
  /\ uses = [windows |-> 0, resets |-> 0, posts |-> 0, faults |-> 0]

-----------------------------------------------------------------------------
(* The owner: local_open, clear_code, enter_fault and local_reset *)

NextSequence == IF (commandSequence + 1) % SequenceWrap = 0 THEN 1
                ELSE commandSequence + 1

\* The first half of post_pairing_ui_command: forget an old acknowledgement,
\* number the command and queue it, or learn that the queue stays full.
Send(type, reason) ==
  /\ ack' = FALSE
  /\ commandSequence' = NextSequence
  /\ IF Len(uiQueue) < UiDepth
     THEN /\ uiQueue' = Append(uiQueue, Message(type, NextSequence))
          /\ link' = [pc |-> "wait", sequence |-> NextSequence, type |-> type,
                      reason |-> reason]
     ELSE /\ UNCHANGED uiQueue
          /\ link' = [pc |-> "refused", sequence |-> NextSequence, type |-> type,
                      reason |-> reason]
  /\ UNCHANGED <<completedSequence, completedOk, canceledSequence, stateSlot,
                 posted, uiVars>>

OpenWindow ==
  /\ link.pc = "idle" /\ ~codeVisible /\ ~fault /\ uses.windows < MaxWindows
  /\ uses' = [uses EXCEPT !.windows = @ + 1]
  /\ codeVisible' = TRUE
  /\ Send("SHOW", "open")
  /\ UNCHANGED fault

\* The code is consumed by an attempt, or its window ends.
CloseWindow ==
  /\ link.pc = "idle" /\ codeVisible /\ ~fault
  /\ Send("CLEAR", "close")
  /\ UNCHANGED <<codeVisible, fault, uses>>

\* A code whose showing failed is cleared by enter_fault.
ClearInFault ==
  /\ link.pc = "enterFault"
  /\ Send("CLEAR", "fault")
  /\ UNCHANGED <<codeVisible, fault, uses>>

LocalReset ==
  /\ link.pc = "idle" /\ fault /\ uses.resets < MaxLocalResets
  /\ uses' = [uses EXCEPT !.resets = @ + 1]
  /\ IF codeVisible
     THEN Send("CLEAR", "reset") /\ UNCHANGED <<codeVisible, fault>>
     ELSE /\ fault' = FALSE
          /\ UNCHANGED <<commandVars, stateSlot, posted, link, codeVisible, uiVars>>

\* An owner that took any acknowledgement for its own.
MutAcknowledges(n) == n # 0

\* An acknowledgement is for the command whose number the UI task left.
Acknowledges(n) == completedSequence = n

TakeAck ==
  /\ link.pc = "wait" /\ ack
  /\ ack' = FALSE
  /\ link' = [link EXCEPT !.pc =
                IF Acknowledges(link.sequence) THEN "matched" ELSE "wait"]
  /\ UNCHANGED <<commandSequence, completedSequence, completedOk, canceledSequence,
                 uiQueue, stateSlot, posted, codeVisible, fault, uiVars, uses>>

\* What the lifecycle makes of the answer to its command.
Answered(ok) ==
  /\ codeVisible' = (IF link.type = "CLEAR" THEN codeVisible /\ ~ok ELSE codeVisible)
  /\ fault' = CASE link.reason = "open" -> FALSE
                [] link.reason = "fault" -> TRUE
                [] OTHER -> ~ok
  /\ link' = [link EXCEPT !.pc =
                IF link.reason = "open" /\ ~ok THEN "enterFault" ELSE "idle"]

ReadAnswer ==
  /\ link.pc = "matched"
  /\ Answered(completedOk)
  /\ UNCHANGED <<commandVars, stateSlot, posted, uiVars, uses>>

\* 1500 ms are over: the command is given up wherever it is.
TimeOut ==
  /\ link.pc = "wait"
  /\ canceledSequence' = link.sequence
  /\ Answered(FALSE)
  /\ UNCHANGED <<commandSequence, completedSequence, completedOk, ack, uiQueue,
                 stateSlot, posted, uiVars, uses>>

Refused ==
  /\ link.pc = "refused"
  /\ Answered(FALSE)
  /\ UNCHANGED <<commandVars, stateSlot, posted, uiVars, uses>>

-----------------------------------------------------------------------------
(* The application task: post_ui_state overwrites what is not yet taken *)

PostState ==
  /\ uses.posts < MaxPosts
  /\ uses' = [uses EXCEPT !.posts = @ + 1]
  /\ posted' = posted + 1
  /\ stateSlot' = posted'
  /\ UNCHANGED <<commandVars, ownerVars, uiVars>>

-----------------------------------------------------------------------------
(* The UI task: one turn of its loop *)

\* Whether a command number is one given up, or older, in 32-bit arithmetic.
Canceled(n) ==
  LET age == (n - canceledSequence) % SequenceWrap
  IN canceledSequence # 0 /\ (age = 0 \/ age >= SequenceWrap \div 2)

\* Draw what is asked.  A failed drawing may leave the old picture or the new.
Draw(picture, ok) ==
  \/ /\ ok /\ displayReady
     /\ screen' = picture /\ UNCHANGED uses
  \/ /\ ~ok /\ displayReady /\ uses.faults < MaxFaults
     /\ screen' \in {screen, picture}
     /\ uses' = [uses EXCEPT !.faults = @ + 1]
  \/ /\ ~ok /\ ~displayReady
     /\ UNCHANGED <<screen, uses>>

Page == [code |-> 0, page |-> lastPage]

\* A message is taken, or the wait for one expires; a display that failed to
\* start is tried again from time to time.
Receive ==
  /\ ui.pc = "loop"
  /\ \/ /\ uiQueue # <<>>
        /\ ui' = [ui EXCEPT !.pc = "handle", !.message = Head(uiQueue)]
        /\ uiQueue' = Tail(uiQueue) /\ UNCHANGED stateSlot
     \/ /\ stateSlot # None
        /\ ui' = [ui EXCEPT !.pc = "handle", !.message = Message("STATE", stateSlot)]
        /\ stateSlot' = None /\ UNCHANGED uiQueue
     \/ /\ uiQueue = <<>> /\ stateSlot = None
        /\ ui' = [ui EXCEPT !.pc = "handle", !.message = IdleTurn]
        /\ UNCHANGED <<uiQueue, stateSlot>>
  /\ displayReady' \in {displayReady, TRUE}
  /\ pageDirty' = (pageDirty \/ displayReady' # displayReady)
  /\ UNCHANGED <<commandSequence, completedSequence, completedOk, canceledSequence,
                 ack, posted, ownerVars, lastPage, overlay, screen, uses>>

\* A SHOW given up before the UI task looks is answered and not drawn.
Look ==
  /\ ui.pc = "handle" /\ ui.message.type = "SHOW"
  /\ ui' = IF Canceled(ui.message.number)
           THEN [ui EXCEPT !.pc = "done", !.ok = FALSE]
           ELSE [ui EXCEPT !.pc = "show"]
  /\ UNCHANGED <<commandVars, stateSlot, posted, ownerVars, lastPage, overlay,
                 pageDirty, displayReady, screen, uses>>

DrawCode ==
  /\ ui.pc = "show"
  /\ \E ok \in BOOLEAN :
       /\ Draw([code |-> ui.message.number, page |-> screen.page], ok)
       /\ overlay' = ok
       /\ pageDirty' = (pageDirty \/ ~ok)
       /\ ui' = [ui EXCEPT !.pc = "done", !.ok = ok]
  /\ UNCHANGED <<commandVars, stateSlot, posted, ownerVars, lastPage, displayReady>>

\* A clear that counted its page as drawn.
MutStillDirty(ok) == FALSE

\* A page that could not be drawn is drawn again by a later turn.
StillDirty(ok) == ~ok

\* A CLEAR that gave way to a cancellation as a SHOW does.
MutClear ==
  /\ ui.pc = "handle" /\ ui.message.type = "CLEAR"
  /\ IF Canceled(ui.message.number)
     THEN /\ ui' = [ui EXCEPT !.pc = "done", !.ok = FALSE]
          /\ UNCHANGED <<overlay, pageDirty, screen, uses>>
     ELSE \E ok \in BOOLEAN :
       /\ Draw(Page, ok)
       /\ overlay' = FALSE
       /\ pageDirty' = StillDirty(ok)
       /\ ui' = [ui EXCEPT !.pc = "done", !.ok = ok]
  /\ UNCHANGED <<commandVars, stateSlot, posted, ownerVars, lastPage, displayReady>>

Clear ==
  /\ ui.pc = "handle" /\ ui.message.type = "CLEAR"
  /\ \E ok \in BOOLEAN :
       /\ Draw(Page, ok)
       /\ overlay' = FALSE
       /\ pageDirty' = StillDirty(ok)
       /\ ui' = [ui EXCEPT !.pc = "done", !.ok = ok]
  /\ UNCHANGED <<commandVars, stateSlot, posted, ownerVars, lastPage, displayReady>>

\* The result, its number, the acknowledgement, in this order.
ReportOk ==
  /\ ui.pc = "done"
  /\ completedOk' = ui.ok
  /\ ui' = [ui EXCEPT !.pc = "number"]
  /\ UNCHANGED <<commandSequence, completedSequence, canceledSequence, ack, uiQueue,
                 stateSlot, posted, ownerVars, lastPage, overlay, pageDirty,
                 displayReady, screen, uses>>

ReportNumber ==
  /\ ui.pc = "number"
  /\ completedSequence' = ui.message.number
  /\ ui' = [ui EXCEPT !.pc = "ack"]
  /\ UNCHANGED <<commandSequence, completedOk, canceledSequence, ack, uiQueue,
                 stateSlot, posted, ownerVars, lastPage, overlay, pageDirty,
                 displayReady, screen, uses>>

GiveAck ==
  /\ ui.pc = "ack"
  /\ ack' = TRUE
  /\ ui' = [ui EXCEPT !.pc = "loop", !.message = IdleTurn]
  /\ UNCHANGED <<commandSequence, completedSequence, completedOk, canceledSequence,
                 uiQueue, stateSlot, posted, ownerVars, lastPage, overlay, pageDirty,
                 displayReady, screen, uses>>

\* A state is kept, and drawn unless a code covers it.
ShowState ==
  /\ ui.pc = "handle" /\ ui.message.type = "STATE"
  /\ lastPage' = ui.message.number
  /\ IF overlay \/ ~displayReady
     THEN pageDirty' = TRUE /\ UNCHANGED <<screen, uses>>
     ELSE \E ok \in BOOLEAN : Draw([code |-> 0, page |-> lastPage'], ok) /\ pageDirty' = ~ok
  /\ ui' = [ui EXCEPT !.pc = "loop", !.message = IdleTurn]
  /\ UNCHANGED <<commandVars, stateSlot, posted, ownerVars, overlay, displayReady>>

\* No message: a page still dirty is drawn, otherwise the pet moves on it.
Animate ==
  /\ ui.pc = "handle" /\ ui.message = IdleTurn
  /\ IF displayReady /\ ~overlay /\ pageDirty
     THEN \E ok \in BOOLEAN : Draw(Page, ok) /\ pageDirty' = ~ok
     ELSE UNCHANGED <<screen, pageDirty, uses>>
  /\ ui' = [ui EXCEPT !.pc = "loop"]
  /\ UNCHANGED <<commandVars, stateSlot, posted, ownerVars, lastPage, overlay,
                 displayReady>>

-----------------------------------------------------------------------------

OwnerWork == ClearInFault \/ TakeAck \/ ReadAnswer \/ TimeOut \/ Refused

UiWork ==
  \/ Receive \/ Look \/ DrawCode \/ Clear \/ ReportOk \/ ReportNumber \/ GiveAck
  \/ ShowState \/ Animate

ScreenNext ==
  OpenWindow \/ CloseWindow \/ LocalReset \/ PostState \/ OwnerWork \/ UiWork

ScreenSpec == ScreenInit /\ [][ScreenNext]_screenVars

-----------------------------------------------------------------------------

\* What the lifecycle believes of the screen is so, although its answers may
\* come late or not at all: with a window open its own code is on the panel,
\* and with no code out, in FAULT too, none is.
CodeIsWhereBelieved ==
  link.pc = "idle" =>
    /\ codeVisible /\ ~fault => screen.code = link.sequence
    /\ ~codeVisible => screen.code = 0

\* A code the lifecycle gave up on leaves the panel with no one's help: the
\* CLEAR sent after it is drawn, whatever its sender was told of it.
GivenUpCodeLeaves == fault ~> screen.code = 0

\* Unless a code covers it, the panel comes to show the state posted last,
\* through failed drawings, a late display and states posted under a code.
LatestStateIsShown == []<>(overlay \/ screen = [code |-> 0, page |-> posted])
=============================================================================
