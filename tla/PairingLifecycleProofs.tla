----------------------- MODULE PairingLifecycleProofs -----------------------
(***************************************************************************)
(* IInv is an inductive invariant of PairingLifecycle for every set of     *)
(* ids, every safe policy, every clock width and every number of faults.   *)
(* The safety properties the runs check follow from it.                    *)
(***************************************************************************)
EXTENDS PairingLifecycle, TLAPS

USE PolicyIsSafe

\* Deadlines are times, and saturation only makes them earlier.
LEMMA DeadlineAfter ==
  ASSUME NEW t \in Times, NEW d \in Nat, d <= ClockMax
  PROVE  deadline_after(t, d) \in Times /\ deadline_after(t, d) <= t + d
BY DEF deadline_after, Times

\* The step deadline a handshake gets is a time.
LEMMA NewStepType ==
  ASSUME TypeOK
  PROVE  NewStep \in Times
<1>1. deadline_after(now, Step) \in Times
  BY DeadlineAfter DEF TypeOK, Times
<1>2. deadline.window \in Times
  BY DEF TypeOK, Deadlines
<1>. QED  BY <1>1, <1>2 DEF NewStep, earlier_deadline

\* An attempt count settles in one of two states.
LEMMA SettledState ==
  ASSUME NEW n \in 0..MaxAttempts
  PROVE  /\ Settled(n) \in {"INACTIVE", "LOCKED"}
         /\ Settled(n) = "LOCKED" => n = MaxAttempts
BY DEF Settled

\* The initial states satisfy the inductive invariant.
LEMMA InitIInv == Init => IInv
<1>. SUFFICES ASSUME Init PROVE IInv
  OBVIOUS
<1>1. TypeOK
  <2>1. deadline \in Deadlines /\ durable \in Records /\ 0 \in Times
    BY DEF Init, Deadlines, NoDeadline, Records, Absent, Times
  <2>2. guesses \in Nat /\ windowGuesses \in Nat /\ faults \in 0..MaxFaults /\ attempts \in 0..MaxAttempts
    BY DEF Init
  <2>. QED  BY <2>1, <2>2 DEF Init, TypeOK, States
<1>2. LedgerIsDurable /\ Budget
  BY DEF Init, LedgerIsDurable, Budget, OneGuessPerWindow, Absent
<1>3. IdShape /\ CodeShape /\ DeadlineShape
  BY DEF Init, IdShape, CodeShape, DeadlineShape, CeilingsHold, Live, Pairing
<1>. QED  BY <1>1, <1>2, <1>3 DEF IInv

----------------------------------------------------------------------------
\* What closing a window, handshake or session does, whoever asks for it.

\* Revoking and wiping the code leave nothing bound and nothing untracked.
LEMMA Closing ==
  ASSUME IInv, Revoke, state' \in {"INACTIVE", "LOCKED", "FAULT"}, exposing' = FALSE,
         CodeCleared \/ (CodeNotCleared /\ state' = "FAULT")
  PROVE  /\ IdShape' /\ CodeShape' /\ DeadlineShape'
         /\ state' \in States /\ connection_id' = NoId /\ handshake_id' = NoId
         /\ code' \in BOOLEAN /\ code_visible' \in BOOLEAN /\ screen' \in BOOLEAN
<1>1. IdShape'
  BY DEF IdShape, Revoke, Live
<1>2. CodeShape' /\ code' \in BOOLEAN /\ code_visible' \in BOOLEAN /\ screen' \in BOOLEAN
  BY DEF IInv, TypeOK, CodeShape, CodeCleared, CodeNotCleared
<1>3. DeadlineShape'
  BY DEF DeadlineShape, CeilingsHold, Pairing
<1>. QED  BY <1>1, <1>2, <1>3 DEF Revoke, States

\* No deadlines are deadlines.
LEMMA NoDeadlineType == NoDeadline \in Deadlines
BY DEF NoDeadline, Deadlines, Times

\* Entering FAULT closes.
LEMMA Faulting ==
  ASSUME IInv, exposing' = FALSE, EnterFault \/ CloseTo("FAULT") \/ FaultAfterClearFailure
  PROVE  /\ IdShape' /\ CodeShape' /\ DeadlineShape' /\ LedgerIsDurable'
         /\ state' = "FAULT" /\ deadline' \in Deadlines
         /\ state' \in States /\ connection_id' = NoId /\ handshake_id' = NoId
         /\ code' \in BOOLEAN /\ code_visible' \in BOOLEAN /\ screen' \in BOOLEAN
<1>1. /\ Revoke /\ state' = "FAULT" /\ deadline' = NoDeadline
      /\ CodeCleared \/ (CodeNotCleared /\ state' = "FAULT")
  BY DEF EnterFault, CloseTo, FaultAfterClearFailure
<1>. QED  BY <1>1, Closing, NoDeadlineType DEF LedgerIsDurable

\* Closing with the attempts there are closes, and locks only when they are all used.
LEMMA Settling ==
  ASSUME IInv, state # "NONE", state # "FAULT", exposing' = FALSE, Revoke, CodeCleared,
         state' = Settled(attempts), UNCHANGED <<attempts, durable>>
  PROVE  /\ IdShape' /\ CodeShape' /\ DeadlineShape' /\ LedgerIsDurable'
         /\ state' \in States \ Live /\ connection_id' = NoId /\ handshake_id' = NoId
         /\ code' \in BOOLEAN /\ code_visible' \in BOOLEAN /\ screen' \in BOOLEAN
<1>1. Settled(attempts) \in {"INACTIVE", "LOCKED"} /\ (Settled(attempts) = "LOCKED" => attempts = MaxAttempts)
  BY SettledState DEF IInv, TypeOK
<1>2. LedgerIsDurable'
  BY <1>1 DEF IInv, LedgerIsDurable
<1>3. state' \in {"INACTIVE", "LOCKED", "FAULT"} /\ state' \in States \ Live
  BY <1>1 DEF Live, States
<1>. QED  BY <1>2, <1>3, Closing

\* A failed store leaves a record that allows no more guesses than before.
LEMMA StoreFailure ==
  ASSUME IInv, NEW n \in Nat, StoreFails(n)
  PROVE  /\ durable' \in Records
         /\ durable'.kind # "count" => durable'.used = 0
         /\ durable'.used < durable.used => durable'.used = n
<1>1. CASE durable' = durable
  BY <1>1 DEF IInv, TypeOK, Budget, Records
<1>2. CASE durable' = Count(n) /\ n <= MaxAttempts
  BY <1>2 DEF Count, Records
<1>3. CASE durable' = Bad /\ durable.kind = "absent"
  BY <1>3 DEF IInv, TypeOK, Budget, Bad, Records
<1>. QED  BY <1>1, <1>2, <1>3 DEF StoreFails

\* What a call that goes on after its refresh knows.
LEMMA InTimeFacts ==
  ASSUME TypeOK, InTime
  PROVE  /\ state \notin {"NONE", "FAULT"} /\ exposing = FALSE
         /\ last_now' = now /\ now \in Times
         /\ state \in Pairing => now < deadline.window
         /\ state = "ACTIVE" => now < deadline.absolute
<1>1. now \in 0..ClockMax /\ deadline \in Deadlines /\ exposing \in BOOLEAN
  BY DEF TypeOK, Times
<1>2. deadline.window \in 0..ClockMax /\ deadline.absolute \in 0..ClockMax
  BY <1>1 DEF Deadlines, Times
<1>. QED  BY <1>1, <1>2 DEF InTime, Callable, Expired, Pairing, Times

\* Such a call keeps the ceilings when it opens nothing and activates nothing.
LEMMA Onward ==
  ASSUME IInv, InTime, UNCHANGED <<openedAt, activeAt>>,
         deadline'.window = deadline.window, deadline'.absolute = deadline.absolute,
         state' \in Pairing => state \in Pairing, state' = "ACTIVE" => state = "ACTIVE"
  PROVE  DeadlineShape'
<1>1. /\ now \in 0..ClockMax /\ openedAt \in 0..ClockMax /\ activeAt \in 0..ClockMax
      /\ deadline.window \in 0..ClockMax /\ deadline.absolute \in 0..ClockMax
  BY DEF IInv, TypeOK, Deadlines, Times
<1>2. /\ last_now' = now
      /\ state \in Pairing => now < deadline.window /\ deadline.window <= openedAt + Window
      /\ state = "ACTIVE" => now < deadline.absolute /\ deadline.absolute <= activeAt + Absolute
  BY InTimeFacts DEF IInv, DeadlineShape
<1>. QED  BY <1>1, <1>2 DEF DeadlineShape, CeilingsHold

\* A step that touches neither state, ids, ledger nor guesses keeps their parts.
LEMMA Frame ==
  ASSUME IInv, UNCHANGED <<state, attempts, code, code_visible, connection_id, handshake_id,
                           exposing, durable, guesses, windowGuesses>>
  PROVE  /\ LedgerIsDurable' /\ Budget' /\ IdShape'
         /\ (screen' => code_visible) => CodeShape'
<1>1. LedgerIsDurable' /\ Budget'
  BY DEF IInv, LedgerIsDurable, Budget, OneGuessPerWindow
<1>2. IdShape'
  BY DEF IInv, IdShape
<1>. QED  BY <1>1, <1>2 DEF IInv, CodeShape

\* Whatever faults keeps the ledger of attempts and binds nothing.
LEMMA FaultStep ==
  ASSUME IInv, exposing' = FALSE, Faulty,
         EnterFault \/ CloseTo("FAULT") \/ FaultAfterClearFailure,
         durable' \in Records, durable'.kind # "count" => durable'.used = 0,
         guesses' \in Nat, guesses' <= durable'.used,
         windowGuesses' \in Nat, windowGuesses' <= 1,
         last_now' \in Times, openedAt' \in Times, activeAt' \in Times,
         presence' \in SUBSET Actions, UNCHANGED <<attempts, now>>
  PROVE  IInv'
<1>1. /\ IdShape' /\ CodeShape' /\ DeadlineShape' /\ LedgerIsDurable'
      /\ state' = "FAULT" /\ deadline' \in Deadlines
      /\ state' \in States /\ connection_id' = NoId /\ handshake_id' = NoId
      /\ code' \in BOOLEAN /\ code_visible' \in BOOLEAN /\ screen' \in BOOLEAN
  BY Faulting
<1>2. attempts' \in 0..MaxAttempts /\ now' \in Times /\ faults' \in 0..MaxFaults
  BY DEF IInv, TypeOK, Faulty
<1>3. TypeOK'
  BY <1>1, <1>2 DEF TypeOK
<1>4. Budget'
  BY <1>1 DEF Budget, OneGuessPerWindow
<1>. QED  BY <1>1, <1>3, <1>4 DEF IInv

----------------------------------------------------------------------------
\* One lemma per action.

\* A boot takes the attempts from flash, or faults.
LEMMA PowerOnStep ==
  ASSUME IInv, PowerOn
  PROVE  IInv'
<1>1. /\ durable.used \in 0..MaxAttempts
      /\ Settled(durable.used) \in {"INACTIVE", "LOCKED"}
      /\ Settled(durable.used) = "LOCKED" => durable.used = MaxAttempts
  <2>1. durable.used \in 0..MaxAttempts
    BY DEF IInv, TypeOK, Records
  <2>. QED  BY <2>1, SettledState
<1>2. /\ state = "NONE" /\ state' \in {"INACTIVE", "LOCKED", "FAULT"}
      /\ UNCHANGED <<deadline, ids, codes, exposing, now, durable, presence, ghosts>>
  BY <1>1 DEF PowerOn
<1>3. TypeOK'
  BY <1>1, <1>2 DEF IInv, TypeOK, PowerOn, Faulty, States, ids, codes, ghosts
<1>4. LedgerIsDurable'
  BY <1>1 DEF LedgerIsDurable, PowerOn
<1>5. Budget' /\ IdShape'
  BY <1>2 DEF IInv, Budget, OneGuessPerWindow, IdShape, Live, ids, ghosts
<1>6. CodeShape' /\ DeadlineShape'
  BY <1>2 DEF IInv, CodeShape, IdShape, DeadlineShape, CeilingsHold, Pairing, codes
<1>. QED  BY <1>3, <1>4, <1>5, <1>6 DEF IInv

\* Losing the RAM closes everything and leaves the ledger.
LEMMA PowerLossStep ==
  ASSUME IInv, PowerLoss
  PROVE  IInv'
<1>1. TypeOK'
  <2>1. 0 \in Times /\ 0 \in 0..MaxAttempts /\ "NONE" \in States /\ {} \in SUBSET Actions
    BY DEF Times, States
  <2>. QED  BY <2>1, NoDeadlineType DEF IInv, TypeOK, PowerLoss, ghosts
<1>2. Budget'
  <2>1. guesses \in Nat /\ durable.used \in 0..MaxAttempts
    BY DEF IInv, TypeOK, Records
  <2>. QED  BY <2>1 DEF IInv, Budget, OneGuessPerWindow, PowerLoss, ghosts
<1>3. LedgerIsDurable' /\ IdShape' /\ CodeShape' /\ DeadlineShape'
  BY DEF LedgerIsDurable, IdShape, CodeShape, DeadlineShape, CeilingsHold, PowerLoss, Live, Pairing
<1>. QED  BY <1>1, <1>2, <1>3 DEF IInv

\* Time, the button task and a late display change nothing the lifecycle keeps.
LEMMA OutsideStep ==
  ASSUME IInv, TimePasses \/ DisplaySettles \/ (\E a \in Actions : PostLocalAction(a) \/ DropLocalAction(a))
  PROVE  IInv'
<1>1. /\ UNCHANGED <<state, attempts, code, code_visible, last_now, deadline, ids, exposing,
                     durable, ghosts, faults>>
      /\ now' \in Times /\ presence' \in SUBSET Actions
      /\ screen' \in BOOLEAN /\ (screen' => code_visible)
  <2>1. CASE TimePasses
    BY <2>1 DEF IInv, TypeOK, CodeShape, Times, TimePasses, codes
  <2>2. CASE DisplaySettles
    BY <2>2 DEF IInv, TypeOK, DisplaySettles
  <2>3. CASE \E a \in Actions : PostLocalAction(a) \/ DropLocalAction(a)
    BY <2>3 DEF IInv, TypeOK, CodeShape, PostLocalAction, DropLocalAction, codes
  <2>. QED  BY <2>1, <2>2, <2>3
<1>2. TypeOK'
  BY <1>1 DEF IInv, TypeOK, ids, ghosts
<1>3. DeadlineShape'
  BY <1>1 DEF IInv, DeadlineShape, CeilingsHold, ghosts
<1>. QED  BY <1>1, <1>2, <1>3, Frame DEF IInv, ids, ghosts

\* A refresh that finds nothing overdue notes the time.
LEMMA TickStep ==
  ASSUME IInv, Tick
  PROVE  IInv'
<1>1. TypeOK'
  BY DEF IInv, TypeOK, Tick, InTime, codes, ids, ghosts
<1>2. DeadlineShape'
  BY Onward DEF Tick, ghosts
<1>. QED  BY <1>1, <1>2, Frame DEF Tick, IInv, CodeShape, codes, ids, ghosts

\* A call that only renews the step or idle deadline keeps everything else.
LEMMA Renewal ==
  ASSUME IInv, InTime, deadline' \in Deadlines,
         deadline'.window = deadline.window, deadline'.absolute = deadline.absolute,
         UNCHANGED <<state, attempts, codes, ids, exposing, now, durable, presence, ghosts, faults>>
  PROVE  IInv'
<1>1. TypeOK'
  BY DEF IInv, TypeOK, InTime, codes, ids, ghosts
<1>2. DeadlineShape'
  BY Onward DEF ghosts
<1>. QED  BY <1>1, <1>2, Frame DEF IInv, CodeShape, codes, ids, ghosts

\* Progress renews the step deadline, no more.
LEMMA ProgressStep ==
  ASSUME IInv, NEW c \in Connections, NEW h \in Handshakes, HandshakeProgress(c, h)
  PROVE  IInv'
<1>1. deadline' \in Deadlines /\ deadline'.window = deadline.window /\ deadline'.absolute = deadline.absolute
  BY NewStepType DEF IInv, TypeOK, HandshakeProgress, Deadlines
<1>. QED  BY <1>1, Renewal DEF HandshakeProgress

\* Activity renews the idle deadline, no more.
LEMMA ActivityStep ==
  ASSUME IInv, NEW c \in Connections, AuthenticatedActivity(c)
  PROVE  IInv'
<1>1. deadline \in Deadlines /\ deadline.absolute \in Times /\ deadline_after(now, Idle) \in Times
  BY DeadlineAfter DEF IInv, TypeOK, Deadlines
<1>2. earlier_deadline(deadline_after(now, Idle), deadline.absolute) \in Times
  BY <1>1 DEF earlier_deadline
<1>3. deadline' \in Deadlines /\ deadline'.window = deadline.window /\ deadline'.absolute = deadline.absolute
  BY <1>1, <1>2 DEF AuthenticatedActivity, Deadlines
<1>. QED  BY <1>3, Renewal DEF AuthenticatedActivity

\* The handshake waits for its last message to be sent.
LEMMA ClientFinishedVerifiedStep ==
  ASSUME IInv, NEW c \in Connections, NEW h \in Handshakes, ClientFinishedVerified(c, h)
  PROVE  IInv'
<1>1. /\ InTime /\ exposing = FALSE /\ state = "HANDSHAKE" /\ state' = "WAIT_FINISHED_SENT"
      /\ UNCHANGED <<attempts, codes, ids, exposing, now, durable, presence, ghosts, faults>>
  BY InTimeFacts DEF IInv, ClientFinishedVerified
<1>2. deadline' \in Deadlines /\ deadline'.window = deadline.window /\ deadline'.absolute = deadline.absolute
  BY NewStepType DEF IInv, TypeOK, ClientFinishedVerified, Deadlines
<1>3. TypeOK'
  BY <1>1, <1>2 DEF IInv, TypeOK, InTime, States, Live, codes, ids, ghosts
<1>4. LedgerIsDurable' /\ Budget'
  BY <1>1 DEF IInv, LedgerIsDurable, Budget, OneGuessPerWindow, ghosts
<1>5. IdShape' /\ CodeShape'
  BY <1>1 DEF IInv, IdShape, CodeShape, Live, ids, codes
<1>6. DeadlineShape'
  BY <1>1, <1>2, Onward DEF Pairing, ghosts
<1>. QED  BY <1>3, <1>4, <1>5, <1>6 DEF IInv

\* A window opens from INACTIVE, with attempts left and none of them used in it.
LEMMA LocalOpenStep ==
  ASSUME IInv, NEW c \in Connections, LocalOpen(c)
  PROVE  IInv'
<1>1. /\ InTime /\ state = "INACTIVE" /\ exposing = FALSE /\ last_now' = now /\ now \in Times
      /\ connection_id = NoId /\ handshake_id = NoId
      /\ screen = FALSE /\ code_visible = FALSE
      /\ presence' \in SUBSET Actions /\ faults' \in 0..MaxFaults
      /\ UNCHANGED <<attempts, exposing, now, durable>>
  <2>1. InTime /\ state = "INACTIVE" /\ presence' = presence \ {"START"}
        /\ UNCHANGED <<attempts, exposing, now, durable>>
    BY DEF LocalOpen
  <2>2. exposing = FALSE /\ last_now' = now /\ now \in Times
    BY <2>1, InTimeFacts DEF IInv
  <2>3. connection_id = NoId /\ handshake_id = NoId
    BY <2>1 DEF IInv, IdShape, Live
  <2>4. screen = FALSE /\ code_visible = FALSE
    BY <2>1, <2>2 DEF IInv, TypeOK, CodeShape
  <2>5. presence' \in SUBSET Actions /\ faults' \in 0..MaxFaults
    <3>1. faults' = faults \/ Faulty
      BY DEF LocalOpen
    <3>2. faults \in 0..MaxFaults /\ presence \in SUBSET Actions
      BY DEF IInv, TypeOK
    <3>. QED  BY <2>1, <3>1, <3>2 DEF Faulty
  <2>. QED  BY <2>1, <2>2, <2>3, <2>4, <2>5
<1>2. CASE /\ state' = "AVAILABLE"
           /\ code' = TRUE /\ code_visible' = TRUE /\ screen' = TRUE
           /\ connection_id' = c
           /\ deadline' = [deadline EXCEPT !.window = deadline_after(now, Window)]
           /\ openedAt' = now
           /\ windowGuesses' = 0
           /\ UNCHANGED <<handshake_id, guesses, activeAt, faults>>
  <2>1. deadline_after(now, Window) \in Times /\ deadline_after(now, Window) <= now + Window
    BY <1>1, DeadlineAfter
  <2>2. deadline' \in Deadlines /\ deadline'.window = deadline_after(now, Window)
    BY <1>2, <2>1 DEF IInv, TypeOK, Deadlines
  <2>3. TypeOK'
    BY <1>1, <1>2, <2>2 DEF IInv, TypeOK, States, Live
  <2>4. LedgerIsDurable' /\ Budget'
    BY <1>1, <1>2 DEF IInv, LedgerIsDurable, Budget, OneGuessPerWindow
  <2>5. IdShape' /\ CodeShape'
    BY <1>1, <1>2 DEF IdShape, CodeShape, Live
  <2>6. DeadlineShape'
    BY <1>1, <1>2, <2>1, <2>2 DEF DeadlineShape, CeilingsHold, Pairing, Times
  <2>. QED  BY <2>3, <2>4, <2>5, <2>6 DEF IInv
<1>3. CASE UNCHANGED <<state, codes, deadline, ids, ghosts>>
  <2>1. TypeOK'
    BY <1>1, <1>3 DEF IInv, TypeOK, codes, ids, ghosts
  <2>2. DeadlineShape'
    BY <1>1, <1>3, Onward DEF ghosts
  <2>. QED  BY <1>1, <1>3, <2>1, <2>2, Frame DEF IInv, codes, ids, ghosts
<1>4. CASE /\ state' = "FAULT"
           /\ code' = FALSE
           /\ code_visible' \in BOOLEAN
           /\ screen' \in {FALSE, code_visible'}
           /\ deadline' = NoDeadline
           /\ connection_id' = NoId /\ handshake_id' = NoId
           /\ UNCHANGED ghosts
  <2>1. TypeOK'
    BY <1>1, <1>4, NoDeadlineType DEF IInv, TypeOK, States, ghosts
  <2>2. LedgerIsDurable' /\ Budget'
    BY <1>1, <1>4 DEF IInv, LedgerIsDurable, Budget, OneGuessPerWindow, ghosts
  <2>3. IdShape'
    BY <1>1, <1>4 DEF IdShape, Live
  <2>4. CodeShape' /\ DeadlineShape'
    <3>1. screen' => code_visible'
      BY <1>4
    <3>. QED  BY <1>1, <1>4, <3>1 DEF CodeShape, DeadlineShape, CeilingsHold, Pairing
  <2>. QED  BY <2>1, <2>2, <2>3, <2>4 DEF IInv
<1>. QED  BY <1>2, <1>3, <1>4 DEF LocalOpen

\* begin raises the ledger before it exposes the code.
LEMMA BeginStep ==
  ASSUME IInv, NEW c \in Connections, NEW h \in Handshakes, Begin(c, h)
  PROVE  IInv'
<1>1. /\ InTime /\ state = "AVAILABLE" /\ exposing = FALSE /\ last_now' = now /\ now \in Times
      /\ attempts = durable.used /\ windowGuesses = 0
      /\ connection_id \in Connections /\ connection_id # NoId
      /\ UNCHANGED <<now, presence, ghosts>>
  <2>1. InTime /\ state = "AVAILABLE" /\ UNCHANGED <<now, presence, ghosts>>
    BY DEF Begin
  <2>2. exposing = FALSE /\ last_now' = now /\ now \in Times
    BY <2>1, InTimeFacts DEF IInv
  <2>3. attempts = durable.used /\ windowGuesses = 0
    BY <2>1 DEF IInv, LedgerIsDurable, Budget
  <2>4. connection_id \in Connections /\ connection_id # NoId
    BY <2>1 DEF IInv, TypeOK, IdShape, Live
  <2>. QED  BY <2>1, <2>2, <2>3, <2>4
<1>2. /\ attempts \in 0..MaxAttempts /\ durable.used \in 0..MaxAttempts /\ guesses \in Nat
      /\ guesses <= durable.used
  BY <1>1 DEF IInv, TypeOK, Records, Budget
<1>3. CASE /\ Stored(attempts + 1)
           /\ attempts' = attempts + 1
           /\ handshake_id' = h
           /\ deadline' = [deadline EXCEPT !.step = NewStep]
           /\ state' = "HANDSHAKE"
           /\ exposing' = TRUE
           /\ UNCHANGED <<codes, connection_id, faults>>
  <2>1. attempts + 1 \in 0..MaxAttempts /\ durable' = Count(attempts + 1)
    BY <1>2, <1>3 DEF Stored
  <2>2. deadline' \in Deadlines /\ deadline'.window = deadline.window /\ deadline'.absolute = deadline.absolute
    BY <1>3, NewStepType DEF IInv, TypeOK, Deadlines
  <2>3. durable' \in Records /\ durable'.used = attempts + 1 /\ durable'.kind = "count"
    BY <2>1 DEF Count, Records
  <2>4. TypeOK'
    BY <1>1, <1>3, <2>1, <2>2, <2>3 DEF IInv, TypeOK, States, Live, codes, ghosts
  <2>5. LedgerIsDurable' /\ Budget'
    BY <1>1, <1>2, <1>3, <2>3 DEF LedgerIsDurable, Budget, OneGuessPerWindow, ghosts
  <2>6. IdShape' /\ CodeShape'
    BY <1>1, <1>3 DEF IInv, IdShape, CodeShape, Live, codes
  <2>7. DeadlineShape'
    BY <1>1, <1>3, <2>2, Onward DEF Pairing, ghosts
  <2>. QED  BY <2>4, <2>5, <2>6, <2>7 DEF IInv
<1>4. CASE Faulty /\ StoreFails(attempts + 1) /\ EnterFault /\ UNCHANGED <<attempts, exposing>>
  <2>1. attempts + 1 \in Nat
    BY <1>2
  <2>2. /\ durable' \in Records /\ (durable'.kind # "count" => durable'.used = 0)
        /\ (durable'.used < durable.used => durable'.used = attempts + 1)
    BY <1>4, <2>1, StoreFailure
  <2>3. durable'.used \in 0..MaxAttempts /\ guesses <= durable'.used
    BY <1>1, <1>2, <2>2 DEF Records
  <2>4. /\ windowGuesses' \in Nat /\ windowGuesses' <= 1 /\ guesses' \in Nat /\ guesses' <= durable'.used
        /\ last_now' \in Times /\ openedAt' \in Times /\ activeAt' \in Times /\ presence' \in SUBSET Actions
    BY <1>1, <1>2, <2>3 DEF IInv, TypeOK, ghosts
  <2>. QED  BY <1>1, <1>4, <2>2, <2>4, FaultStep
<1>. QED  BY <1>3, <1>4 DEF Begin

\* The code is passed on once, against an attempt that is already in flash.
LEMMA ConsumeCodeStep ==
  ASSUME IInv, ConsumeCode
  PROVE  IInv'
<1>1. /\ exposing = TRUE /\ exposing' = FALSE /\ state = "HANDSHAKE"
      /\ connection_id \in Connections /\ connection_id # NoId
      /\ guesses' = guesses + 1 /\ windowGuesses' = 1
      /\ UNCHANGED <<attempts, last_now, now, durable, presence, openedAt, activeAt>>
  <2>1. exposing /\ exposing' = FALSE /\ guesses' = guesses + 1 /\ windowGuesses' = windowGuesses + 1
        /\ UNCHANGED <<attempts, last_now, now, durable, presence, openedAt, activeAt>>
    BY DEF ConsumeCode
  <2>2. state = "HANDSHAKE" /\ exposing = TRUE
    BY <2>1 DEF IInv, TypeOK, IdShape
  <2>3. connection_id \in Connections /\ connection_id # NoId
    BY <2>2 DEF IInv, TypeOK, IdShape, Live
  <2>4. windowGuesses = 0
    BY <2>1 DEF IInv, Budget
  <2>. QED  BY <2>1, <2>2, <2>3, <2>4
<1>2. guesses' \in Nat /\ windowGuesses' \in Nat /\ guesses' <= durable'.used
  BY <1>1 DEF IInv, TypeOK, Budget
<1>3. Budget' \/ state' = "AVAILABLE"
  BY <1>1, <1>2 DEF IInv, Budget, OneGuessPerWindow
<1>4. CASE CodeCleared /\ UNCHANGED <<state, ids, deadline, faults>>
  <2>1. code' = FALSE /\ code_visible' = FALSE /\ screen' = FALSE
    BY <1>4 DEF IInv, TypeOK, CodeShape, CodeCleared
  <2>2. TypeOK'
    BY <1>1, <1>2, <1>4, <2>1 DEF IInv, TypeOK, ids
  <2>3. LedgerIsDurable' /\ DeadlineShape'
    BY <1>1, <1>4 DEF IInv, LedgerIsDurable, DeadlineShape, CeilingsHold
  <2>4. IdShape' /\ CodeShape'
    BY <1>1, <1>4, <2>1 DEF IInv, IdShape, CodeShape, Live, ids
  <2>. QED  BY <1>1, <1>3, <1>4, <2>2, <2>3, <2>4 DEF IInv
<1>5. CASE CodeCleared /\ Revoke /\ state' = Settled(attempts) /\ UNCHANGED <<deadline, faults>>
  <2>1. /\ IdShape' /\ CodeShape' /\ DeadlineShape' /\ LedgerIsDurable'
        /\ state' \in States \ Live /\ connection_id' = NoId /\ handshake_id' = NoId
          /\ code' \in BOOLEAN /\ code_visible' \in BOOLEAN /\ screen' \in BOOLEAN
    BY <1>1, <1>5, Settling
  <2>2. TypeOK'
    BY <1>1, <1>2, <1>5, <2>1 DEF IInv, TypeOK
  <2>. QED  BY <1>3, <2>1, <2>2 DEF IInv, Live
<1>6. CASE Faulty /\ FaultAfterClearFailure
  <2>1. /\ durable' \in Records /\ (durable'.kind # "count" => durable'.used = 0)
        /\ windowGuesses' \in Nat /\ windowGuesses' <= 1
        /\ last_now' \in Times /\ openedAt' \in Times /\ activeAt' \in Times /\ presence' \in SUBSET Actions
    BY <1>1 DEF IInv, TypeOK, Budget
  <2>. QED  BY <1>1, <1>2, <1>6, <2>1, FaultStep
<1>. QED  BY <1>4, <1>5, <1>6 DEF ConsumeCode

\* A sent Finished clears the ledger in flash before the session starts.
LEMMA DeviceFinishedSentStep ==
  ASSUME IInv, NEW c \in Connections, NEW h \in Handshakes, DeviceFinishedSent(c, h)
  PROVE  IInv'
<1>1. /\ InTime /\ state = "WAIT_FINISHED_SENT" /\ exposing = FALSE /\ exposing' = FALSE
      /\ last_now' = now /\ now \in Times /\ guesses' = 0
      /\ UNCHANGED <<now, presence, windowGuesses, openedAt>>
  BY InTimeFacts DEF IInv, DeviceFinishedSent
<1>2. CASE /\ Stored(0)
           /\ attempts' = 0
           /\ deadline' = [deadline EXCEPT !.idle = deadline_after(now, Idle),
                                           !.absolute = deadline_after(now, Absolute)]
           /\ state' = "ACTIVE"
           /\ activeAt' = now
           /\ UNCHANGED <<codes, ids, faults>>
  <2>1. durable' \in Records /\ durable'.used = 0 /\ durable'.kind = "count"
    BY <1>2 DEF Stored, Count, Records
  <2>2. /\ deadline_after(now, Idle) \in Times /\ deadline_after(now, Absolute) \in Times
        /\ deadline_after(now, Absolute) <= now + Absolute
    BY <1>1, DeadlineAfter
  <2>3. deadline' \in Deadlines /\ deadline'.absolute = deadline_after(now, Absolute)
    BY <1>2, <2>2 DEF IInv, TypeOK, Deadlines
  <2>4. TypeOK'
    <3>1. attempts' \in 0..MaxAttempts /\ guesses' \in Nat /\ state' \in States
      BY <1>1, <1>2 DEF States, Live
    <3>. QED  BY <1>1, <1>2, <2>1, <2>3, <3>1 DEF IInv, TypeOK, codes, ids
  <2>5. LedgerIsDurable' /\ Budget'
    BY <1>1, <1>2, <2>1 DEF IInv, LedgerIsDurable, Budget, OneGuessPerWindow
  <2>6. IdShape' /\ CodeShape'
    BY <1>1, <1>2 DEF IInv, IdShape, CodeShape, Live, ids, codes
  <2>7. DeadlineShape'
    BY <1>1, <1>2, <2>2, <2>3 DEF DeadlineShape, CeilingsHold, Pairing, Times
  <2>. QED  BY <2>4, <2>5, <2>6, <2>7 DEF IInv
<1>3. CASE Faulty /\ StoreFails(0) /\ EnterFault /\ UNCHANGED <<attempts, activeAt>>
  <2>1. /\ durable' \in Records /\ (durable'.kind # "count" => durable'.used = 0)
    BY <1>3, StoreFailure
  <2>2. /\ windowGuesses' \in Nat /\ windowGuesses' <= 1 /\ guesses' \in Nat /\ guesses' <= durable'.used
        /\ last_now' \in Times /\ openedAt' \in Times /\ activeAt' \in Times /\ presence' \in SUBSET Actions
    BY <1>1, <1>3, <2>1 DEF IInv, TypeOK, Budget, OneGuessPerWindow, Records
  <2>. QED  BY <1>1, <1>3, <2>1, <2>2, FaultStep
<1>. QED  BY <1>2, <1>3 DEF DeviceFinishedSent

\* Expiry, protocol failure and disconnect close without a refund.
LEMMA CloseStep ==
  ASSUME IInv, state # "NONE", state # "FAULT", exposing = FALSE,
         last_now' = now,
         \/ CloseTo(Settled(attempts)) /\ UNCHANGED faults
         \/ Faulty /\ FaultAfterClearFailure,
         UNCHANGED <<attempts, exposing, now, durable, presence, ghosts>>
  PROVE  IInv'
<1>1. CASE CloseTo(Settled(attempts)) /\ UNCHANGED faults
  <2>1. /\ IdShape' /\ CodeShape' /\ DeadlineShape' /\ LedgerIsDurable'
        /\ state' \in States \ Live /\ connection_id' = NoId /\ handshake_id' = NoId
          /\ code' \in BOOLEAN /\ code_visible' \in BOOLEAN /\ screen' \in BOOLEAN
    BY <1>1, Settling DEF CloseTo
  <2>2. TypeOK'
    BY <1>1, <2>1, NoDeadlineType DEF IInv, TypeOK, CloseTo, ghosts
  <2>3. Budget'
    BY <2>1 DEF IInv, Budget, OneGuessPerWindow, ghosts, Live
  <2>. QED  BY <2>1, <2>2, <2>3 DEF IInv
<1>2. CASE Faulty /\ FaultAfterClearFailure
  <2>1. /\ durable' \in Records /\ (durable'.kind # "count" => durable'.used = 0)
        /\ guesses' \in Nat /\ guesses' <= durable'.used /\ windowGuesses' \in Nat /\ windowGuesses' <= 1
        /\ last_now' \in Times /\ openedAt' \in Times /\ activeAt' \in Times /\ presence' \in SUBSET Actions
    BY DEF IInv, TypeOK, Budget, OneGuessPerWindow, ghosts
  <2>. QED  BY <1>2, <2>1, FaultStep
<1>. QED  BY <1>1, <1>2

\* A failing clock closes into FAULT.
LEMMA ClockFailsStep ==
  ASSUME IInv, ClockFails
  PROVE  IInv'
<1>1. /\ exposing = FALSE /\ exposing' = FALSE /\ Faulty /\ EnterFault
      /\ UNCHANGED <<attempts, last_now, now, durable, presence, ghosts>>
  BY DEF IInv, TypeOK, ClockFails, Callable
<1>2. /\ durable' \in Records /\ (durable'.kind # "count" => durable'.used = 0)
      /\ guesses' \in Nat /\ guesses' <= durable'.used /\ windowGuesses' \in Nat /\ windowGuesses' <= 1
      /\ last_now' \in Times /\ openedAt' \in Times /\ activeAt' \in Times /\ presence' \in SUBSET Actions
  BY <1>1 DEF IInv, TypeOK, Budget, OneGuessPerWindow, ghosts
<1>. QED  BY <1>1, <1>2, FaultStep

\* A local reset reaches INACTIVE only with the ledger cleared in flash.
LEMMA LocalResetStep ==
  ASSUME IInv, LocalReset
  PROVE  IInv'
<1>1. /\ exposing = FALSE /\ exposing' = FALSE
      /\ presence' \in SUBSET Actions
      /\ UNCHANGED <<last_now, now, windowGuesses, openedAt, activeAt>>
  BY DEF IInv, TypeOK, LocalReset, Callable
<1>2. CASE CloseTo("INACTIVE") /\ Stored(0) /\ attempts' = 0 /\ guesses' = 0 /\ UNCHANGED faults
  <2>1. durable' \in Records /\ durable'.used = 0 /\ durable'.kind = "count"
    BY <1>2 DEF Stored, Count, Records
  <2>2. /\ IdShape' /\ CodeShape' /\ DeadlineShape' /\ state' = "INACTIVE"
        /\ state' \in States /\ connection_id' = NoId /\ handshake_id' = NoId
          /\ code' \in BOOLEAN /\ code_visible' \in BOOLEAN /\ screen' \in BOOLEAN
    BY <1>1, <1>2, Closing DEF CloseTo
  <2>3. TypeOK'
    <3>1. attempts' \in 0..MaxAttempts /\ guesses' \in Nat /\ deadline' \in Deadlines
      BY <1>2, NoDeadlineType DEF CloseTo
    <3>. QED  BY <1>1, <1>2, <2>1, <2>2, <3>1 DEF IInv, TypeOK
  <2>4. LedgerIsDurable' /\ Budget'
    BY <1>1, <1>2, <2>1, <2>2 DEF IInv, LedgerIsDurable, Budget, OneGuessPerWindow
  <2>. QED  BY <2>2, <2>3, <2>4 DEF IInv
<1>3. CASE CloseTo("FAULT") /\ Faulty /\ StoreFails(0) /\ guesses' = 0 /\ UNCHANGED attempts
  <2>1. durable' \in Records /\ (durable'.kind # "count" => durable'.used = 0)
    BY <1>3, StoreFailure
  <2>2. /\ windowGuesses' \in Nat /\ windowGuesses' <= 1 /\ guesses' \in Nat /\ guesses' <= durable'.used
        /\ last_now' \in Times /\ openedAt' \in Times /\ activeAt' \in Times /\ UNCHANGED <<attempts, now>>
    BY <1>1, <1>3, <2>1 DEF IInv, TypeOK, Budget, OneGuessPerWindow, Records
  <2>. QED  BY <1>1, <1>3, <2>1, <2>2, FaultStep
<1>4. CASE FaultAfterClearFailure /\ Faulty /\ UNCHANGED <<durable, attempts, guesses>>
  <2>1. /\ durable' \in Records /\ (durable'.kind # "count" => durable'.used = 0)
        /\ guesses' \in Nat /\ guesses' <= durable'.used /\ windowGuesses' \in Nat /\ windowGuesses' <= 1
        /\ last_now' \in Times /\ openedAt' \in Times /\ activeAt' \in Times
    BY <1>1, <1>4 DEF IInv, TypeOK, Budget, OneGuessPerWindow
  <2>. QED  BY <1>1, <1>4, <2>1, FaultStep
<1>. QED  BY <1>2, <1>3, <1>4 DEF LocalReset

----------------------------------------------------------------------------
\* The theorems.

\* IInv is inductive.
LEMMA NextIInv == IInv /\ [Next]_vars => IInv'
<1>. SUFFICES ASSUME IInv, [Next]_vars PROVE IInv'
  OBVIOUS
<1>1. CASE Expire
  <2>1. state # "NONE" /\ state # "FAULT" /\ exposing = FALSE
    BY <1>1 DEF IInv, TypeOK, Expire, Callable, Expired
  <2>. QED  BY <1>1, <2>1, CloseStep DEF Expire
<1>2. ASSUME InTime, Abandon PROVE IInv'
  <2>2. state # "NONE" /\ state # "FAULT" /\ exposing = FALSE /\ last_now' = now
    BY <1>2, InTimeFacts DEF IInv
  <2>. QED  BY <1>2, <2>2, CloseStep DEF Abandon
<1>3. CASE UNCHANGED vars
  <2>1. UNCHANGED <<state, attempts, codes, last_now, deadline, ids, exposing, now, durable,
                    presence, ghosts, faults>>
    BY <1>3 DEF vars, codes, ids, ghosts
  <2>2. TypeOK'
    BY <2>1 DEF IInv, TypeOK, codes, ids, ghosts
  <2>3. DeadlineShape'
    BY <2>1 DEF IInv, DeadlineShape, CeilingsHold, ghosts
  <2>. QED  BY <2>1, <2>2, <2>3, Frame DEF IInv, CodeShape, codes, ids, ghosts
<1>4. CASE \/ PowerOn \/ PowerLoss \/ TimePasses \/ DisplaySettles
           \/ Refreshes \/ ConsumeCode \/ LocalReset
  BY <1>1, <1>4, PowerOnStep, PowerLossStep, OutsideStep, TickStep, ClockFailsStep,
     ConsumeCodeStep, LocalResetStep DEF Refreshes
<1>5. CASE \E a \in Actions : PostLocalAction(a) \/ DropLocalAction(a)
  BY <1>5, OutsideStep
<1>6. ASSUME NEW c \in Connections, LocalOpen(c) \/ AuthenticatedActivity(c) \/ Disconnect(c)
      PROVE  IInv'
  <2>1. CASE LocalOpen(c)
    BY <2>1, LocalOpenStep
  <2>2. CASE AuthenticatedActivity(c)
    BY <2>2, ActivityStep
  <2>3. CASE Disconnect(c)
    BY <2>3, <1>2 DEF Disconnect
  <2>. QED  BY <1>6, <2>1, <2>2, <2>3
<1>7. ASSUME NEW c \in Connections, NEW h \in Handshakes,
             \/ Begin(c, h) \/ HandshakeProgress(c, h) \/ ClientFinishedVerified(c, h)
             \/ DeviceFinishedSent(c, h) \/ ProtocolFailed(c, h)
      PROVE  IInv'
  BY <1>2, <1>7, BeginStep, ProgressStep, ClientFinishedVerifiedStep, DeviceFinishedSentStep
     DEF ProtocolFailed
<1>. QED  BY <1>3, <1>4, <1>5, <1>6, <1>7 DEF Next

\* Throughout every behaviour ids, code, attempts and deadlines agree with the
\* lifecycle's state (aiqa_pairing_lifecycle.c, 72-157).
THEOREM PairingInductive == Spec => []IInv
BY InitIInv, NextIInv, PTL DEF Spec

\* Every variable keeps its type; in particular saturation keeps deadlines times.
THEOREM PairingTypeCorrect == Spec => []TypeOK
<1>1. IInv => TypeOK
  BY DEF IInv
<1>. QED  BY <1>1, PairingInductive, PTL

\* The code is passed on at most MaxAttempts times between two successes or
\* physical resets, whatever the power and the flash do in between (begin, 287-335).
THEOREM GuessesBounded == Spec => []GuessBudget
<1>1. IInv => GuessBudget
  <2>. SUFFICES ASSUME IInv PROVE guesses <= MaxAttempts
    BY DEF GuessBudget
  <2>1. /\ durable.used \in 0..MaxAttempts /\ guesses \in Nat /\ exposing \in BOOLEAN
        /\ guesses + (IF exposing THEN 1 ELSE 0) <= durable.used
    BY DEF IInv, TypeOK, Records, Budget
  <2>. QED  BY <2>1
<1>. QED  BY <1>1, PairingInductive, PTL

\* The attempts in RAM are those in flash, and a lock-out is durable (begin, 310-319;
\* settle_inactive_or_locked, 99-104).
THEOREM LedgerAgrees == Spec => []LedgerIsDurable
<1>1. IInv => LedgerIsDurable
  BY DEF IInv
<1>. QED  BY <1>1, PairingInductive, PTL

\* A window passes its code on at most once (begin, 324-333).
THEOREM OneGuess == Spec => []OneGuessPerWindow
<1>1. IInv => OneGuessPerWindow
  BY DEF IInv, Budget
<1>. QED  BY <1>1, PairingInductive, PTL

\* A shown code is known to be shown, also after the display failed (clear_code, 72-79).
THEOREM CodesAreTracked == Spec => []ShownCodeIsTracked
<1>1. IInv => ShownCodeIsTracked
  BY DEF IInv, CodeShape, ShownCodeIsTracked
<1>. QED  BY <1>1, PairingInductive, PTL

\* Renewals never carry pairing past its window or a session past its absolute
\* limit (handshake_progress, 337-353; authenticated_activity, 397-411).
THEOREM CeilingsAreHard == Spec => []CeilingsHold
<1>1. IInv => CeilingsHold
  BY DEF IInv, DeadlineShape
<1>. QED  BY <1>1, PairingInductive, PTL

\* Only a local reset, or a handshake whose Finished was verified in time, lowers the
\* attempts in flash (device_finished_sent, 367-395; local_reset, 450-471).
THEOREM NoRefund == Spec => AttemptsAreNotRefunded
<1>1. IInv /\ [Next]_vars =>
        [durable'.used < durable.used =>
           \/ "RESET" \in presence \ presence'
           \/ state = "WAIT_FINISHED_SENT" /\ ~Expired(now)]_vars
  <2>. SUFFICES ASSUME IInv, [Next]_vars, durable'.used < durable.used
                PROVE  \/ "RESET" \in presence \ presence'
                       \/ state = "WAIT_FINISHED_SENT" /\ ~Expired(now)
    OBVIOUS
  <2>1. durable.used \in Nat /\ attempts \in Nat
    BY DEF IInv, TypeOK, Records
  <2>2. durable' # durable
    BY <2>1
  <2>3. LocalReset \/ \E c \in Connections, h \in Handshakes : Begin(c, h) \/ DeviceFinishedSent(c, h)
    BY <2>2 DEF Next, vars, PowerOn, PowerLoss, TimePasses, DisplaySettles, Refreshes, Tick,
                ClockFails, Expire, ConsumeCode, PostLocalAction, DropLocalAction, LocalOpen,
                AuthenticatedActivity, Disconnect, Abandon, HandshakeProgress,
                ClientFinishedVerified, ProtocolFailed
  <2>4. CASE LocalReset
    BY <2>4 DEF LocalReset
  <2>5. ASSUME NEW c \in Connections, NEW h \in Handshakes, Begin(c, h)
        PROVE  FALSE
    <3>1. attempts = durable.used
      BY <2>5 DEF IInv, LedgerIsDurable, Begin
    <3>2. durable'.used < durable.used => durable'.used = attempts + 1
      <4>1. CASE Stored(attempts + 1)
        BY <4>1 DEF Stored, Count
      <4>2. CASE StoreFails(attempts + 1)
        BY <2>1, <4>2, StoreFailure
      <4>. QED  BY <2>5, <4>1, <4>2 DEF Begin
    <3>. QED  BY <2>1, <3>1, <3>2
  <2>6. ASSUME NEW c \in Connections, NEW h \in Handshakes, DeviceFinishedSent(c, h)
        PROVE  state = "WAIT_FINISHED_SENT" /\ ~Expired(now)
    BY <2>6 DEF DeviceFinishedSent, InTime
  <2>. QED  BY <2>3, <2>4, <2>5, <2>6
<1>. QED  BY <1>1, PairingInductive, PTL DEF Spec, AttemptsAreNotRefunded
=============================================================================
