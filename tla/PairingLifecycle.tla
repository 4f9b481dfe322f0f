-------------------------- MODULE PairingLifecycle --------------------------
(***************************************************************************)
(* The pairing lifecycle (management_session/src/aiqa_pairing_lifecycle.c) *)
(* with its NVS lock record and the local-action bits behind its ports.    *)
(*                                                                         *)
(* A physical action opens a window bound to one connection and shows a    *)
(* code; one handshake may take the code, and only after one more attempt  *)
(* has been stored durably; a verified handshake becomes a session that    *)
(* idles out or reaches an absolute limit.  MaxAttempts attempts without   *)
(* a success lock the device until a physical reset.                       *)
(*                                                                         *)
(* Every call runs on one owner task and starts by refreshing: it reads    *)
(* the clock and expires what is overdue.  begin is two steps, because the *)
(* order of its store and its hand-over of the code is what a power cut    *)
(* must not turn around.  A store that fails and is followed by PowerLoss  *)
(* leaves flash as a power cut inside the store does.                      *)
(***************************************************************************)
EXTENDS Naturals

CONSTANTS Connections, Handshakes,       \* the non-zero ids callers may pass
          NoId,                          \* the id 0
          MaxAttempts,                   \* policy.max_attempts
          Window, Step, Idle, Absolute,  \* the policy's durations
          ClockMax,                      \* UINT64_MAX, where deadlines saturate
          MaxFaults                      \* bound on failing port calls

ASSUME PolicyIsSafe ==
  /\ NoId \notin Connections \cup Handshakes
  /\ MaxAttempts \in Nat \ {0}
  /\ Window \in Nat /\ Step \in Nat \ {0} /\ Step <= Window
  /\ Absolute \in Nat /\ Idle \in Nat \ {0} /\ Idle <= Absolute
  /\ ClockMax \in Nat /\ Window <= ClockMax /\ Absolute <= ClockMax
  /\ MaxFaults \in Nat

VARIABLES
  state,          \* lifecycle->state; "NONE" while no lifecycle exists
  attempts,       \* lock_record.attempts_used
  code,           \* the code buffer holds a code
  code_visible,
  last_now,
  deadline,
  connection_id,
  handshake_id,
  exposing,       \* begin has stored the attempt and is about to pass the code on
  now,            \* the monotonic clock
  durable,        \* flash: the lock record
  screen,         \* the display shows a code
  presence,       \* pending local-action bits
  guesses,        \* codes passed on since the last verified Finished or local reset
  windowGuesses,  \* ... since the window opened
  openedAt,       \* when the window opened
  activeAt,       \* when the session became active
  faults          \* port failures so far

ids    == <<connection_id, handshake_id>>
codes  == <<code, code_visible, screen>>
ghosts == <<guesses, windowGuesses, openedAt, activeAt>>
vars   == <<state, attempts, code, code_visible, last_now, deadline, connection_id,
            handshake_id, exposing, now, durable, screen, presence,
            guesses, windowGuesses, openedAt, activeAt, faults>>

Live       == {"AVAILABLE", "HANDSHAKE", "WAIT_FINISHED_SENT", "ACTIVE"}
Pairing    == {"AVAILABLE", "HANDSHAKE", "WAIT_FINISHED_SENT"}
States     == {"NONE", "INACTIVE", "LOCKED", "FAULT"} \cup Live
Actions    == {"START", "RESET"}
Times      == 0..ClockMax
Deadlines  == [window : Times, step : Times, idle : Times, absolute : Times]
NoDeadline == [window |-> 0, step |-> 0, idle |-> 0, absolute |-> 0]

\* The NVS item: no namespace yet; a namespace whose record is missing or does
\* not decode; or a count of attempts used.
Records    == [kind : {"absent", "bad", "count"}, used : 0..MaxAttempts]
Absent     == [kind |-> "absent", used |-> 0]
Bad        == [kind |-> "bad", used |-> 0]
Count(n)   == [kind |-> "count", used |-> n]

Init ==
  /\ state = "NONE" /\ attempts = 0
  /\ code = FALSE /\ code_visible = FALSE /\ screen = FALSE
  /\ last_now = 0 /\ deadline = NoDeadline
  /\ connection_id = NoId /\ handshake_id = NoId
  /\ exposing = FALSE
  /\ now = 0
  /\ durable = Absent
  /\ presence = {}
  /\ guesses = 0 /\ windowGuesses = 0 /\ openedAt = 0 /\ activeAt = 0
  /\ faults = 0

-----------------------------------------------------------------------------
\* Helpers of the calls.

deadline_after(t, duration) == IF t > ClockMax - duration THEN ClockMax ELSE t + duration
earlier_deadline(a, b) == IF a < b THEN a ELSE b

\* settle_inactive_or_locked, for a count of attempts.
Settled(n) == IF n >= MaxAttempts THEN "LOCKED" ELSE "INACTIVE"

\* A session does not idle out, and its absolute limit is not looked at.
MutExpiredSession(t) ==
  \/ state = "AVAILABLE" /\ t >= deadline.window
  \/ state \in {"HANDSHAKE", "WAIT_FINISHED_SENT"}
     /\ (t >= deadline.window \/ t >= deadline.step)

\* expire_if_needed's condition.
Expired(t) ==
  \/ state = "AVAILABLE" /\ t >= deadline.window
  \/ state \in {"HANDSHAKE", "WAIT_FINISHED_SENT"}
     /\ (t >= deadline.window \/ t >= deadline.step)
  \/ state = "ACTIVE" /\ (t >= deadline.idle \/ t >= deadline.absolute)

Faulty == faults < MaxFaults /\ faults' = faults + 1

\* A call can run: the lifecycle exists and the owner is not inside begin.
Callable == state # "NONE" /\ ~exposing

\* refresh finds nothing overdue, and the call goes on.
InTime == Callable /\ state # "FAULT" /\ ~Expired(now) /\ last_now' = now

\* revoke_connection.  What the port's callback ends for the connection is the
\* port's: RevokePort of UsbManagement.
Revoke == connection_id' = NoId /\ handshake_id' = NoId

\* clear_code wipes the buffer; the display is asked only while code_visible.
\* A display that fails may or may not have cleared.
CodeCleared ==
  /\ code' = FALSE
  /\ code_visible' = FALSE
  /\ screen' = (screen /\ ~code_visible)
\* A failed clear forgets that the display may still show the code.
MutCodeNotCleared ==
  /\ code_visible
  /\ code' = FALSE
  /\ code_visible' = FALSE
  /\ screen' \in {screen, FALSE}

CodeNotCleared ==
  /\ code_visible
  /\ code' = FALSE
  /\ UNCHANGED code_visible
  /\ screen' \in {screen, FALSE}

\* The window is closed and its connection stays bound.
MutCloseTo(s) == UNCHANGED ids /\ deadline' = NoDeadline /\ CodeCleared /\ state' = s

\* clear_transient, then the state the caller moves to.
CloseTo(s) == Revoke /\ deadline' = NoDeadline /\ CodeCleared /\ state' = s
FaultAfterClearFailure ==
  Revoke /\ deadline' = NoDeadline /\ CodeNotCleared /\ state' = "FAULT"
EnterFault == CloseTo("FAULT") \/ FaultAfterClearFailure

\* store_lock_record: opening for writing creates the namespace; a failure is
\* reported also when the write was applied but could not be read back.
Stored(n) == n <= MaxAttempts /\ durable' = Count(n)
StoreFails(n) ==
  durable' \in {durable} \cup (IF n <= MaxAttempts THEN {Count(n)} ELSE {})
                         \cup (IF durable.kind = "absent" THEN {Bad} ELSE {})

NewStep == earlier_deadline(deadline_after(now, Step), deadline.window)

-----------------------------------------------------------------------------
\* Power and the outside.

\* A restart starts a fresh count.
MutPowerOn ==
  /\ state = "NONE"
  /\ state' = "INACTIVE" /\ attempts' = 0 /\ last_now' = now
  /\ UNCHANGED <<deadline, ids, codes, exposing, now, durable, presence, ghosts, faults>>

\* create: load the record, settle, read the clock.
PowerOn ==
  /\ state = "NONE"
  /\ \/ /\ durable.kind # "bad"
        /\ attempts' = durable.used
        /\ state' = Settled(durable.used)
        /\ last_now' = now
        /\ UNCHANGED faults
     \/ /\ durable.kind = "bad"
        /\ attempts' = 0
        /\ state' = "FAULT"
        /\ UNCHANGED <<last_now, faults>>
     \/ /\ Faulty                             \* the load or the clock failed
        /\ attempts' \in {0, durable.used}
        /\ state' = "FAULT"
        /\ UNCHANGED last_now
  /\ UNCHANGED <<deadline, ids, codes, exposing, now, durable, presence, ghosts>>

\* Loses the RAM, wherever the owner is; destroy on a failed start does as much.
PowerLoss ==
  /\ state # "NONE"
  /\ state' = "NONE" /\ attempts' = 0
  /\ code' = FALSE /\ code_visible' = FALSE /\ screen' = FALSE
  /\ last_now' = 0 /\ now' = 0 /\ deadline' = NoDeadline
  /\ connection_id' = NoId /\ handshake_id' = NoId
  /\ exposing' = FALSE
  /\ presence' = {}
  /\ UNCHANGED <<durable, ghosts, faults>>

TimePasses ==
  /\ state # "NONE"
  /\ now < ClockMax
  /\ now' = now + 1
  /\ UNCHANGED <<state, attempts, codes, last_now, deadline, ids, exposing,
                 durable, presence, ghosts, faults>>

\* aiqa_pairing_esp_post_local_action, called by the button task.
PostLocalAction(a) ==
  /\ state # "NONE"
  /\ presence' = presence \cup {a}
  /\ UNCHANGED <<state, attempts, codes, last_now, deadline, ids, exposing, now,
                 durable, ghosts, faults>>

\* A show or clear the lifecycle gave up on takes effect late.
DisplaySettles ==
  /\ state = "FAULT" /\ code_visible
  /\ screen' = ~screen
  /\ UNCHANGED <<state, attempts, code, code_visible, last_now, deadline, ids, exposing,
                 now, durable, presence, ghosts, faults>>

-----------------------------------------------------------------------------
\* refresh.  A call it expires something for ends there, except local_open,
\* which can go on from INACTIVE: it does so as its next step.

\* tick, get_status, and every call whose own conditions are not met.
Tick ==
  /\ InTime
  /\ UNCHANGED <<state, attempts, codes, deadline, ids, exposing, now, durable,
                 presence, ghosts, faults>>

ClockFails ==
  /\ Callable /\ state # "FAULT"
  /\ Faulty
  /\ EnterFault
  /\ UNCHANGED <<attempts, last_now, exposing, now, durable, presence, ghosts>>

Expire ==
  /\ Callable /\ Expired(now)
  /\ last_now' = now
  /\ \/ CloseTo(Settled(attempts)) /\ UNCHANGED faults
     \/ FaultAfterClearFailure /\ Faulty
  /\ UNCHANGED <<attempts, exposing, now, durable, presence, ghosts>>

-----------------------------------------------------------------------------
\* The calls.

LocalOpen(c) ==
  /\ InTime /\ state = "INACTIVE"
  /\ "START" \in presence
  /\ presence' = presence \ {"START"}
  /\ \/ /\ state' = "AVAILABLE"
        /\ code' = TRUE /\ code_visible' = TRUE /\ screen' = TRUE
        /\ connection_id' = c
        /\ deadline' = [deadline EXCEPT !.window = deadline_after(now, Window)]
        /\ openedAt' = now
        /\ windowGuesses' = 0
        /\ UNCHANGED <<handshake_id, guesses, activeAt, faults>>
     \/ /\ Faulty                            \* generate_code
        /\ UNCHANGED <<state, codes, deadline, ids, ghosts>>
     \/ /\ Faulty                            \* show_code, then enter_fault
        /\ state' = "FAULT"
        /\ code' = FALSE
        /\ code_visible' \in BOOLEAN         \* whether its clear_code worked
        /\ screen' \in {FALSE, code_visible'}
        /\ deadline' = NoDeadline
        /\ connection_id' = NoId /\ handshake_id' = NoId
        /\ UNCHANGED ghosts
  /\ UNCHANGED <<attempts, exposing, now, durable>>

\* process_local_action drops the bit of a call that did not succeed.
DropLocalAction(a) ==
  /\ Callable
  /\ a \in presence
  /\ presence' = presence \ {a}
  /\ UNCHANGED <<state, attempts, codes, last_now, deadline, ids, exposing, now,
                 durable, ghosts, faults>>

\* begin, up to its store.
Begin(c, h) ==
  /\ InTime /\ state = "AVAILABLE"
  /\ connection_id = c
  /\ \/ /\ Stored(attempts + 1)
        /\ attempts' = attempts + 1
        /\ handshake_id' = h
        /\ deadline' = [deadline EXCEPT !.step = NewStep]
        /\ state' = "HANDSHAKE"
        /\ exposing' = TRUE
        /\ UNCHANGED <<codes, connection_id, faults>>
     \/ /\ Faulty
        /\ StoreFails(attempts + 1)
        /\ EnterFault
        /\ UNCHANGED <<attempts, exposing>>
  /\ UNCHANGED <<now, presence, ghosts>>

\* A refused hand-over gives the window back to the next handshake.
MutConsumeCode ==
  /\ exposing
  /\ exposing' = FALSE
  /\ guesses' = guesses + 1
  /\ windowGuesses' = windowGuesses + 1
  /\ \/ CodeCleared /\ UNCHANGED <<state, ids, deadline, faults>>
     \/ state' = "AVAILABLE" /\ UNCHANGED <<codes, ids, deadline, faults>>
  /\ UNCHANGED <<attempts, last_now, now, durable, presence, openedAt, activeAt>>

\* begin, from consume_code on: the consumer takes the code or refuses.
ConsumeCode ==
  /\ exposing
  /\ exposing' = FALSE
  /\ guesses' = guesses + 1
  /\ windowGuesses' = windowGuesses + 1
  /\ \/ /\ CodeCleared
        /\ UNCHANGED <<state, ids, deadline, faults>>
     \/ /\ CodeCleared
        /\ Revoke
        /\ state' = Settled(attempts)
        /\ UNCHANGED <<deadline, faults>>
     \/ Faulty /\ FaultAfterClearFailure
  /\ UNCHANGED <<attempts, last_now, now, durable, presence, openedAt, activeAt>>

SessionMatches(c, h) == connection_id = c /\ handshake_id = h

HandshakeProgress(c, h) ==
  /\ InTime /\ state = "HANDSHAKE"
  /\ SessionMatches(c, h)
  /\ deadline' = [deadline EXCEPT !.step = NewStep]
  /\ UNCHANGED <<state, attempts, codes, ids, exposing, now, durable, presence,
                 ghosts, faults>>

ClientFinishedVerified(c, h) ==
  /\ InTime /\ state = "HANDSHAKE"
  /\ SessionMatches(c, h)
  /\ deadline' = [deadline EXCEPT !.step = NewStep]
  /\ state' = "WAIT_FINISHED_SENT"
  /\ UNCHANGED <<attempts, codes, ids, exposing, now, durable, presence, ghosts, faults>>

DeviceFinishedSent(c, h) ==
  /\ InTime /\ state = "WAIT_FINISHED_SENT"
  /\ SessionMatches(c, h)
  /\ \/ /\ Stored(0)
        /\ attempts' = 0
        /\ deadline' = [deadline EXCEPT !.idle = deadline_after(now, Idle),
                                        !.absolute = deadline_after(now, Absolute)]
        /\ state' = "ACTIVE"
        /\ activeAt' = now
        /\ UNCHANGED <<codes, ids, faults>>
     \/ /\ Faulty
        /\ StoreFails(0)
        /\ EnterFault
        /\ UNCHANGED <<attempts, activeAt>>
  /\ guesses' = 0
  /\ UNCHANGED <<exposing, now, presence, windowGuesses, openedAt>>

\* Activity pushes the absolute deadline out as well.
MutAuthenticatedActivity(c) ==
  /\ InTime /\ state = "ACTIVE"
  /\ connection_id = c
  /\ deadline' = [deadline EXCEPT !.idle = deadline_after(now, Idle),
                                  !.absolute = deadline_after(now, Absolute)]
  /\ UNCHANGED <<state, attempts, codes, ids, exposing, now, durable, presence,
                 ghosts, faults>>

AuthenticatedActivity(c) ==
  /\ InTime /\ state = "ACTIVE"
  /\ connection_id = c
  /\ deadline' = [deadline EXCEPT
                    !.idle = earlier_deadline(deadline_after(now, Idle), deadline.absolute)]
  /\ UNCHANGED <<state, attempts, codes, ids, exposing, now, durable, presence,
                 ghosts, faults>>

\* The end of protocol_failed and of disconnect.
Abandon ==
  /\ \/ CloseTo(Settled(attempts)) /\ UNCHANGED faults
     \/ Faulty /\ FaultAfterClearFailure
  /\ UNCHANGED <<attempts, exposing, now, durable, presence, ghosts>>

\* protocol_failed refunds the attempt.
MutProtocolFailed(c, h) ==
  /\ InTime /\ state \in {"HANDSHAKE", "WAIT_FINISHED_SENT"}
  /\ SessionMatches(c, h)
  /\ attempts > 0
  /\ Stored(attempts - 1)
  /\ attempts' = attempts - 1
  /\ CloseTo(Settled(attempts - 1))
  /\ UNCHANGED <<exposing, now, presence, ghosts, faults>>

ProtocolFailed(c, h) ==
  /\ InTime /\ state \in {"HANDSHAKE", "WAIT_FINISHED_SENT"}
  /\ SessionMatches(c, h)
  /\ Abandon

Disconnect(c) ==
  /\ InTime /\ connection_id = c
  /\ Abandon

\* local_reset does not refresh: it is the way out of LOCKED and FAULT.
LocalReset ==
  /\ Callable
  /\ "RESET" \in presence
  /\ presence' = presence \ {"RESET"}
  /\ \/ /\ CloseTo("INACTIVE")
        /\ Stored(0)
        /\ attempts' = 0
        /\ guesses' = 0
        /\ UNCHANGED faults
     \/ /\ CloseTo("FAULT")
        /\ Faulty
        /\ StoreFails(0)
        /\ guesses' = 0
        /\ UNCHANGED attempts
     \/ /\ FaultAfterClearFailure
        /\ Faulty
        /\ UNCHANGED <<durable, attempts, guesses>>
  /\ UNCHANGED <<last_now, exposing, now, windowGuesses, openedAt, activeAt>>

Refreshes == Tick \/ ClockFails \/ Expire

Next ==
  \/ PowerOn \/ PowerLoss \/ TimePasses \/ DisplaySettles
  \/ Refreshes \/ ConsumeCode \/ LocalReset
  \/ \E a \in Actions : PostLocalAction(a) \/ DropLocalAction(a)
  \/ \E c \in Connections :
       \/ LocalOpen(c) \/ AuthenticatedActivity(c) \/ Disconnect(c)
       \/ \E h \in Handshakes :
            \/ Begin(c, h) \/ HandshakeProgress(c, h) \/ ClientFinishedVerified(c, h)
            \/ DeviceFinishedSent(c, h) \/ ProtocolFailed(c, h)

Spec == Init /\ [][Next]_vars

\* Time goes on, and the owner task ticks the lifecycle on every turn of its
\* loop and finishes a begin it has started.
Fairness == WF_vars(TimePasses) /\ WF_vars(Expire) /\ WF_vars(ConsumeCode)
LiveSpec == Spec /\ Fairness

-----------------------------------------------------------------------------
\* What should hold.

TypeOK ==
  /\ state \in States
  /\ attempts \in 0..MaxAttempts
  /\ code \in BOOLEAN /\ code_visible \in BOOLEAN /\ screen \in BOOLEAN
  /\ last_now \in Times /\ now \in Times
  /\ deadline \in Deadlines
  /\ connection_id \in Connections \cup {NoId}
  /\ handshake_id \in Handshakes \cup {NoId}
  /\ exposing \in BOOLEAN
  /\ durable \in Records
  /\ presence \in SUBSET Actions
  /\ guesses \in Nat
  /\ windowGuesses \in Nat
  /\ openedAt \in Times /\ activeAt \in Times
  /\ faults \in 0..MaxFaults

\* Between two successes or physical resets the code is passed to at most
\* MaxAttempts handshakes, however the power cuts, failed stores and restarts
\* fall between begin's store and its hand-over (begin, 310-330).
GuessBudget == guesses <= MaxAttempts

\* In RAM and in flash the device has used up the same attempts, unless it is in
\* FAULT: a restart neither refunds an attempt nor unlocks (begin, 312-319;
\* device_finished_sent, 384-389; settle_inactive_or_locked, 99-104).
LedgerIsDurable ==
  state \notin {"NONE", "FAULT"} =>
    /\ durable.kind # "bad"
    /\ attempts = durable.used
    /\ state = "LOCKED" => durable.used = MaxAttempts

\* A window passes its code on once: every further try takes another physical
\* action (begin, 324-333; docs/IMPLEMENTATION_PLAN.md, 208-211).
OneGuessPerWindow == windowGuesses <= 1

\* A code on the display belongs to an open window, or the lifecycle is in FAULT and
\* still knows that it has to be cleared (clear_code, 72-79; local_reset, 457-458).
ShownCodeIsTracked ==
  screen => /\ code_visible
            /\ state \in {"AVAILABLE", "FAULT"} \/ exposing

\* Progress and activity renew the step and idle deadlines and never extend the
\* window or the session: at every call let through, pairing is younger than
\* Window and a session younger than Absolute (expire_if_needed, 136-155).
CeilingsHold ==
  /\ state \in Pairing => last_now < openedAt + Window
  /\ state = "ACTIVE"  => last_now < activeAt + Absolute

\* Only a local reset, or a handshake whose Finished was verified and whose time had
\* not run out, gives attempts back (device_finished_sent, 367-395; local_reset, 450-471).
AttemptsAreNotRefunded ==
  [][durable'.used < durable.used =>
       \/ "RESET" \in presence \ presence'
       \/ state = "WAIT_FINISHED_SENT" /\ ~Expired(now)]_vars

\* A pairing window closes and a session ends, whatever is called meanwhile (tick, 445).
WindowCloses == state \in Pairing ~> state \notin Pairing
SessionEnds  == state = "ACTIVE" ~> state # "ACTIVE"
EverythingExpires == WindowCloses /\ SessionEnds

-----------------------------------------------------------------------------
\* The inductive invariant behind these.

\* begin's store runs ahead of the guesses, and only a count is ever non-zero.
Budget ==
  /\ durable.kind # "count" => durable.used = 0
  /\ guesses + (IF exposing THEN 1 ELSE 0) <= durable.used
  /\ OneGuessPerWindow
  /\ state = "AVAILABLE" \/ exposing => windowGuesses = 0

\* Ids are bound exactly while a window, handshake or session lives.
IdShape ==
  /\ exposing => state = "HANDSHAKE"
  /\ state \in Live <=> connection_id # NoId
  /\ state \in Live \ {"AVAILABLE"} <=> handshake_id # NoId

CodeShape ==
  /\ screen => code_visible
  /\ code_visible => state \in {"AVAILABLE", "FAULT"} \/ exposing
  /\ code => state = "AVAILABLE" \/ exposing

DeadlineShape ==
  /\ CeilingsHold
  /\ state \in Pairing => deadline.window <= openedAt + Window
  /\ state = "ACTIVE"  => deadline.absolute <= activeAt + Absolute

\* All of it holds together at every step: ids, code, ledger and deadlines agree
\* with the state whichever port fails (aiqa_pairing_lifecycle.c, 72-157).
IInv == TypeOK /\ LedgerIsDurable /\ Budget /\ IdShape /\ CodeShape /\ DeadlineShape
=============================================================================
