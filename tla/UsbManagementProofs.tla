------------------------ MODULE UsbManagementProofs -------------------------
(***************************************************************************)
(* The lifecycle, the handshake, the channel and the registry agree at     *)
(* every point of every handler of the owner task.  The argument uses the  *)
(* invariant proved of PairingLifecycle.                                   *)
(***************************************************************************)
EXTENDS UsbManagement, PairingLifecycleProofs

USE PolicyIsSafe, UsbIsConnection

\* What a handler needs of the attempt to make its next lifecycle call.
HandlerShape ==
  /\ UsbTypeOK
  /\ pc = "consume" => rpc.prepared
  /\ pc = "progress" => rpc.session
  /\ pc \in {"send", "commit", "sent"} => rpc.finished_pending

\* A cleared attempt is well formed.
LEMMA NoAttemptType == NoAttempt \in Attempts
BY DEF NoAttempt, Attempts

\* Each handler leaves the attempt as its next lifecycle call needs it.
LEMMA NextHandlerShape == HandlerShape /\ [UsbNext]_usbVars => HandlerShape'
<1>. SUFFICES ASSUME HandlerShape, [UsbNext]_usbVars PROVE HandlerShape'
  OBVIOUS
<1>. USE NoAttemptType DEF HandlerShape, UsbTypeOK, Points, Registries, GoTo, At, clear_attempt
<1>port. ASSUME RevokePort PROVE registry' \in Registries /\ channel' \in BOOLEAN
  BY <1>port DEF RevokePort
<1>1. ASSUME Outside \/ OwnerDies \/ Poll PROVE HandlerShape'
  BY <1>1, <1>port DEF Outside, OwnerDies, Poll
<1>2. ASSUME LocalActions PROVE HandlerShape'
  <2>1. CASE LocalStart \/ LocalResetAction
    BY <2>1, <1>port DEF LocalStart, LocalResetAction
  <2>2. CASE DropAction("START", "dropStart") \/ DropAction("RESET", "dropReset")
    BY <2>2 DEF DropAction
  <2>. QED  BY <1>2, <2>1, <2>2 DEF LocalActions
<1>3. ASSUME Requests PROVE HandlerShape'
  <2>1. CASE PrepareRefused \/ HandshakeRefused \/ HandshakeFailed \/ BeginRequest
    BY <2>1, <1>port DEF PrepareRefused, HandshakeRefused, HandshakeFailed, BeginRequest,
       PublicFrame
  <2>2. CASE ConsumeCodeCallback
    BY <2>2, <1>port DEF ConsumeCodeCallback, Attempts
  <2>3. CASE BeginProgress
    BY <2>3, <1>port DEF BeginProgress
  <2>4. CASE RoundTwo
    BY <2>4 DEF RoundTwo, PublicFrame, Attempts
  <2>5. CASE Finish
    BY <2>5 DEF Finish, PublicFrame, Attempts
  <2>6. ASSUME NEW h \in Handshakes, Prepare(h) PROVE HandlerShape'
    BY <2>6 DEF Prepare, PublicFrame, Attempts, NoAttempt
  <2>. QED  BY <1>3, <2>1, <2>2, <2>3, <2>4, <2>5, <2>6 DEF Requests
<1>4. ASSUME Commits PROVE HandlerShape'
  <2>1. CASE SendFinished \/ CommitRefused \/ PrepareAccess \/ SecureRequest
    BY <2>1 DEF SendFinished, CommitRefused, PrepareAccess, SecureRequest, SecureFrame
  <2>2. CASE FinishedSent \/ ActivateAccess \/ Abort
    BY <2>2 DEF FinishedSent, ActivateAccess, Abort
  <2>3. CASE RequestServed
    BY <2>3, <1>port DEF RequestServed
  <2>. QED  BY <1>4, <2>1, <2>2, <2>3 DEF Commits
<1>5. CASE UNCHANGED usbVars
  BY <1>5 DEF usbVars
<1>. QED  BY <1>1, <1>2, <1>3, <1>4, <1>5 DEF UsbNext

\* The attempt is well formed at every point of every handler
\* (clear_attempt, 30-40; handle_begin to handle_finish, 470-633).
THEOREM HandlersAreOrdered == UsbSpec => []HandlerShape
<1>1. UsbInit => HandlerShape
  BY NoAttemptType DEF UsbInit, HandlerShape, UsbTypeOK, Registries, Points
<1>. QED  BY <1>1, NextHandlerShape, PTL DEF UsbSpec

----------------------------------------------------------------------------
\* Every step of the owner is a step of the lifecycle, or none.

LEMMA CallFailsRefines ==
  ASSUME NEW met \in BOOLEAN, CallFails(met)
  PROVE  Next \/ UNCHANGED vars
BY DEF CallFails, Next, Refreshes

LEMMA OwnerRefines ==
  ASSUME HandlerShape, UsbNext
  PROVE  Next \/ UNCHANGED vars
<1>. USE DEF At, PublicFrame, SecureFrame
<1>h. rpc.prepared \/ rpc.session \/ rpc.round_two_complete \/ rpc.finished_pending
        => rpc.handshake_id \in Handshakes
  BY DEF HandlerShape, UsbTypeOK, Attempts
<1>1. CASE Outside \/ OwnerDies \/ Poll
  BY <1>1 DEF Outside, OwnerDies, Poll, Next
<1>2. CASE LocalActions
  <2>1. CASE LocalStart
    <3>1. CASE LocalOpen(Usb)
      BY <3>1 DEF Next
    <3>. QED  BY <2>1, <3>1, CallFailsRefines DEF LocalStart
  <2>2. CASE LocalResetAction
    BY <2>2 DEF LocalResetAction, Next
  <2>3. CASE DropAction("START", "dropStart") \/ DropAction("RESET", "dropReset")
    BY <2>3 DEF DropAction, Next, Actions
  <2>. QED  BY <1>2, <2>1, <2>2, <2>3 DEF LocalActions
<1>3. CASE Requests
  <2>1. ASSUME NEW h \in Handshakes, Prepare(h) PROVE Next \/ UNCHANGED vars
    BY <2>1 DEF Prepare, Next, Refreshes
  <2>2. CASE PrepareRefused
    BY <2>2 DEF PrepareRefused, Next
  <2>3. CASE BeginRequest
    BY <2>3, <1>h DEF BeginRequest, Next
  <2>4. CASE ConsumeCodeCallback
    BY <2>4 DEF ConsumeCodeCallback, Next
  <2>5. CASE BeginProgress
    <3>1. CASE HandshakeProgress(Usb, rpc.handshake_id)
      BY <3>1, <2>5, <1>h DEF BeginProgress, HandlerShape, Next
    <3>2. CASE CallFails(InHandshake)
      BY <3>2, CallFailsRefines DEF InHandshake, SessionMatches
    <3>. QED  BY <2>5, <3>1, <3>2 DEF BeginProgress
  <2>6. CASE RoundTwo
    BY <2>6, <1>h DEF RoundTwo, Next
  <2>7. CASE Finish
    BY <2>7, <1>h DEF Finish, Next
  <2>8. CASE HandshakeRefused
    <3>. DEFINE met == IF rpc.session THEN InHandshake ELSE state = "AVAILABLE"
    <3>1. met \in BOOLEAN
      BY DEF InHandshake, SessionMatches
    <3>2. CallFails(met) => Next \/ UNCHANGED vars
      BY <3>1, CallFailsRefines
    <3>. QED  BY <2>8, <3>2 DEF HandshakeRefused
  <2>9. CASE HandshakeFailed
    <3>. DEFINE met == /\ state \in {"HANDSHAKE", "WAIT_FINISHED_SENT"}
                       /\ SessionMatches(Usb, rpc.handshake_id)
    <3>1. met \in BOOLEAN
      BY DEF SessionMatches
    <3>2. CallFails(met) => Next \/ UNCHANGED vars
      BY <3>1, CallFailsRefines
    <3>3. CASE rpc.session /\ ProtocolFailed(Usb, rpc.handshake_id)
      BY <3>3, <1>h DEF Next
    <3>. QED  BY <2>9, <3>2, <3>3 DEF HandshakeFailed
  <2>. QED  BY <1>3, <2>1, <2>2, <2>3, <2>4, <2>5, <2>6, <2>7, <2>8, <2>9 DEF Requests
<1>4. CASE Commits
  <2>1. CASE SendFinished \/ CommitRefused \/ PrepareAccess \/ SecureRequest \/ ActivateAccess
    BY <2>1 DEF SendFinished, CommitRefused, PrepareAccess, SecureRequest, ActivateAccess
  <2>2. CASE FinishedSent
    <3>. DEFINE met == state = "WAIT_FINISHED_SENT" /\ SessionMatches(Usb, rpc.handshake_id)
    <3>1. met \in BOOLEAN
      BY DEF SessionMatches
    <3>2. CallFails(met) => Next \/ UNCHANGED vars
      BY <3>1, CallFailsRefines
    <3>3. CASE DeviceFinishedSent(Usb, rpc.handshake_id)
      BY <3>3, <2>2, <1>h DEF FinishedSent, HandlerShape, Next
    <3>. QED  BY <2>2, <3>2, <3>3 DEF FinishedSent
  <2>3. CASE Abort
    <3>1. CASE Disconnect(Usb)
      BY <3>1 DEF Next
    <3>. QED  BY <2>3, <3>1, CallFailsRefines DEF Abort
  <2>4. CASE RequestServed
    <3>1. CASE AuthenticatedActivity(Usb)
      BY <3>1 DEF Next
    <3>. QED  BY <2>4, <3>1, CallFailsRefines DEF RequestServed
  <2>. QED  BY <1>4, <2>1, <2>2, <2>3, <2>4 DEF Commits
<1>. QED  BY <1>1, <1>2, <1>3, <1>4 DEF UsbNext

\* Every behaviour of the composition is one of the lifecycle, so the lifecycle's
\* invariant, proved for calls in any order, is there to use.
LEMMA OwnerSteps == UsbSpec => Spec
<1>1. UsbInit => Init
  BY DEF UsbInit
<1>2. HandlerShape /\ [UsbNext]_usbVars => [Next]_vars
  BY OwnerRefines DEF usbVars
<1>. QED  BY <1>1, <1>2, HandlersAreOrdered, PTL DEF UsbSpec, Spec

----------------------------------------------------------------------------
\* What one lifecycle call does to the state the owner's invariant speaks of:
\* nothing, a close, or what the call is for.

Same   == UNCHANGED <<state, connection_id, handshake_id, exposing>>
Closed == /\ state' \in {"INACTIVE", "LOCKED", "FAULT"}
          /\ connection_id' = NoId
          /\ exposing' = FALSE

LEMMA SettledCloses == Settled(attempts) \in {"INACTIVE", "LOCKED"}
BY DEF Settled

LEMMA RefreshEffect ==
  ASSUME Refreshes
  PROVE  ~exposing /\ (Same \/ Closed)
BY SettledCloses DEF Refreshes, Tick, InTime, Callable, ClockFails, Expire, EnterFault,
   CloseTo, FaultAfterClearFailure, Revoke, Same, Closed, ids

LEMMA CallFailsEffect ==
  ASSUME NEW met \in BOOLEAN, CallFails(met), ~exposing
  PROVE  \/ Same /\ (~met \/ state = "FAULT")
         \/ Closed
<1>1. CASE ClockFails \/ Expire
  BY <1>1, SettledCloses DEF ClockFails, Expire, Callable, EnterFault, CloseTo,
     FaultAfterClearFailure, Revoke, Closed
<1>2. CASE Tick /\ ~met
  BY <1>2 DEF Tick, Same, ids
<1>3. CASE state = "FAULT" /\ UNCHANGED vars
  BY <1>3 DEF vars, Same
<1>. QED  BY <1>1, <1>2, <1>3 DEF CallFails

LEMMA OutsideEffect ==
  ASSUME PowerOn \/ TimePasses \/ DisplaySettles \/ (\E a \in Actions : PostLocalAction(a))
  PROVE  /\ UNCHANGED <<connection_id, handshake_id, exposing>>
         /\ \/ state' = state
            \/ state = "NONE" /\ state' \in {"INACTIVE", "LOCKED", "FAULT"}
BY DEF PowerOn, TimePasses, DisplaySettles, PostLocalAction, ids, Settled

LEMMA LocalOpenEffect ==
  ASSUME LocalOpen(Usb)
  PROVE  /\ state = "INACTIVE" /\ state' \in {"AVAILABLE", "INACTIVE", "FAULT"}
         /\ connection_id' \in {Usb, NoId, connection_id}
         /\ UNCHANGED exposing
BY DEF LocalOpen, InTime, ids

LEMMA LocalResetEffect ==
  ASSUME LocalReset
  PROVE  Closed
BY DEF LocalReset, Callable, CloseTo, FaultAfterClearFailure, Revoke, Closed

LEMMA BeginEffect ==
  ASSUME NEW h, Begin(Usb, h)
  PROVE  \/ /\ exposing' /\ state' = "HANDSHAKE"
            /\ connection_id' = Usb /\ handshake_id' = h
         \/ Closed
BY DEF Begin, InTime, Callable, EnterFault, CloseTo, FaultAfterClearFailure, Revoke, Closed

LEMMA ConsumeEffect ==
  ASSUME ConsumeCode
  PROVE  \/ UNCHANGED <<state, connection_id, handshake_id>> /\ exposing' = FALSE
         \/ Closed
BY SettledCloses DEF ConsumeCode, FaultAfterClearFailure, Revoke, Closed, ids

LEMMA ProgressEffect ==
  ASSUME NEW h, HandshakeProgress(Usb, h)
  PROVE  state = "HANDSHAKE" /\ SessionMatches(Usb, h) /\ Same /\ ~exposing
BY DEF HandshakeProgress, InTime, Callable, Same, ids

LEMMA VerifiedEffect ==
  ASSUME NEW h, ClientFinishedVerified(Usb, h)
  PROVE  /\ state = "HANDSHAKE" /\ state' = "WAIT_FINISHED_SENT" /\ ~exposing
         /\ UNCHANGED <<connection_id, handshake_id, exposing>>
BY DEF ClientFinishedVerified, InTime, Callable, ids

LEMMA SentEffect ==
  ASSUME NEW h, DeviceFinishedSent(Usb, h)
  PROVE  \/ /\ state' = "ACTIVE" /\ connection_id = Usb /\ ~exposing
            /\ UNCHANGED <<connection_id, handshake_id, exposing>>
         \/ Closed
BY DEF DeviceFinishedSent, InTime, Callable, SessionMatches, EnterFault, CloseTo,
   FaultAfterClearFailure, Revoke, Closed, ids

LEMMA ActivityEffect ==
  ASSUME AuthenticatedActivity(Usb)
  PROVE  Same /\ ~exposing
BY DEF AuthenticatedActivity, InTime, Callable, Same, ids

LEMMA AbandonEffect ==
  ASSUME NEW h, Disconnect(Usb) \/ ProtocolFailed(Usb, h)
  PROVE  Closed
BY SettledCloses DEF Disconnect, ProtocolFailed, Abandon, InTime, Callable, CloseTo,
   FaultAfterClearFailure, Revoke, Closed

----------------------------------------------------------------------------
\* The inductive step.

\* What the owner's invariant takes from the lifecycle's.
LEMMA LifecycleFacts ==
  ASSUME IInv
  PROVE  /\ state \in Live <=> connection_id # NoId
         /\ exposing => state = "HANDSHAKE"
         /\ state \in States /\ exposing \in BOOLEAN
BY DEF IInv, IdShape, TypeOK

\* A close the port is told of leaves no channel and no grant.
LEMMA ClosedRevokes ==
  ASSUME UsbInv, Closed, RevokePort, registry # "prepared"
  PROVE  registry' = "none" /\ channel' = FALSE
BY DEF UsbInv, UsbTypeOK, Registries, AccessIsLive, Closed, RevokePort

LEMMA PortIsQuiet ==
  ASSUME UNCHANGED connection_id, RevokePort
  PROVE  UNCHANGED <<registry, channel>>
BY DEF RevokePort

\* After a close the records agree wherever the handler goes on to clean up.
LEMMA ClosedAgrees ==
  ASSUME Closed, registry' = "none", channel' = FALSE, rpc' \in Attempts,
         pc' \in {"loop", "dropStart", "dropReset", "failed", "commitFailed", "abort"},
         rpc'.finished_pending => pc' \in {"commitFailed", "abort"}
  PROVE  UsbInv'
BY DEF Closed, UsbInv, UsbTypeOK, Registries, Points, AccessIsLive, SecretsMatchWindow,
   PointShape

LEMMA NextUsbInv == IInv /\ UsbInv /\ [UsbNext]_usbVars => UsbInv'
<1>. SUFFICES ASSUME IInv, UsbInv, [UsbNext]_usbVars PROVE UsbInv'
  OBVIOUS
<1>. USE NoAttemptType DEF GoTo, At, clear_attempt
<1>f. /\ state \in Live <=> connection_id # NoId
      /\ exposing => state = "HANDSHAKE"
      /\ state \in States /\ exposing \in BOOLEAN
  BY LifecycleFacts
<1>q. /\ ~NoAttempt.finished_pending /\ ~NoAttempt.session /\ ~NoAttempt.prepared
      /\ Usb # NoId
  BY DEF NoAttempt
<1>1. CASE Outside
  <2>1. UNCHANGED <<rpc, channel, registry, pc, connection_id, handshake_id, exposing>>
    BY <1>1, OutsideEffect DEF Outside
  <2>2. \/ state' = state
        \/ state = "NONE" /\ state' \in {"INACTIVE", "LOCKED", "FAULT"}
    BY <1>1, OutsideEffect DEF Outside
  <2>. QED  BY <2>1, <2>2, <1>f DEF UsbInv, UsbTypeOK, AccessIsLive, SecretsMatchWindow,
               PointShape, SessionMatches
<1>2. CASE OwnerDies
  <2>1. /\ state' = "NONE" /\ connection_id' = NoId /\ exposing' = FALSE /\ rpc' = NoAttempt
        /\ channel' = FALSE /\ registry' = "none" /\ pc' = "loop"
    BY <1>2 DEF OwnerDies, PowerLoss
  <2>. QED  BY <2>1, <1>q DEF UsbInv, UsbTypeOK, Registries, Points, AccessIsLive,
               SecretsMatchWindow, PointShape
<1>3. CASE Poll
  <2>1. pc = "loop" /\ RevokePort /\ UNCHANGED <<rpc, pc>> /\ (Same \/ Closed)
    BY <1>3, RefreshEffect DEF Poll
  <2>2. registry # "prepared" /\ ~rpc.finished_pending /\ rpc \in Attempts
    BY <2>1 DEF UsbInv, UsbTypeOK, AccessIsLive, PointShape
  <2>3. CASE Closed
    BY <2>1, <2>2, <2>3, ClosedRevokes, ClosedAgrees
  <2>4. CASE Same
    BY <2>1, <2>4, PortIsQuiet DEF Same, UsbInv, UsbTypeOK, AccessIsLive,
       SecretsMatchWindow, PointShape, SessionMatches
  <2>. QED  BY <2>1, <2>3, <2>4
<1>4. CASE LocalActions
  <2>1. CASE LocalStart
    <3>1. pc = "loop" /\ pc' \in {"loop", "dropStart"} /\ RevokePort /\ UNCHANGED rpc
      BY <2>1 DEF LocalStart
    <3>2. registry # "prepared" /\ ~rpc.finished_pending /\ rpc \in Attempts /\ ~exposing
      BY <3>1, <1>f DEF UsbInv, UsbTypeOK, AccessIsLive, PointShape
    <3>3. CASE LocalOpen(Usb)
      <4>1. /\ state = "INACTIVE" /\ state' \in {"AVAILABLE", "INACTIVE", "FAULT"}
            /\ connection_id' \in {Usb, NoId} /\ connection_id = NoId
            /\ UNCHANGED exposing
        BY <3>3, <1>f, LocalOpenEffect DEF Live
      <4>2. UNCHANGED <<registry, channel>>
        BY <3>1, <4>1 DEF RevokePort
      <4>. QED  BY <3>1, <3>2, <4>1, <4>2, <1>q DEF UsbInv, UsbTypeOK, Points,
                   AccessIsLive, SecretsMatchWindow, PointShape
    <3>4. CASE CallFails(state = "INACTIVE") /\ Closed
      BY <3>1, <3>2, <3>4, ClosedRevokes, ClosedAgrees
    <3>5. CASE CallFails(state = "INACTIVE") /\ Same
      BY <3>1, <3>2, <3>5, PortIsQuiet DEF Same, UsbInv, UsbTypeOK, Points, AccessIsLive,
         SecretsMatchWindow, PointShape, SessionMatches
    <3>. QED  BY <2>1, <3>2, <3>3, <3>4, <3>5, CallFailsEffect DEF LocalStart
  <2>2. CASE LocalResetAction
    <3>1. pc = "loop" /\ pc' \in {"loop", "dropReset"} /\ RevokePort /\ UNCHANGED rpc /\ Closed
      BY <2>2, LocalResetEffect DEF LocalResetAction
    <3>2. registry # "prepared" /\ ~rpc.finished_pending /\ rpc \in Attempts
      BY <3>1 DEF UsbInv, UsbTypeOK, AccessIsLive, PointShape
    <3>. QED  BY <3>1, <3>2, ClosedRevokes, ClosedAgrees
  <2>3. CASE DropAction("START", "dropStart") \/ DropAction("RESET", "dropReset")
    <3>1. /\ pc \in {"dropStart", "dropReset"} /\ pc' = "loop"
          /\ UNCHANGED <<rpc, channel, registry>> /\ Same
      BY <2>3 DEF DropAction, DropLocalAction, vars, ids, Same
    <3>. QED  BY <3>1 DEF Same, UsbInv, UsbTypeOK, Points, AccessIsLive,
                 SecretsMatchWindow, PointShape, SessionMatches
  <2>. QED  BY <1>4, <2>1, <2>2, <2>3 DEF LocalActions
<1>5. CASE Requests
  <2>. SUFFICES ASSUME Requests PROVE UsbInv'
    BY <1>5
  <2>1. ASSUME NEW h \in Handshakes, Prepare(h) PROVE UsbInv'
    <3>1. /\ pc = "loop" /\ state = "AVAILABLE" /\ Same /\ UNCHANGED <<channel, registry, pc>>
          /\ rpc' = [NoAttempt EXCEPT !.prepared = TRUE, !.handshake_id = h]
      BY <2>1 DEF Prepare, PublicFrame, Tick, ids, Same
    <3>2. rpc' \in Attempts /\ ~rpc'.session /\ ~rpc'.finished_pending
      BY <3>1 DEF Attempts, NoAttempt
    <3>. QED  BY <3>1, <3>2 DEF Same, UsbInv, UsbTypeOK, AccessIsLive, SecretsMatchWindow,
                 PointShape
  <2>2. CASE PrepareRefused
    <3>1. /\ pc = "loop" /\ rpc' = NoAttempt /\ RevokePort /\ UNCHANGED pc /\ (Same \/ Closed)
      BY <2>2, RefreshEffect DEF PrepareRefused, PublicFrame, vars, Same
    <3>2. registry # "prepared" /\ ~exposing
      BY <3>1, <1>f DEF UsbInv, AccessIsLive, PointShape
    <3>3. CASE Closed
      BY <3>1, <3>2, <3>3, <1>q, ClosedRevokes, ClosedAgrees
    <3>4. CASE Same
      BY <3>1, <3>2, <3>4, <1>q, PortIsQuiet DEF Same, UsbInv, UsbTypeOK, AccessIsLive,
         SecretsMatchWindow, PointShape
    <3>. QED  BY <3>1, <3>3, <3>4
  <2>3. CASE BeginRequest
    <3>1. /\ pc = "loop" /\ ~channel /\ rpc.prepared /\ ~rpc.session /\ RevokePort
          /\ UNCHANGED rpc /\ Begin(Usb, rpc.handshake_id)
          /\ pc' = IF exposing' THEN "consume" ELSE "failed"
      BY <2>3 DEF BeginRequest, PublicFrame
    <3>2. registry # "prepared" /\ ~rpc.finished_pending /\ rpc \in Attempts /\ registry # "active"
      BY <3>1 DEF UsbInv, UsbTypeOK, AccessIsLive, PointShape
    <3>3. CASE Closed
      BY <3>1, <3>2, <3>3, ClosedRevokes, ClosedAgrees DEF Closed
    <3>4. CASE /\ exposing' /\ state' = "HANDSHAKE"
               /\ connection_id' = Usb /\ handshake_id' = rpc.handshake_id
      <4>1. UNCHANGED <<registry, channel>>
        BY <3>1, <3>4, <1>q DEF RevokePort
      <4>. QED  BY <3>1, <3>2, <3>4, <4>1 DEF UsbInv, UsbTypeOK, Points, AccessIsLive,
                   SecretsMatchWindow, PointShape, SessionMatches
    <3>. QED  BY <3>1, <3>3, <3>4, BeginEffect
  <2>4. CASE ConsumeCodeCallback
    <3>1. /\ pc = "consume" /\ RevokePort /\ pc' \in {"progress", "failed"}
          /\ rpc.prepared /\ ~rpc.session /\ SessionMatches(Usb, rpc.handshake_id)
          /\ state = "HANDSHAKE" /\ rpc \in Attempts /\ registry # "prepared" /\ ~channel
      BY <2>4, <1>f DEF ConsumeCodeCallback, UsbInv, UsbTypeOK, AccessIsLive, PointShape
    <3>2. rpc' = rpc \/ rpc' = [rpc EXCEPT !.session = TRUE]
      BY <2>4 DEF ConsumeCodeCallback
    <3>3. rpc' \in Attempts /\ ~rpc'.finished_pending /\ rpc'.handshake_id = rpc.handshake_id
      BY <3>1, <3>2 DEF Attempts
    <3>4. CASE Closed
      <4>1. pc' = "failed"
        BY <2>4, <3>4 DEF ConsumeCodeCallback, Closed
      <4>. QED  BY <3>1, <3>3, <3>4, <4>1, ClosedRevokes, ClosedAgrees
    <3>5. CASE UNCHANGED <<state, connection_id, handshake_id>> /\ exposing' = FALSE
      <4>1. UNCHANGED <<registry, channel>>
        BY <3>1, <3>5, PortIsQuiet
      <4>. QED  BY <3>1, <3>3, <3>5, <4>1 DEF UsbInv, UsbTypeOK, Points, AccessIsLive,
                   SecretsMatchWindow, PointShape, SessionMatches
    <3>. QED  BY <2>4, <3>4, <3>5, ConsumeEffect DEF ConsumeCodeCallback
  <2>5. CASE BeginProgress
    <3>1. pc = "progress" /\ RevokePort /\ UNCHANGED rpc /\ pc' \in {"loop", "failed"}
      BY <2>5 DEF BeginProgress
    <3>2. /\ registry # "prepared" /\ ~rpc.finished_pending /\ rpc \in Attempts /\ ~exposing
          /\ state \notin {"WAIT_FINISHED_SENT", "ACTIVE"}
      BY <3>1, <1>f DEF UsbInv, UsbTypeOK, AccessIsLive, PointShape
    <3>3. CASE Closed
      BY <3>1, <3>2, <3>3, ClosedRevokes, ClosedAgrees
    <3>4. CASE Same
      BY <3>1, <3>2, <3>4, PortIsQuiet DEF Same, UsbInv, UsbTypeOK, Points, AccessIsLive,
         SecretsMatchWindow, PointShape, SessionMatches
    <3>5. InHandshake \in BOOLEAN
      BY DEF InHandshake, SessionMatches
    <3>. QED  BY <2>5, <3>2, <3>3, <3>4, <3>5, CallFailsEffect, ProgressEffect
                 DEF BeginProgress
  <2>6. CASE RoundTwo
    <3>1. /\ pc = "loop" /\ rpc.session /\ Same /\ UNCHANGED <<channel, registry, pc>>
          /\ rpc' = [rpc EXCEPT !.round_two_complete = TRUE]
      BY <2>6, ProgressEffect DEF RoundTwo, PublicFrame
    <3>2. /\ rpc \in Attempts /\ rpc' \in Attempts /\ rpc'.finished_pending = rpc.finished_pending
          /\ rpc'.session /\ rpc'.handshake_id = rpc.handshake_id
          /\ rpc'.prepared = rpc.prepared
      BY <3>1 DEF UsbInv, UsbTypeOK, Attempts
    <3>. QED  BY <3>1, <3>2 DEF Same, UsbInv, UsbTypeOK, AccessIsLive, SecretsMatchWindow,
                 PointShape, SessionMatches
  <2>7. CASE Finish
    <3>1. /\ pc = "loop" /\ ~channel /\ rpc.round_two_complete /\ pc' = "send"
          /\ UNCHANGED <<channel, registry>>
          /\ state = "HANDSHAKE" /\ state' = "WAIT_FINISHED_SENT" /\ ~exposing
          /\ UNCHANGED <<connection_id, handshake_id, exposing>>
          /\ rpc' = [rpc EXCEPT !.finished_pending = TRUE]
      BY <2>7, VerifiedEffect DEF Finish, PublicFrame
    <3>2. /\ rpc \in Attempts /\ rpc' \in Attempts /\ rpc'.finished_pending
          /\ rpc.session /\ rpc'.handshake_id = rpc.handshake_id
      BY <3>1 DEF UsbInv, UsbTypeOK, Attempts
    <3>. QED  BY <3>1, <3>2 DEF UsbInv, UsbTypeOK, Points, AccessIsLive,
                 SecretsMatchWindow, PointShape, SessionMatches
  <2>8. CASE HandshakeRefused
    <3>. DEFINE met == IF rpc.session THEN InHandshake ELSE state = "AVAILABLE"
    <3>1. pc = "loop" /\ ~channel /\ RevokePort /\ UNCHANGED rpc /\ pc' = "failed"
      BY <2>8 DEF HandshakeRefused, PublicFrame
    <3>2. /\ registry # "prepared" /\ ~rpc.finished_pending /\ rpc \in Attempts /\ ~exposing
          /\ state \notin {"WAIT_FINISHED_SENT", "ACTIVE"}
      BY <3>1, <1>f DEF UsbInv, UsbTypeOK, AccessIsLive, PointShape
    <3>3. CASE Closed
      BY <3>1, <3>2, <3>3, ClosedRevokes, ClosedAgrees
    <3>4. CASE Same
      BY <3>1, <3>2, <3>4, PortIsQuiet DEF Same, UsbInv, UsbTypeOK, Points, AccessIsLive,
         SecretsMatchWindow, PointShape, SessionMatches
    <3>5. met \in BOOLEAN
      BY DEF InHandshake, SessionMatches
    <3>6. CallFails(met) => Same \/ Closed
      BY <3>2, <3>5, CallFailsEffect
    <3>. QED  BY <2>8, <3>3, <3>4, <3>6 DEF HandshakeRefused, vars, Same
  <2>9. CASE HandshakeFailed
    <3>. DEFINE met == /\ state \in {"HANDSHAKE", "WAIT_FINISHED_SENT"}
                       /\ SessionMatches(Usb, rpc.handshake_id)
    <3>1. /\ pc \in {"failed", "commitFailed"} /\ RevokePort /\ rpc' = NoAttempt
          /\ pc' = IF pc = "failed" THEN "loop" ELSE "abort"
      BY <2>9 DEF HandshakeFailed
    <3>2. registry # "prepared" /\ ~exposing /\ state # "ACTIVE"
      BY <3>1, <1>f DEF UsbInv, AccessIsLive, PointShape
    <3>3. CASE Closed
      BY <3>1, <3>2, <3>3, <1>q, ClosedRevokes, ClosedAgrees
    <3>4. CASE Same /\ (rpc.session => ~met \/ state = "FAULT")
      <4>1. state # "WAIT_FINISHED_SENT"
        BY <3>1, <3>4 DEF UsbInv, SecretsMatchWindow, PointShape
      <4>. QED  BY <3>1, <3>2, <3>4, <4>1, <1>q, PortIsQuiet DEF Same, UsbInv, UsbTypeOK,
                   Points, AccessIsLive, SecretsMatchWindow, PointShape
    <3>5. met \in BOOLEAN
      BY DEF SessionMatches
    <3>6. CallFails(met) => (Same /\ (~met \/ state = "FAULT")) \/ Closed
      BY <3>2, <3>5, CallFailsEffect
    <3>7. rpc.session /\ ProtocolFailed(Usb, rpc.handshake_id) => Closed
      BY AbandonEffect
    <3>. QED  BY <2>9, <3>3, <3>4, <3>6, <3>7 DEF HandshakeFailed, vars, Same
  <2>. QED  BY <2>1, <2>2, <2>3, <2>4, <2>5, <2>6, <2>7, <2>8, <2>9 DEF Requests
<1>6. CASE Commits
  <2>1. CASE SendFinished \/ CommitRefused \/ PrepareAccess
    <3>1. /\ pc \in {"send", "commit"} /\ Same /\ UNCHANGED <<rpc, channel>>
          /\ \/ pc' \in {"commit", "abort"} /\ pc = "send" /\ UNCHANGED registry
             \/ pc' = "commitFailed" /\ registry' = "none"
             \/ pc' = "sent" /\ registry' = "prepared"
      BY <2>1 DEF SendFinished, CommitRefused, PrepareAccess, vars, Same
    <3>2. /\ state = "WAIT_FINISHED_SENT" /\ rpc.finished_pending /\ rpc.session
          /\ ~channel /\ registry = "none" /\ ~exposing
      BY <3>1, <1>f DEF UsbInv, UsbTypeOK, Registries, Attempts, AccessIsLive, PointShape
    <3>. QED  BY <3>1, <3>2 DEF Same, UsbInv, UsbTypeOK, Registries, Points, AccessIsLive,
                 SecretsMatchWindow, PointShape, SessionMatches
  <2>2. CASE FinishedSent
    <3>. DEFINE met == state = "WAIT_FINISHED_SENT" /\ SessionMatches(Usb, rpc.handshake_id)
    <3>1. /\ pc = "sent" /\ UNCHANGED rpc
          /\ \/ state' = "ACTIVE" /\ pc' = "activate" /\ UNCHANGED <<channel, registry>>
             \/ /\ state' # "ACTIVE" /\ pc' = "commitFailed"
                /\ registry' = "none" /\ channel' = FALSE
      BY <2>2 DEF FinishedSent
    <3>2. /\ state = "WAIT_FINISHED_SENT" /\ rpc.finished_pending /\ rpc.session /\ ~channel
          /\ rpc \in Attempts /\ ~exposing
      BY <3>1, <1>f DEF UsbInv, UsbTypeOK, Attempts, AccessIsLive, PointShape
    <3>3. CASE Closed
      BY <3>1, <3>2, <3>3, ClosedAgrees DEF Closed
    <3>4. CASE Same
      BY <3>1, <3>2, <3>4 DEF Same, UsbInv, UsbTypeOK, Registries, Points, AccessIsLive,
         SecretsMatchWindow, PointShape, SessionMatches
    <3>5. CASE /\ state' = "ACTIVE" /\ connection_id = Usb
               /\ UNCHANGED <<connection_id, handshake_id, exposing>>
      <4>1. registry \in {"prepared", "none"}
        BY <3>2 DEF UsbInv, UsbTypeOK, Registries, AccessIsLive
      <4>2. registry = "prepared"
        BY <3>1, <4>1 DEF UsbInv, PointShape
      <4>. QED  BY <3>1, <3>2, <3>5, <4>2 DEF UsbInv, UsbTypeOK, Points, AccessIsLive,
                   SecretsMatchWindow, PointShape
    <3>6. met \in BOOLEAN
      BY DEF SessionMatches
    <3>7. CallFails(met) => Same \/ Closed
      BY <3>2, <3>6, CallFailsEffect
    <3>. QED  BY <2>2, <3>3, <3>4, <3>5, <3>7, SentEffect DEF FinishedSent
  <2>3. CASE ActivateAccess
    <3>1. /\ pc = "activate" /\ pc' = "loop" /\ registry' = "active" /\ channel' = TRUE
          /\ rpc' = NoAttempt /\ Same
      BY <2>3 DEF ActivateAccess, vars, Same
    <3>2. state = "ACTIVE" /\ connection_id = Usb /\ ~exposing
      BY <3>1, <1>f DEF UsbInv, PointShape, Live
    <3>. QED  BY <3>1, <3>2, <1>q DEF Same, UsbInv, UsbTypeOK, Registries, Points,
                 AccessIsLive, SecretsMatchWindow, PointShape
  <2>4. CASE Abort
    <3>1. /\ pc = "abort" /\ pc' = "loop" /\ registry' = "none" /\ channel' = FALSE
          /\ rpc' = NoAttempt
      BY <2>4 DEF Abort
    <3>2. ~exposing
      BY <3>1, <1>f DEF UsbInv, PointShape
    <3>3. CASE Closed
      BY <3>1, <3>3, <1>q, ClosedAgrees
    <3>4. CASE Same /\ (connection_id # Usb \/ state = "FAULT")
      <4>1. state \notin Live
        BY <3>4, <1>f DEF UsbInv, Live
      <4>. QED  BY <3>1, <3>2, <3>4, <4>1, <1>q DEF Same, UsbInv, UsbTypeOK, Registries,
                   Points, AccessIsLive, SecretsMatchWindow, PointShape, Live
    <3>5. CallFails(connection_id = Usb) => (Same /\ (connection_id # Usb \/ state = "FAULT")) \/ Closed
      BY <3>2, CallFailsEffect
    <3>. QED  BY <2>4, <3>3, <3>4, <3>5, AbandonEffect DEF Abort
  <2>5. CASE SecureRequest
    <3>1. /\ pc = "loop" /\ channel /\ pc' \in {"served", "abort"} /\ Same
          /\ UNCHANGED <<rpc, channel, registry>>
      BY <2>5 DEF SecureRequest, SecureFrame, vars, Same
    <3>. QED  BY <3>1 DEF Same, UsbInv, UsbTypeOK, Points, AccessIsLive,
                 SecretsMatchWindow, PointShape, SessionMatches
  <2>6. CASE RequestServed
    <3>1. /\ pc = "served" /\ RevokePort /\ UNCHANGED rpc /\ pc' \in {"loop", "abort"}
      BY <2>6 DEF RequestServed
    <3>2. /\ registry # "prepared" /\ ~rpc.finished_pending /\ rpc \in Attempts /\ ~exposing
          /\ channel
      BY <3>1, <1>f DEF UsbInv, UsbTypeOK, AccessIsLive, PointShape
    <3>3. CASE Closed
      BY <3>1, <3>2, <3>3, ClosedRevokes, ClosedAgrees
    <3>4. CASE Same
      BY <3>1, <3>2, <3>4, PortIsQuiet DEF Same, UsbInv, UsbTypeOK, Points, AccessIsLive,
         SecretsMatchWindow, PointShape, SessionMatches
    <3>5. CallFails(state = "ACTIVE" /\ connection_id = Usb) => Same \/ Closed
      BY <3>2, CallFailsEffect
    <3>. QED  BY <2>6, <3>3, <3>4, <3>5, ActivityEffect DEF RequestServed
  <2>. QED  BY <1>6, <2>1, <2>2, <2>3, <2>4, <2>5, <2>6 DEF Commits
<1>7. CASE UNCHANGED usbVars
  BY <1>7 DEF usbVars, vars, ids, UsbInv, UsbTypeOK, AccessIsLive, SecretsMatchWindow,
     PointShape, SessionMatches
<1>. QED  BY <1>1, <1>2, <1>3, <1>4, <1>5, <1>6, <1>7 DEF UsbNext

\* Lifecycle, handshake, channel and registry agree at every point of every handler
\* (usb_management.c, 208-399; pairing_rpc.c, 248-280 and 705-754).
THEOREM OwnerInductive == UsbSpec => []UsbInv
<1>1. UsbInit => UsbInv
  <2>. SUFFICES ASSUME UsbInit PROVE UsbInv
    OBVIOUS
  <2>1. /\ state = "NONE" /\ connection_id = NoId /\ exposing = FALSE /\ rpc = NoAttempt
        /\ channel = FALSE /\ registry = "none" /\ pc = "loop"
    BY DEF UsbInit, Init
  <2>2. ~NoAttempt.finished_pending /\ ~NoAttempt.session
    BY DEF NoAttempt
  <2>. QED  BY <2>1, <2>2, NoAttemptType DEF UsbInv, UsbTypeOK, Registries, Points,
               AccessIsLive, SecretsMatchWindow, PointShape
<1>2. UsbSpec => []IInv
  BY OwnerSteps, PairingInductive, PTL
<1>. QED  BY <1>1, <1>2, NextUsbInv, PTL DEF UsbSpec

\* An access is authorized exactly while its channel is installed, and neither outlives
\* its session (usb_management.c, 120-128; pairing_rpc.c, 725-743).
THEOREM AccessesAreLive == UsbSpec => []AccessIsLive
<1>1. UsbInv => AccessIsLive
  BY DEF UsbInv
<1>. QED  BY <1>1, OwnerInductive, PTL

\* Secrets of an earlier window never meet a live handshake (pairing_rpc.c, 248-258).
THEOREM SecretsMatch == UsbSpec => []SecretsMatchWindow
<1>1. UsbInv => SecretsMatchWindow
  BY DEF UsbInv
<1>. QED  BY <1>1, OwnerInductive, PTL

\* Before the next frame a verified Finished is committed or aborted, and a session has
\* its channel (usb_management.c, 331-361).
THEOREM LoopsSettle == UsbSpec => []LoopIsSettled
<1>1. UsbInv => LoopIsSettled
  BY DEF UsbInv, PointShape, LoopIsSettled
<1>. QED  BY <1>1, OwnerInductive, PTL
=============================================================================
