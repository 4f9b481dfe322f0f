--------------------------- MODULE UsbManagement ----------------------------
(***************************************************************************)
(* The USB management owner: management_task                               *)
(* (management_transport/src/aiqa_usb_management.c) with the pairing       *)
(* requests (aiqa_pairing_rpc.c), the authorization registry               *)
(* (management_access) and the lifecycle they drive.                       *)
(*                                                                         *)
(* Four pieces of state say who may manage the device: the lifecycle, the  *)
(* handshake the requests work on, the secure channel and the registry.    *)
(* One task changes them all, and its handlers call the lifecycle several  *)
(* times: time passes, faults and local actions arrive between two calls,  *)
(* and each of them may find the window or session overdue and revoke.     *)
(*                                                                         *)
(* pc is where the task is: "loop" between frames, or inside a handler.    *)
(* The cryptography is abstract: any check of it may fail.                 *)
(***************************************************************************)
EXTENDS PairingLifecycle

CONSTANT Usb      \* owner->connection_id, fixed by aiqa_usb_management_start

ASSUME UsbIsConnection == Usb \in Connections

VARIABLES
  rpc,            \* the attempt: aiqa_pairing_rpc_t
  channel,        \* owner->active_channel is installed
  registry,       \* the access registry: "none", "prepared" or "active"
  pc

usbVars == <<vars, rpc, channel, registry, pc>>

Registries == {"none", "prepared", "active"}
Points == {"loop", "dropStart", "dropReset", "consume", "progress", "failed", "send",
           "commit", "sent", "activate", "commitFailed", "abort", "served"}

\* rpc->connection_id is Usb exactly while prepared.
Attempts ==
  {a \in [prepared : BOOLEAN, handshake_id : Handshakes \cup {NoId}, session : BOOLEAN,
          round_two_complete : BOOLEAN, finished_pending : BOOLEAN] :
     /\ a.prepared <=> a.handshake_id # NoId
     /\ a.session => a.prepared
     /\ a.round_two_complete => a.session
     /\ a.finished_pending => a.round_two_complete}

NoAttempt == [prepared |-> FALSE, handshake_id |-> NoId, session |-> FALSE,
              round_two_complete |-> FALSE, finished_pending |-> FALSE]

UsbInit ==
  /\ Init
  /\ rpc = NoAttempt /\ channel = FALSE /\ registry = "none" /\ pc = "loop"

-----------------------------------------------------------------------------
\* Helpers of the handlers.

clear_attempt == rpc' = NoAttempt

\* The registry keeps authorizing what the lifecycle has revoked.
MutRevokePortRegistry ==
  IF connection_id # NoId /\ connection_id' = NoId
  THEN channel' = FALSE /\ UNCHANGED registry
  ELSE UNCHANGED <<registry, channel>>

\* The lifecycle's revoke_connection port, called inside its step.
RevokePort ==
  IF connection_id # NoId /\ connection_id' = NoId
  THEN registry' = "none" /\ channel' = FALSE
  ELSE UNCHANGED <<registry, channel>>

\* A lifecycle call that does not return OK, where met is what it asks of the
\* lifecycle's state.
CallFails(met) ==
  \/ ClockFails
  \/ Expire
  \/ Tick /\ ~met
  \/ state = "FAULT" /\ UNCHANGED vars

At(p) == pc = p /\ state # "NONE"
GoTo(p) == pc' = p

\* A frame on a link without, and with, a channel.
PublicFrame == At("loop") /\ ~channel
SecureFrame == At("loop") /\ channel

InHandshake == state = "HANDSHAKE" /\ SessionMatches(Usb, rpc.handshake_id)

-----------------------------------------------------------------------------
\* process_local_action.  A reset goes first; what a call that failed left in
\* the bits is dropped, a press that arrived since included.

LocalStart ==
  /\ At("loop")
  /\ "START" \in presence /\ "RESET" \notin presence
  /\ \/ LocalOpen(Usb) /\ GoTo(IF state' = "AVAILABLE" THEN "loop" ELSE "dropStart")
     \/ /\ CallFails(state = "INACTIVE")
        /\ GoTo(IF state' = "INACTIVE" THEN "loop" ELSE "dropStart")
  /\ RevokePort
  /\ UNCHANGED rpc

LocalResetAction ==
  /\ At("loop")
  /\ LocalReset
  /\ GoTo(IF state' = "INACTIVE" THEN "loop" ELSE "dropReset")
  /\ RevokePort
  /\ UNCHANGED rpc

DropAction(a, p) ==
  /\ At(p)
  /\ IF a \in presence THEN DropLocalAction(a) ELSE UNCHANGED vars
  /\ GoTo("loop")
  /\ UNCHANGED <<rpc, channel, registry>>

\* The turn's tick is left out while a channel is up: a client that falls silent
\* keeps its session.
MutPoll ==
  /\ At("loop") /\ ~channel
  /\ Refreshes
  /\ RevokePort
  /\ UNCHANGED <<rpc, pc>>

\* The tick of every turn, and pairing.status.  A failed tick is not FAULTED,
\* so the task never aborts here.
Poll ==
  /\ At("loop")
  /\ Refreshes
  /\ RevokePort
  /\ UNCHANGED <<rpc, pc>>

-----------------------------------------------------------------------------
\* The pairing requests.

\* A prepare is accepted whenever one asks.
MutPrepare(h) ==
  /\ PublicFrame
  /\ Tick
  /\ rpc' = [rpc EXCEPT !.prepared = TRUE, !.handshake_id = h]
  /\ UNCHANGED <<channel, registry, pc>>

Prepare(h) ==
  /\ PublicFrame
  /\ ~rpc.prepared
  /\ state = "AVAILABLE" /\ Tick
  /\ rpc' = [NoAttempt EXCEPT !.prepared = TRUE, !.handshake_id = h]
  /\ UNCHANGED <<channel, registry, pc>>

\* Malformed, already prepared, no window, or no random bytes: the attempt at
\* hand is cleared, and the lifecycle not told.
PrepareRefused ==
  /\ PublicFrame
  /\ UNCHANGED vars \/ (~rpc.prepared /\ Refreshes)
  /\ clear_attempt
  /\ RevokePort
  /\ UNCHANGED pc

BeginRequest ==
  /\ PublicFrame
  /\ rpc.prepared /\ ~rpc.session
  /\ Begin(Usb, rpc.handshake_id)
  /\ GoTo(IF exposing' THEN "consume" ELSE "failed")
  /\ RevokePort
  /\ UNCHANGED rpc

\* consume_code, then round one.
ConsumeCodeCallback ==
  /\ At("consume")
  /\ ConsumeCode
  /\ \/ /\ state' = "HANDSHAKE"
        /\ rpc' = [rpc EXCEPT !.session = TRUE]
        /\ GoTo("progress") \/ GoTo("failed")
     \/ /\ state' # "HANDSHAKE"
        /\ \/ UNCHANGED rpc
           \/ state' = "FAULT" /\ rpc' = [rpc EXCEPT !.session = TRUE]
        /\ GoTo("failed")
  /\ RevokePort

BeginProgress ==
  /\ At("progress")
  /\ \/ HandshakeProgress(Usb, rpc.handshake_id) /\ GoTo("loop")
     \/ CallFails(InHandshake) /\ GoTo("failed")
  /\ RevokePort
  /\ UNCHANGED rpc

RoundTwo ==
  /\ PublicFrame
  /\ rpc.session /\ ~rpc.round_two_complete
  /\ HandshakeProgress(Usb, rpc.handshake_id)
  /\ rpc' = [rpc EXCEPT !.round_two_complete = TRUE]
  /\ UNCHANGED <<channel, registry, pc>>

Finish ==
  /\ PublicFrame
  /\ rpc.round_two_complete /\ ~rpc.finished_pending
  /\ ClientFinishedVerified(Usb, rpc.handshake_id)
  /\ rpc' = [rpc EXCEPT !.finished_pending = TRUE]
  /\ GoTo("send")
  /\ UNCHANGED <<channel, registry>>

\* begin, round2 or finish out of order, malformed, failing its cryptography,
\* or refused by the lifecycle.
HandshakeRefused ==
  /\ PublicFrame
  /\ \/ UNCHANGED vars
     \/ rpc.prepared
        /\ CallFails(IF rpc.session THEN InHandshake ELSE state = "AVAILABLE")
  /\ GoTo("failed")
  /\ RevokePort
  /\ UNCHANGED rpc

\* protocol_failed tells the lifecycle only of a handshake that has a session.
HandshakeFailed ==
  /\ At("failed") \/ At("commitFailed")
  /\ IF rpc.session
     THEN \/ ProtocolFailed(Usb, rpc.handshake_id)
          \/ CallFails(/\ state \in {"HANDSHAKE", "WAIT_FINISHED_SENT"}
                       /\ SessionMatches(Usb, rpc.handshake_id))
     ELSE UNCHANGED vars
  /\ clear_attempt
  /\ GoTo(IF pc = "failed" THEN "loop" ELSE "abort")
  /\ RevokePort

-----------------------------------------------------------------------------
\* From a verified Finished to a channel: the response is sent, then
\* aiqa_pairing_rpc_commit_finished runs.

SendFinished ==
  /\ At("send")
  /\ GoTo("commit") \/ GoTo("abort")
  /\ UNCHANGED <<vars, rpc, channel, registry>>

\* No random generation, or a session that yields no channel.
CommitRefused ==
  /\ At("commit")
  /\ registry' = "none"
  /\ GoTo("commitFailed")
  /\ UNCHANGED <<vars, rpc, channel>>

PrepareAccess ==
  /\ At("commit")
  /\ rpc.finished_pending
  /\ registry' = "prepared"
  /\ GoTo("sent")
  /\ UNCHANGED <<vars, rpc, channel>>

FinishedSent ==
  /\ At("sent")
  /\ \/ DeviceFinishedSent(Usb, rpc.handshake_id)
     \/ CallFails(state = "WAIT_FINISHED_SENT" /\ SessionMatches(Usb, rpc.handshake_id))
  /\ IF state' = "ACTIVE"
     THEN GoTo("activate") /\ UNCHANGED <<channel, registry>>
     ELSE GoTo("commitFailed") /\ registry' = "none" /\ channel' = FALSE
  /\ UNCHANGED rpc

ActivateAccess ==
  /\ At("activate")
  /\ registry = "prepared"
  /\ registry' = "active"
  /\ channel' = TRUE
  /\ clear_attempt
  /\ GoTo("loop")
  /\ UNCHANGED vars

\* The owner forgets the connection and leaves the lifecycle to its timeouts.
MutAbort ==
  /\ At("abort")
  /\ UNCHANGED vars
  /\ registry' = "none" /\ channel' = FALSE /\ clear_attempt
  /\ GoTo("loop")

\* abort_active_connection.
Abort ==
  /\ At("abort")
  /\ Disconnect(Usb) \/ CallFails(connection_id = Usb)
  /\ registry' = "none" /\ channel' = FALSE /\ clear_attempt
  /\ GoTo("loop")

-----------------------------------------------------------------------------
\* handle_secure_request: the request runs, its response goes out, and only then
\* is the lifecycle told; a request that fails on the way ends the session.

SecureRequest ==
  /\ SecureFrame
  /\ GoTo("served") \/ GoTo("abort")
  /\ UNCHANGED <<vars, rpc, channel, registry>>

RequestServed ==
  /\ At("served")
  /\ \/ AuthenticatedActivity(Usb) /\ GoTo("loop")
     \/ CallFails(state = "ACTIVE" /\ connection_id = Usb) /\ GoTo("abort")
  /\ RevokePort
  /\ UNCHANGED rpc

-----------------------------------------------------------------------------
\* What happens to the task from outside.

Outside ==
  /\ \/ PowerOn \/ TimePasses \/ DisplaySettles
     \/ \E a \in Actions : PostLocalAction(a)
  /\ UNCHANGED <<rpc, channel, registry, pc>>

OwnerDies ==
  /\ PowerLoss
  /\ clear_attempt /\ channel' = FALSE /\ registry' = "none"
  /\ GoTo("loop")

LocalActions == LocalStart \/ LocalResetAction
                \/ DropAction("START", "dropStart") \/ DropAction("RESET", "dropReset")
Requests == PrepareRefused \/ BeginRequest \/ ConsumeCodeCallback \/ BeginProgress
            \/ RoundTwo \/ Finish \/ HandshakeRefused \/ HandshakeFailed
            \/ \E h \in Handshakes : Prepare(h)
Commits == SendFinished \/ CommitRefused \/ PrepareAccess \/ FinishedSent
           \/ ActivateAccess \/ Abort \/ SecureRequest \/ RequestServed

UsbNext == Outside \/ OwnerDies \/ Poll \/ LocalActions \/ Requests \/ Commits

UsbSpec == UsbInit /\ [][UsbNext]_usbVars

\* The task runs a handler it has entered to its end, and every turn of its loop acts
\* on the bits and ticks, before it reads at most one chunk of frames
\* (management_task, 401-443).
Handler == pc # "loop" /\ (LocalActions \/ Requests \/ Commits)

UsbFairness ==
  /\ WF_usbVars(Outside /\ TimePasses)
  /\ WF_usbVars(Handler)
  /\ SF_usbVars(LocalResetAction)
  /\ SF_usbVars(Poll)

UsbLiveSpec == UsbSpec /\ UsbFairness

-----------------------------------------------------------------------------
\* What should hold.

UsbTypeOK ==
  /\ rpc \in Attempts
  /\ channel \in BOOLEAN
  /\ registry \in Registries
  /\ pc \in Points

\* Other tasks find an access authorized exactly while its channel is installed, one
\* that is prepared only inside the commit that prepared it, and a channel only while
\* the lifecycle is ACTIVE on this connection, also when a timeout, reset or fault is
\* noticed inside a handler (usb_management.c, 120-128; pairing_rpc.c, 725-743).
AccessIsLive ==
  /\ registry = "active" <=> channel
  /\ registry = "prepared" => pc \in {"sent", "activate"}
  /\ channel => state = "ACTIVE" /\ connection_id = Usb

\* A handshake continues only with the secrets made from its own window's code: what is
\* left of an earlier one never meets a live handshake (pairing_rpc.c, 248-258 and 349-410).
SecretsMatchWindow ==
  rpc.session /\ state \in {"HANDSHAKE", "WAIT_FINISHED_SENT"} =>
    SessionMatches(Usb, rpc.handshake_id) /\ ~exposing

\* Between frames nothing is half done: no Finished waits for its transmission, and a
\* session has its channel; without one it would hold the connection, and keep a new
\* pairing out, for a client that has no keys (usb_management.c, 208-220 and 331-361).
LoopIsSettled ==
  pc = "loop" =>
    /\ state # "WAIT_FINISHED_SENT" /\ ~rpc.finished_pending
    /\ state = "ACTIVE" => channel

\* Whatever the client keeps sending and wherever a port fails, the owner comes back to
\* its loop with its window or session ended and no physical reset left waiting
\* (usb_management.c, 380-443).
OwnerReleases == []<>(pc = "loop" /\ connection_id = NoId /\ "RESET" \notin presence)

\* What the port's contract says of a revoked connection: its crypto context, channel
\* and registry generation are gone (aiqa_pairing_lifecycle.h, 95-99).
RevokeIsComplete ==
  pc = "loop" /\ (rpc.session \/ channel \/ registry # "none") => connection_id = Usb

-----------------------------------------------------------------------------
\* The inductive invariant: what each point of a handler knows of the lifecycle.

PointShape ==
  /\ exposing <=> pc = "consume"
  /\ exposing => rpc.prepared /\ ~rpc.session /\ SessionMatches(Usb, rpc.handshake_id)
  /\ pc \in {"progress", "failed"} => state \notin {"WAIT_FINISHED_SENT", "ACTIVE"}
  /\ pc \in {"send", "commit", "sent"} =>
       state = "WAIT_FINISHED_SENT" /\ rpc.finished_pending
  /\ pc \in {"sent", "activate"} => registry = "prepared"
  /\ pc = "activate" => state = "ACTIVE"
  /\ pc = "commitFailed" =>
       /\ state # "ACTIVE"
       /\ state = "WAIT_FINISHED_SENT" => rpc.session
  /\ pc = "served" => channel
  /\ state = "ACTIVE" => channel \/ pc \in {"activate", "abort"}
  /\ state = "WAIT_FINISHED_SENT" => pc \in {"send", "commit", "sent", "commitFailed", "abort"}
  /\ rpc.finished_pending =>
       pc \in {"send", "commit", "sent", "activate", "commitFailed", "abort"}

\* The four records of who may manage the device agree at every point of every handler
\* (usb_management.c, 208-399; pairing_rpc.c, 248-280 and 705-754).
UsbInv ==
  /\ UsbTypeOK /\ AccessIsLive /\ SecretsMatchWindow
  /\ connection_id \in {NoId, Usb}
  /\ PointShape
=============================================================================
