------------------------ MODULE SecureSessionProofs ------------------------
(***************************************************************************)
(* The safety of the management link, for any number of connections,       *)
(* pairing attempts and requests, and whatever the link loses, keeps or    *)
(* cuts short.                                                             *)
(*                                                                         *)
(* No nonce is used twice under one key, on either end.  Each end has its  *)
(* own reason: the device numbers its attempts, the client its connections *)
(* and their requests, and either number is part of the key.               *)
(*                                                                         *)
(* No request is carried out twice, an accepted answer is that of the      *)
(* request just sent, and the two ends keep one key and meeting counters.  *)
(* The reason is order: requests leave the client with growing numbers,    *)
(* and what is carried out has left the link.                              *)
(***************************************************************************)
EXTENDS SecureSession, SequenceTheorems, FiniteSetTheorems, TLAPS

----------------------------------------------------------------------------
\* Records, so that changing one field keeps the others.

IsContext(ctx) ==
  ctx = [by |-> ctx.by, hs |-> ctx.hs, nonce |-> ctx.nonce, code |-> ctx.code, seen |-> ctx.seen]

IsChannel(ch) ==
  /\ ch = [key |-> ch.key, send |-> ch.send, receive |-> ch.receive]
  /\ ch.send \in Nat

\* What the cipher has been used for so far.
LedgerShape ==
  /\ sealed = [once |-> sealed.once, twice |-> {}]
  /\ \A use \in sealed.once : use.counter \in Nat

\* A channel continues behind what has been sealed under its key.
UsesBefore(by, ch) ==
  \A use \in sealed.once : use.by = by /\ use.key = ch.key => use.counter < ch.send

ClientUses == {use \in sealed.once : use.by = "client"}
DeviceUses == {use \in sealed.once : use.by = "device"}

\* A request by its connection and id.  OfThis says it was sent on the present
\* connection before the id n; an earlier connection never comes back.
OfThis(request, n) ==
  /\ request[1] = conn /\ request[2] \in Nat /\ request[2] < n

Earlier(request, n) ==
  /\ request[1] \in Nat /\ request[2] \in Nat
  /\ request[1] < conn \/ OfThis(request, n)

\* The client's keys carry the request that began their pairing.
ClientShape ==
  /\ conn \in Nat /\ nextRequestId \in Nat
  /\ at = "closed" => pairing = {} /\ channel = {}
  /\ pairing # {} => at \in {"begin", "round2", "finish"}
  /\ \A ctx \in pairing :
       /\ IsContext(ctx) /\ OfThis(ctx.nonce, nextRequestId)
       /\ \A use \in ClientUses : Earlier(use.key.transcript.nonce, ctx.nonce[2])
  /\ \A ch \in channel :
       /\ IsChannel(ch) /\ UsesBefore("client", ch)
       /\ OfThis(ch.key.transcript.nonce, nextRequestId)
  /\ \A use \in ClientUses : Earlier(use.key.transcript.nonce, nextRequestId)
  /\ at = "prepare" =>
       nextRequestId > 0 /\ \A use \in ClientUses : Earlier(use.key.transcript.nonce, nextRequestId - 1)

\* The device's keys carry the number of the attempt they come from, and no
\* channel is open while an attempt is under way.
DeviceShape ==
  /\ handshakes \in Nat
  /\ rpc = [step |-> rpc.step, hs |-> rpc.hs, nonce |-> rpc.nonce]
  /\ rpc.step # "none" => rpc.hs = handshakes /\ server = {}
  /\ rpc.step = "none" => context = {}
  /\ \A ctx \in context : IsContext(ctx) /\ ctx.hs = rpc.hs
  /\ \A ch \in server :
       /\ IsChannel(ch) /\ UsesBefore("device", ch)
       /\ ch.key.transcript.hs \in Nat /\ ch.key.transcript.hs <= handshakes
  /\ \A use \in DeviceUses :
       /\ use.key.transcript.hs \in Nat /\ use.key.transcript.hs <= handshakes
       /\ rpc.step # "none" => use.key.transcript.hs < handshakes

NonceInv == LedgerShape /\ ClientShape /\ DeviceShape

----------------------------------------------------------------------------
LEMMA NonceInit == LinkInit => NonceInv
BY DEF LinkInit, NonceInv, LedgerShape, ClientShape, DeviceShape, ClientUses, DeviceUses

\* The parts depend on their own variables and on what their end has sealed.
LEMMA LedgerKept == ASSUME LedgerShape, UNCHANGED sealed PROVE LedgerShape'
BY DEF LedgerShape

LEMMA DeviceKept ==
  ASSUME DeviceShape, UNCHANGED <<rpc, context, server, handshakes>>,
         DeviceUses' = DeviceUses
  PROVE  DeviceShape'
<1>1. \A ch : UsesBefore("device", ch)' <=> UsesBefore("device", ch)
  BY DEF UsesBefore, DeviceUses
<1>. QED  BY <1>1 DEF DeviceShape, IsContext, IsChannel

LEMMA ClientKept ==
  ASSUME ClientShape, UNCHANGED client, ClientUses' = ClientUses
  PROVE  ClientShape'
<1>1. \A ch : UsesBefore("client", ch)' <=> UsesBefore("client", ch)
  BY DEF UsesBefore, ClientUses
<1>. QED  BY <1>1 DEF ClientShape, client, IsContext, IsChannel, Earlier, OfThis

LEMMA UsesKept ==
  ASSUME UNCHANGED sealed
  PROVE  ClientUses' = ClientUses /\ DeviceUses' = DeviceUses
BY DEF ClientUses, DeviceUses

\* A channel that still may seal uses the cipher for something new.
LEMMA SealsOnce ==
  ASSUME LedgerShape, NEW by, NEW ch, IsChannel(ch), UsesBefore(by, ch), CanSeal(ch),
         sealed' = NoteSealed(by, ch)
  PROVE  /\ LedgerShape'
         /\ sealed'.once = sealed.once \cup {CipherUse(by, ch)}
         /\ UsesBefore(by, [ch EXCEPT !.send = Advance(@)])'
         /\ IsChannel([ch EXCEPT !.send = Advance(@)])
<1>1. CipherUse(by, ch) \notin sealed.once
  BY DEF UsesBefore, CipherUse, IsChannel
<1>2. sealed' = [once |-> sealed.once \cup {CipherUse(by, ch)}, twice |-> {}]
  <2>1. sealed' = [sealed EXCEPT !.once = sealed.once \cup {CipherUse(by, ch)}]
    BY <1>1 DEF NoteSealed
  <2>2. sealed = [once |-> sealed.once, twice |-> {}]
    BY DEF LedgerShape
  <2>. QED  BY <2>1, <2>2
<1>3. sealed'.once = sealed.once \cup {CipherUse(by, ch)}
  BY <1>2
<1>4. CipherUse(by, ch).counter = ch.send /\ ch.send \in Nat
  BY DEF CipherUse, IsChannel
<1>5. LedgerShape'
  BY <1>2, <1>3, <1>4 DEF LedgerShape
<1>. DEFINE next == [ch EXCEPT !.send = Advance(@)]
<1>6. next = [key |-> ch.key, send |-> ch.send + 1, receive |-> ch.receive]
  BY DEF IsChannel, CanSeal, Advance
<1>7. IsChannel(next) /\ next.key = ch.key /\ next.send = ch.send + 1
  BY <1>4, <1>6 DEF IsChannel
<1>8. \A use \in sealed'.once : use.by = by /\ use.key = next.key => use.counter < next.send
  <2>. SUFFICES ASSUME NEW use \in sealed'.once, use.by = by, use.key = ch.key
                PROVE  use.counter < ch.send + 1
    BY <1>7
  <2>1. CASE use = CipherUse(by, ch)
    BY <2>1, <1>4
  <2>2. CASE use \in sealed.once
    BY <2>2, <1>4 DEF UsesBefore, LedgerShape
  <2>. QED  BY <1>3, <2>1, <2>2
<1>. QED  BY <1>3, <1>5, <1>7, <1>8 DEF UsesBefore

----------------------------------------------------------------------------
\* The handshake's helpers keep what identifies it.
LEMMA NewContextShape ==
  ASSUME NEW by, NEW hs, NEW nonce, NEW code
  PROVE  LET ctx == NewContext(by, hs, nonce, code)
         IN  IsContext(ctx) /\ ctx.nonce = nonce /\ ctx.hs = hs
BY DEF NewContext, IsContext

LEMMA ContextKept ==
  ASSUME NEW ctx, IsContext(ctx)
  PROVE  /\ \A n : /\ IsContext(Write(ctx, n)) /\ Write(ctx, n).nonce = ctx.nonce
                   /\ Write(ctx, n).hs = ctx.hs
         /\ \A msg : /\ IsContext(Read(ctx, msg)) /\ Read(ctx, msg).nonce = ctx.nonce
                     /\ Read(ctx, msg).hs = ctx.hs
BY DEF IsContext, Write, Read

LEMMA NewChannelShape ==
  ASSUME NEW ctx
  PROVE  /\ IsChannel(NewChannel(ctx))
         /\ NewChannel(ctx).key.transcript.nonce = ctx.nonce
         /\ NewChannel(ctx).key.transcript.hs = ctx.hs
BY DEF NewChannel, IsChannel, Key, Transcript

\* Requests of the past stay in the past when the next id is taken.
LEMMA EarlierGrows ==
  ASSUME NEW request, NEW m \in Nat, NEW n \in Nat, m <= n
  PROVE  /\ Earlier(request, m) => Earlier(request, n)
         /\ OfThis(request, m) => OfThis(request, n)
BY DEF Earlier, OfThis

----------------------------------------------------------------------------
\* The client.

\* A step that neither sends nor opens anything new, or that closes.
LEMMA ClientRests ==
  ASSUME ClientShape, UNCHANGED <<conn, nextRequestId, channel, sealed>>, pairing' = {},
         at' \notin {"prepare", "closed"}
  PROVE  ClientShape'
<1>1. ClientUses' = ClientUses
  BY UsesKept
<1>2. \A ch : UsesBefore("client", ch)' <=> UsesBefore("client", ch)
  BY <1>1 DEF UsesBefore, ClientUses
<1>. QED  BY <1>1, <1>2 DEF ClientShape, IsChannel, Earlier, OfThis

LEMMA CloseKeepsClient == ClientShape /\ Close => ClientShape'
<1>. SUFFICES ASSUME ClientShape, Close PROVE ClientShape'
  OBVIOUS
<1>1. ClientUses' = ClientUses
  BY UsesKept DEF Close, ghosts
<1>2. at' = "closed" /\ pairing' = {} /\ channel' = {} /\ UNCHANGED <<conn, nextRequestId>>
  BY DEF Close
<1>. QED  BY <1>1, <1>2 DEF ClientShape, Earlier, OfThis

LEMMA ConnectKeepsClient == ClientShape /\ Connect => ClientShape'
<1>. SUFFICES ASSUME ClientShape, Connect PROVE ClientShape'
  OBVIOUS
<1>1. ClientUses' = ClientUses
  BY UsesKept DEF Connect, ghosts
<1>2. /\ at' = "hello" /\ conn' = conn + 1 /\ nextRequestId' = 2 /\ conn \in Nat
      /\ pairing' = {} /\ channel' = {}
  BY DEF Connect, ClientShape
<1>3. \A use \in ClientUses : Earlier(use.key.transcript.nonce, 2)'
  BY <1>2 DEF ClientShape, Earlier, OfThis
<1>. QED  BY <1>1, <1>2, <1>3 DEF ClientShape

\* A request in the clear takes the next id and continues the pairing.
LEMMA SendKeepsClient ==
  ASSUME ClientShape, UNCHANGED <<conn, channel, sealed>>, nextRequestId' = nextRequestId + 1,
         at' \in {"prepare", "begin", "round2", "finish"},
         at' = "prepare" => pairing' = {},
         \A ctx \in pairing' :
           /\ IsContext(ctx) /\ OfThis(ctx.nonce, nextRequestId)
           /\ \A use \in ClientUses : Earlier(use.key.transcript.nonce, ctx.nonce[2])
  PROVE  ClientShape'
<1>1. ClientUses' = ClientUses
  BY UsesKept
<1>2. \A ch : UsesBefore("client", ch)' <=> UsesBefore("client", ch)
  BY <1>1 DEF UsesBefore, ClientUses
<1>3. /\ nextRequestId \in Nat /\ nextRequestId' \in Nat
      /\ nextRequestId <= nextRequestId' /\ nextRequestId' - 1 = nextRequestId
  BY DEF ClientShape
<1>4. \A request : /\ Earlier(request, nextRequestId) => Earlier(request, nextRequestId')
                   /\ OfThis(request, nextRequestId) => OfThis(request, nextRequestId')
  BY <1>3, EarlierGrows
<1>. QED
  BY <1>1, <1>2, <1>3, <1>4 DEF ClientShape, IsChannel, IsContext, Earlier, OfThis

\* The context of a new pairing carries the request it was prepared by, and
\* the rounds keep it.
LEMMA PairingKeepsClient ==
  ClientShape /\ (Pair \/ GotPrepared \/ GotRoundOne \/ GotRoundTwo) => ClientShape'
<1>. SUFFICES ASSUME ClientShape, Pair \/ GotPrepared \/ GotRoundOne \/ GotRoundTwo
              PROVE  ClientShape'
  OBVIOUS
<1>1. UNCHANGED <<conn, channel, sealed>> /\ nextRequestId' = nextRequestId + 1
  BY DEF Pair, GotPrepared, GotRoundOne, GotRoundTwo, SendRequest, ghosts
<1>2. CASE Pair
  <2>1. at = "idle" /\ at' = "prepare" /\ UNCHANGED pairing
    BY <1>2 DEF Pair, SendRequest
  <2>2. pairing = {}
    BY <2>1 DEF ClientShape
  <2>. QED  BY <1>1, <2>1, <2>2, SendKeepsClient
<1>3. CASE GotPrepared
  <2>1. at = "prepare" /\ at' = "begin"
    BY <1>3 DEF GotPrepared, SendRequest
  <2>2. PICK hs, code : pairing' = {Write(NewContext("client", hs, This, code), 1)}
    BY <1>3 DEF GotPrepared
  <2>. DEFINE ctx == Write(NewContext("client", hs, This, code), 1)
  <2>3. IsContext(ctx) /\ ctx.nonce = This
    BY NewContextShape, ContextKept
  <2>4. This[1] = conn /\ This[2] = nextRequestId - 1
    BY DEF This
  <2>5. /\ nextRequestId \in Nat /\ nextRequestId > 0
        /\ nextRequestId - 1 \in Nat /\ nextRequestId - 1 < nextRequestId
    BY <2>1 DEF ClientShape
  <2>6. \A use \in ClientUses : Earlier(use.key.transcript.nonce, nextRequestId - 1)
    BY <2>1 DEF ClientShape
  <2>7. OfThis(ctx.nonce, nextRequestId) /\ ctx.nonce[2] = nextRequestId - 1
    BY <2>3, <2>4, <2>5 DEF OfThis
  <2>8. pairing' = {ctx}
    BY <2>2
  <2>. HIDE DEF ctx
  <2>. QED  BY <1>1, <2>1, <2>3, <2>6, <2>7, <2>8, SendKeepsClient
<1>4. CASE GotRoundOne \/ GotRoundTwo
  <2>1. at' \in {"round2", "finish"}
    BY <1>4 DEF GotRoundOne, GotRoundTwo, SendRequest
  <2>. DEFINE Updates(ctx, msg) == {{Write(Read(ctx, msg), 2)}, {Read(ctx, msg)}}
  <2>0. PICK ctx \in pairing : \E msg : pairing' \in Updates(ctx, msg)
    BY <1>4 DEF GotRoundOne, GotRoundTwo
  <2>2. PICK msg : pairing' \in Updates(ctx, msg)
    BY <2>0
  <2>3. \A next \in pairing' : IsContext(next) /\ next.nonce = ctx.nonce
    <3>1. IsContext(ctx)
      BY DEF ClientShape
    <3>2. IsContext(Read(ctx, msg)) /\ Read(ctx, msg).nonce = ctx.nonce
      BY <3>1, ContextKept
    <3>3. IsContext(Write(Read(ctx, msg), 2)) /\ Write(Read(ctx, msg), 2).nonce = ctx.nonce
      BY <3>2, ContextKept
    <3>. QED  BY <2>2, <3>2, <3>3
  <2>4. /\ OfThis(ctx.nonce, nextRequestId)
        /\ \A use \in ClientUses : Earlier(use.key.transcript.nonce, ctx.nonce[2])
    BY DEF ClientShape
  <2>. QED  BY <1>1, <2>1, <2>3, <2>4, SendKeepsClient
<1>. QED  BY <1>2, <1>3, <1>4

\* Nothing is sealed under the key of a pairing that goes on.
LEMMA PairingIsFresh ==
  ASSUME ClientShape, NEW ctx \in pairing
  PROVE  \A use \in ClientUses : use.key # Key(ctx)
<1>. SUFFICES ASSUME NEW use \in ClientUses, use.key = Key(ctx) PROVE FALSE
  OBVIOUS
<1>1. use.key.transcript.nonce = ctx.nonce
  BY DEF Key, Transcript
<1>2. OfThis(ctx.nonce, nextRequestId) /\ Earlier(ctx.nonce, ctx.nonce[2])
  BY <1>1 DEF ClientShape
<1>3. conn \in Nat
  BY DEF ClientShape
<1>. QED  BY <1>2, <1>3 DEF Earlier, OfThis

\* The new channel's key is of this pairing, so nothing is sealed under it yet.
LEMMA FinishedKeepsClient == ClientShape /\ GotFinished => ClientShape'
<1>. SUFFICES ASSUME ClientShape, GotFinished PROVE ClientShape'
  OBVIOUS
<1>1. UNCHANGED <<conn, nextRequestId, sealed>> /\ at' = "idle" /\ pairing' = {}
  BY DEF GotFinished, ghosts
<1>2. PICK ctx \in pairing : channel' = {NewChannel(ctx)}
  BY DEF GotFinished
<1>3. /\ OfThis(ctx.nonce, nextRequestId)
      /\ \A use \in ClientUses : Earlier(use.key.transcript.nonce, ctx.nonce[2])
  BY DEF ClientShape
<1>. DEFINE ch == NewChannel(ctx)
<1>4. IsChannel(ch) /\ ch.key.transcript.nonce = ctx.nonce
  BY NewChannelShape
<1>5. \A use \in ClientUses : use.key # ch.key
  BY PairingIsFresh DEF NewChannel
<1>6. ClientUses' = ClientUses
  BY <1>1, UsesKept
<1>7. channel' = {ch}
  BY <1>2
<1>. HIDE DEF ch
<1>8. UsesBefore("client", ch)'
  BY <1>5, <1>6 DEF UsesBefore, ClientUses
<1>9. OfThis(ch.key.transcript.nonce, nextRequestId)
  BY <1>3, <1>4
<1>. QED
  BY <1>1, <1>4, <1>6, <1>7, <1>8, <1>9 DEF ClientShape, Earlier, OfThis

\* A secure request: one more use, of the channel's key.
LEMMA SecureKeepsClient ==
  LedgerShape /\ ClientShape /\ RequestSecure =>
    /\ LedgerShape' /\ ClientShape' /\ DeviceUses' = DeviceUses
<1>. SUFFICES ASSUME LedgerShape, ClientShape, RequestSecure
              PROVE  LedgerShape' /\ ClientShape' /\ DeviceUses' = DeviceUses
  OBVIOUS
<1>1. at = "idle" /\ at' = "secure" /\ UNCHANGED <<conn, pairing>> /\ pairing = {}
  BY DEF RequestSecure, ClientShape
<1>2. PICK ch \in channel :
        /\ CanSeal(ch) /\ nextRequestId' = nextRequestId + 1 /\ sealed' = NoteSealed("client", ch)
        /\ channel' = {[ch EXCEPT !.send = Advance(@)]}
  BY DEF RequestSecure, SendSecure
<1>3. /\ IsChannel(ch) /\ UsesBefore("client", ch)
      /\ OfThis(ch.key.transcript.nonce, nextRequestId)
  BY DEF ClientShape
<1>. DEFINE use == CipherUse("client", ch)
            next == [ch EXCEPT !.send = Advance(@)]
<1>4. /\ LedgerShape' /\ sealed'.once = sealed.once \cup {use}
      /\ UsesBefore("client", next)' /\ IsChannel(next)
  BY <1>2, <1>3, SealsOnce
<1>5. use.by = "client" /\ use.key = ch.key /\ next.key = ch.key
  BY <1>3 DEF CipherUse, IsChannel
<1>6. channel' = {next}
  BY <1>2
<1>. HIDE DEF use, next
<1>7. DeviceUses' = DeviceUses /\ ClientUses' = ClientUses \cup {use}
  BY <1>4, <1>5 DEF DeviceUses, ClientUses
<1>8. nextRequestId \in Nat /\ nextRequestId' \in Nat /\ nextRequestId <= nextRequestId' /\ conn \in Nat
  BY <1>2 DEF ClientShape
<1>9. OfThis(ch.key.transcript.nonce, nextRequestId') /\ Earlier(use.key.transcript.nonce, nextRequestId')
  BY <1>3, <1>5, <1>8 DEF OfThis, Earlier
<1>10. \A u \in ClientUses' : Earlier(u.key.transcript.nonce, nextRequestId')
  BY <1>7, <1>8, <1>9, EarlierGrows DEF ClientShape
<1>. QED
  BY <1>1, <1>4, <1>5, <1>6, <1>7, <1>8, <1>9, <1>10 DEF ClientShape, Earlier, OfThis

\* What the client reads without starting anything.
LEMMA ReadingKeepsClient ==
  ClientShape /\ (GotHello \/ GotUnavailable \/ GotSecure) => ClientShape'
<1>. SUFFICES ASSUME ClientShape, GotHello \/ GotUnavailable \/ GotSecure PROVE ClientShape'
  OBVIOUS
<1>1. /\ at \in {"hello", "prepare", "secure"} /\ at' = "idle" /\ UNCHANGED pairing
      /\ UNCHANGED <<conn, nextRequestId, sealed>>
  BY DEF GotHello, GotUnavailable, GotSecure, ghosts
<1>2. pairing' = {}
  BY <1>1 DEF ClientShape
<1>3. CASE GotHello \/ GotUnavailable
  BY <1>1, <1>2, <1>3, ClientRests DEF GotHello, GotUnavailable
<1>4. CASE GotSecure
  <2>1. PICK ch \in channel : channel' = {[ch EXCEPT !.receive = Advance(@)]}
    BY <1>4 DEF GotSecure
  <2>. DEFINE next == [ch EXCEPT !.receive = Advance(@)]
  <2>2. /\ IsChannel(ch) /\ UsesBefore("client", ch)
        /\ OfThis(ch.key.transcript.nonce, nextRequestId)
    BY DEF ClientShape
  <2>3. next = [key |-> ch.key, send |-> ch.send, receive |-> Advance(ch.receive)]
    BY <2>2 DEF IsChannel
  <2>4. IsChannel(next) /\ next.key = ch.key /\ next.send = ch.send
    BY <2>2, <2>3 DEF IsChannel
  <2>5. channel' = {next}
    BY <2>1
  <2>. HIDE DEF next
  <2>6. ClientUses' = ClientUses /\ UsesBefore("client", next)'
    BY <1>1, <2>2, <2>4, UsesKept DEF UsesBefore
  <2>. QED
    BY <1>1, <1>2, <2>2, <2>4, <2>5, <2>6 DEF ClientShape, Earlier, OfThis
<1>. QED  BY <1>3, <1>4

LEMMA ClientKeepsNonces == NonceInv /\ ClientStep => NonceInv'
<1>. SUFFICES ASSUME NonceInv, ClientStep PROVE NonceInv'
  OBVIOUS
<1>1. UNCHANGED device
  BY DEF ClientStep, Connect, GiveUp, Reject, Pair, GotHello, GotPrepared, GotUnavailable,
         GotRoundOne, GotRoundTwo, GotFinished, RequestSecure, OutOfCounters, GotSecure, Close
<1>2. UNCHANGED <<rpc, context, server, handshakes>>
  BY <1>1 DEF device
<1>3. CASE RequestSecure
  BY <1>2, <1>3, SecureKeepsClient, DeviceKept DEF NonceInv
<1>4. CASE ~RequestSecure
  <2>1. UNCHANGED sealed
    BY <1>4 DEF ClientStep, Connect, GiveUp, Reject, Pair, GotHello, GotPrepared,
       GotUnavailable, GotRoundOne, GotRoundTwo, GotFinished, OutOfCounters, GotSecure,
       Close, ghosts
  <2>2. ClientShape'
    <3>1. CASE Connect
      BY <3>1, ConnectKeepsClient DEF NonceInv
    <3>2. CASE GiveUp \/ Reject \/ OutOfCounters
      BY <3>2, CloseKeepsClient DEF NonceInv, GiveUp, Reject, OutOfCounters
    <3>3. CASE Pair \/ GotPrepared \/ GotRoundOne \/ GotRoundTwo
      BY <3>3, PairingKeepsClient DEF NonceInv
    <3>4. CASE GotHello \/ GotUnavailable \/ GotSecure
      BY <3>4, ReadingKeepsClient DEF NonceInv
    <3>5. CASE GotFinished
      BY <3>5, FinishedKeepsClient DEF NonceInv
    <3>. QED  BY <1>4, <3>1, <3>2, <3>3, <3>4, <3>5 DEF ClientStep
  <2>3. DeviceShape'
    BY <1>2, <2>1, UsesKept, DeviceKept DEF NonceInv
  <2>. QED  BY <2>1, <2>2, <2>3, LedgerKept DEF NonceInv
<1>. QED  BY <1>3, <1>4

----------------------------------------------------------------------------
\* The device.

\* Ending an attempt, a channel or both.
LEMMA DeviceEnds ==
  ASSUME DeviceShape, UNCHANGED <<handshakes, sealed>>, server' \in {server, {}},
         UNCHANGED <<rpc, context>> \/ ClearAttempt
  PROVE  DeviceShape'
<1>1. DeviceUses' = DeviceUses
  BY UsesKept
<1>2. \A ch : UsesBefore("device", ch)' <=> UsesBefore("device", ch)
  BY <1>1 DEF UsesBefore, DeviceUses
<1>3. CASE UNCHANGED <<rpc, context>>
  BY <1>1, <1>2, <1>3 DEF DeviceShape, IsContext, IsChannel
<1>4. CASE ClearAttempt
  <2>1. rpc' = [step |-> "none", hs |-> 0, nonce |-> <<>>] /\ context' = {}
    BY <1>4 DEF ClearAttempt
  <2>2. rpc'.step = "none" /\ rpc' = [step |-> rpc'.step, hs |-> rpc'.hs, nonce |-> rpc'.nonce]
    BY <2>1
  <2>. QED  BY <1>1, <1>2, <2>1, <2>2 DEF DeviceShape, IsChannel
<1>. QED  BY <1>3, <1>4

\* A handshake goes on with the attempt's number in its context.
LEMMA HandshakeKeepsDevice ==
  DeviceShape /\ (ServePrepare \/ ServeBegin \/ ServeRoundTwo) => DeviceShape'
<1>. SUFFICES ASSUME DeviceShape, ServePrepare \/ ServeBegin \/ ServeRoundTwo
              PROVE  DeviceShape'
  OBVIOUS
<1>1. UNCHANGED <<server, sealed>> /\ server = {}
  BY DEF ServePrepare, ServeBegin, ServeRoundTwo, Serves, ghosts
<1>2. DeviceUses' = DeviceUses
  BY <1>1, UsesKept
<1>3. CASE ServePrepare
  <2>1. /\ rpc.step = "none" /\ handshakes' = handshakes + 1 /\ UNCHANGED context
        /\ rpc' = [step |-> "prepared", hs |-> handshakes', nonce |-> rpc'.nonce]
    BY <1>3 DEF ServePrepare
  <2>2. rpc'.step = "prepared" /\ rpc'.hs = handshakes' /\ handshakes \in Nat /\ context' = {}
    BY <2>1 DEF DeviceShape
  <2>3. rpc' = [step |-> rpc'.step, hs |-> rpc'.hs, nonce |-> rpc'.nonce]
    BY <2>1, <2>2
  <2>4. \A use \in DeviceUses' : use.key.transcript.hs \in Nat
                                 /\ use.key.transcript.hs < handshakes'
    BY <1>2, <2>1, <2>2 DEF DeviceShape
  <2>. QED  BY <1>1, <2>1, <2>2, <2>3, <2>4 DEF DeviceShape
<1>4. CASE ServeBegin \/ ServeRoundTwo
  <2>1. rpc.step # "none" /\ UNCHANGED handshakes
    BY <1>4 DEF ServeBegin, ServeRoundTwo, FirstStepFits, SecondStepFits
  <2>2. /\ rpc'.step \in {"begun", "round2"} /\ rpc'.hs = rpc.hs
        /\ rpc' = [step |-> rpc'.step, hs |-> rpc'.hs, nonce |-> rpc'.nonce]
    <3>1. rpc = [step |-> rpc.step, hs |-> rpc.hs, nonce |-> rpc.nonce]
      BY DEF DeviceShape
    <3>2. PICK step \in {"begun", "round2"} : rpc' = [rpc EXCEPT !.step = step]
      BY <1>4 DEF ServeBegin, ServeRoundTwo
    <3>. QED  BY <3>1, <3>2
  <2>3. \A ctx \in context' : IsContext(ctx) /\ ctx.hs = rpc.hs
    <3>1. CASE ServeBegin
      <4>. DEFINE ctx == NewContext("device", rpc.hs, rpc.nonce, "shown")
      <4>1. PICK msg : context' = {Read(Write(ctx, 1), msg)}
        BY <3>1 DEF ServeBegin
      <4>2. IsContext(ctx) /\ ctx.hs = rpc.hs
        BY NewContextShape
      <4>. HIDE DEF ctx
      <4>3. IsContext(Write(ctx, 1)) /\ Write(ctx, 1).hs = rpc.hs
        BY <4>2, ContextKept
      <4>. QED  BY <4>1, <4>3, ContextKept
    <3>2. CASE ServeRoundTwo
      <4>0. PICK ctx \in context : \E msg : context' = {Write(Read(ctx, msg), 2)}
        BY <3>2 DEF ServeRoundTwo
      <4>1. PICK msg : context' = {Write(Read(ctx, msg), 2)}
        BY <4>0
      <4>2. IsContext(ctx) /\ ctx.hs = rpc.hs
        BY DEF DeviceShape
      <4>3. IsContext(Read(ctx, msg)) /\ Read(ctx, msg).hs = rpc.hs
        BY <4>2, ContextKept
      <4>. QED  BY <4>1, <4>3, ContextKept
    <3>. QED  BY <1>4, <3>1, <3>2
  <2>. QED  BY <1>1, <1>2, <2>1, <2>2, <2>3 DEF DeviceShape
<1>. QED  BY <1>3, <1>4

\* The new channel's key is of this attempt, so nothing is sealed under it yet.
LEMMA FinishKeepsDevice == DeviceShape /\ ServeFinish => DeviceShape'
<1>. SUFFICES ASSUME DeviceShape, ServeFinish PROVE DeviceShape'
  OBVIOUS
<1>1. UNCHANGED <<handshakes, sealed>> /\ ClearAttempt /\ rpc.step # "none"
  BY DEF ServeFinish, Serves, LastStepFits, ghosts
<1>2. PICK ctx \in context : server' = {NewChannel(ctx)}
  BY DEF ServeFinish
<1>. DEFINE ch == NewChannel(ctx)
<1>3. IsChannel(ch) /\ ch.key.transcript.hs = ctx.hs
  BY NewChannelShape
<1>4. ctx.hs = handshakes /\ handshakes \in Nat
  BY <1>1 DEF DeviceShape
<1>5. \A use \in DeviceUses : use.key # ch.key
  BY <1>1, <1>3, <1>4 DEF DeviceShape
<1>6. DeviceUses' = DeviceUses /\ server' = {ch}
  BY <1>1, <1>2, UsesKept
<1>. HIDE DEF ch
<1>7. UsesBefore("device", ch)'
  BY <1>5, <1>6 DEF UsesBefore, DeviceUses
<1>8. /\ rpc'.step = "none" /\ context' = {}
      /\ rpc' = [step |-> rpc'.step, hs |-> rpc'.hs, nonce |-> rpc'.nonce]
  BY <1>1 DEF ClearAttempt
<1>. QED  BY <1>1, <1>3, <1>4, <1>6, <1>7, <1>8 DEF DeviceShape

\* An answer under the channel: one more use, of the channel's key, whatever
\* becomes of the answer and of the channel.
LEMMA SecureKeepsDevice ==
  LedgerShape /\ DeviceShape /\ ServeSecure =>
    /\ LedgerShape' /\ DeviceShape' /\ ClientUses' = ClientUses
<1>. SUFFICES ASSUME LedgerShape, DeviceShape, ServeSecure
              PROVE  LedgerShape' /\ DeviceShape' /\ ClientUses' = ClientUses
  OBVIOUS
<1>. DEFINE read(ch) == [ch EXCEPT !.receive = Advance(@)]
            next(ch) == [read(ch) EXCEPT !.send = Advance(@)]
<1>1. PICK ch \in server :
        \/ /\ CanSeal(read(ch)) /\ sealed' = NoteSealed("device", read(ch))
           /\ \/ server' = {next(ch)} /\ UNCHANGED <<rpc, context>>
              \/ Abort
        \/ Abort /\ UNCHANGED sealed
  BY DEF ServeSecure
<1>2. UNCHANGED handshakes
  BY DEF ServeSecure
<1>3. /\ IsChannel(ch) /\ UsesBefore("device", ch)
      /\ ch.key.transcript.hs \in Nat /\ ch.key.transcript.hs <= handshakes
  BY DEF DeviceShape
<1>4. read(ch) = [key |-> ch.key, send |-> ch.send, receive |-> Advance(ch.receive)]
  BY <1>3 DEF IsChannel
<1>5. IsChannel(read(ch)) /\ read(ch).key = ch.key /\ UsesBefore("device", read(ch))
  BY <1>3, <1>4 DEF IsChannel, UsesBefore
<1>6. rpc.step = "none" /\ context = {}
  BY DEF DeviceShape
<1>7. CASE Abort /\ UNCHANGED sealed
  BY <1>2, <1>7, DeviceEnds, LedgerKept, UsesKept DEF Abort
<1>8. CASE CanSeal(read(ch)) /\ sealed' = NoteSealed("device", read(ch))
  <2>. DEFINE use == CipherUse("device", read(ch))
  <2>1. /\ LedgerShape' /\ sealed'.once = sealed.once \cup {use}
        /\ UsesBefore("device", next(ch))' /\ IsChannel(next(ch))
    BY <1>5, <1>8, SealsOnce
  <2>2. use.by = "device" /\ use.key = ch.key /\ next(ch).key = ch.key
    BY <1>4, <1>5 DEF CipherUse
  <2>. HIDE DEF use
  <2>3. ClientUses' = ClientUses /\ DeviceUses' = DeviceUses \cup {use}
    BY <2>1, <2>2 DEF ClientUses, DeviceUses
  <2>4. \A u \in DeviceUses' : u.key.transcript.hs \in Nat /\ u.key.transcript.hs <= handshakes
    BY <1>3, <2>2, <2>3 DEF DeviceShape
  <2>5. CASE server' = {next(ch)} /\ UNCHANGED <<rpc, context>>
    <3>. HIDE DEF next
    <3>. QED
      BY <1>2, <1>3, <1>6, <2>1, <2>2, <2>3, <2>4, <2>5 DEF DeviceShape
  <2>6. CASE Abort
    <3>1. /\ rpc'.step = "none" /\ context' = {} /\ server' = {}
          /\ rpc' = [step |-> rpc'.step, hs |-> rpc'.hs, nonce |-> rpc'.nonce]
      BY <2>6 DEF Abort, ClearAttempt
    <3>. QED  BY <1>2, <2>1, <2>3, <2>4, <3>1 DEF DeviceShape
  <2>7. DeviceShape'
    BY <1>1, <1>7, <1>8, <2>5, <2>6, <1>2, DeviceEnds DEF Abort
  <2>. QED  BY <2>1, <2>3, <2>7
<1>. QED  BY <1>1, <1>7, <1>8

LEMMA DeviceKeepsNonces ==
  NonceInv /\ (DeviceStep \/ WindowOpens \/ WindowEnds) => NonceInv'
<1>. SUFFICES ASSUME NonceInv, DeviceStep \/ WindowOpens \/ WindowEnds PROVE NonceInv'
  OBVIOUS
<1>1. UNCHANGED client
  BY DEF DeviceStep, WindowOpens, WindowEnds, ServeHello, ServePrepare, RefusePrepare,
         ServeBegin, ServeRoundTwo, ServeFinish, FinishNotCommitted, ServeMisfit, ServeSecure,
         RefuseSecure, ReadPart, ServeGarbage, DropFrame, Serves
<1>2. CASE ServeSecure
  BY <1>1, <1>2, SecureKeepsDevice, ClientKept DEF NonceInv
<1>3. CASE ~ServeSecure
  <2>1. UNCHANGED sealed
    BY <1>3 DEF DeviceStep, WindowOpens, WindowEnds, ServeHello, ServePrepare, RefusePrepare,
         ServeBegin, ServeRoundTwo, ServeFinish, FinishNotCommitted, ServeMisfit,
         RefuseSecure, ReadPart, ServeGarbage, DropFrame, Serves, ghosts
  <2>2. DeviceShape'
    <3>1. CASE ServePrepare \/ ServeBegin \/ ServeRoundTwo
      BY <3>1, HandshakeKeepsDevice DEF NonceInv
    <3>2. CASE ServeFinish
      BY <3>2, FinishKeepsDevice DEF NonceInv
    <3>3. CASE \/ ServeHello \/ RefusePrepare \/ FinishNotCommitted \/ ServeMisfit
               \/ RefuseSecure \/ ReadPart \/ ServeGarbage \/ DropFrame
               \/ WindowOpens \/ WindowEnds
      <4>1. /\ UNCHANGED handshakes /\ server' \in {server, {}}
            /\ UNCHANGED <<rpc, context>> \/ ClearAttempt
        BY <3>3 DEF ServeHello, RefusePrepare, FinishNotCommitted, ServeMisfit, RefuseSecure,
           ReadPart, ServeGarbage, DropFrame, WindowOpens, WindowEnds, Abort, ProtocolFailed
      <4>. QED  BY <2>1, <4>1, DeviceEnds DEF NonceInv
    <3>. QED  BY <1>3, <3>1, <3>2, <3>3 DEF DeviceStep
  <2>3. ClientShape'
    BY <1>1, <2>1, UsesKept, ClientKept DEF NonceInv
  <2>. QED  BY <2>1, <2>2, <2>3, LedgerKept DEF NonceInv
<1>. QED  BY <1>2, <1>3

----------------------------------------------------------------------------
\* The invariant of the keys holds in every reachable state.
THEOREM KeysInductive == LinkSpec => []NonceInv
<1>1. NonceInv /\ UNCHANGED linkVars => NonceInv'
  BY UsesKept, LedgerKept, ClientKept, DeviceKept DEF NonceInv, linkVars, device, ghosts
<1>2. NonceInv /\ [LinkNext]_linkVars => NonceInv'
  BY <1>1, ClientKeepsNonces, DeviceKeepsNonces DEF LinkNext
<1>. QED  BY <1>2, NonceInit, PTL DEF LinkSpec

\* aiqa_secure_channel_encrypt and the browser's encryptRequest never seal two
\* records with one nonce under one key: not after a reconnection, not in a
\* pairing that was repeated, and not past the last counter.
THEOREM NoncesAreFresh == LinkSpec => []NoNonceReuse
<1>1. NonceInv => NoNonceReuse
  BY DEF NonceInv, LedgerShape, NoNonceReuse
<1>. QED  BY <1>1, KeysInductive, PTL
----------------------------------------------------------------------------
\* The frames on the link.  What follows is about their order, and about what
\* an answer on its way to the client says.

\* A sequence of anything, and what its operators make of it.
IsQueue(q) == q \in Seq(Range(q))

LEMMA QueueShape ==
  ASSUME NEW q, IsQueue(q)
  PROVE  /\ Len(q) \in Nat /\ DOMAIN q = 1 .. Len(q)
         /\ \A i \in 1 .. Len(q) : q[i] \in Range(q)
BY DEF IsQueue, Range

LEMMA QueueIs ==
  ASSUME NEW S, NEW q \in Seq(S)
  PROVE  IsQueue(q)
<1>1. Len(q) \in Nat /\ DOMAIN q = 1 .. Len(q) /\ q = [i \in 1 .. Len(q) |-> q[i]]
  OBVIOUS
<1>2. \A i \in 1 .. Len(q) : q[i] \in Range(q)
  BY <1>1 DEF Range
<1>. QED  BY <1>1, <1>2 DEF IsQueue

LEMMA AppendQueue ==
  ASSUME NEW q, IsQueue(q), NEW e
  PROVE  /\ IsQueue(Append(q, e)) /\ Range(Append(q, e)) = Range(q) \cup {e}
         /\ DOMAIN q = 1 .. Len(q) /\ DOMAIN Append(q, e) = 1 .. Len(q) + 1 /\ Len(q) \in Nat
         /\ \A i \in 1 .. Len(q) : Append(q, e)[i] = q[i]
         /\ Append(q, e)[Len(q) + 1] = e
<1>. DEFINE S == Range(q) \cup {e}
            r == Append(q, e)
<1>1. q \in Seq(S) /\ e \in S
  BY DEF IsQueue
<1>2. /\ r \in Seq(S) /\ Len(r) = Len(q) + 1 /\ Len(q) \in Nat
      /\ DOMAIN q = 1 .. Len(q) /\ DOMAIN r = 1 .. Len(q) + 1
      /\ \A i \in 1 .. Len(q) : r[i] = q[i]
      /\ r[Len(q) + 1] = e
  BY <1>1
<1>3. IsQueue(r)
  BY <1>2, QueueIs
<1>4. Range(r) = S
  BY <1>2 DEF Range
<1>. QED  BY <1>2, <1>3, <1>4

LEMMA TailQueue ==
  ASSUME NEW q, IsQueue(q), q # <<>>
  PROVE  /\ IsQueue(Tail(q)) /\ Range(Tail(q)) \subseteq Range(q) /\ Head(q) \in Range(q)
         /\ DOMAIN q = 1 .. Len(q) /\ Len(q) \in Nat \ {0} /\ Head(q) = q[1]
         /\ DOMAIN Tail(q) = 1 .. Len(q) - 1
         /\ \A i \in 1 .. Len(q) - 1 : Tail(q)[i] = q[i + 1]
<1>. DEFINE S == Range(q)
            r == Tail(q)
<1>1. q \in Seq(S)
  BY DEF IsQueue
<1>2. /\ r \in Seq(S) /\ Len(r) = Len(q) - 1 /\ Len(q) \in Nat \ {0}
      /\ DOMAIN q = 1 .. Len(q) /\ DOMAIN r = 1 .. Len(q) - 1 /\ Head(q) = q[1]
      /\ \A i \in 1 .. Len(q) - 1 : r[i] = q[i + 1]
  BY <1>1
<1>3. IsQueue(r)
  BY <1>2, QueueIs
<1>4. \A i \in 1 .. Len(q) - 1 : i + 1 \in 1 .. Len(q)
  BY <1>2
<1>5. Range(r) \subseteq S
  BY <1>2, <1>4 DEF Range
<1>6. Head(q) \in S
  BY <1>2 DEF Range
<1>. QED  BY <1>2, <1>3, <1>5, <1>6

\* The last frame cut short.
LEMMA CutQueue ==
  ASSUME NEW q, IsQueue(q), q # <<>>, NEW e
  PROVE  LET r == Append(Front(q), e)
         IN  /\ IsQueue(r) /\ Range(r) \subseteq Range(q) \cup {e}
             /\ DOMAIN r = 1 .. Len(q) /\ DOMAIN q = 1 .. Len(q) /\ Len(q) \in Nat \ {0}
             /\ \A i \in 1 .. Len(q) - 1 : r[i] = q[i]
             /\ r[Len(q)] = e
<1>. DEFINE f == Front(q)
<1>1. q \in Seq(Range(q)) /\ Len(q) \in Nat \ {0}
  BY DEF IsQueue
<1>2. /\ f \in Seq(Range(q)) /\ Len(f) = Len(q) - 1 /\ Len(q) \in Nat \ {0}
      /\ \A i \in 1 .. Len(q) - 1 : f[i] = q[i]
  <2>. DEFINE n == Len(q) - 1
  <2>1. n \in Nat /\ n - 1 + 1 = n /\ \A i \in 1 .. n : i \in 1 .. Len(q) /\ 1 + i - 1 = i
    BY <1>1
  <2>2. f = SubSeq(q, 1, n)
    BY DEF Front
  <2>. HIDE DEF n, f
  <2>3. /\ f \in Seq(Range(q)) /\ Len(f) = (IF 1 <= n THEN n - 1 + 1 ELSE 0)
        /\ \A i \in 1 .. n - 1 + 1 : f[i] = q[1 + i - 1]
    BY <1>1, <2>1, <2>2, SubSeqProperties
  <2>4. Len(f) = n /\ \A i \in 1 .. n : f[i] = q[i]
    BY <2>1, <2>3
  <2>. QED  BY <1>1, <2>3, <2>4 DEF n
<1>3. IsQueue(f) /\ DOMAIN f = 1 .. Len(q) - 1 /\ DOMAIN q = 1 .. Len(q)
  BY <1>1, <1>2, QueueIs
<1>4. \A i \in 1 .. Len(q) - 1 : i \in 1 .. Len(q)
  BY <1>2
<1>5. Range(f) \subseteq Range(q)
  BY <1>2, <1>3, <1>4 DEF Range
<1>. HIDE DEF f
<1>6. Len(f) + 1 = Len(q)
  BY <1>2
<1>. QED  BY <1>2, <1>3, <1>5, <1>6, AppendQueue DEF f

\* What a closed connection leaves in the buffers of the host.
LEMMA SuffixQueue ==
  ASSUME NEW q, IsQueue(q), NEW r \in Suffixes(q)
  PROVE  IsQueue(r) /\ Range(r) \subseteq Range(q)
<1>1. q \in Seq(Range(q)) /\ Len(q) \in Nat
  BY DEF IsQueue
<1>2. CASE r = <<>>
  <2>1. r \in Seq({}) /\ DOMAIN r = {}
    BY <1>2
  <2>. QED  BY <2>1, QueueIs DEF Range
<1>3. CASE r # <<>>
  <2>1. PICK l \in 1 .. Len(q) : r = SubSeq(q, l, Len(q))
    BY <1>3 DEF Suffixes
  <2>2. \A i \in 1 .. Len(q) - l + 1 : l + i - 1 \in 1 .. Len(q)
    BY <1>1
  <2>3. /\ r \in Seq(Range(q)) /\ DOMAIN r = 1 .. Len(q) - l + 1
        /\ \A i \in 1 .. Len(q) - l + 1 : r[i] = q[l + i - 1]
    BY <1>1, <2>1, <2>2
  <2>4. Range(r) \subseteq Range(q)
    BY <1>1, <2>2, <2>3 DEF Range
  <2>. QED  BY <2>3, <2>4, QueueIs
<1>. QED  BY <1>2, <1>3

----------------------------------------------------------------------------
\* Requests leave the client in order, and what is carried out has left the
\* link: so nothing is carried out twice or out of order, whatever is lost.

Requests == Nat \X Nat

Before(r, s) == r[1] < s[1] \/ (r[1] = s[1] /\ r[2] < s[2])

\* The frames that were written to their end.
Whole(q) == {i \in DOMAIN q : q[i].kind # "part"}

\* The requests in q wait, those in done were carried out, and the next one is next.
InOrder(q, done, next) ==
  /\ IsQueue(q) /\ IsQueue(done)
  /\ \A i \in Whole(q) : q[i].about \in Requests /\ Before(q[i].about, next)
  /\ \A i \in DOMAIN done : done[i] \in Requests /\ Before(done[i], next)
  /\ \A i, j \in Whole(q) : i < j => Before(q[i].about, q[j].about)
  /\ \A i, j \in DOMAIN done : i < j => Before(done[i], done[j])
  /\ \A i \in DOMAIN done, j \in Whole(q) : Before(done[i], q[j].about)

RequestsInOrder == InOrder(c2d, executed, <<conn, nextRequestId>>)

LEMMA BeforeMore ==
  ASSUME NEW a \in Nat, NEW b \in Nat
  PROVE  \A r \in Requests : Before(r, <<a, b>>) =>
           Before(r, <<a, b + 1>>) /\ Before(r, <<a + 1, 1>>) /\ Before(r, <<a + 1, 2>>)
BY DEF Before, Requests

\* A new request comes behind all the earlier ones.
LEMMA RequestAppended ==
  ASSUME NEW q, NEW done, NEW next, InOrder(q, done, next), NEW e, NEW p, p = Append(q, e),
         e.kind # "part", e.about \in Requests, NEW further, Before(e.about, further),
         \A r \in Requests : Before(r, next) => Before(r, further) /\ Before(r, e.about)
  PROVE  InOrder(p, done, further)
<1>. DEFINE n == Len(q) + 1
<1>1. /\ IsQueue(p) /\ DOMAIN q = 1 .. Len(q) /\ DOMAIN p = 1 .. n
      /\ Len(q) \in Nat /\ \A i \in 1 .. Len(q) : p[i] = q[i]
      /\ p[n] = e
  BY AppendQueue DEF InOrder
<1>2. \A i \in 1 .. n : i \in 1 .. Len(q) \/ i = n
  BY <1>1
<1>3. \A i \in 1 .. Len(q) : i < n /\ ~(n < i)
  BY <1>1
<1>. HIDE DEF n
<1>4. \A i \in Whole(p) : \/ i \in Whole(q) /\ p[i] = q[i]
                          \/ i = n /\ p[i] = e
  BY <1>1, <1>2 DEF Whole
<1>5. \A i, j \in Whole(p) : i < j => i \in Whole(q) /\ p[i] = q[i]
  <2>. SUFFICES ASSUME NEW i \in Whole(p), NEW j \in Whole(p), i < j, i = n PROVE FALSE
    BY <1>4
  <2>1. j \in 1 .. n /\ n \in Nat
    BY <1>1 DEF Whole, n
  <2>. QED  BY <2>1
<1>6. \A i \in Whole(p) : p[i].about \in Requests /\ Before(p[i].about, further)
  BY <1>4 DEF InOrder
<1>7. \A i \in DOMAIN done : /\ done[i] \in Requests /\ Before(done[i], further)
                             /\ Before(done[i], e.about)
  BY DEF InOrder
<1>8. \A i, j \in Whole(p) : i < j => Before(p[i].about, p[j].about)
  <2>. SUFFICES ASSUME NEW i \in Whole(p), NEW j \in Whole(p), i < j
                PROVE  Before(p[i].about, p[j].about)
    OBVIOUS
  <2>1. i \in Whole(q) /\ p[i] = q[i]
    BY <1>5
  <2>2. CASE j \in Whole(q) /\ p[j] = q[j]
    BY <2>1, <2>2 DEF InOrder
  <2>3. CASE p[j] = e
    BY <2>1, <2>3 DEF InOrder
  <2>. QED  BY <1>4, <2>2, <2>3
<1>9. \A i \in DOMAIN done, j \in Whole(p) : Before(done[i], p[j].about)
  BY <1>4, <1>7 DEF InOrder
<1>. QED  BY <1>1, <1>6, <1>7, <1>8, <1>9 DEF InOrder

\* Frames that stay where they are, or move up by one, keep their order.
LEMMA FramesStay ==
  ASSUME NEW q, NEW done, NEW next, InOrder(q, done, next), NEW p, IsQueue(p),
         \/ \A i \in Whole(p) : i \in Whole(q) /\ p[i] = q[i]
         \/ \A i \in Whole(p) : i + 1 \in Whole(q) /\ p[i] = q[i + 1]
  PROVE  InOrder(p, done, next)
<1>1. \A i, j \in Whole(p) : i < j => i + 1 < j + 1
  BY QueueShape DEF Whole
<1>2. CASE \A i \in Whole(p) : i \in Whole(q) /\ p[i] = q[i]
  BY <1>2 DEF InOrder
<1>3. CASE \A i \in Whole(p) : i + 1 \in Whole(q) /\ p[i] = q[i + 1]
  BY <1>1, <1>3 DEF InOrder
<1>. QED  BY <1>2, <1>3

\* Frames that are read, lost or cut short leave the others in their order.
LEMMA FramesLeave ==
  ASSUME NEW q, q # <<>>, NEW done, NEW next, InOrder(q, done, next)
  PROVE  /\ InOrder(Tail(q), done, next)
         /\ InOrder(Append(Front(q), Part), done, next)
<1>1. InOrder(Tail(q), done, next)
  <2>. DEFINE p == Tail(q)
  <2>1. /\ IsQueue(p) /\ DOMAIN q = 1 .. Len(q) /\ Len(q) \in Nat \ {0}
        /\ DOMAIN p = 1 .. Len(q) - 1
        /\ \A i \in 1 .. Len(q) - 1 : p[i] = q[i + 1]
    BY TailQueue DEF InOrder
  <2>2. \A i \in 1 .. Len(q) - 1 : i + 1 \in 1 .. Len(q)
    BY <2>1
  <2>. HIDE DEF p
  <2>3. \A i \in Whole(p) : i + 1 \in Whole(q) /\ p[i] = q[i + 1]
    BY <2>1, <2>2 DEF Whole
  <2>4. InOrder(p, done, next)
    BY <2>1, <2>3, FramesStay
  <2>. QED  BY <2>4 DEF p
<1>2. InOrder(Append(Front(q), Part), done, next)
  <2>. DEFINE p == Append(Front(q), Part)
  <2>1. /\ IsQueue(p) /\ DOMAIN p = 1 .. Len(q) /\ DOMAIN q = 1 .. Len(q)
        /\ Len(q) \in Nat \ {0}
        /\ \A i \in 1 .. Len(q) - 1 : p[i] = q[i]
        /\ p[Len(q)] = Part
    BY CutQueue DEF InOrder
  <2>2. Part.kind = "part"
    BY DEF Part
  <2>. HIDE DEF p
  <2>. DEFINE n == Len(q)
  <2>0. n \in Nat
    BY <2>1
  <2>. HIDE DEF n
  <2>3. \A i \in 1 .. n : i = n \/ i \in 1 .. n - 1
    BY <2>0
  <2>4. /\ DOMAIN p = 1 .. n /\ DOMAIN q = 1 .. n /\ p[n] = Part
        /\ \A i \in 1 .. n - 1 : p[i] = q[i]
    BY <2>1 DEF n
  <2>5. \A i \in Whole(p) : i \in Whole(q) /\ p[i] = q[i]
    <3>. SUFFICES ASSUME NEW i \in 1 .. n, p[i].kind # "part" PROVE p[i] = q[i]
      BY <2>4 DEF Whole
    <3>. QED  BY <2>2, <2>3, <2>4
  <2>6. InOrder(p, done, next)
    BY <2>1, <2>5, FramesStay
  <2>. QED  BY <2>6 DEF p
<1>. QED  BY <1>1, <1>2

\* The first request on the link is carried out.
LEMMA RequestExecuted ==
  ASSUME NEW q, NEW done, NEW next, InOrder(q, done, next), q # <<>>, Head(q).kind # "part"
  PROVE  /\ InOrder(Tail(q), Append(done, Head(q).about), next)
         /\ Range(Append(done, Head(q).about)) = Range(done) \cup {Head(q).about}
<1>. DEFINE e == Head(q).about
            p == Tail(q)
            d == Append(done, e)
            n == Len(done) + 1
<1>1. /\ IsQueue(p) /\ DOMAIN q = 1 .. Len(q) /\ Len(q) \in Nat \ {0}
      /\ DOMAIN p = 1 .. Len(q) - 1 /\ Head(q) = q[1]
      /\ \A i \in 1 .. Len(q) - 1 : p[i] = q[i + 1]
  BY TailQueue DEF InOrder
<1>2. /\ IsQueue(d) /\ Range(d) = Range(done) \cup {e}
      /\ DOMAIN done = 1 .. Len(done) /\ DOMAIN d = 1 .. n
      /\ Len(done) \in Nat
      /\ \A i \in 1 .. Len(done) : d[i] = done[i]
      /\ d[n] = e
  BY AppendQueue DEF InOrder
<1>3. \A i \in 1 .. Len(q) - 1 : i + 1 \in 1 .. Len(q) /\ 1 < i + 1
  BY <1>1
<1>4. 1 \in Whole(q)
  BY <1>1 DEF Whole
<1>. HIDE DEF p, d
<1>5. \A i \in Whole(p) : i + 1 \in Whole(q) /\ 1 < i + 1 /\ p[i] = q[i + 1]
  BY <1>1, <1>3 DEF Whole
<1>6. InOrder(p, done, next)
  BY FramesLeave DEF p
<1>7. \A i \in 1 .. n : i \in 1 .. Len(done) \/ i = n
  BY <1>2
<1>8. /\ e \in Requests /\ Before(e, next)
      /\ \A i \in DOMAIN done : Before(done[i], e)
      /\ \A j \in Whole(p) : Before(e, p[j].about)
  BY <1>1, <1>4, <1>5 DEF InOrder
<1>9. \A i, j \in 1 .. n : i < j => i \in 1 .. Len(done)
  BY <1>2
<1>. HIDE DEF e, n
<1>10. \A i \in DOMAIN d : \/ i \in DOMAIN done /\ d[i] = done[i]
                           \/ i = n /\ d[i] = e
  BY <1>2, <1>7
<1>11. \A i \in DOMAIN d : d[i] \in Requests /\ Before(d[i], next)
  BY <1>8, <1>10 DEF InOrder
<1>12. \A i, j \in DOMAIN d : i < j => Before(d[i], d[j])
  <2>. SUFFICES ASSUME NEW i \in DOMAIN d, NEW j \in DOMAIN d, i < j
                PROVE  Before(d[i], d[j])
    OBVIOUS
  <2>1. i \in DOMAIN done /\ d[i] = done[i]
    BY <1>2, <1>9
  <2>2. CASE j \in DOMAIN done /\ d[j] = done[j]
    BY <2>1, <2>2 DEF InOrder
  <2>3. CASE d[j] = e
    BY <2>1, <2>3, <1>8
  <2>. QED  BY <1>10, <2>2, <2>3
<1>13. \A i \in DOMAIN d, j \in Whole(p) : Before(d[i], p[j].about)
  BY <1>6, <1>8, <1>10 DEF InOrder
<1>14. InOrder(p, d, next)
  BY <1>2, <1>6, <1>11, <1>12, <1>13 DEF InOrder
<1>. QED  BY <1>2, <1>14 DEF e, p, d

----------------------------------------------------------------------------
\* A record on the link was sealed by its sender, and bears the connection its
\* key was agreed on; an answer is of a request that was carried out.

RequestOwn(f) == f.use \in ClientUses /\ f.about[1] = f.use.key.transcript.nonce[1]

AnswerOwn(f) ==
  /\ f.use \in DeviceUses /\ f.about[1] = f.use.key.transcript.nonce[1]
  /\ f.about \in Range(executed)

AnswersOwn ==
  /\ IsQueue(d2c)
  /\ \A f \in Range(c2d) : f.kind = "sealed" => RequestOwn(f)
  /\ \A f \in Range(d2c) : f.kind = "sealed" => AnswerOwn(f)
  /\ \A pair \in answered : pair[1] = pair[2] /\ pair[1] \in Range(executed)

\* The device uses a key only after the client.
FreshKeys ==
  /\ \A u \in DeviceUses : \E v \in ClientUses : v.key = u.key
  /\ \A d \in server : \/ d.send = 1 /\ d.receive = 1
                       \/ \E v \in ClientUses : v.key = d.key

\* A key the device has confirmed is of a past attempt or of the open channel.
Confirmed(key) ==
  /\ key.transcript.hs \in Nat /\ key.transcript.hs <= handshakes
  /\ rpc.step # "none" => key.transcript.hs < handshakes
  /\ \A d \in server : key.transcript.hs = d.key.transcript.hs => key = d.key

OneKeyEach ==
  /\ \A c \in channel : Confirmed(c.key)
  /\ \A f \in Range(d2c) : f.kind = "public" /\ f.method = "finish" =>
       \A tag \in f.body : Confirmed(tag.key)

\* The records on a link that were sealed with a key.
OfKey(f, key) == f.kind = "sealed" /\ f.use.key = key
Free(q, key) == \A f \in Range(q) : ~OfKey(f, key)
AtMostOne(q, key) == \A i, j \in DOMAIN q : OfKey(q[i], key) /\ OfKey(q[j], key) => i = j
AllAbout(q, key, request) == \A f \in Range(q) : OfKey(f, key) => f.about = request

\* While the client waits, its request is under way, its answer is, or neither
\* ever will be; else the two ends expect each other's next record.
CountersMeet ==
  /\ \A d \in server : d.receive \in Nat
  /\ \A c \in channel :
       /\ c.receive \in Nat
       /\ at # "secure" =>
            /\ Free(c2d, c.key) /\ Free(d2c, c.key)
            /\ \A d \in server : d.key = c.key => c.send = d.receive /\ c.receive = d.send
       /\ at = "secure" =>
            /\ AllAbout(c2d, c.key, This) /\ AtMostOne(d2c, c.key)
            /\ Free(c2d, c.key) \/ Free(d2c, c.key)
            /\ \A d \in server : d.key = c.key =>
                 /\ Free(c2d, c.key) \/ (c.send = d.receive + 1 /\ c.receive = d.send)
                 /\ Free(d2c, c.key) \/ (c.send = d.receive /\ d.send = c.receive + 1)

LinkInv == RequestsInOrder /\ AnswersOwn /\ FreshKeys /\ OneKeyEach /\ CountersMeet

LEMMA LinkStarts == LinkInit => LinkInv
<1>. SUFFICES ASSUME LinkInit PROVE LinkInv
  OBVIOUS
<1>1. /\ c2d = <<>> /\ d2c = <<>> /\ executed = <<>> /\ channel = {} /\ server = {}
      /\ sealed.once = {} /\ answered = {}
  BY DEF LinkInit
<1>2. IsQueue(<<>>) /\ DOMAIN <<>> = {} /\ Range(<<>>) = {}
  <2>1. <<>> \in Seq({}) /\ DOMAIN <<>> = {}
    OBVIOUS
  <2>. QED  BY <2>1, QueueIs DEF Range
<1>. QED
  BY <1>1, <1>2 DEF LinkInv, RequestsInOrder, InOrder, Whole, AnswersOwn, FreshKeys, OneKeyEach,
     CountersMeet, DeviceUses

\* A frame that is not of a key, or one that is gone, changes little.
LEMMA LinkKept ==
  ASSUME NEW q, IsQueue(q), NEW p, NEW key,
         \/ p = q
         \/ q # <<>> /\ p = Tail(q)
         \/ \E e : ~OfKey(e, key) /\ p = Append(q, e)
  PROVE  /\ IsQueue(p)
         /\ Free(q, key) => Free(p, key)
         /\ AtMostOne(q, key) => AtMostOne(p, key)
         /\ \A r : AllAbout(q, key, r) => AllAbout(p, key, r)
<1>1. CASE p = q
  BY <1>1
<1>2. CASE q # <<>> /\ p = Tail(q)
  <2>1. /\ IsQueue(p) /\ Range(p) \subseteq Range(q)
        /\ DOMAIN q = 1 .. Len(q) /\ Len(q) \in Nat \ {0}
        /\ DOMAIN p = 1 .. Len(q) - 1
        /\ \A i \in 1 .. Len(q) - 1 : p[i] = q[i + 1]
    BY <1>2, TailQueue
  <2>. DEFINE n == Len(q)
  <2>2. n \in Nat
    BY <2>1
  <2>. HIDE DEF n
  <2>3. \A i, j \in 1 .. n - 1 : i + 1 \in 1 .. n /\ (i + 1 = j + 1 => i = j)
    BY <2>2
  <2>4. AtMostOne(q, key) => AtMostOne(p, key)
    BY <2>1, <2>3 DEF AtMostOne, n
  <2>5. /\ Free(q, key) => Free(p, key)
        /\ \A r : AllAbout(q, key, r) => AllAbout(p, key, r)
    BY <2>1 DEF Free, AllAbout
  <2>. QED  BY <2>1, <2>4, <2>5
<1>3. CASE \E e : ~OfKey(e, key) /\ p = Append(q, e)
  <2>1. PICK e : ~OfKey(e, key) /\ p = Append(q, e)
    BY <1>3
  <2>2. /\ IsQueue(p) /\ Range(p) = Range(q) \cup {e}
        /\ DOMAIN q = 1 .. Len(q) /\ DOMAIN p = 1 .. Len(q) + 1 /\ Len(q) \in Nat
        /\ \A i \in 1 .. Len(q) : p[i] = q[i]
        /\ p[Len(q) + 1] = e
    BY <2>1, AppendQueue
  <2>. DEFINE n == Len(q)
  <2>3. n \in Nat
    BY <2>2
  <2>. HIDE DEF n
  <2>4. \A i \in 1 .. n + 1 : i \in 1 .. n \/ i = n + 1
    BY <2>3
  <2>5. /\ DOMAIN q = 1 .. n /\ DOMAIN p = 1 .. n + 1 /\ p[n + 1] = e
        /\ \A i \in 1 .. n : p[i] = q[i]
    BY <2>2 DEF n
  <2>6. \A i \in DOMAIN p : OfKey(p[i], key) => i \in DOMAIN q /\ p[i] = q[i]
    BY <2>1, <2>4, <2>5
  <2>7. AtMostOne(q, key) => AtMostOne(p, key)
    BY <2>6 DEF AtMostOne
  <2>8. /\ Free(q, key) => Free(p, key)
        /\ \A r : AllAbout(q, key, r) => AllAbout(p, key, r)
    BY <2>1, <2>2 DEF Free, AllAbout
  <2>. QED  BY <2>2, <2>7, <2>8
<1>. QED  BY <1>1, <1>2, <1>3

----------------------------------------------------------------------------
\* What each part of the invariant needs of a step.

LEMMA AnswersKept ==
  ASSUME AnswersOwn, IsQueue(d2c'),
         ClientUses \subseteq ClientUses', DeviceUses \subseteq DeviceUses',
         Range(executed) \subseteq Range(executed'),
         \A f \in Range(c2d') : f.kind = "sealed" => f \in Range(c2d) \/ RequestOwn(f)',
         \A f \in Range(d2c') : f.kind = "sealed" => f \in Range(d2c) \/ AnswerOwn(f)',
         \A pair \in answered' :
            pair \in answered \/ (pair[1] = pair[2] /\ pair[1] \in Range(executed))
  PROVE  AnswersOwn'
<1>1. \A f : /\ RequestOwn(f) => RequestOwn(f)'
             /\ AnswerOwn(f) => AnswerOwn(f)'
  BY DEF RequestOwn, AnswerOwn
<1>. QED  BY <1>1 DEF AnswersOwn

LEMMA FreshKept ==
  ASSUME FreshKeys, ClientUses \subseteq ClientUses', DeviceUses' = DeviceUses,
         \A d \in server' : d \in server \/ (d.send = 1 /\ d.receive = 1)
  PROVE  FreshKeys'
BY DEF FreshKeys

LEMMA ConfirmedKept ==
  ASSUME \/ UNCHANGED handshakes /\ (rpc'.step # "none" => rpc.step # "none")
         \/ handshakes \in Nat /\ handshakes' = handshakes + 1,
         \A d \in server' : \E e \in server : d.key = e.key,
         NEW key, Confirmed(key)
  PROVE  Confirmed(key)'
BY DEF Confirmed

LEMMA OneKeyKept ==
  ASSUME OneKeyEach, \A key : Confirmed(key) => Confirmed(key)',
         \A c \in channel' : (\E e \in channel : c.key = e.key) \/ Confirmed(c.key)',
         \A f \in Range(d2c') : f.kind = "public" /\ f.method = "finish" =>
            f \in Range(d2c) \/ \A tag \in f.body : Confirmed(tag.key)'
  PROVE  OneKeyEach'
<1>1. \A c \in channel' : Confirmed(c.key)'
  BY DEF OneKeyEach
<1>2. \A f \in Range(d2c') : f.kind = "public" /\ f.method = "finish" =>
        \A tag \in f.body : Confirmed(tag.key)'
  BY DEF OneKeyEach
<1>. QED  BY <1>1, <1>2 DEF OneKeyEach

\* The ends keep their counters, nothing new is sealed, and a new channel has a key
\* of its own.
LEMMA CountersKept ==
  ASSUME CountersMeet, UNCHANGED channel,
         \A d \in server' :
            d \in server \/ (d.receive \in Nat /\ \A c \in channel : c.key # d.key),
         at' = "secure" <=> at = "secure", at = "secure" => UNCHANGED <<conn, nextRequestId>>,
         \A key : /\ Free(c2d, key) => Free(c2d', key)
                  /\ Free(d2c, key) => Free(d2c', key)
                  /\ AtMostOne(d2c, key) => AtMostOne(d2c', key)
                  /\ \A r : AllAbout(c2d, key, r) => AllAbout(c2d', key, r)
  PROVE  CountersMeet'
<1>1. \A d \in server' : d.receive \in Nat
  BY DEF CountersMeet
<1>. SUFFICES ASSUME NEW c \in channel'
     PROVE  /\ c.receive \in Nat
            /\ at' # "secure" =>
                 /\ Free(c2d', c.key) /\ Free(d2c', c.key)
                 /\ \A d \in server' : d.key = c.key =>
                      c.send = d.receive /\ c.receive = d.send
            /\ at' = "secure" =>
                 /\ AllAbout(c2d', c.key, This') /\ AtMostOne(d2c', c.key)
                 /\ Free(c2d', c.key) \/ Free(d2c', c.key)
                 /\ \A d \in server' : d.key = c.key =>
                      /\ Free(c2d', c.key) \/ (c.send = d.receive + 1 /\ c.receive = d.send)
                      /\ Free(d2c', c.key) \/ (c.send = d.receive /\ d.send = c.receive + 1)
  BY <1>1 DEF CountersMeet
<1>2. c \in channel /\ c.receive \in Nat
  BY DEF CountersMeet
<1>3. CASE at # "secure"
  BY <1>2, <1>3 DEF CountersMeet
<1>4. CASE at = "secure"
  <2>1. This' = This
    BY <1>4 DEF This
  <2>2. /\ AllAbout(c2d, c.key, This) /\ AtMostOne(d2c, c.key)
        /\ Free(c2d, c.key) \/ Free(d2c, c.key)
        /\ \A d \in server : d.key = c.key =>
             /\ Free(c2d, c.key) \/ (c.send = d.receive + 1 /\ c.receive = d.send)
             /\ Free(d2c, c.key) \/ (c.send = d.receive /\ d.send = c.receive + 1)
    BY <1>2, <1>4 DEF CountersMeet
  <2>3. AllAbout(c2d', c.key, This) /\ AtMostOne(d2c', c.key)
    BY <2>2
  <2>4. \A d \in server' : d.key = c.key => d \in server
    BY <1>2
  <2>. QED  BY <1>2, <1>4, <2>1, <2>2, <2>3, <2>4
<1>. QED  BY <1>3, <1>4

----------------------------------------------------------------------------
\* The client.

LEMMA FrameKinds ==
  /\ Part.kind = "part"
  /\ \A method, about, hs, body :
       LET f == Public(method, about, hs, body)
       IN  /\ f.kind = "public" /\ f.method = method /\ f.about = about /\ f.body = body
           /\ \A key : ~OfKey(f, key)
  /\ \A key : ~OfKey(Part, key)
  /\ \A by, ch, about :
       LET f == Record(by, ch, about)
       IN  /\ f.kind = "sealed" /\ f.use = CipherUse(by, ch) /\ f.about = about
           /\ f.use.by = by /\ f.use.key = ch.key
BY DEF Part, Public, Record, OfKey, CipherUse

\* A request in the clear, and an answer in the clear that was read.
LEMMA ClearKeepsLink ==
  ASSUME NonceInv, LinkInv, UNCHANGED <<device, ghosts, conn, channel>>,
         at # "secure", at' # "secure",
         \/ UNCHANGED <<c2d, nextRequestId>>
         \/ /\ nextRequestId' = nextRequestId + 1
            /\ \E method, hs, body :
                 c2d' = Append(c2d, Public(method, <<conn, nextRequestId>>, hs, body)),
         d2c' = d2c \/ (d2c # <<>> /\ d2c' = Tail(d2c))
  PROVE  LinkInv'
<1>1. /\ UNCHANGED <<rpc, server, handshakes, executed, answered, sealed>>
      /\ conn \in Nat /\ nextRequestId \in Nat
  BY DEF device, ghosts, NonceInv, ClientShape
<1>2. IsQueue(c2d) /\ IsQueue(d2c)
  BY DEF LinkInv, RequestsInOrder, InOrder, AnswersOwn
<1>3. RequestsInOrder'
  <2>1. InOrder(c2d, executed, <<conn, nextRequestId>>)
    BY DEF LinkInv, RequestsInOrder
  <2>2. CASE UNCHANGED <<c2d, nextRequestId>>
    BY <1>1, <2>1, <2>2 DEF RequestsInOrder
  <2>3. CASE nextRequestId' = nextRequestId + 1 /\ ~UNCHANGED <<c2d, nextRequestId>>
    <3>1. PICK method, hs, body :
            c2d' = Append(c2d, Public(method, <<conn, nextRequestId>>, hs, body))
      BY <2>3
    <3>. DEFINE e == Public(method, <<conn, nextRequestId>>, hs, body)
                next == <<conn, nextRequestId>>
                further == <<conn, nextRequestId + 1>>
    <3>2. e.kind = "public" /\ e.about = next
      BY FrameKinds
    <3>3. c2d' = Append(c2d, e)
      BY <3>1
    <3>4. /\ next \in Requests /\ Before(next, further)
          /\ \A r \in Requests : Before(r, next) => Before(r, further)
      BY <1>1, BeforeMore DEF Requests, Before
    <3>5. InOrder(c2d, executed, next)
      BY <2>1
    <3>6. further = <<conn', nextRequestId'>>
      BY <2>3
    <3>. HIDE DEF e, next, further
    <3>7. InOrder(c2d', executed, further)
      BY <3>2, <3>3, <3>4, <3>5, RequestAppended
    <3>. QED  BY <1>1, <3>6, <3>7 DEF RequestsInOrder
  <2>. QED  BY <2>2, <2>3
<1>4. \A key : /\ IsQueue(c2d') /\ IsQueue(d2c')
               /\ Free(c2d, key) => Free(c2d', key)
               /\ Free(d2c, key) => Free(d2c', key)
               /\ AtMostOne(d2c, key) => AtMostOne(d2c', key)
               /\ \A r : AllAbout(c2d, key, r) => AllAbout(c2d', key, r)
  <2>1. \A key : c2d' = c2d \/ \E e : ~OfKey(e, key) /\ c2d' = Append(c2d, e)
    BY FrameKinds
  <2>. QED  BY <1>2, <2>1, LinkKept
<1>5. ClientUses' = ClientUses /\ DeviceUses' = DeviceUses
  BY <1>1, UsesKept
<1>6. \A f \in Range(c2d') : f.kind = "sealed" => f \in Range(c2d)
  <2>1. CASE c2d' = c2d
    BY <2>1
  <2>2. CASE \E method, hs, body :
               c2d' = Append(c2d, Public(method, <<conn, nextRequestId>>, hs, body))
    <3>1. PICK method, hs, body :
            c2d' = Append(c2d, Public(method, <<conn, nextRequestId>>, hs, body))
      BY <2>2
    <3>2. Range(c2d') = Range(c2d) \cup {Public(method, <<conn, nextRequestId>>, hs, body)}
      BY <1>2, <3>1, AppendQueue
    <3>. QED  BY <3>2, FrameKinds
  <2>. QED  BY <2>1, <2>2
<1>7. Range(d2c') \subseteq Range(d2c)
  BY <1>2, TailQueue
<1>8. AnswersOwn'
  BY <1>1, <1>4, <1>5, <1>6, <1>7, AnswersKept DEF LinkInv
<1>9. FreshKeys'
  BY <1>1, <1>5, FreshKept DEF LinkInv
<1>10. OneKeyEach'
  BY <1>1, <1>7, ConfirmedKept, OneKeyKept DEF LinkInv
<1>11. CountersMeet'
  BY <1>1, <1>4, CountersKept DEF LinkInv
<1>. QED  BY <1>3, <1>8, <1>9, <1>10, <1>11 DEF LinkInv

\* Connecting and closing leave no channel.
LEMMA ConnectKeepsLink == NonceInv /\ LinkInv /\ Connect => LinkInv'
<1>. SUFFICES ASSUME NonceInv, LinkInv, Connect PROVE LinkInv'
  OBVIOUS
<1>. DEFINE e == Public("hello", <<conn + 1, 1>>, 0, {})
<1>1. /\ UNCHANGED <<rpc, server, handshakes, executed, answered, sealed, d2c>>
      /\ channel = {} /\ channel' = {} /\ conn \in Nat /\ nextRequestId \in Nat
      /\ conn' = conn + 1 /\ nextRequestId' = 2 /\ c2d' = Append(c2d, e)
  BY DEF Connect, device, ghosts, NonceInv, ClientShape
<1>2. IsQueue(c2d) /\ IsQueue(d2c)
  BY DEF LinkInv, RequestsInOrder, InOrder, AnswersOwn
<1>3. e.kind = "public" /\ e.about = <<conn + 1, 1>>
  BY FrameKinds
<1>. HIDE DEF e
<1>4. RequestsInOrder'
  <2>. DEFINE next == <<conn, nextRequestId>>
              new == <<conn + 1, 1>>
              further == <<conn + 1, 2>>
  <2>1. InOrder(c2d, executed, next)
    BY DEF LinkInv, RequestsInOrder
  <2>2. /\ new \in Requests /\ Before(new, further)
        /\ \A r \in Requests : Before(r, next) => Before(r, new) /\ Before(r, further)
    BY <1>1, BeforeMore DEF Requests, Before
  <2>3. further = <<conn', nextRequestId'>> /\ e.about = new
    BY <1>1, <1>3
  <2>. HIDE DEF next, new, further
  <2>4. InOrder(c2d', executed, further)
    BY <1>1, <1>3, <2>1, <2>2, <2>3, RequestAppended
  <2>. QED  BY <1>1, <2>3, <2>4 DEF RequestsInOrder
<1>5. ClientUses' = ClientUses /\ DeviceUses' = DeviceUses
  BY <1>1, UsesKept
<1>6. Range(c2d') = Range(c2d) \cup {e}
  BY <1>1, <1>2, AppendQueue
<1>7. AnswersOwn'
  BY <1>1, <1>2, <1>3, <1>5, <1>6, AnswersKept DEF LinkInv
<1>8. FreshKeys'
  BY <1>1, <1>5, FreshKept DEF LinkInv
<1>9. OneKeyEach'
  BY <1>1, ConfirmedKept, OneKeyKept DEF LinkInv
<1>10. CountersMeet'
  BY <1>1 DEF LinkInv, CountersMeet
<1>. QED  BY <1>4, <1>7, <1>8, <1>9, <1>10 DEF LinkInv

LEMMA CloseKeepsLink == LinkInv /\ Close => LinkInv'
<1>. SUFFICES ASSUME LinkInv, Close PROVE LinkInv'
  OBVIOUS
<1>1. /\ UNCHANGED <<rpc, server, handshakes, executed, answered, sealed, conn, nextRequestId>>
      /\ channel' = {} /\ d2c' \in Suffixes(d2c)
      /\ c2d' = c2d \/ (c2d # <<>> /\ c2d' = Append(Front(c2d), Part))
  BY DEF Close, device, ghosts
<1>2. IsQueue(c2d) /\ IsQueue(d2c)
  BY DEF LinkInv, RequestsInOrder, InOrder, AnswersOwn
<1>3. RequestsInOrder'
  BY <1>1, FramesLeave DEF LinkInv, RequestsInOrder
<1>4. IsQueue(d2c') /\ Range(d2c') \subseteq Range(d2c)
  BY <1>1, <1>2, SuffixQueue
<1>5. Range(c2d') \subseteq Range(c2d) \cup {Part}
  BY <1>1, <1>2, CutQueue
<1>6. \A f \in Range(c2d') : f.kind = "sealed" => f \in Range(c2d)
  BY <1>5, FrameKinds
<1>7. ClientUses' = ClientUses /\ DeviceUses' = DeviceUses
  BY <1>1, UsesKept
<1>8. AnswersOwn'
  BY <1>1, <1>4, <1>6, <1>7, AnswersKept DEF LinkInv
<1>9. FreshKeys'
  BY <1>1, <1>7, FreshKept DEF LinkInv
<1>10. OneKeyEach'
  BY <1>1, <1>4, ConfirmedKept, OneKeyKept DEF LinkInv
<1>11. CountersMeet'
  BY <1>1 DEF LinkInv, CountersMeet
<1>. QED  BY <1>3, <1>8, <1>9, <1>10, <1>11 DEF LinkInv

\* A new channel: the device has confirmed its key, and neither end used it.
LEMMA FinishedKeepsLink == NonceInv /\ LinkInv /\ GotFinished => LinkInv'
<1>. SUFFICES ASSUME NonceInv, LinkInv, GotFinished PROVE LinkInv'
  OBVIOUS
<1>1. /\ UNCHANGED <<rpc, server, handshakes, executed, answered, sealed, conn, nextRequestId, c2d>>
      /\ at' = "idle" /\ d2c # <<>> /\ d2c' = Tail(d2c)
      /\ Head(d2c).kind = "public" /\ Head(d2c).method = "finish"
  BY DEF GotFinished, device, ghosts, IsAnswer, Answer
<1>2. PICK ctx \in pairing :
        channel' = {NewChannel(ctx)} /\ \E tag \in Head(d2c).body : Verifies(tag, "device", ctx)
  BY DEF GotFinished, Answer
<1>. DEFINE c == NewChannel(ctx)
<1>3. c.key = Key(ctx) /\ c.send = 1 /\ c.receive = 1 /\ channel' = {c}
  BY <1>2 DEF NewChannel
<1>4. \E tag \in Head(d2c).body : tag.key = c.key
  BY <1>2, <1>3 DEF Verifies, Finished
<1>5. \A use \in ClientUses : use.key # c.key
  BY <1>3, PairingIsFresh DEF NonceInv
<1>. HIDE DEF c
<1>6. IsQueue(c2d) /\ IsQueue(d2c)
  BY DEF LinkInv, RequestsInOrder, InOrder, AnswersOwn
<1>7. IsQueue(d2c') /\ Range(d2c') \subseteq Range(d2c) /\ Head(d2c) \in Range(d2c)
  BY <1>1, <1>6, TailQueue
<1>8. Confirmed(c.key)
  BY <1>1, <1>4, <1>7 DEF LinkInv, OneKeyEach
<1>9. \A use \in DeviceUses : use.key # c.key
  BY <1>5 DEF LinkInv, FreshKeys
<1>10. Free(c2d, c.key) /\ Free(d2c', c.key)
  BY <1>5, <1>7, <1>9 DEF LinkInv, AnswersOwn, RequestOwn, AnswerOwn, Free, OfKey
<1>11. \A d \in server : d.key = c.key => d.send = 1 /\ d.receive = 1
  BY <1>5 DEF LinkInv, FreshKeys
<1>12. ClientUses' = ClientUses /\ DeviceUses' = DeviceUses
  BY <1>1, UsesKept
<1>13. RequestsInOrder'
  BY <1>1 DEF LinkInv, RequestsInOrder
<1>14. AnswersOwn'
  BY <1>1, <1>7, <1>12, AnswersKept DEF LinkInv
<1>15. FreshKeys'
  BY <1>1, <1>12, FreshKept DEF LinkInv
<1>16. \A key : Confirmed(key) => Confirmed(key)'
  BY <1>1, ConfirmedKept
<1>17. OneKeyEach'
  BY <1>3, <1>7, <1>8, <1>16, OneKeyKept DEF LinkInv
<1>18. CountersMeet'
  BY <1>1, <1>3, <1>10, <1>11 DEF LinkInv, CountersMeet
<1>. QED  BY <1>13, <1>14, <1>15, <1>17, <1>18 DEF LinkInv

\* A secure request: the one record under its key that is under way.
LEMMA RequestKeepsLink == NonceInv /\ LinkInv /\ RequestSecure => LinkInv'
<1>. SUFFICES ASSUME NonceInv, LinkInv, RequestSecure PROVE LinkInv'
  OBVIOUS
<1>1. /\ UNCHANGED <<rpc, server, handshakes, executed, answered, conn, d2c>>
      /\ at = "idle" /\ at' = "secure" /\ nextRequestId' = nextRequestId + 1
      /\ conn \in Nat /\ nextRequestId \in Nat
  BY DEF RequestSecure, SendSecure, device, NonceInv, ClientShape
<1>2. PICK ch \in channel :
        /\ CanSeal(ch) /\ sealed' = NoteSealed("client", ch)
        /\ c2d' = Append(c2d, Record("client", ch, <<conn, nextRequestId>>))
        /\ channel' = {[ch EXCEPT !.send = Advance(@)]}
  BY DEF RequestSecure, SendSecure
<1>. DEFINE c == [ch EXCEPT !.send = Advance(@)]
<1>0. PICK f : f = Record("client", ch, <<conn, nextRequestId>>)
  OBVIOUS
<1>3. /\ f.kind = "sealed" /\ f.use = CipherUse("client", ch) /\ f.about = <<conn, nextRequestId>>
      /\ f.use.by = "client" /\ f.use.key = ch.key
  BY <1>0, FrameKinds
<1>4. /\ ch = [key |-> ch.key, send |-> ch.send, receive |-> ch.receive] /\ ch.send \in Nat
      /\ UsesBefore("client", ch) /\ IsChannel(ch)
      /\ ch.key.transcript.nonce[1] = conn
  BY DEF NonceInv, ClientShape, IsChannel, OfThis
<1>5. c.key = ch.key /\ c.send = ch.send + 1 /\ c.receive = ch.receive
  BY <1>2, <1>4 DEF Advance, CanSeal
<1>6. channel' = {c} /\ c2d' = Append(c2d, f)
  BY <1>0, <1>2
<1>7. sealed'.once = sealed.once \cup {f.use}
  BY <1>2, <1>3, <1>4, SealsOnce DEF NonceInv
<1>. HIDE DEF c
<1>8. ClientUses' = ClientUses \cup {f.use} /\ DeviceUses' = DeviceUses
  BY <1>3, <1>7 DEF ClientUses, DeviceUses
<1>9. IsQueue(c2d) /\ IsQueue(d2c)
  BY DEF LinkInv, RequestsInOrder, InOrder, AnswersOwn
<1>10. Range(c2d') = Range(c2d) \cup {f}
  BY <1>6, <1>9, AppendQueue
<1>11. RequestsInOrder'
  <2>. DEFINE next == <<conn, nextRequestId>>
              further == <<conn, nextRequestId + 1>>
  <2>1. InOrder(c2d, executed, next)
    BY DEF LinkInv, RequestsInOrder
  <2>2. /\ next \in Requests /\ Before(next, further)
        /\ \A r \in Requests : Before(r, next) => Before(r, further)
    BY <1>1, BeforeMore DEF Requests, Before
  <2>3. further = <<conn', nextRequestId'>> /\ f.about = next
    BY <1>1, <1>3
  <2>. HIDE DEF next, further
  <2>4. InOrder(c2d', executed, further)
    BY <1>3, <1>6, <2>1, <2>2, <2>3, RequestAppended
  <2>. QED  BY <1>1, <2>3, <2>4 DEF RequestsInOrder
<1>12. RequestOwn(f)'
  BY <1>3, <1>4, <1>8 DEF RequestOwn
<1>13. AnswersOwn'
  BY <1>1, <1>8, <1>9, <1>10, <1>12, AnswersKept DEF LinkInv
<1>14. FreshKeys'
  BY <1>1, <1>8, FreshKept DEF LinkInv
<1>15. OneKeyEach'
  BY <1>1, <1>5, <1>6, ConfirmedKept, OneKeyKept DEF LinkInv
<1>16. /\ Free(c2d, ch.key) /\ Free(d2c, ch.key) /\ ch.receive \in Nat
       /\ \A d \in server : d.receive \in Nat
       /\ \A d \in server : d.key = ch.key => ch.send = d.receive /\ ch.receive = d.send
  BY <1>1 DEF LinkInv, CountersMeet
<1>17. AllAbout(c2d', c.key, This')
  <2>1. This' = <<conn, nextRequestId>>
    BY <1>1 DEF This
  <2>. QED  BY <1>3, <1>5, <1>10, <1>16, <2>1 DEF AllAbout, Free
<1>18. AtMostOne(d2c, c.key)
  BY <1>5, <1>9, <1>16, QueueShape DEF AtMostOne, Free
<1>19. CountersMeet'
  BY <1>1, <1>4, <1>5, <1>6, <1>16, <1>17, <1>18 DEF CountersMeet
<1>. QED  BY <1>11, <1>13, <1>14, <1>15, <1>19 DEF LinkInv

\* An answer that opens is of the request that was carried out for it.
LEMMA AnswerKeepsLink == NonceInv /\ LinkInv /\ GotSecure => LinkInv'
<1>. SUFFICES ASSUME NonceInv, LinkInv, GotSecure PROVE LinkInv'
  OBVIOUS
<1>. DEFINE f == Head(d2c)
<1>1. /\ UNCHANGED <<rpc, server, handshakes, executed, sealed, conn, nextRequestId, c2d>>
      /\ at = "secure" /\ at' = "idle" /\ d2c # <<>> /\ d2c' = Tail(d2c)
      /\ answered' = answered \cup {<<This, f.about>>}
  BY DEF GotSecure, device, Answer
<1>2. PICK ch \in channel :
        /\ Opens(ch, "device", f) /\ f.about[2] = This[2]
        /\ channel' = {[ch EXCEPT !.receive = Advance(@)]}
  BY DEF GotSecure, Answer
<1>. DEFINE c == [ch EXCEPT !.receive = Advance(@)]
<1>3. /\ f.kind = "sealed" /\ f.use.key = ch.key /\ f.use.counter = ch.receive
      /\ f.use.counter # LastCounter
  BY <1>2 DEF Opens
<1>4. /\ ch = [key |-> ch.key, send |-> ch.send, receive |-> ch.receive] /\ ch.send \in Nat
      /\ ch.key.transcript.nonce[1] = conn /\ conn \in Nat /\ nextRequestId \in Nat
  BY DEF NonceInv, ClientShape, IsChannel, OfThis
<1>5. c.key = ch.key /\ c.send = ch.send /\ c.receive = ch.receive + 1
  BY <1>3, <1>4 DEF Advance
<1>6. channel' = {c}
  BY <1>2
<1>7. IsQueue(c2d) /\ IsQueue(d2c)
  BY DEF LinkInv, RequestsInOrder, InOrder, AnswersOwn
<1>8. /\ IsQueue(d2c') /\ Range(d2c') \subseteq Range(d2c) /\ f \in Range(d2c)
      /\ DOMAIN d2c = 1 .. Len(d2c) /\ Len(d2c) \in Nat \ {0} /\ f = d2c[1]
      /\ DOMAIN d2c' = 1 .. Len(d2c) - 1
      /\ \A i \in 1 .. Len(d2c) - 1 : d2c'[i] = d2c[i + 1]
  BY <1>1, <1>7, TailQueue
<1>. HIDE DEF f, c
<1>9. f.about \in Range(executed) /\ f.about[1] = conn
  BY <1>3, <1>4, <1>8 DEF LinkInv, AnswersOwn, AnswerOwn
<1>10. f.about = This
  <2>1. f.about \in Requests
    BY <1>9 DEF LinkInv, RequestsInOrder, InOrder, Range
  <2>2. This = <<conn, nextRequestId - 1>>
    BY DEF This
  <2>. QED  BY <1>2, <1>9, <2>1, <2>2 DEF Requests
<1>11. /\ AtMostOne(d2c, ch.key) /\ ch.receive \in Nat
       /\ Free(c2d, ch.key) \/ Free(d2c, ch.key)
       /\ \A d \in server : d.receive \in Nat
       /\ \A d \in server : d.key = ch.key =>
            Free(d2c, ch.key) \/ (ch.send = d.receive /\ d.send = ch.receive + 1)
  BY <1>1 DEF LinkInv, CountersMeet
<1>12. OfKey(f, ch.key) /\ ~Free(d2c, ch.key)
  BY <1>3, <1>8 DEF OfKey, Free
<1>13. Free(d2c', c.key)
  <2>. SUFFICES ASSUME NEW g \in Range(d2c'), OfKey(g, ch.key) PROVE FALSE
    BY <1>5 DEF Free
  <2>. DEFINE n == Len(d2c)
  <2>1. n \in Nat \ {0} /\ 1 \in 1 .. n
    BY <1>8
  <2>2. PICK i \in 1 .. n - 1 : g = d2c[i + 1]
    BY <1>8 DEF Range
  <2>. HIDE DEF n
  <2>3. i + 1 \in 1 .. n /\ i + 1 # 1
    BY <2>1
  <2>. QED  BY <1>8, <1>11, <1>12, <2>1, <2>2, <2>3 DEF AtMostOne, n
<1>14. ClientUses' = ClientUses /\ DeviceUses' = DeviceUses
  BY <1>1, UsesKept
<1>15. RequestsInOrder'
  BY <1>1 DEF LinkInv, RequestsInOrder
<1>16. \A pair \in answered' :
         pair \in answered \/ (pair[1] = pair[2] /\ pair[1] \in Range(executed))
  BY <1>1, <1>9, <1>10
<1>17. AnswersOwn'
  BY <1>1, <1>8, <1>14, <1>16, AnswersKept DEF LinkInv
<1>18. FreshKeys'
  BY <1>1, <1>14, FreshKept DEF LinkInv
<1>19. OneKeyEach'
  BY <1>1, <1>5, <1>6, <1>8, ConfirmedKept, OneKeyKept DEF LinkInv
<1>20. CountersMeet'
  BY <1>1, <1>5, <1>6, <1>11, <1>12, <1>13 DEF CountersMeet
<1>. QED  BY <1>15, <1>17, <1>18, <1>19, <1>20 DEF LinkInv

LEMMA ClientStepKeepsLink == NonceInv /\ LinkInv /\ ClientStep => LinkInv'
<1>. SUFFICES ASSUME NonceInv, LinkInv, ClientStep PROVE LinkInv'
  OBVIOUS
<1>1. CASE Connect
  BY <1>1, ConnectKeepsLink
<1>2. CASE GiveUp \/ Reject \/ OutOfCounters
  BY <1>2, CloseKeepsLink DEF GiveUp, Reject, OutOfCounters
<1>3. CASE Pair \/ GotHello \/ GotPrepared \/ GotUnavailable \/ GotRoundOne \/ GotRoundTwo
  <2>1. /\ UNCHANGED <<device, ghosts, conn, channel>> /\ at # "secure" /\ at' # "secure"
    BY <1>3 DEF Pair, GotHello, GotPrepared, GotUnavailable, GotRoundOne, GotRoundTwo, SendRequest
  <2>2. d2c' = d2c \/ (d2c # <<>> /\ d2c' = Tail(d2c))
    BY <1>3 DEF Pair, GotHello, GotPrepared, GotUnavailable, GotRoundOne, GotRoundTwo
  <2>3. CASE GotHello \/ GotUnavailable
    <3>1. UNCHANGED <<c2d, nextRequestId>>
      BY <2>3 DEF GotHello, GotUnavailable
    <3>. QED  BY <2>1, <2>2, <3>1, ClearKeepsLink
  <2>4. CASE Pair \/ GotPrepared \/ GotRoundOne \/ GotRoundTwo
    <3>1. \E method, hs, body : SendRequest(method, hs, body)
      BY <2>4 DEF Pair, GotPrepared, GotRoundOne, GotRoundTwo
    <3>2. /\ nextRequestId' = nextRequestId + 1
          /\ \E method, hs, body :
               c2d' = Append(c2d, Public(method, <<conn, nextRequestId>>, hs, body))
      BY <3>1 DEF SendRequest
    <3>. QED  BY <2>1, <2>2, <3>2, ClearKeepsLink
  <2>. QED  BY <1>3, <2>3, <2>4
<1>4. CASE GotFinished
  BY <1>4, FinishedKeepsLink
<1>5. CASE RequestSecure
  BY <1>5, RequestKeepsLink
<1>6. CASE GotSecure
  BY <1>6, AnswerKeepsLink
<1>. QED  BY <1>1, <1>2, <1>3, <1>4, <1>5, <1>6 DEF ClientStep

----------------------------------------------------------------------------
\* The device.

\* A frame read or dropped, and an answer in the clear: no channel goes on but
\* the one that was open.
LEMMA DeviceKeepsLink ==
  ASSUME NonceInv, LinkInv, UNCHANGED <<client, ghosts>>, server' \subseteq server,
         c2d' = c2d \/ (c2d # <<>> /\ c2d' = Tail(c2d)),
         \/ UNCHANGED handshakes /\ (rpc'.step # "none" => rpc.step # "none")
         \/ handshakes' = handshakes + 1,
         \/ d2c' = d2c
         \/ d2c' = Append(d2c, Part)
         \/ \E method, about, hs, body :
              /\ d2c' = Append(d2c, Public(method, about, hs, body))
              /\ method = "finish" => \A tag \in body : Confirmed(tag.key)'
  PROVE  LinkInv'
<1>1. /\ UNCHANGED <<at, conn, nextRequestId, channel, executed, answered, sealed>>
      /\ handshakes \in Nat
  BY DEF client, ghosts, NonceInv, DeviceShape
<1>2. IsQueue(c2d) /\ IsQueue(d2c)
  BY DEF LinkInv, RequestsInOrder, InOrder, AnswersOwn
<1>3. RequestsInOrder'
  BY <1>1, FramesLeave DEF LinkInv, RequestsInOrder
<1>4. \A key : d2c' = d2c \/ \E e : ~OfKey(e, key) /\ d2c' = Append(d2c, e)
  BY FrameKinds
<1>5. \A key : /\ IsQueue(c2d') /\ IsQueue(d2c')
               /\ Free(c2d, key) => Free(c2d', key)
               /\ Free(d2c, key) => Free(d2c', key)
               /\ AtMostOne(d2c, key) => AtMostOne(d2c', key)
               /\ \A r : AllAbout(c2d, key, r) => AllAbout(c2d', key, r)
  BY <1>2, <1>4, LinkKept
<1>6. Range(c2d') \subseteq Range(c2d)
  BY <1>2, TailQueue
<1>7. \A f \in Range(d2c') :
        \/ f \in Range(d2c)
        \/ f.kind = "part"
        \/ f.kind = "public" /\ (f.method = "finish" => \A tag \in f.body : Confirmed(tag.key)')
  <2>1. CASE d2c' = d2c
    BY <2>1
  <2>2. CASE d2c' = Append(d2c, Part)
    <3>1. Range(d2c') = Range(d2c) \cup {Part}
      BY <1>2, <2>2, AppendQueue
    <3>. QED  BY <3>1, FrameKinds
  <2>3. CASE \E method, about, hs, body :
              /\ d2c' = Append(d2c, Public(method, about, hs, body))
              /\ method = "finish" => \A tag \in body : Confirmed(tag.key)'
    <3>1. PICK method, about, hs, body :
              /\ d2c' = Append(d2c, Public(method, about, hs, body))
              /\ method = "finish" => \A tag \in body : Confirmed(tag.key)'
      BY <2>3
    <3>2. Range(d2c') = Range(d2c) \cup {Public(method, about, hs, body)}
      BY <1>2, <3>1, AppendQueue
    <3>3. LET f == Public(method, about, hs, body)
          IN  f.kind = "public" /\ f.method = method /\ f.body = body
      BY FrameKinds
    <3>. QED  BY <3>1, <3>2, <3>3
  <2>. QED  BY <2>1, <2>2, <2>3
<1>8. ClientUses' = ClientUses /\ DeviceUses' = DeviceUses
  BY <1>1, UsesKept
<1>9. AnswersOwn'
  BY <1>1, <1>5, <1>6, <1>7, <1>8, AnswersKept DEF LinkInv
<1>10. FreshKeys'
  BY <1>8, FreshKept DEF LinkInv
<1>11. OneKeyEach'
  <2>1. \A key : Confirmed(key) => Confirmed(key)'
    BY <1>1, ConfirmedKept
  <2>. QED  BY <1>1, <1>7, <2>1, OneKeyKept DEF LinkInv
<1>12. CountersMeet'
  BY <1>1, <1>5, CountersKept DEF LinkInv
<1>. QED  BY <1>3, <1>9, <1>10, <1>11, <1>12 DEF LinkInv

\* The key the device confirms is of the attempt it holds.
LEMMA FinishedIsConfirmed ==
  ASSUME NonceInv, LinkInv, rpc.step # "none", UNCHANGED handshakes, ClearAttempt,
         NEW ctx \in context, server' \subseteq {NewChannel(ctx)}
  PROVE  /\ Confirmed(Key(ctx))'
         /\ \A key : Confirmed(key) =>
              Confirmed(key)' /\ key.transcript.hs # Key(ctx).transcript.hs
<1>1. ctx.hs = handshakes /\ handshakes \in Nat
  BY DEF NonceInv, DeviceShape
<1>2. Key(ctx).transcript.hs = ctx.hs /\ NewChannel(ctx).key = Key(ctx)
  BY DEF Key, Transcript, NewChannel
<1>3. rpc'.step = "none"
  BY DEF ClearAttempt
<1>4. \A d \in server' : d.key = Key(ctx)
  BY <1>2
<1>5. Confirmed(Key(ctx))'
  BY <1>1, <1>2, <1>3, <1>4 DEF Confirmed
<1>. QED  BY <1>1, <1>2, <1>3, <1>4, <1>5 DEF Confirmed

\* A channel opens under a key that no other channel has and no record bears.
LEMMA FinishKeepsLink == NonceInv /\ LinkInv /\ ServeFinish => LinkInv'
<1>. SUFFICES ASSUME NonceInv, LinkInv, ServeFinish PROVE LinkInv'
  OBVIOUS
<1>1. /\ UNCHANGED <<at, conn, nextRequestId, channel, executed, answered, sealed, handshakes>>
      /\ c2d # <<>> /\ c2d' = Tail(c2d) /\ server = {} /\ ClearAttempt /\ rpc.step # "none"
  BY DEF ServeFinish, Serves, LastStepFits, client, ghosts
<1>2. PICK ctx \in context :
        /\ server' = {NewChannel(ctx)}
        /\ d2c' = Append(d2c, Public("finish", Incoming.about, 0, {Finished("device", ctx)}))
  BY DEF ServeFinish
<1>0. PICK f : f = Public("finish", Incoming.about, 0, {Finished("device", ctx)})
  OBVIOUS
<1>3. f.kind = "public" /\ f.method = "finish" /\ \A tag \in f.body : tag.key = Key(ctx)
  BY <1>0, FrameKinds DEF Finished
<1>4. /\ Confirmed(Key(ctx))'
      /\ \A key : Confirmed(key) =>
           Confirmed(key)' /\ key.transcript.hs # Key(ctx).transcript.hs
  BY <1>1, <1>2, FinishedIsConfirmed
<1>5. \A d \in server' : d.key = Key(ctx) /\ d.send = 1 /\ d.receive = 1
  BY <1>2 DEF NewChannel
<1>6. IsQueue(c2d) /\ IsQueue(d2c)
  BY DEF LinkInv, RequestsInOrder, InOrder, AnswersOwn
<1>7. Range(d2c') = Range(d2c) \cup {f} /\ Range(c2d') \subseteq Range(c2d)
  BY <1>0, <1>1, <1>2, <1>6, AppendQueue, TailQueue
<1>8. \A key : /\ IsQueue(c2d') /\ IsQueue(d2c')
               /\ Free(c2d, key) => Free(c2d', key)
               /\ Free(d2c, key) => Free(d2c', key)
               /\ AtMostOne(d2c, key) => AtMostOne(d2c', key)
               /\ \A r : AllAbout(c2d, key, r) => AllAbout(c2d', key, r)
  <2>1. \A key : \E e : ~OfKey(e, key) /\ d2c' = Append(d2c, e)
    BY <1>2, FrameKinds
  <2>. QED  BY <1>1, <1>6, <2>1, LinkKept
<1>9. ClientUses' = ClientUses /\ DeviceUses' = DeviceUses
  BY <1>1, UsesKept
<1>10. RequestsInOrder'
  BY <1>1, FramesLeave DEF LinkInv, RequestsInOrder
<1>11. AnswersOwn'
  BY <1>1, <1>3, <1>7, <1>8, <1>9, AnswersKept DEF LinkInv
<1>12. FreshKeys'
  BY <1>5, <1>9, FreshKept DEF LinkInv
<1>13. OneKeyEach'
  BY <1>1, <1>3, <1>4, <1>7, OneKeyKept DEF LinkInv
<1>14. \A d \in server' : d.receive \in Nat /\ \A c \in channel : c.key # d.key
  BY <1>4, <1>5 DEF LinkInv, OneKeyEach
<1>15. CountersMeet'
  BY <1>1, <1>8, <1>14, CountersKept DEF LinkInv
<1>. QED  BY <1>10, <1>11, <1>12, <1>13, <1>15 DEF LinkInv

\* The only record under a key, whatever follows it on the link.
LEMMA OneIsAtMostOne ==
  ASSUME NEW q, IsQueue(q), NEW key, Free(q, key), NEW e
  PROVE  AtMostOne(Append(q, e), key)
<1>. DEFINE p == Append(q, e)
            n == Len(q)
<1>1. /\ DOMAIN q = 1 .. n /\ DOMAIN p = 1 .. n + 1 /\ n \in Nat
      /\ \A i \in 1 .. n : p[i] = q[i] /\ q[i] \in Range(q)
  BY AppendQueue, QueueShape
<1>2. n \in Nat
  BY <1>1
<1>. HIDE DEF p, n
<1>3. \A i \in 1 .. n + 1 : i \in 1 .. n \/ i = n + 1
  BY <1>2
<1>4. \A i \in DOMAIN p : OfKey(p[i], key) => i = n + 1
  BY <1>1, <1>3 DEF Free
<1>. QED  BY <1>4 DEF AtMostOne, p

\* The request at the head of the link is the only one that bears its number.
LEMMA HeadIsOnly ==
  ASSUME RequestsInOrder, c2d # <<>>, Head(c2d).kind # "part", NEW key,
         AllAbout(c2d, key, Head(c2d).about)
  PROVE  Free(Tail(c2d), key)
<1>1. InOrder(c2d, executed, <<conn, nextRequestId>>) /\ IsQueue(c2d)
  BY DEF RequestsInOrder, InOrder
<1>2. /\ DOMAIN c2d = 1 .. Len(c2d) /\ Len(c2d) \in Nat \ {0} /\ Head(c2d) = c2d[1]
      /\ DOMAIN Tail(c2d) = 1 .. Len(c2d) - 1
      /\ \A i \in 1 .. Len(c2d) - 1 : Tail(c2d)[i] = c2d[i + 1]
  BY <1>1, TailQueue
<1>. SUFFICES ASSUME NEW i \in 1 .. Len(c2d) - 1, OfKey(c2d[i + 1], key) PROVE FALSE
  BY <1>2 DEF Free, Range
<1>. DEFINE n == Len(c2d)
<1>3. n \in Nat \ {0}
  BY <1>2
<1>. HIDE DEF n
<1>4. 1 \in 1 .. n /\ i + 1 \in 1 .. n /\ 1 < i + 1
  BY <1>3 DEF n
<1>5. c2d[i + 1].about = c2d[1].about /\ c2d[i + 1].kind # "part"
  BY <1>1, <1>2, <1>4, QueueShape DEF AllAbout, OfKey, n
<1>6. 1 \in Whole(c2d) /\ i + 1 \in Whole(c2d)
  BY <1>2, <1>4, <1>5 DEF Whole, n
<1>7. Before(c2d[1].about, c2d[1].about) /\ c2d[1].about \in Requests
  BY <1>1, <1>4, <1>5, <1>6 DEF InOrder
<1>. QED  BY <1>7 DEF Before, Requests

\* A request is opened under the channel ch, and its answer is the record g: it
\* is sent, it is cut short, or nothing is sent, and then the channel ends.
ServedAs(ch, g) ==
  LET f == Head(c2d)
  IN  /\ f.kind = "sealed" /\ f.use.key = ch.key
      /\ executed' = Append(executed, f.about)
      /\ ch.send \in Nat /\ ch.receive \in Nat
      /\ g.kind = "sealed" /\ g.use.by = "device" /\ g.use.key = ch.key /\ g.about = f.about
      /\ \A d \in server' : /\ d.key = ch.key
                            /\ d.send = ch.send + 1 /\ d.receive = ch.receive + 1
      /\ \/ d2c' = Append(d2c, g) /\ g.use \in DeviceUses'
         \/ d2c' = Append(d2c, Part) /\ server' = {}
         \/ d2c' = d2c /\ server' = {}
      /\ ClientUses' = ClientUses
      /\ DeviceUses' = DeviceUses \/ DeviceUses' = DeviceUses \cup {g.use}
      /\ rpc'.step # "none" => rpc.step # "none"

LEMMA SecureServed ==
  NonceInv /\ LinkInv /\ ServeSecure => \E ch \in server : \E g : ServedAs(ch, g)
<1>. SUFFICES ASSUME NonceInv, LinkInv, ServeSecure
              PROVE  \E ch \in server : \E g : ServedAs(ch, g)
  OBVIOUS
<1>. DEFINE f == Head(c2d)
            read(ch) == [ch EXCEPT !.receive = Advance(@)]
            next(ch) == [read(ch) EXCEPT !.send = Advance(@)]
<1>1. PICK ch \in server :
        /\ Opens(ch, "client", f) /\ executed' = Append(executed, f.about)
        /\ \/ /\ CanSeal(read(ch)) /\ sealed' = NoteSealed("device", read(ch))
              /\ \/ /\ d2c' = Append(d2c, Record("device", read(ch), f.about))
                    /\ \/ server' = {next(ch)} /\ UNCHANGED rpc
                       \/ Abort
                 \/ d2c' = Append(d2c, Part) /\ Abort
           \/ UNCHANGED <<d2c, sealed>> /\ Abort
  BY DEF ServeSecure, OpensHere, Incoming
<1>2. /\ f.kind = "sealed" /\ f.use.key = ch.key /\ ch.receive # LastCounter
  BY <1>1 DEF Opens
<1>3. /\ ch = [key |-> ch.key, send |-> ch.send, receive |-> ch.receive] /\ ch.send \in Nat
      /\ UsesBefore("device", ch) /\ ch.receive \in Nat
  BY DEF NonceInv, DeviceShape, IsChannel, LinkInv, CountersMeet
<1>. HIDE DEF f
<1>4. PICK r : r = read(ch)
  OBVIOUS
<1>5. r = [key |-> ch.key, send |-> ch.send, receive |-> ch.receive + 1]
  BY <1>2, <1>3, <1>4 DEF Advance
<1>6. PICK n : n = [r EXCEPT !.send = Advance(@)]
  OBVIOUS
<1>7. PICK g : g = Record("device", r, f.about)
  OBVIOUS
<1>8. \/ /\ CanSeal(r) /\ sealed' = NoteSealed("device", r)
         /\ \/ /\ d2c' = Append(d2c, g)
               /\ \/ server' = {n} /\ UNCHANGED rpc
                  \/ Abort
            \/ d2c' = Append(d2c, Part) /\ Abort
      \/ UNCHANGED <<d2c, sealed>> /\ Abort
  BY <1>1, <1>4, <1>6, <1>7
<1>. HIDE DEF read, next
<1>9. r.key = ch.key /\ IsChannel(r) /\ UsesBefore("device", r)
  BY <1>3, <1>5 DEF IsChannel, UsesBefore
<1>10. /\ g.kind = "sealed" /\ g.use = CipherUse("device", r) /\ g.about = f.about
       /\ g.use.by = "device" /\ g.use.key = ch.key
  BY <1>7, <1>9, FrameKinds
<1>11. CanSeal(r) => n.key = ch.key /\ n.send = ch.send + 1 /\ n.receive = ch.receive + 1
  BY <1>3, <1>5, <1>6 DEF CanSeal, Advance
<1>12. Abort => server' = {} /\ rpc'.step = "none"
  BY DEF Abort, ClearAttempt
<1>13. CASE UNCHANGED <<d2c, sealed>> /\ Abort
  BY <1>1, <1>2, <1>3, <1>10, <1>12, <1>13, UsesKept DEF ServedAs, f
<1>14. CASE CanSeal(r) /\ sealed' = NoteSealed("device", r)
  <2>1. sealed'.once = sealed.once \cup {g.use}
    BY <1>9, <1>10, <1>14, SealsOnce DEF NonceInv
  <2>2. ClientUses' = ClientUses /\ DeviceUses' = DeviceUses \cup {g.use}
    BY <1>10, <2>1 DEF ClientUses, DeviceUses
  <2>3. \/ d2c' = Append(d2c, g) /\ ((server' = {n} /\ UNCHANGED rpc) \/ Abort)
        \/ d2c' = Append(d2c, Part) /\ Abort
        \/ d2c' = d2c /\ Abort
    BY <1>8
  <2>4. \A d \in server' : /\ d.key = ch.key
                           /\ d.send = ch.send + 1 /\ d.receive = ch.receive + 1
    BY <1>11, <1>12, <1>14, <2>3
  <2>5. rpc'.step # "none" => rpc.step # "none"
    BY <1>12, <2>3
  <2>. QED
    BY <1>1, <1>2, <1>3, <1>10, <1>12, <2>2, <2>3, <2>4, <2>5 DEF ServedAs, f
<1>. QED  BY <1>8, <1>13, <1>14

\* A request is opened, carried out and answered, or its channel ends.
LEMMA ServeKeepsLink == NonceInv /\ LinkInv /\ ServeSecure => LinkInv'
<1>. SUFFICES ASSUME NonceInv, LinkInv, ServeSecure PROVE LinkInv'
  OBVIOUS
<1>0. PICK f : f = Head(c2d)
  OBVIOUS
<1>1. /\ UNCHANGED <<at, conn, nextRequestId, channel, answered, handshakes>>
      /\ c2d # <<>> /\ c2d' = Tail(c2d)
  BY DEF ServeSecure, client
<1>2. PICK ch \in server : \E g : ServedAs(ch, g)
  BY SecureServed
<1>3. PICK g : ServedAs(ch, g)
  BY <1>2
<1>4. /\ f.kind = "sealed" /\ f.use.key = ch.key
      /\ executed' = Append(executed, f.about)
      /\ g.kind = "sealed" /\ g.use.by = "device" /\ g.use.key = ch.key /\ g.about = f.about
  BY <1>0, <1>3 DEF ServedAs
<1>5. /\ ch.send \in Nat /\ ch.receive \in Nat
      /\ \A d \in server' : /\ d.key = ch.key
                            /\ d.send = ch.send + 1 /\ d.receive = ch.receive + 1
      /\ ClientUses' = ClientUses
      /\ DeviceUses' = DeviceUses \/ DeviceUses' = DeviceUses \cup {g.use}
      /\ rpc'.step # "none" => rpc.step # "none"
  BY <1>3 DEF ServedAs
<1>6. \/ d2c' = Append(d2c, g) /\ g.use \in DeviceUses'
      \/ d2c' = Append(d2c, Part)
      \/ d2c' = d2c
  BY <1>3 DEF ServedAs
<1>7. IsQueue(c2d) /\ IsQueue(d2c)
  BY DEF LinkInv, RequestsInOrder, InOrder, AnswersOwn
<1>8. Range(c2d') \subseteq Range(c2d) /\ f \in Range(c2d)
  BY <1>0, <1>1, <1>7, TailQueue
<1>9. RequestsInOrder' /\ Range(executed') = Range(executed) \cup {f.about}
  BY <1>0, <1>1, <1>4, RequestExecuted DEF LinkInv, RequestsInOrder
<1>10. RequestOwn(f)
  BY <1>4, <1>8 DEF LinkInv, AnswersOwn
<1>11. \A e \in Range(d2c') :
         \/ e \in Range(d2c) \/ e.kind = "part"
         \/ e = g /\ g.use \in DeviceUses'
  <2>1. CASE d2c' = Append(d2c, g) /\ g.use \in DeviceUses'
    <3>1. Range(d2c') = Range(d2c) \cup {g}
      BY <1>7, <2>1, AppendQueue
    <3>. QED  BY <2>1, <3>1
  <2>2. CASE d2c' = Append(d2c, Part)
    <3>1. Range(d2c') = Range(d2c) \cup {Part}
      BY <1>7, <2>2, AppendQueue
    <3>. QED  BY <3>1, FrameKinds
  <2>. QED  BY <1>6, <2>1, <2>2
<1>12. AnswersOwn'
  <2>1. g.use \in DeviceUses' => AnswerOwn(g)'
    <3>1. g.about \in Range(executed') /\ g.about[1] = g.use.key.transcript.nonce[1]
      BY <1>4, <1>9, <1>10 DEF RequestOwn
    <3>. QED  BY <3>1 DEF AnswerOwn
  <2>2. IsQueue(d2c')
    <3>1. \A e : IsQueue(Append(d2c, e))
      BY <1>7, AppendQueue
    <3>. QED  BY <1>6, <1>7, <3>1
  <2>3. \A e \in Range(d2c') : e.kind = "sealed" => e \in Range(d2c) \/ AnswerOwn(e)'
    BY <1>11, <2>1
  <2>. QED
    BY <1>1, <1>5, <1>8, <1>9, <2>2, <2>3, AnswersKept DEF LinkInv
<1>13. FreshKeys'
  BY <1>4, <1>5, <1>10 DEF LinkInv, FreshKeys, RequestOwn
<1>14. OneKeyEach'
  <2>1. \A key : Confirmed(key) => Confirmed(key)'
    BY <1>1, <1>5, ConfirmedKept
  <2>2. \A e \in Range(d2c') : e.kind = "public" => e \in Range(d2c)
    BY <1>4, <1>11
  <2>. QED  BY <1>1, <2>1, <2>2, OneKeyKept DEF LinkInv
<1>15. CountersMeet'
  <2>. SUFFICES ASSUME NEW c \in channel
       PROVE  /\ c.receive \in Nat
              /\ at' # "secure" =>
                   /\ Free(c2d', c.key) /\ Free(d2c', c.key)
                   /\ \A d \in server' : d.key = c.key =>
                        c.send = d.receive /\ c.receive = d.send
              /\ at' = "secure" =>
                   /\ AllAbout(c2d', c.key, This') /\ AtMostOne(d2c', c.key)
                   /\ Free(c2d', c.key) \/ Free(d2c', c.key)
                   /\ \A d \in server' : d.key = c.key =>
                        /\ Free(c2d', c.key) \/ (c.send = d.receive + 1 /\ c.receive = d.send)
                        /\ Free(d2c', c.key) \/ (c.send = d.receive /\ d.send = c.receive + 1)
    BY <1>1, <1>5 DEF CountersMeet
  <2>1. c.receive \in Nat /\ This' = This
    BY <1>1 DEF LinkInv, CountersMeet, This
  <2>2. CASE c.key # ch.key
    <3>1. ~OfKey(g, c.key) /\ ~OfKey(Part, c.key) /\ \A d \in server' : d.key # c.key
      BY <1>4, <1>5, <2>2, FrameKinds DEF OfKey
    <3>2. /\ Free(c2d, c.key) => Free(c2d', c.key)
          /\ \A r : AllAbout(c2d, c.key, r) => AllAbout(c2d', c.key, r)
      BY <1>1, <1>7, LinkKept
    <3>3. d2c' = d2c \/ \E e : ~OfKey(e, c.key) /\ d2c' = Append(d2c, e)
      BY <1>6, <3>1
    <3>4. /\ Free(d2c, c.key) => Free(d2c', c.key)
          /\ AtMostOne(d2c, c.key) => AtMostOne(d2c', c.key)
      BY <1>7, <3>3, LinkKept
    <3>. QED
      BY <1>1, <2>1, <3>1, <3>2, <3>4 DEF LinkInv, CountersMeet
  <2>3. CASE c.key = ch.key
    <3>1. OfKey(f, c.key) /\ ~Free(c2d, c.key)
      BY <1>4, <1>8, <2>3 DEF OfKey, Free
    <3>2. /\ at = "secure" /\ AllAbout(c2d, c.key, This)
          /\ Free(d2c, c.key) /\ AtMostOne(d2c, c.key)
          /\ c.send = ch.receive + 1 /\ c.receive = ch.send
      BY <2>3, <3>1 DEF LinkInv, CountersMeet
    <3>3. f.about = This
      BY <1>8, <3>1, <3>2 DEF AllAbout
    <3>4. Free(c2d', c.key)
      BY <1>0, <1>1, <1>4, <3>2, <3>3, HeadIsOnly DEF LinkInv
    <3>5. AtMostOne(d2c', c.key)
      BY <1>6, <1>7, <3>2, OneIsAtMostOne
    <3>6. AllAbout(c2d', c.key, This)
      BY <3>4 DEF Free, AllAbout
    <3>7. \A d \in server' : c.send = d.receive /\ d.send = c.receive + 1
      BY <1>5, <3>2
    <3>. QED  BY <1>1, <2>1, <3>2, <3>4, <3>5, <3>6, <3>7
  <2>. QED  BY <2>2, <2>3
<1>. QED  BY <1>9, <1>12, <1>13, <1>14, <1>15 DEF LinkInv

\* The last message of the handshake was right, and the device did not commit.
LEMMA NotCommittedKeepsLink == NonceInv /\ LinkInv /\ FinishNotCommitted => LinkInv'
<1>. SUFFICES ASSUME NonceInv, LinkInv, FinishNotCommitted PROVE LinkInv'
  OBVIOUS
<1>1. /\ UNCHANGED <<client, ghosts, handshakes>> /\ server' = {} /\ ClearAttempt
      /\ c2d # <<>> /\ c2d' = Tail(c2d) /\ rpc.step # "none"
  BY DEF FinishNotCommitted, LastStepFits, Abort
<1>2. rpc'.step = "none"
  BY <1>1 DEF ClearAttempt
<1>3. PICK ctx \in context :
        d2c' \in {d2c, Append(d2c, Part),
                  Append(d2c, Public("finish", Incoming.about, 0, {Finished("device", ctx)}))}
  BY DEF FinishNotCommitted
<1>4. Confirmed(Key(ctx))'
  BY <1>1, FinishedIsConfirmed
<1>5. \A tag \in {Finished("device", ctx)} : Confirmed(tag.key)'
  <2>1. Finished("device", ctx).key = Key(ctx)
    BY DEF Finished
  <2>. QED  BY <1>4, <2>1
<1>6. \/ d2c' = d2c
      \/ d2c' = Append(d2c, Part)
      \/ \E method, about, hs, body :
           /\ d2c' = Append(d2c, Public(method, about, hs, body))
           /\ method = "finish" => \A tag \in body : Confirmed(tag.key)'
  BY <1>3, <1>5
<1>. QED  BY <1>1, <1>2, <1>6, DeviceKeepsLink

\* An answer in the clear that is not the last of the handshake.
LEMMA AnswersConfirmNothing ==
  ASSUME NEW method, NEW hs, NEW body, method # "finish", Answers(method, hs, body)
  PROVE  \/ d2c' = d2c
         \/ d2c' = Append(d2c, Part)
         \/ \E m, about, h, b :
              /\ d2c' = Append(d2c, Public(m, about, h, b))
              /\ m = "finish" => \A tag \in b : Confirmed(tag.key)'
BY DEF Answers

LEMMA DeviceStepKeepsLink ==
  NonceInv /\ LinkInv /\ (DeviceStep \/ WindowOpens \/ WindowEnds) => LinkInv'
<1>. SUFFICES ASSUME NonceInv, LinkInv, DeviceStep \/ WindowOpens \/ WindowEnds PROVE LinkInv'
  OBVIOUS
<1>1. CASE ServeFinish \/ FinishNotCommitted \/ ServeSecure
  BY <1>1, FinishKeepsLink, NotCommittedKeepsLink, ServeKeepsLink
<1>2. CASE ServeHello \/ ServePrepare \/ RefusePrepare \/ ServeBegin \/ ServeRoundTwo
           \/ ServeMisfit
  <2>1. /\ UNCHANGED <<client, ghosts, server>> /\ c2d # <<>> /\ c2d' = Tail(c2d)
    BY <1>2 DEF ServeHello, ServePrepare, RefusePrepare, ServeBegin, ServeRoundTwo,
       ServeMisfit, Serves
  <2>2. \/ UNCHANGED handshakes /\ (rpc'.step # "none" => rpc.step # "none")
        \/ handshakes' = handshakes + 1
    BY <1>2 DEF ServeHello, ServePrepare, RefusePrepare, ServeBegin, ServeRoundTwo,
       ServeMisfit, ClearAttempt, ProtocolFailed, FirstStepFits, SecondStepFits
  <2>3. \E method \in {"hello", "prepare", "unavailable", "begin", "round2", "failed"} :
          \E hs, body : Answers(method, hs, body)
    BY <1>2 DEF ServeHello, ServePrepare, RefusePrepare, ServeBegin, ServeRoundTwo, ServeMisfit
  <2>. QED  BY <2>1, <2>2, <2>3, AnswersConfirmNothing, DeviceKeepsLink
<1>3. CASE RefuseSecure \/ ReadPart \/ DropFrame \/ WindowOpens \/ WindowEnds
  <2>1. /\ UNCHANGED <<client, ghosts, handshakes, d2c>> /\ server' \subseteq server
        /\ c2d' = c2d \/ (c2d # <<>> /\ c2d' = Tail(c2d))
        /\ rpc'.step # "none" => rpc.step # "none"
    <3>1. CASE RefuseSecure
      BY <3>1 DEF RefuseSecure, Abort, ClearAttempt
    <3>2. CASE ReadPart \/ DropFrame
      BY <3>2 DEF ReadPart, DropFrame
    <3>3. CASE WindowOpens \/ WindowEnds
      BY <3>3 DEF WindowOpens, WindowEnds
    <3>. QED  BY <1>3, <3>1, <3>2, <3>3
  <2>. QED  BY <2>1, DeviceKeepsLink
<1>4. CASE ServeGarbage
  <2>1. /\ UNCHANGED <<client, ghosts, handshakes, rpc, server>>
        /\ c2d # <<>> /\ c2d' = Tail(c2d)
        /\ \/ d2c' = d2c
           \/ d2c' = Append(d2c, Part)
           \/ d2c' = Append(d2c, Public("failed", <<0, 0>>, 0, {}))
    BY <1>4 DEF ServeGarbage
  <2>. QED  BY <2>1, DeviceKeepsLink
<1>. QED  BY <1>1, <1>2, <1>3, <1>4 DEF DeviceStep

LEMMA LinkRests == LinkInv /\ UNCHANGED linkVars => LinkInv'
<1>. SUFFICES ASSUME LinkInv, UNCHANGED linkVars PROVE LinkInv'
  OBVIOUS
<1>1. UNCHANGED <<at, conn, nextRequestId, channel, rpc, server, handshakes, c2d, d2c, executed,
                  answered, sealed>>
  BY DEF linkVars, client, device, ghosts
<1>2. IsQueue(d2c)
  BY DEF LinkInv, AnswersOwn
<1>3. ClientUses' = ClientUses /\ DeviceUses' = DeviceUses
  BY <1>1, UsesKept
<1>4. RequestsInOrder'
  BY <1>1 DEF LinkInv, RequestsInOrder
<1>5. AnswersOwn'
  BY <1>1, <1>2, <1>3, AnswersKept DEF LinkInv
<1>6. FreshKeys'
  BY <1>1, <1>3, FreshKept DEF LinkInv
<1>7. OneKeyEach'
  BY <1>1 DEF LinkInv, OneKeyEach, Confirmed
<1>8. CountersMeet'
  BY <1>1, CountersKept DEF LinkInv
<1>. QED  BY <1>4, <1>5, <1>6, <1>7, <1>8 DEF LinkInv

----------------------------------------------------------------------------
\* The invariant of the link holds in every reachable state.
THEOREM LinkInductive == LinkSpec => []LinkInv
<1>1. NonceInv /\ LinkInv /\ [LinkNext]_linkVars => LinkInv'
  BY ClientStepKeepsLink, DeviceStepKeepsLink, LinkRests DEF LinkNext
<1>. QED  BY <1>1, LinkStarts, KeysInductive, PTL DEF LinkSpec

\* What was carried out is at one place of the record of it.
LEMMA ExecutedOnce ==
  ASSUME RequestsInOrder, NEW r \in Range(executed)
  PROVE  Times(r) = 1
<1>1. InOrder(c2d, executed, <<conn, nextRequestId>>) /\ IsQueue(executed)
  BY DEF RequestsInOrder, InOrder
<1>2. PICK i \in DOMAIN executed : executed[i] = r
  BY DEF Range
<1>3. \A k \in DOMAIN executed : k \in Nat
  BY <1>1, QueueShape
<1>4. \A j, k \in DOMAIN executed : executed[j] = r /\ executed[k] = r => ~(j < k)
  BY <1>1 DEF InOrder, Before, Requests
<1>5. \A j \in DOMAIN executed : executed[j] = r => j = i
  <2>. SUFFICES ASSUME NEW j \in DOMAIN executed, executed[j] = r PROVE j = i
    OBVIOUS
  <2>1. ~(i < j) /\ ~(j < i) /\ i \in Nat /\ j \in Nat
    BY <1>2, <1>3, <1>4
  <2>. QED  BY <2>1
<1>6. {j \in DOMAIN executed : executed[j] = r} = {i}
  BY <1>2, <1>5
<1>. QED  BY <1>6, FS_Singleton DEF Times

\* What the client accepts (requestSecure) answers the request it sent, which the
\* device (process_secure_request) carried out once; and it carries out the
\* requests of a connection in their order and none of them twice: for any
\* number of them, and across timeouts, reconnections and lost frames.
THEOREM RequestsAnsweredOnce == LinkSpec => []AnsweredOnce
<1>1. LinkInv => AnsweredOnce
  <2>. SUFFICES ASSUME LinkInv PROVE AnsweredOnce
    OBVIOUS
  <2>1. RequestsInOrder /\ InOrder(c2d, executed, <<conn, nextRequestId>>)
    BY DEF LinkInv, RequestsInOrder
  <2>2. \A pair \in answered : pair[1] = pair[2] /\ Times(pair[1]) = 1
    BY <2>1, ExecutedOnce DEF LinkInv, AnswersOwn
  <2>3. \A i, j \in DOMAIN executed : i < j /\ executed[i][1] = executed[j][1]
          => executed[i][2] < executed[j][2]
    BY <2>1 DEF InOrder, Before, Requests
  <2>. QED  BY <2>2, <2>3 DEF AnsweredOnce
<1>. QED  BY <1>1, LinkInductive, PTL

\* Two ends of one handshake hold one key, and when nothing is under way each
\* expects the record the other will seal next (the send and receive counters of
\* aiqa_secure_channel_t and of the browser's session).
THEOREM EndsAgree == LinkSpec => []ChannelsAgree
<1>1. LinkInv => ChannelsAgree
  <2>. SUFFICES ASSUME LinkInv, NEW c \in channel, NEW d \in server
                PROVE  /\ c.key.transcript.hs = d.key.transcript.hs => c.key = d.key
                       /\ c.key = d.key /\ at = "idle" /\ ~InFlight(c)
                             => c.send = d.receive /\ c.receive = d.send
    BY DEF ChannelsAgree
  <2>1. c.key.transcript.hs = d.key.transcript.hs => c.key = d.key
    BY DEF LinkInv, OneKeyEach, Confirmed
  <2>2. c.key = d.key /\ at = "idle" => c.send = d.receive /\ c.receive = d.send
    BY DEF LinkInv, CountersMeet
  <2>. QED  BY <2>1, <2>2
<1>. QED  BY <1>1, LinkInductive, PTL
=============================================================================
