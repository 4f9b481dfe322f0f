--------------------------- MODULE WifiOperation ---------------------------
(* The Wi-Fi operation of the management service, aiqa_management_service.c *)
(* with its ports in aiqa_runtime.c.  The owner of the USB link submits an  *)
(* update and reads its status; the network task applies the job and        *)
(* completes the operation; the application task cancels a queued job when  *)
(* the device is reset.  They share one operation, three words behind a     *)
(* sequence counter, and a reservation that keeps it to one update a time.  *)
(* Each atomic access of the source is a step; the accesses are taken to be *)
(* sequentially consistent.                                                 *)
EXTENDS Integers, Sequences

CONSTANTS
  IdWrap,            \* operation identifiers are below it (2^32)
  NetDepth,          \* places in the network queue
  ReadAttempts,      \* tries of copy_latest_operation (64)
  MaxSubmits,        \* bound: updates the owner submits
  MaxReads,          \* bound: statuses the owner reads
  MaxResets          \* bound: factory resets

\* No run of the device comes near 2^32 updates.
ASSUME ServiceAssumption ==
  /\ IdWrap \in Nat /\ MaxSubmits \in Nat /\ MaxSubmits < IdWrap - 1

VARIABLES
  reserved,          \* operation_reserved
  completing,        \* operation_completing
  nextId,            \* next_operation_id
  opSequence,        \* operation_sequence: odd while a task stores
  latest,            \* latest_operation_id, _state, _result: three words
  netQueue,          \* jobs (the operation's id) and other commands (0)
  pc,                \* where each task is
  step,              \* its place in a store or a read, 0..4
  op,                \* the operation it stores, or completes
  before,            \* the sequence it read first
  seen,              \* the words it has read
  tries,             \* reads it has started over
  accepted,          \* the id the last submit answered, 0: it was refused
  status,            \* the last operation a status request answered
  decided,           \* what became of the last job: its id and result
  used               \* how often each bounded call was made

serviceVars == <<reserved, completing, nextId, opSequence, latest, netQueue, pc,
                 step, op, before, seen, tries, accepted, status, decided, used>>

Tasks == {"owner", "net", "app"}
Workers == {"net", "app"}

Operation(i, s, r) == [id |-> i, state |-> s, result |-> r]
NoOperation == Operation(0, "NONE", "OK")
Settled(o) == o.state \in {"SUCCEEDED", "FAILED"}

Goto(t, where) == pc' = [pc EXCEPT ![t] = where]

\* Once the identifiers have wrapped the counter may stand anywhere.
ServiceInit ==
  /\ reserved = FALSE /\ completing = FALSE
  /\ nextId \in {1, IdWrap - 1}
  /\ opSequence = 0 /\ latest = NoOperation /\ netQueue = <<>>
  /\ pc = [t \in Tasks |-> "idle"]
  /\ step = [t \in Tasks |-> 0]
  /\ op = [t \in Tasks |-> NoOperation]
  /\ before = [t \in Tasks |-> 0]
  /\ seen = [t \in Tasks |-> NoOperation]
  /\ tries = [t \in Tasks |-> 0]
  /\ accepted = 0 /\ status = NoOperation
  /\ decided = [id |-> 0, result |-> "OK"]
  /\ used = [submits |-> 0, reads |-> 0, resets |-> 0]

-----------------------------------------------------------------------------
(* The shared operation *)

StoreOrder == <<"id", "result", "state">>
ReadOrder == <<"id", "state", "result">>

\* Where a task goes on once its store is done.
AfterStore(t) ==
  IF t \in Workers THEN "stored"
  ELSE IF op[t].state = "PENDING" THEN "port" ELSE "release"

\* One access of store_operation: the counter, the three words, the counter.
StoreStep(t) ==
  /\ pc[t] = "store"
  /\ IF step[t] \in {0, 4}
     THEN opSequence' = opSequence + 1 /\ UNCHANGED latest
     ELSE /\ LET word == StoreOrder[step[t]]
             IN latest' = [latest EXCEPT ![word] = op[t][word]]
          /\ UNCHANGED opSequence
  /\ step' = [step EXCEPT ![t] = (@ + 1) % 5]
  /\ IF step[t] = 4 THEN Goto(t, AfterStore(t)) ELSE UNCHANGED pc
  /\ UNCHANGED <<reserved, completing, nextId, netQueue, op, before, seen, tries,
                 accepted, status, decided, used>>

\* A read that met a store starts over, a bounded number of times.
Retry(t) ==
  /\ step' = [step EXCEPT ![t] = 0]
  /\ IF tries[t] + 1 < ReadAttempts
     THEN tries' = [tries EXCEPT ![t] = @ + 1] /\ UNCHANGED pc
     ELSE tries' = [tries EXCEPT ![t] = 0] /\ Goto(t, "readFailed")

\* A read that trusted the even counter it began with.
MutUnmoved(t) == opSequence >= before[t]

\* The counter a read ends with: its words are whole if it has not moved.
Unmoved(t) == opSequence = before[t]

ReadStep(t) ==
  /\ pc[t] = "read"
  /\ before' = [before EXCEPT ![t] = IF step[t] = 0 THEN opSequence ELSE @]
  /\ \/ /\ step[t] = 0 /\ opSequence % 2 = 1
        /\ Retry(t) /\ UNCHANGED seen
     \/ /\ step[t] = 0 /\ opSequence % 2 = 0
        /\ step' = [step EXCEPT ![t] = 1]
        /\ UNCHANGED <<seen, tries, pc>>
     \/ /\ step[t] \in 1..3
        /\ LET word == ReadOrder[step[t]]
           IN seen' = [seen EXCEPT ![t][word] = latest[word]]
        /\ step' = [step EXCEPT ![t] = @ + 1]
        /\ UNCHANGED <<tries, pc>>
     \/ /\ step[t] = 4 /\ ~Unmoved(t)
        /\ Retry(t) /\ UNCHANGED seen
     \/ /\ step[t] = 4 /\ Unmoved(t)
        /\ step' = [step EXCEPT ![t] = 0]
        /\ tries' = [tries EXCEPT ![t] = 0]
        /\ Goto(t, "readDone") /\ UNCHANGED seen
  /\ UNCHANGED <<reserved, completing, nextId, opSequence, latest, netQueue, op,
                 accepted, status, decided, used>>

-----------------------------------------------------------------------------
(* The owner: submit_wifi_update and get_status *)

\* An update that passes the access check and update_is_valid; it is refused
\* as BUSY while another is reserved.
Reserve ==
  /\ pc["owner"] = "idle" /\ used.submits < MaxSubmits
  /\ used' = [used EXCEPT !.submits = @ + 1]
  /\ accepted' = IF reserved THEN accepted ELSE 0
  /\ reserved' = TRUE
  /\ IF reserved THEN UNCHANGED pc ELSE Goto("owner", "number")
  /\ UNCHANGED <<completing, nextId, opSequence, latest, netQueue, step, op,
                 before, seen, tries, status, decided>>

\* The identifier 0 is skipped when the counter wraps.
Number ==
  /\ pc["owner"] = "number"
  /\ LET id == IF nextId = 0 THEN 1 ELSE nextId IN
       /\ op' = [op EXCEPT !["owner"] = Operation(id, "PENDING", "OK")]
       /\ nextId' = (id + 1) % IdWrap
  /\ Goto("owner", "store")
  /\ UNCHANGED <<reserved, completing, opSequence, latest, netQueue, step, before,
                 seen, tries, accepted, status, decided, used>>

\* The port: the job is queued, or it is refused (no configuration, another
\* revision, no memory, a full queue) and the operation is withdrawn.
Port ==
  /\ pc["owner"] = "port"
  /\ \/ /\ Len(netQueue) < NetDepth
        /\ netQueue' = Append(netQueue, op["owner"].id)
        /\ accepted' = op["owner"].id
        /\ Goto("owner", "idle") /\ UNCHANGED op
     \/ /\ op' = [op EXCEPT !["owner"] = NoOperation]
        /\ Goto("owner", "store")
        /\ UNCHANGED <<netQueue, accepted>>
  /\ UNCHANGED <<reserved, completing, nextId, opSequence, latest, step, before,
                 seen, tries, status, decided, used>>

Release(t) ==
  /\ pc[t] = "release"
  /\ reserved' = FALSE
  /\ Goto(t, IF t = "app" THEN "drain" ELSE "idle")
  /\ UNCHANGED <<completing, nextId, opSequence, latest, netQueue, step, op, before,
                 seen, tries, accepted, status, decided, used>>

GetStatus ==
  /\ pc["owner"] = "idle" /\ used.reads < MaxReads
  /\ used' = [used EXCEPT !.reads = @ + 1]
  /\ Goto("owner", "read")
  /\ UNCHANGED <<reserved, completing, nextId, opSequence, latest, netQueue, step,
                 op, before, seen, tries, accepted, status, decided>>

\* The status is answered, or BUSY is and the reader learns nothing.
GotStatus ==
  /\ pc["owner"] \in {"readDone", "readFailed"}
  /\ status' = IF pc["owner"] = "readDone" THEN seen["owner"] ELSE status
  /\ Goto("owner", "idle")
  /\ UNCHANGED <<reserved, completing, nextId, opSequence, latest, netQueue, step,
                 op, before, seen, tries, accepted, decided, used>>

-----------------------------------------------------------------------------
(* The network task and the application task: complete_wifi_update *)

\* A worker has decided the outcome of job i.
Decide(t, i, r) ==
  /\ op' = [op EXCEPT ![t] = Operation(
              i, IF r = "OK" THEN "SUCCEEDED" ELSE "FAILED", r)]
  /\ decided' = [id |-> i, result |-> r]
  /\ Goto(t, "complete")

\* net_task takes a command: a job is applied and its result decided.
NetTake ==
  /\ pc["net"] = "idle" /\ netQueue # <<>>
  /\ netQueue' = Tail(netQueue)
  /\ IF Head(netQueue) = 0
     THEN UNCHANGED <<pc, op, decided>>
     ELSE \E r \in {"OK", "ROLLED_BACK"} : Decide("net", Head(netQueue), r)
  /\ UNCHANGED <<reserved, completing, nextId, opSequence, latest, step, before,
                 seen, tries, accepted, status, used>>

\* Claim the completion; a refused attempt is repeated after a tick.  The
\* source gives up after ten, which no attempt of these tasks reaches.
Claim(t) ==
  /\ pc[t] = "complete" /\ reserved /\ ~completing
  /\ completing' = TRUE
  /\ Goto(t, "read")
  /\ UNCHANGED <<reserved, nextId, opSequence, latest, netQueue, step, op, before,
                 seen, tries, accepted, status, decided, used>>

\* Only the operation that is still pending under this id is settled.
Verify(t) ==
  /\ t \in Workers
  /\ pc[t] \in {"readDone", "readFailed"}
  /\ IF /\ pc[t] = "readDone"
        /\ seen[t].state = "PENDING" /\ seen[t].id = op[t].id
     THEN Goto(t, "store") /\ UNCHANGED completing
     ELSE Goto(t, "complete") /\ completing' = FALSE
  /\ UNCHANGED <<reserved, nextId, opSequence, latest, netQueue, step, op, before,
                 seen, tries, accepted, status, decided, used>>

Completed(t) ==
  /\ pc[t] = "stored"
  /\ completing' = FALSE
  /\ Goto(t, "release")
  /\ UNCHANGED <<reserved, nextId, opSequence, latest, netQueue, step, op, before,
                 seen, tries, accepted, status, decided, used>>

\* A factory reset empties the queue and cancels the job it finds there, then
\* queues its own command.  Other commands of the application come the same way.
FactoryReset ==
  /\ pc["app"] = "idle" /\ used.resets < MaxResets
  /\ used' = [used EXCEPT !.resets = @ + 1]
  /\ Goto("app", "drain")
  /\ UNCHANGED <<reserved, completing, nextId, opSequence, latest, netQueue, step,
                 op, before, seen, tries, accepted, status, decided>>

\* A reset that forgot whose job it threw away.
MutDrain ==
  /\ pc["app"] = "drain" /\ netQueue # <<>>
  /\ netQueue' = Tail(netQueue)
  /\ UNCHANGED <<reserved, completing, nextId, opSequence, latest, pc, step, op,
                 before, seen, tries, accepted, status, decided, used>>

Drain ==
  /\ pc["app"] = "drain" /\ netQueue # <<>>
  /\ netQueue' = Tail(netQueue)
  /\ IF Head(netQueue) = 0
     THEN UNCHANGED <<pc, op, decided>>
     ELSE Decide("app", Head(netQueue), "CANCELLED")
  /\ UNCHANGED <<reserved, completing, nextId, opSequence, latest, step, before,
                 seen, tries, accepted, status, used>>

DrainEnd ==
  /\ pc["app"] = "drain" /\ netQueue = <<>>
  /\ Goto("app", "post")
  /\ UNCHANGED <<reserved, completing, nextId, opSequence, latest, netQueue, step,
                 op, before, seen, tries, accepted, status, decided, used>>

\* The owner may have queued another job since the queue was found empty, and
\* may have filled it: the command is lost then, and the fault reported.
PostReset ==
  /\ pc["app"] = "post"
  /\ netQueue' = IF Len(netQueue) < NetDepth THEN Append(netQueue, 0) ELSE netQueue
  /\ Goto("app", "idle")
  /\ UNCHANGED <<reserved, completing, nextId, opSequence, latest, step, op, before,
                 seen, tries, accepted, status, decided, used>>

-----------------------------------------------------------------------------

OwnerStep ==
  \/ Number \/ Port \/ Release("owner") \/ GotStatus
  \/ StoreStep("owner") \/ ReadStep("owner")

WorkerStep(t) ==
  \/ Claim(t) \/ Verify(t) \/ Completed(t) \/ Release(t)
  \/ StoreStep(t) \/ ReadStep(t)

NetStep == NetTake \/ WorkerStep("net")

AppStep == Drain \/ DrainEnd \/ PostReset \/ WorkerStep("app")

ServiceNext ==
  Reserve \/ GetStatus \/ FactoryReset \/ OwnerStep \/ NetStep \/ AppStep

ServiceSpec == ServiceInit /\ [][ServiceNext]_serviceVars

-----------------------------------------------------------------------------

\* A status request answers the words of one store, never of two, and they say
\* what became of the update the owner was last told of: it is that update's,
\* it carries the result its job ended with, and once it was reported settled it
\* never reads as pending again.
StatusIsTrue == [][
    status' # status =>
      /\ status'.id = accepted
      /\ (status'.state = "NONE") <=> (accepted = 0)
      /\ ~Settled(status') => status'.result = "OK"
      /\ Settled(status') =>
           /\ decided = [id |-> status'.id, result |-> status'.result]
           /\ (status'.state = "SUCCEEDED") <=> (status'.result = "OK")
      /\ ~(Settled(status) /\ status'.id = status.id)
  ]_serviceVars

\* No reservation is kept for ever: the update that took it is settled, by the
\* network task or by a factory reset that finds it in the queue, or withdrawn.
ReservationEnds == reserved ~> ~reserved
=============================================================================
