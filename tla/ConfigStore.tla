----------------------------- MODULE ConfigStore -----------------------------
(***************************************************************************)
(* The configuration store: a legacy NVS namespace, two record slots A and *)
(* B, and a metadata namespace holding the head (which slot is active, at  *)
(* which revision) and the factory-reset tombstone.                        *)
(*                                                                         *)
(* One owner (the boot load, then net_task) migrates the legacy record,    *)
(* applies Wi-Fi updates and performs the factory reset; every durable     *)
(* write is one step, the power may fail between any two of them, and each *)
(* write or read-back may report an error.  Preference writers on other    *)
(* tasks share the legacy namespace and the lifecycle lock with the owner. *)
(*                                                                         *)
(* The NVS library is external: a commit reports success and is applied,   *)
(* or reports an error and may be applied, not applied or (TornWrites)     *)
(* leave a fragment of what was being erased or written.                   *)
(***************************************************************************)
EXTENDS Naturals

CONSTANTS Configs,       \* settings-and-secrets values that pass validation
          NoConfig,      \* no settings
          MaxRevision,   \* stands for UINT32_MAX
          MaxFaults,     \* bound on storage errors and mid-operation power cuts
          TornWrites     \* whether an interrupted write may leave a fragment

ASSUME ConfigStoreAssumption ==
  /\ NoConfig \notin Configs
  /\ MaxRevision \in Nat \ {0}
  /\ MaxFaults \in Nat
  /\ TornWrites \in BOOLEAN

VARIABLES
  head,      \* durable: active slot and revision
  reset,     \* durable: the factory-reset tombstone
  ns,        \* durable: content of the legacy namespace's record and of both slots
  pc,        \* where the owner is
  op,        \* what it is doing: "boot", "wifi", "reset" or "none"
  act,       \* the active record it loaded
  job,       \* the management Wi-Fi job that is queued or running
  resetReq,  \* a factory-reset command is queued, ahead of any other command
  ready,     \* CONFIG_READY waits in the state task's queue
  creds,     \* the configuration whose credentials a queued CONNECT command carries
  snap,      \* the runtime's configuration snapshot
  net,       \* the configuration whose Wi-Fi the station is connected with
  result,    \* result of the last job or reset
  saving,    \* a preference writer holds the lifecycle lock
  faults     \* storage errors and mid-operation power cuts so far

durable  == <<head, reset, ns>>
queued   == <<resetReq, ready, creds>>
vars == <<head, reset, ns, pc, op, act, job, resetReq, ready, creds, snap, net, result, saving, faults>>

Slots      == {"A", "B"}
Namespaces == {"LEGACY"} \cup Slots

\* "torn": the layout (or version) key is there but no valid record can be read;
\* "residue": that key is gone and secret bytes remain.
Content == [kind : {"empty", "record", "torn", "residue"},
            rev : 0..MaxRevision, cfg : Configs \cup {NoConfig}]
Blank(k)  == [kind |-> k, rev |-> 0, cfg |-> NoConfig]
Empty     == Blank("empty")
Rec(r, c) == [kind |-> "record", rev |-> r, cfg |-> c]

NoHead   == [slot |-> "NONE", rev |-> 0]
NoRecord == [slot |-> "NONE", rev |-> 0, cfg |-> NoConfig]
Missing  == [rev |-> 0, cfg |-> NoConfig]
NoJob    == [base |-> 0, cfg |-> NoConfig]

\* Where the owner holds the lifecycle lock (aiqa_config_lifecycle_try_lock).
Locked == {"migStage", "migActivate", "migUnstage", "shedLegacy",
           "eraseLEGACY", "eraseA", "eraseB", "eraseMeta",
           "stage", "verify", "trial", "activate", "quarantine",
           "restore", "unstage", "retire"}
Locations == Locked \cup {"off", "idle", "load", "loaded", "loadError", "apply", "tombstone",
                         "rolledBack", "recovery", "committed"}

Results == {"NONE", "OK", "NOT_READY", "BUSY", "REVISION_CONFLICT", "REVISION_EXHAUSTED",
            "WIFI_UNREACHABLE_ROLLED_BACK", "PERSISTENCE_FAILED_ROLLED_BACK",
            "RECOVERY_REQUIRED", "INTERNAL_ERROR", "CONFIG_MISSING", "CONFIG_CORRUPT"}

TypeOK ==
  /\ head \in {NoHead} \cup [slot : Slots, rev : 1..MaxRevision]
  /\ reset \in BOOLEAN
  /\ ns \in [Namespaces -> Content]
  /\ pc \in Locations
  /\ op \in {"none", "boot", "wifi", "reset"}
  /\ act \in {NoRecord} \cup [slot : Namespaces, rev : 1..MaxRevision, cfg : Configs \cup {NoConfig}]
  /\ job \in [base : 0..MaxRevision, cfg : Configs \cup {NoConfig}]
  /\ resetReq \in BOOLEAN
  /\ ready \in BOOLEAN
  /\ creds \in Configs \cup {NoConfig}
  /\ snap \in [rev : 0..MaxRevision, cfg : Configs \cup {NoConfig}]
  /\ net \in Configs \cup {NoConfig}
  /\ result \in Results
  /\ saving \in BOOLEAN
  /\ faults \in 0..MaxFaults

Init ==
  /\ head = NoHead
  /\ reset = FALSE
  \* provisioning flashes a fresh partition with at most a legacy record,
  \* which need not pass validation
  /\ ns \in {[s \in Namespaces |-> IF s = "LEGACY" THEN c ELSE Empty] :
               c \in {Empty, Blank("torn")} \cup {Rec(1, d) : d \in Configs}}
  /\ pc = "off" /\ op = "none" /\ act = NoRecord /\ job = NoJob /\ resetReq = FALSE
  /\ ready = FALSE /\ creds = NoConfig
  /\ snap = Missing /\ net = NoConfig /\ result = "NONE" /\ saving = FALSE /\ faults = 0

----------------------------------------------------------------------------
\* External: the NVS library.

Cost(b) == IF b THEN 1 ELSE 0
Spend(n) == /\ faults + n <= MaxFaults
            /\ faults' = faults + n

\* What erasing c key by key may leave when it is interrupted.
Fragments(c) ==
  IF c.kind = "empty" THEN {}
  ELSE IF c.kind = "residue" THEN {Empty, c}
  ELSE {Empty, Blank("torn"), Blank("residue")}

\* The ways "erase all of old, write new, commit" may end.
WriteOutcomes(old, new) ==
  LET torn == IF ~TornWrites THEN {}
              ELSE Fragments(old) \cup (IF new = Empty THEN {} ELSE {Empty, Blank("torn")})
  IN  {[val |-> new, err |-> FALSE]} \cup [val : {old, new} \cup torn, err : {TRUE}]

----------------------------------------------------------------------------
\* The record operations of the A/B backend.  ok and fail name where the
\* caller continues.

HasMarker(s) == ns[s].kind \in {"record", "torn"}
Holds(r)     == ns[r.slot] = Rec(r.rev, r.cfg)
HeadOf(r)    == IF r.slot = "LEGACY" THEN NoHead ELSE [slot |-> r.slot, rev |-> r.rev]

IsActive(s) == head.slot = s

\* aiqa_config_nvs_stage_record: the outcome is decided by the read-back alone.
StageDecides(o, readable, rec) == readable /\ o.val = rec

StageRecord(r, ok, fail) ==
  \/ /\ IsActive(r.slot)
     /\ pc' = fail
     /\ UNCHANGED <<ns, faults>>
  \/ /\ Spend(1)                                   \* the head cannot be read
     /\ pc' = fail
     /\ UNCHANGED ns
  \/ /\ ~IsActive(r.slot)
     /\ \E o \in WriteOutcomes(ns[r.slot], Rec(r.rev, r.cfg)), readable \in BOOLEAN :
          /\ Spend(Cost(o.err) + Cost(~readable))
          /\ ns' = [ns EXCEPT ![r.slot] = o.val]
          /\ pc' = IF StageDecides(o, readable, Rec(r.rev, r.cfg)) THEN ok ELSE fail

\* aiqa_config_nvs_activate_record: write the head, then classify by read-back.
ValidSuccessor(r) ==
  \/ act.slot = "LEGACY" /\ r.slot = "A" /\ r.rev = 1 /\ act.rev = 1
  \/ act.slot # "LEGACY" /\ r.slot # act.slot /\ act.rev # MaxRevision /\ r.rev = act.rev + 1

TargetValid(r) == Holds(r)

\* A head that cannot be read back is reported as not committed.
MutClassify(readable, committed, ok, not, unknown) ==
  IF readable /\ committed THEN ok ELSE not
Classify(readable, committed, ok, not, unknown) ==
  IF ~readable THEN unknown ELSE IF committed THEN ok ELSE not

ActivateRecord(r, ok, not, unknown) ==
  \/ /\ ~ValidSuccessor(r) \/ ~TargetValid(r) \/ head # HeadOf(act)
     /\ pc' = not
     /\ UNCHANGED <<head, faults>>
  \/ /\ Spend(1)                                   \* the target record cannot be read
     /\ pc' = not
     /\ UNCHANGED head
  \/ /\ ValidSuccessor(r) /\ TargetValid(r)        \* the head cannot be read
     /\ Spend(1)
     /\ pc' = unknown
     /\ UNCHANGED head
  \/ /\ ValidSuccessor(r) /\ TargetValid(r) /\ head = HeadOf(act)
     /\ \E h \in {head, HeadOf(r)}, err \in BOOLEAN, readable \in BOOLEAN :
          /\ ~err => h = HeadOf(r)
          /\ Spend(Cost(err) + Cost(~readable))
          /\ head' = h
          /\ pc' = Classify(readable, h = HeadOf(r), ok, not, unknown)

\* aiqa_config_nvs_discard_record: refuses the active record, and the legacy
\* record as long as no head has replaced it.
MayDiscard(s) == ~IsActive(s) /\ (head = NoHead => s # "LEGACY")

DiscardRecord(s, ok, fail) ==
  \/ /\ ~MayDiscard(s)
     /\ pc' = fail
     /\ UNCHANGED <<ns, faults>>
  \/ /\ Spend(1)                                   \* the head cannot be read
     /\ pc' = fail
     /\ UNCHANGED ns
  \/ /\ MayDiscard(s)
     /\ \E o \in WriteOutcomes(ns[s], Empty), readable \in BOOLEAN :
          /\ Spend(Cost(o.err) + Cost(~readable))
          /\ ns' = [ns EXCEPT ![s] = o.val]
          /\ pc' = IF ~o.err /\ readable THEN ok ELSE fail

----------------------------------------------------------------------------
\* Loading the active record (load_active_record_unlocked) and migrating the
\* legacy record into slot A.

\* The metadata, tombstone included, is erased first.
MutFirstErase == "eraseMeta"
FirstErase == "eraseLEGACY"

\* The tombstone is not looked at.
MutResetIsPending == FALSE
ResetIsPending == reset

Migrated == [slot |-> "A", rev |-> 1, cfg |-> act.cfg]

\* Without a head, a slot that holds anything like a record is an error, never
\* a fallback.
Orphan == \E s \in Slots : HasMarker(s)

\* The record head names, if it is intact.
HeadRecord == [slot |-> head.slot, rev |-> head.rev, cfg |-> ns[head.slot].cfg]

\* The lifecycle lock is busy, a read fails, or what was read is inconsistent.
LoadRejects ==
  /\ pc = "load"
  /\ \/ saving /\ UNCHANGED faults
     \/ Spend(1)
     \/ /\ ~saving /\ ~ResetIsPending
        /\ IF head = NoHead THEN Orphan ELSE ~Holds(HeadRecord)
        /\ UNCHANGED faults
  /\ pc' = "loadError"
  /\ UNCHANGED <<durable, op, act, job, queued, snap, net, result, saving>>

\* What a load that reads everything does next.
LoadActive ==
  /\ pc = "load" /\ ~saving
  /\ \/ /\ ResetIsPending
        /\ pc' = FirstErase /\ act' = NoRecord
     \/ /\ ~ResetIsPending /\ head # NoHead /\ Holds(HeadRecord)
        /\ pc' = "shedLegacy" /\ act' = HeadRecord
     \/ /\ ~ResetIsPending /\ head = NoHead /\ ~Orphan
        /\ \/ /\ ~HasMarker("LEGACY")
              /\ pc' = "loaded" /\ act' = NoRecord
           \/ /\ HasMarker("LEGACY")
              /\ act' = [slot |-> "LEGACY", rev |-> 1, cfg |-> ns["LEGACY"].cfg]
              /\ pc' = IF ns["LEGACY"].kind = "record" THEN "migStage" ELSE "loaded"
  /\ UNCHANGED <<durable, op, job, queued, snap, net, result, saving, faults>>

MigrateStage ==
  /\ pc = "migStage"
  /\ StageRecord(Migrated, "migActivate", "migUnstage")
  /\ UNCHANGED <<head, reset, op, act, job, queued, snap, net, result, saving>>

MigrateActivate ==
  /\ pc = "migActivate"
  /\ ActivateRecord(Migrated, "shedLegacy", "migUnstage", "loadError")
  /\ act' = IF pc' = "shedLegacy" THEN Migrated ELSE act
  /\ UNCHANGED <<reset, ns, op, job, queued, snap, net, result, saving>>

\* The legacy record goes on being served when migration fails cleanly.
MigrateUnstage ==
  /\ pc = "migUnstage"
  /\ DiscardRecord("A", "loaded", "loadError")
  /\ UNCHANGED <<head, reset, op, act, job, queued, snap, net, result, saving>>

\* No load succeeds from a slot before the legacy secrets are gone.
ShedLegacy ==
  /\ pc = "shedLegacy"
  /\ DiscardRecord("LEGACY", "loaded", "loadError")
  /\ UNCHANGED <<head, reset, op, act, job, queued, snap, net, result, saving>>

FinishJob(res) == /\ pc' = "idle" /\ op' = "none" /\ act' = NoRecord
                  /\ job' = NoJob /\ result' = res

LoadSucceeds ==
  /\ pc = "loaded"
  /\ \/ /\ op = "boot"
        /\ pc' = "idle" /\ op' = "none" /\ act' = NoRecord
        /\ snap' = IF act.cfg = NoConfig THEN Missing ELSE [rev |-> act.rev, cfg |-> act.cfg]
        /\ ready' = (act.cfg # NoConfig)
        /\ UNCHANGED <<job, result>>
     \/ /\ op = "wifi"
        /\ IF act = NoRecord THEN FinishJob("NOT_READY")
           ELSE IF act.cfg = NoConfig THEN FinishJob("INTERNAL_ERROR")
           ELSE pc' = "apply" /\ UNCHANGED <<op, act, job, result>>
        /\ UNCHANGED <<snap, ready>>
  /\ UNCHANGED <<durable, resetReq, creds, net, saving, faults>>

LoadFails ==
  /\ pc = "loadError"
  /\ \/ /\ op = "boot"
        /\ pc' = "idle" /\ op' = "none" /\ act' = NoRecord
        /\ UNCHANGED <<job, result>>
     \/ op = "wifi" /\ FinishJob("INTERNAL_ERROR")
  /\ UNCHANGED <<durable, queued, snap, net, saving, faults>>

----------------------------------------------------------------------------
\* A Wi-Fi update (apply_management_wifi_job, aiqa_config_transaction_apply_wifi).

InactiveSlot == IF act.slot = "A" THEN "B" ELSE "A"
Candidate    == [slot |-> InactiveSlot, rev |-> act.rev + 1, cfg |-> job.cfg]

\* The management service admits one operation at a time, against the snapshot.
SubmitJob(c) ==
  /\ pc # "off" /\ job = NoJob /\ snap # Missing
  /\ job' = [base |-> snap.rev, cfg |-> c]
  /\ UNCHANGED <<durable, pc, op, act, queued, snap, net, result, saving, faults>>

TakeJob ==
  /\ pc = "idle" /\ job # NoJob /\ ~resetReq
  /\ pc' = "load" /\ op' = "wifi" /\ result' = "NONE"
  /\ UNCHANGED <<durable, act, job, queued, snap, net, saving, faults>>

\* The result is the one of a clean rollback unless a later step says otherwise.
BeginApply ==
  /\ pc = "apply"
  /\ \/ saving /\ FinishJob("BUSY")
     \/ ~saving /\ job.base # act.rev /\ FinishJob("REVISION_CONFLICT")
     \/ ~saving /\ job.base = act.rev /\ act.rev = MaxRevision /\ FinishJob("REVISION_EXHAUSTED")
     \/ /\ ~saving /\ job.base = act.rev /\ act.rev # MaxRevision
        /\ pc' = "stage" /\ result' = "PERSISTENCE_FAILED_ROLLED_BACK"
        /\ UNCHANGED <<op, act, job>>
  /\ UNCHANGED <<durable, queued, snap, net, saving, faults>>

StageCandidate ==
  /\ pc = "stage"
  /\ StageRecord(Candidate, "verify", "unstage")
  /\ UNCHANGED <<head, reset, op, act, job, queued, snap, net, result, saving>>

VerifyCandidate ==
  /\ pc = "verify"
  /\ \/ pc' = (IF Holds(Candidate) THEN "trial" ELSE "unstage") /\ UNCHANGED faults
     \/ Spend(1) /\ pc' = "unstage"
  /\ UNCHANGED <<durable, op, act, job, queued, snap, net, result, saving>>

TrialConnect ==
  /\ pc = "trial"
  /\ \/ net' = job.cfg /\ pc' = "activate" /\ UNCHANGED result
     \/ net' = NoConfig /\ pc' = "restore" /\ result' = "WIFI_UNREACHABLE_ROLLED_BACK"
  /\ UNCHANGED <<durable, op, act, job, queued, snap, saving, faults>>

ActivateCandidate ==
  /\ pc = "activate"
  /\ ActivateRecord(Candidate, "retire", "restore", "quarantine")
  /\ UNCHANGED <<reset, ns, op, act, job, queued, snap, net, result, saving>>

Quarantine ==
  /\ pc = "quarantine"
  /\ net' = NoConfig /\ pc' = "recovery"
  /\ UNCHANGED <<durable, op, act, job, queued, snap, result, saving, faults>>

\* Reconnecting is reported as done whether or not it was.
MutRestoreConnect ==
  /\ pc = "restore"
  /\ net' \in {act.cfg, NoConfig} /\ pc' = "unstage"
  /\ UNCHANGED <<durable, op, act, job, queued, snap, result, saving, faults>>
RestoreConnect ==
  /\ pc = "restore"
  /\ \/ net' = act.cfg /\ UNCHANGED result
     \/ net' = NoConfig /\ result' = "RECOVERY_REQUIRED"
  /\ pc' = "unstage"
  /\ UNCHANGED <<durable, op, act, job, queued, snap, saving, faults>>

\* A failed stage or trial returns without discarding the candidate.
MutUnstageCandidate ==
  /\ pc = "unstage" /\ pc' = "rolledBack"
  /\ UNCHANGED <<durable, op, act, job, queued, snap, net, result, saving, faults>>
UnstageCandidate ==
  /\ pc = "unstage"
  /\ DiscardRecord(InactiveSlot, "rolledBack", "recovery")
  /\ UNCHANGED <<head, reset, op, act, job, queued, snap, net, result, saving>>

\* The outcome of discarding the retired record is ignored.
MutRetire ==
  /\ pc = "retire"
  /\ DiscardRecord(act.slot, "committed", "committed")
  /\ UNCHANGED <<head, reset, op, act, job, queued, snap, net, result, saving>>
Retire ==
  /\ pc = "retire"
  /\ DiscardRecord(act.slot, "committed", "recovery")
  /\ UNCHANGED <<head, reset, op, act, job, queued, snap, net, result, saving>>

\* The lifecycle lock is released; the result reaches the snapshot and the service.
MutJobRecovers ==
  /\ \/ pc = "recovery"
     \/ pc = "rolledBack" /\ result = "RECOVERY_REQUIRED"
  /\ FinishJob("RECOVERY_REQUIRED")
  /\ UNCHANGED <<durable, queued, snap, net, saving, faults>>
JobRecovers ==
  /\ \/ pc = "recovery"
     \/ pc = "rolledBack" /\ result = "RECOVERY_REQUIRED"
  /\ FinishJob("RECOVERY_REQUIRED")
  /\ snap' = Missing
  /\ UNCHANGED <<durable, queued, net, saving, faults>>

JobRollsBack ==
  /\ pc = "rolledBack" /\ result # "RECOVERY_REQUIRED"
  /\ FinishJob(result)
  /\ UNCHANGED <<durable, queued, snap, net, saving, faults>>

JobCommits ==
  /\ pc = "committed"
  /\ IF snap = Missing
       THEN FinishJob("INTERNAL_ERROR") /\ UNCHANGED snap
       ELSE FinishJob("OK") /\ snap' = [rev |-> Candidate.rev, cfg |-> Candidate.cfg]
  /\ UNCHANGED <<durable, queued, net, saving, faults>>

----------------------------------------------------------------------------
\* Factory reset: the state task queues the command, net_task performs it.

\* Everything waiting in net_task's queue is dropped first.
RequestReset ==
  /\ pc # "off" /\ op # "boot"
  /\ resetReq' = TRUE /\ creds' = NoConfig
  /\ job' = IF op = "wifi" THEN job ELSE NoJob
  /\ UNCHANGED <<durable, pc, op, act, ready, snap, net, result, saving, faults>>

\* The station forgets its credentials (which may fail), the snapshot is cleared.
TakeReset ==
  /\ pc = "idle" /\ resetReq
  /\ resetReq' = FALSE
  /\ snap' = Missing
  /\ op' = "reset" /\ pc' = "tombstone"
  /\ \/ net' = NoConfig /\ result' = "CONFIG_MISSING" /\ UNCHANGED faults
     \/ net' \in {net, NoConfig} /\ result' = "CONFIG_CORRUPT" /\ Spend(1)
  /\ UNCHANGED <<durable, act, job, ready, creds, saving>>

\* The data is erased without recording the decision first.
MutWriteTombstone ==
  /\ pc = "tombstone"
  /\ pc' = IF saving THEN "loadError" ELSE FirstErase
  /\ UNCHANGED <<durable, op, act, job, queued, snap, net, result, saving, faults>>
\* A busy lifecycle lock makes the reset give up.
WriteTombstone ==
  /\ pc = "tombstone"
  /\ \/ saving /\ pc' = "loadError" /\ UNCHANGED <<reset, faults>>
     \/ /\ ~saving
        /\ \E applied \in BOOLEAN, err \in BOOLEAN, readable \in BOOLEAN :
             /\ ~err => applied
             /\ Spend(Cost(err) + Cost(~readable))
             /\ reset' = (reset \/ applied)
             /\ pc' = IF ~err /\ readable THEN FirstErase ELSE "loadError"
  /\ UNCHANGED <<head, ns, op, act, job, queued, snap, net, result, saving>>

ErasePc == [LEGACY |-> "eraseLEGACY", A |-> "eraseA", B |-> "eraseB"]

AfterErase(s) == CASE s = "LEGACY" -> "eraseA" [] s = "A" -> "eraseB" [] s = "B" -> "eraseMeta"

Erase(s) ==
  /\ pc = ErasePc[s]
  /\ \E o \in WriteOutcomes(ns[s], Empty) :
       /\ Spend(Cost(o.err))
       /\ ns' = [ns EXCEPT ![s] = o.val]
       /\ pc' = IF o.err THEN "loadError" ELSE AfterErase(s)
  /\ UNCHANGED <<head, reset, op, act, job, queued, snap, net, result, saving>>

\* An interrupted erasure of the metadata leaves any part of it.
EraseMeta ==
  /\ pc = "eraseMeta"
  /\ \E h \in {head, NoHead}, r \in {reset, FALSE}, err \in BOOLEAN :
       /\ ~err => h = NoHead /\ ~r
       /\ ~TornWrites => <<h, r>> \in {<<head, reset>>, <<NoHead, FALSE>>}
       /\ Spend(Cost(err))
       /\ head' = h /\ reset' = r
       /\ pc' = IF err THEN "loadError" ELSE "loaded"
  /\ UNCHANGED <<ns, op, act, job, queued, snap, net, result, saving>>

EndReset ==
  /\ pc \in {"loaded", "loadError"} /\ op = "reset"
  /\ pc' = "idle" /\ op' = "none"
  /\ result' = IF pc = "loaded" THEN result ELSE "CONFIG_CORRUPT"
  /\ UNCHANGED <<durable, act, job, queued, snap, net, saving, faults>>

----------------------------------------------------------------------------
\* The state task asks for the first connection; preference writers; power.

\* NETWORK_CONNECTING: the credentials are copied out of the snapshot into the command.
PostConnect ==
  /\ ready
  /\ ready' = FALSE
  /\ creds' = snap.cfg
  /\ UNCHANGED <<durable, pc, op, act, job, resetReq, snap, net, result, saving, faults>>

TakeConnect ==
  /\ pc = "idle" /\ creds # NoConfig /\ ~resetReq
  /\ net' \in {creds, NoConfig}
  /\ creds' = NoConfig
  /\ UNCHANGED <<durable, pc, op, act, job, resetReq, ready, snap, result, saving, faults>>

\* Preferences are saved on behalf of an interaction, never during the boot load.
StartSave ==
  /\ pc \notin Locked \cup {"off"} /\ op # "boot" /\ ~saving
  /\ saving' = TRUE
  /\ UNCHANGED <<durable, pc, op, act, job, queued, snap, net, result, faults>>

EndSave ==
  /\ saving
  /\ saving' = FALSE
  /\ UNCHANGED <<durable, pc, op, act, job, queued, snap, net, result, faults>>

PowerOn ==
  /\ pc = "off"
  /\ pc' = "load" /\ op' = "boot"
  /\ UNCHANGED <<durable, act, job, queued, snap, net, result, saving, faults>>

PowerCut ==
  /\ pc # "off"
  /\ Spend(Cost(pc # "idle"))
  /\ pc' = "off" /\ op' = "none" /\ act' = NoRecord /\ job' = NoJob
  /\ resetReq' = FALSE /\ ready' = FALSE /\ creds' = NoConfig
  /\ snap' = Missing /\ net' = NoConfig /\ result' = "NONE" /\ saving' = FALSE
  /\ UNCHANGED durable

Boot == PowerOn \/ LoadRejects \/ LoadActive \/ MigrateStage \/ MigrateActivate
        \/ MigrateUnstage \/ ShedLegacy \/ LoadSucceeds \/ LoadFails
Update == TakeJob \/ BeginApply \/ StageCandidate \/ VerifyCandidate \/ TrialConnect
          \/ ActivateCandidate \/ Quarantine \/ RestoreConnect \/ UnstageCandidate \/ Retire
          \/ JobRecovers \/ JobRollsBack \/ JobCommits
Reset == TakeReset \/ WriteTombstone \/ (\E s \in Namespaces : Erase(s)) \/ EraseMeta \/ EndReset
Owner == Boot \/ Update \/ Reset
Environment == RequestReset \/ PostConnect \/ TakeConnect \/ StartSave \/ EndSave \/ PowerCut
               \/ \E c \in Configs : SubmitJob(c)
Next == Owner \/ Environment

Spec == Init /\ [][Next]_vars

\* The device is switched on again after a cut, and net_task and the state task
\* run; nothing obliges users, saves or power cuts to happen.
FairSpec == Spec /\ WF_vars(Owner) /\ WF_vars(PostConnect)

----------------------------------------------------------------------------
\* Properties.

Idle == op = "none" /\ pc = "idle"

\* What a reader of the flash would call the device's configuration.
Stored ==
  IF reset THEN Missing
  ELSE IF head # NoHead
    THEN IF Holds(HeadRecord) THEN [rev |-> head.rev, cfg |-> HeadRecord.cfg] ELSE Missing
  ELSE IF ns["LEGACY"].kind = "record" THEN [rev |-> 1, cfg |-> ns["LEGACY"].cfg]
  ELSE Missing

Erased == \A s \in Namespaces : ns[s] = Empty

----------------------------------------------------------------------------
\* Why the safety properties hold: parts of the inductive invariant IInv.

Erasing  == {"eraseLEGACY", "eraseA", "eraseB", "eraseMeta"}
Applying == {"stage", "verify", "trial", "activate"}
Ending   == {"quarantine", "restore", "unstage", "retire", "rolledBack", "recovery", "committed"}
Migrating == {"migStage", "migActivate", "migUnstage"}

\* Where the owner is, given what it is doing.
OwnerShape ==
  /\ op = "none" <=> pc \in {"off", "idle"}
  /\ op = "reset" => pc \in {"tombstone", "loaded", "loadError"} \cup Erasing
  /\ pc = "tombstone" => op = "reset"
  /\ pc \in {"apply"} \cup Applying \cup Ending => op = "wifi"
  /\ op = "wifi" => job # NoJob
  /\ job = NoJob \/ job.cfg \in Configs

\* act is kept only while the record it copies is used.
NothingLoaded == op \in {"none", "reset"} \/ pc \in {"load"} \cup Erasing => act = NoRecord

\* From the load to the activation, act is the durable record, and the head
\* names it (or is absent, when it is the legacy record).
ActIsDurable ==
  /\ pc \in {"shedLegacy", "loaded", "apply"} \cup Migrating \cup Applying =>
       head = HeadOf(act) /\ (act.slot \in Slots => Holds(act))
  /\ pc \in Migrating => act.slot = "LEGACY" /\ Holds(act) /\ act.rev = 1 /\ act.cfg \in Configs
  /\ pc = "shedLegacy" => act.slot \in Slots
  /\ pc \in {"apply"} \cup Applying \cup Ending => act.slot \in Namespaces /\ act.cfg \in Configs
  /\ pc \in Applying \cup Ending => act.rev < MaxRevision

\* The legacy namespace is only ever erased.
LegacyShape ==
  ns["LEGACY"] \in {Empty, Blank("torn"), Blank("residue")} \cup {Rec(1, c) : c \in Configs}

\* A reset erases the namespaces in order, under its tombstone.
EraseInOrder ==
  /\ pc \in Erasing => reset
  /\ pc \in Erasing \ {"eraseLEGACY"} => ns["LEGACY"] = Empty
  /\ pc \in {"eraseB", "eraseMeta"} => ns["A"] = Empty
  /\ pc = "eraseMeta" => ns["B"] = Empty

\* The head never names a record that is missing, fragmentary or of another
\* revision, whatever write the power or the flash fails in; the one exception
\* is a factory reset that lost its tombstone before its head, when nothing is
\* left to name.
HeadIntact == head # NoHead /\ ~reset => Holds(HeadRecord) \/ Erased

\* The strengthening that makes TypeOK and HeadIntact inductive: what the owner
\* remembers in act and in its location agrees with the flash.
IInv == TypeOK /\ OwnerShape /\ NothingLoaded /\ ActIsDurable /\ LegacyShape
        /\ EraseInOrder /\ HeadIntact

----------------------------------------------------------------------------

\* The configuration the running device uses is the stored one, at its
\* revision: no update is forgotten at the next boot, none is undone silently.
SnapshotIsStored == Idle /\ snap # Missing => snap = Stored

\* An update that reported OK left exactly one copy of the secrets.
OkLeavesOneCopy == Idle /\ result = "OK" => \A s \in Namespaces \ {head.slot} : ns[s] = Empty

\* An update that reported a rollback left nothing of its candidate, and the
\* record it started from is still the stored one.
RollbackIsClean ==
  Idle /\ result \in {"WIFI_UNREACHABLE_ROLLED_BACK", "PERSISTENCE_FAILED_ROLLED_BACK"} =>
    /\ \A s \in Slots \ {head.slot} : ns[s] = Empty
    /\ Stored # Missing

\* A factory reset that reported success erased every namespace.
ResetErases == Idle /\ result = "CONFIG_MISSING" => Erased /\ head = NoHead /\ ~reset

\* A record is served from a slot only after the legacy secrets are gone.
SlotMeansNoLegacy ==
  act.slot \in Slots /\ pc \notin {"shedLegacy", "loadError"} => ns["LEGACY"] = Empty

\* Replaced and erased secrets are gone from the flash when the result says so.
SecretsAreGone == OkLeavesOneCopy /\ ResetErases /\ SlotMeansNoLegacy

\* "Not committed" is reported only when the previous head is durable
\* (aiqa_config_transaction.h), so that the candidate may be discarded.
NotCommittedIsDurable ==
  [][pc = "activate" /\ pc' = "restore" => head' = head /\ head = HeadOf(act)]_vars

\* A job that reports OK, or a rollback after the trial, leaves the station on
\* the stored configuration's Wi-Fi.
JobSettlesNetwork ==
  [][op = "wifi" /\ op' = "none" /\ result' \in {"OK", "WIFI_UNREACHABLE_ROLLED_BACK"}
       => net' = Stored'.cfg]_vars

\* The flash goes through the states of DeviceConfig only: one step per update,
\* one step for a reset, and nothing removed ever comes back.
Abstract == INSTANCE DeviceConfig WITH stored <- Stored
DeviceConfigSpec == Abstract!Spec

\* A device that goes on being restarted finishes every factory reset whose
\* tombstone is durable.
ResetConverges == ([]<>(pc = "off")) => (reset ~> ~reset)

\* A device that goes on being restarted serves a configuration committed in a
\* slot again, unless it is reset.
CommittedServes ==
  ([]<>(pc = "off")) => ((head # NoHead /\ Stored # Missing) ~> (snap # Missing \/ Stored = Missing))

\* However often the power fails, boots lead to one of the two.
BootsConverge == ResetConverges /\ CommittedServes

\* Code that gives up a migration discards the candidate and retries at the
\* next start (tests/test_config_ab_nvs.py:87).
MigrationRetried ==
  ([]<>(pc = "off")) => (Stored # Missing ~> (snap # Missing \/ Stored = Missing))

\* A factory reset that has been taken up erases the configuration, or leaves
\* the tombstone that makes the next boot erase it (docs/IMPLEMENTATION_PLAN.md:149).
ResetIsRecorded == [][op = "reset" /\ op' = "none" => reset \/ (Erased /\ head = NoHead)]_vars

\* After a factory reset that reported success the station is not connected
\* (docs/IMPLEMENTATION_PLAN.md:149).
ResetLeavesOffline == Idle /\ result = "CONFIG_MISSING" => net = NoConfig
=============================================================================
