------------------------- MODULE ConfigStoreProofs -------------------------
(***************************************************************************)
(* IInv is an inductive invariant of ConfigStore, for every set of         *)
(* configurations, every largest revision and every number of faults; so   *)
(* TypeOK and HeadIntact are invariants of it, and it implements           *)
(* DeviceConfig.  RInv, which the last part of the module is about, is     *)
(* inductive too: what ConfigStore reports is true.                        *)
(***************************************************************************)
EXTENDS ConfigStore, TLAPS

USE ConfigStoreAssumption

\* The contents named in the code are contents.
LEMMA ContentType ==
  /\ Empty \in Content /\ Blank("torn") \in Content /\ Blank("residue") \in Content
  /\ \A r \in 0..MaxRevision, c \in Configs \cup {NoConfig} : Rec(r, c) \in Content
BY DEF Content, Empty, Blank, Rec

\* What a write leaves: the new content, the old one, or a fragment.
LEMMA WriteOutcomesShape ==
  ASSUME NEW old, NEW new, NEW o \in WriteOutcomes(old, new)
  PROVE  /\ o.err \in BOOLEAN
         /\ o.val \in {old, new, Empty, Blank("torn"), Blank("residue")}
<1>1. CASE o = [val |-> new, err |-> FALSE]
  BY <1>1
<1>2. CASE o # [val |-> new, err |-> FALSE]
  <2>. DEFINE torn == IF ~TornWrites THEN {}
                      ELSE Fragments(old) \cup (IF new = Empty THEN {} ELSE {Empty, Blank("torn")})
  <2>1. torn \subseteq {old, Empty, Blank("torn"), Blank("residue")}
    BY DEF Fragments
  <2>2. o \in [val : {old, new} \cup torn, err : {TRUE}]
    BY <1>2 DEF WriteOutcomes
  <2>. QED  BY <2>1, <2>2
<1>. QED  BY <1>1, <1>2

\* Writing one content over another leaves a content.
LEMMA WriteOutcomesType ==
  ASSUME NEW old \in Content, NEW new \in Content, NEW o \in WriteOutcomes(old, new)
  PROVE  o.val \in Content /\ o.err \in BOOLEAN
BY ContentType, WriteOutcomesShape

\* Erasing nothing leaves nothing.
LEMMA EraseEmpty ==
  ASSUME NEW o \in WriteOutcomes(Empty, Empty)
  PROVE  o.val = Empty
<1>1. Fragments(Empty) = {}
  BY DEF Fragments, Empty, Blank
<1>2. WriteOutcomes(Empty, Empty) =
        {[val |-> Empty, err |-> FALSE]} \cup [val : {Empty}, err : {TRUE}]
  BY <1>1 DEF WriteOutcomes
<1>3. CASE o = [val |-> Empty, err |-> FALSE]
  BY <1>3
<1>4. CASE o \in [val : {Empty}, err : {TRUE}]
  BY <1>4
<1>. QED  BY <1>2, <1>3, <1>4

\* A write that reports no error is done.
LEMMA WriteSucceeds ==
  ASSUME NEW old, NEW new, NEW o \in WriteOutcomes(old, new), ~o.err
  PROVE  o.val = new
<1>1. CASE o = [val |-> new, err |-> FALSE]
  BY <1>1
<1>2. CASE o # [val |-> new, err |-> FALSE]
  BY <1>2 DEF WriteOutcomes
<1>. QED  BY <1>1, <1>2

\* The initial states satisfy the inductive invariant.
LEMMA InitIInv == Init => IInv
<1>. SUFFICES ASSUME Init PROVE IInv
  OBVIOUS
<1>1. ns \in [Namespaces -> Content]
  <2>1. 1 \in 0..MaxRevision
    OBVIOUS
  <2>2. PICK c \in {Empty, Blank("torn")} \cup {Rec(1, d) : d \in Configs} :
          ns = [s \in Namespaces |-> IF s = "LEGACY" THEN c ELSE Empty]
    BY DEF Init
  <2>3. c \in Content
    BY <2>1, <2>2, ContentType
  <2>. QED  BY <2>2, <2>3, ContentType
<1>2. TypeOK
  <2>1. /\ 0 \in 0..MaxRevision /\ 0 \in 0..MaxFaults
        /\ NoJob \in [base : 0..MaxRevision, cfg : Configs \cup {NoConfig}]
        /\ Missing \in [rev : 0..MaxRevision, cfg : Configs \cup {NoConfig}]
    BY DEF NoJob, Missing
  <2>2. "off" \in Locations /\ "NONE" \in Results
    BY DEF Locations, Results
  <2>. QED  BY <1>1, <2>1, <2>2 DEF Init, TypeOK
<1>3. OwnerShape /\ NothingLoaded /\ ActIsDurable /\ LegacyShape /\ EraseInOrder /\ HeadIntact
  BY DEF Init, LegacyShape, Namespaces, OwnerShape, NothingLoaded, ActIsDurable, EraseInOrder, HeadIntact, Erasing,
         Applying, Ending, Migrating
<1>. QED  BY <1>2, <1>3 DEF IInv

----------------------------------------------------------------------------
\* What the record operations do to the flash, whatever they report.

\* The number of faults stays within its bound.
LEMMA SpendType ==
  ASSUME TypeOK, NEW STATE n, n \in Nat, Spend(n)
  PROVE  faults' \in 0..MaxFaults
BY DEF TypeOK, Spend

\* A fault costs a natural number.
LEMMA CostType == \A a, b : Cost(a) \in Nat /\ Cost(a) + Cost(b) \in Nat
<1>1. \A a : Cost(a) \in {0, 1}
  BY DEF Cost
<1>. QED  BY <1>1

\* Staging writes the named slot only, and never the active one.
LEMMA StageEffect ==
  ASSUME TypeOK, NEW STATE r, r \in [slot : Slots, rev : 0..MaxRevision, cfg : Configs \cup {NoConfig}],
         NEW ok, NEW fail, StageRecord(r, ok, fail)
  PROVE  /\ ns' \in [Namespaces -> Content]
         /\ faults' \in 0..MaxFaults
         /\ pc' \in {ok, fail}
         /\ \A s \in Namespaces : s # r.slot => ns'[s] = ns[s]
         /\ head.slot = r.slot => ns' = ns
<1>1. CASE IsActive(r.slot) /\ pc' = fail /\ UNCHANGED <<ns, faults>>
  BY <1>1 DEF TypeOK
<1>2. CASE Spend(1) /\ pc' = fail /\ UNCHANGED ns
  BY <1>2, SpendType DEF TypeOK
<1>3. ASSUME ~IsActive(r.slot),
             NEW o \in WriteOutcomes(ns[r.slot], Rec(r.rev, r.cfg)), NEW readable \in BOOLEAN,
             Spend(Cost(o.err) + Cost(~readable)),
             ns' = [ns EXCEPT ![r.slot] = o.val],
             pc' \in {ok, fail}
      PROVE  /\ ns' \in [Namespaces -> Content]
             /\ faults' \in 0..MaxFaults
             /\ \A s \in Namespaces : s # r.slot => ns'[s] = ns[s]
             /\ head.slot # r.slot
  <2>1. r.slot \in Namespaces /\ ns[r.slot] \in Content /\ Rec(r.rev, r.cfg) \in Content
    BY ContentType DEF TypeOK, Namespaces
  <2>2. o.val \in Content /\ o.err \in BOOLEAN
    BY <2>1, WriteOutcomesType, <1>3
  <2>3. faults' \in 0..MaxFaults
    BY <1>3, SpendType, CostType
  <2>. QED  BY <2>1, <2>2, <2>3, <1>3 DEF TypeOK, IsActive
<1>. QED  BY <1>1, <1>2, <1>3 DEF StageRecord

\* Discarding touches the named place only, never the active slot, and not the
\* legacy record while no head exists.
LEMMA DiscardEffect ==
  ASSUME TypeOK, NEW STATE s, s \in Namespaces,
         NEW ok, NEW fail, DiscardRecord(s, ok, fail)
  PROVE  /\ ns' \in [Namespaces -> Content]
         /\ faults' \in 0..MaxFaults
         /\ pc' \in {ok, fail}
         /\ ns'["LEGACY"] \in {ns["LEGACY"], Empty, Blank("torn"), Blank("residue")}
         /\ \A t \in Namespaces : t # s \/ ns[t] = Empty => ns'[t] = ns[t]
         /\ head.slot = s \/ (head = NoHead /\ s = "LEGACY") => ns' = ns
<1>1. CASE ~MayDiscard(s) /\ pc' = fail /\ UNCHANGED <<ns, faults>>
  BY <1>1 DEF TypeOK
<1>2. CASE Spend(1) /\ pc' = fail /\ UNCHANGED ns
  BY <1>2, SpendType DEF TypeOK
<1>3. ASSUME MayDiscard(s),
             NEW o \in WriteOutcomes(ns[s], Empty), NEW readable \in BOOLEAN,
             Spend(Cost(o.err) + Cost(~readable)),
             ns' = [ns EXCEPT ![s] = o.val],
             pc' \in {ok, fail}
      PROVE  /\ ns' \in [Namespaces -> Content]
             /\ faults' \in 0..MaxFaults
             /\ ns'["LEGACY"] \in {ns["LEGACY"], Empty, Blank("torn"), Blank("residue")}
             /\ \A t \in Namespaces : t # s \/ ns[t] = Empty => ns'[t] = ns[t]
             /\ head.slot # s /\ ~(head = NoHead /\ s = "LEGACY")
  <2>1. ns[s] \in Content /\ Empty \in Content
    BY ContentType DEF TypeOK
  <2>2. o.val \in Content
    BY <2>1, WriteOutcomesType, <1>3
  <2>3. faults' \in 0..MaxFaults
    BY <1>3, SpendType, CostType
  <2>4. ns[s] = Empty => o.val = Empty
    BY <1>3, EraseEmpty
  <2>5. head.slot # s /\ ~(head = NoHead /\ s = "LEGACY")
    BY <1>3 DEF MayDiscard, IsActive
  <2>6. ns'["LEGACY"] \in {ns["LEGACY"], Empty, Blank("torn"), Blank("residue")}
    BY <1>3, WriteOutcomesShape DEF TypeOK, Namespaces
  <2>. QED  BY <2>1, <2>2, <2>3, <2>4, <2>5, <2>6, <1>3 DEF TypeOK
<1>. QED  BY <1>1, <1>2, <1>3 DEF DiscardRecord

\* Activation moves the head to a record that is durable there, from the head it
\* expects, and says "not committed" only of an unchanged head.
LEMMA ActivateEffect ==
  ASSUME TypeOK, NEW STATE r, r \in [slot : Slots, rev : 0..MaxRevision, cfg : Configs \cup {NoConfig}],
         NEW ok, NEW not, NEW unknown, ok # not, not # unknown, ok # unknown,
         ActivateRecord(r, ok, not, unknown)
  PROVE  /\ head' \in {head, HeadOf(r)}
         /\ head' # head => Holds(r) /\ head = HeadOf(act) /\ ValidSuccessor(r)
         /\ faults' \in 0..MaxFaults
         /\ pc' \in {ok, not, unknown}
         /\ pc' = ok => Holds(r) /\ head' = HeadOf(r) /\ ValidSuccessor(r)
         /\ pc' = not => head' = head
<1>1. CASE pc' = not /\ UNCHANGED <<head, faults>>
  BY <1>1 DEF TypeOK
<1>2. CASE pc' \in {not, unknown} /\ UNCHANGED head /\ Spend(1)
  BY <1>2, SpendType
<1>3. ASSUME ValidSuccessor(r), TargetValid(r), head = HeadOf(act),
             NEW h \in {head, HeadOf(r)}, NEW err \in BOOLEAN, NEW readable \in BOOLEAN,
             Spend(Cost(err) + Cost(~readable)),
             head' = h, pc' = Classify(readable, h = HeadOf(r), ok, not, unknown)
      PROVE  /\ faults' \in 0..MaxFaults
             /\ pc' \in {ok, not, unknown}
             /\ pc' = ok => head' = HeadOf(r)
             /\ pc' = not => head' = head
             /\ Holds(r)
  <2>1. faults' \in 0..MaxFaults
    BY <1>3, SpendType, CostType
  <2>2. CASE ~readable
    BY <2>1, <2>2, <1>3 DEF Classify, TargetValid
  <2>3. CASE readable /\ h = HeadOf(r)
    BY <2>1, <2>3, <1>3 DEF Classify, TargetValid
  <2>4. CASE readable /\ h # HeadOf(r)
    BY <2>1, <2>4, <1>3 DEF Classify, TargetValid
  <2>. QED  BY <2>2, <2>3, <2>4, <1>3
<1>. QED  BY <1>1, <1>2, <1>3 DEF ActivateRecord

----------------------------------------------------------------------------
\* Steps that leave the flash alone.

\* Without a write, what IInv says of the flash stays true.
LEMMA FlashKept ==
  ASSUME IInv, UNCHANGED durable
  PROVE  /\ HeadIntact' /\ LegacyShape'
         /\ head' \in {NoHead} \cup [slot : Slots, rev : 1..MaxRevision]
         /\ reset' \in BOOLEAN
         /\ ns' \in [Namespaces -> Content]
BY DEF IInv, TypeOK, LegacyShape, HeadIntact, durable, HeadRecord, Holds, Erased, NoHead

\* Steps that neither write nor move the owner.
LEMMA OwnerKept ==
  ASSUME IInv, UNCHANGED <<durable, pc, op, act>>,
         job' = NoJob \/ job'.cfg \in Configs, op = "wifi" => job' # NoJob
  PROVE  OwnerShape' /\ NothingLoaded' /\ ActIsDurable' /\ EraseInOrder'
<1>1. OwnerShape' /\ NothingLoaded'
  BY DEF IInv, OwnerShape, NothingLoaded
<1>2. ActIsDurable'
  BY DEF IInv, ActIsDurable, durable, Holds
<1>3. EraseInOrder'
  BY DEF IInv, EraseInOrder, durable
<1>. QED  BY <1>1, <1>2, <1>3

\* Callers, the state task and preference writers do not disturb the owner.
LEMMA BystanderStep == IInv /\ (RequestReset \/ PostConnect \/ TakeConnect \/ StartSave \/ EndSave
                                \/ \E c \in Configs : SubmitJob(c)) => IInv'
<1>. SUFFICES ASSUME IInv,
                     RequestReset \/ PostConnect \/ TakeConnect \/ StartSave \/ EndSave
                     \/ \E c \in Configs : SubmitJob(c)
              PROVE  IInv'
  OBVIOUS
<1>1. UNCHANGED <<durable, pc, op, act>>
  BY DEF RequestReset, PostConnect, TakeConnect, StartSave, EndSave, SubmitJob
<1>2. (job' = NoJob \/ job'.cfg \in Configs) /\ (op = "wifi" => job' # NoJob)
  BY DEF IInv, OwnerShape, RequestReset, PostConnect, TakeConnect, StartSave, EndSave, SubmitJob, NoJob
<1>3. TypeOK'
  <2>1. CASE RequestReset
    BY <1>1, <2>1, FlashKept DEF IInv, TypeOK, RequestReset, durable, NoJob
  <2>2. CASE PostConnect \/ TakeConnect
    BY <1>1, <2>2, FlashKept DEF IInv, TypeOK, PostConnect, TakeConnect, durable
  <2>3. CASE StartSave \/ EndSave
    BY <1>1, <2>3, FlashKept DEF IInv, TypeOK, StartSave, EndSave, durable, queued
  <2>4. ASSUME NEW c \in Configs, SubmitJob(c) PROVE TypeOK'
    BY <1>1, <2>4, FlashKept DEF IInv, TypeOK, SubmitJob, durable, queued
  <2>. QED  BY <2>1, <2>2, <2>3, <2>4
<1>. QED  BY <1>1, <1>2, <1>3, OwnerKept, FlashKept DEF IInv

\* A load that rejects what it read leaves the flash and act alone.
LEMMA LoadRejectsStep == IInv /\ LoadRejects => IInv'
<1>. SUFFICES ASSUME IInv, LoadRejects PROVE IInv'
  OBVIOUS
<1>1. UNCHANGED durable
  BY DEF LoadRejects, durable
<1>2. TypeOK'
  BY <1>1, FlashKept DEF IInv, TypeOK, LoadRejects, queued, Locations, Locked, Spend
<1>3. OwnerShape'
  BY DEF IInv, TypeOK, OwnerShape, Erasing, Applying, Ending, LoadRejects
<1>4. NothingLoaded'
  BY DEF IInv, OwnerShape, NothingLoaded, Erasing, Applying, Ending, LoadRejects
<1>5. ActIsDurable'
  BY <1>1 DEF IInv, TypeOK, ActIsDurable, Applying, Ending, Migrating, HeadOf, Holds, LoadRejects
<1>6. EraseInOrder'
  BY <1>1 DEF IInv, EraseInOrder, Erasing, LoadRejects
<1>. QED  BY <1>1, <1>2, <1>3, <1>4, <1>5, <1>6, FlashKept DEF IInv

\* A load leaves act equal to the record the head names, or to the legacy
\* record when there is no head, or goes to the erasure of a pending reset.
LEMMA LoadActiveStep == IInv /\ LoadActive => IInv'
<1>. SUFFICES ASSUME IInv, LoadActive PROVE IInv'
  OBVIOUS
<1>1. UNCHANGED <<durable, op, job, queued, snap, net, result, saving, faults>>
  BY DEF LoadActive
<1>2. pc = "load" /\ op \in {"boot", "wifi"}
  BY DEF LoadActive, IInv, TypeOK, OwnerShape, Erasing
<1>3. SUFFICES
        /\ pc' \in {"eraseLEGACY", "shedLegacy", "loaded", "migStage"}
        /\ act' \in {NoRecord} \cup [slot : Namespaces, rev : 1..MaxRevision, cfg : Configs \cup {NoConfig}]
        /\ pc' = "eraseLEGACY" => reset /\ act' = NoRecord
        /\ pc' # "eraseLEGACY" => head = HeadOf(act')
        /\ act'.slot \in Slots => ns[act'.slot] = Rec(act'.rev, act'.cfg)
        /\ pc' = "migStage" => /\ act'.slot = "LEGACY" /\ act'.rev = 1 /\ act'.cfg \in Configs
                               /\ ns["LEGACY"] = Rec(1, act'.cfg)
        /\ pc' = "shedLegacy" => act'.slot \in Slots
  <2>1. TypeOK'
    BY <1>1, <1>3, FlashKept DEF IInv, TypeOK, queued, durable, Locations, Locked
  <2>2. OwnerShape'
    BY <1>1, <1>2, <1>3 DEF IInv, OwnerShape, Erasing, Applying, Ending
  <2>3. NothingLoaded'
    BY <1>1, <1>2, <1>3 DEF NothingLoaded, Erasing
  <2>4. ActIsDurable'
    BY <1>1, <1>3 DEF ActIsDurable, durable, Holds, HeadOf, Applying, Ending, Migrating
  <2>5. EraseInOrder'
    BY <1>1, <1>3 DEF EraseInOrder, Erasing, durable
  <2>. QED  BY <1>1, <2>1, <2>2, <2>3, <2>4, <2>5, FlashKept DEF IInv
<1>4. CASE pc' = FirstErase /\ act' = NoRecord /\ ResetIsPending
  BY <1>4 DEF FirstErase, ResetIsPending, NoRecord, Slots
<1>5. CASE head # NoHead /\ Holds(HeadRecord) /\ pc' = "shedLegacy" /\ act' = HeadRecord
  <2>1. head.slot \in Slots /\ head.rev \in 1..MaxRevision
        /\ head = [slot |-> head.slot, rev |-> head.rev]
    BY <1>5 DEF IInv, TypeOK
  <2>2. ns[head.slot] \in Content
    BY <2>1 DEF IInv, TypeOK, Namespaces
  <2>. QED  BY <1>5, <2>1, <2>2 DEF HeadRecord, Holds, HeadOf, Content, Namespaces, Slots
<1>6. CASE head = NoHead /\ pc' = "loaded" /\ act' = NoRecord
  BY <1>6 DEF NoHead, NoRecord, HeadOf, Slots
<1>7. CASE /\ head = NoHead
           /\ act' = [slot |-> "LEGACY", rev |-> 1, cfg |-> ns["LEGACY"].cfg]
           /\ pc' = IF ns["LEGACY"].kind = "record" THEN "migStage" ELSE "loaded"
  <2>1. CASE ns["LEGACY"].kind = "record"
    <3>1. PICK c \in Configs : ns["LEGACY"] = Rec(1, c)
      BY <2>1 DEF IInv, LegacyShape, Empty, Blank
    <3>. QED  BY <1>7, <2>1, <3>1 DEF HeadOf, Namespaces, Slots, Rec
  <2>2. CASE ns["LEGACY"].kind # "record"
    <3>1. ns["LEGACY"].cfg = NoConfig
      BY <2>2 DEF IInv, LegacyShape, Empty, Blank, Rec
    <3>. QED  BY <1>7, <2>2, <3>1 DEF HeadOf, Namespaces, Slots
  <2>. QED  BY <2>1, <2>2
<1>. QED  BY <1>4, <1>5, <1>6, <1>7 DEF LoadActive

\* A load that succeeded hands act to the update, or drops it after booting.
LEMMA LoadSucceedsStep == IInv /\ LoadSucceeds => IInv'
<1>. SUFFICES ASSUME IInv, LoadSucceeds PROVE IInv'
  OBVIOUS
<1>1. UNCHANGED durable
  BY DEF LoadSucceeds, durable
<1>2. TypeOK'
  <2>1. snap' \in [rev : 0..MaxRevision, cfg : Configs \cup {NoConfig}]
    BY DEF IInv, TypeOK, LoadSucceeds, NoRecord, Missing
  <2>2. act' \in {NoRecord, act} /\ job' \in {NoJob, job} /\ op' \in {"none", op}
        /\ pc' \in {"idle", "apply"} /\ ready' \in BOOLEAN
        /\ result' \in {result, "NOT_READY", "INTERNAL_ERROR"}
    BY DEF IInv, TypeOK, LoadSucceeds, FinishJob
  <2>. QED  BY <1>1, <2>1, <2>2, FlashKept DEF IInv, TypeOK, LoadSucceeds, NoJob, Locations, Results
<1>3. OwnerShape'
  BY DEF IInv, TypeOK, OwnerShape, Erasing, Applying, Ending, LoadSucceeds, FinishJob, NoJob
<1>4. NothingLoaded'
  BY DEF IInv, OwnerShape, NothingLoaded, Erasing, Applying, Ending, LoadSucceeds, FinishJob,
         NoRecord
<1>5. ActIsDurable'
  BY <1>1 DEF IInv, TypeOK, ActIsDurable, Applying, Ending, Migrating, HeadOf, Holds, durable,
              LoadSucceeds,
              FinishJob, NoRecord
<1>6. EraseInOrder'
  BY <1>1 DEF IInv, EraseInOrder, Erasing, LoadSucceeds, FinishJob
<1>. QED  BY <1>1, <1>2, <1>3, <1>4, <1>5, <1>6, FlashKept DEF IInv

\* A load that failed drops act.
LEMMA LoadFailsStep == IInv /\ LoadFails => IInv'
<1>. SUFFICES ASSUME IInv, LoadFails PROVE IInv'
  OBVIOUS
<1>1. UNCHANGED durable
  BY DEF LoadFails, durable
<1>2. TypeOK'
  BY <1>1, FlashKept DEF IInv, TypeOK, LoadFails, FinishJob, NoRecord, NoJob, queued, Locations,
                         Locked, Results
<1>3. OwnerShape'
  BY DEF IInv, TypeOK, OwnerShape, Erasing, Applying, Ending, LoadFails, FinishJob, NoJob
<1>4. NothingLoaded'
  BY DEF IInv, OwnerShape, NothingLoaded, Erasing, Applying, Ending, LoadFails, FinishJob, NoRecord
<1>5. ActIsDurable'
  BY <1>1 DEF IInv, TypeOK, ActIsDurable, Applying, Ending, Migrating, HeadOf, Holds, LoadFails,
              FinishJob, NoRecord
<1>6. EraseInOrder'
  BY <1>1 DEF IInv, EraseInOrder, Erasing, LoadFails, FinishJob
<1>. QED  BY <1>1, <1>2, <1>3, <1>4, <1>5, <1>6, FlashKept DEF IInv

\* Taking a job starts a load with nothing loaded.
LEMMA TakeJobStep == IInv /\ TakeJob => IInv'
<1>. SUFFICES ASSUME IInv, TakeJob PROVE IInv'
  OBVIOUS
<1>1. UNCHANGED durable
  BY DEF TakeJob, durable
<1>2. TypeOK'
  BY <1>1, FlashKept DEF IInv, TypeOK, TakeJob, NoJob, queued, Locations, Locked, Results
<1>3. OwnerShape'
  BY DEF IInv, TypeOK, OwnerShape, Erasing, Applying, Ending, TakeJob, NoJob
<1>4. NothingLoaded'
  BY DEF IInv, OwnerShape, NothingLoaded, Erasing, Applying, Ending, TakeJob
<1>5. ActIsDurable'
  BY <1>1 DEF IInv, TypeOK, ActIsDurable, Applying, Ending, Migrating, HeadOf, Holds, TakeJob
<1>6. EraseInOrder'
  BY <1>1 DEF IInv, EraseInOrder, Erasing, TakeJob
<1>. QED  BY <1>1, <1>2, <1>3, <1>4, <1>5, <1>6, FlashKept DEF IInv

\* An update starts only from a record that has a successor revision.
LEMMA BeginApplyStep == IInv /\ BeginApply => IInv'
<1>. SUFFICES ASSUME IInv, BeginApply PROVE IInv'
  OBVIOUS
<1>1. UNCHANGED durable
  BY DEF BeginApply, durable
<1>2. TypeOK'
  BY <1>1, FlashKept DEF IInv, TypeOK, BeginApply, FinishJob, NoRecord, NoJob, queued, Locations,
                         Locked, Results
<1>3. OwnerShape'
  BY DEF IInv, TypeOK, OwnerShape, Erasing, Applying, Ending, BeginApply, FinishJob, NoJob
<1>4. NothingLoaded'
  BY DEF IInv, OwnerShape, NothingLoaded, Erasing, Applying, Ending, BeginApply, FinishJob, NoRecord
<1>5. ActIsDurable'
  BY <1>1 DEF IInv, TypeOK, ActIsDurable, Applying, Ending, Migrating, HeadOf, Holds, durable,
              BeginApply,
              FinishJob, NoRecord
<1>6. EraseInOrder'
  BY <1>1 DEF IInv, EraseInOrder, Erasing, BeginApply, FinishJob
<1>. QED  BY <1>1, <1>2, <1>3, <1>4, <1>5, <1>6, FlashKept DEF IInv

\* Verification reads only.
LEMMA VerifyCandidateStep == IInv /\ VerifyCandidate => IInv'
<1>. SUFFICES ASSUME IInv, VerifyCandidate PROVE IInv'
  OBVIOUS
<1>1. UNCHANGED durable
  BY DEF VerifyCandidate, durable
<1>2. TypeOK'
  BY <1>1, FlashKept DEF IInv, TypeOK, VerifyCandidate, queued, Locations, Locked, Spend
<1>3. OwnerShape'
  BY DEF IInv, TypeOK, OwnerShape, Erasing, Applying, Ending, VerifyCandidate
<1>4. NothingLoaded'
  BY DEF IInv, OwnerShape, NothingLoaded, Erasing, Applying, Ending, VerifyCandidate
<1>5. ActIsDurable'
  BY <1>1 DEF IInv, TypeOK, ActIsDurable, Applying, Ending, Migrating, HeadOf, Holds, durable,
             
              VerifyCandidate
<1>6. EraseInOrder'
  BY <1>1 DEF IInv, EraseInOrder, Erasing, VerifyCandidate
<1>. QED  BY <1>1, <1>2, <1>3, <1>4, <1>5, <1>6, FlashKept DEF IInv

\* The trial connection does not touch the flash.
LEMMA TrialConnectStep == IInv /\ TrialConnect => IInv'
<1>. SUFFICES ASSUME IInv, TrialConnect PROVE IInv'
  OBVIOUS
<1>1. UNCHANGED durable
  BY DEF TrialConnect, durable
<1>2. TypeOK'
  BY <1>1, FlashKept DEF IInv, TypeOK, TrialConnect, queued, Locations, Locked, Results
<1>3. OwnerShape'
  BY DEF IInv, TypeOK, OwnerShape, Erasing, Applying, Ending, TrialConnect
<1>4. NothingLoaded'
  BY DEF IInv, OwnerShape, NothingLoaded, Erasing, Applying, Ending, TrialConnect
<1>5. ActIsDurable'
  BY <1>1 DEF IInv, TypeOK, ActIsDurable, Applying, Ending, Migrating, HeadOf, Holds, durable,
              TrialConnect
<1>6. EraseInOrder'
  BY <1>1 DEF IInv, EraseInOrder, Erasing, TrialConnect
<1>. QED  BY <1>1, <1>2, <1>3, <1>4, <1>5, <1>6, FlashKept DEF IInv

\* Quarantine disconnects only.
LEMMA QuarantineStep == IInv /\ Quarantine => IInv'
<1>. SUFFICES ASSUME IInv, Quarantine PROVE IInv'
  OBVIOUS
<1>1. UNCHANGED durable
  BY DEF Quarantine, durable
<1>2. TypeOK'
  BY <1>1, FlashKept DEF IInv, TypeOK, Quarantine, queued, Locations, Locked
<1>3. OwnerShape'
  BY DEF IInv, TypeOK, OwnerShape, Erasing, Applying, Ending, Quarantine
<1>4. NothingLoaded'
  BY DEF IInv, OwnerShape, NothingLoaded, Erasing, Applying, Ending, Quarantine
<1>5. ActIsDurable'
  BY <1>1 DEF IInv, TypeOK, ActIsDurable, Applying, Ending, Migrating, HeadOf, Holds, Quarantine
<1>6. EraseInOrder'
  BY <1>1 DEF IInv, EraseInOrder, Erasing, Quarantine
<1>. QED  BY <1>1, <1>2, <1>3, <1>4, <1>5, <1>6, FlashKept DEF IInv

\* Restoring the old connection does not touch the flash.
LEMMA RestoreConnectStep == IInv /\ RestoreConnect => IInv'
<1>. SUFFICES ASSUME IInv, RestoreConnect PROVE IInv'
  OBVIOUS
<1>1. UNCHANGED durable
  BY DEF RestoreConnect, durable
<1>2. TypeOK'
  BY <1>1, FlashKept DEF IInv, TypeOK, ActIsDurable, Ending, RestoreConnect, queued, Locations, Locked, Results
<1>3. OwnerShape'
  BY DEF IInv, TypeOK, OwnerShape, Erasing, Applying, Ending, RestoreConnect
<1>4. NothingLoaded'
  BY DEF IInv, OwnerShape, NothingLoaded, Erasing, Applying, Ending, RestoreConnect
<1>5. ActIsDurable'
  BY <1>1 DEF IInv, TypeOK, ActIsDurable, Applying, Ending, Migrating, HeadOf, Holds, RestoreConnect
<1>6. EraseInOrder'
  BY <1>1 DEF IInv, EraseInOrder, Erasing, RestoreConnect
<1>. QED  BY <1>1, <1>2, <1>3, <1>4, <1>5, <1>6, FlashKept DEF IInv

\* Reporting RECOVERY_REQUIRED drops the snapshot and what was loaded.
LEMMA JobRecoversStep == IInv /\ JobRecovers => IInv'
<1>. SUFFICES ASSUME IInv, JobRecovers PROVE IInv'
  OBVIOUS
<1>1. UNCHANGED durable
  BY DEF JobRecovers, durable
<1>2. TypeOK'
  BY <1>1, FlashKept DEF IInv, TypeOK, JobRecovers, FinishJob, NoRecord, NoJob, Missing, queued,
                         Locations, Locked, Results
<1>3. OwnerShape'
  BY DEF IInv, TypeOK, OwnerShape, Erasing, Applying, Ending, JobRecovers, FinishJob, NoJob
<1>4. NothingLoaded'
  BY DEF IInv, OwnerShape, NothingLoaded, Erasing, Applying, Ending, JobRecovers, FinishJob,
         NoRecord
<1>5. ActIsDurable'
  BY <1>1 DEF IInv, TypeOK, ActIsDurable, Applying, Ending, Migrating, HeadOf, Holds, JobRecovers,
              FinishJob, NoRecord
<1>6. EraseInOrder'
  BY <1>1 DEF IInv, EraseInOrder, Erasing, JobRecovers, FinishJob
<1>. QED  BY <1>1, <1>2, <1>3, <1>4, <1>5, <1>6, FlashKept DEF IInv

\* Reporting a rollback drops what was loaded.
LEMMA JobRollsBackStep == IInv /\ JobRollsBack => IInv'
<1>. SUFFICES ASSUME IInv, JobRollsBack PROVE IInv'
  OBVIOUS
<1>1. UNCHANGED durable
  BY DEF JobRollsBack, durable
<1>2. TypeOK'
  BY <1>1, FlashKept DEF IInv, TypeOK, JobRollsBack, FinishJob, NoRecord, NoJob, queued, Locations,
                         Locked, Results
<1>3. OwnerShape'
  BY DEF IInv, TypeOK, OwnerShape, Erasing, Applying, Ending, JobRollsBack, FinishJob, NoJob
<1>4. NothingLoaded'
  BY DEF IInv, OwnerShape, NothingLoaded, Erasing, Applying, Ending, JobRollsBack, FinishJob,
         NoRecord
<1>5. ActIsDurable'
  BY <1>1 DEF IInv, TypeOK, ActIsDurable, Applying, Ending, Migrating, HeadOf, Holds, JobRollsBack,
              FinishJob, NoRecord
<1>6. EraseInOrder'
  BY <1>1 DEF IInv, EraseInOrder, Erasing, JobRollsBack, FinishJob
<1>. QED  BY <1>1, <1>2, <1>3, <1>4, <1>5, <1>6, FlashKept DEF IInv

\* Reporting a commit gives the snapshot the revision of the candidate.
LEMMA JobCommitsStep == IInv /\ JobCommits => IInv'
<1>. SUFFICES ASSUME IInv, JobCommits PROVE IInv'
  OBVIOUS
<1>1. UNCHANGED durable
  BY DEF JobCommits, durable
<1>2. TypeOK'
  <2>1. act.rev \in 0..MaxRevision /\ act.rev < MaxRevision
    BY DEF IInv, TypeOK, NoRecord, ActIsDurable, Ending, JobCommits
  <2>2. snap' \in [rev : 0..MaxRevision, cfg : Configs \cup {NoConfig}]
    BY <2>1 DEF IInv, TypeOK, JobCommits, Candidate
  <2>. QED  BY <1>1, <2>2, FlashKept DEF IInv, TypeOK, JobCommits, FinishJob, NoJob, queued,
                                          Locations, Results
<1>3. OwnerShape'
  BY DEF IInv, TypeOK, OwnerShape, Erasing, Applying, Ending, JobCommits, FinishJob, NoJob
<1>4. NothingLoaded'
  BY DEF IInv, OwnerShape, NothingLoaded, Erasing, Applying, Ending, JobCommits, FinishJob, NoRecord
<1>5. ActIsDurable'
  BY <1>1 DEF IInv, TypeOK, ActIsDurable, Applying, Ending, Migrating, HeadOf, Holds, JobCommits,
              FinishJob, NoRecord
<1>6. EraseInOrder'
  BY <1>1 DEF IInv, EraseInOrder, Erasing, JobCommits, FinishJob
<1>. QED  BY <1>1, <1>2, <1>3, <1>4, <1>5, <1>6, FlashKept DEF IInv

\* Taking up a reset clears the snapshot before anything is written.
LEMMA TakeResetStep == IInv /\ TakeReset => IInv'
<1>. SUFFICES ASSUME IInv, TakeReset PROVE IInv'
  OBVIOUS
<1>1. UNCHANGED durable
  BY DEF TakeReset, durable
<1>2. TypeOK'
  <2>1. faults' \in 0..MaxFaults
    BY SpendType DEF IInv, TypeOK, TakeReset
  <2>2. net' \in {net, NoConfig} /\ result' \in {"CONFIG_MISSING", "CONFIG_CORRUPT"}
    BY DEF TakeReset
  <2>3. pc' \in Locations /\ result' \in Results
    BY <2>2 DEF TakeReset, Locations, Locked, Results
  <2>4. snap' \in [rev : 0..MaxRevision, cfg : Configs \cup {NoConfig}]
    BY DEF TakeReset, Missing
  <2>5. resetReq' \in BOOLEAN
    BY DEF TakeReset
  <2>. QED  BY <1>1, <2>1, <2>2, <2>3, <2>4, <2>5, FlashKept DEF IInv, TypeOK, TakeReset
<1>3. OwnerShape'
  BY DEF IInv, TypeOK, OwnerShape, Erasing, Applying, Ending, TakeReset
<1>4. NothingLoaded'
  BY DEF IInv, OwnerShape, NothingLoaded, Erasing, Applying, Ending, TakeReset
<1>5. ActIsDurable'
  BY <1>1 DEF IInv, TypeOK, ActIsDurable, Applying, Ending, Migrating, HeadOf, Holds, TakeReset
<1>6. EraseInOrder'
  BY <1>1 DEF IInv, EraseInOrder, Erasing, TakeReset
<1>. QED  BY <1>1, <1>2, <1>3, <1>4, <1>5, <1>6, FlashKept DEF IInv

\* A reset ends without a further write.
LEMMA EndResetStep == IInv /\ EndReset => IInv'
<1>. SUFFICES ASSUME IInv, EndReset PROVE IInv'
  OBVIOUS
<1>1. UNCHANGED durable
  BY DEF EndReset, durable
<1>2. TypeOK'
  BY <1>1, FlashKept DEF IInv, TypeOK, EndReset, queued, Locations, Locked, Results
<1>3. OwnerShape'
  BY DEF IInv, TypeOK, OwnerShape, Erasing, Applying, Ending, EndReset
<1>4. NothingLoaded'
  BY DEF IInv, OwnerShape, NothingLoaded, Erasing, Applying, Ending, EndReset
<1>5. ActIsDurable'
  BY <1>1 DEF IInv, TypeOK, ActIsDurable, Applying, Ending, Migrating, HeadOf, Holds, EndReset
<1>6. EraseInOrder'
  BY <1>1 DEF IInv, EraseInOrder, Erasing, EndReset
<1>. QED  BY <1>1, <1>2, <1>3, <1>4, <1>5, <1>6, FlashKept DEF IInv

\* Powering on starts a load with nothing loaded.
LEMMA PowerOnStep == IInv /\ PowerOn => IInv'
<1>. SUFFICES ASSUME IInv, PowerOn PROVE IInv'
  OBVIOUS
<1>1. UNCHANGED durable
  BY DEF PowerOn, durable
<1>2. TypeOK'
  BY <1>1, FlashKept DEF IInv, TypeOK, PowerOn, queued, Locations, Locked
<1>3. OwnerShape'
  BY DEF IInv, TypeOK, OwnerShape, Erasing, Applying, Ending, PowerOn
<1>4. NothingLoaded'
  BY DEF IInv, OwnerShape, NothingLoaded, Erasing, Applying, Ending, PowerOn
<1>5. ActIsDurable'
  BY <1>1 DEF IInv, TypeOK, ActIsDurable, Applying, Ending, Migrating, HeadOf, Holds, PowerOn
<1>6. EraseInOrder'
  BY <1>1 DEF IInv, EraseInOrder, Erasing, PowerOn
<1>. QED  BY <1>1, <1>2, <1>3, <1>4, <1>5, <1>6, FlashKept DEF IInv

\* A power cut forgets everything but the flash.
LEMMA PowerCutStep == IInv /\ PowerCut => IInv'
<1>. SUFFICES ASSUME IInv, PowerCut PROVE IInv'
  OBVIOUS
<1>1. UNCHANGED durable
  BY DEF PowerCut, durable
<1>2. TypeOK'
  <2>1. faults' \in 0..MaxFaults
    BY DEF IInv, TypeOK, PowerCut, Spend, Cost
  <2>2. pc' \in Locations /\ result' \in Results
    BY DEF PowerCut, Locations, Results
  <2>3. /\ snap' \in [rev : 0..MaxRevision, cfg : Configs \cup {NoConfig}]
        /\ job' \in [base : 0..MaxRevision, cfg : Configs \cup {NoConfig}]
    BY DEF PowerCut, Missing, NoJob
  <2>4. resetReq' \in BOOLEAN /\ ready' \in BOOLEAN /\ saving' \in BOOLEAN
    BY DEF PowerCut
  <2>. QED  BY <1>1, <2>1, <2>2, <2>3, <2>4, FlashKept DEF IInv, TypeOK, PowerCut
<1>3. OwnerShape'
  BY DEF IInv, TypeOK, OwnerShape, Erasing, Applying, Ending, PowerCut, NoJob
<1>4. NothingLoaded'
  BY DEF IInv, OwnerShape, NothingLoaded, Erasing, Applying, Ending, PowerCut, NoRecord
<1>5. ActIsDurable'
  BY <1>1 DEF IInv, TypeOK, ActIsDurable, Applying, Ending, Migrating, HeadOf, Holds, PowerCut,
              NoRecord
<1>6. EraseInOrder'
  BY <1>1 DEF IInv, EraseInOrder, Erasing, PowerCut
<1>. QED  BY <1>1, <1>2, <1>3, <1>4, <1>5, <1>6, FlashKept DEF IInv

----------------------------------------------------------------------------
\* Steps that write a record or the head.

\* A write that avoids the active slot, and does not fill an erased flash, keeps
\* the head intact.
LEMMA WriteKeepsHead ==
  ASSUME IInv, UNCHANGED <<head, reset>>, NEW STATE s, s \in Namespaces,
         \A t \in Namespaces : t # s => ns'[t] = ns[t],
         head.slot = s => ns' = ns,
         head # NoHead /\ Erased => Erased'
  PROVE  HeadIntact'
<1>. SUFFICES ASSUME head # NoHead, ~reset PROVE Holds(HeadRecord)' \/ Erased'
  BY DEF HeadIntact
<1>1. head.slot \in Namespaces
  BY DEF IInv, TypeOK, Namespaces
<1>2. Holds(HeadRecord) \/ Erased
  BY DEF IInv, HeadIntact
<1>3. CASE Holds(HeadRecord)
  BY <1>1, <1>3 DEF Holds, HeadRecord
<1>. QED  BY <1>2, <1>3

\* The record being written in a migration or an update has the type of one.
LEMMA RecordTypes ==
  ASSUME IInv
  PROVE  /\ pc \in Migrating => Migrated \in [slot : Slots, rev : 1..MaxRevision, cfg : Configs]
         /\ pc \in Applying \cup Ending =>
              Candidate \in [slot : Slots, rev : 1..MaxRevision, cfg : Configs \cup {NoConfig}]
         /\ pc \in Applying \cup Ending => act.slot \in Namespaces /\ InactiveSlot \in Slots
<1>1. pc \in Migrating => Migrated \in [slot : Slots, rev : 1..MaxRevision, cfg : Configs]
  BY DEF IInv, ActIsDurable, Migrated, Slots
<1>2. InactiveSlot \in Slots
  BY DEF InactiveSlot, Slots
<1>3. ASSUME pc \in Applying \cup Ending
      PROVE  act.slot \in Namespaces /\ act.rev + 1 \in 1..MaxRevision
  BY <1>3 DEF IInv, TypeOK, ActIsDurable, NoRecord, Applying, Ending
<1>4. job.cfg \in Configs \cup {NoConfig}
  BY DEF IInv, TypeOK
<1>. QED  BY <1>1, <1>2, <1>3, <1>4 DEF Candidate

\* A flash that is erased holds no record under the head the owner loaded.
LEMMA ActiveNotErased ==
  ASSUME IInv, pc \in Migrating \cup Applying, head # NoHead
  PROVE  ~Erased
<1>1. act.slot # "LEGACY" /\ head = HeadOf(act) /\ (act.slot \in Slots => Holds(act))
  BY DEF IInv, ActIsDurable, HeadOf
<1>2. act.slot \in Slots
  BY <1>1 DEF IInv, TypeOK, HeadOf, NoHead, NoRecord, Namespaces
<1>3. act.slot \in Namespaces /\ ns[act.slot] = Rec(act.rev, act.cfg)
  BY <1>1, <1>2 DEF Holds, Namespaces
<1>4. Rec(act.rev, act.cfg).kind = "record" /\ Empty.kind = "empty"
  BY DEF Rec, Empty, Blank
<1>. QED  BY <1>3, <1>4 DEF Erased

\* Migration stages slot A next to the legacy record.
LEMMA MigrateStageStep == IInv /\ MigrateStage => IInv'
<1>. SUFFICES ASSUME IInv, MigrateStage PROVE IInv'
  OBVIOUS
<1>1. pc = "migStage" /\ UNCHANGED <<head, reset, op, act, job, queued, snap, net, result, saving>>
  BY DEF MigrateStage
<1>2. /\ ns' \in [Namespaces -> Content] /\ faults' \in 0..MaxFaults
      /\ pc' \in {"migActivate", "migUnstage"}
      /\ \A s \in Namespaces : s # "A" => ns'[s] = ns[s]
      /\ head.slot = "A" => ns' = ns
  <2>1. Migrated \in [slot : Slots, rev : 0..MaxRevision, cfg : Configs \cup {NoConfig}]
    BY <1>1, RecordTypes DEF Migrating
  <2>2. Migrated.slot = "A"
    BY DEF Migrated
  <2>. QED  BY <2>1, <2>2, StageEffect DEF IInv, MigrateStage
<1>3. TypeOK'
  BY <1>1, <1>2 DEF IInv, TypeOK, queued, Locations, Locked
<1>4. OwnerShape' /\ NothingLoaded'
  BY <1>1, <1>2 DEF IInv, OwnerShape, NothingLoaded, Erasing, Applying, Ending
<1>5. ns'["LEGACY"] = ns["LEGACY"]
  BY <1>2 DEF Namespaces
<1>6. ActIsDurable' /\ LegacyShape' /\ EraseInOrder'
  BY <1>1, <1>2, <1>5 DEF IInv, ActIsDurable, LegacyShape, EraseInOrder, HeadOf, Holds, Migrating,
                          Applying, Ending, Erasing, Slots
<1>7. HeadIntact'
  BY <1>1, <1>2, WriteKeepsHead, ActiveNotErased DEF Migrating, Namespaces, Slots
<1>. QED  BY <1>3, <1>4, <1>6, <1>7 DEF IInv

\* Migration activates slot A with the content of the legacy record.
LEMMA MigrateActivateStep == IInv /\ MigrateActivate => IInv'
<1>. SUFFICES ASSUME IInv, MigrateActivate PROVE IInv'
  OBVIOUS
<1>1. /\ pc = "migActivate" /\ act' = IF pc' = "shedLegacy" THEN Migrated ELSE act
      /\ UNCHANGED <<reset, ns, op, job, queued, snap, net, result, saving>>
  BY DEF MigrateActivate
<1>2. Migrated \in [slot : Slots, rev : 1..MaxRevision, cfg : Configs] /\ Migrated.slot = "A"
  BY <1>1, RecordTypes DEF Migrating, Migrated
<1>3. /\ faults' \in 0..MaxFaults /\ pc' \in {"shedLegacy", "migUnstage", "loadError"}
      /\ head' \in {head, HeadOf(Migrated)}
      /\ head' # head => Holds(Migrated)
      /\ pc' = "shedLegacy" => Holds(Migrated) /\ head' = HeadOf(Migrated)
      /\ pc' = "migUnstage" => head' = head
  <2>1. Migrated \in [slot : Slots, rev : 0..MaxRevision, cfg : Configs \cup {NoConfig}]
    BY <1>2
  <2>2. TypeOK /\ ActivateRecord(Migrated, "shedLegacy", "migUnstage", "loadError")
    BY DEF IInv, MigrateActivate
  <2>3. "shedLegacy" # "migUnstage" /\ "migUnstage" # "loadError" /\ "shedLegacy" # "loadError"
    OBVIOUS
  <2>. QED  BY <2>1, <2>2, <2>3, ActivateEffect, Zenon
<1>4. HeadOf(Migrated) = [slot |-> "A", rev |-> Migrated.rev]
  BY <1>2 DEF HeadOf
<1>5. act' \in {NoRecord} \cup [slot : Namespaces, rev : 1..MaxRevision, cfg : Configs \cup {NoConfig}]
  BY <1>1, <1>2 DEF IInv, TypeOK, Namespaces
<1>6. TypeOK'
  <2>1. head' \in {NoHead} \cup [slot : Slots, rev : 1..MaxRevision]
    BY <1>2, <1>3, <1>4 DEF IInv, TypeOK
  <2>. QED  BY <1>1, <1>3, <1>5, <2>1 DEF IInv, TypeOK, queued, Locations, Locked
<1>7. OwnerShape' /\ NothingLoaded' /\ LegacyShape' /\ EraseInOrder'
  BY <1>1, <1>3 DEF IInv, OwnerShape, NothingLoaded, LegacyShape, EraseInOrder, Erasing, Applying, Ending
<1>8. ActIsDurable'
  BY <1>1, <1>2, <1>3 DEF IInv, ActIsDurable, Holds, Applying, Ending, Migrating
<1>9. HeadIntact'
  <2>1. CASE head' = head
    BY <1>1, <2>1 DEF IInv, HeadIntact, HeadRecord, Holds, Erased
  <2>2. CASE head' # head
    BY <1>1, <1>2, <1>3, <1>4, <2>2 DEF HeadIntact, HeadRecord, Holds, Rec
  <2>. QED  BY <2>1, <2>2
<1>. QED  BY <1>6, <1>7, <1>8, <1>9 DEF IInv

\* An update activates only a candidate that is durable.
LEMMA ActivateCandidateStep == IInv /\ ActivateCandidate => IInv'
<1>. SUFFICES ASSUME IInv, ActivateCandidate PROVE IInv'
  OBVIOUS
<1>1. pc = "activate" /\ UNCHANGED <<reset, ns, op, act, job, queued, snap, net, result, saving>>
  BY DEF ActivateCandidate
<1>2. Candidate \in [slot : Slots, rev : 1..MaxRevision, cfg : Configs \cup {NoConfig}]
  BY <1>1, RecordTypes DEF Applying
<1>3. /\ faults' \in 0..MaxFaults /\ pc' \in {"retire", "restore", "quarantine"}
      /\ head' \in {head, HeadOf(Candidate)}
      /\ head' # head => Holds(Candidate)
  <2>1. Candidate \in [slot : Slots, rev : 0..MaxRevision, cfg : Configs \cup {NoConfig}]
    BY <1>2
  <2>. QED  BY <2>1, ActivateEffect DEF IInv, ActivateCandidate
<1>4. HeadOf(Candidate) = [slot |-> Candidate.slot, rev |-> Candidate.rev]
  BY <1>2 DEF HeadOf, Slots
<1>5. TypeOK'
  <2>1. head' \in {NoHead} \cup [slot : Slots, rev : 1..MaxRevision]
    BY <1>2, <1>3, <1>4 DEF IInv, TypeOK
  <2>. QED  BY <1>1, <1>3, <2>1 DEF IInv, TypeOK, queued, Locations, Locked
<1>6. OwnerShape' /\ NothingLoaded' /\ LegacyShape' /\ EraseInOrder' /\ ActIsDurable'
  BY <1>1, <1>3 DEF IInv, OwnerShape, NothingLoaded, LegacyShape, EraseInOrder, ActIsDurable,
                    Erasing, Applying, Ending, Migrating
<1>7. HeadIntact'
  <2>1. CASE head' = head
    BY <1>1, <2>1 DEF IInv, HeadIntact, HeadRecord, Holds, Erased
  <2>2. CASE head' # head
    BY <1>1, <1>3, <1>4, <2>2 DEF HeadIntact, HeadRecord, Holds, Rec
  <2>. QED  BY <2>1, <2>2
<1>. QED  BY <1>5, <1>6, <1>7 DEF IInv

\* An update stages in the slot that is not active.
LEMMA StageCandidateStep == IInv /\ StageCandidate => IInv'
<1>. SUFFICES ASSUME IInv, StageCandidate PROVE IInv'
  OBVIOUS
<1>1. pc = "stage" /\ UNCHANGED <<head, reset, op, act, job, queued, snap, net, result, saving>>
  BY DEF StageCandidate
<1>2. Candidate \in [slot : Slots, rev : 0..MaxRevision, cfg : Configs \cup {NoConfig}]
      /\ Candidate.slot = InactiveSlot /\ InactiveSlot \in Slots
  BY <1>1, RecordTypes DEF Applying, Candidate
<1>3. /\ ns' \in [Namespaces -> Content] /\ faults' \in 0..MaxFaults
      /\ pc' \in {"verify", "unstage"}
      /\ \A s \in Namespaces : s # InactiveSlot => ns'[s] = ns[s]
      /\ head.slot = InactiveSlot => ns' = ns
  BY <1>2, StageEffect DEF IInv, StageCandidate
<1>4. TypeOK'
  BY <1>1, <1>3 DEF IInv, TypeOK, queued, Locations, Locked
<1>5. OwnerShape' /\ NothingLoaded'
  BY <1>1, <1>3 DEF IInv, OwnerShape, NothingLoaded, Erasing, Applying, Ending
<1>6. ns'["LEGACY"] = ns["LEGACY"]
  BY <1>2, <1>3 DEF Namespaces, Slots
<1>7. act.slot \in Slots => act.slot # InactiveSlot
  BY DEF InactiveSlot, Slots
<1>8. ActIsDurable' /\ LegacyShape' /\ EraseInOrder'
  BY <1>1, <1>3, <1>6, <1>7 DEF IInv, ActIsDurable, LegacyShape, EraseInOrder, HeadOf, Holds,
                                Applying, Ending, Erasing, Migrating, Namespaces
<1>9. HeadIntact'
  BY <1>1, <1>2, <1>3, WriteKeepsHead, ActiveNotErased DEF Applying, Namespaces
<1>. QED  BY <1>4, <1>5, <1>8, <1>9 DEF IInv

\* Giving up a migration keeps the legacy record.
LEMMA MigrateUnstageStep == IInv /\ MigrateUnstage => IInv'
<1>. SUFFICES ASSUME IInv, MigrateUnstage PROVE IInv'
  OBVIOUS
<1>1. pc = "migUnstage" /\ UNCHANGED <<head, reset, op, act, job, queued, snap, net, result, saving>>
  BY DEF MigrateUnstage
<1>2. "A" \in Namespaces
  BY <1>1, RecordTypes DEF Ending, Namespaces, Slots
<1>3. /\ ns' \in [Namespaces -> Content] /\ faults' \in 0..MaxFaults
      /\ pc' \in {"loaded", "loadError"}
      /\ ns'["LEGACY"] \in {ns["LEGACY"], Empty, Blank("torn"), Blank("residue")}
      /\ \A t \in Namespaces : t # "A" \/ ns[t] = Empty => ns'[t] = ns[t]
      /\ head.slot = "A" \/ (head = NoHead /\ "A" = "LEGACY") => ns' = ns
  BY <1>2, DiscardEffect DEF IInv, MigrateUnstage
<1>4. TypeOK'
  BY <1>1, <1>3 DEF IInv, TypeOK, queued, Locations, Locked
<1>5. OwnerShape' /\ NothingLoaded'
  BY <1>1, <1>3 DEF IInv, OwnerShape, NothingLoaded, Erasing, Applying, Ending
<1>6. ActIsDurable'
  BY <1>1, <1>3 DEF IInv, ActIsDurable, Applying, Ending, Migrating, HeadOf, Holds, Namespaces, Slots
<1>7. LegacyShape' /\ EraseInOrder'
  BY <1>1, <1>3 DEF IInv, LegacyShape, EraseInOrder, Erasing
<1>8. HeadIntact'
  BY <1>1, <1>2, <1>3, WriteKeepsHead DEF Erased
<1>. QED  BY <1>4, <1>5, <1>6, <1>7, <1>8 DEF IInv

\* The legacy record is erased only under a head.
LEMMA ShedLegacyStep == IInv /\ ShedLegacy => IInv'
<1>. SUFFICES ASSUME IInv, ShedLegacy PROVE IInv'
  OBVIOUS
<1>1. pc = "shedLegacy" /\ UNCHANGED <<head, reset, op, act, job, queued, snap, net, result, saving>>
  BY DEF ShedLegacy
<1>2. "LEGACY" \in Namespaces
  BY <1>1, RecordTypes DEF Ending, Namespaces, Slots
<1>3. /\ ns' \in [Namespaces -> Content] /\ faults' \in 0..MaxFaults
      /\ pc' \in {"loaded", "loadError"}
      /\ ns'["LEGACY"] \in {ns["LEGACY"], Empty, Blank("torn"), Blank("residue")}
      /\ \A t \in Namespaces : t # "LEGACY" \/ ns[t] = Empty => ns'[t] = ns[t]
      /\ head.slot = "LEGACY" \/ (head = NoHead /\ "LEGACY" = "LEGACY") => ns' = ns
  BY <1>2, DiscardEffect DEF IInv, ShedLegacy
<1>4. TypeOK'
  BY <1>1, <1>3 DEF IInv, TypeOK, queued, Locations, Locked
<1>5. OwnerShape' /\ NothingLoaded'
  BY <1>1, <1>3 DEF IInv, OwnerShape, NothingLoaded, Erasing, Applying, Ending
<1>6. ActIsDurable'
  BY <1>1, <1>3 DEF IInv, ActIsDurable, Applying, Ending, Migrating, HeadOf, Holds, Namespaces, Slots
<1>7. LegacyShape' /\ EraseInOrder'
  BY <1>1, <1>3 DEF IInv, LegacyShape, EraseInOrder, Erasing
<1>8. HeadIntact'
  BY <1>1, <1>2, <1>3, WriteKeepsHead DEF Erased
<1>. QED  BY <1>4, <1>5, <1>6, <1>7, <1>8 DEF IInv

\* Giving up an update keeps the active record.
LEMMA UnstageCandidateStep == IInv /\ UnstageCandidate => IInv'
<1>. SUFFICES ASSUME IInv, UnstageCandidate PROVE IInv'
  OBVIOUS
<1>1. pc = "unstage" /\ UNCHANGED <<head, reset, op, act, job, queued, snap, net, result, saving>>
  BY DEF UnstageCandidate
<1>2. InactiveSlot \in Namespaces
  BY <1>1, RecordTypes DEF Ending, Namespaces, Slots
<1>3. /\ ns' \in [Namespaces -> Content] /\ faults' \in 0..MaxFaults
      /\ pc' \in {"rolledBack", "recovery"}
      /\ ns'["LEGACY"] \in {ns["LEGACY"], Empty, Blank("torn"), Blank("residue")}
      /\ \A t \in Namespaces : t # InactiveSlot \/ ns[t] = Empty => ns'[t] = ns[t]
      /\ head.slot = InactiveSlot \/ (head = NoHead /\ InactiveSlot = "LEGACY") => ns' = ns
  BY <1>2, DiscardEffect DEF IInv, UnstageCandidate
<1>4. TypeOK'
  BY <1>1, <1>3 DEF IInv, TypeOK, queued, Locations, Locked
<1>5. OwnerShape' /\ NothingLoaded'
  BY <1>1, <1>3 DEF IInv, OwnerShape, NothingLoaded, Erasing, Applying, Ending
<1>6. ActIsDurable'
  BY <1>1, <1>3 DEF IInv, ActIsDurable, Applying, Ending, Migrating, HeadOf, Holds, Namespaces, Slots
<1>7. LegacyShape' /\ EraseInOrder'
  BY <1>1, <1>3 DEF IInv, LegacyShape, EraseInOrder, Erasing
<1>8. HeadIntact'
  BY <1>1, <1>2, <1>3, WriteKeepsHead DEF Erased
<1>. QED  BY <1>4, <1>5, <1>6, <1>7, <1>8 DEF IInv

\* Retiring the old record never erases the one the head names.
LEMMA RetireStep == IInv /\ Retire => IInv'
<1>. SUFFICES ASSUME IInv, Retire PROVE IInv'
  OBVIOUS
<1>1. pc = "retire" /\ UNCHANGED <<head, reset, op, act, job, queued, snap, net, result, saving>>
  BY DEF Retire
<1>2. act.slot \in Namespaces
  BY <1>1, RecordTypes DEF Ending, Namespaces, Slots
<1>3. /\ ns' \in [Namespaces -> Content] /\ faults' \in 0..MaxFaults
      /\ pc' \in {"committed", "recovery"}
      /\ ns'["LEGACY"] \in {ns["LEGACY"], Empty, Blank("torn"), Blank("residue")}
      /\ \A t \in Namespaces : t # act.slot \/ ns[t] = Empty => ns'[t] = ns[t]
      /\ head.slot = act.slot \/ (head = NoHead /\ act.slot = "LEGACY") => ns' = ns
  BY <1>2, DiscardEffect DEF IInv, Retire
<1>4. TypeOK'
  BY <1>1, <1>3 DEF IInv, TypeOK, queued, Locations, Locked
<1>5. OwnerShape' /\ NothingLoaded'
  BY <1>1, <1>3 DEF IInv, OwnerShape, NothingLoaded, Erasing, Applying, Ending
<1>6. ActIsDurable'
  BY <1>1, <1>3 DEF IInv, ActIsDurable, Applying, Ending, Migrating, HeadOf, Holds, Namespaces, Slots
<1>7. LegacyShape' /\ EraseInOrder'
  BY <1>1, <1>3 DEF IInv, LegacyShape, EraseInOrder, Erasing
<1>8. HeadIntact'
  BY <1>1, <1>2, <1>3, WriteKeepsHead DEF Erased
<1>. QED  BY <1>4, <1>5, <1>6, <1>7, <1>8 DEF IInv

----------------------------------------------------------------------------
\* The steps of a factory reset that write.

\* Writing the tombstone only ever sets it.
LEMMA WriteTombstoneStep == IInv /\ WriteTombstone => IInv'
<1>. SUFFICES ASSUME IInv, WriteTombstone PROVE IInv'
  OBVIOUS
<1>1. pc = "tombstone" /\ UNCHANGED <<head, ns, op, act, job, queued, snap, net, result, saving>>
  BY DEF WriteTombstone
<1>2. /\ reset' \in BOOLEAN /\ (reset => reset')
      /\ faults' \in 0..MaxFaults
      /\ pc' \in {"eraseLEGACY", "loadError"}
      /\ pc' = "eraseLEGACY" => reset'
  <2>1. CASE pc' = "loadError" /\ UNCHANGED <<reset, faults>>
    BY <2>1 DEF IInv, TypeOK
  <2>2. ASSUME NEW applied \in BOOLEAN, NEW err \in BOOLEAN, NEW readable \in BOOLEAN,
               ~err => applied, Spend(Cost(err) + Cost(~readable)),
               reset' = (reset \/ applied),
               pc' = IF ~err /\ readable THEN FirstErase ELSE "loadError"
        PROVE  /\ reset' \in BOOLEAN /\ (reset => reset')
               /\ faults' \in 0..MaxFaults
               /\ pc' \in {"eraseLEGACY", "loadError"}
               /\ pc' = "eraseLEGACY" => reset'
    <3>1. faults' \in 0..MaxFaults
      BY <2>2, SpendType, CostType DEF IInv
    <3>2. reset' \in BOOLEAN /\ (reset => reset') /\ (~err => reset')
      BY <2>2
    <3>. QED  BY <2>2, <3>1, <3>2 DEF FirstErase
  <2>. QED  BY <2>1, <2>2 DEF WriteTombstone
<1>3. op = "reset" /\ act = NoRecord
  BY <1>1 DEF IInv, OwnerShape, NothingLoaded
<1>4. TypeOK'
  BY <1>1, <1>2 DEF IInv, TypeOK, queued, Locations, Locked
<1>5. OwnerShape' /\ NothingLoaded' /\ ActIsDurable' /\ LegacyShape' /\ EraseInOrder'
  BY <1>1, <1>2, <1>3 DEF IInv, OwnerShape, NothingLoaded, ActIsDurable, LegacyShape, EraseInOrder,
                          Erasing, Applying, Ending, Migrating
<1>6. HeadIntact'
  BY <1>1, <1>2 DEF IInv, HeadIntact, HeadRecord, Holds, Erased
<1>. QED  BY <1>4, <1>5, <1>6 DEF IInv

\* Erasing a namespace goes on to the next one only when it is empty.
LEMMA EraseStep == \A s \in Namespaces : IInv /\ Erase(s) => IInv'
<1>. SUFFICES ASSUME NEW s \in Namespaces, IInv, Erase(s) PROVE IInv'
  OBVIOUS
<1>1. pc = ErasePc[s] /\ UNCHANGED <<head, reset, op, act, job, queued, snap, net, result, saving>>
  BY DEF Erase
<1>2. s \in {"LEGACY", "A", "B"} /\ pc \in Erasing \ {"eraseMeta"} /\ reset /\ act = NoRecord
  BY <1>1 DEF ErasePc, Namespaces, Slots, Erasing, IInv, EraseInOrder, NothingLoaded
<1>3. PICK o \in WriteOutcomes(ns[s], Empty) :
        /\ Spend(Cost(o.err))
        /\ ns' = [ns EXCEPT ![s] = o.val]
        /\ pc' = IF o.err THEN "loadError" ELSE AfterErase(s)
  BY DEF Erase
<1>4. o.val \in Content /\ o.val \in {ns[s], Empty, Blank("torn"), Blank("residue")}
  BY ContentType, WriteOutcomesType, WriteOutcomesShape DEF IInv, TypeOK
<1>5. (~o.err => o.val = Empty) /\ (ns[s] = Empty => o.val = Empty)
  BY WriteSucceeds, EraseEmpty
<1>6. /\ ns' \in [Namespaces -> Content] /\ faults' \in 0..MaxFaults
      /\ \A t \in Namespaces : ns'[t] = IF t = s THEN o.val ELSE ns[t]
  BY <1>3, <1>4, SpendType, CostType DEF IInv, TypeOK
<1>7. pc' \in {"loadError", "eraseA", "eraseB", "eraseMeta"}
  BY <1>2, <1>3 DEF AfterErase
<1>8. TypeOK'
  BY <1>1, <1>6, <1>7 DEF IInv, TypeOK, queued, Locations, Locked
<1>9. OwnerShape' /\ NothingLoaded' /\ ActIsDurable'
  BY <1>1, <1>2, <1>7 DEF IInv, OwnerShape, NothingLoaded, ActIsDurable, Erasing, Applying, Ending, Migrating
<1>10. LegacyShape'
  BY <1>4, <1>6 DEF IInv, LegacyShape, Namespaces
<1>11. EraseInOrder'
  <2>1. CASE o.err
    BY <1>1, <1>2, <1>3, <2>1 DEF EraseInOrder, Erasing
  <2>2. CASE ~o.err
    <3>1. ns'[s] = Empty /\ \A t \in Namespaces : ns[t] = Empty => ns'[t] = Empty
      BY <1>5, <1>6, <2>2
    <3>2. CASE s = "LEGACY"
      BY <1>1, <1>2, <1>3, <2>2, <3>1, <3>2 DEF EraseInOrder, Erasing, AfterErase
    <3>3. CASE s = "A"
      BY <1>1, <1>2, <1>3, <2>2, <3>1, <3>3 DEF IInv, EraseInOrder, Erasing, AfterErase, ErasePc,
                                                Namespaces
    <3>4. CASE s = "B"
      BY <1>1, <1>2, <1>3, <2>2, <3>1, <3>4 DEF IInv, EraseInOrder, Erasing, AfterErase, ErasePc,
                                                Namespaces, Slots
    <3>. QED  BY <1>2, <3>2, <3>3, <3>4
  <2>. QED  BY <2>1, <2>2
<1>12. HeadIntact'
  BY <1>1, <1>2 DEF HeadIntact
<1>. QED  BY <1>8, <1>9, <1>10, <1>11, <1>12 DEF IInv

\* The metadata goes last, from a flash that is empty already.
LEMMA EraseMetaStep == IInv /\ EraseMeta => IInv'
<1>. SUFFICES ASSUME IInv, EraseMeta PROVE IInv'
  OBVIOUS
<1>1. pc = "eraseMeta" /\ UNCHANGED <<ns, op, act, job, queued, snap, net, result, saving>>
  BY DEF EraseMeta
<1>2. /\ head' \in {head, NoHead} /\ reset' \in BOOLEAN /\ faults' \in 0..MaxFaults
      /\ pc' \in {"loaded", "loadError"}
      /\ pc' = "loaded" => head' = NoHead
  <2>1. PICK h \in {head, NoHead}, r \in {reset, FALSE}, err \in BOOLEAN :
          /\ ~err => h = NoHead /\ ~r
          /\ Spend(Cost(err))
          /\ head' = h /\ reset' = r
          /\ pc' = IF err THEN "loadError" ELSE "loaded"
    BY DEF EraseMeta
  <2>2. faults' \in 0..MaxFaults
    BY <2>1, SpendType, CostType DEF IInv
  <2>3. reset' \in BOOLEAN
    BY <2>1 DEF IInv, TypeOK
  <2>. QED  BY <2>1, <2>2, <2>3
<1>3. Erased /\ act = NoRecord /\ op \in {"boot", "wifi", "reset"}
  BY <1>1 DEF IInv, TypeOK, OwnerShape, NothingLoaded, EraseInOrder, Erasing, Erased, Namespaces, Slots
<1>4. TypeOK'
  BY <1>1, <1>2 DEF IInv, TypeOK, queued, Locations, Locked
<1>5. OwnerShape' /\ NothingLoaded' /\ LegacyShape' /\ EraseInOrder'
  BY <1>1, <1>2, <1>3 DEF IInv, OwnerShape, NothingLoaded, LegacyShape, EraseInOrder,
                          Erasing, Applying, Ending
<1>6. ActIsDurable'
  BY <1>1, <1>2, <1>3 DEF ActIsDurable, Applying, Ending, Migrating, NoRecord, HeadOf, NoHead, Slots
<1>7. HeadIntact'
  BY <1>1, <1>3 DEF HeadIntact, Erased
<1>. QED  BY <1>4, <1>5, <1>6, <1>7 DEF IInv

----------------------------------------------------------------------------
\* The theorems.

\* IInv is inductive.
LEMMA NextIInv == IInv /\ [Next]_vars => IInv'
<1>. SUFFICES ASSUME IInv, [Next]_vars PROVE IInv'
  OBVIOUS
<1>1. CASE Boot
  BY <1>1, PowerOnStep, LoadRejectsStep, LoadActiveStep, MigrateStageStep, MigrateActivateStep,
     MigrateUnstageStep, ShedLegacyStep, LoadSucceedsStep, LoadFailsStep DEF Boot
<1>2. CASE Update
  BY <1>2, TakeJobStep, BeginApplyStep, StageCandidateStep, VerifyCandidateStep, TrialConnectStep,
     ActivateCandidateStep, QuarantineStep, RestoreConnectStep, UnstageCandidateStep, RetireStep,
     JobRecoversStep, JobRollsBackStep, JobCommitsStep DEF Update
<1>3. CASE Reset
  BY <1>3, TakeResetStep, WriteTombstoneStep, EraseStep, EraseMetaStep, EndResetStep DEF Reset
<1>4. CASE Environment
  BY <1>4, BystanderStep, PowerCutStep DEF Environment
<1>5. CASE UNCHANGED vars
  <2>1. UNCHANGED durable /\ UNCHANGED <<durable, pc, op, act>> /\ TypeOK'
    BY <1>5 DEF vars, durable, IInv, TypeOK
  <2>2. (job' = NoJob \/ job'.cfg \in Configs) /\ (op = "wifi" => job' # NoJob)
    BY <1>5 DEF vars, IInv, OwnerShape
  <2>. QED  BY <2>1, <2>2, FlashKept, OwnerKept DEF IInv
<1>. QED  BY <1>1, <1>2, <1>3, <1>4, <1>5 DEF Next, Owner

\* Throughout every behaviour of the store, boots, updates, resets, storage
\* errors and power cuts included, what the owner remembers agrees with the flash.
THEOREM Inductive == Spec => []IInv
BY InitIInv, NextIInv, PTL DEF Spec

\* Every variable of the store keeps its type; in particular no update is
\* begun from the last revision, so revisions never pass MaxRevision.
THEOREM TypeCorrect == Spec => []TypeOK
<1>1. IInv => TypeOK
  BY DEF IInv
<1>. QED  BY <1>1, Inductive, PTL

\* The head that activate_record writes never names a record that is missing,
\* fragmentary or of another revision, whichever durable write the power or the
\* flash fails in.
THEOREM HeadAlwaysIntact == Spec => []HeadIntact
<1>1. IInv => HeadIntact
  BY DEF IInv
<1>. QED  BY <1>1, Inductive, PTL

----------------------------------------------------------------------------
\* ConfigStore implements DeviceConfig: the flash, read as its slots, head and
\* tombstone define it (Stored), changes in single steps only, by an update to
\* the successor revision or by a factory reset.

\* Stored depends on the metadata and on the record it selects.
LEMMA StoredKept ==
  ASSUME UNCHANGED <<head, reset>>,
         head # NoHead => ns'[head.slot] = ns[head.slot],
         head = NoHead => ns'["LEGACY"] = ns["LEGACY"]
  PROVE  Stored' = Stored
BY DEF Stored, HeadRecord, Holds

\* A step that leaves the flash alone leaves Stored alone.
LEMMA StoredUntouched == UNCHANGED durable => Stored' = Stored
BY StoredKept DEF durable

\* What Stored is while the owner works on the record it loaded, without a
\* tombstone.
LEMMA StoredIsLoaded ==
  ASSUME IInv, ~reset, pc \in Migrating \/ (pc \in Applying /\ act.slot \in Slots)
  PROVE  Stored = [rev |-> act.rev, cfg |-> act.cfg]
<1>1. CASE pc \in Migrating
  <2>1. head = NoHead /\ ns["LEGACY"] = Rec(1, act.cfg) /\ act.rev = 1
    BY <1>1 DEF IInv, ActIsDurable, HeadOf, Holds
  <2>. QED  BY <2>1 DEF Stored, Rec
<1>2. CASE pc \in Applying /\ act.slot \in Slots
  <2>1. /\ head = [slot |-> act.slot, rev |-> act.rev]
        /\ ns[act.slot] = Rec(act.rev, act.cfg)
    BY <1>2 DEF IInv, ActIsDurable, HeadOf, Holds, Slots
  <2>2. head # NoHead
    BY <1>2, <2>1 DEF NoHead, Slots
  <2>. QED  BY <2>1, <2>2 DEF Stored, HeadRecord, Holds, Rec
<1>. QED  BY <1>1, <1>2

\* What Stored is once the head has been moved to a record that is there.
LEMMA StoredIsActivated ==
  ASSUME NEW STATE r, r \in [slot : Slots, rev : 0..MaxRevision, cfg : Configs \cup {NoConfig}],
         Holds(r), head' = HeadOf(r), UNCHANGED <<reset, ns>>, ~reset
  PROVE  Stored' = [rev |-> r.rev, cfg |-> r.cfg]
<1>1. head' = [slot |-> r.slot, rev |-> r.rev] /\ head' # NoHead
  BY DEF HeadOf, Slots, NoHead
<1>2. ns'[r.slot] = Rec(r.rev, r.cfg)
  BY DEF Holds
<1>. QED  BY <1>1, <1>2 DEF Stored, HeadRecord, Holds, Rec

\* Migration moves the record without changing what is stored.
LEMMA MigrateActivateStutters == IInv /\ MigrateActivate => Stored' = Stored
<1>. SUFFICES ASSUME IInv, MigrateActivate PROVE Stored' = Stored
  OBVIOUS
<1>1. pc = "migActivate" /\ UNCHANGED <<reset, ns>>
  BY DEF MigrateActivate
<1>2. Migrated \in [slot : Slots, rev : 0..MaxRevision, cfg : Configs \cup {NoConfig}]
  BY <1>1, RecordTypes DEF Migrating
<1>3. head' \in {head, HeadOf(Migrated)} /\ (head' # head => Holds(Migrated))
  <2>1. TypeOK /\ ActivateRecord(Migrated, "shedLegacy", "migUnstage", "loadError")
    BY DEF IInv, MigrateActivate
  <2>2. "shedLegacy" # "migUnstage" /\ "migUnstage" # "loadError" /\ "shedLegacy" # "loadError"
    OBVIOUS
  <2>. QED  BY <1>2, <2>1, <2>2, ActivateEffect, Zenon
<1>4. CASE head' = head \/ reset
  BY <1>1, <1>4, StoredKept DEF Stored
<1>5. CASE head' # head /\ ~reset
  <2>1. Stored' = [rev |-> Migrated.rev, cfg |-> Migrated.cfg]
    BY <1>1, <1>2, <1>3, <1>5, StoredIsActivated
  <2>2. Stored = [rev |-> 1, cfg |-> act.cfg]
    BY <1>1, <1>5, StoredIsLoaded DEF IInv, ActIsDurable, Migrating
  <2>. QED  BY <2>1, <2>2 DEF Migrated
<1>. QED  BY <1>4, <1>5

\* Activating a candidate is the one step in which an update takes effect.
LEMMA ActivateCandidateUpdates ==
  IInv /\ ActivateCandidate => Stored' = Stored \/ Abstract!Update(job.cfg)
<1>. SUFFICES ASSUME IInv, ActivateCandidate, Stored' # Stored PROVE Abstract!Update(job.cfg)
  OBVIOUS
<1>1. pc = "activate" /\ UNCHANGED <<reset, ns>>
  BY DEF ActivateCandidate
<1>2. Candidate \in [slot : Slots, rev : 0..MaxRevision, cfg : Configs \cup {NoConfig}]
  BY <1>1, RecordTypes DEF Applying
<1>3. head' # head /\ ~reset
  BY <1>1, StoredKept DEF Stored
<1>4. head' = HeadOf(Candidate) /\ Holds(Candidate) /\ ValidSuccessor(Candidate)
  BY <1>2, <1>3, ActivateEffect DEF IInv, ActivateCandidate
<1>5. act.slot \in Slots /\ act.rev \in 1..MaxRevision /\ act.rev < MaxRevision
  <2>1. act.slot \in Namespaces /\ act.rev \in 1..MaxRevision /\ act.rev < MaxRevision
    BY <1>1 DEF IInv, TypeOK, ActIsDurable, Applying, NoRecord, Namespaces, Slots
  <2>2. act.slot # "LEGACY"
    BY <1>4, <2>1 DEF ValidSuccessor, Candidate
  <2>. QED  BY <2>1, <2>2 DEF Namespaces
<1>6. Stored = [rev |-> act.rev, cfg |-> act.cfg]
  BY <1>1, <1>3, <1>5, StoredIsLoaded DEF Applying
<1>7. Stored' = [rev |-> act.rev + 1, cfg |-> job.cfg]
  BY <1>1, <1>2, <1>3, <1>4, StoredIsActivated DEF Candidate
<1>8. Stored # Abstract!Missing
  BY <1>5, <1>6 DEF Abstract!Missing
<1>. QED  BY <1>5, <1>6, <1>7, <1>8 DEF Abstract!Update

\* Every other write to a record spares the one that is stored.
LEMMA RecordWritesStutter ==
  IInv /\ (MigrateStage \/ MigrateUnstage \/ ShedLegacy \/ StageCandidate \/ UnstageCandidate \/ Retire)
    => Stored' = Stored
<1>1. ASSUME IInv, MigrateStage PROVE Stored' = Stored
  <2>1. Migrated \in [slot : Slots, rev : 0..MaxRevision, cfg : Configs \cup {NoConfig}]
    BY <1>1, RecordTypes DEF Migrating, MigrateStage
  <2>2. /\ \A s \in Namespaces : s # "A" => ns'[s] = ns[s]
        /\ head.slot = "A" => ns' = ns
    BY <1>1, <2>1, StageEffect DEF IInv, MigrateStage, Migrated
  <2>. QED  BY <1>1, <2>2, StoredKept DEF MigrateStage, IInv, TypeOK, Namespaces, Slots
<1>2. ASSUME IInv, StageCandidate PROVE Stored' = Stored
  <2>1. /\ Candidate \in [slot : Slots, rev : 0..MaxRevision, cfg : Configs \cup {NoConfig}]
        /\ Candidate.slot \in Slots
    BY <1>2, RecordTypes DEF Applying, StageCandidate
  <2>2. /\ \A s \in Namespaces : s # Candidate.slot => ns'[s] = ns[s]
        /\ head.slot = Candidate.slot => ns' = ns
    BY <1>2, <2>1, StageEffect DEF IInv, StageCandidate
  <2>. QED  BY <1>2, <2>1, <2>2, StoredKept DEF StageCandidate, IInv, TypeOK, Namespaces, Slots
<1>3. ASSUME IInv, NEW STATE s, s \in Namespaces, NEW ok, NEW fail, DiscardRecord(s, ok, fail),
             UNCHANGED <<head, reset>>
      PROVE  Stored' = Stored
  <2>1. /\ \A t \in Namespaces : t # s => ns'[t] = ns[t]
        /\ head.slot = s \/ (head = NoHead /\ s = "LEGACY") => ns' = ns
    BY <1>3, DiscardEffect DEF IInv
  <2>. QED  BY <1>3, <2>1, StoredKept DEF IInv, TypeOK, Namespaces
<1>4. IInv /\ MigrateUnstage => Stored' = Stored
  BY <1>3 DEF MigrateUnstage, Namespaces, Slots
<1>5. IInv /\ ShedLegacy => Stored' = Stored
  BY <1>3 DEF ShedLegacy, Namespaces, Slots
<1>6. IInv /\ UnstageCandidate => Stored' = Stored
  BY <1>3, RecordTypes DEF UnstageCandidate, Namespaces, Ending
<1>7. IInv /\ Retire => Stored' = Stored
  BY <1>3, RecordTypes DEF Retire, Ending
<1>. QED  BY <1>1, <1>2, <1>4, <1>5, <1>6, <1>7

\* A reset takes effect when its tombstone is written, and never again after.
LEMMA ResetWipes ==
  IInv /\ (WriteTombstone \/ (\E s \in Namespaces : Erase(s)) \/ EraseMeta)
    => Stored' = Stored \/ Abstract!Wipe
<1>1. ASSUME IInv, WriteTombstone PROVE Stored' = Stored \/ Abstract!Wipe
  <2>1. reset' = reset \/ reset' = TRUE
    <3>1. reset \in BOOLEAN
      BY <1>1 DEF IInv, TypeOK
    <3>2. UNCHANGED reset \/ \E applied \in BOOLEAN : reset' = (reset \/ applied)
      BY <1>1 DEF WriteTombstone
    <3>. QED  BY <3>1, <3>2
  <2>2. CASE reset' = reset
    BY <1>1, <2>2, StoredKept DEF WriteTombstone
  <2>3. CASE reset' = TRUE
    BY <2>3 DEF Stored, Missing, Abstract!Wipe, Abstract!Missing
  <2>. QED  BY <2>1, <2>2, <2>3
<1>2. ASSUME IInv, NEW s \in Namespaces, Erase(s) PROVE Stored' = Stored
  <2>1. reset /\ reset' = reset
    BY <1>2 DEF Erase, ErasePc, Namespaces, Slots, IInv, EraseInOrder, Erasing
  <2>. QED  BY <2>1 DEF Stored
<1>3. ASSUME IInv, EraseMeta PROVE Stored' = Stored
  <2>1. reset /\ Erased /\ ns' = ns
    BY <1>3 DEF EraseMeta, IInv, EraseInOrder, Erasing, Erased, Namespaces, Slots
  <2>2. head' \in {NoHead} \cup [slot : Slots, rev : 1..MaxRevision]
    BY <1>3 DEF EraseMeta, IInv, TypeOK
  <2>3. ~Holds(HeadRecord)' \/ head' = NoHead
    <3>1. SUFFICES ASSUME head' # NoHead PROVE ~(ns'[head'.slot] = Rec(head'.rev, ns'[head'.slot].cfg))
      BY DEF Holds, HeadRecord
    <3>2. head'.slot \in Namespaces
      BY <2>2, <3>1 DEF Namespaces
    <3>3. ns'[head'.slot].kind = "empty"
      BY <2>1, <3>2 DEF Erased, Empty, Blank
    <3>. QED  BY <3>3 DEF Rec
  <2>4. ns'["LEGACY"].kind # "record"
    BY <2>1 DEF Erased, Empty, Blank, Namespaces
  <2>. QED  BY <2>1, <2>3, <2>4 DEF Stored
<1>. QED  BY <1>1, <1>2, <1>3

\* Every step of the store is a step of the abstract configuration, or none.
LEMMA StepRefines == IInv /\ [Next]_vars => [Abstract!Next]_Stored
<1>. SUFFICES ASSUME IInv, [Next]_vars
              PROVE  Stored' = Stored \/ Abstract!Wipe \/ \E c \in Configs : Abstract!Update(c)
  BY DEF Abstract!Next
<1>1. CASE \/ MigrateActivate \/ MigrateStage \/ MigrateUnstage \/ ShedLegacy
           \/ StageCandidate \/ UnstageCandidate \/ Retire
  BY <1>1, MigrateActivateStutters, RecordWritesStutter
<1>2. CASE ActivateCandidate
  <2>1. job.cfg \in Configs
    BY <1>2 DEF IInv, OwnerShape, ActivateCandidate, Applying
  <2>. QED  BY <1>2, <2>1, ActivateCandidateUpdates
<1>3. CASE WriteTombstone \/ (\E s \in Namespaces : Erase(s)) \/ EraseMeta
  BY <1>3, ResetWipes
<1>4. CASE \/ PowerOn \/ LoadRejects \/ LoadActive \/ LoadSucceeds \/ LoadFails
           \/ TakeJob \/ BeginApply \/ VerifyCandidate \/ TrialConnect \/ Quarantine \/ RestoreConnect
           \/ JobRecovers \/ JobRollsBack \/ JobCommits \/ TakeReset \/ EndReset
  <2>1. UNCHANGED durable
    BY <1>4 DEF PowerOn, LoadRejects, LoadActive, LoadSucceeds, LoadFails, TakeJob, BeginApply,
                VerifyCandidate, TrialConnect, Quarantine, RestoreConnect, JobRecovers, JobRollsBack,
                JobCommits, TakeReset, EndReset
  <2>. QED  BY <2>1, StoredUntouched
<1>5. CASE Environment \/ UNCHANGED vars
  <2>1. UNCHANGED durable
    BY <1>5 DEF Environment, RequestReset, PostConnect, TakeConnect, StartSave, EndSave, PowerCut,
                SubmitJob, durable, vars
  <2>. QED  BY <2>1, StoredUntouched
<1>. QED  BY <1>1, <1>2, <1>3, <1>4, <1>5 DEF Next, Owner, Boot, Update, Reset

\* A freshly provisioned flash is an initial configuration.
LEMMA InitRefines == Init => Abstract!Init
<1>. SUFFICES ASSUME Init PROVE Stored \in {Missing} \cup [rev : 1..MaxRevision, cfg : Configs]
  BY DEF Abstract!Init, Abstract!Missing, Missing
<1>1. IInv /\ head = NoHead /\ ~reset
  BY InitIInv DEF Init
<1>2. CASE ns["LEGACY"].kind # "record"
  BY <1>1, <1>2 DEF Stored
<1>3. CASE ns["LEGACY"].kind = "record"
  <2>1. PICK c \in Configs : ns["LEGACY"] = Rec(1, c)
    BY <1>1, <1>3 DEF IInv, LegacyShape, Empty, Blank
  <2>2. Stored = [rev |-> 1, cfg |-> c]
    BY <1>1, <1>3, <2>1 DEF Stored, Rec
  <2>. QED  BY <2>2, ConfigStoreAssumption
<1>. QED  BY <1>2, <1>3

\* The store implements DeviceConfig: whatever fails, the configuration a
\* reader of the flash finds changes by one committed update or one reset at a
\* time, and what was replaced or removed never comes back.
THEOREM Refinement == Spec => DeviceConfigSpec
<1>1. Init => Abstract!Init
  BY InitRefines
<1>2. IInv /\ [Next]_vars => [Abstract!Next]_Stored
  BY StepRefines
<1>. QED  BY <1>1, <1>2, Inductive, PTL DEF Spec, DeviceConfigSpec, Abstract!Spec

\* "Not committed", which lets the transaction discard its candidate, is
\* reported only while the head is the one the update started from.
THEOREM NotCommitted == Spec => NotCommittedIsDurable
<1>1. IInv /\ [Next]_vars
        => [pc = "activate" /\ pc' = "restore" => head' = head /\ head = HeadOf(act)]_vars
  <2>. SUFFICES ASSUME IInv, Next, pc = "activate", pc' = "restore"
                PROVE  head' = head /\ head = HeadOf(act)
    OBVIOUS
  <2>1. head = HeadOf(act)
    BY DEF IInv, ActIsDurable, Applying
  <2>2. ActivateCandidate
    <3>1. ~Environment
      BY DEF Environment, RequestReset, PostConnect, TakeConnect, StartSave, EndSave, PowerCut, SubmitJob
    <3>2. ~Boot
      BY DEF Boot, PowerOn, LoadRejects, LoadActive, MigrateStage, MigrateActivate, MigrateUnstage,
             ShedLegacy, LoadSucceeds, LoadFails
    <3>3. ~Reset
      BY DEF Reset, TakeReset, WriteTombstone, Erase, EraseMeta, EndReset, ErasePc, Namespaces, Slots
    <3>4. Update => ActivateCandidate
      BY DEF Update, TakeJob, BeginApply, StageCandidate, VerifyCandidate, TrialConnect, Quarantine,
             RestoreConnect, UnstageCandidate, Retire, JobRecovers, JobRollsBack, JobCommits
    <3>. QED  BY <3>1, <3>2, <3>3, <3>4 DEF Next, Owner
  <2>3. Candidate \in [slot : Slots, rev : 0..MaxRevision, cfg : Configs \cup {NoConfig}]
    BY RecordTypes DEF Applying
  <2>4. TypeOK /\ ActivateRecord(Candidate, "retire", "restore", "quarantine")
    BY <2>2 DEF IInv, ActivateCandidate
  <2>5. pc' = "restore" => head' = head
    BY <2>3, <2>4, ActivateEffect
  <2>. QED  BY <2>1, <2>5
<1>. QED  BY <1>1, Inductive, PTL DEF Spec, NotCommittedIsDurable
-----------------------------------------------------------------------------
(* A job's or a reset's result says what the flash and the network hold,   *)
(* and the running device's snapshot is the stored configuration.  RInv    *)
(* follows the owner through an operation: which record the head names at  *)
(* each point, what has been erased by then and what the network is        *)
(* connected with.                                                         *)

\* Where the owner is at work on a record, with no reset pending.
Serving == Migrating \cup {"shedLegacy", "loaded", "apply"} \cup Applying \cup Ending

\* On the way back, and the results that say so.
Reverting == {"restore", "unstage", "rolledBack"}
Rollbacks == {"WIFI_UNREACHABLE_ROLLED_BACK", "PERSISTENCE_FAILED_ROLLED_BACK"}

\* The flash at each point: before the activation and on the way back it holds
\* the record the owner loaded, after it the candidate, and what an operation
\* discards is gone once it goes on.  Slot B is used by the second record only.
FlashShape ==
  /\ pc \in Serving => ~reset
  /\ pc = "loaded" /\ act.cfg # NoConfig => Holds(act)
  /\ pc \in {"apply"} \cup Applying \cup Reverting => head = HeadOf(act) /\ Holds(act)
  /\ pc \in {"retire", "committed"} =>
       act.slot \in Slots /\ head = HeadOf(Candidate) /\ Holds(Candidate)
  /\ pc = "committed" => ns[act.slot] = Empty
  /\ pc = "rolledBack" => ns[InactiveSlot] = Empty
  /\ head = NoHead => ns["B"] = Empty
  /\ op = "reset" /\ pc = "loaded" => Erased /\ head = NoHead
  /\ SlotMeansNoLegacy

\* The network and the result at each point.
OutcomeShape ==
  /\ pc \in {"activate", "retire", "committed"} => net = job.cfg
  /\ pc \in {"unstage", "rolledBack"} /\ result = "WIFI_UNREACHABLE_ROLLED_BACK" => net = act.cfg
  /\ pc \in Applying => result = "PERSISTENCE_FAILED_ROLLED_BACK"
  /\ op = "boot" \/ pc = "off" => result = "NONE"
  /\ op = "wifi" => result \in Rollbacks \cup {"NONE", "RECOVERY_REQUIRED"}
  /\ op = "reset" => result \in {"CONFIG_MISSING", "CONFIG_CORRUPT"}

\* A snapshot is there only while no reset is pending, and it is the stored
\* configuration except after an activation that is not yet reported.
SnapShape ==
  snap # Missing =>
    /\ ~reset /\ op \in {"none", "wifi"} /\ pc # "off"
    /\ pc \notin {"retire", "committed", "quarantine", "recovery"} => snap = Stored

\* What the results of finished operations say about the flash.
ResultsAreTrue == OkLeavesOneCopy /\ RollbackIsClean /\ ResetErases

RInv == FlashShape /\ OutcomeShape /\ SnapShape /\ ResultsAreTrue

----------------------------------------------------------------------------
\* Results.

\* While an operation runs, or after one that reported none of the results at
\* issue, there is nothing to show.
LEMMA ResultsOpen ==
  ASSUME op' # "none" \/ pc' # "idle"
         \/ result' \notin Rollbacks \cup {"OK", "CONFIG_MISSING"}
  PROVE  ResultsAreTrue'
BY DEF ResultsAreTrue, OkLeavesOneCopy, RollbackIsClean, ResetErases, Idle, Rollbacks

\* A result stays true while nobody writes.
LEMMA ResultsKept ==
  ASSUME RInv, UNCHANGED <<durable, result, pc, op>>
  PROVE  ResultsAreTrue'
<1>1. Stored' = Stored
  BY StoredUntouched
<1>2. (Erased' <=> Erased) /\ (Idle' <=> Idle)
  BY DEF Erased, Idle, durable
<1>3. OkLeavesOneCopy' /\ ResetErases'
  BY <1>2 DEF RInv, ResultsAreTrue, OkLeavesOneCopy, ResetErases, durable
<1>4. RollbackIsClean'
  BY <1>1, <1>2 DEF RInv, ResultsAreTrue, RollbackIsClean, durable
<1>. QED  BY <1>3, <1>4 DEF ResultsAreTrue

\* A discard that is reported as done is done, and was allowed.
LEMMA DiscardDone ==
  ASSUME TypeOK, NEW STATE s, s \in Namespaces,
         NEW ok, NEW fail, ok # fail, DiscardRecord(s, ok, fail), pc' = ok
  PROVE  ns'[s] = Empty /\ MayDiscard(s)
<1>1. PICK o \in WriteOutcomes(ns[s], Empty), readable \in BOOLEAN :
        /\ MayDiscard(s)
        /\ ns' = [ns EXCEPT ![s] = o.val]
        /\ pc' = IF ~o.err /\ readable THEN ok ELSE fail
  BY DEF DiscardRecord
<1>2. ~o.err
  BY <1>1
<1>3. o.val = Empty
  BY <1>2, WriteSucceeds
<1>. QED  BY <1>1, <1>3 DEF TypeOK

\* A freshly provisioned device satisfies the invariant.
LEMMA InitRInv == Init => RInv
<1>. SUFFICES ASSUME Init PROVE RInv
  OBVIOUS
<1>1. pc = "off" /\ op = "none" /\ act = NoRecord /\ snap = Missing /\ result = "NONE"
  BY DEF Init
<1>2. ns["B"] = Empty
  BY DEF Init, Namespaces, Slots
<1>3. FlashShape
  BY <1>1, <1>2 DEF FlashShape, Serving, Migrating, Applying, Ending, Reverting,
                    SlotMeansNoLegacy, NoRecord, Slots
<1>4. OutcomeShape
  BY <1>1 DEF OutcomeShape, Applying
<1>5. SnapShape /\ ResultsAreTrue
  BY <1>1 DEF SnapShape, ResultsAreTrue, OkLeavesOneCopy, RollbackIsClean, ResetErases, Idle
<1>. QED  BY <1>3, <1>4, <1>5 DEF RInv

----------------------------------------------------------------------------
\* Steps that leave the flash alone.

\* Callers, the state task, preference writers and refused loads.
LEMMA BystanderResults ==
  IInv /\ RInv /\ (RequestReset \/ PostConnect \/ TakeConnect \/ StartSave \/ EndSave
                   \/ \E c \in Configs : SubmitJob(c)) => RInv'
<1>. SUFFICES ASSUME IInv, RInv,
                     RequestReset \/ PostConnect \/ TakeConnect \/ StartSave \/ EndSave
                     \/ \E c \in Configs : SubmitJob(c)
              PROVE  RInv'
  OBVIOUS
<1>1. UNCHANGED <<durable, pc, op, act, snap, result>>
  BY DEF RequestReset, PostConnect, TakeConnect, StartSave, EndSave, SubmitJob
<1>2. op = "wifi" => UNCHANGED <<job, net>>
  BY DEF IInv, OwnerShape, RequestReset, PostConnect, TakeConnect, StartSave, EndSave, SubmitJob
<1>3. pc \in Applying \cup Ending => op = "wifi"
  BY DEF IInv, OwnerShape
<1>4. FlashShape'
  BY <1>1, <1>2, <1>3
     DEF RInv, FlashShape, durable, Holds, Candidate, InactiveSlot, Erased, SlotMeansNoLegacy, Ending
<1>5. OutcomeShape'
  BY <1>1, <1>2, <1>3 DEF RInv, OutcomeShape, Applying, Ending
<1>6. SnapShape'
  BY <1>1, StoredUntouched DEF RInv, SnapShape, durable
<1>. QED  BY <1>1, <1>4, <1>5, <1>6, ResultsKept DEF RInv

\* What a step that leaves the flash, act and job alone has to show.
LEMMA FlashNeutral ==
  ASSUME RInv, UNCHANGED <<durable, act, job>>,
         pc' \in Serving => pc \in Serving,
         pc' = "loaded" => pc = "loaded" /\ UNCHANGED op,
         pc' \in {"apply"} \cup Applying \cup Reverting =>
           pc \in {"apply"} \cup Applying \cup Reverting,
         pc' \notin {"retire", "committed", "rolledBack"},
         pc \notin {"shedLegacy", "loadError"} \/ pc' \in {"shedLegacy", "loadError"}
  PROVE  FlashShape'
<1>1. UNCHANGED <<Candidate, InactiveSlot, Erased>>
  BY DEF Candidate, InactiveSlot, Erased, durable
<1>2. SlotMeansNoLegacy'
  BY DEF RInv, FlashShape, SlotMeansNoLegacy, durable
<1>. QED  BY <1>1, <1>2 DEF RInv, FlashShape, durable, Holds

\* Steps of an update that move on without a write: the network follows the trial,
\* the way back and the quarantine.
LEMMA TrialResults ==
  IInv /\ RInv /\ (VerifyCandidate \/ TrialConnect \/ RestoreConnect \/ Quarantine) => RInv'
<1>. SUFFICES ASSUME IInv, RInv,
                     VerifyCandidate \/ TrialConnect \/ RestoreConnect \/ Quarantine
              PROVE  RInv'
  OBVIOUS
<1>1. /\ UNCHANGED <<durable, op, act, job, snap>> /\ op = "wifi"
      /\ pc \in {"verify", "trial", "restore", "quarantine"}
      /\ pc' \in {"trial", "activate", "restore", "unstage", "recovery"}
      /\ pc = "quarantine" <=> pc' = "recovery"
  BY DEF IInv, OwnerShape, Applying, Ending, VerifyCandidate, TrialConnect, RestoreConnect,
         Quarantine
<1>2. FlashShape'
  BY <1>1, FlashNeutral DEF Serving, Applying, Ending, Reverting, Migrating
<1>3. OutcomeShape'
  BY <1>1 DEF RInv, OutcomeShape, Applying, Rollbacks, VerifyCandidate, TrialConnect,
              RestoreConnect, Quarantine
<1>4. SnapShape'
  BY <1>1, StoredUntouched DEF RInv, SnapShape, durable
<1>5. ResultsAreTrue'
  BY <1>1, ResultsOpen
<1>. QED  BY <1>2, <1>3, <1>4, <1>5 DEF RInv

\* Taking a job or a reset, switching on and rejecting a load: the owner begins
\* or gives up.
LEMMA BeginResults ==
  IInv /\ RInv /\ (TakeJob \/ TakeReset \/ PowerOn \/ LoadRejects) => RInv'
<1>. SUFFICES ASSUME IInv, RInv, TakeJob \/ TakeReset \/ PowerOn \/ LoadRejects PROVE RInv'
  OBVIOUS
<1>1. /\ UNCHANGED <<durable, act, job>> /\ pc \in {"off", "idle", "load"}
      /\ pc' \in {"load", "tombstone", "loadError"} /\ op' # "none"
  BY DEF IInv, OwnerShape, TakeJob, TakeReset, PowerOn, LoadRejects
<1>2. FlashShape'
  BY <1>1, FlashNeutral DEF Serving, Applying, Ending, Reverting, Migrating
<1>3. OutcomeShape'
  BY <1>1 DEF IInv, OwnerShape, RInv, OutcomeShape, Applying, TakeJob, TakeReset, PowerOn,
              LoadRejects
<1>4. SnapShape'
  BY <1>1, StoredUntouched
     DEF IInv, OwnerShape, RInv, SnapShape, durable, TakeJob, TakeReset, PowerOn, LoadRejects
<1>5. ResultsAreTrue'
  BY <1>1, ResultsOpen
<1>. QED  BY <1>2, <1>3, <1>4, <1>5 DEF RInv

\* A load remembers the record it found; it serves none from a slot before the
\* legacy secrets were shed.
LEMMA LoadActiveResults == IInv /\ RInv /\ LoadActive => RInv'
<1>. SUFFICES ASSUME IInv, RInv, LoadActive PROVE RInv'
  OBVIOUS
<1>1. /\ pc = "load" /\ op \in {"boot", "wifi"}
      /\ UNCHANGED <<durable, op, job, snap, net, result>>
      /\ pc' \in {"eraseLEGACY", "shedLegacy", "loaded", "migStage"}
  BY DEF IInv, TypeOK, OwnerShape, Erasing, LoadActive, queued, FirstErase
<1>2. FlashShape'
  <2>1. pc' # "eraseLEGACY" => ~reset
    BY <1>1 DEF LoadActive, FirstErase, ResetIsPending
  <2>2. pc' = "loaded" /\ act'.cfg # NoConfig => FALSE
    <3>1. SUFFICES ASSUME pc' = "loaded", ns["LEGACY"].kind # "record",
                          act' = [slot |-> "LEGACY", rev |-> 1, cfg |-> ns["LEGACY"].cfg]
                   PROVE  act'.cfg = NoConfig
      BY <1>1 DEF LoadActive, FirstErase, NoRecord
    <3>. QED  BY <3>1 DEF IInv, LegacyShape, Empty, Blank, Rec
  <2>3. act'.slot \in Slots => pc' = "shedLegacy"
    BY <1>1 DEF LoadActive, FirstErase, NoRecord, Slots
  <2>. QED  BY <1>1, <2>1, <2>2, <2>3
            DEF RInv, FlashShape, SlotMeansNoLegacy, Serving, Applying, Ending, Reverting,
                Migrating, durable
<1>3. OutcomeShape'
  BY <1>1 DEF RInv, OutcomeShape, Applying
<1>4. SnapShape'
  BY <1>1, StoredUntouched DEF RInv, SnapShape, durable
<1>5. ResultsAreTrue'
  BY <1>1, ResultsOpen
<1>. QED  BY <1>2, <1>3, <1>4, <1>5 DEF RInv

\* The stored configuration is the record the owner works on, from the load to
\* the activation and on the way back.
LEMMA StoredIsHeld ==
  ASSUME IInv, ~reset, act.slot \in Namespaces, act.cfg # NoConfig,
         head = HeadOf(act), Holds(act)
  PROVE  Stored = [rev |-> act.rev, cfg |-> act.cfg]
<1>1. CASE act.slot = "LEGACY"
  <2>1. head = NoHead /\ ns["LEGACY"] = Rec(act.rev, act.cfg)
    BY <1>1 DEF HeadOf, Holds
  <2>2. PICK c \in Configs : ns["LEGACY"] = Rec(1, c)
    BY <2>1 DEF IInv, LegacyShape, Empty, Blank, Rec
  <2>3. act.rev = 1
    BY <2>1, <2>2 DEF Rec
  <2>. QED  BY <2>1, <2>3 DEF Stored, Rec
<1>2. CASE act.slot \in Slots
  <2>1. head = [slot |-> act.slot, rev |-> act.rev] /\ ns[act.slot] = Rec(act.rev, act.cfg)
    BY <1>2 DEF HeadOf, Holds, Slots
  <2>2. head # NoHead
    BY <1>2, <2>1 DEF NoHead, Slots
  <2>. QED  BY <2>1, <2>2 DEF Stored, HeadRecord, Holds, Rec
<1>. QED  BY <1>1, <1>2 DEF Namespaces

\* Before the activation and on the way back, that record is stored.
LEMMA StoredIsOld ==
  ASSUME IInv, RInv, pc \in {"apply"} \cup Applying \cup Reverting
  PROVE  Stored = [rev |-> act.rev, cfg |-> act.cfg]
<1>1. act.slot \in Namespaces /\ act.cfg # NoConfig
  BY ConfigStoreAssumption DEF IInv, ActIsDurable, Applying, Ending, Reverting
<1>2. ~reset /\ head = HeadOf(act) /\ Holds(act)
  BY DEF RInv, FlashShape, Serving, Applying, Ending, Reverting
<1>. QED  BY <1>1, <1>2, StoredIsHeld

\* After it, the candidate is.
LEMMA StoredIsNew ==
  ASSUME IInv, RInv, pc \in {"retire", "committed"}
  PROVE  Stored = [rev |-> Candidate.rev, cfg |-> Candidate.cfg]
<1>1. ~reset /\ head = HeadOf(Candidate) /\ Holds(Candidate)
  BY DEF RInv, FlashShape, Serving, Ending
<1>2. Candidate.slot \in Slots
  BY RecordTypes DEF Ending
<1>3. head = [slot |-> Candidate.slot, rev |-> Candidate.rev] /\ head # NoHead
  BY <1>1, <1>2 DEF HeadOf, NoHead, Slots
<1>. QED  BY <1>1, <1>3 DEF Stored, HeadRecord, Holds, Rec

----------------------------------------------------------------------------
\* The ends of loads, jobs and resets.

\* A step after which the owner is idle has nothing to show about the flash.
LEMMA FlashAtRest ==
  ASSUME RInv, UNCHANGED durable, pc' \in {"idle", "off"},
         act'.slot \notin Slots
  PROVE  FlashShape'
BY DEF RInv, FlashShape, durable, Serving, Migrating, Applying, Ending, Reverting,
       SlotMeansNoLegacy

\* The device boots from the stored configuration; an update goes on from it.
LEMMA LoadSucceedsResults == IInv /\ RInv /\ LoadSucceeds => RInv'
<1>. SUFFICES ASSUME IInv, RInv, LoadSucceeds PROVE RInv'
  OBVIOUS
<1>1. pc = "loaded" /\ op \in {"boot", "wifi"} /\ UNCHANGED <<durable, net>> /\ ~reset
  BY DEF LoadSucceeds, RInv, FlashShape, Serving
<1>2. act.cfg # NoConfig =>
        act.slot \in Namespaces /\ head = HeadOf(act) /\ Holds(act)
        /\ Stored = [rev |-> act.rev, cfg |-> act.cfg]
  <2>. SUFFICES ASSUME act.cfg # NoConfig
                PROVE  act.slot \in Namespaces /\ head = HeadOf(act) /\ Holds(act)
                       /\ Stored = [rev |-> act.rev, cfg |-> act.cfg]
    OBVIOUS
  <2>1. act.slot \in Namespaces
    BY DEF IInv, TypeOK, NoRecord
  <2>2. head = HeadOf(act) /\ Holds(act)
    BY <1>1 DEF IInv, ActIsDurable, RInv, FlashShape
  <2>. QED  BY <1>1, <2>1, <2>2, StoredIsHeld
<1>3. Stored' = Stored
  BY <1>1, StoredUntouched
<1>4. CASE op = "boot"
  <2>1. pc' = "idle" /\ op' = "none" /\ act' = NoRecord /\ result' = "NONE"
        /\ snap' = IF act.cfg = NoConfig THEN Missing ELSE [rev |-> act.rev, cfg |-> act.cfg]
    BY <1>4 DEF LoadSucceeds, RInv, OutcomeShape
  <2>2. FlashShape'
    BY <1>1, <2>1, FlashAtRest DEF NoRecord, Slots
  <2>3. OutcomeShape'
    BY <2>1 DEF OutcomeShape, Applying
  <2>4. SnapShape'
    BY <1>1, <1>2, <1>3, <2>1 DEF SnapShape, durable
  <2>. QED  BY <2>1, <2>2, <2>3, <2>4, ResultsOpen DEF RInv, Rollbacks
<1>5. CASE op = "wifi" /\ pc' = "idle"
  <2>1. op' = "none" /\ act' = NoRecord /\ result' \in {"NOT_READY", "INTERNAL_ERROR"}
        /\ UNCHANGED snap
    BY <1>5 DEF LoadSucceeds, FinishJob
  <2>2. FlashShape'
    BY <1>1, <1>5, <2>1, FlashAtRest DEF NoRecord, Slots
  <2>3. OutcomeShape'
    BY <1>5, <2>1 DEF OutcomeShape, Applying
  <2>4. SnapShape'
    BY <1>1, <1>3, <1>5, <2>1 DEF RInv, SnapShape, durable
  <2>. QED  BY <2>1, <2>2, <2>3, <2>4, ResultsOpen DEF RInv, Rollbacks
<1>6. CASE op = "wifi" /\ pc' = "apply"
  <2>1. act.cfg # NoConfig /\ UNCHANGED <<op, act, job, result, snap>>
    BY <1>6 DEF LoadSucceeds, FinishJob, NoRecord
  <2>2. FlashShape'
    BY <1>1, <1>2, <1>6, <2>1
       DEF RInv, FlashShape, Serving, Applying, Ending, Reverting, Migrating, durable, Holds,
           SlotMeansNoLegacy
  <2>3. OutcomeShape'
    BY <1>6, <2>1 DEF RInv, OutcomeShape, Applying
  <2>4. SnapShape'
    BY <1>1, <1>3, <1>6, <2>1 DEF RInv, SnapShape, durable
  <2>. QED  BY <1>6, <2>2, <2>3, <2>4, ResultsOpen DEF RInv
<1>. QED  BY <1>1, <1>4, <1>5, <1>6 DEF LoadSucceeds, FinishJob

\* A load that failed and a job that could not be applied leave things as they
\* were, and say so.
LEMMA GivesUpResults ==
  IInv /\ RInv /\ (LoadFails \/ (BeginApply /\ pc' = "idle") \/ JobRecovers) => RInv'
<1>. SUFFICES ASSUME IInv, RInv, LoadFails \/ (BeginApply /\ pc' = "idle") \/ JobRecovers
              PROVE  RInv'
  OBVIOUS
<1>1. /\ UNCHANGED durable /\ pc' = "idle" /\ op' = "none" /\ act' = NoRecord
      /\ result' \notin Rollbacks \cup {"OK", "CONFIG_MISSING"}
      /\ snap' \in {snap, Missing} /\ op \in {"boot", "wifi"}
      /\ pc \in {"recovery", "rolledBack"} => snap' = Missing
      /\ pc \in {"recovery", "rolledBack", "loadError", "apply"}
  BY DEF IInv, OwnerShape, Ending, RInv, OutcomeShape, LoadFails, BeginApply, JobRecovers,
         FinishJob, Rollbacks, queued
<1>2. FlashShape'
  BY <1>1, FlashAtRest DEF NoRecord, Slots
<1>3. OutcomeShape'
  BY <1>1 DEF OutcomeShape, Applying
<1>4. SnapShape'
  BY <1>1, StoredUntouched DEF RInv, SnapShape, durable
<1>. QED  BY <1>1, <1>2, <1>3, <1>4, ResultsOpen DEF RInv

\* An update begins on the record it loaded.
LEMMA BeginApplyResults == IInv /\ RInv /\ BeginApply => RInv'
<1>. SUFFICES ASSUME IInv, RInv, BeginApply PROVE RInv'
  OBVIOUS
<1>1. CASE pc' = "stage"
  <2>1. /\ pc = "apply" /\ result' = "PERSISTENCE_FAILED_ROLLED_BACK"
        /\ UNCHANGED <<durable, op, act, job, snap, net>> /\ op = "wifi"
    BY <1>1 DEF BeginApply, FinishJob, IInv, OwnerShape
  <2>2. FlashShape'
    BY <1>1, <2>1, FlashNeutral DEF Serving, Applying, Ending, Reverting, Migrating
  <2>3. OutcomeShape'
    BY <1>1, <2>1 DEF OutcomeShape, Applying, Rollbacks
  <2>4. SnapShape'
    BY <1>1, <2>1, StoredUntouched DEF RInv, SnapShape, durable
  <2>. QED  BY <1>1, <2>2, <2>3, <2>4, ResultsOpen DEF RInv
<1>. QED  BY <1>1, GivesUpResults DEF BeginApply, FinishJob

\* A rollback that is reported has removed its candidate and serves the record
\* it began with, on whose network the station is if the trial was made.
LEMMA JobRollsBackResults ==
  IInv /\ RInv /\ JobRollsBack =>
    RInv' /\ (result' = "WIFI_UNREACHABLE_ROLLED_BACK" => net' = Stored'.cfg)
<1>. SUFFICES ASSUME IInv, RInv, JobRollsBack
              PROVE  RInv' /\ (result' = "WIFI_UNREACHABLE_ROLLED_BACK" => net' = Stored'.cfg)
  OBVIOUS
<1>1. /\ pc = "rolledBack" /\ op = "wifi" /\ UNCHANGED <<durable, snap, net, result>>
      /\ pc' = "idle" /\ op' = "none" /\ act' = NoRecord
      /\ result \in Rollbacks \cup {"NONE"}
  BY DEF IInv, OwnerShape, Ending, RInv, OutcomeShape, JobRollsBack, FinishJob
<1>2. Stored = [rev |-> act.rev, cfg |-> act.cfg] /\ Stored' = Stored
  BY <1>1, StoredIsOld, StoredUntouched DEF Reverting
<1>3. act.slot \in Namespaces /\ act.cfg # NoConfig
  BY <1>1, ConfigStoreAssumption DEF IInv, ActIsDurable, Ending
<1>4. FlashShape'
  BY <1>1, FlashAtRest DEF NoRecord, Slots
<1>5. OutcomeShape'
  BY <1>1 DEF OutcomeShape, Applying
<1>6. SnapShape'
  BY <1>1, <1>2 DEF RInv, SnapShape, durable
<1>7. RollbackIsClean'
  <2>1. head = HeadOf(act) /\ ns[InactiveSlot] = Empty /\ (head = NoHead => ns["B"] = Empty)
    BY <1>1 DEF RInv, FlashShape, Reverting
  <2>2. \A s \in Slots \ {head.slot} : ns[s] = Empty
    <3>1. CASE act.slot = "LEGACY"
      BY <2>1, <3>1 DEF HeadOf, NoHead, InactiveSlot, Slots
    <3>2. CASE act.slot \in Slots
      BY <2>1, <3>2 DEF HeadOf, InactiveSlot, Slots
    <3>. QED  BY <1>3, <3>1, <3>2 DEF Namespaces
  <2>3. Stored # Missing
    BY <1>2, <1>3 DEF Missing
  <2>. QED  BY <1>1, <1>2, <2>2, <2>3 DEF RollbackIsClean, durable
<1>8. ResultsAreTrue'
  BY <1>1, <1>7 DEF ResultsAreTrue, OkLeavesOneCopy, ResetErases, Rollbacks
<1>9. result' = "WIFI_UNREACHABLE_ROLLED_BACK" => net' = Stored'.cfg
  BY <1>1, <1>2 DEF RInv, OutcomeShape
<1>. QED  BY <1>4, <1>5, <1>6, <1>8, <1>9 DEF RInv

\* An update that reports OK is stored, is the snapshot and the network, and is
\* the only record left.
LEMMA JobCommitsResults ==
  IInv /\ RInv /\ JobCommits => RInv' /\ (result' = "OK" => net' = Stored'.cfg)
<1>. SUFFICES ASSUME IInv, RInv, JobCommits
              PROVE  RInv' /\ (result' = "OK" => net' = Stored'.cfg)
  OBVIOUS
<1>1. /\ pc = "committed" /\ op = "wifi" /\ UNCHANGED <<durable, net>>
      /\ pc' = "idle" /\ op' = "none" /\ act' = NoRecord
      /\ result' \in {"OK", "INTERNAL_ERROR"}
      /\ snap' \in {Missing, [rev |-> Candidate.rev, cfg |-> Candidate.cfg]}
  BY DEF IInv, OwnerShape, Ending, JobCommits, FinishJob
<1>2. Stored' = [rev |-> Candidate.rev, cfg |-> Candidate.cfg]
  BY <1>1, StoredIsNew, StoredUntouched
<1>3. ~reset /\ net = job.cfg
  BY <1>1 DEF RInv, FlashShape, OutcomeShape, Serving, Ending
<1>4. FlashShape'
  BY <1>1, FlashAtRest DEF NoRecord, Slots
<1>5. OutcomeShape'
  BY <1>1 DEF OutcomeShape, Applying
<1>6. SnapShape'
  BY <1>1, <1>2, <1>3 DEF SnapShape, durable
<1>7. OkLeavesOneCopy'
  <2>1. /\ act.slot \in Slots /\ head = HeadOf(Candidate) /\ ns[act.slot] = Empty
        /\ ns["LEGACY"] = Empty
    BY <1>1 DEF RInv, FlashShape, SlotMeansNoLegacy
  <2>2. head.slot = InactiveSlot
    BY <2>1 DEF HeadOf, Candidate, InactiveSlot, Slots
  <2>3. \A s \in Namespaces \ {head.slot} : ns[s] = Empty
    BY <2>1, <2>2 DEF InactiveSlot, Namespaces, Slots
  <2>. QED  BY <1>1, <2>3 DEF OkLeavesOneCopy, durable
<1>8. ResultsAreTrue'
  BY <1>1, <1>7 DEF ResultsAreTrue, RollbackIsClean, ResetErases
<1>. QED  BY <1>1, <1>2, <1>3, <1>4, <1>5, <1>6, <1>8 DEF RInv, Candidate

\* A reset that reports success has erased everything.
LEMMA EndResetResults == IInv /\ RInv /\ EndReset => RInv'
<1>. SUFFICES ASSUME IInv, RInv, EndReset PROVE RInv'
  OBVIOUS
<1>1. /\ pc \in {"loaded", "loadError"} /\ op = "reset" /\ UNCHANGED <<durable, act, snap>>
      /\ pc' = "idle" /\ op' = "none"
      /\ result' \in {"CONFIG_MISSING", "CONFIG_CORRUPT"}
      /\ result' = "CONFIG_MISSING" => pc = "loaded"
  BY DEF EndReset, RInv, OutcomeShape
<1>2. act' = NoRecord
  BY <1>1 DEF IInv, NothingLoaded
<1>3. FlashShape'
  BY <1>1, <1>2, FlashAtRest DEF NoRecord, Slots
<1>4. OutcomeShape'
  BY <1>1 DEF OutcomeShape, Applying
<1>5. SnapShape'
  BY <1>1 DEF RInv, SnapShape
<1>6. ResetErases'
  BY <1>1 DEF RInv, FlashShape, Serving, ResetErases, Erased, durable
<1>7. ResultsAreTrue'
  BY <1>1, <1>6 DEF ResultsAreTrue, RollbackIsClean, OkLeavesOneCopy
<1>. QED  BY <1>3, <1>4, <1>5, <1>7 DEF RInv

\* A power cut forgets everything but the flash.
LEMMA PowerCutResults == IInv /\ RInv /\ PowerCut => RInv'
<1>. SUFFICES ASSUME IInv, RInv, PowerCut PROVE RInv'
  OBVIOUS
<1>1. /\ pc' = "off" /\ op' = "none" /\ act' = NoRecord /\ snap' = Missing
      /\ result' = "NONE" /\ UNCHANGED durable
  BY DEF PowerCut
<1>2. FlashShape'
  BY <1>1, FlashAtRest DEF NoRecord, Slots
<1>3. OutcomeShape' /\ SnapShape'
  BY <1>1 DEF OutcomeShape, SnapShape, Applying
<1>. QED  BY <1>1, <1>2, <1>3, ResultsOpen DEF RInv

----------------------------------------------------------------------------
\* Steps that write.

\* The legacy record is copied to slot A.
LEMMA MigrateStageResults == IInv /\ RInv /\ MigrateStage => RInv'
<1>. SUFFICES ASSUME IInv, RInv, MigrateStage PROVE RInv'
  OBVIOUS
<1>1. pc = "migStage" /\ UNCHANGED <<head, reset, op, act, job, snap, net, result>>
  BY DEF MigrateStage, queued
<1>2. /\ pc' \in {"migActivate", "migUnstage"}
      /\ \A s \in Namespaces : s # "A" => ns'[s] = ns[s]
  <2>1. Migrated \in [slot : Slots, rev : 0..MaxRevision, cfg : Configs \cup {NoConfig}]
    BY <1>1, RecordTypes DEF Migrating
  <2>. QED  BY <2>1, StageEffect DEF IInv, MigrateStage, Migrated
<1>3. act.slot = "LEGACY"
  BY <1>1 DEF IInv, ActIsDurable, Migrating
<1>4. FlashShape'
  BY <1>1, <1>2, <1>3 DEF RInv, FlashShape, Serving, Migrating, Applying, Ending, Reverting,
                          SlotMeansNoLegacy, Namespaces, Slots
<1>5. OutcomeShape'
  BY <1>1, <1>2 DEF RInv, OutcomeShape, Applying
<1>6. SnapShape'
  BY <1>1, <1>2, RecordWritesStutter DEF RInv, SnapShape
<1>. QED  BY <1>2, <1>4, <1>5, <1>6, ResultsOpen DEF RInv

\* The head is moved to the copy, or the migration is given up.
LEMMA MigrateActivateResults == IInv /\ RInv /\ MigrateActivate => RInv'
<1>. SUFFICES ASSUME IInv, RInv, MigrateActivate PROVE RInv'
  OBVIOUS
<1>1. /\ pc = "migActivate" /\ UNCHANGED <<reset, ns, op, job, snap, net, result>>
      /\ act' = IF pc' = "shedLegacy" THEN Migrated ELSE act
  BY DEF MigrateActivate, queued
<1>2. /\ pc' \in {"shedLegacy", "migUnstage", "loadError"}
      /\ head' \in {head, HeadOf(Migrated)}
  <2>1. Migrated \in [slot : Slots, rev : 0..MaxRevision, cfg : Configs \cup {NoConfig}]
    BY <1>1, RecordTypes DEF Migrating
  <2>. QED  BY <2>1, ActivateEffect DEF IInv, MigrateActivate
<1>3. act.slot = "LEGACY" /\ HeadOf(Migrated) # NoHead
  BY <1>1 DEF IInv, ActIsDurable, Migrating, HeadOf, Migrated, NoHead
<1>4. FlashShape'
  BY <1>1, <1>2, <1>3 DEF RInv, FlashShape, Serving, Migrating, Applying, Ending, Reverting,
                          SlotMeansNoLegacy, Slots
<1>5. OutcomeShape'
  BY <1>1, <1>2 DEF RInv, OutcomeShape, Applying
<1>6. SnapShape'
  BY <1>1, <1>2, MigrateActivateStutters DEF RInv, SnapShape
<1>. QED  BY <1>2, <1>4, <1>5, <1>6, ResultsOpen DEF RInv

\* A migration given up goes on with the legacy record; one carried out sheds it.
LEMMA LoadDiscardResults == IInv /\ IInv' /\ RInv /\ (MigrateUnstage \/ ShedLegacy) => RInv'
<1>. SUFFICES ASSUME IInv, IInv', RInv, MigrateUnstage \/ ShedLegacy PROVE RInv'
  OBVIOUS
<1>. DEFINE s == IF pc = "migUnstage" THEN "A" ELSE "LEGACY"
<1>1. /\ pc \in {"migUnstage", "shedLegacy"}
      /\ UNCHANGED <<head, reset, op, act, job, snap, net, result>>
      /\ DiscardRecord(s, "loaded", "loadError")
  BY DEF MigrateUnstage, ShedLegacy, queued
<1>2. s \in Namespaces
  BY DEF Namespaces, Slots
<1>3. /\ pc' \in {"loaded", "loadError"}
      /\ \A t \in Namespaces : t # s \/ ns[t] = Empty => ns'[t] = ns[t]
      /\ pc' = "loaded" => ns'[s] = Empty
  BY <1>1, <1>2, DiscardEffect, DiscardDone DEF IInv
<1>4. Stored' = Stored /\ (op = "wifi" \/ op = "boot")
  BY <1>1, RecordWritesStutter DEF IInv, TypeOK, OwnerShape, Erasing
<1>5. FlashShape'
  <2>1. CASE pc = "migUnstage"
    <3>1. act.slot = "LEGACY" /\ Holds(act)
      BY <2>1 DEF IInv, ActIsDurable, Migrating
    <3>2. Holds(act)'
      BY <1>1, <1>3, <2>1, <3>1 DEF Holds, Namespaces
    <3>. QED  BY <1>1, <1>3, <1>4, <2>1, <3>1, <3>2
              DEF RInv, FlashShape, Serving, Migrating, Applying, Ending, Reverting,
                  SlotMeansNoLegacy, Namespaces, Slots
  <2>2. CASE pc = "shedLegacy"
    <3>1. act.slot \in Slots /\ (pc' = "loaded" => Holds(act)')
      BY <1>1, <2>2 DEF IInv, ActIsDurable
    <3>. QED  BY <1>1, <1>3, <1>4, <2>2, <3>1
              DEF RInv, FlashShape, Serving, Migrating, Applying, Ending, Reverting,
                  SlotMeansNoLegacy, Namespaces, Slots
  <2>. QED  BY <1>1, <2>1, <2>2
<1>6. OutcomeShape'
  BY <1>1, <1>3 DEF RInv, OutcomeShape, Applying
<1>7. SnapShape'
  BY <1>1, <1>3, <1>4 DEF RInv, SnapShape
<1>. QED  BY <1>3, <1>5, <1>6, <1>7, ResultsOpen DEF RInv

\* Staging writes the slot the active record is not in.
LEMMA StageCandidateResults == IInv /\ RInv /\ StageCandidate => RInv'
<1>. SUFFICES ASSUME IInv, RInv, StageCandidate PROVE RInv'
  OBVIOUS
<1>1. pc = "stage" /\ UNCHANGED <<head, reset, op, act, job, snap, net, result>>
  BY DEF StageCandidate, queued
<1>2. Candidate \in [slot : Slots, rev : 0..MaxRevision, cfg : Configs \cup {NoConfig}]
      /\ Candidate.slot = InactiveSlot /\ act.slot \in Namespaces
  BY <1>1, RecordTypes DEF Applying, Candidate
<1>3. /\ pc' \in {"verify", "unstage"}
      /\ \A s \in Namespaces : s # InactiveSlot => ns'[s] = ns[s]
  BY <1>2, StageEffect DEF IInv, StageCandidate
<1>4. FlashShape'
  <2>1. head = HeadOf(act) /\ Holds(act)
    BY <1>1 DEF RInv, FlashShape, Applying
  <2>2. Holds(act)'
    BY <1>1, <1>2, <1>3, <2>1 DEF Holds, InactiveSlot, Namespaces, Slots
  <2>3. head = NoHead => InactiveSlot = "A"
    BY <1>2, <2>1 DEF HeadOf, NoHead, InactiveSlot, Namespaces, Slots
  <2>4. InactiveSlot # "LEGACY"
    BY DEF InactiveSlot
  <2>. QED  BY <1>1, <1>3, <2>1, <2>2, <2>3, <2>4
            DEF RInv, FlashShape, Serving, Migrating, Applying, Ending, Reverting,
                SlotMeansNoLegacy, Namespaces, Slots
<1>5. OutcomeShape'
  BY <1>1, <1>3 DEF RInv, OutcomeShape, Applying
<1>6. SnapShape'
  BY <1>1, <1>3, RecordWritesStutter DEF RInv, SnapShape
<1>. QED  BY <1>3, <1>4, <1>5, <1>6, ResultsOpen DEF RInv

\* The activation leaves the old record served, or serves the candidate, or is
\* followed by the quarantine.
LEMMA ActivateCandidateResults == IInv /\ RInv /\ ActivateCandidate => RInv'
<1>. SUFFICES ASSUME IInv, RInv, ActivateCandidate PROVE RInv'
  OBVIOUS
<1>1. pc = "activate" /\ UNCHANGED <<reset, ns, op, act, job, snap, net, result>>
  BY DEF ActivateCandidate, queued
<1>2. Candidate \in [slot : Slots, rev : 0..MaxRevision, cfg : Configs \cup {NoConfig}]
      /\ act.slot \in Namespaces
  BY <1>1, RecordTypes DEF Applying
<1>3. /\ pc' \in {"retire", "restore", "quarantine"}
      /\ head' \in {head, HeadOf(Candidate)}
      /\ pc' = "retire" => Holds(Candidate) /\ head' = HeadOf(Candidate) /\ ValidSuccessor(Candidate)
      /\ pc' = "restore" => head' = head
  <2>1. TypeOK /\ ActivateRecord(Candidate, "retire", "restore", "quarantine")
    BY DEF IInv, ActivateCandidate
  <2>2. "retire" # "restore" /\ "restore" # "quarantine" /\ "retire" # "quarantine"
    OBVIOUS
  <2>3. /\ head' \in {head, HeadOf(Candidate)} /\ pc' \in {"retire", "restore", "quarantine"}
        /\ pc' = "retire" => Holds(Candidate) /\ head' = HeadOf(Candidate)
                              /\ ValidSuccessor(Candidate)
        /\ pc' = "restore" => head' = head
    BY <1>2, <2>1, <2>2, ActivateEffect, Zenon
  <2>. QED  BY <2>3
<1>4. UNCHANGED <<Candidate, InactiveSlot>>
  BY <1>1 DEF Candidate, InactiveSlot
<1>5. FlashShape'
  <2>1. head = HeadOf(act) /\ Holds(act)
    BY <1>1 DEF RInv, FlashShape, Applying
  <2>2. HeadOf(Candidate) # NoHead
    BY <1>2 DEF HeadOf, NoHead, Slots
  <2>3. pc' = "retire" => act.slot \in Slots
    <3>1. act.rev \in 1..MaxRevision
      BY <1>1, <1>2 DEF IInv, TypeOK, NoRecord, Namespaces, Slots
    <3>. QED  BY <1>2, <1>3, <3>1 DEF ValidSuccessor, Candidate, Namespaces
  <2>. QED  BY <1>1, <1>3, <1>4, <2>1, <2>2, <2>3
            DEF RInv, FlashShape, Serving, Migrating, Applying, Ending, Reverting,
                SlotMeansNoLegacy, Holds
<1>6. OutcomeShape'
  BY <1>1, <1>3 DEF RInv, OutcomeShape, Applying
<1>7. SnapShape'
  <2>1. pc' = "restore" => Stored' = Stored
    BY <1>1, <1>3, StoredUntouched DEF durable
  <2>. QED  BY <1>1, <1>3, <2>1 DEF RInv, SnapShape
<1>. QED  BY <1>3, <1>5, <1>6, <1>7, ResultsOpen DEF RInv

\* The candidate is discarded on the way back, the old record after a commit.
LEMMA JobDiscardResults == IInv /\ RInv /\ (UnstageCandidate \/ Retire) => RInv'
<1>. SUFFICES ASSUME IInv, RInv, UnstageCandidate \/ Retire PROVE RInv'
  OBVIOUS
<1>1. /\ pc \in {"unstage", "retire"}
      /\ UNCHANGED <<head, reset, op, act, job, snap, net, result>>
  BY DEF UnstageCandidate, Retire, queued
<1>2. act.slot \in Namespaces /\ InactiveSlot \in Slots /\ InactiveSlot \in Namespaces
      /\ InactiveSlot # act.slot /\ op = "wifi" /\ UNCHANGED <<Candidate, InactiveSlot>>
  BY <1>1, RecordTypes
     DEF Ending, Namespaces, IInv, OwnerShape, Candidate, InactiveSlot, Slots
<1>3. CASE pc = "unstage"
  <2>1. /\ pc' \in {"rolledBack", "recovery"}
        /\ \A t \in Namespaces : t # InactiveSlot \/ ns[t] = Empty => ns'[t] = ns[t]
        /\ pc' = "rolledBack" => ns'[InactiveSlot] = Empty
    BY <1>2, <1>3, DiscardEffect, DiscardDone DEF IInv, UnstageCandidate, Retire
  <2>2. head = HeadOf(act) /\ Holds(act)
    BY <1>3 DEF RInv, FlashShape, Reverting
  <2>3. Holds(act)'
    BY <1>1, <1>2, <2>1, <2>2 DEF Holds
  <2>4. FlashShape'
    BY <1>1, <1>2, <1>3, <2>1, <2>2, <2>3
       DEF RInv, FlashShape, Serving, Migrating, Applying, Ending, Reverting,
           SlotMeansNoLegacy, Namespaces, Slots
  <2>5. OutcomeShape'
    BY <1>1, <1>3, <2>1 DEF RInv, OutcomeShape, Applying
  <2>6. SnapShape'
    BY <1>1, <1>3, <2>1, RecordWritesStutter DEF RInv, SnapShape, Retire
  <2>. QED  BY <2>1, <2>4, <2>5, <2>6, ResultsOpen DEF RInv
<1>4. CASE pc = "retire"
  <2>1. /\ pc' \in {"committed", "recovery"}
        /\ \A t \in Namespaces : t # act.slot \/ ns[t] = Empty => ns'[t] = ns[t]
        /\ pc' = "committed" => ns'[act.slot] = Empty
    BY <1>2, <1>4, DiscardEffect, DiscardDone DEF IInv, UnstageCandidate, Retire
  <2>2. act.slot \in Slots /\ head = HeadOf(Candidate) /\ Holds(Candidate)
    BY <1>4 DEF RInv, FlashShape
  <2>3. Holds(Candidate)' /\ head # NoHead
    BY <1>1, <1>2, <2>1, <2>2 DEF Holds, Candidate, HeadOf, NoHead, Slots
  <2>4. FlashShape'
    BY <1>1, <1>2, <1>4, <2>1, <2>2, <2>3
       DEF RInv, FlashShape, Serving, Migrating, Applying, Ending, Reverting,
           SlotMeansNoLegacy, Namespaces, Slots
  <2>5. OutcomeShape'
    BY <1>1, <1>4, <2>1 DEF RInv, OutcomeShape, Applying
  <2>6. SnapShape'
    BY <1>1, <1>4, <2>1 DEF RInv, SnapShape
  <2>. QED  BY <2>1, <2>4, <2>5, <2>6, ResultsOpen DEF RInv
<1>. QED  BY <1>1, <1>3, <1>4

\* A pending reset has no snapshot; it erases without looking back.
LEMMA WipeResults ==
  IInv /\ IInv' /\ RInv /\ (WriteTombstone \/ (\E s \in Namespaces : Erase(s)) \/ EraseMeta) => RInv'
<1>. SUFFICES ASSUME IInv, IInv', RInv,
                     WriteTombstone \/ (\E s \in Namespaces : Erase(s)) \/ EraseMeta
              PROVE  RInv'
  OBVIOUS
<1>1. /\ UNCHANGED <<op, act, job, snap, net, result>> /\ pc \in {"tombstone"} \cup Erasing
      /\ pc' \in {"loaded", "loadError"} \cup Erasing
  <2>1. CASE WriteTombstone \/ EraseMeta
    BY <2>1 DEF WriteTombstone, EraseMeta, queued, Erasing, FirstErase
  <2>2. ASSUME NEW s \in Namespaces, Erase(s)
        PROVE  /\ UNCHANGED <<op, act, job, snap, net, result>> /\ pc \in Erasing
               /\ pc' \in {"loadError"} \cup Erasing
    <3>1. pc = ErasePc[s] /\ pc' \in {"loadError", AfterErase(s)}
          /\ UNCHANGED <<op, act, job, snap, net, result>>
      BY <2>2 DEF Erase, queued
    <3>2. s \in {"LEGACY", "A", "B"}
      BY DEF Namespaces, Slots
    <3>. QED  BY <3>1, <3>2 DEF ErasePc, AfterErase, Erasing
  <2>. QED  BY <2>1, <2>2
<1>2. act = NoRecord /\ op # "none" /\ snap = Missing
  <2>1. act = NoRecord /\ op # "none"
    BY <1>1 DEF IInv, OwnerShape, NothingLoaded, Erasing
  <2>2. reset \/ op = "reset"
    BY <1>1 DEF IInv, OwnerShape, EraseInOrder
  <2>. QED  BY <2>1, <2>2 DEF RInv, SnapShape
<1>3. pc' = "loaded" => ~reset' /\ head' = NoHead /\ Erased' /\ pc = "eraseMeta"
  <2>1. CASE WriteTombstone \/ \E s \in Namespaces : Erase(s)
    BY <2>1 DEF WriteTombstone, Erase, ErasePc, AfterErase, FirstErase, Namespaces, Slots
  <2>2. CASE EraseMeta
    BY <2>2 DEF EraseMeta, IInv, EraseInOrder, Erased, Namespaces, Slots, Erasing
  <2>. QED  BY <2>1, <2>2
<1>4. head' = NoHead => ns'["B"] = Empty
  <2>1. CASE WriteTombstone
    BY <2>1 DEF WriteTombstone, RInv, FlashShape
  <2>2. ASSUME NEW s \in Namespaces, Erase(s), head' = NoHead PROVE ns'["B"] = Empty
    <3>1. ns["B"] = Empty /\ ns \in [Namespaces -> Content] /\ "B" \in Namespaces
      BY <2>2 DEF Erase, RInv, FlashShape, IInv, TypeOK, Namespaces, Slots
    <3>. QED  BY <2>2, <3>1, EraseEmpty DEF Erase
  <2>3. CASE EraseMeta
    BY <2>3 DEF EraseMeta, IInv, EraseInOrder
  <2>. QED  BY <2>1, <2>2, <2>3
<1>5. FlashShape'
  BY <1>1, <1>2, <1>3, <1>4
     DEF FlashShape, Serving, Migrating, Applying, Ending, Reverting, Erasing,
         SlotMeansNoLegacy, NoRecord, Slots
<1>6. OutcomeShape'
  BY <1>1, <1>2 DEF RInv, OutcomeShape, Applying, Erasing
<1>7. SnapShape'
  BY <1>1, <1>2 DEF SnapShape
<1>. QED  BY <1>1, <1>2, <1>5, <1>6, <1>7, ResultsOpen DEF RInv

----------------------------------------------------------------------------

\* Every step keeps the invariant.
LEMMA NextRInv == IInv /\ IInv' /\ RInv /\ [Next]_vars => RInv'
<1>. SUFFICES ASSUME IInv, IInv', RInv, [Next]_vars PROVE RInv'
  OBVIOUS
<1>1. CASE Boot
  BY <1>1, BeginResults, LoadActiveResults, MigrateStageResults, MigrateActivateResults,
     LoadDiscardResults, LoadSucceedsResults, GivesUpResults DEF Boot
<1>2. CASE Update
  BY <1>2, BeginResults, BeginApplyResults, StageCandidateResults, TrialResults,
     ActivateCandidateResults, JobDiscardResults, GivesUpResults, JobRollsBackResults,
     JobCommitsResults DEF Update
<1>3. CASE Reset
  BY <1>3, BeginResults, WipeResults, EndResetResults DEF Reset
<1>4. CASE Environment
  BY <1>4, BystanderResults, PowerCutResults DEF Environment
<1>5. CASE UNCHANGED vars
  <2>1. UNCHANGED <<durable, pc, op, act, job, snap, net, result>>
    BY <1>5 DEF vars, durable
  <2>2. FlashShape'
    BY <2>1 DEF RInv, FlashShape, durable, Holds, Candidate, InactiveSlot, Erased,
                SlotMeansNoLegacy
  <2>3. OutcomeShape'
    BY <2>1 DEF RInv, OutcomeShape
  <2>4. SnapShape'
    BY <2>1, StoredUntouched DEF RInv, SnapShape, durable
  <2>. QED  BY <2>1, <2>2, <2>3, <2>4, ResultsKept DEF RInv
<1>. QED  BY <1>1, <1>2, <1>3, <1>4, <1>5 DEF Next, Owner

\* RInv holds in every reachable state.
THEOREM ResultsInductive == Spec => []RInv
BY InitRInv, NextRInv, Inductive, PTL DEF Spec

\* When nothing runs, the snapshot the device serves is the stored configuration
\* at its revision, whatever failed before: process_wifi_result sets or clears
\* it with the result.
THEOREM SnapshotStored == Spec => []SnapshotIsStored
<1>1. RInv => SnapshotIsStored
  BY DEF RInv, SnapShape, SnapshotIsStored, Idle
<1>. QED  BY <1>1, ResultsInductive, PTL

\* A rollback that aiqa_config_transaction_apply_wifi reports has left nothing
\* of the candidate and kept the record it began with.
THEOREM RollbacksAreClean == Spec => []RollbackIsClean
<1>1. RInv => RollbackIsClean
  BY DEF RInv, ResultsAreTrue
<1>. QED  BY <1>1, ResultsInductive, PTL

\* Secrets that were replaced or erased are gone when the result says so, and
\* no slot is served while the legacy namespace still holds them.
THEOREM SecretsGone == Spec => []SecretsAreGone
<1>1. RInv => SecretsAreGone
  BY DEF RInv, FlashShape, ResultsAreTrue, SecretsAreGone
<1>. QED  BY <1>1, ResultsInductive, PTL

\* A job that ends with OK, or with a rollback after the trial, leaves the
\* station on the Wi-Fi of the configuration that is stored.
THEOREM JobsSettleNetwork == Spec => JobSettlesNetwork
<1>1. IInv /\ RInv /\ [Next]_vars =>
        [op = "wifi" /\ op' = "none" /\ result' \in {"OK", "WIFI_UNREACHABLE_ROLLED_BACK"}
           => net' = Stored'.cfg]_vars
  <2>. SUFFICES ASSUME IInv, RInv, Next, op = "wifi", op' = "none",
                       result' \in {"OK", "WIFI_UNREACHABLE_ROLLED_BACK"}
                PROVE  net' = Stored'.cfg
    OBVIOUS
  <2>1. ~Environment
    BY DEF Environment, RequestReset, PostConnect, TakeConnect, StartSave, EndSave, PowerCut,
           SubmitJob
  <2>2. ~Reset
    BY DEF Reset, TakeReset, WriteTombstone, Erase, EraseMeta, EndReset
  <2>3. ~Boot
    BY DEF Boot, PowerOn, LoadRejects, LoadActive, MigrateStage, MigrateActivate,
           MigrateUnstage, ShedLegacy, LoadSucceeds, LoadFails, FinishJob
  <2>4. Update => JobRollsBack \/ JobCommits
    BY DEF Update, TakeJob, BeginApply, StageCandidate, VerifyCandidate, TrialConnect,
           ActivateCandidate, Quarantine, RestoreConnect, UnstageCandidate, Retire,
           JobRecovers, FinishJob
  <2>5. JobRollsBack => result' # "OK"
    BY DEF JobRollsBack, FinishJob, IInv, OwnerShape, RInv, OutcomeShape, Rollbacks
  <2>6. JobCommits => result' # "WIFI_UNREACHABLE_ROLLED_BACK"
    BY DEF JobCommits, FinishJob
  <2>. QED  BY <2>1, <2>2, <2>3, <2>4, <2>5, <2>6, JobRollsBackResults, JobCommitsResults
            DEF Next, Owner
<1>. QED  BY <1>1, Inductive, ResultsInductive, PTL DEF Spec, JobSettlesNetwork
=============================================================================
