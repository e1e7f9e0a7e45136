---------------------------- MODULE InvocationProofs ----------------------------
(* Proofs about the number of agent invocations, with any lag of the caches:    *)
(* every invocation that begins with nothing out of date is paid for, by the     *)
(* result it leads to, by a retry or by a disturbance.                           *)
EXTENDS OutputProofs

(* The worker has an invocation of stage i behind it whose result nothing but a  *)
(* disturbance can keep from the status: its copy is the stored version, and     *)
(* until the output is stored nobody else has stored one.                        *)
Held(i) ==
    /\ pc \in {"runAgent", "store", "completeStage", "recoverStage", "failStage"}
    /\ cur = i /\ obj.rv = api.rv
    /\ pc = "runAgent" => ~Stored.live
    /\ pc = "store" => ~Stored.live /\ ~seen.live

(* What stage i may have cost. *)
Allowance(i) == api.stages[i].retries + edits + faults

(* A stage with a result, in its status or in the worker's hands, may have cost  *)
(* one invocation more than one that waits for the next.                         *)
Affordable(i) ==
    calls[i] <= Allowance(i) + (IF api.stages[i].phase # "Pending" \/ Held(i) THEN 1 ELSE 0)

Budget == api.live => \A i \in DOMAIN api.stages : Affordable(i)

(* Statuses are for the stages of some spec. *)
StagesInRange == api.live => DOMAIN api.stages \subseteq 1..MaxStages

(* Nobody is invoked before the pipeline starts. *)
NoneBeforeStart ==
    api.live /\ api.stages = <<>> => \A i \in 1..MaxStages : calls[i] = 0

CountInv == KeptInv /\ StagesInRange /\ NoneBeforeStart /\ Budget
--------------------------------------------------------------------------------
(* The counters. *)

(* Only a creation and an invocation change them. *)
LEMMA CallsCases ==
    ASSUME [Next]_vars
    PROVE  calls' = calls \/ UserCreates \/ buildContext
<1>1. CASE UserEdits \/ UserDeletes \/ CollectGarbage
           \/ DeliverPipeline \/ DeliverConfigMaps \/ TimerFires
  BY <1>1 DEF UserEdits, UserDeletes, CollectGarbage, DeliverPipeline,
     DeliverConfigMaps, TimerFires, observedVars
<1>2. CASE Reconcile
  BY <1>2 DEF Reconcile, ReconcileNothing, handleDeletion, handlePending,
     handleRunningDone, handleRunningPanic, handleRunning, Enter, Skip, observedVars
<1>3. CASE RunStage
  BY <1>3 DEF RunStage, startStage, AgentCompletes, AgentFails, StoreOutput,
     StoreUnchanged, StoreRefused, observedVars
<1>4. CASE WriteBack
  BY <1>4 DEF WriteBack, addFinalizer, removeFinalizer, startPipeline, completePipeline,
     failPipeline, completeStage, completeStageFromOutput, failStage, retryStage,
     Update, UpdateRefused, observedVars
<1>5. CASE Faulty
  BY <1>5 DEF Faulty, WriteFails, Restart, observedVars
<1>6. CASE UNCHANGED vars
  BY <1>6 DEF vars, observedVars
<1> QED
  BY <1>1, <1>2, <1>3, <1>4, <1>5, <1>6 DEF Next, Worker

(* An invocation that is counted adds one to the worker's stage; it is made for  *)
(* the resource as it is stored, and nothing is stored for the stage.            *)
LEMMA CallCounted ==
    ASSUME RInv, buildContext, calls' # calls
    PROVE  /\ \A i \in 1..MaxStages : i # cur => calls'[i] = calls[i]
           /\ obj = api /\ ~Stored.live /\ pc' = "runAgent" /\ AtStage("Pending")
           /\ cur \in 1..MaxStages /\ calls'[cur] = calls[cur] + 1
<1>1. AtStage("Pending") /\ calls \in [1..MaxStages -> 0..MaxRuns]
  BY DEF RInv, PcOK, TypeOK, buildContext
<1>2. cur \in 1..MaxStages
  BY <1>1, StageInRange
<1>3. /\ obj.rv = api.rv /\ ~Stored.live /\ pc' = "runAgent"
      /\ calls' = [calls EXCEPT ![cur] = @ + 1]
  BY DEF buildContext, CountCall
<1>4. obj = api
  BY <1>3 DEF RInv, VersionsOK, Copies
<1> QED
  BY <1>1, <1>2, <1>3, <1>4

(* Every stage status has a counter. *)
LEMMA RangeStep ==
    ASSUME RInv, StagesInRange, [Next]_vars
    PROVE  StagesInRange'
<1>1. CASE StatusKept \/ Gone
  BY <1>1 DEF StatusKept, Gone, StagesInRange
<1>2. CASE UserCreates
  <2>1. api'.stages = <<>>
    BY <1>2 DEF UserCreates, Publish, Created, NoPipeline
  <2> QED
    BY <2>1, EmptyDomain DEF StagesInRange
<1>3. CASE Started
  <2>1. api.spec \in Specs /\ api'.stages = InitStageStatuses(api.spec)
    BY <1>3 DEF Started
  <2>2. Len(api.spec.stages) \in Nat /\ Len(api.spec.stages) <= MaxStages /\ MaxStages \in Nat
    BY <2>1, BoundsAssumption, ConstantsAssumption, LenProperties DEF PipelineSpecs
  <2>3. DOMAIN api'.stages = 1..Len(api.spec.stages)
    BY <2>1 DEF InitStageStatuses
  <2> QED
    BY <2>2, <2>3 DEF StagesInRange
<1>4. CASE \E s : StageWritten(s)
  BY <1>4 DEF StageWritten, StagesInRange
<1> QED
  BY <1>1, <1>2, <1>3, <1>4, StatusCases DEF Reported

(* Before the pipeline starts every counter is zero. *)
LEMMA BeforeStartStep ==
    ASSUME RInv, NoneBeforeStart, [Next]_vars
    PROVE  NoneBeforeStart'
<1> SUFFICES ASSUME api'.live, api'.stages = <<>>, NEW i \in 1..MaxStages
             PROVE  calls'[i] = 0
  BY DEF NoneBeforeStart
<1>1. CASE UserCreates
  BY <1>1 DEF UserCreates
<1>2. CASE ~UserCreates
  <2>1. api.live /\ api.stages = <<>>
    <3>1. CASE \E s : StageWritten(s)
      <4>1. cur \in DOMAIN api'.stages
        BY <3>1 DEF StageWritten
      <4> QED
        BY <4>1, EmptyDomain
    <3> QED
      BY <1>2, <3>1, StatusCases DEF StatusKept, Gone, Started, Reported
  <2>2. CASE calls' = calls
    BY <2>1, <2>2 DEF NoneBeforeStart
  <2>3. CASE buildContext /\ calls' # calls
    <3>1. cur \in DOMAIN api.stages
      BY <2>3, CallCounted DEF AtStage, FindCurrentStage
    <3> QED
      BY <2>1, <3>1, EmptyDomain
  <2> QED
    BY <1>2, <2>2, <2>3, CallsCases
<1> QED
  BY <1>1, <1>2

(* Only the worker makes a ConfigMap appear. *)
LEMMA NoneAppears ==
    ASSUME RInv, [Next]_vars, ~StoreOutput, NEW n \in ConfigMapNames, ~cms.of[n].live
    PROVE  ~cms'.of[n].live
<1>1. CASE CollectGarbage
  <2>1. PICK name \in ConfigMapNames : PublishConfigMap(name, NoConfigMap)
    BY <1>1 DEF CollectGarbage
  <2>2. ~NoConfigMap.live /\ cms \in Stores
    BY DEF NoConfigMap, RInv, TypeOK
  <2> QED
    BY <2>1, <2>2, PublishedStore
<1> QED
  BY <1>1, StoreCases DEF StoresQuiet

(* The ConfigMap of the worker's stage, while the worker keeps its copy. *)
LEMMA StoredAppears ==
    ASSUME RInv, [Next]_vars, ~StoreOutput, AtStage("Pending"), UNCHANGED <<obj, cur>>
    PROVE  Stored'.live => Stored.live
<1>1. outputConfigMapName(StageName) \in ConfigMapNames
  BY StageNameTyped DEF RInv, TypeOK
<1>2. Stored' = cms'.of[outputConfigMapName(StageName)]
  BY DEF Stored, StageName
<1> QED
  BY <1>1, <1>2, NoneAppears DEF Stored

--------------------------------------------------------------------------------
(* The budget. *)

(* The numbers in it. *)
LEMMA BudgetTypes ==
    ASSUME RInv, StagesInRange, api.live, NEW i \in DOMAIN api.stages
    PROVE  /\ i \in 1..MaxStages /\ calls[i] \in Nat /\ api.stages[i].retries \in Nat
           /\ edits \in Nat /\ faults \in Nat /\ Allowance(i) \in Nat
<1>1. TypeOK /\ i \in 1..MaxStages
  BY DEF RInv, StagesInRange
<1>2. calls[i] \in Nat /\ edits \in Nat /\ faults \in Nat
  BY <1>1, BoundsAssumption DEF TypeOK
<1>3. api.stages[i] \in StageStatuses
  BY <1>1, ElementOfSeq, LenProperties DEF TypeOK, Pipelines
<1>4. api.stages[i].retries \in Nat
  BY <1>3 DEF StageStatuses
<1>5. Allowance(i) \in Nat
  BY <1>2, <1>4 DEF Allowance
<1> QED
  BY <1>1, <1>2, <1>4, <1>5

(* The status stays, nothing is invoked, and no result is lost or a disturbance  *)
(* accounts for it.                                                              *)
LEMMA QuietAffordable ==
    ASSUME CountInv, StatusKept, calls' = calls, edits' \in Nat, faults' \in Nat,
           edits' >= edits, faults' >= faults,
           \/ edits' + faults' >= edits + faults + 1
           \/ api.live => \A i \in DOMAIN api.stages : Held(i) => Held(i)'
    PROVE  Budget'
<1> SUFFICES ASSUME api.live, NEW i \in DOMAIN api.stages
             PROVE  Affordable(i)'
  BY DEF Budget, StatusKept
<1>1. /\ edits \in Nat /\ faults \in Nat /\ api.stages[i].retries \in Nat
      /\ calls[i] \in Nat /\ Affordable(i)
  BY BudgetTypes DEF CountInv, Budget, KeptInv
<1>2. PICK r \in Nat, e \in Nat, f \in Nat, g \in Nat, h \in Nat, c \in Nat :
        /\ r = api.stages[i].retries /\ e = edits /\ f = faults /\ g = edits' /\ h = faults'
        /\ c = calls[i]
  BY <1>1
<1>3. /\ Allowance(i) = r + e + f /\ Allowance(i)' = r + g + h /\ calls'[i] = c
      /\ api'.stages[i] = api.stages[i] /\ g >= e /\ h >= f
  BY <1>2 DEF Allowance, StatusKept
<1>4. CASE edits' + faults' >= edits + faults + 1
  <2>1. g + h >= e + f + 1
    BY <1>2, <1>4
  <2>2. c <= r + e + f + 1
    BY <1>1, <1>2, <1>3 DEF Affordable
  <2>3. c <= r + g + h
    BY <2>1, <2>2
  <2> QED
    BY <1>3, <2>3 DEF Affordable
<1>5. CASE Held(i) => Held(i)'
  BY <1>1, <1>2, <1>3, <1>5 DEF Affordable
<1> QED
  BY <1>4, <1>5

(* The worker has what it needs to keep its result: where nothing was stored a   *)
(* cache shows nothing either.                                                   *)
LEMMA CacheShowsNothing ==
    ASSUME KeptInv, api.live, AtStage("Pending"), ~Stored.live
    PROVE  ~Existing.live
<1>1. outputConfigMapName(StageName) \in ConfigMapNames
  BY StageNameTyped DEF KeptInv, RInv, TypeOK
<1> QED
  BY <1>1, ExistingVersion DEF KeptInv, OwnersOK, Stored

(* While the worker rests and the resource stays, so does its result. *)
LEMMA RestsHeld ==
    ASSUME CountInv, [Next]_vars, WorkerRests, api' = api, NEW i, Held(i)
    PROVE  Held(i)'
<1>1. RInv /\ UNCHANGED <<pc, obj, cur, seen>> /\ ~StoreOutput
  BY DEF CountInv, KeptInv, WorkerRests, StoreOutput
<1>2. AtStage("Pending")
  BY <1>1 DEF RInv, PcOK, Held
<1>3. Stored'.live => Stored.live
  BY <1>1, <1>2, StoredAppears
<1> QED
  BY <1>1, <1>3 DEF Held

(* A step of the stage loses no result: what CreateOrUpdate writes is accepted. *)
LEMMA StageStepHeld ==
    ASSUME Oversized = {}, CountInv, api.live, NEW i, Held(i),
           \/ startStage \/ AgentCompletes \/ AgentFails
           \/ StoreOutput \/ StoreUnchanged \/ StoreRefused
    PROVE  Held(i)'
<1>0. KeptInv /\ RInv /\ AtStage("Pending")
  BY DEF CountInv, KeptInv, RInv, PcOK, Held
<1>1. CASE startStage
  BY <1>1 DEF startStage, Held
<1>2. CASE AgentCompletes
  <2>1. /\ pc = "runAgent" /\ pc' = "store" /\ seen' = Existing
        /\ UNCHANGED <<obj, cur, api, cms>>
    BY <1>2 DEF AgentCompletes, pipelineVars, configMapVars
  <2>2. ~Stored.live /\ ~Existing.live
    BY <1>0, <2>1, CacheShowsNothing DEF Held
  <2>3. Stored' = Stored
    BY <2>1 DEF Stored, StageName
  <2> QED
    BY <2>1, <2>2, <2>3 DEF Held
<1>3. CASE AgentFails
  BY <1>3 DEF AgentFails, Held, pipelineVars
<1>4. CASE StoreOutput \/ StoreUnchanged
  BY <1>4 DEF StoreOutput, StoreUnchanged, Held, pipelineVars
<1>5. CASE StoreRefused
  BY <1>5 DEF StoreRefused, StoreAccepted, Held
<1> QED
  BY <1>1, <1>2, <1>3, <1>4, <1>5

(* An invocation that is counted is the one that a waiting stage can afford. *)
LEMMA InvocationAffordable ==
    ASSUME CountInv, buildContext, calls' # calls
    PROVE  Budget'
<1>0. RInv /\ StagesInRange /\ Budget
  BY DEF CountInv, KeptInv
<1>1. /\ pc = "buildContext" /\ edits' = edits /\ faults' = faults
      /\ UNCHANGED <<obj, cur, api, cms>>
  BY DEF buildContext, pipelineVars, configMapVars, boundVars
<1>2. /\ \A i \in 1..MaxStages : i # cur => calls'[i] = calls[i]
      /\ obj = api /\ ~Stored.live /\ pc' = "runAgent" /\ AtStage("Pending")
      /\ cur \in 1..MaxStages /\ calls'[cur] = calls[cur] + 1
  BY <1>0, CallCounted
<1> SUFFICES ASSUME api.live, NEW i \in DOMAIN api.stages
             PROVE  Affordable(i)'
  BY <1>1 DEF Budget
<1>3. i \in 1..MaxStages /\ calls[i] \in Nat /\ Allowance(i) \in Nat /\ Affordable(i)
  BY <1>0, BudgetTypes DEF Budget
<1>4. Allowance(i)' = Allowance(i) /\ ~Held(i)
  BY <1>1 DEF Allowance, Held
<1>5. CASE i = cur
  <2>1. api.stages[i].phase = "Pending"
    BY <1>2, <1>5 DEF AtStage
  <2>2. calls[i] <= Allowance(i)
    BY <1>3, <1>4, <2>1 DEF Affordable
  <2>3. Stored' = Stored
    BY <1>1 DEF Stored, StageName
  <2>4. Held(i)'
    BY <1>1, <1>2, <1>5, <2>3 DEF Held
  <2>5. calls'[i] <= Allowance(i)' + 1
    BY <1>2, <1>3, <1>4, <1>5, <2>2
  <2> QED
    BY <2>4, <2>5 DEF Affordable
<1>6. CASE i # cur
  <2>1. calls'[i] = calls[i] /\ ~Held(i)'
    BY <1>1, <1>2, <1>3, <1>6 DEF Held
  <2> QED
    BY <1>1, <1>3, <1>4, <2>1 DEF Affordable
<1> QED
  BY <1>5, <1>6

(* The worker writes the status of its stage: a result, for which the last      *)
(* invocation was, or a retry, which pays for the next one.                      *)
LEMMA WriteAffordable ==
    ASSUME CountInv, calls' = calls, edits' = edits, faults' = faults, NEW s, StageWritten(s),
           \/ s.retries = api.stages[cur].retries /\ s.phase # "Pending"
           \/ pc = "retryStage" /\ s.retries = api.stages[cur].retries + 1
    PROVE  Budget'
<1>0. /\ RInv /\ StagesInRange /\ Budget /\ api.live /\ pc' = "idle"
      /\ DOMAIN api'.stages = DOMAIN api.stages /\ cur \in DOMAIN api.stages
      /\ \A j \in DOMAIN api.stages : api'.stages[j] = IF j = cur THEN s ELSE api.stages[j]
  BY DEF CountInv, KeptInv, StageWritten
<1> SUFFICES ASSUME NEW i \in DOMAIN api.stages
             PROVE  Affordable(i)'
  BY <1>0 DEF Budget
<1>1. /\ calls[i] \in Nat /\ api.stages[i].retries \in Nat /\ edits \in Nat /\ faults \in Nat
      /\ Allowance(i) \in Nat /\ Affordable(i)
  BY <1>0, BudgetTypes DEF Budget
<1>2. ~Held(i)' /\ calls[i] <= Allowance(i) + 1
  BY <1>0, <1>1 DEF Held, Affordable
<1>3. CASE i # cur
  <2>1. api'.stages[i] = api.stages[i] /\ ~Held(i)
    BY <1>0, <1>3 DEF Held
  <2> QED
    BY <1>1, <1>2, <2>1 DEF Affordable, Allowance
<1>4. CASE i = cur
  <2>1. api'.stages[i] = s
    BY <1>0, <1>4
  <2>2. CASE s.retries = api.stages[cur].retries /\ s.phase # "Pending"
    <3>1. Allowance(i)' = Allowance(i)
      BY <1>4, <2>1, <2>2 DEF Allowance
    <3> QED
      BY <1>2, <2>1, <2>2, <3>1 DEF Affordable
  <2>3. CASE pc = "retryStage" /\ s.retries = api.stages[cur].retries + 1
    <3>1. Allowance(i)' = Allowance(i) + 1
      BY <1>1, <1>4, <2>1, <2>3 DEF Allowance
    <3>2. calls[i] <= Allowance(i)'
      BY <1>2, <3>1
    <3>3. Allowance(i)' \in Nat
      BY <1>1, <3>1
    <3> QED
      BY <1>1, <1>2, <3>2, <3>3 DEF Affordable
  <2> QED
    BY <2>2, <2>3
<1> QED
  BY <1>3, <1>4

(* The retries that each write of a stage leaves. *)
LEMMA WrittenRetries ==
    ASSUME RInv, cur \in DOMAIN api.stages
    PROVE  /\ CompletedStatus(api, cur, out).retries = api.stages[cur].retries
           /\ CompletedStatus(api, cur, out).phase = "Completed"
           /\ FailedStatus(api, cur).retries = api.stages[cur].retries
           /\ FailedStatus(api, cur).phase = "Failed"
           /\ RetriedStatus(api, cur).retries = api.stages[cur].retries + 1
<1>1. api \in Pipelines
  BY DEF RInv, TypeOK
<1>2. api.stages[cur] \in StageStatuses
  BY <1>1, ElementOfSeq, LenProperties DEF Pipelines
<1> QED
  BY <1>2 DEF CompletedStatus, FailedStatus, RetriedStatus, StageStatuses

(* Every step leaves every stage within its budget. *)
LEMMA BudgetStep ==
    ASSUME Oversized = {}, CountInv, RInv', [Next]_vars
    PROVE  Budget'
<1>0. /\ RInv /\ TypeOK /\ PcOK /\ StagesInRange /\ Budget /\ NoneBeforeStart
      /\ edits \in Nat /\ faults \in Nat /\ edits' \in Nat /\ faults' \in Nat
  <2>1. RInv /\ TypeOK /\ PcOK /\ StagesInRange /\ Budget /\ NoneBeforeStart
    BY DEF CountInv, KeptInv, RInv
  <2>2. TypeOK'
    BY DEF RInv
  <2>3. MaxEdits \in Nat /\ MaxFaults \in Nat
    BY BoundsAssumption
  <2>4. /\ edits \in 0..MaxEdits /\ edits' \in 0..MaxEdits
        /\ faults \in 0..MaxFaults /\ faults' \in 0..MaxFaults
    BY <2>1, <2>2 DEF TypeOK
  <2> QED
    BY <2>1, <2>3, <2>4
<1>1. ASSUME api' = api, calls' = calls, edits' = edits, faults' = faults,
             api.live => \A i \in DOMAIN api.stages : Held(i) => Held(i)'
      PROVE  Budget'
  <2>1. StatusKept /\ edits' >= edits /\ faults' >= faults
    BY <1>0, <1>1 DEF StatusKept
  <2> QED
    BY <1>0, <1>1, <2>1, QuietAffordable
<1>2. CASE UserCreates
  <2>1. api'.stages = <<>>
    BY <1>2 DEF UserCreates, Publish, Created, NoPipeline
  <2> QED
    BY <2>1, EmptyDomain DEF Budget
<1>3. CASE UserEdits \/ UserDeletes
  <2>1. WorkerRests /\ calls' = calls /\ faults' = faults /\ edits' = edits + 1
    BY <1>3 DEF UserEdits, UserDeletes, WorkerRests, workerVars, observedVars
  <2>2. /\ edits' >= edits /\ faults' >= faults /\ edits' + faults' >= edits + faults + 1
    BY <1>0, <2>1
  <2>3. CASE StatusKept
    BY <1>0, <2>1, <2>2, <2>3, QuietAffordable
  <2>4. CASE Gone
    BY <2>4 DEF Gone, Budget
  <2> QED
    BY <1>0, <1>2, <1>3, <2>1, <2>3, <2>4, StatusCases
       DEF WorkerRests, Started, Reported, StageWritten
<1>4. ASSUME WorkerRests, calls' = calls, faults' = faults, edits' = edits, api' = api
      PROVE  Budget'
  BY <1>1, <1>4, RestsHeld
<1>5. CASE \/ CollectGarbage \/ DeliverPipeline \/ DeliverConfigMaps \/ TimerFires
           \/ ReconcileNothing \/ handleRunningPanic \/ UNCHANGED vars
  BY <1>4, <1>5 DEF CollectGarbage, DeliverPipeline, DeliverConfigMaps, TimerFires,
     ReconcileNothing, handleRunningPanic, Skip, WorkerRests, pipelineVars, workerVars,
     boundVars, observedVars, vars
<1>6. ASSUME NEW p, NEW i, Take, Enter(p, i) PROVE Budget'
  <2>1. /\ pc = "idle" /\ api' = api /\ calls' = calls /\ faults' = faults /\ edits' = edits
    BY <1>6 DEF Take, Enter, pipelineVars, boundVars, observedVars
  <2> QED
    BY <1>1, <2>1 DEF Held
<1>7. CASE handleDeletion \/ handlePending \/ handleRunningDone
  BY <1>6, <1>7 DEF handleDeletion, handlePending, handleRunningDone
<1>8. CASE handleRunning
  <2>1. PICK i \in DOMAIN ReadPipeline.stages :
          IF StageStep(ReadPipeline, i) = "wait" THEN Skip({"delayed"})
          ELSE Enter(StageStep(ReadPipeline, i), i)
    BY <1>8 DEF handleRunning
  <2>2. CASE Skip({"delayed"})
    BY <1>4, <2>2 DEF Skip, WorkerRests, pipelineVars, workerVars, boundVars, observedVars
  <2>3. Take
    BY <1>8 DEF handleRunning
  <2> QED
    BY <1>6, <2>1, <2>2, <2>3
<1>9. CASE \/ startStage \/ AgentCompletes \/ AgentFails
           \/ StoreOutput \/ StoreUnchanged \/ StoreRefused
  <2>1. /\ api' = api /\ calls' = calls /\ faults' = faults /\ edits' = edits
    BY <1>9 DEF startStage, AgentCompletes, AgentFails, StoreOutput, StoreUnchanged,
       StoreRefused, pipelineVars, boundVars, observedVars
  <2> QED
    BY <1>1, <1>9, <2>1, StageStepHeld
<1>10. CASE buildContext
  <2>1. /\ pc = "buildContext" /\ api' = api /\ faults' = faults /\ edits' = edits
    BY <1>10 DEF buildContext, pipelineVars, boundVars
  <2>2. CASE calls' = calls
    BY <1>1, <2>1, <2>2 DEF Held
  <2>3. CASE calls' # calls
    BY <1>10, <2>3, InvocationAffordable
  <2> QED
    BY <2>2, <2>3
<1>11. CASE UpdateRefused
  <2>1. /\ ~WriteAccepted /\ api' = api /\ calls' = calls
        /\ edits' = edits /\ faults' = faults
    BY <1>11 DEF UpdateRefused, pipelineVars, boundVars, observedVars
  <2> QED
    BY <1>1, <2>1 DEF WriteAccepted, Held
<1>12. CASE WriteFails \/ Restart
  <2>1. api' = api /\ calls' = calls /\ edits' = edits /\ faults' = faults + 1
    BY <1>12 DEF WriteFails, Restart, Fault, pipelineVars, observedVars
  <2>2. StatusKept /\ edits' >= edits /\ faults' >= faults
        /\ edits' + faults' >= edits + faults + 1
    BY <1>0, <2>1 DEF StatusKept
  <2> QED
    BY <1>0, <2>1, <2>2, QuietAffordable
<1>13. CASE \/ addFinalizer \/ removeFinalizer \/ startPipeline
            \/ completePipeline \/ failPipeline
  <2>1. /\ calls' = calls /\ edits' = edits /\ faults' = faults /\ api.live /\ pc' = "idle"
        /\ pc \in {"addFinalizer", "removeFinalizer", "startPipeline", "completePipeline",
                   "failPipeline"}
    BY <1>13 DEF addFinalizer, removeFinalizer, startPipeline, completePipeline,
       failPipeline, Update, Return, WriteAccepted, boundVars, observedVars
  <2>2. StatusKept \/ Gone \/ Started
    BY <1>0, <2>1, StatusCases DEF Reported, UserCreates
  <2>3. CASE Gone
    BY <2>3 DEF Gone, Budget
  <2>4. CASE StatusKept
    <3>1. edits' >= edits /\ faults' >= faults /\ \A i : ~Held(i)
      BY <1>0, <2>1 DEF Held
    <3> QED
      BY <1>0, <2>1, <2>4, <3>1, QuietAffordable
  <2>5. CASE Started
    <3> SUFFICES ASSUME NEW i \in DOMAIN api'.stages PROVE Affordable(i)'
      BY DEF Budget
    <3>1. /\ api.stages = <<>> /\ api.spec \in Specs
          /\ api'.stages = InitStageStatuses(api.spec)
      BY <2>5 DEF Started
    <3>2. StagesInRange'
      BY <1>0, RangeStep
    <3>3. calls'[i] = 0
      BY <1>0, <2>1, <2>5, <3>1, <3>2 DEF NoneBeforeStart, StagesInRange, Started
    <3>4. api'.stages[i].retries \in Nat
      BY <3>1, InitialStatuses, ConstantsAssumption DEF Pristine
    <3>5. Allowance(i)' \in Nat
      BY <1>0, <3>4 DEF Allowance
    <3> QED
      BY <3>3, <3>5 DEF Affordable
  <2> QED
    BY <2>2, <2>3, <2>4, <2>5
<1>14. CASE completeStage \/ completeStageFromOutput \/ failStage \/ retryStage
  <2>1. calls' = calls /\ edits' = edits /\ faults' = faults
    BY <1>14 DEF completeStage, completeStageFromOutput, failStage, retryStage,
       Update, boundVars, observedVars
  <2>2. CASE completeStage \/ completeStageFromOutput
    <3>1. Reported
      BY <1>0, <2>2, StageWrites
    <3> QED
      BY <1>0, <2>1, <3>1, WrittenRetries, WriteAffordable DEF Reported, StageWritten
  <2>3. CASE failStage
    <3>1. pc = "failStage" /\ StageWritten(FailedStatus(api, cur))
      BY <1>0, <2>3, StageWrites
    <3> QED
      BY <1>0, <2>1, <3>1, WrittenRetries, WriteAffordable DEF StageWritten
  <2>4. CASE retryStage
    <3>1. pc = "retryStage" /\ StageWritten(RetriedStatus(api, cur))
      BY <1>0, <2>4, StageWrites
    <3> QED
      BY <1>0, <2>1, <3>1, WrittenRetries, WriteAffordable DEF StageWritten
  <2> QED
    BY <1>14, <2>2, <2>3, <2>4
<1> QED
  BY <1>2, <1>3, <1>5, <1>7, <1>8, <1>9, <1>10, <1>11, <1>12, <1>13, <1>14
     DEF Next, Worker, Reconcile, RunStage, WriteBack, Faulty

(* CountInv is inductive. *)
LEMMA CountStep == OneIncarnation /\ Oversized = {} /\ CountInv /\ [Next]_vars => CountInv'
<1> SUFFICES ASSUME OneIncarnation, Oversized = {}, CountInv, [Next]_vars
             PROVE  CountInv'
  OBVIOUS
<1>1. KeptInv' /\ RInv'
  BY KeptStep DEF CountInv, KeptInv
<1>2. StagesInRange' /\ NoneBeforeStart'
  BY RangeStep, BeforeStartStep DEF CountInv, KeptInv
<1>3. Budget'
  BY <1>1, BudgetStep
<1> QED
  BY <1>1, <1>2, <1>3 DEF CountInv

(* It holds when the operator is deployed. *)
LEMMA CountInit == Init => CountInv
<1> SUFFICES ASSUME Init PROVE CountInv
  OBVIOUS
<1>1. NoPipeline.live = FALSE
  BY DEF NoPipeline
<1>2. StagesInRange /\ NoneBeforeStart /\ Budget
  BY <1>1 DEF Init, StagesInRange, NoneBeforeStart, Budget
<1> QED
  BY <1>2, KeptInit DEF CountInv

(* A result can be lost between the agent's answer and the status write, and    *)
(* the stage starts over.  Of the invocations that began with nothing out of     *)
(* date, each beyond the first is paid for by a retry that the status records,   *)
(* by an edit or by a fault: the caches alone lose none of their results.        *)
(* Outputs that do not fit cost invocations that nothing accounts for (the       *)
(* instance of oversized), and a cache that still shows a ConfigMap of an        *)
(* earlier resource makes CreateOrUpdate fail: hence the conditions.             *)
THEOREM InvocationsBounded ==
    OneIncarnation /\ Oversized = {} => (Spec => []InvocationsAccounted)
<1> SUFFICES ASSUME OneIncarnation, Oversized = {}
             PROVE  Spec => []InvocationsAccounted
  OBVIOUS
<1>1. CountInv /\ [Next]_vars => CountInv'
  BY CountStep
<1>2. CountInv => InvocationsAccounted
  <2> SUFFICES ASSUME CountInv, api.live, NEW i \in DOMAIN api.stages
               PROVE  calls[i] <= 1 + api.stages[i].retries + edits + faults
    BY DEF InvocationsAccounted
  <2>1. /\ calls[i] \in Nat /\ api.stages[i].retries \in Nat
        /\ edits \in Nat /\ faults \in Nat /\ Allowance(i) \in Nat
    BY BudgetTypes DEF CountInv, KeptInv
  <2>2. Affordable(i)
    BY DEF CountInv, Budget
  <2>3. calls[i] <= Allowance(i) + 1
    BY <2>1, <2>2 DEF Affordable
  <2> QED
    BY <2>1, <2>3 DEF Allowance
<1> QED
  BY <1>1, <1>2, CountInit, PTL DEF Spec
================================================================================
