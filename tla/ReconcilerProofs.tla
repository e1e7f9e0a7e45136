---------------------------- MODULE ReconcilerProofs ----------------------------
(* Proofs about Reconciler: every write the controller gets accepted is a step  *)
(* of the lifecycle, for any specs, outputs, lag of the caches and number of     *)
(* edits, faults and incarnations.                                               *)
EXTENDS Reconciler, LifecycleProofs

(* The copies of the resource that exist outside the API server. *)
Copies == watch \cup {cache, obj, NoPipeline}

(* Resource versions identify versions: a copy with the current number is the   *)
(* current resource.  This is what makes the optimistic write check enough.      *)
VersionsOK ==
    \A v \in Copies : v.rv <= api.rv /\ (v.rv = api.rv => v = api)

(* Every copy carries a spec some user wrote. *)
SpecsOK == \A v \in Copies \cup {api} : v.spec \in Specs \cup {EmptySpec}

(* Every stored output is one an agent gave. *)
OutputsOK ==
    \A st \in cmWatch \cup {cms, cmCache} : \A n \in ConfigMapNames :
        st.of[n].live => st.of[n].out \in Outputs

(* The worker is at stage cur of its copy, for the reason handleRunning gives. *)
AtStage(phase) ==
    /\ obj.live /\ ~obj.deleting /\ obj.phase = "Running"
    /\ FindCurrentStage(obj, cur) /\ cur \in DOMAIN obj.spec.stages
    /\ AreDependenciesMet(obj, cur) /\ obj.stages[cur].phase = phase

Unstarted == obj.live /\ ~obj.deleting /\ obj.phase \in {"", "Pending"}

(* What the worker has established of its copy at each place. *)
PcOK ==
    /\ pc = "removeFinalizer" => obj.live /\ obj.deleting /\ obj.finalizer
    /\ pc = "addFinalizer" => Unstarted /\ ~obj.finalizer
    /\ pc = "startPipeline" => Unstarted /\ obj.finalizer /\ obj.spec.stages # <<>>
    /\ pc = "completePipeline" =>
          obj.live /\ ~obj.deleting /\ obj.phase = "Running" /\ AllFinished(obj)
    /\ pc = "failPipeline" =>
          \/ Unstarted /\ obj.finalizer /\ obj.spec.stages = <<>>
          \/ AtStage("Failed") /\ obj.stages[cur].retries >= GetEffectiveRetryPolicy(obj, cur)
    /\ pc = "retryStage" =>
          AtStage("Failed") /\ obj.stages[cur].retries < GetEffectiveRetryPolicy(obj, cur)
    /\ pc \in {"startStage", "buildContext", "runAgent", "store", "completeStage",
               "recoverStage", "failStage"} => AtStage("Pending")
    /\ pc \in {"store", "completeStage", "recoverStage"} => out \in Outputs

RInv == LInv /\ TypeOK /\ VersionsOK /\ SpecsOK /\ OutputsOK /\ PcOK

(* An accepted write works on the current resource. *)
LEMMA AcceptedIsCurrent ==
    ASSUME RInv, WriteAccepted
    PROVE  obj = api
BY DEF RInv, VersionsOK, Copies, WriteAccepted

(* Each accepted write is the lifecycle's step of the same name. *)
LEMMA UpdateIsLifecycleStep ==
    ASSUME RInv,
           \/ addFinalizer \/ removeFinalizer \/ startPipeline
           \/ completePipeline \/ failPipeline \/ completeStage
           \/ completeStageFromOutput \/ failStage \/ retryStage
    PROVE  LifecycleNext
<1>1. WriteAccepted /\ obj = api
  BY AcceptedIsCurrent DEF addFinalizer, removeFinalizer, startPipeline,
     completePipeline, failPipeline, completeStage, completeStageFromOutput,
     failStage, retryStage, Update
<1>2. PcOK
  BY DEF RInv
<1>3. ASSUME NEW ph, AtStage(ph)
      PROVE  cur \in DOMAIN api.stages /\ Eligible(cur) /\ api.stages[cur].phase = ph
  BY <1>1, <1>3 DEF AtStage, Eligible, Active, FindCurrentStage
<1>4. CASE addFinalizer
  <2>1. pc = "addFinalizer" /\ api' = Written(AddFinalizer(api))
    BY <1>1, <1>4 DEF addFinalizer, Update, Publish
  <2>2. TakeOwnership
    BY <1>1, <1>2, <2>1 DEF PcOK, Unstarted, TakeOwnership, Active
  <2> QED
    BY <2>2 DEF LifecycleNext
<1>5. CASE removeFinalizer
  <2>1. pc = "removeFinalizer" /\ api' = Removed(api)
    BY <1>1, <1>5 DEF removeFinalizer, Update, Publish
  <2>2. Release
    BY <1>1, <1>2, <2>1 DEF PcOK, Release
  <2> QED
    BY <2>2 DEF LifecycleNext
<1>6. CASE startPipeline
  <2>1. pc = "startPipeline" /\ api' = Written(StartPipeline(api))
    BY <1>1, <1>6 DEF startPipeline, Update, Publish
  <2>2. Start
    BY <1>1, <1>2, <2>1 DEF PcOK, Unstarted, Start, Active
  <2> QED
    BY <2>2 DEF LifecycleNext
<1>7. CASE completePipeline
  <2>1. pc = "completePipeline" /\ api' = Written(CompletePipeline(api))
    BY <1>1, <1>7 DEF completePipeline, Update, Publish
  <2>2. Finish
    BY <1>1, <1>2, <2>1 DEF PcOK, Finish, Active
  <2> QED
    BY <2>2 DEF LifecycleNext
<1>8. CASE failPipeline
  <2>1. pc = "failPipeline" /\ api' = Written(FailPipeline(api))
    BY <1>1, <1>8 DEF failPipeline, Update, Publish
  <2>2. CASE Unstarted /\ obj.finalizer /\ obj.spec.stages = <<>>
    <3>1. RejectEmpty
      BY <1>1, <2>1, <2>2 DEF Unstarted, RejectEmpty, Active
    <3> QED
      BY <3>1 DEF LifecycleNext
  <2>3. CASE /\ AtStage("Failed")
             /\ obj.stages[cur].retries >= GetEffectiveRetryPolicy(obj, cur)
    <3>1. cur \in DOMAIN api.stages /\ GiveUp(cur)
      BY <1>1, <1>3, <2>1, <2>3 DEF GiveUp
    <3> QED
      BY <3>1 DEF LifecycleNext
  <2> QED
    BY <1>2, <2>1, <2>2, <2>3 DEF PcOK
<1>9. CASE completeStage
  <2>1. pc = "completeStage" /\ api' = Written(CompleteStage(api, cur, out))
    BY <1>1, <1>9 DEF completeStage, Update, Publish
  <2>2. AtStage("Pending") /\ out \in Outputs
    BY <1>2, <2>1 DEF PcOK
  <2>3. cur \in DOMAIN api.stages /\ StageCompletes(cur, out)
    BY <1>3, <2>1, <2>2 DEF StageCompletes
  <2> QED
    BY <2>2, <2>3 DEF LifecycleNext
<1>10. CASE completeStageFromOutput
  <2>1. pc = "recoverStage" /\ api' = Written(RecoverStage(api, cur, out))
    BY <1>1, <1>10 DEF completeStageFromOutput, Update, Publish
  <2>2. AtStage("Pending") /\ out \in Outputs
    BY <1>2, <2>1 DEF PcOK
  <2>3. cur \in DOMAIN api.stages /\ StageCompletes(cur, out)
    BY <1>3, <2>1, <2>2 DEF StageCompletes
  <2> QED
    BY <2>2, <2>3 DEF LifecycleNext
<1>11. CASE failStage
  <2>1. pc = "failStage" /\ api' = Written(FailStage(api, cur))
    BY <1>1, <1>11 DEF failStage, Update, Publish
  <2>2. AtStage("Pending")
    BY <1>2, <2>1 DEF PcOK
  <2>3. cur \in DOMAIN api.stages /\ StageFails(cur)
    BY <1>3, <2>1, <2>2 DEF StageFails
  <2> QED
    BY <2>3 DEF LifecycleNext
<1>12. CASE retryStage
  <2>1. pc = "retryStage" /\ api' = Written(RetryStage(api, cur))
    BY <1>1, <1>12 DEF retryStage, Update, Publish
  <2>2. AtStage("Failed") /\ obj.stages[cur].retries < GetEffectiveRetryPolicy(obj, cur)
    BY <1>2, <2>1 DEF PcOK
  <2>3. cur \in DOMAIN api.stages /\ Retry(cur)
    BY <1>1, <1>3, <2>1, <2>2 DEF Retry
  <2> QED
    BY <2>3 DEF LifecycleNext
<1> QED
  BY <1>4, <1>5, <1>6, <1>7, <1>8, <1>9, <1>10, <1>11, <1>12

(* The two kinds of steps, seen from the resource: an accepted write, which     *)
(* follows the lifecycle and is on its way to the informer, and any other step.  *)
ApiWrite ==
    /\ LifecycleNext
    /\ watch' = watch \cup {api'} /\ cache' = cache

ApiQuiet ==
    /\ api' = api
    /\ watch' \subseteq watch /\ cache' \in watch \cup {cache, api}

(* Every step is of one of these two kinds. *)
LEMMA ApiStep ==
    ASSUME RInv, [Next]_vars
    PROVE  ApiWrite \/ ApiQuiet
<1>1. ASSUME NEW new, Publish(new)
      PROVE  api' = new /\ watch' = watch \cup {api'} /\ cache' = cache
  BY <1>1 DEF Publish
<1>2. ASSUME UNCHANGED pipelineVars PROVE ApiQuiet
  BY <1>2 DEF ApiQuiet, pipelineVars
<1>3. CASE UserCreates
  <2>1. PICK spec \in Specs : Publish(Created(api, spec))
    BY <1>3 DEF UserCreates
  <2>2. Create(spec)
    BY <1>1, <1>3, <2>1 DEF UserCreates, Create
  <2> QED
    BY <1>1, <2>1, <2>2 DEF ApiWrite, LifecycleNext
<1>4. CASE UserEdits
  <2>1. PICK spec \in Specs : Publish(Written([api EXCEPT !.spec = spec]))
    BY <1>4 DEF UserEdits
  <2>2. Edit(spec)
    BY <1>1, <1>4, <2>1 DEF UserEdits, Edit
  <2> QED
    BY <1>1, <2>1, <2>2 DEF ApiWrite, LifecycleNext
<1>5. CASE UserDeletes
  <2> DEFINE new == IF api.finalizer THEN Written([api EXCEPT !.deleting = TRUE])
                                     ELSE Removed(api)
  <2>1. Publish(new)
    BY <1>5 DEF UserDeletes
  <2>2. api' = new
    BY <1>1, <2>1
  <2>3. Delete
    BY <1>5, <2>2 DEF UserDeletes, Delete
  <2> HIDE DEF new
  <2> QED
    BY <1>1, <2>1, <2>3 DEF ApiWrite, LifecycleNext
<1>6. ASSUME \/ addFinalizer \/ removeFinalizer \/ startPipeline
             \/ completePipeline \/ failPipeline \/ completeStage
             \/ completeStageFromOutput \/ failStage \/ retryStage
      PROVE  ApiWrite
  <2>1. LifecycleNext
    BY <1>6, UpdateIsLifecycleStep
  <2>2. \E new : Publish(new)
    BY <1>6, Zenon DEF addFinalizer, removeFinalizer, startPipeline, completePipeline,
       failPipeline, completeStage, completeStageFromOutput, failStage, retryStage, Update
  <2> QED
    BY <1>1, <2>1, <2>2 DEF ApiWrite
<1>7. CASE DeliverPipeline
  BY <1>7 DEF DeliverPipeline, ApiQuiet
<1>8. CASE Restart
  BY <1>8 DEF Restart, ApiQuiet
<1>9. CASE CollectGarbage \/ DeliverConfigMaps \/ TimerFires
  BY <1>2, <1>9 DEF CollectGarbage, DeliverConfigMaps, TimerFires
<1>10. CASE Reconcile
  BY <1>2, <1>10 DEF Reconcile, ReconcileNothing, handleDeletion, handlePending,
     handleRunningDone, handleRunningPanic, handleRunning, Enter, Skip
<1>11. CASE RunStage
  BY <1>2, <1>11 DEF RunStage, startStage, buildContext, AgentCompletes, AgentFails, StoreOutput,
     StoreUnchanged, StoreRefused
<1>12. CASE UpdateRefused \/ WriteFails
  BY <1>2, <1>12 DEF UpdateRefused, WriteFails
<1>13. CASE UNCHANGED vars
  BY <1>2, <1>13 DEF vars
<1> QED
  BY <1>3, <1>4, <1>5, <1>6, <1>7, <1>8, <1>9, <1>10, <1>11, <1>12, <1>13
     DEF Next, Worker, WriteBack, Faulty

(* The copy the worker holds is one somebody published, or none. *)
LEMMA ObjStep ==
    ASSUME RInv, [Next]_vars
    PROVE  obj' \in {obj, NoPipeline, cache, api}
<1>1. CASE UserCreates \/ UserEdits \/ UserDeletes \/ CollectGarbage
           \/ DeliverPipeline \/ DeliverConfigMaps \/ TimerFires
  BY <1>1 DEF UserCreates, UserEdits, UserDeletes, CollectGarbage, DeliverPipeline,
     DeliverConfigMaps, TimerFires, workerVars
<1>2. CASE Reconcile
  BY <1>2 DEF Reconcile, ReconcileNothing, handleDeletion, handlePending,
     handleRunningDone, handleRunningPanic, handleRunning, Enter, Skip, ReadPipeline,
     workerVars
<1>3. CASE RunStage
  BY <1>3 DEF RunStage, startStage, buildContext, AgentCompletes, AgentFails, StoreOutput,
     StoreUnchanged, StoreRefused, ReturnError, Return
<1>4. CASE WriteBack
  BY <1>4 DEF WriteBack, addFinalizer, removeFinalizer, startPipeline, completePipeline,
     failPipeline, completeStage, completeStageFromOutput, failStage, retryStage,
     Update, UpdateRefused, ReturnError, Return
<1>5. CASE Faulty
  BY <1>5 DEF Faulty, WriteFails, Restart, ReturnError, Return
<1>6. CASE UNCHANGED vars
  BY <1>6 DEF vars, workerVars
<1> QED
  BY <1>1, <1>2, <1>3, <1>4, <1>5, <1>6 DEF Next, Worker

(* Version numbers go on identifying versions, and specs stay known. *)
LEMMA VersionsStep ==
    ASSUME RInv, [Next]_vars
    PROVE  VersionsOK' /\ SpecsOK'
<1>0. /\ api \in Pipelines /\ TypeOK /\ VersionsOK /\ SpecsOK
      /\ obj' \in {obj, NoPipeline, cache, api}
  BY ObjStep DEF RInv, TypeOK
<1>1. ASSUME NEW v \in Copies \cup {api} PROVE v.rv \in Nat /\ v.rv <= api.rv
  <2>1. CASE v = NoPipeline
    <3>1. v.rv = 0 /\ api.rv \in Nat
      BY <1>0, <2>1 DEF NoPipeline, Pipelines
    <3> QED
      BY <3>1
  <2>2. CASE v # NoPipeline
    <3>1. v \in Pipelines
      BY <1>0, <2>2 DEF Copies, TypeOK
    <3>2. v.rv \in Nat /\ api.rv \in Nat
      BY <1>0, <3>1 DEF Pipelines
    <3>3. v = api \/ v.rv <= api.rv
      BY <1>0 DEF VersionsOK
    <3> QED
      BY <3>2, <3>3
  <2> QED
    BY <2>1, <2>2
<1>2. CASE ApiQuiet
  <2>1. Copies' \subseteq Copies \cup {api} /\ api' = api
    BY <1>0, <1>2 DEF Copies, ApiQuiet
  <2>2. VersionsOK'
    BY <1>0, <1>1, <2>1 DEF VersionsOK
  <2>3. SpecsOK'
    BY <1>0, <2>1 DEF SpecsOK
  <2> QED
    BY <2>2, <2>3
<1>3. CASE ApiWrite
  <2>1. Copies' \subseteq Copies \cup {api, api'}
    BY <1>0, <1>3 DEF Copies, ApiWrite
  <2>2. /\ api'.rv = api.rv + 1 /\ api.rv \in Nat
        /\ api'.spec \in Specs \cup {api.spec, EmptySpec}
    BY <1>0, <1>3, StepVersion DEF ApiWrite, Pipelines
  <2>3. ASSUME NEW v \in Copies'
        PROVE  v.rv <= api'.rv /\ (v.rv = api'.rv => v = api')
    <3>1. CASE v = api'
      BY <2>2, <3>1
    <3>2. CASE v # api'
      <4>1. v \in Copies \cup {api}
        BY <2>1, <2>3, <3>2
      <4>2. v.rv \in Nat /\ v.rv <= api.rv
        BY <1>1, <4>1
      <4> QED
        BY <2>2, <4>2
    <3> QED
      BY <3>1, <3>2
  <2>4. VersionsOK'
    BY <2>3 DEF VersionsOK
  <2>5. SpecsOK'
    BY <1>0, <2>1, <2>2 DEF SpecsOK
  <2> QED
    BY <2>4, <2>5
<1> QED
  BY <1>2, <1>3, ApiStep
--------------------------------------------------------------------------------
(* The ConfigMaps. *)

GoodStore(st) ==
    /\ st \in Stores
    /\ \A n \in ConfigMapNames : st.of[n].live => st.of[n].out \in Outputs

(* Storing or collecting a ConfigMap yields a good version of the store. *)
LEMMA PublishedStoreGood ==
    ASSUME GoodStore(cms), NEW name \in ConfigMapNames, NEW cm \in ConfigMaps,
           cm.live => cm.out \in Outputs, PublishConfigMap(name, cm)
    PROVE  /\ GoodStore(cms')
           /\ cmWatch' \subseteq cmWatch \cup {cms'} /\ cmCache' \in {cmCache, cms'}
<1>1. cms' = [rev |-> cms.rev + 1, of |-> [cms.of EXCEPT ![name] = cm]]
  BY DEF PublishConfigMap
<1>2. cms.rev + 1 \in Nat /\ cms.of \in [ConfigMapNames -> ConfigMaps]
  BY DEF GoodStore, Stores
<1>3. [cms.of EXCEPT ![name] = cm] \in [ConfigMapNames -> ConfigMaps]
  BY <1>2
<1>4. cms' \in Stores
  BY <1>1, <1>2, <1>3 DEF Stores
<1>5. \A n \in ConfigMapNames : cms'.of[n].live => cms'.of[n].out \in Outputs
  BY <1>1, <1>2 DEF GoodStore
<1>6. cmWatch' \subseteq cmWatch \cup {cms'} /\ cmCache' \in {cmCache, cms'}
  BY DEF PublishConfigMap
<1> QED
  BY <1>4, <1>5, <1>6 DEF GoodStore

(* The name of the ConfigMap of the worker's stage. *)
LEMMA StageNameTyped ==
    ASSUME obj \in Pipelines, AtStage("Pending")
    PROVE  StageName \in Names /\ outputConfigMapName(StageName) \in ConfigMapNames
<1>1. obj.spec.stages \in Seq(StageSpecs) /\ cur \in DOMAIN obj.spec.stages
  BY DEF Pipelines, PipelineSpecs, AtStage
<1>2. obj.spec.stages[cur] \in StageSpecs
  BY <1>1, ElementOfSeq, LenProperties
<1> QED
  BY <1>2 DEF StageName, StageSpecs, ConfigMapNames

(* Every version of the ConfigMaps, stored, cached or on its way, is good. *)
LEMMA StoresStep ==
    ASSUME RInv, [Next]_vars
    PROVE  \A st \in (cmWatch \cup {cms, cmCache})' : GoodStore(st)
<1>0. \A st \in cmWatch \cup {cms, cmCache} : GoodStore(st)
  BY DEF RInv, TypeOK, OutputsOK, GoodStore
<1>1. ASSUME UNCHANGED configMapVars
      PROVE  \A st \in (cmWatch \cup {cms, cmCache})' : GoodStore(st)
  BY <1>0, <1>1 DEF configMapVars
<1>2. ASSUME NEW name \in ConfigMapNames, NEW cm \in ConfigMaps,
             cm.live => cm.out \in Outputs, PublishConfigMap(name, cm)
      PROVE  \A st \in (cmWatch \cup {cms, cmCache})' : GoodStore(st)
  BY <1>0, <1>2, PublishedStoreGood
<1>3. CASE CollectGarbage
  <2>1. PICK name \in ConfigMapNames : PublishConfigMap(name, NoConfigMap)
    BY <1>3 DEF CollectGarbage
  <2>2. NoConfigMap \in ConfigMaps /\ ~NoConfigMap.live
    BY DEF NoConfigMap, ConfigMaps
  <2> QED
    BY <1>2, <2>1, <2>2
<1>4. CASE StoreOutput
  <2> DEFINE owner == IF seen.live THEN seen.owner ELSE obj.uid
             cm == NewConfigMap(owner)
  <2>1. /\ pc = "store" /\ PublishConfigMap(outputConfigMapName(StageName), cm)
    BY <1>4 DEF StoreOutput
  <2>2. /\ AtStage("Pending") /\ out \in Outputs /\ obj \in Pipelines
        /\ seen \in ConfigMaps /\ cms \in Stores
    BY <2>1 DEF RInv, PcOK, TypeOK
  <2>3. owner \in Nat /\ cms.rev + 1 \in Nat
    BY <2>2 DEF ConfigMaps, Pipelines, Stores
  <2>4. cm \in ConfigMaps /\ cm.out = out
    BY <2>2, <2>3 DEF NewConfigMap, ConfigMaps
  <2>5. outputConfigMapName(StageName) \in ConfigMapNames
    BY <2>2, StageNameTyped
  <2> HIDE DEF cm
  <2> QED
    BY <1>2, <2>1, <2>2, <2>4, <2>5
<1>5. CASE DeliverConfigMaps
  BY <1>0, <1>5 DEF DeliverConfigMaps
<1>6. CASE Restart
  BY <1>0, <1>6 DEF Restart
<1>7. CASE UserCreates \/ UserEdits \/ UserDeletes \/ DeliverPipeline \/ TimerFires
  BY <1>1, <1>7 DEF UserCreates, UserEdits, UserDeletes, DeliverPipeline, TimerFires
<1>8. CASE Reconcile
  BY <1>1, <1>8 DEF Reconcile, ReconcileNothing, handleDeletion, handlePending,
     handleRunningDone, handleRunningPanic, handleRunning, Enter, Skip
<1>9. CASE startStage \/ buildContext \/ AgentCompletes \/ AgentFails \/ StoreUnchanged \/ StoreRefused
  BY <1>1, <1>9 DEF startStage, buildContext, AgentCompletes, AgentFails, StoreUnchanged, StoreRefused
<1>10. CASE WriteBack
  BY <1>1, <1>10 DEF WriteBack, addFinalizer, removeFinalizer, startPipeline,
     completePipeline, failPipeline, completeStage, completeStageFromOutput, failStage,
     retryStage, Update, UpdateRefused
<1>11. CASE WriteFails
  BY <1>1, <1>11 DEF WriteFails
<1>12. CASE UNCHANGED vars
  BY <1>1, <1>12 DEF vars
<1> QED
  BY <1>3, <1>4, <1>5, <1>6, <1>7, <1>8, <1>9, <1>10, <1>11, <1>12
     DEF Next, Worker, RunStage, Faulty
--------------------------------------------------------------------------------
(* The worker's own variables. *)

LocalsTyped ==
    /\ queue \subseteq {"ready", "delayed"}
    /\ pc \in PCs /\ cur \in Nat
    /\ prompt \in Outputs \cup {NoOutput} /\ out \in Outputs \cup {NoOutput}
    /\ seen \in ConfigMaps
    /\ edits \in 0..MaxEdits /\ faults \in 0..MaxFaults
    /\ calls \in [1..MaxStages -> 0..MaxRuns]
    /\ done \subseteq (1..MaxStages) \X Outputs

(* What the worker reads from the cache is a ConfigMap. *)
LEMMA ReadsTyped ==
    ASSUME RInv, NEW n \in ConfigMapNames
    PROVE  /\ ReadConfigMap(n) \in ConfigMaps
           /\ ReadConfigMap(n).live => ReadConfigMap(n).out \in Outputs
BY DEF RInv, TypeOK, Stores, OutputsOK, ReadConfigMap

(* The worker's stage is one of the stages a spec may have. *)
LEMMA StageInRange ==
    ASSUME RInv, AtStage("Pending")
    PROVE  cur \in 1..MaxStages
<1>1. cur \in DOMAIN obj.spec.stages /\ obj.spec \in Specs \cup {EmptySpec}
  BY DEF RInv, AtStage, SpecsOK, Copies
<1>2. obj.spec # EmptySpec
  BY <1>1, EmptyDomain DEF EmptySpec
<1>3. obj.spec \in Specs /\ Len(obj.spec.stages) <= MaxStages /\ MaxStages \in Nat
  BY <1>1, <1>2, BoundsAssumption
<1>4. obj.spec.stages \in Seq(StageSpecs)
  BY <1>3, ConstantsAssumption DEF PipelineSpecs
<1>5. DOMAIN obj.spec.stages = 1..Len(obj.spec.stages) /\ Len(obj.spec.stages) \in Nat
  BY <1>4, LenProperties
<1> QED
  BY <1>1, <1>3, <1>5

(* Every step keeps the types of the queue, the locals and the counters. *)
LEMMA LocalsStep ==
    ASSUME RInv, [Next]_vars
    PROVE  LocalsTyped'
<1>0. LocalsTyped /\ PcOK
  BY DEF RInv, TypeOK, LocalsTyped
<1>1. MaxEdits \in Nat /\ MaxFaults \in Nat /\ MaxRuns \in Nat /\ MaxStages \in Nat
  BY BoundsAssumption
<1>2. NoConfigMap \in ConfigMaps
  BY DEF NoConfigMap, ConfigMaps
<1>5. ASSUME Return
      PROVE  /\ pc' \in PCs /\ cur' \in Nat /\ seen' \in ConfigMaps
             /\ prompt' \in Outputs \cup {NoOutput} /\ out' \in Outputs \cup {NoOutput}
  BY <1>2, <1>5 DEF Return, PCs
<1>6. ASSUME Fault PROVE faults' \in 0..MaxFaults
  BY <1>0, <1>1, <1>6 DEF Fault, LocalsTyped
<1>7. CASE UserCreates
  <2>1. calls' \in [1..MaxStages -> 0..MaxRuns] /\ done' = {}
    BY <1>1, <1>7 DEF UserCreates
  <2> QED
    BY <1>0, <1>7, <2>1 DEF UserCreates, LocalsTyped, workerVars, boundVars
<1>8. CASE UserEdits \/ UserDeletes
  <2>1. edits' \in 0..MaxEdits
    BY <1>0, <1>1, <1>8 DEF UserEdits, UserDeletes, LocalsTyped
  <2> QED
    BY <1>0, <1>8, <2>1 DEF UserEdits, UserDeletes, LocalsTyped, workerVars, observedVars
<1>9. CASE CollectGarbage
  BY <1>0, <1>9 DEF CollectGarbage, LocalsTyped, workerVars, boundVars, observedVars
<1>10. CASE DeliverPipeline \/ DeliverConfigMaps \/ TimerFires
  BY <1>0, <1>10 DEF DeliverPipeline, DeliverConfigMaps, TimerFires, LocalsTyped,
     workerVars, boundVars, observedVars
<1>11. ASSUME NEW p \in PCs, NEW i \in Nat, Enter(p, i) PROVE LocalsTyped'
  BY <1>0, <1>11 DEF Enter, LocalsTyped, boundVars, observedVars
<1>12. ASSUME NEW q, q \subseteq {"ready", "delayed"}, Skip(q) PROVE LocalsTyped'
  BY <1>0, <1>12 DEF Skip, LocalsTyped, workerVars, boundVars, observedVars
<1>13. CASE ReconcileNothing \/ handleRunningPanic
  BY <1>12, <1>13 DEF ReconcileNothing, handleRunningPanic
<1>14. CASE handleDeletion \/ handlePending \/ handleRunningDone
  BY <1>11, <1>14 DEF handleDeletion, handlePending, handleRunningDone, PCs, WritePCs
<1>15. CASE handleRunning
  <2>1. PICK i \in DOMAIN ReadPipeline.stages :
          LET step == StageStep(ReadPipeline, i) IN
          IF step = "wait" THEN Skip({"delayed"}) ELSE Enter(step, i)
    BY <1>15 DEF handleRunning
  <2>2. i \in Nat
    <3>1. ReadPipeline \in Pipelines
      BY DEF RInv, TypeOK, ReadPipeline
    <3> QED
      BY <3>1, LenProperties DEF Pipelines
  <2>3. StageStep(ReadPipeline, i) \in PCs \cup {"wait"}
    BY DEF StageStep, PCs, WritePCs
  <2> QED
    BY <1>11, <1>12, <2>1, <2>2, <2>3
<1>16. CASE buildContext
  <2>1. CASE pc' = "failStage" /\ UNCHANGED <<prompt, calls>>
    BY <1>0, <1>16, <2>1 DEF buildContext, LocalsTyped, boundVars, PCs, WritePCs
  <2>2. CASE pc' = "runAgent" /\ CountCall /\ prompt' \in Outputs \cup {NoOutput}
    <3>1. ASSUME cur \in 1..MaxStages, calls[cur] < MaxRuns
          PROVE  [calls EXCEPT ![cur] = @ + 1] \in [1..MaxStages -> 0..MaxRuns]
      <4>1. calls[cur] + 1 \in 0..MaxRuns
        BY <1>0, <1>1, <3>1 DEF LocalsTyped
      <4> QED
        BY <1>0, <4>1 DEF LocalsTyped
    <3>2. ASSUME cur \notin 1..MaxStages
          PROVE  [calls EXCEPT ![cur] = @ + 1] \in [1..MaxStages -> 0..MaxRuns]
      BY <1>0, <3>2 DEF LocalsTyped
    <3>3. calls' \in [1..MaxStages -> 0..MaxRuns]
      BY <1>0, <2>2, <3>1, <3>2 DEF LocalsTyped, CountCall
    <3> QED
      BY <1>0, <1>16, <2>2, <3>3 DEF buildContext, LocalsTyped, boundVars, PCs
  <2> QED
    BY <1>16, <2>1, <2>2 DEF buildContext
<1>17. CASE startStage
  <2>1. AtStage("Pending") /\ obj \in Pipelines
    BY <1>0, <1>17 DEF startStage, PcOK, RInv, TypeOK
  <2>2. Existing \in ConfigMaps /\ (Existing.live => Existing.out \in Outputs)
    BY <2>1, StageNameTyped, ReadsTyped DEF Existing
  <2>3. pc' \in PCs /\ out' \in Outputs \cup {NoOutput}
    BY <1>0, <1>17, <2>2 DEF startStage, LocalsTyped, PCs, WritePCs
  <2> QED
    BY <1>0, <1>17, <2>3 DEF startStage, LocalsTyped, boundVars, observedVars
<1>19. CASE AgentCompletes
  <2>1. AtStage("Pending") /\ obj \in Pipelines
    BY <1>0, <1>19 DEF AgentCompletes, PcOK, RInv, TypeOK
  <2>2. Existing \in ConfigMaps /\ cur \in 1..MaxStages
    BY <2>1, StageNameTyped, ReadsTyped, StageInRange DEF Existing
  <2>3. out' \in Outputs /\ done' \subseteq done \cup {<<cur, out'>>}
    BY <1>19 DEF AgentCompletes
  <2>4. done' \subseteq (1..MaxStages) \X Outputs
    BY <1>0, <2>2, <2>3 DEF LocalsTyped
  <2> QED
    BY <1>0, <1>19, <2>2, <2>3, <2>4 DEF AgentCompletes, LocalsTyped, boundVars, PCs
<1>20. CASE AgentFails \/ StoreUnchanged \/ StoreOutput
  BY <1>0, <1>20 DEF AgentFails, StoreUnchanged, StoreOutput, LocalsTyped, boundVars,
     observedVars, PCs, WritePCs
<1>22. CASE StoreRefused \/ UpdateRefused
  BY <1>0, <1>5, <1>22 DEF StoreRefused, UpdateRefused, ReturnError, LocalsTyped,
     boundVars, observedVars
<1>23. ASSUME NEW p, NEW new, NEW q, q \subseteq {"ready", "delayed"}, Update(p, new, q)
       PROVE  LocalsTyped'
  BY <1>0, <1>5, <1>23 DEF Update, LocalsTyped, boundVars, observedVars
<1>24. CASE \/ addFinalizer \/ removeFinalizer \/ startPipeline
            \/ completePipeline \/ failPipeline \/ completeStage
            \/ completeStageFromOutput \/ failStage \/ retryStage
  BY <1>23, <1>24 DEF addFinalizer, removeFinalizer, startPipeline, completePipeline,
     failPipeline, completeStage, completeStageFromOutput, failStage, retryStage
<1>25. CASE WriteFails \/ Restart
  BY <1>0, <1>5, <1>6, <1>25 DEF WriteFails, Restart, ReturnError, LocalsTyped, observedVars
<1>26. CASE UNCHANGED vars
  BY <1>0, <1>26 DEF vars, LocalsTyped, workerVars, boundVars, observedVars
<1> QED
  BY <1>7, <1>8, <1>9, <1>10, <1>13, <1>14, <1>15, <1>16, <1>17, <1>19, <1>20,
     <1>22, <1>24, <1>25, <1>26
     DEF Next, Worker, Reconcile, RunStage, WriteBack, Faulty

(* The worker is where its copy justifies it to be. *)
LEMMA PcStep ==
    ASSUME RInv, [Next]_vars
    PROVE  PcOK'
<1>0. PcOK /\ obj \in Pipelines /\ ReadPipeline \in Pipelines
  BY DEF RInv, TypeOK, ReadPipeline
<1>1. ASSUME UNCHANGED <<pc, obj, cur, out>> PROVE PcOK'
  BY <1>0, <1>1 DEF PcOK, AtStage, Unstarted
<1>2. ASSUME pc' = "idle" PROVE PcOK'
  BY <1>2 DEF PcOK
<1>3. ASSUME AtStage("Pending"), UNCHANGED <<obj, cur>>,
             \/ pc' \in {"buildContext", "runAgent", "failStage"}
             \/ pc' \in {"store", "completeStage", "recoverStage"} /\ out' \in Outputs
      PROVE  PcOK'
  <2>1. AtStage("Pending")'
    BY <1>3 DEF AtStage
  <2> QED
    BY <1>3, <2>1 DEF PcOK
<1>4. CASE UserCreates \/ UserEdits \/ UserDeletes \/ CollectGarbage
           \/ DeliverPipeline \/ DeliverConfigMaps \/ TimerFires
  BY <1>1, <1>4 DEF UserCreates, UserEdits, UserDeletes, CollectGarbage, DeliverPipeline,
     DeliverConfigMaps, TimerFires, workerVars
<1>5. CASE ReconcileNothing \/ handleRunningPanic
  BY <1>1, <1>5 DEF ReconcileNothing, handleRunningPanic, Skip, workerVars
<1>6. CASE handleDeletion
  BY <1>6 DEF handleDeletion, Enter, PcOK
<1>7. CASE handlePending
  BY <1>7 DEF handlePending, Enter, PcOK, Unstarted
<1>8. CASE handleRunningDone
  BY <1>8 DEF handleRunningDone, Enter, PcOK, RunningRead
<1>9. CASE handleRunning
  <2>1. PICK i \in DOMAIN ReadPipeline.stages :
          /\ FindCurrentStage(ReadPipeline, i)
          /\ i \in DOMAIN ReadPipeline.spec.stages
          /\ IF StageStep(ReadPipeline, i) = "wait" THEN Skip({"delayed"})
             ELSE Enter(StageStep(ReadPipeline, i), i)
    BY <1>9 DEF handleRunning
  <2>2. CASE StageStep(ReadPipeline, i) = "wait"
    BY <1>1, <2>1, <2>2 DEF Skip, workerVars
  <2>3. CASE StageStep(ReadPipeline, i) # "wait"
    <3>1. pc' = StageStep(ReadPipeline, i) /\ obj' = ReadPipeline /\ cur' = i
      BY <2>1, <2>3 DEF Enter
    <3>2. /\ obj'.live /\ ~obj'.deleting /\ obj'.phase = "Running"
          /\ FindCurrentStage(obj', cur') /\ cur' \in DOMAIN obj'.spec.stages
      BY <1>9, <2>1, <3>1 DEF handleRunning, RunningRead
    <3>3. /\ AreDependenciesMet(obj', cur')
          /\ \/ pc' = "startStage" /\ obj'.stages[cur'].phase = "Pending"
             \/ /\ pc' = "retryStage" /\ obj'.stages[cur'].phase = "Failed"
                /\ obj'.stages[cur'].retries < GetEffectiveRetryPolicy(obj', cur')
             \/ /\ pc' = "failPipeline" /\ obj'.stages[cur'].phase = "Failed"
                /\ ~(obj'.stages[cur'].retries < GetEffectiveRetryPolicy(obj', cur'))
      BY <2>3, <3>1 DEF StageStep
    <3>4. CASE pc' = "startStage"
      BY <3>2, <3>3, <3>4 DEF PcOK, AtStage
    <3>5. CASE pc' = "retryStage"
      BY <3>2, <3>3, <3>5 DEF PcOK, AtStage
    <3>6. CASE pc' = "failPipeline"
      <4>1. obj'.stages[cur'].retries \in Nat /\ GetEffectiveRetryPolicy(obj', cur') \in Int
        <5>1. obj' \in Pipelines /\ cur' \in DOMAIN obj'.stages /\ cur' \in DOMAIN obj'.spec.stages
          BY <1>0, <3>1, <3>2 DEF FindCurrentStage
        <5>2. obj'.stages[cur'] \in StageStatuses
          BY <5>1, ElementOfSeq, LenProperties DEF Pipelines
        <5>3. obj'.spec.stages \in Seq(StageSpecs) /\ obj'.spec.retry \in Int
          BY <5>1 DEF Pipelines, PipelineSpecs, NoPolicy
        <5>4. obj'.spec.stages[cur'] \in StageSpecs
          BY <5>1, <5>3, ElementOfSeq, LenProperties
        <5>5. obj'.spec.stages[cur'].retry \in Int
          BY <5>4 DEF StageSpecs, NoPolicy
        <5> QED
          BY <5>2, <5>3, <5>5 DEF StageStatuses, GetEffectiveRetryPolicy
      <4>2. obj'.stages[cur'].retries >= GetEffectiveRetryPolicy(obj', cur')
        BY <3>3, <3>6, <4>1
      <4> QED
        BY <3>2, <3>3, <3>6, <4>2 DEF PcOK, AtStage
    <3> QED
      BY <3>3, <3>4, <3>5, <3>6
  <2> QED
    BY <2>2, <2>3
<1>10. CASE startStage
  <2>1. AtStage("Pending")
    BY <1>0, <1>10 DEF startStage, PcOK
  <2>2. Existing.live => Existing.out \in Outputs
    BY <1>0, <2>1, StageNameTyped, ReadsTyped DEF Existing
  <2> QED
    BY <1>3, <1>10, <2>1, <2>2 DEF startStage
<1>11. CASE buildContext
  <2>1. AtStage("Pending")
    BY <1>0, <1>11 DEF buildContext, PcOK
  <2> QED
    BY <1>3, <1>11, <2>1 DEF buildContext
<1>12. CASE AgentCompletes \/ AgentFails
  <2>1. AtStage("Pending")
    BY <1>0, <1>12 DEF AgentCompletes, AgentFails, PcOK
  <2> QED
    BY <1>3, <1>12, <2>1 DEF AgentCompletes, AgentFails
<1>13. CASE StoreOutput \/ StoreUnchanged
  <2>1. AtStage("Pending") /\ out \in Outputs
    BY <1>0, <1>13 DEF StoreOutput, StoreUnchanged, PcOK
  <2> QED
    BY <1>3, <1>13, <2>1 DEF StoreOutput, StoreUnchanged
<1>14. CASE StoreRefused \/ WriteBack \/ WriteFails \/ Restart
  BY <1>2, <1>14 DEF StoreRefused, WriteBack, addFinalizer, removeFinalizer,
     startPipeline, completePipeline, failPipeline, completeStage,
     completeStageFromOutput, failStage, retryStage, Update, UpdateRefused, WriteFails,
     Restart, ReturnError, Return
<1>15. CASE UNCHANGED vars
  BY <1>1, <1>15 DEF vars, workerVars
<1> QED
  BY <1>4, <1>5, <1>6, <1>7, <1>8, <1>9, <1>10, <1>11, <1>12, <1>13, <1>14, <1>15
     DEF Next, Worker, Reconcile, RunStage, Faulty
--------------------------------------------------------------------------------
(* The controller starts in the invariant. *)
LEMMA ReconcilerInit == Init => RInv
<1> SUFFICES ASSUME Init PROVE RInv
  OBVIOUS
<1>1. LInv
  BY InitSound DEF Init, LifecycleInit
<1>3. NoStore \in Stores /\ NoConfigMap \in ConfigMaps
  BY DEF NoStore, Stores, NoConfigMap, ConfigMaps
<1>4. calls \in [1..MaxStages -> 0..MaxRuns]
  BY BoundsAssumption DEF Init
<1>5. TypeOK
  BY NoPipelineTyped, <1>3, <1>4, BoundsAssumption DEF Init, TypeOK, PCs
<1>6. VersionsOK /\ SpecsOK
  <2>1. Copies = {NoPipeline} /\ api = NoPipeline
    BY DEF Init, Copies
  <2>2. NoPipeline.rv = 0 /\ NoPipeline.spec = EmptySpec
    BY DEF NoPipeline
  <2> QED
    BY <2>1, <2>2 DEF VersionsOK, SpecsOK
<1>7. OutputsOK
  BY DEF Init, OutputsOK, NoStore, NoConfigMap
<1>8. PcOK
  BY DEF Init, PcOK
<1> QED
  BY <1>1, <1>5, <1>6, <1>7, <1>8 DEF RInv

(* Every step of the controller and of its environment keeps the invariant and *)
(* does to the resource what the lifecycle allows, or nothing.                   *)
LEMMA ReconcilerStep == RInv /\ [Next]_vars => RInv' /\ [LifecycleNext]_api
<1> SUFFICES ASSUME RInv, [Next]_vars PROVE RInv' /\ [LifecycleNext]_api
  OBVIOUS
<1>1. [LifecycleNext]_api
  BY ApiStep DEF ApiWrite, ApiQuiet
<1>2. LInv'
  BY <1>1, StepSound DEF RInv
<1>3. api' \in Pipelines /\ cache' \in Pipelines /\ watch' \subseteq Pipelines
  <2>1. api' \in Pipelines
    BY <1>2 DEF LInv, ResourceTyped
  <2> QED
    BY <2>1, ApiStep DEF ApiWrite, ApiQuiet, RInv, TypeOK
<1>4. obj' \in Pipelines
  BY NoPipelineTyped, ObjStep DEF RInv, TypeOK
<1>5. cms' \in Stores /\ cmCache' \in Stores /\ cmWatch' \subseteq Stores /\ OutputsOK'
  BY StoresStep DEF GoodStore, OutputsOK
<1>6. TypeOK'
  BY <1>3, <1>4, <1>5, LocalsStep DEF TypeOK, LocalsTyped
<1> QED
  BY <1>1, <1>2, <1>5, <1>6, VersionsStep, PcStep DEF RInv
--------------------------------------------------------------------------------
(* No work is forgotten. *)

(* What the informer knows: it is up to date, or the current version is on its   *)
(* way.                                                                          *)
InformerOK ==
    /\ watch # {} => api \in watch
    /\ watch = {} => cache = api

FInv == RInv /\ InformerOK /\ NotForgotten

(* A write of the resource is on its way to the informer. *)
LEMMA PublishWakes ==
    ASSUME InformerOK, NEW new, Publish(new)
    PROVE  InformerOK' /\ watch' # {}
BY DEF InformerOK, Publish

(* A step that leaves the resource and its informer alone. *)
LEMMA InformerUnchanged ==
    ASSUME InformerOK, UNCHANGED pipelineVars
    PROVE  InformerOK'
BY DEF InformerOK, pipelineVars

(* Every step leaves a resource that needs work in somebody's hands. *)
LEMMA ForgottenStep ==
    ASSUME FInv, [Next]_vars
    PROVE  InformerOK' /\ NotForgotten'
<1>0. RInv /\ InformerOK /\ NotForgotten
  BY DEF FInv
<1>1. ASSUME InformerOK', watch' # {} \/ queue' # {} \/ pc' # "idle"
      PROVE  InformerOK' /\ NotForgotten'
  BY <1>1 DEF NotForgotten
<1>2. ASSUME UNCHANGED pipelineVars, queue' # {} \/ pc' # "idle"
      PROVE  InformerOK' /\ NotForgotten'
  BY <1>0, <1>1, <1>2, InformerUnchanged
<1>3. ASSUME NEW new, Publish(new)
      PROVE  InformerOK' /\ NotForgotten'
  BY <1>0, <1>1, <1>3, PublishWakes
<1>4. CASE UserCreates \/ UserEdits \/ UserDeletes
  BY <1>3, <1>4 DEF UserCreates, UserEdits, UserDeletes
<1>5. CASE CollectGarbage
  <2>1. UNCHANGED pipelineVars /\ pc' = pc /\ queue' = queue
    BY <1>5 DEF CollectGarbage, workerVars
  <2> QED
    BY <1>0, <2>1, InformerUnchanged DEF NotForgotten, NothingToDo, Terminal, pipelineVars
<1>6. CASE DeliverPipeline
  <2>1. PICK v \in watch : cache' = v /\ watch' = {w \in watch : w.rv > v.rv}
    BY <1>6 DEF DeliverPipeline
  <2>2. api' = api /\ queue' # {}
    BY <1>6 DEF DeliverPipeline
  <2>3. /\ v.rv \in Nat /\ api.rv \in Nat /\ api \in watch
        /\ v.rv <= api.rv /\ (v.rv = api.rv => v = api)
    <3>1. v \in Pipelines /\ api \in Pipelines /\ v \in Copies
      BY <1>0 DEF RInv, TypeOK, Copies
    <3> QED
      BY <1>0, <3>1 DEF RInv, VersionsOK, InformerOK, Pipelines
  <2>4. CASE v = api
    <3>1. \A w \in watch : ~(w.rv > v.rv)
      <4>1. \A w \in watch : w \in Copies /\ w \in Pipelines
        BY <1>0 DEF RInv, TypeOK, Copies
      <4>2. \A w \in watch : w.rv <= api.rv /\ w.rv \in Nat
        BY <1>0, <4>1 DEF RInv, VersionsOK, Pipelines
      <4> QED
        BY <2>3, <2>4, <4>2
    <3>2. watch' = {}
      BY <2>1, <3>1
    <3> QED
      BY <1>1, <2>1, <2>2, <2>4, <3>2 DEF InformerOK
  <2>5. CASE v # api
    <3>1. api.rv > v.rv
      BY <2>3, <2>5
    <3>2. api \in watch'
      BY <2>1, <2>3, <3>1
    <3>3. InformerOK'
      BY <2>2, <3>2 DEF InformerOK
    <3> QED
      BY <1>1, <2>2, <3>3
  <2> QED
    BY <2>4, <2>5
<1>7. CASE DeliverConfigMaps \/ TimerFires
  BY <1>2, <1>7 DEF DeliverConfigMaps, TimerFires
<1>8. CASE ReconcileNothing
  <2>1. UNCHANGED pipelineVars /\ NothingToDo(ReadPipeline)
    BY <1>8 DEF ReconcileNothing, Skip
  <2>2. CASE watch = {}
    <3>1. ReadPipeline = api
      BY <1>0, <2>2 DEF InformerOK, ReadPipeline
    <3> QED
      BY <1>0, <2>1, <3>1, InformerUnchanged
         DEF NotForgotten, NothingToDo, Terminal, pipelineVars
  <2>3. CASE watch # {}
    BY <1>0, <1>1, <2>1, <2>3, InformerUnchanged DEF pipelineVars
  <2> QED
    BY <2>2, <2>3
<1>9. ASSUME NEW p, NEW i, p # "idle", Enter(p, i)
      PROVE  InformerOK' /\ NotForgotten'
  BY <1>2, <1>9 DEF Enter
<1>10. CASE handleDeletion \/ handlePending \/ handleRunningDone
  BY <1>9, <1>10 DEF handleDeletion, handlePending, handleRunningDone
<1>11. CASE handleRunningPanic
  BY <1>2, <1>11 DEF handleRunningPanic, Skip
<1>12. CASE handleRunning
  <2>1. PICK i \in DOMAIN ReadPipeline.stages :
          IF StageStep(ReadPipeline, i) = "wait" THEN Skip({"delayed"})
          ELSE Enter(StageStep(ReadPipeline, i), i)
    BY <1>12 DEF handleRunning
  <2>2. StageStep(ReadPipeline, i) # "idle"
    BY DEF StageStep
  <2> QED
    BY <1>2, <1>9, <2>1, <2>2 DEF Skip
<1>13. CASE \/ startStage \/ buildContext \/ AgentCompletes \/ AgentFails
            \/ StoreOutput \/ StoreUnchanged
  BY <1>2, <1>13 DEF startStage, buildContext, AgentCompletes, AgentFails, StoreOutput,
     StoreUnchanged
<1>14. CASE StoreRefused \/ UpdateRefused \/ WriteFails
  BY <1>2, <1>14 DEF StoreRefused, UpdateRefused, WriteFails, ReturnError
<1>15. CASE \/ addFinalizer \/ removeFinalizer \/ startPipeline
            \/ completePipeline \/ failPipeline \/ completeStage
            \/ completeStageFromOutput \/ failStage \/ retryStage
  <2>1. \E new : Publish(new)
    BY <1>15, Zenon DEF addFinalizer, removeFinalizer, startPipeline, completePipeline,
       failPipeline, completeStage, completeStageFromOutput, failStage, retryStage, Update
  <2> QED
    BY <1>3, <2>1
<1>16. CASE Restart
  BY <1>1, <1>16 DEF Restart, InformerOK
<1>17. CASE UNCHANGED vars
  BY <1>0, <1>17, InformerUnchanged
     DEF vars, NotForgotten, NothingToDo, Terminal, pipelineVars, workerVars
<1> QED
  BY <1>4, <1>5, <1>6, <1>7, <1>8, <1>10, <1>11, <1>12, <1>13, <1>14, <1>15, <1>16, <1>17
     DEF Next, Worker, Reconcile, RunStage, WriteBack, Faulty
--------------------------------------------------------------------------------
(* The controller keeps its invariant. *)
THEOREM ReconcilerInvariant == Spec => []RInv
BY ReconcilerInit, ReconcilerStep, PTL DEF Spec

(* Every variable of the controller and of its environment keeps its type. *)
THEOREM ReconcilerTyped == Spec => []TypeOK
<1>1. RInv => TypeOK
  BY DEF RInv
<1> QED
  BY <1>1, ReconcilerInvariant, PTL

(* The controller implements the lifecycle: with any lag of the caches, any      *)
(* edits, faults, restarts and recreations, each write it gets accepted is a     *)
(* lifecycle step on the stored resource, though it was computed from a copy.    *)
THEOREM ReconcilerImplements == Spec => ImplementsLifecycle
<1>1. Init => LifecycleInit
  BY DEF Init, LifecycleInit
<1> QED
  BY <1>1, ReconcilerStep, ReconcilerInvariant, PTL
     DEF Spec, ImplementsLifecycle, LifecycleSpec

(* Stages are worked on in the order of the spec, also by a controller whose     *)
(* reads are stale.                                                              *)
THEOREM ReconcilerInOrder == Spec => []StagesInOrder
BY ReconcilerImplements, LifecycleInOrder, PTL DEF ImplementsLifecycle

(* The phase of a pipeline the controller has closed agrees with its stages. *)
THEOREM ReconcilerTruthful == Spec => []PhaseTellsStages
BY ReconcilerImplements, LifecycleTruthful, PTL DEF ImplementsLifecycle

(* A Completed stage and a terminal phase survive every conflict, retry, edit    *)
(* and restart.                                                                  *)
THEOREM ReconcilerNothingUndone == Spec => NothingUndone
BY ReconcilerImplements, LifecycleNothingUndone, PTL DEF ImplementsLifecycle

(* Reconcile drops no work: each of its returns without a requeue is justified   *)
(* by the stored resource or followed by an event.                               *)
THEOREM ReconcilerNotForgotten == Spec => []NotForgotten
<1>1. Init => InformerOK /\ NotForgotten
  <2>1. NoPipeline.live = FALSE
    BY DEF NoPipeline
  <2> QED
    BY <2>1 DEF Init, InformerOK, NotForgotten
<1>2. FInv /\ [Next]_vars => FInv'
  BY ForgottenStep, ReconcilerStep DEF FInv
<1>3. Init => FInv
  BY <1>1, ReconcilerInit DEF FInv
<1>4. FInv => NotForgotten
  BY DEF FInv
<1> QED
  BY <1>2, <1>3, <1>4, PTL DEF Spec
================================================================================
