------------------------------ MODULE OutputProofs ------------------------------
(* Proofs about the outputs, with any lag of the caches: what a Completed stage *)
(* refers to exists and belongs to the pipeline, and what is stored, what the    *)
(* status shows and what the next stage's prompt carries are all answers of the  *)
(* stage's own agent.                                                            *)
EXTENDS ReconcilerProofs

(* The conditions of the theorems.  Nothing enforces them.  Without the first a *)
(* resource that is created again under the same name meets the outputs of its   *)
(* predecessor (run stale_output); without the second two stages, or a stage and *)
(* the one that an edit puts in its place, share one ConfigMap.                  *)

OneIncarnation == MaxIncarnations <= 1

(* A stage name stands for one position: no spec uses a name twice, and no edit *)
(* moves a name to another position.                                             *)
NamesFixPositions ==
    \A s, t \in Specs : \A i \in DOMAIN s.stages, j \in DOMAIN t.stages :
        s.stages[i].name = t.stages[j].name => i = j
--------------------------------------------------------------------------------
(* Three views of a step, from which the invariants below are proved. *)

(* The versions of the ConfigMaps: stored, cached and on their way. *)
StoreVersions == cmWatch \cup {cms, cmCache}

StoresQuiet == cms' = cms /\ StoreVersions' \subseteq StoreVersions

(* Only the worker and the garbage collector change ConfigMaps. *)
LEMMA StoreCases ==
    ASSUME [Next]_vars
    PROVE  StoresQuiet \/ CollectGarbage \/ StoreOutput
<1>1. ASSUME UNCHANGED configMapVars PROVE StoresQuiet
  BY <1>1 DEF configMapVars, StoresQuiet, StoreVersions
<1>2. CASE DeliverConfigMaps
  BY <1>2 DEF DeliverConfigMaps, StoresQuiet, StoreVersions
<1>3. CASE Restart
  BY <1>3 DEF Restart, StoresQuiet, StoreVersions
<1>4. CASE UserCreates \/ UserEdits \/ UserDeletes \/ DeliverPipeline \/ TimerFires
  BY <1>1, <1>4 DEF UserCreates, UserEdits, UserDeletes, DeliverPipeline, TimerFires
<1>5. CASE Reconcile
  BY <1>1, <1>5 DEF Reconcile, ReconcileNothing, handleDeletion, handlePending,
     handleRunningDone, handleRunningPanic, handleRunning, Enter, Skip
<1>6. CASE \/ startStage \/ buildContext \/ AgentCompletes \/ AgentFails
           \/ StoreUnchanged \/ StoreRefused
  BY <1>1, <1>6 DEF startStage, buildContext, AgentCompletes, AgentFails, StoreUnchanged,
     StoreRefused
<1>7. CASE WriteBack
  BY <1>1, <1>7 DEF WriteBack, addFinalizer, removeFinalizer, startPipeline,
     completePipeline, failPipeline, completeStage, completeStageFromOutput, failStage,
     retryStage, Update, UpdateRefused
<1>8. CASE WriteFails
  BY <1>1, <1>8 DEF WriteFails
<1>9. CASE UNCHANGED vars
  BY <1>1, <1>9 DEF vars
<1> QED
  BY <1>2, <1>3, <1>4, <1>5, <1>6, <1>7, <1>8, <1>9 DEF Next, Worker, RunStage, Faulty

(* What publishing a ConfigMap does to the store and its versions. *)
LEMMA PublishedStore ==
    ASSUME cms \in Stores, NEW name \in ConfigMapNames, NEW cm,
           PublishConfigMap(name, cm)
    PROVE  /\ StoreVersions' \subseteq StoreVersions \cup {cms'}
           /\ \A n \in ConfigMapNames :
                 cms'.of[n] = IF n = name THEN cm ELSE cms.of[n]
BY DEF PublishConfigMap, StoreVersions, Stores

(* Where the worker has nothing of a stage in its hands. *)
EntryPlaces == {"addFinalizer", "removeFinalizer", "startPipeline", "completePipeline",
                "failPipeline", "retryStage", "startStage"}

WorkerEnters ==
    pc = "idle" /\ pc' \in EntryPlaces /\ obj' = ReadPipeline /\ UNCHANGED api

WorkerRests == UNCHANGED <<pc, obj, cur, prompt, out, seen>>

(* The worker returns, rests, starts on a copy it has just read, or takes a step *)
(* of the stage.                                                                 *)
LEMMA WorkerCases ==
    ASSUME [Next]_vars
    PROVE  \/ pc' = "idle" \/ WorkerRests \/ WorkerEnters
           \/ startStage \/ buildContext \/ AgentCompletes \/ AgentFails
           \/ StoreOutput \/ StoreUnchanged
<1>1. ASSUME UNCHANGED workerVars PROVE WorkerRests
  BY <1>1 DEF workerVars, WorkerRests
<1>2. ASSUME NEW p \in EntryPlaces, NEW i, Take, Enter(p, i) PROVE WorkerEnters
  BY <1>2 DEF Enter, Take, WorkerEnters, pipelineVars
<1>3. CASE UserCreates \/ UserEdits \/ UserDeletes \/ CollectGarbage
           \/ DeliverPipeline \/ DeliverConfigMaps \/ TimerFires
  BY <1>1, <1>3 DEF UserCreates, UserEdits, UserDeletes, CollectGarbage, DeliverPipeline,
     DeliverConfigMaps, TimerFires
<1>4. CASE ReconcileNothing \/ handleRunningPanic
  BY <1>1, <1>4 DEF ReconcileNothing, handleRunningPanic, Skip
<1>5. CASE handleDeletion \/ handlePending \/ handleRunningDone
  BY <1>2, <1>5 DEF handleDeletion, handlePending, handleRunningDone, EntryPlaces
<1>6. CASE handleRunning
  <2>1. PICK i \in DOMAIN ReadPipeline.stages :
          IF StageStep(ReadPipeline, i) = "wait" THEN Skip({"delayed"})
          ELSE Enter(StageStep(ReadPipeline, i), i)
    BY <1>6 DEF handleRunning
  <2>2. StageStep(ReadPipeline, i) \in EntryPlaces \cup {"wait"} /\ Take
    BY <1>6 DEF StageStep, EntryPlaces, handleRunning
  <2> QED
    BY <1>1, <1>2, <2>1, <2>2 DEF Skip
<1>7. CASE StoreRefused \/ WriteBack \/ WriteFails \/ Restart
  BY <1>7 DEF StoreRefused, WriteBack, addFinalizer, removeFinalizer,
     startPipeline, completePipeline, failPipeline, completeStage,
     completeStageFromOutput, failStage, retryStage, Update, UpdateRefused, WriteFails,
     Restart, ReturnError, Return
<1>8. CASE UNCHANGED vars
  BY <1>1, <1>8 DEF vars
<1> QED
  BY <1>3, <1>4, <1>5, <1>6, <1>7, <1>8 DEF Next, Worker, Reconcile, RunStage, Faulty

(* The resource and its stage statuses as a step leaves them. *)
StatusKept == api'.uid = api.uid /\ api'.live = api.live /\ api'.stages = api.stages

Gone == api.live /\ ~api'.live /\ api'.uid = api.uid

Started ==
    /\ pc = "startPipeline" /\ pc' = "idle"
    /\ api.live /\ api'.live /\ api'.uid = api.uid
    /\ api.spec \in Specs /\ api.stages = <<>>
    /\ api'.stages = InitStageStatuses(api.spec)

(* Status s is written for the worker's stage, from an up-to-date copy. *)
StageWritten(s) ==
    /\ obj = api /\ api.live /\ api'.live /\ api'.uid = api.uid
    /\ cur \in DOMAIN api.stages /\ cur \in DOMAIN api.spec.stages
    /\ DOMAIN api'.stages = DOMAIN api.stages
    /\ \A j \in DOMAIN api.stages :
          api'.stages[j] = IF j = cur THEN s ELSE api.stages[j]
    /\ pc' = "idle"

Reported ==
    /\ pc \in {"completeStage", "recoverStage"}
    /\ StageWritten(CompletedStatus(api, cur, out))

(* A write of the current resource that leaves its status alone. *)
LEMMA WrittenStatus ==
    ASSUME NEW n \in Pipelines, n.uid = api.uid, n.live = api.live, n.stages = api.stages,
           api' = Written(n)
    PROVE  StatusKept
BY DEF Written, Pipelines, StatusKept

(* A stage write that is accepted changes the status of the worker's stage, and *)
(* nothing else of the status.                                                   *)
LEMMA StageWrites ==
    ASSUME RInv
    PROVE  /\ completeStage \/ completeStageFromOutput => Reported
           /\ failStage => pc = "failStage" /\ StageWritten(FailedStatus(api, cur))
           /\ retryStage => pc = "retryStage" /\ StageWritten(RetriedStatus(api, cur))
<1>0. api \in Pipelines /\ PcOK /\ (WriteAccepted => obj = api)
  BY AcceptedIsCurrent DEF RInv, TypeOK
<1>1. ASSUME NEW p, NEW new, NEW q, Update(p, new, q)
      PROVE  pc = p /\ obj = api /\ api.live /\ api' = new /\ pc' = "idle"
  BY <1>0, <1>1 DEF Update, Publish, WriteAccepted, Return
<1>2. ASSUME AtStage("Pending") \/ AtStage("Failed"), obj = api
      PROVE  /\ cur \in DOMAIN api.stages /\ cur \in DOMAIN api.spec.stages
             /\ Executing(api, cur) \in Pipelines
             /\ Executing(api, cur).stages = api.stages
             /\ Executing(api, cur).uid = api.uid /\ Executing(api, cur).live = api.live
  <2>1. cur \in DOMAIN api.stages /\ cur \in DOMAIN api.spec.stages
    BY <1>2 DEF AtStage, FindCurrentStage
  <2>2. Executing(api, cur) \in Pipelines
    BY <1>0, <2>1, StatusTypes DEF Executing, Pipelines
  <2> QED
    BY <1>0, <2>1, <2>2 DEF Executing, Pipelines
<1>3. ASSUME NEW b \in Pipelines, b.stages = api.stages, b.uid = api.uid, b.live = api.live,
              cur \in DOMAIN api.stages, cur \in DOMAIN api.spec.stages, obj = api, api.live,
              NEW s \in StageStatuses, api' = Written(WithStage(b, cur, s)), pc' = "idle"
       PROVE  StageWritten(s)
  <2> DEFINE n == WithStage(b, cur, s)
  <2>1. /\ n \in Pipelines /\ DOMAIN n.stages = DOMAIN api.stages
        /\ \A j \in DOMAIN api.stages : n.stages[j] = IF j = cur THEN s ELSE api.stages[j]
    BY <1>3, WithStageProperties
  <2>2. n.uid = api.uid /\ n.live = api.live
    BY <1>3 DEF WithStage, Pipelines
  <2>3. api'.stages = n.stages /\ api'.uid = n.uid /\ api'.live = n.live
    BY <1>3, <2>1 DEF Written, Pipelines
  <2> HIDE DEF n
  <2> QED
    BY <1>3, <2>1, <2>2, <2>3 DEF StageWritten
<1>4. ASSUME completeStage \/ completeStageFromOutput
      PROVE  Reported
  <2>1. /\ pc \in {"completeStage", "recoverStage"} /\ obj = api /\ api.live /\ pc' = "idle"
        /\ api' \in {Written(CompleteStage(api, cur, out)), Written(RecoverStage(api, cur, out))}
    BY <1>1, <1>4 DEF completeStage, completeStageFromOutput
  <2>2. AtStage("Pending") /\ out \in Seq(Bytes)
    BY <1>0, <2>1, ConstantsAssumption DEF PcOK
  <2>3. CompletedStatus(api, cur, out) \in StageStatuses
    BY <1>0, <1>2, <2>1, <2>2, StatusTypes
  <2>4. StageWritten(CompletedStatus(api, cur, out))
    BY <1>0, <1>2, <1>3, <2>1, <2>2, <2>3 DEF CompleteStage, RecoverStage
  <2> QED
    BY <2>1, <2>4 DEF Reported
<1>5. ASSUME failStage
      PROVE  pc = "failStage" /\ StageWritten(FailedStatus(api, cur))
  <2>1. /\ pc = "failStage" /\ obj = api /\ api.live /\ pc' = "idle"
        /\ api' = Written(FailStage(api, cur))
    BY <1>1, <1>5 DEF failStage
  <2>2. AtStage("Pending")
    BY <1>0, <2>1 DEF PcOK
  <2>3. FailedStatus(api, cur) \in StageStatuses
    BY <1>0, <1>2, <2>1, <2>2, StatusTypes
  <2> QED
    BY <1>2, <1>3, <2>1, <2>2, <2>3 DEF FailStage
<1>6. ASSUME retryStage
      PROVE  pc = "retryStage" /\ StageWritten(RetriedStatus(api, cur))
  <2>1. /\ pc = "retryStage" /\ obj = api /\ api.live /\ pc' = "idle"
        /\ api' = Written(RetryStage(api, cur))
    BY <1>1, <1>6 DEF retryStage
  <2>2. AtStage("Failed")
    BY <1>0, <2>1 DEF PcOK
  <2>3. RetriedStatus(api, cur) \in StageStatuses
    BY <1>0, <1>2, <2>1, <2>2, StatusTypes
  <2> QED
    BY <1>0, <1>2, <1>3, <2>1, <2>2, <2>3 DEF RetryStage
<1> QED
  BY <1>4, <1>5, <1>6

(* The status changes when the resource is created, goes away or starts, and    *)
(* when the worker writes its stage; nobody else writes it.                      *)
LEMMA StatusCases ==
    ASSUME RInv, [Next]_vars
    PROVE  \/ StatusKept \/ Gone \/ UserCreates \/ Started \/ Reported
           \/ pc = "failStage" /\ StageWritten(FailedStatus(api, cur))
           \/ pc = "retryStage" /\ StageWritten(RetriedStatus(api, cur))
<1>0. api \in Pipelines /\ PcOK /\ (WriteAccepted => obj = api)
  BY AcceptedIsCurrent DEF RInv, TypeOK
<1>1. ASSUME api' = api PROVE StatusKept
  BY <1>1 DEF StatusKept
<1>2. ASSUME NEW new, Publish(new) PROVE api' = new
  BY <1>2 DEF Publish
<1>3. ASSUME NEW p, NEW new, NEW q, Update(p, new, q)
      PROVE  pc = p /\ obj = api /\ api.live /\ api' = new /\ pc' = "idle"
  BY <1>0, <1>2, <1>3 DEF Update, WriteAccepted, Return
<1>4. CASE UserEdits
  <2>1. PICK spec \in Specs : Publish(Written([api EXCEPT !.spec = spec]))
    BY <1>4 DEF UserEdits
  <2> DEFINE n == [api EXCEPT !.spec = spec]
  <2>2. api' = Written(n) /\ n \in Pipelines
    BY <1>0, <1>2, <2>1, WriteTypes
  <2>3. n.uid = api.uid /\ n.live = api.live /\ n.stages = api.stages
    BY <1>0 DEF Pipelines
  <2> HIDE DEF n
  <2> QED
    BY <2>2, <2>3, WrittenStatus
<1>5. CASE UserDeletes
  <2>1. api' = IF api.finalizer THEN Written([api EXCEPT !.deleting = TRUE])
                                ELSE Removed(api)
    BY <1>2, <1>5 DEF UserDeletes
  <2>2. CASE api.finalizer
    <3> DEFINE n == [api EXCEPT !.deleting = TRUE]
    <3>1. api' = Written(n) /\ n \in Pipelines
      BY <1>0, <2>1, <2>2, WriteTypes
    <3>2. n.uid = api.uid /\ n.live = api.live /\ n.stages = api.stages
      BY <1>0 DEF Pipelines
    <3> HIDE DEF n
    <3> QED
      BY <3>1, <3>2, WrittenStatus
  <2>3. CASE ~api.finalizer
    BY <1>5, <2>1, <2>3 DEF UserDeletes, Removed, NoPipeline, Gone
  <2> QED
    BY <2>2, <2>3
<1>6. CASE removeFinalizer
  <2>1. api.live /\ api' = Removed(api)
    BY <1>3, <1>6 DEF removeFinalizer
  <2> QED
    BY <2>1 DEF Removed, NoPipeline, Gone
<1>7. CASE addFinalizer \/ completePipeline \/ failPipeline
  <2>1. api' \in {Written(AddFinalizer(api)), Written(CompletePipeline(api)),
                  Written(FailPipeline(api))}
    BY <1>3, <1>7 DEF addFinalizer, completePipeline, failPipeline
  <2>2. ASSUME NEW n \in {AddFinalizer(api), CompletePipeline(api), FailPipeline(api)}
        PROVE  n \in Pipelines /\ n.uid = api.uid /\ n.live = api.live /\ n.stages = api.stages
    <3>1. n \in Pipelines
      BY <1>0, WriteTypes
    <3> QED
      BY <1>0, <3>1 DEF AddFinalizer, CompletePipeline, FailPipeline, Pipelines
  <2> QED
    BY <2>1, <2>2, WrittenStatus
<1>8. CASE startPipeline
  <2>1. /\ pc = "startPipeline" /\ obj = api /\ api.live /\ pc' = "idle"
        /\ api' = Written(StartPipeline(api))
    BY <1>3, <1>8 DEF startPipeline
  <2>2. Unstarted /\ api.spec.stages # <<>>
    BY <1>0, <2>1 DEF PcOK
  <2>3. api.stages = <<>>
    BY <2>1, <2>2 DEF RInv, LInv, Sound, Told, Unstarted
  <2>4. api.spec \in Specs
    BY <2>2 DEF RInv, SpecsOK, EmptySpec
  <2>5. StartPipeline(api) \in Pipelines
    BY <1>0, <2>2, WriteTypes
  <2>6. /\ StartPipeline(api).live = api.live /\ StartPipeline(api).uid = api.uid
        /\ StartPipeline(api).stages = InitStageStatuses(api.spec)
    BY <1>0 DEF StartPipeline, Pipelines
  <2>7. /\ api'.live = api.live /\ api'.uid = api.uid
        /\ api'.stages = InitStageStatuses(api.spec)
    BY <2>1, <2>5, <2>6 DEF Written, Pipelines
  <2> QED
    BY <2>1, <2>3, <2>4, <2>7 DEF Started
<1>9. CASE \/ CollectGarbage \/ DeliverPipeline \/ DeliverConfigMaps \/ TimerFires
            \/ Reconcile \/ RunStage \/ UpdateRefused \/ Faulty \/ UNCHANGED vars
  BY <1>1, <1>9 DEF CollectGarbage, DeliverPipeline, DeliverConfigMaps, TimerFires,
     Reconcile, ReconcileNothing, handleDeletion, handlePending, handleRunningDone,
     handleRunningPanic, handleRunning, Enter, Skip, RunStage, startStage, buildContext,
     AgentCompletes, AgentFails, StoreOutput, StoreUnchanged, StoreRefused, UpdateRefused,
     Faulty, WriteFails, Restart, vars, pipelineVars
<1>10. CASE completeStage \/ completeStageFromOutput \/ failStage \/ retryStage
  BY <1>10, StageWrites
<1> QED
  BY <1>4, <1>5, <1>6, <1>7, <1>8, <1>9, <1>10 DEF Next, Worker, WriteBack
--------------------------------------------------------------------------------
(* With one incarnation: the outputs of a living pipeline are its own and stay. *)

(* There is one resource at most, the first; no copy of it was made before it   *)
(* existed.                                                                      *)
FirstOnly ==
    /\ api.uid \in {0, 1}
    /\ \A v \in Copies \cup {api} : v.live => v.uid = 1 /\ api.uid = 1

(* Every ConfigMap that some version shows is the resource's, and there while    *)
(* the resource lives.                                                           *)
OwnersOK ==
    \A st \in StoreVersions : \A n \in ConfigMapNames :
        st.of[n].live => /\ st.of[n].owner = 1 /\ api.uid = 1
                         /\ api.live => cms.of[n].live

(* So is the one CreateOrUpdate read, though it may have read an old version,    *)
(* and the one whose reference the worker is about to write.                     *)
WorkerStored ==
    /\ pc = "store" /\ seen.live => seen.owner = 1 /\ (api.live => Stored.live)
    /\ pc \in {"completeStage", "recoverStage"} /\ api.live => Stored.live

KeptInv == RInv /\ FirstOnly /\ OwnersOK /\ WorkerStored /\ OutputKept

(* A resource comes to life by being created, and only so. *)
LEMMA UidCases ==
    ASSUME RInv, [Next]_vars
    PROVE  \/ api'.uid = api.uid /\ (api'.live => api.live)
           \/ /\ UserCreates /\ ~api.live /\ api'.uid = api.uid + 1 /\ api.uid < MaxIncarnations
              /\ api'.live /\ api'.stages = <<>>
<1>1. CASE UserCreates
  <2>1. PICK spec \in Specs : api' = Created(api, spec)
    BY <1>1 DEF UserCreates, Publish
  <2>2. api'.uid = api.uid + 1 /\ api'.live /\ api'.stages = <<>>
    BY <2>1 DEF Created, NoPipeline
  <2> QED
    BY <1>1, <2>2 DEF UserCreates
<1>2. CASE ~UserCreates
  BY <1>2, StatusCases DEF StatusKept, Gone, Started, Reported, StageWritten
<1> QED
  BY <1>1, <1>2

(* One resource at most, still. *)
LEMMA FirstOnlyStep ==
    ASSUME OneIncarnation, RInv, FirstOnly, [Next]_vars
    PROVE  FirstOnly'
<1>1. Copies' \cup {api'} \subseteq Copies \cup {api, api'}
  BY ApiStep, ObjStep DEF ApiWrite, ApiQuiet, Copies
<1>2. CASE api'.uid = api.uid /\ (api'.live => api.live)
  BY <1>1, <1>2 DEF FirstOnly
<1>3. CASE UserCreates /\ api'.uid = api.uid + 1 /\ api.uid < MaxIncarnations
  <2>1. api.uid = 0 /\ api'.uid = 1
    BY <1>3, BoundsAssumption DEF OneIncarnation, FirstOnly
  <2>2. \A v \in Copies \cup {api} : ~v.live
    BY <2>1 DEF FirstOnly
  <2> QED
    BY <1>1, <2>1, <2>2 DEF FirstOnly
<1> QED
  BY <1>2, <1>3, UidCases

(* The worker's copy is of that resource, so none can be created meanwhile. *)
LEMMA NoneCreated ==
    ASSUME OneIncarnation, RInv, FirstOnly, [Next]_vars, obj.live
    PROVE  obj.uid = 1 /\ api.uid = 1 /\ api'.uid = 1 /\ (api'.live => api.live)
<1>1. obj.uid = 1 /\ api.uid = 1
  BY DEF FirstOnly, Copies
<1>2. ~(api.uid < MaxIncarnations)
  BY <1>1, BoundsAssumption DEF OneIncarnation
<1> QED
  BY <1>1, <1>2, UidCases

(* A live ConfigMap stays, as long as the pipeline does. *)
LEMMA StoredStays ==
    ASSUME RInv, FirstOnly, OwnersOK, [Next]_vars, api.live,
           NEW n \in ConfigMapNames, cms.of[n].live
    PROVE  cms'.of[n].live
<1>0. cms \in Stores
  BY DEF RInv, TypeOK
<1>1. CASE StoresQuiet
  BY <1>1 DEF StoresQuiet
<1>2. CASE CollectGarbage
  <2>1. PICK name \in ConfigMapNames :
          Orphan(name) /\ PublishConfigMap(name, NoConfigMap)
    BY <1>2 DEF CollectGarbage
  <2>2. FALSE
    BY <2>1 DEF Orphan, OwnersOK, StoreVersions
  <2> QED
    BY <2>2
<1>3. CASE StoreOutput
  <2> DEFINE cm == NewConfigMap(IF seen.live THEN seen.owner ELSE obj.uid)
  <2>1. PublishConfigMap(outputConfigMapName(StageName), cm) /\ pc = "store"
    BY <1>3 DEF StoreOutput
  <2>2. cm.live
    BY DEF NewConfigMap
  <2>3. outputConfigMapName(StageName) \in ConfigMapNames
    BY <2>1, StageNameTyped DEF RInv, TypeOK, PcOK
  <2> HIDE DEF cm
  <2> QED
    BY <1>0, <2>1, <2>2, <2>3, PublishedStore
<1> QED
  BY <1>1, <1>2, <1>3, StoreCases

(* The owners stay right, whoever stores and whatever is collected. *)
LEMMA OwnersStep ==
    ASSUME OneIncarnation, KeptInv, [Next]_vars
    PROVE  OwnersOK'
<1>0. RInv /\ FirstOnly /\ OwnersOK /\ WorkerStored /\ cms \in Stores
  BY DEF KeptInv, RInv, TypeOK
<1>1. ASSUME NEW st \in StoreVersions, NEW n \in ConfigMapNames, st.of[n].live
      PROVE  st.of[n].owner = 1 /\ api'.uid = 1 /\ (api'.live => cms'.of[n].live)
  <2>1. st.of[n].owner = 1 /\ api.uid = 1 /\ (api.live => cms.of[n].live)
    BY <1>0, <1>1 DEF OwnersOK
  <2>2. api'.uid = api.uid /\ (api'.live => api.live)
    <3>1. ~(api.uid < MaxIncarnations)
      BY <2>1, BoundsAssumption DEF OneIncarnation
    <3> QED
      BY <1>0, <3>1, UidCases
  <2> QED
    BY <1>0, <2>1, <2>2, StoredStays
<1>2. CASE StoresQuiet
  BY <1>1, <1>2 DEF StoresQuiet, OwnersOK
<1>3. ASSUME NEW name \in ConfigMapNames, NEW cm, PublishConfigMap(name, cm),
             cm.live => cm.owner = 1 /\ api'.uid = 1
      PROVE  OwnersOK'
  <2>1. /\ StoreVersions' \subseteq StoreVersions \cup {cms'}
        /\ \A n \in ConfigMapNames : cms'.of[n] = IF n = name THEN cm ELSE cms.of[n]
    BY <1>0, <1>3, PublishedStore
  <2>2. ASSUME NEW n \in ConfigMapNames, cms'.of[n].live
        PROVE  cms'.of[n].owner = 1 /\ api'.uid = 1
    BY <1>1, <1>3, <2>1, <2>2 DEF StoreVersions
  <2> QED
    BY <1>1, <2>1, <2>2 DEF OwnersOK
<1>4. CASE CollectGarbage
  <2>1. PICK name \in ConfigMapNames : PublishConfigMap(name, NoConfigMap)
    BY <1>4 DEF CollectGarbage
  <2>2. ~NoConfigMap.live
    BY DEF NoConfigMap
  <2> QED
    BY <1>3, <2>1, <2>2
<1>5. CASE StoreOutput
  <2> DEFINE cm == NewConfigMap(IF seen.live THEN seen.owner ELSE obj.uid)
  <2>1. PublishConfigMap(outputConfigMapName(StageName), cm) /\ pc = "store"
    BY <1>5 DEF StoreOutput
  <2>2. AtStage("Pending") /\ outputConfigMapName(StageName) \in ConfigMapNames
    BY <1>0, <2>1, StageNameTyped DEF RInv, TypeOK, PcOK
  <2>3. obj.uid = 1 /\ api'.uid = 1
    BY <1>0, <2>2, NoneCreated DEF AtStage
  <2>4. cm.owner = 1
    BY <1>0, <2>1, <2>3 DEF NewConfigMap, WorkerStored
  <2> HIDE DEF cm
  <2> QED
    BY <1>3, <2>1, <2>2, <2>3, <2>4
<1> QED
  BY <1>2, <1>4, <1>5, StoreCases

(* What the worker reads of its stage's ConfigMap is some version of it. *)
LEMMA ExistingVersion ==
    ASSUME RInv, AtStage("Pending")
    PROVE  \E st \in StoreVersions : Existing = st.of[outputConfigMapName(StageName)]
BY DEF Existing, ReadConfigMap, StoreVersions

(* The worker never refers to an output that is not there. *)
LEMMA WorkerStoredStep ==
    ASSUME OneIncarnation, KeptInv, [Next]_vars
    PROVE  WorkerStored'
<1>0. RInv /\ FirstOnly /\ OwnersOK /\ WorkerStored /\ cms \in Stores /\ PcOK
  BY DEF KeptInv, RInv, TypeOK
<1>1. ASSUME AtStage("Pending")
      PROVE  /\ outputConfigMapName(StageName) \in ConfigMapNames
             /\ api'.live => api.live
             /\ Stored = cms.of[outputConfigMapName(StageName)]
             /\ api'.live /\ Stored.live => cms'.of[outputConfigMapName(StageName)].live
             /\ Existing.live => Existing.owner = 1 /\ (api.live => Stored.live)
  <2>1. outputConfigMapName(StageName) \in ConfigMapNames
    BY <1>0, <1>1, StageNameTyped DEF RInv, TypeOK
  <2>2. api'.live => api.live
    BY <1>0, <1>1, NoneCreated DEF AtStage
  <2>3. Existing.live => Existing.owner = 1 /\ (api.live => Stored.live)
    BY <1>0, <1>1, <2>1, ExistingVersion DEF OwnersOK, Stored
  <2> QED
    BY <1>0, <2>1, <2>2, <2>3, StoredStays DEF Stored
<1>2. ASSUME UNCHANGED <<obj, cur>>
      PROVE  Stored' = cms'.of[outputConfigMapName(StageName)]
  BY <1>2 DEF Stored, StageName
<1>3. CASE pc' = "idle" \/ WorkerEnters \/ buildContext \/ AgentFails
  BY <1>3 DEF WorkerStored, WorkerEnters, EntryPlaces, buildContext, AgentFails
<1>4. CASE WorkerRests
  <2>1. CASE pc \in {"store", "completeStage", "recoverStage"}
    <3>1. AtStage("Pending")
      BY <1>0, <2>1 DEF PcOK
    <3> QED
      BY <1>0, <1>1, <1>2, <1>4, <3>1 DEF WorkerRests, WorkerStored
  <2>2. CASE pc \notin {"store", "completeStage", "recoverStage"}
    BY <1>4, <2>2 DEF WorkerRests, WorkerStored
  <2> QED
    BY <2>1, <2>2
<1>5. CASE startStage
  <2>1. AtStage("Pending") /\ pc' \in {"buildContext", "recoverStage"}
        /\ (pc' = "recoverStage" => Existing.live)
    BY <1>0, <1>5 DEF startStage, PcOK
  <2>2. UNCHANGED <<obj, cur>>
    BY <1>5 DEF startStage
  <2> QED
    BY <1>1, <1>2, <2>1, <2>2 DEF WorkerStored
<1>6. CASE AgentCompletes
  <2>1. AtStage("Pending") /\ pc' = "store" /\ seen' = Existing /\ UNCHANGED <<obj, cur>>
    BY <1>0, <1>6 DEF AgentCompletes, PcOK
  <2> QED
    BY <1>1, <1>2, <2>1 DEF WorkerStored
<1>7. CASE StoreOutput
  <2> DEFINE cm == NewConfigMap(IF seen.live THEN seen.owner ELSE obj.uid)
  <2>1. /\ PublishConfigMap(outputConfigMapName(StageName), cm) /\ pc = "store"
        /\ pc' = "completeStage" /\ UNCHANGED <<obj, cur>>
    BY <1>7 DEF StoreOutput
  <2>2. AtStage("Pending")
    BY <1>0, <2>1 DEF PcOK
  <2>3. cm.live
    BY DEF NewConfigMap
  <2> HIDE DEF cm
  <2>4. cms'.of[outputConfigMapName(StageName)] = cm
    BY <1>0, <1>1, <2>1, <2>2, PublishedStore
  <2> QED
    BY <1>2, <2>1, <2>3, <2>4 DEF WorkerStored
<1>8. CASE StoreUnchanged
  <2>1. /\ pc = "store" /\ seen.live /\ pc' = "completeStage" /\ UNCHANGED <<obj, cur>>
    BY <1>8 DEF StoreUnchanged, StoreWrites
  <2>2. AtStage("Pending")
    BY <1>0, <2>1 DEF PcOK
  <2> QED
    BY <1>0, <1>1, <1>2, <2>1, <2>2 DEF WorkerStored
<1> QED
  BY <1>3, <1>4, <1>5, <1>6, <1>7, <1>8, WorkerCases

(* A Completed stage was Completed before, or has just been reported. *)
LEMMA NewlyCompleted ==
    ASSUME RInv, [Next]_vars, api'.live,
           NEW i \in DOMAIN api'.stages, api'.stages[i].phase = "Completed"
    PROVE  \/ api.live /\ i \in DOMAIN api.stages /\ api'.stages[i] = api.stages[i]
           \/ Reported /\ i = cur /\ api'.stages[i] = CompletedStatus(api, cur, out)
<1>0. api \in Pipelines
  BY DEF RInv, TypeOK
<1>1. CASE StatusKept
  BY <1>1 DEF StatusKept
<1>2. CASE UserCreates
  <2>1. PICK spec \in Specs : api' = Created(api, spec)
    BY <1>2 DEF UserCreates, Publish
  <2>2. api'.stages = <<>>
    BY <2>1 DEF Created, NoPipeline
  <2> QED
    BY <2>2, EmptyDomain
<1>3. CASE Started
  <2>1. api'.stages[i].phase = "Pending"
    BY <1>3, InitialStatuses, ConstantsAssumption DEF Started, Pristine
  <2> QED
    BY <2>1
<1>4. CASE Reported
  BY <1>4 DEF Reported, StageWritten
<1>5. CASE StageWritten(FailedStatus(api, cur))
  <2>1. FailedStatus(api, cur).phase = "Failed"
    BY <1>0, <1>5, StatusTypes DEF StageWritten
  <2> QED
    BY <1>5, <2>1 DEF StageWritten
<1>6. CASE StageWritten(RetriedStatus(api, cur))
  <2>1. RetriedStatus(api, cur).phase = "Pending"
    BY <1>0, <1>6, StatusTypes DEF StageWritten
  <2> QED
    BY <1>6, <2>1 DEF StageWritten
<1> QED
  BY <1>1, <1>2, <1>3, <1>4, <1>5, <1>6, StatusCases DEF Gone

(* The reference of a stage that completes. *)
LEMMA ReportedRef ==
    ASSUME RInv, Reported
    PROVE  /\ CompletedStatus(api, cur, out).ref = outputConfigMapName(StageName)
           /\ CompletedStatus(api, cur, out).out = truncateOutput(out)
           /\ Stored = cms.of[CompletedStatus(api, cur, out).ref]
           /\ outputConfigMapName(StageName) \in ConfigMapNames /\ AtStage("Pending")
<1>1. api \in Pipelines /\ obj = api /\ cur \in DOMAIN api.stages /\ AtStage("Pending")
  BY DEF RInv, TypeOK, Reported, StageWritten, PcOK
<1>2. api.stages[cur] \in StageStatuses
  BY <1>1, ElementOfSeq, LenProperties DEF Pipelines
<1>3. /\ CompletedStatus(api, cur, out).ref = outputConfigMapName(StageName)
      /\ CompletedStatus(api, cur, out).out = truncateOutput(out)
  BY <1>1, <1>2 DEF CompletedStatus, StageStatuses, StageName
<1> QED
  BY <1>1, <1>3, StageNameTyped DEF Stored

(* A reference in a status is the name of a ConfigMap. *)
LEMMA ReferenceTyped ==
    ASSUME NEW o \in Pipelines, NEW i \in DOMAIN o.stages, o.stages[i].ref # NoRef
    PROVE  o.stages[i].ref \in ConfigMapNames
<1>1. o.stages[i] \in StageStatuses
  BY ElementOfSeq, LenProperties DEF Pipelines
<1> QED
  BY <1>1 DEF StageStatuses

(* References of Completed stages stay good. *)
LEMMA OutputKeptStep ==
    ASSUME OneIncarnation, KeptInv, [Next]_vars, OwnersOK', FirstOnly'
    PROVE  OutputKept'
<1>0. RInv /\ FirstOnly /\ OwnersOK /\ WorkerStored /\ OutputKept
  BY DEF KeptInv
<1> SUFFICES ASSUME api'.live, NEW i \in DOMAIN api'.stages, api'.stages[i].phase = "Completed"
             PROVE  cms'.of[api'.stages[i].ref].live /\ cms'.of[api'.stages[i].ref].owner = api'.uid
  BY DEF OutputKept
<1>1. ASSUME NEW n \in ConfigMapNames, api.live, cms.of[n].live
      PROVE  cms'.of[n].live /\ cms'.of[n].owner = api'.uid
  <2>1. cms'.of[n].live
    BY <1>0, <1>1, StoredStays
  <2>2. cms'.of[n].owner = 1 /\ api'.uid = 1
    BY <2>1 DEF OwnersOK, StoreVersions
  <2> QED
    BY <2>1, <2>2
<1>2. CASE api.live /\ i \in DOMAIN api.stages /\ api'.stages[i] = api.stages[i]
  <2>1. api.stages[i].ref \in ConfigMapNames
    <3>1. api \in Pipelines /\ api.stages[i].ref # NoRef
      BY <1>0, <1>2 DEF RInv, TypeOK, LInv, Sound, Shaped, ShapedStatus
    <3> QED
      BY <1>2, <3>1, ReferenceTyped
  <2>2. cms.of[api.stages[i].ref].live
    BY <1>0, <1>2 DEF OutputKept
  <2> QED
    BY <1>1, <1>2, <2>1, <2>2
<1>3. CASE Reported /\ i = cur /\ api'.stages[i] = CompletedStatus(api, cur, out)
  <2>1. api.live /\ Stored.live
    BY <1>0, <1>3 DEF Reported, StageWritten, WorkerStored
  <2> QED
    BY <1>0, <1>1, <1>3, <2>1, ReportedRef
<1> QED
  BY <1>0, <1>2, <1>3, NewlyCompleted

(* KeptInv is inductive. *)
LEMMA KeptStep == OneIncarnation /\ KeptInv /\ [Next]_vars => KeptInv'
<1> SUFFICES ASSUME OneIncarnation, KeptInv, [Next]_vars PROVE KeptInv'
  OBVIOUS
<1>1. RInv' /\ FirstOnly'
  BY ReconcilerStep, FirstOnlyStep DEF KeptInv
<1> QED
  BY <1>1, OwnersStep, WorkerStoredStep, OutputKeptStep DEF KeptInv

(* It holds when the operator is deployed. *)
LEMMA KeptInit == Init => KeptInv
<1> SUFFICES ASSUME Init PROVE KeptInv
  OBVIOUS
<1>1. NoPipeline.live = FALSE /\ NoPipeline.uid = 0
  BY DEF NoPipeline
<1>2. \A n \in ConfigMapNames : NoStore.of[n].live = FALSE
  BY DEF NoStore, NoConfigMap
<1>3. FirstOnly
  BY <1>1 DEF Init, FirstOnly, Copies
<1>4. OwnersOK
  BY <1>2 DEF Init, OwnersOK, StoreVersions
<1>5. WorkerStored /\ OutputKept
  BY <1>1 DEF Init, WorkerStored, OutputKept
<1> QED
  BY <1>3, <1>4, <1>5, ReconcilerInit DEF KeptInv

(* completeStage stores before it reports, CreateOrUpdate never leaves less than *)
(* it found, and the garbage collector leaves a living owner's ConfigMaps alone: *)
(* with any lag of the caches, conflicts, faults and edits, the output a         *)
(* Completed stage refers to exists and belongs to the pipeline, as long as no   *)
(* second resource of that name is created.                                      *)
THEOREM OutputsKept == OneIncarnation => (Spec => []OutputKept)
<1> SUFFICES ASSUME OneIncarnation PROVE Spec => []OutputKept
  OBVIOUS
<1>1. KeptInv /\ [Next]_vars => KeptInv'
  BY KeptStep
<1>2. KeptInv => OutputKept
  BY DEF KeptInv
<1> QED
  BY <1>1, <1>2, KeptInit, PTL DEF Spec
--------------------------------------------------------------------------------
(* With one incarnation: only a lagging cache can lose a stage's context. *)

(* What any copy of the living resource refers to is there, though the copy may  *)
(* be old.                                                                       *)
RefsLive ==
    \A v \in Copies \cup {api} : v.live /\ api.live =>
        \A j \in DOMAIN v.stages :
            v.stages[j].phase = "Completed" /\ v.stages[j].ref # NoRef =>
                cms.of[v.stages[j].ref].live

ContextInv == KeptInv /\ RefsLive

(* An old copy refers to nothing that is lost. *)
LEMMA RefsLiveStep ==
    ASSUME OneIncarnation, ContextInv, [Next]_vars
    PROVE  RefsLive'
<1>0. RInv /\ KeptInv /\ FirstOnly /\ OwnersOK /\ RefsLive /\ TypeOK
  BY DEF ContextInv, KeptInv, RInv
<1>1. KeptInv' /\ OutputKept'
  BY <1>0, KeptStep DEF KeptInv
<1>2. (Copies \cup {api})' \subseteq Copies \cup {api, api'}
  BY <1>0, ApiStep, ObjStep DEF ApiWrite, ApiQuiet, Copies
<1>3. ASSUME NEW v \in Copies \cup {api}, v.live, api'.live, NEW j \in DOMAIN v.stages,
             v.stages[j].phase = "Completed", v.stages[j].ref # NoRef
      PROVE  cms'.of[v.stages[j].ref].live
  <2>1. v \in Pipelines
    BY <1>0, NoPipelineTyped DEF Copies, TypeOK
  <2>2. v.stages[j].ref \in ConfigMapNames
    BY <1>3, <2>1, ReferenceTyped
  <2>3. api.live
    <3>1. ~(api.uid < MaxIncarnations)
      BY <1>0, <1>3, BoundsAssumption DEF FirstOnly, OneIncarnation
    <3> QED
      BY <1>0, <1>3, <3>1, UidCases
  <2>4. cms.of[v.stages[j].ref].live
    BY <1>0, <1>3, <2>3 DEF RefsLive
  <2> QED
    BY <1>0, <2>2, <2>3, <2>4, StoredStays
<1>4. ASSUME api'.live, NEW j \in DOMAIN api'.stages, api'.stages[j].phase = "Completed"
      PROVE  cms'.of[api'.stages[j].ref].live
  BY <1>1, <1>4 DEF OutputKept
<1> QED
  BY <1>2, <1>3, <1>4 DEF RefsLive

(* A context that cannot be built was read from a store behind the API server's, *)
(* or for a pipeline that is gone: every copy of a living one refers to outputs  *)
(* that are stored.                                                              *)
THEOREM ContextsLostOnlyToLag == OneIncarnation => (Spec => ContextLostOnlyToLag)
<1> SUFFICES ASSUME OneIncarnation PROVE Spec => ContextLostOnlyToLag
  OBVIOUS
<1>1. Init => ContextInv
  <2>1. NoPipeline.live = FALSE
    BY DEF NoPipeline
  <2>2. Init => RefsLive
    BY <2>1 DEF Init, RefsLive, Copies
  <2> QED
    BY <2>2, KeptInit DEF ContextInv
<1>2. ContextInv /\ [Next]_vars => ContextInv'
  BY KeptStep, RefsLiveStep DEF ContextInv
<1>3. ASSUME ContextInv, [Next]_vars
      PROVE  [pc = "buildContext" /\ pc' = "failStage" =>
                \/ obj.spec.stages[cur].prompt = "invalid"
                \/ cmCache # cms \/ ~api.live]_vars
  <2> SUFFICES ASSUME pc = "buildContext", pc' = "failStage", cmCache = cms, api.live,
                      obj.spec.stages[cur].prompt # "invalid"
               PROVE  FALSE
    OBVIOUS
  <2>1. buildContext
    BY <1>3, WorkerCases DEF WorkerRests, WorkerEnters, startStage, AgentCompletes, AgentFails,
       StoreOutput, StoreUnchanged
  <2>2. ~ContextComplete /\ obj.live
    BY <1>3, <2>1 DEF buildContext, ContextInv, KeptInv, RInv, PcOK, AtStage
  <2>3. PICK j \in Referenced : ~cmCache.of[obj.stages[j].ref].live
    BY <2>2 DEF ContextComplete, ReadConfigMap
  <2>4. cms.of[obj.stages[j].ref].live
    BY <1>3, <2>2 DEF Referenced, ContextInv, RefsLive, Copies
  <2> QED
    BY <2>3, <2>4
<1> QED
  BY <1>1, <1>2, <1>3, PTL DEF Spec, ContextLostOnlyToLag
--------------------------------------------------------------------------------
(* With names that fix positions as well: an output was given by the agent of   *)
(* the stage it is taken for.                                                    *)

(* n is the name of the ConfigMap for stage i, in some spec. *)
StageOutputName(i, n) ==
    \E s \in Specs : i \in DOMAIN s.stages /\ n = outputConfigMapName(s.stages[i].name)

(* Every ConfigMap that some version shows holds an answer of the agent of a     *)
(* stage it is named for.                                                        *)
StoredRan ==
    \A st \in StoreVersions : \A n \in ConfigMapNames :
        st.of[n].live =>
            \E i \in 1..MaxStages : StageOutputName(i, n) /\ <<i, st.of[n].out>> \in done

(* So is the output that the worker is about to store or report an answer of its *)
(* stage's agent, and the prompt it gave one of the agent before.                *)
WorkerRan ==
    /\ pc \in {"store", "completeStage", "recoverStage"} => <<cur, out>> \in done
    /\ pc = "runAgent" /\ cur > 1 => <<cur - 1, prompt>> \in done

(* A Completed stage, in any copy, refers to a ConfigMap that is named for it. *)
RefNames ==
    \A v \in Copies \cup {api} : v.live =>
        \A j \in DOMAIN v.stages :
            /\ ShapedStatus(v.stages[j])
            /\ v.stages[j].phase = "Completed" => StageOutputName(j, v.stages[j].ref)

(* What its status shows is an answer, shortened. *)
ShownRan ==
    api.live => \A i \in DOMAIN api.stages :
        api.stages[i].phase = "Completed" =>
            \E w \in Outputs : <<i, w>> \in done /\ api.stages[i].out = truncateOutput(w)

RanInv == KeptInv /\ StoredRan /\ WorkerRan /\ RefNames /\ ShownRan

(* The name of the worker's stage is that of stage cur, and of no other. *)
LEMMA StageNamed ==
    ASSUME RInv, AtStage("Pending")
    PROVE  /\ StageOutputName(cur, outputConfigMapName(StageName))
           /\ obj.spec \in Specs /\ cur \in DOMAIN obj.spec.stages
<1>1. cur \in DOMAIN obj.spec.stages /\ obj.spec \in Specs \cup {EmptySpec}
  BY DEF RInv, AtStage, SpecsOK, Copies
<1>2. obj.spec # EmptySpec
  BY <1>1, EmptyDomain DEF EmptySpec
<1> QED
  BY <1>1, <1>2 DEF StageOutputName, StageName

(* A ConfigMap name belongs to one stage. *)
LEMMA NameOfOneStage ==
    ASSUME NamesFixPositions, NEW i, NEW j, NEW n, StageOutputName(i, n), StageOutputName(j, n)
    PROVE  i = j
<1>1. PICK s \in Specs : i \in DOMAIN s.stages /\ n = outputConfigMapName(s.stages[i].name)
  BY DEF StageOutputName
<1>2. PICK t \in Specs : j \in DOMAIN t.stages /\ n = outputConfigMapName(t.stages[j].name)
  BY DEF StageOutputName
<1>3. s.stages[i].name = t.stages[j].name
  BY <1>1, <1>2 DEF outputConfigMapName
<1> QED
  BY <1>1, <1>2, <1>3 DEF NamesFixPositions

(* What some version of the ConfigMaps holds under a stage's name is an answer   *)
(* of that stage's agent.                                                        *)
LEMMA VersionRan ==
    ASSUME NamesFixPositions, StoredRan, NEW st \in StoreVersions,
           NEW n \in ConfigMapNames, st.of[n].live, NEW i, StageOutputName(i, n)
    PROVE  <<i, st.of[n].out>> \in done
<1>1. PICK k \in 1..MaxStages : StageOutputName(k, n) /\ <<k, st.of[n].out>> \in done
  BY DEF StoredRan
<1>2. k = i
  BY <1>1, NameOfOneStage
<1> QED
  BY <1>1, <1>2

(* An answer stays recorded, as long as no resource is created. *)
LEMMA DoneGrows ==
    ASSUME [Next]_vars
    PROVE  done \subseteq done' \/ UserCreates
<1>1. CASE UserEdits \/ UserDeletes \/ CollectGarbage
           \/ DeliverPipeline \/ DeliverConfigMaps \/ TimerFires
  BY <1>1 DEF UserEdits, UserDeletes, CollectGarbage, DeliverPipeline,
     DeliverConfigMaps, TimerFires, observedVars
<1>2. CASE Reconcile
  BY <1>2 DEF Reconcile, ReconcileNothing, handleDeletion, handlePending,
     handleRunningDone, handleRunningPanic, handleRunning, Enter, Skip, observedVars
<1>3. CASE RunStage
  BY <1>3 DEF RunStage, startStage, buildContext, AgentCompletes, AgentFails, StoreOutput,
     StoreUnchanged, StoreRefused, observedVars
<1>4. CASE WriteBack
  BY <1>4 DEF WriteBack, addFinalizer, removeFinalizer, startPipeline, completePipeline,
     failPipeline, completeStage, completeStageFromOutput, failStage, retryStage,
     Update, UpdateRefused, observedVars
<1>5. CASE Faulty
  BY <1>5 DEF Faulty, WriteFails, Restart, observedVars
<1>6. CASE UNCHANGED vars
  BY <1>6 DEF vars, observedVars
<1> QED
  BY <1>1, <1>2, <1>3, <1>4, <1>5, <1>6 DEF Next, Worker

(* Once the resource exists nothing forgets that an agent answered. *)
LEMMA DoneStays ==
    ASSUME OneIncarnation, KeptInv, [Next]_vars, api.uid = 1
    PROVE  done \subseteq done'
<1>1. ~(api.uid < MaxIncarnations)
  BY BoundsAssumption DEF OneIncarnation
<1> QED
  BY <1>1, DoneGrows DEF UserCreates

(* The worker at a stage of a copy of the resource: no answer is forgotten. *)
LEMMA WorkerRemembers ==
    ASSUME OneIncarnation, KeptInv, [Next]_vars, AtStage("Pending")
    PROVE  /\ done \subseteq done' /\ obj.uid = api.uid
           /\ outputConfigMapName(StageName) \in ConfigMapNames
<1>1. obj.uid = 1 /\ api.uid = 1
  BY NoneCreated DEF AtStage, KeptInv
<1> QED
  BY <1>1, DoneStays, StageNameTyped DEF KeptInv, RInv, TypeOK

(* Every version of the ConfigMaps goes on holding answers only. *)
LEMMA StoredRanStep ==
    ASSUME OneIncarnation, RanInv, [Next]_vars
    PROVE  StoredRan'
<1>0. /\ KeptInv /\ RInv /\ OwnersOK /\ StoredRan /\ WorkerRan /\ PcOK /\ cms \in Stores
  BY DEF RanInv, KeptInv, RInv, TypeOK
<1>1. ASSUME NEW st \in StoreVersions, NEW n \in ConfigMapNames, st.of[n].live
      PROVE  \E i \in 1..MaxStages : StageOutputName(i, n) /\ <<i, st.of[n].out>> \in done'
  <2>1. api.uid = 1
    BY <1>0, <1>1 DEF OwnersOK
  <2> QED
    BY <1>0, <1>1, <2>1, DoneStays DEF StoredRan
<1>2. CASE StoresQuiet
  BY <1>1, <1>2 DEF StoresQuiet, StoredRan, StageOutputName
<1>3. ASSUME NEW name \in ConfigMapNames, NEW cm, PublishConfigMap(name, cm),
             cm.live => \E i \in 1..MaxStages :
                           StageOutputName(i, name) /\ <<i, cm.out>> \in done'
      PROVE  StoredRan'
  <2>1. /\ StoreVersions' \subseteq StoreVersions \cup {cms'}
        /\ \A n \in ConfigMapNames : cms'.of[n] = IF n = name THEN cm ELSE cms.of[n]
    BY <1>0, <1>3, PublishedStore
  <2>2. ASSUME NEW n \in ConfigMapNames, cms'.of[n].live
        PROVE  \E i \in 1..MaxStages : StageOutputName(i, n) /\ <<i, cms'.of[n].out>> \in done'
    BY <1>1, <1>3, <2>1, <2>2 DEF StoreVersions
  <2> QED
    BY <1>1, <2>1, <2>2 DEF StoredRan, StageOutputName
<1>4. CASE CollectGarbage
  <2>1. PICK name \in ConfigMapNames : PublishConfigMap(name, NoConfigMap)
    BY <1>4 DEF CollectGarbage
  <2>2. ~NoConfigMap.live
    BY DEF NoConfigMap
  <2> QED
    BY <1>3, <2>1, <2>2
<1>5. CASE StoreOutput
  <2> DEFINE cm == NewConfigMap(IF seen.live THEN seen.owner ELSE obj.uid)
  <2>1. PublishConfigMap(outputConfigMapName(StageName), cm) /\ pc = "store"
    BY <1>5 DEF StoreOutput
  <2>2. AtStage("Pending") /\ <<cur, out>> \in done
    BY <1>0, <2>1 DEF PcOK, WorkerRan
  <2>3. /\ <<cur, out>> \in done' /\ cur \in 1..MaxStages
        /\ StageOutputName(cur, outputConfigMapName(StageName))
        /\ outputConfigMapName(StageName) \in ConfigMapNames
    BY <1>0, <2>2, WorkerRemembers, StageInRange, StageNamed
  <2>4. cm.out = out
    BY DEF NewConfigMap
  <2> HIDE DEF cm
  <2> QED
    BY <1>3, <2>1, <2>3, <2>4
<1> QED
  BY <1>2, <1>4, <1>5, StoreCases

(* PreviousOutput is an answer of the agent before the worker's stage: that      *)
(* stage is Completed in the worker's copy, and no other precedes one of this    *)
(* name.                                                                         *)
LEMMA PreviousRan ==
    ASSUME NamesFixPositions, RanInv, AtStage("Pending"), cur > 1, ContextComplete,
           NEW p, PreviousOutput(p)
    PROVE  <<cur - 1, p>> \in done
<1>0. RInv /\ obj \in Pipelines /\ StoredRan /\ obj.live /\ RefNames
  BY DEF RanInv, KeptInv, RInv, TypeOK, AtStage
<1>1. /\ cur \in DOMAIN obj.stages /\ cur \in DOMAIN obj.spec.stages /\ obj.spec \in Specs
      /\ \A j \in 1..(cur - 1) : Finished(obj.stages[j])
  BY <1>0, StageNamed DEF AtStage, FindCurrentStage
<1>2. DOMAIN obj.stages = 1..Len(obj.stages) /\ Len(obj.stages) \in Nat
  BY <1>0, LenProperties DEF Pipelines
<1>3. cur - 1 \in 1..(cur - 1) /\ cur - 1 \in DOMAIN obj.stages /\ (cur - 1) + 1 = cur
  BY <1>1, <1>2
<1>4. /\ obj.stages[cur - 1].phase = "Completed" /\ obj.stages[cur - 1].ref # NoRef
      /\ StageOutputName(cur - 1, obj.stages[cur - 1].ref)
  <2>1. /\ ShapedStatus(obj.stages[cur - 1]) /\ Finished(obj.stages[cur - 1])
        /\ obj.stages[cur - 1].phase = "Completed" =>
              StageOutputName(cur - 1, obj.stages[cur - 1].ref)
    BY <1>0, <1>1, <1>3 DEF RefNames, Copies
  <2> QED
    BY <2>1 DEF Finished, ShapedStatus
<1>5. cur - 1 \in Referenced /\ cur - 1 \in Preceding
  BY <1>1, <1>3, <1>4 DEF Referenced, Preceding, StageName
<1>6. ASSUME NEW j \in Preceding PROVE j = cur - 1
  <2>1. /\ j \in DOMAIN obj.stages /\ j + 1 \in DOMAIN obj.spec.stages
        /\ obj.spec.stages[j + 1].name = obj.spec.stages[cur].name
    BY DEF Preceding, Referenced, StageName
  <2>2. j + 1 = cur
    BY <1>1, <2>1 DEF NamesFixPositions
  <2> QED
    BY <1>2, <2>1, <2>2
<1>7. p = cmCache.of[obj.stages[cur - 1].ref].out
  BY <1>5, <1>6 DEF PreviousOutput, ReadConfigMap
<1>8. cmCache.of[obj.stages[cur - 1].ref].live
  BY <1>5 DEF ContextComplete, ReadConfigMap
<1>9. obj.stages[cur - 1].ref \in ConfigMapNames
  BY <1>0, <1>3, <1>4, ReferenceTyped
<1>10. PICK n, i, st : /\ n = obj.stages[cur - 1].ref /\ i = cur - 1 /\ st = cmCache
                       /\ n \in ConfigMapNames /\ st \in StoreVersions
  BY <1>9 DEF StoreVersions
<1> QED
  BY <1>0, <1>4, <1>7, <1>8, <1>10, VersionRan

(* What the worker holds goes on being an answer. *)
LEMMA WorkerRanStep ==
    ASSUME OneIncarnation, NamesFixPositions, RanInv, [Next]_vars
    PROVE  WorkerRan'
<1>0. KeptInv /\ RInv /\ StoredRan /\ WorkerRan /\ PcOK
  BY DEF RanInv, KeptInv, RInv
<1>1. CASE pc' = "idle" \/ WorkerEnters \/ AgentFails
  BY <1>1 DEF WorkerRan, WorkerEnters, EntryPlaces, AgentFails
<1>2. CASE WorkerRests \/ StoreOutput \/ StoreUnchanged
  <2>1. /\ cur' = cur /\ out' = out /\ prompt' = prompt
        /\ pc' = pc \/ (pc = "store" /\ pc' = "completeStage")
    BY <1>2 DEF WorkerRests, StoreOutput, StoreUnchanged
  <2>2. CASE pc \in {"store", "completeStage", "recoverStage", "runAgent"}
    <3>1. done \subseteq done'
      BY <1>0, <2>2, WorkerRemembers DEF PcOK
    <3> QED
      BY <1>0, <2>1, <3>1 DEF WorkerRan
  <2>3. CASE pc \notin {"store", "completeStage", "recoverStage", "runAgent"}
    BY <2>1, <2>3 DEF WorkerRan
  <2> QED
    BY <2>2, <2>3
<1>3. CASE startStage
  <2>1. /\ AtStage("Pending") /\ cur' = cur /\ pc' \in {"buildContext", "recoverStage"}
        /\ pc' = "recoverStage" => Existing.live /\ out' = Existing.out
    BY <1>0, <1>3 DEF startStage, PcOK
  <2>2. ASSUME pc' = "recoverStage" PROVE <<cur, Existing.out>> \in done
    <3>1. PICK st \in StoreVersions : Existing = st.of[outputConfigMapName(StageName)]
      BY <1>0, <2>1, ExistingVersion
    <3>2. PICK n, i : /\ n = outputConfigMapName(StageName) /\ i = cur
                     /\ n \in ConfigMapNames
      BY <1>0, <2>1, WorkerRemembers
    <3>3. StageOutputName(i, n)
      BY <1>0, <2>1, <3>2, StageNamed
    <3>4. <<i, st.of[n].out>> \in done
      BY <1>0, <2>1, <2>2, <3>1, <3>2, <3>3, VersionRan
    <3> QED
      BY <3>1, <3>2, <3>4
  <2>3. done \subseteq done'
    BY <1>0, <2>1, WorkerRemembers
  <2> QED
    BY <2>1, <2>2, <2>3 DEF WorkerRan
<1>4. CASE buildContext
  <2>1. /\ AtStage("Pending") /\ cur' = cur /\ pc' \in {"runAgent", "failStage"}
        /\ pc' = "runAgent" => ContextComplete /\ PreviousOutput(prompt')
    BY <1>0, <1>4 DEF buildContext, PcOK
  <2>2. ASSUME pc' = "runAgent", cur > 1 PROVE <<cur - 1, prompt'>> \in done
    <3>1. PICK p : p = prompt'
      OBVIOUS
    <3>2. PreviousOutput(p) /\ ContextComplete
      BY <2>1, <2>2, <3>1
    <3>3. <<cur - 1, p>> \in done
      BY <2>1, <2>2, <3>2, PreviousRan
    <3> QED
      BY <3>1, <3>3
  <2>3. done \subseteq done'
    BY <1>0, <2>1, WorkerRemembers
  <2> QED
    BY <2>1, <2>2, <2>3 DEF WorkerRan
<1>5. CASE AgentCompletes
  <2>1. AtStage("Pending") /\ cur' = cur /\ pc' = "store"
    BY <1>0, <1>5 DEF AgentCompletes, PcOK
  <2>2. obj.uid = api.uid
    BY <1>0, <2>1, WorkerRemembers
  <2> QED
    BY <1>5, <2>1, <2>2 DEF AgentCompletes, WorkerRan
<1> QED
  BY <1>1, <1>2, <1>3, <1>4, <1>5, WorkerCases

(* Every copy goes on referring to ConfigMaps by the right names, and the status *)
(* goes on showing answers.                                                      *)
LEMMA ShownStep ==
    ASSUME OneIncarnation, RanInv, [Next]_vars, KeptInv'
    PROVE  RefNames' /\ ShownRan'
<1>0. KeptInv /\ RInv /\ FirstOnly /\ WorkerRan /\ RefNames /\ ShownRan /\ PcOK
  BY DEF RanInv, KeptInv, RInv
<1>1. ASSUME api'.live, NEW i \in DOMAIN api'.stages, api'.stages[i].phase = "Completed"
      PROVE  /\ StageOutputName(i, api'.stages[i].ref)
             /\ \E w \in Outputs : <<i, w>> \in done' /\ api'.stages[i].out = truncateOutput(w)
  <2>1. CASE api.live /\ i \in DOMAIN api.stages /\ api'.stages[i] = api.stages[i]
    <3>1. done \subseteq done'
      BY <1>0, <2>1, DoneStays DEF FirstOnly
    <3> QED
      BY <1>0, <1>1, <2>1, <3>1 DEF RefNames, ShownRan
  <2>2. CASE Reported /\ i = cur /\ api'.stages[i] = CompletedStatus(api, cur, out)
    <3>1. /\ AtStage("Pending") /\ <<cur, out>> \in done /\ out \in Outputs
          /\ api'.stages[i].ref = outputConfigMapName(StageName)
          /\ api'.stages[i].out = truncateOutput(out)
      BY <1>0, <2>2, ReportedRef DEF Reported, WorkerRan, PcOK
    <3>2. done \subseteq done' /\ StageOutputName(cur, outputConfigMapName(StageName))
      BY <1>0, <3>1, WorkerRemembers, StageNamed
    <3> QED
      BY <2>2, <3>1, <3>2
  <2> QED
    BY <1>0, <1>1, <2>1, <2>2, NewlyCompleted
<1>2. \A j \in DOMAIN api'.stages : ShapedStatus(api'.stages[j])
  BY DEF KeptInv, RInv, LInv, Sound, Shaped
<1>3. (Copies \cup {api})' \subseteq Copies \cup {api, api'}
  BY <1>0, ApiStep, ObjStep DEF ApiWrite, ApiQuiet, Copies
<1>4. RefNames'
  BY <1>0, <1>1, <1>2, <1>3 DEF RefNames, StageOutputName
<1>5. ShownRan'
  BY <1>1 DEF ShownRan
<1> QED
  BY <1>4, <1>5

(* RanInv is inductive. *)
LEMMA RanStep == OneIncarnation /\ NamesFixPositions /\ RanInv /\ [Next]_vars => RanInv'
<1> SUFFICES ASSUME OneIncarnation, NamesFixPositions, RanInv, [Next]_vars PROVE RanInv'
  OBVIOUS
<1>1. KeptInv'
  BY KeptStep DEF RanInv
<1> QED
  BY <1>1, StoredRanStep, WorkerRanStep, ShownStep DEF RanInv

(* It holds when the operator is deployed. *)
LEMMA RanInit == Init => RanInv
<1> SUFFICES ASSUME Init PROVE RanInv
  OBVIOUS
<1>1. NoPipeline.live = FALSE
  BY DEF NoPipeline
<1>2. \A n \in ConfigMapNames : NoStore.of[n].live = FALSE
  BY DEF NoStore, NoConfigMap
<1>3. StoredRan
  BY <1>2 DEF Init, StoredRan, StoreVersions
<1>4. WorkerRan /\ ShownRan /\ RefNames
  BY <1>1 DEF Init, WorkerRan, ShownRan, RefNames, Copies
<1> QED
  BY <1>3, <1>4, KeptInit DEF RanInv

(* The guard of startStage, which takes an output that exists for the stage's,  *)
(* is right about it: also with a stale cache, a Completed stage is one whose    *)
(* own agent answered for this resource, and its status shows such an answer.    *)
THEOREM CompletedStagesRan ==
    OneIncarnation /\ NamesFixPositions => (Spec => []CompletedStageRan)
<1> SUFFICES ASSUME OneIncarnation, NamesFixPositions PROVE Spec => []CompletedStageRan
  OBVIOUS
<1>1. RanInv /\ [Next]_vars => RanInv'
  BY RanStep
<1>2. RanInv => CompletedStageRan
  <2> SUFFICES ASSUME RanInv, api.live, NEW i \in DOMAIN api.stages,
                      api.stages[i].phase = "Completed"
               PROVE  \E answer \in done :
                         answer[1] = i /\ Abbreviates(api.stages[i].out, answer[2])
    BY DEF CompletedStageRan
  <2>1. PICK w \in Outputs : <<i, w>> \in done /\ api.stages[i].out = truncateOutput(w)
    BY DEF RanInv, ShownRan
  <2>2. w \in Seq(Bytes)
    BY ConstantsAssumption
  <2>3. Abbreviates(truncateOutput(w), w)
    BY <2>2, TruncateAbbreviates
  <2>4. <<i, w>>[1] = i /\ <<i, w>>[2] = w
    OBVIOUS
  <2> QED
    BY <2>1, <2>3, <2>4
<1> QED
  BY <1>1, <1>2, RanInit, PTL DEF Spec

(* StoreOutput never puts anything under a Completed stage but an answer of that *)
(* stage's agent, also when a stale guard made the agent run once more.          *)
THEOREM StoredOutputsGenuine ==
    OneIncarnation /\ NamesFixPositions => (Spec => []StoredOutputGenuine)
<1> SUFFICES ASSUME OneIncarnation, NamesFixPositions PROVE Spec => []StoredOutputGenuine
  OBVIOUS
<1>1. RanInv /\ [Next]_vars => RanInv'
  BY RanStep
<1>2. RanInv => StoredOutputGenuine
  <2> SUFFICES ASSUME RanInv, api.live, NEW i \in DOMAIN api.stages,
                      api.stages[i].phase = "Completed"
               PROVE  <<i, cms.of[api.stages[i].ref].out>> \in done
    BY DEF StoredOutputGenuine
  <2>1. /\ RInv /\ cms.of[api.stages[i].ref].live /\ cms \in StoreVersions /\ StoredRan
        /\ StageOutputName(i, api.stages[i].ref) /\ ShapedStatus(api.stages[i])
    BY DEF RanInv, KeptInv, OutputKept, RefNames, StoreVersions
  <2>2. api.stages[i].ref \in ConfigMapNames
    BY <2>1, ReferenceTyped DEF RInv, TypeOK, ShapedStatus
  <2>3. PICK n, k, st : /\ n = api.stages[i].ref /\ k = i /\ st = cms
                         /\ n \in ConfigMapNames /\ st \in StoreVersions
    BY <2>1, <2>2
  <2> QED
    BY <2>1, <2>3, VersionRan
<1> QED
  BY <1>1, <1>2, RanInit, PTL DEF Spec

(* BuildPipelineContext finds a stage's predecessor by the name of its          *)
(* successor, in a copy and a store that may both be old; what it hands to the   *)
(* agent is in full an answer of the agent of the stage before.                  *)
THEOREM PromptsFromPrevious ==
    OneIncarnation /\ NamesFixPositions => (Spec => []PromptFromPrevious)
<1> SUFFICES ASSUME OneIncarnation, NamesFixPositions PROVE Spec => []PromptFromPrevious
  OBVIOUS
<1>1. RanInv /\ [Next]_vars => RanInv'
  BY RanStep
<1>2. RanInv => PromptFromPrevious
  BY DEF RanInv, WorkerRan, PromptFromPrevious
<1> QED
  BY <1>1, <1>2, RanInit, PTL DEF Spec
================================================================================
