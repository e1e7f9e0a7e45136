---------------------------- MODULE LifecycleProofs ----------------------------
(* Proofs about PipelineLifecycle: the type of the resource, the order of its   *)
(* stages, the meaning of its phases, and that nothing is undone.                *)
EXTENDS PipelineLifecycle, AgentPipelineProofs
--------------------------------------------------------------------------------
(* The inductive invariant, of a resource o.  Its first two parts are           *)
(* StagesInOrder and PhaseTellsStages; the third, which makes them inductive,    *)
(* says that the controller never leaves a stage Running or Skipped, and that    *)
(* exactly the Completed stages refer to an output.                              *)

InOrder(o) ==
    \A j \in DOMAIN o.stages :
        ~Pristine(o.stages[j]) =>
            \A i \in 1..(j - 1) : o.stages[i].phase = "Completed"

Told(o) ==
    /\ o.phase = "Completed" =>
          \A i \in DOMAIN o.stages :
              o.stages[i].phase = "Completed" /\ o.stages[i].ref # NoRef
    /\ o.phase = "Failed" =>
          \/ o.stages = <<>>
          \/ \E i \in DOMAIN o.stages : o.stages[i].phase = "Failed"
    /\ o.phase \in {"", "Pending"} => o.stages = <<>>

ShapedStatus(s) ==
    /\ s.phase \in {"Pending", "Failed", "Completed"}
    /\ s.phase = "Completed" <=> s.ref # NoRef

Shaped(o) == \A i \in DOMAIN o.stages : ShapedStatus(o.stages[i])

Sound(o) == InOrder(o) /\ Told(o) /\ Shaped(o)

LInv == ResourceTyped /\ Sound(api)

(* A new status for the current stage of a running pipeline. *)
LEMMA StageWriteSound ==
    ASSUME NEW o \in Pipelines, NEW n \in Pipelines, NEW i, NEW s,
           Sound(o), FindCurrentStage(o, i), n.phase = "Running",
           DOMAIN n.stages = DOMAIN o.stages,
           \A j \in DOMAIN o.stages : n.stages[j] = IF j = i THEN s ELSE o.stages[j],
           ShapedStatus(s)
    PROVE  Sound(n)
<1>1. /\ i \in DOMAIN o.stages /\ ~Finished(o.stages[i])
      /\ \A j \in 1..(i - 1) : Finished(o.stages[j])
  BY DEF FindCurrentStage
<1>2. Len(o.stages) \in Nat /\ DOMAIN o.stages = 1..Len(o.stages)
  BY LenProperties DEF Pipelines
<1>3. Shaped(n)
  BY DEF Shaped, Sound
<1>4. Told(n)
  BY DEF Told
<1>5. ASSUME NEW j \in DOMAIN n.stages, ~Pristine(n.stages[j]),
             NEW k \in 1..(j - 1)
      PROVE  n.stages[k].phase = "Completed"
  <2>1. k \in DOMAIN o.stages /\ k < j /\ k \in Nat /\ j \in Nat /\ i \in Nat
    BY <1>1, <1>2
  <2>2. CASE j = i
    <3>1. Finished(o.stages[k]) /\ n.stages[k] = o.stages[k]
      BY <1>1, <2>1, <2>2
    <3> QED
      BY <2>1, <3>1 DEF Finished, Sound, Shaped, ShapedStatus
  <2>3. CASE j # i
    <3>1. ~Pristine(o.stages[j])
      BY <1>5, <2>3
    <3>2. \A m \in 1..(j - 1) : o.stages[m].phase = "Completed"
      BY <3>1 DEF Sound, InOrder
    <3>3. k # i
      BY <1>1, <3>2 DEF Finished
    <3> QED
      BY <2>1, <3>2, <3>3
  <2> QED
    BY <2>2, <2>3
<1>6. InOrder(n)
  BY <1>5 DEF InOrder
<1> QED
  BY <1>3, <1>4, <1>6 DEF Sound

(* A write that leaves the stages and the phase alone. *)
LEMMA SameStatusSound ==
    ASSUME NEW o, NEW n, Sound(o), n.stages = o.stages, n.phase = o.phase
    PROVE  Sound(n)
BY DEF Sound, InOrder, Told, Shaped

(* A resource without stage statuses that has not started or has failed. *)
LEMMA NoStagesSound ==
    ASSUME NEW n, n.stages = <<>>, n.phase \in {"", "Pending", "Failed"}
    PROVE  Sound(n)
<1>1. DOMAIN n.stages = {}
  BY EmptyDomain
<1> QED
  BY <1>1 DEF Sound, InOrder, Told, Shaped

(* What a write of one stage makes of a copy with the stored statuses. *)
LEMMA WithStageOver ==
    ASSUME NEW b \in Pipelines, b.stages = api.stages, NEW i \in DOMAIN api.stages,
           NEW s \in StageStatuses
    PROVE  /\ WithStage(b, i, s) \in Pipelines
           /\ DOMAIN WithStage(b, i, s).stages = DOMAIN api.stages
           /\ \A j \in DOMAIN api.stages :
                 WithStage(b, i, s).stages[j] = IF j = i THEN s ELSE api.stages[j]
<1>1. i \in DOMAIN b.stages
  OBVIOUS
<1>2. /\ WithStage(b, i, s) \in Pipelines
      /\ DOMAIN WithStage(b, i, s).stages = DOMAIN b.stages
      /\ \A j \in DOMAIN b.stages :
            WithStage(b, i, s).stages[j] = IF j = i THEN s ELSE b.stages[j]
  BY <1>1, WithStageProperties
<1> QED
  BY <1>2

(* The four writes that end the work on a stage, together. *)
LEMMA StageStepSound ==
    ASSUME LInv, NEW i \in DOMAIN api.stages, Eligible(i),
           \/ \E w \in Outputs : StageCompletes(i, w)
           \/ StageFails(i) \/ Retry(i) \/ GiveUp(i)
    PROVE  LInv'
<1>1. /\ api \in Pipelines /\ Sound(api) /\ FindCurrentStage(api, i)
      /\ api.phase = "Running" /\ i \in DOMAIN api.spec.stages
      /\ ShapedStatus(api.stages[i])
  BY DEF LInv, ResourceTyped, Eligible, Sound, Shaped
<1>2. /\ Executing(api, i) \in Pipelines
      /\ Executing(api, i).stages = api.stages
      /\ Executing(api, i).phase = api.phase
  BY <1>1, StatusTypes DEF Executing, Pipelines
<1>3. ASSUME NEW b \in Pipelines, b.stages = api.stages, b.phase = api.phase,
             NEW s \in StageStatuses, ShapedStatus(s),
             api' = Written(WithStage(b, i, s))
      PROVE  LInv'
  <2> DEFINE n == WithStage(b, i, s)
  <2>1. /\ n \in Pipelines /\ DOMAIN n.stages = DOMAIN api.stages
        /\ \A j \in DOMAIN api.stages :
              n.stages[j] = IF j = i THEN s ELSE api.stages[j]
    BY <1>3, WithStageOver
  <2>2. n.phase = "Running"
    BY <1>1, <1>3 DEF WithStage, Pipelines
  <2>3. Sound(n)
    BY <1>1, <1>3, <2>1, <2>2, StageWriteSound
  <2>4. api' \in Pipelines
    BY <1>3, <2>1, WriteTypes
  <2>5. api'.stages = n.stages /\ api'.phase = n.phase
    BY <1>3, <2>1 DEF Written, Pipelines
  <2>6. Sound(api')
    BY <2>3, <2>5, SameStatusSound
  <2>7. Sound(api)' <=> Sound(api')
    BY DEF Sound, InOrder, Told, Shaped
  <2> QED
    BY <2>4, <2>6, <2>7 DEF LInv, ResourceTyped
<1>4. CASE \E w \in Outputs : StageCompletes(i, w)
  <2>1. PICK w \in Outputs : StageCompletes(i, w)
    BY <1>4
  <2>2. w \in Seq(Bytes)
    BY ConstantsAssumption
  <2>3. CompletedStatus(api, i, w) \in StageStatuses
        /\ ShapedStatus(CompletedStatus(api, i, w))
    BY <1>1, <2>2, StatusTypes DEF ShapedStatus
  <2> QED
    BY <1>1, <1>2, <1>3, <2>1, <2>3 DEF StageCompletes, CompleteStage, RecoverStage
<1>5. CASE StageFails(i)
  <2>1. FailedStatus(api, i) \in StageStatuses /\ ShapedStatus(FailedStatus(api, i))
    BY <1>1, <1>5, StatusTypes DEF ShapedStatus, StageFails
  <2> QED
    BY <1>1, <1>2, <1>3, <1>5, <2>1 DEF StageFails, FailStage
<1>6. CASE Retry(i)
  <2>1. RetriedStatus(api, i) \in StageStatuses /\ ShapedStatus(RetriedStatus(api, i))
    BY <1>1, <1>6, StatusTypes DEF ShapedStatus, Retry
  <2> QED
    BY <1>1, <1>3, <1>6, <2>1 DEF Retry, RetryStage
<1>7. CASE GiveUp(i)
  <2>1. api' = Written(FailPipeline(api)) /\ api.stages[i].phase = "Failed"
    BY <1>7 DEF GiveUp
  <2>2. /\ api' \in Pipelines /\ api'.stages = api.stages /\ api'.phase = "Failed"
    <3>1. FailPipeline(api) \in Pipelines
      BY <1>1, WriteTypes
    <3>2. Written(FailPipeline(api)) \in Pipelines
      BY <3>1, WriteTypes
    <3> QED
      BY <1>1, <2>1, <3>1, <3>2 DEF Written, FailPipeline, Pipelines
  <2>3. Sound(api)'
    BY <1>1, <2>1, <2>2 DEF Sound, InOrder, Told, Shaped
  <2> QED
    BY <2>2, <2>3 DEF LInv, ResourceTyped
<1> QED
  BY <1>4, <1>5, <1>6, <1>7

(* Before the first Create the invariant holds. *)
LEMMA InitSound == LifecycleInit => LInv
<1> SUFFICES ASSUME LifecycleInit PROVE LInv
  OBVIOUS
<1>1. Sound(NoPipeline)
  BY NoStagesSound DEF NoPipeline
<1> QED
  BY <1>1, NoPipelineTyped DEF LifecycleInit, LInv, ResourceTyped

(* Every step of the lifecycle preserves the invariant. *)
LEMMA StepSound == LInv /\ [LifecycleNext]_api => LInv'
<1> SUFFICES ASSUME LInv, [LifecycleNext]_api PROVE LInv'
  OBVIOUS
<1>0. api \in Pipelines /\ Sound(api)
  BY DEF LInv, ResourceTyped
<1>1. ASSUME NEW n \in Pipelines, Sound(n), api' = n
      PROVE  LInv'
  BY <1>1 DEF LInv, ResourceTyped, Sound, InOrder, Told, Shaped
<1>2. ASSUME NEW n \in Pipelines, n.stages = api.stages, n.phase = api.phase,
             api' = Written(n)
      PROVE  LInv'
  <2>1. Written(n) \in Pipelines
    BY WriteTypes
  <2>2. Written(n).stages = api.stages /\ Written(n).phase = api.phase
    BY <1>2 DEF Written, Pipelines
  <2> QED
    BY <1>0, <1>1, <1>2, <2>1, <2>2, SameStatusSound
<1>3. ASSUME api' = Removed(api) PROVE LInv'
  <2>1. Removed(api) \in Pipelines
    BY <1>0, WriteTypes
  <2>2. Removed(api).stages = <<>> /\ Removed(api).phase = ""
    BY DEF Removed, NoPipeline
  <2> QED
    BY <1>1, <1>3, <2>1, <2>2, NoStagesSound
<1>4. ASSUME NEW spec \in Specs, Create(spec) PROVE LInv'
  <2>1. Created(api, spec) \in Pipelines
    BY <1>0, WriteTypes
  <2>2. Created(api, spec).stages = <<>> /\ Created(api, spec).phase = ""
    BY DEF Created, NoPipeline
  <2> QED
    BY <1>1, <1>4, <2>1, <2>2, NoStagesSound DEF Create
<1>5. ASSUME NEW spec \in Specs, Edit(spec) PROVE LInv'
  <2>1. [api EXCEPT !.spec = spec] \in Pipelines
    BY <1>0, WriteTypes
  <2>2. /\ [api EXCEPT !.spec = spec].stages = api.stages
        /\ [api EXCEPT !.spec = spec].phase = api.phase
    BY <1>0 DEF Pipelines
  <2> QED
    BY <1>2, <1>5, <2>1, <2>2 DEF Edit
<1>6. CASE Delete
  <2>1. [api EXCEPT !.deleting = TRUE] \in Pipelines
    BY <1>0, WriteTypes
  <2>2. /\ [api EXCEPT !.deleting = TRUE].stages = api.stages
        /\ [api EXCEPT !.deleting = TRUE].phase = api.phase
    BY <1>0 DEF Pipelines
  <2> QED
    BY <1>2, <1>3, <1>6, <2>1, <2>2 DEF Delete
<1>7. CASE TakeOwnership
  <2>1. AddFinalizer(api) \in Pipelines
    BY <1>0, WriteTypes
  <2>2. AddFinalizer(api).stages = api.stages /\ AddFinalizer(api).phase = api.phase
    BY <1>0 DEF Pipelines, AddFinalizer
  <2> QED
    BY <1>2, <1>7, <2>1, <2>2 DEF TakeOwnership
<1>8. CASE Release
  BY <1>3, <1>8 DEF Release
<1>9. CASE Start
  <2> DEFINE n == StartPipeline(api)
             w == Written(n)
  <2>1. n \in Pipelines /\ api' = w
    BY <1>0, <1>9, WriteTypes DEF Start
  <2>2. w \in Pipelines
    BY <2>1, WriteTypes
  <2>3. n.stages = InitStageStatuses(api.spec) /\ n.phase = "Running"
    BY <1>0 DEF StartPipeline, Pipelines
  <2>4. \A i \in DOMAIN n.stages : Pristine(n.stages[i])
    <3>1. api.spec \in PipelineSpecs
      BY <1>0 DEF Pipelines
    <3> QED
      BY <2>3, <3>1, InitialStatuses
  <2>5. Sound(n)
    BY <2>3, <2>4 DEF Sound, InOrder, Told, Shaped, ShapedStatus, Pristine
  <2>6. w.stages = n.stages /\ w.phase = n.phase
    BY <2>1 DEF Written, Pipelines
  <2>7. Sound(w)
    BY <2>5, <2>6, SameStatusSound
  <2> QED
    BY <1>1, <2>1, <2>2, <2>7
<1>10. CASE RejectEmpty
  <2> DEFINE n == FailPipeline(api)
             w == Written(n)
  <2>1. n \in Pipelines /\ api' = w
    BY <1>0, <1>10, WriteTypes DEF RejectEmpty
  <2>2. w \in Pipelines
    BY <2>1, WriteTypes
  <2>3. api.stages = <<>>
    BY <1>0, <1>10 DEF RejectEmpty, Sound, Told
  <2>4. w.stages = <<>> /\ w.phase = "Failed"
    BY <1>0, <2>1, <2>3 DEF Written, FailPipeline, Pipelines
  <2> QED
    BY <1>1, <2>1, <2>2, <2>4, NoStagesSound
<1>11. CASE Finish
  <2> DEFINE n == CompletePipeline(api)
             w == Written(n)
  <2>1. n \in Pipelines /\ api' = w
    BY <1>0, <1>11, WriteTypes DEF Finish
  <2>2. w \in Pipelines
    BY <2>1, WriteTypes
  <2>3. w.stages = api.stages /\ w.phase = "Completed"
    BY <1>0, <2>1 DEF Written, CompletePipeline, Pipelines
  <2>4. \A i \in DOMAIN api.stages :
          api.stages[i].phase = "Completed" /\ api.stages[i].ref # NoRef
    BY <1>0, <1>11 DEF Finish, AllFinished, Finished, Sound, Shaped, ShapedStatus
  <2>5. Sound(w)
    BY <1>0, <2>3, <2>4 DEF Sound, InOrder, Told, Shaped
  <2> QED
    BY <1>1, <2>1, <2>2, <2>5
<1>12. ASSUME NEW i \in DOMAIN api.stages,
              \/ \E w \in Outputs : StageCompletes(i, w)
              \/ StageFails(i) \/ Retry(i) \/ GiveUp(i)
       PROVE  LInv'
  <2>1. Eligible(i)
    BY <1>12 DEF StageCompletes, StageFails, Retry, GiveUp
  <2> QED
    BY <1>12, <2>1, StageStepSound
<1>13. CASE UNCHANGED api
  BY <1>0, <1>1, <1>13
<1> QED
  BY <1>4, <1>5, <1>6, <1>7, <1>8, <1>9, <1>10, <1>11, <1>12, <1>13 DEF LifecycleNext

(* A lifecycle step gives the resource the next version number, and a spec it   *)
(* had, a user wrote, or none.                                                   *)
LEMMA StepVersion ==
    ASSUME api \in Pipelines, LifecycleNext
    PROVE  /\ api'.rv = api.rv + 1
           /\ api'.spec \in Specs \cup {api.spec, EmptySpec}
<1>1. ASSUME NEW n \in Pipelines, n.rv = api.rv,
             n.spec \in Specs \cup {api.spec}, api' = Written(n)
      PROVE  api'.rv = api.rv + 1 /\ api'.spec \in Specs \cup {api.spec, EmptySpec}
  BY <1>1 DEF Written, Pipelines
<1>2. ASSUME api' = Removed(api)
      PROVE  api'.rv = api.rv + 1 /\ api'.spec \in Specs \cup {api.spec, EmptySpec}
  BY <1>2 DEF Removed, NoPipeline
<1>3. ASSUME NEW spec \in Specs, Create(spec)
      PROVE  api'.rv = api.rv + 1 /\ api'.spec \in Specs \cup {api.spec, EmptySpec}
  BY <1>3 DEF Create, Created, NoPipeline
<1>4. ASSUME NEW spec \in Specs, Edit(spec)
      PROVE  api'.rv = api.rv + 1 /\ api'.spec \in Specs \cup {api.spec, EmptySpec}
  <2> DEFINE n == [api EXCEPT !.spec = spec]
  <2>1. n \in Pipelines
    BY WriteTypes
  <2>2. n.rv = api.rv /\ n.spec = spec
    BY DEF Pipelines
  <2> HIDE DEF n
  <2>3. api' = Written(n)
    BY <1>4 DEF Edit, n
  <2> QED
    BY <1>1, <2>1, <2>2, <2>3
<1>5. ASSUME NEW n \in Pipelines, n.rv = api.rv, n.spec = api.spec, api' = Written(n)
      PROVE  api'.rv = api.rv + 1 /\ api'.spec \in Specs \cup {api.spec, EmptySpec}
  BY <1>1, <1>5
<1>6. CASE Delete
  <2> DEFINE n == [api EXCEPT !.deleting = TRUE]
  <2>1. n \in Pipelines /\ n.rv = api.rv /\ n.spec = api.spec
    BY DEF Pipelines
  <2> HIDE DEF n
  <2>2. api' = Written(n) \/ api' = Removed(api)
    BY <1>6 DEF Delete, n
  <2> QED
    BY <1>2, <1>5, <2>1, <2>2
<1>7. CASE TakeOwnership
  <2>1. AddFinalizer(api) \in Pipelines
    BY WriteTypes
  <2>2. AddFinalizer(api).rv = api.rv /\ AddFinalizer(api).spec = api.spec
    BY DEF AddFinalizer, Pipelines
  <2> QED
    BY <1>5, <1>7, <2>1, <2>2 DEF TakeOwnership
<1>8. CASE Release
  BY <1>2, <1>8 DEF Release
<1>9. CASE Start
  <2>1. StartPipeline(api) \in Pipelines
    BY <1>9, WriteTypes DEF Start
  <2>2. StartPipeline(api).rv = api.rv /\ StartPipeline(api).spec = api.spec
    BY DEF StartPipeline, Pipelines
  <2> QED
    BY <1>5, <1>9, <2>1, <2>2 DEF Start
<1>10. ASSUME api' = Written(FailPipeline(api))
       PROVE  api'.rv = api.rv + 1 /\ api'.spec \in Specs \cup {api.spec, EmptySpec}
  <2>1. FailPipeline(api) \in Pipelines
    BY WriteTypes
  <2>2. FailPipeline(api).rv = api.rv /\ FailPipeline(api).spec = api.spec
    BY DEF FailPipeline, Pipelines
  <2> QED
    BY <1>5, <1>10, <2>1, <2>2
<1>11. CASE RejectEmpty
  BY <1>10, <1>11 DEF RejectEmpty
<1>12. CASE Finish
  <2>1. CompletePipeline(api) \in Pipelines
    BY WriteTypes
  <2>2. CompletePipeline(api).rv = api.rv /\ CompletePipeline(api).spec = api.spec
    BY DEF CompletePipeline, Pipelines
  <2> QED
    BY <1>5, <1>12, <2>1, <2>2 DEF Finish
<1>13. ASSUME NEW i \in DOMAIN api.stages,
              \/ \E w \in Outputs : StageCompletes(i, w)
              \/ StageFails(i) \/ Retry(i) \/ GiveUp(i)
       PROVE  api'.rv = api.rv + 1 /\ api'.spec \in Specs \cup {api.spec, EmptySpec}
  <2>1. i \in DOMAIN api.spec.stages
    BY <1>13 DEF StageCompletes, StageFails, Retry, GiveUp, Eligible
  <2>2. ASSUME NEW b \in Pipelines, b.rv = api.rv, b.spec = api.spec,
               b.stages = api.stages, NEW s \in StageStatuses,
               api' = Written(WithStage(b, i, s))
        PROVE  api'.rv = api.rv + 1 /\ api'.spec \in Specs \cup {api.spec, EmptySpec}
    <3>1. WithStage(b, i, s) \in Pipelines
      BY <2>2, WithStageProperties
    <3>2. WithStage(b, i, s).rv = api.rv /\ WithStage(b, i, s).spec = api.spec
      BY <2>2 DEF WithStage, Pipelines
    <3> QED
      BY <1>5, <2>2, <3>1, <3>2
  <2>3. /\ Executing(api, i) \in Pipelines /\ Executing(api, i).rv = api.rv
        /\ Executing(api, i).spec = api.spec /\ Executing(api, i).stages = api.stages
    BY <2>1, StatusTypes DEF Executing, Pipelines
  <2>4. CASE \E w \in Outputs : StageCompletes(i, w)
    <3>1. PICK w \in Outputs : StageCompletes(i, w)
      BY <2>4
    <3>2. CompletedStatus(api, i, w) \in StageStatuses
      BY <2>1, StatusTypes, ConstantsAssumption
    <3> QED
      BY <2>2, <2>3, <3>1, <3>2 DEF StageCompletes, CompleteStage, RecoverStage
  <2>5. CASE StageFails(i)
    BY <2>1, <2>2, <2>3, <2>5, StatusTypes DEF StageFails, FailStage
  <2>6. CASE Retry(i)
    BY <2>1, <2>2, <2>6, StatusTypes DEF Retry, RetryStage
  <2>7. CASE GiveUp(i)
    BY <1>10, <2>7 DEF GiveUp
  <2> QED
    BY <1>13, <2>4, <2>5, <2>6, <2>7
<1> QED
  BY <1>3, <1>4, <1>6, <1>7, <1>8, <1>9, <1>11, <1>12, <1>13 DEF LifecycleNext

(* The lifecycle keeps its invariant. *)
THEOREM LifecycleInvariant == LifecycleSpec => []LInv
BY InitSound, StepSound, PTL DEF LifecycleSpec

(* FindCurrentStage's order holds for every spec, edit and number of retries. *)
THEOREM LifecycleInOrder == LifecycleSpec => []StagesInOrder
<1>1. LInv => StagesInOrder
  BY DEF LInv, Sound, InOrder, StagesInOrder
<1> QED
  BY <1>1, LifecycleInvariant, PTL

(* The phases that completePipeline and failPipeline write tell the truth about *)
(* the stages.                                                                   *)
THEOREM LifecycleTruthful == LifecycleSpec => []PhaseTellsStages
<1>1. LInv => PhaseTellsStages
  BY DEF LInv, Sound, Told, PhaseTellsStages
<1> QED
  BY <1>1, LifecycleInvariant, PTL

(* No write of the controller, and no edit, changes a Completed stage or the    *)
(* status of a pipeline that has ended.                                          *)
THEOREM LifecycleNothingUndone == LifecycleSpec => NothingUndone
<1>1. ASSUME LInv, [LifecycleNext]_api PROVE KeepsReported
  <2>0. api \in Pipelines /\ Sound(api)
    BY <1>1 DEF LInv, ResourceTyped
  <2>1. ASSUME api'.stages = api.stages, api'.phase = api.phase
        PROVE  KeepsReported
    BY <2>1 DEF KeepsReported
  <2>2. ASSUME api' = Removed(api) PROVE KeepsReported
    BY <2>2 DEF Removed, NoPipeline, KeepsReported
  <2>3. ASSUME NEW spec \in Specs, Create(spec) PROVE KeepsReported
    <3>1. api'.uid = api.uid + 1
      BY <2>3 DEF Create, Created, NoPipeline
    <3>2. api'.uid # api.uid
      BY <2>0, <3>1 DEF Pipelines
    <3> QED
      BY <3>2 DEF KeepsReported
  <2>4. ASSUME NEW spec \in Specs, Edit(spec) PROVE KeepsReported
    BY <2>0, <2>1, <2>4 DEF Edit, Written, Pipelines
  <2>5. CASE Delete
    BY <2>0, <2>1, <2>2, <2>5 DEF Delete, Written, Pipelines
  <2>6. CASE TakeOwnership
    BY <2>0, <2>1, <2>6 DEF TakeOwnership, AddFinalizer, Written, Pipelines
  <2>7. CASE Release
    BY <2>2, <2>7 DEF Release
  <2>8. CASE Start \/ RejectEmpty
    <3>1. api.stages = <<>> /\ ~Terminal(api)
      BY <2>0, <2>8 DEF Start, RejectEmpty, Sound, Told, Terminal
    <3>2. DOMAIN api.stages = {}
      BY <3>1, EmptyDomain
    <3> QED
      BY <3>1, <3>2 DEF KeepsReported
  <2>9. CASE Finish
    <3>1. ~Terminal(api)
      BY <2>9 DEF Finish, Terminal
    <3>2. api'.stages = api.stages
      BY <2>0, <2>9 DEF Finish, CompletePipeline, Written, Pipelines
    <3> QED
      BY <3>1, <3>2 DEF KeepsReported
  <2>10. ASSUME NEW i \in DOMAIN api.stages,
                \/ \E w \in Outputs : StageCompletes(i, w)
                \/ StageFails(i) \/ Retry(i) \/ GiveUp(i)
         PROVE  KeepsReported
    <3>1. Eligible(i) /\ api.stages[i].phase # "Completed" /\ ~Terminal(api)
      BY <2>10 DEF StageCompletes, StageFails, Retry, GiveUp, Eligible, Terminal
    <3>2. CASE GiveUp(i)
      <4>1. api'.stages = api.stages
        BY <2>0, <3>2 DEF GiveUp, FailPipeline, Written, Pipelines
      <4> QED
        BY <3>1, <4>1 DEF KeepsReported
    <3>3. ASSUME NEW b \in Pipelines, b.stages = api.stages, NEW s \in StageStatuses,
                 api' = Written(WithStage(b, i, s))
          PROVE  KeepsReported
      <4> DEFINE n == WithStage(b, i, s)
      <4>1. /\ n \in Pipelines /\ DOMAIN n.stages = DOMAIN api.stages
            /\ \A j \in DOMAIN api.stages :
                  n.stages[j] = IF j = i THEN s ELSE api.stages[j]
        BY <3>3, WithStageOver
      <4>2. api'.stages = n.stages
        BY <3>3, <4>1 DEF Written, Pipelines
      <4> HIDE DEF n
      <4> QED
        BY <3>1, <4>1, <4>2 DEF KeepsReported
    <3>4. i \in DOMAIN api.spec.stages
      BY <3>1 DEF Eligible
    <3>5. Executing(api, i) \in Pipelines /\ Executing(api, i).stages = api.stages
      BY <2>0, <3>4, StatusTypes
    <3>6. CASE \E w \in Outputs : StageCompletes(i, w)
      <4>1. PICK w \in Outputs : StageCompletes(i, w)
        BY <3>6
      <4>2. CompletedStatus(api, i, w) \in StageStatuses
        BY <2>0, <3>4, StatusTypes, ConstantsAssumption
      <4> QED
        BY <2>0, <3>3, <3>5, <4>1, <4>2 DEF StageCompletes, CompleteStage, RecoverStage
    <3>7. CASE StageFails(i)
      BY <2>0, <3>3, <3>4, <3>5, <3>7, StatusTypes DEF StageFails, FailStage
    <3>8. CASE Retry(i)
      BY <2>0, <3>3, <3>4, <3>8, StatusTypes DEF Retry, RetryStage
    <3> QED
      BY <2>10, <3>2, <3>6, <3>7, <3>8
  <2>11. CASE UNCHANGED api
    BY <2>1, <2>11
  <2> QED
    BY <1>1, <2>3, <2>4, <2>5, <2>6, <2>7, <2>8, <2>9, <2>10, <2>11 DEF LifecycleNext
<1>2. LInv /\ [LifecycleNext]_api => [KeepsReported]_api
  BY <1>1
<1> QED
  BY <1>2, LifecycleInvariant, PTL DEF LifecycleSpec, NothingUndone
================================================================================
