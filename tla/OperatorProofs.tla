----------------------------- MODULE OperatorProofs -----------------------------
(* Proofs about Operator, for any number of pipelines, any specs and answers:   *)
(* each pipeline follows its own lifecycle, the work queue is well formed, no    *)
(* change goes unreconciled, no pipeline waits for long, and outputs stay apart   *)
(* if the names do.                                                              *)
EXTENDS Operator, AgentPipelineProofs, FiniteSetTheorems

(* A copy v of the resource o: older, or the same. *)
IsCopy(v, o) == v.rv <= o.rv /\ (v.rv = o.rv => v = o)

(* What every copy of a resource in the system satisfies: its spec is the one   *)
(* the user gave, its statuses are those of the spec's stages, and a resource    *)
(* that was never created has no version.                                        *)
Known(o) ==
    /\ o.uid = 0 => o.rv = 0
    /\ o.live => /\ o.uid # 0 /\ o.spec \in Specs
                 /\ \A i \in DOMAIN o.stages :
                       /\ i \in DOMAIN o.spec.stages
                       /\ o.stages[i].name = o.spec.stages[i].name

ResourcesOK ==
    /\ api \in [Pids -> Pipelines] /\ cache \in [Pids -> Pipelines] /\ obj \in Pipelines
    /\ \A p \in Pids : Known(api[p]) /\ Known(cache[p]) /\ IsCopy(cache[p], api[p])
    /\ pid \in Pids => Known(obj) /\ IsCopy(obj, api[pid])

(* The worker is at stage cur of its copy, for the reason handleRunning gives. *)
AtStage(phase) ==
    /\ obj.live /\ ~obj.deleting /\ obj.phase = "Running"
    /\ FindCurrentStage(obj, cur) /\ cur \in DOMAIN obj.spec.stages
    /\ AreDependenciesMet(obj, cur) /\ obj.stages[cur].phase = phase

Unstarted == obj.live /\ ~obj.deleting /\ obj.phase \in {"", "Pending"}

(* What the worker has established of its copy at each place. *)
PcOK ==
    /\ pc = "removeFinalizer" => obj.live /\ obj.deleting /\ obj.finalizer
    /\ pc = "addFinalizer" => Unstarted /\ ~obj.finalizer
    /\ pc = "startPipeline" => Unstarted /\ obj.finalizer /\ obj.spec.stages # <<>>
    /\ pc = "completePipeline" =>
          obj.live /\ ~obj.deleting /\ obj.phase = "Running" /\ AllFinished(obj)
    /\ pc = "failPipeline" =>
          \/ Unstarted /\ obj.finalizer /\ obj.spec.stages = <<>>
          \/ AtStage("Failed") /\ obj.stages[cur].retries >= GetEffectiveRetryPolicy(obj, cur)
    /\ pc = "retryStage" =>
          AtStage("Failed") /\ obj.stages[cur].retries < GetEffectiveRetryPolicy(obj, cur)
    /\ pc \in {"startStage", "runAgent", "completeStage", "recoverStage", "failStage"} =>
          AtStage("Pending")
    /\ pc \in {"completeStage", "recoverStage"} => out \in Outputs

WorkerOK ==
    /\ pid \in Pids \cup {NoPid} /\ pc \in PCs /\ (pc = "idle" <=> pid = NoPid)
    /\ cur \in Nat /\ out \in Outputs \cup {NoOutput}

Owned(cm) == cm \in ConfigMaps /\ (cm # Absent => cm.owner \in Pids /\ cm.out \in Outputs)

StoreOK ==
    /\ cms \in [FullNames -> ConfigMaps] /\ cmCache \in [FullNames -> ConfigMaps]
    /\ \A n \in FullNames : Owned(cms[n]) /\ Owned(cmCache[n])

QueueOK ==
    /\ queue \in Seq(Pids) /\ IsInjective(queue)
    /\ dirty \subseteq Pids /\ dirty \ {pid} = Range(queue) /\ delayed \subseteq Pids

BoundsOK ==
    /\ upsets \in 0..MaxUpsets
    /\ lastRead \in [Pids -> Nat] /\ waited \in [Pids -> Nat]

OInv == ResourcesOK /\ PcOK /\ WorkerOK /\ StoreOK /\ QueueOK /\ BoundsOK
--------------------------------------------------------------------------------
(* One copy of a resource. *)

(* A write that leaves the identity, the spec and the stages' names alone.      *)
LEMMA WrittenKnown ==
    ASSUME NEW o \in Pipelines, Known(o), o.live, NEW n \in Pipelines,
           n.live, n.uid = o.uid, n.rv = o.rv, n.spec = o.spec,
           \A i \in DOMAIN n.stages :
              /\ i \in DOMAIN o.spec.stages
              /\ n.stages[i].name = o.spec.stages[i].name
    PROVE  /\ Written(n) \in Pipelines /\ Known(Written(n))
           /\ Written(n).rv = o.rv + 1 /\ Written(n).stages = n.stages
           /\ Written(n).uid = o.uid
<1>1. Written(n) \in Pipelines
  BY WriteTypes
<1>2. /\ Written(n).rv = o.rv + 1 /\ Written(n).stages = n.stages /\ Written(n).live
      /\ Written(n).uid = o.uid /\ Written(n).spec = o.spec
  BY DEF Written, Pipelines
<1> QED
  BY <1>1, <1>2 DEF Known

LEMMA RemovedKnown ==
    ASSUME NEW o \in Pipelines, Known(o), o.live
    PROVE  /\ Removed(o) \in Pipelines /\ Known(Removed(o)) /\ Removed(o).rv = o.rv + 1
           /\ ~Removed(o).live /\ Removed(o).uid = o.uid
<1>1. Removed(o) \in Pipelines
  BY WriteTypes
<1>2. ~Removed(o).live /\ Removed(o).uid = o.uid /\ Removed(o).rv = o.rv + 1
  BY DEF Removed, NoPipeline, Pipelines
<1> QED
  BY <1>1, <1>2 DEF Known

LEMMA CreatedKnown ==
    ASSUME NEW o \in Pipelines, NEW spec \in Specs
    PROVE  /\ Created(o, spec) \in Pipelines /\ Known(Created(o, spec))
           /\ Created(o, spec).rv = o.rv + 1 /\ Created(o, spec).stages = <<>>
           /\ Created(o, spec).uid # 0
<1>1. Created(o, spec) \in Pipelines
  BY WriteTypes
<1>2. /\ Created(o, spec).uid = o.uid + 1 /\ Created(o, spec).rv = o.rv + 1
      /\ Created(o, spec).stages = <<>> /\ Created(o, spec).spec = spec
  BY DEF Created, NoPipeline, Pipelines
<1>3. o.uid + 1 # 0
  BY DEF Pipelines
<1> QED
  BY <1>1, <1>2, <1>3, EmptyDomain DEF Known

(* A new status for one stage, in a copy that differs at most in currentStage.  *)
LEMMA StageWriteKnown ==
    ASSUME NEW o \in Pipelines, Known(o), o.live, NEW i \in DOMAIN o.stages,
           NEW b \in Pipelines, b \in {o, Executing(o, i)},
           NEW s \in StageStatuses, s.name = o.stages[i].name
    PROVE  LET n == WithStage(b, i, s) IN
           /\ Written(n) \in Pipelines /\ Known(Written(n))
           /\ Written(n).rv = o.rv + 1 /\ Written(n).uid = o.uid
           /\ DOMAIN Written(n).stages = DOMAIN o.stages
           /\ \A j \in DOMAIN o.stages :
                 Written(n).stages[j] = IF j = i THEN s ELSE o.stages[j]
<1> DEFINE n == WithStage(b, i, s)
<1>1. /\ b.stages = o.stages /\ b.live = o.live /\ b.uid = o.uid /\ b.rv = o.rv
      /\ b.spec = o.spec
  BY DEF Executing, Pipelines
<1>2. /\ n \in Pipelines /\ DOMAIN n.stages = DOMAIN o.stages
      /\ \A j \in DOMAIN o.stages : n.stages[j] = IF j = i THEN s ELSE o.stages[j]
      /\ n = [b EXCEPT !.stages = n.stages]
  <2>1. i \in DOMAIN b.stages
    BY <1>1
  <2>2. /\ n \in Pipelines /\ DOMAIN n.stages = DOMAIN b.stages
        /\ \A j \in DOMAIN b.stages : n.stages[j] = IF j = i THEN s ELSE b.stages[j]
        /\ n = [b EXCEPT !.stages = n.stages]
    BY <2>1, WithStageProperties
  <2> HIDE DEF n
  <2> QED
    BY <1>1, <2>2
<1> HIDE DEF n
<1>3. n.live /\ n.uid = o.uid /\ n.rv = o.rv /\ n.spec = o.spec
  BY <1>1, <1>2 DEF Pipelines
<1>4. \A j \in DOMAIN n.stages : /\ j \in DOMAIN o.spec.stages
                                 /\ n.stages[j].name = o.spec.stages[j].name
  BY <1>2 DEF Known
<1>5. /\ Written(n) \in Pipelines /\ Known(Written(n))
      /\ Written(n).rv = o.rv + 1 /\ Written(n).stages = n.stages
      /\ Written(n).uid = o.uid
  BY <1>2, <1>3, <1>4, WrittenKnown
<1> QED
  BY <1>2, <1>5 DEF n

(* Starting a pipeline gives each stage of the spec its pristine status. *)
LEMMA StartKnown ==
    ASSUME NEW o \in Pipelines, Known(o), o.live, o.spec.stages # <<>>
    PROVE  LET n == Written(StartPipeline(o)) IN
           /\ n \in Pipelines /\ Known(n) /\ n.rv = o.rv + 1 /\ n.uid = o.uid
           /\ \A i \in DOMAIN n.stages : n.stages[i].phase = "Pending"
<1> DEFINE n == StartPipeline(o)
<1>1. n \in Pipelines
  BY WriteTypes
<1>2. /\ n.live /\ n.uid = o.uid /\ n.rv = o.rv /\ n.spec = o.spec
      /\ n.stages = InitStageStatuses(o.spec)
  BY DEF StartPipeline, Pipelines
<1>3. o.spec.stages \in Seq(StageSpecs)
  BY DEF Pipelines, PipelineSpecs
<1>4. DOMAIN o.spec.stages = 1..Len(o.spec.stages)
  BY <1>3, LenProperties
<1>5. /\ DOMAIN n.stages = DOMAIN o.spec.stages
      /\ \A i \in DOMAIN n.stages : /\ n.stages[i].name = o.spec.stages[i].name
                                    /\ n.stages[i].phase = "Pending"
  BY <1>2, <1>4 DEF InitStageStatuses
<1> HIDE DEF n
<1>6. /\ Written(n) \in Pipelines /\ Known(Written(n))
      /\ Written(n).rv = o.rv + 1 /\ Written(n).stages = n.stages
      /\ Written(n).uid = o.uid
  BY <1>1, <1>2, <1>5, WrittenKnown
<1> QED
  BY <1>5, <1>6 DEF n
--------------------------------------------------------------------------------
(* The write that ends a reconcile. *)

(* A stage is Completed after the write because it was before, or because it is *)
(* the stage the worker completes.                                               *)
Reports(n) ==
    \A i \in DOMAIN n.stages : n.stages[i].phase = "Completed" =>
        \/ i \in DOMAIN obj.stages /\ n.stages[i] = obj.stages[i]
        \/ /\ pc \in {"completeStage", "recoverStage"} /\ i = cur
           /\ n.stages[i] = CompletedStatus(obj, cur, out)

WellWritten(n) ==
    n \in Pipelines /\ Known(n) /\ n.rv = obj.rv + 1 /\ n.uid = obj.uid /\ Reports(n)

(* Every handler makes a well-formed successor of its copy. *)
LEMMA OutcomeKnown ==
    ASSUME OInv, pc \in WritePCs
    PROVE  WellWritten(Outcome)
<1>0. obj \in Pipelines /\ Known(obj) /\ PcOK /\ pid \in Pids
  BY DEF OInv, ResourcesOK, WorkerOK, WritePCs
<1>1. ASSUME NEW n \in Pipelines, obj.live, n.live, n.uid = obj.uid, n.rv = obj.rv,
             n.spec = obj.spec, n.stages = obj.stages
      PROVE  WellWritten(Written(n))
  <2>1. \A i \in DOMAIN n.stages : /\ i \in DOMAIN obj.spec.stages
                                   /\ n.stages[i].name = obj.spec.stages[i].name
    BY <1>0, <1>1 DEF Known
  <2>2. /\ Written(n) \in Pipelines /\ Known(Written(n))
        /\ Written(n).rv = obj.rv + 1 /\ Written(n).stages = n.stages
        /\ Written(n).uid = obj.uid
    BY <1>0, <1>1, <2>1, WrittenKnown
  <2> QED
    BY <1>1, <2>2 DEF WellWritten, Reports
<1>2. ASSUME NEW phase, AtStage(phase)
      PROVE  /\ obj.live /\ cur \in DOMAIN obj.stages /\ cur \in DOMAIN obj.spec.stages
             /\ Executing(obj, cur) \in Pipelines
             /\ obj.stages[cur] \in StageStatuses
  <2>1. obj.live /\ cur \in DOMAIN obj.stages /\ cur \in DOMAIN obj.spec.stages
    BY <1>2 DEF AtStage, FindCurrentStage
  <2>2. Executing(obj, cur) \in Pipelines
    BY <1>0, <2>1, StatusTypes
  <2>3. obj.stages[cur] \in StageStatuses
    BY <1>0, <2>1, ElementOfSeq, LenProperties DEF Pipelines
  <2> QED
    BY <2>1, <2>2, <2>3
<1>3. ASSUME NEW phase, AtStage(phase), NEW b \in {obj, Executing(obj, cur)},
             NEW s \in StageStatuses, s.name = obj.stages[cur].name,
             s.phase = "Completed" =>
                pc \in {"completeStage", "recoverStage"} /\ s = CompletedStatus(obj, cur, out)
      PROVE  WellWritten(Written(WithStage(b, cur, s)))
  <2> DEFINE n == Written(WithStage(b, cur, s))
  <2>1. b \in Pipelines /\ obj.live /\ cur \in DOMAIN obj.stages
    BY <1>0, <1>2, <1>3
  <2>2. /\ n \in Pipelines /\ Known(n) /\ n.rv = obj.rv + 1 /\ n.uid = obj.uid
        /\ DOMAIN n.stages = DOMAIN obj.stages
        /\ \A j \in DOMAIN obj.stages :
              n.stages[j] = IF j = cur THEN s ELSE obj.stages[j]
    BY <1>0, <1>3, <2>1, StageWriteKnown
  <2> HIDE DEF n
  <2>3. Reports(n)
    BY <1>3, <2>2 DEF Reports
  <2> QED
    BY <2>2, <2>3 DEF WellWritten, n
<1>4. CASE pc = "addFinalizer"
  <2>1. Outcome = Written(AddFinalizer(obj)) /\ obj.live
    BY <1>0, <1>4 DEF Outcome, PcOK, Unstarted
  <2>2. AddFinalizer(obj) \in Pipelines
    BY <1>0, WriteTypes
  <2>3. /\ AddFinalizer(obj).live = obj.live /\ AddFinalizer(obj).uid = obj.uid
        /\ AddFinalizer(obj).rv = obj.rv /\ AddFinalizer(obj).spec = obj.spec
        /\ AddFinalizer(obj).stages = obj.stages
    BY <1>0 DEF AddFinalizer, Pipelines
  <2> QED
    BY <1>1, <2>1, <2>2, <2>3
<1>5. CASE pc = "removeFinalizer"
  <2>1. Outcome = Removed(obj) /\ obj.live
    BY <1>0, <1>5 DEF Outcome, PcOK
  <2>2. Removed(obj).stages = <<>>
    BY DEF Removed, NoPipeline
  <2> QED
    BY <1>0, <2>1, <2>2, RemovedKnown, EmptyDomain DEF WellWritten, Reports
<1>6. CASE pc = "startPipeline"
  <2>1. Outcome = Written(StartPipeline(obj)) /\ obj.live /\ obj.spec.stages # <<>>
    BY <1>0, <1>6 DEF Outcome, PcOK, Unstarted
  <2> QED
    BY <1>0, <2>1, StartKnown DEF WellWritten, Reports
<1>7. CASE pc = "completePipeline"
  <2>1. Outcome = Written(CompletePipeline(obj)) /\ obj.live
    BY <1>0, <1>7 DEF Outcome, PcOK
  <2>2. CompletePipeline(obj) \in Pipelines
    BY <1>0, WriteTypes
  <2>3. /\ CompletePipeline(obj).live = obj.live /\ CompletePipeline(obj).uid = obj.uid
        /\ CompletePipeline(obj).rv = obj.rv /\ CompletePipeline(obj).spec = obj.spec
        /\ CompletePipeline(obj).stages = obj.stages
    BY <1>0 DEF CompletePipeline, Pipelines
  <2> QED
    BY <1>1, <2>1, <2>2, <2>3
<1>8. CASE pc = "failPipeline"
  <2>1. Outcome = Written(FailPipeline(obj)) /\ obj.live
    BY <1>0, <1>8 DEF Outcome, PcOK, Unstarted, AtStage
  <2>2. FailPipeline(obj) \in Pipelines
    BY <1>0, WriteTypes
  <2>3. /\ FailPipeline(obj).live = obj.live /\ FailPipeline(obj).uid = obj.uid
        /\ FailPipeline(obj).rv = obj.rv /\ FailPipeline(obj).spec = obj.spec
        /\ FailPipeline(obj).stages = obj.stages
    BY <1>0 DEF FailPipeline, Pipelines
  <2> QED
    BY <1>1, <2>1, <2>2, <2>3
<1>9. CASE pc \in {"completeStage", "recoverStage"}
  <2>1. AtStage("Pending") /\ out \in Outputs
    BY <1>0, <1>9 DEF PcOK
  <2>2. Outcome \in {Written(WithStage(Executing(obj, cur), cur, CompletedStatus(obj, cur, out))),
                     Written(WithStage(obj, cur, CompletedStatus(obj, cur, out)))}
    BY <1>9 DEF Outcome, CompleteStage, RecoverStage
  <2>3. CompletedStatus(obj, cur, out) \in StageStatuses
    BY <1>0, <1>2, <2>1, StatusTypes, ConstantsAssumption
  <2>4. CompletedStatus(obj, cur, out).name = obj.stages[cur].name
    BY <1>2, <2>1 DEF CompletedStatus, StageStatuses
  <2> QED
    BY <1>3, <1>9, <2>1, <2>2, <2>3, <2>4
<1>10. CASE pc = "failStage"
  <2>1. AtStage("Pending")
    BY <1>0, <1>10 DEF PcOK
  <2>2. Outcome = Written(WithStage(Executing(obj, cur), cur, FailedStatus(obj, cur)))
    BY <1>10 DEF Outcome, FailStage
  <2>3. FailedStatus(obj, cur) \in StageStatuses /\ FailedStatus(obj, cur).phase = "Failed"
    BY <1>0, <1>2, <2>1, StatusTypes
  <2>4. FailedStatus(obj, cur).name = obj.stages[cur].name
    BY <1>2, <2>1 DEF FailedStatus, StageStatuses
  <2> QED
    BY <1>3, <2>1, <2>2, <2>3, <2>4
<1>11. CASE pc = "retryStage"
  <2>1. AtStage("Failed")
    BY <1>0, <1>11 DEF PcOK
  <2>2. Outcome = Written(WithStage(obj, cur, RetriedStatus(obj, cur)))
    BY <1>11 DEF Outcome, RetryStage
  <2>3. RetriedStatus(obj, cur) \in StageStatuses /\ RetriedStatus(obj, cur).phase = "Pending"
    BY <1>0, <1>2, <2>1, StatusTypes
  <2>4. RetriedStatus(obj, cur).name = obj.stages[cur].name
    BY <1>2, <2>1 DEF RetriedStatus, StageStatuses
  <2> QED
    BY <1>3, <2>1, <2>2, <2>3, <2>4
<1> QED
  BY <1>4, <1>5, <1>6, <1>7, <1>8, <1>9, <1>10, <1>11 DEF WritePCs

(* An accepted write works on the current resource. *)
LEMMA AcceptedIsCurrent ==
    ASSUME OInv, pc \in WritePCs, WriteAccepted
    PROVE  pid \in Pids /\ obj = api[pid] /\ obj.live
BY DEF OInv, ResourcesOK, WorkerOK, WritePCs, WriteAccepted, IsCopy
--------------------------------------------------------------------------------
(* What the worker decides. *)

(* A running pipeline with an unfinished stage has a current one. *)
LEMMA CurrentStageFound ==
    ASSUME NEW o \in Pipelines, ~AllFinished(o)
    PROVE  FindCurrentStage(o, CurrentStage(o)) /\ CurrentStage(o) \in Nat
<1> DEFINE T == {i \in DOMAIN o.stages : ~Finished(o.stages[i])}
           R == OpToRel(<, Nat)
<1>1. DOMAIN o.stages = 1..Len(o.stages) /\ Len(o.stages) \in Nat
  BY LenProperties DEF Pipelines
<1>2. T \subseteq Nat /\ T # {}
  BY <1>1 DEF AllFinished
<1>3. \E x \in T : \A y \in T : ~(<<y, x>> \in R)
  <2>1. IsWellFoundedOn(R, Nat)
    BY NatLessThanWellFounded
  <2> HIDE DEF R, T
  <2> QED
    BY <1>2, <2>1, WFMin
<1>4. PICK x \in T : \A y \in T : ~(<<y, x>> \in R)
  BY <1>3
<1>5. \A y \in T : ~(y < x)
  BY <1>2, <1>4 DEF OpToRel
<1>6. FindCurrentStage(o, x)
  <2>1. x \in DOMAIN o.stages /\ ~Finished(o.stages[x]) /\ x \in Nat
    BY <1>1
  <2>2. ASSUME NEW j \in 1..(x - 1) PROVE Finished(o.stages[j])
    <3>1. j \in DOMAIN o.stages /\ j < x
      BY <1>1, <2>1
    <3> QED
      BY <1>5, <3>1
  <2> QED
    BY <2>1, <2>2 DEF FindCurrentStage
<1>7. \E i \in DOMAIN o.stages : FindCurrentStage(o, i)
  BY <1>6 DEF FindCurrentStage
<1>8. CurrentStage(o) \in DOMAIN o.stages /\ FindCurrentStage(o, CurrentStage(o))
  BY <1>7 DEF CurrentStage
<1> QED
  BY <1>1, <1>8

(* The retry bound of a stage is a number, so either a retry is left or not.    *)
LEMMA RetriesCompared ==
    ASSUME NEW o \in Pipelines, NEW i \in DOMAIN o.stages, i \in DOMAIN o.spec.stages
    PROVE  o.stages[i].retries \in Nat /\ GetEffectiveRetryPolicy(o, i) \in Int
<1>1. o.stages[i] \in StageStatuses
  BY ElementOfSeq, LenProperties DEF Pipelines
<1>2. o.spec.stages \in Seq(StageSpecs) /\ o.spec.retry \in Int
  BY DEF Pipelines, PipelineSpecs, NoPolicy
<1>3. o.spec.stages[i] \in StageSpecs
  BY <1>2, ElementOfSeq, LenProperties
<1>4. o.spec.stages[i].retry \in Int
  BY <1>3 DEF StageSpecs, NoPolicy
<1> QED
  BY <1>1, <1>2, <1>4 DEF StageStatuses, GetEffectiveRetryPolicy

(* A reconcile takes the first pipeline of the queue; it ends at once, or the   *)
(* worker keeps the informer's copy and goes on for a reason.                    *)
Enters(p) ==
    /\ pid' = p /\ pc' = ReconcileStep(cache[p]) /\ obj' = cache[p] /\ out' = out
    /\ pc' \notin {"nothing", "wait"}
    /\ cur' = IF InStage(obj') THEN CurrentStage(obj') ELSE 0
    /\ UNCHANGED delayed

LEMMA ReconcileTakes ==
    ASSUME OInv, Reconcile
    PROVE  LET p == Head(queue) IN
           /\ p \in Pids /\ queue' = Tail(queue) /\ dirty' = dirty \ {p}
           /\ lastRead' = [lastRead EXCEPT ![p] = cache[p].rv]
           /\ Enters(p) \/ (UNCHANGED workerVars /\ delayed' \subseteq delayed \cup {p})
           /\ waited' = [waited EXCEPT ![p] = 0]
           /\ UNCHANGED <<resourceVars, configMapVars, upsets>>
<1> DEFINE p == Head(queue)
<1>1. p \in Pids
  BY HeadTailProperties DEF OInv, QueueOK, Reconcile
<1>2. CASE ReconcileStep(cache[p]) \in {"nothing", "wait"}
  BY <1>1, <1>2 DEF Reconcile
<1>3. CASE ReconcileStep(cache[p]) \notin {"nothing", "wait"}
  BY <1>1, <1>3 DEF Reconcile, Enters
<1> QED
  BY <1>2, <1>3

LEMMA EnterJustified ==
    ASSUME OInv, NEW p \in Pids, Enters(p)
    PROVE  PcOK' /\ pc' \in PCs \ {"idle"} /\ cur' \in Nat
<1> DEFINE o == cache[p]
<1>1. obj' = o /\ pc' = ReconcileStep(o) /\ o \in Pipelines /\ Known(o) /\ ~NothingToDo(o)
  BY DEF Enters, ReconcileStep, OInv, ResourcesOK
<1>2. o.live /\ o.phase \in PipelinePhases
  BY <1>1 DEF NothingToDo, Pipelines
<1> HIDE DEF o
<1>3. cur' \in Nat
  <2>1. CASE InStage(o)
    BY <1>1, <2>1, CurrentStageFound DEF Enters, InStage
  <2>2. CASE ~InStage(o)
    BY <1>1, <2>2 DEF Enters
  <2> QED
    BY <2>1, <2>2
<1>4. CASE o.deleting
  <2>1. pc' = "removeFinalizer" /\ o.finalizer
    BY <1>1, <1>2, <1>4 DEF ReconcileStep, NothingToDo
  <2> QED
    BY <1>1, <1>2, <1>3, <1>4, <2>1 DEF PcOK, PCs, WritePCs
<1>5. CASE ~o.deleting /\ o.phase \in {"", "Pending"}
  <2>1. \/ pc' = "addFinalizer" /\ ~o.finalizer
        \/ pc' = "failPipeline" /\ o.finalizer /\ o.spec.stages = <<>>
        \/ pc' = "startPipeline" /\ o.finalizer /\ o.spec.stages # <<>>
    BY <1>1, <1>5 DEF ReconcileStep
  <2>2. Unstarted'
    BY <1>1, <1>2, <1>5 DEF Unstarted
  <2> QED
    BY <1>1, <1>3, <2>1, <2>2 DEF PcOK, PCs, WritePCs
<1>6. CASE ~o.deleting /\ o.phase \notin {"", "Pending"}
  <2>1. o.phase = "Running"
    BY <1>1, <1>2, <1>6 DEF NothingToDo, Terminal, PipelinePhases
  <2>2. CASE AllFinished(o)
    <3>1. pc' = "completePipeline"
      BY <1>1, <1>6, <2>2 DEF ReconcileStep
    <3> QED
      BY <1>1, <1>2, <1>3, <1>6, <2>1, <2>2, <3>1 DEF PcOK, PCs, WritePCs
  <2>3. CASE ~AllFinished(o)
    <3>1. cur' = CurrentStage(o) /\ FindCurrentStage(o, cur')
      BY <1>1, <1>6, <2>1, <2>3, CurrentStageFound DEF Enters, InStage
    <3>2. pc' = StageStep(o, cur') /\ pc' # "wait"
      BY <1>1, <1>6, <2>3, <3>1 DEF ReconcileStep, Enters
    <3>3. cur' \in DOMAIN o.stages /\ cur' \in DOMAIN o.spec.stages
      BY <1>1, <1>2, <3>1 DEF FindCurrentStage, Known
    <3>4. o.stages[cur'].retries \in Nat /\ GetEffectiveRetryPolicy(o, cur') \in Int
      BY <1>1, <3>3, RetriesCompared
    <3>5. AreDependenciesMet(o, cur')
      BY <3>2 DEF StageStep
    <3>6. ASSUME NEW phase, o.stages[cur'].phase = phase PROVE AtStage(phase)'
      BY <1>1, <1>2, <1>6, <2>1, <3>1, <3>3, <3>5, <3>6 DEF AtStage
    <3>7. \/ pc' = "startStage" /\ AtStage("Pending")'
          \/ /\ pc' = "retryStage" /\ AtStage("Failed")'
             /\ o.stages[cur'].retries < GetEffectiveRetryPolicy(o, cur')
          \/ /\ pc' = "failPipeline" /\ AtStage("Failed")'
             /\ ~(o.stages[cur'].retries < GetEffectiveRetryPolicy(o, cur'))
      BY <3>2, <3>6 DEF StageStep
    <3> QED
      BY <1>1, <1>3, <3>4, <3>7 DEF PcOK, PCs, WritePCs
  <2> QED
    BY <2>2, <2>3
<1> QED
  BY <1>4, <1>5, <1>6
--------------------------------------------------------------------------------
(* The worker and its copy. *)

(* A reconcile that ends leaves nothing behind. *)
Idle == pid' = NoPid /\ pc' = "idle" /\ obj' = NoPipeline /\ cur' = 0 /\ out' = NoOutput

LEMMA IdleJustified ==
    ASSUME Idle
    PROVE  PcOK' /\ WorkerOK'
BY DEF Idle, PcOK, WorkerOK, PCs

(* The ConfigMap of the worker's stage has a name of the store. *)
LEMMA TargetTyped ==
    ASSUME OInv, AtStage("Pending"), pid \in Pids
    PROVE  /\ obj.spec.stages[cur].name \in Names /\ Target \in FullNames
           /\ Owned(cms[Target]) /\ Owned(cmCache[Target])
<1>1. obj.spec.stages \in Seq(StageSpecs) /\ cur \in DOMAIN obj.spec.stages
  BY DEF OInv, ResourcesOK, Pipelines, PipelineSpecs, AtStage
<1>2. obj.spec.stages[cur] \in StageSpecs
  BY <1>1, ElementOfSeq, LenProperties
<1>3. obj.spec.stages[cur].name \in Names
  BY <1>2 DEF StageSpecs
<1>4. Target \in FullNames
  BY <1>3 DEF Target, FullNames
<1> QED
  BY <1>3, <1>4 DEF OInv, StoreOK

(* An event of a ConfigMap adds a pipeline to the queue, and does no more. *)
LEMMA ConfigMapEvent ==
    ASSUME OInv, NEW name \in FullNames, DeliverConfigMap(name)
    PROVE  /\ \E p \in Pids : Add(p)
           /\ UNCHANGED <<api, cache, cms, delayed, pid, pc, obj, cur, out, upsets, lastRead,
                          waited>>
           /\ cmCache' = [cmCache EXCEPT ![name] = cms[name]]
<1>1. /\ cms[name] # Absent => cms[name].owner \in Pids
      /\ cmCache[name] # Absent => cmCache[name].owner \in Pids
  BY DEF OInv, StoreOK, Owned
<1>2. PICK p : /\ p = IF cms[name] # Absent THEN cms[name].owner ELSE cmCache[name].owner
               /\ Add(p)
  BY DEF DeliverConfigMap
<1>3. p \in Pids
  BY <1>1, <1>2 DEF DeliverConfigMap
<1> QED
  BY <1>2, <1>3 DEF DeliverConfigMap, resourceVars, workerVars, observedVars

(* Every step leaves the worker where its copy justifies it to be. *)
LEMMA WorkerStep ==
    ASSUME OInv, [Next]_vars
    PROVE  PcOK' /\ WorkerOK'
<1>0. PcOK /\ WorkerOK
  BY DEF OInv
<1>1. ASSUME UNCHANGED workerVars PROVE PcOK' /\ WorkerOK'
  BY <1>0, <1>1 DEF workerVars, PcOK, WorkerOK, AtStage, Unstarted
<1>2. ASSUME NEW later, Done(later) PROVE Idle
  BY <1>2 DEF Done, Idle
<1>3. ASSUME AtStage("Pending"), pid \in Pids, UNCHANGED <<pid, obj, cur>>,
             \/ pc' \in {"runAgent", "failStage"} /\ out' \in Outputs \cup {NoOutput}
             \/ pc' \in {"completeStage", "recoverStage"} /\ out' \in Outputs
      PROVE  PcOK' /\ WorkerOK'
  <2>1. AtStage("Pending")'
    BY <1>3 DEF AtStage
  <2>2. PcOK'
    BY <1>3, <2>1 DEF PcOK
  <2>3. pid # NoPid
    BY <1>3, OperatorAssumption
  <2> QED
    BY <1>0, <1>3, <2>2, <2>3 DEF WorkerOK, PCs, WritePCs
<1>4. ASSUME pc \in {"startStage", "runAgent"} PROVE AtStage("Pending") /\ pid \in Pids
  BY <1>0, <1>4 DEF PcOK, WorkerOK
<1>5. CASE \E p \in Pids : \/ UserCreates(p) \/ UserTouches(p) \/ UserDeletes(p)
                           \/ TimerFires(p) \/ Deliver(p)
  BY <1>1, <1>5 DEF UserCreates, UserTouches, UserDeletes, UserWrites, TimerFires, Deliver
<1>14. CASE \E name \in FullNames : DeliverConfigMap(name)
  BY <1>1, <1>14 DEF DeliverConfigMap
<1>6. CASE CollectGarbage
  BY <1>1, <1>6 DEF CollectGarbage
<1>7. CASE Reconcile
  <2> DEFINE p == Head(queue)
  <2>1. p \in Pids /\ (Enters(p) \/ UNCHANGED workerVars)
    BY <1>7, ReconcileTakes
  <2> HIDE DEF p
  <2>2. CASE Enters(p)
    <3>1. PcOK' /\ pc' \in PCs \ {"idle"} /\ cur' \in Nat /\ pid' = p /\ out' = out
      BY <2>1, <2>2, EnterJustified DEF Enters
    <3> QED
      BY <1>0, <2>1, <3>1, OperatorAssumption DEF WorkerOK
  <2> QED
    BY <1>1, <2>1, <2>2
<1>8. CASE startStage
  <2>1. AtStage("Pending") /\ pid \in Pids
    BY <1>4, <1>8 DEF startStage
  <2>2. \/ pc' = "recoverStage" /\ out' = cmCache[Target].out /\ cmCache[Target] # Absent
        \/ pc' = "runAgent" /\ out' = NoOutput
        \/ pc' = "failStage" /\ out' = out
    BY <1>8 DEF startStage, RunAgent
  <2>3. UNCHANGED <<pid, obj, cur>>
    BY <1>8 DEF startStage
  <2> QED
    BY <1>0, <1>3, <2>1, <2>2, <2>3, TargetTyped DEF WorkerOK, Owned
<1>9. CASE AgentCompletes
  <2>1. AtStage("Pending") /\ pid \in Pids
    BY <1>4, <1>9 DEF AgentCompletes
  <2>2. out' \in Outputs
    BY <1>9, <2>1, OperatorAssumption DEF AgentCompletes
  <2> QED
    BY <1>3, <1>9, <2>1, <2>2 DEF AgentCompletes
<1>10. CASE AgentFails
  <2>1. AtStage("Pending") /\ pid \in Pids
    BY <1>4, <1>10 DEF AgentFails
  <2> QED
    BY <1>0, <1>3, <1>10, <2>1 DEF AgentFails, WorkerOK
<1>11. CASE WriteBack \/ WriteRefused \/ WriteFails \/ StoreRefused
  <2>1. \E later : Done(later)
    BY <1>11, Zenon DEF WriteBack, WriteRefused, WriteFails, StoreRefused
  <2> QED
    BY <1>2, <2>1, IdleJustified
<1>12. CASE Restart
  BY <1>12, IdleJustified DEF Restart, Idle
<1>13. CASE UNCHANGED vars
  BY <1>1, <1>13 DEF vars
<1> QED
  BY <1>5, <1>6, <1>7, <1>8, <1>9, <1>10, <1>11, <1>12, <1>13, <1>14
     DEF Next, Worker, AgentAnswers

(* Every ConfigMap belongs to a pipeline and holds an answer of an agent. *)
LEMMA StoreStep ==
    ASSUME OInv, [Next]_vars
    PROVE  StoreOK'
<1>0. StoreOK /\ PcOK /\ WorkerOK
  BY DEF OInv
<1>1. ASSUME \A n \in FullNames : Owned(cms'[n]) /\ Owned(cmCache'[n]),
             cms' \in [FullNames -> ConfigMaps], cmCache' \in [FullNames -> ConfigMaps]
      PROVE  StoreOK'
  BY <1>1 DEF StoreOK, Owned
<1>2. ASSUME UNCHANGED configMapVars PROVE StoreOK'
  BY <1>0, <1>1, <1>2 DEF configMapVars, StoreOK
<1>3. CASE CollectGarbage
  <2>1. PICK name \in FullNames : cms' = [cms EXCEPT ![name] = Absent]
    BY <1>3 DEF CollectGarbage
  <2>2. Owned(Absent) /\ cmCache' = cmCache
    BY <1>3 DEF Absent, ConfigMaps, Owned, CollectGarbage
  <2> QED
    BY <1>0, <1>1, <2>1, <2>2 DEF StoreOK, Owned
<1>4. CASE AgentCompletes
  <2>1. AtStage("Pending") /\ pid \in Pids
    BY <1>0, <1>4 DEF AgentCompletes, PcOK, WorkerOK
  <2>2. Target \in FullNames /\ Owned(cms[Target]) /\ cmCache' = cmCache
    BY <1>4, <2>1, TargetTyped DEF AgentCompletes
  <2>3. PICK output \in Answers[pid] :
          cms' = cms \/ cms' = [cms EXCEPT ![Target] = NewConfigMap(output)]
    BY <1>4 DEF AgentCompletes
  <2>4. output \in Outputs
    BY <2>1, <2>3, OperatorAssumption
  <2>5. Owned(NewConfigMap(output))
    BY <2>1, <2>2, <2>4 DEF ConfigMaps, Owned, NewConfigMap
  <2> HIDE DEF NewConfigMap
  <2> QED
    BY <1>0, <1>1, <2>2, <2>3, <2>5 DEF StoreOK, Owned
<1>5. CASE Restart
  BY <1>0, <1>1, <1>5 DEF Restart, StoreOK
<1>6. CASE \E p \in Pids : \/ UserCreates(p) \/ UserTouches(p) \/ UserDeletes(p)
                           \/ TimerFires(p) \/ Deliver(p)
  BY <1>2, <1>6 DEF UserCreates, UserTouches, UserDeletes, UserWrites, TimerFires, Deliver
<1>7. CASE \E name \in FullNames : DeliverConfigMap(name)
  BY <1>0, <1>1, <1>7, ConfigMapEvent DEF StoreOK, Owned
<1>8. CASE \/ Reconcile \/ startStage \/ AgentFails \/ StoreRefused
           \/ WriteBack \/ WriteRefused \/ WriteFails
  BY <1>2, <1>8 DEF Reconcile, startStage, AgentFails, StoreRefused, WriteBack, WriteRefused,
     WriteFails
<1>9. CASE UNCHANGED vars
  BY <1>2, <1>9 DEF vars
<1> QED
  BY <1>3, <1>4, <1>5, <1>6, <1>7, <1>8, <1>9 DEF Next, Worker, AgentAnswers
--------------------------------------------------------------------------------
(* The resources. *)

(* The operators of the lifecycle's instance are those of the operator. *)
LEMMA SameOperators ==
    ASSUME NEW p, NEW o, NEW i, NEW w, NEW spec
    PROVE  /\ Life(p)!Written(o) = Written(o) /\ Life(p)!Removed(o) = Removed(o)
           /\ Life(p)!Created(o, spec) = Created(o, spec)
           /\ Life(p)!AddFinalizer(o) = AddFinalizer(o)
           /\ Life(p)!StartPipeline(o) = StartPipeline(o)
           /\ Life(p)!CompletePipeline(o) = CompletePipeline(o)
           /\ Life(p)!FailPipeline(o) = FailPipeline(o)
           /\ Life(p)!CompleteStage(o, i, w) = CompleteStage(o, i, w)
           /\ Life(p)!RecoverStage(o, i, w) = RecoverStage(o, i, w)
           /\ Life(p)!FailStage(o, i) = FailStage(o, i)
           /\ Life(p)!RetryStage(o, i) = RetryStage(o, i)
<1>1. Life(p)!NoPipeline = NoPipeline
  BY DEF Life!NoPipeline, NoPipeline, Life!EmptySpec, EmptySpec, Life!NoPolicy, NoPolicy,
     Life!NoName, NoName
<1>2. /\ Life(p)!Written(o) = Written(o) /\ Life(p)!Removed(o) = Removed(o)
      /\ Life(p)!Created(o, spec) = Created(o, spec)
  BY <1>1 DEF Life!Written, Written, Life!Removed, Removed, Life!Created, Created
<1>3. /\ Life(p)!AddFinalizer(o) = AddFinalizer(o)
      /\ Life(p)!StartPipeline(o) = StartPipeline(o)
  BY DEF Life!AddFinalizer, AddFinalizer, Life!StartPipeline, StartPipeline,
     Life!InitStageStatuses, InitStageStatuses, Life!NoOutput, NoOutput, Life!NoRef, NoRef
<1>4. /\ Life(p)!CompletePipeline(o) = CompletePipeline(o)
      /\ Life(p)!FailPipeline(o) = FailPipeline(o)
  BY DEF Life!CompletePipeline, CompletePipeline, Life!FailPipeline, FailPipeline,
     Life!NoName, NoName
<1>5. Life(p)!CompletedStatus(o, i, w) = CompletedStatus(o, i, w)
  BY DEF Life!CompletedStatus, CompletedStatus, Life!truncateOutput, truncateOutput,
     Life!outputConfigMapName, outputConfigMapName
<1>6. /\ Life(p)!CompleteStage(o, i, w) = CompleteStage(o, i, w)
      /\ Life(p)!RecoverStage(o, i, w) = RecoverStage(o, i, w)
  BY <1>5 DEF Life!CompleteStage, CompleteStage, Life!RecoverStage, RecoverStage,
     Life!WithStage, WithStage, Life!Executing, Executing
<1>7. /\ Life(p)!FailStage(o, i) = FailStage(o, i)
      /\ Life(p)!RetryStage(o, i) = RetryStage(o, i)
  BY DEF Life!FailStage, FailStage, Life!RetryStage, RetryStage, Life!WithStage, WithStage,
     Life!Executing, Executing, Life!FailedStatus, FailedStatus, Life!RetriedStatus,
     RetriedStatus
<1> QED
  BY <1>2, <1>3, <1>4, <1>6, <1>7

(* So are its conditions. *)
LEMMA SameConditions ==
    ASSUME NEW p, NEW o, NEW i
    PROVE  /\ Life(p)!FindCurrentStage(o, i) <=> FindCurrentStage(o, i)
           /\ Life(p)!AreDependenciesMet(o, i) <=> AreDependenciesMet(o, i)
           /\ Life(p)!AllFinished(o) <=> AllFinished(o)
           /\ Life(p)!GetEffectiveRetryPolicy(o, i) = GetEffectiveRetryPolicy(o, i)
<1>1. Life(p)!FindCurrentStage(o, i) <=> FindCurrentStage(o, i)
  BY DEF Life!FindCurrentStage, FindCurrentStage, Life!Finished, Finished
<1>2. Life(p)!AreDependenciesMet(o, i) <=> AreDependenciesMet(o, i)
  BY DEF Life!AreDependenciesMet, AreDependenciesMet
<1>3. Life(p)!AllFinished(o) <=> AllFinished(o)
  BY DEF Life!AllFinished, AllFinished, Life!Finished, Finished
<1>4. Life(p)!GetEffectiveRetryPolicy(o, i) = GetEffectiveRetryPolicy(o, i)
  BY DEF Life!GetEffectiveRetryPolicy, GetEffectiveRetryPolicy, Life!NoPolicy, NoPolicy
<1> QED
  BY <1>1, <1>2, <1>3, <1>4

(* An accepted write of the worker is a step of that pipeline's lifecycle. *)
LEMMA WriteIsLifecycleStep ==
    ASSUME OInv, pc \in WritePCs, WriteAccepted, NEW p, p = pid, api'[p] = Outcome
    PROVE  Life(p)!LifecycleNext
<1>1. PcOK /\ p \in Pids /\ obj = api[p] /\ obj.live
  BY AcceptedIsCurrent DEF OInv
<1>2. ASSUME NEW phase, AtStage(phase)
      PROVE  /\ cur \in DOMAIN api[p].stages /\ Life(p)!Eligible(cur)
             /\ api[p].stages[cur].phase = phase
  BY <1>1, <1>2, SameConditions DEF AtStage, Life!Eligible, Life!Active, FindCurrentStage
<1>3. CASE pc = "addFinalizer"
  <2>1. api'[p] = Written(AddFinalizer(api[p]))
    BY <1>1, <1>3 DEF Outcome
  <2>2. ~api[p].deleting /\ api[p].phase \in {"", "Pending"} /\ ~api[p].finalizer
    BY <1>1, <1>3 DEF PcOK, Unstarted
  <2>3. Life(p)!Written(Life(p)!AddFinalizer(api[p])) = Written(AddFinalizer(api[p]))
    BY SameOperators
  <2>4. Life(p)!TakeOwnership
    BY <1>1, <2>1, <2>2, <2>3 DEF Life!TakeOwnership, Life!Active
  <2> QED
    BY <2>4 DEF Life!LifecycleNext
<1>4. CASE pc = "removeFinalizer"
  <2>1. Life(p)!Release
    BY <1>1, <1>4, SameOperators DEF Outcome, PcOK, Life!Release
  <2> QED
    BY <2>1 DEF Life!LifecycleNext
<1>5. CASE pc = "startPipeline"
  <2>1. Life(p)!Start
    BY <1>1, <1>5, SameOperators DEF Outcome, PcOK, Unstarted, Life!Start, Life!Active
  <2> QED
    BY <2>1 DEF Life!LifecycleNext
<1>6. CASE pc = "completePipeline"
  <2>1. Life(p)!Finish
    BY <1>1, <1>6, SameOperators, SameConditions DEF Outcome, PcOK, Life!Finish, Life!Active
  <2> QED
    BY <2>1 DEF Life!LifecycleNext
<1>7. CASE pc = "failPipeline"
  <2>1. api'[p] = Written(FailPipeline(api[p]))
    BY <1>1, <1>7 DEF Outcome
  <2>2. CASE Unstarted /\ obj.finalizer /\ obj.spec.stages = <<>>
    <3>1. Life(p)!RejectEmpty
      BY <1>1, <2>1, <2>2, SameOperators DEF Unstarted, Life!RejectEmpty, Life!Active
    <3> QED
      BY <3>1 DEF Life!LifecycleNext
  <2>3. CASE /\ AtStage("Failed")
             /\ obj.stages[cur].retries >= GetEffectiveRetryPolicy(obj, cur)
    <3>1. cur \in DOMAIN api[p].stages /\ Life(p)!GiveUp(cur)
      BY <1>1, <1>2, <2>1, <2>3, SameOperators, SameConditions DEF Life!GiveUp
    <3> QED
      BY <3>1 DEF Life!LifecycleNext
  <2> QED
    BY <1>1, <1>7, <2>2, <2>3 DEF PcOK
<1>8. CASE pc \in {"completeStage", "recoverStage"}
  <2>1. AtStage("Pending") /\ out \in Outputs
    BY <1>1, <1>8 DEF PcOK
  <2>2. api'[p] \in {Written(CompleteStage(api[p], cur, out)),
                       Written(RecoverStage(api[p], cur, out))}
    BY <1>1, <1>8 DEF Outcome
  <2>3. cur \in DOMAIN api[p].stages /\ Life(p)!StageCompletes(cur, out)
    BY <1>2, <2>1, <2>2, SameOperators DEF Life!StageCompletes
  <2> QED
    BY <2>1, <2>3 DEF Life!LifecycleNext
<1>9. CASE pc = "failStage"
  <2>1. AtStage("Pending") /\ api'[p] = Written(FailStage(api[p], cur))
    BY <1>1, <1>9 DEF PcOK, Outcome
  <2>2. cur \in DOMAIN api[p].stages /\ Life(p)!StageFails(cur)
    BY <1>2, <2>1, SameOperators DEF Life!StageFails
  <2> QED
    BY <2>2 DEF Life!LifecycleNext
<1>10. CASE pc = "retryStage"
  <2>1. /\ AtStage("Failed") /\ api'[p] = Written(RetryStage(api[p], cur))
        /\ obj.stages[cur].retries < GetEffectiveRetryPolicy(obj, cur)
    BY <1>1, <1>10 DEF PcOK, Outcome
  <2>2. cur \in DOMAIN api[p].stages /\ Life(p)!Retry(cur)
    BY <1>1, <1>2, <2>1, SameOperators, SameConditions DEF Life!Retry
  <2> QED
    BY <2>2 DEF Life!LifecycleNext
<1> QED
  BY <1>3, <1>4, <1>5, <1>6, <1>7, <1>8, <1>9, <1>10 DEF WritePCs

(* The two kinds of steps, seen from the resources: one resource is written,    *)
(* which follows its lifecycle, or none is.                                      *)
Writes(p) ==
    /\ api' = [api EXCEPT ![p] = api'[p]] /\ cache' = cache
    /\ api'[p] \in Pipelines /\ Known(api'[p]) /\ api'[p].rv = api[p].rv + 1
    /\ api[p].uid # 0 => api'[p].uid # 0 /\ (api'[p].live => api[p].live)
    /\ UNCHANGED <<pid, obj>> \/ Idle
    /\ Life(p)!LifecycleNext

Quiet ==
    /\ api' = api /\ cache' \in [Pids -> Pipelines]
    /\ \A p \in Pids : cache'[p] \in {cache[p], api[p]}
    /\ \/ UNCHANGED <<pid, obj>> \/ Idle
       \/ cache' = cache /\ pid' \in Pids /\ obj' = cache[pid']

LEMMA UserStep ==
    ASSUME OInv, NEW p \in Pids, UserCreates(p) \/ UserTouches(p) \/ UserDeletes(p)
    PROVE  Writes(p)
<1>0. api \in [Pids -> Pipelines] /\ api[p] \in Pipelines /\ Known(api[p])
  BY DEF OInv, ResourcesOK
<1>1. ASSUME NEW new, UserWrites(p, new)
      PROVE  /\ api' = [api EXCEPT ![p] = new] /\ api'[p] = new
             /\ cache' = cache /\ UNCHANGED <<pid, obj>>
  BY <1>0, <1>1 DEF UserWrites, workerVars
<1>2. CASE UserCreates(p)
  <2>1. api[p].uid = 0 /\ UserWrites(p, Created(api[p], SpecOf[p]))
    BY <1>2 DEF UserCreates
  <2>2. SpecOf[p] \in Specs /\ ~api[p].live
    BY <1>0, <2>1, OperatorAssumption DEF Known
  <2>3. Life(p)!Create(SpecOf[p])
    BY <1>1, <2>1, <2>2, SameOperators DEF Life!Create
  <2>4. Life(p)!LifecycleNext
    BY <2>2, <2>3 DEF Life!LifecycleNext
  <2> QED
    BY <1>0, <1>1, <2>1, <2>2, <2>4, CreatedKnown DEF Writes
<1>3. ASSUME NEW n \in Pipelines, api[p].live, n.live, n.uid = api[p].uid, n.rv = api[p].rv,
             n.spec = api[p].spec, n.stages = api[p].stages,
             UserWrites(p, Written(n)), Life(p)!LifecycleNext
      PROVE  Writes(p)
  <2>1. \A i \in DOMAIN n.stages : /\ i \in DOMAIN api[p].spec.stages
                                   /\ n.stages[i].name = api[p].spec.stages[i].name
    BY <1>0, <1>3 DEF Known
  <2>2. /\ Written(n) \in Pipelines /\ Known(Written(n))
        /\ Written(n).rv = api[p].rv + 1 /\ Written(n).uid = api[p].uid
    BY <1>0, <1>3, <2>1, WrittenKnown
  <2> QED
    BY <1>1, <1>3, <2>2 DEF Writes
<1>4. CASE UserTouches(p)
  <2>1. api[p].live /\ UserWrites(p, Written(api[p]))
    BY <1>4 DEF UserTouches
  <2>2. api[p].spec \in Specs /\ [api[p] EXCEPT !.spec = api[p].spec] = api[p]
    BY <1>0, <2>1 DEF Known, Pipelines
  <2>3. Life(p)!Edit(api[p].spec)
    BY <1>1, <2>1, <2>2, SameOperators DEF Life!Edit
  <2>4. Life(p)!LifecycleNext
    BY <2>2, <2>3 DEF Life!LifecycleNext
  <2> QED
    BY <1>0, <1>3, <2>1, <2>4
<1>5. CASE UserDeletes(p)
  <2> DEFINE n == [api[p] EXCEPT !.deleting = TRUE]
  <2>1. /\ api[p].live /\ ~api[p].deleting
        /\ UserWrites(p, IF api[p].finalizer THEN Written(n) ELSE Removed(api[p]))
    BY <1>5 DEF UserDeletes
  <2>2. Life(p)!Delete
    BY <1>1, <2>1, SameOperators DEF Life!Delete
  <2>3. Life(p)!LifecycleNext
    BY <2>2 DEF Life!LifecycleNext
  <2>4. /\ n \in Pipelines /\ n.live = api[p].live /\ n.uid = api[p].uid /\ n.rv = api[p].rv
        /\ n.spec = api[p].spec /\ n.stages = api[p].stages
    BY <1>0 DEF Pipelines
  <2> HIDE DEF n
  <2>5. CASE api[p].finalizer
    BY <1>3, <2>1, <2>3, <2>4, <2>5
  <2>6. CASE ~api[p].finalizer
    BY <1>0, <1>1, <2>1, <2>3, <2>6, RemovedKnown DEF Writes
  <2> QED
    BY <2>5, <2>6
<1> QED
  BY <1>2, <1>4, <1>5

LEMMA WriteBackStep ==
    ASSUME OInv, WriteBack
    PROVE  \E p \in Pids : /\ p = pid /\ obj = api[p] /\ api'[p] = Outcome
                          /\ Writes(p) /\ Idle
<1>1. pc \in WritePCs /\ WriteAccepted /\ Idle /\ cache' = cache
  BY DEF WriteBack, Done, Idle
<1>2. pid \in Pids /\ obj = api[pid] /\ obj.live
  BY <1>1, AcceptedIsCurrent
<1>3. api' = [api EXCEPT ![pid] = Outcome] /\ api'[pid] = Outcome
  BY <1>2 DEF WriteBack, OInv, ResourcesOK
<1>4. WellWritten(Outcome)
  BY <1>1, OutcomeKnown
<1>5. ASSUME NEW p, p = pid PROVE Writes(p)
  <2>1. Life(p)!LifecycleNext
    BY <1>1, <1>3, <1>5, WriteIsLifecycleStep
  <2> QED
    BY <1>1, <1>2, <1>3, <1>4, <1>5, <2>1 DEF Writes, WellWritten
<1> QED
  BY <1>1, <1>2, <1>3, <1>5

(* Every step is of one of these two kinds. *)
LEMMA ApiStep ==
    ASSUME OInv, [Next]_vars
    PROVE  (\E p \in Pids : Writes(p)) \/ Quiet
<1>0. api \in [Pids -> Pipelines] /\ cache \in [Pids -> Pipelines]
  BY DEF OInv, ResourcesOK
<1>1. ASSUME UNCHANGED resourceVars,
             \/ UNCHANGED <<pid, obj>> \/ Idle
             \/ pid' \in Pids /\ obj' = cache[pid']
      PROVE  Quiet
  BY <1>0, <1>1 DEF Quiet, resourceVars
<1>2. ASSUME NEW later, Done(later) PROVE Idle
  BY <1>2 DEF Done, Idle
<1>3. CASE \E p \in Pids : UserCreates(p) \/ UserTouches(p) \/ UserDeletes(p)
  BY <1>3, UserStep
<1>4. CASE WriteBack
  BY <1>4, WriteBackStep
<1>5. CASE \E p \in Pids : Deliver(p)
  BY <1>0, <1>5 DEF Deliver, Quiet, workerVars
<1>6. CASE Restart
  BY <1>0, <1>6 DEF Restart, Quiet, Idle
<1>7. CASE (\E p \in Pids : TimerFires(p)) \/ (\E n \in FullNames : DeliverConfigMap(n))
  BY <1>1, <1>7 DEF TimerFires, DeliverConfigMap, workerVars
<1>8. CASE CollectGarbage \/ startStage \/ AgentCompletes \/ AgentFails
  BY <1>1, <1>8 DEF CollectGarbage, startStage, AgentCompletes, AgentFails, workerVars
<1>9. CASE Reconcile
  BY <1>1, <1>9, ReconcileTakes DEF Enters, workerVars
<1>10. CASE WriteRefused \/ WriteFails \/ StoreRefused
  BY <1>1, <1>2, <1>10 DEF WriteRefused, WriteFails, StoreRefused
<1>11. CASE UNCHANGED vars
  BY <1>1, <1>11 DEF vars, workerVars
<1> QED
  BY <1>3, <1>4, <1>5, <1>6, <1>7, <1>8, <1>9, <1>10, <1>11 DEF Next, Worker, AgentAnswers

(* Version numbers go on identifying versions. *)
LEMMA ResourcesStep ==
    ASSUME OInv, [Next]_vars
    PROVE  ResourcesOK'
<1>0. ResourcesOK /\ \A p \in Pids : api[p].rv \in Nat /\ cache[p].rv \in Nat
  BY DEF OInv, ResourcesOK, Pipelines
<1>1. NoPipeline \in Pipelines /\ NoPid \notin Pids /\ obj.rv \in Nat
  BY NoPipelineTyped, OperatorAssumption DEF OInv, ResourcesOK, Pipelines
<1>2. ASSUME NEW p \in Pids, Writes(p) PROVE ResourcesOK'
  <2>1. api' \in [Pids -> Pipelines] /\ cache' \in [Pids -> Pipelines] /\ obj' \in Pipelines
    BY <1>0, <1>1, <1>2 DEF ResourcesOK, Writes, Idle
  <2>2. \A q \in Pids : q # p => api'[q] = api[q]
    BY <1>0, <1>2 DEF ResourcesOK, Writes
  <2>3. ASSUME NEW v \in Pipelines, IsCopy(v, api[p]) PROVE IsCopy(v, api'[p])
    <3>1. v.rv \in Nat /\ v.rv <= api[p].rv /\ api'[p].rv = api[p].rv + 1 /\ api[p].rv \in Nat
      BY <1>0, <1>2, <2>3 DEF Writes, IsCopy, Pipelines
    <3> QED
      BY <3>1 DEF IsCopy
  <2>4. \A q \in Pids : Known(api'[q]) /\ Known(cache'[q]) /\ IsCopy(cache'[q], api'[q])
    BY <1>0, <1>2, <2>2, <2>3 DEF ResourcesOK, Writes
  <2>5. pid' \in Pids => Known(obj') /\ IsCopy(obj', api'[pid'])
    BY <1>0, <1>1, <1>2, <2>2, <2>3 DEF ResourcesOK, Writes, Idle
  <2> QED
    BY <2>1, <2>4, <2>5 DEF ResourcesOK, Known, IsCopy
<1>3. CASE Quiet
  <2>1. api' \in [Pids -> Pipelines] /\ cache' \in [Pids -> Pipelines] /\ obj' \in Pipelines
    BY <1>0, <1>1, <1>3 DEF ResourcesOK, Quiet, Idle
  <2>2. \A q \in Pids : IsCopy(api[q], api[q])
    BY <1>0 DEF IsCopy
  <2>3. \A q \in Pids : Known(api'[q]) /\ Known(cache'[q]) /\ IsCopy(cache'[q], api'[q])
    BY <1>0, <1>3, <2>2 DEF ResourcesOK, Quiet
  <2>4. pid' \in Pids => Known(obj') /\ IsCopy(obj', api'[pid'])
    BY <1>0, <1>1, <1>3 DEF ResourcesOK, Quiet, Idle
  <2> QED
    BY <2>1, <2>3, <2>4 DEF ResourcesOK, Known, IsCopy
<1> QED
  BY <1>2, <1>3, ApiStep
--------------------------------------------------------------------------------
(* The work queue. *)

LEMMA AppendQueue ==
    ASSUME NEW q \in Seq(Pids), IsInjective(q), NEW p \in Pids, p \notin Range(q)
    PROVE  /\ Append(q, p) \in Seq(Pids) /\ IsInjective(Append(q, p))
           /\ Range(Append(q, p)) = Range(q) \cup {p}
<1> DEFINE a == Append(q, p)
<1>1. /\ a \in Seq(Pids) /\ Len(a) = Len(q) + 1 /\ a[Len(q) + 1] = p
      /\ \A i \in 1..Len(q) : a[i] = q[i]
  BY AppendProperties
<1>2. /\ DOMAIN q = 1..Len(q) /\ Len(q) \in Nat /\ DOMAIN a = 1..(Len(q) + 1)
  BY <1>1, LenProperties
<1> HIDE DEF a
<1>3. \A i \in DOMAIN q : i \in DOMAIN a /\ a[i] = q[i] /\ q[i] # p
  BY <1>1, <1>2 DEF Range
<1>4. \A i \in DOMAIN a : i \in DOMAIN q \/ (i = Len(q) + 1 /\ a[i] = p)
  BY <1>1, <1>2
<1>5. IsInjective(a)
  BY <1>3, <1>4 DEF IsInjective
<1>6. Len(q) + 1 \in DOMAIN a
  BY <1>2
<1>7. Range(a) = Range(q) \cup {p}
  BY <1>1, <1>3, <1>4, <1>6 DEF Range
<1> QED
  BY <1>1, <1>5, <1>7 DEF a

LEMMA TailQueue ==
    ASSUME NEW q \in Seq(Pids), IsInjective(q), q # <<>>
    PROVE  /\ Head(q) \in Range(q) /\ Tail(q) \in Seq(Pids) /\ IsInjective(Tail(q))
           /\ Range(Tail(q)) = Range(q) \ {Head(q)}
<1> DEFINE t == Tail(q)
<1>1. /\ t \in Seq(Pids) /\ Len(t) = Len(q) - 1 /\ \A i \in 1..Len(t) : t[i] = q[i + 1]
      /\ Head(q) = q[1]
  BY HeadTailProperties
<1>2. DOMAIN q = 1..Len(q) /\ Len(q) \in Nat /\ DOMAIN t = 1..(Len(q) - 1) /\ Len(q) # 0
  BY <1>1, LenProperties, EmptySeq
<1> HIDE DEF t
<1>3. \A i \in DOMAIN t : i + 1 \in DOMAIN q /\ i + 1 # 1 /\ t[i] = q[i + 1] /\ i \in Nat
  BY <1>1, <1>2
<1>4. 1 \in DOMAIN q /\ \A k \in DOMAIN q : k # 1 => k - 1 \in DOMAIN t /\ t[k - 1] = q[k]
  BY <1>1, <1>2
<1>5. IsInjective(t)
  <2> SUFFICES ASSUME NEW i \in DOMAIN t, NEW j \in DOMAIN t, t[i] = t[j] PROVE i = j
    BY DEF IsInjective
  <2>1. i + 1 = j + 1
    BY <1>3 DEF IsInjective
  <2> QED
    BY <1>3, <2>1
<1>6. ASSUME NEW i \in DOMAIN t PROVE t[i] \in Range(q) \ {Head(q)}
  BY <1>1, <1>3, <1>4 DEF Range, IsInjective
<1>7. ASSUME NEW k \in DOMAIN q, q[k] # Head(q) PROVE q[k] \in Range(t)
  BY <1>1, <1>4, <1>7 DEF Range
<1>8. Range(t) = Range(q) \ {Head(q)} /\ Head(q) \in Range(q)
  <2>1. Head(q) \in Range(q)
    BY <1>1, <1>4 DEF Range
  <2>2. Range(t) \subseteq Range(q) \ {Head(q)}
    BY <1>6 DEF Range
  <2>3. ASSUME NEW x \in Range(q) \ {Head(q)} PROVE x \in Range(t)
    <3>1. PICK k \in DOMAIN q : x = q[k]
      BY DEF Range
    <3> QED
      BY <1>7, <3>1
  <2> QED
    BY <2>1, <2>2, <2>3
<1> QED
  BY <1>1, <1>5, <1>8 DEF t

(* A restart lists every resource once. *)
LEMMA ListedQueue ==
    ASSUME NEW S \in SUBSET Pids, NEW q \in SetToSeqs(S)
    PROVE  q \in Seq(Pids) /\ IsInjective(q) /\ Range(q) = S
<1> DEFINE D == 1..Cardinality(S)
<1>1. IsFiniteSet(S) /\ Cardinality(S) \in Nat
  BY OperatorAssumption, FS_Subset, FS_CardinalityType
<1>2. q \in [D -> S] /\ \A i, j \in D : i # j => q[i] # q[j]
  BY DEF SetToSeqs
<1>3. IsInjective(q)
  BY <1>2 DEF IsInjective
<1>4. q \in Injection(D, S)
  BY <1>2, <1>3 DEF Injection
<1>5. Cardinality(D) = Cardinality(S)
  BY <1>1, FS_Interval
<1>6. q \in Surjection(D, S)
  <2> HIDE DEF D
  <2> QED
    BY <1>1, <1>4, <1>5, FS_Injection
<1>7. Range(q) = S
  <2> HIDE DEF D
  <2> QED
    BY <1>2, <1>6 DEF Surjection, Range
<1>8. q \in Seq(Pids)
  BY <1>1, <1>2, SeqDef
<1> QED
  BY <1>3, <1>7, <1>8

(* Adding a pipeline keeps the queue free of duplicates. *)
LEMMA AddKeepsQueue ==
    ASSUME QueueOK, NEW p \in Pids, Add(p), pid' = pid, delayed' \subseteq Pids
    PROVE  QueueOK'
<1>1. CASE p \in dirty \/ p = pid
  <2>1. queue' = queue /\ dirty' = dirty \cup {p}
    BY <1>1 DEF Add
  <2>2. dirty' \ {pid'} = dirty \ {pid}
    BY <1>1, <2>1
  <2> QED
    BY <2>1, <2>2 DEF QueueOK
<1>2. CASE ~(p \in dirty \/ p = pid)
  <2>1. queue' = Append(queue, p) /\ dirty' = dirty \cup {p}
    BY <1>2 DEF Add
  <2>2. p \notin Range(queue)
    BY <1>2 DEF QueueOK
  <2>3. /\ queue' \in Seq(Pids) /\ IsInjective(queue')
        /\ Range(queue') = Range(queue) \cup {p}
    BY <2>1, <2>2, AppendQueue DEF QueueOK
  <2>4. dirty' \ {pid'} = (dirty \ {pid}) \cup {p}
    BY <1>2, <2>1
  <2>5. dirty' \subseteq Pids
    BY <2>1 DEF QueueOK
  <2> QED
    BY <2>3, <2>4, <2>5 DEF QueueOK
<1> QED
  BY <1>1, <1>2

(* So does the end of a reconcile. *)
LEMMA DoneKeepsQueue ==
    ASSUME QueueOK, pid \in Pids, NEW later \in SUBSET Pids, Done(later)
    PROVE  QueueOK'
<1>1. /\ dirty' = dirty /\ pid' = NoPid /\ delayed' \subseteq Pids
      /\ queue' = IF pid \in dirty THEN Append(queue, pid) ELSE queue
  BY DEF Done, QueueOK
<1>2. dirty' \ {pid'} = dirty /\ dirty \subseteq Pids
  BY <1>1, OperatorAssumption DEF QueueOK
<1>3. CASE pid \in dirty
  <2>1. pid \notin Range(queue)
    BY DEF QueueOK
  <2>2. /\ queue' \in Seq(Pids) /\ IsInjective(queue')
        /\ Range(queue') = Range(queue) \cup {pid}
    BY <1>1, <1>3, <2>1, AppendQueue DEF QueueOK
  <2>3. Range(queue) \cup {pid} = dirty
    BY <1>3 DEF QueueOK
  <2> QED
    BY <1>1, <1>2, <2>2, <2>3 DEF QueueOK
<1>4. CASE pid \notin dirty
  <2>1. queue' = queue /\ Range(queue) = dirty
    BY <1>1, <1>4 DEF QueueOK
  <2> QED
    BY <1>1, <1>2, <2>1 DEF QueueOK
<1> QED
  BY <1>3, <1>4

LEMMA RequeuesTyped ==
    ASSUME pid \in Pids, NEW later \in Requeues
    PROVE  later \subseteq Pids
BY DEF Requeues

(* A pipeline is in the queue once, and what is dirty is queued or in work. *)
LEMMA QueueStep ==
    ASSUME OInv, [Next]_vars
    PROVE  QueueOK'
<1>0. QueueOK /\ WorkerOK
  BY DEF OInv
<1>1. ASSUME UNCHANGED queueVars, pid' = pid PROVE QueueOK'
  BY <1>0, <1>1 DEF QueueOK, queueVars
<1>2. CASE \/ \E p \in Pids : TimerFires(p) \/ Deliver(p)
           \/ \E n \in FullNames : DeliverConfigMap(n)
  <2>1. PICK p \in Pids : Add(p)
    BY <1>2, ConfigMapEvent DEF TimerFires, Deliver
  <2>2. Add(p) /\ pid' = pid /\ delayed' \subseteq delayed
    BY <1>2, <2>1 DEF TimerFires, Deliver, DeliverConfigMap, workerVars
  <2>3. delayed' \subseteq Pids
    BY <1>0, <2>2 DEF QueueOK
  <2> QED
    BY <1>0, <2>2, <2>3, AddKeepsQueue
<1>3. CASE \E p \in Pids : UserCreates(p) \/ UserTouches(p) \/ UserDeletes(p)
  BY <1>1, <1>3 DEF UserCreates, UserTouches, UserDeletes, UserWrites, workerVars
<1>4. CASE CollectGarbage \/ startStage \/ AgentCompletes \/ AgentFails
  BY <1>1, <1>4 DEF CollectGarbage, startStage, AgentCompletes, AgentFails, workerVars
<1>5. CASE Reconcile
  <2> DEFINE p == Head(queue)
  <2>1. /\ p \in Pids /\ queue' = Tail(queue) /\ dirty' = dirty \ {p}
        /\ (pid' = p /\ UNCHANGED delayed)
              \/ (pid' = pid /\ delayed' \subseteq delayed \cup {p})
    BY <1>5, ReconcileTakes DEF Enters, workerVars
  <2>2. queue # <<>> /\ pid = NoPid
    BY <1>0, <1>5 DEF Reconcile, WorkerOK
  <2>3. /\ p \in Range(queue) /\ Tail(queue) \in Seq(Pids) /\ IsInjective(Tail(queue))
        /\ Range(Tail(queue)) = Range(queue) \ {p}
    BY <1>0, <2>2, TailQueue DEF QueueOK
  <2> HIDE DEF p
  <2>4. Range(queue) = dirty /\ dirty \subseteq Pids
    BY <1>0, <2>2, OperatorAssumption DEF QueueOK
  <2>5. dirty' \ {pid'} = dirty \ {p}
    BY <2>1, <2>2, <2>4, OperatorAssumption
  <2>6. delayed' \subseteq Pids
    BY <1>0, <2>1 DEF QueueOK
  <2> QED
    BY <2>1, <2>3, <2>4, <2>5, <2>6 DEF QueueOK
<1>6. ASSUME pc \in WritePCs \cup {"runAgent"} PROVE pid \in Pids
  BY <1>0, <1>6 DEF WorkerOK, WritePCs
<1>7. CASE WriteBack
  <2>1. pid \in Pids
    BY <1>6, <1>7 DEF WriteBack
  <2>2. PICK later \in Requeues : Done(later)
    BY <1>7 DEF WriteBack
  <2>3. later \in SUBSET Pids
    BY <2>1, RequeuesTyped
  <2> QED
    BY <1>0, <2>1, <2>2, <2>3, DoneKeepsQueue
<1>8. CASE WriteRefused \/ WriteFails \/ StoreRefused
  <2>1. pid \in Pids /\ Done({pid})
    BY <1>6, <1>8 DEF WriteRefused, WriteFails, StoreRefused
  <2>2. {pid} \in SUBSET Pids
    BY <2>1
  <2> QED
    BY <1>0, <2>1, <2>2, DoneKeepsQueue
<1>9. CASE Restart
  <2>1. /\ delayed' = {} /\ dirty' = Live /\ pid' = NoPid
        /\ \E q \in SetToSeqs(Live) : queue' = q
    BY <1>9 DEF Restart
  <2>2. Live \in SUBSET Pids
    BY DEF Live
  <2>3. queue' \in Seq(Pids) /\ IsInjective(queue') /\ Range(queue') = Live
    BY <2>1, <2>2, ListedQueue
  <2>4. dirty' \ {pid'} = Live
    BY <2>1, <2>2, OperatorAssumption
  <2> QED
    BY <2>1, <2>2, <2>3, <2>4 DEF QueueOK
<1>10. CASE UNCHANGED vars
  BY <1>1, <1>10 DEF vars, workerVars
<1> QED
  BY <1>2, <1>3, <1>4, <1>5, <1>7, <1>8, <1>9, <1>10 DEF Next, Worker, AgentAnswers

(* The bound and the observations keep their types. *)
LEMMA BoundsStep ==
    ASSUME OInv, [Next]_vars
    PROVE  BoundsOK'
<1>0. BoundsOK /\ ResourcesOK /\ MaxUpsets \in Nat
  BY OperatorAssumption DEF OInv
<1>1. ASSUME UNCHANGED <<upsets, observedVars>> PROVE BoundsOK'
  BY <1>0, <1>1 DEF BoundsOK, observedVars
<1>2. ASSUME Upset PROVE upsets' \in 0..MaxUpsets
  BY <1>0, <1>2 DEF Upset, BoundsOK
<1>5. CASE \/ \E p \in Pids : TimerFires(p) \/ Deliver(p)
           \/ \E n \in FullNames : DeliverConfigMap(n)
  BY <1>1, <1>5 DEF TimerFires, Deliver, DeliverConfigMap
<1>6. CASE \E p \in Pids : UserCreates(p)
  BY <1>1, <1>6 DEF UserCreates, UserWrites
<1>7. CASE \E p \in Pids : UserTouches(p) \/ UserDeletes(p)
  BY <1>0, <1>2, <1>7 DEF UserTouches, UserDeletes, UserWrites, observedVars, BoundsOK
<1>8. CASE CollectGarbage \/ AgentCompletes \/ AgentFails
  BY <1>1, <1>8 DEF CollectGarbage, AgentCompletes, AgentFails
<1>9. CASE Reconcile
  <2> DEFINE p == Head(queue)
  <2>1. /\ p \in Pids /\ lastRead' = [lastRead EXCEPT ![p] = cache[p].rv]
        /\ waited' = [waited EXCEPT ![p] = 0] /\ UNCHANGED upsets
    BY <1>9, ReconcileTakes
  <2> HIDE DEF p
  <2>2. cache[p].rv \in Nat
    BY <1>0, <2>1 DEF ResourcesOK, Pipelines
  <2> QED
    BY <1>0, <2>1, <2>2 DEF BoundsOK
<1>10. CASE startStage
  <2>1. waited' \in [Pids -> Nat]
    <3>1. CASE waited' = waited
      BY <1>0, <3>1 DEF BoundsOK
    <3>2. CASE waited' = [p \in Pids |-> IF p \in Range(queue) THEN waited[p] + 1
                                                               ELSE waited[p]]
      BY <1>0, <3>2 DEF BoundsOK
    <3> QED
      BY <1>10, <3>1, <3>2 DEF startStage, RunAgent
  <2> QED
    BY <1>0, <1>10, <2>1 DEF startStage, BoundsOK
<1>11. CASE WriteBack \/ WriteRefused \/ StoreRefused
  BY <1>1, <1>11 DEF WriteBack, WriteRefused, StoreRefused
<1>12. CASE WriteFails
  BY <1>0, <1>2, <1>12 DEF WriteFails, BoundsOK, observedVars
<1>13. CASE Restart
  BY <1>0, <1>2, <1>13 DEF Restart, BoundsOK
<1>14. CASE UNCHANGED vars
  BY <1>1, <1>14 DEF vars
<1> QED
  BY <1>5, <1>6, <1>7, <1>8, <1>9, <1>10, <1>11, <1>12, <1>13, <1>14
     DEF Next, Worker, AgentAnswers
--------------------------------------------------------------------------------
(* The operator starts in the invariant. *)
LEMMA OperatorInit == Init => OInv
<1> SUFFICES ASSUME Init PROVE OInv
  OBVIOUS
<1>1. NoPipeline \in Pipelines /\ NoPid \notin Pids /\ MaxUpsets \in Nat
  BY NoPipelineTyped, OperatorAssumption
<1>2. Known(NoPipeline) /\ IsCopy(NoPipeline, NoPipeline)
  BY DEF Known, IsCopy, NoPipeline
<1>3. api = [p \in Pids |-> NoPipeline] /\ cache = api /\ obj = NoPipeline /\ pid = NoPid
  BY DEF Init
<1>4. ResourcesOK
  BY <1>1, <1>2, <1>3 DEF ResourcesOK
<1>5. PcOK /\ WorkerOK
  BY DEF Init, PcOK, WorkerOK, PCs
<1>6. StoreOK
  <2>1. Owned(Absent)
    BY DEF Absent, ConfigMaps, Owned
  <2> QED
    BY <2>1 DEF Init, StoreOK, Owned
<1>7. QueueOK
  <2>1. <<>> \in Seq(Pids) /\ IsInjective(<<>>) /\ Range(<<>>) = {}
    BY EmptySeq, EmptyDomain DEF IsInjective, Range
  <2> QED
    BY <2>1 DEF Init, QueueOK
<1>8. BoundsOK
  BY <1>1 DEF Init, BoundsOK
<1> QED
  BY <1>4, <1>5, <1>6, <1>7, <1>8 DEF OInv

LEMMA OperatorStep == OInv /\ [Next]_vars => OInv'
BY ResourcesStep, WorkerStep, StoreStep, QueueStep, BoundsStep DEF OInv

(* The inductive invariant holds. *)
THEOREM OperatorInvariant == Spec => []OInv
BY OperatorInit, OperatorStep, PTL DEF Spec

(* Every variable of the operator keeps its type, and the work queue is well     *)
(* formed.                                                                       *)
THEOREM OperatorTyped == Spec => []TypeOK
<1>1. OInv => TypeOK
  BY DEF OInv, ResourcesOK, WorkerOK, StoreOK, QueueOK, BoundsOK, TypeOK
<1> QED
  BY <1>1, OperatorInvariant, PTL

(* However many pipelines share the worker, what happens to each is a step of   *)
(* its own lifecycle, on the resource as it stands.                              *)
THEOREM OperatorImplements == Spec => ImplementLifecycles
<1>1. Init => \A p \in Pids : Life(p)!LifecycleInit
  BY DEF Init, Life!LifecycleInit, Life!NoPipeline, NoPipeline, Life!EmptySpec, EmptySpec,
     Life!NoPolicy, NoPolicy, Life!NoName, NoName
<1>2. OInv /\ [Next]_vars => [\A p \in Pids : [Life(p)!LifecycleNext]_(api[p])]_api
  <2> SUFFICES ASSUME OInv, [Next]_vars, NEW p \in Pids
               PROVE  Life(p)!LifecycleNext \/ UNCHANGED api[p]
    OBVIOUS
  <2>1. api \in [Pids -> Pipelines]
    BY DEF OInv, ResourcesOK
  <2>2. CASE Quiet
    BY <2>2 DEF Quiet
  <2>3. ASSUME NEW q \in Pids, Writes(q) PROVE Life(p)!LifecycleNext \/ UNCHANGED api[p]
    <3>1. CASE p = q
      BY <2>3, <3>1 DEF Writes
    <3>2. CASE p # q
      BY <2>1, <2>3, <3>2 DEF Writes
    <3> QED
      BY <3>1, <3>2
  <2> QED
    BY <2>2, <2>3, ApiStep
<1> QED
  BY <1>1, <1>2, OperatorInvariant, PTL DEF Spec, ImplementLifecycles
--------------------------------------------------------------------------------
(* No change goes unreconciled. *)

(* Nothing but a reconcile takes a pipeline off the queue for good. *)
LEMMA DirtyKept ==
    ASSUME OInv, [Next]_vars, ~Reconcile, ~Restart
    PROVE  dirty \subseteq dirty' /\ lastRead' = lastRead
<1>1. ASSUME NEW p, Add(p) PROVE dirty \subseteq dirty'
  BY <1>1 DEF Add
<1>2. ASSUME NEW later, Done(later) PROVE dirty \subseteq dirty'
  BY <1>2 DEF Done
<1>3. CASE \/ \E p \in Pids : TimerFires(p) \/ Deliver(p)
           \/ \E n \in FullNames : DeliverConfigMap(n)
  BY <1>1, <1>3 DEF TimerFires, Deliver, DeliverConfigMap, observedVars
<1>4. CASE \E p \in Pids : UserCreates(p) \/ UserTouches(p) \/ UserDeletes(p)
  BY <1>4 DEF UserCreates, UserTouches, UserDeletes, UserWrites, queueVars, observedVars
<1>5. CASE CollectGarbage \/ startStage \/ AgentCompletes \/ AgentFails
  BY <1>5 DEF CollectGarbage, startStage, AgentCompletes, AgentFails, queueVars, observedVars
<1>6. CASE WriteBack \/ WriteRefused \/ WriteFails \/ StoreRefused
  BY <1>2, <1>6 DEF WriteBack, WriteRefused, WriteFails, StoreRefused, observedVars
<1>7. CASE UNCHANGED vars
  BY <1>7 DEF vars, queueVars, observedVars
<1> QED
  BY <1>3, <1>4, <1>5, <1>6, <1>7 DEF Next, Worker, AgentAnswers

(* A new version is news to the informer, and delivering it queues the pipeline. *)
LEMMA ChangesSeenStep == OInv /\ ChangesSeen /\ [Next]_vars => ChangesSeen'
<1> SUFFICES ASSUME OInv, ChangesSeen, [Next]_vars, NEW p \in Pids,
                    api'[p].live, lastRead'[p] # api'[p].rv, cache'[p] = api'[p]
             PROVE  p \in dirty'
  BY DEF ChangesSeen
<1>0. /\ api \in [Pids -> Pipelines] /\ cache \in [Pids -> Pipelines]
      /\ lastRead \in [Pids -> Nat] /\ api[p].rv \in Nat /\ cache[p].rv \in Nat
      /\ cache[p].rv <= api[p].rv
  BY DEF OInv, ResourcesOK, BoundsOK, Pipelines, IsCopy
<1>1. CASE Restart
  BY <1>1 DEF Restart, Live
<1>2. CASE Reconcile
  <2> DEFINE h == Head(queue)
  <2>1. /\ h \in Pids /\ dirty' = dirty \ {h} /\ api' = api /\ cache' = cache
        /\ lastRead' = [lastRead EXCEPT ![h] = cache[h].rv]
    BY <1>2, ReconcileTakes DEF resourceVars
  <2> HIDE DEF h
  <2>2. p # h
    BY <1>0, <2>1
  <2>3. lastRead[p] # api[p].rv /\ api[p].live /\ cache[p] = api[p]
    BY <1>0, <2>1, <2>2
  <2>4. p \in dirty
    BY <2>3 DEF ChangesSeen
  <2> QED
    BY <2>1, <2>2, <2>4
<1>3. CASE ~Restart /\ ~Reconcile
  <2>1. dirty \subseteq dirty' /\ lastRead' = lastRead
    BY <1>3, DirtyKept
  <2>2. CASE cache[p] = api[p] /\ api'[p] = api[p]
    BY <2>1, <2>2 DEF ChangesSeen
  <2>3. CASE \E q \in Pids : Writes(q)
    <3>1. PICK q \in Pids : Writes(q)
      BY <2>3
    <3>2. CASE p = q
      <4>1. api'[p].rv = api[p].rv + 1 /\ cache'[p] = cache[p]
        BY <3>1, <3>2 DEF Writes
      <4> QED
        BY <1>0, <4>1
    <3>3. CASE p # q
      <4>1. api'[p] = api[p] /\ cache'[p] = cache[p]
        BY <1>0, <3>1, <3>3 DEF Writes
      <4> QED
        BY <2>2, <4>1
    <3> QED
      BY <3>2, <3>3
  <2>4. CASE Quiet /\ cache[p] # api[p]
    <3>1. cache'[p] # cache[p]
      BY <2>4 DEF Quiet
    <3>2. Deliver(p)
      <4>1. ASSUME cache' = cache PROVE FALSE
        BY <3>1, <4>1
      <4>2. CASE \E q \in Pids : UserCreates(q) \/ UserTouches(q) \/ UserDeletes(q)
        BY <4>1, <4>2 DEF UserCreates, UserTouches, UserDeletes, UserWrites
      <4>3. CASE (\E q \in Pids : TimerFires(q)) \/ (\E n \in FullNames : DeliverConfigMap(n))
        BY <4>1, <4>3 DEF TimerFires, DeliverConfigMap, resourceVars
      <4>4. CASE CollectGarbage \/ startStage \/ AgentCompletes \/ AgentFails
        BY <4>1, <4>4 DEF CollectGarbage, startStage, AgentCompletes, AgentFails, resourceVars
      <4>5. CASE WriteBack \/ WriteRefused \/ WriteFails \/ StoreRefused
        BY <4>1, <4>5 DEF WriteBack, WriteRefused, WriteFails, StoreRefused, resourceVars
      <4>6. CASE UNCHANGED vars
        BY <4>1, <4>6 DEF vars, resourceVars
      <4>7. ASSUME NEW q \in Pids, Deliver(q) PROVE Deliver(p)
        <5>1. p = q
          BY <1>0, <3>1, <4>7 DEF Deliver
        <5> QED
          BY <4>7, <5>1
      <4> QED
        BY <1>3, <4>2, <4>3, <4>4, <4>5, <4>6, <4>7 DEF Next, Worker, AgentAnswers
    <3> QED
      BY <3>2 DEF Deliver, Add
  <2> QED
    BY <2>2, <2>3, <2>4, ApiStep DEF Quiet
<1> QED
  BY <1>1, <1>2, <1>3

(* A version of a resource that no reconcile has read is on its way to the      *)
(* informer or in the queue, also when it appears while the pipeline is being     *)
(* reconciled.                                                                   *)
THEOREM OperatorChangesSeen == Spec => []ChangesSeen
<1>1. Init => ChangesSeen
  <2> SUFFICES ASSUME Init, NEW p \in Pids PROVE ~api[p].live
    BY DEF ChangesSeen
  <2>1. api[p] = NoPipeline
    BY DEF Init
  <2>2. NoPipeline.live = FALSE
    BY DEF NoPipeline
  <2>3. api[p].live = FALSE
    BY <2>1, <2>2
  <2> QED
    BY <2>3
<1> QED
  BY <1>1, ChangesSeenStep, OperatorInvariant, PTL DEF Spec
--------------------------------------------------------------------------------
(* Outputs stay apart. *)

(* No two pipelines may give the same name to a ConfigMap.  Nothing enforces    *)
(* this: name_collision shows what follows when it does not hold.                *)
NamesApart ==
    \A p, q \in Pids, m, n \in Names : FullName(p, m) = FullName(q, n) => p = q

(* What a store holds under a name of a pipeline is that pipeline's own. *)
Own(store) ==
    \A p \in Pids, n \in Names : store[FullName(p, n)] # Absent =>
        /\ store[FullName(p, n)].owner = p /\ store[FullName(p, n)].out \in Answers[p]
        /\ api[p].uid # 0

OwnersOK == Own(cms) /\ Own(cmCache)

(* What the informer has, the API server has, unless the pipeline is gone. *)
StoredOK ==
    \A p \in Pids, n \in Names :
        cmCache[FullName(p, n)] # Absent /\ api[p].live => cms[FullName(p, n)] # Absent

(* What the worker relies on between the store and the status: the output to    *)
(* report is an answer, and one is stored.                                       *)
HeldOK ==
    pc \in {"completeStage", "recoverStage"} =>
        /\ out \in Answers[pid]
        /\ api[pid].live => cms[Target] # Absent

(* The stores change in these ways only. *)
LEMMA StoreChanges ==
    ASSUME OInv, [Next]_vars, NEW name \in FullNames
    PROVE  /\ cmCache'[name] \in {cmCache[name], cms[name]}
           /\ \/ cms'[name] = cms[name]
              \/ /\ CollectGarbage /\ cms'[name] = Absent
                 /\ ~api[cms[name].owner].live
              \/ /\ AgentCompletes /\ name = Target /\ out' \in Answers[pid]
                 /\ cms'[name] = NewConfigMap(out')
<1>0. cms \in [FullNames -> ConfigMaps] /\ cmCache \in [FullNames -> ConfigMaps]
  BY DEF OInv, StoreOK
<1>1. CASE \E p \in Pids : \/ UserCreates(p) \/ UserTouches(p) \/ UserDeletes(p)
                           \/ TimerFires(p) \/ Deliver(p)
  BY <1>1 DEF UserCreates, UserTouches, UserDeletes, UserWrites, TimerFires, Deliver,
     configMapVars
<1>2. CASE \E n \in FullNames : DeliverConfigMap(n)
  BY <1>0, <1>2 DEF DeliverConfigMap
<1>3. CASE \/ Reconcile \/ startStage \/ AgentFails \/ StoreRefused
           \/ WriteBack \/ WriteRefused \/ WriteFails
  BY <1>3 DEF Reconcile, startStage, AgentFails, StoreRefused, WriteBack, WriteRefused,
     WriteFails, configMapVars
<1>4. CASE Restart \/ UNCHANGED vars
  BY <1>4 DEF Restart, vars, configMapVars
<1>5. CASE CollectGarbage
  BY <1>0, <1>5 DEF CollectGarbage
<1>6. CASE AgentCompletes
  <2>1. /\ cmCache' = cmCache /\ out' \in Answers[pid]
        /\ cms' = cms \/ cms' = [cms EXCEPT ![Target] = NewConfigMap(out')]
    BY <1>6 DEF AgentCompletes
  <2> QED
    BY <1>0, <1>6, <2>1
<1> QED
  BY <1>1, <1>2, <1>3, <1>4, <1>5, <1>6 DEF Next, Worker, AgentAnswers

(* A pipeline that was created once is not created again. *)
LEMMA GoneForGood ==
    ASSUME OInv, [Next]_vars, NEW p \in Pids, api[p].uid # 0
    PROVE  api'[p].uid # 0 /\ (api'[p].live => api[p].live)
<1>1. api \in [Pids -> Pipelines]
  BY DEF OInv, ResourcesOK
<1>2. CASE Quiet
  BY <1>2 DEF Quiet
<1>3. ASSUME NEW q \in Pids, Writes(q)
      PROVE  api'[p].uid # 0 /\ (api'[p].live => api[p].live)
  <2>1. CASE p = q
    BY <1>3, <2>1 DEF Writes
  <2>2. CASE p # q
    BY <1>1, <1>3, <2>2 DEF Writes
  <2> QED
    BY <2>1, <2>2
<1> QED
  BY <1>2, <1>3, ApiStep

(* The worker's pipeline was created. *)
LEMMA WorkerCreated ==
    ASSUME OInv, pid \in Pids, obj.live
    PROVE  api[pid].uid # 0
<1>1. Known(api[pid]) /\ Known(obj) /\ IsCopy(obj, api[pid]) /\ obj.rv \in Nat
  BY DEF OInv, ResourcesOK, Pipelines
<1> QED
  BY <1>1 DEF Known, IsCopy

(* The name of a ConfigMap tells the pipeline. *)
LEMMA TargetIs ==
    ASSUME NamesApart, OInv, AtStage("Pending"), pid \in Pids
    PROVE  /\ \E m \in Names : Target = FullName(pid, m)
           /\ \A p \in Pids, n \in Names : FullName(p, n) = Target => p = pid
BY TargetTyped DEF Target, NamesApart

(* The ConfigMap of an answer is the pipeline's own. *)
LEMMA NewIsOwn ==
    ASSUME NamesApart, OInv, OwnersOK, AgentCompletes
    PROVE  /\ pid \in Pids /\ AtStage("Pending") /\ api[pid].uid # 0
           /\ NewConfigMap(out') = [owner |-> pid, out |-> out']
<1>1. pid \in Pids /\ AtStage("Pending")
  BY DEF AgentCompletes, OInv, PcOK, WorkerOK
<1>2. api[pid].uid # 0
  BY <1>1, WorkerCreated DEF AtStage
<1>3. PICK m \in Names : Target = FullName(pid, m)
  BY <1>1, TargetIs
<1>4. cms[Target] # Absent => cms[Target].owner = pid
  BY <1>1, <1>3 DEF OwnersOK, Own
<1> QED
  BY <1>1, <1>2, <1>4 DEF NewConfigMap

(* The stores go on holding each pipeline's own. *)
LEMMA OwnersStep ==
    ASSUME NamesApart, OInv, OwnersOK, [Next]_vars
    PROVE  OwnersOK'
<1>1. ASSUME NEW p \in Pids, NEW n \in Names
      PROVE  /\ FullName(p, n) \in FullNames
             /\ api[p].uid # 0 => api'[p].uid # 0
  BY GoneForGood DEF FullNames
<1>2. ASSUME NEW p \in Pids, NEW n \in Names, cmCache'[FullName(p, n)] # Absent
      PROVE  /\ cmCache'[FullName(p, n)].owner = p /\ cmCache'[FullName(p, n)].out \in Answers[p]
             /\ api'[p].uid # 0
  BY <1>1, <1>2, StoreChanges DEF OwnersOK, Own
<1>3. ASSUME NEW p \in Pids, NEW n \in Names, cms'[FullName(p, n)] # Absent
      PROVE  /\ cms'[FullName(p, n)].owner = p /\ cms'[FullName(p, n)].out \in Answers[p]
             /\ api'[p].uid # 0
  <2>1. CASE cms'[FullName(p, n)] = cms[FullName(p, n)]
    BY <1>1, <1>3, <2>1 DEF OwnersOK, Own
  <2>2. CASE /\ AgentCompletes /\ FullName(p, n) = Target /\ out' \in Answers[pid]
             /\ cms'[FullName(p, n)] = NewConfigMap(out')
    <3>1. /\ pid \in Pids /\ AtStage("Pending") /\ api[pid].uid # 0
          /\ NewConfigMap(out') = [owner |-> pid, out |-> out']
      BY <2>2, NewIsOwn
    <3>2. p = pid
      BY <2>2, <3>1, TargetIs
    <3> QED
      BY <1>1, <2>2, <3>1, <3>2
  <2> QED
    BY <1>1, <1>3, <2>1, <2>2, StoreChanges
<1> QED
  BY <1>2, <1>3 DEF OwnersOK, Own, FullName

(* An output of a pipeline that is there stays in the API server. *)
LEMMA OutputStays ==
    ASSUME OInv, OwnersOK, [Next]_vars, NEW p \in Pids, NEW n \in Names,
           api'[p].live, cms[FullName(p, n)] # Absent
    PROVE  cms'[FullName(p, n)] # Absent
<1>1. api[p].uid # 0 /\ cms[FullName(p, n)].owner = p /\ FullName(p, n) \in FullNames
  BY DEF OwnersOK, Own, FullNames
<1>2. api[p].live
  BY <1>1, GoneForGood
<1>3. ASSUME AgentCompletes, FullName(p, n) = Target PROVE NewConfigMap(out') # Absent
  BY <1>1, <1>3, OperatorAssumption DEF NewConfigMap, Absent
<1> QED
  BY <1>1, <1>2, <1>3, StoreChanges

(* What the informer learns is in the API server. *)
LEMMA StoredStep ==
    ASSUME OInv, OwnersOK, StoredOK, [Next]_vars
    PROVE  StoredOK'
<1> SUFFICES ASSUME NEW p \in Pids, NEW n \in Names, cmCache'[FullName(p, n)] # Absent,
                    api'[p].live
             PROVE  cms'[FullName(p, n)] # Absent
  BY DEF StoredOK, FullName
<1>1. FullName(p, n) \in FullNames
  BY DEF FullNames
<1>2. cmCache'[FullName(p, n)] \in {cmCache[FullName(p, n)], cms[FullName(p, n)]}
  BY <1>1, StoreChanges
<1>3. cms[FullName(p, n)] # Absent
  <2>1. CASE cmCache[FullName(p, n)] # Absent
    <3>1. api[p].uid # 0
      BY <2>1 DEF OwnersOK, Own
    <3>2. api[p].live
      BY <3>1, GoneForGood
    <3> QED
      BY <2>1, <3>2 DEF StoredOK
  <2> QED
    BY <1>2, <2>1
<1> QED
  BY <1>3, OutputStays

(* The worker goes on holding an answer of its pipeline's agent. *)
LEMMA HeldStep ==
    ASSUME NamesApart, OInv, OwnersOK, StoredOK, HeldOK, [Next]_vars
    PROVE  HeldOK'
<1>0. PcOK /\ WorkerOK /\ NoPid \notin Pids
  BY OperatorAssumption DEF OInv
<1>1. ASSUME pc' \notin {"completeStage", "recoverStage"} PROVE HeldOK'
  BY <1>1 DEF HeldOK
<1>2. ASSUME NEW later, Done(later) PROVE HeldOK'
  BY <1>1, <1>2 DEF Done
<1>3. ASSUME pc \in {"startStage", "runAgent", "completeStage", "recoverStage"}
      PROVE  AtStage("Pending") /\ pid \in Pids /\ api[pid].uid # 0
  BY <1>0, <1>3, WorkerCreated DEF PcOK, WorkerOK, AtStage
<1>4. ASSUME AtStage("Pending"), pid \in Pids, UNCHANGED <<pid, obj, cur>>, out' \in Answers[pid],
             \/ api[pid].live => cms[Target] # Absent
             \/ cms'[Target] # Absent
      PROVE  HeldOK'
  <2>1. Target' = Target
    BY <1>4 DEF Target, FullName
  <2>2. PICK p \in Pids : p = pid
    BY <1>4
  <2>3. PICK m \in Names : Target = FullName(p, m)
    BY <1>4, <2>2, TargetIs
  <2>4. api[p].uid # 0
    BY <1>4, <2>2, WorkerCreated DEF AtStage
  <2>5. api'[p].live => cms'[Target] # Absent
    BY <1>4, <2>2, <2>3, <2>4, GoneForGood, OutputStays
  <2> QED
    BY <1>4, <2>1, <2>2, <2>5 DEF HeldOK
<1>5. ASSUME UNCHANGED workerVars PROVE HeldOK'
  <2>1. UNCHANGED <<pid, pc, obj, cur, out>>
    BY <1>5 DEF workerVars
  <2>2. CASE pc \in {"completeStage", "recoverStage"}
    BY <1>3, <1>4, <2>1, <2>2 DEF HeldOK
  <2> QED
    BY <1>1, <2>1, <2>2
<1>6. CASE \E p \in Pids : \/ UserCreates(p) \/ UserTouches(p) \/ UserDeletes(p)
                           \/ TimerFires(p) \/ Deliver(p)
  BY <1>5, <1>6 DEF UserCreates, UserTouches, UserDeletes, UserWrites, TimerFires, Deliver
<1>7. CASE CollectGarbage \/ \E n \in FullNames : DeliverConfigMap(n)
  BY <1>5, <1>7 DEF CollectGarbage, DeliverConfigMap
<1>8. CASE Reconcile
  <2> DEFINE h == Head(queue)
  <2>1. Enters(h) \/ UNCHANGED workerVars
    BY <1>8, ReconcileTakes
  <2> HIDE DEF h
  <2>2. ASSUME Enters(h) PROVE pc' \notin {"completeStage", "recoverStage"}
    BY <2>2 DEF Enters, ReconcileStep, StageStep
  <2> QED
    BY <1>1, <1>5, <2>1, <2>2
<1>9. ASSUME AtStage("Pending"), pid \in Pids, cmCache[Target] # Absent
      PROVE  /\ cmCache[Target].out \in Answers[pid]
             /\ api[pid].live => cms[Target] # Absent
  <2>1. PICK m \in Names : Target = FullName(pid, m)
    BY <1>9, TargetIs
  <2> QED
    BY <1>9, <2>1 DEF OwnersOK, Own, StoredOK
<1>10. CASE startStage
  <2>1. AtStage("Pending") /\ pid \in Pids /\ UNCHANGED <<pid, obj, cur>>
    BY <1>3, <1>10 DEF startStage
  <2>2. CASE cmCache[Target] # Absent
    <3>1. out' = cmCache[Target].out
      BY <1>10, <2>2 DEF startStage
    <3> QED
      BY <1>4, <1>9, <2>1, <2>2, <3>1
  <2>3. CASE cmCache[Target] = Absent
    BY <1>1, <1>10, <2>3 DEF startStage, RunAgent
  <2> QED
    BY <2>2, <2>3
<1>11. CASE AgentCompletes
  <2>1. /\ AtStage("Pending") /\ pid \in Pids /\ UNCHANGED <<pid, obj, cur>>
        /\ out' \in Answers[pid]
    BY <1>3, <1>11 DEF AgentCompletes
  <2>2. CASE ~StoreWrites(out')
    BY <1>4, <1>9, <2>1, <2>2 DEF StoreWrites
  <2>3. CASE cms' = [cms EXCEPT ![Target] = NewConfigMap(out')]
    <3>1. Target \in FullNames /\ cms \in [FullNames -> ConfigMaps]
      BY <2>1, TargetTyped DEF OInv, StoreOK
    <3>2. NewConfigMap(out') = [owner |-> pid, out |-> out']
      BY <1>11, NewIsOwn
    <3>3. [owner |-> pid, out |-> out'] # Absent
      BY <1>0, <2>1 DEF Absent
    <3>4. cms'[Target] # Absent
      BY <2>3, <3>1, <3>2, <3>3
    <3> QED
      BY <1>4, <2>1, <3>4
  <2> QED
    BY <1>11, <2>2, <2>3 DEF AgentCompletes
<1>12. CASE AgentFails
  BY <1>1, <1>12 DEF AgentFails
<1>13. CASE WriteBack \/ WriteRefused \/ WriteFails \/ StoreRefused
  BY <1>2, <1>13 DEF WriteBack, WriteRefused, WriteFails, StoreRefused
<1>14. CASE Restart
  BY <1>1, <1>14 DEF Restart
<1>15. CASE UNCHANGED vars
  BY <1>5, <1>15 DEF vars
<1> QED
  BY <1>6, <1>7, <1>8, <1>10, <1>11, <1>12, <1>13, <1>14, <1>15 DEF Next, Worker, AgentAnswers

(* A user does not change what a resource reports. *)
LEMMA UserKeepsStages ==
    ASSUME OInv, NEW p \in Pids, UserCreates(p) \/ UserTouches(p) \/ UserDeletes(p)
    PROVE  \/ api'[p].stages = <<>>
           \/ api'[p].stages = api[p].stages /\ api[p].live
<1>1. api \in [Pids -> Pipelines] /\ api[p] \in Pipelines
  BY DEF OInv, ResourcesOK
<1>2. CASE UserCreates(p)
  BY <1>1, <1>2 DEF UserCreates, UserWrites, Created, NoPipeline
<1>3. CASE UserTouches(p)
  BY <1>1, <1>3 DEF UserTouches, UserWrites, Written, Pipelines
<1>4. CASE UserDeletes(p)
  <2>1. api'[p] \in {Written([api[p] EXCEPT !.deleting = TRUE]), Removed(api[p])} /\ api[p].live
    BY <1>1, <1>4 DEF UserDeletes, UserWrites
  <2>2. Written([api[p] EXCEPT !.deleting = TRUE]).stages = api[p].stages
    BY <1>1 DEF Written, Pipelines
  <2>3. Removed(api[p]).stages = <<>>
    BY DEF Removed, NoPipeline
  <2> QED
    BY <2>1, <2>2, <2>3
<1> QED
  BY <1>2, <1>3, <1>4

(* A stage is Completed because it was before, or by the worker's write. *)
LEMMA StagesStep ==
    ASSUME OInv, [Next]_vars, NEW p \in Pids, NEW i \in DOMAIN api'[p].stages,
           api'[p].live, api'[p].stages[i].phase = "Completed"
    PROVE  \/ /\ api[p].live /\ i \in DOMAIN api[p].stages
              /\ api'[p].stages[i] = api[p].stages[i]
           \/ /\ p = pid /\ i = cur /\ AtStage("Pending") /\ api[p].live
              /\ pc \in {"completeStage", "recoverStage"}
              /\ api'[p].stages[i] = CompletedStatus(obj, cur, out)
<1>0. api \in [Pids -> Pipelines]
  BY DEF OInv, ResourcesOK
<1>1. CASE api'[p] = api[p]
  BY <1>1
<1>2. ASSUME NEW q \in Pids, UserCreates(q) \/ UserTouches(q) \/ UserDeletes(q)
      PROVE  \/ api'[p] = api[p]
             \/ /\ api[p].live /\ i \in DOMAIN api[p].stages
                /\ api'[p].stages[i] = api[p].stages[i]
  <2>1. Writes(q)
    BY <1>2, UserStep
  <2>2. CASE p = q
    <3>1. \/ api'[p].stages = <<>>
          \/ api'[p].stages = api[p].stages /\ api[p].live
      BY <1>2, <2>2, UserKeepsStages
    <3> QED
      BY <3>1, EmptyDomain
  <2>3. CASE p # q
    BY <1>0, <2>1, <2>3 DEF Writes
  <2> QED
    BY <2>2, <2>3
<1>3. CASE WriteBack
  <2>1. PICK q \in Pids : q = pid /\ obj = api[q] /\ api'[q] = Outcome /\ Writes(q)
    BY <1>3, WriteBackStep
  <2>2. CASE p = q
    <3>1. pc \in WritePCs /\ WriteAccepted
      BY <1>3 DEF WriteBack
    <3>2. Reports(api'[p])
      BY <2>1, <2>2, <3>1, OutcomeKnown DEF WellWritten
    <3>3. obj.live
      BY <3>1, AcceptedIsCurrent
    <3>4. pc \in {"completeStage", "recoverStage"} => AtStage("Pending")
      BY DEF OInv, PcOK
    <3> QED
      BY <2>1, <2>2, <3>1, <3>2, <3>3, <3>4 DEF Reports
  <2>3. CASE p # q
    BY <1>0, <1>1, <2>1, <2>3 DEF Writes
  <2> QED
    BY <2>2, <2>3
<1>4. CASE \/ \E q \in Pids : TimerFires(q) \/ Deliver(q)
           \/ \E n \in FullNames : DeliverConfigMap(n)
  BY <1>1, <1>4 DEF TimerFires, Deliver, DeliverConfigMap, resourceVars
<1>5. CASE CollectGarbage \/ Reconcile \/ startStage \/ AgentCompletes \/ AgentFails
  BY <1>1, <1>5 DEF CollectGarbage, Reconcile, startStage, AgentCompletes, AgentFails,
     resourceVars
<1>6. CASE WriteRefused \/ WriteFails \/ StoreRefused \/ Restart \/ UNCHANGED vars
  BY <1>1, <1>6 DEF WriteRefused, WriteFails, StoreRefused, Restart, vars, resourceVars
<1> QED
  BY <1>1, <1>2, <1>3, <1>4, <1>5, <1>6 DEF Next, Worker, AgentAnswers

LEMMA ApartStep ==
    ASSUME NamesApart, OInv, OwnersOK, HeldOK, OutputsApart, [Next]_vars
    PROVE  OutputsApart'
<1> SUFFICES ASSUME NEW p \in Pids, api'[p].live, NEW i \in DOMAIN api'[p].stages,
                    api'[p].stages[i].phase = "Completed"
             PROVE  LET cm == cms'[FullName(p, api'[p].stages[i].name)] IN
                    /\ cm.owner = p /\ cm.out \in Answers[p]
                    /\ \E output \in Answers[p] : api'[p].stages[i].out = truncateOutput(output)
  BY DEF OutputsApart, FullName, truncateOutput
<1>0. OwnersOK'
  BY OwnersStep
<1>1. ASSUME NEW n \in Names, cms[FullName(p, n)] # Absent
      PROVE  LET cm == cms'[FullName(p, n)] IN cm.owner = p /\ cm.out \in Answers[p]
  <2>1. cms'[FullName(p, n)] # Absent
    BY <1>1, OutputStays
  <2>2. \A q \in Pids, m \in Names : cms'[FullName(q, m)] # Absent =>
          cms'[FullName(q, m)].owner = q /\ cms'[FullName(q, m)].out \in Answers[q]
    BY <1>0 DEF OwnersOK, Own, FullName
  <2> QED
    BY <2>1, <2>2
<1>2. CASE /\ api[p].live /\ i \in DOMAIN api[p].stages
           /\ api'[p].stages[i] = api[p].stages[i]
  <2>1. api[p].stages[i].name \in Names
    <3>1. api[p].stages \in Seq(StageStatuses)
      BY DEF OInv, ResourcesOK, Pipelines
    <3>2. api[p].stages[i] \in StageStatuses
      BY <1>2, <3>1, ElementOfSeq, LenProperties
    <3> QED
      BY <3>2 DEF StageStatuses
  <2>2. /\ cms[FullName(p, api[p].stages[i].name)].owner = p
        /\ \E output \in Answers[p] : api[p].stages[i].out = truncateOutput(output)
    BY <1>2 DEF OutputsApart
  <2>3. cms[FullName(p, api[p].stages[i].name)] # Absent
    BY <2>2, OperatorAssumption DEF Absent
  <2> QED
    BY <1>1, <1>2, <2>1, <2>2, <2>3
<1>3. CASE /\ p = pid /\ i = cur /\ AtStage("Pending") /\ api[p].live
           /\ pc \in {"completeStage", "recoverStage"}
           /\ api'[p].stages[i] = CompletedStatus(obj, cur, out)
  <2>1. cms[Target] # Absent /\ out \in Answers[p]
    BY <1>3 DEF HeldOK
  <2>2. Known(obj) /\ obj.live /\ cur \in DOMAIN obj.stages
    BY <1>3 DEF OInv, ResourcesOK, AtStage, FindCurrentStage
  <2>3. obj.stages[cur] \in StageStatuses /\ obj.stages[cur].name = obj.spec.stages[cur].name
    <3>1. obj.stages \in Seq(StageStatuses)
      BY DEF OInv, ResourcesOK, Pipelines
    <3> QED
      BY <2>2, <3>1, ElementOfSeq, LenProperties DEF Known
  <2>4. /\ api'[p].stages[i].name = obj.spec.stages[cur].name
        /\ api'[p].stages[i].out = truncateOutput(out)
    BY <1>3, <2>3 DEF CompletedStatus, StageStatuses
  <2>5. Target = FullName(p, api'[p].stages[i].name) /\ api'[p].stages[i].name \in Names
    BY <1>3, <2>3, <2>4 DEF Target, StageStatuses
  <2> QED
    BY <1>1, <2>1, <2>4, <2>5
<1> QED
  BY <1>2, <1>3, StagesStep

(* If the names of pipelines and stages cannot be confused, a Completed stage   *)
(* shows what its own pipeline's agent answered, and the ConfigMap it refers to  *)
(* is there, is its own and holds an answer too, through deletions, restarts,    *)
(* conflicts, reruns and stale copies of pipelines and ConfigMaps.               *)
THEOREM OperatorOutputsApart == NamesApart => (Spec => []OutputsApart)
<1> DEFINE AInv == OwnersOK /\ StoredOK /\ HeldOK /\ OutputsApart
<1>1. Init => AInv
  <2> SUFFICES ASSUME Init PROVE AInv
    OBVIOUS
  <2>1. OwnersOK /\ StoredOK
    <3>1. \A p \in Pids, n \in Names : FullName(p, n) \in FullNames
      BY DEF FullNames
    <3>2. \A name \in FullNames : cms[name] = Absent /\ cmCache[name] = Absent
      BY DEF Init
    <3> QED
      BY <3>1, <3>2 DEF OwnersOK, Own, StoredOK
  <2>2. HeldOK
    BY DEF Init, HeldOK
  <2>3. OutputsApart
    <3> SUFFICES ASSUME NEW p \in Pids PROVE api[p].live = FALSE
      BY DEF OutputsApart
    <3>1. api[p] = NoPipeline
      BY DEF Init
    <3>2. NoPipeline.live = FALSE
      BY DEF NoPipeline
    <3> QED
      BY <3>1, <3>2
  <2> QED
    BY <2>1, <2>2, <2>3
<1>2. NamesApart /\ OInv /\ AInv /\ [Next]_vars => AInv'
  BY OwnersStep, StoredStep, HeldStep, ApartStep
<1>3. AInv => OutputsApart
  OBVIOUS
<1> HIDE DEF AInv
<1> SUFFICES ASSUME NamesApart PROVE Spec => []OutputsApart
  OBVIOUS
<1>4. OInv /\ AInv /\ [Next]_vars => AInv'
  BY <1>2
<1> QED
  BY <1>1, <1>3, <1>4, OperatorInvariant, PTL DEF Spec
--------------------------------------------------------------------------------
(* No pipeline waits for long. *)

(* An agent call that the worker's reconcile may still begin. *)
CallAhead == IF pc = "startStage" THEN 1 ELSE 0

(* The calls a pipeline has waited for, those before it in the queue and the    *)
(* one ahead are of different pipelines; one that is not queued has not waited.  *)
PlacesOK ==
    /\ \A k \in DOMAIN queue : waited[queue[k]] + k + CallAhead <= Cardinality(Pids)
    /\ \A p \in Pids : p \notin Range(queue) => waited[p] = 0

(* A queue without duplicates is no longer than the set it is drawn from. *)
LEMMA QueueFits ==
    ASSUME NEW q \in Seq(Pids), IsInjective(q), NEW S \in SUBSET Pids, Range(q) \subseteq S
    PROVE  Len(q) \in Nat /\ Cardinality(S) \in Nat /\ Len(q) <= Cardinality(S)
<1> DEFINE D == 1..Len(q)
<1>1. IsFiniteSet(S) /\ Cardinality(S) \in Nat
  BY OperatorAssumption, FS_Subset, FS_CardinalityType
<1>2. Len(q) \in Nat /\ DOMAIN q = D /\ q \in [D -> Pids]
  BY LenProperties
<1>3. q \in [D -> S]
  BY <1>2 DEF Range
<1>4. q \in Injection(D, S)
  BY <1>2, <1>3 DEF Injection, IsInjective
<1>5. Cardinality(D) = Len(q)
  BY <1>2, FS_Interval
<1>6. Cardinality(D) <= Cardinality(S)
  <2> HIDE DEF D
  <2> QED
    BY <1>1, <1>4, FS_Injection
<1> QED
  BY <1>1, <1>2, <1>5, <1>6

LEMMA PlacesInit == Init => PlacesOK
BY EmptyDomain DEF Init, PlacesOK

(* Whoever joins the queue has waited for nothing, and there is room. *)
LEMMA JoinKeepsPlaces ==
    ASSUME OInv, PlacesOK, NEW p \in Pids, p \notin Range(queue), NEW S \in SUBSET Pids,
           queue' = Append(queue, p), waited' = waited,
           Range(queue) \cup {p} \subseteq S, CallAhead' <= CallAhead, CallAhead' \in {0, 1},
           Cardinality(S) + CallAhead' <= Cardinality(Pids)
    PROVE  PlacesOK'
<1>1. queue \in Seq(Pids) /\ IsInjective(queue) /\ waited \in [Pids -> Nat]
  BY DEF OInv, QueueOK, BoundsOK
<1>2. /\ queue' \in Seq(Pids) /\ IsInjective(queue') /\ Range(queue') \subseteq S
  BY <1>1, AppendQueue
<1>3. Len(queue') <= Cardinality(S) /\ Cardinality(S) \in Nat
  BY <1>2, QueueFits
<1>4. /\ Len(queue') = Len(queue) + 1 /\ queue'[Len(queue) + 1] = p
      /\ \A i \in 1..Len(queue) : queue'[i] = queue[i]
      /\ DOMAIN queue' = 1..(Len(queue) + 1) /\ DOMAIN queue = 1..Len(queue)
      /\ Len(queue) \in Nat
  BY <1>1, <1>2, AppendProperties, LenProperties
<1>5. Cardinality(Pids) \in Nat /\ CallAhead \in {0, 1}
  BY OperatorAssumption, FS_CardinalityType DEF CallAhead
<1>8. Range(queue') = Range(queue) \cup {p}
  BY <1>1, AppendQueue
<1> SUFFICES ASSUME NEW k \in DOMAIN queue'
             PROVE  waited'[queue'[k]] + k + CallAhead' <= Cardinality(Pids)
  BY <1>8 DEF PlacesOK
<1>6. CASE k = Len(queue) + 1
  <2>1. waited'[queue'[k]] = 0
    BY <1>1, <1>4, <1>6 DEF PlacesOK
  <2> QED
    BY <1>3, <1>4, <1>5, <1>6, <2>1
<1>7. CASE k \in DOMAIN queue
  <2>1. queue[k] \in Pids /\ queue[k] # p /\ queue'[k] = queue[k] /\ k \in Nat
    BY <1>1, <1>4, <1>7, ElementOfSeq DEF Range
  <2>2. waited'[queue'[k]] = waited[queue[k]] /\ waited[queue[k]] \in Nat
    BY <1>1, <2>1
  <2>3. waited[queue[k]] + k + CallAhead <= Cardinality(Pids)
    BY <1>7 DEF PlacesOK
  <2> HIDE DEF CallAhead
  <2> QED
    BY <1>5, <2>1, <2>2, <2>3
<1> QED
  BY <1>4, <1>6, <1>7

LEMMA AddKeepsPlaces ==
    ASSUME OInv, PlacesOK, NEW p \in Pids, Add(p), UNCHANGED <<pid, pc>>, UNCHANGED waited
    PROVE  PlacesOK'
<1>1. CallAhead' = CallAhead /\ CallAhead \in {0, 1} /\ CallAhead' <= CallAhead
  BY DEF CallAhead
<1>2. CASE p \in dirty \/ p = pid
  BY <1>1, <1>2 DEF Add, PlacesOK
<1>3. CASE ~(p \in dirty \/ p = pid)
  <2> DEFINE S == Pids \ {pid}
  <2>1. p \notin Range(queue) /\ Range(queue) \cup {p} \subseteq S /\ S \in SUBSET Pids
    BY <1>3 DEF OInv, QueueOK
  <2>2. /\ Cardinality(S) = IF pid \in Pids THEN Cardinality(Pids) - 1 ELSE Cardinality(Pids)
        /\ Cardinality(Pids) \in Nat
    BY OperatorAssumption, FS_RemoveElement, FS_CardinalityType
  <2>3. CallAhead = 1 => pid \in Pids
    BY DEF CallAhead, OInv, WorkerOK
  <2> HIDE DEF S
  <2>4. Cardinality(S) + CallAhead' <= Cardinality(Pids)
    BY <1>1, <2>2, <2>3
  <2>5. queue' = Append(queue, p) /\ waited' = waited
    BY <1>3 DEF Add
  <2> QED
    BY <1>1, <2>1, <2>4, <2>5, JoinKeepsPlaces
<1> QED
  BY <1>2, <1>3

LEMMA DoneKeepsPlaces ==
    ASSUME OInv, PlacesOK, pid \in Pids, NEW later, Done(later), pc # "startStage",
           UNCHANGED waited
    PROVE  PlacesOK'
<1>1. CallAhead' = 0 /\ CallAhead = 0 /\ CallAhead' <= CallAhead /\ CallAhead' \in {0, 1}
  BY DEF Done, CallAhead
<1>2. CASE pid \notin dirty
  BY <1>1, <1>2 DEF Done, PlacesOK
<1>3. CASE pid \in dirty
  <2>1. queue' = Append(queue, pid) /\ waited' = waited
    BY <1>3 DEF Done
  <2>2. pid \notin Range(queue) /\ Range(queue) \cup {pid} \subseteq Pids
    BY DEF OInv, QueueOK
  <2>3. Cardinality(Pids) + CallAhead' <= Cardinality(Pids)
    BY <1>1, OperatorAssumption, FS_CardinalityType
  <2>4. Pids \in SUBSET Pids
    OBVIOUS
  <2>5. PICK p \in Pids : p = pid
    OBVIOUS
  <2>6. /\ queue' = Append(queue, p) /\ waited' = waited
        /\ p \notin Range(queue) /\ Range(queue) \cup {p} \subseteq Pids
    BY <2>1, <2>2, <2>5
  <2> QED
    BY <1>1, <2>3, <2>4, <2>6, JoinKeepsPlaces
<1> QED
  BY <1>2, <1>3

LEMMA PlacesStep == OInv /\ PlacesOK /\ [Next]_vars => PlacesOK'
<1> SUFFICES ASSUME OInv, PlacesOK, [Next]_vars PROVE PlacesOK'
  OBVIOUS
<1>0. /\ queue \in Seq(Pids) /\ IsInjective(queue) /\ waited \in [Pids -> Nat]
      /\ Cardinality(Pids) \in Nat
  BY OperatorAssumption, FS_CardinalityType DEF OInv, QueueOK, BoundsOK
<1>1. ASSUME UNCHANGED <<queue, waited, pc>> PROVE PlacesOK'
  BY <1>1 DEF PlacesOK, CallAhead
<1>2. CASE \E p \in Pids : TimerFires(p) \/ Deliver(p)
  BY <1>2, AddKeepsPlaces DEF TimerFires, Deliver, workerVars, observedVars
<1>11. CASE \E n \in FullNames : DeliverConfigMap(n)
  BY <1>11, ConfigMapEvent, AddKeepsPlaces
<1>3. CASE \E p \in Pids : UserCreates(p) \/ UserTouches(p) \/ UserDeletes(p)
  BY <1>1, <1>3 DEF UserCreates, UserTouches, UserDeletes, UserWrites, queueVars, workerVars,
     observedVars
<1>4. CASE CollectGarbage
  BY <1>1, <1>4 DEF CollectGarbage, queueVars, workerVars, observedVars
<1>5. CASE AgentCompletes \/ AgentFails
  BY <1>5 DEF AgentCompletes, AgentFails, queueVars, observedVars, PlacesOK, CallAhead
<1>6. CASE Reconcile
  <2>1. /\ queue # <<>> /\ pc = "idle" /\ queue' = Tail(queue) /\ Head(queue) \in Pids
        /\ waited' = [waited EXCEPT ![Head(queue)] = 0]
    BY <1>6, ReconcileTakes DEF Reconcile
  <2>7. Range(queue') = Range(queue) \ {Head(queue)}
    BY <1>0, <2>1, TailQueue
  <2>8. \A p \in Pids : p \notin Range(queue') => waited'[p] = 0
    BY <1>0, <2>1, <2>7 DEF PlacesOK
  <2>2. /\ DOMAIN queue = 1..Len(queue) /\ Len(queue) \in Nat
        /\ DOMAIN queue' = 1..(Len(queue) - 1)
        /\ \A k \in 1..(Len(queue) - 1) : queue'[k] = queue[k + 1]
    BY <1>0, <2>1, HeadTailProperties, LenProperties
  <2>3. CallAhead' \in {0, 1} /\ CallAhead = 0
    BY <2>1 DEF CallAhead
  <2> SUFFICES ASSUME NEW k \in DOMAIN queue'
               PROVE  waited'[queue'[k]] + k + CallAhead' <= Cardinality(Pids)
    BY <2>8 DEF PlacesOK
  <2>4. k \in Nat /\ k + 1 \in DOMAIN queue /\ queue'[k] = queue[k + 1]
    BY <2>2
  <2>5. waited[queue[k + 1]] + (k + 1) + CallAhead <= Cardinality(Pids)
    BY <2>4 DEF PlacesOK
  <2>6. waited[queue[k + 1]] \in Nat /\ waited'[queue'[k]] \in {0, waited[queue[k + 1]]}
    <3>1. queue[k + 1] \in Pids
      BY <1>0, <2>2, <2>4, ElementOfSeq
    <3> QED
      BY <1>0, <2>1, <2>4, <3>1
  <2>9. ASSUME NEW a \in Nat, NEW b, b \in {0, a}, NEW c \in {0, 1}, NEW d \in {0},
               NEW m \in Nat, a + (k + 1) + d <= m
        PROVE  b + k + c <= m
    BY <2>4, <2>9
  <2>10. Cardinality(Pids) \in Nat
    BY <1>0
  <2> QED
    BY <2>3, <2>5, <2>6, <2>9, <2>10
<1>7. CASE startStage
  <2>1. CallAhead' = 0 /\ CallAhead = 1 /\ queue' = queue
    BY <1>7 DEF startStage, RunAgent, CallAhead, queueVars
  <2>2. \/ waited' = waited
        \/ waited' = [p \in Pids |-> IF p \in Range(queue) THEN waited[p] + 1 ELSE waited[p]]
    BY <1>7 DEF startStage, RunAgent
  <2>6. \A p \in Pids : p \notin Range(queue) => waited'[p] = 0
    BY <2>2 DEF PlacesOK
  <2> SUFFICES ASSUME NEW k \in DOMAIN queue
               PROVE  waited'[queue[k]] + k + CallAhead' <= Cardinality(Pids)
    BY <2>1, <2>6 DEF PlacesOK
  <2>3. queue[k] \in Pids /\ k \in Nat
    BY <1>0, ElementOfSeq, LenProperties
  <2>4. waited'[queue[k]] \in {waited[queue[k]], waited[queue[k]] + 1}
    BY <2>2, <2>3
  <2>5. waited[queue[k]] + k + CallAhead <= Cardinality(Pids) /\ waited[queue[k]] \in Nat
    BY <1>0, <2>3 DEF PlacesOK
  <2> QED
    BY <1>0, <2>1, <2>3, <2>4, <2>5
<1>8. CASE WriteBack \/ WriteRefused \/ WriteFails \/ StoreRefused
  <2>1. pc \in WritePCs \cup {"runAgent"} /\ \E later : Done(later)
    BY <1>8, Zenon DEF WriteBack, WriteRefused, WriteFails, StoreRefused
  <2>2. pid \in Pids /\ pc # "startStage"
    BY <2>1 DEF OInv, WorkerOK, WritePCs
  <2>3. UNCHANGED waited
    BY <1>8 DEF WriteBack, WriteRefused, WriteFails, StoreRefused, observedVars
  <2> QED
    BY <2>1, <2>2, <2>3, DoneKeepsPlaces
<1>9. CASE Restart
  <2>1. CallAhead' = 0 /\ waited' = [p \in Pids |-> 0]
    BY <1>9 DEF Restart, CallAhead
  <2>2. queue' \in Seq(Pids) /\ IsInjective(queue') /\ Range(queue') \subseteq Pids
    BY <1>9, ListedQueue DEF Restart, Live
  <2>3. Len(queue') \in Nat /\ Len(queue') <= Cardinality(Pids)
    BY <2>2, QueueFits
  <2> SUFFICES ASSUME NEW k \in DOMAIN queue'
               PROVE  waited'[queue'[k]] + k + CallAhead' <= Cardinality(Pids)
    BY <2>1 DEF PlacesOK
  <2>4. k \in 1..Len(queue') /\ queue'[k] \in Pids
    BY <2>2, ElementOfSeq, LenProperties
  <2> QED
    BY <1>0, <2>1, <2>3, <2>4
<1>10. CASE UNCHANGED vars
  BY <1>1, <1>10 DEF vars, queueVars, workerVars, observedVars
<1> QED
  BY <1>2, <1>3, <1>4, <1>5, <1>6, <1>7, <1>8, <1>9, <1>10, <1>11
     DEF Next, Worker, AgentAnswers

(* Although an agent call blocks the only worker, a pipeline in the queue waits *)
(* for at most one call of each other pipeline, however many there are and       *)
(* whatever is added, requeued or restarted meanwhile.                           *)
THEOREM OperatorWaitBounded == Spec => []WaitBounded
<1>1. OInv /\ PlacesOK => WaitBounded
  <2> SUFFICES ASSUME OInv, PlacesOK, NEW p \in Range(queue)
               PROVE  waited[p] < Cardinality(Pids)
    BY DEF WaitBounded
  <2>1. PICK k \in DOMAIN queue : p = queue[k]
    BY DEF Range
  <2>2. /\ queue \in Seq(Pids) /\ waited \in [Pids -> Nat]
        /\ Cardinality(Pids) \in Nat /\ CallAhead \in {0, 1}
    BY OperatorAssumption, FS_CardinalityType DEF OInv, QueueOK, BoundsOK, CallAhead
  <2>3. k \in 1..Len(queue) /\ Len(queue) \in Nat /\ queue[k] \in Pids
    BY <2>1, <2>2, ElementOfSeq, LenProperties
  <2>4. waited[p] + k + CallAhead <= Cardinality(Pids) /\ waited[p] \in Nat
    BY <2>1, <2>2, <2>3 DEF PlacesOK
  <2> QED
    BY <2>2, <2>3, <2>4
<1> QED
  BY <1>1, PlacesInit, PlacesStep, OperatorInvariant, PTL DEF Spec

(* The words of names; "stage" is one, which the provers have to be told. *)
Vocabulary == STRING \cup {"stage"}

(* A naming rule that a cluster can keep: pipelines have different names, as     *)
(* the API server makes sure, and none has the word "stage" between its dashes.  *)
(* The names of stages are free.                                                 *)
PlainNames ==
    /\ \A name \in Pids \cup Names : Words[name] \in Seq(Vocabulary)
    /\ \A p \in Pids : \A i \in DOMAIN Words[p] : Words[p][i] # "stage"
    /\ \A p, q \in Pids : Words[p] = Words[q] => p = q

(* The pipeline's part of a ConfigMap's name, and the word after it. *)
LEMMA NameParts ==
    ASSUME NEW W, NEW stage \in W, NEW a \in Seq(W), NEW b \in Seq(W)
    PROVE  /\ (a \o <<stage>> \o b)[Len(a) + 1] = stage
           /\ \A i \in 1..Len(a) : (a \o <<stage>> \o b)[i] = a[i]
<1>0. <<stage>> \in Seq(W) /\ Len(<<stage>>) = 1 /\ <<stage>>[1] = stage
  OBVIOUS
<1>1. PICK w \in Seq(W) : w = <<stage>> /\ Len(w) = 1 /\ w[1] = stage
  BY <1>0
<1>2. Len(a) \in Nat /\ Len(b) \in Nat
  BY LenProperties
<1>3. PICK y \in Seq(W) : y = a \o w
  BY ConcatProperties
<1>4. Len(y) = Len(a) + 1 /\ \A i \in 1..Len(a) : y[i] = a[i]
  BY <1>1, <1>2, <1>3, ConcatProperties
<1>5. y[Len(a) + 1] = stage
  BY <1>1, <1>2, <1>3
<1>6. \A i \in 1..(Len(a) + 1) : (y \o b)[i] = y[i]
  BY <1>2, <1>4
<1>7. (y \o b)[Len(a) + 1] = stage /\ \A i \in 1..Len(a) : (y \o b)[i] = a[i]
  BY <1>2, <1>4, <1>5, <1>6
<1> QED
  BY <1>1, <1>3, <1>7

(* The first word "stage" of a ConfigMap's name is where the name of its         *)
(* pipeline ends.                                                                *)
LEMMA FirstStageWord ==
    ASSUME NEW W, NEW stage, NEW x, NEW a \in Seq(W), NEW c \in Seq(W),
           x[Len(a) + 1] = stage, \A i \in 1..Len(c) : x[i] = c[i],
           \A i \in DOMAIN c : c[i] # stage
    PROVE  Len(c) <= Len(a)
<1>1. Len(a) \in Nat /\ Len(c) \in Nat /\ DOMAIN c = 1..Len(c)
  BY LenProperties
<1> SUFFICES ASSUME Len(a) + 1 <= Len(c) PROVE FALSE
  BY <1>1
<1>2. Len(a) + 1 \in 1..Len(c)
  BY <1>1
<1> QED
  BY <1>1, <1>2

(* The rule keeps the names of ConfigMaps apart. *)
LEMMA PlainNamesApart == PlainNames => NamesApart
<1> SUFFICES ASSUME PlainNames, NEW p \in Pids, NEW q \in Pids,
                    NEW m \in Names, NEW n \in Names, FullName(p, m) = FullName(q, n)
             PROVE  p = q
  BY DEF NamesApart
<1>1. PICK a \in Seq(Vocabulary) : a = Words[p] /\ \A i \in DOMAIN a : a[i] # "stage"
  BY DEF PlainNames
<1>2. PICK c \in Seq(Vocabulary) : c = Words[q] /\ \A i \in DOMAIN c : c[i] # "stage"
  BY DEF PlainNames
<1>3. PICK b \in Seq(Vocabulary) : b = Words[m]
  BY DEF PlainNames
<1>4. PICK d \in Seq(Vocabulary) : d = Words[n]
  BY DEF PlainNames
<1>5. PICK x : x = a \o <<"stage">> \o b /\ x = c \o <<"stage">> \o d
  BY <1>1, <1>2, <1>3, <1>4 DEF FullName
<1>0. PICK stage \in Vocabulary : stage = "stage"
  BY DEF Vocabulary
<1>6. x[Len(a) + 1] = stage /\ \A i \in 1..Len(a) : x[i] = a[i]
  <2>1. /\ (a \o <<stage>> \o b)[Len(a) + 1] = stage
        /\ \A i \in 1..Len(a) : (a \o <<stage>> \o b)[i] = a[i]
    BY NameParts
  <2> QED
    BY <1>0, <1>5, <2>1
<1>7. x[Len(c) + 1] = stage /\ \A i \in 1..Len(c) : x[i] = c[i]
  <2>1. /\ (c \o <<stage>> \o d)[Len(c) + 1] = stage
        /\ \A i \in 1..Len(c) : (c \o <<stage>> \o d)[i] = c[i]
    BY NameParts
  <2> QED
    BY <1>0, <1>5, <2>1
<1>8. Len(a) = Len(c)
  <2>1. Len(c) <= Len(a)
    <3>1. \A i \in DOMAIN c : c[i] # stage
      BY <1>0, <1>2
    <3> QED
      BY <1>6, <1>7, <3>1, FirstStageWord
  <2>2. Len(a) <= Len(c)
    <3>1. \A i \in DOMAIN a : a[i] # stage
      BY <1>0, <1>1
    <3> QED
      BY <1>6, <1>7, <3>1, FirstStageWord
  <2> QED
    BY <2>1, <2>2, LenProperties
<1>9. a = c
  BY <1>6, <1>7, <1>8, SeqEqual
<1> QED
  BY <1>1, <1>2, <1>9 DEF PlainNames

(* Where no pipeline has the word "stage" in its name, the outputs of all        *)
(* pipelines stay apart, whatever their stages are called.                       *)
THEOREM OperatorPlainNames == PlainNames => (Spec => []OutputsApart)
BY PlainNamesApart, OperatorOutputsApart
================================================================================
