-------------------------- MODULE AgentPipelineProofs --------------------------
(* What the functions of the controller compute on one copy of a resource: the  *)
(* facts that the proofs of the lifecycle, of the reconciler and of the operator *)
(* rest on.                                                                      *)
EXTENDS AgentPipeline, SequenceTheorems, TLAPS

(* The output in the status never exceeds the limit, and is made of bytes the   *)
(* agent wrote and the ellipsis (truncateOutput).                                *)
LEMMA TruncateBounded ==
    ASSUME NEW w \in Seq(Bytes)
    PROVE  /\ truncateOutput(w) \in Seq(Bytes)
           /\ Len(truncateOutput(w)) <= MaxStatusOutputLen
<1>1. CASE Len(w) <= MaxStatusOutputLen
  BY <1>1 DEF truncateOutput
<1>2. CASE ~(Len(w) <= MaxStatusOutputLen)
  <2> DEFINE k == Len(w) - MaxStatusOutputLen + 3 + 1
             rest == SubSeq(w, k, Len(w))
  <2>1. Len(w) \in Nat /\ MaxStatusOutputLen \in Nat /\ MaxStatusOutputLen >= 3
    BY ConstantsAssumption, LenProperties
  <2>2. k \in 1..(Len(w) + 1)
    BY <1>2, <2>1
  <2>3. rest \in Seq(Bytes) /\ Len(rest) = MaxStatusOutputLen - 3
    BY <2>1, <2>2, <1>2, SubSeqProperties
  <2>4. /\ Ellipsis \o rest \in Seq(Bytes)
        /\ Len(Ellipsis \o rest) = Len(Ellipsis) + Len(rest)
    BY <2>3, ConstantsAssumption, ConcatProperties
  <2>5. truncateOutput(w) = Ellipsis \o rest
    BY <1>2 DEF truncateOutput
  <2> HIDE DEF rest, k
  <2>6. Len(Ellipsis) = 3
    BY ConstantsAssumption
  <2> QED
    BY <2>1, <2>3, <2>4, <2>5, <2>6
<1> QED
  BY <1>1, <1>2

(* truncateOutput's index arithmetic is right for every output and every limit  *)
(* of at least three: the status shows all of an output that fits and exactly   *)
(* the end of one that does not.                                                 *)
THEOREM TruncateAbbreviates ==
    ASSUME NEW w \in Seq(Bytes)
    PROVE  Abbreviates(truncateOutput(w), w)
<1>1. CASE Len(w) <= MaxStatusOutputLen
  BY <1>1 DEF truncateOutput, Abbreviates
<1>2. CASE ~(Len(w) <= MaxStatusOutputLen)
  <2> DEFINE k == Len(w) - MaxStatusOutputLen + 3 + 1
             rest == SubSeq(w, k, Len(w))
  <2>1. /\ Len(w) \in Nat /\ MaxStatusOutputLen \in Nat /\ MaxStatusOutputLen >= 3
        /\ Ellipsis \in Seq(Bytes) /\ Len(Ellipsis) = 3
    BY ConstantsAssumption, LenProperties
  <2>2. k \in 1..(Len(w) + 1)
    BY <1>2, <2>1
  <2>3. /\ rest \in Seq(Bytes) /\ Len(rest) = MaxStatusOutputLen - 3
        /\ \A j \in 1..(MaxStatusOutputLen - 3) : rest[j] = w[k + j - 1]
    BY <2>1, <2>2, <1>2, SubSeqProperties
  <2>4. truncateOutput(w) = Ellipsis \o rest
    BY <1>2 DEF truncateOutput
  <2>5. k = Len(w) - MaxStatusOutputLen + 4
    BY <2>1
  <2> HIDE DEF rest, k
  <2>6. /\ Len(Ellipsis \o rest) = MaxStatusOutputLen
        /\ \A j \in 1..MaxStatusOutputLen :
              (Ellipsis \o rest)[j] = IF j <= 3 THEN Ellipsis[j] ELSE rest[j - 3]
    <3>1. /\ Len(Ellipsis \o rest) = Len(Ellipsis) + Len(rest)
          /\ \A j \in 1..(Len(Ellipsis) + Len(rest)) :
                (Ellipsis \o rest)[j] =
                    IF j <= Len(Ellipsis) THEN Ellipsis[j] ELSE rest[j - Len(Ellipsis)]
      BY <2>1, <2>3, ConcatProperties, Zenon
    <3>2. Len(Ellipsis) + Len(rest) = MaxStatusOutputLen /\ Len(Ellipsis) = 3
      BY <2>1, <2>3
    <3> QED
      BY <3>1, <3>2, Zenon
  <2>7. \A j \in 1..3 : (Ellipsis \o rest)[j] = Ellipsis[j]
    BY <2>1, <2>6
  <2>8. ASSUME NEW j \in 4..MaxStatusOutputLen
        PROVE  (Ellipsis \o rest)[j] = w[j + Len(w) - MaxStatusOutputLen]
    <3>1. (Ellipsis \o rest)[j] = rest[j - 3] /\ j - 3 \in 1..(MaxStatusOutputLen - 3)
      BY <2>1, <2>6
    <3>2. k + (j - 3) - 1 = j + Len(w) - MaxStatusOutputLen
      BY <2>1, <2>5
    <3> QED
      BY <2>3, <3>1, <3>2
  <2> QED
    BY <1>2, <2>4, <2>6, <2>7, <2>8 DEF Abbreviates
<1> QED
  BY <1>1, <1>2

(* What replacing the status of one stage does to a resource. *)
LEMMA WithStageProperties ==
    ASSUME NEW o \in Pipelines, NEW i \in DOMAIN o.stages,
           NEW s \in StageStatuses
    PROVE  LET n == WithStage(o, i, s) IN
           /\ n \in Pipelines
           /\ DOMAIN n.stages = DOMAIN o.stages
           /\ Len(n.stages) = Len(o.stages)
           /\ \A j \in DOMAIN o.stages :
                 n.stages[j] = IF j = i THEN s ELSE o.stages[j]
           /\ n = [o EXCEPT !.stages = n.stages]
<1> DEFINE t == [o.stages EXCEPT ![i] = s]
<1>1. o.stages \in Seq(StageStatuses)
  BY DEF Pipelines
<1>2. DOMAIN o.stages = 1..Len(o.stages)
  BY <1>1, LenProperties
<1>3. /\ t \in Seq(StageStatuses) /\ Len(t) = Len(o.stages)
      /\ \A j \in 1..Len(o.stages) : t[j] = IF j = i THEN s ELSE o.stages[j]
  BY <1>1, <1>2, ExceptSeq
<1>4. DOMAIN t = 1..Len(o.stages)
  BY <1>3, LenProperties
<1>5. WithStage(o, i, s) = [o EXCEPT !.stages = t]
  BY DEF WithStage, Pipelines
<1> HIDE DEF t
<1>6. [o EXCEPT !.stages = t] \in Pipelines /\ [o EXCEPT !.stages = t].stages = t
  BY <1>3 DEF Pipelines
<1> QED
  BY <1>2, <1>3, <1>4, <1>5, <1>6

(* The statuses that completeStage, failStage and retryStage give a stage, and  *)
(* the copy with currentStage set, are well typed.                               *)
LEMMA StatusTypes ==
    ASSUME NEW o \in Pipelines, NEW i \in DOMAIN o.stages,
           i \in DOMAIN o.spec.stages
    PROVE  /\ \A w \in Seq(Bytes) :
                 /\ CompletedStatus(o, i, w) \in StageStatuses
                 /\ CompletedStatus(o, i, w).phase = "Completed"
                 /\ CompletedStatus(o, i, w).ref # NoRef
           /\ FailedStatus(o, i) \in StageStatuses
           /\ FailedStatus(o, i).phase = "Failed"
           /\ FailedStatus(o, i).ref = o.stages[i].ref
           /\ RetriedStatus(o, i) \in StageStatuses
           /\ RetriedStatus(o, i).phase = "Pending"
           /\ RetriedStatus(o, i).ref = o.stages[i].ref
           /\ Executing(o, i) \in Pipelines
           /\ Executing(o, i) = [o EXCEPT !.current = Executing(o, i).current]
           /\ Executing(o, i).stages = o.stages
<1>1. o.stages[i] \in StageStatuses
  BY ElementOfSeq, LenProperties DEF Pipelines
<1>2. o.spec.stages[i].name \in Names
  <2>1. o.spec.stages \in Seq(StageSpecs)
    BY DEF Pipelines, PipelineSpecs
  <2>2. o.spec.stages[i] \in StageSpecs
    BY <2>1, ElementOfSeq, LenProperties
  <2> QED
    BY <2>2 DEF StageSpecs
<1>3. /\ outputConfigMapName(o.spec.stages[i].name) \in ConfigMapNames
      /\ outputConfigMapName(o.spec.stages[i].name) # NoRef
  BY <1>2 DEF ConfigMapNames, outputConfigMapName, NoRef
<1>4. ASSUME NEW w \in Seq(Bytes)
      PROVE  /\ CompletedStatus(o, i, w) \in StageStatuses
             /\ CompletedStatus(o, i, w).phase = "Completed"
             /\ CompletedStatus(o, i, w).ref # NoRef
  <2>1. truncateOutput(w) \in Seq(Bytes)
    BY TruncateBounded
  <2> QED
    BY <1>1, <1>3, <2>1 DEF CompletedStatus, StageStatuses, StagePhases
<1>5. /\ FailedStatus(o, i) \in StageStatuses
      /\ FailedStatus(o, i).phase = "Failed"
      /\ FailedStatus(o, i).ref = o.stages[i].ref
  BY <1>1 DEF FailedStatus, StageStatuses, StagePhases
<1>6. /\ RetriedStatus(o, i) \in StageStatuses
      /\ RetriedStatus(o, i).phase = "Pending"
      /\ RetriedStatus(o, i).ref = o.stages[i].ref
  <2>1. o.stages[i].retries + 1 \in Nat
    BY <1>1 DEF StageStatuses
  <2>2. ASSUME NEW k \in Nat, NEW t, t = [o.stages[i] EXCEPT !.phase = "Pending", !.retries = k]
        PROVE  t \in StageStatuses /\ t.phase = "Pending" /\ t.ref = o.stages[i].ref
    BY <1>1, <2>2 DEF StageStatuses, StagePhases
  <2> QED
    BY <2>1, <2>2 DEF RetriedStatus
<1>7. /\ Executing(o, i) \in Pipelines
      /\ Executing(o, i) = [o EXCEPT !.current = Executing(o, i).current]
      /\ Executing(o, i).stages = o.stages
  BY <1>2 DEF Executing, Pipelines
<1> QED
  BY <1>4, <1>5, <1>6, <1>7

(* The statuses a new pipeline starts with. *)
LEMMA InitialStatuses ==
    ASSUME NEW spec \in PipelineSpecs
    PROVE  /\ InitStageStatuses(spec) \in Seq(StageStatuses)
           /\ \A i \in DOMAIN InitStageStatuses(spec) :
                 Pristine(InitStageStatuses(spec)[i])
<1>1. spec.stages \in Seq(StageSpecs) /\ Len(spec.stages) \in Nat
  BY LenProperties DEF PipelineSpecs
<1>2. ASSUME NEW i \in 1..Len(spec.stages)
      PROVE  spec.stages[i].name \in Names
  <2>1. spec.stages[i] \in StageSpecs
    BY <1>1, ElementOfSeq
  <2> QED
    BY <2>1 DEF StageSpecs
<1>3. ASSUME NEW i \in 1..Len(spec.stages)
      PROVE  /\ InitStageStatuses(spec)[i] \in StageStatuses
             /\ Pristine(InitStageStatuses(spec)[i])
  <2>1. InitStageStatuses(spec)[i] =
          [name |-> spec.stages[i].name, phase |-> "Pending", retries |-> 0,
           out |-> NoOutput, ref |-> NoRef]
    BY DEF InitStageStatuses
  <2>2. NoOutput \in Seq(Bytes)
    BY EmptySeq DEF NoOutput
  <2> QED
    BY <1>2, <2>1, <2>2 DEF StageStatuses, StagePhases, Pristine
<1>4. InitStageStatuses(spec) \in [1..Len(spec.stages) -> StageStatuses]
  BY <1>3 DEF InitStageStatuses
<1>5. DOMAIN InitStageStatuses(spec) = 1..Len(spec.stages)
  BY DEF InitStageStatuses
<1>6. InitStageStatuses(spec) \in Seq(StageStatuses)
  BY <1>1, <1>4, SeqDef
<1> QED
  BY <1>3, <1>5, <1>6

(* Every operator the lifecycle writes with yields a resource. *)
LEMMA WriteTypes ==
    ASSUME NEW o \in Pipelines
    PROVE  /\ Written(o) \in Pipelines /\ Removed(o) \in Pipelines
           /\ \A spec \in Specs : /\ Created(o, spec) \in Pipelines
                                  /\ [o EXCEPT !.spec = spec] \in Pipelines
           /\ [o EXCEPT !.deleting = TRUE] \in Pipelines
           /\ AddFinalizer(o) \in Pipelines
           /\ CompletePipeline(o) \in Pipelines /\ FailPipeline(o) \in Pipelines
           /\ o.spec.stages # <<>> => StartPipeline(o) \in Pipelines
<1>1. NoPipeline \in Pipelines
  <2>1. EmptySpec \in PipelineSpecs
    BY EmptySeq DEF EmptySpec, PipelineSpecs, NoPolicy
  <2> QED
    BY <2>1, EmptySeq DEF NoPipeline, Pipelines, PipelinePhases
<1>0. o.rv + 1 \in Nat /\ o.uid + 1 \in Nat /\ o.uid \in Nat
  BY DEF Pipelines
<1>2. Written(o) \in Pipelines /\ AddFinalizer(o) \in Pipelines
  <2>1. ASSUME NEW k \in Nat PROVE [o EXCEPT !.rv = k] \in Pipelines
    BY DEF Pipelines
  <2>2. AddFinalizer(o) \in Pipelines
    BY DEF AddFinalizer, Pipelines
  <2> QED
    BY <1>0, <2>1, <2>2 DEF Written
<1>3. Removed(o) \in Pipelines
  <2>1. ASSUME NEW k \in Nat, NEW u \in Nat
        PROVE  [NoPipeline EXCEPT !.uid = u, !.rv = k] \in Pipelines
    BY <1>1 DEF Pipelines
  <2> QED
    BY <1>0, <2>1 DEF Removed
<1>4. ASSUME NEW spec \in Specs
      PROVE  Created(o, spec) \in Pipelines /\ [o EXCEPT !.spec = spec] \in Pipelines
  <2>1. spec \in PipelineSpecs
    BY ConstantsAssumption
  <2>2. ASSUME NEW k \in Nat, NEW u \in Nat
        PROVE  [NoPipeline EXCEPT !.live = TRUE, !.uid = u, !.rv = k,
                                  !.spec = spec] \in Pipelines
    BY <1>1, <2>1 DEF Pipelines
  <2>3. [o EXCEPT !.spec = spec] \in Pipelines
    BY <2>1 DEF Pipelines
  <2> QED
    BY <1>0, <2>2, <2>3 DEF Created
<1>5. [o EXCEPT !.deleting = TRUE] \in Pipelines
  BY DEF Pipelines
<1>6. CompletePipeline(o) \in Pipelines /\ FailPipeline(o) \in Pipelines
  BY DEF CompletePipeline, FailPipeline, Pipelines, PipelinePhases
<1>7. ASSUME o.spec.stages # <<>>
      PROVE  StartPipeline(o) \in Pipelines
  <2>1. o.spec \in PipelineSpecs /\ o.spec.stages \in Seq(StageSpecs)
    BY DEF Pipelines, PipelineSpecs
  <2>2. o.spec.stages[1] \in StageSpecs
    BY <1>7, <2>1, ElementOfSeq, EmptySeq, LenProperties
  <2>3. o.spec.stages[1].name \in Names
    BY <2>2 DEF StageSpecs
  <2>4. InitStageStatuses(o.spec) \in Seq(StageStatuses)
    BY <2>1, InitialStatuses
  <2> QED
    BY <2>3, <2>4 DEF StartPipeline, Pipelines, PipelinePhases
<1> QED
  BY <1>2, <1>3, <1>4, <1>5, <1>6, <1>7

(* A pipeline without stages has no stage number. *)
LEMMA EmptyDomain == DOMAIN <<>> = {}
<1>1. <<>> \in Seq({}) /\ Len(<<>>) = 0
  BY EmptySeq
<1>2. DOMAIN <<>> = 1..Len(<<>>)
  BY <1>1, LenProperties
<1>3. 1..0 = {}
  OBVIOUS
<1> QED
  BY <1>1, <1>2, <1>3, Zenon

(* The record that stands for the absence of a resource has a resource's shape. *)
LEMMA NoPipelineTyped == NoPipeline \in Pipelines
<1>1. EmptySpec \in PipelineSpecs
  BY EmptySeq DEF EmptySpec, PipelineSpecs, NoPolicy
<1> QED
  BY <1>1, EmptySeq DEF NoPipeline, Pipelines, PipelinePhases
================================================================================
