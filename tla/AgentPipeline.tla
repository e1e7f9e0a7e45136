------------------------------ MODULE AgentPipeline ------------------------------
(* The AgentPipeline custom resource and what the controller's functions       *)
(* compute on one copy of it.  The module has no state: the lifecycle and the   *)
(* reconciler are built from these operators.                                   *)
(* Left out of the resource because nothing the controller decides depends on   *)
(* them: timestamps, conditions, error texts, task identifiers and the trigger. *)
EXTENDS Integers, Sequences

CONSTANTS
    Names,              \* stage names (strings, all different from "")
    Specs,              \* the specs a user may write
    Bytes,              \* bytes of an agent output
    Outputs,            \* what an agent may answer: byte strings
    Ellipsis,           \* the three bytes "..."
    MaxStatusOutputLen  \* length limit of status.stages[].output

(* Go's zero values. *)
NoName   == ""
NoOutput == <<>>
NoRef    == <<>>

(* A nil *RetryPolicy; any other policy is its maxRetries. *)
NoPolicy == -1

(* A prompt is absent (""), a template that renders, or one text/template       *)
(* refuses to parse or to execute; rendering is deterministic.                  *)
Prompts == {"default", "template", "invalid"}

PipelinePhases == {"", "Pending", "Running", "Completed", "Failed"}
StagePhases    == {"Pending", "Running", "Completed", "Failed", "Skipped"}

StageSpecs == [name: Names, dependsOn: SUBSET Names,
               retry: Nat \cup {NoPolicy}, prompt: Prompts]

PipelineSpecs == [stages: Seq(StageSpecs), retry: Nat \cup {NoPolicy}]

(* Seeded bug: the stage name is left out of the ConfigMap's name. *)
outputConfigMapName_Shared(name) == <<"stage">>

(* The name of the ConfigMap that holds a stage's output.  The resource name of *)
(* the pipeline is a fixed prefix, so the stage name identifies it.             *)
outputConfigMapName(name) == <<"stage", name>>

ConfigMapNames == {outputConfigMapName(n) : n \in Names}

StageStatuses == [name: Names, phase: StagePhases, retries: Nat,
                  out: Seq(Bytes), ref: ConfigMapNames \cup {NoRef}]

(* A resource as the API server stores it.  `live' is FALSE when no resource of *)
(* that name exists; `uid' and `rv' then remember the last ones handed out.      *)
Pipelines == [live: BOOLEAN, uid: Nat, rv: Nat, deleting: BOOLEAN,
              finalizer: BOOLEAN, spec: PipelineSpecs,
              phase: PipelinePhases, current: Names \cup {NoName},
              stages: Seq(StageStatuses)]

EmptySpec == [stages |-> <<>>, retry |-> NoPolicy]

NoPipeline == [live |-> FALSE, uid |-> 0, rv |-> 0, deleting |-> FALSE,
               finalizer |-> FALSE, spec |-> EmptySpec, phase |-> "",
               current |-> NoName, stages |-> <<>>]

ASSUME ConstantsAssumption ==
    /\ NoName \notin Names
    /\ Specs \subseteq PipelineSpecs
    /\ Outputs \subseteq Seq(Bytes)
    /\ Ellipsis \in Seq(Bytes) /\ Len(Ellipsis) = 3
    /\ MaxStatusOutputLen \in Nat /\ MaxStatusOutputLen >= 3
--------------------------------------------------------------------------------
(* stage_handler.go *)

(* Seeded bug: the three dots come on top of the limit. *)
truncateOutput_TooLong(output) ==
    IF Len(output) <= MaxStatusOutputLen
    THEN output
    ELSE Ellipsis \o SubSeq(output, Len(output) - MaxStatusOutputLen + 1, Len(output))

(* The last bytes of an output that fit the status, marked when some are cut.   *)
truncateOutput(output) ==
    IF Len(output) <= MaxStatusOutputLen
    THEN output
    ELSE Ellipsis \o SubSeq(output, Len(output) - MaxStatusOutputLen + 3 + 1,
                            Len(output))

(* Seeded bug: a failed stage counts as finished. *)
Finished_CountsFailed(s) == s.phase \in {"Completed", "Skipped", "Failed"}

Finished(s) == s.phase \in {"Completed", "Skipped"}

(* FindCurrentStage returns stage i of o, i.e. the first that is not finished.  *)
(* It indexes spec.stages with i, which an edit may have made too short.        *)
FindCurrentStage(o, i) ==
    /\ i \in DOMAIN o.stages
    /\ ~Finished(o.stages[i])
    /\ \A j \in 1..(i - 1) : Finished(o.stages[j])

(* Seeded bug: no stage is left to start, but one may have failed. *)
AllFinished_NonePending(o) == \A i \in DOMAIN o.stages : o.stages[i].phase # "Pending"

AllFinished(o) == \A i \in DOMAIN o.stages : Finished(o.stages[i])

AreDependenciesMet(o, i) ==
    \A dep \in o.spec.stages[i].dependsOn :
        \E j \in DOMAIN o.stages :
            o.stages[j].name = dep /\ o.stages[j].phase = "Completed"

(* Seeded bug: the phase is left at Go's zero value. *)
InitStageStatuses_NoPhase(spec) ==
    [i \in 1..Len(spec.stages) |->
        [name |-> spec.stages[i].name, phase |-> "", retries |-> 0,
         out |-> NoOutput, ref |-> NoRef]]

InitStageStatuses(spec) ==
    [i \in 1..Len(spec.stages) |->
        [name |-> spec.stages[i].name, phase |-> "Pending", retries |-> 0,
         out |-> NoOutput, ref |-> NoRef]]

GetEffectiveRetryPolicy(o, i) ==
    IF o.spec.stages[i].retry # NoPolicy THEN o.spec.stages[i].retry
    ELSE IF o.spec.retry # NoPolicy THEN o.spec.retry
    ELSE 0
--------------------------------------------------------------------------------
(* agentpipeline_controller.go: what Reconcile and handleRunning decide. *)

Terminal(o) == o.phase \in {"Completed", "Failed"}

NothingToDo(o) ==
    \/ ~o.live
    \/ o.deleting /\ ~o.finalizer
    \/ ~o.deleting /\ Terminal(o)

(* Seeded bug: one retry too many. *)
StageStep_ExtraRetry(o, i) ==
    IF ~AreDependenciesMet(o, i) THEN "wait"
    ELSE IF o.stages[i].phase = "Pending" THEN "startStage"
    ELSE IF o.stages[i].phase # "Failed" THEN "wait"
    ELSE IF o.stages[i].retries <= GetEffectiveRetryPolicy(o, i) THEN "retryStage"
    ELSE "failPipeline"

(* Seeded bug: a stage without retries left is waited for. *)
StageStep_NeverGivesUp(o, i) ==
    IF ~AreDependenciesMet(o, i) THEN "wait"
    ELSE IF o.stages[i].phase = "Pending" THEN "startStage"
    ELSE IF o.stages[i].phase # "Failed" THEN "wait"
    ELSE IF o.stages[i].retries < GetEffectiveRetryPolicy(o, i) THEN "retryStage"
    ELSE "wait"

(* What handleRunning does with the current stage i of o. *)
StageStep(o, i) ==
    IF ~AreDependenciesMet(o, i) THEN "wait"
    ELSE IF o.stages[i].phase = "Pending" THEN "startStage"
    ELSE IF o.stages[i].phase # "Failed" THEN "wait"
    ELSE IF o.stages[i].retries < GetEffectiveRetryPolicy(o, i) THEN "retryStage"
    ELSE "failPipeline"
--------------------------------------------------------------------------------
(* agentpipeline_controller.go: how each handler changes its copy before it     *)
(* writes it back.                                                              *)

AddFinalizer(o) == [o EXCEPT !.finalizer = TRUE]

StartPipeline(o) ==
    [o EXCEPT !.phase = "Running", !.current = o.spec.stages[1].name,
              !.stages = InitStageStatuses(o.spec)]

CompletePipeline(o) == [o EXCEPT !.phase = "Completed", !.current = NoName]

FailPipeline(o) == [o EXCEPT !.phase = "Failed"]

(* A new status for stage i. *)
WithStage(o, i, status) == [o EXCEPT !.stages[i] = status]

CompletedStatus(o, i, output) ==
    [o.stages[i] EXCEPT !.phase = "Completed",
                        !.out   = truncateOutput(output),
                        !.ref   = outputConfigMapName(o.spec.stages[i].name)]

(* Seeded bug: the failure is not recorded. *)
FailedStatus_StillPending(o, i) == o.stages[i]

FailedStatus(o, i) == [o.stages[i] EXCEPT !.phase = "Failed"]

RetriedStatus(o, i) ==
    [o.stages[i] EXCEPT !.phase = "Pending", !.retries = @ + 1]

(* startStage has set currentStage in the copy before completeStage and         *)
(* failStage write it; completeStageFromOutput is reached before that.          *)
Executing(o, i) == [o EXCEPT !.current = o.spec.stages[i].name]

CompleteStage(o, i, output) ==
    WithStage(Executing(o, i), i, CompletedStatus(o, i, output))

RecoverStage(o, i, output) == WithStage(o, i, CompletedStatus(o, i, output))

FailStage(o, i) == WithStage(Executing(o, i), i, FailedStatus(o, i))

RetryStage(o, i) == WithStage(o, i, RetriedStatus(o, i))
--------------------------------------------------------------------------------
(* The API server's part of a write. *)

(* Every accepted write gets a new resource version. *)
Written(o) == [o EXCEPT !.rv = @ + 1]

(* A resource that is being deleted goes away with its last finalizer. *)
Removed(o) == [NoPipeline EXCEPT !.uid = o.uid, !.rv = o.rv + 1]

Created(o, spec) ==
    [NoPipeline EXCEPT !.live = TRUE, !.uid = o.uid + 1, !.rv = o.rv + 1,
                       !.spec = spec]

(* A stage nothing has happened to yet. *)
Pristine(s) == s.phase = "Pending" /\ s.retries = 0 /\ s.ref = NoRef

(* Said without saying how: s is full itself if that fits the status, and       *)
(* otherwise as long as the limit, three dots and then the end of full.          *)
Abbreviates(s, full) ==
    IF Len(full) <= MaxStatusOutputLen
    THEN s = full
    ELSE /\ Len(s) = MaxStatusOutputLen
         /\ \A k \in 1..3 : s[k] = Ellipsis[k]
         /\ \A k \in 4..MaxStatusOutputLen :
               s[k] = full[k + Len(full) - MaxStatusOutputLen]
================================================================================
