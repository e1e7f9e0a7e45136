--------------------------- MODULE PipelineLifecycle ---------------------------
(* What the operator promises about one AgentPipeline resource, said of the     *)
(* resource alone: no controller, no queue, no cache, no stale copy.  Every      *)
(* action is taken on the resource as it stands.  Reconciler extends this module *)
(* and adds the rest of the system around the same variable; that its steps are  *)
(* steps of LifecycleSpec is what it has to show.                                *)
EXTENDS AgentPipeline

VARIABLE api    \* the resource in the API server

LifecycleInit == api = NoPipeline

(* The user. *)

Create(spec) ==
    /\ ~api.live
    /\ api' = Created(api, spec)

Edit(spec) ==
    /\ api.live
    /\ api' = Written([api EXCEPT !.spec = spec])

Delete ==
    /\ api.live /\ ~api.deleting
    /\ api' = IF api.finalizer THEN Written([api EXCEPT !.deleting = TRUE])
                               ELSE Removed(api)

(* The operator. *)

Active == api.live /\ ~api.deleting

TakeOwnership ==
    /\ Active /\ api.phase \in {"", "Pending"} /\ ~api.finalizer
    /\ api' = Written(AddFinalizer(api))

Release ==
    /\ api.live /\ api.deleting /\ api.finalizer
    /\ api' = Removed(api)

Start ==
    /\ Active /\ api.phase \in {"", "Pending"} /\ api.finalizer
    /\ api.spec.stages # <<>>
    /\ api' = Written(StartPipeline(api))

RejectEmpty ==
    /\ Active /\ api.phase \in {"", "Pending"} /\ api.finalizer
    /\ api.spec.stages = <<>>
    /\ api' = Written(FailPipeline(api))

(* Stage i is the one whose turn it is, and what it depends on is done. *)
Eligible(i) ==
    /\ Active /\ api.phase = "Running"
    /\ FindCurrentStage(api, i)
    /\ i \in DOMAIN api.spec.stages
    /\ AreDependenciesMet(api, i)

StageCompletes(i, output) ==
    /\ Eligible(i) /\ api.stages[i].phase = "Pending"
    /\ api' \in {Written(CompleteStage(api, i, output)),
                 Written(RecoverStage(api, i, output))}

StageFails(i) ==
    /\ Eligible(i) /\ api.stages[i].phase = "Pending"
    /\ api' = Written(FailStage(api, i))

Retry(i) ==
    /\ Eligible(i) /\ api.stages[i].phase = "Failed"
    /\ api.stages[i].retries < GetEffectiveRetryPolicy(api, i)
    /\ api' = Written(RetryStage(api, i))

GiveUp(i) ==
    /\ Eligible(i) /\ api.stages[i].phase = "Failed"
    /\ api.stages[i].retries >= GetEffectiveRetryPolicy(api, i)
    /\ api' = Written(FailPipeline(api))

Finish ==
    /\ Active /\ api.phase = "Running" /\ AllFinished(api)
    /\ api' = Written(CompletePipeline(api))

LifecycleNext ==
    \/ \E spec \in Specs : Create(spec) \/ Edit(spec)
    \/ Delete
    \/ TakeOwnership \/ Release \/ Start \/ RejectEmpty \/ Finish
    \/ \E i \in DOMAIN api.stages :
          \/ \E output \in Outputs : StageCompletes(i, output)
          \/ StageFails(i) \/ Retry(i) \/ GiveUp(i)

LifecycleSpec == LifecycleInit /\ [][LifecycleNext]_api
--------------------------------------------------------------------------------
(* The resource always has the shape the CRD gives it. *)
ResourceTyped == api \in Pipelines

(* handleRunning works on the first unfinished stage only: a stage has a status *)
(* other than the one InitStageStatuses gave it only if every earlier stage is   *)
(* Completed, whatever edits, conflicts and retries came in between.             *)
StagesInOrder ==
    \A j \in DOMAIN api.stages :
        ~Pristine(api.stages[j]) =>
            \A i \in 1..(j - 1) : api.stages[i].phase = "Completed"

(* completePipeline and failPipeline tell the truth about the stages they       *)
(* closed: a Completed pipeline has only Completed stages, each with a reference *)
(* to its output, and a Failed one has no stage at all or one that failed; a     *)
(* pipeline that never started has no stage status.                              *)
PhaseTellsStages ==
    /\ api.phase = "Completed" =>
          \A i \in DOMAIN api.stages :
              api.stages[i].phase = "Completed" /\ api.stages[i].ref # NoRef
    /\ api.phase = "Failed" =>
          \/ api.stages = <<>>
          \/ \E i \in DOMAIN api.stages : api.stages[i].phase = "Failed"
    /\ api.phase \in {"", "Pending"} => api.stages = <<>>

(* A step that leaves reported results alone, if the resource outlives it. *)
KeepsReported ==
    api'.uid = api.uid /\ api'.live =>
        /\ Terminal(api) => api'.phase = api.phase /\ api'.stages = api.stages
        /\ \A i \in DOMAIN api.stages :
              api.stages[i].phase = "Completed" =>
                  i \in DOMAIN api'.stages /\ api'.stages[i] = api.stages[i]

(* No step of the controller undoes what it reported: while one resource lives, *)
(* a terminal phase keeps its whole status, and a Completed stage its record.    *)
NothingUndone == [][KeepsReported]_api
================================================================================
