------------------------------- MODULE Reconciler -------------------------------
(* The controller of one AgentPipeline: the API server that stores the resource *)
(* (PipelineLifecycle's variable api) and the output ConfigMaps, the informer    *)
(* caches the manager's client reads, the work queue, and the single worker that *)
(* runs Reconcile.  A reconcile is split where another process can come in       *)
(* between: at every read, agent call and write.                                 *)
EXTENDS PipelineLifecycle, FiniteSets

CONSTANTS
    Oversized,        \* outputs the API server refuses to store in a ConfigMap
    MaxLag,           \* bound: versions the informers may be behind
    MaxEdits,         \* bound: edits and deletions by users
    MaxFaults,        \* bound: API errors and restarts of the operator
    MaxIncarnations,  \* bound: resources of that name created one after the other
    MaxStages,        \* length of the longest spec
    MaxRuns           \* cap of the invocation counters

ASSUME BoundsAssumption ==
    /\ Oversized \subseteq Outputs
    /\ {MaxLag, MaxEdits, MaxFaults, MaxIncarnations, MaxStages, MaxRuns} \subseteq Nat
    /\ \A spec \in Specs : Len(spec.stages) <= MaxStages

VARIABLES
    cache,     \* the informer's copy of it
    watch,     \* versions of it the informer has not received yet
    cms,       \* the ConfigMaps in the API server
    cmCache,   \* the informer's copy of them
    cmWatch,   \* versions of them the informer has not received yet
    queue,     \* the work queue's entry for the resource
    pc,        \* where the worker is
    obj,       \* the copy of the resource the worker read
    cur,       \* the stage the worker is working on
    prompt,    \* what that stage's agent is given as PreviousOutput
    out,       \* the output the worker holds
    seen,      \* the ConfigMap CreateOrUpdate read
    edits, faults,  \* bounds used up
    calls,     \* observation: invocations of each stage's agent that began with
               \* nothing out of date
    done       \* observation: the answers, each with the stage whose agent gave it

pipelineVars  == <<api, cache, watch>>
configMapVars == <<cms, cmCache, cmWatch>>
workerVars    == <<pc, obj, cur, prompt, out, seen>>
boundVars     == <<edits, faults>>
observedVars  == <<calls, done>>
vars == <<pipelineVars, configMapVars, queue, workerVars, boundVars, observedVars>>

NoConfigMap == [live |-> FALSE, rv |-> 0, owner |-> 0, out |-> NoOutput]

ConfigMaps == [live: BOOLEAN, rv: Nat, owner: Nat, out: Outputs \cup {NoOutput}]

Stores == [rev: Nat, of: [ConfigMapNames -> ConfigMaps]]

NoStore == [rev |-> 0, of |-> [n \in ConfigMapNames |-> NoConfigMap]]

(* Places where the next step is a write of the resource. *)
WritePCs == {"addFinalizer", "removeFinalizer", "startPipeline",
             "completePipeline", "failPipeline", "completeStage",
             "recoverStage", "failStage", "retryStage"}

PCs == WritePCs \cup {"idle", "startStage", "buildContext", "runAgent", "store"}

Init ==
    /\ api = NoPipeline /\ cache = NoPipeline /\ watch = {}
    /\ cms = NoStore /\ cmCache = NoStore /\ cmWatch = {}
    /\ queue = {}
    /\ pc = "idle" /\ obj = NoPipeline /\ cur = 0 /\ prompt = NoOutput
    /\ out = NoOutput /\ seen = NoConfigMap
    /\ edits = 0 /\ faults = 0
    /\ calls = [i \in 1..MaxStages |-> 0] /\ done = {}
--------------------------------------------------------------------------------
(* The API server: an accepted write is a new version that the informers learn  *)
(* of later.                                                                     *)

Publish(new) ==
    /\ Cardinality(watch) < MaxLag
    /\ api' = new /\ watch' = watch \cup {new} /\ cache' = cache

PublishConfigMap(name, new) ==
    /\ Cardinality(cmWatch) < MaxLag
    /\ cms' = [rev |-> cms.rev + 1, of |-> [cms.of EXCEPT ![name] = new]]
    /\ cmWatch' = cmWatch \cup {cms'} /\ cmCache' = cmCache

(* An informer receives a version, or a relist that skips some, and its event   *)
(* handler enqueues the resource (For, Owns).                                    *)
DeliverPipeline ==
    /\ \E v \in watch :
          /\ cache' = v
          /\ watch' = {w \in watch : w.rv > v.rv}
    /\ queue' = queue \cup {"ready"}
    /\ UNCHANGED <<api, configMapVars, workerVars, boundVars, observedVars>>

DeliverConfigMaps ==
    /\ \E v \in cmWatch :
          /\ cmCache' = v
          /\ cmWatch' = {w \in cmWatch : w.rev > v.rev}
    /\ queue' = queue \cup {"ready"}
    /\ UNCHANGED <<pipelineVars, cms, workerVars, boundVars, observedVars>>

(* A RequeueAfter elapses. *)
TimerFires ==
    /\ "delayed" \in queue
    /\ queue' = (queue \ {"delayed"}) \cup {"ready"}
    /\ UNCHANGED <<pipelineVars, configMapVars, workerVars, boundVars, observedVars>>
--------------------------------------------------------------------------------
(* Users and the garbage collector. *)

UserCreates ==
    /\ ~api.live /\ api.uid < MaxIncarnations
    /\ \E spec \in Specs : Publish(Created(api, spec))
    /\ calls' = [i \in 1..MaxStages |-> 0] /\ done' = {}
    /\ UNCHANGED <<configMapVars, queue, workerVars, boundVars>>

(* Any write by someone else: of the spec, or of a label (the spec unchanged). *)
UserEdits ==
    /\ api.live /\ edits < MaxEdits
    /\ edits' = edits + 1
    /\ \E spec \in Specs : Publish(Written([api EXCEPT !.spec = spec]))
    /\ UNCHANGED <<configMapVars, queue, workerVars, faults, observedVars>>

UserDeletes ==
    /\ api.live /\ ~api.deleting /\ edits < MaxEdits
    /\ edits' = edits + 1
    /\ Publish(IF api.finalizer THEN Written([api EXCEPT !.deleting = TRUE])
                                ELSE Removed(api))
    /\ UNCHANGED <<configMapVars, queue, workerVars, faults, observedVars>>

(* Its owner is gone (a ConfigMap without an owner is nobody's garbage). *)
Orphan(name) ==
    /\ cms.of[name].live /\ cms.of[name].owner # 0
    /\ ~(api.live /\ api.uid = cms.of[name].owner)

CollectGarbage ==
    /\ \E name \in ConfigMapNames :
          Orphan(name) /\ PublishConfigMap(name, NoConfigMap)
    /\ UNCHANGED <<pipelineVars, queue, workerVars, boundVars, observedVars>>
--------------------------------------------------------------------------------
(* The worker: Reconcile up to its first write or call.  The client is the      *)
(* manager's, whose reads come from the informers' stores.                       *)

ReadPipeline == cache

ReadConfigMap(name) == cmCache.of[name]

Take == pc = "idle" /\ "ready" \in queue

(* Reconcile goes on to place p with the copy it read, at stage i (0: none). *)
Enter(p, i) ==
    /\ pc' = p /\ obj' = ReadPipeline /\ cur' = i
    /\ queue' = queue \ {"ready"}
    /\ UNCHANGED <<pipelineVars, configMapVars, prompt, out, seen, boundVars,
                   observedVars>>

(* Reconcile returns at once; q is its requeue. *)
Skip(q) ==
    /\ queue' = (queue \ {"ready"}) \cup q
    /\ UNCHANGED <<pipelineVars, configMapVars, workerVars, boundVars, observedVars>>

ReconcileNothing == Take /\ NothingToDo(ReadPipeline) /\ Skip({})

(* Seeded bug: the terminal phases are dispatched before the deletion. *)
handleDeletion_AfterPhase ==
    /\ Take
    /\ LET o == ReadPipeline IN o.live /\ o.deleting /\ o.finalizer /\ ~Terminal(o)
    /\ Enter("removeFinalizer", 0)

handleDeletion ==
    /\ Take
    /\ LET o == ReadPipeline IN o.live /\ o.deleting /\ o.finalizer
    /\ Enter("removeFinalizer", 0)

handlePending ==
    /\ Take
    /\ LET o == ReadPipeline IN
          /\ o.live /\ ~o.deleting /\ o.phase \in {"", "Pending"}
          /\ Enter(IF ~o.finalizer THEN "addFinalizer"
                   ELSE IF o.spec.stages = <<>> THEN "failPipeline"
                   ELSE "startPipeline", 0)

RunningRead ==
    LET o == ReadPipeline IN o.live /\ ~o.deleting /\ o.phase = "Running"

handleRunningDone ==
    /\ Take /\ RunningRead /\ AllFinished(ReadPipeline)
    /\ Enter("completePipeline", 0)

(* spec.stages is shorter than the statuses: FindCurrentStage panics,           *)
(* controller-runtime recovers and requeues.                                     *)
handleRunningPanic ==
    /\ Take /\ RunningRead
    /\ \E i \in DOMAIN ReadPipeline.stages :
          /\ FindCurrentStage(ReadPipeline, i)
          /\ i \notin DOMAIN ReadPipeline.spec.stages
    /\ Skip({"ready"})

handleRunning ==
    /\ Take /\ RunningRead
    /\ \E i \in DOMAIN ReadPipeline.stages :
          /\ FindCurrentStage(ReadPipeline, i)
          /\ i \in DOMAIN ReadPipeline.spec.stages
          /\ LET step == StageStep(ReadPipeline, i) IN
                IF step = "wait" THEN Skip({"delayed"}) ELSE Enter(step, i)
--------------------------------------------------------------------------------
(* The worker: running a stage. *)

StageName == obj.spec.stages[cur].name

(* The completed stages whose outputs BuildPipelineContext reads. *)
Referenced ==
    {j \in DOMAIN obj.stages :
        obj.stages[j].phase = "Completed" /\ obj.stages[j].ref # NoRef}

ContextComplete == \A j \in Referenced : ReadConfigMap(obj.stages[j].ref).live

(* Seeded bug: the stage's own output instead of its predecessor's. *)
Preceding_Self ==
    {j \in Referenced : /\ j \in DOMAIN obj.spec.stages
                        /\ obj.spec.stages[j].name = StageName}

(* The stages whose successor in the spec has the current stage's name. *)
Preceding ==
    {j \in Referenced : /\ j + 1 \in DOMAIN obj.spec.stages
                        /\ obj.spec.stages[j + 1].name = StageName}

(* PreviousOutput is p: the output of the last of them, or nothing. *)
PreviousOutput(p) ==
    \/ Preceding = {} /\ p = NoOutput
    \/ \E j \in Preceding : /\ \A k \in Preceding : k <= j
                            /\ p = ReadConfigMap(obj.stages[j].ref).out

(* The ConfigMap of the worker's stage, in the API server. *)
Stored == cms.of[outputConfigMapName(StageName)]

(* One more invocation of the agent, counted if it is for the resource as it is *)
(* stored and no output is stored yet.                                           *)
CountCall ==
    calls' = IF obj.rv = api.rv /\ ~Stored.live /\ calls[cur] < MaxRuns
             THEN [calls EXCEPT ![cur] = @ + 1] ELSE calls

(* The same as the client reads it. *)
Existing == ReadConfigMap(outputConfigMapName(StageName))

(* The idempotency guard: an output that exists is taken for this stage's. *)
startStage ==
    /\ pc = "startStage"
    /\ IF Existing.live THEN pc' = "recoverStage" /\ out' = Existing.out
                        ELSE pc' = "buildContext" /\ out' = out
    /\ UNCHANGED <<pipelineVars, configMapVars, queue, obj, cur, prompt, seen,
                   boundVars, observedVars>>

(* BuildPipelineContext reads the outputs, RenderPrompt renders the template,   *)
(* and the agent is invoked with the result; an error of either fails the stage. *)
buildContext ==
    /\ pc = "buildContext"
    /\ IF ContextComplete /\ obj.spec.stages[cur].prompt # "invalid"
       THEN /\ pc' = "runAgent" /\ CountCall
            /\ \E p \in Outputs \cup {NoOutput} : PreviousOutput(p) /\ prompt' = p
       ELSE pc' = "failStage" /\ UNCHANGED <<prompt, calls>>
    /\ UNCHANGED <<pipelineVars, configMapVars, queue, obj, cur, out, seen, boundVars, done>>

Fault == faults < MaxFaults /\ faults' = faults + 1

(* Seeded bug: the status is written before the output is stored. *)
AgentCompletes_Unstored ==
    /\ pc = "runAgent"
    /\ \E output \in Outputs : out' = output
    /\ pc' = "completeStage"
    /\ done' = IF obj.uid = api.uid THEN done \cup {<<cur, out'>>} ELSE done
    /\ UNCHANGED <<pipelineVars, configMapVars, queue, obj, cur, prompt, seen, boundVars, calls>>

(* The agent answers, and CreateOrUpdate reads the ConfigMap. *)
AgentCompletes ==
    /\ pc = "runAgent"
    /\ \E output \in Outputs : out' = output
    /\ pc' = "store"
    /\ seen' = Existing
    /\ done' = IF obj.uid = api.uid THEN done \cup {<<cur, out'>>} ELSE done
    /\ UNCHANGED <<pipelineVars, configMapVars, queue, obj, cur, prompt, boundVars, calls>>

(* RunAgent returns an error, or a result that is Failed or TimedOut. *)
AgentFails ==
    /\ pc = "runAgent"
    /\ pc' = "failStage"
    /\ UNCHANGED <<pipelineVars, configMapVars, queue, obj, cur, prompt, out, seen,
                   boundVars, observedVars>>
--------------------------------------------------------------------------------
(* The worker: StoreOutput and its CreateOrUpdate. *)

(* Reconcile returns: its locals die with it. *)
Return ==
    /\ pc' = "idle" /\ obj' = NoPipeline /\ cur' = 0 /\ prompt' = NoOutput
    /\ out' = NoOutput /\ seen' = NoConfigMap

(* Seeded bug: the error is swallowed. *)
ReturnError_Swallowed == Return /\ queue' = queue

(* Reconcile returns an error: the entry is queued again, rate limited. *)
ReturnError == Return /\ queue' = queue \cup {"ready"}

(* Seeded bug: no controller reference. *)
NewConfigMap_Unowned(owner) ==
    [live |-> TRUE, rv |-> cms.rev + 1, owner |-> 0, out |-> out]

NewConfigMap(owner) ==
    [live |-> TRUE, rv |-> cms.rev + 1, owner |-> owner, out |-> out]

(* What CreateOrUpdate asks of the API server, and whether it agrees. *)
StoreWrites == ~seen.live \/ seen.out # out

StoreAccepted ==
    /\ out \notin Oversized
    /\ IF seen.live THEN Stored.live /\ Stored.rv = seen.rv ELSE ~Stored.live

(* Created with the pipeline as owner; an update leaves the owner as it was. *)
StoreOutput ==
    /\ pc = "store" /\ StoreWrites /\ StoreAccepted
    /\ PublishConfigMap(outputConfigMapName(StageName),
                        NewConfigMap(IF seen.live THEN seen.owner ELSE obj.uid))
    /\ pc' = "completeStage"
    /\ UNCHANGED <<pipelineVars, queue, obj, cur, prompt, out, seen, boundVars, observedVars>>

StoreUnchanged ==
    /\ pc = "store" /\ ~StoreWrites
    /\ pc' = "completeStage"
    /\ UNCHANGED <<pipelineVars, configMapVars, queue, obj, cur, prompt, out, seen,
                   boundVars, observedVars>>

StoreRefused ==
    /\ pc = "store" /\ StoreWrites /\ ~StoreAccepted
    /\ ReturnError
    /\ UNCHANGED <<pipelineVars, configMapVars, boundVars, observedVars>>
--------------------------------------------------------------------------------
(* The worker: the one write of the resource that ends a reconcile. *)

(* Seeded bug: a write without a resource version. *)
WriteAccepted_Unversioned == api.live

(* Optimistic concurrency: the copy is still the stored version. *)
WriteAccepted == api.live /\ api.rv = obj.rv

Update(p, new, q) ==
    /\ pc = p /\ WriteAccepted
    /\ Publish(new) /\ queue' = queue \cup q
    /\ Return
    /\ UNCHANGED <<configMapVars, boundVars, observedVars>>

addFinalizer == Update("addFinalizer", Written(AddFinalizer(obj)), {"ready"})
removeFinalizer == Update("removeFinalizer", Removed(obj), {})
startPipeline == Update("startPipeline", Written(StartPipeline(obj)), {"ready"})
completePipeline == Update("completePipeline", Written(CompletePipeline(obj)), {})
failPipeline == Update("failPipeline", Written(FailPipeline(obj)), {})
completeStage == Update("completeStage", Written(CompleteStage(obj, cur, out)), {"ready"})
completeStageFromOutput ==
    Update("recoverStage", Written(RecoverStage(obj, cur, out)), {"ready"})
failStage == Update("failStage", Written(FailStage(obj, cur)), {"ready"})

(* RequeueAfter with a backoff of zero is no requeue: the event of the write is  *)
(* then all that wakes the worker.                                               *)
retryStage ==
    \E q \in {{"delayed"}, {}} : Update("retryStage", Written(RetryStage(obj, cur)), q)

UpdateRefused ==
    /\ pc \in WritePCs /\ ~WriteAccepted
    /\ ReturnError
    /\ UNCHANGED <<pipelineVars, configMapVars, boundVars, observedVars>>

(* A write fails for a reason of the API server's. *)
WriteFails ==
    /\ pc \in WritePCs \/ (pc = "store" /\ StoreWrites)
    /\ Fault
    /\ ReturnError
    /\ UNCHANGED <<pipelineVars, configMapVars, edits, observedVars>>

(* The operator restarts: the caches are filled from the API server before the  *)
(* worker starts, and every resource is queued.                                  *)
Restart ==
    /\ Fault
    /\ Return
    /\ queue' = {"ready"}
    /\ cache' = api /\ watch' = {} /\ cmCache' = cms /\ cmWatch' = {}
    /\ UNCHANGED <<api, cms, edits, observedVars>>
--------------------------------------------------------------------------------
Reconcile ==
    \/ ReconcileNothing \/ handleDeletion \/ handlePending
    \/ handleRunningDone \/ handleRunningPanic \/ handleRunning

RunStage ==
    \/ startStage \/ buildContext \/ AgentCompletes \/ AgentFails
    \/ StoreOutput \/ StoreUnchanged \/ StoreRefused

WriteBack ==
    \/ addFinalizer \/ removeFinalizer \/ startPipeline
    \/ completePipeline \/ failPipeline
    \/ completeStage \/ completeStageFromOutput \/ failStage \/ retryStage
    \/ UpdateRefused

Worker == Reconcile \/ RunStage \/ WriteBack

Faulty == WriteFails \/ Restart

Next ==
    \/ UserCreates \/ UserEdits \/ UserDeletes \/ CollectGarbage
    \/ DeliverPipeline \/ DeliverConfigMaps \/ TimerFires
    \/ Worker \/ Faulty

Spec == Init /\ [][Next]_vars

(* The worker keeps working (RunAgent returns: its context has a deadline), the *)
(* watches deliver, timers elapse and garbage is collected.  Users and faults    *)
(* need not do anything.                                                         *)
Fairness ==
    /\ WF_vars(Worker) /\ WF_vars(DeliverPipeline) /\ WF_vars(DeliverConfigMaps)
    /\ WF_vars(TimerFires) /\ WF_vars(CollectGarbage)

FairSpec == Spec /\ Fairness
--------------------------------------------------------------------------------
(* Every variable keeps its type. *)
TypeOK ==
    /\ api \in Pipelines /\ cache \in Pipelines /\ watch \subseteq Pipelines
    /\ cms \in Stores /\ cmCache \in Stores /\ cmWatch \subseteq Stores
    /\ queue \subseteq {"ready", "delayed"}
    /\ pc \in PCs /\ obj \in Pipelines /\ cur \in Nat
    /\ prompt \in Outputs \cup {NoOutput} /\ out \in Outputs \cup {NoOutput}
    /\ seen \in ConfigMaps
    /\ edits \in 0..MaxEdits /\ faults \in 0..MaxFaults
    /\ calls \in [1..MaxStages -> 0..MaxRuns]
    /\ done \subseteq (1..MaxStages) \X Outputs

(* Whatever copy Reconcile worked on and whatever happened meanwhile, each of   *)
(* its writes (controller.go: the Update and Status().Update calls) is a step    *)
(* the lifecycle allows on the resource as it is when the write is accepted.     *)
ImplementsLifecycle == LifecycleSpec

(* Reconcile drops no work: a resource that is neither terminal nor gone is in  *)
(* the worker's hands, in the queue, or in a version the informer has yet to     *)
(* see.                                                                          *)
NotForgotten ==
    api.live /\ ~NothingToDo(api) => pc # "idle" \/ queue # {} \/ watch # {}

(* completeStage stores the output before it writes the status, and nobody      *)
(* deletes it while the pipeline lives: the output a Completed stage refers to   *)
(* is there, and belongs to this pipeline.                                       *)
OutputKept ==
    api.live =>
        \A i \in DOMAIN api.stages :
            api.stages[i].phase = "Completed" =>
                LET cm == cms.of[api.stages[i].ref] IN
                cm.live /\ cm.owner = api.uid

(* Status Completed means that the stage's own agent answered for this very     *)
(* resource, and the output shown is such an answer, or its end with a mark      *)
(* where that is too long (README: the output exists because "the agent already  *)
(* ran").                                                                        *)
CompletedStageRan ==
    api.live =>
        \A i \in DOMAIN api.stages :
            api.stages[i].phase = "Completed" =>
                \E answer \in done :
                    answer[1] = i /\ Abbreviates(api.stages[i].out, answer[2])

(* So does the ConfigMap that it refers to hold one, in full.  It may be another *)
(* one: a stale guard lets the agent run again, and StoreOutput replaces the     *)
(* output under a status that nobody can write any more.                         *)
StoredOutputGenuine ==
    api.live =>
        \A i \in DOMAIN api.stages :
            api.stages[i].phase = "Completed" =>
                <<i, cms.of[api.stages[i].ref].out>> \in done

(* What BuildPipelineContext hands to the agent of a stage, from a copy of the  *)
(* pipeline and a store of ConfigMaps that may both be old, is in full an answer *)
(* of the agent before it.                                                       *)
PromptFromPrevious ==
    pc = "runAgent" /\ cur > 1 /\ api.live /\ obj.uid = api.uid =>
        <<cur - 1, prompt>> \in done

(* BuildPipelineContext reads the outputs of Completed stages from a store that *)
(* may be behind the status: only then, or for a pipeline that is gone already,  *)
(* does a stage fail before its agent runs although its prompt renders.          *)
ContextLostOnlyToLag ==
    [][pc = "buildContext" /\ pc' = "failStage" =>
          \/ obj.spec.stages[cur].prompt = "invalid"
          \/ cmCache # cms \/ ~api.live]_vars

(* An invocation that begins with nothing out of date (on the stored version of *)
(* the resource, with no output stored) is not wasted: a stage gets one of them, *)
(* one more per retry, and one more for each disturbance (an edit, an API error, *)
(* a restart) that cost the previous result.                                     *)
InvocationsAccounted ==
    api.live =>
        \A i \in DOMAIN api.stages :
            calls[i] <= 1 + api.stages[i].retries + edits + faults

(* No step of the controller can bring a running pipeline further: an edit has  *)
(* removed its current stage, and FindCurrentStage panics, or the stage depends  *)
(* on one that is not Completed, and none before it is left.                     *)
Blocked(o) ==
    /\ o.phase = "Running"
    /\ \E i \in DOMAIN o.stages :
          /\ FindCurrentStage(o, i)
          /\ i \notin DOMAIN o.spec.stages \/ ~AreDependenciesMet(o, i)

(* Every pipeline reaches a terminal phase unless it is deleted first (NOTE.md: *)
(* each status write restarts the loop until Completed or Failed) or blocked by  *)
(* its spec; if an edit frees it, it goes on.                                    *)
Terminates ==
    (api.live /\ ~api.deleting)
        ~> (~api.live \/ api.deleting \/ Terminal(api) \/ Blocked(api))

(* handleDeletion gets its way: the finalizer never holds a deleted pipeline    *)
(* back for ever, in whatever phase it was.                                      *)
DeletionFinishes == api.deleting ~> ~api.live

(* When the pipeline is gone for good so are its outputs, through the owner     *)
(* reference that StoreOutput set (README: "ConfigMaps GC'd via OwnerReference"). *)
CleanedUp ==
    <>[](~api.live) => <>[](\A name \in ConfigMapNames : ~cms.of[name].live)
================================================================================
