-------------------------------- MODULE Operator --------------------------------
(* The whole operator: several AgentPipelines of one namespace behind one work  *)
(* queue and one worker that blocks while an agent runs.  Reconciler looks at a  *)
(* single pipeline in finer steps; here CreateOrUpdate is one step, specs are    *)
(* not edited, and a pipeline is created once.  What is new is everything        *)
(* pipelines share: the queue, the worker and the names of the ConfigMaps.       *)
EXTENDS AgentPipeline, SequencesExt

CONSTANTS
    Pids,       \* names of pipelines (strings, all different from "")
    SpecOf,     \* the spec a user gives each pipeline
    Words,      \* the words of a name, pipeline's or stage's: "a-b" is <<"a", "b">>
    Answers,    \* what the agents of each pipeline may answer
    Mute,       \* pipelines whose agents need not answer
    MaxBehind,  \* bound: objects of a kind an informer is behind on
    MaxUpsets   \* bound: edits of labels and deletions by users, API errors and
                \* restarts of the operator

NoPid == ""

ASSUME OperatorAssumption ==
    /\ NoPid \notin Pids /\ IsFiniteSet(Pids)
    /\ SpecOf \in [Pids -> Specs]
    /\ Answers \in [Pids -> SUBSET Outputs]
    /\ Mute \subseteq Pids
    /\ MaxBehind \in Nat /\ MaxUpsets \in Nat

VARIABLES
    api,       \* the resources in the API server
    cache,     \* the informer's copies of them
    cms,       \* the ConfigMaps in the API server
    cmCache,   \* the informer's copies of them
    queue,     \* work queue: pipelines ready to be reconciled, first come first
    dirty,     \* work queue: pipelines to be reconciled (again)
    delayed,   \* work queue: pipelines waiting for a rate limiter or a RequeueAfter
    pid,       \* the pipeline in the worker's hands
    pc,        \* where the worker is
    obj,       \* the copy of the resource the worker read
    cur,       \* the stage the worker is working on
    out,       \* the output the worker holds
    upsets,    \* bound used up
    lastRead,  \* observation: version of each resource that was reconciled last
    waited     \* observation: agent calls begun since a pipeline was queued

resourceVars == <<api, cache>>
configMapVars == <<cms, cmCache>>
queueVars == <<queue, dirty, delayed>>
workerVars == <<pid, pc, obj, cur, out>>
observedVars == <<lastRead, waited>>
vars == <<resourceVars, configMapVars, queueVars, workerVars, upsets, observedVars>>

(* Seeded bug: the pipeline's name is left out. *)
FullName_StageOnly(p, name) == <<"stage">> \o Words[name]

(* fmt.Sprintf("%s-stage-%s", pipelineName, stageName), word by word. *)
FullName(p, name) == Words[p] \o <<"stage">> \o Words[name]

FullNames == {FullName(p, name) : p \in Pids, name \in Names}

(* A ConfigMap's owner is a pipeline (uids are not needed: none is recreated). *)
ConfigMaps == [owner: Pids \cup {NoPid}, out: Outputs \cup {NoOutput}]

Absent == [owner |-> NoPid, out |-> NoOutput]

WritePCs == {"addFinalizer", "removeFinalizer", "startPipeline",
             "completePipeline", "failPipeline", "completeStage",
             "recoverStage", "failStage", "retryStage"}

PCs == WritePCs \cup {"idle", "startStage", "runAgent"}

Init ==
    /\ api = [p \in Pids |-> NoPipeline] /\ cache = api
    /\ cms = [name \in FullNames |-> Absent] /\ cmCache = cms
    /\ queue = <<>> /\ dirty = {} /\ delayed = {}
    /\ pid = NoPid /\ pc = "idle" /\ obj = NoPipeline /\ cur = 0 /\ out = NoOutput
    /\ upsets = 0
    /\ lastRead = [p \in Pids |-> 0] /\ waited = [p \in Pids |-> 0]
--------------------------------------------------------------------------------
(* The work queue of client-go: a pipeline is in it once, and one that is       *)
(* reconciled at the moment is put back only when the worker is done with it.    *)

(* Seeded bug: a pipeline that is queued already is queued again. *)
Add_Twice(p) ==
    /\ dirty' = dirty \cup {p}
    /\ queue' = IF p = pid THEN queue ELSE Append(queue, p)

Add(p) ==
    /\ dirty' = dirty \cup {p}
    /\ queue' = IF p \in dirty \/ p = pid THEN queue ELSE Append(queue, p)

(* Reconcile returns and the worker is done with the pipeline; later says who   *)
(* is to be added after a delay.                                                 *)
Done(later) ==
    /\ queue' = IF pid \in dirty THEN Append(queue, pid) ELSE queue
    /\ dirty' = dirty
    /\ delayed' = delayed \cup later
    /\ pid' = NoPid /\ pc' = "idle" /\ obj' = NoPipeline /\ cur' = 0 /\ out' = NoOutput

TimerFires(p) ==
    /\ p \in delayed
    /\ delayed' = delayed \ {p}
    /\ Add(p)
    /\ UNCHANGED <<resourceVars, configMapVars, workerVars, upsets, observedVars>>

(* Seeded bug: a predicate on the generation, which hides changes of the status. *)
Deliver_GenerationChanged(p) ==
    /\ cache[p] # api[p]
    /\ cache' = [cache EXCEPT ![p] = api[p]]
    /\ IF api[p].phase = cache[p].phase /\ api[p].stages = cache[p].stages
       THEN Add(p) ELSE UNCHANGED <<queue, dirty>>
    /\ UNCHANGED <<api, configMapVars, delayed, workerVars, upsets, observedVars>>

(* The informer reports a change of the resource (For). *)
Deliver(p) ==
    /\ cache[p] # api[p]
    /\ cache' = [cache EXCEPT ![p] = api[p]]
    /\ Add(p)
    /\ UNCHANGED <<api, configMapVars, delayed, workerVars, upsets, observedVars>>

(* The informer reports a change of a ConfigMap to its owner (Owns). *)
DeliverConfigMap(name) ==
    /\ cmCache[name] # cms[name]
    /\ cmCache' = [cmCache EXCEPT ![name] = cms[name]]
    /\ Add(IF cms[name] # Absent THEN cms[name].owner ELSE cmCache[name].owner)
    /\ UNCHANGED <<resourceVars, cms, delayed, workerVars, upsets, observedVars>>
--------------------------------------------------------------------------------
(* Users and the garbage collector.  The informer is at most one version behind *)
(* a user's write.                                                               *)

Bounded(stored, copies) ==
    Cardinality({k \in DOMAIN stored : stored[k] # copies[k]}) <= MaxBehind

UserWrites(p, new) ==
    /\ cache[p] = api[p]
    /\ api' = [api EXCEPT ![p] = new] /\ Bounded(api', cache)
    /\ UNCHANGED <<cache, configMapVars, queueVars, workerVars, observedVars>>

UserCreates(p) ==
    /\ api[p].uid = 0
    /\ UserWrites(p, Created(api[p], SpecOf[p]))
    /\ UNCHANGED upsets

Upset == upsets < MaxUpsets /\ upsets' = upsets + 1

UserTouches(p) ==
    /\ api[p].live /\ Upset
    /\ UserWrites(p, Written(api[p]))

UserDeletes(p) ==
    /\ api[p].live /\ ~api[p].deleting /\ Upset
    /\ UserWrites(p, IF api[p].finalizer
                     THEN Written([api[p] EXCEPT !.deleting = TRUE])
                     ELSE Removed(api[p]))

CollectGarbage ==
    /\ \E name \in FullNames :
          /\ cms[name] # Absent /\ ~api[cms[name].owner].live
          /\ cms' = [cms EXCEPT ![name] = Absent] /\ Bounded(cms', cmCache)
    /\ UNCHANGED <<resourceVars, cmCache, queueVars, workerVars, upsets, observedVars>>
--------------------------------------------------------------------------------
(* The worker takes the first pipeline of the queue and decides on the cache's  *)
(* copy of it.                                                                   *)

CurrentStage(o) == CHOOSE i \in DOMAIN o.stages : FindCurrentStage(o, i)

ReconcileStep(o) ==
    IF NothingToDo(o) THEN "nothing"
    ELSE IF o.deleting THEN "removeFinalizer"
    ELSE IF o.phase \in {"", "Pending"}
         THEN IF ~o.finalizer THEN "addFinalizer"
              ELSE IF o.spec.stages = <<>> THEN "failPipeline" ELSE "startPipeline"
    ELSE IF AllFinished(o) THEN "completePipeline"
    ELSE StageStep(o, CurrentStage(o))

InStage(o) == o.phase = "Running" /\ ~o.deleting /\ ~AllFinished(o)

Reconcile ==
    /\ pc = "idle" /\ queue # <<>>
    /\ LET p == Head(queue)
           o == cache[p]
           step == ReconcileStep(o)
       IN  /\ queue' = Tail(queue) /\ dirty' = dirty \ {p}
           /\ lastRead' = [lastRead EXCEPT ![p] = o.rv] /\ waited' = [waited EXCEPT ![p] = 0]
           /\ IF step \in {"nothing", "wait"}
              THEN /\ delayed' = delayed \cup (IF step = "wait" THEN {p} ELSE {})
                   /\ UNCHANGED workerVars
              ELSE /\ pid' = p /\ pc' = step /\ obj' = o
                   /\ cur' = IF InStage(o) THEN CurrentStage(o) ELSE 0
                   /\ UNCHANGED <<delayed, out>>
    /\ UNCHANGED <<resourceVars, configMapVars, upsets>>

Target == FullName(pid, obj.spec.stages[cur].name)

(* Every output that BuildPipelineContext asks for is there, in the informer's   *)
(* store.                                                                        *)
ContextComplete ==
    \A j \in DOMAIN obj.stages :
        obj.stages[j].phase = "Completed" =>
            cmCache[FullName(pid, obj.spec.stages[j].name)] # Absent

RunAgent ==
    /\ pc' = "runAgent" /\ out' = NoOutput
    /\ waited' = [p \in Pids |-> IF p \in Range(queue) THEN waited[p] + 1 ELSE waited[p]]

startStage ==
    /\ pc = "startStage"
    /\ IF cmCache[Target] # Absent
       THEN pc' = "recoverStage" /\ out' = cmCache[Target].out /\ waited' = waited
       ELSE IF ContextComplete /\ obj.spec.stages[cur].prompt # "invalid"
       THEN RunAgent
       ELSE pc' = "failStage" /\ UNCHANGED <<out, waited>>
    /\ UNCHANGED <<resourceVars, configMapVars, queueVars, pid, obj, cur, upsets, lastRead>>

(* What CreateOrUpdate finds in the informer's store decides whether it writes, *)
(* and the API server refuses a create or an update that is behind.  (Equal       *)
(* contents are equal versions: only a write from an up-to-date store changes     *)
(* one.)                                                                         *)
StoreWrites(output) == cmCache[Target] = Absent \/ cmCache[Target].out # output

StoreAccepted == cmCache[Target] = cms[Target]

(* A ConfigMap that exists keeps its owner. *)
NewConfigMap(output) ==
    [owner |-> IF cms[Target] = Absent THEN pid ELSE cms[Target].owner, out |-> output]

(* The agent answers and CreateOrUpdate stores the output. *)
AgentCompletes ==
    /\ pc = "runAgent"
    /\ \E output \in Answers[pid] :
          /\ out' = output
          /\ \/ ~StoreWrites(output) /\ cms' = cms
             \/ /\ StoreWrites(output) /\ StoreAccepted
                /\ cms' = [cms EXCEPT ![Target] = NewConfigMap(output)]
                /\ Bounded(cms', cmCache)
    /\ pc' = "completeStage"
    /\ UNCHANGED <<resourceVars, cmCache, queueVars, pid, obj, cur, upsets, observedVars>>

(* The agent answers, and the API server refuses the output. *)
StoreRefused ==
    /\ pc = "runAgent"
    /\ \E output \in Answers[pid] : StoreWrites(output) /\ ~StoreAccepted
    /\ Done({pid})
    /\ UNCHANGED <<resourceVars, configMapVars, upsets, observedVars>>

(* Seeded bug: a failed call is repeated before the worker moves on. *)
AgentFails_RetriesAtOnce ==
    /\ pc = "runAgent"
    /\ RunAgent
    /\ UNCHANGED <<resourceVars, configMapVars, queueVars, pid, obj, cur, upsets, lastRead>>

(* Seeded bug: the call has no deadline. *)
AgentFails_NoDeadline ==
    /\ pc = "runAgent" /\ pid \notin Mute
    /\ pc' = "failStage"
    /\ UNCHANGED <<resourceVars, configMapVars, queueVars, pid, obj, cur, out, upsets,
                   observedVars>>

(* The agent fails, or the deadline of the call passes. *)
AgentFails ==
    /\ pc = "runAgent"
    /\ pc' = "failStage"
    /\ UNCHANGED <<resourceVars, configMapVars, queueVars, pid, obj, cur, out, upsets,
                   observedVars>>
--------------------------------------------------------------------------------
(* The one write of the resource that ends a reconcile. *)

(* What each handler makes of its copy. *)
Outcome ==
    CASE pc = "addFinalizer"     -> Written(AddFinalizer(obj))
      [] pc = "removeFinalizer"  -> Removed(obj)
      [] pc = "startPipeline"    -> Written(StartPipeline(obj))
      [] pc = "completePipeline" -> Written(CompletePipeline(obj))
      [] pc = "failPipeline"     -> Written(FailPipeline(obj))
      [] pc = "completeStage"    -> Written(CompleteStage(obj, cur, out))
      [] pc = "recoverStage"     -> Written(RecoverStage(obj, cur, out))
      [] pc = "failStage"        -> Written(FailStage(obj, cur))
      [] pc = "retryStage"       -> Written(RetryStage(obj, cur))

(* Who asks to be added again; a backoff of zero does not.                      *)
Requeues ==
    CASE pc \in {"removeFinalizer", "completePipeline", "failPipeline"} -> {{}}
      [] pc = "retryStage" -> {{}, {pid}}
      [] OTHER -> {{pid}}

(* Seeded bug: a write without a resource version. *)
WriteAccepted_Unversioned == api[pid].live

WriteAccepted == api[pid].live /\ api[pid].rv = obj.rv

WriteBack ==
    /\ pc \in WritePCs /\ WriteAccepted
    /\ api' = [api EXCEPT ![pid] = Outcome] /\ Bounded(api', cache)
    /\ \E later \in Requeues : Done(later)
    /\ UNCHANGED <<cache, configMapVars, upsets, observedVars>>

WriteRefused ==
    /\ pc \in WritePCs /\ ~WriteAccepted
    /\ Done({pid})
    /\ UNCHANGED <<resourceVars, configMapVars, upsets, observedVars>>

WriteFails ==
    /\ pc \in WritePCs /\ Upset
    /\ Done({pid})
    /\ UNCHANGED <<resourceVars, configMapVars, observedVars>>

Live == {p \in Pids : api[p].live}

(* The operator restarts; every resource is queued, in whatever order it is     *)
(* listed.                                                                       *)
Restart ==
    /\ Upset
    /\ cache' = api /\ cmCache' = cms /\ delayed' = {}
    /\ dirty' = Live /\ \E q \in SetToSeqs(Live) : queue' = q
    /\ pid' = NoPid /\ pc' = "idle" /\ obj' = NoPipeline /\ cur' = 0 /\ out' = NoOutput
    /\ waited' = [p \in Pids |-> 0]
    /\ UNCHANGED <<api, cms, lastRead>>
--------------------------------------------------------------------------------
AgentAnswers == AgentCompletes \/ StoreRefused

Worker ==
    \/ Reconcile \/ startStage \/ AgentAnswers \/ AgentFails
    \/ WriteBack \/ WriteRefused

Next ==
    \/ \E p \in Pids :
          \/ UserCreates(p) \/ UserTouches(p) \/ UserDeletes(p)
          \/ TimerFires(p) \/ Deliver(p)
    \/ \E name \in FullNames : DeliverConfigMap(name)
    \/ CollectGarbage
    \/ Worker
    \/ WriteFails \/ Restart

Spec == Init /\ [][Next]_vars

(* What the worker does by itself: a call of an agent in Mute ends with the     *)
(* deadline and not otherwise.                                                   *)
WorkerGoesOn ==
    \/ Reconcile \/ startStage \/ AgentFails \/ (pid \notin Mute /\ AgentAnswers)
    \/ WriteBack \/ WriteRefused

(* The worker goes on, watches deliver and timers fire. *)
FairSpec ==
    /\ Spec
    /\ WF_vars(WorkerGoesOn)
    /\ \A p \in Pids : WF_vars(TimerFires(p)) /\ WF_vars(Deliver(p))
    /\ \A name \in FullNames : WF_vars(DeliverConfigMap(name))
--------------------------------------------------------------------------------
(* Every variable keeps its type, and the queue is well formed: no pipeline is  *)
(* in it twice, and what is dirty is in it or in the worker's hands.             *)
TypeOK ==
    /\ api \in [Pids -> Pipelines] /\ cache \in [Pids -> Pipelines]
    /\ cms \in [FullNames -> ConfigMaps] /\ cmCache \in [FullNames -> ConfigMaps]
    /\ queue \in Seq(Pids) /\ IsInjective(queue)
    /\ dirty \subseteq Pids /\ dirty \ {pid} = Range(queue) /\ delayed \subseteq Pids
    /\ pid \in Pids \cup {NoPid} /\ pc \in PCs /\ (pc = "idle" <=> pid = NoPid)
    /\ obj \in Pipelines /\ cur \in Nat /\ out \in Outputs \cup {NoOutput}
    /\ upsets \in 0..MaxUpsets
    /\ lastRead \in [Pids -> Nat] /\ waited \in [Pids -> Nat]

(* Each pipeline, among the others, follows the lifecycle of a single one.      *)
Life(p) == INSTANCE PipelineLifecycle WITH api <- api[p]

(* Whatever the worker does in between for others, its writes of a pipeline are *)
(* steps of that pipeline's lifecycle (Reconcile and all it calls).              *)
ImplementLifecycles ==
    /\ \A p \in Pids : Life(p)!LifecycleInit
    /\ [][\A p \in Pids : [Life(p)!LifecycleNext]_(api[p])]_api

(* RunAgent blocks the only worker, but a reconcile makes one call at most: a   *)
(* pipeline in the queue waits for no more than one call of each other pipeline. *)
WaitBounded ==
    \A p \in Range(queue) : waited[p] < Cardinality(Pids)

(* SetupWithManager watches with no predicate: a version that no reconcile has  *)
(* read is on its way or queued, also when it appeared during a reconcile.       *)
ChangesSeen ==
    \A p \in Pids : api[p].live /\ lastRead[p] # api[p].rv =>
        cache[p] # api[p] \/ p \in dirty

(* A Completed stage shows an answer of its own pipeline's agent, and the       *)
(* ConfigMap it refers to holds one (a later one after a stale rerun), and is    *)
(* owned by that pipeline.                                                       *)
OutputsApart ==
    \A p \in Pids : api[p].live =>
        \A i \in DOMAIN api[p].stages :
            api[p].stages[i].phase = "Completed" =>
                LET cm == cms[FullName(p, api[p].stages[i].name)] IN
                /\ cm.owner = p /\ cm.out \in Answers[p]
                /\ \E output \in Answers[p] : api[p].stages[i].out = truncateOutput(output)

(* Every pipeline ends, or is deleted, also behind one whose agent never        *)
(* answers: the deadline of that call gives the worker back.                     *)
AllTerminate ==
    \A p \in Pids : api[p].live ~> (~api[p].live \/ api[p].deleting \/ Terminal(api[p]))
================================================================================
