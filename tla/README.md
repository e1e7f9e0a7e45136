# A TLA+ model of the AgentPipeline operator

The repository is a home cluster (Terraform, Ansible, Argo CD, Kyverno) and one program,
`agentpipeline-operator`: a Kubernetes operator that runs an `AgentPipeline` resource by
invoking a kagent agent for each of its stages. This project models that program: the
controller with the API server, caches and queue it lives on, and the runner that talks to
kagent. Paths below are relative to `agentpipeline-operator/`.

## 1. Inventory

| Part | State it keeps | Operations | Interacts with |
|---|---|---|---|
| `AgentPipeline` resource (`api/v1alpha1/agentpipeline_types.go`) | spec (stages, retry policy), status (phase, currentStage, stage statuses), finalizer, deletion timestamp, resource version | written by users (spec, deletion) and by the controller (finalizer, status) | stored by the API server, cached by the informer |
| `AgentPipelineReconciler` (`internal/controller/agentpipeline_controller.go`) | none between reconciles; the copy of the resource while one runs | `Reconcile`, `handleDeletion`, `handlePending`, `handleRunning`, `startStage`, `completeStage`, `completeStageFromOutput`, `failStage`, `retryStage`, `completePipeline`, `failPipeline` | reads through the manager's cached client, writes with optimistic concurrency, blocks in `RunAgent` |
| `StageHandler` (`internal/controller/stage_handler.go`) | none; outputs live in ConfigMaps named after pipeline and stage | `FindCurrentStage`, `AreDependenciesMet`, `InitStageStatuses`, `GetEffectiveRetryPolicy`, `BuildPipelineContext`, `RenderPrompt`, `StoreOutput`, `truncateOutput` | called by the reconciler; ConfigMaps through the cached client |
| `AgentRunner` / `A2ARunner` (`internal/runner`) | one HTTP response being parsed | `RunAgent` (`parseSSEStream`, `processEvent`, `extractText`), `CheckHealth` (never called) | kagent over HTTP and server-sent events; the deadline of the stage |
| Manager (`cmd/main.go`), controller-runtime, API server, garbage collector | informer caches, work queue (one worker), stored objects | watches `For(AgentPipeline)`, `Owns(ConfigMap)`; requeues; restarts | external; modelled from how the code uses them |

The hard behaviour is all in how these meet. The controller is a state machine driven by
`status.phase` and must survive: reads from caches that lag; a user who edits, deletes or
recreates the resource while an agent runs for minutes; a status write that is refused after
the output was stored; API errors and restarts between any two steps; requeues that race
watch events; a stream that breaks or stalls. Several pipelines share one queue, one worker
that blocks while an agent runs, and one name space of ConfigMaps. What makes each part correct:

* reconciler: each write is a legal step on the resource as stored, nothing reported is undone,
  stages go in order, work is never dropped, pipelines end, deletions complete;
* handler: the output a status refers to exists, belongs to the pipeline and is an answer of that
  stage's agent; each agent is given an answer of its predecessor; a stage reported as Completed
  did run;
* queue and worker: no change goes unreconciled, a pipeline whose agent never answers does not
  stop the others, and what they store stays apart;
* runner: the incremental parser agrees with the stream as a whole, and `RunAgent` returns.

`PROJECT.json` lists the components that are not modelled with the reason for each, and the
hazards, at their lines, with the properties that cover them.

## 2. Modules

| Module | Content |
|---|---|
| `AgentPipeline` | The resource as data, and what each function of `stage_handler.go` and each handler of the controller computes on one copy of it. No state. |
| `PipelineLifecycle` | Abstract specification: one variable `api`, the stored resource. What users and the operator may do to it, each step on the resource as it stands. |
| `Reconciler` | One pipeline in detail: API server, ConfigMaps, lagging informer caches, the worker, faults, users, garbage collector. Extends `PipelineLifecycle` and shares its variable. |
| `ReconcilerClaims` | Statements of the repository's documents that the code does not always keep. |
| `Operator` | Several pipelines in coarser steps, behind one work queue and one worker; refines `PipelineLifecycle` once per pipeline. |
| `AgentRunner` | The contract of one `RunAgent` call. |
| `A2ARunner` | `RunAgent` on an event stream, line by line; refines `AgentRunner`. |
| `A2AStream` | What a whole stream means, as a reference for the parser. |
| `MCReconciler`, `MCOperator`, `MCA2ARunner` | Small instances for TLC. |
| `AgentPipelineProofs`, `LifecycleProofs`, `ReconcilerProofs`, `OperatorProofs`, `A2ARunnerProofs` | Theorems and proofs about the module of the same name. |
| `OutputProofs`, `InvocationProofs` | More about `Reconciler`: what becomes of outputs, and how often agents are invoked. |
| `A2AStreamProofs` | The parser against the whole stream. |

Operators named `X_Something` just before `X` are seeded bugs: plausible mistakes in the code
that `X` models, used to see that each property can fail. They are part of no specification.

### How the reconciler is cut into steps

A reconcile is one thread, but others run between its calls. So it is split where it reads,
calls an agent or writes:

1. `ReconcileNothing`, `handleDeletion`, `handlePending`, `handleRunning...`: take the queue
   entry, read the resource from the informer's store (`ReadPipeline`), decide. `pc` says which
   call comes next; `obj` is the copy, `cur` the stage.
2. `startStage`: the idempotency guard reads the stage's ConfigMap, also from the informer's store
   (`ReadConfigMap`).
3. `buildContext`: the outputs of earlier stages are read in the same way, the prompt is rendered
   and the agent invoked; a context or a prompt that cannot be made fails the stage.
4. `AgentCompletes` / `AgentFails`: the agent answers, and `CreateOrUpdate` reads.
5. `StoreOutput`, `StoreUnchanged`, `StoreRefused`: `CreateOrUpdate` writes.
6. One write of the resource (`addFinalizer` ... `retryStage`), accepted only if the stored
   version is the one read; otherwise `UpdateRefused`, which returns the error and requeues.

The reads of step 3 are one step although they are one per stage; only ConfigMap versions
could change between them. `startStage` sets phase Running and `currentStage` in its copy
only, as the code does, so both show in the write that ends the reconcile. A panic in
`FindCurrentStage` (spec shorter than the statuses) is recovered by controller-runtime and
requeued. `retryStage` asks for a delay that may be zero, and `RequeueAfter: 0` is no requeue.
On a graceful shutdown the context of `RunAgent` is cancelled and the status write that follows
uses the same cancelled context, so it is a `Restart` like a crash.

The informers (`cache`, `watch`; `cmCache`, `cmWatch`) receive versions in order and may skip
some (a relist); pipeline and ConfigMap informers are independent, which is what lets a status
be seen before the output it refers to. Every delivery queues the resource, since
`SetupWithManager` has no predicate. `queue` holds "ready" (now) and "delayed" (RequeueAfter).

`cmd/main.go:194` and `198` give both the reconciler and the handler `mgr.GetClient()`, so all
reads are from these stores, and there is no other kind of read in the model. Such a read finds
the object or does not; it has no other error.

`calls` and `done` are observations for the properties and steer nothing. `done` holds the answers
of this resource's agents, each with its stage. `calls` counts, for each stage, the invocations
that begin with nothing out of date: for the stored version of the resource, and with no output of
the stage stored. (How often the others happen is up to the caches alone; that there are any is the
subject of `stale_rerun`.)

Abstractions: one pipeline at a time, of one name, with several incarnations; outputs are short
byte strings and the status limit is 4 instead of 1024; a prompt is one that renders or one
that does not, plus the previous output it is given; timestamps, conditions, events, logs and
error texts are left out.

### The operator as a whole

`Operator` keeps of the reconciler what pipelines can do to each other. `Reconcile` pops the
head of the queue and decides on the cached copy with the same operators of `AgentPipeline`;
`startStage`, `AgentCompletes`, `AgentFails` and one write (`WriteBack`, `WriteRefused`,
`WriteFails`) follow. The queue is client-go's: `queue` in order, `dirty` for what must be
reconciled (again), `delayed` for rate limits and `RequeueAfter`; `Add` puts a pipeline in once,
and one that is being reconciled is put back when the worker is `Done`. A ConfigMap's name is
the sequence of the words between its dashes (`Words`, `FullName`), so that `a` + `b-stage-c`
and `a-stage-b` + `c` really are the same name. The agents of pipelines in `Mute` need not
answer: they are left out of the fairness, and only the deadline (`AgentFails`) is sure to end
their calls.

Pipelines and ConfigMaps are read from the informers' stores here too, and `CreateOrUpdate` is
refused when its copy is behind (`StoreRefused`). The module is coarser than `Reconciler` where
that one already looks closer: an informer that catches up takes the newest version,
`CreateOrUpdate` reads and writes in one step, specs are not edited (labels are), a pipeline is
created once, and the informer is at most one version behind when a user writes. `MaxBehind`
bounds the number of objects of a kind that an informer is behind on. `lastRead` and `waited`
are observations.

## 3. Runs

Passing runs:

| Run | Checks | Instance |
|---|---|---|
| `cached` | `TypeOK`, `StagesInOrder`, `PhaseTellsStages`, `NotForgotten`, `OutputKept`, `CompletedStageRan`, `StoredOutputGenuine`, `PromptFromPrevious`, `InvocationsAccounted`, `ImplementsLifecycle`, `NothingUndone`, `ContextLostOnlyToLag` | caches up to two versions behind, one or two stages (which only their places keep in order), an output that just fits the status and one that is cut; one edit (which may add or remove a stage, the retry policy or a template that renders) or deletion, one fault |
| `liveness` | `Terminates`, `DeletionFinishes`, `CleanedUp` | the same lag, two edits or deletions, one fault; specs of one stage, of two, and of two that depend on each other |
| `operator` | `TypeOK`, `ChangesSeen`, `OutputsApart`, `WaitBounded`, `ImplementLifecycles`, `AllTerminate` | two pipelines with a stage of the same name; the agent of one has two answers to choose from and need not give any; one edit, deletion, API error or restart at any moment |
| `stream` | `TypeOK`, `ResultMatchesStream`, `ImplementsContract`, `Returns` | six kinds of payload (one is an error that comes with a result), five lines, a deadline |

Bounds. Two stages are enough for order, dependencies and the previous output, since the
controller looks at one stage and those before it. A lag of two versions lets a cache miss both
of two consecutive writes; one edit and one fault anywhere give every single interruption of a
reconcile, and the two edits of `liveness` let one block a pipeline and another free or delete
it. One retry gives both sides of the retry boundary. Two pipelines are enough for one to be
changed, queued or deleted while the other holds the worker, and `MaxUpsets` = 1 puts one
disturbance at any point of that; `MaxBehind` = 1 lets both informers be behind on a pipeline and
its output at once, which is what a stale guard needs. Retries of `Operator` are in its proofs and
not in its run. All its safety properties are proved for any number of pipelines, upsets and
objects behind (section 4). Five lines hold two whole events, an event with two data lines or
two blank lines in a row.
`MaxRuns` caps the counters above anything the bounds allow where a property reads them.
Deadlock is not checked: the system rests when there is no pipeline or a finished one.

Fairness (`FairSpec`): in `Reconciler` the worker goes on, the watches deliver, timers elapse
and garbage is collected. That the worker goes on includes `RunAgent` returning, which is what
`stream` shows of a stage with a deadline. In `Operator` watches and timers are fair for each
pipeline, and the worker as a whole: the order of the queue decides whom it serves, so that
nobody is starved is a result and not an assumption. In `A2ARunner` the goroutine runs and the
deadline passes; the server owes nothing, so before it answers only the deadline ends the call.
Users and faults are never fair. `Terminates` and `AllTerminate` are about edits and faults that
stop, as bounds make them do. `Terminates` excuses a pipeline only while its spec blocks it
(`Blocked`): an edit has taken its current stage away, and `FindCurrentStage` panics at each
reconcile (`handleRunningPanic`), or the stage depends on one that is not Completed, and it is
looked at every few seconds for ever. Both happen in `liveness`. Since the property is about every
state, a pipeline that an edit frees has to go on; and `DeletionFinishes` has no such excuse.

The weak half of `ResultMatchesStream` (the output is one of the sources as a whole) leaves open
which source wins; the repository's README says which, and `artifacts` checks that.

Runs that end in a counterexample, each against a statement of the repository (quoted in
`PROJECT.json` under `findings`):

| Run | Property | What happens |
|---|---|---|
| `stale_rerun` | `StoredOutputNotRerun` | the guard reads a stale cache, and an agent whose output is stored runs again |
| `failure_conflict` | `NoDuplicateInvocation` | a conflict on failStage's write forgets the failure, and the agent runs again uncounted |
| `backoff` | `BackoffHonoured` | retryStage's own write wakes the worker before the delay is over |
| `stale_output` | `CompletedStageRan` | a recreated pipeline adopts its predecessor's outputs |
| `oversized` | `Terminates` | an output that cannot be stored makes the agent run again for ever |
| `name_collision` | `OutputsApart` | two pipelines whose names and stage names join to one ConfigMap name: the second adopts the first one's output |
| `artifacts` | `ArtifactsPreferred` | a completed event with a message hides the artifacts streamed before it |
| `added_stage` | `AllStagesCompleted` | a stage added to a running pipeline is never run, and the pipeline is Completed |

What the cached client costs, and what is left. After a stale rerun the ConfigMap of a Completed
stage may hold a newer answer than its status shows, since the status write of the rerun is
refused; so the two need not match, and an agent need not be given what the status of its
predecessor shows. What remains true, and is checked and proved, is that both are answers of the
right agent for this resource, stored and passed on in full and shown in full or cut
(`CompletedStageRan`, `StoredOutputGenuine`, `PromptFromPrevious`). A ConfigMap cache that is behind the status can fail
a stage before its agent runs, for want of its predecessor's output, and that costs a retry or the
pipeline; while the pipeline exists, nothing else loses a context (`ContextLostOnlyToLag`). And no invocation that began on current data
is wasted without a cause (`InvocationsAccounted`), while those on stale data are not bounded by
anything the controller does.

`CompletedStageRan`, `Terminates` and `OutputsApart` hold in the passing runs and fail in these.
The conditions under which they hold are in the instances of the passing runs, and those of the
safety properties are hypotheses of the theorems in section 4: a stage name stands for one
position and there is one incarnation (`CompletedStageRan`), outputs fit a ConfigMap
(`Terminates`), names cannot be confused (`OutputsApart`). None of them is enforced by the code or
by the CRD. With the same modules and other constants one sees what else follows when they do not
hold: of two stages with one name the second is completed with the first one's output;
`currentStage` names the previous stage while an agent runs; a stage timeout of 0 is no deadline
at all (`HasDeadline = FALSE`). `truncateOutput` counts and cuts bytes, so a multi-byte character
at the cut is split.

## 4. Proofs

For every value of the constants (any specs, outputs, lag, number of edits, faults,
incarnations, pipelines), from the named assumptions of the modules only:

* `TruncateAbbreviates`: what `truncateOutput` makes of any output is the output itself or, at
  exactly the limit, the mark and the output's end.
* `LifecycleInOrder`, `LifecycleTruthful`, `LifecycleNothingUndone`: `StagesInOrder`,
  `PhaseTellsStages` and `NothingUndone` hold of the lifecycle. The inductive invariant `LInv`
  is the type, the first two of these, and that no stage is ever stored as Running or Skipped and
  exactly the Completed ones refer to an output. Without that last part a finished stage need not
  be a Completed one, and neither the order nor the meaning of Completed is inductive.
* `ReconcilerTyped`, `ReconcilerImplements`: the reconciler keeps its types and implements the
  lifecycle. The invariant `RInv` has two main parts. `VersionsOK`: any copy of the resource (in
  the cache, on its way, in the worker's hands) whose version is the stored one equals the stored
  resource; so an accepted write works on the current resource, however stale the read. `PcOK`:
  what the worker established of its copy at each place, which is the guard of the lifecycle
  action its write stands for. The rest (`SpecsOK`, `OutputsOK`) bounds what copies contain.
  This covers recreation under the same name, which the runs that expect no violation leave out.
* `ReconcilerInOrder`, `ReconcilerTruthful`, `ReconcilerNothingUndone` follow by refinement.
* `ReconcilerNotForgotten`: with `InformerOK` (the informer is up to date or the current version is
  on its way), each return without a requeue is justified by the stored resource or is
  followed by an event.
* `OperatorTyped`, `OperatorImplements`: for any finite set of pipelines the queue is well formed
  and each pipeline follows its own lifecycle. `OInv` is built like `RInv`, per pipeline
  (`IsCopy`, `Known`, `PcOK`), with `QueueOK`: no pipeline is queued twice, and what is dirty is
  queued or in the worker's hands. Every step is one of two kinds, a write of one resource
  (`Writes`) or of none (`Quiet`), and the rest of the argument needs no more than that.
* `OperatorChangesSeen`: a new version differs from the cache until it is delivered, delivery
  makes the pipeline dirty, and only a reconcile, which reads the cache, makes it clean.
* `OperatorWaitBounded`: the invariant is `PlacesOK`, that the calls a pipeline has waited for,
  its place in the queue and the call the worker may still begin never exceed the number of
  pipelines; it holds because the queue has no duplicates and not the worker's own pipeline.
* `OperatorOutputsApart`: under `NamesApart` (no two pipelines can give a ConfigMap the same
  name, which the instance of `operator` satisfies and that of `name_collision` does not). The
  invariant adds `OwnersOK`, that what either store holds under a pipeline's name is its own and an
  answer of its agents, `StoredOK`, that what the informer still shows is there unless the pipeline
  is gone, and `HeldOK`, that the output the worker is about to report is an answer and one is
  stored.
* `OperatorPlainNames`: `NamesApart` follows from `PlainNames`, a rule a cluster can keep: no
  pipeline has the word `stage` between the dashes of its name. The first such word of a
  ConfigMap's name is then where the pipeline's name ends; stages may be called anything.
* `RunnerTyped`, `RunnerKeepsContract`: `A2ARunner` keeps its types and implements `AgentRunner`,
  for any payloads, stream length and buffer.
* `RunnerResult`: `ResultMatchesStream`, for streams of any length. The invariant `Following`
  says that until it returns the runner has passed no terminal event, its current event is the
  one a blank line would end now (`OpenData`), and its texts are those of all events that have
  ended. The steps are what one more line does to `OpenData`, `Terminals` and `ArtifactTexts`.

Outputs (`OutputProofs`). The conditions are named there: `OneIncarnation`, the resource is not
created again under its name, and `NamesFixPositions`, a stage name stands for one position in
every spec the users write. Each is needed: TLC finds counterexamples without them (recreation in
`stale_output`; two stages that swap names in an edit break `CompletedStageRan`). Lag, edits and
faults are unbounded.

* `OutputsKept`: under `OneIncarnation`, a Completed stage refers to a ConfigMap that exists and is
  the pipeline's. `KeptInv` adds to `RInv` that every version of a ConfigMap, stored, cached or on
  its way, belongs to the only incarnation (`OwnersOK`), and that past the store the worker's own
  ConfigMap is there unless the pipeline is gone (`WorkerStored`), since only the garbage collector
  removes one and only after its owner.
* `ContextsLostOnlyToLag`: `RefsLive` says that whatever any copy of the living resource refers to,
  an old copy too, is in the API server. So a context that cannot be built was read from a store
  that is behind.
* `CompletedStagesRan`, `StoredOutputsGenuine`, `PromptsFromPrevious`: under both conditions.
  `RanInv` says that whatever any version of the ConfigMaps holds under a stage's name is an answer
  of that stage's agent (`StoredRan`), that what the worker holds between its steps is one too
  (`WorkerRan`), and that Completed stages, in any copy, refer to ConfigMaps named for them
  (`RefNames`) and show answers (`ShownRan`). Staleness does no harm to these: an old version
  is still a true one, and `done` only grows while the resource lives.

Invocations (`InvocationProofs`):

* `InvocationsBounded`: with one incarnation and outputs that fit a ConfigMap, for any lag. The
  bound is not inductive; the invariant is a budget (`Affordable`). A stage that waits has spent no
  more than its retries, the edits and the faults; one invocation is added while the status
  shows its result or the worker holds it (`Held`: its copy is still the stored version and, before
  the output is stored, nothing is stored under its name). From there only a disturbance, which
  raises the budget by one, keeps the result out of the status: a stale cache cannot, because
  writes of the worker itself end its reconcile, and a ConfigMap that CreateOrUpdate does not see
  cannot be there. Both conditions are used: an output that is refused costs invocations that
  nothing accounts for (the instance of `oversized`), and a cache that shows a ConfigMap of an
  earlier resource makes `CreateOrUpdate` fail.

Every safety property of the passing runs is thus proved. Checked by TLC only: everything under
fairness (`Terminates`, `DeletionFinishes`, `CleanedUp`, `AllTerminate`, `Returns`), which is out
of the prover's reach. The library's induction theorems take an operator and cannot be applied
with the provers at hand; where induction over data is needed (`FlattenSeq`, maxima) the proofs
use the well-foundedness of the naturals for sets instead (`LeastNatural`, `SetInduction`). The inductive
invariants were model-checked on small instances of their modules before they were proved. The
proof of `RunnerResult` found one slip in the reference: it took the message of a terminal event by its
state alone, while an error that comes with a result is a failure whatever state the result has
(`processEvent` looks at the error first). `A2AStream` says so now.

## 5. Not modelled

* Leader election, which the code leaves to controller-runtime (`config/manager/manager.yaml`
  turns it on, with one replica). A handover is modelled as a `Restart`; that the old leader's
  agent call may still be running then is not.
* Users who edit or delete output ConfigMaps: nothing in the code defends against it.
* Characters of an output (the model has bytes), template syntax, and JSON.
* `MockRunner` (a test double that answers at once), `CheckHealth` (never called, no state),
  flags, metrics, probes and scheme registration in `cmd/main.go`, generated code, manifests.
* Everything outside `agentpipeline-operator/`, which is declarative configuration.

## 6. Plan

1. Done: data and lifecycle; reconciler, runner and operator with their runs; theorems for every
   safety property of the passing runs.
2. Left to prove: a bound on invocations that begin on stale data, in terms of the versions the
   caches are behind.
3. Leader election: a handover in which the old leader's last write is still on its way.
