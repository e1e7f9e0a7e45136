---------------------------- MODULE ReconcilerClaims ----------------------------
(* What the repository's documents say of the controller and the controller     *)
(* does not always do.  Each claim is stated as it is written there; the runs    *)
(* that check them end in a counterexample.                                      *)
EXTENDS Reconciler

(* NOTE.md: the ConfigMap is a durable fact, so the controller "recupere depuis *)
(* la ConfigMap au lieu de relancer l'agent".  No agent whose output is stored   *)
(* is invoked (startStage's guard, then RunAgent).                               *)
StoredOutputNotRerun ==
    [][pc = "buildContext" /\ pc' = "runAgent" => ~Stored.live]_vars

(* README: "guards against duplicate agent invocations caused by Kubernetes     *)
(* ResourceVersion conflicts".  Conflicts alone never make startStage invoke an  *)
(* agent more often than the retries account for.                                *)
NoDuplicateInvocation ==
    api.live =>
        \A i \in DOMAIN api.stages : calls[i] <= 1 + api.stages[i].retries

(* GUIDE.md: Completed means "tous les stages termines", and completePipeline   *)
(* reports "All stages completed".  When it is written every stage of the spec   *)
(* is Completed.                                                                 *)
AllStagesCompleted ==
    [][api.phase # "Completed" /\ api'.phase = "Completed" =>
          \A i \in DOMAIN api.spec.stages :
              i \in DOMAIN api.stages /\ api.stages[i].phase = "Completed"]_api

(* GUIDE.md: "attendre 30s avant de retenter".  handleRunning starts no stage   *)
(* while the delay that retryStage asked for is still running.                   *)
BackoffHonoured ==
    [][pc = "idle" /\ pc' = "startStage" => "delayed" \notin queue]_vars
================================================================================
