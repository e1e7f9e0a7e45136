------------------------------ MODULE MCReconciler ------------------------------
(* Instances of Reconciler for TLC. *)
EXTENDS ReconcilerClaims

Stage(name, deps, retry, template) ==
    [name |-> name, dependsOn |-> deps, retry |-> retry, prompt |-> template]

Pipeline(stages, retry) == [stages |-> stages, retry |-> retry]

MCNames == {"a", "b"}

(* Two bytes and the dot; the status keeps four: one output just fits it, one  *)
(* is cut.                                                                       *)
MCBytes    == {0, 1, 2}
MCEllipsis == <<0, 0, 0>>
Short      == <<1>>
Long       == <<1, 1, 1, 1, 2>>
Exact      == <<1, 2, 1, 2>>
MCOutputs  == {Exact, Long}
ShortOnly  == {Short}
LongOnly   == {Long}

(* Two stages, the first with one retry that it inherits. *)
TwoStages == Pipeline(<<Stage("a", {}, NoPolicy, "default"),
                        Stage("b", {"a"}, 0, "template")>>, 1)

(* The same, but only their places keep them in order. *)
Independent == Pipeline(<<Stage("a", {}, NoPolicy, "default"),
                          Stage("b", {}, 0, "template")>>, 1)

(* The first of them alone, as it is, and without a retry to inherit and with a *)
(* template that does not render.                                                *)
OneStage == Pipeline(<<Stage("a", {}, NoPolicy, "default")>>, 1)
Unsound  == Pipeline(<<Stage("a", {}, NoPolicy, "invalid")>>, NoPolicy)

(* Two stages that wait for each other, until the first of them is Completed;  *)
(* then the template of the second does not render.                              *)
Circular == Pipeline(<<Stage("a", {"b"}, NoPolicy, "default"),
                       Stage("b", {"a"}, 1, "invalid")>>, NoPolicy)

OneStageSpecs == {OneStage}
GrowingSpecs  == {OneStage, TwoStages}
ResizedSpecs  == {Independent, Unsound}
BlockingSpecs == {OneStage, TwoStages, Circular}
================================================================================
