------------------------------- MODULE MCOperator -------------------------------
(* Instances of Operator for TLC. *)
EXTENDS Operator

OneStageOf(name) ==
    [stages |-> <<[name |-> name, dependsOn |-> {}, retry |-> 0, prompt |-> "default"]>>,
     retry |-> NoPolicy]

MCBytes    == {0, 1, 2, 3}
MCEllipsis == <<0, 0, 0>>

(* Two pipelines with a stage of the same name; the agent of p may answer twice  *)
(* differently, and need not answer at all.                                      *)
MCPids   == {"p", "q"}
MCNames  == {"s"}
MCSpecOf == [p \in MCPids |-> OneStageOf("s")]
MCSpecs  == {OneStageOf("s")}
MCWords  == [p |-> <<"p">>, q |-> <<"q">>, s |-> <<"s">>]
MCAnswers == [p |-> {<<1>>, <<3>>}, q |-> {<<2>>}]
MCOutputs == UNION {MCAnswers[p] : p \in MCPids}
MuteP    == {"p"}

(* Pipeline "a" with stage "b-stage-c" and pipeline "a-stage-b" with stage "c". *)
ClashPids    == {"a", "a-stage-b"}
ClashNames   == {"b-stage-c", "c"}
ClashSpecOf  == [p \in ClashPids |-> OneStageOf(IF p = "a" THEN "b-stage-c" ELSE "c")]
ClashSpecs   == {ClashSpecOf[p] : p \in ClashPids}
ClashWords   == [name \in ClashPids \cup ClashNames |->
                    CASE name = "a" -> <<"a">>
                      [] name = "a-stage-b" -> <<"a", "stage", "b">>
                      [] name = "b-stage-c" -> <<"b", "stage", "c">>
                      [] name = "c" -> <<"c">>]
ClashAnswers == [p \in ClashPids |-> IF p = "a" THEN {<<1>>} ELSE {<<2>>}]
================================================================================
