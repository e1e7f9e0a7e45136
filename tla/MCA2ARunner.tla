------------------------------ MODULE MCA2ARunner ------------------------------
(* Instances of A2ARunner for TLC. *)
EXTENDS A2AStream

MCTexts == {"x", "y"}

Task(parts, status, text) ==
    [kind |-> "task", artifact |-> parts, state |-> status, message |-> text]

Bare(what) == [kind |-> what, artifact |-> <<>>, state |-> "", message |-> <<>>]

MCPayloads ==
    {Bare("noise"),
     [Task(<<"x">>, "completed", <<"y">>) EXCEPT !.kind = "rpcError"],
     Task(<<"x">>, "working", <<"y">>), Task(<<"y">>, "completed", <<>>),
     Task(<<>>, "completed", <<"y">>), Task(<<>>, "canceled", <<"x">>)}
================================================================================
