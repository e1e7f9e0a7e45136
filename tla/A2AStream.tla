-------------------------------- MODULE A2AStream --------------------------------
(* What parseSSEStream should make of a stream, said of the whole stream at     *)
(* once, and the runner's incremental result compared with it.                   *)
EXTENDS A2ARunner, SequencesExt, FiniteSetsExt

Blanks(ls) == {b \in DOMAIN ls : ls[b] = Blank}

(* The data of the event that the blank line b ends: that of its last data line. *)
EventData(ls, b) ==
    LET start  == Max({0} \cup {c \in Blanks(ls) : c < b})
        fields == {k \in (start + 1)..(b - 1) : ls[k].field = "data"}
    IN  IF fields = {} THEN NoPayload ELSE ls[Max(fields)].data

Terminals(ls) == {b \in Blanks(ls) : Verdict(EventData(ls, b)) # "none"}

(* The artifact texts of all task events that end at or before line b. *)
ArtifactTexts(ls, b) ==
    FlattenSeq([k \in 1..b |-> IF k \in Blanks(ls) /\ EventData(ls, k).kind = "task"
                               THEN EventData(ls, k).artifact ELSE <<>>])

(* Where the texts of a terminal event's answer may come from. *)
Sources(ls, b) ==
    LET p == EventData(ls, b) IN
    {ArtifactTexts(ls, b)} \cup (IF Verdict(p) = "Completed" THEN {p.message} ELSE {})

(* RunAgent's answer is that of the first terminal event, nothing is read after *)
(* it, and without one no call ever reports Completed.  Its output is one of the *)
(* sources as a whole, nothing of an older event mixed in, and is empty only if  *)
(* all of them are (a2a_runner.go, parseSSEStream).                              *)
ResultMatchesStream ==
    LET ends == Terminals(read) IN
    IF ends = {} THEN result.status # "Completed"
    ELSE LET b == Min(ends) IN
         /\ pc = "returned" /\ b = Len(read)
         /\ result.status = Verdict(EventData(read, b))
         /\ result.output \in Sources(read, b)
         /\ result.output = <<>> => Sources(read, b) = {<<>>}

(* README.md, "Output sources": task_artifact_update events are "preferred - the *)
(* agent's final answer", status.message is the "fallback".                      *)
ArtifactsPreferred ==
    LET texts == ArtifactTexts(read, Len(read)) IN
    result.status = "Completed" /\ texts # <<>> => result.output = texts

(* RunAgent returns: a stage cannot hold the worker for ever (StageSpec:        *)
(* "timeout is the maximum duration to wait for the agent to complete").         *)
Returns == <>(pc = "returned")
================================================================================
