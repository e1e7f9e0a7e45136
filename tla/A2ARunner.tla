-------------------------------- MODULE A2ARunner --------------------------------
(* A2ARunner.RunAgent: one HTTP request to kagent whose response is a stream of *)
(* server-sent events, read line by line until an event ends the task, the       *)
(* stream ends or the deadline passes.  The server, the connection and the clock *)
(* are the environment.  A text is the sequence of its non-empty parts, which is *)
(* what joining them with a newline keeps apart.                                 *)
EXTENDS Naturals, Sequences

CONSTANTS
    Texts,        \* non-empty texts an agent writes
    Payloads,     \* what the data of an event may decode to
    HasDeadline,  \* req.Timeout > 0
    MaxLines,     \* bound: lines the server sends
    MaxBuffered   \* bound: lines received and not scanned

States == {"", "working", "completed", "failed", "canceled"}

(* The data of an event, decoded: not JSON, a JSON-RPC error, a response with   *)
(* no result, or a task update with artifact parts, a state and message parts.   *)
PayloadType ==
    [kind: {"noise", "rpcError", "noResult", "task"}, artifact: Seq(Texts),
     state: States, message: Seq(Texts)]

NoPayload == [kind |-> "none", artifact |-> <<>>, state |-> "", message |-> <<>>]

(* A line is empty, a data field (NoPayload: with nothing in it), or a field    *)
(* that is only logged.                                                          *)
Blank   == [field |-> "blank", data |-> NoPayload]
Ignored == [field |-> "other", data |-> NoPayload]
DataLine(p) == [field |-> "data", data |-> p]
Lines   == {Blank, Ignored} \cup {DataLine(p) : p \in Payloads \cup {NoPayload}}

ASSUME RunnerAssumption ==
    /\ Payloads \subseteq PayloadType
    /\ HasDeadline \in BOOLEAN
    /\ MaxLines \in Nat /\ MaxBuffered \in Nat

VARIABLES
    pc,         \* "connect", "scan", "line", "returned"
    expired,    \* ctx.Err() # nil
    wire,       \* lines received and not scanned
    open,       \* "open", "closed" (end of stream) or "broken" (read error)
    sent,       \* lines sent so far (bound)
    line,       \* the line scanned last
    data,       \* currentEvent.Data
    artifacts,  \* artifactTexts
    result,     \* the result under construction, then the one returned
    read        \* observation: the lines the parser has looked at

vars == <<pc, expired, wire, open, sent, line, data, artifacts, result, read>>

Pending == [status |-> "none", output |-> <<>>]
Result(status, output) == [status |-> status, output |-> output]
Error == Result("error", <<>>)

Init ==
    /\ pc = "connect" /\ expired = FALSE
    /\ wire = <<>> /\ open = "open" /\ sent = 0
    /\ line = Blank /\ data = NoPayload /\ artifacts = <<>> /\ result = Pending
    /\ read = <<>>
--------------------------------------------------------------------------------
(* The environment. *)

(* The deadline of context.WithTimeout passes. *)
Expire ==
    /\ HasDeadline /\ ~expired /\ pc # "returned"
    /\ expired' = TRUE
    /\ UNCHANGED <<pc, wire, open, sent, line, data, artifacts, result, read>>

Send ==
    /\ pc \in {"scan", "line"} /\ open = "open" /\ sent < MaxLines
    /\ Len(wire) < MaxBuffered
    /\ \E l \in Lines : wire' = Append(wire, l)
    /\ sent' = sent + 1
    /\ UNCHANGED <<pc, expired, open, line, data, artifacts, result, read>>

(* The server ends the response, or the connection breaks. *)
Hangup ==
    /\ pc \in {"scan", "line"} /\ open = "open"
    /\ open' \in {"closed", "broken"}
    /\ UNCHANGED <<pc, expired, wire, sent, line, data, artifacts, result, read>>
--------------------------------------------------------------------------------
(* The runner. *)

Return(r) ==
    /\ pc' = "returned" /\ result' = r
    /\ UNCHANGED <<expired, wire, open, sent, line, data, artifacts, read>>

(* Seeded bug: every error is taken for a timeout. *)
ReturnError_AlwaysTimeout == Return(Result("TimedOut", <<>>))

(* An error is reported as a timeout if the context has ended by then. *)
ReturnError == Return(IF expired THEN Result("TimedOut", <<>>) ELSE Error)

(* httpClient.Do: no response, or one with a status other than 200. *)
ConnectFails == pc = "connect" /\ ReturnError

Refused == pc = "connect" /\ ~expired /\ Return(Result("Failed", <<>>))

Connected ==
    /\ pc = "connect" /\ ~expired
    /\ pc' = "scan"
    /\ UNCHANGED <<expired, wire, open, sent, line, data, artifacts, result, read>>

(* scanner.Scan() finds a line; buffered lines are found even after the end of  *)
(* the context.                                                                  *)
Scan ==
    /\ pc = "scan" /\ wire # <<>>
    /\ line' = Head(wire) /\ wire' = Tail(wire)
    /\ pc' = "line"
    /\ UNCHANGED <<expired, open, sent, data, artifacts, result, read>>

(* Seeded bug: the read is not tied to the context. *)
ScanFails_IgnoresContext ==
    /\ pc = "scan" /\ wire = <<>> /\ open = "broken"
    /\ ReturnError

(* scanner.Scan() ends: the transport reports the end of the context, or the    *)
(* connection broke (or a line was too long), or the stream is over, in which   *)
(* case the context is not looked at again.                                      *)
ScanFails ==
    /\ pc = "scan" /\ wire = <<>> /\ (expired \/ open = "broken")
    /\ ReturnError

EndOfStream ==
    /\ pc = "scan" /\ wire = <<>> /\ open = "closed"
    /\ Return(Result("Failed", <<>>))

CancelledBetweenLines ==
    /\ pc = "line" /\ expired
    /\ ReturnError

(* Seeded bug: the server's state is passed on as the status. *)
Verdict_RawState(p) ==
    IF p.kind = "rpcError" THEN "Failed"
    ELSE IF p.kind = "task" /\ p.state \in {"failed", "canceled", "completed"} THEN p.state
    ELSE "none"

(* processEvent's verdict on the task. *)
Verdict(p) ==
    IF p.kind = "rpcError" \/ (p.kind = "task" /\ p.state \in {"failed", "canceled"})
    THEN "Failed"
    ELSE IF p.kind = "task" /\ p.state = "completed" THEN "Completed"
    ELSE "none"

(* result.Output after a terminal event, artifacts included. *)
FinalOutput(p, texts) ==
    IF Verdict(p) = "Completed" /\ p.message # <<>> THEN p.message ELSE texts

(* Seeded bug: the event is not forgotten. *)
CloseEvent_KeepsData ==
    /\ line = Blank
    /\ LET texts == IF data.kind = "task" THEN artifacts \o data.artifact ELSE artifacts
       IN  /\ artifacts' = texts
           /\ IF Verdict(data) # "none"
              THEN pc' = "returned" /\ result' = Result(Verdict(data), FinalOutput(data, texts))
              ELSE pc' = "scan" /\ result' = result
    /\ data' = data

(* An empty line closes the event: a terminal one returns, any other is folded  *)
(* into the artifacts and forgotten.  An event without data does nothing.        *)
CloseEvent ==
    /\ line = Blank
    /\ LET texts == IF data.kind = "task" THEN artifacts \o data.artifact ELSE artifacts
       IN  /\ artifacts' = texts
           /\ IF Verdict(data) # "none"
              THEN pc' = "returned" /\ result' = Result(Verdict(data), FinalOutput(data, texts))
              ELSE pc' = "scan" /\ result' = result
    /\ data' = NoPayload

(* A second data line replaces the first. *)
FieldLine ==
    /\ line # Blank
    /\ data' = IF line.field = "data" THEN line.data ELSE data
    /\ pc' = "scan"
    /\ UNCHANGED <<artifacts, result>>

ParseLine ==
    /\ pc = "line" /\ ~expired
    /\ CloseEvent \/ FieldLine
    /\ read' = Append(read, line)
    /\ UNCHANGED <<expired, wire, open, sent, line>>

Runner ==
    \/ ConnectFails \/ Refused \/ Connected
    \/ Scan \/ ScanFails \/ EndOfStream
    \/ CancelledBetweenLines \/ ParseLine

Next == Expire \/ Send \/ Hangup \/ Runner

Spec == Init /\ [][Next]_vars

(* The goroutine runs, and a deadline passes.  The server owes nothing: until   *)
(* it answers the request only the end of the context ends httpClient.Do.        *)
Unblocked == Runner /\ (pc = "connect" => expired)

FairSpec == Spec /\ WF_vars(Unblocked) /\ WF_vars(Expire)
--------------------------------------------------------------------------------
(* Every variable of RunAgent and of its stream keeps its type. *)
TypeOK ==
    /\ pc \in {"connect", "scan", "line", "returned"} /\ expired \in BOOLEAN
    /\ wire \in Seq(Lines) /\ open \in {"open", "closed", "broken"}
    /\ sent \in 0..MaxLines /\ line \in Lines
    /\ data \in Payloads \cup {NoPayload} /\ artifacts \in Seq(Texts)
    /\ result \in [status: {"none", "error", "Completed", "Failed", "TimedOut"},
                   output: Seq(Texts)]
    /\ read \in Seq(Lines)

Contract == INSTANCE AgentRunner
    WITH state <- IF pc = "returned" THEN "returned" ELSE "calling"

(* RunAgent keeps the AgentRunner contract: it returns once, with a status or an *)
(* error, and TimedOut only after the context has ended.                         *)
ImplementsContract == Contract!Spec
================================================================================
