------------------------------- MODULE AgentRunner -------------------------------
(* The contract of the AgentRunner interface for one call of RunAgent: it       *)
(* blocks until the agent completes, fails, or the context is cancelled, returns *)
(* once, and blames the context only when the context has ended.                 *)

CONSTANTS
    Texts,        \* non-empty texts an agent writes
    HasDeadline   \* the context of the call ends at some time

VARIABLES
    state,     \* "calling" or "returned"
    expired,   \* ctx.Err() # nil
    result     \* what RunAgent returned

RunStatuses == {"Completed", "Failed", "TimedOut"}

(* A result without a status stands for a non-nil error. *)
Error == [status |-> "error", output |-> <<>>]
NoResult == [status |-> "none", output |-> <<>>]

Init ==
    /\ state = "calling" /\ expired = FALSE /\ result = NoResult

Expire ==
    /\ HasDeadline /\ ~expired
    /\ expired' = TRUE
    /\ UNCHANGED <<state, result>>

Return ==
    /\ state = "calling" /\ state' = "returned"
    /\ result'.status \in RunStatuses \cup {"error"}
    /\ result'.status = "TimedOut" => expired
    /\ UNCHANGED expired

Next == Expire \/ Return

Spec == Init /\ [][Next]_<<state, expired, result>>
================================================================================
