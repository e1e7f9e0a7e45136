---------------------------- MODULE A2ARunnerProofs ----------------------------
(* RunAgent keeps its types and the AgentRunner contract, for any texts,        *)
(* payloads, streams and buffers.                                                *)
EXTENDS A2ARunner, SequenceTheorems, TLAPS

Verdicts == {"none", "Completed", "Failed"}

(* Whatever the data of an event is, its texts are sequences of texts.          *)
LEMMA PayloadTexts ==
    ASSUME NEW p \in Payloads \cup {NoPayload}
    PROVE  /\ p.artifact \in Seq(Texts) /\ p.message \in Seq(Texts)
           /\ Verdict(p) \in Verdicts
<1>1. CASE p \in Payloads
  <2>1. p \in PayloadType
    BY <1>1, RunnerAssumption
  <2> QED
    BY <2>1 DEF PayloadType, Verdict, Verdicts
<1>2. CASE p = NoPayload
  BY <1>2, EmptySeq DEF NoPayload, Verdict, Verdicts
<1> QED
  BY <1>1, <1>2

(* A line's data is the data of an event, or nothing. *)
LEMMA LineData ==
    ASSUME NEW l \in Lines
    PROVE  l.data \in Payloads \cup {NoPayload}
BY DEF Lines, Blank, Ignored, DataLine

(* Init gives every variable a value of its type. *)
LEMMA InitTyped == Init => TypeOK
<1> SUFFICES ASSUME Init PROVE TypeOK
  OBVIOUS
<1>1. <<>> \in Seq(Lines) /\ <<>> \in Seq(Texts)
  BY EmptySeq
<1>2. Blank \in Lines
  BY DEF Lines
<1>3. 0 \in 0..MaxLines
  BY RunnerAssumption
<1>4. Pending \in [status: {"none", "error", "Completed", "Failed", "TimedOut"},
                   output: Seq(Texts)]
  BY <1>1 DEF Pending
<1> QED
  BY <1>1, <1>2, <1>3, <1>4 DEF Init, TypeOK

(* Both kinds of error are typed results. *)
LEMMA ErrorTyped ==
    ASSUME TypeOK, ReturnError
    PROVE  TypeOK'
BY EmptySeq DEF TypeOK, ReturnError, Return, Result, Error

LEMMA ParseTyped ==
    ASSUME TypeOK, ParseLine
    PROVE  TypeOK'
<1> USE DEF TypeOK
<1>1. read' \in Seq(Lines)
  BY DEF ParseLine
<1>2. CASE CloseEvent
  <2> DEFINE texts == IF data.kind = "task" THEN artifacts \o data.artifact ELSE artifacts
  <2>1. texts \in Seq(Texts)
    BY PayloadTexts
  <2>2. FinalOutput(data, texts) \in Seq(Texts)
    BY <2>1, PayloadTexts DEF FinalOutput
  <2>3. Result(Verdict(data), FinalOutput(data, texts))
          \in [status: {"none", "error", "Completed", "Failed", "TimedOut"},
               output: Seq(Texts)]
    BY <2>2, PayloadTexts DEF Result, Verdicts
  <2>4. /\ artifacts' = texts /\ data' = NoPayload
        /\ \/ pc' = "returned" /\ result' = Result(Verdict(data), FinalOutput(data, texts))
           \/ pc' = "scan" /\ result' = result
    BY <1>2 DEF CloseEvent
  <2> HIDE DEF texts
  <2> QED
    BY <1>1, <2>1, <2>3, <2>4 DEF ParseLine
<1>3. CASE FieldLine
  BY <1>1, <1>3, LineData DEF ParseLine, FieldLine
<1> QED
  BY <1>2, <1>3 DEF ParseLine

(* Every step of the runner and of its environment keeps the types. *)
LEMMA NextTyped == TypeOK /\ [Next]_vars => TypeOK'
<1> SUFFICES ASSUME TypeOK, [Next]_vars PROVE TypeOK'
  OBVIOUS
<1>1. CASE Expire
  BY <1>1 DEF Expire, TypeOK
<1>2. CASE Send
  BY <1>2, RunnerAssumption DEF Send, TypeOK
<1>3. CASE Hangup
  BY <1>3 DEF Hangup, TypeOK
<1>4. CASE ConnectFails \/ ScanFails \/ CancelledBetweenLines
  BY <1>4, ErrorTyped DEF ConnectFails, ScanFails, CancelledBetweenLines
<1>5. CASE Refused \/ EndOfStream
  <2>1. <<>> \in Seq(Texts)
    BY EmptySeq
  <2>2. Return(Result("Failed", <<>>))
    BY <1>5 DEF Refused, EndOfStream
  <2> QED
    BY <2>1, <2>2 DEF Return, Result, TypeOK
<1>6. CASE Connected
  BY <1>6 DEF Connected, TypeOK
<1>7. CASE Scan
  BY <1>7 DEF Scan, TypeOK
<1>8. CASE ParseLine
  BY <1>8, ParseTyped
<1>9. CASE UNCHANGED vars
  BY <1>9 DEF vars, TypeOK
<1> QED
  BY <1>1, <1>2, <1>3, <1>4, <1>5, <1>6, <1>7, <1>8, <1>9 DEF Next, Runner

(* RunAgent and its stream keep their types, whatever the server sends. *)
THEOREM RunnerTyped == Spec => []TypeOK
BY InitTyped, NextTyped, PTL DEF Spec

(* The contract's state, read off the program counter. *)
Progress == IF pc = "returned" THEN "returned" ELSE "calling"

(* A step that returns is the contract's only step besides the deadline. *)
LEMMA Returning ==
    ASSUME pc # "returned", pc' = "returned", UNCHANGED expired,
           result'.status \in {"Completed", "Failed", "TimedOut", "error"},
           result'.status = "TimedOut" => expired
    PROVE  Contract!Next
BY DEF Contract!Next, Contract!Return, Contract!RunStatuses

LEMMA ErrorReturns ==
    ASSUME pc # "returned", ReturnError
    PROVE  Contract!Next
<1>1. /\ pc' = "returned" /\ UNCHANGED expired
      /\ result' = IF expired THEN Result("TimedOut", <<>>) ELSE Error
  BY DEF ReturnError, Return
<1>2. result'.status = IF expired THEN "TimedOut" ELSE "error"
  BY <1>1 DEF Result, Error
<1> QED
  BY <1>1, <1>2, Returning

(* Every step of the runner is a step of the contract or leaves it alone. *)
LEMMA NextKeepsContract ==
    TypeOK /\ [Next]_vars => [Contract!Next]_(<<Progress, expired, result>>)
<1> SUFFICES ASSUME TypeOK, [Next]_vars
             PROVE  Contract!Next \/ UNCHANGED <<Progress, expired, result>>
  OBVIOUS
<1>1. CASE Expire
  BY <1>1 DEF Expire, Contract!Next, Contract!Expire
<1>2. CASE Send \/ Hangup \/ Connected \/ Scan
  BY <1>2 DEF Send, Hangup, Connected, Scan, Progress
<1>3. CASE ConnectFails \/ ScanFails \/ CancelledBetweenLines
  BY <1>3, ErrorReturns DEF ConnectFails, ScanFails, CancelledBetweenLines
<1>4. CASE Refused \/ EndOfStream
  BY <1>4, Returning DEF Refused, EndOfStream, Return, Result
<1>5. CASE ParseLine
  <2>1. CASE FieldLine
    BY <1>5, <2>1 DEF ParseLine, FieldLine, Progress
  <2>2. CASE CloseEvent
    <3> DEFINE texts == IF data.kind = "task" THEN artifacts \o data.artifact ELSE artifacts
    <3>1. CASE Verdict(data) = "none"
      BY <1>5, <2>2, <3>1 DEF ParseLine, CloseEvent, Progress
    <3>2. CASE Verdict(data) # "none"
      <4>1. pc' = "returned" /\ result' = Result(Verdict(data), FinalOutput(data, texts))
        BY <2>2, <3>2 DEF CloseEvent
      <4>2. result'.status \in {"Completed", "Failed"}
        BY <3>2, <4>1, PayloadTexts DEF Result, Verdicts, TypeOK
      <4> QED
        BY <1>5, <4>1, <4>2, Returning DEF ParseLine
    <3> QED
      BY <3>1, <3>2
  <2> QED
    BY <1>5, <2>1, <2>2 DEF ParseLine
<1>6. CASE UNCHANGED vars
  BY <1>6 DEF vars, Progress
<1> QED
  BY <1>1, <1>2, <1>3, <1>4, <1>5, <1>6 DEF Next, Runner

(* RunAgent implements the AgentRunner contract: it returns once, with a        *)
(* verdict or an error, and blames the deadline only when that has passed.       *)
THEOREM RunnerKeepsContract == Spec => ImplementsContract
<1>1. Init => Contract!Init
  BY DEF Init, Pending, Contract!Init, Contract!NoResult
<1>2. TypeOK /\ [Next]_vars => [Contract!Next]_(<<Progress, expired, result>>)
  BY NextKeepsContract
<1>3. TypeOK /\ [Next]_vars
        => [Contract!Next]_<<IF pc = "returned" THEN "returned" ELSE "calling",
                             expired, result>>
  BY <1>2 DEF Progress
<1> QED
  BY <1>1, <1>3, RunnerTyped, PTL DEF Spec, ImplementsContract, Contract!Spec
================================================================================
