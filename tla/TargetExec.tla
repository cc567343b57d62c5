----------------------------- MODULE TargetExec -----------------------------
(***************************************************************************)
(* What afl-fuzz relies on when it runs the target: a test case goes in,   *)
(* and what comes out (a verdict and a coverage map) is an outcome of that *)
(* very test case.  While nothing runs, the coverage map does not change.  *)
(* Forkserver.tla is shown to implement this specification.                *)
(***************************************************************************)
CONSTANTS
    Inputs,        \* test cases
    Outcome(_),    \* Outcome(i): the <<verdict, map>> pairs input i can have
    NoInput, NoAnswer

VARIABLES
    phase,         \* "idle", "running" or "over"
    input,         \* the test case last submitted
    answer,        \* its <<verdict, map>>, once the run has returned
    halting        \* the user asked the fuzzer to stop

vars == <<phase, input, answer, halting>>

Init ==
    /\ phase = "idle"
    /\ input = NoInput
    /\ answer = NoAnswer
    /\ halting = FALSE

\* A test case is handed over.
Submit(i) ==
    /\ phase = "idle"
    /\ phase' = "running"
    /\ input' = i
    /\ answer' = NoAnswer
    /\ UNCHANGED halting

\* The run returns.  Once the user asked to stop, callers discard the answer,
\* so nothing is promised about it.
Answer ==
    /\ phase = "running"
    /\ phase' = "idle"
    /\ answer' # NoAnswer
    /\ halting \/ answer' \in Outcome(input)
    /\ UNCHANGED <<input, halting>>

\* The user asks the fuzzer to stop.
Halt ==
    /\ halting' = TRUE
    /\ UNCHANGED <<phase, input, answer>>

\* The fuzzer stops running targets: it was asked to, or it cannot go on.
GiveUp ==
    /\ phase # "over"
    /\ phase' = "over"
    /\ answer' = NoAnswer
    /\ UNCHANGED <<input, halting>>

Next == (\E i \in Inputs : Submit(i)) \/ Answer \/ Halt \/ GiveUp

Spec == Init /\ [][Next]_vars
=============================================================================
