----------------------------- MODULE Forkserver -----------------------------
(***************************************************************************)
(* One afl-fuzz process, the fork server inside the target, and the target *)
(* processes it forks.  The three share two pipes (control and status) and *)
(* the coverage map, and act on each other with signals:                   *)
(*                                                                         *)
(*   - the fuzzer runs afl_fsrv_run_target (src/afl-forkserver.c), gives   *)
(*     up on slow targets, and may be told to stop at any instant;         *)
(*   - the server runs the loop of __afl_start_forkserver                  *)
(*     (instrumentation/afl-compiler-rt.o.c) or, for targets without one,  *)
(*     afl_fauxsrv_execv;                                                  *)
(*   - a target process runs once and exits or, in persistent mode, stops  *)
(*     itself after every input (__afl_persistent_loop).                   *)
(***************************************************************************)
EXTENDS Naturals, FiniteSets, Sequences

CONSTANTS
    Inputs,      \* test cases
    Kind,        \* Kind[i]: what the target does with i: "ok", "crash", "hang"
    Pid,         \* process ids of target processes
    NoPid,       \* fsrv->child_pid = -1
    NoInput,     \* before the first test case
    Mode,        \* "persistent", "fork" or "faux"
    MaxCnt,      \* the bound of __AFL_LOOP()
    KillSignal   \* AFL_KILL_SIGNAL: "KILL" (the default) or "TERM"

ASSUME ConstantsAssumption ==
    /\ Kind \in [Inputs -> {"ok", "crash", "hang"}]
    /\ NoPid \notin Pid
    /\ NoInput \notin Inputs
    /\ Mode \in {"persistent", "fork", "faux"}
    /\ MaxCnt \in Nat \ {0}
    /\ KillSignal \in {"KILL", "TERM"}

VARIABLES
    \* afl_forkserver_t and the fuzzer's place in afl_fsrv_run_target
    pc, child_pid, last_run_timed_out, child_status, verdict, stop_soon,
    testcase,
    \* the server's locals and its place in the loop
    fpc, was_killed, child_stopped, server_child, fork_result, server_status,
    sigterm,
    \* the kernel: pipes, target processes, the shared coverage map
    ctl, st, proc, trace_bits

fuzzer == <<pc, child_pid, last_run_timed_out, child_status, verdict,
            stop_soon, testcase>>
server == <<fpc, was_killed, child_stopped, server_child, fork_result,
            server_status, sigterm>>
vars   == <<fuzzer, server, ctl, st, proc, trace_bits>>

(***************************************************************************)
(* The coverage map is the set of edges hit, each an input and a part of   *)
(* the program: start-up code (before any input), __afl_area_ptr[0] = 1,   *)
(* the EXEC_FAIL_SIG of a failed execv, the two halves of a run.           *)
(***************************************************************************)
Boot      == <<NoInput, "boot">>
Mark      == <<NoInput, "mark">>
ExecFail  == <<NoInput, "exec_fail">>
FirstHalf(i)  == <<i, "first_half">>
SecondHalf(i) == <<i, "second_half">>
Edges == (Inputs \cup {NoInput})
            \X {"boot", "mark", "exec_fail", "first_half", "second_half"}

(***************************************************************************)
(* Processes and signals.                                                  *)
(***************************************************************************)
Statuses == {"exit", "segv", "signal", "stop"}

Proc == [st     : {"free", "running", "stopped", "zombie"},
         at     : {"boot", "first", "again", "read", "body"},
         cycles : Nat,          \* cycle_cnt of __afl_persistent_loop
         served : Nat,          \* inputs read since the fork (history)
         inp    : Inputs \cup {NoInput},
         sig    : {"none", "KILL", "TERM"},
         status : Statuses]

Free == [st |-> "free", at |-> "boot", cycles |-> 0, served |-> 0,
         inp |-> NoInput, sig |-> "none", status |-> "exit"]

Alive(p) == proc[p].st \in {"running", "stopped"}
ServerUp == fpc \notin {"exited", "died"}

\* kill(p, s): pending until the kernel delivers it.  A pid that is not a
\* living target process is not affected.
Kill(p, s) ==
    IF p \in Pid /\ Alive(p) /\ proc[p].sig # "KILL"
    THEN [proc EXCEPT ![p].sig = s]
    ELSE proc

\* The status pipe is at end of file: empty, and every writer is gone.  A
\* freshly forked child holds the write end until it closes it.
Eof == /\ Len(st) = 0
       /\ ~ServerUp
       /\ \A p \in Pid : ~(proc[p].st = "running" /\ proc[p].at = "boot")

PidMsg(p)    == [what |-> "pid", val |-> p]
StatusMsg(s) == [what |-> "status", val |-> s]

Init ==
    /\ pc = "idle" /\ child_pid = NoPid /\ last_run_timed_out = FALSE
    /\ child_status = "exit" /\ verdict = "none" /\ stop_soon = FALSE
    /\ testcase = NoInput
    /\ fpc = "read" /\ was_killed = FALSE /\ child_stopped = FALSE
    /\ server_child = NoPid /\ fork_result = NoPid /\ server_status = "exit"
    /\ sigterm = FALSE
    /\ ctl = <<>> /\ st = <<>>
    /\ proc = [p \in Pid |-> Free]
    /\ trace_bits = {}

(***************************************************************************)
(* The fuzzer.                                                             *)
(***************************************************************************)
WriteTestcase(i) ==
    /\ pc = "idle"
    /\ pc' = "ready"
    /\ testcase' = i
    /\ UNCHANGED <<child_pid, last_run_timed_out, child_status, verdict,
                   stop_soon, server, ctl, st, proc, trace_bits>>

\* Clear the map, then ask for a run, telling the server whether the previous
\* child was killed.
RequestRun ==
    /\ pc = "ready" /\ ServerUp
    /\ pc' = "pid"
    /\ trace_bits' = {}
    /\ ctl' = Append(ctl, last_run_timed_out)
    /\ last_run_timed_out' = FALSE
    /\ UNCHANGED <<child_pid, child_status, verdict, stop_soon, testcase,
                   server, st, proc>>

\* "if (*stop_soon_p) return 0", else FATAL: 0 is FSRV_RUN_OK.
LoseServer ==
    /\ pc' = IF stop_soon THEN "stopped" ELSE "fatal"
    /\ verdict' = IF stop_soon THEN "OK" ELSE verdict
    /\ UNCHANGED <<child_pid, last_run_timed_out, child_status, stop_soon,
                   testcase, server, ctl, st, proc>>

RequestFails ==
    /\ pc = "ready" /\ ~ServerUp
    /\ trace_bits' = {}
    /\ LoseServer

ReadPid_Skips ==                \* mutant: the pid is left on the pipe
    /\ pc = "pid" /\ Len(st) > 0
    /\ pc' = "poll"
    /\ UNCHANGED <<child_pid, last_run_timed_out, child_status, verdict,
                   stop_soon, testcase, server, ctl, st, proc, trace_bits>>

ReadPid ==
    /\ pc = "pid" /\ Len(st) > 0
    /\ pc' = "poll"
    /\ child_pid' = Head(st).val
    /\ st' = Tail(st)
    /\ UNCHANGED <<last_run_timed_out, child_status, verdict, stop_soon,
                   testcase, server, ctl, proc, trace_bits>>

\* A read of the status pipe (of the pid, of the status, of the status after
\* a kill) finds the pipe closed.
ReadFails ==
    /\ pc \in {"pid", "read", "drain"} /\ Eof
    /\ LoseServer
    /\ UNCHANGED trace_bits

\* read_s32_timed: poll() reports the pipe readable (or closed).
PollReady ==
    /\ pc = "poll" /\ (Len(st) > 0 \/ Eof)
    /\ IF stop_soon
       THEN pc' = "stopped" /\ verdict' = "OK"
       ELSE pc' = "read" /\ UNCHANGED verdict
    /\ UNCHANGED <<child_pid, last_run_timed_out, child_status, stop_soon,
                   testcase, server, ctl, st, proc, trace_bits>>

PollTimeout_NoWait ==           \* mutant: does not wait for the status
    /\ pc = "poll" /\ Len(st) = 0 /\ ~Eof
    /\ pc' = "report"
    /\ proc' = Kill(child_pid, KillSignal)
    /\ child_pid' = NoPid
    /\ last_run_timed_out' = TRUE
    /\ UNCHANGED <<child_status, verdict, stop_soon, testcase, server, ctl,
                   st, trace_bits>>

PollTimeout_NoKill ==           \* mutant: waits without killing
    /\ pc = "poll" /\ Len(st) = 0 /\ ~Eof
    /\ pc' = "drain"
    /\ child_pid' = NoPid
    /\ last_run_timed_out' = TRUE
    /\ UNCHANGED <<child_status, verdict, stop_soon, testcase, server, ctl,
                   st, proc, trace_bits>>

\* Nothing came in time: kill the child, then wait for the server to say so.
PollTimeout ==
    /\ pc = "poll" /\ Len(st) = 0 /\ ~Eof
    /\ pc' = "drain"
    /\ proc' = Kill(child_pid, KillSignal)
    /\ child_pid' = NoPid
    /\ last_run_timed_out' = TRUE
    /\ UNCHANGED <<child_status, verdict, stop_soon, testcase, server, ctl,
                   st, trace_bits>>

ReadStatus ==
    /\ pc \in {"read", "drain"} /\ Len(st) > 0
    /\ pc' = "report"
    /\ child_status' = Head(st).val
    /\ st' = Tail(st)
    /\ UNCHANGED <<child_pid, last_run_timed_out, verdict, stop_soon,
                   testcase, server, ctl, proc, trace_bits>>

Verdict_NoExecFail ==           \* mutant: EXEC_FAIL_SIG is not looked for
    IF last_run_timed_out THEN "TMOUT"
    ELSE IF child_status \in {"segv", "signal"} THEN "CRASH"
    ELSE "OK"

Verdict ==
    IF ExecFail \in trace_bits THEN "ERROR"
    ELSE IF last_run_timed_out THEN "TMOUT"
    ELSE IF child_status \in {"segv", "signal"} THEN "CRASH"
    ELSE "OK"

Report ==
    /\ pc = "report"
    /\ pc' = "idle"
    /\ child_pid' = IF child_status = "stop" THEN child_pid ELSE NoPid
    /\ verdict' = Verdict
    /\ UNCHANGED <<last_run_timed_out, child_status, stop_soon, testcase,
                   server, ctl, st, proc, trace_bits>>

\* kill(fsrv_pid, SIGTERM).  The fauxserver was forked without an exec and has
\* inherited afl-fuzz's handler (with SA_RESTART), which in its copy of the state
\* finds no process to kill: the signal has no effect, the fauxserver goes on
\* until its pipes are closed.
TermServer == ServerUp /\ Mode # "faux"

\* handle_stop_sig -> afl_states_stop: between any two steps of the fuzzer.
StopSignal ==
    /\ pc # "closed" /\ ~stop_soon
    /\ stop_soon' = TRUE
    /\ proc' = Kill(child_pid, KillSignal)
    /\ sigterm' = TermServer
    /\ UNCHANGED <<pc, child_pid, last_run_timed_out, child_status, verdict,
                   testcase, fpc, was_killed, child_stopped, server_child,
                   fork_result, server_status, ctl, st, trace_bits>>

FsrvKill_OnlyInRun ==           \* mutant: stop_soon is seen by a run only
    /\ pc \in {"stopped", "fatal"}
    /\ pc' = "closed"
    /\ proc' = Kill(child_pid, KillSignal)
    /\ sigterm' = TermServer
    /\ child_pid' = NoPid
    /\ UNCHANGED <<last_run_timed_out, child_status, verdict, stop_soon,
                   testcase, fpc, was_killed, child_stopped, server_child,
                   fork_result, server_status, ctl, st, trace_bits>>

\* afl_fsrv_kill, on the way out.
FsrvKill ==
    /\ pc \in {"stopped", "fatal"} \/ (pc = "idle" /\ stop_soon)
    /\ pc' = "closed"
    /\ proc' = Kill(child_pid, KillSignal)
    /\ sigterm' = TermServer
    /\ child_pid' = NoPid
    /\ UNCHANGED <<last_run_timed_out, child_status, verdict, stop_soon,
                   testcase, fpc, was_killed, child_stopped, server_child,
                   fork_result, server_status, ctl, st, trace_bits>>

\* afl-fuzz itself is killed: its pipe ends close, no handler runs.
FuzzerDies ==
    /\ pc # "closed"
    /\ pc' = "closed"
    /\ UNCHANGED <<child_pid, last_run_timed_out, child_status, verdict,
                   stop_soon, testcase, server, ctl, st, proc, trace_bits>>

(***************************************************************************)
(* The fork server.                                                        *)
(***************************************************************************)
ServerRead_IgnoresKill ==       \* mutant: was_killed is not looked at
    /\ fpc = "read" /\ Len(ctl) > 0
    /\ was_killed' = Head(ctl)
    /\ ctl' = Tail(ctl)
    /\ fpc' = IF ~child_stopped THEN "fork" ELSE "resume"
    /\ UNCHANGED <<fuzzer, child_stopped, server_child, fork_result,
                   server_status, sigterm, st, proc, trace_bits>>

\* Read the request and decide what happens to a child stopped earlier: it is
\* written off if the fuzzer killed it after it had stopped.
ServerRead ==
    /\ fpc = "read" /\ Len(ctl) > 0
    /\ was_killed' = Head(ctl)
    /\ ctl' = Tail(ctl)
    /\ fpc' = IF ~child_stopped THEN "fork"
              ELSE IF was_killed' THEN "reap" ELSE "resume"
    /\ UNCHANGED <<fuzzer, child_stopped, server_child, fork_result,
                   server_status, sigterm, st, proc, trace_bits>>

ServerReap_NoWait ==            \* mutant: the killed child is not reaped
    /\ fpc = "reap"
    /\ fpc' = "fork"
    /\ child_stopped' = FALSE
    /\ UNCHANGED <<fuzzer, was_killed, server_child, fork_result,
                   server_status, sigterm, ctl, st, proc, trace_bits>>

\* waitpid(child_pid, &status, 0): returns once the child is dead.
ServerReap ==
    /\ fpc = "reap" /\ proc[server_child].st = "zombie"
    /\ fpc' = "fork"
    /\ child_stopped' = FALSE
    /\ proc' = [proc EXCEPT ![server_child] = Free]
    /\ UNCHANGED <<fuzzer, was_killed, server_child, fork_result,
                   server_status, sigterm, ctl, st, trace_bits>>

\* fork() has returned in the parent; its result is not stored yet.
ServerFork(p) ==
    /\ fpc = "fork" /\ proc[p].st = "free"
    /\ fpc' = "forked"
    /\ proc' = [proc EXCEPT ![p] = [Free EXCEPT !.st = "running"]]
    /\ fork_result' = p
    /\ UNCHANGED <<fuzzer, was_killed, child_stopped, server_child,
                   server_status, sigterm, ctl, st, trace_bits>>

ServerForked ==
    /\ fpc = "forked"
    /\ fpc' = "sendpid"
    /\ server_child' = fork_result
    /\ fork_result' = NoPid
    /\ UNCHANGED <<fuzzer, was_killed, child_stopped, server_status, sigterm,
                   ctl, st, proc, trace_bits>>

\* kill(child_pid, SIGCONT)
ServerResume ==
    /\ fpc = "resume"
    /\ fpc' = "sendpid"
    /\ child_stopped' = FALSE
    /\ proc' = IF proc[server_child].st = "stopped"
               THEN [proc EXCEPT ![server_child].st = "running"] ELSE proc
    /\ UNCHANGED <<fuzzer, was_killed, server_child, fork_result,
                   server_status, sigterm, ctl, st, trace_bits>>

ServerSendPid ==
    /\ fpc = "sendpid" /\ pc # "closed"
    /\ fpc' = "wait"
    /\ st' = Append(st, PidMsg(server_child))
    /\ UNCHANGED <<fuzzer, was_killed, child_stopped, server_child,
                   fork_result, server_status, sigterm, ctl, proc, trace_bits>>

\* waitpid(child_pid, &status, is_persistent ? WUNTRACED : 0)
ServerWait ==
    /\ fpc = "wait"
    /\ fpc' = "sendstatus"
    /\ \/ /\ proc[server_child].st = "zombie"
          /\ server_status' = proc[server_child].status
          /\ proc' = [proc EXCEPT ![server_child] = Free]
          /\ UNCHANGED child_stopped
       \/ /\ Mode = "persistent" /\ proc[server_child].st = "stopped"
          /\ server_status' = "stop"
          /\ child_stopped' = TRUE
          /\ UNCHANGED proc
    /\ UNCHANGED <<fuzzer, was_killed, server_child, fork_result, sigterm,
                   ctl, st, trace_bits>>

ServerSendStatus ==
    /\ fpc = "sendstatus" /\ pc # "closed"
    /\ fpc' = "read"
    /\ st' = Append(st, StatusMsg(server_status))
    /\ UNCHANGED <<fuzzer, was_killed, child_stopped, server_child,
                   fork_result, server_status, sigterm, ctl, proc, trace_bits>>

\* A read or write fails because the fuzzer is gone: _exit(1).
ServerHangup ==
    /\ pc = "closed"
    /\ fpc \in {"sendpid", "sendstatus"} \/ (fpc = "read" /\ Len(ctl) = 0)
    /\ fpc' = "died"
    /\ UNCHANGED <<fuzzer, was_killed, child_stopped, server_child,
                   fork_result, server_status, sigterm, ctl, st, proc,
                   trace_bits>>

\* at_exit, the server's SIGTERM handler: kill the child ...
AtExit ==
    /\ sigterm /\ ServerUp /\ fpc # "exiting"
    /\ fpc' = "exiting"
    /\ proc' = Kill(server_child, "KILL")
    /\ UNCHANGED <<fuzzer, was_killed, child_stopped, server_child,
                   fork_result, server_status, sigterm, ctl, st, trace_bits>>

AtExitReap_NoWait ==            \* mutant: no waitpid in the handler
    /\ fpc = "exiting"
    /\ fpc' = "exited"
    /\ UNCHANGED <<fuzzer, was_killed, child_stopped, server_child,
                   fork_result, server_status, sigterm, ctl, st, proc,
                   trace_bits>>

\* ... reap it (waitpid fails at once when there is none) and exit.
AtExitReap ==
    /\ fpc = "exiting"
    /\ server_child \in Pid => ~Alive(server_child)
    /\ fpc' = "exited"
    /\ proc' = IF server_child \in Pid
               THEN [proc EXCEPT ![server_child] = Free] ELSE proc
    /\ UNCHANGED <<fuzzer, was_killed, child_stopped, server_child,
                   fork_result, server_status, sigterm, ctl, st, trace_bits>>

\* The server is killed from outside, or fork() fails: out of memory.
ServerDies ==
    /\ ServerUp
    /\ fpc' = "died"
    /\ UNCHANGED <<fuzzer, was_killed, child_stopped, server_child,
                   fork_result, server_status, sigterm, ctl, st, proc,
                   trace_bits>>

(***************************************************************************)
(* Target processes.  A signal that is pending may be delivered late, so a *)
(* killed process can still take steps.                                    *)
(***************************************************************************)
ChildStep(p, from, to, edges) ==
    /\ proc[p].st = "running" /\ proc[p].at = from
    /\ proc' = [proc EXCEPT ![p] = to]
    /\ trace_bits' = edges
    /\ UNCHANGED <<fuzzer, server, ctl, st>>

Dead(p, s) == [proc[p] EXCEPT !.st = "zombie", !.status = s]

\* The child closes the pipes and runs start-up code.
ChildBoot(p) ==
    ChildStep(p, "boot",
              [proc[p] EXCEPT !.at = IF Mode = "persistent" THEN "first" ELSE "read"],
              trace_bits \cup {Boot})

\* The fauxserver's execv falls through.
ChildExecFails(p) ==
    Mode = "faux" /\ ChildStep(p, "boot", Dead(p, "exit"), trace_bits \cup {ExecFail})

ChildFirstPass_KeepsMap(p) ==   \* mutant: start-up coverage is kept
    ChildStep(p, "first",
              [proc[p] EXCEPT !.at = "read", !.cycles = MaxCnt],
              trace_bits \cup {Mark})

\* __afl_persistent_loop, first pass: forget what ran before the loop.
ChildFirstPass(p) ==
    ChildStep(p, "first",
              [proc[p] EXCEPT !.at = "read", !.cycles = MaxCnt], {Mark})

\* __afl_persistent_loop, after SIGCONT.
ChildAgain(p) ==
    ChildStep(p, "again", [proc[p] EXCEPT !.at = "read"], trace_bits \cup {Mark})

\* The target reads its input and starts to work on it.
ChildRead(p) ==
    ChildStep(p, "read",
              [proc[p] EXCEPT !.at = "body", !.inp = testcase, !.served = @ + 1],
              trace_bits \cup {FirstHalf(testcase)})

AfterInput_PostDecrement(p) ==  \* mutant: cycle_cnt-- for --cycle_cnt
    IF Mode = "persistent" /\ proc[p].cycles # 0
    THEN [proc[p] EXCEPT !.st = "stopped", !.at = "again", !.cycles = @ - 1]
    ELSE Dead(p, "exit")

\* What a process that has dealt with an input becomes: in persistent mode it
\* stops itself unless the loop is over.
AfterInput(p) ==
    LET left == proc[p].cycles - 1 IN
    IF Mode = "persistent" /\ left # 0
    THEN [proc[p] EXCEPT !.st = "stopped", !.at = "again", !.cycles = left]
    ELSE Dead(p, "exit")

ChildFinishes(p) ==
    /\ proc[p].at = "body" /\ Kind[proc[p].inp] = "ok"
    /\ ChildStep(p, "body", AfterInput(p), trace_bits \cup {SecondHalf(proc[p].inp)})

ChildCrashes(p) ==
    /\ proc[p].at = "body" /\ Kind[proc[p].inp] = "crash"
    /\ ChildStep(p, "body", Dead(p, "segv"), trace_bits)

\* What a pending signal makes of a process.  Until the child has restored the
\* old handler, SIGTERM runs at_exit; a child of the fauxserver has afl-fuzz's
\* handler until its execv, and the signal is lost.
Delivered(p) ==
    IF proc[p].sig = "KILL" \/ proc[p].at # "boot" THEN Dead(p, "signal")
    ELSE IF Mode = "faux" THEN [proc[p] EXCEPT !.sig = "none"]
    ELSE Dead(p, "exit")

\* The kernel delivers a pending signal.  SIGTERM does not end a process that
\* is stopped.
Deliver(p) ==
    /\ \/ proc[p].sig = "KILL" /\ Alive(p)
       \/ proc[p].sig = "TERM" /\ proc[p].st = "running"
    /\ proc' = [proc EXCEPT ![p] = Delivered(p)]
    /\ UNCHANGED <<fuzzer, server, ctl, st, trace_bits>>

(***************************************************************************)
(* The specification.                                                      *)
(***************************************************************************)
FuzzerStep == \/ RequestRun \/ RequestFails \/ ReadPid \/ ReadFails
              \/ PollReady \/ PollTimeout \/ ReadStatus \/ Report \/ FsrvKill

\* A SIGTERM that is pending is handled before the server's next step.
ServerStep == /\ ~sigterm
              /\ \/ ServerRead \/ ServerReap \/ (\E p \in Pid : ServerFork(p))
                 \/ ServerForked \/ ServerResume \/ ServerSendPid \/ ServerWait
                 \/ ServerSendStatus \/ ServerHangup

ChildBoots(p) == ChildBoot(p) \/ ChildExecFails(p)

ChildRuns(p)  == \/ ChildFirstPass(p) \/ ChildAgain(p) \/ ChildRead(p)
                 \/ ChildFinishes(p) \/ ChildCrashes(p)

\* Nothing more happens once the fuzzer is gone and all is quiet.
Over == pc = "closed" /\ UNCHANGED vars

Next == \/ \E i \in Inputs : WriteTestcase(i)
        \/ FuzzerStep \/ StopSignal \/ FuzzerDies
        \/ ServerStep \/ AtExit \/ AtExitReap \/ ServerDies
        \/ \E p \in Pid : ChildBoots(p) \/ ChildRuns(p) \/ Deliver(p)
        \/ Over

\* The scheduler runs afl-fuzz, the server and freshly forked children, and
\* delivers signals.  The target's own code is under no obligation to finish,
\* and nobody has to send signals or test cases.
Fairness == /\ WF_vars(FuzzerStep) /\ WF_vars(ServerStep)
            /\ WF_vars(AtExit) /\ WF_vars(AtExitReap)
            /\ \A p \in Pid : WF_vars(ChildBoots(p)) /\ WF_vars(Deliver(p))

Spec     == Init /\ [][Next]_vars
FairSpec == Spec /\ Fairness

-----------------------------------------------------------------------------
(***************************************************************************)
(* Properties.                                                             *)
(***************************************************************************)
FuzzerPcs == {"idle", "ready", "pid", "poll", "read", "drain", "report",
              "stopped", "fatal", "closed"}
ServerPcs == {"read", "reap", "fork", "forked", "resume", "sendpid", "wait",
              "sendstatus", "exiting", "exited", "died"}
Messages  == {PidMsg(p) : p \in Pid} \cup {StatusMsg(s) : s \in Statuses}

\* Every variable has the type its C declaration gives it.
TypeOK ==
    /\ pc \in FuzzerPcs
    /\ child_pid \in Pid \cup {NoPid}
    /\ last_run_timed_out \in BOOLEAN
    /\ child_status \in Statuses
    /\ verdict \in {"none", "OK", "TMOUT", "CRASH", "ERROR"}
    /\ stop_soon \in BOOLEAN
    /\ testcase \in Inputs \cup {NoInput}
    /\ fpc \in ServerPcs
    /\ was_killed \in BOOLEAN /\ child_stopped \in BOOLEAN /\ sigterm \in BOOLEAN
    /\ server_child \in Pid \cup {NoPid}
    /\ fork_result \in Pid \cup {NoPid}
    /\ server_status \in Statuses
    /\ ctl \in Seq(BOOLEAN)
    /\ st \in Seq(Messages)
    /\ proc \in [Pid -> Proc]
    /\ trace_bits \subseteq Edges

\* The words on the status pipe are untagged: the fuzzer must expect a pid
\* exactly when the server sent one, however timeouts, kills and the stop
\* signal fall between the two.
PipesInStep ==
    Len(st) > 0 => /\ pc = "pid" => Head(st).what = "pid"
                   /\ pc \in {"poll", "read", "drain"} => Head(st).what = "status"

\* The server never has two target processes at once: it forks only when the
\* previous child is dead and reaped, also when that child was killed after
\* it had already stopped.
OneChild ==
    \A p, q \in Pid : proc[p].st # "free" /\ proc[q].st # "free" => p = q

\* When afl_fsrv_run_target returns (and until the next request), no process
\* can write to the coverage map: "trace_bits[] behave very normally".
MapIsQuiet ==
    pc \in {"report", "idle", "ready"} => \A p \in Pid : proc[p].st # "running"

\* A verdict speaks of the test case that was run: FSRV_RUN_OK comes with the
\* complete map of this input and nothing else, FSRV_RUN_CRASH only for an
\* input that crashes.  A child killed for a timeout of the run before must
\* not surface as a crash.
CompleteMap(i) ==
    {IF Mode = "persistent" THEN Mark ELSE Boot, FirstHalf(i), SecondHalf(i)}
PartsOf(i) == {Boot, Mark, FirstHalf(i), SecondHalf(i)}
Outcome(i) ==
    {<<"OK", CompleteMap(i)>> : x \in {j \in {i} : Kind[j] = "ok"}}
      \cup {<<"CRASH", CompleteMap(i) \ {SecondHalf(i)}>> :
                x \in {j \in {i} : Kind[j] = "crash"}}
      \cup {<<"TMOUT", m>> : m \in SUBSET PartsOf(i)}
      \cup {<<"ERROR", {ExecFail}>> : x \in {"faux"} \cap {Mode}}

VerdictIsOfThisInput ==
    (pc = "idle" /\ testcase # NoInput /\ ~stop_soon)
        => <<verdict, trace_bits>> \in Outcome(testcase)

(***************************************************************************)
(* The inductive invariant behind PipesInStep, OneChild and MapIsQuiet:    *)
(* where the server is in its loop determines what the pipes hold, where   *)
(* the fuzzer can be, and which target process there is.                   *)
(***************************************************************************)
Gone    == pc \in {"stopped", "fatal", "closed"}
AllFree == \A p \in Pid : proc[p].st = "free"
Quiet   == \A p \in Pid : proc[p].st # "running"
Resting == pc \in {"report", "idle", "ready"}
Waiting == pc \in {"poll", "read", "drain"}

\* What is on the status pipe, by what the fuzzer expects from it.
StatusPipe ==
    /\ Resting => Len(st) = 0
    /\ Waiting => Len(st) <= 1 /\ (Len(st) = 1 => st[1].what = "status")
    /\ pc = "pid" => /\ Len(st) <= 2
                     /\ Len(st) >= 1 => st[1].what = "pid"
                     /\ Len(st) = 2 => st[2].what = "status"

\* Where the fuzzer can be while the server is in its loop.
InStep ==
    /\ fpc = "read" =>
          \/ Gone
          \/ pc = "pid" /\ Len(st) = 0 /\ Len(ctl) = 1
          \/ pc = "pid" /\ Len(ctl) = 0 /\ Len(st) = 2
          \/ Waiting /\ Len(ctl) = 0 /\ Len(st) = 1
          \/ Resting /\ Len(ctl) = 0
    /\ fpc \in {"reap", "fork", "forked", "resume", "sendpid"} =>
          Gone \/ (pc = "pid" /\ Len(st) = 0 /\ Len(ctl) = 0)
    /\ fpc \in {"wait", "sendstatus"} =>
          \/ Gone
          \/ pc = "pid" /\ Len(ctl) = 0 /\ Len(st) = 1
          \/ Waiting /\ Len(ctl) = 0 /\ Len(st) = 0

\* Which target process there is.
ChildOnRecord ==
    /\ fpc \in {"reap", "resume"} => child_stopped
    /\ fpc \in {"fork", "forked", "sendpid", "wait"} => ~child_stopped
    /\ fpc \in {"read", "reap", "resume", "sendstatus"} /\ child_stopped =>
          server_child \in Pid /\ proc[server_child].st \in {"stopped", "zombie"}
    /\ fpc \in {"read", "fork", "sendstatus"} /\ ~child_stopped => AllFree
    /\ fpc = "forked" => fork_result \in Pid /\ proc[fork_result].st # "free"
    /\ fpc \in {"sendpid", "wait"} =>
          server_child \in Pid /\ proc[server_child].st # "free"

\* No process runs once its status is under way to the fuzzer.
QuietWhenReported ==
    /\ Resting => Quiet
    /\ Waiting /\ Len(st) > 0 => Quiet
    /\ pc = "pid" /\ Len(st) = 2 => Quiet

\* Inputs served and cycles left add up to the bound of the loop.
CountsAddUp(r) ==
    /\ r.served <= MaxCnt
    /\ r.st \in {"running", "stopped"} =>
          /\ r.at \in {"boot", "first"} => r.served = 0
          /\ r.at \in {"read", "again"} =>
                r.cycles > 0 /\ r.served + r.cycles = MaxCnt
          /\ r.at = "body" =>
                r.cycles > 0 /\ r.served + r.cycles = MaxCnt + 1

LoopCount == Mode = "persistent" => \A p \in Pid : CountsAddUp(proc[p])

IInv == /\ TypeOK /\ OneChild /\ StatusPipe /\ InStep /\ ChildOnRecord
        /\ QuietWhenReported /\ LoopCount

(***************************************************************************)
(* What makes VerdictIsOfThisInput inductive, as long as nobody asked to   *)
(* stop: where the target process is determines what the map holds, a      *)
(* status on its way fits the map, and a kill is on record until the       *)
(* killed process has been reaped.                                         *)
(***************************************************************************)
Live == ~stop_soon /\ ~Gone
InLoop == fpc \notin {"exiting", "exited", "died"}

\* The edges a run hits before it reads its input.
Base == {IF Mode = "persistent" THEN Mark ELSE Boot}

MapSoFar == \/ trace_bits \subseteq PartsOf(testcase)
            \/ Mode = "faux" /\ trace_bits = {ExecFail}

\* s is the status of a complete run of testcase, and the map is its map.
Proper(s) ==
    \/ s \in {"exit", "stop"} /\ Kind[testcase] = "ok" /\ trace_bits = CompleteMap(testcase)
    \/ s = "segv" /\ Kind[testcase] = "crash"
                  /\ trace_bits = CompleteMap(testcase) \ {SecondHalf(testcase)}
    \/ s = "exit" /\ Mode = "faux" /\ trace_bits = {ExecFail}

\* The fuzzer has killed the child, and either knows it or has told the server.
KillOnRecord == \/ pc \in {"drain", "report", "idle", "ready"} /\ last_run_timed_out
                \/ pc = "pid" /\ fpc = "read" /\ Len(ctl) = 1 /\ Head(ctl)
                \/ pc = "pid" /\ fpc = "reap" /\ was_killed

TimeoutFlag == /\ pc \in {"pid", "poll", "read"} => ~last_run_timed_out
               /\ pc = "drain" => last_run_timed_out

KillsRecorded ==
    InLoop => \A p \in Pid : proc[p].st # "free" /\ proc[p].sig # "none" => KillOnRecord

\* What the map holds by the place of the process r of this run.
Tracks(r) ==
    /\ r.at \in {"first", "again"} => Mode = "persistent"
    /\ r.st = "running" =>
          /\ r.at \in {"boot", "again"} => trace_bits = {}
          /\ r.at = "first" => trace_bits = {Boot}
          /\ r.at = "read" => trace_bits = Base
          /\ r.at = "body" => r.inp = testcase /\ trace_bits = Base \cup {FirstHalf(testcase)}
    /\ r.st = "stopped" => r.at = "again" /\ Proper("stop")
    /\ r.st = "zombie" => MapSoFar /\ (r.sig = "none" => Proper(r.status))

ChildTracked ==
    /\ fpc \in {"forked", "sendpid", "wait"} =>
          \A p \in Pid : proc[p].st # "free" => Tracks(proc[p])
    /\ InLoop /\ child_stopped =>
          \A p \in Pid : proc[p].st # "free" =>
             /\ proc[p].at = "again" /\ Mode = "persistent"
             /\ proc[p].st = "zombie" => proc[p].sig # "none"
    /\ fpc = "resume" => ~was_killed

\* A request that no process works on yet has an empty map.
FreshMap ==
    pc = "pid" /\ Len(st) = 0 /\ fpc \in {"read", "reap", "fork", "resume"} => trace_bits = {}

Fits(s) == MapSoFar /\ (Proper(s) \/ (pc \in {"drain", "report"} /\ last_run_timed_out))

StatusFits ==
    /\ fpc = "sendstatus" => Fits(server_status)
    /\ \A k \in 1 .. Len(st) : st[k].what = "status" => Fits(st[k].val)
    /\ pc = "report" => Fits(child_status)

RInv == /\ pc \notin {"idle", "stopped", "fatal", "closed"} => testcase # NoInput
        /\ Live => /\ TimeoutFlag /\ KillsRecorded /\ ChildTracked /\ FreshMap /\ StatusFits
                   /\ VerdictIsOfThisInput

\* __AFL_LOOP(n): a process is given n inputs at most.
LoopBound ==
    Mode = "persistent" => \A p \in Pid : proc[p].served <= MaxCnt

\* Wherever in its loop SIGTERM strikes the server, no target process survives
\* it, except one that fork() has just made and that is not on record yet: no
\* other place of the loop has a living process that child_pid does not name.
OnlyTheWindowOrphans ==
    fpc = "exited" => \A p \in Pid : Alive(p) => p = fork_result

\* While at_exit waits, the living processes are the child on record and the one
\* that fork() has just made.
OrphanInv ==
    /\ fpc = "exiting" => \A p \in Pid : Alive(p) => p \in {server_child, fork_result}
    /\ OnlyTheWindowOrphans

\* "ensure we kill the child on termination": no target process survives a
\* server that left through at_exit.
NoOrphan ==
    fpc = "exited" => \A p \in Pid : ~Alive(p)

\* afl_fsrv_run_target returns, whatever the target does.
InRun == pc \in {"pid", "poll", "read", "drain", "report"}
RunReturns == InRun ~> ~InRun

\* Once the user asked to stop, afl-fuzz leaves and the server is gone.
StopTakesEffect ==
    stop_soon ~> (pc = "closed" /\ ~ServerUp)

\* The fork server protocol implements the promise of TargetExec.
Target == INSTANCE TargetExec WITH
    phase    <- IF pc = "idle" THEN "idle"
                ELSE IF pc \in {"stopped", "fatal", "closed"} THEN "over"
                ELSE "running",
    input    <- testcase,
    answer   <- IF pc = "idle" /\ testcase # NoInput
                THEN <<verdict, trace_bits>> ELSE <<>>,
    halting  <- stop_soon,
    NoAnswer <- <<>>

Refines == Target!Spec
=============================================================================
