------------------------ MODULE ForkserverRunProofs ------------------------
(***************************************************************************)
(* Proofs about Forkserver, second part: the verdict of a run is one of    *)
(* its own test case, and the protocol implements TargetExec.              *)
(*                                                                         *)
(* RInv rests on IInv, which ForkserverProofs shows.  As long as nobody    *)
(* asked to stop (Live), it follows the target process of the run from     *)
(* fork or SIGCONT to its status, the map with it, and a kill from the     *)
(* timeout to the waitpid that takes the killed process away.  One lemma   *)
(* per action shows that RInv is kept.                                     *)
(***************************************************************************)
EXTENDS ForkserverProofs

\* Nobody asked to stop and the fuzzer has not given up: so it was before.
LEMMA LiveBefore ==
  ASSUME [Next]_vars, Live' PROVE Live
<1> USE DEF Live, Gone
<1>1. CASE \E i \in Inputs : WriteTestcase(i)
  BY <1>1 DEF WriteTestcase
<1>2. CASE FuzzerStep
  BY <1>2 DEF FuzzerStep, RequestRun, RequestFails, ReadPid, ReadFails, LoseServer, PollReady,
     PollTimeout, ReadStatus, Report, FsrvKill
<1>3. CASE ServerStep \/ AtExit \/ AtExitReap \/ ServerDies
  BY <1>3 DEF ServerStep, ServerRead, ServerReap, ServerFork, ServerForked, ServerResume,
     ServerSendPid, ServerWait, ServerSendStatus, ServerHangup, AtExit, AtExitReap, ServerDies,
     fuzzer
<1>4. CASE StopSignal \/ FuzzerDies
  BY <1>4 DEF StopSignal, FuzzerDies
<1>5. CASE \E p \in Pid : ChildBoots(p) \/ ChildRuns(p) \/ Deliver(p)
  BY <1>5 DEF ChildBoots, ChildRuns, Deliver, ChildBoot, ChildExecFails, ChildFirstPass,
     ChildAgain, ChildRead, ChildFinishes, ChildCrashes, ChildStep, fuzzer
<1>6. CASE UNCHANGED vars
  BY <1>6 DEF vars, fuzzer
<1> QED BY <1>1, <1>2, <1>3, <1>4, <1>5, <1>6 DEF Next, Over

\* Writing the test case keeps RInv: no run is on.
LEMMA WriteTestcaseR ==
  ASSUME NEW i \in Inputs, IInv, RInv, Live, WriteTestcase(i) PROVE RInv'
<1> USE ConstantsAssumption DEF RInv, WriteTestcase, server
<1>a. Resting /\ Len(st) = 0 /\ fpc \notin {"forked", "sendpid", "wait", "sendstatus", "reap"}
  BY DEF IInv, Resting, StatusPipe, InStep, Waiting, Live
<1>0. testcase' # NoInput
  OBVIOUS
<1>1. TimeoutFlag'
  BY DEF TimeoutFlag
<1>2. KillsRecorded'
  BY <1>a DEF KillsRecorded, KillOnRecord, InLoop
<1>3. ChildTracked'
  BY <1>a DEF ChildTracked, InLoop
<1>4. FreshMap' /\ VerdictIsOfThisInput'
  BY DEF FreshMap, VerdictIsOfThisInput
<1>5. StatusFits'
  BY <1>a DEF StatusFits
<1> QED BY <1>0, <1>1, <1>2, <1>3, <1>4, <1>5

\* The request empties the map and hands on whether a child was killed.
LEMMA RequestRunR ==
  ASSUME IInv, RInv, Live, RequestRun PROVE RInv'
<1> USE ConstantsAssumption DEF RInv, RequestRun, server
<1>a. Resting /\ Len(st) = 0 /\ fpc \notin {"forked", "sendpid", "wait", "sendstatus", "reap"}
  BY DEF IInv, Resting, StatusPipe, InStep, Waiting, Live
<1>c. ctl \in Seq(BOOLEAN) /\ last_run_timed_out \in BOOLEAN
  BY DEF IInv, TypeOK
<1>b. InLoop => fpc = "read" /\ Len(ctl) = 0
  BY DEF IInv, TypeOK, Resting, StatusPipe, InStep, Waiting, Live, InLoop, ServerPcs, Gone
<1>0. testcase' # NoInput
  OBVIOUS
<1>1. TimeoutFlag'
  BY DEF TimeoutFlag
<1>2. KillsRecorded'
  <2>1. InLoop => Len(ctl') = 1 /\ Head(ctl') = last_run_timed_out
    BY <1>b, <1>c
  <2> QED BY <1>b, <2>1 DEF KillsRecorded, KillOnRecord, InLoop
<1>3. ChildTracked'
  BY <1>a DEF ChildTracked, InLoop
<1>4. FreshMap' /\ VerdictIsOfThisInput'
  BY DEF FreshMap, VerdictIsOfThisInput
<1>5. StatusFits'
  BY <1>a DEF StatusFits
<1> QED BY <1>0, <1>1, <1>2, <1>3, <1>4, <1>5

\* What is left of a pipe when its first word has been read.
LEMMA TailWords ==
  ASSUME NEW S, NEW s \in Seq(S), Len(s) > 0
  PROVE  /\ Len(Tail(s)) = Len(s) - 1
         /\ \A k \in 1 .. Len(Tail(s)) : Tail(s)[k] = s[k + 1] /\ k + 1 \in 1 .. Len(s)
OBVIOUS

\* Not none and at most one.
LEMMA JustOne ==
  ASSUME NEW n \in Nat, n > 0, n <= 1 PROVE n = 1
OBVIOUS

\* The only place in a sequence of at most two and not two.
LEMMA OnlyFirst ==
  ASSUME NEW n \in Nat, n <= 2, n # 2, NEW k \in 1 .. n PROVE k = 1 /\ n >= 1
OBVIOUS

\* Reading the pid takes no status from the pipe.
LEMMA ReadPidR ==
  ASSUME IInv, RInv, Live, ReadPid PROVE RInv'
<1> USE ConstantsAssumption DEF RInv, ReadPid, server
<1>a. st \in Seq(Messages) /\ ctl \in Seq(BOOLEAN) /\ Len(st) \in Nat /\ Len(st) > 0 /\ ~Gone
  BY LenProperties DEF IInv, TypeOK, Live
<1>b. (fpc = "read" => Len(ctl) = 0) /\ fpc # "reap"
  BY <1>a DEF IInv, InStep, Waiting, Resting
<1>1. TimeoutFlag'
  BY DEF TimeoutFlag
<1>2. KillsRecorded'
  <2>1. ~KillOnRecord
    <3>1. fpc = "read" => Len(ctl) # 1
      BY <1>b
    <3> QED BY <1>b, <3>1 DEF KillOnRecord
  <2> QED BY <2>1 DEF KillsRecorded, InLoop
<1>3. ChildTracked'
  BY DEF ChildTracked, InLoop, Tracks, Proper, MapSoFar
<1>4. FreshMap' /\ VerdictIsOfThisInput'
  BY DEF FreshMap, VerdictIsOfThisInput
<1>5. StatusFits'
  BY <1>a, TailWords DEF StatusFits, Fits, Proper, MapSoFar
<1> QED BY <1>1, <1>2, <1>3, <1>4, <1>5

\* poll() reporting the pipe readable keeps RInv.
LEMMA PollReadyR ==
  ASSUME IInv, RInv, Live, Live', PollReady PROVE RInv'
<1> USE ConstantsAssumption DEF RInv, PollReady, server
<1>a. pc' = "read" /\ UNCHANGED <<verdict, stop_soon>>
  BY DEF Live
<1>1. TimeoutFlag'
  BY <1>a DEF TimeoutFlag
<1>2. KillsRecorded'
  BY <1>a DEF KillsRecorded, InLoop, KillOnRecord
<1>3. ChildTracked'
  BY DEF ChildTracked, InLoop, Tracks, Proper, MapSoFar
<1>4. FreshMap' /\ VerdictIsOfThisInput'
  BY <1>a DEF FreshMap, VerdictIsOfThisInput
<1>5. StatusFits'
  BY <1>a DEF StatusFits, Fits, Proper, MapSoFar
<1> QED BY <1>a, <1>1, <1>2, <1>3, <1>4, <1>5

\* A child that is killed for a timeout is on record as killed.
LEMMA PollTimeoutR ==
  ASSUME IInv, RInv, Live, PollTimeout PROVE RInv'
<1> USE ConstantsAssumption DEF RInv, PollTimeout, server
<1>k. \A p \in Pid : \/ proc'[p] = proc[p]
                     \/ Alive(p) /\ proc'[p] = [proc[p] EXCEPT !.sig = KillSignal]
  BY DEF Kill, IInv, TypeOK
<1>1. TimeoutFlag'
  BY DEF TimeoutFlag
<1>2. KillsRecorded'
  BY DEF KillsRecorded, KillOnRecord
<1>3. ChildTracked'
  <2>1. ASSUME NEW p \in Pid
        PROVE  /\ proc'[p].st = proc[p].st /\ proc'[p].at = proc[p].at
               /\ proc'[p].inp = proc[p].inp /\ proc'[p].status = proc[p].status
               /\ proc[p].st = "zombie" => proc'[p].sig = proc[p].sig
    BY <1>k DEF IInv, TypeOK, Proc, Alive
  <2> QED BY <2>1 DEF ChildTracked, InLoop, Tracks, Proper, MapSoFar
<1>4. FreshMap' /\ VerdictIsOfThisInput'
  BY DEF FreshMap, VerdictIsOfThisInput
<1>5. StatusFits'
  BY DEF StatusFits, Fits, Proper, MapSoFar
<1> QED BY <1>1, <1>2, <1>3, <1>4, <1>5

\* The status that is read fits the map.
LEMMA ReadStatusR ==
  ASSUME IInv, RInv, Live, ReadStatus PROVE RInv'
<1> USE ConstantsAssumption DEF RInv, ReadStatus, server
<1>m. st \in Seq(Messages)
  BY DEF IInv, TypeOK
<1>k. Len(st) \in Nat /\ Len(st) > 0
  BY <1>m, LenProperties
<1>n. Len(st) <= 1
  BY DEF IInv, StatusPipe, Waiting
<1>p. Len(st) = 1 => st[1].what = "status"
  BY DEF IInv, StatusPipe, Waiting
<1>o. Len(st) = 1
  BY <1>k, <1>n, JustOne
<1>a. st \in Seq(Messages) /\ Len(st) = 1 /\ st[1].what = "status"
  BY <1>m, <1>p, <1>o
<1>b. Len(st') = 0 /\ child_status' = st[1].val
  BY <1>a, TailWords
<1>c. fpc # "sendstatus" 
  BY <1>a DEF IInv, InStep, Live, Gone, Waiting
<1>1. TimeoutFlag'
  BY DEF TimeoutFlag
<1>2. KillsRecorded'
  BY DEF KillsRecorded, KillOnRecord, InLoop, TimeoutFlag
<1>3. ChildTracked'
  BY DEF ChildTracked, InLoop, Tracks, Proper, MapSoFar
<1>4. FreshMap' /\ VerdictIsOfThisInput'
  BY DEF FreshMap, VerdictIsOfThisInput
<1>5. StatusFits'
  BY <1>a, <1>b, <1>c DEF StatusFits, Fits, Proper, MapSoFar
<1> QED BY <1>1, <1>2, <1>3, <1>4, <1>5

\* The verdict is an outcome of the test case if the status fits the map.
LEMMA VerdictFits ==
  ASSUME Fits(child_status), child_status \in Statuses, pc = "report",
         last_run_timed_out \in BOOLEAN, Mode \in {"persistent", "fork", "faux"}
  PROVE  <<Verdict, trace_bits>> \in Outcome(testcase)
<1> USE DEF Outcome
<1>1. CASE Mode = "faux" /\ trace_bits = {ExecFail}
  BY <1>1 DEF Verdict
<1>2. CASE trace_bits \subseteq PartsOf(testcase)
  <2>1. ExecFail \notin trace_bits
    BY <1>2 DEF PartsOf, ExecFail, Boot, Mark, FirstHalf, SecondHalf
  <2>2. CASE last_run_timed_out
    BY <1>2, <2>1, <2>2 DEF Verdict
  <2>3. CASE ~last_run_timed_out
    <3>1. Proper(child_status) /\ ~(Mode = "faux" /\ trace_bits = {ExecFail})
      BY <2>1, <2>3 DEF Fits
    <3>2. CASE child_status \in {"exit", "stop"}
      BY <2>1, <2>3, <3>1, <3>2 DEF Proper, Verdict
    <3>3. CASE child_status = "segv"
      BY <2>1, <2>3, <3>1, <3>3 DEF Proper, Verdict
    <3> QED BY <3>1, <3>2, <3>3 DEF Proper
  <2> QED BY <2>2, <2>3
<1> QED BY <1>1, <1>2 DEF Fits, MapSoFar

\* The verdict is made from a status that fits the map.
LEMMA ReportR ==
  ASSUME IInv, RInv, Live, Report PROVE RInv'
<1> USE ConstantsAssumption DEF RInv, Report, server
<1>a. Fits(child_status) /\ child_status \in Statuses /\ Len(st) = 0 /\ fpc # "sendstatus"
      /\ last_run_timed_out \in BOOLEAN
  BY DEF StatusFits, IInv, TypeOK, StatusPipe, Resting, InStep, Waiting, Live
<1>1. TimeoutFlag'
  BY DEF TimeoutFlag
<1>2. KillsRecorded'
  BY DEF KillsRecorded, KillOnRecord, InLoop
<1>3. ChildTracked'
  BY DEF ChildTracked, InLoop, Tracks, Proper, MapSoFar
<1>4. FreshMap'
  BY DEF FreshMap
<1>5. StatusFits'
  BY <1>a DEF StatusFits
<1>6. VerdictIsOfThisInput'
  <2>1. <<Verdict, trace_bits>> \in Outcome(testcase)
    BY <1>a, VerdictFits
  <2>2. verdict' = Verdict /\ UNCHANGED <<trace_bits, testcase>>
    OBVIOUS
  <2> QED BY <2>1, <2>2 DEF VerdictIsOfThisInput, Outcome
<1> QED BY <1>1, <1>2, <1>3, <1>4, <1>5, <1>6

\* The server learns of the kill from the request, and resumes no killed child.
LEMMA ServerReadR ==
  ASSUME IInv, RInv, Live, ServerRead PROVE RInv'
<1> USE ConstantsAssumption DEF RInv, ServerRead, fuzzer
<1>a. pc = "pid" /\ Len(st) = 0 /\ Len(ctl) = 1 /\ ctl \in Seq(BOOLEAN)
  BY DEF IInv, TypeOK, InStep, Live, Resting, Waiting
<1>b. Head(ctl) = was_killed' /\ was_killed' \in BOOLEAN
  BY <1>a
<1>c. child_stopped \/ AllFree
  BY DEF IInv, ChildOnRecord
<1>1. TimeoutFlag'
  BY DEF TimeoutFlag
<1>2. KillsRecorded'
  BY <1>a, <1>b, <1>c DEF KillsRecorded, KillOnRecord, InLoop, AllFree
<1>3. ChildTracked'
  BY DEF ChildTracked, InLoop
<1>4. FreshMap' /\ VerdictIsOfThisInput'
  BY <1>a DEF FreshMap, VerdictIsOfThisInput
<1>5. StatusFits'
  BY <1>a DEF StatusFits, Fits, Proper, MapSoFar
<1> QED BY <1>1, <1>2, <1>3, <1>4, <1>5

\* A killed child that is reaped leaves no process behind.
LEMMA ServerReapR ==
  ASSUME IInv, RInv, Live, ServerReap PROVE RInv'
<1> USE ConstantsAssumption DEF RInv, ServerReap, fuzzer
<1>a. pc = "pid" /\ Len(st) = 0 /\ server_child \in Pid
  BY DEF IInv, InStep, Live, ChildOnRecord
<1>b. \A p \in Pid : proc'[p].st = "free"
  BY <1>a DEF IInv, TypeOK, OneChild, Free
<1>1. TimeoutFlag'
  BY DEF TimeoutFlag
<1>2. KillsRecorded'
  BY <1>b DEF KillsRecorded
<1>3. ChildTracked'
  BY <1>b DEF ChildTracked
<1>4. FreshMap' /\ VerdictIsOfThisInput'
  BY <1>a DEF FreshMap, VerdictIsOfThisInput
<1>5. StatusFits'
  BY <1>a DEF StatusFits
<1> QED BY <1>1, <1>2, <1>3, <1>4, <1>5

\* A new child begins with an empty map.
LEMMA ServerForkR ==
  ASSUME NEW p \in Pid, IInv, RInv, Live, ServerFork(p) PROVE RInv'
<1> USE ConstantsAssumption DEF RInv, ServerFork, fuzzer
<1>a. pc = "pid" /\ Len(st) = 0 /\ ~child_stopped /\ AllFree /\ trace_bits = {}
  BY DEF IInv, InStep, Live, ChildOnRecord, FreshMap
<1>b. /\ \A q \in Pid : proc'[q].st # "free" => q = p
      /\ proc'[p].st = "running" /\ proc'[p].at = "boot" /\ proc'[p].sig = "none"
  BY <1>a DEF IInv, TypeOK, AllFree, Free
<1>1. TimeoutFlag'
  BY DEF TimeoutFlag
<1>2. KillsRecorded'
  BY <1>b DEF KillsRecorded
<1>3. ChildTracked'
  BY <1>a, <1>b DEF ChildTracked, Tracks
<1>4. FreshMap' /\ VerdictIsOfThisInput'
  BY <1>a DEF FreshMap, VerdictIsOfThisInput
<1>5. StatusFits'
  BY <1>a DEF StatusFits
<1> QED BY <1>1, <1>2, <1>3, <1>4, <1>5

\* Storing the pid fork() returned keeps RInv.
LEMMA ServerForkedR ==
  ASSUME IInv, RInv, Live, ServerForked PROVE RInv'
<1> USE ConstantsAssumption DEF RInv, ServerForked, fuzzer
<1>a. pc = "pid" /\ Len(st) = 0 /\ ~child_stopped
  BY DEF IInv, InStep, Live, ChildOnRecord
<1>1. TimeoutFlag'
  BY DEF TimeoutFlag
<1>2. KillsRecorded'
  BY <1>a DEF KillsRecorded, KillOnRecord, InLoop
<1>3. ChildTracked'
  BY <1>a DEF ChildTracked, Tracks, MapSoFar, Proper
<1>4. FreshMap' /\ VerdictIsOfThisInput'
  BY <1>a DEF FreshMap, VerdictIsOfThisInput
<1>5. StatusFits'
  BY <1>a DEF StatusFits
<1> QED BY <1>1, <1>2, <1>3, <1>4, <1>5

\* A child that is resumed was not killed, so it is there to be resumed.
LEMMA ServerResumeR ==
  ASSUME IInv, RInv, Live, ServerResume PROVE RInv'
<1> USE ConstantsAssumption DEF RInv, ServerResume, fuzzer
<1>a. /\ pc = "pid" /\ Len(st) = 0 /\ child_stopped /\ server_child \in Pid
      /\ proc[server_child].st \in {"stopped", "zombie"} /\ trace_bits = {} /\ ~was_killed
  BY DEF IInv, InStep, Live, ChildOnRecord, FreshMap, ChildTracked
<1>b. ~KillOnRecord
  BY <1>a DEF KillOnRecord
<1>c. /\ proc[server_child].sig = "none" /\ proc[server_child].at = "again"
      /\ proc[server_child].st = "stopped" /\ Mode = "persistent"
  BY <1>a, <1>b DEF KillsRecorded, InLoop, ChildTracked
<1>d. /\ \A q \in Pid : proc'[q].st # "free" => q = server_child
      /\ proc'[server_child].st = "running" /\ proc'[server_child].at = "again"
      /\ proc'[server_child].sig = "none"
  BY <1>a, <1>c DEF IInv, TypeOK, Proc, OneChild
<1>1. TimeoutFlag'
  BY DEF TimeoutFlag
<1>2. KillsRecorded'
  BY <1>d DEF KillsRecorded
<1>3. ChildTracked'
  BY <1>a, <1>c, <1>d DEF ChildTracked, Tracks
<1>4. FreshMap' /\ VerdictIsOfThisInput'
  BY <1>a DEF FreshMap, VerdictIsOfThisInput
<1>5. StatusFits'
  BY <1>a DEF StatusFits
<1> QED BY <1>1, <1>2, <1>3, <1>4, <1>5

\* Sending the pid puts no status on the pipe.
LEMMA ServerSendPidR ==
  ASSUME IInv, RInv, Live, ServerSendPid PROVE RInv'
<1> USE ConstantsAssumption DEF RInv, ServerSendPid, fuzzer
<1>a. pc = "pid" /\ Len(st) = 0 /\ ~child_stopped /\ st \in Seq(Messages)
  BY DEF IInv, InStep, Live, ChildOnRecord, TypeOK
<1>b. st' = <<PidMsg(server_child)>>
  BY <1>a
<1>1. TimeoutFlag'
  BY DEF TimeoutFlag
<1>2. KillsRecorded'
  BY <1>a DEF KillsRecorded, KillOnRecord, InLoop
<1>3. ChildTracked'
  BY <1>a DEF ChildTracked, Tracks, MapSoFar, Proper
<1>4. FreshMap' /\ VerdictIsOfThisInput'
  BY <1>a DEF FreshMap, VerdictIsOfThisInput
<1>5. StatusFits'
  BY <1>a, <1>b DEF StatusFits, PidMsg
<1> QED BY <1>1, <1>2, <1>3, <1>4, <1>5

\* The status waitpid() reports is that of a complete run, or of a child that was
\* killed for a timeout.
LEMMA ServerWaitR ==
  ASSUME IInv, RInv, Live, ServerWait PROVE RInv'
<1> USE ConstantsAssumption DEF RInv, ServerWait, fuzzer
<1>a. /\ ~child_stopped /\ server_child \in Pid /\ proc[server_child].st # "free"
      /\ Tracks(proc[server_child])
  BY DEF IInv, InStep, Live, ChildOnRecord, ChildTracked
<1>b. \A k \in 1 .. Len(st) : st[k].what = "pid"
  BY DEF IInv, InStep, Live, StatusPipe, Waiting
<1>c. pc \in {"pid", "poll", "read", "drain"}
  BY DEF IInv, InStep, Live, Waiting
<1>d. \A q \in Pid : proc'[q].st # "free" =>
          q = server_child /\ proc'[q] = proc[q] /\ proc[q].st = "stopped" /\ child_stopped'
  BY <1>a DEF IInv, TypeOK, OneChild, Free
<1>1. TimeoutFlag'
  BY DEF TimeoutFlag
<1>2. KillsRecorded'
  BY <1>c, <1>d DEF KillsRecorded, KillOnRecord, InLoop
<1>3. ChildTracked'
  BY <1>a, <1>d DEF ChildTracked, Tracks
<1>4. FreshMap' /\ VerdictIsOfThisInput'
  BY <1>c DEF FreshMap, VerdictIsOfThisInput
<1>5. StatusFits'
  <2>1. Fits(server_status')
    <3>1. CASE proc[server_child].st = "zombie"
      <4>1. MapSoFar /\ (proc[server_child].sig = "none" => Proper(server_status'))
        BY <1>a, <3>1 DEF Tracks
      <4>2. proc[server_child].sig # "none" => pc = "drain" /\ last_run_timed_out
        BY <1>a, <1>c DEF KillsRecorded, InLoop, KillOnRecord
      <4> QED BY <4>1, <4>2 DEF Fits
    <3>2. CASE proc[server_child].st = "stopped"
      <4>1. server_status' = "stop" /\ Proper("stop")
        BY <1>a, <3>2 DEF Tracks
      <4>2. MapSoFar
        BY <4>1 DEF Proper, MapSoFar, CompleteMap, PartsOf
      <4> QED BY <4>1, <4>2 DEF Fits
    <3> QED BY <3>1, <3>2
  <2>2. Fits(server_status)' 
    BY <2>1 DEF Fits, MapSoFar, Proper
  <2> QED BY <1>b, <1>c, <2>2 DEF StatusFits, Messages
<1> QED BY <1>1, <1>2, <1>3, <1>4, <1>5

\* The status on the pipe is the one waitpid() reported.
LEMMA ServerSendStatusR ==
  ASSUME IInv, RInv, Live, ServerSendStatus PROVE RInv'
<1> USE ConstantsAssumption DEF RInv, ServerSendStatus, fuzzer
<1>a. /\ pc \in {"pid", "poll", "read", "drain"} /\ Fits(server_status) /\ st \in Seq(Messages)
      /\ Len(ctl) = 0
  BY DEF IInv, InStep, Live, Waiting, StatusFits, TypeOK
<1>b. /\ Len(st') = Len(st) + 1 /\ st'[Len(st')] = StatusMsg(server_status)
      /\ \A k \in 1 .. Len(st) : st'[k] = st[k]
      /\ Len(st) \in Nat
  BY <1>a, LenProperties
<1>c. \A k \in 1 .. Len(st') : k = Len(st') \/ k \in 1 .. Len(st)
  BY <1>b
<1>1. TimeoutFlag'
  BY DEF TimeoutFlag
<1>2. KillsRecorded'
  BY <1>a DEF KillsRecorded, KillOnRecord, InLoop
<1>3. ChildTracked'
  BY <1>a DEF ChildTracked, InLoop
<1>4. FreshMap' /\ VerdictIsOfThisInput'
  BY <1>a, <1>b DEF FreshMap, VerdictIsOfThisInput
<1>5. StatusFits'
  BY <1>a, <1>b, <1>c DEF StatusFits, StatusMsg, Fits, MapSoFar, Proper
<1> QED BY <1>1, <1>2, <1>3, <1>4, <1>5

\* The server leaves its loop: what is on the pipe still fits.
LEMMA ServerLeavesR ==
  ASSUME IInv, RInv, Live, fpc' \in {"exiting", "exited", "died"},
         UNCHANGED <<fuzzer, st, trace_bits>>
  PROVE  RInv'
<1> USE DEF RInv, fuzzer
<1>1. TimeoutFlag' /\ KillsRecorded' /\ ChildTracked' /\ FreshMap' /\ VerdictIsOfThisInput'
  BY DEF TimeoutFlag, KillsRecorded, InLoop, ChildTracked, FreshMap, VerdictIsOfThisInput
<1>2. StatusFits'
  BY DEF StatusFits, Fits, MapSoFar, Proper
<1> QED BY <1>1, <1>2

\* While a target process runs the fuzzer is in a run, no status is on the pipe
\* and the server, if it is in its loop, has a child out.
LEMMA WhileRunning ==
  ASSUME IInv, Live, NEW p \in Pid, proc[p].st = "running"
  PROVE  /\ pc \in {"pid", "poll", "read", "drain"}
         /\ InLoop => fpc \in {"forked", "sendpid", "wait"}
         /\ \A k \in 1 .. Len(st) : st[k].what # "status"
         /\ \A q \in Pid : proc[q].st # "free" => q = p
<1>q. ~Quiet
  BY DEF Quiet
<1>1. pc \in {"pid", "poll", "read", "drain"}
  BY <1>q DEF IInv, TypeOK, FuzzerPcs, QuietWhenReported, Resting, Live, Gone
<1>2. \A q \in Pid : proc[q].st # "free" => q = p
  BY DEF IInv, OneChild
<1>3. InLoop => fpc \in {"forked", "sendpid", "wait"}
  BY <1>2 DEF IInv, TypeOK, ServerPcs, InLoop, ChildOnRecord, AllFree
<1>4. \A k \in 1 .. Len(st) : st[k].what # "status"
  <2>1. st \in Seq(Messages) /\ Len(st) \in Nat
    BY LenProperties DEF IInv, TypeOK
  <2>2. CASE Waiting
    <3>1. ~(Len(st) > 0)
      BY <1>q, <2>2 DEF IInv, QuietWhenReported
    <3> QED BY <2>1, <3>1
  <2>3. CASE pc = "pid"
    <3>1. Len(st) <= 2 /\ Len(st) # 2
      BY <1>q, <2>3 DEF IInv, QuietWhenReported, StatusPipe
    <3>2. Len(st) >= 1 => st[1].what = "pid"
      BY <2>3 DEF IInv, StatusPipe
    <3>3. ASSUME NEW k \in 1 .. Len(st) PROVE k = 1 /\ Len(st) >= 1
      BY <2>1, <3>1, OnlyFirst
    <3> QED BY <3>2, <3>3
  <2> QED BY <1>1, <2>2, <2>3 DEF Waiting
<1> QED BY <1>1, <1>2, <1>3, <1>4

\* A step of a running target process keeps the invariant if the map goes with
\* the process.
LEMMA ChildMovesR ==
  ASSUME IInv, RInv, Live, NEW p \in Pid, proc[p].st = "running",
         UNCHANGED <<fuzzer, server, ctl, st>>,
         proc'[p].st # "free", proc'[p].sig = proc[p].sig,
         \A q \in Pid : q # p => proc'[q] = proc[q],
         Tracks(proc[p]) => Tracks(proc[p])'
  PROVE  RInv'
<1> USE DEF RInv, fuzzer, server
<1>a. /\ pc \in {"pid", "poll", "read", "drain"}
      /\ InLoop => fpc \in {"forked", "sendpid", "wait"}
      /\ \A k \in 1 .. Len(st) : st[k].what # "status"
      /\ \A q \in Pid : proc[q].st # "free" => q = p
  BY WhileRunning
<1>1. TimeoutFlag'
  BY DEF TimeoutFlag
<1>2. KillsRecorded'
  BY <1>a DEF KillsRecorded, KillOnRecord, InLoop
<1>3. ChildTracked'
  <2>1. InLoop => ~child_stopped
    BY <1>a DEF IInv, ChildOnRecord
  <2>2. ASSUME fpc \in {"forked", "sendpid", "wait"}, NEW q \in Pid, proc'[q].st # "free"
        PROVE  Tracks(proc[q])'
    <3>1. q = p
      BY <1>a, <2>2
    <3>2. Tracks(proc[p])
      BY <2>2 DEF ChildTracked
    <3> QED BY <3>1, <3>2
  <2>3. fpc' = fpc /\ child_stopped' = child_stopped /\ was_killed' = was_killed
    OBVIOUS
  <2> QED BY <1>a, <2>1, <2>2, <2>3 DEF ChildTracked, InLoop
<1>4. FreshMap' /\ VerdictIsOfThisInput'
  BY <1>a DEF FreshMap, VerdictIsOfThisInput, InLoop
<1>5. StatusFits'
  BY <1>a DEF StatusFits, InLoop
<1> QED BY <1>1, <1>2, <1>3, <1>4, <1>5

\* Every step of a target process keeps the map in step with the process.
LEMMA ChildR ==
  ASSUME IInv, RInv, Live, NEW p \in Pid, ChildBoots(p) \/ ChildRuns(p)
  PROVE  RInv'
<1> USE ConstantsAssumption DEF ChildStep
<1>a. proc[p] \in Proc /\ proc \in [Pid -> Proc]
  BY DEF IInv, TypeOK
<1>b. /\ proc[p].st = "running" /\ UNCHANGED <<fuzzer, server, ctl, st>>
      /\ \A q \in Pid : q # p => proc'[q] = proc[q]
  BY <1>a DEF ChildBoots, ChildRuns, ChildBoot, ChildExecFails, ChildFirstPass,
     ChildAgain, ChildRead, ChildFinishes, ChildCrashes
<1>t. UNCHANGED testcase
  BY <1>b DEF fuzzer
<1>c. SUFFICES /\ proc'[p].st # "free" /\ proc'[p].sig = proc[p].sig
               /\ Tracks(proc[p]) => Tracks(proc[p])'
  BY <1>b, ChildMovesR
<1>1. CASE ChildBoot(p)
  <2>1. /\ proc'[p] = [proc[p] EXCEPT !.at = IF Mode = "persistent" THEN "first" ELSE "read"]
        /\ proc[p].at = "boot" /\ trace_bits' = trace_bits \cup {Boot}
    BY <1>a, <1>1 DEF ChildBoot
  <2> QED BY <1>a, <1>b, <2>1 DEF Proc, Tracks, Base
<1>2. CASE ChildExecFails(p)
  <2>1. /\ proc'[p] = [proc[p] EXCEPT !.st = "zombie", !.status = "exit"]
        /\ proc[p].at = "boot" /\ trace_bits' = trace_bits \cup {ExecFail} /\ Mode = "faux"
    BY <1>a, <1>2 DEF ChildExecFails, Dead
  <2> QED BY <1>a, <1>b, <2>1 DEF Proc, Tracks, MapSoFar, Proper
<1>3. CASE ChildFirstPass(p)
  <2>1. /\ proc'[p] = [proc[p] EXCEPT !.at = "read", !.cycles = MaxCnt]
        /\ proc[p].at = "first" /\ trace_bits' = {Mark}
    BY <1>a, <1>3 DEF ChildFirstPass
  <2> QED BY <1>a, <1>b, <2>1 DEF Proc, Tracks, Base
<1>4. CASE ChildAgain(p)
  <2>1. /\ proc'[p] = [proc[p] EXCEPT !.at = "read"]
        /\ proc[p].at = "again" /\ trace_bits' = trace_bits \cup {Mark}
    BY <1>a, <1>4 DEF ChildAgain
  <2> QED BY <1>a, <1>b, <2>1 DEF Proc, Tracks, Base
<1>5. CASE ChildRead(p)
  <2>1. /\ proc'[p] = [proc[p] EXCEPT !.at = "body", !.inp = testcase, !.served = @ + 1]
        /\ proc[p].at = "read" /\ trace_bits' = trace_bits \cup {FirstHalf(testcase)}
    BY <1>a, <1>5 DEF ChildRead
  <2> QED BY <1>a, <1>b, <1>t, <2>1 DEF Proc, Tracks, Base
<1>6. CASE ChildFinishes(p)
  <2>1. /\ proc[p].at = "body" /\ trace_bits' = trace_bits \cup {SecondHalf(proc[p].inp)}
        /\ Kind[proc[p].inp] = "ok"
        /\ \/ /\ Mode = "persistent"
              /\ proc'[p] = [proc[p] EXCEPT !.st = "stopped", !.at = "again", !.cycles = proc[p].cycles - 1]
           \/ proc'[p] = [proc[p] EXCEPT !.st = "zombie", !.status = "exit"]
    BY <1>a, <1>6 DEF ChildFinishes, AfterInput, Dead
  <2>2. proc'[p].st # "free" /\ proc'[p].sig = proc[p].sig
    BY <1>a, <2>1 DEF Proc
  <2>3. ASSUME Tracks(proc[p]) PROVE Tracks(proc[p])'
    <3>1. trace_bits' = CompleteMap(testcase) /\ Kind[testcase] = "ok"
      BY <1>b, <2>1, <2>3 DEF Tracks, CompleteMap, Base
    <3>2. Proper("stop")' /\ Proper("exit")' /\ MapSoFar'
      BY <1>t, <3>1 DEF Proper, MapSoFar, CompleteMap, PartsOf
    <3> QED BY <1>a, <2>1, <2>3, <3>2, ZenonT(40) DEF Tracks, Proc
  <2> QED BY <2>2, <2>3
<1>7. CASE ChildCrashes(p)
  <2>1. /\ proc[p].at = "body" /\ trace_bits' = trace_bits /\ Kind[proc[p].inp] = "crash"
        /\ proc'[p] = [proc[p] EXCEPT !.st = "zombie", !.status = "segv"]
    BY <1>a, <1>7 DEF ChildCrashes, Dead
  <2>2. proc'[p].st # "free" /\ proc'[p].sig = proc[p].sig
    BY <1>a, <2>1 DEF Proc
  <2>3. ASSUME Tracks(proc[p]) PROVE Tracks(proc[p])'
    <3>1. /\ trace_bits' = CompleteMap(testcase) \ {SecondHalf(testcase)}
          /\ Kind[testcase] = "crash"
      BY <1>b, <2>1, <2>3 DEF Tracks, CompleteMap, Base, FirstHalf, SecondHalf, Boot, Mark
    <3>2. Proper("segv")' /\ MapSoFar'
      BY <1>t, <3>1 DEF Proper, MapSoFar, CompleteMap, PartsOf
    <3> QED BY <1>a, <2>1, <2>3, <3>2 DEF Tracks, Proc
  <2> QED BY <2>2, <2>3
<1> QED BY <1>1, <1>2, <1>3, <1>4, <1>5, <1>6, <1>7 DEF ChildBoots, ChildRuns

\* The delivery of a signal keeps the invariant: the kill is on record.
LEMMA DeliverR ==
  ASSUME IInv, RInv, Live, NEW p \in Pid, Deliver(p) PROVE RInv'
<1> USE ConstantsAssumption DEF RInv, fuzzer, server
<1>a. proc \in [Pid -> Proc] /\ proc[p] \in Proc
  BY DEF IInv, TypeOK
<1>b. /\ UNCHANGED <<fuzzer, server, ctl, st, trace_bits>> /\ Alive(p) /\ proc[p].sig # "none"
      /\ proc'[p].at = proc[p].at
      /\ \A q \in Pid : q # p => proc'[q] = proc[q]
      /\ \/ proc'[p].st = "zombie" /\ proc'[p].sig = proc[p].sig
         \/ proc'[p].st = proc[p].st /\ proc[p].st = "running" /\ proc'[p].inp = proc[p].inp
  BY <1>a DEF Deliver, Delivered, Dead, Alive, Proc
<1>1. TimeoutFlag'
  BY <1>b DEF TimeoutFlag
<1>2. KillsRecorded'
  BY <1>b DEF KillsRecorded, KillOnRecord, InLoop, Alive
<1>3. ChildTracked'
  <2>1. ASSUME Tracks(proc[p]) PROVE Tracks(proc[p])'
    <3>1. MapSoFar
      BY <1>a, <1>b, <2>1 DEF Tracks, Alive, Proc, MapSoFar, PartsOf, Base, Proper, CompleteMap
    <3> QED BY <1>b, <2>1, <3>1 DEF Tracks, MapSoFar
  <2>2. ASSUME fpc \in {"forked", "sendpid", "wait"}, NEW q \in Pid, proc'[q].st # "free"
        PROVE  Tracks(proc[q])'
    <3>1. CASE q = p
      BY <1>b, <2>1, <2>2, <3>1 DEF ChildTracked, Alive
    <3>2. CASE q # p
      BY <1>b, <2>2, <3>2 DEF IInv, OneChild, Alive
    <3> QED BY <3>1, <3>2
  <2>3. fpc' = fpc /\ child_stopped' = child_stopped /\ was_killed' = was_killed
    BY <1>b
  <2> QED BY <1>b, <2>2, <2>3 DEF ChildTracked, InLoop, Alive
<1>4. FreshMap' /\ VerdictIsOfThisInput'
  BY <1>b DEF FreshMap, VerdictIsOfThisInput
<1>5. StatusFits'
  BY <1>b DEF StatusFits, Fits, MapSoFar, Proper
<1> QED BY <1>b, <1>1, <1>2, <1>3, <1>4, <1>5

\* RInv holds in the initial state.
LEMMA InitR == Init => RInv
<1> SUFFICES ASSUME Init PROVE RInv
  OBVIOUS
<1> USE DEF Init, RInv
<1>1. TimeoutFlag /\ FreshMap /\ VerdictIsOfThisInput
  BY DEF TimeoutFlag, FreshMap, VerdictIsOfThisInput
<1>2. KillsRecorded /\ ChildTracked
  BY DEF KillsRecorded, ChildTracked, Free
<1>3. StatusFits
  BY DEF StatusFits
<1> QED BY <1>1, <1>2, <1>3

\* Once the run is over for good there is little to keep.
LEMMA NotLiveR ==
  ASSUME RInv, [Next]_vars, ~Live' PROVE RInv'
<1> USE ConstantsAssumption DEF RInv
<1> SUFFICES pc' \notin {"idle", "stopped", "fatal", "closed"} => testcase' # NoInput
  OBVIOUS
<1>1. CASE \E i \in Inputs : WriteTestcase(i)
  BY <1>1 DEF WriteTestcase
<1>2. CASE FuzzerStep
  BY <1>2 DEF FuzzerStep, RequestRun, RequestFails, ReadPid, ReadFails, LoseServer, PollReady,
     PollTimeout, ReadStatus, Report, FsrvKill
<1>3. CASE ServerStep \/ AtExit \/ AtExitReap \/ ServerDies
  BY <1>3 DEF ServerStep, ServerRead, ServerReap, ServerFork, ServerForked, ServerResume,
     ServerSendPid, ServerWait, ServerSendStatus, ServerHangup, AtExit, AtExitReap, ServerDies,
     fuzzer
<1>4. CASE StopSignal \/ FuzzerDies
  BY <1>4 DEF StopSignal, FuzzerDies
<1>5. CASE \E p \in Pid : ChildBoots(p) \/ ChildRuns(p) \/ Deliver(p)
  BY <1>5 DEF ChildBoots, ChildRuns, Deliver, ChildBoot, ChildExecFails, ChildFirstPass,
     ChildAgain, ChildRead, ChildFinishes, ChildCrashes, ChildStep, fuzzer
<1>6. CASE UNCHANGED vars
  BY <1>6 DEF vars, fuzzer
<1> QED BY <1>1, <1>2, <1>3, <1>4, <1>5, <1>6 DEF Next, Over

\* Every step keeps RInv.
LEMMA NextR == IInv /\ RInv /\ [Next]_vars => RInv'
<1> SUFFICES ASSUME IInv, RInv, [Next]_vars, Live' PROVE RInv'
  BY NotLiveR
<1>0. Live
  BY LiveBefore
<1>1. CASE \E i \in Inputs : WriteTestcase(i)
  BY <1>0, <1>1, WriteTestcaseR
<1>2. CASE FuzzerStep
  <2>1. ~RequestFails /\ ~ReadFails /\ ~FsrvKill
    BY DEF RequestFails, ReadFails, LoseServer, FsrvKill, Live, Gone
  <2> QED BY <1>0, <1>2, <2>1, RequestRunR, ReadPidR, PollReadyR, PollTimeoutR, ReadStatusR,
             ReportR DEF FuzzerStep
<1>3. CASE ServerStep
  <2>1. ~ServerHangup
    BY <1>0 DEF ServerHangup, Live, Gone
  <2> QED BY <1>0, <1>3, <2>1, ServerReadR, ServerReapR, ServerForkR, ServerForkedR,
             ServerResumeR, ServerSendPidR, ServerWaitR, ServerSendStatusR DEF ServerStep
<1>4. CASE AtExit \/ AtExitReap \/ ServerDies
  <2>1. fpc' \in {"exiting", "exited", "died"} /\ UNCHANGED <<fuzzer, st, trace_bits>>
    BY <1>4 DEF AtExit, AtExitReap, ServerDies
  <2> QED BY <1>0, <2>1, ServerLeavesR
<1>5. CASE StopSignal \/ FuzzerDies
  BY <1>5 DEF StopSignal, FuzzerDies, Live, Gone
<1>6. CASE \E p \in Pid : ChildBoots(p) \/ ChildRuns(p) \/ Deliver(p)
  BY <1>0, <1>6, ChildR, DeliverR
<1>7. CASE UNCHANGED vars
  <2> USE <1>7 DEF vars, fuzzer, server
  <2>1. TimeoutFlag' /\ KillsRecorded' /\ FreshMap' /\ VerdictIsOfThisInput'
    BY <1>0 DEF RInv, TimeoutFlag, KillsRecorded, KillOnRecord, InLoop, FreshMap,
       VerdictIsOfThisInput
  <2>2. ChildTracked'
    BY <1>0 DEF RInv, ChildTracked, InLoop, Tracks, Proper, MapSoFar
  <2>3. StatusFits'
    BY <1>0 DEF RInv, StatusFits, Fits, Proper, MapSoFar
  <2> QED BY <2>1, <2>2, <2>3 DEF RInv
<1> QED BY <1>1, <1>2, <1>3, <1>4, <1>5, <1>6, <1>7 DEF Next, Over

\* RInv is an invariant.
THEOREM RunInvariant == Spec => []RInv
BY InductiveInvariant, InitR, NextR, PTL DEF Spec

\* The verdict of afl_fsrv_run_target, with the map, is an outcome of the very
\* test case that was written, whatever was killed, timed out or left stopped
\* before.
THEOREM VerdictsAreOwn == Spec => []VerdictIsOfThisInput
<1>1. IInv /\ RInv => VerdictIsOfThisInput
  BY DEF RInv, VerdictIsOfThisInput, Live, Gone
<1> QED BY <1>1, InductiveInvariant, RunInvariant, PTL

\* Wherever SIGTERM strikes the server, a target process survives it only if its
\* fork() has returned and its pid is not stored yet.
THEOREM OrphansOnlyOfTheWindow == Spec => []OnlyTheWindowOrphans
<1>1. Init => OrphanInv
  BY DEF Init, OrphanInv, OnlyTheWindowOrphans
<1>2. IInv /\ OrphanInv /\ [Next]_vars => OrphanInv'
  <2> SUFFICES ASSUME IInv, OrphanInv, [Next]_vars PROVE OrphanInv'
    OBVIOUS
  <2> USE ConstantsAssumption
  <2>a. proc \in [Pid -> Proc] /\ fpc \in ServerPcs
    BY DEF IInv, TypeOK
  \* A step that leaves the server alone and revives no process.
  <2>b. ASSUME UNCHANGED <<fpc, server_child, fork_result>>,
               \A p \in Pid : Alive(p)' => Alive(p)
        PROVE  OrphanInv'
    BY <2>b DEF OrphanInv, OnlyTheWindowOrphans
  <2>1. CASE \E i \in Inputs : WriteTestcase(i)
    BY <2>1, <2>b DEF WriteTestcase, server, Alive
  <2>2. CASE FuzzerStep
    <3>1. /\ UNCHANGED <<fpc, server_child, fork_result>>
          /\ proc' = proc \/ proc' = Kill(child_pid, KillSignal)
      BY <2>2 DEF FuzzerStep, RequestRun, RequestFails, ReadPid, ReadFails, LoseServer, PollReady,
         PollTimeout, ReadStatus, Report, FsrvKill, server
    <3>2. \A p \in Pid : Alive(p)' => Alive(p)
      BY <2>a, <3>1, KillOnlySignals DEF Alive
    <3> QED BY <2>b, <3>1, <3>2
  <2>3. CASE ServerStep \/ ServerDies
    <3>1. fpc' \notin {"exiting", "exited"}
      BY <2>3 DEF ServerStep, ServerRead, ServerReap, ServerFork, ServerForked, ServerResume,
         ServerSendPid, ServerWait, ServerSendStatus, ServerHangup, ServerDies
    <3> QED BY <3>1 DEF OrphanInv, OnlyTheWindowOrphans
  <2>4. CASE AtExit
    <3>1. /\ fpc' = "exiting" /\ UNCHANGED <<server_child, fork_result>>
          /\ proc' = Kill(server_child, "KILL")
          /\ fpc \in ServerPcs \ {"exiting", "exited", "died"}
      BY <2>a, <2>4 DEF AtExit, ServerUp
    <3>2. \A p \in Pid : Alive(p)' => Alive(p)
      BY <2>a, <3>1, KillOnlySignals DEF Alive
    <3>3. ASSUME NEW p \in Pid, Alive(p) PROVE p \in {server_child, fork_result}
      <4>1. proc[p].st # "free" /\ ~AllFree
        BY <3>3 DEF Alive, AllFree
      <4>2. \/ server_child \in Pid /\ proc[server_child].st # "free"
            \/ fork_result \in Pid /\ proc[fork_result].st # "free"
        BY <3>1, <4>1 DEF IInv, ChildOnRecord, ServerPcs
      <4> QED BY <4>1, <4>2 DEF IInv, OneChild
    <3> QED BY <3>1, <3>2, <3>3 DEF OrphanInv, OnlyTheWindowOrphans
  <2>5. CASE AtExitReap
    <3>1. /\ fpc = "exiting" /\ fpc' = "exited" /\ UNCHANGED fork_result
          /\ \A p \in Pid : Alive(p)' => Alive(p) /\ p # server_child
      BY <2>a, <2>5 DEF AtExitReap, Alive, Free
    <3> QED BY <3>1 DEF OrphanInv, OnlyTheWindowOrphans
  <2>6. CASE StopSignal \/ FuzzerDies
    <3>1. /\ UNCHANGED <<fpc, server_child, fork_result>>
          /\ proc' = proc \/ proc' = Kill(child_pid, KillSignal)
      BY <2>6 DEF StopSignal, FuzzerDies, server
    <3>2. \A p \in Pid : Alive(p)' => Alive(p)
      BY <2>a, <3>1, KillOnlySignals DEF Alive
    <3> QED BY <2>b, <3>1, <3>2
  <2>7. ASSUME NEW p \in Pid, ChildBoots(p) \/ ChildRuns(p) \/ Deliver(p)
        PROVE  OrphanInv'
    <3>1. /\ Alive(p) /\ UNCHANGED <<fpc, server_child, fork_result>>
          /\ \A q \in Pid : q # p => proc'[q] = proc[q]
      BY <2>a, <2>7 DEF ChildBoots, ChildRuns, Deliver, ChildBoot, ChildExecFails, ChildFirstPass,
         ChildAgain, ChildRead, ChildFinishes, ChildCrashes, ChildStep, server, Alive
    <3> QED BY <2>b, <3>1 DEF Alive
  <2>8. CASE UNCHANGED vars
    BY <2>8, <2>b DEF vars, server, Alive
  <2> QED BY <2>1, <2>2, <2>3, <2>4, <2>5, <2>6, <2>7, <2>8 DEF Next, Over
<1>3. OrphanInv => OnlyTheWindowOrphans
  BY DEF OrphanInv
<1> QED BY <1>1, <1>2, <1>3, InductiveInvariant, PTL DEF Spec

\* The fork server protocol implements TargetExec: every step of the fuzzer, the
\* server or a target process is a step of it or leaves it alone.
THEOREM Refinement == Spec => Refines
<1>1. Init => Target!Init
  BY DEF Init, Target!Init
<1>2. IInv /\ RInv /\ [Next]_vars => [Target!Next]_(Target!vars)
  <2> SUFFICES ASSUME IInv, RInv, [Next]_vars
               PROVE  Target!Next \/ UNCHANGED Target!vars
    OBVIOUS
  <2> USE ConstantsAssumption DEF Target!Next, Target!vars
  <2>1. ASSUME NEW i \in Inputs, WriteTestcase(i)
        PROVE  Target!Submit(i)
    BY <2>1 DEF WriteTestcase, Target!Submit
  <2>2. CASE RequestRun \/ ReadPid \/ PollTimeout \/ ReadStatus
    BY <2>2 DEF RequestRun, ReadPid, PollTimeout, ReadStatus
  <2>3. CASE RequestFails \/ ReadFails
    BY <2>3 DEF RequestFails, ReadFails, LoseServer, Target!GiveUp
  <2>4. CASE PollReady
    BY <2>4 DEF PollReady, Target!GiveUp
  <2>5. CASE Report
    <3>1. testcase # NoInput
      BY <2>5 DEF RInv, Report
    <3>2. stop_soon \/ <<Verdict, trace_bits>> \in Outcome(testcase)
      <4> SUFFICES ASSUME ~stop_soon PROVE <<Verdict, trace_bits>> \in Outcome(testcase)
        OBVIOUS
      <4>1. Live
        BY <2>5 DEF Live, Gone, Report
      <4>2. Fits(child_status) /\ child_status \in Statuses /\ last_run_timed_out \in BOOLEAN
        BY <2>5, <4>1 DEF RInv, StatusFits, IInv, TypeOK, Report
      <4> QED BY <2>5, <4>2, VerdictFits DEF Report
    <3>3. <<Verdict, trace_bits>> # <<>>
      OBVIOUS
    <3>4. Target!Answer
      BY <2>5, <3>1, <3>2, <3>3 DEF Report, Target!Answer
    <3> QED BY <3>4
  <2>6. CASE FsrvKill \/ FuzzerDies
    BY <2>6 DEF FsrvKill, FuzzerDies, Target!GiveUp
  <2>7. CASE StopSignal
    BY <2>7 DEF StopSignal, Target!Halt
  <2>8. CASE ServerStep \/ AtExit \/ AtExitReap \/ ServerDies
    BY <2>8 DEF ServerStep, ServerRead, ServerReap, ServerFork, ServerForked, ServerResume,
       ServerSendPid, ServerWait, ServerSendStatus, ServerHangup, AtExit, AtExitReap, ServerDies,
       fuzzer
  <2>9. ASSUME NEW p \in Pid, ChildBoots(p) \/ ChildRuns(p) \/ Deliver(p)
        PROVE  UNCHANGED Target!vars
    <3>1. UNCHANGED fuzzer /\ (Deliver(p) => UNCHANGED trace_bits)
      BY <2>9 DEF ChildBoots, ChildRuns, Deliver, ChildBoot, ChildExecFails, ChildFirstPass,
         ChildAgain, ChildRead, ChildFinishes, ChildCrashes, ChildStep
    <3>2. ~Deliver(p) => pc # "idle"
      BY <2>9 DEF ChildBoots, ChildRuns, ChildBoot, ChildExecFails, ChildFirstPass,
         ChildAgain, ChildRead, ChildFinishes, ChildCrashes, ChildStep, IInv, QuietWhenReported,
         Quiet, Resting
    <3> QED BY <3>1, <3>2 DEF fuzzer
  <2>10. CASE UNCHANGED vars
    BY <2>10 DEF vars, fuzzer
  <2> QED BY <2>1, <2>2, <2>3, <2>4, <2>5, <2>6, <2>7, <2>8, <2>9, <2>10
          DEF Next, FuzzerStep, Over
<1> QED BY <1>1, <1>2, InductiveInvariant, RunInvariant, PTL DEF Spec, Refines, Target!Spec
=============================================================================
