-------------------------- MODULE ForkserverProofs --------------------------
(***************************************************************************)
(* Proofs about Forkserver.  IInv ties the server's place in its loop to   *)
(* what the pipes hold, to where the fuzzer can be and to the one target   *)
(* process there is.  One lemma per action shows that the action keeps     *)
(* IInv, one conjunct at a time; the theorems follow from IInv.            *)
(* Nothing is assumed of the constants beyond ConstantsAssumption: any     *)
(* inputs, any pids, all three kinds of server, both kill signals.         *)
(***************************************************************************)
EXTENDS Forkserver, SequenceTheorems, TLAPS

\* A word on the status pipe carries what its tag says.
LEMMA MessageShape ==
  ASSUME NEW m \in Messages
  PROVE  /\ m.what = "pid" => m.val \in Pid
         /\ m.what = "status" => m.val \in Statuses
BY DEF Messages, PidMsg, StatusMsg

\* Taking one of at most two words leaves one only if there were two.
LEMMA OneLeft ==
  ASSUME NEW n \in Nat, n <= 2 PROVE n - 1 > 0 => n = 2
OBVIOUS

\* kill() marks a signal as pending and changes nothing else of a process.
LEMMA KillOnlySignals ==
  ASSUME proc \in [Pid -> Proc], NEW q, NEW s \in {"KILL", "TERM"}
  PROVE  /\ Kill(q, s) \in [Pid -> Proc]
         /\ \A p \in Pid : /\ Kill(q, s)[p].st = proc[p].st
                           /\ Kill(q, s)[p].at = proc[p].at
                           /\ Kill(q, s)[p].cycles = proc[p].cycles
                           /\ Kill(q, s)[p].served = proc[p].served
BY DEF Kill, Proc

\* Writing the test case keeps the invariant.
LEMMA WriteTestcaseInv ==
  ASSUME NEW i \in Inputs, IInv, WriteTestcase(i) PROVE IInv'
<1> USE ConstantsAssumption DEF IInv, WriteTestcase, server
<1>1. TypeOK'
  BY DEF TypeOK, FuzzerPcs
<1>2. OneChild'
  BY DEF OneChild
<1>3. StatusPipe'
  BY DEF StatusPipe, Resting, Waiting
<1>4. InStep'
  BY DEF InStep, Resting, Waiting, Gone
<1>5. ChildOnRecord'
  BY DEF ChildOnRecord, AllFree
<1>6. QuietWhenReported'
  BY DEF QuietWhenReported, Resting, Waiting, Quiet
<1>7. LoopCount'
  BY DEF LoopCount, CountsAddUp
<1> QED BY <1>1, <1>2, <1>3, <1>4, <1>5, <1>6, <1>7

\* The request of a run keeps the invariant: the server is in its read.
LEMMA RequestRunInv ==
  ASSUME IInv, RequestRun PROVE IInv'
<1> USE ConstantsAssumption DEF IInv, RequestRun, server
<1>a. ctl \in Seq(BOOLEAN) /\ st \in Seq(Messages) /\ last_run_timed_out \in BOOLEAN
  BY DEF TypeOK
<1>b. Append(ctl, last_run_timed_out) \in Seq(BOOLEAN)
  BY <1>a, AppendProperties
<1>c. {} \subseteq Edges
  OBVIOUS
<1>1. TypeOK'
  BY <1>a, <1>b, <1>c DEF TypeOK, FuzzerPcs
<1>2. OneChild'
  BY DEF OneChild
<1>3. StatusPipe'
  BY DEF StatusPipe, Resting, Waiting
<1>4. InStep'
  BY <1>a DEF InStep, Resting, Waiting, Gone, StatusPipe, ServerUp, TypeOK, ServerPcs
<1>5. ChildOnRecord'
  BY DEF ChildOnRecord, AllFree
<1>6. QuietWhenReported'
  BY DEF QuietWhenReported, Resting, Waiting, Quiet
<1>7. LoopCount'
  BY DEF LoopCount, CountsAddUp
<1> QED BY <1>1, <1>2, <1>3, <1>4, <1>5, <1>6, <1>7

\* A request that cannot be written keeps the invariant.
LEMMA RequestFailsInv ==
  ASSUME IInv, RequestFails PROVE IInv'
<1> USE ConstantsAssumption DEF IInv, RequestFails, LoseServer, server
<1>1. TypeOK'
  BY DEF TypeOK, FuzzerPcs
<1>2. OneChild'
  BY DEF OneChild
<1>3. StatusPipe'
  BY DEF StatusPipe, Resting, Waiting
<1>4. InStep'
  BY DEF InStep, Resting, Waiting, Gone
<1>5. ChildOnRecord'
  BY DEF ChildOnRecord, AllFree
<1>6. QuietWhenReported'
  BY DEF QuietWhenReported, Resting, Waiting, Quiet
<1>7. LoopCount'
  BY DEF LoopCount, CountsAddUp
<1> QED BY <1>1, <1>2, <1>3, <1>4, <1>5, <1>6, <1>7

\* Reading the pid keeps the invariant: what is left on the pipe is a status.
LEMMA ReadPidInv ==
  ASSUME IInv, ReadPid PROVE IInv'
<1> USE ConstantsAssumption DEF IInv, ReadPid, server
<1>a. st \in Seq(Messages)
  BY DEF TypeOK
<1>b. Head(st).val \in Pid
  BY <1>a, MessageShape DEF StatusPipe
<1>n. Len(st) \in Nat /\ Len(st') = Len(st) - 1
  BY <1>a, LenProperties, HeadTailProperties
<1>o. Len(st) <= 2
  BY DEF StatusPipe
<1>e. Len(st') > 0 => Len(st) = 2
  BY <1>n, <1>o, OneLeft
<1>c. Len(st') > 0 => Quiet
  BY <1>e DEF QuietWhenReported
<1>d. pc' = "poll" /\ UNCHANGED proc
  OBVIOUS
<1>1. TypeOK'
  BY <1>a, <1>b DEF TypeOK, FuzzerPcs
<1>2. OneChild'
  BY DEF OneChild
<1>3. StatusPipe'
  BY <1>a DEF StatusPipe, Resting, Waiting
<1>4. InStep'
  BY <1>a DEF InStep, Resting, Waiting, Gone, StatusPipe
<1>5. ChildOnRecord'
  BY DEF ChildOnRecord, AllFree
<1>6. QuietWhenReported'
  BY <1>c, <1>d DEF QuietWhenReported, Resting, Waiting, Quiet
<1>7. LoopCount'
  BY DEF LoopCount, CountsAddUp
<1> QED BY <1>1, <1>2, <1>3, <1>4, <1>5, <1>6, <1>7

\* A read that finds the status pipe closed keeps the invariant.
LEMMA ReadFailsInv ==
  ASSUME IInv, ReadFails PROVE IInv'
<1> USE ConstantsAssumption DEF IInv, ReadFails, LoseServer, server
<1>1. TypeOK'
  BY DEF TypeOK, FuzzerPcs
<1>2. OneChild'
  BY DEF OneChild
<1>3. StatusPipe'
  BY DEF StatusPipe, Resting, Waiting
<1>4. InStep'
  BY DEF InStep, Resting, Waiting, Gone
<1>5. ChildOnRecord'
  BY DEF ChildOnRecord, AllFree
<1>6. QuietWhenReported'
  BY DEF QuietWhenReported, Resting, Waiting, Quiet
<1>7. LoopCount'
  BY DEF LoopCount, CountsAddUp
<1> QED BY <1>1, <1>2, <1>3, <1>4, <1>5, <1>6, <1>7

\* poll() reporting the pipe readable keeps the invariant.
LEMMA PollReadyInv ==
  ASSUME IInv, PollReady PROVE IInv'
<1> USE ConstantsAssumption DEF IInv, PollReady, server
<1>1. TypeOK'
  BY DEF TypeOK, FuzzerPcs
<1>2. OneChild'
  BY DEF OneChild
<1>3. StatusPipe'
  BY DEF StatusPipe, Resting, Waiting
<1>4. InStep'
  BY DEF InStep, Resting, Waiting, Gone, StatusPipe
<1>5. ChildOnRecord'
  BY DEF ChildOnRecord, AllFree
<1>6. QuietWhenReported'
  BY DEF QuietWhenReported, Resting, Waiting, Quiet
<1>7. LoopCount'
  BY DEF LoopCount, CountsAddUp
<1> QED BY <1>1, <1>2, <1>3, <1>4, <1>5, <1>6, <1>7

\* Killing a child that is too slow keeps the invariant: its status is still
\* awaited.
LEMMA PollTimeoutInv ==
  ASSUME IInv, PollTimeout PROVE IInv'
<1> USE ConstantsAssumption DEF IInv, PollTimeout, server
<1>k. /\ proc' \in [Pid -> Proc]
      /\ \A p \in Pid : proc'[p].st = proc[p].st /\ proc'[p].at = proc[p].at
      /\ \A p \in Pid : proc'[p].cycles = proc[p].cycles /\ proc'[p].served = proc[p].served
  BY KillOnlySignals DEF TypeOK
<1>1. TypeOK'
  BY <1>k DEF TypeOK, FuzzerPcs
<1>2. OneChild'
  BY <1>k DEF OneChild
<1>3. StatusPipe'
  BY DEF StatusPipe, Resting, Waiting
<1>4. InStep'
  BY DEF InStep, Resting, Waiting, Gone
<1>5. ChildOnRecord'
  BY <1>k DEF ChildOnRecord, AllFree, TypeOK
<1>6. QuietWhenReported'
  BY <1>k DEF QuietWhenReported, Resting, Waiting, Quiet
<1>7. LoopCount'
  BY <1>k DEF LoopCount, CountsAddUp
<1> QED BY <1>1, <1>2, <1>3, <1>4, <1>5, <1>6, <1>7

\* Reading the status keeps the invariant: the process it is about is dead or
\* stopped.
LEMMA ReadStatusInv ==
  ASSUME IInv, ReadStatus PROVE IInv'
<1> USE ConstantsAssumption DEF IInv, ReadStatus, server
<1>a. st \in Seq(Messages)
  BY DEF TypeOK
<1>n. Len(st) \in Nat /\ Waiting
  BY <1>a, LenProperties DEF Waiting
<1>o. Len(st) <= 1
  BY <1>n DEF StatusPipe
<1>w. Waiting /\ Len(st) = 1
  BY <1>n, <1>o, SMTT(30)
<1>b. Head(st).val \in Statuses
  BY <1>a, <1>w, MessageShape DEF StatusPipe
<1>c. Len(st') = 0
  BY <1>a, <1>w
<1>1. TypeOK'
  BY <1>a, <1>b DEF TypeOK, FuzzerPcs
<1>2. OneChild'
  BY DEF OneChild
<1>3. StatusPipe'
  BY <1>c DEF StatusPipe, Resting, Waiting
<1>4. InStep'
  BY <1>a, <1>c DEF InStep, Resting, Waiting, Gone, StatusPipe
<1>5. ChildOnRecord'
  BY DEF ChildOnRecord, AllFree
<1>6. QuietWhenReported'
  BY <1>a, <1>w DEF QuietWhenReported, Resting, Waiting, Quiet, StatusPipe
<1>7. LoopCount'
  BY DEF LoopCount, CountsAddUp
<1> QED BY <1>1, <1>2, <1>3, <1>4, <1>5, <1>6, <1>7

\* Returning the verdict keeps the invariant.
LEMMA ReportInv ==
  ASSUME IInv, Report PROVE IInv'
<1> USE ConstantsAssumption DEF IInv, Report, Verdict, server
<1>1. TypeOK'
  BY DEF TypeOK, FuzzerPcs
<1>2. OneChild'
  BY DEF OneChild
<1>3. StatusPipe'
  BY DEF StatusPipe, Resting, Waiting
<1>4. InStep'
  BY DEF InStep, Resting, Waiting, Gone
<1>5. ChildOnRecord'
  BY DEF ChildOnRecord, AllFree
<1>6. QuietWhenReported'
  BY DEF QuietWhenReported, Resting, Waiting, Quiet
<1>7. LoopCount'
  BY DEF LoopCount, CountsAddUp
<1> QED BY <1>1, <1>2, <1>3, <1>4, <1>5, <1>6, <1>7

\* The handler of the stop signal keeps the invariant, wherever it strikes.
LEMMA StopSignalInv ==
  ASSUME IInv, StopSignal PROVE IInv'
<1> USE ConstantsAssumption DEF IInv, StopSignal, TermServer, ServerUp
<1>k. /\ proc' \in [Pid -> Proc]
      /\ \A p \in Pid : proc'[p].st = proc[p].st /\ proc'[p].at = proc[p].at
      /\ \A p \in Pid : proc'[p].cycles = proc[p].cycles /\ proc'[p].served = proc[p].served
  BY KillOnlySignals DEF TypeOK
<1>1. TypeOK'
  BY <1>k DEF TypeOK, FuzzerPcs
<1>2. OneChild'
  BY <1>k DEF OneChild
<1>3. StatusPipe'
  BY DEF StatusPipe, Resting, Waiting
<1>4. InStep'
  BY DEF InStep, Resting, Waiting, Gone
<1>5. ChildOnRecord'
  BY <1>k DEF ChildOnRecord, AllFree, TypeOK
<1>6. QuietWhenReported'
  BY <1>k DEF QuietWhenReported, Resting, Waiting, Quiet
<1>7. LoopCount'
  BY <1>k DEF LoopCount, CountsAddUp
<1> QED BY <1>1, <1>2, <1>3, <1>4, <1>5, <1>6, <1>7

\* afl_fsrv_kill keeps the invariant.
LEMMA FsrvKillInv ==
  ASSUME IInv, FsrvKill PROVE IInv'
<1> USE ConstantsAssumption DEF IInv, FsrvKill, TermServer, ServerUp
<1>k. /\ proc' \in [Pid -> Proc]
      /\ \A p \in Pid : proc'[p].st = proc[p].st /\ proc'[p].at = proc[p].at
      /\ \A p \in Pid : proc'[p].cycles = proc[p].cycles /\ proc'[p].served = proc[p].served
  BY KillOnlySignals DEF TypeOK
<1>1. TypeOK'
  BY <1>k DEF TypeOK, FuzzerPcs
<1>2. OneChild'
  BY <1>k DEF OneChild
<1>3. StatusPipe'
  BY DEF StatusPipe, Resting, Waiting
<1>4. InStep'
  BY DEF InStep, Resting, Waiting, Gone
<1>5. ChildOnRecord'
  BY <1>k DEF ChildOnRecord, AllFree, TypeOK
<1>6. QuietWhenReported'
  BY <1>k DEF QuietWhenReported, Resting, Waiting, Quiet
<1>7. LoopCount'
  BY <1>k DEF LoopCount, CountsAddUp
<1> QED BY <1>1, <1>2, <1>3, <1>4, <1>5, <1>6, <1>7

\* The death of afl-fuzz keeps the invariant.
LEMMA FuzzerDiesInv ==
  ASSUME IInv, FuzzerDies PROVE IInv'
<1> USE ConstantsAssumption DEF IInv, FuzzerDies, server
<1>1. TypeOK'
  BY DEF TypeOK, FuzzerPcs
<1>2. OneChild'
  BY DEF OneChild
<1>3. StatusPipe'
  BY DEF StatusPipe, Resting, Waiting
<1>4. InStep'
  BY DEF InStep, Resting, Waiting, Gone
<1>5. ChildOnRecord'
  BY DEF ChildOnRecord, AllFree
<1>6. QuietWhenReported'
  BY DEF QuietWhenReported, Resting, Waiting, Quiet
<1>7. LoopCount'
  BY DEF LoopCount, CountsAddUp
<1> QED BY <1>1, <1>2, <1>3, <1>4, <1>5, <1>6, <1>7

\* The server reading a request keeps the invariant.
LEMMA ServerReadInv ==
  ASSUME IInv, ServerRead PROVE IInv'
<1> USE ConstantsAssumption DEF IInv, ServerRead, fuzzer
<1>a. ctl \in Seq(BOOLEAN) /\ st \in Seq(Messages)
  BY DEF TypeOK
<1>1. TypeOK'
  BY <1>a DEF TypeOK, ServerPcs
<1>2. OneChild'
  BY DEF OneChild
<1>3. StatusPipe'
  BY DEF StatusPipe, Resting, Waiting
<1>4. InStep'
  BY <1>a DEF InStep, Resting, Waiting, Gone, StatusPipe
<1>5. ChildOnRecord'
  BY DEF ChildOnRecord, AllFree
<1>6. QuietWhenReported'
  BY DEF QuietWhenReported, Resting, Waiting, Quiet
<1>7. LoopCount'
  BY DEF LoopCount, CountsAddUp
<1> QED BY <1>1, <1>2, <1>3, <1>4, <1>5, <1>6, <1>7

\* Reaping a child that was killed while stopped keeps the invariant.
LEMMA ServerReapInv ==
  ASSUME IInv, ServerReap PROVE IInv'
<1> USE ConstantsAssumption DEF IInv, ServerReap, fuzzer
<1>f. Free \in Proc
  BY DEF Free, Proc, Statuses
<1>a. server_child \in Pid /\ child_stopped
  BY DEF ChildOnRecord
<1>1. TypeOK'
  BY <1>f, ZenonT(40) DEF TypeOK, ServerPcs
<1>2. OneChild'
  BY <1>a DEF OneChild, TypeOK, Free
<1>3. StatusPipe'
  BY DEF StatusPipe, Resting, Waiting
<1>4. InStep'
  BY DEF InStep, Resting, Waiting, Gone
<1>5. ChildOnRecord'
  BY <1>a DEF ChildOnRecord, AllFree, TypeOK, Free, OneChild
<1>6. QuietWhenReported'
  BY <1>a DEF QuietWhenReported, Resting, Waiting, Quiet, TypeOK, Free
<1>7. LoopCount'
  BY <1>a DEF LoopCount, CountsAddUp, TypeOK, Free
<1> QED BY <1>1, <1>2, <1>3, <1>4, <1>5, <1>6, <1>7

\* fork() keeps the invariant: there was no other target process.
LEMMA ServerForkInv ==
  ASSUME NEW p \in Pid, IInv, ServerFork(p) PROVE IInv'
<1> USE ConstantsAssumption DEF IInv, ServerFork, fuzzer
<1>a. AllFree /\ ~child_stopped
  BY DEF ChildOnRecord
<1>b. [Free EXCEPT !.st = "running"] \in Proc
  BY DEF Free, Proc, Statuses
<1>1. TypeOK'
  BY <1>b DEF TypeOK, ServerPcs
<1>2. OneChild'
  BY <1>a DEF OneChild, AllFree, TypeOK
<1>3. StatusPipe'
  BY DEF StatusPipe, Resting, Waiting
<1>4. InStep'
  BY DEF InStep, Resting, Waiting, Gone, StatusPipe
<1>5. ChildOnRecord'
  BY <1>a DEF ChildOnRecord, AllFree, TypeOK, Free
<1>6. QuietWhenReported'
  BY DEF QuietWhenReported, Resting, Waiting, Quiet, InStep, Gone
<1>7. LoopCount'
  BY DEF LoopCount, CountsAddUp, TypeOK, Free
<1> QED BY <1>1, <1>2, <1>3, <1>4, <1>5, <1>6, <1>7

\* Storing the pid fork() returned keeps the invariant.
LEMMA ServerForkedInv ==
  ASSUME IInv, ServerForked PROVE IInv'
<1> USE ConstantsAssumption DEF IInv, ServerForked, fuzzer
<1>1. TypeOK'
  BY DEF TypeOK, ServerPcs
<1>2. OneChild'
  BY DEF OneChild
<1>3. StatusPipe'
  BY DEF StatusPipe, Resting, Waiting
<1>4. InStep'
  BY DEF InStep, Resting, Waiting, Gone
<1>5. ChildOnRecord'
  BY DEF ChildOnRecord, AllFree
<1>6. QuietWhenReported'
  BY DEF QuietWhenReported, Resting, Waiting, Quiet
<1>7. LoopCount'
  BY DEF LoopCount, CountsAddUp
<1> QED BY <1>1, <1>2, <1>3, <1>4, <1>5, <1>6, <1>7

\* SIGCONT keeps the invariant: it reaches the recorded child only.
LEMMA ServerResumeInv ==
  ASSUME IInv, ServerResume PROVE IInv'
<1> USE ConstantsAssumption DEF IInv, ServerResume, fuzzer
<1>a. server_child \in Pid /\ child_stopped
  BY DEF ChildOnRecord
<1>b. [proc[server_child] EXCEPT !.st = "running"] \in Proc
  BY <1>a DEF TypeOK, Proc
<1>1. TypeOK'
  BY <1>b, ZenonT(40) DEF TypeOK, ServerPcs
<1>2. OneChild'
  BY <1>a DEF OneChild, TypeOK, Proc
<1>3. StatusPipe'
  BY DEF StatusPipe, Resting, Waiting
<1>4. InStep'
  BY DEF InStep, Resting, Waiting, Gone
<1>5. ChildOnRecord'
  BY <1>a DEF ChildOnRecord, AllFree, TypeOK, Proc
<1>6. QuietWhenReported'
  BY DEF QuietWhenReported, Resting, Waiting, Quiet, InStep, Gone
<1>7. LoopCount'
  BY <1>a DEF LoopCount, CountsAddUp, TypeOK, Proc
<1> QED BY <1>1, <1>2, <1>3, <1>4, <1>5, <1>6, <1>7

\* Sending the pid keeps the invariant.
LEMMA ServerSendPidInv ==
  ASSUME IInv, ServerSendPid PROVE IInv'
<1> USE ConstantsAssumption DEF IInv, ServerSendPid, fuzzer
<1>a. st \in Seq(Messages)
  BY DEF TypeOK
<1>m. PidMsg(server_child) \in Messages
  BY DEF Messages, ChildOnRecord, TypeOK
<1>1. TypeOK'
  BY <1>a, <1>m DEF TypeOK, ServerPcs
<1>2. OneChild'
  BY DEF OneChild
<1>3. StatusPipe'
  BY <1>a DEF StatusPipe, Resting, Waiting, InStep, Gone, PidMsg
<1>4. InStep'
  BY <1>a DEF InStep, Resting, Waiting, Gone
<1>5. ChildOnRecord'
  BY DEF ChildOnRecord, AllFree
<1>6. QuietWhenReported'
  BY <1>a DEF QuietWhenReported, Resting, Waiting, Quiet, InStep, Gone
<1>7. LoopCount'
  BY DEF LoopCount, CountsAddUp
<1> QED BY <1>1, <1>2, <1>3, <1>4, <1>5, <1>6, <1>7

\* waitpid() keeps the invariant, for a dead child and for a stopped one.
LEMMA ServerWaitInv ==
  ASSUME IInv, ServerWait PROVE IInv'
<1> USE ConstantsAssumption DEF IInv, ServerWait, fuzzer
<1>f. Free \in Proc
  BY DEF Free, Proc, Statuses
<1>a. server_child \in Pid /\ ~child_stopped
  BY DEF ChildOnRecord
<1>r. proc[server_child].status \in Statuses /\ "stop" \in Statuses
  BY <1>a DEF TypeOK, Proc, Statuses
<1>s. proc' \in [Pid -> Proc] /\ server_status' \in Statuses
  BY <1>f, <1>a, <1>r DEF TypeOK
<1>1. TypeOK'
  BY <1>f, <1>a, <1>s, ZenonT(40) DEF TypeOK, ServerPcs
<1>2. OneChild'
  BY <1>a DEF OneChild, TypeOK, Free
<1>3. StatusPipe'
  BY DEF StatusPipe, Resting, Waiting
<1>4. InStep'
  BY DEF InStep, Resting, Waiting, Gone
<1>5. ChildOnRecord'
  BY <1>a DEF ChildOnRecord, AllFree, TypeOK, Free, OneChild
<1>6. QuietWhenReported'
  BY <1>a DEF QuietWhenReported, Resting, Waiting, Quiet, TypeOK, Free
<1>7. LoopCount'
  BY <1>a DEF LoopCount, CountsAddUp, TypeOK, Free
<1> QED BY <1>1, <1>2, <1>3, <1>4, <1>5, <1>6, <1>7

\* Sending the status keeps the invariant: no process runs any more.
LEMMA ServerSendStatusInv ==
  ASSUME IInv, ServerSendStatus PROVE IInv'
<1> USE ConstantsAssumption DEF IInv, ServerSendStatus, fuzzer
<1>a. st \in Seq(Messages)
  BY DEF TypeOK
<1>m. StatusMsg(server_status) \in Messages
  BY DEF Messages, ChildOnRecord, TypeOK
<1>q. Quiet /\ Quiet'
  BY DEF Quiet, ChildOnRecord, AllFree, OneChild, TypeOK
<1>1. TypeOK'
  BY <1>a, <1>m DEF TypeOK, ServerPcs
<1>2. OneChild'
  BY DEF OneChild
<1>3. StatusPipe'
  BY <1>a DEF StatusPipe, Resting, Waiting, InStep, Gone, StatusMsg
<1>4. InStep'
  BY <1>a DEF InStep, Resting, Waiting, Gone
<1>5. ChildOnRecord'
  BY DEF ChildOnRecord, AllFree
<1>6. QuietWhenReported'
  BY <1>q DEF QuietWhenReported, Resting, Waiting, Quiet
<1>7. LoopCount'
  BY DEF LoopCount, CountsAddUp
<1> QED BY <1>1, <1>2, <1>3, <1>4, <1>5, <1>6, <1>7

\* The server leaving because afl-fuzz is gone keeps the invariant.
LEMMA ServerHangupInv ==
  ASSUME IInv, ServerHangup PROVE IInv'
<1> USE ConstantsAssumption DEF IInv, ServerHangup, fuzzer
<1>1. TypeOK'
  BY DEF TypeOK, ServerPcs
<1>2. OneChild'
  BY DEF OneChild
<1>3. StatusPipe'
  BY DEF StatusPipe, Resting, Waiting
<1>4. InStep'
  BY DEF InStep, Resting, Waiting, Gone
<1>5. ChildOnRecord'
  BY DEF ChildOnRecord, AllFree
<1>6. QuietWhenReported'
  BY DEF QuietWhenReported, Resting, Waiting, Quiet
<1>7. LoopCount'
  BY DEF LoopCount, CountsAddUp
<1> QED BY <1>1, <1>2, <1>3, <1>4, <1>5, <1>6, <1>7

\* The SIGTERM handler of the server killing the child keeps the invariant.
LEMMA AtExitInv ==
  ASSUME IInv, AtExit PROVE IInv'
<1> USE ConstantsAssumption DEF IInv, AtExit, fuzzer
<1>k. /\ proc' \in [Pid -> Proc]
      /\ \A p \in Pid : proc'[p].st = proc[p].st /\ proc'[p].at = proc[p].at
      /\ \A p \in Pid : proc'[p].cycles = proc[p].cycles /\ proc'[p].served = proc[p].served
  BY KillOnlySignals DEF TypeOK
<1>1. TypeOK'
  BY <1>k DEF TypeOK, ServerPcs
<1>2. OneChild'
  BY <1>k DEF OneChild
<1>3. StatusPipe'
  BY DEF StatusPipe, Resting, Waiting
<1>4. InStep'
  BY DEF InStep, Resting, Waiting, Gone
<1>5. ChildOnRecord'
  BY <1>k DEF ChildOnRecord, AllFree, TypeOK
<1>6. QuietWhenReported'
  BY <1>k DEF QuietWhenReported, Resting, Waiting, Quiet
<1>7. LoopCount'
  BY <1>k DEF LoopCount, CountsAddUp
<1> QED BY <1>1, <1>2, <1>3, <1>4, <1>5, <1>6, <1>7

\* The SIGTERM handler of the server reaping the child keeps the invariant.
LEMMA AtExitReapInv ==
  ASSUME IInv, AtExitReap PROVE IInv'
<1> USE ConstantsAssumption DEF IInv, AtExitReap, fuzzer
<1>f. Free \in Proc
  BY DEF Free, Proc, Statuses
<1>p. proc' \in [Pid -> Proc]
  BY <1>f DEF TypeOK
<1>1. TypeOK'
  BY <1>p DEF TypeOK, ServerPcs
<1>2. OneChild'
  BY DEF OneChild, TypeOK, Free
<1>3. StatusPipe'
  BY DEF StatusPipe, Resting, Waiting
<1>4. InStep'
  BY DEF InStep, Resting, Waiting, Gone
<1>5. ChildOnRecord'
  BY DEF ChildOnRecord, AllFree, TypeOK
<1>6. QuietWhenReported'
  BY DEF QuietWhenReported, Resting, Waiting, Quiet, TypeOK, Free
<1>7. LoopCount'
  BY DEF LoopCount, CountsAddUp, TypeOK, Free
<1> QED BY <1>1, <1>2, <1>3, <1>4, <1>5, <1>6, <1>7

\* The death of the server keeps the invariant.
LEMMA ServerDiesInv ==
  ASSUME IInv, ServerDies PROVE IInv'
<1> USE ConstantsAssumption DEF IInv, ServerDies, fuzzer
<1>1. TypeOK'
  BY DEF TypeOK, ServerPcs
<1>2. OneChild'
  BY DEF OneChild
<1>3. StatusPipe'
  BY DEF StatusPipe, Resting, Waiting
<1>4. InStep'
  BY DEF InStep, Resting, Waiting, Gone
<1>5. ChildOnRecord'
  BY DEF ChildOnRecord, AllFree
<1>6. QuietWhenReported'
  BY DEF QuietWhenReported, Resting, Waiting, Quiet
<1>7. LoopCount'
  BY DEF LoopCount, CountsAddUp
<1> QED BY <1>1, <1>2, <1>3, <1>4, <1>5, <1>6, <1>7

\* A step that changes one process and the map only, and that leaves a running
\* process not free, keeps what the invariant says of the pipes and of the
\* server.
LEMMA ProcMoves ==
  ASSUME IInv, NEW p \in Pid, NEW to \in Proc,
         proc' = [proc EXCEPT ![p] = to],
         UNCHANGED <<fuzzer, server, ctl, st>>,
         trace_bits' \subseteq Edges,
         Alive(p), to.st # "free",
         proc[p].st = "running" \/ to.st = "zombie",
         Mode = "persistent" => CountsAddUp(to)
  PROVE  IInv'
<1> USE ConstantsAssumption DEF IInv, fuzzer, server, Alive
<1>a. proc \in [Pid -> Proc]
  BY DEF TypeOK
<1>1. TypeOK'
  BY <1>a DEF TypeOK
<1>2. OneChild'
  BY <1>a DEF OneChild
<1>3. StatusPipe'
  BY DEF StatusPipe, Resting, Waiting
<1>4. InStep'
  BY DEF InStep, Resting, Waiting, Gone
<1>5. ChildOnRecord'
  <2>1. AllFree = FALSE
    BY DEF AllFree
  <2>2. child_stopped /\ fpc \in {"read", "reap", "resume", "sendstatus"}
          => p = server_child /\ proc[p].st = "stopped" /\ to.st = "zombie"
    BY <1>a DEF ChildOnRecord, OneChild
  <2> QED BY <1>a, <2>1, <2>2 DEF ChildOnRecord, AllFree
<1>6. QuietWhenReported'
  <2>1. Quiet => Quiet'
    BY <1>a DEF Quiet
  <2> QED BY <2>1 DEF QuietWhenReported, Resting, Waiting
<1>7. LoopCount'
  BY <1>a DEF LoopCount
<1> QED BY <1>1, <1>2, <1>3, <1>4, <1>5, <1>6, <1>7

\* Every step of a target process, the delivery of a signal included, keeps the
\* invariant.
LEMMA ChildInv ==
  ASSUME IInv, NEW p \in Pid, ChildBoots(p) \/ ChildRuns(p) \/ Deliver(p)
  PROVE  IInv'
<1> USE ConstantsAssumption
<1> DEFINE r == proc[p]
<1>a. /\ r \in Proc /\ trace_bits \subseteq Edges
      /\ testcase \in Inputs \cup {NoInput}
      /\ Mode = "persistent" => CountsAddUp(r)
  BY DEF IInv, TypeOK, LoopCount
<1>1. CASE ChildBoot(p)
  <2> DEFINE to == [r EXCEPT !.at = IF Mode = "persistent" THEN "first" ELSE "read"]
  <2>1. to \in Proc /\ to.st = "running" /\ (Mode = "persistent" => CountsAddUp(to))
    BY <1>1, <1>a DEF Proc, ChildBoot, ChildStep, CountsAddUp
  <2>2. trace_bits \cup {Boot} \subseteq Edges
    BY <1>a DEF Edges, Boot
  <2> QED BY <1>1, <2>1, <2>2, ProcMoves DEF ChildBoot, ChildStep, Alive
<1>2. CASE ChildExecFails(p)
  <2>1. Dead(p, "exit") \in Proc /\ Dead(p, "exit").st = "zombie"
    BY <1>a DEF Proc, Dead, Statuses
  <2>2. trace_bits \cup {ExecFail} \subseteq Edges
    BY <1>a DEF Edges, ExecFail
  <2> QED BY <1>2, <2>1, <2>2, ProcMoves DEF ChildExecFails, ChildStep, Alive
<1>3. CASE ChildFirstPass(p)
  <2> DEFINE to == [r EXCEPT !.at = "read", !.cycles = MaxCnt]
  <2>0. r.st = "running" /\ r.at = "first"
    BY <1>3 DEF ChildFirstPass, ChildStep
  <2>1. to \in Proc /\ to.st = "running"
    BY <2>0, <1>a DEF Proc
  <2>3. Mode = "persistent" => CountsAddUp(to)
    BY <2>0, <1>a DEF Proc, CountsAddUp
  <2>2. {Mark} \subseteq Edges
    BY DEF Edges, Mark
  <2> QED BY <1>3, <2>1, <2>2, <2>3, ProcMoves DEF ChildFirstPass, ChildStep, Alive
<1>4. CASE ChildAgain(p)
  <2> DEFINE to == [r EXCEPT !.at = "read"]
  <2>1. to \in Proc /\ to.st = "running" /\ (Mode = "persistent" => CountsAddUp(to))
    BY <1>4, <1>a DEF Proc, ChildAgain, ChildStep, CountsAddUp
  <2>2. trace_bits \cup {Mark} \subseteq Edges
    BY <1>a DEF Edges, Mark
  <2> QED BY <1>4, <2>1, <2>2, ProcMoves DEF ChildAgain, ChildStep, Alive
<1>5. CASE ChildRead(p)
  <2> DEFINE to == [r EXCEPT !.at = "body", !.inp = testcase, !.served = @ + 1]
  <2>0. r.st = "running" /\ r.at = "read"
    BY <1>5 DEF ChildRead, ChildStep
  <2>4. r.served + 1 \in Nat
    BY <1>a DEF Proc
  <2>1. to \in Proc /\ to.st = "running"
    BY <2>0, <2>4, <1>a DEF Proc
  <2>3. Mode = "persistent" => CountsAddUp(to)
    BY <2>0, <1>a DEF Proc, CountsAddUp
  <2>2. trace_bits \cup {FirstHalf(testcase)} \subseteq Edges
    BY <1>a DEF Edges, FirstHalf
  <2> QED BY <1>5, <2>1, <2>2, <2>3, ProcMoves DEF ChildRead, ChildStep, Alive
<1>6. CASE ChildFinishes(p)
  <2> DEFINE to == AfterInput(p)
  <2>0. r.st = "running" /\ r.at = "body"
    BY <1>6 DEF ChildFinishes, ChildStep
  <2>2. trace_bits \cup {SecondHalf(r.inp)} \subseteq Edges
    BY <1>a DEF Edges, SecondHalf, Proc
  <2>1. CASE Mode = "persistent" /\ r.cycles - 1 # 0
    <3>1. /\ r.cycles - 1 \in Nat /\ r.cycles - 1 > 0
          /\ r.served + (r.cycles - 1) = MaxCnt
      BY <1>a, <2>0, <2>1 DEF CountsAddUp, Proc
    <3>2. to = [r EXCEPT !.st = "stopped", !.at = "again", !.cycles = r.cycles - 1]
      BY <2>1 DEF AfterInput
    <3>3. to \in Proc /\ to.st = "stopped"
      BY <1>a, <3>1, <3>2 DEF Proc
    <3>4. CountsAddUp(to)
      BY <1>a, <3>1, <3>2, <2>1 DEF CountsAddUp, Proc
    <3> QED BY <1>6, <2>1, <2>0, <3>3, <3>4, <2>2, ProcMoves DEF ChildFinishes, ChildStep, Alive
  <2>3. CASE ~(Mode = "persistent" /\ r.cycles - 1 # 0)
    <3>1. to = Dead(p, "exit")
      BY <2>3 DEF AfterInput
    <3>2. to \in Proc /\ to.st = "zombie" /\ (Mode = "persistent" => CountsAddUp(to))
      BY <1>a, <3>1 DEF Dead, Proc, Statuses, CountsAddUp
    <3> QED BY <1>6, <2>0, <3>2, <2>2, ProcMoves DEF ChildFinishes, ChildStep, Alive
  <2> QED BY <2>1, <2>3
<1>7. CASE ChildCrashes(p)
  <2>1. /\ Dead(p, "segv") \in Proc /\ Dead(p, "segv").st = "zombie"
        /\ Mode = "persistent" => CountsAddUp(Dead(p, "segv"))
    BY <1>a DEF Proc, Dead, Statuses, CountsAddUp
  <2> QED BY <1>a, <1>7, <2>1, ProcMoves DEF ChildCrashes, ChildStep, Alive
<1>8. CASE Deliver(p)
  <2>a. /\ Alive(p) /\ UNCHANGED <<fuzzer, server, ctl, st, trace_bits>>
        /\ proc' = [proc EXCEPT ![p] = Delivered(p)]
    BY <1>8 DEF Deliver, Alive
  <2>1. ASSUME NEW s \in {"exit", "signal"}, Delivered(p) = Dead(p, s) PROVE IInv'
    <3>1. /\ Dead(p, s) \in Proc /\ Dead(p, s).st = "zombie"
          /\ Mode = "persistent" => CountsAddUp(Dead(p, s))
      BY <1>a DEF Proc, Dead, Statuses, CountsAddUp
    <3> QED BY <1>a, <2>a, <2>1, <3>1, ProcMoves
  <2>2. CASE Mode = "faux" /\ proc[p].sig # "KILL" /\ proc[p].at = "boot"
    <3> DEFINE to == [proc[p] EXCEPT !.sig = "none"]
    <3>1. to \in Proc /\ to.st = proc[p].st /\ proc[p].st = "running"
      BY <1>a, <1>8, <2>2 DEF Proc, Deliver
    <3>2. Delivered(p) = to
      BY <2>2 DEF Delivered
    <3> QED BY <1>a, <2>a, <2>2, <3>1, <3>2, ProcMoves
  <2> QED BY <2>1, <2>2 DEF Delivered
<1> QED BY <1>1, <1>2, <1>3, <1>4, <1>5, <1>6, <1>7, <1>8 DEF ChildBoots, ChildRuns

\* The invariant holds in the initial state.
LEMMA InitInv == Init => IInv
<1> SUFFICES ASSUME Init PROVE IInv
  OBVIOUS
<1> USE ConstantsAssumption DEF Init
<1>f. Free \in Proc /\ Free.st = "free" /\ Free.served = 0
  BY DEF Free, Proc, Statuses
<1>s. ctl \in Seq(BOOLEAN) /\ st \in Seq(Messages)
  OBVIOUS
<1>1. TypeOK
  BY <1>f, <1>s DEF TypeOK, FuzzerPcs, ServerPcs, Statuses
<1>2. OneChild /\ ChildOnRecord /\ QuietWhenReported
  BY <1>f DEF OneChild, ChildOnRecord, QuietWhenReported, AllFree, Quiet, Waiting
<1>3. StatusPipe /\ InStep
  BY DEF StatusPipe, InStep, Resting, Waiting
<1>4. LoopCount
  BY <1>f DEF LoopCount, CountsAddUp, Free
<1> QED BY <1>1, <1>2, <1>3, <1>4 DEF IInv

\* Every step keeps the invariant.
LEMMA NextInv == IInv /\ [Next]_vars => IInv'
<1> SUFFICES ASSUME IInv, [Next]_vars PROVE IInv'
  OBVIOUS
<1>1. CASE \E i \in Inputs : WriteTestcase(i)
  BY <1>1, WriteTestcaseInv
<1>2. CASE FuzzerStep
  BY <1>2, RequestRunInv, RequestFailsInv, ReadPidInv, ReadFailsInv, PollReadyInv,
     PollTimeoutInv, ReadStatusInv, ReportInv, FsrvKillInv DEF FuzzerStep
<1>3. CASE ServerStep
  BY <1>3, ServerReadInv, ServerReapInv, ServerForkInv, ServerForkedInv,
     ServerResumeInv, ServerSendPidInv, ServerWaitInv, ServerSendStatusInv,
     ServerHangupInv DEF ServerStep
<1>4. CASE StopSignal \/ FuzzerDies \/ AtExit \/ AtExitReap \/ ServerDies
  BY <1>4, StopSignalInv, FuzzerDiesInv, AtExitInv, AtExitReapInv, ServerDiesInv
<1>5. CASE \E p \in Pid : ChildBoots(p) \/ ChildRuns(p) \/ Deliver(p)
  BY <1>5, ChildInv
<1>6. CASE UNCHANGED vars
  BY <1>6 DEF vars, fuzzer, server, IInv, TypeOK, OneChild, StatusPipe, InStep,
     ChildOnRecord, QuietWhenReported, LoopCount, Gone, AllFree, Quiet, Resting, Waiting
<1> QED BY <1>1, <1>2, <1>3, <1>4, <1>5, <1>6 DEF Next, Over

\* IInv is an invariant of one afl-fuzz, its fork server and their target
\* processes.
THEOREM InductiveInvariant == Spec => []IInv
BY InitInv, NextInv, PTL DEF Spec

\* Every variable keeps its type; no read takes a word the pipe does not hold.
THEOREM TypeCorrect == Spec => []TypeOK
BY InductiveInvariant, PTL DEF IInv

\* The server never has two target processes: it forks only when the child
\* before is dead and reaped, also when that child was killed while stopped.
THEOREM AtMostOneChild == Spec => []OneChild
BY InductiveInvariant, PTL DEF IInv

\* From the moment the status is read until the next request, no process can
\* write to the coverage map.
THEOREM MapQuietBetweenRuns == Spec => []MapIsQuiet
<1>1. IInv => MapIsQuiet
  BY DEF IInv, QuietWhenReported, MapIsQuiet, Resting, Quiet
<1> QED BY <1>1, InductiveInvariant, PTL

\* The fuzzer takes a word for a pid exactly when the server sent it as one,
\* however timeouts, kills and the stop signal fall.
THEOREM PipesStayInStep == Spec => []PipesInStep
<1>1. IInv => PipesInStep
  <2> SUFFICES ASSUME IInv, Len(st) > 0
               PROVE  /\ pc = "pid" => Head(st).what = "pid"
                      /\ Waiting => Head(st).what = "status"
    BY DEF PipesInStep, Waiting
  <2>1. st \in Seq(Messages) /\ StatusPipe
    BY DEF IInv, TypeOK
  <2>2. Len(st) \in Nat /\ Len(st) >= 1 /\ Head(st) = st[1]
    BY <2>1, LenProperties
  <2>3. pc = "pid" => Head(st).what = "pid"
    BY <2>1, <2>2 DEF StatusPipe
  <2>4. Waiting => Len(st) <= 1
    BY <2>1 DEF StatusPipe
  <2>5. ASSUME Waiting PROVE Len(st) = 1
    BY <2>2, <2>4, <2>5 DEF Waiting
  <2> QED BY <2>1, <2>2, <2>3, <2>5 DEF StatusPipe
<1> QED BY <1>1, InductiveInvariant, PTL

\* A persistent process is given at most as many inputs as __AFL_LOOP() says.
THEOREM LoopIsBounded == Spec => []LoopBound
<1>1. IInv => LoopBound
  BY DEF IInv, LoopCount, CountsAddUp, LoopBound
<1> QED BY <1>1, InductiveInvariant, PTL
=============================================================================
