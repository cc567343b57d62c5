-------------------------- MODULE ForkserverStart --------------------------
(***************************************************************************)
(* How afl-fuzz brings up its fork servers: the one of the target and, if  *)
(* asked for, the one of a sanitizer build (-w) and of a CmpLog build (-c).*)
(* main (src/afl-fuzz.c) starts them one after the other and makes the     *)
(* coverage map larger when one of them needs it; afl_fsrv_start           *)
(* (src/afl-forkserver.c) holds the handshake with the runtime in the      *)
(* target (instrumentation/afl-compiler-rt.o.c).                           *)
(*                                                                         *)
(* Every number in the handshake is a 32-bit word without a tag: what a    *)
(* word means follows only from what was read before.  Here a word carries *)
(* what the writer meant (w), a number (n) and options (o).                *)
(***************************************************************************)
EXTENDS Integers, Sequences, FiniteSetsExt

CONSTANTS
    Extra,               \* the servers besides "main": "san", "cmplog"
    Sizes,               \* sizes of coverage maps that targets need
    UserSizes,           \* what the user may set AFL_MAP_SIZE to
    MAP_SIZE,
    DEFAULT_SHMEM_SIZE,
    Align,               \* maps are rounded up to this (64 bytes)
    IjonMap, IjonBytes,  \* MAP_SIZE_IJON_MAP, MAP_SIZE_IJON_BYTES
    IjonMin,             \* least rest of the map with IJON (4 bytes)
    DictLen              \* pieces in which a dictionary is read

ASSUME StartAssumption ==
    /\ Extra \subseteq {"san", "cmplog"}
    /\ Sizes \subseteq Nat \ {0} /\ UserSizes \subseteq Nat \ {0}
    /\ {MAP_SIZE, DEFAULT_SHMEM_SIZE, Align, IjonMap, IjonBytes, IjonMin, DictLen} \subseteq Nat \ {0}
    /\ DEFAULT_SHMEM_SIZE % Align = 0 /\ Align <= IjonMap

Servers == {"main"} \cup Extra

VARIABLES
    conf,      \* what the targets are and what the user has set
    env,       \* environment variables afl-fuzz sets for the targets
    agenda,    \* what main has still to do
    at,        \* what afl_fsrv_start waits for; "idle", "fatal"
    why,       \* the reason of a FATAL
    fooled,    \* history: an unset variable has passed for the closing greeting
    status,    \* the options word as read
    dict_left, \* pieces of the dictionary not read yet
    fsrv,      \* the fork server structures
    map_size,  \* main's local variable
    buf,       \* size of virgin_bits and the other buffers
    shm,       \* the shared segment: its size and which one it is
    ijon_seg,  \* the segment ijon_bits points into, 0 if unset
    extras,    \* how often the dictionary has been added to the extras
    target,    \* the server processes
    st, ctl    \* the pipes

fuzzer == <<conf, env, agenda, at, why, status, dict_left, fsrv, map_size, buf, shm, ijon_seg, extras>>
vars == <<fuzzer, fooled, target, st, ctl>>

-----------------------------------------------------------------------------
(***************************************************************************)
(* Words and sizes.                                                        *)
(***************************************************************************)
Word(w, n, o) == [w |-> w, n |-> n, o |-> o]
Hello == Word("hello", 0, {})

RoundUp(n) == ((n + Align - 1) \div Align) * Align

\* afl_fsrv_init, afl_fsrv_init_dup
NewFsrv(size) == [map_size |-> size, real_map_size |-> size, use_shmem_fuzz |-> FALSE,
                  use_ijon |-> FALSE, seg |-> 0]

NoTarget == [at |-> "none", map |-> 0, cov |-> 0, shmem |-> FALSE, ijon |-> FALSE,
             seg |-> 0, left |-> <<>>]

Do(what, s) == [do |-> what, srv |-> s]

Init ==
    /\ conf \in [size : [Servers -> Sizes], user : UserSizes, shmem : BOOLEAN,
                 dict : BOOLEAN, ijon : BOOLEAN, old : BOOLEAN, no_autodict : BOOLEAN]
    /\ conf.no_autodict => conf.dict
    /\ env = [no_autodict |-> conf.no_autodict, no_ijon |-> FALSE]
    /\ agenda = <<Do("start", "main"), Do("check", "main"), Do("ijon", "main")>>
                \o (IF "san" \in Extra THEN <<Do("spawn", "san")>> ELSE <<>>)
                \o (IF "cmplog" \in Extra THEN <<Do("spawn", "cmplog")>> ELSE <<>>)
    /\ at = "idle" /\ why = "" /\ fooled = FALSE /\ status = {} /\ dict_left = 0
    /\ map_size = RoundUp(conf.user) /\ buf = RoundUp(conf.user)
    /\ shm = [size |-> RoundUp(conf.user), seg |-> 1]
    \* main has replaced a small map_size by a large dummy value
    /\ fsrv = [s \in Servers |->
                 [NewFsrv(IF s = "main" THEN Max({RoundUp(conf.user), DEFAULT_SHMEM_SIZE}) ELSE 0)
                    EXCEPT !.seg = IF s = "main" THEN 1 ELSE 0]]
    /\ ijon_seg = 0 /\ extras = 0
    /\ target = [s \in Servers |-> NoTarget]
    /\ st = <<>> /\ ctl = <<>>

-----------------------------------------------------------------------------
(***************************************************************************)
(* The runtime in the target, up to the end of the handshake.              *)
(***************************************************************************)
\* The server that afl_fsrv_start is bringing up.
Cur == Head(agenda).srv
Starting == agenda # <<>> /\ Head(agenda).do = "start" /\ at \notin {"idle", "fatal"}

Options(t) == {"map"} \cup (IF t.shmem THEN {"shm"} ELSE {})
                      \cup (IF conf.dict THEN {"dict"} ELSE {})
                      \cup (IF t.ijon THEN {"ijon"} ELSE {})

\* What is sent after the reply of afl-fuzz has come.
Params(t) ==
    <<Word("opt", 0, Options(t)), Word("map", t.map, {})>>
    \o (IF conf.dict
        THEN <<Word("len", DictLen, {})>> \o [i \in 1 .. DictLen |-> Word("dat", 0, {})]
        ELSE <<>>)
    \o <<Hello>>

\* __afl_map_shm and the first word.  IJON makes the map larger, unless
\* switched off.
SayHello ==
    LET ijon == conf.ijon /\ ~env.no_ijon
        cov  == IF ijon THEN RoundUp(conf.size[Cur]) + IjonMap ELSE conf.size[Cur]
    IN
    /\ Starting /\ target[Cur].at = "boot"
    /\ target' = [target EXCEPT ![Cur] =
                    [at |-> IF conf.old THEN "up" ELSE "wait", cov |-> cov,
                     map |-> IF ijon THEN cov + IjonBytes ELSE cov,
                     shmem |-> conf.shmem, ijon |-> ijon, seg |-> shm.seg, left |-> <<>>]]
    /\ st' = Append(st, IF conf.old THEN Word("old", 0, {}) ELSE Hello)
    /\ UNCHANGED <<fuzzer, fooled, ctl>>

\* A segment cannot be attached: send_forkserver_error and exit.
SendError ==
    /\ Starting /\ target[Cur].at = "boot"
    /\ target' = [target EXCEPT ![Cur].at = "dead"]
    /\ st' = Append(st, Word("err", 0, {}))
    /\ UNCHANGED <<fuzzer, fooled, ctl>>

ReadReply ==
    /\ Starting /\ target[Cur].at = "wait" /\ ctl # <<>>
    /\ ctl' = Tail(ctl)
    /\ target' = [target EXCEPT ![Cur].at = "send", ![Cur].left = Params(target[Cur])]
    /\ UNCHANGED <<fuzzer, fooled, st>>

SendWord ==
    LET left == target[Cur].left IN
    /\ Starting /\ target[Cur].at = "send"
    /\ st' = Append(st, Head(left))
    /\ target' = [target EXCEPT ![Cur].left = Tail(@),
                                ![Cur].at = IF Len(left) = 1 THEN "up" ELSE @]
    /\ UNCHANGED <<fuzzer, fooled, ctl>>

\* The target ends before the handshake does.
TargetDies ==
    /\ Starting /\ target[Cur].at \in {"boot", "wait", "send"}
    /\ target' = [target EXCEPT ![Cur].at = "dead"]
    /\ UNCHANGED <<fuzzer, fooled, st, ctl>>

-----------------------------------------------------------------------------
(***************************************************************************)
(* afl_fsrv_start.                                                         *)
(***************************************************************************)
Fork ==
    /\ at = "idle" /\ agenda # <<>> /\ Head(agenda).do = "start"
    /\ at' = "hello" /\ st' = <<>> /\ ctl' = <<>>
    /\ target' = [target EXCEPT ![Cur] = [NoTarget EXCEPT !.at = "boot"]]
    /\ UNCHANGED <<conf, env, agenda, why, fooled, status, dict_left, fsrv, map_size, buf, shm, ijon_seg, extras>>

\* At the end of the file read() leaves the variable as it is: the options
\* are then the bits of the inverted greeting, the other two have not been
\* set at all, and may by chance hold the greeting of an earlier call (bound:
\* once).  The remaining reads are checked.
Garbage ==
    CASE at = "opt"   -> {Word("opt", 0, {"shm", "ijon"})}
      [] at = "map"   -> {Word("map", n, {}) : n \in Sizes}
      [] at = "final" -> {Word("junk", 0, {})} \cup (IF fooled THEN {} ELSE {Hello})
      [] OTHER        -> {Word("eof", 0, {})}

Incoming == IF st # <<>> THEN {Head(st)}
            ELSE IF target[Cur].at = "dead" THEN Garbage ELSE {}

Consume == st' = IF st = <<>> THEN st ELSE Tail(st)

Fatal(reason) ==
    /\ at' = "fatal" /\ why' = reason
    /\ UNCHANGED <<conf, env, agenda, fooled, status, dict_left, map_size, buf, shm, ijon_seg, extras, target>>

\* afl_fsrv_start returns.
Return ==
    /\ at' = "idle" /\ agenda' = Tail(agenda)
    /\ UNCHANGED <<conf, env, why, map_size, buf, shm, ijon_seg, target>>

\* It goes on to the next read.
Await(next) ==
    /\ at' = next
    /\ UNCHANGED <<conf, env, agenda, why, fooled, map_size, buf, shm, ijon_seg, target>>

\* mutant: init_tmout is not honoured
Timeout_Never == FALSE

\* read_s32_timed: no greeting within init_tmout.  Only this read is timed.
Timeout ==
    /\ Starting /\ at = "hello" /\ st = <<>>
    /\ Fatal("timeout")
    /\ UNCHANGED <<fsrv, st, ctl>>

ReadHello == Starting /\ at = "hello" /\ \E w \in Incoming :
    /\ Consume
    /\ CASE w.w = "hello" ->
              /\ ctl' = Append(ctl, Word("reply", 0, {}))
              /\ Await("opt") /\ UNCHANGED <<status, dict_left, fsrv, extras>>
         [] w.w = "old" /\ Cur # "cmplog" ->
              /\ fsrv' = [fsrv EXCEPT ![Cur].map_size = MAP_SIZE, ![Cur].real_map_size = MAP_SIZE]
              /\ Return /\ UNCHANGED <<fooled, status, dict_left, extras, ctl>>
         [] OTHER -> Fatal("handshake") /\ UNCHANGED <<fsrv, ctl>>

\* mutant: a dictionary that is not wanted is not read
AfterMap_Ignores(o) == IF "dict" \in o /\ ~env.no_autodict THEN "len" ELSE "final"

\* What follows the map size, by the options.
AfterMap(o) == IF "dict" \in o THEN "len" ELSE "final"

WithOptions(f, o) == [f EXCEPT !.use_shmem_fuzz = @ \/ "shm" \in o, !.use_ijon = @ \/ "ijon" \in o]

ReadOptions == Starting /\ at = "opt" /\ \E w \in Incoming :
    /\ Consume
    /\ status' = w.o
    /\ IF "map" \in w.o
       THEN Await("map") /\ UNCHANGED fsrv
       ELSE /\ fsrv' = [fsrv EXCEPT ![Cur] = WithOptions([@ EXCEPT !.map_size = MAP_SIZE,
                                                                   !.real_map_size = MAP_SIZE], w.o)]
            /\ Await(AfterMap(w.o))
    /\ UNCHANGED <<dict_left, extras, ctl>>

ReadMapSize == Starting /\ at = "map" /\ \E w \in Incoming :
    /\ Consume
    /\ IF RoundUp(w.n) > fsrv[Cur].map_size
       THEN Fatal("mapsize") /\ fsrv' = [fsrv EXCEPT ![Cur].real_map_size = w.n]
       ELSE /\ fsrv' = [fsrv EXCEPT ![Cur] = WithOptions([@ EXCEPT !.map_size = RoundUp(w.n),
                                                                   !.real_map_size = w.n], status)]
            /\ Await(AfterMap(status))
            /\ UNCHANGED <<status, dict_left, extras>>
    /\ UNCHANGED ctl

ReadDictLen == Starting /\ at = "len" /\ \E w \in Incoming :
    /\ Consume
    /\ IF w.w = "eof" THEN Fatal("handshake")
       ELSE Await("dat") /\ dict_left' = w.n /\ UNCHANGED <<status, extras>>
    /\ UNCHANGED <<fsrv, ctl>>

\* One read of the dictionary; after the last one it goes to add_extra_func,
\* which only the structure of the main server has.
ReadDict == Starting /\ at = "dat" /\ \E w \in Incoming :
    /\ Consume
    /\ IF w.w = "eof" THEN Fatal("handshake")
       ELSE /\ dict_left' = dict_left - 1
            /\ Await(IF dict_left = 1 THEN "final" ELSE "dat")
            /\ extras' = IF dict_left = 1 /\ Cur = "main" /\ ~env.no_autodict
                         THEN extras + 1 ELSE extras
            /\ UNCHANGED status
    /\ UNCHANGED <<fsrv, ctl>>

ReadFinal == Starting /\ at = "final" /\ \E w \in Incoming :
    /\ Consume
    /\ IF w.w # "hello" THEN Fatal("handshake")
       ELSE /\ Return
            /\ fooled' = (fooled \/ st = <<>>)
            /\ UNCHANGED <<status, dict_left, extras>>
    /\ UNCHANGED <<fsrv, ctl>>

-----------------------------------------------------------------------------
(***************************************************************************)
(* main.                                                                   *)
(***************************************************************************)
Doing(what, s) == at = "idle" /\ agenda # <<>> /\ Head(agenda) = Do(what, s)

Proceed == agenda' = Tail(agenda) /\ UNCHANGED <<at, why>>

\* afl_fsrv_kill
Killed(ss) == [s \in Servers |-> IF s \in ss THEN NoTarget ELSE target[s]]

NewSegment(size) == [size |-> size, seg |-> shm.seg + 1]

\* mutant: AFL_NO_AUTODICT is not set
Reinit_DictAgain(servers, size) ==
    /\ buf' = size /\ map_size' = size
    /\ target' = Killed(servers)
    /\ shm' = NewSegment(size)
    /\ UNCHANGED env

\* The map becomes larger: new buffers, the given servers are killed, a new
\* segment.  The dictionary "is loaded already".
Reinit(servers, size) ==
    /\ buf' = size /\ map_size' = size
    /\ target' = Killed(servers)
    /\ shm' = NewSegment(size)
    /\ env' = [env EXCEPT !.no_autodict = TRUE]

Starts(servers) == [i \in DOMAIN servers |-> Do("start", servers[i])]

\* The main server is up.  Too small a map is replaced.
CheckMain ==
    LET new == fsrv["main"].map_size IN
    /\ Doing("check", "main")
    /\ IF map_size >= new THEN Proceed /\ UNCHANGED <<env, map_size, buf, shm, fsrv, target>>
       ELSE /\ Reinit({"main"}, new)
            /\ fsrv' = [fsrv EXCEPT !["main"].seg = shm.seg + 1]
            /\ agenda' = Starts(<<"main">>) \o Tail(agenda)
            /\ UNCHANGED <<at, why>>
    /\ UNCHANGED <<conf, fooled, status, dict_left, ijon_seg, extras, st, ctl>>

\* The IJON part of the map; the servers to come shall not have one.
SetUpIjon ==
    /\ Doing("ijon", "main")
    /\ CASE ~fsrv["main"].use_ijon -> Proceed /\ UNCHANGED <<env, fsrv, ijon_seg>>
         [] fsrv["main"].use_ijon /\ fsrv["main"].map_size <= IjonMin + IjonBytes + IjonMap ->
              at' = "fatal" /\ why' = "ijon" /\ UNCHANGED <<agenda, env, fsrv, ijon_seg>>
         [] OTHER ->
              /\ fsrv' = [fsrv EXCEPT !["main"].map_size = @ - IjonBytes,
                                      !["main"].real_map_size = @ - IjonBytes]
              /\ ijon_seg' = fsrv["main"].seg
              /\ env' = [env EXCEPT !.no_ijon = TRUE]
              /\ Proceed
    /\ UNCHANGED <<conf, fooled, status, dict_left, map_size, buf, shm, extras, target, st, ctl>>

\* mutant: the size of the main server's map is taken over as it is
DummySize_Inherits(size) == size

\* The size given to a further server before its own is known.
DummySize(size) ==
    IF map_size <= DEFAULT_SHMEM_SIZE \/ size < map_size
    THEN Max({map_size, DEFAULT_SHMEM_SIZE}) ELSE size

Spawn(s) ==
    /\ Doing("spawn", s)
    /\ fsrv' = [fsrv EXCEPT ![s] = [NewFsrv(DummySize(fsrv["main"].map_size))
                                      EXCEPT !.seg = fsrv["main"].seg]]
    /\ agenda' = <<Do("start", s), Do("check", s)>> \o Tail(agenda)
    /\ UNCHANGED <<conf, env, at, why, fooled, status, dict_left, map_size, buf, shm, ijon_seg,
                   extras, target, st, ctl>>

\* mutant: only the server that needs the larger map is started again
CheckExtra_Alone(s) ==
    LET new == fsrv[s].map_size IN
    /\ Doing("check", s)
    /\ IF map_size >= new THEN Proceed /\ UNCHANGED <<env, map_size, buf, shm, fsrv, target>>
       ELSE /\ Reinit({s}, new)
            /\ fsrv' = [fsrv EXCEPT ![s].seg = shm.seg + 1, !["main"].seg = shm.seg + 1]
            /\ agenda' = Starts(<<s>>) \o Tail(agenda)
            /\ UNCHANGED <<at, why>>
    /\ UNCHANGED <<conf, fooled, status, dict_left, ijon_seg, extras, st, ctl>>

\* The server s is up.  If it needs a larger map, it and the main server are
\* started again.  The sanitizer's is then given the size of the main
\* server's map, not its own.
CheckExtra(s) ==
    LET new == fsrv[s].map_size IN
    /\ Doing("check", s)
    /\ IF map_size >= new THEN Proceed /\ UNCHANGED <<env, map_size, buf, shm, fsrv, target>>
       ELSE /\ Reinit({"main", s}, new)
            /\ fsrv' = [fsrv EXCEPT ![s].seg = shm.seg + 1, !["main"].seg = shm.seg + 1,
                         ![s].map_size = IF s = "san" THEN fsrv["main"].map_size ELSE new]
            /\ agenda' = Starts(<<"main", s>>) \o Tail(agenda)
            /\ UNCHANGED <<at, why>>
    /\ UNCHANGED <<conf, fooled, status, dict_left, ijon_seg, extras, st, ctl>>

-----------------------------------------------------------------------------
Target == SayHello \/ SendError \/ ReadReply \/ SendWord \/ TargetDies

Fuzzer ==
    \/ Fork \/ Timeout
    \/ ReadHello \/ ReadOptions \/ ReadMapSize \/ ReadDictLen \/ ReadDict \/ ReadFinal
    \/ CheckMain \/ SetUpIjon
    \/ \E s \in Extra : Spawn(s) \/ CheckExtra(s)

Next == Target \/ Fuzzer

Spec == Init /\ [][Next]_vars

\* afl-fuzz goes on; a target that has taken up the handshake ends it or dies.
FairSpec == Spec /\ WF_vars(Fuzzer) /\ WF_vars(ReadReply \/ SendWord)

Ready == at = "idle" /\ agenda = <<>>

-----------------------------------------------------------------------------
(***************************************************************************)
(* Properties.                                                             *)
(***************************************************************************)
Words == [w : {"hello", "old", "err", "opt", "map", "len", "dat"}, n : Nat,
          o : SUBSET {"map", "shm", "dict", "ijon"}]

\* Every variable has its type.
TypeOK ==
    /\ env \in [no_autodict : BOOLEAN, no_ijon : BOOLEAN]
    /\ agenda \in Seq([do : {"start", "check", "ijon", "spawn"}, srv : Servers])
    /\ at \in {"idle", "fatal", "hello", "opt", "map", "len", "dat", "final"}
    /\ why \in {"", "timeout", "handshake", "mapsize", "ijon"}
    /\ status \subseteq {"map", "shm", "dict", "ijon"} /\ dict_left \in 0 .. DictLen
    /\ fsrv \in [Servers -> [map_size : Nat, real_map_size : Nat, use_shmem_fuzz : BOOLEAN,
                             use_ijon : BOOLEAN, seg : 0 .. 4]]
    /\ map_size \in Nat /\ buf \in Nat /\ shm \in [size : Nat, seg : 1 .. 4]
    /\ ijon_seg \in 0 .. 4 /\ extras \in 0 .. 1
    /\ target \in [Servers -> [at : {"none", "boot", "wait", "send", "up", "dead"}, map : Nat,
                               cov : Nat, shmem : BOOLEAN, ijon : BOOLEAN, seg : 0 .. 4,
                               left : Seq(Words)]]
    /\ st \in Seq(Words) /\ Len(ctl) <= 1

\* Types hold, and the words, which carry no tags, stay in step:
\* afl_fsrv_start reads each one as what the runtime
\* meant by it, also a dictionary it does not want ("even if we do not need
\* the dictionary we have to read it"), and leaves none behind for
\* afl_fsrv_run_target to take for a pid.
InStep ==
    /\ TypeOK
    /\ st # <<>> /\ at \notin {"idle", "fatal"} =>
         Head(st).w \in CASE at = "hello" -> {"hello", "old", "err"}
                         [] at = "final" -> {"hello"}
                         [] OTHER -> {at}
    /\ at = "idle" => st = <<>>

\* When all servers run, the target writes into the segment afl-fuzz reads, no
\* further than its end, and afl-fuzz looks at all of the map with buffers that
\* are large enough, whatever server asked for a larger map and when; and both
\* sides agree on how test cases are passed.
\* (The vanilla fork server, which does not tell its size, is left out.)
SidesAgree ==
    Ready /\ ~conf.old /\ ~fooled =>
        /\ fsrv["main"].map_size <= buf /\ fsrv["main"].map_size <= shm.size
        /\ \A s \in Servers \ {"san"} :
             /\ target[s].seg = shm.seg /\ fsrv[s].seg = shm.seg
             /\ target[s].map <= shm.size
             /\ target[s].cov <= fsrv[s].map_size
        /\ \A s \in Servers : fsrv[s].use_shmem_fuzz = target[s].shmem

\* The target's dictionary is added to the extras once, however often
\* servers are started, and not at all if the user does not want it.
DictOnce ==
    Ready /\ ~conf.old /\ ~fooled =>
        extras = IF conf.dict /\ ~conf.no_autodict THEN 1 ELSE 0

\* afl-fuzz gives up with "Target's coverage map size ... is larger than the one
\* this AFL++ is set with" only if a target does need more than what the user set
\* and more than the default; but for the sanitizer's server when
\* it is started again.
GivesUpRightly ==
    why = "mapsize" /\ ~fooled =>
        \/ \E s \in Servers : target[s].at = "dead"
        \/ \E s \in Servers : target[s].map > Max({DEFAULT_SHMEM_SIZE, conf.user})
        \/ agenda # <<>> /\ Cur = "san" /\ shm.seg > 1

\* Start-up comes to an end: all servers are up, or afl-fuzz says why not.
StartUpEnds == <>(Ready \/ at = "fatal")

-----------------------------------------------------------------------------
(***************************************************************************)
(* What makes these properties inductive: where main is in its list, what  *)
(* is under way in the pipes, and which sizes are known by then.           *)
(***************************************************************************)
ConfOK == conf \in [size : [Servers -> Sizes], user : UserSizes, shmem : BOOLEAN,
                    dict : BOOLEAN, ijon : BOOLEAN, old : BOOLEAN, no_autodict : BOOLEAN]

\* What main does about a server: start it and check, perhaps start the main
\* server or both again, set up IJON; then the servers that follow.
Phases == {"first", "check", "both", "again", "ijon", "done"}

Later(s) ==
    CASE s = "main"   -> (IF "san" \in Extra THEN <<Do("spawn", "san")>> ELSE <<>>)
                         \o (IF "cmplog" \in Extra THEN <<Do("spawn", "cmplog")>> ELSE <<>>)
      [] s = "san"    -> IF "cmplog" \in Extra THEN <<Do("spawn", "cmplog")>> ELSE <<>>
      [] s = "cmplog" -> <<>>

Rest(s) == (IF s = "main" THEN <<Do("ijon", "main")>> ELSE <<>>) \o Later(s)

Plan(p, s) ==
    CASE p = "first" -> <<Do("start", s), Do("check", s)>> \o Rest(s)
      [] p = "check" -> <<Do("check", s)>> \o Rest(s)
      [] p = "both"  -> <<Do("start", "main"), Do("start", s)>> \o Rest(s)
      [] p = "again" -> <<Do("start", s)>> \o Rest(s)
      [] p = "ijon"  -> Rest(s)
      [] p = "done"  -> Later(s)

\* main's size, the buffers and the segment go together.  What the main server
\* really needs differs from its size by less than the rounding.
OneSize ==
    /\ buf = map_size /\ shm.size = map_size /\ RoundUp(conf.user) <= map_size
    /\ fsrv["main"].map_size < fsrv["main"].real_map_size + Align
    /\ fsrv["main"].seg = shm.seg /\ ijon_seg <= shm.seg
    /\ \A s \in Servers : fsrv[s].seg <= shm.seg /\ target[s].seg <= shm.seg

\* What a server asks for, by whether it has IJON, and would ask for now.
Cov(s, ijon) == IF ijon THEN RoundUp(conf.size[s]) + IjonMap ELSE conf.size[s]
MapOf(s, ijon) == IF ijon THEN Cov(s, ijon) + IjonBytes ELSE Cov(s, ijon)
Ijon == conf.ijon /\ ~env.no_ijon
Need(s) == RoundUp(MapOf(s, Ijon))

TargetData ==
    \A s \in Servers : target[s].at \in {"wait", "send", "up"} =>
        /\ target[s].cov = Cov(s, target[s].ijon) /\ target[s].map = MapOf(s, target[s].ijon)
        /\ target[s].shmem = conf.shmem

\* The words still to come when afl_fsrv_start waits for a, with n pieces of the
\* dictionary left; P are the words of the whole answer.
Dats(n) == [i \in 1 .. n |-> Word("dat", 0, {})]
Awaited(a, n, P) ==
    CASE a = "opt"   -> P
      [] a = "map"   -> Tail(P)
      [] a = "len"   -> (<<Word("len", DictLen, {})>> \o Dats(DictLen)) \o <<Hello>>
      [] a = "dat"   -> Dats(n) \o <<Hello>>
      [] a = "final" -> <<Hello>>

Greeting(t) ==
    /\ ctl = <<>> /\ t.at \in {"boot", "wait", "up", "dead"}
    /\ t.at = "boot" => st = <<>>
    /\ t.at = "wait" => st = <<Hello>> /\ ~conf.old
    /\ t.at = "up" => st = <<Word("old", 0, {})>> /\ conf.old
    /\ t.at = "dead" => st = <<>> \/ st = <<Word("err", 0, {})>> \/ (st = <<Hello>> /\ ~conf.old)

\* Together, what is in the pipe and what the runtime has not sent yet are what
\* afl-fuzz expects; a target that died before the end leaves something out.
Exchange(t) ==
    /\ ~conf.old /\ t.at \in {"wait", "send", "up", "dead"}
    /\ t.at = "wait" => at = "opt" /\ st = <<>>
    /\ t.at = "send" => t.left # <<>>
    /\ t.at = "up" => t.left = <<>>
    /\ t.at = "dead" /\ st # <<>> => t.left # <<>>
    /\ t.at \in {"send", "up"} \/ st # <<>> => st \o t.left = Awaited(at, dict_left, Params(t))
    /\ t.at \in {"send", "up"} \/ st # <<>> => at = "opt" \/ status = Options(t)
    /\ at = "dat" => dict_left # 0
    /\ at \in {"len", "dat"} /\ t.at # "dead" => conf.dict

Handshake ==
    at \notin {"idle", "fatal"} =>
        /\ Starting
        /\ target[Cur].at \in {"wait", "send", "up"} =>
               target[Cur].ijon = Ijon /\ target[Cur].seg = shm.seg
        /\ IF at = "hello" THEN Greeting(target[Cur]) ELSE Exchange(target[Cur])

\* A server that is started and has told its size.
Told(s) ==
    /\ fsrv[s].map_size = Need(s) /\ fsrv[s].use_shmem_fuzz = conf.shmem
    /\ s = "main" /\ Ijon => fsrv[s].use_ijon
Up(s) ==
    /\ Told(s) /\ target[s].at = "up" /\ target[s].ijon = Ijon
    /\ target[s].seg = shm.seg /\ fsrv[s].seg = shm.seg

\* A server that main is done with.
Serves(s) ==
    /\ target[s].at = "up" /\ fsrv[s].use_shmem_fuzz = target[s].shmem
    /\ s # "san" => /\ target[s].seg = shm.seg /\ fsrv[s].seg = shm.seg
                    /\ target[s].map <= shm.size /\ target[s].cov <= fsrv[s].map_size

Before(s) == CASE s = "main" -> {} [] s = "san" -> {"main"} [] s = "cmplog" -> Servers \ {"cmplog"}
Served(p, s) == CASE p = "done" -> Before(s) \cup {s}
                  [] p = "both" -> Before(s) \ {"main"}
                  [] OTHER      -> Before(s)

\* The server can be started, again, with the map there is.
Fits(s) == Need(s) <= fsrv[s].map_size /\ fsrv[s].map_size <= map_size

TheDict == IF conf.dict /\ ~conf.no_autodict THEN 1 ELSE 0

\* While no target has died and no garbage was believed.
Good == ~fooled /\ ~conf.old /\ at # "fatal" /\ (at = "idle" \/ target[Cur].at # "dead")

\* What holds whatever happened.
OnTheWay(p, s) ==
    /\ agenda = Plan(p, s) /\ (p = "both" => s # "main") /\ (p = "ijon" => s = "main")
    /\ shm.seg <= (CASE s = "main" -> 1 [] s = "san" -> 2 [] s = "cmplog" -> 3)
                  + (IF p \in {"first", "check"} THEN 0 ELSE 1)
    /\ s # "main" /\ p \in {"both", "again"} => shm.seg > 1
    /\ p = "first" /\ s = "main" => env.no_autodict = conf.no_autodict
    /\ p = "first" /\ s = "main" /\ at \notin {"final", "fatal"} => extras = 0
    /\ p = "both" \/ (p = "again" /\ s = "main") => env.no_autodict
    /\ s = "main" /\ p # "done" => ~env.no_ijon

\* What main knows so far.
Known(p, s) ==
    /\ (p = "first" /\ s = "main" /\ at # "final") \/ extras = TheDict
    /\ \A r \in Servers : fsrv[r].use_shmem_fuzz => conf.shmem
    /\ s = "main" /\ p # "done" => (fsrv["main"].use_ijon => conf.ijon)
    /\ s # "main" \/ p = "done" => ~Ijon
    /\ at \in {"len", "dat", "final"} => Told(Cur)
    /\ p = "first" /\ at \in {"idle", "hello", "opt", "map"} =>
           fsrv[s].map_size >= RoundUp(conf.user) /\ fsrv[s].map_size >= DEFAULT_SHMEM_SIZE
    /\ p \in {"check", "ijon"} => Up(s)
    /\ p # "done" => fsrv[s].seg = shm.seg
    /\ p \in {"both", "again"} /\ s # "san" => Fits(s)
    /\ s # "main" \/ p \notin {"first", "check"} => Fits("main")
    /\ \A r \in Served(p, s) : Serves(r)

IInv ==
    /\ TypeOK /\ ConfOK /\ (at = "fatal" <=> why # "") /\ (at = "idle" => st = <<>>)
    /\ GivesUpRightly /\ OneSize /\ TargetData /\ Handshake
    /\ \E p \in Phases, s \in Servers : OnTheWay(p, s) /\ (Good => Known(p, s))
=============================================================================
