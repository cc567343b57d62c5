---------------------------- MODULE SyncFuzzers ----------------------------
(***************************************************************************)
(* A campaign: several instances of afl-fuzz that share a sync directory.  *)
(* check_sync_fuzzers and sync_fuzzers (src/afl-fuzz-run.c), the set-up of *)
(* the output directory and pivot_inputs (src/afl-fuzz-init.c), and the    *)
(* main loop and shutdown as far as they touch the directory.              *)
(*                                                                         *)
(* A test case is a value of Cases; every case reaches code of its own, so *)
(* an instance keeps it unless it has it already.  The name of a queue     *)
(* file tells its id (the place in the sequence, from 1 here) and, for an  *)
(* import, from whom it came (from).                                       *)
(***************************************************************************)
EXTENDS Integers, FiniteSets, Sequences, Functions

CONSTANTS
    Fuzzers,
    Mains,         \* the instances started with -M; the others with -S
    Cases, Seeds,  \* test cases; the seed each instance starts with
    None,          \* no instance
    MaxFinds,      \* bound: finds of the campaign
    MaxEnds,       \* bound: stops and crashes of the campaign
    MaxResume,     \* bound: in-place resumes of the campaign
    MaxFresh       \* bound: starts from scratch in a used directory

ASSUME SyncAssumption ==
    /\ Mains \subseteq Fuzzers /\ None \notin Fuzzers
    /\ Seeds \in [Fuzzers -> Cases] /\ IsFiniteSet(Cases)
    /\ MaxFinds \in Nat /\ MaxEnds \in Nat /\ MaxResume \in Nat /\ MaxFresh \in Nat

VARIABLES
    \* the output directory of each instance
    queue,         \* the entries, oldest first; _resume/ during a resume
    nfiles,        \* how many of them are files in queue/
    marker,        \* is_main_node exists
    cmdline,       \* mtime of the file: "none", "now" (this second), "old"
    synced,        \* .synced/<peer>: the next id to look at
    maxid,         \* .synced/<peer>.max, 0 if there is none
    \* the processes
    state,         \* "down", "start" (up to the dry run), "up", "sync"
    in_place_resume,
    is_main_node,
    loc,           \* locals of sync_fuzzers
    \* history
    finds,         \* finds so far
    ends,          \* stops and crashes so far
    resumed, fresh \* instances restarted so far, by kind

dirs  == <<queue, nfiles, marker, cmdline, synced, maxid>>
procs == <<state, in_place_resume, is_main_node, loc>>
history == <<finds, ends, resumed, fresh>>
vars  == <<dirs, procs, history>>

Entry(c, g) == [case |-> c, from |-> g]

\* What an instance has in its queue it will not take again.
Known(f) == {queue[f][i].case : i \in DOMAIN queue[f]}

Existing == {f \in Fuzzers : cmdline[f] # "none"}

\* The locals of sync_fuzzers: directories still to visit, whether there was
\* any and whether one was synced from; peer with its names as scandir saw
\* them; next_min_accept, max_start_id.
NoLoc == [todo |-> {}, entries |-> FALSE, any |-> FALSE, peer |-> None,
          names |-> <<>>, next |-> 0, max |-> 0]

Init ==
    /\ queue = [f \in Fuzzers |-> <<>>]
    /\ nfiles = [f \in Fuzzers |-> 0]
    /\ marker = [f \in Fuzzers |-> FALSE]
    /\ cmdline = [f \in Fuzzers |-> "none"]
    /\ synced = [f \in Fuzzers |-> [g \in Fuzzers |-> 0]]
    /\ maxid = [f \in Fuzzers |-> [g \in Fuzzers |-> 0]]
    /\ state = [f \in Fuzzers |-> "down"]
    /\ in_place_resume = [f \in Fuzzers |-> FALSE]
    /\ is_main_node = [f \in Fuzzers |-> FALSE]
    /\ loc = [f \in Fuzzers |-> NoLoc]
    /\ finds = 0 /\ ends = 0 /\ resumed = {} /\ fresh = {}

(***************************************************************************)
(* Start and stop.                                                         *)
(***************************************************************************)
\* setup_dirs_fds and setup_cmdline_file.  A resume moves queue/ away and
\* keeps .synced/; a start from scratch empties both.  The marker of an earlier
\* session stays.
Start(f, resume) ==
    /\ state[f] = "down"
    /\ resume => f \in Existing
    /\ resumed' = IF resume THEN resumed \cup {f} ELSE resumed
    /\ fresh' = IF ~resume /\ f \in Existing THEN fresh \cup {f} ELSE fresh
    /\ resume => f \notin resumed /\ Cardinality(resumed) < MaxResume
    /\ ~resume /\ f \in Existing => f \notin fresh /\ Cardinality(fresh) < MaxFresh
    /\ state' = [state EXCEPT ![f] = "start"]
    /\ in_place_resume' = [in_place_resume EXCEPT ![f] = resume]
    /\ is_main_node' = [is_main_node EXCEPT ![f] = f \in Mains]
    /\ marker' = [marker EXCEPT ![f] = @ \/ f \in Mains]
    /\ cmdline' = [cmdline EXCEPT ![f] = "now"]
    /\ nfiles' = [nfiles EXCEPT ![f] = 0]
    /\ IF resume THEN UNCHANGED <<queue, synced, maxid>>
       ELSE /\ queue' = [queue EXCEPT ![f] = <<Entry(Seeds[f], None)>>]
            /\ synced' = [synced EXCEPT ![f] = [g \in Fuzzers |-> 0]]
            /\ maxid' = [maxid EXCEPT ![f] = [g \in Fuzzers |-> 0]]
    /\ UNCHANGED <<loc, finds, ends>>

\* pivot_inputs links one more entry into queue/.
Pivot(f) ==
    /\ state[f] = "start" /\ nfiles[f] < Len(queue[f])
    /\ nfiles' = [nfiles EXCEPT ![f] = @ + 1]
    /\ UNCHANGED <<queue, marker, cmdline, synced, maxid, procs, history>>

\* check_sync_fuzzers: how many files the others have now, counted from 0, and
\* whether one of them is the main node.  If none is, this instance becomes
\* it; the marker goes where the loop looked last, not into its own directory.
CheckSync(f) ==
    LET others == Existing \ {f}
        main   == is_main_node[f] \/ \E g \in others : marker[g]
    IN
    /\ state[f] = "start" /\ nfiles[f] = Len(queue[f])
    /\ state' = [state EXCEPT ![f] = "up"]
    /\ IF in_place_resume[f] THEN UNCHANGED <<maxid, is_main_node, marker>>
       ELSE /\ maxid' = [maxid EXCEPT ![f] =
                           [g \in Fuzzers |-> IF g \in others /\ nfiles[g] > 0
                                              THEN nfiles[g] - 1 ELSE 0]]
            /\ is_main_node' = [is_main_node EXCEPT ![f] = @ \/ ~main]
            /\ IF main \/ others = {} THEN UNCHANGED marker
               ELSE \E last \in others : marker' = [marker EXCEPT ![last] = TRUE]
    /\ UNCHANGED <<queue, nfiles, cmdline, synced, in_place_resume, loc, history>>

\* The process ends; what it remembers is lost.
Exit(f) ==
    /\ ends < MaxEnds /\ ends' = ends + 1
    /\ state' = [state EXCEPT ![f] = "down"]
    /\ is_main_node' = [is_main_node EXCEPT ![f] = FALSE]
    /\ loc' = [loc EXCEPT ![f] = NoLoc]
    /\ UNCHANGED <<queue, nfiles, cmdline, synced, maxid, in_place_resume, finds, resumed, fresh>>

\* The user stops it, perhaps in the middle of sync_fuzzers: the position is
\* not written.
Stop(f) ==
    /\ state[f] \in {"up", "sync"}
    /\ marker' = [marker EXCEPT ![f] = @ /\ ~is_main_node[f]]
    /\ Exit(f)

\* SIGKILL, or the machine goes down.
Crash(f) == state[f] # "down" /\ UNCHANGED marker /\ Exit(f)

\* A find of its own.
Find(f, c) ==
    /\ state[f] = "up" /\ c \notin Known(f)
    /\ finds < MaxFinds /\ finds' = finds + 1
    /\ queue' = [queue EXCEPT ![f] = Append(@, Entry(c, None))]
    /\ nfiles' = [nfiles EXCEPT ![f] = @ + 1]
    /\ UNCHANGED <<marker, cmdline, synced, maxid, procs, ends, resumed, fresh>>

\* The clock goes on by a second.
Tick ==
    /\ cmdline' = [f \in Fuzzers |-> IF cmdline[f] = "now" THEN "old" ELSE cmdline[f]]
    /\ UNCHANGED <<queue, nfiles, marker, synced, maxid, procs, history>>

(***************************************************************************)
(* sync_fuzzers.                                                           *)
(***************************************************************************)
SyncBegin(f) ==
    /\ state[f] = "up"
    /\ state' = [state EXCEPT ![f] = "sync"]
    /\ loc' = [loc EXCEPT ![f] = [NoLoc EXCEPT !.todo = Existing \ {f},
                                               !.entries = Existing # {f}]]
    /\ UNCHANGED <<dirs, in_place_resume, is_main_node, history>>

\* mutant: the main node, too, syncs from main nodes only
Skips_EvenMain(f, g) == ~marker[g]

\* A secondary that is no temporary main node syncs from main nodes only.
Skips(f, g) == f \notin Mains /\ ~is_main_node[f] /\ ~marker[g]

SkipPeer(f, g) ==
    /\ state[f] = "sync" /\ loc[f].peer = None /\ g \in loc[f].todo
    /\ Skips(f, g)
    /\ loc' = [loc EXCEPT ![f].todo = @ \ {g}]
    /\ UNCHANGED <<dirs, state, in_place_resume, is_main_node, history>>

\* mutant: a temporary main node stays one when it meets another
Demote_Never(f, g) == UNCHANGED <<is_main_node, marker>>

\* mutant: the marker unlinked is the other's, whose path was looked up last
Demote_Theirs(f, g) ==
    IF f \notin Mains /\ is_main_node[f] /\ marker[g]
    THEN /\ is_main_node' = [is_main_node EXCEPT ![f] = FALSE]
         /\ marker' = [marker EXCEPT ![g] = FALSE]
    ELSE UNCHANGED <<is_main_node, marker>>

\* A temporary main node that finds another main node steps down.
Demote(f, g) ==
    IF f \notin Mains /\ is_main_node[f] /\ marker[g]
    THEN /\ is_main_node' = [is_main_node EXCEPT ![f] = FALSE]
         /\ marker' = [marker EXCEPT ![f] = FALSE]
    ELSE UNCHANGED <<is_main_node, marker>>

\* The file .last is truncated before its mtime is compared with that of
\* cmdline, so a restart shows only within the second in which it happens.
SeemsRestarted(g) == cmdline[g] = "now"

\* Open the directory of g: read the position, notice a restart, and find the
\* file the position names.
VisitPeer(f, g) ==
    LET next  == synced[f][g]
        names == SubSeq(queue[g], 1, nfiles[g])
        open  == ~SeemsRestarted(g) /\ next < Len(names)
    IN
    /\ state[f] = "sync" /\ loc[f].peer = None /\ g \in loc[f].todo
    /\ ~Skips(f, g)
    /\ Demote(f, g)
    /\ loc' = [loc EXCEPT ![f].todo = @ \ {g}, ![f].any = TRUE,
                          ![f].peer = IF open THEN g ELSE None,
                          ![f].names = IF open THEN names ELSE <<>>,
                          ![f].next = IF open THEN next ELSE 0,
                          ![f].max = IF open THEN maxid[f][g] ELSE 0]
    /\ synced' = [synced EXCEPT ![f][g] = IF SeemsRestarted(g) THEN 0 ELSE @]
    /\ maxid' = [maxid EXCEPT ![f][g] = IF ~SeemsRestarted(g) /\ @ < next THEN 0 ELSE @]
    /\ UNCHANGED <<queue, nfiles, cmdline, state, in_place_resume, history>>

\* An entry that came from us, unless it is older than we are.
is_known_case(f, e, next, max) == e.from = f /\ next >= max

\* One file of the peer.  It may be gone by now: then it is passed over.
SyncFile(f) ==
    LET l    == loc[f]
        e    == l.names[l.next + 1]
        open == l.next < nfiles[l.peer] /\ queue[l.peer][l.next + 1] = e
        take == open /\ ~is_known_case(f, e, l.next + 1, l.max) /\ e.case \notin Known(f)
    IN
    /\ state[f] = "sync" /\ l.peer # None /\ l.next < Len(l.names)
    /\ loc' = [loc EXCEPT ![f].next = @ + 1]
    /\ queue' = [queue EXCEPT ![f] = IF take THEN Append(@, Entry(e.case, l.peer)) ELSE @]
    /\ nfiles' = [nfiles EXCEPT ![f] = IF take THEN @ + 1 ELSE @]
    /\ UNCHANGED <<marker, cmdline, synced, maxid, state, in_place_resume,
                   is_main_node, history>>

\* mutant: the position is one too far
SyncSave_OneTooFar(f) ==
    /\ state[f] = "sync" /\ loc[f].peer # None /\ loc[f].next = Len(loc[f].names)
    /\ synced' = [synced EXCEPT ![f][loc[f].peer] = loc[f].next + 1]
    /\ loc' = [loc EXCEPT ![f] = [@ EXCEPT !.peer = None, !.names = <<>>, !.next = 0, !.max = 0]]
    /\ UNCHANGED <<queue, nfiles, marker, cmdline, maxid, state, in_place_resume,
                   is_main_node, history>>

\* All files of the peer are done: the position is written.
SyncSave(f) ==
    /\ state[f] = "sync" /\ loc[f].peer # None /\ loc[f].next = Len(loc[f].names)
    /\ synced' = [synced EXCEPT ![f][loc[f].peer] = loc[f].next]
    /\ loc' = [loc EXCEPT ![f] = [@ EXCEPT !.peer = None, !.names = <<>>, !.next = 0, !.max = 0]]
    /\ UNCHANGED <<queue, nfiles, marker, cmdline, maxid, state, in_place_resume,
                   is_main_node, history>>

\* All directories are done.  A secondary that found nobody to sync from
\* becomes the temporary main node.
SyncEnd(f) ==
    LET elected == f \notin Mains /\ loc[f].entries /\ ~loc[f].any IN
    /\ state[f] = "sync" /\ loc[f].peer = None /\ loc[f].todo = {}
    /\ state' = [state EXCEPT ![f] = "up"]
    /\ is_main_node' = [is_main_node EXCEPT ![f] = @ \/ elected]
    /\ marker' = [marker EXCEPT ![f] = @ \/ elected]
    /\ loc' = [loc EXCEPT ![f] = NoLoc]
    /\ UNCHANGED <<queue, nfiles, cmdline, synced, maxid, in_place_resume, history>>

\* The steps afl-fuzz takes by itself.
Progress(f) ==
    \/ Pivot(f) \/ CheckSync(f)
    \/ SyncBegin(f) \/ SyncFile(f) \/ SyncSave(f) \/ SyncEnd(f)
    \/ \E g \in Fuzzers : SkipPeer(f, g) \/ VisitPeer(f, g)

Next ==
    \/ Tick
    \/ \E f \in Fuzzers :
          \/ Progress(f)
          \/ \E resume \in BOOLEAN : Start(f, resume)
          \/ Stop(f) \/ Crash(f)
          \/ \E c \in Cases : Find(f, c)

Spec == Init /\ [][Next]_vars

\* The main loop calls sync_fuzzers again and again; time goes on.
FairSpec == Spec /\ WF_vars(Tick) /\ \A f \in Fuzzers : WF_vars(Progress(f))

-----------------------------------------------------------------------------
(***************************************************************************)
(* Properties.                                                             *)
(***************************************************************************)
Running(f) == state[f] \in {"up", "sync"}
Entries == [case : Cases, from : Fuzzers \cup {None}]
Ids == 0 .. Cardinality(Cases)

\* Every variable has its type; positions stay in the range of ids.
TypeOK ==
    /\ queue \in [Fuzzers -> Seq(Entries)]
    /\ nfiles \in [Fuzzers -> Ids] /\ \A f \in Fuzzers : nfiles[f] <= Len(queue[f])
    /\ marker \in [Fuzzers -> BOOLEAN]
    /\ cmdline \in [Fuzzers -> {"none", "now", "old"}]
    /\ synced \in [Fuzzers -> [Fuzzers -> Ids]] /\ maxid \in [Fuzzers -> [Fuzzers -> Ids]]
    /\ state \in [Fuzzers -> {"down", "start", "up", "sync"}]
    /\ in_place_resume \in [Fuzzers -> BOOLEAN]
    /\ is_main_node \in [Fuzzers -> BOOLEAN]
    /\ loc \in [Fuzzers -> [todo : SUBSET Fuzzers, entries : BOOLEAN, any : BOOLEAN,
                            peer : Fuzzers \cup {None}, names : Seq(Entries),
                            next : Ids, max : Ids]]
    /\ finds \in 0 .. MaxFinds /\ ends \in 0 .. MaxEnds /\ resumed \subseteq Fuzzers /\ fresh \subseteq Fuzzers

\* f has every entry of g below the position it wrote for g.
Covered(f, g) ==
    \A i \in 1 .. synced[f][g] : i <= Len(queue[g]) /\ queue[g][i].case \in Known(f)

\* "For every file queued by this fuzzer, parse ID and see if we have looked
\* at it before; exec a test case if not": positions are ids, and sync_fuzzers never passes over an
\* entry of a peer that has not been restarted, whatever crashes, resumes and
\* stops in the middle of a sync happen to itself.
PositionHonest ==
    /\ TypeOK
    /\ \A f, g \in Fuzzers :
        f \notin fresh /\ g \notin fresh \cup resumed => Covered(f, g)

\* The same for peers that were restarted: "instance was restarted - we have to
\* reset our counter".
NoneSkipped ==
    \A f, g \in Fuzzers : f \notin fresh => Covered(f, g)

\* A main node that runs is marked as one, however temporary main nodes
\* come and go: the secondaries find it.
MainIsMarked == \A m \in Mains : Running(m) => marker[m]

\* While a real main node runs, every temporary main node steps down for good.
MainYields ==
    \A m \in Mains :
        <>[]Running(m) => <>[](\A f \in Fuzzers \ Mains : ~is_main_node[f])

\* What one instance has reaches all others, secondaries through the main node,
\* as long as nobody has to be restarted.
Converges ==
    <>[](resumed = {} /\ fresh = {} /\ \A f \in Fuzzers : Running(f)) =>
        <>[](\A f, g \in Fuzzers : Known(f) = Known(g))

-----------------------------------------------------------------------------
(***************************************************************************)
(* What makes PositionHonest and MainIsMarked inductive.                   *)
(***************************************************************************)
\* No instance has a test case twice, so there are no more ids than cases.
NoneTwice ==
    \A f \in Fuzzers : \A i, j \in DOMAIN queue[f] : queue[f][i].case = queue[f][j].case => i = j

\* sync_fuzzers reads no further than the names it has seen.
LocInRange ==
    \A f \in Fuzzers : loc[f].next <= Len(loc[f].names) /\ Len(loc[f].names) \in Ids

\* Nobody looks at an instance that was never started.
NotBeforeStart ==
    \A f \in Fuzzers \ Existing :
        /\ state[f] = "down" /\ queue[f] = <<>>
        /\ \A g \in Fuzzers : synced[g][f] = 0 /\ loc[g].peer # f /\ f \notin loc[g].todo

\* What came from an instance is still in its queue, unless it began anew: this
\* is why is_known_case may pass over it.
ImportsKnown ==
    \A f, g \in Fuzzers : f \notin fresh =>
        \A i \in DOMAIN queue[g] : queue[g][i].from = f => queue[g][i].case \in Known(f)

\* The names scandir saw are still files of the peer.
NamesOnDisk ==
    \A f, g \in Fuzzers : loc[f].peer = g /\ g \notin fresh \cup resumed =>
        /\ Len(loc[f].names) <= nfiles[g]
        /\ \A i \in 1 .. Len(loc[f].names) : loc[f].names[i] = queue[g][i]

\* The instance has what it has gone over in this visit.
ReadSoFar ==
    \A f, g \in Fuzzers :
        loc[f].peer = g /\ f \notin fresh /\ g \notin fresh \cup resumed =>
            \A i \in 1 .. loc[f].next : queue[g][i].case \in Known(f)

\* A main node is marked from its start on.
MarkedFromStart == \A m \in Mains : state[m] # "down" => marker[m]

IInv == /\ PositionHonest /\ NoneTwice /\ LocInRange /\ NotBeforeStart /\ ImportsKnown
        /\ NamesOnDisk /\ ReadSoFar /\ MarkedFromStart
=============================================================================
