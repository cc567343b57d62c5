----------------------------- MODULE MCNovelty -----------------------------
(***************************************************************************)
(* An instance of Novelty for TLC.  Four edges; the hit counts 3 and 4    *)
(* lie in different classes, and 3 leaves its class if it is classified    *)
(* twice.                                                                  *)
(***************************************************************************)
EXTENDS Novelty

CONSTANTS dull, long, short, other, flaky, slow, crasher

MCTrace(a, b, c, d) == [e \in Edges |-> CASE e = 1 -> a [] e = 2 -> b [] e = 3 -> c [] e = 4 -> d]
Ran(t, f) == [trace |-> t, fault |-> f]
Always(R) == [l \in Limits |-> R]

\* short is long without what it does not need; other looks like it, with a
\* different count.  flaky varies in two edges, and sometimes hangs.  slow is cut off by exec_tmout,
\* perhaps by the calibration's limit, and may crash in the end.
MCBehaviour == [i \in Inputs |->
    CASE i = dull -> Always({Ran(MCTrace(1, 0, 0, 0), "ok")})
      [] i \in {long, short} -> Always({Ran(MCTrace(1, 3, 0, 0), "ok")})
      [] i = other -> Always({Ran(MCTrace(1, 4, 0, 0), "ok")})
      [] i = flaky -> Always({Ran(MCTrace(1, 0, 1, 0), "ok"), Ran(MCTrace(1, 0, 0, 1), "ok"),
                              Ran(MCTrace(1, 0, 0, 0), "tmout")})
      [] i = slow -> [l \in Limits |->
            CASE l = "exec" -> {Ran(MCTrace(1, 0, 0, 0), "tmout")}
              [] l = "cal" -> {Ran(MCTrace(1, 0, 0, 0), "tmout"), Ran(MCTrace(1, 2, 0, 0), "ok")}
              [] l = "hang" -> {Ran(MCTrace(1, 2, 0, 0), f) : f \in {"ok", "crash", "tmout"}}]
      [] i = crasher -> Always({Ran(MCTrace(1, 1, 0, 0), "crash")})]

MCShorter == [i \in Inputs |-> IF i = long THEN {short, other} ELSE {}]
MCSanCrashes == [i \in Inputs |-> i \in {dull, other}]
MCSeeds == <<crasher, crasher, dull>>

Plain == [fast |-> FALSE, keep_timeouts |-> FALSE, ignore_timeouts |-> FALSE, retry |-> TRUE,
          cmplog |-> FALSE, crashing_seeds |-> FALSE, san |-> "none"]
MCConfigs == {[Plain EXCEPT !.ignore_timeouts = TRUE, !.crashing_seeds = TRUE,
                            !.san = "simplify"],
              [Plain EXCEPT !.fast = TRUE, !.keep_timeouts = TRUE],
              [Plain EXCEPT !.san = "increase"],
              [Plain EXCEPT !.retry = FALSE, !.cmplog = TRUE, !.san = "unique"],
              [Plain EXCEPT !.fast = TRUE, !.san = "unique"]}
=============================================================================
