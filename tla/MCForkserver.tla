---------------------------- MODULE MCForkserver ----------------------------
(***************************************************************************)
(* Instances of Forkserver for TLC: one input of each kind, two pids (a    *)
(* pid is reused once its process has been reaped).                        *)
(***************************************************************************)
EXTENDS Forkserver

CONSTANTS ok, crash, hang

MCInputs == {ok, crash, hang}
MCKind   == [i \in MCInputs |-> CASE i = ok    -> "ok"
                                  [] i = crash -> "crash"
                                  [] i = hang  -> "hang"]
=============================================================================
