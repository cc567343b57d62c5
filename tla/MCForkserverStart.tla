------------------------- MODULE MCForkserverStart -------------------------
(***************************************************************************)
(* The instance of ForkserverStart that TLC checks.                        *)
(***************************************************************************)
EXTENDS ForkserverStart
=============================================================================
