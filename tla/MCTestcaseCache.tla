-------------------------- MODULE MCTestcaseCache --------------------------
(***************************************************************************)
(* The instances of TestcaseCache that TLC checks.                         *)
(***************************************************************************)
EXTENDS TestcaseCache, TLC

CONSTANTS q1, q2, q3, q4

FourEntries == {q1, q2, q3, q4}
Sym == Permutations(FourEntries)
=============================================================================
