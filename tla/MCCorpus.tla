------------------------------ MODULE MCCorpus ------------------------------
(***************************************************************************)
(* The instances of Corpus that TLC checks.                                *)
(***************************************************************************)
EXTENDS Corpus

\* Traces over three bits: overlapping pairs, so that one entry can win bits
\* of another, and singletons.
OverlappingTraces == {{0, 1}, {1, 2}, {0}}
TwoBitTraces == {{0, 1}, {0}, {1}}
NestedTraces == {{0, 1}, {1}}
=============================================================================
