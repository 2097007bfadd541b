----------------------------- MODULE MCAemStream -----------------------------
(***************************************************************************)
(* TLC instances of the streams of AemStream.                              *)
(***************************************************************************)
EXTENDS AemStream, TLC

Symmetry == Permutations(Sources) \cup Permutations(Sinks) \cup Permutations(Streams)
=============================================================================
