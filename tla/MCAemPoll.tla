------------------------------ MODULE MCAemPoll ------------------------------
(***************************************************************************)
(* TLC instances of the event loop of AemPoll.                             *)
(***************************************************************************)
EXTENDS AemPoll, TLC

OneFd == {3}
ReadOnly == {{"RD"}}

Symmetry == Permutations(Evts)
=============================================================================
