---------------------------- MODULE MCFindingRace ----------------------------
(***************************************************************************)
(* A resource with and without its ignore tag.                             *)
(***************************************************************************)
EXTENDS FindingRace, TLC

Plain == [ignored |-> FALSE, ownership |-> "UNKNOWN", blocked |-> FALSE]

MCCandidates == {Plain, [Plain EXCEPT !.ignored = TRUE]}

PatcherSymmetry == Permutations(Patcher)
===============================================================================
