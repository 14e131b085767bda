-------------------------- MODULE MCMessageJournal --------------------------
(* Instances of MessageJournal for TLC.                                    *)
EXTENDS MessageJournal, TLC

Symmetry ==
  Permutations(Writers) \cup Permutations(Keys) \cup Permutations(Bodies)
=============================================================================
