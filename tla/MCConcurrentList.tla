-------------------------- MODULE MCConcurrentList --------------------------
(* Instances of ConcurrentList for TLC. *)
EXTENDS ConcurrentList, TLC

\* Threads of one kind and memory cells are interchangeable.
Symmetry ==
  Permutations(Searchers) \cup Permutations(Inserters)
    \cup Permutations(Deleters) \cup Permutations(Node)
=============================================================================
