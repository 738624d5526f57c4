--------------------------- MODULE MCSstfElevator ---------------------------
(* Instances of SstfElevator for TLC. *)
EXTENDS SstfElevator

\* The structs of requests are interchangeable.
Symmetry == Permutations(Request)
=============================================================================
