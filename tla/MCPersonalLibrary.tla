--------------------------- MODULE MCPersonalLibrary ---------------------------
(* Two hosts of different projects share one library; three operations are sent to them. *)
EXTENDS PersonalLibrary, TLC

Symmetry == Permutations(Host) \cup Permutations(Operation)

=============================================================================
