------------------------- MODULE MCOperationReceipts -------------------------
(* Three operations of one project, with room for a reset session to catch up. *)
EXTENDS OperationReceipts

CONSTANTS a, b, c

MCOps == {a, b, c}
MCSymmetry == Permutations(MCOps)
=============================================================================
