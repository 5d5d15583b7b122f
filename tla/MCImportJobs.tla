----------------------------- MODULE MCImportJobs -----------------------------
(* Two connections import into one project beside its edits. *)
EXTENDS ImportJobs, TLC

CONSTANTS c1, c2

MCConns == {c1, c2}
MCSymmetry == Permutations(MCConns)
=============================================================================
