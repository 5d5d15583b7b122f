----------------------------- MODULE MCExportJobs -----------------------------
(* Two exports meet at one destination. *)
EXTENDS ExportJobs

CONSTANTS j1, j2

MCJobs == {j1, j2}
=============================================================================
