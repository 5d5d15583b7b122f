--------------------------- MODULE MCValidationJobs ---------------------------
(* Two requests around one edit and one change of the support files. *)
EXTENDS ValidationJobs

CONSTANTS v, w

MCContents == {v, w}
=============================================================================
