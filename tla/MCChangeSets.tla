------------------------------ MODULE MCChangeSets ------------------------------
(* The original content and one with payloads of its own, room for one preview, and  *)
(* a collection of stamps that may be changed and changed back.                      *)
EXTENDS ChangeSets

CONSTANTS c1, c2, p1, p2

MCContents == {c1, c2}
MCPlain == {c1}
MCCollections == {p1, p2}
=============================================================================
