---------------------------- MODULE MCCollaboration ----------------------------
(* Three editor windows, of which two fit the hold file, over four accepted *)
(* connections.                                                             *)
EXTENDS Collaboration, TLC

CONSTANTS o1, o2, o3, w1, w2

MCConns == 1..4
MCOwners == {o1, o2, o3}
MCWrites == {w1, w2}
MCSymmetry == Permutations(MCOwners) \cup Permutations(MCWrites)
=============================================================================
