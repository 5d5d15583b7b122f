-------------------------- MODULE MCConnectedEditing --------------------------
(* Two editor windows and one external client with two writes.  The second    *)
(* window has no control connection yet, and one more connection is left for *)
(* the first window, the unsteady one, to reopen with.                       *)
EXTENDS ConnectedEditing, TLC

CONSTANTS o1, o2, w1, w2

MCConns == 1..6
MCOwners == {o1, o2}
MCWrites == {w1, w2}
MCUnsteady == {o1}
MCFirstNative == (o1 :> 1) @@ (o2 :> 2)
MCFirstControl == (o1 :> 3) @@ (o2 :> 0)
=============================================================================
