---------------------------- MODULE OperationLedger ----------------------------
(***************************************************************************)
(* What the receipts of a host promise to clients that lose replies and    *)
(* send operations again: an operation is accepted once, changes the       *)
(* project at most once and only while no other is undecided, is decided   *)
(* once and truthfully, and every answer but "unknown" is that decision.   *)
(* Requests in hand, receipts, the gate, the journal and the host's deaths *)
(* do not appear.  (shared_host/{state,receipts,recovery}.rs; the module   *)
(* that keeps this promise step by step is OperationReceipts)              *)
(***************************************************************************)
CONSTANTS Ops

VARIABLES
    fate,     \* what was decided about each operation
    first,    \* operations that expected revision 0, as a reset session has it too
    made,     \* operations that changed the project
    project,  \* its content: the operations in effect
    told      \* the answers given about each operation

vars == <<fate, first, made, project, told>>

Decisions == {"committed", "rejected", "committed-recovered", "no-project-change"}

Undecided == {o \in Ops : fate[o] = "undecided"}

Tell(o, answer) == told' = [told EXCEPT ![o] = @ \cup {answer}]

Init ==
    /\ fate = [o \in Ops |-> "unseen"]
    /\ first = {}
    /\ made = {}
    /\ project = {}
    /\ told = [o \in Ops |-> {}]

Accept(o) ==
    /\ fate[o] = "unseen"
    /\ fate' = [fate EXCEPT ![o] = "undecided"]
    /\ first' \in {first, first \cup {o}}
    /\ UNCHANGED <<made, project, told>>

\* A command adds itself to the project; undo and redo take away or bring back an
\* operation that once changed it.
Change(o) ==
    /\ Undecided = {o}
    /\ o \notin made
    /\ made' = made \cup {o}
    /\ \/ project' = project \cup {o}
       \/ \E p \in made : project' \in {project \ {p}, project \cup {p}}
    /\ UNCHANGED <<fate, first, told>>

\* What may be decided about an operation; the first revision is the one at which
\* "no-project-change" can be wrong.
Truthful(o, decision) ==
    /\ decision = "rejected" => o \notin made
    /\ decision = "committed-recovered" => o \in made
    /\ decision = "no-project-change" /\ o \notin first => o \notin made

Decide(o, decision) ==
    /\ fate[o] = "undecided"
    /\ Truthful(o, decision)
    /\ fate' = [fate EXCEPT ![o] = decision]
    /\ Tell(o, decision) \/ UNCHANGED told
    /\ UNCHANGED <<first, made, project>>

\* Nothing is known yet of an operation, or its decision is repeated.
Answer(o) ==
    /\ \/ fate[o] = "undecided" /\ Tell(o, "unknown")
       \/ fate[o] \in Decisions /\ Tell(o, fate[o])
    /\ UNCHANGED <<fate, first, made, project>>

Next ==
    \E o \in Ops :
        \/ Accept(o)
        \/ Change(o)
        \/ \E decision \in Decisions : Decide(o, decision)
        \/ Answer(o)

Spec == Init /\ [][Next]_vars
=============================================================================
