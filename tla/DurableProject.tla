----------------------------- MODULE DurableProject -----------------------------
(***************************************************************************)
(* What the storage of a project promises to the clients of its session,   *)
(* without blobs, manifests, increments or pruning: a command either takes *)
(* effect on the durable content as a whole or not at all, an answered     *)
(* command has taken effect, and the revision with its undo and redo       *)
(* history is kept as a whole beside the content, used only while both     *)
(* belong together.  (providence-core session.rs; the module that keeps    *)
(* this promise step by step is ProjectCheckpoint)                         *)
(***************************************************************************)
EXTENDS Naturals, Sequences, SequencesExt

CONSTANTS
    Contents,      \* what a project may contain
    HistoryLimit,  \* entries of undo and of redo
    None

VARIABLES
    phase,    \* "closed", "open" (waiting for a command), "busy" (with one)
    durable,  \* the content that a reopened project shows
    kept,     \* the session kept beside it, or None
    session,  \* the session as its clients last saw it
    pending   \* what the command in hand makes of it

vars == <<phase, durable, kept, session, pending>>

\* push_history: the oldest entries go first.
Push(history, c) ==
    IF Len(history) < HistoryLimit THEN Append(history, c) ELSE Append(Tail(history), c)

Fresh(c) == [content |-> c, revision |-> 0, undo |-> <<>>, redo |-> <<>>]

\* EditorSession::apply
Edited(s, c) ==
    [content |-> c, revision |-> s.revision + 1,
     undo |-> Push(s.undo, s.content), redo |-> <<>>]

\* commit_classic_scenario_import
Imported(s, c) ==
    [content |-> c, revision |-> s.revision + 1, undo |-> <<>>, redo |-> <<>>]

\* EditorSession::undo
Undone(s) ==
    [content |-> Last(s.undo), revision |-> s.revision + 1,
     undo |-> Front(s.undo), redo |-> Push(s.redo, s.content)]

\* EditorSession::redo
Redone(s) ==
    [content |-> Last(s.redo), revision |-> s.revision + 1,
     undo |-> Push(s.undo, s.content), redo |-> Front(s.redo)]

Successors(s) ==
    {Edited(s, c) : c \in Contents} \cup {Imported(s, c) : c \in Contents}
        \cup (IF s.undo # <<>> THEN {Undone(s)} ELSE {})
        \cup (IF s.redo # <<>> THEN {Redone(s)} ELSE {})

\* What a project shows when it is opened.
Belongs == kept # None /\ kept.content = durable
Reopened == IF Belongs THEN kept ELSE Fresh(durable)

-----------------------------------------------------------------------------
Init ==
    /\ phase = "closed"
    /\ durable \in Contents
    /\ kept = None
    /\ session = Fresh(durable)
    /\ pending = session

Open ==
    /\ phase = "closed"
    /\ phase' = "open"
    /\ session' = Reopened
    /\ pending' = Reopened
    /\ kept' = IF Belongs THEN kept ELSE None
    /\ UNCHANGED durable

\* A command, or project.save, which leaves the session as it is.
Request ==
    /\ phase = "open"
    /\ phase' = "busy"
    /\ pending' \in Successors(session) \cup {session}
    /\ UNCHANGED <<durable, kept, session>>

TakeEffect ==
    /\ phase = "busy"
    /\ durable' = pending.content
    /\ UNCHANGED <<phase, kept, session, pending>>

Keep ==
    /\ phase = "busy"
    /\ durable = pending.content
    /\ kept' = pending
    /\ UNCHANGED <<phase, durable, session, pending>>

\* checkpoint_project acknowledges.
Answer ==
    /\ phase = "busy"
    /\ durable = pending.content
    /\ phase' = "open"
    /\ session' = pending
    /\ UNCHANGED <<durable, kept, pending>>

\* The process ends, or gives up on a command whose outcome is then unknown.
Close ==
    /\ phase # "closed"
    /\ phase' = "closed"
    /\ UNCHANGED <<durable, kept, session, pending>>

Next == Open \/ Request \/ TakeEffect \/ Keep \/ Answer \/ Close

Spec == Init /\ [][Next]_vars
=============================================================================
