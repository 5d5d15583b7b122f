------------------------------ MODULE SharedLibrary ------------------------------
(***************************************************************************)
(* What My Library promises to clients of several hosts: there is one      *)
(* library, an operation changes it at most once and only as its client    *)
(* has read it, and as long as its receipt is kept an operation has one    *)
(* outcome, a true one, after which it changes nothing more.  Hosts, their *)
(* locks and files, the order of durable writes and their deaths do not    *)
(* appear.  (personal_library.rs, monster_operations.rs; the module that   *)
(* keeps this promise step by step is PersonalLibrary)                     *)
(***************************************************************************)
EXTENDS Naturals, Sequences

CONSTANTS
    Operation,
    Command,
    Unasked,        \* no request
    Start,          \* the library before the first change
    Accepts(_, _),  \* whether a command can be carried out on a library
    Result(_, _)    \* and the library it makes of it

VARIABLES
    library,
    log,        \* the operations that changed it, in their order
    asked,      \* what each operation asks for, and at which revision
    told,       \* the definite outcomes its client was given
    forgotten   \* operations whose receipt was pruned

vars == <<library, log, asked, told, forgotten>>

Outcome == {"committed", "not-committed"}

Done(o) == \E i \in 1..Len(log) : log[i] = o

Init ==
    /\ library = Start
    /\ log = <<>>
    /\ asked = [o \in Operation |-> Unasked]
    /\ told = [o \in Operation |-> {}]
    /\ forgotten = {}

Ask(o) ==
    /\ asked[o] = Unasked
    /\ \E expected \in 0..Len(log), command \in Command :
          asked' = [asked EXCEPT ![o] = [expected |-> expected, command |-> command]]
    /\ UNCHANGED <<library, log, told, forgotten>>

\* A command is carried out on the library of the revision that it expects. One that
\* has an outcome comes too late, unless its receipt is gone and it is sent again.
Change(o) ==
    /\ ~Done(o)
    /\ told[o] = {} \/ o \in forgotten
    /\ asked[o] # Unasked
    /\ asked[o].expected = Len(log)
    /\ Accepts(library, asked[o].command)
    /\ library' = Result(library, asked[o].command)
    /\ log' = Append(log, o)
    /\ UNCHANGED <<asked, told, forgotten>>

\* Of a forgotten operation each delivery has an outcome of its own, and "committed"
\* is still true of the operation.
Answer(o, outcome) ==
    /\ asked[o] # Unasked
    /\ outcome = "committed" => Done(o)
    /\ outcome = "not-committed" => ~Done(o) \/ o \in forgotten
    /\ told' = [told EXCEPT ![o] = @ \cup {outcome}]
    /\ UNCHANGED <<library, log, asked, forgotten>>

Forget(o) ==
    /\ asked[o] # Unasked
    /\ forgotten' = forgotten \cup {o}
    /\ UNCHANGED <<library, log, asked, told>>

Next ==
    \E o \in Operation :
        \/ Ask(o)
        \/ Change(o)
        \/ \E outcome \in Outcome : Answer(o, outcome)
        \/ Forget(o)

Spec == Init /\ [][Next]_vars
=============================================================================
