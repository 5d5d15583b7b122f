--------------------------- MODULE OperationReceipts ---------------------------
(***************************************************************************)
(* Durable operation receipts of the shared host, with the checkpoint they *)
(* acknowledge.  A write request carries an operation identity; the host   *)
(* writes a pending receipt, applies the command to the session, replaces  *)
(* the portable snapshot, records the local session and the journal in     *)
(* SQLite, completes the receipt and replies.  The host may die between    *)
(* any two of these durable steps.  (shared_host/{state,receipts,recovery, *)
(* rejections}.rs, transport.rs, providence-storage/project_checkpoint.rs) *)
(*                                                                         *)
(* The content of a project is the set of operations in effect: history is *)
(* a stack, so an entry's snapshot is known by the operation it reverts.   *)
(***************************************************************************)
EXTENDS Naturals, Sequences, FiniteSets, SequencesExt

CONSTANTS
    Ops,           \* operation identities, each sent with one set of arguments
    JournalLimit,  \* command_journal rows kept (256 in the code)
    MaxRevision,   \* bound: no modelled command starts at this revision
    NoOp           \* no receipt, no stored session, or no request in hand

ASSUME JournalLimitAssumption == JournalLimit \in Nat \ {0}
ASSUME MaxRevisionAssumption == MaxRevision \in Nat

VARIABLES
    \* on disk
    receipts,  \* .providence/operation-receipts: operation -> Receipt or NoOp
    snapshot,  \* the portable snapshot: the operations in effect
    stored,    \* session_state_blob: the stored Session or NoOp
    journal,   \* command_journal: revision -> operation
    \* in the host process
    up,        \* a host process serves the project
    session,   \* the live EditorSession
    gate,      \* State.unresolved_operations
    busy,      \* the write request being handled, or NoOp
    \* history
    writes,    \* how many snapshot writes each operation has made
    told,      \* outcomes replied for each operation
    stale      \* operations the host found to expect another revision

disk == <<receipts, snapshot, stored, journal>>
vars == <<receipts, snapshot, stored, journal, up, session, gate, busy, writes, told, stale>>

ProjectKinds == {"edit", "undo", "redo"}
Kinds == ProjectKinds \cup {"effect"}    \* effect: publishes outside the project
Unresolved == {"pending", "unknown"}
Resolved == {"committed", "rejected", "committed-recovered", "no-project-change"}
Steps == {"stale", "begun", "failed", "advanced", "uncertain", "written", "done"}

Receipt == [kind : Kinds, expected : Nat, state : Unresolved \cup Resolved]
Session == [content : SUBSET Ops, revision : Nat, undo : Seq(Ops), redo : Seq(Ops)]

Request == [op : Ops, step : Steps]

ASSUME NoOpAssumption ==
    NoOp \notin Ops /\ NoOp \notin Receipt /\ NoOp \notin Session /\ NoOp \notin Request

TypeOK ==
    /\ receipts \in [Ops -> Receipt \cup {NoOp}]
    /\ snapshot \in SUBSET Ops
    /\ stored \in Session \cup {NoOp}
    /\ DOMAIN journal \subseteq Nat
    /\ journal \in [DOMAIN journal -> Ops]
    /\ up \in BOOLEAN
    /\ session \in Session
    /\ gate \in SUBSET Ops
    /\ busy \in Request \cup {NoOp}
    /\ busy # NoOp => up /\ receipts[busy.op] # NoOp
    /\ writes \in [Ops -> Nat]
    /\ told \in [Ops -> SUBSET (Resolved \cup {"unknown"})]
    /\ stale \in SUBSET Ops

-----------------------------------------------------------------------------
(* Receipts on disk. *)

Seen(o) == receipts[o] # NoOp
IsUnresolved(o) == Seen(o) /\ receipts[o].state \in Unresolved

\* receipts::unresolved
UnresolvedOnDisk == {o \in Ops : IsUnresolved(o)}

\* receipts::finish and the state recovery::reconcile writes
Settle(o, state) == receipts' = [receipts EXCEPT ![o].state = state]

Tell(o, outcome) == told' = [told EXCEPT ![o] = @ \cup {outcome}]

Fresh(content) == [content |-> content, revision |-> 0, undo |-> <<>>, redo |-> <<>>]

Idle == up /\ busy = NoOp

\* The step of the request in hand.
At(step) == busy # NoOp /\ busy.step = step

-----------------------------------------------------------------------------
(* The session commands (session.rs), with the attribution of history.      *)

Edited(s, o) ==
    [content |-> s.content \cup {o}, revision |-> s.revision + 1,
     undo |-> Append(s.undo, o), redo |-> <<>>]

Undone(s) ==
    [content |-> s.content \ {Last(s.undo)}, revision |-> s.revision + 1,
     undo |-> Front(s.undo), redo |-> Append(s.redo, Last(s.undo))]

Redone(s) ==
    [content |-> s.content \cup {Last(s.redo)}, revision |-> s.revision + 1,
     undo |-> Append(s.undo, Last(s.redo)), redo |-> Front(s.redo)]

\* The sessions a successful command may leave; an edit may change nothing.
Advanced(s, o, kind) ==
    CASE kind = "edit" -> {Edited(s, o), s}
      [] kind = "undo" -> IF s.undo = <<>> THEN {} ELSE {Undone(s)}
      [] kind = "redo" -> IF s.redo = <<>> THEN {} ELSE {Redone(s)}
      [] kind = "effect" -> {s}

-----------------------------------------------------------------------------
(* State::handle for a request that mutates. *)

\* Mutated form of MayBegin: receipts of earlier requests are not looked up.
MayBeginAgain(o) == TRUE

\* receipts::replay comes before every other check: only an operation without a
\* receipt goes any further.
MayBegin(o) == ~Seen(o)

Begin(o, kind, expected, step) ==
    /\ receipts' = [receipts EXCEPT
                       ![o] = [kind |-> kind, expected |-> expected, state |-> "pending"]]
    /\ busy' = [op |-> o, step |-> step]
    /\ UNCHANGED <<snapshot, stored, journal, up, session, gate, writes, told>>

\* guard finds another revision: reject_stale writes a receipt of its own, also
\* while the gate is closed to writes. A request names the host it read its
\* revision from, so that revision is an earlier one.
ReceiveStale(o, kind, expected) ==
    /\ Idle
    /\ MayBegin(o)
    /\ expected < session.revision
    /\ Begin(o, kind, expected, "stale")
    /\ stale' = stale \cup {o}

GateOpen == gate = {}

\* guard and guard_write pass; execute begins the receipt.
ReceiveCurrent(o, kind) ==
    /\ Idle
    /\ MayBegin(o)
    /\ GateOpen
    /\ session.revision < MaxRevision
    /\ Begin(o, kind, session.revision, "begun")
    /\ stale' = stale

\* receipts::replay of a completed receipt.
Replay(o) ==
    /\ Idle
    /\ Seen(o)
    /\ receipts[o].state \in Resolved
    /\ Tell(o, receipts[o].state)
    /\ UNCHANGED <<disk, up, session, gate, busy, writes, stale>>

HostGone ==
    /\ up' = FALSE
    /\ session' = Fresh({})
    /\ gate' = {}
    /\ busy' = NoOp

\* The same request while its receipt is unresolved: outcome-unknown, and serve
\* ends the host after that reply.
ReplayUnresolved(o) ==
    /\ Idle
    /\ IsUnresolved(o)
    /\ Tell(o, "unknown")
    /\ HostGone
    /\ UNCHANGED <<disk, writes, stale>>

-----------------------------------------------------------------------------
(* State::execute and transport::process_request, one durable step at a time. *)

MoveTo(step) == busy' = [busy EXCEPT !.step = step]

\* Mutated form of AfterLateFailure: the failed reply is taken at its word.
AfterLateFailureRejected == "failed"

\* reject_unacknowledged_mutation
AfterLateFailure == "uncertain"

\* The feature runs. It fails with the session unchanged, succeeds, or fails
\* after changing the session.
Dispatch ==
    /\ At("begun")
    /\ \/ MoveTo("failed") /\ session' = session
       \/ \E s \in Advanced(session, busy.op, receipts[busy.op].kind) :
             /\ session' = s
             /\ IF s = session THEN MoveTo("done")
                ELSE MoveTo("advanced") \/ MoveTo(AfterLateFailure)
    /\ UNCHANGED <<disk, up, gate, writes, told, stale>>

\* checkpoint_session up to the atomic replacement of the portable snapshot.
WriteSnapshot ==
    /\ At("advanced")
    /\ snapshot' = session.content
    /\ writes' = [writes EXCEPT ![busy.op] = @ + 1]
    /\ MoveTo("written")
    /\ UNCHANGED <<receipts, stored, journal, up, session, gate, told, stale>>

\* checkpoint_session fails before that.
CheckpointFails ==
    /\ At("advanced")
    /\ MoveTo("uncertain")
    /\ UNCHANGED <<disk, up, session, gate, writes, told, stale>>

Newest(rows) == {r \in rows : Cardinality({q \in rows : q > r}) < JournalLimit}

\* INSERT OR REPLACE by revision, then keep the newest rows.
Journaled(o) ==
    LET rows == Newest(DOMAIN journal \cup {session.revision})
    IN  [r \in rows |-> IF r = session.revision THEN o ELSE journal[r]]

\* update_session_infrastructure, one SQLite transaction; its failure is only a
\* warning in the reply.
RecordSession ==
    /\ At("written")
    /\ \/ stored' = session /\ journal' = Journaled(busy.op)
       \/ UNCHANGED <<stored, journal>>
    /\ MoveTo("done")
    /\ UNCHANGED <<receipts, snapshot, up, session, gate, writes, told, stale>>

\* receipts::finish and the reply.
FinishAs(step, state) ==
    /\ At(step)
    /\ Settle(busy.op, state)
    /\ Tell(busy.op, state)

FinishCommitted ==
    /\ FinishAs("done", "committed")
    /\ busy' = NoOp
    /\ UNCHANGED <<snapshot, stored, journal, up, session, gate, writes, stale>>

FinishRejected ==
    /\ FinishAs("failed", "rejected") \/ FinishAs("stale", "rejected")
    /\ busy' = NoOp
    /\ UNCHANGED <<snapshot, stored, journal, up, session, gate, writes, stale>>

\* An unknown outcome ends the host.
FinishUnknown ==
    /\ FinishAs("uncertain", "unknown")
    /\ HostGone
    /\ UNCHANGED <<snapshot, stored, journal, writes, stale>>

-----------------------------------------------------------------------------
(* The host process ends at any moment (a crash, a panic, a receipt that    *)
(* cannot be completed, the last client leaving) and a later one reopens.   *)

Crash ==
    /\ up
    /\ HostGone
    /\ UNCHANGED <<disk, writes, told, stale>>

\* Mutated form of Restorable: the stored session need not match the snapshot.
RestorableUnchecked == stored # NoOp

\* load_persisted_session: the stored session belongs to the portable snapshot.
Restorable == stored # NoOp /\ stored.content = snapshot

\* Mutated form of LoadedGate: a new host starts with no unresolved operations.
EmptyGate == {}

LoadedGate == UnresolvedOnDisk

\* open_session, restore_session and load_receipt_gate.
Reopen ==
    /\ ~up
    /\ up' = TRUE
    /\ session' = IF Restorable THEN stored ELSE Fresh(snapshot)
    /\ stored' = IF Restorable THEN stored ELSE NoOp
    /\ gate' = LoadedGate
    /\ UNCHANGED <<receipts, snapshot, journal, busy, writes, told, stale>>

-----------------------------------------------------------------------------
(* recovery::reconcile *)

\* The newest undo entry is this operation's and is one revision past it.
HistoryWitness(o) ==
    /\ session.undo # <<>>
    /\ Last(session.undo) = o
    /\ session.revision = receipts[o].expected + 1

Witnessed(o) == HistoryWitness(o) \/ \E r \in DOMAIN journal : journal[r] = o

\* The session is still at the revision the operation expected.
NothingChanged(o) == session.revision = receipts[o].expected

\* Mutated form of Reconcilable: a completed receipt is reconciled again.
ReconcilableAgain(o) == Seen(o)

Reconcilable(o) == IsUnresolved(o)

\* An external publication is never settled here, nor an operation that neither
\* the journal, nor the history, nor the revision explains.
Reconcile(o) ==
    /\ Idle
    /\ Reconcilable(o)
    /\ receipts[o].kind \in ProjectKinds
    /\ \/ Witnessed(o) /\ Settle(o, "committed-recovered")
       \/ ~Witnessed(o) /\ NothingChanged(o) /\ Settle(o, "no-project-change")
    /\ gate' = {p \in Ops : p \in UnresolvedOnDisk'}
    /\ UNCHANGED <<snapshot, stored, journal, up, session, busy, writes, told, stale>>

-----------------------------------------------------------------------------
Init ==
    /\ receipts = [o \in Ops |-> NoOp]
    /\ snapshot = {}
    /\ stored = NoOp
    /\ journal = [r \in {} |-> NoOp]
    /\ up = FALSE
    /\ session = Fresh({})
    /\ gate = {}
    /\ busy = NoOp
    /\ writes = [o \in Ops |-> 0]
    /\ told = [o \in Ops |-> {}]
    /\ stale = {}

Receive(o) ==
    \/ \E kind \in Kinds, expected \in 0..MaxRevision : ReceiveStale(o, kind, expected)
    \/ \E kind \in Kinds : ReceiveCurrent(o, kind)
    \/ Replay(o)
    \/ ReplayUnresolved(o)
    \/ Reconcile(o)

Handle ==
    \/ Dispatch
    \/ WriteSnapshot
    \/ CheckpointFails
    \/ RecordSession
    \/ FinishCommitted
    \/ FinishRejected
    \/ FinishUnknown

Next ==
    \/ \E o \in Ops : Receive(o)
    \/ Handle
    \/ Crash
    \/ Reopen

Spec == Init /\ [][Next]_vars
-----------------------------------------------------------------------------
(* Invariants. *)

\* However often a request is sent and wherever the host dies, its effect reaches
\* the portable snapshot at most once (receipts::replay, begin).
AtMostOnce == \A o \in Ops : writes[o] <= 1

\* What a settled receipt says is what happened: a rejected operation never wrote,
\* a recovered one did, and "no-project-change" is true of every operation that
\* expected a revision above 0 (recovery::project_outcome, transport.rs).
SettledTruthfully ==
    \A o \in Ops : Seen(o) =>
        /\ receipts[o].state = "rejected" => writes[o] = 0
        /\ receipts[o].state = "committed-recovered" => writes[o] = 1
        /\ receipts[o].state = "no-project-change" /\ receipts[o].expected > 0 => writes[o] = 0

\* Between requests the session the host serves is the one on disk: nothing that
\* was not durably acknowledged is ever shown (reject_unacknowledged_mutation).
ServedStateIsDurable == Idle => session.content = snapshot

\* Between requests the write gate holds exactly the operations whose receipts
\* are unresolved on disk (load_receipt_gate).
GateMatchesDisk == Idle => gate = UnresolvedOnDisk

\* A client is never told of one operation both that it took effect and that it
\* did not, across replays, restarts and reconciliation.
RepliesAgree ==
    \A o \in Ops : ~ /\ told[o] \cap {"committed", "committed-recovered"} # {}
                     /\ told[o] \cap {"rejected", "no-project-change"} # {}

\* Reconciliation does not fabricate a result (recovery.rs): an operation reported
\* as having changed nothing left nothing in the project, whatever it expected.
NoFabricatedResult ==
    \A o \in Ops : (Seen(o) /\ receipts[o].state = "no-project-change") => writes[o] = 0

\* A lost revision rejection still has a durable no-effect witness (rejections.rs):
\* once the host has found an operation stale, the operation is rejected on disk,
\* or a host that reopens the project can settle it.
LostRejectionHasWitness ==
    Idle => \A o \in stale : IsUnresolved(o) => Witnessed(o) \/ NothingChanged(o)

-----------------------------------------------------------------------------
(* Action properties. *)

\* A completed receipt is never rewritten.
ReceiptsAreFinal ==
    [][\A o \in Ops : (Seen(o) /\ receipts[o].state \in Resolved)
                          => receipts'[o] = receipts[o]]_vars

\* While an operation is unresolved no other operation changes the project, also
\* across restarts (guard_write, "an unexplained outcome blocks further writes").
UnresolvedBlocksWrites ==
    [][\A o \in Ops : writes'[o] # writes[o] => UnresolvedOnDisk = {o}]_vars

-----------------------------------------------------------------------------
(* The promise of the receipts (OperationLedger) and how this module keeps it. *)

Fate(o) ==
    IF ~Seen(o) THEN "unseen" ELSE IF IsUnresolved(o) THEN "undecided" ELSE receipts[o].state

Fates == [o \in Ops |-> Fate(o)]
FirstRevision == {o \in Ops : Seen(o) /\ receipts[o].expected = 0}
Written == {o \in Ops : writes[o] # 0}

Ledger == INSTANCE OperationLedger WITH
    fate <- Fates, first <- FirstRevision, made <- Written, project <- snapshot

\* Whatever is sent again, wherever the host dies and whichever host reconciles:
\* clients see operations that are accepted once, change the project at most once and
\* one at a time, and are decided once. (State::handle, begin, replay, reconcile)
KeepsTheLedger == Ledger!Spec
=============================================================================
