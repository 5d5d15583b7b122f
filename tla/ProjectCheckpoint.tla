--------------------------- MODULE ProjectCheckpoint ---------------------------
(***************************************************************************)
(* The editing session of one project and its durable checkpoint: the      *)
(* revision with its bounded undo and redo history (providence-core,       *)
(* session.rs), the portable snapshot that holds the authored truth, and   *)
(* the local history that follows it in content-addressed blobs and SQLite *)
(* (providence-storage).  A checkpoint is several durable steps, and the   *)
(* process may die between any two of them.                                *)
(*                                                                         *)
(* A content stands for a normalized project snapshot, its digest and the  *)
(* project blobs it refers to: equal contents have equal bytes.            *)
(***************************************************************************)
EXTENDS Naturals, Sequences, FiniteSets, SequencesExt

CONSTANTS
    Contents,       \* the normalized snapshots a project may have
    Original,       \* the content the project is created with
    HistoryLimit,   \* SESSION_HISTORY_ENTRY_LIMIT (64 in the code)
    PruneInterval,  \* PROJECT_BLOB_PRUNE_INTERVAL (64 in the code)
    MaxRevision,    \* bound: no modelled command starts at this revision
    None            \* no stored session

ASSUME ContentsAssumption == Original \in Contents /\ None \notin Contents
ASSUME LimitsAssumption ==
    HistoryLimit \in Nat \ {0} /\ PruneInterval \in Nat \ {0} /\ MaxRevision \in Nat

VARIABLES
    \* on disk
    snapshot,      \* the portable snapshot
    projectBlobs,  \* contents whose project blobs are all present
    localBlobs,    \* local session blobs: history snapshots and session manifests
    stored,        \* session_state_blob: the session manifest in use, or None
    \* in the process
    up,            \* the project is open
    session,       \* the EditorSession
    method,        \* the command being checkpointed
    step,          \* how far its checkpoint has come
    manifest,      \* the manifest that checkpoint is about to record
    \* history
    acked,         \* the session last acknowledged
    attempt,       \* the session of the command in hand, or acked
    recorded       \* the last acknowledged session was recorded in SQLite

vars == <<snapshot, projectBlobs, localBlobs, stored, up, session, method, step,
          manifest, acked, attempt, recorded>>

History == Seq(Contents)
Session == [content : Contents, revision : Nat, undo : History, redo : History]
Manifest == [digest : Contents, revision : Nat, undo : History, redo : History]
ASSUME NoneAssumption == None \notin Session /\ None \notin Manifest

Methods == {"edit", "import", "history.undo", "history.redo", "project.save"}
Steps == {"idle", "changed", "stored", "written", "recorded", "pruned"}

TypeOK ==
    /\ snapshot \in Contents
    /\ projectBlobs \in SUBSET Contents
    /\ localBlobs \subseteq Contents \cup Manifest
    /\ stored \in Manifest \cup {None}
    /\ stored # None => Len(stored.undo) <= HistoryLimit /\ Len(stored.redo) <= HistoryLimit
    /\ up \in BOOLEAN
    /\ session \in Session
    /\ Len(session.undo) <= HistoryLimit
    /\ Len(session.redo) <= HistoryLimit
    /\ method \in Methods
    /\ step \in Steps
    /\ manifest \in Manifest \cup {None}
    /\ acked \in Session
    /\ attempt \in Session
    /\ recorded \in BOOLEAN

-----------------------------------------------------------------------------
(* Bounded history (push_history, trim_history, push_stored_history).        *)

Least(m, n) == IF m <= n THEN m ELSE n

\* The oldest entries go first.
Push(history, c) ==
    IF Len(history) < HistoryLimit THEN Append(history, c) ELSE Append(Tail(history), c)

Fresh(c) == [content |-> c, revision |-> 0, undo |-> <<>>, redo |-> <<>>]

-----------------------------------------------------------------------------
(* Session commands. *)

Idle == up /\ step = "idle"

Advance(m, next) ==
    /\ Idle
    /\ session.revision < MaxRevision
    /\ session' = [next EXCEPT !.revision = session.revision + 1]
    /\ method' = m
    /\ step' = "changed"
    /\ attempt' = session'
    /\ UNCHANGED <<snapshot, localBlobs, stored, up, manifest, acked, recorded>>

\* EditorSession::apply. The feature stores the blobs of what it authors first.
Edit(c) ==
    /\ Advance("edit", [session EXCEPT !.content = c,
                                       !.undo = Push(session.undo, session.content),
                                       !.redo = <<>>])
    /\ projectBlobs' = projectBlobs \cup {c}

\* commit_classic_scenario_import: a new baseline that cannot be undone.
Import(c) ==
    /\ Advance("import", [session EXCEPT !.content = c, !.undo = <<>>, !.redo = <<>>])
    /\ projectBlobs' = projectBlobs \cup {c}

Undo ==
    /\ session.undo # <<>>
    /\ Advance("history.undo",
               [session EXCEPT !.content = Last(session.undo),
                               !.undo = Front(session.undo),
                               !.redo = Push(session.redo, session.content)])
    /\ UNCHANGED projectBlobs

Redo ==
    /\ session.redo # <<>>
    /\ Advance("history.redo",
               [session EXCEPT !.content = Last(session.redo),
                               !.redo = Front(session.redo),
                               !.undo = Push(session.undo, session.content)])
    /\ UNCHANGED projectBlobs

-----------------------------------------------------------------------------
(* The stored session. *)

\* current_session_manifest
Readable == stored # None /\ stored \in localBlobs

ManifestOf(s) ==
    [digest |-> s.content, revision |-> s.revision, undo |-> s.undo, redo |-> s.redo]

\* The manifest's history blobs.
Entries(m) == Range(m.undo) \cup Range(m.redo)

\* reuse_durable_checkpoint: the durable state is verified to be the session's.
DurableAlready == Readable /\ stored = ManifestOf(session) /\ snapshot = stored.digest

\* project.save of anything else is a checkpoint at the same revision.
Save ==
    /\ Idle
    /\ ~DurableAlready
    /\ method' = "project.save"
    /\ step' = "changed"
    /\ UNCHANGED <<snapshot, projectBlobs, localBlobs, stored, up, session, manifest,
                   acked, attempt, recorded>>

\* Mutated form of Successive: whatever session is stored, it is extended.
SuccessiveUnchecked == Readable

\* The stored session is the one just before this command, and its snapshot is
\* still the portable one.
Successive ==
    /\ Readable
    /\ stored.revision + 1 = session.revision
    /\ snapshot = stored.digest

\* transfer_history_checkpoint and transition_matches, for lengths alone.
Transfers(from, to, nowFrom, nowTo) ==
    /\ from # <<>>
    /\ Len(nowFrom) = Len(from) - 1
    /\ Len(nowTo) = Least(Len(to) + 1, HistoryLimit)

\* Mutated form of Appends: any command that leaves nothing to redo is taken for an
\* edit, an import too.
AppendsUncounted == session.redo = <<>>

\* append_edit_checkpoint
Appends == Len(session.undo) = Least(Len(stored.undo) + 1, HistoryLimit) /\ session.redo = <<>>

\* store_incremental_session: the stored histories, moved on by one command; the
\* set is empty where it falls back to storing the whole session.
Incremental ==
    IF ~Successive THEN {}
    ELSE LET next(u, r) == {[digest |-> session.content, revision |-> session.revision,
                             undo |-> u, redo |-> r]}
         IN  CASE method = "history.undo" ->
                    IF Transfers(stored.undo, stored.redo, session.undo, session.redo)
                    THEN next(Front(stored.undo), Push(stored.redo, snapshot)) ELSE {}
               [] method = "history.redo" ->
                    IF Transfers(stored.redo, stored.undo, session.redo, session.undo)
                    THEN next(Push(stored.undo, snapshot), Front(stored.redo)) ELSE {}
               [] OTHER ->
                    IF Appends THEN next(Push(stored.undo, snapshot), <<>>) ELSE {}

-----------------------------------------------------------------------------
(* checkpoint_session, one durable step at a time. *)

MoveTo(next) == step' = next

\* validate_asset_blobs, validate_source_blobs: every blob of the snapshot is there.
\* Lengths verified earlier are reused only while the file exists.
PayloadsPresent == session.content \in projectBlobs

\* Manifests that nothing refers to are never read again; they stay on disk but
\* are left out of the model.
WithoutLostManifests == localBlobs \cap (Contents \cup {stored})

\* The history is stored as the replaced snapshot alone, or (store_segmented_session)
\* as every entry with its blobs.
StoreHistory ==
    /\ step = "changed"
    /\ PayloadsPresent
    /\ IF Incremental # {}
       THEN /\ manifest' \in Incremental
            /\ localBlobs' = WithoutLostManifests \cup {manifest', snapshot}
            /\ UNCHANGED projectBlobs
       ELSE /\ manifest' = ManifestOf(session)
            /\ localBlobs' = WithoutLostManifests \cup {manifest'} \cup Entries(manifest')
            /\ projectBlobs' = projectBlobs \cup Entries(manifest')
    /\ MoveTo("stored")
    /\ UNCHANGED <<snapshot, stored, up, session, method, acked, attempt, recorded>>

WriteSnapshot ==
    /\ step = "stored"
    /\ snapshot' = session.content
    /\ MoveTo("written")
    /\ UNCHANGED <<projectBlobs, localBlobs, stored, up, session, method, manifest,
                   acked, attempt, recorded>>

Acknowledge(isRecorded) ==
    /\ MoveTo("idle")
    /\ manifest' = None
    /\ acked' = session
    /\ attempt' = session
    /\ recorded' = isRecorded

\* update_session_infrastructure, one SQLite transaction.
RecordSession ==
    /\ step = "written"
    /\ stored' = manifest
    /\ MoveTo("recorded")
    /\ UNCHANGED <<snapshot, projectBlobs, localBlobs, up, session, method, manifest,
                   acked, attempt, recorded>>

\* When it fails, nothing is pruned and the reply only carries a warning.
RecordFails ==
    /\ step = "written"
    /\ Acknowledge(FALSE)
    /\ UNCHANGED <<snapshot, projectBlobs, localBlobs, stored, up, session, method>>

RetainedLocal == {manifest} \cup Entries(manifest)

PruneDue == session.revision % PruneInterval = 0

\* prune_local_session_blobs removes one file after another.  Removals that fail
\* only carry a warning; what they leave is garbage, modelled as none removed.
PruneLocal ==
    /\ step = "recorded"
    /\ \/ /\ localBlobs' = localBlobs \cap RetainedLocal
          /\ IF PruneDue
             THEN MoveTo("pruned") /\ UNCHANGED <<manifest, acked, attempt, recorded>>
             ELSE Acknowledge(TRUE)
       \/ UNCHANGED localBlobs /\ Acknowledge(TRUE)
    /\ UNCHANGED <<snapshot, projectBlobs, stored, up, session, method>>

\* retained_project_blob_ids
RetainedProject ==
    {session.content, snapshot} \cup Range(session.undo) \cup Range(session.redo)
        \cup Entries(manifest)

\* prune_project_blobs, every PruneInterval revisions.
PruneProject ==
    /\ step = "pruned"
    /\ projectBlobs' \in {projectBlobs, projectBlobs \cap RetainedProject}
    /\ Acknowledge(TRUE)
    /\ UNCHANGED <<snapshot, localBlobs, stored, up, session, method>>

-----------------------------------------------------------------------------
(* The process ends and the project is opened again. *)

Closed ==
    /\ up' = FALSE
    /\ session' = Fresh(snapshot)
    /\ method' = "edit"
    /\ step' = "idle"
    /\ manifest' = None

Crash ==
    /\ up
    /\ Closed
    /\ UNCHANGED <<snapshot, projectBlobs, localBlobs, stored, acked, attempt, recorded>>

\* checkpoint_project: the outcome is unknown and the client has to reopen.
Unacknowledged == Closed

\* A blob is missing or a file cannot be written before the snapshot is replaced.
CheckpointFails ==
    /\ step \in {"changed", "stored"}
    /\ Unacknowledged
    /\ UNCHANGED <<snapshot, projectBlobs, localBlobs, stored, acked, attempt, recorded>>

\* Mutated form of Loadable: the manifest's digest is not compared.
LoadableUnchecked ==
    Readable /\ Entries(stored) \subseteq localBlobs /\ Entries(stored) \subseteq projectBlobs

\* load_persisted_session
Loadable ==
    /\ Readable
    /\ stored.digest = snapshot
    /\ Len(stored.undo) <= HistoryLimit
    /\ Len(stored.redo) <= HistoryLimit
    /\ Entries(stored) \subseteq localBlobs
    /\ Entries(stored) \subseteq projectBlobs

Restored(m) == [content |-> snapshot, revision |-> m.revision, undo |-> m.undo, redo |-> m.redo]

\* open_session, restore_session: a stored session that cannot be loaded is
\* dropped, and the snapshot starts a session without history.
Open ==
    /\ ~up
    /\ snapshot \in projectBlobs
    /\ up' = TRUE
    /\ session' = IF Loadable THEN Restored(stored) ELSE Fresh(snapshot)
    /\ stored' = IF Loadable THEN stored ELSE None
    /\ acked' = session'
    /\ attempt' = session'
    /\ recorded' = Loadable
    /\ UNCHANGED <<snapshot, projectBlobs, localBlobs, method, step, manifest>>

-----------------------------------------------------------------------------
Init ==
    /\ snapshot = Original
    /\ projectBlobs = {Original}
    /\ localBlobs = {}
    /\ stored = None
    /\ up = FALSE
    /\ session = Fresh(Original)
    /\ method = "edit"
    /\ step = "idle"
    /\ manifest = None
    /\ acked = Fresh(Original)
    /\ attempt = Fresh(Original)
    /\ recorded = FALSE

Command ==
    \/ \E c \in Contents : Edit(c) \/ Import(c)
    \/ Undo
    \/ Redo
    \/ Save

Checkpoint ==
    \/ StoreHistory
    \/ WriteSnapshot
    \/ RecordSession
    \/ RecordFails
    \/ PruneLocal
    \/ PruneProject

Next == Command \/ Checkpoint \/ CheckpointFails \/ Crash \/ Open

Spec == Init /\ [][Next]_vars
-----------------------------------------------------------------------------
(* Invariants. *)

\* Whenever the process may die, the portable snapshot and every history entry of
\* the stored session still have all their blobs, however checkpoints, failed
\* checkpoints and both prunings follow each other.
RootsAreComplete ==
    /\ snapshot \in projectBlobs
    /\ stored # None => /\ stored \in localBlobs
                        /\ Entries(stored) \subseteq localBlobs
                        /\ Entries(stored) \subseteq projectBlobs

\* A live session can always be checkpointed: its own content and what it can undo
\* or redo to have their blobs.
SessionIsComplete ==
    up => {session.content} \cup Range(session.undo) \cup Range(session.redo)
              \subseteq projectBlobs

\* The stored histories, moved on by lengths alone, never drift from the live ones:
\* a manifest for the session's revision is the session's.
StoredFollowsSession ==
    (Idle /\ stored # None /\ stored.revision = session.revision)
        => stored = ManifestOf(session)

\* Between commands the portable snapshot is the session's content, even after
\* SQLite failed.
ServedContentIsDurable == Idle => snapshot = session.content

-----------------------------------------------------------------------------
(* Action properties. *)

\* Reopening shows what was acknowledged or the command in hand, never a mixture:
\* the content always, and with the last session recorded also its revision and
\* history, which only a command cut off between its two durable writes resets.
ReopenIsFaithful ==
    [][Open => /\ session'.content \in {acked.content, attempt.content}
               /\ recorded => \/ session' \in {acked, attempt}
                              \/ attempt # acked /\ session' = Fresh(attempt.content)]_vars

-----------------------------------------------------------------------------
(* The promise of the storage (DurableProject) and how this module keeps it: the   *)
(* snapshot is the durable content, the stored manifest the session kept beside it. *)

DurablePhase == IF ~up THEN "closed" ELSE IF step = "idle" THEN "open" ELSE "busy"

SessionOf(m) ==
    IF m = None THEN None
    ELSE [content |-> m.digest, revision |-> m.revision, undo |-> m.undo, redo |-> m.redo]

Durable == INSTANCE DurableProject WITH
    phase <- DurablePhase, durable <- snapshot, kept <- SessionOf(stored),
    session <- acked, pending <- attempt

\* Blobs, incremental manifests, both prunings and every crash between two durable
\* steps are invisible: clients see commands that take effect as a whole or not at
\* all, and a history that is kept as a whole. (checkpoint_session, open_session)
KeepsItsPromise == Durable!Spec
=============================================================================
