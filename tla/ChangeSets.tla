------------------------------- MODULE ChangeSets -------------------------------
(***************************************************************************)
(* Prepared change sets over the durable project (shared_host/changes.rs,  *)
(* session/authoring_stage.rs): a client has a group of steps worked out   *)
(* on a private copy of the session, reviews the result, and commits that  *)
(* stage later as one edit.  Between the two, other commands, the pruning  *)
(* of blobs, changes of the paint resources and restarts go on.            *)
(*                                                                         *)
(* The session, its checkpoint and the disk are those of ProjectCheckpoint *)
(* and every one of its actions may happen here too.                       *)
(***************************************************************************)
EXTENDS ProjectCheckpoint

CONSTANTS
    Plain,          \* contents whose blobs are all encoded anew by their checkpoint
    PreparedLimit,  \* stages kept (8 in the code)
    Collections,    \* what the project's paint resources may be
    NoPaint,        \* the collection of a new project
    MaxPaint        \* bound: changes of the paint resources

ASSUME ChangeSetAssumption ==
    /\ Plain \subseteq Contents
    /\ PreparedLimit \in Nat \ {0}
    /\ NoPaint \in Collections
    /\ MaxPaint \in Nat

VARIABLES
    prepared,  \* the stages, oldest first
    paint      \* the project's paint resources and their revision, one file on disk

setVars == <<vars, prepared, paint>>

Paint == [revision : 0..MaxPaint, collection : Collections]

\* A stage: the session it was begun from, what its steps made of it and, when one of
\* them places a saved stamp, the paint resources it was taken from. The code keeps
\* their revision only.
Stage == [base : Session, result : Contents, stamp : Paint \cup {None}]

ChangeSetsTypeOK ==
    /\ TypeOK
    /\ prepared \in Seq(Stage)
    /\ Len(prepared) <= PreparedLimit
    /\ paint \in Paint

-----------------------------------------------------------------------------
(* Preparing. *)

\* PreparedChanges keeps the newest previews.
Kept(stages) == IF Len(stages) > PreparedLimit THEN Tail(stages) ELSE stages

\* changes.prepare. The steps run on the stage and store their payloads right away,
\* also when a later step fails and the stage is discarded.
Prepare(c, stamp) ==
    /\ Idle
    /\ projectBlobs' = projectBlobs \cup {c}
    /\ prepared' \in {prepared,
                      Kept(Append(prepared, [base |-> session, result |-> c, stamp |-> stamp]))}
    /\ UNCHANGED <<snapshot, localBlobs, stored, up, session, method, step, manifest, acked,
                   attempt, recorded, paint>>

-----------------------------------------------------------------------------
(* Committing. *)

\* commit_authoring_stage compares revisions, and the instances of the session, of
\* which a cache never sees a second one; the guard of the host has already refused a
\* request that does not name the session's revision.
Current(stage) == stage.base.revision = session.revision

\* Mutated form of StampHolds: the paint resources may have changed.
StampUnchecked(stage) == stage \in Stage

StampHolds(stage) == stage.stamp # None => stage.stamp.revision = paint.revision

\* The stage is taken out of the cache before anything is checked.
Take(i) == prepared' = RemoveAt(prepared, i) /\ UNCHANGED paint

\* changes.commit of a stage that no longer fits, or places a stamp while the paint
\* resources cannot be read.
RefuseCommit(i) ==
    /\ Idle
    /\ ~(Current(prepared[i]) /\ StampHolds(prepared[i])) \/ prepared[i].stamp # None
    /\ Take(i)
    /\ UNCHANGED vars

\* The stage becomes one edit. Its payloads are not stored again.
CommitEdit(i) ==
    LET stage == prepared[i]
    IN  /\ Current(stage)
        /\ StampHolds(stage)
        /\ stage.result # session.content
        /\ Advance("edit", [session EXCEPT !.content = stage.result,
                                           !.undo = Push(session.undo, session.content),
                                           !.redo = <<>>])
        /\ projectBlobs' = projectBlobs \cup ({stage.result} \cap Plain)
        /\ Take(i)

\* A stage that changes nothing leaves revision and history alone, and still is
\* checkpointed, as a whole.
CommitUnchanged(i) ==
    /\ Idle
    /\ Current(prepared[i])
    /\ StampHolds(prepared[i])
    /\ prepared[i].result = session.content
    /\ Take(i)
    /\ method' = "edit"
    /\ step' = "changed"
    /\ UNCHANGED <<snapshot, projectBlobs, localBlobs, stored, up, session, manifest, acked,
                   attempt, recorded>>

Commit == \E i \in DOMAIN prepared : RefuseCommit(i) \/ CommitEdit(i) \/ CommitUnchanged(i)

-----------------------------------------------------------------------------
(* The rest of the host. *)

\* Mutated form of ChangePaint: a change that leaves the revision as it is.
PaintsOver(collection) ==
    /\ Idle
    /\ collection # paint.collection
    /\ paint' = [paint EXCEPT !.collection = collection]
    /\ UNCHANGED <<vars, prepared>>

\* change_paint_resources, on disk at once. What changes nothing is refused.
ChangePaint(collection) ==
    /\ Idle
    /\ collection # paint.collection
    /\ paint.revision < MaxPaint
    /\ paint' = [revision |-> paint.revision + 1, collection |-> collection]
    /\ UNCHANGED <<vars, prepared>>

\* Mutated form of AfterClosing: previews outlive the session they were made for.
PreviewsOutlive == prepared

\* The cache belongs to one live session generation.
AfterClosing == IF up' THEN prepared ELSE <<>>

Elsewhere ==
    /\ Next
    /\ prepared' = AfterClosing
    /\ UNCHANGED paint

ChangeSetsInit ==
    /\ Init
    /\ prepared = <<>>
    /\ paint = [revision |-> 0, collection |-> NoPaint]

ChangeSetsNext ==
    \/ \E c \in Contents, stamp \in {None, paint} : Prepare(c, stamp)
    \/ Commit
    \/ \E collection \in Collections : ChangePaint(collection)
    \/ Elsewhere

ChangeSetsSpec == ChangeSetsInit /\ [][ChangeSetsNext]_setVars
-----------------------------------------------------------------------------
(* Properties.  RootsAreComplete, ServedContentIsDurable and KeepsItsPromise of    *)
(* ProjectCheckpoint have to survive the composition: blobs of a stage are no       *)
(* root of any pruning, so a commit may find its payloads gone.                     *)

\* A commit changes the session only from the very session, history included, that
\* was previewed, although only revision numbers are compared and a reopened project
\* may count them from 0 again.
PreviewedIsCommitted ==
    [][\A i \in DOMAIN prepared :
          CommitEdit(i) \/ CommitUnchanged(i) =>
              /\ prepared[i].base = session
              /\ session'.content = prepared[i].result]_setVars

\* A stamp is placed only as the project has it when the stage is committed, although
\* only revisions are compared and none of the paint resources' commands touches the
\* session's: however the collection was changed, and changed back, since the preview.
StampIsCurrent ==
    [][\A i \in DOMAIN prepared :
          (CommitEdit(i) \/ CommitUnchanged(i)) /\ prepared[i].stamp # None =>
              prepared[i].stamp.collection = paint.collection]_setVars
=============================================================================
