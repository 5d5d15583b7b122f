------------------------ MODULE ProjectCheckpointProofs ------------------------
(***************************************************************************)
(* Proofs about ProjectCheckpoint and about the prepared change sets that  *)
(* ChangeSets adds to it, for every set of contents, every length of       *)
(* history and every pruning interval.                                     *)
(***************************************************************************)
EXTENDS ChangeSets, SequenceTheorems, TLAPS

USE ContentsAssumption, LimitsAssumption, NoneAssumption

-----------------------------------------------------------------------------
(* The bounded histories. *)

\* A history gains only what is pushed, and something is.
LEMMA PushGains ==
    ASSUME NEW h \in History, NEW c \in Contents
    PROVE  /\ Push(h, c) \in History
           /\ Push(h, c) # <<>>
           /\ Range(Push(h, c)) \subseteq Range(h) \cup {c}
<1>1. CASE Len(h) < HistoryLimit
  BY <1>1 DEF Push, History, Range
<1>2. CASE ~(Len(h) < HistoryLimit)
  <2>1. Len(h) \in Nat /\ Len(h) > 0
    BY <1>2 DEF History
  <2>2. Tail(h) \in History /\ Len(Tail(h)) = Len(h) - 1
    BY <2>1 DEF History
  <2>3. \A i \in 1..Len(Tail(h)) : Tail(h)[i] = h[i + 1] /\ i + 1 \in 1..Len(h)
    BY <2>1, <2>2 DEF History
  <2>4. Push(h, c) = Append(Tail(h), c)
    BY <1>2 DEF Push
  <2>5. Range(Append(Tail(h), c)) \subseteq Range(h) \cup {c}
    BY <2>2, <2>3 DEF Range, History
  <2> QED BY <2>2, <2>4, <2>5 DEF History
<1> QED BY <1>1, <1>2

\* A history within its limit keeps to it.
LEMMA PushKeepsBound ==
    ASSUME NEW h \in History, Len(h) <= HistoryLimit, NEW c \in Contents
    PROVE  /\ Len(Push(h, c)) = Least(Len(h) + 1, HistoryLimit)
           /\ Len(Push(h, c)) <= HistoryLimit
BY DEF Push, Least, History

\* What remains of a history, and its last entry, were in it.
LEMMA FrontAndLast ==
    ASSUME NEW h \in History, h # <<>>
    PROVE  /\ Front(h) \in History
           /\ Len(Front(h)) = Len(h) - 1
           /\ Range(Front(h)) \subseteq Range(h)
           /\ Last(h) \in Contents
           /\ Last(h) \in Range(h)
<1>1. Len(h) \in Nat /\ Len(h) > 0
  BY DEF History
<1>2. \A i \in 1..(Len(h) - 1) : h[i] \in Contents
  BY <1>1 DEF History
<1>3. /\ SubSeq(h, 1, Len(h) - 1) \in Seq(Contents)
      /\ Len(SubSeq(h, 1, Len(h) - 1)) = IF 1 <= Len(h) - 1 THEN Len(h) - 1 - 1 + 1 ELSE 0
      /\ \A i \in 1..(Len(h) - 1 - 1 + 1) : SubSeq(h, 1, Len(h) - 1)[i] = h[1 + i - 1]
  <2> Len(h) - 1 \in Int /\ 1 \in Int
    BY <1>1
  <2> HIDE DEF History
  <2> QED BY <1>2, SubSeqProperties
<1>4. Front(h) = SubSeq(h, 1, Len(h) - 1)
  BY DEF Front
<1>5. /\ Front(h) \in History
      /\ Len(Front(h)) = Len(h) - 1
      /\ \A i \in 1..Len(Front(h)) : Front(h)[i] = h[i] /\ i \in 1..Len(h)
  <2>1. Front(h) \in History
    BY <1>3, <1>4 DEF History
  <2>2. Len(Front(h)) = Len(h) - 1
    <3> DEFINE n == Len(h) - 1
               f == SubSeq(h, 1, n)
    <3>1. Len(f) = IF 1 <= n THEN n - 1 + 1 ELSE 0
      BY <1>3
    <3>2. n \in Nat
      BY <1>1
    <3>3. Front(h) = f
      BY <1>4
    <3> HIDE DEF n, f
    <3>4. Len(f) = n
      BY <3>1, <3>2
    <3> QED BY <3>3, <3>4 DEF n
  <2>3. ASSUME NEW i \in 1..(Len(h) - 1) PROVE Front(h)[i] = h[i] /\ i \in 1..Len(h)
    <3>1. i \in 1..(Len(h) - 1 - 1 + 1) /\ 1 + i - 1 = i /\ i \in 1..Len(h)
      BY <1>1
    <3> QED BY <1>3, <1>4, <3>1
  <2> QED BY <2>1, <2>2, <2>3
<1>6. Range(Front(h)) \subseteq Range(h)
  BY <1>5 DEF Range, History
<1>7. Last(h) \in Contents /\ Last(h) \in Range(h)
  BY <1>1 DEF Last, Range, History
<1> QED BY <1>5, <1>6, <1>7

\* A history holds contents.
LEMMA RangeOfHistory ==
    ASSUME NEW h \in History
    PROVE  Range(h) \subseteq Contents
BY DEF Range, History

LEMMA RangeOfEmpty == Range(<<>>) = {}
BY DEF Range

LEMMA EmptyHistory == <<>> \in History
BY DEF History

-----------------------------------------------------------------------------
(* The inductive invariant. *)

\* What a session needs in the project's blobs to be undone or redone.
HistoryOf(s) == Range(s.undo) \cup Range(s.redo)

\* A live session's history has its blobs, and so has its content, except that the
\* blobs of a prepared change set may be gone when it is committed; its checkpoint
\* is the first to look.
HistoryIsComplete ==
    up => /\ HistoryOf(session) \subseteq projectBlobs
          /\ step # "changed" => session.content \in projectBlobs

\* A checkpoint is in progress only of a live session.
Life ==
    /\ step # "idle" => up
    /\ up => attempt = session
    /\ up /\ step = "idle" => acked = session /\ snapshot = session.content

\* How far a checkpoint has come: the manifest is the session's, then the snapshot,
\* then the record.
Progress ==
    /\ step \in {"stored", "written", "recorded", "pruned"} =>
           /\ manifest = ManifestOf(session)
           /\ manifest \in localBlobs
           /\ Entries(manifest) \subseteq localBlobs
           /\ Entries(manifest) \subseteq projectBlobs
           /\ session.content \in projectBlobs
    /\ step \in {"written", "recorded", "pruned"} => snapshot = session.content
    /\ step \in {"recorded", "pruned"} => stored = manifest

\* How the session follows from a stored one that is one revision behind.
FollowsByEdit(s, m) == s.undo = Push(m.undo, m.digest) /\ s.redo = <<>>
FollowsByImport(s, m) == s.undo = <<>> /\ s.redo = <<>>
FollowsByUndo(s, m) ==
    m.undo # <<>> /\ s.undo = Front(m.undo) /\ s.redo = Push(m.redo, m.digest)
FollowsByRedo(s, m) ==
    m.redo # <<>> /\ s.undo = Push(m.undo, m.digest) /\ s.redo = Front(m.redo)

Follows(s, m) ==
    /\ FollowsByEdit(s, m) \/ FollowsByImport(s, m)
          \/ FollowsByUndo(s, m) \/ FollowsByRedo(s, m)
    /\ method = "history.undo" => FollowsByUndo(s, m)
    /\ method = "history.redo" => FollowsByRedo(s, m)

\* The stored session is never ahead, is the session at equal revisions, and one
\* command away at neighbouring ones.
Lineage ==
    up /\ stored # None =>
        /\ stored.revision <= session.revision
        /\ stored.revision = session.revision => stored = ManifestOf(session)
        /\ stored.revision + 1 = session.revision => Follows(session, stored)

IInv ==
    /\ TypeOK
    /\ RootsAreComplete
    /\ HistoryIsComplete
    /\ Life
    /\ Progress
    /\ Lineage

\* The manifest of a session is one.
LEMMA ManifestOfSession ==
    ASSUME NEW s \in Session
    PROVE  /\ ManifestOf(s) \in Manifest
           /\ ManifestOf(s).digest = s.content
           /\ ManifestOf(s).revision = s.revision
           /\ ManifestOf(s).undo = s.undo
           /\ ManifestOf(s).redo = s.redo
           /\ Entries(ManifestOf(s)) = Range(s.undo) \cup Range(s.redo)
BY DEF ManifestOf, Session, Manifest, Entries

\* The session that Advance makes of a well-formed one.
LEMMA AdvanceType ==
    ASSUME TypeOK, NEW m \in Methods, NEW next \in Session,
           Len(next.undo) <= HistoryLimit, Len(next.redo) <= HistoryLimit,
           Advance(m, next)
    PROVE  /\ session' \in Session
           /\ session'.content = next.content
           /\ session'.undo = next.undo
           /\ session'.redo = next.redo
           /\ session'.revision = session.revision + 1
           /\ attempt' = session'
           /\ method' = m
           /\ step' = "changed"
           /\ up /\ up' /\ step = "idle"
           /\ UNCHANGED <<snapshot, localBlobs, stored, up, manifest, acked, recorded>>
BY DEF Advance, TypeOK, Session, Idle

\* A command that makes next of the session keeps the invariant, when next is in
\* line with the session and its blobs are there.
LEMMA AdvanceKeepsIInv ==
    ASSUME IInv, NEW m \in Methods, NEW next \in Session,
           Len(next.undo) <= HistoryLimit, Len(next.redo) <= HistoryLimit,
           Advance(m, next),
           projectBlobs' \in SUBSET Contents,
           projectBlobs \subseteq projectBlobs',
           HistoryOf(next) \subseteq projectBlobs',
           \/ FollowsByEdit(next, ManifestOf(session))
           \/ FollowsByImport(next, ManifestOf(session))
           \/ FollowsByUndo(next, ManifestOf(session))
           \/ FollowsByRedo(next, ManifestOf(session)),
           m = "history.undo" => FollowsByUndo(next, ManifestOf(session)),
           m = "history.redo" => FollowsByRedo(next, ManifestOf(session))
    PROVE  IInv'
<1> USE DEF IInv
<1>1. /\ session' \in Session
      /\ session'.content = next.content
      /\ session'.undo = next.undo
      /\ session'.redo = next.redo
      /\ session'.revision = session.revision + 1
      /\ attempt' = session'
      /\ method' = m
      /\ step' = "changed"
      /\ up /\ up' /\ step = "idle"
      /\ UNCHANGED <<snapshot, localBlobs, stored, up, manifest, acked, recorded>>
  BY AdvanceType
<1>2. TypeOK'
  BY <1>1 DEF TypeOK, Steps
<1>3. RootsAreComplete'
  BY <1>1 DEF RootsAreComplete, Entries
<1>4. HistoryIsComplete'
  BY <1>1 DEF HistoryIsComplete, HistoryOf
<1>5. Life'
  BY <1>1 DEF Life
<1>6. Progress'
  BY <1>1 DEF Progress
<1>7. Lineage'
  <2> SUFFICES ASSUME stored # None
               PROVE  /\ stored.revision <= session'.revision
                      /\ stored.revision # session'.revision
                      /\ stored.revision + 1 = session'.revision => Follows(session, stored)'
    BY <1>1 DEF Lineage
  <2>1. stored.revision \in Nat /\ session.revision \in Nat
    BY DEF TypeOK, Manifest, Session
  <2>2. stored.revision <= session.revision
    BY <1>1 DEF Lineage
  <2>3. ASSUME stored.revision + 1 = session'.revision PROVE Follows(session, stored)'
    <3>1. stored = ManifestOf(session)
      BY <1>1, <2>1, <2>2, <2>3 DEF Lineage
    <3> QED BY <1>1, <3>1 DEF Follows, FollowsByEdit, FollowsByImport, FollowsByUndo,
                              FollowsByRedo
  <2> QED BY <1>1, <2>1, <2>2, <2>3
<1> QED BY <1>2, <1>3, <1>4, <1>5, <1>6, <1>7

-----------------------------------------------------------------------------
(* One lemma per action. *)

LEMMA EditStep ==
    ASSUME IInv, NEW c \in Contents, Edit(c)
    PROVE  IInv'
<1> DEFINE next == [session EXCEPT !.content = c,
                                   !.undo = Push(session.undo, session.content),
                                   !.redo = <<>>]
<1>1. session \in Session /\ Len(session.undo) <= HistoryLimit
  BY DEF IInv, TypeOK
<1>2. /\ Push(session.undo, session.content) \in History
      /\ Len(Push(session.undo, session.content)) <= HistoryLimit
      /\ Range(Push(session.undo, session.content))
            \subseteq Range(session.undo) \cup {session.content}
  BY <1>1, PushKeepsBound, PushGains DEF Session
<1>3. next \in Session /\ next.content = c /\ next.redo = <<>>
      /\ next.undo = Push(session.undo, session.content)
  BY <1>1, <1>2, EmptyHistory DEF Session
<1>4. /\ Advance("edit", next)
      /\ projectBlobs' = projectBlobs \cup {c}
      /\ up /\ step = "idle"
  BY DEF Edit, Advance, Idle
<1>5. projectBlobs' \in SUBSET Contents
  BY <1>4 DEF IInv, TypeOK
<1>6. HistoryOf(next) \subseteq projectBlobs'
  BY <1>2, <1>3, <1>4, RangeOfEmpty DEF HistoryOf, IInv, HistoryIsComplete
<1>7. FollowsByEdit(next, ManifestOf(session))
  BY <1>1, <1>3, ManifestOfSession DEF FollowsByEdit
<1>8. "edit" \in Methods /\ Len(next.redo) <= HistoryLimit /\ Len(next.undo) <= HistoryLimit
  BY <1>2, <1>3 DEF Methods
<1> HIDE DEF next
<1> QED BY <1>3, <1>4, <1>5, <1>6, <1>7, <1>8, AdvanceKeepsIInv

LEMMA ImportStep ==
    ASSUME IInv, NEW c \in Contents, Import(c)
    PROVE  IInv'
<1> DEFINE next == [session EXCEPT !.content = c, !.undo = <<>>, !.redo = <<>>]
<1>1. session \in Session
  BY DEF IInv, TypeOK
<1>2. next \in Session /\ next.content = c /\ next.redo = <<>> /\ next.undo = <<>>
  BY <1>1, EmptyHistory DEF Session
<1>3. /\ Advance("import", next)
      /\ projectBlobs' = projectBlobs \cup {c}
  BY DEF Import
<1>4. projectBlobs' \in SUBSET Contents
  BY <1>3 DEF IInv, TypeOK
<1>5. HistoryOf(next) \subseteq projectBlobs'
  BY <1>2, <1>3, RangeOfEmpty DEF HistoryOf
<1>6. FollowsByImport(next, ManifestOf(session))
  BY <1>2 DEF FollowsByImport
<1>7. "import" \in Methods /\ Len(next.redo) <= HistoryLimit /\ Len(next.undo) <= HistoryLimit
  BY <1>2 DEF Methods
<1> HIDE DEF next
<1> QED BY <1>2, <1>3, <1>4, <1>5, <1>6, <1>7, AdvanceKeepsIInv

LEMMA UndoStep ==
    ASSUME IInv, Undo
    PROVE  IInv'
<1> DEFINE next == [session EXCEPT !.content = Last(session.undo),
                                   !.undo = Front(session.undo),
                                   !.redo = Push(session.redo, session.content)]
<1>1. /\ session \in Session
      /\ Len(session.undo) <= HistoryLimit /\ Len(session.redo) <= HistoryLimit
      /\ session.undo # <<>>
  BY DEF IInv, TypeOK, Undo
<1>2. /\ session.undo \in History /\ session.redo \in History /\ session.content \in Contents
      /\ Len(session.undo) \in Nat
  BY <1>1 DEF Session, History
<1>3. /\ Push(session.redo, session.content) \in History
      /\ Len(Push(session.redo, session.content)) <= HistoryLimit
      /\ Range(Push(session.redo, session.content))
            \subseteq Range(session.redo) \cup {session.content}
  BY <1>1, <1>2, PushKeepsBound, PushGains
<1>4. /\ Front(session.undo) \in History
      /\ Len(Front(session.undo)) = Len(session.undo) - 1
      /\ Range(Front(session.undo)) \subseteq Range(session.undo)
      /\ Last(session.undo) \in Contents
      /\ Last(session.undo) \in Range(session.undo)
  BY <1>1, <1>2, FrontAndLast
<1>5. /\ next \in Session
      /\ next.content = Last(session.undo)
      /\ next.undo = Front(session.undo)
      /\ next.redo = Push(session.redo, session.content)
  BY <1>1, <1>3, <1>4 DEF Session
<1>6. Advance("history.undo", next) /\ projectBlobs' = projectBlobs /\ up /\ step = "idle"
  BY DEF Undo, Advance, Idle
<1>7. projectBlobs' \in SUBSET Contents
  BY <1>6 DEF IInv, TypeOK
<1>8. HistoryOf(next) \subseteq projectBlobs'
  BY <1>3, <1>4, <1>5, <1>6 DEF HistoryOf, IInv, HistoryIsComplete
<1>9. FollowsByUndo(next, ManifestOf(session))
  BY <1>1, <1>5, ManifestOfSession DEF FollowsByUndo
<1>10. /\ "history.undo" \in Methods
       /\ Len(next.redo) <= HistoryLimit /\ Len(next.undo) <= HistoryLimit
  BY <1>1, <1>2, <1>3, <1>4, <1>5 DEF Methods
<1> HIDE DEF next
<1> QED BY <1>5, <1>6, <1>7, <1>8, <1>9, <1>10, AdvanceKeepsIInv

LEMMA RedoStep ==
    ASSUME IInv, Redo
    PROVE  IInv'
<1> DEFINE next == [session EXCEPT !.content = Last(session.redo),
                                   !.redo = Front(session.redo),
                                   !.undo = Push(session.undo, session.content)]
<1>1. /\ session \in Session
      /\ Len(session.undo) <= HistoryLimit /\ Len(session.redo) <= HistoryLimit
      /\ session.redo # <<>>
  BY DEF IInv, TypeOK, Redo
<1>2. /\ session.undo \in History /\ session.redo \in History /\ session.content \in Contents
      /\ Len(session.redo) \in Nat
  BY <1>1 DEF Session, History
<1>3. /\ Push(session.undo, session.content) \in History
      /\ Len(Push(session.undo, session.content)) <= HistoryLimit
      /\ Range(Push(session.undo, session.content))
            \subseteq Range(session.undo) \cup {session.content}
  BY <1>1, <1>2, PushKeepsBound, PushGains
<1>4. /\ Front(session.redo) \in History
      /\ Len(Front(session.redo)) = Len(session.redo) - 1
      /\ Range(Front(session.redo)) \subseteq Range(session.redo)
      /\ Last(session.redo) \in Contents
      /\ Last(session.redo) \in Range(session.redo)
  BY <1>1, <1>2, FrontAndLast
<1>5. /\ next \in Session
      /\ next.content = Last(session.redo)
      /\ next.redo = Front(session.redo)
      /\ next.undo = Push(session.undo, session.content)
  BY <1>1, <1>3, <1>4 DEF Session
<1>6. Advance("history.redo", next) /\ projectBlobs' = projectBlobs /\ up /\ step = "idle"
  BY DEF Redo, Advance, Idle
<1>7. projectBlobs' \in SUBSET Contents
  BY <1>6 DEF IInv, TypeOK
<1>8. HistoryOf(next) \subseteq projectBlobs'
  BY <1>3, <1>4, <1>5, <1>6 DEF HistoryOf, IInv, HistoryIsComplete
<1>9. FollowsByRedo(next, ManifestOf(session))
  BY <1>1, <1>5, ManifestOfSession DEF FollowsByRedo
<1>10. /\ "history.redo" \in Methods
       /\ Len(next.redo) <= HistoryLimit /\ Len(next.undo) <= HistoryLimit
  BY <1>1, <1>2, <1>3, <1>4, <1>5 DEF Methods
<1> HIDE DEF next
<1> QED BY <1>5, <1>6, <1>7, <1>8, <1>9, <1>10, AdvanceKeepsIInv

LEMMA SaveStep ==
    ASSUME IInv, Save
    PROVE  IInv'
<1> USE DEF IInv
<1>1. /\ up /\ step = "idle" /\ step' = "changed" /\ method' = "project.save"
      /\ UNCHANGED <<snapshot, projectBlobs, localBlobs, stored, up, session, manifest,
                     acked, attempt, recorded>>
  BY DEF Save, Idle
<1>2. TypeOK'
  BY <1>1 DEF TypeOK, Steps, Methods
<1>3. RootsAreComplete' /\ HistoryIsComplete'
  BY <1>1 DEF RootsAreComplete, HistoryIsComplete, HistoryOf, Entries
<1>4. Life' /\ Progress'
  BY <1>1 DEF Life, Progress
<1>5. Lineage'
  BY <1>1 DEF Lineage, Follows, ManifestOf, FollowsByEdit, FollowsByImport, FollowsByUndo,
              FollowsByRedo
<1> QED BY <1>2, <1>3, <1>4, <1>5

\* Where the stored session is only moved on, the result is the session's manifest:
\* store_incremental_session compares lengths alone, which is enough because no other
\* command leads to a session of these lengths.
LEMMA IncrementalIsExact ==
    ASSUME IInv, step = "changed", NEW m \in Incremental
    PROVE  m = ManifestOf(session)
<1> USE DEF IInv
<1>1. /\ session \in Session /\ stored \in Manifest \cup {None} /\ up
      /\ Len(session.undo) <= HistoryLimit /\ Len(session.redo) <= HistoryLimit
  BY DEF TypeOK, Life
<1>2. Successive
  BY DEF Incremental
<1>3. /\ stored # None /\ stored \in Manifest
      /\ stored.revision + 1 = session.revision
      /\ snapshot = stored.digest
      /\ Follows(session, stored)
  BY <1>1, <1>2 DEF Successive, Readable, Lineage
<1>4. /\ stored.undo \in History /\ stored.redo \in History /\ stored.digest \in Contents
      /\ session.undo \in History /\ session.redo \in History
  BY <1>1, <1>3 DEF Manifest, Session
<1>5. CASE method = "history.undo"
  BY <1>2, <1>3, <1>5 DEF Incremental, Follows, FollowsByUndo, ManifestOf
<1>6. CASE method = "history.redo"
  BY <1>2, <1>3, <1>6 DEF Incremental, Follows, FollowsByRedo, ManifestOf
<1>7. CASE method \notin {"history.undo", "history.redo"}
  <2>1. /\ Appends
        /\ m = [digest |-> session.content, revision |-> session.revision,
                undo |-> Push(stored.undo, snapshot), redo |-> <<>>]
    BY <1>2, <1>7 DEF Incremental
  <2>2. session.undo = Push(stored.undo, stored.digest)
    <3>1. ~FollowsByImport(session, stored)
      <4>1. Len(session.undo) = Least(Len(stored.undo) + 1, HistoryLimit)
        BY <2>1 DEF Appends
      <4>2. Len(stored.undo) \in Nat
        BY <1>4 DEF History
      <4>3. Least(Len(stored.undo) + 1, HistoryLimit) > 0
        BY <4>2 DEF Least
      <4>4. Len(<<>>) = 0
        OBVIOUS
      <4> QED BY <4>1, <4>3, <4>4 DEF FollowsByImport
    <3>2. ~FollowsByUndo(session, stored)
      <4>1. Push(stored.redo, stored.digest) # <<>>
        BY <1>4, PushGains
      <4> QED BY <2>1, <4>1 DEF Appends, FollowsByUndo
    <3> QED BY <1>3, <3>1, <3>2 DEF Follows, FollowsByEdit, FollowsByRedo
  <2> QED BY <1>3, <2>1, <2>2 DEF ManifestOf, Appends
<1> QED BY <1>5, <1>6, <1>7

LEMMA StoreHistoryStep ==
    ASSUME IInv, StoreHistory
    PROVE  IInv'
<1> USE DEF IInv
<1>1. /\ step = "changed" /\ step' = "stored" /\ up
      /\ session.content \in projectBlobs
      /\ UNCHANGED <<snapshot, stored, up, session, method, acked, attempt, recorded>>
  BY DEF StoreHistory, PayloadsPresent, MoveTo, Life
<1>2. session \in Session /\ stored \in Manifest \cup {None} /\ snapshot \in Contents
  BY DEF TypeOK
<1>3. /\ ManifestOf(session) \in Manifest
      /\ Entries(ManifestOf(session)) = Range(session.undo) \cup Range(session.redo)
      /\ Entries(ManifestOf(session)) \subseteq Contents
  BY <1>2, ManifestOfSession, RangeOfHistory DEF Session
<1>4. Entries(ManifestOf(session)) \subseteq projectBlobs
  BY <1>1, <1>3 DEF HistoryIsComplete, HistoryOf
<1>5. /\ manifest' = ManifestOf(session)
      /\ manifest' \in localBlobs'
      /\ Entries(manifest') \subseteq localBlobs'
      /\ localBlobs \cap (Contents \cup {stored}) \subseteq localBlobs'
      /\ localBlobs' \subseteq Contents \cup Manifest
      /\ projectBlobs \subseteq projectBlobs'
      /\ projectBlobs' \subseteq Contents
  <2>1. CASE Incremental # {}
    <3>1. /\ manifest' \in Incremental
          /\ localBlobs' = WithoutLostManifests \cup {manifest', snapshot}
          /\ projectBlobs' = projectBlobs
      BY <2>1 DEF StoreHistory
    <3>2. manifest' = ManifestOf(session)
      BY <1>1, <3>1, IncrementalIsExact
    <3>3. Successive /\ stored # None /\ stored \in Manifest /\ snapshot = stored.digest
      BY <1>2, <2>1 DEF Incremental, Successive, Readable
    <3>4. Entries(manifest') \subseteq Entries(stored) \cup {snapshot}
      <4>1. Follows(session, stored)
        BY <1>1, <1>2, <3>3 DEF Lineage, Successive
      <4>2. /\ stored.undo \in History /\ stored.redo \in History
            /\ stored.digest \in Contents
        BY <3>3 DEF Manifest
      <4>3. Entries(manifest') = Range(session.undo) \cup Range(session.redo)
        BY <1>3, <3>2
      <4> HIDE DEF History
      <4>4. CASE FollowsByEdit(session, stored)
        BY <3>3, <4>2, <4>3, <4>4, PushGains, RangeOfEmpty DEF FollowsByEdit, Entries
      <4>5. CASE FollowsByImport(session, stored)
        BY <4>3, <4>5, RangeOfEmpty DEF FollowsByImport
      <4>6. CASE FollowsByUndo(session, stored)
        BY <3>3, <4>2, <4>3, <4>6, PushGains, FrontAndLast DEF FollowsByUndo, Entries
      <4>7. CASE FollowsByRedo(session, stored)
        BY <3>3, <4>2, <4>3, <4>7, PushGains, FrontAndLast DEF FollowsByRedo, Entries
      <4> QED BY <4>1, <4>4, <4>5, <4>6, <4>7 DEF Follows
    <3>5. Entries(stored) \subseteq localBlobs /\ Entries(stored) \subseteq Contents
      BY <3>3, RangeOfHistory DEF RootsAreComplete, Entries, Manifest
    <3>6. localBlobs \subseteq Contents \cup Manifest /\ projectBlobs \subseteq Contents
      BY DEF TypeOK
    <3> QED BY <1>2, <1>3, <3>1, <3>2, <3>4, <3>5, <3>6 DEF WithoutLostManifests
  <2>2. CASE Incremental = {}
    BY <1>1, <1>2, <1>3, <1>4, <2>2 DEF StoreHistory, WithoutLostManifests, TypeOK
  <2> QED BY <2>1, <2>2
<1>6. TypeOK'
  BY <1>1, <1>3, <1>5 DEF TypeOK, Steps
<1>7. RootsAreComplete'
  <2> SUFFICES ASSUME stored # None
               PROVE  /\ stored \in localBlobs'
                      /\ Entries(stored) \subseteq localBlobs'
                      /\ Entries(stored) \subseteq projectBlobs'
    BY <1>1, <1>5 DEF RootsAreComplete, Entries
  <2>1. Entries(stored) \subseteq Contents
    BY <1>2, RangeOfHistory DEF Entries, Manifest
  <2> QED BY <1>5, <2>1 DEF RootsAreComplete
<1>8. HistoryIsComplete'
  BY <1>1, <1>5 DEF HistoryIsComplete, HistoryOf
<1>9. Life'
  BY <1>1 DEF Life
<1>10. Progress'
  BY <1>1, <1>3, <1>4, <1>5 DEF Progress, ManifestOf
<1>11. Lineage'
  BY <1>1 DEF Lineage, Follows, ManifestOf, FollowsByEdit, FollowsByImport, FollowsByUndo,
              FollowsByRedo
<1> QED BY <1>6, <1>7, <1>8, <1>9, <1>10, <1>11

\* The snapshot is replaced by the session's content, whose blobs are there.
LEMMA WriteSnapshotStep ==
    ASSUME IInv, WriteSnapshot
    PROVE  IInv'
<1> USE DEF IInv
<1>1. /\ step = "stored" /\ step' = "written" /\ snapshot' = session.content /\ up
      /\ UNCHANGED <<projectBlobs, localBlobs, stored, up, session, method, manifest,
                     acked, attempt, recorded>>
  BY DEF WriteSnapshot, MoveTo, Life
<1>2. TypeOK'
  BY <1>1 DEF TypeOK, Steps, Session
<1>3. RootsAreComplete' /\ HistoryIsComplete'
  BY <1>1 DEF RootsAreComplete, HistoryIsComplete, HistoryOf, Entries, Progress
<1>4. Life' /\ Progress'
  BY <1>1 DEF Life, Progress, Entries, ManifestOf
<1>5. Lineage'
  BY <1>1 DEF Lineage, Follows, ManifestOf, FollowsByEdit, FollowsByImport, FollowsByUndo,
              FollowsByRedo
<1> QED BY <1>2, <1>3, <1>4, <1>5

LEMMA RecordSessionStep ==
    ASSUME IInv, RecordSession
    PROVE  IInv'
<1> USE DEF IInv
<1>1. /\ step = "written" /\ step' = "recorded" /\ stored' = manifest /\ up
      /\ UNCHANGED <<snapshot, projectBlobs, localBlobs, up, session, method, manifest,
                     acked, attempt, recorded>>
  BY DEF RecordSession, MoveTo, Life
<1>2. manifest = ManifestOf(session) /\ session \in Session
  BY <1>1 DEF Progress, TypeOK
<1>3. /\ manifest \in Manifest /\ manifest.revision = session.revision
      /\ session.revision \in Nat
      /\ manifest.undo = session.undo /\ manifest.redo = session.redo
  BY <1>2, ManifestOfSession DEF Session
<1>4. TypeOK'
  BY <1>1, <1>3 DEF TypeOK, Steps
<1>5. RootsAreComplete' /\ HistoryIsComplete'
  BY <1>1 DEF RootsAreComplete, HistoryIsComplete, HistoryOf, Entries, Progress
<1>6. Life' /\ Progress'
  BY <1>1 DEF Life, Progress, Entries, ManifestOf
<1>7. Lineage'
  BY <1>1, <1>2, <1>3 DEF Lineage, ManifestOf
<1> QED BY <1>4, <1>5, <1>6, <1>7

\* An acknowledged checkpoint, when the blobs that are removed are none that a
\* stored or live session needs.
LEMMA AcknowledgeKeepsIInv ==
    ASSUME IInv, step \in {"written", "recorded", "pruned"},
           NEW isRecorded \in BOOLEAN, Acknowledge(isRecorded),
           UNCHANGED <<snapshot, stored, up, session, method>>,
           localBlobs' \subseteq localBlobs, projectBlobs' \subseteq projectBlobs,
           RootsAreComplete', HistoryIsComplete'
    PROVE  IInv'
<1> USE DEF IInv
<1>1. /\ step' = "idle" /\ manifest' = None /\ acked' = session /\ attempt' = session
      /\ recorded' = isRecorded /\ up /\ snapshot = session.content
  BY DEF Acknowledge, MoveTo, Life, Progress
<1>2. TypeOK'
  BY <1>1 DEF TypeOK, Steps
<1>3. Life' /\ Progress'
  BY <1>1 DEF Life, Progress
<1>4. Lineage'
  BY <1>1 DEF Lineage, Follows, ManifestOf, FollowsByEdit, FollowsByImport, FollowsByUndo,
              FollowsByRedo
<1> QED BY <1>2, <1>3, <1>4

LEMMA RecordFailsStep ==
    ASSUME IInv, RecordFails
    PROVE  IInv'
<1>1. /\ step = "written" /\ Acknowledge(FALSE)
      /\ UNCHANGED <<snapshot, projectBlobs, localBlobs, stored, up, session, method>>
  BY DEF RecordFails
<1>2. RootsAreComplete' /\ HistoryIsComplete'
  BY <1>1 DEF IInv, RootsAreComplete, HistoryIsComplete, HistoryOf, Entries
<1> QED BY <1>1, <1>2, AcknowledgeKeepsIInv

\* What prune_local_session_blobs keeps is what the record, and only it, refers to.
LEMMA PruneLocalStep ==
    ASSUME IInv, PruneLocal
    PROVE  IInv'
<1> USE DEF IInv
<1>1. /\ step = "recorded" /\ up /\ stored = manifest
      /\ localBlobs' \in {localBlobs \cap RetainedLocal, localBlobs}
      /\ UNCHANGED <<snapshot, projectBlobs, stored, up, session, method>>
  BY DEF PruneLocal, Life, Progress
<1>2. RootsAreComplete' /\ HistoryIsComplete'
  BY <1>1 DEF RootsAreComplete, HistoryIsComplete, HistoryOf, Entries, RetainedLocal, Progress
<1>3. CASE Acknowledge(TRUE)
  BY <1>1, <1>2, <1>3, AcknowledgeKeepsIInv
<1>4. CASE step' = "pruned" /\ UNCHANGED <<manifest, acked, attempt, recorded>>
  <2>1. TypeOK'
    BY <1>1, <1>4 DEF TypeOK, Steps
  <2>2. Life'
    BY <1>1, <1>4 DEF Life
  <2>3. Progress'
    BY <1>1, <1>4 DEF Progress, Entries, ManifestOf, RetainedLocal
  <2>4. Lineage'
    BY <1>1, <1>4 DEF Lineage, Follows, ManifestOf, FollowsByEdit, FollowsByImport,
                      FollowsByUndo, FollowsByRedo
  <2> QED BY <1>2, <2>1, <2>2, <2>3, <2>4
<1> QED BY <1>3, <1>4 DEF PruneLocal, MoveTo

LEMMA PruneProjectStep ==
    ASSUME IInv, PruneProject
    PROVE  IInv'
<1> USE DEF IInv
<1>1. /\ step = "pruned" /\ up /\ stored = manifest /\ Acknowledge(TRUE)
      /\ projectBlobs' \in {projectBlobs, projectBlobs \cap RetainedProject}
      /\ UNCHANGED <<snapshot, localBlobs, stored, up, session, method>>
  BY DEF PruneProject, Life, Progress
<1>2. RootsAreComplete' /\ HistoryIsComplete'
  BY <1>1 DEF RootsAreComplete, HistoryIsComplete, HistoryOf, Entries, RetainedProject, Progress
<1> QED BY <1>1, <1>2, AcknowledgeKeepsIInv

\* The session without history that a snapshot starts.
LEMMA FreshSession ==
    ASSUME NEW c \in Contents
    PROVE  /\ Fresh(c) \in Session
           /\ Fresh(c).content = c
           /\ Fresh(c).undo = <<>> /\ Fresh(c).redo = <<>>
           /\ Len(Fresh(c).undo) <= HistoryLimit /\ Len(Fresh(c).redo) <= HistoryLimit
<1> HIDE DEF History
<1>1. Fresh(c) \in Session
  BY EmptyHistory DEF Fresh, Session
<1>2. Len(<<>>) <= HistoryLimit
  OBVIOUS
<1> QED BY <1>1, <1>2 DEF Fresh

\* Neither a crash nor an unknown outcome touches the disk.
LEMMA ClosedStep ==
    ASSUME IInv, Closed,
           UNCHANGED <<snapshot, projectBlobs, localBlobs, stored, acked, attempt, recorded>>
    PROVE  IInv'
<1> USE DEF IInv
<1>1. TypeOK'
  BY FreshSession DEF Closed, TypeOK, Methods, Steps
<1>2. RootsAreComplete' /\ HistoryIsComplete'
  BY DEF Closed, RootsAreComplete, HistoryIsComplete, HistoryOf, Entries
<1>3. Life' /\ Progress' /\ Lineage'
  BY DEF Closed, Life, Progress, Lineage
<1> QED BY <1>1, <1>2, <1>3

LEMMA OpenStep ==
    ASSUME IInv, Open
    PROVE  IInv'
<1> USE DEF IInv
<1>1. /\ ~up /\ up' /\ snapshot \in projectBlobs
      /\ acked' = session' /\ attempt' = session' /\ recorded' = Loadable
      /\ UNCHANGED <<snapshot, projectBlobs, localBlobs, method, step, manifest>>
      /\ step = "idle"
  BY DEF Open, Life
<1>2. CASE Loadable
  <2>1. /\ stored' = stored /\ stored # None /\ stored \in Manifest
        /\ stored.digest = snapshot
        /\ Len(stored.undo) <= HistoryLimit /\ Len(stored.redo) <= HistoryLimit
        /\ session' = Restored(stored)
    BY <1>2 DEF Open, Loadable, Readable, TypeOK
  <2>2. /\ session' \in Session /\ session'.undo = stored.undo /\ session'.redo = stored.redo
        /\ session'.content = snapshot /\ session'.revision = stored.revision
        /\ session'.revision \in Nat
    BY <2>1 DEF Restored, Session, Manifest, TypeOK
  <2>3. TypeOK'
    BY <1>1, <1>2, <2>1, <2>2 DEF TypeOK
  <2>4. RootsAreComplete' /\ HistoryIsComplete'
    BY <1>1, <2>1, <2>2 DEF RootsAreComplete, HistoryIsComplete, HistoryOf, Entries
  <2>5. Life' /\ Progress'
    BY <1>1, <2>2 DEF Life, Progress
  <2>6. stored = ManifestOf(session')
    BY <2>1, <2>2 DEF ManifestOf, Manifest
  <2>7. Lineage'
    BY <1>1, <2>1, <2>2, <2>6 DEF Lineage, ManifestOf
  <2> QED BY <2>3, <2>4, <2>5, <2>7
<1>3. CASE ~Loadable
  <2>1. stored' = None /\ session' = Fresh(snapshot)
    BY <1>3 DEF Open
  <2>2. /\ session' \in Session /\ session'.undo = <<>> /\ session'.redo = <<>>
        /\ session'.content = snapshot
        /\ Len(session'.undo) <= HistoryLimit /\ Len(session'.redo) <= HistoryLimit
    BY <2>1, FreshSession DEF TypeOK
  <2>3. TypeOK'
    <3>1. recorded' \in BOOLEAN
      BY <1>1 DEF Loadable
    <3>2. manifest' \in Manifest \cup {None} /\ localBlobs' \subseteq Contents \cup Manifest
      BY <1>1 DEF TypeOK
    <3> HIDE DEF History, Session
    <3> QED BY <1>1, <2>1, <2>2, <3>1, <3>2 DEF TypeOK
  <2>4. RootsAreComplete' /\ HistoryIsComplete'
    BY <1>1, <2>1, <2>2, RangeOfEmpty DEF RootsAreComplete, HistoryIsComplete, HistoryOf
  <2>5. Life' /\ Progress' /\ Lineage'
    BY <1>1, <2>1, <2>2 DEF Life, Progress, Lineage
  <2> QED BY <2>3, <2>4, <2>5
<1> QED BY <1>2, <1>3

LEMMA InitIInv == Init => IInv
<1> SUFFICES ASSUME Init PROVE IInv
  OBVIOUS
<1>1. Original \in Contents
  OBVIOUS
<1>2. TypeOK
  BY <1>1, FreshSession DEF Init, TypeOK, Methods, Steps
<1>3. RootsAreComplete /\ HistoryIsComplete /\ Life /\ Progress /\ Lineage
  BY DEF Init, RootsAreComplete, HistoryIsComplete, HistoryOf, Life, Progress, Lineage
<1> QED BY <1>2, <1>3 DEF IInv

LEMMA StepIInv == IInv /\ [Next]_vars => IInv'
<1> SUFFICES ASSUME IInv, [Next]_vars PROVE IInv'
  OBVIOUS
<1>1. ASSUME NEW c \in Contents, Edit(c) PROVE IInv'
  BY <1>1, EditStep
<1>2. ASSUME NEW c \in Contents, Import(c) PROVE IInv'
  BY <1>2, ImportStep
<1>3. CASE Undo
  BY <1>3, UndoStep
<1>4. CASE Redo
  BY <1>4, RedoStep
<1>5. CASE Save
  BY <1>5, SaveStep
<1>6. CASE StoreHistory
  BY <1>6, StoreHistoryStep
<1>7. CASE WriteSnapshot
  BY <1>7, WriteSnapshotStep
<1>8. CASE RecordSession
  BY <1>8, RecordSessionStep
<1>9. CASE RecordFails
  BY <1>9, RecordFailsStep
<1>10. CASE PruneLocal
  BY <1>10, PruneLocalStep
<1>11. CASE PruneProject
  BY <1>11, PruneProjectStep
<1>12. CASE CheckpointFails
  BY <1>12, ClosedStep DEF CheckpointFails, Unacknowledged
<1>13. CASE Crash
  BY <1>13, ClosedStep DEF Crash
<1>14. CASE Open
  BY <1>14, OpenStep
<1>15. CASE UNCHANGED vars
  BY <1>15 DEF vars, IInv, TypeOK, RootsAreComplete, HistoryIsComplete, HistoryOf, Life,
               Progress, Lineage, Entries, Follows, ManifestOf, FollowsByEdit,
               FollowsByImport, FollowsByUndo, FollowsByRedo
<1> QED BY <1>1, <1>2, <1>3, <1>4, <1>5, <1>6, <1>7, <1>8, <1>9, <1>10, <1>11, <1>12, <1>13,
           <1>14, <1>15 DEF Next, Command, Checkpoint

\* The invariant holds in every reachable state.
LEMMA Invariance == Spec => []IInv
BY InitIInv, StepIInv, PTL DEF Spec

-----------------------------------------------------------------------------
(* The invariants that the runs check. *)

\* The variables keep their types, and the histories, live and stored, their limit.
THEOREM TypeCorrect == Spec => []TypeOK
<1>1. IInv => TypeOK
  BY DEF IInv
<1> QED BY <1>1, Invariance, PTL

\* The portable snapshot and the stored session can always be read back, wherever a
\* checkpoint, a failed checkpoint or a pruning is cut off.
THEOREM RootsStayComplete == Spec => []RootsAreComplete
<1>1. IInv => RootsAreComplete
  BY DEF IInv
<1> QED BY <1>1, Invariance, PTL

\* What the session shows, and what it can undo or redo to, has its blobs.
THEOREM SessionStaysComplete == Spec => []SessionIsComplete
<1>1. Init => SessionIsComplete
  BY DEF Init, SessionIsComplete
<1>2. IInv /\ IInv' /\ SessionIsComplete /\ [Next]_vars => SessionIsComplete'
  <2> SUFFICES ASSUME IInv, IInv', SessionIsComplete, [Next]_vars, up', step' = "changed"
               PROVE  session'.content \in projectBlobs'
    BY DEF IInv, HistoryIsComplete, HistoryOf, SessionIsComplete
  <2>s. session \in Session
    BY DEF IInv, TypeOK
  <2>1. ASSUME NEW c \in Contents, Edit(c) \/ Import(c) PROVE session'.content \in projectBlobs'
    BY <2>1, <2>s DEF Edit, Import, Advance, Session
  <2>2. CASE Undo
    <3>1. Last(session.undo) \in projectBlobs
      BY <2>2, <2>s, FrontAndLast DEF Undo, Advance, Idle, IInv, HistoryIsComplete, HistoryOf,
                                      Session
    <3> QED BY <2>2, <2>s, <3>1 DEF Undo, Advance, Session
  <2>3. CASE Redo
    <3>1. Last(session.redo) \in projectBlobs
      BY <2>3, <2>s, FrontAndLast DEF Redo, Advance, Idle, IInv, HistoryIsComplete, HistoryOf,
                                      Session
    <3> QED BY <2>3, <2>s, <3>1 DEF Redo, Advance, Session
  <2>4. CASE Save
    BY <2>4 DEF Save, Idle, IInv, HistoryIsComplete
  <2>5. ~Checkpoint /\ ~CheckpointFails /\ ~Crash /\ ~Open
    BY DEF Checkpoint, StoreHistory, WriteSnapshot, RecordSession, RecordFails, PruneLocal,
           PruneProject, Acknowledge, MoveTo, CheckpointFails, Unacknowledged, Crash, Closed,
           Open, IInv, Life
  <2>6. CASE UNCHANGED vars
    BY <2>6 DEF vars, SessionIsComplete
  <2> QED BY <2>1, <2>2, <2>3, <2>4, <2>5, <2>6 DEF Next, Command
<1> QED BY <1>1, <1>2, Invariance, PTL DEF Spec

\* Moving the stored histories on by their lengths alone loses nothing.
THEOREM StoredNeverDrifts == Spec => []StoredFollowsSession
<1>1. IInv => StoredFollowsSession
  BY DEF IInv, Lineage, StoredFollowsSession, Idle
<1> QED BY <1>1, Invariance, PTL

\* What a client is answered is on disk.
THEOREM ServedIsDurable == Spec => []ServedContentIsDurable
<1>1. IInv => ServedContentIsDurable
  BY DEF IInv, Life, ServedContentIsDurable, Idle
<1> QED BY <1>1, Invariance, PTL

-----------------------------------------------------------------------------
(* The detailed storage implements the abstract one. *)

\* A manifest stands for one session, and only None for none.
LEMMA SessionOfManifest ==
    /\ \A s \in Session : SessionOf(ManifestOf(s)) = s
    /\ \A m \in Manifest : /\ SessionOf(m) \in Session
                           /\ SessionOf(m) # None
                           /\ SessionOf(m).content = m.digest
    /\ SessionOf(None) = None
<1>1. ASSUME NEW s \in Session PROVE SessionOf(ManifestOf(s)) = s
  BY ManifestOfSession DEF SessionOf, Session, ManifestOf
<1>2. ASSUME NEW m \in Manifest
      PROVE  /\ SessionOf(m) \in Session
             /\ SessionOf(m) # None
             /\ SessionOf(m).content = m.digest
  BY DEF SessionOf, Manifest, Session
<1> QED BY <1>1, <1>2 DEF SessionOf

LEMMA InitImplementsInit == Init => Durable!Init
BY DEF Init, Durable!Init, DurablePhase, SessionOf, Fresh, Durable!Fresh

\* A command of the session is a request for one of the abstract successors.
LEMMA CommandIsRequest ==
    ASSUME IInv, Command
    PROVE  Durable!Request
<1> USE DEF IInv
<1>1. /\ up /\ up' /\ step = "idle" /\ step' = "changed"
      /\ UNCHANGED <<snapshot, stored, acked>>
      /\ acked = session /\ attempt = session /\ session \in Session
  BY DEF Command, Edit, Import, Undo, Redo, Save, Advance, Idle, Life, TypeOK
<1>2. DurablePhase = "open" /\ DurablePhase' = "busy"
  BY <1>1 DEF DurablePhase
<1>3. attempt' \in Durable!Successors(acked) \cup {acked}
  <2>1. ASSUME NEW c \in Contents, Edit(c) PROVE attempt' = Durable!Edited(session, c)
    BY <1>1, <2>1 DEF Edit, Advance, Durable!Edited, Push, Durable!Push, Session
  <2>2. ASSUME NEW c \in Contents, Import(c) PROVE attempt' = Durable!Imported(session, c)
    BY <1>1, <2>2 DEF Import, Advance, Durable!Imported, Session
  <2>3. ASSUME Undo PROVE session.undo # <<>> /\ attempt' = Durable!Undone(session)
    BY <1>1, <2>3 DEF Undo, Advance, Durable!Undone, Push, Durable!Push, Session,
                      Last, Durable!Last, Front, Durable!Front
  <2>4. ASSUME Redo PROVE session.redo # <<>> /\ attempt' = Durable!Redone(session)
    BY <1>1, <2>4 DEF Redo, Advance, Durable!Redone, Push, Durable!Push, Session,
                      Last, Durable!Last, Front, Durable!Front
  <2>5. ASSUME Save PROVE attempt' = acked
    BY <1>1, <2>5 DEF Save
  <2> QED BY <1>1, <2>1, <2>2, <2>3, <2>4, <2>5 DEF Command, Durable!Successors
<1> QED BY <1>1, <1>2, <1>3 DEF Durable!Request

\* A session is loaded from what is stored exactly when the two belong together.
LEMMA OpenIsOpen ==
    ASSUME IInv, Open
    PROVE  Durable!Open
<1> USE DEF IInv
<1>1. /\ ~up /\ up' /\ step = "idle" /\ UNCHANGED <<snapshot, step>>
      /\ acked' = session' /\ attempt' = session'
      /\ session' = IF Loadable THEN Restored(stored) ELSE Fresh(snapshot)
      /\ stored' = IF Loadable THEN stored ELSE None
      /\ stored \in Manifest \cup {None}
  BY DEF Open, Life, TypeOK
<1>2. DurablePhase = "closed" /\ DurablePhase' = "open"
  BY <1>1 DEF DurablePhase
<1>3. Loadable <=> stored # None /\ stored.digest = snapshot
  BY DEF Loadable, Readable, RootsAreComplete, TypeOK
<1>4. Durable!Belongs <=> Loadable
  BY <1>1, <1>3, SessionOfManifest DEF Durable!Belongs
<1>5. session' = Durable!Reopened
  <2>1. CASE Loadable
    BY <1>1, <1>3, <1>4, <2>1 DEF Durable!Reopened, Restored, SessionOf
  <2>2. CASE ~Loadable
    BY <1>1, <1>4, <2>2 DEF Durable!Reopened, Fresh, Durable!Fresh
  <2> QED BY <2>1, <2>2
<1>6. SessionOf(stored)' = IF Durable!Belongs THEN SessionOf(stored) ELSE None
  BY <1>1, <1>4, SessionOfManifest DEF SessionOf
<1> QED BY <1>1, <1>2, <1>5, <1>6 DEF Durable!Open

LEMMA AcknowledgeIsAnswer ==
    ASSUME IInv, step \in {"written", "recorded", "pruned"},
           NEW isRecorded \in BOOLEAN, Acknowledge(isRecorded),
           UNCHANGED <<snapshot, stored, up, session>>
    PROVE  Durable!Answer
<1>1. /\ up /\ up' /\ step' = "idle" /\ step # "idle"
      /\ acked' = session /\ attempt' = session /\ attempt = session
      /\ snapshot = session.content
  BY DEF IInv, Life, Progress, Acknowledge, MoveTo
<1>2. DurablePhase = "busy" /\ DurablePhase' = "open" /\ SessionOf(stored)' = SessionOf(stored)
  BY <1>1 DEF DurablePhase, SessionOf
<1> QED BY <1>1, <1>2 DEF Durable!Answer

\* A checkpoint takes effect with the snapshot, is kept with the record, is answered
\* last, and its other steps cannot be seen.
LEMMA CheckpointImplements ==
    ASSUME IInv, Checkpoint
    PROVE  Durable!Next \/ UNCHANGED Durable!vars
<1> USE DEF IInv
<1>1. CASE StoreHistory
  <2>1. up /\ up' /\ step = "changed" /\ step' = "stored"
        /\ UNCHANGED <<snapshot, stored, acked, attempt>>
    BY <1>1 DEF StoreHistory, MoveTo, Life
  <2> QED BY <2>1 DEF Durable!vars, DurablePhase, SessionOf
<1>2. CASE WriteSnapshot
  <2>1. /\ up /\ up' /\ step = "stored" /\ step' = "written" /\ snapshot' = attempt.content
        /\ UNCHANGED <<stored, acked, attempt>>
    BY <1>2 DEF WriteSnapshot, MoveTo, Life
  <2>2. Durable!TakeEffect
    BY <2>1 DEF Durable!TakeEffect, DurablePhase, SessionOf
  <2> QED BY <2>2 DEF Durable!Next
<1>3. CASE RecordSession
  <2>1. /\ up /\ up' /\ step = "written" /\ step' = "recorded" /\ stored' = manifest
        /\ manifest = ManifestOf(attempt) /\ attempt \in Session /\ snapshot = attempt.content
        /\ UNCHANGED <<snapshot, acked, attempt>>
    BY <1>3 DEF RecordSession, MoveTo, Life, Progress, TypeOK
  <2>2. SessionOf(stored)' = attempt
    <3>1. SessionOf(ManifestOf(attempt)) = attempt
      BY <2>1, SessionOfManifest
    <3> QED BY <2>1, <3>1 DEF SessionOf
  <2>3. Durable!Keep
    BY <2>1, <2>2 DEF Durable!Keep, DurablePhase
  <2> QED BY <2>3 DEF Durable!Next
<1>4. CASE RecordFails
  BY <1>4, AcknowledgeIsAnswer DEF RecordFails, Durable!Next
<1>5. CASE PruneLocal
  <2>1. step = "recorded" /\ up /\ UNCHANGED <<snapshot, stored, up, session>>
    BY <1>5 DEF PruneLocal, Life
  <2>2. CASE Acknowledge(TRUE)
    BY <2>1, <2>2, AcknowledgeIsAnswer DEF Durable!Next
  <2>3. CASE step' = "pruned" /\ UNCHANGED <<manifest, acked, attempt, recorded>>
    BY <2>1, <2>3 DEF Durable!vars, DurablePhase, SessionOf
  <2> QED BY <1>5, <2>2, <2>3 DEF PruneLocal, MoveTo
<1>6. CASE PruneProject
  BY <1>6, AcknowledgeIsAnswer DEF PruneProject, Durable!Next
<1> QED BY <1>1, <1>2, <1>3, <1>4, <1>5, <1>6 DEF Checkpoint

LEMMA ClosedIsClose ==
    ASSUME up, Closed, UNCHANGED <<snapshot, stored, acked, attempt>>
    PROVE  Durable!Close
BY DEF Closed, Durable!Close, DurablePhase, SessionOf

LEMMA StepImplements == IInv /\ [Next]_vars => [Durable!Next]_Durable!vars
<1> SUFFICES ASSUME IInv, [Next]_vars PROVE Durable!Next \/ UNCHANGED Durable!vars
  OBVIOUS
<1>1. CASE Command
  BY <1>1, CommandIsRequest DEF Durable!Next
<1>2. CASE Checkpoint
  BY <1>2, CheckpointImplements
<1>3. CASE CheckpointFails
  BY <1>3, ClosedIsClose DEF CheckpointFails, Unacknowledged, Durable!Next, IInv, Life
<1>4. CASE Crash
  BY <1>4, ClosedIsClose DEF Crash, Durable!Next
<1>5. CASE Open
  BY <1>5, OpenIsOpen DEF Durable!Next
<1>6. CASE UNCHANGED vars
  BY <1>6 DEF vars, Durable!vars, DurablePhase, SessionOf
<1> QED BY <1>1, <1>2, <1>3, <1>4, <1>5, <1>6 DEF Next

\* Every behaviour of the blobs, manifests and prunings is one of the abstract storage:
\* commands take effect as a whole or not at all.
THEOREM Refinement == Spec => KeepsItsPromise
<1>1. Init => Durable!Init
  BY InitImplementsInit
<1>2. IInv /\ [Next]_vars => [Durable!Next]_Durable!vars
  BY StepImplements
<1> QED BY <1>1, <1>2, Invariance, PTL DEF Spec, KeepsItsPromise, Durable!Spec

-----------------------------------------------------------------------------
(* What a reopened project shows. *)

\* On disk there is the acknowledged session or the one in hand, never a mixture.
Recall ==
    /\ snapshot \in {acked.content, attempt.content}
    /\ recorded => \/ stored = ManifestOf(acked)
                   \/ stored = ManifestOf(attempt) /\ snapshot = attempt.content

LEMMA StepRecall ==
    ASSUME IInv, IInv', Recall, [Next]_vars
    PROVE  Recall'
<1> USE DEF IInv
<1>1. CASE Command
  <2>1. /\ acked = session /\ attempt = session /\ snapshot = session.content
        /\ UNCHANGED <<snapshot, stored, acked, recorded>>
    BY <1>1 DEF Command, Edit, Import, Undo, Redo, Save, Advance, Idle, Life
  <2> QED BY <2>1 DEF Recall, ManifestOf
<1>2. CASE StoreHistory
  BY <1>2 DEF StoreHistory, Recall, ManifestOf
<1>3. CASE WriteSnapshot
  BY <1>3 DEF WriteSnapshot, Recall, ManifestOf, Life
<1>4. CASE RecordSession
  BY <1>4 DEF RecordSession, Recall, ManifestOf, Life, Progress
<1>5. CASE RecordFails
  BY <1>5 DEF RecordFails, Acknowledge, Recall, Life, Progress
<1>6. CASE PruneLocal
  BY <1>6 DEF PruneLocal, Acknowledge, MoveTo, Recall, ManifestOf, Life, Progress
<1>7. CASE PruneProject
  BY <1>7 DEF PruneProject, Acknowledge, Recall, ManifestOf, Life, Progress
<1>8. CASE CheckpointFails \/ Crash
  BY <1>8 DEF CheckpointFails, Crash, Recall, ManifestOf
<1>9. CASE Open
  <2>1. CASE Loadable
    <3>1. /\ stored' = stored /\ stored \in Manifest /\ stored.digest = snapshot
          /\ acked' = Restored(stored) /\ snapshot' = snapshot
      BY <1>9, <2>1 DEF Open, Loadable, Readable, TypeOK
    <3>2. acked'.content = snapshot /\ ManifestOf(acked') = stored
      BY <3>1 DEF Restored, ManifestOf, Manifest
    <3> QED BY <3>1, <3>2 DEF Recall, ManifestOf
  <2>2. CASE ~Loadable
    BY <1>9, <2>2 DEF Open, Fresh, Recall
  <2> QED BY <2>1, <2>2
<1>10. CASE UNCHANGED vars
  BY <1>10 DEF vars, Recall, ManifestOf
<1> QED BY <1>1, <1>2, <1>3, <1>4, <1>5, <1>6, <1>7, <1>8, <1>9, <1>10 DEF Next, Checkpoint

LEMMA OpenRecalls ==
    ASSUME IInv, Recall, Open
    PROVE  /\ session'.content \in {acked.content, attempt.content}
           /\ recorded => \/ session' \in {acked, attempt}
                          \/ attempt # acked /\ session' = Fresh(attempt.content)
<1>1. /\ session' = IF Loadable THEN Restored(stored) ELSE Fresh(snapshot)
      /\ acked \in Session /\ attempt \in Session
  BY DEF Open, IInv, TypeOK
<1>2. session'.content = snapshot
  BY <1>1 DEF Restored, Fresh
<1>3. ASSUME NEW s \in Session, stored = ManifestOf(s), Loadable
      PROVE  session' = s
  BY <1>1, <1>3 DEF Loadable, Restored, ManifestOf, Session
<1>4. ASSUME NEW s \in Session, stored = ManifestOf(s), ~Loadable
      PROVE  snapshot # s.content
  <2>1. stored \in Manifest /\ stored.digest = s.content
    BY <1>4, ManifestOfSession
  <2> QED BY <1>4, <2>1 DEF IInv, RootsAreComplete, TypeOK, Loadable, Readable
<1>5. ASSUME recorded
      PROVE  \/ session' \in {acked, attempt}
             \/ attempt # acked /\ session' = Fresh(attempt.content)
  <2>1. CASE Loadable
    BY <1>1, <1>3, <1>5, <2>1 DEF Recall
  <2>2. CASE ~Loadable
    <3>1. stored = ManifestOf(acked) /\ snapshot # acked.content
      BY <1>1, <1>4, <1>5, <2>2 DEF Recall
    <3>2. snapshot = attempt.content /\ attempt # acked
      BY <3>1 DEF Recall
    <3> QED BY <1>1, <2>2, <3>2
  <2> QED BY <2>1, <2>2
<1> QED BY <1>2, <1>5 DEF Recall

\* Reopening after any crash shows the acknowledged session or the one in hand, or at
\* worst the content in hand without its history.
THEOREM ReopeningIsFaithful == Spec => ReopenIsFaithful
<1>1. Init => Recall
  BY FreshSession DEF Init, Recall, Fresh
<1>2. IInv /\ IInv' /\ Recall /\ [Next]_vars => Recall'
  BY StepRecall
<1>3. IInv /\ Recall /\ [Next]_vars
         => [Open => /\ session'.content \in {acked.content, attempt.content}
                     /\ recorded => \/ session' \in {acked, attempt}
                                    \/ attempt # acked
                                       /\ session' = Fresh(attempt.content)]_vars
  BY OpenRecalls
<1> QED BY <1>1, <1>2, <1>3, Invariance, PTL DEF Spec, ReopenIsFaithful

-----------------------------------------------------------------------------
(* Prepared change sets. Between the storage's own steps, a stage stores       *)
(* payloads and its commit makes an edit whose payloads may have been pruned.  *)

\* What the storage sees of a preparation.
Prepares ==
    /\ \E c \in Contents : projectBlobs' = projectBlobs \cup {c}
    /\ UNCHANGED <<snapshot, localBlobs, stored, up, session, method, step, manifest, acked,
                   attempt, recorded>>

\* A step of the host is one of the storage, a preparation or a commit.
LEMMA ChangeSetsSteps ==
    ASSUME [ChangeSetsNext]_setVars
    PROVE  \/ [Next]_vars
           \/ Prepares
           \/ \E i \in DOMAIN prepared : CommitEdit(i) \/ CommitUnchanged(i)
<1>1. ASSUME NEW c \in Contents, NEW stamp, Prepare(c, stamp)
      PROVE  Prepares
  BY <1>1 DEF Prepare, Prepares
<1>2. CASE Commit
  BY <1>2 DEF Commit, RefuseCommit
<1>3. CASE (\E k \in Collections : ChangePaint(k)) \/ Elsewhere \/ UNCHANGED setVars
  BY <1>3 DEF ChangePaint, Elsewhere, setVars
<1> QED BY <1>1, <1>2, <1>3 DEF ChangeSetsNext

\* Payloads stored early take nothing away.
LEMMA PreparesStep ==
    ASSUME IInv, Prepares
    PROVE  IInv'
<1> USE DEF IInv
<1>1. PICK c \in Contents : projectBlobs' = projectBlobs \cup {c}
  BY DEF Prepares
<1>2. UNCHANGED <<snapshot, localBlobs, stored, up, session, method, step, manifest, acked,
                  attempt, recorded>>
  BY DEF Prepares
<1>3. TypeOK'
  BY <1>1, <1>2 DEF TypeOK
<1>4. RootsAreComplete' /\ HistoryIsComplete'
  BY <1>1, <1>2 DEF RootsAreComplete, HistoryIsComplete, HistoryOf, Entries
<1>5. Life' /\ Progress'
  BY <1>1, <1>2 DEF Life, Progress, Entries, ManifestOf
<1>6. Lineage'
  BY <1>2 DEF Lineage, Follows, ManifestOf, FollowsByEdit, FollowsByImport, FollowsByUndo,
              FollowsByRedo
<1> QED BY <1>3, <1>4, <1>5, <1>6

\* A commit is an edit to the stage's result, of which nothing may be left in the
\* blobs: what it can undo to is still there, and the checkpoint looks for the rest.
LEMMA CommitEditStep ==
    ASSUME IInv, prepared \in Seq(Stage), NEW i \in DOMAIN prepared, CommitEdit(i)
    PROVE  IInv'
<1> DEFINE c == prepared[i].result
           next == [session EXCEPT !.content = c,
                                   !.undo = Push(session.undo, session.content),
                                   !.redo = <<>>]
<1>0. c \in Contents
  <2>1. prepared[i] \in Stage
    BY ElementOfSeq
  <2> QED BY <2>1 DEF Stage
<1>1. session \in Session /\ Len(session.undo) <= HistoryLimit
  BY DEF IInv, TypeOK
<1>2. /\ Push(session.undo, session.content) \in History
      /\ Len(Push(session.undo, session.content)) <= HistoryLimit
      /\ Range(Push(session.undo, session.content))
            \subseteq Range(session.undo) \cup {session.content}
  BY <1>1, PushKeepsBound, PushGains DEF Session
<1>3. next \in Session /\ next.content = c /\ next.redo = <<>>
      /\ next.undo = Push(session.undo, session.content)
  BY <1>0, <1>1, <1>2, EmptyHistory DEF Session
<1>4. /\ Advance("edit", next)
      /\ projectBlobs' = projectBlobs \cup ({c} \cap Plain)
      /\ up /\ step = "idle"
  BY DEF CommitEdit, Advance, Idle
<1>5. projectBlobs' \in SUBSET Contents
  BY <1>0, <1>4 DEF IInv, TypeOK
<1>6. HistoryOf(next) \subseteq projectBlobs'
  BY <1>2, <1>3, <1>4, RangeOfEmpty DEF HistoryOf, IInv, HistoryIsComplete
<1>7. FollowsByEdit(next, ManifestOf(session))
  BY <1>1, <1>3, ManifestOfSession DEF FollowsByEdit
<1>8. "edit" \in Methods /\ Len(next.redo) <= HistoryLimit /\ Len(next.undo) <= HistoryLimit
  BY <1>2, <1>3 DEF Methods
<1> HIDE DEF next, c
<1> QED BY <1>3, <1>4, <1>5, <1>6, <1>7, <1>8, AdvanceKeepsIInv

LEMMA CommitUnchangedStep ==
    ASSUME IInv, NEW i, CommitUnchanged(i)
    PROVE  IInv'
<1> USE DEF IInv
<1>1. /\ up /\ step = "idle" /\ step' = "changed" /\ method' = "edit"
      /\ UNCHANGED <<snapshot, projectBlobs, localBlobs, stored, up, session, manifest,
                     acked, attempt, recorded>>
  BY DEF CommitUnchanged, Idle
<1>2. TypeOK'
  BY <1>1 DEF TypeOK, Steps, Methods
<1>3. RootsAreComplete' /\ HistoryIsComplete'
  BY <1>1 DEF RootsAreComplete, HistoryIsComplete, HistoryOf, Entries
<1>4. Life' /\ Progress'
  BY <1>1 DEF Life, Progress
<1>5. Lineage'
  BY <1>1 DEF Lineage, Follows, ManifestOf, FollowsByEdit, FollowsByImport, FollowsByUndo,
              FollowsByRedo
<1> QED BY <1>2, <1>3, <1>4, <1>5

-----------------------------------------------------------------------------
(* Every stage was begun from the session itself or from an earlier one of the *)
(* same opening of the project, whose revision is lower, and its stamp is of    *)
(* the present paint resources or of some that had a lower revision.            *)

StampFits(stamp) ==
    /\ stamp.revision <= paint.revision
    /\ stamp.revision = paint.revision => stamp = paint

Earlier == {s \in Stage : /\ s.base.revision <= session.revision
                          /\ s.base.revision = session.revision => s.base = session
                          /\ s.stamp # None => StampFits(s.stamp)}

Previews ==
    /\ prepared \in Seq(Earlier)
    /\ Len(prepared) <= PreparedLimit
    /\ ~up => prepared = <<>>

PaintTypeOK == paint \in Paint

\* Taking one stage out leaves the others.
LEMMA RemoveAtKeeps ==
    ASSUME NEW S, NEW s \in Seq(S), NEW i \in 1..Len(s)
    PROVE  /\ RemoveAt(s, i) \in Seq(S)
           /\ Len(RemoveAt(s, i)) = Len(s) - 1
<1> DEFINE a == SubSeq(s, 1, i - 1)
           b == SubSeq(s, i + 1, Len(s))
<1>1. /\ Len(s) \in Nat /\ i \in Nat /\ i - 1 \in Int /\ i + 1 \in Int
      /\ \A j \in 1..Len(s) : s[j] \in S
  BY ElementOfSeq
<1>2. a \in Seq(S) /\ Len(a) = IF 1 <= i - 1 THEN i - 1 - 1 + 1 ELSE 0
  <2>1. \A j \in 1..(i - 1) : s[j] \in S
    BY <1>1
  <2> QED BY <1>1, <2>1, SubSeqProperties
<1>3. b \in Seq(S) /\ Len(b) = IF i + 1 <= Len(s) THEN Len(s) - (i + 1) + 1 ELSE 0
  <2>1. \A j \in (i + 1)..Len(s) : s[j] \in S
    BY <1>1
  <2> QED BY <1>1, <2>1, SubSeqProperties
<1>4. RemoveAt(s, i) = a \o b
  BY DEF RemoveAt
<1> HIDE DEF a, b
<1>5. a \o b \in Seq(S) /\ Len(a \o b) = Len(a) + Len(b)
  BY <1>2, <1>3, ConcatProperties
<1>6. i <= Len(s) /\ 1 <= i
  BY <1>1
<1>7. Len(a) = i - 1 /\ Len(b) = Len(s) - i
  BY <1>1, <1>2, <1>3, <1>6
<1>8. Len(a \o b) = Len(s) - 1
  BY <1>1, <1>5, <1>7
<1> QED BY <1>4, <1>5, <1>8

\* The stages that are kept are stages.
LEMMA KeptIsBounded ==
    ASSUME NEW S, NEW s \in Seq(S), Len(s) <= PreparedLimit + 1
    PROVE  Kept(s) \in Seq(S) /\ Len(Kept(s)) <= PreparedLimit
<1>1. PreparedLimit \in Nat \ {0} /\ Len(s) \in Nat
  BY ChangeSetAssumption, LenProperties
<1>2. CASE Len(s) > PreparedLimit
  <2>1. s # <<>>
    BY <1>1, <1>2
  <2> QED BY <1>1, <1>2, <2>1, HeadTailProperties DEF Kept
<1>3. CASE ~(Len(s) > PreparedLimit)
  BY <1>1, <1>3 DEF Kept
<1> QED BY <1>2, <1>3

\* What the storage's own steps do to the session.
LEMMA SessionMoves ==
    ASSUME IInv, [Next]_vars
    PROVE  \/ UNCHANGED <<up, session>>
           \/ up /\ up' /\ session'.revision = session.revision + 1
           \/ ~up'
           \/ ~up
<1>s. session \in Session
  BY DEF IInv, TypeOK
<1>1. CASE Command
  BY <1>1, <1>s DEF Command, Edit, Import, Undo, Redo, Save, Advance, Idle, Session
<1>2. CASE Checkpoint
  BY <1>2 DEF Checkpoint, StoreHistory, WriteSnapshot, RecordSession, RecordFails, PruneLocal,
              PruneProject
<1>3. CASE CheckpointFails \/ Crash
  BY <1>3 DEF CheckpointFails, Unacknowledged, Crash, Closed
<1>4. CASE Open
  BY <1>4 DEF Open
<1>5. CASE UNCHANGED vars
  BY <1>5 DEF vars
<1> QED BY <1>1, <1>2, <1>3, <1>4, <1>5 DEF Next

\* Stages of the past are stages of the past after any command and after a change of
\* the paint resources.
LEMMA EarlierKept ==
    ASSUME IInv, IInv', session' = session \/ session'.revision = session.revision + 1,
           PaintTypeOK, PaintTypeOK', paint' = paint \/ paint'.revision = paint.revision + 1
    PROVE  Earlier \subseteq Earlier'
<1>1. session.revision \in Nat /\ session'.revision \in Nat
  BY DEF IInv, TypeOK, Session
<1>2. paint.revision \in Int /\ paint'.revision \in Int
  BY ChangeSetAssumption DEF PaintTypeOK, Paint
<1>3. ASSUME NEW s \in Earlier
      PROVE  s \in Earlier'
  <2>1. s \in Stage /\ s.base.revision \in Nat /\ s.stamp \in Paint \cup {None}
    BY <1>3 DEF Earlier, Stage, Session
  <2>2. s.stamp # None => StampFits(s.stamp)'
    <3>1. s.stamp # None => s.stamp.revision \in Int /\ StampFits(s.stamp)
      BY <1>3, <2>1, ChangeSetAssumption DEF Earlier, Paint
    <3> QED BY <1>2, <3>1 DEF StampFits
  <2>3. /\ s.base.revision <= session'.revision
        /\ s.base.revision = session'.revision => s.base = session'
    BY <1>1, <1>3, <2>1 DEF Earlier
  <2> QED BY <2>1, <2>2, <2>3 DEF Earlier
<1> QED BY <1>3

LEMMA PreviewsStep ==
    ASSUME IInv, IInv', Previews, PaintTypeOK, [ChangeSetsNext]_setVars
    PROVE  Previews' /\ PaintTypeOK'
<1>a. PreparedLimit \in Nat /\ MaxPaint \in Nat
  BY ChangeSetAssumption
<1>s. session \in Session /\ Len(prepared) \in Nat
  BY LenProperties DEF IInv, TypeOK, Previews
<1>1. ASSUME NEW c \in Contents, NEW stamp \in {None, paint}, Prepare(c, stamp)
      PROVE  Previews' /\ PaintTypeOK'
  <2> DEFINE stage == [base |-> session, result |-> c, stamp |-> stamp]
             more == Append(prepared, stage)
  <2>1. /\ prepared' \in {prepared, Kept(more)}
        /\ UNCHANGED <<up, session, paint>>
        /\ up
    BY <1>1 DEF Prepare, Idle
  <2>2. Earlier' = Earlier
    BY <2>1 DEF Earlier, StampFits
  <2>3. stage \in Earlier
    <3>1. stage \in Stage
      BY <1>s DEF Stage, PaintTypeOK
    <3>2. StampFits(paint)
      BY <1>a DEF StampFits, PaintTypeOK, Paint
    <3> QED BY <1>s, <3>1, <3>2 DEF Earlier, Session
  <2> HIDE DEF stage
  <2>4. more \in Seq(Earlier) /\ Len(more) = Len(prepared) + 1
    BY <2>3, AppendProperties DEF Previews
  <2>5. Kept(more) \in Seq(Earlier) /\ Len(Kept(more)) <= PreparedLimit
    <3>1. Len(more) <= PreparedLimit + 1
      BY <1>a, <1>s, <2>4 DEF Previews
    <3> HIDE DEF more
    <3> QED BY <2>4, <3>1, KeptIsBounded
  <2> QED BY <2>1, <2>2, <2>5 DEF Previews, PaintTypeOK
<1>2. ASSUME NEW i \in DOMAIN prepared, Take(i), up, up',
             session' = session \/ session'.revision = session.revision + 1
      PROVE  Previews' /\ PaintTypeOK'
  <2>1. i \in 1..Len(prepared)
    BY LenProperties DEF Previews
  <2>2. prepared' \in Seq(Earlier) /\ Len(prepared') = Len(prepared) - 1
    BY <1>2, <2>1, RemoveAtKeeps DEF Take, Previews
  <2>3. prepared' \in Seq(Earlier')
    <3>1. paint' = paint /\ PaintTypeOK'
      BY <1>2 DEF Take, PaintTypeOK
    <3> QED BY <1>2, <2>2, <3>1, EarlierKept, SeqMonotonic
  <2> QED BY <1>2, <1>a, <1>s, <2>2, <2>3 DEF Previews, PaintTypeOK, Take
<1>3. CASE Commit
  <2>1. PICK i \in DOMAIN prepared : RefuseCommit(i) \/ CommitEdit(i) \/ CommitUnchanged(i)
    BY <1>3 DEF Commit
  <2>2. /\ Take(i) /\ up /\ up'
        /\ session' = session \/ session'.revision = session.revision + 1
    <3>1. CASE RefuseCommit(i) \/ CommitUnchanged(i)
      BY <3>1 DEF RefuseCommit, CommitUnchanged, Idle, vars
    <3>2. CASE CommitEdit(i)
      <4>1. PICK next \in [content : {prepared[i].result}, revision : {session.revision},
                           undo : {Push(session.undo, session.content)}, redo : {<<>>}] :
              Advance("edit", next)
        BY <1>s, <3>2 DEF CommitEdit, Session
      <4>2. session'.revision = session.revision + 1 /\ up /\ up'
        BY <4>1 DEF Advance, Idle
      <4> QED BY <3>2, <4>2 DEF CommitEdit
    <3> QED BY <2>1, <3>1, <3>2
  <2> QED BY <1>2, <2>2
<1>4. CASE UNCHANGED setVars
  BY <1>4 DEF setVars, vars, Previews, Earlier, StampFits, PaintTypeOK
<1>5. ASSUME NEW k \in Collections, ChangePaint(k)
      PROVE  Previews' /\ PaintTypeOK'
  <2>1. /\ paint' = [revision |-> paint.revision + 1, collection |-> k]
        /\ paint.revision < MaxPaint
        /\ UNCHANGED <<up, session, prepared>>
    BY <1>5 DEF ChangePaint, vars
  <2>2. PaintTypeOK'
    BY <1>a, <2>1 DEF PaintTypeOK, Paint
  <2>3. prepared' \in Seq(Earlier')
    BY <2>1, <2>2, EarlierKept, SeqMonotonic DEF Previews
  <2> QED BY <2>1, <2>2, <2>3 DEF Previews
<1>6. CASE Elsewhere
  <2>1. [Next]_vars /\ UNCHANGED paint /\ prepared' = IF up' THEN prepared ELSE <<>>
    BY <1>6 DEF Elsewhere, AfterClosing
  <2>2. CASE ~up' \/ ~up
    <3>1. prepared' = <<>>
      BY <2>1, <2>2 DEF Previews
    <3>2. <<>> \in Seq(Earlier') /\ Len(<<>>) = 0
      BY EmptySeq
    <3> QED BY <1>a, <2>1, <3>1, <3>2 DEF Previews, PaintTypeOK
  <2>3. CASE up /\ up' /\ (session' = session \/ session'.revision = session.revision + 1)
    <3>1. prepared' \in Seq(Earlier')
      <4>1. PaintTypeOK'
        BY <2>1 DEF PaintTypeOK
      <4> QED BY <2>1, <2>3, <4>1, EarlierKept, SeqMonotonic DEF Previews
    <3> QED BY <2>1, <2>3, <3>1 DEF Previews, PaintTypeOK
  <2> QED BY <2>1, <2>2, <2>3, SessionMoves
<1> QED BY <1>1, <1>3, <1>4, <1>5, <1>6 DEF ChangeSetsNext

-----------------------------------------------------------------------------
(* The whole of the prepared changes. *)

ChangeSetsInv == IInv /\ Previews /\ PaintTypeOK

LEMMA InitChangeSetsInv == ChangeSetsInit => ChangeSetsInv
<1>1. ASSUME ChangeSetsInit PROVE ChangeSetsInv
  <2>1. IInv
    BY <1>1, InitIInv DEF ChangeSetsInit
  <2>2. Previews /\ PaintTypeOK
    BY <1>1, EmptySeq, ChangeSetAssumption DEF ChangeSetsInit, Previews, PaintTypeOK, Paint
  <2> QED BY <2>1, <2>2 DEF ChangeSetsInv
<1> QED BY <1>1

\* Stages that were begun earlier are stages.
LEMMA PreviewsAreStages == Previews => prepared \in Seq(Stage)
<1>1. Earlier \subseteq Stage
  BY DEF Earlier
<1> QED BY <1>1, SeqMonotonic DEF Previews

LEMMA StepChangeSetsInv == ChangeSetsInv /\ [ChangeSetsNext]_setVars => ChangeSetsInv'
<1> SUFFICES ASSUME ChangeSetsInv, [ChangeSetsNext]_setVars
             PROVE  ChangeSetsInv'
  OBVIOUS
<1> USE DEF ChangeSetsInv
<1>1. CASE [Next]_vars
  BY <1>1, StepIInv, PreviewsStep
<1>2. CASE Prepares
  BY <1>2, PreparesStep, PreviewsStep
<1>3. ASSUME NEW i \in DOMAIN prepared, CommitEdit(i) \/ CommitUnchanged(i)
      PROVE  ChangeSetsInv'
  BY <1>3, CommitEditStep, CommitUnchangedStep, PreviewsAreStages, PreviewsStep
<1> QED BY <1>1, <1>2, <1>3, ChangeSetsSteps

LEMMA ChangeSetsInvariance == ChangeSetsSpec => []ChangeSetsInv
BY InitChangeSetsInv, StepChangeSetsInv, PTL DEF ChangeSetsSpec

\* The cache of prepared changes keeps to its limit, and the session it stages is
\* well-formed.
THEOREM ChangeSetsTypeCorrect == ChangeSetsSpec => []ChangeSetsTypeOK
<1>1. ChangeSetsInv => ChangeSetsTypeOK
  BY PreviewsAreStages DEF ChangeSetsInv, IInv, Previews, PaintTypeOK, ChangeSetsTypeOK
<1> QED BY <1>1, ChangeSetsInvariance, PTL

\* A commit that finds its stage's payloads pruned leaves the portable snapshot and
\* the stored session as readable as any other command does.
THEOREM RootsSurviveChangeSets == ChangeSetsSpec => []RootsAreComplete
<1>1. ChangeSetsInv => RootsAreComplete
  BY DEF ChangeSetsInv, IInv
<1> QED BY <1>1, ChangeSetsInvariance, PTL

\* What a client is answered is on disk, after a commit too.
THEOREM CommittedIsDurable == ChangeSetsSpec => []ServedContentIsDurable
<1>1. ChangeSetsInv => ServedContentIsDurable
  BY DEF ChangeSetsInv, IInv, Life, ServedContentIsDurable, Idle
<1> QED BY <1>1, ChangeSetsInvariance, PTL

\* The stored session does not drift from the live one when a commit goes the way of
\* an edit, or of nothing at all.
THEOREM StoredFollowsCommits == ChangeSetsSpec => []StoredFollowsSession
<1>1. ChangeSetsInv => StoredFollowsSession
  BY DEF ChangeSetsInv, IInv, Lineage, StoredFollowsSession, Idle
<1> QED BY <1>1, ChangeSetsInvariance, PTL

\* A stage that is committed was begun from the very session it is committed to,
\* history included, however often the project was reopened in between.
LEMMA CommitsWhatWasPreviewed ==
    ASSUME ChangeSetsInv, NEW i \in DOMAIN prepared, CommitEdit(i) \/ CommitUnchanged(i)
    PROVE  prepared[i].base = session /\ session'.content = prepared[i].result
<1>1. prepared[i] \in Earlier
  BY ElementOfSeq, LenProperties DEF ChangeSetsInv, Previews
<1>2. prepared[i].base.revision = session.revision
  BY DEF CommitEdit, CommitUnchanged, Current
<1>3. prepared[i].base = session
  BY <1>1, <1>2 DEF Earlier
<1>s. session \in Session
  BY DEF ChangeSetsInv, IInv, TypeOK
<1>4. session'.content = prepared[i].result
  <2>1. CASE CommitEdit(i)
    BY <2>1, <1>s DEF CommitEdit, Advance, Session
  <2>2. CASE CommitUnchanged(i)
    BY <2>2 DEF CommitUnchanged
  <2> QED BY <2>1, <2>2
<1> QED BY <1>3, <1>4

\* A commit changes the session only from the one that was previewed, although only
\* revisions are compared.
THEOREM CommittedIsPreviewed == ChangeSetsSpec => PreviewedIsCommitted
<1>1. ChangeSetsInv /\ [ChangeSetsNext]_setVars
         => [\A i \in DOMAIN prepared :
                CommitEdit(i) \/ CommitUnchanged(i) =>
                    /\ prepared[i].base = session
                    /\ session'.content = prepared[i].result]_setVars
  BY CommitsWhatWasPreviewed
<1> QED BY <1>1, ChangeSetsInvariance, PTL DEF ChangeSetsSpec, PreviewedIsCommitted

\* A committed stage places the stamp that the project has now: the paint resources'
\* revision never goes back, not when a project is reopened either, so an equal one
\* stands for an equal collection.
THEOREM CommittedStampsAreCurrent == ChangeSetsSpec => StampIsCurrent
<1>1. ASSUME ChangeSetsInv, NEW i \in DOMAIN prepared, CommitEdit(i) \/ CommitUnchanged(i),
             prepared[i].stamp # None
      PROVE  prepared[i].stamp.collection = paint.collection
  <2>1. prepared[i] \in Earlier
    BY <1>1, ElementOfSeq, LenProperties DEF ChangeSetsInv, Previews
  <2>2. prepared[i].stamp.revision = paint.revision
    BY <1>1 DEF CommitEdit, CommitUnchanged, StampHolds
  <2> QED BY <1>1, <2>1, <2>2 DEF Earlier, StampFits
<1>2. ChangeSetsInv
         => [\A i \in DOMAIN prepared :
                (CommitEdit(i) \/ CommitUnchanged(i)) /\ prepared[i].stamp # None =>
                    prepared[i].stamp.collection = paint.collection]_setVars
  BY <1>1
<1> QED BY <1>2, ChangeSetsInvariance, PTL DEF StampIsCurrent

\* To the abstract storage a preparation is nothing and a commit a command.
LEMMA ChangeSetsImplement ==
    ASSUME ChangeSetsInv, [ChangeSetsNext]_setVars
    PROVE  [Durable!Next]_Durable!vars
<1>s. IInv /\ session \in Session
  BY DEF ChangeSetsInv, IInv, TypeOK
<1>1. CASE [Next]_vars
  BY <1>1, <1>s, StepImplements
<1>2. CASE Prepares
  BY <1>2 DEF Prepares, Durable!vars, DurablePhase
<1>3. ASSUME NEW i \in DOMAIN prepared, CommitEdit(i)
      PROVE  Durable!Request
  <2>1. prepared[i] \in Stage
    BY PreviewsAreStages, ElementOfSeq, LenProperties DEF ChangeSetsInv
  <2>2. /\ session' = [content |-> prepared[i].result, revision |-> session.revision + 1,
                       undo |-> Push(session.undo, session.content), redo |-> <<>>]
        /\ attempt' = session'
        /\ up /\ up' /\ step = "idle" /\ step' = "changed"
        /\ UNCHANGED <<snapshot, stored, acked>>
    BY <1>3, <1>s DEF CommitEdit, Advance, Idle, Session
  <2>3. acked = session
    BY <1>s, <2>2 DEF IInv, Life
  <2>4. attempt' = Durable!Edited(acked, prepared[i].result)
    BY <2>2, <2>3 DEF Durable!Edited, Durable!Push, Push
  <2>5. attempt' \in Durable!Successors(acked)
    BY <2>1, <2>4 DEF Durable!Successors, Stage
  <2> QED BY <2>2, <2>5 DEF Durable!Request, DurablePhase
<1>4. ASSUME NEW i \in DOMAIN prepared, CommitUnchanged(i)
      PROVE  Durable!Request
  <2>1. /\ up /\ up' /\ step = "idle" /\ step' = "changed"
        /\ UNCHANGED <<snapshot, stored, session, acked, attempt>>
    BY <1>4 DEF CommitUnchanged, Idle
  <2>2. attempt' = acked
    BY <1>s, <2>1 DEF IInv, Life
  <2> QED BY <2>1, <2>2 DEF Durable!Request, DurablePhase
<1> QED BY <1>1, <1>2, <1>3, <1>4, ChangeSetsSteps DEF Durable!Next

\* With prepared changes, whose payloads no pruning keeps, clients still see commands
\* that take effect as a whole or not at all.
THEOREM ChangeSetsKeepThePromise == ChangeSetsSpec => KeepsItsPromise
<1>1. ChangeSetsInit => Durable!Init
  BY InitImplementsInit DEF ChangeSetsInit
<1>2. ChangeSetsInv /\ [ChangeSetsNext]_setVars => [Durable!Next]_Durable!vars
  BY ChangeSetsImplement
<1> QED BY <1>1, <1>2, ChangeSetsInvariance, PTL
        DEF ChangeSetsSpec, KeepsItsPromise, Durable!Spec

LEMMA ChangeSetsRecall ==
    ASSUME ChangeSetsInv, ChangeSetsInv', Recall, [ChangeSetsNext]_setVars
    PROVE  Recall'
<1>s. IInv /\ IInv'
  BY DEF ChangeSetsInv
<1>1. CASE [Next]_vars
  BY <1>1, <1>s, StepRecall
<1>2. CASE Prepares
  BY <1>2 DEF Prepares, Recall, ManifestOf
<1>3. ASSUME NEW i \in DOMAIN prepared, CommitEdit(i) \/ CommitUnchanged(i)
      PROVE  Recall'
  <2>1. /\ up /\ step = "idle"
        /\ UNCHANGED <<snapshot, stored, acked, recorded>>
    BY <1>3 DEF CommitEdit, CommitUnchanged, Advance, Idle
  <2>2. acked = session /\ attempt = session /\ snapshot = session.content
    BY <1>s, <2>1 DEF IInv, Life
  <2> QED BY <2>1, <2>2 DEF Recall, ManifestOf
<1> QED BY <1>1, <1>2, <1>3, ChangeSetsSteps

\* Reopening after a crash in the middle of a commit is as faithful as after one in
\* the middle of any command.
THEOREM ReopeningAfterCommits == ChangeSetsSpec => ReopenIsFaithful
<1>1. ChangeSetsInit => Recall
  BY FreshSession DEF ChangeSetsInit, Init, Recall, Fresh
<1>2. ChangeSetsInv /\ ChangeSetsInv' /\ Recall /\ [ChangeSetsNext]_setVars => Recall'
  BY ChangeSetsRecall
<1>3. ChangeSetsInv /\ Recall /\ [ChangeSetsNext]_setVars
         => [Open => /\ session'.content \in {acked.content, attempt.content}
                     /\ recorded => \/ session' \in {acked, attempt}
                                    \/ attempt # acked
                                       /\ session' = Fresh(attempt.content)]_vars
  <2> SUFFICES ASSUME ChangeSetsInv, Recall, Open
               PROVE  /\ session'.content \in {acked.content, attempt.content}
                      /\ recorded => \/ session' \in {acked, attempt}
                                     \/ attempt # acked
                                        /\ session' = Fresh(attempt.content)
    OBVIOUS
  <2>1. IInv /\ [Next]_vars
    BY DEF ChangeSetsInv, Next
  <2> QED BY <2>1, OpenRecalls
<1> QED BY <1>1, <1>2, <1>3, ChangeSetsInvariance, PTL DEF ChangeSetsSpec, ReopenIsFaithful


=============================================================================
