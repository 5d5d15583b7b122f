------------------------- MODULE PersonalLibraryProofs -------------------------
(***************************************************************************)
(* Proofs about PersonalLibrary for any hosts and operations, any history  *)
(* limit and any number of retained receipts: no change is lost or made    *)
(* twice, no answer is false, and what was written can be read again.      *)
(***************************************************************************)
EXTENDS PersonalLibrary, SequenceTheorems, WellFoundedInduction, TLAPS

\* A command is carried out by the one host that has the writer lock, on what the
\* manifest holds, and ends with an outcome.
LockIsHeld ==
    \A h \in Host :
        /\ writer = h <=> host[h].at \in {"locked", "loaded"}
        /\ host[h].at = "loaded" => host[h].library = manifest
        /\ host[h].at = "executed" => host[h].outcome \in Outcomes

\* Only what a client has submitted is carried out.
OnlyTheSubmitted ==
    /\ \A h \in Host : host[h].at # "idle" =>
          host[h].op \in Operation /\ intent[host[h].op] \in Intent
    /\ \A i \in 1..Len(applied) : intent[applied[i]] \in Intent

Done(o) == \E i \in 1..Len(applied) : applied[i] = o

\* A host is at work on an operation.
Has(h, o) == host[h].at # "idle" /\ host[h].op = o

\* Nothing of the operation has happened but its reservation.
Untouched(o) == receipt[o] = "reserved" /\ told[o] = {} /\ ~Done(o)

\* While its receipt is kept, an operation is in the hands of one host at most, which
\* knows what has become of it.
OneHostKnows ==
    \A o \in Operation \ pruned :
        /\ receipt[o] = "absent" => told[o] = {} /\ ~Done(o)
        /\ \A h \in Host : Has(h, o) =>
              /\ receipt[o] # "absent"
              /\ \A k \in Host : Has(k, o) => k = h
              /\ host[h].at \in {"reserved", "locked", "loaded"} => Untouched(o)
              /\ host[h].at = "executed" => receipt[o] = "reserved" /\ told[o] = {}
              /\ host[h].at \in {"executed", "pruning", "replying"}
                 /\ host[h].outcome \in Outcomes =>
                    ((host[h].outcome = "committed") <=> Done(o))

IInv == /\ TypeOK /\ LockIsHeld /\ OnlyTheSubmitted /\ NoChangeIsLost
        /\ OneHostKnows /\ AnswersAreTrue

-----------------------------------------------------------------------------
(* The library and the ledger as data. *)

LEMMA TopProperties ==
    ASSUME NEW S, NEW s \in Seq(S), s # <<>>
    PROVE  Top(s) \in S /\ Popped(s) \in Seq(S)
<1>1. Len(s) \in Nat /\ Len(s) # 0 /\ Len(s) \in 1..Len(s)
  BY EmptySeq
<1>2. Top(s) \in S
  BY <1>1, ElementOfSeq DEF Top
<1>3. Popped(s) \in Seq(S)
  BY <1>1, SubSeqProperties DEF Popped
<1> QED
  BY <1>2, <1>3

LEMMA EditsTyped ==
    ASSUME NEW c \in Content, NEW edit \in Edits
    PROVE  Edited(c, edit) \in Content /\ EntryOf(c, edit) \in Entry
<1>1. Edited(c, edit) \in Content
  BY DEF Edited, Content, Assets, Edits
<1>2. EntryOf(c, edit) \in Entry
  BY <1>1 DEF EntryOf, Entry, AssetEntry, CollectionEntry, Content
<1> QED
  BY <1>1, <1>2

LEMMA RestoredTyped ==
    ASSUME NEW c \in Content, NEW e \in Entry, NEW undo \in BOOLEAN
    PROVE  Restored(c, e, undo) \in Content
<1>1. CASE e \in CollectionEntry
  BY <1>1 DEF Restored, Content, CollectionEntry
<1>2. CASE e \in AssetEntry
  BY <1>2 DEF Restored, Content, AssetEntry
<1> QED
  BY <1>1, <1>2 DEF Entry

LEMMA RecordedTyped ==
    ASSUME NEW lib \in Library, NEW edit \in Edits
    PROVE  Recorded(lib, edit) \in Library /\ Recorded(lib, edit).revision = lib.revision
<1> DEFINE undo == Append(lib.undo, EntryOf(lib.content, edit))
           kept == IF Len(undo) > HistoryLimit THEN Tail(undo) ELSE undo
<1>1. lib.content \in Content /\ lib.undo \in Seq(Entry)
  BY DEF Library
<1>2. EntryOf(lib.content, edit) \in Entry /\ Edited(lib.content, edit) \in Content
  BY <1>1, EditsTyped
<1>3. undo \in Seq(Entry) /\ undo # <<>>
  BY <1>1, <1>2, AppendProperties
<1>4. kept \in Seq(Entry)
  BY <1>3, HeadTailProperties
<1>5. <<>> \in Seq(Entry)
  OBVIOUS
<1> DEFINE c == Edited(lib.content, edit)
           none == <<>>
<1>6. Recorded(lib, edit) = [lib EXCEPT !.content = c, !.undo = kept, !.redo = none]
  BY DEF Recorded
<1>7. c \in Content /\ none \in Seq(Entry)
  BY <1>2, <1>5
<1> HIDE DEF c, kept, none
<1>8. Recorded(lib, edit)
       = [revision |-> lib.revision, content |-> c, undo |-> kept, redo |-> none]
  BY <1>6 DEF Library
<1> QED
  BY <1>4, <1>8, <1>7 DEF Library

LEMMA UndoneTyped ==
    ASSUME NEW lib \in Library, lib.undo # <<>>
    PROVE  Undone(lib) \in Library /\ Undone(lib).revision = lib.revision
<1>1. lib.content \in Content /\ lib.undo \in Seq(Entry) /\ lib.redo \in Seq(Entry)
  BY DEF Library
<1>2. Top(lib.undo) \in Entry /\ Popped(lib.undo) \in Seq(Entry)
  BY <1>1, TopProperties
<1>3. Restored(lib.content, Top(lib.undo), TRUE) \in Content
  BY <1>1, <1>2, RestoredTyped
<1>4. Append(lib.redo, Top(lib.undo)) \in Seq(Entry)
  BY <1>1, <1>2, AppendProperties
<1> DEFINE c == Restored(lib.content, Top(lib.undo), TRUE)
           u == Popped(lib.undo)
           r == Append(lib.redo, Top(lib.undo))
<1>5. c \in Content /\ u \in Seq(Entry) /\ r \in Seq(Entry)
  BY <1>2, <1>3, <1>4
<1>6. Undone(lib) = [lib EXCEPT !.content = c, !.undo = u, !.redo = r]
  BY DEF Undone
<1> HIDE DEF c, u, r
<1>8. Undone(lib)
       = [revision |-> lib.revision, content |-> c, undo |-> u, redo |-> r]
  BY <1>6 DEF Library
<1> QED
  BY <1>5, <1>8 DEF Library

LEMMA RedoneTyped ==
    ASSUME NEW lib \in Library, lib.redo # <<>>
    PROVE  Redone(lib) \in Library /\ Redone(lib).revision = lib.revision
<1>1. lib.content \in Content /\ lib.undo \in Seq(Entry) /\ lib.redo \in Seq(Entry)
  BY DEF Library
<1>2. Top(lib.redo) \in Entry /\ Popped(lib.redo) \in Seq(Entry)
  BY <1>1, TopProperties
<1>3. Restored(lib.content, Top(lib.redo), FALSE) \in Content
  BY <1>1, <1>2, RestoredTyped
<1>4. Append(lib.undo, Top(lib.redo)) \in Seq(Entry)
  BY <1>1, <1>2, AppendProperties
<1> DEFINE c == Restored(lib.content, Top(lib.redo), FALSE)
           u == Append(lib.undo, Top(lib.redo))
           r == Popped(lib.redo)
<1>5. c \in Content /\ u \in Seq(Entry) /\ r \in Seq(Entry)
  BY <1>2, <1>3, <1>4
<1>6. Redone(lib) = [lib EXCEPT !.content = c, !.redo = r, !.undo = u]
  BY DEF Redone
<1> HIDE DEF c, u, r
<1>8. Redone(lib)
       = [revision |-> lib.revision, content |-> c, undo |-> u, redo |-> r]
  BY <1>6 DEF Library
<1> QED
  BY <1>5, <1>8 DEF Library

\* A command that is carried out makes a library of the next revision.
LEMMA AppliedTyped ==
    ASSUME NEW lib \in Library, NEW command \in Commands, Accepted(lib, command)
    PROVE  /\ Applied(lib, command) \in Library
           /\ Applied(lib, command).revision = lib.revision + 1
<1>1. Changed(lib, command) \in Library
  <2>1. CASE command = "undo"
    <3>1. lib.undo # <<>> /\ Changed(lib, command) = Undone(lib)
      BY <2>1 DEF Accepted, Changed, Edits
    <3> QED
      BY <3>1, UndoneTyped
  <2>2. CASE command = "redo"
    <3>1. lib.redo # <<>> /\ Changed(lib, command) = Redone(lib)
      BY <2>2 DEF Accepted, Changed, Edits
    <3> QED
      BY <3>1, RedoneTyped
  <2>3. CASE command \in Edits
    <3>1. Changed(lib, command) = Recorded(lib, command)
      BY <2>3 DEF Changed, Edits
    <3> QED
      BY <2>3, <3>1, RecordedTyped
  <2> QED
    BY <2>1, <2>2, <2>3 DEF Commands
<1>2. lib.revision \in Nat
  BY DEF Library
<1>3. \A new \in Library, n \in Nat :
        [new EXCEPT !.revision = n] \in Library /\ [new EXCEPT !.revision = n].revision = n
  BY DEF Library
<1> QED
  BY <1>1, <1>2, <1>3 DEF Applied

LEMMA WithoutTyped ==
    ASSUME NEW S, NEW s \in Seq(S), NEW o
    PROVE  Without(s, o) \in Seq(S)
<1>1. CASE \E i \in 1..Len(s) : s[i] = o
  <2> DEFINE i == CHOOSE i \in 1..Len(s) : s[i] = o
             new == [k \in 1..(Len(s) - 1) |-> IF k < i THEN s[k] ELSE s[k + 1]]
  <2>1. i \in 1..Len(s) /\ Len(s) \in Nat
    BY <1>1
  <2> HIDE DEF i
  <2>2. \A k \in 1..(Len(s) - 1) : (IF k < i THEN s[k] ELSE s[k + 1]) \in S
    BY <2>1, ElementOfSeq
  <2>3. Len(s) - 1 \in Nat
    BY <2>1
  <2>4. new \in Seq(S)
    BY <2>2, <2>3, IsASeq
  <2>5. Without(s, o) = new
    BY <1>1 DEF Without, i
  <2> QED
    BY <2>4, <2>5
<1>2. CASE ~ \E i \in 1..Len(s) : s[i] = o
  BY <1>2 DEF Without
<1> QED
  BY <1>1, <1>2

LEMMA ExcessTyped ==
    ASSUME NEW S, NEW s \in Seq(S)
    PROVE  Excess(s) \subseteq S
  BY ElementOfSeq DEF Excess

-----------------------------------------------------------------------------
(* What each action does, pointwise. *)

Moves(h, at, op, library, outcome) ==
    /\ host' \in [Host -> HostState]
    /\ host'[h].at = at /\ host'[h].op = op
    /\ host'[h].library = library /\ host'[h].outcome = outcome
    /\ \A k \in Host : k # h => host'[k] = host[k]

Files(o, outcome) ==
    /\ receipt' \in [Operation -> Receipts]
    /\ receipt'[o] = outcome
    /\ \A p \in Operation : p # o => receipt'[p] = receipt[p]

\* A host that moves has a state of its own.
LEMMA MovesTo ==
    ASSUME TypeOK, NEW h \in Host, NEW s \in HostState, host' = [host EXCEPT ![h] = s]
    PROVE  Moves(h, s.at, s.op, s.library, s.outcome)
  BY DEF TypeOK, Moves

LEMMA IdleTyped == Idle \in HostState
  BY DEF Idle, HostState

LEMMA HostTyped ==
    ASSUME TypeOK, NEW h \in Host
    PROVE  /\ host[h] \in HostState
           /\ host[h] = [at |-> host[h].at, op |-> host[h].op, library |-> host[h].library,
                         outcome |-> host[h].outcome, excess |-> host[h].excess]
  BY DEF TypeOK, HostState

\* What the steps between the reservation and the reply leave alone.
Asked == UNCHANGED <<intent, sends, crashes>>

SubmitDoes(h, o) ==
    /\ host[h].at = "idle" /\ receipt[o] = "absent"
    /\ Moves(h, "reserved", o, None, "unknown")
    /\ Files(o, "reserved")
    /\ intent' \in [Operation -> Intent \cup {None}]
    /\ intent'[o] \in Intent
    /\ intent[o] \in Intent => intent'[o] = intent[o]
    /\ \A p \in Operation : p # o => intent'[p] = intent[p]
    /\ sends' \in 0..MaxSends /\ crashes' = crashes
    /\ UNCHANGED <<manifest, writer, completed, told, applied, pruned>>

AskDoes(o) ==
    /\ receipt[o] \in Outcomes
    /\ told' \in [Operation -> SUBSET Outcomes]
    /\ told'[o] = {receipt[o]}
    /\ \A p \in Operation : p # o => told'[p] = told[p]
    /\ UNCHANGED <<manifest, writer, receipt, completed, host, applied, pruned>>
    /\ Asked

LockDoes(h) ==
    /\ host[h].at = "reserved"
    /\ \/ /\ writer = None /\ writer' = h
          /\ Moves(h, "locked", host[h].op, host[h].library, host[h].outcome)
       \/ /\ writer # None /\ writer' = writer
          /\ Moves(h, "executed", host[h].op, None, "not-committed")
    /\ UNCHANGED <<manifest, receipt, completed, told, applied, pruned>>
    /\ Asked

LoadDoes(h) ==
    /\ host[h].at = "locked"
    /\ Moves(h, "loaded", host[h].op, manifest, host[h].outcome)
    /\ UNCHANGED <<manifest, writer, receipt, completed, told, applied, pruned>>
    /\ Asked

PersistDoes(h) ==
    /\ host[h].at = "loaded"
    /\ intent[host[h].op] \in Intent => intent[host[h].op].expected = host[h].library.revision
    /\ host[h].library = manifest /\ intent[host[h].op] \in Intent =>
          manifest' \in Library /\ manifest'.revision = manifest.revision + 1
    /\ applied' = Append(applied, host[h].op)
    /\ Moves(h, "executed", host[h].op, None, "committed")
    /\ writer' = None
    /\ UNCHANGED <<receipt, completed, told, pruned>>
    /\ Asked

RejectDoes(h) ==
    /\ host[h].at = "loaded"
    /\ Moves(h, "executed", host[h].op, None, "not-committed")
    /\ writer' = None
    /\ UNCHANGED <<manifest, receipt, completed, told, applied, pruned>>
    /\ Asked

\* The appended line is an outcome, the host's own, or leaves no receipt.
CompleteDoes(h) ==
    /\ host[h].at = "executed"
    /\ Moves(h, "pruning", host[h].op, host[h].library, host[h].outcome)
    /\ Files(host[h].op, IF receipt[host[h].op] = "reserved" THEN host[h].outcome
                         ELSE "torn")
    /\ completed' \in Seq(Operation)
    /\ UNCHANGED <<manifest, writer, told, applied, pruned>>
    /\ Asked

CompleteFailsDoes(h) ==
    /\ host[h].at = "executed"
    /\ Moves(h, "replying", host[h].op, host[h].library, "unknown")
    /\ \/ UNCHANGED receipt
       \/ Files(host[h].op, "torn")
       \/ receipt[host[h].op] = "reserved" /\ Files(host[h].op, host[h].outcome)
    /\ completed' \in Seq(Operation)
    /\ UNCHANGED <<manifest, writer, told, applied, pruned>>
    /\ Asked

PruneDoes(h, o) ==
    /\ host[h].at = "pruning" /\ receipt[o] # "absent"
    /\ Moves(h, "pruning", host[h].op, host[h].library, host[h].outcome)
    /\ Files(o, "absent")
    /\ pruned' = pruned \cup {o}
    /\ completed' \in Seq(Operation)
    /\ UNCHANGED <<manifest, writer, told, applied>>
    /\ Asked

\* The removals are over, or one has failed.
PrunedDoes(h) ==
    /\ host[h].at = "pruning"
    /\ \E outcome \in {host[h].outcome, "unknown"} :
         Moves(h, "replying", host[h].op, host[h].library, outcome)
    /\ UNCHANGED <<manifest, writer, receipt, completed, told, applied, pruned>>
    /\ Asked

ReplyDoes(h) ==
    /\ host[h].at = "replying"
    /\ Moves(h, "idle", None, None, "unknown")
    /\ \/ told' = told
       \/ /\ host[h].outcome \in Outcomes
          /\ told' = [told EXCEPT ![host[h].op] = @ \cup {host[h].outcome}]
    /\ UNCHANGED <<manifest, writer, receipt, completed, applied, pruned>>
    /\ Asked

CrashDoes(h) ==
    /\ Moves(h, "idle", None, None, "unknown")
    /\ writer' = IF writer = h THEN None ELSE writer
    /\ crashes' \in 0..MaxCrashes
    /\ UNCHANGED <<manifest, receipt, completed, intent, told, applied, pruned, sends>>

LEMMA SubmitEffect ==
    ASSUME TypeOK, NEW h \in Host, NEW o \in Operation, NEW expected \in Nat,
           NEW command \in Commands, Submit(h, o, expected, command)
    PROVE  SubmitDoes(h, o)
<1> DEFINE s == [Idle EXCEPT !.at = "reserved", !.op = o]
           i == [expected |-> expected, command |-> command]
<1>1. host' = [host EXCEPT ![h] = s]
  BY DEF Submit
<1>2. /\ s \in HostState
      /\ s.at = "reserved" /\ s.op = o /\ s.library = None /\ s.outcome = "unknown"
  BY DEF HostState, Idle
<1>3. Moves(h, s.at, s.op, s.library, s.outcome)
  BY <1>1, <1>2, MovesTo
<1>4. Moves(h, "reserved", o, None, "unknown")
  BY <1>2, <1>3
<1>5. i \in Intent
  BY DEF Intent
<1>6. /\ intent[o] = None \/ intent[o] = i
      /\ intent' = [intent EXCEPT ![o] = i]
  BY DEF Submit
<1> HIDE DEF i
<1>7. /\ intent' \in [Operation -> Intent \cup {None}]
      /\ intent'[o] \in Intent
      /\ intent[o] \in Intent => intent'[o] = intent[o]
      /\ \A p \in Operation : p # o => intent'[p] = intent[p]
  BY <1>5, <1>6, NoneAssumption DEF TypeOK
<1>8. Files(o, "reserved")
  BY DEF Submit, TypeOK, Files, Receipts
<1>9. /\ host[h].at = "idle" /\ receipt[o] = "absent"
      /\ sends' \in 0..MaxSends /\ crashes' = crashes
      /\ UNCHANGED <<manifest, writer, completed, told, applied, pruned>>
  BY BoundsAssumption DEF Submit, Reservable, TypeOK
<1> QED
  BY <1>4, <1>7, <1>8, <1>9 DEF SubmitDoes

LEMMA AskEffect ==
    ASSUME TypeOK, NEW h \in Host, NEW o \in Operation, Ask(h, o)
    PROVE  AskDoes(o)
  BY DEF Ask, AskDoes, TypeOK, Outcomes, Asked

LEMMA LockEffect ==
    ASSUME TypeOK, NEW h \in Host, Lock(h)
    PROVE  LockDoes(h)
<1> DEFINE s == [host[h] EXCEPT !.at = "locked"]
           t == [host[h] EXCEPT !.at = "executed", !.library = None,
                                !.outcome = "not-committed"]
<1>1. host[h] \in HostState
  BY DEF TypeOK
<1>2. s \in HostState /\ t \in HostState
  BY <1>1 DEF HostState, Outcomes
<1>3. /\ s.at = "locked" /\ s.op = host[h].op /\ s.library = host[h].library
      /\ s.outcome = host[h].outcome
      /\ t.at = "executed" /\ t.op = host[h].op /\ t.library = None
      /\ t.outcome = "not-committed"
  BY <1>1 DEF HostState
<1>4. CASE writer = None
  <2>1. writer' = h /\ host' = [host EXCEPT ![h] = s]
    BY <1>1, <1>4 DEF Lock, Free, HostState
  <2>2. Moves(h, s.at, s.op, s.library, s.outcome)
    BY <1>2, <2>1, MovesTo
  <2> QED
    BY <1>3, <1>4, <2>1, <2>2 DEF Lock, LockDoes, Asked
<1>5. CASE writer # None
  <2>1. writer' = writer /\ host' = [host EXCEPT ![h] = t]
    BY <1>1, <1>5 DEF Lock, Free, Executed, HostState
  <2>2. Moves(h, t.at, t.op, t.library, t.outcome)
    BY <1>2, <2>1, MovesTo
  <2> QED
    BY <1>3, <1>5, <2>1, <2>2 DEF Lock, LockDoes, Asked
<1> QED
  BY <1>4, <1>5

LEMMA LoadEffect ==
    ASSUME TypeOK, NEW h \in Host, Load(h)
    PROVE  LoadDoes(h)
<1> DEFINE s == [host[h] EXCEPT !.at = "loaded", !.library = manifest]
<1>1. host[h] \in HostState
  BY DEF TypeOK
<1>2. host' = [host EXCEPT ![h] = s]
  BY <1>1 DEF Load, HostState
<1>3. s \in HostState
  BY <1>1 DEF HostState, Outcomes, TypeOK
<1>4. s.at = "loaded" /\ s.op = host[h].op /\ s.library = manifest /\ s.outcome = host[h].outcome
  BY <1>1 DEF HostState
<1>5. Moves(h, "loaded", host[h].op, manifest, host[h].outcome)
  BY <1>2, <1>3, <1>4, MovesTo
<1> QED
  BY <1>5 DEF Load, LoadDoes, Asked

LEMMA PersistEffect ==
    ASSUME TypeOK, NEW h \in Host, Persist(h)
    PROVE  PersistDoes(h)
<1> DEFINE s == [host[h] EXCEPT !.at = "executed", !.library = None, !.outcome = "committed"]
<1>1. host[h] \in HostState
  BY DEF TypeOK
<1>2. host' = [host EXCEPT ![h] = s]
  BY <1>1 DEF Persist, Executed, HostState
<1>3. s \in HostState
  BY <1>1 DEF HostState, Outcomes, TypeOK
<1>4. s.at = "executed" /\ s.op = host[h].op /\ s.library = None /\ s.outcome = "committed"
  BY <1>1 DEF HostState
<1>5. Moves(h, "executed", host[h].op, None, "committed")
  BY <1>2, <1>3, <1>4, MovesTo
<1>6. /\ Current(host[h].library, intent[host[h].op])
      /\ Accepted(host[h].library, intent[host[h].op].command)
      /\ manifest' = Applied(host[h].library, intent[host[h].op].command)
  BY DEF Persist, Carried
<1>7. ASSUME host[h].library = manifest, intent[host[h].op] \in Intent
      PROVE  manifest' \in Library /\ manifest'.revision = manifest.revision + 1
  <2>1. intent[host[h].op].command \in Commands /\ manifest \in Library
    BY <1>7 DEF Intent, TypeOK
  <2> QED
    BY <1>6, <1>7, <2>1, AppliedTyped
<1> QED
  BY <1>5, <1>6, <1>7 DEF Persist, PersistDoes, Asked, Current

LEMMA RejectEffect ==
    ASSUME TypeOK, NEW h \in Host, Reject(h)
    PROVE  RejectDoes(h)
<1> DEFINE s == [host[h] EXCEPT !.at = "executed", !.library = None, !.outcome = "not-committed"]
<1>1. host[h] \in HostState
  BY DEF TypeOK
<1>2. host' = [host EXCEPT ![h] = s]
  BY <1>1 DEF Reject, Executed, HostState
<1>3. s \in HostState
  BY <1>1 DEF HostState, Outcomes, TypeOK
<1>4. s.at = "executed" /\ s.op = host[h].op /\ s.library = None /\ s.outcome = "not-committed"
  BY <1>1 DEF HostState
<1>5. Moves(h, "executed", host[h].op, None, "not-committed")
  BY <1>2, <1>3, <1>4, MovesTo
<1> QED
  BY <1>5 DEF Reject, RejectDoes, Asked

LEMMA AppendedEffect ==
    ASSUME TypeOK, NEW o \in Operation, NEW outcome \in Outcomes \cup {"torn"},
           Appended(o, outcome)
    PROVE  /\ Files(o, IF receipt[o] = "reserved" THEN outcome ELSE "torn")
           /\ completed' \in Seq(Operation)
<1>1. receipt' = [receipt EXCEPT ![o] = IF receipt[o] = "reserved" THEN outcome ELSE "torn"]
  BY DEF Appended
<1>2. Files(o, IF receipt[o] = "reserved" THEN outcome ELSE "torn")
  BY <1>1 DEF TypeOK, Files, Receipts
<1>3. completed \in Seq(Operation)
  BY DEF TypeOK
<1>4. Append(completed, o) \in Seq(Operation) /\ Without(completed, o) \in Seq(Operation)
  BY <1>3, AppendProperties, WithoutTyped
<1>5. completed' = Without(completed, o) \/ completed' = Append(completed, o)
  BY DEF Appended
<1> QED
  BY <1>2, <1>4, <1>5

LEMMA CompleteEffect ==
    ASSUME TypeOK, NEW h \in Host, Complete(h), host[h].op \in Operation,
           host[h].outcome \in Outcomes
    PROVE  CompleteDoes(h)
<1> DEFINE s == [host[h] EXCEPT !.at = "pruning", !.excess = Excess(completed')]
<1>1. host[h] \in HostState
  BY DEF TypeOK
<1>0. /\ Files(host[h].op, IF receipt[host[h].op] = "reserved" THEN host[h].outcome
                           ELSE "torn")
      /\ completed' \in Seq(Operation)
  BY AppendedEffect DEF Complete
<1>9. Excess(completed') \subseteq Operation
  BY <1>0, ExcessTyped
<1>2. host' = [host EXCEPT ![h] = s]
  BY <1>1 DEF Complete, HostState
<1>3. s \in HostState
  BY <1>1, <1>9 DEF HostState
<1>4. /\ s.at = "pruning" /\ s.op = host[h].op
      /\ s.library = host[h].library /\ s.outcome = host[h].outcome
  BY <1>1 DEF HostState
<1>5. Moves(h, "pruning", host[h].op, host[h].library, host[h].outcome)
  BY <1>2, <1>3, <1>4, MovesTo
<1> QED
  BY <1>0, <1>5 DEF Complete, CompleteDoes, Asked

LEMMA CompleteFailsEffect ==
    ASSUME TypeOK, NEW h \in Host, CompleteFails(h), host[h].op \in Operation,
           host[h].outcome \in Outcomes
    PROVE  CompleteFailsDoes(h)
<1> DEFINE s == [host[h] EXCEPT !.at = "replying", !.outcome = "unknown"]
<1>1. host[h] \in HostState
  BY DEF TypeOK
<1>2. host' = [host EXCEPT ![h] = s]
  BY <1>1 DEF CompleteFails, HostState
<1>3. s \in HostState
  BY <1>1 DEF HostState, Outcomes, TypeOK
<1>4. s.at = "replying" /\ s.op = host[h].op /\ s.library = host[h].library /\ s.outcome = "unknown"
  BY <1>1 DEF HostState
<1>5. Moves(h, "replying", host[h].op, host[h].library, "unknown")
  BY <1>2, <1>3, <1>4, MovesTo
<1>6. CASE UNCHANGED <<receipt, completed>>
  BY <1>5, <1>6 DEF CompleteFails, CompleteFailsDoes, Asked, TypeOK
<1>7. CASE Appended(host[h].op, "torn")
  BY <1>5, <1>7, AppendedEffect DEF CompleteFails, CompleteFailsDoes, Asked
<1>8. CASE Appended(host[h].op, host[h].outcome)
  BY <1>5, <1>8, AppendedEffect DEF CompleteFails, CompleteFailsDoes, Asked
<1> QED
  BY <1>6, <1>7, <1>8 DEF CompleteFails

LEMMA PruneEffect ==
    ASSUME TypeOK, NEW h \in Host, Prune(h)
    PROVE  \E o \in Operation : PruneDoes(h, o)
<1>1. PICK o \in host[h].excess :
         /\ receipt[o] # "absent"
         /\ receipt' = [receipt EXCEPT ![o] = "absent"]
         /\ completed' = Without(completed, o)
         /\ pruned' = pruned \cup {o}
         /\ host' = [host EXCEPT ![h].excess = @ \ {o}]
  BY DEF Prune
<1> DEFINE s == [host[h] EXCEPT !.excess = host[h].excess \ {o}]
<1>2. host[h] \in HostState
  BY DEF TypeOK
<1>3. o \in Operation
  BY <1>2 DEF HostState
<1>4. host' = [host EXCEPT ![h] = s]
  BY <1>1, <1>2 DEF HostState
<1>5. s \in HostState
  BY <1>2 DEF HostState
<1>6. /\ s.at = host[h].at /\ s.op = host[h].op /\ s.library = host[h].library
      /\ s.outcome = host[h].outcome
  BY <1>2 DEF HostState
<1>7. host[h].at = "pruning"
  BY DEF Prune
<1>8. Moves(h, "pruning", host[h].op, host[h].library, host[h].outcome)
  BY <1>4, <1>5, <1>6, <1>7, MovesTo
<1>9. Files(o, "absent")
  BY <1>1, <1>3 DEF Files, TypeOK, Receipts
<1>10. completed' \in Seq(Operation)
  BY <1>1, WithoutTyped DEF TypeOK
<1> QED
  BY <1>1, <1>3, <1>7, <1>8, <1>9, <1>10 DEF Prune, PruneDoes, Asked

LEMMA PruneFailsEffect ==
    ASSUME TypeOK, NEW h \in Host, PruneFails(h)
    PROVE  PrunedDoes(h)
<1> DEFINE s == [host[h] EXCEPT !.at = "replying", !.outcome = "unknown", !.excess = {}]
<1>1. host[h] \in HostState
  BY DEF TypeOK
<1>2. host' = [host EXCEPT ![h] = s]
  BY <1>1 DEF PruneFails, HostState
<1>3. s \in HostState
  BY <1>1 DEF HostState, Outcomes, TypeOK
<1>4. s.at = "replying" /\ s.op = host[h].op /\ s.library = host[h].library /\ s.outcome = "unknown"
  BY <1>1 DEF HostState
<1>5. Moves(h, "replying", host[h].op, host[h].library, "unknown")
  BY <1>2, <1>3, <1>4, MovesTo
<1> QED
  BY <1>5 DEF PruneFails, PrunedDoes, Asked

LEMMA PrunedEffect ==
    ASSUME TypeOK, NEW h \in Host, Pruned(h)
    PROVE  PrunedDoes(h)
<1> DEFINE s == [host[h] EXCEPT !.at = "replying"]
<1>1. host[h] \in HostState
  BY DEF TypeOK
<1>2. host' = [host EXCEPT ![h] = s]
  BY <1>1 DEF Pruned, HostState
<1>3. s \in HostState
  BY <1>1 DEF HostState, Outcomes, TypeOK
<1>4. /\ s.at = "replying" /\ s.op = host[h].op
      /\ s.library = host[h].library /\ s.outcome = host[h].outcome
  BY <1>1 DEF HostState
<1>5. Moves(h, "replying", host[h].op, host[h].library, host[h].outcome)
  BY <1>2, <1>3, <1>4, MovesTo
<1> QED
  BY <1>5 DEF Pruned, PrunedDoes, Asked

LEMMA ReplyEffect ==
    ASSUME TypeOK, NEW h \in Host, Reply(h)
    PROVE  ReplyDoes(h)
<1>1. host' = [host EXCEPT ![h] = Idle]
  BY DEF Reply
<1>2. Moves(h, "idle", None, None, "unknown")
  BY <1>1, IdleTyped, MovesTo DEF Idle
<1> QED
  BY <1>2 DEF Reply, ReplyDoes, Asked

LEMMA CrashEffect ==
    ASSUME TypeOK, NEW h \in Host, Crash(h)
    PROVE  CrashDoes(h)
<1>1. host' = [host EXCEPT ![h] = Idle]
  BY DEF Crash
<1>2. Moves(h, "idle", None, None, "unknown")
  BY <1>1, IdleTyped, MovesTo DEF Idle
<1>3. crashes' \in 0..MaxCrashes
  BY BoundsAssumption DEF Crash, TypeOK
<1> QED
  BY <1>2, <1>3 DEF Crash, CrashDoes

-----------------------------------------------------------------------------
(* The inductive invariant. *)

LEMMA InitInv == Init => IInv
<1> SUFFICES ASSUME Init
             PROVE  IInv
  OBVIOUS
<1>1. Idle \in HostState
  BY IdleTyped
<1>2. Empty \in Library /\ Empty.revision = 0
  BY DEF Empty, Library, Content, Assets
<1>3. TypeOK
  BY <1>1, <1>2, BoundsAssumption DEF Init, TypeOK, Receipts
<1>4. LockIsHeld /\ OnlyTheSubmitted /\ OneHostKnows
  BY NoneAssumption DEF Init, LockIsHeld, OnlyTheSubmitted, OneHostKnows, Has, Done, Idle
<1>5. NoChangeIsLost /\ AnswersAreTrue
  BY <1>2 DEF Init, NoChangeIsLost, AnswersAreTrue, Outcomes
<1> QED
  BY <1>3, <1>4, <1>5 DEF IInv

\* What has been done stays done, and only what is persisted is added.
LEMMA PersistedIsDone ==
    ASSUME applied \in Seq(Operation), NEW o \in Operation,
           applied' = Append(applied, o)
    PROVE  \A p \in Operation : Done(p)' <=> Done(p) \/ p = o
<1>1. /\ Len(applied) \in Nat /\ Len(applied') = Len(applied) + 1
      /\ \A i \in 1..Len(applied) : applied'[i] = applied[i]
      /\ applied'[Len(applied) + 1] = o
  BY AppendProperties
<1>2. 1..Len(applied') = 1..Len(applied) \cup {Len(applied) + 1}
  BY <1>1
<1> QED
  BY <1>1, <1>2 DEF Done

LEMMA SameIsDone ==
    ASSUME UNCHANGED applied, NEW p
    PROVE  Done(p)' <=> Done(p)
  BY DEF Done

\* AnswersAreTrue, by what is done.
LEMMA TrueAnswers ==
    AnswersAreTrue <=>
        \A o \in Operation \ pruned :
            /\ \A outcome \in told[o] : (outcome = "committed") <=> Done(o)
            /\ receipt[o] \in Outcomes => ((receipt[o] = "committed") <=> Done(o))
  BY DEF AnswersAreTrue, Done

LEMMA TrueAnswersNext ==
    AnswersAreTrue' <=>
        \A o \in Operation \ pruned' :
            /\ \A outcome \in told'[o] : (outcome = "committed") <=> Done(o)'
            /\ receipt'[o] \in Outcomes => ((receipt'[o] = "committed") <=> Done(o)')
  BY DEF AnswersAreTrue, Done

LEMMA SubmitKeeps ==
    ASSUME IInv, NEW h \in Host, NEW o \in Operation, NEW expected \in Nat,
           NEW command \in Commands, Submit(h, o, expected, command)
    PROVE  IInv'
<1> USE DEF IInv
<1>1. SubmitDoes(h, o)
  BY SubmitEffect
<1>8. \A i \in 1..Len(applied) : applied[i] \in Operation
  BY ElementOfSeq DEF TypeOK
<1>2. TypeOK'
  BY <1>1 DEF TypeOK, SubmitDoes, Moves, Files
<1>3. LockIsHeld'
  BY <1>1, NoneAssumption DEF LockIsHeld, SubmitDoes, Moves
<1>4. OnlyTheSubmitted'
  BY <1>1, <1>8 DEF OnlyTheSubmitted, SubmitDoes, Moves
<1>5. NoChangeIsLost'
  BY <1>1, <1>8 DEF NoChangeIsLost, OnlyTheSubmitted, SubmitDoes
<1>6. OneHostKnows'
  BY <1>1, SameIsDone
     DEF OneHostKnows, Has, Untouched, SubmitDoes, Moves, Files, Outcomes, TypeOK
<1>7. AnswersAreTrue'
  BY <1>1, SameIsDone, TrueAnswers, TrueAnswersNext DEF SubmitDoes, Files, Outcomes
<1> QED
  BY <1>2, <1>3, <1>4, <1>5, <1>6, <1>7

LEMMA AskKeeps ==
    ASSUME IInv, NEW h \in Host, NEW o \in Operation, Ask(h, o)
    PROVE  IInv'
<1> USE DEF IInv
<1>1. AskDoes(o)
  BY AskEffect
<1>2. TypeOK'
  BY <1>1 DEF TypeOK, AskDoes, Asked
<1>3. LockIsHeld'
  BY <1>1 DEF LockIsHeld, AskDoes
<1>4. OnlyTheSubmitted'
  BY <1>1 DEF OnlyTheSubmitted, AskDoes, Asked
<1>5. NoChangeIsLost'
  BY <1>1 DEF NoChangeIsLost, AskDoes, Asked
<1>6. OneHostKnows'
  BY <1>1, SameIsDone DEF OneHostKnows, Has, Untouched, AskDoes, Outcomes
<1>7. AnswersAreTrue'
  BY <1>1, SameIsDone, TrueAnswers, TrueAnswersNext DEF AskDoes
<1> QED
  BY <1>2, <1>3, <1>4, <1>5, <1>6, <1>7

LEMMA LockKeeps ==
    ASSUME IInv, NEW h \in Host, Lock(h)
    PROVE  IInv'
<1> USE DEF IInv
<1>1. LockDoes(h)
  BY LockEffect
<1>2. TypeOK'
  BY <1>1 DEF TypeOK, LockDoes, Moves, Asked
<1>3. LockIsHeld'
  BY <1>1, NoneAssumption DEF LockIsHeld, LockDoes, Moves, Asked, Outcomes
<1>4. OnlyTheSubmitted'
  BY <1>1 DEF OnlyTheSubmitted, LockDoes, Moves, Asked
<1>5. NoChangeIsLost'
  BY <1>1 DEF NoChangeIsLost, LockDoes, Moves, Asked
<1>6. OneHostKnows'
  <2>1. CASE Moves(h, "locked", host[h].op, host[h].library, host[h].outcome)
    BY <1>1, <2>1, SameIsDone DEF OneHostKnows, Has, Untouched, LockDoes, Moves
  <2>2. CASE Moves(h, "executed", host[h].op, None, "not-committed")
    BY <1>1, <2>2, SameIsDone DEF OneHostKnows, Has, Untouched, LockDoes, Moves
  <2> QED
    BY <1>1, <2>1, <2>2 DEF LockDoes
<1>7. AnswersAreTrue'
  BY <1>1, SameIsDone, TrueAnswers, TrueAnswersNext
     DEF OneHostKnows, Has, Untouched, LockDoes, Moves, Asked, Outcomes, TypeOK
<1> QED
  BY <1>2, <1>3, <1>4, <1>5, <1>6, <1>7

LEMMA LoadKeeps ==
    ASSUME IInv, NEW h \in Host, Load(h)
    PROVE  IInv'
<1> USE DEF IInv
<1>1. LoadDoes(h)
  BY LoadEffect
<1>2. TypeOK'
  BY <1>1 DEF TypeOK, LoadDoes, Moves, Asked
<1>3. LockIsHeld'
  BY <1>1, NoneAssumption DEF LockIsHeld, LoadDoes, Moves, Asked, Outcomes
<1>4. OnlyTheSubmitted'
  BY <1>1 DEF OnlyTheSubmitted, LoadDoes, Moves, Asked
<1>5. NoChangeIsLost'
  BY <1>1 DEF NoChangeIsLost, LoadDoes, Moves, Asked
<1>6. OneHostKnows'
  BY <1>1, SameIsDone
     DEF OneHostKnows, Has, Untouched, LoadDoes, Moves, Asked, Outcomes, TypeOK
<1>7. AnswersAreTrue'
  BY <1>1, SameIsDone, TrueAnswers, TrueAnswersNext
     DEF OneHostKnows, Has, Untouched, LoadDoes, Moves, Asked, Outcomes, TypeOK
<1> QED
  BY <1>2, <1>3, <1>4, <1>5, <1>6, <1>7

LEMMA PersistKeeps ==
    ASSUME IInv, NEW h \in Host, Persist(h)
    PROVE  IInv'
<1> USE DEF IInv
<1>1. PersistDoes(h)
  BY PersistEffect
<1>8. /\ host[h].op \in Operation /\ intent[host[h].op] \in Intent
      /\ host[h].library = manifest /\ manifest \in Library
      /\ applied \in Seq(Operation)
  BY <1>1 DEF OnlyTheSubmitted, LockIsHeld, PersistDoes, TypeOK
<1>9. /\ applied' \in Seq(Operation) /\ Len(applied) \in Nat
      /\ Len(applied') = Len(applied) + 1
      /\ \A i \in 1..Len(applied) : applied'[i] = applied[i]
      /\ applied'[Len(applied) + 1] = host[h].op
  BY <1>1, <1>8, AppendProperties DEF PersistDoes
<1>10. 1..Len(applied') = 1..Len(applied) \cup {Len(applied) + 1}
  BY <1>9
<1>11. \A p \in Operation : Done(p)' <=> Done(p) \/ p = host[h].op
  BY <1>1, <1>8, PersistedIsDone DEF PersistDoes
<1>2. TypeOK'
  BY <1>1, <1>8, <1>9 DEF TypeOK, PersistDoes, Moves, Asked
<1>3. LockIsHeld'
  BY <1>1, NoneAssumption DEF LockIsHeld, PersistDoes, Moves, Outcomes
<1>4. OnlyTheSubmitted'
  BY <1>1, <1>8, <1>9, <1>10 DEF OnlyTheSubmitted, PersistDoes, Moves, Asked
<1>5. NoChangeIsLost'
  BY <1>1, <1>8, <1>9, <1>10 DEF NoChangeIsLost, PersistDoes, Asked, Library
<1>6. OneHostKnows'
  BY <1>1, <1>8, <1>11 DEF OneHostKnows, Has, Untouched, PersistDoes, Moves, Outcomes
<1>7. AnswersAreTrue'
  BY <1>1, <1>8, <1>11, TrueAnswers, TrueAnswersNext
     DEF OneHostKnows, Has, Untouched, PersistDoes, Outcomes
<1> QED
  BY <1>2, <1>3, <1>4, <1>5, <1>6, <1>7

LEMMA RejectKeeps ==
    ASSUME IInv, NEW h \in Host, Reject(h)
    PROVE  IInv'
<1> USE DEF IInv
<1>1. RejectDoes(h)
  BY RejectEffect
<1>2. TypeOK'
  BY <1>1 DEF TypeOK, RejectDoes, Moves, Asked
<1>3. LockIsHeld'
  BY <1>1, NoneAssumption DEF LockIsHeld, RejectDoes, Moves, Asked, Outcomes
<1>4. OnlyTheSubmitted'
  BY <1>1 DEF OnlyTheSubmitted, RejectDoes, Moves, Asked
<1>5. NoChangeIsLost'
  BY <1>1 DEF NoChangeIsLost, RejectDoes, Moves, Asked
<1>6. OneHostKnows'
  BY <1>1, SameIsDone
     DEF OneHostKnows, Has, Untouched, RejectDoes, Moves, Asked, Outcomes, TypeOK
<1>7. AnswersAreTrue'
  BY <1>1, SameIsDone, TrueAnswers, TrueAnswersNext
     DEF OneHostKnows, Has, Untouched, RejectDoes, Moves, Asked, Outcomes, TypeOK
<1> QED
  BY <1>2, <1>3, <1>4, <1>5, <1>6, <1>7

LEMMA CompleteKeeps ==
    ASSUME IInv, NEW h \in Host, Complete(h)
    PROVE  IInv'
<1> USE DEF IInv
<1>1. CompleteDoes(h) /\ host[h].op \in Operation
  <2>1. host[h].op \in Operation /\ host[h].outcome \in Outcomes
    BY DEF Complete, OnlyTheSubmitted, LockIsHeld
  <2> QED
    BY <2>1, CompleteEffect
<1>2. TypeOK'
  BY <1>1 DEF TypeOK, CompleteDoes, Moves, Asked, Files
<1>3. LockIsHeld'
  BY <1>1, NoneAssumption DEF LockIsHeld, CompleteDoes, Moves
<1>4. OnlyTheSubmitted'
  BY <1>1 DEF OnlyTheSubmitted, CompleteDoes, Moves, Asked
<1>5. NoChangeIsLost'
  BY <1>1 DEF NoChangeIsLost, CompleteDoes, Asked
<1>6. OneHostKnows'
  BY <1>1, SameIsDone
     DEF OneHostKnows, LockIsHeld, Has, Untouched, CompleteDoes, Moves, Files,
              Outcomes
<1>7. AnswersAreTrue'
  BY <1>1, SameIsDone, TrueAnswers, TrueAnswersNext
     DEF OneHostKnows, Has, CompleteDoes, Files, Outcomes
<1> QED
  BY <1>2, <1>3, <1>4, <1>5, <1>6, <1>7

LEMMA CompleteFailsKeeps ==
    ASSUME IInv, NEW h \in Host, CompleteFails(h)
    PROVE  IInv'
<1> USE DEF IInv
<1>1. CompleteFailsDoes(h) /\ host[h].op \in Operation
  <2>1. host[h].op \in Operation /\ host[h].outcome \in Outcomes
    BY DEF CompleteFails, OnlyTheSubmitted, LockIsHeld
  <2> QED
    BY <2>1, CompleteFailsEffect
<1>2. TypeOK'
  BY <1>1 DEF TypeOK, CompleteFailsDoes, Moves, Asked, Files
<1>3. LockIsHeld'
  BY <1>1, NoneAssumption DEF LockIsHeld, CompleteFailsDoes, Moves
<1>4. OnlyTheSubmitted'
  BY <1>1 DEF OnlyTheSubmitted, CompleteFailsDoes, Moves, Asked
<1>5. NoChangeIsLost'
  BY <1>1 DEF NoChangeIsLost, CompleteFailsDoes, Asked
<1>6. OneHostKnows'
  BY <1>1, SameIsDone
     DEF OneHostKnows, LockIsHeld, Has, Untouched, CompleteFailsDoes, Moves, Files,
              Outcomes
<1>7. AnswersAreTrue'
  BY <1>1, SameIsDone, TrueAnswers, TrueAnswersNext
     DEF OneHostKnows, Has, CompleteFailsDoes, Files, Outcomes
<1> QED
  BY <1>2, <1>3, <1>4, <1>5, <1>6, <1>7

LEMMA PruneKeeps ==
    ASSUME IInv, NEW h \in Host, Prune(h)
    PROVE  IInv'
<1> USE DEF IInv
<1>1. PICK o \in Operation : PruneDoes(h, o)
  BY PruneEffect
<1>2. TypeOK'
  BY <1>1 DEF TypeOK, PruneDoes, Moves, Asked, Files
<1>3. LockIsHeld'
  BY <1>1, NoneAssumption DEF LockIsHeld, PruneDoes, Moves
<1>4. OnlyTheSubmitted'
  BY <1>1 DEF OnlyTheSubmitted, PruneDoes, Moves, Asked
<1>5. NoChangeIsLost'
  BY <1>1 DEF NoChangeIsLost, PruneDoes, Asked
<1>6. OneHostKnows'
  BY <1>1, SameIsDone DEF OneHostKnows, Has, Untouched, PruneDoes, Moves, Files
<1>7. AnswersAreTrue'
  BY <1>1, SameIsDone, TrueAnswers, TrueAnswersNext DEF PruneDoes, Files
<1> QED
  BY <1>2, <1>3, <1>4, <1>5, <1>6, <1>7

LEMMA PruneFailsKeeps ==
    ASSUME IInv, NEW h \in Host, PruneFails(h)
    PROVE  IInv'
<1> USE DEF IInv
<1>1. PrunedDoes(h)
  BY PruneFailsEffect
<1>2. TypeOK'
  BY <1>1 DEF TypeOK, PrunedDoes, Moves, Asked
<1>3. LockIsHeld'
  BY <1>1, NoneAssumption DEF LockIsHeld, PrunedDoes, Moves
<1>4. OnlyTheSubmitted'
  BY <1>1 DEF OnlyTheSubmitted, PrunedDoes, Moves, Asked
<1>5. NoChangeIsLost'
  BY <1>1 DEF NoChangeIsLost, PrunedDoes, Asked
<1>6. OneHostKnows'
  BY <1>1, SameIsDone DEF OneHostKnows, Has, Untouched, PrunedDoes, Moves, Outcomes
<1>7. AnswersAreTrue'
  BY <1>1, SameIsDone, TrueAnswers, TrueAnswersNext DEF PrunedDoes
<1> QED
  BY <1>2, <1>3, <1>4, <1>5, <1>6, <1>7

LEMMA PrunedKeeps ==
    ASSUME IInv, NEW h \in Host, Pruned(h)
    PROVE  IInv'
<1> USE DEF IInv
<1>1. PrunedDoes(h)
  BY PrunedEffect
<1>2. TypeOK'
  BY <1>1 DEF TypeOK, PrunedDoes, Moves, Asked
<1>3. LockIsHeld'
  BY <1>1, NoneAssumption DEF LockIsHeld, PrunedDoes, Moves
<1>4. OnlyTheSubmitted'
  BY <1>1 DEF OnlyTheSubmitted, PrunedDoes, Moves, Asked
<1>5. NoChangeIsLost'
  BY <1>1 DEF NoChangeIsLost, PrunedDoes, Asked
<1>6. OneHostKnows'
  BY <1>1, SameIsDone DEF OneHostKnows, Has, Untouched, PrunedDoes, Moves, Outcomes
<1>7. AnswersAreTrue'
  BY <1>1, SameIsDone, TrueAnswers, TrueAnswersNext DEF PrunedDoes
<1> QED
  BY <1>2, <1>3, <1>4, <1>5, <1>6, <1>7

LEMMA ReplyKeeps ==
    ASSUME IInv, NEW h \in Host, Reply(h)
    PROVE  IInv'
<1> USE DEF IInv
<1>1. ReplyDoes(h) /\ host[h].op \in Operation
  BY ReplyEffect DEF ReplyDoes, OnlyTheSubmitted
<1>8. told' \in [Operation -> SUBSET Outcomes]
  BY <1>1 DEF ReplyDoes, TypeOK
<1>9. \A p \in Operation : \/ told'[p] = told[p]
                              \/ /\ p = host[h].op /\ host[h].outcome \in Outcomes
                                 /\ told'[p] = told[p] \cup {host[h].outcome}
  BY <1>1 DEF ReplyDoes, TypeOK
<1>2. TypeOK'
  BY <1>1, <1>8 DEF TypeOK, ReplyDoes, Moves, Asked
<1>3. LockIsHeld'
  BY <1>1, NoneAssumption DEF LockIsHeld, ReplyDoes, Moves
<1>4. OnlyTheSubmitted'
  BY <1>1 DEF OnlyTheSubmitted, ReplyDoes, Moves, Asked
<1>5. NoChangeIsLost'
  BY <1>1 DEF NoChangeIsLost, ReplyDoes, Asked
<1>6. OneHostKnows'
  BY <1>1, <1>9, SameIsDone DEF OneHostKnows, Has, Untouched, ReplyDoes, Moves
<1>7. AnswersAreTrue'
  BY <1>1, <1>9, SameIsDone, TrueAnswers, TrueAnswersNext DEF OneHostKnows, Has, ReplyDoes
<1> QED
  BY <1>2, <1>3, <1>4, <1>5, <1>6, <1>7

LEMMA CrashKeeps ==
    ASSUME IInv, NEW h \in Host, Crash(h)
    PROVE  IInv'
<1> USE DEF IInv
<1>1. CrashDoes(h)
  BY CrashEffect
<1>2. TypeOK'
  BY <1>1 DEF TypeOK, CrashDoes, Moves
<1>3. LockIsHeld'
  BY <1>1, NoneAssumption DEF LockIsHeld, CrashDoes, Moves
<1>4. OnlyTheSubmitted'
  BY <1>1 DEF OnlyTheSubmitted, CrashDoes, Moves
<1>5. NoChangeIsLost'
  BY <1>1 DEF NoChangeIsLost, CrashDoes
<1>6. OneHostKnows'
  BY <1>1, SameIsDone DEF OneHostKnows, Has, Untouched, CrashDoes, Moves
<1>7. AnswersAreTrue'
  BY <1>1, SameIsDone, TrueAnswers, TrueAnswersNext DEF CrashDoes
<1> QED
  BY <1>2, <1>3, <1>4, <1>5, <1>6, <1>7

LEMMA NextInv == IInv /\ [Next]_vars => IInv'
<1> SUFFICES ASSUME IInv, [Next]_vars
             PROVE  IInv'
  OBVIOUS
<1>1. CASE UNCHANGED vars
  <2>1. /\ TypeOK' /\ LockIsHeld' /\ OnlyTheSubmitted' /\ NoChangeIsLost'
        /\ AnswersAreTrue'
    BY <1>1 DEF IInv, vars, TypeOK, LockIsHeld, OnlyTheSubmitted, NoChangeIsLost,
                AnswersAreTrue
  <2>2. OneHostKnows'
    BY <1>1 DEF IInv, vars, OneHostKnows, Has, Untouched, Done
  <2> QED
    BY <2>1, <2>2 DEF IInv
<1>2. CASE Next
  <2>1. PICK h \in Host :
            \/ \E o \in Operation, expected \in 0..manifest.revision, command \in Commands :
                 Submit(h, o, expected, command)
            \/ \E o \in Operation : Ask(h, o)
            \/ Lock(h) \/ Load(h) \/ Persist(h) \/ Reject(h)
            \/ Complete(h) \/ CompleteFails(h) \/ Prune(h) \/ PruneFails(h) \/ Pruned(h)
            \/ Reply(h) \/ Crash(h)
    BY <1>2 DEF Next
  <2>2. ASSUME NEW o \in Operation, NEW expected \in 0..manifest.revision,
               NEW command \in Commands, Submit(h, o, expected, command)
        PROVE  IInv'
    <3>1. expected \in Nat
      BY DEF IInv, TypeOK, Library
    <3> QED
      BY <2>2, <3>1, SubmitKeeps
  <2>3. ASSUME NEW o \in Operation, Ask(h, o)
        PROVE  IInv'
    BY <2>3, AskKeeps
  <2> QED
    BY <2>1, <2>2, <2>3, LockKeeps, LoadKeeps, PersistKeeps, RejectKeeps, CompleteKeeps,
       CompleteFailsKeeps, PruneKeeps, PruneFailsKeeps, PrunedKeeps, ReplyKeeps, CrashKeeps
<1> QED
  BY <1>1, <1>2

THEOREM Invariance == Spec => []IInv
  BY InitInv, NextInv, PTL DEF Spec

-----------------------------------------------------------------------------
(* What follows. *)

\* The manifest, the lock, the ledger and the hosts have their types.
THEOREM TypeCorrect == Spec => []TypeOK
<1>1. IInv => TypeOK
  BY DEF IInv
<1> QED
  BY <1>1, Invariance, PTL

\* Each persisted command changed the very library that the one before it left,
\* for any number of hosts. (PersonalLibraryStore::apply)
THEOREM EveryChangeIsKept == Spec => []NoChangeIsLost
<1>1. IInv => NoChangeIsLost
  BY DEF IInv
<1> QED
  BY <1>1, Invariance, PTL

\* A command changes the library once at most, also when it is delivered again after
\* its receipt was pruned. (reserve, apply)
THEOREM ChangedAtMostOnce == Spec => []AppliedAtMostOnce
<1>1. IInv => AppliedAtMostOnce
  <2> SUFFICES ASSUME IInv, NEW i \in 1..Len(applied), NEW j \in 1..Len(applied),
                      applied[i] = applied[j]
               PROVE  i = j
    BY DEF AppliedAtMostOnce
  <2>1. intent[applied[i]].expected = i - 1 /\ intent[applied[j]].expected = j - 1
    BY DEF IInv, NoChangeIsLost
  <2>2. i \in Nat /\ j \in Nat
    BY DEF IInv, TypeOK
  <2> QED
    BY <2>1, <2>2
<1> QED
  BY <1>1, Invariance, PTL

\* No definite outcome, told or kept, is false. (finish, complete, lookup)
THEOREM AnswersStayTrue == Spec => []AnswersAreTrue
<1>1. IInv => AnswersAreTrue
  BY DEF IInv
<1> QED
  BY <1>1, Invariance, PTL
-----------------------------------------------------------------------------
(* Induction over numbers, for what is defined by recursion. *)

Below == OpToRel(<, Nat)

\* Every set of numbers that is not empty has a least one.
LEMMA LeastNumber ==
    ASSUME NEW T, T \subseteq Nat, T # {}
    PROVE  \E x \in T : \A y \in T : x <= y
<1>1. IsWellFoundedOn(Below, Nat)
  BY NatLessThanWellFounded DEF Below
<1>2. \A x, y \in Nat : y < x => <<y, x>> \in Below
  BY DEF Below, OpToRel
<1>3. PICK x \in T : \A y \in T : ~ (<<y, x>> \in Below)
  BY <1>1, WFMin
<1>4. \A y \in T : ~(y < x)
  BY <1>2, <1>3
<1> QED
  BY <1>3, <1>4

\* What holds of 0, and of a number when it holds of the one before, holds up to n.
LEMMA InductionUpTo ==
    ASSUME NEW n \in Nat, NEW S, 0 \in S, \A k \in 1..n : k - 1 \in S => k \in S
    PROVE  0..n \subseteq S
<1> SUFFICES ASSUME ~(0..n \subseteq S)
             PROVE  FALSE
  OBVIOUS
<1> DEFINE T == {k \in 0..n : k \notin S}
<1>1. T \subseteq Nat /\ T # {}
  OBVIOUS
<1>2. PICK x \in T : \A y \in T : x <= y
  <2> HIDE DEF T
  <2> QED
    BY <1>1, LeastNumber
<1>3. x \in 1..n /\ x \notin S
  BY <1>2
<1>4. x - 1 \in 0..n /\ ~(x <= x - 1)
  BY <1>3
<1>5. x - 1 \in S
  BY <1>2, <1>4
<1> QED
  BY <1>3, <1>5

-----------------------------------------------------------------------------
(* The chains of a library: what it can be taken back to, and forward. *)

\* The contents that a chain passes through, from its last entry to its first.
Passes(chain, c, undo, f) ==
    /\ f \in [0..Len(chain) -> Content]
    /\ f[0] = c
    /\ \A n \in 1..Len(chain) :
          /\ Fits(f[n - 1], chain[Len(chain) + 1 - n], undo)
          /\ f[n] = Restored(f[n - 1], chain[Len(chain) + 1 - n], undo)

Leads(chain, c, undo) == \E f : Passes(chain, c, undo, f)

Sound(lib) ==
    /\ Len(lib.undo) + Len(lib.redo) <= HistoryLimit
    /\ Valid(lib.content)
    /\ Leads(lib.undo, lib.content, TRUE)
    /\ Leads(lib.redo, lib.content, FALSE)

\* Only the last entry is popped.
LEMMA PoppedKeeps ==
    ASSUME NEW S, NEW s \in Seq(S), Len(s) # 0
    PROVE  /\ Len(Popped(s)) = Len(s) - 1
           /\ \A i \in 1..(Len(s) - 1) : Popped(s)[i] = s[i]
<1> DEFINE n == Len(s) - 1
<1>1. Len(s) \in Nat /\ n \in Nat /\ n \in Int /\ 1 \in Int
  BY LenProperties
<1>2. \A i \in 1..n : s[i] \in S
  BY <1>1, ElementOfSeq
<1>3. /\ Len(SubSeq(s, 1, n)) = IF 1 <= n THEN n - 1 + 1 ELSE 0
      /\ \A i \in 1..(n - 1 + 1) : SubSeq(s, 1, n)[i] = s[1 + i - 1]
  <2> HIDE DEF n
  <2> QED
    BY <1>1, <1>2, SubSeqProperties
<1>4. Popped(s) = SubSeq(s, 1, n)
  BY DEF Popped
<1> HIDE DEF n
<1>5. Len(Popped(s)) = n
  BY <1>1, <1>3, <1>4
<1>6. ASSUME NEW i \in 1..n PROVE Popped(s)[i] = s[i]
  <2>1. i \in 1..(n - 1 + 1) /\ 1 + i - 1 = i
    BY <1>1
  <2> QED
    BY <1>3, <1>4, <2>1
<1> QED
  BY <1>5, <1>6 DEF n

LEMMA EmptyLeads ==
    ASSUME NEW c \in Content, NEW undo \in BOOLEAN
    PROVE  Leads(<<>>, c, undo)
<1> DEFINE f == [n \in 0..0 |-> c]
<1>1. Len(<<>>) = 0
  OBVIOUS
<1>2. Passes(<<>>, c, undo, f)
  BY <1>1 DEF Passes
<1> QED
  BY <1>2 DEF Leads

\* One more entry, that leads from the new content to the old one.
LEMMA AppendLeads ==
    ASSUME NEW chain \in Seq(Entry), NEW c, NEW undo \in BOOLEAN, Leads(chain, c, undo),
           NEW d \in Content, NEW e \in Entry, Fits(d, e, undo), Restored(d, e, undo) = c
    PROVE  Leads(Append(chain, e), d, undo)
<1>1. PICK f : Passes(chain, c, undo, f)
  BY DEF Leads
<1> DEFINE more == Append(chain, e)
           g == [n \in 0..Len(more) |-> IF n = 0 THEN d ELSE f[n - 1]]
<1>2. /\ Len(chain) \in Nat /\ Len(more) = Len(chain) + 1
      /\ more[Len(chain) + 1] = e
      /\ \A i \in 1..Len(chain) : more[i] = chain[i]
  BY AppendProperties, LenProperties
<1> HIDE DEF more
<1>3. g \in [0..Len(more) -> Content] /\ g[0] = d
  <2>1. \A n \in 1..Len(more) : n - 1 \in 0..Len(chain)
    BY <1>2
  <2>2. ASSUME NEW n \in 0..Len(more) PROVE g[n] \in Content
    BY <1>1, <1>2, <2>1 DEF Passes
  <2> QED
    BY <1>2, <2>2
<1>4. ASSUME NEW n \in 1..Len(more)
      PROVE  /\ Fits(g[n - 1], more[Len(more) + 1 - n], undo)
             /\ g[n] = Restored(g[n - 1], more[Len(more) + 1 - n], undo)
  <2>1. CASE n = 1
    <3>1. Len(more) + 1 - n = Len(chain) + 1 /\ n - 1 = 0
      BY <1>2, <2>1
    <3>2. g[n - 1] = d /\ g[n] = f[0]
      BY <1>2, <1>3, <2>1, <3>1
    <3> QED
      BY <1>1, <1>2, <3>1, <3>2 DEF Passes
  <2>2. CASE n # 1
    <3> DEFINE m == n - 1
    <3>1. m \in 1..Len(chain) /\ n - 1 = m
      BY <1>2, <2>2
    <3>2. Len(more) + 1 - n = Len(chain) + 1 - m /\ Len(chain) + 1 - m \in 1..Len(chain)
      BY <1>2, <3>1
    <3>3. g[n] = f[m] /\ g[n - 1] = f[m - 1]
      BY <1>2, <3>1
    <3>4. more[Len(more) + 1 - n] = chain[Len(chain) + 1 - m]
      BY <1>2, <3>2
    <3>5. /\ Fits(f[m - 1], chain[Len(chain) + 1 - m], undo)
          /\ f[m] = Restored(f[m - 1], chain[Len(chain) + 1 - m], undo)
      BY <1>1, <3>1 DEF Passes
    <3> QED
      BY <3>3, <3>4, <3>5
  <2> QED
    BY <2>1, <2>2
<1>5. Passes(more, d, undo, g)
  <2> HIDE DEF g
  <2> QED
    BY <1>3, <1>4 DEF Passes
<1> QED
  BY <1>5 DEF Leads, more

\* The last entry of a chain fits, and the others lead on from what it restores.
LEMMA PoppedLeads ==
    ASSUME NEW chain \in Seq(Entry), chain # <<>>, NEW c, NEW undo \in BOOLEAN,
           Leads(chain, c, undo)
    PROVE  /\ Fits(c, Top(chain), undo)
           /\ Leads(Popped(chain), Restored(c, Top(chain), undo), undo)
<1>1. PICK f : Passes(chain, c, undo, f)
  BY DEF Leads
<1> DEFINE rest == Popped(chain)
           d == Restored(c, Top(chain), undo)
           g == [n \in 0..Len(rest) |-> f[n + 1]]
<1>2. Len(chain) \in Nat /\ Len(chain) # 0 /\ 1 \in 1..Len(chain)
  BY EmptySeq
<1>3. /\ Len(rest) = Len(chain) - 1
      /\ \A i \in 1..(Len(chain) - 1) : rest[i] = chain[i]
  BY <1>2, PoppedKeeps
<1>4. Fits(c, Top(chain), undo) /\ f[1] = d
  <2>1. Len(chain) + 1 - 1 = Len(chain) /\ 1 - 1 = 0
    BY <1>2
  <2> QED
    BY <1>1, <1>2, <2>1 DEF Passes, Top
<1> HIDE DEF rest, d
<1>5. g \in [0..Len(rest) -> Content] /\ g[0] = d
  <2>1. \A n \in 0..Len(rest) : n + 1 \in 0..Len(chain)
    BY <1>2, <1>3
  <2> QED
    BY <1>1, <1>2, <1>3, <1>4, <2>1 DEF Passes
<1>6. ASSUME NEW n \in 1..Len(rest)
      PROVE  /\ Fits(g[n - 1], rest[Len(rest) + 1 - n], undo)
             /\ g[n] = Restored(g[n - 1], rest[Len(rest) + 1 - n], undo)
  <2> DEFINE m == n + 1
  <2>1. /\ m \in 1..Len(chain) /\ m - 1 = n
        /\ Len(rest) + 1 - n = Len(chain) + 1 - m
        /\ Len(chain) + 1 - m \in 1..(Len(chain) - 1)
    BY <1>2, <1>3
  <2>2. g[n] = f[m] /\ g[n - 1] = f[m - 1]
    BY <1>2, <1>3
  <2>3. rest[Len(rest) + 1 - n] = chain[Len(chain) + 1 - m]
    BY <1>3, <2>1
  <2>4. /\ Fits(f[m - 1], chain[Len(chain) + 1 - m], undo)
        /\ f[m] = Restored(f[m - 1], chain[Len(chain) + 1 - m], undo)
    BY <1>1, <2>1 DEF Passes
  <2> QED
    BY <2>2, <2>3, <2>4
<1>7. Passes(rest, d, undo, g)
  <2> HIDE DEF g
  <2> QED
    BY <1>5, <1>6 DEF Passes
<1> QED
  BY <1>4, <1>7 DEF Leads, rest, d

\* A chain that loses its oldest entry still leads back.
LEMMA TailLeads ==
    ASSUME NEW chain \in Seq(Entry), chain # <<>>, NEW c, NEW undo \in BOOLEAN,
           Leads(chain, c, undo)
    PROVE  Leads(Tail(chain), c, undo)
<1>1. PICK f : Passes(chain, c, undo, f)
  BY DEF Leads
<1> DEFINE rest == Tail(chain)
           g == [n \in 0..Len(rest) |-> f[n]]
<1>2. Len(chain) \in Nat /\ Len(chain) # 0
  BY EmptySeq
<1>3. /\ Len(rest) = Len(chain) - 1
      /\ \A i \in 1..(Len(chain) - 1) : rest[i] = chain[i + 1]
  BY <1>2, HeadTailProperties
<1> HIDE DEF rest
<1>5. g \in [0..Len(rest) -> Content] /\ g[0] = c
  <2>1. \A n \in 0..Len(rest) : n \in 0..Len(chain)
    BY <1>2, <1>3
  <2> QED
    BY <1>1, <1>2, <1>3, <2>1 DEF Passes
<1>6. ASSUME NEW n \in 1..Len(rest)
      PROVE  /\ Fits(g[n - 1], rest[Len(rest) + 1 - n], undo)
             /\ g[n] = Restored(g[n - 1], rest[Len(rest) + 1 - n], undo)
  <2>1. /\ n \in 1..Len(chain)
        /\ Len(rest) + 1 - n \in 1..(Len(chain) - 1)
        /\ Len(rest) + 1 - n + 1 = Len(chain) + 1 - n
    BY <1>2, <1>3
  <2>2. g[n] = f[n] /\ g[n - 1] = f[n - 1]
    BY <1>2, <1>3
  <2>3. rest[Len(rest) + 1 - n] = chain[Len(chain) + 1 - n]
    BY <1>3, <2>1
  <2>4. /\ Fits(f[n - 1], chain[Len(chain) + 1 - n], undo)
        /\ f[n] = Restored(f[n - 1], chain[Len(chain) + 1 - n], undo)
    BY <1>1, <2>1 DEF Passes
  <2> QED
    BY <2>2, <2>3, <2>4
<1>7. Passes(rest, c, undo, g)
  <2> HIDE DEF g
  <2> QED
    BY <1>5, <1>6 DEF Passes
<1> QED
  BY <1>7 DEF Leads, rest
\* A chain that leads somewhere is walked to its end.
LEMMA LedIsWalked ==
    ASSUME NEW lib \in Library, NEW undo \in BOOLEAN,
           Leads(IF undo THEN lib.undo ELSE lib.redo, lib.content, undo)
    PROVE  Walk(lib, undo)
<1> DEFINE chain == IF undo THEN lib.undo ELSE lib.redo
           From(g) == [n \in 0..Len(chain) |->
                         IF n = 0 THEN lib.content
                         ELSE Restored(g[n - 1], chain[Len(chain) + 1 - n], undo)]
           At == CHOOSE g : g = From(g)
<1>1. PICK f : Passes(chain, lib.content, undo, f)
  BY DEF Leads
<1>2. Len(chain) \in Nat
  BY LenProperties DEF Library
<1>3. Walk(lib, undo) <=> \A n \in 1..Len(chain) : Fits(At[n - 1], chain[Len(chain) + 1 - n], undo)
  BY DEF Walk
<1> HIDE DEF chain
<1>4. f = From(f)
  <2>1. \A n \in 0..Len(chain) : n # 0 => n \in 1..Len(chain)
    BY <1>2
  <2>2. \A n \in 0..Len(chain) : f[n] = From(f)[n]
    BY <1>1, <2>1 DEF Passes
  <2>3. f = [n \in 0..Len(chain) |-> f[n]]
    BY <1>1 DEF Passes
  <2> QED
    BY <2>2, <2>3
<1>5. At = From(At)
  <2> HIDE DEF From
  <2> QED
    BY <1>4
<1> HIDE DEF At
<1>6. 0..Len(chain) \subseteq {n \in 0..Len(chain) : At[n] = f[n]}
  <2> DEFINE S == {n \in 0..Len(chain) : At[n] = f[n]}
  <2>1. 0 \in S
    <3>1. At[0] = lib.content
      BY <1>2, <1>5
    <3> QED
      BY <1>1, <1>2, <3>1 DEF Passes
  <2>2. ASSUME NEW n \in 1..Len(chain), n - 1 \in S PROVE n \in S
    <3>1. n \in 0..Len(chain) /\ n # 0
      BY <1>2
    <3>2. /\ At[n] = Restored(At[n - 1], chain[Len(chain) + 1 - n], undo)
          /\ f[n] = Restored(f[n - 1], chain[Len(chain) + 1 - n], undo)
      BY <1>4, <1>5, <3>1
    <3>3. At[n - 1] = f[n - 1]
      BY <2>2
    <3> QED
      BY <3>1, <3>2, <3>3
  <2> HIDE DEF S
  <2>3. 0..Len(chain) \subseteq S
    BY <1>2, <2>1, <2>2, InductionUpTo
  <2> QED
    BY <2>3 DEF S
<1>7. ASSUME NEW n \in 1..Len(chain)
      PROVE  Fits(At[n - 1], chain[Len(chain) + 1 - n], undo)
  <2>1. n - 1 \in 0..Len(chain)
    BY <1>2
  <2>2. At[n - 1] = f[n - 1]
    BY <1>6, <2>1
  <2> QED
    BY <1>1, <2>2 DEF Passes
<1> QED
  BY <1>3, <1>7

LEMMA SoundOpens ==
    ASSUME NEW lib \in Library, Sound(lib)
    PROVE  Opens(lib)
<1>1. Walk(lib, TRUE) /\ Walk(lib, FALSE)
  BY LedIsWalked DEF Sound
<1> QED
  BY <1>1 DEF Sound, Opens

\* Taking an edit back restores what was there, and carrying it out again what it made.
LEMMA EditsAreTakenBack ==
    ASSUME NEW c \in Content, NEW edit \in Edits, Valid(c), Allowed(c, edit)
    PROVE  /\ Valid(Edited(c, edit))
           /\ Fits(Edited(c, edit), EntryOf(c, edit), TRUE)
           /\ Restored(Edited(c, edit), EntryOf(c, edit), TRUE) = c
<1> USE DEF Content, Assets, Valid
<1>1. CASE edit = "create-collection"
  BY <1>1 DEF Edited, EntryOf, Fits, Restored, Allowed
<1>2. CASE edit = "import"
  BY <1>2 DEF Edited, EntryOf, Fits, Restored, Allowed
<1>3. CASE edit = "move"
  BY <1>3 DEF Edited, EntryOf, Fits, Restored, Allowed
<1>4. CASE edit = "remove"
  BY <1>4 DEF Edited, EntryOf, Fits, Restored, Allowed
<1> QED
  BY <1>1, <1>2, <1>3, <1>4 DEF Edits

LEMMA EntriesTurnAround ==
    ASSUME NEW c \in Content, NEW e \in Entry, NEW undo \in BOOLEAN, Valid(c), Fits(c, e, undo)
    PROVE  /\ Valid(Restored(c, e, undo))
           /\ Fits(Restored(c, e, undo), e, ~undo)
           /\ Restored(Restored(c, e, undo), e, ~undo) = c
<1> USE DEF Content, Assets, Valid
<1>1. CASE e \in CollectionEntry /\ undo
  BY <1>1 DEF CollectionEntry, Fits, Restored
<1>2. CASE e \in CollectionEntry /\ ~undo
  BY <1>2 DEF CollectionEntry, Fits, Restored
<1>3. CASE e \in AssetEntry /\ undo
  BY <1>3 DEF AssetEntry, Fits, Restored
<1>4. CASE e \in AssetEntry /\ ~undo
  BY <1>4 DEF AssetEntry, Fits, Restored
<1> QED
  BY <1>1, <1>2, <1>3, <1>4 DEF Entry
\* An edit can be taken back, and then all that could be before it; what the history
\* has no room for is forgotten from its far end.
LEMMA RecordedSound ==
    ASSUME NEW lib \in Library, Sound(lib), NEW edit \in Edits, Allowed(lib.content, edit)
    PROVE  Sound(Recorded(lib, edit))
<1> DEFINE c == Edited(lib.content, edit)
           e == EntryOf(lib.content, edit)
           more == Append(lib.undo, e)
           kept == IF Len(more) > HistoryLimit THEN Tail(more) ELSE more
<1>1. /\ lib.content \in Content /\ lib.undo \in Seq(Entry) /\ lib.redo \in Seq(Entry)
      /\ HistoryLimit \in Nat
  BY BoundsAssumption DEF Library
<1>2. c \in Content /\ e \in Entry
  BY <1>1, EditsTyped
<1>3. Valid(c) /\ Fits(c, e, TRUE) /\ Restored(c, e, TRUE) = lib.content
  BY <1>1, EditsAreTakenBack DEF Sound
<1>4. /\ Recorded(lib, edit).content = c
      /\ Recorded(lib, edit).undo = kept
      /\ Recorded(lib, edit).redo = <<>>
  BY DEF Recorded, Library
<1> HIDE DEF c, e
<1>5. /\ more \in Seq(Entry) /\ more # <<>>
      /\ Len(more) \in Nat /\ Len(more) = Len(lib.undo) + 1
  BY <1>1, <1>2, AppendProperties, LenProperties
<1>6. Leads(more, c, TRUE)
  BY <1>1, <1>2, <1>3, AppendLeads DEF Sound
<1>7. Len(more) <= HistoryLimit + 1
  <2> DEFINE u == Len(lib.undo)
             r == Len(lib.redo)
  <2>1. u \in Nat /\ r \in Nat /\ u + r <= HistoryLimit
    BY <1>1, LenProperties DEF Sound
  <2>2. Len(more) = u + 1
    BY <1>5
  <2> HIDE DEF more, u, r
  <2> QED
    BY <1>1, <2>1, <2>2
<1> HIDE DEF more
<1>8. Leads(kept, c, TRUE) /\ Len(kept) <= HistoryLimit
  <2>1. CASE Len(more) > HistoryLimit
    <3>1. Len(Tail(more)) = Len(more) - 1 /\ kept = Tail(more)
      BY <1>5, <2>1, HeadTailProperties
    <3>2. Len(more) - 1 <= HistoryLimit
      BY <1>1, <1>5, <1>7
    <3>3. Leads(Tail(more), c, TRUE)
      BY <1>5, <1>6, TailLeads
    <3> HIDE DEF kept
    <3> QED
      BY <3>1, <3>2, <3>3
  <2>2. CASE ~(Len(more) > HistoryLimit)
    <3>1. kept = more /\ Len(more) <= HistoryLimit
      BY <1>1, <1>5, <2>2
    <3> HIDE DEF kept
    <3> QED
      BY <1>6, <3>1
  <2> QED
    BY <2>1, <2>2
<1>9. Leads(<<>>, c, FALSE) /\ Len(<<>>) = 0
  BY <1>2, EmptyLeads
<1>10. Len(kept) \in Nat
  BY <1>5, HeadTailProperties, LenProperties
<1> HIDE DEF kept
<1>11. Len(kept) + Len(<<>>) <= HistoryLimit
  BY <1>1, <1>8, <1>9, <1>10
<1> QED
  BY <1>3, <1>4, <1>8, <1>9, <1>11 DEF Sound

\* What is taken back can be carried out again, for the content is as it then was.
LEMMA UndoneSound ==
    ASSUME NEW lib \in Library, Sound(lib), lib.undo # <<>>
    PROVE  Sound(Undone(lib))
<1> DEFINE c == lib.content
           e == Top(lib.undo)
           d == Restored(c, e, TRUE)
           rest == Popped(lib.undo)
           more == Append(lib.redo, e)
<1>1. c \in Content /\ lib.undo \in Seq(Entry) /\ lib.redo \in Seq(Entry)
  BY DEF Library
<1>2. e \in Entry /\ d \in Content
  BY <1>1, TopProperties, RestoredTyped
<1>3. Fits(c, e, TRUE) /\ Leads(rest, d, TRUE)
  BY <1>1, PoppedLeads DEF Sound
<1>4. Undone(lib).content = d /\ Undone(lib).undo = rest /\ Undone(lib).redo = more
  BY DEF Undone, Library
<1> HIDE DEF d, e
<1>5. Valid(d) /\ Fits(d, e, FALSE) /\ Restored(d, e, FALSE) = c
  BY <1>1, <1>2, <1>3, EntriesTurnAround DEF Sound, d
<1>6. Leads(more, d, FALSE)
  BY <1>1, <1>2, <1>5, AppendLeads DEF Sound
<1>7. Len(rest) + Len(more) = Len(lib.undo) + Len(lib.redo)
  <2>1. Len(lib.undo) \in Nat /\ Len(lib.undo) # 0 /\ Len(lib.redo) \in Nat
    BY <1>1, EmptySeq
  <2>2. Len(rest) = Len(lib.undo) - 1
    BY <1>1, <2>1, PoppedKeeps
  <2>3. Len(more) = Len(lib.redo) + 1
    BY <1>1, <1>2, AppendProperties
  <2> DEFINE u == Len(lib.undo)
             r == Len(lib.redo)
             m == Len(rest)
             n == Len(more)
  <2>4. u \in Nat /\ r \in Nat /\ m = u - 1 /\ n = r + 1
    BY <2>1, <2>2, <2>3
  <2> HIDE DEF u, r, m, n
  <2>5. m + n = u + r
    BY <2>4
  <2> QED
    BY <2>5 DEF u, r, m, n
<1> HIDE DEF rest, more
<1> QED
  BY <1>3, <1>4, <1>5, <1>6, <1>7 DEF Sound

\* And the other way round.
LEMMA RedoneSound ==
    ASSUME NEW lib \in Library, Sound(lib), lib.redo # <<>>
    PROVE  Sound(Redone(lib))
<1> DEFINE c == lib.content
           e == Top(lib.redo)
           d == Restored(c, e, FALSE)
           rest == Popped(lib.redo)
           more == Append(lib.undo, e)
<1>1. c \in Content /\ lib.undo \in Seq(Entry) /\ lib.redo \in Seq(Entry)
  BY DEF Library
<1>2. e \in Entry /\ d \in Content
  BY <1>1, TopProperties, RestoredTyped
<1>3. Fits(c, e, FALSE) /\ Leads(rest, d, FALSE)
  BY <1>1, PoppedLeads DEF Sound
<1>4. Redone(lib).content = d /\ Redone(lib).redo = rest /\ Redone(lib).undo = more
  BY DEF Redone, Library
<1> HIDE DEF d, e
<1>5. Valid(d) /\ Fits(d, e, TRUE) /\ Restored(d, e, TRUE) = c
  BY <1>1, <1>2, <1>3, EntriesTurnAround DEF Sound, d
<1>6. Leads(more, d, TRUE)
  BY <1>1, <1>2, <1>5, AppendLeads DEF Sound
<1>7. Len(more) + Len(rest) = Len(lib.undo) + Len(lib.redo)
  <2>1. Len(lib.redo) \in Nat /\ Len(lib.redo) # 0 /\ Len(lib.undo) \in Nat
    BY <1>1, EmptySeq
  <2>2. Len(rest) = Len(lib.redo) - 1
    BY <1>1, <2>1, PoppedKeeps
  <2>3. Len(more) = Len(lib.undo) + 1
    BY <1>1, <1>2, AppendProperties
  <2> DEFINE u == Len(lib.undo)
             r == Len(lib.redo)
             m == Len(rest)
             n == Len(more)
  <2>4. u \in Nat /\ r \in Nat /\ m = r - 1 /\ n = u + 1
    BY <2>1, <2>2, <2>3
  <2> HIDE DEF u, r, m, n
  <2>5. n + m = u + r
    BY <2>4
  <2> QED
    BY <2>5 DEF u, r, m, n
<1> HIDE DEF rest, more
<1> QED
  BY <1>3, <1>4, <1>5, <1>6, <1>7 DEF Sound

\* A command that is carried out keeps the library sound; the revision is no part of it.
LEMMA AppliedSound ==
    ASSUME NEW lib \in Library, Sound(lib), NEW command \in Commands, Accepted(lib, command)
    PROVE  Sound(Applied(lib, command))
<1>1. Sound(Changed(lib, command)) /\ Changed(lib, command) \in Library
  <2>1. CASE command = "undo"
    <3>1. lib.undo # <<>> /\ Changed(lib, command) = Undone(lib)
      BY <2>1 DEF Accepted, Changed, Edits
    <3> QED
      BY <3>1, UndoneSound, UndoneTyped
  <2>2. CASE command = "redo"
    <3>1. lib.redo # <<>> /\ Changed(lib, command) = Redone(lib)
      BY <2>2 DEF Accepted, Changed, Edits
    <3> QED
      BY <3>1, RedoneSound, RedoneTyped
  <2>3. CASE command \in Edits
    <3>1. command # "undo" /\ command # "redo"
      BY <2>3 DEF Edits
    <3>2. Allowed(lib.content, command) /\ Changed(lib, command) = Recorded(lib, command)
      BY <2>3, <3>1 DEF Accepted, Changed
    <3> QED
      BY <2>3, <3>2, RecordedSound, RecordedTyped
  <2> QED
    BY <2>1, <2>2, <2>3 DEF Commands
<1>2. /\ Applied(lib, command).content = Changed(lib, command).content
      /\ Applied(lib, command).undo = Changed(lib, command).undo
      /\ Applied(lib, command).redo = Changed(lib, command).redo
  <2> DEFINE next == Changed(lib, command)
  <2>1. next \in Library /\ Applied(lib, command) = [next EXCEPT !.revision = lib.revision + 1]
    BY <1>1 DEF Applied
  <2> HIDE DEF next
  <2> QED
    BY <2>1 DEF Library, next
<1> QED
  BY <1>1, <1>2 DEF Sound

LEMMA SoundStep == IInv /\ Sound(manifest) /\ [Next]_vars => Sound(manifest)'
<1> SUFFICES ASSUME IInv, Sound(manifest), [Next]_vars
             PROVE  Sound(manifest)'
  OBVIOUS
<1>1. ASSUME NEW h \in Host, Persist(h)
      PROVE  Sound(manifest')
  <2>1. host[h].library = manifest /\ intent[host[h].op].command \in Commands
    BY <1>1 DEF IInv, LockIsHeld, OnlyTheSubmitted, Persist, Intent
  <2> QED
    BY <1>1, <2>1, AppliedSound DEF IInv, TypeOK, Persist, Carried
<1>2. CASE UNCHANGED manifest
  BY <1>2 DEF Sound
<1>3. UNCHANGED manifest \/ \E h \in Host : Persist(h)
  BY DEF Next, vars, Submit, Ask, Lock, Load, Reject, Complete, CompleteFails, Prune,
         PruneFails, Pruned, Reply, Crash
<1> QED
  BY <1>1, <1>2, <1>3

\* However many commands, undo and redo among them, were carried out on the library,
\* and however many entries its history had to drop, the manifest that was written can
\* be read again: both chains fit it to their ends. (LibraryHistory::validate)
THEOREM ManifestStaysReadable == Spec => []ManifestAlwaysOpens
<1>1. Init => Sound(manifest)
  <2>1. Empty \in Library /\ Empty.content \in Content
    BY DEF Empty, Library, Content, Assets
  <2>2. Leads(<<>>, Empty.content, TRUE) /\ Leads(<<>>, Empty.content, FALSE)
    BY <2>1, EmptyLeads
  <2>3. Len(<<>>) + Len(<<>>) <= HistoryLimit
    BY BoundsAssumption
  <2>4. Empty.undo = <<>> /\ Empty.redo = <<>> /\ Valid(Empty.content)
    BY DEF Empty, Valid
  <2>5. Sound(Empty)
    BY <2>2, <2>3, <2>4 DEF Sound
  <2> QED
    BY <2>5 DEF Init
<1>2. IInv /\ Sound(manifest) /\ [Next]_vars => Sound(manifest)'
  BY SoundStep
<1>3. IInv /\ Sound(manifest) => ManifestAlwaysOpens
  BY SoundOpens DEF IInv, TypeOK, ManifestAlwaysOpens
<1> QED
  BY <1>1, <1>2, <1>3, Invariance, PTL DEF Spec

-----------------------------------------------------------------------------
(* The hosts together are one library (SharedLibrary). *)

\* What the ledger and the hosts say beyond OneHostKnows, also of operations whose
\* receipt was pruned: a receipt belongs to a request, and "committed" is never wrong.
SaysWhatWasDone ==
    /\ \A o \in Operation : receipt[o] # "absent" => intent[o] \in Intent
    /\ \A o \in Operation : receipt[o] = "committed" => Done(o)
    /\ \A h \in Host : host[h].outcome = "committed" => Done(host[h].op)

LEMMA NextDoes ==
    ASSUME IInv, Next
    PROVE  \E h \in Host :
              \/ \E o \in Operation : SubmitDoes(h, o) \/ AskDoes(o) \/ PruneDoes(h, o)
              \/ LockDoes(h) \/ LoadDoes(h) \/ PersistDoes(h) \/ RejectDoes(h)
              \/ host[h].op \in Operation /\ (CompleteDoes(h) \/ CompleteFailsDoes(h))
              \/ PrunedDoes(h) \/ ReplyDoes(h) \/ CrashDoes(h)
<1> USE DEF IInv
<1>1. PICK h \in Host :
          \/ \E o \in Operation, expected \in 0..manifest.revision, command \in Commands :
               Submit(h, o, expected, command)
          \/ \E o \in Operation : Ask(h, o)
          \/ Lock(h) \/ Load(h) \/ Persist(h) \/ Reject(h)
          \/ Complete(h) \/ CompleteFails(h) \/ Prune(h) \/ PruneFails(h) \/ Pruned(h)
          \/ Reply(h) \/ Crash(h)
  BY DEF Next
<1>2. ASSUME NEW o \in Operation, NEW expected \in 0..manifest.revision,
             NEW command \in Commands, Submit(h, o, expected, command)
      PROVE  SubmitDoes(h, o)
  <2>1. expected \in Nat
    BY DEF TypeOK, Library
  <2> QED
    BY <1>2, <2>1, SubmitEffect
<1>3. ASSUME Complete(h) \/ CompleteFails(h)
      PROVE  host[h].op \in Operation /\ host[h].outcome \in Outcomes
  BY <1>3 DEF Complete, CompleteFails, LockIsHeld, OnlyTheSubmitted
<1> QED
  BY <1>1, <1>2, <1>3, AskEffect, LockEffect, LoadEffect, PersistEffect, RejectEffect,
     CompleteEffect, CompleteFailsEffect, PruneEffect, PruneFailsEffect, PrunedEffect,
     ReplyEffect, CrashEffect

LEMMA InitSays == Init => SaysWhatWasDone
  BY DEF Init, Idle, SaysWhatWasDone

LEMMA SaysStep == IInv /\ SaysWhatWasDone /\ [Next]_vars => SaysWhatWasDone'
<1> SUFFICES ASSUME IInv, SaysWhatWasDone, [Next]_vars
             PROVE  SaysWhatWasDone'
  OBVIOUS
<1> USE DEF SaysWhatWasDone
<1>1. CASE UNCHANGED vars
  BY <1>1 DEF vars, Done
<1>2. CASE Next
  <2>1. PICK h \in Host :
            \/ \E o \in Operation : SubmitDoes(h, o) \/ AskDoes(o) \/ PruneDoes(h, o)
            \/ LockDoes(h) \/ LoadDoes(h) \/ PersistDoes(h) \/ RejectDoes(h)
            \/ host[h].op \in Operation /\ (CompleteDoes(h) \/ CompleteFailsDoes(h))
            \/ PrunedDoes(h) \/ ReplyDoes(h) \/ CrashDoes(h)
    BY <1>2, NextDoes
  <2>2. ASSUME NEW o \in Operation, SubmitDoes(h, o)
        PROVE  SaysWhatWasDone'
    BY <2>2, SameIsDone DEF SubmitDoes, Moves, Files
  <2>3. ASSUME NEW o \in Operation, AskDoes(o)
        PROVE  SaysWhatWasDone'
    BY <2>3, SameIsDone DEF AskDoes, Asked
  <2>4. ASSUME NEW o \in Operation, PruneDoes(h, o)
        PROVE  SaysWhatWasDone'
    BY <2>4, SameIsDone DEF PruneDoes, Moves, Files, Asked
  <2>5. CASE LockDoes(h) \/ LoadDoes(h) \/ RejectDoes(h) \/ PrunedDoes(h)
    BY <2>5, SameIsDone DEF LockDoes, LoadDoes, RejectDoes, PrunedDoes, Moves, Asked
  <2>6. CASE ReplyDoes(h) \/ CrashDoes(h)
    BY <2>6, SameIsDone DEF ReplyDoes, CrashDoes, Moves, Asked
  <2>7. CASE host[h].op \in Operation /\ CompleteDoes(h)
    BY <2>7, SameIsDone DEF CompleteDoes, Moves, Files, Asked, IInv, OnlyTheSubmitted
  <2>8. CASE host[h].op \in Operation /\ CompleteFailsDoes(h)
    BY <2>8, SameIsDone DEF CompleteFailsDoes, Moves, Files, Asked, IInv, OnlyTheSubmitted
  <2>9. CASE PersistDoes(h)
    <3>1. host[h].op \in Operation /\ applied \in Seq(Operation)
      BY <2>9 DEF PersistDoes, IInv, OnlyTheSubmitted, TypeOK
    <3>2. \A p : Done(p) => Done(p)'
      BY <2>9, <3>1, AppendProperties DEF PersistDoes, Done
    <3>3. \A p \in Operation : p = host[h].op => Done(p)'
      BY <2>9, <3>1, PersistedIsDone DEF PersistDoes
    <3>4. /\ host'[h].op = host[h].op
          /\ \A k \in Host : k # h => host'[k] = host[k]
          /\ UNCHANGED <<receipt, intent>>
      BY <2>9 DEF PersistDoes, Moves, Asked
    <3>5. \A k \in Host : host'[k].outcome = "committed"
                              => \E i \in 1..Len(applied') : applied'[i] = host'[k].op
      BY <3>1, <3>2, <3>3, <3>4 DEF Done
    <3> QED
      BY <3>2, <3>4, <3>5 DEF Done
  <2> QED
    BY <2>1, <2>2, <2>3, <2>4, <2>5, <2>6, <2>7, <2>8, <2>9
<1> QED
  BY <1>1, <1>2

\* A submission is a request that is made, or made again; a host that replaces the
\* manifest changes the library; replies and lookups are answers; a removed receipt is
\* forgotten. Everything else is between the hosts and their files.
LEMMA LibraryImplements ==
    ASSUME IInv, SaysWhatWasDone, [Next]_vars
    PROVE  [Shared!Next]_Shared!vars
<1> USE DEF IInv, Shared!vars
<1>1. CASE UNCHANGED vars
  BY <1>1 DEF vars
<1>2. ASSUME NEW h \in Host, NEW o \in Operation, NEW expected \in 0..manifest.revision,
             NEW command \in Commands, Submit(h, o, expected, command)
      PROVE  [Shared!Next]_Shared!vars
  <2>1. /\ intent' = [intent EXCEPT ![o] = [expected |-> expected, command |-> command]]
        /\ UNCHANGED <<manifest, applied, told, pruned>>
    BY <1>2 DEF Submit
  <2>2. CASE intent[o] = None
    <3>1. expected \in 0..Len(applied)
      BY DEF NoChangeIsLost
    <3>2. Shared!Ask(o)
      BY <2>1, <2>2, <3>1 DEF Shared!Ask
    <3> QED
      BY <3>2 DEF Shared!Next
  <2>3. CASE intent[o] = [expected |-> expected, command |-> command]
    BY <2>1, <2>3 DEF TypeOK
  <2> QED
    BY <1>2, <2>2, <2>3 DEF Submit
<1>3. ASSUME NEW h \in Host, NEW o \in Operation, Ask(h, o)
      PROVE  Shared!Next
  <2>1. /\ intent[o] # None /\ told[o] = {} /\ receipt[o] \in Outcomes
        /\ told' = [told EXCEPT ![o] = told[o] \cup {receipt[o]}]
        /\ UNCHANGED <<manifest, applied, intent, pruned>>
    BY <1>3 DEF Ask
  <2>2. receipt[o] = "committed" => Done(o)
    BY DEF SaysWhatWasDone
  <2>3. receipt[o] = "not-committed" => ~Done(o) \/ o \in pruned
    BY <2>1, TrueAnswers DEF Outcomes
  <2>4. receipt[o] \in Shared!Outcome
    BY <2>1 DEF Outcomes, Shared!Outcome
  <2>5. Shared!Answer(o, receipt[o])
    BY <2>1, <2>2, <2>3 DEF Shared!Answer, Shared!Done, Done
  <2> QED
    BY <2>4, <2>5 DEF Shared!Next
<1>4. ASSUME NEW h \in Host, Persist(h)
      PROVE  Shared!Next
  <2> DEFINE o == host[h].op
  <2>1. /\ host[h].library = manifest /\ manifest \in Library
        /\ o \in Operation /\ intent[o] \in Intent
    BY <1>4 DEF Persist, LockIsHeld, OnlyTheSubmitted, TypeOK
  <2>2. /\ intent[o].expected = manifest.revision
        /\ Accepted(manifest, intent[o].command)
        /\ manifest' = Applied(manifest, intent[o].command)
        /\ applied' = Append(applied, o)
        /\ UNCHANGED <<intent, told, pruned>>
    BY <1>4, <2>1 DEF Persist, Carried, Current
  <2>3. intent[o].expected = Len(applied)
    BY <2>2 DEF NoChangeIsLost
  <2>4. ~Done(o)
    BY <2>3 DEF NoChangeIsLost, Done, TypeOK
  <2>5. told[o] = {} \/ o \in pruned
    BY <1>4, <2>1 DEF Persist, OneHostKnows, Has, Untouched
  <2>6. intent[o] # None
    BY <2>1, NoneAssumption
  <2>7. Shared!Change(o)
    BY <2>2, <2>3, <2>4, <2>5, <2>6 DEF Shared!Change, Shared!Done, Done
  <2> QED
    BY <2>1, <2>7 DEF Shared!Next
<1>5. ASSUME NEW h \in Host, Prune(h)
      PROVE  Shared!Next
  <2>1. PICK o \in Operation : PruneDoes(h, o)
    BY <1>5, PruneEffect
  <2>2. intent[o] # None
    BY <2>1, NoneAssumption DEF PruneDoes, SaysWhatWasDone
  <2>3. Shared!Forget(o)
    BY <2>1, <2>2 DEF PruneDoes, Asked, Shared!Forget
  <2> QED
    BY <2>3 DEF Shared!Next
<1>6. ASSUME NEW h \in Host, Reply(h)
      PROVE  [Shared!Next]_Shared!vars
  <2> DEFINE o == host[h].op
             outcome == host[h].outcome
  <2>1. /\ host[h].at = "replying"
        /\ UNCHANGED <<manifest, applied, intent, pruned>>
        /\ \/ told' = told
           \/ outcome \in Outcomes /\ told' = [told EXCEPT ![o] = @ \cup {outcome}]
    BY <1>6 DEF Reply
  <2>2. o \in Operation /\ intent[o] # None
    BY <2>1, NoneAssumption DEF OnlyTheSubmitted
  <2>3. CASE told' = told
    BY <2>1, <2>3
  <2>4. CASE outcome \in Outcomes /\ told' = [told EXCEPT ![o] = @ \cup {outcome}]
    <3>1. outcome = "committed" => Done(o)
      BY DEF SaysWhatWasDone
    <3>2. outcome = "not-committed" => ~Done(o) \/ o \in pruned
      BY <2>1, <2>2, <2>4 DEF OneHostKnows, Has
    <3>3. Shared!Answer(o, outcome)
      BY <2>1, <2>2, <2>4, <3>1, <3>2 DEF Shared!Answer, Shared!Done, Done
    <3>4. outcome \in Shared!Outcome
      BY <2>4 DEF Outcomes, Shared!Outcome
    <3> QED
      BY <2>2, <3>3, <3>4 DEF Shared!Next
  <2> QED
    BY <2>1, <2>3, <2>4
<1>7. ASSUME NEW h \in Host,
             \/ Lock(h) \/ Load(h) \/ Reject(h) \/ Complete(h) \/ CompleteFails(h)
             \/ PruneFails(h) \/ Pruned(h) \/ Crash(h)
      PROVE  UNCHANGED Shared!vars
  BY <1>7 DEF Lock, Load, Reject, Complete, CompleteFails, PruneFails, Pruned, Crash
<1> QED
  BY <1>1, <1>2, <1>3, <1>4, <1>5, <1>6, <1>7 DEF Next

\* For any number of hosts that share nothing but files, die and lose replies: what
\* their clients see is one library that a command changes at most once, at the
\* revision it expected, and answers that are true and stay true.
THEOREM HostsAreOneLibrary == Spec => IsOneLibrary
<1>1. Init => Shared!Init
  BY DEF Init, Shared!Init
<1>2. IInv /\ SaysWhatWasDone /\ [Next]_vars => [Shared!Next]_Shared!vars
  BY LibraryImplements
<1> QED
  BY <1>1, <1>2, InitSays, SaysStep, Invariance, PTL DEF Spec, IsOneLibrary, Shared!Spec
=============================================================================
