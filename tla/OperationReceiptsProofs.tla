------------------------ MODULE OperationReceiptsProofs ------------------------
(***************************************************************************)
(* Proofs about operation receipts, for any set of operations, journal     *)
(* size and number of revisions.                                           *)
(***************************************************************************)
EXTENDS OperationReceipts, TLAPS

-----------------------------------------------------------------------------
(* The session commands.                                                    *)

\* Dropping the last entry of a history leaves a history; that entry is one of Ops.
LEMMA HistoryEntries ==
    ASSUME NEW h \in Seq(Ops), h # <<>>
    PROVE  Last(h) \in Ops /\ Front(h) \in Seq(Ops)
<1>1. Len(h) \in Nat /\ Len(h) > 0
  OBVIOUS
<1>2. Last(h) \in Ops
  BY <1>1 DEF Last
<1>3. Front(h) \in Seq(Ops)
  BY <1>1 DEF Front
<1> QED
  BY <1>2, <1>3

\* A successful command leaves a session.
LEMMA AdvancedType ==
    ASSUME NEW s \in Session, NEW o \in Ops, NEW kind \in Kinds
    PROVE  Advanced(s, o, kind) \in SUBSET Session
<1>1. Edited(s, o) \in Session
  BY DEF Edited, Session
<1>2. ASSUME s.undo # <<>>
      PROVE  Undone(s) \in Session
  <2>1. Last(s.undo) \in Ops /\ Front(s.undo) \in Seq(Ops)
    BY <1>2, HistoryEntries DEF Session
  <2> QED
    BY <2>1 DEF Undone, Session
<1>3. ASSUME s.redo # <<>>
      PROVE  Redone(s) \in Session
  <2>1. Last(s.redo) \in Ops /\ Front(s.redo) \in Seq(Ops)
    BY <1>3, HistoryEntries DEF Session
  <2> QED
    BY <2>1 DEF Redone, Session
<1> QED
  BY <1>1, <1>2, <1>3 DEF Advanced, Kinds, ProjectKinds

\* A project's content alone makes a session.
LEMMA FreshType ==
    ASSUME NEW content \in SUBSET Ops
    PROVE  Fresh(content) \in Session
BY DEF Fresh, Session

-----------------------------------------------------------------------------
(* Receipts: what the durable steps do to them.                             *)

\* The request in hand belongs to an operation with a receipt.
LEMMA BusyType ==
    ASSUME TypeOK, busy # NoOp
    PROVE  /\ busy \in Request /\ busy.op \in Ops /\ busy.step \in Steps
           /\ up /\ receipts[busy.op] # NoOp /\ receipts[busy.op] \in Receipt
BY DEF TypeOK, Request

\* Settling changes the state of one receipt and nothing else of any.
LEMMA SettleType ==
    ASSUME TypeOK, NEW o \in Ops, Seen(o), NEW state \in Unresolved \cup Resolved,
           Settle(o, state)
    PROVE  /\ receipts' \in [Ops -> Receipt \cup {NoOp}]
           /\ receipts'[o] = [receipts[o] EXCEPT !.state = state]
           /\ receipts'[o] \in Receipt /\ receipts'[o].state = state
           /\ receipts'[o].expected = receipts[o].expected
           /\ \A p \in Ops : Seen(p) => receipts'[p] # NoOp
           /\ \A p \in Ops \ {o} : receipts'[p] = receipts[p]
<1>1. receipts[o] \in Receipt
  BY DEF Seen, TypeOK
<1>2. receipts'[o] = [receipts[o] EXCEPT !.state = state]
  BY DEF Settle, TypeOK
<1>3. receipts'[o] \in Receipt /\ receipts'[o].state = state
        /\ receipts'[o].expected = receipts[o].expected
  BY <1>1, <1>2 DEF Receipt
<1>4. \A p \in Ops \ {o} : receipts'[p] = receipts[p]
  BY DEF Settle, TypeOK
<1>5. receipts' \in [Ops -> Receipt \cup {NoOp}]
  BY <1>1, <1>3, <1>4 DEF Settle, TypeOK
<1>6. receipts'[o] # NoOp
  BY <1>3, NoOpAssumption
<1>7. \A p \in Ops : Seen(p) => receipts'[p] # NoOp
  BY <1>4, <1>6 DEF Seen
<1> QED
  BY <1>2, <1>3, <1>4, <1>5, <1>7

\* Beginning writes one new pending receipt.
LEMMA BeginType ==
    ASSUME TypeOK, NEW o \in Ops, NEW kind \in Kinds, NEW expected \in Nat, NEW step \in Steps,
           Begin(o, kind, expected, step), up
    PROVE  /\ receipts' \in [Ops -> Receipt \cup {NoOp}]
           /\ receipts'[o] \in Receipt /\ receipts'[o].state = "pending"
           /\ receipts'[o] # NoOp
           /\ \A p \in Ops \ {o} : receipts'[p] = receipts[p]
           /\ busy' \in Request /\ busy'.op = o /\ busy'.step = step
           /\ busy' # NoOp
<1> DEFINE new == [kind |-> kind, expected |-> expected, state |-> "pending"]
<1>1. new \in Receipt /\ new.state = "pending"
  BY DEF Receipt, Unresolved
<1>2. receipts' = [receipts EXCEPT ![o] = new]
  BY DEF Begin
<1>3. busy' \in Request /\ busy'.op = o /\ busy'.step = step
  BY DEF Begin, Request
<1> HIDE DEF new
<1> QED
  BY <1>1, <1>2, <1>3, NoOpAssumption DEF TypeOK

-----------------------------------------------------------------------------
LEMMA TypeOKStep ==
    ASSUME TypeOK, [Next]_vars
    PROVE  TypeOK'
<1>1. ASSUME NEW o \in Ops, NEW kind \in Kinds, NEW expected \in 0..MaxRevision,
             ReceiveStale(o, kind, expected)
      PROVE  TypeOK'
  <2>1. Begin(o, kind, expected, "stale") /\ up /\ expected \in Nat
    BY <1>1, MaxRevisionAssumption DEF ReceiveStale, Idle
  <2>2. receipts' \in [Ops -> Receipt \cup {NoOp}] /\ receipts'[o] # NoOp
          /\ busy' \in Request /\ busy'.op = o
    BY <2>1, BeginType DEF Steps
  <2> QED
    BY <1>1, <2>1, <2>2 DEF ReceiveStale, Begin, TypeOK
<1>2. ASSUME NEW o \in Ops, NEW kind \in Kinds, ReceiveCurrent(o, kind)
      PROVE  TypeOK'
  <2>1. Begin(o, kind, session.revision, "begun") /\ up /\ session.revision \in Nat
    BY <1>2 DEF ReceiveCurrent, Idle, TypeOK, Session
  <2>2. receipts' \in [Ops -> Receipt \cup {NoOp}] /\ receipts'[o] # NoOp
          /\ busy' \in Request /\ busy'.op = o
    BY <2>1, BeginType DEF Steps
  <2> QED
    BY <1>2, <2>1, <2>2 DEF ReceiveCurrent, Begin, TypeOK
<1>3. ASSUME NEW o \in Ops, Replay(o)
      PROVE  TypeOK'
  BY <1>3 DEF Replay, Tell, disk, TypeOK
<1>4. ASSUME NEW o \in Ops, ReplayUnresolved(o)
      PROVE  TypeOK'
  BY <1>4, FreshType DEF ReplayUnresolved, Tell, HostGone, disk, TypeOK
<1>5. ASSUME NEW o \in Ops, Reconcile(o)
      PROVE  TypeOK'
  <2>1. Seen(o) /\ \/ Settle(o, "committed-recovered")
                   \/ Settle(o, "no-project-change")
    BY <1>5 DEF Reconcile, Reconcilable, IsUnresolved
  <2>2. receipts' \in [Ops -> Receipt \cup {NoOp}]
    BY <2>1, SettleType DEF Resolved
  <2> QED
    BY <1>5, <2>2 DEF Reconcile, Idle, TypeOK
<1>6. CASE Dispatch
  <2>1. busy # NoOp /\ busy.step = "begun"
    BY <1>6 DEF Dispatch, At
  <2>2. receipts[busy.op].kind \in Kinds
    BY <2>1, BusyType DEF Receipt
  <2>3. session' \in Session
    BY <1>6, <2>1, <2>2, BusyType, AdvancedType DEF Dispatch, TypeOK
  <2>4. busy' \in Request /\ busy'.op = busy.op
    BY <1>6, <2>1, BusyType DEF Dispatch, MoveTo, AfterLateFailure, Request, Steps
  <2> QED
    BY <1>6, <2>1, <2>3, <2>4, BusyType DEF Dispatch, disk, TypeOK
<1>7. CASE WriteSnapshot
  <2>1. busy' \in Request /\ busy'.op = busy.op /\ busy.op \in Ops /\ busy # NoOp
    BY <1>7, BusyType DEF WriteSnapshot, At, MoveTo, Request, Steps
  <2> QED
    BY <1>7, <2>1 DEF WriteSnapshot, TypeOK, Session
<1>8. CASE CheckpointFails
  <2>1. busy' \in Request /\ busy'.op = busy.op /\ busy # NoOp
    BY <1>8, BusyType DEF CheckpointFails, At, MoveTo, Request, Steps
  <2> QED
    BY <1>8, <2>1 DEF CheckpointFails, disk, TypeOK
<1>9. CASE RecordSession
  <2>1. busy' \in Request /\ busy'.op = busy.op /\ busy.op \in Ops /\ busy # NoOp
    BY <1>9, BusyType DEF RecordSession, At, MoveTo, Request, Steps
  <2>2. Newest(DOMAIN journal \cup {session.revision}) \subseteq Nat
    BY DEF Newest, TypeOK, Session
  <2>3. /\ DOMAIN Journaled(busy.op) \subseteq Nat
        /\ Journaled(busy.op) \in [DOMAIN Journaled(busy.op) -> Ops]
    <3> DEFINE rows == Newest(DOMAIN journal \cup {session.revision})
    <3>1. Journaled(busy.op) = [r \in rows |-> IF r = session.revision THEN busy.op ELSE journal[r]]
      BY DEF Journaled
    <3>2. \A r \in rows : r # session.revision => journal[r] \in Ops
      BY DEF Newest, TypeOK
    <3> HIDE DEF rows
    <3> QED
      BY <2>1, <2>2, <3>1, <3>2 DEF rows
  <2>4. DOMAIN journal' \subseteq Nat /\ journal' \in [DOMAIN journal' -> Ops]
    BY <1>9, <2>3 DEF RecordSession, TypeOK
  <2> QED
    BY <1>9, <2>1, <2>4 DEF RecordSession, TypeOK
<1>10. ASSUME NEW step \in Steps, NEW state \in Resolved, FinishAs(step, state), busy' = NoOp,
              UNCHANGED <<snapshot, stored, journal, up, session, gate, writes, stale>>
       PROVE  TypeOK'
  <2>1. receipts' \in [Ops -> Receipt \cup {NoOp}] /\ busy.op \in Ops
    BY <1>10, BusyType, SettleType DEF FinishAs, At, Seen
  <2> QED
    BY <1>10, <2>1 DEF FinishAs, Tell, TypeOK
<1>11. CASE FinishUnknown
  <2>1. receipts' \in [Ops -> Receipt \cup {NoOp}] /\ busy.op \in Ops
    BY <1>11, BusyType, SettleType DEF FinishUnknown, FinishAs, At, Seen, Unresolved
  <2> QED
    BY <1>11, <2>1, FreshType DEF FinishUnknown, FinishAs, Tell, HostGone, TypeOK
<1>12. CASE Crash
  BY <1>12, FreshType DEF Crash, HostGone, disk, TypeOK
<1>13. CASE Reopen
  <2>1. Fresh(snapshot) \in Session
    BY FreshType DEF TypeOK
  <2>2. session' \in Session /\ stored' \in Session \cup {NoOp}
    BY <1>13, <2>1 DEF Reopen, Restorable, TypeOK
  <2> QED
    BY <1>13, <2>2 DEF Reopen, LoadedGate, UnresolvedOnDisk, TypeOK
<1>14. CASE UNCHANGED vars
  BY <1>14 DEF vars, disk, TypeOK
<1>15. CASE FinishCommitted \/ FinishRejected
  BY <1>10, <1>15 DEF FinishCommitted, FinishRejected, Steps, Resolved
<1> QED
  BY <1>1, <1>2, <1>3, <1>4, <1>5, <1>6, <1>7, <1>8, <1>9, <1>11, <1>12, <1>13, <1>14, <1>15
     DEF Next, Receive, Handle

\* The type invariant holds of every reachable state.
THEOREM TypeCorrect == Spec => []TypeOK
<1>1. Init => TypeOK
  <2> SUFFICES ASSUME Init PROVE TypeOK
    OBVIOUS
  <2>1. DOMAIN journal = {} /\ session \in Session
    BY FreshType DEF Init
  <2>2. told \in [Ops -> SUBSET (Resolved \cup {"unknown"})] /\ writes \in [Ops -> Nat]
    BY DEF Init
  <2>3. journal \in [DOMAIN journal -> Ops]
    BY DEF Init
  <2> QED
    BY <2>1, <2>2, <2>3 DEF Init, TypeOK
<1>2. TypeOK /\ [Next]_vars => TypeOK'
  BY TypeOKStep
<1> QED
  BY <1>1, <1>2, PTL DEF Spec

-----------------------------------------------------------------------------
(* The strengthened invariant, one named part for each matter.              *)

\* The request in hand has not settled.
Pending == busy # NoOp => receipts[busy.op].state \in Unresolved

\* An operation without a receipt never wrote; the one in hand has not yet.
Once ==
    \A o \in Ops :
        /\ writes[o] <= 1
        /\ ~Seen(o) => writes[o] = 0
        /\ busy # NoOp /\ busy.op = o /\ busy.step \in {"stale", "begun", "failed", "advanced"}
              => writes[o] = 0

\* The gate is the unresolved receipts on disk without the request in hand, and
\* it is open to any request that runs.
GateInv ==
    up => /\ busy = NoOp => gate = UnresolvedOnDisk
          /\ busy # NoOp => gate = UnresolvedOnDisk \ {busy.op}
          /\ busy # NoOp /\ busy.step # "stale" => gate = {}

\* Except between a command and its snapshot, the live session is the snapshot's.
Durable ==
    up /\ (busy = NoOp \/ busy.step \in {"stale", "begun", "failed", "written", "done"})
        => session.content = snapshot

\* Every settled outcome that was told is the one on disk.
Replies == \A o \in Ops : \A outcome \in told[o] \cap Resolved :
               Seen(o) /\ receipts[o].state = outcome

\* The steps that write a receipt, and what the others leave alone.
LEMMA ReceiptSteps ==
    ASSUME TypeOK, Pending, [Next]_vars
    PROVE  \/ \E o \in Ops, kind \in Kinds, expected \in Nat, step \in {"stale", "begun"} :
                 /\ Idle /\ ~Seen(o) /\ Begin(o, kind, expected, step)
                 /\ step = "begun" => gate = {}
           \/ \E o \in Ops : Reconcile(o)
           \/ FinishCommitted \/ FinishRejected \/ FinishUnknown
           \/ UNCHANGED receipts
<1>1. ASSUME NEW o \in Ops, NEW kind \in Kinds, NEW expected \in 0..MaxRevision,
             ReceiveStale(o, kind, expected)
      PROVE  Idle /\ ~Seen(o) /\ Begin(o, kind, expected, "stale") /\ expected \in Nat
  BY <1>1, MaxRevisionAssumption DEF ReceiveStale, MayBegin
<1>2. ASSUME NEW o \in Ops, NEW kind \in Kinds, ReceiveCurrent(o, kind)
      PROVE  /\ Idle /\ ~Seen(o) /\ Begin(o, kind, session.revision, "begun") /\ gate = {}
             /\ session.revision \in Nat
  BY <1>2 DEF ReceiveCurrent, MayBegin, GateOpen, TypeOK, Session
<1>3. ASSUME NEW o \in Ops, Replay(o) \/ ReplayUnresolved(o)
      PROVE  UNCHANGED receipts
  BY <1>3 DEF Replay, ReplayUnresolved, disk
<1>4. CASE Dispatch \/ WriteSnapshot \/ CheckpointFails \/ RecordSession \/ Crash \/ Reopen
  BY <1>4 DEF Dispatch, WriteSnapshot, CheckpointFails, RecordSession, Crash, Reopen, disk
<1>5. CASE UNCHANGED vars
  BY <1>5 DEF vars, disk
<1> QED
  BY <1>1, <1>2, <1>3, <1>4, <1>5 DEF Next, Receive, Handle

\* Finishing settles the receipt of the request in hand.
LEMMA FinishSteps ==
    ASSUME TypeOK, FinishCommitted \/ FinishRejected \/ FinishUnknown
    PROVE  /\ busy # NoOp /\ busy.op \in Ops /\ Seen(busy.op) /\ busy' = NoOp
           /\ \E state \in Unresolved \cup Resolved :
                 /\ Settle(busy.op, state) /\ Tell(busy.op, state)
                 /\ state \in Unresolved => ~up'
BY BusyType DEF FinishCommitted, FinishRejected, FinishUnknown, FinishAs, At, Seen,
                HostGone, Unresolved, Resolved

LEMMA PendingStep ==
    ASSUME TypeOK, Pending, [Next]_vars
    PROVE  Pending'
<1>1. ASSUME NEW o \in Ops, NEW kind \in Kinds, NEW expected \in Nat,
             NEW step \in {"stale", "begun"}, Idle, Begin(o, kind, expected, step)
      PROVE  Pending'
  BY <1>1, BeginType DEF Idle, Pending, Unresolved, Steps
<1>2. ASSUME NEW o \in Ops, Reconcile(o)
      PROVE  Pending'
  BY <1>2 DEF Reconcile, Idle, Pending
<1>3. CASE FinishCommitted \/ FinishRejected \/ FinishUnknown
  BY <1>3 DEF FinishCommitted, FinishRejected, FinishUnknown, HostGone, Pending
<1>4. CASE UNCHANGED receipts
  <2>1. busy' = NoOp \/ (busy # NoOp /\ busy'.op = busy.op)
    <3>1. CASE Dispatch \/ WriteSnapshot \/ CheckpointFails \/ RecordSession
      BY <3>1, BusyType DEF Dispatch, WriteSnapshot, CheckpointFails, RecordSession,
                            At, MoveTo, Request
    <3>2. CASE FinishCommitted \/ FinishRejected \/ FinishUnknown
      BY <3>2, FinishSteps
    <3>3. CASE Crash \/ Reopen \/ UNCHANGED vars
      BY <3>3 DEF Crash, Reopen, HostGone, vars
    <3>4. ASSUME NEW o \in Ops, Replay(o) \/ ReplayUnresolved(o) \/ Reconcile(o)
          PROVE  busy' = NoOp \/ (busy # NoOp /\ busy'.op = busy.op)
      BY <3>4 DEF Replay, ReplayUnresolved, Reconcile, HostGone
    <3>5. ASSUME NEW o \in Ops, NEW kind \in Kinds, NEW expected \in Nat, NEW step \in Steps,
                 ~Seen(o), up, Begin(o, kind, expected, step)
          PROVE  FALSE
      BY <1>4, <3>5, BeginType DEF Seen
    <3>6. ASSUME NEW o \in Ops, NEW kind \in Kinds, NEW expected \in 0..MaxRevision,
                 ReceiveStale(o, kind, expected)
          PROVE  FALSE
      BY <3>5, <3>6, MaxRevisionAssumption DEF ReceiveStale, MayBegin, Idle, Steps
    <3>7. ASSUME NEW o \in Ops, NEW kind \in Kinds, ReceiveCurrent(o, kind)
          PROVE  FALSE
      BY <3>5, <3>7 DEF ReceiveCurrent, MayBegin, Idle, Steps, TypeOK, Session
    <3> QED
      BY <3>1, <3>2, <3>3, <3>4, <3>6, <3>7 DEF Next, Receive, Handle
  <2> QED
    BY <1>4, <2>1 DEF Pending
<1> QED
  BY <1>1, <1>2, <1>3, <1>4, ReceiptSteps

\* Completed receipts are never rewritten, whatever is resent, reconciled or lost.
THEOREM CompletedReceiptsAreFinal == Spec => ReceiptsAreFinal
<1> DEFINE Final == \A o \in Ops : Seen(o) /\ receipts[o].state \in Resolved
                                       => receipts'[o] = receipts[o]
<1>1. Init => Pending
  BY DEF Init, Pending
<1>2. TypeOK /\ Pending /\ [Next]_vars => Pending'
  BY PendingStep
<1>3. ASSUME TypeOK, Pending, [Next]_vars
      PROVE  Final
  <2>1. ASSUME NEW o \in Ops, NEW kind \in Kinds, NEW expected \in Nat,
               NEW step \in {"stale", "begun"}, ~Seen(o), Idle, Begin(o, kind, expected, step)
        PROVE  Final
    BY <1>3, <2>1, BeginType DEF Idle, Steps
  <2>2. ASSUME NEW o \in Ops, Reconcile(o)
        PROVE  Final
    <3>1. Seen(o) /\ receipts[o].state \in Unresolved
            /\ (Settle(o, "committed-recovered") \/ Settle(o, "no-project-change"))
      BY <2>2 DEF Reconcile, Reconcilable, IsUnresolved
    <3> QED
      BY <1>3, <3>1, SettleType DEF Resolved, Unresolved
  <2>3. CASE FinishCommitted \/ FinishRejected \/ FinishUnknown
    BY <1>3, <2>3, FinishSteps, SettleType DEF Pending, Resolved, Unresolved
  <2>4. CASE UNCHANGED receipts
    BY <2>4
  <2> QED
    BY <1>3, <2>1, <2>2, <2>3, <2>4, ReceiptSteps
<1>4. TypeOK /\ Pending /\ [Next]_vars => [Final]_vars
  BY <1>3
<1> QED
  BY <1>1, <1>2, <1>4, TypeCorrect, PTL DEF Spec, ReceiptsAreFinal

-----------------------------------------------------------------------------
(* At most once.                                                            *)

\* Steps that leave every count alone and take no request back to an earlier step.
LEMMA OnceKept ==
    ASSUME TypeOK, Once, writes' = writes,
           \A o \in Ops : Seen(o) => receipts'[o] # NoOp,
           \/ busy' = NoOp
           \/ busy' = busy
           \/ /\ busy # NoOp /\ busy'.op = busy.op
              /\ busy.step \in {"stale", "begun", "failed", "advanced"}
           \/ busy'.step \in {"uncertain", "written", "done"}
    PROVE  Once'
BY DEF Once, Seen

LEMMA OnceStep ==
    ASSUME TypeOK, Pending, Once, [Next]_vars
    PROVE  Once'
<1>1. ASSUME NEW o \in Ops, NEW kind \in Kinds, NEW expected \in Nat, NEW step \in Steps,
             ~Seen(o), up, Begin(o, kind, expected, step)
      PROVE  Once'
  BY <1>1, BeginType DEF Begin, Once, Seen
<1>2. ASSUME NEW o \in Ops, NEW kind \in Kinds, NEW expected \in 0..MaxRevision,
             ReceiveStale(o, kind, expected)
      PROVE  Once'
  BY <1>1, <1>2, MaxRevisionAssumption DEF ReceiveStale, MayBegin, Idle, Steps
<1>3. ASSUME NEW o \in Ops, NEW kind \in Kinds, ReceiveCurrent(o, kind)
      PROVE  Once'
  BY <1>1, <1>3 DEF ReceiveCurrent, MayBegin, Idle, Steps, TypeOK, Session
<1>4. ASSUME NEW o \in Ops, Replay(o) \/ ReplayUnresolved(o)
      PROVE  Once'
  BY <1>4, OnceKept DEF Replay, ReplayUnresolved, HostGone, disk, Seen
<1>5. ASSUME NEW o \in Ops, Reconcile(o)
      PROVE  Once'
  <2>1. Seen(o) /\ (Settle(o, "committed-recovered") \/ Settle(o, "no-project-change"))
    BY <1>5 DEF Reconcile, Reconcilable, IsUnresolved
  <2>2. \A p \in Ops : Seen(p) => receipts'[p] # NoOp
    BY <2>1, SettleType DEF Resolved
  <2> QED
    BY <1>5, <2>2, OnceKept DEF Reconcile
<1>6. CASE Dispatch
  <2>1. busy # NoOp /\ busy.step = "begun" /\ busy'.op = busy.op /\ writes' = writes
    BY <1>6, BusyType DEF Dispatch, At, MoveTo, Request
  <2> QED
    BY <1>6, <2>1, OnceKept DEF Dispatch, disk, Seen
<1>7. CASE WriteSnapshot
  <2>1. busy # NoOp /\ busy.step = "advanced" /\ busy'.step = "written" /\ busy.op \in Ops
    BY <1>7, BusyType DEF WriteSnapshot, At, MoveTo, Request
  <2>4. writes[busy.op] = 0
    BY <2>1 DEF Once
  <2>2. writes' = [writes EXCEPT ![busy.op] = 1]
    BY <1>7, <2>1, <2>4 DEF WriteSnapshot, TypeOK
  <2>3. receipts[busy.op] # NoOp /\ receipts' = receipts
    BY <1>7, <2>1, BusyType DEF WriteSnapshot
  <2> QED
    BY <2>1, <2>4, <2>2, <2>3 DEF Once, Seen, TypeOK
<1>8. CASE CheckpointFails \/ RecordSession
  <2>1. busy'.step \in {"uncertain", "done"}
    BY <1>8, BusyType DEF CheckpointFails, RecordSession, At, MoveTo, Request
  <2> QED
    BY <1>8, <2>1, OnceKept DEF CheckpointFails, RecordSession, disk, Seen
<1>9. CASE FinishCommitted \/ FinishRejected \/ FinishUnknown
  <2>1. writes' = writes /\ busy' = NoOp
    BY <1>9, FinishSteps DEF FinishCommitted, FinishRejected, FinishUnknown
  <2>2. \A p \in Ops : Seen(p) => receipts'[p] # NoOp
    BY <1>9, FinishSteps, SettleType
  <2> QED
    BY <2>1, <2>2, OnceKept
<1>10. CASE Crash \/ Reopen \/ UNCHANGED vars
  BY <1>10, OnceKept DEF Crash, Reopen, HostGone, disk, vars, Seen
<1> QED
  BY <1>2, <1>3, <1>4, <1>5, <1>6, <1>7, <1>8, <1>9, <1>10 DEF Next, Receive, Handle

\* However often it is sent, and wherever the host dies, an operation writes the
\* portable snapshot at most once.
THEOREM OperationsHappenAtMostOnce == Spec => []AtMostOnce
<1>1. Init => Pending /\ Once
  BY DEF Init, Pending, Once
<1>2. TypeOK /\ Pending /\ Once /\ [Next]_vars => Pending' /\ Once'
  BY PendingStep, OnceStep
<1>3. Once => AtMostOnce
  BY DEF Once, AtMostOnce
<1> QED
  BY <1>1, <1>2, <1>3, TypeCorrect, PTL DEF Spec

-----------------------------------------------------------------------------
(* Between requests the served session is the durable one.                  *)

LEMMA DurableStep ==
    ASSUME TypeOK, Durable, [Next]_vars
    PROVE  Durable'
<1>1. ASSUME NEW o \in Ops, NEW kind \in Kinds, NEW expected \in Nat, NEW step \in Steps,
             Idle, Begin(o, kind, expected, step)
      PROVE  Durable'
  BY <1>1 DEF Begin, Idle, Durable
<1>2. ASSUME NEW o \in Ops, NEW kind \in Kinds, NEW expected \in 0..MaxRevision,
             ReceiveStale(o, kind, expected)
      PROVE  Durable'
  BY <1>1, <1>2, MaxRevisionAssumption DEF ReceiveStale, Steps
<1>3. ASSUME NEW o \in Ops, NEW kind \in Kinds, ReceiveCurrent(o, kind)
      PROVE  Durable'
  BY <1>1, <1>3 DEF ReceiveCurrent, Steps, TypeOK, Session
<1>4. ASSUME NEW o \in Ops, Replay(o) \/ ReplayUnresolved(o) \/ Reconcile(o)
      PROVE  Durable'
  BY <1>4 DEF Replay, ReplayUnresolved, Reconcile, Idle, HostGone, disk, Durable
<1>5. CASE Dispatch
  <2>1. up /\ busy # NoOp /\ busy.step = "begun" /\ session.content = snapshot
    BY <1>5, BusyType DEF Dispatch, At, Durable
  <2>2. \/ session' = session
        \/ busy' # NoOp /\ busy'.step \in {"advanced", "uncertain"}
    <3>1. \A next \in Steps : MoveTo(next) => busy' \in Request /\ busy'.step = next
      BY <2>1, BusyType DEF MoveTo, Request
    <3> QED
      BY <1>5, <3>1, NoOpAssumption DEF Dispatch, AfterLateFailure, Steps
  <2> QED
    BY <1>5, <2>1, <2>2 DEF Dispatch, disk, Durable
<1>6. CASE WriteSnapshot
  BY <1>6 DEF WriteSnapshot, Durable
<1>7. CASE CheckpointFails
  <2>1. busy' \in Request /\ busy'.step = "uncertain"
    BY <1>7, BusyType DEF CheckpointFails, At, MoveTo, Request, Steps
  <2> QED
    BY <2>1, NoOpAssumption DEF Durable
<1>8. CASE RecordSession
  BY <1>8 DEF RecordSession, At, Durable
<1>9. CASE FinishCommitted \/ FinishRejected
  BY <1>9 DEF FinishCommitted, FinishRejected, FinishAs, At, Durable
<1>10. CASE FinishUnknown \/ Crash
  BY <1>10 DEF FinishUnknown, Crash, HostGone, Durable
<1>11. CASE Reopen
  BY <1>11 DEF Reopen, Restorable, Fresh, Durable
<1>12. CASE UNCHANGED vars
  BY <1>12 DEF vars, disk, Durable
<1> QED
  BY <1>2, <1>3, <1>4, <1>5, <1>6, <1>7, <1>8, <1>9, <1>10, <1>11, <1>12
     DEF Next, Receive, Handle

\* Nothing that was not durably acknowledged is ever served.
THEOREM ServedStateIsOnDisk == Spec => []ServedStateIsDurable
<1>1. Init => Durable
  BY DEF Init, Durable
<1>2. TypeOK /\ Durable /\ [Next]_vars => Durable'
  BY DurableStep
<1>3. Durable => ServedStateIsDurable
  BY DEF Durable, ServedStateIsDurable, Idle
<1> QED
  BY <1>1, <1>2, <1>3, TypeCorrect, PTL DEF Spec

-----------------------------------------------------------------------------
(* The write gate.                                                          *)

\* Steps that write no receipt leave the unresolved ones as they were.
LEMMA SameUnresolved ==
    ASSUME receipts' = receipts
    PROVE  UnresolvedOnDisk' = UnresolvedOnDisk
BY DEF UnresolvedOnDisk, IsUnresolved, Seen

\* Beginning a request adds exactly its operation to the unresolved receipts.
LEMMA BeginUnresolved ==
    ASSUME TypeOK, up, NEW o \in Ops, NEW kind \in Kinds, NEW expected \in Nat,
           NEW step \in Steps, ~Seen(o), Begin(o, kind, expected, step)
    PROVE  UnresolvedOnDisk' = UnresolvedOnDisk \cup {o} /\ o \notin UnresolvedOnDisk
BY BeginType DEF UnresolvedOnDisk, IsUnresolved, Seen, Unresolved

\* Completing the request in hand takes its operation away from them.
LEMMA FinishUnresolved ==
    ASSUME TypeOK, NEW o \in Ops, Seen(o), NEW state \in Resolved, Settle(o, state)
    PROVE  UnresolvedOnDisk' = UnresolvedOnDisk \ {o}
<1>1. receipts'[o].state \notin Unresolved /\ \A p \in Ops \ {o} : receipts'[p] = receipts[p]
  BY SettleType DEF Unresolved, Resolved
<1> QED
  BY <1>1 DEF UnresolvedOnDisk, IsUnresolved, Seen

LEMMA GateStep ==
    ASSUME TypeOK, Pending, GateInv, [Next]_vars
    PROVE  GateInv'
<1>1. ASSUME NEW o \in Ops, NEW kind \in Kinds, NEW expected \in Nat,
             NEW step \in {"stale", "begun"}, Idle, ~Seen(o), Begin(o, kind, expected, step),
             step = "begun" => gate = {}
      PROVE  GateInv'
  <2>1. UnresolvedOnDisk' = UnresolvedOnDisk \cup {o} /\ o \notin UnresolvedOnDisk
    BY <1>1, BeginUnresolved DEF Idle, Steps
  <2>2. busy'.op = o /\ busy'.step = step /\ busy' # NoOp
    BY <1>1, BeginType DEF Idle, Steps
  <2>3. gate' = gate /\ gate = UnresolvedOnDisk
    BY <1>1 DEF Begin, Idle, GateInv
  <2> QED
    BY <1>1, <2>1, <2>2, <2>3 DEF GateInv
<1>2. ASSUME NEW o \in Ops, NEW kind \in Kinds, NEW expected \in 0..MaxRevision,
             ReceiveStale(o, kind, expected)
      PROVE  GateInv'
  BY <1>1, <1>2, MaxRevisionAssumption DEF ReceiveStale, MayBegin
<1>3. ASSUME NEW o \in Ops, NEW kind \in Kinds, ReceiveCurrent(o, kind)
      PROVE  GateInv'
  BY <1>1, <1>3 DEF ReceiveCurrent, MayBegin, GateOpen, TypeOK, Session
<1>4. ASSUME NEW o \in Ops, Replay(o)
      PROVE  GateInv'
  BY <1>4, SameUnresolved DEF Replay, disk, GateInv
<1>5. ASSUME NEW o \in Ops, Reconcile(o)
      PROVE  GateInv'
  BY <1>5 DEF Reconcile, Idle, GateInv, UnresolvedOnDisk
<1>6. CASE Dispatch \/ WriteSnapshot \/ CheckpointFails \/ RecordSession
  <2>1. /\ receipts' = receipts /\ up' = up /\ gate' = gate
        /\ busy # NoOp /\ busy.step # "stale"
        /\ busy' \in Request /\ busy'.op = busy.op /\ busy'.step # "stale"
    BY <1>6, BusyType DEF Dispatch, WriteSnapshot, CheckpointFails, RecordSession, At, MoveTo,
                          AfterLateFailure, Request, Steps, disk
  <2> QED
    BY <2>1, SameUnresolved, BusyType, NoOpAssumption DEF GateInv
<1>7. CASE FinishCommitted \/ FinishRejected
  <2>1. /\ busy # NoOp /\ busy.op \in Ops /\ Seen(busy.op)
        /\ Settle(busy.op, "committed") \/ Settle(busy.op, "rejected")
        /\ busy' = NoOp /\ up' = up /\ gate' = gate
    BY <1>7, BusyType DEF FinishCommitted, FinishRejected, FinishAs, At, Seen
  <2>2. UnresolvedOnDisk' = UnresolvedOnDisk \ {busy.op}
    BY <2>1, FinishUnresolved DEF Resolved
  <2> QED
    BY <2>1, <2>2 DEF GateInv
<1>8. ASSUME HostGone
      PROVE  GateInv'
  BY <1>8 DEF HostGone, GateInv
<1>9. CASE Reopen
  <2>1. busy' = NoOp
    BY <1>9 DEF Reopen, TypeOK
  <2> QED
    BY <1>9, <2>1, SameUnresolved DEF Reopen, LoadedGate, GateInv
<1>10. CASE UNCHANGED vars
  <2>1. UnresolvedOnDisk' = UnresolvedOnDisk
    BY <1>10, SameUnresolved DEF vars, disk
  <2> QED
    BY <1>10, <2>1 DEF vars, GateInv
<1> QED
  BY <1>2, <1>3, <1>4, <1>5, <1>6, <1>7, <1>8, <1>9, <1>10
     DEF Next, Receive, Handle, ReplayUnresolved, FinishUnknown, Crash

\* The gate a host keeps in memory and the receipts on disk never part.
THEOREM GateFollowsDisk == Spec => []GateMatchesDisk
<1>1. Init => Pending /\ GateInv
  BY DEF Init, Pending, GateInv
<1>2. TypeOK /\ Pending /\ GateInv /\ [Next]_vars => Pending' /\ GateInv'
  BY PendingStep, GateStep
<1>3. GateInv => GateMatchesDisk
  BY DEF GateInv, GateMatchesDisk, Idle
<1> QED
  BY <1>1, <1>2, <1>3, TypeCorrect, PTL DEF Spec

\* Only WriteSnapshot counts a write, and only for the request in hand.
LEMMA WritesChange ==
    ASSUME TypeOK, [Next]_vars, NEW o \in Ops, writes'[o] # writes[o]
    PROVE  At("advanced") /\ o = busy.op
<1>1. \/ WriteSnapshot
      \/ writes' = writes
  BY DEF Next, Receive, Handle, ReceiveStale, ReceiveCurrent, Begin, Replay, ReplayUnresolved,
         Reconcile, Dispatch, CheckpointFails, RecordSession, FinishCommitted, FinishRejected,
         FinishUnknown, Crash, Reopen, vars
<1> QED
  BY <1>1 DEF WriteSnapshot, TypeOK

\* An unexplained outcome blocks every other operation's writes, also after a restart.
THEOREM UnresolvedOutcomesBlockWrites == Spec => UnresolvedBlocksWrites
<1> DEFINE Blocks == \A o \in Ops : writes'[o] # writes[o] => UnresolvedOnDisk = {o}
<1>1. Init => Pending /\ GateInv
  BY DEF Init, Pending, GateInv
<1>2. TypeOK /\ Pending /\ GateInv /\ [Next]_vars => Pending' /\ GateInv'
  BY PendingStep, GateStep
<1>3. ASSUME TypeOK, Pending, GateInv, [Next]_vars
      PROVE  Blocks
  <2> SUFFICES ASSUME NEW o \in Ops, writes'[o] # writes[o]
               PROVE  UnresolvedOnDisk = {o}
    OBVIOUS
  <2>1. At("advanced") /\ o = busy.op
    BY <1>3, WritesChange
  <2>2. o \in UnresolvedOnDisk
    BY <1>3, <2>1, BusyType DEF At, Pending, UnresolvedOnDisk, IsUnresolved, Seen
  <2>3. UnresolvedOnDisk \ {o} = {}
    BY <1>3, <2>1, BusyType DEF At, GateInv
  <2> QED
    BY <2>2, <2>3
<1>4. TypeOK /\ Pending /\ GateInv /\ [Next]_vars => [Blocks]_vars
  BY <1>3
<1> QED
  BY <1>1, <1>2, <1>4, TypeCorrect, PTL DEF Spec, UnresolvedBlocksWrites

-----------------------------------------------------------------------------
(* Replies.                                                                 *)

LEMMA RepliesStep ==
    ASSUME TypeOK, Pending, Replies, [Next]_vars
    PROVE  Replies'
<1>1. ASSUME NEW o \in Ops, NEW kind \in Kinds, NEW expected \in Nat, NEW step \in Steps,
             ~Seen(o), up, Begin(o, kind, expected, step)
      PROVE  Replies'
  BY <1>1, BeginType DEF Begin, Replies, Seen
<1>2. ASSUME NEW o \in Ops, NEW kind \in Kinds, NEW expected \in 0..MaxRevision,
             ReceiveStale(o, kind, expected)
      PROVE  Replies'
  BY <1>1, <1>2, MaxRevisionAssumption DEF ReceiveStale, MayBegin, Idle, Steps
<1>3. ASSUME NEW o \in Ops, NEW kind \in Kinds, ReceiveCurrent(o, kind)
      PROVE  Replies'
  BY <1>1, <1>3 DEF ReceiveCurrent, MayBegin, Idle, Steps, TypeOK, Session
<1>4. ASSUME NEW o \in Ops, Replay(o)
      PROVE  Replies'
  BY <1>4 DEF Replay, Tell, disk, Replies, Seen, TypeOK
<1>5. ASSUME NEW o \in Ops, ReplayUnresolved(o)
      PROVE  Replies'
  BY <1>5 DEF ReplayUnresolved, Tell, disk, Replies, Seen, TypeOK, Resolved
<1>6. ASSUME NEW o \in Ops, Reconcile(o)
      PROVE  Replies'
  <2>1. Seen(o) /\ receipts[o].state \in Unresolved
          /\ (Settle(o, "committed-recovered") \/ Settle(o, "no-project-change"))
    BY <1>6 DEF Reconcile, Reconcilable, IsUnresolved
  <2>2. told[o] \cap Resolved = {}
    BY <2>1 DEF Replies, Unresolved, Resolved
  <2>3. \A p \in Ops \ {o} : receipts'[p] = receipts[p]
    BY <2>1, SettleType DEF Resolved
  <2>4. told' = told
    BY <1>6 DEF Reconcile
  <2> QED
    BY <2>2, <2>3, <2>4 DEF Replies, Seen
<1>7. CASE FinishCommitted \/ FinishRejected \/ FinishUnknown
  <2>1. busy.op \in Ops /\ Seen(busy.op) /\ receipts[busy.op].state \in Unresolved
    BY <1>7, FinishSteps DEF Pending
  <2>2. told[busy.op] \cap Resolved = {}
    BY <2>1 DEF Replies, Unresolved, Resolved
  <2>3. PICK state \in Unresolved \cup Resolved : Settle(busy.op, state) /\ Tell(busy.op, state)
    BY <1>7, FinishSteps
  <2>4. /\ told'[busy.op] \cap Resolved \subseteq {state}
        /\ \A p \in Ops \ {busy.op} : told'[p] = told[p]
    BY <2>1, <2>2, <2>3 DEF Tell, TypeOK
  <2>5. /\ receipts'[busy.op] # NoOp
        /\ receipts'[busy.op].state = state
        /\ \A p \in Ops \ {busy.op} : receipts'[p] = receipts[p]
    BY <2>1, <2>3, SettleType
  <2> QED
    BY <2>4, <2>5 DEF Replies, Seen
<1>8. CASE Dispatch \/ WriteSnapshot \/ CheckpointFails \/ RecordSession \/ Crash \/ Reopen
           \/ UNCHANGED vars
  BY <1>8 DEF Dispatch, WriteSnapshot, CheckpointFails, RecordSession, Crash, Reopen, vars,
              disk, Replies, Seen
<1> QED
  BY <1>2, <1>3, <1>4, <1>5, <1>6, <1>7, <1>8 DEF Next, Receive, Handle

\* No client is ever told both that an operation took effect and that it did not.
THEOREM RepliesNeverContradict == Spec => []RepliesAgree
<1>1. Init => Pending /\ Replies
  BY DEF Init, Pending, Replies
<1>2. TypeOK /\ Pending /\ Replies /\ [Next]_vars => Pending' /\ Replies'
  BY PendingStep, RepliesStep
<1>3. Replies => RepliesAgree
  BY DEF Replies, RepliesAgree, Resolved
<1> QED
  BY <1>1, <1>2, <1>3, TypeCorrect, PTL DEF Spec

-----------------------------------------------------------------------------
(* Settled receipts tell the truth.  What follows an operation through a     *)
(* crash is the session it leaves behind: contents, histories and journal    *)
(* name operations that wrote, and the stored session never stands at the    *)
(* revision from which an unexplained write was made.                        *)

InHistory(h, o) == \E i \in 1..Len(h) : h[i] = o

Distinct(h) == \A i, j \in 1..Len(h) : h[i] = h[j] => i = j

\* The undo entries of a session are in effect, its redo entries are not.
Fitting(s) ==
    /\ \A o \in Ops : InHistory(s.undo, o) => o \in s.content
    /\ \A o \in Ops : InHistory(s.redo, o) => o \notin s.content
    /\ Distinct(s.undo) /\ Distinct(s.redo)

Named(s, o) == o \in s.content \/ InHistory(s.undo, o) \/ InHistory(s.redo, o)

\* The request in hand has changed the session and not written it.
Unwritten(o) == busy # NoOp /\ busy.op = o /\ busy.step \in {"advanced", "uncertain"}

\* Whatever is in effect, in a history or in the journal wrote.
Effective ==
    /\ up => Fitting(session)
    /\ up => \A o \in Ops : Named(session, o) => writes[o] = 1 \/ Unwritten(o)
    /\ stored # NoOp => Fitting(stored) /\ \A o \in Ops : Named(stored, o) => writes[o] = 1
    /\ \A o \in snapshot : writes[o] = 1
    /\ \A r \in DOMAIN journal : writes[journal[r]] = 1

\* The stored session is an earlier one of the live session, or that very one.
StoredIsEarlier ==
    up /\ stored # NoOp =>
        /\ stored.revision <= session.revision
        /\ stored.revision = session.revision => stored = session

\* A command moves the session one revision on, to another content than the one its
\* revision had when it was stored.
Moved ==
    busy # NoOp =>
        LET expected == receipts[busy.op].expected
        IN  /\ busy.step = "uncertain" => writes[busy.op] = 0
            /\ busy.step \in {"begun", "failed"} => session.revision = expected
            /\ busy.step \in {"advanced", "written"} => session.revision = expected + 1
            /\ busy.step = "written" => writes[busy.op] = 1
            /\ busy.step = "done" => \/ session.revision = expected /\ writes[busy.op] = 0
                                     \/ session.revision = expected + 1 /\ writes[busy.op] = 1
            /\ /\ busy.step \in {"advanced", "written", "done"}
               /\ session.revision = expected + 1
               /\ stored # NoOp
               /\ stored.revision = expected
               => stored.content # session.content

\* An operation that wrote and was never answered.
Orphan(o) ==
    /\ IsUnresolved(o)
    /\ writes[o] = 1
    /\ ~(busy # NoOp /\ busy.op = o)

\* No session a host can have stands at the revision an orphan expected.
OrphansAreAhead ==
    \A o \in Ops : Orphan(o) /\ receipts[o].expected > 0 =>
        /\ up => session.revision # receipts[o].expected
        /\ Restorable => stored.revision # receipts[o].expected

-----------------------------------------------------------------------------
(* Histories.                                                               *)

LEMMA HistoryPush ==
    ASSUME NEW h \in Seq(Ops), NEW o \in Ops
    PROVE  /\ \A p \in Ops : InHistory(Append(h, o), p) <=> InHistory(h, p) \/ p = o
           /\ Distinct(h) /\ ~InHistory(h, o) => Distinct(Append(h, o))
<1> DEFINE g == Append(h, o)
<1>1. /\ Len(h) \in Nat /\ Len(g) = Len(h) + 1
      /\ \A i \in 1..Len(h) : g[i] = h[i]
      /\ g[Len(h) + 1] = o
  OBVIOUS
<1>2. \A i \in 1..Len(g) : i \in 1..Len(h) \/ i = Len(h) + 1
  BY <1>1
<1> HIDE DEF g
<1>3. \A p \in Ops : InHistory(g, p) <=> InHistory(h, p) \/ p = o
  BY <1>1, <1>2 DEF InHistory
<1>4. Distinct(h) /\ ~InHistory(h, o) => Distinct(g)
  BY <1>1, <1>2 DEF InHistory, Distinct
<1> QED
  BY <1>3, <1>4 DEF g

LEMMA HistoryPop ==
    ASSUME NEW h \in Seq(Ops), h # <<>>
    PROVE  /\ InHistory(h, Last(h))
           /\ \A p \in Ops : InHistory(Front(h), p) => InHistory(h, p)
           /\ Distinct(h) => Distinct(Front(h)) /\ ~InHistory(Front(h), Last(h))
<1> DEFINE f == Front(h)
<1>1. Len(h) \in Nat /\ Len(h) > 0 /\ Last(h) = h[Len(h)]
  BY DEF Last
<1>2. Len(f) = Len(h) - 1 /\ \A i \in 1..Len(f) : f[i] = h[i]
  <2>1. f = SubSeq(h, 1, Len(h) - 1)
    BY DEF Front
  <2>2. f = [i \in 1..(Len(h) - 1) |-> h[i]]
    BY <1>1, <2>1
  <2> QED
    BY <1>1, <2>2
<1>3. \A i \in 1..Len(f) : i \in 1..Len(h) /\ i # Len(h)
  BY <1>1, <1>2
<1>5. Len(h) \in 1..Len(h)
  BY <1>1
<1> HIDE DEF f
<1>4. /\ InHistory(h, Last(h))
      /\ \A p \in Ops : InHistory(f, p) => InHistory(h, p)
      /\ Distinct(h) => Distinct(f) /\ ~InHistory(f, Last(h))
  BY <1>1, <1>2, <1>3, <1>5 DEF InHistory, Distinct
<1> QED
  BY <1>4 DEF f

\* Every command that succeeds with a change moves the revision on by one, to another
\* content, and leaves a session whose histories fit.
LEMMA CommandsFit ==
    ASSUME NEW s \in Session, NEW o \in Ops, NEW kind \in Kinds, Fitting(s), o \notin s.content,
           NEW t \in Advanced(s, o, kind), t # s
    PROVE  /\ Fitting(t) /\ t.revision = s.revision + 1 /\ t.content # s.content
           /\ \A p \in Ops : Named(t, p) => Named(s, p) \/ p = o
<1>1. /\ s.undo \in Seq(Ops) /\ s.redo \in Seq(Ops) /\ s.content \in SUBSET Ops
      /\ s.revision \in Nat
  BY DEF Session
<1>2. CASE t = Edited(s, o)
  <2>1. /\ t.content = s.content \cup {o} /\ t.undo = Append(s.undo, o) /\ t.redo = <<>>
        /\ t.revision = s.revision + 1
    BY <1>2 DEF Edited
  <2>2. ~InHistory(s.undo, o)
    BY DEF Fitting
  <2>3. \A p \in Ops : ~InHistory(t.redo, p)
    BY <2>1 DEF InHistory
  <2>4. Distinct(t.redo)
    BY <2>1 DEF Distinct
  <2> QED
    BY <1>1, <2>1, <2>2, <2>3, <2>4, HistoryPush DEF Fitting, Named
<1>3. CASE s.undo # <<>> /\ t = Undone(s)
  <2> DEFINE last == Last(s.undo)
  <2>1. /\ t.content = s.content \ {last} /\ t.undo = Front(s.undo)
        /\ t.redo = Append(s.redo, last) /\ t.revision = s.revision + 1
    BY <1>3 DEF Undone
  <2>2. last \in Ops /\ Front(s.undo) \in Seq(Ops)
    BY <1>1, <1>3, HistoryEntries
  <2>3. /\ InHistory(s.undo, last)
        /\ \A p \in Ops : InHistory(t.undo, p) => InHistory(s.undo, p)
        /\ Distinct(t.undo) /\ ~InHistory(t.undo, last)
    BY <1>1, <1>3, <2>1, HistoryPop DEF Fitting
  <2> HIDE DEF last
  <2>4. last \in s.content /\ ~InHistory(s.redo, last)
    BY <2>2, <2>3 DEF Fitting
  <2>5. /\ \A p \in Ops : InHistory(t.redo, p) <=> InHistory(s.redo, p) \/ p = last
        /\ Distinct(t.redo)
    BY <1>1, <2>1, <2>2, <2>4, HistoryPush DEF Fitting
  <2> QED
    BY <1>1, <2>1, <2>2, <2>3, <2>4, <2>5 DEF Fitting, Named
<1>4. CASE s.redo # <<>> /\ t = Redone(s)
  <2> DEFINE last == Last(s.redo)
  <2>1. /\ t.content = s.content \cup {last} /\ t.redo = Front(s.redo)
        /\ t.undo = Append(s.undo, last) /\ t.revision = s.revision + 1
    BY <1>4 DEF Redone
  <2>2. last \in Ops /\ Front(s.redo) \in Seq(Ops)
    BY <1>1, <1>4, HistoryEntries
  <2>3. /\ InHistory(s.redo, last)
        /\ \A p \in Ops : InHistory(t.redo, p) => InHistory(s.redo, p)
        /\ Distinct(t.redo) /\ ~InHistory(t.redo, last)
    BY <1>1, <1>4, <2>1, HistoryPop DEF Fitting
  <2> HIDE DEF last
  <2>4. last \notin s.content /\ ~InHistory(s.undo, last)
    BY <2>2, <2>3 DEF Fitting
  <2>5. /\ \A p \in Ops : InHistory(t.undo, p) <=> InHistory(s.undo, p) \/ p = last
        /\ Distinct(t.undo)
    BY <1>1, <2>1, <2>2, <2>4, HistoryPush DEF Fitting
  <2> QED
    BY <1>1, <2>1, <2>2, <2>3, <2>4, <2>5 DEF Fitting, Named
<1> QED
  BY <1>2, <1>3, <1>4 DEF Advanced, Kinds, ProjectKinds

\* A project reopened at revision 0 has no history.
LEMMA FreshFits ==
    ASSUME NEW content \in SUBSET Ops
    PROVE  /\ Fitting(Fresh(content)) /\ Fresh(content).revision = 0
           /\ \A o \in Ops : Named(Fresh(content), o) <=> o \in content
BY DEF Fresh, Fitting, Named, InHistory, Distinct

-----------------------------------------------------------------------------
(* The steps, by what they do to session, disk and request.                 *)

\* A step without effect on any of them.
Idles == UNCHANGED <<disk, up, session, gate, busy, writes>>

\* The host dies, at most having told that an outcome is unknown.
Dies ==
    /\ up /\ HostGone
    /\ UNCHANGED <<snapshot, stored, journal, writes>>
    /\ receipts' = receipts \/ FinishUnknown

LEMMA SessionSteps ==
    ASSUME TypeOK, [Next]_vars
    PROVE  \/ \E o \in Ops, kind \in Kinds, expected \in Nat, step \in {"stale", "begun"} :
                 /\ Idle /\ ~Seen(o) /\ Begin(o, kind, expected, step)
                 /\ step = "begun" => session.revision = expected
           \/ \E o \in Ops : Reconcile(o)
           \/ FinishCommitted \/ FinishRejected
           \/ Dispatch \/ WriteSnapshot \/ CheckpointFails \/ RecordSession
           \/ Dies \/ Reopen \/ Idles
<1>1. ASSUME NEW o \in Ops, NEW kind \in Kinds, NEW expected \in 0..MaxRevision,
             ReceiveStale(o, kind, expected)
      PROVE  Idle /\ ~Seen(o) /\ Begin(o, kind, expected, "stale") /\ expected \in Nat
  BY <1>1, MaxRevisionAssumption DEF ReceiveStale, MayBegin
<1>2. ASSUME NEW o \in Ops, NEW kind \in Kinds, ReceiveCurrent(o, kind)
      PROVE  /\ Idle /\ ~Seen(o) /\ Begin(o, kind, session.revision, "begun")
             /\ session.revision \in Nat
  BY <1>2 DEF ReceiveCurrent, MayBegin, TypeOK, Session
<1>3. ASSUME NEW o \in Ops, Replay(o)
      PROVE  Idles
  BY <1>3 DEF Replay, Idles
<1>4. ASSUME NEW o \in Ops, ReplayUnresolved(o)
      PROVE  Dies
  BY <1>4 DEF ReplayUnresolved, Dies, Idle, disk
<1>5. CASE FinishUnknown
  BY <1>5, BusyType DEF FinishUnknown, FinishAs, At, Dies
<1>6. CASE Crash
  BY <1>6 DEF Crash, Dies, disk
<1>7. CASE UNCHANGED vars
  BY <1>7 DEF vars, disk, Idles
<1> QED
  BY <1>1, <1>2, <1>3, <1>4, <1>5, <1>6, <1>7 DEF Next, Receive, Handle

\* How the handler of the request in hand moves it on.
LEMMA HandlerMoves ==
    ASSUME TypeOK, Dispatch \/ WriteSnapshot \/ CheckpointFails \/ RecordSession
    PROVE  /\ busy # NoOp /\ busy.op \in Ops /\ up /\ up' /\ receipts' = receipts
           /\ busy' \in Request /\ busy' # NoOp /\ busy'.op = busy.op
           /\ Dispatch => busy.step = "begun"
           /\ CheckpointFails \/ WriteSnapshot => busy.step = "advanced"
           /\ RecordSession => busy.step = "written" /\ busy'.step = "done"
           /\ WriteSnapshot => busy'.step = "written"
           /\ CheckpointFails => busy'.step = "uncertain"
<1>1. busy \in Request /\ busy # NoOp /\ up
  BY BusyType DEF Dispatch, WriteSnapshot, CheckpointFails, RecordSession, At
<1>2. \A next \in Steps : MoveTo(next) => /\ busy' \in Request /\ busy'.step = next
                                          /\ busy'.op = busy.op /\ busy' # NoOp
  BY <1>1, NoOpAssumption DEF MoveTo, Request
<1> QED
  BY <1>1, <1>2, BusyType DEF Dispatch, WriteSnapshot, CheckpointFails, RecordSession, At, disk,
     AfterLateFailure, Steps

\* What Dispatch does to session and step.
LEMMA DispatchMoves ==
    ASSUME TypeOK, Dispatch
    PROVE  \/ session' = session /\ busy'.step \in {"failed", "done"}
           \/ /\ session' \in Advanced(session, busy.op, receipts[busy.op].kind)
              /\ session' # session
              /\ busy'.step \in {"advanced", "uncertain"}
<1>1. busy \in Request
  BY BusyType DEF Dispatch, At
<1>2. \A next \in Steps : MoveTo(next) => busy'.step = next
  BY <1>1 DEF MoveTo, Request
<1> QED
  BY <1>2 DEF Dispatch, AfterLateFailure, Steps

-----------------------------------------------------------------------------
(* Whatever is in effect, in a history or in the journal wrote.             *)

LEMMA EffectiveKept ==
    ASSUME Effective, UNCHANGED <<snapshot, stored, journal, up, session, writes>>,
           \A o \in Ops : Unwritten(o) => Unwritten(o)'
    PROVE  Effective'
BY DEF Effective, Fitting, Named, InHistory, Distinct

\* The request in hand is not yet in the content it is about to change.
LEMMA DispatchIsNew ==
    ASSUME TypeOK, Once, Effective, Dispatch
    PROVE  /\ Fitting(session) /\ busy.op \notin session.content /\ writes[busy.op] = 0
           /\ \A p \in Ops : Named(session, p) => writes[p] = 1
<1>1. up /\ busy # NoOp /\ busy.step = "begun" /\ busy.op \in Ops
  BY HandlerMoves
<1>2. writes[busy.op] = 0 /\ \A p \in Ops : ~Unwritten(p)
  BY <1>1 DEF Once, Unwritten
<1> QED
  BY <1>1, <1>2 DEF Effective, Named

LEMMA EffectiveStep ==
    ASSUME TypeOK, Once, Effective, Moved, [Next]_vars
    PROVE  Effective'
<1>1. ASSUME NEW o \in Ops, NEW kind \in Kinds, NEW expected \in Nat, NEW step \in Steps,
             Idle, Begin(o, kind, expected, step)
      PROVE  Effective'
  BY <1>1, EffectiveKept DEF Begin, Idle, Unwritten
<1>2. ASSUME NEW o \in Ops, Reconcile(o)
      PROVE  Effective'
  BY <1>2, EffectiveKept DEF Reconcile, Idle, Unwritten
<1>3. CASE FinishCommitted \/ FinishRejected
  BY <1>3, EffectiveKept DEF FinishCommitted, FinishRejected, FinishAs, At, Unwritten
<1>4. CASE Dispatch
  <2>1. /\ Fitting(session) /\ busy.op \notin session.content /\ writes[busy.op] = 0
        /\ \A p \in Ops : Named(session, p) => writes[p] = 1
    BY <1>4, DispatchIsNew
  <2>2. /\ busy.op \in Ops /\ busy'.op = busy.op /\ busy' # NoOp /\ up'
        /\ UNCHANGED <<snapshot, stored, journal, writes>>
    BY <1>4, HandlerMoves DEF Dispatch, disk
  <2>3. receipts[busy.op].kind \in Kinds /\ session \in Session
    BY <1>4, HandlerMoves, BusyType DEF Receipt, TypeOK
  <2>4. /\ Fitting(session')
        /\ \A p \in Ops : Named(session', p) =>
              Named(session, p) \/ (p = busy.op /\ busy'.step \in {"advanced", "uncertain"})
    BY <1>4, <2>1, <2>2, <2>3, CommandsFit, DispatchMoves
  <2> QED
    BY <2>1, <2>2, <2>4 DEF Effective, Unwritten, Fitting, Named, InHistory, Distinct
<1>5. CASE WriteSnapshot
  <2>1. /\ up /\ up' /\ busy # NoOp /\ busy.op \in Ops /\ busy.step = "advanced"
        /\ busy'.step = "written"
    BY <1>5, HandlerMoves
  <2>2. /\ snapshot' = session.content /\ session' = session /\ stored' = stored
        /\ journal' = journal
    BY <1>5 DEF WriteSnapshot
  <2>3. writes[busy.op] = 0
    BY <2>1 DEF Once
  <2>4. \A p \in Ops : writes'[p] = IF p = busy.op THEN 1 ELSE writes[p]
    BY <1>5, <2>1, <2>3 DEF WriteSnapshot, TypeOK
  <2>5. \A p \in Ops : Named(session, p) => writes'[p] = 1
    BY <2>1, <2>4 DEF Effective, Unwritten
  <2>6. \A p \in Ops : writes[p] = 1 => writes'[p] = 1
    BY <2>4
  <2>7. \A p \in snapshot' : p \in Ops /\ Named(session, p)
    BY <2>2 DEF TypeOK, Session, Named
  <2>8. \A r \in DOMAIN journal : journal[r] \in Ops
    BY DEF TypeOK
  <2> QED
    BY <2>1, <2>2, <2>5, <2>6, <2>7, <2>8 DEF Effective, Fitting, Named, InHistory, Distinct
<1>6. CASE CheckpointFails
  <2>1. busy.step = "advanced" /\ busy'.op = busy.op /\ busy' # NoOp /\ busy'.step = "uncertain"
    BY <1>6, HandlerMoves
  <2> QED
    BY <1>6, <2>1, EffectiveKept DEF CheckpointFails, disk, Unwritten
<1>7. CASE RecordSession
  <2>1. /\ up /\ up' /\ busy # NoOp /\ busy.op \in Ops /\ busy.step = "written"
        /\ session' = session /\ snapshot' = snapshot /\ writes' = writes
    BY <1>7, HandlerMoves DEF RecordSession
  <2>2. \A p \in Ops : Named(session, p) => writes[p] = 1
    BY <2>1 DEF Effective, Unwritten
  <2>3. \A r \in DOMAIN Journaled(busy.op) :
           \/ Journaled(busy.op)[r] = busy.op
           \/ r \in DOMAIN journal /\ Journaled(busy.op)[r] = journal[r]
    BY DEF Journaled, Newest
  <2>4. writes[busy.op] = 1
    BY <2>1 DEF Moved
  <2>5. \A r \in DOMAIN journal' : writes[journal'[r]] = 1
    BY <1>7, <2>3, <2>4 DEF RecordSession, Effective
  <2>6. stored' = session \/ stored' = stored
    BY <1>7 DEF RecordSession
  <2> QED
    BY <2>1, <2>2, <2>5, <2>6 DEF Effective, Fitting, Named, InHistory, Distinct
<1>8. CASE Dies
  BY <1>8 DEF Dies, HostGone, Effective, Fitting, Named, InHistory, Distinct
<1>9. CASE Reopen
  <2>1. /\ UNCHANGED <<snapshot, journal, writes>>
        /\ \/ session' = Fresh(snapshot) /\ stored' = NoOp
           \/ stored # NoOp /\ session' = stored /\ stored' = stored
    BY <1>9 DEF Reopen, Restorable
  <2>2. snapshot \in SUBSET Ops
    BY DEF TypeOK
  <2>3. /\ Fitting(Fresh(snapshot))
        /\ \A p \in Ops : Named(Fresh(snapshot), p) => writes[p] = 1
    BY <2>2, FreshFits DEF Effective
  <2> QED
    BY <2>1, <2>3 DEF Effective, Fitting, Named, InHistory, Distinct
<1>10. CASE Idles
  BY <1>10, EffectiveKept DEF Idles, disk, Unwritten
<1> QED
  BY <1>1, <1>2, <1>3, <1>4, <1>5, <1>6, <1>7, <1>8, <1>9, <1>10, SessionSteps DEF Steps

-----------------------------------------------------------------------------
(* The stored session and the revisions of the request in hand.             *)

LEMMA StoredIsEarlierStep ==
    ASSUME TypeOK, Once, Effective, StoredIsEarlier, [Next]_vars
    PROVE  StoredIsEarlier'
<1>1. ASSUME UNCHANGED <<stored, up, session>>
      PROVE  StoredIsEarlier'
  BY <1>1 DEF StoredIsEarlier
<1>2. CASE Dispatch
  <2>1. \/ session' = session
        \/ session'.revision = session.revision + 1
    BY <1>2, DispatchMoves, DispatchIsNew, HandlerMoves, BusyType, CommandsFit DEF Receipt, TypeOK
  <2>2. up /\ stored' = stored /\ session.revision \in Nat
          /\ (stored # NoOp => stored.revision \in Nat)
    BY <1>2, HandlerMoves DEF Dispatch, disk, TypeOK, Session
  <2> QED
    BY <1>1, <2>1, <2>2, <1>2 DEF StoredIsEarlier, Dispatch
<1>3. CASE RecordSession
  BY <1>3 DEF RecordSession, StoredIsEarlier, TypeOK, Session
<1>4. CASE Dies
  BY <1>4 DEF Dies, HostGone, StoredIsEarlier
<1>5. CASE Reopen
  BY <1>5 DEF Reopen, Restorable, StoredIsEarlier, TypeOK, Session
<1>6. CASE FinishCommitted \/ FinishRejected \/ WriteSnapshot \/ CheckpointFails \/ Idles
  BY <1>1, <1>6 DEF FinishCommitted, FinishRejected, WriteSnapshot, CheckpointFails, Idles, disk
<1>7. ASSUME NEW o \in Ops, NEW kind \in Kinds, NEW expected \in Nat, NEW step \in Steps,
             Begin(o, kind, expected, step) \/ Reconcile(o)
      PROVE  StoredIsEarlier'
  BY <1>1, <1>7 DEF Begin, Reconcile
<1>8. \E k \in Kinds : TRUE
  BY DEF Kinds
<1> QED
  BY <1>2, <1>3, <1>4, <1>5, <1>6, <1>7, <1>8, SessionSteps DEF Steps

LEMMA MovedStep ==
    ASSUME TypeOK, Once, Effective, StoredIsEarlier, Moved, [Next]_vars
    PROVE  Moved'
<1>1. ASSUME NEW o \in Ops, NEW kind \in Kinds, NEW expected \in Nat,
             NEW step \in {"stale", "begun"}, Idle, Begin(o, kind, expected, step),
             step = "begun" => session.revision = expected
      PROVE  Moved'
  <2>1. busy'.op = o /\ busy'.step = step /\ session' = session
    BY <1>1 DEF Begin
  <2>2. receipts'[o].expected = expected
    BY <1>1 DEF Begin, TypeOK
  <2> QED
    BY <1>1, <2>1, <2>2 DEF Moved
<1>2. ASSUME busy' = NoOp
      PROVE  Moved'
  BY <1>2 DEF Moved
<1>3. CASE Dispatch
  <2>1. /\ up /\ busy # NoOp /\ busy.op \in Ops /\ busy.step = "begun"
        /\ busy'.op = busy.op /\ receipts' = receipts /\ writes' = writes /\ stored' = stored
    BY <1>3, HandlerMoves DEF Dispatch, disk
  <2>2. session.revision = receipts[busy.op].expected /\ session.revision \in Nat
    BY <2>1 DEF Moved, TypeOK, Session
  <2>3. writes[busy.op] = 0
    BY <1>3, DispatchIsNew
  <2>4. CASE session' = session /\ busy'.step \in {"failed", "done"}
    BY <2>1, <2>2, <2>3, <2>4 DEF Moved
  <2>5. CASE /\ session' \in Advanced(session, busy.op, receipts[busy.op].kind)
             /\ session' # session
             /\ busy'.step \in {"advanced", "uncertain"}
    <3>1. receipts[busy.op].kind \in Kinds /\ session \in Session
      BY <2>1, BusyType DEF Receipt, TypeOK
    <3>2. session'.revision = session.revision + 1 /\ session'.content # session.content
      BY <1>3, <2>1, <2>5, <3>1, CommandsFit, DispatchIsNew
    <3>3. stored # NoOp /\ stored.revision = session.revision => stored = session
      BY <2>1 DEF StoredIsEarlier
    <3> QED
      BY <2>1, <2>2, <2>3, <2>5, <3>2, <3>3 DEF Moved
  <2> QED
    BY <1>3, <2>4, <2>5, DispatchMoves
<1>4. CASE WriteSnapshot
  <2>1. /\ busy # NoOp /\ busy.op \in Ops /\ busy.step = "advanced" /\ busy'.step = "written"
        /\ busy'.op = busy.op /\ receipts' = receipts /\ stored' = stored /\ session' = session
    BY <1>4, HandlerMoves DEF WriteSnapshot
  <2>2. writes[busy.op] = 0
    BY <2>1 DEF Once
  <2>3. writes'[busy.op] = 1
    BY <1>4, <2>1, <2>2 DEF WriteSnapshot, TypeOK
  <2> QED
    BY <2>1, <2>3 DEF Moved
<1>5. CASE CheckpointFails
  <2>1. /\ busy # NoOp /\ busy.op \in Ops /\ busy.step = "advanced" /\ busy'.step = "uncertain"
        /\ busy'.op = busy.op /\ writes' = writes
    BY <1>5, HandlerMoves DEF CheckpointFails
  <2> QED
    BY <2>1 DEF Once, Moved
<1>6. CASE RecordSession
  <2>1. /\ busy # NoOp /\ busy.op \in Ops /\ busy.step = "written" /\ busy'.step = "done"
        /\ busy'.op = busy.op /\ receipts' = receipts /\ writes' = writes /\ session' = session
        /\ stored' = stored \/ stored' = session
    BY <1>6, HandlerMoves DEF RecordSession
  <2>2. session.revision = receipts[busy.op].expected + 1 /\ receipts[busy.op].expected \in Nat
    BY <2>1, BusyType DEF Moved, Receipt
  <2> QED
    BY <2>1, <2>2 DEF Moved
<1>7. CASE Idles
  BY <1>7 DEF Idles, disk, Moved
<1>8. CASE FinishCommitted \/ FinishRejected \/ Dies
  BY <1>2, <1>8 DEF FinishCommitted, FinishRejected, Dies, HostGone
<1>9. CASE Reopen
  BY <1>2, <1>9 DEF Reopen, TypeOK
<1>10. ASSUME NEW o \in Ops, Reconcile(o)
       PROVE  Moved'
  BY <1>2, <1>10 DEF Reconcile, Idle
<1> QED
  BY <1>1, <1>3, <1>4, <1>5, <1>6, <1>7, <1>8, <1>9, <1>10, SessionSteps

-----------------------------------------------------------------------------
(* Operations that wrote and were never answered.                           *)

\* While one exists, the gate admits nothing but the rejection of stale requests.
LEMMA NoOrphanBehindTheGate ==
    ASSUME TypeOK, GateInv, busy # NoOp, busy.step # "stale"
    PROVE  \A o \in Ops : ~Orphan(o)
<1>1. UnresolvedOnDisk \ {busy.op} = {}
  BY BusyType DEF GateInv
<1> QED
  BY <1>1 DEF Orphan, UnresolvedOnDisk

LEMMA OrphansKept ==
    ASSUME OrphansAreAhead, UNCHANGED <<snapshot, stored>>, up' => up /\ session' = session,
           \A o \in Ops : Orphan(o)' => Orphan(o) /\ receipts'[o].expected = receipts[o].expected
    PROVE  OrphansAreAhead'
BY DEF OrphansAreAhead, Restorable

LEMMA OrphansStep ==
    ASSUME TypeOK, Pending, Once, Durable, GateInv, Moved, OrphansAreAhead, [Next]_vars
    PROVE  OrphansAreAhead'
<1>1. ASSUME NEW o \in Ops, NEW kind \in Kinds, NEW expected \in Nat, NEW step \in Steps,
             Idle, Begin(o, kind, expected, step)
      PROVE  OrphansAreAhead'
  <2>1. \A p \in Ops : Orphan(p)' => p # o
    <3>1. busy' # NoOp /\ busy'.op = o
      BY <1>1, BeginType DEF Idle
    <3> QED
      BY <3>1 DEF Orphan
  <2>2. \A p \in Ops \ {o} : receipts'[p] = receipts[p]
    BY <1>1, BeginType DEF Idle
  <2>3. \A p \in Ops : Orphan(p)' => Orphan(p) /\ receipts'[p].expected = receipts[p].expected
    BY <1>1, <2>1, <2>2 DEF Orphan, IsUnresolved, Seen, Begin, Idle
  <2> QED
    BY <1>1, <2>3, OrphansKept DEF Begin
<1>2. ASSUME NEW o \in Ops, NEW state \in Resolved, Seen(o), Settle(o, state),
             busy = NoOp \/ busy.op = o,
             busy' = NoOp, UNCHANGED <<snapshot, stored, up, session, writes>>
      PROVE  OrphansAreAhead'
  <2>1. \A p \in Ops : Orphan(p)' => p # o
    <3>1. receipts'[o].state = state
      BY <1>2, SettleType
    <3> QED
      BY <3>1 DEF Orphan, IsUnresolved, Resolved, Unresolved
  <2>2. \A p \in Ops \ {o} : receipts'[p] = receipts[p]
    BY <1>2, SettleType
  <2>3. \A p \in Ops : Orphan(p)' => Orphan(p) /\ receipts'[p].expected = receipts[p].expected
    BY <1>2, <2>1, <2>2 DEF Orphan, IsUnresolved, Seen
  <2> QED
    BY <1>2, <2>3, OrphansKept
<1>3. ASSUME NEW o \in Ops, Reconcile(o)
      PROVE  OrphansAreAhead'
  <2>1. /\ Seen(o) /\ busy = NoOp
        /\ Settle(o, "committed-recovered") \/ Settle(o, "no-project-change")
        /\ busy' = NoOp /\ UNCHANGED <<snapshot, stored, up, session, writes>>
    BY <1>3 DEF Reconcile, Reconcilable, IsUnresolved, Idle
  <2> QED
    BY <1>2, <2>1 DEF Resolved
<1>4. CASE FinishCommitted \/ FinishRejected
  <2>1. /\ busy.op \in Ops /\ Seen(busy.op)
        /\ Settle(busy.op, "committed") \/ Settle(busy.op, "rejected")
        /\ busy' = NoOp /\ UNCHANGED <<snapshot, stored, up, session, writes>>
    BY <1>4, BusyType DEF FinishCommitted, FinishRejected, FinishAs, At, Seen
  <2> QED
    BY <1>2, <2>1 DEF Resolved
<1>5. CASE Dispatch \/ WriteSnapshot \/ CheckpointFails \/ RecordSession
  <2>1. /\ busy # NoOp /\ busy.step # "stale" /\ busy' # NoOp /\ busy'.op = busy.op
        /\ receipts' = receipts
    BY <1>5, HandlerMoves
  <2>2. \A p \in Ops : p # busy.op => writes'[p] = writes[p]
    BY <1>5 DEF Dispatch, WriteSnapshot, CheckpointFails, RecordSession, TypeOK
  <2>3. \A p \in Ops : ~Orphan(p)'
    BY <2>1, <2>2, NoOrphanBehindTheGate DEF Orphan, IsUnresolved, Seen
  <2> QED
    BY <2>3 DEF OrphansAreAhead
<1>6. CASE Dies
  <2> SUFFICES ASSUME NEW p \in Ops, Orphan(p)', receipts'[p].expected > 0
               PROVE  ~up' /\ (Restorable' => stored'.revision # receipts'[p].expected)
    BY DEF OrphansAreAhead
  <2>1. /\ up /\ ~up' /\ Restorable' = Restorable /\ stored' = stored /\ writes' = writes
        /\ receipts' = receipts \/ FinishUnknown
    BY <1>6 DEF Dies, HostGone, Restorable
  <2>2. IsUnresolved(p) /\ receipts'[p].expected = receipts[p].expected
    <3>1. CASE receipts' = receipts
      BY <3>1 DEF Orphan, IsUnresolved, Seen
    <3>2. CASE FinishUnknown
      <4>1. /\ busy.op \in Ops /\ IsUnresolved(busy.op) /\ Settle(busy.op, "unknown")
        BY <3>2, BusyType DEF FinishUnknown, FinishAs, At, Pending, IsUnresolved, Seen
      <4> QED
        BY <4>1, SettleType DEF Orphan, IsUnresolved, Seen, Unresolved
    <3> QED
      BY <2>1, <3>1, <3>2
  <2>3. writes[p] = 1
    BY <2>1 DEF Orphan
  <2>4. CASE Orphan(p)
    BY <2>1, <2>2, <2>4 DEF OrphansAreAhead
  <2>5. CASE busy # NoOp /\ busy.op = p
    <3>1. busy.step \in {"written", "done"}
      BY <2>3, <2>5, BusyType DEF Once, Moved, Steps
    <3>2. /\ session.revision = receipts[p].expected + 1 /\ session.content = snapshot
      BY <2>1, <2>3, <2>5, <3>1 DEF Moved, Durable
    <3>3. stored # NoOp /\ stored.revision = receipts[p].expected => stored.content # snapshot
      BY <2>5, <3>1, <3>2 DEF Moved
    <3> QED
      BY <2>1, <2>2, <3>3 DEF Restorable
  <2> QED
    BY <2>2, <2>3, <2>4, <2>5 DEF Orphan
<1>7. CASE Reopen
  <2> SUFFICES ASSUME NEW p \in Ops, Orphan(p)', receipts'[p].expected > 0
               PROVE  /\ session'.revision # receipts'[p].expected
                      /\ Restorable' => stored'.revision # receipts'[p].expected
    BY DEF OrphansAreAhead
  <2>1. receipts' = receipts /\ writes' = writes /\ busy' = busy /\ snapshot' = snapshot
    BY <1>7 DEF Reopen
  <2>2. Orphan(p) /\ (Restorable => stored.revision # receipts[p].expected)
    BY <2>1 DEF Orphan, IsUnresolved, Seen, OrphansAreAhead
  <2>3. CASE Restorable
    BY <1>7, <2>1, <2>2, <2>3 DEF Reopen
  <2>4. CASE ~Restorable
    <3>1. session'.revision = 0 /\ stored' = NoOp
      BY <1>7, <2>4 DEF Reopen, Fresh
    <3>2. receipts[p].expected \in Nat
      BY <2>2 DEF Orphan, IsUnresolved, Seen, TypeOK, Receipt
    <3> QED
      BY <2>1, <3>1, <3>2 DEF Restorable
  <2> QED
    BY <2>3, <2>4
<1>8. CASE Idles
  BY <1>8, OrphansKept DEF Idles, disk, Orphan, IsUnresolved, Seen
<1> QED
  BY <1>1, <1>3, <1>4, <1>5, <1>6, <1>7, <1>8, SessionSteps DEF Steps

-----------------------------------------------------------------------------
LEMMA SettledStep ==
    ASSUME TypeOK, Pending, Once, Effective, OrphansAreAhead, SettledTruthfully, [Next]_vars
    PROVE  SettledTruthfully'
<1>1. ASSUME NEW o \in Ops, NEW state \in Unresolved \cup Resolved, Seen(o), Settle(o, state),
             writes' = writes,
             state = "rejected" => writes[o] = 0,
             state = "committed-recovered" => writes[o] = 1,
             state = "no-project-change" /\ receipts[o].expected > 0 => writes[o] = 0
      PROVE  SettledTruthfully'
  <2>1. /\ receipts'[o].state = state /\ receipts'[o].expected = receipts[o].expected
        /\ \A p \in Ops \ {o} : receipts'[p] = receipts[p]
    BY <1>1, SettleType
  <2> QED
    BY <1>1, <2>1 DEF SettledTruthfully, Seen
<1>2. ASSUME NEW o \in Ops, NEW kind \in Kinds, NEW expected \in Nat, NEW step \in Steps,
             Idle, Begin(o, kind, expected, step)
      PROVE  SettledTruthfully'
  <2>1. /\ receipts'[o].state = "pending" /\ writes' = writes
        /\ \A p \in Ops \ {o} : receipts'[p] = receipts[p]
    BY <1>2, BeginType DEF Idle, Begin
  <2> QED
    BY <2>1 DEF SettledTruthfully, Seen
<1>3. ASSUME NEW o \in Ops, Reconcile(o)
      PROVE  SettledTruthfully'
  <2>1. up /\ busy = NoOp /\ IsUnresolved(o) /\ Seen(o) /\ writes' = writes
    BY <1>3 DEF Reconcile, Idle, Reconcilable, IsUnresolved
  <2>2. ASSUME Witnessed(o)
        PROVE  writes[o] = 1
    <3>1. CASE HistoryWitness(o)
      <4>1. InHistory(session.undo, o)
        BY <3>1, HistoryPop DEF HistoryWitness, TypeOK, Session
      <4> QED
        BY <2>1, <4>1 DEF Effective, Named, Unwritten
    <3>2. CASE \E r \in DOMAIN journal : journal[r] = o
      BY <3>2 DEF Effective
    <3> QED
      BY <2>2, <3>1, <3>2 DEF Witnessed
  <2>3. ASSUME NothingChanged(o), receipts[o].expected > 0
        PROVE  writes[o] = 0
    <3>1. ~Orphan(o)
      BY <2>1, <2>3 DEF OrphansAreAhead, NothingChanged
    <3> QED
      BY <2>1, <3>1 DEF Orphan, Once, TypeOK
  <2>4. \/ Settle(o, "committed-recovered") /\ writes[o] = 1
        \/ Settle(o, "no-project-change") /\ (receipts[o].expected > 0 => writes[o] = 0)
    BY <1>3, <2>2, <2>3 DEF Reconcile
  <2> QED
    BY <1>1, <2>1, <2>4 DEF Resolved
<1>4. CASE FinishCommitted \/ FinishRejected \/ FinishUnknown
  <2>1. /\ busy # NoOp /\ busy.op \in Ops /\ Seen(busy.op) /\ writes' = writes
    BY <1>4, FinishSteps DEF FinishCommitted, FinishRejected, FinishUnknown
  <2>2. \/ Settle(busy.op, "committed")
        \/ Settle(busy.op, "rejected") /\ busy.step \in {"failed", "stale"}
        \/ Settle(busy.op, "unknown")
    BY <1>4 DEF FinishCommitted, FinishRejected, FinishUnknown, FinishAs, At
  <2>3. busy.step \in {"failed", "stale"} => writes[busy.op] = 0
    BY <2>1 DEF Once
  <2> QED
    BY <1>1, <2>1, <2>2, <2>3 DEF Resolved, Unresolved
<1>5. CASE UNCHANGED receipts
  <2>1. ASSUME NEW p \in Ops, writes'[p] # writes[p]
        PROVE  receipts[p].state \in Unresolved
    BY <2>1, WritesChange DEF At, Pending
  <2> QED
    BY <1>5, <2>1 DEF SettledTruthfully, Seen, Unresolved
<1> QED
  BY <1>2, <1>3, <1>4, <1>5, ReceiptSteps DEF Steps

\* What a settled receipt says of an operation is what happened to it, across crashes,
\* resets of the revision, lost journal rows and reconciliation.
THEOREM SettledReceiptsAreTrue == Spec => []SettledTruthfully
<1> DEFINE IInv == /\ Pending /\ Once /\ Durable /\ GateInv /\ Effective
                   /\ StoredIsEarlier /\ Moved /\ OrphansAreAhead /\ SettledTruthfully
<1>1. Init => IInv
  <2> SUFFICES ASSUME Init PROVE IInv
    OBVIOUS
  <2>1. Pending /\ Once /\ Durable /\ GateInv /\ StoredIsEarlier /\ Moved
    BY DEF Init, Pending, Once, Durable, GateInv, StoredIsEarlier, Moved
  <2>2. Effective
    BY DEF Init, Effective
  <2>3. OrphansAreAhead /\ SettledTruthfully
    BY DEF Init, OrphansAreAhead, Orphan, SettledTruthfully, IsUnresolved, Seen
  <2> QED
    BY <2>1, <2>2, <2>3
<1>2. TypeOK /\ IInv /\ [Next]_vars => IInv'
  BY PendingStep, OnceStep, DurableStep, GateStep, EffectiveStep, StoredIsEarlierStep, MovedStep,
     OrphansStep, SettledStep
<1>3. IInv => SettledTruthfully
  OBVIOUS
<1> QED
  BY <1>1, <1>2, <1>3, TypeCorrect, PTL DEF Spec

-----------------------------------------------------------------------------
(* The receipts implement the ledger.                                       *)

LEMMA SameReceipts ==
    ASSUME receipts' = receipts
    PROVE  Fates' = Fates /\ FirstRevision' = FirstRevision
BY DEF Fates, Fate, FirstRevision, Seen, IsUnresolved

LEMMA FateOf ==
    ASSUME NEW o \in Ops
    PROVE  /\ Fates[o] = Fate(o)
           /\ ~Seen(o) => Fates[o] = "unseen"
           /\ IsUnresolved(o) => Fates[o] = "undecided"
           /\ Seen(o) /\ receipts[o].state \in Resolved => Fates[o] = receipts[o].state
BY DEF Fates, Fate, IsUnresolved, Resolved, Unresolved

\* A receipt that is settled decides its operation, unless it says "unknown".
LEMMA SettledFates ==
    ASSUME TypeOK, NEW o \in Ops, Seen(o), NEW state \in Unresolved \cup Resolved,
           Settle(o, state)
    PROVE  /\ Fates' = [Fates EXCEPT ![o] = IF state \in Unresolved THEN "undecided" ELSE state]
           /\ FirstRevision' = FirstRevision
<1>1. /\ receipts'[o].state = state /\ receipts'[o].expected = receipts[o].expected
      /\ \A p \in Ops : Seen(p) => receipts'[p] # NoOp
      /\ \A p \in Ops \ {o} : receipts'[p] = receipts[p]
  BY SettleType
<1>2. \A p \in Ops : Fate(p)' = IF p = o THEN IF state \in Unresolved THEN "undecided" ELSE state
                                ELSE Fate(p)
  BY <1>1 DEF Fate, Seen, IsUnresolved
<1>3. \A p \in Ops : p \in FirstRevision' <=> p \in FirstRevision
  BY <1>1 DEF FirstRevision, Seen
<1> QED
  BY <1>2, <1>3 DEF Fates, FirstRevision

\* A new receipt is one more operation that is undecided.
LEMMA BegunFates ==
    ASSUME TypeOK, NEW o \in Ops, ~Seen(o), NEW kind \in Kinds, NEW expected \in Nat,
           NEW step \in Steps, Begin(o, kind, expected, step), up
    PROVE  /\ Fates[o] = "unseen"
           /\ Fates' = [Fates EXCEPT ![o] = "undecided"]
           /\ FirstRevision' \in {FirstRevision, FirstRevision \cup {o}}
<1>1. /\ receipts'[o].state = "pending" /\ receipts'[o] # NoOp
      /\ \A p \in Ops \ {o} : receipts'[p] = receipts[p]
  BY BeginType
<1>2. \A p \in Ops : Fate(p)' = IF p = o THEN "undecided" ELSE Fate(p)
  BY <1>1 DEF Fate, Seen, IsUnresolved, Unresolved
<1>3. \A p \in Ops \ {o} : p \in FirstRevision' <=> p \in FirstRevision
  BY <1>1 DEF FirstRevision, Seen
<1>4. o \notin FirstRevision
  BY DEF FirstRevision
<1>5. FirstRevision' \in {FirstRevision, FirstRevision \cup {o}}
  BY <1>3, <1>4 DEF FirstRevision
<1> QED
  BY <1>2, <1>5, FateOf DEF Fates

\* What a command that is about to be written makes of the project.
Makes(o, before, after) ==
    \/ after = before \cup {o}
    \/ \E p \in Written : after \in {before \ {p}, before \cup {p}}

Ready == busy # NoOp /\ busy.step = "advanced" => Makes(busy.op, snapshot, session.content)

LEMMA CommandsMake ==
    ASSUME NEW s \in Session, NEW o \in Ops, NEW kind \in Kinds, NEW t \in Advanced(s, o, kind),
           t # s, \A p \in Ops : Named(s, p) => p \in Written
    PROVE  Makes(o, s.content, t.content)
<1>1. s.undo \in Seq(Ops) /\ s.redo \in Seq(Ops)
  BY DEF Session
<1>2. CASE t = Edited(s, o)
  BY <1>2 DEF Edited, Makes
<1>3. CASE s.undo # <<>> /\ t = Undone(s)
  <2>1. Last(s.undo) \in Ops /\ InHistory(s.undo, Last(s.undo))
    BY <1>1, <1>3, HistoryEntries, HistoryPop
  <2> QED
    BY <1>3, <2>1 DEF Undone, Makes, Named
<1>4. CASE s.redo # <<>> /\ t = Redone(s)
  <2>1. Last(s.redo) \in Ops /\ InHistory(s.redo, Last(s.redo))
    BY <1>1, <1>4, HistoryEntries, HistoryPop
  <2> QED
    BY <1>4, <2>1 DEF Redone, Makes, Named
<1> QED
  BY <1>2, <1>3, <1>4 DEF Advanced, Kinds, ProjectKinds

LEMMA ReadyStep ==
    ASSUME TypeOK, Once, Durable, Effective, Ready, [Next]_vars
    PROVE  Ready'
<1>1. CASE Dispatch
  <2>1. /\ up /\ busy # NoOp /\ busy.op \in Ops /\ busy.step = "begun" /\ busy'.op = busy.op
        /\ UNCHANGED <<snapshot, writes>>
    BY <1>1, HandlerMoves DEF Dispatch, disk
  <2>2. session.content = snapshot
    BY <2>1 DEF Durable
  <2>3. \A p \in Ops : Named(session, p) => p \in Written
    BY <1>1, DispatchIsNew DEF Written
  <2>4. CASE session' = session /\ busy'.step \in {"failed", "done"}
    BY <2>4 DEF Ready
  <2>5. CASE session' \in Advanced(session, busy.op, receipts[busy.op].kind) /\ session' # session
    <3>1. receipts[busy.op].kind \in Kinds /\ session \in Session
      BY <2>1, BusyType DEF Receipt, TypeOK
    <3>2. Makes(busy.op, session.content, session'.content)
      BY <2>1, <2>3, <2>5, <3>1, CommandsMake
    <3> QED
      BY <2>1, <2>2, <3>2 DEF Ready, Makes, Written
  <2> QED
    BY <1>1, <2>4, <2>5, DispatchMoves
<1>2. CASE WriteSnapshot \/ CheckpointFails \/ RecordSession
  BY <1>2, HandlerMoves DEF Ready
<1>3. ASSUME NEW o \in Ops, NEW kind \in Kinds, NEW expected \in Nat,
             NEW step \in {"stale", "begun"}, Idle, Begin(o, kind, expected, step)
      PROVE  Ready'
  BY <1>3, BeginType DEF Idle, Steps, Ready
<1>4. CASE FinishCommitted \/ FinishRejected \/ Dies \/ Reopen
  BY <1>4 DEF FinishCommitted, FinishRejected, Dies, HostGone, Reopen, Ready, Makes, Written,
              TypeOK
<1>5. ASSUME NEW o \in Ops, Reconcile(o)
      PROVE  Ready'
  BY <1>5 DEF Reconcile, Idle, Ready
<1>6. CASE Idles
  BY <1>6 DEF Idles, disk, Ready, Makes, Written
<1> QED
  BY <1>1, <1>2, <1>3, <1>4, <1>5, <1>6, SessionSteps

LedgerInv ==
    /\ TypeOK /\ Pending /\ Once /\ Durable /\ GateInv /\ Effective /\ StoredIsEarlier
    /\ Moved /\ OrphansAreAhead /\ SettledTruthfully /\ Ready

LEMMA InitLedgerInv == Init => Pending /\ Once /\ Durable /\ GateInv /\ Effective /\ StoredIsEarlier
                               /\ Moved /\ OrphansAreAhead /\ SettledTruthfully /\ Ready
<1> SUFFICES ASSUME Init
             PROVE  /\ Pending /\ Once /\ Durable /\ GateInv /\ Effective /\ StoredIsEarlier
                    /\ Moved /\ OrphansAreAhead /\ SettledTruthfully /\ Ready
  OBVIOUS
<1>1. Pending /\ Once /\ Durable /\ GateInv /\ StoredIsEarlier /\ Moved /\ Ready
  BY DEF Init, Pending, Once, Durable, GateInv, StoredIsEarlier, Moved, Ready
<1>2. Effective
  BY DEF Init, Effective
<1>3. OrphansAreAhead /\ SettledTruthfully
  BY DEF Init, OrphansAreAhead, Orphan, SettledTruthfully, IsUnresolved, Seen
<1> QED
  BY <1>1, <1>2, <1>3

LEMMA LedgerInvariance == Spec => []LedgerInv
<1>1. TypeOK /\ Init => LedgerInv
  BY InitLedgerInv DEF LedgerInv
<1>2. LedgerInv /\ TypeOK' /\ [Next]_vars => LedgerInv'
  BY PendingStep, OnceStep, DurableStep, GateStep, EffectiveStep, StoredIsEarlierStep, MovedStep,
     OrphansStep, SettledStep, ReadyStep DEF LedgerInv
<1> QED
  BY <1>1, <1>2, TypeCorrect, PTL DEF Spec

\* While a command is written, its operation is the only one that is undecided.
LEMMA OnlyTheWriter ==
    ASSUME LedgerInv, busy # NoOp, busy.step = "advanced"
    PROVE  Ledger!Undecided = {busy.op}
<1>1. busy.op \in Ops /\ up /\ UnresolvedOnDisk \ {busy.op} = {}
  BY BusyType DEF LedgerInv, GateInv
<1>2. IsUnresolved(busy.op)
  BY BusyType DEF LedgerInv, Pending, IsUnresolved, Seen
<1>3. \A o \in Ops : Fates[o] = "undecided" <=> IsUnresolved(o)
  BY DEF Fates, Fate, Resolved, Unresolved, IsUnresolved, LedgerInv, TypeOK, Receipt, Seen
<1> QED
  BY <1>1, <1>2, <1>3 DEF Ledger!Undecided, UnresolvedOnDisk

LEMMA WriteIsChange ==
    ASSUME LedgerInv, WriteSnapshot
    PROVE  Ledger!Change(busy.op)
<1>1. /\ busy # NoOp /\ busy.step = "advanced" /\ busy.op \in Ops
      /\ UNCHANGED <<receipts, told>> /\ snapshot' = session.content
  BY HandlerMoves DEF LedgerInv, WriteSnapshot
<1>2. Ledger!Undecided = {busy.op}
  BY <1>1, OnlyTheWriter
<1>3. writes[busy.op] = 0
  BY <1>1 DEF LedgerInv, Once
<1>4. writes' = [writes EXCEPT ![busy.op] = 1]
  BY <1>1, <1>3 DEF WriteSnapshot, LedgerInv, TypeOK
<1>5. busy.op \notin Written /\ Written' = Written \cup {busy.op}
  BY <1>1, <1>3, <1>4 DEF Written, LedgerInv, TypeOK
<1>6. \/ snapshot' = snapshot \cup {busy.op}
      \/ \E p \in Written : snapshot' \in {snapshot \ {p}, snapshot \cup {p}}
  BY <1>1 DEF LedgerInv, Ready, Makes
<1>7. Fates' = Fates /\ FirstRevision' = FirstRevision
  BY <1>1, SameReceipts
<1> QED
  BY <1>1, <1>2, <1>5, <1>6, <1>7 DEF Ledger!Change

LEMMA DecisionsAreTruthful ==
    ASSUME LedgerInv, SettledTruthfully', NEW o \in Ops, Seen(o), NEW state \in Resolved,
           Settle(o, state), UNCHANGED <<writes, snapshot>>, receipts[o].state \in Unresolved,
           Ledger!Tell(o, state) \/ told' = told
    PROVE  Ledger!Decide(o, state)
<1>1. /\ receipts'[o] # NoOp /\ receipts'[o].state = state
      /\ receipts'[o].expected = receipts[o].expected /\ receipts[o].expected \in Nat
  BY SettleType DEF LedgerInv, Seen, TypeOK, Receipt, Resolved
<1>2. /\ Fates[o] = "undecided"
      /\ Fates' = [Fates EXCEPT ![o] = state]
      /\ FirstRevision' = FirstRevision
  <2>1. state \notin Unresolved
    BY DEF Resolved, Unresolved
  <2>2. IsUnresolved(o)
    BY DEF IsUnresolved
  <2> QED
    BY <2>1, <2>2, FateOf, SettledFates DEF LedgerInv
<1>3. Written' = Written
  BY DEF Written
<1>4. /\ state = "rejected" => writes[o] = 0
      /\ state = "committed-recovered" => writes[o] = 1
      /\ state = "no-project-change" /\ receipts[o].expected > 0 => writes[o] = 0
  BY <1>1 DEF SettledTruthfully, Seen
<1>5. Ledger!Truthful(o, state)
  BY <1>1, <1>4 DEF Ledger!Truthful, Written, FirstRevision
<1> QED
  BY <1>2, <1>3, <1>5 DEF Ledger!Decide

LEMMA ReceiptsImplement ==
    ASSUME LedgerInv, SettledTruthfully', [Next]_vars
    PROVE  [Ledger!Next]_Ledger!vars
<1>i. TypeOK /\ Pending
  BY DEF LedgerInv
<1>d. Resolved = Ledger!Decisions
  BY DEF Resolved, Ledger!Decisions
<1>1. ASSUME NEW o \in Ops, NEW kind \in Kinds, NEW expected \in Nat,
             NEW step \in {"stale", "begun"}, Idle, ~Seen(o), Begin(o, kind, expected, step)
      PROVE  Ledger!Accept(o)
  <2>1. /\ Fates[o] = "unseen"
        /\ Fates' = [Fates EXCEPT ![o] = "undecided"]
        /\ FirstRevision' \in {FirstRevision, FirstRevision \cup {o}}
    BY <1>1, <1>i, BegunFates DEF Idle, Steps
  <2>2. Written' = Written /\ UNCHANGED <<snapshot, told>>
    BY <1>1 DEF Begin, Written
  <2> QED
    BY <2>1, <2>2 DEF Ledger!Accept
<1>2. ASSUME NEW o \in Ops, Reconcile(o)
      PROVE  \E decision \in Resolved : Ledger!Decide(o, decision)
  <2>1. /\ Seen(o) /\ receipts[o].state \in Unresolved
        /\ UNCHANGED <<writes, snapshot, told>>
        /\ \E state \in Resolved : Settle(o, state)
    BY <1>2 DEF Reconcile, Reconcilable, IsUnresolved, Resolved
  <2> QED
    BY <2>1, DecisionsAreTruthful
<1>3. CASE FinishCommitted \/ FinishRejected
  <2>1. /\ busy # NoOp /\ busy.op \in Ops /\ Seen(busy.op)
        /\ receipts[busy.op].state \in Unresolved
    BY <1>3, <1>i, FinishSteps DEF Pending
  <2>2. /\ UNCHANGED <<writes, snapshot>>
        /\ \E state \in Resolved : Settle(busy.op, state) /\ Tell(busy.op, state)
    BY <1>3 DEF FinishCommitted, FinishRejected, FinishAs, Resolved
  <2>3. PICK state \in Resolved : Settle(busy.op, state) /\ Tell(busy.op, state)
    BY <2>2
  <2>4. Ledger!Tell(busy.op, state)
    BY <2>3 DEF Tell, Ledger!Tell
  <2>5. Ledger!Decide(busy.op, state)
    BY <2>1, <2>2, <2>3, <2>4, DecisionsAreTruthful
  <2> QED
    BY <1>d, <2>1, <2>5 DEF Ledger!Next
<1>4. CASE FinishUnknown
  <2>1. /\ busy # NoOp /\ busy.op \in Ops /\ Seen(busy.op) /\ IsUnresolved(busy.op)
        /\ Settle(busy.op, "unknown") /\ Tell(busy.op, "unknown")
        /\ UNCHANGED <<writes, snapshot>>
    BY <1>4, <1>i, FinishSteps DEF FinishUnknown, FinishAs, Pending, IsUnresolved
  <2>2. Fates[busy.op] = "undecided"
    BY <2>1, FateOf
  <2>3. /\ Fates' = [Fates EXCEPT ![busy.op] = "undecided"]
        /\ FirstRevision' = FirstRevision
    BY <1>i, <2>1, SettledFates DEF Unresolved
  <2>4. Fates' = Fates
    BY <2>2, <2>3 DEF Fates
  <2>5. Written' = Written
    BY <2>1 DEF Written
  <2>6. Ledger!Answer(busy.op)
    BY <2>1, <2>2, <2>3, <2>4, <2>5 DEF Ledger!Answer, Ledger!Tell, Tell
  <2> QED
    BY <2>1, <2>6 DEF Ledger!Next
<1>5. ASSUME NEW o \in Ops, Replay(o) \/ ReplayUnresolved(o)
      PROVE  Ledger!Answer(o)
  <2>1. /\ UNCHANGED <<receipts, writes, snapshot>>
        /\ \/ Seen(o) /\ receipts[o].state \in Resolved /\ Tell(o, receipts[o].state)
           \/ IsUnresolved(o) /\ Tell(o, "unknown")
    BY <1>5 DEF Replay, ReplayUnresolved, disk
  <2>2. UNCHANGED <<Fates, FirstRevision, Written>>
    BY <2>1, SameReceipts DEF Written
  <2>3. \/ Fates[o] \in Resolved /\ Tell(o, Fates[o])
        \/ Fates[o] = "undecided" /\ Tell(o, "unknown")
    BY <2>1, FateOf
  <2> QED
    BY <1>d, <2>1, <2>2, <2>3 DEF Ledger!Answer, Ledger!Tell, Tell
<1>6. CASE WriteSnapshot
  BY <1>6, <1>i, WriteIsChange, HandlerMoves DEF Ledger!Next
<1>7. CASE Dispatch \/ CheckpointFails \/ RecordSession \/ Crash \/ Reopen \/ UNCHANGED vars
  <2>1. UNCHANGED <<receipts, writes, snapshot, told>>
    BY <1>7 DEF Dispatch, CheckpointFails, RecordSession, Crash, Reopen, vars, disk
  <2> QED
    BY <2>1, SameReceipts DEF Ledger!vars, Written
<1>8. ASSUME NEW o \in Ops, NEW kind \in Kinds, NEW expected \in 0..MaxRevision,
             ReceiveStale(o, kind, expected)
      PROVE  Ledger!Accept(o)
  BY <1>1, <1>8, MaxRevisionAssumption DEF ReceiveStale, MayBegin
<1>9. ASSUME NEW o \in Ops, NEW kind \in Kinds, ReceiveCurrent(o, kind)
      PROVE  Ledger!Accept(o)
  BY <1>1, <1>9, <1>i DEF ReceiveCurrent, MayBegin, TypeOK, Session
<1>10. ASSUME NEW o \in Ops, Receive(o)
       PROVE  Ledger!Next
  BY <1>2, <1>5, <1>8, <1>9, <1>10, <1>d DEF Receive, Ledger!Next
<1> QED
  BY <1>3, <1>4, <1>6, <1>7, <1>10 DEF Next, Handle

\* Receipts, gate, journal, reconciliation and every death of a host between two
\* durable writes keep the ledger's promise: each operation is accepted once, changes
\* the project at most once and alone, and is decided once and truthfully.
THEOREM ReceiptsKeepTheLedger == Spec => KeepsTheLedger
<1>1. Init => Ledger!Init
  <2> SUFFICES ASSUME Init PROVE Ledger!Init
    OBVIOUS
  <2>1. \A o \in Ops : ~Seen(o) /\ writes[o] = 0
    BY DEF Init, Seen
  <2>2. Fates = [o \in Ops |-> "unseen"] /\ FirstRevision = {} /\ Written = {}
    BY <2>1 DEF Fates, Fate, FirstRevision, Written
  <2> QED
    BY <2>2 DEF Init, Ledger!Init
<1>2. LedgerInv /\ LedgerInv' /\ [Next]_vars => [Ledger!Next]_Ledger!vars
  BY ReceiptsImplement DEF LedgerInv
<1> QED
  BY <1>1, <1>2, LedgerInvariance, PTL DEF Spec, KeepsTheLedger, Ledger!Spec

=============================================================================
