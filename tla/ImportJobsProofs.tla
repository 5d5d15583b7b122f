---------------------------- MODULE ImportJobsProofs ----------------------------
(***************************************************************************)
(* Proofs about ImportJobs for any number of connections, jobs, edits and  *)
(* cancellation checkpoints: an import replaces only what it captured, a   *)
(* dismissed one is never committed, and no staging is left by a job that  *)
(* was dismissed, replaced or dropped with its connection.                 *)
(***************************************************************************)
EXTENDS ImportJobs, TLAPS

\* A job that was replaced had ended, cancelled, and lost its result with that.
OnlyTheCurrentRuns ==
    \A c \in Conns, n \in Numbers : n < current[c] =>
        jobs[c][n].cancel /\ jobs[c][n].worker = "finished" /\ jobs[c][n].result = "none"

\* A dismissed job is closed, and its worker finds that out before it stores a
\* result.
DismissedIsOver ==
    \A c \in Conns : \A n \in dismissed[c] :
        /\ n <= current[c]
        /\ jobs[c][n].cancel /\ ~jobs[c][n].committed /\ jobs[c][n].result = "none"

\* Jobs are dropped after their worker was joined.
GoneIsJoined ==
    \A c \in Conns : conn[c] = "gone" /\ HasJob(c) =>
        Current(c).worker = "finished" /\ Current(c).result = "none"

\* A revision names one authored content, so a job that is not stale captured what
\* is authored now.
BaseIsOfItsRevision ==
    \A c \in Conns, n \in Numbers : n <= current[c] =>
        /\ jobs[c][n].revision <= revision
        /\ jobs[c][n].revision = revision => jobs[c][n].base = content

IInv ==
    /\ TypeOK
    /\ OnlyTheCurrentRuns
    /\ DismissedIsOver
    /\ GoneIsJoined
    /\ BaseIsOfItsRevision

LEMMA InitIInv == Init => IInv
BY NoJobAssumption, BoundsAssumption
DEF Init, IInv, TypeOK, OnlyTheCurrentRuns, DismissedIsOver, GoneIsJoined, BaseIsOfItsRevision,
    Numbers, HasJob

-----------------------------------------------------------------------------
(* What each action makes of the jobs. *)

\* A job that is what it was but for these fields
IsNow(job, was, cancel, result, committed, worker) ==
    /\ job.revision = was.revision /\ job.base = was.base
    /\ job.cancel = cancel /\ job.result = result
    /\ job.committed = committed /\ job.worker = worker

\* Only job n of connection c changes.
Touches(c, n) ==
    /\ n \in Numbers /\ n <= current[c]
    /\ jobs[c][n] \in Job
    /\ jobs'[c][n] \in Job
    /\ jobs' \in [Conns -> [Numbers -> Job \cup {NoJob}]]
    /\ \A d \in Conns, m \in Numbers : d # c \/ m # n => jobs'[d][m] = jobs[d][m]

\* It gets these fields.
Amends(c, n, cancel, result, committed, worker) ==
    /\ Touches(c, n)
    /\ IsNow(jobs'[c][n], jobs[c][n], cancel, result, committed, worker)

LEMMA ChangeOne ==
    ASSUME TypeOK, NEW c \in Conns, NEW n \in Numbers, n <= current[c], jobs[c][n] \in Job,
           NEW job \in Job, jobs' = [jobs EXCEPT ![c][n] = job],
           NEW cancel, NEW result, NEW committed, NEW worker,
           IsNow(job, jobs[c][n], cancel, result, committed, worker)
    PROVE  Amends(c, n, cancel, result, committed, worker)
<1>1. /\ jobs' \in [Conns -> [Numbers -> Job \cup {NoJob}]]
      /\ jobs'[c][n] = job
      /\ \A d \in Conns, m \in Numbers : d # c \/ m # n => jobs'[d][m] = jobs[d][m]
  BY DEF TypeOK
<1> QED
  BY <1>1 DEF Amends, Touches


LEMMA TouchedType ==
    ASSUME TypeOK, NEW c \in Conns, NEW n \in Numbers, Touches(c, n),
           jobs'[c][n].committed => jobs'[c][n].cancel /\ jobs'[c][n].result = "none",
           revision' \in Nat, content' \in 0..revision', current' = current,
           conn' \in [Conns -> {"open", "retiring", "gone"}],
           dismissed' \in [Conns -> SUBSET Numbers]
    PROVE  TypeOK'
<1>1. \A d \in Conns, m \in Numbers : jobs'[d][m] # NoJob <=> m <= current'[d]
  BY NoJobAssumption DEF TypeOK, Touches
<1>2. \A d \in Conns, m \in Numbers : jobs'[d][m] # NoJob /\ jobs'[d][m].committed =>
           jobs'[d][m].cancel /\ jobs'[d][m].result = "none"
  BY DEF TypeOK, Touches, Numbers
<1> QED
  BY <1>1, <1>2 DEF TypeOK, Touches, Numbers

LEMMA BegunAreJobs ==
    ASSUME TypeOK
    PROVE  \A c \in Conns, n \in Numbers : n <= current[c] =>
              /\ jobs[c][n] \in Job
              /\ jobs[c][n].revision \in Nat
              /\ jobs[c][n].committed => jobs[c][n].cancel /\ jobs[c][n].result = "none"
<1>1. \A c \in Conns, n \in Numbers : n <= current[c] => jobs[c][n] \in Job
  BY DEF TypeOK
<1>2. \A c \in Conns, n \in Numbers : n <= current[c] /\ jobs[c][n].committed =>
         jobs[c][n].cancel /\ jobs[c][n].result = "none"
  BY DEF TypeOK, Numbers
<1> QED
  BY <1>1, <1>2 DEF Job

LEMMA TouchedBase ==
    ASSUME TypeOK, BaseIsOfItsRevision, NEW c \in Conns, NEW n \in Numbers, Touches(c, n),
           jobs'[c][n].revision = jobs[c][n].revision, jobs'[c][n].base = jobs[c][n].base,
           current' = current, revision' \in Nat,
           (revision' = revision /\ content' = content) \/ revision' > revision
    PROVE  BaseIsOfItsRevision'
<1>1. \A d \in Conns, m \in Numbers : m <= current[d] => jobs[d][m].revision \in Nat
  BY BegunAreJobs
<1>2. \A d \in Conns, m \in Numbers :
         jobs'[d][m].revision = jobs[d][m].revision \/ m > current[d]
  BY DEF Touches, TypeOK, Numbers
<1>3. \A d \in Conns, m \in Numbers :
         jobs'[d][m].base = jobs[d][m].base \/ m > current[d]
  BY DEF Touches, TypeOK, Numbers
<1>4. ASSUME NEW d \in Conns, NEW m \in Numbers, m <= current'[d]
      PROVE  /\ jobs'[d][m].revision <= revision'
             /\ jobs'[d][m].revision = revision' => jobs'[d][m].base = content'
  <2>1. /\ current'[d] = current[d] /\ current[d] \in Nat /\ m \in Nat /\ m <= current[d]
        /\ jobs'[d][m].revision = jobs[d][m].revision
        /\ jobs'[d][m].base = jobs[d][m].base
        /\ jobs[d][m].revision \in Nat
    BY <1>1, <1>2, <1>3, <1>4 DEF TypeOK, Numbers
  <2>2. /\ jobs[d][m].revision <= revision
        /\ jobs[d][m].revision = revision => jobs[d][m].base = content
    BY <2>1 DEF BaseIsOfItsRevision
  <2>3. revision \in Nat
    BY DEF TypeOK
  <2> QED
    BY <2>1, <2>2, <2>3
<1> QED
  BY <1>4 DEF BaseIsOfItsRevision

LEMMA TouchedGone ==
    ASSUME TypeOK, GoneIsJoined, NEW c \in Conns, NEW n \in Numbers, Touches(c, n),
           conn' = conn, current' = current,
           conn[c] = "open" \/ jobs[c][n].worker # "finished"
    PROVE  GoneIsJoined'
<1>1. ASSUME NEW d \in Conns, conn[d] = "gone", current[d] # 0
      PROVE  jobs'[d][current[d]].worker = "finished" /\ jobs'[d][current[d]].result = "none"
  <2>1. jobs[d][current[d]].worker = "finished" /\ jobs[d][current[d]].result = "none"
    BY <1>1 DEF GoneIsJoined, HasJob, Current
  <2>2. d # c \/ current[d] # n
    BY <1>1, <2>1
  <2>3. current[d] \in Numbers
    BY <1>1, BoundsAssumption DEF TypeOK, Numbers
  <2>4. jobs'[d][current[d]] = jobs[d][current[d]]
    BY <2>2, <2>3 DEF Touches
  <2> QED
    BY <2>1, <2>4
<1> QED
  BY <1>1 DEF GoneIsJoined, HasJob, Current

CancelDoes(c) ==
    /\ Amends(c, current[c],
              TRUE, "none", jobs[c][current[c]].committed, jobs[c][current[c]].worker)
    /\ conn[c] = "open"
    /\ ~jobs[c][current[c]].committed
    /\ dismissed' = [dismissed EXCEPT ![c] = @ \cup {current[c]}]
    /\ UNCHANGED <<revision, content, current, conn>>

LEMMA CancelEffect ==
    ASSUME TypeOK, NEW c \in Conns, Cancel(c)
    PROVE  CancelDoes(c)
<1> DEFINE job == Cancelled(jobs[c][current[c]])
<1>1. current[c] \in Numbers /\ current[c] <= current[c] /\ jobs[c][current[c]] \in Job
  BY BoundsAssumption
     DEF Cancel, Serves, HasJob, Current, Update, Cancelled, Numbers, TypeOK
<1>2. job \in Job
  BY <1>1, BoundsAssumption
     DEF Cancel, Serves, HasJob, Current, Update, Cancelled, Numbers, Job
<1>3. jobs' = [jobs EXCEPT ![c][current[c]] = job]
  BY DEF Cancel, Serves, HasJob, Current, Update, Cancelled, Numbers
<1>4. IsNow(job, jobs[c][current[c]],
            TRUE, "none", jobs[c][current[c]].committed, jobs[c][current[c]].worker)
  BY <1>1 DEF Job, IsNow, Cancelled
<1>5. /\ conn[c] = "open"
      /\ ~jobs[c][current[c]].committed
      /\ dismissed' = [dismissed EXCEPT ![c] = @ \cup {current[c]}]
      /\ UNCHANGED <<revision, content, current, conn>>
  BY <1>1 DEF Cancel, Serves, HasJob, Current, Update, Cancelled, Numbers, Job
<1> HIDE DEF job
<1>6. Amends(c, current[c],
            TRUE, "none", jobs[c][current[c]].committed, jobs[c][current[c]].worker)
  BY <1>1, <1>2, <1>3, <1>4, ChangeOne
<1> QED
  BY <1>5, <1>6 DEF CancelDoes

TurnStaleDoes(c) ==
    /\ Amends(c, current[c],
              TRUE, jobs[c][current[c]].result,
              jobs[c][current[c]].committed, jobs[c][current[c]].worker)
    /\ conn[c] = "open"
    /\ ~jobs[c][current[c]].committed
    /\ UNCHANGED <<revision, content, current, conn, dismissed>>

LEMMA TurnStaleEffect ==
    ASSUME TypeOK, NEW c \in Conns, TurnStale(c)
    PROVE  TurnStaleDoes(c)
<1> DEFINE job == [jobs[c][current[c]] EXCEPT !.cancel = TRUE]
<1>1. current[c] \in Numbers /\ current[c] <= current[c] /\ jobs[c][current[c]] \in Job
  BY BoundsAssumption
     DEF TurnStale, Serves, HasJob, Current, Update, IsStale, Numbers, TypeOK
<1>2. job \in Job
  BY <1>1, BoundsAssumption
     DEF TurnStale, Serves, HasJob, Current, Update, IsStale, Numbers, Job
<1>3. jobs' = [jobs EXCEPT ![c][current[c]] = job]
  BY DEF TurnStale, Serves, HasJob, Current, Update, IsStale, Numbers
<1>4. IsNow(job, jobs[c][current[c]],
            TRUE, jobs[c][current[c]].result,
            jobs[c][current[c]].committed, jobs[c][current[c]].worker)
  BY <1>1 DEF Job, IsNow
<1>5. /\ conn[c] = "open"
      /\ ~jobs[c][current[c]].committed
      /\ UNCHANGED <<revision, content, current, conn, dismissed>>
  BY <1>1 DEF TurnStale, Serves, HasJob, Current, Update, IsStale, Numbers, Job
<1> HIDE DEF job
<1>6. Amends(c, current[c],
            TRUE, jobs[c][current[c]].result,
            jobs[c][current[c]].committed, jobs[c][current[c]].worker)
  BY <1>1, <1>2, <1>3, <1>4, ChangeOne
<1> QED
  BY <1>5, <1>6 DEF TurnStaleDoes

CommitFailedDoes(c) ==
    /\ Amends(c, current[c],
              jobs[c][current[c]].cancel, "none",
              jobs[c][current[c]].committed, jobs[c][current[c]].worker)
    /\ conn[c] = "open"
    /\ UNCHANGED <<revision, content, current, conn, dismissed>>

LEMMA CommitFailedEffect ==
    ASSUME TypeOK, NEW c \in Conns, CommitFailed(c)
    PROVE  CommitFailedDoes(c)
<1> DEFINE job == [jobs[c][current[c]] EXCEPT !.result = "none"]
<1>1. current[c] \in Numbers /\ current[c] <= current[c] /\ jobs[c][current[c]] \in Job
  BY BoundsAssumption
     DEF CommitFailed, Committable, Serves, HasJob, Current, Update, IsStale, Numbers,
         TypeOK
<1>2. job \in Job
  BY <1>1, BoundsAssumption
     DEF CommitFailed, Committable, Serves, HasJob, Current, Update, IsStale, Numbers,
         Job
<1>3. jobs' = [jobs EXCEPT ![c][current[c]] = job]
  BY DEF CommitFailed, Committable, Serves, HasJob, Current, Update, IsStale, Numbers
<1>4. IsNow(job, jobs[c][current[c]],
            jobs[c][current[c]].cancel, "none",
            jobs[c][current[c]].committed, jobs[c][current[c]].worker)
  BY <1>1 DEF Job, IsNow
<1>5. /\ conn[c] = "open"
      /\ UNCHANGED <<revision, content, current, conn, dismissed>>
  BY <1>1
     DEF CommitFailed, Committable, Serves, HasJob, Current, Update, IsStale, Numbers,
         Job
<1> HIDE DEF job
<1>6. Amends(c, current[c],
            jobs[c][current[c]].cancel, "none",
            jobs[c][current[c]].committed, jobs[c][current[c]].worker)
  BY <1>1, <1>2, <1>3, <1>4, ChangeOne
<1> QED
  BY <1>5, <1>6 DEF CommitFailedDoes

CommitDoes(c) ==
    /\ Amends(c, current[c], TRUE, "none", TRUE, jobs[c][current[c]].worker)
    /\ conn[c] = "open"
    /\ ~jobs[c][current[c]].cancel
    /\ jobs[c][current[c]].revision = revision
    /\ revision' = revision + 1 /\ content' = revision + 1
    /\ UNCHANGED <<current, conn, dismissed>>

LEMMA CommitEffect ==
    ASSUME TypeOK, NEW c \in Conns, Commit(c)
    PROVE  CommitDoes(c)
<1> DEFINE job == [Spent(jobs[c][current[c]]) EXCEPT !.committed = TRUE]
<1>1. current[c] \in Numbers /\ current[c] <= current[c] /\ jobs[c][current[c]] \in Job
  BY BoundsAssumption
     DEF Commit, Committable, Serves, HasJob, Current, Update, IsStale, Spent, Numbers,
         TypeOK
<1>2. job \in Job
  BY <1>1, BoundsAssumption
     DEF Commit, Committable, Serves, HasJob, Current, Update, IsStale, Spent, Numbers,
         Job
<1>3. jobs' = [jobs EXCEPT ![c][current[c]] = job]
  BY DEF Commit, Committable, Serves, HasJob, Current, Update, IsStale, Spent, Numbers
<1>4. IsNow(job, jobs[c][current[c]], TRUE, "none", TRUE, jobs[c][current[c]].worker)
  BY <1>1 DEF Job, IsNow, Spent
<1>5. /\ conn[c] = "open"
      /\ ~jobs[c][current[c]].cancel
      /\ jobs[c][current[c]].revision = revision
      /\ revision' = revision + 1 /\ content' = revision + 1
      /\ UNCHANGED <<current, conn, dismissed>>
  BY <1>1
     DEF Commit, Committable, Serves, HasJob, Current, Update, IsStale, Spent, Numbers,
         Job
<1> HIDE DEF job
<1>6. Amends(c, current[c], TRUE, "none", TRUE, jobs[c][current[c]].worker)
  BY <1>1, <1>2, <1>3, <1>4, ChangeOne
<1> QED
  BY <1>5, <1>6 DEF CommitDoes

CommitTransferFailsDoes(c) ==
    /\ Amends(c, current[c],
              TRUE, "none", jobs[c][current[c]].committed, jobs[c][current[c]].worker)
    /\ conn[c] = "open"
    /\ UNCHANGED <<revision, content, current, conn, dismissed>>

LEMMA CommitTransferFailsEffect ==
    ASSUME TypeOK, NEW c \in Conns, CommitTransferFails(c)
    PROVE  CommitTransferFailsDoes(c)
<1> DEFINE job == Spent(jobs[c][current[c]])
<1>1. current[c] \in Numbers /\ current[c] <= current[c] /\ jobs[c][current[c]] \in Job
  BY BoundsAssumption
     DEF CommitTransferFails, Committable, Serves, HasJob, Current, Update, IsStale,
         Spent, Numbers, TypeOK
<1>2. job \in Job
  BY <1>1, BoundsAssumption
     DEF CommitTransferFails, Committable, Serves, HasJob, Current, Update, IsStale,
         Spent, Numbers, Job
<1>3. jobs' = [jobs EXCEPT ![c][current[c]] = job]
  BY
     DEF CommitTransferFails, Committable, Serves, HasJob, Current, Update, IsStale,
         Spent, Numbers
<1>4. IsNow(job, jobs[c][current[c]],
            TRUE, "none", jobs[c][current[c]].committed, jobs[c][current[c]].worker)
  BY <1>1 DEF Job, IsNow, Spent
<1>5. /\ conn[c] = "open"
      /\ UNCHANGED <<revision, content, current, conn, dismissed>>
  BY <1>1
     DEF CommitTransferFails, Committable, Serves, HasJob, Current, Update, IsStale,
         Spent, Numbers, Job
<1> HIDE DEF job
<1>6. Amends(c, current[c],
            TRUE, "none", jobs[c][current[c]].committed, jobs[c][current[c]].worker)
  BY <1>1, <1>2, <1>3, <1>4, ChangeOne
<1> QED
  BY <1>5, <1>6 DEF CommitTransferFailsDoes

WorkDoes(c, n) ==
    /\ Amends(c, n,
              jobs[c][n].cancel, jobs[c][n].result, jobs[c][n].committed, jobs[c][n].worker)
    /\ jobs[c][n].worker = "preparing"
    /\ UNCHANGED <<revision, content, current, conn, dismissed>>

LEMMA WorkEffect ==
    ASSUME TypeOK, NEW c \in Conns, NEW n \in Numbers, Work(c, n)
    PROVE  WorkDoes(c, n)
<1> DEFINE job == [jobs[c][n] EXCEPT !.left = @ - 1]
<1>1. n \in Numbers /\ n <= current[c] /\ jobs[c][n] \in Job
  BY BoundsAssumption DEF Work, Numbers, TypeOK
<1>2. job \in Job
  BY <1>1, BoundsAssumption DEF Work, Numbers, Job
<1>3. jobs' = [jobs EXCEPT ![c][n] = job]
  BY DEF Work, Numbers
<1>4. IsNow(job, jobs[c][n],
            jobs[c][n].cancel, jobs[c][n].result, jobs[c][n].committed, jobs[c][n].worker)
  BY <1>1 DEF Job, IsNow
<1>5. /\ jobs[c][n].worker = "preparing"
      /\ UNCHANGED <<revision, content, current, conn, dismissed>>
  BY <1>1 DEF Work, Numbers, Job
<1> HIDE DEF job
<1>6. Amends(c, n,
            jobs[c][n].cancel, jobs[c][n].result, jobs[c][n].committed, jobs[c][n].worker)
  BY <1>1, <1>2, <1>3, <1>4, ChangeOne
<1> QED
  BY <1>5, <1>6 DEF WorkDoes

LeaveDoes(c, n) ==
    /\ Amends(c, n,
              jobs[c][n].cancel, jobs[c][n].result, jobs[c][n].committed, "finished")
    /\ jobs[c][n].worker = "leaving"
    /\ UNCHANGED <<revision, content, current, conn, dismissed>>

LEMMA LeaveEffect ==
    ASSUME TypeOK, NEW c \in Conns, NEW n \in Numbers, Leave(c, n)
    PROVE  LeaveDoes(c, n)
<1> DEFINE job == [jobs[c][n] EXCEPT !.worker = "finished"]
<1>1. n \in Numbers /\ n <= current[c] /\ jobs[c][n] \in Job
  BY BoundsAssumption DEF Leave, Numbers, TypeOK
<1>2. job \in Job
  BY <1>1, BoundsAssumption DEF Leave, Numbers, Job
<1>3. jobs' = [jobs EXCEPT ![c][n] = job]
  BY DEF Leave, Numbers
<1>4. IsNow(job, jobs[c][n],
            jobs[c][n].cancel, jobs[c][n].result, jobs[c][n].committed, "finished")
  BY <1>1 DEF Job, IsNow
<1>5. /\ jobs[c][n].worker = "leaving"
      /\ UNCHANGED <<revision, content, current, conn, dismissed>>
  BY <1>1 DEF Leave, Numbers, Job
<1> HIDE DEF job
<1>6. Amends(c, n,
            jobs[c][n].cancel, jobs[c][n].result, jobs[c][n].committed, "finished")
  BY <1>1, <1>2, <1>3, <1>4, ChangeOne
<1> QED
  BY <1>5, <1>6 DEF LeaveDoes

FinishDoes(c, n, result) ==
    /\ Amends(c, n,
              jobs[c][n].cancel, IF jobs[c][n].cancel THEN jobs[c][n].result ELSE result,
              jobs[c][n].committed, "leaving")
    /\ jobs[c][n].worker = "preparing"
    /\ UNCHANGED <<revision, content, current, conn, dismissed>>

LEMMA FinishEffect ==
    ASSUME TypeOK, NEW c \in Conns, NEW n \in Numbers,
           NEW result \in {"prepared", "failed"}, Finish(c, n, result)
    PROVE  FinishDoes(c, n, result)
<1> DEFINE job == [Stored(jobs[c][n], result) EXCEPT !.worker = "leaving"]
<1>1. n \in Numbers /\ n <= current[c] /\ jobs[c][n] \in Job
  BY BoundsAssumption DEF Finish, Stored, Numbers, TypeOK
<1>2. job \in Job
  BY <1>1, BoundsAssumption DEF Finish, Stored, Numbers, Job
<1>3. jobs' = [jobs EXCEPT ![c][n] = job]
  BY DEF Finish, Stored, Numbers
<1>4. IsNow(job, jobs[c][n],
            jobs[c][n].cancel, IF jobs[c][n].cancel THEN jobs[c][n].result ELSE result,
            jobs[c][n].committed, "leaving")
  BY <1>1 DEF Job, IsNow, Stored
<1>5. /\ jobs[c][n].worker = "preparing"
      /\ UNCHANGED <<revision, content, current, conn, dismissed>>
  BY <1>1 DEF Finish, Stored, Numbers, Job
<1> HIDE DEF job
<1>6. Amends(c, n,
            jobs[c][n].cancel, IF jobs[c][n].cancel THEN jobs[c][n].result ELSE result,
            jobs[c][n].committed, "leaving")
  BY <1>1, <1>2, <1>3, <1>4, ChangeOne
<1> QED
  BY <1>5, <1>6 DEF FinishDoes

\* The replaced job loses its result, and a new one is there.
BeginDoes(c) ==
    /\ current[c] + 1 \in Numbers
    /\ jobs' \in [Conns -> [Numbers -> Job \cup {NoJob}]]
    /\ jobs'[c][current[c] + 1] \in Job
    /\ jobs'[c][current[c] + 1].revision = revision
    /\ jobs'[c][current[c] + 1].base = content
    /\ ~jobs'[c][current[c] + 1].committed
    /\ current[c] # 0 =>
          /\ jobs[c][current[c]].worker = "finished" /\ jobs[c][current[c]].cancel
          /\ jobs'[c][current[c]] \in Job
          /\ IsNow(jobs'[c][current[c]], jobs[c][current[c]], jobs[c][current[c]].cancel,
                   "none", jobs[c][current[c]].committed, jobs[c][current[c]].worker)
    /\ \A d \in Conns, m \in Numbers :
          d # c \/ (m # current[c] /\ m # current[c] + 1) => jobs'[d][m] = jobs[d][m]
    /\ conn[c] = "open"
    /\ current' = [current EXCEPT ![c] = @ + 1]
    /\ UNCHANGED <<revision, content, conn, dismissed>>

LEMMA BeginEffect ==
    ASSUME TypeOK, NEW c \in Conns, Begin(c)
    PROVE  BeginDoes(c)
<1> DEFINE new == [revision |-> revision, base |-> content, cancel |-> FALSE,
                   result |-> "none", committed |-> FALSE,
                   worker |-> "preparing", left |-> Checkpoints]
<1> DEFINE old == Replaced(c)
<1>1. current[c] \in 0..MaxJobs /\ current[c] + 1 \in Numbers
  BY BoundsAssumption DEF Begin, TypeOK, Numbers
<1>2. /\ new \in Job
      /\ new.revision = revision /\ new.base = content /\ ~new.committed
  BY BoundsAssumption DEF Job, TypeOK
<1>3. /\ old \in [Numbers -> Job \cup {NoJob}]
      /\ current[c] # 0 =>
            /\ jobs[c][current[c]].worker = "finished" /\ jobs[c][current[c]].cancel
            /\ old[current[c]] \in Job
            /\ IsNow(old[current[c]], jobs[c][current[c]], jobs[c][current[c]].cancel,
                     "none", jobs[c][current[c]].committed, jobs[c][current[c]].worker)
      /\ \A m \in Numbers : m # current[c] => old[m] = jobs[c][m]
  <2>1. CASE HasJob(c)
    <3>1. current[c] \in Numbers
      BY <1>1, <2>1 DEF HasJob, Numbers
    <3>2. jobs[c][current[c]] \in Job
      BY <1>1, <3>1 DEF TypeOK
    <3> DEFINE kept == [jobs[c][current[c]] EXCEPT !.result = "none"]
    <3>3. /\ kept \in Job
          /\ IsNow(kept, jobs[c][current[c]], jobs[c][current[c]].cancel,
                   "none", jobs[c][current[c]].committed, jobs[c][current[c]].worker)
      BY <3>2 DEF Job, IsNow
    <3>4. old = [jobs[c] EXCEPT ![current[c]] = kept]
      BY <2>1 DEF Replaced
    <3>5. jobs[c][current[c]].worker = "finished" /\ jobs[c][current[c]].cancel
      BY <2>1 DEF Begin, MayBegin, Current
    <3>6. jobs[c] \in [Numbers -> Job \cup {NoJob}]
      BY DEF TypeOK
    <3> HIDE DEF kept, old
    <3> QED
      BY <3>1, <3>3, <3>4, <3>5, <3>6
  <2>2. CASE ~HasJob(c)
    BY <2>2 DEF Replaced, TypeOK, HasJob
  <2> QED
    BY <2>1, <2>2
<1>4. jobs' = [jobs EXCEPT ![c] = [old EXCEPT ![current[c] + 1] = new]]
  BY DEF Begin
<1>5. /\ conn[c] = "open"
      /\ current' = [current EXCEPT ![c] = @ + 1]
      /\ UNCHANGED <<revision, content, conn, dismissed>>
  BY DEF Begin
<1> HIDE DEF new, old
<1>6. /\ jobs' \in [Conns -> [Numbers -> Job \cup {NoJob}]]
      /\ jobs'[c][current[c] + 1] = new
      /\ \A m \in Numbers : m # current[c] + 1 => jobs'[c][m] = old[m]
      /\ \A d \in Conns, m \in Numbers : d # c => jobs'[d][m] = jobs[d][m]
  BY <1>1, <1>2, <1>3, <1>4 DEF TypeOK
<1>7. current[c] # 0 => current[c] \in Numbers /\ jobs'[c][current[c]] = old[current[c]]
  BY <1>1, <1>6 DEF Numbers
<1> QED
  BY <1>1, <1>2, <1>3, <1>5, <1>6, <1>7 DEF BeginDoes

DisconnectDoes(c) ==
    /\ \/ current[c] = 0 /\ jobs' = jobs
       \/ Amends(c, current[c], TRUE, jobs[c][current[c]].result,
                 jobs[c][current[c]].committed, jobs[c][current[c]].worker)
    /\ conn[c] = "open"
    /\ conn' = [conn EXCEPT ![c] = "retiring"]
    /\ UNCHANGED <<revision, content, current, dismissed>>

LEMMA DisconnectEffect ==
    ASSUME TypeOK, NEW c \in Conns, Disconnect(c)
    PROVE  DisconnectDoes(c)
<1> DEFINE job == [jobs[c][current[c]] EXCEPT !.cancel = TRUE]
<1>1. CASE ~HasJob(c)
  BY <1>1 DEF DisconnectDoes, Disconnect, HasJob
<1>2. CASE HasJob(c)
  <2>1. current[c] \in Numbers /\ current[c] <= current[c] /\ jobs[c][current[c]] \in Job
    BY <1>2, BoundsAssumption DEF HasJob, TypeOK, Numbers
  <2>2. job \in Job
    BY <2>1 DEF Job
  <2>3. jobs' = [jobs EXCEPT ![c][current[c]] = job]
    BY <1>2 DEF Disconnect
  <2>4. IsNow(job, jobs[c][current[c]], TRUE, jobs[c][current[c]].result,
              jobs[c][current[c]].committed, jobs[c][current[c]].worker)
    BY <2>1 DEF Job, IsNow
  <2> HIDE DEF job
  <2>5. Amends(c, current[c], TRUE, jobs[c][current[c]].result,
               jobs[c][current[c]].committed, jobs[c][current[c]].worker)
    BY <2>1, <2>2, <2>3, <2>4, ChangeOne
  <2> QED
    BY <2>5 DEF DisconnectDoes, Disconnect
<1> QED
  BY <1>1, <1>2

RetireDoes(c) ==
    /\ \/ current[c] = 0 /\ jobs' = jobs
       \/ /\ Amends(c, current[c], jobs[c][current[c]].cancel, "none",
                    jobs[c][current[c]].committed, jobs[c][current[c]].worker)
          /\ jobs[c][current[c]].worker = "finished"
    /\ conn' = [conn EXCEPT ![c] = "gone"]
    /\ UNCHANGED <<revision, content, current, dismissed>>

LEMMA RetireEffect ==
    ASSUME TypeOK, NEW c \in Conns, Retire(c)
    PROVE  RetireDoes(c)
<1> DEFINE job == [jobs[c][current[c]] EXCEPT !.result = "none"]
<1>1. CASE ~HasJob(c)
  BY <1>1 DEF RetireDoes, Retire, Replaced, TypeOK, HasJob
<1>2. CASE HasJob(c)
  <2>1. current[c] \in Numbers /\ current[c] <= current[c] /\ jobs[c][current[c]] \in Job
    BY <1>2, BoundsAssumption DEF HasJob, TypeOK, Numbers
  <2>2. job \in Job
    BY <2>1 DEF Job
  <2>3. jobs' = [jobs EXCEPT ![c][current[c]] = job]
    BY <1>2, <2>1 DEF Retire, Replaced, TypeOK
  <2>4. IsNow(job, jobs[c][current[c]], jobs[c][current[c]].cancel, "none",
              jobs[c][current[c]].committed, jobs[c][current[c]].worker)
    BY <2>1 DEF Job, IsNow
  <2> HIDE DEF job
  <2>5. Amends(c, current[c], jobs[c][current[c]].cancel, "none",
               jobs[c][current[c]].committed, jobs[c][current[c]].worker)
    BY <2>1, <2>2, <2>3, <2>4, ChangeOne
  <2> QED
    BY <1>2, <2>5 DEF RetireDoes, Retire, Joined, Current
<1> QED
  BY <1>1, <1>2

-----------------------------------------------------------------------------
(* Every step preserves each part. *)

LEMMA TypeStep ==
    ASSUME TypeOK, [Next]_vars
    PROVE  TypeOK'
<1>1. CASE Edit
  BY <1>1, NoJobAssumption, BoundsAssumption DEF Edit, TypeOK, Numbers, Job
<1>2. ASSUME NEW c \in Conns, Begin(c) PROVE TypeOK'
  <2>1. BeginDoes(c)
    BY <1>2, BeginEffect
  <2>2. /\ current[c] \in Nat /\ current[c] + 1 \in Numbers
        /\ current' \in [Conns -> 0..MaxJobs] /\ current'[c] = current[c] + 1
        /\ \A d \in Conns : d # c => current'[d] = current[d]
    BY <2>1, BoundsAssumption DEF BeginDoes, TypeOK, Numbers
  <2>3. \A m \in Numbers : m = current[c] => jobs'[c][m] \in Job
    BY <2>1 DEF BeginDoes, Numbers
  <2>4. ASSUME NEW d \in Conns, NEW m \in Numbers
        PROVE  jobs'[d][m] # NoJob <=> m <= current'[d]
    <3>1. CASE d = c /\ m = current[c] + 1
      BY <2>1, <2>2, <3>1, NoJobAssumption DEF BeginDoes
    <3>2. CASE d = c /\ m = current[c]
      BY <2>2, <2>3, <3>2, NoJobAssumption
    <3>3. CASE d # c
      BY <2>1, <2>2, <3>3 DEF BeginDoes, TypeOK
    <3>4. CASE d = c /\ m # current[c] /\ m # current[c] + 1
      <4>1. jobs'[d][m] = jobs[d][m] /\ (jobs[d][m] # NoJob <=> m <= current[c])
        BY <2>1, <3>4 DEF BeginDoes, TypeOK
      <4> QED
        BY <2>2, <3>4, <4>1 DEF Numbers
    <3> QED
      BY <3>1, <3>2, <3>3, <3>4
  <2>5. ASSUME NEW d \in Conns, NEW m \in Numbers, jobs'[d][m] # NoJob, jobs'[d][m].committed
        PROVE  jobs'[d][m].cancel /\ jobs'[d][m].result = "none"
    <3>1. CASE d = c /\ m = current[c] + 1
      BY <2>1, <2>5, <3>1 DEF BeginDoes
    <3>2. CASE d = c /\ m = current[c]
      <4>1. current[c] # 0
        BY <3>2 DEF Numbers
      <4> QED
        BY <2>1, <3>2, <4>1 DEF BeginDoes, IsNow
    <3>3. CASE d # c \/ (m # current[c] /\ m # current[c] + 1)
      <4>1. jobs'[d][m] = jobs[d][m]
        BY <2>1, <3>3 DEF BeginDoes
      <4> QED
        BY <2>5, <4>1 DEF TypeOK, Numbers
    <3> QED
      BY <3>1, <3>2, <3>3
  <2> QED
    BY <2>1, <2>2, <2>4, <2>5 DEF BeginDoes, TypeOK, Numbers
<1>3. ASSUME NEW c \in Conns, Cancel(c) PROVE TypeOK'
  <2>1. CancelDoes(c)
    BY <1>3, CancelEffect
  <2>2. Touches(c, current[c]) /\ current[c] \in Numbers
    BY <2>1 DEF CancelDoes, Amends, Touches
  <2>3. jobs'[c][current[c]].committed =>
           jobs'[c][current[c]].cancel /\ jobs'[c][current[c]].result = "none"
    BY <2>1, <2>2, BegunAreJobs DEF CancelDoes, Amends, IsNow, Touches
  <2>4. /\ revision' \in Nat /\ content' \in 0..revision' /\ current' = current
        /\ conn' \in [Conns -> {"open", "retiring", "gone"}]
        /\ dismissed' \in [Conns -> SUBSET Numbers]
    BY <2>1, <2>2 DEF CancelDoes, TypeOK
  <2> QED
    BY <2>2, <2>3, <2>4, TouchedType
<1>4. ASSUME NEW c \in Conns, TurnStale(c) PROVE TypeOK'
  <2>1. TurnStaleDoes(c)
    BY <1>4, TurnStaleEffect
  <2>2. Touches(c, current[c]) /\ current[c] \in Numbers
    BY <2>1 DEF TurnStaleDoes, Amends, Touches
  <2>3. jobs'[c][current[c]].committed =>
           jobs'[c][current[c]].cancel /\ jobs'[c][current[c]].result = "none"
    BY <2>1, <2>2, BegunAreJobs DEF TurnStaleDoes, Amends, IsNow, Touches
  <2>4. /\ revision' \in Nat /\ content' \in 0..revision' /\ current' = current
        /\ conn' \in [Conns -> {"open", "retiring", "gone"}]
        /\ dismissed' \in [Conns -> SUBSET Numbers]
    BY <2>1, <2>2 DEF TurnStaleDoes, TypeOK
  <2> QED
    BY <2>2, <2>3, <2>4, TouchedType
<1>5. ASSUME NEW c \in Conns, CommitFailed(c) PROVE TypeOK'
  <2>1. CommitFailedDoes(c)
    BY <1>5, CommitFailedEffect
  <2>2. Touches(c, current[c]) /\ current[c] \in Numbers
    BY <2>1 DEF CommitFailedDoes, Amends, Touches
  <2>3. jobs'[c][current[c]].committed =>
           jobs'[c][current[c]].cancel /\ jobs'[c][current[c]].result = "none"
    BY <2>1, <2>2, BegunAreJobs DEF CommitFailedDoes, Amends, IsNow, Touches
  <2>4. /\ revision' \in Nat /\ content' \in 0..revision' /\ current' = current
        /\ conn' \in [Conns -> {"open", "retiring", "gone"}]
        /\ dismissed' \in [Conns -> SUBSET Numbers]
    BY <2>1, <2>2 DEF CommitFailedDoes, TypeOK
  <2> QED
    BY <2>2, <2>3, <2>4, TouchedType
<1>6. ASSUME NEW c \in Conns, Commit(c) PROVE TypeOK'
  <2>1. CommitDoes(c)
    BY <1>6, CommitEffect
  <2>2. Touches(c, current[c]) /\ current[c] \in Numbers
    BY <2>1 DEF CommitDoes, Amends, Touches
  <2>3. jobs'[c][current[c]].committed =>
           jobs'[c][current[c]].cancel /\ jobs'[c][current[c]].result = "none"
    BY <2>1, <2>2, BegunAreJobs DEF CommitDoes, Amends, IsNow, Touches
  <2>4. /\ revision' \in Nat /\ content' \in 0..revision' /\ current' = current
        /\ conn' \in [Conns -> {"open", "retiring", "gone"}]
        /\ dismissed' \in [Conns -> SUBSET Numbers]
    BY <2>1, <2>2 DEF CommitDoes, TypeOK
  <2> QED
    BY <2>2, <2>3, <2>4, TouchedType
<1>7. ASSUME NEW c \in Conns, CommitTransferFails(c) PROVE TypeOK'
  <2>1. CommitTransferFailsDoes(c)
    BY <1>7, CommitTransferFailsEffect
  <2>2. Touches(c, current[c]) /\ current[c] \in Numbers
    BY <2>1 DEF CommitTransferFailsDoes, Amends, Touches
  <2>3. jobs'[c][current[c]].committed =>
           jobs'[c][current[c]].cancel /\ jobs'[c][current[c]].result = "none"
    BY <2>1, <2>2, BegunAreJobs DEF CommitTransferFailsDoes, Amends, IsNow, Touches
  <2>4. /\ revision' \in Nat /\ content' \in 0..revision' /\ current' = current
        /\ conn' \in [Conns -> {"open", "retiring", "gone"}]
        /\ dismissed' \in [Conns -> SUBSET Numbers]
    BY <2>1, <2>2 DEF CommitTransferFailsDoes, TypeOK
  <2> QED
    BY <2>2, <2>3, <2>4, TouchedType
<1>8. ASSUME NEW c \in Conns, Disconnect(c) PROVE TypeOK'
  <2>1. DisconnectDoes(c)
    BY <1>8, DisconnectEffect
  <2>2. CASE current[c] = 0 /\ jobs' = jobs
    BY <2>1, <2>2 DEF DisconnectDoes, TypeOK, Numbers
  <2>3. CASE ~(current[c] = 0 /\ jobs' = jobs)
    <3>1. Touches(c, current[c]) /\ current[c] \in Numbers
      BY <2>1, <2>3 DEF DisconnectDoes, Amends, Touches
    <3>2. jobs'[c][current[c]].committed =>
             jobs'[c][current[c]].cancel /\ jobs'[c][current[c]].result = "none"
      BY <2>1, <2>3, <3>1, BegunAreJobs DEF DisconnectDoes, Amends, IsNow, Touches
    <3>3. /\ revision' \in Nat /\ content' \in 0..revision' /\ current' = current
          /\ conn' \in [Conns -> {"open", "retiring", "gone"}]
          /\ dismissed' \in [Conns -> SUBSET Numbers]
      BY <2>1 DEF DisconnectDoes, TypeOK
    <3> QED
      BY <3>1, <3>2, <3>3, TouchedType
  <2> QED
    BY <2>2, <2>3
<1>9. ASSUME NEW c \in Conns, Retire(c) PROVE TypeOK'
  <2>1. RetireDoes(c)
    BY <1>9, RetireEffect
  <2>2. CASE current[c] = 0 /\ jobs' = jobs
    BY <2>1, <2>2 DEF RetireDoes, TypeOK, Numbers
  <2>3. CASE ~(current[c] = 0 /\ jobs' = jobs)
    <3>1. Touches(c, current[c]) /\ current[c] \in Numbers
      BY <2>1, <2>3 DEF RetireDoes, Amends, Touches
    <3>2. jobs'[c][current[c]].committed =>
             jobs'[c][current[c]].cancel /\ jobs'[c][current[c]].result = "none"
      BY <2>1, <2>3, <3>1, BegunAreJobs DEF RetireDoes, Amends, IsNow, Touches
    <3>3. /\ revision' \in Nat /\ content' \in 0..revision' /\ current' = current
          /\ conn' \in [Conns -> {"open", "retiring", "gone"}]
          /\ dismissed' \in [Conns -> SUBSET Numbers]
      BY <2>1 DEF RetireDoes, TypeOK
    <3> QED
      BY <3>1, <3>2, <3>3, TouchedType
  <2> QED
    BY <2>2, <2>3
<1>10. ASSUME NEW c \in Conns, NEW n \in Numbers, Work(c, n) PROVE TypeOK'
  <2>1. WorkDoes(c, n)
    BY <1>10, WorkEffect
  <2>2. Touches(c, n) /\ n \in Numbers
    BY <2>1 DEF WorkDoes, Amends, Touches
  <2>3. jobs'[c][n].committed => jobs'[c][n].cancel /\ jobs'[c][n].result = "none"
    BY <2>1, <2>2, BegunAreJobs DEF WorkDoes, Amends, IsNow, Touches
  <2>4. /\ revision' \in Nat /\ content' \in 0..revision' /\ current' = current
        /\ conn' \in [Conns -> {"open", "retiring", "gone"}]
        /\ dismissed' \in [Conns -> SUBSET Numbers]
    BY <2>1, <2>2 DEF WorkDoes, TypeOK
  <2> QED
    BY <2>2, <2>3, <2>4, TouchedType
<1>11. ASSUME NEW c \in Conns, NEW n \in Numbers, Leave(c, n) PROVE TypeOK'
  <2>1. LeaveDoes(c, n)
    BY <1>11, LeaveEffect
  <2>2. Touches(c, n) /\ n \in Numbers
    BY <2>1 DEF LeaveDoes, Amends, Touches
  <2>3. jobs'[c][n].committed => jobs'[c][n].cancel /\ jobs'[c][n].result = "none"
    BY <2>1, <2>2, BegunAreJobs DEF LeaveDoes, Amends, IsNow, Touches
  <2>4. /\ revision' \in Nat /\ content' \in 0..revision' /\ current' = current
        /\ conn' \in [Conns -> {"open", "retiring", "gone"}]
        /\ dismissed' \in [Conns -> SUBSET Numbers]
    BY <2>1, <2>2 DEF LeaveDoes, TypeOK
  <2> QED
    BY <2>2, <2>3, <2>4, TouchedType
<1>12. ASSUME NEW c \in Conns, NEW n \in Numbers,
           NEW result \in {"prepared", "failed"},
              Finish(c, n, result) PROVE TypeOK'
  <2>1. FinishDoes(c, n, result)
    BY <1>12, FinishEffect
  <2>2. Touches(c, n) /\ n \in Numbers
    BY <2>1 DEF FinishDoes, Amends, Touches
  <2>3. jobs'[c][n].committed => jobs'[c][n].cancel /\ jobs'[c][n].result = "none"
    BY <2>1, <2>2, BegunAreJobs DEF FinishDoes, Amends, IsNow, Touches
  <2>4. /\ revision' \in Nat /\ content' \in 0..revision' /\ current' = current
        /\ conn' \in [Conns -> {"open", "retiring", "gone"}]
        /\ dismissed' \in [Conns -> SUBSET Numbers]
    BY <2>1, <2>2 DEF FinishDoes, TypeOK
  <2> QED
    BY <2>2, <2>3, <2>4, TouchedType
<1>13. CASE UNCHANGED vars
  BY <1>13, NoJobAssumption, BoundsAssumption DEF vars, TypeOK, Numbers, Job
<1> QED
  BY <1>1, <1>2, <1>3, <1>4, <1>5, <1>6, <1>7, <1>8, <1>9, <1>10, <1>11, <1>12, <1>13
     DEF Next

LEMMA OnlyTheCurrentRunsStep ==
    ASSUME TypeOK, OnlyTheCurrentRuns, [Next]_vars
    PROVE  OnlyTheCurrentRuns'
<1>1. CASE Edit
  BY <1>1, NoJobAssumption, BoundsAssumption DEF Edit, OnlyTheCurrentRuns, TypeOK, Numbers
<1>2. ASSUME NEW c \in Conns, Begin(c) PROVE OnlyTheCurrentRuns'
  <2>1. BeginDoes(c)
    BY <1>2, BeginEffect
  <2> QED
    BY <2>1, NoJobAssumption, BoundsAssumption
       DEF BeginDoes, Amends, Touches, IsNow, OnlyTheCurrentRuns, TypeOK, Numbers
<1>3. ASSUME NEW c \in Conns, Cancel(c) PROVE OnlyTheCurrentRuns'
  <2>1. CancelDoes(c)
    BY <1>3, CancelEffect
  <2> QED
    BY <2>1, NoJobAssumption, BoundsAssumption
       DEF CancelDoes, Amends, Touches, IsNow, OnlyTheCurrentRuns, TypeOK, Numbers
<1>4. ASSUME NEW c \in Conns, TurnStale(c) PROVE OnlyTheCurrentRuns'
  <2>1. TurnStaleDoes(c)
    BY <1>4, TurnStaleEffect
  <2> QED
    BY <2>1, NoJobAssumption, BoundsAssumption
       DEF TurnStaleDoes, Amends, Touches, IsNow, OnlyTheCurrentRuns, TypeOK, Numbers
<1>5. ASSUME NEW c \in Conns, CommitFailed(c) PROVE OnlyTheCurrentRuns'
  <2>1. CommitFailedDoes(c)
    BY <1>5, CommitFailedEffect
  <2> QED
    BY <2>1, NoJobAssumption, BoundsAssumption
       DEF CommitFailedDoes, Amends, Touches, IsNow, OnlyTheCurrentRuns, TypeOK, Numbers
<1>6. ASSUME NEW c \in Conns, Commit(c) PROVE OnlyTheCurrentRuns'
  <2>1. CommitDoes(c)
    BY <1>6, CommitEffect
  <2> QED
    BY <2>1, NoJobAssumption, BoundsAssumption
       DEF CommitDoes, Amends, Touches, IsNow, OnlyTheCurrentRuns, TypeOK, Numbers
<1>7. ASSUME NEW c \in Conns, CommitTransferFails(c) PROVE OnlyTheCurrentRuns'
  <2>1. CommitTransferFailsDoes(c)
    BY <1>7, CommitTransferFailsEffect
  <2> QED
    BY <2>1, NoJobAssumption, BoundsAssumption
       DEF CommitTransferFailsDoes, Amends, Touches, IsNow, OnlyTheCurrentRuns, TypeOK,
           Numbers
<1>8. ASSUME NEW c \in Conns, Disconnect(c) PROVE OnlyTheCurrentRuns'
  <2>1. DisconnectDoes(c)
    BY <1>8, DisconnectEffect
  <2> QED
    BY <2>1, NoJobAssumption, BoundsAssumption
       DEF DisconnectDoes, Amends, Touches, IsNow, OnlyTheCurrentRuns, TypeOK, Numbers
<1>9. ASSUME NEW c \in Conns, Retire(c) PROVE OnlyTheCurrentRuns'
  <2>1. RetireDoes(c)
    BY <1>9, RetireEffect
  <2> QED
    BY <2>1, NoJobAssumption, BoundsAssumption
       DEF RetireDoes, Amends, Touches, IsNow, OnlyTheCurrentRuns, TypeOK, Numbers
<1>10. ASSUME NEW c \in Conns, NEW n \in Numbers, Work(c, n) PROVE OnlyTheCurrentRuns'
  <2>1. WorkDoes(c, n)
    BY <1>10, WorkEffect
  <2> QED
    BY <2>1, NoJobAssumption, BoundsAssumption
       DEF WorkDoes, Amends, Touches, IsNow, OnlyTheCurrentRuns, TypeOK, Numbers
<1>11. ASSUME NEW c \in Conns, NEW n \in Numbers, Leave(c, n) PROVE OnlyTheCurrentRuns'
  <2>1. LeaveDoes(c, n)
    BY <1>11, LeaveEffect
  <2> QED
    BY <2>1, NoJobAssumption, BoundsAssumption
       DEF LeaveDoes, Amends, Touches, IsNow, OnlyTheCurrentRuns, TypeOK, Numbers
<1>12. ASSUME NEW c \in Conns, NEW n \in Numbers,
           NEW result \in {"prepared", "failed"},
              Finish(c, n, result) PROVE OnlyTheCurrentRuns'
  <2>1. FinishDoes(c, n, result)
    BY <1>12, FinishEffect
  <2> QED
    BY <2>1, NoJobAssumption, BoundsAssumption
       DEF FinishDoes, Amends, Touches, IsNow, OnlyTheCurrentRuns, TypeOK, Numbers
<1>13. CASE UNCHANGED vars
  BY <1>13, NoJobAssumption, BoundsAssumption DEF vars, OnlyTheCurrentRuns, TypeOK, Numbers
<1> QED
  BY <1>1, <1>2, <1>3, <1>4, <1>5, <1>6, <1>7, <1>8, <1>9, <1>10, <1>11, <1>12, <1>13
     DEF Next

LEMMA DismissedStep ==
    ASSUME TypeOK, DismissedIsOver, [Next]_vars
    PROVE  DismissedIsOver'
<1>1. CASE Edit
  BY <1>1, NoJobAssumption, BoundsAssumption DEF Edit, DismissedIsOver, TypeOK, Numbers
<1>2. ASSUME NEW c \in Conns, Begin(c) PROVE DismissedIsOver'
  <2>1. BeginDoes(c)
    BY <1>2, BeginEffect
  <2>2. ASSUME NEW d \in Conns, NEW m \in dismissed[d]
        PROVE  /\ m <= current'[d]
               /\ jobs'[d][m].cancel /\ ~jobs'[d][m].committed /\ jobs'[d][m].result = "none"
    <3>1. /\ m \in Numbers /\ m <= current[d] /\ jobs[d][m] \in Job
          /\ jobs[d][m].cancel /\ ~jobs[d][m].committed /\ jobs[d][m].result = "none"
      BY BegunAreJobs DEF DismissedIsOver, TypeOK
    <3>2. m <= current'[d] /\ (d = c => m # current[c] + 1)
      BY <2>1, <3>1 DEF BeginDoes, TypeOK, Numbers
    <3>3. CASE d = c /\ m = current[c]
      <4>1. current[c] # 0
        BY <3>1, <3>3 DEF Numbers
      <4> QED
        BY <2>1, <3>1, <3>2, <3>3, <4>1 DEF BeginDoes, IsNow
    <3>4. CASE d # c \/ m # current[c]
      BY <2>1, <3>1, <3>2, <3>4 DEF BeginDoes
    <3> QED
      BY <3>3, <3>4
  <2> QED
    BY <2>1, <2>2 DEF BeginDoes, DismissedIsOver
<1>3. ASSUME NEW c \in Conns, Cancel(c) PROVE DismissedIsOver'
  <2>1. CancelDoes(c)
    BY <1>3, CancelEffect
  <2> QED
    BY <2>1, NoJobAssumption, BoundsAssumption
       DEF CancelDoes, Amends, Touches, IsNow, DismissedIsOver, TypeOK, Numbers
<1>4. ASSUME NEW c \in Conns, TurnStale(c) PROVE DismissedIsOver'
  <2>1. TurnStaleDoes(c)
    BY <1>4, TurnStaleEffect
  <2> QED
    BY <2>1, NoJobAssumption, BoundsAssumption
       DEF TurnStaleDoes, Amends, Touches, IsNow, DismissedIsOver, TypeOK, Numbers
<1>5. ASSUME NEW c \in Conns, CommitFailed(c) PROVE DismissedIsOver'
  <2>1. CommitFailedDoes(c)
    BY <1>5, CommitFailedEffect
  <2> QED
    BY <2>1, NoJobAssumption, BoundsAssumption
       DEF CommitFailedDoes, Amends, Touches, IsNow, DismissedIsOver, TypeOK, Numbers
<1>6. ASSUME NEW c \in Conns, Commit(c) PROVE DismissedIsOver'
  <2>1. CommitDoes(c)
    BY <1>6, CommitEffect
  <2> QED
    BY <2>1, NoJobAssumption, BoundsAssumption
       DEF CommitDoes, Amends, Touches, IsNow, DismissedIsOver, TypeOK, Numbers
<1>7. ASSUME NEW c \in Conns, CommitTransferFails(c) PROVE DismissedIsOver'
  <2>1. CommitTransferFailsDoes(c)
    BY <1>7, CommitTransferFailsEffect
  <2> QED
    BY <2>1, NoJobAssumption, BoundsAssumption
       DEF CommitTransferFailsDoes, Amends, Touches, IsNow, DismissedIsOver, TypeOK,
           Numbers
<1>8. ASSUME NEW c \in Conns, Disconnect(c) PROVE DismissedIsOver'
  <2>1. DisconnectDoes(c)
    BY <1>8, DisconnectEffect
  <2>2. CASE current[c] = 0 /\ jobs' = jobs
    BY <2>1, <2>2 DEF DisconnectDoes, DismissedIsOver
  <2>3. CASE ~(current[c] = 0 /\ jobs' = jobs)
    BY <2>1, <2>3
       DEF DisconnectDoes, Amends, Touches, IsNow, DismissedIsOver, TypeOK, Numbers
  <2> QED
    BY <2>2, <2>3
<1>9. ASSUME NEW c \in Conns, Retire(c) PROVE DismissedIsOver'
  <2>1. RetireDoes(c)
    BY <1>9, RetireEffect
  <2>2. CASE current[c] = 0 /\ jobs' = jobs
    BY <2>1, <2>2 DEF RetireDoes, DismissedIsOver
  <2>3. CASE ~(current[c] = 0 /\ jobs' = jobs)
    BY <2>1, <2>3 DEF RetireDoes, Amends, Touches, IsNow, DismissedIsOver, TypeOK, Numbers
  <2> QED
    BY <2>2, <2>3
<1>10. ASSUME NEW c \in Conns, NEW n \in Numbers, Work(c, n) PROVE DismissedIsOver'
  <2>1. WorkDoes(c, n)
    BY <1>10, WorkEffect
  <2> QED
    BY <2>1, NoJobAssumption, BoundsAssumption
       DEF WorkDoes, Amends, Touches, IsNow, DismissedIsOver, TypeOK, Numbers
<1>11. ASSUME NEW c \in Conns, NEW n \in Numbers, Leave(c, n) PROVE DismissedIsOver'
  <2>1. LeaveDoes(c, n)
    BY <1>11, LeaveEffect
  <2> QED
    BY <2>1, NoJobAssumption, BoundsAssumption
       DEF LeaveDoes, Amends, Touches, IsNow, DismissedIsOver, TypeOK, Numbers
<1>12. ASSUME NEW c \in Conns, NEW n \in Numbers,
           NEW result \in {"prepared", "failed"},
              Finish(c, n, result) PROVE DismissedIsOver'
  <2>1. FinishDoes(c, n, result)
    BY <1>12, FinishEffect
  <2> QED
    BY <2>1, NoJobAssumption, BoundsAssumption
       DEF FinishDoes, Amends, Touches, IsNow, DismissedIsOver, TypeOK, Numbers
<1>13. CASE UNCHANGED vars
  BY <1>13, NoJobAssumption, BoundsAssumption DEF vars, DismissedIsOver, TypeOK, Numbers
<1> QED
  BY <1>1, <1>2, <1>3, <1>4, <1>5, <1>6, <1>7, <1>8, <1>9, <1>10, <1>11, <1>12, <1>13
     DEF Next

LEMMA GoneStep ==
    ASSUME TypeOK, GoneIsJoined, [Next]_vars
    PROVE  GoneIsJoined'
<1>1. CASE Edit
  BY <1>1, NoJobAssumption, BoundsAssumption
     DEF Edit, GoneIsJoined, HasJob, Current, TypeOK, Numbers
<1>2. ASSUME NEW c \in Conns, Begin(c) PROVE GoneIsJoined'
  <2>1. BeginDoes(c)
    BY <1>2, BeginEffect
  <2> QED
    BY <2>1, NoJobAssumption, BoundsAssumption
       DEF BeginDoes, Amends, Touches, IsNow, GoneIsJoined, HasJob, Current, TypeOK,
           Numbers
<1>3. ASSUME NEW c \in Conns, Cancel(c) PROVE GoneIsJoined'
  <2>1. CancelDoes(c)
    BY <1>3, CancelEffect
  <2> QED
    BY <2>1, NoJobAssumption, BoundsAssumption
       DEF CancelDoes, Amends, Touches, IsNow, GoneIsJoined, HasJob, Current, TypeOK,
           Numbers
<1>4. ASSUME NEW c \in Conns, TurnStale(c) PROVE GoneIsJoined'
  <2>1. TurnStaleDoes(c)
    BY <1>4, TurnStaleEffect
  <2> QED
    BY <2>1, NoJobAssumption, BoundsAssumption
       DEF TurnStaleDoes, Amends, Touches, IsNow, GoneIsJoined, HasJob, Current, TypeOK,
           Numbers
<1>5. ASSUME NEW c \in Conns, CommitFailed(c) PROVE GoneIsJoined'
  <2>1. CommitFailedDoes(c)
    BY <1>5, CommitFailedEffect
  <2> QED
    BY <2>1, NoJobAssumption, BoundsAssumption
       DEF CommitFailedDoes, Amends, Touches, IsNow, GoneIsJoined, HasJob, Current,
           TypeOK, Numbers
<1>6. ASSUME NEW c \in Conns, Commit(c) PROVE GoneIsJoined'
  <2>1. CommitDoes(c)
    BY <1>6, CommitEffect
  <2>2. /\ Touches(c, current[c]) /\ current[c] \in Numbers /\ conn' = conn /\ current' = current
        /\ conn[c] = "open" \/ jobs[c][current[c]].worker # "finished"
    BY <2>1 DEF CommitDoes, Amends, Touches
  <2> QED
    BY <2>2, TouchedGone
<1>7. ASSUME NEW c \in Conns, CommitTransferFails(c) PROVE GoneIsJoined'
  <2>1. CommitTransferFailsDoes(c)
    BY <1>7, CommitTransferFailsEffect
  <2>2. /\ Touches(c, current[c]) /\ current[c] \in Numbers /\ conn' = conn /\ current' = current
        /\ conn[c] = "open" \/ jobs[c][current[c]].worker # "finished"
    BY <2>1 DEF CommitTransferFailsDoes, Amends, Touches
  <2> QED
    BY <2>2, TouchedGone
<1>8. ASSUME NEW c \in Conns, Disconnect(c) PROVE GoneIsJoined'
  <2>1. DisconnectDoes(c)
    BY <1>8, DisconnectEffect
  <2>2. CASE current[c] = 0 /\ jobs' = jobs
    BY <2>1, <2>2 DEF DisconnectDoes, GoneIsJoined, HasJob, Current
  <2>3. CASE ~(current[c] = 0 /\ jobs' = jobs)
    BY <2>1, <2>3
       DEF DisconnectDoes, Amends, Touches, IsNow, GoneIsJoined, HasJob, Current, TypeOK,
           Numbers
  <2> QED
    BY <2>2, <2>3
<1>9. ASSUME NEW c \in Conns, Retire(c) PROVE GoneIsJoined'
  <2>1. RetireDoes(c)
    BY <1>9, RetireEffect
  <2>2. CASE current[c] = 0 /\ jobs' = jobs
    BY <2>1, <2>2 DEF RetireDoes, GoneIsJoined, HasJob, Current
  <2>3. CASE ~(current[c] = 0 /\ jobs' = jobs)
    BY <2>1, <2>3
       DEF RetireDoes, Amends, Touches, IsNow, GoneIsJoined, HasJob, Current, TypeOK,
           Numbers
  <2> QED
    BY <2>2, <2>3
<1>10. ASSUME NEW c \in Conns, NEW n \in Numbers, Work(c, n) PROVE GoneIsJoined'
  <2>1. WorkDoes(c, n)
    BY <1>10, WorkEffect
  <2> QED
    BY <2>1, NoJobAssumption, BoundsAssumption
       DEF WorkDoes, Amends, Touches, IsNow, GoneIsJoined, HasJob, Current, TypeOK,
           Numbers
<1>11. ASSUME NEW c \in Conns, NEW n \in Numbers, Leave(c, n) PROVE GoneIsJoined'
  <2>1. LeaveDoes(c, n)
    BY <1>11, LeaveEffect
  <2> QED
    BY <2>1, NoJobAssumption, BoundsAssumption
       DEF LeaveDoes, Amends, Touches, IsNow, GoneIsJoined, HasJob, Current, TypeOK,
           Numbers
<1>12. ASSUME NEW c \in Conns, NEW n \in Numbers,
           NEW result \in {"prepared", "failed"},
              Finish(c, n, result) PROVE GoneIsJoined'
  <2>1. FinishDoes(c, n, result)
    BY <1>12, FinishEffect
  <2>2. /\ Touches(c, n) /\ n \in Numbers /\ conn' = conn /\ current' = current
        /\ conn[c] = "open" \/ jobs[c][n].worker # "finished"
    BY <2>1 DEF FinishDoes, Amends, Touches
  <2> QED
    BY <2>2, TouchedGone
<1>13. CASE UNCHANGED vars
  BY <1>13, NoJobAssumption, BoundsAssumption
     DEF vars, GoneIsJoined, HasJob, Current, TypeOK, Numbers
<1> QED
  BY <1>1, <1>2, <1>3, <1>4, <1>5, <1>6, <1>7, <1>8, <1>9, <1>10, <1>11, <1>12, <1>13
     DEF Next

LEMMA BaseStep ==
    ASSUME TypeOK, BaseIsOfItsRevision, [Next]_vars
    PROVE  BaseIsOfItsRevision'
<1>1. CASE Edit
  BY <1>1, NoJobAssumption, BoundsAssumption
     DEF Edit, BaseIsOfItsRevision, TypeOK, Job, Numbers
<1>2. ASSUME NEW c \in Conns, Begin(c) PROVE BaseIsOfItsRevision'
  <2>1. BeginDoes(c)
    BY <1>2, BeginEffect
  <2>2. ASSUME NEW d \in Conns, NEW m \in Numbers, m <= current'[d]
        PROVE  /\ jobs'[d][m].revision <= revision
               /\ jobs'[d][m].revision = revision => jobs'[d][m].base = content
    <3>1. CASE d = c /\ m = current[c] + 1
      BY <2>1, <3>1 DEF BeginDoes, TypeOK
    <3>2. CASE d # c \/ m # current[c] + 1
      <4>1. m <= current[d] /\ m # 0
        BY <2>1, <2>2, <3>2 DEF BeginDoes, TypeOK, Numbers
      <4>2. jobs'[d][m].revision = jobs[d][m].revision /\ jobs'[d][m].base = jobs[d][m].base
        BY <2>1, <3>2, <4>1 DEF BeginDoes, IsNow
      <4> QED
        BY <4>1, <4>2 DEF BaseIsOfItsRevision
    <3> QED
      BY <3>1, <3>2
  <2> QED
    BY <2>1, <2>2 DEF BeginDoes, BaseIsOfItsRevision
<1>3. ASSUME NEW c \in Conns, Cancel(c) PROVE BaseIsOfItsRevision'
  <2>1. CancelDoes(c)
    BY <1>3, CancelEffect
  <2>2. /\ Touches(c, current[c]) /\ current[c] \in Numbers
        /\ jobs'[c][current[c]].revision = jobs[c][current[c]].revision
        /\ jobs'[c][current[c]].base = jobs[c][current[c]].base
    BY <2>1 DEF CancelDoes, Amends, Touches, IsNow
  <2>3. /\ current' = current /\ revision' \in Nat
        /\ (revision' = revision /\ content' = content) \/ revision' > revision
    BY <2>1 DEF CancelDoes, TypeOK
  <2> QED
    BY <2>2, <2>3, TouchedBase
<1>4. ASSUME NEW c \in Conns, TurnStale(c) PROVE BaseIsOfItsRevision'
  <2>1. TurnStaleDoes(c)
    BY <1>4, TurnStaleEffect
  <2>2. /\ Touches(c, current[c]) /\ current[c] \in Numbers
        /\ jobs'[c][current[c]].revision = jobs[c][current[c]].revision
        /\ jobs'[c][current[c]].base = jobs[c][current[c]].base
    BY <2>1 DEF TurnStaleDoes, Amends, Touches, IsNow
  <2>3. /\ current' = current /\ revision' \in Nat
        /\ (revision' = revision /\ content' = content) \/ revision' > revision
    BY <2>1 DEF TurnStaleDoes, TypeOK
  <2> QED
    BY <2>2, <2>3, TouchedBase
<1>5. ASSUME NEW c \in Conns, CommitFailed(c) PROVE BaseIsOfItsRevision'
  <2>1. CommitFailedDoes(c)
    BY <1>5, CommitFailedEffect
  <2>2. /\ Touches(c, current[c]) /\ current[c] \in Numbers
        /\ jobs'[c][current[c]].revision = jobs[c][current[c]].revision
        /\ jobs'[c][current[c]].base = jobs[c][current[c]].base
    BY <2>1 DEF CommitFailedDoes, Amends, Touches, IsNow
  <2>3. /\ current' = current /\ revision' \in Nat
        /\ (revision' = revision /\ content' = content) \/ revision' > revision
    BY <2>1 DEF CommitFailedDoes, TypeOK
  <2> QED
    BY <2>2, <2>3, TouchedBase
<1>6. ASSUME NEW c \in Conns, Commit(c) PROVE BaseIsOfItsRevision'
  <2>1. CommitDoes(c)
    BY <1>6, CommitEffect
  <2>2. /\ Touches(c, current[c]) /\ current[c] \in Numbers
        /\ jobs'[c][current[c]].revision = jobs[c][current[c]].revision
        /\ jobs'[c][current[c]].base = jobs[c][current[c]].base
    BY <2>1 DEF CommitDoes, Amends, Touches, IsNow
  <2>3. /\ current' = current /\ revision' \in Nat
        /\ (revision' = revision /\ content' = content) \/ revision' > revision
    BY <2>1 DEF CommitDoes, TypeOK
  <2> QED
    BY <2>2, <2>3, TouchedBase
<1>7. ASSUME NEW c \in Conns, CommitTransferFails(c) PROVE BaseIsOfItsRevision'
  <2>1. CommitTransferFailsDoes(c)
    BY <1>7, CommitTransferFailsEffect
  <2>2. /\ Touches(c, current[c]) /\ current[c] \in Numbers
        /\ jobs'[c][current[c]].revision = jobs[c][current[c]].revision
        /\ jobs'[c][current[c]].base = jobs[c][current[c]].base
    BY <2>1 DEF CommitTransferFailsDoes, Amends, Touches, IsNow
  <2>3. /\ current' = current /\ revision' \in Nat
        /\ (revision' = revision /\ content' = content) \/ revision' > revision
    BY <2>1 DEF CommitTransferFailsDoes, TypeOK
  <2> QED
    BY <2>2, <2>3, TouchedBase
<1>8. ASSUME NEW c \in Conns, Disconnect(c) PROVE BaseIsOfItsRevision'
  <2>1. DisconnectDoes(c)
    BY <1>8, DisconnectEffect
  <2>2. CASE current[c] = 0 /\ jobs' = jobs
    BY <2>1, <2>2 DEF DisconnectDoes, BaseIsOfItsRevision
  <2>3. CASE ~(current[c] = 0 /\ jobs' = jobs)
    <3>1. /\ Touches(c, current[c]) /\ current[c] \in Numbers
          /\ jobs'[c][current[c]].revision = jobs[c][current[c]].revision
          /\ jobs'[c][current[c]].base = jobs[c][current[c]].base
      BY <2>1, <2>3 DEF DisconnectDoes, Amends, IsNow, Touches
    <3>2. /\ current' = current /\ revision' \in Nat
          /\ (revision' = revision /\ content' = content) \/ revision' > revision
      BY <2>1 DEF DisconnectDoes, TypeOK
    <3> QED
      BY <3>1, <3>2, TouchedBase
  <2> QED
    BY <2>2, <2>3
<1>9. ASSUME NEW c \in Conns, Retire(c) PROVE BaseIsOfItsRevision'
  <2>1. RetireDoes(c)
    BY <1>9, RetireEffect
  <2>2. CASE current[c] = 0 /\ jobs' = jobs
    BY <2>1, <2>2 DEF RetireDoes, BaseIsOfItsRevision
  <2>3. CASE ~(current[c] = 0 /\ jobs' = jobs)
    <3>1. /\ Touches(c, current[c]) /\ current[c] \in Numbers
          /\ jobs'[c][current[c]].revision = jobs[c][current[c]].revision
          /\ jobs'[c][current[c]].base = jobs[c][current[c]].base
      BY <2>1, <2>3 DEF RetireDoes, Amends, IsNow, Touches
    <3>2. /\ current' = current /\ revision' \in Nat
          /\ (revision' = revision /\ content' = content) \/ revision' > revision
      BY <2>1 DEF RetireDoes, TypeOK
    <3> QED
      BY <3>1, <3>2, TouchedBase
  <2> QED
    BY <2>2, <2>3
<1>10. ASSUME NEW c \in Conns, NEW n \in Numbers, Work(c, n) PROVE BaseIsOfItsRevision'
  <2>1. WorkDoes(c, n)
    BY <1>10, WorkEffect
  <2>2. /\ Touches(c, n) /\ n \in Numbers
        /\ jobs'[c][n].revision = jobs[c][n].revision
        /\ jobs'[c][n].base = jobs[c][n].base
    BY <2>1 DEF WorkDoes, Amends, Touches, IsNow
  <2>3. /\ current' = current /\ revision' \in Nat
        /\ (revision' = revision /\ content' = content) \/ revision' > revision
    BY <2>1 DEF WorkDoes, TypeOK
  <2> QED
    BY <2>2, <2>3, TouchedBase
<1>11. ASSUME NEW c \in Conns, NEW n \in Numbers, Leave(c, n) PROVE BaseIsOfItsRevision'
  <2>1. LeaveDoes(c, n)
    BY <1>11, LeaveEffect
  <2>2. /\ Touches(c, n) /\ n \in Numbers
        /\ jobs'[c][n].revision = jobs[c][n].revision
        /\ jobs'[c][n].base = jobs[c][n].base
    BY <2>1 DEF LeaveDoes, Amends, Touches, IsNow
  <2>3. /\ current' = current /\ revision' \in Nat
        /\ (revision' = revision /\ content' = content) \/ revision' > revision
    BY <2>1 DEF LeaveDoes, TypeOK
  <2> QED
    BY <2>2, <2>3, TouchedBase
<1>12. ASSUME NEW c \in Conns, NEW n \in Numbers,
           NEW result \in {"prepared", "failed"},
              Finish(c, n, result) PROVE BaseIsOfItsRevision'
  <2>1. FinishDoes(c, n, result)
    BY <1>12, FinishEffect
  <2>2. /\ Touches(c, n) /\ n \in Numbers
        /\ jobs'[c][n].revision = jobs[c][n].revision
        /\ jobs'[c][n].base = jobs[c][n].base
    BY <2>1 DEF FinishDoes, Amends, Touches, IsNow
  <2>3. /\ current' = current /\ revision' \in Nat
        /\ (revision' = revision /\ content' = content) \/ revision' > revision
    BY <2>1 DEF FinishDoes, TypeOK
  <2> QED
    BY <2>2, <2>3, TouchedBase
<1>13. CASE UNCHANGED vars
  BY <1>13, NoJobAssumption, BoundsAssumption
     DEF vars, BaseIsOfItsRevision, TypeOK, Job, Numbers
<1> QED
  BY <1>1, <1>2, <1>3, <1>4, <1>5, <1>6, <1>7, <1>8, <1>9, <1>10, <1>11, <1>12, <1>13
     DEF Next

LEMMA StepIInv == IInv /\ [Next]_vars => IInv'
BY TypeStep, OnlyTheCurrentRunsStep, DismissedStep, GoneStep, BaseStep DEF IInv

-----------------------------------------------------------------------------
(* The invariant implies the properties. *)

THEOREM Invariance == Spec => []IInv
<1>1. Init => IInv
  BY InitIInv
<1>2. IInv /\ [Next]_vars => IInv'
  BY StepIInv
<1> QED
  BY <1>1, <1>2, PTL DEF Spec

\* Every variable keeps its type: a connection has its jobs one after the other,
\* and a committed job is closed and holds nothing.
THEOREM TypeCorrect == Spec => []TypeOK
<1>1. IInv => TypeOK
  BY DEF IInv
<1> QED
  BY <1>1, Invariance, PTL

\* A dismissed import is never committed. (terminal, start_worker, continue_job)
THEOREM DismissedIsNotCommitted == Spec => []CancelledNeverCommits
<1>1. IInv => CancelledNeverCommits
  BY DEF IInv, DismissedIsOver, CancelledNeverCommits
<1> QED
  BY <1>1, Invariance, PTL

\* An ended worker of a dismissed or replaced import leaves no staging behind.
\* (terminal, start_worker, begin)
THEOREM DismissedLeavesNothing == Spec => []DismissedStagingIsGone
<1>1. IInv => DismissedStagingIsGone
  <2> SUFFICES ASSUME IInv, NEW c \in Conns, NEW n \in JobsOf(c),
                      n \in dismissed[c] \/ n # current[c], jobs[c][n].worker = "finished"
               PROVE  jobs[c][n].result # "prepared"
    BY DEF DismissedStagingIsGone, Staged
  <2>1. n \in Numbers /\ n <= current[c] /\ current[c] \in Nat
    BY DEF IInv, TypeOK, JobsOf
  <2>2. CASE n \in dismissed[c]
    BY <2>2 DEF IInv, DismissedIsOver
  <2>3. CASE n # current[c]
    <3>1. n < current[c]
      BY <2>1, <2>3 DEF Numbers
    <3> QED
      BY <2>1, <3>1 DEF IInv, OnlyTheCurrentRuns
  <2> QED
    BY <2>2, <2>3
<1> QED
  BY <1>1, Invariance, PTL

\* A connection that is gone has neither a worker nor staging. (RetiredJobs::retire,
\* Drop for Jobs)
THEOREM GoneIsGone == Spec => []GoneLeavesNothing
<1>1. IInv => GoneLeavesNothing
  <2> SUFFICES ASSUME IInv, NEW c \in Conns, conn[c] = "gone", NEW n \in JobsOf(c)
               PROVE  ~Staged(jobs[c][n])
    BY DEF GoneLeavesNothing
  <2>1. n \in Numbers /\ n <= current[c] /\ current[c] \in Nat
    BY DEF IInv, TypeOK, JobsOf
  <2>2. CASE n = current[c]
    BY <2>1, <2>2 DEF IInv, GoneIsJoined, HasJob, Current, Staged, Numbers
  <2>3. CASE n # current[c]
    <3>1. n < current[c]
      BY <2>1, <2>3 DEF Numbers
    <3> QED
      BY <2>1, <3>1 DEF IInv, OnlyTheCurrentRuns, Staged
  <2> QED
    BY <2>2, <2>3
<1> QED
  BY <1>1, Invariance, PTL

\* Only its own commit makes a job committed, and then the job was not stale.
LEMMA CommitStep ==
    ASSUME IInv, [Next]_vars, NEW d \in Conns, NEW m \in JobsOf(d),
           ~jobs[d][m].committed, jobs'[d][m].committed
    PROVE  content = jobs[d][m].base
<1>0. /\ TypeOK /\ m \in Numbers /\ m <= current[d] /\ m # 0
  BY DEF IInv, TypeOK, JobsOf, Numbers
<1>1. CASE Edit
  BY <1>1 DEF Edit
<1>2. ASSUME NEW c \in Conns, Begin(c) PROVE content = jobs[d][m].base
  <2>1. BeginDoes(c)
    BY <1>0, <1>2, BeginEffect
  <2> QED
    BY <1>0, <2>1 DEF BeginDoes, Amends, Touches, IsNow
<1>3. ASSUME NEW c \in Conns, Cancel(c) PROVE content = jobs[d][m].base
  <2>1. CancelDoes(c)
    BY <1>0, <1>3, CancelEffect
  <2> QED
    BY <1>0, <2>1 DEF CancelDoes, Amends, Touches, IsNow
<1>4. ASSUME NEW c \in Conns, TurnStale(c) PROVE content = jobs[d][m].base
  <2>1. TurnStaleDoes(c)
    BY <1>0, <1>4, TurnStaleEffect
  <2> QED
    BY <1>0, <2>1 DEF TurnStaleDoes, Amends, Touches, IsNow
<1>5. ASSUME NEW c \in Conns, CommitFailed(c) PROVE content = jobs[d][m].base
  <2>1. CommitFailedDoes(c)
    BY <1>0, <1>5, CommitFailedEffect
  <2> QED
    BY <1>0, <2>1 DEF CommitFailedDoes, Amends, Touches, IsNow
<1>6. ASSUME NEW c \in Conns, Commit(c) PROVE content = jobs[d][m].base
  <2>1. CommitDoes(c)
    BY <1>0, <1>6, CommitEffect
  <2> QED
    BY <1>0, <2>1 DEF CommitDoes, Amends, Touches, IsNow, IInv, BaseIsOfItsRevision
<1>7. ASSUME NEW c \in Conns, CommitTransferFails(c) PROVE content = jobs[d][m].base
  <2>1. CommitTransferFailsDoes(c)
    BY <1>0, <1>7, CommitTransferFailsEffect
  <2> QED
    BY <1>0, <2>1 DEF CommitTransferFailsDoes, Amends, Touches, IsNow
<1>8. ASSUME NEW c \in Conns, Disconnect(c) PROVE content = jobs[d][m].base
  <2>1. DisconnectDoes(c)
    BY <1>0, <1>8, DisconnectEffect
  <2> QED
    BY <1>0, <2>1 DEF DisconnectDoes, Amends, Touches, IsNow
<1>9. ASSUME NEW c \in Conns, Retire(c) PROVE content = jobs[d][m].base
  <2>1. RetireDoes(c)
    BY <1>0, <1>9, RetireEffect
  <2> QED
    BY <1>0, <2>1 DEF RetireDoes, Amends, Touches, IsNow
<1>10. ASSUME NEW c \in Conns, NEW n \in Numbers, Work(c, n) PROVE content = jobs[d][m].base
  <2>1. WorkDoes(c, n)
    BY <1>0, <1>10, WorkEffect
  <2> QED
    BY <1>0, <2>1 DEF WorkDoes, Amends, Touches, IsNow
<1>11. ASSUME NEW c \in Conns, NEW n \in Numbers, Leave(c, n) PROVE content = jobs[d][m].base
  <2>1. LeaveDoes(c, n)
    BY <1>0, <1>11, LeaveEffect
  <2> QED
    BY <1>0, <2>1 DEF LeaveDoes, Amends, Touches, IsNow
<1>12. ASSUME NEW c \in Conns, NEW n \in Numbers,
           NEW result \in {"prepared", "failed"},
              Finish(c, n, result) PROVE content = jobs[d][m].base
  <2>1. FinishDoes(c, n, result)
    BY <1>0, <1>12, FinishEffect
  <2> QED
    BY <1>0, <2>1 DEF FinishDoes, Amends, Touches, IsNow
<1>13. CASE UNCHANGED vars
  BY <1>13 DEF vars
<1> QED
  BY <1>1, <1>2, <1>3, <1>4, <1>5, <1>6, <1>7, <1>8, <1>9, <1>10, <1>11, <1>12, <1>13
     DEF Next

\* An import replaces exactly what was authored when it captured its inputs.
\* (continue_job, commit_classic_scenario_import)
THEOREM OverwritesNothing == Spec => ImportOverwritesNothing
<1>1. IInv /\ [Next]_vars => [\A c \in Conns : \A n \in JobsOf(c) :
         (~jobs[c][n].committed /\ jobs'[c][n].committed) => content = jobs[c][n].base]_vars
  BY CommitStep
<1> QED
  BY <1>1, Invariance, PTL DEF Spec, ImportOverwritesNothing
=============================================================================
