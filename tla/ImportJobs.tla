------------------------------ MODULE ImportJobs ------------------------------
(***************************************************************************)
(* Classic scenario import as a job of a connection.  A worker thread      *)
(* captures the inputs and prepares a complete project in a staging        *)
(* directory it owns; only commit replaces the project, and only at the    *)
(* revision the job began at.  Jobs are cancelled by their client, by an   *)
(* edit that makes them stale, and when the connection is dropped.         *)
(* (scenario_import/jobs.rs, shared_host/retired_jobs.rs)                  *)
(*                                                                         *)
(* A host serves one project, so a job never meets another project id or   *)
(* another root.                                                           *)
(* A change of application support drops its client's jobs as the end of a *)
(* connection does, and goes on with new ones.                             *)
(***************************************************************************)
EXTENDS Naturals, FiniteSets

CONSTANTS
    Conns,        \* connections to the host
    Checkpoints,  \* cancellation checkpoints of a preparation: files and phases
    MaxJobs,      \* bound: jobs begun by one connection
    MaxRevision,  \* bound: no edit starts at this revision
    NoJob

ASSUME BoundsAssumption ==
    Checkpoints \in Nat /\ MaxJobs \in Nat /\ MaxRevision \in Nat

VARIABLES
    revision,   \* of the session the host serves
    content,    \* what is authored, named by the revision that first had it
    jobs,       \* every job begun: connection -> number -> Job or NoJob
    current,    \* Jobs.current: the number of the job in hand, 0 for none
    conn,       \* "open", "retiring" (its jobs are being dropped), "gone"
    dismissed   \* history: jobs whose client was told "cancelled" for its cancel

vars == <<revision, content, jobs, current, conn, dismissed>>

Numbers == 1..MaxJobs

Job == [revision : Nat, base : Nat, cancel : BOOLEAN,
        result : {"none", "prepared", "failed"}, committed : BOOLEAN,
        worker : {"preparing", "leaving", "finished"}, left : 0..Checkpoints]

ASSUME NoJobAssumption == NoJob \notin Job

TypeOK ==
    /\ revision \in Nat
    /\ content \in 0..revision
    /\ jobs \in [Conns -> [Numbers -> Job \cup {NoJob}]]
    /\ current \in [Conns -> 0..MaxJobs]
    /\ \A c \in Conns, n \in Numbers : jobs[c][n] # NoJob <=> n <= current[c]
    /\ \A c \in Conns, n \in 1..MaxJobs : jobs[c][n] # NoJob /\ jobs[c][n].committed =>
           jobs[c][n].cancel /\ jobs[c][n].result = "none"
    /\ conn \in [Conns -> {"open", "retiring", "gone"}]
    /\ dismissed \in [Conns -> SUBSET Numbers]

Init ==
    /\ revision = 0
    /\ content = 0
    /\ jobs = [c \in Conns |-> [n \in Numbers |-> NoJob]]
    /\ current = [c \in Conns |-> 0]
    /\ conn = [c \in Conns |-> "open"]
    /\ dismissed = [c \in Conns |-> {}]

HasJob(c) == current[c] # 0
Current(c) == jobs[c][current[c]]

Update(c, job) == jobs' = [jobs EXCEPT ![c][current[c]] = job]

\* The staging directory exists: prepare or the ending thread holds it, or it is
\* part of the prepared result.
Staged(job) == job.worker # "finished" \/ job.result = "prepared"

-----------------------------------------------------------------------------
(* The session. *)

\* Mutated form of Edit: authored content changes under the same revision.
EditUnnumbered ==
    /\ revision < MaxRevision
    /\ revision' = revision
    /\ \E authored \in 0..revision + 1 : content' = authored
    /\ UNCHANGED <<jobs, current, conn, dismissed>>

\* A command authors something new; undo and redo return to an earlier content,
\* under a revision of their own.
Edit ==
    /\ revision < MaxRevision
    /\ revision' = revision + 1
    /\ \E authored \in 0..revision + 1 : content' = authored
    /\ UNCHANGED <<jobs, current, conn, dismissed>>

-----------------------------------------------------------------------------
(* Requests. *)

\* Finish or cancel the current import first.
MayBegin(c) == HasJob(c) => Current(c).cancel /\ Current(c).worker = "finished"

\* The job that is replaced is dropped, and with it its staging.
Replaced(c) ==
    IF HasJob(c) THEN [jobs[c] EXCEPT ![current[c]].result = "none"] ELSE jobs[c]

\* Jobs::begin with the session's revision as expectedRevision
Begin(c) ==
    /\ conn[c] = "open"
    /\ current[c] < MaxJobs
    /\ MayBegin(c)
    /\ current' = [current EXCEPT ![c] = @ + 1]
    /\ jobs' = [jobs EXCEPT ![c] = [Replaced(c) EXCEPT
                  ![current[c] + 1] =
                     [revision |-> revision, base |-> content, cancel |-> FALSE,
                      result |-> "none", committed |-> FALSE,
                      worker |-> "preparing", left |-> Checkpoints]]]
    /\ UNCHANGED <<revision, content, conn, dismissed>>

\* Job ids are never reused, so a request names the current job or none.
Serves(c) == conn[c] = "open" /\ HasJob(c)

\* Mutated form of Cancelled: the worker is not told, only its result dropped.
CancelledNow(job) == [job EXCEPT !.result = "none"]

Cancelled(job) == [job EXCEPT !.cancel = TRUE, !.result = "none"]

\* terminal for "cancel": a committed job stays committed.
Cancel(c) ==
    /\ Serves(c)
    /\ ~Current(c).committed
    /\ Update(c, Cancelled(Current(c)))
    /\ dismissed' = [dismissed EXCEPT ![c] = @ \cup {current[c]}]
    /\ UNCHANGED <<revision, content, current, conn>>

IsStale(job) == revision # job.revision

\* A status or commit finds the session at another revision. The job is cancelled,
\* its result is kept.
TurnStale(c) ==
    /\ Serves(c)
    /\ ~Current(c).committed /\ ~Current(c).cancel
    /\ IsStale(Current(c))
    /\ Update(c, [Current(c) EXCEPT !.cancel = TRUE])
    /\ UNCHANGED <<revision, content, current, conn, dismissed>>

Committable(c) ==
    /\ Serves(c)
    /\ ~Current(c).committed /\ ~Current(c).cancel
    /\ ~IsStale(Current(c))

\* commit takes the result. An error in it goes to the client; the job itself is
\* neither cancelled nor failed any longer.
CommitFailed(c) ==
    /\ Committable(c)
    /\ Current(c).result = "failed"
    /\ Update(c, [Current(c) EXCEPT !.result = "none"])
    /\ UNCHANGED <<revision, content, current, conn, dismissed>>

\* The result is taken and the job closed before anything is attempted with it.
Spent(job) == [job EXCEPT !.result = "none", !.cancel = TRUE]

\* commit_prepared, commit_classic_scenario_import
Commit(c) ==
    /\ Committable(c)
    /\ Current(c).result = "prepared"
    /\ revision' = revision + 1
    /\ content' = revision + 1
    /\ Update(c, [Spent(Current(c)) EXCEPT !.committed = TRUE])
    /\ UNCHANGED <<current, conn, dismissed>>

\* transfer_blobs fails: the session is untouched and the stage is lost.
CommitTransferFails(c) ==
    /\ Committable(c)
    /\ Current(c).result = "prepared"
    /\ Update(c, Spent(Current(c)))
    /\ UNCHANGED <<revision, content, current, conn, dismissed>>

-----------------------------------------------------------------------------
(* The worker thread of job n. *)

\* capture_directory, Progress: one file or phase, unless cancelled by then
Work(c, n) ==
    /\ jobs[c][n] # NoJob
    /\ jobs[c][n].worker = "preparing" /\ jobs[c][n].left > 0
    /\ ~jobs[c][n].cancel
    /\ jobs' = [jobs EXCEPT ![c][n].left = @ - 1]
    /\ UNCHANGED <<revision, content, current, conn, dismissed>>

\* Mutated form of Stored: the worker publishes whatever the job has become.
StoredAlways(job, result) == [job EXCEPT !.result = result]

\* The cancellation is read once more, under the mutex that terminal holds.
Stored(job, result) == IF job.cancel THEN job ELSE [job EXCEPT !.result = result]

\* prepare returns: complete, or at any checkpoint with an error, a panic, or the
\* cancellation it found there.
Finish(c, n, result) ==
    /\ jobs[c][n] # NoJob
    /\ jobs[c][n].worker = "preparing"
    /\ result = "prepared" => jobs[c][n].left = 0
    /\ jobs' = [jobs EXCEPT ![c][n] = [Stored(@, result) EXCEPT !.worker = "leaving"]]
    /\ UNCHANGED <<revision, content, current, conn, dismissed>>

\* The thread ends (JoinHandle::is_finished).
Leave(c, n) ==
    /\ jobs[c][n] # NoJob
    /\ jobs[c][n].worker = "leaving"
    /\ jobs' = [jobs EXCEPT ![c][n].worker = "finished"]
    /\ UNCHANGED <<revision, content, current, conn, dismissed>>

-----------------------------------------------------------------------------
(* The connection ends (RetiredJobs::retire, Drop for Jobs). *)

Disconnect(c) ==
    /\ conn[c] = "open"
    /\ conn' = [conn EXCEPT ![c] = "retiring"]
    /\ jobs' = IF HasJob(c) THEN [jobs EXCEPT ![c][current[c]].cancel = TRUE] ELSE jobs
    /\ UNCHANGED <<revision, content, current, dismissed>>

\* Mutated form of Joined: the worker is left to itself.
Detached(c) == TRUE

Joined(c) == HasJob(c) => Current(c).worker = "finished"

\* The job is dropped after its thread was joined, with a result it still holds.
Retire(c) ==
    /\ conn[c] = "retiring"
    /\ Joined(c)
    /\ conn' = [conn EXCEPT ![c] = "gone"]
    /\ jobs' = [jobs EXCEPT ![c] = Replaced(c)]
    /\ UNCHANGED <<revision, content, current, dismissed>>

-----------------------------------------------------------------------------
Next ==
    \/ Edit
    \/ \E c \in Conns :
         \/ Begin(c) \/ Cancel(c) \/ TurnStale(c)
         \/ CommitFailed(c) \/ Commit(c) \/ CommitTransferFails(c)
         \/ Disconnect(c) \/ Retire(c)
         \/ \E n \in Numbers :
              \/ Work(c, n) \/ Leave(c, n)
              \/ \E result \in {"prepared", "failed"} : Finish(c, n, result)

Spec == Init /\ [][Next]_vars

-----------------------------------------------------------------------------
(* Properties. *)

JobsOf(c) == {n \in Numbers : jobs[c][n] # NoJob}

\* A commit replaces exactly what was authored when its job captured its inputs:
\* nothing anyone authored, undid or imported during the preparation is lost, of
\* this or another connection. (continue_job, commit_classic_scenario_import)
ImportOverwritesNothing ==
    [][\A c \in Conns : \A n \in JobsOf(c) :
         (~jobs[c][n].committed /\ jobs'[c][n].committed) => content = jobs[c][n].base]_vars

\* A client that was told its import is cancelled is never followed by that import's
\* commit, however late its worker ends. (terminal, start_worker, continue_job)
CancelledNeverCommits ==
    \A c \in Conns : \A n \in dismissed[c] : ~jobs[c][n].committed

\* A job that its client cancelled, or that is no longer the current one, keeps no
\* staging directory once its worker has ended. (terminal, start_worker, begin)
DismissedStagingIsGone ==
    \A c \in Conns : \A n \in JobsOf(c) :
        (n \in dismissed[c] \/ n # current[c]) /\ jobs[c][n].worker = "finished"
            => ~Staged(jobs[c][n])

\* When a connection's jobs have been dropped, no worker runs for it and no staging
\* is left. (jobs.rs:60 "Normal connection shutdown must finish cleanup before
\* process exit.")
GoneLeavesNothing ==
    \A c \in Conns : conn[c] = "gone" =>
        \A n \in JobsOf(c) : ~Staged(jobs[c][n])

\* What a status request answers for the current job.
ReportsCancelled(job) == ~job.committed /\ job.cancel
Settled(job) == job.worker = "finished"

\* docs/mcp/README.md:83 "Cancelled jobs report `settled` when their owned staging
\* is gone." The code reports whether the worker has ended. (terminal)
SettledMeansStagingGone ==
    \A c \in Conns : Serves(c) /\ ReportsCancelled(Current(c)) /\ Settled(Current(c))
        => ~Staged(Current(c))
=============================================================================
