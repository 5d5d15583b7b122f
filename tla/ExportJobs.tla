------------------------------- MODULE ExportJobs -------------------------------
(***************************************************************************)
(* Exports of the shared host.  A worker thread compiles a captured        *)
(* project and publishes the artifact at a destination, without ever       *)
(* replacing anything, or by first moving the one artifact it was          *)
(* authorized to replace to a backup beside it.  A journal on disk         *)
(* survives the host, which answers polls from it when a job no longer     *)
(* runs.  (shared_host/export_jobs.rs, worker.rs, replacement_publish.rs,  *)
(* replacement.rs, artifact.rs, model.rs, providence-publication)          *)
(*                                                                         *)
(* All jobs export to one destination, where they meet each other and a    *)
(* foreign program.  Artifacts are told apart by their hash, and each job  *)
(* makes one of its own.                                                   *)
(***************************************************************************)
EXTENDS Naturals, FiniteSets

CONSTANTS
    Jobs,       \* job ids, never used twice
    Original,   \* the artifact at the destination at first
    Foreign,    \* the artifact another program may put there
    MaxFaults,  \* bound: crashes, panics and failed journal writes
    None

ASSUME ArtifactsAssumption ==
    Original \notin Jobs /\ Foreign \notin Jobs /\ None \notin Jobs \cup {Original, Foreign}
ASSUME FaultsAssumption == MaxFaults \in Nat

VARIABLES
    host,         \* "up", "stopping" (its jobs are being joined), "down"
    active,       \* Jobs.active: the jobs whose thread the host has not joined
    worker,       \* where a worker is in run, execute and publish
    record,       \* the record in memory, shared by the worker and the host
    journal,      \* the record on disk, None before begin
    cause,        \* the error a failing worker carries to run
    destination,  \* what is there
    backup,       \* what is at the backup path of each job
    dismissed,    \* history: jobs cancelled before they were publishing
    faults        \* bound

hostVars == <<host, active>>
fileVars == <<destination, backup>>
vars == <<host, active, worker, record, journal, cause, destination, backup,
          dismissed, faults>>

Artifacts == Jobs \cup {Original, Foreign}

Phases == {"queued", "compiling", "publishing", "completed", "failed", "cancelled",
           "interrupted", "uncertain"}

Terminal == {"completed", "failed", "cancelled", "interrupted", "uncertain"}

\* replacement is what may be replaced, and backupState what became of it.
Record == [state : Phases, committed : {"yes", "no", "unknown"}, cancel : BOOLEAN,
           replacement : Artifacts \cup {None},
           backupState : {"planned", "retained", "restored", "blocked"}]

ASSUME NoneAssumption == None \notin Record

TypeOK ==
    /\ host \in {"up", "stopping", "down"}
    /\ active \in SUBSET Jobs
    /\ \A j \in active : worker[j] # "none" /\ record[j] # None
    /\ worker \in [Jobs -> {"none", "new", "compiling", "checked", "announced", "ready",
                            "verified", "moved", "retained", "swapping", "restoring",
                            "published", "failing", "leaving", "ended"}]
    /\ record \in [Jobs -> Record \cup {None}]
    /\ journal \in [Jobs -> Record \cup {None}]
    /\ cause \in [Jobs -> {"failed", "cancelled"}]
    /\ destination \in Artifacts \cup {None}
    /\ backup \in [Jobs -> Artifacts \cup {None}]
    /\ dismissed \in SUBSET Jobs
    /\ faults \in 0..MaxFaults

Init ==
    /\ host = "up"
    /\ active = {}
    /\ worker = [j \in Jobs |-> "none"]
    /\ record = [j \in Jobs |-> None]
    /\ journal = [j \in Jobs |-> None]
    /\ cause = [j \in Jobs |-> "failed"]
    /\ destination \in {Original, None}
    /\ backup = [j \in Jobs |-> None]
    /\ dismissed = {}
    /\ faults = 0

IsTerminal(r) == r.state \in Terminal
Running(j) == worker[j] \notin {"none", "ended"}

\* Whether another journal write may fail, or another process die.
MayFault == faults < MaxFaults /\ faults' = faults + 1

MoveWorker(j, to) == worker' = [worker EXCEPT ![j] = to]

\* update, model::write: the record changes in memory, and on disk if the write
\* succeeds.
Journalled(j, r) ==
    /\ record' = [record EXCEPT ![j] = r]
    /\ journal' = [journal EXCEPT ![j] = r]
    /\ UNCHANGED faults

NotJournalled(j, r) ==
    /\ record' = [record EXCEPT ![j] = r]
    /\ UNCHANGED journal
    /\ MayFault

-----------------------------------------------------------------------------
(* Requests (dispatch). *)

\* Mutated form of SettleFinished: a job that publishes is no longer taken to run.
SettleEarly == {j \in active : worker[j] # "ended" /\ record[j].state # "publishing"}

\* settle_finished: what stays active.
SettleFinished == {j \in active : worker[j] # "ended"}

\* destination, replacement::prepare: the destination is vacant, or holds what is to
\* be replaced.
MayExport(replacement) == destination = replacement

Queued(replacement) ==
    [state |-> "queued", committed |-> "no", cancel |-> FALSE,
     replacement |-> replacement, backupState |-> "planned"]

CanBegin(j, replacement) ==
    /\ host = "up"
    /\ journal[j] = None
    /\ Cardinality(SettleFinished) < 2
    /\ MayExport(replacement)

\* begin, launch
Begin(j, replacement) ==
    /\ CanBegin(j, replacement)
    /\ active' = SettleFinished \cup {j}
    /\ Journalled(j, Queued(replacement))
    /\ MoveWorker(j, "new")
    /\ UNCHANGED <<host, cause, fileVars, dismissed>>

ActiveWithoutWorker(j) == SettleFinished

\* The journal is written, but the receipt cannot be linked to the job, or no
\* thread can be had for it.
BeginWithoutWorker(j, replacement, state) ==
    /\ CanBegin(j, replacement)
    /\ MayFault
    /\ active' = ActiveWithoutWorker(j)
    /\ journal' = [journal EXCEPT ![j] = [Queued(replacement) EXCEPT !.state = state]]
    /\ UNCHANGED <<host, worker, record, cause, fileVars, dismissed>>

\* read_or_cancel of a job that runs: a poll only reads.
Poll(j) ==
    /\ host = "up"
    /\ j \in SettleFinished
    /\ active' = SettleFinished
    /\ UNCHANGED <<host, worker, record, journal, cause, fileVars, dismissed, faults>>

Cancel(j) ==
    /\ host = "up"
    /\ j \in SettleFinished
    /\ ~IsTerminal(record[j]) /\ ~record[j].cancel
    /\ active' = SettleFinished
    /\ \/ Journalled(j, [record[j] EXCEPT !.cancel = TRUE])
       \/ NotJournalled(j, [record[j] EXCEPT !.cancel = TRUE])
    /\ dismissed' = IF record[j].state = "publishing" THEN dismissed ELSE dismissed \cup {j}
    /\ UNCHANGED <<host, worker, cause, fileVars>>

\* Mutated form of Reconciled: an interrupted compiler is left as it is.
ReconciledPublications(r) ==
    IF r.state = "publishing"
      THEN [r EXCEPT !.state = "uncertain", !.committed = "unknown"]
      ELSE r

\* reconcile
Reconciled(r) ==
    IF r.state = "publishing"
      THEN [r EXCEPT !.state = "uncertain", !.committed = "unknown"]
      ELSE [r EXCEPT !.state = "interrupted", !.committed = "no"]

\* A poll or cancel of a job that does not run. A failed write answers with an error
\* and leaves the journal to the next poll.
Reconcile(j) ==
    /\ host = "up"
    /\ journal[j] # None
    /\ j \notin SettleFinished
    /\ ~IsTerminal(journal[j])
    /\ active' = SettleFinished
    /\ journal' = [journal EXCEPT ![j] = Reconciled(@)]
    /\ UNCHANGED <<host, worker, record, cause, fileVars, dismissed, faults>>

-----------------------------------------------------------------------------
(* The worker of job j (execute). *)

Fail(j, why) ==
    /\ MoveWorker(j, "failing")
    /\ cause' = [cause EXCEPT ![j] = why]

\* An update that may fail in its journal write, which fails the job.
UpdateTo(j, r, to) ==
    /\ \/ Journalled(j, r) /\ MoveWorker(j, to) /\ UNCHANGED cause
       \/ NotJournalled(j, r) /\ Fail(j, "failed")
    /\ UNCHANGED <<hostVars, fileVars, dismissed>>

Compile(j) ==
    /\ worker[j] = "new"
    /\ ~record[j].cancel
    /\ UpdateTo(j, [record[j] EXCEPT !.state = "compiling"], "compiling")

\* The checks before and after the compilation, in the staging directory.
Compiled(j) ==
    /\ worker[j] = "compiling"
    /\ ~record[j].cancel
    /\ MoveWorker(j, "checked")
    /\ UNCHANGED <<hostVars, record, journal, cause, fileVars, dismissed, faults>>

Publishing(r) == [r EXCEPT !.state = "publishing", !.committed = "unknown"]

\* Mutated form of AnnounceTo: the publication is announced in memory only.
AnnounceInMemory(j) ==
    /\ record' = [record EXCEPT ![j] = Publishing(record[j])]
    /\ MoveWorker(j, "announced")
    /\ UNCHANGED <<hostVars, journal, cause, fileVars, dismissed, faults>>

AnnounceTo(j) == UpdateTo(j, Publishing(record[j]), "announced")

Announce(j) == worker[j] = "checked" /\ AnnounceTo(j)

\* Mutated form of Uncancelled: the last check before publication is dropped.
UncheckedAnnounced(j) == TRUE

\* check_cancel
Uncancelled(j) == ~record[j].cancel

CheckAnnounced(j) ==
    /\ worker[j] = "announced"
    /\ Uncancelled(j)
    /\ MoveWorker(j, "ready")
    /\ UNCHANGED <<hostVars, record, journal, cause, fileVars, dismissed, faults>>

\* check_cancel finds the flag.
NoticeCancel(j) ==
    /\ worker[j] \in {"new", "compiling", "announced"}
    /\ record[j].cancel
    /\ Fail(j, "cancelled")
    /\ UNCHANGED <<hostVars, record, journal, fileVars, dismissed, faults>>

\* Compilation, staging, digests and support_current may fail at any step before
\* anything at the destination has been touched.
Break(j) ==
    /\ worker[j] \in {"new", "compiling", "announced", "ready", "verified"}
    /\ Fail(j, "failed")
    /\ UNCHANGED <<hostVars, record, journal, fileVars, dismissed, faults>>

\* The compiler panics and takes the thread with it.
PanicInCompiler(j) ==
    /\ worker[j] = "compiling"
    /\ MayFault
    /\ MoveWorker(j, "ended")
    /\ UNCHANGED <<hostVars, record, journal, cause, fileVars, dismissed>>

\* Mutated form of Vacant: the destination is renamed over.
VacantOrNot == TRUE

\* An exclusive rename or link succeeds only on a vacant path.
Vacant == destination = None

Replacing(j) == record[j].replacement # None

PublishTo(j) ==
    /\ destination' = j
    /\ MoveWorker(j, "published")
    /\ UNCHANGED <<hostVars, record, journal, cause, backup, dismissed, faults>>

\* artifact::publish
Publish(j) ==
    /\ worker[j] = "ready" /\ ~Replacing(j)
    /\ Vacant
    /\ PublishTo(j)

PublishBlocked(j) ==
    /\ worker[j] = "ready" /\ ~Replacing(j)
    /\ ~Vacant
    /\ Fail(j, "failed")
    /\ UNCHANGED <<hostVars, record, journal, fileVars, dismissed, faults>>

-----------------------------------------------------------------------------
(* Replacement (publish, finish_replacement, restore_original). *)

\* The digest of what is at the destination; another artifact is not touched.
Verify(j) ==
    /\ worker[j] = "ready" /\ Replacing(j)
    /\ IF destination = record[j].replacement
         THEN MoveWorker(j, "verified") /\ UNCHANGED cause
         ELSE Fail(j, "failed")
    /\ UNCHANGED <<hostVars, record, journal, fileVars, dismissed, faults>>

\* move_original takes whatever is there by now; without anything it fails.
MoveOriginal(j) ==
    /\ worker[j] = "verified"
    /\ IF destination = None
         THEN Fail(j, "failed") /\ UNCHANGED fileVars
         ELSE /\ backup' = [backup EXCEPT ![j] = destination]
              /\ destination' = None
              /\ MoveWorker(j, "moved") /\ UNCHANGED cause
    /\ UNCHANGED <<hostVars, record, journal, dismissed, faults>>

\* Mutated form of Authorized: what was verified is what was moved.
AuthorizedAlready(j) == TRUE

\* The digest of what was moved.
Authorized(j) == backup[j] = record[j].replacement

MustRestore(j, why) ==
    /\ MoveWorker(j, "restoring")
    /\ cause' = [cause EXCEPT ![j] = why]

Retain(j) ==
    /\ worker[j] = "moved"
    /\ IF Authorized(j)
         THEN \/ Journalled(j, [record[j] EXCEPT !.backupState = "retained"])
                   /\ MoveWorker(j, "retained") /\ UNCHANGED cause
              \/ NotJournalled(j, [record[j] EXCEPT !.backupState = "retained"])
                   /\ MustRestore(j, "failed")
         ELSE MustRestore(j, "failed") /\ UNCHANGED <<record, journal, faults>>
    /\ UNCHANGED <<hostVars, fileVars, dismissed>>

\* check_cancel, support_current
CheckRetained(j) ==
    /\ worker[j] = "retained"
    /\ \/ ~record[j].cancel /\ MoveWorker(j, "swapping") /\ UNCHANGED cause
       \/ record[j].cancel /\ MustRestore(j, "cancelled")
       \/ ~record[j].cancel /\ MustRestore(j, "failed")
    /\ UNCHANGED <<hostVars, record, journal, fileVars, dismissed, faults>>

Swap(j) ==
    /\ worker[j] = "swapping"
    /\ Vacant
    /\ PublishTo(j)

SwapBlocked(j) ==
    /\ worker[j] = "swapping"
    /\ ~Vacant
    /\ MustRestore(j, "failed")
    /\ UNCHANGED <<hostVars, record, journal, fileVars, dismissed, faults>>

\* Mutated form of AfterRestore: the attempt is taken for the restoration.
AfterRestoreHopeful(back) == "restored"

AfterRestore(back) == IF back THEN "restored" ELSE "blocked"

\* move_original to where the original was, which needs a vacant path and may fail on
\* one too. The cause survives when the original is back and the journal says so.
Restore(j) ==
    \E back \in {Vacant, FALSE} :
        LET r == [record[j] EXCEPT !.backupState = AfterRestore(back)] IN
        /\ worker[j] = "restoring"
        /\ IF back
             THEN destination' = backup[j] /\ backup' = [backup EXCEPT ![j] = None]
             ELSE UNCHANGED fileVars
        /\ \/ Journalled(j, r) /\ Fail(j, IF back THEN cause[j] ELSE "failed")
           \/ NotJournalled(j, r) /\ Fail(j, "failed")
        /\ UNCHANGED <<hostVars, dismissed>>

-----------------------------------------------------------------------------
(* The end of a worker (the last update of execute, and run). *)

Completed(r) == [r EXCEPT !.state = "completed", !.committed = "yes"]

Acknowledge(j) ==
    /\ worker[j] = "published"
    /\ \/ Journalled(j, Completed(record[j])) /\ MoveWorker(j, "leaving") /\ UNCHANGED cause
       \/ NotJournalled(j, Completed(record[j])) /\ Fail(j, "failed")
    /\ UNCHANGED <<hostVars, fileVars, dismissed>>

\* What is committed stays so.
Concluded(j) ==
    IF record[j].committed = "yes" THEN Completed(record[j])
    ELSE [record[j] EXCEPT !.state = cause[j], !.committed = "no"]

\* run: a failed write is noted in memory only.
Conclude(j) ==
    /\ worker[j] = "failing"
    /\ Journalled(j, Concluded(j)) \/ NotJournalled(j, Concluded(j))
    /\ MoveWorker(j, "leaving")
    /\ UNCHANGED <<hostVars, cause, fileVars, dismissed>>

\* The thread is finished.
Leave(j) ==
    /\ worker[j] = "leaving"
    /\ MoveWorker(j, "ended")
    /\ UNCHANGED <<hostVars, record, journal, cause, fileVars, dismissed, faults>>

-----------------------------------------------------------------------------
(* The host, and other programs. *)

\* The host ends (Drop for Jobs): threads are joined, not cancelled.
Stop ==
    /\ host = "up"
    /\ host' = "stopping"
    /\ UNCHANGED <<active, worker, record, journal, cause, fileVars, dismissed, faults>>

\* Memory is lost with the process.
Down ==
    /\ host' = "down"
    /\ active' = {}
    /\ worker' = [j \in Jobs |-> IF Running(j) THEN "ended" ELSE worker[j]]
    /\ record' = [j \in Jobs |-> None]
    /\ cause' = [j \in Jobs |-> "failed"]
    /\ UNCHANGED <<journal, fileVars, dismissed>>

Joined ==
    /\ host = "stopping"
    /\ \A j \in active : worker[j] = "ended"
    /\ Down
    /\ UNCHANGED faults

Crash ==
    /\ host # "down"
    /\ MayFault
    /\ Down

\* The next host opens the project: no worker of the last one holds its lock.
Restart ==
    /\ host = "down"
    /\ host' = "up"
    /\ UNCHANGED <<active, worker, record, journal, cause, fileVars, dismissed, faults>>

Exists(a) == destination = a \/ \E j \in Jobs : backup[j] = a

\* Another program writes at a vacant destination.
Appear ==
    /\ destination = None
    /\ ~Exists(Foreign)
    /\ destination' = Foreign
    /\ UNCHANGED <<hostVars, worker, record, journal, cause, backup, dismissed, faults>>

-----------------------------------------------------------------------------
WorkerStep(j) ==
    \/ Compile(j) \/ Compiled(j) \/ Announce(j) \/ CheckAnnounced(j) \/ NoticeCancel(j)
    \/ Publish(j) \/ PublishBlocked(j)
    \/ Verify(j) \/ MoveOriginal(j) \/ Retain(j) \/ CheckRetained(j)
    \/ Swap(j) \/ SwapBlocked(j) \/ Restore(j)
    \/ Acknowledge(j) \/ Conclude(j) \/ Leave(j)

Next ==
    \/ \E j \in Jobs :
         \/ \E replacement \in Artifacts \cup {None} :
              \/ Begin(j, replacement)
              \/ \E state \in {"queued", "failed"} : BeginWithoutWorker(j, replacement, state)
         \/ Poll(j) \/ Cancel(j) \/ Reconcile(j)
         \/ WorkerStep(j) \/ Break(j) \/ PanicInCompiler(j)
    \/ Stop \/ Joined \/ Crash \/ Restart \/ Appear

Spec == Init /\ [][Next]_vars

\* Threads run on, a stopping host comes down and is followed by another, and a
\* client that began a job polls it from time to time, though the host may be down
\* whenever it would.
Fairness ==
    /\ \A j \in Jobs : WF_vars(WorkerStep(j)) /\ SF_vars(Reconcile(j))
    /\ WF_vars(Joined) /\ WF_vars(Restart)

FairSpec == Spec /\ Fairness

-----------------------------------------------------------------------------
(* Properties. *)

\* Nothing that was ever at the destination or published there is lost, by any
\* interleaving of two exports, a foreign program, errors and crashes: it is at the
\* destination or at a backup. (publish, providence-publication: "A destination
\* appearing after compilation must never be replaced")
ArtifactsAreKept == [][\A a \in Artifacts : Exists(a) => Exists(a)']_vars

\* What a job says about its publication is so: its artifact exists when the journal
\* or the record says committed, and does not when a job that ended says it is not.
\* (execute, run, reconcile; docs/mcp/README.md:190 "Inspect the terminal job's
\* committed value")
Truthful(j, r) ==
    /\ r.committed = "yes" => Exists(j)
    /\ IsTerminal(r) /\ r.committed = "no" => ~Exists(j)
CommittedTruthfully ==
    \A j \in Jobs :
        /\ journal[j] # None => Truthful(j, journal[j])
        /\ record[j] # None => Truthful(j, record[j])

\* A job that completed a replacement has at its backup the artifact it was
\* authorized to replace and no other. (publish, finish_replacement)
ReplacedAsAuthorized ==
    \A j \in Jobs :
        journal[j] # None /\ journal[j].state = "completed" =>
            backup[j] = journal[j].replacement

\* A job that failed or was cancelled has put back what it took, or says that it
\* could not. (restore_original; docs/mcp/README.md:220 "both it and the backup
\* survive and the job reports the blocked restoration")
TakenIsPutBack ==
    \A j \in Jobs :
        journal[j] # None /\ journal[j].state \in {"failed", "cancelled"} /\ backup[j] # None =>
            journal[j].backupState = "blocked"

\* A job cancelled before its publication was announced never publishes.
\* (docs/mcp/README.md:195 "It stops publication at a phase boundary")
CancelledInTimeNeverPublishes == \A j \in dismissed : ~Exists(j)

\* The outcome a journal has once recorded is final, across polls, cancellations,
\* late workers and restarts. (docs/mcp/README.md:198 "Reopening preserves terminal
\* jobs")
OutcomeIsFinal ==
    [][\A j \in Jobs : journal[j] # None /\ IsTerminal(journal[j]) =>
         journal'[j] = journal[j]]_vars

\* Every job that was begun gets an outcome, if only that it was interrupted or is
\* uncertain, as long as its client polls. (run, settle_finished, reconcile)
EveryJobHasAnOutcome ==
    \A j \in Jobs : journal[j] # None ~> (journal[j] # None /\ IsTerminal(journal[j]))
=============================================================================
