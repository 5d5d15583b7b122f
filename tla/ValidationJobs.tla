---------------------------- MODULE ValidationJobs ----------------------------
(***************************************************************************)
(* Background checks of one connection: validation.begin and               *)
(* readiness.begin capture the session and queue one job for a worker      *)
(* thread; a later request replaces the queued one, a poll at another      *)
(* revision discards it, and dropping the connection stops the worker.     *)
(* (validation_jobs.rs, diagnostic_cache.rs)                               *)
(*                                                                         *)
(* The mutex is held through each request and each of the worker's visits, *)
(* so each is one step.  The worker evaluates without it, against support  *)
(* files outside the project that may change at any time.  The project,    *)
(* its root and its media stay what they were when a connection's jobs     *)
(* began (a change of support replaces the jobs), so the comparison of     *)
(* contexts in dispatch is always equal here.                              *)
(***************************************************************************)
EXTENDS Naturals

CONSTANTS
    Contents,     \* authored contents of the project
    MaxJobs,      \* bound: requests begun
    MaxRevision,  \* bound: edits of the session
    MaxSupport,   \* bound: changes of the support files
    None,         \* no job, no work, no result
    Failed        \* the outcome of a check that ended with an error

ASSUME BoundsAssumption ==
    MaxJobs \in Nat /\ MaxRevision \in Nat /\ MaxSupport \in Nat

VARIABLES
    session,  \* the live session: its revision and content
    support,  \* the state of the support files, as a version
    jobs,     \* the shared State behind the mutex
    worker,   \* the worker thread: where it is, and the work in its hands
    cache,    \* diagnostic_cache::Cache, used by the worker only
    owner,    \* the connection: "open", "dropping" (joining the worker), "dropped"
    asked     \* history: what each job captured, and the support at its begin

vars == <<session, support, jobs, worker, cache, owner, asked>>

Targets == {"classic", "rebuilt"}
Kinds == Targets \cup {"findings"}
Ids == 1..MaxJobs

Session == [revision : Nat, content : Contents]
Work == [id : Ids, kind : Kinds, session : Session]

\* A page of findings or readiness, and the support files it was derived from, as
\* they went from version "from" to version "to" while they were read.
Page == [kind : Kinds, revision : Nat, content : Contents, from : Nat, to : Nat]
Outcomes == Page \cup {Failed}

Latest == [id : Ids, revision : Nat]
Ask == [kind : Kinds, session : Session, support : Nat]

\* A placeholder is no value of what it stands for.
ASSUME PlaceholdersAssumption ==
    /\ None \notin Contents
    /\ None \notin Session \cup Work \cup Latest \cup Ask \cup Outcomes \cup Nat
    /\ Failed \notin Page

TypeOK ==
    /\ session \in Session
    /\ support \in Nat
    /\ jobs \in [nextId : 0..MaxJobs, latest : Latest \cup {None}, pending : Work \cup {None},
                 result : Outcomes \cup {None}, retain : BOOLEAN, stop : BOOLEAN]
    /\ worker \in [at : {"absent", "looking", "waiting", "evaluating", "collecting",
                        "rechecking", "publishing", "exited"},
                   work : Work \cup {None}, outcome : Outcomes \cup {None}]
    /\ cache \in [session : Session \cup {None}, findings : Contents \cup {None},
                  readiness : [Targets -> Page \cup {None}], context : Nat \cup {None}]
    /\ owner \in {"open", "dropping", "dropped"}
    /\ asked \in [Ids -> Ask \cup {None}]

NoReadiness == [t \in Targets |-> None]

Init ==
    /\ session \in [revision : {0}, content : Contents]
    /\ support = 0
    /\ jobs = [nextId |-> 0, latest |-> None, pending |-> None, result |-> None,
               retain |-> FALSE, stop |-> FALSE]
    /\ worker = [at |-> "absent", work |-> None, outcome |-> None]
    /\ cache = [session |-> None, findings |-> None, readiness |-> NoReadiness,
                context |-> None]
    /\ owner = "open"
    /\ asked = [i \in Ids |-> None]

-----------------------------------------------------------------------------
(* The environment. *)

\* Any connection's command, undo and redo included, takes a new revision.
Edit ==
    /\ session.revision < MaxRevision
    /\ \E c \in Contents :
         session' = [revision |-> session.revision + 1, content |-> c]
    /\ UNCHANGED <<support, jobs, worker, cache, owner, asked>>

SupportChanges ==
    /\ support < MaxSupport
    /\ support' = support + 1
    /\ UNCHANGED <<session, jobs, worker, cache, owner, asked>>

-----------------------------------------------------------------------------
(* Requests of the connection. *)

\* Mutated form of Woken: a waiting worker is not notified.
StartedOnly == [worker EXCEPT !.at = IF @ = "absent" THEN "looking" ELSE @]

\* Condvar::notify_one; start_worker makes the thread on the first request.
Woken ==
    [worker EXCEPT !.at = IF @ \in {"absent", "waiting"} THEN "looking" ELSE @]

\* Jobs::queue
Begin(kind, retain) ==
    /\ owner = "open"
    /\ jobs.nextId < MaxJobs
    /\ LET id == jobs.nextId + 1 IN
         /\ jobs' = [jobs EXCEPT
                       !.nextId = id,
                       !.latest = [id |-> id, revision |-> session.revision],
                       !.retain = retain,
                       !.pending = [id |-> id, kind |-> kind, session |-> session],
                       !.result = None]
         /\ asked' = [asked EXCEPT
                        ![id] = [kind |-> kind, session |-> session, support |-> support]]
    /\ worker' = Woken
    /\ UNCHANGED <<session, support, cache, owner>>

Cleared == [jobs EXCEPT !.latest = None, !.pending = None, !.result = None]

IsLatest(id) == jobs.latest # None /\ jobs.latest.id = id
Outdated == jobs.latest.revision # session.revision /\ ~jobs.retain

\* What Jobs::poll answers now about job id.
Answer(id) ==
    CASE ~IsLatest(id) -> "superseded"
      [] IsLatest(id) /\ Outdated -> "outdated"
      [] IsLatest(id) /\ ~Outdated /\ jobs.result = None -> "pending"
      [] IsLatest(id) /\ ~Outdated /\ jobs.result = Failed -> "failed"
      [] OTHER -> "ready"

\* Only an outdated answer changes anything.
Poll(id) ==
    /\ owner = "open"
    /\ Answer(id) = "outdated"
    /\ jobs' = Cleared
    /\ UNCHANGED <<session, support, worker, cache, owner, asked>>

\* Mutated form of Cancel: the job stays the latest, so a late result is its own.
CancelInput(id) ==
    /\ owner = "open"
    /\ IsLatest(id)
    /\ jobs' = [jobs EXCEPT !.pending = None, !.result = None]
    /\ UNCHANGED <<session, support, worker, cache, owner, asked>>

Cancel(id) ==
    /\ owner = "open"
    /\ IsLatest(id)
    /\ jobs' = Cleared
    /\ UNCHANGED <<session, support, worker, cache, owner, asked>>

\* Drop for Jobs, up to the join
Drop ==
    /\ owner = "open"
    /\ owner' = "dropping"
    /\ jobs' = [jobs EXCEPT !.stop = TRUE, !.pending = None, !.result = None]
    /\ worker' = IF worker.at = "absent" THEN worker ELSE Woken
    /\ UNCHANGED <<session, support, cache, asked>>

Join ==
    /\ owner = "dropping"
    /\ worker.at \in {"absent", "exited"}
    /\ owner' = "dropped"
    /\ UNCHANGED <<session, support, jobs, worker, cache, asked>>

-----------------------------------------------------------------------------
(* The worker thread (work_loop). *)

\* Condvar::wait may return without a notification.
SpuriousWakeup ==
    /\ worker.at = "waiting"
    /\ worker' = [worker EXCEPT !.at = "looking"]
    /\ UNCHANGED <<session, support, jobs, cache, owner, asked>>

Wait ==
    /\ worker.at = "looking"
    /\ ~jobs.stop /\ jobs.pending = None
    /\ worker' = [worker EXCEPT !.at = "waiting"]
    /\ UNCHANGED <<session, support, jobs, cache, owner, asked>>

Exit ==
    /\ worker.at = "looking"
    /\ jobs.stop
    /\ worker' = [worker EXCEPT !.at = "exited"]
    /\ UNCHANGED <<session, support, jobs, cache, owner, asked>>

\* update_project: the cache is kept only for the same revision and content.
Reusable(s) == cache.session = s

\* The work is taken under the mutex; update_project is the first thing done
\* with it.
Take ==
    /\ worker.at = "looking"
    /\ ~jobs.stop /\ jobs.pending # None
    /\ worker' = [worker EXCEPT !.at = "evaluating", !.work = jobs.pending]
    /\ jobs' = [jobs EXCEPT !.pending = None]
    /\ cache' = IF Reusable(jobs.pending.session) THEN cache
                ELSE [session |-> jobs.pending.session, findings |-> None,
                      readiness |-> NoReadiness, context |-> None]
    /\ UNCHANGED <<session, support, owner, asked>>

Conclude(outcome) ==
    worker' = [worker EXCEPT !.at = "publishing", !.outcome = outcome]

\* Cache::evaluate without a readiness target
EvaluateFindings ==
    /\ worker.at = "evaluating" /\ worker.work.kind = "findings"
    /\ LET found == IF cache.findings = None THEN cache.session.content
                    ELSE cache.findings IN
         /\ cache' = [cache EXCEPT !.findings = found]
         /\ Conclude([kind |-> "findings", revision |-> worker.work.session.revision,
                      content |-> found, from |-> 0, to |-> 0])
    /\ UNCHANGED <<session, support, jobs, owner, asked>>

\* Mutated form of ContextNow: readiness once derived is kept for new support.
ContextKept == IF cache.context = None
               THEN [cache EXCEPT !.readiness = NoReadiness, !.context = support]
               ELSE cache

\* context_identity is compared with the one readiness was derived for.
ContextNow == IF cache.context = support THEN cache
              ELSE [cache EXCEPT !.readiness = NoReadiness, !.context = support]

\* Cache::evaluate for a readiness target, up to the collection
IdentifySupport ==
    /\ worker.at = "evaluating" /\ worker.work.kind \in Targets
    /\ cache' = ContextNow
    /\ LET known == ContextNow.readiness[worker.work.kind] IN
         IF known # None
         THEN Conclude([known EXCEPT !.revision = worker.work.session.revision])
         ELSE worker' = [worker EXCEPT !.at = "collecting"]
    /\ UNCHANGED <<session, support, jobs, owner, asked>>

\* collect_classic, readiness_data: the files are read after their identity.
Collect ==
    /\ worker.at = "collecting"
    /\ worker' = [worker EXCEPT
                    !.at = "rechecking",
                    !.outcome = [kind |-> worker.work.kind,
                                 revision |-> worker.work.session.revision,
                                 content |-> cache.session.content,
                                 from |-> cache.context, to |-> support]]
    /\ UNCHANGED <<session, support, jobs, cache, owner, asked>>

SupportUnchanged == cache.context = support

\* The identity is compared once more before the data is kept.
RecheckSupport ==
    /\ worker.at = "rechecking"
    /\ IF SupportUnchanged
       THEN /\ cache' = [cache EXCEPT !.readiness[worker.work.kind] = worker.outcome]
            /\ Conclude(worker.outcome)
       ELSE /\ cache' = [cache EXCEPT !.readiness = NoReadiness, !.context = None]
            /\ Conclude(Failed)
    /\ UNCHANGED <<session, support, jobs, owner, asked>>

\* An error, or a panic that catch_unwind turns into one
EvaluationFails ==
    /\ worker.at \in {"evaluating", "collecting", "rechecking"}
    /\ Conclude(Failed)
    /\ UNCHANGED <<session, support, jobs, cache, owner, asked>>

\* Mutated form of Wanted: any result is stored while a job is the latest.
WantedByAny == ~jobs.stop /\ jobs.latest # None

Wanted ==
    /\ ~jobs.stop
    /\ jobs.latest = [id |-> worker.work.id, revision |-> worker.work.session.revision]

Publish ==
    /\ worker.at = "publishing"
    /\ jobs' = IF Wanted THEN [jobs EXCEPT !.result = worker.outcome] ELSE jobs
    /\ worker' = [at |-> "looking", work |-> None, outcome |-> None]
    /\ UNCHANGED <<session, support, cache, owner, asked>>

-----------------------------------------------------------------------------
Worker ==
    \/ Wait \/ Exit \/ Take \/ EvaluateFindings \/ IdentifySupport \/ Collect
    \/ RecheckSupport \/ EvaluationFails \/ Publish

Next ==
    \/ Edit \/ SupportChanges
    \/ \E kind \in Kinds, retain \in BOOLEAN : Begin(kind, retain)
    \/ \E id \in Ids : Poll(id) \/ Cancel(id)
    \/ Drop \/ Join
    \/ SpuriousWakeup
    \/ Worker

\* The worker is a thread that the system runs, and evaluation ends: it reads a
\* snapshot and a finite set of files. No fairness of the clients or of edits.
Spec == Init /\ [][Next]_vars /\ WF_vars(Worker) /\ WF_vars(Join)

-----------------------------------------------------------------------------
(* Properties. *)

\* A poll that finds a page finds the page of its own job: of the kind it asked
\* for, computed from the content and revision captured when it began, whatever
\* else was queued, evaluated or cached meanwhile; and unless the client asked to
\* keep the captured revision, that is the revision of the session now.
\* (validation_jobs.rs Jobs::poll, work_loop; Cache::update_project)
ReadyPagesAreTheirOwn ==
    \A id \in Ids : Answer(id) = "ready" =>
        /\ jobs.result.kind = asked[id].kind
        /\ jobs.result.revision = asked[id].session.revision
        /\ jobs.result.content = asked[id].session.content
        /\ jobs.retain \/ jobs.result.revision = session.revision

\* A readiness page rests on support files as they were at one moment no earlier
\* than the request: neither a classification cached for older files nor one whose
\* files changed while they were read. (Cache::evaluate, context_identity)
ReadinessIsNotStale ==
    \A id \in Ids :
        Answer(id) = "ready" /\ asked[id].kind \in Targets =>
            /\ jobs.result.from = jobs.result.to
            /\ jobs.result.from >= asked[id].support

\* What a client may learn about a job only moves forward: pending, then one
\* outcome, then superseded or outdated; a job once over is never answered again
\* as pending or ready, by a late worker or by a later request.
\* (validation_jobs.rs Jobs::{queue,poll,cancel}, work_loop)
Rank(id) ==
    CASE Answer(id) = "pending" -> 0
      [] Answer(id) \in {"ready", "failed"} -> 1
      [] OTHER -> 2

JobsOnlyMoveOn ==
    [][owner' = "open" => \A id \in 1..jobs.nextId : Rank(id)' >= Rank(id)]_vars

\* A job that nobody supersedes, cancels or outdates is answered in the end: no
\* wakeup is lost between the queue and the worker, and a failed evaluation
\* leaves the worker alive. (Jobs::queue, work_loop)
EveryJobIsSettled ==
    \A id \in Ids : (IsLatest(id) /\ owner = "open")
                        ~> (~IsLatest(id) \/ jobs.result # None \/ owner # "open")

=============================================================================
