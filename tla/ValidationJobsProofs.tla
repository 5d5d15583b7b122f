-------------------------- MODULE ValidationJobsProofs --------------------------
(***************************************************************************)
(* Proofs about ValidationJobs for any contents, requests, edits and       *)
(* changes of the support files: a page is of the job that shows it, it    *)
(* rests on support files of one moment, and what a client learns only     *)
(* moves forward.                                                          *)
(***************************************************************************)
EXTENDS ValidationJobs, TLAPS

\* A captured piece of work is what its job asked for.
AsAsked(work) ==
    /\ work.id <= jobs.nextId
    /\ asked[work.id] # None
    /\ work.kind = asked[work.id].kind
    /\ work.session = asked[work.id].session

\* The latest request is the last one, no later than the session, and queued work
\* is its own.
LatestIsLast ==
    /\ jobs.latest # None =>
          /\ jobs.latest.id = jobs.nextId
          /\ asked[jobs.latest.id] # None
          /\ jobs.latest.revision = asked[jobs.latest.id].session.revision
          /\ jobs.latest.revision <= session.revision
    /\ jobs.pending # None =>
          /\ jobs.latest # None /\ jobs.pending.id = jobs.latest.id
          /\ AsAsked(jobs.pending)
    /\ jobs.result # None => jobs.latest # None
    /\ \A id \in Ids : asked[id] # None => asked[id].support <= support

Evaluating == worker.at \in {"evaluating", "collecting", "rechecking"}

\* The worker has work from taking it to publishing, on the cache of its session.
WorkIsAsked ==
    /\ Evaluating \/ worker.at = "publishing" => worker.work # None /\ AsAsked(worker.work)
    /\ Evaluating => cache.session = worker.work.session

\* What is cached is of the cached session and the cached context.
CacheIsOfItsSession ==
    /\ cache.findings # None => cache.session # None /\ cache.findings = cache.session.content
    /\ \A t \in Targets : cache.readiness[t] # None =>
          /\ cache.session # None /\ cache.context # None
          /\ cache.readiness[t].kind = t
          /\ cache.readiness[t].content = cache.session.content
          /\ cache.readiness[t].from = cache.context
          /\ cache.readiness[t].to = cache.context
    /\ cache.context # None => cache.context <= support
    /\ worker.at \in {"collecting", "rechecking"} =>
          /\ worker.work.kind \in Targets
          /\ cache.context # None
          /\ asked[worker.work.id].support <= cache.context

\* A page is what a job that asked so must get.
Fits(page, ask) ==
    /\ page.kind = ask.kind
    /\ page.revision = ask.session.revision
    /\ page.content = ask.session.content
    /\ ask.kind \in Targets => page.from = page.to /\ ask.support <= page.from

\* Between reading the files and comparing their identity again, a page may still
\* be of two moments, the first of which is the context's.
OutcomeFits ==
    /\ worker.at = "rechecking" =>
          /\ worker.outcome \in Page
          /\ worker.outcome.kind = worker.work.kind
          /\ worker.outcome.revision = worker.work.session.revision
          /\ worker.outcome.content = worker.work.session.content
          /\ worker.outcome.from = cache.context
          /\ cache.context <= worker.outcome.to /\ worker.outcome.to <= support
    /\ worker.at = "publishing" =>
          /\ worker.outcome \in Outcomes
          /\ worker.outcome # Failed => Fits(worker.outcome, asked[worker.work.id])

ResultFits ==
    jobs.result # None /\ jobs.result # Failed =>
        Fits(jobs.result, asked[jobs.latest.id])

IInv ==
    /\ TypeOK
    /\ LatestIsLast
    /\ WorkIsAsked
    /\ CacheIsOfItsSession
    /\ OutcomeFits
    /\ ResultFits

-----------------------------------------------------------------------------
(* What the actions do, field by field. *)

JobSet == [nextId : 0..MaxJobs, latest : Latest \cup {None}, pending : Work \cup {None},
           result : Outcomes \cup {None}, retain : BOOLEAN, stop : BOOLEAN]

WorkerSet == [at : {"absent", "looking", "waiting", "evaluating", "collecting",
                    "rechecking", "publishing", "exited"},
              work : Work \cup {None}, outcome : Outcomes \cup {None}]

CacheSet == [session : Session \cup {None}, findings : Contents \cup {None},
             readiness : [Targets -> Page \cup {None}], context : Nat \cup {None}]

Typed ==
    /\ session \in Session /\ support \in Nat
    /\ jobs \in JobSet /\ worker \in WorkerSet /\ cache \in CacheSet
    /\ owner \in {"open", "dropping", "dropped"}
    /\ asked \in [Ids -> Ask \cup {None}]

\* The type invariant in terms of these sets. (State)
LEMMA TypeParts == TypeOK <=> Typed
  BY DEF TypeOK, Typed, JobSet, WorkerSet, CacheSet

LEMMA TypePartsNext == TypeOK' <=> Typed'
  BY DEF TypeOK, Typed, JobSet, WorkerSet, CacheSet

\* The worker is woken, or left as it is; its work stays in its hands.
WakesWorker ==
    /\ worker' \in WorkerSet
    /\ worker'.work = worker.work /\ worker'.outcome = worker.outcome
    /\ \/ worker'.at = worker.at
       \/ worker.at \in {"absent", "waiting"} /\ worker'.at = "looking"

LEMMA WokenWakes ==
    ASSUME worker \in WorkerSet, worker' = Woken
    PROVE  WakesWorker
  <1>1. CASE worker.at \in {"absent", "waiting"}
    <2>1. worker' = [at |-> "looking", work |-> worker.work, outcome |-> worker.outcome]
      BY <1>1 DEF Woken, WorkerSet
    <2> QED BY <1>1, <2>1 DEF WakesWorker, WorkerSet
  <1>2. CASE worker.at \notin {"absent", "waiting"}
    <2>1. worker' = worker  BY <1>2 DEF Woken, WorkerSet
    <2> QED BY <2>1 DEF WakesWorker
  <1> QED BY <1>1, <1>2

BeginDoes(kind, retain) ==
    /\ owner = "open" /\ owner' = owner
    /\ session' = session /\ support' = support /\ cache' = cache
    /\ jobs.nextId + 1 \in Ids
    /\ jobs' \in JobSet
    /\ jobs'.nextId = jobs.nextId + 1
    /\ jobs'.latest \in Latest
    /\ jobs'.latest.id = jobs.nextId + 1 /\ jobs'.latest.revision = session.revision
    /\ jobs'.pending \in Work
    /\ jobs'.pending.id = jobs.nextId + 1 /\ jobs'.pending.kind = kind
    /\ jobs'.pending.session = session
    /\ jobs'.result = None /\ jobs'.stop = jobs.stop /\ jobs'.retain = retain
    /\ asked' \in [Ids -> Ask \cup {None}]
    /\ asked'[jobs.nextId + 1] \in Ask
    /\ asked'[jobs.nextId + 1].kind = kind
    /\ asked'[jobs.nextId + 1].session = session
    /\ asked'[jobs.nextId + 1].support = support
    /\ \A i \in Ids : i # jobs.nextId + 1 => asked'[i] = asked[i]
    /\ WakesWorker

LEMMA BeginEffect ==
    ASSUME TypeOK, NEW kind \in Kinds, NEW retain \in BOOLEAN, Begin(kind, retain)
    PROVE  BeginDoes(kind, retain)
  <1> DEFINE id == jobs.nextId + 1
             last == [id |-> id, revision |-> session.revision]
             work == [id |-> id, kind |-> kind, session |-> session]
             ask == [kind |-> kind, session |-> session, support |-> support]
  <1>1. /\ session \in Session /\ support \in Nat /\ jobs \in JobSet
        /\ worker \in WorkerSet /\ asked \in [Ids -> Ask \cup {None}]
    BY TypeParts DEF Typed
  <1>2. id \in Ids /\ id \in 0..MaxJobs
    BY <1>1, BoundsAssumption DEF Begin, Ids, JobSet
  <1>3. last \in Latest /\ work \in Work /\ ask \in Ask
    BY <1>1, <1>2 DEF Latest, Work, Ask, Session
  <1>4. jobs' = [nextId |-> id, latest |-> last, pending |-> work, result |-> None,
                 retain |-> retain, stop |-> jobs.stop]
    BY <1>1 DEF Begin, JobSet
  <1>5. jobs' \in JobSet
    BY <1>1, <1>2, <1>3, <1>4 DEF JobSet
  <1>6. asked' = [asked EXCEPT ![id] = ask]
    BY DEF Begin
  <1>7. /\ asked' \in [Ids -> Ask \cup {None}] /\ asked'[id] = ask
        /\ \A i \in Ids : i # id => asked'[i] = asked[i]
    <2> HIDE DEF id, ask
    <2> QED BY <1>1, <1>2, <1>3, <1>6
  <1>8. WakesWorker
    BY <1>1, WokenWakes DEF Begin
  <1>9. UNCHANGED <<session, support, cache, owner>> /\ owner = "open"
    BY DEF Begin
  <1> QED BY <1>2, <1>3, <1>4, <1>5, <1>7, <1>8, <1>9 DEF BeginDoes

\* The latest job is forgotten.
ClearDoes ==
    /\ jobs' \in JobSet
    /\ jobs'.nextId = jobs.nextId /\ jobs'.stop = jobs.stop
    /\ jobs'.latest = None /\ jobs'.pending = None /\ jobs'.result = None
    /\ UNCHANGED <<session, support, worker, cache, owner, asked>>

LEMMA ClearEffect ==
    ASSUME TypeOK, NEW id \in Ids, Poll(id) \/ Cancel(id)
    PROVE  ClearDoes
  <1>1. jobs \in JobSet  BY TypeParts DEF Typed
  <1>2. jobs' = [nextId |-> jobs.nextId, latest |-> None, pending |-> None,
                 result |-> None, retain |-> jobs.retain, stop |-> jobs.stop]
    BY <1>1 DEF Poll, Cancel, Cleared, JobSet
  <1>3. jobs' \in JobSet  BY <1>1, <1>2 DEF JobSet
  <1> QED BY <1>2, <1>3 DEF ClearDoes, Poll, Cancel

DropDoes ==
    /\ jobs' \in JobSet
    /\ jobs'.nextId = jobs.nextId /\ jobs'.latest = jobs.latest /\ jobs'.stop
    /\ jobs'.pending = None /\ jobs'.result = None
    /\ owner' = "dropping"
    /\ UNCHANGED <<session, support, cache, asked>>
    /\ WakesWorker

LEMMA DropEffect ==
    ASSUME TypeOK, Drop
    PROVE  DropDoes
  <1>1. jobs \in JobSet /\ worker \in WorkerSet  BY TypeParts DEF Typed
  <1>2. jobs' = [nextId |-> jobs.nextId, latest |-> jobs.latest, pending |-> None,
                 result |-> None, retain |-> jobs.retain, stop |-> TRUE]
    BY <1>1 DEF Drop, JobSet
  <1>3. jobs' \in JobSet  BY <1>1, <1>2 DEF JobSet
  <1>4. WakesWorker
    <2>1. CASE worker.at = "absent"
      BY <1>1, <2>1 DEF Drop, WakesWorker
    <2>2. CASE worker.at # "absent"
      BY <1>1, <2>2, WokenWakes DEF Drop
    <2> QED BY <2>1, <2>2
  <1> QED BY <1>2, <1>3, <1>4 DEF DropDoes, Drop

\* The worker only changes place.
MovesTo(place) ==
    /\ worker' \in WorkerSet
    /\ worker'.at = place
    /\ UNCHANGED <<session, support, jobs, cache, owner, asked>>

LEMMA MoveEffect ==
    ASSUME TypeOK
    PROVE  /\ SpuriousWakeup => MovesTo("looking")
           /\ Wait => MovesTo("waiting")
           /\ Exit => MovesTo("exited")
  <1>1. worker \in WorkerSet  BY TypeParts DEF Typed
  <1>2. ASSUME NEW p \in {"looking", "waiting", "exited"}, worker' = [worker EXCEPT !.at = p]
        PROVE  worker' \in WorkerSet /\ worker'.at = p
    BY <1>1, <1>2 DEF WorkerSet
  <1>3. SpuriousWakeup => MovesTo("looking")  BY <1>2 DEF SpuriousWakeup, MovesTo
  <1>4. Wait => MovesTo("waiting")  BY <1>2 DEF Wait, MovesTo
  <1>5. Exit => MovesTo("exited")  BY <1>2 DEF Exit, MovesTo
  <1> QED BY <1>3, <1>4, <1>5

TakeDoes ==
    /\ worker.at = "looking" /\ jobs.pending \in Work
    /\ jobs' \in JobSet
    /\ jobs'.nextId = jobs.nextId /\ jobs'.latest = jobs.latest
    /\ jobs'.pending = None /\ jobs'.result = jobs.result
    /\ jobs'.retain = jobs.retain
    /\ worker' \in WorkerSet /\ worker'.at = "evaluating" /\ worker'.work = jobs.pending
    /\ cache' \in CacheSet /\ cache'.session = jobs.pending.session
    /\ \/ cache' = cache
       \/ /\ cache'.findings = None /\ cache'.context = None
          /\ \A t \in Targets : cache'.readiness[t] = None
    /\ UNCHANGED <<session, support, owner, asked>>

LEMMA TakeEffect ==
    ASSUME TypeOK, Take
    PROVE  TakeDoes
  <1>1. jobs \in JobSet /\ worker \in WorkerSet /\ cache \in CacheSet
    BY TypeParts DEF Typed
  <1>2. jobs.pending \in Work  BY <1>1 DEF Take, JobSet
  <1>3. jobs' = [nextId |-> jobs.nextId, latest |-> jobs.latest, pending |-> None,
                 result |-> jobs.result, retain |-> jobs.retain, stop |-> jobs.stop]
    BY <1>1 DEF Take, JobSet
  <1>4. jobs' \in JobSet  BY <1>1, <1>3 DEF JobSet
  <1>5. worker' = [at |-> "evaluating", work |-> jobs.pending, outcome |-> worker.outcome]
    BY <1>1 DEF Take, WorkerSet
  <1>6. worker' \in WorkerSet  BY <1>1, <1>2, <1>5 DEF WorkerSet
  <1>7. /\ cache' \in CacheSet /\ cache'.session = jobs.pending.session
        /\ \/ cache' = cache
           \/ /\ cache'.findings = None /\ cache'.context = None
              /\ \A t \in Targets : cache'.readiness[t] = None
    <2>1. CASE Reusable(jobs.pending.session)
      BY <1>1, <2>1 DEF Take, Reusable
    <2>2. CASE ~Reusable(jobs.pending.session)
      <3>1. cache' = [session |-> jobs.pending.session, findings |-> None,
                      readiness |-> NoReadiness, context |-> None]
        BY <2>2 DEF Take
      <3>2. NoReadiness \in [Targets -> Page \cup {None}]
            /\ \A t \in Targets : NoReadiness[t] = None
        BY DEF NoReadiness
      <3>3. jobs.pending.session \in Session  BY <1>2 DEF Work
      <3> QED BY <3>1, <3>2, <3>3 DEF CacheSet
    <2> QED BY <2>1, <2>2
  <1>8. worker.at = "looking" /\ UNCHANGED <<session, support, owner, asked>>
    BY DEF Take
  <1> QED BY <1>2, <1>3, <1>4, <1>5, <1>6, <1>7, <1>8 DEF TakeDoes

\* The worker concludes with an outcome.
Concludes(outcome) ==
    /\ worker' \in WorkerSet
    /\ worker'.at = "publishing" /\ worker'.work = worker.work /\ worker'.outcome = outcome

LEMMA ConcludeEffect ==
    ASSUME TypeOK, NEW outcome \in Outcomes, Conclude(outcome)
    PROVE  Concludes(outcome)
  <1>1. worker \in WorkerSet  BY TypeParts DEF Typed
  <1>2. worker' = [at |-> "publishing", work |-> worker.work, outcome |-> outcome]
    BY <1>1 DEF Conclude, WorkerSet
  <1> QED BY <1>1, <1>2 DEF Concludes, WorkerSet

EvaluateDoes ==
    /\ worker.at = "evaluating" /\ worker.work.kind = "findings"
    /\ cache' \in CacheSet
    /\ cache'.session = cache.session /\ cache'.readiness = cache.readiness
    /\ cache'.context = cache.context
    /\ cache'.findings = IF cache.findings = None THEN cache.session.content
                         ELSE cache.findings
    /\ worker' \in WorkerSet
    /\ worker'.at = "publishing" /\ worker'.work = worker.work
    /\ worker'.outcome \in Page
    /\ worker'.outcome.kind = "findings"
    /\ worker'.outcome.revision = worker.work.session.revision
    /\ worker'.outcome.content = cache'.findings
    /\ UNCHANGED <<session, support, jobs, owner, asked>>

LEMMA EvaluateEffect ==
    ASSUME TypeOK, WorkIsAsked, EvaluateFindings
    PROVE  EvaluateDoes
  <1> DEFINE found == IF cache.findings = None THEN cache.session.content
                      ELSE cache.findings
             page == [kind |-> "findings", revision |-> worker.work.session.revision,
                      content |-> found, from |-> 0, to |-> 0]
  <1>1. worker \in WorkerSet /\ cache \in CacheSet  BY TypeParts DEF Typed
  <1>2. worker.work \in Work /\ cache.session = worker.work.session
    BY <1>1 DEF EvaluateFindings, WorkIsAsked, Evaluating, WorkerSet
  <1>3. worker.work.session \in Session  BY <1>2 DEF Work
  <1>4. found \in Contents  BY <1>1, <1>2, <1>3 DEF CacheSet, Session
  <1>5. page \in Page
    <2> HIDE DEF found
    <2> QED BY <1>3, <1>4 DEF Page, Kinds, Session
  <1>6. Concludes(page)
    BY <1>5, ConcludeEffect DEF EvaluateFindings, Outcomes
  <1>7. cache' = [session |-> cache.session, findings |-> found,
                  readiness |-> cache.readiness, context |-> cache.context]
    BY <1>1 DEF EvaluateFindings, CacheSet
  <1>8. cache' \in CacheSet
    <2> HIDE DEF found
    <2> QED BY <1>1, <1>4, <1>7 DEF CacheSet
  <1>9. /\ worker.at = "evaluating" /\ worker.work.kind = "findings"
        /\ UNCHANGED <<session, support, jobs, owner, asked>>
    BY DEF EvaluateFindings
  <1> QED BY <1>5, <1>6, <1>7, <1>8, <1>9 DEF EvaluateDoes, Concludes

IdentifyDoes ==
    LET kind == worker.work.kind IN
    /\ worker.at = "evaluating" /\ kind \in Targets
    /\ cache' \in CacheSet
    /\ cache'.session = cache.session /\ cache'.findings = cache.findings
    /\ cache'.context = support
    /\ \/ cache' = cache
       \/ \A t \in Targets : cache'.readiness[t] = None
    /\ worker' \in WorkerSet /\ worker'.work = worker.work
    /\ \/ worker'.at = "collecting"
       \/ /\ worker'.at = "publishing"
          /\ cache'.readiness[kind] \in Page
          /\ worker'.outcome \in Page
          /\ worker'.outcome.kind = cache'.readiness[kind].kind
          /\ worker'.outcome.revision = worker.work.session.revision
          /\ worker'.outcome.content = cache'.readiness[kind].content
          /\ worker'.outcome.from = cache'.readiness[kind].from
          /\ worker'.outcome.to = cache'.readiness[kind].to
    /\ UNCHANGED <<session, support, jobs, owner, asked>>

LEMMA IdentifyEffect ==
    ASSUME TypeOK, WorkIsAsked, IdentifySupport
    PROVE  IdentifyDoes
  <1> DEFINE kind == worker.work.kind
             known == cache'.readiness[kind]
             page == [known EXCEPT !.revision = worker.work.session.revision]
  <1>1. worker \in WorkerSet /\ cache \in CacheSet /\ support \in Nat
    BY TypeParts DEF Typed
  <1>2. /\ worker.at = "evaluating" /\ kind \in Targets
        /\ UNCHANGED <<session, support, jobs, owner, asked>>
    BY DEF IdentifySupport
  <1>3. worker.work \in Work /\ worker.work.session \in Session
    BY <1>1, <1>2 DEF WorkIsAsked, Evaluating, WorkerSet, Work
  <1>4. /\ cache' \in CacheSet
        /\ cache'.session = cache.session /\ cache'.findings = cache.findings
        /\ cache'.context = support
        /\ \/ cache' = cache
           \/ \A t \in Targets : cache'.readiness[t] = None
    <2>1. CASE cache.context = support
      <3>1. cache' = cache  BY <2>1 DEF IdentifySupport, ContextNow
      <3> QED BY <1>1, <2>1, <3>1
    <2>2. CASE cache.context # support
      <3>1. cache' = [session |-> cache.session, findings |-> cache.findings,
                      readiness |-> NoReadiness, context |-> support]
        BY <1>1, <2>2 DEF IdentifySupport, ContextNow, CacheSet
      <3>2. NoReadiness \in [Targets -> Page \cup {None}]
            /\ \A t \in Targets : NoReadiness[t] = None
        BY DEF NoReadiness
      <3> QED BY <1>1, <3>1, <3>2 DEF CacheSet
    <2> QED BY <2>1, <2>2
  <1>5. cache'.readiness[kind] \in Page \cup {None}
    BY <1>2, <1>4 DEF CacheSet
  <1>6. CASE known # None
    <2>1. known \in Page  BY <1>5, <1>6
    <2>2. Conclude(page)
      BY <1>6 DEF IdentifySupport
    <2>3. page = [kind |-> known.kind, revision |-> worker.work.session.revision,
                  content |-> known.content, from |-> known.from, to |-> known.to]
      <3> HIDE DEF known
      <3> QED BY <2>1 DEF Page
    <2>4. page \in Page
      <3> HIDE DEF known, page
      <3> QED BY <1>3, <2>1, <2>3 DEF Page, Session
    <2>5. Concludes(page)
      <3> HIDE DEF page
      <3> QED BY <2>2, <2>4, ConcludeEffect DEF Outcomes
    <2>6. /\ page.kind = known.kind /\ page.revision = worker.work.session.revision
          /\ page.content = known.content /\ page.from = known.from /\ page.to = known.to
      <3> HIDE DEF known, page
      <3> QED BY <2>3
    <2> HIDE DEF page
    <2> QED BY <1>2, <1>4, <2>1, <2>4, <2>5, <2>6 DEF IdentifyDoes, Concludes
  <1>7. CASE known = None
    <2>1. worker' = [at |-> "collecting", work |-> worker.work, outcome |-> worker.outcome]
      BY <1>1, <1>7 DEF IdentifySupport, WorkerSet
    <2>2. worker' \in WorkerSet  BY <1>1, <2>1 DEF WorkerSet
    <2> QED BY <1>2, <1>4, <2>1, <2>2 DEF IdentifyDoes
  <1> QED BY <1>6, <1>7

CollectDoes ==
    /\ worker.at = "collecting"
    /\ worker' \in WorkerSet
    /\ worker'.at = "rechecking" /\ worker'.work = worker.work
    /\ worker'.outcome \in Page
    /\ worker'.outcome.kind = worker.work.kind
    /\ worker'.outcome.revision = worker.work.session.revision
    /\ worker'.outcome.content = cache.session.content
    /\ worker'.outcome.from = cache.context /\ worker'.outcome.to = support
    /\ UNCHANGED <<session, support, jobs, cache, owner, asked>>

LEMMA CollectEffect ==
    ASSUME TypeOK, WorkIsAsked, CacheIsOfItsSession, Collect
    PROVE  CollectDoes
  <1> DEFINE page == [kind |-> worker.work.kind, revision |-> worker.work.session.revision,
                      content |-> cache.session.content, from |-> cache.context,
                      to |-> support]
  <1>1. worker \in WorkerSet /\ cache \in CacheSet /\ support \in Nat
    BY TypeParts DEF Typed
  <1>2. /\ worker.at = "collecting" /\ worker.work \in Work
        /\ cache.session = worker.work.session /\ cache.context \in Nat
    BY <1>1 DEF Collect, WorkIsAsked, Evaluating, CacheIsOfItsSession, WorkerSet, CacheSet
  <1>3. page \in Page
    BY <1>1, <1>2 DEF Page, Work, Session
  <1>4. worker' = [at |-> "rechecking", work |-> worker.work, outcome |-> page]
    BY <1>1 DEF Collect, WorkerSet
  <1>5. worker' \in WorkerSet
    <2> HIDE DEF page
    <2> QED BY <1>1, <1>3, <1>4 DEF WorkerSet, Outcomes
  <1> QED BY <1>2, <1>3, <1>4, <1>5 DEF CollectDoes, Collect

RecheckDoes ==
    /\ worker.at = "rechecking"
    /\ cache' \in CacheSet
    /\ cache'.session = cache.session /\ cache'.findings = cache.findings
    /\ \/ /\ cache.context = support /\ cache'.context = support
          /\ cache'.readiness[worker.work.kind] = worker.outcome
          /\ \A t \in Targets : t # worker.work.kind =>
                cache'.readiness[t] = cache.readiness[t]
          /\ Concludes(worker.outcome)
       \/ /\ cache'.context = None
          /\ \A t \in Targets : cache'.readiness[t] = None
          /\ Concludes(Failed)
    /\ UNCHANGED <<session, support, jobs, owner, asked>>

LEMMA RecheckEffect ==
    ASSUME TypeOK, CacheIsOfItsSession, OutcomeFits, RecheckSupport
    PROVE  RecheckDoes
  <1>1. worker \in WorkerSet /\ cache \in CacheSet /\ support \in Nat
    BY TypeParts DEF Typed
  <1>2. /\ worker.at = "rechecking" /\ worker.work.kind \in Targets
        /\ worker.outcome \in Page
        /\ UNCHANGED <<session, support, jobs, owner, asked>>
    BY DEF RecheckSupport, CacheIsOfItsSession, OutcomeFits
  <1>3. CASE cache.context = support
    <2> DEFINE kept == [cache.readiness EXCEPT ![worker.work.kind] = worker.outcome]
    <2>1. /\ cache' = [cache EXCEPT !.readiness[worker.work.kind] = worker.outcome]
          /\ Conclude(worker.outcome)
      BY <1>3 DEF RecheckSupport, SupportUnchanged
    <2>2. cache.readiness \in [Targets -> Page \cup {None}]  BY <1>1 DEF CacheSet
    <2>3. /\ kept \in [Targets -> Page \cup {None}]
          /\ kept[worker.work.kind] = worker.outcome
          /\ \A t \in Targets : t # worker.work.kind => kept[t] = cache.readiness[t]
      BY <1>2, <2>2
    <2>4. cache' = [session |-> cache.session, findings |-> cache.findings,
                    readiness |-> kept, context |-> cache.context]
      BY <1>1, <2>1 DEF CacheSet
    <2>5. cache' \in CacheSet
      <3> HIDE DEF kept
      <3> QED BY <1>1, <2>3, <2>4 DEF CacheSet
    <2>6. Concludes(worker.outcome)
      BY <1>2, <2>1, ConcludeEffect DEF Outcomes
    <2>7. /\ cache'.session = cache.session /\ cache'.findings = cache.findings
          /\ cache'.readiness = kept /\ cache'.context = cache.context
      BY <2>4
    <2> HIDE DEF kept
    <2> QED BY <1>2, <1>3, <2>3, <2>5, <2>6, <2>7 DEF RecheckDoes
  <1>4. CASE cache.context # support
    <2>1. /\ cache' = [session |-> cache.session, findings |-> cache.findings,
                       readiness |-> NoReadiness, context |-> None]
          /\ Conclude(Failed)
      BY <1>1, <1>4 DEF RecheckSupport, SupportUnchanged, CacheSet
    <2>2. NoReadiness \in [Targets -> Page \cup {None}]
          /\ \A t \in Targets : NoReadiness[t] = None
      BY DEF NoReadiness
    <2>3. Concludes(Failed)  BY <2>1, ConcludeEffect DEF Outcomes
    <2>4. cache' \in CacheSet  BY <1>1, <2>1, <2>2 DEF CacheSet
    <2> QED BY <1>2, <2>1, <2>2, <2>3, <2>4 DEF RecheckDoes
  <1> QED BY <1>3, <1>4

FailDoes ==
    /\ Evaluating
    /\ Concludes(Failed)
    /\ UNCHANGED <<session, support, jobs, cache, owner, asked>>

LEMMA FailEffect ==
    ASSUME TypeOK, EvaluationFails
    PROVE  FailDoes
  BY ConcludeEffect DEF EvaluationFails, FailDoes, Evaluating, Outcomes

PublishDoes ==
    /\ worker.at = "publishing"
    /\ worker' \in WorkerSet /\ worker'.at = "looking"
    /\ jobs' \in JobSet
    /\ \/ jobs' = jobs
       \/ /\ jobs.latest # None
          /\ jobs.latest.id = worker.work.id
          /\ jobs.latest.revision = worker.work.session.revision
          /\ ~jobs.stop
          /\ jobs'.nextId = jobs.nextId /\ jobs'.latest = jobs.latest
          /\ jobs'.pending = jobs.pending /\ jobs'.retain = jobs.retain
          /\ jobs'.stop = jobs.stop
          /\ worker.outcome \in Outcomes /\ jobs'.result = worker.outcome
    /\ UNCHANGED <<session, support, cache, owner, asked>>

LEMMA PublishEffect ==
    ASSUME TypeOK, WorkIsAsked, OutcomeFits, Publish
    PROVE  PublishDoes
  <1>1. jobs \in JobSet /\ worker \in WorkerSet  BY TypeParts DEF Typed
  <1>2. worker.at = "publishing" /\ worker.outcome \in Outcomes /\ worker.work \in Work
    BY <1>1 DEF Publish, OutcomeFits, WorkIsAsked, WorkerSet
  <1>3. worker' \in WorkerSet /\ worker'.at = "looking"
    BY DEF Publish, WorkerSet
  <1>4. CASE Wanted
    <2>1. jobs' = [nextId |-> jobs.nextId, latest |-> jobs.latest, pending |-> jobs.pending,
                   result |-> worker.outcome, retain |-> jobs.retain, stop |-> jobs.stop]
      BY <1>1, <1>4 DEF Publish, JobSet
    <2>2. jobs' \in JobSet  BY <1>1, <1>2, <2>1 DEF JobSet
    <2>3. /\ jobs.latest.id = worker.work.id
          /\ jobs.latest.revision = worker.work.session.revision /\ ~jobs.stop
      BY <1>4 DEF Wanted
    <2>4. jobs.latest # None
      <3>1. jobs.latest \in Latest
        BY <1>2, <1>4 DEF Wanted, Latest, Work, Session
      <3> QED BY <3>1, PlaceholdersAssumption
    <2> QED BY <1>2, <1>3, <2>1, <2>2, <2>3, <2>4 DEF PublishDoes, Publish
  <1>5. CASE ~Wanted
    BY <1>1, <1>2, <1>3, <1>5 DEF PublishDoes, Publish
  <1> QED BY <1>4, <1>5

-----------------------------------------------------------------------------
\* Every step keeps the types. (every operation)
LEMMA TypeStep ==
    ASSUME IInv, Typed, [Next]_vars
    PROVE  Typed'
  <1>1. CASE Edit
    BY <1>1 DEF Edit, Typed, Session
  <1>2. CASE SupportChanges
    BY <1>2 DEF SupportChanges, Typed, Session
  <1>3. ASSUME NEW kind \in Kinds, NEW retain \in BOOLEAN, Begin(kind, retain)
      PROVE  Typed'
    <2>1. BeginDoes(kind, retain)  BY <1>3, BeginEffect DEF IInv
    <2> QED BY <2>1 DEF BeginDoes, WakesWorker, Typed, Session
  <1>4. ASSUME NEW id \in Ids, Poll(id) \/ Cancel(id)
      PROVE  Typed'
    <2>1. ClearDoes  BY <1>4, ClearEffect DEF IInv
    <2> QED BY <2>1 DEF ClearDoes, Typed, Session
  <1>5. CASE Drop
    <2>1. DropDoes  BY <1>5, DropEffect DEF IInv
    <2> QED BY <2>1 DEF DropDoes, WakesWorker, Typed, Session
  <1>6. CASE Join
    BY <1>6 DEF Join, Typed, Session
  <1>7. CASE SpuriousWakeup
    <2>1. MovesTo("looking")  BY <1>7, MoveEffect DEF IInv
    <2> QED BY <2>1 DEF MovesTo, Typed, Session
  <1>8. CASE Wait
    <2>1. MovesTo("waiting")  BY <1>8, MoveEffect DEF IInv
    <2> QED BY <2>1 DEF MovesTo, Typed, Session
  <1>9. CASE Exit
    <2>1. MovesTo("exited")  BY <1>9, MoveEffect DEF IInv
    <2> QED BY <2>1 DEF MovesTo, Typed, Session
  <1>10. CASE Take
    <2>1. TakeDoes  BY <1>10, TakeEffect DEF IInv
    <2> QED BY <2>1 DEF TakeDoes, Typed, Session
  <1>11. CASE EvaluateFindings
    <2>1. EvaluateDoes  BY <1>11, EvaluateEffect DEF IInv
    <2> QED BY <2>1 DEF EvaluateDoes, Typed, Session
  <1>12. CASE IdentifySupport
    <2>1. IdentifyDoes  BY <1>12, IdentifyEffect DEF IInv
    <2> QED BY <2>1 DEF IdentifyDoes, Typed, Session
  <1>13. CASE Collect
    <2>1. CollectDoes  BY <1>13, CollectEffect DEF IInv
    <2> QED BY <2>1 DEF CollectDoes, Typed, Session
  <1>14. CASE RecheckSupport
    <2>1. RecheckDoes  BY <1>14, RecheckEffect DEF IInv
    <2> QED BY <2>1 DEF RecheckDoes, Concludes, Typed, Session
  <1>15. CASE EvaluationFails
    <2>1. FailDoes  BY <1>15, FailEffect DEF IInv
    <2> QED BY <2>1 DEF FailDoes, Concludes, Typed, Session
  <1>16. CASE Publish
    <2>1. PublishDoes  BY <1>16, PublishEffect DEF IInv
    <2> QED BY <2>1 DEF PublishDoes, Typed, Session
  <1>17. CASE UNCHANGED vars
    BY <1>17 DEF vars, Typed, Session
  <1> QED
    BY <1>1, <1>2, <1>3, <1>4, <1>5, <1>6, <1>7, <1>8, <1>9, <1>10, <1>11, <1>12, <1>13,
       <1>14, <1>15, <1>16, <1>17
       DEF Next, Worker

\* Only begin makes a job the latest. (Jobs::{queue,poll,cancel}, Drop)
LEMMA LatestStep ==
    ASSUME IInv, Typed, [Next]_vars
    PROVE  LatestIsLast'
  <1>1. CASE Edit
    <2>1. /\ session'.revision = session.revision + 1 /\ session.revision \in Nat
          /\ UNCHANGED <<support, jobs, asked>>
      BY <1>1 DEF Edit, Typed, Session
    <2>2. jobs.latest # None => jobs.latest.revision \in Nat
      BY DEF Typed, JobSet, Latest
    <2>3. AsAsked(jobs.pending)' <=> AsAsked(jobs.pending)
      BY <2>1 DEF AsAsked
    <2> QED
      BY <2>1, <2>2, <2>3 DEF IInv, LatestIsLast
  <1>2. CASE SupportChanges
    BY <1>2, PlaceholdersAssumption, BoundsAssumption
       DEF SupportChanges, IInv, LatestIsLast, AsAsked, Typed, Session, Latest, Work,
           JobSet, Ids, Ask
  <1>3. ASSUME NEW kind \in Kinds, NEW retain \in BOOLEAN, Begin(kind, retain)
      PROVE  LatestIsLast'
    <2>1. BeginDoes(kind, retain)  BY <1>3, BeginEffect DEF IInv
    <2> DEFINE n == jobs.nextId + 1
    <2>2. /\ session.revision \in Nat /\ support \in Nat
          /\ n \in Ids /\ asked'[n] # None
      BY <2>1, PlaceholdersAssumption DEF BeginDoes, Typed, Session, Ask
    <2>3. /\ jobs'.latest.id = jobs'.nextId
          /\ jobs'.latest.revision = asked'[n].session.revision
          /\ jobs'.latest.revision <= session'.revision
      BY <2>1, <2>2 DEF BeginDoes
    <2>4. jobs'.latest # None
      BY <2>1, PlaceholdersAssumption DEF BeginDoes
    <2>5. /\ jobs'.pending.id = jobs'.latest.id
          /\ jobs'.pending.id = n
          /\ jobs'.pending.id <= jobs'.nextId
          /\ jobs'.pending.kind = asked'[n].kind /\ jobs'.pending.session = asked'[n].session
      BY <2>1, <2>2 DEF BeginDoes, Ids
    <2>6. ASSUME NEW i \in Ids, asked'[i] # None
          PROVE  asked'[i].support <= support'
      <3>1. CASE i = n
        BY <2>1, <2>2, <3>1 DEF BeginDoes
      <3>2. CASE i # n
        BY <2>1, <2>6, <3>2 DEF BeginDoes, IInv, LatestIsLast
      <3> QED BY <3>1, <3>2
    <2>7. jobs'.result = None /\ jobs'.latest.id = n
      BY <2>1 DEF BeginDoes
    <2> HIDE DEF n
    <2> QED BY <2>2, <2>3, <2>4, <2>5, <2>6, <2>7 DEF LatestIsLast, AsAsked
  <1>4. ASSUME NEW id \in Ids, Poll(id) \/ Cancel(id)
      PROVE  LatestIsLast'
    <2>1. ClearDoes  BY <1>4, ClearEffect DEF IInv
    <2> QED
      BY <2>1, PlaceholdersAssumption, BoundsAssumption
         DEF ClearDoes, IInv, LatestIsLast, AsAsked, Typed, Session, Latest, Work,
             JobSet, Ids, Ask
  <1>5. CASE Drop
    <2>1. DropDoes  BY <1>5, DropEffect DEF IInv
    <2> QED
      BY <2>1, PlaceholdersAssumption, BoundsAssumption
         DEF DropDoes, WakesWorker, IInv, LatestIsLast, AsAsked, Typed, Session, Latest,
             Work, JobSet, Ids, Ask
  <1>6. CASE Join
    BY <1>6, PlaceholdersAssumption, BoundsAssumption
       DEF Join, IInv, LatestIsLast, AsAsked, Typed, Session, Latest, Work, JobSet, Ids,
           Ask
  <1>7. CASE SpuriousWakeup
    <2>1. MovesTo("looking")  BY <1>7, MoveEffect DEF IInv
    <2> QED
      BY <2>1, PlaceholdersAssumption, BoundsAssumption
         DEF MovesTo, IInv, LatestIsLast, AsAsked, Typed, Session, Latest, Work, JobSet,
             Ids, Ask
  <1>8. CASE Wait
    <2>1. MovesTo("waiting")  BY <1>8, MoveEffect DEF IInv
    <2> QED
      BY <2>1, PlaceholdersAssumption, BoundsAssumption
         DEF MovesTo, IInv, LatestIsLast, AsAsked, Typed, Session, Latest, Work, JobSet,
             Ids, Ask
  <1>9. CASE Exit
    <2>1. MovesTo("exited")  BY <1>9, MoveEffect DEF IInv
    <2> QED
      BY <2>1, PlaceholdersAssumption, BoundsAssumption
         DEF MovesTo, IInv, LatestIsLast, AsAsked, Typed, Session, Latest, Work, JobSet,
             Ids, Ask
  <1>10. CASE Take
    <2>1. TakeDoes  BY <1>10, TakeEffect DEF IInv
    <2> QED
      BY <2>1, PlaceholdersAssumption, BoundsAssumption
         DEF TakeDoes, IInv, LatestIsLast, AsAsked, Typed, Session, Latest, Work, JobSet,
             Ids, Ask
  <1>11. CASE EvaluateFindings
    <2>1. EvaluateDoes  BY <1>11, EvaluateEffect DEF IInv
    <2> QED
      BY <2>1, PlaceholdersAssumption, BoundsAssumption
         DEF EvaluateDoes, IInv, LatestIsLast, AsAsked, Typed, Session, Latest, Work,
             JobSet, Ids, Ask
  <1>12. CASE IdentifySupport
    <2>1. IdentifyDoes  BY <1>12, IdentifyEffect DEF IInv
    <2> QED
      BY <2>1, PlaceholdersAssumption, BoundsAssumption
         DEF IdentifyDoes, IInv, LatestIsLast, AsAsked, Typed, Session, Latest, Work,
             JobSet, Ids, Ask
  <1>13. CASE Collect
    <2>1. CollectDoes  BY <1>13, CollectEffect DEF IInv
    <2> QED
      BY <2>1, PlaceholdersAssumption, BoundsAssumption
         DEF CollectDoes, IInv, LatestIsLast, AsAsked, Typed, Session, Latest, Work,
             JobSet, Ids, Ask
  <1>14. CASE RecheckSupport
    <2>1. RecheckDoes  BY <1>14, RecheckEffect DEF IInv
    <2> QED
      BY <2>1, PlaceholdersAssumption, BoundsAssumption
         DEF RecheckDoes, Concludes, IInv, LatestIsLast, AsAsked, Typed, Session, Latest,
             Work, JobSet, Ids, Ask
  <1>15. CASE EvaluationFails
    <2>1. FailDoes  BY <1>15, FailEffect DEF IInv
    <2> QED
      BY <2>1, PlaceholdersAssumption, BoundsAssumption
         DEF FailDoes, Concludes, IInv, LatestIsLast, AsAsked, Typed, Session, Latest,
             Work, JobSet, Ids, Ask
  <1>16. CASE Publish
    <2>1. PublishDoes  BY <1>16, PublishEffect DEF IInv
    <2> QED
      BY <2>1, PlaceholdersAssumption, BoundsAssumption
         DEF PublishDoes, IInv, LatestIsLast, AsAsked, Typed, Session, Latest, Work,
             JobSet, Ids, Ask
  <1>17. CASE UNCHANGED vars
    BY <1>17, PlaceholdersAssumption, BoundsAssumption
       DEF vars, IInv, LatestIsLast, AsAsked, Typed, Session, Latest, Work, JobSet, Ids,
           Ask
  <1> QED
    BY <1>1, <1>2, <1>3, <1>4, <1>5, <1>6, <1>7, <1>8, <1>9, <1>10, <1>11, <1>12, <1>13,
       <1>14, <1>15, <1>16, <1>17
       DEF Next, Worker

\* Work in the worker's hands is what its job asked for. (work_loop)
LEMMA WorkStep ==
    ASSUME IInv, Typed, [Next]_vars
    PROVE  WorkIsAsked'
  <1>1. CASE Edit
    BY <1>1, PlaceholdersAssumption, BoundsAssumption
       DEF Edit, IInv, LatestIsLast, WorkIsAsked, Evaluating, AsAsked, Typed, Session,
           Work, WorkerSet, JobSet, Ids
  <1>2. CASE SupportChanges
    BY <1>2, PlaceholdersAssumption, BoundsAssumption
       DEF SupportChanges, IInv, LatestIsLast, WorkIsAsked, Evaluating, AsAsked, Typed,
           Session, Work, WorkerSet, JobSet, Ids
  <1>3. ASSUME NEW kind \in Kinds, NEW retain \in BOOLEAN, Begin(kind, retain)
      PROVE  WorkIsAsked'
    <2>1. BeginDoes(kind, retain)  BY <1>3, BeginEffect DEF IInv
    <2> QED
      BY <2>1, PlaceholdersAssumption, BoundsAssumption
         DEF BeginDoes, WakesWorker, IInv, LatestIsLast, WorkIsAsked, Evaluating,
             AsAsked, Typed, Session, Work, WorkerSet, JobSet, Ids
  <1>4. ASSUME NEW id \in Ids, Poll(id) \/ Cancel(id)
      PROVE  WorkIsAsked'
    <2>1. ClearDoes  BY <1>4, ClearEffect DEF IInv
    <2> QED
      BY <2>1, PlaceholdersAssumption, BoundsAssumption
         DEF ClearDoes, IInv, LatestIsLast, WorkIsAsked, Evaluating, AsAsked, Typed,
             Session, Work, WorkerSet, JobSet, Ids
  <1>5. CASE Drop
    <2>1. DropDoes  BY <1>5, DropEffect DEF IInv
    <2> QED
      BY <2>1, PlaceholdersAssumption, BoundsAssumption
         DEF DropDoes, WakesWorker, IInv, LatestIsLast, WorkIsAsked, Evaluating, AsAsked,
             Typed, Session, Work, WorkerSet, JobSet, Ids
  <1>6. CASE Join
    BY <1>6, PlaceholdersAssumption, BoundsAssumption
       DEF Join, IInv, LatestIsLast, WorkIsAsked, Evaluating, AsAsked, Typed, Session,
           Work, WorkerSet, JobSet, Ids
  <1>7. CASE SpuriousWakeup
    <2>1. MovesTo("looking")  BY <1>7, MoveEffect DEF IInv
    <2> QED
      BY <2>1, PlaceholdersAssumption, BoundsAssumption
         DEF MovesTo, IInv, LatestIsLast, WorkIsAsked, Evaluating, AsAsked, Typed,
             Session, Work, WorkerSet, JobSet, Ids
  <1>8. CASE Wait
    <2>1. MovesTo("waiting")  BY <1>8, MoveEffect DEF IInv
    <2> QED
      BY <2>1, PlaceholdersAssumption, BoundsAssumption
         DEF MovesTo, IInv, LatestIsLast, WorkIsAsked, Evaluating, AsAsked, Typed,
             Session, Work, WorkerSet, JobSet, Ids
  <1>9. CASE Exit
    <2>1. MovesTo("exited")  BY <1>9, MoveEffect DEF IInv
    <2> QED
      BY <2>1, PlaceholdersAssumption, BoundsAssumption
         DEF MovesTo, IInv, LatestIsLast, WorkIsAsked, Evaluating, AsAsked, Typed,
             Session, Work, WorkerSet, JobSet, Ids
  <1>10. CASE Take
    <2>1. TakeDoes  BY <1>10, TakeEffect DEF IInv
    <2> QED
      BY <2>1, PlaceholdersAssumption, BoundsAssumption
         DEF TakeDoes, IInv, LatestIsLast, WorkIsAsked, Evaluating, AsAsked, Typed,
             Session, Work, WorkerSet, JobSet, Ids
  <1>11. CASE EvaluateFindings
    <2>1. EvaluateDoes  BY <1>11, EvaluateEffect DEF IInv
    <2> QED
      BY <2>1, PlaceholdersAssumption, BoundsAssumption
         DEF EvaluateDoes, IInv, LatestIsLast, WorkIsAsked, Evaluating, AsAsked, Typed,
             Session, Work, WorkerSet, JobSet, Ids
  <1>12. CASE IdentifySupport
    <2>1. IdentifyDoes  BY <1>12, IdentifyEffect DEF IInv
    <2> QED
      BY <2>1, PlaceholdersAssumption, BoundsAssumption
         DEF IdentifyDoes, IInv, LatestIsLast, WorkIsAsked, Evaluating, AsAsked, Typed,
             Session, Work, WorkerSet, JobSet, Ids
  <1>13. CASE Collect
    <2>1. CollectDoes  BY <1>13, CollectEffect DEF IInv
    <2> QED
      BY <2>1, PlaceholdersAssumption, BoundsAssumption
         DEF CollectDoes, IInv, LatestIsLast, WorkIsAsked, Evaluating, AsAsked, Typed,
             Session, Work, WorkerSet, JobSet, Ids
  <1>14. CASE RecheckSupport
    <2>1. RecheckDoes  BY <1>14, RecheckEffect DEF IInv
    <2> QED
      BY <2>1, PlaceholdersAssumption, BoundsAssumption
         DEF RecheckDoes, Concludes, IInv, LatestIsLast, WorkIsAsked, Evaluating,
             AsAsked, Typed, Session, Work, WorkerSet, JobSet, Ids
  <1>15. CASE EvaluationFails
    <2>1. FailDoes  BY <1>15, FailEffect DEF IInv
    <2> QED
      BY <2>1, PlaceholdersAssumption, BoundsAssumption
         DEF FailDoes, Concludes, IInv, LatestIsLast, WorkIsAsked, Evaluating, AsAsked,
             Typed, Session, Work, WorkerSet, JobSet, Ids
  <1>16. CASE Publish
    <2>1. PublishDoes  BY <1>16, PublishEffect DEF IInv
    <2> QED
      BY <2>1, PlaceholdersAssumption, BoundsAssumption
         DEF PublishDoes, IInv, LatestIsLast, WorkIsAsked, Evaluating, AsAsked, Typed,
             Session, Work, WorkerSet, JobSet, Ids
  <1>17. CASE UNCHANGED vars
    BY <1>17, PlaceholdersAssumption, BoundsAssumption
       DEF vars, IInv, LatestIsLast, WorkIsAsked, Evaluating, AsAsked, Typed, Session,
           Work, WorkerSet, JobSet, Ids
  <1> QED
    BY <1>1, <1>2, <1>3, <1>4, <1>5, <1>6, <1>7, <1>8, <1>9, <1>10, <1>11, <1>12, <1>13,
       <1>14, <1>15, <1>16, <1>17
       DEF Next, Worker

\* What is cached is of its session and context. (diagnostic_cache.rs)
LEMMA CacheStep ==
    ASSUME IInv, Typed, [Next]_vars
    PROVE  CacheIsOfItsSession'
  <1>1. CASE Edit
    BY <1>1, PlaceholdersAssumption, BoundsAssumption
       DEF Edit, IInv, LatestIsLast, WorkIsAsked, Evaluating, AsAsked,
           CacheIsOfItsSession, OutcomeFits, Typed, Session, Work, WorkerSet, CacheSet, Page,
           Kinds, Targets, Ids, Ask
  <1>2. CASE SupportChanges
    BY <1>2, PlaceholdersAssumption, BoundsAssumption
       DEF SupportChanges, IInv, LatestIsLast, WorkIsAsked, Evaluating, AsAsked,
           CacheIsOfItsSession, OutcomeFits, Typed, Session, Work, WorkerSet, CacheSet, Page,
           Kinds, Targets, Ids, Ask
  <1>3. ASSUME NEW kind \in Kinds, NEW retain \in BOOLEAN, Begin(kind, retain)
      PROVE  CacheIsOfItsSession'
    <2>1. BeginDoes(kind, retain)  BY <1>3, BeginEffect DEF IInv
    <2>2. Evaluating \/ worker.at = "publishing" =>
            /\ worker.work # None /\ worker.work.id \in Ids
            /\ asked'[worker.work.id] = asked[worker.work.id]
      <3>1. worker.work # None => worker.work \in Work
        BY DEF Typed, WorkerSet
      <3> QED
        BY <2>1, <3>1 DEF BeginDoes, IInv, WorkIsAsked, AsAsked, Work, Typed, JobSet, Ids
    <2>3. /\ worker'.work = worker.work /\ worker'.outcome = worker.outcome
          /\ \/ worker'.at = worker.at
             \/ worker'.at = "looking"
          /\ UNCHANGED <<session, support, cache>>
      BY <2>1 DEF BeginDoes, WakesWorker
    <2> QED BY <2>2, <2>3 DEF IInv, CacheIsOfItsSession, Evaluating
  <1>4. ASSUME NEW id \in Ids, Poll(id) \/ Cancel(id)
      PROVE  CacheIsOfItsSession'
    <2>1. ClearDoes  BY <1>4, ClearEffect DEF IInv
    <2> QED
      BY <2>1, PlaceholdersAssumption, BoundsAssumption
         DEF ClearDoes, IInv, LatestIsLast, WorkIsAsked, Evaluating, AsAsked,
             CacheIsOfItsSession, OutcomeFits, Typed, Session, Work, WorkerSet, CacheSet,
             Page, Kinds, Targets, Ids, Ask
  <1>5. CASE Drop
    <2>1. DropDoes  BY <1>5, DropEffect DEF IInv
    <2> QED
      BY <2>1, PlaceholdersAssumption, BoundsAssumption
         DEF DropDoes, WakesWorker, IInv, LatestIsLast, WorkIsAsked, Evaluating, AsAsked,
             CacheIsOfItsSession, OutcomeFits, Typed, Session, Work, WorkerSet, CacheSet,
             Page, Kinds, Targets, Ids, Ask
  <1>6. CASE Join
    BY <1>6, PlaceholdersAssumption, BoundsAssumption
       DEF Join, IInv, LatestIsLast, WorkIsAsked, Evaluating, AsAsked,
           CacheIsOfItsSession, OutcomeFits, Typed, Session, Work, WorkerSet, CacheSet, Page,
           Kinds, Targets, Ids, Ask
  <1>7. CASE SpuriousWakeup
    <2>1. MovesTo("looking")  BY <1>7, MoveEffect DEF IInv
    <2> QED
      BY <2>1, PlaceholdersAssumption, BoundsAssumption
         DEF MovesTo, IInv, LatestIsLast, WorkIsAsked, Evaluating, AsAsked,
             CacheIsOfItsSession, OutcomeFits, Typed, Session, Work, WorkerSet, CacheSet,
             Page, Kinds, Targets, Ids, Ask
  <1>8. CASE Wait
    <2>1. MovesTo("waiting")  BY <1>8, MoveEffect DEF IInv
    <2> QED
      BY <2>1, PlaceholdersAssumption, BoundsAssumption
         DEF MovesTo, IInv, LatestIsLast, WorkIsAsked, Evaluating, AsAsked,
             CacheIsOfItsSession, OutcomeFits, Typed, Session, Work, WorkerSet, CacheSet,
             Page, Kinds, Targets, Ids, Ask
  <1>9. CASE Exit
    <2>1. MovesTo("exited")  BY <1>9, MoveEffect DEF IInv
    <2> QED
      BY <2>1, PlaceholdersAssumption, BoundsAssumption
         DEF MovesTo, IInv, LatestIsLast, WorkIsAsked, Evaluating, AsAsked,
             CacheIsOfItsSession, OutcomeFits, Typed, Session, Work, WorkerSet, CacheSet,
             Page, Kinds, Targets, Ids, Ask
  <1>10. CASE Take
    <2>1. TakeDoes  BY <1>10, TakeEffect DEF IInv
    <2> QED
      BY <2>1, PlaceholdersAssumption, BoundsAssumption
         DEF TakeDoes, IInv, LatestIsLast, WorkIsAsked, Evaluating, AsAsked,
             CacheIsOfItsSession, OutcomeFits, Typed, Session, Work, WorkerSet, CacheSet,
             Page, Kinds, Targets, Ids, Ask
  <1>11. CASE EvaluateFindings
    <2>1. EvaluateDoes  BY <1>11, EvaluateEffect DEF IInv
    <2> QED
      BY <2>1, PlaceholdersAssumption, BoundsAssumption
         DEF EvaluateDoes, IInv, LatestIsLast, WorkIsAsked, Evaluating, AsAsked,
             CacheIsOfItsSession, OutcomeFits, Typed, Session, Work, WorkerSet, CacheSet,
             Page, Kinds, Targets, Ids, Ask
  <1>12. CASE IdentifySupport
    <2>1. IdentifyDoes  BY <1>12, IdentifyEffect DEF IInv
    <2> QED
      BY <2>1, PlaceholdersAssumption, BoundsAssumption
         DEF IdentifyDoes, IInv, LatestIsLast, WorkIsAsked, Evaluating, AsAsked,
             CacheIsOfItsSession, OutcomeFits, Typed, Session, Work, WorkerSet, CacheSet,
             Page, Kinds, Targets, Ids, Ask
  <1>13. CASE Collect
    <2>1. CollectDoes  BY <1>13, CollectEffect DEF IInv
    <2> QED
      BY <2>1, PlaceholdersAssumption, BoundsAssumption
         DEF CollectDoes, IInv, LatestIsLast, WorkIsAsked, Evaluating, AsAsked,
             CacheIsOfItsSession, OutcomeFits, Typed, Session, Work, WorkerSet, CacheSet,
             Page, Kinds, Targets, Ids, Ask
  <1>14. CASE RecheckSupport
    <2>1. RecheckDoes  BY <1>14, RecheckEffect DEF IInv
    <2> QED
      BY <2>1, PlaceholdersAssumption, BoundsAssumption
         DEF RecheckDoes, Concludes, IInv, LatestIsLast, WorkIsAsked, Evaluating,
             AsAsked, CacheIsOfItsSession, OutcomeFits, Typed, Session, Work, WorkerSet,
             CacheSet, Page, Kinds, Targets, Ids, Ask
  <1>15. CASE EvaluationFails
    <2>1. FailDoes  BY <1>15, FailEffect DEF IInv
    <2> QED
      BY <2>1, PlaceholdersAssumption, BoundsAssumption
         DEF FailDoes, Concludes, IInv, LatestIsLast, WorkIsAsked, Evaluating, AsAsked,
             CacheIsOfItsSession, OutcomeFits, Typed, Session, Work, WorkerSet, CacheSet,
             Page, Kinds, Targets, Ids, Ask
  <1>16. CASE Publish
    <2>1. PublishDoes  BY <1>16, PublishEffect DEF IInv
    <2> QED
      BY <2>1, PlaceholdersAssumption, BoundsAssumption
         DEF PublishDoes, IInv, LatestIsLast, WorkIsAsked, Evaluating, AsAsked,
             CacheIsOfItsSession, OutcomeFits, Typed, Session, Work, WorkerSet, CacheSet,
             Page, Kinds, Targets, Ids, Ask
  <1>17. CASE UNCHANGED vars
    BY <1>17, PlaceholdersAssumption, BoundsAssumption
       DEF vars, IInv, LatestIsLast, WorkIsAsked, Evaluating, AsAsked,
           CacheIsOfItsSession, OutcomeFits, Typed, Session, Work, WorkerSet, CacheSet, Page,
           Kinds, Targets, Ids, Ask
  <1> QED
    BY <1>1, <1>2, <1>3, <1>4, <1>5, <1>6, <1>7, <1>8, <1>9, <1>10, <1>11, <1>12, <1>13,
       <1>14, <1>15, <1>16, <1>17
       DEF Next, Worker

\* What the worker concludes is what its job must get. (Cache::evaluate)
LEMMA OutcomeStep ==
    ASSUME IInv, Typed, [Next]_vars
    PROVE  OutcomeFits'
  <1>1. CASE Edit
    BY <1>1, PlaceholdersAssumption, BoundsAssumption
       DEF Edit, IInv, WorkIsAsked, Evaluating, AsAsked, LatestIsLast,
           CacheIsOfItsSession, OutcomeFits, Fits, Typed, Session, Work, WorkerSet, CacheSet,
           Page, Outcomes, Kinds, Targets, Ids, Ask
  <1>2. CASE SupportChanges
    BY <1>2, PlaceholdersAssumption, BoundsAssumption
       DEF SupportChanges, IInv, WorkIsAsked, Evaluating, AsAsked, LatestIsLast,
           CacheIsOfItsSession, OutcomeFits, Fits, Typed, Session, Work, WorkerSet, CacheSet,
           Page, Outcomes, Kinds, Targets, Ids, Ask
  <1>3. ASSUME NEW kind \in Kinds, NEW retain \in BOOLEAN, Begin(kind, retain)
      PROVE  OutcomeFits'
    <2>1. BeginDoes(kind, retain)  BY <1>3, BeginEffect DEF IInv
    <2>2. Evaluating \/ worker.at = "publishing" =>
            /\ worker.work # None /\ worker.work.id \in Ids
            /\ asked'[worker.work.id] = asked[worker.work.id]
      <3>1. worker.work # None => worker.work \in Work
        BY DEF Typed, WorkerSet
      <3> QED
        BY <2>1, <3>1 DEF BeginDoes, IInv, WorkIsAsked, AsAsked, Work, Typed, JobSet, Ids
    <2>3. /\ worker'.work = worker.work /\ worker'.outcome = worker.outcome
          /\ \/ worker'.at = worker.at
             \/ worker'.at = "looking"
          /\ UNCHANGED <<session, support, cache>>
      BY <2>1 DEF BeginDoes, WakesWorker
    <2> QED BY <2>2, <2>3 DEF IInv, OutcomeFits, Evaluating, Fits
  <1>4. ASSUME NEW id \in Ids, Poll(id) \/ Cancel(id)
      PROVE  OutcomeFits'
    <2>1. ClearDoes  BY <1>4, ClearEffect DEF IInv
    <2> QED
      BY <2>1, PlaceholdersAssumption, BoundsAssumption
         DEF ClearDoes, IInv, WorkIsAsked, Evaluating, AsAsked, LatestIsLast,
             CacheIsOfItsSession, OutcomeFits, Fits, Typed, Session, Work, WorkerSet,
             CacheSet, Page, Outcomes, Kinds, Targets, Ids, Ask
  <1>5. CASE Drop
    <2>1. DropDoes  BY <1>5, DropEffect DEF IInv
    <2> QED
      BY <2>1, PlaceholdersAssumption, BoundsAssumption
         DEF DropDoes, WakesWorker, IInv, WorkIsAsked, Evaluating, AsAsked, LatestIsLast,
             CacheIsOfItsSession, OutcomeFits, Fits, Typed, Session, Work, WorkerSet,
             CacheSet, Page, Outcomes, Kinds, Targets, Ids, Ask
  <1>6. CASE Join
    BY <1>6, PlaceholdersAssumption, BoundsAssumption
       DEF Join, IInv, WorkIsAsked, Evaluating, AsAsked, LatestIsLast,
           CacheIsOfItsSession, OutcomeFits, Fits, Typed, Session, Work, WorkerSet, CacheSet,
           Page, Outcomes, Kinds, Targets, Ids, Ask
  <1>7. CASE SpuriousWakeup
    <2>1. MovesTo("looking")  BY <1>7, MoveEffect DEF IInv
    <2> QED
      BY <2>1, PlaceholdersAssumption, BoundsAssumption
         DEF MovesTo, IInv, WorkIsAsked, Evaluating, AsAsked, LatestIsLast,
             CacheIsOfItsSession, OutcomeFits, Fits, Typed, Session, Work, WorkerSet,
             CacheSet, Page, Outcomes, Kinds, Targets, Ids, Ask
  <1>8. CASE Wait
    <2>1. MovesTo("waiting")  BY <1>8, MoveEffect DEF IInv
    <2> QED
      BY <2>1, PlaceholdersAssumption, BoundsAssumption
         DEF MovesTo, IInv, WorkIsAsked, Evaluating, AsAsked, LatestIsLast,
             CacheIsOfItsSession, OutcomeFits, Fits, Typed, Session, Work, WorkerSet,
             CacheSet, Page, Outcomes, Kinds, Targets, Ids, Ask
  <1>9. CASE Exit
    <2>1. MovesTo("exited")  BY <1>9, MoveEffect DEF IInv
    <2> QED
      BY <2>1, PlaceholdersAssumption, BoundsAssumption
         DEF MovesTo, IInv, WorkIsAsked, Evaluating, AsAsked, LatestIsLast,
             CacheIsOfItsSession, OutcomeFits, Fits, Typed, Session, Work, WorkerSet,
             CacheSet, Page, Outcomes, Kinds, Targets, Ids, Ask
  <1>10. CASE Take
    <2>1. TakeDoes  BY <1>10, TakeEffect DEF IInv
    <2> QED
      BY <2>1, PlaceholdersAssumption, BoundsAssumption
         DEF TakeDoes, IInv, WorkIsAsked, Evaluating, AsAsked, LatestIsLast,
             CacheIsOfItsSession, OutcomeFits, Fits, Typed, Session, Work, WorkerSet,
             CacheSet, Page, Outcomes, Kinds, Targets, Ids, Ask
  <1>11. CASE EvaluateFindings
    <2>1. EvaluateDoes  BY <1>11, EvaluateEffect DEF IInv
    <2> QED
      BY <2>1, PlaceholdersAssumption, BoundsAssumption
         DEF EvaluateDoes, IInv, WorkIsAsked, Evaluating, AsAsked, LatestIsLast,
             CacheIsOfItsSession, OutcomeFits, Fits, Typed, Session, Work, WorkerSet,
             CacheSet, Page, Outcomes, Kinds, Targets, Ids, Ask
  <1>12. CASE IdentifySupport
    <2>1. IdentifyDoes  BY <1>12, IdentifyEffect DEF IInv
    <2> QED
      BY <2>1, PlaceholdersAssumption, BoundsAssumption
         DEF IdentifyDoes, IInv, WorkIsAsked, Evaluating, AsAsked, LatestIsLast,
             CacheIsOfItsSession, OutcomeFits, Fits, Typed, Session, Work, WorkerSet,
             CacheSet, Page, Outcomes, Kinds, Targets, Ids, Ask
  <1>13. CASE Collect
    <2>1. CollectDoes  BY <1>13, CollectEffect DEF IInv
    <2> QED
      BY <2>1, PlaceholdersAssumption, BoundsAssumption
         DEF CollectDoes, IInv, WorkIsAsked, Evaluating, AsAsked, LatestIsLast,
             CacheIsOfItsSession, OutcomeFits, Fits, Typed, Session, Work, WorkerSet,
             CacheSet, Page, Outcomes, Kinds, Targets, Ids, Ask
  <1>14. CASE RecheckSupport
    <2>1. RecheckDoes  BY <1>14, RecheckEffect DEF IInv
    <2> QED
      BY <2>1, PlaceholdersAssumption, BoundsAssumption
         DEF RecheckDoes, Concludes, IInv, WorkIsAsked, Evaluating, AsAsked,
             LatestIsLast, CacheIsOfItsSession, OutcomeFits, Fits, Typed, Session, Work,
             WorkerSet, CacheSet, Page, Outcomes, Kinds, Targets, Ids, Ask
  <1>15. CASE EvaluationFails
    <2>1. FailDoes  BY <1>15, FailEffect DEF IInv
    <2> QED
      BY <2>1, PlaceholdersAssumption, BoundsAssumption
         DEF FailDoes, Concludes, IInv, WorkIsAsked, Evaluating, AsAsked, LatestIsLast,
             CacheIsOfItsSession, OutcomeFits, Fits, Typed, Session, Work, WorkerSet,
             CacheSet, Page, Outcomes, Kinds, Targets, Ids, Ask
  <1>16. CASE Publish
    <2>1. PublishDoes  BY <1>16, PublishEffect DEF IInv
    <2> QED
      BY <2>1, PlaceholdersAssumption, BoundsAssumption
         DEF PublishDoes, IInv, WorkIsAsked, Evaluating, AsAsked, LatestIsLast,
             CacheIsOfItsSession, OutcomeFits, Fits, Typed, Session, Work, WorkerSet,
             CacheSet, Page, Outcomes, Kinds, Targets, Ids, Ask
  <1>17. CASE UNCHANGED vars
    BY <1>17, PlaceholdersAssumption, BoundsAssumption
       DEF vars, IInv, WorkIsAsked, Evaluating, AsAsked, LatestIsLast,
           CacheIsOfItsSession, OutcomeFits, Fits, Typed, Session, Work, WorkerSet, CacheSet,
           Page, Outcomes, Kinds, Targets, Ids, Ask
  <1> QED
    BY <1>1, <1>2, <1>3, <1>4, <1>5, <1>6, <1>7, <1>8, <1>9, <1>10, <1>11, <1>12, <1>13,
       <1>14, <1>15, <1>16, <1>17
       DEF Next, Worker

\* Only the latest job's own outcome is published. (work_loop)
LEMMA ResultStep ==
    ASSUME IInv, Typed, [Next]_vars
    PROVE  ResultFits'
  <1>1. CASE Edit
    BY <1>1, PlaceholdersAssumption, BoundsAssumption
       DEF Edit, IInv, WorkIsAsked, Evaluating, AsAsked, LatestIsLast, OutcomeFits,
           ResultFits, Fits, Typed, Session, Work, WorkerSet, JobSet, Latest, Outcomes, Ids,
           Ask
  <1>2. CASE SupportChanges
    BY <1>2, PlaceholdersAssumption, BoundsAssumption
       DEF SupportChanges, IInv, WorkIsAsked, Evaluating, AsAsked, LatestIsLast,
           OutcomeFits, ResultFits, Fits, Typed, Session, Work, WorkerSet, JobSet, Latest,
           Outcomes, Ids, Ask
  <1>3. ASSUME NEW kind \in Kinds, NEW retain \in BOOLEAN, Begin(kind, retain)
      PROVE  ResultFits'
    <2>1. BeginDoes(kind, retain)  BY <1>3, BeginEffect DEF IInv
    <2> QED
      BY <2>1, PlaceholdersAssumption, BoundsAssumption
         DEF BeginDoes, WakesWorker, IInv, WorkIsAsked, Evaluating, AsAsked,
             LatestIsLast, OutcomeFits, ResultFits, Fits, Typed, Session, Work, WorkerSet,
             JobSet, Latest, Outcomes, Ids, Ask
  <1>4. ASSUME NEW id \in Ids, Poll(id) \/ Cancel(id)
      PROVE  ResultFits'
    <2>1. ClearDoes  BY <1>4, ClearEffect DEF IInv
    <2> QED
      BY <2>1, PlaceholdersAssumption, BoundsAssumption
         DEF ClearDoes, IInv, WorkIsAsked, Evaluating, AsAsked, LatestIsLast,
             OutcomeFits, ResultFits, Fits, Typed, Session, Work, WorkerSet, JobSet, Latest,
             Outcomes, Ids, Ask
  <1>5. CASE Drop
    <2>1. DropDoes  BY <1>5, DropEffect DEF IInv
    <2> QED
      BY <2>1, PlaceholdersAssumption, BoundsAssumption
         DEF DropDoes, WakesWorker, IInv, WorkIsAsked, Evaluating, AsAsked, LatestIsLast,
             OutcomeFits, ResultFits, Fits, Typed, Session, Work, WorkerSet, JobSet, Latest,
             Outcomes, Ids, Ask
  <1>6. CASE Join
    BY <1>6, PlaceholdersAssumption, BoundsAssumption
       DEF Join, IInv, WorkIsAsked, Evaluating, AsAsked, LatestIsLast, OutcomeFits,
           ResultFits, Fits, Typed, Session, Work, WorkerSet, JobSet, Latest, Outcomes, Ids,
           Ask
  <1>7. CASE SpuriousWakeup
    <2>1. MovesTo("looking")  BY <1>7, MoveEffect DEF IInv
    <2> QED
      BY <2>1, PlaceholdersAssumption, BoundsAssumption
         DEF MovesTo, IInv, WorkIsAsked, Evaluating, AsAsked, LatestIsLast, OutcomeFits,
             ResultFits, Fits, Typed, Session, Work, WorkerSet, JobSet, Latest, Outcomes,
             Ids, Ask
  <1>8. CASE Wait
    <2>1. MovesTo("waiting")  BY <1>8, MoveEffect DEF IInv
    <2> QED
      BY <2>1, PlaceholdersAssumption, BoundsAssumption
         DEF MovesTo, IInv, WorkIsAsked, Evaluating, AsAsked, LatestIsLast, OutcomeFits,
             ResultFits, Fits, Typed, Session, Work, WorkerSet, JobSet, Latest, Outcomes,
             Ids, Ask
  <1>9. CASE Exit
    <2>1. MovesTo("exited")  BY <1>9, MoveEffect DEF IInv
    <2> QED
      BY <2>1, PlaceholdersAssumption, BoundsAssumption
         DEF MovesTo, IInv, WorkIsAsked, Evaluating, AsAsked, LatestIsLast, OutcomeFits,
             ResultFits, Fits, Typed, Session, Work, WorkerSet, JobSet, Latest, Outcomes,
             Ids, Ask
  <1>10. CASE Take
    <2>1. TakeDoes  BY <1>10, TakeEffect DEF IInv
    <2> QED
      BY <2>1, PlaceholdersAssumption, BoundsAssumption
         DEF TakeDoes, IInv, WorkIsAsked, Evaluating, AsAsked, LatestIsLast, OutcomeFits,
             ResultFits, Fits, Typed, Session, Work, WorkerSet, JobSet, Latest, Outcomes,
             Ids, Ask
  <1>11. CASE EvaluateFindings
    <2>1. EvaluateDoes  BY <1>11, EvaluateEffect DEF IInv
    <2> QED
      BY <2>1, PlaceholdersAssumption, BoundsAssumption
         DEF EvaluateDoes, IInv, WorkIsAsked, Evaluating, AsAsked, LatestIsLast,
             OutcomeFits, ResultFits, Fits, Typed, Session, Work, WorkerSet, JobSet, Latest,
             Outcomes, Ids, Ask
  <1>12. CASE IdentifySupport
    <2>1. IdentifyDoes  BY <1>12, IdentifyEffect DEF IInv
    <2> QED
      BY <2>1, PlaceholdersAssumption, BoundsAssumption
         DEF IdentifyDoes, IInv, WorkIsAsked, Evaluating, AsAsked, LatestIsLast,
             OutcomeFits, ResultFits, Fits, Typed, Session, Work, WorkerSet, JobSet, Latest,
             Outcomes, Ids, Ask
  <1>13. CASE Collect
    <2>1. CollectDoes  BY <1>13, CollectEffect DEF IInv
    <2> QED
      BY <2>1, PlaceholdersAssumption, BoundsAssumption
         DEF CollectDoes, IInv, WorkIsAsked, Evaluating, AsAsked, LatestIsLast,
             OutcomeFits, ResultFits, Fits, Typed, Session, Work, WorkerSet, JobSet, Latest,
             Outcomes, Ids, Ask
  <1>14. CASE RecheckSupport
    <2>1. RecheckDoes  BY <1>14, RecheckEffect DEF IInv
    <2> QED
      BY <2>1, PlaceholdersAssumption, BoundsAssumption
         DEF RecheckDoes, Concludes, IInv, WorkIsAsked, Evaluating, AsAsked,
             LatestIsLast, OutcomeFits, ResultFits, Fits, Typed, Session, Work, WorkerSet,
             JobSet, Latest, Outcomes, Ids, Ask
  <1>15. CASE EvaluationFails
    <2>1. FailDoes  BY <1>15, FailEffect DEF IInv
    <2> QED
      BY <2>1, PlaceholdersAssumption, BoundsAssumption
         DEF FailDoes, Concludes, IInv, WorkIsAsked, Evaluating, AsAsked, LatestIsLast,
             OutcomeFits, ResultFits, Fits, Typed, Session, Work, WorkerSet, JobSet, Latest,
             Outcomes, Ids, Ask
  <1>16. CASE Publish
    <2>1. PublishDoes  BY <1>16, PublishEffect DEF IInv
    <2> QED
      BY <2>1, PlaceholdersAssumption, BoundsAssumption
         DEF PublishDoes, IInv, WorkIsAsked, Evaluating, AsAsked, LatestIsLast,
             OutcomeFits, ResultFits, Fits, Typed, Session, Work, WorkerSet, JobSet, Latest,
             Outcomes, Ids, Ask
  <1>17. CASE UNCHANGED vars
    BY <1>17, PlaceholdersAssumption, BoundsAssumption
       DEF vars, IInv, WorkIsAsked, Evaluating, AsAsked, LatestIsLast, OutcomeFits,
           ResultFits, Fits, Typed, Session, Work, WorkerSet, JobSet, Latest, Outcomes, Ids,
           Ask
  <1> QED
    BY <1>1, <1>2, <1>3, <1>4, <1>5, <1>6, <1>7, <1>8, <1>9, <1>10, <1>11, <1>12, <1>13,
       <1>14, <1>15, <1>16, <1>17
       DEF Next, Worker

-----------------------------------------------------------------------------
LEMMA InitIInv == Init => IInv
  <1> SUFFICES ASSUME Init PROVE IInv
    OBVIOUS
  <1>1. Typed
    <2>1. session \in Session /\ support \in Nat
      BY DEF Init, Session
    <2>2. jobs \in JobSet
      BY BoundsAssumption DEF Init, JobSet
    <2>3. worker \in WorkerSet
      BY DEF Init, WorkerSet
    <2>4. cache \in CacheSet
      BY DEF Init, CacheSet, NoReadiness
    <2>5. asked \in [Ids -> Ask \cup {None}] /\ owner = "open"
      BY DEF Init
    <2> QED BY <2>1, <2>2, <2>3, <2>4, <2>5 DEF Typed
  <1>2. LatestIsLast /\ ResultFits
    BY DEF Init, LatestIsLast, ResultFits
  <1>3. WorkIsAsked /\ CacheIsOfItsSession /\ OutcomeFits
    BY DEF Init, WorkIsAsked, Evaluating, CacheIsOfItsSession, NoReadiness, OutcomeFits
  <1> QED BY <1>1, <1>2, <1>3, TypeParts DEF IInv

LEMMA StepIInv == IInv /\ [Next]_vars => IInv'
  <1> SUFFICES ASSUME IInv, [Next]_vars PROVE IInv'
    OBVIOUS
  <1>1. Typed
    BY TypeParts DEF IInv
  <1>2. TypeOK'
    BY <1>1, TypeStep, TypePartsNext
  <1>3. LatestIsLast' /\ WorkIsAsked' /\ CacheIsOfItsSession' /\ OutcomeFits' /\ ResultFits'
    BY <1>1, LatestStep, WorkStep, CacheStep, OutcomeStep, ResultStep
  <1> QED BY <1>2, <1>3 DEF IInv

LEMMA Invariance == Spec => []IInv
  BY InitIInv, StepIInv, PTL DEF Spec

\* The type invariant holds for every number of requests, edits and changes.
\* (validation_jobs.rs State, diagnostic_cache.rs Cache)
THEOREM TypeCorrect == Spec => []TypeOK
  <1>1. IInv => TypeOK
    BY DEF IInv
  <1> QED BY <1>1, Invariance, PTL

-----------------------------------------------------------------------------
(* What a poll answers. *)

\* The job may still be answered as pending, ready or failed.
Live(id) == IsLatest(id) /\ ~Outdated

LEMMA AnswerIs ==
    ASSUME NEW id \in Ids
    PROVE  /\ Answer(id) \in {"pending", "ready", "failed"} <=> Live(id)
           /\ Answer(id) = "pending" <=> Live(id) /\ jobs.result = None
           /\ Answer(id) = "ready" => Live(id) /\ jobs.result # None /\ jobs.result # Failed
  <1>1. CASE ~IsLatest(id)
    BY <1>1 DEF Answer, Live
  <1>2. CASE IsLatest(id) /\ Outdated
    BY <1>2 DEF Answer, Live
  <1>3. CASE Live(id) /\ jobs.result = None
    <2>1. jobs.result # Failed
      BY <1>3, PlaceholdersAssumption DEF Outcomes
    <2>2. Answer(id) = "pending"
      BY <1>3, <2>1 DEF Answer, Live
    <2> QED BY <1>3, <2>2
  <1>4. CASE Live(id) /\ jobs.result # None /\ jobs.result = Failed
    BY <1>4 DEF Answer, Live
  <1>5. CASE Live(id) /\ jobs.result # None /\ jobs.result # Failed
    BY <1>5 DEF Answer, Live
  <1> QED BY <1>1, <1>2, <1>3, <1>4, <1>5 DEF Live

LEMMA ReadyFits ==
    ASSUME IInv, NEW id \in Ids, Answer(id) = "ready"
    PROVE  /\ Fits(jobs.result, asked[id])
           /\ jobs.retain \/ jobs.result.revision = session.revision
  <1>1. Live(id) /\ jobs.result # None /\ jobs.result # Failed
    BY AnswerIs
  <1>2. jobs.latest # None /\ jobs.latest.id = id
    BY <1>1 DEF Live, IsLatest
  <1>3. Fits(jobs.result, asked[id])
    BY <1>1, <1>2 DEF IInv, ResultFits
  <1>4. jobs.latest.revision = asked[id].session.revision
    BY <1>2 DEF IInv, LatestIsLast
  <1>5. jobs.latest.revision = session.revision \/ jobs.retain
    BY <1>1 DEF Live, Outdated
  <1> QED BY <1>3, <1>4, <1>5 DEF Fits

\* A page that a poll finds is its own job's, of the content and the revision
\* captured when the job began. (Jobs::poll, work_loop, Cache::update_project)
THEOREM PagesAreTheirOwn == Spec => []ReadyPagesAreTheirOwn
  <1>1. IInv => ReadyPagesAreTheirOwn
    BY ReadyFits DEF ReadyPagesAreTheirOwn, Fits
  <1> QED BY <1>1, Invariance, PTL

\* A readiness page rests on support files of one moment, no earlier than the
\* request, however often they change while they are read and however long a
\* classification was cached. (Cache::evaluate, context_identity)
THEOREM NeverStale == Spec => []ReadinessIsNotStale
  <1>1. ASSUME IInv, NEW id \in Ids, Answer(id) = "ready", asked[id].kind \in Targets
        PROVE  /\ jobs.result.from = jobs.result.to
               /\ jobs.result.from >= asked[id].support
    <2>1. Fits(jobs.result, asked[id])
      BY <1>1, ReadyFits
    <2>2. jobs.result \in Page
      <3>1. jobs.result # None /\ jobs.result # Failed
        BY <1>1, AnswerIs
      <3>2. jobs \in JobSet
        BY <1>1, TypeParts DEF IInv, Typed
      <3> QED BY <3>1, <3>2 DEF JobSet, Outcomes
    <2>3. asked[id].support \in Nat
      <3>1. asked[id] # None
        BY <1>1, AnswerIs DEF IInv, LatestIsLast, Live, IsLatest
      <3>2. asked \in [Ids -> Ask \cup {None}]
        BY <1>1, TypeParts DEF IInv, Typed
      <3> QED BY <3>1, <3>2 DEF Ask
    <2> QED BY <1>1, <2>1, <2>2, <2>3 DEF Fits, Page
  <1>2. IInv => ReadinessIsNotStale
    BY <1>1 DEF ReadinessIsNotStale
  <1> QED BY <1>2, Invariance, PTL

\* A job that may still be answered could be answered before, and keeps an answer
\* it had. (Jobs::{queue,poll,cancel}, work_loop)
LEMMA LiveWasLive ==
    ASSUME IInv, [Next]_vars, owner' = "open", NEW id \in 1..jobs.nextId, Live(id)'
    PROVE  Live(id) /\ (jobs.result # None => jobs'.result # None)
  <1>1. Typed
    BY TypeParts DEF IInv
  <1>2. CASE Edit
    <2>1. /\ session'.revision = session.revision + 1 /\ session.revision \in Nat
          /\ jobs' = jobs
      BY <1>1, <1>2 DEF Edit, Typed, Session
    <2>2. jobs.latest # None =>
            jobs.latest.revision \in Nat /\ jobs.latest.revision <= session.revision
      BY <1>1 DEF Typed, JobSet, Latest, IInv, LatestIsLast
    <2> QED BY <2>1, <2>2 DEF Live, IsLatest, Outdated
  <1>3. ASSUME NEW kind \in Kinds, NEW retain \in BOOLEAN, Begin(kind, retain)
        PROVE  FALSE
    <2>1. BeginDoes(kind, retain)  BY <1>3, BeginEffect DEF IInv
    <2> QED BY <1>1, <2>1 DEF BeginDoes, Live, IsLatest, Typed, JobSet
  <1>4. ASSUME NEW job \in Ids, Poll(job) \/ Cancel(job)
        PROVE  FALSE
    <2>1. ClearDoes  BY <1>4, ClearEffect DEF IInv
    <2> QED BY <2>1 DEF ClearDoes, Live, IsLatest
  <1>5. CASE Drop
    BY <1>5 DEF Drop
  <1>6. CASE Take
    <2>1. TakeDoes  BY <1>6, TakeEffect DEF IInv
    <2> QED BY <2>1 DEF TakeDoes, Live, IsLatest, Outdated
  <1>7. CASE Publish
    <2>1. PublishDoes  BY <1>7, PublishEffect DEF IInv
    <2>2. worker.outcome \in Outcomes => worker.outcome # None
      BY PlaceholdersAssumption
    <2> QED BY <2>1, <2>2 DEF PublishDoes, Live, IsLatest, Outdated
  <1>8. CASE \/ SupportChanges \/ Join \/ SpuriousWakeup \/ Wait \/ Exit
             \/ EvaluateFindings \/ IdentifySupport \/ Collect \/ RecheckSupport
             \/ EvaluationFails \/ UNCHANGED vars
    <2>1. session' = session /\ jobs' = jobs
      BY <1>8 DEF SupportChanges, Join, SpuriousWakeup, Wait, Exit, EvaluateFindings,
                  IdentifySupport, Collect, RecheckSupport, EvaluationFails, vars
    <2> QED BY <2>1 DEF Live, IsLatest, Outdated
  <1> QED
    BY <1>2, <1>3, <1>4, <1>5, <1>6, <1>7, <1>8 DEF Next, Worker

RankOf(id) == IF Live(id) THEN IF jobs.result = None THEN 0 ELSE 1 ELSE 2

LEMMA RankIs ==
    ASSUME NEW id \in Ids
    PROVE  Rank(id) = RankOf(id)
  <1>1. Answer(id) \in {"ready", "failed"} <=> Live(id) /\ jobs.result # None
    BY AnswerIs
  <1> QED BY <1>1, AnswerIs DEF Rank, RankOf

LEMMA RankEverywhere == \A i \in Ids : Rank(i) = RankOf(i)
  BY RankIs

LEMMA RankEverywhereNext == (\A i \in Ids : Rank(i) = RankOf(i))'
  BY RankEverywhere, PTL

\* What a client learns of a job only moves forward. (Jobs::{queue,poll,cancel})
THEOREM OnlyMovesOn == Spec => JobsOnlyMoveOn
  <1>1. ASSUME IInv, [Next]_vars, owner' = "open", NEW id \in 1..jobs.nextId
        PROVE  Rank(id)' >= Rank(id)
    <2>1. id \in Ids
      BY <1>1, TypeParts, BoundsAssumption DEF IInv, Typed, JobSet, Ids
    <2>2. Rank(id) = RankOf(id)
      BY <2>1, RankIs
    <2>3. Rank(id)' = RankOf(id)'
      BY <2>1, RankEverywhereNext
    <2>4. Live(id)' => Live(id) /\ (jobs.result # None => jobs'.result # None)
      BY <1>1, LiveWasLive
    <2>5. RankOf(id)' >= RankOf(id)
      BY <2>4 DEF RankOf
    <2> QED BY <2>2, <2>3, <2>5
  <1>2. IInv /\ [Next]_vars =>
          [owner' = "open" => \A id \in 1..jobs.nextId : Rank(id)' >= Rank(id)]_vars
    BY <1>1
  <1> QED
    BY <1>2, Invariance, PTL DEF Spec, JobsOnlyMoveOn

=============================================================================
