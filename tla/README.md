# Realmz Providence: formal models of the shared project host

Realmz Providence is an editor for Realmz scenarios. Its core is a Rust workspace; the
windows an author sees are written in Godot, and assistants reach the same project through
an MCP server. All of them edit one *project* through one *host process*, and this
directory holds TLA+ models of the parts of that system whose correctness depends on order:
who may write, what a crash leaves behind, and what a client may be told. TLC checks the
models on small instances; TLAPS proves their safety properties, and that four of them
implement abstract specifications, for every value of the constants.

`PROJECT.json` lists the components, runs, mutants, hazards and theorems, and maps every
definition to the source lines it was translated from. Paths below are relative to
`src/crates/` unless they start with `src/`; `nad` stands for `providence-native-adapter/src`,
`sto` for `providence-storage/src`, `core` for `providence-core/src`.

## 1. The system

```
 Godot editor windows      assistants (MCP)        viewers
   |  native  | native-control   | mcp              | observer
   v          v                  v                  v
 proxy     proxy              proxy              proxy     one process per connection
   \__________|__________________|________________/
                    local socket, one frame per request
                              v
      host process: one event loop (shared_host.rs serve)
        State      clients, holds, pause, permit intent, receipts gate, change sets
        jobs       per connection: validation, import; export jobs of the host
        session    the live EditorSession: content, revision, undo, redo
                              v                                   v
      project directory: portable snapshot, blobs,      the user's directory, shared by the
      SQLite, receipts, export journal, writer lock     hosts of all projects: My Library
```

A host takes one event at a time from its queue: a request of a connection, or the end
of a connection. So handlers never interleave with each other. What does interleave is
everything around them: the order of events of different connections, worker threads,
several durable writes inside one handler with a crash between any two of them, requests
sent again because the reply was lost, other hosts that race for the same project or share
the same library, and a successor process that knows only what is on disk.

### Components

| Component | State | Operations | Interacts with | Module |
|---|---|---|---|---|
| Coordination of editors and assistants (`nad/shared_host/{state,controls,control_connections,collaboration,holds,support_change}.rs`) | client table, editing holds in memory and on disk, pause, permit intent | attach, bind a control socket, disconnect, report draft, grant permit, pause, release hold, detach, external and native writes | session (revision), hold file, every client | `Collaboration` |
| Connected editor window (`src/godot/src/collaboration_session.gd`) | step of its synchronization, typed text, input freeze, last status, session view's revision, mark of the visible document | report, freeze, settle, permit, wait, refresh, show, fail, lose the stream, reopen | coordination | `ConnectedEditing` |
| Operation receipts (`nad/shared_host/{receipts,recovery,rejections}.rs`, `nad/transport.rs`) | one receipt file per operation, the gate against writes | begin, execute, finish, replay, reject stale, reconcile, load the gate | session, checkpoint, journal | `OperationReceipts`, `OperationLedger` |
| Editing session and durable checkpoint (`core/session.rs`, `sto/{project_checkpoint,session_history,history_checkpoint,checkpoint_reuse,blob_retention,database,project_open}.rs`) | content, revision, bounded undo and redo; portable snapshot; project blobs; local history blobs; SQLite row | edit, import, undo, redo, save; the steps of a checkpoint; two prunings; open | receipts (what is acknowledged), change sets | `ProjectCheckpoint`, `DurableProject` |
| Prepared change sets (`nad/shared_host/changes.rs`, `core/session/authoring_stage.rs`) | a bounded cache of stages | prepare, commit, expire | session, blobs, paint resources | `ChangeSets` |
| Validation and readiness jobs (`nad/validation_jobs.rs`, `nad/diagnostic_cache.rs`) | latest job, one queued job, result, worker, cache | begin, poll, cancel, drop; the worker's loop | session, support files | `ValidationJobs` |
| Scenario import jobs (`nad/scenario_import/jobs.rs`, `nad/shared_host/retired_jobs.rs`) | current job, its flag and result, worker, staging directory | begin, status, cancel, commit, drop | session, other connections | `ImportJobs` |
| Export jobs (`nad/shared_host/export_jobs*`, `providence-publication`) | records in memory, a journal, worker threads, destination and backups | begin, poll, cancel, publish, replace, restore, reconcile | the file system, foreign programs | `ExportJobs` |
| Host startup, proxy, writer lock (`nad/shared_host.rs`, `nad/shared_host/{host_startup,proxy,poison}.rs`, `sto/writer_lock.rs`) | writer lock, endpoint descriptor, startup replies, phase of each host | look, probe, launch, attach, serve, retire, panic, drain, crash | every process | `HostStartup` |
| My Library (`sto/personal_library.rs`, `core/personal_library*`) and the ledger of authoring operations (`sto/monster_operations.rs`, `nad/monster_operation_receipts.rs`) | manifest with history, writer lock, one receipt file per operation | reserve, apply, undo, redo, complete, prune, look up | the hosts of all projects | `PersonalLibrary`, `SharedLibrary` |
| Monster Library, paint resources, Save As, backup, migration; codecs and compilers; domain model, validation rules, discovery; preview; publication tools; application library; CLI; MCP server; other UI | | | | not modelled, section 7 |

### What makes each component correct

* Coordination: an assistant never writes over an author's unsaved draft. Every native
  editor must have consented since it attached, also when a crash made the host forget the
  pause, and an editor that vanished must stay on record until somebody says otherwise.
* Editor window: while an external write lands, its input is held and nothing typed is
  pending; before it accepts input again it has shown what was written, or knows that its
  document is old, whichever of its requests failed; and it thaws.
* Receipts: an operation sent any number of times happens at most once, and nobody is told
  two different stories about it. An operation with an unknown outcome stops all others.
* Checkpoint: whatever the moment of a crash, the project opens on the acknowledged
  content or on the command in hand, with the history belonging to that content, and
  pruning never deletes a blob that something still needs.
* Change sets: what is committed is what was previewed, or nothing.
* Jobs: a result belongs to the request that asked for it and to the revision it was
  computed from; a cancelled or stale one never acts; threads and staging end.
* Exports: nothing that was at a destination is lost, and the journal tells the truth.
* Startup: one host writes a project, the descriptor leads to it, and every attach ends.
* My Library: hosts that know nothing of each other lose no change, and the library they
  leave can always be read.

### Which behaviours are hard

`PROJECT.json` "hazards" names each of these at its line. In short: a crash between two
durable writes of one command; replies lost and requests sent again; control sockets of
one editor that attach and close out of order; permits granted for a revision that passed,
and text typed while a report is on its way; SQLite falling behind with only a warning;
history moved forward by comparing lengths only; two prunings with different retention
sets; previews that outlive what they were computed from; a worker's late result; support
files changing while they are read; a lost wakeup; a job made stale by somebody else's
edit; an artifact that changes between its hash and its move; a descriptor taken away from
one's successor; proxies that fail each other's hosts; receipts pruned by one process and
appended to by another; history entries dropped under an undo.

## 2. Modules

Every module has its state as VARIABLES, one action per handler or per durable step, and
its properties at the end. A definition *"Mutated form of X"* is a plausible bug in X: it
is not part of the specification, and the run that names it in `PROJECT.json` must fail
when it replaces X. `MC` modules only give constants their values and symmetries.

### Collaboration

One action is one handler of `State`, with all its calls: `AttachNative` includes taking
over the old client or hold of the same editor, the pause and the write of the hold file.

| Model | Code |
|---|---|
| `clients`, `ClientState` | `State.clients`, the fields the handlers test |
| `held`, `holdFile`, `Persist` | `Holds.disconnected`, the `editing-holds.json` file, `persist_holds`; above `HoldLimit` rows the file is not written and the request fails after memory has changed |
| `paused`, `intent` | `Coordination`: the pause and the one pending external write with its permits |
| `spent` | connection numbers are never reused by one host process |
| `refused` | editors whose attach ended with the hold-limit error; the proxy of such an editor only closes its connection |
| `Crash`, `Start` | the process dies; another opens the project, reads the hold file, is unpaused, and has no clients |
| `IntentExpires` | the 15 s expiry, which may happen at any time |
| `awaiting` | history only: editors whose consent is outstanding |

### ConnectedEditing

EXTENDS `Collaboration`: a window's requests are that module's actions, so host and window
are one state machine. A window steps through `idle`, `report`, `freeze`, `settle`,
`permit`, `wait`, `refresh` and `show` as `_synchronize` and `_permit_write` do. `seen` is
the status it acts on, which may be old by the time it does; `text` is what was typed and has
not been applied. A draft report is two steps, sending and response, because the author
types in between; other requests are one. Time is counted in ticks, only for the two
limits that must be ordered: the host keeps an intent for `HostLife` (15 s), a window waits
`EditorWait` (17 s).

The refresh after a write has two parts, and may fail at either. `Refresh` describes the
session: a window with a draft marks its document and keeps all else; any other adopts the
revision (`base`, which its commands name from then on) and marks its documents (`stale`)
*before* it reads the visible one, in `Show` (`ReadsDocument` takes the mark away). Between
the two the window names a current revision over an old document. `RequestFails` ends any of
the steps that ask the host for something; as in the code input is released all the same, and
what was not read stays marked until the next change or the author leads the window to it
(`ShowsAgain`). `LoseStream` breaks the connections with the outstanding request taken or not
(`MayHaveTaken`), and `Reopens` is the activation of the session on new ones, whose first read
may fail too; until the host has handled the disconnection such a window is no longer asked.
`lastRead` and `gaveUp` are history: whether the visible document was read after the last
external write, and which windows' polls failed while the host held their permit.
`Unsteady` bounds which windows may fail at all. The composition starts with the windows
attached, each with connections of its own and none with the external client's
(`ConnectionsAssumption`).

### OperationReceipts and OperationLedger

The life of a mutating request, one durable step at a time: `ReceiveStale`/`ReceiveCurrent`
(receipt written), `Dispatch` (session changed), `WriteSnapshot`, `RecordSession`,
`CheckpointFails`, and the three ways to finish; `Replay` for an operation already known,
`Reconcile` for one whose outcome is unknown, `Crash` anywhere, `Reopen`. Content is
modelled as the set of operations in effect, which makes "happened" visible, and an undo
entry is named by the operation it reverts. `writes`, `told` and `stale` are history.

`OperationLedger` is what the receipts promise to a client that loses replies and sends
again: an operation is accepted once, changes the project at most once and only while it is
the only undecided one, is decided once and truthfully, and every answer but "unknown" is
that decision. `OperationReceipts!KeepsTheLedger` is the refinement. A decision is read off
the receipts (`Fates`), the ledger's project is the portable snapshot, so an operation
changes it when the snapshot is replaced; the request in hand, the live session, the
journal, the gate and the deaths of hosts disappear. The ledger has to know which operations
expected revision 0 (`first`): for these alone "no-project-change" may be wrong, finding 1.

### ProjectCheckpoint and DurableProject

`ProjectCheckpoint` has the session commands with `Push` for the bounded history;
`StoreHistory` (segmented or incremental, `Successive`, `Transfers`, `Appends`),
`WriteSnapshot`, `RecordSession` or `RecordFails`, `PruneLocal`, `PruneProject`;
`CheckpointFails` at any step, `Crash`, and `Open`, which restores the stored session only
if its digest is the snapshot's and all its entries can be read (`Loadable`). A content
stands for a normalized snapshot together with its digest and the project blobs it names.
`acked`, `attempt` and `recorded` are history.

`DurableProject` is the promise without any of the machinery: a command takes effect as a
whole or not at all, an answered one has taken effect, and revision and history are used
only beside the content they belong to. `ProjectCheckpoint!KeepsItsPromise` is the
refinement: content, session and the stored manifest map to it, pruning and the order of
the durable writes disappear.

### ChangeSets

EXTENDS `ProjectCheckpoint`. `Prepare` stores the payloads of a stage right away, and no
pruning knows them; `Commit` takes the stage out of the cache, compares the revision and the
revision of the paint resources (which it may fail to read), and becomes an edit whose
payloads are *not* stored again, so `WriteSnapshot` may find them gone and the checkpoint
fails as a whole. `Plain` contents are those whose blobs any checkpoint encodes again.
`paint` is the file of paint resources, its contents and the revision that counts their
changes; the session's revision does not move with it. A stage's `stamp` has both, the code
keeps the revision.

### ValidationJobs

Requests and the worker's visits to the shared state are one step each, because the mutex
is held throughout; the evaluation between them is several steps (`EvaluateFindings`, or
`IdentifySupport`, `Collect`, `RecheckSupport`), so support files can change in between.
The condition variable is modelled with its real semantics: a notification reaches a
waiting thread only, and a wait may end without one. `Answer(id)` is what a poll would say
in a state, so the properties speak of every possible poll without a reply variable.

### ImportJobs

`Begin`, `Cancel`, `TurnStale`, `Commit` with its two failing forms, against the worker's
`Work`, `Finish`, `Leave` and the connection's `Disconnect`, `Retire`. `Staged(job)` says
whether the staging directory exists: owned by the worker, or part of the prepared result.
Several connections share the session; that is how one import makes another stale.

### ExportJobs

The host's `Begin`, `Poll`, `Cancel` and `Reconcile` against a worker thread that compiles,
checks the cancel flag, announces `publishing` in the journal, publishes exclusively or
replaces: verify the hash, move the original to its backup, record it, swap, or restore when
something failed. A restoration may fail, on a vacant path too; every journal write may
fail, a worker may panic, the host may stop or crash, and a foreign program may put
something at the destination at any moment. All jobs share one destination, where they also
meet each other.

### HostStartup

A proxy looks for a descriptor, asks the host it names, or probes the writer lock and
launches a host; a host opens the project (and its lock), saves the descriptor, reports,
serves, retires with its last client or after an unknown outcome, or is poisoned by a panic
and drains. The lock, the descriptor and the startup replies are the only things they share.
Time is absent: any patience may end when its guard allows.

### PersonalLibrary and SharedLibrary

A command is reserved in the ledger (`Submit`), takes the SQLite lock without waiting
(`Lock`), reads (`Load`), is applied and replaces the manifest (`Persist`) or is rejected,
then completes its receipt and prunes the oldest (`Complete`, `Prune`), and is answered or
its reply is lost. Two hosts do this at once; each may die at any step; an append may be
torn; a pruned receipt is gone, so a late copy of its command is admitted again and has to
fail by its revision. The library is one asset and one collection, which is enough for
every kind of history entry and for the one dependency between them. `Opens` walks both
chains as `load_manifest` does. `intent`, `told`, `applied` and `pruned` are history.

`SharedLibrary` has no hosts: there is one library, an operation changes it at most once and
at the revision it expected, and as long as its receipt is kept it has one outcome, a true
one, after which it changes nothing more. An operation whose receipt was pruned may be sent
again, and then "not-committed" speaks of that delivery only.
`PersonalLibrary!IsOneLibrary` is the refinement, in which the library is the manifest; the
commands and what they make of a library are parameters.

### How they fit together

`Collaboration` sees a write as a new revision and an effect on permits, and
`ConnectedEditing` adds the windows; `OperationReceipts` sees the same write as receipt,
session and snapshot, without clients; `ProjectCheckpoint` opens up the steps that
`OperationReceipts` calls "snapshot" and "recorded", and `ChangeSets` adds a second way to
an edit. Jobs see the session only through its revision and content. `HostStartup` gives
the one fact all of these rest on: one host at a time. Modules that share variables are
composed by EXTENDS; the others share none and are separate specifications.

## 3. Runs

| Run | Question | Result |
|---|---|---|
| `collaboration` | Is an assistant's write accepted only with the present consent of every editor, and can an editor vanish silently? | passes |
| `connected_editing` | Can an external write land while an author types, a failing request leave a window with an old document it takes for current, or stay frozen? | passes, with liveness |
| `receipts` | At most once, truthful receipts, gate, durable served state; is the whole a ledger that decides each operation once (refinement)? | passes |
| `checkpoint` | Does the project with its change sets keep its promise (refinement), resume faithfully, and commit what was previewed? | passes |
| `validation_jobs` | Own pages, fresh readiness, forward-only answers, no lost wakeup | passes, with liveness |
| `import_jobs` | Nothing overwritten, no commit after cancel, nothing left behind | passes |
| `export_jobs` | Nothing lost, truthful journal, authorized replacement, an outcome for every job | passes, with liveness |
| `host_startup` | One session, a descriptor that leads to it, a winner of every race, an end of every attach, release after a panic | passes, with liveness |
| `personal_library` | Can hosts that share My Library lose or repeat a change, answer falsely, or write a library that cannot be read? | passes |
| `fabricated_result` | "Reconciliation never ... fabricates its result" | violated, finding 1 |
| `settled_staging` | "Cancelled jobs report `settled` when their owned staging is gone" | violated, finding 2 |
| `slow_start` | "keep waiting while it has not reported success or failure" | violated, finding 3 |

### Bounds, and why they are enough

* `collaboration`: three editors of which two fit the hold file, so the limit is exceeded
  also with a hold from before a crash; four connections, which are an editor, two of its
  control sockets and an assistant; two distinct writes, one revision step. Numbers are
  reused after a restart, so any number of crashes is covered. Editors and writes are
  symmetric.
* `connected_editing`: two windows, one with a control connection at first and one without,
  an external client with two writes, and two more connections, for the second window's
  control and for the first window to reopen with. The first window is the one whose
  requests and stream may fail, any number of times; the second shows what a failure does to
  a steady neighbour. One and two ticks are the shortest times in the right order.
* `receipts`: three operations, a journal of one row so that rows are lost, and revisions
  up to 3, so that a session reset to revision 0 can catch up with an operation's expected
  revision, which is where reconciliation could confuse them.
* `checkpoint`: two contents, one of them with payloads of its own, a history of two
  entries and pruning at every second revision, so that the history overflows, both prunings
  run and contents recur at different revisions; a cache of one preview, so that it
  overflows, and two changes of the paint resources between two collections, so that they
  can be changed and changed back.
* `validation_jobs`: two requests around one edit and one change of support files: a
  result can be late, queued work can be replaced before it is taken, a cache can be
  reused and be stale.
* `import_jobs`: two connections with two jobs each, one cancellation checkpoint inside a
  preparation, one edit besides the commits.
* `export_jobs`: two jobs at one destination, with or without a replacement, one artifact
  there at first, one foreign artifact, and one fault (a crash, a panic or a failed journal
  write) at any step.
* `host_startup`: two proxies of one editor, so each is refused while the other is
  connected, with the hosts they launch, and one fault. `slow_start` needs none.
* `personal_library`: two hosts, three deliveries of up to three operations, one death, a
  history of two entries and one retained receipt: a change can be resent after its receipt
  was pruned by the other host, and three edits overflow the history. Clients submit at the
  revision they have just read (`MaxLag` 0); a resend or a lost race makes it old.

Deadlock is not checked where the system stops by design: when connections are gone
(`validation_jobs`, `import_jobs`), when nobody attaches any more (`host_startup`), when all
jobs have ended (`export_jobs`), when the external client has no writes left
(`connected_editing`), and when the deliveries are used up (`personal_library`).

In the code the limits are 64 hold rows, 64 history entries, a prune interval of 64, 256
journal rows, 8 previews, 128 library history entries and 256 retained receipts; the models
take them as constants, and nothing depends on their size.

### Fairness

* `ValidationJobs`: weak fairness of the worker thread's own steps and of the join in
  `Drop`. The operating system runs a thread that can run, and an evaluation reads a
  snapshot and a finite set of files. Nothing is assumed of clients, of edits, of the
  support files or of spurious wakeups.
* `ExportJobs`: weak fairness of each worker, of the join of a stopping host and of its
  successor's start; strong fairness of `Reconcile`, which is the poll of a client: it comes
  again and again, but the host may be down whenever it would.
* `HostStartup`: weak fairness of what a process does by itself and of the host's events;
  strong fairness of giving up, because a proxy whose patience is over may keep being
  distracted by descriptors that come and go. It is not assumed that a client ever leaves.
* `ConnectedEditing`: weak fairness of a window's synchronization, of the host's expiry and
  of time. Authors and external clients owe nothing, and may renew requests for ever.

The other specifications state safety only; the host promises no progress while an outcome
is unknown (`src/docs/mcp/README.md:172`).

## 4. Properties

Coordination and windows

* `ConsentBeforeExternalWrite`: no external write between an editor's attach (or its
  pause) and its consent, across crashes that reset the pause.
* `NewestControlOnly`: only the last accepted control socket of an editor can report for it.
* `EditorLeavesOnlyExplicitly`: no editor disappears except by its own detach or a
  confirmed release.
* `WrittenWhileInputIsHeld`: when an external write lands, every connected window holds its
  input and has nothing typed, in a draft or in a control that has not settled. The
  exception is a window whose poll failed while the host had its permit (section 5).
* `NoExternalWriteIsMissed`: a connected window that accepts input has read its document
  since the last external write, or a failure kept it from that, and then it can still tell:
  the document is marked, or its revision is behind the session's.
* `EveryFreezeEnds`: a frozen window thaws, whatever clients and other windows do.

Receipts

* `AtMostOnce`, `SettledTruthfully`, `ServedStateIsDurable`, `GateMatchesDisk`.
  `SettledTruthfully` leaves out `no-project-change` at expected revision 0, which is
  finding 1.
* `KeepsTheLedger`: the refinement of `OperationLedger`; it implies that no two definite
  answers about an operation differ (`RepliesAgree`).

Checkpoint and change sets

* `KeepsItsPromise`: the refinement of `DurableProject`.
* `StoredFollowsSession`: a history advanced by lengths alone never drifts.
* `ReopenIsFaithful`: a reopened project shows the acknowledged content or the command in
  hand, with the history that belongs to it.
* `PreviewedIsCommitted`: a commit starts from the very session that was previewed.
* `StampIsCurrent`: a saved stamp is placed only as the project has it at the commit,
  although only revisions are compared and the collection may have been changed and
  changed back since the preview.

Jobs

* `ReadyPagesAreTheirOwn`, `ReadinessIsNotStale`, `JobsOnlyMoveOn`, `EveryJobIsSettled`.
* `ImportOverwritesNothing`, `CancelledNeverCommits`, `DismissedStagingIsGone`,
  `GoneLeavesNothing`.
* `ArtifactsAreKept`, `CommittedTruthfully`, `ReplacedAsAuthorized`, `TakenIsPutBack`,
  `CancelledInTimeNeverPublishes`, `OutcomeIsFinal`, `EveryJobHasAnOutcome`.

Startup

* `DescriptorLeads`, `OneSession`, `AttachesToTheWriter`, `StartupHasAWinner`,
  `EveryAttachEnds`, `PoisonedHostReleases`.

My Library

* `NoChangeIsLost`: each command changed the very library the one before it left.
* `AnswersAreTrue`: no definite outcome, in a reply or a receipt, is false.
* `ManifestAlwaysOpens`: what is written can be read, after any edits, undos and redos.

Each property of a run has a comment with its meaning and the code it is about, and a
mutant that violates it in the same run. Several more are proved and not run any more,
because the proof says all that a run would: the type invariants, `HoldFileCurrent`,
`OwnersUnique`, `PermitsAreCurrent`, `ReceiptsAreFinal`, `UnresolvedBlocksWrites`,
`RepliesAgree`, `RootsAreComplete`, `SessionIsComplete`, `ServedContentIsDurable`,
`AppliedAtMostOnce`. The refinement `IsOneLibrary` is one of them too: the instance of
`personal_library` satisfies it as a PROPERTY, but takes twice its time to do so.

## 5. Findings

1. **A recovered operation may be reported as having changed nothing.** A project whose
   local session cannot be restored restarts at revision 0. An operation that expected
   revision 0 and died between the snapshot and the SQLite record then matches "the
   revision is still the expected one" (`nad/shared_host/recovery.rs:62`), and is answered
   `no-project-change` while its change is in the snapshot. `recovery.rs:1` promises not to
   fabricate a result.
2. **A stale import is settled before its staging is gone.** When a status request finds
   another revision it sets the cancel flag but keeps the prepared result
   (`nad/scenario_import/jobs.rs:165`). The next status says cancelled and settled, while
   the staging directory lives on until an explicit cancel, another begin or the end of
   the connection. `src/docs/mcp/README.md:83` says settled means it is gone.
3. **A proxy may give up the host that has just started for it.** A launched host is
   granted 60 s only until its startup reply is there; then the limit is 5 s from the start
   of the attach again (`nad/shared_host/proxy.rs:113`). A host that took longer reports
   success between two looks, and the proxy fails without looking once more.

Observed while modelling, without a run of their own:

* *A cut-off rejection cannot be settled.* `reject_stale` writes a pending receipt and then
  completes it (`nad/shared_host/rejections.rs:14`). After a crash between the two, the
  receipt expects a revision that is not the present one and no journal row names it, so
  reconciliation cannot answer and writes stay blocked, although `rejections.rs:1` promises
  a durable witness. `OperationReceipts!LostRejectionHasWitness` states the promise; as an
  INVARIANT of the instance of `fabricated_result` it is violated.
* *A window may wait on for somebody else's write.* After its permit a window waits until
  no write is pending (`src/godot/src/collaboration_session.gd:110`), while the comment
  says until "that exact write" settles. If another external client asks within the 50 ms of
  the poll, the window stays frozen without granting the second write until its 17 s are
  over, and the second client, which retries for 12 s, gives up first. Both freeze and
  permit end (`EveryFreezeEnds`), so it is a delay.
* *A failed poll gives the lease back before the host does.* When a poll of the permitted
  write fails, the window releases its input (`src/godot/src/collaboration_session.gd:90`),
  while the comment at line 111 says the lease is retained "until that exact write settles or
  its permit expires". The host still counts the permit, so the write may land while the
  author types; the draft is kept, and an Apply of it is refused by its revision. This is the
  exception of `WrittenWhileInputIsHeld` (`gaveUp`).
* *An old document under a current revision.* `refresh_external` adopts the session's revision
  and then reads the document (`src/godot/src/history_workspace.gd:63`). When the read fails,
  input is released over the old document. Its mark survives (`NoExternalWriteIsMissed`), but
  a command of that window names the current revision and passes the host's revision check. A
  simple encounter applied then (`src/godot/src/encounter_authoring_controller.gd:106`,
  `core/session/simple_encounter_commands.rs:57`) is not compared with what it was edited
  from, unlike strings, which name the text they expect. The window's next look at the
  document reads it, unless a draft was begun before.
* *The Monster Library has no coordination.* Hosts of two projects open the same one and
  keep it in memory; each change rewrites the whole catalog (`sto/monster_library.rs:97`)
  without a lock or a comparison of revisions, so the later write drops what the other host
  acknowledged. My Library, beside it, has both.
* A `commit` of a failed import takes the error out of the job, and status then answers
  `running` for a worker that has ended; the staging directories of a host that died are
  never removed; an operation left unresolved at a revision above 0 stays so when the
  session could not be restored; a command of the library's ledger that is delivered twice
  is refused as "not submitted" although its original may have been committed, so a client
  has to ask for the original outcome, as the editor does.

## 6. Proofs

Eight modules `...Proofs` hold the theorems; tlapm checks every leaf. The only assumptions
are the ASSUMEs on the constants, named in the modules: bounds and limits are naturals
(positive where the code's are), placeholders such as `NoOwner`, `NoOp`, `NoJob`, `NoHost`
and `None` are not among the values they are distinguished from, the windows of
`ConnectedEditing` begin with different connections, and a window waits longer than the host
keeps an intent (`WaitAssumption`). The theorems hold for any number of clients, windows,
operations, jobs, hosts, revisions and faults.

Most proofs have the same shape. For each action a definition `XDoes` says pointwise what
it does, a lemma `XEffect` derives it from the action, and a lemma per action shows that
every part of the invariant survives; data lemmas about sequences and records come first.

**Collaboration.** `TypeCorrect` first. `HoldFileIsCurrent` is nearly inductive: steps are
split (`QuietOrLoud`) into those that leave the rows alone and those that persist them.
`ConsentRespected` needs `ConsentInv`, which follows an outstanding consent through a
crash: such an editor is on file; in a live host it is a native client or a hold; and once
the host is unpaused it is a hold, which is what the write's guard looks at.
`EditorsAreUnique` needs the same uniqueness of the file (`UniqueFile`), since a restart
reads it back, and `DownIsEmpty` for the time between. `PermitsStayCurrent` needs
`DownHasNoIntent`, and goes through `IntentKept`: a step either withdraws the intent or
leaves what vouches for it as it was. `EditorsLeaveExplicitly` needs no more than the types:
each action is compared with the rows and holds it leaves. `OnlyNewestReports` is about the
order of control sockets, and its property alone is not inductive: a socket that closes and
one that attaches late leave the table in states from which it could be broken.
`ControlsInOrder` adds that an editor's high-water mark bounds every control connection of
it, a disconnected one too, that a connected one is at the mark, and that no control
connection names an editor which has yet to attach, because numbers are not used twice.

**ConnectedEditing.** Its theorems are in `CollaborationProofs`. `WindowsTalkToTheHost`:
every step of the composition is a step of the host or leaves it alone, so what the host's
steps preserve holds in the composition; its initial state is another one and has to be
shown good (`FirstClients`). With it `ConnectedConsent` repeats `ConsentRespected` for a host
with windows. The windows need `ConnectedInv`: the host still knows an open window by its
native connection (`ClientsKnown`); a window that has asked for a permit or waits holds its
input with nothing typed (`InputHeld`); a window that owes its author an external write is on
its way to read it with its input held, and one that missed a write for a failure has its
document marked or is behind the session (`WindowInv`); a permit in an intent is of a window
that waits and has waited no longer than the intent has lived, or the intent's time is over,
or the window's poll failed (`PermitsHeld`). The last is where 15 s and 17 s matter:
`HostLife < EditorWait` is used there and nowhere else. `ExternalWritesAreNotMissed` and
`WritesFindInputHeld` follow, for any set of windows that may fail.

**OperationReceipts.** `Pending`: the request in hand has an unsettled receipt, so finishing
it rewrites nothing final. `Once`: an operation without a receipt never wrote, and the one
in hand not before its snapshot. `GateInv`: the gate is what is unresolved on disk, without
the request in hand. `Durable`: except between a command and its snapshot the live content is
the durable one. `Replies`: every settled outcome told is the one on disk.

`SettledReceiptsAreTrue` is the hardest of these, because reconciliation concludes from
revisions what happened. `Effective`: whatever is in effect, in a history or in the journal
has written, so a journal row proves that its operation did. `StoredIsEarlier` and `Moved`:
a session moves on from the stored one, one revision and another content per command, so a
stored session is restored only if no snapshot was written after it. `OrphansAreAhead`: no
session a host can have, now or after reopening, stands at the revision that an unanswered
operation expected, if that operation wrote and the revision is not 0; only from there could
it be taken to have changed nothing. Revision 0 is where this fails, which is finding 1.

`ReceiptsKeepTheLedger` maps every step to one of `OperationLedger` or to a stutter. Its
invariant `LedgerInv` has all the parts above and `Ready`: what a command has made of the live
session is what its snapshot will make of the project, the addition of the operation itself
or of an operation that once wrote, or the removal of one.

**ProjectCheckpoint and ChangeSets.** `IInv` adds to completeness of the roots four parts.
`HistoryIsComplete`: the blobs of a live session's undo and redo are there, and those of its
content too unless a command has just changed it. Without change sets more would be true, but
a commit of a prepared change set may find its payloads pruned, and the weaker part is
inductive for both specifications. `Life`: a checkpoint is in progress only of a live
session. `Progress`: how far a checkpoint has come; first the manifest is the session's, then
the snapshot, then the record. `Lineage`: the stored session is never ahead of the live one;
at equal revisions it is the live one, and at neighbouring ones it is one command away. From
these follow `RootsStayComplete`, `SessionStaysComplete`, `StoredNeverDrifts`,
`ServedIsDurable` and, with the map of each step to a step or a stutter of `DurableProject`,
`Refinement`. `ReopeningIsFaithful` adds `Recall`: what is on disk is the acknowledged session
or the one in hand, never a mixture.

Under `ChangeSetsSpec` a step is one of the above, a preparation, which only adds a blob, or a
commit, which is an edit but for its blobs (`ChangeSetsSteps`); so the same parts survive
(`RootsSurviveChangeSets`, `CommittedIsDurable`, `StoredFollowsCommits`,
`ReopeningAfterCommits`), and `ChangeSetsKeepThePromise` maps preparations to stutters and
commits to commands of `DurableProject`. `CommittedIsPreviewed` needs `Previews`: every stage
was begun from the live session or from one of lower revision since the project was opened,
so an equal revision is an equal session, history included. It says the same of the paint
resources a stage's stamp was taken from (`StampFits`), which survives reopening because the
cache does not, and from which `CommittedStampsAreCurrent` follows.

**HostStartup.** `LockIsHeld` ties the writer lock to the phases in which a host has it;
`DescriptorLeads` is inductive beside it, because every host that writes or removes the
descriptor has the lock. `LaunchIsFirst`: a proxy that probes or is about to launch has not
launched yet. `AsksAreTheirs`: an unanswered attach request is of a proxy that waits for just
this host, or is dead. `ReportsAreTrue`: startup replies are of launched hosts, and a host
with the lock has not reported a failure. `SomebodyMayWin` is the argument behind
`SomebodyWins`: unless something else went wrong, there is a launched host that has not
failed, or a proxy that found the lock free and has yet to launch its own.

**ImportJobs.** `OnlyTheCurrentRuns` (older workers have ended), `DismissedIsOver` (a
dismissed job is closed, and its worker finds out before it stores a result), `GoneIsJoined`
(jobs are dropped after their worker was joined), and `BaseIsOfItsRevision`, by which a
revision that still fits is a content that still fits.

**ExportJobs.** `Traces`: a running job has its record and its journal row and is not
joined, and one without a row left no trace. `Records` ties a worker's place to the record in
memory and the journal. `Published`: a job is published by the worker that announced it, and
known to be from then on. `Backups`: a backup is taken once, of the artifact that was
authorized, and a failure leaves none unless it says so. `Dismissals`: a job dismissed in
time keeps its flag, which it meets before it may publish.

**ValidationJobs.** `LatestIsLast`, `WorkIsAsked`, `CacheIsOfItsSession`, `OutcomeFits` and
`ResultFits` follow a request from the queue through the cache to the page; the history
variable `asked` says what each job was asked.

**PersonalLibrary.** `LockIsHeld` (a host that has the lock has read what the manifest
holds), `OnlyTheSubmitted`, and `OneHostKnows`: while its receipt is kept, an operation is
in the hands of one host at most, nothing has happened to it before its transaction, and
what the host is about to answer is so. `EveryChangeIsKept` says that the n-th persisted
command expected revision n - 1, from which `ChangedAtMostOnce` follows at once.
`HostsAreOneLibrary` maps every step to one of `SharedLibrary` or to a stutter; beyond the
invariant it needs `SaysWhatWasDone`, which holds of forgotten operations too: a receipt
belongs to a request, and "committed" is never wrong.

`ManifestStaysReadable` is about chains of entries of any length, which the code walks to
their ends. Its invariant `Sound` says that each chain `Leads` from the library's content: there
is a sequence of contents with every entry fitting where it is applied. That is kept by
appending, by popping the last entry and by dropping the oldest; an edit can be taken back
(`EditsAreTakenBack`), and an entry that was applied can be applied the other way round
(`EntriesTurnAround`). That the contents of `Leads` are those the recursive `Walk` computes
(`LedIsWalked`) is an induction over numbers, done by least counterexample: from
`WFMin` and the well-foundedness of `<` of the library every set of numbers that is not empty
has a least one (`LeastNumber`). So induction is within reach as long as it is about a set;
the library's theorems that take an operator are not.

**Checked by TLC only.** The liveness properties `EveryFreezeEnds`, `EveryJobIsSettled`,
`EveryAttachEnds`, `PoisonedHostReleases` and `EveryJobHasAnOutcome`: fairness involves
ENABLED, which is beyond the prover.

## 7. Not modelled

* **Inside the modelled parts.** Read-only status controls, tokens and version handshakes,
  the pinning of support inputs, the MCP import policy of a new project, the layout of
  history segments, packing of blobs and the memory of the last verified checkpoint (which
  change how bytes are found, not which), progress counts, paging of results, and the
  content of any command. A host serves one project for its lifetime, so comparisons of
  project id and root inside jobs never differ and are not modelled. Of the editor window,
  the documents that are not visible and what each kind of document reads, the cursor of
  local resources, the recovery reads after a lost reply, the loss of the control connection
  alone (`reconnect_project` of `native_bridge.gd` is never called), project creation and
  Save As.
* **Paint resources.** A change and its receipt are one atomic replacement of one file under
  one lock, and only the host of the project writes it: nothing can come between. Its
  revision and contents are `paint` in `ChangeSets`.
* **Monster Library.** See section 5; within one host its session is that of the project
  over other data.
* **Save As, snapshot backup, migration.** Sequential copies into a fresh directory.
* **Domain model, authoring rules, discovery, smart terrain, codecs, compilers.** By far the
  most lines of the repository: pure functions over large records and byte formats, outside
  the reach of small domains. In the models their results are contents and commands.
* **Preview, publication tools, application library, CLI, MCP server, user interface.**
  External programs, file installation, offline builds and presentation. An assistant is an
  `mcp` connection in `Collaboration` and a source of requests in `OperationReceipts`.
* **Storage faults below the file system.** A completed atomic replacement and a committed
  SQLite transaction are durable; files are not corrupted between uses.

Hazards of the code that no property covers, because the code promises nothing there: a
receipt still pending when its operation is sent again ends the host as outcome unknown;
staging directories of a dead host stay; and the two observations of section 5 that
`PROJECT.json` lists with a note.

What could come next: abstract specifications of an export (one artifact moved to its
destination, or none) and of an import, `DurableProject` in the place of the session inside
`OperationReceipts`, and the window's recovery reads.

## 8. Running

`tlc -workers 2 -config MCCollaboration.cfg MCCollaboration` checks one run; the other
configurations are named after their modules, and those of the violated runs after the
property. `tlapm CollaborationProofs.tla` checks the proofs of a module. Each run ends
within a few minutes; the longest is `personal_library` with 2.3 million states, and the
longest proofs are those of `ExportJobs` and `ProjectCheckpoint`.
