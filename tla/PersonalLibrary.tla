---------------------------- MODULE PersonalLibrary ----------------------------
(***************************************************************************)
(* My Library: one manifest and one ledger of operations under the user's  *)
(* directory, written by the hosts of every project that is open.          *)
(*                                                                         *)
(* A command reserves its operation in the ledger, takes the SQLite writer *)
(* lock without waiting, reads the manifest, changes it, replaces the file *)
(* and completes the receipt.  Hosts share nothing but the files, die      *)
(* between any two steps, and lose replies; a command may arrive twice.    *)
(* (personal_library.rs, personal_library/history.rs, monster_operations.rs*)
(* and monster_operation_receipts.rs)                                      *)
(*                                                                         *)
(* The library is cut down to one asset and one collection: the asset is   *)
(* imported loose and filed by a move.  Names, media and original bytes    *)
(* are left out, and so are the other domains of the ledger, whose         *)
(* receipts are files of their own.                                        *)
(***************************************************************************)
EXTENDS Naturals, Sequences

CONSTANTS
    Host,          \* processes that serve a project
    Operation,     \* operation identities
    None,          \* no host, no operation, no library, no intent
    HistoryLimit,  \* history.rs LIMIT
    Retained,      \* COMPLETED_RECEIPTS
    MaxSends,      \* bound: deliveries of commands
    MaxLag,        \* bound: how many changes a client's reading may be old
    MaxCrashes     \* bound: deaths of hosts

ASSUME BoundsAssumption ==
    /\ HistoryLimit \in Nat \ {0} /\ Retained \in Nat \ {0}
    /\ MaxSends \in Nat /\ MaxLag \in Nat /\ MaxCrashes \in Nat

VARIABLES
    manifest,  \* the library on disk
    writer,    \* the host whose transaction holds writer.sqlite3, or None
    receipt,   \* the ledger: what lookup finds for each operation
    completed, \* the completed receipts, the oldest first
    host,      \* each host: the step it is at, and the command in its hands
    intent,    \* what each operation asked for, once it was submitted
    told,      \* history: definite outcomes its client was given
    applied,   \* history: operations in the order their change was persisted
    pruned,    \* history: operations whose receipt was removed
    sends, crashes

vars == <<manifest, writer, receipt, completed, host, intent, told, applied, pruned,
          sends, crashes>>

-----------------------------------------------------------------------------
(* The library and its history. *)

Assets == {"absent", "loose", "filed"}
Content == [asset : Assets, collection : BOOLEAN]

\* history.rs Entry
AssetEntry == [kind : {"asset"}, before : Assets, after : Assets]
CollectionEntry == [kind : {"collection"}]
Entry == AssetEntry \cup CollectionEntry

Library == [revision : Nat, content : Content, undo : Seq(Entry), redo : Seq(Entry)]

Edits == {"create-collection", "import", "move", "remove"}
Commands == Edits \cup {"undo", "redo"}

\* validate_collection
Valid(c) == c.asset = "filed" => c.collection

\* The content after an edit, where the edit is allowed. (apply_command)
Allowed(c, edit) ==
    CASE edit = "create-collection" -> ~c.collection
      [] edit = "import" -> c.asset = "absent"
      [] edit = "move" -> c.asset # "absent" /\ c.collection
      [] edit = "remove" -> c.asset # "absent"

Edited(c, edit) ==
    CASE edit = "create-collection" -> [c EXCEPT !.collection = TRUE]
      [] edit = "import" -> [c EXCEPT !.asset = "loose"]
      [] edit = "move" -> [c EXCEPT !.asset = "filed"]
      [] edit = "remove" -> [c EXCEPT !.asset = "absent"]

EntryOf(c, edit) ==
    IF edit = "create-collection" THEN [kind |-> "collection"]
    ELSE [kind |-> "asset", before |-> c.asset, after |-> Edited(c, edit).asset]

\* apply_history: whether the entry fits the content it is applied to, and the
\* content it leaves.
Fits(c, e, undo) ==
    IF e.kind = "collection"
    THEN IF undo THEN c.asset # "filed" /\ c.collection ELSE ~c.collection
    ELSE /\ c.asset = IF undo THEN e.after ELSE e.before
         /\ Valid([c EXCEPT !.asset = IF undo THEN e.before ELSE e.after])

Restored(c, e, undo) ==
    IF e.kind = "collection" THEN [c EXCEPT !.collection = ~undo]
    ELSE [c EXCEPT !.asset = IF undo THEN e.before ELSE e.after]

Top(s) == s[Len(s)]
Popped(s) == SubSeq(s, 1, Len(s) - 1)

\* Mutated form of Recorded: edits after an undo keep what could be redone.
RecordedBeside(lib, edit) ==
    LET undo == Append(lib.undo, EntryOf(lib.content, edit)) IN
    [lib EXCEPT !.content = Edited(lib.content, edit),
                !.undo = IF Len(undo) > HistoryLimit THEN Tail(undo) ELSE undo]

\* LibraryHistory::record
Recorded(lib, edit) ==
    LET undo == Append(lib.undo, EntryOf(lib.content, edit)) IN
    [lib EXCEPT !.content = Edited(lib.content, edit),
                !.undo = IF Len(undo) > HistoryLimit THEN Tail(undo) ELSE undo,
                !.redo = <<>>]

Undone(lib) ==
    [lib EXCEPT !.content = Restored(lib.content, Top(lib.undo), TRUE),
                !.undo = Popped(lib.undo), !.redo = Append(lib.redo, Top(lib.undo))]

Redone(lib) ==
    [lib EXCEPT !.content = Restored(lib.content, Top(lib.redo), FALSE),
                !.redo = Popped(lib.redo), !.undo = Append(lib.undo, Top(lib.redo))]

\* Whether the command is carried out, and what it makes of the library but for
\* the revision.
Accepted(lib, command) ==
    CASE command = "undo" -> lib.undo # <<>> /\ Fits(lib.content, Top(lib.undo), TRUE)
      [] command = "redo" -> lib.redo # <<>> /\ Fits(lib.content, Top(lib.redo), FALSE)
      [] command \in Edits -> Allowed(lib.content, command)

Changed(lib, command) ==
    CASE command = "undo" -> Undone(lib)
      [] command = "redo" -> Redone(lib)
      [] command \in Edits -> Recorded(lib, command)

Applied(lib, command) == [Changed(lib, command) EXCEPT !.revision = lib.revision + 1]

\* LibraryHistory::validate: both chains are walked to their end.
Walk(lib, undo) ==
    LET chain == IF undo THEN lib.undo ELSE lib.redo
        At[n \in 0..Len(chain)] ==
            IF n = 0 THEN lib.content
            ELSE Restored(At[n - 1], chain[Len(chain) + 1 - n], undo)
    IN \A n \in 1..Len(chain) : Fits(At[n - 1], chain[Len(chain) + 1 - n], undo)

\* load_manifest
Opens(lib) ==
    /\ Len(lib.undo) + Len(lib.redo) <= HistoryLimit
    /\ Walk(lib, TRUE) /\ Walk(lib, FALSE)
    /\ Valid(lib.content)

-----------------------------------------------------------------------------
Outcomes == {"committed", "not-committed"}
Receipts == {"absent", "reserved", "torn"} \cup Outcomes
Intent == [expected : Nat, command : Commands]

HostState ==
    [at : {"idle", "reserved", "locked", "loaded", "executed", "pruning", "replying"},
     op : Operation \cup {None}, library : Library \cup {None},
     outcome : Outcomes \cup {"unknown"}, excess : SUBSET Operation]

\* What is not there is no host and no intent.
ASSUME NoneAssumption == None \notin Host /\ None \notin Intent

TypeOK ==
    /\ manifest \in Library
    /\ writer \in Host \cup {None}
    /\ receipt \in [Operation -> Receipts]
    /\ completed \in Seq(Operation)
    /\ host \in [Host -> HostState]
    /\ intent \in [Operation -> Intent \cup {None}]
    /\ told \in [Operation -> SUBSET Outcomes]
    /\ applied \in Seq(Operation)
    /\ pruned \subseteq Operation
    /\ sends \in 0..MaxSends /\ crashes \in 0..MaxCrashes

Idle == [at |-> "idle", op |-> None, library |-> None, outcome |-> "unknown",
         excess |-> {}]

Empty == [revision |-> 0, content |-> [asset |-> "absent", collection |-> FALSE],
          undo |-> <<>>, redo |-> <<>>]

Init ==
    /\ manifest = Empty
    /\ writer = None
    /\ receipt = [o \in Operation |-> "absent"]
    /\ completed = <<>>
    /\ host = [h \in Host |-> Idle]
    /\ intent = [o \in Operation |-> None]
    /\ told = [o \in Operation |-> {}]
    /\ applied = <<>>
    /\ pruned = {}
    /\ sends = 0 /\ crashes = 0

-----------------------------------------------------------------------------
(* The requests of the clients. *)

\* Mutated form of Reservable: an existing receipt is opened and overwritten.
AnyReservable(o) == receipt[o] # "reserved"

\* create_new
Reservable(o) == receipt[o] = "absent"

\* An operation is submitted once by its client, at a revision that it has read, and
\* may be delivered again. reserve refuses it when a receipt exists, which tells the
\* client nothing of the original. (A reservation that fails after its file was made
\* is one whose host dies next.)
Submit(h, o, expected, command) ==
    /\ host[h].at = "idle" /\ sends < MaxSends
    /\ intent[o] \in {None, [expected |-> expected, command |-> command]}
    /\ expected <= manifest.revision
    /\ intent[o] = None => manifest.revision <= expected + MaxLag
    /\ Reservable(o)
    /\ sends' = sends + 1
    /\ intent' = [intent EXCEPT ![o] = [expected |-> expected, command |-> command]]
    /\ receipt' = [receipt EXCEPT ![o] = "reserved"]
    /\ host' = [host EXCEPT ![h] = [Idle EXCEPT !.at = "reserved", !.op = o]]
    /\ UNCHANGED <<manifest, writer, completed, told, applied, pruned, crashes>>

\* read_original: a client without an answer asks any host for the original outcome.
Ask(h, o) ==
    /\ host[h].at = "idle"
    /\ intent[o] # None /\ told[o] = {} /\ receipt[o] \in Outcomes
    /\ told' = [told EXCEPT ![o] = {receipt[o]}]
    /\ UNCHANGED <<manifest, writer, receipt, completed, host, intent, applied, pruned,
                   sends, crashes>>

-----------------------------------------------------------------------------
(* PersonalLibraryStore::apply *)

Executed(h, outcome) ==
    host' = [host EXCEPT ![h].at = "executed", ![h].library = None,
                         ![h].outcome = outcome]

\* Mutated form of Free: the transaction begins without the lock.
AlwaysFree == TRUE

Free == writer = None

\* BEGIN IMMEDIATE with a busy timeout of zero
Lock(h) ==
    /\ host[h].at = "reserved"
    /\ IF Free
       THEN writer' = h /\ host' = [host EXCEPT ![h].at = "locked"]
       ELSE UNCHANGED writer /\ Executed(h, "not-committed")
    /\ UNCHANGED <<manifest, receipt, completed, intent, told, applied, pruned, sends,
                   crashes>>

Load(h) ==
    /\ host[h].at = "locked"
    /\ host' = [host EXCEPT ![h].at = "loaded", ![h].library = manifest]
    /\ UNCHANGED <<manifest, writer, receipt, completed, intent, told, applied, pruned,
                   sends, crashes>>

\* Mutated form of Current: the expected revision is not compared.
AnyRevision(lib, wanted) == TRUE

Current(lib, wanted) == wanted.expected = lib.revision

Carried(h) ==
    LET lib == host[h].library
        wanted == intent[host[h].op]
    IN Opens(lib) /\ Current(lib, wanted) /\ Accepted(lib, wanted.command)

\* The manifest is replaced at once, or the file is left as it was.
Persist(h) ==
    /\ host[h].at = "loaded"
    /\ Carried(h)
    /\ manifest' = Applied(host[h].library, intent[host[h].op].command)
    /\ applied' = Append(applied, host[h].op)
    /\ Executed(h, "committed")
    /\ writer' = None
    /\ UNCHANGED <<receipt, completed, intent, told, pruned, sends, crashes>>

\* A rejected command, or a file that cannot be read or replaced
Reject(h) ==
    /\ host[h].at = "loaded"
    /\ Executed(h, "not-committed")
    /\ writer' = None
    /\ UNCHANGED <<manifest, receipt, completed, intent, told, applied, pruned, sends,
                   crashes>>

-----------------------------------------------------------------------------
(* MonsterOperationStore::complete and the reply *)

\* The files keep their order by time of modification when one is gone.
Without(s, o) ==
    IF \E i \in 1..Len(s) : s[i] = o
    THEN LET i == CHOOSE i \in 1..Len(s) : s[i] = o IN
         [k \in 1..(Len(s) - 1) |-> IF k < i THEN s[k] ELSE s[k + 1]]
    ELSE s

\* One more line: an outcome after a reservation. What else the file holds then is
\* no receipt; a file that is gone is not made again.
Appended(o, outcome) ==
    /\ receipt[o] # "absent"
    /\ receipt' = [receipt EXCEPT ![o] = IF @ = "reserved" THEN outcome ELSE "torn"]
    /\ completed' = IF receipt'[o] = "torn" THEN Without(completed, o)
                    ELSE Append(completed, o)

\* prune_completed: the oldest of the completed receipts
Excess(s) ==
    {s[i] : i \in {i \in 1..Len(s) : i + Retained <= Len(s)}}

\* The outcome is appended and synced; what exceeds the retained receipts is listed.
Complete(h) ==
    /\ host[h].at = "executed"
    /\ Appended(host[h].op, host[h].outcome)
    /\ host' = [host EXCEPT ![h].at = "pruning", ![h].excess = Excess(completed')]
    /\ UNCHANGED <<manifest, writer, intent, told, applied, pruned, sends, crashes>>

\* The append fails: before anything is written, within the line, or after it. The
\* client is told that the outcome is unknown.
CompleteFails(h) ==
    /\ host[h].at = "executed"
    /\ \/ UNCHANGED <<receipt, completed>>
       \/ Appended(host[h].op, "torn")
       \/ Appended(host[h].op, host[h].outcome)
    /\ host' = [host EXCEPT ![h].at = "replying", ![h].outcome = "unknown"]
    /\ UNCHANGED <<manifest, writer, intent, told, applied, pruned, sends, crashes>>

\* The listed files are removed one at a time, whatever they hold by now.
Prune(h) ==
    /\ host[h].at = "pruning"
    /\ \E o \in host[h].excess :
         /\ receipt[o] # "absent"
         /\ receipt' = [receipt EXCEPT ![o] = "absent"]
         /\ completed' = Without(completed, o)
         /\ pruned' = pruned \cup {o}
         /\ host' = [host EXCEPT ![h].excess = @ \ {o}]
    /\ UNCHANGED <<manifest, writer, intent, told, applied, sends, crashes>>

\* A file cannot be removed, as when another host has removed it before; complete
\* returns the error although the outcome is written.
PruneFails(h) ==
    /\ host[h].at = "pruning"
    /\ host' = [host EXCEPT ![h].at = "replying", ![h].outcome = "unknown",
                            ![h].excess = {}]
    /\ UNCHANGED <<manifest, writer, receipt, completed, intent, told, applied, pruned,
                   sends, crashes>>

Pruned(h) ==
    /\ host[h].at = "pruning" /\ host[h].excess = {}
    /\ host' = [host EXCEPT ![h].at = "replying"]
    /\ UNCHANGED <<manifest, writer, receipt, completed, intent, told, applied, pruned,
                   sends, crashes>>

\* The reply reaches the client or is lost.
Reply(h) ==
    /\ host[h].at = "replying"
    /\ \E delivered \in BOOLEAN :
         told' = IF delivered /\ host[h].outcome \in Outcomes
                 THEN [told EXCEPT ![host[h].op] = @ \cup {host[h].outcome}]
                 ELSE told
    /\ host' = [host EXCEPT ![h] = Idle]
    /\ UNCHANGED <<manifest, writer, receipt, completed, intent, applied, pruned, sends,
                   crashes>>

\* The process dies, and another serves the project; SQLite frees its lock.
Crash(h) ==
    /\ host[h].at # "idle" /\ crashes < MaxCrashes
    /\ crashes' = crashes + 1
    /\ host' = [host EXCEPT ![h] = Idle]
    /\ writer' = IF writer = h THEN None ELSE writer
    /\ UNCHANGED <<manifest, receipt, completed, intent, told, applied, pruned, sends>>

Next ==
    \E h \in Host :
        \/ \E o \in Operation, expected \in 0..manifest.revision, command \in Commands :
             Submit(h, o, expected, command)
        \/ \E o \in Operation : Ask(h, o)
        \/ Lock(h) \/ Load(h) \/ Persist(h) \/ Reject(h)
        \/ Complete(h) \/ CompleteFails(h) \/ Prune(h) \/ PruneFails(h) \/ Pruned(h)
        \/ Reply(h) \/ Crash(h)

Spec == Init /\ [][Next]_vars

-----------------------------------------------------------------------------
(* Properties. *)

\* Every change that was persisted is in the library: each command changed the very
\* library the one before it left, whatever host carried it out.
\* (PersonalLibraryStore::apply)
NoChangeIsLost ==
    /\ manifest.revision = Len(applied)
    /\ \A i \in 1..Len(applied) : intent[applied[i]].expected = i - 1

\* However often a command is delivered, to whichever host and however long after
\* its receipt was pruned, it changes the library once at most. (reserve, apply)
AppliedAtMostOnce ==
    \A i, j \in 1..Len(applied) : applied[i] = applied[j] => i = j

\* A definite outcome, in a reply or in the original receipt, is true, and no later
\* answer contradicts it while its receipt is kept. (finish, complete, lookup)
AnswersAreTrue ==
    \A o \in Operation \ pruned :
        \A outcome \in told[o] \cup ({receipt[o]} \cap Outcomes) :
            (outcome = "committed") <=> \E i \in 1..Len(applied) : applied[i] = o

\* The library that is written can be read again: after any sequence of edits, undo
\* and redo, with old entries dropped, both chains fit it. (LibraryHistory::validate)
ManifestAlwaysOpens == Opens(manifest)

-----------------------------------------------------------------------------
(* The promise to the clients of all hosts (SharedLibrary) and how it is kept. *)

Shared == INSTANCE SharedLibrary WITH
    library <- manifest, log <- applied, asked <- intent, forgotten <- pruned,
    Command <- Commands, Unasked <- None, Start <- Empty,
    Accepts <- Accepted, Result <- Applied

\* To their clients the hosts are one library: whichever host takes a command, dies
\* over it or prunes its receipt, the command changes the library at most once and
\* only at the revision it expected, and what is told of it is true and stays true.
\* (reserve, apply, complete, lookup)
IsOneLibrary == Shared!Spec
=============================================================================
