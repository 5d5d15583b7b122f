---------------------------- MODULE Collaboration ----------------------------
(***************************************************************************)
(* The shared host of one project: the clients attached to it, the native  *)
(* editors' drafts, the editing holds that survive a host crash, the pause *)
(* of assistant edits and the write permit native editors grant to exactly *)
(* one external write.  (crates/providence-native-adapter/src/shared_host) *)
(*                                                                         *)
(* The host serves one event at a time (shared_host.rs: serve), so every   *)
(* handler is one action.  What the handlers do to project content and to  *)
(* operation receipts is the subject of OperationReceipts; here a write is *)
(* its effect on the revision and on the coordination state.               *)
(***************************************************************************)
EXTENDS Naturals, FiniteSets

CONSTANTS
    Conns,        \* connection numbers, in the order the host accepted them
    Owners,       \* stable identities of native editor windows
    Writes,       \* distinct external write requests (their fingerprints)
    HoldLimit,    \* rows the editing-hold file may carry (64 in the code)
    MaxRevision,  \* bound: no modelled write starts at this revision
    NoOwner,      \* owner of a client that is not a native editor
    NoIntent      \* no external write is waiting for permits

ASSUME ConnsAssumption == Conns \subseteq Nat \ {0}
ASSUME OwnersAssumption == NoOwner \notin Owners
ASSUME LimitAssumption == HoldLimit \in Nat /\ MaxRevision \in Nat

VARIABLES
    up,        \* a host process holds the project's writer lock
    clients,   \* State.clients: connection -> ClientState
    spent,     \* connections that attached to this host process
    refused,   \* of those, the ones told that the hold limit is reached: the
               \* editor's proxy reports that and only closes its connection
    held,      \* Holds.disconnected: editors of an earlier host process
    holdFile,  \* the persisted editing-hold file
    paused,    \* Coordination.paused
    intent,    \* Coordination.intent
    revision,  \* the session's revision
    awaiting   \* history: editors present whose consent to assistant edits
               \* is outstanding (no state of the host depends on it)

vars == <<up, clients, spent, refused, held, holdFile, paused, intent, revision, awaiting>>

Kinds == {"mcp", "native", "native-control", "observer"}

Hold == [owner : Owners, draft : BOOLEAN]

ClientState ==
    [kind : Kinds, connected : BOOLEAN, draft : BOOLEAN, ready : BOOLEAN,
     owner : Owners \cup {NoOwner}, parent : Conns \cup {0}, bound : Conns \cup {0}]

Intent == [key : Writes, revision : Nat, granted : SUBSET Conns]

TypeOK ==
    /\ up \in BOOLEAN
    /\ spent \in SUBSET Conns
    /\ refused \in SUBSET spent
    /\ DOMAIN clients \subseteq spent
    /\ clients \in [DOMAIN clients -> ClientState]
    /\ \A c \in DOMAIN clients : clients[c].kind = "native" => clients[c].owner \in Owners
    /\ held \in SUBSET Hold
    /\ holdFile \in SUBSET Hold
    /\ paused \in BOOLEAN
    /\ intent \in Intent \cup {NoIntent}
    /\ revision \in Nat
    /\ awaiting \in SUBSET Owners

-----------------------------------------------------------------------------
(* Readings of the state that the handlers share. *)

IsNative(c) == c \in DOMAIN clients /\ clients[c].kind = "native"
IsMcp(c)    == c \in DOMAIN clients /\ clients[c].kind = "mcp"

Natives == {c \in DOMAIN clients : clients[c].kind = "native"}
ConnectedNatives == {c \in Natives : clients[c].connected}

\* The connections native editors send commands on.
Editors == ConnectedNatives \ refused

\* State::has_drafts
HasDrafts ==
    \/ held # {}
    \/ \E c \in Natives : clients[c].draft \/ ~clients[c].ready \/ ~clients[c].connected

\* State::open_clients for a client table
OpenClients(table) ==
    {c \in DOMAIN table : table[c].connected /\ table[c].kind # "native-control"}

\* Mutated form of HoldRows: editors without a draft are not worth a row.
HoldRowsOfDraftsOnly(table, holds) ==
    holds \cup {[owner |-> table[c].owner, draft |-> table[c].draft] :
                    c \in {d \in DOMAIN table : table[d].kind = "native" /\ table[d].draft}}

\* The rows persist_holds writes: the disconnected holds and every native client.
HoldRows(table, holds) ==
    holds \cup {[owner |-> table[c].owner, draft |-> table[c].draft] :
                    c \in {d \in DOMAIN table : table[d].kind = "native"}}

Fits(rows) == Cardinality(rows) <= HoldLimit

\* Holds::persist.  Over the limit it reports an error and leaves the file alone.
Persist(rows) == holdFile' = IF Fits(rows) THEN rows ELSE holdFile

Without(table, gone) == [c \in DOMAIN table \ gone |-> table[c]]

\* State.clients.insert
With(table, c, state) == [d \in DOMAIN table \cup {c} |-> IF d = c THEN state ELSE table[d]]

\* native_control_owner, and native_control_target for "session.draft": the
\* native client a connection may report a draft for.
DraftTargets(k) ==
    {p \in ConnectedNatives :
        \/ p = k /\ k \notin refused
        \/ /\ k \in DOMAIN clients
           /\ clients[k].kind = "native-control"
           /\ clients[k].connected
           /\ clients[k].parent = p}

\* Coordination::clear
ClearIntent == intent' = NoIntent

-----------------------------------------------------------------------------
(* Attaching (State::attach). A connection attaches once: the proxy opens   *)
(* one connection per attempt. A refused attach leaves the state as it was. *)

NewClient(kind, owner, parent) ==
    [kind |-> kind, connected |-> TRUE, draft |-> FALSE, ready |-> kind # "native",
     owner |-> owner, parent |-> parent, bound |-> 0]

\* The clients that disappear when the editor o returns or its hold is released.
ReplacedBy(o) == {d \in DOMAIN clients : clients[d].owner = o}

OwnerConnected(o) == \E d \in DOMAIN clients : clients[d].owner = o /\ clients[d].connected

HoldsWithout(o) == {h \in held : h.owner # o}

\* register_native_owner: an editor that returns replaces its own disconnected
\* client and its own hold, and assistant edits pause until a native allows them.
\* Past the hold limit the attach reports an error but the client stays listed.
AttachNative(c, o) ==
    LET kept == With(Without(clients, ReplacedBy(o)),
                     c, NewClient("native", o, 0))
        holds == HoldsWithout(o)
    IN  /\ up
        /\ c \notin spent
        /\ ~OwnerConnected(o)
        /\ clients' = kept
        /\ held' = holds
        /\ Persist(HoldRows(kept, holds))
        /\ paused' = TRUE
        /\ ClearIntent
        /\ spent' = spent \cup {c}
        /\ IF Fits(HoldRows(kept, holds))
           THEN refused' = refused /\ awaiting' = awaiting \cup {o}
           ELSE refused' = refused \cup {c} /\ awaiting' = awaiting
        /\ UNCHANGED <<up, revision>>

\* Mutated form of Newest: any control connection may bind.
AnyOrder(c, p) == TRUE

\* The high-water mark outlives the control connection that set it.
Newest(c, p) == c > clients[p].bound

\* bind_native_control marks p's newest control connection and revokes the others.
Rebound(c, p) ==
    [d \in DOMAIN clients |->
        [clients[d] EXCEPT !.bound = IF d = p THEN c ELSE @,
                           !.connected = @ /\ clients[d].parent # p]]

\* An older socket that attaches late is refused. The editor's capability token is
\* unguessable, so presenting it is naming p.
AttachControl(c, p) ==
    /\ up
    /\ c \notin spent
    /\ p \in Editors
    /\ Newest(c, p)
    /\ clients' = With(Rebound(c, p), c, NewClient("native-control", NoOwner, p))
    /\ spent' = spent \cup {c}
    /\ UNCHANGED <<up, refused, held, holdFile, paused, intent, revision, awaiting>>

AttachPlain(c, kind) ==
    /\ up
    /\ c \notin spent
    /\ clients' = With(clients, c, NewClient(kind, NoOwner, 0))
    /\ spent' = spent \cup {c}
    /\ UNCHANGED <<up, refused, held, holdFile, paused, intent, revision, awaiting>>

-----------------------------------------------------------------------------
(* The host process ends: it crashes, is poisoned by a panic, answers with  *)
(* an unknown outcome, fails to persist a hold, or its last client leaves.  *)
(* Memory is lost; the hold file stays.                                     *)

NoClients == [c \in {} |-> NewClient("mcp", NoOwner, 0)]

HostGone ==
    /\ up' = FALSE
    /\ clients' = NoClients
    /\ spent' = {}
    /\ refused' = {}
    /\ held' = {}
    /\ paused' = FALSE
    /\ intent' = NoIntent

Crash ==
    /\ up
    /\ HostGone
    /\ UNCHANGED <<holdFile, revision, awaiting>>

\* Holds::load turns every persisted row into a disconnected hold, and a fresh
\* Coordination is not paused.  The session is restored at its stored revision,
\* or restarts at 0 when its local history cannot be restored.
Start ==
    /\ ~up
    /\ up' = TRUE
    /\ held' = holdFile
    /\ revision' \in {revision, 0}
    /\ UNCHANGED <<clients, spent, refused, holdFile, paused, intent, awaiting>>

\* Mutated form of AfterDisconnect: an editor that disconnects is forgotten.
AfterDisconnectForgets(c) == Without(clients, {c})

AfterDisconnect(c) ==
    IF IsNative(c) THEN [clients EXCEPT ![c].connected = FALSE] ELSE Without(clients, {c})

\* State::disconnect, then serve's exit test.  A native client stays listed as
\* a disconnected draft owner.  A persistence error ends the host.
Disconnect(c) ==
    LET table == AfterDisconnect(c)
        rows == HoldRows(table, held)
    IN  /\ up
        /\ c \in spent
        /\ Persist(rows)
        /\ IF ~Fits(rows) \/ OpenClients(table) = {}
           THEN HostGone
           ELSE /\ clients' = table
                /\ UNCHANGED <<up, spent, refused, held, paused, intent>>
        /\ UNCHANGED <<revision, awaiting>>

-----------------------------------------------------------------------------
(* Native session controls (State::native_control). *)

\* session.draft, from the native connection or from its control connection.
ReportDraft(k, active) ==
    \E p \in DraftTargets(k) :
        LET table == [clients EXCEPT ![p].draft = active, ![p].ready = TRUE]
        IN  /\ up
            /\ clients' = table
            /\ intent' = IF active THEN NoIntent ELSE intent
            /\ Persist(HoldRows(table, held))
            /\ UNCHANGED <<up, spent, refused, held, paused, revision, awaiting>>

\* session.write-permit, with input frozen, for the intent's key and revision.
GrantPermit(c) ==
    /\ up
    /\ c \in Editors
    /\ ~clients[c].draft
    /\ clients[c].ready
    /\ intent # NoIntent
    /\ intent' = [intent EXCEPT !.granted = @ \cup {c}]
    /\ UNCHANGED <<up, clients, spent, refused, held, holdFile, paused, revision, awaiting>>

\* session.external-edits
ExternalEdits(c, allowed) ==
    /\ up
    /\ c \in Editors
    /\ paused' = ~allowed
    /\ intent' = IF allowed THEN intent ELSE NoIntent
    /\ awaiting' = IF allowed THEN {} ELSE awaiting \cup {clients[c].owner}
    /\ UNCHANGED <<up, clients, spent, refused, held, holdFile, revision>>

\* session.release-hold, confirmed
ReleaseHold(c, o) ==
    LET table == Without(clients, ReplacedBy(o))
        holds == HoldsWithout(o)
    IN  /\ up
        /\ c \in Editors
        /\ ~OwnerConnected(o)
        /\ clients' = table
        /\ held' = holds
        /\ Persist(HoldRows(table, holds))
        /\ awaiting' = awaiting \ {o}
        /\ UNCHANGED <<up, spent, refused, paused, intent, revision>>

\* session.disconnect-client
DisconnectClient(c, target) ==
    /\ up
    /\ c \in Editors
    /\ IsMcp(target)
    /\ clients' = Without(clients, {target})
    /\ ClearIntent
    /\ UNCHANGED <<up, spent, refused, held, holdFile, paused, revision, awaiting>>

\* session.detach, with drafts resolved
Detach(c) ==
    LET table == Without(clients, {c})
    IN  /\ up
        /\ c \in Editors
        /\ clients' = table
        /\ Persist(HoldRows(table, held))
        /\ awaiting' = awaiting \ {clients[c].owner}
        /\ UNCHANGED <<up, spent, refused, held, paused, intent, revision>>

\* session.replace-support: the one native client, alone and settled.
ReplaceSupport(c) ==
    /\ up
    /\ {d \in DOMAIN clients : clients[d].kind \in {"native", "mcp"}} = {c}
    /\ c \in Editors
    /\ ~HasDrafts
    /\ paused' = TRUE
    /\ ClearIntent
    /\ awaiting' = awaiting \cup {clients[c].owner}
    /\ UNCHANGED <<up, clients, spent, refused, held, holdFile, revision>>

-----------------------------------------------------------------------------
(* Writes (State::guard_write, Coordination::preflight, State::execute).    *)
(* A request carries the revision it expects; guard refuses any other.      *)

MayWriteExternally(c) ==
    /\ up
    /\ IsMcp(c)
    /\ revision < MaxRevision
    /\ ~HasDrafts
    /\ ~paused

\* preflight without the permits: the request becomes the pending intent, and
\* the reply says that native input must settle first.
RequestPermit(c, w) ==
    /\ MayWriteExternally(c)
    /\ ConnectedNatives # {}
    /\ intent = NoIntent
    /\ intent' = [key |-> w, revision |-> revision, granted |-> {}]
    /\ UNCHANGED <<up, clients, spent, refused, held, holdFile, paused, revision, awaiting>>

\* preflight with every permit, then execute: the write applies or is refused
\* by its feature; either way the coordination is cleared.
ExternalWrite(c, w) ==
    /\ MayWriteExternally(c)
    /\ \/ ConnectedNatives = {}
       \/ /\ intent # NoIntent
          /\ intent.key = w
          /\ intent.revision = revision
          /\ ConnectedNatives \subseteq intent.granted
    /\ revision' \in {revision, revision + 1}
    /\ ClearIntent
    /\ UNCHANGED <<up, clients, spent, refused, held, holdFile, paused, awaiting>>

\* execute for a native editor's own command, which needs no permit.
NativeWrite(c) ==
    /\ up
    /\ c \in Editors
    /\ revision < MaxRevision
    /\ revision' \in {revision, revision + 1}
    /\ ClearIntent
    /\ UNCHANGED <<up, clients, spent, refused, held, holdFile, paused, awaiting>>

\* Coordination::expire: every reading of the intent first drops it once its
\* 15 seconds have passed.
IntentExpires ==
    /\ up
    /\ intent # NoIntent
    /\ ClearIntent
    /\ UNCHANGED <<up, clients, spent, refused, held, holdFile, paused, revision, awaiting>>

-----------------------------------------------------------------------------
Init ==
    /\ up = FALSE
    /\ clients = NoClients
    /\ spent = {}
    /\ refused = {}
    /\ held = {}
    /\ holdFile = {}
    /\ paused = FALSE
    /\ intent = NoIntent
    /\ revision = 0
    /\ awaiting = {}

ClientStep(c) ==
    \/ \E o \in Owners : AttachNative(c, o)
    \/ \E p \in Conns : AttachControl(c, p)
    \/ \E kind \in {"mcp", "observer"} : AttachPlain(c, kind)
    \/ Disconnect(c)
    \/ \E active \in BOOLEAN : ReportDraft(c, active)
    \/ GrantPermit(c)
    \/ \E allowed \in BOOLEAN : ExternalEdits(c, allowed)
    \/ \E o \in Owners : ReleaseHold(c, o)
    \/ \E target \in Conns : DisconnectClient(c, target)
    \/ Detach(c)
    \/ ReplaceSupport(c)
    \/ \E w \in Writes : RequestPermit(c, w) \/ ExternalWrite(c, w)
    \/ NativeWrite(c)

Next ==
    \/ Crash
    \/ Start
    \/ IntentExpires
    \/ \E c \in Conns : ClientStep(c)

Spec == Init /\ [][Next]_vars
-----------------------------------------------------------------------------
(* Invariants. *)

OwnersOf(rows) == {h.owner : h \in rows}

\* While a host serves, the persisted holds are exactly what a crash must leave
\* behind: the disconnected holds and every native client with its draft mark.
\* (controls.rs persist_holds has to be called by every handler that changes
\* them; only a table past the hold limit, an error reply, escapes the file.)
HoldFileCurrent ==
    up => (Fits(HoldRows(clients, held)) => holdFile = HoldRows(clients, held))

\* One editor window is at most one native client or one hold, never both, also
\* across disconnects, crashes and returns (register_native_owner, release_hold).
OwnersUnique ==
    /\ \A c, d \in Natives : clients[c].owner = clients[d].owner => c = d
    /\ \A h, g \in held : h.owner = g.owner => h = g
    /\ \A c \in Natives : clients[c].owner \notin OwnersOf(held)

\* Only the most recently accepted control connection of an editor can still
\* report its draft, whatever the order in which the sockets attached or closed
\* (bind_native_control), so a late old report cannot undo a newer one.
NewestControlOnly ==
    \A k \in DOMAIN clients :
        (clients[k].kind = "native-control" /\ clients[k].connected)
            => /\ clients[k].parent \in DOMAIN clients => k = clients[clients[k].parent].bound
               /\ \A j \in DOMAIN clients : clients[j].parent = clients[k].parent => j <= k

\* A pending intent is always for the present revision, never survives a pause,
\* and every editor counted as having granted it still has no draft: whichever
\* handler makes a permit obsolete also withdraws the intent (collaboration.rs).
PermitsAreCurrent ==
    intent # NoIntent =>
        /\ intent.revision = revision
        /\ ~paused
        /\ \A c \in intent.granted \cap Natives : clients[c].ready /\ ~clients[c].draft

-----------------------------------------------------------------------------
(* Action properties. *)

\* Editors on record: those the hold file names that the live host also knows,
\* or, while no host runs, those the file names.
OnRecord ==
    IF up
    THEN OwnersOf(holdFile) \cap OwnersOf(HoldRows(clients, held))
    ELSE OwnersOf(holdFile)

\* An editor on record stays on record through disconnects, crashes, restarts and
\* other clients' actions, until it detaches with its drafts resolved or a native
\* editor confirms the release of its hold.
EditorLeavesOnlyExplicitly ==
    [][\A o \in OnRecord \ OnRecord' :
          \E c \in Conns : \/ Detach(c) /\ clients[c].owner = o
                          \/ ReleaseHold(c, o)]_vars

\* No external write happens between the moment a native editor attaches (or
\* pauses assistant edits) and the moment a native editor allows them, as long as
\* that editor is still around, even when a crash between the two resets the
\* host's pause flag (register_native_owner, Holds::load, preflight).
ConsentBeforeExternalWrite ==
    [][\A c \in Conns, w \in Writes : ExternalWrite(c, w) => awaiting = {}]_vars
=============================================================================
