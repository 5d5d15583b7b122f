--------------------------- MODULE ConnectedEditing ---------------------------
(***************************************************************************)
(* Editor windows connected to the shared host (godot/src/                 *)
(* collaboration_session.gd), composed with the host of Collaboration: how *)
(* a window reports its drafts, freezes its input, settles what was typed, *)
(* grants a permit for one external write and shows the project again      *)
(* before it accepts input; what is left when one of its requests fails.   *)
(*                                                                         *)
(* A window keeps two things apart (history_workspace.gd, refresh_external):*)
(* the revision of the session, which it adopts first, and its visible     *)
(* document, marked stale then and read after (document_changes.gd).       *)
(*                                                                         *)
(* A window talks to the host over two connections: the native one carries *)
(* its commands and permits, the control one its status reads and draft    *)
(* reports.  Between a request and its response the window runs on, so a   *)
(* draft report carries the drafts of the moment it was sent.              *)
(***************************************************************************)
EXTENDS Collaboration, Functions

CONSTANTS
    Assistant,    \* the connection of the external client
    FirstNative,  \* the native connection each window starts with
    FirstControl, \* the control connection each window starts with, or 0
    HostLife,     \* ticks the host keeps an intent (15 s in the code)
    EditorWait,   \* ticks a window waits for the write it permitted (17 s)
    Unsteady      \* bound: windows whose requests and stream may fail

ASSUME ConnectionsAssumption ==
    /\ Assistant \in Conns
    /\ FirstNative \in [Owners -> Conns \ {Assistant}]
    /\ FirstControl \in [Owners -> (Conns \ {Assistant}) \cup {0}]
    /\ \A o, p \in Owners : /\ FirstNative[o] # FirstControl[p]
                            /\ FirstNative[o] = FirstNative[p] => o = p
                            /\ FirstControl[o] = FirstControl[p] => o = p \/ FirstControl[o] = 0
ASSUME WaitAssumption == HostLife \in Nat /\ EditorWait \in Nat /\ HostLife < EditorWait

VARIABLES
    nat,      \* window -> its native connection, 0 once the stream is lost
    ctl,      \* window -> its control connection, 0 while it has none
    step,     \* window -> where _synchronize stands
    text,     \* window -> what its author typed and has not applied: "none",
              \* "pending" in a control that has not settled, or a "draft"
    frozen,   \* window -> collaboration_input_guard holds its input
    reported, \* window -> _reported_draft: the last report the host accepted
    sent,     \* window -> the report whose response is outstanding, or "none"
    seen,     \* window -> write intent and "changed" of the status in use
    base,     \* window -> its session view's revision, which its commands name
    stale,    \* window -> its visible document is marked in _changes._stale
    waited,   \* window -> ticks since its permit was granted
    age,      \* ticks since the host created the present intent
    lastRead, \* history: window -> whether its visible document was read after the
              \* last external write: "read", "owed" while the window is to read it,
              \* or "missed" once a failure came between
    gaveUp    \* history: windows whose poll failed while the host holds their permit
              \* (no step of a window or the host depends on these two)

docVars == <<stale, lastRead>>
windowVars == <<nat, ctl, step, text, frozen, reported, sent, seen, base, waited, docVars>>
allVars == <<vars, windowVars, age, gaveUp>>

Steps == {"idle", "report", "freeze", "settle", "permit", "wait", "refresh", "show"}

Report(t) == IF t = "draft" THEN "active" ELSE "clean"

\* _prepare_input flushes deferred controls.
Flushed(t) == IF t = "pending" THEN "draft" ELSE t

NothingSeen == [intent |-> NoIntent, changed |-> FALSE]

ConnectedTypeOK ==
    /\ TypeOK
    /\ nat \in [Owners -> Conns \cup {0}]
    /\ ctl \in [Owners -> Conns \cup {0}]
    /\ step \in [Owners -> Steps]
    /\ text \in [Owners -> {"none", "pending", "draft"}]
    /\ frozen \in [Owners -> BOOLEAN]
    /\ reported \in [Owners -> {"unknown", "clean", "active"}]
    /\ sent \in [Owners -> {"none", "clean", "active"}]
    /\ base \in [Owners -> Nat]
    /\ stale \in [Owners -> BOOLEAN]
    /\ waited \in [Owners -> 0..EditorWait]
    /\ age \in 0..HostLife
    /\ lastRead \in [Owners -> {"read", "owed", "missed"}]
    /\ gaveUp \in SUBSET Owners

-----------------------------------------------------------------------------
(* Time. The host drops an intent when it reads it after HostLife           *)
(* (Coordination::expire), so whatever reads the intent finds a live one.   *)

Expired == intent # NoIntent /\ age = HostLife

Expire ==
    /\ Expired
    /\ IntentExpires
    /\ UNCHANGED windowVars

Tick ==
    /\ \/ intent # NoIntent /\ age < HostLife
       \/ \E o \in Owners : step[o] = "wait" /\ waited[o] < EditorWait
    /\ age' = IF intent # NoIntent /\ age < HostLife THEN age + 1 ELSE age
    /\ waited' = [o \in Owners |->
                    IF step[o] = "wait" /\ waited[o] < EditorWait THEN waited[o] + 1 ELSE waited[o]]
    /\ UNCHANGED <<vars, nat, ctl, step, text, frozen, reported, sent, seen, base, docVars, gaveUp>>

-----------------------------------------------------------------------------
(* The author and the window's own commands. *)

Open(o) == nat[o] # 0

\* _operations.busy: the window holds its editing stream.
Busy(o) == step[o] \in {"freeze", "settle", "permit", "wait", "refresh", "show"}

\* Input reaches the window's controls unless the guard holds it.
Types(o) ==
    /\ Open(o)
    /\ ~frozen[o]
    /\ text[o] = "none"
    /\ text' = [text EXCEPT ![o] = "pending"]
    /\ UNCHANGED <<vars, nat, ctl, step, frozen, reported, sent, seen, base, waited, docVars>>

\* The control settles by itself, or the author gives the draft up.
Settles(o) ==
    /\ \/ text[o] = "pending" /\ text' = [text EXCEPT ![o] = "draft"]
       \/ ~frozen[o] /\ text[o] = "draft" /\ text' = [text EXCEPT ![o] = "none"]
    /\ UNCHANGED <<vars, nat, ctl, step, frozen, reported, sent, seen, base, waited, docVars>>

\* Apply of the window's draft, at the session view's revision; the change it makes
\* marks the document (ProvidenceSessionProjection.apply).
Applies(o) ==
    /\ Open(o)
    /\ ~Busy(o)
    /\ text[o] = "draft"
    /\ base[o] = revision
    /\ NativeWrite(nat[o])
    /\ base' = [base EXCEPT ![o] = revision']
    /\ text' = [text EXCEPT ![o] = IF revision' = revision THEN @ ELSE "none"]
    /\ stale' = [stale EXCEPT ![o] = @ \/ revision' # revision]
    /\ UNCHANGED <<nat, ctl, step, frozen, reported, sent, seen, waited, lastRead>>

\* The document is read anew, and its mark goes (changes.refreshed).
ReadsDocument(o) ==
    /\ stale' = [stale EXCEPT ![o] = FALSE]
    /\ lastRead' = [lastRead EXCEPT ![o] = "read"]

\* The author selects the document again (refresh_current, and
\* ProvidenceWorkbenchController.activate). A local draft is not replaced.
ShowsAgain(o) ==
    /\ Open(o)
    /\ ~Busy(o)
    /\ stale[o]
    /\ text[o] # "draft"
    /\ ReadsDocument(o)
    /\ UNCHANGED <<vars, nat, ctl, step, text, frozen, reported, sent, seen, base, waited>>

\* command() with session.external-edits: it bumps _command_generation, so a
\* status read before it is not used.
Allows(o, allowed) ==
    /\ Open(o)
    /\ ~Busy(o)
    /\ ExternalEdits(nat[o], allowed)
    /\ seen' = [seen EXCEPT ![o] = NothingSeen]
    /\ UNCHANGED <<nat, ctl, step, text, frozen, reported, sent, base, waited, docVars>>

-----------------------------------------------------------------------------
(* _synchronize, every 0.2 s while the window is not synchronizing already. *)

\* The next step, and the status as long as the steps to come use it.
Goes(o, next, status) ==
    /\ step' = [step EXCEPT ![o] = next]
    /\ seen' = [seen EXCEPT ![o] =
                  IF next \in {"report", "freeze", "settle", "permit"} THEN status ELSE NothingSeen]

\* begin takes the editing stream for a write intent or a change to show.
AfterReport(status) ==
    IF status.intent # NoIntent THEN "freeze" ELSE IF status.changed THEN "refresh" ELSE "idle"

\* read_status, then _report_draft, which sends only what the host does not have.
ReadStatus(o) ==
    LET status == [intent |-> IF intent = NoIntent THEN NoIntent
                              ELSE [key |-> intent.key, revision |-> intent.revision],
                   changed |-> intent = NoIntent /\ revision # base[o]]
        typed == Flushed(text[o])
    IN  /\ Open(o)
        /\ ctl[o] # 0
        /\ step[o] = "idle"
        /\ ~Expired
        /\ text' = [text EXCEPT ![o] = typed]
        /\ IF reported[o] = Report(typed)
           THEN sent' = sent /\ Goes(o, AfterReport(status), status)
           ELSE sent' = [sent EXCEPT ![o] = Report(typed)] /\ Goes(o, "report", status)
        /\ UNCHANGED <<vars, nat, ctl, frozen, reported, base, waited, docVars>>

\* The host keeps a report whose hold rows fit its file, and answers others with
\* an error.
ReportAccepted == Fits(HoldRows(clients', held'))

\* The report reaches the host and its response the window, which may have been
\* typed into since it was sent.
Reported(o) ==
    /\ step[o] = "report"
    /\ ReportDraft(ctl[o], sent[o] = "active")
    /\ reported' = [reported EXCEPT ![o] = IF ReportAccepted THEN sent[o] ELSE @]
    /\ sent' = [sent EXCEPT ![o] = "none"]
    /\ Goes(o, IF ReportAccepted THEN AfterReport(seen[o]) ELSE "idle", seen[o])
    /\ UNCHANGED <<nat, ctl, text, frozen, base, waited, docVars>>

\* Mutated form of Freeze: deferred controls are flushed before input is frozen,
\* and what they hold afterwards is not looked at.
FreezeAfterFlush(o) ==
    /\ step[o] = "freeze"
    /\ frozen' = [frozen EXCEPT ![o] = TRUE]
    /\ Goes(o, IF text[o] = "draft" THEN "refresh" ELSE "permit", seen[o])
    /\ UNCHANGED <<vars, nat, ctl, text, reported, sent, base, waited, docVars>>

\* _permit_write freezes every viewport, ...
Freeze(o) ==
    /\ step[o] = "freeze"
    /\ ~frozen[o]
    /\ frozen' = [frozen EXCEPT ![o] = TRUE]
    /\ UNCHANGED <<vars, nat, ctl, step, text, reported, sent, seen, base, waited, docVars>>

\* With a draft no permit is asked for.
AfterSettling(t) == IF t = "draft" THEN "refresh" ELSE "permit"

\* ... and after a frame flushes deferred controls and reports.
Settle(o) ==
    LET typed == Flushed(text[o])
    IN  /\ step[o] = "freeze"
        /\ frozen[o]
        /\ text' = [text EXCEPT ![o] = typed]
        /\ IF reported[o] = Report(typed)
           THEN sent' = sent /\ Goes(o, AfterSettling(typed), seen[o])
           ELSE sent' = [sent EXCEPT ![o] = Report(typed)] /\ Goes(o, "settle", seen[o])
        /\ UNCHANGED <<vars, nat, ctl, frozen, reported, base, waited, docVars>>

\* An error here releases input.
SettledReport(o) ==
    /\ step[o] = "settle"
    /\ ReportDraft(ctl[o], sent[o] = "active")
    /\ reported' = [reported EXCEPT ![o] = IF ReportAccepted THEN sent[o] ELSE @]
    /\ frozen' = [frozen EXCEPT ![o] = ReportAccepted]
    /\ sent' = [sent EXCEPT ![o] = "none"]
    /\ Goes(o, IF ReportAccepted THEN AfterSettling(text[o]) ELSE "idle", seen[o])
    /\ UNCHANGED <<nat, ctl, text, base, waited, docVars>>

\* The host acknowledges a permit for the intent it still holds.
Acknowledged(o) ==
    /\ intent # NoIntent
    /\ ~Expired
    /\ intent.key = seen[o].intent.key
    /\ intent.revision = seen[o].intent.revision

Permit(o) ==
    /\ step[o] = "permit"
    /\ Acknowledged(o)
    /\ GrantPermit(nat[o])
    /\ Goes(o, "wait", NothingSeen)
    /\ UNCHANGED <<nat, ctl, text, frozen, reported, sent, waited, base, docVars>>

\* Mutated form of PermitRefused: a failed response leaves input frozen.
PermitRefusedHolding(o) ==
    /\ step[o] = "permit"
    /\ ~Acknowledged(o)
    /\ Goes(o, "idle", NothingSeen)
    /\ UNCHANGED <<vars, nat, ctl, text, frozen, reported, sent, base, waited, docVars>>

\* A failed response releases input and finishes without showing the project.
PermitRefused(o) ==
    /\ step[o] = "permit"
    /\ ~Acknowledged(o)
    /\ frozen' = [frozen EXCEPT ![o] = FALSE]
    /\ Goes(o, "idle", NothingSeen)
    /\ UNCHANGED <<vars, nat, ctl, text, reported, sent, base, waited, docVars>>

\* Mutated form of WaitIsOver: the window gives up before the host does.
ImpatientWaitIsOver(o) == intent = NoIntent \/ waited[o] + 1 >= HostLife

\* The window polls until no write intent is left, whichever write it is for, or
\* until its own deadline.
WaitIsOver(o) == intent = NoIntent \/ waited[o] = EditorWait

StopWaiting(o) ==
    /\ step[o] = "wait"
    /\ WaitIsOver(o)
    /\ step' = [step EXCEPT ![o] = "refresh"]
    /\ waited' = [waited EXCEPT ![o] = 0]
    /\ UNCHANGED <<vars, nat, ctl, text, frozen, reported, sent, seen, base, docVars>>

\* Mutated form of Refresh: the window adopts the revision and reads nothing.
AdoptsRevision(o) ==
    /\ step[o] = "refresh"
    /\ base' = [base EXCEPT ![o] = revision]
    /\ frozen' = [frozen EXCEPT ![o] = FALSE]
    /\ step' = [step EXCEPT ![o] = "idle"]
    /\ UNCHANGED <<vars, nat, ctl, text, reported, sent, seen, waited, docVars>>

\* _refresh_if_changed describes the session. A window with nothing new to show is
\* done. One with a draft keeps it and its own revision, and marks the document
\* (external_change). Any other adopts the revision, which marks the document, and
\* goes on to read it (refresh_external). The guard releases input at the end.
Refresh(o) ==
    LET changed == base[o] # revision
        adopts == changed /\ text[o] # "draft"
    IN  /\ step[o] = "refresh"
        /\ base' = [base EXCEPT ![o] = IF adopts THEN revision ELSE @]
        /\ stale' = [stale EXCEPT ![o] = @ \/ changed]
        /\ frozen' = [frozen EXCEPT ![o] = @ /\ adopts]
        /\ step' = [step EXCEPT ![o] = IF adopts THEN "show" ELSE "idle"]
        /\ UNCHANGED <<vars, nat, ctl, text, reported, sent, seen, waited, lastRead>>

\* The visible document is read, unless its author has started a draft by now.
Show(o) ==
    /\ step[o] = "show"
    /\ IF text[o] = "draft" THEN UNCHANGED docVars ELSE ReadsDocument(o)
    /\ frozen' = [frozen EXCEPT ![o] = FALSE]
    /\ step' = [step EXCEPT ![o] = "idle"]
    /\ UNCHANGED <<vars, nat, ctl, text, reported, sent, seen, base, waited>>

-----------------------------------------------------------------------------
(* Failures. A request may not start, or be answered with an error; the guard *)
(* releases input all the same, and nothing reads the document again before    *)
(* the next change or the author does.                                         *)

\* What becomes of a write that the window was to show.
Missed(o) == lastRead' = [lastRead EXCEPT ![o] = IF @ = "owed" THEN "missed" ELSE @]

\* Mutated form of RequestFails: a document that could not be read loses its mark.
FailsForgetfully(o) ==
    /\ o \in Unsteady
    /\ step[o] \in {"report", "settle", "permit", "wait", "refresh", "show"}
    /\ stale' = [stale EXCEPT ![o] = @ /\ step[o] # "show"]
    /\ frozen' = [frozen EXCEPT ![o] = FALSE]
    /\ sent' = [sent EXCEPT ![o] = "none"]
    /\ waited' = [waited EXCEPT ![o] = 0]
    /\ Goes(o, "idle", NothingSeen)
    /\ Missed(o)
    /\ UNCHANGED <<vars, nat, ctl, text, reported, base>>

RequestFails(o) ==
    /\ o \in Unsteady
    /\ step[o] \in {"report", "settle", "permit", "wait", "refresh", "show"}
    /\ frozen' = [frozen EXCEPT ![o] = FALSE]
    /\ sent' = [sent EXCEPT ![o] = "none"]
    /\ waited' = [waited EXCEPT ![o] = 0]
    /\ Goes(o, "idle", NothingSeen)
    /\ Missed(o)
    /\ UNCHANGED <<vars, nat, ctl, text, reported, base, stale>>

\* A broken stream leaves unknown whether the host took the outstanding request.
MayHaveTaken(o) ==
    \/ UNCHANGED vars
    \/ step[o] \in {"report", "settle"} /\ ReportDraft(ctl[o], sent[o] = "active")
    \/ step[o] = "permit" /\ Acknowledged(o) /\ GrantPermit(nat[o])

\* The native stream breaks: the outstanding request has no known outcome, input is
\* released, and the window asks for a reopen (requires_reopen), for which its author
\* has to give up what was not applied; the model does that at once, and counts the
\* document as old, since the window reads neither until then. The host learns of the
\* break when it handles the closed connections.
LoseStream(o) ==
    /\ o \in Unsteady
    /\ Open(o)
    /\ MayHaveTaken(o)
    /\ nat' = [nat EXCEPT ![o] = 0]
    /\ ctl' = [ctl EXCEPT ![o] = 0]
    /\ text' = [text EXCEPT ![o] = "none"]
    /\ frozen' = [frozen EXCEPT ![o] = FALSE]
    /\ reported' = [reported EXCEPT ![o] = "unknown"]
    /\ sent' = [sent EXCEPT ![o] = "none"]
    /\ waited' = [waited EXCEPT ![o] = 0]
    /\ stale' = [stale EXCEPT ![o] = TRUE]
    /\ lastRead' = [lastRead EXCEPT ![o] = "missed"]
    /\ Goes(o, "idle", NothingSeen)
    /\ UNCHANGED base

Closed(c) == c # Assistant /\ c \in DOMAIN clients /\ \A o \in Owners : c \notin {nat[o], ctl[o]}

HostDisconnects(c) ==
    /\ Closed(c)
    /\ clients[c].connected
    /\ Disconnect(c)
    /\ UNCHANGED windowVars

\* The host numbers connections as it accepts them; here they attach in that order.
NextAccepted(c) == \A d \in spent : d < c

\* _activate_session, on a new connection: the window adopts the present revision,
\* with its documents marked, and reads the visible one, which may fail; it reports
\* its drafts anew.
Reopens(o, c) ==
    /\ ~Open(o)
    /\ NextAccepted(c)
    /\ AttachNative(c, o)
    /\ nat' = [nat EXCEPT ![o] = c]
    /\ base' = [base EXCEPT ![o] = revision]
    /\ ReadsDocument(o) \/ UNCHANGED docVars
    /\ UNCHANGED <<ctl, step, text, frozen, reported, sent, seen, waited>>

\* begin_status_observer opens the control connection.
OpensControl(o, c) ==
    /\ Open(o)
    /\ ctl[o] = 0
    /\ NextAccepted(c)
    /\ AttachControl(c, nat[o])
    /\ ctl' = [ctl EXCEPT ![o] = c]
    /\ UNCHANGED <<nat, step, text, frozen, reported, sent, seen, base, waited, docVars>>

-----------------------------------------------------------------------------
(* The external client asks for its write again until the permits are there. *)

AssistantAsks(w) ==
    /\ ~Expired
    /\ RequestPermit(Assistant, w)
    /\ UNCHANGED windowVars

AssistantWrites(w) ==
    /\ ~Expired
    /\ ExternalWrite(Assistant, w)
    /\ lastRead' = [o \in Owners |->
                      IF revision' = revision THEN lastRead[o]
                      ELSE IF Open(o) /\ o \notin gaveUp THEN "owed" ELSE "missed"]
    /\ UNCHANGED <<nat, ctl, step, text, frozen, reported, sent, seen, base, waited, stale>>

-----------------------------------------------------------------------------
(* Every window and the external client have attached, which is the subject  *)
(* of Collaboration; assistant edits are paused and no draft is reported.    *)

ConnectedInit ==
    /\ up = TRUE
    /\ clients = [c \in {Assistant} \cup Range(FirstNative) \cup (Range(FirstControl) \ {0}) |->
                    IF c = Assistant THEN NewClient("mcp", NoOwner, 0)
                    ELSE LET o == CHOOSE p \in Owners : c \in {FirstNative[p], FirstControl[p]}
                         IN  IF c = FirstNative[o]
                             THEN [NewClient("native", o, 0) EXCEPT !.bound = FirstControl[o]]
                             ELSE NewClient("native-control", NoOwner, FirstNative[o])]
    /\ spent = DOMAIN clients
    /\ refused = {}
    /\ held = {}
    /\ holdFile = HoldRows(clients, {})
    /\ paused = TRUE
    /\ intent = NoIntent
    /\ revision = 0
    /\ awaiting = Owners
    /\ nat = FirstNative
    /\ ctl = FirstControl
    /\ step = [o \in Owners |-> "idle"]
    /\ text = [o \in Owners |-> "none"]
    /\ frozen = [o \in Owners |-> FALSE]
    /\ reported = [o \in Owners |-> "unknown"]
    /\ sent = [o \in Owners |-> "none"]
    /\ seen = [o \in Owners |-> NothingSeen]
    /\ base = [o \in Owners |-> 0]
    /\ waited = [o \in Owners |-> 0]
    /\ age = 0
    /\ stale = [o \in Owners |-> FALSE]
    /\ lastRead = [o \in Owners |-> "read"]
    /\ gaveUp = {}

Synchronizes(o) ==
    \/ ReadStatus(o) \/ Reported(o) \/ Freeze(o) \/ Settle(o) \/ SettledReport(o)
    \/ Permit(o) \/ PermitRefused(o) \/ StopWaiting(o) \/ Refresh(o) \/ Show(o)

AuthorStep(o) ==
    \/ Types(o) \/ Settles(o) \/ Applies(o) \/ ShowsAgain(o)
    \/ RequestFails(o) \/ LoseStream(o)
    \/ \E allowed \in BOOLEAN : Allows(o, allowed)
    \/ \E c \in Conns : Reopens(o, c) \/ OpensControl(o, c)

\* An intent's age counts from its creation; its permits end with it.
Aging ==
    /\ age' = IF intent = NoIntent \/ intent' = NoIntent THEN 0 ELSE age
    /\ gaveUp' = {o \in Owners : /\ intent' # NoIntent /\ nat'[o] \in intent'.granted
                                  /\ (o \in gaveUp \/ (step[o] = "wait" /\ step'[o] = "idle"))}

ConnectedNext ==
    \/ Tick
    \/ Expire /\ Aging
    \/ \E o \in Owners : (Synchronizes(o) \/ AuthorStep(o)) /\ Aging
    \/ \E c \in Conns : HostDisconnects(c) /\ Aging
    \/ \E w \in Writes : (AssistantAsks(w) \/ AssistantWrites(w)) /\ Aging

ConnectedSpec == ConnectedInit /\ [][ConnectedNext]_allVars

\* The window's engine runs its synchronization, the host answers every request
\* and drops an intent whose time has passed, and time goes on.
ConnectedFairSpec ==
    /\ ConnectedSpec
    /\ WF_vars(Expire)
    /\ WF_allVars(Tick)
    /\ \A o \in Owners : WF_windowVars(Synchronizes(o))

-----------------------------------------------------------------------------
(* Properties. *)

\* An external write happens only while every connected window holds its input
\* and has nothing typed, in a draft or in an unsettled control, however its
\* typing, reports and permits interleave with other windows' (late typing:
\* collaboration.rs, _permit_write; 17 s of waiting outlive the 15 s intent). The
\* one exception is a window whose poll failed while the host had its permit.
WrittenWhileInputIsHeld ==
    [][\A w \in Writes : AssistantWrites(w) =>
          \A o \in Owners : Open(o) => \/ frozen[o] /\ text[o] = "none"
                                       \/ o \in gaveUp /\ step[o] # "wait"]_allVars

\* A connected window that accepts input has read its document since the last
\* external write, or a failure kept it from that; and then the document is still
\* marked, or the window still behind the session, so that the next look at either
\* reads it: no failure in any step makes a window take an old document for current.
NoExternalWriteIsMissed ==
    \A o \in Owners : Open(o) /\ ~frozen[o] =>
        /\ lastRead[o] # "owed"
        /\ lastRead[o] = "missed" => stale[o] \/ base[o] # revision

\* Every freeze ends, even while external clients keep renewing their requests
\* and other windows never grant them (_permit_write's own deadline).
EveryFreezeEnds == \A o \in Owners : frozen[o] ~> ~frozen[o]
=============================================================================
