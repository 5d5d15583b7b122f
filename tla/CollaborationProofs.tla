-------------------------- MODULE CollaborationProofs --------------------------
(***************************************************************************)
(* Proofs about the shared host's coordination, for any number of          *)
(* connections, editor windows and write requests and any hold limit, and  *)
(* about the editor windows that ConnectedEditing composes with it.        *)
(***************************************************************************)
EXTENDS ConnectedEditing, TLAPS

-----------------------------------------------------------------------------
(* Client tables: what the helpers that add and remove clients preserve.    *)

IsTable(t) ==
    /\ DOMAIN t \subseteq Conns
    /\ t \in [DOMAIN t -> ClientState]
    /\ \A c \in DOMAIN t : t[c].kind = "native" => t[c].owner \in Owners

\* Adding a client adds its connection, and only that.
LEMMA WithDomain ==
    ASSUME NEW t, NEW c, NEW s
    PROVE  DOMAIN With(t, c, s) = DOMAIN t \cup {c}
BY DEF With

\* Removing clients adds no connection.
LEMMA WithoutDomain ==
    ASSUME NEW t, NEW gone
    PROVE  DOMAIN Without(t, gone) \subseteq DOMAIN t
BY DEF Without

\* Adding a well-formed client to a well-formed table leaves it well-formed.
LEMMA WithIsTable ==
    ASSUME NEW t, IsTable(t), NEW c \in Conns, NEW s \in ClientState,
           s.kind = "native" => s.owner \in Owners
    PROVE  IsTable(With(t, c, s))
BY DEF IsTable, With

\* Removing clients leaves a table well-formed.
LEMMA WithoutIsTable ==
    ASSUME NEW t, IsTable(t), NEW gone
    PROVE  IsTable(Without(t, gone))
BY DEF IsTable, Without

\* A new client of the four kinds is well-formed.
LEMMA NewClientType ==
    ASSUME NEW kind \in Kinds, NEW owner \in Owners \cup {NoOwner},
           NEW parent \in Conns \cup {0}
    PROVE  /\ NewClient(kind, owner, parent) \in ClientState
           /\ NewClient(kind, owner, parent).kind = kind
           /\ NewClient(kind, owner, parent).owner = owner
BY DEF NewClient, ClientState, Kinds

\* The rows written for a well-formed table are holds.
LEMMA HoldRowsType ==
    ASSUME NEW t, IsTable(t), NEW holds \in SUBSET Hold
    PROVE  HoldRows(t, holds) \in SUBSET Hold
BY DEF IsTable, HoldRows, Hold, ClientState

\* Persisting holds leaves a file of holds.
LEMMA PersistType ==
    ASSUME NEW rows \in SUBSET Hold, holdFile \in SUBSET Hold, Persist(rows)
    PROVE  holdFile' \in SUBSET Hold
BY DEF Persist

\* Binding a control connection leaves the other clients well-formed.
LEMMA ReboundIsTable ==
    ASSUME IsTable(clients), NEW c \in Conns, NEW p
    PROVE  IsTable(Rebound(c, p)) /\ DOMAIN Rebound(c, p) = DOMAIN clients
<1> DEFINE row(d) == [clients[d] EXCEPT !.bound = IF d = p THEN c ELSE @,
                                        !.connected = @ /\ clients[d].parent # p]
<1>1. ASSUME NEW d \in DOMAIN clients
      PROVE  /\ row(d) \in ClientState
             /\ row(d).kind = clients[d].kind
             /\ row(d).owner = clients[d].owner
  BY DEF IsTable, ClientState
<1>2. Rebound(c, p) = [d \in DOMAIN clients |-> row(d)]
  BY DEF Rebound
<1> HIDE DEF row
<1> QED
  BY <1>1, <1>2 DEF IsTable

\* The empty table of a host that just started.
LEMMA NoClientsIsTable == IsTable(NoClients) /\ DOMAIN NoClients = {}
BY DEF IsTable, NoClients

-----------------------------------------------------------------------------
\* The client table, in the words of the lemmas above.
LEMMA TypeOKTable == TypeOK => IsTable(clients)
BY DEF TypeOK, IsTable

\* A host that ended leaves no client and no coordination behind.
LEMMA HostGoneType ==
    ASSUME TypeOK, HostGone, holdFile' \in SUBSET Hold, revision' \in Nat,
           awaiting' \in SUBSET Owners
    PROVE  TypeOK'
<1>1. IsTable(NoClients) /\ DOMAIN NoClients = {}
  BY NoClientsIsTable
<1> QED
  BY <1>1 DEF HostGone, TypeOK, IsTable

-----------------------------------------------------------------------------
\* Every step preserves the type invariant.
LEMMA TypeOKStep ==
    ASSUME TypeOK, [Next]_vars
    PROVE  TypeOK'
<1>t. IsTable(clients)
  BY TypeOKTable
<1> USE <1>t
<1>1. CASE Crash
  BY <1>1, HostGoneType DEF Crash, TypeOK
<1>2. CASE Start
  BY <1>2 DEF Start, TypeOK
<1>3. CASE IntentExpires
  BY <1>3 DEF IntentExpires, ClearIntent, TypeOK
<1>4. ASSUME NEW c \in Conns, ClientStep(c)
      PROVE  TypeOK'
  <2>1. ASSUME NEW o \in Owners, AttachNative(c, o)
        PROVE  TypeOK'
    <3> DEFINE kept == Without(clients, ReplacedBy(o))
               table == With(kept, c, NewClient("native", o, 0))
    <3>1. IsTable(kept) /\ DOMAIN kept \subseteq DOMAIN clients
      BY WithoutDomain, WithoutIsTable
    <3>n. /\ NewClient("native", o, 0) \in ClientState
          /\ NewClient("native", o, 0).owner \in Owners
      BY NewClientType DEF Kinds
    <3>2. IsTable(table) /\ DOMAIN table = DOMAIN kept \cup {c}
      <4> HIDE DEF kept
      <4> QED
        BY <3>1, <3>n, WithDomain, WithIsTable
    <3>3. HoldsWithout(o) \in SUBSET Hold
      BY DEF HoldsWithout, TypeOK
    <3>4. holdFile' \in SUBSET Hold
      BY <2>1, <3>2, <3>3, HoldRowsType, PersistType DEF AttachNative, TypeOK
    <3>5. refused' \in SUBSET spent' /\ awaiting' \in SUBSET Owners
      BY <2>1 DEF AttachNative, TypeOK
    <3> HIDE DEF table, kept
    <3>6. IsTable(clients') /\ DOMAIN clients' \subseteq spent'
      BY <2>1, <3>1, <3>2 DEF AttachNative, TypeOK, table, kept
    <3> QED
      BY <2>1, <3>3, <3>4, <3>5, <3>6 DEF AttachNative, ClearIntent, TypeOK, IsTable
  <2>2. ASSUME NEW p \in Conns, AttachControl(c, p)
        PROVE  TypeOK'
    <3>1. IsTable(Rebound(c, p)) /\ DOMAIN Rebound(c, p) = DOMAIN clients
      BY ReboundIsTable
    <3>2. /\ NewClient("native-control", NoOwner, p) \in ClientState
          /\ NewClient("native-control", NoOwner, p).kind # "native"
      BY NewClientType DEF Kinds
    <3>3. clients' = With(Rebound(c, p), c, NewClient("native-control", NoOwner, p))
      BY <2>2 DEF AttachControl
    <3>4. IsTable(clients')
      BY <3>1, <3>2, <3>3, WithIsTable
    <3>5. DOMAIN clients' = DOMAIN Rebound(c, p) \cup {c}
      BY <3>3, WithDomain
    <3> QED
      BY <2>2, <3>1, <3>4, <3>5 DEF AttachControl, TypeOK, IsTable
  <2>3. ASSUME NEW kind \in {"mcp", "observer"}, AttachPlain(c, kind)
        PROVE  TypeOK'
    <3>n. /\ NewClient(kind, NoOwner, 0) \in ClientState
          /\ NewClient(kind, NoOwner, 0).kind # "native"
      BY NewClientType DEF Kinds
    <3>1. IsTable(clients') /\ DOMAIN clients' = DOMAIN clients \cup {c}
      BY <2>3, <3>n, WithDomain, WithIsTable DEF AttachPlain
    <3> QED
      BY <2>3, <3>1 DEF AttachPlain, TypeOK, IsTable
  <2>4. CASE Disconnect(c)
    <3> DEFINE table == AfterDisconnect(c)
    <3>1. IsTable(table) /\ DOMAIN table \subseteq DOMAIN clients
      <4>1. CASE IsNative(c)
        BY <4>1 DEF AfterDisconnect, IsNative, IsTable, ClientState
      <4>2. CASE ~IsNative(c)
        BY <4>2, WithoutDomain, WithoutIsTable DEF AfterDisconnect
      <4> QED
        BY <4>1, <4>2
    <3> HIDE DEF table
    <3>2. holdFile' \in SUBSET Hold
      BY <2>4, <3>1, HoldRowsType, PersistType DEF Disconnect, TypeOK, table
    <3>3. CASE HostGone
      BY <2>4, <3>2, <3>3, HostGoneType DEF Disconnect, TypeOK
    <3>4. CASE clients' = table /\ UNCHANGED <<up, spent, refused, held, paused, intent>>
      BY <2>4, <3>1, <3>2, <3>4 DEF Disconnect, TypeOK, IsTable
    <3> QED
      BY <2>4, <3>3, <3>4 DEF Disconnect, table
  <2>5. ASSUME NEW active \in BOOLEAN, ReportDraft(c, active)
        PROVE  TypeOK'
    <3>1. PICK p \in DraftTargets(c) :
             LET table == [clients EXCEPT ![p].draft = active, ![p].ready = TRUE]
             IN  /\ clients' = table
                 /\ Persist(HoldRows(table, held))
      BY <2>5 DEF ReportDraft
    <3>2. p \in DOMAIN clients
      BY DEF DraftTargets, ConnectedNatives, Natives
    <3>3. IsTable(clients') /\ DOMAIN clients' = DOMAIN clients
      BY <3>1, <3>2 DEF IsTable, ClientState
    <3>4. holdFile' \in SUBSET Hold
      BY <3>1, <3>3, HoldRowsType, PersistType DEF TypeOK
    <3> QED
      BY <2>5, <3>3, <3>4 DEF ReportDraft, TypeOK, IsTable
  <2>6. CASE GrantPermit(c)
    BY <2>6 DEF GrantPermit, TypeOK, Intent
  <2>7. ASSUME NEW allowed \in BOOLEAN, ExternalEdits(c, allowed)
        PROVE  TypeOK'
    BY <2>7 DEF ExternalEdits, Editors, ConnectedNatives, Natives, TypeOK
  <2>8. ASSUME NEW o \in Owners, ReleaseHold(c, o)
        PROVE  TypeOK'
    <3>1. IsTable(clients') /\ DOMAIN clients' \subseteq DOMAIN clients
      BY <2>8, WithoutDomain, WithoutIsTable DEF ReleaseHold
    <3>2. held' \in SUBSET Hold
      BY <2>8 DEF ReleaseHold, HoldsWithout, TypeOK
    <3>3. holdFile' \in SUBSET Hold
      BY <2>8, <3>1, <3>2, HoldRowsType, PersistType DEF ReleaseHold, TypeOK
    <3> QED
      BY <2>8, <3>1, <3>2, <3>3 DEF ReleaseHold, TypeOK, IsTable
  <2>9. ASSUME NEW target \in Conns, DisconnectClient(c, target)
        PROVE  TypeOK'
    <3>1. IsTable(clients') /\ DOMAIN clients' \subseteq DOMAIN clients
      BY <2>9, WithoutDomain, WithoutIsTable DEF DisconnectClient
    <3> QED
      BY <2>9, <3>1 DEF DisconnectClient, ClearIntent, TypeOK, IsTable
  <2>10. CASE Detach(c)
    <3>1. IsTable(clients') /\ DOMAIN clients' \subseteq DOMAIN clients
      BY <2>10, WithoutDomain, WithoutIsTable DEF Detach
    <3>2. holdFile' \in SUBSET Hold
      BY <2>10, <3>1, HoldRowsType, PersistType DEF Detach, TypeOK
    <3> QED
      BY <2>10, <3>1, <3>2 DEF Detach, TypeOK, IsTable
  <2>11. CASE ReplaceSupport(c)
    BY <2>11 DEF ReplaceSupport, ClearIntent, Editors, ConnectedNatives, Natives, TypeOK
  <2>12. ASSUME NEW w \in Writes, RequestPermit(c, w)
         PROVE  TypeOK'
    BY <2>12 DEF RequestPermit, TypeOK, Intent
  <2>13. ASSUME NEW w \in Writes, ExternalWrite(c, w)
         PROVE  TypeOK'
    BY <2>13 DEF ExternalWrite, ClearIntent, TypeOK
  <2>14. CASE NativeWrite(c)
    BY <2>14 DEF NativeWrite, ClearIntent, TypeOK
  <2> QED
    BY <1>4, <2>1, <2>2, <2>3, <2>4, <2>5, <2>6, <2>7, <2>8, <2>9, <2>10, <2>11,
       <2>12, <2>13, <2>14 DEF ClientStep
<1>5. CASE UNCHANGED vars
  BY <1>5 DEF vars, TypeOK
<1> QED
  BY <1>1, <1>2, <1>3, <1>4, <1>5 DEF Next

\* The type invariant holds of every reachable state of the host.
THEOREM TypeCorrect == Spec => []TypeOK
<1>1. Init => TypeOK
  <2> SUFFICES ASSUME Init PROVE TypeOK
    OBVIOUS
  <2>1. IsTable(clients) /\ DOMAIN clients = {}
    BY NoClientsIsTable DEF Init
  <2> QED
    BY <2>1 DEF Init, TypeOK, IsTable
<1>2. TypeOK /\ [Next]_vars => TypeOK'
  BY TypeOKStep
<1> QED
  BY <1>1, <1>2, PTL DEF Spec

-----------------------------------------------------------------------------
(* Steps that leave the editors on record alone.                            *)

\* Two tables list the same native editors with the same draft marks.
SameEditors(t, u) ==
    /\ {c \in DOMAIN t : t[c].kind = "native"} = {c \in DOMAIN u : u[c].kind = "native"}
    /\ \A c \in DOMAIN t : t[c].kind = "native" => /\ t[c].owner = u[c].owner
                                                   /\ t[c].draft = u[c].draft

Quiet ==
    /\ SameEditors(clients, clients')
    /\ up \/ clients' = clients
    /\ UNCHANGED <<up, refused, held, holdFile, paused, awaiting>>

\* The steps that are not quiet.
Loud ==
    \/ Crash
    \/ Start
    \/ \E c \in Conns :
          \/ \E o \in Owners : AttachNative(c, o)
          \/ Disconnect(c)
          \/ \E active \in BOOLEAN : ReportDraft(c, active)
          \/ \E allowed \in BOOLEAN : ExternalEdits(c, allowed)
          \/ \E o \in Owners : ReleaseHold(c, o)
          \/ Detach(c)
          \/ ReplaceSupport(c)

\* Attaching and dropping control connections, assistants and observers, permits
\* and writes leave the editors and their holds alone.
LEMMA QuietOrLoud ==
    ASSUME TypeOK, [Next]_vars
    PROVE  Quiet \/ Loud
<1> USE DEF Quiet, SameEditors
<1>1. CASE IntentExpires
  BY <1>1 DEF IntentExpires
<1>2. ASSUME NEW c \in Conns, ClientStep(c)
      PROVE  Quiet \/ Loud
  <2>1. ASSUME NEW p \in Conns, AttachControl(c, p)
        PROVE  Quiet
    <3>1. c \notin DOMAIN clients
      BY <2>1 DEF AttachControl, TypeOK
    <3>2. \A d \in DOMAIN clients : /\ Rebound(c, p)[d].kind = clients[d].kind
                                    /\ Rebound(c, p)[d].owner = clients[d].owner
                                    /\ Rebound(c, p)[d].draft = clients[d].draft
      BY DEF Rebound, TypeOK, ClientState
    <3>3. DOMAIN Rebound(c, p) = DOMAIN clients
      BY DEF Rebound
    <3> QED
      BY <2>1, <3>1, <3>2, <3>3 DEF AttachControl, With, NewClient
  <2>2. ASSUME NEW kind \in {"mcp", "observer"}, AttachPlain(c, kind)
        PROVE  Quiet
    BY <2>2 DEF AttachPlain, With, NewClient, TypeOK
  <2>3. CASE GrantPermit(c)
    BY <2>3 DEF GrantPermit
  <2>4. ASSUME NEW target \in Conns, DisconnectClient(c, target)
        PROVE  Quiet
    BY <2>4 DEF DisconnectClient, IsMcp, Without
  <2>5. ASSUME NEW w \in Writes, RequestPermit(c, w) \/ ExternalWrite(c, w)
        PROVE  Quiet
    BY <2>5 DEF RequestPermit, ExternalWrite
  <2>6. CASE NativeWrite(c)
    BY <2>6 DEF NativeWrite
  <2> QED
    BY <1>2, <2>1, <2>2, <2>3, <2>4, <2>5, <2>6 DEF ClientStep, Loud
<1>3. CASE UNCHANGED vars
  BY <1>3 DEF vars
<1> QED
  BY <1>1, <1>2, <1>3 DEF Next, Loud

-----------------------------------------------------------------------------
(* The persisted holds.                                                     *)

DownIsEmpty == ~up => DOMAIN clients = {}

\* Tables with the same editors write the same rows.
LEMMA SameRows ==
    ASSUME NEW t, NEW u, NEW holds, SameEditors(t, u)
    PROVE  HoldRows(t, holds) = HoldRows(u, holds)
BY DEF SameEditors, HoldRows

\* Handlers that persist leave the file current.
LEMMA PersistIsCurrent ==
    ASSUME Persist(HoldRows(clients', held'))
    PROVE  HoldFileCurrent'
BY DEF Persist, HoldFileCurrent, Fits

LEMMA HoldFileStep ==
    ASSUME TypeOK, DownIsEmpty, HoldFileCurrent, [Next]_vars
    PROVE  DownIsEmpty' /\ HoldFileCurrent'
<1>q. CASE Quiet
  <2>1. HoldRows(clients', held') = HoldRows(clients, held)
    BY <1>q, SameRows DEF Quiet
  <2> QED
    BY <1>q, <2>1 DEF Quiet, DownIsEmpty, HoldFileCurrent
<1>1. CASE Crash
  BY <1>1, NoClientsIsTable DEF Crash, HostGone, DownIsEmpty, HoldFileCurrent
<1>2. CASE Start
  <2>1. HoldRows(clients', held') = holdFile'
    BY <1>2 DEF Start, DownIsEmpty, HoldRows
  <2> QED
    BY <1>2, <2>1 DEF Start, DownIsEmpty, HoldFileCurrent
<1>3. ASSUME NEW c \in Conns, NEW o \in Owners, AttachNative(c, o)
      PROVE  DownIsEmpty' /\ HoldFileCurrent'
  BY <1>3, PersistIsCurrent DEF AttachNative, DownIsEmpty
<1>4. ASSUME NEW c \in Conns, Disconnect(c)
      PROVE  DownIsEmpty' /\ HoldFileCurrent'
  <2>1. CASE HostGone
    BY <2>1, NoClientsIsTable DEF HostGone, DownIsEmpty, HoldFileCurrent
  <2>2. CASE /\ clients' = AfterDisconnect(c)
             /\ UNCHANGED <<up, held>>
    BY <1>4, <2>2, PersistIsCurrent DEF Disconnect, DownIsEmpty
  <2> QED
    BY <1>4, <2>1, <2>2 DEF Disconnect
<1>5. ASSUME NEW c \in Conns, NEW active \in BOOLEAN, ReportDraft(c, active)
      PROVE  DownIsEmpty' /\ HoldFileCurrent'
  <2>1. up' /\ Persist(HoldRows(clients', held'))
    BY <1>5 DEF ReportDraft
  <2> QED
    BY <2>1, PersistIsCurrent DEF DownIsEmpty
<1>6. ASSUME NEW c \in Conns, NEW allowed \in BOOLEAN, ExternalEdits(c, allowed)
      PROVE  DownIsEmpty' /\ HoldFileCurrent'
  BY <1>6 DEF ExternalEdits, DownIsEmpty, HoldFileCurrent
<1>7. ASSUME NEW c \in Conns, NEW o \in Owners, ReleaseHold(c, o)
      PROVE  DownIsEmpty' /\ HoldFileCurrent'
  BY <1>7, PersistIsCurrent DEF ReleaseHold, DownIsEmpty
<1>8. ASSUME NEW c \in Conns, Detach(c)
      PROVE  DownIsEmpty' /\ HoldFileCurrent'
  BY <1>8, PersistIsCurrent DEF Detach, DownIsEmpty
<1>9. ASSUME NEW c \in Conns, ReplaceSupport(c)
      PROVE  DownIsEmpty' /\ HoldFileCurrent'
  BY <1>9 DEF ReplaceSupport, DownIsEmpty, HoldFileCurrent
<1> QED
  BY <1>q, <1>1, <1>2, <1>3, <1>4, <1>5, <1>6, <1>7, <1>8, <1>9, QuietOrLoud DEF Loud

\* While a host serves, the hold file is exactly what a crash must leave behind.
THEOREM HoldFileIsCurrent == Spec => []HoldFileCurrent
<1>1. Init => DownIsEmpty /\ HoldFileCurrent
  BY NoClientsIsTable DEF Init, DownIsEmpty, HoldFileCurrent
<1>2. TypeOK /\ DownIsEmpty /\ HoldFileCurrent /\ [Next]_vars
         => DownIsEmpty' /\ HoldFileCurrent'
  BY HoldFileStep
<1> QED
  BY <1>1, <1>2, TypeCorrect, PTL DEF Spec

-----------------------------------------------------------------------------
(* Consent. An editor whose consent is outstanding is on file, on record in  *)
(* the live host, and a disconnected hold once the host no longer pauses.    *)

NativeOwners(t) == {t[c].owner : c \in {d \in DOMAIN t : t[d].kind = "native"}}

ConsentInv ==
    /\ awaiting \subseteq OwnersOf(holdFile)
    /\ up => awaiting \subseteq OwnersOf(held) \cup NativeOwners(clients)
    /\ up /\ ~paused => awaiting \subseteq OwnersOf(held)
    /\ \A c \in Natives \ refused : clients[c].owner \in OwnersOf(holdFile)

\* The owners named by the rows that are written.
LEMMA OwnersOfRows ==
    ASSUME NEW t, NEW holds
    PROVE  OwnersOf(HoldRows(t, holds)) = OwnersOf(holds) \cup NativeOwners(t)
<1> DEFINE native == {d \in DOMAIN t : t[d].kind = "native"}
           row(c) == [owner |-> t[c].owner, draft |-> t[c].draft]
<1>1. HoldRows(t, holds) = holds \cup {row(c) : c \in native}
  BY DEF HoldRows
<1>2. NativeOwners(t) = {t[c].owner : c \in native}
  BY DEF NativeOwners
<1>3. \A c : row(c).owner = t[c].owner
  OBVIOUS
<1> HIDE DEF native, row
<1> QED
  BY <1>1, <1>2, <1>3 DEF OwnersOf

\* An editor that is on file and among the rows to write stays on file.
LEMMA PersistKeeps ==
    ASSUME NEW t, NEW holds, Persist(HoldRows(t, holds)),
           NEW o \in OwnersOf(holdFile), o \in OwnersOf(holds) \cup NativeOwners(t)
    PROVE  o \in OwnersOf(holdFile')
BY OwnersOfRows DEF Persist

\* Removing an owner's clients and hold keeps every other owner.
LEMMA OthersKept ==
    ASSUME NEW o, NEW p, p # o
    PROVE  /\ p \in NativeOwners(clients) => p \in NativeOwners(Without(clients, ReplacedBy(o)))
           /\ p \in OwnersOf(held) => p \in OwnersOf(HoldsWithout(o))
BY DEF NativeOwners, Without, ReplacedBy, OwnersOf, HoldsWithout

LEMMA ConsentStep ==
    ASSUME TypeOK, ConsentInv, [Next]_vars
    PROVE  ConsentInv'
<1>q. CASE Quiet
  <2>1. NativeOwners(clients') = NativeOwners(clients) /\ Natives' = Natives
    BY <1>q DEF Quiet, SameEditors, NativeOwners, Natives
  <2>2. \A c \in Natives : clients'[c].owner = clients[c].owner
    BY <1>q DEF Quiet, SameEditors, Natives
  <2> QED
    BY <1>q, <2>1, <2>2 DEF Quiet, ConsentInv
<1>1. CASE Crash
  BY <1>1, NoClientsIsTable DEF Crash, HostGone, ConsentInv, Natives
<1>2. CASE Start
  BY <1>2 DEF Start, ConsentInv, Natives
<1>3. ASSUME NEW c \in Conns, NEW o \in Owners, AttachNative(c, o)
      PROVE  ConsentInv'
  <2> DEFINE kept == Without(clients, ReplacedBy(o))
             new == NewClient("native", o, 0)
             rows == HoldRows(clients', held')
  <2>1. /\ clients' = With(kept, c, new)
        /\ held' = HoldsWithout(o)
        /\ Persist(rows)
        /\ paused'
        /\ IF Fits(rows)
           THEN refused' = refused /\ awaiting' = awaiting \cup {o}
           ELSE refused' = refused \cup {c} /\ awaiting' = awaiting
    BY <1>3 DEF AttachNative
  <2>2. c \notin DOMAIN kept
    BY <1>3, WithoutDomain DEF AttachNative, TypeOK
  <2>3. new.kind = "native" /\ new.owner = o
    BY DEF NewClient
  <2> HIDE DEF new
  <2>4. NativeOwners(clients') = NativeOwners(kept) \cup {o}
    <3> HIDE DEF kept
    <3> QED
      BY <2>1, <2>2, <2>3 DEF NativeOwners, With
  <2>5. \A p \in OwnersOf(held) \cup NativeOwners(clients) :
           p \in OwnersOf(held') \cup NativeOwners(clients')
    BY <2>1, <2>4, OthersKept
  <2>6. awaiting \subseteq OwnersOf(held') \cup NativeOwners(clients')
    BY <1>3, <2>5 DEF ConsentInv, AttachNative
  <2>7. CASE Fits(rows)
    <3>1. OwnersOf(holdFile') = OwnersOf(held') \cup NativeOwners(clients')
      BY <2>1, <2>7, OwnersOfRows DEF Persist
    <3>2. awaiting' \subseteq OwnersOf(held') \cup NativeOwners(clients')
      BY <2>1, <2>4, <2>6, <2>7
    <3>3. \A d \in Natives' : clients'[d].owner \in NativeOwners(clients')
      BY DEF Natives, NativeOwners
    <3> QED
      BY <2>1, <3>1, <3>2, <3>3 DEF ConsentInv
  <2>8. CASE ~Fits(rows)
    <3>1. holdFile' = holdFile /\ awaiting' = awaiting /\ refused' = refused \cup {c}
      BY <2>1, <2>8 DEF Persist
    <3>2. \A d \in Natives' \ {c} : d \in Natives /\ clients'[d].owner = clients[d].owner
      BY <2>1 DEF With, Without, Natives
    <3> QED
      BY <2>1, <2>6, <3>1, <3>2 DEF ConsentInv
  <2> QED
    BY <2>7, <2>8
<1>4. ASSUME NEW c \in Conns, Disconnect(c)
      PROVE  ConsentInv'
  <2> DEFINE table == AfterDisconnect(c)
  <2>1. /\ \A d : (d \in DOMAIN table /\ table[d].kind = "native") <=> d \in Natives
        /\ \A d \in Natives : table[d].owner = clients[d].owner
    BY DEF AfterDisconnect, Without, IsNative, Natives, TypeOK, ClientState
  <2> HIDE DEF table
  <2>2. NativeOwners(table) = NativeOwners(clients)
    BY <2>1 DEF NativeOwners, Natives
  <2>3. Persist(HoldRows(table, held)) /\ up /\ awaiting' = awaiting
    BY <1>4 DEF Disconnect, table
  <2>4. awaiting' \subseteq OwnersOf(holdFile')
    BY <2>2, <2>3, PersistKeeps DEF ConsentInv
  <2>5. CASE HostGone
    BY <2>4, <2>5, NoClientsIsTable DEF HostGone, ConsentInv, Natives
  <2>6. CASE clients' = table /\ UNCHANGED <<up, spent, refused, held, paused, intent>>
    <3>1. Natives' = Natives
      BY <2>1, <2>6 DEF Natives
    <3>2. \A d \in Natives : clients[d].owner \in NativeOwners(clients)
      BY DEF Natives, NativeOwners
    <3>3. \A d \in Natives' \ refused' : clients'[d].owner \in OwnersOf(holdFile')
      BY <2>1, <2>2, <2>3, <2>6, <3>1, <3>2, PersistKeeps DEF ConsentInv
    <3> QED
      BY <2>2, <2>3, <2>4, <2>6, <3>3 DEF ConsentInv
  <2> QED
    BY <1>4, <2>5, <2>6 DEF Disconnect, table
<1>5. ASSUME NEW c \in Conns, NEW active \in BOOLEAN, ReportDraft(c, active)
      PROVE  ConsentInv'
  <2>1. /\ Persist(HoldRows(clients', held'))
        /\ UNCHANGED <<up, refused, held, paused, awaiting>>
    BY <1>5 DEF ReportDraft
  <2>2. Natives' = Natives /\ \A d \in Natives : clients'[d].owner = clients[d].owner
    BY <1>5 DEF ReportDraft, DraftTargets, ConnectedNatives, Natives, TypeOK, ClientState
  <2>3. NativeOwners(clients') = NativeOwners(clients)
    BY <2>2 DEF NativeOwners, Natives
  <2>4. \A d \in Natives : clients[d].owner \in NativeOwners(clients)
    BY DEF Natives, NativeOwners
  <2>5. awaiting' \subseteq OwnersOf(holdFile')
    BY <1>5, <2>1, <2>3, PersistKeeps DEF ConsentInv, ReportDraft
  <2>6. \A d \in Natives' \ refused' : clients'[d].owner \in OwnersOf(holdFile')
    BY <2>1, <2>2, <2>3, <2>4, PersistKeeps DEF ConsentInv
  <2> QED
    BY <2>1, <2>3, <2>5, <2>6 DEF ConsentInv
<1>6. ASSUME NEW c \in Conns, NEW allowed \in BOOLEAN, ExternalEdits(c, allowed)
      PROVE  ConsentInv'
  <2>1. c \in Natives \ refused /\ clients[c].owner \in NativeOwners(clients)
    BY <1>6 DEF ExternalEdits, Editors, ConnectedNatives, Natives, NativeOwners
  <2> QED
    BY <1>6, <2>1 DEF ExternalEdits, ConsentInv, Natives
<1>7. ASSUME NEW c \in Conns, NEW o \in Owners, ReleaseHold(c, o)
      PROVE  ConsentInv'
  <2>1. /\ clients' = Without(clients, ReplacedBy(o))
        /\ held' = HoldsWithout(o)
        /\ Persist(HoldRows(clients', held'))
        /\ awaiting' = awaiting \ {o}
        /\ up
        /\ UNCHANGED <<up, refused, paused>>
    BY <1>7 DEF ReleaseHold
  <2>2. \A p \in awaiting' : p \in OwnersOf(held') \cup NativeOwners(clients')
    BY <2>1, OthersKept DEF ConsentInv
  <2>3. awaiting' \subseteq OwnersOf(holdFile')
    BY <2>1, <2>2, PersistKeeps DEF ConsentInv
  <2>4. ~paused' => awaiting' \subseteq OwnersOf(held')
    BY <2>1, OthersKept DEF ConsentInv
  <2>5. \A d \in Natives' : /\ d \in Natives
                            /\ clients'[d].owner = clients[d].owner
                            /\ clients'[d].owner \in NativeOwners(clients')
    BY <2>1 DEF Natives, Without, NativeOwners
  <2>6. \A d \in Natives' \ refused' : clients'[d].owner \in OwnersOf(holdFile')
    BY <2>1, <2>5, PersistKeeps DEF ConsentInv
  <2> QED
    BY <2>1, <2>2, <2>3, <2>4, <2>6 DEF ConsentInv
<1>8. ASSUME NEW c \in Conns, Detach(c)
      PROVE  ConsentInv'
  <2>1. /\ clients' = Without(clients, {c})
        /\ Persist(HoldRows(clients', held'))
        /\ awaiting' = awaiting \ {clients[c].owner}
        /\ up
        /\ UNCHANGED <<up, refused, held, paused>>
    BY <1>8 DEF Detach
  <2>2. \A p \in NativeOwners(clients) \ {clients[c].owner} : p \in NativeOwners(clients')
    BY <2>1 DEF NativeOwners, Without
  <2>3. awaiting' \subseteq OwnersOf(held') \cup NativeOwners(clients')
    BY <2>1, <2>2 DEF ConsentInv
  <2>4. awaiting' \subseteq OwnersOf(holdFile')
    BY <2>1, <2>3, PersistKeeps DEF ConsentInv
  <2>5. \A d \in Natives' : /\ d \in Natives
                            /\ clients'[d].owner = clients[d].owner
                            /\ clients'[d].owner \in NativeOwners(clients')
    BY <2>1 DEF Natives, Without, NativeOwners
  <2>6. \A d \in Natives' \ refused' : clients'[d].owner \in OwnersOf(holdFile')
    BY <2>1, <2>5, PersistKeeps DEF ConsentInv
  <2> QED
    BY <2>1, <2>3, <2>4, <2>6 DEF ConsentInv
<1>9. ASSUME NEW c \in Conns, ReplaceSupport(c)
      PROVE  ConsentInv'
  <2>1. c \in Natives \ refused /\ clients[c].owner \in NativeOwners(clients)
    BY <1>9 DEF ReplaceSupport, Editors, ConnectedNatives, Natives, NativeOwners
  <2> QED
    BY <1>9, <2>1 DEF ReplaceSupport, ConsentInv, Natives
<1> QED
  BY <1>q, <1>1, <1>2, <1>3, <1>4, <1>5, <1>6, <1>7, <1>8, <1>9, QuietOrLoud DEF Loud

\* No external write is accepted while an editor's consent is outstanding.
LEMMA WriteNeedsConsent ==
    ASSUME ConsentInv, NEW c \in Conns, NEW w \in Writes, ExternalWrite(c, w)
    PROVE  awaiting = {}
BY DEF ExternalWrite, MayWriteExternally, HasDrafts, ConsentInv, OwnersOf

\* Assistant edits happen only with consent, whatever crashes come in between.
THEOREM ConsentRespected == Spec => ConsentBeforeExternalWrite
<1>1. Init => ConsentInv
  BY NoClientsIsTable DEF Init, ConsentInv, Natives
<1>2. TypeOK /\ ConsentInv /\ [Next]_vars => ConsentInv'
  BY ConsentStep
<1>3. ConsentInv => [\A c \in Conns, w \in Writes : ExternalWrite(c, w) => awaiting = {}]_vars
  BY WriteNeedsConsent
<1> QED
  BY <1>1, <1>2, <1>3, TypeCorrect, PTL DEF Spec, ConsentBeforeExternalWrite

-----------------------------------------------------------------------------
(* One editor window, one client or one hold. The file must be as unique as *)
(* the memory it may one day replace.                                       *)

UniqueFile == \A h, g \in holdFile : h.owner = g.owner => h = g

UniqueIn(t, holds) ==
    /\ \A c, d \in DOMAIN t :
          t[c].kind = "native" /\ t[d].kind = "native" /\ t[c].owner = t[d].owner => c = d
    /\ \A h, g \in holds : h.owner = g.owner => h = g
    /\ \A c \in DOMAIN t : t[c].kind = "native" => \A h \in holds : h.owner # t[c].owner

LEMMA UniqueInMeaning ==
    OwnersUnique <=> UniqueIn(clients, held)
BY DEF OwnersUnique, UniqueIn, Natives, OwnersOf

\* Unique editors and holds write unique rows.
LEMMA PersistUnique ==
    ASSUME NEW t, NEW holds, UniqueIn(t, holds), UniqueFile, Persist(HoldRows(t, holds))
    PROVE  UniqueFile'
<1>1. ASSUME NEW h \in HoldRows(t, holds), NEW g \in HoldRows(t, holds), h.owner = g.owner
      PROVE  h = g
  BY <1>1 DEF UniqueIn, HoldRows
<1> QED
  BY <1>1 DEF Persist, UniqueFile

\* Removing clients and holds keeps the rest unique.
LEMMA UniqueWithout ==
    ASSUME NEW t, NEW holds, UniqueIn(t, holds), NEW gone, NEW kept \in SUBSET holds
    PROVE  UniqueIn(Without(t, gone), kept)
BY DEF UniqueIn, Without

LEMMA UniqueStep ==
    ASSUME TypeOK, DownIsEmpty, UniqueIn(clients, held), UniqueFile, [Next]_vars
    PROVE  UniqueIn(clients', held') /\ UniqueFile'
<1>q. CASE Quiet
  <2>1. \A c \in DOMAIN clients' : clients'[c].kind = "native" =>
           /\ c \in DOMAIN clients
           /\ clients[c].kind = "native"
           /\ clients'[c].owner = clients[c].owner
    BY <1>q DEF Quiet, SameEditors
  <2> QED
    BY <1>q, <2>1 DEF Quiet, UniqueIn, UniqueFile
<1>1. CASE Crash
  BY <1>1, NoClientsIsTable DEF Crash, HostGone, UniqueIn, UniqueFile
<1>2. CASE Start
  BY <1>2 DEF Start, DownIsEmpty, UniqueIn, UniqueFile
<1>3. ASSUME NEW c \in Conns, NEW o \in Owners, AttachNative(c, o)
      PROVE  UniqueIn(clients', held') /\ UniqueFile'
  <2> DEFINE kept == Without(clients, ReplacedBy(o))
             new == NewClient("native", o, 0)
  <2>1. clients' = With(kept, c, new) /\ held' = HoldsWithout(o) /\ Persist(HoldRows(clients', held'))
    BY <1>3 DEF AttachNative
  <2>2. UniqueIn(kept, held')
    BY <2>1, UniqueWithout DEF HoldsWithout
  <2>3. \A d \in DOMAIN kept : kept[d].owner # o
    BY DEF Without, ReplacedBy
  <2>4. \A h \in held' : h.owner # o
    BY <2>1 DEF HoldsWithout
  <2>5. new.kind = "native" /\ new.owner = o
    BY DEF NewClient
  <2> HIDE DEF kept, new
  <2>6. UniqueIn(clients', held')
    BY <2>1, <2>2, <2>3, <2>4, <2>5 DEF UniqueIn, With
  <2> QED
    BY <2>1, <2>6, PersistUnique
<1>4. ASSUME NEW c \in Conns, Disconnect(c)
      PROVE  UniqueIn(clients', held') /\ UniqueFile'
  <2> DEFINE table == AfterDisconnect(c)
  <2>1. UniqueIn(table, held)
    BY DEF AfterDisconnect, Without, UniqueIn, IsNative, TypeOK, ClientState
  <2>2. UniqueFile'
    BY <1>4, <2>1, PersistUnique DEF Disconnect
  <2>3. CASE HostGone
    BY <2>2, <2>3, NoClientsIsTable DEF HostGone, UniqueIn
  <2>4. CASE clients' = table /\ held' = held
    BY <2>1, <2>2, <2>4
  <2> QED
    BY <1>4, <2>3, <2>4 DEF Disconnect
<1>5. ASSUME NEW c \in Conns, NEW active \in BOOLEAN, ReportDraft(c, active)
      PROVE  UniqueIn(clients', held') /\ UniqueFile'
  <2>1. held' = held /\ Persist(HoldRows(clients', held'))
    BY <1>5 DEF ReportDraft
  <2>2. /\ DOMAIN clients' = DOMAIN clients
        /\ \A d \in DOMAIN clients : /\ clients'[d].kind = clients[d].kind
                                     /\ clients'[d].owner = clients[d].owner
    BY <1>5 DEF ReportDraft, DraftTargets, ConnectedNatives, Natives, TypeOK, ClientState
  <2>3. UniqueIn(clients', held')
    BY <2>1, <2>2 DEF UniqueIn
  <2> QED
    BY <2>1, <2>3, PersistUnique
<1>6. ASSUME NEW c \in Conns, NEW allowed \in BOOLEAN, ExternalEdits(c, allowed)
      PROVE  UniqueIn(clients', held') /\ UniqueFile'
  BY <1>6 DEF ExternalEdits, UniqueFile
<1>7. ASSUME NEW c \in Conns, NEW o \in Owners, ReleaseHold(c, o)
      PROVE  UniqueIn(clients', held') /\ UniqueFile'
  BY <1>7, UniqueWithout, PersistUnique DEF ReleaseHold, HoldsWithout
<1>8. ASSUME NEW c \in Conns, Detach(c)
      PROVE  UniqueIn(clients', held') /\ UniqueFile'
  BY <1>8, UniqueWithout, PersistUnique DEF Detach
<1>9. ASSUME NEW c \in Conns, ReplaceSupport(c)
      PROVE  UniqueIn(clients', held') /\ UniqueFile'
  BY <1>9 DEF ReplaceSupport, UniqueFile
<1> QED
  BY <1>q, <1>1, <1>2, <1>3, <1>4, <1>5, <1>6, <1>7, <1>8, <1>9, QuietOrLoud DEF Loud

\* One editor window is at most one native client or one hold, across returns,
\* releases, crashes and restarts.
THEOREM EditorsAreUnique == Spec => []OwnersUnique
<1> DEFINE Unique == UniqueIn(clients, held) /\ UniqueFile
<1>1. Init => Unique
  BY NoClientsIsTable DEF Init, UniqueIn, UniqueFile
<1>2. TypeOK /\ DownIsEmpty /\ Unique /\ [Next]_vars => Unique'
  BY UniqueStep
<1>3. Unique => OwnersUnique
  BY UniqueInMeaning
<1>4. Init => DownIsEmpty /\ HoldFileCurrent
  BY NoClientsIsTable DEF Init, DownIsEmpty, HoldFileCurrent
<1>5. TypeOK /\ DownIsEmpty /\ HoldFileCurrent /\ [Next]_vars
         => DownIsEmpty' /\ HoldFileCurrent'
  BY HoldFileStep
<1> HIDE DEF Unique
<1> QED
  BY <1>1, <1>2, <1>3, <1>4, <1>5, TypeCorrect, PTL DEF Spec

-----------------------------------------------------------------------------
(* Permits.                                                                 *)

\* Every editor left was there before, and none that was ready has become unready.
NoneUnsettled ==
    \A c \in DOMAIN clients' : clients'[c].kind = "native" =>
        /\ c \in Natives
        /\ clients[c].ready /\ ~clients[c].draft => clients'[c].ready /\ ~clients'[c].draft

\* Steps that keep a pending intent leave what it vouches for as it was.
LEMMA IntentKept ==
    ASSUME TypeOK, [Next]_vars
    PROVE  \/ intent' = NoIntent
           \/ /\ up' = up /\ (paused' => paused) /\ revision' = revision /\ intent' = intent
              /\ NoneUnsettled
           \/ \E c \in Conns : GrantPermit(c) \/ \E w \in Writes : RequestPermit(c, w)
           \/ Start
<1> DEFINE Goal ==
           \/ intent' = NoIntent
           \/ /\ up' = up /\ (paused' => paused) /\ revision' = revision /\ intent' = intent
              /\ NoneUnsettled
           \/ \E c \in Conns : GrantPermit(c) \/ \E w \in Writes : RequestPermit(c, w)
           \/ Start
<1>1. CASE Crash \/ IntentExpires
  BY <1>1 DEF Crash, HostGone, IntentExpires, ClearIntent
<1>2. ASSUME NEW c \in Conns, ClientStep(c)
      PROVE  Goal
  <2>1. ASSUME NEW o \in Owners, AttachNative(c, o)
        PROVE  Goal
    BY <2>1 DEF AttachNative, ClearIntent
  <2>2. ASSUME NEW p \in Conns, AttachControl(c, p)
        PROVE  Goal
    <3>1. \A d \in DOMAIN clients : /\ Rebound(c, p)[d].kind = clients[d].kind
                                    /\ Rebound(c, p)[d].ready = clients[d].ready
                                    /\ Rebound(c, p)[d].draft = clients[d].draft
      BY DEF Rebound, TypeOK, ClientState
    <3>2. DOMAIN Rebound(c, p) = DOMAIN clients
      BY DEF Rebound
    <3>3. NoneUnsettled
      BY <2>2, <3>1, <3>2 DEF AttachControl, With, NewClient, NoneUnsettled, Natives
    <3> QED
      BY <2>2, <3>3 DEF AttachControl
  <2>3. ASSUME NEW kind \in {"mcp", "observer"}, AttachPlain(c, kind)
        PROVE  Goal
    BY <2>3 DEF AttachPlain, With, NewClient, NoneUnsettled, Natives
  <2>4. CASE Disconnect(c)
    <3>1. CASE HostGone
      BY <3>1 DEF HostGone
    <3>2. CASE clients' = AfterDisconnect(c) /\ UNCHANGED <<up, spent, refused, held, paused, intent>>
      BY <2>4, <3>2 DEF Disconnect, AfterDisconnect, Without, IsNative, NoneUnsettled,
                        Natives, TypeOK, ClientState
    <3> QED
      BY <2>4, <3>1, <3>2 DEF Disconnect
  <2>5. ASSUME NEW active \in BOOLEAN, ReportDraft(c, active)
        PROVE  Goal
    <3>1. CASE active
      BY <2>5, <3>1 DEF ReportDraft
    <3>2. CASE ~active
      BY <2>5, <3>2 DEF ReportDraft, DraftTargets, ConnectedNatives, Natives,
                        NoneUnsettled, TypeOK, ClientState
    <3> QED
      BY <3>1, <3>2
  <2>6. ASSUME NEW allowed \in BOOLEAN, ExternalEdits(c, allowed)
        PROVE  Goal
    <3>1. CASE ~allowed
      BY <2>6, <3>1 DEF ExternalEdits
    <3>2. CASE allowed
      BY <2>6, <3>2 DEF ExternalEdits, ClearIntent, NoneUnsettled, Natives
    <3> QED
      BY <3>1, <3>2
  <2>7. ASSUME NEW o \in Owners, ReleaseHold(c, o)
        PROVE  Goal
    BY <2>7 DEF ReleaseHold, Without, NoneUnsettled, Natives
  <2>8. ASSUME NEW target \in Conns, DisconnectClient(c, target)
        PROVE  Goal
    BY <2>8 DEF DisconnectClient, ClearIntent
  <2>9. CASE Detach(c)
    BY <2>9 DEF Detach, Without, NoneUnsettled, Natives
  <2>10. CASE ReplaceSupport(c)
    BY <2>10 DEF ReplaceSupport, ClearIntent
  <2>11. ASSUME NEW w \in Writes, ExternalWrite(c, w)
         PROVE  Goal
    BY <2>11 DEF ExternalWrite, ClearIntent
  <2>12. CASE NativeWrite(c)
    BY <2>12 DEF NativeWrite, ClearIntent
  <2> QED
    BY <1>2, <2>1, <2>2, <2>3, <2>4, <2>5, <2>6, <2>7, <2>8, <2>9, <2>10, <2>11, <2>12
       DEF ClientStep
<1>3. CASE UNCHANGED vars
  BY <1>3 DEF vars, NoneUnsettled, Natives
<1> QED
  BY <1>1, <1>2, <1>3 DEF Next

DownHasNoIntent == ~up => intent = NoIntent

\* An intent granted with a settled editor stays one for the present revision.
LEMMA PermitsStep ==
    ASSUME TypeOK, DownHasNoIntent, PermitsAreCurrent, [Next]_vars
    PROVE  PermitsAreCurrent'
<1>1. CASE intent' = NoIntent
  BY <1>1 DEF PermitsAreCurrent
<1>2. CASE /\ up' = up /\ (paused' => paused) /\ revision' = revision /\ intent' = intent
           /\ NoneUnsettled
  BY <1>2 DEF PermitsAreCurrent, NoneUnsettled, Natives
<1>3. ASSUME NEW c \in Conns, GrantPermit(c)
      PROVE  PermitsAreCurrent'
  BY <1>3 DEF GrantPermit, Editors, ConnectedNatives, Natives, PermitsAreCurrent, TypeOK, Intent
<1>4. ASSUME NEW c \in Conns, NEW w \in Writes, RequestPermit(c, w)
      PROVE  PermitsAreCurrent'
  BY <1>4 DEF RequestPermit, MayWriteExternally, PermitsAreCurrent, TypeOK
<1>5. CASE Start
  BY <1>5 DEF Start, DownHasNoIntent, PermitsAreCurrent
<1> QED
  BY <1>1, <1>2, <1>3, <1>4, <1>5, IntentKept

LEMMA DownHasNoIntentStep ==
    ASSUME TypeOK, DownHasNoIntent, [Next]_vars
    PROVE  DownHasNoIntent'
<1>1. ASSUME NEW c \in Conns, GrantPermit(c) \/ \E w \in Writes : RequestPermit(c, w)
      PROVE  up'
  BY <1>1 DEF GrantPermit, RequestPermit, MayWriteExternally
<1>2. CASE Start
  BY <1>2 DEF Start, DownHasNoIntent
<1> QED
  BY <1>1, <1>2, IntentKept DEF DownHasNoIntent

\* A permit is never used for another revision, under a pause or over a draft.
THEOREM PermitsStayCurrent == Spec => []PermitsAreCurrent
<1>1. Init => DownHasNoIntent /\ PermitsAreCurrent
  BY DEF Init, DownHasNoIntent, PermitsAreCurrent
<1>2. TypeOK /\ DownHasNoIntent /\ PermitsAreCurrent /\ [Next]_vars
         => DownHasNoIntent' /\ PermitsAreCurrent'
  BY PermitsStep, DownHasNoIntentStep
<1> QED
  BY <1>1, <1>2, TypeCorrect, PTL DEF Spec

-----------------------------------------------------------------------------
(* Editors on record.                                                       *)

\* A handler that writes the rows of a live host keeps on record every editor
\* whose client or hold is still among those rows.
LEMMA RowsKeepOnRecord ==
    ASSUME up, up', Persist(HoldRows(clients', held')), NEW o \in OnRecord,
           o \in OwnersOf(held') \cup NativeOwners(clients')
    PROVE  o \in OnRecord'
<1>1. o \in OwnersOf(holdFile)
  BY DEF OnRecord
<1>2. o \in OwnersOf(holdFile')
  BY <1>1, PersistKeeps
<1>3. o \in OwnersOf(HoldRows(clients', held'))
  BY OwnersOfRows
<1> QED
  BY <1>2, <1>3 DEF OnRecord

\* The editors on record in a live host have a client or a hold there.
LEMMA OnRecordIsLive ==
    ASSUME up, NEW o \in OnRecord
    PROVE  o \in OwnersOf(held) \cup NativeOwners(clients)
BY OwnersOfRows DEF OnRecord

\* A disconnect takes no editor out of the table.
LEMMA DisconnectKeepsOwners ==
    ASSUME TypeOK, NEW c
    PROVE  NativeOwners(AfterDisconnect(c)) = NativeOwners(clients)
<1>1. CASE IsNative(c)
  <2>1. /\ DOMAIN AfterDisconnect(c) = DOMAIN clients
        /\ \A d \in DOMAIN clients : /\ AfterDisconnect(c)[d].kind = clients[d].kind
                                     /\ AfterDisconnect(c)[d].owner = clients[d].owner
    BY <1>1 DEF AfterDisconnect, TypeOK, ClientState
  <2> QED
    BY <2>1 DEF NativeOwners
<1>2. CASE ~IsNative(c)
  BY <1>2 DEF AfterDisconnect, Without, NativeOwners, IsNative
<1> QED
  BY <1>1, <1>2

\* An editor that a step takes off the record has detached or was released.
LEMMA LeavingStep ==
    ASSUME TypeOK, [Next]_vars, NEW o \in OnRecord, o \notin OnRecord'
    PROVE  \E c \in Conns : \/ Detach(c) /\ clients[c].owner = o
                            \/ ReleaseHold(c, o)
<1>q. CASE Quiet
  <2>1. HoldRows(clients', held') = HoldRows(clients, held)
    BY <1>q, SameRows DEF Quiet
  <2> QED
    BY <1>q, <2>1 DEF Quiet, OnRecord
<1>1. CASE Crash
  BY <1>1 DEF Crash, HostGone, OnRecord
<1>2. CASE Start
  <2>1. o \in OwnersOf(held')
    BY <1>2 DEF Start, OnRecord
  <2>2. o \in OwnersOf(HoldRows(clients', held'))
    BY <2>1, OwnersOfRows
  <2> QED
    BY <1>2, <2>2 DEF Start, OnRecord
<1>3. ASSUME NEW c \in Conns, NEW p \in Owners, AttachNative(c, p)
      PROVE  FALSE
  <2> DEFINE kept == Without(clients, ReplacedBy(p))
             new == NewClient("native", p, 0)
  <2>1. /\ clients' = With(kept, c, new)
        /\ held' = HoldsWithout(p)
        /\ Persist(HoldRows(clients', held'))
        /\ up /\ up'
    BY <1>3 DEF AttachNative
  <2>2. c \notin DOMAIN kept
    BY <1>3, WithoutDomain DEF AttachNative, TypeOK
  <2>3. new.kind = "native" /\ new.owner = p
    BY DEF NewClient
  <2> HIDE DEF new
  <2>4. NativeOwners(clients') = NativeOwners(kept) \cup {p}
    <3> HIDE DEF kept
    <3> QED
      BY <2>1, <2>2, <2>3 DEF NativeOwners, With
  <2>5. o \in OwnersOf(held) \cup NativeOwners(clients)
    BY <2>1, OnRecordIsLive
  <2>6. o \in OwnersOf(held') \cup NativeOwners(clients')
    BY <2>1, <2>4, <2>5, OthersKept
  <2> QED
    BY <2>1, <2>6, RowsKeepOnRecord
<1>4. ASSUME NEW c \in Conns, Disconnect(c)
      PROVE  FALSE
  <2>1. up /\ Persist(HoldRows(AfterDisconnect(c), held))
    BY <1>4 DEF Disconnect
  <2>2. o \in OwnersOf(holdFile) /\ o \in OwnersOf(held) \cup NativeOwners(clients)
    BY <2>1, OnRecordIsLive DEF OnRecord
  <2>3. o \in OwnersOf(held) \cup NativeOwners(AfterDisconnect(c))
    BY <2>2, DisconnectKeepsOwners
  <2>4. CASE HostGone
    BY <2>1, <2>2, <2>3, <2>4, PersistKeeps DEF HostGone, OnRecord
  <2>5. CASE clients' = AfterDisconnect(c) /\ UNCHANGED <<up, held>>
    BY <2>1, <2>3, <2>5, RowsKeepOnRecord
  <2> QED
    BY <1>4, <2>4, <2>5 DEF Disconnect
<1>5. ASSUME NEW c \in Conns, NEW active \in BOOLEAN, ReportDraft(c, active)
      PROVE  FALSE
  <2>1. up /\ up' /\ held' = held /\ Persist(HoldRows(clients', held'))
    BY <1>5 DEF ReportDraft
  <2>2. /\ DOMAIN clients' = DOMAIN clients
        /\ \A d \in DOMAIN clients : /\ clients'[d].kind = clients[d].kind
                                     /\ clients'[d].owner = clients[d].owner
    BY <1>5 DEF ReportDraft, DraftTargets, ConnectedNatives, Natives, TypeOK, ClientState
  <2>3. NativeOwners(clients') = NativeOwners(clients)
    BY <2>2 DEF NativeOwners
  <2> QED
    BY <2>1, <2>3, OnRecordIsLive, RowsKeepOnRecord
<1>6. ASSUME NEW c \in Conns,
             (\E allowed \in BOOLEAN : ExternalEdits(c, allowed)) \/ ReplaceSupport(c)
      PROVE  FALSE
  BY <1>6 DEF ExternalEdits, ReplaceSupport, OnRecord
<1>7. ASSUME NEW c \in Conns, NEW p \in Owners, ReleaseHold(c, p)
      PROVE  p = o
  <2>1. /\ clients' = Without(clients, ReplacedBy(p))
        /\ held' = HoldsWithout(p)
        /\ Persist(HoldRows(clients', held'))
        /\ up /\ up'
    BY <1>7 DEF ReleaseHold
  <2> QED
    BY <2>1, OnRecordIsLive, OthersKept, RowsKeepOnRecord
<1>8. ASSUME NEW c \in Conns, Detach(c)
      PROVE  clients[c].owner = o
  <2>1. /\ clients' = Without(clients, {c})
        /\ held' = held
        /\ Persist(HoldRows(clients', held'))
        /\ up /\ up'
    BY <1>8 DEF Detach
  <2>2. \A p \in NativeOwners(clients) \ {clients[c].owner} : p \in NativeOwners(clients')
    BY <2>1 DEF NativeOwners, Without
  <2> QED
    BY <2>1, <2>2, OnRecordIsLive, RowsKeepOnRecord
<1> QED
  BY <1>q, <1>1, <1>2, <1>3, <1>4, <1>5, <1>6, <1>7, <1>8, QuietOrLoud DEF Loud

\* Disconnects, crashes, restarts and other clients' actions take no editor off
\* the record: only its own detach or the confirmed release of its hold does.
THEOREM EditorsLeaveExplicitly == Spec => EditorLeavesOnlyExplicitly
<1>1. TypeOK /\ [Next]_vars =>
         [\A o \in OnRecord \ OnRecord' :
             \E c \in Conns : \/ Detach(c) /\ clients[c].owner = o
                             \/ ReleaseHold(c, o)]_vars
  BY LeavingStep
<1> QED
  BY <1>1, TypeCorrect, PTL DEF Spec, EditorLeavesOnlyExplicitly

-----------------------------------------------------------------------------
(* Control connections. The high-water mark of an editor bounds all of its   *)
(* control connections, the disconnected ones included, and a connected one  *)
(* is at the mark. Connection numbers are not used twice, so no control      *)
(* connection names an editor that has yet to attach.                        *)

ParentsAreOld(t, old) ==
    \A k \in DOMAIN t : IF t[k].kind = "native-control"
                        THEN t[k].parent \in old
                        ELSE t[k].parent = 0

MarkBounds(t) ==
    \A k \in DOMAIN t :
        t[k].kind = "native-control" /\ t[k].parent \in DOMAIN t =>
            /\ k <= t[t[k].parent].bound
            /\ t[k].connected => k = t[t[k].parent].bound

ConnectedIsLast(t) ==
    \A j, k \in DOMAIN t :
        (/\ t[j].kind = "native-control"
         /\ t[k].kind = "native-control"
         /\ t[k].connected
         /\ t[j].parent = t[k].parent) => j <= k

ControlsInOrder(t, old) == ParentsAreOld(t, old) /\ MarkBounds(t) /\ ConnectedIsLast(t)

\* A table with fewer clients, or with fewer of them connected.
Narrower(u, t) ==
    /\ DOMAIN u \subseteq DOMAIN t
    /\ \A k \in DOMAIN u : /\ u[k].kind = t[k].kind
                           /\ u[k].parent = t[k].parent
                           /\ u[k].bound = t[k].bound
                           /\ u[k].connected => t[k].connected

\* Losing clients or connections puts no control connection out of order.
LEMMA NarrowerInOrder ==
    ASSUME NEW t, NEW u, NEW old, Narrower(u, t), ControlsInOrder(t, old)
    PROVE  ControlsInOrder(u, old)
<1>1. ParentsAreOld(u, old)
  BY DEF Narrower, ControlsInOrder, ParentsAreOld
<1>2. MarkBounds(u)
  BY DEF Narrower, ControlsInOrder, MarkBounds
<1>3. ConnectedIsLast(u)
  BY DEF Narrower, ControlsInOrder, ConnectedIsLast
<1> QED
  BY <1>1, <1>2, <1>3 DEF ControlsInOrder

LEMMA WithoutIsNarrower ==
    ASSUME NEW t, NEW gone
    PROVE  Narrower(Without(t, gone), t)
BY DEF Narrower, Without

\* A client that is no control connection joins without disturbing the order,
\* because its connection number is new.
LEMMA PlainInOrder ==
    ASSUME NEW t, NEW old \in SUBSET Conns, NEW c \in Conns \ old, DOMAIN t \subseteq old,
           ControlsInOrder(t, old), NEW kind \in Kinds \ {"native-control"}, NEW owner
    PROVE  ControlsInOrder(With(t, c, NewClient(kind, owner, 0)), old \cup {c})
<1> DEFINE new == NewClient(kind, owner, 0)
           u == With(t, c, new)
<1>1. new.kind # "native-control" /\ new.parent = 0
  BY DEF NewClient
<1> HIDE DEF new
<1>2. /\ DOMAIN u = DOMAIN t \cup {c}
      /\ u[c] = new
      /\ \A d \in DOMAIN t : u[d] = t[d]
  BY DEF With
<1> HIDE DEF u
<1>3. \A k \in DOMAIN u : u[k].kind = "native-control" =>
         k \in DOMAIN t /\ u[k] = t[k] /\ u[k].parent # c
  BY <1>1, <1>2 DEF ControlsInOrder, ParentsAreOld
<1>4. ParentsAreOld(u, old \cup {c})
  BY <1>1, <1>2, <1>3 DEF ControlsInOrder, ParentsAreOld
<1>5. MarkBounds(u)
  BY <1>2, <1>3 DEF ControlsInOrder, MarkBounds
<1>6. ConnectedIsLast(u)
  BY <1>2, <1>3 DEF ControlsInOrder, ConnectedIsLast
<1> QED
  BY <1>4, <1>5, <1>6 DEF ControlsInOrder, u, new

\* The clients other than p keep their mark when p's newest connection is bound,
\* and only connections of other editors stay connected.
LEMMA ReboundRows ==
    ASSUME TypeOK, NEW c, NEW p, NEW d \in DOMAIN clients
    PROVE  /\ Rebound(c, p)[d].kind = clients[d].kind
           /\ Rebound(c, p)[d].parent = clients[d].parent
           /\ Rebound(c, p)[d].bound = IF d = p THEN c ELSE clients[d].bound
           /\ Rebound(c, p)[d].connected = (clients[d].connected /\ clients[d].parent # p)
<1>1. clients[d] \in ClientState
  BY DEF TypeOK
<1> QED
  BY <1>1 DEF Rebound, ClientState

\* A newer control connection takes the place of the ones its editor had.
LEMMA BoundInOrder ==
    ASSUME TypeOK, NEW c \in Conns, NEW p \in Conns, AttachControl(c, p),
           ControlsInOrder(clients, spent)
    PROVE  ControlsInOrder(clients', spent')
<1> DEFINE new == NewClient("native-control", NoOwner, p)
           u == clients'
<1>1. new.kind = "native-control" /\ new.parent = p /\ new.connected
  BY DEF NewClient
<1> HIDE DEF new
<1>2. /\ u = With(Rebound(c, p), c, new)
      /\ spent' = spent \cup {c}
      /\ c \notin spent
      /\ p \in DOMAIN clients
      /\ clients[p].kind = "native"
      /\ c > clients[p].bound
  BY DEF AttachControl, new, Editors, ConnectedNatives, Natives, Newest
<1>n. /\ DOMAIN clients \subseteq spent
      /\ spent \subseteq Nat
      /\ c \in Nat /\ p \in Nat
      /\ \A d \in DOMAIN clients : clients[d].bound \in Nat
  BY ConnsAssumption DEF TypeOK, ClientState
<1>3. /\ DOMAIN u = DOMAIN clients \cup {c}
      /\ u[c] = new
      /\ \A d \in DOMAIN clients : u[d] = Rebound(c, p)[d]
  BY <1>2, <1>n DEF With, Rebound
<1>4. \A d \in DOMAIN clients : /\ u[d].kind = clients[d].kind
                                /\ u[d].parent = clients[d].parent
                                /\ u[d].bound = IF d = p THEN c ELSE clients[d].bound
                                /\ u[d].connected = (clients[d].connected /\ clients[d].parent # p)
  BY <1>3, ReboundRows
<1>5. p # c /\ p \in DOMAIN u /\ u[p].bound = c
  BY <1>2, <1>3, <1>4, <1>n
<1> HIDE DEF u
<1>6. ParentsAreOld(u, spent')
  BY <1>1, <1>2, <1>3, <1>4, <1>n DEF ControlsInOrder, ParentsAreOld
<1>7. \A k \in DOMAIN clients : u[k].kind = "native-control" /\ u[k].parent = p => k < c
  <2> SUFFICES ASSUME NEW k \in DOMAIN clients, u[k].kind = "native-control", u[k].parent = p
               PROVE  k < c
    OBVIOUS
  <2>1. clients[k].kind = "native-control" /\ clients[k].parent = p
    BY <1>4
  <2>2. k <= clients[p].bound
    BY <1>2, <2>1 DEF ControlsInOrder, MarkBounds
  <2>3. k \in Nat /\ clients[p].bound \in Nat
    BY <1>2, <1>n
  <2> QED
    BY <1>2, <1>n, <2>2, <2>3
<1>8. MarkBounds(u)
  <2> SUFFICES ASSUME NEW k \in DOMAIN u, u[k].kind = "native-control", u[k].parent \in DOMAIN u
               PROVE  /\ k <= u[u[k].parent].bound
                      /\ u[k].connected => k = u[u[k].parent].bound
    BY DEF MarkBounds
  <2>1. CASE k = c
    <3>1. u[k].parent = p
      BY <1>1, <1>3, <2>1
    <3>2. u[u[k].parent].bound = c
      BY <1>5, <3>1
    <3> QED
      BY <1>n, <2>1, <3>2
  <2>2. CASE k # c /\ u[k].parent = p
    <3>1. k \in DOMAIN clients /\ k \in Nat
      BY <1>3, <1>n, <2>2
    <3>2. k < c /\ ~u[k].connected
      BY <1>4, <1>7, <2>2, <3>1
    <3>3. u[u[k].parent].bound = c
      BY <1>5, <2>2
    <3> QED
      BY <1>n, <3>1, <3>2, <3>3
  <2>3. CASE k # c /\ u[k].parent # p
    <3>1. k \in DOMAIN clients /\ u[k].parent \in DOMAIN clients
      BY <1>2, <1>3, <1>4, <2>3 DEF ControlsInOrder, ParentsAreOld
    <3> QED
      <4> DEFINE q == clients[k].parent
      <4>1. /\ u[k].parent = q /\ q # p /\ q \in DOMAIN clients
            /\ clients[k].kind = "native-control"
            /\ u[k].connected => clients[k].connected
        BY <1>4, <2>3, <3>1
      <4>2. u[q].bound = clients[q].bound
        BY <1>4, <4>1
      <4>3. /\ k <= clients[q].bound
            /\ clients[k].connected => k = clients[q].bound
        BY <3>1, <4>1, Zenon DEF ControlsInOrder, MarkBounds
      <4> QED
        BY <4>1, <4>2, <4>3
  <2> QED
    BY <2>1, <2>2, <2>3
<1>9. ConnectedIsLast(u)
  <2> SUFFICES ASSUME NEW j \in DOMAIN u, NEW k \in DOMAIN u,
                      u[j].kind = "native-control", u[k].kind = "native-control",
                      u[k].connected, u[j].parent = u[k].parent
               PROVE  j <= k
    BY DEF ConnectedIsLast
  <2>1. CASE u[k].parent = p
    <3>1. k = c
      BY <1>3, <1>4, <2>1
    <3>2. j = c \/ (j \in Nat /\ j < c)
      BY <1>3, <1>7, <1>n, <2>1
    <3> QED
      BY <1>n, <3>1, <3>2
  <2>2. CASE u[k].parent # p
    <3>1. j \in DOMAIN clients /\ k \in DOMAIN clients
      BY <1>1, <1>3, <2>2
    <3>2. /\ clients[j].kind = "native-control"
          /\ clients[k].kind = "native-control"
          /\ clients[k].connected
          /\ clients[j].parent = clients[k].parent
      BY <1>4, <3>1
    <3> QED
      BY <3>1, <3>2, Zenon DEF ControlsInOrder, ConnectedIsLast
  <2> QED
    BY <2>1, <2>2
<1> QED
  BY <1>6, <1>8, <1>9 DEF ControlsInOrder, u

LEMMA ControlStep ==
    ASSUME TypeOK, DownIsEmpty, ControlsInOrder(clients, spent), [Next]_vars
    PROVE  ControlsInOrder(clients', spent')
<1>t. DOMAIN clients \subseteq spent /\ spent \in SUBSET Conns
  BY DEF TypeOK
<1>e. ASSUME clients' = NoClients
      PROVE  ControlsInOrder(clients', spent')
  BY <1>e, NoClientsIsTable DEF ControlsInOrder, ParentsAreOld, MarkBounds, ConnectedIsLast
<1>n. ASSUME Narrower(clients', clients), spent' = spent
      PROVE  ControlsInOrder(clients', spent')
  BY <1>n, NarrowerInOrder
<1>u. ASSUME UNCHANGED <<clients, spent>>
      PROVE  ControlsInOrder(clients', spent')
  BY <1>u
<1>1. CASE Crash
  BY <1>1, <1>e DEF Crash, HostGone
<1>2. CASE Start \/ IntentExpires \/ UNCHANGED vars
  BY <1>2, <1>u DEF Start, IntentExpires, vars
<1>3. ASSUME NEW c \in Conns, ClientStep(c)
      PROVE  ControlsInOrder(clients', spent')
  <2>1. ASSUME NEW o \in Owners, AttachNative(c, o)
        PROVE  ControlsInOrder(clients', spent')
    <3> DEFINE kept == Without(clients, ReplacedBy(o))
    <3>1. ControlsInOrder(kept, spent) /\ DOMAIN kept \subseteq spent
      BY <1>t, NarrowerInOrder, WithoutIsNarrower, WithoutDomain
    <3>2. /\ clients' = With(kept, c, NewClient("native", o, 0))
          /\ spent' = spent \cup {c}
          /\ c \notin spent
      BY <2>1 DEF AttachNative
    <3> HIDE DEF kept
    <3> QED
      BY <1>t, <3>1, <3>2, PlainInOrder DEF Kinds
  <2>2. ASSUME NEW p \in Conns, AttachControl(c, p)
        PROVE  ControlsInOrder(clients', spent')
    BY <2>2, BoundInOrder
  <2>3. ASSUME NEW kind \in {"mcp", "observer"}, AttachPlain(c, kind)
        PROVE  ControlsInOrder(clients', spent')
    BY <1>t, <2>3, PlainInOrder DEF AttachPlain, Kinds
  <2>4. CASE Disconnect(c)
    <3>1. CASE HostGone
      BY <1>e, <3>1 DEF HostGone
    <3>2. CASE clients' = AfterDisconnect(c) /\ spent' = spent
      <4>1. CASE IsNative(c)
        <5>1. Narrower(clients', clients)
          BY <3>2, <4>1 DEF AfterDisconnect, IsNative, Narrower, TypeOK, ClientState
        <5> QED
          BY <1>n, <3>2, <5>1
      <4>2. CASE ~IsNative(c)
        BY <1>n, <3>2, <4>2, WithoutIsNarrower DEF AfterDisconnect
      <4> QED
        BY <4>1, <4>2
    <3> QED
      BY <2>4, <3>1, <3>2 DEF Disconnect
  <2>5. ASSUME NEW active \in BOOLEAN, ReportDraft(c, active)
        PROVE  ControlsInOrder(clients', spent')
    <3>1. Narrower(clients', clients)
      BY <2>5 DEF ReportDraft, DraftTargets, ConnectedNatives, Natives, Narrower,
                  TypeOK, ClientState
    <3> QED
      BY <1>n, <2>5, <3>1 DEF ReportDraft
  <2>6. ASSUME NEW o \in Owners, ReleaseHold(c, o)
        PROVE  ControlsInOrder(clients', spent')
    BY <1>n, <2>6, WithoutIsNarrower DEF ReleaseHold
  <2>7. ASSUME NEW target \in Conns, DisconnectClient(c, target)
        PROVE  ControlsInOrder(clients', spent')
    BY <1>n, <2>7, WithoutIsNarrower DEF DisconnectClient
  <2>8. CASE Detach(c)
    BY <1>n, <2>8, WithoutIsNarrower DEF Detach
  <2>9. ASSUME NEW allowed \in BOOLEAN, ExternalEdits(c, allowed)
        PROVE  ControlsInOrder(clients', spent')
    BY <1>u, <2>9 DEF ExternalEdits
  <2>10. ASSUME NEW w \in Writes, RequestPermit(c, w) \/ ExternalWrite(c, w)
         PROVE  ControlsInOrder(clients', spent')
    BY <1>u, <2>10 DEF RequestPermit, ExternalWrite
  <2>11. CASE GrantPermit(c) \/ ReplaceSupport(c) \/ NativeWrite(c)
    BY <1>u, <2>11 DEF GrantPermit, ReplaceSupport, NativeWrite
  <2> QED
    BY <1>3, <2>1, <2>2, <2>3, <2>4, <2>5, <2>6, <2>7, <2>8, <2>9, <2>10, <2>11 DEF ClientStep
<1> QED
  BY <1>1, <1>2, <1>3 DEF Next

\* However the sockets attach and close, only the newest control connection of an
\* editor can still report its draft.
THEOREM OnlyNewestReports == Spec => []NewestControlOnly
<1> DEFINE Ordered == ControlsInOrder(clients, spent)
<1>1. Init => DownIsEmpty /\ HoldFileCurrent /\ Ordered
  BY NoClientsIsTable DEF Init, DownIsEmpty, HoldFileCurrent, ControlsInOrder, ParentsAreOld,
                          MarkBounds, ConnectedIsLast
<1>2. /\ TypeOK /\ DownIsEmpty /\ HoldFileCurrent /\ [Next]_vars
            => DownIsEmpty' /\ HoldFileCurrent'
      /\ TypeOK /\ DownIsEmpty /\ Ordered /\ [Next]_vars => Ordered'
  BY HoldFileStep, ControlStep
<1>3. TypeOK /\ Ordered => NewestControlOnly
  <2> SUFFICES ASSUME TypeOK, Ordered, NEW k \in DOMAIN clients, NEW j \in DOMAIN clients,
                      clients[k].kind = "native-control", clients[k].connected
               PROVE  /\ clients[k].parent \in DOMAIN clients =>
                            k = clients[clients[k].parent].bound
                      /\ clients[j].parent = clients[k].parent => j <= k
    BY DEF NewestControlOnly
  <2>1. clients[k].parent \in DOMAIN clients => k = clients[clients[k].parent].bound
    BY DEF ControlsInOrder, MarkBounds
  <2>2. clients[k].parent # 0
    BY ConnsAssumption DEF ControlsInOrder, ParentsAreOld, TypeOK
  <2>3. clients[j].parent = clients[k].parent => clients[j].kind = "native-control"
    BY <2>2 DEF ControlsInOrder, ParentsAreOld
  <2>4. clients[j].parent = clients[k].parent => j <= k
    BY <2>3 DEF ControlsInOrder, ConnectedIsLast
  <2> QED
    BY <2>1, <2>4
<1> HIDE DEF Ordered
<1> QED
  BY <1>1, <1>2, <1>3, TypeCorrect, PTL DEF Spec

-----------------------------------------------------------------------------
(* The editor windows connected to the host (ConnectedEditing). Every step of *)
(* the composition is a step of the host or leaves the host alone, so what    *)
(* the steps above preserve, the composition preserves.                       *)

\* Only a client in the table reports drafts, and only an editor's own
\* connection grants permits, writes or allows edits.
LEMMA CallersAreConns ==
    ASSUME TypeOK, NEW k
    PROVE  /\ DraftTargets(k) # {} => k \in Conns
           /\ k \in Editors => k \in Conns
BY DEF TypeOK, DraftTargets, ConnectedNatives, Natives, Editors

\* The host of the composition takes only steps of the host of Collaboration.
LEMMA ConnectedIsHostStep ==
    ASSUME TypeOK, [ConnectedNext]_allVars
    PROVE  [Next]_vars
<1>1. CASE Tick
  BY <1>1 DEF Tick
<1>2. CASE Expire
  BY <1>2 DEF Expire, Next
<1>3. ASSUME NEW o \in Owners, Synchronizes(o)
      PROVE  [Next]_vars
  <2>1. CASE Reported(o) \/ SettledReport(o)
    <3>1. ReportDraft(ctl[o], sent[o] = "active") /\ (sent[o] = "active") \in BOOLEAN
      BY <2>1 DEF Reported, SettledReport
    <3>2. ctl[o] \in Conns
      BY <3>1, CallersAreConns DEF ReportDraft
    <3> QED
      BY <3>1, <3>2 DEF Next, ClientStep
  <2>2. CASE Permit(o)
    <3>1. GrantPermit(nat[o])
      BY <2>2 DEF Permit
    <3>2. nat[o] \in Conns
      BY <3>1, CallersAreConns DEF GrantPermit
    <3> QED
      BY <3>1, <3>2 DEF Next, ClientStep
  <2>3. CASE \/ ReadStatus(o) \/ Freeze(o) \/ Settle(o) \/ PermitRefused(o)
             \/ StopWaiting(o) \/ Refresh(o) \/ Show(o)
    BY <2>3 DEF ReadStatus, Freeze, Settle, PermitRefused, StopWaiting, Refresh, Show
  <2> QED
    BY <1>3, <2>1, <2>2, <2>3 DEF Synchronizes
<1>4. ASSUME NEW o \in Owners, AuthorStep(o)
      PROVE  [Next]_vars
  <2>1. CASE Types(o) \/ Settles(o) \/ ShowsAgain(o) \/ RequestFails(o)
    BY <2>1 DEF Types, Settles, ShowsAgain, RequestFails
  <2>6. CASE LoseStream(o)
    <3>1. CASE UNCHANGED vars
      BY <3>1
    <3>2. CASE ReportDraft(ctl[o], sent[o] = "active")
      <4>1. ctl[o] \in Conns /\ (sent[o] = "active") \in BOOLEAN
        BY <3>2, CallersAreConns DEF ReportDraft
      <4> QED
        BY <3>2, <4>1 DEF Next, ClientStep
    <3>3. CASE GrantPermit(nat[o])
      <4>1. nat[o] \in Conns
        BY <3>3, CallersAreConns DEF GrantPermit
      <4> QED
        BY <3>3, <4>1 DEF Next, ClientStep
    <3> QED
      BY <2>6, <3>1, <3>2, <3>3 DEF LoseStream, MayHaveTaken
  <2>2. CASE Applies(o)
    <3>1. NativeWrite(nat[o])
      BY <2>2 DEF Applies
    <3>2. nat[o] \in Conns
      BY <3>1, CallersAreConns DEF NativeWrite
    <3> QED
      BY <3>1, <3>2 DEF Next, ClientStep
  <2>3. ASSUME NEW allowed \in BOOLEAN, Allows(o, allowed)
        PROVE  [Next]_vars
    <3>1. ExternalEdits(nat[o], allowed)
      BY <2>3 DEF Allows
    <3>2. nat[o] \in Conns
      BY <3>1, CallersAreConns DEF ExternalEdits
    <3> QED
      BY <3>1, <3>2 DEF Next, ClientStep
  <2>4. ASSUME NEW c \in Conns, Reopens(o, c)
        PROVE  [Next]_vars
    BY <2>4 DEF Reopens, Next, ClientStep
  <2>5. ASSUME NEW c \in Conns, OpensControl(o, c)
        PROVE  [Next]_vars
    <3>1. AttachControl(c, nat[o])
      BY <2>5 DEF OpensControl
    <3>2. nat[o] \in Conns
      BY <3>1, CallersAreConns DEF AttachControl
    <3> QED
      BY <3>1, <3>2 DEF Next, ClientStep
  <2> QED
    BY <1>4, <2>1, <2>2, <2>3, <2>4, <2>5, <2>6 DEF AuthorStep
<1>5. ASSUME NEW c \in Conns, HostDisconnects(c)
      PROVE  [Next]_vars
  BY <1>5 DEF HostDisconnects, Next, ClientStep
<1>6. ASSUME NEW w \in Writes, AssistantAsks(w) \/ AssistantWrites(w)
      PROVE  [Next]_vars
  BY <1>6, ConnectionsAssumption DEF AssistantAsks, AssistantWrites, Next, ClientStep
<1>7. CASE UNCHANGED allVars
  BY <1>7 DEF allVars
<1> QED
  BY <1>1, <1>2, <1>3, <1>4, <1>5, <1>6, <1>7 DEF ConnectedNext

\* The windows' part of the type invariant.
WindowTypeOK ==
    /\ nat \in [Owners -> Conns \cup {0}]
    /\ ctl \in [Owners -> Conns \cup {0}]
    /\ step \in [Owners -> Steps]
    /\ text \in [Owners -> {"none", "pending", "draft"}]
    /\ frozen \in [Owners -> BOOLEAN]
    /\ reported \in [Owners -> {"unknown", "clean", "active"}]
    /\ sent \in [Owners -> {"none", "clean", "active"}]
    /\ base \in [Owners -> Nat]
    /\ waited \in [Owners -> 0..EditorWait]
    /\ stale \in [Owners -> BOOLEAN]
    /\ lastRead \in [Owners -> {"read", "owed", "missed"}]

ClockTypeOK == age \in 0..HostLife /\ gaveUp \in SUBSET Owners

\* The first clients: the assistant, every window's native connection and the
\* control connections that are already open.
LEMMA FirstClients ==
    ASSUME ConnectedInit
    PROVE  /\ TypeOK
           /\ \A o \in Owners : /\ FirstNative[o] \in DOMAIN clients
                                /\ clients[FirstNative[o]].kind = "native"
                                /\ clients[FirstNative[o]].connected
                                /\ clients[FirstNative[o]].owner = o
                                /\ clients[FirstNative[o]].parent = 0
<1> DEFINE D == {Assistant} \cup Range(FirstNative) \cup (Range(FirstControl) \ {0})
           owner(c) == CHOOSE p \in Owners : c \in {FirstNative[p], FirstControl[p]}
           window(o) == [NewClient("native", o, 0) EXCEPT !.bound = FirstControl[o]]
           client(c) == IF c = Assistant THEN NewClient("mcp", NoOwner, 0)
                        ELSE IF c = FirstNative[owner(c)] THEN window(owner(c))
                        ELSE NewClient("native-control", NoOwner, FirstNative[owner(c)])
<1>1. clients = [c \in D |-> client(c)]
  BY DEF ConnectedInit
<1>2. D \subseteq Conns /\ \A o \in Owners : FirstNative[o] \in D
  BY ConnectionsAssumption DEF Range
<1>3. \A c \in D \ {Assistant} :
         \E p \in Owners : c \in {FirstNative[p], FirstControl[p]}
  BY ConnectionsAssumption DEF Range
<1>4. \A c \in D \ {Assistant} : owner(c) \in Owners
  BY <1>3
<1>5. ASSUME NEW o \in Owners
      PROVE  /\ window(o) \in ClientState
             /\ window(o).kind = "native" /\ window(o).connected
             /\ window(o).owner = o /\ window(o).parent = 0
  BY ConnectionsAssumption DEF NewClient, ClientState, Kinds
<1>6. ASSUME NEW o \in Owners
      PROVE  client(FirstNative[o]) = window(o)
  <2>1. FirstNative[o] # Assistant
    BY ConnectionsAssumption
  <2>2. \A p \in Owners : FirstNative[o] \in {FirstNative[p], FirstControl[p]} <=> p = o
    BY ConnectionsAssumption
  <2>3. owner(FirstNative[o]) = o
    BY <2>2
  <2> QED
    BY <2>1, <2>3
<1>7. ASSUME NEW c \in D
      PROVE  /\ client(c) \in ClientState
             /\ client(c).kind = "native" => client(c).owner \in Owners
  <2>1. CASE c = Assistant
    BY <2>1, NewClientType DEF Kinds
  <2>2. CASE c # Assistant /\ c = FirstNative[owner(c)]
    <3>1. owner(c) \in Owners /\ client(c) = window(owner(c))
      BY <1>4, <2>2
    <3> HIDE DEF client, window, owner
    <3> QED
      BY <1>5, <3>1
  <2>3. CASE c # Assistant /\ c # FirstNative[owner(c)]
    <3>1. FirstNative[owner(c)] \in Conns
      BY <1>4, <2>3, ConnectionsAssumption
    <3> QED
      BY <2>3, <3>1, NewClientType DEF Kinds
  <2> QED
    BY <2>1, <2>2, <2>3
<1> HIDE DEF D, client, window, owner
<1>8. IsTable(clients) /\ DOMAIN clients = D
  BY <1>1, <1>2, <1>7 DEF IsTable
<1>9. holdFile \in SUBSET Hold
  BY <1>8, HoldRowsType DEF ConnectedInit
<1>10. TypeOK
  BY <1>2, <1>8, <1>9 DEF ConnectedInit, TypeOK, IsTable
<1> QED
  BY <1>1, <1>2, <1>5, <1>6, <1>10

-----------------------------------------------------------------------------
(* What relates the windows to the host.                                      *)

\* The host still knows a connected window by its native connection.
OwnClient(o) ==
    /\ nat[o] \in ConnectedNatives
    /\ clients[nat[o]].owner = o
    /\ clients[nat[o]].parent = 0

ClientsKnown == up => \A o \in Owners : Open(o) => OwnClient(o)

InputHeld(o) == frozen[o] /\ text[o] = "none"

\* A window that owes its author a write is on its way to read the document, with
\* its input held; once it has adopted the revision, only the document's mark is left
\* to tell.
OnItsWay(o) ==
    /\ InputHeld(o)
    /\ \/ step[o] \in {"wait", "refresh"} /\ base[o] < revision
       \/ step[o] = "show" /\ stale[o]

\* A window asks for a permit and waits for the write with its input held; one that
\* missed a write is behind the session, or has the document marked.
WindowOK(o) ==
    /\ step[o] \in {"settle", "permit", "wait"} => frozen[o]
    /\ step[o] \in {"report", "settle"} => sent[o] # "none"
    /\ step[o] = "settle" => text[o] # "pending"
    /\ step[o] \in {"permit", "wait"} => text[o] = "none"
    /\ step[o] # "wait" => waited[o] = 0
    /\ ~Open(o) => step[o] = "idle" /\ stale[o]
    /\ base[o] <= revision
    /\ lastRead[o] = "owed" => OnItsWay(o)
    /\ lastRead[o] = "missed" => stale[o] \/ base[o] < revision

WindowInv == \A o \in Owners : WindowOK(o)

\* A window whose permit an intent carries waits for the write, and has waited no
\* longer than the intent has lived; otherwise the intent's time has passed, or the
\* window gave up when a poll failed.
PermitsHeld ==
    \A o \in Owners :
        (Open(o) /\ intent # NoIntent /\ nat[o] \in intent.granted)
            => (Expired \/ (step[o] = "wait" /\ waited[o] <= age) \/ o \in gaveUp)

\* A draft report leaves every client what it is and as connected as it was.
LEMMA ReportKeepsClients ==
    ASSUME TypeOK, NEW o, ReportDraft(ctl[o], sent[o] = "active")
    PROVE  /\ UNCHANGED up
           /\ DOMAIN clients' = DOMAIN clients
           /\ \A d \in DOMAIN clients : /\ clients'[d].kind = clients[d].kind
                                        /\ clients'[d].connected = clients[d].connected
                                        /\ clients'[d].owner = clients[d].owner
                                        /\ clients'[d].parent = clients[d].parent
<1>1. UNCHANGED up
  BY DEF ReportDraft
<1>2. PICK p \in DraftTargets(ctl[o]) :
         clients' = [clients EXCEPT ![p].draft = (sent[o] = "active"), ![p].ready = TRUE]
  BY DEF ReportDraft
<1>3. p \in DOMAIN clients
  BY DEF DraftTargets, ConnectedNatives, Natives
<1> QED
  BY <1>1, <1>2, <1>3 DEF TypeOK, ClientState

LEMMA ClientsKnownStep ==
    ASSUME TypeOK, WindowTypeOK, ClientsKnown, [ConnectedNext]_allVars
    PROVE  ClientsKnown'
<1> USE DEF ClientsKnown, OwnClient, Open, ConnectedNatives, Natives
<1>u. ASSUME UNCHANGED <<up, clients, nat>>
      PROVE  ClientsKnown'
  BY <1>u
<1>r. ASSUME NEW o, ReportDraft(ctl[o], sent[o] = "active"),
             \A p \in Owners : nat'[p] # 0 => nat'[p] = nat[p]
      PROVE  ClientsKnown'
  <2>1. /\ UNCHANGED up
        /\ DOMAIN clients' = DOMAIN clients
        /\ \A d \in DOMAIN clients : /\ clients'[d].kind = clients[d].kind
                                     /\ clients'[d].connected = clients[d].connected
                                     /\ clients'[d].owner = clients[d].owner
                                     /\ clients'[d].parent = clients[d].parent
    BY <1>r, ReportKeepsClients
  <2> QED
    BY <1>r, <2>1
<1>1. CASE Tick \/ Expire \/ UNCHANGED allVars
  BY <1>1 DEF Tick, Expire, IntentExpires, vars, windowVars, allVars
<1>2. ASSUME NEW o \in Owners, Synchronizes(o)
      PROVE  ClientsKnown'
  <2>1. CASE Reported(o) \/ SettledReport(o)
    <3>1. ReportDraft(ctl[o], sent[o] = "active") /\ UNCHANGED nat
      BY <2>1 DEF Reported, SettledReport
    <3> QED
      BY <1>r, <3>1
  <2>2. CASE \/ ReadStatus(o) \/ Freeze(o) \/ Settle(o) \/ Permit(o) \/ PermitRefused(o)
             \/ StopWaiting(o) \/ Refresh(o) \/ Show(o)
    BY <1>u, <2>2 DEF ReadStatus, Freeze, Settle, Permit, GrantPermit, PermitRefused,
                      StopWaiting, Refresh, Show, vars
  <2> QED
    BY <1>2, <2>1, <2>2 DEF Synchronizes
<1>3. ASSUME NEW o \in Owners, AuthorStep(o)
      PROVE  ClientsKnown'
  <2>1. CASE \/ Types(o) \/ Settles(o) \/ Applies(o) \/ ShowsAgain(o) \/ RequestFails(o)
             \/ \E allowed \in BOOLEAN : Allows(o, allowed)
    BY <1>u, <2>1 DEF Types, Settles, Applies, NativeWrite, ShowsAgain, RequestFails, Allows,
                      ExternalEdits, vars
  <2>2. CASE LoseStream(o)
    <3>1. nat' = [nat EXCEPT ![o] = 0]
      BY <2>2 DEF LoseStream
    <3>2. \/ UNCHANGED <<up, clients>>
          \/ ReportDraft(ctl[o], sent[o] = "active")
      BY <2>2 DEF LoseStream, MayHaveTaken, GrantPermit, vars
    <3>3. CASE UNCHANGED <<up, clients>>
      BY <3>1, <3>3 DEF WindowTypeOK
    <3>4. CASE ReportDraft(ctl[o], sent[o] = "active")
      BY <1>r, <3>1, <3>4 DEF WindowTypeOK
    <3> QED
      BY <3>2, <3>3, <3>4
  <2>3. ASSUME NEW c \in Conns, Reopens(o, c)
        PROVE  ClientsKnown'
    <3> DEFINE kept == Without(clients, ReplacedBy(o))
               new == NewClient("native", o, 0)
    <3>1. /\ clients' = With(kept, c, new)
          /\ c \notin DOMAIN clients
          /\ up /\ ~OwnerConnected(o)
          /\ nat' = [nat EXCEPT ![o] = c]
      BY <2>3 DEF Reopens, AttachNative, TypeOK
    <3>2. new.kind = "native" /\ new.connected /\ new.owner = o /\ new.parent = 0
      BY DEF NewClient
    <3>3. ASSUME NEW p \in Owners, p # o, Open(p)
          PROVE  nat[p] \in DOMAIN kept /\ kept[nat[p]] = clients[nat[p]] /\ nat[p] # c
      BY <3>1, <3>3 DEF Without, ReplacedBy
    <3> HIDE DEF kept, new
    <3>4. \A d : d \in DOMAIN clients' <=> d \in DOMAIN kept \/ d = c
      BY <3>1 DEF With
    <3>5. clients'[c] = new /\ \A d \in DOMAIN kept : d # c => clients'[d] = kept[d]
      BY <3>1 DEF With
    <3> QED
      BY <3>1, <3>2, <3>3, <3>4, <3>5 DEF WindowTypeOK
  <2>4. ASSUME NEW c \in Conns, OpensControl(o, c)
        PROVE  ClientsKnown'
    <3> DEFINE new == NewClient("native-control", NoOwner, nat[o])
    <3>1. /\ clients' = With(Rebound(c, nat[o]), c, new)
          /\ c \notin DOMAIN clients
          /\ UNCHANGED <<up, nat>>
          /\ nat[o] # 0
      BY <2>4 DEF OpensControl, AttachControl, TypeOK
    <3>2. \A d \in DOMAIN clients : /\ d \in DOMAIN clients'
                                    /\ clients'[d] = Rebound(c, nat[o])[d]
      BY <3>1 DEF With, Rebound
    <3>3. \A d \in DOMAIN clients : /\ Rebound(c, nat[o])[d].owner = clients[d].owner
                                    /\ Rebound(c, nat[o])[d].kind = clients[d].kind
                                    /\ Rebound(c, nat[o])[d].parent = clients[d].parent
                                    /\ clients[d].parent # nat[o] =>
                                          Rebound(c, nat[o])[d].connected = clients[d].connected
      BY DEF Rebound, TypeOK, ClientState
    <3> QED
      BY <3>1, <3>2, <3>3
  <2> QED
    BY <1>3, <2>1, <2>2, <2>3, <2>4 DEF AuthorStep
<1>4. ASSUME NEW c \in Conns, HostDisconnects(c)
      PROVE  ClientsKnown'
  <2>1. Closed(c) /\ Disconnect(c) /\ UNCHANGED nat
    BY <1>4 DEF HostDisconnects, windowVars
  <2>2. CASE HostGone
    BY <2>2 DEF HostGone
  <2>3. CASE clients' = AfterDisconnect(c) /\ UNCHANGED up
    <3>1. \A d \in DOMAIN clients \ {c} : d \in DOMAIN clients' /\ clients'[d] = clients[d]
      BY <2>3 DEF AfterDisconnect, Without
    <3>2. \A p \in Owners : nat[p] # c
      BY <2>1 DEF Closed
    <3> QED
      BY <2>1, <2>3, <3>1, <3>2
  <2> QED
    BY <2>1, <2>2, <2>3 DEF Disconnect
<1>5. ASSUME NEW w \in Writes, AssistantAsks(w) \/ AssistantWrites(w)
      PROVE  ClientsKnown'
  BY <1>u, <1>5 DEF AssistantAsks, AssistantWrites, RequestPermit, ExternalWrite, windowVars
<1> QED
  BY <1>1, <1>2, <1>3, <1>4, <1>5 DEF ConnectedNext

\* When the assistant's write goes through, every connected window has granted it
\* and, unless it gave up, is still waiting for it.
LEMMA WriteFindsWindowsWaiting ==
    ASSUME ClientsKnown, WindowInv, PermitsHeld, NEW w \in Writes, AssistantWrites(w),
           NEW o \in Owners, Open(o), o \notin gaveUp
    PROVE  step[o] = "wait" /\ InputHeld(o)
<1>1. /\ up /\ ~Expired
      /\ ConnectedNatives = {} \/ (intent # NoIntent /\ ConnectedNatives \subseteq intent.granted)
  BY DEF AssistantWrites, ExternalWrite, MayWriteExternally
<1>2. nat[o] \in ConnectedNatives
  BY <1>1 DEF ClientsKnown, OwnClient
<1>3. step[o] = "wait"
  BY <1>1, <1>2 DEF PermitsHeld
<1> QED
  BY <1>3 DEF WindowInv, WindowOK, InputHeld

\* A step makes at most one revision.
LEMMA RevisionStep ==
    ASSUME TypeOK, [ConnectedNext]_allVars
    PROVE  revision \in Nat /\ revision' \in Nat /\ revision <= revision'
<1>1. revision \in Nat
  BY DEF TypeOK
<1>2. CASE revision' = revision \/ revision' = revision + 1
  BY <1>1, <1>2
<1>3. CASE Tick \/ Expire \/ UNCHANGED allVars
  BY <1>2, <1>3 DEF Tick, Expire, IntentExpires, vars, allVars
<1>4. ASSUME NEW o \in Owners, Synchronizes(o)
      PROVE  revision' = revision
  BY <1>4 DEF Synchronizes, ReadStatus, Reported, Freeze, Settle, SettledReport, Permit,
              PermitRefused, StopWaiting, Refresh, Show, ReportDraft, GrantPermit, vars
<1>5. ASSUME NEW o \in Owners, AuthorStep(o)
      PROVE  revision' = revision \/ revision' = revision + 1
  BY <1>5 DEF AuthorStep, Types, Settles, Applies, NativeWrite, ShowsAgain, RequestFails,
              Allows, ExternalEdits, LoseStream, MayHaveTaken, ReportDraft, GrantPermit,
              Reopens, AttachNative, OpensControl, AttachControl, vars
<1>6. ASSUME NEW c \in Conns, HostDisconnects(c)
      PROVE  revision' = revision
  BY <1>6 DEF HostDisconnects, Disconnect
<1>7. ASSUME NEW w \in Writes, AssistantAsks(w) \/ AssistantWrites(w)
      PROVE  revision' = revision \/ revision' = revision + 1
  BY <1>7 DEF AssistantAsks, RequestPermit, AssistantWrites, ExternalWrite
<1> QED
  BY <1>2, <1>3, <1>4, <1>5, <1>6, <1>7 DEF ConnectedNext

\* The windows' types, and what a window asks of itself.
LEMMA WindowStep ==
    ASSUME TypeOK, WindowTypeOK, ClientsKnown, WindowInv, PermitsHeld, [ConnectedNext]_allVars
    PROVE  WindowTypeOK' /\ WindowInv'
<1> DEFINE Goal == WindowTypeOK' /\ WindowInv'
<1>w. EditorWait \in Nat
  BY WaitAssumption
<1>r. revision \in Nat /\ revision' \in Nat /\ revision <= revision'
  BY RevisionStep
<1>u. ASSUME UNCHANGED windowVars
      PROVE  Goal
  BY <1>r, <1>u DEF windowVars, docVars, WindowTypeOK, WindowInv, WindowOK, Open, OnItsWay,
                    InputHeld
<1>1. CASE Tick
  <2>1. \A o \in Owners : /\ waited'[o] \in 0..EditorWait
                          /\ step[o] # "wait" => waited'[o] = waited[o]
    BY <1>1, <1>w DEF Tick, WindowTypeOK
  <2> QED
    BY <1>1, <2>1 DEF Tick, docVars, vars, WindowTypeOK, WindowInv, WindowOK, Open, OnItsWay,
                      InputHeld
<1>2. CASE Expire \/ UNCHANGED allVars
  BY <1>2, <1>u DEF Expire, allVars
<1>3. ASSUME NEW o \in Owners, Synchronizes(o)
      PROVE  Goal
  <2>r. revision' = revision
    BY <1>3 DEF Synchronizes, ReadStatus, Reported, Freeze, Settle, SettledReport, Permit,
                PermitRefused, StopWaiting, Refresh, Show, ReportDraft, GrantPermit, vars
  <2> USE <1>r, <2>r DEF WindowTypeOK, WindowInv, WindowOK, Open, OnItsWay, InputHeld, Goes, docVars
  <2>1. CASE ReadStatus(o)
    BY <2>1 DEF ReadStatus, AfterReport, Flushed, Report, Steps
  <2>2. CASE Reported(o)
    BY <2>2 DEF Reported, AfterReport, Steps
  <2>3. CASE Freeze(o)
    BY <2>3 DEF Freeze
  <2>4. CASE Settle(o)
    BY <2>4 DEF Settle, AfterSettling, Flushed, Report, Steps
  <2>5. CASE SettledReport(o)
    <3>1. ReportAccepted \in BOOLEAN
      BY DEF ReportAccepted, Fits
    <3> QED
      BY <2>5, <3>1 DEF SettledReport, AfterSettling, Steps
  <2>6. CASE Permit(o)
    BY <2>6 DEF Permit, Steps
  <2>7. CASE PermitRefused(o)
    BY <2>7 DEF PermitRefused, Steps
  <2>8. CASE StopWaiting(o)
    BY <2>8, <1>w DEF StopWaiting, Steps
  <2>9. CASE Refresh(o)
    <3> DEFINE adopts == base[o] # revision /\ text[o] # "draft"
    <3>1. /\ step[o] = "refresh"
          /\ base' = [base EXCEPT ![o] = IF adopts THEN revision ELSE @]
          /\ stale' = [stale EXCEPT ![o] = @ \/ base[o] # revision]
          /\ frozen' = [frozen EXCEPT ![o] = @ /\ adopts]
          /\ step' = [step EXCEPT ![o] = IF adopts THEN "show" ELSE "idle"]
          /\ UNCHANGED <<nat, ctl, text, reported, sent, seen, waited, lastRead>>
      BY <2>9 DEF Refresh
    <3>2. WindowTypeOK'
      BY <3>1 DEF Steps
    <3>3. ASSUME NEW p \in Owners, p # o
          PROVE  WindowOK(p)'
      BY <3>1, <3>3
    <3>4. CASE adopts
      <4>1. /\ base'[o] = revision /\ stale'[o] /\ frozen'[o] = frozen[o]
            /\ step'[o] = "show"
        <5>1. base'[o] = revision /\ step'[o] = "show"
          BY <3>1, <3>4
        <5>2. frozen'[o] = (frozen[o] /\ adopts)
          BY <3>1, Zenon
        <5>3. stale'[o] = (stale[o] \/ base[o] # revision)
          BY <3>1, Zenon
        <5> QED
          BY <3>4, <5>1, <5>2, <5>3
      <4>2. WindowOK(o)'
        BY <3>1, <4>1
      <4> QED
        BY <3>2, <3>3, <4>2
    <3>5. CASE ~adopts
      <4>1. base'[o] = base[o] /\ ~frozen'[o] /\ step'[o] = "idle" /\ (stale[o] => stale'[o])
        <5>1. base'[o] = base[o] /\ step'[o] = "idle"
          BY <3>1, <3>5
        <5>2. frozen'[o] = (frozen[o] /\ adopts)
          BY <3>1, Zenon
        <5>3. stale'[o] = (stale[o] \/ base[o] # revision)
          BY <3>1, Zenon
        <5> QED
          BY <3>5, <5>1, <5>2, <5>3
      <4>2. lastRead[o] # "owed"
        BY <3>1, <3>5
      <4>3. WindowOK(o)'
        BY <3>1, <4>1, <4>2
      <4> QED
        BY <3>2, <3>3, <4>3
    <3> QED
      BY <3>4, <3>5
  <2>10. CASE Show(o)
    <3>1. lastRead[o] = "owed" => text[o] = "none"
      OBVIOUS
    <3>2. CASE text[o] = "draft"
      BY <2>10, <3>1, <3>2 DEF Show, Steps
    <3>3. CASE text[o] # "draft"
      <4>1. /\ step[o] = "show"
            /\ stale' = [stale EXCEPT ![o] = FALSE]
            /\ lastRead' = [lastRead EXCEPT ![o] = "read"]
            /\ frozen' = [frozen EXCEPT ![o] = FALSE]
            /\ step' = [step EXCEPT ![o] = "idle"]
            /\ UNCHANGED <<nat, ctl, text, reported, sent, seen, base, waited>>
        BY <2>10, <3>3 DEF Show, ReadsDocument
      <4>2. WindowTypeOK'
        BY <4>1 DEF Steps
      <4>3. WindowOK(o)'
        BY <4>1
      <4>4. \A p \in Owners : p # o => WindowOK(p)'
        BY <4>1
      <4> QED
        BY <4>2, <4>3, <4>4
    <3> QED
      BY <3>2, <3>3
  <2> QED
    BY <1>3, <2>1, <2>2, <2>3, <2>4, <2>5, <2>6, <2>7, <2>8, <2>9, <2>10 DEF Synchronizes
<1>4. ASSUME NEW o \in Owners, AuthorStep(o)
      PROVE  Goal
  <2> USE <1>r DEF WindowTypeOK, WindowInv, WindowOK, Open, OnItsWay, InputHeld, Goes, docVars
  <2>1. CASE Types(o)
    BY <2>1 DEF Types, vars
  <2>2. CASE Settles(o)
    BY <2>2 DEF Settles, vars
  <2>3. CASE Applies(o)
    BY <2>3 DEF Applies, Busy, Steps
  <2>4. ASSUME NEW allowed \in BOOLEAN, Allows(o, allowed)
        PROVE  Goal
    BY <2>4 DEF Allows, ExternalEdits
  <2>5. CASE ShowsAgain(o)
    BY <2>5 DEF ShowsAgain, ReadsDocument, Busy, Steps, vars
  <2>6. CASE RequestFails(o)
    BY <2>6, <1>w DEF RequestFails, Missed, Steps, vars
  <2>7. CASE LoseStream(o)
    BY <2>7, <1>w DEF LoseStream, Steps
  <2>8. ASSUME NEW c \in Conns, Reopens(o, c)
        PROVE  Goal
    <3>1. revision' = revision
      BY <2>8 DEF Reopens, AttachNative
    <3>2. /\ ~Open(o) /\ c # 0
          /\ nat' = [nat EXCEPT ![o] = c]
          /\ base' = [base EXCEPT ![o] = revision]
          /\ UNCHANGED <<ctl, step, text, frozen, reported, sent, seen, waited>>
      BY <2>8, ConnsAssumption DEF Reopens
    <3>3. \/ UNCHANGED <<stale, lastRead>>
          \/ /\ stale' = [stale EXCEPT ![o] = FALSE]
             /\ lastRead' = [lastRead EXCEPT ![o] = "read"]
      BY <2>8 DEF Reopens, ReadsDocument
    <3>4. WindowTypeOK'
      BY <3>1, <3>2, <3>3
    <3>5. WindowOK(o)'
      BY <3>1, <3>2, <3>3
    <3>6. \A p \in Owners : p # o => WindowOK(p)'
      BY <3>1, <3>2, <3>3
    <3> QED
      BY <3>4, <3>5, <3>6
  <2>9. ASSUME NEW c \in Conns, OpensControl(o, c)
        PROVE  Goal
    BY <2>9 DEF OpensControl
  <2> QED
    BY <1>4, <2>1, <2>2, <2>3, <2>4, <2>5, <2>6, <2>7, <2>8, <2>9 DEF AuthorStep
<1>5. ASSUME NEW c \in Conns, HostDisconnects(c)
      PROVE  Goal
  BY <1>5, <1>u DEF HostDisconnects
<1>6. ASSUME NEW w \in Writes, AssistantAsks(w)
      PROVE  Goal
  BY <1>6, <1>u DEF AssistantAsks
<1>7. ASSUME NEW w \in Writes, AssistantWrites(w)
      PROVE  Goal
  <2>1. /\ UNCHANGED <<nat, ctl, step, text, frozen, reported, sent, seen, base, waited, stale>>
        /\ lastRead' = [o \in Owners |->
                          IF revision' = revision THEN lastRead[o]
                          ELSE IF Open(o) /\ o \notin gaveUp THEN "owed" ELSE "missed"]
    BY <1>7 DEF AssistantWrites
  <2>2. \A o \in Owners : Open(o) /\ o \notin gaveUp => step[o] = "wait" /\ InputHeld(o)
    BY <1>7, WriteFindsWindowsWaiting
  <2> QED
    BY <1>r, <2>1, <2>2 DEF WindowTypeOK, WindowInv, WindowOK, Open, OnItsWay, InputHeld
<1> QED
  BY <1>1, <1>2, <1>3, <1>4, <1>5, <1>6, <1>7 DEF ConnectedNext

\* The clock.
LEMMA ClockStep ==
    ASSUME ClockTypeOK, [ConnectedNext]_allVars
    PROVE  ClockTypeOK'
<1>w. HostLife \in Nat
  BY WaitAssumption
<1> QED
  BY <1>w DEF ConnectedNext, Tick, Aging, ClockTypeOK, allVars

\* A permit outlives neither the intent it was granted for nor, unless a poll fails,
\* the window's wait.
LEMMA PermitsHeldStep ==
    ASSUME TypeOK, WindowTypeOK, ClockTypeOK, ClientsKnown, WindowInv, PermitsHeld,
           [ConnectedNext]_allVars
    PROVE  PermitsHeld'
<1>w. HostLife \in Nat /\ EditorWait \in Nat /\ HostLife < EditorWait
  BY WaitAssumption
<1>n. ASSUME intent' = NoIntent
      PROVE  PermitsHeld'
  BY <1>n DEF PermitsHeld
<1>k. ASSUME intent' = intent, Aging, NEW o \in Owners,
             \A p \in Owners : p # o =>
                nat'[p] = nat[p] /\ step'[p] = step[p] /\ waited'[p] = waited[p],
             nat'[o] # 0 => /\ nat'[o] = nat[o]
                            /\ \/ Expired \/ step[o] # "wait" \/ step'[o] = "idle"
                               \/ step'[o] = step[o] /\ waited'[o] = waited[o]
      PROVE  PermitsHeld'
  BY <1>k DEF PermitsHeld, Aging, Expired, Open
<1>u. ASSUME intent' = intent, Aging, UNCHANGED <<nat, step, waited>>
      PROVE  PermitsHeld'
  BY <1>u DEF PermitsHeld, Aging, Expired, Open
<1>1. CASE Tick
  BY <1>1, <1>w DEF Tick, PermitsHeld, Expired, Open, ClockTypeOK, WindowTypeOK, vars
<1>2. CASE Expire
  BY <1>2, <1>n DEF Expire, IntentExpires, ClearIntent
<1>3. ASSUME NEW o \in Owners, Synchronizes(o), Aging
      PROVE  PermitsHeld'
  <2> USE DEF WindowTypeOK, Goes
  <2>1. CASE ReadStatus(o)
    BY <1>3, <1>k, <2>1 DEF ReadStatus, vars
  <2>2. CASE Reported(o) \/ SettledReport(o)
    <3>1. intent' = intent \/ intent' = NoIntent
      BY <2>2 DEF Reported, SettledReport, ReportDraft
    <3> QED
      BY <1>3, <1>k, <1>n, <2>2, <3>1 DEF Reported, SettledReport
  <2>3. CASE Freeze(o) \/ Settle(o) \/ PermitRefused(o) \/ Refresh(o) \/ Show(o)
    BY <1>3, <1>k, <2>3 DEF Freeze, Settle, PermitRefused, Refresh, Show, vars
  <2>4. CASE StopWaiting(o)
    <3>1. CASE intent = NoIntent
      BY <1>n, <2>4, <3>1 DEF StopWaiting, vars
    <3>2. CASE waited[o] = EditorWait
      <4>1. Open(o) /\ intent # NoIntent /\ nat[o] \in intent.granted
               => Expired \/ o \in gaveUp
        BY <1>w, <3>2 DEF PermitsHeld, ClockTypeOK
      <4> QED
        BY <1>3, <2>4, <4>1 DEF StopWaiting, PermitsHeld, Aging, Expired, Open, vars
    <3> QED
      BY <2>4, <3>1, <3>2 DEF StopWaiting, WaitIsOver
  <2>5. CASE Permit(o)
    <3>1. /\ intent' = [intent EXCEPT !.granted = @ \cup {nat[o]}]
          /\ up /\ intent # NoIntent
          /\ step[o] = "permit"
          /\ step' = [step EXCEPT ![o] = "wait"]
          /\ UNCHANGED <<nat, waited>>
          /\ nat[o] \in Editors
      BY <2>5 DEF Permit, GrantPermit
    <3>2. intent \in Intent
      BY <3>1 DEF TypeOK
    <3>3. intent'.granted = intent.granted \cup {nat[o]}
      BY <3>1, <3>2 DEF Intent
    <3>4. waited[o] = 0 /\ age \in Nat
      BY <3>1 DEF WindowInv, WindowOK, ClockTypeOK
    <3>5. CASE intent' # NoIntent
      <4>1. age' = age /\ (Expired' <=> Expired)
        BY <1>3, <3>1, <3>5 DEF Aging, Expired
      <4>2. step'[o] = "wait" /\ waited'[o] <= age'
        BY <3>1, <3>4, <4>1
      <4>3. ASSUME NEW p \in Owners, p # o, Open(p), nat[p] \in intent'.granted
            PROVE  Expired \/ (step[p] = "wait" /\ waited[p] <= age) \/ p \in gaveUp'
        <5>1. nat[p] # nat[o]
          <6>1. OwnClient(p) /\ clients[nat[p]].owner = p
            BY <3>1, <4>3 DEF ClientsKnown, OwnClient
          <6>2. nat[o] # 0
            BY <3>1, ConnsAssumption DEF Editors, ConnectedNatives, Natives, TypeOK
          <6>3. clients[nat[o]].owner = o
            BY <3>1, <6>2 DEF ClientsKnown, OwnClient, Open
          <6> QED
            BY <4>3, <6>1, <6>3
        <5>2. nat[p] \in intent.granted
          BY <3>3, <4>3, <5>1
        <5> QED
          BY <1>3, <3>1, <3>5, <4>3, <5>2 DEF PermitsHeld, Aging
      <4>4. \A p \in Owners : p # o => step'[p] = step[p]
        BY <3>1
      <4> QED
        BY <3>1, <4>1, <4>2, <4>3, <4>4 DEF PermitsHeld, Open
    <3> QED
      BY <1>n, <3>5
  <2> QED
    BY <1>3, <2>1, <2>2, <2>3, <2>4, <2>5 DEF Synchronizes
<1>4. ASSUME NEW o \in Owners, AuthorStep(o), Aging
      PROVE  PermitsHeld'
  <2>1. CASE Types(o) \/ Settles(o) \/ ShowsAgain(o)
    BY <1>4, <1>u, <2>1 DEF Types, Settles, ShowsAgain, vars
  <2>7. CASE RequestFails(o)
    BY <1>4, <1>k, <2>7 DEF RequestFails, Goes, WindowTypeOK, vars
  <2>2. CASE Applies(o)
    BY <1>n, <2>2 DEF Applies, NativeWrite, ClearIntent
  <2>3. ASSUME NEW allowed \in BOOLEAN, Allows(o, allowed)
        PROVE  PermitsHeld'
    BY <1>4, <1>n, <1>u, <2>3 DEF Allows, ExternalEdits
  <2>4. CASE LoseStream(o)
    <3>1. /\ nat' = [nat EXCEPT ![o] = 0]
          /\ step' = [step EXCEPT ![o] = "idle"]
          /\ waited' = [waited EXCEPT ![o] = 0]
      BY <2>4 DEF LoseStream, Goes
    <3>2. CASE intent' = intent
      BY <1>4, <1>k, <3>1, <3>2 DEF WindowTypeOK
    <3>3. CASE intent' = NoIntent
      BY <1>n, <3>3
    <3>4. CASE up /\ intent # NoIntent /\ intent' = [intent EXCEPT !.granted = @ \cup {nat[o]}]
      <4>1. ASSUME NEW p \in Owners, nat'[p] # 0, nat'[p] \in intent'.granted,
                   intent' # NoIntent
            PROVE  Expired' \/ (step'[p] = "wait" /\ waited'[p] <= age') \/ p \in gaveUp'
        <5>1. p # o /\ nat'[p] = nat[p] /\ step'[p] = step[p] /\ waited'[p] = waited[p]
          BY <3>1, <4>1 DEF WindowTypeOK
        <5>2. intent'.granted = intent.granted \cup {nat[o]}
          BY <3>4 DEF TypeOK, Intent
        <5>3. nat[p] # nat[o]
          <6>1. clients[nat[p]].owner = p /\ clients[nat[o]].owner = o
            BY <2>4, <3>4, <4>1, <5>1 DEF LoseStream, ClientsKnown, OwnClient, Open
          <6> QED
            BY <5>1, <6>1
        <5>4. Expired \/ (step[p] = "wait" /\ waited[p] <= age) \/ p \in gaveUp
          BY <3>4, <4>1, <5>1, <5>2, <5>3 DEF PermitsHeld, Open
        <5>5. age' = age /\ (p \in gaveUp => p \in gaveUp')
          BY <1>4, <3>4, <4>1 DEF Aging
        <5> QED
          BY <4>1, <5>1, <5>4, <5>5 DEF Expired
      <4> QED
        BY <4>1 DEF PermitsHeld, Open
    <3> QED
      BY <2>4, <3>2, <3>3, <3>4 DEF LoseStream, MayHaveTaken, ReportDraft, GrantPermit, vars
  <2>5. ASSUME NEW c \in Conns, Reopens(o, c)
        PROVE  PermitsHeld'
    BY <1>n, <2>5 DEF Reopens, AttachNative, ClearIntent
  <2>6. ASSUME NEW c \in Conns, OpensControl(o, c)
        PROVE  PermitsHeld'
    BY <1>4, <1>u, <2>6 DEF OpensControl, AttachControl
  <2> QED
    BY <1>4, <2>1, <2>2, <2>3, <2>4, <2>5, <2>6, <2>7 DEF AuthorStep
<1>5. ASSUME NEW c \in Conns, HostDisconnects(c), Aging
      PROVE  PermitsHeld'
  BY <1>5, <1>n, <1>u DEF HostDisconnects, Disconnect, HostGone, windowVars
<1>6. ASSUME NEW w \in Writes, AssistantAsks(w), Aging
      PROVE  PermitsHeld'
  <2>1. intent'.granted = {}
    BY <1>6 DEF AssistantAsks, RequestPermit
  <2> QED
    BY <2>1 DEF PermitsHeld
<1>7. ASSUME NEW w \in Writes, AssistantWrites(w)
      PROVE  PermitsHeld'
  BY <1>7, <1>n DEF AssistantWrites, ExternalWrite, ClearIntent
<1>8. CASE UNCHANGED allVars
  BY <1>8 DEF allVars, vars, windowVars, PermitsHeld, Expired, Open
<1> QED
  BY <1>1, <1>2, <1>3, <1>4, <1>5, <1>6, <1>7, <1>8 DEF ConnectedNext

\* The invariant of the composition.
ConnectedInv ==
    /\ TypeOK /\ WindowTypeOK /\ ClockTypeOK
    /\ ClientsKnown /\ WindowInv /\ PermitsHeld

LEMMA ConnectedInvInit == ConnectedInit => ConnectedInv
<1> SUFFICES ASSUME ConnectedInit
             PROVE  ConnectedInv
  OBVIOUS
<1>1. TypeOK
  BY FirstClients
<1>2. WindowTypeOK /\ ClockTypeOK
  BY ConnectionsAssumption, WaitAssumption DEF ConnectedInit, WindowTypeOK, ClockTypeOK, Steps
<1>3. ClientsKnown
  <2>1. nat = FirstNative
    BY DEF ConnectedInit
  <2> QED
    BY <2>1, FirstClients DEF ClientsKnown, OwnClient, ConnectedNatives, Natives
<1>4. WindowInv
  BY ConnectionsAssumption, ConnsAssumption DEF ConnectedInit, WindowInv, WindowOK, Open
<1>5. PermitsHeld
  BY DEF ConnectedInit, PermitsHeld
<1> QED
  BY <1>1, <1>2, <1>3, <1>4, <1>5 DEF ConnectedInv

LEMMA ConnectedInvStep == ConnectedInv /\ [ConnectedNext]_allVars => ConnectedInv'
<1> SUFFICES ASSUME ConnectedInv, [ConnectedNext]_allVars
             PROVE  ConnectedInv'
  OBVIOUS
<1>1. TypeOK'
  BY ConnectedIsHostStep, TypeOKStep DEF ConnectedInv
<1>2. WindowTypeOK' /\ WindowInv'
  BY WindowStep DEF ConnectedInv
<1>3. ClockTypeOK'
  BY ClockStep DEF ConnectedInv
<1>4. ClientsKnown' /\ PermitsHeld'
  BY ClientsKnownStep, PermitsHeldStep DEF ConnectedInv
<1> QED
  BY <1>1, <1>2, <1>3, <1>4 DEF ConnectedInv

LEMMA ConnectedInvariance == ConnectedSpec => []ConnectedInv
BY ConnectedInvInit, ConnectedInvStep, PTL DEF ConnectedSpec

\* The type invariant of the composition.
THEOREM ConnectedTypeCorrect == ConnectedSpec => []ConnectedTypeOK
<1>1. ConnectedInv => ConnectedTypeOK
  BY DEF ConnectedInv, WindowTypeOK, ClockTypeOK, ConnectedTypeOK
<1> QED
  BY <1>1, ConnectedInvariance, PTL

\* The host the windows talk to takes the steps of the host of Collaboration and
\* no others.
THEOREM WindowsTalkToTheHost == ConnectedSpec => [][Next]_vars
<1>1. ConnectedInv /\ [ConnectedNext]_allVars => [Next]_vars
  BY ConnectedIsHostStep DEF ConnectedInv
<1> QED
  BY <1>1, ConnectedInvariance, PTL DEF ConnectedSpec

\* For any number of windows, any waits of which the window's is the longer, and any
\* requests and streams that fail: an author who can type has a document read since
\* the last external write, or a failure came between and the window still tells, by
\* the document's mark or by its revision, that the document is old.
THEOREM ExternalWritesAreNotMissed == ConnectedSpec => []NoExternalWriteIsMissed
<1>1. ConnectedInv => NoExternalWriteIsMissed
  BY DEF ConnectedInv, WindowTypeOK, WindowInv, WindowOK, OnItsWay, InputHeld,
         NoExternalWriteIsMissed
<1> QED
  BY <1>1, ConnectedInvariance, PTL

\* No external write goes through under an open window that accepts input or has
\* something typed, unless its poll failed while the host had its permit.
THEOREM WritesFindInputHeld == ConnectedSpec => WrittenWhileInputIsHeld
<1>1. ConnectedInv =>
         [\A w \in Writes : AssistantWrites(w) =>
             \A o \in Owners : Open(o) =>
                \/ frozen[o] /\ text[o] = "none"
                \/ o \in gaveUp /\ step[o] # "wait"]_allVars
  <2> SUFFICES ASSUME ConnectedInv, NEW w \in Writes, AssistantWrites(w),
                      NEW o \in Owners, Open(o)
               PROVE  \/ frozen[o] /\ text[o] = "none"
                      \/ o \in gaveUp /\ step[o] # "wait"
    OBVIOUS
  <2>1. CASE o \notin gaveUp
    BY <2>1, WriteFindsWindowsWaiting DEF ConnectedInv, InputHeld
  <2>2. CASE step[o] = "wait"
    BY <2>2 DEF ConnectedInv, WindowInv, WindowOK
  <2> QED
    BY <2>1, <2>2
<1> QED
  BY <1>1, ConnectedInvariance, PTL DEF WrittenWhileInputIsHeld

\* The consent of the editors protects the windows of the composition too.
THEOREM ConnectedConsent == ConnectedSpec => ConsentBeforeExternalWrite
<1>1. ConnectedInit => ConsentInv
  <2> SUFFICES ASSUME ConnectedInit
               PROVE  ConsentInv
    OBVIOUS
  <2>1. Owners \subseteq NativeOwners(clients)
    BY FirstClients DEF NativeOwners
  <2>2. OwnersOf(holdFile) = OwnersOf({}) \cup NativeOwners(clients)
    BY OwnersOfRows DEF ConnectedInit
  <2>3. \A c \in Natives : clients[c].owner \in NativeOwners(clients)
    BY DEF Natives, NativeOwners
  <2> QED
    BY <2>1, <2>2, <2>3 DEF ConnectedInit, ConsentInv
<1>2. TypeOK /\ ConsentInv /\ [Next]_vars => ConsentInv'
  BY ConsentStep
<1>3. ConsentInv => [\A c \in Conns, w \in Writes : ExternalWrite(c, w) => awaiting = {}]_vars
  BY WriteNeedsConsent
<1>4. ConnectedInv => TypeOK
  BY DEF ConnectedInv
<1> QED
  BY <1>1, <1>2, <1>3, <1>4, WindowsTalkToTheHost, ConnectedInvariance, PTL
     DEF ConnectedSpec, ConsentBeforeExternalWrite

=============================================================================
