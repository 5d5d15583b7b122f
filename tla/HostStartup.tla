------------------------------ MODULE HostStartup ------------------------------
(***************************************************************************)
(* How one session host per project comes to be and goes away.  Every      *)
(* editor or agent starts a proxy process; a proxy attaches to the host    *)
(* the endpoint descriptor names, and when there is none it probes the     *)
(* project's writer lock and launches a host of its own.  Hosts compete    *)
(* for the lock, publish the descriptor, serve, and retire with their last *)
(* client, after an unknown outcome, or by a panic that poisons them.      *)
(* (shared_host.rs, host_startup.rs, proxy.rs, poison.rs, writer_lock.rs)  *)
(*                                                                         *)
(* A proxy launches at most one host, so hosts are named by their proxies. *)
(* Time is not modelled: any wait for silence or patience may end as soon  *)
(* as its guard allows, except that a start ends within the 60 seconds a   *)
(* launching proxy grants it.                                              *)
(***************************************************************************)
EXTENDS Naturals, FiniteSets

CONSTANTS
    Proxies,    \* proxy processes, each with one connection to offer
    Natives,    \* the proxies of one editor identity, which may be connected once
    Observers,  \* proxies that only read status and never launch
    MaxFaults,  \* bound: crashes, failed starts and killed proxies
    NoHost

ASSUME ProxiesAssumption ==
    Natives \subseteq Proxies /\ Observers \subseteq Proxies \ Natives
ASSUME NoHostAssumption == NoHost \notin Proxies
ASSUME FaultsAssumption == MaxFaults \in Nat

VARIABLES
    writer,      \* the host that holds the project's writer lock
    descriptor,  \* the host the endpoint descriptor names; NoHost: missing or torn
    at,          \* where a proxy is in attach and relay
    asked,       \* the host a proxy is connected to
    phase,       \* where a host process is in host and serve
    clients,     \* State.clients of a host, those that are open
    asks,        \* attach requests a host has not answered yet
    left,        \* ended connections a host has not noticed yet
    connected,   \* serve's flag: somebody has been attached
    reply,       \* the startup reply file of a launched host
    faults       \* bound on the environment, and history: what went wrong so far

hostVars == <<phase, clients, asks, left, connected, reply>>
proxyVars == <<at, asked>>
vars == <<writer, descriptor, at, asked, phase, clients, asks, left, connected,
          reply, faults>>

Hosts == Proxies

TypeOK ==
    /\ writer \in Hosts \cup {NoHost}
    /\ descriptor \in Hosts \cup {NoHost}
    /\ at \in [Proxies -> {"looking", "asking", "deciding", "probing", "launching",
                           "refused", "waiting", "attached", "failed", "gone"}]
    /\ asked \in [Proxies -> Hosts \cup {NoHost}]
    /\ \A p \in Proxies : asked[p] # NoHost <=> at[p] \in {"asking", "attached"}
    /\ phase \in [Hosts -> {"none", "opening", "opened", "saving", "saved", "serving",
                            "withdrawn", "poisoned", "drained", "ended"}]
    /\ clients \in [Hosts -> SUBSET Proxies]
    /\ asks \in [Hosts -> SUBSET Proxies]
    /\ left \in [Hosts -> SUBSET Proxies]
    /\ connected \in [Hosts -> BOOLEAN]
    /\ reply \in [Hosts -> {"empty", "started", "failed"}]
    /\ faults \in 0..MaxFaults

Init ==
    /\ writer = NoHost
    /\ descriptor = NoHost
    /\ at = [p \in Proxies |-> "looking"]
    /\ asked = [p \in Proxies |-> NoHost]
    /\ phase = [h \in Hosts |-> "none"]
    /\ clients = [h \in Hosts |-> {}]
    /\ asks = [h \in Hosts |-> {}]
    /\ left = [h \in Hosts |-> {}]
    /\ connected = [h \in Hosts |-> FALSE]
    /\ reply = [h \in Hosts |-> "empty"]
    /\ faults = 0

\* Mutated form of LockFree: a lock that only hosts respect among themselves is
\* ignored by everyone.
LockIgnored == TRUE

\* The lock is taken by a host for its session, and by a proxy that probes it.
LockFree == writer = NoHost /\ \A p \in Proxies : at[p] # "probing"

Launched(p) == phase[p] # "none"
Starting(h) == phase[h] \in {"opening", "opened", "saving", "saved"}
Listening(h) == phase[h] \notin {"none", "opening", "ended"}
Holding(h) == writer = h
Unlocked(h) == IF writer = h THEN NoHost ELSE writer

MoveProxy(p, to) == at' = [at EXCEPT ![p] = to]

\* The proxy is without a connection from then on.
HangUp(p, to) == MoveProxy(p, to) /\ asked' = [asked EXCEPT ![p] = NoHost]
MoveHost(h, to) == phase' = [phase EXCEPT ![h] = to]

\* The process ends, and its event queue and connections with it.
EndHost(h) ==
    /\ MoveHost(h, "ended")
    /\ clients' = [clients EXCEPT ![h] = {}]
    /\ asks' = [asks EXCEPT ![h] = {}]
    /\ left' = [left EXCEPT ![h] = {}]
    /\ connected' = [connected EXCEPT ![h] = FALSE]

-----------------------------------------------------------------------------
(* A proxy attaches (attach). *)

\* endpoint::load and the connection, which stays open until the host answers.
Connect(p) ==
    /\ at[p] = "looking"
    /\ descriptor # NoHost
    /\ Listening(descriptor)
    /\ MoveProxy(p, "asking")
    /\ asked' = [asked EXCEPT ![p] = descriptor]
    /\ asks' = [asks EXCEPT ![descriptor] = @ \cup {p}]
    /\ UNCHANGED <<writer, descriptor, phase, clients, left, connected, reply, faults>>

\* Observers give up, the others look further.
WhenUnreachable(p) == IF p \in Observers THEN "failed" ELSE "deciding"

\* No descriptor, a torn one, or one of a host that has ended.
NobodyThere(p) ==
    /\ at[p] = "looking"
    /\ descriptor # NoHost => ~Listening(descriptor)
    /\ MoveProxy(p, WhenUnreachable(p))
    /\ UNCHANGED <<writer, descriptor, asked, hostVars, faults>>

\* The host's process ended without answering.
ConnectionBroken(p) ==
    /\ at[p] = "asking"
    /\ phase[asked[p]] = "ended"
    /\ HangUp(p, WhenUnreachable(p))
    /\ UNCHANGED <<writer, descriptor, hostVars, faults>>

\* ProjectWriterLock::acquire succeeds.
Probe(p) ==
    /\ at[p] = "deciding"
    /\ ~Launched(p)
    /\ LockFree
    /\ MoveProxy(p, "probing")
    /\ UNCHANGED <<writer, descriptor, asked, hostVars, faults>>

\* A host was launched before, or the lock is held, which is no reason to give up.
NothingToLaunch(p) ==
    /\ at[p] = "deciding"
    /\ Launched(p) \/ ~LockFree
    /\ MoveProxy(p, "waiting")
    /\ UNCHANGED <<writer, descriptor, asked, hostVars, faults>>

\* Mutated form of AfterProbe: a host somebody launched is taken for a winner.
AfterProbeTrusting == IF \E q \in Proxies : Launched(q) THEN "waiting" ELSE "launching"

AfterProbe == "launching"

\* drop(writer)
Unprobe(p) ==
    /\ at[p] = "probing"
    /\ MoveProxy(p, AfterProbe)
    /\ UNCHANGED <<writer, descriptor, asked, hostVars, faults>>

\* Pending::launch
Launch(p) ==
    /\ at[p] = "launching"
    /\ MoveHost(p, "opening")
    /\ MoveProxy(p, "waiting")
    /\ UNCHANGED <<writer, descriptor, asked, clients, asks, left, connected, reply, faults>>

\* Mutated form of MayGiveUp: a refused editor asks again at once, for as long as
\* the other connection lasts.
MayGiveUpUnlessRefused(p) == at[p] = "waiting"

MayGiveUp(p) == at[p] \in {"waiting", "refused"}

\* attach_patience: a launched host is waited for until it has reported.
Patient(p) == Launched(p) /\ reply[p] = "empty" /\ Starting(p)

GiveUp(p) ==
    /\ MayGiveUp(p)
    /\ ~Patient(p)
    /\ MoveProxy(p, "failed")
    /\ UNCHANGED <<writer, descriptor, asked, hostVars, faults>>

\* Fifty milliseconds later.
LookAgain(p) ==
    /\ at[p] \in {"waiting", "refused"}
    /\ MoveProxy(p, "looking")
    /\ UNCHANGED <<writer, descriptor, asked, hostVars, faults>>

\* A host that still runs finds the connection closed.
Dropped(p) ==
    IF asked[p] # NoHost /\ Listening(asked[p])
      THEN [left EXCEPT ![asked[p]] = @ \cup {p}] ELSE left

\* The editor or agent ends its proxy, which is attached.
Leave(p) ==
    /\ at[p] = "attached"
    /\ HangUp(p, "gone")
    /\ left' = Dropped(p)
    /\ UNCHANGED <<writer, descriptor, phase, clients, asks, connected, reply, faults>>

\* A proxy is killed while it is starting up, and lets go of all it holds.
Kill(p) ==
    /\ at[p] \notin {"attached", "failed", "gone"}
    /\ faults < MaxFaults
    /\ faults' = faults + 1
    /\ HangUp(p, "gone")
    /\ left' = Dropped(p)
    /\ UNCHANGED <<writer, descriptor, phase, clients, asks, connected, reply>>

-----------------------------------------------------------------------------
(* A host starts (host). *)

\* open_project, create, listen, load_holds, load_receipt_gate
Open(h) ==
    /\ phase[h] = "opening"
    /\ LockFree
    /\ writer' = h
    /\ MoveHost(h, "opened")
    /\ UNCHANGED <<descriptor, proxyVars, clients, asks, left, connected, reply, faults>>

\* The lock is held, by a host or by a proxy that only looks: the start fails.
OpenRefused(h) ==
    /\ phase[h] = "opening"
    /\ ~LockFree
    /\ EndHost(h)
    /\ reply' = [reply EXCEPT ![h] = "failed"]
    /\ UNCHANGED <<writer, descriptor, proxyVars, faults>>

\* endpoint::save truncates the descriptor and then writes it.
Truncate(h) ==
    /\ phase[h] = "opened"
    /\ descriptor' = NoHost
    /\ MoveHost(h, "saving")
    /\ UNCHANGED <<writer, proxyVars, clients, asks, left, connected, reply, faults>>

Save(h) ==
    /\ phase[h] = "saving"
    /\ descriptor' = h
    /\ MoveHost(h, "saved")
    /\ UNCHANGED <<writer, proxyVars, clients, asks, left, connected, reply, faults>>

\* report(None), accept, serve
Report(h) ==
    /\ phase[h] = "saved"
    /\ reply' = [reply EXCEPT ![h] = "started"]
    /\ MoveHost(h, "serving")
    /\ UNCHANGED <<writer, descriptor, proxyVars, clients, asks, left, connected, faults>>

\* Anything else that fails on the way, the report itself included, which is then
\* tried once more with the error.
StartFails(h) ==
    /\ Starting(h)
    /\ faults < MaxFaults
    /\ faults' = faults + 1
    /\ writer' = Unlocked(h)
    /\ EndHost(h)
    /\ \E written \in {"failed", reply[h]} : reply' = [reply EXCEPT ![h] = written]
    /\ UNCHANGED <<descriptor, proxyVars>>

-----------------------------------------------------------------------------
(* A host serves (serve, State::attach, register_native_owner). *)

\* Mutated form of Serves: a poisoned host dispatches what it should refuse.
ServesPoisoned(h) == phase[h] \in {"serving", "poisoned"}

Serves(h) == phase[h] = "serving"

OwnerActive(h, p) == p \in Natives /\ \E q \in Natives \ {p} : q \in clients[h]

\* The connection of a refused attach is of no further consequence to either side.
Refuse(p, to) == IF at[p] = "asking" THEN HangUp(p, to) ELSE UNCHANGED proxyVars

\* A request of a connection comes before its end. The proxy may be dead by now.
Answer(h, p) ==
    /\ Serves(h)
    /\ p \in asks[h]
    /\ asks' = [asks EXCEPT ![h] = @ \ {p}]
    /\ IF OwnerActive(h, p)
         THEN /\ Refuse(p, "refused")
              /\ left' = [left EXCEPT ![h] = @ \ {p}]
              /\ UNCHANGED <<clients, connected>>
         ELSE /\ MoveProxy(p, IF at[p] = "asking" THEN "attached" ELSE at[p])
              /\ UNCHANGED asked
              /\ clients' = [clients EXCEPT ![h] = @ \cup {p}]
              /\ connected' = [connected EXCEPT ![h] = TRUE]
              /\ UNCHANGED left
    /\ UNCHANGED <<writer, descriptor, phase, reply, faults>>

\* Another build, other support files or another authority: the proxy ends.
AnswerIncompatible(h, p) ==
    /\ phase[h] = "serving"
    /\ p \in asks[h]
    /\ asks' = [asks EXCEPT ![h] = @ \ {p}]
    /\ left' = [left EXCEPT ![h] = @ \ {p}]
    /\ Refuse(p, "failed")
    /\ UNCHANGED <<writer, descriptor, phase, clients, connected, reply, faults>>

\* connected && !has_connected_clients
AfterLeaving(h, remaining) ==
    IF connected[h] /\ remaining = {} THEN "withdrawn" ELSE "serving"

Withdrawn(to) == IF to = "serving" THEN descriptor ELSE NoHost

Disconnected(h, p) ==
    LET remaining == clients[h] \ {p}
        to == AfterLeaving(h, remaining) IN
    /\ phase[h] = "serving"
    /\ p \in left[h] /\ p \notin asks[h]
    /\ left' = [left EXCEPT ![h] = @ \ {p}]
    /\ clients' = [clients EXCEPT ![h] = remaining]
    /\ MoveHost(h, to)
    /\ descriptor' = Withdrawn(to)
    /\ UNCHANGED <<writer, proxyVars, asks, connected, reply, faults>>

\* Ten seconds without an event before anybody was attached.
IdleTimeout(h) ==
    /\ phase[h] = "serving"
    /\ ~connected[h]
    /\ asks[h] = {} /\ left[h] = {}
    /\ MoveHost(h, "withdrawn")
    /\ descriptor' = NoHost
    /\ UNCHANGED <<writer, proxyVars, clients, asks, left, connected, reply, faults>>

\* A request of a client ends with an unknown outcome: the host retires.
OutcomeUnknown(h) ==
    /\ phase[h] = "serving"
    /\ clients[h] # {}
    /\ MoveHost(h, "withdrawn")
    /\ descriptor' = NoHost
    /\ UNCHANGED <<writer, proxyVars, clients, asks, left, connected, reply, faults>>

\* A request of a client panics: withdrawn before it is answered, then drained.
Panic(h) ==
    /\ phase[h] = "serving"
    /\ clients[h] # {}
    /\ MoveHost(h, "poisoned")
    /\ descriptor' = NoHost
    /\ UNCHANGED <<writer, proxyVars, clients, asks, left, connected, reply, faults>>

-----------------------------------------------------------------------------
(* A poisoned host answers its clients until they leave (drain). *)

\* session-poisoned is neither incompatible nor an active owner.
AfterPoison(p) == WhenUnreachable(p)

AnswerPoisoned(h, p) ==
    /\ phase[h] = "poisoned"
    /\ p \in asks[h]
    /\ asks' = [asks EXCEPT ![h] = @ \ {p}]
    /\ left' = [left EXCEPT ![h] = @ \ {p}]
    /\ Refuse(p, AfterPoison(p))
    /\ UNCHANGED <<writer, descriptor, phase, clients, connected, reply, faults>>

DisconnectedPoisoned(h, p) ==
    /\ phase[h] = "poisoned"
    /\ p \in left[h] /\ p \notin asks[h]
    /\ left' = [left EXCEPT ![h] = @ \ {p}]
    /\ clients' = [clients EXCEPT ![h] = @ \ {p}]
    /\ UNCHANGED <<writer, descriptor, proxyVars, phase, asks, connected, reply, faults>>

\* Nobody is left, or ten seconds went by without an event.
Drained(h) ==
    /\ phase[h] = "poisoned"
    /\ clients[h] = {} \/ (asks[h] = {} /\ left[h] = {})
    /\ MoveHost(h, "drained")
    /\ UNCHANGED <<writer, descriptor, proxyVars, clients, asks, left, connected, reply, faults>>

-----------------------------------------------------------------------------
(* A host ends. *)

\* Mutated form of Releasing: the session is dropped only after the drain.
ReleasingLate == {"withdrawn", "drained"}

\* The phases in which the session, the store and the jobs are being dropped.
Releasing == {"withdrawn", "poisoned", "drained"}

\* The last worker with a clone of the store has ended.
Release(h) ==
    /\ phase[h] \in Releasing
    /\ Holding(h)
    /\ writer' = NoHost
    /\ UNCHANGED <<descriptor, proxyVars, hostVars, faults>>

\* Mutated form of AtExit: the descriptor is removed only when the process ends.
RemovedAtExit == NoHost

\* What becomes of the descriptor when the process ends: no more than before.
AtExit == descriptor

Exit(h) ==
    /\ phase[h] \in {"withdrawn", "drained"}
    /\ ~Holding(h)
    /\ EndHost(h)
    /\ descriptor' = AtExit
    /\ UNCHANGED <<writer, proxyVars, reply, faults>>

\* The process is killed, or serve fails in State::disconnect: the operating system
\* releases the lock and the descriptor stays behind.
Crash(h) ==
    /\ phase[h] \notin {"none", "ended"}
    /\ faults < MaxFaults
    /\ faults' = faults + 1
    /\ writer' = Unlocked(h)
    /\ EndHost(h)
    /\ UNCHANGED <<descriptor, proxyVars, reply>>

-----------------------------------------------------------------------------
ProxyStep(p) ==
    \/ Connect(p) \/ NobodyThere(p) \/ ConnectionBroken(p)
    \/ Probe(p) \/ NothingToLaunch(p) \/ Unprobe(p) \/ Launch(p) \/ LookAgain(p)

StartStep(h) ==
    \/ Open(h) \/ OpenRefused(h) \/ Truncate(h) \/ Save(h) \/ Report(h)

ClientStep(h, p) ==
    \/ Answer(h, p) \/ AnswerIncompatible(h, p) \/ Disconnected(h, p)
    \/ AnswerPoisoned(h, p) \/ DisconnectedPoisoned(h, p)

EndStep(h) == Release(h) \/ Exit(h)

Next ==
    \/ \E p \in Proxies : ProxyStep(p) \/ GiveUp(p) \/ Leave(p) \/ Kill(p)
    \/ \E h \in Hosts :
         \/ StartStep(h) \/ StartFails(h)
         \/ (\E p \in Proxies : ClientStep(h, p)) \/ IdleTimeout(h) \/ OutcomeUnknown(h) \/ Panic(h)
         \/ Drained(h) \/ EndStep(h) \/ Crash(h)

Spec == Init /\ [][Next]_vars

\* Processes run on, a host takes its events in the order they came, notices silence
\* and ends its workers, and patience runs out however often it is asked. That clients
\* leave, or fall silent before a poisoned host, is not assumed.
Fairness ==
    /\ \A p \in Proxies : WF_vars(ProxyStep(p)) /\ SF_vars(GiveUp(p))
    /\ \A h \in Hosts :
         /\ WF_vars(StartStep(h)) /\ WF_vars(IdleTimeout(h)) /\ WF_vars(EndStep(h))
         /\ \A p \in Proxies : WF_vars(ClientStep(h, p))

FairSpec == Spec /\ Fairness

-----------------------------------------------------------------------------
(* Properties. *)

\* While a host serves, the descriptor leads to it: no host that fails to start, is
\* retiring or has crashed takes the descriptor of its successor away or puts its
\* own in its place. (host, serve; the descriptor is removed before the lock goes)
DescriptorLeads == \A h \in Hosts : phase[h] \in {"saved", "serving"} => descriptor = h

\* Two clients that are attached to serving hosts are attached to the same one.
\* (docs/mcp/README.md:148 "Both clients attach to one host. A storage writer lock
\* prevents independent writable sessions.")
Served(p) == at[p] = "attached" /\ phase[asked[p]] = "serving"
OneSession == \A p, q \in Proxies : Served(p) /\ Served(q) => asked[p] = asked[q]

\* A client is attached only to the host that holds the writer lock, never to one
\* that has been poisoned and may have released it. (serve, drain)
AttachesToTheWriter ==
    [][\A p \in Proxies : at[p] # "attached" /\ at'[p] = "attached" =>
         writer = asked'[p] /\ phase[asked'[p]] = "serving"]_vars

\* Probing the lock can make another proxy's host fail to start, but when nothing
\* else went wrong they cannot all fail each other: once every probe and every
\* start is over, one of the launched hosts got the lock. (attach: drop(writer)
\* before Pending::launch)
StartupHasAWinner ==
    /\ faults = 0
    /\ \E p \in Proxies : Launched(p)
    /\ \A p \in Proxies : at[p] \notin {"probing", "launching"} /\ phase[p] # "opening"
    => \E h \in Hosts : reply[h] # "failed" /\ Launched(h)

\* Every proxy's attach ends, attached or with an error, whatever hosts do: crash,
\* are poisoned, retire under a pending attach, or refuse a second connection of one
\* editor for as long as the first lasts. (attach, drain)
Settled(p) == at[p] \in {"attached", "failed", "gone"}
EveryAttachEnds == \A p \in Proxies : <>Settled(p)

\* A poisoned host lets go of the project although its clients stay, so that a
\* reopen can start a fresh one. (poison.rs:6-8 "withdraws its endpoint, releases the
\* project writer without saving, and answers remaining clients until they leave")
PoisonedHostReleases == \A h \in Hosts : phase[h] = "poisoned" ~> writer # h

\* A proxy keeps waiting for the host it launched "while it has not reported success
\* or failure" (proxy.rs:110-112), so that it does not fail to attach to a host that
\* has started and is being served by the descriptor.
SlowStartIsAttached ==
    [][\A p \in Proxies : at[p] = "waiting" /\ at'[p] = "failed" =>
         ~(reply[p] = "started" /\ phase[p] = "serving" /\ descriptor = p)]_vars
=============================================================================
