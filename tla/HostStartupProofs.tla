--------------------------- MODULE HostStartupProofs ---------------------------
(***************************************************************************)
(* Proofs about HostStartup for any number of proxies: one host serves at  *)
(* a time and it holds the writer lock, the descriptor leads to it, a      *)
(* client is attached to nobody else, and competing probes and launches    *)
(* cannot all fail each other.                                             *)
(***************************************************************************)
EXTENDS HostStartup, TLAPS

Keeping == {"opened", "saving", "saved", "serving"}

\* A host has the lock from opening the project to the end of serving, and only
\* a running host has it.
LockIsHeld ==
    /\ \A h \in Hosts : phase[h] \in Keeping => writer = h
    /\ \A h \in Hosts : writer = h => phase[h] \notin {"none", "opening", "ended"}

\* A proxy that probes the lock or is about to launch has not launched yet.
LaunchIsFirst ==
    \A p \in Proxies : at[p] \in {"probing", "launching"} => phase[p] = "none"

\* An attach request a host has not answered is of a proxy that waits for just
\* this host, or that is dead; a host that does not run has none.
AsksAreTheirs ==
    /\ \A h \in Hosts : phase[h] \in {"none", "opening", "ended"} => asks[h] = {}
    /\ \A h \in Hosts : \A p \in asks[h] :
          at[p] = "gone" \/ (at[p] = "asking" /\ asked[p] = h)

\* Reports are of hosts that were launched, and a host with the lock has not
\* reported a failure.
ReportsAreTrue ==
    /\ \A h \in Hosts : phase[h] \in {"none", "opening"} => reply[h] = "empty"
    /\ \A h \in Hosts : writer = h => reply[h] # "failed"

\* Unless something else went wrong, a launched host has not failed, or a proxy
\* that found the lock free has yet to launch its own.
SomebodyMayWin ==
    faults = 0 /\ (\E p \in Proxies : Launched(p)) =>
        \/ \E h \in Hosts : Launched(h) /\ reply[h] # "failed"
        \/ \E p \in Proxies : at[p] \in {"probing", "launching"}

IInv ==
    /\ TypeOK
    /\ LaunchIsFirst
    /\ LockIsHeld
    /\ DescriptorLeads
    /\ AsksAreTheirs
    /\ ReportsAreTrue
    /\ SomebodyMayWin

-----------------------------------------------------------------------------
(* Init establishes the invariant. *)

LEMMA InitIInv == Init => IInv
BY FaultsAssumption, NoHostAssumption
DEF Init, IInv, TypeOK, LaunchIsFirst, LockIsHeld, DescriptorLeads, AsksAreTheirs, ReportsAreTrue,
    SomebodyMayWin, Launched, Hosts, Keeping

-----------------------------------------------------------------------------
(* Every step preserves each part. *)

LEMMA TypeStep ==
    ASSUME TypeOK, [Next]_vars
    PROVE  TypeOK'
<1>1. ASSUME NEW p \in Proxies, Connect(p) PROVE TypeOK'
  BY <1>1, NoHostAssumption, FaultsAssumption, ProxiesAssumption
     DEF Connect, Listening, MoveProxy, TypeOK, Hosts
<1>2. ASSUME NEW p \in Proxies, NobodyThere(p) PROVE TypeOK'
  BY <1>2, NoHostAssumption, FaultsAssumption, ProxiesAssumption
     DEF NobodyThere, MoveProxy, WhenUnreachable, hostVars, TypeOK, Hosts
<1>3. ASSUME NEW p \in Proxies, ConnectionBroken(p) PROVE TypeOK'
  BY <1>3, NoHostAssumption, FaultsAssumption, ProxiesAssumption
     DEF ConnectionBroken, HangUp, MoveProxy, WhenUnreachable, hostVars, TypeOK, Hosts
<1>4. ASSUME NEW p \in Proxies, Probe(p) PROVE TypeOK'
  BY <1>4, NoHostAssumption, FaultsAssumption, ProxiesAssumption
     DEF Probe, MoveProxy, Launched, LockFree, hostVars, TypeOK, Hosts
<1>5. ASSUME NEW p \in Proxies, NothingToLaunch(p) PROVE TypeOK'
  BY <1>5, NoHostAssumption, FaultsAssumption, ProxiesAssumption
     DEF NothingToLaunch, MoveProxy, hostVars, TypeOK, Hosts
<1>6. ASSUME NEW p \in Proxies, Unprobe(p) PROVE TypeOK'
  BY <1>6, NoHostAssumption, FaultsAssumption, ProxiesAssumption
     DEF Unprobe, MoveProxy, AfterProbe, hostVars, TypeOK, Hosts
<1>7. ASSUME NEW p \in Proxies, Launch(p) PROVE TypeOK'
  BY <1>7, NoHostAssumption, FaultsAssumption, ProxiesAssumption
     DEF Launch, MoveProxy, MoveHost, TypeOK, Hosts
<1>8. ASSUME NEW p \in Proxies, LookAgain(p) PROVE TypeOK'
  BY <1>8, NoHostAssumption, FaultsAssumption, ProxiesAssumption
     DEF LookAgain, MoveProxy, hostVars, TypeOK, Hosts
<1>9. ASSUME NEW p \in Proxies, GiveUp(p) PROVE TypeOK'
  BY <1>9, NoHostAssumption, FaultsAssumption, ProxiesAssumption
     DEF GiveUp, MayGiveUp, MoveProxy, hostVars, TypeOK, Hosts
<1>10. ASSUME NEW p \in Proxies, Leave(p) PROVE TypeOK'
  BY <1>10, NoHostAssumption, FaultsAssumption, ProxiesAssumption
     DEF Leave, HangUp, MoveProxy, Dropped, Listening, TypeOK, Hosts
<1>11. ASSUME NEW p \in Proxies, Kill(p) PROVE TypeOK'
  BY <1>11, NoHostAssumption, FaultsAssumption, ProxiesAssumption
     DEF Kill, HangUp, MoveProxy, Dropped, Listening, TypeOK, Hosts
<1>12. ASSUME NEW h \in Hosts, Open(h) PROVE TypeOK'
  BY <1>12, NoHostAssumption, FaultsAssumption, ProxiesAssumption
     DEF Open, LockFree, MoveHost, proxyVars, TypeOK, Hosts
<1>13. ASSUME NEW h \in Hosts, OpenRefused(h) PROVE TypeOK'
  BY <1>13, NoHostAssumption, FaultsAssumption, ProxiesAssumption
     DEF OpenRefused, LockFree, EndHost, MoveHost, proxyVars, TypeOK, Hosts
<1>14. ASSUME NEW h \in Hosts, Truncate(h) PROVE TypeOK'
  BY <1>14, NoHostAssumption, FaultsAssumption, ProxiesAssumption
     DEF Truncate, MoveHost, proxyVars, TypeOK, Hosts
<1>15. ASSUME NEW h \in Hosts, Save(h) PROVE TypeOK'
  BY <1>15, NoHostAssumption, FaultsAssumption, ProxiesAssumption
     DEF Save, MoveHost, proxyVars, TypeOK, Hosts
<1>16. ASSUME NEW h \in Hosts, Report(h) PROVE TypeOK'
  BY <1>16, NoHostAssumption, FaultsAssumption, ProxiesAssumption
     DEF Report, MoveHost, proxyVars, TypeOK, Hosts
<1>17. ASSUME NEW h \in Hosts, StartFails(h) PROVE TypeOK'
  BY <1>17, NoHostAssumption, FaultsAssumption, ProxiesAssumption
     DEF StartFails, Starting, Unlocked, EndHost, MoveHost, proxyVars, TypeOK, Hosts
<1>18. ASSUME NEW h \in Hosts, IdleTimeout(h) PROVE TypeOK'
  BY <1>18, NoHostAssumption, FaultsAssumption, ProxiesAssumption
     DEF IdleTimeout, MoveHost, proxyVars, TypeOK, Hosts
<1>19. ASSUME NEW h \in Hosts, OutcomeUnknown(h) PROVE TypeOK'
  BY <1>19, NoHostAssumption, FaultsAssumption, ProxiesAssumption
     DEF OutcomeUnknown, MoveHost, proxyVars, TypeOK, Hosts
<1>20. ASSUME NEW h \in Hosts, Panic(h) PROVE TypeOK'
  BY <1>20, NoHostAssumption, FaultsAssumption, ProxiesAssumption
     DEF Panic, MoveHost, proxyVars, TypeOK, Hosts
<1>21. ASSUME NEW h \in Hosts, Drained(h) PROVE TypeOK'
  BY <1>21, NoHostAssumption, FaultsAssumption, ProxiesAssumption
     DEF Drained, MoveHost, proxyVars, TypeOK, Hosts
<1>22. ASSUME NEW h \in Hosts, Release(h) PROVE TypeOK'
  BY <1>22, NoHostAssumption, FaultsAssumption, ProxiesAssumption
     DEF Release, Holding, Releasing, proxyVars, hostVars, TypeOK, Hosts
<1>23. ASSUME NEW h \in Hosts, Exit(h) PROVE TypeOK'
  BY <1>23, NoHostAssumption, FaultsAssumption, ProxiesAssumption
     DEF Exit, Holding, EndHost, MoveHost, AtExit, proxyVars, TypeOK, Hosts
<1>24. ASSUME NEW h \in Hosts, Crash(h) PROVE TypeOK'
  BY <1>24, NoHostAssumption, FaultsAssumption, ProxiesAssumption
     DEF Crash, Unlocked, EndHost, MoveHost, proxyVars, TypeOK, Hosts
<1>25. ASSUME NEW h \in Hosts, NEW p \in Proxies, Answer(h, p) PROVE TypeOK'
  <2>1. CASE OwnerActive(h, p)
    BY <1>25, <2>1, NoHostAssumption, FaultsAssumption, ProxiesAssumption
       DEF Answer, Refuse, HangUp, MoveProxy, proxyVars, TypeOK, Hosts
  <2>2. CASE ~OwnerActive(h, p)
    <3>1. /\ at' \in [Proxies -> {"looking", "asking", "deciding", "probing", "launching",
                                   "refused", "waiting", "attached", "failed", "gone"}]
          /\ \A q \in Proxies : at'[q] \in {"asking", "attached"} <=> at[q] \in {"asking", "attached"}
      BY <1>25, <2>2 DEF Answer, MoveProxy, TypeOK, Hosts
    <3>2. clients' \in [Hosts -> SUBSET Proxies] /\ asks' \in [Hosts -> SUBSET Proxies]
      BY <1>25, <2>2 DEF Answer, TypeOK, Hosts
    <3>3. connected' \in [Hosts -> BOOLEAN]
      BY <1>25, <2>2 DEF Answer, TypeOK, Hosts
    <3> QED
      BY <1>25, <2>2, <3>1, <3>2, <3>3 DEF Answer, TypeOK, Hosts
  <2> QED
    BY <2>1, <2>2
<1>26. ASSUME NEW h \in Hosts, NEW p \in Proxies, AnswerIncompatible(h, p) PROVE TypeOK'
  BY <1>26, NoHostAssumption, FaultsAssumption, ProxiesAssumption
     DEF AnswerIncompatible, Refuse, HangUp, MoveProxy, proxyVars, TypeOK, Hosts
<1>27. ASSUME NEW h \in Hosts, NEW p \in Proxies, Disconnected(h, p) PROVE TypeOK'
  BY <1>27, NoHostAssumption, FaultsAssumption, ProxiesAssumption
     DEF Disconnected, AfterLeaving, Withdrawn, MoveHost, proxyVars, TypeOK, Hosts
<1>28. ASSUME NEW h \in Hosts, NEW p \in Proxies, AnswerPoisoned(h, p) PROVE TypeOK'
  BY <1>28, NoHostAssumption, FaultsAssumption, ProxiesAssumption
     DEF AnswerPoisoned, Refuse, AfterPoison, WhenUnreachable, HangUp, MoveProxy,
         proxyVars, TypeOK, Hosts
<1>29. ASSUME NEW h \in Hosts, NEW p \in Proxies, DisconnectedPoisoned(h, p) PROVE TypeOK'
  BY <1>29, NoHostAssumption, FaultsAssumption, ProxiesAssumption
     DEF DisconnectedPoisoned, proxyVars, TypeOK, Hosts
<1>30. CASE UNCHANGED vars
  BY <1>30, NoHostAssumption, FaultsAssumption, ProxiesAssumption
     DEF vars, hostVars, proxyVars, TypeOK, Hosts
<1> QED
  BY <1>1, <1>2, <1>3, <1>4, <1>5, <1>6, <1>7, <1>8, <1>9, <1>10, <1>11, <1>12, <1>13,
     <1>14, <1>15, <1>16, <1>17, <1>18, <1>19, <1>20, <1>21, <1>22, <1>23, <1>24, <1>25,
     <1>26, <1>27, <1>28, <1>29, <1>30
     DEF Next, ProxyStep, StartStep, ClientStep, EndStep

LEMMA LaunchStep ==
    ASSUME TypeOK, LaunchIsFirst, [Next]_vars
    PROVE  LaunchIsFirst'
<1>1. ASSUME NEW p \in Proxies, Connect(p) PROVE LaunchIsFirst'
  BY <1>1, NoHostAssumption DEF Connect, Listening, MoveProxy, TypeOK, LaunchIsFirst, Hosts
<1>2. ASSUME NEW p \in Proxies, NobodyThere(p) PROVE LaunchIsFirst'
  BY <1>2, NoHostAssumption
     DEF NobodyThere, MoveProxy, WhenUnreachable, hostVars, TypeOK, LaunchIsFirst, Hosts
<1>3. ASSUME NEW p \in Proxies, ConnectionBroken(p) PROVE LaunchIsFirst'
  BY <1>3, NoHostAssumption
     DEF ConnectionBroken, HangUp, MoveProxy, WhenUnreachable, hostVars, TypeOK,
         LaunchIsFirst, Hosts
<1>4. ASSUME NEW p \in Proxies, Probe(p) PROVE LaunchIsFirst'
  BY <1>4, NoHostAssumption
     DEF Probe, MoveProxy, Launched, LockFree, hostVars, TypeOK, LaunchIsFirst, Hosts
<1>5. ASSUME NEW p \in Proxies, NothingToLaunch(p) PROVE LaunchIsFirst'
  BY <1>5, NoHostAssumption
     DEF NothingToLaunch, MoveProxy, hostVars, TypeOK, LaunchIsFirst, Hosts
<1>6. ASSUME NEW p \in Proxies, Unprobe(p) PROVE LaunchIsFirst'
  BY <1>6, NoHostAssumption
     DEF Unprobe, MoveProxy, AfterProbe, hostVars, TypeOK, LaunchIsFirst, Hosts
<1>7. ASSUME NEW p \in Proxies, Launch(p) PROVE LaunchIsFirst'
  BY <1>7, NoHostAssumption DEF Launch, MoveProxy, MoveHost, TypeOK, LaunchIsFirst, Hosts
<1>8. ASSUME NEW p \in Proxies, LookAgain(p) PROVE LaunchIsFirst'
  BY <1>8, NoHostAssumption DEF LookAgain, MoveProxy, hostVars, TypeOK, LaunchIsFirst, Hosts
<1>9. ASSUME NEW p \in Proxies, GiveUp(p) PROVE LaunchIsFirst'
  BY <1>9, NoHostAssumption
     DEF GiveUp, MayGiveUp, MoveProxy, hostVars, TypeOK, LaunchIsFirst, Hosts
<1>10. ASSUME NEW p \in Proxies, Leave(p) PROVE LaunchIsFirst'
  BY <1>10, NoHostAssumption
     DEF Leave, HangUp, MoveProxy, Dropped, Listening, TypeOK, LaunchIsFirst, Hosts
<1>11. ASSUME NEW p \in Proxies, Kill(p) PROVE LaunchIsFirst'
  BY <1>11, NoHostAssumption
     DEF Kill, HangUp, MoveProxy, Dropped, Listening, TypeOK, LaunchIsFirst, Hosts
<1>12. ASSUME NEW h \in Hosts, Open(h) PROVE LaunchIsFirst'
  BY <1>12, NoHostAssumption
     DEF Open, LockFree, MoveHost, proxyVars, TypeOK, LaunchIsFirst, Hosts
<1>13. ASSUME NEW h \in Hosts, OpenRefused(h) PROVE LaunchIsFirst'
  BY <1>13, NoHostAssumption
     DEF OpenRefused, LockFree, EndHost, MoveHost, proxyVars, TypeOK, LaunchIsFirst,
         Hosts
<1>14. ASSUME NEW h \in Hosts, Truncate(h) PROVE LaunchIsFirst'
  BY <1>14, NoHostAssumption DEF Truncate, MoveHost, proxyVars, TypeOK, LaunchIsFirst, Hosts
<1>15. ASSUME NEW h \in Hosts, Save(h) PROVE LaunchIsFirst'
  BY <1>15, NoHostAssumption DEF Save, MoveHost, proxyVars, TypeOK, LaunchIsFirst, Hosts
<1>16. ASSUME NEW h \in Hosts, Report(h) PROVE LaunchIsFirst'
  BY <1>16, NoHostAssumption DEF Report, MoveHost, proxyVars, TypeOK, LaunchIsFirst, Hosts
<1>17. ASSUME NEW h \in Hosts, StartFails(h) PROVE LaunchIsFirst'
  BY <1>17, NoHostAssumption
     DEF StartFails, Starting, Unlocked, EndHost, MoveHost, proxyVars, TypeOK,
         LaunchIsFirst, Hosts
<1>18. ASSUME NEW h \in Hosts, IdleTimeout(h) PROVE LaunchIsFirst'
  BY <1>18, NoHostAssumption
     DEF IdleTimeout, MoveHost, proxyVars, TypeOK, LaunchIsFirst, Hosts
<1>19. ASSUME NEW h \in Hosts, OutcomeUnknown(h) PROVE LaunchIsFirst'
  BY <1>19, NoHostAssumption
     DEF OutcomeUnknown, MoveHost, proxyVars, TypeOK, LaunchIsFirst, Hosts
<1>20. ASSUME NEW h \in Hosts, Panic(h) PROVE LaunchIsFirst'
  BY <1>20, NoHostAssumption DEF Panic, MoveHost, proxyVars, TypeOK, LaunchIsFirst, Hosts
<1>21. ASSUME NEW h \in Hosts, Drained(h) PROVE LaunchIsFirst'
  BY <1>21, NoHostAssumption DEF Drained, MoveHost, proxyVars, TypeOK, LaunchIsFirst, Hosts
<1>22. ASSUME NEW h \in Hosts, Release(h) PROVE LaunchIsFirst'
  BY <1>22, NoHostAssumption
     DEF Release, Holding, Releasing, proxyVars, hostVars, TypeOK, LaunchIsFirst, Hosts
<1>23. ASSUME NEW h \in Hosts, Exit(h) PROVE LaunchIsFirst'
  BY <1>23, NoHostAssumption
     DEF Exit, Holding, EndHost, MoveHost, AtExit, proxyVars, TypeOK, LaunchIsFirst,
         Hosts
<1>24. ASSUME NEW h \in Hosts, Crash(h) PROVE LaunchIsFirst'
  BY <1>24, NoHostAssumption
     DEF Crash, Unlocked, EndHost, MoveHost, proxyVars, TypeOK, LaunchIsFirst, Hosts
<1>25. ASSUME NEW h \in Hosts, NEW p \in Proxies, Answer(h, p) PROVE LaunchIsFirst'
  BY <1>25, NoHostAssumption
     DEF Answer, Serves, OwnerActive, Refuse, HangUp, MoveProxy, proxyVars, TypeOK,
         LaunchIsFirst, Hosts
<1>26. ASSUME NEW h \in Hosts, NEW p \in Proxies, AnswerIncompatible(h, p) PROVE LaunchIsFirst'
  BY <1>26, NoHostAssumption
     DEF AnswerIncompatible, Refuse, HangUp, MoveProxy, proxyVars, TypeOK, LaunchIsFirst,
         Hosts
<1>27. ASSUME NEW h \in Hosts, NEW p \in Proxies, Disconnected(h, p) PROVE LaunchIsFirst'
  BY <1>27, NoHostAssumption
     DEF Disconnected, AfterLeaving, Withdrawn, MoveHost, proxyVars, TypeOK,
         LaunchIsFirst, Hosts
<1>28. ASSUME NEW h \in Hosts, NEW p \in Proxies, AnswerPoisoned(h, p) PROVE LaunchIsFirst'
  BY <1>28, NoHostAssumption
     DEF AnswerPoisoned, Refuse, AfterPoison, WhenUnreachable, HangUp, MoveProxy,
         proxyVars, TypeOK, LaunchIsFirst, Hosts
<1>29. ASSUME NEW h \in Hosts, NEW p \in Proxies, DisconnectedPoisoned(h, p) PROVE LaunchIsFirst'
  BY <1>29, NoHostAssumption
     DEF DisconnectedPoisoned, proxyVars, TypeOK, LaunchIsFirst, Hosts
<1>30. CASE UNCHANGED vars
  BY <1>30, NoHostAssumption DEF vars, hostVars, proxyVars, TypeOK, LaunchIsFirst, Hosts
<1> QED
  BY <1>1, <1>2, <1>3, <1>4, <1>5, <1>6, <1>7, <1>8, <1>9, <1>10, <1>11, <1>12, <1>13,
     <1>14, <1>15, <1>16, <1>17, <1>18, <1>19, <1>20, <1>21, <1>22, <1>23, <1>24, <1>25,
     <1>26, <1>27, <1>28, <1>29, <1>30
     DEF Next, ProxyStep, StartStep, ClientStep, EndStep

LEMMA LockStep ==
    ASSUME TypeOK, LaunchIsFirst, LockIsHeld, [Next]_vars
    PROVE  LockIsHeld'
<1>1. ASSUME NEW p \in Proxies, Connect(p) PROVE LockIsHeld'
  BY <1>1, NoHostAssumption
     DEF Connect, Listening, MoveProxy, TypeOK, LaunchIsFirst, LockIsHeld, Keeping, Hosts
<1>2. ASSUME NEW p \in Proxies, NobodyThere(p) PROVE LockIsHeld'
  BY <1>2, NoHostAssumption
     DEF NobodyThere, MoveProxy, WhenUnreachable, hostVars, TypeOK, LaunchIsFirst,
         LockIsHeld, Keeping, Hosts
<1>3. ASSUME NEW p \in Proxies, ConnectionBroken(p) PROVE LockIsHeld'
  BY <1>3, NoHostAssumption
     DEF ConnectionBroken, HangUp, MoveProxy, WhenUnreachable, hostVars, TypeOK,
         LaunchIsFirst, LockIsHeld, Keeping, Hosts
<1>4. ASSUME NEW p \in Proxies, Probe(p) PROVE LockIsHeld'
  BY <1>4, NoHostAssumption
     DEF Probe, MoveProxy, Launched, LockFree, hostVars, TypeOK, LaunchIsFirst,
         LockIsHeld, Keeping, Hosts
<1>5. ASSUME NEW p \in Proxies, NothingToLaunch(p) PROVE LockIsHeld'
  BY <1>5, NoHostAssumption
     DEF NothingToLaunch, MoveProxy, hostVars, TypeOK, LaunchIsFirst, LockIsHeld,
         Keeping, Hosts
<1>6. ASSUME NEW p \in Proxies, Unprobe(p) PROVE LockIsHeld'
  BY <1>6, NoHostAssumption
     DEF Unprobe, MoveProxy, AfterProbe, hostVars, TypeOK, LaunchIsFirst, LockIsHeld,
         Keeping, Hosts
<1>7. ASSUME NEW p \in Proxies, Launch(p) PROVE LockIsHeld'
  BY <1>7, NoHostAssumption
     DEF Launch, MoveProxy, MoveHost, TypeOK, LaunchIsFirst, LockIsHeld, Keeping, Hosts
<1>8. ASSUME NEW p \in Proxies, LookAgain(p) PROVE LockIsHeld'
  BY <1>8, NoHostAssumption
     DEF LookAgain, MoveProxy, hostVars, TypeOK, LaunchIsFirst, LockIsHeld, Keeping,
         Hosts
<1>9. ASSUME NEW p \in Proxies, GiveUp(p) PROVE LockIsHeld'
  BY <1>9, NoHostAssumption
     DEF GiveUp, MayGiveUp, MoveProxy, hostVars, TypeOK, LaunchIsFirst, LockIsHeld,
         Keeping, Hosts
<1>10. ASSUME NEW p \in Proxies, Leave(p) PROVE LockIsHeld'
  BY <1>10, NoHostAssumption
     DEF Leave, HangUp, MoveProxy, Dropped, Listening, TypeOK, LaunchIsFirst, LockIsHeld,
         Keeping, Hosts
<1>11. ASSUME NEW p \in Proxies, Kill(p) PROVE LockIsHeld'
  BY <1>11, NoHostAssumption
     DEF Kill, HangUp, MoveProxy, Dropped, Listening, TypeOK, LaunchIsFirst, LockIsHeld,
         Keeping, Hosts
<1>12. ASSUME NEW h \in Hosts, Open(h) PROVE LockIsHeld'
  BY <1>12, NoHostAssumption
     DEF Open, LockFree, MoveHost, proxyVars, TypeOK, LaunchIsFirst, LockIsHeld, Keeping,
         Hosts
<1>13. ASSUME NEW h \in Hosts, OpenRefused(h) PROVE LockIsHeld'
  BY <1>13, NoHostAssumption
     DEF OpenRefused, LockFree, EndHost, MoveHost, proxyVars, TypeOK, LaunchIsFirst,
         LockIsHeld, Keeping, Hosts
<1>14. ASSUME NEW h \in Hosts, Truncate(h) PROVE LockIsHeld'
  BY <1>14, NoHostAssumption
     DEF Truncate, MoveHost, proxyVars, TypeOK, LaunchIsFirst, LockIsHeld, Keeping, Hosts
<1>15. ASSUME NEW h \in Hosts, Save(h) PROVE LockIsHeld'
  BY <1>15, NoHostAssumption
     DEF Save, MoveHost, proxyVars, TypeOK, LaunchIsFirst, LockIsHeld, Keeping, Hosts
<1>16. ASSUME NEW h \in Hosts, Report(h) PROVE LockIsHeld'
  BY <1>16, NoHostAssumption
     DEF Report, MoveHost, proxyVars, TypeOK, LaunchIsFirst, LockIsHeld, Keeping, Hosts
<1>17. ASSUME NEW h \in Hosts, StartFails(h) PROVE LockIsHeld'
  BY <1>17, NoHostAssumption
     DEF StartFails, Starting, Unlocked, EndHost, MoveHost, proxyVars, TypeOK,
         LaunchIsFirst, LockIsHeld, Keeping, Hosts
<1>18. ASSUME NEW h \in Hosts, IdleTimeout(h) PROVE LockIsHeld'
  BY <1>18, NoHostAssumption
     DEF IdleTimeout, MoveHost, proxyVars, TypeOK, LaunchIsFirst, LockIsHeld, Keeping,
         Hosts
<1>19. ASSUME NEW h \in Hosts, OutcomeUnknown(h) PROVE LockIsHeld'
  BY <1>19, NoHostAssumption
     DEF OutcomeUnknown, MoveHost, proxyVars, TypeOK, LaunchIsFirst, LockIsHeld, Keeping,
         Hosts
<1>20. ASSUME NEW h \in Hosts, Panic(h) PROVE LockIsHeld'
  BY <1>20, NoHostAssumption
     DEF Panic, MoveHost, proxyVars, TypeOK, LaunchIsFirst, LockIsHeld, Keeping, Hosts
<1>21. ASSUME NEW h \in Hosts, Drained(h) PROVE LockIsHeld'
  BY <1>21, NoHostAssumption
     DEF Drained, MoveHost, proxyVars, TypeOK, LaunchIsFirst, LockIsHeld, Keeping, Hosts
<1>22. ASSUME NEW h \in Hosts, Release(h) PROVE LockIsHeld'
  BY <1>22, NoHostAssumption
     DEF Release, Holding, Releasing, proxyVars, hostVars, TypeOK, LaunchIsFirst,
         LockIsHeld, Keeping, Hosts
<1>23. ASSUME NEW h \in Hosts, Exit(h) PROVE LockIsHeld'
  BY <1>23, NoHostAssumption
     DEF Exit, Holding, EndHost, MoveHost, AtExit, proxyVars, TypeOK, LaunchIsFirst,
         LockIsHeld, Keeping, Hosts
<1>24. ASSUME NEW h \in Hosts, Crash(h) PROVE LockIsHeld'
  BY <1>24, NoHostAssumption
     DEF Crash, Unlocked, EndHost, MoveHost, proxyVars, TypeOK, LaunchIsFirst,
         LockIsHeld, Keeping, Hosts
<1>25. ASSUME NEW h \in Hosts, NEW p \in Proxies, Answer(h, p) PROVE LockIsHeld'
  BY <1>25, NoHostAssumption
     DEF Answer, Serves, OwnerActive, Refuse, HangUp, MoveProxy, proxyVars, TypeOK,
         LaunchIsFirst, LockIsHeld, Keeping, Hosts
<1>26. ASSUME NEW h \in Hosts, NEW p \in Proxies, AnswerIncompatible(h, p) PROVE LockIsHeld'
  BY <1>26, NoHostAssumption
     DEF AnswerIncompatible, Refuse, HangUp, MoveProxy, proxyVars, TypeOK, LaunchIsFirst,
         LockIsHeld, Keeping, Hosts
<1>27. ASSUME NEW h \in Hosts, NEW p \in Proxies, Disconnected(h, p) PROVE LockIsHeld'
  BY <1>27, NoHostAssumption
     DEF Disconnected, AfterLeaving, Withdrawn, MoveHost, proxyVars, TypeOK,
         LaunchIsFirst, LockIsHeld, Keeping, Hosts
<1>28. ASSUME NEW h \in Hosts, NEW p \in Proxies, AnswerPoisoned(h, p) PROVE LockIsHeld'
  BY <1>28, NoHostAssumption
     DEF AnswerPoisoned, Refuse, AfterPoison, WhenUnreachable, HangUp, MoveProxy,
         proxyVars, TypeOK, LaunchIsFirst, LockIsHeld, Keeping, Hosts
<1>29. ASSUME NEW h \in Hosts, NEW p \in Proxies, DisconnectedPoisoned(h, p) PROVE LockIsHeld'
  BY <1>29, NoHostAssumption
     DEF DisconnectedPoisoned, proxyVars, TypeOK, LaunchIsFirst, LockIsHeld, Keeping,
         Hosts
<1>30. CASE UNCHANGED vars
  BY <1>30, NoHostAssumption
     DEF vars, hostVars, proxyVars, TypeOK, LaunchIsFirst, LockIsHeld, Keeping, Hosts
<1> QED
  BY <1>1, <1>2, <1>3, <1>4, <1>5, <1>6, <1>7, <1>8, <1>9, <1>10, <1>11, <1>12, <1>13,
     <1>14, <1>15, <1>16, <1>17, <1>18, <1>19, <1>20, <1>21, <1>22, <1>23, <1>24, <1>25,
     <1>26, <1>27, <1>28, <1>29, <1>30
     DEF Next, ProxyStep, StartStep, ClientStep, EndStep

LEMMA DescriptorStep ==
    ASSUME TypeOK, LockIsHeld, DescriptorLeads, [Next]_vars
    PROVE  DescriptorLeads'
<1>1. ASSUME NEW p \in Proxies, Connect(p) PROVE DescriptorLeads'
  BY <1>1, NoHostAssumption
     DEF Connect, Listening, MoveProxy, TypeOK, LockIsHeld, DescriptorLeads, Keeping,
         Hosts
<1>2. ASSUME NEW p \in Proxies, NobodyThere(p) PROVE DescriptorLeads'
  BY <1>2, NoHostAssumption
     DEF NobodyThere, MoveProxy, WhenUnreachable, hostVars, TypeOK, LockIsHeld,
         DescriptorLeads, Keeping, Hosts
<1>3. ASSUME NEW p \in Proxies, ConnectionBroken(p) PROVE DescriptorLeads'
  BY <1>3, NoHostAssumption
     DEF ConnectionBroken, HangUp, MoveProxy, WhenUnreachable, hostVars, TypeOK,
         LockIsHeld, DescriptorLeads, Keeping, Hosts
<1>4. ASSUME NEW p \in Proxies, Probe(p) PROVE DescriptorLeads'
  BY <1>4, NoHostAssumption
     DEF Probe, MoveProxy, Launched, LockFree, hostVars, TypeOK, LockIsHeld,
         DescriptorLeads, Keeping, Hosts
<1>5. ASSUME NEW p \in Proxies, NothingToLaunch(p) PROVE DescriptorLeads'
  BY <1>5, NoHostAssumption
     DEF NothingToLaunch, MoveProxy, hostVars, TypeOK, LockIsHeld, DescriptorLeads,
         Keeping, Hosts
<1>6. ASSUME NEW p \in Proxies, Unprobe(p) PROVE DescriptorLeads'
  BY <1>6, NoHostAssumption
     DEF Unprobe, MoveProxy, AfterProbe, hostVars, TypeOK, LockIsHeld, DescriptorLeads,
         Keeping, Hosts
<1>7. ASSUME NEW p \in Proxies, Launch(p) PROVE DescriptorLeads'
  BY <1>7, NoHostAssumption
     DEF Launch, MoveProxy, MoveHost, TypeOK, LockIsHeld, DescriptorLeads, Keeping, Hosts
<1>8. ASSUME NEW p \in Proxies, LookAgain(p) PROVE DescriptorLeads'
  BY <1>8, NoHostAssumption
     DEF LookAgain, MoveProxy, hostVars, TypeOK, LockIsHeld, DescriptorLeads, Keeping,
         Hosts
<1>9. ASSUME NEW p \in Proxies, GiveUp(p) PROVE DescriptorLeads'
  BY <1>9, NoHostAssumption
     DEF GiveUp, MayGiveUp, MoveProxy, hostVars, TypeOK, LockIsHeld, DescriptorLeads,
         Keeping, Hosts
<1>10. ASSUME NEW p \in Proxies, Leave(p) PROVE DescriptorLeads'
  BY <1>10, NoHostAssumption
     DEF Leave, HangUp, MoveProxy, Dropped, Listening, TypeOK, LockIsHeld,
         DescriptorLeads, Keeping, Hosts
<1>11. ASSUME NEW p \in Proxies, Kill(p) PROVE DescriptorLeads'
  BY <1>11, NoHostAssumption
     DEF Kill, HangUp, MoveProxy, Dropped, Listening, TypeOK, LockIsHeld,
         DescriptorLeads, Keeping, Hosts
<1>12. ASSUME NEW h \in Hosts, Open(h) PROVE DescriptorLeads'
  BY <1>12, NoHostAssumption
     DEF Open, LockFree, MoveHost, proxyVars, TypeOK, LockIsHeld, DescriptorLeads,
         Keeping, Hosts
<1>13. ASSUME NEW h \in Hosts, OpenRefused(h) PROVE DescriptorLeads'
  BY <1>13, NoHostAssumption
     DEF OpenRefused, LockFree, EndHost, MoveHost, proxyVars, TypeOK, LockIsHeld,
         DescriptorLeads, Keeping, Hosts
<1>14. ASSUME NEW h \in Hosts, Truncate(h) PROVE DescriptorLeads'
  BY <1>14, NoHostAssumption
     DEF Truncate, MoveHost, proxyVars, TypeOK, LockIsHeld, DescriptorLeads, Keeping,
         Hosts
<1>15. ASSUME NEW h \in Hosts, Save(h) PROVE DescriptorLeads'
  BY <1>15, NoHostAssumption
     DEF Save, MoveHost, proxyVars, TypeOK, LockIsHeld, DescriptorLeads, Keeping, Hosts
<1>16. ASSUME NEW h \in Hosts, Report(h) PROVE DescriptorLeads'
  BY <1>16, NoHostAssumption
     DEF Report, MoveHost, proxyVars, TypeOK, LockIsHeld, DescriptorLeads, Keeping, Hosts
<1>17. ASSUME NEW h \in Hosts, StartFails(h) PROVE DescriptorLeads'
  BY <1>17, NoHostAssumption
     DEF StartFails, Starting, Unlocked, EndHost, MoveHost, proxyVars, TypeOK,
         LockIsHeld, DescriptorLeads, Keeping, Hosts
<1>18. ASSUME NEW h \in Hosts, IdleTimeout(h) PROVE DescriptorLeads'
  BY <1>18, NoHostAssumption
     DEF IdleTimeout, MoveHost, proxyVars, TypeOK, LockIsHeld, DescriptorLeads, Keeping,
         Hosts
<1>19. ASSUME NEW h \in Hosts, OutcomeUnknown(h) PROVE DescriptorLeads'
  BY <1>19, NoHostAssumption
     DEF OutcomeUnknown, MoveHost, proxyVars, TypeOK, LockIsHeld, DescriptorLeads,
         Keeping, Hosts
<1>20. ASSUME NEW h \in Hosts, Panic(h) PROVE DescriptorLeads'
  BY <1>20, NoHostAssumption
     DEF Panic, MoveHost, proxyVars, TypeOK, LockIsHeld, DescriptorLeads, Keeping, Hosts
<1>21. ASSUME NEW h \in Hosts, Drained(h) PROVE DescriptorLeads'
  BY <1>21, NoHostAssumption
     DEF Drained, MoveHost, proxyVars, TypeOK, LockIsHeld, DescriptorLeads, Keeping,
         Hosts
<1>22. ASSUME NEW h \in Hosts, Release(h) PROVE DescriptorLeads'
  BY <1>22, NoHostAssumption
     DEF Release, Holding, Releasing, proxyVars, hostVars, TypeOK, LockIsHeld,
         DescriptorLeads, Keeping, Hosts
<1>23. ASSUME NEW h \in Hosts, Exit(h) PROVE DescriptorLeads'
  BY <1>23, NoHostAssumption
     DEF Exit, Holding, EndHost, MoveHost, AtExit, proxyVars, TypeOK, LockIsHeld,
         DescriptorLeads, Keeping, Hosts
<1>24. ASSUME NEW h \in Hosts, Crash(h) PROVE DescriptorLeads'
  BY <1>24, NoHostAssumption
     DEF Crash, Unlocked, EndHost, MoveHost, proxyVars, TypeOK, LockIsHeld,
         DescriptorLeads, Keeping, Hosts
<1>25. ASSUME NEW h \in Hosts, NEW p \in Proxies, Answer(h, p) PROVE DescriptorLeads'
  BY <1>25, NoHostAssumption
     DEF Answer, Serves, OwnerActive, Refuse, HangUp, MoveProxy, proxyVars, TypeOK,
         LockIsHeld, DescriptorLeads, Keeping, Hosts
<1>26. ASSUME NEW h \in Hosts, NEW p \in Proxies, AnswerIncompatible(h, p) PROVE DescriptorLeads'
  BY <1>26, NoHostAssumption
     DEF AnswerIncompatible, Refuse, HangUp, MoveProxy, proxyVars, TypeOK, LockIsHeld,
         DescriptorLeads, Keeping, Hosts
<1>27. ASSUME NEW h \in Hosts, NEW p \in Proxies, Disconnected(h, p) PROVE DescriptorLeads'
  BY <1>27, NoHostAssumption
     DEF Disconnected, AfterLeaving, Withdrawn, MoveHost, proxyVars, TypeOK, LockIsHeld,
         DescriptorLeads, Keeping, Hosts
<1>28. ASSUME NEW h \in Hosts, NEW p \in Proxies, AnswerPoisoned(h, p) PROVE DescriptorLeads'
  BY <1>28, NoHostAssumption
     DEF AnswerPoisoned, Refuse, AfterPoison, WhenUnreachable, HangUp, MoveProxy,
         proxyVars, TypeOK, LockIsHeld, DescriptorLeads, Keeping, Hosts
<1>29. ASSUME NEW h \in Hosts, NEW p \in Proxies, DisconnectedPoisoned(h, p) PROVE DescriptorLeads'
  BY <1>29, NoHostAssumption
     DEF DisconnectedPoisoned, proxyVars, TypeOK, LockIsHeld, DescriptorLeads, Keeping,
         Hosts
<1>30. CASE UNCHANGED vars
  BY <1>30, NoHostAssumption
     DEF vars, hostVars, proxyVars, TypeOK, LockIsHeld, DescriptorLeads, Keeping, Hosts
<1> QED
  BY <1>1, <1>2, <1>3, <1>4, <1>5, <1>6, <1>7, <1>8, <1>9, <1>10, <1>11, <1>12, <1>13,
     <1>14, <1>15, <1>16, <1>17, <1>18, <1>19, <1>20, <1>21, <1>22, <1>23, <1>24, <1>25,
     <1>26, <1>27, <1>28, <1>29, <1>30
     DEF Next, ProxyStep, StartStep, ClientStep, EndStep

LEMMA AsksStep ==
    ASSUME TypeOK, LaunchIsFirst, AsksAreTheirs, [Next]_vars
    PROVE  AsksAreTheirs'
<1>1. ASSUME NEW p \in Proxies, Connect(p) PROVE AsksAreTheirs'
  BY <1>1, NoHostAssumption
     DEF Connect, Listening, MoveProxy, TypeOK, LaunchIsFirst, AsksAreTheirs, Hosts
<1>2. ASSUME NEW p \in Proxies, NobodyThere(p) PROVE AsksAreTheirs'
  BY <1>2, NoHostAssumption
     DEF NobodyThere, MoveProxy, WhenUnreachable, hostVars, TypeOK, LaunchIsFirst,
         AsksAreTheirs, Hosts
<1>3. ASSUME NEW p \in Proxies, ConnectionBroken(p) PROVE AsksAreTheirs'
  BY <1>3, NoHostAssumption
     DEF ConnectionBroken, HangUp, MoveProxy, WhenUnreachable, hostVars, TypeOK,
         LaunchIsFirst, AsksAreTheirs, Hosts
<1>4. ASSUME NEW p \in Proxies, Probe(p) PROVE AsksAreTheirs'
  BY <1>4, NoHostAssumption
     DEF Probe, MoveProxy, Launched, LockFree, hostVars, TypeOK, LaunchIsFirst,
         AsksAreTheirs, Hosts
<1>5. ASSUME NEW p \in Proxies, NothingToLaunch(p) PROVE AsksAreTheirs'
  BY <1>5, NoHostAssumption
     DEF NothingToLaunch, MoveProxy, hostVars, TypeOK, LaunchIsFirst, AsksAreTheirs,
         Hosts
<1>6. ASSUME NEW p \in Proxies, Unprobe(p) PROVE AsksAreTheirs'
  BY <1>6, NoHostAssumption
     DEF Unprobe, MoveProxy, AfterProbe, hostVars, TypeOK, LaunchIsFirst, AsksAreTheirs,
         Hosts
<1>7. ASSUME NEW p \in Proxies, Launch(p) PROVE AsksAreTheirs'
  BY <1>7, NoHostAssumption
     DEF Launch, MoveProxy, MoveHost, TypeOK, LaunchIsFirst, AsksAreTheirs, Hosts
<1>8. ASSUME NEW p \in Proxies, LookAgain(p) PROVE AsksAreTheirs'
  BY <1>8, NoHostAssumption
     DEF LookAgain, MoveProxy, hostVars, TypeOK, LaunchIsFirst, AsksAreTheirs, Hosts
<1>9. ASSUME NEW p \in Proxies, GiveUp(p) PROVE AsksAreTheirs'
  BY <1>9, NoHostAssumption
     DEF GiveUp, MayGiveUp, MoveProxy, hostVars, TypeOK, LaunchIsFirst, AsksAreTheirs,
         Hosts
<1>10. ASSUME NEW p \in Proxies, Leave(p) PROVE AsksAreTheirs'
  BY <1>10, NoHostAssumption
     DEF Leave, HangUp, MoveProxy, Dropped, Listening, TypeOK, LaunchIsFirst,
         AsksAreTheirs, Hosts
<1>11. ASSUME NEW p \in Proxies, Kill(p) PROVE AsksAreTheirs'
  BY <1>11, NoHostAssumption
     DEF Kill, HangUp, MoveProxy, Dropped, Listening, TypeOK, LaunchIsFirst,
         AsksAreTheirs, Hosts
<1>12. ASSUME NEW h \in Hosts, Open(h) PROVE AsksAreTheirs'
  BY <1>12, NoHostAssumption
     DEF Open, LockFree, MoveHost, proxyVars, TypeOK, LaunchIsFirst, AsksAreTheirs, Hosts
<1>13. ASSUME NEW h \in Hosts, OpenRefused(h) PROVE AsksAreTheirs'
  BY <1>13, NoHostAssumption
     DEF OpenRefused, LockFree, EndHost, MoveHost, proxyVars, TypeOK, LaunchIsFirst,
         AsksAreTheirs, Hosts
<1>14. ASSUME NEW h \in Hosts, Truncate(h) PROVE AsksAreTheirs'
  BY <1>14, NoHostAssumption
     DEF Truncate, MoveHost, proxyVars, TypeOK, LaunchIsFirst, AsksAreTheirs, Hosts
<1>15. ASSUME NEW h \in Hosts, Save(h) PROVE AsksAreTheirs'
  BY <1>15, NoHostAssumption
     DEF Save, MoveHost, proxyVars, TypeOK, LaunchIsFirst, AsksAreTheirs, Hosts
<1>16. ASSUME NEW h \in Hosts, Report(h) PROVE AsksAreTheirs'
  BY <1>16, NoHostAssumption
     DEF Report, MoveHost, proxyVars, TypeOK, LaunchIsFirst, AsksAreTheirs, Hosts
<1>17. ASSUME NEW h \in Hosts, StartFails(h) PROVE AsksAreTheirs'
  BY <1>17, NoHostAssumption
     DEF StartFails, Starting, Unlocked, EndHost, MoveHost, proxyVars, TypeOK,
         LaunchIsFirst, AsksAreTheirs, Hosts
<1>18. ASSUME NEW h \in Hosts, IdleTimeout(h) PROVE AsksAreTheirs'
  BY <1>18, NoHostAssumption
     DEF IdleTimeout, MoveHost, proxyVars, TypeOK, LaunchIsFirst, AsksAreTheirs, Hosts
<1>19. ASSUME NEW h \in Hosts, OutcomeUnknown(h) PROVE AsksAreTheirs'
  BY <1>19, NoHostAssumption
     DEF OutcomeUnknown, MoveHost, proxyVars, TypeOK, LaunchIsFirst, AsksAreTheirs, Hosts
<1>20. ASSUME NEW h \in Hosts, Panic(h) PROVE AsksAreTheirs'
  BY <1>20, NoHostAssumption
     DEF Panic, MoveHost, proxyVars, TypeOK, LaunchIsFirst, AsksAreTheirs, Hosts
<1>21. ASSUME NEW h \in Hosts, Drained(h) PROVE AsksAreTheirs'
  BY <1>21, NoHostAssumption
     DEF Drained, MoveHost, proxyVars, TypeOK, LaunchIsFirst, AsksAreTheirs, Hosts
<1>22. ASSUME NEW h \in Hosts, Release(h) PROVE AsksAreTheirs'
  BY <1>22, NoHostAssumption
     DEF Release, Holding, Releasing, proxyVars, hostVars, TypeOK, LaunchIsFirst,
         AsksAreTheirs, Hosts
<1>23. ASSUME NEW h \in Hosts, Exit(h) PROVE AsksAreTheirs'
  BY <1>23, NoHostAssumption
     DEF Exit, Holding, EndHost, MoveHost, AtExit, proxyVars, TypeOK, LaunchIsFirst,
         AsksAreTheirs, Hosts
<1>24. ASSUME NEW h \in Hosts, Crash(h) PROVE AsksAreTheirs'
  BY <1>24, NoHostAssumption
     DEF Crash, Unlocked, EndHost, MoveHost, proxyVars, TypeOK, LaunchIsFirst,
         AsksAreTheirs, Hosts
<1>25. ASSUME NEW h \in Hosts, NEW p \in Proxies, Answer(h, p) PROVE AsksAreTheirs'
  BY <1>25, NoHostAssumption
     DEF Answer, Serves, OwnerActive, Refuse, HangUp, MoveProxy, proxyVars, TypeOK,
         LaunchIsFirst, AsksAreTheirs, Hosts
<1>26. ASSUME NEW h \in Hosts, NEW p \in Proxies, AnswerIncompatible(h, p) PROVE AsksAreTheirs'
  BY <1>26, NoHostAssumption
     DEF AnswerIncompatible, Refuse, HangUp, MoveProxy, proxyVars, TypeOK, LaunchIsFirst,
         AsksAreTheirs, Hosts
<1>27. ASSUME NEW h \in Hosts, NEW p \in Proxies, Disconnected(h, p) PROVE AsksAreTheirs'
  BY <1>27, NoHostAssumption
     DEF Disconnected, AfterLeaving, Withdrawn, MoveHost, proxyVars, TypeOK,
         LaunchIsFirst, AsksAreTheirs, Hosts
<1>28. ASSUME NEW h \in Hosts, NEW p \in Proxies, AnswerPoisoned(h, p) PROVE AsksAreTheirs'
  BY <1>28, NoHostAssumption
     DEF AnswerPoisoned, Refuse, AfterPoison, WhenUnreachable, HangUp, MoveProxy,
         proxyVars, TypeOK, LaunchIsFirst, AsksAreTheirs, Hosts
<1>29. ASSUME NEW h \in Hosts, NEW p \in Proxies, DisconnectedPoisoned(h, p) PROVE AsksAreTheirs'
  BY <1>29, NoHostAssumption
     DEF DisconnectedPoisoned, proxyVars, TypeOK, LaunchIsFirst, AsksAreTheirs, Hosts
<1>30. CASE UNCHANGED vars
  BY <1>30, NoHostAssumption
     DEF vars, hostVars, proxyVars, TypeOK, LaunchIsFirst, AsksAreTheirs, Hosts
<1> QED
  BY <1>1, <1>2, <1>3, <1>4, <1>5, <1>6, <1>7, <1>8, <1>9, <1>10, <1>11, <1>12, <1>13,
     <1>14, <1>15, <1>16, <1>17, <1>18, <1>19, <1>20, <1>21, <1>22, <1>23, <1>24, <1>25,
     <1>26, <1>27, <1>28, <1>29, <1>30
     DEF Next, ProxyStep, StartStep, ClientStep, EndStep

LEMMA ReportsStep ==
    ASSUME TypeOK, LaunchIsFirst, LockIsHeld, ReportsAreTrue, [Next]_vars
    PROVE  ReportsAreTrue'
<1>1. ASSUME NEW p \in Proxies, Connect(p) PROVE ReportsAreTrue'
  BY <1>1, NoHostAssumption
     DEF Connect, Listening, MoveProxy, TypeOK, LaunchIsFirst, LockIsHeld,
         ReportsAreTrue, Keeping, Hosts
<1>2. ASSUME NEW p \in Proxies, NobodyThere(p) PROVE ReportsAreTrue'
  BY <1>2, NoHostAssumption
     DEF NobodyThere, MoveProxy, WhenUnreachable, hostVars, TypeOK, LaunchIsFirst,
         LockIsHeld, ReportsAreTrue, Keeping, Hosts
<1>3. ASSUME NEW p \in Proxies, ConnectionBroken(p) PROVE ReportsAreTrue'
  BY <1>3, NoHostAssumption
     DEF ConnectionBroken, HangUp, MoveProxy, WhenUnreachable, hostVars, TypeOK,
         LaunchIsFirst, LockIsHeld, ReportsAreTrue, Keeping, Hosts
<1>4. ASSUME NEW p \in Proxies, Probe(p) PROVE ReportsAreTrue'
  BY <1>4, NoHostAssumption
     DEF Probe, MoveProxy, Launched, LockFree, hostVars, TypeOK, LaunchIsFirst,
         LockIsHeld, ReportsAreTrue, Keeping, Hosts
<1>5. ASSUME NEW p \in Proxies, NothingToLaunch(p) PROVE ReportsAreTrue'
  BY <1>5, NoHostAssumption
     DEF NothingToLaunch, MoveProxy, hostVars, TypeOK, LaunchIsFirst, LockIsHeld,
         ReportsAreTrue, Keeping, Hosts
<1>6. ASSUME NEW p \in Proxies, Unprobe(p) PROVE ReportsAreTrue'
  BY <1>6, NoHostAssumption
     DEF Unprobe, MoveProxy, AfterProbe, hostVars, TypeOK, LaunchIsFirst, LockIsHeld,
         ReportsAreTrue, Keeping, Hosts
<1>7. ASSUME NEW p \in Proxies, Launch(p) PROVE ReportsAreTrue'
  BY <1>7, NoHostAssumption
     DEF Launch, MoveProxy, MoveHost, TypeOK, LaunchIsFirst, LockIsHeld, ReportsAreTrue,
         Keeping, Hosts
<1>8. ASSUME NEW p \in Proxies, LookAgain(p) PROVE ReportsAreTrue'
  BY <1>8, NoHostAssumption
     DEF LookAgain, MoveProxy, hostVars, TypeOK, LaunchIsFirst, LockIsHeld,
         ReportsAreTrue, Keeping, Hosts
<1>9. ASSUME NEW p \in Proxies, GiveUp(p) PROVE ReportsAreTrue'
  BY <1>9, NoHostAssumption
     DEF GiveUp, MayGiveUp, MoveProxy, hostVars, TypeOK, LaunchIsFirst, LockIsHeld,
         ReportsAreTrue, Keeping, Hosts
<1>10. ASSUME NEW p \in Proxies, Leave(p) PROVE ReportsAreTrue'
  BY <1>10, NoHostAssumption
     DEF Leave, HangUp, MoveProxy, Dropped, Listening, TypeOK, LaunchIsFirst, LockIsHeld,
         ReportsAreTrue, Keeping, Hosts
<1>11. ASSUME NEW p \in Proxies, Kill(p) PROVE ReportsAreTrue'
  BY <1>11, NoHostAssumption
     DEF Kill, HangUp, MoveProxy, Dropped, Listening, TypeOK, LaunchIsFirst, LockIsHeld,
         ReportsAreTrue, Keeping, Hosts
<1>12. ASSUME NEW h \in Hosts, Open(h) PROVE ReportsAreTrue'
  BY <1>12, NoHostAssumption
     DEF Open, LockFree, MoveHost, proxyVars, TypeOK, LaunchIsFirst, LockIsHeld,
         ReportsAreTrue, Keeping, Hosts
<1>13. ASSUME NEW h \in Hosts, OpenRefused(h) PROVE ReportsAreTrue'
  BY <1>13, NoHostAssumption
     DEF OpenRefused, LockFree, EndHost, MoveHost, proxyVars, TypeOK, LaunchIsFirst,
         LockIsHeld, ReportsAreTrue, Keeping, Hosts
<1>14. ASSUME NEW h \in Hosts, Truncate(h) PROVE ReportsAreTrue'
  BY <1>14, NoHostAssumption
     DEF Truncate, MoveHost, proxyVars, TypeOK, LaunchIsFirst, LockIsHeld,
         ReportsAreTrue, Keeping, Hosts
<1>15. ASSUME NEW h \in Hosts, Save(h) PROVE ReportsAreTrue'
  BY <1>15, NoHostAssumption
     DEF Save, MoveHost, proxyVars, TypeOK, LaunchIsFirst, LockIsHeld, ReportsAreTrue,
         Keeping, Hosts
<1>16. ASSUME NEW h \in Hosts, Report(h) PROVE ReportsAreTrue'
  BY <1>16, NoHostAssumption
     DEF Report, MoveHost, proxyVars, TypeOK, LaunchIsFirst, LockIsHeld, ReportsAreTrue,
         Keeping, Hosts
<1>17. ASSUME NEW h \in Hosts, StartFails(h) PROVE ReportsAreTrue'
  BY <1>17, NoHostAssumption
     DEF StartFails, Starting, Unlocked, EndHost, MoveHost, proxyVars, TypeOK,
         LaunchIsFirst, LockIsHeld, ReportsAreTrue, Keeping, Hosts
<1>18. ASSUME NEW h \in Hosts, IdleTimeout(h) PROVE ReportsAreTrue'
  BY <1>18, NoHostAssumption
     DEF IdleTimeout, MoveHost, proxyVars, TypeOK, LaunchIsFirst, LockIsHeld,
         ReportsAreTrue, Keeping, Hosts
<1>19. ASSUME NEW h \in Hosts, OutcomeUnknown(h) PROVE ReportsAreTrue'
  BY <1>19, NoHostAssumption
     DEF OutcomeUnknown, MoveHost, proxyVars, TypeOK, LaunchIsFirst, LockIsHeld,
         ReportsAreTrue, Keeping, Hosts
<1>20. ASSUME NEW h \in Hosts, Panic(h) PROVE ReportsAreTrue'
  BY <1>20, NoHostAssumption
     DEF Panic, MoveHost, proxyVars, TypeOK, LaunchIsFirst, LockIsHeld, ReportsAreTrue,
         Keeping, Hosts
<1>21. ASSUME NEW h \in Hosts, Drained(h) PROVE ReportsAreTrue'
  BY <1>21, NoHostAssumption
     DEF Drained, MoveHost, proxyVars, TypeOK, LaunchIsFirst, LockIsHeld, ReportsAreTrue,
         Keeping, Hosts
<1>22. ASSUME NEW h \in Hosts, Release(h) PROVE ReportsAreTrue'
  BY <1>22, NoHostAssumption
     DEF Release, Holding, Releasing, proxyVars, hostVars, TypeOK, LaunchIsFirst,
         LockIsHeld, ReportsAreTrue, Keeping, Hosts
<1>23. ASSUME NEW h \in Hosts, Exit(h) PROVE ReportsAreTrue'
  BY <1>23, NoHostAssumption
     DEF Exit, Holding, EndHost, MoveHost, AtExit, proxyVars, TypeOK, LaunchIsFirst,
         LockIsHeld, ReportsAreTrue, Keeping, Hosts
<1>24. ASSUME NEW h \in Hosts, Crash(h) PROVE ReportsAreTrue'
  BY <1>24, NoHostAssumption
     DEF Crash, Unlocked, EndHost, MoveHost, proxyVars, TypeOK, LaunchIsFirst,
         LockIsHeld, ReportsAreTrue, Keeping, Hosts
<1>25. ASSUME NEW h \in Hosts, NEW p \in Proxies, Answer(h, p) PROVE ReportsAreTrue'
  BY <1>25, NoHostAssumption
     DEF Answer, Serves, OwnerActive, Refuse, HangUp, MoveProxy, proxyVars, TypeOK,
         LaunchIsFirst, LockIsHeld, ReportsAreTrue, Keeping, Hosts
<1>26. ASSUME NEW h \in Hosts, NEW p \in Proxies, AnswerIncompatible(h, p) PROVE ReportsAreTrue'
  BY <1>26, NoHostAssumption
     DEF AnswerIncompatible, Refuse, HangUp, MoveProxy, proxyVars, TypeOK, LaunchIsFirst,
         LockIsHeld, ReportsAreTrue, Keeping, Hosts
<1>27. ASSUME NEW h \in Hosts, NEW p \in Proxies, Disconnected(h, p) PROVE ReportsAreTrue'
  BY <1>27, NoHostAssumption
     DEF Disconnected, AfterLeaving, Withdrawn, MoveHost, proxyVars, TypeOK,
         LaunchIsFirst, LockIsHeld, ReportsAreTrue, Keeping, Hosts
<1>28. ASSUME NEW h \in Hosts, NEW p \in Proxies, AnswerPoisoned(h, p) PROVE ReportsAreTrue'
  BY <1>28, NoHostAssumption
     DEF AnswerPoisoned, Refuse, AfterPoison, WhenUnreachable, HangUp, MoveProxy,
         proxyVars, TypeOK, LaunchIsFirst, LockIsHeld, ReportsAreTrue, Keeping, Hosts
<1>29. ASSUME NEW h \in Hosts, NEW p \in Proxies, DisconnectedPoisoned(h, p) PROVE ReportsAreTrue'
  BY <1>29, NoHostAssumption
     DEF DisconnectedPoisoned, proxyVars, TypeOK, LaunchIsFirst, LockIsHeld,
         ReportsAreTrue, Keeping, Hosts
<1>30. CASE UNCHANGED vars
  BY <1>30, NoHostAssumption
     DEF vars, hostVars, proxyVars, TypeOK, LaunchIsFirst, LockIsHeld, ReportsAreTrue,
         Keeping, Hosts
<1> QED
  BY <1>1, <1>2, <1>3, <1>4, <1>5, <1>6, <1>7, <1>8, <1>9, <1>10, <1>11, <1>12, <1>13,
     <1>14, <1>15, <1>16, <1>17, <1>18, <1>19, <1>20, <1>21, <1>22, <1>23, <1>24, <1>25,
     <1>26, <1>27, <1>28, <1>29, <1>30
     DEF Next, ProxyStep, StartStep, ClientStep, EndStep

LEMMA WinnerStep ==
    ASSUME TypeOK, LaunchIsFirst, LockIsHeld, ReportsAreTrue, SomebodyMayWin, [Next]_vars
    PROVE  SomebodyMayWin'
<1>1. ASSUME NEW p \in Proxies, Connect(p) PROVE SomebodyMayWin'
  BY <1>1, NoHostAssumption, FaultsAssumption
     DEF Connect, Listening, MoveProxy, TypeOK, LaunchIsFirst, LockIsHeld,
         ReportsAreTrue, SomebodyMayWin, Launched, Keeping, Hosts
<1>2. ASSUME NEW p \in Proxies, NobodyThere(p) PROVE SomebodyMayWin'
  BY <1>2, NoHostAssumption, FaultsAssumption
     DEF NobodyThere, MoveProxy, WhenUnreachable, hostVars, TypeOK, LaunchIsFirst,
         LockIsHeld, ReportsAreTrue, SomebodyMayWin, Launched, Keeping, Hosts
<1>3. ASSUME NEW p \in Proxies, ConnectionBroken(p) PROVE SomebodyMayWin'
  BY <1>3, NoHostAssumption, FaultsAssumption
     DEF ConnectionBroken, HangUp, MoveProxy, WhenUnreachable, hostVars, TypeOK,
         LaunchIsFirst, LockIsHeld, ReportsAreTrue, SomebodyMayWin, Launched, Keeping, Hosts
<1>4. ASSUME NEW p \in Proxies, Probe(p) PROVE SomebodyMayWin'
  BY <1>4, NoHostAssumption, FaultsAssumption
     DEF Probe, MoveProxy, Launched, LockFree, hostVars, TypeOK, LaunchIsFirst,
         LockIsHeld, ReportsAreTrue, SomebodyMayWin, Launched, Keeping, Hosts
<1>5. ASSUME NEW p \in Proxies, NothingToLaunch(p) PROVE SomebodyMayWin'
  BY <1>5, NoHostAssumption, FaultsAssumption
     DEF NothingToLaunch, MoveProxy, hostVars, TypeOK, LaunchIsFirst, LockIsHeld,
         ReportsAreTrue, SomebodyMayWin, Launched, Keeping, Hosts
<1>6. ASSUME NEW p \in Proxies, Unprobe(p) PROVE SomebodyMayWin'
  BY <1>6, NoHostAssumption, FaultsAssumption
     DEF Unprobe, MoveProxy, AfterProbe, hostVars, TypeOK, LaunchIsFirst, LockIsHeld,
         ReportsAreTrue, SomebodyMayWin, Launched, Keeping, Hosts
<1>7. ASSUME NEW p \in Proxies, Launch(p) PROVE SomebodyMayWin'
  BY <1>7, NoHostAssumption, FaultsAssumption
     DEF Launch, MoveProxy, MoveHost, TypeOK, LaunchIsFirst, LockIsHeld, ReportsAreTrue,
         SomebodyMayWin, Launched, Keeping, Hosts
<1>8. ASSUME NEW p \in Proxies, LookAgain(p) PROVE SomebodyMayWin'
  BY <1>8, NoHostAssumption, FaultsAssumption
     DEF LookAgain, MoveProxy, hostVars, TypeOK, LaunchIsFirst, LockIsHeld,
         ReportsAreTrue, SomebodyMayWin, Launched, Keeping, Hosts
<1>9. ASSUME NEW p \in Proxies, GiveUp(p) PROVE SomebodyMayWin'
  BY <1>9, NoHostAssumption, FaultsAssumption
     DEF GiveUp, MayGiveUp, MoveProxy, hostVars, TypeOK, LaunchIsFirst, LockIsHeld,
         ReportsAreTrue, SomebodyMayWin, Launched, Keeping, Hosts
<1>10. ASSUME NEW p \in Proxies, Leave(p) PROVE SomebodyMayWin'
  BY <1>10, NoHostAssumption, FaultsAssumption
     DEF Leave, HangUp, MoveProxy, Dropped, Listening, TypeOK, LaunchIsFirst, LockIsHeld,
         ReportsAreTrue, SomebodyMayWin, Launched, Keeping, Hosts
<1>11. ASSUME NEW p \in Proxies, Kill(p) PROVE SomebodyMayWin'
  BY <1>11, NoHostAssumption, FaultsAssumption
     DEF Kill, HangUp, MoveProxy, Dropped, Listening, TypeOK, LaunchIsFirst, LockIsHeld,
         ReportsAreTrue, SomebodyMayWin, Launched, Keeping, Hosts
<1>12. ASSUME NEW h \in Hosts, Open(h) PROVE SomebodyMayWin'
  BY <1>12, NoHostAssumption, FaultsAssumption
     DEF Open, LockFree, MoveHost, proxyVars, TypeOK, LaunchIsFirst, LockIsHeld,
         ReportsAreTrue, SomebodyMayWin, Launched, Keeping, Hosts
<1>13. ASSUME NEW h \in Hosts, OpenRefused(h) PROVE SomebodyMayWin'
  BY <1>13, NoHostAssumption, FaultsAssumption
     DEF OpenRefused, LockFree, EndHost, MoveHost, proxyVars, TypeOK, LaunchIsFirst,
         LockIsHeld, ReportsAreTrue, SomebodyMayWin, Launched, Keeping, Hosts
<1>14. ASSUME NEW h \in Hosts, Truncate(h) PROVE SomebodyMayWin'
  BY <1>14, NoHostAssumption, FaultsAssumption
     DEF Truncate, MoveHost, proxyVars, TypeOK, LaunchIsFirst, LockIsHeld,
         ReportsAreTrue, SomebodyMayWin, Launched, Keeping, Hosts
<1>15. ASSUME NEW h \in Hosts, Save(h) PROVE SomebodyMayWin'
  BY <1>15, NoHostAssumption, FaultsAssumption
     DEF Save, MoveHost, proxyVars, TypeOK, LaunchIsFirst, LockIsHeld, ReportsAreTrue,
         SomebodyMayWin, Launched, Keeping, Hosts
<1>16. ASSUME NEW h \in Hosts, Report(h) PROVE SomebodyMayWin'
  BY <1>16, NoHostAssumption, FaultsAssumption
     DEF Report, MoveHost, proxyVars, TypeOK, LaunchIsFirst, LockIsHeld, ReportsAreTrue,
         SomebodyMayWin, Launched, Keeping, Hosts
<1>17. ASSUME NEW h \in Hosts, StartFails(h) PROVE SomebodyMayWin'
  BY <1>17, NoHostAssumption, FaultsAssumption
     DEF StartFails, Starting, Unlocked, EndHost, MoveHost, proxyVars, TypeOK,
         LaunchIsFirst, LockIsHeld, ReportsAreTrue, SomebodyMayWin, Launched, Keeping, Hosts
<1>18. ASSUME NEW h \in Hosts, IdleTimeout(h) PROVE SomebodyMayWin'
  BY <1>18, NoHostAssumption, FaultsAssumption
     DEF IdleTimeout, MoveHost, proxyVars, TypeOK, LaunchIsFirst, LockIsHeld,
         ReportsAreTrue, SomebodyMayWin, Launched, Keeping, Hosts
<1>19. ASSUME NEW h \in Hosts, OutcomeUnknown(h) PROVE SomebodyMayWin'
  BY <1>19, NoHostAssumption, FaultsAssumption
     DEF OutcomeUnknown, MoveHost, proxyVars, TypeOK, LaunchIsFirst, LockIsHeld,
         ReportsAreTrue, SomebodyMayWin, Launched, Keeping, Hosts
<1>20. ASSUME NEW h \in Hosts, Panic(h) PROVE SomebodyMayWin'
  BY <1>20, NoHostAssumption, FaultsAssumption
     DEF Panic, MoveHost, proxyVars, TypeOK, LaunchIsFirst, LockIsHeld, ReportsAreTrue,
         SomebodyMayWin, Launched, Keeping, Hosts
<1>21. ASSUME NEW h \in Hosts, Drained(h) PROVE SomebodyMayWin'
  BY <1>21, NoHostAssumption, FaultsAssumption
     DEF Drained, MoveHost, proxyVars, TypeOK, LaunchIsFirst, LockIsHeld, ReportsAreTrue,
         SomebodyMayWin, Launched, Keeping, Hosts
<1>22. ASSUME NEW h \in Hosts, Release(h) PROVE SomebodyMayWin'
  BY <1>22, NoHostAssumption, FaultsAssumption
     DEF Release, Holding, Releasing, proxyVars, hostVars, TypeOK, LaunchIsFirst,
         LockIsHeld, ReportsAreTrue, SomebodyMayWin, Launched, Keeping, Hosts
<1>23. ASSUME NEW h \in Hosts, Exit(h) PROVE SomebodyMayWin'
  BY <1>23, NoHostAssumption, FaultsAssumption
     DEF Exit, Holding, EndHost, MoveHost, AtExit, proxyVars, TypeOK, LaunchIsFirst,
         LockIsHeld, ReportsAreTrue, SomebodyMayWin, Launched, Keeping, Hosts
<1>24. ASSUME NEW h \in Hosts, Crash(h) PROVE SomebodyMayWin'
  BY <1>24, NoHostAssumption, FaultsAssumption
     DEF Crash, Unlocked, EndHost, MoveHost, proxyVars, TypeOK, LaunchIsFirst,
         LockIsHeld, ReportsAreTrue, SomebodyMayWin, Launched, Keeping, Hosts
<1>25. ASSUME NEW h \in Hosts, NEW p \in Proxies, Answer(h, p) PROVE SomebodyMayWin'
  BY <1>25, NoHostAssumption, FaultsAssumption
     DEF Answer, Serves, OwnerActive, Refuse, HangUp, MoveProxy, proxyVars, TypeOK,
         LaunchIsFirst, LockIsHeld, ReportsAreTrue, SomebodyMayWin, Launched, Keeping, Hosts
<1>26. ASSUME NEW h \in Hosts, NEW p \in Proxies, AnswerIncompatible(h, p) PROVE SomebodyMayWin'
  BY <1>26, NoHostAssumption, FaultsAssumption
     DEF AnswerIncompatible, Refuse, HangUp, MoveProxy, proxyVars, TypeOK, LaunchIsFirst,
         LockIsHeld, ReportsAreTrue, SomebodyMayWin, Launched, Keeping, Hosts
<1>27. ASSUME NEW h \in Hosts, NEW p \in Proxies, Disconnected(h, p) PROVE SomebodyMayWin'
  BY <1>27, NoHostAssumption, FaultsAssumption
     DEF Disconnected, AfterLeaving, Withdrawn, MoveHost, proxyVars, TypeOK,
         LaunchIsFirst, LockIsHeld, ReportsAreTrue, SomebodyMayWin, Launched, Keeping, Hosts
<1>28. ASSUME NEW h \in Hosts, NEW p \in Proxies, AnswerPoisoned(h, p) PROVE SomebodyMayWin'
  BY <1>28, NoHostAssumption, FaultsAssumption
     DEF AnswerPoisoned, Refuse, AfterPoison, WhenUnreachable, HangUp, MoveProxy,
         proxyVars, TypeOK, LaunchIsFirst, LockIsHeld, ReportsAreTrue, SomebodyMayWin,
         Launched, Keeping, Hosts
<1>29. ASSUME NEW h \in Hosts, NEW p \in Proxies, DisconnectedPoisoned(h, p) PROVE SomebodyMayWin'
  BY <1>29, NoHostAssumption, FaultsAssumption
     DEF DisconnectedPoisoned, proxyVars, TypeOK, LaunchIsFirst, LockIsHeld,
         ReportsAreTrue, SomebodyMayWin, Launched, Keeping, Hosts
<1>30. CASE UNCHANGED vars
  BY <1>30, NoHostAssumption, FaultsAssumption
     DEF vars, hostVars, proxyVars, TypeOK, LaunchIsFirst, LockIsHeld, ReportsAreTrue,
         SomebodyMayWin, Launched, Keeping, Hosts
<1> QED
  BY <1>1, <1>2, <1>3, <1>4, <1>5, <1>6, <1>7, <1>8, <1>9, <1>10, <1>11, <1>12, <1>13,
     <1>14, <1>15, <1>16, <1>17, <1>18, <1>19, <1>20, <1>21, <1>22, <1>23, <1>24, <1>25,
     <1>26, <1>27, <1>28, <1>29, <1>30
     DEF Next, ProxyStep, StartStep, ClientStep, EndStep

LEMMA Inductive == IInv /\ [Next]_vars => IInv'
BY TypeStep, LaunchStep, LockStep, DescriptorStep, AsksStep, ReportsStep, WinnerStep
   DEF IInv

THEOREM Invariance == Spec => []IInv
BY InitIInv, Inductive, PTL DEF Spec

-----------------------------------------------------------------------------
(* The theorems. *)

\* Type correctness of the proxies, the hosts and what they share.
THEOREM TypeCorrect == Spec => []TypeOK
BY Invariance, PTL DEF IInv

\* While a host serves, the descriptor leads to it.
THEOREM DescriptorLeadsThere == Spec => []DescriptorLeads
BY Invariance, PTL DEF IInv

\* Clients attached to serving hosts are attached to the same one.
THEOREM OneSessionOnly == Spec => []OneSession
<1>1. IInv => OneSession
  BY DEF IInv, TypeOK, LockIsHeld, Keeping, OneSession, Served, Hosts
<1> QED
  BY <1>1, Invariance, PTL

\* Competing probes and launches do not all fail each other.
THEOREM SomebodyWins == Spec => []StartupHasAWinner
<1>1. IInv => StartupHasAWinner
  BY DEF IInv, SomebodyMayWin, StartupHasAWinner, Hosts
<1> QED
  BY <1>1, Invariance, PTL

\* A client is attached only to the host that holds the writer lock.
THEOREM AttachedToTheWriter == Spec => AttachesToTheWriter
<1> DEFINE Attaches == \A p \in Proxies : at[p] # "attached" /\ at'[p] = "attached" =>
                         writer = asked'[p] /\ phase[asked'[p]] = "serving"
<1>1. IInv /\ [Next]_vars => [Attaches]_vars
  <2> SUFFICES ASSUME IInv, Next
               PROVE  Attaches
    BY DEF vars
  <2> USE DEF IInv, TypeOK, Hosts
  <2>1. ASSUME NEW p \in Proxies, Connect(p) PROVE Attaches
    BY <2>1 DEF Connect, Listening, MoveProxy
  <2>2. ASSUME NEW p \in Proxies, NobodyThere(p) PROVE Attaches
    BY <2>2 DEF NobodyThere, MoveProxy, WhenUnreachable, hostVars
  <2>3. ASSUME NEW p \in Proxies, ConnectionBroken(p) PROVE Attaches
    BY <2>3 DEF ConnectionBroken, HangUp, MoveProxy, WhenUnreachable, hostVars
  <2>4. ASSUME NEW p \in Proxies, Probe(p) PROVE Attaches
    BY <2>4 DEF Probe, MoveProxy, Launched, LockFree, hostVars
  <2>5. ASSUME NEW p \in Proxies, NothingToLaunch(p) PROVE Attaches
    BY <2>5 DEF NothingToLaunch, MoveProxy, hostVars
  <2>6. ASSUME NEW p \in Proxies, Unprobe(p) PROVE Attaches
    BY <2>6 DEF Unprobe, MoveProxy, AfterProbe, hostVars
  <2>7. ASSUME NEW p \in Proxies, Launch(p) PROVE Attaches
    BY <2>7 DEF Launch, MoveProxy, MoveHost
  <2>8. ASSUME NEW p \in Proxies, LookAgain(p) PROVE Attaches
    BY <2>8 DEF LookAgain, MoveProxy, hostVars
  <2>9. ASSUME NEW p \in Proxies, GiveUp(p) PROVE Attaches
    BY <2>9 DEF GiveUp, MayGiveUp, MoveProxy, hostVars
  <2>10. ASSUME NEW p \in Proxies, Leave(p) PROVE Attaches
    BY <2>10 DEF Leave, HangUp, MoveProxy, Dropped, Listening
  <2>11. ASSUME NEW p \in Proxies, Kill(p) PROVE Attaches
    BY <2>11 DEF Kill, HangUp, MoveProxy, Dropped, Listening
  <2>12. ASSUME NEW h \in Hosts, Open(h) PROVE Attaches
    BY <2>12 DEF Open, LockFree, MoveHost, proxyVars
  <2>13. ASSUME NEW h \in Hosts, OpenRefused(h) PROVE Attaches
    BY <2>13 DEF OpenRefused, LockFree, EndHost, MoveHost, proxyVars
  <2>14. ASSUME NEW h \in Hosts, Truncate(h) PROVE Attaches
    BY <2>14 DEF Truncate, MoveHost, proxyVars
  <2>15. ASSUME NEW h \in Hosts, Save(h) PROVE Attaches
    BY <2>15 DEF Save, MoveHost, proxyVars
  <2>16. ASSUME NEW h \in Hosts, Report(h) PROVE Attaches
    BY <2>16 DEF Report, MoveHost, proxyVars
  <2>17. ASSUME NEW h \in Hosts, StartFails(h) PROVE Attaches
    BY <2>17 DEF StartFails, Starting, Unlocked, EndHost, MoveHost, proxyVars
  <2>18. ASSUME NEW h \in Hosts, IdleTimeout(h) PROVE Attaches
    BY <2>18 DEF IdleTimeout, MoveHost, proxyVars
  <2>19. ASSUME NEW h \in Hosts, OutcomeUnknown(h) PROVE Attaches
    BY <2>19 DEF OutcomeUnknown, MoveHost, proxyVars
  <2>20. ASSUME NEW h \in Hosts, Panic(h) PROVE Attaches
    BY <2>20 DEF Panic, MoveHost, proxyVars
  <2>21. ASSUME NEW h \in Hosts, Drained(h) PROVE Attaches
    BY <2>21 DEF Drained, MoveHost, proxyVars
  <2>22. ASSUME NEW h \in Hosts, Release(h) PROVE Attaches
    BY <2>22 DEF Release, Holding, Releasing, proxyVars, hostVars
  <2>23. ASSUME NEW h \in Hosts, Exit(h) PROVE Attaches
    BY <2>23 DEF Exit, Holding, EndHost, MoveHost, AtExit, proxyVars
  <2>24. ASSUME NEW h \in Hosts, Crash(h) PROVE Attaches
    BY <2>24 DEF Crash, Unlocked, EndHost, MoveHost, proxyVars
  <2>25. ASSUME NEW h \in Hosts, NEW p \in Proxies, Answer(h, p) PROVE Attaches
    BY <2>25
       DEF Answer, Serves, OwnerActive, Refuse, HangUp, MoveProxy, proxyVars, LockIsHeld,
           AsksAreTheirs, Keeping
  <2>26. ASSUME NEW h \in Hosts, NEW p \in Proxies, AnswerIncompatible(h, p) PROVE Attaches
    BY <2>26
       DEF AnswerIncompatible, Refuse, HangUp, MoveProxy, proxyVars, LockIsHeld,
           AsksAreTheirs, Keeping
  <2>27. ASSUME NEW h \in Hosts, NEW p \in Proxies, Disconnected(h, p) PROVE Attaches
    BY <2>27
       DEF Disconnected, AfterLeaving, Withdrawn, MoveHost, proxyVars, LockIsHeld,
           AsksAreTheirs, Keeping
  <2>28. ASSUME NEW h \in Hosts, NEW p \in Proxies, AnswerPoisoned(h, p) PROVE Attaches
    BY <2>28
       DEF AnswerPoisoned, Refuse, AfterPoison, WhenUnreachable, HangUp, MoveProxy,
           proxyVars, LockIsHeld, AsksAreTheirs, Keeping
  <2>29. ASSUME NEW h \in Hosts, NEW p \in Proxies, DisconnectedPoisoned(h, p) PROVE Attaches
    BY <2>29 DEF DisconnectedPoisoned, proxyVars, LockIsHeld, AsksAreTheirs, Keeping
  <2> HIDE DEF IInv, TypeOK, Attaches
  <2> QED
    BY <2>1, <2>2, <2>3, <2>4, <2>5, <2>6, <2>7, <2>8, <2>9, <2>10, <2>11, <2>12, <2>13,
       <2>14, <2>15, <2>16, <2>17, <2>18, <2>19, <2>20, <2>21, <2>22, <2>23, <2>24, <2>25,
       <2>26, <2>27, <2>28, <2>29
       DEF Next, ProxyStep, StartStep, ClientStep, EndStep
<1> QED
  BY <1>1, Invariance, PTL DEF Spec, AttachesToTheWriter
=============================================================================
