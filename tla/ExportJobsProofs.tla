---------------------------- MODULE ExportJobsProofs ----------------------------
(***************************************************************************)
(* Proofs about ExportJobs for any number of jobs and faults: no artifact  *)
(* is lost, what a job says about its publication is so and stays so, a    *)
(* replacement is of what was authorized, and what is taken is put back.   *)
(***************************************************************************)
EXTENDS ExportJobs, TLAPS

Live == {"queued", "compiling", "publishing"}
Announced == {"announced", "ready", "verified", "moved", "retained", "swapping",
              "restoring", "published"}
Untouched == {"none", "new", "compiling", "checked", "announced", "ready", "verified"}

\* A job that runs has a record and a journal, and the host has not joined it; one
\* without a journal has left no trace.
Traces ==
    \A j \in Jobs :
        /\ Running(j) => j \in active /\ record[j] # None /\ journal[j] # None /\ host # "down"
        /\ journal[j] = None => worker[j] = "none"
        /\ worker[j] = "none" =>
              record[j] = None /\ backup[j] = None /\ j \notin dismissed /\ ~Exists(j)
        /\ record[j] # None => journal[j] # None

\* What the record and the journal say at each phase of the worker
Records ==
    \A j \in Jobs :
        /\ worker[j] = "new" => record[j].state = "queued"
        /\ worker[j] \in {"compiling", "checked"} => record[j].state = "compiling"
        /\ worker[j] \in Announced =>
              /\ record[j].state = "publishing"
              /\ journal[j].state = "publishing" /\ journal[j].committed = "unknown"
        /\ worker[j] = "failing" => record[j].state \in Live \cup {"completed"}
        /\ Running(j) /\ worker[j] # "leaving" => ~IsTerminal(journal[j])
        /\ worker[j] = "leaving" => IsTerminal(record[j])
        /\ record[j] # None =>
              /\ record[j].state \in {"queued", "compiling"} => record[j].committed = "no"
              /\ record[j].state = "publishing" => record[j].committed = "unknown"
              /\ record[j].state = "completed" <=> record[j].committed = "yes"
              /\ record[j].replacement = journal[j].replacement
        /\ journal[j] # None =>
              /\ journal[j].state \in {"queued", "compiling"} => journal[j].committed = "no"
              /\ journal[j].state = "completed" <=> journal[j].committed = "yes"

\* An artifact is published by the worker that has announced it, and known from then
\* on to be published.
Published ==
    \A j \in Jobs :
        /\ Exists(j) => worker[j] \in {"published", "failing", "leaving", "ended"}
        /\ worker[j] = "published" => Exists(j)
        /\ worker[j] = "failing" /\ Exists(j) => record[j].committed = "yes"
        /\ record[j] # None =>
              /\ record[j].committed = "yes" => Exists(j)
              /\ record[j].committed = "no" => ~Exists(j)
        /\ journal[j] # None =>
              /\ journal[j].committed = "yes" => Exists(j)
              /\ journal[j].committed = "no" => ~Exists(j)

\* The backup is taken once, is the one authorized from the check on, and a failure
\* leaves none behind unless it says so.
Backups ==
    \A j \in Jobs :
        /\ worker[j] \in Untouched => backup[j] = None
        /\ worker[j] \in {"retained", "swapping", "published"} =>
              backup[j] = record[j].replacement
        /\ record[j] # None /\ record[j].state = "completed" =>
              backup[j] = record[j].replacement
        /\ journal[j] # None /\ journal[j].state = "completed" =>
              backup[j] = journal[j].replacement
        /\ worker[j] = "failing" /\ record[j].state # "completed" /\ backup[j] # None =>
              record[j].backupState = "blocked"
        /\ journal[j] # None /\ journal[j].state \in {"failed", "cancelled"} /\ backup[j] # None =>
              journal[j].backupState = "blocked"

\* A job dismissed in time keeps the flag, which it meets before it may publish.
Dismissals ==
    \A j \in dismissed :
        /\ ~Exists(j)
        /\ worker[j] \in {"new", "compiling", "checked", "announced", "failing", "leaving", "ended"}
        /\ record[j] # None => record[j].cancel

IInv ==
    /\ TypeOK
    /\ Traces
    /\ Records
    /\ Published
    /\ Backups
    /\ Dismissals

-----------------------------------------------------------------------------
(* What the actions that write a record make of it. *)

\* A record that is what it was but for these fields
IsNow(r, was, state, committed, cancel, backupState) ==
    /\ r.replacement = was.replacement
    /\ r.state = state /\ r.committed = committed
    /\ r.cancel = cancel /\ r.backupState = backupState

\* Only job j is written about, and its record gets these fields.
Writes(j, state, committed, cancel, backupState) ==
    /\ record[j] \in Record /\ record'[j] \in Record
    /\ IsNow(record'[j], record[j], state, committed, cancel, backupState)
    /\ record' \in [Jobs -> Record \cup {None}]
    /\ journal' \in [Jobs -> Record \cup {None}]
    /\ \A k \in Jobs : k # j => record'[k] = record[k] /\ journal'[k] = journal[k]

LEMMA WriteOne ==
    ASSUME TypeOK, NEW j \in Jobs, record[j] \in Record, NEW r \in Record,
           record' = [record EXCEPT ![j] = r],
           journal' = [journal EXCEPT ![j] = r] \/ journal' = journal,
           NEW state, NEW committed, NEW cancel, NEW backupState,
           IsNow(r, record[j], state, committed, cancel, backupState)
    PROVE  /\ Writes(j, state, committed, cancel, backupState)
           /\ journal'[j] \in {record'[j], journal[j]}
<1>1. /\ record'[j] = r
      /\ record' \in [Jobs -> Record \cup {None}]
      /\ journal' \in [Jobs -> Record \cup {None}]
      /\ journal'[j] \in {r, journal[j]}
      /\ \A k \in Jobs : k # j => record'[k] = record[k] /\ journal'[k] = journal[k]
  BY DEF TypeOK
<1> QED
  BY <1>1 DEF Writes

CancelDoes(j) ==
    /\ Writes(j, record[j].state, record[j].committed, TRUE, record[j].backupState)
    /\ host = "up" /\ j \in SettleFinished /\ ~IsTerminal(record[j])
    /\ journal'[j] \in {record'[j], journal[j]}
    /\ faults' \in {faults, faults + 1} /\ faults' <= MaxFaults
    /\ dismissed' = IF record[j].state = "publishing" THEN dismissed ELSE dismissed \cup {j}
    /\ active' = SettleFinished
    /\ UNCHANGED <<host, worker, cause, destination, backup>>

LEMMA CancelEffect ==
    ASSUME TypeOK, Traces, NEW j \in Jobs, Cancel(j)
    PROVE  CancelDoes(j)
<1> DEFINE r == [record[j] EXCEPT !.cancel = TRUE]
<1>1. record[j] \in Record
  BY DEF Cancel, SettleFinished, TypeOK, Traces, Running
<1>2. /\ r \in Record
      /\ IsNow(r, record[j], record[j].state, record[j].committed, TRUE, record[j].backupState)
  BY <1>1 DEF Record, IsNow, Phases
<1>3. /\ record' = [record EXCEPT ![j] = r]
      /\ journal' = [journal EXCEPT ![j] = r] \/ journal' = journal
  BY DEF Cancel, SettleFinished, Journalled, NotJournalled, MayFault, fileVars
<1>4. /\ host = "up" /\ j \in SettleFinished /\ ~IsTerminal(record[j])
      /\ faults' \in {faults, faults + 1} /\ faults' <= MaxFaults
      /\ dismissed' = IF record[j].state = "publishing" THEN dismissed ELSE dismissed \cup {j}
      /\ active' = SettleFinished
      /\ UNCHANGED <<host, worker, cause, destination, backup>>
  BY FaultsAssumption
     DEF Cancel, SettleFinished, Journalled, NotJournalled, MayFault, fileVars, TypeOK
<1> HIDE DEF r
<1>5. /\ Writes(j, record[j].state, record[j].committed, TRUE, record[j].backupState)
      /\ journal'[j] \in {record'[j], journal[j]}
  BY <1>1, <1>2, <1>3, WriteOne
<1> QED
  BY <1>4, <1>5 DEF CancelDoes

CompileDoes(j) ==
    /\ Writes(j, "compiling", record[j].committed, record[j].cancel, record[j].backupState)
    /\ worker[j] = "new" /\ ~record[j].cancel
    /\ \/ journal'[j] = record'[j]
             /\ worker' = [worker EXCEPT ![j] = "compiling"] /\ cause' = cause
       \/ /\ journal'[j] = journal[j] /\ worker' = [worker EXCEPT ![j] = "failing"]
          /\ cause' = [cause EXCEPT ![j] = "failed"]
    /\ faults' \in {faults, faults + 1} /\ faults' <= MaxFaults
    /\ UNCHANGED <<host, active, destination, backup, dismissed>>

LEMMA CompileEffect ==
    ASSUME TypeOK, Traces, NEW j \in Jobs, Compile(j)
    PROVE  CompileDoes(j)
<1> DEFINE r == [record[j] EXCEPT !.state = "compiling"]
<1>1. record[j] \in Record
  BY DEF Compile, SettleFinished, TypeOK, Traces, Running
<1>2. /\ r \in Record
      /\ IsNow(r, record[j], "compiling", record[j].committed, record[j].cancel, record[j].backupState)
  BY <1>1 DEF Record, IsNow, Phases
<1>3. /\ record' = [record EXCEPT ![j] = r]
      /\ journal' = [journal EXCEPT ![j] = r] \/ journal' = journal
  BY
     DEF Compile, UpdateTo, Fail, MoveWorker, Journalled, NotJournalled, MayFault,
         hostVars, fileVars
<1>4. /\ worker[j] = "new" /\ ~record[j].cancel
      /\ \/ journal' = [journal EXCEPT ![j] = r]
               /\ worker' = [worker EXCEPT ![j] = "compiling"] /\ cause' = cause
         \/ /\ journal' = journal /\ worker' = [worker EXCEPT ![j] = "failing"]
            /\ cause' = [cause EXCEPT ![j] = "failed"]
      /\ faults' \in {faults, faults + 1} /\ faults' <= MaxFaults
      /\ UNCHANGED <<host, active, destination, backup, dismissed>>
  BY FaultsAssumption
     DEF Compile, UpdateTo, Fail, MoveWorker, Journalled, NotJournalled, MayFault,
         hostVars, fileVars, TypeOK
<1> HIDE DEF r
<1>5. /\ Writes(j, "compiling", record[j].committed, record[j].cancel, record[j].backupState)
      /\ journal'[j] \in {record'[j], journal[j]}
  BY <1>1, <1>2, <1>3, WriteOne
<1>6. journal' = [journal EXCEPT ![j] = r] => journal'[j] = record'[j]
  BY <1>3 DEF TypeOK
<1> QED
  BY <1>4, <1>5, <1>6 DEF CompileDoes

AnnounceDoes(j) ==
    /\ Writes(j, "publishing", "unknown", record[j].cancel, record[j].backupState)
    /\ worker[j] = "checked"
    /\ \/ journal'[j] = record'[j]
             /\ worker' = [worker EXCEPT ![j] = "announced"] /\ cause' = cause
       \/ /\ journal'[j] = journal[j] /\ worker' = [worker EXCEPT ![j] = "failing"]
          /\ cause' = [cause EXCEPT ![j] = "failed"]
    /\ faults' \in {faults, faults + 1} /\ faults' <= MaxFaults
    /\ UNCHANGED <<host, active, destination, backup, dismissed>>

LEMMA AnnounceEffect ==
    ASSUME TypeOK, Traces, NEW j \in Jobs, Announce(j)
    PROVE  AnnounceDoes(j)
<1> DEFINE r == Publishing(record[j])
<1>1. record[j] \in Record
  BY DEF Announce, SettleFinished, TypeOK, Traces, Running
<1>2. /\ r \in Record
      /\ IsNow(r, record[j], "publishing", "unknown", record[j].cancel, record[j].backupState)
  BY <1>1 DEF Record, IsNow, Phases, Publishing
<1>3. /\ record' = [record EXCEPT ![j] = r]
      /\ journal' = [journal EXCEPT ![j] = r] \/ journal' = journal
  BY
     DEF Announce, AnnounceTo, UpdateTo, Fail, MoveWorker, Journalled, NotJournalled,
         MayFault, hostVars, fileVars
<1>4. /\ worker[j] = "checked"
      /\ \/ journal' = [journal EXCEPT ![j] = r]
               /\ worker' = [worker EXCEPT ![j] = "announced"] /\ cause' = cause
         \/ /\ journal' = journal /\ worker' = [worker EXCEPT ![j] = "failing"]
            /\ cause' = [cause EXCEPT ![j] = "failed"]
      /\ faults' \in {faults, faults + 1} /\ faults' <= MaxFaults
      /\ UNCHANGED <<host, active, destination, backup, dismissed>>
  BY FaultsAssumption
     DEF Announce, AnnounceTo, UpdateTo, Fail, MoveWorker, Journalled, NotJournalled,
         MayFault, hostVars, fileVars, TypeOK
<1> HIDE DEF r
<1>5. /\ Writes(j, "publishing", "unknown", record[j].cancel, record[j].backupState)
      /\ journal'[j] \in {record'[j], journal[j]}
  BY <1>1, <1>2, <1>3, WriteOne
<1>6. journal' = [journal EXCEPT ![j] = r] => journal'[j] = record'[j]
  BY <1>3 DEF TypeOK
<1> QED
  BY <1>4, <1>5, <1>6 DEF AnnounceDoes

RestoreDoes(j) ==
    /\ \/ /\ Writes(j, record[j].state, record[j].committed, record[j].cancel, "restored")
          /\ destination = None /\ destination' = backup[j]
          /\ backup' = [backup EXCEPT ![j] = None]
       \/ /\ Writes(j, record[j].state, record[j].committed, record[j].cancel, "blocked")
          /\ UNCHANGED <<destination, backup>>
    /\ worker[j] = "restoring"
    /\ journal'[j] \in {record'[j], journal[j]}
    /\ worker' = [worker EXCEPT ![j] = "failing"]
    /\ cause' \in {[cause EXCEPT ![j] = cause[j]], [cause EXCEPT ![j] = "failed"]}
    /\ faults' \in {faults, faults + 1} /\ faults' <= MaxFaults
    /\ UNCHANGED <<host, active, dismissed>>

LEMMA RestoreEffect ==
    ASSUME TypeOK, Traces, NEW j \in Jobs, Restore(j)
    PROVE  RestoreDoes(j)
<1> DEFINE Noted(back) == [record[j] EXCEPT !.backupState = AfterRestore(back)]
<1>1. record[j] \in Record
  BY DEF Restore, SettleFinished, TypeOK, Traces, Running
<1>2. PICK back \in {Vacant, FALSE} :
         /\ worker[j] = "restoring"
         /\ IF back
              THEN destination' = backup[j] /\ backup' = [backup EXCEPT ![j] = None]
              ELSE UNCHANGED fileVars
         /\ \/ Journalled(j, Noted(back)) /\ Fail(j, IF back THEN cause[j] ELSE "failed")
            \/ NotJournalled(j, Noted(back)) /\ Fail(j, "failed")
         /\ UNCHANGED <<hostVars, dismissed>>
  BY DEF Restore
<1> DEFINE r == Noted(back)
           now == IF back THEN "restored" ELSE "blocked"
<1>3. back \in BOOLEAN
  BY DEF Vacant
<1>4. /\ r \in Record
      /\ IsNow(r, record[j], record[j].state, record[j].committed, record[j].cancel, now)
  BY <1>1, <1>3 DEF Record, IsNow, Phases, AfterRestore
<1>5. /\ record' = [record EXCEPT ![j] = r]
      /\ journal' = [journal EXCEPT ![j] = r] \/ journal' = journal
  <2> HIDE DEF r, Noted
  <2> QED
    BY <1>2 DEF UpdateTo, Journalled, NotJournalled, r
<1>6. /\ worker' = [worker EXCEPT ![j] = "failing"]
      /\ cause' \in {[cause EXCEPT ![j] = cause[j]], [cause EXCEPT ![j] = "failed"]}
      /\ faults' \in {faults, faults + 1} /\ faults' <= MaxFaults
      /\ UNCHANGED <<host, active, dismissed>>
  <2> HIDE DEF r, Noted
  <2> QED
    BY <1>2, <1>3, FaultsAssumption
       DEF Fail, MoveWorker, Journalled, NotJournalled, MayFault, hostVars, TypeOK, r
<1> HIDE DEF r, Noted
<1>7. /\ Writes(j, record[j].state, record[j].committed, record[j].cancel, now)
      /\ journal'[j] \in {record'[j], journal[j]}
  BY <1>1, <1>4, <1>5, WriteOne
<1>8. CASE back
  BY <1>2, <1>6, <1>7, <1>8 DEF RestoreDoes, Vacant
<1>9. CASE ~back
  BY <1>2, <1>6, <1>7, <1>9 DEF RestoreDoes, fileVars
<1> QED
  BY <1>3, <1>8, <1>9

AcknowledgeDoes(j) ==
    /\ Writes(j, "completed", "yes", record[j].cancel, record[j].backupState)
    /\ worker[j] = "published"
    /\ \/ journal'[j] = record'[j] /\ worker' = [worker EXCEPT ![j] = "leaving"] /\ cause' = cause
       \/ /\ journal'[j] = journal[j] /\ worker' = [worker EXCEPT ![j] = "failing"]
          /\ cause' = [cause EXCEPT ![j] = "failed"]
    /\ faults' \in {faults, faults + 1} /\ faults' <= MaxFaults
    /\ UNCHANGED <<host, active, destination, backup, dismissed>>

LEMMA AcknowledgeEffect ==
    ASSUME TypeOK, Traces, NEW j \in Jobs, Acknowledge(j)
    PROVE  AcknowledgeDoes(j)
<1> DEFINE r == Completed(record[j])
<1>1. record[j] \in Record
  BY DEF Acknowledge, SettleFinished, TypeOK, Traces, Running
<1>2. /\ r \in Record
      /\ IsNow(r, record[j], "completed", "yes", record[j].cancel, record[j].backupState)
  BY <1>1 DEF Record, IsNow, Phases, Completed
<1>3. /\ record' = [record EXCEPT ![j] = r]
      /\ journal' = [journal EXCEPT ![j] = r] \/ journal' = journal
  BY
     DEF Acknowledge, UpdateTo, Fail, MoveWorker, Journalled, NotJournalled, MayFault,
         hostVars, fileVars
<1>4. /\ worker[j] = "published"
      /\ \/ journal' = [journal EXCEPT ![j] = r]
               /\ worker' = [worker EXCEPT ![j] = "leaving"] /\ cause' = cause
         \/ /\ journal' = journal /\ worker' = [worker EXCEPT ![j] = "failing"]
            /\ cause' = [cause EXCEPT ![j] = "failed"]
      /\ faults' \in {faults, faults + 1} /\ faults' <= MaxFaults
      /\ UNCHANGED <<host, active, destination, backup, dismissed>>
  BY FaultsAssumption
     DEF Acknowledge, UpdateTo, Fail, MoveWorker, Journalled, NotJournalled, MayFault,
         hostVars, fileVars, TypeOK
<1> HIDE DEF r
<1>5. /\ Writes(j, "completed", "yes", record[j].cancel, record[j].backupState)
      /\ journal'[j] \in {record'[j], journal[j]}
  BY <1>1, <1>2, <1>3, WriteOne
<1>6. journal' = [journal EXCEPT ![j] = r] => journal'[j] = record'[j]
  BY <1>3 DEF TypeOK
<1> QED
  BY <1>4, <1>5, <1>6 DEF AcknowledgeDoes

ConcludeDoes(j) ==
    /\ Writes(j, IF record[j].committed = "yes" THEN "completed" ELSE cause[j],
                 IF record[j].committed = "yes" THEN "yes" ELSE "no",
                 record[j].cancel, record[j].backupState)
    /\ worker[j] = "failing"
    /\ journal'[j] \in {record'[j], journal[j]}
    /\ worker' = [worker EXCEPT ![j] = "leaving"]
    /\ faults' \in {faults, faults + 1} /\ faults' <= MaxFaults
    /\ UNCHANGED <<host, active, cause, destination, backup, dismissed>>

LEMMA ConcludeEffect ==
    ASSUME TypeOK, Traces, NEW j \in Jobs, Conclude(j)
    PROVE  ConcludeDoes(j)
<1> DEFINE r == Concluded(j)
<1>1. record[j] \in Record
  BY DEF Conclude, SettleFinished, TypeOK, Traces, Running
<1>2. /\ r \in Record
      /\ IsNow(r, record[j],
                             IF record[j].committed = "yes" THEN "completed" ELSE cause[j],
                             IF record[j].committed = "yes" THEN "yes" ELSE "no",
                             record[j].cancel, record[j].backupState)
  BY <1>1 DEF Record, IsNow, Phases, Concluded, Completed, TypeOK
<1>3. /\ record' = [record EXCEPT ![j] = r]
      /\ journal' = [journal EXCEPT ![j] = r] \/ journal' = journal
  BY
     DEF Conclude, UpdateTo, Fail, MoveWorker, Journalled, NotJournalled, MayFault,
         hostVars, fileVars
<1>4. /\ worker[j] = "failing"
      /\ worker' = [worker EXCEPT ![j] = "leaving"]
      /\ faults' \in {faults, faults + 1} /\ faults' <= MaxFaults
      /\ UNCHANGED <<host, active, cause, destination, backup, dismissed>>
  BY FaultsAssumption
     DEF Conclude, UpdateTo, Fail, MoveWorker, Journalled, NotJournalled, MayFault,
         hostVars, fileVars, TypeOK
<1> HIDE DEF r
<1>5. /\ Writes(j,
                   IF record[j].committed = "yes" THEN "completed" ELSE cause[j],
                   IF record[j].committed = "yes" THEN "yes" ELSE "no",
                   record[j].cancel, record[j].backupState)
      /\ journal'[j] \in {record'[j], journal[j]}
  BY <1>1, <1>2, <1>3, WriteOne
<1> QED
  BY <1>4, <1>5 DEF ConcludeDoes
RetainDoes(j) ==
    /\ worker[j] = "moved"
    /\ \/ /\ backup[j] = record[j].replacement
          /\ Writes(j, record[j].state, record[j].committed, record[j].cancel, "retained")
          /\ \/ journal'[j] = record'[j] /\ worker' = [worker EXCEPT ![j] = "retained"]
                   /\ cause' = cause
             \/ journal'[j] = journal[j] /\ worker' = [worker EXCEPT ![j] = "restoring"]
                   /\ cause' = [cause EXCEPT ![j] = "failed"]
       \/ /\ record' = record /\ journal' = journal
          /\ worker' = [worker EXCEPT ![j] = "restoring"]
          /\ cause' = [cause EXCEPT ![j] = "failed"]
    /\ faults' \in {faults, faults + 1} /\ faults' <= MaxFaults
    /\ UNCHANGED <<host, active, destination, backup, dismissed>>

LEMMA RetainEffect ==
    ASSUME TypeOK, Traces, NEW j \in Jobs, Retain(j)
    PROVE  RetainDoes(j)
<1> DEFINE r == [record[j] EXCEPT !.backupState = "retained"]
<1>1. record[j] \in Record
  BY DEF Retain, TypeOK, Traces, Running
<1>2. r \in Record
      /\ IsNow(r, record[j], record[j].state, record[j].committed, record[j].cancel, "retained")
  BY <1>1 DEF Record, IsNow
<1>3. /\ worker[j] = "moved"
      /\ faults' \in {faults, faults + 1} /\ faults' <= MaxFaults
      /\ UNCHANGED <<host, active, destination, backup, dismissed>>
  BY FaultsAssumption
     DEF Retain, Authorized, MustRestore, MoveWorker, Journalled, NotJournalled, MayFault,
         hostVars, fileVars, TypeOK
<1>4. CASE Authorized(j)
  <2>1. /\ record' = [record EXCEPT ![j] = r]
        /\ \/ journal' = [journal EXCEPT ![j] = r]
                 /\ worker' = [worker EXCEPT ![j] = "retained"] /\ cause' = cause
           \/ journal' = journal /\ worker' = [worker EXCEPT ![j] = "restoring"]
                 /\ cause' = [cause EXCEPT ![j] = "failed"]
    BY <1>4 DEF Retain, MustRestore, MoveWorker, Journalled, NotJournalled
  <2> HIDE DEF r
  <2>2. Writes(j, record[j].state, record[j].committed, record[j].cancel, "retained")
    BY <1>1, <1>2, <2>1, WriteOne
  <2>3. /\ journal' = [journal EXCEPT ![j] = r] => journal'[j] = record'[j]
        /\ journal' = journal => journal'[j] = journal[j]
    BY <2>1 DEF TypeOK
  <2> QED
    BY <1>3, <1>4, <2>1, <2>2, <2>3 DEF RetainDoes, Authorized
<1>5. CASE ~Authorized(j)
  <2>1. /\ record' = record /\ journal' = journal
        /\ worker' = [worker EXCEPT ![j] = "restoring"]
        /\ cause' = [cause EXCEPT ![j] = "failed"]
    BY <1>5 DEF Retain, MustRestore, MoveWorker
  <2> QED
    BY <1>3, <2>1 DEF RetainDoes
<1> QED
  BY <1>4, <1>5

ReconcileDoes(j) ==
    /\ host = "up" /\ j \notin SettleFinished
    /\ journal[j] \in Record /\ ~IsTerminal(journal[j])
    /\ journal'[j] \in Record
    /\ journal'[j].replacement = journal[j].replacement
    /\ journal'[j].state = IF journal[j].state = "publishing" THEN "uncertain" ELSE "interrupted"
    /\ journal'[j].committed = IF journal[j].state = "publishing" THEN "unknown" ELSE "no"
    /\ journal' \in [Jobs -> Record \cup {None}]
    /\ \A k \in Jobs : k # j => journal'[k] = journal[k]
    /\ active' = SettleFinished
    /\ UNCHANGED <<host, worker, record, cause, destination, backup, dismissed, faults>>

LEMMA ReconcileEffect ==
    ASSUME TypeOK, NEW j \in Jobs, Reconcile(j)
    PROVE  ReconcileDoes(j)
<1> DEFINE r == Reconciled(journal[j])
<1>1. journal[j] \in Record /\ ~IsTerminal(journal[j])
  BY DEF Reconcile, TypeOK
<1>2. /\ r \in Record
      /\ r.replacement = journal[j].replacement
      /\ r.state = IF journal[j].state = "publishing" THEN "uncertain" ELSE "interrupted"
      /\ r.committed = IF journal[j].state = "publishing" THEN "unknown" ELSE "no"
  BY <1>1 DEF Reconciled, Record, Phases
<1>3. /\ host = "up" /\ j \notin SettleFinished
      /\ journal' = [journal EXCEPT ![j] = r]
      /\ active' = SettleFinished
      /\ UNCHANGED <<host, worker, record, cause, destination, backup, dismissed, faults>>
  BY DEF Reconcile, fileVars
<1> HIDE DEF r
<1>4. /\ journal'[j] = r
      /\ journal' \in [Jobs -> Record \cup {None}]
      /\ \A k \in Jobs : k # j => journal'[k] = journal[k]
  BY <1>2, <1>3 DEF TypeOK
<1> QED
  BY <1>1, <1>2, <1>3, <1>4 DEF ReconcileDoes

\* A journal is begun for a job that has left no trace.
Begins(j, a, state) ==
    /\ host = "up" /\ journal[j] = None
    /\ journal'[j] \in Record
    /\ journal'[j].replacement = a
    /\ journal'[j].state = state /\ journal'[j].committed = "no"
    /\ journal' \in [Jobs -> Record \cup {None}]
    /\ \A k \in Jobs : k # j => journal'[k] = journal[k]
    /\ UNCHANGED <<host, cause, destination, backup, dismissed>>

LEMMA BeginsOne ==
    ASSUME TypeOK, NEW j \in Jobs, NEW a \in Artifacts \cup {None},
           NEW state, host = "up", journal[j] = None,
           NEW r \in Record, r.replacement = a, r.state = state, r.committed = "no",
           journal' = [journal EXCEPT ![j] = r],
           UNCHANGED <<host, cause, destination, backup, dismissed>>
    PROVE  Begins(j, a, state)
<1>1. /\ journal'[j] = r
      /\ journal' \in [Jobs -> Record \cup {None}]
      /\ \A k \in Jobs : k # j => journal'[k] = journal[k]
  BY DEF TypeOK
<1> QED
  BY <1>1 DEF Begins

BeginDoes(j, a) ==
    /\ Begins(j, a, "queued")
    /\ record'[j] = journal'[j]
    /\ record' \in [Jobs -> Record \cup {None}]
    /\ \A k \in Jobs : k # j => record'[k] = record[k]
    /\ worker' = [worker EXCEPT ![j] = "new"]
    /\ active' = SettleFinished \cup {j}
    /\ faults' = faults

LEMMA BeginEffect ==
    ASSUME TypeOK, NEW j \in Jobs, NEW a \in Artifacts \cup {None}, Begin(j, a)
    PROVE  BeginDoes(j, a)
<1> DEFINE r == Queued(a)
<1>1. r \in Record /\ r.replacement = a /\ r.state = "queued" /\ r.committed = "no"
  BY DEF Queued, Record, Phases
<1>2. /\ host = "up" /\ journal[j] = None
      /\ record' = [record EXCEPT ![j] = r] /\ journal' = [journal EXCEPT ![j] = r]
      /\ worker' = [worker EXCEPT ![j] = "new"]
      /\ active' = SettleFinished \cup {j}
      /\ UNCHANGED <<host, cause, destination, backup, dismissed, faults>>
  BY DEF Begin, CanBegin, Journalled, MoveWorker, fileVars
<1> HIDE DEF r
<1>3. Begins(j, a, "queued")
  BY <1>1, <1>2, BeginsOne
<1>4. /\ record'[j] = r /\ journal'[j] = r
      /\ \A k \in Jobs : k # j => record'[k] = record[k]
  BY <1>2 DEF TypeOK
<1>5. record' \in [Jobs -> Record \cup {None}]
  BY <1>2, <1>3, <1>4 DEF Begins, TypeOK
<1> QED
  BY <1>2, <1>3, <1>4, <1>5 DEF BeginDoes

BeginWithoutWorkerDoes(j, a, state) ==
    /\ Begins(j, a, state)
    /\ active' = SettleFinished
    /\ faults' \in {faults, faults + 1} /\ faults' <= MaxFaults
    /\ UNCHANGED <<worker, record>>

LEMMA BeginWithoutWorkerEffect ==
    ASSUME TypeOK, NEW j \in Jobs, NEW a \in Artifacts \cup {None},
           NEW state \in {"queued", "failed"}, BeginWithoutWorker(j, a, state)
    PROVE  BeginWithoutWorkerDoes(j, a, state)
<1> DEFINE r == [Queued(a) EXCEPT !.state = state]
<1>0. r \in Record /\ r.replacement = a /\ r.state = state /\ r.committed = "no"
  BY DEF Queued, Record, Phases
<1>1. /\ host = "up" /\ journal[j] = None
      /\ journal' = [journal EXCEPT ![j] = r]
      /\ active' = SettleFinished
      /\ faults' \in {faults, faults + 1} /\ faults' <= MaxFaults
      /\ UNCHANGED <<host, cause, destination, backup, dismissed, worker, record>>
  BY FaultsAssumption
     DEF BeginWithoutWorker, CanBegin, ActiveWithoutWorker, MayFault, fileVars, TypeOK
<1> HIDE DEF r
<1>2. Begins(j, a, state)
  BY <1>0, <1>1, BeginsOne
<1> QED
  BY <1>1, <1>2 DEF BeginWithoutWorkerDoes

-----------------------------------------------------------------------------
(* Every step preserves each part. *)

LEMMA TypeStep ==
    ASSUME TypeOK, Traces, [Next]_vars
    PROVE  TypeOK'
<1>1. ASSUME NEW j \in Jobs, NEW a \in Artifacts \cup {None}, Begin(j, a) PROVE TypeOK'
  <2>1. BeginDoes(j, a)
    BY <1>1, BeginEffect
  <2>2. record' \in [Jobs -> Record \cup {None}] /\ journal' \in [Jobs -> Record \cup {None}]
    BY <2>1 DEF BeginDoes, Begins
  <2>3. worker' \in [Jobs -> {"none", "new", "compiling", "checked", "announced", "ready",
                           "verified", "moved", "retained", "swapping", "restoring",
                           "published", "failing", "leaving", "ended"}]
    BY <2>1 DEF BeginDoes, TypeOK
  <2>4. active' \in SUBSET Jobs /\ \A k \in active' : worker'[k] # "none" /\ record'[k] # None
    BY <2>1, NoneAssumption DEF BeginDoes, Begins, SettleFinished, TypeOK
  <2>5. /\ host' \in {"up", "stopping", "down"}
        /\ cause' \in [Jobs -> {"failed", "cancelled"}]
        /\ destination' \in Artifacts \cup {None} /\ backup' \in [Jobs -> Artifacts \cup {None}]
        /\ dismissed' \in SUBSET Jobs /\ faults' \in 0..MaxFaults
    BY <2>1, FaultsAssumption DEF BeginDoes, Begins, TypeOK
  <2> QED
    BY <2>2, <2>3, <2>4, <2>5 DEF TypeOK
<1>2. ASSUME NEW j \in Jobs, NEW a \in Artifacts \cup {None},
             NEW s \in {"queued", "failed"}, BeginWithoutWorker(j, a, s) PROVE TypeOK'
  <2>1. BeginWithoutWorkerDoes(j, a, s)
    BY <1>2, BeginWithoutWorkerEffect
  <2>2. record' \in [Jobs -> Record \cup {None}] /\ journal' \in [Jobs -> Record \cup {None}]
    BY <2>1 DEF BeginWithoutWorkerDoes, Begins, TypeOK
  <2>3. worker' \in [Jobs -> {"none", "new", "compiling", "checked", "announced", "ready",
                           "verified", "moved", "retained", "swapping", "restoring",
                           "published", "failing", "leaving", "ended"}]
    BY <2>1 DEF BeginWithoutWorkerDoes, TypeOK
  <2>4. active' \in SUBSET Jobs /\ \A k \in active' : worker'[k] # "none" /\ record'[k] # None
    BY <2>1, NoneAssumption DEF BeginWithoutWorkerDoes, Begins, SettleFinished, TypeOK
  <2>5. /\ host' \in {"up", "stopping", "down"}
        /\ cause' \in [Jobs -> {"failed", "cancelled"}]
        /\ destination' \in Artifacts \cup {None} /\ backup' \in [Jobs -> Artifacts \cup {None}]
        /\ dismissed' \in SUBSET Jobs /\ faults' \in 0..MaxFaults
    BY <2>1, FaultsAssumption DEF BeginWithoutWorkerDoes, Begins, TypeOK
  <2> QED
    BY <2>2, <2>3, <2>4, <2>5 DEF TypeOK
<1>3. ASSUME NEW j \in Jobs, Poll(j) PROVE TypeOK'
  BY <1>3, ArtifactsAssumption, FaultsAssumption, NoneAssumption
     DEF Poll, SettleFinished, hostVars, fileVars, TypeOK, Artifacts, Traces, Running
<1>4. ASSUME NEW j \in Jobs, Cancel(j) PROVE TypeOK'
  <2>1. CancelDoes(j)
    BY <1>4, CancelEffect
  <2>2. record' \in [Jobs -> Record \cup {None}] /\ journal' \in [Jobs -> Record \cup {None}]
    BY <2>1 DEF CancelDoes, Writes, TypeOK
  <2>3. worker' \in [Jobs -> {"none", "new", "compiling", "checked", "announced", "ready",
                           "verified", "moved", "retained", "swapping", "restoring",
                           "published", "failing", "leaving", "ended"}]
    BY <2>1 DEF CancelDoes, TypeOK
  <2>4. active' \in SUBSET Jobs /\ \A k \in active' : worker'[k] # "none" /\ record'[k] # None
    BY <2>1, NoneAssumption DEF CancelDoes, Writes, SettleFinished, TypeOK
  <2>5. /\ host' \in {"up", "stopping", "down"}
        /\ cause' \in [Jobs -> {"failed", "cancelled"}]
        /\ destination' \in Artifacts \cup {None} /\ backup' \in [Jobs -> Artifacts \cup {None}]
        /\ dismissed' \in SUBSET Jobs /\ faults' \in 0..MaxFaults
    BY <2>1, FaultsAssumption DEF CancelDoes, TypeOK
  <2> QED
    BY <2>2, <2>3, <2>4, <2>5 DEF TypeOK
<1>5. ASSUME NEW j \in Jobs, Reconcile(j) PROVE TypeOK'
  <2>1. ReconcileDoes(j)
    BY <1>5, ReconcileEffect
  <2>2. record' \in [Jobs -> Record \cup {None}] /\ journal' \in [Jobs -> Record \cup {None}]
    BY <2>1 DEF ReconcileDoes, TypeOK
  <2>3. worker' \in [Jobs -> {"none", "new", "compiling", "checked", "announced", "ready",
                           "verified", "moved", "retained", "swapping", "restoring",
                           "published", "failing", "leaving", "ended"}]
    BY <2>1 DEF ReconcileDoes, TypeOK
  <2>4. active' \in SUBSET Jobs /\ \A k \in active' : worker'[k] # "none" /\ record'[k] # None
    BY <2>1, NoneAssumption DEF ReconcileDoes, SettleFinished, TypeOK
  <2>5. /\ host' \in {"up", "stopping", "down"}
        /\ cause' \in [Jobs -> {"failed", "cancelled"}]
        /\ destination' \in Artifacts \cup {None} /\ backup' \in [Jobs -> Artifacts \cup {None}]
        /\ dismissed' \in SUBSET Jobs /\ faults' \in 0..MaxFaults
    BY <2>1, FaultsAssumption DEF ReconcileDoes, TypeOK
  <2> QED
    BY <2>2, <2>3, <2>4, <2>5 DEF TypeOK
<1>6. ASSUME NEW j \in Jobs, Compile(j) PROVE TypeOK'
  <2>1. CompileDoes(j)
    BY <1>6, CompileEffect
  <2>2. record' \in [Jobs -> Record \cup {None}] /\ journal' \in [Jobs -> Record \cup {None}]
    BY <2>1 DEF CompileDoes, Writes, TypeOK
  <2>3. worker' \in [Jobs -> {"none", "new", "compiling", "checked", "announced", "ready",
                           "verified", "moved", "retained", "swapping", "restoring",
                           "published", "failing", "leaving", "ended"}]
    BY <2>1 DEF CompileDoes, TypeOK
  <2>4. active' \in SUBSET Jobs /\ \A k \in active' : worker'[k] # "none" /\ record'[k] # None
    BY <2>1, NoneAssumption DEF CompileDoes, Writes, SettleFinished, TypeOK
  <2>5. /\ host' \in {"up", "stopping", "down"}
        /\ cause' \in [Jobs -> {"failed", "cancelled"}]
        /\ destination' \in Artifacts \cup {None} /\ backup' \in [Jobs -> Artifacts \cup {None}]
        /\ dismissed' \in SUBSET Jobs /\ faults' \in 0..MaxFaults
    BY <2>1, FaultsAssumption DEF CompileDoes, TypeOK
  <2> QED
    BY <2>2, <2>3, <2>4, <2>5 DEF TypeOK
<1>7. ASSUME NEW j \in Jobs, Compiled(j) PROVE TypeOK'
  BY <1>7, ArtifactsAssumption, FaultsAssumption, NoneAssumption
     DEF Compiled, MoveWorker, hostVars, fileVars, TypeOK, Artifacts, Traces, Running
<1>8. ASSUME NEW j \in Jobs, Announce(j) PROVE TypeOK'
  <2>1. AnnounceDoes(j)
    BY <1>8, AnnounceEffect
  <2>2. record' \in [Jobs -> Record \cup {None}] /\ journal' \in [Jobs -> Record \cup {None}]
    BY <2>1 DEF AnnounceDoes, Writes, TypeOK
  <2>3. worker' \in [Jobs -> {"none", "new", "compiling", "checked", "announced", "ready",
                           "verified", "moved", "retained", "swapping", "restoring",
                           "published", "failing", "leaving", "ended"}]
    BY <2>1 DEF AnnounceDoes, TypeOK
  <2>4. active' \in SUBSET Jobs /\ \A k \in active' : worker'[k] # "none" /\ record'[k] # None
    BY <2>1, NoneAssumption DEF AnnounceDoes, Writes, SettleFinished, TypeOK
  <2>5. /\ host' \in {"up", "stopping", "down"}
        /\ cause' \in [Jobs -> {"failed", "cancelled"}]
        /\ destination' \in Artifacts \cup {None} /\ backup' \in [Jobs -> Artifacts \cup {None}]
        /\ dismissed' \in SUBSET Jobs /\ faults' \in 0..MaxFaults
    BY <2>1, FaultsAssumption DEF AnnounceDoes, TypeOK
  <2> QED
    BY <2>2, <2>3, <2>4, <2>5 DEF TypeOK
<1>9. ASSUME NEW j \in Jobs, CheckAnnounced(j) PROVE TypeOK'
  BY <1>9, ArtifactsAssumption, FaultsAssumption, NoneAssumption
     DEF CheckAnnounced, Uncancelled, MoveWorker, hostVars, fileVars, TypeOK, Artifacts,
         Traces, Running
<1>10. ASSUME NEW j \in Jobs, NoticeCancel(j) PROVE TypeOK'
  BY <1>10, ArtifactsAssumption, FaultsAssumption, NoneAssumption
     DEF NoticeCancel, Fail, MoveWorker, hostVars, fileVars, TypeOK, Artifacts, Traces,
         Running
<1>11. ASSUME NEW j \in Jobs, Publish(j) PROVE TypeOK'
  BY <1>11, ArtifactsAssumption, FaultsAssumption, NoneAssumption
     DEF Publish, Replacing, Vacant, PublishTo, MoveWorker, hostVars, fileVars, TypeOK,
         Artifacts, Traces, Running
<1>12. ASSUME NEW j \in Jobs, PublishBlocked(j) PROVE TypeOK'
  BY <1>12, ArtifactsAssumption, FaultsAssumption, NoneAssumption
     DEF PublishBlocked, Replacing, Vacant, Fail, MoveWorker, hostVars, fileVars, TypeOK,
         Artifacts, Traces, Running
<1>13. ASSUME NEW j \in Jobs, Verify(j) PROVE TypeOK'
  BY <1>13, ArtifactsAssumption, FaultsAssumption, NoneAssumption
     DEF Verify, Replacing, Fail, MoveWorker, hostVars, fileVars, TypeOK, Artifacts,
         Traces, Running
<1>14. ASSUME NEW j \in Jobs, MoveOriginal(j) PROVE TypeOK'
  BY <1>14, ArtifactsAssumption, FaultsAssumption, NoneAssumption
     DEF MoveOriginal, Fail, MoveWorker, hostVars, fileVars, TypeOK, Artifacts, Traces,
         Running
<1>15. ASSUME NEW j \in Jobs, Retain(j) PROVE TypeOK'
  <2>1. RetainDoes(j)
    BY <1>15, RetainEffect
  <2>2. record' \in [Jobs -> Record \cup {None}] /\ journal' \in [Jobs -> Record \cup {None}]
    BY <2>1 DEF RetainDoes, Writes, TypeOK
  <2>3. worker' \in [Jobs -> {"none", "new", "compiling", "checked", "announced", "ready",
                           "verified", "moved", "retained", "swapping", "restoring",
                           "published", "failing", "leaving", "ended"}]
    BY <2>1 DEF RetainDoes, TypeOK
  <2>4. active' \in SUBSET Jobs /\ \A k \in active' : worker'[k] # "none" /\ record'[k] # None
    BY <2>1, NoneAssumption DEF RetainDoes, Writes, SettleFinished, TypeOK
  <2>5. /\ host' \in {"up", "stopping", "down"}
        /\ cause' \in [Jobs -> {"failed", "cancelled"}]
        /\ destination' \in Artifacts \cup {None} /\ backup' \in [Jobs -> Artifacts \cup {None}]
        /\ dismissed' \in SUBSET Jobs /\ faults' \in 0..MaxFaults
    BY <2>1, FaultsAssumption DEF RetainDoes, TypeOK
  <2> QED
    BY <2>2, <2>3, <2>4, <2>5 DEF TypeOK
<1>16. ASSUME NEW j \in Jobs, CheckRetained(j) PROVE TypeOK'
  BY <1>16, ArtifactsAssumption, FaultsAssumption, NoneAssumption
     DEF CheckRetained, MustRestore, MoveWorker, hostVars, fileVars, TypeOK, Artifacts,
         Traces, Running
<1>17. ASSUME NEW j \in Jobs, Swap(j) PROVE TypeOK'
  BY <1>17, ArtifactsAssumption, FaultsAssumption, NoneAssumption
     DEF Swap, Vacant, PublishTo, MoveWorker, hostVars, fileVars, TypeOK, Artifacts,
         Traces, Running
<1>18. ASSUME NEW j \in Jobs, SwapBlocked(j) PROVE TypeOK'
  BY <1>18, ArtifactsAssumption, FaultsAssumption, NoneAssumption
     DEF SwapBlocked, Vacant, MustRestore, MoveWorker, hostVars, fileVars, TypeOK,
         Artifacts, Traces, Running
<1>19. ASSUME NEW j \in Jobs, Restore(j) PROVE TypeOK'
  <2>1. RestoreDoes(j)
    BY <1>19, RestoreEffect
  <2>2. record' \in [Jobs -> Record \cup {None}] /\ journal' \in [Jobs -> Record \cup {None}]
    BY <2>1 DEF RestoreDoes, Writes, TypeOK
  <2>3. worker' \in [Jobs -> {"none", "new", "compiling", "checked", "announced", "ready",
                           "verified", "moved", "retained", "swapping", "restoring",
                           "published", "failing", "leaving", "ended"}]
    BY <2>1 DEF RestoreDoes, TypeOK
  <2>4. active' \in SUBSET Jobs /\ \A k \in active' : worker'[k] # "none" /\ record'[k] # None
    BY <2>1, NoneAssumption DEF RestoreDoes, Writes, SettleFinished, TypeOK
  <2>5. /\ host' \in {"up", "stopping", "down"}
        /\ cause' \in [Jobs -> {"failed", "cancelled"}]
        /\ destination' \in Artifacts \cup {None} /\ backup' \in [Jobs -> Artifacts \cup {None}]
        /\ dismissed' \in SUBSET Jobs /\ faults' \in 0..MaxFaults
    BY <2>1, FaultsAssumption DEF RestoreDoes, TypeOK
  <2> QED
    BY <2>2, <2>3, <2>4, <2>5 DEF TypeOK
<1>20. ASSUME NEW j \in Jobs, Acknowledge(j) PROVE TypeOK'
  <2>1. AcknowledgeDoes(j)
    BY <1>20, AcknowledgeEffect
  <2>2. record' \in [Jobs -> Record \cup {None}] /\ journal' \in [Jobs -> Record \cup {None}]
    BY <2>1 DEF AcknowledgeDoes, Writes, TypeOK
  <2>3. worker' \in [Jobs -> {"none", "new", "compiling", "checked", "announced", "ready",
                           "verified", "moved", "retained", "swapping", "restoring",
                           "published", "failing", "leaving", "ended"}]
    BY <2>1 DEF AcknowledgeDoes, TypeOK
  <2>4. active' \in SUBSET Jobs /\ \A k \in active' : worker'[k] # "none" /\ record'[k] # None
    BY <2>1, NoneAssumption DEF AcknowledgeDoes, Writes, SettleFinished, TypeOK
  <2>5. /\ host' \in {"up", "stopping", "down"}
        /\ cause' \in [Jobs -> {"failed", "cancelled"}]
        /\ destination' \in Artifacts \cup {None} /\ backup' \in [Jobs -> Artifacts \cup {None}]
        /\ dismissed' \in SUBSET Jobs /\ faults' \in 0..MaxFaults
    BY <2>1, FaultsAssumption DEF AcknowledgeDoes, TypeOK
  <2> QED
    BY <2>2, <2>3, <2>4, <2>5 DEF TypeOK
<1>21. ASSUME NEW j \in Jobs, Conclude(j) PROVE TypeOK'
  <2>1. ConcludeDoes(j)
    BY <1>21, ConcludeEffect
  <2>2. record' \in [Jobs -> Record \cup {None}] /\ journal' \in [Jobs -> Record \cup {None}]
    BY <2>1 DEF ConcludeDoes, Writes, TypeOK
  <2>3. worker' \in [Jobs -> {"none", "new", "compiling", "checked", "announced", "ready",
                           "verified", "moved", "retained", "swapping", "restoring",
                           "published", "failing", "leaving", "ended"}]
    BY <2>1 DEF ConcludeDoes, TypeOK
  <2>4. active' \in SUBSET Jobs /\ \A k \in active' : worker'[k] # "none" /\ record'[k] # None
    BY <2>1, NoneAssumption DEF ConcludeDoes, Writes, SettleFinished, TypeOK
  <2>5. /\ host' \in {"up", "stopping", "down"}
        /\ cause' \in [Jobs -> {"failed", "cancelled"}]
        /\ destination' \in Artifacts \cup {None} /\ backup' \in [Jobs -> Artifacts \cup {None}]
        /\ dismissed' \in SUBSET Jobs /\ faults' \in 0..MaxFaults
    BY <2>1, FaultsAssumption DEF ConcludeDoes, TypeOK
  <2> QED
    BY <2>2, <2>3, <2>4, <2>5 DEF TypeOK
<1>22. ASSUME NEW j \in Jobs, Leave(j) PROVE TypeOK'
  BY <1>22, ArtifactsAssumption, FaultsAssumption, NoneAssumption
     DEF Leave, MoveWorker, hostVars, fileVars, TypeOK, Artifacts, Traces, Running
<1>23. ASSUME NEW j \in Jobs, Break(j) PROVE TypeOK'
  BY <1>23, ArtifactsAssumption, FaultsAssumption, NoneAssumption
     DEF Break, Fail, MoveWorker, hostVars, fileVars, TypeOK, Artifacts, Traces, Running
<1>24. ASSUME NEW j \in Jobs, PanicInCompiler(j) PROVE TypeOK'
  BY <1>24, ArtifactsAssumption, FaultsAssumption, NoneAssumption
     DEF PanicInCompiler, MayFault, MoveWorker, hostVars, fileVars, TypeOK, Artifacts,
         Traces, Running
<1>25. CASE Stop
  BY <1>25, ArtifactsAssumption, FaultsAssumption, NoneAssumption
     DEF Stop, hostVars, fileVars, TypeOK, Artifacts, Traces, Running
<1>26. CASE Joined
  BY <1>26, ArtifactsAssumption, FaultsAssumption, NoneAssumption
     DEF Joined, Down, Running, hostVars, fileVars, TypeOK, Artifacts, Traces
<1>27. CASE Crash
  BY <1>27, ArtifactsAssumption, FaultsAssumption, NoneAssumption
     DEF Crash, Down, Running, MayFault, hostVars, fileVars, TypeOK, Artifacts, Traces
<1>28. CASE Restart
  BY <1>28, ArtifactsAssumption, FaultsAssumption, NoneAssumption
     DEF Restart, hostVars, fileVars, TypeOK, Artifacts, Traces, Running
<1>29. CASE Appear
  BY <1>29, ArtifactsAssumption, FaultsAssumption, NoneAssumption
     DEF Appear, hostVars, fileVars, TypeOK, Artifacts, Traces, Running
<1>30. CASE UNCHANGED vars
  BY <1>30, ArtifactsAssumption, FaultsAssumption, NoneAssumption
     DEF vars, hostVars, fileVars, TypeOK, Artifacts, Traces, Running
<1> QED
  BY <1>1, <1>2, <1>3, <1>4, <1>5, <1>6, <1>7, <1>8, <1>9, <1>10, <1>11, <1>12, <1>13,
     <1>14, <1>15, <1>16, <1>17, <1>18, <1>19, <1>20, <1>21, <1>22, <1>23, <1>24, <1>25,
     <1>26, <1>27, <1>28, <1>29, <1>30
     DEF Next, WorkerStep

LEMMA ExistsStep ==
    ASSUME TypeOK, Traces, Backups, [Next]_vars, NEW x \in Artifacts
    PROVE  Exists(x) => Exists(x)'
<1>1. ASSUME NEW j \in Jobs, NEW a \in Artifacts \cup {None}, Begin(j, a)
             PROVE Exists(x) => Exists(x)'
  BY <1>1, ArtifactsAssumption, FaultsAssumption, NoneAssumption
     DEF Begin, CanBegin, SettleFinished, MayExport, Journalled, MoveWorker, Queued,
         hostVars, fileVars, TypeOK, Exists, Backups, Artifacts, Untouched
<1>2. ASSUME NEW j \in Jobs, NEW a \in Artifacts \cup {None},
             NEW s \in {"queued", "failed"}, BeginWithoutWorker(j, a, s)
             PROVE Exists(x) => Exists(x)'
  BY <1>2, ArtifactsAssumption, FaultsAssumption, NoneAssumption
     DEF BeginWithoutWorker, CanBegin, SettleFinished, ActiveWithoutWorker, MayExport,
         MayFault, Queued, hostVars, fileVars, TypeOK, Exists, Backups, Artifacts, Untouched
<1>3. ASSUME NEW j \in Jobs, Poll(j) PROVE Exists(x) => Exists(x)'
  BY <1>3, ArtifactsAssumption, FaultsAssumption, NoneAssumption
     DEF Poll, SettleFinished, hostVars, fileVars, TypeOK, Exists, Backups, Artifacts,
         Untouched
<1>4. ASSUME NEW j \in Jobs, Cancel(j) PROVE Exists(x) => Exists(x)'
  BY <1>4, ArtifactsAssumption, FaultsAssumption, NoneAssumption
     DEF Cancel, SettleFinished, Journalled, NotJournalled, MayFault, hostVars, fileVars,
         TypeOK, Exists, Backups, Artifacts, Untouched
<1>5. ASSUME NEW j \in Jobs, Reconcile(j) PROVE Exists(x) => Exists(x)'
  BY <1>5, ArtifactsAssumption, FaultsAssumption, NoneAssumption
     DEF Reconcile, SettleFinished, Reconciled, hostVars, fileVars, TypeOK, Exists,
         Backups, Artifacts, Untouched
<1>6. ASSUME NEW j \in Jobs, Compile(j) PROVE Exists(x) => Exists(x)'
  BY <1>6, ArtifactsAssumption, FaultsAssumption, NoneAssumption
     DEF Compile, UpdateTo, Fail, Journalled, NotJournalled, MayFault, MoveWorker,
         hostVars, fileVars, TypeOK, Exists, Backups, Artifacts, Untouched
<1>7. ASSUME NEW j \in Jobs, Compiled(j) PROVE Exists(x) => Exists(x)'
  BY <1>7, ArtifactsAssumption, FaultsAssumption, NoneAssumption
     DEF Compiled, MoveWorker, hostVars, fileVars, TypeOK, Exists, Backups, Artifacts,
         Untouched
<1>8. ASSUME NEW j \in Jobs, Announce(j) PROVE Exists(x) => Exists(x)'
  BY <1>8, ArtifactsAssumption, FaultsAssumption, NoneAssumption
     DEF Announce, AnnounceTo, Publishing, UpdateTo, Fail, Journalled, NotJournalled,
         MayFault, MoveWorker, hostVars, fileVars, TypeOK, Exists, Backups, Artifacts,
         Untouched
<1>9. ASSUME NEW j \in Jobs, CheckAnnounced(j) PROVE Exists(x) => Exists(x)'
  BY <1>9, ArtifactsAssumption, FaultsAssumption, NoneAssumption
     DEF CheckAnnounced, Uncancelled, MoveWorker, hostVars, fileVars, TypeOK, Exists,
         Backups, Artifacts, Untouched
<1>10. ASSUME NEW j \in Jobs, NoticeCancel(j) PROVE Exists(x) => Exists(x)'
  BY <1>10, ArtifactsAssumption, FaultsAssumption, NoneAssumption
     DEF NoticeCancel, Fail, MoveWorker, hostVars, fileVars, TypeOK, Exists, Backups,
         Artifacts, Untouched
<1>11. ASSUME NEW j \in Jobs, Publish(j) PROVE Exists(x) => Exists(x)'
  BY <1>11, ArtifactsAssumption, FaultsAssumption, NoneAssumption
     DEF Publish, Replacing, Vacant, PublishTo, MoveWorker, hostVars, fileVars, TypeOK,
         Exists, Backups, Artifacts, Untouched
<1>12. ASSUME NEW j \in Jobs, PublishBlocked(j) PROVE Exists(x) => Exists(x)'
  BY <1>12, ArtifactsAssumption, FaultsAssumption, NoneAssumption
     DEF PublishBlocked, Replacing, Vacant, Fail, MoveWorker, hostVars, fileVars, TypeOK,
         Exists, Backups, Artifacts, Untouched
<1>13. ASSUME NEW j \in Jobs, Verify(j) PROVE Exists(x) => Exists(x)'
  BY <1>13, ArtifactsAssumption, FaultsAssumption, NoneAssumption
     DEF Verify, Replacing, Fail, MoveWorker, hostVars, fileVars, TypeOK, Exists,
         Backups, Artifacts, Untouched
<1>14. ASSUME NEW j \in Jobs, MoveOriginal(j) PROVE Exists(x) => Exists(x)'
  BY <1>14, ArtifactsAssumption, FaultsAssumption, NoneAssumption
     DEF MoveOriginal, Fail, MoveWorker, hostVars, fileVars, TypeOK, Exists, Backups,
         Artifacts, Untouched
<1>15. ASSUME NEW j \in Jobs, Retain(j) PROVE Exists(x) => Exists(x)'
  BY <1>15, ArtifactsAssumption, FaultsAssumption, NoneAssumption
     DEF Retain, Authorized, MustRestore, Journalled, NotJournalled, MayFault,
         MoveWorker, hostVars, fileVars, TypeOK, Exists, Backups, Artifacts, Untouched
<1>16. ASSUME NEW j \in Jobs, CheckRetained(j) PROVE Exists(x) => Exists(x)'
  BY <1>16, ArtifactsAssumption, FaultsAssumption, NoneAssumption
     DEF CheckRetained, MustRestore, MoveWorker, hostVars, fileVars, TypeOK, Exists,
         Backups, Artifacts, Untouched
<1>17. ASSUME NEW j \in Jobs, Swap(j) PROVE Exists(x) => Exists(x)'
  BY <1>17, ArtifactsAssumption, FaultsAssumption, NoneAssumption
     DEF Swap, Vacant, PublishTo, MoveWorker, hostVars, fileVars, TypeOK, Exists,
         Backups, Artifacts, Untouched
<1>18. ASSUME NEW j \in Jobs, SwapBlocked(j) PROVE Exists(x) => Exists(x)'
  BY <1>18, ArtifactsAssumption, FaultsAssumption, NoneAssumption
     DEF SwapBlocked, Vacant, MustRestore, MoveWorker, hostVars, fileVars, TypeOK,
         Exists, Backups, Artifacts, Untouched
<1>19. ASSUME NEW j \in Jobs, Restore(j) PROVE Exists(x) => Exists(x)'
  <2>1. \/ destination = None /\ destination' = backup[j] /\ backup' = [backup EXCEPT ![j] = None]
        \/ UNCHANGED <<destination, backup>>
    BY <1>19, RestoreEffect DEF RestoreDoes
  <2> QED
    BY <2>1, NoneAssumption DEF TypeOK, Exists, Artifacts
<1>20. ASSUME NEW j \in Jobs, Acknowledge(j) PROVE Exists(x) => Exists(x)'
  BY <1>20, ArtifactsAssumption, FaultsAssumption, NoneAssumption
     DEF Acknowledge, Completed, Fail, Journalled, NotJournalled, MayFault, MoveWorker,
         hostVars, fileVars, TypeOK, Exists, Backups, Artifacts, Untouched
<1>21. ASSUME NEW j \in Jobs, Conclude(j) PROVE Exists(x) => Exists(x)'
  BY <1>21, ArtifactsAssumption, FaultsAssumption, NoneAssumption
     DEF Conclude, Concluded, Completed, Journalled, NotJournalled, MayFault, MoveWorker,
         hostVars, fileVars, TypeOK, Exists, Backups, Artifacts, Untouched
<1>22. ASSUME NEW j \in Jobs, Leave(j) PROVE Exists(x) => Exists(x)'
  BY <1>22, ArtifactsAssumption, FaultsAssumption, NoneAssumption
     DEF Leave, MoveWorker, hostVars, fileVars, TypeOK, Exists, Backups, Artifacts,
         Untouched
<1>23. ASSUME NEW j \in Jobs, Break(j) PROVE Exists(x) => Exists(x)'
  BY <1>23, ArtifactsAssumption, FaultsAssumption, NoneAssumption
     DEF Break, Fail, MoveWorker, hostVars, fileVars, TypeOK, Exists, Backups, Artifacts,
         Untouched
<1>24. ASSUME NEW j \in Jobs, PanicInCompiler(j) PROVE Exists(x) => Exists(x)'
  BY <1>24, ArtifactsAssumption, FaultsAssumption, NoneAssumption
     DEF PanicInCompiler, MayFault, MoveWorker, hostVars, fileVars, TypeOK, Exists,
         Backups, Artifacts, Untouched
<1>25. CASE Stop
  BY <1>25, ArtifactsAssumption, FaultsAssumption, NoneAssumption
     DEF Stop, hostVars, fileVars, TypeOK, Exists, Backups, Artifacts, Untouched
<1>26. CASE Joined
  BY <1>26, ArtifactsAssumption, FaultsAssumption, NoneAssumption
     DEF Joined, Down, Running, hostVars, fileVars, TypeOK, Exists, Backups, Artifacts,
         Untouched
<1>27. CASE Crash
  BY <1>27, ArtifactsAssumption, FaultsAssumption, NoneAssumption
     DEF Crash, Down, Running, MayFault, hostVars, fileVars, TypeOK, Exists, Backups,
         Artifacts, Untouched
<1>28. CASE Restart
  BY <1>28, ArtifactsAssumption, FaultsAssumption, NoneAssumption
     DEF Restart, hostVars, fileVars, TypeOK, Exists, Backups, Artifacts, Untouched
<1>29. CASE Appear
  BY <1>29, ArtifactsAssumption, FaultsAssumption, NoneAssumption
     DEF Appear, hostVars, fileVars, TypeOK, Exists, Backups, Artifacts, Untouched
<1>30. CASE UNCHANGED vars
  BY <1>30, ArtifactsAssumption, FaultsAssumption, NoneAssumption
     DEF vars, hostVars, fileVars, TypeOK, Exists, Backups, Artifacts, Untouched
<1> QED
  BY <1>1, <1>2, <1>3, <1>4, <1>5, <1>6, <1>7, <1>8, <1>9, <1>10, <1>11, <1>12, <1>13,
     <1>14, <1>15, <1>16, <1>17, <1>18, <1>19, <1>20, <1>21, <1>22, <1>23, <1>24, <1>25,
     <1>26, <1>27, <1>28, <1>29, <1>30
     DEF Next, WorkerStep

OwnPublication(k) ==
    /\ worker[k] \in {"ready", "swapping"} /\ worker'[k] = "published"
    /\ worker[k] = "ready" => ~Replacing(k)

LEMMA ExistsByPublication ==
    ASSUME TypeOK, Traces, Backups, [Next]_vars, NEW k \in Jobs, ~Exists(k), Exists(k)'
    PROVE  OwnPublication(k)
<1>1. ASSUME NEW j \in Jobs, NEW a \in Artifacts \cup {None}, Begin(j, a) PROVE OwnPublication(k)
  BY <1>1, ArtifactsAssumption, FaultsAssumption, NoneAssumption
     DEF Begin, CanBegin, SettleFinished, MayExport, Journalled, MoveWorker, Queued,
         hostVars, fileVars, TypeOK, Exists, OwnPublication, Artifacts, Untouched
<1>2. ASSUME NEW j \in Jobs, NEW a \in Artifacts \cup {None},
             NEW s \in {"queued", "failed"}, BeginWithoutWorker(j, a, s) PROVE OwnPublication(k)
  BY <1>2, ArtifactsAssumption, FaultsAssumption, NoneAssumption
     DEF BeginWithoutWorker, CanBegin, SettleFinished, ActiveWithoutWorker, MayExport,
         MayFault, Queued, hostVars, fileVars, TypeOK, Exists, OwnPublication, Artifacts,
         Untouched
<1>3. ASSUME NEW j \in Jobs, Poll(j) PROVE OwnPublication(k)
  BY <1>3, ArtifactsAssumption, FaultsAssumption, NoneAssumption
     DEF Poll, SettleFinished, hostVars, fileVars, TypeOK, Exists, OwnPublication,
         Artifacts, Untouched
<1>4. ASSUME NEW j \in Jobs, Cancel(j) PROVE OwnPublication(k)
  BY <1>4, ArtifactsAssumption, FaultsAssumption, NoneAssumption
     DEF Cancel, SettleFinished, Journalled, NotJournalled, MayFault, hostVars, fileVars,
         TypeOK, Exists, OwnPublication, Artifacts, Untouched
<1>5. ASSUME NEW j \in Jobs, Reconcile(j) PROVE OwnPublication(k)
  BY <1>5, ArtifactsAssumption, FaultsAssumption, NoneAssumption
     DEF Reconcile, SettleFinished, Reconciled, hostVars, fileVars, TypeOK, Exists,
         OwnPublication, Artifacts, Untouched
<1>6. ASSUME NEW j \in Jobs, Compile(j) PROVE OwnPublication(k)
  BY <1>6, ArtifactsAssumption, FaultsAssumption, NoneAssumption
     DEF Compile, UpdateTo, Fail, Journalled, NotJournalled, MayFault, MoveWorker,
         hostVars, fileVars, TypeOK, Exists, OwnPublication, Artifacts, Untouched
<1>7. ASSUME NEW j \in Jobs, Compiled(j) PROVE OwnPublication(k)
  BY <1>7, ArtifactsAssumption, FaultsAssumption, NoneAssumption
     DEF Compiled, MoveWorker, hostVars, fileVars, TypeOK, Exists, OwnPublication,
         Artifacts, Untouched
<1>8. ASSUME NEW j \in Jobs, Announce(j) PROVE OwnPublication(k)
  BY <1>8, ArtifactsAssumption, FaultsAssumption, NoneAssumption
     DEF Announce, AnnounceTo, Publishing, UpdateTo, Fail, Journalled, NotJournalled,
         MayFault, MoveWorker, hostVars, fileVars, TypeOK, Exists, OwnPublication, Artifacts,
         Untouched
<1>9. ASSUME NEW j \in Jobs, CheckAnnounced(j) PROVE OwnPublication(k)
  BY <1>9, ArtifactsAssumption, FaultsAssumption, NoneAssumption
     DEF CheckAnnounced, Uncancelled, MoveWorker, hostVars, fileVars, TypeOK, Exists,
         OwnPublication, Artifacts, Untouched
<1>10. ASSUME NEW j \in Jobs, NoticeCancel(j) PROVE OwnPublication(k)
  BY <1>10, ArtifactsAssumption, FaultsAssumption, NoneAssumption
     DEF NoticeCancel, Fail, MoveWorker, hostVars, fileVars, TypeOK, Exists,
         OwnPublication, Artifacts, Untouched
<1>11. ASSUME NEW j \in Jobs, Publish(j) PROVE OwnPublication(k)
  BY <1>11, ArtifactsAssumption, FaultsAssumption, NoneAssumption
     DEF Publish, Replacing, Vacant, PublishTo, MoveWorker, hostVars, fileVars, TypeOK,
         Exists, OwnPublication, Artifacts, Untouched
<1>12. ASSUME NEW j \in Jobs, PublishBlocked(j) PROVE OwnPublication(k)
  BY <1>12, ArtifactsAssumption, FaultsAssumption, NoneAssumption
     DEF PublishBlocked, Replacing, Vacant, Fail, MoveWorker, hostVars, fileVars, TypeOK,
         Exists, OwnPublication, Artifacts, Untouched
<1>13. ASSUME NEW j \in Jobs, Verify(j) PROVE OwnPublication(k)
  BY <1>13, ArtifactsAssumption, FaultsAssumption, NoneAssumption
     DEF Verify, Replacing, Fail, MoveWorker, hostVars, fileVars, TypeOK, Exists,
         OwnPublication, Artifacts, Untouched
<1>14. ASSUME NEW j \in Jobs, MoveOriginal(j) PROVE OwnPublication(k)
  BY <1>14, ArtifactsAssumption, FaultsAssumption, NoneAssumption
     DEF MoveOriginal, Fail, MoveWorker, hostVars, fileVars, TypeOK, Exists,
         OwnPublication, Artifacts, Untouched
<1>15. ASSUME NEW j \in Jobs, Retain(j) PROVE OwnPublication(k)
  BY <1>15, ArtifactsAssumption, FaultsAssumption, NoneAssumption
     DEF Retain, Authorized, MustRestore, Journalled, NotJournalled, MayFault,
         MoveWorker, hostVars, fileVars, TypeOK, Exists, OwnPublication, Artifacts, Untouched
<1>16. ASSUME NEW j \in Jobs, CheckRetained(j) PROVE OwnPublication(k)
  BY <1>16, ArtifactsAssumption, FaultsAssumption, NoneAssumption
     DEF CheckRetained, MustRestore, MoveWorker, hostVars, fileVars, TypeOK, Exists,
         OwnPublication, Artifacts, Untouched
<1>17. ASSUME NEW j \in Jobs, Swap(j) PROVE OwnPublication(k)
  BY <1>17, ArtifactsAssumption, FaultsAssumption, NoneAssumption
     DEF Swap, Vacant, PublishTo, MoveWorker, hostVars, fileVars, TypeOK, Exists,
         OwnPublication, Artifacts, Untouched
<1>18. ASSUME NEW j \in Jobs, SwapBlocked(j) PROVE OwnPublication(k)
  BY <1>18, ArtifactsAssumption, FaultsAssumption, NoneAssumption
     DEF SwapBlocked, Vacant, MustRestore, MoveWorker, hostVars, fileVars, TypeOK,
         Exists, OwnPublication, Artifacts, Untouched
<1>19. ASSUME NEW j \in Jobs, Restore(j) PROVE OwnPublication(k)
  BY <1>19, ArtifactsAssumption, FaultsAssumption, NoneAssumption
     DEF Restore, Vacant, AfterRestore, Fail, Journalled, NotJournalled, MayFault,
         MoveWorker, hostVars, fileVars, TypeOK, Exists, OwnPublication, Artifacts, Untouched
<1>20. ASSUME NEW j \in Jobs, Acknowledge(j) PROVE OwnPublication(k)
  BY <1>20, ArtifactsAssumption, FaultsAssumption, NoneAssumption
     DEF Acknowledge, Completed, Fail, Journalled, NotJournalled, MayFault, MoveWorker,
         hostVars, fileVars, TypeOK, Exists, OwnPublication, Artifacts, Untouched
<1>21. ASSUME NEW j \in Jobs, Conclude(j) PROVE OwnPublication(k)
  BY <1>21, ArtifactsAssumption, FaultsAssumption, NoneAssumption
     DEF Conclude, Concluded, Completed, Journalled, NotJournalled, MayFault, MoveWorker,
         hostVars, fileVars, TypeOK, Exists, OwnPublication, Artifacts, Untouched
<1>22. ASSUME NEW j \in Jobs, Leave(j) PROVE OwnPublication(k)
  BY <1>22, ArtifactsAssumption, FaultsAssumption, NoneAssumption
     DEF Leave, MoveWorker, hostVars, fileVars, TypeOK, Exists, OwnPublication,
         Artifacts, Untouched
<1>23. ASSUME NEW j \in Jobs, Break(j) PROVE OwnPublication(k)
  BY <1>23, ArtifactsAssumption, FaultsAssumption, NoneAssumption
     DEF Break, Fail, MoveWorker, hostVars, fileVars, TypeOK, Exists, OwnPublication,
         Artifacts, Untouched
<1>24. ASSUME NEW j \in Jobs, PanicInCompiler(j) PROVE OwnPublication(k)
  BY <1>24, ArtifactsAssumption, FaultsAssumption, NoneAssumption
     DEF PanicInCompiler, MayFault, MoveWorker, hostVars, fileVars, TypeOK, Exists,
         OwnPublication, Artifacts, Untouched
<1>25. CASE Stop
  BY <1>25, ArtifactsAssumption, FaultsAssumption, NoneAssumption
     DEF Stop, hostVars, fileVars, TypeOK, Exists, OwnPublication, Artifacts, Untouched
<1>26. CASE Joined
  BY <1>26, ArtifactsAssumption, FaultsAssumption, NoneAssumption
     DEF Joined, Down, Running, hostVars, fileVars, TypeOK, Exists, OwnPublication,
         Artifacts, Untouched
<1>27. CASE Crash
  BY <1>27, ArtifactsAssumption, FaultsAssumption, NoneAssumption
     DEF Crash, Down, Running, MayFault, hostVars, fileVars, TypeOK, Exists,
         OwnPublication, Artifacts, Untouched
<1>28. CASE Restart
  BY <1>28, ArtifactsAssumption, FaultsAssumption, NoneAssumption
     DEF Restart, hostVars, fileVars, TypeOK, Exists, OwnPublication, Artifacts,
         Untouched
<1>29. CASE Appear
  BY <1>29, ArtifactsAssumption, FaultsAssumption, NoneAssumption
     DEF Appear, hostVars, fileVars, TypeOK, Exists, OwnPublication, Artifacts, Untouched
<1>30. CASE UNCHANGED vars
  BY <1>30, ArtifactsAssumption, FaultsAssumption, NoneAssumption
     DEF vars, hostVars, fileVars, TypeOK, Exists, OwnPublication, Artifacts, Untouched
<1> QED
  BY <1>1, <1>2, <1>3, <1>4, <1>5, <1>6, <1>7, <1>8, <1>9, <1>10, <1>11, <1>12, <1>13,
     <1>14, <1>15, <1>16, <1>17, <1>18, <1>19, <1>20, <1>21, <1>22, <1>23, <1>24, <1>25,
     <1>26, <1>27, <1>28, <1>29, <1>30
     DEF Next, WorkerStep

LEMMA TracesStep ==
    ASSUME IInv, [Next]_vars
    PROVE  Traces'
<1> USE DEF IInv
<1>a. \A k \in Jobs : Exists(k) => Exists(k)'
  BY ExistsStep DEF Artifacts
<1>b. \A k \in Jobs : Exists(k)' => Exists(k) \/ OwnPublication(k)
  BY ExistsByPublication
<1>1. ASSUME NEW j \in Jobs, NEW a \in Artifacts \cup {None}, Begin(j, a) PROVE Traces'
  <2>1. BeginDoes(j, a)
    BY <1>1, BeginEffect
  <2> QED
    BY <2>1, <1>a, <1>b, NoneAssumption
       DEF BeginDoes, Begins, SettleFinished, Traces, TypeOK, Running, OwnPublication
<1>2. ASSUME NEW j \in Jobs, NEW a \in Artifacts \cup {None},
             NEW s \in {"queued", "failed"}, BeginWithoutWorker(j, a, s) PROVE Traces'
  <2>1. BeginWithoutWorkerDoes(j, a, s)
    BY <1>2, BeginWithoutWorkerEffect
  <2> QED
    BY <2>1, <1>a, <1>b, NoneAssumption
       DEF BeginWithoutWorkerDoes, Begins, SettleFinished, Traces, TypeOK, Running,
           OwnPublication
<1>3. ASSUME NEW j \in Jobs, Poll(j) PROVE Traces'
  BY <1>3, <1>a, <1>b, NoneAssumption
     DEF Poll, SettleFinished, hostVars, fileVars, Traces, TypeOK, Running,
         OwnPublication
<1>4. ASSUME NEW j \in Jobs, Cancel(j) PROVE Traces'
  <2>1. CancelDoes(j)
    BY <1>4, CancelEffect
  <2> QED
    BY <2>1, <1>a, <1>b, NoneAssumption
       DEF CancelDoes, SettleFinished, IsTerminal, Terminal, Phases, Record, Writes,
           IsNow, Traces, TypeOK, Running, OwnPublication
<1>5. ASSUME NEW j \in Jobs, Reconcile(j) PROVE Traces'
  <2>1. ReconcileDoes(j)
    BY <1>5, ReconcileEffect
  <2> QED
    BY <2>1, <1>a, <1>b, NoneAssumption
       DEF ReconcileDoes, SettleFinished, IsTerminal, Terminal, Phases, Record, Traces,
           TypeOK, Running, OwnPublication
<1>6. ASSUME NEW j \in Jobs, Compile(j) PROVE Traces'
  <2>1. CompileDoes(j)
    BY <1>6, CompileEffect
  <2> QED
    BY <2>1, <1>a, <1>b, NoneAssumption
       DEF CompileDoes, Writes, IsNow, Traces, TypeOK, Running, OwnPublication
<1>7. ASSUME NEW j \in Jobs, Compiled(j) PROVE Traces'
  BY <1>7, <1>a, <1>b, NoneAssumption
     DEF Compiled, MoveWorker, hostVars, fileVars, Traces, TypeOK, Running,
         OwnPublication
<1>8. ASSUME NEW j \in Jobs, Announce(j) PROVE Traces'
  <2>1. AnnounceDoes(j)
    BY <1>8, AnnounceEffect
  <2> QED
    BY <2>1, <1>a, <1>b, NoneAssumption
       DEF AnnounceDoes, Writes, IsNow, Traces, TypeOK, Running, OwnPublication
<1>9. ASSUME NEW j \in Jobs, CheckAnnounced(j) PROVE Traces'
  BY <1>9, <1>a, <1>b, NoneAssumption
     DEF CheckAnnounced, Uncancelled, MoveWorker, hostVars, fileVars, Traces, TypeOK,
         Running, OwnPublication
<1>10. ASSUME NEW j \in Jobs, NoticeCancel(j) PROVE Traces'
  BY <1>10, <1>a, <1>b, NoneAssumption
     DEF NoticeCancel, Fail, MoveWorker, hostVars, fileVars, Traces, TypeOK, Running,
         OwnPublication
<1>11. ASSUME NEW j \in Jobs, Publish(j) PROVE Traces'
  BY <1>11, <1>a, <1>b, NoneAssumption
     DEF Publish, Replacing, Vacant, PublishTo, MoveWorker, hostVars, fileVars, Traces,
         TypeOK, Running, OwnPublication
<1>12. ASSUME NEW j \in Jobs, PublishBlocked(j) PROVE Traces'
  BY <1>12, <1>a, <1>b, NoneAssumption
     DEF PublishBlocked, Replacing, Vacant, Fail, MoveWorker, hostVars, fileVars, Traces,
         TypeOK, Running, OwnPublication
<1>13. ASSUME NEW j \in Jobs, Verify(j) PROVE Traces'
  BY <1>13, <1>a, <1>b, NoneAssumption
     DEF Verify, Replacing, Fail, MoveWorker, hostVars, fileVars, Traces, TypeOK,
         Running, OwnPublication
<1>14. ASSUME NEW j \in Jobs, MoveOriginal(j) PROVE Traces'
  BY <1>14, <1>a, <1>b, NoneAssumption
     DEF MoveOriginal, Fail, MoveWorker, hostVars, fileVars, Traces, TypeOK, Running,
         OwnPublication
<1>15. ASSUME NEW j \in Jobs, Retain(j) PROVE Traces'
  <2>1. RetainDoes(j)
    BY <1>15, RetainEffect
  <2> QED
    BY <2>1, <1>a, <1>b, NoneAssumption
       DEF RetainDoes, Writes, IsNow, Traces, TypeOK, Running, OwnPublication
<1>16. ASSUME NEW j \in Jobs, CheckRetained(j) PROVE Traces'
  BY <1>16, <1>a, <1>b, NoneAssumption
     DEF CheckRetained, MustRestore, MoveWorker, hostVars, fileVars, Traces, TypeOK,
         Running, OwnPublication
<1>17. ASSUME NEW j \in Jobs, Swap(j) PROVE Traces'
  BY <1>17, <1>a, <1>b, NoneAssumption
     DEF Swap, Vacant, PublishTo, MoveWorker, hostVars, fileVars, Traces, TypeOK,
         Running, OwnPublication
<1>18. ASSUME NEW j \in Jobs, SwapBlocked(j) PROVE Traces'
  BY <1>18, <1>a, <1>b, NoneAssumption
     DEF SwapBlocked, Vacant, MustRestore, MoveWorker, hostVars, fileVars, Traces,
         TypeOK, Running, OwnPublication
<1>19. ASSUME NEW j \in Jobs, Restore(j) PROVE Traces'
  <2>1. RestoreDoes(j)
    BY <1>19, RestoreEffect
  <2> QED
    BY <2>1, <1>a, <1>b, NoneAssumption
       DEF RestoreDoes, Writes, IsNow, Traces, TypeOK, Running, OwnPublication
<1>20. ASSUME NEW j \in Jobs, Acknowledge(j) PROVE Traces'
  <2>1. AcknowledgeDoes(j)
    BY <1>20, AcknowledgeEffect
  <2> QED
    BY <2>1, <1>a, <1>b, NoneAssumption
       DEF AcknowledgeDoes, Writes, IsNow, Traces, TypeOK, Running, OwnPublication
<1>21. ASSUME NEW j \in Jobs, Conclude(j) PROVE Traces'
  <2>1. ConcludeDoes(j)
    BY <1>21, ConcludeEffect
  <2> QED
    BY <2>1, <1>a, <1>b, NoneAssumption
       DEF ConcludeDoes, Writes, IsNow, Traces, TypeOK, Running, OwnPublication
<1>22. ASSUME NEW j \in Jobs, Leave(j) PROVE Traces'
  BY <1>22, <1>a, <1>b, NoneAssumption
     DEF Leave, MoveWorker, hostVars, fileVars, Traces, TypeOK, Running, OwnPublication
<1>23. ASSUME NEW j \in Jobs, Break(j) PROVE Traces'
  BY <1>23, <1>a, <1>b, NoneAssumption
     DEF Break, Fail, MoveWorker, hostVars, fileVars, Traces, TypeOK, Running,
         OwnPublication
<1>24. ASSUME NEW j \in Jobs, PanicInCompiler(j) PROVE Traces'
  BY <1>24, <1>a, <1>b, NoneAssumption
     DEF PanicInCompiler, MayFault, MoveWorker, hostVars, fileVars, Traces, TypeOK,
         Running, OwnPublication
<1>25. CASE Stop
  BY <1>25, <1>a, <1>b, NoneAssumption
     DEF Stop, hostVars, fileVars, Traces, TypeOK, Running, OwnPublication
<1>26. CASE Joined
  BY <1>26, <1>a, <1>b, NoneAssumption
     DEF Joined, Down, Running, hostVars, fileVars, Traces, TypeOK, OwnPublication
<1>27. CASE Crash
  BY <1>27, <1>a, <1>b, NoneAssumption
     DEF Crash, Down, Running, MayFault, hostVars, fileVars, Traces, TypeOK,
         OwnPublication
<1>28. CASE Restart
  BY <1>28, <1>a, <1>b, NoneAssumption
     DEF Restart, hostVars, fileVars, Traces, TypeOK, Running, OwnPublication
<1>29. CASE Appear
  BY <1>29, <1>a, <1>b, NoneAssumption
     DEF Appear, hostVars, fileVars, Traces, TypeOK, Running, OwnPublication
<1>30. CASE UNCHANGED vars
  BY <1>30, <1>a, <1>b, NoneAssumption
     DEF vars, hostVars, fileVars, Traces, TypeOK, Running, OwnPublication
<1> QED
  BY <1>1, <1>2, <1>3, <1>4, <1>5, <1>6, <1>7, <1>8, <1>9, <1>10, <1>11, <1>12, <1>13,
     <1>14, <1>15, <1>16, <1>17, <1>18, <1>19, <1>20, <1>21, <1>22, <1>23, <1>24, <1>25,
     <1>26, <1>27, <1>28, <1>29, <1>30
     DEF Next, WorkerStep

LEMMA RecordsStep ==
    ASSUME IInv, [Next]_vars
    PROVE  Records'
<1> USE DEF IInv
<1>a. \A k \in Jobs : Exists(k) => Exists(k)'
  BY ExistsStep DEF Artifacts
<1>b. \A k \in Jobs : Exists(k)' => Exists(k) \/ OwnPublication(k)
  BY ExistsByPublication
<1>1. ASSUME NEW j \in Jobs, NEW a \in Artifacts \cup {None}, Begin(j, a) PROVE Records'
  <2>1. BeginDoes(j, a)
    BY <1>1, BeginEffect
  <2> QED
    BY <2>1, <1>a, <1>b, NoneAssumption
       DEF BeginDoes, Begins, SettleFinished, Records, Traces, TypeOK, Running,
           IsTerminal, Terminal, Live, Announced, Record, Phases
<1>2. ASSUME NEW j \in Jobs, NEW a \in Artifacts \cup {None},
             NEW s \in {"queued", "failed"}, BeginWithoutWorker(j, a, s) PROVE Records'
  <2>1. BeginWithoutWorkerDoes(j, a, s)
    BY <1>2, BeginWithoutWorkerEffect
  <2> QED
    BY <2>1, <1>a, <1>b, NoneAssumption
       DEF BeginWithoutWorkerDoes, Begins, SettleFinished, Records, Traces, TypeOK,
           Running, IsTerminal, Terminal, Live, Announced, Record, Phases
<1>3. ASSUME NEW j \in Jobs, Poll(j) PROVE Records'
  BY <1>3, <1>a, <1>b, NoneAssumption
     DEF Poll, SettleFinished, hostVars, fileVars, Records, Traces, TypeOK, Running,
         IsTerminal, Terminal, Live, Announced, Record, Phases
<1>4. ASSUME NEW j \in Jobs, Cancel(j) PROVE Records'
  <2>1. CancelDoes(j)
    BY <1>4, CancelEffect
  <2> QED
    BY <2>1, <1>a, <1>b, NoneAssumption
       DEF CancelDoes, SettleFinished, IsTerminal, Terminal, Phases, Record, Writes,
           IsNow, Records, Traces, TypeOK, Running, Live, Announced
<1>5. ASSUME NEW j \in Jobs, Reconcile(j) PROVE Records'
  <2>1. ReconcileDoes(j)
    BY <1>5, ReconcileEffect
  <2> QED
    BY <2>1, <1>a, <1>b, NoneAssumption
       DEF ReconcileDoes, SettleFinished, IsTerminal, Terminal, Phases, Record, Records,
           Traces, TypeOK, Running, Live, Announced
<1>6. ASSUME NEW j \in Jobs, Compile(j) PROVE Records'
  <2>1. CompileDoes(j)
    BY <1>6, CompileEffect
  <2> QED
    BY <2>1, <1>a, <1>b, NoneAssumption
       DEF CompileDoes, Writes, IsNow, Records, Traces, TypeOK, Running, IsTerminal,
           Terminal, Live, Announced, Record, Phases
<1>7. ASSUME NEW j \in Jobs, Compiled(j) PROVE Records'
  BY <1>7, <1>a, <1>b, NoneAssumption
     DEF Compiled, MoveWorker, hostVars, fileVars, Records, Traces, TypeOK, Running,
         IsTerminal, Terminal, Live, Announced, Record, Phases
<1>8. ASSUME NEW j \in Jobs, Announce(j) PROVE Records'
  <2>1. AnnounceDoes(j)
    BY <1>8, AnnounceEffect
  <2> QED
    BY <2>1, <1>a, <1>b, NoneAssumption
       DEF AnnounceDoes, Writes, IsNow, Records, Traces, TypeOK, Running, IsTerminal,
           Terminal, Live, Announced, Record, Phases
<1>9. ASSUME NEW j \in Jobs, CheckAnnounced(j) PROVE Records'
  BY <1>9, <1>a, <1>b, NoneAssumption
     DEF CheckAnnounced, Uncancelled, MoveWorker, hostVars, fileVars, Records, Traces,
         TypeOK, Running, IsTerminal, Terminal, Live, Announced, Record, Phases
<1>10. ASSUME NEW j \in Jobs, NoticeCancel(j) PROVE Records'
  BY <1>10, <1>a, <1>b, NoneAssumption
     DEF NoticeCancel, Fail, MoveWorker, hostVars, fileVars, Records, Traces, TypeOK,
         Running, IsTerminal, Terminal, Live, Announced, Record, Phases
<1>11. ASSUME NEW j \in Jobs, Publish(j) PROVE Records'
  BY <1>11, <1>a, <1>b, NoneAssumption
     DEF Publish, Replacing, Vacant, PublishTo, MoveWorker, hostVars, fileVars, Records,
         Traces, TypeOK, Running, IsTerminal, Terminal, Live, Announced, Record, Phases
<1>12. ASSUME NEW j \in Jobs, PublishBlocked(j) PROVE Records'
  BY <1>12, <1>a, <1>b, NoneAssumption
     DEF PublishBlocked, Replacing, Vacant, Fail, MoveWorker, hostVars, fileVars,
         Records, Traces, TypeOK, Running, IsTerminal, Terminal, Live, Announced, Record,
         Phases
<1>13. ASSUME NEW j \in Jobs, Verify(j) PROVE Records'
  BY <1>13, <1>a, <1>b, NoneAssumption
     DEF Verify, Replacing, Fail, MoveWorker, hostVars, fileVars, Records, Traces,
         TypeOK, Running, IsTerminal, Terminal, Live, Announced, Record, Phases
<1>14. ASSUME NEW j \in Jobs, MoveOriginal(j) PROVE Records'
  BY <1>14, <1>a, <1>b, NoneAssumption
     DEF MoveOriginal, Fail, MoveWorker, hostVars, fileVars, Records, Traces, TypeOK,
         Running, IsTerminal, Terminal, Live, Announced, Record, Phases
<1>15. ASSUME NEW j \in Jobs, Retain(j) PROVE Records'
  <2>1. RetainDoes(j)
    BY <1>15, RetainEffect
  <2> QED
    BY <2>1, <1>a, <1>b, NoneAssumption
       DEF RetainDoes, Writes, IsNow, Records, Traces, TypeOK, Running, IsTerminal,
           Terminal, Live, Announced, Record, Phases
<1>16. ASSUME NEW j \in Jobs, CheckRetained(j) PROVE Records'
  BY <1>16, <1>a, <1>b, NoneAssumption
     DEF CheckRetained, MustRestore, MoveWorker, hostVars, fileVars, Records, Traces,
         TypeOK, Running, IsTerminal, Terminal, Live, Announced, Record, Phases
<1>17. ASSUME NEW j \in Jobs, Swap(j) PROVE Records'
  BY <1>17, <1>a, <1>b, NoneAssumption
     DEF Swap, Vacant, PublishTo, MoveWorker, hostVars, fileVars, Records, Traces,
         TypeOK, Running, IsTerminal, Terminal, Live, Announced, Record, Phases
<1>18. ASSUME NEW j \in Jobs, SwapBlocked(j) PROVE Records'
  BY <1>18, <1>a, <1>b, NoneAssumption
     DEF SwapBlocked, Vacant, MustRestore, MoveWorker, hostVars, fileVars, Records,
         Traces, TypeOK, Running, IsTerminal, Terminal, Live, Announced, Record, Phases
<1>19. ASSUME NEW j \in Jobs, Restore(j) PROVE Records'
  <2>1. RestoreDoes(j)
    BY <1>19, RestoreEffect
  <2> QED
    BY <2>1, <1>a, <1>b, NoneAssumption
       DEF RestoreDoes, Writes, IsNow, Records, Traces, TypeOK, Running, IsTerminal,
           Terminal, Live, Announced, Record, Phases
<1>20. ASSUME NEW j \in Jobs, Acknowledge(j) PROVE Records'
  <2>1. AcknowledgeDoes(j)
    BY <1>20, AcknowledgeEffect
  <2> QED
    BY <2>1, <1>a, <1>b, NoneAssumption
       DEF AcknowledgeDoes, Writes, IsNow, Records, Traces, TypeOK, Running, IsTerminal,
           Terminal, Live, Announced, Record, Phases
<1>21. ASSUME NEW j \in Jobs, Conclude(j) PROVE Records'
  <2>1. ConcludeDoes(j)
    BY <1>21, ConcludeEffect
  <2> QED
    BY <2>1, <1>a, <1>b, NoneAssumption
       DEF ConcludeDoes, Writes, IsNow, Records, Traces, TypeOK, Running, IsTerminal,
           Terminal, Live, Announced, Record, Phases
<1>22. ASSUME NEW j \in Jobs, Leave(j) PROVE Records'
  BY <1>22, <1>a, <1>b, NoneAssumption
     DEF Leave, MoveWorker, hostVars, fileVars, Records, Traces, TypeOK, Running,
         IsTerminal, Terminal, Live, Announced, Record, Phases
<1>23. ASSUME NEW j \in Jobs, Break(j) PROVE Records'
  BY <1>23, <1>a, <1>b, NoneAssumption
     DEF Break, Fail, MoveWorker, hostVars, fileVars, Records, Traces, TypeOK, Running,
         IsTerminal, Terminal, Live, Announced, Record, Phases
<1>24. ASSUME NEW j \in Jobs, PanicInCompiler(j) PROVE Records'
  BY <1>24, <1>a, <1>b, NoneAssumption
     DEF PanicInCompiler, MayFault, MoveWorker, hostVars, fileVars, Records, Traces,
         TypeOK, Running, IsTerminal, Terminal, Live, Announced, Record, Phases
<1>25. CASE Stop
  BY <1>25, <1>a, <1>b, NoneAssumption
     DEF Stop, hostVars, fileVars, Records, Traces, TypeOK, Running, IsTerminal,
         Terminal, Live, Announced, Record, Phases
<1>26. CASE Joined
  BY <1>26, <1>a, <1>b, NoneAssumption
     DEF Joined, Down, Running, hostVars, fileVars, Records, Traces, TypeOK, IsTerminal,
         Terminal, Live, Announced, Record, Phases
<1>27. CASE Crash
  BY <1>27, <1>a, <1>b, NoneAssumption
     DEF Crash, Down, Running, MayFault, hostVars, fileVars, Records, Traces, TypeOK,
         IsTerminal, Terminal, Live, Announced, Record, Phases
<1>28. CASE Restart
  BY <1>28, <1>a, <1>b, NoneAssumption
     DEF Restart, hostVars, fileVars, Records, Traces, TypeOK, Running, IsTerminal,
         Terminal, Live, Announced, Record, Phases
<1>29. CASE Appear
  BY <1>29, <1>a, <1>b, NoneAssumption
     DEF Appear, hostVars, fileVars, Records, Traces, TypeOK, Running, IsTerminal,
         Terminal, Live, Announced, Record, Phases
<1>30. CASE UNCHANGED vars
  BY <1>30, <1>a, <1>b, NoneAssumption
     DEF vars, hostVars, fileVars, Records, Traces, TypeOK, Running, IsTerminal,
         Terminal, Live, Announced, Record, Phases
<1> QED
  BY <1>1, <1>2, <1>3, <1>4, <1>5, <1>6, <1>7, <1>8, <1>9, <1>10, <1>11, <1>12, <1>13,
     <1>14, <1>15, <1>16, <1>17, <1>18, <1>19, <1>20, <1>21, <1>22, <1>23, <1>24, <1>25,
     <1>26, <1>27, <1>28, <1>29, <1>30
     DEF Next, WorkerStep

LEMMA PublishedStep ==
    ASSUME IInv, [Next]_vars
    PROVE  Published'
<1> USE DEF IInv
<1>a. \A k \in Jobs : Exists(k) => Exists(k)'
  BY ExistsStep DEF Artifacts
<1>b. \A k \in Jobs : Exists(k)' => Exists(k) \/ OwnPublication(k)
  BY ExistsByPublication
<1>1. ASSUME NEW j \in Jobs, NEW a \in Artifacts \cup {None}, Begin(j, a) PROVE Published'
  <2>1. BeginDoes(j, a)
    BY <1>1, BeginEffect
  <2> QED
    BY <2>1, <1>a, <1>b, NoneAssumption
       DEF BeginDoes, Begins, SettleFinished, Published, Records, Traces, TypeOK,
           OwnPublication, Running, Live, Announced
<1>2. ASSUME NEW j \in Jobs, NEW a \in Artifacts \cup {None},
             NEW s \in {"queued", "failed"}, BeginWithoutWorker(j, a, s) PROVE Published'
  <2>1. BeginWithoutWorkerDoes(j, a, s)
    BY <1>2, BeginWithoutWorkerEffect
  <2> QED
    BY <2>1, <1>a, <1>b, NoneAssumption
       DEF BeginWithoutWorkerDoes, Begins, SettleFinished, Published, Records, Traces,
           TypeOK, OwnPublication, Running, Live, Announced
<1>3. ASSUME NEW j \in Jobs, Poll(j) PROVE Published'
  BY <1>3, <1>a, <1>b, NoneAssumption
     DEF Poll, SettleFinished, hostVars, fileVars, Published, Records, Traces, TypeOK,
         OwnPublication, Running, Live, Announced
<1>4. ASSUME NEW j \in Jobs, Cancel(j) PROVE Published'
  <2>1. CancelDoes(j)
    BY <1>4, CancelEffect
  <2> QED
    BY <2>1, <1>a, <1>b, NoneAssumption
       DEF CancelDoes, SettleFinished, IsTerminal, Terminal, Phases, Record, Writes,
           IsNow, Published, Records, Traces, TypeOK, OwnPublication, Running, Live,
           Announced
<1>5. ASSUME NEW j \in Jobs, Reconcile(j) PROVE Published'
  <2>1. ReconcileDoes(j)
    BY <1>5, ReconcileEffect
  <2> QED
    BY <2>1, <1>a, <1>b, NoneAssumption
       DEF ReconcileDoes, SettleFinished, IsTerminal, Terminal, Phases, Record,
           Published, Records, Traces, TypeOK, OwnPublication, Running, Live, Announced
<1>6. ASSUME NEW j \in Jobs, Compile(j) PROVE Published'
  <2>1. CompileDoes(j)
    BY <1>6, CompileEffect
  <2> QED
    BY <2>1, <1>a, <1>b, NoneAssumption
       DEF CompileDoes, Writes, IsNow, Published, Records, Traces, TypeOK,
           OwnPublication, Running, Live, Announced
<1>7. ASSUME NEW j \in Jobs, Compiled(j) PROVE Published'
  BY <1>7, <1>a, <1>b, NoneAssumption
     DEF Compiled, MoveWorker, hostVars, fileVars, Published, Records, Traces, TypeOK,
         OwnPublication, Running, Live, Announced
<1>8. ASSUME NEW j \in Jobs, Announce(j) PROVE Published'
  <2>1. AnnounceDoes(j)
    BY <1>8, AnnounceEffect
  <2> QED
    BY <2>1, <1>a, <1>b, NoneAssumption
       DEF AnnounceDoes, Writes, IsNow, Published, Records, Traces, TypeOK,
           OwnPublication, Running, Live, Announced
<1>9. ASSUME NEW j \in Jobs, CheckAnnounced(j) PROVE Published'
  BY <1>9, <1>a, <1>b, NoneAssumption
     DEF CheckAnnounced, Uncancelled, MoveWorker, hostVars, fileVars, Published, Records,
         Traces, TypeOK, OwnPublication, Running, Live, Announced
<1>10. ASSUME NEW j \in Jobs, NoticeCancel(j) PROVE Published'
  BY <1>10, <1>a, <1>b, NoneAssumption
     DEF NoticeCancel, Fail, MoveWorker, hostVars, fileVars, Published, Records, Traces,
         TypeOK, OwnPublication, Running, Live, Announced
<1>11. ASSUME NEW j \in Jobs, Publish(j) PROVE Published'
  <2>1. Exists(j)'
    BY <1>11 DEF Publish, PublishTo, Exists
  <2>2. /\ worker[j] \in Announced
        /\ journal[j].committed = "unknown" /\ record[j].committed = "unknown"
    BY <1>11 DEF Publish, Records, Traces, Running, Announced
  <2>3. UNCHANGED <<record, journal>> /\ worker' = [worker EXCEPT ![j] = "published"]
    BY <1>11 DEF Publish, PublishTo, MoveWorker
  <2> QED
    BY <2>1, <2>2, <2>3, <1>a, <1>b DEF Published, TypeOK, OwnPublication
<1>12. ASSUME NEW j \in Jobs, PublishBlocked(j) PROVE Published'
  BY <1>12, <1>a, <1>b, NoneAssumption
     DEF PublishBlocked, Replacing, Vacant, Fail, MoveWorker, hostVars, fileVars,
         Published, Records, Traces, TypeOK, OwnPublication, Running, Live, Announced
<1>13. ASSUME NEW j \in Jobs, Verify(j) PROVE Published'
  BY <1>13, <1>a, <1>b, NoneAssumption
     DEF Verify, Replacing, Fail, MoveWorker, hostVars, fileVars, Published, Records,
         Traces, TypeOK, OwnPublication, Running, Live, Announced
<1>14. ASSUME NEW j \in Jobs, MoveOriginal(j) PROVE Published'
  BY <1>14, <1>a, <1>b, NoneAssumption
     DEF MoveOriginal, Fail, MoveWorker, hostVars, fileVars, Published, Records, Traces,
         TypeOK, OwnPublication, Running, Live, Announced
<1>15. ASSUME NEW j \in Jobs, Retain(j) PROVE Published'
  <2>1. RetainDoes(j)
    BY <1>15, RetainEffect
  <2> QED
    BY <2>1, <1>a, <1>b, NoneAssumption
       DEF RetainDoes, Writes, IsNow, Published, Records, Traces, TypeOK, OwnPublication,
           Running, Live, Announced
<1>16. ASSUME NEW j \in Jobs, CheckRetained(j) PROVE Published'
  BY <1>16, <1>a, <1>b, NoneAssumption
     DEF CheckRetained, MustRestore, MoveWorker, hostVars, fileVars, Published, Records,
         Traces, TypeOK, OwnPublication, Running, Live, Announced
<1>17. ASSUME NEW j \in Jobs, Swap(j) PROVE Published'
  <2>1. Exists(j)'
    BY <1>17 DEF Swap, PublishTo, Exists
  <2>2. /\ worker[j] \in Announced
        /\ journal[j].committed = "unknown" /\ record[j].committed = "unknown"
    BY <1>17 DEF Swap, Records, Traces, Running, Announced
  <2>3. UNCHANGED <<record, journal>> /\ worker' = [worker EXCEPT ![j] = "published"]
    BY <1>17 DEF Swap, PublishTo, MoveWorker
  <2> QED
    BY <2>1, <2>2, <2>3, <1>a, <1>b DEF Published, TypeOK, OwnPublication
<1>18. ASSUME NEW j \in Jobs, SwapBlocked(j) PROVE Published'
  BY <1>18, <1>a, <1>b, NoneAssumption
     DEF SwapBlocked, Vacant, MustRestore, MoveWorker, hostVars, fileVars, Published,
         Records, Traces, TypeOK, OwnPublication, Running, Live, Announced
<1>19. ASSUME NEW j \in Jobs, Restore(j) PROVE Published'
  <2>1. RestoreDoes(j)
    BY <1>19, RestoreEffect
  <2> QED
    BY <2>1, <1>a, <1>b, NoneAssumption
       DEF RestoreDoes, Writes, IsNow, Published, Records, Traces, TypeOK,
           OwnPublication, Running, Live, Announced
<1>20. ASSUME NEW j \in Jobs, Acknowledge(j) PROVE Published'
  <2>1. AcknowledgeDoes(j)
    BY <1>20, AcknowledgeEffect
  <2> QED
    BY <2>1, <1>a, <1>b, NoneAssumption
       DEF AcknowledgeDoes, Writes, IsNow, Published, Records, Traces, TypeOK,
           OwnPublication, Running, Live, Announced
<1>21. ASSUME NEW j \in Jobs, Conclude(j) PROVE Published'
  <2>1. ConcludeDoes(j)
    BY <1>21, ConcludeEffect
  <2> QED
    BY <2>1, <1>a, <1>b, NoneAssumption
       DEF ConcludeDoes, Writes, IsNow, Published, Records, Traces, TypeOK,
           OwnPublication, Running, Live, Announced
<1>22. ASSUME NEW j \in Jobs, Leave(j) PROVE Published'
  BY <1>22, <1>a, <1>b, NoneAssumption
     DEF Leave, MoveWorker, hostVars, fileVars, Published, Records, Traces, TypeOK,
         OwnPublication, Running, Live, Announced
<1>23. ASSUME NEW j \in Jobs, Break(j) PROVE Published'
  BY <1>23, <1>a, <1>b, NoneAssumption
     DEF Break, Fail, MoveWorker, hostVars, fileVars, Published, Records, Traces, TypeOK,
         OwnPublication, Running, Live, Announced
<1>24. ASSUME NEW j \in Jobs, PanicInCompiler(j) PROVE Published'
  BY <1>24, <1>a, <1>b, NoneAssumption
     DEF PanicInCompiler, MayFault, MoveWorker, hostVars, fileVars, Published, Records,
         Traces, TypeOK, OwnPublication, Running, Live, Announced
<1>25. CASE Stop
  BY <1>25, <1>a, <1>b, NoneAssumption
     DEF Stop, hostVars, fileVars, Published, Records, Traces, TypeOK, OwnPublication,
         Running, Live, Announced
<1>26. CASE Joined
  BY <1>26, <1>a, <1>b, NoneAssumption
     DEF Joined, Down, Running, hostVars, fileVars, Published, Records, Traces, TypeOK,
         OwnPublication, Live, Announced
<1>27. CASE Crash
  BY <1>27, <1>a, <1>b, NoneAssumption
     DEF Crash, Down, Running, MayFault, hostVars, fileVars, Published, Records, Traces,
         TypeOK, OwnPublication, Live, Announced
<1>28. CASE Restart
  BY <1>28, <1>a, <1>b, NoneAssumption
     DEF Restart, hostVars, fileVars, Published, Records, Traces, TypeOK, OwnPublication,
         Running, Live, Announced
<1>29. CASE Appear
  BY <1>29, <1>a, <1>b, NoneAssumption
     DEF Appear, hostVars, fileVars, Published, Records, Traces, TypeOK, OwnPublication,
         Running, Live, Announced
<1>30. CASE UNCHANGED vars
  BY <1>30, <1>a, <1>b, NoneAssumption
     DEF vars, hostVars, fileVars, Published, Records, Traces, TypeOK, OwnPublication,
         Running, Live, Announced
<1> QED
  BY <1>1, <1>2, <1>3, <1>4, <1>5, <1>6, <1>7, <1>8, <1>9, <1>10, <1>11, <1>12, <1>13,
     <1>14, <1>15, <1>16, <1>17, <1>18, <1>19, <1>20, <1>21, <1>22, <1>23, <1>24, <1>25,
     <1>26, <1>27, <1>28, <1>29, <1>30
     DEF Next, WorkerStep

LEMMA BackupsStep ==
    ASSUME IInv, [Next]_vars
    PROVE  Backups'
<1> USE DEF IInv
<1>a. \A k \in Jobs : Exists(k) => Exists(k)'
  BY ExistsStep DEF Artifacts
<1>b. \A k \in Jobs : Exists(k)' => Exists(k) \/ OwnPublication(k)
  BY ExistsByPublication
<1>1. ASSUME NEW j \in Jobs, NEW a \in Artifacts \cup {None}, Begin(j, a) PROVE Backups'
  <2>1. BeginDoes(j, a)
    BY <1>1, BeginEffect
  <2> QED
    BY <2>1, <1>a, <1>b, NoneAssumption
       DEF BeginDoes, Begins, SettleFinished, Backups, Records, Traces, TypeOK,
           Untouched, Running, Live
<1>2. ASSUME NEW j \in Jobs, NEW a \in Artifacts \cup {None},
             NEW s \in {"queued", "failed"}, BeginWithoutWorker(j, a, s) PROVE Backups'
  <2>1. BeginWithoutWorkerDoes(j, a, s)
    BY <1>2, BeginWithoutWorkerEffect
  <2> QED
    BY <2>1, <1>a, <1>b, NoneAssumption
       DEF BeginWithoutWorkerDoes, Begins, SettleFinished, Backups, Records, Traces,
           TypeOK, Untouched, Running, Live
<1>3. ASSUME NEW j \in Jobs, Poll(j) PROVE Backups'
  BY <1>3, <1>a, <1>b, NoneAssumption
     DEF Poll, SettleFinished, hostVars, fileVars, Backups, Records, Traces, TypeOK,
         Untouched, Running, Live
<1>4. ASSUME NEW j \in Jobs, Cancel(j) PROVE Backups'
  <2>1. CancelDoes(j)
    BY <1>4, CancelEffect
  <2>2. /\ record'[j].replacement = record[j].replacement /\ record'[j].state = record[j].state
        /\ record'[j].backupState = record[j].backupState
        /\ journal'[j] \in {record'[j], journal[j]}
        /\ \A k \in Jobs : k # j => record'[k] = record[k] /\ journal'[k] = journal[k]
        /\ UNCHANGED <<worker, backup>>
    BY <2>1 DEF CancelDoes, Writes, IsNow
  <2>3. record[j] # None /\ record[j].state \notin Terminal
    BY <2>1, NoneAssumption DEF CancelDoes, Writes, IsTerminal
  <2> QED
    BY <2>2, <2>3 DEF Backups, TypeOK, Untouched, Terminal
<1>5. ASSUME NEW j \in Jobs, Reconcile(j) PROVE Backups'
  <2>1. ReconcileDoes(j)
    BY <1>5, ReconcileEffect
  <2> QED
    BY <2>1, <1>a, <1>b, NoneAssumption
       DEF ReconcileDoes, SettleFinished, IsTerminal, Terminal, Phases, Record, Backups,
           Records, Traces, TypeOK, Untouched, Running, Live
<1>6. ASSUME NEW j \in Jobs, Compile(j) PROVE Backups'
  <2>1. CompileDoes(j)
    BY <1>6, CompileEffect
  <2> QED
    BY <2>1, <1>a, <1>b, NoneAssumption
       DEF CompileDoes, Writes, IsNow, Backups, Records, Traces, TypeOK, Untouched,
           Running, Live
<1>7. ASSUME NEW j \in Jobs, Compiled(j) PROVE Backups'
  BY <1>7, <1>a, <1>b, NoneAssumption
     DEF Compiled, MoveWorker, hostVars, fileVars, Backups, Records, Traces, TypeOK,
         Untouched, Running, Live
<1>8. ASSUME NEW j \in Jobs, Announce(j) PROVE Backups'
  <2>1. AnnounceDoes(j)
    BY <1>8, AnnounceEffect
  <2> QED
    BY <2>1, <1>a, <1>b, NoneAssumption
       DEF AnnounceDoes, Writes, IsNow, Backups, Records, Traces, TypeOK, Untouched,
           Running, Live
<1>9. ASSUME NEW j \in Jobs, CheckAnnounced(j) PROVE Backups'
  BY <1>9, <1>a, <1>b, NoneAssumption
     DEF CheckAnnounced, Uncancelled, MoveWorker, hostVars, fileVars, Backups, Records,
         Traces, TypeOK, Untouched, Running, Live
<1>10. ASSUME NEW j \in Jobs, NoticeCancel(j) PROVE Backups'
  BY <1>10, <1>a, <1>b, NoneAssumption
     DEF NoticeCancel, Fail, MoveWorker, hostVars, fileVars, Backups, Records, Traces,
         TypeOK, Untouched, Running, Live
<1>11. ASSUME NEW j \in Jobs, Publish(j) PROVE Backups'
  BY <1>11, <1>a, <1>b, NoneAssumption
     DEF Publish, Replacing, Vacant, PublishTo, MoveWorker, hostVars, fileVars, Backups,
         Records, Traces, TypeOK, Untouched, Running, Live
<1>12. ASSUME NEW j \in Jobs, PublishBlocked(j) PROVE Backups'
  BY <1>12, <1>a, <1>b, NoneAssumption
     DEF PublishBlocked, Replacing, Vacant, Fail, MoveWorker, hostVars, fileVars,
         Backups, Records, Traces, TypeOK, Untouched, Running, Live
<1>13. ASSUME NEW j \in Jobs, Verify(j) PROVE Backups'
  BY <1>13, <1>a, <1>b, NoneAssumption
     DEF Verify, Replacing, Fail, MoveWorker, hostVars, fileVars, Backups, Records,
         Traces, TypeOK, Untouched, Running, Live
<1>14. ASSUME NEW j \in Jobs, MoveOriginal(j) PROVE Backups'
  <2>1. /\ worker[j] = "verified" /\ record[j].state = "publishing"
        /\ journal[j].state = "publishing" /\ backup[j] = None
    BY <1>14 DEF MoveOriginal, Backups, Records, Untouched, Announced
  <2>2. /\ UNCHANGED <<record, journal>>
        /\ \/ worker' = [worker EXCEPT ![j] = "failing"] /\ backup' = backup
           \/ worker' = [worker EXCEPT ![j] = "moved"] /\ backup' = [backup EXCEPT ![j] = destination]
    BY <1>14 DEF MoveOriginal, Fail, MoveWorker, fileVars
  <2> QED
    BY <2>1, <2>2 DEF Backups, TypeOK, Untouched
<1>15. ASSUME NEW j \in Jobs, Retain(j) PROVE Backups'
  <2>1. RetainDoes(j)
    BY <1>15, RetainEffect
  <2>2. record[j].state = "publishing" /\ journal[j].state = "publishing"
    BY <2>1 DEF RetainDoes, Records, Announced
  <2> QED
    BY <2>1, <2>2, NoneAssumption DEF RetainDoes, Writes, IsNow, Backups, TypeOK, Untouched
<1>16. ASSUME NEW j \in Jobs, CheckRetained(j) PROVE Backups'
  BY <1>16, <1>a, <1>b, NoneAssumption
     DEF CheckRetained, MustRestore, MoveWorker, hostVars, fileVars, Backups, Records,
         Traces, TypeOK, Untouched, Running, Live
<1>17. ASSUME NEW j \in Jobs, Swap(j) PROVE Backups'
  BY <1>17, <1>a, <1>b, NoneAssumption
     DEF Swap, Vacant, PublishTo, MoveWorker, hostVars, fileVars, Backups, Records,
         Traces, TypeOK, Untouched, Running, Live
<1>18. ASSUME NEW j \in Jobs, SwapBlocked(j) PROVE Backups'
  BY <1>18, <1>a, <1>b, NoneAssumption
     DEF SwapBlocked, Vacant, MustRestore, MoveWorker, hostVars, fileVars, Backups,
         Records, Traces, TypeOK, Untouched, Running, Live
<1>19. ASSUME NEW j \in Jobs, Restore(j) PROVE Backups'
  <2>1. RestoreDoes(j)
    BY <1>19, RestoreEffect
  <2>2. record[j].state = "publishing" /\ journal[j].state = "publishing"
    BY <2>1 DEF RestoreDoes, Records, Announced
  <2> QED
    BY <2>1, <2>2, NoneAssumption DEF RestoreDoes, Writes, IsNow, Backups, TypeOK, Untouched
<1>20. ASSUME NEW j \in Jobs, Acknowledge(j) PROVE Backups'
  <2>1. AcknowledgeDoes(j)
    BY <1>20, AcknowledgeEffect
  <2> QED
    BY <2>1, <1>a, <1>b, NoneAssumption
       DEF AcknowledgeDoes, Writes, IsNow, Backups, Records, Traces, TypeOK, Untouched,
           Running, Live
<1>21. ASSUME NEW j \in Jobs, Conclude(j) PROVE Backups'
  <2>1. ConcludeDoes(j)
    BY <1>21, ConcludeEffect
  <2> QED
    BY <2>1, <1>a, <1>b, NoneAssumption
       DEF ConcludeDoes, Writes, IsNow, Backups, Records, Traces, TypeOK, Untouched,
           Running, Live
<1>22. ASSUME NEW j \in Jobs, Leave(j) PROVE Backups'
  BY <1>22, <1>a, <1>b, NoneAssumption
     DEF Leave, MoveWorker, hostVars, fileVars, Backups, Records, Traces, TypeOK,
         Untouched, Running, Live
<1>23. ASSUME NEW j \in Jobs, Break(j) PROVE Backups'
  BY <1>23, <1>a, <1>b, NoneAssumption
     DEF Break, Fail, MoveWorker, hostVars, fileVars, Backups, Records, Traces, TypeOK,
         Untouched, Running, Live
<1>24. ASSUME NEW j \in Jobs, PanicInCompiler(j) PROVE Backups'
  BY <1>24, <1>a, <1>b, NoneAssumption
     DEF PanicInCompiler, MayFault, MoveWorker, hostVars, fileVars, Backups, Records,
         Traces, TypeOK, Untouched, Running, Live
<1>25. CASE Stop
  BY <1>25, <1>a, <1>b, NoneAssumption
     DEF Stop, hostVars, fileVars, Backups, Records, Traces, TypeOK, Untouched, Running,
         Live
<1>26. CASE Joined
  BY <1>26, <1>a, <1>b, NoneAssumption
     DEF Joined, Down, Running, hostVars, fileVars, Backups, Records, Traces, TypeOK,
         Untouched, Live
<1>27. CASE Crash
  BY <1>27, <1>a, <1>b, NoneAssumption
     DEF Crash, Down, Running, MayFault, hostVars, fileVars, Backups, Records, Traces,
         TypeOK, Untouched, Live
<1>28. CASE Restart
  BY <1>28, <1>a, <1>b, NoneAssumption
     DEF Restart, hostVars, fileVars, Backups, Records, Traces, TypeOK, Untouched,
         Running, Live
<1>29. CASE Appear
  BY <1>29, <1>a, <1>b, NoneAssumption
     DEF Appear, hostVars, fileVars, Backups, Records, Traces, TypeOK, Untouched,
         Running, Live
<1>30. CASE UNCHANGED vars
  BY <1>30, <1>a, <1>b, NoneAssumption
     DEF vars, hostVars, fileVars, Backups, Records, Traces, TypeOK, Untouched, Running,
         Live
<1> QED
  BY <1>1, <1>2, <1>3, <1>4, <1>5, <1>6, <1>7, <1>8, <1>9, <1>10, <1>11, <1>12, <1>13,
     <1>14, <1>15, <1>16, <1>17, <1>18, <1>19, <1>20, <1>21, <1>22, <1>23, <1>24, <1>25,
     <1>26, <1>27, <1>28, <1>29, <1>30
     DEF Next, WorkerStep

LEMMA DismissalsStep ==
    ASSUME IInv, [Next]_vars
    PROVE  Dismissals'
<1> USE DEF IInv
<1>a. \A k \in Jobs : Exists(k) => Exists(k)'
  BY ExistsStep DEF Artifacts
<1>b. \A k \in Jobs : Exists(k)' => Exists(k) \/ OwnPublication(k)
  BY ExistsByPublication
<1>1. ASSUME NEW j \in Jobs, NEW a \in Artifacts \cup {None}, Begin(j, a) PROVE Dismissals'
  <2>1. BeginDoes(j, a)
    BY <1>1, BeginEffect
  <2> QED
    BY <2>1, <1>a, <1>b, NoneAssumption
       DEF BeginDoes, Begins, SettleFinished, Dismissals, Published, Records, Traces,
           TypeOK, OwnPublication, Running
<1>2. ASSUME NEW j \in Jobs, NEW a \in Artifacts \cup {None},
             NEW s \in {"queued", "failed"}, BeginWithoutWorker(j, a, s) PROVE Dismissals'
  <2>1. BeginWithoutWorkerDoes(j, a, s)
    BY <1>2, BeginWithoutWorkerEffect
  <2> QED
    BY <2>1, <1>a, <1>b, NoneAssumption
       DEF BeginWithoutWorkerDoes, Begins, SettleFinished, Dismissals, Published,
           Records, Traces, TypeOK, OwnPublication, Running
<1>3. ASSUME NEW j \in Jobs, Poll(j) PROVE Dismissals'
  BY <1>3, <1>a, <1>b, NoneAssumption
     DEF Poll, SettleFinished, hostVars, fileVars, Dismissals, Published, Records,
         Traces, TypeOK, OwnPublication, Running
<1>4. ASSUME NEW j \in Jobs, Cancel(j) PROVE Dismissals'
  <2>1. CancelDoes(j)
    BY <1>4, CancelEffect
  <2>2. /\ record'[j] \in Record /\ record'[j].cancel
        /\ \A k \in Jobs : k # j => record'[k] = record[k]
        /\ worker' = worker
    BY <2>1 DEF CancelDoes, Writes, IsNow
  <2>3. /\ record[j] \in Record /\ record[j].state \notin Terminal
        /\ worker[j] \notin {"none", "ended", "leaving"}
    BY <2>1 DEF CancelDoes, Writes, IsTerminal, SettleFinished, TypeOK, Records
  <2>4. CASE j \in dismissed'
    <3>1. \A k \in Jobs : Exists(k)' => Exists(k)
      BY <1>b, <2>2 DEF OwnPublication
    <3>2. j \notin dismissed => record[j].state # "publishing"
      BY <2>1, <2>4 DEF CancelDoes
    <3>3. j \notin dismissed => record[j].committed = "no"
      BY <2>3, <3>2, NoneAssumption DEF Records, Record, Phases, Terminal
    <3>4. ~Exists(j) /\ worker[j] \in {"new", "compiling", "checked", "announced", "failing",
                                       "leaving", "ended"}
      BY <2>3, <3>2, <3>3, NoneAssumption
         DEF Dismissals, Published, Records, Announced, TypeOK
    <3> QED
      BY <2>1, <2>2, <3>1, <3>4 DEF CancelDoes, Dismissals, TypeOK
  <2>5. CASE j \notin dismissed'
    <3>1. \A k \in Jobs : Exists(k)' => Exists(k)
      BY <1>b, <2>2 DEF OwnPublication
    <3> QED
      BY <2>1, <2>2, <2>5, <3>1 DEF CancelDoes, Dismissals, TypeOK
  <2> QED
    BY <2>4, <2>5
<1>5. ASSUME NEW j \in Jobs, Reconcile(j) PROVE Dismissals'
  <2>1. ReconcileDoes(j)
    BY <1>5, ReconcileEffect
  <2> QED
    BY <2>1, <1>a, <1>b, NoneAssumption
       DEF ReconcileDoes, SettleFinished, IsTerminal, Terminal, Phases, Record,
           Dismissals, Published, Records, Traces, TypeOK, OwnPublication, Running
<1>6. ASSUME NEW j \in Jobs, Compile(j) PROVE Dismissals'
  <2>1. CompileDoes(j)
    BY <1>6, CompileEffect
  <2> QED
    BY <2>1, <1>a, <1>b, NoneAssumption
       DEF CompileDoes, Writes, IsNow, Dismissals, Published, Records, Traces, TypeOK,
           OwnPublication, Running
<1>7. ASSUME NEW j \in Jobs, Compiled(j) PROVE Dismissals'
  BY <1>7, <1>a, <1>b, NoneAssumption
     DEF Compiled, MoveWorker, hostVars, fileVars, Dismissals, Published, Records,
         Traces, TypeOK, OwnPublication, Running
<1>8. ASSUME NEW j \in Jobs, Announce(j) PROVE Dismissals'
  <2>1. AnnounceDoes(j)
    BY <1>8, AnnounceEffect
  <2> QED
    BY <2>1, <1>a, <1>b, NoneAssumption
       DEF AnnounceDoes, Writes, IsNow, Dismissals, Published, Records, Traces, TypeOK,
           OwnPublication, Running
<1>9. ASSUME NEW j \in Jobs, CheckAnnounced(j) PROVE Dismissals'
  BY <1>9, <1>a, <1>b, NoneAssumption
     DEF CheckAnnounced, Uncancelled, MoveWorker, hostVars, fileVars, Dismissals,
         Published, Records, Traces, TypeOK, OwnPublication, Running
<1>10. ASSUME NEW j \in Jobs, NoticeCancel(j) PROVE Dismissals'
  BY <1>10, <1>a, <1>b, NoneAssumption
     DEF NoticeCancel, Fail, MoveWorker, hostVars, fileVars, Dismissals, Published,
         Records, Traces, TypeOK, OwnPublication, Running
<1>11. ASSUME NEW j \in Jobs, Publish(j) PROVE Dismissals'
  BY <1>11, <1>a, <1>b, NoneAssumption
     DEF Publish, Replacing, Vacant, PublishTo, MoveWorker, hostVars, fileVars,
         Dismissals, Published, Records, Traces, TypeOK, OwnPublication, Running
<1>12. ASSUME NEW j \in Jobs, PublishBlocked(j) PROVE Dismissals'
  BY <1>12, <1>a, <1>b, NoneAssumption
     DEF PublishBlocked, Replacing, Vacant, Fail, MoveWorker, hostVars, fileVars,
         Dismissals, Published, Records, Traces, TypeOK, OwnPublication, Running
<1>13. ASSUME NEW j \in Jobs, Verify(j) PROVE Dismissals'
  BY <1>13, <1>a, <1>b, NoneAssumption
     DEF Verify, Replacing, Fail, MoveWorker, hostVars, fileVars, Dismissals, Published,
         Records, Traces, TypeOK, OwnPublication, Running
<1>14. ASSUME NEW j \in Jobs, MoveOriginal(j) PROVE Dismissals'
  BY <1>14, <1>a, <1>b, NoneAssumption
     DEF MoveOriginal, Fail, MoveWorker, hostVars, fileVars, Dismissals, Published,
         Records, Traces, TypeOK, OwnPublication, Running
<1>15. ASSUME NEW j \in Jobs, Retain(j) PROVE Dismissals'
  <2>1. RetainDoes(j)
    BY <1>15, RetainEffect
  <2> QED
    BY <2>1, <1>a, <1>b, NoneAssumption
       DEF RetainDoes, Writes, IsNow, Dismissals, Published, Records, Traces, TypeOK,
           OwnPublication, Running
<1>16. ASSUME NEW j \in Jobs, CheckRetained(j) PROVE Dismissals'
  BY <1>16, <1>a, <1>b, NoneAssumption
     DEF CheckRetained, MustRestore, MoveWorker, hostVars, fileVars, Dismissals,
         Published, Records, Traces, TypeOK, OwnPublication, Running
<1>17. ASSUME NEW j \in Jobs, Swap(j) PROVE Dismissals'
  BY <1>17, <1>a, <1>b, NoneAssumption
     DEF Swap, Vacant, PublishTo, MoveWorker, hostVars, fileVars, Dismissals, Published,
         Records, Traces, TypeOK, OwnPublication, Running
<1>18. ASSUME NEW j \in Jobs, SwapBlocked(j) PROVE Dismissals'
  BY <1>18, <1>a, <1>b, NoneAssumption
     DEF SwapBlocked, Vacant, MustRestore, MoveWorker, hostVars, fileVars, Dismissals,
         Published, Records, Traces, TypeOK, OwnPublication, Running
<1>19. ASSUME NEW j \in Jobs, Restore(j) PROVE Dismissals'
  <2>1. RestoreDoes(j)
    BY <1>19, RestoreEffect
  <2> QED
    BY <2>1, <1>a, <1>b, NoneAssumption
       DEF RestoreDoes, Writes, IsNow, Dismissals, Published, Records, Traces, TypeOK,
           OwnPublication, Running
<1>20. ASSUME NEW j \in Jobs, Acknowledge(j) PROVE Dismissals'
  <2>1. AcknowledgeDoes(j)
    BY <1>20, AcknowledgeEffect
  <2> QED
    BY <2>1, <1>a, <1>b, NoneAssumption
       DEF AcknowledgeDoes, Writes, IsNow, Dismissals, Published, Records, Traces,
           TypeOK, OwnPublication, Running
<1>21. ASSUME NEW j \in Jobs, Conclude(j) PROVE Dismissals'
  <2>1. ConcludeDoes(j)
    BY <1>21, ConcludeEffect
  <2> QED
    BY <2>1, <1>a, <1>b, NoneAssumption
       DEF ConcludeDoes, Writes, IsNow, Dismissals, Published, Records, Traces, TypeOK,
           OwnPublication, Running
<1>22. ASSUME NEW j \in Jobs, Leave(j) PROVE Dismissals'
  BY <1>22, <1>a, <1>b, NoneAssumption
     DEF Leave, MoveWorker, hostVars, fileVars, Dismissals, Published, Records, Traces,
         TypeOK, OwnPublication, Running
<1>23. ASSUME NEW j \in Jobs, Break(j) PROVE Dismissals'
  BY <1>23, <1>a, <1>b, NoneAssumption
     DEF Break, Fail, MoveWorker, hostVars, fileVars, Dismissals, Published, Records,
         Traces, TypeOK, OwnPublication, Running
<1>24. ASSUME NEW j \in Jobs, PanicInCompiler(j) PROVE Dismissals'
  BY <1>24, <1>a, <1>b, NoneAssumption
     DEF PanicInCompiler, MayFault, MoveWorker, hostVars, fileVars, Dismissals,
         Published, Records, Traces, TypeOK, OwnPublication, Running
<1>25. CASE Stop
  BY <1>25, <1>a, <1>b, NoneAssumption
     DEF Stop, hostVars, fileVars, Dismissals, Published, Records, Traces, TypeOK,
         OwnPublication, Running
<1>26. CASE Joined
  BY <1>26, <1>a, <1>b, NoneAssumption
     DEF Joined, Down, Running, hostVars, fileVars, Dismissals, Published, Records,
         Traces, TypeOK, OwnPublication
<1>27. CASE Crash
  BY <1>27, <1>a, <1>b, NoneAssumption
     DEF Crash, Down, Running, MayFault, hostVars, fileVars, Dismissals, Published,
         Records, Traces, TypeOK, OwnPublication
<1>28. CASE Restart
  BY <1>28, <1>a, <1>b, NoneAssumption
     DEF Restart, hostVars, fileVars, Dismissals, Published, Records, Traces, TypeOK,
         OwnPublication, Running
<1>29. CASE Appear
  BY <1>29, <1>a, <1>b, NoneAssumption
     DEF Appear, hostVars, fileVars, Dismissals, Published, Records, Traces, TypeOK,
         OwnPublication, Running
<1>30. CASE UNCHANGED vars
  BY <1>30, <1>a, <1>b, NoneAssumption
     DEF vars, hostVars, fileVars, Dismissals, Published, Records, Traces, TypeOK,
         OwnPublication, Running
<1> QED
  BY <1>1, <1>2, <1>3, <1>4, <1>5, <1>6, <1>7, <1>8, <1>9, <1>10, <1>11, <1>12, <1>13,
     <1>14, <1>15, <1>16, <1>17, <1>18, <1>19, <1>20, <1>21, <1>22, <1>23, <1>24, <1>25,
     <1>26, <1>27, <1>28, <1>29, <1>30
     DEF Next, WorkerStep

LEMMA StepIInv == IInv /\ [Next]_vars => IInv'
BY TypeStep, TracesStep, RecordsStep, PublishedStep, BackupsStep, DismissalsStep DEF IInv

LEMMA InitIInv == Init => IInv
<1> SUFFICES ASSUME Init PROVE IInv
  OBVIOUS
<1>1. TypeOK
  BY FaultsAssumption DEF Init, TypeOK, Artifacts
<1>2. \A j \in Jobs : ~Exists(j)
  BY ArtifactsAssumption DEF Init, Exists
<1> QED
  BY <1>1, <1>2
     DEF Init, IInv, Traces, Records, Published, Backups, Dismissals, Running, Announced, Untouched

-----------------------------------------------------------------------------
(* The invariant implies the properties. *)

THEOREM Invariance == Spec => []IInv
<1>1. IInv /\ [Next]_vars => IInv'
  BY StepIInv
<1> QED
  BY <1>1, InitIInv, PTL DEF Spec

\* The record, the journal and the phases of every job keep their types.
THEOREM TypeCorrect == Spec => []TypeOK
<1>1. IInv => TypeOK
  BY DEF IInv
<1> QED
  BY <1>1, Invariance, PTL

\* Whatever ever was at the destination or was published there is at the destination
\* or at a backup. (publish, finish_replacement, restore_original)
THEOREM NothingIsLost == Spec => ArtifactsAreKept
<1>1. IInv /\ [Next]_vars => [\A a \in Artifacts : Exists(a) => Exists(a)']_vars
  BY ExistsStep DEF IInv
<1> QED
  BY <1>1, Invariance, PTL DEF Spec, ArtifactsAreKept

\* What record and journal say of the publication is so. (execute, run, reconcile)
THEOREM SaysWhatIsSo == Spec => []CommittedTruthfully
<1>1. IInv => CommittedTruthfully
  BY DEF IInv, Published, CommittedTruthfully, Truthful
<1> QED
  BY <1>1, Invariance, PTL

\* A completed replacement has at its backup what it was authorized to replace.
\* (publish, finish_replacement)
THEOREM OnlyTheAuthorized == Spec => []ReplacedAsAuthorized
<1>1. IInv => ReplacedAsAuthorized
  BY DEF IInv, Backups, ReplacedAsAuthorized
<1> QED
  BY <1>1, Invariance, PTL

\* A failed or cancelled job keeps no backup without saying so. (restore_original)
THEOREM PutBackOrBlocked == Spec => []TakenIsPutBack
<1>1. IInv => TakenIsPutBack
  BY DEF IInv, Backups, TakenIsPutBack
<1> QED
  BY <1>1, Invariance, PTL

\* A job cancelled before it announced its publication publishes nothing. (cancel,
\* check_cancel)
THEOREM CancelledInTime == Spec => []CancelledInTimeNeverPublishes
<1>1. IInv => CancelledInTimeNeverPublishes
  BY DEF IInv, Dismissals, CancelledInTimeNeverPublishes
<1> QED
  BY <1>1, Invariance, PTL

\* A journal with an outcome is written no more.
LEMMA FinalStep ==
    ASSUME IInv, [Next]_vars, NEW k \in Jobs, journal[k] # None, IsTerminal(journal[k])
    PROVE  journal'[k] = journal[k]
<1> USE DEF IInv
<1>1. ASSUME NEW j \in Jobs, NEW a \in Artifacts \cup {None}, Begin(j, a)
             PROVE journal'[k] = journal[k]
  <2>1. BeginDoes(j, a)
    BY <1>1, BeginEffect
  <2> QED
    BY <2>1
       DEF BeginDoes, Begins, SettleFinished, Records, Traces, Running, TypeOK,
           IsTerminal, Terminal, Live
<1>2. ASSUME NEW j \in Jobs, NEW a \in Artifacts \cup {None},
             NEW s \in {"queued", "failed"}, BeginWithoutWorker(j, a, s)
             PROVE journal'[k] = journal[k]
  <2>1. BeginWithoutWorkerDoes(j, a, s)
    BY <1>2, BeginWithoutWorkerEffect
  <2> QED
    BY <2>1
       DEF BeginWithoutWorkerDoes, Begins, SettleFinished, Records, Traces, Running,
           TypeOK, IsTerminal, Terminal, Live
<1>3. ASSUME NEW j \in Jobs, Poll(j) PROVE journal'[k] = journal[k]
  BY <1>3
     DEF Poll, SettleFinished, hostVars, fileVars, Records, Traces, Running, TypeOK,
         IsTerminal, Terminal, Live
<1>4. ASSUME NEW j \in Jobs, Cancel(j) PROVE journal'[k] = journal[k]
  <2>1. CancelDoes(j)
    BY <1>4, CancelEffect
  <2> QED
    BY <2>1
       DEF CancelDoes, SettleFinished, IsTerminal, Terminal, Phases, Record, Writes,
           Records, Traces, Running, TypeOK, Live
<1>5. ASSUME NEW j \in Jobs, Reconcile(j) PROVE journal'[k] = journal[k]
  <2>1. ReconcileDoes(j)
    BY <1>5, ReconcileEffect
  <2> QED
    BY <2>1
       DEF ReconcileDoes, SettleFinished, IsTerminal, Terminal, Phases, Record, Records,
           Traces, Running, TypeOK, Live
<1>6. ASSUME NEW j \in Jobs, Compile(j) PROVE journal'[k] = journal[k]
  <2>1. CompileDoes(j)
    BY <1>6, CompileEffect
  <2> QED
    BY <2>1
       DEF CompileDoes, Writes, Records, Traces, Running, TypeOK, IsTerminal, Terminal,
           Live
<1>7. ASSUME NEW j \in Jobs, Compiled(j) PROVE journal'[k] = journal[k]
  BY <1>7
     DEF Compiled, MoveWorker, hostVars, fileVars, Records, Traces, Running, TypeOK,
         IsTerminal, Terminal, Live
<1>8. ASSUME NEW j \in Jobs, Announce(j) PROVE journal'[k] = journal[k]
  <2>1. AnnounceDoes(j)
    BY <1>8, AnnounceEffect
  <2> QED
    BY <2>1
       DEF AnnounceDoes, Writes, Records, Traces, Running, TypeOK, IsTerminal, Terminal,
           Live
<1>9. ASSUME NEW j \in Jobs, CheckAnnounced(j) PROVE journal'[k] = journal[k]
  BY <1>9
     DEF CheckAnnounced, Uncancelled, MoveWorker, hostVars, fileVars, Records, Traces,
         Running, TypeOK, IsTerminal, Terminal, Live
<1>10. ASSUME NEW j \in Jobs, NoticeCancel(j) PROVE journal'[k] = journal[k]
  BY <1>10
     DEF NoticeCancel, Fail, MoveWorker, hostVars, fileVars, Records, Traces, Running,
         TypeOK, IsTerminal, Terminal, Live
<1>11. ASSUME NEW j \in Jobs, Publish(j) PROVE journal'[k] = journal[k]
  BY <1>11
     DEF Publish, Replacing, Vacant, PublishTo, MoveWorker, hostVars, fileVars, Records,
         Traces, Running, TypeOK, IsTerminal, Terminal, Live
<1>12. ASSUME NEW j \in Jobs, PublishBlocked(j) PROVE journal'[k] = journal[k]
  BY <1>12
     DEF PublishBlocked, Replacing, Vacant, Fail, MoveWorker, hostVars, fileVars,
         Records, Traces, Running, TypeOK, IsTerminal, Terminal, Live
<1>13. ASSUME NEW j \in Jobs, Verify(j) PROVE journal'[k] = journal[k]
  BY <1>13
     DEF Verify, Replacing, Fail, MoveWorker, hostVars, fileVars, Records, Traces,
         Running, TypeOK, IsTerminal, Terminal, Live
<1>14. ASSUME NEW j \in Jobs, MoveOriginal(j) PROVE journal'[k] = journal[k]
  BY <1>14
     DEF MoveOriginal, Fail, MoveWorker, hostVars, fileVars, Records, Traces, Running,
         TypeOK, IsTerminal, Terminal, Live
<1>15. ASSUME NEW j \in Jobs, Retain(j) PROVE journal'[k] = journal[k]
  <2>1. RetainDoes(j)
    BY <1>15, RetainEffect
  <2> QED
    BY <2>1
       DEF RetainDoes, Writes, Records, Traces, Running, TypeOK, IsTerminal, Terminal,
           Live
<1>16. ASSUME NEW j \in Jobs, CheckRetained(j) PROVE journal'[k] = journal[k]
  BY <1>16
     DEF CheckRetained, MustRestore, MoveWorker, hostVars, fileVars, Records, Traces,
         Running, TypeOK, IsTerminal, Terminal, Live
<1>17. ASSUME NEW j \in Jobs, Swap(j) PROVE journal'[k] = journal[k]
  BY <1>17
     DEF Swap, Vacant, PublishTo, MoveWorker, hostVars, fileVars, Records, Traces,
         Running, TypeOK, IsTerminal, Terminal, Live
<1>18. ASSUME NEW j \in Jobs, SwapBlocked(j) PROVE journal'[k] = journal[k]
  BY <1>18
     DEF SwapBlocked, Vacant, MustRestore, MoveWorker, hostVars, fileVars, Records,
         Traces, Running, TypeOK, IsTerminal, Terminal, Live
<1>19. ASSUME NEW j \in Jobs, Restore(j) PROVE journal'[k] = journal[k]
  <2>1. RestoreDoes(j)
    BY <1>19, RestoreEffect
  <2> QED
    BY <2>1
       DEF RestoreDoes, Writes, Records, Traces, Running, TypeOK, IsTerminal, Terminal,
           Live
<1>20. ASSUME NEW j \in Jobs, Acknowledge(j) PROVE journal'[k] = journal[k]
  <2>1. AcknowledgeDoes(j)
    BY <1>20, AcknowledgeEffect
  <2> QED
    BY <2>1
       DEF AcknowledgeDoes, Writes, Records, Traces, Running, TypeOK, IsTerminal,
           Terminal, Live
<1>21. ASSUME NEW j \in Jobs, Conclude(j) PROVE journal'[k] = journal[k]
  <2>1. ConcludeDoes(j)
    BY <1>21, ConcludeEffect
  <2> QED
    BY <2>1
       DEF ConcludeDoes, Writes, Records, Traces, Running, TypeOK, IsTerminal, Terminal,
           Live
<1>22. ASSUME NEW j \in Jobs, Leave(j) PROVE journal'[k] = journal[k]
  BY <1>22
     DEF Leave, MoveWorker, hostVars, fileVars, Records, Traces, Running, TypeOK,
         IsTerminal, Terminal, Live
<1>23. ASSUME NEW j \in Jobs, Break(j) PROVE journal'[k] = journal[k]
  BY <1>23
     DEF Break, Fail, MoveWorker, hostVars, fileVars, Records, Traces, Running, TypeOK,
         IsTerminal, Terminal, Live
<1>24. ASSUME NEW j \in Jobs, PanicInCompiler(j) PROVE journal'[k] = journal[k]
  BY <1>24
     DEF PanicInCompiler, MayFault, MoveWorker, hostVars, fileVars, Records, Traces,
         Running, TypeOK, IsTerminal, Terminal, Live
<1>25. CASE Stop
  BY <1>25
     DEF Stop, hostVars, fileVars, Records, Traces, Running, TypeOK, IsTerminal,
         Terminal, Live
<1>26. CASE Joined
  BY <1>26
     DEF Joined, Down, Running, hostVars, fileVars, Records, Traces, TypeOK, IsTerminal,
         Terminal, Live
<1>27. CASE Crash
  BY <1>27
     DEF Crash, Down, Running, MayFault, hostVars, fileVars, Records, Traces, TypeOK,
         IsTerminal, Terminal, Live
<1>28. CASE Restart
  BY <1>28
     DEF Restart, hostVars, fileVars, Records, Traces, Running, TypeOK, IsTerminal,
         Terminal, Live
<1>29. CASE Appear
  BY <1>29
     DEF Appear, hostVars, fileVars, Records, Traces, Running, TypeOK, IsTerminal,
         Terminal, Live
<1>30. CASE UNCHANGED vars
  BY <1>30
     DEF vars, hostVars, fileVars, Records, Traces, Running, TypeOK, IsTerminal,
         Terminal, Live
<1> QED
  BY <1>1, <1>2, <1>3, <1>4, <1>5, <1>6, <1>7, <1>8, <1>9, <1>10, <1>11, <1>12, <1>13,
     <1>14, <1>15, <1>16, <1>17, <1>18, <1>19, <1>20, <1>21, <1>22, <1>23, <1>24, <1>25,
     <1>26, <1>27, <1>28, <1>29, <1>30
     DEF Next, WorkerStep

\* An outcome once recorded is final, whoever polls, cancels, ends late or restarts.
\* (run, read_or_cancel, reconcile)
THEOREM FinalOutcome == Spec => OutcomeIsFinal
<1>1. IInv /\ [Next]_vars => [\A j \in Jobs : journal[j] # None /\ IsTerminal(journal[j]) =>
         journal'[j] = journal[j]]_vars
  BY FinalStep
<1> QED
  BY <1>1, Invariance, PTL DEF Spec, OutcomeIsFinal
=============================================================================
