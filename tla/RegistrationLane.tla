-------------------------- MODULE RegistrationLane --------------------------
(***************************************************************************)
(* persist_registration_result and its core (commands/registration.py)     *)
(* over the operation journal, for the results that share the key          *)
(* email|batch: the session file, the account row, the health jobs and the *)
(* audit row of a result, written once as soon as it is there and retried  *)
(* by save_registration_results at the end of the batch.                   *)
(*                                                                         *)
(* A caller is whoever has such a result in hand: a worker of the batch, a *)
(* later round, another process.  The result carries the marker that tells *)
(* a second pass in the same process what is done already; another result  *)
(* of the key, or the same one after a restart, starts with an empty one.  *)
(***************************************************************************)
EXTENDS OperationJournal, FiniteSets

CONSTANT MaxResults   \* bound: results that get the key

ASSUME ResultsBound == MaxResults \in Nat

VARIABLES
  at,       \* at[c]: next statement of the core or of its caller
  kind,     \* kind[c]: what the result of c is
  marker,   \* marker[c]: what is known to be done for this result
  passes,   \* passes[c]: calls of persist_registration_result with it
  row,      \* the account row: its kind and the session file it points to
  files,    \* session files, named by the attempt that chose their name
  jobs,     \* how often the health checks were enqueued (history)
  results   \* results so far (history)

coreVars == <<at, kind, marker>>
storeVars == <<row, files, jobs>>
vars == <<journalVars, coreVars, storeVars, passes, results>>

\* active and deferred results have a session; a partial one may be saved
\* without, the token of a tokenless one is missing by mistake.
Kind == {"active", "deferred", "partial", "tokenless", "failed"}
WithSession == {"active", "deferred"}

Marker == [status : {"new", "failed", "complete"}, path : Nat,
           pending : BOOLEAN, written : BOOLEAN, dbCompleted : BOOLEAN,
           dbSaved : BOOLEAN, enqueued : BOOLEAN, active : BOOLEAN]

EmptyMarker == [status |-> "new", path |-> 0, pending |-> FALSE, written |-> FALSE,
                dbCompleted |-> FALSE, dbSaved |-> FALSE, enqueued |-> FALSE,
                active |-> FALSE]

NoRow == [kind |-> "none", path |-> 0]

At == {"audit", "session", "upsert", "health", "done", "finish", "lost"}

\* Passes over one result: when it is there, and at the end of the batch.
Passes == 2

TypeOK ==
  /\ JournalTypeOK
  /\ at \in [Caller -> At]
  /\ kind \in [Caller -> Kind \cup {"none"}]
  /\ marker \in [Caller -> Marker]
  /\ passes \in [Caller -> 0..Passes]
  /\ row \in [kind : Kind \cup {"none"}, path : Nat]
  /\ files \subseteq Nat
  /\ jobs \in Nat /\ results \in Nat

Init ==
  /\ JournalInit
  /\ at = [c \in Caller |-> "audit"]
  /\ kind = [c \in Caller |-> "none"]
  /\ marker = [c \in Caller |-> EmptyMarker]
  /\ passes = [c \in Caller |-> 0]
  /\ row = NoRow
  /\ files = {}
  /\ jobs = 0
  /\ results = 0

Goto(c, label) == at' = [at EXCEPT ![c] = label]

\* A registration ends, or a restarted process has its result again.
NewResult(c) ==
  /\ phase[c] = "idle"
  /\ results < MaxResults
  /\ results' = results + 1
  /\ kind' \in {[kind EXCEPT ![c] = k] : k \in Kind}
  /\ marker' = [marker EXCEPT ![c] = EmptyMarker]
  /\ passes' = [passes EXCEPT ![c] = 0]
  /\ UNCHANGED <<journalVars, at, storeVars>>

\* persist_registration_result: a complete marker returns at once.
StartPass(c) ==
  /\ kind[c] # "none"
  /\ marker[c].status # "complete"
  /\ passes[c] < Passes
  /\ passes' = [passes EXCEPT ![c] = @ + 1]
  /\ Call(c)
  /\ UNCHANGED <<coreVars, storeVars, results>>

BeginStep(c) == Begin(c) /\ UNCHANGED <<coreVars, storeVars, passes, results>>

\* One statement of the core; the gate is held throughout.
CoreAt(c, label) ==
  /\ phase[c] = "open"
  /\ at[c] = label
  /\ UNCHANGED <<journalVars, kind, passes, results>>

Note(c, m, next) == marker' = [marker EXCEPT ![c] = m] /\ Goto(c, next)

\* Any exception of the core ends in the marker, and the caller finishes.
Raises(c, m) == Note(c, [m EXCEPT !.status = "failed"], "finish") /\ UNCHANGED storeVars

Completes(c, m) == Note(c, [m EXCEPT !.status = "complete"], "finish")

\* The pending audit, or the failure audit of a failed result, which ends there.
\* The session file is built: without a token only a partial result goes on.
Audit(c) ==
  LET m == [marker[c] EXCEPT !.pending = TRUE] IN
  /\ CoreAt(c, "audit")
  /\ \/ /\ UNCHANGED storeVars
        /\ CASE kind[c] \in {"failed", "tokenless"} -> Completes(c, m)
             [] kind[c] = "partial"                 -> Note(c, m, "upsert")
             [] kind[c] \in WithSession             -> Note(c, m, "session")
     \/ ~marker[c].pending /\ Raises(c, marker[c])

\* Mutant of Session: the name of the file is chosen anew in every pass.
SessionRenamed(c) ==
  LET m == [marker[c] EXCEPT !.path = mem[c].attempt] IN
  /\ CoreAt(c, "session")
  /\ \/ /\ Note(c, [m EXCEPT !.written = TRUE], "upsert")
        /\ files' = files \cup {m.path}
        /\ UNCHANGED <<row, jobs>>
     \/ Raises(c, m)

\* Mutant of Session: a failed write is no error.
SessionUnchecked(c) ==
  LET m == [marker[c] EXCEPT !.path = IF @ = 0 THEN mem[c].attempt ELSE @] IN
  /\ CoreAt(c, "session")
  /\ Note(c, [m EXCEPT !.written = TRUE], "upsert")
  /\ files' \in {files, files \cup {m.path}}
  /\ UNCHANGED <<row, jobs>>

\* The session file is written once under a name chosen once; the replace of
\* the temporary file is atomic.
Session(c) ==
  LET m == [marker[c] EXCEPT !.path = IF @ = 0 THEN mem[c].attempt ELSE @] IN
  /\ CoreAt(c, "session")
  /\ \/ /\ Note(c, [m EXCEPT !.written = TRUE], "upsert")
        /\ files' = IF m.written THEN files ELSE files \cup {m.path}
        /\ UNCHANGED <<row, jobs>>
     \/ ~m.written /\ Raises(c, m)

\* upsert_account writes the row, refuses a result without an address, or
\* raises.  A partial result without a session is complete with it.
Upsert(c) ==
  LET m == [marker[c] EXCEPT !.dbCompleted = TRUE] IN
  /\ CoreAt(c, "upsert")
  /\ UNCHANGED <<files, jobs>>
  /\ \/ /\ m = marker[c]
        /\ UNCHANGED row
        /\ Note(c, m, "health")
     \/ /\ ~marker[c].dbCompleted
        /\ \E saved \in BOOLEAN :
             /\ row' = IF saved THEN [kind |-> kind[c], path |-> m.path] ELSE row
             /\ IF kind[c] = "partial" THEN Completes(c, [m EXCEPT !.dbSaved = saved])
                ELSE Note(c, [m EXCEPT !.dbSaved = saved], "health")
     \/ ~marker[c].dbCompleted /\ Raises(c, marker[c])

\* The health checks of a saved, probed account; a failing queue is a warning.
Health(c) ==
  LET m == marker[c] IN
  /\ CoreAt(c, "health")
  /\ UNCHANGED <<row, files>>
  /\ \/ /\ m.dbSaved /\ kind[c] # "deferred" /\ ~m.enqueued
        /\ jobs' = jobs + 1
        /\ Note(c, [m EXCEPT !.enqueued = TRUE], "done")
     \/ Note(c, m, "done") /\ UNCHANGED jobs

\* The last audit row completes the result.
AuditActive(c) ==
  LET m == [marker[c] EXCEPT !.active = TRUE] IN
  /\ CoreAt(c, "done")
  /\ \/ Completes(c, m) /\ UNCHANGED storeVars
     \/ ~marker[c].active /\ Raises(c, marker[c])

NotPersisted == [ok |-> FALSE, status |-> "failed", effect |-> FALSE, execute |-> FALSE,
                 side |-> "no", recon |-> FALSE, retry |-> TRUE]

\* Mutant of FinishResult: a result counts as committed once its file is there.
FinishResultByFile(c) ==
  IF marker[c].written
  THEN [NotPersisted EXCEPT !.ok = TRUE, !.status = "completed", !.side = "yes", !.retry = FALSE]
  ELSE NotPersisted

\* Only a saved row is committed; everything else may be replayed.
FinishResult(c) ==
  IF marker[c].dbSaved
  THEN [NotPersisted EXCEPT !.ok = TRUE, !.status = "completed", !.side = "yes", !.retry = FALSE]
  ELSE NotPersisted

\* finish() is outside any try: when its write raises, the operation is never
\* closed and the exception leaves persist_registration_result.
FinishPass(c) ==
  /\ at[c] = "finish"
  /\ \E ok \in BOOLEAN :
       /\ Finish(c, FinishResult(c), ok)
       /\ Goto(c, IF ok THEN "audit" ELSE "lost")
  /\ UNCHANGED <<kind, marker, storeVars, passes, results>>

Abandon(c) ==
  /\ at[c] = "lost"
  /\ Enter(c, "stranded")
  /\ Goto(c, "audit")
  /\ UNCHANGED <<disk, holder, mem, verdict, calls, kind, marker, storeVars, passes, results>>

\* The process of c dies, or is interrupted by a signal and dies with it.
Crash(c) ==
  /\ Die(c)
  /\ Goto(c, "audit")
  /\ kind' = [kind EXCEPT ![c] = "none"]
  /\ marker' = [marker EXCEPT ![c] = EmptyMarker]
  /\ passes' = [passes EXCEPT ![c] = 0]
  /\ UNCHANGED <<storeVars, results>>

Core(c) == Audit(c) \/ Session(c) \/ Upsert(c) \/ Health(c) \/ AuditActive(c)

Next ==
  \E c \in Caller : \/ NewResult(c) \/ StartPass(c) \/ BeginStep(c) \/ Core(c)
                    \/ FinishPass(c) \/ Abandon(c) \/ Crash(c)

Spec == Init /\ [][Next]_vars

-----------------------------------------------------------------------------
\* begin() refuses c with a record it has read under the gate.
RefusedByRecord(c) ==
  phase[c] = "locked" /\ phase'[c] = "idle" /\ verdict'[c] \notin {NoRecord, LostRecord}

(* persist_registration_result calls every refusal complete.  It is, if the
   refusal rests on a record read under the gate: some result of the key has
   its account row then, whatever failed or died before.  It need not be if the
   read failed (LostRecord) or the gate stayed busy. *)
RefusedMeansSaved ==
  [][\A c \in Caller : RefusedByRecord(c) => row # NoRow]_vars

(* An account row points to a session file that exists, whatever raised or
   died between the file and the row. *)
RowHasItsFile == row.kind \in WithSession => row.path \in files

(* A result is written once in spite of its second pass: one session file and
   one round of health checks each, over all exceptions and lost writes. *)
OncePerResult == Cardinality(files) <= results /\ jobs <= results

(* A record that says completed closes its key: whatever is running, refused or
   stranded, no later result touches the files, the row or the queue. *)
Closed == disk # NoRecord /\ disk # Unreadable /\ disk.status = "completed"
CompletedClosesKey == [][Closed => Closed' /\ UNCHANGED storeVars]_vars

(* What the failure message of the core promises: a result whose persistence
   failed is retried by the finalization pass, never refused by its record. *)
FailureIsRetried ==
  [][\A c \in Caller : RefusedByRecord(c) => marker[c].status # "failed"]_vars
=============================================================================
