----------------------- MODULE RegistrationLaneProofs -----------------------
(***************************************************************************)
(* Proofs about RegistrationLane for any number of callers, calls and      *)
(* results: a caller refused by a record has its row, a row has its        *)
(* file, and a result is written once.  They rest on who may be inside     *)
(* (GateInv), on what a marker may claim about the stores (MarkerInv), on  *)
(* what the record claims about the row (DiskInv), and on a count that     *)
(* gives every result one file and one round of checks (CountInv).         *)
(***************************************************************************)
EXTENDS RegistrationLane, FiniteSetTheorems, TLAPS

Inside == {"locked", "admitted", "open", "stranded"}

\* The record an attempt works on is whole and numbered; before its first
\* write it is still the one that may be replayed.
MemInv ==
  \A c \in Caller :
    /\ phase[c] \in {"admitted", "open"} => mem[c] \in Record /\ mem[c].attempt # 0
    /\ phase[c] = "admitted" => mem[c] = NewRecord(mem[c].attempt)

TypeInv == TypeOK /\ MemInv

\* Exactly the caller that holds the gate is between Acquire and Leave.
GateInv == \A c \in Caller : holder = c <=> phase[c] \in Inside

\* Only an open operation is anywhere in the core, for a result that exists,
\* and a caller learns its verdict when it leaves.
ControlInv ==
  \A c \in Caller :
    /\ phase[c] # "open" => at[c] = "audit"
    /\ phase[c] # "idle" => kind[c] # "none" /\ verdict[c] = NoRecord

\* What a marker says is written is there, given its next statement, the kind
\* of its result, the files and the row.
Claims(m, label, k, fs, r) ==
  /\ m.written => m.path # 0 /\ m.path \in fs
  /\ label = "upsert" /\ k \in WithSession => m.written
  /\ m.dbSaved => r # NoRow

MarkerInv == \A c \in Caller : Claims(marker[c], at[c], kind[c], files, row)

\* A record that refuses the next call has its row, and whoever is inside works
\* on a key that is not closed.
DiskInv ==
  /\ disk # Unreadable
  /\ Blocked(disk) => row # NoRow
  /\ \A c \in Caller : phase[c] \in {"admitted", "open"} => ~Closed

\* The results in hand that still may write a file, or enqueue checks.
Unwritten == {c \in Caller : kind[c] # "none" /\ ~marker[c].written}
Unchecked == {c \in Caller : kind[c] # "none" /\ ~marker[c].enqueued}

\* Every file and every round of checks belongs to a result of its own.
CountInv ==
  /\ IsFiniteSet(files) /\ IsFiniteSet(Unwritten) /\ IsFiniteSet(Unchecked)
  /\ Cardinality(files) + Cardinality(Unwritten) <= results
  /\ jobs + Cardinality(Unchecked) <= results

LaneInv == TypeInv /\ GateInv /\ ControlInv /\ MarkerInv /\ DiskInv /\ RowHasItsFile

-----------------------------------------------------------------------------
(* An outcome written into a record makes a record, replayable if the outcome is. *)
LEMMA OutcomeWritten ==
  ASSUME NEW rec \in Record, NEW out \in Outcome
  PROVE  /\ WithOutcome(rec, out) \in Record
         /\ WithOutcome(rec, out).attempt = rec.attempt
         /\ ReplayAllowed(WithOutcome(rec, out)) <=> ReplayAllowed(out)
BY DEF WithOutcome, Record, Outcome, ReplayAllowed

(* finish() makes a record of what the marker says: completed when the row is
   saved, replayable otherwise (the dict of _persist_registration_result). *)
LEMMA FinishRecord ==
  ASSUME NEW rec \in Record, NEW c \in Caller
  PROVE  LET out == WithOutcome(rec, FromMapping(FinishResult(c)))
         IN /\ out \in Record /\ out.attempt = rec.attempt
            /\ ~marker[c].dbSaved => ReplayAllowed(out)
<1>1. FromMapping(FinishResult(c)) \in Outcome
  BY DEF FinishResult, NotPersisted, FromMapping, Outcome, Status
<1>2. ~marker[c].dbSaved => ReplayAllowed(FromMapping(FinishResult(c)))
  BY DEF FinishResult, NotPersisted, FromMapping, ReplayAllowed
<1> QED BY <1>1, <1>2, OutcomeWritten

(* A caller is refused with the record it read, or one that was made up. *)
LEMMA RefuseType ==
  ASSUME JournalTypeOK, NEW c \in Caller, NEW seen \in Reads, Refuse(c, seen)
  PROVE  verdict' \in [Caller -> Record \cup {NoRecord, BusyRecord, LostRecord}]
BY DEF Refuse, Reads, JournalTypeOK

(* A record is blocked exactly when it may not be replayed; a completed one is. *)
LEMMA RecordBlocks ==
  ASSUME NEW rec \in Record
  PROVE  /\ Blocked(rec) <=> ~ReplayAllowed(rec)
         /\ rec.status = "completed" => Blocked(rec)
BY JournalAssumption DEF Blocked, ReplayAllowed

(* A new record may be replayed and is not completed. *)
LEMMA NewIsOpen ==
  ASSUME NEW n \in Nat
  PROVE  /\ NewRecord(n) \in Record /\ NewRecord(n).attempt = n
         /\ ReplayAllowed(NewRecord(n)) /\ NewRecord(n).status # "completed"
BY DEF NewRecord, Record, Status, ReplayAllowed
-----------------------------------------------------------------------------
(* The initial state is of its type. *)
LEMMA TypeInit == Init => TypeInv
<1> SUFFICES ASSUME Init PROVE TypeInv
  OBVIOUS
<1>1. JournalTypeOK BY DEF Init, JournalInit, JournalTypeOK, Phase
<1>2. MemInv BY DEF Init, JournalInit, MemInv
<1>3. EmptyMarker \in Marker BY DEF EmptyMarker, Marker
<1>4. marker \in [Caller -> Marker] BY <1>3 DEF Init
<1>5. NoRow \in [kind : Kind \cup {"none"}, path : Nat] BY DEF NoRow
<1>6. at \in [Caller -> At] /\ kind \in [Caller -> Kind \cup {"none"}]
  BY DEF Init, At
<1>7. passes \in [Caller -> 0..Passes] BY DEF Init, Passes
<1>8. files \subseteq Nat /\ jobs \in Nat /\ results \in Nat BY DEF Init
<1>9. row \in [kind : Kind \cup {"none"}, path : Nat] BY <1>5 DEF Init
<1> QED BY <1>1, <1>2, <1>4, <1>6, <1>7, <1>8, <1>9 DEF TypeInv, TypeOK

(* A statement of the core keeps every type, when what it writes is typed. *)
LEMMA CoreType ==
  ASSUME TypeInv, NEW c \in Caller, NEW label, CoreAt(c, label),
         NEW next \in At, Goto(c, next),
         NEW m \in Marker, marker' = [marker EXCEPT ![c] = m],
         row' \in [kind : Kind \cup {"none"}, path : Nat],
         files' \subseteq Nat, jobs' \in Nat
  PROVE  TypeInv'
<1>1. JournalTypeOK' /\ MemInv'
  BY DEF TypeInv, TypeOK, JournalTypeOK, MemInv, CoreAt, journalVars
<1> QED BY <1>1 DEF TypeInv, TypeOK, CoreAt, Goto

(* What the core makes of a marker is a marker. *)
LEMMA MarkerType ==
  ASSUME NEW m \in Marker, NEW b \in BOOLEAN, NEW n \in Nat
  PROVE  /\ [m EXCEPT !.pending = TRUE] \in Marker
         /\ [m EXCEPT !.path = n] \in Marker
         /\ [m EXCEPT !.written = TRUE] \in Marker
         /\ [m EXCEPT !.dbCompleted = TRUE] \in Marker
         /\ [m EXCEPT !.dbSaved = b] \in Marker
         /\ [m EXCEPT !.enqueued = TRUE] \in Marker
         /\ [m EXCEPT !.active = TRUE] \in Marker
         /\ [m EXCEPT !.status = "failed"] \in Marker
         /\ [m EXCEPT !.status = "complete"] \in Marker
BY DEF Marker

(* Where a statement of the core may lead. *)
LEMMA Labels == {"audit", "session", "upsert", "health", "done", "finish", "lost"} = At
BY DEF At

(* The statements of the core write markers, rows and files of their types. *)
LEMMA CoreTypes == ASSUME TypeInv, ControlInv, NEW c \in Caller, Core(c) PROVE TypeInv'
<1>0. /\ marker[c] \in Marker /\ row \in [kind : Kind \cup {"none"}, path : Nat]
      /\ files \subseteq Nat /\ jobs \in Nat /\ kind[c] \in Kind \cup {"none"}
  BY DEF TypeInv, TypeOK
<1>1. CASE Audit(c)
  <2> DEFINE m == [marker[c] EXCEPT !.pending = TRUE]
  <2>1. CoreAt(c, "audit") /\ UNCHANGED storeVars BY <1>1 DEF Audit, Raises
  <2>2. kind[c] \in Kind BY <1>0, <2>1 DEF CoreAt, ControlInv
  <2>3. \/ Completes(c, m) \/ Note(c, m, "upsert") \/ Note(c, m, "session") \/ Raises(c, marker[c])
    BY <1>1, <2>2 DEF Audit, Kind, WithSession
  <2>4. m \in Marker BY <1>0, MarkerType
  <2> HIDE DEF m
  <2>5. PICK n \in Marker, next \in At : marker' = [marker EXCEPT ![c] = n] /\ Goto(c, next)
    BY <1>0, <2>3, <2>4, MarkerType, Labels DEF Note, Completes, Raises
  <2> QED BY <1>0, <2>1, <2>5, CoreType DEF storeVars
<1>2. CASE Session(c)
  <2> DEFINE m == [marker[c] EXCEPT !.path = IF @ = 0 THEN mem[c].attempt ELSE @]
  <2>1. CoreAt(c, "session") /\ row' = row /\ jobs' = jobs
    BY <1>2 DEF Session, Raises, storeVars
  <2>2. mem[c].attempt \in Nat /\ marker[c].path \in Nat
    BY <1>0, <2>1 DEF CoreAt, TypeInv, MemInv, Record, Marker
  <2>3. m \in Marker /\ m.path \in Nat
    <3> DEFINE n == IF marker[c].path = 0 THEN mem[c].attempt ELSE marker[c].path
    <3>1. n \in Nat /\ marker[c] \in Marker BY <1>0, <2>2
    <3>2. m = [marker[c] EXCEPT !.path = n] OBVIOUS
    <3> HIDE DEF m, n
    <3>3. m \in Marker BY <3>1, <3>2, MarkerType
    <3> QED BY <3>3 DEF Marker
  <2>4. \/ Note(c, [m EXCEPT !.written = TRUE], "upsert") \/ Raises(c, m)
    BY <1>2 DEF Session
  <2>5. files' = files \/ files' = files \cup {m.path}
    BY <1>2 DEF Session, Raises, storeVars
  <2> HIDE DEF m
  <2>6. PICK n \in Marker, next \in At : marker' = [marker EXCEPT ![c] = n] /\ Goto(c, next)
    <3>1. /\ [m EXCEPT !.written = TRUE] \in Marker /\ [m EXCEPT !.status = "failed"] \in Marker
          /\ "upsert" \in At /\ "finish" \in At
      BY <2>3, MarkerType, Labels
    <3>2. CASE Note(c, [m EXCEPT !.written = TRUE], "upsert") BY <3>1, <3>2 DEF Note
    <3>3. CASE Raises(c, m) BY <3>1, <3>3 DEF Note, Raises
    <3> QED BY <2>4, <3>2, <3>3
  <2> QED BY <1>0, <2>1, <2>3, <2>5, <2>6, CoreType
<1>3. CASE Upsert(c)
  <2> DEFINE m == [marker[c] EXCEPT !.dbCompleted = TRUE]
  <2>1. CoreAt(c, "upsert") /\ files' = files /\ jobs' = jobs BY <1>3 DEF Upsert
  <2>2. m \in Marker /\ m.path \in Nat
    <3>1. m \in Marker BY <1>0, MarkerType
    <3> QED BY <3>1 DEF Marker
  <2>3. \/ m = marker[c] /\ UNCHANGED row /\ Note(c, m, "health")
        \/ \E saved \in BOOLEAN :
             /\ row' = IF saved THEN [kind |-> kind[c], path |-> m.path] ELSE row
             /\ \/ Completes(c, [m EXCEPT !.dbSaved = saved])
                \/ Note(c, [m EXCEPT !.dbSaved = saved], "health")
        \/ Raises(c, marker[c])
    BY <1>3 DEF Upsert
  <2> HIDE DEF m
  <2>4. row' \in [kind : Kind \cup {"none"}, path : Nat]
    <3>1. [kind |-> kind[c], path |-> m.path] \in [kind : Kind \cup {"none"}, path : Nat]
      BY <1>0, <2>2
    <3>2. row' = row \/ row' = [kind |-> kind[c], path |-> m.path]
      BY <2>3 DEF Raises, storeVars
    <3> QED BY <1>0, <3>1, <3>2
  <2>5. PICK n \in Marker, next \in At : marker' = [marker EXCEPT ![c] = n] /\ Goto(c, next)
    <3>1. CASE Raises(c, marker[c]) BY <1>0, <3>1, MarkerType, Labels DEF Note, Raises
    <3>2. CASE Note(c, m, "health") BY <2>2, <3>2, Labels DEF Note
    <3>3. ASSUME NEW saved \in BOOLEAN,
                 \/ Completes(c, [m EXCEPT !.dbSaved = saved])
                 \/ Note(c, [m EXCEPT !.dbSaved = saved], "health")
          PROVE  \E n \in Marker, next \in At : marker' = [marker EXCEPT ![c] = n] /\ Goto(c, next)
      <4>1. [m EXCEPT !.dbSaved = saved] \in Marker BY <2>2, MarkerType
      <4> QED BY <3>3, <4>1, MarkerType, Labels DEF Note, Completes
    <3> QED BY <2>3, <3>1, <3>2, <3>3
  <2> QED BY <1>0, <2>1, <2>4, <2>5, CoreType
<1>4. CASE Health(c)
  <2>1. CoreAt(c, "health") /\ row' = row /\ files' = files /\ jobs' \in Nat
    BY <1>0, <1>4 DEF Health
  <2>2. PICK n \in Marker, next \in At : marker' = [marker EXCEPT ![c] = n] /\ Goto(c, next)
    BY <1>0, <1>4, MarkerType, Labels DEF Health, Note
  <2> QED BY <1>0, <2>1, <2>2, CoreType
<1>5. CASE AuditActive(c)
  <2> DEFINE m == [marker[c] EXCEPT !.active = TRUE]
  <2>1. CoreAt(c, "done") /\ UNCHANGED storeVars BY <1>5 DEF AuditActive, Raises
  <2>2. Completes(c, m) \/ Raises(c, marker[c]) BY <1>5 DEF AuditActive
  <2>3. m \in Marker BY <1>0, MarkerType
  <2> HIDE DEF m
  <2>4. PICK n \in Marker, next \in At : marker' = [marker EXCEPT ![c] = n] /\ Goto(c, next)
    BY <1>0, <2>2, <2>3, MarkerType, Labels DEF Note, Completes, Raises
  <2> QED BY <1>0, <2>1, <2>4, CoreType DEF storeVars
<1> QED BY <1>1, <1>2, <1>3, <1>4, <1>5 DEF Core
(* begin() keeps the types: a refusal is a result, a new record a record. *)
LEMMA BeginTypes == ASSUME TypeInv, NEW c \in Caller, BeginStep(c) PROVE TypeInv'
<1> USE DEF TypeInv, TypeOK, JournalTypeOK, MemInv, Phase
<1>0. UNCHANGED <<coreVars, storeVars, passes, results>> BY DEF BeginStep
<1>1. CASE Acquire(c) BY <1>0, <1>1 DEF Acquire, Enter, coreVars, storeVars
<1>2. CASE GateTimesOut(c) BY <1>0, <1>2 DEF GateTimesOut, Enter, coreVars, storeVars
<1>3. CASE RefuseBusy(c)
  <2>1. verdict' \in [Caller -> Record \cup {NoRecord, BusyRecord, LostRecord}]
    BY <1>3, RefuseType DEF RefuseBusy
  <2> QED BY <1>0, <1>3, <2>1 DEF RefuseBusy, Enter, coreVars, storeVars
<1>4. CASE RefuseReplay(c)
  <2>1. verdict' \in [Caller -> Record \cup {NoRecord, BusyRecord, LostRecord}]
    BY <1>4, RefuseType DEF RefuseReplay
  <2> QED BY <1>0, <1>4, <2>1 DEF RefuseReplay, Leave, coreVars, storeVars
<1>5. CASE Admit(c)
  <2> DEFINE n == IF disk = NoRecord THEN 1 ELSE disk.attempt + 1
  <2>1. n \in Nat /\ n # 0 BY <1>5 DEF Admit, Blocked, Record
  <2>2. mem' = [mem EXCEPT ![c] = NewRecord(n)] BY <1>5 DEF Admit
  <2> HIDE DEF n
  <2>3. NewRecord(n) \in Record /\ NewRecord(n).attempt = n BY <2>1, NewIsOpen
  <2> QED BY <1>0, <1>5, <2>1, <2>2, <2>3 DEF Admit, Enter, coreVars, storeVars
<1>6. CASE WriteNew(c) BY <1>0, <1>6 DEF WriteNew, Enter, Leave, coreVars, storeVars
<1>7. CASE Collect(c) BY <1>0, <1>7 DEF Collect, Leave, coreVars, storeVars
<1> QED BY <1>1, <1>2, <1>3, <1>4, <1>5, <1>6, <1>7 DEF BeginStep, Begin

(* Every step keeps every type. *)
LEMMA TypeNext == TypeInv /\ ControlInv /\ [Next]_vars => TypeInv'
<1> SUFFICES ASSUME TypeInv, ControlInv, [Next]_vars PROVE TypeInv'
  OBVIOUS
<1>1. ASSUME NEW c \in Caller, NewResult(c) PROVE TypeInv'
  <2>1. EmptyMarker \in Marker BY DEF EmptyMarker, Marker
  <2>2. PICK k \in Kind : kind' = [kind EXCEPT ![c] = k] BY <1>1 DEF NewResult
  <2> QED BY <1>1, <2>1, <2>2 DEF NewResult, journalVars, storeVars, TypeInv, TypeOK, JournalTypeOK,
       MemInv, Passes
<1>2. ASSUME NEW c \in Caller, StartPass(c) PROVE TypeInv'
  BY <1>2 DEF StartPass, Call, Enter, coreVars, storeVars, TypeInv, TypeOK, JournalTypeOK, MemInv,
     Phase, Passes
<1>3. ASSUME NEW c \in Caller, FinishPass(c) PROVE TypeInv'
  <2> DEFINE rec == WithOutcome(mem[c], FromMapping(FinishResult(c)))
  <2>1. PICK ok \in BOOLEAN : /\ Finish(c, FinishResult(c), ok)
                              /\ Goto(c, IF ok THEN "audit" ELSE "lost")
    BY <1>3 DEF FinishPass
  <2>2. mem[c] \in Record /\ mem[c].attempt # 0 BY <2>1 DEF Finish, TypeInv, MemInv
  <2>3. rec \in Record /\ rec.attempt # 0 BY <2>2, FinishRecord
  <2>4. /\ phase[c] = "open"
        /\ \/ disk' = rec /\ Leave(c)
           \/ mem' = [mem EXCEPT ![c] = rec] /\ UNCHANGED <<disk, holder, phase>>
        /\ UNCHANGED <<verdict, calls>>
    BY <2>1 DEF Finish
  <2>5. at' \in [Caller -> At] BY <2>1 DEF Goto, TypeInv, TypeOK, At
  <2>6. UNCHANGED <<kind, marker, storeVars, passes, results>> BY <1>3 DEF FinishPass
  <2> HIDE DEF rec
  <2>7. JournalTypeOK' /\ MemInv'
    BY <2>3, <2>4 DEF Leave, TypeInv, TypeOK, JournalTypeOK, MemInv, Phase
  <2> QED BY <2>5, <2>6, <2>7 DEF storeVars, TypeInv, TypeOK
<1>4. ASSUME NEW c \in Caller, Abandon(c) PROVE TypeInv'
  BY <1>4 DEF Abandon, Enter, Goto, storeVars, TypeInv, TypeOK, JournalTypeOK, MemInv, Phase, At
<1>5. ASSUME NEW c \in Caller, Crash(c) PROVE TypeInv'
  <2>1. EmptyMarker \in Marker BY DEF EmptyMarker, Marker
  <2>2. JournalTypeOK' /\ MemInv'
    BY <1>5 DEF Crash, Die, Leave, TypeInv, TypeOK, JournalTypeOK, MemInv, Phase
  <2> QED BY <1>5, <2>1, <2>2 DEF Crash, Goto, storeVars, TypeInv, TypeOK, At, Passes
<1>6. CASE UNCHANGED vars
  BY <1>6 DEF vars, journalVars, coreVars, storeVars, TypeInv, TypeOK, JournalTypeOK, MemInv
<1> QED BY <1>1, <1>2, <1>3, <1>4, <1>5, <1>6, BeginTypes, CoreTypes DEF Next

-----------------------------------------------------------------------------
(* A step of the core stays inside the operation of its caller. *)
LEMMA CoreStays ==
  ASSUME TypeInv, ControlInv, NEW c \in Caller, Core(c)
  PROVE  /\ phase[c] = "open"
         /\ UNCHANGED <<disk, holder, phase, mem, verdict, kind, results>>
         /\ \E m, next : Note(c, m, next)
<1>1. PICK label \in At : CoreAt(c, label)
  BY DEF Core, Audit, Session, Upsert, Health, AuditActive, At
<1>2. kind[c] \in Kind BY <1>1 DEF CoreAt, ControlInv, TypeInv, TypeOK
<1>3. Audit(c) => \E m, next : Note(c, m, next)
  BY <1>2 DEF Audit, Completes, Raises, Kind, WithSession
<1>4. Session(c) => \E m, next : Note(c, m, next) BY DEF Session, Raises
<1>5. Upsert(c) => \E m, next : Note(c, m, next)
  BY DEF Upsert, Completes, Raises
<1>6. Health(c) => \E m, next : Note(c, m, next) BY DEF Health
<1>7. AuditActive(c) => \E m, next : Note(c, m, next)
  BY DEF AuditActive, Completes, Raises
<1>8. \E m, next : Note(c, m, next) BY <1>3, <1>4, <1>5, <1>6, <1>7 DEF Core
<1> QED BY <1>1, <1>8 DEF CoreAt, journalVars

(* The holder of the gate is the caller inside, and only that one. *)
LEMMA GateNext == TypeInv /\ ControlInv /\ GateInv /\ [Next]_vars => GateInv'
<1> SUFFICES ASSUME TypeInv, ControlInv, GateInv, [Next]_vars PROVE GateInv'
  OBVIOUS
<1> USE DEF TypeInv, TypeOK, JournalTypeOK, GateInv, Inside, Phase
<1>1. ASSUME NEW c \in Caller, NewResult(c) PROVE GateInv'
  BY <1>1 DEF NewResult, journalVars
<1>2. ASSUME NEW c \in Caller, StartPass(c) PROVE GateInv'
  BY <1>2 DEF StartPass, Call, Enter
<1>3. ASSUME NEW c \in Caller, BeginStep(c) PROVE GateInv'
  <2>1. CASE Acquire(c) BY <2>1, JournalAssumption DEF Acquire, Enter
  <2>2. CASE GateTimesOut(c) BY <2>2 DEF GateTimesOut, Enter
  <2>3. CASE RefuseBusy(c) BY <2>3 DEF RefuseBusy, Enter
  <2>4. CASE RefuseReplay(c) BY <2>4, JournalAssumption DEF RefuseReplay, Leave
  <2>5. CASE Admit(c) BY <2>5 DEF Admit, Enter
  <2>6. CASE WriteNew(c) BY <2>6, JournalAssumption DEF WriteNew, Enter, Leave
  <2>7. CASE Collect(c) BY <2>7, JournalAssumption DEF Collect, Leave
  <2> QED BY <1>3, <2>1, <2>2, <2>3, <2>4, <2>5, <2>6, <2>7 DEF BeginStep, Begin
<1>4. ASSUME NEW c \in Caller, Core(c) PROVE GateInv' BY <1>4, CoreStays
<1>5. ASSUME NEW c \in Caller, FinishPass(c) PROVE GateInv'
  BY <1>5, JournalAssumption DEF FinishPass, Finish, Leave
<1>6. ASSUME NEW c \in Caller, Abandon(c) PROVE GateInv'
  BY <1>6 DEF Abandon, Enter, ControlInv
<1>7. ASSUME NEW c \in Caller, Crash(c) PROVE GateInv'
  BY <1>7, JournalAssumption DEF Crash, Die, Leave
<1>8. CASE UNCHANGED vars BY <1>8 DEF vars, journalVars
<1> QED BY <1>1, <1>2, <1>3, <1>4, <1>5, <1>6, <1>7, <1>8 DEF Next
(* Only an open operation is in the core, and a verdict is news. *)
LEMMA ControlNext == TypeInv /\ ControlInv /\ [Next]_vars => ControlInv'
<1> SUFFICES ASSUME TypeInv, ControlInv, [Next]_vars PROVE ControlInv'
  OBVIOUS
<1> USE DEF TypeInv, TypeOK, JournalTypeOK, ControlInv
<1>1. ASSUME NEW c \in Caller, NewResult(c) PROVE ControlInv'
  <2>1. PICK k \in Kind : kind' = [kind EXCEPT ![c] = k] BY <1>1 DEF NewResult
  <2> QED BY <1>1, <2>1 DEF NewResult, journalVars, Kind
<1>2. ASSUME NEW c \in Caller, StartPass(c) PROVE ControlInv'
  BY <1>2 DEF StartPass, Call, Enter, coreVars
<1>3. ASSUME NEW c \in Caller, BeginStep(c) PROVE ControlInv'
  <2>1. UNCHANGED <<at, kind>> BY <1>3 DEF BeginStep, coreVars
  <2>2. CASE Acquire(c) \/ GateTimesOut(c) \/ Admit(c)
    BY <2>1, <2>2 DEF Acquire, GateTimesOut, Admit, Enter
  <2>3. CASE RefuseBusy(c) \/ RefuseReplay(c)
    BY <2>1, <2>3 DEF RefuseBusy, RefuseReplay, Refuse, Enter, Leave
  <2>4. CASE WriteNew(c) \/ Collect(c)
    BY <2>1, <2>4 DEF WriteNew, Collect, Enter, Leave
  <2> QED BY <1>3, <2>2, <2>3, <2>4 DEF BeginStep, Begin
<1>4. ASSUME NEW c \in Caller, Core(c) PROVE ControlInv'
  BY <1>4, CoreStays DEF Note, Goto
<1>5. ASSUME NEW c \in Caller, FinishPass(c) PROVE ControlInv'
  BY <1>5 DEF FinishPass, Finish, Leave, Goto
<1>6. ASSUME NEW c \in Caller, Abandon(c) PROVE ControlInv'
  BY <1>6 DEF Abandon, Enter, Goto
<1>7. ASSUME NEW c \in Caller, Crash(c) PROVE ControlInv'
  BY <1>7 DEF Crash, Die, Leave, Goto
<1>8. CASE UNCHANGED vars BY <1>8 DEF vars, journalVars, coreVars
<1> QED BY <1>1, <1>2, <1>3, <1>4, <1>5, <1>6, <1>7, <1>8 DEF Next

-----------------------------------------------------------------------------
\* Two markers that say the same of the stores.
Same(n, m) == /\ n.written = m.written /\ n.path = m.path
              /\ n.dbSaved = m.dbSaved /\ n.enqueued = m.enqueued

(* What each note changes of a marker. *)
LEMMA MarkerParts ==
  ASSUME NEW m \in Marker, NEW s, NEW b \in BOOLEAN, NEW n \in Nat
  PROVE  /\ Same([m EXCEPT !.pending = TRUE], m)
         /\ Same([m EXCEPT !.status = s], m)
         /\ Same([m EXCEPT !.active = TRUE], m)
         /\ Same([m EXCEPT !.dbCompleted = TRUE], m)
         /\ LET w == [m EXCEPT !.written = TRUE]
            IN w.written /\ w.path = m.path /\ w.dbSaved = m.dbSaved /\ w.enqueued = m.enqueued
         /\ LET w == [m EXCEPT !.path = n]
            IN w.path = n /\ w.written = m.written /\ w.dbSaved = m.dbSaved /\ w.enqueued = m.enqueued
         /\ LET w == [m EXCEPT !.dbSaved = b]
            IN w.dbSaved = b /\ w.written = m.written /\ w.path = m.path /\ w.enqueued = m.enqueued
         /\ LET w == [m EXCEPT !.enqueued = TRUE]
            IN w.enqueued /\ w.written = m.written /\ w.path = m.path /\ w.dbSaved = m.dbSaved
BY DEF Marker, Same

(* Completing or failing a result leaves its marker's claims alone. *)
LEMMA Ends ==
  ASSUME NEW c \in Caller, NEW m \in Marker, Completes(c, m) \/ Raises(c, m)
  PROVE  \E n : Note(c, n, "finish") /\ Same(n, m)
BY MarkerParts DEF Completes, Raises

(* A statement whose marker claims what is there keeps every claim. *)
LEMMA ClaimsKept ==
  ASSUME TypeInv, MarkerInv, NEW c \in Caller, NEW m, NEW next, Note(c, m, next),
         kind' = kind, files \subseteq files', row # NoRow => row' # NoRow,
         Claims(m, next, kind[c], files', row')
  PROVE  MarkerInv'
BY DEF TypeInv, TypeOK, MarkerInv, Claims, Note, Goto

(* The marker is noted after the store it speaks of, and never the other way. *)
LEMMA CoreClaims ==
  ASSUME TypeInv, ControlInv, MarkerInv, RowHasItsFile, NEW c \in Caller, Core(c)
  PROVE  MarkerInv' /\ RowHasItsFile' /\ (row # NoRow => row' # NoRow)
<1>1. phase[c] = "open" /\ kind' = kind BY CoreStays
<1>2. kind[c] \in Kind BY <1>1 DEF ControlInv, TypeInv, TypeOK
<1>3. marker[c] \in Marker /\ Claims(marker[c], at[c], kind[c], files, row)
  BY DEF TypeInv, TypeOK, MarkerInv
<1>5. CASE Audit(c)
  <2> DEFINE m == [marker[c] EXCEPT !.pending = TRUE]
  <2>1. UNCHANGED storeVars BY <1>5 DEF Audit, Raises
  <2>2. m \in Marker /\ Same(m, marker[c]) BY <1>3, MarkerType, MarkerParts
  <2>3. \/ Completes(c, m) \/ Raises(c, marker[c]) \/ Note(c, m, "session")
        \/ Note(c, m, "upsert") /\ kind[c] = "partial"
    BY <1>2, <1>5 DEF Audit, Kind, WithSession
  <2> HIDE DEF m
  <2>4. PICK n, next : /\ Note(c, n, next) /\ Same(n, marker[c])
                       /\ (next = "upsert" => kind[c] \notin WithSession)
    <3>1. CASE Completes(c, m) BY <2>2, <3>1, Ends DEF Same
    <3>2. CASE Raises(c, marker[c]) BY <1>3, <3>2, Ends
    <3>3. CASE Note(c, m, "session") BY <2>2, <3>3
    <3>4. CASE Note(c, m, "upsert") /\ kind[c] = "partial" BY <2>2, <3>4 DEF WithSession
    <3> QED BY <2>3, <3>1, <3>2, <3>3, <3>4
  <2>5. Claims(n, next, kind[c], files', row') BY <1>3, <2>1, <2>4 DEF Claims, Same, storeVars
  <2> QED BY <1>1, <2>1, <2>4, <2>5, ClaimsKept DEF storeVars, RowHasItsFile
<1>6. CASE Session(c)
  <2> DEFINE path == IF marker[c].path = 0 THEN mem[c].attempt ELSE marker[c].path
             m == [marker[c] EXCEPT !.path = path]
  <2>1. /\ row' = row
        /\ \/ /\ Note(c, [m EXCEPT !.written = TRUE], "upsert")
              /\ files' = IF m.written THEN files ELSE files \cup {m.path}
           \/ ~m.written /\ Raises(c, m) /\ files' = files
    BY <1>6 DEF Session, Raises, storeVars
  <2>2. mem[c].attempt \in Nat /\ mem[c].attempt # 0 BY <1>1 DEF TypeInv, MemInv, Record
  <2>3. path \in Nat /\ path # 0 /\ (marker[c].path # 0 => path = marker[c].path)
    BY <1>3, <2>2 DEF Marker
  <2> HIDE DEF path
  <2>4. /\ m \in Marker /\ m.path = path /\ m.written = marker[c].written
        /\ m.dbSaved = marker[c].dbSaved
    BY <1>3, <2>3 DEF Marker
  <2> HIDE DEF m
  <2>5. m.written => m.path \in files BY <1>3, <2>3, <2>4 DEF Claims
  <2>6. files \subseteq files' BY <2>1
  <2>7. CASE /\ Note(c, [m EXCEPT !.written = TRUE], "upsert")
             /\ files' = IF m.written THEN files ELSE files \cup {m.path}
    <3> DEFINE n == [m EXCEPT !.written = TRUE]
    <3>1. n.written /\ n.path = m.path /\ n.dbSaved = m.dbSaved BY <2>4, MarkerParts
    <3>2. Note(c, n, "upsert") BY <2>7
    <3>3. m.path \in files' BY <2>5, <2>7
    <3> HIDE DEF n
    <3>4. Claims(n, "upsert", kind[c], files', row')
      BY <1>3, <2>1, <2>3, <2>4, <3>1, <3>3 DEF Claims
    <3> QED BY <1>1, <2>1, <2>6, <3>2, <3>4, ClaimsKept DEF RowHasItsFile
  <2>8. CASE ~m.written /\ Raises(c, m) /\ files' = files
    <3>1. PICK n : Note(c, n, "finish") /\ Same(n, m) BY <2>4, <2>8, Ends
    <3>2. Claims(n, "finish", kind[c], files', row')
      BY <1>3, <2>1, <2>4, <2>8, <3>1 DEF Claims, Same
    <3> QED BY <1>1, <2>1, <2>6, <3>1, <3>2, ClaimsKept DEF RowHasItsFile
  <2> QED BY <2>1, <2>7, <2>8
<1>7. CASE Upsert(c)
  <2> DEFINE m == [marker[c] EXCEPT !.dbCompleted = TRUE]
  <2>1. files' = files /\ at[c] = "upsert" BY <1>7 DEF Upsert, CoreAt
  <2>2. m \in Marker /\ Same(m, marker[c]) BY <1>3, MarkerType, MarkerParts
  <2>3. \/ UNCHANGED row /\ Note(c, m, "health")
        \/ \E saved \in BOOLEAN :
             /\ row' = IF saved THEN [kind |-> kind[c], path |-> m.path] ELSE row
             /\ \/ Completes(c, [m EXCEPT !.dbSaved = saved])
                \/ Note(c, [m EXCEPT !.dbSaved = saved], "health")
        \/ UNCHANGED row /\ Raises(c, marker[c])
    BY <1>7 DEF Upsert, Raises, storeVars
  <2> HIDE DEF m
  <2>4. kind[c] \in WithSession => m.path \in files BY <1>3, <2>1, <2>2 DEF Claims, Same
  <2>5. CASE UNCHANGED row /\ Note(c, m, "health")
    <3>1. Claims(m, "health", kind[c], files', row') BY <1>3, <2>1, <2>2, <2>5 DEF Claims, Same
    <3> QED BY <1>1, <2>1, <2>5, <3>1, ClaimsKept DEF RowHasItsFile
  <2>6. CASE UNCHANGED row /\ Raises(c, marker[c])
    <3>1. PICK n : Note(c, n, "finish") /\ Same(n, marker[c]) BY <1>3, <2>6, Ends
    <3>2. Claims(n, "finish", kind[c], files', row') BY <1>3, <2>1, <2>6, <3>1 DEF Claims, Same
    <3> QED BY <1>1, <2>1, <2>6, <3>1, <3>2, ClaimsKept DEF RowHasItsFile
  <2>7. ASSUME NEW saved \in BOOLEAN,
               row' = IF saved THEN [kind |-> kind[c], path |-> m.path] ELSE row,
               \/ Completes(c, [m EXCEPT !.dbSaved = saved])
               \/ Note(c, [m EXCEPT !.dbSaved = saved], "health")
        PROVE  MarkerInv' /\ RowHasItsFile' /\ (row # NoRow => row' # NoRow)
    <3> DEFINE w == [m EXCEPT !.dbSaved = saved]
    <3>1. w \in Marker /\ w.dbSaved = saved /\ w.written = m.written /\ w.path = m.path
      BY <2>2 DEF Marker
    <3>2. Completes(c, w) \/ Note(c, w, "health") BY <2>7
    <3> HIDE DEF w
    <3>3. PICK n, next : Note(c, n, next) /\ Same(n, w) /\ next # "upsert"
      <4>1. CASE Completes(c, w) BY <3>1, <4>1, Ends
      <4>2. CASE Note(c, w, "health") BY <4>2 DEF Same
      <4> QED BY <3>2, <4>1, <4>2
    <3>4. saved => row' # NoRow BY <1>2, <2>7 DEF NoRow, Kind
    <3>5. row # NoRow => row' # NoRow BY <2>7, <3>4
    <3>6. Claims(n, next, kind[c], files', row')
      BY <1>3, <2>1, <2>2, <3>1, <3>3, <3>4 DEF Claims, Same
    <3>7. MarkerInv' BY <1>1, <2>1, <3>3, <3>5, <3>6, ClaimsKept
    <3>8. RowHasItsFile' BY <2>1, <2>4, <2>7 DEF RowHasItsFile
    <3> QED BY <3>5, <3>7, <3>8
  <2> QED BY <2>3, <2>5, <2>6, <2>7
<1>8. CASE Health(c)
  <2> DEFINE m == [marker[c] EXCEPT !.enqueued = TRUE]
  <2>1. files' = files /\ row' = row BY <1>8 DEF Health
  <2>2. PICK n : /\ Note(c, n, "done") /\ n.written = marker[c].written
                 /\ n.path = marker[c].path /\ n.dbSaved = marker[c].dbSaved
    <3>1. m.written = marker[c].written /\ m.path = marker[c].path /\ m.dbSaved = marker[c].dbSaved
      BY <1>3, MarkerParts
    <3>2. Note(c, m, "done") \/ Note(c, marker[c], "done") BY <1>8 DEF Health
    <3> HIDE DEF m
    <3> QED BY <3>1, <3>2
  <2>3. Claims(n, "done", kind[c], files', row') BY <1>3, <2>1, <2>2 DEF Claims
  <2> QED BY <1>1, <2>1, <2>2, <2>3, ClaimsKept DEF RowHasItsFile
<1>9. CASE AuditActive(c)
  <2> DEFINE m == [marker[c] EXCEPT !.active = TRUE]
  <2>1. UNCHANGED storeVars BY <1>9 DEF AuditActive, Raises
  <2>2. m \in Marker /\ Same(m, marker[c]) BY <1>3, MarkerType, MarkerParts
  <2>3. Completes(c, m) \/ Raises(c, marker[c]) BY <1>9 DEF AuditActive
  <2> HIDE DEF m
  <2>4. PICK n : Note(c, n, "finish") /\ Same(n, marker[c])
    <3>1. CASE Completes(c, m) BY <2>2, <3>1, Ends DEF Same
    <3>2. CASE Raises(c, marker[c]) BY <1>3, <3>2, Ends
    <3> QED BY <2>3, <3>1, <3>2
  <2>5. Claims(n, "finish", kind[c], files', row') BY <1>3, <2>1, <2>4 DEF Claims, Same, storeVars
  <2> QED BY <1>1, <2>1, <2>4, <2>5, ClaimsKept DEF storeVars, RowHasItsFile
<1> QED BY <1>5, <1>6, <1>7, <1>8, <1>9 DEF Core
(* A marker of the empty result claims nothing. *)
LEMMA EmptyClaims ==
  ASSUME NEW k, NEW fs, NEW r PROVE Claims(EmptyMarker, "audit", k, fs, r)
BY DEF EmptyMarker, Claims

(* No step takes back what a marker claims, or the file of a row. *)
LEMMA MarkerNext ==
  TypeInv /\ ControlInv /\ MarkerInv /\ RowHasItsFile /\ [Next]_vars
    => MarkerInv' /\ RowHasItsFile' /\ (row # NoRow => row' # NoRow)
<1> SUFFICES ASSUME TypeInv, ControlInv, MarkerInv, RowHasItsFile, [Next]_vars
             PROVE  MarkerInv' /\ RowHasItsFile' /\ (row # NoRow => row' # NoRow)
  OBVIOUS
<1>0. ASSUME UNCHANGED storeVars, MarkerInv'
      PROVE  MarkerInv' /\ RowHasItsFile' /\ (row # NoRow => row' # NoRow)
  BY <1>0 DEF storeVars, RowHasItsFile
<1> USE DEF TypeInv, TypeOK, MarkerInv
<1>1. ASSUME NEW c \in Caller, NewResult(c)
      PROVE  MarkerInv' /\ RowHasItsFile' /\ (row # NoRow => row' # NoRow)
  <2>1. UNCHANGED <<storeVars, at>> BY <1>1 DEF NewResult
  <2>2. PICK k \in Kind : kind' = [kind EXCEPT ![c] = k] BY <1>1 DEF NewResult
  <2>3. marker' = [marker EXCEPT ![c] = EmptyMarker] /\ at[c] = "audit"
    BY <1>1 DEF NewResult, ControlInv
  <2>4. Claims(EmptyMarker, at[c], k, files, row) BY <2>3, EmptyClaims
  <2>5. MarkerInv' BY <2>1, <2>2, <2>3, <2>4 DEF storeVars
  <2> QED BY <1>0, <2>1, <2>5
<1>2. ASSUME NEW c \in Caller, StartPass(c) \/ BeginStep(c)
      PROVE  MarkerInv' /\ RowHasItsFile' /\ (row # NoRow => row' # NoRow)
  <2>1. UNCHANGED <<coreVars, storeVars>> BY <1>2 DEF StartPass, BeginStep
  <2>2. MarkerInv' BY <2>1 DEF coreVars, storeVars
  <2> QED BY <1>0, <2>1, <2>2
<1>3. ASSUME NEW c \in Caller, FinishPass(c) \/ Abandon(c)
      PROVE  MarkerInv' /\ RowHasItsFile' /\ (row # NoRow => row' # NoRow)
  <2>1. UNCHANGED <<kind, marker, storeVars>> BY <1>3 DEF FinishPass, Abandon
  <2>2. \E label \in At \ {"upsert"} : at' = [at EXCEPT ![c] = label]
    BY <1>3 DEF FinishPass, Abandon, Goto, At
  <2>3. MarkerInv' BY <2>1, <2>2 DEF Claims, storeVars
  <2> QED BY <1>0, <2>1, <2>3
<1>4. ASSUME NEW c \in Caller, Crash(c)
      PROVE  MarkerInv' /\ RowHasItsFile' /\ (row # NoRow => row' # NoRow)
  <2>1. UNCHANGED storeVars BY <1>4 DEF Crash
  <2>2. /\ at' = [at EXCEPT ![c] = "audit"] /\ kind' = [kind EXCEPT ![c] = "none"]
        /\ marker' = [marker EXCEPT ![c] = EmptyMarker]
    BY <1>4 DEF Crash, Goto
  <2>3. Claims(EmptyMarker, "audit", "none", files, row) BY EmptyClaims
  <2>4. MarkerInv' BY <2>1, <2>2, <2>3 DEF storeVars
  <2> QED BY <1>0, <2>1, <2>4
<1>5. CASE UNCHANGED vars
  <2>1. UNCHANGED <<coreVars, storeVars>> BY <1>5 DEF vars
  <2>2. MarkerInv' BY <2>1 DEF coreVars, storeVars
  <2> QED BY <1>0, <2>1, <2>2
<1> QED BY <1>1, <1>2, <1>3, <1>4, <1>5, CoreClaims DEF Next

-----------------------------------------------------------------------------
(* A step that writes no record, while whoever is inside works on an open key. *)
LEMMA DiskKept ==
  ASSUME DiskInv, disk' = disk, row # NoRow => row' # NoRow,
         \A c \in Caller : phase'[c] \in {"admitted", "open"} =>
           phase[c] \in {"admitted", "open"} \/ ~Blocked(disk),
         TypeInv
  PROVE  DiskInv'
<1>1. Closed => Blocked(disk) BY RecordBlocks DEF Closed, TypeInv, TypeOK, JournalTypeOK
<1>2. Blocked(disk') <=> Blocked(disk) BY DEF Blocked
<1>3. Closed' <=> Closed BY DEF Closed
<1> QED BY <1>1, <1>2, <1>3 DEF DiskInv

(* A record refuses the next call only when its row is there, and closes its
   key only when its caller is gone. *)
LEMMA DiskNext ==
  LaneInv /\ [Next]_vars => DiskInv'
<1> SUFFICES ASSUME LaneInv, [Next]_vars PROVE DiskInv'
  OBVIOUS
<1>0. row # NoRow => row' # NoRow BY MarkerNext DEF LaneInv
<1> USE DEF LaneInv
<1>1. ASSUME NEW c \in Caller, NewResult(c) PROVE DiskInv'
  BY <1>0, <1>1, DiskKept DEF NewResult, journalVars
<1>2. ASSUME NEW c \in Caller, StartPass(c) PROVE DiskInv'
  BY <1>0, <1>2, DiskKept DEF StartPass, Call, Enter, TypeInv, TypeOK, JournalTypeOK
<1>3. ASSUME NEW c \in Caller, BeginStep(c) PROVE DiskInv'
  <2> USE DEF TypeInv, TypeOK, JournalTypeOK
  <2>1. CASE Acquire(c) \/ GateTimesOut(c)
    BY <1>0, <2>1, DiskKept DEF Acquire, GateTimesOut, Enter
  <2>2. CASE RefuseBusy(c) \/ RefuseReplay(c)
    BY <1>0, <2>2, DiskKept DEF RefuseBusy, RefuseReplay, Enter, Leave
  <2>3. CASE Admit(c) BY <1>0, <2>3, DiskKept DEF Admit, Enter
  <2>4. CASE Collect(c) BY <1>0, <2>4, DiskKept DEF Collect, Leave
  <2>5. CASE WriteNew(c)
    <3>1. CASE disk' = mem[c] /\ Enter(c, "open")
      <4>1. mem[c] \in Record /\ mem[c] = NewRecord(mem[c].attempt) /\ mem[c].attempt \in Nat
        BY <2>5 DEF WriteNew, MemInv, Record
      <4>2. ReplayAllowed(mem[c]) /\ mem[c].status # "completed" BY <4>1, NewIsOpen
      <4>3. ~Blocked(disk') BY <3>1, <4>1, <4>2, RecordBlocks
      <4>4. disk' # Unreadable /\ ~Closed' BY <3>1, <4>1, <4>2, JournalAssumption DEF Closed
      <4> QED BY <4>3, <4>4 DEF DiskInv
    <3>2. CASE Leave(c) /\ UNCHANGED disk BY <1>0, <3>2, DiskKept DEF Leave
    <3> QED BY <2>5, <3>1, <3>2 DEF WriteNew
  <2> QED BY <1>3, <2>1, <2>2, <2>3, <2>4, <2>5 DEF BeginStep, Begin
<1>4. ASSUME NEW c \in Caller, Core(c) PROVE DiskInv'
  BY <1>0, <1>4, CoreStays, DiskKept
<1>5. ASSUME NEW c \in Caller, FinishPass(c) PROVE DiskInv'
  <2> DEFINE rec == WithOutcome(mem[c], FromMapping(FinishResult(c)))
  <2>1. PICK ok \in BOOLEAN : Finish(c, FinishResult(c), ok) BY <1>5 DEF FinishPass
  <2>2. /\ phase[c] = "open"
        /\ \/ disk' = rec /\ Leave(c)
           \/ UNCHANGED <<disk, phase>>
    BY <2>1 DEF Finish
  <2>3. UNCHANGED <<marker, row>> BY <1>5 DEF FinishPass, storeVars
  <2>4. rec \in Record /\ (~marker[c].dbSaved => ReplayAllowed(rec))
    BY <2>2, FinishRecord DEF TypeInv, MemInv
  <2> HIDE DEF rec
  <2>5. CASE UNCHANGED <<disk, phase>> BY <1>0, <2>5, DiskKept
  <2>6. CASE disk' = rec /\ Leave(c)
    <3>1. marker[c].dbSaved => row # NoRow BY DEF MarkerInv, Claims
    <3>2. Blocked(disk') => row' # NoRow BY <2>3, <2>4, <2>6, <3>1, RecordBlocks
    <3>3. \A d \in Caller : phase'[d] \notin {"admitted", "open"}
      BY <2>2, <2>6 DEF Leave, GateInv, Inside, TypeInv, TypeOK, JournalTypeOK
    <3>4. disk' # Unreadable BY <2>4, <2>6, JournalAssumption
    <3> QED BY <3>2, <3>3, <3>4 DEF DiskInv
  <2> QED BY <2>2, <2>5, <2>6
<1>6. ASSUME NEW c \in Caller, Abandon(c) PROVE DiskInv'
  BY <1>0, <1>6, DiskKept DEF Abandon, Enter, TypeInv, TypeOK, JournalTypeOK
<1>7. ASSUME NEW c \in Caller, Crash(c) PROVE DiskInv'
  BY <1>0, <1>7, DiskKept DEF Crash, Die, Leave, TypeInv, TypeOK, JournalTypeOK
<1>8. CASE UNCHANGED vars BY <1>0, <1>8, DiskKept DEF vars, journalVars
<1> QED BY <1>1, <1>2, <1>3, <1>4, <1>5, <1>6, <1>7, <1>8 DEF Next
(* The four invariants and the file of the row hold together. *)
LEMMA LaneInvInit == Init => LaneInv
<1> SUFFICES ASSUME Init PROVE LaneInv
  OBVIOUS
<1>1. TypeInv BY TypeInit
<1>2. GateInv BY JournalAssumption DEF Init, JournalInit, GateInv, Inside
<1>3. ControlInv BY DEF Init, JournalInit, ControlInv
<1>4. MarkerInv BY EmptyClaims DEF Init, MarkerInv
<1>5. DiskInv BY JournalAssumption DEF Init, JournalInit, DiskInv, Blocked
<1>6. RowHasItsFile BY DEF Init, NoRow, RowHasItsFile, WithSession
<1> QED BY <1>1, <1>2, <1>3, <1>4, <1>5, <1>6 DEF LaneInv

(* Every step keeps all of them. *)
LEMMA LaneInvNext == LaneInv /\ [Next]_vars => LaneInv'
BY TypeNext, GateNext, ControlNext, MarkerNext, DiskNext DEF LaneInv

(* So they hold in every state of the lane. *)
LEMMA LaneInvAlways == Spec => []LaneInv
BY LaneInvInit, LaneInvNext, PTL DEF Spec

(* Every marker, row and record is of its type, for any callers and calls,
   whatever raises. *)
THEOREM LaneTypeCorrect == Spec => []TypeOK
<1>1. LaneInv => TypeOK BY DEF LaneInv, TypeInv
<1> QED BY <1>1, LaneInvAlways, PTL

(* upsert_account never saves a row whose session file is not there: the file
   comes before the row in every pass of every result, over all exceptions,
   deaths and second passes. *)
THEOREM EveryRowHasItsFile == Spec => []RowHasItsFile
<1>1. LaneInv => RowHasItsFile BY DEF LaneInv
<1> QED BY <1>1, LaneInvAlways, PTL

(* A caller of persist_registration_result that is refused by a record it could
   read under the gate has read one that stands for a saved row. *)
THEOREM RefusalIsTrue == Spec => RefusedMeansSaved
<1>1. ASSUME LaneInv, [Next]_vars, NEW c \in Caller,
             RefusedByRecord(c)
      PROVE  row # NoRow
  <2> USE DEF LaneInv, TypeInv, TypeOK, JournalTypeOK, RefusedByRecord
  <2>1. verdict[c] = NoRecord BY <1>1 DEF ControlInv
  <2>2. verdict' # verdict /\ phase' # phase BY <1>1, <2>1
  <2>3. PICK d \in Caller : StartPass(d) \/ BeginStep(d)
    <3>1. ASSUME NEW d \in Caller, NewResult(d) PROVE FALSE
      BY <2>2, <3>1 DEF NewResult, journalVars
    <3>2. ASSUME NEW d \in Caller, Core(d) PROVE FALSE BY <1>1, <2>2, <3>2, CoreStays
    <3>3. ASSUME NEW d \in Caller, FinishPass(d) \/ Abandon(d) \/ Crash(d) PROVE FALSE
      <4>1. CASE FinishPass(d) BY <2>2, <4>1 DEF FinishPass, Finish
      <4>2. CASE Abandon(d) BY <2>2, <4>2 DEF Abandon
      <4>3. CASE Crash(d) BY <2>2, <4>3 DEF Crash, Die
      <4> QED BY <3>3, <4>1, <4>2, <4>3
    <3>4. CASE UNCHANGED vars BY <2>2, <3>4 DEF vars, journalVars
    <3> QED BY <1>1, <3>1, <3>2, <3>3, <3>4 DEF Next
  <2>4. CASE StartPass(d) BY <1>1, <2>4 DEF StartPass, Call, Enter
  <2>5. CASE BeginStep(d)
    <3>1. CASE RefuseReplay(d)
      <4>1. PICK seen \in Reads : Blocked(seen) /\ Refuse(d, seen) BY <3>1 DEF RefuseReplay
      <4>2. d = c BY <1>1, <2>1, <4>1 DEF Refuse
      <4>3. seen # Unreadable BY <1>1, <4>1, <4>2, JournalAssumption DEF Refuse
      <4>4. seen = disk BY <4>1, <4>3 DEF Reads, Blocked
      <4> QED BY <4>1, <4>4, <1>1 DEF DiskInv
    <3>2. CASE RefuseBusy(d) BY <1>1, <3>2, <2>1 DEF RefuseBusy, Refuse, Enter
    <3>3. CASE Acquire(d) \/ GateTimesOut(d) \/ Admit(d) \/ WriteNew(d) \/ Collect(d)
      BY <2>2, <3>3 DEF Acquire, GateTimesOut, Admit, WriteNew, Collect
    <3> QED BY <2>5, <3>1, <3>2, <3>3 DEF BeginStep, Begin
  <2> QED BY <2>3, <2>4, <2>5
<1>2. LaneInv /\ [Next]_vars =>
        [\A c \in Caller : RefusedByRecord(c) => row # NoRow]_vars
  BY <1>1
<1> QED BY <1>2, LaneInvAlways, PTL DEF Spec, RefusedMeansSaved

(* After a record says completed nobody touches the files, the row or the
   health queue for its key again, and the record stays completed. *)
THEOREM CompletedIsFinal == Spec => CompletedClosesKey
<1>1. ASSUME LaneInv, [Next]_vars, Closed PROVE Closed' /\ UNCHANGED storeVars
  <2> USE DEF LaneInv
  <2>0. \A c \in Caller : phase[c] \notin {"admitted", "open"} BY <1>1 DEF DiskInv
  <2>1. ASSUME disk' = disk, UNCHANGED storeVars PROVE Closed' /\ UNCHANGED storeVars
    BY <1>1, <2>1 DEF Closed
  <2>2. ASSUME NEW c \in Caller, NewResult(c) \/ StartPass(c) \/ Abandon(c) \/ Crash(c)
        PROVE  disk' = disk /\ UNCHANGED storeVars
    BY <2>2 DEF NewResult, StartPass, Call, Abandon, Crash, Die, journalVars
  <2>3. ASSUME NEW c \in Caller, BeginStep(c) PROVE disk' = disk /\ UNCHANGED storeVars
    <3>1. ~WriteNew(c) BY <2>0 DEF WriteNew
    <3> QED BY <2>3, <3>1 DEF BeginStep, Begin, Acquire, GateTimesOut, RefuseBusy, RefuseReplay,
         Admit, Collect
  <2>4. ASSUME NEW c \in Caller, Core(c) \/ FinishPass(c) PROVE FALSE
    <3>1. CASE Core(c) BY <1>1, <2>0, <3>1, CoreStays
    <3>2. CASE FinishPass(c) BY <2>0, <3>2 DEF FinishPass, Finish
    <3> QED BY <2>4, <3>1, <3>2
  <2>5. CASE UNCHANGED vars BY <2>1, <2>5 DEF vars, journalVars
  <2> QED BY <1>1, <2>1, <2>2, <2>3, <2>4, <2>5 DEF Next
<1>2. LaneInv /\ [Next]_vars => [Closed => Closed' /\ UNCHANGED storeVars]_vars
  BY <1>1
<1> QED BY <1>2, LaneInvAlways, PTL DEF Spec, CompletedClosesKey

-----------------------------------------------------------------------------
(* A part of a finite set is finite and no larger. *)
LEMMA Part ==
  ASSUME NEW S, NEW T, IsFiniteSet(S), T \subseteq S
  PROVE  IsFiniteSet(T) /\ Cardinality(T) <= Cardinality(S)
         /\ Cardinality(T) \in Nat /\ Cardinality(S) \in Nat
BY FS_Subset, FS_CardinalityType

(* A set with at most one element more. *)
LEMMA OneMore ==
  ASSUME NEW S, NEW T, NEW x, IsFiniteSet(S), T \subseteq S \cup {x}
  PROVE  IsFiniteSet(T) /\ Cardinality(T) <= Cardinality(S) + 1
         /\ Cardinality(T) \in Nat /\ Cardinality(S) \in Nat
<1>0. Cardinality(S) \in Nat BY FS_CardinalityType
<1>1. /\ IsFiniteSet(S \cup {x}) /\ Cardinality(S) \in Nat
      /\ Cardinality(S \cup {x}) <= Cardinality(S) + 1
  BY <1>0, FS_AddElement
<1>2. /\ IsFiniteSet(T) /\ Cardinality(T) <= Cardinality(S \cup {x})
      /\ Cardinality(T) \in Nat /\ Cardinality(S \cup {x}) \in Nat
  BY <1>1, Part
<1> QED BY <1>1, <1>2

(* A set with at least one element less. *)
LEMMA OneLess ==
  ASSUME NEW S, NEW T, NEW x \in S, IsFiniteSet(S), T \subseteq S \ {x}
  PROVE  IsFiniteSet(T) /\ Cardinality(T) + 1 <= Cardinality(S)
         /\ Cardinality(T) \in Nat /\ Cardinality(S) \in Nat
<1>0. Cardinality(S) \in Nat BY FS_CardinalityType
<1>1. IsFiniteSet(S \ {x}) /\ Cardinality(S \ {x}) = Cardinality(S) - 1
  BY FS_RemoveElement
<1>2. /\ IsFiniteSet(T) /\ Cardinality(T) <= Cardinality(S \ {x}) /\ Cardinality(T) \in Nat
  BY <1>1, Part
<1> QED BY <1>0, <1>1, <1>2

(* A step that writes a file or enqueues checks takes them from what its own
   result still had to come. *)
LEMMA CoreSpends ==
  ASSUME TypeInv, ControlInv, NEW c \in Caller, Core(c)
  PROVE  /\ marker[c].written => marker'[c].written
         /\ marker[c].enqueued => marker'[c].enqueued
         /\ \/ files' = files
            \/ ~marker[c].written /\ marker'[c].written /\ \E x : files' = files \cup {x}
         /\ \/ jobs' = jobs
            \/ ~marker[c].enqueued /\ marker'[c].enqueued /\ jobs' = jobs + 1
<1>1. marker[c] \in Marker /\ marker \in [Caller -> Marker] BY DEF TypeInv, TypeOK
<1>2. kind[c] \in Kind BY CoreStays DEF ControlInv, TypeInv, TypeOK
<1>3. \A n, next : Note(c, n, next) => marker'[c] = n BY <1>1 DEF Note
<1>4. ASSUME NEW n, NEW next, Note(c, n, next), Same(n, marker[c]), UNCHANGED storeVars
      PROVE  /\ marker'[c].written = marker[c].written /\ marker'[c].enqueued = marker[c].enqueued
             /\ files' = files /\ jobs' = jobs
  BY <1>3, <1>4 DEF Same, storeVars
<1>5. CASE Audit(c)
  <2> DEFINE m == [marker[c] EXCEPT !.pending = TRUE]
  <2>1. UNCHANGED storeVars BY <1>5 DEF Audit, Raises
  <2>2. m \in Marker /\ Same(m, marker[c]) BY <1>1, MarkerType, MarkerParts
  <2>3. Completes(c, m) \/ Raises(c, marker[c]) \/ Note(c, m, "session") \/ Note(c, m, "upsert")
    BY <1>2, <1>5 DEF Audit, Kind, WithSession
  <2> HIDE DEF m
  <2>4. \E n, next : Note(c, n, next) /\ Same(n, marker[c])
    <3>1. CASE Completes(c, m) BY <2>2, <3>1, Ends DEF Same
    <3>2. CASE Raises(c, marker[c]) BY <1>1, <3>2, Ends
    <3> QED BY <2>2, <2>3, <3>1, <3>2
  <2> QED BY <1>4, <2>1, <2>4
<1>6. CASE Session(c)
  <2> DEFINE m == [marker[c] EXCEPT !.path = IF @ = 0 THEN mem[c].attempt ELSE @]
             w == [m EXCEPT !.written = TRUE]
  <2>1. /\ jobs' = jobs
        /\ \/ /\ Note(c, w, "upsert")
              /\ files' = IF m.written THEN files ELSE files \cup {m.path}
           \/ ~m.written /\ Raises(c, m) /\ files' = files
    BY <1>6 DEF Session, Raises, storeVars
  <2>2. mem[c].attempt \in Nat BY CoreStays DEF TypeInv, MemInv, Record
  <2>3. m \in Marker /\ m.written = marker[c].written /\ m.enqueued = marker[c].enqueued
    BY <1>1, <2>2 DEF Marker
  <2> HIDE DEF m
  <2>4. w.written /\ w.enqueued = m.enqueued BY <2>3, MarkerParts
  <2> HIDE DEF w
  <2>5. CASE Note(c, w, "upsert") /\ files' = IF m.written THEN files ELSE files \cup {m.path}
    BY <1>3, <2>1, <2>3, <2>4, <2>5
  <2>6. CASE Raises(c, m) /\ files' = files
    <3>1. PICK n : Note(c, n, "finish") /\ Same(n, m) BY <2>3, <2>6, Ends
    <3> QED BY <1>3, <2>1, <2>3, <2>6, <3>1 DEF Same
  <2> QED BY <2>1, <2>5, <2>6
<1>7. CASE Upsert(c)
  <2> DEFINE m == [marker[c] EXCEPT !.dbCompleted = TRUE]
  <2>1. files' = files /\ jobs' = jobs BY <1>7 DEF Upsert
  <2>2. m \in Marker /\ Same(m, marker[c]) BY <1>1, MarkerType, MarkerParts
  <2>3. \/ Note(c, m, "health")
        \/ \E saved \in BOOLEAN : \/ Completes(c, [m EXCEPT !.dbSaved = saved])
                                  \/ Note(c, [m EXCEPT !.dbSaved = saved], "health")
        \/ Raises(c, marker[c])
    BY <1>7 DEF Upsert
  <2> HIDE DEF m
  <2>4. \E n, next : /\ Note(c, n, next) /\ n.written = marker[c].written
                     /\ n.enqueued = marker[c].enqueued
    <3>1. CASE Note(c, m, "health") BY <2>2, <3>1 DEF Same
    <3>2. CASE Raises(c, marker[c]) BY <1>1, <3>2, Ends DEF Same
    <3>3. ASSUME NEW saved \in BOOLEAN,
                 \/ Completes(c, [m EXCEPT !.dbSaved = saved])
                 \/ Note(c, [m EXCEPT !.dbSaved = saved], "health")
          PROVE  \E n, next : /\ Note(c, n, next) /\ n.written = marker[c].written
                              /\ n.enqueued = marker[c].enqueued
      <4> DEFINE w == [m EXCEPT !.dbSaved = saved]
      <4>1. w \in Marker /\ w.written = marker[c].written /\ w.enqueued = marker[c].enqueued
        BY <2>2 DEF Marker, Same
      <4>2. Completes(c, w) \/ Note(c, w, "health") BY <3>3
      <4> HIDE DEF w
      <4> QED BY <4>1, <4>2, Ends DEF Same
    <3> QED BY <2>3, <3>1, <3>2, <3>3
  <2> QED BY <1>3, <2>1, <2>4
<1>8. CASE Health(c)
  <2> DEFINE m == [marker[c] EXCEPT !.enqueued = TRUE]
  <2>1. /\ files' = files
        /\ \/ Note(c, m, "done") /\ ~marker[c].enqueued /\ jobs' = jobs + 1
           \/ Note(c, marker[c], "done") /\ jobs' = jobs
    BY <1>8 DEF Health
  <2>2. m.enqueued /\ m.written = marker[c].written BY <1>1, MarkerParts
  <2> HIDE DEF m
  <2> QED BY <1>3, <2>1, <2>2
<1>9. CASE AuditActive(c)
  <2> DEFINE m == [marker[c] EXCEPT !.active = TRUE]
  <2>1. UNCHANGED storeVars BY <1>9 DEF AuditActive, Raises
  <2>2. m \in Marker /\ Same(m, marker[c]) BY <1>1, MarkerType, MarkerParts
  <2>3. Completes(c, m) \/ Raises(c, marker[c]) BY <1>9 DEF AuditActive
  <2> HIDE DEF m
  <2>4. \E n : Note(c, n, "finish") /\ Same(n, marker[c])
    <3>1. CASE Completes(c, m) BY <2>2, <3>1, Ends DEF Same
    <3>2. CASE Raises(c, marker[c]) BY <1>1, <3>2, Ends
    <3> QED BY <2>3, <3>1, <3>2
  <2> QED BY <1>4, <2>1, <2>4
<1> QED BY <1>5, <1>6, <1>7, <1>8, <1>9 DEF Core
(* A step that adds no file and no checks, when no more results are in hand. *)
LEMMA CountShrinks ==
  ASSUME TypeInv, CountInv, files' = files, jobs' = jobs, results' = results,
         Unwritten' \subseteq Unwritten, Unchecked' \subseteq Unchecked
  PROVE  CountInv'
<1>1. /\ IsFiniteSet(Unwritten') /\ Cardinality(Unwritten') <= Cardinality(Unwritten)
      /\ Cardinality(Unwritten') \in Nat /\ Cardinality(Unwritten) \in Nat
  BY Part DEF CountInv
<1>2. /\ IsFiniteSet(Unchecked') /\ Cardinality(Unchecked') <= Cardinality(Unchecked)
      /\ Cardinality(Unchecked') \in Nat /\ Cardinality(Unchecked) \in Nat
  BY Part DEF CountInv
<1>3. Cardinality(files) \in Nat BY FS_CardinalityType DEF CountInv
<1>4. jobs \in Nat /\ results \in Nat BY DEF TypeInv, TypeOK
<1> HIDE DEF Unwritten, Unchecked
<1> QED BY <1>1, <1>2, <1>3, <1>4 DEF CountInv

(* A new result brings one file and one round of checks to come. *)
LEMMA NewResultCounts ==
  ASSUME TypeInv, CountInv, NEW c \in Caller, NewResult(c)
  PROVE  CountInv'
<1>1. files' = files /\ jobs' = jobs /\ results' = results + 1 BY DEF NewResult, storeVars
<1>2. Unwritten' \subseteq Unwritten \cup {c} /\ Unchecked' \subseteq Unchecked \cup {c}
  <2>1. PICK k \in Kind : kind' = [kind EXCEPT ![c] = k] BY DEF NewResult
  <2>2. marker' = [marker EXCEPT ![c] = EmptyMarker] BY DEF NewResult
  <2> QED BY <2>1, <2>2 DEF Unwritten, Unchecked, TypeInv, TypeOK
<1>3. /\ IsFiniteSet(Unwritten') /\ Cardinality(Unwritten') <= Cardinality(Unwritten) + 1
      /\ Cardinality(Unwritten') \in Nat /\ Cardinality(Unwritten) \in Nat
  BY <1>2, OneMore DEF CountInv
<1>4. /\ IsFiniteSet(Unchecked') /\ Cardinality(Unchecked') <= Cardinality(Unchecked) + 1
      /\ Cardinality(Unchecked') \in Nat /\ Cardinality(Unchecked) \in Nat
  BY <1>2, OneMore DEF CountInv
<1>5. Cardinality(files) \in Nat BY FS_CardinalityType DEF CountInv
<1>6. jobs \in Nat /\ results \in Nat BY DEF TypeInv, TypeOK
<1> QED BY <1>1, <1>3, <1>4, <1>5, <1>6 DEF CountInv

(* A statement of the core spends what its own result had to come. *)
LEMMA CoreCounts ==
  ASSUME TypeInv, ControlInv, CountInv, NEW c \in Caller, Core(c)
  PROVE  CountInv'
<1>1. results' = results /\ kind' = kind /\ kind[c] # "none"
  BY CoreStays DEF ControlInv
<1>2. \A d \in Caller : d # c => marker'[d] = marker[d]
  BY CoreStays DEF Note, TypeInv, TypeOK
<1>3. Unwritten' \subseteq Unwritten /\ Unchecked' \subseteq Unchecked
  BY <1>1, <1>2, CoreSpends DEF Unwritten, Unchecked
<1>4. /\ IsFiniteSet(Unwritten') /\ Cardinality(Unwritten') <= Cardinality(Unwritten)
      /\ IsFiniteSet(Unchecked') /\ Cardinality(Unchecked') <= Cardinality(Unchecked)
      /\ Cardinality(Unwritten') \in Nat /\ Cardinality(Unwritten) \in Nat
      /\ Cardinality(Unchecked') \in Nat /\ Cardinality(Unchecked) \in Nat
  BY <1>3, Part DEF CountInv
<1>5. Cardinality(files) \in Nat /\ jobs \in Nat /\ results \in Nat
  BY FS_CardinalityType DEF CountInv, TypeInv, TypeOK
<1>6. /\ IsFiniteSet(files') /\ Cardinality(files') \in Nat
      /\ Cardinality(files') + Cardinality(Unwritten') <= results
  <2>1. CASE files' = files BY <1>4, <1>5, <2>1 DEF CountInv
  <2>2. CASE ~marker[c].written /\ marker'[c].written /\ \E x : files' = files \cup {x}
    <3>1. c \in Unwritten /\ Unwritten' \subseteq Unwritten \ {c}
      BY <1>1, <1>3, <2>2 DEF Unwritten
    <3>2. Cardinality(Unwritten') + 1 <= Cardinality(Unwritten) BY <3>1, OneLess DEF CountInv
    <3>3. PICK x : files' = files \cup {x} BY <2>2
    <3>4. IsFiniteSet(files') /\ Cardinality(files') <= Cardinality(files) + 1 /\ Cardinality(files') \in Nat
      BY <3>3, OneMore DEF CountInv
    <3> QED BY <1>4, <1>5, <3>2, <3>4 DEF CountInv
  <2> QED BY <2>1, <2>2, CoreSpends
<1>7. jobs' + Cardinality(Unchecked') <= results
  <2>1. CASE jobs' = jobs BY <1>4, <1>5, <2>1 DEF CountInv
  <2>2. CASE ~marker[c].enqueued /\ marker'[c].enqueued /\ jobs' = jobs + 1
    <3>1. c \in Unchecked /\ Unchecked' \subseteq Unchecked \ {c}
      BY <1>1, <1>3, <2>2 DEF Unchecked
    <3>2. Cardinality(Unchecked') + 1 <= Cardinality(Unchecked) BY <3>1, OneLess DEF CountInv
    <3> QED BY <1>4, <1>5, <2>2, <3>2 DEF CountInv
  <2> QED BY <2>1, <2>2, CoreSpends
<1> QED BY <1>1, <1>4, <1>6, <1>7 DEF CountInv

(* No step gives a result a second file or a second round of checks. *)
LEMMA CountNext == LaneInv /\ CountInv /\ [Next]_vars => CountInv'
<1> SUFFICES ASSUME LaneInv, CountInv, [Next]_vars PROVE CountInv'
  OBVIOUS
<1>1. TypeInv /\ ControlInv BY DEF LaneInv
<1>2. ASSUME UNCHANGED <<kind, marker, storeVars, results>> PROVE CountInv'
  BY <1>1, <1>2, CountShrinks DEF storeVars, Unwritten, Unchecked
<1>3. ASSUME NEW c \in Caller, StartPass(c) \/ BeginStep(c) \/ FinishPass(c) \/ Abandon(c)
      PROVE  CountInv'
  BY <1>2, <1>3 DEF StartPass, BeginStep, FinishPass, Abandon, coreVars
<1>4. ASSUME NEW c \in Caller, Crash(c) PROVE CountInv'
  <2>1. files' = files /\ jobs' = jobs /\ results' = results BY <1>4 DEF Crash, storeVars
  <2>2. Unwritten' \subseteq Unwritten /\ Unchecked' \subseteq Unchecked
    BY <1>1, <1>4 DEF Crash, Unwritten, Unchecked, TypeInv, TypeOK
  <2> QED BY <1>1, <2>1, <2>2, CountShrinks
<1>5. CASE UNCHANGED vars BY <1>2, <1>5 DEF vars, coreVars
<1> QED BY <1>1, <1>3, <1>4, <1>5, NewResultCounts, CoreCounts DEF Next

(* save_registration_results passes over every result a second time, writes
   fail and processes die: still a result gets one session file and one round
   of health checks at most. *)
THEOREM WrittenOncePerResult == Spec => []OncePerResult
<1>1. Init => CountInv
  <2> SUFFICES ASSUME Init PROVE CountInv
    OBVIOUS
  <2>1. files = {} /\ Unwritten = {} /\ Unchecked = {} /\ jobs = 0 /\ results = 0
    BY DEF Init, Unwritten, Unchecked
  <2> QED BY <2>1, FS_EmptySet DEF CountInv
<1>2. LaneInv /\ CountInv => OncePerResult
  <2> SUFFICES ASSUME LaneInv, CountInv PROVE OncePerResult
    OBVIOUS
  <2>1. /\ Cardinality(files) \in Nat /\ Cardinality(Unwritten) \in Nat
        /\ Cardinality(Unchecked) \in Nat
    BY FS_CardinalityType DEF CountInv
  <2>2. jobs \in Nat /\ results \in Nat BY DEF LaneInv, TypeInv, TypeOK
  <2> QED BY <2>1, <2>2 DEF CountInv, OncePerResult
<1> QED BY <1>1, <1>2, CountNext, LaneInvAlways, PTL DEF Spec
-----------------------------------------------------------------------------
(* A pass only moves on *)

\* What a caller has still to do, by the steps of begin() and of the core.
Todo(step, label) ==
  CASE step = "waiting" -> 11
    [] step = "locked" -> 10
    [] step = "admitted" -> 9
    [] step = "open" /\ label = "audit" -> 8
    [] step = "open" /\ label = "session" -> 7
    [] step = "open" /\ label = "upsert" -> 6
    [] step = "open" /\ label = "health" -> 5
    [] step = "open" /\ label = "done" -> 4
    [] step = "open" /\ label = "finish" -> 3
    [] step = "open" /\ label = "lost" -> 2
    [] step \in {"expired", "stranded"} -> 1
    [] step = "idle" -> 0

LEMMA TodoIs ==
  /\ Todo("waiting", "audit") = 11 /\ Todo("locked", "audit") = 10 /\ Todo("admitted", "audit") = 9
  /\ Todo("open", "audit") = 8 /\ Todo("open", "session") = 7 /\ Todo("open", "upsert") = 6
  /\ Todo("open", "health") = 5 /\ Todo("open", "done") = 4 /\ Todo("open", "finish") = 3
  /\ Todo("open", "lost") = 2
  /\ Todo("expired", "audit") = 1 /\ Todo("stranded", "audit") = 1 /\ Todo("idle", "audit") = 0
BY DEF Todo

Rank(c) == Todo(phase[c], at[c])

Works(c) == BeginStep(c) \/ Core(c) \/ FinishPass(c) \/ Abandon(c)

Descends ==
  \A c \in Caller :
    /\ phase[c] # "idle" => Rank(c)' <= Rank(c)
    /\ Works(c) => Rank(c)' < Rank(c)

\* The steps of begin(), of the core and of its end, and where they lead.
LEMMA WorkDescends ==
  ASSUME TypeInv, ControlInv, NEW c \in Caller, Works(c)
  PROVE  /\ Rank(c)' < Rank(c)
         /\ \A d \in Caller \ {c} : phase'[d] = phase[d] /\ at'[d] = at[d]
<1> USE DEF TypeInv, TypeOK, JournalTypeOK, Enter, Leave, Goto
<1>1. CASE BeginStep(c)
  <2>1. phase[c] # "open" /\ at' = at
    BY <1>1 DEF BeginStep, Begin, Acquire, GateTimesOut, RefuseBusy, RefuseReplay, Admit, WriteNew,
       Collect, coreVars
  <2>2. at[c] = "audit" /\ at'[c] = "audit" BY <2>1 DEF ControlInv
  <2>3. \A d \in Caller \ {c} : phase'[d] = phase[d]
    BY <1>1 DEF BeginStep, Begin, Acquire, GateTimesOut, RefuseBusy, RefuseReplay, Admit, WriteNew, Collect
  <2>4. \/ phase[c] = "waiting" /\ phase'[c] \in {"locked", "expired"}
        \/ phase[c] = "expired" /\ phase'[c] = "idle"
        \/ phase[c] = "locked" /\ phase'[c] \in {"idle", "admitted"}
        \/ phase[c] = "admitted" /\ phase'[c] \in {"open", "idle"}
        \/ phase[c] = "stranded" /\ phase'[c] = "idle"
    BY <1>1 DEF BeginStep, Begin, Acquire, GateTimesOut, RefuseBusy, RefuseReplay, Admit, WriteNew, Collect
  <2> QED BY <2>1, <2>2, <2>3, <2>4, TodoIs DEF Rank
<1>2. CASE Core(c)
  <2>1. phase[c] = "open" /\ phase' = phase
    BY <1>2 DEF Core, Audit, Session, Upsert, Health, AuditActive, CoreAt, journalVars
  <2>2. ASSUME NEW m, NEW next, Note(c, m, next) PROVE \A d \in Caller \ {c} : at'[d] = at[d]
    BY <2>2 DEF Note
  <2>3. \/ at[c] = "audit" /\ at'[c] \in {"session", "upsert", "finish"}
        \/ at[c] = "session" /\ at'[c] \in {"upsert", "finish"}
        \/ at[c] = "upsert" /\ at'[c] \in {"health", "finish"}
        \/ at[c] = "health" /\ at'[c] = "done"
        \/ at[c] = "done" /\ at'[c] = "finish"
    <3>1. CASE Audit(c)
      <4>1. kind[c] \in Kind BY <2>1 DEF ControlInv
      <4> QED BY <3>1, <4>1 DEF Audit, CoreAt, Note, Completes, Raises, Kind, WithSession
    <3>2. CASE Session(c) BY <3>2 DEF Session, CoreAt, Note, Raises
    <3>3. CASE Upsert(c) BY <3>3 DEF Upsert, CoreAt, Note, Completes, Raises
    <3>4. CASE Health(c) \/ AuditActive(c) BY <3>4 DEF Health, AuditActive, CoreAt, Note, Completes, Raises
    <3> QED BY <1>2, <3>1, <3>2, <3>3, <3>4 DEF Core
  <2>4. \A d \in Caller \ {c} : at'[d] = at[d]
    <3>1. CASE Audit(c)
      <4>1. kind[c] \in Kind BY <2>1 DEF ControlInv
      <4> QED BY <2>2, <3>1, <4>1 DEF Audit, Completes, Raises, Kind, WithSession
    <3>2. CASE Session(c) BY <2>2, <3>2 DEF Session, Raises
    <3>3. CASE Upsert(c) BY <2>2, <3>3 DEF Upsert, Completes, Raises
    <3>4. CASE Health(c) \/ AuditActive(c) BY <2>2, <3>4 DEF Health, AuditActive, Completes, Raises
    <3> QED BY <1>2, <3>1, <3>2, <3>3, <3>4 DEF Core
  <2> QED BY <2>1, <2>3, <2>4, TodoIs DEF Rank
<1>3. CASE FinishPass(c) \/ Abandon(c)
  <2>1. /\ phase[c] = "open"
        /\ \A d \in Caller \ {c} : phase'[d] = phase[d] /\ at'[d] = at[d]
        /\ \/ at[c] = "finish" /\ phase'[c] = "idle" /\ at'[c] = "audit"
           \/ at[c] = "finish" /\ phase'[c] = "open" /\ at'[c] = "lost"
           \/ at[c] = "lost" /\ phase'[c] = "stranded" /\ at'[c] = "audit"
    <3>1. CASE FinishPass(c) BY <3>1 DEF FinishPass, Finish
    <3>2. CASE Abandon(c)
      <4>1. at[c] # "audit" /\ phase[c] = "open" BY <3>2 DEF Abandon, ControlInv
      <4> QED BY <3>2, <4>1 DEF Abandon
    <3> QED BY <1>3, <3>1, <3>2
  <2> QED BY <2>1, TodoIs DEF Rank
<1> QED BY <1>1, <1>2, <1>3 DEF Works

LEMMA RankType ==
  ASSUME NEW step \in Phase, NEW label \in At, step # "open" => label = "audit"
  PROVE  Todo(step, label) \in 0..11
BY TodoIs DEF Phase, At

\* Whoever does not work stays where it is, starts a pass or dies.
LEMMA PassStep == TypeInv /\ ControlInv /\ TypeInv' /\ ControlInv' /\ [Next]_vars => [Descends]_vars
<1> SUFFICES ASSUME TypeInv, ControlInv, TypeInv', ControlInv', [Next]_vars PROVE [Descends]_vars
  OBVIOUS
<1>1. \A c \in Caller : Rank(c) \in 0..11 /\ Rank(c)' \in 0..11
  BY RankType DEF Rank, TypeInv, TypeOK, JournalTypeOK, ControlInv
<1>2. ASSUME NEW c \in Caller,
             \A d \in Caller \ {c} : phase'[d] = phase[d] /\ at'[d] = at[d],
             phase[c] = "idle" \/ Rank(c)' <= Rank(c)
      PROVE  \A d \in Caller : phase[d] # "idle" => Rank(d)' <= Rank(d)
  BY <1>1, <1>2 DEF Rank
<1>3. ASSUME NEW c \in Caller, NewResult(c) \/ StartPass(c)
      PROVE  \A d \in Caller : phase[d] # "idle" => Rank(d)' <= Rank(d)
  <2>1. /\ phase[c] = "idle" /\ at' = at
        /\ \A d \in Caller \ {c} : phase'[d] = phase[d]
    BY <1>3 DEF NewResult, StartPass, Call, Enter, journalVars, coreVars, TypeInv, TypeOK, JournalTypeOK
  <2> QED BY <1>2, <2>1
<1>4. ASSUME NEW c \in Caller, Works(c)
      PROVE  \A d \in Caller : phase[d] # "idle" => Rank(d)' <= Rank(d)
  <2>1. Rank(c)' < Rank(c) BY <1>4, WorkDescends
  <2>2. Rank(c)' <= Rank(c) BY <1>1, <2>1
  <2> QED BY <1>2, <1>4, <2>2, WorkDescends
<1>5. ASSUME NEW c \in Caller, Crash(c)
      PROVE  \A d \in Caller : phase[d] # "idle" => Rank(d)' <= Rank(d)
  <2>1. /\ phase'[c] = "idle" /\ at'[c] = "audit"
        /\ \A d \in Caller \ {c} : phase'[d] = phase[d] /\ at'[d] = at[d]
    BY <1>5 DEF Crash, Die, Leave, Goto, TypeInv, TypeOK, JournalTypeOK
  <2>2. Rank(c)' = 0 BY <2>1, TodoIs DEF Rank
  <2>3. Rank(c)' <= Rank(c) BY <1>1, <2>2
  <2> QED BY <1>2, <2>1, <2>3
<1>6. ASSUME Next PROVE \A d \in Caller : phase[d] # "idle" => Rank(d)' <= Rank(d)
  BY <1>3, <1>4, <1>5, <1>6 DEF Next, Works
<1> QED BY <1>6, WorkDescends DEF Descends

(* A pass is over after at most eleven steps of its own, whatever it is refused,
   whatever raises and whether or not its last write lands; even the pass that
   loses its operation leads to the collection that frees the gate.  No later
   result of the key waits for one that goes in circles. *)
THEOREM PassesMoveOn == Spec => [][Descends]_vars
<1>1. LaneInv => TypeInv /\ ControlInv BY DEF LaneInv
<1>2. TypeInv /\ ControlInv /\ TypeInv' /\ ControlInv' /\ [Next]_vars => [Descends]_vars BY PassStep
<1> QED BY <1>1, <1>2, LaneInvAlways, PTL DEF Spec
=============================================================================
