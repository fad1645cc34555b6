-------------------------- MODULE OperationJournal --------------------------
(***************************************************************************)
(* PaymentOperationStore and PaymentOperation (operation_journal.py), for  *)
(* one idempotency key: the record file, the gate that serialises the      *)
(* callers of begin(), and the copy of the record every caller works on.   *)
(* The gate is the exclusive lock SlotGate implements.  The lanes that use *)
(* the journal (PaymentLane, RegistrationLane) extend this module and take *)
(* its operators as parts of their own actions.                            *)
(*                                                                         *)
(* A record file is replaced atomically, so a write either lands whole or  *)
(* raises (disk full, or Windows refusing the replace under a reader).     *)
(* Reading a record may fail as well, and refuses the caller whatever the  *)
(* record says.                                                            *)
(***************************************************************************)
EXTENDS Naturals, PaymentContract

CONSTANTS
  Caller,       \* callers of begin() with this key: threads of any process
  NoCaller,     \* nobody holds the gate
  NoRecord,     \* there is no record file
  Unreadable,   \* a record file that does not parse
  MaxCalls      \* bound: calls of begin() with this key

VARIABLES
  disk,      \* the record file
  holder,    \* the caller holding the gate, or NoCaller
  phase,     \* phase[c]: where c is in begin() or in its operation
  mem,       \* mem[c]: the record c has in memory
  verdict,   \* verdict[c]: the record begin() refused c with
  calls      \* calls of begin() so far

journalVars == <<disk, holder, phase, mem, verdict, calls>>

Record == [attempt : Nat, status : Status, side : BOOLEAN,
           recon : BOOLEAN, retry : BOOLEAN]

\* The record begin() makes up when the gate is busy and there is no file.
BusyRecord == [status |-> "running", side |-> FALSE, recon |-> TRUE]

\* What _read_record raises for a file it cannot read.
LostRecord == [status |-> "unknown", side |-> TRUE, recon |-> TRUE]

ASSUME JournalAssumption ==
  /\ NoCaller \notin Caller
  /\ NoRecord # Unreadable
  /\ NoRecord \notin Record \cup {BusyRecord, LostRecord}
  /\ Unreadable \notin Record
  /\ MaxCalls \in Nat

\* Mutant of NewRecord: the status field gets the name of the stage.
NewRecordStaged(attempt) == [attempt |-> attempt, status |-> "created", side |-> FALSE,
                             recon |-> FALSE, retry |-> FALSE]

NewRecord(attempt) == [attempt |-> attempt, status |-> "running", side |-> FALSE,
                       recon |-> FALSE, retry |-> FALSE]

Phase == {"idle", "waiting", "expired", "locked", "admitted", "open", "stranded"}

\* `previous and not _replay_allowed(previous)'; an unreadable file raises.
Blocked(d) == IF d \in {NoRecord, Unreadable} THEN d = Unreadable ELSE ~ReplayAllowed(d)

\* What a call of _read_record gives: reading a file that is there may fail,
\* whatever it holds.
Reads == IF disk = NoRecord THEN {NoRecord} ELSE {disk, Unreadable}

JournalTypeOK ==
  /\ disk \in Record \cup {NoRecord, Unreadable}
  /\ holder \in Caller \cup {NoCaller}
  /\ phase \in [Caller -> Phase]
  /\ mem \in [Caller -> Record \cup {NoRecord}]
  /\ verdict \in [Caller -> Record \cup {NoRecord, BusyRecord, LostRecord}]
  /\ calls \in Nat

JournalInit ==
  /\ disk = NoRecord
  /\ holder = NoCaller
  /\ phase = [c \in Caller |-> "idle"]
  /\ mem = [c \in Caller |-> NoRecord]
  /\ verdict = [c \in Caller |-> NoRecord]
  /\ calls = 0

Enter(c, next) == phase' = [phase EXCEPT ![c] = next]

\* The call is over: its record is forgotten, the gate is released if c has it
\* (close(), the exception branch of begin(), or the death of the process).
Leave(c) ==
  /\ holder' = IF holder = c THEN NoCaller ELSE holder
  /\ phase' = [phase EXCEPT ![c] = "idle"]
  /\ mem' = [mem EXCEPT ![c] = NoRecord]

\* PaymentOperationConflict, with the record that was read, lost or made up.
Refuse(c, seen) ==
  verdict' = [verdict EXCEPT ![c] = CASE seen = NoRecord -> BusyRecord
                                      [] seen = Unreadable -> LostRecord
                                      [] OTHER -> seen]

\* begin() is called.
Call(c) ==
  /\ phase[c] = "idle"
  /\ calls < MaxCalls
  /\ calls' = calls + 1
  /\ Enter(c, "waiting")
  /\ verdict' = [verdict EXCEPT ![c] = NoRecord]
  /\ UNCHANGED <<disk, holder, mem>>

\* Mutant of Acquire: the gate is not exclusive.
AcquireShared(c) ==
  /\ phase[c] = "waiting"
  /\ holder' = c
  /\ Enter(c, "locked")
  /\ UNCHANGED <<disk, mem, verdict, calls>>

\* gate.acquire(timeout = 30) succeeds.
Acquire(c) ==
  /\ phase[c] = "waiting"
  /\ holder = NoCaller
  /\ holder' = c
  /\ Enter(c, "locked")
  /\ UNCHANGED <<disk, mem, verdict, calls>>

\* The gate was busy at the last attempt before the 30 s deadline.
GateTimesOut(c) ==
  /\ phase[c] = "waiting"
  /\ holder # NoCaller
  /\ Enter(c, "expired")
  /\ UNCHANGED <<disk, holder, mem, verdict, calls>>

\* Mutant of RefuseBusy: the refused caller marks the record for reconciliation.
RefuseBusyMarks(c) ==
  /\ phase[c] = "expired"
  /\ disk' = IF disk \in Record THEN [disk EXCEPT !.status = "unknown", !.recon = TRUE] ELSE disk
  /\ Enter(c, "idle")
  /\ UNCHANGED <<holder, mem, verdict, calls>>

\* The timed out caller reads the record without the gate and is refused with
\* whatever it sees.
RefuseBusy(c) ==
  /\ phase[c] = "expired"
  /\ \E seen \in Reads : Refuse(c, seen)
  /\ Enter(c, "idle")
  /\ UNCHANGED <<disk, holder, mem, calls>>

\* Mutant of RefuseReplay: the exception branch of begin() forgets the gate.
RefuseReplayLocked(c) ==
  /\ phase[c] = "locked"
  /\ \E seen \in Reads : Blocked(seen) /\ Refuse(c, seen)
  /\ Enter(c, "idle")
  /\ UNCHANGED <<disk, holder, mem, calls>>

\* The record read under the gate forbids the replay, or it cannot be read: that
\* refuses the caller too, on a record that may well allow the replay.
RefuseReplay(c) ==
  /\ phase[c] = "locked"
  /\ \E seen \in Reads : Blocked(seen) /\ Refuse(c, seen)
  /\ Leave(c)
  /\ UNCHANGED <<disk, calls>>

\* Mutant of Admit: the earlier record is only looked at for its number.
AdmitUnchecked(c) ==
  /\ phase[c] = "locked"
  /\ disk # Unreadable
  /\ mem' = [mem EXCEPT ![c] =
               NewRecord(IF disk = NoRecord THEN 1 ELSE disk.attempt + 1)]
  /\ Enter(c, "admitted")
  /\ UNCHANGED <<disk, holder, verdict, calls>>

\* The record read under the gate allows an attempt; its record is built.
Admit(c) ==
  /\ phase[c] = "locked"
  /\ ~Blocked(disk)
  /\ mem' = [mem EXCEPT ![c] =
               NewRecord(IF disk = NoRecord THEN 1 ELSE disk.attempt + 1)]
  /\ Enter(c, "admitted")
  /\ UNCHANGED <<disk, holder, verdict, calls>>

\* The first write of begin(): the operation exists, or begin() raises.
WriteNew(c) ==
  /\ phase[c] = "admitted"
  /\ \/ disk' = mem[c] /\ Enter(c, "open") /\ UNCHANGED <<holder, mem>>
     \/ Leave(c) /\ UNCHANGED disk
  /\ UNCHANGED <<verdict, calls>>

\* Every rewrite changes the copy in memory first; the file follows if the
\* write succeeds.
Checkpoint(c, status, side, ok) ==
  LET rec == [mem[c] EXCEPT !.status = status, !.side = @ \/ side] IN
  /\ phase[c] = "open"
  /\ mem' = [mem EXCEPT ![c] = rec]
  /\ disk' = IF ok THEN rec ELSE disk
  /\ UNCHANGED <<holder, phase, verdict, calls>>

WithOutcome(rec, out) ==
  [rec EXCEPT !.status = out.status, !.side = out.side, !.recon = out.recon,
              !.retry = out.retry]

\* finish(result) replaces the outcome fields and closes.  If the write raises
\* nothing is closed, and the caller goes on to fail_unknown.
Finish(c, raw, ok) ==
  LET rec == WithOutcome(mem[c], FromMapping(raw)) IN
  /\ phase[c] = "open"
  /\ \/ ok /\ disk' = rec /\ Leave(c)
     \/ ~ok /\ mem' = [mem EXCEPT ![c] = rec] /\ UNCHANGED <<disk, holder, phase>>
  /\ UNCHANGED <<verdict, calls>>

Uncertain == [status |-> "unknown", side |-> TRUE, recon |-> TRUE, retry |-> FALSE]

\* When even the write of fail_unknown raises, the caller leaves with the gate
\* still locked by a handle nobody will release.
FailUnknown(c, ok) ==
  /\ phase[c] = "open"
  /\ \/ ok /\ disk' = WithOutcome(mem[c], Uncertain) /\ Leave(c)
     \/ ~ok /\ Enter(c, "stranded") /\ UNCHANGED <<disk, holder, mem>>
  /\ UNCHANGED <<verdict, calls>>

\* The stranded gate object is garbage collected, which closes its handle.
Collect(c) ==
  /\ phase[c] = "stranded"
  /\ Leave(c)
  /\ UNCHANGED <<disk, verdict, calls>>

\* The process of c dies: memory is gone and the OS drops the lock.
Die(c) ==
  /\ phase[c] # "idle"
  /\ Leave(c)
  /\ UNCHANGED <<disk, verdict, calls>>

\* The record file is damaged from outside the program.
Damage ==
  /\ disk \notin {NoRecord, Unreadable}
  /\ disk' = Unreadable
  /\ UNCHANGED <<holder, phase, mem, verdict, calls>>

\* begin(), up to the point where an operation is open or the call is over.
Begin(c) ==
  \/ Acquire(c) \/ GateTimesOut(c) \/ RefuseBusy(c) \/ RefuseReplay(c)
  \/ Admit(c) \/ WriteNew(c) \/ Collect(c)
=============================================================================
