----------------------------- MODULE PaymentLane -----------------------------
(***************************************************************************)
(* generate_payment_link (pay_link/core.py) running PaymentFlowExecutor    *)
(* (payment/executor.py) over the operation journal, for calls that share  *)
(* an idempotency key: retries of a batch row, a resumed batch, a second   *)
(* process, a restart after a crash.  The operation is extract_link; a     *)
(* capability probe checkpoints no side effect and starts none.            *)
(*                                                                         *)
(* The adapter is external.  It may start a side effect at the provider,   *)
(* at most one per run, at any time while it runs, and then return any     *)
(* result its contract allows or raise.                                    *)
(***************************************************************************)
EXTENDS OperationJournal

CONSTANT
  Results   \* Results[started]: the mappings an adapter run may end in, given
            \* whether it has started a side effect

ASSUME ResultsAssumption == Results \in [BOOLEAN -> SUBSET Raw]

\* What an adapter owes the journal: once its side effect has started, it ends
\* in no result that finish() would record as replayable.
HonestAdapter == \A r \in Results[TRUE] : ~ReplayAllowed(FromMapping(r))

VARIABLES
  at,       \* at[c]: next statement of the executor or of its caller
  raw,      \* raw[c]: the result mapping being carried to finish()
  started,  \* started[c]: the adapter run of c has started its side effect
  effects   \* attempts that started a side effect (history)

laneVars == <<at, raw, started, effects>>
vars == <<journalVars, laneVars>>

At == {"created", "validation", "routing", "adapter", "adapting", "artifact",
       "terminal", "finish", "abort"}

NoResult == [ok |-> FALSE, status |-> "absent", effect |-> FALSE, execute |-> FALSE,
             side |-> "absent", recon |-> FALSE, retry |-> FALSE]

\* An exception inside run() that is no adapter failure: a validation error or
\* a checkpoint that could not be written.
Failure == [NoResult EXCEPT !.status = "failed"]
Cancelled == [NoResult EXCEPT !.status = "cancelled"]

TypeOK ==
  /\ JournalTypeOK
  /\ at \in [Caller -> At]
  /\ raw \in [Caller -> Raw]
  /\ started \in [Caller -> BOOLEAN]
  /\ effects \in SUBSET Nat

Init ==
  /\ JournalInit
  /\ at = [c \in Caller |-> "created"]
  /\ raw = [c \in Caller |-> NoResult]
  /\ started = [c \in Caller |-> FALSE]
  /\ effects = {}

Goto(c, label) == at' = [at EXCEPT ![c] = label]

\* The local variables of the executor run die with it.
Forget(c) ==
  /\ Goto(c, "created")
  /\ raw' = [raw EXCEPT ![c] = NoResult]
  /\ started' = [started EXCEPT ![c] = FALSE]
  /\ UNCHANGED effects

StartCall(c) == Call(c) /\ UNCHANGED laneVars

BeginStep(c) == Begin(c) /\ UNCHANGED laneVars

\* move() before the adapter.  The first one is outside the try block: when
\* its checkpoint raises, generate_payment_link falls to fail_unknown.
MoveCreated(c) ==
  /\ at[c] = "created"
  /\ \E ok \in BOOLEAN :
       /\ Checkpoint(c, "preparing", FALSE, ok)
       /\ Goto(c, IF ok THEN "validation" ELSE "abort")
  /\ UNCHANGED <<raw, started, effects>>

\* Inside the try block a failure becomes a result and goes to the last move.
Fail(c, result) ==
  /\ raw' = [raw EXCEPT ![c] = result]
  /\ Goto(c, "terminal")

Move(c, from, next, status, side) ==
  /\ at[c] = from
  /\ \/ Checkpoint(c, status, side, TRUE) /\ Goto(c, next) /\ UNCHANGED raw
     \/ Checkpoint(c, status, side, FALSE) /\ Fail(c, Failure)
  /\ UNCHANGED <<started, effects>>

MoveValidating(c) == Move(c, "validation", "routing", "preparing", FALSE)

\* The request has no payment method or no access token.
Invalid(c) ==
  /\ phase[c] = "open"
  /\ at[c] = "routing"
  /\ Fail(c, Failure)
  /\ UNCHANGED <<journalVars, started, effects>>

MoveRouting(c) == Move(c, "routing", "adapter", "preparing", FALSE)

\* Mutant of MoveAdapter: the side effect is not marked before the adapter.
MoveAdapterUnmarked(c) == Move(c, "adapter", "adapting", "running", FALSE)

\* transactional_progress marks the side effect durably before the adapter.
MoveAdapter(c) == Move(c, "adapter", "adapting", "running", TRUE)

StartEffect(c) ==
  /\ phase[c] = "open"
  /\ at[c] = "adapting"
  /\ ~started[c]
  /\ started' = [started EXCEPT ![c] = TRUE]
  /\ effects' = effects \cup {mem[c].attempt}
  /\ UNCHANGED <<journalVars, at, raw>>

\* The adapter reports progress through the same durable callback, and fails
\* if the record cannot be written.
AdapterProgress(c) ==
  /\ at[c] = "adapting"
  /\ \E status \in {"running", "completed", "failed"} :
       \/ Checkpoint(c, status, TRUE, TRUE) /\ UNCHANGED <<at, raw>>
       \/ /\ Checkpoint(c, status, TRUE, FALSE)
          /\ \E result \in {r \in Results[started[c]] : ~r.ok} : Fail(c, result)
  /\ UNCHANGED <<started, effects>>

\* The adapter returns or raises a classified failure.
AdapterEnds(c) ==
  /\ phase[c] = "open"
  /\ at[c] = "adapting"
  /\ \E result \in Results[started[c]] :
       /\ raw' = [raw EXCEPT ![c] = result]
       /\ Goto(c, "artifact")
  /\ UNCHANGED <<journalVars, started, effects>>

AdapterRaises(c) ==
  /\ phase[c] = "open"
  /\ at[c] = "adapting"
  /\ \E result \in {r \in Results[started[c]] : ~r.ok} \cup {Cancelled} : Fail(c, result)
  /\ UNCHANGED <<journalVars, started, effects>>

MoveArtifact(c) == Move(c, "artifact", "terminal", "extracting", TRUE)

\* The last move writes the terminal status; its stage is the error stage of
\* the result, "artifact" when there is none.
MoveTerminal(c) ==
  LET out == FromMapping(raw[c]) IN
  /\ at[c] = "terminal"
  /\ \E ok \in BOOLEAN :
       /\ Checkpoint(c, IF out.status \in {"completed", "failed", "cancelled", "unknown", "timed_out"}
                        THEN out.status ELSE IF out.ok THEN "completed" ELSE "failed",
                     out.ok \/ raw[c].effect, ok)
       /\ Goto(c, IF ok THEN "finish" ELSE "abort")
  /\ raw' = [raw EXCEPT ![c] = ToDict(out, raw[c])]
  /\ UNCHANGED <<started, effects>>

FinishCall(c) ==
  /\ at[c] = "finish"
  /\ \/ Finish(c, raw[c], TRUE) /\ Forget(c)
     \/ Finish(c, raw[c], FALSE) /\ Goto(c, "abort") /\ UNCHANGED <<raw, started, effects>>

Abort(c) ==
  /\ at[c] = "abort"
  /\ \E ok \in BOOLEAN : FailUnknown(c, ok)
  /\ Forget(c)

Run(c) ==
  \/ MoveCreated(c) \/ MoveValidating(c) \/ Invalid(c) \/ MoveRouting(c)
  \/ MoveAdapter(c) \/ AdapterEnds(c) \/ AdapterRaises(c) \/ MoveArtifact(c)
  \/ MoveTerminal(c) \/ FinishCall(c) \/ Abort(c)

Crash(c) == Die(c) /\ Forget(c)

DamageFile == Damage /\ UNCHANGED laneVars

Next ==
  \/ \E c \in Caller : StartCall(c) \/ BeginStep(c) \/ Run(c) \/ AdapterProgress(c)
                        \/ StartEffect(c) \/ Crash(c)
  \/ DamageFile

Spec == Init /\ [][Next]_vars

\* A call that is not killed goes on: acquire has a deadline, an adapter has a
\* timeout however often it reports progress, a stranded gate is collected.
FairSpec == Spec /\ \A c \in Caller : WF_vars(BeginStep(c)) /\ WF_vars(Run(c))

-----------------------------------------------------------------------------
(* A side effect that already started is never replayed blindly: over all the
   calls, retries, crashes and failed writes with one idempotency key, at most
   one attempt ever reaches the provider. *)
AtMostOneEffect == \A a, b \in effects : a = b

(* Only the operation that is open writes the record: the file is the record
   of its attempt, until somebody damages it. *)
OneWriter ==
  \A c \in Caller : phase[c] = "open" =>
    disk = Unreadable \/ (disk # NoRecord /\ disk.attempt = mem[c].attempt)

(* A record that forbids the replay is final once its operation is closed: no
   later call, refused, timed out or crashed, changes it or is admitted. *)
Final == Blocked(disk) /\ \A c \in Caller : phase[c] \notin {"admitted", "open"}
FinalRecordKept == [][Final => Final' /\ disk' \in {disk, Unreadable}]_vars

(* The retry decision of the batch and the replay decision of the journal, two
   functions in two modules, agree on every result that is finished: a row
   that may be retried is admitted again, any other is refused. *)
RetryAgreesWithReplay ==
  [][ \A c \in Caller :
        (phase[c] = "open" /\ at[c] = "finish" /\ phase'[c] = "idle" /\ disk' # disk
           /\ disk' # NoRecord /\ disk' # Unreadable)
          => (RetryAllowed(raw[c]) <=> ReplayAllowed(disk')) ]_vars

(* The gate of a key is always free again: no path through begin() or the
   operation, failing writes included, leaves it locked. *)
GateFreed == \A c \in Caller : holder = c ~> holder # c

(* A run that died before its adapter started has had no side effect, so the
   caller that can read its record under the gate is not refused. *)
StaleRunRecovered ==
  [][ \A c \in Caller :
        (phase[c] = "locked" /\ phase'[c] = "idle" /\ verdict'[c] \notin {NoRecord, LostRecord})
          => disk.side \/ disk.recon
               \/ disk.status \in {"completed", "failed", "timed_out", "unknown", "cancelled"} ]_vars

\* How a record at rest is read by the next caller.
AtRest ==
  IF disk = NoRecord THEN "fresh"
  ELSE IF disk = Unreadable THEN "uncertain"
  ELSE IF ReplayAllowed(disk) THEN "again"
  ELSE IF disk.status = "completed" THEN "completed"
  ELSE IF disk.side \/ disk.recon THEN "uncertain" ELSE "failed"

\* The journal record and the open operation, as AtMostOnce sees them.
KeyState == IF \E c \in Caller : phase[c] \in {"admitted", "open"} THEN "open" ELSE AtRest

Key == INSTANCE AtMostOnce WITH state <- KeyState, acted <- effects # {}

(* Refinement: whatever the callers, the failing writes, the timeouts and the
   crashes do, the key behaves as AtMostOnce says: attempts one at a time, the
   side effect in one of them, and none admitted after it. *)
ImplementsAtMostOnce == Key!Spec
=============================================================================
