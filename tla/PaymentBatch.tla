---------------------------- MODULE PaymentBatch ----------------------------
(***************************************************************************)
(* run_payment_batch (payment/batch.py) for one batch id: its worker pool, *)
(* the attempts of every account, the report it checkpoints, the hand-off  *)
(* of approval links to the authorization queue, and the runs that resume  *)
(* or repeat it after a crash.  The payment operation of an account is     *)
(* AtMostOnce, which PaymentLane implements.  The gate of the batch id is  *)
(* the exclusive lock SlotGate implements: one run at a time.  Canary      *)
(* batches, probe-only batches and the event log are left out.             *)
(***************************************************************************)
EXTENDS AuthorizationQueue, FiniteSets

CONSTANTS
  Batch,     \* the process that runs the batch
  Links,     \* the sets of accounts that may get PayPal approval links
  Workers,   \* max_workers of the pool
  Retries,   \* retry_count
  MaxRuns,   \* bound: runs of the batch id
  MaxLinks   \* bound: approval links of a batch modelled in full (Light)

ASSUME BatchAssumption ==
  /\ Batch \in Process
  /\ Links \subseteq SUBSET Item
  /\ Workers \in Nat \ {0}
  /\ Retries \in Nat
  /\ MaxRuns \in Nat /\ MaxLinks \in Nat

VARIABLES
  direct,   \* accounts whose link is a PayPal approval link with a BA token
  op,       \* op[a]: the payment operation of a
  acted,    \* acted[a]: it has started a side effect
  report,   \* the report file
  main,     \* where run_payment_batch is
  resumed,  \* it goes on from the rows of the report
  rows,     \* the rows the run has collected (`ordered')
  step,     \* step[a]: where the worker of a is
  tries,    \* tries[a]: the attempt it is at
  result,   \* result[a]: the row it is about to return
  lost,     \* accounts whose last row is in no report or knows nothing of it (history)
  runs      \* runs so far

batchVars == <<direct, op, acted, report, main, resumed, rows, step, tries, result, lost, runs>>
vars == <<queueVars, batchVars>>

Account == Item

Op(a) == INSTANCE AtMostOnce WITH state <- op[a], acted <- acted[a]

\* What a row tells a resume and a reader: a link, a failure that is settled
\* (retryable is False), one that is not, money in an unknown state.
Row == {"none", "ok", "settled", "retryable", "uncertain"}
NoRows == [a \in Account |-> "none"]
WorkerStep == {"off", "queued", "try", "open", "link", "linking", "writing", "emit", "done"}

TypeOK ==
  /\ QueueTypeOK
  /\ direct \in Links
  /\ \A a \in Account : op[a] \in Op(a)!State
  /\ acted \in [Account -> BOOLEAN]
  /\ report \in [status : {"absent", "running", "finished"}, rows : [Account -> Row]]
  /\ main \in {"off", "loop", "draining"}
  /\ resumed \in BOOLEAN
  /\ rows \in [Account -> Row]
  /\ step \in [Account -> WorkerStep]
  /\ tries \in [Account -> 0..Retries + 1]
  /\ result \in [Account -> Row]
  /\ lost \in SUBSET Account
  /\ runs \in 0..MaxRuns

Init ==
  /\ QueueInit
  /\ direct \in Links
  /\ op = [a \in Account |-> "fresh"]
  /\ acted = [a \in Account |-> FALSE]
  /\ report = [status |-> "absent", rows |-> NoRows]
  /\ main = "off"
  /\ resumed = FALSE
  /\ rows = NoRows
  /\ step = [a \in Account |-> "off"]
  /\ tries = [a \in Account |-> 0]
  /\ result = NoRows
  /\ lost = {}
  /\ runs = 0

NoQueueStep == UNCHANGED queueVars

\* A batch with more links than that runs once, tries an account once, saves
\* every row, and only its queue has faults.
Light == Cardinality(direct) <= MaxLinks
BatchFault == Light /\ Fault

-----------------------------------------------------------------------------
\* Mutant of Resumable: only a success is kept.
ResumableOk(row) == row = "ok"

\* Mutant of Resumable: a success is not looked at.
ResumableSettled(row) == row \in {"settled", "uncertain"}

\* _checkpoint_row_resumable: such a row is kept and its account not run.
Resumable(row) == row \in {"ok", "settled", "uncertain"}

\* The run is over and its memory gone.
RunOver ==
  /\ main' = "off"
  /\ resumed' = FALSE
  /\ rows' = NoRows
  /\ step' = [a \in Account |-> "off"]
  /\ tries' = [a \in Account |-> 0]
  /\ result' = NoRows

\* The gate is acquired, the report read, the pending accounts submitted and
\* the first checkpoint written; if that raises nothing has run.  A run that
\* was not asked to resume, or cannot read the report, or has other options than
\* the report was written for, forgets what it says.
Start(resume) ==
  LET kept == [a \in Account |->
                 IF resume /\ Resumable(report.rows[a]) THEN report.rows[a] ELSE "none"]
      pending == {a \in Account : kept[a] = "none"}
  IN
  /\ main = "off"
  /\ runs < MaxRuns /\ (runs > 0 => Light)
  /\ runs' = runs + 1
  /\ \/ /\ main' = "loop"
        /\ resumed' = resume
        /\ rows' = kept
        /\ step' = [a \in Account |-> IF a \in pending THEN "queued" ELSE "off"]
        /\ report' = IF pending = {} THEN report ELSE [status |-> "running", rows |-> kept]
        /\ lost' = IF resume THEN lost ELSE lost \cup {a \in Account : report.rows[a] # "none"}
        /\ UNCHANGED faults
     \/ pending # {} /\ BatchFault /\ UNCHANGED <<main, resumed, rows, step, report, lost>>
  /\ UNCHANGED <<direct, file, section, todo, work, current, charged, spoilt, op, acted, tries, result>>

-----------------------------------------------------------------------------
Active == {a \in Account : step[a] \notin {"off", "queued", "done"}}

Enter(a, next) == step' = [step EXCEPT ![a] = next]

\* The worker returns its row (the final emit included) ...
Answer(a, row) ==
  /\ result' = [result EXCEPT ![a] = row]
  /\ tries' = [tries EXCEPT ![a] = 0]
  /\ Enter(a, "done")

\* ... or raises, and gets the row of _worker_exception_row, which knows nothing
\* of the payment: retryable unless the exception is a defect of the program.
Raised(a) ==
  /\ \E row \in {"retryable", "settled"} : Answer(a, row)
  /\ lost' = lost \cup {a}

Raise(a) == BatchFault /\ Raised(a)

\* A thread of the pool takes a: no usable token or a route mismatch ends it.
Authenticate(a) ==
  /\ step[a] = "queued"
  /\ Cardinality(Active) < Workers
  /\ \/ Enter(a, "try") /\ UNCHANGED <<tries, result>>
     \/ \E row \in {"retryable", "settled"} : Answer(a, row)
  /\ NoQueueStep
  /\ UNCHANGED <<direct, op, acted, report, main, resumed, rows, lost, runs>>

\* What the journal tells a caller it refuses (conflict_result).
Conflict(state) == IF state = "uncertain" THEN {"uncertain"} ELSE {"settled", "uncertain"}

\* Mutant of Admitted: the attempts are not counted.
AdmittedUncounted(a) ==
  /\ op[a] \in Op(a)!Reopenable
  /\ op' = [op EXCEPT ![a] = "open"]
  /\ lost' = lost \ {a}
  /\ Enter(a, "open")
  /\ UNCHANGED <<tries, result>>

\* generate_payment_link: an attempt is admitted ...
Admitted(a) ==
  /\ op[a] \in Op(a)!Reopenable
  /\ op' = [op EXCEPT ![a] = "open"]
  /\ tries' = [tries EXCEPT ![a] = @ + 1]
  /\ lost' = lost \ {a}
  /\ Enter(a, "open")
  /\ UNCHANGED result

\* ... or refused for good.
Refused(a) ==
  /\ op[a] \in Op(a)!Closed
  /\ \E row \in Conflict(op[a]) : result' = [result EXCEPT ![a] = row]
  /\ lost' = IF op[a] = "uncertain" THEN lost \ {a} ELSE lost
  /\ Enter(a, "emit")
  /\ UNCHANGED <<op, tries>>

Call(a) ==
  /\ step[a] = "try"
  /\ Admitted(a) \/ Refused(a)
  /\ NoQueueStep
  /\ UNCHANGED <<direct, acted, report, main, resumed, rows, runs>>

\* The record of an earlier attempt cannot be read, and the worker is told that
\* money may be out, as it is of an uncertain payment (Refused), whatever it says.
Misread(a) ==
  /\ step[a] = "try"
  /\ op[a] \notin {"fresh", "uncertain"}
  /\ BatchFault
  /\ result' = [result EXCEPT ![a] = "uncertain"]
  /\ lost' = lost \cup {a}
  /\ Enter(a, "emit")
  /\ UNCHANGED <<file, section, todo, work, current, charged, spoilt>>
  /\ UNCHANGED <<direct, op, acted, report, main, resumed, rows, tries, runs>>

\* The adapter of the attempt starts its side effect.
Act(a) ==
  /\ step[a] = "open"
  /\ ~acted[a]
  /\ acted' = [acted EXCEPT ![a] = TRUE]
  /\ NoQueueStep
  /\ UNCHANGED <<direct, op, report, main, resumed, rows, step, tries, result, lost, runs>>

\* The row of an attempt that leaves its operation in the given state.
RowOf(state) ==
  CASE state = "completed" -> "ok"
    [] state = "failed" -> "settled"
    [] state = "uncertain" -> "uncertain"
    [] state = "again" -> "retryable"

\* Mutant of Retry: one attempt more than asked for.
RetryOnceMore(a, state) == state = "again" /\ tries[a] <= Retries + 1

Retry(a, state) == state = "again" /\ tries[a] <= Retries

\* The attempt returns: try again, hand the link on, or report.
Return(a) ==
  /\ step[a] = "open"
  /\ \E state \in Op(a)!Left \ {"fresh"} :
       /\ state = "again" => Light
       /\ op' = [op EXCEPT ![a] = state]
       /\ result' = [result EXCEPT ![a] = RowOf(state)]
       /\ Enter(a, IF Retry(a, state) THEN "try"
                   ELSE IF state = "completed" /\ a \in direct THEN "link" ELSE "emit")
  /\ NoQueueStep
  /\ UNCHANGED <<direct, acted, report, main, resumed, rows, tries, lost, runs>>

\* The journal cannot be written and generate_payment_link raises.
Abort(a) ==
  /\ step[a] = "open"
  /\ \E state \in Op(a)!Left : op' = [op EXCEPT ![a] = state]
  /\ Raise(a)
  /\ UNCHANGED <<file, section, todo, work, current, charged, spoilt>>
  /\ UNCHANGED <<direct, acted, report, main, resumed, rows, runs>>

\* enqueue_paypal_ba_authorization under _LOCK of the process ...
OpenQueue(a) ==
  /\ step[a] = "link"
  /\ Read(Batch)
  /\ Enter(a, "linking")
  /\ UNCHANGED <<file, todo, work, current, charged, spoilt>>
  /\ UNCHANGED <<direct, op, acted, report, main, resumed, rows, tries, result, lost, runs>>

\* ... which writes a queue that does not have the token yet ...
Append(a) ==
  /\ step[a] = "linking" /\ seen[Batch][a] = "absent"
  /\ OpenTemporary(Batch)
  /\ Enter(a, "writing")
  /\ UNCHANGED <<file, todo, work, current, charged, spoilt>>
  /\ UNCHANGED <<direct, op, acted, report, main, resumed, rows, tries, result, lost, runs>>

\* ... and returns or raises.
HandOff(a) ==
  /\ step[a] \in {"linking", "writing"}
  /\ \/ /\ Enqueue(Batch, a) /\ Enter(a, "emit")
        /\ UNCHANGED <<faults, tries, result, lost>>
     \/ ReplaceFails(Batch, a, "pending") /\ Raised(a) /\ Release(Batch)
  /\ UNCHANGED <<todo, work, current, charged>>
  /\ UNCHANGED <<direct, op, acted, report, main, resumed, rows, runs>>

\* The last event is emitted and the row returned, unless an event raises.
Emit(a) ==
  /\ \/ step[a] = "emit" /\ Answer(a, result[a]) /\ UNCHANGED <<faults, lost>>
     \/ step[a] \in {"try", "emit"} /\ Raise(a)
  /\ UNCHANGED <<file, section, todo, work, current, charged, spoilt>>
  /\ UNCHANGED <<direct, op, acted, report, main, resumed, rows, runs>>

Worker(a) ==
  \/ Authenticate(a) \/ Call(a) \/ Misread(a) \/ Return(a) \/ Abort(a)
  \/ OpenQueue(a) \/ Append(a) \/ HandOff(a) \/ Emit(a)

-----------------------------------------------------------------------------
\* Rows the memory of the run holds and the report does not.
Unsaved ==
  {a \in Account : rows[a] # report.rows[a] \/ step[a] \notin {"off", "queued"}}

\* The main thread takes a finished row and checkpoints, unless the last
\* checkpoint is less than two seconds old.  If the write raises, the loop is
\* left and the pool waits for all its workers, whose rows nobody takes.
Collect(a) ==
  LET all == [rows EXCEPT ![a] = result[a]] IN
  /\ main = "loop"
  /\ step[a] = "done"
  /\ rows' = all
  /\ Enter(a, "off")
  /\ result' = [result EXCEPT ![a] = "none"]
  /\ \/ /\ \/ report' = [status |-> "running", rows |-> all]
           \/ Light /\ UNCHANGED report
        /\ UNCHANGED <<main, faults>>
     \/ BatchFault /\ main' = "draining" /\ UNCHANGED report
  /\ UNCHANGED <<file, section, todo, work, current, charged, spoilt>>
  /\ UNCHANGED <<direct, op, acted, resumed, tries, lost, runs>>

\* The terminal checkpoint is always written.
Finish ==
  /\ main = "loop"
  /\ \A a \in Account : step[a] = "off"
  /\ \/ /\ report' = [status |-> "finished", rows |-> rows]
        /\ UNCHANGED <<faults, lost>>
     \/ BatchFault /\ lost' = lost \cup Unsaved /\ UNCHANGED report
  /\ RunOver
  /\ UNCHANGED <<direct, file, section, todo, work, current, charged, spoilt, op, acted, runs>>

Drained ==
  /\ main = "draining"
  /\ \A a \in Account : step[a] \in {"off", "done"}
  /\ lost' = lost \cup Unsaved
  /\ RunOver
  /\ UNCHANGED <<queueVars, direct, op, acted, report, runs>>

\* A payment in flight when its process dies ends as its journal says.
Ends(a) == IF op[a] = "open" THEN Op(a)!Left ELSE {op[a]}

\* The process of the batch dies.
Crash ==
  /\ main # "off"
  /\ \E end \in [Account -> UNION {Ends(a) : a \in Account}] :
       /\ \A a \in Account : end[a] \in Ends(a)
       /\ op' = end
  /\ lost' = lost \cup Unsaved
  /\ Release(Batch)
  /\ RunOver
  /\ UNCHANGED <<direct, file, todo, work, current, charged, spoilt, faults, acted, report, runs>>

Main == Finish \/ Drained \/ \E a \in Account : Collect(a)

Authorize(p) == (List(p) \/ Pass(p) \/ Stop(p)) /\ UNCHANGED batchVars

Next ==
  \/ \E resume \in BOOLEAN : Start(resume)
  \/ \E a \in Account : Worker(a) \/ Act(a)
  \/ Main
  \/ Crash
  \/ \E p \in Process \ {Batch} : Authorize(p)

Spec == Init /\ [][Next]_vars

\* While a thread of the run can go on, one does: every call of a worker has a
\* timeout.
FairSpec == Spec /\ WF_vars(Main \/ \E a \in Account : Worker(a))

-----------------------------------------------------------------------------
(* A finished report agrees with the journal on every account whose last row
   was not lost, in a crash or to an exception or an unreadable record: it shows a link exactly for completed payments, unknown money
   exactly for uncertain ones, and calls retryable only what the journal will
   admit again.  A resume repairs what a crash lost, except a payment that had
   completed: that one it can only report as refused. *)
Agrees(a) ==
  /\ report.rows[a] = "ok" <=> op[a] = "completed"
  /\ report.rows[a] = "uncertain" <=> op[a] = "uncertain"
  /\ report.rows[a] = "retryable" => op[a] \in Op(a)!Reopenable
ReportAgrees == report.status = "finished" => \A a \in Account \ lost : Agrees(a)

(* Rows that may not be run again, money in an unknown state among them, stay
   in the report through every run that resumes the batch. *)
RowsStayVisible ==
  [][ resumed \/ resumed' => \A a \in Account :
        report.rows[a] \notin {"none", "retryable"} => report'.rows[a] = report.rows[a] ]_vars

(* Every approval link of a finished batch is in the authorization queue, for
   good, unless the run died or an exception came between the link and the queue
   (lost), another process wrote a stale queue over it or into the same temporary
   file (raced), or a later enqueue could not read the file and began a new one
   (wiped). *)
LinkQueued ==
  report.status = "finished" =>
    \A a \in direct \ (lost \cup raced \cup wiped) : op[a] = "completed" => file[a] # "absent"

(* Every run that is not killed ends and releases the batch, whatever fails:
   retries are bounded, and a report that cannot be written does not leave the
   main thread waiting. *)
RunEnds == main # "off" ~> main = "off"
=============================================================================
