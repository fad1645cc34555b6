-------------------------- MODULE RegistrationBatch --------------------------
(***************************************************************************)
(* run_batch_impl (batch_runner.py): a batch of registrations, one account *)
(* after the other, all at once in a thread pool, or in the waves of       *)
(* registration/pulse.py; with the circuit breaker, the cancel event and   *)
(* the retry guard of every address.  A registration is one step with any  *)
(* verdict: its exit lease, which never refuses it, is EnvironmentLedger.  *)
(* Sentinel prewarming, proxy statistics and events are left out.          *)
(***************************************************************************)
EXTENDS RetryGuard, Sequences, FiniteSets

CONSTANTS
  Count,         \* accounts of the batch, one mailbox each
  Mode,          \* schedulers: "sequential", "pool", "pulse"
  Workers,
  MaxAttempts,
  BreakAfter,    \* threshold of the circuit breaker
  WaveSize, MaxWaves, BanThreshold,   \* PulseConfig, canaries enabled
  Pool,          \* size of the proxy pool
  Outcome,       \* bound: verdicts that occur
  Shared,        \* bound: addresses that a batch of another process has too
  MaxTrouble     \* bound: failing locks and reads, and verdicts of others

Account == 1..Count

ASSUME BatchAssumption ==
  /\ Count \in Nat /\ Workers \in Nat \ {0} /\ MaxAttempts \in Nat \ {0}
  /\ BreakAfter \in Nat \ {0} /\ WaveSize \in Nat \ {0} /\ MaxWaves \in Nat
  /\ BanThreshold \in Nat \ {0} /\ MaxTrouble \in Nat
  /\ Mode \subseteq {"sequential", "pool", "pulse"}
  /\ Pool \in Nat \ {0}
  /\ Address = Account /\ Shared \subseteq Account
  /\ Outcome \subseteq Verdict

VARIABLES
  mode,        \* the scheduler of this batch
  main,        \* the thread that collects the results
  cancel,      \* cancellation was requested
  handed,      \* accounts handed to the workers: 1..handed
  waveFrom,    \* the first account of the current wave
  waves,       \* waves so far
  offset,      \* proxy_pool_offset
  streak,      \* consecutive environment failures
  tripped,     \* the breaker is open
  arrivals,    \* accounts in the order the breaker heard of them (history)
  at,          \* at[a]: where _run_one is
  tries,       \* tries[a]: the attempt a is at
  used,        \* accounts whose mailbox an attempt was made with (history)
  exit,        \* exit[a]: the exit a is pinned to
  result,      \* result[a]: the verdict of a
  told,        \* told[a]: times on_result was called (history)
  registered,  \* accounts of which an attempt succeeded (history)
  faults, elsewhere

batchVars == <<mode, main, cancel, handed, waveFrom, waves, offset, streak, tripped,
               arrivals, at, tries, used, exit, result, told, registered, faults, elsewhere>>
vars == <<guardVars, batchVars>>

Step == {"off", "queued", "check", "attempt", "wire", "settle", "done", "raised", "told"}
Result == Verdict \cup {"none", "parked", "blocked", "skipped"}

TypeOK ==
  /\ GuardTypeOK
  /\ mode \in Mode
  /\ main \in {"running", "raised", "over", "failed"}
  /\ cancel \in BOOLEAN
  /\ handed \in 0..Count
  /\ waveFrom \in 1..Count + 1
  /\ waves \in 0..Count
  /\ offset \in 0..Pool - 1
  /\ streak \in 0..BreakAfter
  /\ tripped \in BOOLEAN
  /\ arrivals \in Seq(Account)
  /\ at \in [Account -> Step]
  /\ tries \in [Account -> 0..MaxAttempts]
  /\ used \in SUBSET Account
  /\ exit \in [Account -> 0..Pool - 1]
  /\ result \in [Account -> Result]
  /\ told \in [Account -> Nat]
  /\ registered \in SUBSET Account
  /\ faults \in 0..MaxTrouble
  /\ elsewhere \in 0..MaxTrouble

Init ==
  /\ GuardInit
  /\ mode \in Mode
  /\ main = "running"
  /\ cancel = FALSE
  /\ handed = 0
  /\ waveFrom = 1
  /\ waves = 0
  /\ offset = 0
  /\ streak = 0
  /\ tripped = FALSE
  /\ arrivals = <<>>
  /\ at = [a \in Account |-> "off"]
  /\ tries = [a \in Account |-> 0]
  /\ used = {}
  /\ exit = [a \in Account |-> 0]
  /\ result = [a \in Account |-> "none"]
  /\ told = [a \in Account |-> 0]
  /\ registered = {}
  /\ faults = 0
  /\ elsewhere = 0

Fault == faults + elsewhere < MaxTrouble /\ faults' = faults + 1

schedule == <<mode, main, cancel, handed, waveFrom, waves, offset, told, elsewhere>>
breaker == <<streak, tripped, arrivals>>

Enter(a, step) == at' = [at EXCEPT ![a] = step]

\* _run_one returns this result, or raises.
Return(a, step) == Enter(a, step) /\ tries' = [tries EXCEPT ![a] = 0]
Answer(a, r) == result' = [result EXCEPT ![a] = r] /\ Return(a, "done")

-----------------------------------------------------------------------------
(* _run_one *)

Running == {a \in Account : at[a] \notin {"off", "queued", "done", "raised", "told"}}

\* Mutant of Begin: after a cancel nobody takes the accounts that wait.
BeginWaiting(a) ==
  /\ at[a] = "queued"
  /\ \A b \in Account : at[b] = "queued" => a <= b
  /\ Cardinality(Running) < Workers
  /\ ~cancel
  /\ \/ tripped /\ Answer(a, "parked")
     \/ ~tripped /\ Enter(a, "check") /\ UNCHANGED <<tries, result>>
  /\ UNCHANGED <<guardVars, schedule, breaker, used, exit, registered, faults>>

\* A thread takes the account that was submitted first.
Begin(a) ==
  /\ at[a] = "queued"
  /\ \A b \in Account : at[b] = "queued" => a <= b
  /\ Cardinality(Running) < Workers
  /\ \/ cancel /\ Answer(a, "cancelled")
     \/ ~cancel /\ tripped /\ Answer(a, "parked")
     \/ ~cancel /\ ~tripped /\ Enter(a, "check") /\ UNCHANGED <<tries, result>>
  /\ UNCHANGED <<guardVars, schedule, breaker, used, exit, registered, faults>>

\* retry_guard.check; the exit is pinned for all attempts.  An unreadable file
\* blocks nobody; a lock that is not had in time raises out of _run_one.
Check(a) ==
  /\ at[a] = "check"
  /\ \/ Blocked(a) /\ Answer(a, "blocked") /\ UNCHANGED <<exit, faults>>
     \/ /\ IF Blocked(a) THEN Fault ELSE UNCHANGED faults
        /\ exit' = [exit EXCEPT ![a] = (a - 1 + offset) % Pool]
        /\ Enter(a, "attempt") /\ UNCHANGED <<tries, result>>
     \/ Fault /\ Return(a, "raised") /\ UNCHANGED <<exit, result>>
  /\ UNCHANGED <<guardVars, schedule, breaker, used, registered>>

\* The head of the attempt loop, and the cancellable sleep before a retry.
Attempts(a) ==
  /\ at[a] = "attempt"
  /\ IF cancel
     THEN Answer(a, "cancelled") /\ UNCHANGED used
     ELSE /\ Enter(a, "wire")
          /\ tries' = [tries EXCEPT ![a] = @ + 1]
          /\ used' = used \cup {a}
          /\ UNCHANGED result
  /\ UNCHANGED <<guardVars, schedule, breaker, exit, registered, faults>>

\* run_email_func returns or raises; a dead end may have been marked inside.
Register(a) ==
  /\ at[a] = "wire"
  /\ \E v \in Outcome :
       /\ v = "cancelled" => cancel
       /\ result' = [result EXCEPT ![a] = v]
       /\ registered' = IF v = "ok" THEN registered \cup {a} ELSE registered
       /\ \/ UNCHANGED guard
          \/ v \in {"ok", "network", "dead_end"} /\ MarkDeadEnd(a)
  /\ Enter(a, "settle")
  /\ UNCHANGED <<expiries, schedule, breaker, tries, used, exit, faults>>

\* Mutant of Streak: an open breaker goes on counting.
StreakOpen(v) == IF v = "network" THEN streak + 1 ELSE 0

\* BatchCircuitBreaker.record, which an open breaker ignores, and record_success.
Streak(v) ==
  CASE v = "ok" -> 0
    [] v # "ok" /\ tripped -> streak
    [] v = "network" /\ ~tripped -> streak + 1
    [] v \notin {"ok", "network"} /\ ~tripped -> 0

Tally(a, v) ==
  /\ streak' = Streak(v)
  /\ tripped' = (tripped \/ Streak(v) = BreakAfter)
  /\ arrivals' = Append(arrivals, a)

Retryable(a) == result[a] = "network" /\ tries[a] < MaxAttempts

\* Mutant of Retry: every attempt feeds the breaker.
RetryTallied(a) ==
  /\ at[a] = "settle" /\ Retryable(a)
  /\ streak' = streak + 1
  /\ tripped' = (tripped \/ streak + 1 >= BreakAfter)
  /\ UNCHANGED arrivals
  /\ result' = [result EXCEPT ![a] = "none"]
  /\ Enter(a, "attempt")
  /\ UNCHANGED <<guardVars, schedule, tries, used, exit, registered, faults>>

Retry(a) ==
  /\ at[a] = "settle" /\ Retryable(a)
  /\ result' = [result EXCEPT ![a] = "none"]
  /\ Enter(a, "attempt")
  /\ UNCHANGED <<guardVars, schedule, breaker, tries, used, exit, registered, faults>>

\* A verdict is recorded by the retry guard, then by the breaker; no other step
\* reads both.  The guard may raise out of _run_one, or find no file.
Settle(a) ==
  /\ at[a] = "settle" /\ ~Retryable(a)
  /\ \/ /\ \/ Record(a, result[a]) /\ UNCHANGED faults
           \/ RecordAlone(a, result[a]) /\ Fault
        /\ Tally(a, result[a])
        /\ Return(a, "done")
     \/ Fault /\ Return(a, "raised") /\ UNCHANGED <<guard, breaker>>
  /\ UNCHANGED <<expiries, schedule, used, exit, result, registered>>

Worker(a) ==
  \/ Begin(a) \/ Check(a) \/ Attempts(a)
  \/ Register(a) \/ Retry(a) \/ Settle(a)

-----------------------------------------------------------------------------
(* The schedulers *)

workerVars == <<guardVars, breaker, tries, used, exit, registered, faults, elsewhere>>

Handed == 1..handed
AllTold == \A a \in Handed : at[a] = "told"

\* Accounts up to n are submitted.
Submit(n) ==
  /\ handed' = n
  /\ at' = [a \in Account |-> IF a \in handed + 1..n THEN "queued" ELSE at[a]]

\* One account at a time, or all of them.
Dispatch ==
  /\ main = "running" /\ AllTold /\ handed < Count
  /\ \/ mode = "sequential" /\ Submit(handed + 1)
     \/ mode = "pool" /\ Submit(Count)
  /\ UNCHANGED <<workerVars, mode, main, cancel, waveFrom, waves, offset, result, told>>

Wave == waveFrom..handed
BanSignals == {a \in Wave : result[a] = "stuck"}

\* A canary, or a whole wave beyond the threshold, failed on dispatch.
DispatchBlocked ==
  /\ BanSignals # {} /\ BanSignals = Wave
  /\ Cardinality(Wave) = 1 \/ Cardinality(Wave) >= BanThreshold

LastWave == MaxWaves > 0 /\ waves = MaxWaves

\* The next wave: a canary at first and after a blocked wave, for which the
\* cursor of the proxy pool is moved.
NextWave ==
  LET canary == waves = 0 \/ DispatchBlocked
      size == IF canary THEN 1 ELSE WaveSize IN
  /\ mode = "pulse" /\ main = "running" /\ AllTold /\ handed < Count
  /\ ~cancel /\ ~LastWave
  /\ waves' = waves + 1
  /\ waveFrom' = handed + 1
  /\ offset' = IF waves > 0 /\ DispatchBlocked THEN (offset + 1) % Pool ELSE offset
  /\ Submit(AtMost(handed + size, Count))
  /\ UNCHANGED <<workerVars, mode, main, cancel, result, told>>

\* Mutant of Abandon: the loop is not told that nothing remains.
AbandonKept ==
  /\ mode = "pulse" /\ main = "running" /\ AllTold /\ handed < Count
  /\ cancel \/ LastWave
  /\ result' = [a \in Account |->
                  IF a \in Handed THEN result[a] ELSE IF cancel THEN "cancelled" ELSE "skipped"]
  /\ told' = [a \in Account |-> IF a \in Handed THEN told[a] ELSE told[a] + 1]
  /\ UNCHANGED <<workerVars, mode, main, cancel, handed, waveFrom, waves, offset, at>>

\* The accounts that remain get their result from the pulse loop itself.
Abandon ==
  /\ mode = "pulse" /\ main = "running" /\ AllTold /\ handed < Count
  /\ cancel \/ LastWave
  /\ handed' = Count
  /\ at' = [a \in Account |-> "told"]
  /\ result' = [a \in Account |->
                  IF a \in Handed THEN result[a] ELSE IF cancel THEN "cancelled" ELSE "skipped"]
  /\ told' = [a \in Account |-> IF a \in Handed THEN told[a] ELSE told[a] + 1]
  /\ UNCHANGED <<workerVars, mode, main, cancel, waveFrom, waves, offset>>

\* A finished account is taken in any order and reported.
Tell(a) ==
  /\ main = "running"
  /\ at[a] = "done"
  /\ told' = [told EXCEPT ![a] = @ + 1]
  /\ Enter(a, "told")
  /\ UNCHANGED <<workerVars, mode, main, cancel, handed, waveFrom, waves, offset, result>>

\* An exception of _run_one ends the loop: no other result is reported ...
Raise ==
  /\ main = "running"
  /\ \E a \in Account : at[a] = "raised"
  /\ main' = "raised"
  /\ UNCHANGED <<workerVars, mode, cancel, handed, waveFrom, waves, offset, at, result, told>>

\* ... and the pool is left when the accounts it was given are all done.
Leave ==
  /\ \/ main = "running" /\ handed = Count /\ AllTold /\ main' = "over"
     \/ main = "raised" /\ (\A a \in Handed : at[a] \in {"done", "told", "raised"}) /\ main' = "failed"
  /\ cancel' = FALSE
  /\ UNCHANGED <<workerVars, mode, handed, waveFrom, waves, offset, at, result, told>>

Main == Dispatch \/ NextWave \/ Abandon \/ Raise \/ Leave \/ \E a \in Account : Tell(a)

-----------------------------------------------------------------------------
Cancel ==
  /\ main \in {"running", "raised"} /\ ~cancel
  /\ cancel' = TRUE
  /\ UNCHANGED <<workerVars, mode, main, handed, waveFrom, waves, offset, at, result, told>>

\* A batch of another process records a failure on the same address.
Elsewhere(a) ==
  /\ main = "running" /\ a \in Shared
  /\ faults + elsewhere < MaxTrouble
  /\ elsewhere' = elsewhere + 1
  /\ \E v \in {"network", "stuck", "dead_end"} : Record(a, v)
  /\ UNCHANGED <<expiries, breaker, tries, used, exit, registered, faults>>
  /\ UNCHANGED <<mode, main, cancel, handed, waveFrom, waves, offset, at, result, told>>

Time == main = "running" /\ (\E a \in Account : Expire(a)) /\ UNCHANGED batchVars

Next ==
  \/ \E a \in Account : Worker(a) \/ Elsewhere(a)
  \/ Main \/ Cancel \/ Time

Spec == Init /\ [][Next]_vars

\* The threads go on: every wait of a registration has a timeout.
FairSpec == Spec /\ WF_vars(Main) /\ \A a \in Account : WF_vars(Worker(a))

-----------------------------------------------------------------------------
(* Every account of a batch that returns has one result, reported once, under
   every scheduler and whenever a cancel comes: "ok" exactly when an attempt
   registered it, and "parked", "blocked" or "skipped" only if its mailbox was
   not used. *)
OneVerdictEach ==
  \A a \in Account :
    /\ told[a] <= 1
    /\ main = "over" =>
         /\ told[a] = 1
         /\ result[a] = "ok" <=> a \in registered
         /\ result[a] \in {"parked", "blocked", "skipped"} => a \notin used

(* The breaker is open exactly when so many accounts in the order in which they
   finished failed on the environment with none between: the attempts of one
   account count once. *)
TripsOnStreak ==
  tripped <=>
    \E first \in 1..Len(arrivals) :
      /\ first + BreakAfter - 1 <= Len(arrivals)
      /\ \A k \in first..first + BreakAfter - 1 : result[arrivals[k]] = "network"

(* A dead end, or a quarantine that is not over, is kept through whatever later
   attempts of this and other processes record, until one succeeds or the file
   cannot be read. *)
VerdictKept ==
  [][ \A a \in Account :
        guard[a].kind = "dead_end" \/ (guard[a].kind = "quarantined" /\ guard[a].waiting) =>
          \/ guard'[a].kind \in {guard[a].kind, "dead_end"}
          \/ at[a] = "settle" /\ result[a] = "ok"
          \/ faults' # faults ]_vars

(* Every batch ends: no scheduler, cancel, breaker or exception leaves it
   waiting. *)
BatchEnds == <>(main \in {"over", "failed"})
=============================================================================
