# Formal models of the `sms_tool` core

The program is a Windows desktop workbench: a WPF front end (`SmsWorkbench`)
starts the Python command line (`sms_tool`) as subprocesses and reads through a
long-lived read server. The Python core registers accounts, persists them, checks
their health in the background and produces payment links through provider
adapters. Most of its 106k lines talk to remote sites. This project is about
the rest: the infrastructure on which several threads, several processes and a
restart after a crash must agree, and which the unit tests exercise one caller
at a time.

All paths below are relative to `src/`.

## 1. Inventory

| Component | State it keeps | Operations | Interacts with | What is hard |
|---|---|---|---|---|
| **Cross-process gate** `sms_tool/cross_process_gate.py` | slot files in a directory, OS byte locks, handles | `acquire`, `release`, `discard`, write lock | every file the processes share; browser and stage gates; the operation journal | processes interleave between open, lock and unlink; death of a holder; removed directory |
| **Operation journal** `sms_tool/operation_journal.py` | one JSON record per idempotency key | `begin`, `checkpoint`, `finish`, `fail_unknown`, `close` | gate; payment lane; registration lane | crash or failed write between an effect and its record; a gate timeout racing the holder |
| **Payment contract** `sms_tool/payment/contracts.py` | none | `from_mapping`, `to_dict`, `payment_retry_allowed` | adapters, executor, journal, batch | four functions in two modules decide on a replay and must agree |
| **Payment executor and link core** `sms_tool/payment/executor.py`, `sms_tool/pay_link/core.py` | an attempt in progress | the moves created … terminal, each with a durable checkpoint | journal, adapters | exceptions at each move; at most one side effect over all retries |
| **Payment adapters** `sms_tool/pay_link/adapters.py`, `normalize.py`, `sms_tool/regional_payment_adapter.py` | none | `run` | provider, extractor subprocesses | what a deadline or a transport failure means after the provider acted |
| **Registration persistence** `sms_tool/commands/registration.py` | session file, account row, audit rows, marker | `persist_registration_result`, `save_registration_results` | journal, account store, health queue | two passes over one result, failures between four stores |
| **Account-health queue** `sms_tool/accounts/account_health_queue.py` | one JSON file of jobs, leases | enqueue, claim, update, heartbeat, recover | health workflows | several processes on one file under an in-process lock; expired leases; failing reads |
| **Payment batch** `sms_tool/payment/batch.py` | report file, event log | run, checkpoint, resume | payment lane | throttled checkpoints and resume against a journal that refuses |
| **Browser pool** `sms_tool/browser_pool.py` | permits, slots, resident browsers | session, recycle, memory cap, close | gate, registration | permits taken before the `try`; close under sessions |
| **Stage gates** `sms_tool/registration/concurrency.py` | semaphore and gate per group, leases | acquire, release, reload | gate | one gate object shared by all threads; caps that change |
| **Exit lease ledger** `sms_tool/store/environment_ledger.py` | SQL table of leases | acquire, share, release, sweep | registration | reference counts read outside the transaction |
| **Desktop read server** `sms_tool/desktop_serve.py` | request in flight, deadline | serve, watchdog | front end | a late answer racing the watchdog's answer |
| **Retry guard, checkpoints** `sms_tool/registration/retry_guard.py`, `sms_tool/store/checkpoints.py` | cooldowns, dead ends, resume states | record, admit, upsert | registration | two attempts of one address in any order |
| **Registration batches** `sms_tool/batch_runner.py`, `sms_tool/registration/pulse.py`, `sms_tool/batch_circuit_breaker.py` | waves, outcomes, breaker | submit, cancel, trip | registration | completion order; cancel between waves |
| **PayPal authorization queue** `sms_tool/paypal/authorization_queue.py` | queue file | enqueue, process | PayPal flow | list and mark are separate; no leases |
| **Files under a write lock** `sms_tool/mailbox/*`, `sms_tool/phone_pool.py` | pool, reclaim and quarantine files | read-change-replace | gate | reads outside the lock |

The others (registration flow, remote-site clients, proxy selection, payment
providers, command line, desktop workbench, extractor services, scripts) are
network conversations, formatting or user interface; `PROJECT.json` names each
with its sources and the reason it is left out.

### What makes each component correct

* *Gate*: never more than `limit` permits on the machine; a dead holder's permit
  comes back; a waiter is served or times out.
* *Journal and payment lane*: for one idempotency key at most one attempt ever
  reaches the provider, whatever is retried, killed or fails to be written; a final
  record stays; one writer; the gate of the key is always free again.
* *Registration persistence*: a caller told "already complete" by a record that was read is told the truth;
  a row points to a file that exists; a result is written once despite two passes.
* *Health queue*: jobs are unique, durable, served, and checks of one account
  never overlap.
* *Payment batch*: a finished report says of every account what its journal says;
  a resume keeps settled rows; a run ends whatever cannot be written.
* *Authorization queue*: a link the batch obtained is queued; no agreement is charged
  twice.
* *Registration batch*: one result per account under every scheduler and cancel; the
  breaker counts consecutive accounts, not attempts; it ends.
* *Retry guard*: a terminal verdict survives what other attempts and processes record.
* *Exit lease ledger*: whoever shares an exit shares its row; no row outlives its
  holders.
* *Browser pool*: a session has its browser to itself, the pool forgets no browser it could
  close, and no failure costs a permit.
* *Not modelled*: a stage lease returns both of its permits; a request of the read
  server has one answer; a resume state does not step back; a file read outside its
  write lock is not acted on when it is stale.

The hazards behind these sentences are listed at their lines in `PROJECT.json`,
with the properties that cover them or the reason none does.

## 2. Modules

| Module | Models | Uses |
|---|---|---|
| `Semaphore` | what a gate promises: `Limit` permits | |
| `SlotGate` | `CrossProcessSemaphore`, down to the inode a handle is on | `Semaphore` |
| `PaymentContract` | the pure decisions on results and records | |
| `OperationJournal` | `PaymentOperationStore` and `PaymentOperation` for one key | `PaymentContract` |
| `AtMostOnce` | what the operation of a key promises to whoever calls it | |
| `PaymentLane` | `generate_payment_link` and `PaymentFlowExecutor` | `OperationJournal`, `AtMostOnce` |
| `AuthorizationQueue` | the PayPal queue file and its processors | |
| `PaymentBatch` | `run_payment_batch`, its workers, its report and its resume | `AtMostOnce`, `AuthorizationQueue` |
| `RegistrationLane` | `persist_registration_result` and its core | `OperationJournal` |
| `HealthQueue` | the queue file, its enqueuers, coordinators and heartbeats | |
| `RetryGuard` | `RegistrationRetryGuard`, one entry per address | |
| `RegistrationBatch` | `run_batch_impl`, its three schedulers, `_run_one`, the breaker | `RetryGuard` |
| `EnvironmentLedger` | the table of exit leases, one transaction a step | |
| `BrowserPool` | `BrowserProcessPool`: permits, slots, residents, close | |
| `RegistrationAttempt` | the lease and the session around one attempt | `EnvironmentLedger`, `BrowserPool` |
| `SlotGateProofs`, `PaymentLaneProofs`, `PaymentBatchProofs`, `RegistrationLaneProofs`, `HealthQueueProofs`, `RegistrationBatchProofs` | the theorems of section 5 | the module each is named after |
| `RegistrationAttemptProofs`, `ExitLeaseProofs` | the pool and the ledger | `RegistrationAttempt` |
| `MC*` | the values and instances TLC needs | |

The compositions follow the calls. A batch of payments calls the lane, which calls the
journal, which takes a gate: `PaymentLane` is shown to implement `AtMostOnce`, and
`PaymentBatch` uses one instance of that per account instead of the lane; `SlotGate` is
shown to implement `Semaphore`, and the journal uses an exclusive holder. The proofs close
the circle: the accounts of a `PaymentBatch` implement `AtMostOnce` as well, and so do the
sessions of the browser pool `Semaphore`. A registration batch calls an attempt, which holds a lease and a browser session:
`RegistrationBatch` treats the attempt as one step with any verdict, because no lease and no
pool decides its verdict other than by one more failure, and `RegistrationAttempt`
opens it up.

### How state and actions correspond to the code

**SlotGate.** `file[s]` is the inode the name `slot-<s>.lock` is linked to and
`owner[i]` the process with the OS lock on inode `i`; the lock belongs to an inode
and not to a name, which is what `discard()` can get wrong. `pc[p]` stands for the
thread that holds the gate object's `RLock` (one at a time per process), and
`waiting[p]` counts the threads in `acquire`. `OpenSlot` is one `open(path, "a+b")`
with its `FileNotFoundError` branch (`MakeDir`, second try), `LockSlot` is
`_lock_byte`, `Retry`/`Expire` the two sides of the deadline test, `Release` the
unlock, `Unlink`/`RemoveDir` the statements of `discard`. `Ephemeral` says that the
gate's name is made for one operation and discarded after use, `Posix` that `unlink`
works on an open file. The order in which a process gives back several handles is
left open. As a permit of `Semaphore` counts the inode a process has locked, not the
slot it was found under. `cross_process_write_lock` polls one file that is never unlinked; it is not a
module of its own (it corresponds to `Limit = 1` without `Ephemeral`).

**OperationJournal.** One key; keys share nothing. `disk` is the record (or no
file, or one that does not parse), `mem[c]` the copy of a caller, `holder` the gate
of the key as the exclusive lock `SlotGate` implements on Windows. A record is
the five fields decisions read. A file is replaced atomically (`os.replace`), so a
write lands whole or raises; where it may raise, the action has both outcomes, and
the copy in memory is changed first, as in the code. `FailUnknown` whose write
raises leaves the gate locked by a handle without owner (`stranded`) until the
interpreter collects it (`Collect`). `Die` is the death of the process, `Damage` a
file somebody else broke. `_read_record` may fail on any file that is there (`Reads`): before
the gate (`RefuseBusy`) and under it (`RefuseReplay`) the caller is then refused with the
`LostRecord` that function makes up, although the record may allow the replay. `verdict[c]` is the
record of the `PaymentOperationConflict`.

**PaymentContract.** Error stages are reduced to membership in
`_SIDE_EFFECT_STAGES`, all other data are dropped. `FromMapping`, `ToDict`,
`ReplayAllowed`, `ConflictResult` and `RetryAllowed` have the code's conditions. `ConflictResult`
is what the payment lane makes of a `verdict`; the registration lane reports every one as complete.

**PaymentLane.** `at[c]` is the next statement of the executor: `MoveCreated`
(outside the `try`), the moves before the adapter, `MoveAdapter` (which marks the side
effect durably *before* the adapter runs), the adapter, `MoveArtifact`,
`MoveTerminal`, `FinishCall`, and `Abort` for the `except` of
`generate_payment_link`. The adapter is external: `StartEffect` is the
provider acting, at any moment of the run, and the run ends in any member of
`Results[started]` or raises. `effects` is a history variable: the attempts that
reached the provider. A capability probe is not modelled: it shares the record but
has no side effect.

**RegistrationLane.** `marker[c]` is the persistence marker inside a result,
`row`, `files` and `jobs` what the stores contain. `Audit`, `Session`, `Upsert`,
`Health`, `AuditActive` are the statements of the core in order; each may raise,
which ends in the marker and in `FinishPass`. `StartPass` is a call from the
immediate pass or from `save_registration_results`. `email|batch` is the key: a batch
id is random per process unless it is passed in, so the callers of one key are
the rounds and threads of a process, or processes given one id.

**HealthQueue.** A critical section is two steps: `Load`, the read with the recovery
of interrupted jobs, and `Write`, the replace. `section[p]` holds what a thread of `p`
is about to write, so two processes may interleave between them and two
threads of one process may not. `Load` may fail and then returns an empty queue, as
`_load_unlocked` does. `Written`/`NotWritten` are what the thread does after its
replace or its exception. `Claim`, `Update`, `NextBatch`, `Drain`, `Exit` are the
coordinator, `Heartbeat` its renewing thread, `Enqueue`, `Recover`, `StartWorker` the
statements of `enqueue_post_registration_checks`. Processes are numbered in the order
in which they start. An item of the queue has no lease after its end, and nothing looks
at the lease when a result is recorded: a handler that is late reports over the end
`failed (queue_item_expired)` of its own job.

**AtMostOnce.** `state` is what a key is open to and `acted` whether the side effect has
started; the two fields a caller of the lane can tell apart. `Left` is the promise.

**PaymentBatch.** Per account `op[a]` and `acted[a]` are the operation. `report` is the
report file, `rows` what the run has collected, `main` where `run_payment_batch` is:
taking results (`loop`), or leaving the pool because a checkpoint raised (`draining`).
`step[a]` is the next statement of the worker: `Authenticate`, `Call`, `Return`
or `Abort`, `OpenQueue`, `Append` and `HandOff` for the approval link of an account of
`direct`, `Emit`. `Collect` takes a row
and writes the checkpoint or, within two seconds of the last, does not; `Finish` writes the
terminal one. `Crash` ends the process, and the operation in flight as the journal says.
`lost` remembers the accounts whose last row did not reach a report, because the
batch died or raised first, or knew nothing of the payment: an exception (`Raised`), or a record that could
not be read, which is reported as money in an unknown state (`Misread`). It is where the report may differ from the journal, and
it is real: a payment that completed just before a crash is refused by the journal in the next
run, so that its link is in no report, and if the crash came between
`generate_payment_link` and the hand-off, in no queue either.

**AuthorizationQueue.** `file` is the queue file, `seen[p]` what `p` has read in its
section; `_LOCK` is a `threading.Lock`, so two processes interleave between `Read`,
`OpenTemporary` and `Replace`, and `writing` holds those that are at the temporary file. Its name
is fixed (`authorization_queue.py:162`): two may open it side by side (`mixed`), and then the
rename of one may install what it wrote, an unreadable mixture, which reads as an empty queue, or
nothing, and may raise whatever it installed. What the other one wrote and this one renamed is in
`file` as if the other had replaced it and then raised. `List`, `Take`, `Open`, `Mark`, `Handle`,
`Returns`, `Raises`, `Record`, `Fail` are the statements of `process_paypal_ba_authorizations`,
`Enqueue` the end of the call of the batch. Two histories remember what a write spoils. `raced`: items
whose state in the file another process had changed since the writer read it, items
two took, items that did not land as written because the temporary file was shared. `wiped`: items that
were in the file when a section replaced it that could not read it; no other process is needed
for that. `charged` counts the calls of the handler, up to two.

**RetryGuard.** One entry per address; every section runs under the cross-process write
lock and is one step (`Record`, `MarkDeadEnd`, the test `Blocked`). `Recorded` is the
decision of `record()` on an entry. Counts stop at their threshold, and time
is the end of a cooldown or quarantine (`Expire`). A success erases every entry, a dead
end too. A file that cannot be read is taken for empty, and all other entries go
(`RecordAlone`).

**RegistrationBatch.** `at[a]` is the next statement of `_run_one`, `main` the thread that
collects. `Dispatch`, `NextWave` and `Abandon` are the sequential loop, the thread pool and
the waves of `pulse.py`, with its canaries, ban signals and moving proxy offset; `Tell` is
`on_result`. `Streak` and `Tally` are the breaker, `Elsewhere` a batch of another process on the
same address. An exception of the guard leaves `_run_one`, and the loop with it:
`main = "failed"`, and results that were not told are lost with it. `registered` remembers the accounts
of which `run_email` returned a success.

**EnvironmentLedger.** `ledger` is the table, `lease[a]` the id an attempt holds,
`holder[a]` the live row it has read; every operator is one transaction, and between
the read and the share of an acquire others run, as they do between the refused insert and
the second read. `unseen` are the attempts whose use of an exit the
ledger does not show: it failed, the lease ran out under its holder, the row was
no longer leased when it was shared by id, or the winner of a refused insert had let go when
the ledger was read again, so that the attempt goes on without a lease
(`sms_tool/store/environment_ledger.py:295-329`). `leaked` are the rows of which a drop failed.

**BrowserPool.** `permits` is the semaphore, `slot` the table of slots with their
residents, `order` which of them was used last,
`has[a]` and `with[a]` the slot and the browser of a session, `evicted[a]` a resident
taken out for the memory cap and not closed yet, `closing` those taken by `close()`. A resident is
the object in the table, and `running` are the processes: the two come apart. What the code
does under its lock is one step, what it does outside it (closing a browser,
launching, tearing down) another. `recycle_on_error` is on, as by default.

`keeps` is the kind of the driver, and both are initial states. One that has
`release_account_context` and `renew_account_context` keeps its browser between
sessions. Camoufox has neither (`sms_tool/registration_drivers/external_sessions/managed.py:276-277`): its resident is closed at the
end of every session and stays in the table (`sms_tool/browser_pool.py:352-361`) until the next session
of the slot fails to renew it, closes it again and launches another. Every `close()` of the pool may fail
(`CloseOf(b, TRUE)`), which the code logs before it drops the entry; a launch that fails may leave
the process it opened (`LaunchFails`). `loose` remembers those processes. A session ends well, with
a `BrowserRegistrationError` (`failed`) or with any other exception (`degraded`).

**RegistrationAttempt.** `at[a]` follows `_hold_environment_lease`, then
`BrowserProcessPool.session`, then the drop. An attempt without a proxy takes no lease, one of
the protocol driver no browser. A database that fails costs the lease and never the attempt.
`Closes` is `close()` under sessions in flight: a scope with another configuration
(`sms_tool/registration_drivers/browser_flow/flow_steps.py:142-153`, `:190`, `:219-237`)
or the end of another batch (`sms_tool/batch_runner.py:977-985`) does that. The exception `browser_pool_slot_unavailable` has no
step: `PermitsAreKept` proves that it cannot be raised.

## 3. Runs

Deadlock is not checked anywhere: calls, results and jobs are bounded, and the program
may really stop when there is no work left. Every other run parameter is a named
constant of its module.

| Run | Asks | Bounds | Shows |
|---|---|---|---|
| `SlotGate` | does an ephemeral gate on Windows keep its cap, implement `Semaphore`, and serve waiters? | 3 processes, 3 inodes, 2 slots, 2 calls each | yes, with `discard` and deaths at any point |
| `SlotGatePosix` | the same cap on POSIX | 3 processes, 4 inodes, 1 slot, 1 call each | **violated** (finding 1) |
| `PaymentLane` | eight properties of calls with one key | 3 callers, 3 calls | all hold for stage-aware adapters |
| `PaymentLaneReplay` | at most one effect with the results the extractor and regional adapters can really give | 2 callers, 2 calls | **violated** (finding 2) |
| `PaymentLaneStale` | is a run that died before its adapter admitted again? | 2 callers, 2 calls | **violated** (finding 3) |
| `PaymentBatch` | report, links, charges, resume and end of the runs of one batch id | 2 accounts, 2 workers, 1 other process, 1 fault; with one approval link 2 runs and 2 attempts, with two links 1 run | all hold, with a crash anywhere and the exceptions below |
| `RegistrationLane` | five properties of the results of one key | 2 callers, 2 results, 4 calls | all hold, with every write, and every read of the record, failing or not and deaths anywhere |
| `RegistrationRetry` | is a failed persistence retried by the finalization pass? | 1 caller, 1 result, 2 calls | **violated** (finding 4) |
| `RegistrationBatch` | results, breaker, verdicts and end of a batch under each scheduler | 3 accounts, 2 workers, 2 attempts, breaker of 2, at most 2 waves of 2, thresholds of 2, pool of 1, 1 expiry, 1 fault or foreign verdict | all hold, with a cancel at any time |
| `RegistrationAttempt` | leases and browsers of attempts side by side | 3 attempts, 1 exit, 2 slots, 2 uses of a browser, 1 lapse, 1 failure, 1 close | all hold, with the exceptions below |
| `HealthQueue` | five properties of the queue, one process after another | 2 processes, 2 accounts, 3 checks, 2 jobs, 2 ticks, 2 file faults | all hold |
| `HealthQueueLost` | are jobs kept with two processes at a time? | 2 processes, 2 jobs, no faults | **violated** (finding 5) |

### Properties

* `SlotGate`: `CapHolds`; `ImplementsSemaphore`, the refinement of `Semaphore` with the
  inodes a process has locked for its permits; `WaiterServed`.
* `PaymentLane`: `AtMostOneEffect`; `OneWriter`, the file is the record of the open
  attempt; `FinalRecordKept`; `RetryAgreesWithReplay`, the batch's retry decision and the
  journal's replay decision agree on whatever is finished; `GateFreed`; `IInv`, the
  inductive invariant of the proofs, so that it is known to hold before it is proved; and
  `ImplementsAtMostOnce`, the refinement of `AtMostOnce`.
* `PaymentBatch`: `ReportAgrees`, a finished report agrees with the journal; `LinkQueued`,
  nothing but a death or exception before the hand-off, another process in the file and a read that fails
  keeps an approval link out of the queue; `ChargedOnce`, nothing but another process repeats
  an authorization; `RowsStayVisible`, a resume
  keeps settled rows and rows of money in an unknown state; `RunEnds`.
* `RegistrationLane`: `RefusedMeansSaved`, a caller is refused on a record read under
  the gate only when a row exists, unless that read failed; `RowHasItsFile`; `OncePerResult`;
  `CompletedClosesKey`.
* `RegistrationBatch`: `OneVerdictEach`; `TripsOnStreak`, the breaker is open exactly when
  as many accounts in a row failed on the environment; `VerdictKept`; `BatchEnds`.
* `RegistrationAttempt`: `NoSilentShare`, attempts on one exit hold one row;
  `NobodySquats`, a count is the number of its holders; `BrowsersAreKept`, a session has its slot and browser
  to itself; `NoStrayBrowser`, a running browser is in a table of the pool, but for those whose close
  or launch failed or that were launched after the close; `NoWornBrowser`, a browser that has served its uses, or a
  session that ended with a `BrowserRegistrationError`, is not used again; `PermitsAreKept`.
* `HealthQueue`: `NoDuplicateActive`; `SerializedPerAccount`; `JobsKept`, only a section
  that could not read the file drops jobs and only the report of a handler ends a job a second
  time; `WaitingServed`.

### What the properties leave out, because the code does

Some properties except cases in which the code does go wrong. They are narrower than what
one would like to promise, and each exception is needed:

* `RefusedMeansSaved` excepts refusals by a read that failed. `persist_registration_result` turns every
  `PaymentOperationConflict` into `complete` (`sms_tool/commands/registration.py:451-459`), also the one
  `_read_record` raises under the gate for an `OSError` or a file that does not parse
  (`sms_tool/operation_journal.py:188`, `:264-275`), and the one of a gate that stayed busy. The model has both, in
  every state of the record: an attempt that failed, was finished as retryable and wrote no row is then reported as complete, and if
  that was the pass of the end of the batch nobody tries again. `FailureIsRetried` excepts these refusals too, so that finding 4 is about a record that was read.
* `ReportAgrees` and `LinkQueued` except `lost` accounts. A crash between
  `generate_payment_link` and the enqueue loses a link that was paid for: the journal
  refuses the next run, and the link is in no queue, although
  `sms_tool/paypal/authorization_queue.py:3-5` says that a restart cannot lose an already
  generated link.
* `ChargedOnce` and `LinkQueued` except `raced` items: `_LOCK` does not reach other processes. A
  process that replaces the file with what it read too early takes a link out of the queue again that
  the batch has enqueued in between, or puts an item back that was authorized, and two that share the temporary file can
  lose every item. `LinkQueued` excepts `wiped` items as well: an enqueue that cannot read the file
  (155-156) begins a new one, and all earlier links are gone without any other process. `ChargedOnce`
  holds of those, because the batch never enqueues a link twice. The run reaches
  each of these cases; they too contradict `authorization_queue.py:3-5`.
* `OneVerdictEach` speaks of batches that return. An exception of the guard's lock ends a
  batch, and results that were finished and not told are dropped.
* `VerdictKept` gives way to a success and to a file that cannot be read.
* `NoSilentShare` excepts `unseen` attempts. Two of the four ways into it are races. The row
  was live when it was read and is released or swept when it is shared by id, and the statement
  does not look at its state: two attempts then use one exit with different rows, or with one that is
  over. Or the insert is refused, and the winner has let go when the loser reads again: the loser goes on
  with no lease.
* `BrowsersAreKept`, `NoWornBrowser` and `NoStrayBrowser` stop at `close()`. A waiter that passed the test of
  `closed` takes a slot that `close()` has freed and another session still uses, which the
  comment at `sms_tool/browser_pool.py:388-390` calls unreachable for shared residents; and a
  browser that is launched after `close()` is closed by nobody.
* `NoStrayBrowser` excepts `loose` browsers. The pool logs a `close()` that raises and drops the entry all the same, at
  five places (`sms_tool/browser_pool.py:258-266`, `:297-308`, `:340-351`, `:453-457`, `:504-508`), and keeps it at a sixth
  (`:356-367`); drivers also keep errors to themselves or leave the browser open
  (`sms_tool/registration_drivers/external_sessions/managed.py:217-234`, `:455-470`), and a launch that fails after the remote
  browser was opened leaves it (`:704-705`). Nobody tries again and nothing bounds how many processes
  are left that way. The property and its theorem are about the paths of the pool, not about the drivers.
* `NoWornBrowser` is about sessions that end with a `BrowserRegistrationError`. Any other exception
  makes the slot `DEGRADED` (`sms_tool/browser_pool.py:329-332`), which `needs_recycle` (`:58-63`) ignores: the
  resident stays, its slot is only chosen after the healthy ones, and its next session renews and uses it. The docstrings
  promise more: the browser is torn down and relaunched when it "errors (if `recycle_on_error`)"
  (`:228-230`), and the pool "recycles degraded browsers"
  (`sms_tool/registration_drivers/browser_flow/flow_steps.py:180-182`). The model does what the
  code does; the tests look at the mark and at the order of choice (`tests/registration/test_browser_pool.py:255`, `:299`),
  not at what becomes of the browser.
* A browser that dies by itself is seen by the pool as a renewal that fails, which is how the model sees it.
  `BrowsersAreKept` therefore says that nobody else ends the browser of a session, not that it cannot crash.
* `SerializedPerAccount` and `JobsKept` are about one process after another (finding 5).
* `WaitingServed` speaks of a coordinator that is not on its way out (see Fairness).

A reader of the pool should also know that the reuse across accounts its docstring promises
(`sms_tool/browser_pool.py:201-205`, `:222-230`) needs two sessions with the same `browser_identity`,
which is made per account (`sms_tool/registration_drivers/browser_flow/orchestrator.py:156-161`): in the model as in
the code a resident serves another account only when their identities are equal.

### Why the bounds are enough

* *SlotGate*: with two slots a scan has a first, a middle and a last iteration; with
  three processes one waits while two hold; two calls let a process discard the gate
  and come back. As many inodes as a process can open at a time while names are
  linked are available, and a freed one is used again. On POSIX four are needed: one for the linked
  file and three for the handles.
* *PaymentLane*: the interesting histories have an attempt that dies or fails, a second
  that is admitted or refused, and a third beside it that times out at the gate. Every
  caller may be a new thread or a restarted process. The results are one per class the
  contract distinguishes, before and after the side effect.
* *PaymentBatch*: two runs are a run and its resume or repetition; two accounts in two workers
  order their rows, checkpoints and links in every way; two attempts are the last but one and the
  last. One fault ends one step of one of them, or lets two writes of the temporary file mix. With one link a
  processor only works after the batch has queued it; with two, one link is enqueued while the other
  is authorized, and the sections overlap. A batch with more than `MaxLinks` = 1 links (not `Light`) runs once, does not
  retry, saves every row and has no fault outside the queue: what that leaves out does not touch the
  queue, and the run with one link has it. Two processors side by side do not fit: the
  run has one beside the batch, and `NoSecondCharge` is proved for any number, as are all safety
  properties for any `MaxLinks`.
* *RegistrationLane*: two results of one key with two passes each are four calls; a
  third result adds no new relation between a marker and the stores.
* *RegistrationBatch*: three accounts with two workers leave one that waits, and with a breaker
  of two there is one before, between or after the two that trip it. Two waves are a canary and a
  wave of two or, after a blocked canary, another canary and an account that is skipped.
  The outcomes are one per treatment in `_run_one`; `dead_end` comes from the middle of an
  attempt and from the other process.
* *RegistrationAttempt*: with two slots and three attempts there is one that waits for a permit, and a
  slot with a resident that does or does not fit; two uses recycle a browser after it was reused
  once. On one exit three attempts share, drop and find the row gone. One attempt has a
  lease and a browser at the same time: the two never read each other's state. The one failure of a run is any of them: a
  database error, a timeout, a session, renewal or launch that fails, or a close; the close of a browser evicted for the
  memory cap, whose eviction is the failure, may fail as well. The identities, like the attempts, are interchangeable (`Alike`).
* *HealthQueue*: two ticks let a lease expire, and then the waiting time of the job it freed: the
  case in which a late handler reports over an end `queue_item_expired`, which one tick
  does not show. Two jobs fill the queue, belong to one account or two, and repeat a check or
  not; two faults are enough for a failing update and the failing update of its failure.
  A process that ended is not reused, so two processes are one restart.

### Fairness

* `SlotGate`: `WF(Step(p))`, a live thread keeps polling, and `WF(Release(p))`, a holder
  leaves its `with` block. Nothing about arrivals, deadlines or deaths.
* `PaymentLane`: `WF(BeginStep(c))`, `acquire` has a 30 s deadline and a stranded
  gate object is collected (reference counting, CPython); `WF(Run(c))`, adapters have
  timeouts however often they report progress, so progress itself is not fair.
* `PaymentBatch`: `WF` of any step of the run, so that some thread of it goes on while one can; no
  thread in particular has to. `RegistrationBatch`: `WF(Main)` and `WF(Worker(a))` for each account. The
  threads of a pool are scheduled independently, every wait of a worker has a timeout, and
  the main thread waits for any future. Cancels, crashes, time and other processes are
  under no fairness.
* `HealthQueue`: `WF(Write(p))`, a thread in its section reaches its replace, and
  `SF(Coordinate(p))`, the coordinator gets the lock its enqueuer and heartbeat take in
  between, and handlers have deadlines. Nobody has to enqueue or to start a process.
  `WaitingServed` is stated for a coordinator that is not on its way out and for a file
  that has no faults left: a worker that saw an empty queue and is about to end is
  taken for alive by `start_account_health_worker`, and the new job then waits for the
  next start. That window is listed as a hazard.
* `RegistrationLane` and `RegistrationAttempt` state no liveness and assume none.

## 4. Findings

1. **The cap of a reused gate on POSIX.** `discard()` (`sms_tool/cross_process_gate.py:151`)
   unlinks a slot file by name. A waiter with the old inode open locks it, a newcomer
   creates and locks a new file of the same name: two permits of one. The docstring
   allows `discard()` for names that are not acquired again; the journal
   discards the gate of an idempotency key, which every retry acquires. On
   Windows, where the workbench runs, `unlink` refuses an open file.
2. **A careless adapter.** The extractor subprocess deadline
   (`sms_tool/pay_link/adapters.py:90`) and every transport exception of the regional adapter
   (`sms_tool/regional_payment_adapter.py:470`) are reported retryable with a stage that
   is no side-effect stage, so `finish()` clears the durable mark of a payment that may
   have been confirmed, and the next call replays it.
3. **A record before the adapter.** `_replay_allowed` accepts the status `running` only,
   while the executor's first checkpoints write `created`, `validating` and
   `preparing_proxy`: a process that dies there leaves a key that refuses every call.
4. **A failure after the row.** When the last audit row fails, the record is finished as
   completed and the promised retry of the finalization pass is refused.
5. **A lost job.** `_LOCK` is a `threading.Lock`; two processes that enqueue at the same
   time read one file, and the second replace drops the first job.

## 5. Proofs

All theorems are checked by TLAPS to the last leaf, for every value of the constants
that the named assumptions allow (`SlotGateAssumption`, `JournalAssumption`,
`ResultsAssumption`, `ResultsBound`, `QueueAssumption`, `BatchAssumption`,
`HealthQueueAssumption`, `GuardAssumption`, `LedgerAssumption`, `PoolAssumption`,
`AttemptAssumption`). They ask for little more than that bounds are numbers and that
model values are apart. Some theorems need one of four more and say so: `KeepsLinks`,
`HonestAdapter`, `SettledAdapter`, `~Concurrent`. The first two and the last are where the code
can go wrong, and a violation run shows how; `SettledAdapter` is about adapters, and a lemma shows
that it is needed.

Liveness is out of the prover's reach, but the half of it that is about loops is not. For each
component with several steps there is a measure (`Rank` or `Todo`: the steps a caller, a
pass, a worker or an attempt has at most left), and a theorem that no step of others makes it greater and every step
of its own makes it smaller: `CallsMoveOn`, `PassesMoveOn`, `WorkersMoveOn`,
`AccountsMoveOn`, `AttemptsMoveOn`. Fairness adds that steps are taken. So `GateFreed`, `RunEnds` and `BatchEnds` rest on
proved bounds; for `RegistrationLane` and `RegistrationAttempt`, whose runs state no liveness, the
bound is what is known about progress.

**The gate** (`SlotGateProofs`). `GateTypeCorrect` needs that a process with a handle
in hand is scanning (`ScanInv`) and that only ephemeral gates are discarded
(`DiscardInv`). `CapIsKept` assumes `KeepsLinks`: no `discard`, or Windows. Then every
inode in use still has its name (`LinkInv`), so the locked inodes map one to one
into the `Limit` slots. `GateIsSemaphore` needs the same bound in every step: a lock takes a permit while
fewer than `Limit` are taken, and every other step takes none. `KeepsLinks` is the boundary
finding 1 crosses, and the theorems also cover the shared gates on POSIX, which no run
instantiates.

**The payment lane** (`PaymentLaneProofs`). `AtMostOneEffect` is far from
inductive: it depends on what the record on disk says whenever an attempt has started
its effect. `IInv` adds

* `GateInv`: whoever is past `acquire` is the holder of the gate;
* `MemInv`: an admitted caller has a record in memory;
* `EffectInv`: once an attempt has started its effect, the file on disk forbids a
  replay; and (`Aware`) the caller of an open operation knows what it did: the record
  in its memory, and the result it carries to `finish()`, say so.

`InsideAgrees` is `[]IInv`, and `NoBlindReplay` and `LaneIsAtMostOnce`, the refinement, follow
from it. All three hold under `HonestAdapter` (an adapter whose side effect started ends in no result
that `finish()` records as replayable), which is exactly what finding 2 shows two adapters not to do.
`SingleWriter` and `FinalForEver` use the same type and gate invariants and need no
assumption on adapters.

`RetryMeetsReplay` says that the batch and the journal agree on what may be tried again. They
read a result at two places, before and after `from_mapping` and `to_dict` have handed it on,
and by different fields. `HandedOn` is the lemma that handing a result on changes no part of its reading, `ResultInv`
says that what a caller carries to `finish()` is settled, and `DecisionsAgree` compares the two functions on that. They
agree only on settled results (`SettledAdapter`): a result that is marked retryable while its
step is still in flight is retried by the batch and refused by the journal (`DecisionsDisagree`).
TLC checks that the results of the run are settled, as those of the adapters in `src/` are.

**The payment batch** (`PaymentBatchProofs`). `Inv` has six parts besides the types. `HandInv`: a
processor in a pass has its item in hand, has read the file where it is about to replace it, and found
the item there once it writes; `SectionInv`: a section that could not read has an empty queue. Together: only
an enqueue can wipe anything. `OpenInv`: the operation of an account is open exactly while its worker is in an attempt.
`OnceInv`: an item that ever was in the queue, in the memory of a section or wiped belongs to a completed operation,
which is never handed on again. `ChargeInv`: an item that is not raced and may still be charged has not been,
only one processor has it, and a wiped one is out of the file for good. `BatchInv`: what a
row in the making, in memory or in the report says of an account is
true of its operation, unless its last row is lost, and a link is on its way or queued. What one
write can do is said once, in `ReplaceKeeps`, and for the two kinds of writers in `ProcessorReplaces` and
`EnqueueReplaces`. They give
`ReportIsTrue`, `LinksAreQueued` and `NoSecondCharge` for any number of links and of processes side by
side, of which the run has two. `SettledRowsStay` needs `ResumeInv`: what a resumed run
holds is what the report says of settled accounts. `AccountsPayAtMostOnce` is the refinement:
workers, retries, resumes and crashes leave an operation as `AtMostOnce` allows;
`NoSecondPayment` says without the abstract module what follows. `StatusMovesOn` is the action
property behind `ChargedOnce`: an item that is not raced goes from waiting over running to settled
and never back, and leaves the file only when it is wiped.

**Registration persistence** (`RegistrationLaneProofs`). `LaneInv`: whoever is inside
holds the gate; a marker claims only what the stores contain, at every statement
(`MarkerInv`); a record that refuses has its row (`DiskInv`). A refusal by a failing read rests on no
record, so `RefusalIsTrue` is about the others. It,
`EveryRowHasItsFile` and `CompletedIsFinal` follow. `WrittenOncePerResult` counts: the files
that exist and the results still to be written together never exceed the results given
(`CountInv`).

**The health queue** (`HealthQueueProofs`). `NoCheckTwice` and `QueueTypeCorrect` hold for
processes side by side too, although they overwrite each other: a thread writes what a sound
queue became by one section, and every section turns a sound queue into a sound one,
however old its read is. So `IInv` says that the file *and* the items in every
section in progress have no two active jobs of one check and are well typed. `OneCheckAtATime` and
`NothingReadIsLost` assume `~Concurrent`. Then only one process is alive, and the others have nothing in
hand (`SerialInv`); what a section that read the file is about to write keeps every job and
every outcome, and no id is used twice (`KeepInv`).

`QueueIsBounded` needs no such assumption. It is not obvious with processes side by side: each may
see a place free, and a recovery makes running jobs pending again. But both count as active, a
section adds one job to what *it* read, and what it writes replaces the file and is not merged into it; so
`Sound` also bounds the active jobs of the file and of every section. `LeaseIsRespected` assumes
`~Concurrent` and concerns the leases: a job that runs stays with its process, is taken back only
when its lease is over or the process gone, and is ended only by a report of that process. `LeaseInv`
says that no coordinator has a job in hand that another one runs, in the file or in what a section is about to
write; a lease that has run out while a section was open is still out when it writes, because time and
deaths do not go back (`QuietLease`).

**The registration batch** (`RegistrationBatchProofs`). `AccountInv` is what is known of an account by the step
it is at; `OverInv` and `HeardInv` tie it to the main thread and to the breaker;
`StreakInv` says that the counter is the length of the run of environment failures at the end of
`arrivals`. `VerdictsAreKept` looks at the steps that write the guard. `AccountsMoveOn` counts
attempts left, so it is also the proof that `_run_one` retries no more than it may.

**The attempt** (`RegistrationAttemptProofs`, `ExitLeaseProofs`). The table of residents is
used outside the pool's lock. What makes that sound is `PoolInv`: until the pool is closed, a
slot in use belongs to one session (`SlotInv`), its resident is the browser of that session (`UseInv`),
and no browser is the resident of two slots or taken twice (`ResidentInv`). `NoPermitIsLost` counts permits and
admitted sessions (`PermitInv`): were no slot free for an admitted session, the others would fill them
all, and be `Slots` without it. The same count makes `PoolIsSemaphore` a refinement.
`BrowsersAreRetired` depends on who counts: the uses belong to the slot and not to its browser, and start
again only when a slot without a resident is chosen. `WearInv` adds to the property the slots that a session is about to use: they
are below the limit too. After a close several sessions may share one slot, and the uses it counts exceed the limit, but by no more than
there are attempts (`CountedInv`); with `OrderInv`, the order of
slots, that is what `AttemptIsTyped` needs. `BrowsersAreKnown` needs more than the table: a browser of a session that has
not got to its launch is nowhere (`YoungInv`), a resident of an open pool runs if its driver keeps browsers, and one
of a closed pool that runs is `loose` (`ResidentInv`). For the ledger `LedgerInv` has one leased row per exit
(`UniqueInv`), the count of holders (`CountInv`), and a leased row behind every lease that the
ledger has not lost sight of (`SeenInv`); `LedgerIsTyped` adds that every id in use is that of a row.

**Only model-checked**: the liveness properties (`WaiterServed`,
`GateFreed`, `RunEnds`, `BatchEnds`, `WaitingServed`). Every other property of a passing run is proved. Liveness under fairness and
`ENABLED` are beyond the prover, and so are induction over data and `RECURSIVE`
operators; no module here has either.

## 6. Plan

The most shared and most dangerous parts come first; each component is modelled, checked,
and then proved about.

| # | Module | State |
|---|---|---|
| 1 | `Semaphore`, `SlotGate` | modelled; types, cap and refinement proved |
| 2 | `PaymentContract`, `OperationJournal`, `PaymentLane`, `AtMostOnce` | modelled; all safety properties and the refinement proved |
| 3 | `RegistrationLane` | modelled; all properties proved |
| 4 | `HealthQueue` | modelled; all safety properties proved, its bound and its leases too |
| 5 | `PaymentBatch`, `AuthorizationQueue` | modelled; all safety properties and the refinement proved |
| 6 | `RetryGuard`, `RegistrationBatch` | modelled; all safety properties proved |
| 7 | `BrowserPool`, `EnvironmentLedger`, `RegistrationAttempt` | modelled; all safety properties and a refinement proved |
| 8 | `StageGates`: semaphore and gate of a group, shared gate object, reload | open |
| 9 | `DesktopServe`: request loop and watchdog | open |
| 10 | the checkpoint upsert; files read outside their write lock (phone pool, quarantine) | open |

There is one passing run per component or composition, and a violation run where the code
and its documentation disagree on something a reader would rely on. Of what is open,
`StageGates` belongs into the run of `SlotGate`, whose abstract gate it takes a permit of; the read
server and the files are small and sequential apart from one window each, which
`PROJECT.json` lists.

## 7. Not modelled, and why

Text, URLs, messages, codes, layouts and logging are left out of every module. The HTTP
conversations with remote sites (registration flow, tokens, captchas, fingerprints, proxies,
payment providers) keep no shared state of their own; what they may return is an input of
the lanes. They are the larger part of the repository by far, which is why the models stand for a
small share of its lines. The account store's SQL, its migrations and column normalisation are one
committing or failing step. The desktop workbench, the extractor services and the scripts
are separate programs; the death and the deadline of an extractor are outcomes of the
adapter. Progress events, sources and stored results of the health queue do not influence
its control. A record damaged by hand is modelled for payments (`Damage`); a damaged queue
file reads as empty (`Load`).

Within the modelled components: a capability probe, which shares the record of a payment and has no side
effect; canary and probe-only payment batches, their routing, counts and event log; driver
fallback, proxy statistics, sentinel prewarming, wave delays and wave events of the
registration batch; fingerprint conflicts and observations of the lease ledger; the
statistics of the pool and what a driver does inside a browser.
