----------------------------- MODULE HealthQueue -----------------------------
(***************************************************************************)
(* The account-health queue (accounts/account_health_queue.py): one JSON   *)
(* file of jobs shared by every process, which each process reads, changes *)
(* and replaces under a lock of its own.  A process has an enqueuer (the   *)
(* thread that persists a registration), a coordinator that claims jobs,   *)
(* runs them in a pool and records the results, and the heartbeat of the   *)
(* batch in hand.                                                          *)
(*                                                                         *)
(* A critical section is two steps, the read and the write; the lock keeps *)
(* other threads out and lets other processes in.  A process has one batch *)
(* at a time, so the lease id of an item is its worker_pid and attempts;   *)
(* results, sources and progress events are left out.                      *)
(***************************************************************************)
EXTENDS Integers, FiniteSets, Functions

CONSTANTS
  Proc,       \* processes, by number; each lives once, a restart is another
  Check,      \* the checks that are asked for: <<account, kind>>
  NoProc, NoSection,
  Concurrent, \* may two processes live at the same time?
  Lease,      \* _LEASE_SECONDS, in ticks
  Recent,     \* the 300 s in which a completed check is not repeated, in ticks
  PendingTTL, \* _PENDING_TTL_SECONDS, in ticks: so many make a wait too long
  MaxPending, \* max_pending
  MaxJobs,    \* bound: jobs ever queued
  MaxTime,    \* bound: ticks
  MaxFaults   \* bound: reads and replaces of the file that fail

ASSUME HealthQueueAssumption ==
  /\ Concurrent \in BOOLEAN
  /\ {Lease, Recent, PendingTTL, MaxPending} \subseteq Nat \ {0}
  /\ {MaxJobs, MaxTime, MaxFaults} \subseteq Nat
  /\ Proc \subseteq Nat
  /\ NoProc \notin Proc

VARIABLES
  queue,    \* the file: items by id, ids in the order of creation
  life,     \* life[p]: "new", "up" or "dead"
  section,  \* section[p]: what a thread of p has read and is about to write
  enq,      \* enq[p]: where the enqueuer of p is
  worker,   \* worker[p]: where the coordinator of p is
  batch,    \* batch[p]: jobs in hand: the check, and whether the update with
            \* the result of the handler raised
  claimed,  \* claimed[p]: jobs the heartbeat of p renews
  beating,  \* beating[p]: the heartbeat thread is alive
  next,     \* id of the next job
  now,      \* time
  faults    \* failed reads and replaces so far

vars == <<queue, life, section, enq, worker, batch, claimed, beating, next, now, faults>>
threads == <<enq, worker, batch, claimed, beating>>

Active == {"pending", "running"}
Terminal == {"completed", "failed"}

AccountOf(check) == check[1]

Item == [check : Check, status : Active \cup Terminal,
         updated : Nat, owner : Proc \cup {NoProc}, expires : Nat]

Id == 1..MaxJobs
NoItems == [i \in {} |-> NoProc]

IsQueue(q) == DOMAIN q \subseteq Id /\ \A i \in DOMAIN q : q[i] \in Item

TypeOK ==
  /\ IsQueue(queue)
  /\ life \in [Proc -> {"new", "up", "dead"}]
  /\ \A p \in Proc : section[p] # NoSection =>
       /\ section[p].op \in {"enqueue", "claim", "completed", "failed", "heartbeat", "recover"}
       /\ section[p].ids \subseteq Id
       /\ IsQueue(section[p].items)
       /\ section[p].seen \in BOOLEAN
  /\ enq \in [Proc -> {"idle", "queued", "recovered"}]
  /\ worker \in [Proc -> {"none", "claim", "running", "broken", "exit"}]
  /\ \A p \in Proc : /\ DOMAIN batch[p] \subseteq Id
                     /\ Range(batch[p]) \subseteq [check : Check, raised : BOOLEAN]
  /\ claimed \in [Proc -> SUBSET Id]
  /\ beating \in [Proc -> BOOLEAN]
  /\ next \in 1..MaxJobs + 1
  /\ now \in 0..MaxTime
  /\ faults \in 0..MaxFaults

Init ==
  /\ queue = NoItems
  /\ life = [p \in Proc |-> "new"]
  /\ section = [p \in Proc |-> NoSection]
  /\ enq = [p \in Proc |-> "idle"]
  /\ worker = [p \in Proc |-> "none"]
  /\ batch = [p \in Proc |-> NoItems]
  /\ claimed = [p \in Proc |-> {}]
  /\ beating = [p \in Proc |-> FALSE]
  /\ next = 1
  /\ now = 0
  /\ faults = 0

Pending(item) == [item EXCEPT !.status = "pending", !.updated = now,
                              !.owner = NoProc, !.expires = 0]

\* Mutant of Ended: a failure gets the third terminal status.
EndedCancelled(item, status) ==
  [item EXCEPT !.status = IF status = "failed" THEN "cancelled" ELSE status,
               !.updated = now, !.owner = NoProc, !.expires = 0]

Ended(item, status) == [item EXCEPT !.status = status, !.updated = now,
                                    !.owner = NoProc, !.expires = 0]

\* Mutant of Interrupted: the status is not looked at.
InterruptedAny(item) == now >= item.expires \/ life[item.owner] # "up"

Interrupted(item) ==
  /\ item.status = "running"
  /\ now >= item.expires \/ life[item.owner] # "up"

\* Jobs of a dead worker and jobs whose lease is over become pending again.
Recovered(q) == [i \in DOMAIN q |-> IF Interrupted(q[i]) THEN Pending(q[i]) ELSE q[i]]

Fault == faults < MaxFaults /\ faults' = faults + 1

\* _load_unlocked: what a thread gets when it enters its section.  It writes
\* what it recovered; if the read or that write fails, it gets an empty queue.
Load(p, items) ==
  /\ life[p] = "up"
  /\ section[p] = NoSection
  /\ \/ items = Recovered(queue) /\ queue' = items /\ UNCHANGED faults
     \/ Fault /\ items = NoItems /\ UNCHANGED queue

Loads == {Recovered(queue), NoItems}

\* The rest of the section: the write of these items, read by a load that did
\* not fail (seen) or did.
Plan(p, op, ids, items) ==
  section' = [section EXCEPT ![p] = [op |-> op, ids |-> ids, items |-> items,
                                     seen |-> faults' = faults]]

\* Mutant of Duplicate: only a pending job counts.
DuplicatePending(items, check) ==
  \E i \in DOMAIN items : items[i].check = check /\ items[i].status = "pending"

\* The same check of the account is queued, running or just completed.
Duplicate(items, check) ==
  \E i \in DOMAIN items :
    /\ items[i].check = check
    /\ \/ items[i].status \in Active
       \/ items[i].status = "completed" /\ now - items[i].updated < Recent

Full(items) == Cardinality({i \in DOMAIN items : items[i].status \in Active}) >= MaxPending

\* enqueue_account_health up to its write.  A full queue raises, and with it
\* enqueue_post_registration_checks, which then starts no worker.
Enqueue(p, check) ==
  /\ enq[p] \in {"idle", "queued"}
  /\ \E items \in Loads :
       /\ Load(p, items)
       /\ \/ /\ Duplicate(items, check)
             /\ enq' = [enq EXCEPT ![p] = "queued"]
             /\ UNCHANGED <<section, next>>
          \/ /\ ~Duplicate(items, check) /\ Full(items)
             /\ enq' = [enq EXCEPT ![p] = "idle"]
             /\ UNCHANGED <<section, next>>
          \/ /\ ~Duplicate(items, check) /\ ~Full(items)
             /\ next \in Id
             /\ next' = next + 1
             /\ LET item == [check |-> check, status |-> "pending",
                             updated |-> now, owner |-> NoProc, expires |-> 0]
                IN Plan(p, "enqueue", {next},
                        [i \in DOMAIN items \cup {next} |-> IF i = next THEN item ELSE items[i]])
             /\ UNCHANGED enq
  /\ UNCHANGED <<life, worker, batch, claimed, beating, now>>

\* recover_account_health_queue: also fails the jobs that waited too long.
Recover(p) ==
  /\ life[p] = "up" /\ section[p] = NoSection
  /\ enq[p] = "queued"
  /\ LET swept == [i \in DOMAIN queue |->
                     IF queue[i].status = "pending" /\ now - queue[i].updated >= PendingTTL
                     THEN Ended(queue[i], "failed") ELSE Recovered(queue)[i]]
     IN \/ /\ (swept = queue /\ UNCHANGED faults) \/ Fault
           /\ enq' = [enq EXCEPT ![p] = "recovered"]
           /\ UNCHANGED section
        \/ /\ swept # queue
           /\ UNCHANGED <<enq, faults>>
           /\ Plan(p, "recover", {}, swept)
  /\ UNCHANGED <<queue, life, worker, batch, claimed, beating, next, now>>

\* start_account_health_worker: a coordinator that is alive is left alone.
StartWorker(p) ==
  /\ life[p] = "up"
  /\ enq[p] = "recovered"
  /\ enq' = [enq EXCEPT ![p] = "idle"]
  /\ worker' = [worker EXCEPT ![p] = IF @ = "none" THEN "claim" ELSE @]
  /\ UNCHANGED <<queue, life, section, batch, claimed, beating, next, now, faults>>

\* Mutant of Oldest: every pending job is selected.
OldestAny(items) == {i \in DOMAIN items : items[i].status = "pending"}

\* The oldest pending job of every account.
Oldest(items) ==
  {i \in DOMAIN items :
     /\ items[i].status = "pending"
     /\ \A j \in DOMAIN items :
          items[j].status = "pending" /\ AccountOf(items[j].check) = AccountOf(items[i].check) => i <= j}

\* process_account_health_jobs claims a batch; with nothing to do the loop of
\* the coordinator returns.
Claim(p) ==
  /\ worker[p] = "claim"
  /\ \E items \in Loads :
       /\ Load(p, items)
       /\ IF Oldest(items) = {} THEN worker' = [worker EXCEPT ![p] = "exit"] /\ UNCHANGED section
          ELSE /\ Plan(p, "claim", Oldest(items),
                       [i \in DOMAIN items |->
                          IF i \in Oldest(items)
                          THEN [items[i] EXCEPT !.status = "running", !.updated = now,
                                                !.owner = p, !.expires = now + Lease]
                          ELSE items[i]])
               /\ UNCHANGED worker
  /\ UNCHANGED <<life, enq, batch, claimed, beating, next, now>>

\* The thread of a coordinator that is done ends.
Exit(p) ==
  /\ life[p] = "up"
  /\ worker[p] = "exit"
  /\ worker' = [worker EXCEPT ![p] = "none"]
  /\ UNCHANGED <<queue, life, section, enq, batch, claimed, beating, next, now, faults>>

\* A handler ends, and _update loads the queue to record the outcome; an item
\* that is gone has nothing to record.
Update(p, i) ==
  /\ worker[p] = "running"
  /\ i \in DOMAIN batch[p]
  /\ \A j \in DOMAIN batch[p] : batch[p][j].raised => i = j
  /\ batch' = [batch EXCEPT ![p] = Restrict(@, DOMAIN @ \ {i})]
  /\ \E items \in Loads, outcome \in IF batch[p][i].raised THEN {"failed"} ELSE Terminal :
       /\ Load(p, items)
       /\ IF i \notin DOMAIN items THEN UNCHANGED section
          ELSE Plan(p, outcome, {i}, [items EXCEPT ![i] = Ended(@, outcome)])
  /\ UNCHANGED <<life, enq, worker, claimed, beating, next, now>>

\* Mutant of NextBatch: the coordinator runs one batch only.
NextBatchOnce(p) ==
  /\ life[p] = "up"
  /\ worker[p] = "running"
  /\ DOMAIN batch[p] = {} /\ section[p] = NoSection
  /\ worker' = [worker EXCEPT ![p] = "exit"]
  /\ claimed' = [claimed EXCEPT ![p] = {}]
  /\ beating' = [beating EXCEPT ![p] = FALSE]
  /\ UNCHANGED <<queue, life, section, enq, batch, next, now, faults>>

\* The batch is over: the heartbeat stops, the coordinator looks again.
NextBatch(p) ==
  /\ life[p] = "up"
  /\ worker[p] = "running"
  /\ DOMAIN batch[p] = {} /\ section[p] = NoSection
  /\ worker' = [worker EXCEPT ![p] = "claim"]
  /\ claimed' = [claimed EXCEPT ![p] = {}]
  /\ beating' = [beating EXCEPT ![p] = FALSE]
  /\ UNCHANGED <<queue, life, section, enq, batch, next, now, faults>>

\* A result that could not be recorded ends the coordinator, but the pool
\* first waits for the handlers that still run.
Drain(p) ==
  /\ life[p] = "up"
  /\ worker[p] = "broken"
  /\ IF DOMAIN batch[p] = {}
     THEN /\ worker' = [worker EXCEPT ![p] = "none"]
          /\ claimed' = [claimed EXCEPT ![p] = {}]
          /\ beating' = [beating EXCEPT ![p] = FALSE]
          /\ UNCHANGED batch
     ELSE /\ \E i \in DOMAIN batch[p] : batch' = [batch EXCEPT ![p] = Restrict(@, DOMAIN @ \ {i})]
          /\ UNCHANGED <<worker, claimed, beating>>
  /\ UNCHANGED <<queue, life, section, enq, next, now, faults>>

\* _heartbeat_claimed_jobs renews what is still running in the file as claimed.
Heartbeat(p) ==
  /\ beating[p]
  /\ \E items \in Loads :
       /\ Load(p, items)
       /\ LET mine == {i \in DOMAIN items \cap claimed[p] :
                         items[i].status = "running" /\ items[i].owner = p}
          IN IF mine = {} THEN UNCHANGED section
             ELSE Plan(p, "heartbeat", mine,
                       [i \in DOMAIN items |->
                          IF i \in mine THEN [items[i] EXCEPT !.updated = now, !.expires = now + Lease]
                          ELSE items[i]])
  /\ UNCHANGED <<life, threads, next, now>>

InHand(item, raised) == [check |-> item.check, raised |-> raised]

\* What the thread goes on to after its replace, or after the exception.
Written(p, s) ==
  /\ enq' = [enq EXCEPT ![p] = CASE s.op = "enqueue" -> "queued"
                                 [] s.op = "recover" -> "recovered"
                                 [] OTHER -> @]
  /\ IF s.op # "claim" THEN UNCHANGED <<worker, batch, claimed, beating>>
     ELSE /\ worker' = [worker EXCEPT ![p] = "running"]
          /\ batch' = [batch EXCEPT ![p] = [i \in s.ids |-> InHand(s.items[i], FALSE)]]
          /\ claimed' = [claimed EXCEPT ![p] = s.ids]
          /\ beating' = [beating EXCEPT ![p] = TRUE]

NotWritten(p, s) ==
  /\ enq' = [enq EXCEPT ![p] = IF s.op \in {"enqueue", "recover"} THEN "idle" ELSE @]
  /\ worker' = [worker EXCEPT ![p] = CASE s.op = "claim" -> "none"
                                       [] s.op = "failed" -> "broken"
                                       [] OTHER -> @]
  /\ batch' = IF s.op # "completed" THEN batch
              ELSE [batch EXCEPT ![p] = [i \in DOMAIN @ \cup s.ids |->
                                           IF i \in s.ids THEN InHand(s.items[i], TRUE) ELSE @[i]]]
  /\ beating' = [beating EXCEPT ![p] = @ /\ s.op # "heartbeat"]
  /\ UNCHANGED claimed

\* _write_unlocked: the file is replaced by what the thread made of its read.
Write(p) ==
  /\ section[p] # NoSection
  /\ section' = [section EXCEPT ![p] = NoSection]
  /\ \/ queue' = section[p].items /\ Written(p, section[p]) /\ UNCHANGED faults
     \/ UNCHANGED queue /\ NotWritten(p, section[p]) /\ Fault
  /\ UNCHANGED <<life, next, now>>

\* A process is numbered when it starts.
Start(p) ==
  /\ life[p] = "new"
  /\ \A q \in Proc : q < p => life[q] # "new"
  /\ Concurrent \/ \A q \in Proc : life[q] # "up"
  /\ life' = [life EXCEPT ![p] = "up"]
  /\ UNCHANGED <<queue, section, threads, next, now, faults>>

\* A process ends or is killed, at any point.
Kill(p) ==
  /\ life[p] = "up"
  /\ life' = [life EXCEPT ![p] = "dead"]
  /\ section' = [section EXCEPT ![p] = NoSection]
  /\ enq' = [enq EXCEPT ![p] = "idle"]
  /\ worker' = [worker EXCEPT ![p] = "none"]
  /\ batch' = [batch EXCEPT ![p] = NoItems]
  /\ claimed' = [claimed EXCEPT ![p] = {}]
  /\ beating' = [beating EXCEPT ![p] = FALSE]
  /\ UNCHANGED <<queue, next, now, faults>>

\* Time passes at its own pace: a machine may sleep through a whole lease.
Tick == now < MaxTime /\ now' = now + 1 /\ UNCHANGED <<queue, life, section, threads, next, faults>>

Coordinate(p) == Claim(p) \/ (\E i \in Id : Update(p, i)) \/ NextBatch(p) \/ Drain(p) \/ Exit(p)

Next ==
  \/ \E p \in Proc : \/ \E check \in Check : Enqueue(p, check)
                     \/ Recover(p) \/ StartWorker(p) \/ Coordinate(p) \/ Heartbeat(p)
                     \/ Write(p) \/ Start(p) \/ Kill(p)
  \/ Tick

Spec == Init /\ [][Next]_vars

\* Threads that are alive run, and nobody can keep the lock from the others;
\* handlers have deadlines.  Nothing obliges a process to enqueue.
FairSpec == Spec /\ \A p \in Proc : WF_vars(Write(p)) /\ SF_vars(Coordinate(p))

-----------------------------------------------------------------------------
(* Deduplicated: whatever processes overwrite, lose or resurrect, the file
   never has two active jobs for one check of one account. *)
NoDuplicateActive ==
  \A i, j \in DOMAIN queue :
    /\ queue[i].status \in Active /\ queue[j].status \in Active
    /\ queue[i].check = queue[j].check
    => i = j

Running(p) == {i \in DOMAIN batch[p] : ~batch[p][i].raised}

(* Checks of one account never overlap, a probe must not race a relogin that
   replaces the token it uses, and no job is run twice at the same time. *)
SerializedPerAccount ==
  \A p, q \in Proc : \A i \in Running(p), j \in Running(q) :
    AccountOf(batch[p][i].check) = AccountOf(batch[q][j].check) => p = q /\ i = j

(* Durable: a job once in the file stays there, and its outcome stays what it
   was, across kills, restarts and expired leases.  Only a section that could
   not read the file overwrites it, and only a handler that still had the job
   when it was failed for waiting too long reports its own outcome over that. *)
Blind(p) == section[p] # NoSection /\ ~section[p].seen
Reports(p, i) == section[p] # NoSection /\ section[p].op \in Terminal /\ section[p].ids = {i}
Kept(i) ==
  /\ i \in DOMAIN queue'
  /\ queue[i].status \in Terminal => \/ queue'[i].status = queue[i].status
                                     \/ \E p \in Proc : Reports(p, i) /\ section'[p] = NoSection

JobsKept ==
  [][ \/ \A i \in DOMAIN queue : Kept(i)
      \/ \E p \in Proc : Blind(p) /\ queue' = section[p].items ]_queue

(* A job that waits, for the first time or because the process that ran it is
   dead, in front of a coordinator that is not on its way out is claimed, unless
   the process of that coordinator dies too or the file fails again. *)
Waiting(i) ==
  /\ i \in DOMAIN queue
  /\ \/ queue[i].status = "pending"
     \/ queue[i].status = "running" /\ life[queue[i].owner] = "dead"

Serving(p) == worker[p] \in {"claim", "running"} /\ ~Blind(p) /\ faults = MaxFaults

WaitingServed ==
  \A p \in Proc, i \in Id : (Waiting(i) /\ Serving(p)) ~> (~Waiting(i) \/ life[p] = "dead")
=============================================================================
