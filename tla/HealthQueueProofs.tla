-------------------------- MODULE HealthQueueProofs --------------------------
(***************************************************************************)
(* The file of the health queue never holds two active jobs for one check, *)
(* for any processes, side by side or not, and any failing file.  No       *)
(* process protects the file from the others, so the invariant has to hold *)
(* of what each section is about to write as well: every section turns a   *)
(* sound queue into a sound one, however old the one it has read is.  The  *)
(* types follow the same way.  What needs a file of one's own, that checks *)
(* of an account do not overlap and that no job is lost, is proved for one *)
(* process after another: then nobody else is in a section.                *)
(***************************************************************************)
EXTENDS HealthQueue, FiniteSetTheorems, TLAPS

\* One check, one active job.
Unique(q) ==
  \A i, j \in DOMAIN q :
    q[i].status \in Active /\ q[j].status \in Active /\ q[i].check = q[j].check => i = j

\* The jobs max_pending counts are no more than it allows.
ActiveIn(q) == {i \in DOMAIN q : q[i].status \in Active}
Bounded(q) == IsFiniteSet(ActiveIn(q)) /\ Cardinality(ActiveIn(q)) <= MaxPending

Sound(q) == (\A i \in DOMAIN q : q[i] \in Item) /\ Unique(q) /\ Bounded(q)

\* q is what a thread made of r without a new job: nothing becomes active.
Tamed(r, q) ==
  /\ DOMAIN q = DOMAIN r
  /\ \A i \in DOMAIN q : /\ q[i] \in Item
                         /\ q[i].check = r[i].check
                         /\ q[i].status \in Active => r[i].status \in Active

IInv ==
  /\ now \in Nat
  /\ section = [p \in Proc |-> section[p]]
  /\ Sound(queue)
  /\ \A p \in Proc : section[p] # NoSection => Sound(section[p].items)

-----------------------------------------------------------------------------
(* A thread that only recovers, claims, renews or ends jobs keeps a queue
   sound. *)
LEMMA TamedSound == ASSUME NEW r, NEW q, Sound(r), Tamed(r, q) PROVE Sound(q)
<1>1. (\A i \in DOMAIN q : q[i] \in Item) /\ Unique(q) BY DEF Sound, Unique, Tamed
<1>2. ActiveIn(q) \subseteq ActiveIn(r) BY DEF Tamed, ActiveIn
<1>3. IsFiniteSet(ActiveIn(r)) /\ Cardinality(ActiveIn(r)) <= MaxPending BY DEF Sound, Bounded
<1>4. /\ IsFiniteSet(ActiveIn(q)) /\ Cardinality(ActiveIn(q)) <= Cardinality(ActiveIn(r))
      /\ Cardinality(ActiveIn(q)) \in Nat /\ Cardinality(ActiveIn(r)) \in Nat
  BY <1>2, <1>3, FS_Subset, FS_CardinalityType
<1>5. Bounded(q) BY <1>3, <1>4, HealthQueueAssumption DEF Bounded
<1> QED BY <1>1, <1>5 DEF Sound

(* One job more in a queue that is not full. *)
LEMMA AddedBounded ==
  ASSUME NEW r, NEW q, NEW i, Bounded(r), ~Full(r), ActiveIn(q) \subseteq ActiveIn(r) \cup {i}
  PROVE  Bounded(q)
<1>1. IsFiniteSet(ActiveIn(r)) /\ ~(Cardinality(ActiveIn(r)) >= MaxPending)
  BY DEF Bounded, Full, ActiveIn
<1>2. /\ Cardinality(ActiveIn(r)) \in Nat
      /\ IsFiniteSet(ActiveIn(r) \cup {i})
      /\ Cardinality(ActiveIn(r) \cup {i}) \in {Cardinality(ActiveIn(r)), Cardinality(ActiveIn(r)) + 1}
  BY <1>1, FS_AddElement, FS_CardinalityType
<1>3. /\ IsFiniteSet(ActiveIn(q)) /\ Cardinality(ActiveIn(q)) \in Nat
      /\ Cardinality(ActiveIn(q)) <= Cardinality(ActiveIn(r) \cup {i})
  BY <1>2, FS_Subset, FS_CardinalityType
<1> QED BY <1>1, <1>2, <1>3, HealthQueueAssumption DEF Bounded

(* Pending and Ended keep the check of an item and its type. *)
LEMMA ItemKept ==
  ASSUME now \in Nat, NEW item \in Item, NEW status \in Terminal
  PROVE  /\ Pending(item) \in Item /\ Pending(item).check = item.check
         /\ Ended(item, status) \in Item /\ Ended(item, status).check = item.check
         /\ Ended(item, status).status = status
BY DEF Item, Pending, Ended, Active, Terminal

(* Recovering jobs keeps a queue sound (_load_unlocked). *)
LEMMA RecoveredSound == ASSUME now \in Nat, NEW q, Sound(q) PROVE Sound(Recovered(q))
<1>1. Tamed(q, Recovered(q))
  <2>1. ASSUME NEW i \in DOMAIN q
        PROVE  /\ Recovered(q)[i] \in Item /\ Recovered(q)[i].check = q[i].check
               /\ Recovered(q)[i].status \in Active => q[i].status \in Active
    <3>1. q[i] \in Item BY DEF Sound
    <3>2. CASE Interrupted(q[i])
      <4>1. q[i].status \in Active BY <3>2 DEF Interrupted, Active
      <4>2. Recovered(q)[i] = Pending(q[i]) BY <3>2 DEF Recovered
      <4> QED BY <3>1, <4>1, <4>2, ItemKept DEF Terminal
    <3>3. CASE ~Interrupted(q[i]) BY <3>1, <3>3 DEF Recovered
    <3> QED BY <3>2, <3>3
  <2>2. DOMAIN Recovered(q) = DOMAIN q BY DEF Recovered
  <2> QED BY <2>1, <2>2 DEF Tamed
<1> QED BY <1>1, TamedSound

(* The empty queue a failed read returns is sound. *)
LEMMA NoItemsSound == Sound(NoItems)
<1>1. ActiveIn(NoItems) = {} BY DEF ActiveIn, NoItems
<1>2. Bounded(NoItems) BY <1>1, FS_EmptySet, HealthQueueAssumption DEF Bounded
<1> QED BY <1>2 DEF Sound, Unique, NoItems

(* A load leaves the file sound and gives its thread a sound queue. *)
LEMMA LoadSound ==
  ASSUME IInv, NEW p \in Proc, NEW items, Load(p, items)
  PROVE  Sound(queue') /\ Sound(items)
BY RecoveredSound, NoItemsSound DEF Load, IInv

(* Planning the write of a sound queue keeps the sections sound. *)
LEMMA PlanSound ==
  ASSUME IInv, NEW p \in Proc, NEW op, NEW ids, NEW items, Plan(p, op, ids, items), Sound(items)
  PROVE  /\ section' = [q \in Proc |-> section'[q]]
         /\ \A q \in Proc : section'[q] # NoSection => Sound(section'[q].items)
<1> DEFINE s == [op |-> op, ids |-> ids, items |-> items, seen |-> faults' = faults]
<1>1. section' = [q \in Proc |-> IF q = p THEN s ELSE section[q]] BY DEF Plan, IInv
<1>2. s.items = items OBVIOUS
<1> HIDE DEF s
<1> QED BY <1>1, <1>2 DEF IInv

(* The loads of enqueue_account_health and its new job. *)
LEMMA EnqueueSound ==
  ASSUME IInv, NEW p \in Proc, NEW check \in Check, Enqueue(p, check)
  PROVE  IInv'
<1>1. PICK items \in Loads :
        /\ Load(p, items)
        /\ \/ UNCHANGED section
           \/ /\ ~Duplicate(items, check) /\ ~Full(items)
              /\ LET item == [check |-> check, status |-> "pending",
                              updated |-> now, owner |-> NoProc, expires |-> 0]
                 IN Plan(p, "enqueue", {next},
                         [i \in DOMAIN items \cup {next} |-> IF i = next THEN item ELSE items[i]])
  BY DEF Enqueue
<1>2. Sound(queue') /\ Sound(items) BY <1>1, LoadSound
<1>3. now' = now BY DEF Enqueue
<1>4. CASE UNCHANGED section BY <1>2, <1>3, <1>4 DEF IInv
<1>5. ASSUME ~UNCHANGED section PROVE IInv'
  <2> DEFINE item == [check |-> check, status |-> "pending",
                      updated |-> now, owner |-> NoProc, expires |-> 0]
             new == [i \in DOMAIN items \cup {next} |-> IF i = next THEN item ELSE items[i]]
  <2>1. ~Duplicate(items, check) /\ ~Full(items) /\ Plan(p, "enqueue", {next}, new) BY <1>1, <1>5
  <2>2. item \in Item BY DEF Item, Active, IInv
  <2>3. item.check = check OBVIOUS
  <2>4. \A i \in DOMAIN items : items[i].status \in Active => items[i].check # check
    BY <2>1 DEF Duplicate
  <2>5. /\ DOMAIN new = DOMAIN items \cup {next}
        /\ \A i \in DOMAIN new : new[i] = IF i = next THEN item ELSE items[i]
    OBVIOUS
  <2> HIDE DEF item, new
  <2>6. (\A i \in DOMAIN new : new[i] \in Item) /\ Unique(new)
    BY <1>2, <2>2, <2>3, <2>4, <2>5 DEF Sound, Unique
  <2>7. ActiveIn(new) \subseteq ActiveIn(items) \cup {next} BY <2>5 DEF ActiveIn
  <2>8. Bounded(new) BY <1>2, <2>1, <2>7, AddedBounded DEF Sound
  <2>9. Sound(new) BY <2>6, <2>8 DEF Sound
  <2> QED BY <1>2, <1>3, <2>1, <2>9, PlanSound DEF IInv
<1> QED BY <1>4, <1>5

(* Planning a write of what was loaded, tamed. *)
LEMMA TamedPlan ==
  ASSUME IInv, now' = now, NEW p \in Proc, NEW items, Load(p, items),
         NEW op, NEW ids, NEW new, Plan(p, op, ids, new), Tamed(items, new)
  PROVE  IInv'
<1>1. Sound(queue') /\ Sound(items) BY LoadSound
<1>2. Sound(new) BY <1>1, TamedSound
<1> QED BY <1>1, <1>2, PlanSound DEF IInv

(* A load without a write. *)
LEMMA OnlyLoad ==
  ASSUME IInv, now' = now, NEW p \in Proc, NEW items, Load(p, items), UNCHANGED section
  PROVE  IInv'
BY LoadSound DEF IInv

(* recover_account_health_queue fails what waited too long. *)
LEMMA RecoverSound == ASSUME IInv, NEW p \in Proc, Recover(p) PROVE IInv'
<1> DEFINE swept == [i \in DOMAIN queue |->
                       IF queue[i].status = "pending" /\ now - queue[i].updated >= PendingTTL
                       THEN Ended(queue[i], "failed") ELSE Recovered(queue)[i]]
<1>1. UNCHANGED queue /\ now' = now BY DEF Recover
<1>2. UNCHANGED section \/ Plan(p, "recover", {}, swept) BY DEF Recover
<1>3. now \in Nat /\ Sound(queue) BY DEF IInv
<1>4. Sound(Recovered(queue)) BY <1>3, RecoveredSound
<1>5. Tamed(Recovered(queue), swept)
  <2>1. DOMAIN swept = DOMAIN queue /\ DOMAIN Recovered(queue) = DOMAIN queue BY DEF Recovered
  <2>2. ASSUME NEW i \in DOMAIN queue
        PROVE  /\ swept[i] \in Item /\ swept[i].check = Recovered(queue)[i].check
               /\ swept[i].status \in Active => Recovered(queue)[i].status \in Active
    <3>1. queue[i] \in Item /\ Recovered(queue)[i] \in Item BY <1>3, <1>4, <2>1 DEF Sound
    <3>2. CASE queue[i].status = "pending" /\ now - queue[i].updated >= PendingTTL
      <4>1. swept[i] = Ended(queue[i], "failed") BY <3>2
      <4>2. ~Interrupted(queue[i]) BY <3>2 DEF Interrupted
      <4>3. Recovered(queue)[i] = queue[i] BY <4>2 DEF Recovered
      <4>4. "failed" \in Terminal /\ "failed" \notin Active BY DEF Terminal, Active
      <4> HIDE DEF swept
      <4> QED BY <1>3, <3>1, <4>1, <4>3, <4>4, ItemKept
    <3>3. CASE ~(queue[i].status = "pending" /\ now - queue[i].updated >= PendingTTL)
      <4>1. swept[i] = Recovered(queue)[i] BY <3>3
      <4> QED BY <3>1, <4>1
    <3> QED BY <3>2, <3>3
  <2> HIDE DEF swept
  <2> QED BY <2>1, <2>2 DEF Tamed
<1> HIDE DEF swept
<1>6. Sound(swept) BY <1>4, <1>5, TamedSound
<1> QED BY <1>1, <1>2, <1>6, PlanSound DEF IInv

(* A running or renewed item is an item of the same check. *)
LEMMA RunningItem ==
  ASSUME now \in Nat, NEW p \in Proc, NEW item \in Item
  PROVE  LET run == [item EXCEPT !.status = "running", !.updated = now,
                                 !.owner = p, !.expires = now + Lease]
             renewed == [item EXCEPT !.updated = now, !.expires = now + Lease]
         IN /\ run \in Item /\ run.check = item.check
            /\ renewed \in Item /\ renewed.check = item.check /\ renewed.status = item.status
<1>1. now + Lease \in Nat BY HealthQueueAssumption
<1> QED BY <1>1 DEF Item, Active

(* process_account_health_jobs claims pending jobs only. *)
LEMMA ClaimSound == ASSUME IInv, NEW p \in Proc, Claim(p) PROVE IInv'
<1> DEFINE run(item) == [item EXCEPT !.status = "running", !.updated = now,
                                     !.owner = p, !.expires = now + Lease]
           new(items) == [i \in DOMAIN items |-> IF i \in Oldest(items) THEN run(items[i]) ELSE items[i]]
<1>1. PICK items \in Loads :
        Load(p, items) /\ (UNCHANGED section \/ Plan(p, "claim", Oldest(items), new(items)))
  BY DEF Claim
<1>2. now' = now BY DEF Claim
<1>3. CASE UNCHANGED section BY <1>1, <1>2, <1>3, OnlyLoad
<1>4. CASE Plan(p, "claim", Oldest(items), new(items))
  <2>1. now \in Nat /\ Sound(items) BY <1>1, LoadSound DEF IInv
  <2>2. ASSUME NEW i \in DOMAIN items
        PROVE  /\ new(items)[i] \in Item /\ new(items)[i].check = items[i].check
               /\ new(items)[i].status \in Active => items[i].status \in Active
    <3>1. items[i] \in Item BY <2>1 DEF Sound
    <3>2. i \in Oldest(items) => items[i].status \in Active BY DEF Oldest, Active
    <3>3. run(items[i]) \in Item /\ run(items[i]).check = items[i].check BY <2>1, <3>1, RunningItem
    <3>4. new(items)[i] = IF i \in Oldest(items) THEN run(items[i]) ELSE items[i] OBVIOUS
    <3> HIDE DEF run, new
    <3> QED BY <3>1, <3>2, <3>3, <3>4
  <2>3. DOMAIN new(items) = DOMAIN items OBVIOUS
  <2> HIDE DEF new
  <2>4. Tamed(items, new(items)) BY <2>2, <2>3 DEF Tamed
  <2> QED BY <1>1, <1>2, <1>4, <2>4, TamedPlan
<1> QED BY <1>1, <1>3, <1>4

(* _update gives a job its outcome. *)
LEMMA UpdateSound == ASSUME IInv, NEW p \in Proc, NEW i \in Id, Update(p, i) PROVE IInv'
<1> DEFINE new(items, outcome) == [items EXCEPT ![i] = Ended(@, outcome)]
<1>1. PICK items \in Loads, outcome \in Terminal :
        Load(p, items) /\ (IF i \notin DOMAIN items THEN UNCHANGED section
                           ELSE Plan(p, outcome, {i}, new(items, outcome)))
  BY DEF Update, Terminal
<1>2. now' = now BY DEF Update
<1>3. CASE i \notin DOMAIN items BY <1>1, <1>2, <1>3, OnlyLoad
<1>4. CASE i \in DOMAIN items
  <2>1. now \in Nat /\ Sound(items) BY <1>1, LoadSound DEF IInv
  <2>2. /\ DOMAIN new(items, outcome) = DOMAIN items
        /\ \A j \in DOMAIN items :
             new(items, outcome)[j] = IF j = i THEN Ended(items[i], outcome) ELSE items[j]
    OBVIOUS
  <2> HIDE DEF new
  <2>3. /\ Ended(items[i], outcome) \in Item
        /\ Ended(items[i], outcome).check = items[i].check
        /\ Ended(items[i], outcome).status \notin Active
    <3>1. items[i] \in Item BY <1>4, <2>1 DEF Sound
    <3>2. outcome \notin Active BY DEF Terminal, Active
    <3> QED BY <2>1, <3>1, <3>2, ItemKept
  <2>4. Tamed(items, new(items, outcome)) BY <2>1, <2>2, <2>3 DEF Tamed, Sound
  <2> QED BY <1>1, <1>2, <1>4, <2>4, TamedPlan
<1> QED BY <1>3, <1>4

(* _heartbeat_claimed_jobs changes no check and no status. *)
LEMMA HeartbeatSound == ASSUME IInv, NEW p \in Proc, Heartbeat(p) PROVE IInv'
<1> DEFINE mine(items) == {i \in DOMAIN items \cap claimed[p] :
                             items[i].status = "running" /\ items[i].owner = p}
           renewed(item) == [item EXCEPT !.updated = now, !.expires = now + Lease]
           new(items) == [i \in DOMAIN items |-> IF i \in mine(items) THEN renewed(items[i]) ELSE items[i]]
<1>1. PICK items \in Loads :
        Load(p, items) /\ (UNCHANGED section \/ Plan(p, "heartbeat", mine(items), new(items)))
  BY DEF Heartbeat
<1>2. now' = now BY DEF Heartbeat
<1>3. CASE UNCHANGED section BY <1>1, <1>2, <1>3, OnlyLoad
<1>4. CASE Plan(p, "heartbeat", mine(items), new(items))
  <2>1. now \in Nat /\ Sound(items) BY <1>1, LoadSound DEF IInv
  <2>2. ASSUME NEW i \in DOMAIN items
        PROVE  /\ new(items)[i] \in Item /\ new(items)[i].check = items[i].check
               /\ new(items)[i].status = items[i].status
    <3>1. items[i] \in Item BY <2>1 DEF Sound
    <3>2. /\ renewed(items[i]) \in Item /\ renewed(items[i]).check = items[i].check
          /\ renewed(items[i]).status = items[i].status
      BY <2>1, <3>1, RunningItem
    <3>3. new(items)[i] = IF i \in mine(items) THEN renewed(items[i]) ELSE items[i] OBVIOUS
    <3> HIDE DEF mine, renewed, new
    <3> QED BY <3>1, <3>2, <3>3
  <2>3. DOMAIN new(items) = DOMAIN items OBVIOUS
  <2> HIDE DEF new, mine
  <2>4. Tamed(items, new(items)) BY <2>2, <2>3 DEF Tamed
  <2> QED BY <1>1, <1>2, <1>4, <2>4, TamedPlan
<1> QED BY <1>1, <1>3, <1>4

(* The replace puts a sound queue into the file, or nothing. *)
LEMMA WriteSound == ASSUME IInv, NEW p \in Proc, Write(p) PROVE IInv'
<1>1. section' = [q \in Proc |-> IF q = p THEN NoSection ELSE section[q]] BY DEF Write, IInv
<1>2. now' = now /\ (queue' = section[p].items \/ queue' = queue) BY DEF Write
<1>3. Sound(section[p].items) BY DEF Write, IInv
<1> QED BY <1>1, <1>2, <1>3 DEF IInv

(* A death leaves the file as it is. *)
LEMMA KillSound == ASSUME IInv, NEW p \in Proc, Kill(p) PROVE IInv'
<1>1. section' = [q \in Proc |-> IF q = p THEN NoSection ELSE section[q]] BY DEF Kill, IInv
<1>2. UNCHANGED <<queue, now>> BY DEF Kill
<1> QED BY <1>1, <1>2 DEF IInv

(* The empty queue is sound, and every step keeps it so. *)
LEMMA IInvInit == Init => IInv
<1> SUFFICES ASSUME Init PROVE IInv OBVIOUS
<1>1. section = [p \in Proc |-> NoSection] /\ queue = NoItems /\ now = 0 BY DEF Init
<1> QED BY <1>1, NoItemsSound DEF IInv

LEMMA IInvNext == IInv /\ [Next]_vars => IInv'
<1> SUFFICES ASSUME IInv, [Next]_vars PROVE IInv' OBVIOUS
<1>1. ASSUME NEW p \in Proc, NEW check \in Check, Enqueue(p, check) PROVE IInv'
  BY <1>1, EnqueueSound
<1>2. ASSUME NEW p \in Proc, Recover(p) PROVE IInv' BY <1>2, RecoverSound
<1>3. ASSUME NEW p \in Proc, Coordinate(p) PROVE IInv'
  <2>1. CASE Claim(p) BY <2>1, ClaimSound
  <2>2. CASE \E i \in Id : Update(p, i) BY <2>2, UpdateSound
  <2>3. CASE NextBatch(p) \/ Drain(p) \/ Exit(p)
    <3>1. UNCHANGED <<queue, section, now>> BY <2>3 DEF NextBatch, Drain, Exit
    <3> QED BY <3>1 DEF IInv
  <2> QED BY <1>3, <2>1, <2>2, <2>3 DEF Coordinate
<1>4. ASSUME NEW p \in Proc, Heartbeat(p) PROVE IInv' BY <1>4, HeartbeatSound
<1>5. ASSUME NEW p \in Proc, Write(p) PROVE IInv' BY <1>5, WriteSound
<1>6. ASSUME NEW p \in Proc, Kill(p) PROVE IInv' BY <1>6, KillSound
<1>7. ASSUME NEW p \in Proc, StartWorker(p) \/ Start(p) PROVE IInv'
  <2>1. UNCHANGED <<queue, section, now>> BY <1>7 DEF StartWorker, Start
  <2> QED BY <2>1 DEF IInv
<1>8. CASE Tick
  <2>1. now' = now + 1 /\ UNCHANGED <<queue, section>> BY <1>8 DEF Tick
  <2> QED BY <2>1 DEF IInv
<1>9. CASE UNCHANGED vars BY <1>9 DEF vars, IInv
<1> QED BY <1>1, <1>2, <1>3, <1>4, <1>5, <1>6, <1>7, <1>8, <1>9 DEF Next

(* NoDuplicateActive: a check of an account is queued or running at most
   once in the file, whichever threads and processes overwrite each other
   (enqueue_account_health's deduplication, account_health_queue.py:59). *)
THEOREM NoCheckTwice == Spec => []NoDuplicateActive
<1>1. IInv => NoDuplicateActive BY DEF IInv, Sound, Unique, NoDuplicateActive
<1> QED BY <1>1, IInvInit, IInvNext, PTL DEF Spec

(* The queue is bounded: max_pending is looked at in the section that adds a
   job, on what that section has read, and all the others only end jobs or take
   them back.  So the file never has more active jobs, although two processes
   may look at it side by side and a recovery makes interrupted jobs pending
   again (enqueue_account_health, account_health_queue.py:59). *)
THEOREM QueueIsBounded == Spec => [](Cardinality({i \in DOMAIN queue : queue[i].status \in Active}) <= MaxPending)
<1>1. IInv => Cardinality({i \in DOMAIN queue : queue[i].status \in Active}) <= MaxPending
  BY DEF IInv, Sound, Bounded, ActiveIn
<1> QED BY <1>1, IInvInit, IInvNext, PTL DEF Spec

-----------------------------------------------------------------------------
(* What a section may do is bounded by what it has read: its ids are ids of its
   items, and a claim takes one job of an account. *)
Apart(q, ids) ==
  \A i, j \in ids : AccountOf(q[i].check) = AccountOf(q[j].check) => i = j

Ops == {"enqueue", "claim", "completed", "failed", "heartbeat", "recover"}

SectionOK(s) ==
  /\ s.op \in Ops /\ s.seen \in BOOLEAN
  /\ s.ids \subseteq DOMAIN s.items /\ DOMAIN s.items \subseteq Id
  /\ s.op = "claim" => Apart(s.items, s.ids)

HandOK(b) ==
  /\ DOMAIN b \subseteq Id
  /\ \A i \in DOMAIN b : b[i] \in [check : Check, raised : BOOLEAN]

ControlOK ==
  /\ life \in [Proc -> {"new", "up", "dead"}]
  /\ enq \in [Proc -> {"idle", "queued", "recovered"}]
  /\ worker \in [Proc -> {"none", "claim", "running", "broken", "exit"}]
  /\ claimed \in [Proc -> SUBSET Id]
  /\ beating \in [Proc -> BOOLEAN]
  /\ next \in 1..MaxJobs + 1 /\ now \in 0..MaxTime /\ faults \in 0..MaxFaults

HandsOK == batch = [p \in Proc |-> batch[p]] /\ \A p \in Proc : HandOK(batch[p])

SectionsOK ==
  /\ DOMAIN queue \subseteq Id
  /\ \A p \in Proc : section[p] # NoSection => SectionOK(section[p])

TypeInv == IInv /\ ControlOK /\ HandsOK /\ SectionsOK

(* The parts are what TypeOK says. *)
LEMMA PartsAreTypes == TypeInv => TypeOK
<1> SUFFICES ASSUME TypeInv PROVE TypeOK OBVIOUS
<1>1. IsQueue(queue) BY DEF TypeInv, IInv, Sound, SectionsOK, IsQueue
<1>2. ASSUME NEW p \in Proc, section[p] # NoSection
      PROVE  /\ section[p].op \in Ops /\ section[p].ids \subseteq Id
             /\ IsQueue(section[p].items) /\ section[p].seen \in BOOLEAN
  BY <1>2 DEF TypeInv, IInv, Sound, SectionsOK, SectionOK, IsQueue
<1>3. ASSUME NEW p \in Proc
      PROVE  /\ DOMAIN batch[p] \subseteq Id
             /\ Range(batch[p]) \subseteq [check : Check, raised : BOOLEAN]
  BY DEF TypeInv, HandsOK, HandOK, Range
<1> QED BY <1>1, <1>2, <1>3 DEF TypeInv, ControlOK, TypeOK, Ops

(* A load gives its thread ids that were in the file. *)
LEMMA LoadIds ==
  ASSUME ControlOK, DOMAIN queue \subseteq Id, NEW p \in Proc, NEW items, Load(p, items)
  PROVE  /\ DOMAIN queue' \subseteq Id /\ DOMAIN items \subseteq Id
         /\ faults' \in 0..MaxFaults /\ life[p] = "up" /\ section[p] = NoSection
BY HealthQueueAssumption DEF Load, Recovered, NoItems, Fault, ControlOK

(* A planned section is one of its thread, and the others keep theirs. *)
LEMMA PlanIds ==
  ASSUME TypeInv, NEW p \in Proc, NEW op \in Ops, NEW ids, NEW items,
         Plan(p, op, ids, items), ids \subseteq DOMAIN items, DOMAIN items \subseteq Id,
         op = "claim" => Apart(items, ids)
  PROVE  \A q \in Proc : section'[q] # NoSection => SectionOK(section'[q])
<1> DEFINE s == [op |-> op, ids |-> ids, items |-> items, seen |-> faults' = faults]
<1>1. section' = [q \in Proc |-> IF q = p THEN s ELSE section[q]] BY DEF Plan, TypeInv, IInv
<1>2. SectionOK(s) BY DEF SectionOK
<1> HIDE DEF s
<1> QED BY <1>1, <1>2 DEF TypeInv, SectionsOK

(* A section that writes nothing more. *)
LEMMA NoPlan ==
  ASSUME TypeInv, UNCHANGED section
  PROVE  \A q \in Proc : section'[q] # NoSection => SectionOK(section'[q])
BY DEF TypeInv, SectionsOK

RestOK == ControlOK /\ HandsOK /\ SectionsOK

(* Enqueuing keeps the types. *)
LEMMA EnqueueTypes == ASSUME TypeInv, NEW p \in Proc, NEW check \in Check, Enqueue(p, check) PROVE RestOK'
<1> USE DEF TypeInv
<1>1. PICK items \in Loads :
        /\ Load(p, items)
        /\ \/ UNCHANGED <<section, next>>
           \/ /\ next \in Id /\ next' = next + 1
              /\ LET item == [check |-> check, status |-> "pending",
                              updated |-> now, owner |-> NoProc, expires |-> 0]
                 IN Plan(p, "enqueue", {next},
                         [i \in DOMAIN items \cup {next} |-> IF i = next THEN item ELSE items[i]])
        /\ \E e \in {"idle", "queued"} : enq' = [enq EXCEPT ![p] = e] \/ enq' = enq
  BY DEF Enqueue
<1>2. UNCHANGED <<life, worker, batch, claimed, beating, now>> BY DEF Enqueue
<1>3. /\ DOMAIN queue' \subseteq Id /\ DOMAIN items \subseteq Id /\ faults' \in 0..MaxFaults
  BY <1>1, LoadIds DEF SectionsOK
<1>4. ControlOK'
  <2>1. next' \in 1..MaxJobs + 1 BY <1>1, HealthQueueAssumption DEF Id, ControlOK
  <2>2. enq' \in [Proc -> {"idle", "queued", "recovered"}] BY <1>1 DEF ControlOK
  <2> QED BY <1>2, <1>3, <2>1, <2>2 DEF ControlOK
<1>5. HandsOK' BY <1>2 DEF HandsOK
<1>6. \A q \in Proc : section'[q] # NoSection => SectionOK(section'[q])
  <2> DEFINE item == [check |-> check, status |-> "pending",
                      updated |-> now, owner |-> NoProc, expires |-> 0]
             new == [i \in DOMAIN items \cup {next} |-> IF i = next THEN item ELSE items[i]]
  <2>1. CASE UNCHANGED section BY <2>1, NoPlan
  <2>2. CASE ~UNCHANGED section
    <3>1. Plan(p, "enqueue", {next}, new) /\ next \in Id BY <1>1, <2>2
    <3>2. DOMAIN new = DOMAIN items \cup {next} OBVIOUS
    <3> HIDE DEF new
    <3> QED BY <1>3, <3>1, <3>2, PlanIds DEF Ops
  <2> QED BY <2>1, <2>2
<1> QED BY <1>3, <1>4, <1>5, <1>6 DEF RestOK, SectionsOK

(* The sweep of recover_account_health_queue keeps the types. *)
LEMMA RecoverTypes == ASSUME TypeInv, NEW p \in Proc, Recover(p) PROVE RestOK'
<1> USE DEF TypeInv
<1> DEFINE swept == [i \in DOMAIN queue |->
                       IF queue[i].status = "pending" /\ now - queue[i].updated >= PendingTTL
                       THEN Ended(queue[i], "failed") ELSE Recovered(queue)[i]]
<1>1. UNCHANGED <<queue, life, worker, batch, claimed, beating, next, now>> BY DEF Recover
<1>2. UNCHANGED section \/ Plan(p, "recover", {}, swept) BY DEF Recover
<1>3. DOMAIN swept = DOMAIN queue OBVIOUS
<1> HIDE DEF swept
<1>4. ControlOK'
  <2>1. enq' = enq \/ enq' = [enq EXCEPT ![p] = "recovered"] BY DEF Recover
  <2>2. faults' \in 0..MaxFaults BY HealthQueueAssumption DEF Recover, Fault, ControlOK
  <2> QED BY <1>1, <2>1, <2>2 DEF ControlOK
<1>5. HandsOK' BY <1>1 DEF HandsOK
<1>6. DOMAIN queue' \subseteq Id BY <1>1 DEF SectionsOK
<1>7. \A q \in Proc : section'[q] # NoSection => SectionOK(section'[q])
  <2>1. CASE UNCHANGED section BY <2>1, NoPlan
  <2>2. CASE Plan(p, "recover", {}, swept)
    <3>1. DOMAIN swept \subseteq Id BY <1>3 DEF SectionsOK
    <3> QED BY <2>2, <3>1, PlanIds DEF Ops
  <2> QED BY <1>2, <2>1, <2>2
<1> QED BY <1>4, <1>5, <1>6, <1>7 DEF RestOK, SectionsOK

(* The oldest pending jobs of a queue belong to different accounts. *)
LEMMA OldestApart ==
  ASSUME NEW items, DOMAIN items \subseteq Id, NEW new, DOMAIN new = DOMAIN items,
         \A i \in DOMAIN items : new[i].check = items[i].check
  PROVE  Apart(new, Oldest(items))
<1> SUFFICES ASSUME NEW i \in Oldest(items), NEW j \in Oldest(items),
                    AccountOf(new[i].check) = AccountOf(new[j].check)
             PROVE  i = j
  BY DEF Apart
<1>1. i \in DOMAIN items /\ j \in DOMAIN items BY DEF Oldest
<1>2. AccountOf(items[i].check) = AccountOf(items[j].check) BY <1>1
<1>3. i <= j /\ j <= i BY <1>1, <1>2 DEF Oldest
<1> QED BY <1>1, <1>3 DEF Id

(* A claim keeps the types, and takes one job of an account. *)
LEMMA ClaimTypes == ASSUME TypeInv, NEW p \in Proc, Claim(p) PROVE RestOK'
<1> USE DEF TypeInv
<1> DEFINE run(item) == [item EXCEPT !.status = "running", !.updated = now,
                                     !.owner = p, !.expires = now + Lease]
           new(items) == [i \in DOMAIN items |-> IF i \in Oldest(items) THEN run(items[i]) ELSE items[i]]
<1>1. PICK items \in Loads :
        /\ Load(p, items)
        /\ \/ worker' = [worker EXCEPT ![p] = "exit"] /\ UNCHANGED section
           \/ Plan(p, "claim", Oldest(items), new(items)) /\ UNCHANGED worker
  BY DEF Claim
<1>2. UNCHANGED <<life, enq, batch, claimed, beating, next, now>> BY DEF Claim
<1>3. DOMAIN queue' \subseteq Id /\ DOMAIN items \subseteq Id /\ faults' \in 0..MaxFaults
  BY <1>1, LoadIds DEF SectionsOK
<1>4. ControlOK' BY <1>1, <1>2, <1>3 DEF ControlOK
<1>5. HandsOK' BY <1>2 DEF HandsOK
<1>6. \A q \in Proc : section'[q] # NoSection => SectionOK(section'[q])
  <2>1. CASE UNCHANGED section BY <2>1, NoPlan
  <2>2. CASE Plan(p, "claim", Oldest(items), new(items))
    <3>1. DOMAIN new(items) = DOMAIN items OBVIOUS
    <3>2. \A i \in DOMAIN items : new(items)[i].check = items[i].check
      <4>1. Sound(items) BY <1>1, LoadSound
      <4>2. TAKE i \in DOMAIN items
      <4>3. run(items[i]).check = items[i].check BY <4>1, RunningItem DEF Sound, IInv
      <4>4. new(items)[i] = IF i \in Oldest(items) THEN run(items[i]) ELSE items[i] OBVIOUS
      <4> HIDE DEF run, new
      <4> QED BY <4>3, <4>4
    <3> HIDE DEF new
    <3>3. Apart(new(items), Oldest(items)) BY <1>3, <3>1, <3>2, OldestApart
    <3>4. Oldest(items) \subseteq DOMAIN new(items) BY <3>1 DEF Oldest
    <3> QED BY <1>3, <2>2, <3>1, <3>3, <3>4, PlanIds DEF Ops
  <2> QED BY <1>1, <2>1, <2>2
<1> QED BY <1>3, <1>4, <1>5, <1>6 DEF RestOK, SectionsOK

(* The jobs that stay in a coordinator's hands. *)
LEMMA RestrictedHand ==
  ASSUME NEW b, HandOK(b), NEW S
  PROVE  /\ HandOK(Restrict(b, DOMAIN b \ S))
         /\ DOMAIN Restrict(b, DOMAIN b \ S) = DOMAIN b \ S
         /\ \A i \in DOMAIN b \ S : Restrict(b, DOMAIN b \ S)[i] = b[i]
BY DEF HandOK, Restrict

(* Giving a coordinator other jobs keeps the hands of the rest. *)
LEMMA OtherHand ==
  ASSUME HandsOK, NEW p \in Proc, NEW b, HandOK(b), batch' = [batch EXCEPT ![p] = b]
  PROVE  HandsOK'
<1>1. batch' = [q \in Proc |-> IF q = p THEN b ELSE batch[q]] BY DEF HandsOK
<1> QED BY <1>1 DEF HandsOK

(* A handler that ends leaves the hand of its coordinator. *)
LEMMA UpdateTypes == ASSUME TypeInv, NEW p \in Proc, NEW i \in Id, Update(p, i) PROVE RestOK'
<1> USE DEF TypeInv
<1> DEFINE new(items, outcome) == [items EXCEPT ![i] = Ended(@, outcome)]
<1>1. PICK items \in Loads, outcome \in Terminal :
        Load(p, items) /\ (UNCHANGED section
                           \/ (i \in DOMAIN items /\ Plan(p, outcome, {i}, new(items, outcome))))
  BY DEF Update, Terminal
<1>2. UNCHANGED <<life, enq, worker, claimed, beating, next, now>> BY DEF Update
<1>3. DOMAIN queue' \subseteq Id /\ DOMAIN items \subseteq Id /\ faults' \in 0..MaxFaults
  BY <1>1, LoadIds DEF SectionsOK
<1>4. ControlOK' BY <1>2, <1>3 DEF ControlOK
<1>5. HandsOK'
  <2>1. batch' = [batch EXCEPT ![p] = Restrict(batch[p], DOMAIN batch[p] \ {i})] BY DEF Update
  <2> QED BY <2>1, OtherHand, RestrictedHand DEF HandsOK
<1>6. \A q \in Proc : section'[q] # NoSection => SectionOK(section'[q])
  <2>1. CASE UNCHANGED section BY <2>1, NoPlan
  <2>2. CASE i \in DOMAIN items /\ Plan(p, outcome, {i}, new(items, outcome))
    <3>1. DOMAIN new(items, outcome) = DOMAIN items OBVIOUS
    <3> HIDE DEF new
    <3>2. outcome \in Ops /\ outcome # "claim" BY DEF Terminal, Ops
    <3> QED BY <1>3, <2>2, <3>1, <3>2, PlanIds
  <2> QED BY <1>1, <2>1, <2>2
<1> QED BY <1>3, <1>4, <1>5, <1>6 DEF RestOK, SectionsOK

(* A heartbeat renews jobs of the file only. *)
LEMMA HeartbeatTypes == ASSUME TypeInv, NEW p \in Proc, Heartbeat(p) PROVE RestOK'
<1> USE DEF TypeInv
<1> DEFINE mine(items) == {i \in DOMAIN items \cap claimed[p] :
                             items[i].status = "running" /\ items[i].owner = p}
           new(items) == [i \in DOMAIN items |->
                            IF i \in mine(items)
                            THEN [items[i] EXCEPT !.updated = now, !.expires = now + Lease]
                            ELSE items[i]]
<1>1. PICK items \in Loads :
        Load(p, items) /\ (UNCHANGED section \/ Plan(p, "heartbeat", mine(items), new(items)))
  BY DEF Heartbeat
<1>2. UNCHANGED <<life, threads, next, now>> BY DEF Heartbeat
<1>3. DOMAIN queue' \subseteq Id /\ DOMAIN items \subseteq Id /\ faults' \in 0..MaxFaults
  BY <1>1, LoadIds DEF SectionsOK
<1>4. ControlOK' BY <1>2, <1>3 DEF ControlOK, threads
<1>5. HandsOK' BY <1>2 DEF HandsOK, threads
<1>6. \A q \in Proc : section'[q] # NoSection => SectionOK(section'[q])
  <2>1. CASE UNCHANGED section BY <2>1, NoPlan
  <2>2. CASE Plan(p, "heartbeat", mine(items), new(items))
    <3>1. DOMAIN new(items) = DOMAIN items /\ mine(items) \subseteq DOMAIN items OBVIOUS
    <3> HIDE DEF new, mine
    <3> QED BY <1>3, <2>2, <3>1, PlanIds DEF Ops
  <2> QED BY <1>1, <2>1, <2>2
<1> QED BY <1>3, <1>4, <1>5, <1>6 DEF RestOK, SectionsOK

(* What a coordinator takes over from the items of its section. *)
LEMMA TakenHand ==
  ASSUME NEW s, SectionOK(s), Sound(s.items), NEW raised \in BOOLEAN, NEW b, HandOK(b),
         NEW h, DOMAIN h \subseteq DOMAIN b \cup s.ids,
         \A i \in DOMAIN h : \/ i \in s.ids /\ h[i] = InHand(s.items[i], raised)
                             \/ i \in DOMAIN b /\ h[i] = b[i]
  PROVE  HandOK(h)
<1>1. ASSUME NEW i \in s.ids PROVE i \in Id /\ InHand(s.items[i], raised) \in [check : Check, raised : BOOLEAN]
  BY <1>1 DEF SectionOK, Sound, Item, InHand
<1>2. ASSUME NEW i \in DOMAIN b PROVE i \in Id /\ b[i] \in [check : Check, raised : BOOLEAN]
  BY <1>2 DEF HandOK
<1>3. ASSUME NEW i \in DOMAIN h PROVE i \in Id /\ h[i] \in [check : Check, raised : BOOLEAN]
  BY <1>1, <1>2, <1>3
<1> QED BY <1>3 DEF HandOK

(* A replace, or its exception, hands over what the section says. *)
LEMMA WriteTypes == ASSUME TypeInv, NEW p \in Proc, Write(p) PROVE RestOK'
<1> USE DEF TypeInv
<1> DEFINE s == section[p]
<1>1. SectionOK(s) /\ Sound(s.items) BY DEF Write, SectionsOK, IInv
<1>2. UNCHANGED <<life, next, now>> BY DEF Write
<1>3. section' = [q \in Proc |-> IF q = p THEN NoSection ELSE section[q]] BY DEF Write, IInv
<1>4. queue' = s.items \/ queue' = queue BY DEF Write
<1>5. SectionsOK' BY <1>1, <1>3, <1>4 DEF SectionsOK, SectionOK
<1>6. faults' \in 0..MaxFaults BY HealthQueueAssumption DEF Write, Fault, ControlOK
<1> HIDE DEF s
<1>7. CASE Written(p, s)
  <2>1. ControlOK'
    <3>1. enq' \in [Proc -> {"idle", "queued", "recovered"}] BY <1>7 DEF Written, ControlOK
    <3>2. s.ids \in SUBSET Id BY <1>1 DEF SectionOK
    <3>3. CASE s.op # "claim" BY <1>2, <1>6, <1>7, <3>1, <3>3 DEF Written, ControlOK
    <3>4. CASE s.op = "claim"
      <4>1. /\ worker' = [worker EXCEPT ![p] = "running"] /\ claimed' = [claimed EXCEPT ![p] = s.ids]
            /\ beating' = [beating EXCEPT ![p] = TRUE]
        BY <1>7, <3>4 DEF Written
      <4> QED BY <1>2, <1>6, <3>1, <3>2, <4>1 DEF ControlOK
    <3> QED BY <3>3, <3>4
  <2>2. HandsOK'
    <3>1. CASE s.op # "claim" BY <1>7, <3>1 DEF Written, HandsOK
    <3>2. CASE s.op = "claim"
      <4> DEFINE b == batch[p]
                 h == [i \in s.ids |-> InHand(s.items[i], FALSE)]
      <4>1. batch' = [batch EXCEPT ![p] = h] BY <1>7, <3>2 DEF Written
      <4>2. DOMAIN h = s.ids /\ \A i \in DOMAIN h : h[i] = InHand(s.items[i], FALSE) OBVIOUS
      <4>3. HandOK(b) BY DEF HandsOK
      <4> HIDE DEF b, h
      <4>4. DOMAIN h \subseteq DOMAIN b \cup s.ids BY <4>2
      <4>5. \A i \in DOMAIN h : \/ i \in s.ids /\ h[i] = InHand(s.items[i], FALSE)
                                \/ i \in DOMAIN b /\ h[i] = b[i]
        BY <4>2
      <4>6. HandOK(h) BY <1>1, <4>3, <4>4, <4>5, TakenHand
      <4> QED BY <4>1, <4>6, OtherHand
    <3> QED BY <3>1, <3>2
  <2> QED BY <1>5, <2>1, <2>2 DEF RestOK
<1>8. CASE NotWritten(p, s)
  <2>1. ControlOK'
    <3>1. enq' \in [Proc -> {"idle", "queued", "recovered"}] BY <1>8 DEF NotWritten, ControlOK
    <3>2. worker' \in [Proc -> {"none", "claim", "running", "broken", "exit"}]
      BY <1>8 DEF NotWritten, ControlOK
    <3>3. beating' \in [Proc -> BOOLEAN] BY <1>8 DEF NotWritten, ControlOK
    <3> QED BY <1>2, <1>6, <1>8, <3>1, <3>2, <3>3 DEF NotWritten, ControlOK
  <2>2. HandsOK'
    <3>1. CASE s.op # "completed" BY <1>8, <3>1 DEF NotWritten, HandsOK
    <3>2. CASE s.op = "completed"
      <4> DEFINE b == batch[p]
                 h == [i \in DOMAIN b \cup s.ids |-> IF i \in s.ids THEN InHand(s.items[i], TRUE) ELSE b[i]]
      <4>1. batch' = [batch EXCEPT ![p] = h] BY <1>8, <3>2 DEF NotWritten
      <4>2. HandOK(b) BY DEF HandsOK
      <4> HIDE DEF b
      <4>3. DOMAIN h = DOMAIN b \cup s.ids
            /\ \A i \in DOMAIN h : h[i] = IF i \in s.ids THEN InHand(s.items[i], TRUE) ELSE b[i]
        OBVIOUS
      <4> HIDE DEF h
      <4>4. \A i \in DOMAIN h : \/ i \in s.ids /\ h[i] = InHand(s.items[i], TRUE)
                                \/ i \in DOMAIN b /\ h[i] = b[i]
        BY <4>3
      <4>5. DOMAIN h \subseteq DOMAIN b \cup s.ids BY <4>3
      <4>6. HandOK(h) BY <1>1, <4>2, <4>4, <4>5, TakenHand
      <4> QED BY <4>1, <4>6, OtherHand
    <3> QED BY <3>1, <3>2
  <2> QED BY <1>5, <2>1, <2>2 DEF RestOK
<1> QED BY <1>7, <1>8 DEF Write, s
(* The empty hands of a process that ends. *)
LEMMA EmptyHand == HandOK(NoItems) /\ DOMAIN NoItems = {}
BY DEF HandOK, NoItems

(* A coordinator on its way out only lets go of jobs. *)
LEMMA DrainTypes == ASSUME TypeInv, NEW p \in Proc, Drain(p) PROVE RestOK'
<1> USE DEF TypeInv
<1>1. UNCHANGED <<queue, life, section, enq, next, now, faults>> BY DEF Drain
<1>2. SectionsOK' BY <1>1 DEF SectionsOK
<1>3. CASE DOMAIN batch[p] = {}
  <2>1. /\ worker' = [worker EXCEPT ![p] = "none"] /\ claimed' = [claimed EXCEPT ![p] = {}]
        /\ beating' = [beating EXCEPT ![p] = FALSE] /\ UNCHANGED batch
    BY <1>3 DEF Drain
  <2>2. ControlOK' BY <1>1, <2>1 DEF ControlOK
  <2>3. HandsOK' BY <2>1 DEF HandsOK
  <2> QED BY <1>2, <2>2, <2>3 DEF RestOK
<1>4. CASE DOMAIN batch[p] # {}
  <2>1. PICK i \in DOMAIN batch[p] : batch' = [batch EXCEPT ![p] = Restrict(batch[p], DOMAIN batch[p] \ {i})]
    BY <1>4 DEF Drain
  <2>2. UNCHANGED <<worker, claimed, beating>> BY <1>4 DEF Drain
  <2>3. ControlOK' BY <1>1, <2>2 DEF ControlOK
  <2>4. HandsOK' BY <2>1, OtherHand, RestrictedHand DEF HandsOK
  <2> QED BY <1>2, <2>3, <2>4 DEF RestOK
<1> QED BY <1>3, <1>4

(* A dead process has nothing in hand. *)
LEMMA KillTypes == ASSUME TypeInv, NEW p \in Proc, Kill(p) PROVE RestOK'
<1> USE DEF TypeInv
<1>1. section' = [q \in Proc |-> IF q = p THEN NoSection ELSE section[q]] BY DEF Kill, IInv
<1>2. SectionsOK' BY <1>1 DEF Kill, SectionsOK
<1>3. ControlOK' BY DEF Kill, ControlOK
<1>4. HandsOK'
  <2>1. batch' = [batch EXCEPT ![p] = NoItems] BY DEF Kill
  <2> QED BY <2>1, EmptyHand, OtherHand
<1> QED BY <1>2, <1>3, <1>4 DEF RestOK

(* The initial state is of its types, and every step keeps them. *)
LEMMA TypeInit == Init => TypeInv
<1> SUFFICES ASSUME Init PROVE TypeInv OBVIOUS
<1>1. IInv BY IInvInit
<1>2. ControlOK BY HealthQueueAssumption DEF Init, ControlOK
<1>3. HandsOK BY EmptyHand DEF Init, HandsOK
<1>4. SectionsOK BY EmptyHand DEF Init, SectionsOK
<1> QED BY <1>1, <1>2, <1>3, <1>4 DEF TypeInv

LEMMA TypeNext == TypeInv /\ [Next]_vars => TypeInv'
<1> SUFFICES ASSUME TypeInv, [Next]_vars PROVE RestOK'
  BY IInvNext DEF TypeInv, RestOK
<1>1. ASSUME NEW p \in Proc, NEW check \in Check, Enqueue(p, check) PROVE RestOK'
  BY <1>1, EnqueueTypes
<1>2. ASSUME NEW p \in Proc, Recover(p) PROVE RestOK' BY <1>2, RecoverTypes
<1>3. ASSUME NEW p \in Proc, Claim(p) PROVE RestOK' BY <1>3, ClaimTypes
<1>4. ASSUME NEW p \in Proc, NEW i \in Id, Update(p, i) PROVE RestOK' BY <1>4, UpdateTypes
<1>5. ASSUME NEW p \in Proc, Heartbeat(p) PROVE RestOK' BY <1>5, HeartbeatTypes
<1>6. ASSUME NEW p \in Proc, Write(p) PROVE RestOK' BY <1>6, WriteTypes
<1>7. ASSUME NEW p \in Proc, Drain(p) PROVE RestOK' BY <1>7, DrainTypes
<1>8. ASSUME NEW p \in Proc, Kill(p) PROVE RestOK' BY <1>8, KillTypes
<1> USE DEF TypeInv, RestOK
<1>9. ASSUME NEW p \in Proc, NextBatch(p) PROVE RestOK'
  <2>1. ControlOK' BY <1>9 DEF NextBatch, ControlOK
  <2> QED BY <1>9, <2>1 DEF NextBatch, HandsOK, SectionsOK
<1>10. ASSUME NEW p \in Proc, Exit(p) PROVE RestOK'
  <2>1. ControlOK' BY <1>10 DEF Exit, ControlOK
  <2> QED BY <1>10, <2>1 DEF Exit, HandsOK, SectionsOK
<1>11. ASSUME NEW p \in Proc, StartWorker(p) PROVE RestOK'
  <2>1. ControlOK' BY <1>11 DEF StartWorker, ControlOK
  <2> QED BY <1>11, <2>1 DEF StartWorker, HandsOK, SectionsOK
<1>12. ASSUME NEW p \in Proc, Start(p) PROVE RestOK'
  <2>1. ControlOK' BY <1>12 DEF Start, ControlOK, threads
  <2> QED BY <1>12, <2>1 DEF Start, threads, HandsOK, SectionsOK
<1>13. CASE Tick
  <2>1. ControlOK' BY <1>13, HealthQueueAssumption DEF Tick, ControlOK, threads
  <2> QED BY <1>13, <2>1 DEF Tick, threads, HandsOK, SectionsOK
<1>14. CASE UNCHANGED vars BY <1>14 DEF vars, ControlOK, HandsOK, SectionsOK
<1> QED BY <1>1, <1>2, <1>3, <1>4, <1>5, <1>6, <1>7, <1>8, <1>9, <1>10, <1>11, <1>12, <1>13, <1>14
    DEF Next, Coordinate

(* The queue, the sections in progress and the jobs in hand are of their types,
   for any processes side by side and any failing file. *)
THEOREM QueueTypeCorrect == Spec => []TypeOK
BY TypeInit, TypeNext, PartsAreTypes, PTL DEF Spec
-----------------------------------------------------------------------------
(* One process after another: only one is alive, what is not alive has nothing
   in hand, and the jobs a coordinator runs belong to different accounts. *)
RunApart(b) ==
  \A i, j \in DOMAIN b :
    ~b[i].raised /\ ~b[j].raised /\ AccountOf(b[i].check) = AccountOf(b[j].check) => i = j

OneAlive == \A p, q \in Proc : life[p] = "up" /\ life[q] = "up" => p = q

IdleInv == \A p \in Proc : life[p] # "up" => DOMAIN batch[p] = {} /\ section[p] = NoSection

SerialInv == OneAlive /\ IdleInv /\ \A p \in Proc : RunApart(batch[p])

(* Nobody starts beside a living process. *)
LEMMA AliveNext == ASSUME ~Concurrent, TypeInv, OneAlive, [Next]_vars PROVE OneAlive'
<1> USE DEF TypeInv, ControlOK, OneAlive
<1>1. ASSUME NEW p \in Proc, Start(p) PROVE OneAlive' BY <1>1 DEF Start
<1>2. ASSUME NEW p \in Proc, Kill(p) PROVE OneAlive' BY <1>2 DEF Kill
<1>3. CASE life' = life BY <1>3
<1>4. ASSUME NEW p \in Proc, NEW check \in Check,
             Enqueue(p, check) \/ Recover(p) \/ StartWorker(p) \/ Coordinate(p) \/ Heartbeat(p) \/ Write(p)
      PROVE  life' = life
  BY <1>4 DEF Enqueue, Recover, StartWorker, Coordinate, Claim, Update, NextBatch, Drain, Exit,
     Heartbeat, Write
<1>5. ASSUME NEW p \in Proc, Coordinate(p) \/ Heartbeat(p) \/ Write(p) \/ Recover(p) \/ StartWorker(p)
      PROVE  life' = life
  BY <1>5 DEF Recover, StartWorker, Coordinate, Claim, Update, NextBatch, Drain, Exit,
     Heartbeat, Write
<1>6. CASE Tick \/ UNCHANGED vars BY <1>6 DEF Tick, vars
<1> QED BY <1>1, <1>2, <1>3, <1>4, <1>5, <1>6 DEF Next

(* A section and a hand are those of a living process. *)
LEMMA PlanByAlive ==
  ASSUME TypeInv, IdleInv, NEW p \in Proc, life[p] = "up", life' = life,
         \A q \in Proc : q # p => section'[q] = section[q] /\ batch'[q] = batch[q]
  PROVE  IdleInv'
BY DEF IdleInv

(* Every step is a step of a living process, and touches no other's hand. *)
LEMMA IdleNext == ASSUME TypeInv, IdleInv, [Next]_vars PROVE IdleInv'
<1>0. /\ section = [q \in Proc |-> section[q]] /\ batch = [q \in Proc |-> batch[q]]
      /\ life \in [Proc -> {"new", "up", "dead"}]
  BY DEF TypeInv, IInv, HandsOK, ControlOK
<1>1. ASSUME NEW p \in Proc, NEW check \in Check, Enqueue(p, check) PROVE IdleInv'
  <2>1. life[p] = "up" BY <1>1 DEF Enqueue, Load
  <2>2. section' = section \/ \E s : section' = [section EXCEPT ![p] = s] BY <1>1 DEF Enqueue, Plan
  <2> QED BY <1>0, <1>1, <2>1, <2>2, PlanByAlive DEF Enqueue
<1>2. ASSUME NEW p \in Proc, Recover(p) PROVE IdleInv'
  <2>1. section' = section \/ \E s : section' = [section EXCEPT ![p] = s] BY <1>2 DEF Recover, Plan
  <2> QED BY <1>0, <1>2, <2>1, PlanByAlive DEF Recover
<1>3. ASSUME NEW p \in Proc, Claim(p) PROVE IdleInv'
  <2>1. life[p] = "up" BY <1>3 DEF Claim, Load
  <2>2. section' = section \/ \E s : section' = [section EXCEPT ![p] = s] BY <1>3 DEF Claim, Plan
  <2> QED BY <1>0, <1>3, <2>1, <2>2, PlanByAlive DEF Claim
<1>4. ASSUME NEW p \in Proc, NEW i \in Id, Update(p, i) PROVE IdleInv'
  <2>1. life[p] = "up" BY <1>4 DEF Update, Load
  <2>2. section' = section \/ \E s : section' = [section EXCEPT ![p] = s] BY <1>4 DEF Update, Plan
  <2>3. \E b : batch' = [batch EXCEPT ![p] = b] BY <1>4 DEF Update
  <2>4. life' = life BY <1>4 DEF Update
  <2> QED BY <1>0, <2>1, <2>2, <2>3, <2>4, PlanByAlive
<1>5. ASSUME NEW p \in Proc, Heartbeat(p) PROVE IdleInv'
  <2>1. life[p] = "up" BY <1>5 DEF Heartbeat, Load
  <2>2. section' = section \/ \E s : section' = [section EXCEPT ![p] = s] BY <1>5 DEF Heartbeat, Plan
  <2> QED BY <1>0, <1>5, <2>1, <2>2, PlanByAlive DEF Heartbeat, threads
<1>6. ASSUME NEW p \in Proc, Write(p) PROVE IdleInv'
  <2>1. life[p] = "up" /\ life' = life BY <1>6 DEF Write, IdleInv
  <2>2. section' = [section EXCEPT ![p] = NoSection] BY <1>6 DEF Write
  <2>3. batch' = batch \/ \E b : batch' = [batch EXCEPT ![p] = b] BY <1>6 DEF Write, Written, NotWritten
  <2> QED BY <1>0, <2>1, <2>2, <2>3, PlanByAlive
<1>7. ASSUME NEW p \in Proc, Drain(p) PROVE IdleInv'
  <2>1. batch' = batch \/ \E b : batch' = [batch EXCEPT ![p] = b] BY <1>7 DEF Drain
  <2> QED BY <1>0, <1>7, <2>1, PlanByAlive DEF Drain
<1>8. ASSUME NEW p \in Proc, Kill(p) PROVE IdleInv'
  <2>1. /\ life' = [life EXCEPT ![p] = "dead"] /\ section' = [section EXCEPT ![p] = NoSection]
        /\ batch' = [batch EXCEPT ![p] = NoItems]
    BY <1>8 DEF Kill
  <2> QED BY <1>0, <2>1, EmptyHand DEF IdleInv
<1>9. ASSUME NEW p \in Proc, Start(p) PROVE IdleInv'
  BY <1>0, <1>9 DEF Start, threads, IdleInv
<1>10. ASSUME NEW p \in Proc, NextBatch(p) \/ Exit(p) \/ StartWorker(p) PROVE IdleInv'
  <2>1. UNCHANGED <<life, section, batch>> BY <1>10 DEF NextBatch, Exit, StartWorker
  <2> QED BY <2>1 DEF IdleInv
<1>11. CASE Tick \/ UNCHANGED vars
  <2>1. UNCHANGED <<life, section, batch>> BY <1>11 DEF Tick, threads, vars
  <2> QED BY <2>1 DEF IdleInv
<1> QED BY <1>1, <1>2, <1>3, <1>4, <1>5, <1>6, <1>7, <1>8, <1>9, <1>10, <1>11 DEF Next, Coordinate

(* A claim hands out one job of an account; everything else only takes away or
   gives back what is no longer run. *)
LEMMA ApartNext ==
  ASSUME TypeInv, \A p \in Proc : RunApart(batch[p]), [Next]_vars
  PROVE  \A p \in Proc : RunApart(batch'[p])
<1>0. batch = [q \in Proc |-> batch[q]] BY DEF TypeInv, HandsOK
<1>1. ASSUME NEW p \in Proc, NEW b, RunApart(b), batch' = [batch EXCEPT ![p] = b]
      PROVE  \A q \in Proc : RunApart(batch'[q])
  <2>1. batch' = [q \in Proc |-> IF q = p THEN b ELSE batch[q]] BY <1>0, <1>1
  <2> QED BY <1>1, <2>1
<1>2. ASSUME NEW p \in Proc, NEW i \in Id, batch' = [batch EXCEPT ![p] = Restrict(batch[p], DOMAIN batch[p] \ {i})]
      PROVE  \A q \in Proc : RunApart(batch'[q])
  <2> DEFINE b == Restrict(batch[p], DOMAIN batch[p] \ {i})
  <2>1. /\ DOMAIN b = DOMAIN batch[p] \ {i} /\ \A j \in DOMAIN b : b[j] = batch[p][j]
    BY DEF Restrict
  <2>2. batch' = [batch EXCEPT ![p] = b] BY <1>2
  <2> HIDE DEF b
  <2>3. RunApart(b) BY <2>1 DEF RunApart
  <2> QED BY <1>1, <2>2, <2>3
<1>3. CASE batch' = batch BY <1>3
<1>4. ASSUME NEW p \in Proc, Write(p) PROVE \A q \in Proc : RunApart(batch'[q])
  <2> DEFINE s == section[p]
  <2>1. SectionOK(s) BY <1>4 DEF Write, TypeInv, SectionsOK
  <2>2. Written(p, s) \/ NotWritten(p, s) BY <1>4 DEF Write
  <2> HIDE DEF s
  <2>3. CASE Written(p, s)
    <3>1. CASE s.op # "claim" BY <1>3, <2>3, <3>1 DEF Written
    <3>2. CASE s.op = "claim"
      <4> DEFINE h == [i \in s.ids |-> InHand(s.items[i], FALSE)]
      <4>1. batch' = [batch EXCEPT ![p] = h] BY <2>3, <3>2 DEF Written
      <4>2. DOMAIN h = s.ids /\ \A i \in DOMAIN h : h[i].check = s.items[i].check BY DEF InHand
      <4> HIDE DEF h
      <4>3. RunApart(h) BY <2>1, <3>2, <4>2 DEF RunApart, SectionOK, Apart
      <4> QED BY <1>1, <4>1, <4>3
    <3> QED BY <3>1, <3>2
  <2>4. CASE NotWritten(p, s)
    <3>1. CASE s.op # "completed" BY <1>3, <2>4, <3>1 DEF NotWritten
    <3>2. CASE s.op = "completed"
      <4> DEFINE b == batch[p]
                 h == [i \in DOMAIN b \cup s.ids |-> IF i \in s.ids THEN InHand(s.items[i], TRUE) ELSE b[i]]
      <4>1. batch' = [batch EXCEPT ![p] = h] BY <2>4, <3>2 DEF NotWritten
      <4>2. RunApart(b) OBVIOUS
      <4> HIDE DEF b
      <4>3. DOMAIN h = DOMAIN b \cup s.ids
            /\ \A i \in DOMAIN h : h[i] = IF i \in s.ids THEN InHand(s.items[i], TRUE) ELSE b[i]
        OBVIOUS
      <4> HIDE DEF h
      <4>4. \A i \in DOMAIN h : ~h[i].raised => i \in DOMAIN b /\ h[i] = b[i]
        <5>1. \A i \in s.ids : InHand(s.items[i], TRUE).raised BY DEF InHand
        <5> QED BY <4>3, <5>1
      <4>5. RunApart(h) BY <4>2, <4>4 DEF RunApart
      <4> QED BY <1>1, <4>1, <4>5
    <3> QED BY <3>1, <3>2
  <2> QED BY <2>2, <2>3, <2>4
<1>5. ASSUME NEW p \in Proc, NEW i \in Id, Update(p, i) PROVE \A q \in Proc : RunApart(batch'[q])
  BY <1>2, <1>5 DEF Update
<1>6. ASSUME NEW p \in Proc, Drain(p) PROVE \A q \in Proc : RunApart(batch'[q])
  <2>1. \A i \in DOMAIN batch[p] : i \in Id BY DEF TypeInv, HandsOK, HandOK
  <2> QED BY <1>2, <1>3, <1>6, <2>1 DEF Drain
<1>7. ASSUME NEW p \in Proc, Kill(p) PROVE \A q \in Proc : RunApart(batch'[q])
  <2>1. batch' = [batch EXCEPT ![p] = NoItems] BY <1>7 DEF Kill
  <2>2. RunApart(NoItems) BY EmptyHand DEF RunApart
  <2> QED BY <1>1, <2>1, <2>2
<1>8. ASSUME NEW p \in Proc, NEW check \in Check,
             Enqueue(p, check) \/ Recover(p) \/ StartWorker(p) \/ Claim(p) \/ NextBatch(p) \/ Exit(p)
               \/ Heartbeat(p) \/ Start(p)
      PROVE  batch' = batch
  BY <1>8 DEF Enqueue, Recover, StartWorker, Claim, NextBatch, Exit, Heartbeat, Start, threads
<1>9. ASSUME NEW p \in Proc,
             Recover(p) \/ StartWorker(p) \/ Claim(p) \/ NextBatch(p) \/ Exit(p) \/ Heartbeat(p) \/ Start(p)
      PROVE  batch' = batch
  BY <1>9 DEF Recover, StartWorker, Claim, NextBatch, Exit, Heartbeat, Start, threads
<1>10. CASE Tick \/ UNCHANGED vars BY <1>3, <1>10 DEF Tick, threads, vars
<1> QED BY <1>3, <1>4, <1>5, <1>6, <1>7, <1>8, <1>9, <1>10 DEF Next, Coordinate

(* One process after another stays so. *)
LEMMA SerialInit == Init => SerialInv
<1> SUFFICES ASSUME Init PROVE SerialInv OBVIOUS
<1>1. \A p \in Proc : life[p] = "new" /\ section[p] = NoSection /\ batch[p] = NoItems BY DEF Init
<1> QED BY <1>1, EmptyHand DEF SerialInv, OneAlive, IdleInv, RunApart

LEMMA SerialNext == ASSUME ~Concurrent PROVE TypeInv /\ SerialInv /\ [Next]_vars => SerialInv'
BY AliveNext, IdleNext, ApartNext DEF SerialInv

(* SerializedPerAccount: with one process after another, over kills, restarts,
   expired leases and failing files, no two checks of one account are run at the
   same time (the selection of process_account_health_jobs).  The assumption is
   needed: two living processes claim the same job by reading one file. *)
THEOREM OneCheckAtATime == ASSUME ~Concurrent PROVE Spec => []SerializedPerAccount
<1>1. SerialInv => SerializedPerAccount
  BY DEF SerialInv, OneAlive, IdleInv, RunApart, SerializedPerAccount, Running
<1> QED BY <1>1, SerialInit, SerialNext, TypeInit, TypeNext, PTL DEF Spec

-----------------------------------------------------------------------------
(* What a section is about to write keeps every job it has read, and every
   outcome but the one it reports. *)
Keeps(q, r, op, ids) ==
  \A i \in DOMAIN q :
    /\ i \in DOMAIN r
    /\ q[i].status \in Terminal => r[i].status = q[i].status \/ (op \in Terminal /\ ids = {i})

\* The ids of a queue have been given out.
Below(q, n) == \A i \in DOMAIN q : i < n

SectionKeeps(s, q, n) == (s.seen => Keeps(q, s.items, s.op, s.ids)) /\ Below(s.items, n)

KeepInv ==
  /\ Below(queue, next)
  /\ \A p \in Proc : section[p] # NoSection => SectionKeeps(section[p], queue, next)

\* While one process is in a section no other is.
NoneElse(p) == \A q \in Proc : q # p => section[q] = NoSection

LEMMA AloneInSection == ASSUME SerialInv, NEW p \in Proc, life[p] = "up" PROVE NoneElse(p)
BY DEF SerialInv, OneAlive, IdleInv, NoneElse

(* Recovering jobs ends none and reopens no outcome. *)
LEMMA RecoveredKeeps == ASSUME NEW q PROVE DOMAIN Recovered(q) = DOMAIN q /\ Keeps(q, Recovered(q), "recover", {})
<1>1. DOMAIN Recovered(q) = DOMAIN q BY DEF Recovered
<1>2. ASSUME NEW i \in DOMAIN q, q[i].status \in Terminal PROVE Recovered(q)[i] = q[i]
  <2>1. ~Interrupted(q[i]) BY <1>2 DEF Terminal, Interrupted
  <2> QED BY <2>1 DEF Recovered
<1> QED BY <1>1, <1>2 DEF Keeps

(* A load leaves the file with its jobs and outcomes; what the thread has got is
   the file, or the read has failed. *)
LEMMA LoadKeeps ==
  ASSUME TypeInv, NEW p \in Proc, NEW items, Load(p, items)
  PROVE  /\ DOMAIN queue' = DOMAIN queue /\ Keeps(queue, queue', "recover", {})
         /\ DOMAIN items \subseteq DOMAIN queue
         /\ faults' = faults => items = queue'
         /\ section[p] = NoSection /\ life[p] = "up"
<1>1. faults \in Nat BY DEF TypeInv, ControlOK
<1>2. CASE items = Recovered(queue) /\ queue' = items /\ UNCHANGED faults
  BY <1>2, RecoveredKeeps DEF Load
<1>3. CASE Fault /\ items = NoItems /\ UNCHANGED queue
  <2>1. DOMAIN items = {} BY <1>3 DEF NoItems
  <2>2. Keeps(queue, queue', "recover", {}) BY <1>3 DEF Keeps
  <2> QED BY <1>1, <1>3, <2>1, <2>2 DEF Load, Fault
<1> QED BY <1>2, <1>3 DEF Load

(* A section that keeps what it has loaded keeps what is in the file. *)
LEMMA PlanKeeps ==
  ASSUME TypeInv, SerialInv, KeepInv, NEW p \in Proc, life[p] = "up",
         NEW items, DOMAIN queue' = DOMAIN queue, faults' = faults => items = queue',
         NEW op, NEW ids, NEW new, Plan(p, op, ids, new), Keeps(items, new, op, ids),
         next \in Nat, next' \in Nat, next <= next', Below(new, next')
  PROVE  KeepInv'
<1> DEFINE s == [op |-> op, ids |-> ids, items |-> new, seen |-> faults' = faults]
<1>1. section' = [q \in Proc |-> IF q = p THEN s ELSE section[q]] BY DEF Plan, TypeInv, IInv
<1>2. s.op = op /\ s.ids = ids /\ s.items = new /\ s.seen = (faults' = faults) OBVIOUS
<1> HIDE DEF s
<1>3. NoneElse(p) BY AloneInSection
<1>4. Below(queue', next')
  <2>1. \A i \in DOMAIN queue : i \in Nat BY DEF TypeInv, IInv, SectionsOK, Id
  <2> QED BY <2>1 DEF KeepInv, Below
<1>5. SectionKeeps(s, queue', next') BY <1>2 DEF SectionKeeps
<1> QED BY <1>1, <1>3, <1>4, <1>5 DEF KeepInv, NoneElse

(* A load without a write. *)
LEMMA OnlyLoadKeeps ==
  ASSUME TypeInv, SerialInv, KeepInv, NEW p \in Proc, NEW items, Load(p, items),
         UNCHANGED section, next' = next
  PROVE  KeepInv'
<1>1. DOMAIN queue' = DOMAIN queue /\ section[p] = NoSection /\ NoneElse(p)
  BY LoadKeeps, AloneInSection
<1> QED BY <1>1 DEF KeepInv, Below, NoneElse

(* A plan that changes no outcome but the one it reports, of what was loaded. *)
LEMMA TamedKeeps ==
  ASSUME TypeInv, SerialInv, KeepInv, next' = next, NEW p \in Proc, NEW items, Load(p, items),
         NEW op, NEW ids, NEW new, Plan(p, op, ids, new), DOMAIN new = DOMAIN items,
         \A i \in DOMAIN items : items[i].status \in Terminal =>
            new[i].status = items[i].status \/ (op \in Terminal /\ ids = {i})
  PROVE  KeepInv'
<1>1. Keeps(items, new, op, ids) BY DEF Keeps
<1>2. /\ DOMAIN queue' = DOMAIN queue /\ DOMAIN items \subseteq DOMAIN queue
      /\ faults' = faults => items = queue'
      /\ life[p] = "up"
  BY LoadKeeps
<1>3. Below(new, next') BY <1>2 DEF KeepInv, Below
<1>4. next \in Nat BY DEF TypeInv, ControlOK
<1> QED BY <1>1, <1>2, <1>3, <1>4, PlanKeeps

(* A new job gets an id nobody has. *)
LEMMA EnqueueKeeps ==
  ASSUME TypeInv, SerialInv, KeepInv, NEW p \in Proc, NEW check \in Check, Enqueue(p, check)
  PROVE  KeepInv' /\ Keeps(queue, queue', "recover", {})
<1> DEFINE item == [check |-> check, status |-> "pending",
                    updated |-> now, owner |-> NoProc, expires |-> 0]
           new(items) == [i \in DOMAIN items \cup {next} |-> IF i = next THEN item ELSE items[i]]
<1>1. PICK items \in Loads :
        /\ Load(p, items)
        /\ \/ UNCHANGED <<section, next>>
           \/ next' = next + 1 /\ Plan(p, "enqueue", {next}, new(items))
  BY DEF Enqueue
<1>2. /\ DOMAIN queue' = DOMAIN queue /\ Keeps(queue, queue', "recover", {})
      /\ DOMAIN items \subseteq DOMAIN queue
      /\ faults' = faults => items = queue'
      /\ life[p] = "up"
  BY <1>1, LoadKeeps
<1>3. CASE UNCHANGED <<section, next>> BY <1>1, <1>2, <1>3, OnlyLoadKeeps
<1>4. CASE next' = next + 1 /\ Plan(p, "enqueue", {next}, new(items))
  <2>1. /\ DOMAIN new(items) = DOMAIN items \cup {next}
        /\ \A i \in DOMAIN items : i # next => new(items)[i] = items[i]
    OBVIOUS
  <2>2. next \in Nat /\ next < next + 1 BY DEF TypeInv, ControlOK
  <2>3. \A i \in DOMAIN items : i \in Nat /\ i < next
    BY <1>2 DEF KeepInv, Below, TypeInv, SectionsOK, Id
  <2> HIDE DEF new, item
  <2>4. Keeps(items, new(items), "enqueue", {next}) BY <2>1, <2>2, <2>3 DEF Keeps
  <2>5. Below(new(items), next') BY <1>4, <2>1, <2>2, <2>3 DEF Below
  <2>6. next' \in Nat /\ next <= next' BY <1>4, <2>2
  <2> QED BY <1>2, <1>4, <2>2, <2>4, <2>5, <2>6, PlanKeeps
<1> QED BY <1>1, <1>3, <1>4

(* The sweep of jobs that waited too long ends pending jobs only. *)
LEMMA RecoverKeeps ==
  ASSUME TypeInv, SerialInv, KeepInv, NEW p \in Proc, Recover(p)
  PROVE  KeepInv'
<1> DEFINE swept == [i \in DOMAIN queue |->
                       IF queue[i].status = "pending" /\ now - queue[i].updated >= PendingTTL
                       THEN Ended(queue[i], "failed") ELSE Recovered(queue)[i]]
<1>1. UNCHANGED queue /\ next' = next /\ life[p] = "up" BY DEF Recover
<1>2. UNCHANGED section \/ Plan(p, "recover", {}, swept) BY DEF Recover
<1>3. DOMAIN swept = DOMAIN queue OBVIOUS
<1>4. \A i \in DOMAIN queue : queue[i].status \in Terminal => swept[i] = Recovered(queue)[i]
  BY DEF Terminal
<1>5. CASE UNCHANGED section BY <1>1, <1>5 DEF KeepInv
<1>6. CASE Plan(p, "recover", {}, swept)
  <2> HIDE DEF swept
  <2>1. Keeps(queue, swept, "recover", {}) BY <1>3, <1>4, RecoveredKeeps DEF Keeps
  <2>2. Below(swept, next') BY <1>1, <1>3 DEF KeepInv, Below
  <2>3. next \in Nat BY DEF TypeInv, ControlOK
  <2> QED BY <1>1, <1>6, <2>1, <2>2, <2>3, PlanKeeps
<1> QED BY <1>2, <1>5, <1>6

(* Only pending jobs are claimed. *)
LEMMA ClaimKeeps ==
  ASSUME TypeInv, SerialInv, KeepInv, NEW p \in Proc, Claim(p)
  PROVE  KeepInv' /\ Keeps(queue, queue', "recover", {})
<1> DEFINE run(item) == [item EXCEPT !.status = "running", !.updated = now,
                                     !.owner = p, !.expires = now + Lease]
           new(items) == [i \in DOMAIN items |-> IF i \in Oldest(items) THEN run(items[i]) ELSE items[i]]
<1>1. PICK items \in Loads :
        Load(p, items) /\ (UNCHANGED section \/ Plan(p, "claim", Oldest(items), new(items)))
  BY DEF Claim
<1>2. next' = next /\ Keeps(queue, queue', "recover", {}) BY <1>1, LoadKeeps DEF Claim
<1>3. CASE UNCHANGED section BY <1>1, <1>2, <1>3, OnlyLoadKeeps
<1>4. CASE Plan(p, "claim", Oldest(items), new(items))
  <2>1. DOMAIN new(items) = DOMAIN items OBVIOUS
  <2>2. \A i \in DOMAIN items : items[i].status \in Terminal => new(items)[i] = items[i]
    BY DEF Oldest, Terminal
  <2> HIDE DEF new
  <2> QED BY <1>1, <1>2, <1>4, <2>1, <2>2, TamedKeeps
<1> QED BY <1>1, <1>3, <1>4

(* A handler reports one outcome. *)
LEMMA UpdateKeeps ==
  ASSUME TypeInv, SerialInv, KeepInv, NEW p \in Proc, NEW i \in Id, Update(p, i)
  PROVE  KeepInv' /\ Keeps(queue, queue', "recover", {})
<1> DEFINE new(items, outcome) == [items EXCEPT ![i] = Ended(@, outcome)]
<1>1. PICK items \in Loads, outcome \in Terminal :
        Load(p, items) /\ (IF i \notin DOMAIN items THEN UNCHANGED section
                           ELSE Plan(p, outcome, {i}, new(items, outcome)))
  BY DEF Update, Terminal
<1>2. next' = next /\ Keeps(queue, queue', "recover", {}) BY <1>1, LoadKeeps DEF Update
<1>3. CASE i \notin DOMAIN items BY <1>1, <1>2, <1>3, OnlyLoadKeeps
<1>4. CASE i \in DOMAIN items
  <2>1. /\ DOMAIN new(items, outcome) = DOMAIN items
        /\ \A j \in DOMAIN items : j # i => new(items, outcome)[j] = items[j]
    OBVIOUS
  <2> HIDE DEF new
  <2> QED BY <1>1, <1>2, <1>4, <2>1, TamedKeeps
<1> QED BY <1>3, <1>4

(* A heartbeat renews running jobs only. *)
LEMMA HeartbeatKeeps ==
  ASSUME TypeInv, SerialInv, KeepInv, NEW p \in Proc, Heartbeat(p)
  PROVE  KeepInv' /\ Keeps(queue, queue', "recover", {})
<1> DEFINE mine(items) == {i \in DOMAIN items \cap claimed[p] :
                             items[i].status = "running" /\ items[i].owner = p}
           renewed(item) == [item EXCEPT !.updated = now, !.expires = now + Lease]
           new(items) == [i \in DOMAIN items |-> IF i \in mine(items) THEN renewed(items[i]) ELSE items[i]]
<1>1. PICK items \in Loads :
        Load(p, items) /\ (UNCHANGED section \/ Plan(p, "heartbeat", mine(items), new(items)))
  BY DEF Heartbeat
<1>2. next' = next /\ Keeps(queue, queue', "recover", {}) BY <1>1, LoadKeeps DEF Heartbeat
<1>3. CASE UNCHANGED section BY <1>1, <1>2, <1>3, OnlyLoadKeeps
<1>4. CASE Plan(p, "heartbeat", mine(items), new(items))
  <2>1. DOMAIN new(items) = DOMAIN items OBVIOUS
  <2>2. \A i \in DOMAIN items : items[i].status \in Terminal => new(items)[i] = items[i]
    BY DEF Terminal
  <2> HIDE DEF new, mine
  <2> QED BY <1>1, <1>2, <1>4, <2>1, <2>2, TamedKeeps
<1> QED BY <1>1, <1>3, <1>4

(* A replace leaves nobody in a section. *)
LEMMA WriteKeeps ==
  ASSUME TypeInv, SerialInv, KeepInv, NEW p \in Proc, Write(p)
  PROVE  /\ KeepInv'
         /\ (\A i \in DOMAIN queue : Kept(i)) \/ (Blind(p) /\ queue' = section[p].items)
<1> DEFINE s == section[p]
<1>1. s # NoSection /\ next' = next /\ (queue' = s.items \/ queue' = queue) BY DEF Write
<1>2. section' = [q \in Proc |-> IF q = p THEN NoSection ELSE section[q]]
  BY DEF Write, TypeInv, IInv
<1>3. NoneElse(p) BY <1>1, AloneInSection DEF SerialInv, IdleInv
<1>4. SectionKeeps(s, queue, next) BY <1>1 DEF KeepInv
<1>5. s.seen \in BOOLEAN BY <1>1 DEF TypeInv, SectionsOK, SectionOK
<1>6. KeepInv' BY <1>1, <1>2, <1>3, <1>4 DEF KeepInv, SectionKeeps, NoneElse
<1>7. CASE queue' = queue BY <1>6, <1>7 DEF Kept
<1>8. CASE queue' = s.items /\ ~s.seen BY <1>1, <1>6, <1>8 DEF Blind
<1>9. CASE queue' = s.items /\ s.seen
  <2>1. \A i \in DOMAIN queue :
          /\ i \in DOMAIN queue'
          /\ queue[i].status \in Terminal =>
               queue'[i].status = queue[i].status \/ (s.op \in Terminal /\ s.ids = {i})
    BY <1>4, <1>9 DEF SectionKeeps, Keeps
  <2>2. section'[p] = NoSection BY <1>2
  <2>3. \A i \in DOMAIN queue : Kept(i) BY <1>1, <2>1, <2>2 DEF Kept, Reports
  <2> QED BY <1>6, <2>3
<1> QED BY <1>1, <1>5, <1>7, <1>8, <1>9

(* Every step keeps KeepInv, and the file as JobsKept says. *)
StepKeeps ==
  \/ \A i \in DOMAIN queue : Kept(i)
  \/ \E p \in Proc : Blind(p) /\ queue' = section[p].items

LEMMA FileKeeps == Keeps(queue, queue', "recover", {}) => StepKeeps
BY DEF Keeps, StepKeeps, Kept, Terminal

LEMMA KeepNext ==
  ASSUME TypeInv, SerialInv, KeepInv, [Next]_vars
  PROVE  KeepInv' /\ (StepKeeps \/ queue' = queue)
<1>1. ASSUME NEW p \in Proc, NEW check \in Check, Enqueue(p, check)
      PROVE  KeepInv' /\ StepKeeps
  BY <1>1, EnqueueKeeps, FileKeeps
<1>2. ASSUME NEW p \in Proc, Recover(p) PROVE KeepInv' /\ queue' = queue
  BY <1>2, RecoverKeeps DEF Recover
<1>3. ASSUME NEW p \in Proc, Claim(p) PROVE KeepInv' /\ StepKeeps BY <1>3, ClaimKeeps, FileKeeps
<1>4. ASSUME NEW p \in Proc, NEW i \in Id, Update(p, i) PROVE KeepInv' /\ StepKeeps
  BY <1>4, UpdateKeeps, FileKeeps
<1>5. ASSUME NEW p \in Proc, Heartbeat(p) PROVE KeepInv' /\ StepKeeps
  BY <1>5, HeartbeatKeeps, FileKeeps
<1>6. ASSUME NEW p \in Proc, Write(p) PROVE KeepInv' /\ StepKeeps
  BY <1>6, WriteKeeps DEF StepKeeps
<1>7. ASSUME NEW p \in Proc, Kill(p) PROVE KeepInv' /\ queue' = queue
  <2>1. section' = [q \in Proc |-> IF q = p THEN NoSection ELSE section[q]]
    BY <1>7 DEF Kill, TypeInv, IInv
  <2> QED BY <1>7, <2>1 DEF Kill, KeepInv
<1>8. ASSUME UNCHANGED <<queue, section, next>> PROVE KeepInv' /\ queue' = queue
  BY <1>8 DEF KeepInv
<1>9. ASSUME NEW p \in Proc, StartWorker(p) \/ NextBatch(p) \/ Drain(p) \/ Exit(p) \/ Start(p)
      PROVE  UNCHANGED <<queue, section, next>>
  BY <1>9 DEF StartWorker, NextBatch, Drain, Exit, Start, threads
<1>10. CASE Tick \/ UNCHANGED vars BY <1>8, <1>10 DEF Tick, threads, vars
<1> QED BY <1>1, <1>2, <1>3, <1>4, <1>5, <1>6, <1>7, <1>8, <1>9, <1>10 DEF Next, Coordinate

(* JobsKept: with one process after another nothing that was read is lost or
   reopened, by any kills, expired leases, sweeps and stale handlers; only a
   section whose read had failed drops jobs, and only a report ends one twice.
   Side by side two processes do lose jobs, so the assumption is needed. *)
THEOREM NothingReadIsLost == ASSUME ~Concurrent PROVE Spec => JobsKept
<1> DEFINE Inv == TypeInv /\ SerialInv /\ KeepInv
<1>1. Init => Inv
  <2> SUFFICES ASSUME Init PROVE KeepInv BY TypeInit, SerialInit
  <2>1. queue = NoItems /\ \A p \in Proc : section[p] = NoSection BY DEF Init
  <2> QED BY <2>1, EmptyHand DEF KeepInv, Below
<1>2. Inv /\ [Next]_vars => Inv' BY TypeNext, SerialNext, KeepNext
<1>3. Inv /\ [Next]_vars => [StepKeeps]_queue BY KeepNext
<1> QED BY <1>1, <1>2, <1>3, PTL DEF Spec, JobsKept, StepKeeps
-----------------------------------------------------------------------------
(* A lease is respected *)

\* A running job has an owner, which has been alive.
Owned(q) ==
  \A i \in DOMAIN q : q[i].status = "running" => q[i].owner \in Proc /\ life[q[i].owner] # "new"

\* Those of the jobs that run, p runs.
Mine(p, q, ids) == \A i \in ids \cap DOMAIN q : q[i].status = "running" => q[i].owner = p

\* p may put r in the place of q: a running job stays with its owner, is taken
\* back because its lease is over or its owner gone, or ended by its owner.
Respects(p, q, r, op, ids) ==
  \A i \in DOMAIN q \cap DOMAIN r : q[i].status = "running" =>
    \/ r[i].status = "running" /\ r[i].owner = q[i].owner
    \/ r[i].status = "pending" /\ Interrupted(q[i])
    \/ r[i].status \in Terminal /\ op \in Terminal /\ ids = {i} /\ q[i].owner = p

\* What a section is about to write respects the leases in the file, and its
\* coordinator has in hand, or may get or give back, no job that another runs.
SectionLease(p) ==
  LET s == section[p] IN
  /\ Owned(s.items)
  /\ Mine(p, s.items, DOMAIN batch[p])
  /\ Respects(p, queue, s.items, s.op, s.ids)
  /\ s.op \in Terminal => Mine(p, queue, s.ids)
  /\ s.op = "claim" => Mine(p, s.items, s.ids)

LeaseInv ==
  /\ Owned(queue)
  /\ \A p \in Proc : Mine(p, queue, DOMAIN batch[p])
  /\ \A p \in Proc : section[p] # NoSection => SectionLease(p)

\* What one step may do to a running job.
Moves(i) ==
  queue[i].status = "running" =>
    \/ queue'[i].status = "running" /\ queue'[i].owner = queue[i].owner
    \/ queue'[i].status = "pending" /\ Interrupted(queue[i])
    \/ queue'[i].status \in Terminal /\ Reports(queue[i].owner, i)

LeaseStep == \A i \in DOMAIN queue \cap DOMAIN queue' : Moves(i)

(* Recovery takes back interrupted jobs and leaves the rest alone. *)
LEMMA RecoveredItem ==
  ASSUME NEW q, NEW i \in DOMAIN q
  PROVE  /\ DOMAIN Recovered(q) = DOMAIN q
         /\ Recovered(q)[i] = IF Interrupted(q[i]) THEN Pending(q[i]) ELSE q[i]
BY DEF Recovered

LEMMA PendingIs == \A item : item \in Item => Pending(item).status = "pending"
BY DEF Pending, Item

(* A load respects the leases, and what the thread got is in the file. *)
LEMMA LoadLease ==
  ASSUME TypeInv, LeaseInv, NEW p \in Proc, NEW items, Load(p, items)
  PROVE  /\ Owned(queue') /\ Mine(p, queue', DOMAIN batch[p])
         /\ Respects(p, queue, queue', "recover", {})
         /\ \A i \in DOMAIN items : i \in DOMAIN queue' /\ items[i] = queue'[i]
         /\ section[p] = NoSection /\ life[p] = "up"
<1>1. section[p] = NoSection /\ life[p] = "up" BY DEF Load
<1>2. CASE items = Recovered(queue) /\ queue' = items
  <2>1. DOMAIN queue' = DOMAIN queue BY <1>2 DEF Recovered
  <2>2. ASSUME NEW i \in DOMAIN queue
        PROVE  \/ queue'[i] = queue[i]
               \/ queue'[i].status = "pending" /\ Interrupted(queue[i])
    <3>1. queue[i] \in Item BY DEF TypeInv, IInv, Sound
    <3> QED BY <1>2, <3>1, RecoveredItem, PendingIs
  <2>3. Owned(queue') /\ Mine(p, queue', DOMAIN batch[p]) BY <2>1, <2>2 DEF LeaseInv, Owned, Mine
  <2>4. Respects(p, queue, queue', "recover", {}) BY <2>1, <2>2 DEF Respects
  <2> QED BY <1>1, <1>2, <2>3, <2>4
<1>3. CASE items = NoItems /\ UNCHANGED queue
  <2>1. DOMAIN items = {} BY <1>3 DEF NoItems
  <2>2. Respects(p, queue, queue', "recover", {}) BY <1>3 DEF Respects
  <2>3. Owned(queue') /\ Mine(p, queue', DOMAIN batch[p]) BY <1>3 DEF LeaseInv, Owned
  <2> QED BY <1>1, <2>1, <2>2, <2>3
<1> QED BY <1>2, <1>3 DEF Load

LEMMA AloneInHand ==
  ASSUME SerialInv, NEW p \in Proc, life[p] = "up", NEW q \in Proc, q # p
  PROVE  DOMAIN batch[q] = {} /\ section[q] = NoSection
BY DEF SerialInv, OneAlive, IdleInv

\* Hands that are not filled by a step.
Lighter == \A q \in Proc : DOMAIN batch'[q] \subseteq DOMAIN batch[q]

LEMMA RestrictedIsLighter ==
  ASSUME TypeInv, NEW p \in Proc, NEW S, batch' = [batch EXCEPT ![p] = Restrict(@, DOMAIN @ \ S)]
  PROVE  Lighter
<1>1. HandsOK BY DEF TypeInv
<1>2. batch' = [q \in Proc |-> IF q = p THEN Restrict(batch[p], DOMAIN batch[p] \ S) ELSE batch[q]]
  BY <1>1 DEF HandsOK
<1>3. DOMAIN Restrict(batch[p], DOMAIN batch[p] \ S) = DOMAIN batch[p] \ S
  BY <1>1, RestrictedHand DEF HandsOK
<1> QED BY <1>2, <1>3 DEF Lighter

(* A section that plans nothing leaves what it loaded. *)
LEMMA OnlyLoadLease ==
  ASSUME TypeInv, SerialInv, LeaseInv, NEW p \in Proc, NEW items, Load(p, items),
         UNCHANGED <<section, life, now>>, Lighter
  PROVE  LeaseInv'
<1>1. /\ Owned(queue') /\ Mine(p, queue', DOMAIN batch[p])
      /\ section[p] = NoSection /\ life[p] = "up"
  BY LoadLease
<1>2. \A q \in Proc : q # p => DOMAIN batch[q] = {} /\ section[q] = NoSection BY <1>1, AloneInHand
<1>3. Owned(queue)' BY <1>1 DEF Owned
<1>4. \A q \in Proc : Mine(q, queue, DOMAIN batch[q])' BY <1>1, <1>2 DEF Mine, Lighter
<1> QED BY <1>1, <1>2, <1>3, <1>4 DEF LeaseInv

(* A plan that respects what was loaded respects the file. *)
LEMMA PlanLease ==
  ASSUME TypeInv, SerialInv, NEW p \in Proc, life[p] = "up", UNCHANGED <<life, now>>, Lighter,
         Owned(queue'), Mine(p, queue', DOMAIN batch[p]),
         NEW op, NEW ids, NEW new, Plan(p, op, ids, new),
         Owned(new), Mine(p, new, DOMAIN batch[p]), Respects(p, queue', new, op, ids),
         op \in Terminal => Mine(p, queue', ids),
         op = "claim" => Mine(p, new, ids)
  PROVE  LeaseInv'
<1> DEFINE s == [op |-> op, ids |-> ids, items |-> new, seen |-> faults' = faults]
<1>1. section' = [q \in Proc |-> IF q = p THEN s ELSE section[q]] BY DEF Plan, TypeInv, IInv
<1>2. s.op = op /\ s.ids = ids /\ s.items = new OBVIOUS
<1> HIDE DEF s
<1>3. \A q \in Proc : q # p => DOMAIN batch[q] = {} /\ section[q] = NoSection BY AloneInHand
<1>4. Owned(queue)' /\ \A q \in Proc : Mine(q, queue, DOMAIN batch[q])' BY <1>3 DEF Owned, Mine, Lighter
<1>5. SectionLease(p)'
  <2>1. section'[p] = s BY <1>1
  <2>2. \A i \in DOMAIN new : new[i].status = "running" =>
          new[i].owner \in Proc /\ life'[new[i].owner] # "new"
    BY DEF Owned
  <2>3. Mine(p, new, DOMAIN batch'[p]) BY DEF Mine, Lighter
  <2>4. ASSUME NEW item PROVE Interrupted(item)' <=> Interrupted(item) BY DEF Interrupted
  <2> QED BY <1>2, <2>1, <2>2, <2>3, <2>4 DEF SectionLease, Owned, Mine, Respects, Interrupted
<1> QED BY <1>1, <1>3, <1>4, <1>5 DEF LeaseInv

\* A load respects every lease, whatever is planned after it.
LEMMA LoadMoves == ASSUME NEW p \in Proc, Respects(p, queue, queue', "recover", {}) PROVE LeaseStep
BY DEF Respects, LeaseStep, Moves, Terminal

LEMMA EnqueueLease ==
  ASSUME TypeInv, SerialInv, KeepInv, LeaseInv, NEW p \in Proc, NEW check \in Check, Enqueue(p, check)
  PROVE  LeaseInv' /\ LeaseStep
<1> DEFINE item == [check |-> check, status |-> "pending",
                    updated |-> now, owner |-> NoProc, expires |-> 0]
           new(items) == [i \in DOMAIN items \cup {next} |-> IF i = next THEN item ELSE items[i]]
<1>1. PICK items \in Loads :
        Load(p, items) /\ (UNCHANGED section \/ Plan(p, "enqueue", {next}, new(items)))
  BY DEF Enqueue
<1>2. /\ Owned(queue') /\ Mine(p, queue', DOMAIN batch[p])
      /\ Respects(p, queue, queue', "recover", {})
      /\ \A i \in DOMAIN items : i \in DOMAIN queue' /\ items[i] = queue'[i]
      /\ life[p] = "up"
  BY <1>1, LoadLease
<1>3. UNCHANGED <<life, now>> /\ Lighter BY DEF Enqueue, Lighter
<1>4. LeaseStep BY <1>2, LoadMoves
<1>5. CASE UNCHANGED section BY <1>1, <1>3, <1>4, <1>5, OnlyLoadLease
<1>6. CASE Plan(p, "enqueue", {next}, new(items))
  <2>1. DOMAIN queue' = DOMAIN queue BY <1>1, LoadKeeps
  <2>2. next \notin DOMAIN queue'
    <3>1. next \in Nat BY DEF TypeInv, ControlOK
    <3> QED BY <2>1, <3>1 DEF KeepInv, Below
  <2>3. /\ DOMAIN new(items) = DOMAIN items \cup {next}
        /\ new(items)[next].status = "pending"
        /\ \A i \in DOMAIN items : i # next => new(items)[i] = items[i]
    OBVIOUS
  <2> HIDE DEF new, item
  <2>4. Owned(new(items)) /\ Mine(p, new(items), DOMAIN batch[p]) BY <1>2, <2>3 DEF Owned, Mine
  <2>5. Respects(p, queue', new(items), "enqueue", {next}) BY <1>2, <2>2, <2>3 DEF Respects
  <2>6. "enqueue" \notin Terminal BY DEF Terminal
  <2> QED BY <1>2, <1>3, <1>4, <1>6, <2>4, <2>5, <2>6, PlanLease
<1> QED BY <1>1, <1>5, <1>6

(* The sweep ends pending jobs, and takes back interrupted ones. *)
LEMMA RecoverLease ==
  ASSUME TypeInv, SerialInv, KeepInv, LeaseInv, NEW p \in Proc, Recover(p)
  PROVE  LeaseInv' /\ LeaseStep
<1> DEFINE late(i) == queue[i].status = "pending" /\ now - queue[i].updated >= PendingTTL
           swept == [i \in DOMAIN queue |->
                       IF late(i) THEN Ended(queue[i], "failed") ELSE Recovered(queue)[i]]
<1>1. /\ UNCHANGED <<queue, life, now>> /\ Lighter /\ life[p] = "up"
      /\ UNCHANGED section \/ Plan(p, "recover", {}, swept)
  BY DEF Recover, Lighter
<1>2. LeaseStep BY <1>1 DEF LeaseStep, Moves
<1>3. CASE UNCHANGED section
  <2>1. \A q \in Proc : section[q] # NoSection => SectionLease(q)'
    BY <1>1, <1>3 DEF LeaseInv, SectionLease, Owned, Mine, Respects, Interrupted, Lighter
  <2> QED BY <1>1, <1>2, <1>3, <2>1 DEF LeaseInv, Owned, Mine, Lighter
<1>4. CASE Plan(p, "recover", {}, swept)
  <2>1. ASSUME NEW i \in DOMAIN queue
        PROVE  \/ swept[i] = queue[i]
               \/ swept[i].status = "pending" /\ Interrupted(queue[i])
               \/ swept[i].status = "failed" /\ queue[i].status = "pending"
    <3>1. queue[i] \in Item BY DEF TypeInv, IInv, Sound
    <3>2. CASE late(i)
      <4>1. swept[i] = Ended(queue[i], "failed") BY <3>2
      <4> QED BY <3>1, <3>2, <4>1 DEF Ended, Item
    <3>3. CASE ~late(i)
      <4>1. swept[i] = Recovered(queue)[i] BY <3>3
      <4> HIDE DEF swept, late
      <4> QED BY <3>1, <4>1, RecoveredItem, PendingIs
    <3> QED BY <3>2, <3>3
  <2>2. DOMAIN swept = DOMAIN queue OBVIOUS
  <2> HIDE DEF swept
  <2>3. Owned(swept) /\ Mine(p, swept, DOMAIN batch[p]) BY <2>1, <2>2 DEF LeaseInv, Owned, Mine
  <2>4. Respects(p, queue', swept, "recover", {}) BY <1>1, <2>1, <2>2 DEF Respects
  <2>5. Owned(queue') /\ Mine(p, queue', DOMAIN batch[p]) BY <1>1 DEF LeaseInv
  <2>6. "recover" \notin Terminal BY DEF Terminal
  <2> QED BY <1>1, <1>2, <1>4, <2>3, <2>4, <2>5, <2>6, PlanLease
<1> QED BY <1>1, <1>3, <1>4

(* Pending jobs get an owner that is alive. *)
LEMMA ClaimLease ==
  ASSUME TypeInv, SerialInv, LeaseInv, NEW p \in Proc, Claim(p)
  PROVE  LeaseInv' /\ LeaseStep
<1> DEFINE run(item) == [item EXCEPT !.status = "running", !.updated = now,
                                     !.owner = p, !.expires = now + Lease]
           new(items) == [i \in DOMAIN items |-> IF i \in Oldest(items) THEN run(items[i]) ELSE items[i]]
<1>1. PICK items \in Loads :
        Load(p, items) /\ (UNCHANGED section \/ Plan(p, "claim", Oldest(items), new(items)))
  BY DEF Claim
<1>2. /\ Owned(queue') /\ Mine(p, queue', DOMAIN batch[p])
      /\ Respects(p, queue, queue', "recover", {})
      /\ \A i \in DOMAIN items : i \in DOMAIN queue' /\ items[i] = queue'[i]
      /\ life[p] = "up"
  BY <1>1, LoadLease
<1>3. UNCHANGED <<life, now>> /\ Lighter BY DEF Claim, Lighter
<1>4. LeaseStep BY <1>2, LoadMoves
<1>5. CASE UNCHANGED section BY <1>1, <1>3, <1>4, <1>5, OnlyLoadLease
<1>6. CASE Plan(p, "claim", Oldest(items), new(items))
  <2>1. ASSUME NEW i \in DOMAIN items
        PROVE  IF i \in Oldest(items)
               THEN items[i].status = "pending" /\ new(items)[i].owner = p
               ELSE new(items)[i] = items[i]
    <3>1. items[i] \in Item BY <1>1, LoadSound DEF TypeInv, Sound
    <3>2. CASE i \in Oldest(items)
      <4>1. items[i].status = "pending" BY <3>2 DEF Oldest
      <4>2. new(items)[i] = run(items[i]) BY <3>2
      <4> QED BY <3>1, <3>2, <4>1, <4>2 DEF Item
    <3>3. CASE i \notin Oldest(items) BY <3>3
    <3> QED BY <3>2, <3>3
  <2>2. DOMAIN new(items) = DOMAIN items OBVIOUS
  <2> HIDE DEF new
  <2>3. Owned(new(items)) /\ Mine(p, new(items), DOMAIN batch[p] \cup Oldest(items))
    BY <1>2, <2>1, <2>2 DEF Owned, Mine
  <2>4. Respects(p, queue', new(items), "claim", Oldest(items)) BY <1>2, <2>1, <2>2 DEF Respects
  <2>5. Mine(p, new(items), DOMAIN batch[p]) /\ Mine(p, new(items), Oldest(items)) BY <2>3 DEF Mine
  <2>6. "claim" \notin Terminal BY DEF Terminal
  <2> QED BY <1>2, <1>3, <1>4, <1>6, <2>3, <2>4, <2>5, <2>6, PlanLease
<1> QED BY <1>1, <1>5, <1>6

(* A handler ends a job its coordinator has in hand. *)
LEMMA UpdateLease ==
  ASSUME TypeInv, SerialInv, LeaseInv, NEW p \in Proc, NEW i \in Id, Update(p, i)
  PROVE  LeaseInv' /\ LeaseStep
<1> DEFINE new(items, outcome) == [items EXCEPT ![i] = Ended(@, outcome)]
<1>1. PICK items \in Loads, outcome \in Terminal :
        Load(p, items) /\ (IF i \notin DOMAIN items THEN UNCHANGED section
                           ELSE Plan(p, outcome, {i}, new(items, outcome)))
  BY DEF Update, Terminal
<1>2. /\ Owned(queue') /\ Mine(p, queue', DOMAIN batch[p])
      /\ Respects(p, queue, queue', "recover", {})
      /\ \A j \in DOMAIN items : j \in DOMAIN queue' /\ items[j] = queue'[j]
      /\ life[p] = "up"
  BY <1>1, LoadLease
<1>3. UNCHANGED <<life, now>> /\ Lighter /\ i \in DOMAIN batch[p] BY RestrictedIsLighter DEF Update
<1>4. LeaseStep BY <1>2, LoadMoves
<1>5. CASE i \notin DOMAIN items BY <1>1, <1>3, <1>4, <1>5, OnlyLoadLease
<1>6. CASE i \in DOMAIN items
  <2>1. items[i] \in Item BY <1>1, <1>6, LoadSound DEF TypeInv, Sound
  <2>2. /\ DOMAIN new(items, outcome) = DOMAIN items
        /\ new(items, outcome)[i] = Ended(items[i], outcome)
        /\ \A j \in DOMAIN items : j # i => new(items, outcome)[j] = items[j]
    BY <1>6
  <2> HIDE DEF new
  <2>3. new(items, outcome)[i].status \in Terminal /\ new(items, outcome)[i].status # "running"
    BY <2>1, <2>2 DEF Ended, Item, Terminal
  <2>4. Owned(new(items, outcome)) /\ Mine(p, new(items, outcome), DOMAIN batch[p])
    BY <1>2, <2>2, <2>3 DEF Owned, Mine
  <2>5. Mine(p, queue', {i}) BY <1>2, <1>3 DEF Mine
  <2>6. Respects(p, queue', new(items, outcome), outcome, {i})
    BY <1>2, <1>6, <2>2, <2>3, <2>5 DEF Respects, Mine
  <2>7. outcome # "claim" BY DEF Terminal
  <2> QED BY <1>1, <1>2, <1>3, <1>4, <1>6, <2>4, <2>5, <2>6, <2>7, PlanLease
<1> QED BY <1>5, <1>6

(* A heartbeat renews the leases of its own process. *)
LEMMA HeartbeatLease ==
  ASSUME TypeInv, SerialInv, LeaseInv, NEW p \in Proc, Heartbeat(p)
  PROVE  LeaseInv' /\ LeaseStep
<1> DEFINE mine(items) == {i \in DOMAIN items \cap claimed[p] :
                             items[i].status = "running" /\ items[i].owner = p}
           renewed(item) == [item EXCEPT !.updated = now, !.expires = now + Lease]
           new(items) == [i \in DOMAIN items |-> IF i \in mine(items) THEN renewed(items[i]) ELSE items[i]]
<1>1. PICK items \in Loads :
        Load(p, items) /\ (UNCHANGED section \/ Plan(p, "heartbeat", mine(items), new(items)))
  BY DEF Heartbeat
<1>2. /\ Owned(queue') /\ Mine(p, queue', DOMAIN batch[p])
      /\ Respects(p, queue, queue', "recover", {})
      /\ \A i \in DOMAIN items : i \in DOMAIN queue' /\ items[i] = queue'[i]
      /\ life[p] = "up"
  BY <1>1, LoadLease
<1>3. UNCHANGED <<life, now>> /\ Lighter BY DEF Heartbeat, Lighter, threads
<1>4. LeaseStep BY <1>2, LoadMoves
<1>5. CASE UNCHANGED section BY <1>1, <1>3, <1>4, <1>5, OnlyLoadLease
<1>6. CASE Plan(p, "heartbeat", mine(items), new(items))
  <2>1. ASSUME NEW i \in DOMAIN items
        PROVE  new(items)[i].status = items[i].status /\ new(items)[i].owner = items[i].owner
    <3>1. items[i] \in Item BY <1>1, LoadSound DEF TypeInv, Sound
    <3>2. new(items)[i] = renewed(items[i]) \/ new(items)[i] = items[i] OBVIOUS
    <3> HIDE DEF new, mine
    <3> QED BY <3>1, <3>2 DEF Item
  <2>2. DOMAIN new(items) = DOMAIN items OBVIOUS
  <2> HIDE DEF new, mine
  <2>3. Owned(new(items)) /\ Mine(p, new(items), DOMAIN batch[p]) BY <1>2, <2>1, <2>2 DEF Owned, Mine
  <2>4. Respects(p, queue', new(items), "heartbeat", mine(items)) BY <1>2, <2>1, <2>2 DEF Respects
  <2>5. "heartbeat" \notin Terminal BY DEF Terminal
  <2> QED BY <1>2, <1>3, <1>4, <1>6, <2>3, <2>4, <2>5, PlanLease
<1> QED BY <1>1, <1>5, <1>6

LEMMA InTheHand ==
  ASSUME batch = [q \in Proc |-> batch[q]], NEW p \in Proc, NEW b, batch' = [batch EXCEPT ![p] = b]
  PROVE  batch'[p] = b /\ \A q \in Proc : q # p => batch'[q] = batch[q]
OBVIOUS

(* The file becomes what the section made of it, or stays. *)
LEMMA WriteLease ==
  ASSUME TypeInv, SerialInv, LeaseInv, NEW p \in Proc, Write(p)
  PROVE  LeaseInv' /\ LeaseStep
<1> DEFINE s == section[p]
<1>1. section[p] # NoSection /\ UNCHANGED <<life, now>> BY DEF Write
<1>2. section' = [q \in Proc |-> IF q = p THEN NoSection ELSE section[q]]
  BY DEF Write, TypeInv, IInv
<1>3. life[p] = "up" BY <1>1 DEF SerialInv, IdleInv
<1>4. \A q \in Proc : q # p => DOMAIN batch[q] = {} /\ section[q] = NoSection BY <1>3, AloneInHand
<1>5. \A q \in Proc : section'[q] = NoSection BY <1>2, <1>4
<1>6. /\ Owned(queue) /\ Mine(p, queue, DOMAIN batch[p])
      /\ Owned(s.items) /\ Mine(p, s.items, DOMAIN batch[p])
      /\ Respects(p, queue, s.items, s.op, s.ids)
      /\ s.op \in Terminal => Mine(p, queue, s.ids)
      /\ s.op = "claim" => Mine(p, s.items, s.ids)
  BY <1>1 DEF LeaseInv, SectionLease
<1>7. batch = [q \in Proc |-> batch[q]] BY DEF TypeInv, HandsOK
<1>8. CASE queue' = s.items /\ Written(p, s)
  <2>1. Owned(queue)' BY <1>1, <1>6, <1>8 DEF Owned
  <2>2. \/ batch' = batch
        \/ s.op = "claim" /\ batch' = [batch EXCEPT ![p] = [i \in s.ids |-> InHand(s.items[i], FALSE)]]
    BY <1>8 DEF Written
  <2>3. \/ batch' = batch
        \/ /\ s.op = "claim" /\ DOMAIN batch'[p] = s.ids
           /\ \A q \in Proc : q # p => batch'[q] = batch[q]
    <3> DEFINE hand == [i \in s.ids |-> InHand(s.items[i], FALSE)]
    <3>1. DOMAIN hand = s.ids OBVIOUS
    <3>2. \/ batch' = batch
          \/ s.op = "claim" /\ batch' = [batch EXCEPT ![p] = hand]
      BY <2>2
    <3> HIDE DEF hand, s
    <3> QED BY <1>7, <3>1, <3>2, InTheHand
  <2>4. \A q \in Proc : q # p => DOMAIN batch'[q] = {} BY <1>4, <2>3
  <2>5. Mine(p, queue, DOMAIN batch[p])' BY <1>6, <1>8, <2>3
  <2>6. \A q \in Proc : Mine(q, queue, DOMAIN batch[q])' BY <2>4, <2>5 DEF Mine
  <2>7. ASSUME NEW i \in DOMAIN queue \cap DOMAIN queue', queue[i].status = "running"
        PROVE  Moves(i)
    <3>1. Respects(p, queue, queue', s.op, s.ids) BY <1>6, <1>8
    <3>2. \/ queue'[i].status = "running" /\ queue'[i].owner = queue[i].owner
          \/ queue'[i].status = "pending" /\ Interrupted(queue[i])
          \/ queue'[i].status \in Terminal /\ s.op \in Terminal /\ s.ids = {i} /\ queue[i].owner = p
      BY <2>7, <3>1 DEF Respects
    <3> QED BY <1>1, <3>2 DEF Moves, Reports
  <2>8. LeaseStep BY <2>7 DEF LeaseStep, Moves
  <2> QED BY <1>5, <2>1, <2>6, <2>8 DEF LeaseInv
<1>9. CASE queue' = queue /\ NotWritten(p, s)
  <2>1. Owned(queue)' BY <1>1, <1>6, <1>9 DEF Owned
  <2>2. \/ batch' = batch
        \/ /\ s.op = "completed"
           /\ batch' = [batch EXCEPT ![p] = [i \in DOMAIN @ \cup s.ids |->
                                               IF i \in s.ids THEN InHand(s.items[i], TRUE) ELSE @[i]]]
    BY <1>9 DEF NotWritten
  <2>3. \/ batch' = batch
        \/ /\ s.op \in Terminal /\ DOMAIN batch'[p] = DOMAIN batch[p] \cup s.ids
           /\ \A q \in Proc : q # p => batch'[q] = batch[q]
    <3> DEFINE hand == [i \in DOMAIN batch[p] \cup s.ids |->
                          IF i \in s.ids THEN InHand(s.items[i], TRUE) ELSE batch[p][i]]
    <3>1. DOMAIN hand = DOMAIN batch[p] \cup s.ids OBVIOUS
    <3>2. \/ batch' = batch
          \/ s.op = "completed" /\ batch' = [batch EXCEPT ![p] = hand]
      BY <2>2
    <3>3. "completed" \in Terminal BY DEF Terminal
    <3> HIDE DEF hand, s
    <3> QED BY <1>7, <3>1, <3>2, <3>3, InTheHand
  <2>4. \A q \in Proc : q # p => DOMAIN batch'[q] = {} BY <1>4, <2>3
  <2>5. Mine(p, queue, DOMAIN batch[p])' BY <1>6, <1>9, <2>3 DEF Mine
  <2>6. \A q \in Proc : Mine(q, queue, DOMAIN batch[q])' BY <2>4, <2>5 DEF Mine
  <2>7. LeaseStep BY <1>9 DEF LeaseStep, Moves
  <2> QED BY <1>5, <2>1, <2>6, <2>7 DEF LeaseInv
<1> QED BY <1>8, <1>9 DEF Write

(* A step that leaves the file and plans nothing: time goes on, processes come
   and go, and what was interrupted stays so. *)
LEMMA QuietLease ==
  ASSUME TypeInv, LeaseInv, UNCHANGED queue, Lighter,
         \A q \in Proc : section'[q] \in {section[q], NoSection},
         now' \in Nat, now' >= now,
         \A q \in Proc : /\ life[q] # "new" => life'[q] # "new"
                         /\ life[q] = "dead" => life'[q] = "dead"
  PROVE  LeaseInv' /\ LeaseStep
<1>1. Owned(queue) /\ \A q \in Proc : Mine(q, queue, DOMAIN batch[q]) BY DEF LeaseInv
<1>2. Owned(queue)' BY <1>1 DEF Owned
<1>3. \A q \in Proc : Mine(q, queue, DOMAIN batch[q])' BY <1>1 DEF Mine, Lighter
<1>4. ASSUME NEW i \in DOMAIN queue, Interrupted(queue[i]) PROVE Interrupted(queue[i])'
  <2>1. queue[i].expires \in Int /\ now \in Int BY DEF TypeInv, IInv, Sound, Item
  <2>2. queue[i].status = "running" /\ queue[i].owner \in Proc /\ life[queue[i].owner] # "new"
    BY <1>1, <1>4 DEF Interrupted, Owned
  <2>3. life \in [Proc -> {"new", "up", "dead"}] BY DEF TypeInv, ControlOK
  <2>4. CASE life[queue[i].owner] # "up"
    <3>1. life[queue[i].owner] = "dead" BY <2>2, <2>3, <2>4
    <3>2. life'[queue[i].owner] = "dead" BY <2>2, <3>1
    <3> QED BY <2>2, <3>2 DEF Interrupted
  <2>5. CASE now >= queue[i].expires
    <3>1. now' >= queue[i].expires BY <2>1, <2>5
    <3> QED BY <2>2, <3>1 DEF Interrupted
  <2> QED BY <1>4, <2>4, <2>5 DEF Interrupted
<1>5. ASSUME NEW q \in Proc, section'[q] # NoSection PROVE SectionLease(q)'
  <2>1. section'[q] = section[q] /\ SectionLease(q) BY <1>5 DEF LeaseInv
  <2>2. Owned(section[q].items)' BY <2>1 DEF SectionLease, Owned
  <2>3. Mine(q, section[q].items, DOMAIN batch[q])' BY <2>1 DEF SectionLease, Mine, Lighter
  <2>4. Respects(q, queue, section[q].items, section[q].op, section[q].ids)'
    BY <1>4, <2>1 DEF SectionLease, Respects
  <2> QED BY <2>1, <2>2, <2>3, <2>4 DEF SectionLease, Mine
<1>6. LeaseStep BY DEF LeaseStep, Moves
<1> QED BY <1>2, <1>3, <1>5, <1>6 DEF LeaseInv

LEMMA LeaseNext ==
  ASSUME TypeInv, SerialInv, KeepInv, LeaseInv, [Next]_vars
  PROVE  LeaseInv' /\ LeaseStep
<1>1. ASSUME NEW p \in Proc, NEW check \in Check, Enqueue(p, check) PROVE LeaseInv' /\ LeaseStep
  BY <1>1, EnqueueLease
<1>2. ASSUME NEW p \in Proc, Recover(p) PROVE LeaseInv' /\ LeaseStep BY <1>2, RecoverLease
<1>3. ASSUME NEW p \in Proc, Claim(p) PROVE LeaseInv' /\ LeaseStep BY <1>3, ClaimLease
<1>4. ASSUME NEW p \in Proc, NEW i \in Id, Update(p, i) PROVE LeaseInv' /\ LeaseStep
  BY <1>4, UpdateLease
<1>5. ASSUME NEW p \in Proc, Heartbeat(p) PROVE LeaseInv' /\ LeaseStep BY <1>5, HeartbeatLease
<1>6. ASSUME NEW p \in Proc, Write(p) PROVE LeaseInv' /\ LeaseStep BY <1>6, WriteLease
<1>7. now \in Nat /\ life \in [Proc -> {"new", "up", "dead"}] BY DEF TypeInv, ControlOK
<1>8. ASSUME NEW p \in Proc, Kill(p) PROVE LeaseInv' /\ LeaseStep
  <2>1. section' = [q \in Proc |-> IF q = p THEN NoSection ELSE section[q]]
    BY <1>8 DEF Kill, TypeInv, IInv
  <2>2. batch' = [q \in Proc |-> IF q = p THEN NoItems ELSE batch[q]]
    BY <1>8 DEF Kill, TypeInv, HandsOK
  <2>3. Lighter BY <2>2, EmptyHand DEF Lighter
  <2>4. UNCHANGED <<queue, now>> /\ life' = [life EXCEPT ![p] = "dead"] BY <1>8 DEF Kill
  <2>5. \A q \in Proc : /\ life[q] # "new" => life'[q] # "new"
                        /\ life[q] = "dead" => life'[q] = "dead"
    BY <1>7, <2>4
  <2>6. \A q \in Proc : section'[q] \in {section[q], NoSection} BY <2>1
  <2> QED BY <1>7, <2>3, <2>4, <2>5, <2>6, QuietLease
<1>9. ASSUME NEW p \in Proc, Start(p) PROVE LeaseInv' /\ LeaseStep
  <2>1. /\ UNCHANGED <<queue, section, batch, now>>
        /\ life[p] = "new" /\ life' = [life EXCEPT ![p] = "up"]
    BY <1>9 DEF Start, threads
  <2>2. \A q \in Proc : /\ life[q] # "new" => life'[q] # "new"
                        /\ life[q] = "dead" => life'[q] = "dead"
    BY <1>7, <2>1
  <2> QED BY <1>7, <2>1, <2>2, QuietLease DEF Lighter
<1>10. ASSUME UNCHANGED <<queue, section, life, now>>, Lighter PROVE LeaseInv' /\ LeaseStep
  BY <1>7, <1>10, QuietLease
<1>11. ASSUME NEW p \in Proc, Drain(p) PROVE LeaseInv' /\ LeaseStep
  <2>1. UNCHANGED <<queue, section, life, now>> BY <1>11 DEF Drain
  <2>2. Lighter
    <3>1. CASE UNCHANGED batch BY <3>1 DEF Lighter
    <3>2. CASE \E i \in DOMAIN batch[p] : batch' = [batch EXCEPT ![p] = Restrict(@, DOMAIN @ \ {i})]
      BY <3>2, RestrictedIsLighter
    <3> QED BY <1>11, <3>1, <3>2 DEF Drain
  <2> QED BY <1>10, <2>1, <2>2
<1>12. ASSUME NEW p \in Proc, StartWorker(p) \/ NextBatch(p) \/ Exit(p) PROVE LeaseInv' /\ LeaseStep
  <2>1. UNCHANGED <<queue, section, life, batch, now>> BY <1>12 DEF StartWorker, NextBatch, Exit
  <2> QED BY <1>10, <2>1 DEF Lighter
<1>13. CASE Tick
  <2>1. UNCHANGED <<queue, section, life, batch>> /\ now' = now + 1 BY <1>13 DEF Tick, threads
  <2> QED BY <1>7, <2>1, QuietLease DEF Lighter
<1>14. CASE UNCHANGED vars BY <1>10, <1>14 DEF vars, Lighter
<1> QED BY <1>1, <1>2, <1>3, <1>4, <1>5, <1>6, <1>8, <1>9, <1>11, <1>12, <1>13, <1>14 DEF Next, Coordinate

(* A lease is respected: with one process after another a running job stays
   with the process that claimed it, is made pending again only when its lease
   is over or that process is gone (Recovered), and is ended only by the report
   of a handler of that process (_update): no batch that outlived its lease
   ends or renews a job another process has claimed since.  That no job goes
   missing is JobsKept. *)
THEOREM LeaseIsRespected == ASSUME ~Concurrent PROVE Spec => [][LeaseStep]_queue
<1> DEFINE Inv == TypeInv /\ SerialInv /\ KeepInv /\ LeaseInv
<1>1. Init => Inv
  <2> SUFFICES ASSUME Init PROVE KeepInv /\ LeaseInv BY TypeInit, SerialInit
  <2>1. /\ queue = NoItems
        /\ \A p \in Proc : section[p] = NoSection /\ batch[p] = NoItems
    BY DEF Init
  <2> QED BY <2>1, EmptyHand DEF KeepInv, Below, LeaseInv, Owned, Mine
<1>2. Inv /\ [Next]_vars => Inv' BY TypeNext, SerialNext, KeepNext, LeaseNext
<1>3. Inv /\ [Next]_vars => [LeaseStep]_queue BY LeaseNext
<1> QED BY <1>1, <1>2, <1>3, PTL DEF Spec
=============================================================================
