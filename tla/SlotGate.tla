------------------------------- MODULE SlotGate -------------------------------
(***************************************************************************)
(* CrossProcessSemaphore (sms_tool/cross_process_gate.py): a counting      *)
(* semaphore kept in the file system.  A permit is an exclusive OS lock on *)
(* one of Limit slot files.  The model keeps what the lock is really       *)
(* attached to: the inode a handle was opened on, not the name.  A gate    *)
(* whose name is unique per operation is ephemeral: its owner unlinks the  *)
(* slot files and the directory after releasing (discard).                 *)
(*                                                                         *)
(* Each process has one gate object.  Its RLock lets one thread at a time  *)
(* scan, so one program counter per process is enough; the threads that    *)
(* wait are counted.  release() pops the last handle; which of its own     *)
(* handles a process gives back is left open here.                         *)
(***************************************************************************)
EXTENDS Naturals, FiniteSets

CONSTANTS
  Proc,        \* processes using the same gate directory
  Inode,       \* file identities (recycled once nothing refers to them)
  None,        \* no inode, no process
  Limit,       \* number of slot files
  Ephemeral,   \* the owner discards the gate after releasing it
  Posix,       \* unlink succeeds while a handle is open (Windows refuses it)
  MaxCalls     \* bound: acquire calls each process makes

ASSUME SlotGateAssumption ==
  /\ Limit \in Nat \ {0}
  /\ None \notin Inode \cup Proc
  /\ Ephemeral \in BOOLEAN
  /\ Posix \in BOOLEAN
  /\ MaxCalls \in Nat

Slot == 1 .. Limit

VARIABLES
  dir,       \* the gate directory exists
  file,      \* file[s]: inode the name slot-s.lock is linked to, or None
  owner,     \* owner[i]: process holding the OS lock on inode i, or None
  pc,        \* pc[p]: where the thread of p that holds the RLock is
  slot,      \* slot[p]: loop variable of the scan or of discard
  opened,    \* opened[p]: inode just opened and not yet locked, or None
  waiting,   \* waiting[p]: threads of p inside acquire
  calls      \* calls[p]: acquire calls made so far

vars == <<dir, file, owner, pc, slot, opened, waiting, calls>>

Held(p) == {i \in Inode : owner[i] = p}

Linked == {i \in Inode : \E s \in Slot : file[s] = i}

\* Mutant of InUse: handles are shared for deletion until they are locked.
InUseLocked(i) == owner[i] # None

\* Inodes some process has a handle on: a locked handle or one still in hand.
InUse(i) == owner[i] # None \/ \E p \in Proc : opened[p] = i

Fresh == {i \in Inode : i \notin Linked /\ ~InUse(i)}

PC == {"free", "open", "mkdir", "reopen", "lock", "missed", "unlink", "rmdir"}

TypeOK ==
  /\ dir \in BOOLEAN
  /\ file \in [Slot -> Inode \cup {None}]
  /\ owner \in [Inode -> Proc \cup {None}]
  /\ pc \in [Proc -> PC]
  /\ slot \in [Proc -> Slot]
  /\ opened \in [Proc -> Inode \cup {None}]
  /\ waiting \in [Proc -> Nat]
  /\ calls \in [Proc -> Nat]

Init ==
  /\ dir = ~Ephemeral
  /\ file = [s \in Slot |-> None]
  /\ owner = [i \in Inode |-> None]
  /\ pc = [p \in Proc |-> "free"]
  /\ slot = [p \in Proc |-> 1]
  /\ opened = [p \in Proc |-> None]
  /\ waiting = [p \in Proc |-> 0]
  /\ calls = [p \in Proc |-> 0]

Goto(p, label) == pc' = [pc EXCEPT ![p] = label]

\* `continue' of the for loop over the slots.
NextSlot(p) ==
  \/ /\ slot[p] < Limit
     /\ slot' = [slot EXCEPT ![p] = @ + 1]
     /\ Goto(p, "open")
  \/ /\ slot[p] = Limit
     /\ slot' = [slot EXCEPT ![p] = 1]
     /\ Goto(p, "missed")

\* A thread enters acquire.  An ephemeral gate is constructed for this one
\* call, and the constructor makes the directory.
Arrive(p) ==
  /\ calls[p] < MaxCalls
  /\ Ephemeral => pc[p] = "free" /\ waiting[p] = 0 /\ Held(p) = {}
  /\ calls' = [calls EXCEPT ![p] = @ + 1]
  /\ waiting' = [waiting EXCEPT ![p] = @ + 1]
  /\ dir' = (dir \/ Ephemeral)
  /\ UNCHANGED <<file, owner, pc, slot, opened>>

\* A waiting thread takes the RLock; it scans unless its process has them all.
BeginScan(p) ==
  /\ pc[p] = "free"
  /\ waiting[p] > 0
  /\ IF Cardinality(Held(p)) >= Limit THEN Goto(p, "missed") ELSE Goto(p, "open")
  /\ UNCHANGED <<dir, file, owner, slot, opened, waiting, calls>>

\* Mutant of OpenSlot: no directory, next slot, as before the re-create.
OpenSlotNoMkdir(p) ==
  /\ pc[p] \in {"open", "reopen"}
  /\ \/ /\ dir
        /\ file[slot[p]] # None
        /\ opened' = [opened EXCEPT ![p] = file[slot[p]]]
        /\ Goto(p, "lock")
        /\ UNCHANGED <<file, slot>>
     \/ /\ dir
        /\ file[slot[p]] = None
        /\ \E i \in Fresh : /\ file' = [file EXCEPT ![slot[p]] = i]
                            /\ opened' = [opened EXCEPT ![p] = i]
        /\ Goto(p, "lock")
        /\ UNCHANGED slot
     \/ ~dir /\ NextSlot(p) /\ UNCHANGED <<file, opened>>
  /\ UNCHANGED <<dir, owner, waiting, calls>>

\* open(path, "a+b") finds the file or creates it; without the directory it
\* fails, the first time to create the directory, the second time to move on.
OpenSlot(p) ==
  /\ pc[p] \in {"open", "reopen"}
  /\ \/ /\ dir
        /\ file[slot[p]] # None
        /\ opened' = [opened EXCEPT ![p] = file[slot[p]]]
        /\ Goto(p, "lock")
        /\ UNCHANGED <<file, slot>>
     \/ /\ dir
        /\ file[slot[p]] = None
        /\ \E i \in Fresh : /\ file' = [file EXCEPT ![slot[p]] = i]
                            /\ opened' = [opened EXCEPT ![p] = i]
        /\ Goto(p, "lock")
        /\ UNCHANGED slot
     \/ /\ ~dir
        /\ pc[p] = "open"
        /\ Goto(p, "mkdir")
        /\ UNCHANGED <<file, slot, opened>>
     \/ /\ ~dir
        /\ pc[p] = "reopen"
        /\ NextSlot(p)
        /\ UNCHANGED <<file, opened>>
  /\ UNCHANGED <<dir, owner, waiting, calls>>

MakeDir(p) ==
  /\ pc[p] = "mkdir"
  /\ dir' = TRUE
  /\ Goto(p, "reopen")
  /\ UNCHANGED <<file, owner, slot, opened, waiting, calls>>

\* Mutant of LockSlot: a lock that does not exclude the others.
LockSlotShared(p) ==
  /\ pc[p] = "lock"
  /\ owner' = [owner EXCEPT ![opened[p]] = p]
  /\ opened' = [opened EXCEPT ![p] = None]
  /\ waiting' = [waiting EXCEPT ![p] = @ - 1]
  /\ slot' = [slot EXCEPT ![p] = 1]
  /\ Goto(p, "free")
  /\ UNCHANGED <<dir, file, calls>>

\* _lock_byte without blocking: the permit, or close the handle and go on.
LockSlot(p) ==
  /\ pc[p] = "lock"
  /\ opened' = [opened EXCEPT ![p] = None]
  /\ \/ /\ owner[opened[p]] = None
        /\ owner' = [owner EXCEPT ![opened[p]] = p]
        /\ waiting' = [waiting EXCEPT ![p] = @ - 1]
        /\ slot' = [slot EXCEPT ![p] = 1]
        /\ Goto(p, "free")
     \/ /\ owner[opened[p]] # None
        /\ NextSlot(p)
        /\ UNCHANGED <<owner, waiting>>
  /\ UNCHANGED <<dir, file, calls>>

\* No slot this round and the deadline is not over: sleep, then scan again.
Retry(p) ==
  /\ pc[p] = "missed"
  /\ Goto(p, "free")
  /\ UNCHANGED <<dir, file, owner, slot, opened, waiting, calls>>

\* Mutant of Expire: the thread that gives up is uncounted twice.
ExpireUncounted(p) ==
  /\ pc[p] = "missed"
  /\ Goto(p, "free")
  /\ waiting' = [waiting EXCEPT ![p] = @ - 2]
  /\ UNCHANGED <<dir, file, owner, slot, opened, calls>>

\* No slot this round and the deadline is over: GateTimeoutError.
Expire(p) ==
  /\ pc[p] = "missed"
  /\ Goto(p, "free")
  /\ waiting' = [waiting EXCEPT ![p] = @ - 1]
  /\ UNCHANGED <<dir, file, owner, slot, opened, calls>>

\* release(), followed by discard() when the gate is ephemeral.
Release(p) ==
  /\ pc[p] = "free"
  /\ \E i \in Held(p) : owner' = [owner EXCEPT ![i] = None]
  /\ IF Ephemeral THEN Goto(p, "unlink") ELSE UNCHANGED pc
  /\ UNCHANGED <<dir, file, slot, opened, waiting, calls>>

\* One unlink of discard(); OSError (a missing name, or a handle open on
\* Windows) is suppressed.
Unlink(p) ==
  LET s == slot[p] IN
  /\ pc[p] = "unlink"
  /\ IF file[s] # None /\ (Posix \/ ~InUse(file[s]))
     THEN file' = [file EXCEPT ![s] = None]
     ELSE UNCHANGED file
  /\ \/ s < Limit /\ slot' = [slot EXCEPT ![p] = s + 1] /\ UNCHANGED pc
     \/ s = Limit /\ slot' = [slot EXCEPT ![p] = 1] /\ Goto(p, "rmdir")
  /\ UNCHANGED <<dir, owner, opened, waiting, calls>>

\* rmdir refuses a directory that is not empty.
RemoveDir(p) ==
  /\ pc[p] = "rmdir"
  /\ dir' = (dir /\ Linked # {})
  /\ Goto(p, "free")
  /\ UNCHANGED <<file, owner, slot, opened, waiting, calls>>

\* The process dies: the OS closes its handles and drops its locks.
Crash(p) ==
  /\ pc[p] # "free" \/ waiting[p] > 0 \/ Held(p) # {}
  /\ owner' = [i \in Inode |-> IF owner[i] = p THEN None ELSE owner[i]]
  /\ opened' = [opened EXCEPT ![p] = None]
  /\ waiting' = [waiting EXCEPT ![p] = 0]
  /\ slot' = [slot EXCEPT ![p] = 1]
  /\ Goto(p, "free")
  /\ UNCHANGED <<dir, file, calls>>

\* The steps a live process takes once it is inside acquire or discard.
Step(p) ==
  \/ BeginScan(p) \/ OpenSlot(p) \/ MakeDir(p) \/ LockSlot(p) \/ Retry(p)
  \/ Unlink(p) \/ RemoveDir(p)

Next == \E p \in Proc : Arrive(p) \/ Step(p) \/ Expire(p) \/ Release(p) \/ Crash(p)

Spec == Init /\ [][Next]_vars

\* A live thread keeps polling and a holder gives its permit back in the end;
\* nothing is assumed about arrivals, deadlines or crashes.
FairSpec == Spec /\ \A p \in Proc : WF_vars(Step(p)) /\ WF_vars(Release(p))

-----------------------------------------------------------------------------
(* The cap of the gate holds across every process on the machine, whatever
   the interleaving of scans, unlinks of discard() and crashes. *)
CapHolds == Cardinality({i \in Inode : owner[i] # None}) <= Limit

\* A permit is the inode whose lock a process has.
Sem == INSTANCE Semaphore WITH Permit <- Inode, held <- [p \in Proc |-> Held(p)]

(* The slot files implement the counting semaphore: a permit appears only
   while fewer than Limit exist, no permit is in two processes, and every scan,
   unlink and rmdir step is invisible to the callers of acquire and release. *)
ImplementsSemaphore == Sem!Spec

(* A waiter is always served or times out: a discard() by the owner that
   removes the directory under it must not leave it polling for ever. *)
WaiterServed == \A p \in Proc : waiting[p] > 0 ~> waiting[p] = 0
=============================================================================
