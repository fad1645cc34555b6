--------------------------- MODULE SlotGateProofs ---------------------------
(***************************************************************************)
(* Proofs about SlotGate for any processes, limit and number of calls.     *)
(* The cap rests on one fact about inodes: whatever a process has locked,  *)
(* or has open and is about to lock, is still linked under a slot name, so *)
(* no more inodes are locked than there are names.  discard() on POSIX is  *)
(* what breaks it, hence the assumption of the theorem.                    *)
(***************************************************************************)
EXTENDS SlotGate, FiniteSetTheorems, TLAPS

Scanning == {"open", "mkdir", "reopen", "lock", "missed"}

\* A scanning thread is counted, and has a handle exactly when it is to lock it.
ScanInv ==
  \A p \in Proc : /\ pc[p] \in Scanning => waiting[p] > 0
                  /\ pc[p] = "lock" <=> opened[p] # None

\* No name is removed from a file that is open or locked.
LinkInv == \A i \in Inode : InUse(i) => i \in Linked

KeepsLinks == ~Ephemeral \/ ~Posix

\* A reused gate is never discarded.
DiscardInv == \A p \in Proc : pc[p] \in {"unlink", "rmdir"} => Ephemeral

GateTypeInv == TypeOK /\ ScanInv /\ DiscardInv

-----------------------------------------------------------------------------
LEMMA GateTypeInit == Init => GateTypeInv
  BY SlotGateAssumption DEF Init, GateTypeInv, TypeOK, ScanInv, DiscardInv, Slot, PC, Scanning

\* The loop over the slots stays within them.
LEMMA NextSlotType ==
  ASSUME TypeOK, NEW p \in Proc, NextSlot(p)
  PROVE  pc' \in [Proc -> PC] /\ slot' \in [Proc -> Slot]
<1>1. slot[p] \in Slot
  BY DEF TypeOK
<1>2. CASE slot[p] < Limit
  <2>1. slot[p] + 1 \in Slot
    BY <1>1, <1>2, SlotGateAssumption DEF Slot
  <2>2. slot' = [slot EXCEPT ![p] = slot[p] + 1] /\ Goto(p, "open")
    BY <1>2, SlotGateAssumption DEF NextSlot
  <2> QED
    BY <2>1, <2>2 DEF TypeOK, PC, Goto
<1>3. CASE slot[p] = Limit
  <2>1. 1 \in Slot
    BY SlotGateAssumption DEF Slot
  <2>2. slot' = [slot EXCEPT ![p] = 1] /\ Goto(p, "missed")
    BY <1>3, SlotGateAssumption DEF NextSlot
  <2> QED
    BY <2>1, <2>2 DEF TypeOK, PC, Goto
<1> QED
  BY <1>2, <1>3 DEF NextSlot

LEMMA TypeNext == GateTypeInv /\ [Next]_vars => TypeOK'
<1> SUFFICES ASSUME TypeOK, ScanInv, [Next]_vars PROVE TypeOK'
  BY DEF GateTypeInv
<1> USE DEF TypeOK, Goto
<1>0. 1 \in Slot /\ Limit \in Slot
  BY SlotGateAssumption DEF Slot
<1>1. ASSUME NEW p \in Proc, Arrive(p) PROVE TypeOK'
  BY <1>1, SlotGateAssumption DEF Arrive
<1>2. ASSUME NEW p \in Proc, BeginScan(p) \/ MakeDir(p) \/ Retry(p) \/ RemoveDir(p)
      PROVE  TypeOK'
  BY <1>2 DEF BeginScan, MakeDir, Retry, RemoveDir, PC
<1>3. ASSUME NEW p \in Proc, OpenSlot(p) PROVE TypeOK'
  <2>0. UNCHANGED <<dir, owner, waiting, calls>> /\ slot[p] \in Slot
    BY <1>3 DEF OpenSlot
  <2>1. CASE dir /\ file[slot[p]] # None
    <3>1. /\ opened' = [opened EXCEPT ![p] = file[slot[p]]] /\ UNCHANGED <<file, slot>>
          /\ pc' = [pc EXCEPT ![p] = "lock"]
      BY <1>3, <2>1 DEF OpenSlot
    <3> QED
      BY <2>0, <3>1 DEF PC
  <2>2. CASE dir /\ file[slot[p]] = None
    <3>1. PICK i \in Fresh : /\ file' = [file EXCEPT ![slot[p]] = i]
                             /\ opened' = [opened EXCEPT ![p] = i]
      BY <1>3, <2>2 DEF OpenSlot
    <3>2. pc' = [pc EXCEPT ![p] = "lock"] /\ UNCHANGED slot
      BY <1>3, <2>2 DEF OpenSlot
    <3>3. i \in Inode
      BY DEF Fresh
    <3> QED
      BY <2>0, <3>1, <3>2, <3>3 DEF PC
  <2>3. CASE ~dir /\ pc[p] = "open"
    <3>1. pc' = [pc EXCEPT ![p] = "mkdir"] /\ UNCHANGED <<file, slot, opened>>
      BY <1>3, <2>3 DEF OpenSlot
    <3> QED
      BY <2>0, <3>1 DEF PC
  <2>4. CASE ~dir /\ pc[p] # "open"
    <3>1. NextSlot(p) /\ UNCHANGED <<file, opened>>
      BY <1>3, <2>4 DEF OpenSlot
    <3>2. pc' \in [Proc -> PC] /\ slot' \in [Proc -> Slot]
      BY <3>1, NextSlotType
    <3> QED
      BY <2>0, <3>1, <3>2
  <2> QED
    BY <2>1, <2>2, <2>3, <2>4
<1>4. ASSUME NEW p \in Proc, LockSlot(p) PROVE TypeOK'
  <2>0. /\ opened' = [opened EXCEPT ![p] = None] /\ UNCHANGED <<dir, file, calls>>
        /\ waiting[p] - 1 \in Nat
    BY <1>4 DEF LockSlot, ScanInv, Scanning
  <2>1. CASE owner[opened[p]] = None
    <3>1. /\ owner' = [owner EXCEPT ![opened[p]] = p]
          /\ waiting' = [waiting EXCEPT ![p] = waiting[p] - 1]
          /\ slot' = [slot EXCEPT ![p] = 1]
          /\ pc' = [pc EXCEPT ![p] = "free"]
      BY <1>4, <2>1 DEF LockSlot
    <3> QED
      BY <1>0, <2>0, <3>1 DEF PC
  <2>2. CASE owner[opened[p]] # None
    <3>1. NextSlot(p) /\ UNCHANGED <<owner, waiting>>
      BY <1>4, <2>2 DEF LockSlot
    <3>2. pc' \in [Proc -> PC] /\ slot' \in [Proc -> Slot]
      BY <3>1, NextSlotType
    <3> QED
      BY <2>0, <3>1, <3>2
  <2> QED
    BY <2>1, <2>2
<1>5. ASSUME NEW p \in Proc, Expire(p) PROVE TypeOK'
  <2>1. waiting[p] - 1 \in Nat
    BY <1>5 DEF Expire, ScanInv, Scanning
  <2> QED
    BY <1>5, <2>1 DEF Expire, PC
<1>6. ASSUME NEW p \in Proc, Release(p) PROVE TypeOK'
  BY <1>6 DEF Release, PC
<1>7. ASSUME NEW p \in Proc, Unlink(p) PROVE TypeOK'
  <2>0. slot[p] \in Slot /\ UNCHANGED <<dir, owner, opened, waiting, calls>>
    BY <1>7 DEF Unlink
  <2>1. file' = [file EXCEPT ![slot[p]] = None] \/ UNCHANGED file
    BY <1>7 DEF Unlink
  <2>2. CASE slot[p] < Limit
    <3>1. slot[p] + 1 \in Slot
      BY <2>0, <2>2, SlotGateAssumption DEF Slot
    <3>2. slot' = [slot EXCEPT ![p] = slot[p] + 1] /\ UNCHANGED pc
      BY <1>7, <2>2, SlotGateAssumption DEF Unlink
    <3> QED
      BY <2>0, <2>1, <3>1, <3>2
  <2>3. CASE slot[p] = Limit
    <3>1. slot' = [slot EXCEPT ![p] = 1] /\ pc' = [pc EXCEPT ![p] = "rmdir"]
      BY <1>7, <2>3, SlotGateAssumption DEF Unlink
    <3> QED
      BY <1>0, <2>0, <2>1, <3>1 DEF PC
  <2> QED
    BY <1>7, <2>2, <2>3 DEF Unlink
<1>8. ASSUME NEW p \in Proc, Crash(p) PROVE TypeOK'
  BY <1>0, <1>8 DEF Crash, PC
<1>9. CASE UNCHANGED vars
  BY <1>9 DEF vars
<1> QED
  BY <1>1, <1>2, <1>3, <1>4, <1>5, <1>6, <1>7, <1>8, <1>9 DEF Next, Step

LEMMA GateTypeNext == GateTypeInv /\ [Next]_vars => GateTypeInv'
<1> SUFFICES ASSUME GateTypeInv, [Next]_vars PROVE ScanInv' /\ DiscardInv'
  BY TypeNext DEF GateTypeInv
<1> USE SlotGateAssumption DEF GateTypeInv, TypeOK, ScanInv, DiscardInv, Scanning, Goto
<1>1. ASSUME NEW p \in Proc, Arrive(p) PROVE ScanInv' /\ DiscardInv'
  BY <1>1 DEF Arrive
<1>2. ASSUME NEW p \in Proc, BeginScan(p) \/ MakeDir(p) PROVE ScanInv' /\ DiscardInv'
  BY <1>2 DEF BeginScan, MakeDir
<1>3. ASSUME NEW p \in Proc, OpenSlot(p) PROVE ScanInv' /\ DiscardInv'
  BY <1>3 DEF OpenSlot, NextSlot, Fresh
<1>4. ASSUME NEW p \in Proc, LockSlot(p) PROVE ScanInv' /\ DiscardInv'
  BY <1>4 DEF LockSlot, NextSlot
<1>5. ASSUME NEW p \in Proc, Retry(p) \/ Expire(p) PROVE ScanInv' /\ DiscardInv'
  BY <1>5 DEF Retry, Expire
<1>6. ASSUME NEW p \in Proc, Release(p) PROVE ScanInv' /\ DiscardInv'
  BY <1>6 DEF Release
<1>7. ASSUME NEW p \in Proc, Unlink(p) \/ RemoveDir(p) PROVE ScanInv' /\ DiscardInv'
  BY <1>7 DEF Unlink, RemoveDir
<1>8. ASSUME NEW p \in Proc, Crash(p) PROVE ScanInv' /\ DiscardInv'
  BY <1>8 DEF Crash
<1>9. CASE UNCHANGED vars
  BY <1>9 DEF vars
<1> QED
  BY <1>1, <1>2, <1>3, <1>4, <1>5, <1>6, <1>7, <1>8, <1>9 DEF Next, Step

(* Every handle, slot and count of the gate keeps its type: no timeout, crash
   or discard makes a scan lose count of the threads that wait. *)
THEOREM GateTypeCorrect == Spec => []TypeOK
<1>1. GateTypeInv => TypeOK
  BY DEF GateTypeInv
<1> QED
  BY <1>1, GateTypeInit, GateTypeNext, PTL DEF Spec

-----------------------------------------------------------------------------
LEMMA LinkNext == KeepsLinks /\ GateTypeInv /\ LinkInv /\ [Next]_vars => LinkInv'
<1> SUFFICES ASSUME KeepsLinks, GateTypeInv, LinkInv, [Next]_vars PROVE LinkInv'
  OBVIOUS
<1> USE SlotGateAssumption DEF GateTypeInv, TypeOK, LinkInv, InUse, Linked
<1>1. ASSUME UNCHANGED <<file, owner, opened>> PROVE LinkInv'
  BY <1>1
<1>2. ASSUME NEW p \in Proc, OpenSlot(p) PROVE LinkInv'
  <2>1. CASE dir /\ file[slot[p]] # None
    BY <1>2, <2>1 DEF OpenSlot
  <2>2. CASE dir /\ file[slot[p]] = None
    <3>1. PICK i \in Fresh : /\ file' = [file EXCEPT ![slot[p]] = i]
                             /\ opened' = [opened EXCEPT ![p] = i]
      BY <1>2, <2>2 DEF OpenSlot
    <3>2. owner' = owner
      BY <1>2 DEF OpenSlot
    <3>3. \A j \in Inode : j \in Linked => j \in Linked'
      BY <2>2, <3>1
    <3>4. i \in Linked'
      BY <3>1 DEF Fresh
    <3> QED
      BY <3>1, <3>2, <3>3, <3>4
  <2>3. CASE ~dir
    BY <1>2, <2>3 DEF OpenSlot
  <2> QED
    BY <2>1, <2>2, <2>3
<1>3. ASSUME NEW p \in Proc, LockSlot(p) PROVE LinkInv'
  BY <1>3 DEF LockSlot, ScanInv
<1>4. ASSUME NEW p \in Proc, Release(p) PROVE LinkInv'
  BY <1>4 DEF Release
<1>5. ASSUME NEW p \in Proc, Unlink(p) PROVE LinkInv'
  <2>1. ~Posix
    BY <1>5 DEF Unlink, KeepsLinks, DiscardInv
  <2> QED
    BY <1>5, <2>1 DEF Unlink
<1>6. ASSUME NEW p \in Proc, Crash(p) PROVE LinkInv'
  BY <1>6 DEF Crash
<1> QED
  BY <1>1, <1>2, <1>3, <1>4, <1>5, <1>6 DEF Next, Step, Arrive, BeginScan, MakeDir, Retry,
     Expire, RemoveDir, vars

Locked == {i \in Inode : owner[i] # None}

PermitsBounded == CapHolds /\ IsFiniteSet(Locked)

LEMMA LinksBoundPermits == GateTypeInv /\ LinkInv => PermitsBounded
<1> SUFFICES ASSUME GateTypeInv, LinkInv PROVE PermitsBounded
  OBVIOUS
<1> DEFINE Names == {file[s] : s \in Slot}
<1>1. Locked \subseteq Names
  BY DEF LinkInv, InUse, Linked, Locked
<1>2. IsFiniteSet(Slot) /\ Cardinality(Slot) = Limit
  BY SlotGateAssumption, FS_Interval DEF Slot
<1>3. IsFiniteSet(Names) /\ Cardinality(Names) <= Cardinality(Slot)
  <2>1. file \in Surjection(Slot, Names)
    BY DEF Surjection, GateTypeInv, TypeOK
  <2> QED
    BY <1>2, <2>1, FS_Surjection
<1>4. Cardinality(Locked) <= Cardinality(Names) /\ IsFiniteSet(Locked)
  BY <1>1, <1>3, FS_Subset
<1>5. Cardinality(Locked) \in Nat /\ Cardinality(Names) \in Nat /\ Limit \in Nat
  BY <1>3, <1>4, FS_CardinalityType, SlotGateAssumption
<1> QED
  BY <1>2, <1>3, <1>4, <1>5 DEF PermitsBounded, CapHolds, Locked

(* Never more than Limit permits, whatever crashes and however the scans
   interleave, for a gate that is never discarded or that lives where a file
   in use cannot be unlinked. *)
THEOREM CapIsKept == ASSUME KeepsLinks PROVE Spec => []CapHolds
<1>1. Init => GateTypeInv /\ LinkInv
  BY GateTypeInit, SlotGateAssumption DEF Init, LinkInv, InUse
<1>2. GateTypeInv /\ LinkInv /\ [Next]_vars => GateTypeInv' /\ LinkInv'
  BY GateTypeNext, LinkNext, KeepsLinks
<1>3. GateTypeInv /\ LinkInv => CapHolds
  BY LinksBoundPermits DEF PermitsBounded
<1> QED
  BY <1>1, <1>2, <1>3, PTL DEF Spec

-----------------------------------------------------------------------------
Hold == [p \in Proc |-> Held(p)]

\* The permits of the semaphore are the locked inodes.
LEMMA TakenIsLocked == TypeOK => Sem!Taken = Locked
  BY SlotGateAssumption DEF Sem!Taken, Locked, Held, TypeOK

LEMMA SameCardinality == \A S : Sem!Cardinality(S) = Cardinality(S)
  BY DEF Cardinality, Sem!Cardinality

\* The permits a step leaves alone are those of everybody whose locks it does.
LEMMA HoldUnchanged == UNCHANGED owner => UNCHANGED Hold
  BY DEF Hold, Held

\* Taking a lock takes one more permit, and the cap says that one was left.
LEMMA LockIsAcquire ==
  ASSUME TypeOK, CapHolds', IsFiniteSet(Locked'), NEW p \in Proc, NEW i \in Inode,
         owner[i] = None, owner' = [owner EXCEPT ![i] = p]
  PROVE  Sem!Acquire(p)
<1> USE SlotGateAssumption DEF TypeOK
<1>1. Locked' = Locked \cup {i} /\ i \notin Locked
  BY DEF Locked
<1>2. IsFiniteSet(Locked) /\ Cardinality(Locked') = Cardinality(Locked) + 1
  <2>1. Locked \subseteq Locked'
    BY <1>1
  <2>2. IsFiniteSet(Locked)
    BY <2>1, FS_Subset
  <2> QED
    BY <1>1, <2>2, FS_AddElement
<1>3. Cardinality(Sem!Taken) < Limit
  <2>1. Cardinality(Locked) \in Nat
    BY <1>2, FS_CardinalityType
  <2>2. Cardinality(Locked') <= Limit
    BY DEF CapHolds, Locked
  <2> QED
    BY <1>2, <2>1, <2>2, TakenIsLocked
<1>4. i \in Inode \ Sem!Taken
  BY <1>1, TakenIsLocked
<1>5. Hold' = [Hold EXCEPT ![p] = Hold[p] \cup {i}]
  <2>1. \A j \in Inode : owner'[j] = IF j = i THEN p ELSE owner[j]
    OBVIOUS
  <2>2. \A q \in Proc : {j \in Inode : owner'[j] = q} =
                          IF q = p THEN {j \in Inode : owner[j] = q} \cup {i}
                          ELSE {j \in Inode : owner[j] = q}
    BY <2>1
  <2>3. /\ Hold = [q \in Proc |-> {j \in Inode : owner[j] = q}]
        /\ Hold' = [q \in Proc |-> {j \in Inode : owner'[j] = q}]
    BY DEF Hold, Held
  <2>4. \A q \in Proc : Hold'[q] = [Hold EXCEPT ![p] = Hold[p] \cup {i}][q]
    BY <2>2, <2>3
  <2> QED
    BY <2>3, <2>4
<1> QED
  BY <1>3, <1>4, <1>5, SameCardinality DEF Sem!Acquire, Hold

LEMMA UnlockIsRelease ==
  ASSUME TypeOK, NEW p \in Proc, NEW i \in Held(p), owner' = [owner EXCEPT ![i] = None]
  PROVE  Sem!Release(p)
<1>1. Hold' = [Hold EXCEPT ![p] = Hold[p] \ {i}]
  BY SlotGateAssumption DEF TypeOK, Hold, Held
<1> QED
  BY <1>1 DEF Sem!Release, Hold

LEMMA CrashIsDie == ASSUME TypeOK, NEW p \in Proc, Crash(p) PROVE Sem!Die(p)
<1>1. Hold' = [Hold EXCEPT ![p] = {}]
  BY SlotGateAssumption DEF TypeOK, Hold, Held, Crash
<1> QED
  BY <1>1 DEF Sem!Die, Hold

(* The slot files are a counting semaphore, for any processes and limit: every
   step of a scan, a discard or a death takes one permit, gives one back, drops
   those of one process, or is not seen by the others.  The gate keeps its links
   as for CapIsKept. *)
THEOREM GateIsSemaphore == ASSUME KeepsLinks PROVE Spec => ImplementsSemaphore
<1> DEFINE Inv == GateTypeInv /\ LinkInv
<1>0. GateTypeInv' /\ LinkInv' => PermitsBounded'
  BY LinksBoundPermits, PTL
<1>1. Init => Inv /\ Sem!Init
  BY GateTypeInit, SlotGateAssumption DEF Init, LinkInv, InUse, Sem!Init, Held
<1>2. Inv /\ [Next]_vars => Inv'
  BY GateTypeNext, LinkNext, KeepsLinks
<1>3. Inv /\ [Next]_vars => [Sem!Next]_Hold
  <2> SUFFICES ASSUME Inv, [Next]_vars PROVE [Sem!Next]_Hold
    OBVIOUS
  <2>1. TypeOK /\ GateTypeInv' /\ LinkInv'
    BY <1>2 DEF GateTypeInv
  <2>2. CapHolds' /\ IsFiniteSet(Locked')
    BY <1>0, <2>1 DEF PermitsBounded
  <2>3. ASSUME NEW p \in Proc, LockSlot(p) PROVE [Sem!Next]_Hold
    <3>1. CASE owner[opened[p]] = None
      <4>1. opened[p] \in Inode
        BY <2>3, SlotGateAssumption DEF LockSlot, GateTypeInv, TypeOK, ScanInv
      <4>2. owner' = [owner EXCEPT ![opened[p]] = p]
        BY <2>3, <3>1 DEF LockSlot
      <4> QED
        BY <2>1, <2>2, <3>1, <4>1, <4>2, LockIsAcquire DEF Sem!Next
    <3>2. CASE owner[opened[p]] # None
      BY <2>3, <3>2, HoldUnchanged DEF LockSlot
    <3> QED
      BY <3>1, <3>2
  <2>4. ASSUME NEW p \in Proc, Release(p) PROVE [Sem!Next]_Hold
    <3>1. PICK i \in Held(p) : owner' = [owner EXCEPT ![i] = None]
      BY <2>4 DEF Release
    <3> QED
      BY <2>1, <3>1, UnlockIsRelease DEF Sem!Next
  <2>5. ASSUME NEW p \in Proc, Crash(p) PROVE [Sem!Next]_Hold
    BY <2>1, <2>5, CrashIsDie DEF Sem!Next
  <2>6. ASSUME UNCHANGED owner PROVE [Sem!Next]_Hold
    BY <2>6, HoldUnchanged
  <2> QED
    BY <2>3, <2>4, <2>5, <2>6 DEF Next, Step, Arrive, BeginScan, OpenSlot, MakeDir, Retry,
       Expire, Unlink, RemoveDir, vars
<1> QED
  BY <1>1, <1>2, <1>3, PTL DEF Spec, ImplementsSemaphore, Sem!Spec, Hold
=============================================================================
