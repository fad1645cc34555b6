------------------------- MODULE RegistrationAttempt -------------------------
(***************************************************************************)
(* One attempt of _run_one (batch_runner.py): a lease on the exit it is     *)
(* about to use, a registration through it with a session of the browser   *)
(* pool or by the protocol driver, and the lease let go.  The attempts are *)
(* those of all batches of a process, with one database and one pool.      *)
(***************************************************************************)
EXTENDS EnvironmentLedger, BrowserPool

CONSTANTS
  MaxBoth,      \* bound: attempts with a lease and a browser
  MaxTrouble    \* bound: faults, timeouts, failing sessions, cap hits

ASSUME AttemptAssumption ==
  /\ MaxTrouble \in Nat /\ MaxBoth \in Nat
  /\ Session = Attempt
  /\ \A w \in Want : w.proxy \in Exit \cup {"direct"}

VARIABLES
  at,      \* at[a]: the step a is at
  trouble

control == <<at, trouble>>
vars == <<ledgerVars, given, poolVars, control>>

Leasing == {"sweep", "look", "take", "again", "share"}
Permitted == {"slot", "cap", "evicted", "connect", "launch", "use", "recycle", "release"}
Step == Leasing \cup {"door", "wire", "wait"} \cup Permitted \cup {"drop", "over"}

\* Without a proxy there is no exit to hold; the protocol driver has no browser.
Direct(w) == w.proxy = "direct"
Protocol(w) == w.identity = "protocol"

TypeOK ==
  /\ LedgerTypeOK /\ PoolTypeOK
  /\ at \in [Attempt -> Step]
  /\ trouble \in 0..MaxTrouble

Init ==
  /\ LedgerInit /\ PoolInit
  /\ Cardinality({a \in Attempt : ~Direct(want[a]) /\ ~Protocol(want[a])}) <= MaxBoth
  /\ at = [a \in Attempt |-> IF Direct(want[a]) THEN "door" ELSE "sweep"]
  /\ trouble = 0

Trouble == trouble < MaxTrouble /\ trouble' = trouble + 1
Smooth == UNCHANGED trouble

Goto(a, step) == at' = [at EXCEPT ![a] = step] /\ UNCHANGED given

-----------------------------------------------------------------------------
(* _hold_environment_lease *)

Swept(a) == at[a] = "sweep" /\ Sweep /\ Goto(a, "look") /\ Smooth /\ UNCHANGED poolVars

Looked(a) ==
  /\ at[a] = "look"
  /\ Look(a, want[a].proxy)
  /\ Goto(a, "take") /\ Smooth /\ UNCHANGED poolVars

\* The lease that was read is shared, or a new one taken, unless the index
\* refuses it ...
Taken(a) ==
  /\ at[a] = "take"
  /\ IF holder[a] # 0
     THEN Share(a) /\ Goto(a, "door")
     ELSE IF Insertable(want[a].proxy)
          THEN Insert(a, want[a].proxy) /\ Goto(a, "door")
          ELSE Goto(a, "again") /\ UNCHANGED ledgerVars
  /\ Smooth /\ UNCHANGED poolVars

\* ... then the ledger is read once more, for the winner ...
Reread(a) ==
  /\ at[a] = "again"
  /\ Look(a, want[a].proxy)
  /\ Goto(a, "share") /\ Smooth /\ UNCHANGED poolVars

\* ... whose lease is shared, unless it was let go in between.
Shared(a) ==
  /\ at[a] = "share"
  /\ IF holder[a] # 0 THEN Share(a) ELSE GoWithout(a)
  /\ Goto(a, "door") /\ Smooth /\ UNCHANGED poolVars

\* A database that fails costs the lease, never the attempt.
Unleased(a) ==
  /\ at[a] \in Leasing
  /\ GoWithout(a)
  /\ Goto(a, "door") /\ Trouble /\ UNCHANGED poolVars

LetGo(a) ==
  /\ at[a] = "drop"
  /\ \/ Drop(a, FALSE) /\ Smooth
     \/ lease[a] # 0 /\ Drop(a, TRUE) /\ Trouble
  /\ Goto(a, "over") /\ UNCHANGED poolVars

-----------------------------------------------------------------------------
(* BrowserProcessPool.session *)

\* What remains of an attempt when its session is over.
Rest(a) == IF Direct(want[a]) THEN "over" ELSE "drop"

\* A pool that was closed in the meantime refuses; a permit is waited for up to
\* a timeout.
Enter(a) ==
  /\ at[a] = "door"
  /\ Goto(a, IF Protocol(want[a]) THEN "wire" ELSE IF closed THEN Rest(a) ELSE "wait")
  /\ Smooth /\ UNCHANGED <<ledgerVars, poolVars>>

\* The protocol driver's registration, whatever comes of it.
Registered(a) ==
  /\ at[a] = "wire"
  /\ Goto(a, Rest(a)) /\ Smooth /\ UNCHANGED <<ledgerVars, poolVars>>

Admit(a) ==
  /\ at[a] = "wait"
  /\ Acquire
  /\ Goto(a, "slot") /\ Smooth /\ UNCHANGED ledgerVars

TimeOut(a) ==
  /\ at[a] = "wait" /\ permits = 0
  /\ Goto(a, Rest(a)) /\ Trouble /\ UNCHANGED <<ledgerVars, poolVars>>

\* The exception for want of a slot has no step: PermitsAreKept.
Choose(a) ==
  /\ at[a] = "slot"
  /\ TakeSlot(a)
  /\ Goto(a, "cap") /\ Smooth /\ UNCHANGED ledgerVars

OverCap(a) ==
  /\ at[a] = "cap"
  /\ Evict(a)
  /\ Goto(a, "evicted") /\ Trouble /\ UNCHANGED ledgerVars

\* The cap was trouble enough: the close may fail as well.
Evicted(a) ==
  /\ at[a] = "evicted"
  /\ \E fails \in BOOLEAN : CloseEvicted(a, fails)
  /\ Goto(a, "connect") /\ Smooth /\ UNCHANGED ledgerVars

\* The resident is renewed, or torn down for a new one: it does not fit, or its
\* driver does not renew, or the renewal fails, and the close with it.
Connect(a) ==
  /\ at[a] \in {"cap", "connect"}
  /\ \/ Fits(a) /\ Reuse(a) /\ Goto(a, "use") /\ Smooth
     \/ ~(Fits(a) /\ keeps) /\ TearDown(a, FALSE) /\ Goto(a, "launch") /\ Smooth
     \/ \E fails \in BOOLEAN :
          (fails \/ (Fits(a) /\ keeps)) /\ TearDown(a, fails) /\ Goto(a, "launch") /\ Trouble
  /\ UNCHANGED ledgerVars

Launched(a) ==
  /\ at[a] = "launch"
  /\ \/ Launch(a) /\ Goto(a, "use") /\ Smooth
     \/ \E health \in {"degraded", "failed"}, leaves \in BOOLEAN :
          LaunchFails(a, health, leaves) /\ Goto(a, "recycle") /\ Trouble
  /\ UNCHANGED ledgerVars

\* The registration is over, or raises.
Used(a) ==
  /\ at[a] = "use"
  /\ \/ Judge(a, "healthy") /\ Smooth
     \/ \E health \in {"degraded", "failed"} : Judge(a, health) /\ Trouble
  /\ Goto(a, "recycle") /\ UNCHANGED ledgerVars

Recycled(a) ==
  /\ at[a] = "recycle"
  /\ \/ Recycle(a, FALSE) /\ Smooth
     \/ Recycle(a, TRUE) /\ Trouble
  /\ Goto(a, "release") /\ UNCHANGED ledgerVars

Released(a) ==
  /\ at[a] = "release"
  /\ Release(a)
  /\ Goto(a, Rest(a)) /\ Smooth /\ UNCHANGED ledgerVars

-----------------------------------------------------------------------------
Acts(a) ==
  \/ Swept(a) \/ Looked(a) \/ Taken(a) \/ Reread(a) \/ Shared(a) \/ Unleased(a) \/ LetGo(a)
  \/ Enter(a) \/ Registered(a) \/ Admit(a) \/ TimeOut(a) \/ Choose(a) \/ OverCap(a) \/ Evicted(a)
  \/ Connect(a) \/ Launched(a) \/ Used(a) \/ Recycled(a) \/ Released(a)

\* Another scope of the process closes the pool.
Closes ==
  /\ \/ Close /\ Smooth
     \/ \E b \in closing : CloseResident(b, FALSE) /\ Smooth
     \/ \E b \in closing : CloseResident(b, TRUE) /\ Trouble
  /\ UNCHANGED <<ledgerVars, given, at>>

Time == (\E r \in 1..Len(ledger) : Lapse(r)) /\ UNCHANGED <<given, poolVars, control>>

Next == (\E a \in Attempt : Acts(a)) \/ Closes \/ Time

Spec == Init /\ [][Next]_vars

-----------------------------------------------------------------------------
(* Sharing an exit is never silent: two attempts that use one exit hold one row
   of the ledger, unless the ledger failed one of them, its lease expired, it
   lost the race between reading a live row and writing to it, or the winner of
   the insert it lost let go before it was read. *)
NoSilentShare ==
  \A a, b \in Attempt \ unseen :
    /\ {at[a], at[b]} \subseteq {"use", "wire"}
    /\ want[a].proxy = want[b].proxy /\ ~Direct(want[a])
    => lease[a] = lease[b] /\ lease[a] # 0

(* A session has its browser to itself, and it is the one it asked for, for as
   long as the pool is open. *)
BrowsersAreKept == \A a \in Attempt : has[a] # 0 => BrowserIsMine(a)

(* The permits are as many as the sessions leave, and whoever has one finds a
   slot: the bound is never worn down, whatever fails or is closed meanwhile. *)
PermitsAreKept ==
  /\ permits + Cardinality({a \in Attempt : at[a] \in Permitted}) = Slots
  /\ \A a \in Attempt : at[a] = "slot" => Available # {}
=============================================================================
