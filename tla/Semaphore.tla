------------------------------ MODULE Semaphore ------------------------------
(***************************************************************************)
(* What a cross-process gate promises: `limit' permits shared by every     *)
(* process of the machine.  A process takes a permit only while fewer are  *)
(* taken, gives back only a permit it has, and loses all of them when it   *)
(* dies.  SlotGate, the slot-file implementation, is checked against it.   *)
(***************************************************************************)
EXTENDS Integers, FiniteSets

CONSTANTS
  Proc,    \* processes (CLI runs, desktop workers) sharing the gate
  Permit,  \* what tells one permit from another, as many as an implementation needs
  Limit    \* the cap passed to the constructor

VARIABLE held    \* held[p]: permits process p has

Taken == UNION {held[p] : p \in Proc}

Init == held = [p \in Proc |-> {}]

Acquire(p) ==
  /\ Cardinality(Taken) < Limit
  /\ \E permit \in Permit \ Taken : held' = [held EXCEPT ![p] = @ \cup {permit}]

Release(p) == \E permit \in held[p] : held' = [held EXCEPT ![p] = @ \ {permit}]

Die(p) == held' = [held EXCEPT ![p] = {}]

Next == \E p \in Proc : Acquire(p) \/ Release(p) \/ Die(p)

Spec == Init /\ [][Next]_held
=============================================================================
