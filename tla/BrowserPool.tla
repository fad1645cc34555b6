----------------------------- MODULE BrowserPool -----------------------------
(***************************************************************************)
(* BrowserProcessPool (browser_pool.py): slots that keep a browser process *)
(* from one registration to the next.  A permit bounds the sessions, a     *)
(* lock guards the choice of a slot, and the table of residents is read    *)
(* and changed outside it.  One pool until it is closed: a scope with      *)
(* another configuration, or the end of another batch, closes it under the *)
(* sessions in flight.  Drivers and their contexts are external: what the  *)
(* pool sees of them is whether a context can be renewed and whether a     *)
(* close ends the process.  The table holds session objects; the processes *)
(* that run are a set of their own.                                        *)
(***************************************************************************)
EXTENDS Naturals, FiniteSets, Functions

CONSTANTS
  Session,    \* who opens sessions, one each
  Want,       \* egress (proxy) and browser identity a session asks for
  Slots,      \* max_concurrent
  MaxUses     \* max_uses_per_process

ASSUME PoolAssumption ==
  /\ Slots \in Nat \ {0}
  /\ MaxUses \in Nat \ {0}
  /\ IsFiniteSet(Session)
  /\ 0 \notin Session

Slot == 1..Slots

\* A session launches at most one browser, which has its name.
Browser == Session

VARIABLES
  keeps,      \* the driver can release and renew a context (Camoufox cannot)
  want,       \* want[a]: what session a asks for, and browser a was launched for
  closed,
  permits,    \* the semaphore
  slot,       \* slot[s]: BrowserSlot and the resident, 0 for none
  order,      \* order[k]: the slot that was used last but Slots - k
  running,    \* the browsers whose process runs
  loose,      \* those of them whose close or launch failed, or that were launched
              \* once the pool was closed (history)
  closing,    \* residents close() has taken and not closed yet
  has,        \* has[a]: the slot of a session, 0 for none
  with,       \* with[a]: the browser of a session, 0 for none
  evicted     \* evicted[a]: the resident a took out for the memory cap

given == <<keeps, want>>      \* from the start, and unchanged
processes == <<running, loose>>
poolVars == <<closed, permits, slot, order, processes, closing, has, with, evicted>>

Health == {"healthy", "degraded", "failed"}
BrowserSlot == [inUse : BOOLEAN, health : Health, uses : 0..MaxUses + Cardinality(Session),
                resident : Browser \cup {0}]

Residents == {slot[s].resident : s \in Slot} \ {0}

PoolTypeOK ==
  /\ keeps \in BOOLEAN
  /\ want \in [Session -> Want]
  /\ closed \in BOOLEAN
  /\ permits \in 0..Slots
  /\ slot \in [Slot -> BrowserSlot]
  /\ order \in [Slot -> Slot] /\ Range(order) = Slot
  /\ running \in SUBSET Browser /\ loose \in SUBSET running
  /\ closing \in SUBSET Browser
  /\ has \in [Session -> Slot \cup {0}]
  /\ with \in [Session -> Browser \cup {0}]
  /\ evicted \in [Session -> Browser \cup {0}]

PoolInit ==
  /\ keeps \in BOOLEAN
  /\ want \in [Session -> Want]
  /\ closed = FALSE
  /\ permits = Slots
  /\ slot = [s \in Slot |-> [inUse |-> FALSE, health |-> "healthy", uses |-> 0, resident |-> 0]]
  /\ order = [s \in Slot |-> s]
  /\ running = {} /\ loose = {}
  /\ closing = {}
  /\ has = [a \in Session |-> 0]
  /\ with = [a \in Session |-> 0]
  /\ evicted = [a \in Session |-> 0]

\* The close() of a driver, which may be called twice.  When it fails the process
\* runs on: the driver raised, which the pool only logs, kept the error to
\* itself, or was told to leave the browser open.
CloseOf(b, fails) ==
  /\ fails => b \in running
  /\ running' = IF fails THEN running ELSE running \ {b}
  /\ loose' = IF fails THEN loose \cup {b} ELSE loose \ {b}

NeedsRecycle(s) == slot[s].health = "failed" \/ slot[s].uses >= MaxUses

Renewed(s) == [slot[s] EXCEPT !.uses = 0, !.health = "healthy"]

Acquire ==
  /\ permits > 0
  /\ permits' = permits - 1
  /\ UNCHANGED <<closed, slot, order, closing, has, with, evicted, processes>>

-----------------------------------------------------------------------------
(* _acquire_slot *)

Available == {s \in Slot : ~slot[s].inUse}

MatchesEgress(a, s) ==
  LET b == slot[s].resident IN b # 0 /\ want[b].proxy = want[a].proxy

\* The sort key: healthy, then a resident with the egress, then not to be
\* recycled, then the least recently used.
Rank(a, s) ==
  (IF slot[s].health = "healthy" THEN 0 ELSE 4)
  + (IF MatchesEgress(a, s) THEN 0 ELSE 2)
  + (IF NeedsRecycle(s) THEN 1 ELSE 0)

Age(s) == CHOOSE k \in Slot : order[k] = s

Before(a, s, t) ==
  \/ Rank(a, s) < Rank(a, t)
  \/ Rank(a, s) = Rank(a, t) /\ Age(s) < Age(t)

\* A degraded slot is chosen after the healthy ones, and only a failed or spent
\* one starts again.
TakeSlot(a) ==
  \E s \in Available :
    /\ \A t \in Available \ {s} : Before(a, s, t)
    /\ slot' = [slot EXCEPT ![s] = [(IF NeedsRecycle(s) THEN Renewed(s) ELSE @) EXCEPT !.inUse = TRUE]]
    /\ has' = [has EXCEPT ![a] = s]
    /\ UNCHANGED <<closed, permits, order, closing, with, evicted, processes>>

-----------------------------------------------------------------------------
(* _enforce_memory_cap: the resident is taken out under the lock ... *)

\* Mutant of Victim: a slot in use is as good as an idle one.
VictimAny(a) ==
  LET held == {s \in Slot : slot[s].resident # 0} IN
  IF held = {} THEN {has[a]} ELSE {s \in held : \A t \in held : Age(s) <= Age(t)}

Victim(a) ==
  LET idle == {s \in Available : slot[s].resident # 0} IN
  IF idle = {} THEN {has[a]} ELSE {s \in idle : \A t \in idle : Age(s) <= Age(t)}

Evict(a) ==
  \E s \in Victim(a) :
    /\ evicted' = [evicted EXCEPT ![a] = slot[s].resident]
    /\ slot' = [slot EXCEPT ![s].resident = 0]
    /\ UNCHANGED <<closed, permits, order, closing, has, with, processes>>

\* ... and closed outside it.
CloseEvicted(a, fails) ==
  /\ CloseOf(evicted[a], fails)
  /\ evicted' = [evicted EXCEPT ![a] = 0]
  /\ UNCHANGED <<closed, permits, slot, order, closing, has, with>>

-----------------------------------------------------------------------------
(* session *)

Resident(a) == slot[has[a]].resident

\* The resident was launched for what the session asks.
Fits(a) == Resident(a) # 0 /\ want[Resident(a)] = want[a]

\* renew_account_context.
Reuse(a) ==
  /\ keeps
  /\ with' = [with EXCEPT ![a] = Resident(a)]
  /\ UNCHANGED <<closed, permits, slot, order, closing, has, evicted, processes>>

\* Mutant of TearDown: the old browser is forgotten, not closed.
TearDownTable(a, fails) ==
  /\ slot' = [slot EXCEPT ![has[a]].resident = 0]
  /\ UNCHANGED <<closed, permits, order, closing, has, with, evicted, processes>>

\* The resident does not fit, or could not be renewed: it is closed, if it was
\* not closed before, and dropped, whatever came of the close.
TearDown(a, fails) ==
  /\ CloseOf(Resident(a), fails)
  /\ slot' = [slot EXCEPT ![has[a]].resident = 0]
  /\ UNCHANGED <<closed, permits, order, closing, has, with, evicted>>

Launch(a) ==
  /\ running' = running \cup {a}
  /\ loose' = IF closed THEN loose \cup {a} ELSE loose
  /\ slot' = [slot EXCEPT ![has[a]].resident = a]
  /\ with' = [with EXCEPT ![a] = a]
  /\ UNCHANGED <<closed, permits, order, closing, has, evicted>>

\* The verdict on the session: FAILED for a BrowserRegistrationError, DEGRADED
\* for any other exception.
Judged(a, health) ==
  /\ slot' = [slot EXCEPT ![has[a]].health = health]
  /\ with' = [with EXCEPT ![a] = 0]
  /\ UNCHANGED <<closed, permits, order, closing, has, evicted>>

Judge(a, health) == Judged(a, health) /\ UNCHANGED processes

\* A launch that fails may leave a browser that was opened and not closed again
\* (Roxy without a debug address); no table has it.
LaunchFails(a, health, leaves) ==
  /\ Judged(a, health)
  /\ running' = IF leaves THEN running \cup {a} ELSE running
  /\ loose' = IF leaves THEN loose \cup {a} ELSE loose

\* s becomes the slot that was used last.
Touched(s) ==
  [k \in Slot |-> IF k = Slots THEN s
                  ELSE IF k < Age(s) THEN order[k] ELSE order[k + 1]]

\* Mutant of Over: the limit is looked at before this use is counted.
OverLate(s) == slot[s].health = "failed" \/ slot[s].uses >= MaxUses

\* needs_recycle with this use counted: a degraded slot goes on.
Over(s) == slot[s].health = "failed" \/ slot[s].uses + 1 >= MaxUses

\* The finally block: the slot has one more use.  The resident of a slot at its
\* limit, or of a failed session, is closed and dropped.  Any other stays in the
\* table, that of a degraded slot too: its context is released, or, with a driver
\* that cannot, it is closed.
Recycle(a, fails) ==
  LET s == has[a] IN
  /\ slot' = [slot EXCEPT ![s].uses = @ + 1, ![s].resident = IF Over(s) THEN 0 ELSE @]
  /\ order' = Touched(s)
  /\ IF Over(s) \/ ~keeps THEN CloseOf(slot[s].resident, fails) ELSE ~fails /\ UNCHANGED processes
  /\ UNCHANGED <<closed, permits, closing, has, with, evicted>>

\* Mutant of Release: the permit goes with the session that failed.
ReleaseHealthy(a) ==
  LET s == has[a] IN
  /\ slot' = [slot EXCEPT ![s] = [(IF slot[s].health = "failed" THEN Renewed(s) ELSE @)
                                    EXCEPT !.inUse = FALSE]]
  /\ permits' = IF slot[s].health = "failed" THEN permits ELSE permits + 1
  /\ has' = [has EXCEPT ![a] = 0]
  /\ UNCHANGED <<closed, order, closing, with, evicted, processes>>

\* _release_slot (recycle_on_error), then the permit, which no other step reads
\* in between.
Release(a) ==
  LET s == has[a] IN
  /\ slot' = [slot EXCEPT ![s] = [(IF slot[s].health = "failed" THEN Renewed(s) ELSE @)
                                    EXCEPT !.inUse = FALSE]]
  /\ permits' = permits + 1
  /\ has' = [has EXCEPT ![a] = 0]
  /\ UNCHANGED <<closed, order, closing, with, evicted, processes>>

-----------------------------------------------------------------------------
(* close: the tables are cleared under the lock, the browsers closed after. *)

\* Mutant of Close: the permits are given back as well.
CloseFreeing ==
  /\ ~closed
  /\ closed' = TRUE
  /\ closing' = Residents
  /\ permits' = Slots
  /\ slot' = [s \in Slot |-> [slot[s] EXCEPT !.inUse = FALSE, !.resident = 0]]
  /\ UNCHANGED <<order, has, with, evicted, processes>>

Close ==
  /\ ~closed
  /\ closed' = TRUE
  /\ closing' = Residents
  /\ slot' = [s \in Slot |-> [slot[s] EXCEPT !.inUse = FALSE, !.resident = 0]]
  /\ UNCHANGED <<permits, order, has, with, evicted, processes>>

CloseResident(b, fails) ==
  /\ b \in closing
  /\ closing' = closing \ {b}
  /\ CloseOf(b, fails)
  /\ UNCHANGED <<closed, permits, slot, order, has, with, evicted>>

-----------------------------------------------------------------------------
(* Until the pool is closed a session has its slot and its browser to itself:
   no other session, no memory cap and no relaunch closes, reuses or replaces
   it, its process runs, and it is the browser it asked for. *)
BrowserIsMine(a) ==
  ~closed =>
    /\ \A b \in Session \ {a} : has[b] # has[a]
    /\ with[a] # 0 =>
         /\ with[a] \in running
         /\ want[with[a]] = want[a]
         /\ Resident(a) = with[a]

(* No resident serves more than MaxUses sessions, and none a session after one
   that ended with a BrowserRegistrationError: until the pool is closed, a slot
   with a resident is below its limit and, when it is idle, not marked as failed,
   so that its count only starts again, at the next choice of the slot, with no
   resident in it.  Any other exception marks the slot as degraded; its resident
   stays and serves on (Recycle, TakeSlot). *)
NoWornBrowser ==
  ~closed =>
    \A s \in Slot : slot[s].resident # 0 =>
      /\ slot[s].uses < MaxUses
      /\ slot[s].inUse \/ slot[s].health # "failed"

(* No path of the pool forgets a browser it could close: each process that runs
   is of a resident of the table or of one about to be closed, unless its close or
   its launch failed, which is logged and forgotten, or it was launched after the
   pool was closed. *)
NoStrayBrowser ==
  \A b \in running : b \in Residents \cup closing \cup Range(evicted) \cup loose
=============================================================================
