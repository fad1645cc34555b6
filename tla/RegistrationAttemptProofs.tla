---------------------- MODULE RegistrationAttemptProofs ----------------------
(***************************************************************************)
(* The browser pool under any number of attempts, slots and faults: until  *)
(* it is closed every session has its browser to itself, no browser is     *)
(* forgotten but by a close or launch that failed, and no permit is lost   *)
(* whatever fails.  The table of residents is used outside the lock; what  *)
(* makes that sound is that a slot in use belongs to one session, so that  *)
(* the entry of a slot is only touched by its session, or, while it is     *)
(* idle, under the lock.                                                   *)
(***************************************************************************)
EXTENDS ExitLeaseProofs

Holding == Permitted \ {"slot"}

SlotRecord == [inUse : BOOLEAN, health : Health, uses : Nat, resident : Browser \cup {0}]

\* The types the argument needs; uses, health and order do not matter to it.
PoolShape ==
  /\ at \in [Attempt -> Step]
  /\ want \in [Attempt -> Want]
  /\ keeps \in BOOLEAN /\ closed \in BOOLEAN
  /\ slot \in [Slot -> SlotRecord]
  /\ running \subseteq Browser /\ loose \subseteq running
  /\ closing \subseteq Browser
  /\ has \in [Attempt -> Slot \cup {0}]
  /\ with \in [Attempt -> Browser \cup {0}]
  /\ evicted \in [Attempt -> Browser \cup {0}]

\* What an attempt holds, by the step it is at.
HeldInv ==
  \A a \in Attempt :
    /\ has[a] # 0 <=> at[a] \in Holding
    /\ with[a] # 0 <=> at[a] = "use"
    /\ evicted[a] # 0 => at[a] = "evicted"

\* A slot in use is some session's and, in an open pool, one session's.
SlotInv ==
  /\ \A s \in Slot : slot[s].inUse => \E a \in Attempt : has[a] = s
  /\ ~closed => \A a \in Attempt :
       has[a] # 0 => slot[has[a]].inUse /\ \A b \in Attempt \ {a} : has[b] # has[a]

\* Residents are of one slot, and nobody is about to close them.  In an open pool
\* whose driver keeps its browsers they run.
ResidentInv ==
  \A s \in Slot :
    slot[s].resident # 0 =>
      /\ slot[s].resident \notin closing
      /\ \A a \in Attempt : evicted[a] # slot[s].resident
      /\ \A t \in Slot \ {s} : slot[t].resident # slot[s].resident
      /\ keeps /\ ~closed => slot[s].resident \in running
      /\ closed /\ slot[s].resident \in running => slot[s].resident \in loose

\* The browser of a session that has not got to its launch is nowhere.
Young == Leasing \cup {"door", "wait", "slot", "cap", "evicted", "connect", "launch"}

YoungInv ==
  \A a \in Attempt :
    at[a] \in Young =>
      /\ a \notin running /\ a \notin closing
      /\ \A s \in Slot : slot[s].resident # a
      /\ \A b \in Attempt : evicted[b] # a

\* Browsers are only put in closing by the close itself.
ClosingInv == ~closed => closing = {}

\* In an open pool the resident of a slot is its session's.
UseInv ==
  ~closed =>
    \A a \in Attempt :
      /\ at[a] = "launch" => slot[has[a]].resident = 0
      /\ at[a] = "use" => /\ slot[has[a]].resident = with[a]
                          /\ with[a] \in running /\ want[with[a]] = want[a]

PoolInv ==
  PoolShape /\ HeldInv /\ SlotInv /\ ResidentInv /\ YoungInv /\ ClosingInv /\ UseInv /\ NoStrayBrowser

-----------------------------------------------------------------------------
LEMMA SlotsAreNatural == Slot \subseteq Nat /\ 0 \notin Slot /\ 0 \notin Browser
BY PoolAssumption DEF Slot, Browser

LEMMA SameActors == Session = Attempt /\ Browser = Attempt
BY AttemptAssumption DEF Browser

LEMMA UsedRecord ==
  ASSUME NEW p \in SlotRecord, NEW n \in Nat, NEW b \in Browser \cup {0}
  PROVE  /\ [p EXCEPT !.uses = n, !.resident = b] \in SlotRecord
         /\ [p EXCEPT !.uses = n, !.resident = b].inUse = p.inUse
         /\ [p EXCEPT !.uses = n, !.resident = b].resident = b
BY DEF SlotRecord

LEMMA RenewedRecord ==
  ASSUME NEW s \in Slot, slot[s] \in SlotRecord
  PROVE  Renewed(s) \in SlotRecord /\ Renewed(s).resident = slot[s].resident
                                  /\ Renewed(s).uses = 0 /\ Renewed(s).health = "healthy"
BY DEF SlotRecord, Renewed, Health

LEMMA FreedRecord ==
  ASSUME NEW p \in SlotRecord
  PROVE  /\ [p EXCEPT !.inUse = FALSE, !.resident = 0] \in SlotRecord
         /\ ~[p EXCEPT !.inUse = FALSE, !.resident = 0].inUse
         /\ [p EXCEPT !.inUse = FALSE, !.resident = 0].resident = 0
BY DEF SlotRecord

(* A close is of one browser, and one that runs on is known to. *)
LEMMA ClosesOne ==
  ASSUME loose \subseteq running, NEW b, NEW fails \in BOOLEAN, CloseOf(b, fails)
  PROVE  /\ running' \subseteq running /\ loose' \subseteq running'
         /\ \A x : x # b => (x \in running' <=> x \in running) /\ (x \in loose' <=> x \in loose)
         /\ b \in running' => b \in loose'
BY DEF CloseOf

LEMMA PoolInvInit == Init => PoolInv
<1> SUFFICES ASSUME Init PROVE PoolInv OBVIOUS
<1> USE SlotsAreNatural, SameActors DEF Init, PoolInit
<1>1. PoolShape
  BY DEF PoolShape, SlotRecord, Step, Leasing, Permitted, Health
<1>2. HeldInv
  BY DEF HeldInv, Holding, Permitted
<1>3. SlotInv /\ ResidentInv /\ ClosingInv /\ UseInv /\ NoStrayBrowser
  BY DEF SlotInv, ResidentInv, ClosingInv, UseInv, NoStrayBrowser
<1>4. YoungInv BY DEF YoungInv
<1> QED BY <1>1, <1>2, <1>3, <1>4 DEF PoolInv

(* Steps that leave the pool alone and go to no step at which a slot is held. *)
LEMMA PoolUntouched ==
  ASSUME PoolInv, UNCHANGED <<keeps, want, closed, slot, running, loose, closing, has, with, evicted>>,
         at' \in [Attempt -> Step],
         \A a \in Attempt : \/ at'[a] = at[a]
                            \/ /\ at[a] \notin Holding /\ at'[a] \notin Holding
                               /\ at'[a] \in Young => at[a] \in Young
  PROVE  PoolInv'
<1>1. PoolShape' BY DEF PoolInv, PoolShape
<1>2. HeldInv' BY DEF PoolInv, HeldInv, Holding, Permitted
<1>3. SlotInv' /\ ResidentInv' /\ ClosingInv' /\ NoStrayBrowser'
  BY DEF PoolInv, SlotInv, ResidentInv, ClosingInv, NoStrayBrowser, Residents
<1>4. UseInv' BY DEF PoolInv, UseInv, Holding, Permitted
<1>5. YoungInv' BY DEF PoolInv, YoungInv
<1> QED BY <1>1, <1>2, <1>3, <1>4, <1>5 DEF PoolInv

(* A session takes a slot nobody uses (_acquire_slot). *)
LEMMA ChooseKeeps == ASSUME PoolInv, NEW a \in Attempt, Choose(a) PROVE PoolInv'
<1> USE SlotsAreNatural, SameActors DEF PoolInv
<1>1. PICK s \in Available :
        /\ slot' = [slot EXCEPT ![s] = [(IF NeedsRecycle(s) THEN Renewed(s) ELSE @) EXCEPT !.inUse = TRUE]]
        /\ has' = [has EXCEPT ![a] = s]
        /\ UNCHANGED <<closed, closing, with, evicted, running, loose>>
  BY DEF Choose, TakeSlot, processes
<1>2. s \in Slot /\ ~slot[s].inUse BY DEF Available
<1>3. at[a] = "slot" /\ at' = [at EXCEPT ![a] = "cap"] /\ want' = want /\ keeps' = keeps
  BY DEF Choose, Goto, given
<1> DEFINE r == IF NeedsRecycle(s) THEN Renewed(s) ELSE slot[s]
<1>13. slot' = [slot EXCEPT ![s] = [r EXCEPT !.inUse = TRUE]] BY <1>1, <1>2 DEF PoolShape
<1>14. r \in SlotRecord /\ r.resident = slot[s].resident
  BY <1>2, RenewedRecord DEF PoolShape
<1> HIDE DEF r
<1>4. /\ slot' \in [Slot -> SlotRecord]
      /\ slot'[s].inUse
      /\ \A t \in Slot : slot'[t].resident = slot[t].resident /\ (t # s => slot'[t] = slot[t])
  BY <1>13, <1>14, <1>2 DEF PoolShape, SlotRecord
<1>5. PoolShape' BY <1>1, <1>2, <1>3, <1>4 DEF PoolShape, Step, Permitted
<1>6. HeldInv' BY <1>1, <1>2, <1>3 DEF HeldInv, PoolShape, Holding, Permitted
<1>7. has[a] = 0 BY <1>3 DEF HeldInv, Holding
<1>8. SlotInv' BY <1>1, <1>2, <1>4, <1>7 DEF SlotInv, PoolShape
<1>9. ResidentInv' BY <1>1, <1>3, <1>4 DEF ResidentInv
<1>10. UseInv' BY <1>1, <1>3, <1>4 DEF UseInv, HeldInv, PoolShape, Holding, Permitted
<1>11. ClosingInv' BY <1>1 DEF ClosingInv
<1>12. NoStrayBrowser' BY <1>1, <1>4 DEF NoStrayBrowser, Residents
<1>15. YoungInv' BY <1>1, <1>3, <1>4 DEF YoungInv, PoolShape, Young
<1> QED BY <1>5, <1>6, <1>8, <1>9, <1>10, <1>11, <1>12, <1>15

(* The memory cap takes an idle resident, or the session's own. *)
LEMMA OverCapKeeps == ASSUME PoolInv, NEW a \in Attempt, OverCap(a) PROVE PoolInv'
<1> USE SlotsAreNatural, SameActors DEF PoolInv
<1>1. at[a] = "cap" /\ at' = [at EXCEPT ![a] = "evicted"] /\ want' = want /\ keeps' = keeps
  BY DEF OverCap, Goto, given
<1>2. PICK s \in Victim(a) :
        /\ evicted' = [evicted EXCEPT ![a] = slot[s].resident]
        /\ slot' = [slot EXCEPT ![s].resident = 0]
        /\ UNCHANGED <<closed, closing, has, with, running, loose>>
  BY DEF OverCap, Evict, processes
<1>3. s \in Slot /\ (s = has[a] \/ ~slot[s].inUse)
  BY <1>1 DEF Victim, Available, HeldInv, PoolShape, Holding, Permitted
<1>4. /\ slot' \in [Slot -> SlotRecord]
      /\ slot'[s].resident = 0
      /\ \A t \in Slot : slot'[t].inUse = slot[t].inUse /\ (t # s => slot'[t] = slot[t])
  BY <1>2, <1>3 DEF PoolShape, SlotRecord
<1>5. PoolShape' BY <1>1, <1>2, <1>3, <1>4 DEF PoolShape, SlotRecord, Step, Permitted
<1>6. HeldInv' BY <1>1, <1>2 DEF HeldInv, PoolShape, Holding, Permitted
<1>7. SlotInv' BY <1>2, <1>4 DEF SlotInv, PoolShape
<1>8. ResidentInv' BY <1>1, <1>2, <1>3, <1>4 DEF ResidentInv, PoolShape
<1>9. UseInv' BY <1>1, <1>2, <1>3, <1>4 DEF UseInv, SlotInv, HeldInv, PoolShape, Holding, Permitted
<1>10. ClosingInv' BY <1>2 DEF ClosingInv
<1>11. NoStrayBrowser'
  <2>1. evicted[a] = 0 BY <1>1 DEF HeldInv, PoolShape
  <2>2. Range(evicted) \subseteq Range(evicted') \cup {0} BY <1>2, <2>1 DEF PoolShape, Range
  <2>3. Residents \subseteq Residents' \cup Range(evicted')
    BY <1>2, <1>3, <1>4 DEF Residents, PoolShape, SlotRecord, Range
  <2> QED BY <1>2, <2>2, <2>3, ZenonT(60) DEF PoolShape, NoStrayBrowser
<1>12. YoungInv' BY <1>1, <1>2, <1>3, <1>4 DEF YoungInv, PoolShape, Young
<1> QED BY <1>5, <1>6, <1>7, <1>8, <1>9, <1>10, <1>11, <1>12

(* The resident it took out is nobody's. *)
LEMMA EvictedKeeps == ASSUME PoolInv, NEW a \in Attempt, Evicted(a) PROVE PoolInv'
<1> USE SlotsAreNatural, SameActors DEF PoolInv
<1>1. /\ at[a] = "evicted" /\ at' = [at EXCEPT ![a] = "connect"] /\ want' = want /\ keeps' = keeps
      /\ evicted' = [evicted EXCEPT ![a] = 0]
      /\ UNCHANGED <<closed, slot, closing, has, with>>
  BY DEF Evicted, CloseEvicted, Goto, given
<1>2. /\ running' \subseteq running /\ loose' \subseteq running'
      /\ \A x : x # evicted[a] => (x \in running' <=> x \in running) /\ (x \in loose' <=> x \in loose)
      /\ evicted[a] \in running' => evicted[a] \in loose'
  <2>1. PICK fails \in BOOLEAN : CloseOf(evicted[a], fails) BY DEF Evicted, CloseEvicted
  <2> QED BY <2>1, ClosesOne DEF PoolShape
<1>3. PoolShape' BY <1>1, <1>2 DEF PoolShape, Step, Permitted
<1>4. HeldInv' BY <1>1 DEF HeldInv, PoolShape, Holding, Permitted
<1>5. SlotInv' BY <1>1 DEF SlotInv
<1>6. ResidentInv' BY <1>1, <1>2 DEF ResidentInv, PoolShape
<1>7. UseInv'
  <2> SUFFICES ASSUME ~closed, NEW b \in Attempt, at[b] = "use" \/ at[b] = "launch"
               PROVE  /\ at[b] = "launch" => slot[has[b]].resident = 0
                      /\ at[b] = "use" => /\ slot[has[b]].resident = with[b]
                                          /\ with[b] \in running' /\ want[with[b]] = want[b]
    BY <1>1 DEF UseInv, PoolShape
  <2>1. CASE at[b] = "launch" BY <2>1 DEF UseInv
  <2>2. CASE at[b] = "use"
    <3>1. has[b] \in Slot /\ with[b] # 0 BY <2>2 DEF HeldInv, PoolShape, Holding, Permitted
    <3>2. slot[has[b]].resident = with[b] /\ with[b] \in running /\ want[with[b]] = want[b]
      BY <2>2 DEF UseInv
    <3>3. with[b] # evicted[a] BY <3>1, <3>2 DEF ResidentInv
    <3> QED BY <1>2, <2>2, <3>2, <3>3
  <2> QED BY <2>1, <2>2
<1>8. ClosingInv' BY <1>1 DEF ClosingInv
<1>9. NoStrayBrowser'
  <2>1. Range(evicted) \subseteq Range(evicted') \cup {evicted[a]} BY <1>1 DEF PoolShape, Range
  <2>2. Residents' = Residents /\ closing' = closing BY <1>1 DEF Residents
  <2> QED BY <1>2, <2>1, <2>2 DEF NoStrayBrowser
<1>10. YoungInv' BY <1>1, <1>2 DEF YoungInv, PoolShape, Young
<1> QED BY <1>3, <1>4, <1>5, <1>6, <1>7, <1>8, <1>9, <1>10

(* The resident is the session's, or closed for a launch; in an open pool one
   that is renewed runs, and nobody else has the slot. *)
LEMMA ConnectKeeps == ASSUME PoolInv, NEW a \in Attempt, Connect(a) PROVE PoolInv'
<1> USE SlotsAreNatural, SameActors DEF PoolInv
<1>1. at[a] \in {"cap", "connect"} /\ has[a] \in Slot
  BY DEF Connect, HeldInv, PoolShape, Holding, Permitted
<1>2. CASE Fits(a) /\ Reuse(a) /\ Goto(a, "use")
  <2>1. /\ at' = [at EXCEPT ![a] = "use"] /\ want' = want /\ keeps' = keeps /\ keeps
        /\ with' = [with EXCEPT ![a] = slot[has[a]].resident]
        /\ slot[has[a]].resident # 0 /\ want[slot[has[a]].resident] = want[a]
        /\ UNCHANGED <<closed, slot, running, loose, closing, has, evicted>>
    BY <1>2 DEF Reuse, Goto, Fits, Resident, given, processes
  <2>2. PoolShape' BY <1>1, <2>1 DEF PoolShape, SlotRecord, Step, Permitted
  <2>3. HeldInv' BY <1>1, <2>1 DEF HeldInv, PoolShape, Holding, Permitted
  <2>4. SlotInv' BY <2>1 DEF SlotInv
  <2>5. ResidentInv' BY <2>1 DEF ResidentInv
  <2>6. ClosingInv' BY <2>1 DEF ClosingInv
  <2>7. NoStrayBrowser' BY <2>1 DEF NoStrayBrowser, Residents
  <2>8. UseInv' BY <1>1, <2>1 DEF UseInv, PoolShape, ResidentInv
  <2>9. YoungInv' BY <2>1 DEF YoungInv, PoolShape, Young, Leasing
  <2> QED BY <2>2, <2>3, <2>4, <2>5, <2>6, <2>7, <2>8, <2>9
<1>3. ASSUME NEW fails \in BOOLEAN, TearDown(a, fails), Goto(a, "launch") PROVE PoolInv'
  <2> DEFINE r == slot[has[a]].resident
  <2>1. /\ at' = [at EXCEPT ![a] = "launch"] /\ want' = want /\ keeps' = keeps
        /\ slot' = [slot EXCEPT ![has[a]].resident = 0]
        /\ UNCHANGED <<closed, closing, has, with, evicted>>
    BY <1>3 DEF TearDown, Goto, given
  <2>2. /\ running' \subseteq running /\ loose' \subseteq running'
        /\ \A x : x # r => (x \in running' <=> x \in running) /\ (x \in loose' <=> x \in loose)
        /\ r \in running' => r \in loose'
    <3>1. CloseOf(r, fails) BY <1>3 DEF TearDown, Resident
    <3> HIDE DEF r
    <3> QED BY <3>1, ClosesOne DEF PoolShape
  <2>3. /\ slot' \in [Slot -> SlotRecord]
        /\ slot'[has[a]].resident = 0
        /\ \A t \in Slot : slot'[t].inUse = slot[t].inUse /\ (t # has[a] => slot'[t] = slot[t])
    BY <1>1, <2>1 DEF PoolShape, SlotRecord
  <2>4. PoolShape' BY <1>1, <2>1, <2>2, <2>3 DEF PoolShape, Step, Permitted
  <2>5. HeldInv' BY <1>1, <2>1 DEF HeldInv, PoolShape, Holding, Permitted
  <2>6. SlotInv' BY <2>1, <2>3 DEF SlotInv, PoolShape
  <2>7. ResidentInv' BY <1>1, <2>1, <2>2, <2>3 DEF ResidentInv, PoolShape
  <2>8. ClosingInv' BY <2>1 DEF ClosingInv
  <2>9. NoStrayBrowser'
    <3>1. Residents \subseteq Residents' \cup {r} BY <1>1, <2>3 DEF Residents
    <3> QED BY <2>1, <2>2, <3>1 DEF NoStrayBrowser
  <2>10. UseInv'
    <3> SUFFICES ASSUME ~closed, NEW b \in Attempt, b # a, at[b] = "use" \/ at[b] = "launch"
                 PROVE  /\ at[b] = "launch" => slot'[has[b]].resident = 0
                        /\ at[b] = "use" => /\ slot'[has[b]].resident = with[b]
                                            /\ with[b] \in running' /\ want[with[b]] = want[b]
      BY <1>1, <2>1, <2>3 DEF UseInv, PoolShape
    <3>1. has[b] \in Slot /\ has[b] # has[a] BY <1>1 DEF SlotInv, HeldInv, PoolShape, Holding, Permitted
    <3>2. slot'[has[b]] = slot[has[b]] BY <2>3, <3>1
    <3>3. CASE at[b] = "launch" BY <3>2, <3>3 DEF UseInv
    <3>4. CASE at[b] = "use"
      <4>1. /\ slot[has[b]].resident = with[b] /\ with[b] \in running
            /\ want[with[b]] = want[b] /\ with[b] # 0
        BY <3>4 DEF UseInv, HeldInv
      <4>2. with[b] # r BY <1>1, <3>1, <4>1 DEF ResidentInv
      <4> QED BY <2>2, <3>2, <3>4, <4>1, <4>2
    <3> QED BY <3>3, <3>4
  <2>11. YoungInv' BY <1>1, <2>1, <2>2, <2>3 DEF YoungInv, PoolShape, Young
  <2> QED BY <2>4, <2>5, <2>6, <2>7, <2>8, <2>9, <2>10, <2>11
<1> QED BY <1>2, <1>3 DEF Connect

(* A new browser is in no table and with no session; in an open pool the slot it
   goes to is empty, in a closed one what it replaces was launched late. *)
LEMMA LaunchKeeps ==
  ASSUME PoolInv, NEW a \in Attempt, at[a] = "launch", Launch(a), Goto(a, "use")
  PROVE  PoolInv'
<1> USE SlotsAreNatural, SameActors DEF PoolInv
<1>1. has[a] \in Slot BY DEF HeldInv, PoolShape, Holding, Permitted
<1>2. /\ at' = [at EXCEPT ![a] = "use"] /\ want' = want /\ keeps' = keeps
      /\ running' = running \cup {a}
      /\ loose' = IF closed THEN loose \cup {a} ELSE loose
      /\ slot' = [slot EXCEPT ![has[a]].resident = a]
      /\ with' = [with EXCEPT ![a] = a]
      /\ UNCHANGED <<closed, closing, has, evicted>>
  BY DEF Goto, given, Launch
<1>3. /\ a \notin running /\ a \notin closing
      /\ \A s \in Slot : slot[s].resident # a
      /\ \A b \in Attempt : evicted[b] # a
  BY DEF YoungInv, Young
<1>4. /\ slot' \in [Slot -> SlotRecord]
      /\ slot'[has[a]].resident = a
      /\ \A t \in Slot : slot'[t].inUse = slot[t].inUse /\ (t # has[a] => slot'[t] = slot[t])
  BY <1>1, <1>2 DEF PoolShape, SlotRecord
<1>5. PoolShape' BY <1>2, <1>4 DEF PoolShape, Step, Permitted
<1>6. HeldInv' BY <1>2 DEF HeldInv, PoolShape, Holding, Permitted
<1>7. SlotInv' BY <1>2, <1>4 DEF SlotInv, PoolShape
<1>8. ResidentInv'
  <2> SUFFICES ASSUME NEW s \in Slot, slot'[s].resident # 0
               PROVE  /\ slot'[s].resident \notin closing
                      /\ \A x \in Attempt : evicted[x] # slot'[s].resident
                      /\ \A t \in Slot \ {s} : slot'[t].resident # slot'[s].resident
                      /\ keeps /\ ~closed => slot'[s].resident \in running'
                      /\ closed /\ slot'[s].resident \in running' => slot'[s].resident \in loose'
    BY <1>2 DEF ResidentInv
  <2>1. CASE s = has[a] BY <1>2, <1>3, <1>4, <2>1
  <2>2. CASE s # has[a] BY <1>1, <1>2, <1>3, <1>4, <2>2 DEF ResidentInv
  <2> QED BY <2>1, <2>2
<1>9. ClosingInv' BY <1>2 DEF ClosingInv
<1>10. UseInv'
  <2> SUFFICES ASSUME ~closed, NEW b \in Attempt, at'[b] = "use" \/ at'[b] = "launch"
               PROVE  /\ at'[b] = "launch" => slot'[has[b]].resident = 0
                      /\ at'[b] = "use" => /\ slot'[has[b]].resident = with'[b]
                                           /\ with'[b] \in running' /\ want[with'[b]] = want[b]
    BY <1>2 DEF UseInv
  <2>1. CASE b = a BY <1>2, <1>4, <2>1 DEF PoolShape
  <2>2. CASE b # a
    <3>1. at'[b] = at[b] /\ with'[b] = with[b] BY <1>2, <2>2 DEF PoolShape
    <3>2. has[b] \in Slot /\ has[b] # has[a]
      BY <1>1, <2>2, <3>1 DEF SlotInv, HeldInv, PoolShape, Holding, Permitted
    <3> QED BY <1>2, <1>4, <3>1, <3>2 DEF UseInv
  <2> QED BY <2>1, <2>2
<1>11. YoungInv' BY <1>1, <1>2, <1>4 DEF YoungInv, PoolShape, Young, Leasing
<1>12. NoStrayBrowser'
  <2>1. a \in Residents' BY <1>1, <1>4 DEF Residents
  <2>2. ASSUME NEW b \in running, b \in Residents, b \notin loose PROVE b \in Residents'
    <3>1. PICK s \in Slot : slot[s].resident = b /\ b # 0 BY <2>2 DEF Residents
    <3>2. s # has[a] BY <2>2, <3>1 DEF ResidentInv, UseInv, PoolShape
    <3> QED BY <1>4, <3>1, <3>2 DEF Residents
  <2>3. closing' = closing /\ Range(evicted') = Range(evicted) /\ loose \subseteq loose' BY <1>2
  <2> QED BY <1>2, <2>1, <2>2, <2>3 DEF NoStrayBrowser
<1> QED BY <1>5, <1>6, <1>7, <1>8, <1>9, <1>10, <1>11, <1>12

(* The verdict on a session changes no table; what a failed launch leaves is
   known to. *)
LEMMA JudgedKeeps ==
  ASSUME PoolInv, NEW a \in Attempt, at[a] \in {"launch", "use"}, NEW health \in Health,
         Judged(a, health), Goto(a, "recycle"),
         \/ UNCHANGED processes
         \/ at[a] = "launch" /\ running' = running \cup {a} /\ loose' = loose \cup {a}
  PROVE  PoolInv'
<1> USE SlotsAreNatural, SameActors DEF PoolInv
<1>1. has[a] \in Slot BY DEF HeldInv, PoolShape, Holding, Permitted
<1>2. /\ at' = [at EXCEPT ![a] = "recycle"] /\ want' = want /\ keeps' = keeps
      /\ slot' = [slot EXCEPT ![has[a]].health = health]
      /\ with' = [with EXCEPT ![a] = 0]
      /\ UNCHANGED <<closed, closing, has, evicted>>
  BY DEF Judged, Goto, given
<1>3. /\ slot' \in [Slot -> SlotRecord]
      /\ \A t \in Slot : slot'[t].inUse = slot[t].inUse /\ slot'[t].resident = slot[t].resident
  BY <1>1, <1>2 DEF PoolShape, SlotRecord
<1>12. /\ running \subseteq running' /\ running' \subseteq running \cup {a}
       /\ loose \subseteq loose' /\ loose' \subseteq running'
       /\ \A x \in running' \ running : x \in loose'
  BY DEF processes, PoolShape
<1>4. PoolShape' BY <1>2, <1>3, <1>12 DEF PoolShape, Step, Permitted
<1>5. HeldInv' BY <1>2 DEF HeldInv, PoolShape, Holding, Permitted
<1>6. SlotInv' BY <1>2, <1>3 DEF SlotInv, PoolShape
<1>7. ResidentInv' BY <1>2, <1>3, <1>12 DEF ResidentInv
<1>8. ClosingInv' BY <1>2 DEF ClosingInv
<1>9. UseInv' BY <1>2, <1>3, <1>12 DEF UseInv, HeldInv, PoolShape, Holding, Permitted
<1>10. Residents' = Residents BY <1>3 DEF Residents
<1>11. NoStrayBrowser' BY <1>2, <1>10, <1>12 DEF NoStrayBrowser
<1>13. YoungInv' BY <1>2, <1>3, <1>12 DEF YoungInv, PoolShape, Young, Leasing
<1> QED BY <1>4, <1>5, <1>6, <1>7, <1>8, <1>9, <1>11, <1>13

(* A resident that is not to be used again is closed with its entry cleared; one
   whose driver cannot release it is closed and keeps its entry. *)
LEMMA RecycledKeeps == ASSUME PoolInv, NEW a \in Attempt, Recycled(a) PROVE PoolInv'
<1> USE SlotsAreNatural, SameActors DEF PoolInv
<1> DEFINE r == slot[has[a]].resident
           over == Over(has[a])
<1>1. at[a] = "recycle" /\ has[a] \in Slot
  BY DEF Recycled, HeldInv, PoolShape, Holding, Permitted
<1>2. /\ at' = [at EXCEPT ![a] = "release"] /\ want' = want /\ keeps' = keeps
      /\ slot' = [slot EXCEPT ![has[a]].uses = @ + 1, ![has[a]].resident = IF over THEN 0 ELSE @]
      /\ UNCHANGED <<closed, closing, has, with, evicted>>
  BY DEF Recycled, Recycle, Goto, given
<1>3. /\ slot' \in [Slot -> SlotRecord]
      /\ slot'[has[a]].resident = IF over THEN 0 ELSE r
      /\ \A t \in Slot : slot'[t].inUse = slot[t].inUse /\ (t # has[a] => slot'[t] = slot[t])
  <2> DEFINE p == slot[has[a]]
             n == slot[has[a]].uses + 1
             v == IF over THEN 0 ELSE r
             q == [p EXCEPT !.uses = n, !.resident = v]
  <2>1. p \in SlotRecord BY <1>1 DEF PoolShape
  <2>2. slot' = [slot EXCEPT ![has[a]] = q] BY <1>1, <1>2 DEF PoolShape
  <2> HIDE DEF over
  <2>3. q \in SlotRecord /\ q.inUse = slot[has[a]].inUse /\ q.resident = IF over THEN 0 ELSE r
    <3>1. n \in Nat /\ v \in Browser \cup {0} BY <2>1 DEF SlotRecord
    <3>2. p.inUse = slot[has[a]].inUse /\ v = IF over THEN 0 ELSE r OBVIOUS
    <3> HIDE DEF p, n, v
    <3>3. q \in SlotRecord /\ q.inUse = p.inUse /\ q.resident = v
      BY <2>1, <3>1, UsedRecord, ZenonT(60)
    <3> QED BY <3>2, <3>3
  <2> HIDE DEF q
  <2> QED BY <1>1, <2>2, <2>3 DEF PoolShape
<1>4. /\ running' \subseteq running /\ loose' \subseteq running'
      /\ \A x : x # r => (x \in running' <=> x \in running) /\ (x \in loose' <=> x \in loose)
      /\ (over \/ ~keeps) /\ r \in running' => r \in loose'
      /\ ~(over \/ ~keeps) => running' = running /\ loose' = loose
  <2>1. CASE over \/ ~keeps
    <3>1. PICK fails \in BOOLEAN : CloseOf(r, fails) BY <2>1 DEF Recycled, Recycle
    <3> HIDE DEF r
    <3> QED BY <2>1, <3>1, ClosesOne DEF PoolShape
  <2>2. CASE ~(over \/ ~keeps)
    <3>1. running' = running /\ loose' = loose BY <2>2 DEF Recycled, Recycle, processes
    <3> QED BY <2>2, <3>1 DEF PoolShape
  <2> QED BY <2>1, <2>2
<1> HIDE DEF over
<1>5. PoolShape' BY <1>1, <1>2, <1>3, <1>4 DEF PoolShape, Step, Permitted
<1>6. HeldInv' BY <1>1, <1>2 DEF HeldInv, PoolShape, Holding, Permitted
<1>7. SlotInv' BY <1>2, <1>3 DEF SlotInv, PoolShape
<1>8. ResidentInv'
  <2> SUFFICES ASSUME NEW t \in Slot, slot'[t].resident # 0
               PROVE  /\ slot'[t].resident \notin closing
                      /\ \A x \in Attempt : evicted[x] # slot'[t].resident
                      /\ \A u \in Slot \ {t} : slot'[u].resident # slot'[t].resident
                      /\ keeps /\ ~closed => slot'[t].resident \in running'
                      /\ closed /\ slot'[t].resident \in running' => slot'[t].resident \in loose'
    BY <1>2 DEF ResidentInv
  <2>1. /\ slot'[t].resident = slot[t].resident /\ (over => t # has[a])
        /\ \A u \in Slot : slot'[u].resident \in {0, slot[u].resident}
    BY <1>1, <1>3
  <2>2. /\ slot[t].resident \notin closing
        /\ \A x \in Attempt : evicted[x] # slot[t].resident
        /\ \A u \in Slot \ {t} : slot[u].resident # slot[t].resident
        /\ keeps /\ ~closed => slot[t].resident \in running
        /\ closed /\ slot[t].resident \in running => slot[t].resident \in loose
    BY <2>1 DEF ResidentInv
  <2>3. over => slot[t].resident # r BY <1>1, <2>1, <2>2
  <2>4. keeps /\ ~closed => slot[t].resident \in running' BY <1>4, <2>2, <2>3
  <2>5. closed /\ slot[t].resident \in running' => slot[t].resident \in loose'
    <3> DEFINE x == slot[t].resident
    <3>1. x \in running' => x \in running BY <1>4
    <3>2. CASE x = r BY <1>4, <2>2, <3>1, <3>2
    <3>3. CASE x # r
      <4>1. closed /\ x \in running => x \in loose BY <2>2
      <4> HIDE DEF x, r
      <4>2. x \in loose' <=> x \in loose BY <1>4, <3>3
      <4>3. closed /\ x \in running' => x \in loose' BY <3>1, <4>1, <4>2
      <4> QED BY <4>3 DEF x
    <3> QED BY <3>2, <3>3
  <2> QED BY <2>1, <2>2, <2>4, <2>5
<1>9. ClosingInv' BY <1>2 DEF ClosingInv
<1>10. NoStrayBrowser'
  <2>1. Residents \subseteq Residents' \cup (IF over THEN {r} ELSE {})
    <3> SUFFICES ASSUME NEW t \in Slot, slot[t].resident # 0, over => slot[t].resident # r
                 PROVE  slot[t].resident \in Residents'
      BY DEF Residents
    <3>1. slot'[t].resident = slot[t].resident
      <4>1. CASE t = has[a] BY <1>3, <4>1
      <4>2. CASE t # has[a] BY <1>3, <4>2
      <4> QED BY <4>1, <4>2
    <3> QED BY <3>1 DEF Residents
  <2>2. CASE over
    <3> SUFFICES ASSUME NEW b \in running'
                 PROVE  b \in Residents' \cup closing \cup Range(evicted) \cup loose'
      BY <1>2 DEF NoStrayBrowser
    <3>1. CASE b = r BY <1>4, <2>2, <3>1
    <3>2. CASE b # r
      <4>1. b \in Residents \cup closing \cup Range(evicted) \cup loose BY <1>4 DEF NoStrayBrowser
      <4>2. b \in loose => b \in loose' BY <1>4, <3>2
      <4> HIDE DEF r
      <4> QED BY <2>1, <3>2, <4>1, <4>2
    <3> QED BY <3>1, <3>2
  <2>3. CASE ~over
    <3>1. Residents \subseteq Residents' BY <2>1, <2>3
    <3> SUFFICES ASSUME NEW b \in running'
                 PROVE  b \in Residents' \cup closing \cup Range(evicted) \cup loose'
      BY <1>2 DEF NoStrayBrowser
    <3>2. CASE b = r
      <4>1. b \in Residents BY <1>1, <1>4, <3>2 DEF Residents, PoolShape
      <4> QED BY <3>1, <4>1
    <3>3. CASE b # r
      <4>1. b \in Residents \cup closing \cup Range(evicted) \cup loose BY <1>4 DEF NoStrayBrowser
      <4>2. b \in loose => b \in loose' BY <1>4, <3>3
      <4> QED BY <3>1, <4>1, <4>2
    <3> QED BY <3>2, <3>3
  <2> QED BY <2>2, <2>3
<1>11. UseInv'
  <2> SUFFICES ASSUME ~closed, NEW b \in Attempt, b # a, at[b] = "use" \/ at[b] = "launch"
               PROVE  /\ at[b] = "launch" => slot'[has[b]].resident = 0
                      /\ at[b] = "use" => /\ slot'[has[b]].resident = with[b]
                                          /\ with[b] \in running' /\ want[with[b]] = want[b]
    BY <1>1, <1>2 DEF UseInv, PoolShape
  <2>1. has[b] \in Slot /\ has[b] # has[a] BY <1>1 DEF SlotInv, HeldInv, PoolShape, Holding, Permitted
  <2>2. slot'[has[b]] = slot[has[b]] BY <1>3, <2>1
  <2>3. ASSUME at[b] = "use" PROVE with[b] \in running /\ with[b] # r
    <3>1. slot[has[b]].resident = with[b] /\ with[b] \in running /\ with[b] # 0
      BY <2>3 DEF UseInv, HeldInv
    <3> QED BY <1>1, <2>1, <3>1 DEF ResidentInv
  <2> QED BY <1>4, <2>2, <2>3 DEF UseInv
<1>12. YoungInv'
  <2>1. \A t \in Slot : slot'[t].resident \in {0, slot[t].resident} BY <1>1, <1>3
  <2> QED BY <1>2, <1>4, <2>1 DEF YoungInv, PoolShape, Young, Leasing
<1> QED BY <1>5, <1>6, <1>7, <1>8, <1>9, <1>10, <1>11, <1>12

(* In an open pool nobody else has the slot that is given back; in a closed one
   a slot that two sessions have may be marked as free under the second. *)
LEMMA ReleasedKeeps == ASSUME PoolInv, NEW a \in Attempt, Released(a) PROVE PoolInv'
<1> USE SlotsAreNatural, SameActors DEF PoolInv
<1> DEFINE s == has[a]
           r == IF slot[s].health = "failed" THEN Renewed(s) ELSE slot[s]
<1>1. at[a] = "release" /\ s \in Slot
  BY DEF Released, HeldInv, PoolShape, Holding, Permitted
<1>2. /\ at' = [at EXCEPT ![a] = Rest(a)] /\ want' = want /\ keeps' = keeps
      /\ slot' = [slot EXCEPT ![s] = [r EXCEPT !.inUse = FALSE]]
      /\ has' = [has EXCEPT ![a] = 0]
      /\ UNCHANGED <<closed, running, loose, closing, with, evicted>>
  BY <1>1 DEF Released, Release, Goto, PoolShape, given, processes
<1>3. Rest(a) \in Step \ Permitted /\ Rest(a) \notin Young
  BY DEF Rest, Step, Permitted, Young, Leasing
<1>4. r \in SlotRecord /\ r.resident = slot[s].resident
  <2>1. slot[s] \in SlotRecord BY <1>1 DEF PoolShape
  <2> QED BY <2>1, ZenonT(60) DEF SlotRecord, Renewed, Health
<1> HIDE DEF r
<1>5. /\ slot' \in [Slot -> SlotRecord]
      /\ ~slot'[s].inUse
      /\ \A t \in Slot : slot'[t].resident = slot[t].resident /\ (t # s => slot'[t] = slot[t])
  BY <1>1, <1>2, <1>4 DEF PoolShape, SlotRecord
<1>6. PoolShape' BY <1>2, <1>3, <1>5 DEF PoolShape
<1>7. HeldInv' BY <1>1, <1>2, <1>3 DEF HeldInv, PoolShape, Holding, Permitted
<1>8. SlotInv' BY <1>1, <1>2, <1>5 DEF SlotInv, PoolShape
<1>9. ResidentInv' BY <1>2, <1>5 DEF ResidentInv
<1>10. ClosingInv' BY <1>2 DEF ClosingInv
<1>11. UseInv' BY <1>1, <1>2, <1>3, <1>5 DEF UseInv, HeldInv, PoolShape, Holding, Permitted
<1>12. Residents' = Residents BY <1>5 DEF Residents
<1>13. NoStrayBrowser' BY <1>2, <1>12 DEF NoStrayBrowser
<1>14. YoungInv' BY <1>2, <1>3, <1>5 DEF YoungInv, PoolShape
<1> QED BY <1>6, <1>7, <1>8, <1>9, <1>10, <1>11, <1>13, <1>14

(* close() empties the table and marks every slot as free. *)
LEMMA CloseKeeps == ASSUME PoolInv, Close, UNCHANGED <<at, given>> PROVE PoolInv'
<1> USE SlotsAreNatural, SameActors DEF PoolInv
<1>1. /\ ~closed /\ closed' /\ closing' = Residents /\ at' = at /\ want' = want /\ keeps' = keeps
      /\ slot' = [s \in Slot |-> [slot[s] EXCEPT !.inUse = FALSE, !.resident = 0]]
      /\ UNCHANGED <<running, loose, has, with, evicted>>
  BY DEF Close, given, processes
<1>2. /\ slot' \in [Slot -> SlotRecord]
      /\ \A s \in Slot : ~slot'[s].inUse /\ slot'[s].resident = 0
  BY <1>1, FreedRecord DEF PoolShape
<1>3. PoolShape'
  <2>1. Residents \subseteq Browser
    <3>1. ASSUME NEW s \in Slot PROVE slot[s].resident \in Browser \cup {0}
      BY DEF PoolShape, SlotRecord
    <3> QED BY <3>1 DEF Residents
  <2> QED BY <1>1, <1>2, <2>1 DEF PoolShape
<1>4. HeldInv' BY <1>1 DEF HeldInv
<1>5. SlotInv' /\ ResidentInv' /\ ClosingInv' /\ UseInv'
  BY <1>1, <1>2 DEF SlotInv, ResidentInv, ClosingInv, UseInv
<1>6. NoStrayBrowser'
  <2>1. closing = {} BY <1>1 DEF ClosingInv
  <2> QED BY <1>1, <2>1 DEF NoStrayBrowser
<1>7. YoungInv' BY <1>1, <1>2 DEF YoungInv, Residents
<1> QED BY <1>3, <1>4, <1>5, <1>6, <1>7

(* A browser that close() has taken is in no table. *)
LEMMA CloseResidentKeeps ==
  ASSUME PoolInv, NEW b \in closing, NEW fails \in BOOLEAN, CloseResident(b, fails),
         UNCHANGED <<at, given>>
  PROVE  PoolInv'
<1> USE SlotsAreNatural, SameActors DEF PoolInv
<1>1. /\ closed /\ closing' = closing \ {b}
      /\ UNCHANGED <<at, want, keeps, closed, slot, has, with, evicted>>
  BY DEF CloseResident, ClosingInv, given
<1>2. /\ running' \subseteq running /\ loose' \subseteq running'
      /\ \A x : x # b => (x \in running' <=> x \in running) /\ (x \in loose' <=> x \in loose)
      /\ b \in running' => b \in loose'
  BY ClosesOne DEF CloseResident, PoolShape
<1>3. PoolShape' /\ HeldInv' /\ SlotInv' BY <1>1, <1>2 DEF PoolShape, HeldInv, SlotInv
<1>4. ResidentInv' BY <1>1, <1>2 DEF ResidentInv
<1>5. ClosingInv' /\ UseInv' BY <1>1 DEF ClosingInv, UseInv
<1>6. Residents' = Residents BY <1>1 DEF Residents
<1>7. NoStrayBrowser' BY <1>1, <1>2, <1>6 DEF NoStrayBrowser
<1>8. YoungInv' BY <1>1, <1>2 DEF YoungInv
<1> QED BY <1>3, <1>4, <1>5, <1>7, <1>8

-----------------------------------------------------------------------------
(* What the ledger, the permit and the doors do to a step never touches a slot. *)
LEMMA OutsideKeeps ==
  ASSUME PoolInv, NEW a \in Attempt,
         \/ Swept(a) \/ Looked(a) \/ Taken(a) \/ Reread(a) \/ Shared(a) \/ Unleased(a) \/ LetGo(a)
         \/ Enter(a) \/ Registered(a) \/ Admit(a) \/ TimeOut(a)
  PROVE  PoolInv'
<1>1. UNCHANGED <<keeps, want, closed, slot, running, loose, closing, has, with, evicted>>
  BY DEF Swept, Looked, Taken, Reread, Shared, Unleased, LetGo, Enter, Registered, Admit, TimeOut,
         Goto, given, Acquire, poolVars, processes
<1>2. \E step \in Step \ Holding :
        /\ at' = [at EXCEPT ![a] = step] /\ at[a] \notin Holding
        /\ step \in Young => at[a] \in Young
  BY DEF Swept, Looked, Taken, Reread, Shared, Unleased, LetGo, Enter, Registered, Admit, TimeOut,
         Goto, Rest, Step, Leasing, Permitted, Holding, Young
<1> QED BY <1>1, <1>2, PoolUntouched DEF PoolInv, PoolShape

LEMMA PoolStep == PoolInv /\ [Next]_vars => PoolInv'
<1> SUFFICES ASSUME PoolInv, [Next]_vars PROVE PoolInv' OBVIOUS
<1>1. CASE UNCHANGED vars
  BY <1>1, PoolUntouched DEF vars, poolVars, processes, given, control, PoolInv, PoolShape
<1>2. CASE Closes
  <2>1. CASE Close BY <1>2, <2>1, CloseKeeps DEF Closes
  <2>2. CASE \E b \in closing, fails \in BOOLEAN : CloseResident(b, fails)
    BY <1>2, <2>2, CloseResidentKeeps DEF Closes
  <2> QED BY <1>2, <2>1, <2>2 DEF Closes
<1>3. CASE Time
  <2>1. UNCHANGED <<keeps, want, closed, slot, running, loose, closing, has, with, evicted, at>>
    BY <1>3 DEF Time, poolVars, processes, given, control
  <2> QED BY <2>1, PoolUntouched DEF PoolInv, PoolShape
<1>4. ASSUME NEW a \in Attempt, Acts(a) PROVE PoolInv'
  <2>1. CASE Connect(a) BY <2>1, ConnectKeeps
  <2>2. CASE Launched(a)
    <3>1. CASE Launch(a) /\ Goto(a, "use") BY <2>2, <3>1, LaunchKeeps DEF Launched
    <3>2. ASSUME NEW health \in {"degraded", "failed"}, NEW leaves \in BOOLEAN,
                 LaunchFails(a, health, leaves), Goto(a, "recycle")
          PROVE  PoolInv'
      BY <2>2, <3>2, JudgedKeeps DEF Launched, LaunchFails, processes, Health
    <3> QED BY <2>2, <3>1, <3>2 DEF Launched
  <2>3. CASE Used(a) BY <2>3, JudgedKeeps DEF Used, Judge, Health
  <2> QED BY <1>4, <2>1, <2>2, <2>3, OutsideKeeps, ChooseKeeps, OverCapKeeps, EvictedKeeps,
             RecycledKeeps, ReleasedKeeps DEF Acts
<1> QED BY <1>1, <1>2, <1>3, <1>4 DEF Next

(* The inductive invariant holds of every behaviour. *)
LEMMA PoolInvAlways == Spec => []PoolInv
BY PoolInvInit, PoolStep, PTL DEF Spec

(* For any number of attempts, slots and faults: until the pool is closed a
   session has its slot and its browser to itself, and the browser is the one it
   asked for (BrowserProcessPool.session uses the table outside the lock). *)
THEOREM SessionsAreApart == Spec => []BrowsersAreKept
<1>1. PoolInv => BrowsersAreKept
  <2> SUFFICES ASSUME PoolInv, ~closed, NEW a \in Attempt, has[a] # 0
               PROVE  /\ \A b \in Session \ {a} : has[b] # has[a]
                      /\ with[a] # 0 => /\ with[a] \in running
                                       /\ want[with[a]] = want[a]
                                       /\ Resident(a) = with[a]
    BY DEF BrowsersAreKept, BrowserIsMine
  <2>1. \A b \in Session \ {a} : has[b] # has[a] BY SameActors DEF PoolInv, SlotInv
  <2>2. ASSUME with[a] # 0
        PROVE  with[a] \in running /\ want[with[a]] = want[a] /\ Resident(a) = with[a]
    <3>1. at[a] = "use" BY <2>2 DEF PoolInv, HeldInv
    <3> QED BY <3>1 DEF PoolInv, UseInv, Resident
  <2> QED BY <2>1, <2>2
<1> QED BY <1>1, PoolInvAlways, PTL

(* No browser process is forgotten on a path on which the pool could have closed
   it, whoever evicts, replaces or fails and whoever closes the pool: what runs
   and is in no table, and not about to be closed, is a browser whose close or
   launch failed, or one launched after the pool was closed.  Nothing bounds the
   number of those. *)
THEOREM BrowsersAreKnown == Spec => []NoStrayBrowser
BY PoolInvAlways, PTL DEF PoolInv

-----------------------------------------------------------------------------
(* The permits *)

Admitted == {a \in Attempt : at[a] \in Permitted}

PermitInv == permits \in Nat /\ permits + Cardinality(Admitted) = Slots

LEMMA AdmittedIsFinite == IsFiniteSet(Admitted) /\ Cardinality(Admitted) \in Nat
<1>1. IsFiniteSet(Attempt) BY PoolAssumption, AttemptAssumption
<1>2. Admitted \subseteq Attempt BY DEF Admitted
<1> QED BY <1>1, <1>2, FS_Subset, FS_CardinalityType

LEMMA PermitStep == PoolInv /\ PermitInv /\ [Next]_vars => PermitInv'
<1> SUFFICES ASSUME PoolInv, PermitInv, [Next]_vars PROVE PermitInv' OBVIOUS
<1> USE AdmittedIsFinite
<1>1. CASE UNCHANGED <<permits, at>> BY <1>1 DEF PermitInv, Admitted
<1>2. ASSUME NEW a \in Attempt, NEW step \in Step, permits' = permits, at' = [at EXCEPT ![a] = step],
             at[a] \in Permitted <=> step \in Permitted
      PROVE  PermitInv'
  <2>1. Admitted' = Admitted BY <1>2 DEF Admitted, PoolInv, PoolShape
  <2> QED BY <1>2, <2>1 DEF PermitInv
<1>3. ASSUME NEW a \in Attempt, Admit(a) PROVE PermitInv'
  <2>1. at[a] = "wait" /\ at' = [at EXCEPT ![a] = "slot"] /\ permits > 0 /\ permits' = permits - 1
    BY <1>3 DEF Admit, Acquire, Goto
  <2>2. Admitted' = Admitted \cup {a} /\ a \notin Admitted
    BY <2>1 DEF Admitted, PoolInv, PoolShape, Permitted
  <2>3. Cardinality(Admitted') = Cardinality(Admitted) + 1 BY <2>2, FS_AddElement
  <2> QED BY <2>1, <2>3 DEF PermitInv
<1>4. ASSUME NEW a \in Attempt, Released(a) PROVE PermitInv'
  <2>1. at[a] = "release" /\ at' = [at EXCEPT ![a] = Rest(a)] /\ permits' = permits + 1
    BY <1>4 DEF Released, Release, Goto
  <2>2. Rest(a) \notin Permitted BY DEF Rest, Permitted
  <2>3. Admitted' = Admitted \ {a} /\ a \in Admitted
    BY <2>1, <2>2 DEF Admitted, PoolInv, PoolShape, Permitted
  <2>4. Cardinality(Admitted') = Cardinality(Admitted) - 1 BY <2>3, FS_RemoveElement
  <2> QED BY <2>1, <2>4 DEF PermitInv
<1>5. ASSUME NEW a \in Attempt, Acts(a), ~Admit(a), ~Released(a) PROVE PermitInv'
  <2>1. permits' = permits
    BY <1>5 DEF Acts, Swept, Looked, Taken, Reread, Shared, Unleased, LetGo, Enter, Registered, TimeOut,
       Choose, OverCap, Evicted, Connect, Launched, Used, Recycled, poolVars, TakeSlot, Evict,
       CloseEvicted, Reuse, TearDown, Launch, LaunchFails, Judge, Judged, Recycle
  <2>2. \E step \in Step : at' = [at EXCEPT ![a] = step] /\ (at[a] \in Permitted <=> step \in Permitted)
    BY <1>5 DEF Acts, Swept, Looked, Taken, Reread, Shared, Unleased, LetGo, Enter, Registered, TimeOut,
       Choose, OverCap, Evicted, Connect, Launched, Used, Recycled, Goto, Rest, Step, Leasing, Permitted
  <2> QED BY <2>1, <2>2, <1>2
<1>6. ASSUME Closes \/ Time \/ UNCHANGED vars PROVE UNCHANGED <<permits, at>>
  BY <1>6 DEF Closes, Close, CloseResident, Time, vars, poolVars, control
<1> QED BY <1>1, <1>3, <1>4, <1>5, <1>6 DEF Next

LEMMA PermitInvAlways == Spec => []PermitInv
<1>1. Init => PermitInv
  <2> SUFFICES ASSUME Init PROVE PermitInv OBVIOUS
  <2>1. Admitted = {} BY DEF Init, Admitted, Permitted
  <2> QED BY <2>1, FS_EmptySet, PoolAssumption DEF Init, PoolInit, PermitInv
<1> QED BY <1>1, PoolInvInit, PoolStep, PermitStep, PTL DEF Spec

(* As many permits as slots less the sessions: nothing that fails costs one, so
   that whoever is admitted finds a slot, even when close() has marked slots as
   free that are in use (browser_pool_slot_unavailable is never raised). *)
THEOREM NoPermitIsLost == Spec => []PermitsAreKept
<1> USE AdmittedIsFinite
<1>1. PoolInv /\ PermitInv => PermitsAreKept
  <2> SUFFICES ASSUME PoolInv, PermitInv, NEW a \in Attempt, at[a] = "slot", Available = {}
               PROVE  FALSE
    BY DEF PermitsAreKept, PermitInv, Admitted
  <2> DEFINE others == Admitted \ {a}
             f == [b \in others |-> IF has[b] \in Slot THEN has[b] ELSE 1]
  <2>1. IsFiniteSet(others) /\ Cardinality(others) = Cardinality(Admitted) - 1
    BY FS_RemoveElement DEF Admitted, Permitted
  <2>2. \A s \in Slot : \E b \in others : f[b] = s
    <3> SUFFICES ASSUME NEW s \in Slot PROVE \E b \in others : f[b] = s OBVIOUS
    <3>1. slot[s].inUse BY DEF Available
    <3>2. PICK b \in Attempt : has[b] = s BY <3>1 DEF PoolInv, SlotInv
    <3>3. b # a /\ at[b] \in Permitted
      BY <3>2, SlotsAreNatural DEF PoolInv, HeldInv, Holding
    <3> QED BY <3>2, <3>3 DEF Admitted
  <2>3. f \in Surjection(others, Slot) BY <2>2, PoolAssumption DEF Surjection, Slot
  <2>4. Cardinality(Slot) <= Cardinality(others) BY <2>1, <2>3, FS_Surjection
  <2>5. Cardinality(Slot) = Slots BY PoolAssumption, FS_Interval DEF Slot
  <2> QED BY <2>1, <2>4, <2>5, PoolAssumption DEF PermitInv
<1> QED BY <1>1, PoolInvAlways, PermitInvAlways, PTL

-----------------------------------------------------------------------------
(* The uses of a slot *)

\* The sessions that have s and have not counted their use of it yet.
Pending(s) == {a \in Attempt : has[a] = s /\ at[a] # "release"}

\* A use is counted for every session, and none is taken at the limit; a closed
\* pool may hand one slot to all sessions at once.
CountedInv ==
  \A s \in Slot : slot[s].uses + Cardinality(Pending(s)) <= MaxUses + Cardinality(Attempt)

\* In an open pool a browser, and a slot about to be used, is below the limit;
\* a slot is given back with no sign of the failure.
WearInv ==
  ~closed =>
    \A s \in Slot :
      /\ slot[s].resident # 0 \/ Pending(s) # {} => slot[s].uses < MaxUses
      /\ ~slot[s].inUse => slot[s].health # "failed"

LEMMA PendingIsFinite ==
  ASSUME NEW s
  PROVE  /\ IsFiniteSet(Pending(s)) /\ Cardinality(Pending(s)) \in Nat
         /\ Cardinality(Attempt) \in Nat
         /\ Cardinality(Pending(s)) <= Cardinality(Attempt)
<1>1. IsFiniteSet(Attempt) BY PoolAssumption, AttemptAssumption
<1>2. Pending(s) \subseteq Attempt BY DEF Pending
<1> QED BY <1>1, <1>2, FS_Subset, FS_CardinalityType

\* Whoever leaves or stays out of the sessions that have s leaves the rest.
LEMMA PendingTaken ==
  ASSUME PoolInv, NEW a \in Attempt, NEW s \in Slot, at[a] = "slot", at' = [at EXCEPT ![a] = "cap"],
         has' = [has EXCEPT ![a] = s]
  PROVE  /\ Cardinality(Pending(s)') = Cardinality(Pending(s)) + 1
         /\ \A t \in Slot \ {s} : Pending(t)' = Pending(t)
         /\ Pending(s) \subseteq Attempt \ {a}
<1> USE SlotsAreNatural, SameActors DEF PoolInv, PoolShape
<1>1. has[a] = 0 BY DEF HeldInv, Holding
<1>2. Pending(s)' = Pending(s) \cup {a} /\ a \notin Pending(s) BY <1>1 DEF Pending
<1>3. Cardinality(Pending(s)') = Cardinality(Pending(s)) + 1
  BY <1>2, PendingIsFinite, FS_AddElement
<1>4. \A t \in Slot \ {s} : Pending(t)' = Pending(t) BY <1>1 DEF Pending
<1> QED BY <1>2, <1>3, <1>4 DEF Pending

LEMMA PendingCounted ==
  ASSUME PoolInv, NEW a \in Attempt, NEW s \in Slot, has[a] = s, at[a] = "recycle",
         at' = [at EXCEPT ![a] = "release"], has' = has
  PROVE  /\ Cardinality(Pending(s)') = Cardinality(Pending(s)) - 1
         /\ Pending(s)' = Pending(s) \ {a}
         /\ a \in Pending(s)
         /\ \A t \in Slot \ {s} : Pending(t)' = Pending(t)
<1> USE SlotsAreNatural, SameActors DEF PoolInv, PoolShape
<1>1. Pending(s)' = Pending(s) \ {a} /\ a \in Pending(s) BY DEF Pending
<1>2. Cardinality(Pending(s)') = Cardinality(Pending(s)) - 1
  <2>1. IsFiniteSet(Pending(s)) BY PendingIsFinite
  <2>2. Cardinality(Pending(s) \ {a}) = Cardinality(Pending(s)) - 1
    BY <1>1, <2>1, FS_RemoveElement
  <2> QED BY <1>1, <2>2
<1>3. \A t \in Slot \ {s} : Pending(t)' = Pending(t) BY DEF Pending
<1> QED BY <1>1, <1>2, <1>3

(* Steps that count no use and hand out no slot. *)
LEMMA WearUntouched ==
  ASSUME PoolInv, CountedInv, WearInv,
         closed' = closed,
         \A s \in Slot : /\ Pending(s)' = Pending(s)
                         /\ slot'[s].uses = slot[s].uses
                         /\ slot'[s].inUse = slot[s].inUse
                         /\ slot'[s].inUse \/ slot'[s].health = slot[s].health \/ closed
                         /\ slot'[s].resident \in {0, slot[s].resident} \/ Pending(s) # {} \/ closed
  PROVE  CountedInv' /\ WearInv'
<1>1. CountedInv'
  <2> SUFFICES ASSUME NEW s \in Slot
               PROVE  slot'[s].uses + Cardinality(Pending(s)') <= MaxUses + Cardinality(Attempt)
    BY DEF CountedInv
  <2>1. slot'[s].uses = slot[s].uses /\ Pending(s)' = Pending(s) OBVIOUS
  <2> QED BY <2>1 DEF CountedInv
<1>2. WearInv' BY DEF WearInv
<1> QED BY <1>1, <1>2

\* A slot at its limit starts again; in an open pool nobody else has it.
LEMMA ChooseWears ==
  ASSUME PoolInv, CountedInv, WearInv, NEW a \in Attempt, Choose(a) PROVE CountedInv' /\ WearInv'
<1> USE SlotsAreNatural, SameActors DEF PoolInv
<1>1. PICK s \in Available :
        /\ slot' = [slot EXCEPT ![s] = [(IF NeedsRecycle(s) THEN Renewed(s) ELSE @) EXCEPT !.inUse = TRUE]]
        /\ has' = [has EXCEPT ![a] = s]
        /\ UNCHANGED closed
  BY DEF Choose, TakeSlot
<1>2. s \in Slot /\ ~slot[s].inUse BY DEF Available
<1>3. at[a] = "slot" /\ at' = [at EXCEPT ![a] = "cap"] BY DEF Choose, Goto
<1> DEFINE n == IF NeedsRecycle(s) THEN 0 ELSE slot[s].uses
<1>4. /\ slot'[s].uses = n /\ slot'[s].inUse
      /\ \A t \in Slot \ {s} : slot'[t] = slot[t]
  BY <1>1, <1>2 DEF PoolShape, SlotRecord, Renewed
<1>5. n \in Nat /\ n < MaxUses BY <1>2, PoolAssumption DEF NeedsRecycle, PoolShape, SlotRecord
<1> HIDE DEF n
<1>6. /\ Cardinality(Pending(s)') = Cardinality(Pending(s)) + 1
      /\ \A t \in Slot \ {s} : Pending(t)' = Pending(t)
      /\ Pending(s) \subseteq Attempt \ {a}
  BY <1>1, <1>2, <1>3, PendingTaken
<1>7. Cardinality(Pending(s)) + 1 <= Cardinality(Attempt)
  <2>1. IsFiniteSet(Attempt) BY PoolAssumption
  <2>2. Cardinality(Attempt \ {a}) = Cardinality(Attempt) - 1 /\ IsFiniteSet(Attempt \ {a})
    BY <2>1, FS_RemoveElement
  <2>3. Cardinality(Pending(s)) <= Cardinality(Attempt \ {a}) BY <1>6, <2>2, FS_Subset
  <2> QED BY <2>2, <2>3, PendingIsFinite
<1>8. CountedInv'
  <2> SUFFICES ASSUME NEW t \in Slot
               PROVE  slot'[t].uses + Cardinality(Pending(t)') <= MaxUses + Cardinality(Attempt)
    BY DEF CountedInv
  <2>1. CASE t = s BY <1>4, <1>5, <1>6, <1>7, <2>1, PoolAssumption, PendingIsFinite
  <2>2. CASE t # s BY <1>4, <1>6, <2>2 DEF CountedInv
  <2> QED BY <2>1, <2>2
<1>9. WearInv'
  <2> SUFFICES ASSUME ~closed, NEW t \in Slot
               PROVE  /\ slot'[t].resident # 0 \/ Pending(t)' # {} => slot'[t].uses < MaxUses
                      /\ ~slot'[t].inUse => slot'[t].health # "failed"
    BY <1>1 DEF WearInv
  <2>1. CASE t = s BY <1>4, <1>5, <2>1
  <2>2. CASE t # s BY <1>4, <1>6, <2>2 DEF WearInv
  <2> QED BY <2>1, <2>2
<1> QED BY <1>8, <1>9

\* The use is counted, and the browser at its limit closed, in one step.
LEMMA RecycledWears ==
  ASSUME PoolInv, CountedInv, WearInv, NEW a \in Attempt, Recycled(a) PROVE CountedInv' /\ WearInv'
<1> USE SlotsAreNatural, SameActors DEF PoolInv
<1> DEFINE s == has[a]
           over == slot[has[a]].health = "failed" \/ slot[has[a]].uses + 1 >= MaxUses
<1>1. at[a] = "recycle" /\ s \in Slot
  BY DEF Recycled, HeldInv, PoolShape, Holding, Permitted
<1>2. /\ at' = [at EXCEPT ![a] = "release"] /\ has' = has /\ closed' = closed
      /\ slot' = [slot EXCEPT ![s].uses = @ + 1, ![s].resident = IF over THEN 0 ELSE @]
  BY DEF Recycled, Recycle, Over, Goto
<1>3. slot[s] \in SlotRecord BY <1>1 DEF PoolShape
<1>4. /\ slot'[s].uses = slot[s].uses + 1
      /\ slot'[s].resident = IF over THEN 0 ELSE slot[s].resident
      /\ slot'[s].inUse = slot[s].inUse /\ slot'[s].health = slot[s].health
      /\ \A t \in Slot \ {s} : slot'[t] = slot[t]
  <2> DEFINE p == slot[s]
             n == slot[s].uses + 1
             v == IF over THEN 0 ELSE slot[s].resident
             q == [p EXCEPT !.uses = n, !.resident = v]
  <2>1. slot' = [slot EXCEPT ![s] = q] BY <1>1, <1>2 DEF PoolShape
  <2>2. q.uses = n /\ q.resident = v /\ q.inUse = p.inUse /\ q.health = p.health
    <3>1. p \in SlotRecord BY <1>3
    <3> HIDE DEF p, n, v, s
    <3> QED BY <3>1 DEF SlotRecord
  <2> HIDE DEF q
  <2> QED BY <1>1, <2>1, <2>2 DEF PoolShape
<1>5. /\ Cardinality(Pending(s)) \in Nat /\ slot[s].uses \in Nat
      /\ MaxUses \in Nat /\ Cardinality(Attempt) \in Nat
  BY <1>3, PendingIsFinite, PoolAssumption DEF SlotRecord
<1> HIDE DEF s
<1>6. PICK u \in Slot : u = s BY <1>1
<1>7. /\ Cardinality(Pending(u)') = Cardinality(Pending(u)) - 1
      /\ Pending(u)' = Pending(u) \ {a} /\ a \in Pending(u)
      /\ \A t \in Slot \ {u} : Pending(t)' = Pending(t)
  BY <1>1, <1>2, <1>6, PendingCounted DEF s
<1>8. CountedInv'
  <2> SUFFICES ASSUME NEW t \in Slot
               PROVE  slot'[t].uses + Cardinality(Pending(t)') <= MaxUses + Cardinality(Attempt)
    BY DEF CountedInv
  <2>1. CASE t = u
    <3>1. slot[u].uses + Cardinality(Pending(u)) <= MaxUses + Cardinality(Attempt) BY DEF CountedInv
    <3> QED BY <1>4, <1>5, <1>6, <1>7, <2>1, <3>1
  <2>2. CASE t # u BY <1>4, <1>6, <1>7, <2>2 DEF CountedInv
  <2> QED BY <2>1, <2>2
<1>9. WearInv'
  <2> SUFFICES ASSUME ~closed, NEW t \in Slot
               PROVE  /\ slot'[t].resident # 0 \/ Pending(t)' # {} => slot'[t].uses < MaxUses
                      /\ ~slot'[t].inUse => slot'[t].health # "failed"
    BY <1>2 DEF WearInv
  <2>1. CASE t = u
    <3>1. slot[s].inUse /\ \A b \in Attempt \ {a} : has[b] # s
      BY <1>1 DEF SlotInv, s
    <3>2. Pending(u)' = {} BY <1>6, <1>7, <3>1 DEF Pending
    <3>3. slot'[s].resident # 0 => slot'[s].uses < MaxUses
      BY <1>4, <1>5 DEF s
    <3> QED BY <1>4, <1>6, <2>1, <3>1, <3>2, <3>3
  <2>2. CASE t # u BY <1>4, <1>6, <1>7, <2>2 DEF WearInv
  <2> QED BY <2>1, <2>2
<1> QED BY <1>8, <1>9

\* The use is counted already; the failure of a session is not left behind.
LEMMA ReleasedWears ==
  ASSUME PoolInv, CountedInv, WearInv, NEW a \in Attempt, Released(a) PROVE CountedInv' /\ WearInv'
<1> USE SlotsAreNatural, SameActors DEF PoolInv
<1> DEFINE s == has[a]
           r == IF slot[s].health = "failed" THEN Renewed(s) ELSE slot[s]
<1>1. at[a] = "release" /\ s \in Slot
  BY DEF Released, HeldInv, PoolShape, Holding, Permitted
<1>2. /\ at' = [at EXCEPT ![a] = Rest(a)] /\ closed' = closed
      /\ slot' = [slot EXCEPT ![s] = [r EXCEPT !.inUse = FALSE]]
      /\ has' = [has EXCEPT ![a] = 0]
  BY <1>1 DEF Released, Release, Goto, PoolShape
<1>3. slot[s] \in SlotRecord BY <1>1 DEF PoolShape
<1>4. /\ r \in SlotRecord /\ r.resident = slot[s].resident /\ r.health # "failed"
      /\ r.uses \in {0, slot[s].uses}
  BY <1>3, ZenonT(60) DEF SlotRecord, Renewed, Health
<1> HIDE DEF r
<1>5. /\ slot'[s].uses \in {0, slot[s].uses} /\ slot'[s].health # "failed"
      /\ slot'[s].resident = slot[s].resident
      /\ \A t \in Slot \ {s} : slot'[t] = slot[t]
  BY <1>1, <1>2, <1>4 DEF PoolShape, SlotRecord
<1>6. \A t \in Slot : Pending(t)' = Pending(t)
  BY <1>1, <1>2 DEF Pending, PoolShape, Rest
<1>7. slot[s].uses \in Nat /\ MaxUses \in Nat \ {0} BY <1>3, PoolAssumption DEF SlotRecord
<1> HIDE DEF s
<1>8. CountedInv'
  <2> SUFFICES ASSUME NEW t \in Slot
               PROVE  slot'[t].uses + Cardinality(Pending(t)') <= MaxUses + Cardinality(Attempt)
    BY DEF CountedInv
  <2>1. slot[t].uses + Cardinality(Pending(t)) <= MaxUses + Cardinality(Attempt) BY DEF CountedInv
  <2>2. Cardinality(Pending(t)) \in Nat /\ Cardinality(Attempt) \in Nat
    BY PendingIsFinite, PoolAssumption, FS_CardinalityType, SameActors
  <2>3. slot'[t].uses \in Nat /\ slot[t].uses \in Nat /\ slot'[t].uses <= slot[t].uses
    BY <1>5, <1>7 DEF PoolShape, SlotRecord
  <2> QED BY <1>6, <1>7, <2>1, <2>2, <2>3
<1>9. WearInv' BY <1>2, <1>5, <1>6, <1>7 DEF WearInv
<1> QED BY <1>8, <1>9

\* A closed pool has no limit left to keep; what was counted stays counted.
LEMMA CloseWears ==
  ASSUME PoolInv, CountedInv, Close, UNCHANGED at PROVE CountedInv' /\ WearInv'
<1> USE DEF PoolInv
<1>1. /\ closed' /\ at' = at /\ has' = has
      /\ slot' = [s \in Slot |-> [slot[s] EXCEPT !.inUse = FALSE, !.resident = 0]]
  BY DEF Close
<1>2. \A s \in Slot : slot'[s].uses = slot[s].uses /\ Pending(s)' = Pending(s)
  BY <1>1 DEF PoolShape, SlotRecord, Pending
<1>3. CountedInv'
  <2> SUFFICES ASSUME NEW s \in Slot
               PROVE  slot'[s].uses + Cardinality(Pending(s)') <= MaxUses + Cardinality(Attempt)
    BY DEF CountedInv
  <2> QED BY <1>2 DEF CountedInv
<1> QED BY <1>1, <1>3 DEF WearInv

(* The steps that change an entry but neither count a use nor hand out a slot. *)
LEMMA TableWears ==
  ASSUME PoolInv, CountedInv, WearInv, NEW a \in Attempt,
         OverCap(a) \/ Evicted(a) \/ Connect(a) \/ Launched(a) \/ Used(a)
  PROVE  CountedInv' /\ WearInv'
<1> USE SlotsAreNatural, SameActors DEF PoolInv
<1>1. /\ has[a] \in Slot /\ at[a] # "release" /\ closed' = closed /\ has' = has
      /\ \E step \in Step \ {"release"} : at' = [at EXCEPT ![a] = step]
  BY DEF OverCap, Evict, Evicted, CloseEvicted, Connect, Reuse, TearDown, Launched, Launch,
         LaunchFails, Used, Judge, Judged, Goto, HeldInv, PoolShape, Holding, Permitted, Step
<1>2. \A s \in Slot : Pending(s)' = Pending(s) BY <1>1 DEF Pending, PoolShape
<1>3. a \in Pending(has[a]) BY <1>1 DEF Pending
<1>4. CASE slot' = slot BY <1>1, <1>2, <1>4, WearUntouched
<1>5. ASSUME NEW s \in Slot, NEW b \in Browser \cup {0}, slot' = [slot EXCEPT ![s].resident = b],
             b = 0 \/ s = has[a]
      PROVE  CountedInv' /\ WearInv'
  <2>1. \A t \in Slot : /\ slot'[t].uses = slot[t].uses /\ slot'[t].inUse = slot[t].inUse
                        /\ slot'[t].health = slot[t].health
                        /\ slot'[t].resident = slot[t].resident \/ (t = s /\ slot'[t].resident = b)
    BY <1>5 DEF PoolShape, SlotRecord
  <2>2. \A t \in Slot : slot'[t].resident \in {0, slot[t].resident} \/ Pending(t) # {}
    BY <1>3, <1>5, <2>1
  <2> QED BY <1>1, <1>2, <2>1, <2>2, WearUntouched
<1>6. ASSUME NEW health \in Health, slot' = [slot EXCEPT ![has[a]].health = health]
      PROVE  CountedInv' /\ WearInv'
  <2>1. ~closed => slot[has[a]].inUse BY <1>1 DEF SlotInv
  <2>2. \A t \in Slot : /\ slot'[t].uses = slot[t].uses /\ slot'[t].inUse = slot[t].inUse
                        /\ slot'[t].resident = slot[t].resident
                        /\ slot'[t].health = slot[t].health \/ t = has[a]
    BY <1>1, <1>6 DEF PoolShape, SlotRecord
  <2> QED BY <1>1, <1>2, <2>1, <2>2, WearUntouched
<1>7. CASE OverCap(a)
  <2>1. PICK s \in Victim(a) : slot' = [slot EXCEPT ![s].resident = 0]
    BY <1>7 DEF OverCap, Evict
  <2>2. s \in Slot BY <1>1 DEF Victim, Available
  <2> QED BY <1>5, <2>1, <2>2
<1>8. CASE Evicted(a) BY <1>4, <1>8 DEF Evicted, CloseEvicted
<1>9. CASE Connect(a) BY <1>1, <1>4, <1>5, <1>9 DEF Connect, Reuse, TearDown
<1>10. CASE Launched(a)
  <2>1. CASE Launch(a)
    <3>1. slot' = [slot EXCEPT ![has[a]].resident = a] BY <2>1 DEF Launch
    <3> QED BY <1>1, <1>5, <3>1
  <2>2. ASSUME NEW health \in {"degraded", "failed"}, Judged(a, health) PROVE CountedInv' /\ WearInv'
    BY <1>6, <2>2 DEF Judged, Health
  <2> QED BY <1>10, <2>1, <2>2 DEF Launched, LaunchFails
<1>11. CASE Used(a) BY <1>6, <1>11 DEF Used, Judge, Judged, Health
<1> QED BY <1>7, <1>8, <1>9, <1>10, <1>11

LEMMA WearStep == PoolInv /\ CountedInv /\ WearInv /\ [Next]_vars => CountedInv' /\ WearInv'
<1> SUFFICES ASSUME PoolInv, CountedInv, WearInv, [Next]_vars PROVE CountedInv' /\ WearInv'
  OBVIOUS
<1> USE SlotsAreNatural, SameActors
<1>1. ASSUME closed' = closed, slot' = slot, \A s \in Slot : Pending(s)' = Pending(s)
      PROVE  CountedInv' /\ WearInv'
  BY <1>1, WearUntouched
<1>2. CASE \/ Time \/ UNCHANGED vars
           \/ \E b \in closing, fails \in BOOLEAN : CloseResident(b, fails) /\ UNCHANGED at
  BY <1>1, <1>2 DEF Time, vars, poolVars, control, CloseResident, Pending
<1>3. CASE Close /\ UNCHANGED at BY <1>3, CloseWears
<1>4. ASSUME NEW a \in Attempt,
             \/ Swept(a) \/ Looked(a) \/ Taken(a) \/ Reread(a) \/ Shared(a) \/ Unleased(a) \/ LetGo(a)
             \/ Enter(a) \/ Registered(a) \/ Admit(a) \/ TimeOut(a)
      PROVE  CountedInv' /\ WearInv'
  <2>1. closed' = closed /\ slot' = slot /\ has' = has
    BY <1>4 DEF Swept, Looked, Taken, Reread, Shared, Unleased, LetGo, Enter, Registered, Admit, TimeOut,
         Goto, Acquire, poolVars
  <2>2. at[a] \notin Holding /\ \E step : at' = [at EXCEPT ![a] = step]
    BY <1>4 DEF Swept, Looked, Taken, Reread, Shared, Unleased, LetGo, Enter, Registered, Admit, TimeOut,
         Goto, Leasing, Permitted, Holding
  <2>3. has[a] = 0 BY <2>2 DEF PoolInv, HeldInv
  <2>4. \A s \in Slot : Pending(s)' = Pending(s) BY <2>1, <2>2, <2>3 DEF Pending, PoolInv, PoolShape
  <2> QED BY <1>1, <2>1, <2>4
<1> QED BY <1>2, <1>3, <1>4, ChooseWears, TableWears, RecycledWears, ReleasedWears DEF Next, Acts, Closes

LEMMA WearInit == Init => CountedInv /\ WearInv
<1> SUFFICES ASSUME Init PROVE CountedInv /\ WearInv OBVIOUS
<1>1. \A s \in Slot : Pending(s) = {} /\ slot[s].uses = 0 /\ slot[s].health = "healthy"
  BY SlotsAreNatural, SameActors DEF Init, PoolInit, Pending
<1>2. Cardinality({}) = 0 /\ Cardinality(Attempt) \in Nat BY FS_EmptySet, PendingIsFinite
<1>3. \A s \in Slot : slot[s].uses + Cardinality(Pending(s)) <= MaxUses + Cardinality(Attempt)
  <2> SUFFICES ASSUME NEW s \in Slot
               PROVE  slot[s].uses + Cardinality(Pending(s)) <= MaxUses + Cardinality(Attempt)
    OBVIOUS
  <2>1. slot[s].uses = 0 /\ Cardinality(Pending(s)) = 0 BY <1>1, <1>2
  <2> QED BY <1>2, <2>1, PoolAssumption
<1> QED BY <1>1, <1>3, PoolAssumption DEF CountedInv, WearInv

(* For any number of sessions, slots and uses: a resident leaves its slot when the
   slot has served MaxUses sessions or one that raised BrowserRegistrationError,
   whatever is relaunched, evicted or shared meanwhile (BrowserProcessPool.session,
   _acquire_slot).  It says nothing of sessions that raised anything else: their
   slot is degraded and its resident used again. *)
THEOREM BrowsersAreRetired == Spec => []NoWornBrowser
<1>1. WearInv => NoWornBrowser BY DEF WearInv, NoWornBrowser
<1>2. PoolInv /\ CountedInv /\ WearInv /\ [Next]_vars => PoolInv' /\ CountedInv' /\ WearInv'
  BY PoolStep, WearStep
<1> QED BY <1>1, <1>2, PoolInvInit, WearInit, PTL DEF Spec

-----------------------------------------------------------------------------
(* The types of the pool *)

\* The slots in the order of their last use: each once.
OrderInv == order \in [Slot -> Slot] /\ Range(order) = Slot

(* A slot has an age, and it is the place the slot has in the order. *)
LEMMA AgeOf ==
  ASSUME OrderInv, NEW s \in Slot PROVE Age(s) \in Slot /\ order[Age(s)] = s
<1>1. \E k \in Slot : order[k] = s BY DEF OrderInv, Range
<1> QED BY <1>1 DEF Age

(* Moving a slot to the end of the order loses no slot and doubles none: the
   places after it move up by one. *)
LEMMA TouchedKeepsAll ==
  ASSUME OrderInv, NEW s \in Slot, order' = Touched(s) PROVE OrderInv'
<1>1. Age(s) \in Slot /\ order[Age(s)] = s BY AgeOf
<1> DEFINE age == Age(s)
<1>2. /\ order' = [k \in Slot |-> IF k = Slots THEN s
                                 ELSE IF k < age THEN order[k] ELSE order[k + 1]]
      /\ age \in Slot /\ order[age] = s
  BY <1>1 DEF Touched
<1> HIDE DEF age
<1>3. Slots \in Nat \ {0} /\ Slot = 1..Slots BY PoolAssumption DEF Slot
<1>4. order \in [Slot -> Slot] BY DEF OrderInv
<1>5. order' \in [Slot -> Slot]
  <2>1. ASSUME NEW k \in Slot, k # Slots PROVE k + 1 \in Slot BY <1>3, <2>1
  <2>2. ASSUME NEW k \in Slot
        PROVE  (IF k = Slots THEN s ELSE IF k < age THEN order[k] ELSE order[k + 1]) \in Slot
    BY <1>4, <2>1
  <2> QED BY ONLY <1>2, <2>2
<1>6. ASSUME NEW t \in Slot PROVE \E k \in Slot : order'[k] = t
  <2>1. CASE t = s
    <3>1. Slots \in Slot BY <1>3
    <3> QED BY <1>2, <2>1, <3>1
  <2>2. CASE t # s
    <3>1. PICK k \in Slot : order[k] = t BY DEF OrderInv, Range
    <3>2. k # age BY <1>2, <2>2, <3>1
    <3>3. CASE k < age
      <4>1. k # Slots BY <1>2, <1>3, <3>3
      <4> QED BY <1>2, <3>1, <3>3, <4>1
    <3>4. CASE k > age
      <4>1. k - 1 \in Slot /\ k - 1 # Slots /\ ~(k - 1 < age) /\ (k - 1) + 1 = k
        BY <1>2, <1>3, <3>4
      <4>2. order'[k - 1] = order[k] BY <1>2, <4>1
      <4> QED BY <3>1, <4>1, <4>2
    <3> QED BY <1>2, <1>3, <3>2, <3>3, <3>4
  <2> QED BY <2>1, <2>2
<1> QED BY <1>5, <1>6 DEF OrderInv, Range

LEMMA OrderStep == PoolInv /\ OrderInv /\ [Next]_vars => OrderInv'
<1> SUFFICES ASSUME PoolInv, OrderInv, [Next]_vars PROVE OrderInv' OBVIOUS
<1>1. ASSUME order' = order PROVE OrderInv' BY <1>1 DEF OrderInv
<1>2. ASSUME NEW a \in Attempt, Recycled(a) PROVE OrderInv'
  <2>1. has[a] \in Slot BY <1>2, SlotsAreNatural, SameActors
    DEF Recycled, PoolInv, HeldInv, PoolShape, Holding, Permitted
  <2> QED BY <1>2, <2>1, TouchedKeepsAll DEF Recycled, Recycle
<1>3. ASSUME NEW a \in Attempt, Acts(a), ~Recycled(a) PROVE order' = order
  BY <1>3 DEF Acts, Swept, Looked, Taken, Reread, Shared, Unleased, LetGo, Enter, Registered, Admit, TimeOut,
     Choose, OverCap, Evicted, Connect, Launched, Used, Released, poolVars, Acquire, TakeSlot, Evict,
     CloseEvicted, Reuse, TearDown, Launch, LaunchFails, Judge, Judged, Release
<1>4. ASSUME Closes \/ Time \/ UNCHANGED vars PROVE order' = order
  BY <1>4 DEF Closes, Close, CloseResident, Time, vars, poolVars
<1> QED BY <1>1, <1>2, <1>3, <1>4 DEF Next

(* Every slot, browser, lease, counter and step keeps its type, for any number of
   attempts, slots, uses and faults: the permits stay between none and all, the
   order of the slots stays one of all slots, a resident is a browser of some
   session, running or not, and no count of uses passes the limit by more than the sessions of a closed
   pool that share a slot. *)
THEOREM AttemptIsTyped == Spec => []TypeOK
<1> USE SlotsAreNatural, SameActors
<1> DEFINE LedgerTyped == LedgerTypeOK /\ trouble \in 0..MaxTrouble
           Inv == PoolInv /\ CountedInv /\ WearInv /\ OrderInv
<1>1. Init => OrderInv
  <2> SUFFICES ASSUME Init PROVE OrderInv OBVIOUS
  <2>1. order = [s \in Slot |-> s] BY DEF Init, PoolInit
  <2> QED BY <2>1 DEF OrderInv, Range
<1>2. Inv /\ [Next]_vars => Inv'
  BY PoolStep, WearStep, OrderStep
<1>3. Inv /\ PermitInv /\ LedgerTyped => TypeOK
  <2> SUFFICES ASSUME Inv, PermitInv, LedgerTyped PROVE TypeOK OBVIOUS
  <2>1. permits \in 0..Slots
    BY AdmittedIsFinite, PoolAssumption DEF PermitInv
  <2>2. slot \in [Slot -> BrowserSlot]
    <3> SUFFICES ASSUME NEW s \in Slot PROVE slot[s] \in BrowserSlot BY DEF PoolInv, PoolShape
    <3>1. slot[s] \in SlotRecord BY DEF PoolInv, PoolShape
    <3>2. slot[s].uses \in 0..MaxUses + Cardinality(Session)
      <4>1. slot[s].uses + Cardinality(Pending(s)) <= MaxUses + Cardinality(Attempt) BY DEF CountedInv
      <4> QED BY <3>1, <4>1, PendingIsFinite, PoolAssumption DEF SlotRecord
    <3> QED BY <3>1, <3>2 DEF SlotRecord, BrowserSlot
  <2>4. /\ keeps \in BOOLEAN /\ closed \in BOOLEAN
        /\ running \subseteq Browser /\ loose \subseteq running /\ closing \subseteq Browser
        /\ has \in [Session -> Slot \cup {0}]
        /\ with \in [Session -> Browser \cup {0}]
        /\ evicted \in [Session -> Browser \cup {0}]
        /\ at \in [Attempt -> Step] /\ want \in [Session -> Want]
    BY DEF PoolInv, PoolShape
  <2>5. PoolTypeOK BY <2>1, <2>2, <2>4 DEF PoolTypeOK, OrderInv
  <2> QED BY <2>4, <2>5 DEF TypeOK
<1> HIDE DEF LedgerTyped
<1>4. Spec => []LedgerTyped BY LedgerIsTyped DEF LedgerTyped
<1> QED BY <1>1, <1>2, <1>3, <1>4, PoolInvInit, WearInit, PermitInvAlways, PTL DEF Spec

-----------------------------------------------------------------------------
(* The pool as a semaphore *)

\* A session that has its permit has it until it is released.
Pool == INSTANCE Semaphore WITH
          Proc <- Attempt, Permit <- Attempt, Limit <- Slots,
          held <- [a \in Attempt |-> IF at[a] \in Permitted THEN {a} ELSE {}]

\* The instance has a name of its own for the library's operator.
LEMMA SameCardinality == \A S : Pool!Cardinality(S) = Cardinality(S)
  BY DEF Cardinality, Pool!Cardinality

(* Refinement: the sessions of the pool, through failures, evictions, relaunches
   and the close, take and give back permits as the abstract semaphore has it,
   the one the gates between processes implement with slot files. *)
THEOREM PoolIsSemaphore == Spec => Pool!Spec
<1> DEFINE held == [a \in Attempt |-> IF at[a] \in Permitted THEN {a} ELSE {}]
<1>1. Init => Pool!Init
  BY DEF Init, Pool!Init, Permitted
<1>2. PoolInv /\ PermitInv /\ [Next]_vars => [Pool!Next]_held
  <2> SUFFICES ASSUME PoolInv, PermitInv, [Next]_vars PROVE [Pool!Next]_held OBVIOUS
  <2> USE DEF PoolInv, PoolShape
  <2>1. Pool!Taken = Admitted BY DEF Pool!Taken, Admitted
  <2>2. ASSUME NEW a \in Attempt, Admit(a) PROVE Pool!Acquire(a)
    <3>1. at[a] = "wait" /\ at' = [at EXCEPT ![a] = "slot"] /\ permits > 0
      BY <2>2 DEF Admit, Acquire, Goto
    <3>2. Cardinality(Pool!Taken) < Slots
      BY <2>1, <3>1, AdmittedIsFinite, PoolAssumption DEF PermitInv
    <3>3. a \notin Pool!Taken BY <2>1, <3>1 DEF Admitted, Permitted
    <3>4. held' = [held EXCEPT ![a] = @ \cup {a}] BY <3>1 DEF Permitted
    <3>5. \E permit \in Attempt \ Pool!Taken : held' = [held EXCEPT ![a] = @ \cup {permit}]
      BY <3>3, <3>4
    <3> HIDE DEF held
    <3> QED BY <3>2, <3>5, SameCardinality DEF Pool!Acquire, held
  <2>3. ASSUME NEW a \in Attempt, Released(a) PROVE Pool!Release(a)
    <3>1. at[a] = "release" /\ at' = [at EXCEPT ![a] = Rest(a)] /\ Rest(a) \notin Permitted
      BY <2>3 DEF Released, Goto, Rest, Permitted
    <3>2. held' = [held EXCEPT ![a] = @ \ {a}] /\ a \in held[a] BY <3>1 DEF Permitted
    <3> QED BY <3>2 DEF Pool!Release
  <2>4. ASSUME NEW a \in Attempt, Acts(a), ~Admit(a), ~Released(a) PROVE held' = held
    <3> DEFINE Stays == \E step \in Step : /\ at' = [at EXCEPT ![a] = step]
                                           /\ at[a] \in Permitted <=> step \in Permitted
    <3>1. ASSUME Swept(a) \/ Looked(a) \/ Taken(a) PROVE Stays
      BY <3>1 DEF Swept, Looked, Taken, Goto, Step, Leasing, Permitted
    <3>6. ASSUME Reread(a) \/ Shared(a) \/ Unleased(a) \/ LetGo(a) PROVE Stays
      BY <3>6 DEF Reread, Shared, Unleased, LetGo, Goto, Step, Leasing, Permitted
    <3>2. ASSUME Enter(a) \/ Registered(a) \/ TimeOut(a) PROVE Stays
      BY <3>2 DEF Enter, Registered, TimeOut, Goto, Rest, Step, Leasing, Permitted
    <3>3. ASSUME \/ Choose(a) \/ OverCap(a) \/ Evicted(a)
                 \/ Connect(a) \/ Launched(a) \/ Used(a) \/ Recycled(a)
          PROVE  Stays
      BY <3>3 DEF Choose, OverCap, Evicted, Connect, Launched, Used, Recycled, Goto, Step, Permitted
    <3>4. Stays BY <2>4, <3>1, <3>2, <3>3, <3>6 DEF Acts
    <3>5. \A x \in Attempt : at'[x] \in Permitted <=> at[x] \in Permitted BY <3>4
    <3> QED BY <3>5
  <2>5. CASE Closes \/ Time \/ UNCHANGED vars
    BY <2>5 DEF Closes, Time, vars, control
  <2> QED BY <2>2, <2>3, <2>4, <2>5 DEF Next, Acts, Pool!Next
<1> QED BY <1>1, <1>2, PoolInvAlways, PermitInvAlways, PTL DEF Spec, Pool!Spec
-----------------------------------------------------------------------------
(* An attempt only moves on *)

\* What an attempt has still to do, at most.
Todo(step) ==
  CASE step = "sweep" -> 16 [] step = "look" -> 15 [] step = "take" -> 14 [] step = "again" -> 13
    [] step = "share" -> 12
    [] step = "door" -> 11 [] step = "wait" -> 10 [] step = "slot" -> 9 [] step = "cap" -> 8
    [] step = "evicted" -> 7 [] step = "connect" -> 6 [] step = "launch" -> 5 [] step = "use" -> 4
    [] step = "recycle" -> 3 [] step \in {"release", "wire"} -> 2 [] step = "drop" -> 1
    [] step = "over" -> 0

LEMMA TodoIs ==
  /\ Todo("sweep") = 16 /\ Todo("look") = 15 /\ Todo("take") = 14 /\ Todo("again") = 13
  /\ Todo("share") = 12
  /\ Todo("door") = 11 /\ Todo("wait") = 10 /\ Todo("slot") = 9 /\ Todo("cap") = 8
  /\ Todo("evicted") = 7 /\ Todo("connect") = 6 /\ Todo("launch") = 5 /\ Todo("use") = 4
  /\ Todo("recycle") = 3 /\ Todo("release") = 2 /\ Todo("wire") = 2 /\ Todo("drop") = 1
  /\ Todo("over") = 0
BY DEF Todo

Descends ==
  \A a \in Attempt : IF Acts(a) THEN Todo(at'[a]) < Todo(at[a]) ELSE at'[a] = at[a]

\* The lease: a refused insert looks once more and then goes without.
LEMMA LeaseDescends ==
  ASSUME at \in [Attempt -> Step], NEW a \in Attempt,
         Swept(a) \/ Looked(a) \/ Taken(a) \/ Reread(a) \/ Shared(a) \/ Unleased(a) \/ LetGo(a)
  PROVE  Todo(at'[a]) < Todo(at[a]) /\ \A b \in Attempt \ {a} : at'[b] = at[b]
<1>1. \/ at[a] = "sweep" /\ Goto(a, "look")
      \/ at[a] = "look" /\ Goto(a, "take")
      \/ at[a] = "take" /\ (Goto(a, "door") \/ Goto(a, "again"))
      \/ at[a] = "again" /\ Goto(a, "share")
      \/ at[a] = "share" /\ Goto(a, "door")
      \/ at[a] \in Leasing /\ Goto(a, "door")
      \/ at[a] = "drop" /\ Goto(a, "over")
  BY DEF Swept, Looked, Taken, Reread, Shared, Unleased, LetGo
<1>2. at'[a] \in Step /\ \A b \in Attempt \ {a} : at'[b] = at[b] BY <1>1 DEF Goto, Step, Leasing
<1> QED BY <1>1, <1>2, TodoIs DEF Goto, Leasing

\* The session: a browser that does not fit is replaced once.
LEMMA SessionDescends ==
  ASSUME at \in [Attempt -> Step], NEW a \in Attempt,
         \/ Enter(a) \/ Registered(a) \/ Admit(a) \/ TimeOut(a) \/ Choose(a) \/ OverCap(a)
         \/ Evicted(a) \/ Connect(a) \/ Launched(a) \/ Used(a) \/ Recycled(a) \/ Released(a)
  PROVE  Todo(at'[a]) < Todo(at[a]) /\ \A b \in Attempt \ {a} : at'[b] = at[b]
<1>1. Rest(a) \in {"over", "drop"} BY DEF Rest
<1>2. \/ at[a] = "door" /\ (Goto(a, "wire") \/ Goto(a, "wait") \/ Goto(a, Rest(a)))
      \/ at[a] \in {"wire", "wait", "release"} /\ Goto(a, Rest(a))
      \/ at[a] = "wait" /\ Goto(a, "slot")
      \/ at[a] = "slot" /\ Goto(a, "cap")
      \/ at[a] = "cap" /\ Goto(a, "evicted")
      \/ at[a] = "evicted" /\ Goto(a, "connect")
      \/ at[a] \in {"cap", "connect"} /\ (Goto(a, "use") \/ Goto(a, "launch"))
      \/ at[a] = "launch" /\ (Goto(a, "use") \/ Goto(a, "recycle"))
      \/ at[a] = "use" /\ Goto(a, "recycle")
      \/ at[a] = "recycle" /\ Goto(a, "release")
  BY DEF Enter, Registered, Admit, TimeOut, Choose, OverCap, Evicted, Connect, Launched, Used,
     Recycled, Released
<1>3. \A b \in Attempt \ {a} : at'[b] = at[b] BY <1>2 DEF Goto
<1> QED BY <1>1, <1>2, <1>3, TodoIs DEF Goto

(* An attempt is over after at most sixteen steps of its own: no failing
   database, refused insert, recycled or evicted browser, and no close of the
   pool under it, sends it back.  One whose thread goes on lets go of its lease
   and its permit. *)
THEOREM AttemptsMoveOn == Spec => [][Descends]_vars
<1>1. TypeOK /\ [Next]_vars => [Descends]_vars
  <2> SUFFICES ASSUME TypeOK, Next PROVE Descends BY DEF Descends
  <2>1. at \in [Attempt -> Step] BY DEF TypeOK
  <2>2. ASSUME NEW a \in Attempt, Acts(a)
        PROVE  Todo(at'[a]) < Todo(at[a]) /\ \A b \in Attempt \ {a} : at'[b] = at[b]
    BY <2>1, <2>2, LeaseDescends, SessionDescends DEF Acts
  <2>3. CASE \E a \in Attempt : Acts(a)
    <3>1. PICK a \in Attempt : Acts(a) BY <2>3
    <3>2. ASSUME NEW b \in Attempt, ~Acts(b) PROVE at'[b] = at[b] BY <2>2, <3>1, <3>2
    <3> QED BY <2>2, <3>2 DEF Descends
  <2>4. CASE Closes \/ Time
    <3>1. at' = at BY <2>4 DEF Closes, Time, control
    <3> QED BY <2>2, <3>1 DEF Descends
  <2> QED BY <2>3, <2>4 DEF Next
<1> QED BY <1>1, AttemptIsTyped, PTL DEF Spec
=============================================================================
