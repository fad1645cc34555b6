--------------------------- MODULE ExitLeaseProofs ---------------------------
(***************************************************************************)
(* The exit lease ledger under any number of attempts, exits, faults and   *)
(* expiries: no exit is held by nobody, and two attempts that use one exit *)
(* hold one row, unless the ledger lost sight of one of them.  The pool    *)
(* and the rest of an attempt matter only by the step it is at.            *)
(***************************************************************************)
EXTENDS RegistrationAttempt, FiniteSetTheorems, SequenceTheorems, TLAPS

Rows == 1..Len(ledger)
HeldBy(leases, r) == {a \in Attempt : leases[a] = r}
Holders(r) == HeldBy(lease, r)

LedgerShape ==
  /\ at \in [Attempt -> Step]
  /\ want \in [Attempt -> Want]
  /\ ledger \in Seq(Lease)
  /\ lease \in [Attempt -> 0..Len(ledger)]
  /\ holder \in [Attempt -> 0..Len(ledger)]

\* What an attempt has of the ledger, by the step it is at.
StageInv ==
  \A a \in Attempt :
    /\ at[a] \in Leasing => lease[a] = 0 /\ ~Direct(want[a])
    /\ holder[a] # 0 => at[a] \in {"take", "share"} /\ ledger[holder[a]].exit = want[a].proxy
    /\ lease[a] # 0 => ledger[lease[a]].exit = want[a].proxy
    /\ at[a] \notin Leasing \cup {"over"} /\ ~Direct(want[a]) /\ a \notin unseen => lease[a] # 0

\* The count of a row covers its holders; a drop that failed leaves it too high.
CountInv ==
  \A r \in Rows :
    /\ ledger[r].holders >= Cardinality(Holders(r))
    /\ r \notin leaked => ledger[r].holders = Cardinality(Holders(r))
    /\ ledger[r].state = "leased" => ledger[r].holders > 0

\* The partial unique index.
UniqueInv ==
  \A r, q \in Rows :
    ledger[r].state = "leased" /\ ledger[q].state = "leased" /\ ledger[r].exit = ledger[q].exit => r = q

\* Whoever is seen holds a leased row.
SeenInv == \A a \in Attempt \ unseen : lease[a] # 0 => ledger[lease[a]].state = "leased"

LedgerInv == LedgerShape /\ StageInv /\ CountInv /\ UniqueInv /\ SeenInv

-----------------------------------------------------------------------------
LEMMA HoldersAreFinite ==
  ASSUME NEW leases, NEW r
  PROVE  IsFiniteSet(HeldBy(leases, r)) /\ Cardinality(HeldBy(leases, r)) \in Nat
<1>1. IsFiniteSet(Attempt) BY PoolAssumption, AttemptAssumption
<1>2. HeldBy(leases, r) \subseteq Attempt BY DEF HeldBy
<1> QED BY <1>1, <1>2, FS_Subset, FS_CardinalityType

(* One row is written. *)
LEMMA RowWritten ==
  ASSUME ledger \in Seq(Lease), NEW r \in Rows, NEW row \in Lease, ledger' = [ledger EXCEPT ![r] = row]
  PROVE  /\ ledger' \in Seq(Lease) /\ Len(ledger') = Len(ledger)
         /\ ledger'[r] = row
         /\ \A q \in Rows \ {r} : ledger'[q] = ledger[q]
BY ExceptSeq, ElementOfSeq DEF Rows

LEMMA RowCounted ==
  ASSUME NEW p \in Lease, NEW n \in Nat
  PROVE  LET q == [p EXCEPT !.holders = n, !.fresh = TRUE] IN
         q \in Lease /\ q.exit = p.exit /\ q.state = p.state /\ q.holders = n
BY DEF Lease

(* One attempt moves; what the others have read and hold is as it was. *)
LEMMA StageMoves ==
  ASSUME LedgerInv, NEW a \in Attempt, NEW step, at' = [at EXCEPT ![a] = step], want' = want,
         \A r \in Rows : ledger'[r].exit = ledger[r].exit,
         \A x \in Attempt \ {a} : /\ lease'[x] = lease[x] /\ holder'[x] = holder[x]
                                  /\ x \in unseen => x \in unseen',
         /\ step \in Leasing => lease'[a] = 0 /\ ~Direct(want[a])
         /\ holder'[a] # 0 => step \in {"take", "share"} /\ ledger'[holder'[a]].exit = want[a].proxy
         /\ lease'[a] # 0 => ledger'[lease'[a]].exit = want[a].proxy
         /\ step \notin Leasing \cup {"over"} /\ ~Direct(want[a]) /\ a \notin unseen' => lease'[a] # 0
  PROVE  StageInv'
<1>1. SUFFICES ASSUME NEW x \in Attempt
      PROVE  /\ at'[x] \in Leasing => lease'[x] = 0 /\ ~Direct(want[x])
             /\ holder'[x] # 0 => at'[x] \in {"take", "share"} /\ ledger'[holder'[x]].exit = want[x].proxy
             /\ lease'[x] # 0 => ledger'[lease'[x]].exit = want[x].proxy
             /\ at'[x] \notin Leasing \cup {"over"} /\ ~Direct(want[x]) /\ x \notin unseen' => lease'[x] # 0
  BY DEF StageInv, Direct
<1>2. CASE x = a BY <1>2 DEF LedgerInv, LedgerShape
<1>3. CASE x # a
  <2>1. at'[x] = at[x] BY <1>3 DEF LedgerInv, LedgerShape
  <2>2. lease'[x] = lease[x] /\ holder'[x] = holder[x] /\ (x \in unseen => x \in unseen') BY <1>3
  <2>3. (holder[x] # 0 => holder[x] \in Rows) /\ (lease[x] # 0 => lease[x] \in Rows)
    BY LenProperties DEF LedgerInv, LedgerShape, Rows
  <2> QED BY <2>1, <2>2, <2>3 DEF LedgerInv, StageInv
<1> QED BY <1>2, <1>3

LEMMA LedgerInvInit == Init => LedgerInv
<1> SUFFICES ASSUME Init PROVE LedgerInv OBVIOUS
<1>1. ledger = << >> /\ Len(ledger) = 0 /\ Rows = {} BY DEF Init, LedgerInit, Rows
<1>2. LedgerShape
  BY <1>1, AttemptAssumption DEF Init, LedgerInit, PoolInit, LedgerShape, Step, Leasing
<1>3. StageInv BY DEF Init, LedgerInit, StageInv, Leasing
<1>4. CountInv /\ UniqueInv /\ SeenInv BY <1>1 DEF Init, LedgerInit, CountInv, UniqueInv, SeenInv
<1> QED BY <1>2, <1>3, <1>4 DEF LedgerInv

(* Steps after the ledger and before the drop. *)
LEMMA ElsewhereKeeps ==
  ASSUME LedgerInv, UNCHANGED <<ledger, lease, holder, unseen, leaked, want>>,
         at' \in [Attempt -> Step],
         \A a \in Attempt : at'[a] = at[a] \/ (at[a] \notin Leasing \cup {"over"} /\ at'[a] \notin Leasing)
  PROVE  LedgerInv'
<1>1. LedgerShape' BY DEF LedgerInv, LedgerShape
<1>2. StageInv' BY DEF LedgerInv, StageInv, Leasing, Direct
<1>3. CountInv' /\ UniqueInv' /\ SeenInv' BY DEF LedgerInv, CountInv, UniqueInv, SeenInv, Rows, Holders, HeldBy
<1> QED BY <1>1, <1>2, <1>3 DEF LedgerInv

(* A row is marked as out of date; the rest of it stays. *)
LEMMA LapseKeeps ==
  ASSUME LedgerInv, NEW r \in Rows, Lapse(r), UNCHANGED <<control, given>> PROVE LedgerInv'
<1> DEFINE row == [ledger[r] EXCEPT !.fresh = FALSE]
<1>1. /\ ledger' = [ledger EXCEPT ![r] = row]
      /\ UNCHANGED <<lease, holder, unseen, leaked, at, want>>
  BY DEF Lapse, control, given, LedgerInv, LedgerShape
<1>2. /\ row \in Lease /\ row.exit = ledger[r].exit /\ row.state = ledger[r].state
      /\ row.holders = ledger[r].holders
  <2>1. ledger[r] \in Lease BY ElementOfSeq DEF LedgerInv, LedgerShape, Rows
  <2> QED BY <2>1 DEF Lease
<1> HIDE DEF row
<1>3. /\ ledger' \in Seq(Lease) /\ Len(ledger') = Len(ledger)
      /\ \A q \in Rows : /\ ledger'[q].exit = ledger[q].exit /\ ledger'[q].state = ledger[q].state
                         /\ ledger'[q].holders = ledger[q].holders
  BY <1>1, <1>2, RowWritten, ZenonT(60) DEF LedgerInv, LedgerShape
<1>4. LedgerShape' /\ Rows' = Rows BY <1>1, <1>3 DEF LedgerInv, LedgerShape, Rows
<1>5. StageInv' BY <1>1, <1>3 DEF LedgerInv, LedgerShape, StageInv, Rows, Direct
<1>6. CountInv' BY <1>1, <1>3, <1>4 DEF LedgerInv, CountInv, Holders, HeldBy
<1>7. UniqueInv' BY <1>3, <1>4 DEF LedgerInv, UniqueInv
<1>8. SeenInv' BY <1>1, <1>3 DEF LedgerInv, LedgerShape, SeenInv, Rows
<1> QED BY <1>4, <1>5, <1>6, <1>7, <1>8 DEF LedgerInv

(* The sweep takes leases from those that still hold them, and says so. *)
LEMMA SweptKeeps == ASSUME LedgerInv, NEW a \in Attempt, Swept(a) PROVE LedgerInv'
<1> DEFINE over == {r \in Rows : ledger[r].state = "leased" /\ ~ledger[r].fresh}
           New(r) == IF r \in over THEN [ledger[r] EXCEPT !.state = "expired"] ELSE ledger[r]
<1>1. /\ ledger' = [r \in Rows |-> New(r)]
      /\ unseen' = unseen \cup {x \in Attempt : lease[x] \in over}
      /\ at[a] = "sweep" /\ at' = [at EXCEPT ![a] = "look"]
      /\ UNCHANGED <<lease, holder, leaked, want>>
  BY DEF Swept, Sweep, Goto, given, Rows
<1>2. \A r \in Rows : /\ New(r) \in Lease /\ New(r).exit = ledger[r].exit
                      /\ New(r).holders = ledger[r].holders
                      /\ New(r).state = IF r \in over THEN "expired" ELSE ledger[r].state
  <2> SUFFICES ASSUME NEW r \in Rows
               PROVE  /\ New(r) \in Lease /\ New(r).exit = ledger[r].exit
                      /\ New(r).holders = ledger[r].holders
                      /\ New(r).state = IF r \in over THEN "expired" ELSE ledger[r].state
    OBVIOUS
  <2>1. ledger[r] \in Lease BY ElementOfSeq DEF LedgerInv, LedgerShape, Rows
  <2> HIDE DEF over
  <2>2. CASE r \in over BY <2>1, <2>2 DEF Lease
  <2>3. CASE r \notin over BY <2>1, <2>3
  <2> QED BY <2>2, <2>3
<1> HIDE DEF New
<1>3. /\ ledger' \in Seq(Lease) /\ Len(ledger') = Len(ledger)
      /\ \A r \in Rows : ledger'[r] = New(r)
  <2>1. Len(ledger) \in Nat BY LenProperties DEF LedgerInv, LedgerShape
  <2>2. ledger' \in Seq(Lease) BY <1>1, <1>2, <2>1, IsASeq DEF Rows
  <2>3. DOMAIN ledger' = 1..Len(ledger') /\ Len(ledger') \in Nat BY <2>2, LenProperties
  <2> QED BY <1>1, <2>1, <2>2, <2>3 DEF Rows
<1>4. LedgerShape' /\ Rows' = Rows BY <1>1, <1>3 DEF LedgerInv, LedgerShape, Rows, Step, Leasing
<1>5. StageInv'
  <2>1. \A r \in Rows : ledger'[r].exit = ledger[r].exit BY <1>2, <1>3
  <2>2. unseen \subseteq unseen' BY <1>1
  <2>3. at' = [at EXCEPT ![a] = "look"] /\ at[a] = "sweep" /\ UNCHANGED <<lease, holder, want>>
    BY <1>1
  <2> HIDE DEF over
  <2>4. /\ lease[a] = 0 /\ holder[a] = 0 /\ ~Direct(want[a])
    BY <2>3 DEF LedgerInv, StageInv, Leasing
  <2> QED BY <2>1, <2>2, <2>3, <2>4, StageMoves DEF Leasing
<1>6. CountInv'
  <2>1. \A r \in Rows : ledger'[r].holders = ledger[r].holders
                        /\ (ledger'[r].state = "leased" => ledger[r].state = "leased")
    BY <1>2, <1>3
  <2> QED BY <1>1, <1>4, <2>1 DEF LedgerInv, CountInv, Holders, HeldBy
<1>7. UniqueInv' BY <1>2, <1>3, <1>4 DEF LedgerInv, UniqueInv
<1>8. SeenInv' BY <1>1, <1>2, <1>3 DEF LedgerInv, LedgerShape, SeenInv, Rows
<1> QED BY <1>4, <1>5, <1>6, <1>7, <1>8 DEF LedgerInv

(* What is read of the ledger is a row of the exit. *)
LEMMA LookKeeps ==
  ASSUME LedgerInv, NEW a \in Attempt, at[a] \in Leasing, NEW step \in {"take", "share"},
         Look(a, want[a].proxy), Goto(a, step)
  PROVE  LedgerInv'
<1>1. PICK r \in LiveConflict(want[a].proxy) :
        /\ holder' = [holder EXCEPT ![a] = r]
        /\ UNCHANGED <<ledger, lease, unseen, leaked, lapses>>
  <2>1. \E h \in {[holder EXCEPT ![a] = r] : r \in LiveConflict(want[a].proxy)} : holder' = h
    BY DEF Look
  <2> QED BY <2>1 DEF Look
<1>2. r \in 0..Len(ledger) /\ (r # 0 => ledger[r].exit = want[a].proxy)
  BY LenProperties DEF LiveConflict, Leased, LedgerInv, LedgerShape
<1>3. at' = [at EXCEPT ![a] = step] /\ want' = want BY DEF Goto, given
<1>4. LedgerShape' BY <1>1, <1>2, <1>3 DEF LedgerInv, LedgerShape, Step, Leasing
<1>5. StageInv' BY <1>1, <1>2, <1>3 DEF LedgerInv, LedgerShape, StageInv, Direct, Leasing
<1>6. CountInv' /\ UniqueInv' /\ SeenInv'
  BY <1>1 DEF LedgerInv, CountInv, UniqueInv, SeenInv, Rows, Holders, HeldBy
<1> QED BY <1>4, <1>5, <1>6 DEF LedgerInv

(* A refused insert leaves no trace. *)
LEMMA RefusedKeeps ==
  ASSUME LedgerInv, NEW a \in Attempt, at[a] = "take", holder[a] = 0, Goto(a, "again"),
         UNCHANGED ledgerVars
  PROVE  LedgerInv'
<1>1. at' = [at EXCEPT ![a] = "again"] /\ want' = want BY DEF Goto, given
<1>2. UNCHANGED <<ledger, lease, holder, unseen, leaked>> BY DEF ledgerVars
<1>3. LedgerShape' BY <1>1, <1>2 DEF LedgerInv, LedgerShape, Step, Leasing
<1>4. StageInv' BY <1>1, <1>2 DEF LedgerInv, LedgerShape, StageInv, Direct, Leasing
<1>5. CountInv' /\ UniqueInv' /\ SeenInv'
  BY <1>2 DEF LedgerInv, CountInv, UniqueInv, SeenInv, Rows, Holders, HeldBy
<1> QED BY <1>3, <1>4, <1>5 DEF LedgerInv

(* A share counts its holder; if the row is no longer leased, it says so. *)
LEMMA ShareKeeps ==
  ASSUME LedgerInv, NEW a \in Attempt, at[a] \in Leasing, Share(a), Goto(a, "door")
  PROVE  LedgerInv'
<1> DEFINE r == holder[a]
           p == ledger[r]
           n == ledger[r].holders + 1
           row == [p EXCEPT !.holders = n, !.fresh = TRUE]
<1>1. /\ r \in Rows /\ lease[a] = 0 /\ ledger[r].exit = want[a].proxy
      /\ at' = [at EXCEPT ![a] = "door"] /\ want' = want
      /\ lease' = [lease EXCEPT ![a] = r]
      /\ holder' = [holder EXCEPT ![a] = 0]
      /\ unseen' = IF ledger[r].state = "leased" THEN unseen ELSE unseen \cup {a}
      /\ leaked' = leaked
  BY LenProperties DEF Share, Goto, given, LedgerInv, LedgerShape, StageInv, Rows
<1>2. row \in Lease /\ row.exit = ledger[r].exit /\ row.state = ledger[r].state
      /\ row.holders = ledger[r].holders + 1 /\ ledger[r].holders \in Nat
  <2>1. p \in Lease BY <1>1, ElementOfSeq DEF LedgerInv, LedgerShape, Rows
  <2>2. p = ledger[r] /\ n = ledger[r].holders + 1 OBVIOUS
  <2>3. n \in Nat /\ ledger[r].holders \in Nat BY <2>1 DEF Lease
  <2> HIDE DEF p, r, n
  <2>4. row \in Lease /\ row.exit = p.exit /\ row.state = p.state /\ row.holders = n
    BY <2>1, <2>3, RowCounted, Zenon
  <2> QED BY <2>2, <2>3, <2>4
<1>3. ledger' = [ledger EXCEPT ![r] = row]
  BY <1>1, LenProperties DEF Share, LedgerInv, LedgerShape, Rows
<1> HIDE DEF row
<1>4. /\ ledger' \in Seq(Lease) /\ Len(ledger') = Len(ledger)
      /\ ledger'[r] = row
      /\ \A q \in Rows \ {r} : ledger'[q] = ledger[q]
  BY <1>1, <1>2, <1>3, RowWritten DEF LedgerInv, LedgerShape
<1>5. \A q \in Rows : ledger'[q].exit = ledger[q].exit /\ ledger'[q].state = ledger[q].state
  BY <1>2, <1>4
<1> HIDE DEF r
<1>6. LedgerShape' /\ Rows' = Rows BY <1>1, <1>4 DEF LedgerInv, LedgerShape, Rows, Step
<1>7. StageInv'
  <2>1. \A x \in Attempt \ {a} : lease'[x] = lease[x] /\ holder'[x] = holder[x]
    BY <1>1 DEF LedgerInv, LedgerShape
  <2>2. lease'[a] = r /\ holder'[a] = 0 /\ r # 0
    BY <1>1 DEF LedgerInv, LedgerShape, Rows
  <2>3. ledger'[r].exit = want[a].proxy /\ unseen \subseteq unseen' BY <1>1, <1>5
  <2> QED BY <1>1, <1>5, <2>1, <2>2, <2>3, StageMoves DEF Leasing
<1>8. CountInv'
  <2>1. HeldBy(lease', r) = HeldBy(lease, r) \cup {a} /\ a \notin HeldBy(lease, r)
    BY <1>1 DEF HeldBy, LedgerInv, LedgerShape, Rows
  <2>2. Cardinality(HeldBy(lease', r)) = Cardinality(HeldBy(lease, r)) + 1
    BY <2>1, HoldersAreFinite, FS_AddElement
  <2>3. \A q \in Rows \ {r} : HeldBy(lease', q) = HeldBy(lease, q)
    BY <1>1 DEF HeldBy, LedgerInv, LedgerShape, Rows
  <2> SUFFICES ASSUME NEW q \in Rows
               PROVE  /\ ledger'[q].holders >= Cardinality(HeldBy(lease', q))
                      /\ q \notin leaked => ledger'[q].holders = Cardinality(HeldBy(lease', q))
                      /\ ledger'[q].state = "leased" => ledger'[q].holders > 0
    BY <1>1, <1>6 DEF CountInv, Holders
  <2>4. CASE q = r BY <1>2, <1>4, <2>2, <2>4, HoldersAreFinite DEF LedgerInv, CountInv, Holders
  <2>5. CASE q # r BY <1>4, <2>3, <2>5 DEF LedgerInv, CountInv, Holders
  <2> QED BY <2>4, <2>5
<1>9. UniqueInv' BY <1>5, <1>6 DEF LedgerInv, UniqueInv
<1>10. SeenInv' BY <1>1, <1>5, SMTT(30) DEF LedgerInv, LedgerShape, SeenInv, Rows
<1> QED BY <1>6, <1>7, <1>8, <1>9, <1>10 DEF LedgerInv

(* A new row is the only leased one of its exit. *)
LEMMA InsertKeeps ==
  ASSUME LedgerInv, NEW a \in Attempt, at[a] \in Leasing, holder[a] = 0,
         Insert(a, want[a].proxy), Goto(a, "door")
  PROVE  LedgerInv'
<1> DEFINE n == Len(ledger) + 1
           row == [exit |-> want[a].proxy, state |-> "leased", holders |-> 1, fresh |-> TRUE]
<1>1. /\ Leased(want[a].proxy) = {} /\ lease[a] = 0
      /\ ledger' = Append(ledger, row)
      /\ lease' = [lease EXCEPT ![a] = n]
      /\ at' = [at EXCEPT ![a] = "door"]
      /\ UNCHANGED <<holder, unseen, leaked, want>>
  BY DEF Insert, Insertable, Goto, given, LedgerInv, StageInv
<1>2. row \in Lease
  <2>1. want[a].proxy \in Exit
    BY AttemptAssumption DEF LedgerInv, LedgerShape, StageInv, Direct
  <2> QED BY <2>1 DEF Lease
<1>3. Len(ledger) \in Nat BY LenProperties DEF LedgerInv, LedgerShape
<1>4. /\ ledger' \in Seq(Lease) /\ Len(ledger') = n
      /\ \A q \in Rows : ledger'[q] = ledger[q]
      /\ ledger'[n].exit = want[a].proxy /\ ledger'[n].state = "leased" /\ ledger'[n].holders = 1
  <2>1. ledger'[n] = row BY <1>1, <1>2, AppendProperties DEF LedgerInv, LedgerShape
  <2> QED BY <1>1, <1>2, <2>1, AppendProperties DEF LedgerInv, LedgerShape, Rows
<1> HIDE DEF row
<1>5. Rows' = Rows \cup {n} /\ n \notin Rows /\ n # 0 BY <1>3, <1>4 DEF Rows
<1>6. LedgerShape' BY <1>1, <1>3, <1>4 DEF LedgerInv, LedgerShape, Step
<1>7. StageInv'
  BY <1>1, <1>3, <1>4, <1>5 DEF LedgerInv, LedgerShape, StageInv, Rows, Direct, Leasing
<1>8. CountInv'
  <2>1. HeldBy(lease', n) = {a} BY <1>1, <1>3 DEF HeldBy, LedgerInv, LedgerShape
  <2>2. Cardinality(HeldBy(lease', n)) = 1 BY <2>1, FS_Singleton
  <2>3. \A q \in Rows : HeldBy(lease', q) = HeldBy(lease, q)
    BY <1>1, <1>5 DEF HeldBy, LedgerInv, LedgerShape, Rows
  <2> SUFFICES ASSUME NEW q \in Rows'
               PROVE  /\ ledger'[q].holders >= Cardinality(HeldBy(lease', q))
                      /\ q \notin leaked => ledger'[q].holders = Cardinality(HeldBy(lease', q))
                      /\ ledger'[q].state = "leased" => ledger'[q].holders > 0
    BY <1>1 DEF CountInv, Holders
  <2>4. CASE q = n BY <1>4, <2>2, <2>4
  <2>5. CASE q \in Rows BY <1>4, <2>3, <2>5 DEF LedgerInv, CountInv, Holders
  <2> QED BY <1>5, <2>4, <2>5
<1>9. UniqueInv'
  <2>1. \A q \in Rows : ~(ledger[q].state = "leased" /\ ledger[q].exit = want[a].proxy)
    BY <1>1 DEF Leased, Rows
  <2> QED BY <1>4, <1>5, <2>1 DEF LedgerInv, UniqueInv
<1>10. SeenInv' BY <1>1, <1>3, <1>4 DEF LedgerInv, LedgerShape, SeenInv, Rows
<1> QED BY <1>6, <1>7, <1>8, <1>9, <1>10 DEF LedgerInv

LEMMA WithoutKeeps ==
  ASSUME LedgerInv, NEW a \in Attempt, at[a] \in Leasing, GoWithout(a), Goto(a, "door")
  PROVE  LedgerInv'
<1>1. /\ unseen' = unseen \cup {a} /\ holder' = [holder EXCEPT ![a] = 0]
      /\ at' = [at EXCEPT ![a] = "door"]
      /\ UNCHANGED <<ledger, lease, leaked, want>>
  BY DEF GoWithout, Goto, given
<1>2. LedgerShape' BY <1>1 DEF LedgerInv, LedgerShape, Step
<1>3. StageInv' BY <1>1 DEF LedgerInv, LedgerShape, StageInv, Direct, Leasing
<1>4. CountInv' /\ UniqueInv' /\ SeenInv'
  BY <1>1 DEF LedgerInv, CountInv, UniqueInv, SeenInv, Rows, Holders, HeldBy
<1> QED BY <1>2, <1>3, <1>4 DEF LedgerInv

LEMMA RowDropped ==
  ASSUME NEW p \in Lease, p.holders > 0
  PROVE  /\ Dropped(p) \in Lease /\ Dropped(p).exit = p.exit
         /\ Dropped(p).holders = p.holders - 1
         /\ Dropped(p).state = IF p.holders = 1 THEN "released" ELSE p.state
<1> DEFINE n == p.holders - 1
           st == IF p.holders = 1 THEN "released" ELSE p.state
           q == [p EXCEPT !.holders = n, !.state = st]
<1>1. Dropped(p) = q BY DEF Dropped, Lease
<1>2. n \in Nat /\ st \in {"leased", "released", "expired"} BY DEF Lease
<1> HIDE DEF n, st
<1>3. q \in Lease /\ q.exit = p.exit /\ q.holders = n /\ q.state = st BY <1>2 DEF Lease
<1> HIDE DEF q
<1> QED BY <1>1, <1>3 DEF n, st

(* Whoever drops a lease is counted by its row; if another still holds it, the
   row stays leased. *)
LEMMA LetGoKeeps == ASSUME LedgerInv, NEW a \in Attempt, LetGo(a) PROVE LedgerInv'
<1> DEFINE r == lease[a]
<1>1. /\ at[a] = "drop" /\ at' = [at EXCEPT ![a] = "over"] /\ want' = want
      /\ lease' = [lease EXCEPT ![a] = 0]
      /\ unseen' = unseen \ {a}
      /\ holder' = holder
  BY DEF LetGo, Drop, Goto, given
<1>2. holder[a] = 0 /\ r \in 0..Len(ledger) /\ Len(ledger) \in Nat
  BY <1>1, LenProperties DEF LedgerInv, LedgerShape, StageInv
<1>3. \A x \in Attempt \ {a} : lease'[x] = lease[x] BY <1>1 DEF LedgerInv, LedgerShape
<1>4. lease'[a] = 0 BY <1>1 DEF LedgerInv, LedgerShape
<1>5. \A q \in Rows : HeldBy(lease', q) = HeldBy(lease, q) \ {a}
  BY <1>3, <1>4 DEF HeldBy, Rows
<1>6. \A q \in Rows \ {r} : HeldBy(lease', q) = HeldBy(lease, q)
  BY <1>3, <1>4 DEF HeldBy, Rows
<1>7. r # 0 => /\ r \in Rows
               /\ Cardinality(HeldBy(lease', r)) = Cardinality(HeldBy(lease, r)) - 1
               /\ Cardinality(HeldBy(lease, r)) \in Nat \ {0}
  <2> SUFFICES ASSUME r # 0
               PROVE  /\ r \in Rows
                      /\ Cardinality(HeldBy(lease', r)) = Cardinality(HeldBy(lease, r)) - 1
                      /\ Cardinality(HeldBy(lease, r)) \in Nat \ {0}
    OBVIOUS
  <2>1. r \in Rows BY <1>2 DEF Rows
  <2>2. a \in HeldBy(lease, r) BY DEF HeldBy
  <2>3. Cardinality(HeldBy(lease, r) \ {a}) = Cardinality(HeldBy(lease, r)) - 1
    BY <2>2, HoldersAreFinite, FS_RemoveElement
  <2>4. HeldBy(lease', r) = HeldBy(lease, r) \ {a} BY <1>5, <2>1
  <2>5. Cardinality(HeldBy(lease', r)) \in Nat /\ Cardinality(HeldBy(lease, r)) \in Nat
    BY HoldersAreFinite
  <2> QED BY <2>1, <2>3, <2>4, <2>5
<1> HIDE DEF r
<1>8. CASE ledger' = ledger /\ (r # 0 => leaked' = leaked \cup {r}) /\ (r = 0 => leaked' = leaked)
  <2>1. LedgerShape' BY <1>1, <1>2, <1>8 DEF LedgerInv, LedgerShape, Step
  <2>2. StageInv' BY <1>1, <1>2, <1>3, <1>4, <1>8, StageMoves DEF Leasing
  <2>3. CountInv'
    <3> SUFFICES ASSUME NEW q \in Rows
                 PROVE  /\ ledger[q].holders >= Cardinality(HeldBy(lease', q))
                        /\ q \notin leaked' => ledger[q].holders = Cardinality(HeldBy(lease', q))
                        /\ ledger[q].state = "leased" => ledger[q].holders > 0
      BY <1>8 DEF CountInv, Holders, Rows
    <3>1. ledger[q].holders \in Nat
      <4>1. ledger[q] \in Lease BY ElementOfSeq DEF LedgerInv, LedgerShape, Rows
      <4> QED BY <4>1 DEF Lease
    <3>2. CASE q = r /\ r # 0 BY <1>7, <1>8, <3>1, <3>2 DEF LedgerInv, CountInv, Holders
    <3>3. CASE q # r BY <1>6, <1>8, <3>3 DEF LedgerInv, CountInv, Holders
    <3> QED BY <3>2, <3>3 DEF Rows
  <2>4. UniqueInv' BY <1>8 DEF LedgerInv, UniqueInv, Rows
  <2>5. SeenInv' BY <1>1, <1>3, <1>4, <1>8 DEF LedgerInv, SeenInv
  <2> QED BY <2>1, <2>2, <2>3, <2>4, <2>5 DEF LedgerInv
<1>9. CASE r # 0 /\ ledger' = [ledger EXCEPT ![r] = Dropped(ledger[r])] /\ leaked' = leaked
  <2>1. ledger[r] \in Lease /\ r \in Rows
    BY <1>7, <1>9, ElementOfSeq DEF LedgerInv, LedgerShape, Rows
  <2>2. ledger[r].holders >= Cardinality(HeldBy(lease, r)) /\ ledger[r].holders \in Nat
    BY <2>1 DEF LedgerInv, CountInv, Holders, Lease
  <2>3. /\ Dropped(ledger[r]) \in Lease /\ Dropped(ledger[r]).exit = ledger[r].exit
        /\ Dropped(ledger[r]).holders = ledger[r].holders - 1
        /\ Dropped(ledger[r]).state = IF ledger[r].holders = 1 THEN "released" ELSE ledger[r].state
    BY <1>7, <1>9, <2>1, <2>2, RowDropped
  <2>4. /\ ledger' \in Seq(Lease) /\ Len(ledger') = Len(ledger)
        /\ ledger'[r] = Dropped(ledger[r])
        /\ \A q \in Rows \ {r} : ledger'[q] = ledger[q]
    BY <1>9, <2>1, <2>3, RowWritten DEF LedgerInv, LedgerShape
  <2>5. LedgerShape' /\ Rows' = Rows BY <1>1, <1>2, <2>4 DEF LedgerInv, LedgerShape, Rows, Step
  <2>6. \A q \in Rows : ledger'[q].exit = ledger[q].exit BY <2>3, <2>4
  <2>7. StageInv' BY <1>1, <1>2, <1>3, <1>4, <2>6, StageMoves DEF Leasing
  <2>8. CountInv'
    <3> SUFFICES ASSUME NEW q \in Rows
                 PROVE  /\ ledger'[q].holders >= Cardinality(HeldBy(lease', q))
                        /\ q \notin leaked => ledger'[q].holders = Cardinality(HeldBy(lease', q))
                        /\ ledger'[q].state = "leased" => ledger'[q].holders > 0
      BY <1>9, <2>5 DEF CountInv, Holders
    <3>1. CASE q = r BY <1>7, <1>9, <2>1, <2>2, <2>3, <2>4, <3>1 DEF LedgerInv, CountInv, Holders
    <3>2. CASE q # r BY <1>6, <2>4, <3>2 DEF LedgerInv, CountInv, Holders
    <3> QED BY <3>1, <3>2
  <2>9. UniqueInv'
    <3>1. \A q \in Rows : ledger'[q].state = "leased" => ledger[q].state = "leased" BY <2>3, <2>4
    <3> QED BY <2>5, <2>6, <3>1 DEF LedgerInv, UniqueInv
  <2>10. SeenInv'
    <3> SUFFICES ASSUME NEW x \in Attempt, x # a, x \notin unseen, lease[x] # 0
                 PROVE  ledger'[lease[x]].state = "leased"
      BY <1>1, <1>3, <1>4 DEF SeenInv
    <3>1. lease[x] \in Rows /\ ledger[lease[x]].state = "leased"
      BY LenProperties DEF LedgerInv, LedgerShape, SeenInv, Rows
    <3>2. CASE lease[x] = r
      <4>1. x \in HeldBy(lease', r) BY <1>3, <3>2 DEF HeldBy
      <4>2. Cardinality(HeldBy(lease', r)) # 0 BY <4>1, HoldersAreFinite, FS_EmptySet
      <4>3. ledger[r].holders # 1 BY <1>7, <1>9, <2>2, <4>2
      <4> QED BY <2>3, <2>4, <3>1, <3>2, <4>3
    <3>3. CASE lease[x] # r BY <2>4, <3>1, <3>3
    <3> QED BY <3>2, <3>3
  <2> QED BY <2>5, <2>7, <2>8, <2>9, <2>10 DEF LedgerInv
<1> QED
  <2>1. CASE Drop(a, TRUE) /\ lease[a] # 0 BY <1>8, <2>1 DEF Drop, r
  <2>2. CASE Drop(a, FALSE)
    <3>1. CASE r = 0 BY <1>8, <2>2, <3>1 DEF Drop, r
    <3>2. CASE r # 0
      <4>1. ledger' = [ledger EXCEPT ![r] = Dropped(ledger[r])]
        BY <1>7, <2>2, <3>2, LenProperties DEF Drop, r, LedgerInv, LedgerShape, Rows
      <4> QED BY <1>9, <2>2, <3>2, <4>1 DEF Drop
    <3> QED BY <3>1, <3>2
  <2> QED BY <2>1, <2>2 DEF LetGo

-----------------------------------------------------------------------------
(* No step of a session is one of the ledger's. *)
LEMMA SessionKeeps ==
  ASSUME LedgerInv, NEW a \in Attempt,
         \/ Enter(a) \/ Registered(a) \/ Admit(a) \/ TimeOut(a) \/ Choose(a) \/ OverCap(a) \/ Evicted(a)
         \/ Connect(a) \/ Launched(a) \/ Used(a) \/ Recycled(a) \/ Released(a)
  PROVE  LedgerInv'
<1>1. UNCHANGED <<ledger, lease, holder, unseen, leaked, want>>
  BY DEF Enter, Registered, Admit, TimeOut, Choose, OverCap, Evicted, Connect, Launched, Used,
         Recycled, Released, Goto, given, ledgerVars
<1>2. \E step \in Step \ Leasing :
        at' = [at EXCEPT ![a] = step] /\ at[a] \notin Leasing \cup {"over"}
  BY DEF Enter, Registered, Admit, TimeOut, Choose, OverCap, Evicted, Connect, Launched, Used,
         Recycled, Released, Goto, given, Rest, Step, Leasing, Permitted
<1>3. /\ at' \in [Attempt -> Step]
      /\ \A x \in Attempt : at'[x] = at[x] \/ (at[x] \notin Leasing \cup {"over"} /\ at'[x] \notin Leasing)
  BY <1>2 DEF LedgerInv, LedgerShape
<1> QED BY <1>1, <1>3, ElsewhereKeeps

LEMMA LedgerStep == LedgerInv /\ [Next]_vars => LedgerInv'
<1> SUFFICES ASSUME LedgerInv, [Next]_vars PROVE LedgerInv' OBVIOUS
<1>1. CASE Closes \/ UNCHANGED vars
  <2>1. UNCHANGED <<ledger, lease, holder, unseen, leaked, want, at>>
    BY <1>1 DEF Closes, vars, given, ledgerVars, control
  <2>2. at' \in [Attempt -> Step] BY <2>1 DEF LedgerInv, LedgerShape
  <2>3. \A x \in Attempt : at'[x] = at[x] BY <2>1
  <2> QED BY <2>1, <2>2, <2>3, ElsewhereKeeps
<1>2. CASE Time BY <1>2, LapseKeeps DEF Time, Rows
<1>3. ASSUME NEW a \in Attempt, Acts(a) PROVE LedgerInv'
  <2>1. CASE Swept(a) BY <2>1, SweptKeeps
  <2>2. CASE Looked(a) BY <2>2, LookKeeps DEF Looked, Leasing
  <2>3. CASE Taken(a)
    <3>1. CASE holder[a] # 0 BY <2>3, <3>1, ShareKeeps DEF Taken, Leasing
    <3>2. CASE holder[a] = 0 /\ Insertable(want[a].proxy)
      BY <2>3, <3>2, InsertKeeps DEF Taken, Leasing
    <3>3. CASE holder[a] = 0 /\ ~Insertable(want[a].proxy)
      <4>1. at[a] = "take" /\ Goto(a, "again") /\ UNCHANGED ledgerVars
        BY <2>3, <3>3 DEF Taken
      <4> QED BY <3>3, <4>1, RefusedKeeps
    <3> QED BY <3>1, <3>2, <3>3
  <2>4. CASE Shared(a)
    <3>1. CASE holder[a] # 0 BY <2>4, <3>1, ShareKeeps DEF Shared, Leasing
    <3>2. CASE holder[a] = 0 BY <2>4, <3>2, WithoutKeeps DEF Shared, Leasing
    <3> QED BY <3>1, <3>2
  <2>5. CASE Unleased(a) BY <2>5, WithoutKeeps DEF Unleased
  <2>6. CASE LetGo(a) BY <2>6, LetGoKeeps
  <2>7. CASE Reread(a) BY <2>7, LookKeeps DEF Reread, Leasing
  <2> QED BY <1>3, <2>1, <2>2, <2>3, <2>4, <2>5, <2>6, <2>7, SessionKeeps DEF Acts
<1> QED BY <1>1, <1>2, <1>3 DEF Next

LEMMA LedgerInvAlways == Spec => []LedgerInv
BY LedgerInvInit, LedgerStep, PTL DEF Spec

(* For any number of attempts and exits, whatever lapses or fails: the count of
   a row is the number of its holders, and a leased row has one that will drop
   it, unless a drop of that row has failed (release_environment_lease). *)
THEOREM NoExitIsSquatted == Spec => []NobodySquats
<1>1. LedgerInv => NobodySquats
  <2> SUFFICES ASSUME LedgerInv, NEW r \in (1..Len(ledger)) \ leaked
               PROVE  /\ ledger[r].holders = Cardinality({a \in Attempt : lease[a] = r})
                      /\ ledger[r].state = "leased" => Cardinality({a \in Attempt : lease[a] = r}) > 0
    BY DEF NobodySquats
  <2>1. ledger[r].holders = Cardinality({a \in Attempt : lease[a] = r})
    BY DEF LedgerInv, CountInv, Holders, HeldBy, Rows
  <2>2. ledger[r].state = "leased" => ledger[r].holders > 0 BY DEF LedgerInv, CountInv, Rows
  <2> QED BY <2>1, <2>2
<1> QED BY <1>1, LedgerInvAlways, PTL

(* For any number of attempts and exits: two attempts that use one exit hold the
   same row, unless the ledger failed one of them, its lease expired, it lost the
   race between reading a row and sharing it, or the winner of the insert it lost
   let go before it was read (acquire_environment_lease). *)
THEOREM NoExitIsSharedSilently == Spec => []NoSilentShare
<1>1. LedgerInv => NoSilentShare
  <2> SUFFICES ASSUME LedgerInv, NEW a \in Attempt \ unseen, NEW b \in Attempt \ unseen,
                      {at[a], at[b]} \subseteq {"use", "wire"},
                      want[a].proxy = want[b].proxy, ~Direct(want[a])
               PROVE  lease[a] = lease[b] /\ lease[a] # 0
    BY DEF NoSilentShare
  <2>1. lease[a] # 0 /\ lease[b] # 0
    BY DEF LedgerInv, StageInv, Leasing, Direct
  <2>2. lease[a] \in Rows /\ lease[b] \in Rows
    BY <2>1, LenProperties DEF LedgerInv, LedgerShape, Rows
  <2>3. ledger[lease[a]].exit = ledger[lease[b]].exit BY <2>1 DEF LedgerInv, StageInv
  <2>4. ledger[lease[a]].state = "leased" /\ ledger[lease[b]].state = "leased"
    BY <2>1 DEF LedgerInv, SeenInv
  <2> QED BY <2>1, <2>2, <2>3, <2>4 DEF LedgerInv, UniqueInv
<1> QED BY <1>1, LedgerInvAlways, PTL

-----------------------------------------------------------------------------
(* The types of the ledger *)

\* The rest of what the ledger keeps; the ids of rows never go out of range.
HistoryInv ==
  /\ unseen \subseteq Attempt
  /\ leaked \subseteq Rows
  /\ lapses \in 0..MaxLapses
  /\ trouble \in 0..MaxTrouble

(* No step removes a row: the ledger grows by one or is as long as it was. *)
LEMMA RowsStay == ASSUME LedgerInv, [Next]_vars PROVE Rows \subseteq Rows'
<1> USE DEF LedgerInv, LedgerShape
<1>1. Len(ledger) \in Nat BY LenProperties
<1>2. ASSUME Len(ledger') = Len(ledger) PROVE Rows \subseteq Rows' BY <1>2 DEF Rows
<1>3. ASSUME DOMAIN ledger' = DOMAIN ledger PROVE Rows \subseteq Rows'
  <2>1. ledger' \in Seq(Lease) BY LedgerStep DEF LedgerInv, LedgerShape
  <2>2. DOMAIN ledger = 1..Len(ledger) /\ DOMAIN ledger' = 1..Len(ledger') BY <2>1, LenProperties
  <2> QED BY <1>3, <2>2 DEF Rows
<1>4. ASSUME NEW a \in Attempt, Swept(a) PROVE Rows \subseteq Rows'
  <2>1. DOMAIN ledger = 1..Len(ledger) BY LenProperties
  <2>2. DOMAIN ledger' = 1..Len(ledger) BY <1>4 DEF Swept, Sweep
  <2> QED BY <1>3, <2>1, <2>2
<1>5. ASSUME NEW row, ledger' = Append(ledger, row) PROVE Rows \subseteq Rows'
  <2>1. Len(ledger') = Len(ledger) + 1 BY <1>5
  <2> QED BY <1>1, <2>1 DEF Rows
<1>6. ASSUME ledger' = ledger PROVE Rows \subseteq Rows' BY <1>6 DEF Rows
<1>8. ASSUME NEW a \in Attempt, Acts(a), ~Swept(a) PROVE Rows \subseteq Rows'
  <2>1. CASE ledger' = ledger BY <2>1, <1>6
  <2>2. CASE Share(a)
    <3>1. DOMAIN ledger' = DOMAIN ledger BY <2>2 DEF Share
    <3> QED BY <3>1, <1>3
  <2>3. CASE Insert(a, want[a].proxy) BY <2>3, <1>5 DEF Insert
  <2>4. CASE \E fails \in BOOLEAN : Drop(a, fails)
    <3>1. DOMAIN ledger' = DOMAIN ledger BY <2>4 DEF Drop
    <3> QED BY <3>1, <1>3
  <2> QED BY <1>8, <2>1, <2>2, <2>3, <2>4 DEF Acts, Looked, Look, Taken, Reread, Shared, Unleased, GoWithout,
       LetGo, Enter, Registered, Admit, TimeOut, Choose, OverCap, Evicted, Connect, Launched, Used,
       Recycled, Released, ledgerVars
<1>9. CASE Time
  <2>1. DOMAIN ledger' = DOMAIN ledger BY <1>9 DEF Time, Lapse
  <2> QED BY <2>1, <1>3
<1>10. CASE Closes \/ UNCHANGED vars BY <1>10, <1>6 DEF Closes, vars, ledgerVars
<1> QED BY <1>4, <1>8, <1>9, <1>10 DEF Next

LEMMA HistoryStep == LedgerInv /\ HistoryInv /\ [Next]_vars => HistoryInv'
<1> SUFFICES ASSUME LedgerInv, HistoryInv, [Next]_vars PROVE HistoryInv' OBVIOUS
<1>1. Rows \subseteq Rows' BY RowsStay
<1>2. trouble' \in 0..MaxTrouble
  <2>1. trouble' = trouble \/ (trouble < MaxTrouble /\ trouble' = trouble + 1)
    BY DEF Next, Acts, Swept, Looked, Taken, Reread, Shared, Unleased, LetGo, Enter, Registered, Admit, TimeOut,
       Choose, OverCap, Evicted, Connect, Launched, Used, Recycled, Released, Trouble, Smooth,
       Closes, Time, vars, given, control
  <2> QED BY <2>1, AttemptAssumption DEF HistoryInv
<1>3. lapses' \in 0..MaxLapses
  <2>1. lapses' = lapses \/ (lapses < MaxLapses /\ lapses' = lapses + 1)
    <3>1. ASSUME NEW a \in Attempt,
                 \/ Swept(a) \/ Looked(a) \/ Taken(a) \/ Reread(a) \/ Shared(a) \/ Unleased(a) \/ LetGo(a)
          PROVE  lapses' = lapses
      BY <3>1 DEF Swept, Sweep, Looked, Look, Taken, Share, Insert, Reread, Shared, GoWithout, Unleased,
         LetGo, Drop, ledgerVars
    <3>2. ASSUME NEW a \in Attempt,
                 ~(Swept(a) \/ Looked(a) \/ Taken(a) \/ Reread(a) \/ Shared(a) \/ Unleased(a) \/ LetGo(a)),
                 Acts(a)
          PROVE  lapses' = lapses
      BY <3>2 DEF Acts, Enter, Registered, Admit, TimeOut, Choose, OverCap, Evicted, Connect, Launched,
         Used, Recycled, Released, ledgerVars
    <3>3. CASE Closes \/ UNCHANGED vars BY <3>3 DEF Closes, vars, ledgerVars
    <3>4. CASE Time BY <3>4 DEF Time, Lapse
    <3> QED BY <3>1, <3>2, <3>3, <3>4 DEF Next
  <2> QED BY <2>1, LedgerAssumption DEF HistoryInv
<1>4. unseen' \subseteq Attempt
  <2>1. ASSUME NEW a \in Attempt,
               \/ Swept(a) \/ Looked(a) \/ Taken(a) \/ Reread(a) \/ Shared(a) \/ Unleased(a) \/ LetGo(a)
        PROVE  unseen' \subseteq Attempt
    BY <2>1 DEF HistoryInv, Swept, Sweep, Looked, Look, Taken, Share, Insert, Reread, Shared, GoWithout,
       Unleased, LetGo, Drop, ledgerVars
  <2>2. ASSUME NEW a \in Attempt,
               ~(Swept(a) \/ Looked(a) \/ Taken(a) \/ Reread(a) \/ Shared(a) \/ Unleased(a) \/ LetGo(a)),
               Acts(a)
        PROVE  unseen' = unseen
    BY <2>2 DEF Acts, Enter, Registered, Admit, TimeOut, Choose, OverCap, Evicted, Connect, Launched,
       Used, Recycled, Released, ledgerVars
  <2>3. CASE Closes \/ UNCHANGED vars BY <2>3 DEF HistoryInv, Closes, vars, ledgerVars
  <2>4. CASE Time BY <2>4 DEF HistoryInv, Time, Lapse
  <2> QED BY <2>1, <2>2, <2>3, <2>4 DEF HistoryInv, Next
<1>5. leaked' \subseteq leaked \cup Rows
  <2>1. ASSUME NEW a \in Attempt, LetGo(a) PROVE leaked' \subseteq leaked \cup Rows
    <3>1. lease[a] # 0 => lease[a] \in Rows BY LenProperties DEF LedgerInv, LedgerShape, Rows
    <3> QED BY <2>1, <3>1 DEF LetGo, Drop
  <2>2. (\A a \in Attempt : ~LetGo(a)) => leaked' = leaked
    BY DEF Next, Acts, Swept, Sweep, Looked, Look, Taken, Share, Insert, Reread, Shared, GoWithout,
       Unleased, Enter, Registered, Admit, TimeOut, Choose, OverCap, Evicted, Connect,
       Launched, Used, Recycled, Released, Closes, Time, Lapse, vars, ledgerVars
  <2> QED BY <2>1, <2>2
<1> QED BY <1>1, <1>2, <1>3, <1>4, <1>5 DEF HistoryInv

(* Every id that an attempt has read or holds is that of a row, for ever: rows
   are only added, and an id is only taken from a row that is there. *)
THEOREM LedgerIsTyped == Spec => [](LedgerTypeOK /\ trouble \in 0..MaxTrouble)
<1>1. Init => HistoryInv
  BY LedgerAssumption, AttemptAssumption DEF Init, LedgerInit, HistoryInv
<1>2. LedgerInv /\ HistoryInv => LedgerTypeOK /\ trouble \in 0..MaxTrouble
  BY DEF LedgerInv, LedgerShape, HistoryInv, LedgerTypeOK, Rows
<1> QED BY <1>1, <1>2, LedgerInvAlways, HistoryStep, PTL DEF Spec
=============================================================================
