----------------------- MODULE RegistrationBatchProofs -----------------------
(***************************************************************************)
(* A batch of any size, with any number of workers, attempts, waves and    *)
(* faults: one result each, a breaker that counts accounts and not their   *)
(* attempts, and terminal verdicts that later attempts leave alone.        *)
(***************************************************************************)
EXTENDS RegistrationBatch, SequenceTheorems, TLAPS

\* What is known of an account, by the step it is at.
AccountInv ==
  \A a \in Account :
    /\ told[a] = IF at[a] = "told" THEN 1 ELSE 0
    /\ a > handed => at[a] = "off"
    /\ at[a] \in {"off", "queued", "check"} => a \notin used
    /\ at[a] \in {"off", "queued", "check", "attempt", "wire"} => result[a] = "none" /\ a \notin registered
    /\ at[a] \in {"settle", "done", "told"} => (result[a] = "ok" <=> a \in registered)
    /\ at[a] = "settle" => result[a] \in Verdict
    /\ at[a] \in {"done", "told"} /\ result[a] \in {"parked", "blocked", "skipped"} => a \notin used
    /\ at[a] \notin {"attempt", "wire", "settle"} => tries[a] = 0
    /\ at[a] = "attempt" => tries[a] < MaxAttempts

\* A batch that returned has told of all its accounts.
OverInv == main = "over" => handed = Count /\ \A a \in Account : at[a] = "told"

\* What the breaker heard of is settled for good.
HeardInv == \A k \in 1..Len(arrivals) : at[arrivals[k]] \in {"done", "told"}

NetIn(heard, verdicts, k) == verdicts[heard[k]] = "network"
RunIn(heard, verdicts, first) ==
  /\ first + BreakAfter - 1 <= Len(heard)
  /\ \A k \in first..first + BreakAfter - 1 : NetIn(heard, verdicts, k)

\* Until it opens the breaker counts the failures at the end of the arrivals.
StreakInv ==
  /\ tripped => \E first \in 1..Len(arrivals) : RunIn(arrivals, result, first)
  /\ ~tripped =>
       /\ streak < BreakAfter /\ streak <= Len(arrivals)
       /\ \A k \in Len(arrivals) - streak + 1..Len(arrivals) : NetIn(arrivals, result, k)
       /\ streak < Len(arrivals) => ~NetIn(arrivals, result, Len(arrivals) - streak)
       /\ \A first \in 1..Len(arrivals) : ~RunIn(arrivals, result, first)

BatchInv == TypeOK /\ waves <= handed /\ AccountInv /\ OverInv /\ HeardInv /\ StreakInv

-----------------------------------------------------------------------------
LEMMA Outcomes == Outcome \subseteq Verdict /\ Verdict \subseteq Result /\ "none" \in Result
                  /\ {"parked", "blocked", "skipped", "cancelled"} \subseteq Result
                  /\ {"ok", "network", "stuck", "dead_end"} \subseteq Verdict
BY BatchAssumption DEF Result, Verdict

(* What record() writes is an entry. *)
LEMMA RecordedIsEntry ==
  ASSUME NEW entry \in Entry, NEW v \in Verdict PROVE Recorded(entry, v) \in Entry
<1> DEFINE old == Current(entry)
<1>1. old \in Entry /\ NoEntry \in Entry /\ DeadEnd \in Entry
  BY DEF Current, NoEntry, DeadEnd, Entry, Kind, Verdict
<1> HIDE DEF old
<1>2. Stuck(old) \in Entry
  BY <1>1, GuardAssumption DEF Stuck, AtMost, Entry, Kind, Verdict
<1>3. v \in {"network", "mailbox"} => Strike(old, v) \in Entry
  BY <1>1, GuardAssumption DEF Strike, AtMost, Class, Entry, Kind, Verdict
<1> QED BY <1>1, <1>2, <1>3 DEF Recorded, Verdict, old

(* A terminal verdict is only erased by a success. *)
LEMMA RecordedKeeps ==
  ASSUME NEW entry \in Entry, NEW v \in Verdict, v # "ok",
         entry.kind = "dead_end" \/ (entry.kind = "quarantined" /\ entry.waiting)
  PROVE  Recorded(entry, v) = entry
<1>1. Current(entry) = entry BY DEF Current
<1>2. Kept(entry) BY DEF Kept
<1> QED BY <1>1, <1>2 DEF Recorded

LEMMA StreakOf ==
  ASSUME NEW v \in Verdict
  PROVE  /\ v = "ok" => Streak(v) = 0
         /\ v # "ok" /\ tripped => Streak(v) = streak
         /\ v = "network" /\ ~tripped => Streak(v) = streak + 1
         /\ v \notin {"ok", "network"} /\ ~tripped => Streak(v) = 0
BY DEF Streak

LEMMA BatchInvInit == Init => BatchInv
<1> SUFFICES ASSUME Init PROVE BatchInv OBVIOUS
<1> USE BatchAssumption, GuardAssumption DEF Init, GuardInit
<1>1. TypeOK
  <2>1. guard \in [Address -> Entry] BY DEF NoEntry, Entry, Kind, Verdict
  <2>2. arrivals \in Seq(Account) OBVIOUS
  <2>3. at \in [Account -> Step] BY DEF Step
  <2>4. result \in [Account -> Result] BY Outcomes
  <2>5. /\ handed \in 0..Count /\ waveFrom \in 1..Count + 1 /\ waves \in 0..Count
        /\ streak \in 0..BreakAfter /\ tries \in [Account -> 0..MaxAttempts]
        /\ faults \in 0..MaxTrouble /\ elsewhere \in 0..MaxTrouble /\ expiries \in 0..MaxExpiries
    OBVIOUS
  <2>6. offset \in 0..Pool - 1 /\ exit \in [Account -> 0..Pool - 1] OBVIOUS
  <2>7. mode \in Mode /\ told \in [Account -> Nat] /\ used = {} /\ registered = {} OBVIOUS
  <2> QED BY <2>1, <2>2, <2>3, <2>4, <2>5, <2>6, <2>7 DEF TypeOK, GuardTypeOK
<1>2. AccountInv BY DEF AccountInv
<1>3. Len(arrivals) = 0 OBVIOUS
<1>4. OverInv /\ HeardInv /\ StreakInv /\ waves <= handed BY <1>3 DEF OverInv, HeardInv, StreakInv
<1> QED BY <1>1, <1>2, <1>4 DEF BatchInv

-----------------------------------------------------------------------------
(* The steps of _run_one *)

(* An account that the breaker has not heard of moves on: what is settled stays. *)
LEMMA BreakerUntouched ==
  ASSUME BatchInv, UNCHANGED breaker,
         \A a \in Account : at[a] \in {"done", "told"} =>
           at'[a] \in {"done", "told"} /\ result'[a] = result[a]
  PROVE  HeardInv' /\ StreakInv'
<1>1. /\ arrivals' = arrivals /\ streak' = streak /\ tripped' = tripped
      /\ arrivals \in Seq(Account) /\ Len(arrivals) \in Nat
      /\ \A k \in 1..Len(arrivals) : arrivals[k] \in Account
  BY ElementOfSeq, LenProperties DEF breaker, BatchInv, TypeOK
<1>2. \A k \in 1..Len(arrivals) : (NetIn(arrivals', result', k) <=> NetIn(arrivals, result, k))
  BY <1>1 DEF NetIn, BatchInv, HeardInv
<1>3. HeardInv' BY <1>1 DEF BatchInv, HeardInv
<1>4. \A first \in 1..Len(arrivals) : (RunIn(arrivals', result', first) <=> RunIn(arrivals, result, first))
  BY <1>1, <1>2, BatchAssumption DEF RunIn
<1>5. streak \in Nat BY BatchAssumption DEF BatchInv, TypeOK
<1>6. StreakInv'
  BY <1>1, <1>2, <1>4, <1>5 DEF BatchInv, StreakInv
<1> QED BY <1>3, <1>6

(* An account takes a step. *)
Moves(a, step, r, n) ==
  /\ UNCHANGED schedule
  /\ at[a] \notin {"done", "told"} /\ a <= handed
  /\ step \in Step \ {"off", "told"} /\ at' = [at EXCEPT ![a] = step]
  /\ r \in Result /\ result' = [result EXCEPT ![a] = r]
  /\ n \in 0..MaxAttempts /\ tries' = [tries EXCEPT ![a] = n]
  /\ exit' \in [Account -> 0..Pool - 1]
  /\ used' \in SUBSET Account /\ registered' \in SUBSET Account
  /\ GuardTypeOK' /\ faults' \in 0..MaxTrouble
  /\ \A b \in Account \ {a} : (b \in used <=> b \in used') /\ (b \in registered <=> b \in registered')
  /\ step \in {"queued", "check"} => a \notin used'
  /\ step \in {"queued", "check", "attempt", "wire"} => r = "none" /\ a \notin registered'
  /\ step \in {"settle", "done"} => (r = "ok" <=> a \in registered')
  /\ step = "settle" => r \in Verdict
  /\ step = "done" /\ r \in {"parked", "blocked", "skipped"} => a \notin used'
  /\ step \notin {"attempt", "wire", "settle"} => n = 0
  /\ step = "attempt" => n < MaxAttempts

LEMMA MovedAndHeard ==
  ASSUME BatchInv, NEW a \in Account, NEW step, NEW r, NEW n, Moves(a, step, r, n),
         HeardInv', StreakInv', streak' \in 0..BreakAfter, tripped' \in BOOLEAN, arrivals' \in Seq(Account)
  PROVE  BatchInv'
<1> USE DEF schedule, Moves
<1>1. TypeOK' BY DEF BatchInv, TypeOK
<1>2. waves' <= handed' BY DEF BatchInv
<1>3. AccountInv'
  <2> SUFFICES ASSUME NEW b \in Account
               PROVE  /\ told'[b] = IF at'[b] = "told" THEN 1 ELSE 0
                      /\ b > handed' => at'[b] = "off"
                      /\ at'[b] \in {"off", "queued", "check"} => b \notin used'
                      /\ at'[b] \in {"off", "queued", "check", "attempt", "wire"} =>
                           result'[b] = "none" /\ b \notin registered'
                      /\ at'[b] \in {"settle", "done", "told"} => (result'[b] = "ok" <=> b \in registered')
                      /\ at'[b] = "settle" => result'[b] \in Verdict
                      /\ at'[b] \in {"done", "told"} /\ result'[b] \in {"parked", "blocked", "skipped"} => b \notin used'
                      /\ at'[b] \notin {"attempt", "wire", "settle"} => tries'[b] = 0
                      /\ at'[b] = "attempt" => tries'[b] < MaxAttempts
    BY DEF AccountInv
  <2>1. CASE b = a
    <3>1. at'[b] = step /\ result'[b] = r /\ tries'[b] = n /\ told'[b] = 0
      BY <2>1 DEF BatchInv, TypeOK, AccountInv
    <3> QED BY <2>1, <3>1 DEF BatchInv, TypeOK, Account
  <2>2. CASE b # a
    <3>1. at'[b] = at[b] /\ result'[b] = result[b] /\ tries'[b] = tries[b] /\ told'[b] = told[b]
      BY <2>2 DEF BatchInv, TypeOK
    <3> QED BY <2>2, <3>1 DEF BatchInv, AccountInv
  <2> QED BY <2>1, <2>2
<1>4. OverInv' BY DEF BatchInv, TypeOK, OverInv
<1> QED BY <1>1, <1>2, <1>3, <1>4 DEF BatchInv

LEMMA Moved ==
  ASSUME BatchInv, NEW a \in Account, NEW step, NEW r, NEW n, Moves(a, step, r, n), UNCHANGED breaker
  PROVE  BatchInv'
<1>1. HeardInv' /\ StreakInv' BY BreakerUntouched DEF Moves, BatchInv, TypeOK
<1>2. streak' \in 0..BreakAfter /\ tripped' \in BOOLEAN /\ arrivals' \in Seq(Account)
  BY DEF breaker, BatchInv, TypeOK
<1> QED BY <1>1, <1>2, MovedAndHeard

LEMMA AtWork ==
  ASSUME BatchInv, NEW a \in Account, at[a] # "off" PROVE a <= handed
BY DEF BatchInv, AccountInv, TypeOK, Account

LEMMA BeginKeeps == ASSUME BatchInv, NEW a \in Account, Begin(a) PROVE BatchInv'
<1>1. /\ at[a] = "queued" /\ a <= handed /\ a \notin used /\ a \notin registered
      /\ result[a] = "none" /\ tries[a] = 0
      /\ UNCHANGED <<guardVars, schedule, breaker, used, exit, registered, faults>>
  BY AtWork DEF Begin, BatchInv, AccountInv
<1>2. GuardTypeOK' BY <1>1 DEF guardVars, BatchInv, TypeOK, GuardTypeOK
<1>3. 0 \in 0..MaxAttempts BY BatchAssumption
<1>4. CASE \E r \in {"cancelled", "parked"} : Answer(a, r)
  <2>1. PICK r \in {"cancelled", "parked"} : Answer(a, r) BY <1>4
  <2>2. Moves(a, "done", r, 0)
    BY <1>1, <1>2, <1>3, <2>1, Outcomes DEF Moves, Answer, Return, Enter, BatchInv, TypeOK, Step
  <2> QED BY <1>1, <2>2, Moved
<1>5. CASE Enter(a, "check") /\ UNCHANGED <<tries, result>>
  <2>1. result' = [result EXCEPT ![a] = "none"] /\ tries' = [tries EXCEPT ![a] = 0]
    BY <1>1, <1>5 DEF BatchInv, TypeOK
  <2>2. Moves(a, "check", "none", 0)
    BY <1>1, <1>2, <1>3, <1>5, <2>1, Outcomes DEF Moves, Enter, BatchInv, TypeOK, Step
  <2> QED BY <1>1, <2>2, Moved
<1> QED BY <1>4, <1>5 DEF Begin

LEMMA FaultIsOne == ASSUME BatchInv, Fault PROVE faults' \in 0..MaxTrouble /\ faults' # faults
BY BatchAssumption DEF Fault, BatchInv, TypeOK

LEMMA CheckKeeps == ASSUME BatchInv, NEW a \in Account, Check(a) PROVE BatchInv'
<1>1. /\ at[a] = "check" /\ a <= handed /\ a \notin used /\ a \notin registered
      /\ result[a] = "none" /\ tries[a] = 0
      /\ UNCHANGED <<guardVars, schedule, breaker, used, registered>>
  BY AtWork DEF Check, BatchInv, AccountInv
<1>2. GuardTypeOK' BY <1>1 DEF guardVars, BatchInv, TypeOK, GuardTypeOK
<1>3. 0 \in 0..MaxAttempts /\ 0 < MaxAttempts BY BatchAssumption
<1>4. CASE Answer(a, "blocked") /\ UNCHANGED <<exit, faults>>
  <2>1. Moves(a, "done", "blocked", 0)
    BY <1>1, <1>2, <1>3, <1>4, Outcomes DEF Moves, Answer, Return, Enter, BatchInv, TypeOK, Step
  <2> QED BY <1>1, <2>1, Moved
<1>5. CASE /\ IF Blocked(a) THEN Fault ELSE UNCHANGED faults
           /\ exit' = [exit EXCEPT ![a] = (a - 1 + offset) % Pool]
           /\ Enter(a, "attempt") /\ UNCHANGED <<tries, result>>
  <2>1. faults' \in 0..MaxTrouble BY <1>5, FaultIsOne DEF BatchInv, TypeOK
  <2>2. (a - 1 + offset) % Pool \in 0..Pool - 1
    BY BatchAssumption DEF BatchInv, TypeOK, Account
  <2>3. exit' \in [Account -> 0..Pool - 1] BY <1>5, <2>2 DEF BatchInv, TypeOK
  <2>4. result' = [result EXCEPT ![a] = "none"] /\ tries' = [tries EXCEPT ![a] = 0]
    BY <1>1, <1>5 DEF BatchInv, TypeOK
  <2>5. Moves(a, "attempt", "none", 0)
    BY <1>1, <1>2, <1>3, <1>5, <2>1, <2>3, <2>4, Outcomes DEF Moves, Enter, BatchInv, TypeOK, Step
  <2> QED BY <1>1, <2>5, Moved
<1>6. CASE Fault /\ Return(a, "raised") /\ UNCHANGED <<exit, result>>
  <2>1. result' = [result EXCEPT ![a] = "none"] BY <1>1, <1>6 DEF BatchInv, TypeOK
  <2>2. Moves(a, "raised", "none", 0)
    BY <1>1, <1>2, <1>3, <1>6, <2>1, FaultIsOne, Outcomes DEF Moves, Return, Enter, BatchInv, TypeOK, Step
  <2> QED BY <1>1, <2>2, Moved
<1> QED BY <1>4, <1>5, <1>6 DEF Check

LEMMA AttemptsKeeps == ASSUME BatchInv, NEW a \in Account, Attempts(a) PROVE BatchInv'
<1>1. /\ at[a] = "attempt" /\ a <= handed /\ a \notin registered
      /\ result[a] = "none" /\ tries[a] < MaxAttempts /\ tries[a] \in Nat
      /\ UNCHANGED <<guardVars, schedule, breaker, exit, registered, faults>>
  BY AtWork, BatchAssumption DEF Attempts, BatchInv, AccountInv, TypeOK
<1>2. GuardTypeOK' BY <1>1 DEF guardVars, BatchInv, TypeOK, GuardTypeOK
<1>3. CASE Answer(a, "cancelled") /\ UNCHANGED used
  <2>1. 0 \in 0..MaxAttempts BY BatchAssumption
  <2>2. Moves(a, "done", "cancelled", 0)
    BY <1>1, <1>2, <1>3, <2>1, Outcomes DEF Moves, Answer, Return, Enter, BatchInv, TypeOK, Step
  <2> QED BY <1>1, <2>2, Moved
<1>4. CASE /\ Enter(a, "wire") /\ tries' = [tries EXCEPT ![a] = @ + 1]
           /\ used' = used \cup {a} /\ UNCHANGED result
  <2>1. result' = [result EXCEPT ![a] = "none"] /\ tries' = [tries EXCEPT ![a] = tries[a] + 1]
    BY <1>1, <1>4 DEF BatchInv, TypeOK
  <2>2. tries[a] + 1 \in 0..MaxAttempts BY <1>1, BatchAssumption
  <2>3. Moves(a, "wire", "none", tries[a] + 1)
    BY <1>1, <1>2, <1>4, <2>1, <2>2, Outcomes DEF Moves, Enter, BatchInv, TypeOK, Step
  <2> QED BY <1>1, <2>3, Moved
<1> QED BY <1>3, <1>4 DEF Attempts

LEMMA RegisterKeeps == ASSUME BatchInv, NEW a \in Account, Register(a) PROVE BatchInv'
<1>1. PICK v \in Outcome :
        /\ result' = [result EXCEPT ![a] = v]
        /\ registered' = IF v = "ok" THEN registered \cup {a} ELSE registered
        /\ \/ UNCHANGED guard
           \/ v \in {"ok", "network", "dead_end"} /\ MarkDeadEnd(a)
  BY DEF Register
<1>2. /\ at[a] = "wire" /\ a <= handed /\ a \notin registered /\ Enter(a, "settle")
      /\ UNCHANGED <<expiries, schedule, breaker, tries, used, exit, faults>>
  BY AtWork DEF Register, BatchInv, AccountInv
<1>3. GuardTypeOK'
  <2>1. DeadEnd \in Entry BY DEF DeadEnd, Entry, Kind, Verdict
  <2> QED BY <1>1, <1>2, <2>1 DEF MarkDeadEnd, BatchInv, TypeOK, GuardTypeOK
<1>4. tries' = [tries EXCEPT ![a] = tries[a]] /\ tries[a] \in 0..MaxAttempts
  BY <1>2 DEF BatchInv, TypeOK
<1>5. v \in Result /\ v \in Verdict BY Outcomes
<1>6. Moves(a, "settle", v, tries[a])
  BY <1>1, <1>2, <1>3, <1>4, <1>5 DEF Moves, Enter, BatchInv, TypeOK, Step
<1> QED BY <1>2, <1>6, Moved

LEMMA RetryKeeps == ASSUME BatchInv, NEW a \in Account, Retry(a) PROVE BatchInv'
<1>1. /\ at[a] = "settle" /\ a <= handed /\ result[a] = "network" /\ a \notin registered
      /\ tries[a] < MaxAttempts /\ tries[a] \in 0..MaxAttempts
      /\ result' = [result EXCEPT ![a] = "none"] /\ Enter(a, "attempt")
      /\ UNCHANGED <<guardVars, schedule, breaker, tries, used, exit, registered, faults>>
  BY AtWork DEF Retry, Retryable, BatchInv, AccountInv, TypeOK
<1>2. GuardTypeOK' BY <1>1 DEF guardVars, BatchInv, TypeOK, GuardTypeOK
<1>3. tries' = [tries EXCEPT ![a] = tries[a]] BY <1>1 DEF BatchInv, TypeOK
<1>4. Moves(a, "attempt", "none", tries[a])
  BY <1>1, <1>2, <1>3, Outcomes DEF Moves, Enter, BatchInv, TypeOK, Step
<1> QED BY <1>1, <1>4, Moved

(* The breaker hears of an account that is settled. *)
LEMMA Heard ==
  ASSUME BatchInv, NEW a \in Account, at[a] = "settle", Tally(a, result[a]),
         at' = [at EXCEPT ![a] = "done"], result' = result
  PROVE  HeardInv' /\ StreakInv' /\ streak' \in 0..BreakAfter /\ tripped' \in BOOLEAN /\ arrivals' \in Seq(Account)
<1> DEFINE v == result[a]
           n == Len(arrivals)
<1>1. v \in Verdict /\ n \in Nat /\ arrivals \in Seq(Account)
  BY LenProperties DEF BatchInv, AccountInv, TypeOK
<1>2. /\ streak' = Streak(v)
      /\ tripped' = (tripped \/ Streak(v) = BreakAfter)
      /\ arrivals' = Append(arrivals, a)
  BY DEF Tally
<1>3. /\ arrivals' \in Seq(Account) /\ Len(arrivals') = n + 1
      /\ \A k \in 1..n : arrivals'[k] = arrivals[k]
      /\ arrivals'[n + 1] = a
  BY <1>1, <1>2, AppendProperties
<1>4. \A k \in 1..n : arrivals[k] \in Account /\ at[arrivals[k]] \in {"done", "told"}
  BY <1>1, ElementOfSeq DEF BatchInv, HeardInv
<1>5. HeardInv'
  <2>1. \A b \in Account : at[b] \in {"done", "told"} => at'[b] \in {"done", "told"}
    BY DEF BatchInv, TypeOK
  <2>2. at'[a] = "done" BY DEF BatchInv, TypeOK
  <2>3. \A k \in 1..n : at'[arrivals'[k]] \in {"done", "told"} BY <1>3, <1>4, <2>1
  <2> HIDE DEF n
  <2>4. \A k \in 1..n + 1 : at'[arrivals'[k]] \in {"done", "told"} BY <1>1, <1>3, <2>2, <2>3
  <2> QED BY <1>3, <2>4 DEF HeardInv
<1>6. /\ \A k \in 1..n : (NetIn(arrivals', result', k) <=> NetIn(arrivals, result, k))
      /\ NetIn(arrivals', result', n + 1) <=> v = "network"
  BY <1>1, <1>3 DEF NetIn
<1>7. BreakAfter \in Nat \ {0} /\ streak \in 0..BreakAfter /\ tripped \in BOOLEAN
  BY BatchAssumption DEF BatchInv, TypeOK
<1> HIDE DEF v, n
<1>8. \A first \in 1..n : RunIn(arrivals, result, first) => RunIn(arrivals', result', first)
  BY <1>1, <1>3, <1>6, <1>7 DEF RunIn, n
<1>9. CASE tripped
  <2>1. Streak(v) \in 0..BreakAfter BY <1>1, <1>7, <1>9, StreakOf
  <2>2. PICK first \in 1..n : RunIn(arrivals, result, first) BY <1>9 DEF BatchInv, StreakInv, n
  <2>3. first \in 1..Len(arrivals') /\ RunIn(arrivals', result', first) BY <1>1, <1>3, <1>8, <2>2
  <2>4. tripped' = TRUE BY <1>2, <1>9
  <2>5. StreakInv' BY <2>3, <2>4 DEF StreakInv
  <2> QED BY <1>2, <1>3, <1>5, <2>1, <2>4, <2>5
<1>10. CASE ~tripped
  <2>1. /\ streak < BreakAfter /\ streak <= n
        /\ \A k \in n - streak + 1..n : NetIn(arrivals, result, k)
        /\ streak < n => ~NetIn(arrivals, result, n - streak)
        /\ \A first \in 1..n : ~RunIn(arrivals, result, first)
    BY <1>10 DEF BatchInv, StreakInv, n
  <2>2. CASE v = "network"
    <3>1. Streak(v) = streak + 1 /\ streak' = streak + 1 BY <1>1, <1>2, <1>10, <2>2, StreakOf
    <3>2. \A k \in n - streak + 1..n + 1 : NetIn(arrivals', result', k) BY <1>1, <1>6, <1>7, <2>1, <2>2
    <3>3. CASE streak + 1 = BreakAfter
      <4>1. tripped' = TRUE BY <1>2, <3>1, <3>3
      <4>2. n - streak + 1 \in 1..Len(arrivals') BY <1>1, <1>3, <1>7, <2>1
      <4>3. RunIn(arrivals', result', n - streak + 1) BY <1>1, <1>3, <1>7, <2>1, <3>2, <3>3 DEF RunIn
      <4>4. StreakInv' BY <4>1, <4>2, <4>3 DEF StreakInv
      <4> QED BY <1>3, <1>5, <1>7, <3>1, <3>3, <4>1, <4>4
    <3>4. CASE streak + 1 # BreakAfter
      <4>1. tripped' = FALSE BY <1>2, <1>10, <3>1, <3>4
      <4>2. streak + 1 < BreakAfter BY <1>7, <2>1, <3>4
      <4>3. streak' < n + 1 => ~NetIn(arrivals', result', n + 1 - streak')
        BY <1>1, <1>6, <1>7, <2>1, <3>1
      <4>4. ASSUME NEW first \in 1..n + 1, RunIn(arrivals', result', first) PROVE FALSE
        <5>1. first + BreakAfter - 1 <= n + 1 /\ \A k \in first..first + BreakAfter - 1 : NetIn(arrivals', result', k)
          BY <1>3, <4>4 DEF RunIn
        <5>2. CASE first + BreakAfter - 1 <= n
          <6>1. RunIn(arrivals, result, first) BY <1>1, <1>6, <1>7, <5>1, <5>2 DEF RunIn, n
          <6> QED BY <1>1, <1>7, <2>1, <5>2, <6>1
        <5>3. CASE first + BreakAfter - 1 = n + 1
          <6>1. n - streak \in first..n /\ n - streak \in 1..n BY <1>1, <1>7, <2>1, <4>2, <5>3
          <6>2. NetIn(arrivals', result', n - streak) BY <1>1, <1>7, <5>1, <5>3, <6>1
          <6> QED BY <1>6, <2>1, <6>1, <6>2, <1>1, <1>7
        <5> QED BY <1>1, <1>7, <5>1, <5>2, <5>3
      <4>5. StreakInv'
        BY <1>1, <1>3, <1>7, <2>1, <3>1, <3>2, <4>1, <4>2, <4>3, <4>4 DEF StreakInv
      <4>6. streak' \in 0..BreakAfter BY <1>7, <3>1, <4>2
      <4> QED BY <1>3, <1>5, <4>1, <4>5, <4>6, Zenon
    <3> QED BY <3>3, <3>4
  <2>3. CASE v # "network"
    <3>1. streak' = 0 /\ tripped' = FALSE BY <1>1, <1>2, <1>7, <1>10, <2>3, StreakOf
    <3>2. ~NetIn(arrivals', result', n + 1) BY <1>6, <2>3
    <3>3. ASSUME NEW first \in 1..n + 1, RunIn(arrivals', result', first) PROVE FALSE
      <4>1. first + BreakAfter - 1 <= n + 1 /\ \A k \in first..first + BreakAfter - 1 : NetIn(arrivals', result', k)
        BY <1>3, <3>3 DEF RunIn
      <4>2. first + BreakAfter - 1 # n + 1 BY <1>1, <1>7, <3>2, <4>1
      <4>3. first \in 1..n /\ first + BreakAfter - 1 <= n BY <1>1, <1>7, <4>1, <4>2
      <4>4. RunIn(arrivals, result, first) BY <1>1, <1>6, <1>7, <4>1, <4>3 DEF RunIn, n
      <4> QED BY <2>1, <4>3, <4>4
    <3>4. StreakInv' BY <1>1, <1>3, <1>7, <3>1, <3>2, <3>3 DEF StreakInv
    <3>5. streak' \in 0..BreakAfter BY <1>7, <3>1
    <3> QED BY <1>3, <1>5, <3>1, <3>4, <3>5, Zenon
  <2> QED BY <2>2, <2>3
<1> QED BY <1>9, <1>10

LEMMA SettleKeeps == ASSUME BatchInv, NEW a \in Account, Settle(a) PROVE BatchInv'
<1>1. /\ at[a] = "settle" /\ a <= handed /\ result[a] \in Verdict /\ 0 \in 0..MaxAttempts
      /\ (result[a] = "ok" <=> a \in registered)
      /\ result' = [result EXCEPT ![a] = result[a]] /\ result[a] \in Result
      /\ UNCHANGED <<expiries, schedule, used, exit, result, registered>>
  BY AtWork, BatchAssumption, Outcomes DEF Settle, BatchInv, AccountInv, TypeOK
<1>2. CASE Fault /\ Return(a, "raised") /\ UNCHANGED <<guard, breaker>>
  <2>1. GuardTypeOK' BY <1>1, <1>2 DEF BatchInv, TypeOK, GuardTypeOK
  <2>2. Moves(a, "raised", result[a], 0)
    BY <1>1, <1>2, <2>1, FaultIsOne DEF Moves, Return, Enter, BatchInv, TypeOK, Step
  <2> QED BY <1>2, <2>2, Moved
<1>3. CASE /\ \/ Record(a, result[a]) /\ UNCHANGED faults
              \/ RecordAlone(a, result[a]) /\ Fault
           /\ Tally(a, result[a]) /\ Return(a, "done")
  <2>1. faults' \in 0..MaxTrouble BY <1>3, FaultIsOne DEF BatchInv, TypeOK
  <2>2. GuardTypeOK'
    <3>1. guard[a] \in Entry BY BatchAssumption DEF BatchInv, TypeOK, GuardTypeOK
    <3>2. NoEntry \in Entry BY DEF NoEntry, Entry, Kind, Verdict
    <3>3. Recorded(guard[a], result[a]) \in Entry /\ Recorded(NoEntry, result[a]) \in Entry
      BY <1>1, <3>1, <3>2, RecordedIsEntry
    <3> QED BY <1>1, <1>3, <3>2, <3>3 DEF Record, RecordAlone, BatchInv, TypeOK, GuardTypeOK
  <2>3. Moves(a, "done", result[a], 0)
    <3>1. result[a] \notin {"parked", "blocked", "skipped"} BY <1>1 DEF Verdict
    <3> QED BY <1>1, <1>3, <2>1, <2>2, <3>1 DEF Moves, Return, Enter, BatchInv, TypeOK, Step
  <2>4. /\ HeardInv' /\ StreakInv' /\ streak' \in 0..BreakAfter /\ tripped' \in BOOLEAN
        /\ arrivals' \in Seq(Account)
    BY <1>1, <1>3, Heard DEF Return, Enter
  <2> QED BY <2>3, <2>4, MovedAndHeard
<1> QED BY <1>2, <1>3 DEF Settle

-----------------------------------------------------------------------------
(* The schedulers *)

(* Accounts are handed to the workers, in order and once. *)
LEMMA SubmitKeeps ==
  ASSUME BatchInv, main = "running", NEW n \in handed..Count, Submit(n),
         waveFrom' \in 1..Count + 1, waves' \in 0..n, offset' \in 0..Pool - 1,
         UNCHANGED <<workerVars, mode, main, cancel, result, told>>
  PROVE  BatchInv'
<1>1. /\ handed' = n /\ n \in 0..Count /\ handed <= n /\ handed \in Nat /\ Count \in Nat
      /\ at' = [a \in Account |-> IF a \in handed + 1..n THEN "queued" ELSE at[a]]
      /\ UNCHANGED <<guardVars, breaker, tries, used, exit, registered, faults, elsewhere, mode, main,
                     cancel, result, told>>
  BY BatchAssumption DEF Submit, workerVars, BatchInv, TypeOK
<1>2. \A a \in Account : a \in handed + 1..n => at[a] = "off"
  BY <1>1 DEF BatchInv, AccountInv, Account
<1>3. TypeOK'
  <2>1. GuardTypeOK' BY <1>1 DEF guardVars, BatchInv, TypeOK, GuardTypeOK
  <2>2. at' \in [Account -> Step] BY <1>1 DEF BatchInv, TypeOK, Step
  <2>3. waves' \in 0..Count BY <1>1
  <2> QED BY <1>1, <2>1, <2>2, <2>3 DEF breaker, BatchInv, TypeOK
<1>4. AccountInv'
  <2> SUFFICES ASSUME NEW a \in Account
               PROVE  /\ told[a] = IF at'[a] = "told" THEN 1 ELSE 0
                      /\ a > n => at'[a] = "off"
                      /\ at'[a] \in {"off", "queued", "check"} => a \notin used
                      /\ at'[a] \in {"off", "queued", "check", "attempt", "wire"} =>
                           result[a] = "none" /\ a \notin registered
                      /\ at'[a] \in {"settle", "done", "told"} => (result[a] = "ok" <=> a \in registered)
                      /\ at'[a] = "settle" => result[a] \in Verdict
                      /\ at'[a] \in {"done", "told"} /\ result[a] \in {"parked", "blocked", "skipped"} => a \notin used
                      /\ at'[a] \notin {"attempt", "wire", "settle"} => tries[a] = 0
                      /\ at'[a] = "attempt" => tries[a] < MaxAttempts
    BY <1>1 DEF AccountInv
  <2>1. CASE a \in handed + 1..n BY <1>1, <1>2, <2>1 DEF BatchInv, AccountInv, Account
  <2>2. CASE a \notin handed + 1..n BY <1>1, <2>2 DEF BatchInv, AccountInv, Account
  <2> QED BY <2>1, <2>2
<1>5. OverInv' BY <1>1 DEF OverInv
<1>6. HeardInv' /\ StreakInv'
  <2>1. \A a \in Account : at[a] \in {"done", "told"} => at'[a] = at[a] BY <1>1, <1>2
  <2> QED BY <1>1, <2>1, BreakerUntouched
<1> QED BY <1>1, <1>3, <1>4, <1>5, <1>6 DEF BatchInv

LEMMA DispatchKeeps == ASSUME BatchInv, Dispatch PROVE BatchInv'
<1>1. /\ main = "running" /\ handed < Count /\ handed \in 0..Count /\ Count \in Nat
      /\ waveFrom' \in 1..Count + 1 /\ waves' \in 0..handed /\ offset' \in 0..Pool - 1
      /\ UNCHANGED <<workerVars, mode, main, cancel, result, told>>
  BY BatchAssumption DEF Dispatch, BatchInv, TypeOK
<1>2. PICK n \in {handed + 1, Count} : Submit(n) BY DEF Dispatch
<1>3. n \in handed..Count /\ waves' \in 0..n BY <1>1, <1>2
<1> QED BY <1>1, <1>2, <1>3, SubmitKeeps

LEMMA NextWaveKeeps == ASSUME BatchInv, NextWave PROVE BatchInv'
<1> DEFINE size == IF waves = 0 \/ DispatchBlocked THEN 1 ELSE WaveSize
           n == AtMost(handed + size, Count)
<1>1. /\ main = "running" /\ handed < Count /\ handed \in 0..Count /\ Count \in Nat /\ waves \in 0..handed
      /\ waves' = waves + 1 /\ waveFrom' = handed + 1 /\ Submit(n)
      /\ offset' = IF waves > 0 /\ DispatchBlocked THEN (offset + 1) % Pool ELSE offset
      /\ UNCHANGED <<workerVars, mode, main, cancel, result, told>>
  BY BatchAssumption DEF NextWave, BatchInv, TypeOK
<1>2. size \in Nat \ {0} BY BatchAssumption
<1> HIDE DEF size
<1>3. n \in handed + 1..Count BY <1>1, <1>2 DEF AtMost
<1> HIDE DEF n
<1>4. offset' \in 0..Pool - 1
  <2>1. offset \in 0..Pool - 1 /\ (offset + 1) % Pool \in 0..Pool - 1
    BY BatchAssumption DEF BatchInv, TypeOK
  <2> QED BY <1>1, <2>1
<1>5. n \in handed..Count /\ waves' \in 0..n /\ waveFrom' \in 1..Count + 1 BY <1>1, <1>3
<1> QED BY <1>1, <1>4, <1>5, SubmitKeeps

(* The pulse loop itself answers for the accounts it never handed on. *)
LEMMA AbandonKeeps == ASSUME BatchInv, Abandon PROVE BatchInv'
<1>1. /\ main = "running" /\ AllTold /\ handed \in 0..Count /\ Count \in Nat /\ handed' = Count
      /\ at' = [a \in Account |-> "told"]
      /\ result' = [a \in Account |->
                      IF a \in Handed THEN result[a] ELSE IF cancel THEN "cancelled" ELSE "skipped"]
      /\ told' = [a \in Account |-> IF a \in Handed THEN told[a] ELSE told[a] + 1]
      /\ UNCHANGED <<guardVars, breaker, tries, used, exit, registered, faults, elsewhere, mode, main,
                     cancel, waveFrom, waves, offset>>
  BY BatchAssumption DEF Abandon, workerVars, BatchInv, TypeOK
<1>2. \A a \in Account : /\ a \in Handed => at[a] = "told" /\ told[a] = 1
                         /\ a \notin Handed => /\ at[a] = "off" /\ told[a] = 0
                                              /\ a \notin used /\ a \notin registered
  BY <1>1 DEF BatchInv, AccountInv, AllTold, Handed, Account
<1>3. TypeOK'
  <2>1. GuardTypeOK' BY <1>1 DEF guardVars, BatchInv, TypeOK, GuardTypeOK
  <2>2. at' \in [Account -> Step] BY <1>1 DEF Step
  <2>3. result' \in [Account -> Result] BY <1>1, Outcomes DEF BatchInv, TypeOK
  <2>4. told' \in [Account -> Nat] BY <1>1 DEF BatchInv, TypeOK
  <2> QED BY <1>1, <2>1, <2>2, <2>3, <2>4 DEF breaker, BatchInv, TypeOK
<1>4. AccountInv'
  <2> SUFFICES ASSUME NEW a \in Account
               PROVE  /\ told'[a] = 1
                      /\ a > Count => FALSE
                      /\ result'[a] = "ok" <=> a \in registered
                      /\ result'[a] \in {"parked", "blocked", "skipped"} => a \notin used
                      /\ tries[a] = 0
    BY <1>1 DEF AccountInv
  <2>1. CASE a \in Handed BY <1>1, <1>2, <2>1 DEF BatchInv, AccountInv, Account
  <2>2. CASE a \notin Handed BY <1>1, <1>2, <2>2 DEF BatchInv, AccountInv, Account
  <2> QED BY <2>1, <2>2
<1>5. OverInv' /\ waves' <= handed' BY <1>1 DEF OverInv, BatchInv, TypeOK
<1>6. HeardInv' /\ StreakInv'
  <2>1. \A a \in Account : at[a] \in {"done", "told"} => at'[a] = "told" /\ result'[a] = result[a]
    BY <1>1, <1>2
  <2> QED BY <1>1, <2>1, BreakerUntouched
<1> QED BY <1>3, <1>4, <1>5, <1>6 DEF BatchInv

LEMMA TellKeeps == ASSUME BatchInv, NEW a \in Account, Tell(a) PROVE BatchInv'
<1>1. /\ main = "running" /\ at[a] = "done" /\ told[a] = 0
      /\ told' = [told EXCEPT ![a] = told[a] + 1] /\ at' = [at EXCEPT ![a] = "told"]
      /\ UNCHANGED <<guardVars, breaker, tries, used, exit, registered, faults, elsewhere, mode, main,
                     cancel, handed, waveFrom, waves, offset, result>>
  BY DEF Tell, Enter, workerVars, BatchInv, AccountInv
<1>2. TypeOK'
  <2>1. GuardTypeOK' BY <1>1 DEF guardVars, BatchInv, TypeOK, GuardTypeOK
  <2>2. at' \in [Account -> Step] /\ told' \in [Account -> Nat] BY <1>1 DEF BatchInv, TypeOK, Step
  <2> QED BY <1>1, <2>1, <2>2 DEF breaker, BatchInv, TypeOK
<1>3. AccountInv' BY <1>1, AtWork DEF BatchInv, AccountInv, TypeOK, Account
<1>4. OverInv' /\ waves' <= handed' BY <1>1 DEF BatchInv, OverInv
<1>5. HeardInv' /\ StreakInv'
  <2>1. \A b \in Account : at[b] \in {"done", "told"} => at'[b] \in {"done", "told"}
    BY <1>1 DEF BatchInv, TypeOK
  <2> QED BY <1>1, <2>1, BreakerUntouched
<1> QED BY <1>2, <1>3, <1>4, <1>5 DEF BatchInv

(* The batch ends, is cancelled, or other processes and time touch an entry. *)
LEMMA AroundKeeps ==
  ASSUME BatchInv, GuardTypeOK', elsewhere' \in 0..MaxTrouble, cancel' \in BOOLEAN,
         main' \in {"running", "raised", "over", "failed"}, OverInv',
         UNCHANGED <<breaker, tries, used, exit, registered, faults, mode, handed, waveFrom, waves,
                     offset, at, result, told>>
  PROVE  BatchInv'
<1>1. TypeOK' /\ waves' <= handed' BY DEF breaker, BatchInv, TypeOK
<1>2. AccountInv' BY DEF BatchInv, AccountInv
<1>3. HeardInv' /\ StreakInv' BY BreakerUntouched
<1> QED BY <1>1, <1>2, <1>3 DEF BatchInv

LEMMA LeaveKeeps == ASSUME BatchInv, Leave PROVE BatchInv'
<1>1. /\ main' \in {"over", "failed"} /\ cancel' = FALSE
      /\ main' = "over" => handed = Count /\ AllTold
      /\ UNCHANGED <<guardVars, breaker, tries, used, exit, registered, faults, elsewhere, mode,
                     handed, waveFrom, waves, offset, at, result, told>>
  BY DEF Leave, workerVars
<1>2. GuardTypeOK' /\ elsewhere' \in 0..MaxTrouble
  BY <1>1 DEF guardVars, BatchInv, TypeOK, GuardTypeOK
<1>3. OverInv'
  <2> SUFFICES ASSUME main' = "over" PROVE handed = Count /\ \A a \in Account : at[a] = "told"
    BY <1>1 DEF OverInv
  <2>1. handed = Count /\ AllTold BY <1>1
  <2> QED BY <2>1 DEF AllTold, Handed, Account
<1> QED BY <1>1, <1>2, <1>3, AroundKeeps

LEMMA BatchStep == BatchInv /\ [Next]_vars => BatchInv'
<1> SUFFICES ASSUME BatchInv, [Next]_vars PROVE BatchInv' OBVIOUS
<1>1. CASE UNCHANGED vars
  <2>1. GuardTypeOK' /\ OverInv'
    BY <1>1 DEF vars, guardVars, batchVars, BatchInv, TypeOK, GuardTypeOK, OverInv
  <2> QED BY <1>1, <2>1, AroundKeeps DEF vars, batchVars, breaker, BatchInv, TypeOK
<1>2. ASSUME NEW a \in Account, Worker(a) PROVE BatchInv'
  BY <1>2, BeginKeeps, CheckKeeps, AttemptsKeeps, RegisterKeeps, RetryKeeps, SettleKeeps DEF Worker
<1>3. ASSUME NEW a \in Account, Elsewhere(a) PROVE BatchInv'
  <2>1. /\ elsewhere' \in 0..MaxTrouble /\ main = "running"
        /\ UNCHANGED <<breaker, tries, used, exit, registered, faults, mode, main, cancel, handed,
                       waveFrom, waves, offset, at, result, told, expiries>>
    BY <1>3, BatchAssumption DEF Elsewhere, BatchInv, TypeOK
  <2>2. GuardTypeOK'
    <3>1. PICK v \in {"network", "stuck", "dead_end"} : Record(a, v) BY <1>3 DEF Elsewhere
    <3>2. v \in Verdict BY <3>1, Outcomes
    <3>3. guard[a] \in Entry BY BatchAssumption DEF BatchInv, TypeOK, GuardTypeOK
    <3>4. Recorded(guard[a], v) \in Entry BY <3>2, <3>3, RecordedIsEntry
    <3> QED BY <2>1, <3>1, <3>4 DEF Record, BatchInv, TypeOK, GuardTypeOK
  <2> QED BY <2>1, <2>2, AroundKeeps DEF BatchInv, TypeOK, OverInv
<1>4. CASE Main
  <2>1. CASE Raise
    <3>1. GuardTypeOK' /\ OverInv'
      BY <2>1 DEF Raise, workerVars, guardVars, BatchInv, TypeOK, GuardTypeOK, OverInv
    <3> QED BY <2>1, <3>1, AroundKeeps DEF Raise, workerVars, BatchInv, TypeOK
  <2> QED BY <1>4, <2>1, DispatchKeeps, NextWaveKeeps, AbandonKeeps, LeaveKeeps, TellKeeps DEF Main
<1>5. CASE Cancel
  <2>1. GuardTypeOK' /\ OverInv'
    BY <1>5 DEF Cancel, workerVars, guardVars, BatchInv, TypeOK, GuardTypeOK, OverInv
  <2> QED BY <1>5, <2>1, AroundKeeps DEF Cancel, workerVars, BatchInv, TypeOK
<1>6. CASE Time
  <2>1. PICK a \in Account : Expire(a) /\ main = "running" /\ UNCHANGED batchVars BY <1>6 DEF Time
  <2>2. GuardTypeOK'
    <3>1. guard[a] \in Entry BY BatchAssumption DEF BatchInv, TypeOK, GuardTypeOK
    <3>2. [guard[a] EXCEPT !.waiting = FALSE] \in Entry BY <3>1 DEF Entry
    <3>3. guard' = [guard EXCEPT ![a] = [guard[a] EXCEPT !.waiting = FALSE]]
      BY <2>1 DEF Expire, BatchInv, TypeOK, GuardTypeOK
    <3>4. guard' \in [Address -> Entry] BY <3>2, <3>3 DEF BatchInv, TypeOK, GuardTypeOK
    <3>5. expiries \in 0..MaxExpiries /\ expiries < MaxExpiries /\ expiries' = expiries + 1
      BY <2>1 DEF Expire, BatchInv, TypeOK, GuardTypeOK
    <3>6. expiries' \in 0..MaxExpiries BY <3>5, GuardAssumption
    <3> QED BY <3>4, <3>6 DEF GuardTypeOK
  <2>3. OverInv' BY <2>1 DEF batchVars, breaker, BatchInv, OverInv
  <2> QED BY <2>1, <2>2, <2>3, AroundKeeps DEF batchVars, breaker, BatchInv, TypeOK
<1> QED BY <1>1, <1>2, <1>3, <1>4, <1>5, <1>6 DEF Next

LEMMA BatchInvAlways == Spec => []BatchInv
BY BatchInvInit, BatchStep, PTL DEF Spec

-----------------------------------------------------------------------------
(* The types, for any number of accounts, workers, attempts, waves and faults. *)
THEOREM BatchTypesHold == Spec => []TypeOK
BY BatchInvAlways, PTL DEF BatchInv

(* For a batch of any size under any scheduler and whenever it is cancelled: one
   result for each account when run_batch_impl returns, "ok" exactly when an
   attempt registered it, and an account that is parked, blocked or skipped has
   not had its mailbox used. *)
THEOREM EachHasOneVerdict == Spec => []OneVerdictEach
<1>1. BatchInv => OneVerdictEach
  <2> SUFFICES ASSUME BatchInv, NEW a \in Account
               PROVE  /\ told[a] <= 1
                      /\ main = "over" =>
                           /\ told[a] = 1
                           /\ result[a] = "ok" <=> a \in registered
                           /\ result[a] \in {"parked", "blocked", "skipped"} => a \notin used
    BY DEF OneVerdictEach
  <2>1. told[a] = IF at[a] = "told" THEN 1 ELSE 0 BY DEF BatchInv, AccountInv
  <2>2. main = "over" => at[a] = "told" BY DEF BatchInv, OverInv
  <2> QED BY <2>1, <2>2 DEF BatchInv, AccountInv
<1> QED BY <1>1, BatchInvAlways, PTL

(* For any threshold and any order in which accounts finish: the breaker is open
   exactly when so many in a row failed on the environment. *)
THEOREM TripsOnlyOnStreak == Spec => []TripsOnStreak
<1>1. BatchInv => TripsOnStreak
  <2> SUFFICES ASSUME BatchInv
               PROVE  tripped <=> \E first \in 1..Len(arrivals) : RunIn(arrivals, result, first)
    BY DEF TripsOnStreak, RunIn, NetIn
  <2> QED BY DEF BatchInv, TypeOK, StreakInv
<1> QED BY <1>1, BatchInvAlways, PTL

(* For any number of accounts and processes: a dead end, or a quarantine that is
   not over, survives whatever is recorded later, until a success or an
   unreadable file (RegistrationRetryGuard.record). *)
THEOREM VerdictsAreKept == Spec => VerdictKept
<1> DEFINE Terminal(entry) == entry.kind = "dead_end" \/ (entry.kind = "quarantined" /\ entry.waiting)
           Kept1 == \A a \in Account :
             Terminal(guard[a]) =>
               \/ guard'[a].kind \in {guard[a].kind, "dead_end"}
               \/ at[a] = "settle" /\ result[a] = "ok"
               \/ faults' # faults
<1>1. BatchInv /\ [Next]_vars => [Kept1]_vars
  <2> SUFFICES ASSUME BatchInv, Next, NEW a \in Account, Terminal(guard[a]), faults' = faults,
                      ~(at[a] = "settle" /\ result[a] = "ok")
               PROVE  guard'[a].kind \in {guard[a].kind, "dead_end"}
    OBVIOUS
  <2>1. guard \in [Account -> Entry] BY BatchAssumption DEF BatchInv, TypeOK, GuardTypeOK
  <2>2. ASSUME NEW b \in Account, NEW v \in Verdict, Record(b, v), b = a => v # "ok"
        PROVE  guard'[a] = guard[a]
    <3>1. CASE b = a BY <2>1, <2>2, <3>1, RecordedKeeps DEF Record
    <3>2. CASE b # a BY <2>1, <2>2, <3>2 DEF Record
    <3> QED BY <3>1, <3>2
  <2>3. ASSUME NEW b \in Account, Worker(b) PROVE guard'[a].kind \in {guard[a].kind, "dead_end"}
    <3>1. CASE Register(b) BY <2>1, <3>1 DEF Register, MarkDeadEnd, DeadEnd
    <3>2. CASE Settle(b)
      <4>1. ~Fault BY BatchAssumption, FaultIsOne
      <4>2. Record(b, result[b]) \/ UNCHANGED guard BY <3>2, <4>1 DEF Settle
      <4>3. result[b] \in Verdict /\ at[b] = "settle" BY <3>2 DEF Settle, BatchInv, AccountInv
      <4> QED BY <2>2, <4>2, <4>3
    <3>3. CASE Begin(b) \/ Check(b) \/ Attempts(b) \/ Retry(b)
      BY <3>3 DEF Begin, Check, Attempts, Retry, guardVars
    <3> QED BY <2>3, <3>1, <3>2, <3>3 DEF Worker
  <2>4. ASSUME NEW b \in Account, Elsewhere(b) PROVE guard'[a] = guard[a]
    <3>1. PICK v \in {"network", "stuck", "dead_end"} : Record(b, v) BY <2>4 DEF Elsewhere
    <3> QED BY <2>2, <3>1, Outcomes
  <2>5. CASE Main \/ Cancel
    BY <2>5 DEF Main, Dispatch, NextWave, Abandon, Raise, Leave, Tell, Cancel, workerVars, guardVars
  <2>6. CASE Time
    <3>1. PICK b \in Account : Expire(b) BY <2>6 DEF Time
    <3> QED BY <2>1, <3>1 DEF Expire, Entry
  <2> QED BY <2>3, <2>4, <2>5, <2>6 DEF Next
<1> QED BY <1>1, BatchInvAlways, PTL DEF Spec, VerdictKept

-----------------------------------------------------------------------------
(* The accounts only move on *)

\* What an account at a step of its n-th attempt has still to do.
Todo(step, n) ==
  LET attempts == 3 * (MaxAttempts - n) IN
  CASE step = "off" -> attempts + 5
    [] step \in {"queued", "wire"} -> attempts + 4
    [] step \in {"check", "settle"} -> attempts + 3
    [] step = "attempt" -> attempts + 2
    [] step \in {"done", "raised"} -> 1
    [] step = "told" -> 0

Rank(a) == Todo(at[a], tries[a])

LEMMA TodoIs ==
  ASSUME NEW step \in Step, NEW n \in 0..MaxAttempts
  PROVE  /\ Todo(step, n) \in Nat
         /\ step = "told" => Todo(step, n) = 0
         /\ step \in {"done", "raised"} => Todo(step, n) = 1
         /\ step = "attempt" => Todo(step, n) = 3 * (MaxAttempts - n) + 2
         /\ step \in {"check", "settle"} => Todo(step, n) = 3 * (MaxAttempts - n) + 3
         /\ step \in {"queued", "wire"} => Todo(step, n) = 3 * (MaxAttempts - n) + 4
         /\ step = "off" => Todo(step, n) = 3 * (MaxAttempts - n) + 5
<1>1. 3 * (MaxAttempts - n) \in Nat BY BatchAssumption
<1> HIDE DEF Todo
<1>2. step = "told" => Todo(step, n) = 0 BY DEF Todo
<1>3. step \in {"done", "raised"} => Todo(step, n) = 1 BY DEF Todo
<1>4. step = "attempt" => Todo(step, n) = 3 * (MaxAttempts - n) + 2 BY DEF Todo
<1>5. step \in {"check", "settle"} => Todo(step, n) = 3 * (MaxAttempts - n) + 3 BY DEF Todo
<1>6. step \in {"queued", "wire"} => Todo(step, n) = 3 * (MaxAttempts - n) + 4 BY DEF Todo
<1>7. step = "off" => Todo(step, n) = 3 * (MaxAttempts - n) + 5 BY DEF Todo
<1> QED BY <1>1, <1>2, <1>3, <1>4, <1>5, <1>6, <1>7 DEF Step

\* Each step of an account leaves less to do than the one before it.
After(step, n, next, m) ==
  \/ m = n /\ <<step, next>> \in {<<"off", "queued">>, <<"queued", "check">>, <<"check", "attempt">>,
                                 <<"wire", "settle">>, <<"settle", "attempt">>}
  \/ m = n + 1 /\ step = "attempt" /\ next = "wire"
  \/ step \notin {"done", "raised", "told"} /\ next \in {"done", "raised", "told"}
  \/ step \in {"done", "raised"} /\ next = "told"

LEMMA LessToDo ==
  ASSUME NEW step \in Step, NEW n \in 0..MaxAttempts, NEW next \in Step, NEW m \in 0..MaxAttempts,
         After(step, n, next, m)
  PROVE  Todo(next, m) < Todo(step, n)
<1>1. /\ 3 * (MaxAttempts - n) \in Nat /\ 3 * (MaxAttempts - m) \in Nat
      /\ m = n + 1 => 3 * (MaxAttempts - m) = 3 * (MaxAttempts - n) - 3
  BY BatchAssumption
<1>2. CASE m = n /\ <<step, next>> \in {<<"off", "queued">>, <<"queued", "check">>, <<"check", "attempt">>,
                                        <<"wire", "settle">>, <<"settle", "attempt">>}
  BY <1>1, <1>2, TodoIs
<1>3. CASE m = n + 1 /\ step = "attempt" /\ next = "wire"
  BY <1>1, <1>3, TodoIs
<1>4. CASE next \in {"done", "raised", "told"} /\ step \notin {"done", "raised", "told"}
  <2>1. Todo(next, m) <= 1 BY <1>4, TodoIs
  <2>2. Todo(step, n) >= 2 BY <1>1, <1>4, TodoIs DEF Step
  <2> QED BY <2>1, <2>2, TodoIs
<1>5. CASE step \in {"done", "raised"} /\ next = "told"
  BY <1>5, TodoIs
<1> QED BY <1>2, <1>3, <1>4, <1>5 DEF After

Descends ==
  \A a \in Account :
    /\ Rank(a)' <= Rank(a)
    /\ Worker(a) \/ Tell(a) => Rank(a)' < Rank(a)

LEMMA WorkerDescends ==
  ASSUME BatchInv, BatchInv', NEW a \in Account, Worker(a) \/ Tell(a)
  PROVE  Rank(a)' < Rank(a) /\ \A b \in Account \ {a} : Rank(b)' = Rank(b)
<1> USE DEF Enter, Return, Answer
<1>1. /\ at \in [Account -> Step] /\ tries \in [Account -> 0..MaxAttempts]
      /\ at' \in [Account -> Step] /\ tries' \in [Account -> 0..MaxAttempts]
  BY DEF BatchInv, TypeOK
<1>2. ASSUME NEW b \in Account \ {a} PROVE Rank(b)' = Rank(b)
  <2>1. at'[b] = at[b] /\ tries'[b] = tries[b]
    BY <1>1, <1>2 DEF Worker, Begin, Check, Attempts, Register, Retry, Settle, Tell, workerVars
  <2> QED BY <2>1 DEF Rank
<1> SUFFICES After(at[a], tries[a], at'[a], tries'[a])
  BY <1>1, <1>2, LessToDo DEF Rank
<1>3. CASE Begin(a)
  <2>1. /\ at[a] = "queued"
        /\ \/ at'[a] = "check" /\ tries' = tries
           \/ at'[a] = "done"
    BY <1>1, <1>3 DEF Begin
  <2> QED BY <2>1, SMT DEF After
<1>4. CASE Check(a)
  <2>1. /\ at[a] = "check"
        /\ \/ at'[a] = "attempt" /\ tries' = tries
           \/ at'[a] \in {"done", "raised"}
    BY <1>1, <1>4 DEF Check
  <2> QED BY <2>1, SMT DEF After
<1>5. CASE Attempts(a)
  <2>1. /\ at[a] = "attempt"
        /\ \/ at'[a] = "wire" /\ tries'[a] = tries[a] + 1
           \/ at'[a] = "done"
    BY <1>1, <1>5 DEF Attempts
  <2> QED BY <2>1, SMT DEF After
<1>6. CASE Register(a) \/ Retry(a)
  <2>1. /\ tries' = tries
        /\ \/ at[a] = "wire" /\ at'[a] = "settle"
           \/ at[a] = "settle" /\ at'[a] = "attempt"
    BY <1>1, <1>6 DEF Register, Retry
  <2> QED BY <2>1, SMT DEF After
<1>7. CASE Settle(a)
  <2>1. at[a] = "settle" /\ at'[a] \in {"done", "raised"}
    BY <1>1, <1>7 DEF Settle
  <2> QED BY <2>1, SMT DEF After
<1>8. CASE Tell(a)
  <2>1. at[a] = "done" /\ at'[a] = "told"
    BY <1>1, <1>8 DEF Tell
  <2> QED BY <2>1, SMT DEF After
<1> QED BY <1>3, <1>4, <1>5, <1>6, <1>7, <1>8 DEF Worker

(* The schedulers hand accounts out and never take one back. *)
LEMMA StepDescends ==
  ASSUME BatchInv, BatchInv', [Next]_vars
  PROVE  [Descends]_vars
<1>1. \A a \in Account : /\ at[a] \in Step /\ tries[a] \in 0..MaxAttempts
                         /\ at'[a] \in Step /\ tries'[a] \in 0..MaxAttempts
                         /\ Rank(a) \in Nat /\ Rank(a)' \in Nat
  BY TodoIs DEF Rank, BatchInv, TypeOK
<1>2. ASSUME NEW a \in Account, Worker(a) \/ Tell(a) PROVE \A b \in Account : Rank(b)' <= Rank(b)
  BY <1>1, <1>2, WorkerDescends
<1>3. ASSUME NEW n, Submit(n), tries' = tries PROVE \A a \in Account : Rank(a)' <= Rank(a)
  <2>1. ASSUME NEW a \in Account PROVE at'[a] = at[a] \/ (at[a] = "off" /\ at'[a] = "queued")
    BY <1>3 DEF Submit, BatchInv, TypeOK, AccountInv, Account
  <2>2. ASSUME NEW a \in Account PROVE Rank(a)' <= Rank(a)
    <3>1. CASE at'[a] = at[a] BY <1>1, <1>3, <3>1 DEF Rank
    <3>2. CASE at[a] = "off" /\ at'[a] = "queued"
      <4>1. After(at[a], tries[a], at'[a], tries'[a]) BY <1>3, <3>2 DEF After
      <4> QED BY <1>1, <4>1, LessToDo DEF Rank
    <3> QED BY <2>1, <3>1, <3>2
  <2> QED BY <2>2
<1>4. ASSUME at' = at, tries' = tries PROVE \A a \in Account : Rank(a)' <= Rank(a)
  BY <1>1, <1>4 DEF Rank
<1>5. CASE Abandon
  <2>1. ASSUME NEW a \in Account PROVE Rank(a)' <= Rank(a)
    <3>1. at'[a] = "told" /\ tries' = tries BY <1>5 DEF Abandon, workerVars
    <3>2. Rank(a)' = 0 BY <1>1, <3>1, TodoIs DEF Rank
    <3> QED BY <1>1, <3>2
  <2>2. ASSUME NEW a \in Account PROVE Rank(a)' <= Rank(a) BY <2>1
  <2>3. ASSUME NEW a \in Account, Worker(a) \/ Tell(a) PROVE Rank(a)' < Rank(a)
    BY <2>3, WorkerDescends
  <2> QED BY <2>2, <2>3 DEF Descends
<1>6. ASSUME Next, ~Abandon PROVE \A a \in Account : Rank(a)' <= Rank(a)
  <2>1. CASE Dispatch \/ NextWave BY <1>3, <2>1 DEF Dispatch, NextWave, workerVars
  <2>2. CASE Raise \/ Leave \/ Cancel BY <1>4, <2>2 DEF Raise, Leave, Cancel, workerVars
  <2>3. CASE Time \/ \E a \in Account : Elsewhere(a) BY <1>4, <2>3 DEF Time, Elsewhere, batchVars
  <2> QED BY <1>2, <1>6, <2>1, <2>2, <2>3 DEF Next, Main
<1> QED BY <1>5, <1>6, WorkerDescends DEF Descends

(* Retries and waves are bounded: what is left to do for an account never grows,
   and every step of its worker, and its report, makes it less: an account takes
   at most 3 * MaxAttempts + 4 of them, under any scheduler, whatever fails, is
   retried or cancelled.  BatchEnds adds that the threads do go on. *)
THEOREM AccountsMoveOn == Spec => [][Descends]_vars
BY BatchInvAlways, StepDescends, PTL DEF Spec
=============================================================================
