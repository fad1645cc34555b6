------------------------- MODULE PaymentBatchProofs -------------------------
(***************************************************************************)
(* Proofs about PaymentBatch and its authorization queue, for any number   *)
(* of accounts, processes, workers, attempts, runs and faults.             *)
(***************************************************************************)
EXTENDS PaymentBatch, TLAPS

\* The states of a payment operation do not depend on the account.
LEMMA StateIs ==
  ASSUME NEW a
  PROVE  /\ Op(a)!State = {"fresh", "again", "completed", "failed", "uncertain", "open"}
         /\ Op(a)!Closed = {"completed", "failed", "uncertain"}
         /\ Op(a)!Reopenable = {"fresh", "again"}
         /\ Op(a)!Left \subseteq Op(a)!State \ {"open"}
  BY DEF Op!State, Op!Closed, Op!Reopenable, Op!Left

\* Whoever writes has read, and an unreadable file was read as an empty queue.
SectionInv ==
  /\ \A p \in writing : seen[p] # NoRead
  /\ \A p \in blind : seen[p] = Empty

\* The steps of a pass that end in a replace of the file.
Replacing == {"marking", "recording", "failing"}

\* A processor in a pass has its item in hand, the file read wherever it is about
\* to replace it, and the item found there once it writes.  The batch processes
\* nothing.
HandInv ==
  /\ \A p \in Process : work[p] \notin {"idle", "next"} => current[p] \in Item
  /\ \A p \in Process : work[p] \in Replacing => seen[p] # NoRead
  /\ \A p \in writing \ {Batch} : work[p] \in Replacing /\ seen[p][current[p]] # "absent"
  /\ work[Batch] = "idle"

QueueInv == QueueTypeOK /\ SectionInv /\ HandInv

Processor == Process \ {Batch}

-----------------------------------------------------------------------------
SectionStep(p) == Read(p) \/ OpenTemporary(p) \/ Release(p) \/ UNCHANGED section

\* The bookkeeping of the sections, and what becomes of the one of p.
LEMMA SectionKept ==
  ASSUME QueueTypeOK, SectionInv, NEW p \in Process, SectionStep(p)
  PROVE  /\ seen' \in [Process -> [Item -> ItemStatus] \cup {NoRead}]
         /\ blind' \in SUBSET Process /\ writing' \in SUBSET Process /\ mixed' \in SUBSET writing'
         /\ SectionInv'
         /\ \A q \in Process \ {p} : seen'[q] = seen[q] /\ (q \in writing' <=> q \in writing)
         /\ Read(p) => seen'[p] # NoRead /\ p \notin writing'
         /\ OpenTemporary(p) => seen' = seen
         /\ Release(p) => p \notin writing'
         /\ Read(p) \/ OpenTemporary(p) => faults' \in 0..MaxFaults
<1> USE QueueAssumption DEF QueueTypeOK, SectionInv
<1>1. CASE Read(p)
  <2>1. PICK items \in {file, Empty} :
          /\ Loads(items) /\ seen' = [seen EXCEPT ![p] = items]
          /\ blind' = IF items = file THEN blind ELSE blind \cup {p}
    BY <1>1 DEF Read
  <2>2. items \in [Item -> ItemStatus] /\ faults' \in 0..MaxFaults
    BY <2>1 DEF Empty, ItemStatus, Loads, Fault
  <2>3. seen[p] = NoRead /\ UNCHANGED <<writing, mixed>> /\ p \notin writing
    BY <1>1 DEF Read
  <2>4. p \notin blind
    BY <2>3 DEF Empty, ItemStatus
  <2>5. ~OpenTemporary(p) /\ ~Release(p)
    BY <2>1, <2>2, <2>3 DEF OpenTemporary, Release
  <2> QED BY <2>1, <2>2, <2>3, <2>4, <2>5
<1>2. CASE OpenTemporary(p)
  BY <1>2 DEF OpenTemporary, Fault, Read, Release
<1>3. CASE Release(p)
  <2>1. ~Read(p) /\ ~OpenTemporary(p)
    BY <1>3 DEF Release, Read, OpenTemporary, Empty, ItemStatus
  <2>2. /\ seen' = [seen EXCEPT ![p] = NoRead] /\ blind' = blind \ {p}
        /\ writing' = writing \ {p} /\ mixed' = mixed \ {p}
    BY <1>3 DEF Release
  <2> QED BY <2>1, <2>2
<1>4. CASE UNCHANGED section /\ ~Read(p) /\ ~OpenTemporary(p) /\ ~Release(p)
  BY <1>4 DEF section
<1> QED BY <1>1, <1>2, <1>3, <1>4 DEF SectionStep

LEMMA ReplaceTypes ==
  ASSUME QueueTypeOK, NEW p \in Process, seen[p] # NoRead, NEW i \in Item, NEW status \in ItemStatus,
         Replace(p, i, status) \/ ReplaceFails(p, i, status)
  PROVE  /\ file' \in [Item -> ItemStatus] /\ raced' \in SUBSET Item /\ wiped' \in SUBSET Item
         /\ ReplaceFails(p, i, status) => faults' \in 0..MaxFaults
<1>1. [seen[p] EXCEPT ![i] = status] \in [Item -> ItemStatus] /\ Empty \in [Item -> ItemStatus]
  BY DEF QueueTypeOK, Empty, ItemStatus
<1>2. Twice(p, i, status) \in SUBSET Item /\ Unseen(p) \in SUBSET Item
  BY DEF Twice, Unseen
<1>3. ReplaceFails(p, i, status) => faults' \in 0..MaxFaults
  BY QueueAssumption DEF ReplaceFails, Fault, QueueTypeOK
<1>4. CASE UNCHANGED <<file, spoilt>>
  BY <1>3, <1>4 DEF QueueTypeOK, spoilt
<1>5. CASE Replace(p, i, status)
  BY <1>1, <1>2, <1>3, <1>5 DEF QueueTypeOK, Replace
<1> QED BY <1>3, <1>4, <1>5 DEF ReplaceFails

\* A step of a processor: its section, where it goes, the item in its hand.
LEMMA ProcessorTypes ==
  ASSUME QueueInv, NEW p \in Processor, SectionStep(p), NEW next \in Step, NEW i \in Item \cup {NoItem},
         file' \in [Item -> ItemStatus], raced' \in SUBSET Item, wiped' \in SUBSET Item,
         todo' \in [Process -> SUBSET Item], charged' \in [Item -> 0..2], faults' \in 0..MaxFaults,
         work' = [work EXCEPT ![p] = next], current' = [current EXCEPT ![p] = i],
         next \notin {"idle", "next"} => i \in Item,
         next \in Replacing => seen'[p] # NoRead,
         p \in writing' => next \in Replacing /\ seen'[p][i] # "absent"
  PROVE  QueueInv'
<1> USE DEF QueueInv, Processor
<1>1. QueueTypeOK' /\ SectionInv'
  BY SectionKept DEF QueueTypeOK
<1>2. HandInv'
  BY SectionKept, BatchAssumption DEF HandInv, QueueTypeOK
<1> QED BY <1>1, <1>2

\* Every step of a processor keeps the types of the queue.
LEMMA PassTypes ==
  ASSUME QueueInv, NEW p \in Processor, List(p) \/ Pass(p) \/ Stop(p)
  PROVE  QueueInv'
<1> DEFINE i == current[p]
<1>1. /\ work[p] \in Step /\ i \in Item \cup {NoItem} /\ NoItem \in Item \cup {NoItem}
      /\ [work EXCEPT ![p] = work[p]] = work /\ [current EXCEPT ![p] = i] = current
      /\ p \in Process
  BY DEF QueueInv, QueueTypeOK, Processor
<1>2. /\ file \in [Item -> ItemStatus] /\ raced \in SUBSET Item /\ wiped \in SUBSET Item
      /\ todo \in [Process -> SUBSET Item] /\ charged \in [Item -> 0..2] /\ faults \in 0..MaxFaults
  BY DEF QueueInv, QueueTypeOK
<1>3. /\ work[p] \notin {"idle", "next"} => i \in Item
      /\ work[p] \in Replacing => seen[p] # NoRead
      /\ p \in writing => work[p] \in Replacing /\ seen[p][i] # "absent"
  BY DEF QueueInv, HandInv, Processor
<1>4. ASSUME Leave(p), file' \in [Item -> ItemStatus], raced' \in SUBSET Item, wiped' \in SUBSET Item,
             UNCHANGED charged, faults' \in 0..MaxFaults
      PROVE  QueueInv'
  <2>1. todo' \in [Process -> SUBSET Item]
    BY <1>2, <1>4 DEF Leave
  <2>2. p \notin writing' /\ SectionStep(p)
    BY <1>4 DEF Leave, Release, SectionStep
  <2> QED BY <1>1, <1>2, <1>4, <2>1, <2>2, ProcessorTypes DEF Leave, Goto, Step, Replacing
<1>5. ASSUME NEW next \in {"next", "handling", "raised"}, Goto(p, next), Release(p),
             file' \in [Item -> ItemStatus], raced' \in SUBSET Item, wiped' \in SUBSET Item,
             UNCHANGED <<todo, charged>>, faults' \in 0..MaxFaults,
             \/ UNCHANGED current /\ i \in Item
             \/ current' = [current EXCEPT ![p] = NoItem] /\ next = "next"
      PROVE  QueueInv'
  <2>1. p \notin writing' /\ SectionStep(p) /\ next \in Step /\ next \notin Replacing
    BY <1>5 DEF Release, SectionStep, Step, Replacing
  <2> QED BY <1>1, <1>2, <1>5, <2>1, ProcessorTypes DEF Goto
<1>6. CASE List(p)
  <2>1. /\ UNCHANGED <<section, file, current, charged, spoilt, faults>>
        /\ todo' \in [Process -> SUBSET Item] /\ work' = [work EXCEPT ![p] = "next"]
        /\ work[p] = "idle"
    BY <1>2, <1>6 DEF List, Goto, Pending
  <2>2. p \notin writing'
    BY <1>3, <2>1 DEF section, Replacing
  <2> QED BY <1>1, <1>2, <2>1, <2>2, ProcessorTypes DEF Step, SectionStep, spoilt, Replacing
<1>7. CASE EndPass(p) \/ Stop(p)
  BY <1>2, <1>4, <1>7 DEF EndPass, Stop, spoilt
<1>8. CASE Take(p)
  <2>1. PICK j \in todo[p] : current' = [current EXCEPT ![p] = j] /\ todo' = [todo EXCEPT ![p] = @ \ {j}]
    BY <1>8 DEF Take
  <2>2. j \in Item /\ todo' \in [Process -> SUBSET Item]
    BY <1>1, <1>2, <2>1
  <2>3. /\ Read(p) /\ work' = [work EXCEPT ![p] = "marking"] /\ UNCHANGED <<file, charged, spoilt>>
        /\ SectionStep(p)
    BY <1>8 DEF Take, Goto, SectionStep
  <2>4. seen'[p] # NoRead /\ p \notin writing' /\ faults' \in 0..MaxFaults
    BY <1>1, <2>3, SectionKept DEF QueueInv
  <2> QED BY <1>2, <2>1, <2>2, <2>3, <2>4, ProcessorTypes DEF Step, spoilt
<1>9. CASE Open(p)
  <2>1. /\ OpenTemporary(p) /\ SectionStep(p) /\ work[p] \in Replacing /\ seen[p][i] # "absent"
        /\ UNCHANGED <<file, todo, work, current, charged, spoilt>>
    BY <1>9 DEF Open, SectionStep, Replacing
  <2>2. seen' = seen /\ faults' \in 0..MaxFaults
    BY <1>1, <2>1, SectionKept DEF QueueInv
  <2> QED BY <1>1, <1>2, <1>3, <2>1, <2>2, ProcessorTypes DEF spoilt
<1>10. CASE Handle(p)
  <2>1. /\ work[p] = "handling" /\ UNCHANGED <<section, file, todo, current, spoilt>>
        /\ \E next \in {"raised", "handled"} : work' = [work EXCEPT ![p] = next]
        /\ charged' \in [Item -> 0..2]
    BY <1>2, <1>10 DEF Handle, Goto
  <2>2. faults' \in 0..MaxFaults
    BY <1>2, <1>10, QueueAssumption DEF Handle, Loads, Fault
  <2>3. p \notin writing'
    BY <1>3, <2>1 DEF section, Replacing
  <2> QED BY <1>1, <1>2, <1>3, <2>1, <2>2, <2>3, ProcessorTypes DEF Step, SectionStep, spoilt, Replacing
<1>11. CASE Returns(p) \/ Raises(p)
  <2>1. /\ work[p] \in {"handled", "raised"} /\ UNCHANGED <<file, todo, current, charged, spoilt>>
        /\ Read(p) /\ SectionStep(p)
        /\ \E next \in {"recording", "failing"} : work' = [work EXCEPT ![p] = next]
    BY <1>11 DEF Returns, Raises, Reopen, Goto, SectionStep
  <2>2. seen'[p] # NoRead /\ p \notin writing' /\ faults' \in 0..MaxFaults
    BY <1>1, <2>1, SectionKept DEF QueueInv
  <2> QED BY <1>1, <1>2, <1>3, <2>1, <2>2, ProcessorTypes DEF Step, spoilt
<1>12. ASSUME NEW status \in {"running", "settled"}, work[p] \in Replacing,
              Replace(p, i, status) \/ ReplaceFails(p, i, status)
       PROVE  /\ file' \in [Item -> ItemStatus] /\ raced' \in SUBSET Item /\ wiped' \in SUBSET Item
              /\ ReplaceFails(p, i, status) => faults' \in 0..MaxFaults
              /\ i \in Item
  <2>1. i \in Item /\ seen[p] # NoRead /\ status \in ItemStatus
    BY <1>3, <1>12 DEF Replacing, ItemStatus
  <2> QED BY <1>1, <1>12, <2>1, ReplaceTypes DEF QueueInv
<1>13. CASE Mark(p)
  <2>1. work[p] \in Replacing /\ UNCHANGED charged
    BY <1>13 DEF Mark, Replacing
  <2>2. CASE Replace(p, i, "running") /\ Release(p) /\ Goto(p, "handling") /\ UNCHANGED <<todo, current, faults>>
    BY <1>2, <1>5, <1>12, <2>1, <2>2
  <2>3. CASE Leave(p) /\ UNCHANGED <<file, spoilt, faults>>
    BY <1>2, <1>4, <2>1, <2>3 DEF spoilt
  <2>4. CASE ReplaceFails(p, i, "running") /\ Leave(p)
    BY <1>4, <1>12, <2>1, <2>4
  <2> QED BY <1>13, <2>2, <2>3, <2>4 DEF Mark
<1>14. CASE Record(p)
  <2>1. work[p] \in Replacing /\ UNCHANGED charged /\ i \in Item
    BY <1>3, <1>14 DEF Record, Replacing
  <2>2. CASE Replace(p, i, "settled") /\ Advance(p) /\ UNCHANGED faults
    BY <1>2, <1>5, <1>12, <2>1, <2>2 DEF Advance
  <2>3. CASE /\ UNCHANGED <<file, spoilt, faults>> \/ ReplaceFails(p, i, "settled")
             /\ Release(p) /\ Goto(p, "raised") /\ UNCHANGED <<todo, current>>
    BY <1>2, <1>5, <1>12, <2>1, <2>3 DEF spoilt
  <2> QED BY <1>14, <2>2, <2>3 DEF Record
<1>15. CASE Fail(p)
  <2>1. work[p] \in Replacing /\ UNCHANGED charged
    BY <1>15 DEF Fail, Replacing
  <2>2. CASE Replace(p, i, "settled") /\ Advance(p) /\ UNCHANGED faults
    BY <1>2, <1>5, <1>12, <2>1, <2>2 DEF Advance
  <2>3. CASE Leave(p) /\ UNCHANGED <<file, spoilt, faults>>
    BY <1>2, <1>4, <2>1, <2>3 DEF spoilt
  <2>4. CASE ReplaceFails(p, i, "settled") /\ Leave(p)
    BY <1>4, <1>12, <2>1, <2>4
  <2> QED BY <1>15, <2>2, <2>3, <2>4 DEF Fail
<1> QED BY <1>6, <1>7, <1>8, <1>9, <1>10, <1>11, <1>13, <1>14, <1>15 DEF Pass

\* What a step of the batch does to the queue: nothing but read it, open the
\* temporary file or let the section go, or the end of an enqueue.
Quiet == UNCHANGED <<file, todo, work, current, charged, spoilt>> /\ SectionStep(Batch)

Enqueues(a) ==
  /\ step[a] \in {"linking", "writing"}
  /\ \E next \in {"emit", "done"} : step' = [step EXCEPT ![a] = next]
  /\ UNCHANGED <<file, spoilt>> \/ Replace(Batch, a, "pending")
  /\ Release(Batch)
  /\ UNCHANGED <<op, todo, work, current, charged>>

LEMMA BatchTypesQueue ==
  ASSUME QueueInv, SectionStep(Batch), UNCHANGED <<todo, work, current, charged>>,
         file' \in [Item -> ItemStatus], raced' \in SUBSET Item, wiped' \in SUBSET Item,
         faults' \in 0..MaxFaults
  PROVE  QueueInv'
<1> USE BatchAssumption DEF QueueInv
<1>1. QueueTypeOK' /\ SectionInv'
  BY SectionKept DEF QueueTypeOK
<1>2. HandInv'
  BY SectionKept DEF HandInv, QueueTypeOK, Replacing
<1> QED BY <1>1, <1>2

LEMMA QuietTypes ==
  ASSUME QueueInv, Quiet, faults' \in 0..MaxFaults
  PROVE  QueueInv'
  BY BatchTypesQueue DEF Quiet, QueueInv, QueueTypeOK, spoilt

LEMMA EnqueueTypes ==
  ASSUME QueueInv, NEW a \in Item, Enqueues(a), faults' \in 0..MaxFaults
  PROVE  QueueInv'
<1>1. SectionStep(Batch)
  BY DEF Enqueues, SectionStep
<1>2. Replace(Batch, a, "pending") => Batch \in Process /\ seen[Batch] # NoRead
  BY BatchAssumption DEF Replace, QueueInv, SectionInv
<1>3. file' \in [Item -> ItemStatus] /\ raced' \in SUBSET Item /\ wiped' \in SUBSET Item
  BY <1>2, ReplaceTypes DEF Enqueues, QueueInv, QueueTypeOK, spoilt, ItemStatus
<1> QED BY <1>1, <1>3, BatchTypesQueue DEF Enqueues

-----------------------------------------------------------------------------
\* Every step of the batch is quiet on the queue or enqueues one link.
Worked(a) == Worker(a) \/ Act(a)

BatchStep == (\E resume \in BOOLEAN : Start(resume)) \/ (\E a \in Account : Worked(a)) \/ Main \/ Crash

LEMMA BatchOnQueue ==
  ASSUME QueueTypeOK, BatchStep
  PROVE  faults' \in 0..MaxFaults /\ (Quiet \/ \E a \in Item : Enqueues(a))
<1> USE QueueAssumption DEF QueueTypeOK
<1>1. ASSUME NEW resume \in BOOLEAN, Start(resume) PROVE Quiet /\ faults' \in 0..MaxFaults
  BY <1>1 DEF Start, Quiet, BatchFault, Fault, SectionStep, section, spoilt
<1>2. ASSUME NEW a \in Account, Worked(a), ~HandOff(a), ~OpenQueue(a), ~Append(a)
      PROVE  Quiet /\ faults' \in 0..MaxFaults
  BY <1>2 DEF Worked, Worker, Authenticate, Call, Misread, Act, Return, Abort, Emit, Raise, BatchFault, Fault, Quiet,
              SectionStep, section, spoilt, NoQueueStep, queueVars
<1>3. ASSUME NEW a \in Account, OpenQueue(a) \/ Append(a) PROVE Quiet /\ faults' \in 0..MaxFaults
  BY <1>3 DEF OpenQueue, Append, Read, Loads, OpenTemporary, Fault, Quiet, SectionStep
<1>4. ASSUME NEW a \in Account, HandOff(a) PROVE Enqueues(a) /\ faults' \in 0..MaxFaults
  BY <1>4 DEF HandOff, Enqueue, ReplaceFails, Raised, Answer, Enter, Fault, Enqueues, spoilt
<1>5. CASE Main \/ Crash
  BY <1>5 DEF Main, Collect, Finish, Drained, Crash, BatchFault, Fault, Quiet, SectionStep, section, spoilt, queueVars
<1> QED BY <1>1, <1>2, <1>3, <1>4, <1>5 DEF BatchStep, Account

\* The types of the variables of the batch.
BatchTypeOK ==
  /\ direct \in Links
  /\ op \in [Account -> {"fresh", "again", "completed", "failed", "uncertain", "open"}]
  /\ acted \in [Account -> BOOLEAN]
  /\ report \in [status : {"absent", "running", "finished"}, rows : [Account -> Row]]
  /\ main \in {"off", "loop", "draining"}
  /\ resumed \in BOOLEAN
  /\ rows \in [Account -> Row]
  /\ step \in [Account -> WorkerStep]
  /\ tries \in [Account -> 0..Retries + 1]
  /\ result \in [Account -> Row]
  /\ lost \in SUBSET Account
  /\ runs \in 0..MaxRuns
  /\ \A a \in Account : /\ step[a] = "try" => tries[a] <= Retries
                        /\ step[a] \in {"off", "queued", "done"} => tries[a] = 0
                        /\ main = "off" => step[a] = "off"

LEMMA RunOverTypes ==
  ASSUME RunOver
  PROVE  /\ main' \in {"off", "loop", "draining"} /\ resumed' \in BOOLEAN
         /\ rows' \in [Account -> Row] /\ step' \in [Account -> WorkerStep]
         /\ tries' \in [Account -> 0..Retries + 1] /\ result' \in [Account -> Row]
         /\ \A a \in Account : step'[a] = "off" /\ tries'[a] = 0
<1>1. 0 \in 0..Retries + 1
  BY BatchAssumption
<1> QED BY <1>1 DEF RunOver, NoRows, Row, WorkerStep

LEMMA AnswerTypes ==
  ASSUME BatchTypeOK, NEW a \in Account, NEW row \in Row, Answer(a, row), step[a] # "off",
         op' \in [Account -> {"fresh", "again", "completed", "failed", "uncertain", "open"}],
         lost' \in SUBSET Account, UNCHANGED <<direct, acted, report, main, resumed, rows, runs>>
  PROVE  BatchTypeOK'
<1>1. 0 \in 0..Retries + 1
  BY BatchAssumption
<1>2. /\ result' \in [Account -> Row] /\ step' \in [Account -> WorkerStep]
      /\ tries' \in [Account -> 0..Retries + 1]
  BY <1>1 DEF Answer, Enter, BatchTypeOK, WorkerStep
<1>3. main # "off"
  BY DEF BatchTypeOK
<1>4. ASSUME NEW b \in Account
      PROVE  /\ step'[b] = "try" => tries'[b] <= Retries
             /\ step'[b] \in {"off", "queued", "done"} => tries'[b] = 0
  BY <1>4 DEF Answer, Enter, BatchTypeOK
<1> QED BY <1>2, <1>3, <1>4 DEF BatchTypeOK

LEMMA RaiseTypes ==
  ASSUME BatchTypeOK, NEW a \in Account, Raised(a), step[a] # "off",
         op' \in [Account -> {"fresh", "again", "completed", "failed", "uncertain", "open"}],
         UNCHANGED <<direct, acted, report, main, resumed, rows, runs>>
  PROVE  BatchTypeOK'
<1>1. PICK row \in {"retryable", "settled"} : Answer(a, row)
  BY DEF Raised
<1>2. row \in Row /\ lost' \in SUBSET Account
  BY DEF Row, Raised, BatchTypeOK
<1> QED BY <1>1, <1>2, AnswerTypes

LEMMA BatchTypes ==
  ASSUME BatchTypeOK, BatchStep
  PROVE  BatchTypeOK'
<1> USE BatchAssumption
<1>1. ASSUME NEW resume \in BOOLEAN, Start(resume) PROVE BatchTypeOK'
  <2> DEFINE kept == [a \in Account |->
                        IF resume /\ Resumable(report.rows[a]) THEN report.rows[a] ELSE "none"]
  <2>1. kept \in [Account -> Row] /\ report.rows \in [Account -> Row]
    BY DEF BatchTypeOK, Row
  <2>2. CASE UNCHANGED <<main, resumed, rows, step, report, lost>>
    BY <1>1, <2>2 DEF Start, BatchTypeOK
  <2>3. CASE ~UNCHANGED <<main, resumed, rows, step, report, lost>>
    <3>1. /\ main' = "loop" /\ resumed' = resume /\ rows' = kept
          /\ step' = [a \in Account |-> IF kept[a] = "none" THEN "queued" ELSE "off"]
          /\ report' \in {report, [status |-> "running", rows |-> kept]}
          /\ lost' \in {lost, lost \cup {a \in Account : report.rows[a] # "none"}}
          /\ runs' = runs + 1 /\ runs < MaxRuns
          /\ UNCHANGED <<direct, op, acted, tries, result>>
      BY <1>1, <2>3 DEF Start
    <3>2. \A a \in Account : tries[a] = 0 /\ step[a] = "off"
      BY <1>1 DEF Start, BatchTypeOK
    <3>3. report' \in [status : {"absent", "running", "finished"}, rows : [Account -> Row]]
      BY <2>1, <3>1 DEF BatchTypeOK
    <3>4. runs' \in 0..MaxRuns /\ lost' \in SUBSET Account
      BY <3>1 DEF BatchTypeOK
    <3> QED BY <2>1, <3>1, <3>2, <3>3, <3>4 DEF BatchTypeOK, WorkerStep
  <2> QED BY <2>2, <2>3
<1>2. ASSUME NEW a \in Account, Worked(a) PROVE BatchTypeOK'
  <2>1. CASE Authenticate(a)
    <3>1. CASE Enter(a, "try") /\ UNCHANGED <<tries, result>>
      BY <2>1, <3>1 DEF Authenticate, BatchTypeOK, Enter, WorkerStep
    <3>2. ASSUME NEW row \in {"retryable", "settled"}, Answer(a, row) PROVE BatchTypeOK'
      <4>1. row \in Row
        BY DEF Row
      <4> QED BY <2>1, <3>2, <4>1, AnswerTypes DEF Authenticate, BatchTypeOK
    <3> QED BY <2>1, <3>1, <3>2 DEF Authenticate
  <2>2. CASE Call(a)
    BY <1>2, <2>2, StateIs DEF Call, Admitted, Refused, BatchTypeOK, Enter, WorkerStep, Row, Conflict
  <2>3. CASE Act(a)
    BY <1>2, <2>3 DEF Act, BatchTypeOK
  <2>10. CASE Misread(a)
    BY <1>2, <2>10 DEF Misread, BatchTypeOK, Enter, WorkerStep, Row
  <2>4. CASE Return(a)
    BY <1>2, <2>4, StateIs DEF Return, RowOf, Retry, BatchTypeOK, Enter, WorkerStep, Row
  <2>5. CASE Abort(a)
    <3>1. op' \in [Account -> {"fresh", "again", "completed", "failed", "uncertain", "open"}]
      BY <2>5, StateIs DEF Abort, BatchTypeOK
    <3> QED BY <2>5, <3>1, RaiseTypes DEF Abort, Raise
  <2>6. CASE OpenQueue(a)
    BY <1>2, <2>6 DEF OpenQueue, BatchTypeOK, Enter, WorkerStep
  <2>7. CASE HandOff(a)
    <3>1. CASE Enter(a, "emit") /\ UNCHANGED <<tries, result, lost>>
      BY <2>7, <3>1 DEF HandOff, BatchTypeOK, Enter, WorkerStep
    <3>2. CASE Raised(a)
      BY <2>7, <3>2, RaiseTypes DEF HandOff, BatchTypeOK
    <3> QED BY <2>7, <3>1, <3>2 DEF HandOff
  <2>8. CASE Emit(a)
    <3>1. CASE Raise(a)
      BY <2>8, <3>1, RaiseTypes DEF Emit, Raise, BatchTypeOK
    <3>2. CASE Answer(a, result[a]) /\ UNCHANGED lost
      BY <2>8, <3>2, AnswerTypes DEF Emit, BatchTypeOK
    <3> QED BY <2>8, <3>1, <3>2 DEF Emit
  <2>9. CASE Append(a)
    BY <1>2, <2>9 DEF Append, BatchTypeOK, Enter, WorkerStep
  <2> QED BY <1>2, <2>1, <2>2, <2>3, <2>4, <2>5, <2>6, <2>7, <2>8, <2>9, <2>10 DEF Worked, Worker
<1>3. ASSUME NEW a \in Account, Collect(a) PROVE BatchTypeOK'
  BY <1>3 DEF Collect, BatchTypeOK, Enter, WorkerStep, Row
<1>4. CASE Finish \/ Drained \/ Crash
  <2>1. RunOver /\ UNCHANGED <<direct, acted, runs>> /\ lost' \in SUBSET Account
    BY <1>4 DEF Finish, Drained, Crash, Unsaved, BatchTypeOK
  <2>2. op' \in [Account -> {"fresh", "again", "completed", "failed", "uncertain", "open"}]
    <3>1. CASE Finish \/ Drained
      BY <3>1 DEF Finish, Drained, BatchTypeOK
    <3>2. CASE Crash
      <4>1. PICK end \in [Account -> UNION {Ends(a) : a \in Account}] :
              (\A a \in Account : end[a] \in Ends(a)) /\ op' = end
        BY <3>2 DEF Crash
      <4>2. \A a \in Account : Ends(a) \subseteq {"fresh", "again", "completed", "failed", "uncertain", "open"}
        BY StateIs DEF Ends, BatchTypeOK
      <4> QED BY <4>1, <4>2
    <3> QED BY <1>4, <3>1, <3>2
  <2>3. report' \in [status : {"absent", "running", "finished"}, rows : [Account -> Row]]
    BY <1>4 DEF Finish, Drained, Crash, BatchTypeOK
  <2> QED BY <2>1, <2>2, <2>3, RunOverTypes DEF BatchTypeOK
<1> QED BY <1>1, <1>2, <1>3, <1>4 DEF BatchStep, Main

-----------------------------------------------------------------------------
(* Every account of the batch as a payment operation of its own *)

\* The worker of an account is in an attempt exactly while its operation is open.
OpenInv == \A a \in Account : step[a] = "open" <=> op[a] = "open"

\* What a step does to the operation of an account: nothing, or what AtMostOnce
\* allows.
OpStep(a) == [Op(a)!Next]_<<op[a], acted[a]>>

LEMMA WorkerOps ==
  ASSUME BatchTypeOK, OpenInv, NEW a \in Account, Worked(a)
  PROVE  OpenInv' /\ \A b \in Account : OpStep(b)
<1> USE DEF OpStep, OpenInv, BatchTypeOK
<1>1. ASSUME op' = op, acted' = acted, \A b \in Account : step'[b] = "open" <=> step[b] = "open"
      PROVE  OpenInv' /\ \A b \in Account : OpStep(b)
  BY <1>1
<1>2. CASE Act(a)
  BY <1>2 DEF Act, Op!Next, Op!Act
<1>3. CASE Call(a)
  <2>1. CASE Admitted(a)
    BY <1>3, <2>1, StateIs DEF Call, Admitted, Enter, Op!Next, Op!Admit
  <2>2. CASE Refused(a)
    BY <1>1, <1>3, <2>2 DEF Call, Refused, Enter
  <2> QED BY <1>3, <2>1, <2>2 DEF Call
<1>4. CASE Return(a) \/ Abort(a)
  <2>1. /\ step[a] = "open" /\ acted' = acted
        /\ \E state \in Op(a)!Left : op' = [op EXCEPT ![a] = state]
        /\ \E next \in {"try", "link", "emit", "done"} : step' = [step EXCEPT ![a] = next]
    BY <1>4 DEF Return, Abort, Raise, Raised, Answer, Enter
  <2> QED BY <2>1, StateIs DEF Op!Next, Op!End
<1>5. CASE Authenticate(a) \/ Misread(a) \/ OpenQueue(a) \/ Append(a) \/ HandOff(a) \/ Emit(a)
  <2>1. /\ op' = op /\ acted' = acted /\ step[a] # "open"
        /\ \E next \in {"try", "linking", "writing", "emit", "done"} : step' = [step EXCEPT ![a] = next]
    BY <1>5 DEF Authenticate, Misread, OpenQueue, Append, HandOff, Emit, Raise, Raised, Answer, Enter
  <2> QED BY <1>1, <2>1
<1> QED BY <1>2, <1>3, <1>4, <1>5 DEF Worked, Worker

LEMMA OpsStep ==
  ASSUME BatchTypeOK, OpenInv, [Next]_vars
  PROVE  OpenInv' /\ \A b \in Account : OpStep(b)
<1>1. ASSUME op' = op, acted' = acted, \A b \in Account : step'[b] = "open" <=> step[b] = "open"
      PROVE  OpenInv' /\ \A b \in Account : OpStep(b)
  BY <1>1 DEF OpenInv, OpStep
<1>2. ASSUME NEW resume \in BOOLEAN, Start(resume) PROVE OpenInv' /\ \A b \in Account : OpStep(b)
  BY <1>1, <1>2 DEF Start, BatchTypeOK
<1>3. ASSUME NEW a \in Account, Collect(a) PROVE OpenInv' /\ \A b \in Account : OpStep(b)
  BY <1>1, <1>3 DEF Collect, Enter, BatchTypeOK
<1>4. CASE Finish \/ Drained
  BY <1>1, <1>4 DEF Finish, Drained, RunOver
<1>5. CASE Crash
  <2>1. /\ acted' = acted /\ \A b \in Account : step'[b] = "off"
        /\ \A b \in Account : op'[b] \in IF op[b] = "open" THEN Op(b)!Left ELSE {op[b]}
    BY <1>5 DEF Crash, Ends, RunOver
  <2> QED BY <2>1, StateIs DEF OpenInv, OpStep, Op!Next, Op!End
<1>6. CASE UNCHANGED batchVars
  BY <1>1, <1>6 DEF batchVars
<1> QED BY <1>2, <1>3, <1>4, <1>5, <1>6, WorkerOps DEF Next, Main, Worked, Authorize, vars

-----------------------------------------------------------------------------
\* The link of an account is handed to the queue once: nothing that ever was in
\* the queue is enqueued again, whatever became of it there.
Linking == {"link", "linking", "writing"}

Handed(a) ==
  \/ a \in wiped \/ file[a] # "absent"
  \/ \E p \in Process : seen[p] # NoRead /\ seen[p][a] # "absent"

OnceInv ==
  \A a \in Account : /\ step[a] \in Linking => op[a] = "completed" /\ ~Handed(a)
                     /\ Handed(a) => op[a] = "completed"

\* A step of the batch reopens no completed operation, and comes to a link by
\* completing one.
LEMMA LinkStep ==
  ASSUME BatchTypeOK, OpenInv, BatchStep, NEW a \in Account
  PROVE  /\ op[a] = "completed" => op'[a] = "completed"
         /\ step'[a] \in Linking => \/ step[a] \in Linking
                                    \/ op[a] = "open" /\ op'[a] = "completed"
<1> USE DEF BatchTypeOK, OpenInv, Linking
<1>1. ASSUME NEW resume \in BOOLEAN, Start(resume) PROVE op' = op /\ step'[a] \in {"off", "queued", step[a]}
  BY <1>1 DEF Start
<1>2. ASSUME NEW b \in Account, Worked(b), ~Return(b), ~Call(b), ~Abort(b)
      PROVE  op' = op /\ (step'[a] = step[a] \/ step'[a] \in {"try", "emit", "done"}
                          \/ step[a] \in Linking)
  BY <1>2 DEF Worked, Worker, Authenticate, Misread, Act, OpenQueue, Append, HandOff, Emit, Raise, Raised, Answer, Enter
<1>3. ASSUME NEW b \in Account, Call(b)
      PROVE  /\ op[a] = "completed" => op'[a] = op[a]
             /\ step'[a] = step[a] \/ step'[a] \in {"open", "emit"}
  BY <1>3, StateIs DEF Call, Admitted, Refused, Enter
<1>4. ASSUME NEW b \in Account, Return(b) \/ Abort(b)
      PROVE  /\ op[b] = "open"
             /\ \E state : op' = [op EXCEPT ![b] = state]
             /\ \E next : step' = [step EXCEPT ![b] = next] /\ (next = "link" => op'[b] = "completed")
             /\ step'[b] \notin {"linking", "writing"}
  BY <1>4 DEF Return, Retry, Abort, Raise, Raised, Answer, Enter
<1>5. CASE Crash
  <2>1. op[a] = "completed" => Ends(a) = {"completed"}
    BY DEF Ends
  <2> QED BY <1>5, <2>1 DEF Crash, RunOver
<1>6. CASE Main
  <2>1. op' = op /\ (step'[a] = step[a] \/ step'[a] = "off")
    BY <1>6 DEF Main, Collect, Finish, Drained, RunOver, Enter
  <2> QED BY <2>1
<1> QED BY <1>1, <1>2, <1>3, <1>4, <1>5, <1>6 DEF BatchStep, Worked, Worker

\* What a write does to the items it was not booked for.
LEMMA ReplaceKeeps ==
  ASSUME QueueInv, NEW p \in Process, NEW i \in Item, NEW status \in ItemStatus, Replace(p, i, status)
  PROVE  /\ raced \subseteq raced' /\ wiped \subseteq wiped' /\ seen[p] \in [Item -> ItemStatus]
         /\ p \notin blind => wiped' = wiped
         /\ \A j \in Item \ raced' :
              /\ file'[j] = IF j = i THEN status ELSE seen[p][j]
              /\ p \notin blind => seen[p][j] = file[j]
              /\ j = i /\ status = "running" => seen[p][j] = "pending"
         /\ p \in blind => seen[p] = Empty /\ wiped' = wiped \cup {j \in Item : file[j] # "absent"}
<1> USE DEF QueueInv, QueueTypeOK, SectionInv
<1>1. p \in writing /\ seen[p] \in [Item -> ItemStatus] /\ (p \in blind => seen[p] = Empty)
  BY DEF Replace
<1>2. /\ raced' = raced \cup {j \in Item : file'[j] # [seen[p] EXCEPT ![i] = status][j]} \cup Twice(p, i, status)
                  \cup (IF p \in blind THEN {} ELSE Unseen(p))
      /\ wiped' = IF p \in blind THEN wiped \cup Unseen(p) ELSE wiped
  BY DEF Replace
<1>3. ASSUME NEW j \in Item \ raced'
      PROVE  /\ file'[j] = IF j = i THEN status ELSE seen[p][j]
             /\ p \notin blind => seen[p][j] = file[j]
             /\ j = i /\ status = "running" => seen[p][j] = "pending"
  BY <1>1, <1>2, <1>3 DEF Unseen, Twice
<1>4. p \in blind => wiped' = wiped \cup {j \in Item : file[j] # "absent"}
  BY <1>1, <1>2 DEF Unseen, Empty
<1> QED BY <1>1, <1>2, <1>3, <1>4

\* A processor that writes has read the file: it wipes nothing, and every item
\* moves on or is raced.
LEMMA ProcessorReplaces ==
  ASSUME QueueInv, NEW p \in Processor, List(p) \/ Pass(p) \/ Stop(p)
  PROVE  /\ raced \subseteq raced' /\ wiped' = wiped
         /\ \A j \in Item \ raced' :
              \/ file'[j] = file[j]
              \/ Mark(p) /\ j = current[p] /\ file[j] = "pending" /\ file'[j] = "running"
              \/ j = current[p] /\ file[j] # "absent" /\ file'[j] = "settled"
         /\ \A a \in Item : Handed(a)' => Handed(a)
<1> DEFINE i == current[p]
<1>1. p \in Process /\ seen \in [Process -> [Item -> ItemStatus] \cup {NoRead}]
      /\ file \in [Item -> ItemStatus]
  BY DEF Processor, QueueInv, QueueTypeOK
<1>2. \A q \in Process : \/ seen'[q] = seen[q]
                         \/ seen'[q] \in {NoRead, file, Empty}
  BY <1>1 DEF List, Pass, Stop, EndPass, Take, Open, Mark, Handle, Returns, Raises, Reopen, Record, Fail,
              Leave, Advance, Read, OpenTemporary, Release, section
<1>3. CASE UNCHANGED <<file, spoilt>>
  BY <1>2, <1>3 DEF Handed, spoilt, Empty
<1>4. CASE ~UNCHANGED <<file, spoilt>>
  <2>1. PICK status \in {"running", "settled"} : Replace(p, i, status) /\ (status = "running" => Mark(p))
    BY <1>4 DEF List, Pass, Stop, EndPass, Take, Open, Mark, Handle, Returns, Raises, Reopen, Record, Fail,
                ReplaceFails
  <2>2. p \in writing /\ seen[p] # NoRead /\ i \in Item /\ seen[p][i] # "absent" /\ status \in ItemStatus
    BY <2>1 DEF Replace, QueueInv, SectionInv, HandInv, Processor, Replacing, ItemStatus
  <2>3. p \notin blind
    BY <2>2 DEF QueueInv, SectionInv, Empty
  <2>4. /\ raced \subseteq raced' /\ wiped' = wiped
        /\ \A j \in Item \ raced' : /\ file'[j] = IF j = i THEN status ELSE file[j]
                                    /\ seen[p][j] = file[j]
                                    /\ j = i /\ status = "running" => file[j] = "pending"
    BY <1>1, <2>1, <2>2, <2>3, ReplaceKeeps
  <2>5. \A j \in Item : file'[j] # "absent" => j = i \/ seen[p][j] # "absent" \/ file[j] # "absent"
    BY <1>1, <2>1, <2>2 DEF Replace, Empty
  <2>6. ASSUME NEW a \in Item, Handed(a)' PROVE Handed(a)
    BY <1>1, <1>2, <2>2, <2>4, <2>5, <2>6 DEF Handed, Empty
  <2> QED BY <2>1, <2>2, <2>4, <2>6
<1> QED BY <1>3, <1>4

\* The end of an enqueue: the new item is in the file, and what was there before
\* stays, is raced, or is wiped and out of the file.
LEMMA EnqueueReplaces ==
  ASSUME QueueInv, OnceInv, NEW a \in Item, Enqueues(a)
  PROVE  /\ raced \subseteq raced' /\ wiped \subseteq wiped'
         /\ \A j \in Item \ raced' :
              \/ file'[j] = file[j] /\ (j \in wiped' => j \in wiped)
              \/ file'[j] = "absent" /\ j \in wiped'
              \/ j = a /\ file[j] = "absent" /\ file'[j] = "pending" /\ j \notin wiped'
         /\ \A b \in Item : Handed(b)' => b = a \/ Handed(b)
<1>1. /\ Batch \in Process /\ file[a] = "absent" /\ a \notin wiped
      /\ seen \in [Process -> [Item -> ItemStatus] \cup {NoRead}] /\ file \in [Item -> ItemStatus]
      /\ seen' = [seen EXCEPT ![Batch] = NoRead]
  BY BatchAssumption DEF OnceInv, Handed, Enqueues, Linking, Account, QueueInv, QueueTypeOK, Release
<1>2. CASE UNCHANGED <<file, spoilt>>
  BY <1>1, <1>2 DEF spoilt, Handed
<1>3. CASE Replace(Batch, a, "pending")
  <2>1. seen[Batch] # NoRead
    BY <1>3 DEF Replace, QueueInv, SectionInv
  <2>2. /\ raced \subseteq raced' /\ wiped \subseteq wiped'
        /\ Batch \notin blind => wiped' = wiped
        /\ \A j \in Item \ raced' : /\ file'[j] = IF j = a THEN "pending" ELSE seen[Batch][j]
                                    /\ Batch \notin blind => seen[Batch][j] = file[j]
        /\ Batch \in blind => seen[Batch] = Empty /\ wiped' = wiped \cup {j \in Item : file[j] # "absent"}
    BY <1>1, <1>3, ReplaceKeeps DEF ItemStatus
  <2>3. \A j \in Item : file'[j] # "absent" => j = a \/ seen[Batch][j] # "absent" \/ file[j] # "absent"
    BY <1>1, <1>3, <2>1 DEF Replace, Empty
  <2>4. ASSUME NEW b \in Item, Handed(b)', b # a PROVE Handed(b)
    BY <1>1, <2>1, <2>2, <2>3, <2>4 DEF Handed
  <2>5. CASE Batch \in blind
    BY <1>1, <2>2, <2>4, <2>5 DEF Empty
  <2>6. CASE Batch \notin blind
    BY <1>1, <2>2, <2>4, <2>6
  <2> QED BY <2>5, <2>6
<1> QED BY <1>2, <1>3 DEF Enqueues

LEMMA QuietHands ==
  ASSUME QueueInv, Quiet, NEW a \in Item, Handed(a)'
  PROVE  Handed(a)
<1>1. \A q \in Process : \/ seen'[q] = seen[q]
                         \/ seen'[q] \in {NoRead, file, Empty}
  BY DEF Quiet, SectionStep, Read, OpenTemporary, Release, section, QueueInv, QueueTypeOK
<1> QED BY <1>1 DEF Handed, Quiet, spoilt, Empty

LEMMA OnceStep ==
  ASSUME QueueInv, BatchTypeOK, OpenInv, OnceInv, BatchStep
  PROVE  OnceInv'
<1>1. Quiet \/ \E a \in Item : Enqueues(a)
  BY BatchOnQueue DEF QueueInv
<1>2. CASE Quiet
  BY <1>2, QuietHands, LinkStep DEF OnceInv, Account
<1>3. ASSUME NEW a \in Item, Enqueues(a) PROVE OnceInv'
  <2>1. step[a] \in Linking /\ op[a] = "completed" /\ UNCHANGED op
    BY <1>3 DEF Enqueues, Linking, OnceInv, Account
  <2>2. \A b \in Account : step'[b] \in Linking => b # a /\ step[b] \in Linking
    BY <1>3 DEF Enqueues, Linking, BatchTypeOK, Account
  <2> QED BY <1>3, <2>1, <2>2, EnqueueReplaces DEF OnceInv, Account
<1> QED BY <1>1, <1>2, <1>3

-----------------------------------------------------------------------------
\* No authorization is repeated, item by item: an item that is waiting has not
\* been authorized and nobody is about to, one processor at most is, and an item
\* that was wiped never comes back.
About(p, i) == work[p] = "handling" /\ current[p] = i

Unpaid(i) == file[i] \in {"absent", "pending"} => charged[i] = 0 /\ \A p \in Process : ~About(p, i)

ChargedItem(i) ==
  /\ charged[i] <= 1
  /\ i \in wiped => file[i] = "absent"
  /\ i \notin wiped => Unpaid(i)
  /\ i \notin wiped =>
       \A p \in Process : About(p, i) => charged[i] = 0 /\ \A q \in Process : About(q, i) => q = p

ChargeInv == \A i \in Item \ raced : ChargedItem(i)

\* An item that nobody charges or is sent to keeps the invariant unless it goes
\* back to an earlier status.
LEMMA ChargeKept ==
  ASSUME NEW i \in Item, ChargedItem(i), charged'[i] = charged[i],
         \A p \in Process : About(p, i)' => About(p, i),
         \/ file'[i] = file[i] /\ (i \in wiped' <=> i \in wiped)
         \/ file'[i] = "absent" /\ i \in wiped'
         \/ file[i] \in {"absent", "pending"} /\ i \notin wiped /\ i \notin wiped'
         \/ file'[i] \notin {"absent", "pending"} /\ i \notin wiped /\ i \notin wiped'
  PROVE  ChargedItem(i)'
  BY DEF ChargedItem, Unpaid

LEMMA PassCharges ==
  ASSUME QueueInv, ChargeInv, NEW p \in Processor, List(p) \/ Pass(p) \/ Stop(p)
  PROVE  ChargeInv'
<1> DEFINE i == current[p]
<1>1. /\ raced \subseteq raced' /\ wiped' = wiped
      /\ \A j \in Item \ raced' :
           \/ file'[j] = file[j]
           \/ Mark(p) /\ j = i /\ file[j] = "pending" /\ file'[j] = "running"
           \/ j = i /\ file[j] # "absent" /\ file'[j] = "settled"
  BY ProcessorReplaces
<1>2. ASSUME NEW j \in Item \ raced', charged'[j] = charged[j],
             \A q \in Process : About(q, j)' => About(q, j)
      PROVE  ChargedItem(j)'
  <2>1. ChargedItem(j)
    BY <1>1 DEF ChargeInv
  <2>2. j \in wiped => file[j] = "absent"
    BY <2>1 DEF ChargedItem
  <2> QED BY <1>1, <1>2, <2>1, <2>2, ChargeKept
<1>3. p \in Process /\ current \in [Process -> Item \cup {NoItem}] /\ work \in [Process -> Step]
      /\ (work[p] \notin {"idle", "next"} => i \in Item)
  BY DEF Processor, QueueInv, QueueTypeOK, HandInv
<1>4. ASSUME UNCHANGED charged, ~Goto(p, "handling") PROVE ChargeInv'
  <2>1. \A q \in Process, j \in Item : About(q, j)' => About(q, j)
    BY <1>3, <1>4 DEF List, Pass, Stop, EndPass, Take, Open, Mark, Handle, Returns, Raises, Reopen, Record,
                      Fail, Leave, Advance, Goto, About
  <2> QED BY <1>2, <1>4, <2>1 DEF ChargeInv
<1>5. CASE Mark(p) /\ Goto(p, "handling")
  <2>1. /\ Replace(p, i, "running") /\ UNCHANGED <<current, charged>> /\ i \in Item
    BY <1>3, <1>5 DEF Mark, Leave, Goto, Step
  <2>2. ASSUME i \notin raced' PROVE i \notin raced /\ file[i] = "pending" /\ file'[i] = "running"
    <3>1. file'[i] = "running" /\ seen[p][i] = "pending" /\ seen[p] # Empty
      BY <1>3, <2>1, <2>2, ReplaceKeeps DEF ItemStatus, Empty
    <3>2. p \notin blind
      BY <3>1 DEF QueueInv, SectionInv
    <3> QED BY <1>1, <1>3, <2>1, <2>2, <3>1, <3>2, ReplaceKeeps DEF ItemStatus
  <2>3. \A q \in Process, j \in Item : About(q, j)' <=> About(q, j) \/ (q = p /\ j = i)
    BY <1>3, <1>5, <2>1 DEF About, Goto, Mark
  <2>4. ASSUME NEW j \in Item \ raced' PROVE ChargedItem(j)'
    <3>1. CASE j = i
      <4>1. ChargedItem(i) /\ file[i] = "pending" /\ file'[i] = "running" /\ i \notin wiped
        BY <1>1, <2>1, <2>2, <2>4, <3>1 DEF ChargeInv, ChargedItem
      <4>2. charged[i] = 0 /\ \A q \in Process : ~About(q, i)
        BY <4>1 DEF ChargedItem, Unpaid
      <4> QED BY <1>1, <2>1, <2>3, <3>1, <4>1, <4>2 DEF ChargedItem, Unpaid
    <3>2. CASE j # i
      BY <1>2, <2>1, <2>3, <2>4, <3>2
    <3> QED BY <3>1, <3>2
  <2> QED BY <2>4 DEF ChargeInv
<1>6. CASE Handle(p) /\ ~UNCHANGED charged
  <2>1. /\ i \in Item /\ About(p, i) /\ UNCHANGED <<file, raced, current>> /\ file[i] # "absent"
        /\ charged' = [charged EXCEPT ![i] = IF @ = 0 THEN 1 ELSE 2] /\ Goto(p, "handled")
    BY <1>3, <1>6 DEF Handle, About, Empty, spoilt
  <2>2. \A q \in Process, j \in Item : About(q, j)' <=> About(q, j) /\ q # p
    BY <1>3, <2>1 DEF About, Goto
  <2>3. ASSUME NEW j \in Item \ raced' PROVE ChargedItem(j)'
    <3>1. CASE j = i
      <4>1. ChargedItem(i) /\ i \notin wiped
        BY <2>1, <2>3, <3>1 DEF ChargeInv, ChargedItem
      <4>2. charged[i] = 0 /\ file[i] \notin {"absent", "pending"} /\ \A q \in Process : About(q, i) => q = p
        BY <1>3, <2>1, <4>1 DEF ChargedItem, Unpaid
      <4>3. charged'[i] = 1
        BY <2>1, <4>2 DEF QueueInv, QueueTypeOK
      <4> QED BY <1>1, <2>1, <2>2, <3>1, <4>1, <4>2, <4>3 DEF ChargedItem, Unpaid
    <3>2. CASE j # i
      BY <1>2, <2>1, <2>2, <2>3, <3>2 DEF QueueInv, QueueTypeOK
    <3> QED BY <3>1, <3>2
  <2> QED BY <2>3 DEF ChargeInv
<1>7. UNCHANGED charged \/ Handle(p)
  BY DEF List, Pass, Stop, EndPass, Take, Open, Mark, Handle, Returns, Raises, Reopen, Record, Fail
<1>8. Goto(p, "handling") => Mark(p)
  BY <1>3 DEF List, Pass, Stop, EndPass, Take, Open, Mark, Handle, Returns, Raises, Reopen, Record, Fail,
              Leave, Advance, Goto, Step
<1> QED BY <1>4, <1>5, <1>6, <1>7, <1>8

LEMMA BatchCharges ==
  ASSUME QueueInv, OnceInv, ChargeInv, Quiet \/ \E a \in Item : Enqueues(a)
  PROVE  ChargeInv'
<1>1. \A p \in Process, i \in Item : About(p, i)' => About(p, i)
  BY DEF About, Quiet, Enqueues
<1>2. UNCHANGED charged
  BY DEF Quiet, Enqueues
<1>3. CASE Quiet
  BY <1>1, <1>2, <1>3, ChargeKept DEF Quiet, spoilt, ChargeInv
<1>4. ASSUME NEW a \in Item, Enqueues(a) PROVE ChargeInv'
  <2>1. raced \subseteq raced' /\ wiped \subseteq wiped'
    BY <1>4, EnqueueReplaces
  <2>2. ASSUME NEW j \in Item \ raced' PROVE ChargedItem(j)'
    <3>1. ChargedItem(j)
      BY <2>1, <2>2 DEF ChargeInv
    <3>2. \/ file'[j] = file[j] /\ (j \in wiped' <=> j \in wiped)
          \/ file'[j] = "absent" /\ j \in wiped'
          \/ file[j] \in {"absent", "pending"} /\ j \notin wiped /\ j \notin wiped'
      BY <1>4, <2>1, <2>2, EnqueueReplaces
    <3> QED BY <1>1, <1>2, <2>2, <3>1, <3>2, ChargeKept
  <2> QED BY <2>2 DEF ChargeInv
<1> QED BY <1>3, <1>4

-----------------------------------------------------------------------------
\* Once an item is in the file it stays there, unless it is raced or wiped.
Kept ==
  \A i \in Item \ (raced' \cup wiped') :
    i \notin raced \cup wiped /\ (file[i] # "absent" => file'[i] # "absent")

LEMMA PassKeeps ==
  ASSUME QueueInv, NEW p \in Processor, List(p) \/ Pass(p) \/ Stop(p)
  PROVE  Kept
  BY ProcessorReplaces DEF Kept

LEMMA BatchQueueKeeps ==
  ASSUME QueueInv, OnceInv, Quiet \/ \E a \in Item : Enqueues(a)
  PROVE  Kept
  BY EnqueueReplaces DEF Kept, Quiet, spoilt

\* A hand-off that returns has put the link in the file.
LEMMA HandOffKeeps ==
  ASSUME QueueInv, OnceInv, NEW a \in Item, HandOff(a), ~Raised(a), a \notin raced'
  PROVE  file'[a] = "pending"
<1>1. step[a] \in Linking /\ Enqueue(Batch, a) /\ Batch \in Process
  BY BatchAssumption DEF HandOff, Linking
<1>2. Replace(Batch, a, "pending")
  BY <1>1 DEF Enqueue, OnceInv, Handed, Account
<1> QED BY <1>1, <1>2, ReplaceKeeps DEF ItemStatus

-----------------------------------------------------------------------------
\* The row says of the operation of a what is true of it.
Tells(a, row) ==
  /\ row = "ok" <=> op[a] = "completed"
  /\ row = "uncertain" <=> op[a] = "uncertain"
  /\ row \in {"retryable", "none"} => op[a] \in {"fresh", "again"}

\* What is known of an account whose last row is not lost, by the step of its
\* worker.
Known(a) ==
  /\ main = "off" => Tells(a, report.rows[a])
  /\ main # "off" /\ step[a] \in {"off", "queued"} => Tells(a, rows[a])
  /\ step[a] = "queued" => rows[a] = "none"
  /\ step[a] = "try" => op[a] \in {"fresh", "again"}
  /\ step[a] \in Linking => op[a] = "completed" /\ result[a] = "ok"
  /\ step[a] \in {"emit", "done"} => Tells(a, result[a])

\* Its link is in the queue, or about to be handed to it.
Linked(a) ==
  a \in direct \ (raced \cup wiped) /\ op[a] = "completed" => file[a] # "absent" \/ step[a] \in Linking

AccountInv(a) ==
  /\ op[a] = "open" => step[a] = "open"
  /\ report.status = "finished" => step[a] = "off"
  /\ a \notin lost => Known(a) /\ Linked(a)
  /\ report.status = "finished" /\ a \notin lost => Tells(a, report.rows[a])

BatchInv == \A a \in Account : AccountInv(a)

\* A step of the worker of a leaves the other accounts as they are.
LEMMA OthersKept ==
  ASSUME BatchTypeOK, BatchInv, Kept, NEW a \in Account, NEW b \in Account, b # a,
         UNCHANGED <<direct, report, main>>, step[a] # "off",
         op'[b] = op[b], step'[b] = step[b], rows'[b] = rows[b], result'[b] = result[b],
         b \notin lost' => b \notin lost
  PROVE  AccountInv(b)'
  BY DEF BatchInv, AccountInv, Known, Linked, Linking, Tells, Kept, Account

LEMMA DirectKept == BatchStep => UNCHANGED direct
  BY DEF BatchStep, Start, Worked, Worker, Authenticate, Call, Misread, Act, Return, Abort, OpenQueue, Append, HandOff,
         Emit, Main, Collect, Finish, Drained, Crash

LEMMA BatchKeeps ==
  ASSUME QueueInv, BatchTypeOK, OnceInv, BatchInv, BatchStep, Kept
  PROVE  BatchInv'
<1> USE DirectKept DEF Linking
<1>1. ASSUME NEW resume \in BOOLEAN, Start(resume), NEW a \in Account PROVE AccountInv(a)'
  <2> DEFINE kept == [b \in Account |->
                        IF resume /\ Resumable(report.rows[b]) THEN report.rows[b] ELSE "none"]
  <2>1. main = "off" /\ step[a] = "off" /\ UNCHANGED <<op, result>> /\ report.rows[a] \in Row
    BY <1>1 DEF Start, BatchTypeOK
  <2>2. CASE UNCHANGED <<main, rows, step, report, lost>>
    BY <2>1, <2>2 DEF BatchInv, AccountInv, Known, Linked, Tells, Kept, Account
  <2>3. CASE ~UNCHANGED <<main, rows, step, report, lost>>
    <3>1. /\ main' = "loop" /\ rows' = kept
          /\ step' = [b \in Account |-> IF kept[b] = "none" THEN "queued" ELSE "off"]
          /\ report' = (IF {b \in Account : kept[b] = "none"} = {} THEN report
                        ELSE [status |-> "running", rows |-> kept])
          /\ lost' = (IF resume THEN lost ELSE lost \cup {b \in Account : report.rows[b] # "none"})
      BY <1>1, <2>3 DEF Start
    <3>2. a \notin lost' => a \notin lost /\ Tells(a, kept[a])
      BY <2>1, <3>1 DEF BatchInv, AccountInv, Known, Tells, Resumable, Row
    <3> QED BY <2>1, <3>1, <3>2 DEF BatchInv, AccountInv, Known, Linked, Tells, Kept, Account
  <2> QED BY <2>2, <2>3
<1>2. ASSUME NEW a \in Account, Worked(a), NEW b \in Account PROVE AccountInv(b)'
  <2>1. \/ UNCHANGED <<report, main, rows>> /\ step[a] \notin {"off", "done"}
        \/ Act(a)
    BY <1>2 DEF Worked, Worker, Authenticate, Call, Misread, Return, Abort, OpenQueue, Append, HandOff, Emit, queueVars
  <2>2. CASE Act(a)
    BY <2>2 DEF Act, BatchInv, AccountInv, Known, Linked, Tells, Kept, Account
  <2>3. CASE b # a /\ ~Act(a)
    <3>1. /\ op'[b] = op[b] /\ step'[b] = step[b] /\ rows'[b] = rows[b] /\ result'[b] = result[b]
          /\ b \notin lost' => b \notin lost
      BY <1>2, <2>3 DEF Worked, Worker, Authenticate, Call, Misread, Admitted, Refused, Return, Abort, OpenQueue,
                        Append, HandOff, Emit, Raise, Raised, Answer, Enter, BatchTypeOK
    <3> QED BY <2>1, <2>3, <3>1, OthersKept
  <2>4. CASE b = a /\ ~Act(a)
    <3>1. report.status # "finished" /\ main # "off" /\ UNCHANGED <<report, main, rows>>
      BY <2>1, <2>4 DEF BatchInv, AccountInv, BatchTypeOK
    <3>2. CASE Authenticate(a)
      BY <2>4, <3>1, <3>2 DEF Authenticate, Answer, Enter, BatchTypeOK, BatchInv, AccountInv, Known, Linked, Tells, Kept, Account
    <3>3. CASE Call(a)
      BY <2>4, <3>1, <3>3, StateIs
         DEF Call, Admitted, Refused, Conflict, Enter, BatchTypeOK, BatchInv, AccountInv, Known, Linked, Tells, Kept, Account
    <3>4. CASE Return(a)
      BY <2>4, <3>1, <3>4, StateIs DEF Return, RowOf, Retry, Enter, BatchTypeOK, BatchInv, AccountInv, Known, Linked, Tells, Kept, Account
    <3>5. CASE Raised(a)
      <4>1. a \in lost' /\ step'[a] = "done" /\ op'[a] # "open"
        BY <1>2, <3>1, <3>5, StateIs, ZenonT(60)
           DEF Raised, Answer, Enter, BatchTypeOK, Worked, Worker, Authenticate, Call, Misread, Admitted, Refused,
               Return, Act, Abort, OpenQueue, Append, HandOff, Emit, BatchInv, AccountInv
      <4> QED BY <2>4, <3>1, <4>1 DEF AccountInv
    <3>6. CASE OpenQueue(a) \/ Append(a)
      BY <2>4, <3>1, <3>6 DEF OpenQueue, Append, Enter, BatchTypeOK, BatchInv, AccountInv, Known, Linked, Tells, Kept, Account
    <3>7. CASE HandOff(a) /\ ~Raised(a)
      <4>1. /\ Enter(a, "emit") /\ UNCHANGED <<op, result, lost>> /\ step[a] \in Linking
            /\ a \notin raced' => file'[a] # "absent"
        BY <3>7, HandOffKeeps DEF HandOff, Account
      <4> QED BY <2>4, <3>1, <4>1 DEF Enter, BatchTypeOK, BatchInv, AccountInv, Known, Linked, Tells, Kept, Account
    <3>8. CASE Emit(a) /\ ~Raised(a)
      BY <2>4, <3>1, <3>8 DEF Emit, Raise, Answer, Enter, BatchTypeOK, BatchInv, AccountInv, Known, Linked, Tells, Kept, Account
    <3>9. CASE Misread(a)
      BY <2>4, <3>1, <3>9 DEF Misread, Enter, BatchTypeOK, BatchInv, AccountInv, Known, Linked, Tells, Kept, Account
    <3> QED BY <1>2, <2>4, <3>2, <3>3, <3>4, <3>5, <3>6, <3>7, <3>8, <3>9 DEF Worked, Worker, Abort, Raise
  <2> QED BY <2>2, <2>3, <2>4
<1>3. ASSUME NEW a \in Account, Collect(a), NEW b \in Account PROVE AccountInv(b)'
  <2>1. /\ report.status # "finished" /\ report'.status # "finished" /\ main = "loop" /\ main' # "off"
        /\ step[a] = "done" /\ UNCHANGED <<op, lost>>
        /\ step' = [step EXCEPT ![a] = "off"] /\ rows' = [rows EXCEPT ![a] = result[a]]
        /\ b # a => result'[b] = result[b]
    BY <1>3 DEF Collect, Enter, BatchTypeOK, BatchInv, AccountInv
  <2>2. CASE b = a
    BY <2>1, <2>2 DEF BatchTypeOK, BatchInv, AccountInv, Known, Linked, Tells, Kept, Account
  <2>3. CASE b # a
    BY <2>1, <2>3 DEF BatchTypeOK, BatchInv, AccountInv, Known, Linked, Tells, Kept, Account
  <2> QED BY <2>2, <2>3
<1>4. ASSUME Finish, NEW a \in Account PROVE AccountInv(a)'
  BY <1>4 DEF Finish, Unsaved, RunOver, NoRows, BatchTypeOK, BatchInv, AccountInv, Known, Linked, Tells, Kept, Account
<1>5. ASSUME Drained, NEW a \in Account PROVE AccountInv(a)'
  BY <1>5 DEF Drained, Unsaved, RunOver, NoRows, BatchTypeOK, BatchInv, AccountInv, Known, Linked, Tells, Kept, Account
<1>6. ASSUME Crash, NEW a \in Account PROVE AccountInv(a)'
  BY <1>6, StateIs DEF Crash, Ends, Unsaved, RunOver, NoRows, BatchTypeOK, BatchInv, AccountInv, Known, Linked, Tells, Kept, Account
<1> QED BY <1>1, <1>2, <1>3, <1>4, <1>5, <1>6 DEF BatchStep, Main, BatchInv

-----------------------------------------------------------------------------
Inv == QueueInv /\ BatchTypeOK /\ OpenInv /\ OnceInv /\ ChargeInv /\ BatchInv

LEMMA InvInit == Init => Inv
<1> SUFFICES ASSUME Init PROVE Inv
  OBVIOUS
<1> USE QueueAssumption, BatchAssumption DEF Init, QueueInit
<1>1. QueueInv
  BY DEF QueueInv, QueueTypeOK, SectionInv, HandInv, Replacing, ItemStatus, Step
<1>2. BatchTypeOK
  <2>1. 0 \in 0..Retries + 1 /\ 0 \in 0..MaxRuns
    OBVIOUS
  <2>2. NoRows \in [Account -> Row]
    BY DEF NoRows, Row
  <2>3. report \in [status : {"absent", "running", "finished"}, rows : [Account -> Row]]
    BY <2>2
  <2> QED BY <2>1, <2>2, <2>3 DEF BatchTypeOK, WorkerStep
<1>3. ChargeInv /\ OpenInv /\ OnceInv
  BY DEF ChargeInv, ChargedItem, Unpaid, About, OpenInv, OnceInv, Handed, Linking, Account
<1>4. BatchInv
  BY DEF BatchInv, AccountInv, Known, Linked, Linking, Tells, NoRows, Account
<1> QED BY <1>1, <1>2, <1>3, <1>4 DEF Inv

LEMMA InvNext == Inv /\ [Next]_vars => Inv'
<1> SUFFICES ASSUME Inv, [Next]_vars PROVE Inv'
  OBVIOUS
<1>1. CASE UNCHANGED vars
  <2> USE <1>1 DEF vars, queueVars, batchVars, section, spoilt
  <2>1. QueueInv' /\ BatchTypeOK'
    BY DEF Inv, QueueInv, QueueTypeOK, SectionInv, HandInv, BatchTypeOK
  <2>2. ChargeInv' /\ OpenInv' /\ OnceInv'
    BY DEF Inv, ChargeInv, ChargedItem, Unpaid, About, OpenInv, OnceInv, Handed
  <2>3. BatchInv'
    BY DEF Inv, BatchInv, AccountInv, Known, Linked, Tells
  <2> QED BY <2>1, <2>2, <2>3 DEF Inv
<1>2. ASSUME NEW p \in Processor, Authorize(p) PROVE Inv'
  <2>1. UNCHANGED batchVars /\ (List(p) \/ Pass(p) \/ Stop(p))
    BY <1>2 DEF Authorize
  <2>2. QueueInv' /\ ChargeInv' /\ Kept
    BY <1>2, <2>1, PassTypes, PassCharges, PassKeeps DEF Inv
  <2>3. BatchTypeOK' /\ OpenInv'
    BY <2>1 DEF Inv, BatchTypeOK, OpenInv, batchVars
  <2>4. OnceInv'
    BY <1>2, <2>1, ProcessorReplaces DEF Inv, OnceInv, batchVars, Account
  <2>5. BatchInv'
    BY <2>1, <2>2 DEF Inv, BatchInv, AccountInv, Known, Linked, Tells, batchVars, Kept, Account
  <2> QED BY <2>2, <2>3, <2>4, <2>5 DEF Inv
<1>3. CASE BatchStep
  <2>1. faults' \in 0..MaxFaults /\ (Quiet \/ \E a \in Item : Enqueues(a))
    BY <1>3, BatchOnQueue DEF Inv, QueueInv
  <2>2. QueueInv' /\ ChargeInv' /\ Kept
    BY <2>1, QuietTypes, EnqueueTypes, BatchCharges, BatchQueueKeeps DEF Inv
  <2>3. BatchTypeOK' /\ OpenInv' /\ OnceInv'
    BY <1>3, BatchTypes, OnceStep, OpsStep DEF Inv, BatchStep, Worked, Next
  <2>4. BatchInv'
    BY <1>3, <2>2, BatchKeeps DEF Inv
  <2> QED BY <2>2, <2>3, <2>4 DEF Inv
<1> QED BY <1>1, <1>2, <1>3 DEF Next, BatchStep, Worked, Processor

(* The inductive invariant holds in every state: what is known of items, links,
   rows and reports is true whatever runs, workers and processors do. *)
THEOREM BatchInvariant == Spec => []Inv
  BY InvInit, InvNext, PTL DEF Spec

(* Type correctness of the batch and the queue, whatever the accounts,
   processes, workers, attempts, runs and faults. *)
THEOREM BatchTypeCorrect == Spec => []TypeOK
<1>1. Inv => TypeOK
  BY StateIs DEF Inv, QueueInv, BatchTypeOK, TypeOK
<1> QED BY <1>1, BatchInvariant, PTL

(* A finished report agrees with the journal on every account whose last row
   was not lost, after any runs, resumes, crashes and failing writes. *)
THEOREM ReportIsTrue == Spec => []ReportAgrees
<1>1. Inv => ReportAgrees
  BY StateIs DEF Inv, BatchInv, AccountInv, Tells, ReportAgrees, Agrees
<1> QED BY <1>1, BatchInvariant, PTL

(* Every approval link of a finished batch is in the queue, for good, unless the
   run died or raised between the link and the queue (lost), another process
   wrote a stale queue over it or into the same temporary file (raced), or a
   later enqueue could not read the file and began a new one (wiped): whatever
   the number of links, processes and faults, nothing else loses a link. *)
THEOREM LinksAreQueued == Spec => []LinkQueued
<1>1. Inv => LinkQueued
  BY BatchAssumption DEF Inv, BatchTypeOK, BatchInv, AccountInv, Linked, Linking, LinkQueued, Account
<1> QED BY <1>1, BatchInvariant, PTL

(* No agreement is authorized twice unless its item raced, for any number of
   processes that list, take, authorize and record side by side: an item that an
   unreadable file made disappear is never queued again. *)
THEOREM NoSecondCharge == Spec => []ChargedOnce
<1>1. Inv => ChargedOnce
  BY DEF Inv, ChargeInv, ChargedItem, ChargedOnce
<1> QED BY <1>1, BatchInvariant, PTL

\* A worker has no row in memory yet, and in a run that goes on from a report
\* the rows settled there are in memory.
ResumeInv ==
  /\ \A a \in Account : step[a] # "off" => rows[a] = "none"
  /\ resumed => /\ main # "off"
                /\ \A a \in Account : report.rows[a] \notin {"none", "retryable"} => rows[a] = report.rows[a]

RowsKept ==
  \A a \in Account : report.rows[a] \notin {"none", "retryable"} => report'.rows[a] = report.rows[a]

LEMMA ResumeStep ==
  ASSUME BatchTypeOK, ResumeInv, [Next]_vars
  PROVE  ResumeInv' /\ (resumed \/ resumed' => RowsKept)
<1>1. ASSUME NEW resume \in BOOLEAN, Start(resume) PROVE ResumeInv' /\ (resumed \/ resumed' => RowsKept)
  <2> DEFINE kept == [b \in Account |->
                        IF resume /\ Resumable(report.rows[b]) THEN report.rows[b] ELSE "none"]
  <2>1. ~resumed
    BY <1>1 DEF Start, ResumeInv
  <2>2. CASE UNCHANGED <<main, resumed, rows, step, report>>
    BY <2>1, <2>2 DEF ResumeInv
  <2>3. CASE ~UNCHANGED <<main, resumed, rows, step, report>>
    <3>1. /\ main' = "loop" /\ resumed' = resume /\ rows' = kept
          /\ step' = [b \in Account |-> IF kept[b] = "none" THEN "queued" ELSE "off"]
          /\ report' = (IF {b \in Account : kept[b] = "none"} = {} THEN report
                        ELSE [status |-> "running", rows |-> kept])
      BY <1>1, <2>3 DEF Start
    <3>2. \A a \in Account : resume /\ report.rows[a] \notin {"none", "retryable"} => kept[a] = report.rows[a]
      BY DEF Resumable, BatchTypeOK, Row
    <3> QED BY <2>1, <3>1, <3>2 DEF ResumeInv, RowsKept
  <2> QED BY <2>2, <2>3
<1>2. ASSUME NEW a \in Account, Worked(a) PROVE ResumeInv' /\ RowsKept
  <2>1. UNCHANGED <<report, main, rows, resumed>>
    BY <1>2 DEF Worked, Worker, Authenticate, Call, Misread, Act, Return, Abort, OpenQueue, Append, HandOff, Emit
  <2>2. step[a] = "off" => UNCHANGED step
    BY <1>2 DEF Worked, Worker, Authenticate, Call, Misread, Act, Return, Abort, OpenQueue, Append, HandOff, Emit
  <2>3. \A b \in Account : b # a => step'[b] = step[b]
    BY <1>2 DEF Worked, Worker, Authenticate, Call, Misread, Admitted, Refused, Act, Return, Abort, OpenQueue,
                Append, HandOff, Emit, Raise, Raised, Answer, Enter, BatchTypeOK
  <2> QED BY <2>1, <2>2, <2>3 DEF ResumeInv, RowsKept
<1>3. ASSUME NEW a \in Account, Collect(a) PROVE ResumeInv' /\ (resumed => RowsKept) /\ UNCHANGED resumed
  <2>1. /\ step[a] = "done" /\ main = "loop" /\ main' # "off" /\ UNCHANGED resumed
        /\ step' = [step EXCEPT ![a] = "off"] /\ rows' = [rows EXCEPT ![a] = result[a]]
        /\ report' = report \/ report' = [status |-> "running", rows |-> rows']
    BY <1>3 DEF Collect, Enter
  <2>2. ASSUME resumed, NEW b \in Account, report.rows[b] \notin {"none", "retryable"}
        PROVE  /\ rows'[b] = report.rows[b]
               /\ report'.rows[b] = report.rows[b]
    BY <2>1, <2>2 DEF ResumeInv, BatchTypeOK
  <2>3. resumed => RowsKept
    BY <2>2 DEF RowsKept
  <2>4. \A b \in Account : step'[b] # "off" => rows'[b] = "none"
    BY <2>1 DEF ResumeInv, BatchTypeOK
  <2>5. ASSUME resumed', NEW b \in Account, report'.rows[b] \notin {"none", "retryable"}
        PROVE  rows'[b] = report'.rows[b]
    <3>1. CASE report' = report
      BY <2>1, <2>2, <2>5, <3>1
    <3>2. CASE report' = [status |-> "running", rows |-> rows']
      BY <3>2
    <3> QED BY <2>1, <3>1, <3>2
  <2> QED BY <2>1, <2>3, <2>4, <2>5 DEF ResumeInv
<1>4. CASE Finish \/ Drained \/ Crash
  BY <1>4 DEF Finish, Drained, Crash, RunOver, NoRows, ResumeInv, RowsKept, BatchTypeOK
<1>5. CASE UNCHANGED batchVars
  BY <1>5 DEF batchVars, ResumeInv, RowsKept
<1> QED BY <1>1, <1>2, <1>3, <1>4, <1>5 DEF Next, Main, Worked, Authorize, vars

(* A run that goes on from a report leaves the rows of it that may not be run
   again, money in an unknown state among them, as they are. *)
THEOREM SettledRowsStay == Spec => RowsStayVisible
<1>1. Init => ResumeInv
  BY DEF Init, ResumeInv, NoRows
<1>2. Inv => BatchTypeOK
  BY DEF Inv
<1>3. BatchTypeOK /\ ResumeInv /\ [Next]_vars =>
        ResumeInv' /\ [resumed \/ resumed' => RowsKept]_vars
  BY ResumeStep
<1> QED BY <1>1, <1>2, <1>3, BatchInvariant, PTL DEF Spec, RowsStayVisible, RowsKept

(* Refinement: however many workers, retries, runs and crashes share it, the
   payment operation of every account goes through the states of AtMostOnce,
   which PaymentLane implements: attempts one at a time, at most one of them
   acts, and none follows it. *)
THEOREM AccountsPayAtMostOnce == ASSUME NEW a \in Account PROVE Spec => Op(a)!Spec
<1>1. Init => Op(a)!Init /\ OpenInv
  BY DEF Init, Op!Init, OpenInv
<1>2. BatchTypeOK /\ OpenInv /\ [Next]_vars => OpenInv' /\ [Op(a)!Next]_<<op[a], acted[a]>>
  BY OpsStep DEF OpStep
<1>3. Inv => BatchTypeOK
  BY DEF Inv
<1> QED BY <1>1, <1>2, <1>3, BatchInvariant, PTL DEF Spec, Op!Spec

(* No second payment: once an attempt of an account has acted, no step of the
   batch, of a resume or of a repeated run opens another one. *)
THEOREM NoSecondPayment ==
  Spec => [][\A a \in Account : acted[a] /\ op'[a] = "open" => op[a] = "open"]_vars
<1> DEFINE ActedInv == \A a \in Account : acted[a] => op[a] \notin Op(a)!Reopenable
<1>1. Init => OpenInv /\ ActedInv
  BY DEF Init, OpenInv
<1>2. ASSUME BatchTypeOK, OpenInv, ActedInv, [Next]_vars
      PROVE  /\ OpenInv' /\ ActedInv'
             /\ \A a \in Account : acted[a] /\ op'[a] = "open" => op[a] = "open"
  <2>1. OpenInv' /\ \A a \in Account : OpStep(a)
    BY <1>2, OpsStep
  <2>2. ASSUME NEW a \in Account
        PROVE  /\ acted'[a] => op'[a] \notin {"fresh", "again"}
               /\ acted[a] /\ op'[a] = "open" => op[a] = "open"
    BY <1>2, <2>1, StateIs DEF OpStep, Op!Next, Op!Admit, Op!Act, Op!End, Op!Spoil, Op!Left, Op!Closed, Op!Reopenable
  <2> QED BY <2>1, <2>2, StateIs
<1>3. Inv => BatchTypeOK
  BY DEF Inv
<1> QED BY <1>1, <1>2, <1>3, BatchInvariant, PTL DEF Spec

-----------------------------------------------------------------------------
(* The queue and the workers only move on *)

\* What an item in the queue may become.
Later == [absent |-> {"absent", "pending"}, pending |-> {"pending", "running", "settled"},
          running |-> {"running", "settled"}, settled |-> {"settled"}]

MovesOn ==
  \A i \in Item \ raced' : IF i \in wiped' THEN file'[i] = "absent" ELSE file'[i] \in Later[file[i]]

(* An agreement in the queue file only moves on: waiting, being authorized,
   settled, never back, over any passes, reads and writes that fail and processes
   that die, unless it is raced: another process wrote a stale status over it,
   took it too or wrote the same temporary file.  It leaves the file only if an
   enqueue that could not read the file wiped it, and then it never returns. *)
THEOREM StatusMovesOn == Spec => [][MovesOn]_vars
<1>1. ASSUME Inv, Inv', [Next]_vars PROVE [MovesOn]_vars
  <2>1. ASSUME \A i \in Item \ raced' :
                 \/ file'[i] = file[i]
                 \/ i \in wiped' /\ file'[i] = "absent"
                 \/ file[i] = "absent" /\ file'[i] = "pending"
                 \/ file[i] = "pending" /\ file'[i] = "running"
                 \/ file[i] # "absent" /\ file'[i] = "settled"
        PROVE  MovesOn
    <3>1. ASSUME NEW i \in Item \ raced'
          PROVE  IF i \in wiped' THEN file'[i] = "absent" ELSE file'[i] \in Later[file[i]]
      <4>1. i \in wiped' => file'[i] = "absent"
        BY <1>1, <3>1 DEF Inv, ChargeInv, ChargedItem
      <4>2. file[i] \in {"absent", "pending", "running", "settled"}
        BY <1>1 DEF Inv, QueueInv, QueueTypeOK, ItemStatus
      <4> QED BY <2>1, <4>1, <4>2 DEF Later
    <3> QED BY <3>1 DEF MovesOn
  <2>2. CASE BatchStep
    <3>1. CASE Quiet
      BY <2>1, <3>1 DEF Quiet
    <3>2. ASSUME NEW a \in Item, Enqueues(a) PROVE MovesOn
      <4>1. \A j \in Item \ raced' :
              \/ file'[j] = file[j] /\ (j \in wiped' => j \in wiped)
              \/ file'[j] = "absent" /\ j \in wiped'
              \/ j = a /\ file[j] = "absent" /\ file'[j] = "pending" /\ j \notin wiped'
        BY <1>1, <3>2, EnqueueReplaces DEF Inv
      <4> QED BY <2>1, <4>1
    <3> QED BY <1>1, <2>2, <3>1, <3>2, BatchOnQueue DEF Inv, QueueInv
  <2>3. ASSUME NEW p \in Processor, Authorize(p) PROVE MovesOn
    <3>1. \A j \in Item \ raced' :
            \/ file'[j] = file[j]
            \/ Mark(p) /\ j = current[p] /\ file[j] = "pending" /\ file'[j] = "running"
            \/ j = current[p] /\ file[j] # "absent" /\ file'[j] = "settled"
      BY <1>1, <2>3, ProcessorReplaces DEF Authorize, Inv
    <3> QED BY <2>1, <3>1
  <2> QED BY <1>1, <2>2, <2>3 DEF Next, BatchStep, Worked, Processor
<1> QED BY <1>1, BatchInvariant, PTL DEF Spec

\* What a worker has still to do in a run, its attempts included.
Left(a) == 2 * (Retries + 1 - tries[a])

Rank(a) ==
  CASE step[a] = "queued" -> Left(a) + 7
    [] step[a] = "open" -> Left(a) + 6
    [] step[a] = "try" -> Left(a) + 5
    [] step[a] = "link" -> 5
    [] step[a] = "linking" -> 4
    [] step[a] = "writing" -> 3
    [] step[a] = "emit" -> 2
    [] step[a] = "done" -> 1
    [] step[a] = "off" -> 0

\* Stated of the steps before and after.
LEMMA RankOf ==
  ASSUME NEW a,
         step[a] \in WorkerStep, step'[a] \in WorkerStep,
         tries[a] \in 0..Retries + 1, tries'[a] \in 0..Retries + 1
  PROVE  /\ Left(a) \in Nat /\ Left(a)' \in Nat
         /\ Rank(a) = (IF step[a] = "queued" THEN Left(a) + 7 ELSE IF step[a] = "open" THEN Left(a) + 6
                       ELSE IF step[a] = "try" THEN Left(a) + 5 ELSE IF step[a] = "link" THEN 5
                       ELSE IF step[a] = "linking" THEN 4 ELSE IF step[a] = "writing" THEN 3 ELSE IF step[a] = "emit" THEN 2
                       ELSE IF step[a] = "done" THEN 1 ELSE 0)
         /\ Rank(a)' = (IF step'[a] = "queued" THEN Left(a)' + 7 ELSE IF step'[a] = "open" THEN Left(a)' + 6
                       ELSE IF step'[a] = "try" THEN Left(a)' + 5 ELSE IF step'[a] = "link" THEN 5
                       ELSE IF step'[a] = "linking" THEN 4 ELSE IF step'[a] = "writing" THEN 3 ELSE IF step'[a] = "emit" THEN 2
                       ELSE IF step'[a] = "done" THEN 1 ELSE 0)
<1>1. Left(a) \in Nat /\ Left(a)' \in Nat
  BY BatchAssumption DEF Left
<1> QED BY <1>1 DEF Rank, WorkerStep

\* A step of the worker of a lowers its rank and leaves those of the others.
LEMMA WorkerDescends ==
  ASSUME BatchTypeOK, BatchTypeOK', NEW a \in Account, Worker(a)
  PROVE  Rank(a)' < Rank(a) /\ \A b \in Account \ {a} : Rank(b)' = Rank(b)
<1>1. \A b \in Account : /\ step[b] \in WorkerStep /\ step'[b] \in WorkerStep
                         /\ tries[b] \in 0..Retries + 1 /\ tries'[b] \in 0..Retries + 1
  BY DEF BatchTypeOK
<1>2. ASSUME NEW b \in Account \ {a} PROVE Rank(b)' = Rank(b)
  <2>1. step'[b] = step[b] /\ tries'[b] = tries[b]
    BY <1>2 DEF Worker, Authenticate, Call, Misread, Admitted, Refused, Return, Abort, OpenQueue, Append, HandOff,
                Emit, Raise, Raised, Answer, Enter, BatchTypeOK
  <2> QED BY <1>1, <2>1, RankOf DEF Left
<1> SUFFICES Rank(a)' < Rank(a)
  BY <1>2
<1>3. ASSUME tries'[a] = tries[a],
             \/ step[a] = "queued" /\ step'[a] = "try"
             \/ step[a] = "open" /\ step'[a] \in {"try", "link", "emit"}
             \/ step[a] = "try" /\ step'[a] = "emit"
             \/ step[a] = "link" /\ step'[a] = "linking"
             \/ step[a] = "linking" /\ step'[a] \in {"writing", "emit"}
             \/ step[a] = "writing" /\ step'[a] = "emit"
      PROVE  Rank(a)' < Rank(a)
  <2>1. Left(a)' = Left(a) BY <1>3 DEF Left
  <2> QED BY <1>1, <1>3, <2>1, RankOf
<1>4. ASSUME step[a] \in {"queued", "try", "open", "linking", "writing", "emit"}, step'[a] = "done"
      PROVE  Rank(a)' < Rank(a)
  BY <1>1, <1>4, RankOf
<1>5. ASSUME step[a] = "try", step'[a] = "open", tries'[a] = tries[a] + 1
      PROVE  Rank(a)' < Rank(a)
  <2>1. Left(a)' = Left(a) - 2 BY <1>1, <1>5, BatchAssumption DEF Left
  <2> QED BY <1>1, <1>5, <2>1, RankOf
<1>6. \A row : Answer(a, row) => step'[a] = "done"
  BY DEF Answer, Enter, BatchTypeOK
<1>7. Raised(a) => step'[a] = "done"
  BY <1>6 DEF Raised
<1>8. CASE Authenticate(a)
  <2>1. /\ step[a] = "queued"
        /\ \/ step'[a] = "try" /\ tries' = tries
           \/ step'[a] = "done"
    BY <1>6, <1>8 DEF Authenticate, Enter, BatchTypeOK
  <2> QED BY <1>3, <1>4, <2>1
<1>9. CASE Call(a)
  <2>1. /\ step[a] = "try"
        /\ \/ step'[a] = "open" /\ tries'[a] = tries[a] + 1
           \/ step'[a] = "emit" /\ tries' = tries
    BY <1>9 DEF Call, Admitted, Refused, Enter, BatchTypeOK
  <2> QED BY <1>3, <1>5, <2>1
<1>14. CASE Misread(a)
  <2>1. step[a] = "try" /\ step'[a] = "emit" /\ tries' = tries
    BY <1>14 DEF Misread, Enter, BatchTypeOK
  <2> QED BY <1>3, <2>1
<1>10. CASE Return(a)
  <2>1. step[a] = "open" /\ step'[a] \in {"try", "link", "emit"} /\ tries' = tries
    BY <1>10 DEF Return, Enter, BatchTypeOK
  <2> QED BY <1>3, <2>1
<1>11. CASE Abort(a)
  <2>1. step[a] = "open" /\ step'[a] = "done"
    BY <1>7, <1>11 DEF Abort, Raise
  <2> QED BY <1>4, <2>1
<1>12. CASE OpenQueue(a) \/ Append(a) \/ HandOff(a)
  <2>1. \/ step[a] = "link" /\ step'[a] = "linking" /\ tries' = tries
        \/ step[a] = "linking" /\ step'[a] = "writing" /\ tries' = tries
        \/ step[a] \in {"linking", "writing"} /\ step'[a] = "emit" /\ tries' = tries
        \/ step[a] \in {"linking", "writing"} /\ step'[a] = "done"
    BY <1>7, <1>12 DEF OpenQueue, Append, HandOff, Enter, BatchTypeOK
  <2> QED BY <1>3, <1>4, <2>1
<1>13. CASE Emit(a)
  <2>1. step[a] \in {"try", "emit"} /\ step'[a] = "done"
    BY <1>6, <1>7, <1>13 DEF Emit, Raise
  <2> QED BY <1>4, <2>1
<1> QED BY <1>8, <1>9, <1>10, <1>11, <1>12, <1>13, <1>14 DEF Worker

Descends ==
  \A a \in Account :
    /\ main # "off" => Rank(a)' <= Rank(a)
    /\ Worker(a) \/ Collect(a) => Rank(a)' < Rank(a)

LEMMA StepDescends ==
  ASSUME BatchTypeOK, BatchTypeOK', [Next]_vars
  PROVE  [Descends]_vars
<1>1. \A b \in Account : /\ step[b] \in WorkerStep /\ step'[b] \in WorkerStep
                         /\ tries[b] \in 0..Retries + 1 /\ tries'[b] \in 0..Retries + 1
  BY DEF BatchTypeOK
<1>2. \A b \in Account : Rank(b) \in Nat /\ Rank(b)' \in Nat
  BY <1>1, RankOf
<1>3. ASSUME NEW a \in Account, Worker(a) PROVE \A b \in Account : Rank(b)' <= Rank(b)
  BY <1>2, <1>3, WorkerDescends
<1>4. ASSUME NEW a \in Account, Collect(a)
      PROVE  Rank(a)' < Rank(a) /\ \A b \in Account : Rank(b)' <= Rank(b)
  <2>1. step[a] = "done" /\ step' = [step EXCEPT ![a] = "off"] /\ tries' = tries
    BY <1>4 DEF Collect, Enter
  <2>2. Rank(a)' = 0 /\ Rank(a) = 1
    BY <1>1, <2>1, RankOf DEF BatchTypeOK
  <2>3. ASSUME NEW b \in Account \ {a} PROVE Rank(b)' = Rank(b)
    <3>1. step'[b] = step[b] /\ Left(b)' = Left(b) BY <2>1 DEF Left, BatchTypeOK
    <3> QED BY <1>1, <3>1, RankOf
  <2> QED BY <1>2, <2>2, <2>3
<1>5. ASSUME step' = step, tries' = tries PROVE \A b \in Account : Rank(b)' <= Rank(b)
  <2>1. ASSUME NEW b \in Account PROVE Rank(b)' = Rank(b)
    <3>1. step'[b] = step[b] /\ Left(b)' = Left(b) BY <1>5 DEF Left
    <3> QED BY <1>1, <3>1, RankOf
  <2> QED BY <1>2, <2>1
<1>6. ASSUME RunOver PROVE \A b \in Account : Rank(b)' <= Rank(b)
  BY <1>1, <1>2, <1>6, RankOf DEF RunOver
<1>7. ASSUME Next, main # "off" PROVE \A b \in Account : Rank(b)' <= Rank(b)
  <2>1. \A resume \in BOOLEAN : ~Start(resume) BY <1>7 DEF Start
  <2>2. ASSUME NEW a \in Account, Act(a) PROVE step' = step /\ tries' = tries BY <2>2 DEF Act
  <2>3. Finish \/ Drained \/ Crash => RunOver BY DEF Finish, Drained, Crash
  <2>4. ASSUME NEW p \in Process, Authorize(p) PROVE step' = step /\ tries' = tries
    BY <2>4 DEF Authorize, batchVars
  <2> QED BY <1>3, <1>4, <1>5, <1>6, <1>7, <2>1, <2>2, <2>3, <2>4 DEF Next, Main
<1> QED BY <1>4, <1>7, WorkerDescends DEF Descends

(* Retries are bounded: what is left to do for an account never grows while a
   run goes on, and every step of its worker, and the collection of its row,
   makes it less: both take at most 2 * Retries + 9 steps in a run, whatever is
   refused, retried or raised.  RunEnds adds that the threads do go on. *)
THEOREM WorkersMoveOn == Spec => [][Descends]_vars
<1>1. Inv => BatchTypeOK
  BY DEF Inv
<1>2. BatchTypeOK /\ BatchTypeOK' /\ [Next]_vars => [Descends]_vars
  BY StepDescends
<1> QED BY <1>1, <1>2, BatchInvariant, PTL DEF Spec
=============================================================================
