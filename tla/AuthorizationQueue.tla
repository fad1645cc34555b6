------------------------- MODULE AuthorizationQueue -------------------------
(***************************************************************************)
(* The PayPal authorization queue (paypal/authorization_queue.py): a JSON  *)
(* file of agreements to authorize, filled by a payment batch and emptied  *)
(* by processes that run process_paypal_ba_authorizations.  _LOCK is a     *)
(* threading.Lock, so between the read of a section, its temporary file    *)
(* and the replace another process may do the same, and the temporary file *)
(* has one name for all of them.                                           *)
(***************************************************************************)
EXTENDS Naturals

CONSTANTS
  Item,        \* agreements (BA tokens)
  Process,     \* processes that open the queue file
  NoRead,      \* the process is in no section
  NoItem,      \* the process has no item in hand
  MaxFaults    \* bound: reads that fail, writes that raise or mix

VARIABLES
  file,      \* file[i]: status of the item of i, "absent" when it has none
  seen,      \* seen[p]: the items p has read in its section, or NoRead
  blind,     \* the processes whose section could not read the file
  writing,   \* those that are at the temporary file
  mixed,     \* those of them that wrote it at the same time as another
  todo,      \* todo[p]: the pending items p has listed and not done
  work,      \* work[p]: step of process_paypal_ba_authorizations
  current,   \* current[p]: the item in hand
  charged,   \* charged[i]: times the handler authorized i, 2 for more than once (history)
  raced,     \* items another process got in the way of: a stale read put them
             \* back, two took them, two wrote one temporary file (history)
  wiped,     \* items a section dropped that could not read the file (history)
  faults

section == <<seen, blind, writing, mixed>>
spoilt == <<raced, wiped>>
queueVars == <<file, section, todo, work, current, charged, spoilt, faults>>

\* Nothing in the queue tells the statuses of _TERMINAL apart: they are "settled".
ItemStatus == {"absent", "pending", "running", "settled"}
Step == {"idle", "next", "marking", "handling", "handled", "recording", "raised", "failing"}

ASSUME QueueAssumption ==
  /\ NoRead \notin [Item -> ItemStatus]
  /\ NoItem \notin Item
  /\ MaxFaults \in Nat

QueueTypeOK ==
  /\ file \in [Item -> ItemStatus]
  /\ seen \in [Process -> [Item -> ItemStatus] \cup {NoRead}]
  /\ blind \in SUBSET Process /\ writing \in SUBSET Process /\ mixed \in SUBSET writing
  /\ todo \in [Process -> SUBSET Item]
  /\ work \in [Process -> Step]
  /\ current \in [Process -> Item \cup {NoItem}]
  /\ charged \in [Item -> 0..2]
  /\ raced \in SUBSET Item /\ wiped \in SUBSET Item
  /\ faults \in 0..MaxFaults

QueueInit ==
  /\ file = [i \in Item |-> "absent"]
  /\ seen = [p \in Process |-> NoRead]
  /\ blind = {} /\ writing = {} /\ mixed = {}
  /\ todo = [p \in Process |-> {}]
  /\ work = [p \in Process |-> "idle"]
  /\ current = [p \in Process |-> NoItem]
  /\ charged = [i \in Item |-> 0]
  /\ raced = {} /\ wiped = {}
  /\ faults = 0

Fault == faults < MaxFaults /\ faults' = faults + 1

Empty == [i \in Item |-> "absent"]

\* _load_unlocked: an unreadable file is an empty queue.
Loads(items) ==
  \/ items = file /\ UNCHANGED faults
  \/ items = Empty /\ items # file /\ Fault

\* A section of p begins: _LOCK is taken and the file is read.
Read(p) ==
  /\ seen[p] = NoRead
  /\ \E items \in {file, Empty} :
       /\ Loads(items)
       /\ seen' = [seen EXCEPT ![p] = items]
       /\ blind' = IF items = file THEN blind ELSE blind \cup {p}
  /\ UNCHANGED <<writing, mixed>>

\* _write_unlocked opens, and empties, the temporary file, which may be in the
\* middle of the write of another process.
OpenTemporary(p) ==
  /\ seen[p] # NoRead /\ p \notin writing
  /\ writing' = writing \cup {p}
  /\ \/ UNCHANGED <<mixed, faults>>
     \/ writing # {} /\ mixed' = mixed \cup writing \cup {p} /\ Fault
  /\ UNCHANGED <<seen, blind>>

\* The items whose state in the file the writer has not seen.
Unseen(p) == {i \in Item : file[i] # seen[p][i]}

\* An item that is taken although it was not waiting.
Twice(p, i, status) == IF status = "running" /\ seen[p][i] # "pending" THEN {i} ELSE {}

\* The rename: the whole file is replaced by what p has read and changed.  Two
\* that write one temporary file overlay each other: the queue file becomes what
\* one of them wrote, or an unreadable mixture, or stays as it was.
Replace(p, i, status) ==
  LET items == [seen[p] EXCEPT ![i] = status] IN
  /\ p \in writing
  /\ file' \in IF p \in mixed THEN {items, Empty, file} ELSE {items}
  /\ raced' = raced \cup {j \in Item : file'[j] # items[j]} \cup Twice(p, i, status)
                    \cup (IF p \in blind THEN {} ELSE Unseen(p))
  /\ wiped' = IF p \in blind THEN wiped \cup Unseen(p) ELSE wiped

\* The write raises: the disk, or the temporary file was renamed by another
\* process, or is open in it (Windows), whatever reached the queue file.
ReplaceFails(p, i, status) ==
  \/ Fault /\ UNCHANGED <<file, spoilt>>
  \/ /\ p \in mixed
     /\ Replace(p, i, status) \/ UNCHANGED <<file, spoilt>>
     /\ UNCHANGED faults

\* The section ends, or its process: nothing it had open counts any more.
Release(p) ==
  /\ seen' = [seen EXCEPT ![p] = NoRead]
  /\ blind' = blind \ {p} /\ writing' = writing \ {p} /\ mixed' = mixed \ {p}

Goto(p, step) == work' = [work EXCEPT ![p] = step]

\* The end of a pass, or of the process: what it listed is forgotten.
Leave(p) ==
  /\ Goto(p, "idle")
  /\ current' = [current EXCEPT ![p] = NoItem]
  /\ todo' = [todo EXCEPT ![p] = {}]
  /\ Release(p)

\* The item in hand is done with.
Advance(p) ==
  /\ Goto(p, "next")
  /\ current' = [current EXCEPT ![p] = NoItem]
  /\ Release(p)
  /\ UNCHANGED todo

\* list_paypal_ba_authorizations(status = "pending").
Pending == {i \in Item : file[i] = "pending"}

List(p) ==
  /\ work[p] = "idle"
  /\ Pending # {}
  /\ todo' = [todo EXCEPT ![p] = Pending]
  /\ Goto(p, "next")
  /\ UNCHANGED <<file, section, current, charged, spoilt, faults>>

EndPass(p) ==
  /\ work[p] = "next"
  /\ todo[p] = {}
  /\ Leave(p)
  /\ UNCHANGED <<file, charged, spoilt, faults>>

\* _update(status = "running") begins: the item was pending when it was listed.
Take(p) ==
  /\ work[p] = "next"
  /\ \E i \in todo[p] :
       /\ todo' = [todo EXCEPT ![p] = @ \ {i}]
       /\ current' = [current EXCEPT ![p] = i]
  /\ Read(p)
  /\ Goto(p, "marking")
  /\ UNCHANGED <<file, charged, spoilt>>

\* The item was found in what was read, and the file is written.
Open(p) ==
  /\ work[p] \in {"marking", "recording", "failing"}
  /\ seen[p][current[p]] # "absent"
  /\ OpenTemporary(p)
  /\ UNCHANGED <<file, todo, work, current, charged, spoilt>>

\* The item is gone, or the file cannot be replaced: the pass ends.
Mark(p) ==
  LET i == current[p] IN
  /\ work[p] = "marking"
  /\ \/ /\ Replace(p, i, "running")
        /\ Release(p) /\ Goto(p, "handling")
        /\ UNCHANGED <<todo, current, faults>>
     \/ seen[p][i] = "absent" /\ Leave(p) /\ UNCHANGED <<file, spoilt, faults>>
     \/ seen[p][i] # "absent" /\ ReplaceFails(p, i, "running") /\ Leave(p)
  /\ UNCHANGED charged

\* _private_item reads the item again, whatever its status is by now, and the
\* handler authorizes the agreement.
Handle(p) ==
  LET i == current[p] IN
  /\ work[p] = "handling"
  /\ \E items \in {file, Empty} :
       /\ Loads(items)
       /\ IF items[i] = "absent"
          THEN Goto(p, "raised") /\ UNCHANGED charged
          ELSE Goto(p, "handled") /\ charged' = [charged EXCEPT ![i] = IF @ = 0 THEN 1 ELSE 2]
  /\ UNCHANGED <<file, section, todo, current, spoilt>>

\* The handler returns and its result is recorded in another section, or it
\* raises and the except branch opens one.
Reopen(p, from, to) ==
  /\ work[p] \in from
  /\ Read(p)
  /\ Goto(p, to)
  /\ UNCHANGED <<file, todo, current, charged, spoilt>>

Returns(p) == Reopen(p, {"handled"}, "recording")

Raises(p) == Reopen(p, {"handled", "raised"}, "failing")

\* Mutant of Record: an agreement that was not settled goes back to the queue.
RecordRequeued(p) ==
  LET i == current[p] IN
  /\ work[p] = "recording"
  /\ \E status \in {"settled", "pending"} : Replace(p, i, status)
  /\ Advance(p)
  /\ UNCHANGED <<charged, faults>>

\* The result is written; if the item is gone or the write raises, the except
\* branch writes "failed" in its turn.
Record(p) ==
  LET i == current[p] IN
  /\ work[p] = "recording"
  /\ \/ Replace(p, i, "settled") /\ Advance(p) /\ UNCHANGED faults
     \/ /\ IF seen[p][i] = "absent" THEN UNCHANGED <<file, spoilt, faults>> ELSE ReplaceFails(p, i, "settled")
        /\ Release(p) /\ Goto(p, "raised") /\ UNCHANGED <<todo, current>>
  /\ UNCHANGED charged

\* Nothing catches an exception of the except branch: the pass ends.
Fail(p) ==
  LET i == current[p] IN
  /\ work[p] = "failing"
  /\ \/ Replace(p, i, "settled") /\ Advance(p) /\ UNCHANGED faults
     \/ seen[p][i] = "absent" /\ Leave(p) /\ UNCHANGED <<file, spoilt, faults>>
     \/ seen[p][i] # "absent" /\ ReplaceFails(p, i, "settled") /\ Leave(p)
  /\ UNCHANGED charged

\* Mutant of Enqueue: an empty queue is not written.
EnqueueUnwritten(p, i) ==
  /\ IF seen[p] = Empty THEN UNCHANGED <<file, spoilt>> ELSE Replace(p, i, "pending")
  /\ Release(p)

\* enqueue_paypal_ba_authorization, once the file is read: the item is appended.
\* A token that is already queued, whatever became of it, is left alone.
Enqueue(p, i) ==
  /\ \/ seen[p] # NoRead /\ seen[p][i] # "absent" /\ UNCHANGED <<file, spoilt>>
     \/ Replace(p, i, "pending")
  /\ Release(p)

\* The process dies; an item it was at keeps the status it has in the file.
Stop(p) ==
  /\ work[p] # "idle"
  /\ Leave(p)
  /\ UNCHANGED <<file, charged, spoilt, faults>>

Pass(p) ==
  \/ EndPass(p) \/ Take(p) \/ Open(p) \/ Mark(p) \/ Handle(p)
  \/ Returns(p) \/ Raises(p) \/ Record(p) \/ Fail(p)

-----------------------------------------------------------------------------
(* An agreement is authorized (charged) at most once, over any number of
   passes, crashes and failing reads or writes, an item that such a read wiped
   included, unless two processes took it side by side, a stale write put its
   earlier status back, or two wrote one temporary file: nothing else in the
   queue repeats a payment. *)
ChargedOnce == \A i \in Item \ raced : charged[i] <= 1
=============================================================================
