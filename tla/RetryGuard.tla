----------------------------- MODULE RetryGuard -----------------------------
(***************************************************************************)
(* RegistrationRetryGuard (registration/retry_guard.py): a file with one   *)
(* entry per address, read and replaced under the cross-process write      *)
(* lock, so that a section is one step.  Batches of several processes use  *)
(* it.  A cooldown and a quarantine end with time, a dead end does not.    *)
(***************************************************************************)
EXTENDS Naturals

CONSTANTS
  Address,
  CooldownAfter,     \* threshold: failures of one class before a cooldown
  QuarantineAfter,   \* otp_pending_quarantine_threshold
  MaxExpiries        \* bound: cooldowns and quarantines that run out

VARIABLES
  guard,      \* guard[a]: the entry of address a
  expiries

guardVars == <<guard, expiries>>

ASSUME GuardAssumption ==
  /\ CooldownAfter \in Nat \ {0}
  /\ QuarantineAfter \in Nat \ {0, 1}
  /\ MaxExpiries \in Nat

\* What an attempt ends in, as far as its handling tells: a success; a network
\* failure; a refusal that cools down but says nothing of the environment; an
\* email code that was never sent; an address that is registered already; a
\* failure that leaves no entry; a cancellation.
Verdict == {"ok", "network", "mailbox", "stuck", "dead_end", "fatal", "cancelled"}

\* kind: what blocks the address; waiting: its time is not over.  Counts are
\* compared with the thresholds alone and stop there.
Kind == {"none", "strikes", "pending", "quarantined", "dead_end"}
Entry == [kind : Kind, of : Verdict, count : Nat, waiting : BOOLEAN]
NoEntry == [kind |-> "none", of |-> "ok", count |-> 0, waiting |-> FALSE]

GuardTypeOK ==
  /\ guard \in [Address -> Entry]
  /\ expiries \in 0..MaxExpiries

GuardInit ==
  /\ guard = [a \in Address |-> NoEntry]
  /\ expiries = 0

Expire(a) ==
  /\ guard[a].waiting
  /\ expiries < MaxExpiries
  /\ expiries' = expiries + 1
  /\ guard' = [guard EXCEPT ![a].waiting = FALSE]

\* check(): the address may not be attempted now.
Blocked(a) == guard[a].kind = "dead_end" \/ guard[a].waiting

AtMost(n, limit) == IF n < limit THEN n ELSE limit

\* The class of a failure and, of otp_pending, the count: "stuck" is a mailbox
\* failure, so that a mailbox failure after it counts on.
Class(v) == IF v = "stuck" THEN "mailbox" ELSE v

Stuck(old) ==
  LET count == AtMost(IF old.kind = "pending" THEN old.count + 1 ELSE 1, QuarantineAfter) IN
  [kind |-> IF count = QuarantineAfter THEN "quarantined" ELSE "pending",
   of |-> "mailbox", count |-> count, waiting |-> TRUE]

Strike(old, v) ==
  LET count == AtMost(IF old.of = Class(v) THEN old.count + 1 ELSE 1, CooldownAfter) IN
  [kind |-> "strikes", of |-> Class(v), count |-> count, waiting |-> count = CooldownAfter]

\* Nothing counts on from a dead end.
DeadEnd == [kind |-> "dead_end", of |-> "dead_end", count |-> 0, waiting |-> FALSE]

\* A quarantine that is over is no entry.
Current(entry) == IF entry.kind = "quarantined" /\ ~entry.waiting THEN NoEntry ELSE entry

\* Mutant of Kept: a later failure replaces a dead end.
KeptWaiting(old) == old.kind = "quarantined"

\* A failed attempt cannot erase a terminal verdict.
Kept(old) == old.kind \in {"dead_end", "quarantined"}

\* What record() makes of an entry.
Recorded(entry, v) ==
  LET old == Current(entry) IN
  CASE v = "ok" -> NoEntry
    [] v # "ok" /\ Kept(old) -> entry
    [] v = "stuck" /\ ~Kept(old) -> Stuck(old)
    [] v \in {"network", "mailbox"} /\ ~Kept(old) -> Strike(old, v)
    [] v = "dead_end" /\ ~Kept(old) -> DeadEnd
    [] OTHER -> NoEntry

Record(a, v) == guard' = [guard EXCEPT ![a] = Recorded(@, v)]

\* A file that cannot be read is taken for empty: the entry alone is written.
RecordAlone(a, v) ==
  guard' = [b \in Address |-> IF b = a THEN Recorded(NoEntry, v) ELSE NoEntry]

\* mark_dead_end: the verdict arrives in the middle of an attempt.
MarkDeadEnd(a) == guard' = [guard EXCEPT ![a] = DeadEnd]
=============================================================================
