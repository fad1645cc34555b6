-------------------------- MODULE EnvironmentLedger --------------------------
(***************************************************************************)
(* The exit lease ledger (store/environment_ledger.py): a database table   *)
(* of reference-counted leases on proxy exits.  Every operator below is    *)
(* one transaction; an acquire is several, and other attempts run between  *)
(* them.  Leases are taken with allow_reuse and without a fingerprint, as  *)
(* the registration batch does; observations are left out.                 *)
(***************************************************************************)
EXTENDS Naturals, Sequences, FiniteSets

CONSTANTS
  Attempt,    \* who takes leases
  Exit,       \* exit keys
  MaxLapses   \* bound: leases whose TTL runs out

VARIABLES
  ledger,   \* the rows, by id; fresh: expires_at is in the future
  lease,    \* lease[a]: the id a holds, 0 when it has none
  holder,   \* holder[a]: the id of the live row a has read
  unseen,   \* attempts whose use of an exit the ledger does not show (history)
  leaked,   \* ids of which a holder was never dropped (history)
  lapses

ledgerVars == <<ledger, lease, holder, unseen, leaked, lapses>>

ASSUME LedgerAssumption == MaxLapses \in Nat

Lease == [exit : Exit, state : {"leased", "released", "expired"}, holders : Nat, fresh : BOOLEAN]

LedgerTypeOK ==
  /\ ledger \in Seq(Lease)
  /\ lease \in [Attempt -> 0..Len(ledger)]
  /\ holder \in [Attempt -> 0..Len(ledger)]
  /\ unseen \in SUBSET Attempt
  /\ leaked \in SUBSET (1..Len(ledger))
  /\ lapses \in 0..MaxLapses

LedgerInit ==
  /\ ledger = <<>>
  /\ lease = [a \in Attempt |-> 0]
  /\ holder = [a \in Attempt |-> 0]
  /\ unseen = {}
  /\ leaked = {}
  /\ lapses = 0

Leased(e) == {r \in 1..Len(ledger) : ledger[r].exit = e /\ ledger[r].state = "leased"}

\* Time passes the expiry of a lease.
Lapse(r) ==
  /\ lapses < MaxLapses
  /\ r \in Leased(ledger[r].exit) /\ ledger[r].fresh
  /\ ledger' = [ledger EXCEPT ![r].fresh = FALSE]
  /\ lapses' = lapses + 1
  /\ UNCHANGED <<lease, holder, unseen, leaked>>

\* sweep_expired_environment_leases; a task that still holds such a lease goes
\* on without the ledger knowing.
Sweep ==
  LET over == {r \in 1..Len(ledger) : ledger[r].state = "leased" /\ ~ledger[r].fresh} IN
  /\ ledger' = [r \in 1..Len(ledger) |->
                  IF r \in over THEN [ledger[r] EXCEPT !.state = "expired"] ELSE ledger[r]]
  /\ unseen' = unseen \cup {a \in Attempt : lease[a] \in over}
  /\ UNCHANGED <<lease, holder, leaked, lapses>>

\* _live_conflicts: the live row of the exit, or 0.  The time it compares with
\* was read before: a row that has lapsed since may still pass for live.
LiveConflict(e) ==
  Leased(e) \cup IF \E r \in Leased(e) : ledger[r].fresh THEN {} ELSE {0}

\* The row a has read tells it to share the lease or to take a new one.
Look(a, e) ==
  /\ holder' \in {[holder EXCEPT ![a] = r] : r \in LiveConflict(e)}
  /\ UNCHANGED <<ledger, lease, unseen, leaked, lapses>>

\* The partial unique index refuses a second leased row of an exit.
Insertable(e) == Leased(e) = {}

Insert(a, e) ==
  /\ Insertable(e)
  /\ ledger' = Append(ledger, [exit |-> e, state |-> "leased", holders |-> 1, fresh |-> TRUE])
  /\ lease' = [lease EXCEPT ![a] = Len(ledger) + 1]
  /\ UNCHANGED <<holder, unseen, leaked, lapses>>

\* Mutant of Share: the count is taken, the id is not handed to the caller.
ShareUnnamed(a) ==
  /\ holder[a] # 0
  /\ ledger' = [ledger EXCEPT ![holder[a]].holders = @ + 1, ![holder[a]].fresh = TRUE]
  /\ unseen' = unseen \cup {a}
  /\ holder' = [holder EXCEPT ![a] = 0]
  /\ UNCHANGED <<lease, leaked, lapses>>

\* _share_live_lease: by id, whatever the row has become since it was read.
Share(a) ==
  LET r == holder[a] IN
  /\ r # 0
  /\ ledger' = [ledger EXCEPT ![r].holders = @ + 1, ![r].fresh = TRUE]
  /\ lease' = [lease EXCEPT ![a] = r]
  /\ holder' = [holder EXCEPT ![a] = 0]
  /\ unseen' = IF ledger[r].state = "leased" THEN unseen ELSE unseen \cup {a}
  /\ UNCHANGED <<leaked, lapses>>

\* No lease: the exit is used all the same.
GoWithout(a) ==
  /\ unseen' = unseen \cup {a}
  /\ holder' = [holder EXCEPT ![a] = 0]
  /\ UNCHANGED <<ledger, lease, leaked, lapses>>

\* Mutant of Dropped: the first holder to finish ends the lease.
DroppedAtOnce(row) ==
  IF row.holders = 0 THEN row ELSE [row EXCEPT !.holders = @ - 1, !.state = "released"]

\* The one statement of release_environment_lease, which does not look at the
\* state: the last holder of an expired lease makes it a released one.
Dropped(row) ==
  IF row.holders = 0 THEN row
  ELSE [row EXCEPT !.holders = @ - 1, !.state = IF row.holders = 1 THEN "released" ELSE @]

\* The attempt is over and drops its lease, unless the statement fails.
Drop(a, fails) ==
  /\ IF lease[a] = 0 \/ fails
     THEN UNCHANGED ledger
     ELSE ledger' = [ledger EXCEPT ![lease[a]] = Dropped(@)]
  /\ leaked' = IF fails THEN leaked \cup {lease[a]} ELSE leaked
  /\ lease' = [lease EXCEPT ![a] = 0]
  /\ unseen' = unseen \ {a}
  /\ UNCHANGED <<holder, lapses>>

-----------------------------------------------------------------------------
(* No exit is squatted on: a leased row has a holder that will drop it, and its
   count is the number of its holders. *)
NobodySquats ==
  \A r \in 1..Len(ledger) \ leaked :
    LET holders == Cardinality({a \in Attempt : lease[a] = r}) IN
    /\ ledger[r].holders = holders
    /\ ledger[r].state = "leased" => holders > 0
=============================================================================
