----------------------------- MODULE AtMostOnce -----------------------------
(***************************************************************************)
(* What a payment operation promises to everybody who shares its           *)
(* idempotency key, without callers, gates, records or checkpoints: one    *)
(* attempt at a time, a side effect at most once and only inside an        *)
(* attempt, and no attempt after one that may have acted.  PaymentLane     *)
(* implements it; PaymentBatch is built on it, one instance per account.   *)
(***************************************************************************)
VARIABLES
  state,   \* what the key is open to, or how it was closed
  acted    \* an attempt has started the side effect

Reopenable == {"fresh", "again"}
Closed == {"completed", "failed", "uncertain"}
State == Reopenable \cup Closed \cup {"open"}

Init == state = "fresh" /\ acted = FALSE

\* What an attempt may leave behind: once it has acted the key is closed.
Left == Closed \cup (IF acted THEN {} ELSE Reopenable)

Admit == state \in Reopenable /\ state' = "open" /\ UNCHANGED acted

Act == state = "open" /\ ~acted /\ acted' = TRUE /\ UNCHANGED state

End == state = "open" /\ state' \in Left /\ UNCHANGED acted

\* The record of a key at rest is damaged: nothing is known any more.
Spoil == state # "open" /\ state' = "uncertain" /\ UNCHANGED acted

Next == Admit \/ Act \/ End \/ Spoil

Spec == Init /\ [][Next]_<<state, acted>>
=============================================================================
