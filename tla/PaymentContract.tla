--------------------------- MODULE PaymentContract ---------------------------
(***************************************************************************)
(* The pure decisions of the payment lane: PaymentResult.from_mapping and  *)
(* payment_retry_allowed (payment/contracts.py), _replay_allowed and       *)
(* conflict_result (operation_journal.py).  Error stages are reduced to    *)
(* the one distinction the code makes, membership in _SIDE_EFFECT_STAGES;  *)
(* messages, codes and URLs are left out.                                  *)
(***************************************************************************)

\* Terminal statuses, the in-flight ones ("processing"), the status names the
\* executor gives the steps before the adapter ("preparing" for created,
\* validating and preparing_proxy), "extracting", and "running".
Status == {"running", "preparing", "extracting", "processing",
           "completed", "failed", "timed_out", "unknown", "cancelled"}

\* What an adapter or the executor hands to from_mapping.  "absent" stands for
\* a flag the mapping does not carry and for a missing status.
Raw == [ok      : BOOLEAN,
        status  : Status \cup {"absent"},
        effect  : BOOLEAN,                    \* error_stage in _SIDE_EFFECT_STAGES
        execute : BOOLEAN,                    \* operation = execute_payment
        side    : {"absent", "yes", "no"},    \* explicit side_effect_started
        recon   : BOOLEAN,
        retry   : BOOLEAN]

Outcome == [ok : BOOLEAN, status : Status, side : BOOLEAN, recon : BOOLEAN,
            retry : BOOLEAN]

\* from_mapping: the contract's reading of a mapping.
FromMapping(raw) ==
  LET status == IF raw.status # "absent" THEN raw.status
                ELSE IF raw.ok THEN "completed" ELSE "failed"
      recon == raw.recon \/ status = "unknown"
      inferred == raw.effect \/ (raw.execute /\ (raw.ok \/ status = "processing"))
      side == recon \/ (IF raw.side = "absent" THEN inferred ELSE raw.side = "yes")
  IN [ok     |-> raw.ok,
      status |-> status,
      side   |-> side,
      recon  |-> recon,
      retry  |-> /\ raw.retry
                 /\ ~(raw.ok \/ side \/ recon)
                 /\ status \notin {"unknown", "cancelled", "completed"}]

\* to_dict: the mapping a result becomes when it is handed on.
ToDict(out, raw) ==
  [ok |-> out.ok, status |-> out.status, effect |-> raw.effect /\ ~out.ok,
   execute |-> raw.execute, side |-> IF out.side THEN "yes" ELSE "no",
   recon |-> out.recon, retry |-> out.retry]

\* payment_retry_allowed: may the batch run this row again?
RetryAllowed(raw) == ~FromMapping(raw).ok /\ FromMapping(raw).retry

\* Mutant of ReplayAllowed: a started side effect is forgotten.
ReplayAllowedBlindly(rec) ==
  /\ ~rec.recon
  /\ rec.status = "running" \/ (rec.status \in {"failed", "timed_out"} /\ rec.retry)

\* Mutant of ReplayAllowed: a timeout is not among the replayable statuses.
ReplayAllowedNoTimeout(rec) ==
  /\ ~(rec.recon \/ rec.side)
  /\ rec.status = "running" \/ (rec.status = "failed" /\ rec.retry)

\* _replay_allowed: may a call with this earlier record run again?
ReplayAllowed(rec) ==
  /\ ~(rec.recon \/ rec.side)
  /\ rec.status = "running" \/ (rec.status \in {"failed", "timed_out"} /\ rec.retry)

\* conflict_result: what the refused caller is told about the earlier record.
ConflictResult(rec) ==
  LET uncertain == rec.recon \/ rec.side \/ rec.status \in {"running", "unknown", "timed_out"}
  IN [ok |-> FALSE, status |-> IF uncertain THEN "unknown" ELSE "failed",
      side |-> rec.side, recon |-> uncertain, retry |-> FALSE]
=============================================================================
