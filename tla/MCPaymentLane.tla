--------------------------- MODULE MCPaymentLane ---------------------------
EXTENDS PaymentLaneProofs, TLC

R(ok, status, effect, side, recon, retry) ==
  [ok |-> ok, status |-> status, effect |-> effect, execute |-> FALSE,
   side |-> side, recon |-> recon, retry |-> retry]

\* Before the side effect: a link, a refusal, a retryable transport failure, a
\* timeout of the checkout.
Early == {R(TRUE, "absent", FALSE, "absent", FALSE, FALSE),
          R(FALSE, "failed", FALSE, "absent", FALSE, FALSE),
          R(FALSE, "failed", FALSE, "no", FALSE, TRUE),
          R(FALSE, "timed_out", FALSE, "absent", FALSE, TRUE)}

\* After it: a link, a failure at a side-effect stage (marked retryable by the
\* transport all the same), an unknown outcome, a settled refusal.
Late == {R(TRUE, "completed", FALSE, "absent", FALSE, FALSE),
         R(FALSE, "failed", TRUE, "absent", FALSE, TRUE),
         R(FALSE, "timed_out", FALSE, "yes", FALSE, TRUE),
         R(FALSE, "unknown", TRUE, "absent", TRUE, FALSE),
         R(FALSE, "failed", FALSE, "absent", FALSE, FALSE)}

\* Adapters that know their stage: nothing retryable after the side effect.
StageAware == [b \in BOOLEAN |-> IF b THEN Late ELSE Early]

\* Adapters that do not: a killed extractor is always a retryable timeout
\* (_run_extractor_subprocess), an exception of the transport, the one of
\* confirm_payment included, always a retryable failure (the regional adapter).
Careless == [b \in BOOLEAN |-> IF b THEN Late \cup Early ELSE Early]

\* Both keep what the batch is owed: no result of a step still under way.
ASSUME ResultsAreSettled == SettledAdapter
=============================================================================
