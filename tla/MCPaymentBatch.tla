--------------------------- MODULE MCPaymentBatch ---------------------------
EXTENDS PaymentBatch, TLC
=============================================================================
