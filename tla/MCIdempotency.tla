----------------------------- MODULE MCIdempotency ----------------------------
EXTENDS Idempotency
===============================================================================
