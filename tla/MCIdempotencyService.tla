------------------------ MODULE MCIdempotencyService ------------------------
EXTENDS IdempotencyService
=============================================================================
