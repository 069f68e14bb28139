------------------------ MODULE MCRequestIdempotency ------------------------
(* RequestIdempotency on small instances: see the .cfg file for the bounds.  *)
EXTENDS RequestIdempotencyProps
=============================================================================
