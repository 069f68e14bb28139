----------------------------- MODULE MCLiveFeed -----------------------------
(* LiveFeed on small instances: see the .cfg files for the bounds.           *)
EXTENDS LiveFeed
=============================================================================
