----------------------------- MODULE MCLiveTurns -----------------------------
(* LiveTurns on small instances: see the .cfg files for the bounds.          *)
EXTENDS LiveTurns
=============================================================================
