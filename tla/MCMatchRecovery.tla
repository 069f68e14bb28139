-------------------------- MODULE MCMatchRecovery --------------------------
(* MatchRecovery on small instances: see the .cfg file for the bounds.       *)
EXTENDS MatchRecovery, TLC

\* Workers differ in nothing, and no property names one.
Interchangeable == Permutations(Worker)
=============================================================================
