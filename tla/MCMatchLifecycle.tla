-------------------------- MODULE MCMatchLifecycle --------------------------
(* MatchLifecycle on small instances: see the .cfg files for the bounds.     *)
EXTENDS MatchLifecycleProps, TLC

CONSTANTS r, s,   \* a ranked match, a simulation
          w1, w2, h1, h2

Interchangeable == Permutations({h1, h2}) \cup Permutations({w1, w2})
=============================================================================
