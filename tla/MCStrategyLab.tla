--------------------------- MODULE MCStrategyLab ---------------------------
(* StrategyLab on small instances: see the .cfg file for the bounds.         *)
EXTENDS StrategyLab, TLC

\* The requests differ in nothing, and no property names one.
Interchangeable == Permutations(Request)
=============================================================================
