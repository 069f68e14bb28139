----------------------- MODULE MCStrategyPublication -----------------------
(* StrategyPublication on small instances: see the .cfg files for bounds.    *)
EXTENDS StrategyPublication
=============================================================================
