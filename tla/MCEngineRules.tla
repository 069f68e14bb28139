--------------------------- MODULE MCEngineRules ---------------------------
(* EngineRules on small instances: see the .cfg file for the bounds.         *)
EXTENDS EngineRules
=============================================================================
