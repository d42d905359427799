---------------------------- MODULE MCPipeline ----------------------------
(***************************************************************************)
(* Model-checking instances of Pipeline.  Three triggers let two captures  *)
(* compete for a queue of one slot while a third is being analysed.        *)
(***************************************************************************)
EXTENDS Pipeline

BothMethods == {"teleprompter", "telegram"}
OnlyTeleprompter == {"teleprompter"}
=============================================================================
