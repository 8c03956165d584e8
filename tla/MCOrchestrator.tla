--------------------------- MODULE MCOrchestrator ---------------------------
(* Instances of Orchestrator for TLC.                                      *)
EXTENDS Orchestrator

CONSTANTS big_file, other_file, note   \* tool outputs
=============================================================================
