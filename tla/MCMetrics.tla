----------------------------- MODULE MCMetrics -----------------------------
(* Metrics on a few calls.                                                  *)
EXTENDS Metrics, TLC
=============================================================================
