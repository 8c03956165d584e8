------------------------------ MODULE MCRelay ------------------------------
(* Instances of Relay for TLC.                                             *)
EXTENDS Relay

\* Outputs shorter and longer than a preview.
Lengths == <<1, 6, 1>>
=============================================================================
