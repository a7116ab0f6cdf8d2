-------------------------- MODULE MCHarnessRunner --------------------------
(* Instances of HarnessRunner for TLC.                                     *)
EXTENDS HarnessRunner, TLC
=============================================================================
