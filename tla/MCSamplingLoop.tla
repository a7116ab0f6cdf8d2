---------------------------- MODULE MCSamplingLoop ----------------------------
(* Instance of SamplingLoop for TLC. *)
EXTENDS SamplingLoop
=============================================================================
