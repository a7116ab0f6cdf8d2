------------------------- MODULE MCSharedTaskQueue -------------------------
(* Instance of SharedTaskQueue for TLC. *)
EXTENDS SharedTaskQueue
=============================================================================
