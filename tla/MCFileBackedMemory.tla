------------------------ MODULE MCFileBackedMemory ------------------------
(* Instances of FileBackedMemory for TLC: one writer adds once, the others *)
(* often enough to take the temporary file from under it twice.            *)
EXTENDS FileBackedMemory, TLC

OneWriter == CHOOSE w \in Writer : TRUE
AddLimits == [w \in Writer |-> IF w = OneWriter THEN 1 ELSE 4]
=============================================================================
