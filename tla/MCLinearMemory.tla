---------------------------- MODULE MCLinearMemory ----------------------------
(* LinearMemory with 16 addresses instead of 2^32 and pages of 2 bytes: a   *)
(* 4-bit machine whose 8 pages are the 2^16 of the program.                 *)
EXTENDS LinearMemory

SmallGrows == {0, 1, 2, 11}
AllGrows == 0..(U32Size - 1)
=============================================================================
