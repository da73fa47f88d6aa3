------------------------------ MODULE MCNumbers ------------------------------
(* Numbers of 3 and 6 bits, literals in bytes of 4 bits and one more, and  *)
(* a machine whose bit instructions are those of Bitwise.                  *)
EXTENDS Numbers, Bitwise
MachineAnd(a, b) == a & b
MachineOr(a, b) == a | b
MachineXor(a, b) == a ^^ b
=============================================================================
