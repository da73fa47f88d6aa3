---------------------------- MODULE RuntimeRefines ----------------------------
(* The interpreter implements Activations: the activations are read off the *)
(* four stacks by the sizes the frames saved.                               *)
EXTENDS Runtime

ActivationAt(i) ==
  [func |-> frames[i].func,
   ops |-> SubSeq(values, Base(i) + 1, ValueEnd(i)),
   locals |-> SubSeq(locals, frames[i].locals + 1, LocalEnd(i))]

ActivationStack ==
  IF running THEN [i \in 1..(Len(frames) - 1) |-> ActivationAt(i + 1)] ELSE <<>>

(* The outermost activation has ended: its results are on the value stack   *)
(* until Finish takes them.                                                 *)
Returned ==
  IF running /\ Len(frames) = 1 THEN [ok |-> TRUE, vals |-> values]
  ELSE [ok |-> ok, vals |-> IF ok THEN result ELSE <<>>]

(* Every behaviour of the interpreter is one of the activation machine.     *)
A == INSTANCE Activations WITH stack <- ActivationStack, returned <- Returned
Refinement == A!Spec
=============================================================================
