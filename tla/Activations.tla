----------------------------- MODULE Activations -----------------------------
(****************************************************************************)
(* What the interpreter promises: a WebAssembly execution is a stack of     *)
(* activations, each with operands and locals of its own.  An instruction   *)
(* works on the innermost activation only.  A call moves its arguments, in  *)
(* order, from the caller's operands to the new locals, and the end of a    *)
(* function - by return, by its last end or by a branch - gives the caller  *)
(* its results and nothing else, whatever operands it still held.           *)
(* No labels, saved sizes or program counters appear here.                  *)
(****************************************************************************)
EXTENDS Naturals, Sequences

CONSTANTS Funcs, Natives, Entries, Params, Locals, Ret, Val

VARIABLES
  stack,    \* the activations [func, ops, locals], the innermost last
  returned  \* what the last call by the host gave: [ok, vals]

vars == <<stack, returned>>

Wasm == Funcs \ Natives

Activation == [func : Wasm, ops : Seq(Val), locals : Seq(Val)]

Inner == stack[Len(stack)]
Below == SubSeq(stack, 1, Len(stack) - 1)
LastN(s, n) == SubSeq(s, Len(s) - n + 1, Len(s))
ButLastN(s, n) == SubSeq(s, 1, Len(s) - n)

(* A fresh activation of f for the arguments args: declared locals are 0.   *)
New(f, args) ==
  [func |-> f, ops |-> <<>>, locals |-> args \o [i \in 1..Locals[f] |-> 0]]

Failed == [ok |-> FALSE, vals |-> <<>>]

(* The host calls a wasm function, or a native one, or the call is refused  *)
(* for want of stack space.                                                 *)
Start(f, args) ==
  /\ stack = <<>> /\ stack' = <<New(f, args)>>
  /\ UNCHANGED returned

Direct ==
  /\ stack = <<>> /\ UNCHANGED stack
  /\ returned'.vals \in Seq(Val)
  /\ returned' = [ok |-> TRUE, vals |-> returned'.vals]

Refuse ==
  /\ stack = <<>> /\ UNCHANGED stack
  /\ returned' = Failed

(* An instruction of the innermost activation, a native call included.      *)
Work ==
  /\ stack # <<>> /\ Len(stack') = Len(stack)
  /\ SubSeq(stack', 1, Len(stack) - 1) = Below
  /\ stack'[Len(stack)].func = Inner.func
  /\ Len(stack'[Len(stack)].locals) = Len(Inner.locals)
  /\ UNCHANGED returned

Call(f) ==
  /\ stack # <<>> /\ UNCHANGED returned
  /\ \E n \in 0..1 :   \* the operand a call_indirect takes besides
       LET ops == ButLastN(Inner.ops, n)
       IN /\ Params[f] + n <= Len(Inner.ops)
          /\ stack' = Append([stack EXCEPT ![Len(stack)].ops = ButLastN(ops, Params[f])],
                             New(f, LastN(ops, Params[f])))

Return ==
  LET n == Ret[Inner.func]
      vals == LastN(Inner.ops, n)
  IN /\ stack # <<>> /\ n <= Len(Inner.ops)
     /\ IF Len(stack) = 1
        THEN stack' = <<>> /\ returned' = [ok |-> TRUE, vals |-> vals]
        ELSE /\ stack' = [Below EXCEPT ![Len(stack) - 1].ops = @ \o vals]
             /\ UNCHANGED returned

(* A trap, or proc_exit, ends all activations.                              *)
Trap ==
  /\ stack # <<>> /\ stack' = <<>>
  /\ returned' = Failed

Init == stack = <<>> /\ returned = [ok |-> TRUE, vals |-> <<>>]

Next ==
  \/ \E f \in Entries \ Natives : \E args \in [1..Params[f] -> Val] : Start(f, args)
  \/ Direct \/ Refuse
  \/ Work \/ Return \/ Trap
  \/ \E f \in Wasm : Call(f)

Spec == Init /\ [][Next]_vars
=============================================================================
