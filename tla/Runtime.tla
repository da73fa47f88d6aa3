------------------------------- MODULE Runtime -------------------------------
(****************************************************************************)
(* The interpreter of TWA (runtime.cpp, operation.h, stack.h): one          *)
(* invocation after the other, each a loop that fetches an instruction at   *)
(* pc_ and runs its handler on four stacks - values, labels, frames and     *)
(* locals - which the handlers index with sizes they saved earlier.         *)
(*                                                                          *)
(* No program text is modelled.  A program counter carries instead what the *)
(* WebAssembly validation rules know about the place it points to (the      *)
(* enclosing blocks, the number of operands), and a step runs ANY           *)
(* instruction that validated code may hold at that place.  TWA has no      *)
(* validator: it relies on those facts and never computes them, so they     *)
(* appear below in guards on the instruction only, and no handler reads     *)
(* them.  The behaviours of this module are those of every valid program    *)
(* over the functions Funcs.                                                *)
(*                                                                          *)
(* What a handler relies on and does not test - that the operands, labels   *)
(* and locals it takes are there, that what it pushes has room - is not     *)
(* part of those facts.  Where it fails the C++ has no defined behaviour,   *)
(* and the model enters the phase "undefined" (Astray), of which it says    *)
(* nothing more.                                                            *)
(****************************************************************************)
EXTENDS Naturals, Sequences

CONSTANTS
  Funcs,        \* the addresses of Store::funcs
  NoFunc,       \* no function (the dummy frame has none)
  Natives,      \* those that are NativeFuncInstances
  Exiting,      \* the natives that stop the program (wasi proc_exit)
  Entries,      \* the functions the host may call by name
  Params,       \* Params[f]: number of parameters
  Locals,       \* Locals[f]: number of declared locals (localCnt)
  Ret,          \* Ret[f]: number of results, 0 or 1
  Table,        \* TableInstance::elem of table 0, a sequence of functions
  Globals,      \* addresses of Store::globals
  Val,          \* operand values
  ValueCap,     \* capacity_ of stack_.values
  LabelCap,     \* capacity_ of stack_.labels
  FrameCap,     \* capacity_ of stack_.frames
  LocalCap,     \* capacity_ of stack_.locals (MAX_FUNC_LOCAL_SIZE)
  MaxHeight,    \* bound: operands a function holds at a time
  MaxDepth,     \* bound: nesting of blocks in a function, its body included
  BrOut,        \* programs may br to the body's own label in a nested call
  LeftoverReturn \* programs may return over unused operands in a function
                 \* that has parameters

ASSUME FuncsAssumption ==
  /\ NoFunc \notin Funcs
  /\ Natives \subseteq Funcs /\ Exiting \subseteq Natives
  /\ Entries \subseteq Funcs
  /\ Params \in [Funcs -> Nat]
  /\ Locals \in [Funcs -> Nat]
  /\ Ret \in [Funcs -> 0..1]
  /\ \A f \in Exiting : Params[f] = 1
  /\ Table \in Seq(Funcs)

ASSUME ValAssumption == Val \subseteq Nat /\ {0, 1} \subseteq Val

ASSUME BoundsAssumption ==
  /\ LabelCap \in Nat /\ FrameCap \in Nat /\ LocalCap \in Nat
  /\ LabelCap > 0 /\ FrameCap > 1 /\ LocalCap > 0
  /\ ValueCap \in Nat /\ \A f \in Entries : Params[f] <= ValueCap
  /\ MaxHeight \in Nat /\ MaxDepth \in Nat
  /\ BrOut \in BOOLEAN /\ LeftoverReturn \in BOOLEAN

(* enum RuntimeTrap *)
TrapNone == 0
TrapExit == 1
TrapUnreachable == 2
TrapStackOverflow == 3
TrapIntegerOverflow == 4
TrapInvalidConversionToInteger == 5
TrapIntegerDivideByZero == 6
TrapOutOfBoundsMemoryAccess == 7
TrapUndefinedElement == 8
TrapIndirectCallTypeMismatch == 9

DivTraps == {TrapIntegerOverflow, TrapIntegerDivideByZero}
TruncTraps == {TrapIntegerOverflow, TrapInvalidConversionToInteger}

(* FuncInstance::type, which a call and a call_indirect read.  Registering  *)
(* a native leaves its type at the default, [] -> [].                       *)
Type(f) == IF f \in Natives THEN [params |-> 0, ret |-> 0]
                            ELSE [params |-> Params[f], ret |-> Ret[f]]

Types == {[params |-> Params[f], ret |-> Ret[f]] : f \in Funcs}

(****************************************************************************)
(* Program counters.  "at" tells what the next instruction is:              *)
(*   "any"    some instruction inside a body, or the end of a block         *)
(*   "loop"   the loop instruction a label of a loop continues at           *)
(*   "end"    the end of a block (an if whose else is missing jumps to it)  *)
(*   "entry"  FrameBlockInstr::ins[0], the block made from a function body  *)
(*   "exit"   FrameBlockInstr::ins[1], the end that follows that block      *)
(*   "past"   behind FrameBlockInstr::ins[1]                                *)
(*   "dummy"  instrPtr == nullptr, the place a top-level call returns to    *)
(* func, ctl and h are the static facts: the function the code belongs to,  *)
(* its enclosing blocks (outermost, the body itself, first) and the number  *)
(* of operands the function holds.  A block knows the height it was entered *)
(* at, its result arity and whether it is a loop.                           *)
(****************************************************************************)
Control == [loop : BOOLEAN, res : 0..1, base : Nat]

Place == [at : {"any", "loop", "end", "entry", "exit", "past", "dummy"},
          func : Funcs \cup {NoFunc}, ctl : Seq(Control), h : Nat]
Position == {p \in Place : p.at = "dummy" \/ p.func \in Funcs}

Pos(at, f, h) == [at |-> at, func |-> f, ctl |-> <<>>, h |-> h]

NoPos == Pos("dummy", NoFunc, 0)

(* The arity of a branch to a block: that of the label the block pushes.    *)
Arity(c) == IF c.loop THEN 0 ELSE c.res

Label == [retType : 0..1, pre : Position, next : Position, valueStackSize : Nat]

Frame == [func : Funcs \cup {NoFunc}, pre : Position, valueStackSize : Nat,
          labelStackSize : Nat, locals : Nat, localSize : Nat]

(* Frame::setDummy on the first frame, whose other fields stay zero.        *)
DummyFrame == [func |-> NoFunc, pre |-> NoPos, valueStackSize |-> 0,
               labelStackSize |-> 0, locals |-> 0, localSize |-> 0]

VARIABLES
  values, labels, frames, locals,   \* Runtime::stack_
  pc,                               \* Runtime::pc_
  trap, exitCode,                   \* Runtime::trap_, Runtime::exitCode_
  globals,                          \* the values of Store::globals
  phase,   \* where invoke(result, funcInst, params) is: "idle" (returned),
           \* "called" (parameters pushed), "running" (in execInstruction) -
           \* or "undefined" (a handler used what is not there)
  callee,  \* its parameter funcInst
  ok,      \* the bool it returned last
  result   \* its out parameter: a sequence of at most one value

stacks == <<values, labels, frames, locals>>
outcome == <<trap, exitCode, phase, ok, result>>
vars == <<values, labels, frames, locals, pc, trap, exitCode, globals,
          phase, callee, ok, result>>

-----------------------------------------------------------------------------
(* Stacks: pop and top of the value stack, and StackInternal::full.  Some   *)
(* operators have a wrong variant before them (FullLate before Full): the   *)
(* mistakes the properties at the end are known to notice.                  *)

Last(s) == s[Len(s)]
DropLast(s, n) == SubSeq(s, 1, Len(s) - n)
Top(i) == values[Len(values) - i]
FullLate(s, cap) == Len(s) > cap
Full(s, cap) == Len(s) >= cap
ZerosForgotten(n) == [i \in 1..n |-> NoFunc]
Zeros(n) == [i \in 1..n |-> 0]

(* What the cuts of op_break_impl and Op_return leave of a stack.           *)
NoCut(s, n) == s
AtMost(s, n) == IF Len(s) > n THEN SubSeq(s, 1, n) ELSE s

(* The validated code at pc may hold an instruction that takes n operands   *)
(* and leaves m.                                                            *)
Depth == Len(pc.ctl)
Cur == pc.ctl[Depth]
May(ats, n, m) ==
  /\ phase = "running" /\ pc.at \in ats /\ Depth > 0
  /\ pc.h >= Cur.base + n /\ pc.h + m <= MaxHeight + n

(* ... and the n operands are there, which no handler tests.                *)
CodeAt(ats, n, m) == May(ats, n, m) /\ n <= Len(values)
Code(n, m) == CodeAt({"any"}, n, m)

(* m values pushed after n were popped have room, which pushValue does not  *)
(* test.                                                                    *)
Room(n, m) == Len(values) + m <= ValueCap + n

(* nextInstr has moved pc_ behind an instruction that turned n operands     *)
(* into m.                                                                  *)
After(n, m) == [pc EXCEPT !.at = "any", !.h = (@ - n) + m]

(* A handler returned false after setting trap_ to t: execInstruction stops *)
(* and invoke copies the trap to exitCode_ - unless the failure came from   *)
(* the initial invoke(funcInst), after which it only returns.  pc_ is not   *)
(* read again before the next invocation resets it.                         *)
FailForgetful(t) ==
  /\ trap' = t
  /\ exitCode' = IF phase = "running" /\ t # TrapStackOverflow THEN t ELSE exitCode
  /\ phase' = "idle" /\ ok' = FALSE
  /\ UNCHANGED <<pc, globals, callee, result>>
Fail(t) ==
  /\ trap' = t
  /\ exitCode' = IF phase = "running" THEN t ELSE exitCode
  /\ phase' = "idle" /\ ok' = FALSE
  /\ UNCHANGED <<pc, globals, callee, result>>

Continue == UNCHANGED <<outcome, globals, callee>>

(* An instruction whose whole effect is to replace its operands.            *)
Replace(n, pushed) ==
  /\ Room(n, Len(pushed))
  /\ values' = DropLast(values, n) \o pushed
  /\ pc' = After(n, Len(pushed))
  /\ Continue /\ UNCHANGED <<labels, frames, locals>>

-----------------------------------------------------------------------------
(* Parametric, numeric, memory and variable instructions.                   *)

Const(v) == Code(0, 1) /\ Replace(0, <<v>>)

Drop == Code(1, 0) /\ Replace(1, <<>>)

Select == Code(3, 1) /\ Replace(3, <<IF Top(0) = 0 THEN Top(1) ELSE Top(2)>>)

(* Arithmetic is abstracted to an arbitrary result, that of a comparison of *)
(* two operands, or of one with zero, to an arbitrary truth value.          *)
Unary(v) == Code(1, 1) /\ Replace(1, <<v>>)
Binary(v) == Code(2, 1) /\ Replace(2, <<v>>)
Compare(n, v) == Code(n, 1) /\ Replace(n, <<v>>)

(* A division or remainder pops the divisor before it tests it for zero,    *)
(* and tests for overflow before; a truncation tests its operand in place.  *)
DivTrap(t) ==
  /\ Code(2, 1)
  /\ values' = DropLast(values, IF t = TrapIntegerDivideByZero THEN 1 ELSE 0)
  /\ UNCHANGED <<labels, frames, locals>>
  /\ Fail(t)
TruncTrap(t) == Code(1, 1) /\ Fail(t) /\ UNCHANGED stacks

(* Memory contents are abstracted: a load yields any value, and an access   *)
(* that takes n operands may be out of bounds.                              *)
Load(v) == Code(1, 1) /\ Replace(1, <<v>>)
Store == Code(2, 0) /\ Replace(2, <<>>)
OutOfBounds(n) ==
  /\ Code(n, 2 - n)
  /\ values' = DropLast(values, n)
  /\ UNCHANGED <<labels, frames, locals>>
  /\ Fail(TrapOutOfBoundsMemoryAccess)
MemorySize(v) == Code(0, 1) /\ Replace(0, <<v>>)
MemoryGrow(v) == Code(1, 1) /\ Replace(1, <<v>>)

(* i is in the range of the locals of the function the code belongs to; the *)
(* handlers index the locals of the top frame.  FrameOfCode relates them.   *)
(* A frame without locals keeps the pointer of an earlier one in its place, *)
(* or null.  A slot above the locals stack holds what an earlier call left  *)
(* in it, and is overwritten before it is used.                             *)
LocalIdx(i) == i < Params[pc.func] + Locals[pc.func]
LocalAt(i) == Last(frames).locals + i + 1
LocalReached(i) == Last(frames).localSize > 0 /\ LocalAt(i) <= LocalCap
LocalRead(i) == IF LocalAt(i) <= Len(locals) THEN {locals[LocalAt(i)]} ELSE Val
WriteLocal(i, v) ==
  locals' = IF LocalAt(i) <= Len(locals) THEN [locals EXCEPT ![LocalAt(i)] = v]
                                         ELSE locals

GetLocal(i) ==
  /\ Code(0, 1) /\ LocalIdx(i) /\ LocalReached(i)
  /\ \E v \in LocalRead(i) : Replace(0, <<v>>)

SetLocal(i) ==
  /\ Code(1, 0) /\ LocalIdx(i) /\ LocalReached(i)
  /\ WriteLocal(i, Top(0))
  /\ values' = DropLast(values, 1)
  /\ pc' = After(1, 0)
  /\ Continue /\ UNCHANGED <<labels, frames>>

TeeLocal(i) ==
  /\ Code(1, 1) /\ LocalIdx(i) /\ LocalReached(i)
  /\ WriteLocal(i, Top(0))
  /\ pc' = After(1, 1)
  /\ Continue /\ UNCHANGED <<values, labels, frames>>

GetGlobal(g) == Code(0, 1) /\ Replace(0, <<globals[g]>>)

SetGlobal(g) ==
  /\ Code(1, 0)
  /\ globals' = [globals EXCEPT ![g] = Top(0)]
  /\ values' = DropLast(values, 1)
  /\ pc' = After(1, 0)
  /\ UNCHANGED <<labels, frames, locals, outcome, callee>>

Unreachable ==
  /\ May({"any"}, 0, 0) /\ Fail(TrapUnreachable) /\ UNCHANGED stacks

-----------------------------------------------------------------------------
(* Structured control.                                                      *)

NewLabel(rt, pre, next, size) ==
  [retType |-> rt, pre |-> pre, next |-> next, valueStackSize |-> size]

(* pushLabel, and the test that follows it in Op_block, Op_loop and Op_if.  *)
PushLabel(label, target) ==
  /\ labels' = Append(labels, label)
  /\ UNCHANGED <<frames, locals>>
  /\ IF Full(labels', LabelCap)
     THEN Fail(TrapStackOverflow)
     ELSE pc' = target /\ Continue

(* The first instruction of a block entered from pc at height base.         *)
Inside(at, loop, r, base) ==
  [at |-> at, func |-> pc.func, h |-> base,
   ctl |-> Append(pc.ctl, [loop |-> loop, res |-> r, base |-> base])]

Block(r) ==
  /\ May({"any"}, 0, r) /\ Depth < MaxDepth
  /\ PushLabel(NewLabel(r, After(0, r), After(0, r), Len(values)),
               Inside("any", FALSE, r, pc.h))
  /\ UNCHANGED values

(* The label of a loop has no result and continues at the loop instruction. *)
Loop(r) ==
  /\ May({"any", "loop"}, 0, r) /\ Depth < MaxDepth
  /\ PushLabel(NewLabel(0, After(0, r), [pc EXCEPT !.at = "loop"], Len(values)),
               Inside("any", TRUE, r, pc.h))
  /\ UNCHANGED values

(* Without an else the condition 0 leads to the end of the then branch;     *)
(* such an if has no result.  With an else, both branches start alike.      *)
If(r, hasElse) ==
  /\ Code(1, r) /\ Depth < MaxDepth
  /\ ~hasElse => r = 0
  /\ values' = DropLast(values, 1)
  /\ PushLabel(NewLabel(r, After(1, r), After(1, r), Len(values) - 1),
               Inside(IF Top(0) # 0 \/ hasElse THEN "any" ELSE "end",
                      FALSE, r, pc.h - 1))

(* A frame is done when no label is left above those its caller had, and    *)
(* takes its locals with it.                                                *)
FrameDoneLate(frame, rest) == frame.labelStackSize = Len(labels)
FrameDone(frame, rest) == frame.labelStackSize = Len(rest)
DropDeclared(frame) == DropLast(locals, Locals[frame.func])
DropLocals(frame) == DropLast(locals, frame.localSize)

(* Op_end pops the innermost label, and the frame as well when no label of  *)
(* the frame is left.  Of all the saved positions only ins[1] of a frame    *)
(* can find the label stack empty; pc_ then stands behind it.               *)
OpEnd ==
  LET frame == Last(frames)
      rest == IF labels # <<>> THEN DropLast(labels, 1) ELSE labels
      resume == IF labels # <<>> THEN Last(labels).pre
                                 ELSE [pc EXCEPT !.at = "past"]
  IN /\ labels' = rest
     /\ IF FrameDone(frame, rest)
        THEN /\ pc' = frame.pre
             /\ locals' = DropLocals(frame)
             /\ frames' = DropLast(frames, 1)
        ELSE pc' = resume /\ UNCHANGED <<locals, frames>>
     /\ Continue /\ UNCHANGED values

(* The end of a block or of a function body.                                *)
End ==
  /\ May({"any", "end"}, 0, 0) /\ pc.h = Cur.base + Cur.res
  /\ OpEnd

(* The end behind a function body, where a branch to the label of the body  *)
(* continues.                                                               *)
EndOfFrame == phase = "running" /\ pc.at = "exit" /\ OpEnd

(* ins[0] of a frame: Op_block on the body of the function.                 *)
EnterBody ==
  LET f == pc.func
      exit == Pos("exit", f, Ret[f])
  IN /\ phase = "running" /\ pc.at = "entry"
     /\ PushLabel(NewLabel(Ret[f], exit, exit, Len(values)),
                  [pc EXCEPT !.at = "any",
                             !.ctl = <<[loop |-> FALSE, res |-> Ret[f], base |-> 0]>>])
     /\ UNCHANGED values

(* pc_.end(): execInstruction stops without a trap.                         *)
EndOfPc ==
  /\ phase = "running" /\ pc.at = "past"
  /\ Fail(TrapNone) /\ UNCHANGED stacks

-----------------------------------------------------------------------------
(* Branches.                                                                *)

UnwindShort(k) == DropLast(labels, k)
Unwind(k) == DropLast(labels, k + 1)

(* labels.top(k) is a label, and its result is on the value stack vals.     *)
LabelReached(k, vals) ==
  k < Len(labels) /\ labels[Len(labels) - k].retType <= Len(vals)

(* op_break_impl on the value stack vals.                                   *)
Break(k, vals) ==
  LET label == labels[Len(labels) - k]
      ret == IF label.retType # 0 THEN <<Last(vals)>> ELSE <<>>
      rest == DropLast(vals, Len(ret))
  IN /\ LabelReached(k, vals)
     /\ labels' = Unwind(k)
     /\ values' = AtMost(rest, label.valueStackSize) \o ret
     /\ pc' = label.next
     /\ Continue /\ UNCHANGED <<frames, locals>>

(* Validated code branches to an enclosing block, with its arity of         *)
(* operands at hand below the n the instruction itself takes.               *)
Target(k) == pc.ctl[Depth - k]
MayBranch(k, n) ==
  /\ k < Depth
  /\ pc.h >= Cur.base + Arity(Target(k)) + n
  /\ k = Depth - 1 => BrOut \/ Len(frames) = 2

Br(k) == May({"any"}, 0, 0) /\ MayBranch(k, 0) /\ Break(k, values)

BrIf(k) ==
  /\ Code(1, 0) /\ MayBranch(k, 1)
  /\ IF Top(0) # 0 THEN Break(k, DropLast(values, 1)) ELSE Replace(1, <<>>)

(* vec is labelVec, k the default labelIdx; all targets have one arity.     *)
BrTable(vec, k) ==
  /\ Code(1, 0) /\ MayBranch(k, 1)
  /\ \A j \in 1..Len(vec) : /\ MayBranch(vec[j], 1)
                            /\ Arity(Target(vec[j])) = Arity(Target(k))
  /\ Break(IF Top(0) < Len(vec) THEN vec[Top(0) + 1] ELSE k, DropLast(values, 1))

(* Op_return cuts labels and values down to the sizes saved by pushFrame,   *)
(* which were taken before the parameters moved from values to locals.  The *)
(* result it takes is that of the top frame's function.                     *)
MayReturn ==
  /\ May({"any"}, Ret[pc.func], 0)
  /\ LeftoverReturn \/ Params[pc.func] = 0 \/ pc.h = Ret[pc.func]
RetType(frame) == IF frame.func = NoFunc THEN 0 ELSE Ret[frame.func]
Return ==
  LET frame == Last(frames)
      n == RetType(frame)
      ret == IF n # 0 THEN <<Top(0)>> ELSE <<>>
  IN /\ MayReturn /\ n <= Len(values)
     /\ labels' = AtMost(labels, frame.labelStackSize)
     /\ values' = AtMost(DropLast(values, n), frame.valueStackSize) \o ret
     /\ locals' = DropLocals(frame)
     /\ frames' = DropLast(frames, 1)
     /\ pc' = frame.pre
     /\ Continue

-----------------------------------------------------------------------------
(* Calls.                                                                   *)

FrameLate(f, return, size) ==
  [func |-> f, pre |-> Pos("entry", f, 0), valueStackSize |-> size,
   labelStackSize |-> Len(labels), locals |-> Len(locals),
   localSize |-> Params[f] + Locals[f]]
NewFrame(f, return, size) ==
  [func |-> f, pre |-> return, valueStackSize |-> size,
   labelStackSize |-> Len(labels), locals |-> Len(locals),
   localSize |-> Params[f] + Locals[f]]

ArgumentsReversed(f, vals) == [i \in 1..Params[f] |-> vals[Len(vals) + 1 - i]]
Arguments(f, vals) == SubSeq(vals, Len(vals) - Params[f] + 1, Len(vals))
WithoutLocals(f, vals) == DropLast(vals, Params[f] + Locals[f])
WithoutArguments(f, vals) == DropLast(vals, Params[f])

(* An overflow of locals is found before the parameters are popped; only a  *)
(* native pushes.                                                           *)
LocalsFull(f) ==
  Params[f] + Locals[f] > 0 /\ Len(locals) + Params[f] + Locals[f] >= LocalCap
Invokable(f, vals) ==
  \/ f \notin Natives /\ LocalsFull(f)
  \/ /\ Params[f] <= Len(vals)
     /\ f \in Natives \ Exiting => Len(vals) + Ret[f] <= ValueCap + Params[f]

(* WasmFuncInstance: pushFrame, the parameters moved to locals, the tests   *)
(* of the locals and frames stacks, and pc_ set to ins[0].                  *)
InvokeWasm(f, vals, return) ==
  LET frame == NewFrame(f, return, Len(vals))
  IN /\ frames' = Append(frames, frame)
     /\ UNCHANGED labels
     /\ IF LocalsFull(f)
        THEN values' = vals /\ UNCHANGED locals /\ Fail(TrapStackOverflow)
        ELSE /\ values' = WithoutArguments(f, vals)
             /\ locals' = locals \o Arguments(f, vals) \o Zeros(Locals[f])
             /\ IF Full(frames', FrameCap)
                THEN Fail(TrapStackOverflow)
                ELSE /\ pc' = Pos("entry", f, 0)
                     /\ phase' = "running"
                     /\ UNCHANGED <<trap, exitCode, ok, result, globals, callee>>

(* NativeFuncInstance: the host function pops its parameters and pushes its *)
(* result v, or is proc_exit, which sets the exit code and stops.           *)
InvokeNative(f, vals, return, v) ==
  /\ UNCHANGED <<labels, frames, locals>>
  /\ IF f \in Exiting
     THEN /\ values' = DropLast(vals, 1)
          /\ exitCode' = Last(vals) /\ trap' = TrapExit
          /\ phase' = "idle" /\ ok' = FALSE
          /\ UNCHANGED <<pc, globals, callee, result>>
     ELSE /\ values' = DropLast(vals, Params[f]) \o [i \in 1..Ret[f] |-> v]
          /\ pc' = return /\ phase' = "running"
          /\ UNCHANGED <<trap, exitCode, ok, result, globals, callee>>

InvokeFunc(f, vals, return) ==
  /\ Invokable(f, vals)
  /\ IF f \in Natives THEN \E v \in Val : InvokeNative(f, vals, return, v)
                      ELSE InvokeWasm(f, vals, return)

Call(f) ==
  /\ May({"any"}, Params[f], Ret[f])
  /\ InvokeFunc(f, values, After(Params[f], Ret[f]))

(* The code holds the type t; Table gives the function at the index popped. *)
Callee == Table[Top(0) + 1]
Called(t) == Top(0) < Len(Table) /\ Type(Callee) = t
CallIndirect(t) ==
  LET vals == DropLast(values, 1)
      f == Callee
  IN /\ May({"any"}, t.params + 1, t.ret) /\ 1 <= Len(values)
     /\ IF ~Called(t)
        THEN /\ values' = vals
             /\ UNCHANGED <<labels, frames, locals>>
             /\ Fail(IF Top(0) >= Len(Table) THEN TrapUndefinedElement
                                             ELSE TrapIndirectCallTypeMismatch)
        ELSE InvokeFunc(f, vals, After(t.params + 1, t.ret))

-----------------------------------------------------------------------------
(* invoke(result, funcInst, params), called by the host.                    *)

(* callFunction compares the number of parameters before it calls invoke.   *)
(* The states are cleared, the dummy frame and the parameters pushed.       *)
ResetKeepsTrap == UNCHANGED <<trap, exitCode>>
ResetOutcome == trap' = TrapNone /\ exitCode' = 0
Invoke(f, args) ==
  /\ phase = "idle" /\ Len(args) = Type(f).params
  /\ ResetOutcome
  /\ values' = args /\ labels' = <<>> /\ locals' = <<>>
  /\ frames' = <<DummyFrame>>
  /\ pc' = NoPos
  /\ phase' = "called" /\ callee' = f
  /\ UNCHANGED <<globals, ok, result>>

InvokeEntry ==
  /\ phase = "called" /\ InvokeFunc(callee, values, pc)

(* pc_.dummy(): execInstruction stops and invoke takes the result; a        *)
(* missing one makes it return false.                                       *)
Finish ==
  LET n == Type(callee).ret
  IN /\ phase = "running" /\ pc.at = "dummy"
     /\ phase' = "idle"
     /\ ok' = (n <= Len(values))
     /\ values' = DropLast(values, n)
     /\ result' = IF ~ok' THEN result
                  ELSE SubSeq(values, Len(values) - n + 1, Len(values))
     /\ UNCHANGED <<labels, frames, locals, pc, trap, exitCode, globals, callee>>

-----------------------------------------------------------------------------
(* The steps whose outcome C++ leaves open: popValue or values.top() below  *)
(* the stack, pushValue past its array (stack.h tests neither), labels.top  *)
(* below the labels, and frames.top().locals of a frame that has none or    *)
(* beyond the array.                                                        *)

(* Operands taken and values left by the plain instructions and by if.      *)
Shapes == {<<0, 1>>, <<1, 0>>, <<1, 1>>, <<2, 0>>, <<2, 1>>, <<3, 1>>}

AstrayPlain ==
  \/ \E s \in Shapes : /\ May({"any"}, s[1], s[2])
                       /\ ~(s[1] <= Len(values) /\ Room(s[1], s[2]))
  \/ \E i \in 0..(LocalCap - 1) : /\ May({"any"}, 0, 1) \/ May({"any"}, 1, 0)
                                  /\ LocalIdx(i) /\ ~LocalReached(i)

AstrayBranch ==
  \E k \in 0..(MaxDepth - 1), n \in 0..1 :
    /\ CodeAt({"any"}, n, 0) /\ MayBranch(k, n)
    /\ ~LabelReached(k, DropLast(values, n))

AstrayReturn == MayReturn /\ RetType(Last(frames)) > Len(values)

AstrayCall ==
  \/ \E f \in Funcs : May({"any"}, Params[f], Ret[f]) /\ ~Invokable(f, values)
  \/ \E t \in Types : /\ May({"any"}, t.params + 1, t.ret)
                      /\ 1 <= Len(values) /\ Called(t)
                      /\ ~Invokable(Callee, DropLast(values, 1))
  \/ phase = "called" /\ ~Invokable(callee, values)

Astray ==
  /\ AstrayPlain \/ AstrayBranch \/ AstrayReturn \/ AstrayCall
  /\ phase' = "undefined"
  /\ UNCHANGED <<stacks, pc, trap, exitCode, ok, result, globals, callee>>

(* Nothing is known of the program any more.                                *)
Gone == phase = "undefined" /\ UNCHANGED vars

-----------------------------------------------------------------------------
Init ==
  /\ values = <<>> /\ labels = <<>> /\ frames = <<>> /\ locals = <<>>
  /\ pc = NoPos
  /\ trap = TrapNone /\ exitCode = 0
  /\ globals \in [Globals -> {0}]
  /\ phase = "idle" /\ callee \in Entries /\ ok = TRUE /\ result = <<>>

Plain ==
  \/ \E v \in Val : Const(v) \/ Unary(v) \/ Binary(v) \/ Load(v)
                    \/ MemorySize(v) \/ MemoryGrow(v)
  \/ Drop \/ Select \/ Store \/ Unreachable
  \/ \E n \in 1..2 : OutOfBounds(n) \/ \E v \in 0..1 : Compare(n, v)
  \/ \E t \in DivTraps : DivTrap(t)
  \/ \E t \in TruncTraps : TruncTrap(t)
  \/ \E i \in 0..(LocalCap - 1) : GetLocal(i) \/ SetLocal(i) \/ TeeLocal(i)
  \/ \E g \in Globals : GetGlobal(g) \/ SetGlobal(g)

Vectors(n) == UNION {[1..i -> 0..(n - 1)] : i \in 0..1}

Structured ==
  \/ \E r \in 0..1 : \/ Block(r) \/ Loop(r)
                     \/ \E hasElse \in BOOLEAN : If(r, hasElse)
  \/ End \/ EndOfFrame \/ EnterBody \/ EndOfPc \/ Return
  \/ \E k \in 0..(MaxDepth - 1) :
       Br(k) \/ BrIf(k) \/ \E vec \in Vectors(MaxDepth) : BrTable(vec, k)

Calling ==
  \/ \E f \in Funcs : Call(f)
  \/ \E t \in Types : CallIndirect(t)

Host ==
  \/ \E f \in Entries : \E args \in [1..Type(f).params -> Val] : Invoke(f, args)
  \/ InvokeEntry \/ Finish

Next == Plain \/ Structured \/ Calling \/ Host \/ Astray \/ Gone

Spec == Init /\ [][Next]_vars

-----------------------------------------------------------------------------
(* Properties.                                                              *)

(* Every variable has its type.                                             *)
TypeInv ==
  /\ values \in Seq(Val) /\ locals \in Seq(Val)
  /\ labels \in Seq(Label) /\ frames \in Seq(Frame)
  /\ pc \in Position
  /\ trap \in 0..9 /\ exitCode \in Nat
  /\ globals \in [Globals -> Val]
  /\ phase \in {"idle", "called", "running", "undefined"}
  /\ callee \in Entries /\ ok \in BOOLEAN /\ result \in Seq(Val)

running == phase = "running"

(* The activations of wasm functions, the innermost last, and what the next *)
(* frame saved about a suspended one: where it resumes, how many labels,    *)
(* operands and locals lie below the next activation.                       *)
Acts == 2..Len(frames)
Suspended(i) == i < Len(frames)
PosOf(i) == IF Suspended(i) THEN frames[i + 1].pre ELSE pc
LabelEnd(i) == IF Suspended(i) THEN frames[i + 1].labelStackSize ELSE Len(labels)
LocalEnd(i) == IF Suspended(i) THEN frames[i + 1].locals ELSE Len(locals)
Base(i) == frames[i].valueStackSize - Params[frames[i].func]
ValueEnd(i) == IF Suspended(i) THEN Base(i + 1) ELSE Len(values)
Held(i) == IF Suspended(i) THEN PosOf(i).h - Ret[frames[i + 1].func] ELSE pc.h

(* The dummy frame stays at the bottom and the outermost activation returns *)
(* to the null pc_, so no handler pops the dummy frame.                     *)
DummyBelow ==
  /\ phase = "called" => frames = <<DummyFrame>> /\ pc = NoPos
  /\ running => /\ frames # <<>> /\ frames[1] = DummyFrame
                /\ IF Len(frames) = 1 THEN pc = NoPos ELSE frames[2].pre = NoPos

(* The code that runs is the code of the top frame, whose locals and module *)
(* its instructions use; and each suspended activation will resume in its   *)
(* own code.                                                                *)
FrameOfCode ==
  running => \A i \in Acts : PosOf(i).func = frames[i].func

(* The labels above labelStackSize of a frame are exactly those of the      *)
(* blocks around the place where it executes or is suspended, in nesting    *)
(* order, each with the arity of its block and continuing where that block  *)
(* says: br, br_table and Op_end, which only count labels, always hit the   *)
(* block the program names, also in a caller.                               *)
LabelOf(L, f, c, outer) ==
  /\ L.retType = Arity(c)
  /\ L.pre.func = f /\ L.pre.ctl = outer /\ L.pre.h = c.base + c.res
  /\ L.next = IF c.loop THEN [L.pre EXCEPT !.at = "loop", !.h = c.base] ELSE L.pre
  /\ L.pre.at = IF outer = <<>> THEN "exit" ELSE "any"

LabelsOfBlocks ==
  running =>
    /\ Len(frames) = 1 => labels = <<>>
    /\ \A i \in Acts :
         LET p == PosOf(i)
             n == frames[i].labelStackSize
         IN /\ i = 2 => n = 0
            /\ LabelEnd(i) = n + Len(p.ctl)
            /\ \A j \in 1..Len(p.ctl) :
                 LabelOf(labels[n + j], p.func, p.ctl[j], SubSeq(p.ctl, 1, j - 1))

(* The locals stack is the concatenation of the locals of the activations,  *)
(* so that popping localSize entries in Op_end or Op_return, or giving up   *)
(* on an overflow, never shifts a caller's locals.                          *)
LocalsOfFrames ==
  running =>
    /\ Len(frames) = 1 => locals = <<>>
    /\ \A i \in Acts : /\ i = 2 => frames[i].locals = 0
                       /\ frames[i].localSize = Params[frames[i].func] + Locals[frames[i].func]
                       /\ LocalEnd(i) = frames[i].locals + frames[i].localSize

(* Each activation finds on the value stack at least the operands its code  *)
(* counts on, so that no handler pops a caller's operand or reads below the *)
(* stack - even when a callee left operands of its own behind.              *)
OperandsAvailable ==
  running => \A i \in Acts : ValueEnd(i) >= Base(i) + Held(i)

(* Each activation finds exactly its operands, and a branch to one of its   *)
(* labels cuts back to the operands present when the block was entered.     *)
OperandsExact ==
  running =>
    /\ Len(frames) = 1 => Len(values) = Type(callee).ret
    /\ \A i \in Acts :
         /\ i = 2 => Base(i) = 0
         /\ ValueEnd(i) = Base(i) + Held(i)
         /\ \A j \in 1..Len(PosOf(i).ctl) :
              labels[frames[i].labelStackSize + j].valueStackSize
                = Base(i) + PosOf(i).ctl[j].base

(* No handler uses what is not there: none pops below the value stack,      *)
(* pushes past its array, branches to a label below the stack or reaches    *)
(* for a local its frame does not have.                                     *)
StaysDefined == phase # "undefined"

(* The three stacks whose size the handlers test are never pushed past      *)
(* their arrays, and while instructions run there is room for one more      *)
(* push.  Of handlers that write a local see StaysDefined.                  *)
StacksInBounds ==
  /\ Len(labels) <= LabelCap /\ Len(frames) <= FrameCap /\ Len(locals) < LocalCap
  /\ running => Len(labels) < LabelCap /\ Len(frames) < FrameCap

(* A call that returns true leaves no trace of an earlier failure in trap_  *)
(* and exitCode_, and gives the result its function type announces.         *)
SuccessIsClean ==
  phase = "idle" /\ frames # <<>> /\ ok =>
    trap = TrapNone /\ exitCode = 0 /\ Len(result) = Type(callee).ret

(* An execution that stops early stopped for one of the traps TrapDesc      *)
(* names.                                                                   *)
StopsAreTraps == phase = "idle" /\ ~ok => trap # TrapNone

(* A call that fails, other than by proc_exit, fails for a trap and returns *)
(* it to the host as exit code - but for the stack overflow of a call whose *)
(* first frame is refused, before any instruction has run, which invoke     *)
(* does not copy: callFunction returns 0 for it.                            *)
FirstFrameRefused == trap = TrapStackOverflow /\ Len(frames) = 2 /\ pc = NoPos
FailureReported ==
  phase = "idle" /\ ~ok /\ trap # TrapExit =>
    /\ trap # TrapNone
    /\ exitCode = IF FirstFrameRefused THEN 0 ELSE trap

(* Op_return clears the labels, operands and frame of its function: the     *)
(* caller is left with its own operands and the result.                     *)
ReturnClears ==
  [][ Return /\ Len(frames) > 2 =>
        Len(values') = Base(Len(frames)) + Ret[Last(frames).func] ]_vars
=============================================================================
