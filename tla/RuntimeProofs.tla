---------------------------- MODULE RuntimeProofs ----------------------------
(****************************************************************************)
(* Theorems about the interpreter, for every program, all stack capacities  *)
(* and all bounds: types, the sizes of the stacks that are tested, and that *)
(* frames, labels and locals are those of the activations.                  *)
(****************************************************************************)
EXTENDS Runtime, SequenceTheorems, TLAPS

-----------------------------------------------------------------------------
(* Sequences.                                                               *)

(* Dropping a suffix or cutting to a length leaves a sequence, no longer.   *)
LEMMA PrefixType ==
  ASSUME NEW S, NEW s \in Seq(S), NEW n \in Int, n <= Len(s)
  PROVE  /\ SubSeq(s, 1, n) \in Seq(S)
         /\ Len(SubSeq(s, 1, n)) = IF n > 0 THEN n ELSE 0
         /\ \A i \in 1..n : SubSeq(s, 1, n)[i] = s[i]
<1>1. \A i \in 1..n : s[i] \in S
  OBVIOUS
<1>2. QED
  BY <1>1, SubSeqProperties, LenProperties

LEMMA DropLastType ==
  ASSUME NEW S, NEW s \in Seq(S), NEW n \in Nat
  PROVE  /\ DropLast(s, n) \in Seq(S)
         /\ Len(DropLast(s, n)) = IF n < Len(s) THEN Len(s) - n ELSE 0
         /\ \A i \in 1..(Len(s) - n) : DropLast(s, n)[i] = s[i]
<1>1. Len(s) - n \in Int /\ Len(s) - n <= Len(s)
  BY LenProperties
<1>2. QED
  BY <1>1, PrefixType DEF DropLast

LEMMA PoppedType ==
  ASSUME NEW S, NEW s \in Seq(S), Len(s) >= 2, NEW t, t = DropLast(s, 1)
  PROVE  /\ t \in Seq(S) /\ Len(t) = Len(s) - 1
         /\ \A i \in 1..(Len(s) - 1) : t[i] = s[i]
<1>1. 1 \in Nat /\ Len(s) \in Nat
  BY LenProperties
<1>2. 1 < Len(s)
  BY <1>1
<1>3. Len(t) = Len(s) - 1
  BY <1>1, <1>2, DropLastType
<1>4. t \in Seq(S) /\ \A i \in 1..(Len(s) - 1) : t[i] = s[i]
  BY <1>1, DropLastType
<1>5. QED
  BY <1>3, <1>4

LEMMA AtMostType ==
  ASSUME NEW S, NEW s \in Seq(S), NEW n \in Nat
  PROVE  /\ AtMost(s, n) \in Seq(S)
         /\ Len(AtMost(s, n)) = IF Len(s) > n THEN n ELSE Len(s)
         /\ \A i \in 1..Len(AtMost(s, n)) : AtMost(s, n)[i] = s[i]
BY PrefixType, LenProperties DEF AtMost

LEMMA AppendType ==
  ASSUME NEW S, NEW s \in Seq(S), NEW e \in S
  PROVE  /\ Append(s, e) \in Seq(S)
         /\ Len(Append(s, e)) = Len(s) + 1
         /\ \A i \in 1..Len(s) : Append(s, e)[i] = s[i]
         /\ Append(s, e)[Len(s) + 1] = e
OBVIOUS

LEMMA LastType ==
  ASSUME NEW S, NEW s \in Seq(S), s # <<>>
  PROVE  Last(s) \in S /\ Len(s) > 0
BY EmptySeq, LenProperties DEF Last

LEMMA SingletonType ==
  ASSUME NEW S, NEW e \in S
  PROVE  <<e>> \in Seq(S) /\ Len(<<e>>) = 1
OBVIOUS

-----------------------------------------------------------------------------
(* Types.  DummyBelow is needed beside TypeInv: it tells that a running     *)
(* instruction has a frame of its own above the dummy one, so that the pc   *)
(* that Op_end and Op_return take from the top frame is a Position.         *)

TypedStacks == TypeInv /\ DummyBelow

LEMMA NoPosType == NoPos \in Position /\ DummyFrame \in Frame
BY EmptySeq DEF NoPos, Pos, Position, Place, DummyFrame, Frame

(* An instruction runs in the activation of a function.                     *)
LEMMA RunningFacts ==
  ASSUME TypedStacks, running, pc.at # "dummy"
  PROVE  /\ Len(frames) \in Nat /\ Len(frames) >= 2 /\ frames # <<>>
         /\ Last(frames) \in Frame
         /\ frames[1] = DummyFrame /\ frames[2].pre = NoPos
         /\ pc.func \in Funcs /\ pc.h \in Nat /\ pc.ctl \in Seq(Control)
<1>1. Len(frames) # 1
  BY DEF TypedStacks, DummyBelow, NoPos, Pos
<1>2. frames \in Seq(Frame) /\ pc \in Position /\ frames # <<>>
  BY DEF TypedStacks, TypeInv, DummyBelow
<1>a. Len(frames) \in Nat
  BY <1>2, LenProperties
<1>b. Len(frames) # 0
  BY <1>2
<1>c. \A n \in Nat : n # 0 /\ n # 1 => n >= 2
  OBVIOUS
<1>3. Len(frames) \in Nat /\ Len(frames) >= 2
  BY <1>1, <1>a, <1>b, <1>c
<1>4. Last(frames) \in Frame
  BY <1>2, LastType
<1>5. QED
  BY <1>2, <1>3, <1>4, <1>1 DEF TypedStacks, DummyBelow, Position, Place

LEMMA MayFacts ==
  ASSUME TypedStacks, NEW ats, "dummy" \notin ats, NEW n \in Nat, NEW m \in Nat,
         May(ats, n, m)
  PROVE  /\ running /\ pc.at # "dummy" /\ pc.at \in ats
         /\ Depth \in Nat /\ Depth > 0 /\ Cur \in Control
         /\ pc.h \in Nat /\ pc.h >= Cur.base + n
         /\ Len(values) \in Nat
         /\ After(n, m) \in Position
<1>1. running /\ pc.at # "dummy" /\ pc.at \in ats /\ Depth > 0
      /\ pc.h >= Cur.base + n
  BY DEF May, running
<1>2. pc \in Position /\ pc.func \in Funcs /\ pc.h \in Nat /\ pc.ctl \in Seq(Control)
  BY <1>1, RunningFacts DEF TypedStacks, TypeInv
<1>3. Depth \in Nat /\ Cur \in Control
  BY <1>1, <1>2, LenProperties, ElementOfSeq DEF Depth, Cur
<1>4. (pc.h - n) + m \in Nat
  BY <1>1, <1>2, <1>3 DEF Control
<1>5. After(n, m) \in Position
  BY <1>2, <1>4 DEF After, Position, Place
<1>6. Len(values) \in Nat
  BY LenProperties DEF TypedStacks, TypeInv
<1>7. QED
  BY <1>1, <1>2, <1>3, <1>5, <1>6

LEMMA CodeFacts ==
  ASSUME TypedStacks, NEW ats, "dummy" \notin ats, NEW n \in Nat, NEW m \in Nat,
         CodeAt(ats, n, m)
  PROVE  /\ running /\ pc.at # "dummy" /\ pc.at \in ats
         /\ Depth \in Nat /\ Depth > 0 /\ Cur \in Control
         /\ pc.h \in Nat /\ pc.h >= Cur.base + n
         /\ Len(values) \in Nat /\ n <= Len(values)
         /\ After(n, m) \in Position
BY MayFacts DEF CodeAt

(* A step inside an activation.                                             *)
LEMMA InsideType ==
  ASSUME TypedStacks, running, pc.at # "dummy", frames' = frames, Continue,
         values' \in Seq(Val), labels' \in Seq(Label), locals' \in Seq(Val),
         pc' \in Position
  PROVE  TypedStacks'
<1>1. phase' = "running" /\ UNCHANGED <<trap, exitCode, ok, result, globals, callee>>
  BY DEF Continue, outcome, running
<1>2. TypeInv'
  BY <1>1 DEF TypedStacks, TypeInv
<1>3. DummyBelow'
  BY <1>1, RunningFacts DEF DummyBelow, running
<1>4. QED
  BY <1>2, <1>3 DEF TypedStacks

(* A step that stops the execution.                                         *)
LEMMA FailType ==
  ASSUME TypedStacks, NEW t \in 0..9, Fail(t),
         values' \in Seq(Val), labels' \in Seq(Label), frames' \in Seq(Frame),
         locals' \in Seq(Val)
  PROVE  TypedStacks'
<1>1. ok' \in BOOLEAN
  BY Zenon DEF Fail
<1>2. exitCode' \in Nat /\ trap' \in 0..9
  BY DEF Fail, TypedStacks, TypeInv
<1>3. TypeInv'
  BY <1>1, <1>2 DEF TypedStacks, TypeInv, Fail
<1>4. DummyBelow'
  BY DEF Fail, DummyBelow, running
<1>5. QED
  BY <1>3, <1>4 DEF TypedStacks

LEMMA ReplaceType ==
  ASSUME TypedStacks, NEW n \in Nat, NEW p \in Seq(Val), Code(n, Len(p)), Replace(n, p)
  PROVE  TypedStacks'
<1>1. Len(p) \in Nat
  BY LenProperties
<1>2. running /\ pc.at # "dummy" /\ After(n, Len(p)) \in Position
  BY <1>1, CodeFacts DEF Code
<1>3. values' \in Seq(Val)
  BY DropLastType, ConcatProperties DEF TypedStacks, TypeInv, Replace
<1>4. QED
  BY <1>2, <1>3, InsideType DEF Replace, TypedStacks, TypeInv

(* A step that pops the frame of the activation.                            *)
LEMMA LeaveType ==
  ASSUME TypedStacks, running, pc.at # "dummy", frames' = DropLast(frames, 1), Continue,
         values' \in Seq(Val), labels' \in Seq(Label), locals' \in Seq(Val),
         pc' = Last(frames).pre
  PROVE  TypedStacks'
<1>1. phase' = "running" /\ UNCHANGED <<trap, exitCode, ok, result, globals, callee>>
  BY DEF Continue, outcome, running
<1>2. /\ Last(frames) \in Frame /\ Len(frames) \in Nat /\ Len(frames) >= 2
      /\ frames \in Seq(Frame)
      /\ frames[1] = DummyFrame /\ frames[2].pre = NoPos
  BY RunningFacts DEF TypedStacks, TypeInv
<1>3. /\ frames' \in Seq(Frame) /\ Len(frames') = Len(frames) - 1
      /\ \A i \in 1..(Len(frames) - 1) : frames'[i] = frames[i]
  BY <1>2, PoppedType
<1>4. TypeInv'
  BY <1>1, <1>2, <1>3 DEF TypedStacks, TypeInv, Frame
<1>5. frames' # <<>> /\ frames'[1] = DummyFrame
  BY <1>2, <1>3, EmptySeq
<1>6. IF Len(frames') = 1 THEN pc' = NoPos ELSE frames'[2].pre = NoPos
  <2>1. CASE Len(frames) = 2
    BY <1>2, <1>3, <2>1 DEF Last
  <2>2. CASE Len(frames) # 2
    <3>1. 2 \in 1..(Len(frames) - 1) /\ Len(frames') # 1
      BY <1>2, <1>3, <2>2
    <3>2. QED
      BY <1>2, <1>3, <3>1
  <2>3. QED
    BY <2>1, <2>2
<1>7. DummyBelow'
  BY <1>1, <1>5, <1>6 DEF DummyBelow, running
<1>8. QED
  BY <1>4, <1>7 DEF TypedStacks

-----------------------------------------------------------------------------
(* Each group of actions keeps the types.                                   *)

LEMMA TopType ==
  ASSUME TypedStacks, NEW i \in Nat, i < Len(values)
  PROVE  Top(i) \in Val
<1>1. values \in Seq(Val) /\ Len(values) \in Nat
  BY LenProperties DEF TypedStacks, TypeInv
<1>2. Len(values) - i \in 1..Len(values)
  BY <1>1
<1>3. QED
  BY <1>1, <1>2, ElementOfSeq DEF Top

LEMMA DropValuesType ==
  ASSUME TypedStacks, NEW n \in Nat
  PROVE  DropLast(values, n) \in Seq(Val)
BY DropLastType DEF TypedStacks, TypeInv

(* Instructions that only push.                                             *)
LEMMA PushType ==
  ASSUME TypedStacks, NEW n \in Nat, NEW v \in Val, Code(n, 1), Replace(n, <<v>>)
  PROVE  TypedStacks'
<1>1. <<v>> \in Seq(Val) /\ Len(<<v>>) = 1
  BY SingletonType
<1>2. QED
  BY <1>1, ReplaceType

LEMMA PopType ==
  ASSUME TypedStacks, NEW n \in Nat, Code(n, 0), Replace(n, <<>>)
  PROVE  TypedStacks'
<1>1. <<>> \in Seq(Val) /\ Len(<<>>) = 0
  BY EmptySeq
<1>2. QED
  BY <1>1, ReplaceType

(* An instruction that drops operands and traps.                            *)
LEMMA DropFailType ==
  ASSUME TypedStacks, NEW n \in Nat, NEW t \in 0..9, Fail(t),
         values' = DropLast(values, n), UNCHANGED <<labels, frames, locals>>
  PROVE  TypedStacks'
BY FailType, DropValuesType DEF TypedStacks, TypeInv

LEMMA LocalType ==
  ASSUME TypedStacks, running, pc.at # "dummy", NEW i \in Nat
  PROVE  /\ LocalAt(i) \in Nat \ {0} /\ locals \in Seq(Val) /\ Len(locals) \in Nat
         /\ LocalAt(i) <= Len(locals) => LocalAt(i) \in 1..Len(locals)
         /\ LocalRead(i) \subseteq Val
<1>1. locals \in Seq(Val) /\ Len(locals) \in Nat
  BY LenProperties DEF TypedStacks, TypeInv
<1>2. Last(frames).locals \in Nat
  BY RunningFacts DEF Frame
<1>3. LocalAt(i) \in Nat \ {0}
  BY <1>2 DEF LocalAt
<1>4. LocalAt(i) <= Len(locals) => LocalAt(i) \in 1..Len(locals)
  BY <1>1, <1>3
<1>5. LocalAt(i) <= Len(locals) => locals[LocalAt(i)] \in Val
  BY <1>1, <1>4, ElementOfSeq
<1>6. QED
  BY <1>1, <1>3, <1>4, <1>5 DEF LocalRead

(* Writing a local changes at most that local.                              *)
LEMMA WriteLocalType ==
  ASSUME TypedStacks, running, pc.at # "dummy", NEW i \in Nat, NEW v \in Val,
         WriteLocal(i, v)
  PROVE  /\ locals' \in Seq(Val) /\ Len(locals') = Len(locals)
         /\ \A x \in 1..Len(locals) : x # LocalAt(i) => locals'[x] = locals[x]
<1>1. /\ locals \in Seq(Val)
      /\ LocalAt(i) <= Len(locals) => LocalAt(i) \in 1..Len(locals)
  BY LocalType
<1>2. CASE LocalAt(i) <= Len(locals)
  <2>1. locals' = [locals EXCEPT ![LocalAt(i)] = v]
    BY <1>2 DEF WriteLocal
  <2>2. LocalAt(i) \in 1..Len(locals)
    BY <1>1, <1>2
  <2>3. QED
    BY <1>1, <2>1, <2>2, ExceptSeq
<1>3. CASE ~(LocalAt(i) <= Len(locals))
  BY <1>1, <1>3 DEF WriteLocal
<1>4. QED
  BY <1>2, <1>3

LEMMA PlainType ==
  ASSUME TypedStacks, Plain
  PROVE  TypedStacks'
<1>0. 0 \in Nat /\ 1 \in Nat /\ 2 \in Nat /\ 3 \in Nat
  OBVIOUS
<1>1. ASSUME NEW v \in Val, Const(v) PROVE TypedStacks'
  BY <1>0, <1>1, PushType DEF Const
<1>2. ASSUME NEW v \in Val, Unary(v) PROVE TypedStacks'
  BY <1>0, <1>2, PushType DEF Unary
<1>3. ASSUME NEW v \in Val, Binary(v) PROVE TypedStacks'
  BY <1>0, <1>3, PushType DEF Binary
<1>4. ASSUME NEW v \in Val, Load(v) PROVE TypedStacks'
  BY <1>0, <1>4, PushType DEF Load
<1>5. ASSUME NEW v \in Val, MemorySize(v) PROVE TypedStacks'
  BY <1>0, <1>5, PushType DEF MemorySize
<1>6. ASSUME NEW v \in Val, MemoryGrow(v) PROVE TypedStacks'
  BY <1>0, <1>6, PushType DEF MemoryGrow
<1>7. CASE Drop
  BY <1>0, <1>7, PopType DEF Drop
<1>8. CASE Select
  <2>1. Code(3, 1)
    BY <1>8 DEF Select
  <2>2. 3 <= Len(values) /\ Len(values) \in Nat
    BY <2>1, <1>0, CodeFacts DEF Code
  <2>3. Top(1) \in Val /\ Top(2) \in Val
    BY <1>0, <2>2, TopType
  <2>4. PICK v \in Val : Replace(3, <<v>>)
    BY <1>8, <2>3 DEF Select
  <2>5. QED
    BY <1>0, <2>1, <2>4, PushType
<1>9. CASE Store
  BY <1>0, <1>9, PopType DEF Store
<1>10. CASE Unreachable
  <2>1. Fail(2) /\ 2 \in 0..9 /\ UNCHANGED stacks
    BY <1>10 DEF Unreachable, TrapUnreachable
  <2>2. QED
    BY <2>1, FailType DEF stacks, TypedStacks, TypeInv
<1>11. ASSUME NEW n \in 1..2, OutOfBounds(n) PROVE TypedStacks'
  <2>1. n \in Nat /\ 7 \in 0..9
    OBVIOUS
  <2>2. QED
    BY <1>11, <2>1, DropFailType DEF OutOfBounds, TrapOutOfBoundsMemoryAccess
<1>12. ASSUME NEW t \in DivTraps, DivTrap(t) PROVE TypedStacks'
  <2>1. t \in 0..9
    BY DEF DivTraps, TrapIntegerOverflow, TrapIntegerDivideByZero
  <2>2. PICK n \in Nat : values' = DropLast(values, n)
    BY <1>0, <1>12 DEF DivTrap
  <2>3. QED
    BY <1>12, <2>1, <2>2, DropFailType DEF DivTrap
<1>18. ASSUME NEW t \in TruncTraps, TruncTrap(t) PROVE TypedStacks'
  <2>1. t \in 0..9
    BY DEF TruncTraps, TrapIntegerOverflow, TrapInvalidConversionToInteger
  <2>2. Fail(t) /\ UNCHANGED stacks
    BY <1>18 DEF TruncTrap
  <2>3. QED
    BY <2>1, <2>2, FailType DEF stacks, TypedStacks, TypeInv
<1>19. ASSUME NEW n \in 1..2, NEW v \in 0..1, Compare(n, v) PROVE TypedStacks'
  <2>1. n \in Nat /\ v \in Val
    BY ValAssumption
  <2>2. QED
    BY <1>19, <2>1, PushType DEF Compare
<1>13. ASSUME NEW i \in 0..(LocalCap - 1), GetLocal(i) PROVE TypedStacks'
  <2>0. i \in Nat
    OBVIOUS
  <2>a. running /\ pc.at # "dummy"
    BY <1>0, <1>13, CodeFacts DEF GetLocal, Code
  <2>1. running /\ pc.at # "dummy" /\ i \in Nat
    BY <2>0, <2>a
  <2>2. PICK v \in LocalRead(i) : Replace(0, <<v>>)
    BY <1>13 DEF GetLocal
  <2>3. v \in Val
    BY <2>1, LocalType
  <2>4. QED
    BY <1>0, <1>13, <2>2, <2>3, PushType DEF GetLocal
<1>14. ASSUME NEW i \in 0..(LocalCap - 1), SetLocal(i) PROVE TypedStacks'
  <2>0. i \in Nat
    OBVIOUS
  <2>a. /\ running /\ pc.at # "dummy"
        /\ 1 <= Len(values) /\ Len(values) \in Nat /\ After(1, 0) \in Position
    BY <1>0, <1>14, CodeFacts DEF SetLocal, Code
  <2>1. /\ running /\ pc.at # "dummy" /\ i \in Nat
        /\ 1 <= Len(values) /\ Len(values) \in Nat /\ After(1, 0) \in Position
    BY <2>0, <2>a
  <2>2. WriteLocal(i, Top(0))
    BY <1>14 DEF SetLocal
  <2>3. Top(0) \in Val
    BY <1>0, <2>1, TopType
  <2>4. locals' \in Seq(Val)
    BY <2>1, <2>2, <2>3, WriteLocalType
  <2>5. values' \in Seq(Val)
    BY <1>0, <1>14, DropValuesType DEF SetLocal
  <2>6. QED
    BY <1>14, <2>1, <2>4, <2>5, InsideType DEF SetLocal, TypedStacks, TypeInv
<1>15. ASSUME NEW i \in 0..(LocalCap - 1), TeeLocal(i) PROVE TypedStacks'
  <2>0. i \in Nat
    OBVIOUS
  <2>a. /\ running /\ pc.at # "dummy"
        /\ 1 <= Len(values) /\ Len(values) \in Nat /\ After(1, 1) \in Position
    BY <1>0, <1>15, CodeFacts DEF TeeLocal, Code
  <2>1. /\ running /\ pc.at # "dummy" /\ i \in Nat
        /\ 1 <= Len(values) /\ Len(values) \in Nat /\ After(1, 1) \in Position
    BY <2>0, <2>a
  <2>2. WriteLocal(i, Top(0))
    BY <1>15 DEF TeeLocal
  <2>3. Top(0) \in Val
    BY <1>0, <2>1, TopType
  <2>4. locals' \in Seq(Val)
    BY <2>1, <2>2, <2>3, WriteLocalType
  <2>5. QED
    BY <1>15, <2>1, <2>4, InsideType DEF TeeLocal, TypedStacks, TypeInv
<1>16. ASSUME NEW g \in Globals, GetGlobal(g) PROVE TypedStacks'
  <2>1. globals[g] \in Val
    BY DEF TypedStacks, TypeInv
  <2>2. QED
    BY <1>0, <1>16, <2>1, PushType DEF GetGlobal
<1>17. ASSUME NEW g \in Globals, SetGlobal(g) PROVE TypedStacks'
  <2>1. /\ running /\ pc.at # "dummy"
        /\ 1 <= Len(values) /\ Len(values) \in Nat /\ After(1, 0) \in Position
    BY <1>0, <1>17, CodeFacts DEF SetGlobal, Code
  <2>2. Top(0) \in Val
    BY <1>0, <2>1, TopType
  <2>3. values' \in Seq(Val)
    BY <1>0, <1>17, DropValuesType DEF SetGlobal
  <2>4. globals' \in [Globals -> Val]
    BY <1>17, <2>2 DEF SetGlobal, TypedStacks, TypeInv
  <2>5. phase' = "running" /\ UNCHANGED <<labels, frames, locals, trap, exitCode, ok, result, callee>>
    BY <1>17, <2>1 DEF SetGlobal, outcome, running
  <2>6. TypeInv'
    BY <1>17, <2>1, <2>3, <2>4, <2>5 DEF SetGlobal, TypedStacks, TypeInv
  <2>7. DummyBelow'
    BY <2>1, <2>5, RunningFacts DEF DummyBelow, running
  <2>8. QED
    BY <2>6, <2>7 DEF TypedStacks
<1>20. QED
  BY <1>1, <1>2, <1>3, <1>4, <1>5, <1>6, <1>7, <1>8, <1>9, <1>10, <1>11, <1>12,
     <1>13, <1>14, <1>15, <1>16, <1>17, <1>18, <1>19 DEF Plain

-----------------------------------------------------------------------------
LEMMA PushLabelType ==
  ASSUME TypedStacks, running, pc.at # "dummy", values' \in Seq(Val),
         NEW label \in Label, NEW target \in Position, PushLabel(label, target)
  PROVE  TypedStacks'
<1>1. labels' \in Seq(Label)
  BY AppendType DEF PushLabel, TypedStacks, TypeInv
<1>2. UNCHANGED <<frames, locals>> /\ frames \in Seq(Frame) /\ locals \in Seq(Val)
  BY DEF PushLabel, TypedStacks, TypeInv
<1>3. CASE Full(labels', LabelCap)
  <2>1. Fail(3) /\ 3 \in 0..9
    BY <1>3 DEF PushLabel, TrapStackOverflow
  <2>2. QED
    BY <1>1, <1>2, <2>1, FailType
<1>4. CASE ~Full(labels', LabelCap)
  <2>1. pc' \in Position /\ Continue
    BY <1>4 DEF PushLabel
  <2>2. QED
    BY <1>1, <1>2, <2>1, InsideType
<1>5. QED
  BY <1>3, <1>4

LEMMA InsidePosition ==
  ASSUME TypedStacks, running, pc.at # "dummy", NEW at \in {"any", "end"},
         NEW loop \in BOOLEAN, NEW r \in 0..1, NEW base \in Nat
  PROVE  Inside(at, loop, r, base) \in Position
<1>1. pc.func \in Funcs /\ pc.ctl \in Seq(Control)
  BY RunningFacts
<1>2. [loop |-> loop, res |-> r, base |-> base] \in Control
  BY DEF Control
<1>3. Append(pc.ctl, [loop |-> loop, res |-> r, base |-> base]) \in Seq(Control)
  BY <1>1, <1>2, AppendType
<1>4. QED
  BY <1>1, <1>3 DEF Inside, Position, Place

LEMMA BlockType ==
  ASSUME TypedStacks, NEW r \in 0..1, Block(r)
  PROVE  TypedStacks'
<1>1. /\ running /\ pc.at # "dummy" /\ pc.h \in Nat /\ After(0, r) \in Position
      /\ Len(values) \in Nat
  <2>1. 0 \in Nat /\ r \in Nat
    OBVIOUS
  <2>2. QED
    BY <2>1, MayFacts DEF Block
<1>2. values' \in Seq(Val)
  BY DEF Block, TypedStacks, TypeInv
<1>3. NewLabel(r, After(0, r), After(0, r), Len(values)) \in Label
  BY <1>1 DEF NewLabel, Label
<1>4. Inside("any", FALSE, r, pc.h) \in Position
  BY <1>1, InsidePosition
<1>5. QED
  BY <1>1, <1>2, <1>3, <1>4, PushLabelType DEF Block

LEMMA LoopType ==
  ASSUME TypedStacks, NEW r \in 0..1, Loop(r)
  PROVE  TypedStacks'
<1>1. /\ running /\ pc.at # "dummy" /\ pc.h \in Nat /\ After(0, r) \in Position
      /\ Len(values) \in Nat
  <2>1. 0 \in Nat /\ r \in Nat /\ "dummy" \notin {"any", "loop"}
    OBVIOUS
  <2>2. QED
    BY <2>1, MayFacts DEF Loop
<1>2. values' \in Seq(Val)
  BY DEF Loop, TypedStacks, TypeInv
<1>3. [pc EXCEPT !.at = "loop"] \in Position
  BY <1>1, RunningFacts DEF TypedStacks, TypeInv, Position, Place
<1>4. NewLabel(0, After(0, r), [pc EXCEPT !.at = "loop"], Len(values)) \in Label
  BY <1>1, <1>3 DEF NewLabel, Label
<1>5. Inside("any", TRUE, r, pc.h) \in Position
  BY <1>1, InsidePosition
<1>6. QED
  BY <1>1, <1>2, <1>4, <1>5, PushLabelType DEF Loop

LEMMA IfType ==
  ASSUME TypedStacks, NEW r \in 0..1, NEW hasElse \in BOOLEAN, If(r, hasElse)
  PROVE  TypedStacks'
<1>0. 1 \in Nat /\ r \in Nat /\ Code(1, r)
  BY DEF If
<1>1. /\ running /\ pc.at # "dummy" /\ pc.h \in Nat /\ After(1, r) \in Position
      /\ Len(values) \in Nat /\ 1 <= Len(values)
      /\ Cur \in Control /\ pc.h >= Cur.base + 1
  BY <1>0, CodeFacts DEF Code
<1>2. pc.h - 1 \in Nat /\ Len(values) - 1 \in Nat
  BY <1>1 DEF Control
<1>3. values' \in Seq(Val)
  BY <1>0, DropValuesType DEF If
<1>4. NewLabel(r, After(1, r), After(1, r), Len(values) - 1) \in Label
  BY <1>1, <1>2 DEF NewLabel, Label
<1>5. Inside(IF Top(0) # 0 \/ hasElse THEN "any" ELSE "end", FALSE, r, pc.h - 1) \in Position
  BY <1>1, <1>2, InsidePosition
<1>6. QED
  BY <1>1, <1>3, <1>4, <1>5, PushLabelType DEF If

LEMMA OpEndType ==
  ASSUME TypedStacks, running, pc.at # "dummy", OpEnd
  PROVE  TypedStacks'
<1> DEFINE rest == IF labels # <<>> THEN DropLast(labels, 1) ELSE labels
           resume == IF labels # <<>> THEN Last(labels).pre ELSE [pc EXCEPT !.at = "past"]
<1>1. labels \in Seq(Label) /\ 1 \in Nat
  BY DEF TypedStacks, TypeInv
<1>2. labels' \in Seq(Label)
  BY <1>1, DropLastType DEF OpEnd
<1>3. Last(frames) \in Frame
  BY RunningFacts
<1>4. values' \in Seq(Val) /\ locals \in Seq(Val)
  BY DEF OpEnd, TypedStacks, TypeInv
<1>5. CASE FrameDone(Last(frames), rest)
  <2>1. /\ pc' = Last(frames).pre /\ locals' = DropLocals(Last(frames))
        /\ frames' = DropLast(frames, 1) /\ Continue
    BY <1>5 DEF OpEnd
  <2>2. locals' \in Seq(Val)
    BY <1>3, <1>4, <2>1, DropLastType DEF DropLocals, Frame
  <2>3. QED
    BY <1>2, <1>4, <2>1, <2>2, LeaveType
<1>6. CASE ~FrameDone(Last(frames), rest)
  <2>1. pc' = resume /\ UNCHANGED <<locals, frames>> /\ Continue
    BY <1>6 DEF OpEnd
  <2>2. resume \in Position
    <3>1. CASE labels # <<>>
      <4>1. Last(labels) \in Label
        BY <3>1, <1>1, LastType
      <4>2. Last(labels).pre \in Position
        BY <4>1 DEF Label
      <4>3. QED
        BY <3>1, <4>2
    <3>a. [pc EXCEPT !.at = "past"] \in Position
      BY RunningFacts DEF TypedStacks, TypeInv, Position, Place
    <3>2. CASE labels = <<>>
      BY <3>2, <3>a
    <3>3. QED
      BY <3>1, <3>2
  <2>3. QED
    BY <1>2, <1>4, <2>1, <2>2, InsideType
<1>7. QED
  BY <1>5, <1>6

LEMMA EnterBodyType ==
  ASSUME TypedStacks, EnterBody
  PROVE  TypedStacks'
<1> DEFINE f == pc.func
           exit == Pos("exit", f, Ret[f])
           body == <<[loop |-> FALSE, res |-> Ret[f], base |-> 0]>>
<1>1. running /\ pc.at # "dummy"
  BY DEF EnterBody, running
<1>2. f \in Funcs /\ Ret[f] \in 0..1
  BY <1>1, RunningFacts, FuncsAssumption
<1>3. values' \in Seq(Val) /\ Len(values) \in Nat
  BY LenProperties DEF EnterBody, TypedStacks, TypeInv
<1>4. exit \in Position
  BY <1>2, EmptySeq DEF Pos, Position, Place
<1>5. NewLabel(Ret[f], exit, exit, Len(values)) \in Label
  BY <1>2, <1>3, <1>4 DEF NewLabel, Label
<1>6. [loop |-> FALSE, res |-> Ret[f], base |-> 0] \in Control
  BY <1>2 DEF Control
<1>7. body \in Seq(Control)
  BY <1>6, SingletonType
<1>8. [pc EXCEPT !.at = "any", !.ctl = body] \in Position
  BY <1>2, <1>7 DEF TypedStacks, TypeInv, Position, Place
<1>9. QED
  BY <1>1, <1>3, <1>5, <1>8, PushLabelType DEF EnterBody

LEMMA BreakType ==
  ASSUME TypedStacks, running, pc.at # "dummy", NEW k \in Nat,
         NEW vals \in Seq(Val), Break(k, vals)
  PROVE  TypedStacks'
<1> DEFINE label == labels[Len(labels) - k]
           ret == IF label.retType # 0 THEN <<Last(vals)>> ELSE <<>>
           rest == DropLast(vals, Len(ret))
<1>1. labels \in Seq(Label) /\ Len(labels) \in Nat
  BY LenProperties DEF TypedStacks, TypeInv
<1>0. k < Len(labels) /\ label.retType <= Len(vals)
  BY DEF Break, LabelReached
<1>2. Len(labels) - k \in 1..Len(labels)
  BY <1>0, <1>1
<1>3. label \in Label
  BY <1>1, <1>2, ElementOfSeq
<1>4. ret \in Seq(Val)
  <2>1. CASE label.retType # 0
    <3>1. vals # <<>>
      BY <1>0, <1>3, <2>1 DEF Label
    <3>2. Last(vals) \in Val
      BY <3>1, LastType
    <3>3. QED
      BY <2>1, <3>2, SingletonType
  <2>2. CASE label.retType = 0
    BY <2>2, EmptySeq
  <2>3. QED
    BY <2>1, <2>2
<1>5. rest \in Seq(Val)
  BY <1>4, LenProperties, DropLastType
<1>6. AtMost(rest, label.valueStackSize) \in Seq(Val)
  BY <1>3, <1>5, AtMostType DEF Label
<1>7. values' \in Seq(Val)
  BY <1>4, <1>6, ConcatProperties DEF Break
<1>8. labels' \in Seq(Label)
  <2>1. k + 1 \in Nat
    OBVIOUS
  <2>2. QED
    BY <1>1, <2>1, DropLastType DEF Break, Unwind
<1>9. pc' \in Position
  BY <1>3 DEF Break, Label
<1>10. QED
  BY <1>7, <1>8, <1>9, InsideType DEF Break, TypedStacks, TypeInv

LEMMA BranchType ==
  ASSUME TypedStacks, running, pc.at # "dummy", NEW k \in Nat, NEW n \in 0..1,
         Break(k, DropLast(values, n))
  PROVE  TypedStacks'
<1>1. n \in Nat
  OBVIOUS
<1>2. DropLast(values, n) \in Seq(Val)
  BY <1>1, DropValuesType
<1>3. QED
  BY <1>2, BreakType

LEMMA BrTableTarget ==
  ASSUME TypedStacks, NEW k \in Nat, NEW vec \in Vectors(MaxDepth), BrTable(vec, k)
  PROVE  LET t == IF Top(0) < Len(vec) THEN vec[Top(0) + 1] ELSE k
         IN t \in Nat /\ MayBranch(t, 1)
<1> DEFINE t == IF Top(0) < Len(vec) THEN vec[Top(0) + 1] ELSE k
<1>0. 0 \in Nat /\ 1 \in Nat /\ 1 \in 0..1
  OBVIOUS
<1>1. running /\ pc.at # "dummy" /\ 1 <= Len(values) /\ Len(values) \in Nat
  BY <1>0, CodeFacts DEF BrTable, Code
<1>a. 0 < Len(values)
  BY <1>1
<1>2. Top(0) \in Nat
  BY <1>0, <1>a, TopType, ValAssumption
<1>3. PICK i \in 0..1 : vec \in [1..i -> 0..(MaxDepth - 1)]
  BY DEF Vectors
<1>b. i \in Nat
  OBVIOUS
<1>c. vec \in Seq(0..(MaxDepth - 1))
  BY <1>3, <1>b, SeqDef
<1>4. i \in Nat /\ vec \in Seq(0..(MaxDepth - 1)) /\ Len(vec) = i
  BY <1>3, <1>b, <1>c, LenProperties
<1>5. t \in Nat /\ MayBranch(t, 1)
  <2>1. CASE Top(0) < Len(vec)
    <3>1. Top(0) + 1 \in 1..Len(vec)
      BY <1>2, <1>4, <2>1
    <3>2. vec[Top(0) + 1] \in 0..(MaxDepth - 1)
      BY <1>3, <1>4, <3>1
    <3>3. vec[Top(0) + 1] \in Nat
      BY <3>2
    <3>4. MayBranch(vec[Top(0) + 1], 1)
      BY <3>1 DEF BrTable
    <3>5. QED
      BY <2>1, <3>3, <3>4
  <2>2. CASE ~(Top(0) < Len(vec))
    BY <2>2 DEF BrTable
  <2>3. QED
    BY <2>1, <2>2
<1>6. QED
  BY <1>5

LEMMA BrTableType ==
  ASSUME TypedStacks, NEW k \in Nat, NEW vec \in Vectors(MaxDepth), BrTable(vec, k)
  PROVE  TypedStacks'
<1> DEFINE t == IF Top(0) < Len(vec) THEN vec[Top(0) + 1] ELSE k
<1>0. 0 \in Nat /\ 1 \in Nat /\ 1 \in 0..1
  OBVIOUS
<1>1. running /\ pc.at # "dummy"
  BY <1>0, CodeFacts DEF BrTable, Code
<1>2. t \in Nat
  BY BrTableTarget
<1>3. Break(t, DropLast(values, 1))
  BY DEF BrTable
<1>4. QED
  BY <1>0, <1>1, <1>2, <1>3, BranchType

LEMMA ReturnType ==
  ASSUME TypedStacks, Return
  PROVE  TypedStacks'
<1> DEFINE frame == Last(frames)
           n == RetType(frame)
           ret == IF n # 0 THEN <<Top(0)>> ELSE <<>>
<1>0. phase = "running" /\ pc.at = "any"
  BY DEF Return, MayReturn, May
<1>1. running /\ pc.at # "dummy"
  BY <1>0 DEF running
<1>2. frame \in Frame
  BY <1>1, RunningFacts
<1>3. n \in 0..1 /\ n \in Nat /\ n <= Len(values)
  BY <1>2, FuncsAssumption DEF Return, RetType, Frame
<1>4. values \in Seq(Val) /\ labels \in Seq(Label) /\ locals \in Seq(Val) /\ Len(values) \in Nat
  BY LenProperties DEF TypedStacks, TypeInv
<1>5. ret \in Seq(Val)
  <2>1. CASE n # 0
    <3>1. 0 \in Nat /\ 0 < Len(values)
      BY <1>3, <1>4, <2>1
    <3>2. QED
      BY <2>1, <3>1, TopType, SingletonType
  <2>2. CASE n = 0
    BY <2>2, EmptySeq
  <2>3. QED
    BY <2>1, <2>2
<1>6. AtMost(DropLast(values, n), frame.valueStackSize) \in Seq(Val)
  BY <1>2, <1>3, <1>4, DropLastType, AtMostType DEF Frame
<1>7. values' \in Seq(Val)
  BY <1>5, <1>6, ConcatProperties DEF Return
<1>8. labels' \in Seq(Label)
  BY <1>2, <1>4, AtMostType DEF Return, Frame
<1>9. locals' \in Seq(Val)
  BY <1>2, <1>4, DropLastType DEF Return, DropLocals, Frame
<1>10. QED
  BY <1>1, <1>7, <1>8, <1>9, LeaveType DEF Return

LEMMA StructuredType ==
  ASSUME TypedStacks, Structured
  PROVE  TypedStacks'
<1>0. /\ 0 \in Nat /\ 1 \in Nat /\ 0 \in 0..1 /\ 1 \in 0..1
      /\ "dummy" \notin {"any", "end"}
  OBVIOUS
<1>1. ASSUME NEW r \in 0..1, Block(r) PROVE TypedStacks'
  BY <1>1, BlockType
<1>2. ASSUME NEW r \in 0..1, Loop(r) PROVE TypedStacks'
  BY <1>2, LoopType
<1>3. ASSUME NEW r \in 0..1, NEW hasElse \in BOOLEAN, If(r, hasElse) PROVE TypedStacks'
  BY <1>3, IfType
<1>4. CASE End
  <2>1. running /\ pc.at # "dummy"
    BY <1>0, <1>4, MayFacts DEF End
  <2>2. QED
    BY <1>4, <2>1, OpEndType DEF End
<1>5. CASE EndOfFrame
  BY <1>5, OpEndType DEF EndOfFrame, running
<1>6. CASE EnterBody
  BY <1>6, EnterBodyType
<1>7. CASE EndOfPc
  <2>1. Fail(0) /\ 0 \in 0..9 /\ UNCHANGED stacks
    BY <1>7 DEF EndOfPc, TrapNone
  <2>2. QED
    BY <2>1, FailType DEF stacks, TypedStacks, TypeInv
<1>8. CASE Return
  BY <1>8, ReturnType
<1>9. ASSUME NEW k \in 0..(MaxDepth - 1), Br(k) PROVE TypedStacks'
  <2>0. k \in Nat
    OBVIOUS
  <2>1. running /\ pc.at # "dummy" /\ Len(values) \in Nat
    BY <1>0, <1>9, MayFacts DEF Br
  <2>2. DropLast(values, 0) = values
    <3>1. values \in Seq(Val)
      BY DEF TypedStacks, TypeInv
    <3>2. QED
      BY <2>1, <3>1, SubSeqFull DEF DropLast
  <2>3. Break(k, DropLast(values, 0))
    BY <1>9, <2>1, <2>2 DEF Br
  <2>4. QED
    BY <1>0, <2>0, <2>1, <2>3, BranchType
<1>10. ASSUME NEW k \in 0..(MaxDepth - 1), BrIf(k) PROVE TypedStacks'
  <2>0. k \in Nat
    OBVIOUS
  <2>1. /\ running /\ pc.at # "dummy" /\ Len(values) \in Nat /\ 1 <= Len(values)
        /\ Code(1, 0)
    BY <1>0, <1>10, CodeFacts DEF BrIf, Code
  <2>2. CASE Top(0) # 0
    BY <1>0, <1>10, <2>0, <2>1, <2>2, BranchType DEF BrIf
  <2>3. CASE Top(0) = 0
    BY <1>0, <1>10, <2>1, <2>3, PopType DEF BrIf
  <2>4. QED
    BY <2>2, <2>3
<1>11. ASSUME NEW k \in 0..(MaxDepth - 1), NEW vec \in Vectors(MaxDepth), BrTable(vec, k)
       PROVE TypedStacks'
  <2>0. k \in Nat
    OBVIOUS
  <2>1. QED
    BY <1>11, <2>0, BrTableType
<1>12. QED
  BY <1>1, <1>2, <1>3, <1>4, <1>5, <1>6, <1>7, <1>8, <1>9, <1>10, <1>11 DEF Structured

-----------------------------------------------------------------------------
(* Calls.  An invocation is either the host's, from "called", or that of an *)
(* instruction.                                                             *)

MayInvoke(return) ==
  \/ phase = "called" /\ return = NoPos
  \/ running /\ pc.at # "dummy"

LEMMA MayInvokeFacts ==
  ASSUME TypedStacks, NEW return, MayInvoke(return)
  PROVE  /\ frames \in Seq(Frame) /\ Len(frames) \in Nat /\ Len(frames) >= 1
         /\ frames[1] = DummyFrame
         /\ IF Len(frames) = 1 THEN phase = "called" /\ return = NoPos
                               ELSE running /\ frames[2].pre = NoPos
<1>1. frames \in Seq(Frame) /\ Len(frames) \in Nat
  BY LenProperties DEF TypedStacks, TypeInv
<1>2. CASE phase = "called" /\ return = NoPos
  <2>1. frames = <<DummyFrame>>
    BY <1>2 DEF TypedStacks, DummyBelow
  <2>2. Len(frames) = 1 /\ frames[1] = DummyFrame
    BY <2>1
  <2>3. QED
    BY <1>1, <1>2, <2>2
<1>3. CASE running /\ pc.at # "dummy"
  <2>1. Len(frames) >= 2 /\ frames[1] = DummyFrame /\ frames[2].pre = NoPos
    BY <1>3, RunningFacts
  <2>2. QED
    BY <1>1, <1>3, <2>1
<1>4. QED
  BY <1>2, <1>3 DEF MayInvoke

LEMMA NewFrameType ==
  ASSUME TypedStacks, NEW f \in Funcs, NEW return \in Position, NEW size \in Nat
  PROVE  /\ NewFrame(f, return, size) \in Frame
         /\ NewFrame(f, return, size).pre = return
         /\ NewFrame(f, return, size).localSize = Params[f] + Locals[f]
<1>1. Len(labels) \in Nat /\ Len(locals) \in Nat
  BY LenProperties DEF TypedStacks, TypeInv
<1>2. Params[f] \in Nat /\ Locals[f] \in Nat
  BY FuncsAssumption
<1>3. QED
  BY <1>1, <1>2 DEF NewFrame, Frame

LEMMA ArgumentsType ==
  ASSUME NEW f \in Funcs, NEW vals \in Seq(Val), Params[f] <= Len(vals)
  PROVE  /\ Arguments(f, vals) \in Seq(Val) /\ Len(Arguments(f, vals)) = Params[f]
         /\ Zeros(Locals[f]) \in Seq(Val) /\ Len(Zeros(Locals[f])) = Locals[f]
<1>1. Params[f] \in Nat /\ Locals[f] \in Nat /\ Len(vals) \in Nat
  BY LenProperties, FuncsAssumption
<1>2. \A i \in (Len(vals) - Params[f] + 1)..Len(vals) : vals[i] \in Val
  <2>1. ASSUME NEW i \in (Len(vals) - Params[f] + 1)..Len(vals) PROVE i \in 1..Len(vals)
    BY <1>1
  <2>2. QED
    BY <2>1, ElementOfSeq
<1>3. Len(vals) - Params[f] + 1 \in Int /\ Len(vals) \in Int
  BY <1>1
<1>4. Arguments(f, vals) \in Seq(Val)
  BY <1>2, <1>3, SubSeqProperties DEF Arguments
<1>5. Len(Arguments(f, vals)) = IF Len(vals) - Params[f] + 1 <= Len(vals)
                                THEN Len(vals) - (Len(vals) - Params[f] + 1) + 1 ELSE 0
  BY <1>2, <1>3, SubSeqProperties DEF Arguments
<1>6. Len(Arguments(f, vals)) = Params[f]
  BY <1>1, <1>5
<1>7. 0 \in Val
  BY ValAssumption
<1>8. Zeros(Locals[f]) \in Seq(Val) /\ Len(Zeros(Locals[f])) = Locals[f]
  BY <1>1, <1>7 DEF Zeros
<1>9. QED
  BY <1>4, <1>6, <1>8

LEMMA InvokeWasmType ==
  ASSUME TypedStacks, NEW f \in Funcs, NEW vals \in Seq(Val), NEW return \in Position,
         MayInvoke(return), Params[f] <= Len(vals) \/ LocalsFull(f),
         InvokeWasm(f, vals, return)
  PROVE  TypedStacks'
<1> DEFINE frame == NewFrame(f, return, Len(vals))
<1>1. Len(vals) \in Nat /\ Params[f] \in Nat /\ Locals[f] \in Nat
  BY LenProperties, FuncsAssumption
<1>2. frame \in Frame /\ frame.pre = return
  BY <1>1, NewFrameType
<1>3. /\ frames \in Seq(Frame) /\ Len(frames) \in Nat /\ Len(frames) >= 1
      /\ frames[1] = DummyFrame
      /\ IF Len(frames) = 1 THEN return = NoPos ELSE frames[2].pre = NoPos
  BY MayInvokeFacts
<1>4. frames' = Append(frames, frame)
  BY DEF InvokeWasm
<1>5. /\ frames' \in Seq(Frame) /\ Len(frames') = Len(frames) + 1
      /\ \A i \in 1..Len(frames) : frames'[i] = frames[i]
      /\ frames'[Len(frames) + 1] = frame
  BY <1>2, <1>3, <1>4, AppendType
<1>6. labels' \in Seq(Label) /\ locals \in Seq(Val)
  BY DEF InvokeWasm, TypedStacks, TypeInv
<1>7. CASE LocalsFull(f)
  <2>1. values' = vals /\ locals' = locals /\ Fail(3) /\ 3 \in 0..9
    BY <1>7 DEF InvokeWasm, TrapStackOverflow
  <2>2. QED
    BY <1>5, <1>6, <2>1, FailType
<1>8. CASE ~LocalsFull(f)
  <2>1. /\ values' = WithoutArguments(f, vals)
        /\ locals' = locals \o Arguments(f, vals) \o Zeros(Locals[f])
        /\ IF Full(frames', FrameCap)
           THEN Fail(TrapStackOverflow)
           ELSE /\ pc' = Pos("entry", f, 0)
                /\ phase' = "running"
                /\ UNCHANGED <<trap, exitCode, ok, result, globals, callee>>
    BY <1>8 DEF InvokeWasm
  <2>2. values' \in Seq(Val)
    BY <1>1, <2>1, DropLastType DEF WithoutArguments
  <2>3. Arguments(f, vals) \in Seq(Val) /\ Zeros(Locals[f]) \in Seq(Val)
    BY <1>8, ArgumentsType
  <2>4. locals \o Arguments(f, vals) \in Seq(Val)
    BY <1>6, <2>3, ConcatProperties
  <2>5. locals' \in Seq(Val)
    BY <2>1, <2>3, <2>4, ConcatProperties
  <2>6. CASE Full(frames', FrameCap)
    <3>1. Fail(3) /\ 3 \in 0..9
      BY <2>1, <2>6 DEF TrapStackOverflow
    <3>2. QED
      BY <1>5, <1>6, <2>2, <2>5, <3>1, FailType
  <2>7. CASE ~Full(frames', FrameCap)
    <3>1. /\ pc' = Pos("entry", f, 0) /\ phase' = "running"
          /\ UNCHANGED <<trap, exitCode, ok, result, globals, callee>>
      BY <2>1, <2>7
    <3>2. pc' \in Position
      BY <3>1, EmptySeq DEF Pos, Position, Place
    <3>3. TypeInv'
      BY <1>5, <1>6, <2>2, <2>5, <3>1, <3>2 DEF TypedStacks, TypeInv
    <3>4. frames' # <<>> /\ frames'[1] = DummyFrame /\ Len(frames') # 1
      BY <1>3, <1>5
    <3>5. frames'[2].pre = NoPos
      <4>1. CASE Len(frames) = 1
        BY <1>2, <1>3, <1>5, <4>1
      <4>2. CASE Len(frames) # 1
        <5>1. \A n \in Nat : n >= 1 /\ n # 1 => 2 \in 1..n
          OBVIOUS
        <5>2. 2 \in 1..Len(frames)
          BY <1>3, <4>2, <5>1
        <5>3. QED
          BY <1>3, <1>5, <4>2, <5>2
      <4>3. QED
        BY <4>1, <4>2
    <3>6. QED
      BY <3>1, <3>3, <3>4, <3>5 DEF TypedStacks, DummyBelow, running
  <2>8. QED
    BY <2>6, <2>7
<1>9. QED
  BY <1>7, <1>8

LEMMA InvokeNativeType ==
  ASSUME TypedStacks, NEW f \in Natives, NEW vals \in Seq(Val), NEW return \in Position,
         MayInvoke(return), Params[f] <= Len(vals), NEW v \in Val,
         InvokeNative(f, vals, return, v)
  PROVE  TypedStacks'
<1>1. /\ Len(vals) \in Nat /\ Params[f] \in Nat /\ Ret[f] \in 0..1
  BY LenProperties, FuncsAssumption
<1>2. /\ frames \in Seq(Frame) /\ Len(frames) \in Nat /\ Len(frames) >= 1
      /\ frames[1] = DummyFrame
      /\ IF Len(frames) = 1 THEN return = NoPos ELSE frames[2].pre = NoPos
  BY MayInvokeFacts
<1>3. UNCHANGED <<labels, frames, locals>>
  BY DEF InvokeNative
<1>4. CASE f \in Exiting
  <2>1. vals # <<>>
    BY <1>1, <1>4, FuncsAssumption
  <2>2. Last(vals) \in Nat
    BY <2>1, LastType, ValAssumption
  <2>3. /\ values' = DropLast(vals, 1) /\ exitCode' = Last(vals) /\ trap' = 1
        /\ phase' = "idle" /\ ok' = FALSE /\ UNCHANGED <<pc, globals, callee, result>>
    BY <1>4 DEF InvokeNative, TrapExit
  <2>4. values' \in Seq(Val) /\ 1 \in Nat
    BY <2>3, DropLastType
  <2>5. ok' \in BOOLEAN
    BY <2>3, Zenon
  <2>6. TypeInv'
    BY <1>3, <2>2, <2>3, <2>4, <2>5 DEF TypedStacks, TypeInv
  <2>7. QED
    BY <2>3, <2>6 DEF TypedStacks, DummyBelow, running
<1>5. CASE f \notin Exiting
  <2>1. /\ values' = DropLast(vals, Params[f]) \o [i \in 1..Ret[f] |-> v]
        /\ pc' = return /\ phase' = "running"
        /\ UNCHANGED <<trap, exitCode, ok, result, globals, callee>>
    BY <1>5 DEF InvokeNative
  <2>2. [i \in 1..Ret[f] |-> v] \in Seq(Val)
    <3>1. Ret[f] \in Nat
      BY <1>1
    <3>2. QED
      BY <3>1
  <2>3. values' \in Seq(Val)
    BY <1>1, <2>1, <2>2, DropLastType, ConcatProperties
  <2>4. TypeInv'
    BY <1>3, <2>1, <2>3 DEF TypedStacks, TypeInv
  <2>5. frames' # <<>>
    BY <1>2, <1>3
  <2>6. QED
    BY <1>2, <1>3, <2>1, <2>4, <2>5 DEF TypedStacks, DummyBelow, running
<1>6. QED
  BY <1>4, <1>5

LEMMA InvokeFuncType ==
  ASSUME TypedStacks, NEW f \in Funcs, NEW vals \in Seq(Val), NEW return \in Position,
         MayInvoke(return), InvokeFunc(f, vals, return)
  PROVE  TypedStacks'
<1>1. Invokable(f, vals)
  BY DEF InvokeFunc
<1>2. CASE f \in Natives
  BY <1>1, <1>2, InvokeNativeType DEF InvokeFunc, Invokable
<1>3. CASE f \notin Natives
  <2>1. Params[f] <= Len(vals) \/ LocalsFull(f)
    BY <1>1 DEF Invokable
  <2>2. InvokeWasm(f, vals, return)
    BY <1>3 DEF InvokeFunc
  <2>3. QED
    BY <2>1, <2>2, InvokeWasmType
<1>4. QED
  BY <1>2, <1>3

(* The static facts bound the operand a call_indirect takes, and the test   *)
(* of the handler the index it is used as.                                  *)
LEMMA IndirectFacts ==
  ASSUME TypedStacks, NEW t \in Types, CallIndirect(t)
  PROVE  /\ running /\ pc.at # "dummy" /\ After(t.params + 1, t.ret) \in Position
         /\ Top(0) \in Nat
<1>1. t.params \in Nat /\ t.ret \in Nat
  <2>1. PICK g \in Funcs : t = [params |-> Params[g], ret |-> Ret[g]]
    BY DEF Types
  <2>2. Params[g] \in Nat /\ Ret[g] \in 0..1
    BY FuncsAssumption
  <2>3. QED
    BY <2>1, <2>2
<1>2. t.params + 1 \in Nat
  BY <1>1
<1>3. /\ running /\ pc.at # "dummy" /\ After(t.params + 1, t.ret) \in Position
      /\ Len(values) \in Nat /\ 1 <= Len(values)
  BY <1>1, <1>2, MayFacts DEF CallIndirect
<1>4. 0 < Len(values) /\ 0 \in Nat
  BY <1>1, <1>3
<1>5. Top(0) \in Nat
  BY <1>4, TopType, ValAssumption
<1>6. QED
  BY <1>3, <1>5

LEMMA IndirectCallee ==
  ASSUME TypedStacks, NEW t \in Types, CallIndirect(t), Called(t)
  PROVE  Callee \in Funcs
<1>1. Table \in Seq(Funcs) /\ Len(Table) \in Nat
  BY FuncsAssumption, LenProperties
<1>2. Top(0) + 1 \in 1..Len(Table)
  BY <1>1, IndirectFacts DEF Called
<1>3. QED
  BY <1>1, <1>2, ElementOfSeq DEF Callee

LEMMA CallingType ==
  ASSUME TypedStacks, Calling
  PROVE  TypedStacks'
<1>0. 0 \in Nat /\ 1 \in Nat
  OBVIOUS
<1>1. ASSUME NEW f \in Funcs, Call(f) PROVE TypedStacks'
  <2>0. Params[f] \in Nat /\ Ret[f] \in Nat
    <3>1. Params[f] \in Nat /\ Ret[f] \in 0..1
      BY FuncsAssumption
    <3>2. QED
      BY <3>1
  <2>1. running /\ pc.at # "dummy" /\ After(Params[f], Ret[f]) \in Position
    BY <1>1, <2>0, MayFacts DEF Call
  <2>2. values \in Seq(Val) /\ InvokeFunc(f, values, After(Params[f], Ret[f]))
    BY <1>1 DEF Call, TypedStacks, TypeInv
  <2>3. MayInvoke(After(Params[f], Ret[f]))
    BY <2>1 DEF MayInvoke
  <2>4. QED
    BY <2>1, <2>2, <2>3, InvokeFuncType
<1>2. ASSUME NEW t \in Types, CallIndirect(t) PROVE TypedStacks'
  <2> DEFINE vals == DropLast(values, 1)
             f == Callee
             return == After(t.params + 1, t.ret)
  <2>3. running /\ pc.at # "dummy" /\ return \in Position
    BY <1>2, IndirectFacts
  <2>6. vals \in Seq(Val)
    BY <1>0, DropValuesType
  <2>7. CASE ~Called(t)
    <3>1. \E r \in 0..9 : Fail(r) /\ values' = vals /\ UNCHANGED <<labels, frames, locals>>
      BY <1>2, <2>7 DEF CallIndirect, TrapUndefinedElement, TrapIndirectCallTypeMismatch
    <3>2. QED
      BY <1>0, <3>1, DropFailType
  <2>8. CASE Called(t)
    <3>3. f \in Funcs
      BY <1>2, <2>8, IndirectCallee
    <3>4. InvokeFunc(f, vals, return)
      BY <1>2, <2>8 DEF CallIndirect
    <3>5. MayInvoke(return)
      BY <2>3 DEF MayInvoke
    <3>6. QED
      BY <2>3, <2>6, <3>3, <3>4, <3>5, InvokeFuncType
  <2>9. QED
    BY <2>7, <2>8
<1>3. QED
  BY <1>1, <1>2 DEF Calling

LEMMA HostType ==
  ASSUME TypedStacks, Host
  PROVE  TypedStacks'
<1>1. ASSUME NEW f \in Entries, NEW args \in [1..Type(f).params -> Val], Invoke(f, args)
      PROVE  TypedStacks'
  <2>1. Type(f).params \in Nat
    BY FuncsAssumption DEF Type
  <2>2. args \in Seq(Val)
    BY <2>1, SeqDef
  <2>3. frames' = <<DummyFrame>> /\ frames' \in Seq(Frame)
    BY <1>1, NoPosType, SingletonType DEF Invoke
  <2>4. labels' \in Seq(Label) /\ locals' \in Seq(Val)
    BY <1>1, EmptySeq DEF Invoke
  <2>5. pc' \in Position /\ pc' = NoPos /\ phase' = "called"
    BY <1>1, NoPosType DEF Invoke
  <2>6. trap' \in 0..9 /\ exitCode' \in Nat
    BY <1>1 DEF Invoke, ResetOutcome, TrapNone
  <2>7. TypeInv'
    BY <1>1, <2>2, <2>3, <2>4, <2>5, <2>6 DEF Invoke, TypedStacks, TypeInv
  <2>8. DummyBelow'
    BY <2>3, <2>5 DEF DummyBelow, running
  <2>9. QED
    BY <2>7, <2>8 DEF TypedStacks
<1>2. CASE InvokeEntry
  <2>1. callee \in Funcs /\ values \in Seq(Val) /\ pc \in Position
    BY FuncsAssumption DEF TypedStacks, TypeInv
  <2>2. phase = "called" /\ InvokeFunc(callee, values, pc)
    BY <1>2 DEF InvokeEntry
  <2>3. MayInvoke(pc)
    BY <2>2 DEF MayInvoke, TypedStacks, DummyBelow
  <2>4. QED
    BY <2>1, <2>2, <2>3, InvokeFuncType
<1>3. CASE Finish
  <2> DEFINE n == Type(callee).ret
  <2>1. callee \in Funcs /\ values \in Seq(Val) /\ Len(values) \in Nat /\ result \in Seq(Val)
    BY FuncsAssumption, LenProperties DEF TypedStacks, TypeInv
  <2>2. n \in 0..1 /\ n \in Nat
    BY <2>1, FuncsAssumption DEF Type
  <2>3. values' \in Seq(Val)
    BY <1>3, <2>1, <2>2, DropLastType DEF Finish
  <2>a. (n <= Len(values)) \in BOOLEAN
    <3>1. \A a, b \in Nat : (a <= b) \in BOOLEAN
      OBVIOUS
    <3>2. QED
      BY <2>1, <2>2, <3>1
  <2>4. ok' \in BOOLEAN
    <3>1. ok' = (n <= Len(values))
      BY <1>3, Zenon DEF Finish
    <3>2. QED
      BY <2>a, <3>1, Zenon
  <2>5. result' \in Seq(Val)
    <3>1. CASE ~ok'
      BY <1>3, <2>1, <3>1 DEF Finish
    <3>2. CASE ok'
      <4>1. n <= Len(values) /\ result' = SubSeq(values, Len(values) - n + 1, Len(values))
        BY <1>3, <3>2 DEF Finish
      <4>2. \A i \in (Len(values) - n + 1)..Len(values) : values[i] \in Val
        <5>1. ASSUME NEW i \in (Len(values) - n + 1)..Len(values) PROVE i \in 1..Len(values)
          BY <2>1, <2>2, <4>1
        <5>2. QED
          BY <2>1, <5>1, ElementOfSeq
      <4>3. Len(values) - n + 1 \in Int /\ Len(values) \in Int
        BY <2>1, <2>2
      <4>4. QED
        BY <4>1, <4>2, <4>3, SubSeqProperties
    <3>3. QED
      BY <3>1, <3>2
  <2>6. phase' = "idle" /\ UNCHANGED <<labels, frames, locals, pc, trap, exitCode, globals, callee>>
    BY <1>3 DEF Finish
  <2>7. TypeInv'
    BY <2>3, <2>4, <2>5, <2>6 DEF TypedStacks, TypeInv
  <2>8. QED
    BY <2>6, <2>7 DEF TypedStacks, DummyBelow, running
<1>4. QED
  BY <1>1, <1>2, <1>3 DEF Host

LEMMA InitType == Init => TypedStacks
<1> SUFFICES ASSUME Init PROVE TypedStacks
  OBVIOUS
<1>1. /\ values \in Seq(Val) /\ labels \in Seq(Label) /\ frames \in Seq(Frame)
      /\ locals \in Seq(Val) /\ result \in Seq(Val)
  BY EmptySeq DEF Init
<1>2. globals \in [Globals -> Val]
  BY ValAssumption DEF Init
<1>3. ok \in BOOLEAN
  BY Zenon DEF Init
<1>4. TypeInv
  BY <1>1, <1>2, <1>3, NoPosType DEF Init, TypeInv, TrapNone
<1>5. QED
  BY <1>4 DEF TypedStacks, DummyBelow, Init, running

LEMMA NextType == TypedStacks /\ [Next]_vars => TypedStacks'
<1> SUFFICES ASSUME TypedStacks, [Next]_vars PROVE TypedStacks'
  OBVIOUS
<1>1. CASE Plain
  BY <1>1, PlainType
<1>2. CASE Structured
  BY <1>2, StructuredType
<1>3. CASE Calling
  BY <1>3, CallingType
<1>4. CASE Host
  BY <1>4, HostType
<1>5. CASE UNCHANGED vars
  BY <1>5 DEF vars, TypedStacks, TypeInv, DummyBelow, running
<1>6. CASE Astray
  BY <1>6 DEF Astray, stacks, TypedStacks, TypeInv, DummyBelow, running
<1>7. QED
  BY <1>1, <1>2, <1>3, <1>4, <1>5, <1>6 DEF Next, Gone

(* Whatever a program does - the branches and returns the interpreter gets  *)
(* wrong included - its stacks and positions are well formed and the dummy  *)
(* frame that ends an invocation is never popped.                           *)
THEOREM TypeCorrect == Spec => [](TypeInv /\ DummyBelow)
<1>1. Spec => []TypedStacks
  BY InitType, NextType, PTL DEF Spec
<1>2. TypedStacks => TypeInv /\ DummyBelow
  BY DEF TypedStacks
<1>3. QED
  BY <1>1, <1>2, PTL

-----------------------------------------------------------------------------
(* Array bounds.  The handlers test the stacks of labels, frames and locals *)
(* for their capacity, the first two only after they have pushed: that this *)
(* is enough, for every capacity and every program.                         *)

(* StacksInBounds is inductive once it is known that an invocation starts   *)
(* with no label: a native entry goes on to "running" without a test.       *)
Bounded == StacksInBounds /\ (phase = "called" => labels = <<>>)

LEMMA Lengths ==
  ASSUME TypedStacks
  PROVE  /\ labels \in Seq(Label) /\ Len(labels) \in Nat
         /\ frames \in Seq(Frame) /\ Len(frames) \in Nat
         /\ locals \in Seq(Val) /\ Len(locals) \in Nat
         /\ values \in Seq(Val) /\ Len(values) \in Nat
BY LenProperties DEF TypedStacks, TypeInv

LEMMA CapsType == LabelCap \in Nat /\ FrameCap \in Nat /\ LocalCap \in Nat
                  /\ LabelCap > 0 /\ FrameCap > 1 /\ LocalCap > 0
BY BoundsAssumption

(* A step of a running invocation that pushes neither label, frame nor      *)
(* locals.                                                                  *)
LEMMA ShrinkBounded ==
  ASSUME TypedStacks, TypedStacks', Bounded, running, phase' \in {"running", "idle"},
         Len(labels') <= Len(labels), Len(frames') <= Len(frames),
         Len(locals') <= Len(locals)
  PROVE  Bounded'
<1>1. /\ Len(labels) \in Nat /\ Len(frames) \in Nat /\ Len(locals) \in Nat
      /\ Len(labels') \in Nat /\ Len(frames') \in Nat /\ Len(locals') \in Nat
  BY Lengths, LenProperties DEF TypedStacks, TypeInv
<1>2. Len(labels) < LabelCap /\ Len(frames) < FrameCap /\ Len(locals) < LocalCap
  BY DEF Bounded, StacksInBounds
<1>3. Len(labels') < LabelCap /\ Len(frames') < FrameCap /\ Len(locals') < LocalCap
  BY <1>1, <1>2, CapsType
<1>4. StacksInBounds'
  BY <1>1, <1>3, CapsType DEF StacksInBounds
<1>5. QED
  BY <1>4 DEF Bounded

(* The instructions of Plain work on values, globals and single locals.     *)
LEMMA LocalsLength ==
  ASSUME TypedStacks, NEW i \in Nat, SetLocal(i) \/ TeeLocal(i)
  PROVE  /\ running /\ pc.at # "dummy" /\ Len(locals') = Len(locals)
         /\ \A x \in 1..Len(locals) : x # LocalAt(i) => locals'[x] = locals[x]
<1>0. 0 \in Nat /\ 1 \in Nat
  OBVIOUS
<1>1. \E m \in 0..1 : Code(1, m)
  BY DEF SetLocal, TeeLocal
<1>2. /\ running /\ pc.at # "dummy" /\ 1 <= Len(values) /\ Len(values) \in Nat
  <2>1. PICK m \in 0..1 : Code(1, m)
    BY <1>1
  <2>2. m \in Nat
    OBVIOUS
  <2>3. QED
    BY <1>0, <2>1, <2>2, CodeFacts DEF Code
<1>3. WriteLocal(i, Top(0))
  BY DEF SetLocal, TeeLocal
<1>4. Top(0) \in Val
  BY <1>0, <1>2, TopType
<1>5. QED
  BY <1>2, <1>3, <1>4, WriteLocalType

LEMMA PlainStacks ==
  ASSUME TypedStacks, Plain
  PROVE  /\ running /\ phase' \in {"running", "idle"}
         /\ UNCHANGED <<labels, frames>> /\ Len(locals') = Len(locals)
<1>1. ASSUME NEW v \in Val,
             Const(v) \/ Unary(v) \/ Binary(v) \/ Load(v) \/ MemorySize(v) \/ MemoryGrow(v)
      PROVE  /\ running /\ phase' \in {"running", "idle"}
             /\ UNCHANGED <<labels, frames, locals>>
  BY <1>1 DEF Const, Unary, Binary, Load, MemorySize, MemoryGrow, Code, CodeAt, May, Replace,
              Continue, outcome, running
<1>2. ASSUME Drop \/ Select \/ Store
      PROVE  /\ running /\ phase' \in {"running", "idle"}
             /\ UNCHANGED <<labels, frames, locals>>
  BY <1>2 DEF Drop, Select, Store, Code, CodeAt, May, Replace, Continue, outcome, running
<1>3. ASSUME \/ Unreachable
             \/ \E n \in 1..2 : OutOfBounds(n) \/ \E v \in 0..1 : Compare(n, v)
             \/ \E t \in DivTraps : DivTrap(t)
             \/ \E t \in TruncTraps : TruncTrap(t)
      PROVE  /\ running /\ phase' \in {"running", "idle"}
             /\ UNCHANGED <<labels, frames, locals>>
  BY <1>3 DEF Unreachable, OutOfBounds, Compare, DivTrap, TruncTrap, Code, CodeAt, May, Fail,
              Replace, Continue, outcome, stacks, running
<1>4. ASSUME NEW i \in 0..(LocalCap - 1), GetLocal(i)
      PROVE  /\ running /\ phase' \in {"running", "idle"}
             /\ UNCHANGED <<labels, frames, locals>>
  BY <1>4 DEF GetLocal, Code, CodeAt, May, Replace, Continue, outcome, running
<1>5. ASSUME NEW i \in 0..(LocalCap - 1), SetLocal(i) \/ TeeLocal(i)
      PROVE  /\ running /\ phase' \in {"running", "idle"}
             /\ UNCHANGED <<labels, frames>> /\ Len(locals') = Len(locals)
  <2>1. i \in Nat
    OBVIOUS
  <2>2. Len(locals') = Len(locals)
    BY <1>5, <2>1, LocalsLength
  <2>3. QED
    BY <1>5, <2>2 DEF SetLocal, TeeLocal, Code, CodeAt, May, Continue, outcome, running
<1>6. ASSUME NEW g \in Globals, GetGlobal(g) \/ SetGlobal(g)
      PROVE  /\ running /\ phase' \in {"running", "idle"}
             /\ UNCHANGED <<labels, frames, locals>>
  BY <1>6 DEF GetGlobal, SetGlobal, Code, CodeAt, May, Replace, Continue, outcome, running
<1>7. QED
  BY <1>1, <1>2, <1>3, <1>4, <1>5, <1>6 DEF Plain

LEMMA PlainBounded ==
  ASSUME TypedStacks, TypedStacks', Bounded, Plain
  PROVE  Bounded'
<1>1. /\ running /\ phase' \in {"running", "idle"}
      /\ UNCHANGED <<labels, frames>> /\ Len(locals') = Len(locals)
  BY PlainStacks
<1>2. /\ Len(labels') <= Len(labels) /\ Len(frames') <= Len(frames)
      /\ Len(locals') <= Len(locals)
  BY <1>1, Lengths
<1>3. QED
  BY <1>1, <1>2, ShrinkBounded

-----------------------------------------------------------------------------
(* The test after pushLabel sees the stack that the push has just filled.   *)
LEMMA PushLabelBounded ==
  ASSUME TypedStacks, TypedStacks', Bounded, running, NEW label, NEW target,
         PushLabel(label, target)
  PROVE  Bounded'
<1>1. /\ Len(labels) \in Nat /\ Len(frames) \in Nat /\ Len(locals) \in Nat
      /\ labels \in Seq(Label)
  BY Lengths
<1>2. Len(labels) < LabelCap /\ Len(frames) < FrameCap /\ Len(locals) < LocalCap
  BY DEF Bounded, StacksInBounds
<1>3. labels' = Append(labels, label) /\ UNCHANGED <<frames, locals>>
  BY DEF PushLabel
<1>4. Len(labels') = Len(labels) + 1
  BY <1>1, <1>3
<1>5. Len(labels') <= LabelCap
  BY <1>1, <1>2, <1>4, CapsType
<1>6. CASE Full(labels', LabelCap)
  <2>1. phase' = "idle"
    BY <1>6 DEF PushLabel, Fail
  <2>2. QED
    BY <1>1, <1>2, <1>3, <1>5, <2>1, CapsType DEF Bounded, StacksInBounds, running
<1>7. CASE ~Full(labels', LabelCap)
  <2>1. Len(labels') < LabelCap
    BY <1>1, <1>4, <1>7, CapsType DEF Full
  <2>2. phase' = "running"
    BY <1>7 DEF PushLabel, Continue, outcome, running
  <2>3. QED
    BY <1>1, <1>2, <1>3, <1>5, <2>1, <2>2, CapsType DEF Bounded, StacksInBounds, running
<1>8. QED
  BY <1>6, <1>7

LEMMA DropLength ==
  ASSUME NEW S, NEW s \in Seq(S), NEW n \in Nat
  PROVE  Len(DropLast(s, n)) <= Len(s) /\ Len(AtMost(s, n)) <= Len(s)
<1>1. Len(s) \in Nat
  BY LenProperties
<1>2. Len(DropLast(s, n)) = IF n < Len(s) THEN Len(s) - n ELSE 0
  BY DropLastType
<1>3. Len(AtMost(s, n)) = IF Len(s) > n THEN n ELSE Len(s)
  BY AtMostType
<1>4. QED
  BY <1>1, <1>2, <1>3

LEMMA LeaveLocals ==
  ASSUME TypedStacks, running, pc.at # "dummy"
  PROVE  Len(DropLocals(Last(frames))) <= Len(locals)
<1>1. Last(frames).localSize \in Nat
  BY RunningFacts DEF Frame
<1>2. QED
  BY <1>1, Lengths, DropLength DEF DropLocals

LEMMA OpEndBounded ==
  ASSUME TypedStacks, TypedStacks', Bounded, running, pc.at # "dummy", OpEnd
  PROVE  Bounded'
<1>1. /\ labels \in Seq(Label) /\ frames \in Seq(Frame) /\ 1 \in Nat
      /\ Len(labels) \in Nat /\ Len(frames) \in Nat /\ Len(locals) \in Nat
  BY Lengths
<1>2. Len(DropLast(labels, 1)) <= Len(labels) /\ Len(DropLast(frames, 1)) <= Len(frames)
  BY <1>1, DropLength
<1>3. Len(labels') <= Len(labels)
  BY <1>1, <1>2 DEF OpEnd
<1>4. Len(frames') <= Len(frames)
  BY <1>1, <1>2 DEF OpEnd
<1>5. Len(locals') <= Len(locals)
  BY <1>1, LeaveLocals DEF OpEnd
<1>6. phase' = "running"
  BY DEF OpEnd, Continue, outcome, running
<1>7. QED
  BY <1>3, <1>4, <1>5, <1>6, ShrinkBounded

LEMMA ReturnBounded ==
  ASSUME TypedStacks, TypedStacks', Bounded, Return
  PROVE  Bounded'
<1>1. phase = "running" /\ pc.at = "any"
  BY DEF Return, MayReturn, May
<1>2. running /\ pc.at # "dummy"
  BY <1>1 DEF running
<1>3. /\ labels \in Seq(Label) /\ frames \in Seq(Frame) /\ 1 \in Nat
      /\ Last(frames).labelStackSize \in Nat
  BY <1>2, Lengths, RunningFacts DEF Frame
<1>4. Len(labels') <= Len(labels)
  BY <1>3, DropLength DEF Return
<1>5. Len(frames') <= Len(frames)
  BY <1>3, DropLength DEF Return
<1>6. Len(locals') <= Len(locals)
  BY <1>2, LeaveLocals DEF Return
<1>7. phase' = "running"
  BY <1>1 DEF Return, Continue, outcome
<1>8. QED
  BY <1>2, <1>4, <1>5, <1>6, <1>7, ShrinkBounded

LEMMA BreakBounded ==
  ASSUME TypedStacks, TypedStacks', Bounded, running, NEW k \in Nat, NEW vals,
         Break(k, vals)
  PROVE  Bounded'
<1>1. k + 1 \in Nat
  OBVIOUS
<1>2. Len(labels') <= Len(labels)
  BY <1>1, Lengths, DropLength DEF Break, Unwind
<1>3. UNCHANGED <<frames, locals>> /\ phase' = "running"
  BY DEF Break, Continue, outcome, running
<1>4. Len(frames') <= Len(frames) /\ Len(locals') <= Len(locals)
  BY <1>3, Lengths
<1>5. QED
  BY <1>2, <1>3, <1>4, ShrinkBounded

LEMMA StructuredBounded ==
  ASSUME TypedStacks, TypedStacks', Bounded, Structured
  PROVE  Bounded'
<1>0. 0 \in Nat /\ 1 \in Nat
  OBVIOUS
<1>1. ASSUME NEW r \in 0..1, Block(r) PROVE Bounded'
  BY <1>1, PushLabelBounded DEF Block, Code, CodeAt, May, running
<1>2. ASSUME NEW r \in 0..1, Loop(r) PROVE Bounded'
  BY <1>2, PushLabelBounded DEF Loop, CodeAt, May, running
<1>3. ASSUME NEW r \in 0..1, NEW hasElse \in BOOLEAN, If(r, hasElse) PROVE Bounded'
  BY <1>3, PushLabelBounded DEF If, Code, CodeAt, May, running
<1>4. CASE End
  BY <1>4, OpEndBounded DEF End, CodeAt, May, running
<1>5. CASE EndOfFrame
  BY <1>5, OpEndBounded DEF EndOfFrame, running
<1>6. CASE EnterBody
  BY <1>6, PushLabelBounded DEF EnterBody, running
<1>7. CASE EndOfPc
  <2>1. running /\ phase' \in {"running", "idle"} /\ UNCHANGED <<labels, frames, locals>>
    BY <1>7 DEF EndOfPc, Fail, stacks, running
  <2>2. /\ Len(labels') <= Len(labels) /\ Len(frames') <= Len(frames)
        /\ Len(locals') <= Len(locals)
    BY <2>1, Lengths
  <2>3. QED
    BY <2>1, <2>2, ShrinkBounded
<1>8. CASE Return
  BY <1>8, ReturnBounded
<1>9. ASSUME NEW k \in 0..(MaxDepth - 1), Br(k) PROVE Bounded'
  <2>1. k \in Nat
    OBVIOUS
  <2>2. QED
    BY <1>9, <2>1, BreakBounded DEF Br, Code, CodeAt, May, running
<1>10. ASSUME NEW k \in 0..(MaxDepth - 1), BrIf(k) PROVE Bounded'
  <2>1. k \in Nat
    OBVIOUS
  <2>2. running
    BY <1>10 DEF BrIf, Code, CodeAt, May, running
  <2>3. CASE Break(k, DropLast(values, 1))
    BY <2>1, <2>2, <2>3, BreakBounded
  <2>4. CASE Replace(1, <<>>)
    <3>1. UNCHANGED <<labels, frames, locals>> /\ phase' = "running"
      BY <2>2, <2>4 DEF Replace, Continue, outcome, running
    <3>2. /\ Len(labels') <= Len(labels) /\ Len(frames') <= Len(frames)
          /\ Len(locals') <= Len(locals)
      BY <3>1, Lengths
    <3>3. QED
      BY <2>2, <3>1, <3>2, ShrinkBounded
  <2>5. QED
    BY <1>10, <2>3, <2>4 DEF BrIf
<1>11. ASSUME NEW k \in 0..(MaxDepth - 1), NEW vec \in Vectors(MaxDepth), BrTable(vec, k)
       PROVE Bounded'
  <2>1. k \in Nat /\ running
    <3>1. k \in Nat
      OBVIOUS
    <3>2. QED
      BY <1>11, <3>1 DEF BrTable, Code, CodeAt, May, running
  <2>2. Break(IF Top(0) < Len(vec) THEN vec[Top(0) + 1] ELSE k, DropLast(values, 1))
    BY <1>11 DEF BrTable
  <2>3. (IF Top(0) < Len(vec) THEN vec[Top(0) + 1] ELSE k) \in Nat
    BY <1>11, <2>1, BrTableTarget
  <2>4. QED
    BY <2>1, <2>2, <2>3, BreakBounded
<1>12. QED
  BY <1>1, <1>2, <1>3, <1>4, <1>5, <1>6, <1>7, <1>8, <1>9, <1>10, <1>11 DEF Structured

-----------------------------------------------------------------------------
LEMMA ConcatLength ==
  ASSUME NEW S, NEW s \in Seq(S), NEW a \in Seq(S), NEW b \in Seq(S)
  PROVE  Len(s \o a \o b) = Len(s) + Len(a) + Len(b)
<1>1. s \o a \in Seq(S)
  BY ConcatProperties
<1>2. Len(s \o a) = Len(s) + Len(a)
  BY ConcatProperties
<1>3. Len((s \o a) \o b) = Len(s \o a) + Len(b)
  BY <1>1, ConcatProperties
<1>4. QED
  BY <1>2, <1>3

(* The frame is pushed before anything is tested, and stays on the stack    *)
(* when a test fails: the invocation then ends.                             *)
LEMMA InvokeBounded ==
  ASSUME TypedStacks, TypedStacks', Bounded, NEW f \in Funcs, NEW vals \in Seq(Val),
         NEW return, MayInvoke(return), InvokeFunc(f, vals, return)
  PROVE  Bounded'
<1>1. /\ Len(labels) \in Nat /\ Len(frames) \in Nat /\ Len(locals) \in Nat
      /\ frames \in Seq(Frame) /\ locals \in Seq(Val)
  BY Lengths
<1>2. Len(labels) < LabelCap /\ Len(frames) < FrameCap /\ Len(locals) < LocalCap
  <2>1. CASE running
    BY <2>1 DEF Bounded, StacksInBounds
  <2>2. CASE phase = "called"
    <3>1. frames = <<DummyFrame>> /\ labels = <<>>
      BY <2>2 DEF TypedStacks, DummyBelow, Bounded
    <3>2. Len(frames) = 1 /\ Len(labels) = 0
      BY <3>1
    <3>3. QED
      BY <3>2, CapsType DEF Bounded, StacksInBounds
  <2>3. QED
    BY <2>1, <2>2 DEF MayInvoke
<1>3. CASE f \in Natives
  <2>1. UNCHANGED <<labels, frames, locals>> /\ phase' \in {"running", "idle"}
    BY <1>3 DEF InvokeFunc, InvokeNative
  <2>2. QED
    BY <1>1, <1>2, <2>1, CapsType DEF Bounded, StacksInBounds, running
<1>4. CASE f \notin Natives
  <2> DEFINE frame == NewFrame(f, return, Len(vals))
  <2>1. InvokeWasm(f, vals, return) /\ (Params[f] <= Len(vals) \/ LocalsFull(f))
    BY <1>4 DEF InvokeFunc, Invokable
  <2>2. frames' = Append(frames, frame) /\ labels' = labels
    BY <2>1 DEF InvokeWasm
  <2>3. Len(frames') = Len(frames) + 1
    BY <1>1, <2>2
  <2>4. frame.localSize = Params[f] + Locals[f] /\ Params[f] \in Nat /\ Locals[f] \in Nat
    BY FuncsAssumption DEF NewFrame
  <2>5. CASE LocalsFull(f)
    <3>1. locals' = locals /\ phase' = "idle"
      BY <2>1, <2>5 DEF InvokeWasm, Fail
    <3>2. QED
      BY <1>1, <1>2, <2>2, <2>3, <3>1, CapsType DEF Bounded, StacksInBounds, running
  <2>6. CASE ~LocalsFull(f)
    <3>1. /\ locals' = locals \o Arguments(f, vals) \o Zeros(Locals[f])
          /\ \/ Full(frames', FrameCap) /\ phase' = "idle"
             \/ ~Full(frames', FrameCap) /\ phase' = "running"
      BY <2>1, <2>6 DEF InvokeWasm, Fail
    <3>2. /\ Arguments(f, vals) \in Seq(Val) /\ Len(Arguments(f, vals)) = Params[f]
          /\ Zeros(Locals[f]) \in Seq(Val) /\ Len(Zeros(Locals[f])) = Locals[f]
      BY <2>1, <2>6, ArgumentsType
    <3>a. Len(locals \o Arguments(f, vals) \o Zeros(Locals[f]))
            = Len(locals) + Len(Arguments(f, vals)) + Len(Zeros(Locals[f]))
      <4>1. \A a, b \in Seq(Val) :
              Len(locals \o a \o b) = Len(locals) + Len(a) + Len(b)
        BY <1>1, ConcatLength
      <4>2. QED
        BY <3>2, <4>1
    <3>3. Len(locals') = Len(locals) + Params[f] + Locals[f]
      BY <3>1, <3>2, <3>a
    <3>4. \/ Params[f] + Locals[f] = 0
          \/ Len(locals) + Params[f] + Locals[f] < LocalCap
      BY <1>1, <2>4, <2>6, CapsType DEF LocalsFull
    <3>5. Len(locals') < LocalCap
      BY <1>1, <1>2, <2>4, <3>3, <3>4, CapsType
    <3>6. Len(frames') < FrameCap \/ phase' = "idle"
      BY <1>1, <2>3, <3>1, CapsType DEF Full
    <3>7. phase' # "called"
      BY <3>1
    <3>8. QED
      BY <1>1, <1>2, <2>2, <2>3, <3>5, <3>6, <3>7, CapsType DEF Bounded, StacksInBounds, running
  <2>7. QED
    BY <2>5, <2>6
<1>5. QED
  BY <1>3, <1>4

LEMMA CallingBounded ==
  ASSUME TypedStacks, TypedStacks', Bounded, Calling
  PROVE  Bounded'
<1>0. 1 \in Nat
  OBVIOUS
<1>1. ASSUME NEW f \in Funcs, Call(f) PROVE Bounded'
  <2>1. MayInvoke(After(Params[f], Ret[f])) /\ InvokeFunc(f, values, After(Params[f], Ret[f]))
    BY <1>1 DEF MayInvoke, Call, Code, CodeAt, May, running
  <2>2. QED
    BY <2>1, Lengths, InvokeBounded
<1>2. ASSUME NEW t \in Types, CallIndirect(t) PROVE Bounded'
  <2> DEFINE vals == DropLast(values, 1)
             f == Callee
             return == After(t.params + 1, t.ret)
  <2>1. MayInvoke(return) /\ running
    BY <1>2 DEF MayInvoke, CallIndirect, Code, CodeAt, May, running
  <2>2. CASE ~Called(t)
    <3>1. UNCHANGED <<labels, frames, locals>> /\ phase' = "idle"
      BY <1>2, <2>2 DEF CallIndirect, Fail
    <3>2. /\ Len(labels') <= Len(labels) /\ Len(frames') <= Len(frames)
          /\ Len(locals') <= Len(locals)
      BY <3>1, Lengths
    <3>3. QED
      BY <2>1, <3>1, <3>2, ShrinkBounded
  <2>3. CASE Called(t)
    <3>1. InvokeFunc(f, vals, return)
      BY <1>2, <2>3 DEF CallIndirect
    <3>2. vals \in Seq(Val)
      BY <1>0, DropValuesType
    <3>3. f \in Funcs
      BY <1>2, <2>3, IndirectCallee
    <3>4. QED
      BY <2>1, <3>1, <3>2, <3>3, InvokeBounded
  <2>4. QED
    BY <2>2, <2>3
<1>3. QED
  BY <1>1, <1>2 DEF Calling

LEMMA HostBounded ==
  ASSUME TypedStacks, TypedStacks', Bounded, Host
  PROVE  Bounded'
<1>1. ASSUME NEW f, NEW args, Invoke(f, args) PROVE Bounded'
  <2>1. labels' = <<>> /\ locals' = <<>> /\ frames' = <<DummyFrame>> /\ phase' = "called"
    BY <1>1 DEF Invoke
  <2>2. Len(labels') = 0 /\ Len(locals') = 0 /\ Len(frames') = 1
    BY <2>1
  <2>3. QED
    BY <2>1, <2>2, CapsType DEF Bounded, StacksInBounds, running
<1>2. CASE InvokeEntry
  <2>1. callee \in Funcs /\ values \in Seq(Val)
    BY FuncsAssumption DEF TypedStacks, TypeInv
  <2>2. phase = "called" /\ InvokeFunc(callee, values, pc)
    BY <1>2 DEF InvokeEntry
  <2>3. MayInvoke(pc)
    BY <2>2 DEF MayInvoke, TypedStacks, DummyBelow
  <2>4. QED
    BY <2>1, <2>2, <2>3, InvokeBounded
<1>3. CASE Finish
  <2>1. running /\ phase' = "idle" /\ UNCHANGED <<labels, frames, locals>>
    BY <1>3 DEF Finish, running
  <2>2. /\ Len(labels') <= Len(labels) /\ Len(frames') <= Len(frames)
        /\ Len(locals') <= Len(locals)
    BY <2>1, Lengths
  <2>3. QED
    BY <2>1, <2>2, ShrinkBounded
<1>4. QED
  BY <1>1, <1>2, <1>3 DEF Host

-----------------------------------------------------------------------------
(* The stacks of labels, frames and locals are never pushed past their      *)
(* arrays, up to a first undefined step, although Op_block, Op_loop, Op_if  *)
(* and invoke push first and test full() afterwards: while instructions     *)
(* run, one push more always fits.  Whether a step is undefined (set_local  *)
(* through the frame of another function) is the matter of NeverAstray.     *)
THEOREM StacksBounded == Spec => []StacksInBounds
<1> DEFINE BInv == TypedStacks /\ Bounded
<1>1. Init => BInv
  <2> SUFFICES ASSUME Init PROVE BInv
    OBVIOUS
  <2>1. Len(labels) = 0 /\ Len(frames) = 0 /\ Len(locals) = 0 /\ phase = "idle"
    BY DEF Init
  <2>2. QED
    BY <2>1, InitType, CapsType DEF Bounded, StacksInBounds, running
<1>2. BInv /\ [Next]_vars => BInv'
  <2> SUFFICES ASSUME TypedStacks, Bounded, [Next]_vars PROVE BInv'
    OBVIOUS
  <2>0. TypedStacks'
    BY NextType
  <2>1. CASE Plain
    BY <2>0, <2>1, PlainBounded
  <2>2. CASE Structured
    BY <2>0, <2>2, StructuredBounded
  <2>3. CASE Calling
    BY <2>0, <2>3, CallingBounded
  <2>4. CASE Host
    BY <2>0, <2>4, HostBounded
  <2>5. CASE UNCHANGED vars
    BY <2>0, <2>5 DEF vars, Bounded, StacksInBounds, running
  <2>6. CASE Astray
    BY <2>0, <2>6 DEF Astray, stacks, Bounded, StacksInBounds, running
  <2>7. QED
    BY <2>1, <2>2, <2>3, <2>4, <2>5, <2>6 DEF Next, Gone
<1>3. BInv => StacksInBounds
  BY DEF Bounded
<1>4. QED
  BY <1>1, <1>2, <1>3, PTL DEF Spec

-----------------------------------------------------------------------------
(* Activations.  The handlers of the interpreter find labels, locals and    *)
(* the caller's code by counting stack entries.  That the counts are right: *)
(* for every program that branches to the label of a body only in the       *)
(* outermost activation (~BrOut), whatever its functions, nesting and stack *)
(* sizes.                                                                   *)

(* t begins with the first n entries of s.                                  *)
Keeps(s, t, n) == n <= Len(t) /\ \A x \in 1..n : t[x] = s[x]

(* A frame F whose code is at p and whose labels end at position end of ls: *)
(* the labels are those of the blocks around p, the body's own first.       *)
Body(f) == [loop |-> FALSE, res |-> Ret[f], base |-> 0]

Well(F, p, ls, end) ==
  /\ F.func \in Funcs /\ F.func \notin Natives /\ p.func = F.func
  /\ F.localSize = Params[F.func] + Locals[F.func]
  /\ end = F.labelStackSize + Len(p.ctl)
  /\ p.ctl # <<>> => p.ctl[1] = Body(F.func)
  /\ \A j \in 1..Len(p.ctl) :
       LabelOf(ls[F.labelStackSize + j], p.func, p.ctl[j], SubSeq(p.ctl, 1, j - 1))

(* The places between instructions and the blocks they are in, where n is   *)
(* the number of frames.                                                    *)
Placed(p, n) ==
  /\ p.at \notin {"dummy", "past"}
  /\ p.at \in {"entry", "exit"} => p.ctl = <<>>
  /\ p.at = "exit" => n = 2 /\ p.h = Ret[p.func]
  /\ p.at = "entry" => p.h = 0

(* The inductive invariant.  FrameOfCode, LabelsOfBlocks and LocalsOfFrames *)
(* are not inductive by themselves: they do not say that the end behind a   *)
(* body is reached in the outermost activation only, where a caller goes on *)
(* in the middle of its code, nor that deeper frames save larger sizes.     *)
Active(i) ==
  /\ Well(frames[i], PosOf(i), labels, LabelEnd(i))
  /\ LocalEnd(i) = frames[i].locals + frames[i].localSize
  /\ Suspended(i) => PosOf(i).at = "any"

Ordered ==
  \A i, j \in Acts : i <= j => /\ frames[i].labelStackSize <= frames[j].labelStackSize
                               /\ frames[i].locals <= frames[j].locals

Outermost ==
  /\ frames[2].labelStackSize = 0 /\ frames[2].locals = 0 /\ frames[2].func = callee
  /\ Placed(pc, Len(frames))

Nested ==
  /\ phase = "called" => labels = <<>> /\ locals = <<>>
  /\ running => /\ Len(frames) = 1 => labels = <<>> /\ locals = <<>>
                /\ Len(frames) >= 2 => Outermost
                /\ Ordered /\ \A i \in Acts : Active(i)

-----------------------------------------------------------------------------
(* Sequences and single activations.                                        *)

LEMMA PrefixOfPrefix ==
  ASSUME NEW S, NEW s \in Seq(S), NEW j \in 1..Len(s), NEW k \in 1..(j - 1)
  PROVE  LET t == SubSeq(s, 1, j - 1)
         IN /\ t \in Seq(S) /\ Len(t) = j - 1
            /\ t[k] = s[k] /\ SubSeq(t, 1, k - 1) = SubSeq(s, 1, k - 1)
<1> DEFINE t == SubSeq(s, 1, j - 1)
<1>1. Len(s) \in Nat /\ j - 1 \in Int /\ j - 1 <= Len(s) /\ k - 1 \in Int
      /\ k - 1 <= Len(s) /\ k - 1 <= j - 1
  BY LenProperties
<1>2. t \in Seq(S) /\ Len(t) = j - 1 /\ \A i \in 1..(j - 1) : t[i] = s[i]
  BY <1>1, PrefixType
<1>3. /\ SubSeq(t, 1, k - 1) \in Seq(S) /\ Len(SubSeq(t, 1, k - 1)) = k - 1
      /\ \A i \in 1..(k - 1) : SubSeq(t, 1, k - 1)[i] = t[i]
  BY <1>1, <1>2, PrefixType
<1>4. /\ SubSeq(s, 1, k - 1) \in Seq(S) /\ Len(SubSeq(s, 1, k - 1)) = k - 1
      /\ \A i \in 1..(k - 1) : SubSeq(s, 1, k - 1)[i] = s[i]
  BY <1>1, PrefixType
<1>5. \A i \in 1..(k - 1) : SubSeq(t, 1, k - 1)[i] = SubSeq(s, 1, k - 1)[i]
  BY <1>1, <1>2, <1>3, <1>4
<1>6. SubSeq(t, 1, k - 1) = SubSeq(s, 1, k - 1)
  BY <1>3, <1>4, <1>5, SeqEqual
<1>7. QED
  BY <1>2, <1>6

LEMMA PrefixOfAppend ==
  ASSUME NEW S, NEW s \in Seq(S), NEW e \in S, NEW j \in 1..(Len(s) + 1)
  PROVE  SubSeq(Append(s, e), 1, j - 1) = SubSeq(s, 1, j - 1)
<1> DEFINE t == Append(s, e)
<1>1. /\ t \in Seq(S) /\ Len(t) = Len(s) + 1 /\ \A i \in 1..Len(s) : t[i] = s[i]
  BY AppendType
<1>2. Len(s) \in Nat /\ j - 1 \in Int /\ j - 1 <= Len(s) /\ j - 1 <= Len(s) + 1
  BY LenProperties
<1>3. /\ SubSeq(t, 1, j - 1) \in Seq(S) /\ Len(SubSeq(t, 1, j - 1)) = j - 1
      /\ \A i \in 1..(j - 1) : SubSeq(t, 1, j - 1)[i] = t[i]
  BY <1>1, <1>2, PrefixType
<1>4. /\ SubSeq(s, 1, j - 1) \in Seq(S) /\ Len(SubSeq(s, 1, j - 1)) = j - 1
      /\ \A i \in 1..(j - 1) : SubSeq(s, 1, j - 1)[i] = s[i]
  BY <1>2, PrefixType
<1>5. \A i \in 1..(j - 1) : SubSeq(t, 1, j - 1)[i] = SubSeq(s, 1, j - 1)[i]
  BY <1>1, <1>2, <1>3, <1>4
<1>6. QED
  BY <1>3, <1>4, <1>5, SeqEqual

(* What lies above the labels of an activation does not concern it.         *)
LEMMA WellKeeps ==
  ASSUME NEW F \in Frame, NEW p \in Position, NEW ls, NEW lt, NEW end,
         Well(F, p, ls, end), \A x \in 1..end : lt[x] = ls[x]
  PROVE  Well(F, p, lt, end)
<1>1. F.labelStackSize \in Nat /\ p.ctl \in Seq(Control) /\ Len(p.ctl) \in Nat
  BY LenProperties DEF Frame, Position, Place
<1>2. \A j \in 1..Len(p.ctl) : F.labelStackSize + j \in 1..end
  BY <1>1 DEF Well
<1>3. QED
  BY <1>2 DEF Well

(* Only the blocks around a position matter.                                *)
LEMMA WellAround ==
  ASSUME NEW F, NEW p, NEW q, NEW ls, NEW end, Well(F, p, ls, end),
         q.func = p.func, q.ctl = p.ctl
  PROVE  Well(F, q, ls, end)
BY DEF Well

(* Leaving the block number j and all blocks in it.                         *)
LEMMA WellOuter ==
  ASSUME NEW F \in Frame, NEW p \in Position, NEW ls, NEW end, Well(F, p, ls, end),
         NEW j \in 1..Len(p.ctl), NEW q, q.func = p.func, q.ctl = SubSeq(p.ctl, 1, j - 1),
         NEW lt, \A x \in 1..(F.labelStackSize + (j - 1)) : lt[x] = ls[x]
  PROVE  Well(F, q, lt, F.labelStackSize + (j - 1))
<1>1. F.labelStackSize \in Nat /\ p.ctl \in Seq(Control) /\ Len(p.ctl) \in Nat /\ j \in Nat
      /\ j - 1 \in Int /\ j - 1 <= Len(p.ctl)
  BY LenProperties DEF Frame, Position, Place
<1>2. /\ Len(q.ctl) = j - 1 /\ \A x \in 1..(j - 1) : q.ctl[x] = p.ctl[x]
  BY <1>1, PrefixType
<1>3. ASSUME NEW x \in 1..Len(q.ctl)
      PROVE  LabelOf(lt[F.labelStackSize + x], q.func, q.ctl[x], SubSeq(q.ctl, 1, x - 1))
  <2>1. x \in 1..(j - 1) /\ x \in 1..Len(p.ctl)
    BY <1>1, <1>2
  <2>2. SubSeq(q.ctl, 1, x - 1) = SubSeq(p.ctl, 1, x - 1)
    BY <1>1, <2>1, PrefixOfPrefix
  <2>3. F.labelStackSize + x \in 1..(F.labelStackSize + (j - 1))
    BY <1>1, <2>1
  <2>4. LabelOf(ls[F.labelStackSize + x], p.func, p.ctl[x], SubSeq(p.ctl, 1, x - 1))
    BY <2>1 DEF Well
  <2>5. QED
    BY <1>2, <2>1, <2>2, <2>3, <2>4
<1>4. q.ctl # <<>> => q.ctl[1] = Body(F.func)
  <2>1. ASSUME q.ctl # <<>> PROVE q.ctl[1] = Body(F.func)
    <3>1. q.ctl \in Seq(Control)
      BY <1>1, PrefixType
    <3>2. Len(q.ctl) \in Nat \ {0}
      BY <2>1, <3>1, EmptySeq
    <3>3. 1 \in 1..(j - 1) /\ 1 \in 1..Len(p.ctl)
      BY <1>1, <1>2, <3>2
    <3>4. p.ctl # <<>>
      BY <1>1, <3>3, EmptySeq
    <3>5. QED
      BY <1>2, <3>3, <3>4 DEF Well
  <2>2. QED
    BY <2>1
<1>5. QED
  BY <1>2, <1>3, <1>4 DEF Well

(* Entering one more block.                                                 *)
LEMMA WellInner ==
  ASSUME NEW F \in Frame, NEW p \in Position, NEW ls \in Seq(Label),
         Well(F, p, ls, Len(ls)), p.ctl # <<>>,
         NEW c \in Control, NEW q, q.func = p.func, q.ctl = Append(p.ctl, c),
         NEW L \in Label, LabelOf(L, p.func, c, p.ctl)
  PROVE  Well(F, q, Append(ls, L), Len(Append(ls, L)))
<1>1. F.labelStackSize \in Nat /\ p.ctl \in Seq(Control) /\ Len(p.ctl) \in Nat
  BY LenProperties DEF Frame, Position, Place
<1>2. /\ Len(q.ctl) = Len(p.ctl) + 1 /\ \A x \in 1..Len(p.ctl) : q.ctl[x] = p.ctl[x]
      /\ q.ctl[Len(p.ctl) + 1] = c
  BY <1>1, AppendType
<1>3. /\ Len(Append(ls, L)) = Len(ls) + 1 /\ \A x \in 1..Len(ls) : Append(ls, L)[x] = ls[x]
      /\ Append(ls, L)[Len(ls) + 1] = L /\ Len(ls) \in Nat
  BY AppendType, LenProperties
<1>4. Len(ls) = F.labelStackSize + Len(p.ctl)
  BY DEF Well
<1>5. ASSUME NEW x \in 1..Len(q.ctl)
      PROVE  LabelOf(Append(ls, L)[F.labelStackSize + x], q.func, q.ctl[x],
                     SubSeq(q.ctl, 1, x - 1))
  <2>1. x \in 1..(Len(p.ctl) + 1)
    BY <1>2
  <2>2. SubSeq(q.ctl, 1, x - 1) = SubSeq(p.ctl, 1, x - 1)
    BY <1>1, <2>1, PrefixOfAppend
  <2>3. CASE x <= Len(p.ctl)
    <3>1. x \in 1..Len(p.ctl) /\ F.labelStackSize + x \in 1..Len(ls)
      BY <1>1, <1>4, <2>1, <2>3
    <3>2. LabelOf(ls[F.labelStackSize + x], p.func, p.ctl[x], SubSeq(p.ctl, 1, x - 1))
      BY <3>1 DEF Well
    <3>3. QED
      BY <1>2, <1>3, <2>2, <3>1, <3>2
  <2>4. CASE ~(x <= Len(p.ctl))
    <3>1. x = Len(p.ctl) + 1 /\ F.labelStackSize + x = Len(ls) + 1 /\ x - 1 = Len(p.ctl)
      BY <1>1, <1>4, <2>1, <2>4
    <3>2. SubSeq(p.ctl, 1, x - 1) = p.ctl
      BY <1>1, <3>1, SubSeqFull
    <3>3. QED
      BY <1>2, <1>3, <2>2, <3>1, <3>2
  <2>5. QED
    BY <2>3, <2>4
<1>6. q.ctl[1] = Body(F.func)
  <2>1. 1 \in 1..Len(p.ctl)
    <3>1. Len(p.ctl) \in Nat \ {0}
      BY <1>1, EmptySeq
    <3>2. QED
      BY <3>1
  <2>2. QED
    BY <1>2, <2>1 DEF Well
<1>7. Len(Append(ls, L)) = F.labelStackSize + Len(q.ctl)
  BY <1>1, <1>2, <1>3, <1>4
<1>8. QED
  BY <1>5, <1>6, <1>7 DEF Well

-----------------------------------------------------------------------------
(* Every step of a running invocation that does not stop it works in the    *)
(* innermost activation, leaves it or enters a new one.                     *)

Inner == Last(frames)

Stays ==
  /\ running /\ Len(frames) >= 2 /\ phase' = "running" /\ UNCHANGED <<frames, callee>>
  /\ Keeps(labels, labels', Inner.labelStackSize)
  /\ Len(locals') = Len(locals) /\ Keeps(locals, locals', Inner.locals)
  /\ Well(Inner, pc', labels', Len(labels')) /\ Placed(pc', Len(frames))

Leaves ==
  /\ running /\ Len(frames) >= 2 /\ phase' = "running" /\ UNCHANGED callee
  /\ frames' = DropLast(frames, 1) /\ pc' = Inner.pre
  /\ Keeps(labels, labels', Inner.labelStackSize) /\ Len(labels') = Inner.labelStackSize
  /\ Keeps(locals, locals', Inner.locals) /\ Len(locals') = Inner.locals

EntersFor(f, return, size) ==
  /\ phase' = "running" /\ UNCHANGED <<labels, callee>>
  /\ frames' = Append(frames, NewFrame(f, return, size)) /\ pc' = Pos("entry", f, 0)
  /\ Keeps(locals, locals', Len(locals)) /\ Len(locals') = Len(locals) + Params[f] + Locals[f]
  /\ IF running THEN /\ Len(frames) >= 2 /\ return.at = "any"
                     /\ return.func = pc.func /\ return.ctl = pc.ctl
                ELSE phase = "called" /\ f = callee

(* What the invariant says of the activations.                              *)
LEMMA ActFacts ==
  ASSUME TypedStacks, Nested, running, NEW i \in Acts
  PROVE  /\ Len(frames) \in Nat /\ Len(frames) >= 2 /\ i \in Nat /\ i \in 1..Len(frames)
         /\ frames[i] \in Frame /\ PosOf(i) \in Position /\ Active(i)
         /\ IF i = Len(frames)
            THEN PosOf(i) = pc /\ LabelEnd(i) = Len(labels) /\ LocalEnd(i) = Len(locals)
                 /\ frames[i] = Inner
            ELSE /\ i + 1 \in Acts /\ i < Len(frames) /\ frames[i + 1] \in Frame
                 /\ PosOf(i) = frames[i + 1].pre
                 /\ LabelEnd(i) = frames[i + 1].labelStackSize
                 /\ LocalEnd(i) = frames[i + 1].locals
<1>1. frames \in Seq(Frame) /\ Len(frames) \in Nat /\ pc \in Position
  BY LenProperties DEF TypedStacks, TypeInv
<1>2. Len(frames) >= 2 /\ i \in Nat /\ i \in 1..Len(frames)
  BY <1>1 DEF Acts
<1>3. frames[i] \in Frame /\ Active(i)
  BY <1>1, <1>2, ElementOfSeq DEF Nested
<1>4. CASE i = Len(frames)
  BY <1>1, <1>2, <1>3, <1>4 DEF PosOf, LabelEnd, LocalEnd, Suspended, Inner, Last
<1>5. CASE i # Len(frames)
  <2>1. i < Len(frames) /\ i + 1 \in 1..Len(frames) /\ i + 1 \in Acts
    BY <1>1, <1>2, <1>5 DEF Acts
  <2>2. frames[i + 1] \in Frame
    BY <1>1, <2>1, ElementOfSeq
  <2>3. frames[i + 1].pre \in Position
    BY <2>2 DEF Frame
  <2>4. QED
    BY <1>1, <1>2, <1>3, <1>5, <2>1, <2>2, <2>3 DEF PosOf, LabelEnd, LocalEnd, Suspended
<1>6. QED
  BY <1>4, <1>5

(* The innermost activation.                                                *)
LEMMA InnerFacts ==
  ASSUME TypedStacks, Nested, running, Len(frames) >= 2
  PROVE  /\ Inner \in Frame /\ pc \in Position /\ Outermost
         /\ Well(Inner, pc, labels, Len(labels))
         /\ Len(locals) = Inner.locals + Inner.localSize
         /\ Inner.labelStackSize \in Nat /\ Inner.locals \in Nat /\ Inner.localSize \in Nat
         /\ Len(labels) \in Nat /\ Len(locals) \in Nat /\ Len(frames) \in Nat
         /\ Inner.labelStackSize <= Len(labels) /\ Inner.locals <= Len(locals)
         /\ Inner = frames[Len(frames)] /\ Len(frames) \in Acts
         /\ pc.ctl \in Seq(Control) /\ pc.h \in Nat /\ pc.func \in Funcs
<1>1. Len(frames) \in Nat /\ Len(labels) \in Nat /\ Len(locals) \in Nat
  BY LenProperties DEF TypedStacks, TypeInv
<1>2. Len(frames) \in Acts
  BY <1>1 DEF Acts
<1>3. /\ Inner \in Frame /\ pc \in Position
      /\ Well(Inner, pc, labels, Len(labels))
      /\ Len(locals) = Inner.locals + Inner.localSize /\ Inner = frames[Len(frames)]
  BY <1>2, ActFacts DEF Active
<1>4. Outermost
  BY DEF Nested
<1>5. /\ Inner.labelStackSize \in Nat /\ Inner.locals \in Nat /\ Inner.localSize \in Nat
      /\ pc.ctl \in Seq(Control) /\ pc.h \in Nat /\ Len(pc.ctl) \in Nat /\ pc.func \in Funcs
  BY <1>3, LenProperties DEF Frame, Position, Place, Well
<1>6. Inner.labelStackSize <= Len(labels) /\ Inner.locals <= Len(locals)
  BY <1>1, <1>3, <1>5 DEF Well
<1>7. QED
  BY <1>1, <1>2, <1>3, <1>4, <1>5, <1>6

LEMMA NestedStays ==
  ASSUME TypedStacks, Nested, Stays
  PROVE  Nested'
<1>1. running /\ running' /\ Len(frames) >= 2 /\ UNCHANGED <<frames, callee>>
  BY DEF Stays, running
<1>2. /\ Inner \in Frame /\ Outermost /\ Inner = frames[Len(frames)] /\ Len(frames) \in Nat
      /\ Len(locals) = Inner.locals + Inner.localSize
      /\ Len(frames) \in Acts
  BY <1>1, InnerFacts
<1>3. ASSUME NEW i \in Acts PROVE Active(i)'
  <2>1. CASE i = Len(frames)
    BY <1>1, <1>2, <2>1 DEF Stays, Active, PosOf, LabelEnd, LocalEnd, Suspended
  <2>2. CASE i # Len(frames)
    <3>1. /\ i < Len(frames) /\ i + 1 \in Acts /\ frames[i] \in Frame /\ PosOf(i) \in Position
          /\ Active(i) /\ LabelEnd(i) = frames[i + 1].labelStackSize
          /\ frames[i + 1] \in Frame
      BY <1>1, <2>2, ActFacts
    <3>2. PosOf(i)' = PosOf(i) /\ LabelEnd(i)' = LabelEnd(i) /\ LocalEnd(i)' = LocalEnd(i)
          /\ Suspended(i)' = Suspended(i)
      BY <1>1, <3>1 DEF PosOf, LabelEnd, LocalEnd, Suspended
    <3>3. frames[i + 1].labelStackSize <= Inner.labelStackSize
      <4>1. i + 1 <= Len(frames) /\ Ordered
        BY <1>1, <1>2, <3>1 DEF Nested, Acts
      <4>2. QED
        BY <1>2, <3>1, <4>1 DEF Ordered
    <3>4. \A x \in 1..LabelEnd(i) : labels'[x] = labels[x]
      <4>1. LabelEnd(i) \in Nat /\ Inner.labelStackSize \in Nat
        BY <1>2, <3>1 DEF Frame
      <4>2. QED
        BY <3>1, <3>3, <4>1 DEF Stays, Keeps
    <3>5. Well(frames[i], PosOf(i), labels', LabelEnd(i))
      BY <3>1, <3>4, WellKeeps DEF Active
    <3>6. QED
      BY <1>1, <3>1, <3>2, <3>5 DEF Active
  <2>3. QED
    BY <2>1, <2>2
<1>4. Outermost'
  BY <1>1, <1>2 DEF Stays, Outermost
<1>5. Ordered' /\ Acts' = Acts
  BY <1>1 DEF Nested, Ordered, Acts
<1>6. ~(phase' = "called") /\ ~(Len(frames') = 1)
  BY <1>1, <1>2 DEF running
<1>7. \A i \in Acts' : Active(i)'
  BY <1>3, <1>5
<1>8. QED
  BY <1>4, <1>5, <1>6, <1>7 DEF Nested

LEMMA NestedLeaves ==
  ASSUME TypedStacks, TypedStacks', Nested, Leaves
  PROVE  Nested'
<1>1. running /\ running' /\ ~(phase' = "called") /\ Len(frames) >= 2 /\ UNCHANGED callee
  BY DEF Leaves, running
<1>2. /\ Inner \in Frame /\ Outermost /\ Inner = frames[Len(frames)] /\ Len(frames) \in Nat
      /\ Inner.labelStackSize \in Nat /\ Inner.locals \in Nat
  BY <1>1, InnerFacts
<1>3. frames \in Seq(Frame) /\ frames' = DropLast(frames, 1)
  BY DEF Leaves, TypedStacks, TypeInv
<1>4. /\ Len(frames') = Len(frames) - 1
      /\ \A i \in 1..(Len(frames) - 1) : frames'[i] = frames[i]
  BY <1>1, <1>3, PoppedType
<1>5. ASSUME NEW i \in Acts'
      PROVE  Active(i)' /\ PosOf(i)' = PosOf(i) /\ PosOf(i).at = "any"
  <2>1. i \in Nat /\ i >= 2 /\ i < Len(frames) /\ i \in Acts /\ frames'[i] = frames[i]
    BY <1>2, <1>4 DEF Acts
  <2>2. /\ i + 1 \in Acts /\ frames[i] \in Frame /\ PosOf(i) \in Position
        /\ Active(i) /\ frames[i + 1] \in Frame
        /\ PosOf(i) = frames[i + 1].pre /\ LabelEnd(i) = frames[i + 1].labelStackSize
        /\ LocalEnd(i) = frames[i + 1].locals
    BY <1>1, <2>1, ActFacts
  <2>3. PosOf(i)' = PosOf(i) /\ LabelEnd(i)' = LabelEnd(i) /\ LocalEnd(i)' = LocalEnd(i)
    <3>1. CASE i = Len(frames) - 1
      <4>1. i + 1 = Len(frames) /\ ~Suspended(i)'
        BY <1>2, <1>4, <3>1 DEF Suspended
      <4>2. QED
        BY <1>2, <2>2, <4>1 DEF Leaves, PosOf, LabelEnd, LocalEnd
    <3>2. CASE i # Len(frames) - 1
      <4>1. Suspended(i)' /\ frames'[i + 1] = frames[i + 1]
        BY <1>2, <1>4, <2>1, <3>2 DEF Suspended
      <4>2. QED
        BY <2>2, <4>1 DEF PosOf, LabelEnd, LocalEnd
    <3>3. QED
      BY <3>1, <3>2
  <2>4. frames[i + 1].labelStackSize <= Inner.labelStackSize
    <3>1. Len(frames) \in Acts /\ i + 1 <= Len(frames) /\ Ordered
      BY <1>1, <1>2, <2>1 DEF Nested, Acts
    <3>2. QED
      BY <1>2, <2>2, <3>1 DEF Ordered
  <2>5. \A x \in 1..LabelEnd(i) : labels'[x] = labels[x]
    <3>1. LabelEnd(i) \in Nat
      BY <2>2 DEF Frame
    <3>2. QED
      BY <1>2, <2>2, <2>4, <3>1 DEF Leaves, Keeps
  <2>6. Well(frames[i], PosOf(i), labels', LabelEnd(i))
    BY <2>2, <2>5, WellKeeps DEF Active
  <2>7. PosOf(i).at = "any"
    BY <2>1, <2>2 DEF Active, Suspended
  <2>8. QED
    BY <2>1, <2>2, <2>3, <2>6, <2>7 DEF Active
<1>6. Ordered'
  <2>1. \A i \in Acts' : i \in Acts /\ frames'[i] = frames[i]
    BY <1>2, <1>4 DEF Acts
  <2>2. QED
    BY <1>1, <2>1 DEF Nested, Ordered
<1>7. ASSUME Len(frames') = 1 PROVE labels' = <<>> /\ locals' = <<>>
  <2>a. \A n \in Nat : n - 1 = 1 => n = 2
    OBVIOUS
  <2>1. Len(frames) = 2
    BY <1>2, <1>4, <1>7, <2>a
  <2>2. Inner.labelStackSize = 0 /\ Inner.locals = 0
    BY <1>2, <2>1 DEF Outermost
  <2>3. Len(labels') = 0 /\ Len(locals') = 0
    BY <2>2 DEF Leaves
  <2>4. labels' \in Seq(Label) /\ locals' \in Seq(Val)
    BY DEF TypedStacks, TypeInv
  <2>5. QED
    BY <2>3, <2>4, EmptySeq
<1>8. ASSUME Len(frames') >= 2 PROVE Outermost'
  <2>1. 2 \in 1..(Len(frames) - 1)
    BY <1>2, <1>4, <1>8
  <2>a. PICK i \in Acts' : i = Len(frames')
    BY <1>2, <1>4, <1>8 DEF Acts
  <2>2. frames'[2] = frames[2] /\ pc'.at = "any"
    <3>1. PosOf(i)' = pc'
      BY <1>4, <2>a DEF PosOf, Suspended
    <3>2. QED
      BY <1>4, <1>5, <2>1, <3>1
  <2>3. QED
    BY <1>1, <1>2, <2>2 DEF Outermost, Placed
<1>9. QED
  BY <1>1, <1>5, <1>6, <1>7, <1>8 DEF Nested

LEMMA NestedEnters ==
  ASSUME TypedStacks, Nested, NEW f \in Funcs \ Natives, NEW return \in Position,
         NEW size \in Nat, EntersFor(f, return, size)
  PROVE  Nested'
<1> DEFINE new == NewFrame(f, return, size)
           top == Len(frames) + 1
<1>1. running' /\ ~(phase' = "called") /\ UNCHANGED <<labels, callee>>
  BY DEF EntersFor, running
<1>2. /\ frames \in Seq(Frame) /\ labels \in Seq(Label) /\ locals \in Seq(Val)
      /\ Len(frames) \in Nat /\ Len(labels) \in Nat /\ Len(locals) \in Nat
      /\ Params[f] \in Nat /\ Locals[f] \in Nat
  BY LenProperties, FuncsAssumption DEF TypedStacks, TypeInv
<1>3. new \in Frame
  BY NewFrameType
<1>4. /\ Len(frames') = top /\ frames'[top] = new
      /\ \A i \in 1..Len(frames) : frames'[i] = frames[i]
  BY <1>2, <1>3, AppendType DEF EntersFor
<1>5. /\ new.func = f /\ new.pre = return /\ new.labelStackSize = Len(labels)
      /\ new.locals = Len(locals) /\ new.localSize = Params[f] + Locals[f]
  BY DEF NewFrame
<1>6. pc' = Pos("entry", f, 0)
  BY DEF EntersFor
<1>7. ASSUME NEW i \in Acts', i = top PROVE Active(i)'
  <2>1. Well(new, pc', labels, Len(labels))
    BY <1>2, <1>5, <1>6 DEF Well, Pos
  <2>2. Len(locals') = new.locals + new.localSize
    BY <1>2, <1>5 DEF EntersFor
  <2>3. PosOf(i)' = pc' /\ LabelEnd(i)' = Len(labels') /\ LocalEnd(i)' = Len(locals')
        /\ ~Suspended(i)'
    BY <1>2, <1>4, <1>7 DEF PosOf, LabelEnd, LocalEnd, Suspended
  <2>4. QED
    BY <1>1, <1>4, <1>7, <2>1, <2>2, <2>3 DEF Active
<1>8. ASSUME NEW i \in Acts', i # top
      PROVE  /\ i \in Acts /\ i \in 1..Len(frames) /\ running /\ Active(i)'
             /\ frames'[i] = frames[i]
  <2>1. i \in Nat /\ i >= 2 /\ i <= Len(frames) /\ i \in Acts /\ i \in 1..Len(frames)
    BY <1>2, <1>4, <1>8 DEF Acts
  <2>2. running
    <3>1. CASE phase = "called"
      <4>1. frames = <<DummyFrame>>
        BY <3>1 DEF TypedStacks, DummyBelow
      <4>2. Len(frames) = 1
        BY <4>1
      <4>3. QED
        BY <2>1, <4>2
    <3>2. QED
      BY <3>1 DEF EntersFor
  <2>3. /\ return.at = "any" /\ return.func = pc.func /\ return.ctl = pc.ctl
    BY <2>2 DEF EntersFor
  <2>4. frames'[i] = frames[i] /\ frames[i] \in Frame /\ PosOf(i) \in Position /\ Active(i)
    BY <1>4, <2>1, <2>2, ActFacts
  <2>5. CASE i = Len(frames)
    <3>1. PosOf(i) = pc /\ LabelEnd(i) = Len(labels) /\ LocalEnd(i) = Len(locals)
      BY <2>1, <2>2, <2>5, ActFacts
    <3>2. PosOf(i)' = return /\ LabelEnd(i)' = Len(labels) /\ LocalEnd(i)' = Len(locals)
      BY <1>2, <1>4, <1>5, <2>5 DEF PosOf, LabelEnd, LocalEnd, Suspended
    <3>3. Well(frames[i], return, labels, LabelEnd(i))
      BY <2>3, <2>4, <3>1, WellAround DEF Active
    <3>4. QED
      BY <1>1, <2>1, <2>2, <2>3, <2>4, <3>1, <3>2, <3>3 DEF Active
  <2>6. CASE i # Len(frames)
    <3>1. i + 1 \in 1..Len(frames)
      BY <1>2, <2>1, <2>6
    <3>2. frames'[i + 1] = frames[i + 1] /\ Suspended(i) /\ Suspended(i)'
      BY <1>2, <1>4, <2>1, <2>6, <3>1 DEF Suspended
    <3>3. PosOf(i)' = PosOf(i) /\ LabelEnd(i)' = LabelEnd(i) /\ LocalEnd(i)' = LocalEnd(i)
      BY <3>2 DEF PosOf, LabelEnd, LocalEnd
    <3>4. QED
      BY <1>1, <2>1, <2>2, <2>4, <3>2, <3>3 DEF Active
  <2>7. QED
    BY <2>1, <2>2, <2>4, <2>5, <2>6
<1>9. Ordered'
  <2>1. ASSUME NEW i \in Acts', NEW j \in Acts', i <= j
        PROVE  /\ frames'[i].labelStackSize <= frames'[j].labelStackSize
               /\ frames'[i].locals <= frames'[j].locals
    <3>1. CASE j = top
      <4>1. CASE i = top
        <5>1. frames'[i] = new /\ frames'[j] = new
          BY <1>4, <3>1, <4>1
        <5>2. frames'[i].labelStackSize = Len(labels) /\ frames'[j].labelStackSize = Len(labels)
              /\ frames'[i].locals = Len(locals) /\ frames'[j].locals = Len(locals)
          BY <1>5, <5>1
        <5>3. QED
          BY <1>2, <5>2
      <4>2. CASE i # top
        <5>1. i \in Acts /\ running /\ frames'[i] = frames[i] /\ Len(frames) >= 2
          BY <1>8, <4>2, ActFacts
        <5>2. /\ Inner.labelStackSize <= Len(labels) /\ Inner.locals <= Len(locals)
              /\ Len(frames) \in Acts /\ Inner = frames[Len(frames)]
              /\ Inner.labelStackSize \in Nat /\ Inner.locals \in Nat
          BY <5>1, InnerFacts
        <5>3. /\ frames[i].labelStackSize <= Inner.labelStackSize
              /\ frames[i].locals <= Inner.locals
          <6>1. Ordered /\ i <= Len(frames)
            BY <5>1 DEF Nested, Acts
          <6>2. QED
            BY <5>1, <5>2, <6>1 DEF Ordered
        <5>4. frames[i].labelStackSize \in Nat /\ frames[i].locals \in Nat
          BY <5>1, ActFacts DEF Frame
        <5>5. /\ frames'[j].labelStackSize = Len(labels) /\ frames'[j].locals = Len(locals)
              /\ frames'[i].labelStackSize = frames[i].labelStackSize
              /\ frames'[i].locals = frames[i].locals
          BY <1>4, <1>5, <3>1, <5>1
        <5>6. /\ frames[i].labelStackSize <= Len(labels)
              /\ frames[i].locals <= Len(locals)
          BY <1>2, <5>2, <5>3, <5>4
        <5>7. QED
          BY <5>5, <5>6
      <4>3. QED
        BY <4>1, <4>2
    <3>2. CASE j # top
      <4>1. i # top
        BY <1>2, <1>4, <2>1, <3>2 DEF Acts
      <4>2. i \in Acts /\ j \in Acts /\ running /\ frames'[i] = frames[i] /\ frames'[j] = frames[j]
        BY <1>8, <3>2, <4>1
      <4>3. QED
        BY <2>1, <4>2 DEF Nested, Ordered
    <3>3. QED
      BY <3>1, <3>2
  <2>2. QED
    BY <2>1 DEF Ordered
<1>10. Len(frames') # 1 /\ Outermost'
  <2>1. CASE running
    <3>1. Len(frames) >= 2 /\ Outermost
      BY <2>1 DEF EntersFor, Nested
    <3>2. 2 \in 1..Len(frames)
      BY <1>2, <3>1
    <3>3. frames'[2] = frames[2]
      BY <1>4, <3>2
    <3>4. Len(frames') # 1
      BY <1>2, <1>4, <3>1
    <3>5. Outermost'
      BY <1>1, <1>6, <3>1, <3>3 DEF Outermost, Placed, Pos
    <3>6. QED
      BY <3>4, <3>5
  <2>2. CASE ~running
    <3>1. phase = "called" /\ f = callee
      BY <2>2 DEF EntersFor
    <3>2. frames = <<DummyFrame>> /\ labels = <<>> /\ locals = <<>>
      BY <3>1 DEF TypedStacks, DummyBelow, Nested
    <3>3. Len(frames) = 1 /\ Len(labels) = 0 /\ Len(locals) = 0
      BY <3>2
    <3>4. QED
      BY <1>1, <1>4, <1>5, <1>6, <3>1, <3>3 DEF Outermost, Placed, Pos
  <2>3. QED
    BY <2>1, <2>2
<1>11. QED
  BY <1>1, <1>7, <1>8, <1>9, <1>10 DEF Nested

-----------------------------------------------------------------------------
(* The instructions.                                                        *)

LEMMA KeepsItself ==
  ASSUME NEW S, NEW s \in Seq(S), NEW n \in Nat, n <= Len(s)
  PROVE  Keeps(s, s, n)
BY DEF Keeps

(* A prefix that is long enough keeps what it should.                       *)
LEMMA KeepsPrefix ==
  ASSUME NEW S, NEW s \in Seq(S), NEW k \in Nat, NEW n \in Nat, n + k <= Len(s)
  PROVE  /\ Keeps(s, DropLast(s, k), n) /\ Len(DropLast(s, k)) = Len(s) - k
         /\ DropLast(s, k) \in Seq(S)
<1>1. Len(s) \in Nat
  BY LenProperties
<1>2. /\ DropLast(s, k) \in Seq(S)
      /\ Len(DropLast(s, k)) = IF k < Len(s) THEN Len(s) - k ELSE 0
      /\ \A i \in 1..(Len(s) - k) : DropLast(s, k)[i] = s[i]
  BY DropLastType
<1>3. Len(DropLast(s, k)) = Len(s) - k
  BY <1>1, <1>2
<1>4. QED
  BY <1>1, <1>2, <1>3 DEF Keeps

(* Instructions that neither enter nor leave a block or a function.         *)
LEMMA InstructionStays ==
  ASSUME TypedStacks, Nested, running, pc.at # "dummy", phase' = "running",
         UNCHANGED <<frames, callee, labels>>,
         Len(locals') = Len(locals), Keeps(locals, locals', Inner.locals),
         pc'.func = pc.func, pc'.ctl = pc.ctl, pc'.at = "any"
  PROVE  Stays
<1>1. Len(frames) >= 2
  BY RunningFacts
<1>2. /\ Well(Inner, pc, labels, Len(labels))
      /\ Inner.labelStackSize \in Nat /\ Inner.labelStackSize <= Len(labels)
      /\ labels \in Seq(Label)
  BY <1>1, InnerFacts DEF TypedStacks, TypeInv
<1>3. Well(Inner, pc', labels', Len(labels'))
  BY <1>2, WellAround
<1>4. Keeps(labels, labels', Inner.labelStackSize)
  BY <1>2, KeepsItself
<1>5. Placed(pc', Len(frames))
  BY DEF Placed
<1>6. QED
  BY <1>1, <1>3, <1>4, <1>5 DEF Stays

LEMMA AfterFacts ==
  ASSUME TypedStacks, NEW n, NEW m
  PROVE  /\ After(n, m).func = pc.func /\ After(n, m).ctl = pc.ctl
         /\ After(n, m).at = "any" /\ After(n, m).h = (pc.h - n) + m
BY DEF After, TypedStacks, TypeInv, Position, Place

LEMMA ReplaceStays ==
  ASSUME TypedStacks, Nested, running, pc.at # "dummy", NEW n, NEW s, Replace(n, s)
  PROVE  Stays
<1>1. /\ phase' = "running" /\ UNCHANGED <<frames, callee, labels, locals>>
      /\ pc' = After(n, Len(s))
  BY DEF Replace, Continue, outcome, running
<1>2. Keeps(locals, locals', Inner.locals)
  <2>1. locals \in Seq(Val) /\ Inner.locals \in Nat /\ Inner.locals <= Len(locals)
    BY RunningFacts, InnerFacts DEF TypedStacks, TypeInv
  <2>2. QED
    BY <1>1, <2>1, KeepsItself
<1>3. pc'.func = pc.func /\ pc'.ctl = pc.ctl /\ pc'.at = "any"
  BY <1>1, AfterFacts
<1>4. QED
  BY <1>1, <1>2, <1>3, InstructionStays

(* Writing a local of the innermost activation.                             *)
LEMMA LocalStays ==
  ASSUME TypedStacks, Nested, NEW i \in Nat, SetLocal(i) \/ TeeLocal(i)
  PROVE  Stays
<1>1. PICK m \in 0..1 : pc' = After(1, m)
  BY DEF SetLocal, TeeLocal
<1>2. /\ running /\ pc.at # "dummy" /\ Len(locals') = Len(locals)
      /\ \A x \in 1..Len(locals) : x # LocalAt(i) => locals'[x] = locals[x]
  BY LocalsLength
<1>3. phase' = "running" /\ UNCHANGED <<frames, callee, labels>>
  BY <1>2 DEF SetLocal, TeeLocal, Continue, outcome, running
<1>4. Inner.locals \in Nat /\ Inner.locals <= Len(locals) /\ Len(locals) \in Nat
  BY <1>2, RunningFacts, InnerFacts
<1>5. \A x \in 1..Inner.locals : x \in 1..Len(locals) /\ x # LocalAt(i)
  BY <1>4 DEF LocalAt, Inner
<1>6. Keeps(locals, locals', Inner.locals)
  BY <1>2, <1>4, <1>5 DEF Keeps
<1>7. pc'.func = pc.func /\ pc'.ctl = pc.ctl /\ pc'.at = "any"
  BY <1>1, AfterFacts
<1>8. QED
  BY <1>2, <1>3, <1>6, <1>7, InstructionStays

LEMMA PlainSteps ==
  ASSUME TypedStacks, Nested, Plain
  PROVE  Stays \/ phase' = "idle"
<1>0. 0 \in Nat /\ 1 \in Nat /\ 2 \in Nat /\ 3 \in Nat
  OBVIOUS
<1>1. ASSUME NEW s, NEW n, Code(n, Len(s)), Replace(n, s) PROVE Stays
  BY <1>1, ReplaceStays DEF Code, CodeAt, May, running
<1>a. ASSUME NEW v, NEW n, Code(n, 1), Replace(n, <<v>>) PROVE Stays
  BY <1>a, ReplaceStays DEF Code, CodeAt, May, running
<1>b. ASSUME NEW n, Code(n, 0), Replace(n, <<>>) PROVE Stays
  BY <1>b, ReplaceStays DEF Code, CodeAt, May, running
<1>2. ASSUME NEW v \in Val,
             Const(v) \/ Unary(v) \/ Binary(v) \/ Load(v) \/ MemorySize(v) \/ MemoryGrow(v)
      PROVE  Stays
  BY <1>2, <1>a DEF Const, Unary, Binary, Load, MemorySize, MemoryGrow
<1>3. CASE Drop \/ Store
  BY <1>3, <1>b DEF Drop, Store
<1>4. CASE Select
  BY <1>4, <1>a DEF Select
<1>5. CASE Unreachable
  BY <1>5 DEF Unreachable, Fail
<1>6. ASSUME NEW n \in 1..2, OutOfBounds(n) PROVE phase' = "idle"
  BY <1>6 DEF OutOfBounds, Fail
<1>7. ASSUME NEW t, DivTrap(t) \/ TruncTrap(t) PROVE phase' = "idle"
  BY <1>7 DEF DivTrap, TruncTrap, Fail
<1>8. ASSUME NEW n \in 1..2, NEW v \in 0..1, Compare(n, v) PROVE Stays
  BY <1>8, <1>a DEF Compare
<1>9. ASSUME NEW i \in 0..(LocalCap - 1), GetLocal(i) PROVE Stays
  <2>1. PICK v : Code(0, 1) /\ Replace(0, <<v>>)
    BY <1>9 DEF GetLocal
  <2>2. QED
    BY <2>1, <1>a
<1>10. ASSUME NEW i \in 0..(LocalCap - 1), SetLocal(i) \/ TeeLocal(i) PROVE Stays
  <2>1. i \in Nat
    OBVIOUS
  <2>2. QED
    BY <1>10, <2>1, LocalStays
<1>11. ASSUME NEW g \in Globals, GetGlobal(g) PROVE Stays
  BY <1>11, <1>a DEF GetGlobal
<1>12. ASSUME NEW g \in Globals, SetGlobal(g) PROVE Stays
  <2>1. running /\ pc.at # "dummy" /\ pc' = After(1, 0)
    BY <1>12 DEF SetGlobal, Code, CodeAt, May, running
  <2>2. /\ phase' = "running" /\ UNCHANGED <<frames, callee, labels, locals>>
    BY <1>12, <2>1 DEF SetGlobal, outcome, running
  <2>3. Keeps(locals, locals', Inner.locals)
    <3>1. locals \in Seq(Val) /\ Inner.locals \in Nat /\ Inner.locals <= Len(locals)
      BY <2>1, RunningFacts, InnerFacts DEF TypedStacks, TypeInv
    <3>2. QED
      BY <2>2, <3>1, KeepsItself
  <2>4. pc'.func = pc.func /\ pc'.ctl = pc.ctl /\ pc'.at = "any"
    BY <2>1, AfterFacts
  <2>5. QED
    BY <2>1, <2>2, <2>3, <2>4, InstructionStays
<1>20. QED
  BY <1>2, <1>3, <1>4, <1>5, <1>6, <1>7, <1>8, <1>9, <1>10, <1>11, <1>12 DEF Plain

-----------------------------------------------------------------------------
(* Blocks.                                                                  *)

LEMMA LocalsStay ==
  ASSUME TypedStacks, Nested, running, Len(frames) >= 2, UNCHANGED locals
  PROVE  Len(locals') = Len(locals) /\ Keeps(locals, locals', Inner.locals)
<1>1. locals \in Seq(Val) /\ Inner.locals \in Nat /\ Inner.locals <= Len(locals)
  BY InnerFacts DEF TypedStacks, TypeInv
<1>2. QED
  BY <1>1, KeepsItself

(* Entering a block with a label that fits.                                 *)
LEMMA BlockStays ==
  ASSUME TypedStacks, Nested, NEW ats, "dummy" \notin ats, NEW n \in Nat, NEW m \in Nat,
         May(ats, n, m),
         NEW label \in Label, NEW target, PushLabel(label, target),
         NEW c \in Control, target.at \in {"any", "end"}, target.func = pc.func,
         target.ctl = Append(pc.ctl, c), LabelOf(label, pc.func, c, pc.ctl)
  PROVE  Stays \/ phase' = "idle"
<1>1. running /\ pc.at # "dummy" /\ Depth > 0
  BY MayFacts
<1>2. CASE Full(labels', LabelCap)
  BY <1>2 DEF PushLabel, Fail
<1>3. CASE ~Full(labels', LabelCap)
  <2>1. /\ pc' = target /\ UNCHANGED <<frames, locals, callee>> /\ phase' = "running"
        /\ labels' = Append(labels, label)
    BY <1>1, <1>3 DEF PushLabel, Continue, outcome, running
  <2>2. /\ Len(frames) >= 2 /\ Inner \in Frame /\ pc \in Position /\ labels \in Seq(Label)
        /\ Well(Inner, pc, labels, Len(labels))
        /\ Inner.labelStackSize \in Nat /\ Inner.labelStackSize <= Len(labels)
        /\ Len(labels) \in Nat /\ pc.ctl \in Seq(Control)
    BY <1>1, RunningFacts, InnerFacts DEF TypedStacks, TypeInv
  <2>3. pc.ctl # <<>>
    BY <1>1, EmptySeq DEF Depth
  <2>4. Well(Inner, pc', labels', Len(labels'))
    BY <2>1, <2>2, <2>3, WellInner
  <2>5. Keeps(labels, labels', Inner.labelStackSize)
    BY <2>1, <2>2, AppendType DEF Keeps
  <2>6. Placed(pc', Len(frames))
    BY <2>1 DEF Placed
  <2>7. Len(locals') = Len(locals) /\ Keeps(locals, locals', Inner.locals)
    BY <1>1, <2>1, <2>2, LocalsStay
  <2>8. QED
    BY <1>1, <2>1, <2>2, <2>4, <2>5, <2>6, <2>7 DEF Stays
<1>4. QED
  BY <1>2, <1>3

LEMMA BlockSteps ==
  ASSUME TypedStacks, Nested, NEW r \in 0..1,
         Block(r) \/ Loop(r) \/ \E hasElse \in BOOLEAN : If(r, hasElse)
  PROVE  Stays \/ phase' = "idle"
<1>0. 0 \in Nat /\ 1 \in Nat /\ r \in Nat /\ "dummy" \notin {"any"} /\ "dummy" \notin {"any", "loop"}
  OBVIOUS
<1>p. pc \in Position /\ pc.ctl \in Seq(Control)
  BY DEF TypedStacks, TypeInv, Position, Place
<1>1. CASE Block(r)
  <2> DEFINE c == [loop |-> FALSE, res |-> r, base |-> pc.h]
             label == NewLabel(r, After(0, r), After(0, r), Len(values))
  <2>1. May({"any"}, 0, r) /\ PushLabel(label, Inside("any", FALSE, r, pc.h))
    BY <1>1 DEF Block
  <2>2. /\ pc.h \in Nat /\ After(0, r) \in Position /\ Len(values) \in Nat /\ Depth > 0
    BY <1>0, <2>1, MayFacts
  <2>3. label \in Label /\ c \in Control
    BY <2>2 DEF NewLabel, Label, Control
  <2>4. pc.ctl # <<>>
    BY <2>2, <1>p, EmptySeq DEF Depth
  <2>5. LabelOf(label, pc.func, c, pc.ctl)
    BY <2>2, <2>4, AfterFacts DEF LabelOf, NewLabel, Arity
  <2>6. LET t == Inside("any", FALSE, r, pc.h)
        IN t.at \in {"any", "end"} /\ t.func = pc.func /\ t.ctl = Append(pc.ctl, c)
    BY DEF Inside
  <2>7. QED
    BY <1>0, <2>1, <2>3, <2>5, <2>6, BlockStays
<1>2. CASE Loop(r)
  <2> DEFINE c == [loop |-> TRUE, res |-> r, base |-> pc.h]
             label == NewLabel(0, After(0, r), [pc EXCEPT !.at = "loop"], Len(values))
  <2>1. May({"any", "loop"}, 0, r) /\ PushLabel(label, Inside("any", TRUE, r, pc.h))
    BY <1>2 DEF Loop
  <2>2. /\ pc.h \in Nat /\ After(0, r) \in Position /\ Len(values) \in Nat /\ Depth > 0
    BY <1>0, <2>1, MayFacts
  <2>a. [pc EXCEPT !.at = "loop"] \in Position
    BY <1>0, <2>1, <1>p, MayFacts DEF Position, Place
  <2>3. label \in Label /\ c \in Control
    BY <2>2, <2>a DEF NewLabel, Label, Control
  <2>4. pc.ctl # <<>>
    BY <2>2, <1>p, EmptySeq DEF Depth
  <2>b. [pc EXCEPT !.at = "loop"] = [After(0, r) EXCEPT !.at = "loop", !.h = pc.h]
    BY <1>p, <2>2 DEF After, Position, Place
  <2>5. LabelOf(label, pc.func, c, pc.ctl)
    BY <2>2, <2>4, <2>b, AfterFacts DEF LabelOf, NewLabel, Arity
  <2>6. LET t == Inside("any", TRUE, r, pc.h)
        IN t.at \in {"any", "end"} /\ t.func = pc.func /\ t.ctl = Append(pc.ctl, c)
    BY DEF Inside
  <2>7. QED
    BY <1>0, <2>1, <2>3, <2>5, <2>6, BlockStays
<1>3. ASSUME NEW hasElse \in BOOLEAN, If(r, hasElse) PROVE Stays \/ phase' = "idle"
  <2> DEFINE c == [loop |-> FALSE, res |-> r, base |-> pc.h - 1]
             label == NewLabel(r, After(1, r), After(1, r), Len(values) - 1)
             at == IF Top(0) # 0 \/ hasElse THEN "any" ELSE "end"
  <2>1. CodeAt({"any"}, 1, r) /\ PushLabel(label, Inside(at, FALSE, r, pc.h - 1))
    BY <1>3 DEF If, Code
  <2>2. /\ pc.h \in Nat /\ After(1, r) \in Position /\ Len(values) \in Nat /\ Depth > 0
        /\ 1 <= Len(values) /\ Cur \in Control /\ pc.h >= Cur.base + 1
    BY <1>0, <2>1, CodeFacts
  <2>a. pc.h - 1 \in Nat /\ Len(values) - 1 \in Nat
    BY <2>2 DEF Control
  <2>3. label \in Label /\ c \in Control
    BY <2>2, <2>a DEF NewLabel, Label, Control
  <2>4. pc.ctl # <<>>
    BY <2>2, <1>p, EmptySeq DEF Depth
  <2>5. LabelOf(label, pc.func, c, pc.ctl)
    BY <2>2, <2>4, AfterFacts DEF LabelOf, NewLabel, Arity
  <2>6. LET t == Inside(at, FALSE, r, pc.h - 1)
        IN t.at \in {"any", "end"} /\ t.func = pc.func /\ t.ctl = Append(pc.ctl, c)
    BY DEF Inside
  <2>7. QED
    BY <1>0, <2>1, <2>3, <2>5, <2>6, BlockStays DEF CodeAt
<1>4. QED
  BY <1>1, <1>2, <1>3

(* The block made of the body.                                              *)
LEMMA EnterBodySteps ==
  ASSUME TypedStacks, Nested, EnterBody
  PROVE  Stays \/ phase' = "idle"
<1> DEFINE f == pc.func
           exit == Pos("exit", f, Ret[f])
           label == NewLabel(Ret[f], exit, exit, Len(values))
           target == [pc EXCEPT !.at = "any", !.ctl = <<Body(f)>>]
<1>1. running /\ pc.at = "entry" /\ pc.at # "dummy" /\ PushLabel(label, target)
  BY DEF EnterBody, running, Body
<1>2. CASE Full(labels', LabelCap)
  BY <1>1, <1>2 DEF PushLabel, Fail
<1>3. CASE ~Full(labels', LabelCap)
  <2>1. /\ pc' = target /\ UNCHANGED <<frames, locals, callee>> /\ phase' = "running"
        /\ labels' = Append(labels, label)
    BY <1>1, <1>3 DEF PushLabel, Continue, outcome, running
  <2>2. /\ Len(frames) >= 2 /\ Inner \in Frame /\ pc \in Position /\ labels \in Seq(Label)
        /\ Well(Inner, pc, labels, Len(labels)) /\ Outermost
        /\ Inner.labelStackSize \in Nat /\ Inner.labelStackSize <= Len(labels)
        /\ Len(labels) \in Nat /\ f \in Funcs
    BY <1>1, RunningFacts, InnerFacts DEF TypedStacks, TypeInv
  <2>3. pc.ctl = <<>>
    BY <1>1, <2>2 DEF Outermost, Placed
  <2>4. Len(labels) = Inner.labelStackSize /\ f = Inner.func
    BY <2>2, <2>3, EmptySeq DEF Well
  <2>5. Ret[f] \in 0..1 /\ Len(values) \in Nat /\ Ret[f] \in Nat
    BY <2>2, FuncsAssumption, LenProperties DEF TypedStacks, TypeInv
  <2>6. exit \in Position
    BY <2>2, <2>5, EmptySeq DEF Pos, Position, Place
  <2>7. label \in Label
    BY <2>5, <2>6 DEF NewLabel, Label
  <2>8. /\ Len(labels') = Len(labels) + 1 /\ labels'[Len(labels) + 1] = label
        /\ \A x \in 1..Len(labels) : labels'[x] = labels[x]
    BY <2>1, <2>2, <2>7, AppendType
  <2>9. /\ pc'.func = f /\ pc'.at = "any" /\ pc'.ctl = <<Body(f)>>
    BY <2>1, <2>2 DEF Position, Place
  <2>10. Len(pc'.ctl) = 1 /\ pc'.ctl[1] = Body(f) /\ SubSeq(pc'.ctl, 1, 0) = <<>>
    BY <2>9, SubSeqEmpty
  <2>11. LabelOf(label, f, Body(f), <<>>)
    BY <2>5 DEF LabelOf, NewLabel, Body, Arity, Pos
  <2>12. Well(Inner, pc', labels', Len(labels'))
    <3>1. \A j \in 1..Len(pc'.ctl) :
            j = 1 /\ j - 1 = 0 /\ Inner.labelStackSize + j = Len(labels) + 1
      BY <2>2, <2>4, <2>10
    <3>2. Len(labels') = Inner.labelStackSize + Len(pc'.ctl)
      BY <2>2, <2>4, <2>8, <2>10
    <3>3. \A j \in 1..Len(pc'.ctl) :
            LabelOf(labels'[Inner.labelStackSize + j], pc'.func, pc'.ctl[j],
                    SubSeq(pc'.ctl, 1, j - 1))
      BY <2>8, <2>9, <2>10, <2>11, <3>1
    <3>4. QED
      BY <2>2, <2>4, <2>9, <2>10, <3>2, <3>3 DEF Well
  <2>13. Keeps(labels, labels', Inner.labelStackSize)
    BY <2>2, <2>4, <2>8 DEF Keeps
  <2>14. Placed(pc', Len(frames))
    BY <2>9 DEF Placed
  <2>15. Len(locals') = Len(locals) /\ Keeps(locals, locals', Inner.locals)
    BY <1>1, <2>1, <2>2, LocalsStay
  <2>16. QED
    BY <1>1, <2>1, <2>2, <2>12, <2>13, <2>14, <2>15 DEF Stays
<1>4. QED
  BY <1>2, <1>3

(* Popping the frame with its locals.                                       *)
LEMMA PopLocals ==
  ASSUME TypedStacks, Nested, running, Len(frames) >= 2
  PROVE  LET rest == DropLocals(Inner)
         IN Keeps(locals, rest, Inner.locals) /\ Len(rest) = Inner.locals
<1>1. /\ locals \in Seq(Val) /\ Inner.locals \in Nat /\ Inner.localSize \in Nat
      /\ Len(locals) = Inner.locals + Inner.localSize /\ Len(locals) \in Nat
  BY InnerFacts DEF TypedStacks, TypeInv
<1>2. Inner.locals + Inner.localSize <= Len(locals) /\ Len(locals) - Inner.localSize = Inner.locals
  BY <1>1
<1>3. QED
  BY <1>1, <1>2, KeepsPrefix DEF DropLocals

(* The end of a block leaves it, that of the body the activation.           *)
LEMMA EndSteps ==
  ASSUME TypedStacks, Nested, End
  PROVE  Stays \/ Leaves
<1>0. 0 \in Nat /\ 1 \in Nat /\ "dummy" \notin {"any", "end"}
  OBVIOUS
<1>1. running /\ pc.at # "dummy" /\ Depth \in Nat /\ Depth > 0 /\ OpEnd
  BY <1>0, MayFacts DEF End
<1>2. /\ Len(frames) >= 2 /\ Inner \in Frame /\ pc \in Position /\ labels \in Seq(Label)
      /\ Well(Inner, pc, labels, Len(labels)) /\ Outermost
      /\ Inner.labelStackSize \in Nat /\ Len(labels) \in Nat /\ Len(frames) \in Nat
      /\ pc.ctl \in Seq(Control)
  BY <1>1, RunningFacts, InnerFacts DEF TypedStacks, TypeInv
<1> DEFINE n == Inner.labelStackSize
           rest == DropLast(labels, 1)
<1>3. Len(labels) = n + Depth
  BY <1>2 DEF Well, Depth
<1>4. labels # <<>> /\ n + (Depth - 1) = Len(labels) - 1 /\ Len(labels) >= 1
  BY <1>1, <1>2, <1>3, EmptySeq
<1>5. /\ Len(rest) = Len(labels) - 1 /\ rest \in Seq(Label)
      /\ Keeps(labels, rest, Len(labels) - 1)
  <2>1. Len(labels) - 1 \in Nat /\ Len(labels) - 1 + 1 <= Len(labels)
    BY <1>2, <1>4
  <2>2. QED
    BY <1>0, <1>2, <2>1, KeepsPrefix
<1>6. labels' = rest /\ phase' = "running" /\ callee' = callee
  BY <1>1, <1>4 DEF OpEnd, Continue, outcome, running
<1>7. Keeps(labels, labels', n)
  BY <1>1, <1>2, <1>3, <1>5, <1>6 DEF Keeps
<1>8. CASE n = Len(rest)
  <2>1. pc' = Inner.pre /\ locals' = DropLocals(Inner) /\ frames' = DropLast(frames, 1)
    BY <1>1, <1>4, <1>8 DEF OpEnd, FrameDone, Inner
  <2>2. Keeps(locals, locals', Inner.locals) /\ Len(locals') = Inner.locals
    BY <1>1, <1>2, <2>1, PopLocals
  <2>3. Leaves
    BY <1>1, <1>2, <1>6, <1>7, <1>8, <2>1, <2>2 DEF Leaves
  <2>4. QED
    BY <2>3
<1>9. CASE n # Len(rest)
  <2>1. pc' = Last(labels).pre /\ UNCHANGED <<locals, frames>>
    BY <1>1, <1>4, <1>9 DEF OpEnd, FrameDone, Inner
  <2>a. Len(rest) = n + (Depth - 1)
    BY <1>4, <1>5
  <2>b. Depth - 1 # 0
    BY <1>2, <1>9, <2>a
  <2>2. Depth \in 1..Len(pc.ctl) /\ Depth - 1 \in Nat /\ Depth - 1 # 0
    BY <1>1, <2>b DEF Depth
  <2>3. Last(labels) = labels[n + Depth]
    BY <1>3 DEF Last
  <2>4. LabelOf(Last(labels), pc.func, pc.ctl[Depth], SubSeq(pc.ctl, 1, Depth - 1))
    BY <1>2, <2>2, <2>3 DEF Well
  <2>5. /\ pc'.func = pc.func /\ pc'.ctl = SubSeq(pc.ctl, 1, Depth - 1)
    BY <2>1, <2>4 DEF LabelOf
  <2>6. Len(SubSeq(pc.ctl, 1, Depth - 1)) = Depth - 1
    <3>1. Depth - 1 \in Int /\ Depth - 1 <= Len(pc.ctl)
      BY <1>1, <1>2 DEF Depth
    <3>2. QED
      BY <1>2, <2>2, <3>1, PrefixType
  <2>7. pc'.at = "any"
    <3>1. SubSeq(pc.ctl, 1, Depth - 1) # <<>>
      BY <2>2, <2>6, EmptySeq
    <3>2. QED
      BY <2>1, <2>4, <3>1 DEF LabelOf
  <2>8. \A x \in 1..(n + (Depth - 1)) : labels'[x] = labels[x]
    BY <1>4, <1>5, <1>6 DEF Keeps
  <2>9. Well(Inner, pc', labels', n + (Depth - 1))
    BY <1>2, <2>2, <2>5, <2>8, WellOuter
  <2>10. Well(Inner, pc', labels', Len(labels'))
    BY <1>4, <1>5, <1>6, <2>9
  <2>11. Placed(pc', Len(frames))
    BY <2>7 DEF Placed
  <2>12. Len(locals') = Len(locals) /\ Keeps(locals, locals', Inner.locals)
    BY <1>1, <1>2, <2>1, LocalsStay
  <2>13. QED
    BY <1>1, <1>2, <1>6, <1>7, <2>1, <2>10, <2>11, <2>12 DEF Stays
<1>10. QED
  BY <1>8, <1>9

(* The end behind a body is met in the outermost activation only, where no  *)
(* label is left.                                                           *)
LEMMA EndOfFrameSteps ==
  ASSUME TypedStacks, Nested, EndOfFrame
  PROVE  Leaves
<1>1. running /\ pc.at = "exit" /\ pc.at # "dummy" /\ OpEnd
  BY DEF EndOfFrame, running
<1>2. /\ Len(frames) >= 2 /\ labels \in Seq(Label)
      /\ Well(Inner, pc, labels, Len(labels)) /\ Outermost
      /\ Inner.labelStackSize \in Nat /\ Len(labels) \in Nat
      /\ Inner = frames[Len(frames)]
  BY <1>1, RunningFacts, InnerFacts DEF TypedStacks, TypeInv
<1>3. pc.ctl = <<>> /\ Len(frames) = 2
  BY <1>1, <1>2 DEF Outermost, Placed
<1>4. Inner.labelStackSize = 0 /\ Len(labels) = 0
  BY <1>2, <1>3, EmptySeq DEF Well, Outermost
<1>5. labels = <<>>
  BY <1>2, <1>4, EmptySeq
<1>6. /\ labels' = labels /\ pc' = Inner.pre /\ locals' = DropLocals(Inner)
      /\ frames' = DropLast(frames, 1) /\ phase' = "running" /\ callee' = callee
  BY <1>1, <1>4, <1>5 DEF OpEnd, FrameDone, Continue, outcome, running, Inner
<1>7. Keeps(labels, labels', Inner.labelStackSize) /\ Len(labels') = Inner.labelStackSize
  BY <1>4, <1>6 DEF Keeps
<1>8. Keeps(locals, locals', Inner.locals) /\ Len(locals') = Inner.locals
  BY <1>1, <1>2, <1>6, PopLocals
<1>9. QED
  BY <1>1, <1>2, <1>6, <1>7, <1>8 DEF Leaves

-----------------------------------------------------------------------------
(* Branches and returns.                                                    *)

LEMMA BreakSteps ==
  ASSUME TypedStacks, Nested, ~BrOut, running, pc.at # "dummy",
         NEW k \in Nat, NEW n, NEW vals, MayBranch(k, n), Break(k, vals)
  PROVE  Stays
<1>1. /\ Len(frames) >= 2 /\ Inner \in Frame /\ pc \in Position /\ labels \in Seq(Label)
      /\ Well(Inner, pc, labels, Len(labels))
      /\ Inner.labelStackSize \in Nat /\ Len(labels) \in Nat /\ Len(frames) \in Nat
      /\ pc.ctl \in Seq(Control) /\ Depth \in Nat
  BY RunningFacts, InnerFacts, LenProperties DEF TypedStacks, TypeInv, Depth
<1> DEFINE m == Inner.labelStackSize
           j == Depth - k
           L == labels[Len(labels) - k]
<1>2. k < Depth /\ (k = Depth - 1 => Len(frames) = 2)
  BY DEF MayBranch
<1>a. Len(labels) = m + Depth
  BY <1>1 DEF Well, Depth
<1>b. j \in 1..Depth /\ j \in Nat /\ j - 1 \in Nat /\ k + 1 \in Nat
  BY <1>1, <1>2
<1>c. Len(labels) - k = m + j
  BY <1>1, <1>2, <1>a
<1>d. Len(labels) - (k + 1) = m + (j - 1) /\ (m + (j - 1)) + (k + 1) <= Len(labels)
  BY <1>1, <1>2, <1>a
<1>3. /\ j \in 1..Len(pc.ctl) /\ j \in Nat /\ j - 1 \in Nat /\ k + 1 \in Nat
      /\ Len(labels) - k = m + j /\ Len(labels) - (k + 1) = m + (j - 1)
      /\ (m + (j - 1)) + (k + 1) <= Len(labels)
  BY <1>b, <1>c, <1>d DEF Depth
<1>4. LabelOf(L, pc.func, pc.ctl[j], SubSeq(pc.ctl, 1, j - 1))
  BY <1>1, <1>3 DEF Well
<1>5. /\ labels' = DropLast(labels, k + 1) /\ pc' = L.next
      /\ UNCHANGED <<frames, locals, callee>> /\ phase' = "running"
  BY DEF Break, Unwind, Continue, outcome, running
<1>6. m + (j - 1) \in Nat
  BY <1>1, <1>3
<1>7. Keeps(labels, labels', m + (j - 1)) /\ Len(labels') = m + (j - 1)
  BY <1>1, <1>3, <1>5, <1>6, KeepsPrefix
<1>8. L \in Label /\ L.pre \in Position /\ L.next \in Position
  <2>1. Len(labels) - k \in 1..Len(labels)
    BY <1>1, <1>2, <1>3
  <2>2. L \in Label
    BY <1>1, <2>1, ElementOfSeq
  <2>3. QED
    BY <2>2 DEF Label
<1>9. /\ pc'.func = pc.func /\ pc'.ctl = SubSeq(pc.ctl, 1, j - 1)
      /\ pc'.at = IF pc.ctl[j].loop THEN "loop" ELSE L.pre.at
      /\ pc'.h = IF pc.ctl[j].loop THEN pc.ctl[j].base ELSE pc.ctl[j].base + pc.ctl[j].res
  BY <1>4, <1>5, <1>8 DEF LabelOf, Position, Place
<1>10. Well(Inner, pc', labels', Len(labels'))
  <2>1. \A x \in 1..(m + (j - 1)) : labels'[x] = labels[x]
    BY <1>7 DEF Keeps
  <2>2. Well(Inner, pc', labels', m + (j - 1))
    BY <1>1, <1>3, <1>9, <2>1, WellOuter
  <2>3. QED
    BY <1>7, <2>2
<1>11. Placed(pc', Len(frames))
  <2>1. CASE pc.ctl[j].loop
    BY <1>9, <2>1 DEF Placed
  <2>2. CASE ~pc.ctl[j].loop /\ SubSeq(pc.ctl, 1, j - 1) # <<>>
    BY <1>4, <1>9, <2>2 DEF Placed, LabelOf
  <2>3. CASE ~pc.ctl[j].loop /\ SubSeq(pc.ctl, 1, j - 1) = <<>>
    <3>1. Len(SubSeq(pc.ctl, 1, j - 1)) = j - 1
      <4>1. j - 1 \in Int /\ j - 1 <= Len(pc.ctl)
        BY <1>1, <1>3
      <4>2. QED
        BY <1>1, <1>3, <4>1, PrefixType
    <3>2. j - 1 = 0
      BY <2>3, <3>1, EmptySeq
    <3>3. j = 1 /\ k = Depth - 1
      BY <1>1, <3>2
    <3>4. Len(frames) = 2
      BY <1>2, <3>3
    <3>5. pc.ctl # <<>>
      BY <1>1, <1>3, EmptySeq
    <3>6. pc.ctl[j] = Body(Inner.func) /\ pc.func = Inner.func
      BY <1>1, <3>3, <3>5 DEF Well
    <3>7. Ret[pc.func] \in Nat
      <4>1. pc.func \in Funcs
        BY <1>1, <3>6 DEF Well
      <4>2. Ret[pc.func] \in 0..1
        BY <4>1, FuncsAssumption
      <4>3. QED
        BY <4>2
    <3>8. pc'.h = Ret[pc'.func]
      BY <1>9, <2>3, <3>6, <3>7 DEF Body
    <3>9. pc'.at = "exit"
      BY <1>4, <1>9, <2>3 DEF LabelOf
    <3>10. QED
      BY <1>9, <2>3, <3>4, <3>8, <3>9 DEF Placed
  <2>4. QED
    BY <2>1, <2>2, <2>3
<1>12. Keeps(labels, labels', m)
  <2>1. m <= m + (j - 1) /\ 1..m \subseteq 1..(m + (j - 1))
    BY <1>1, <1>b
  <2>2. QED
    BY <1>7, <2>1 DEF Keeps
<1>13. Len(locals') = Len(locals) /\ Keeps(locals, locals', Inner.locals)
  BY <1>1, <1>5, LocalsStay
<1>14. QED
  BY <1>1, <1>5, <1>10, <1>11, <1>12, <1>13 DEF Stays

LEMMA BranchSteps ==
  ASSUME TypedStacks, Nested, ~BrOut, NEW k \in Nat,
         Br(k) \/ BrIf(k) \/ \E vec \in Vectors(MaxDepth) : BrTable(vec, k)
  PROVE  Stays
<1>1. CASE Br(k)
  BY <1>1, BreakSteps DEF Br, Code, CodeAt, May, running
<1>2. CASE BrIf(k)
  <2>1. running /\ pc.at # "dummy" /\ MayBranch(k, 1)
    BY <1>2 DEF BrIf, Code, CodeAt, May, running
  <2>2. QED
    BY <1>2, <2>1, BreakSteps, ReplaceStays DEF BrIf
<1>3. ASSUME NEW vec \in Vectors(MaxDepth), BrTable(vec, k) PROVE Stays
  <2> DEFINE t == IF Top(0) < Len(vec) THEN vec[Top(0) + 1] ELSE k
  <2>1. running /\ pc.at # "dummy" /\ Break(t, DropLast(values, 1))
    BY <1>3 DEF BrTable, Code, CodeAt, May, running
  <2>2. t \in Nat /\ MayBranch(t, 1)
    BY <1>3, BrTableTarget
  <2>3. QED
    BY <2>1, <2>2, BreakSteps
<1>4. QED
  BY <1>1, <1>2, <1>3

LEMMA ReturnSteps ==
  ASSUME TypedStacks, Nested, Return
  PROVE  Leaves
<1>1. running /\ pc.at # "dummy"
  BY DEF Return, MayReturn, May, running
<1>2. /\ Len(frames) >= 2 /\ labels \in Seq(Label) /\ Inner.labelStackSize \in Nat
      /\ Inner.labelStackSize <= Len(labels) /\ Len(labels) \in Nat
  BY <1>1, RunningFacts, InnerFacts DEF TypedStacks, TypeInv
<1>3. /\ labels' = AtMost(labels, Inner.labelStackSize) /\ locals' = DropLocals(Inner)
      /\ frames' = DropLast(frames, 1) /\ pc' = Inner.pre
      /\ phase' = "running" /\ callee' = callee
  BY <1>1 DEF Return, Inner, Continue, outcome, running
<1>4. Len(labels') = Inner.labelStackSize /\ Keeps(labels, labels', Inner.labelStackSize)
  BY <1>2, <1>3, AtMostType DEF Keeps
<1>5. Keeps(locals, locals', Inner.locals) /\ Len(locals') = Inner.locals
  BY <1>1, <1>2, <1>3, PopLocals
<1>6. QED
  BY <1>1, <1>2, <1>3, <1>4, <1>5 DEF Leaves

LEMMA NestedIdle ==
  ASSUME phase' = "idle"
  PROVE  Nested'
BY DEF Nested, running

LEMMA StructuredNested ==
  ASSUME TypedStacks, TypedStacks', Nested, ~BrOut, Structured
  PROVE  Nested'
<1>1. ASSUME NEW r \in 0..1, Block(r) \/ Loop(r) \/ \E hasElse \in BOOLEAN : If(r, hasElse)
      PROVE  Nested'
  BY <1>1, BlockSteps, NestedStays, NestedIdle
<1>2. CASE End
  BY <1>2, EndSteps, NestedStays, NestedLeaves
<1>3. CASE EndOfFrame
  BY <1>3, EndOfFrameSteps, NestedLeaves
<1>4. CASE EnterBody
  BY <1>4, EnterBodySteps, NestedStays, NestedIdle
<1>5. CASE EndOfPc
  BY <1>5, NestedIdle DEF EndOfPc, Fail
<1>6. CASE Return
  BY <1>6, ReturnSteps, NestedLeaves
<1>7. ASSUME NEW k \in 0..(MaxDepth - 1),
             Br(k) \/ BrIf(k) \/ \E vec \in Vectors(MaxDepth) : BrTable(vec, k)
      PROVE  Nested'
  <2>1. k \in Nat
    BY BoundsAssumption
  <2>2. QED
    BY <1>7, <2>1, BranchSteps, NestedStays
<1>8. QED
  BY <1>1, <1>2, <1>3, <1>4, <1>5, <1>6, <1>7 DEF Structured

-----------------------------------------------------------------------------
(* Calls: by the host, with NoPos as return, or by an instruction.          *)

CallsFor(f, return) ==
  IF phase = "called" THEN f = callee /\ return = NoPos
  ELSE /\ running /\ pc.at # "dummy"
       /\ return.at = "any" /\ return.func = pc.func /\ return.ctl = pc.ctl

LEMMA KeepsExtended ==
  ASSUME NEW S, NEW s \in Seq(S), NEW a \in Seq(S), NEW b \in Seq(S)
  PROVE  Keeps(s, s \o a \o b, Len(s)) /\ Len(s \o a \o b) = Len(s) + Len(a) + Len(b)
<1>1. /\ s \o a \in Seq(S) /\ Len(s \o a) = Len(s) + Len(a)
      /\ \A x \in 1..Len(s) : (s \o a)[x] = s[x]
  BY ConcatProperties
<1>2. PICK t \in Seq(S) : t = s \o a
  BY <1>1
<1>3. /\ Len(t \o b) = Len(t) + Len(b) /\ \A x \in 1..Len(t) : (t \o b)[x] = t[x]
  BY ConcatProperties
<1>4. Len(s) \in Nat /\ Len(a) \in Nat /\ Len(b) \in Nat
  BY LenProperties
<1>5. Len(t \o b) = Len(s) + Len(a) + Len(b) /\ Len(s) <= Len(t \o b)
  BY <1>1, <1>2, <1>3, <1>4
<1>6. \A x \in 1..Len(s) : x \in 1..Len(t) /\ t[x] = s[x]
  BY <1>1, <1>2, <1>4
<1>7. Keeps(s, t \o b, Len(s))
  BY <1>3, <1>5, <1>6 DEF Keeps
<1>8. QED
  BY <1>2, <1>5, <1>7

LEMMA InvokeSteps ==
  ASSUME TypedStacks, Nested, NEW f \in Funcs, NEW vals \in Seq(Val), NEW return \in Position,
         CallsFor(f, return), InvokeFunc(f, vals, return)
  PROVE  \/ phase' = "idle"
         \/ f \notin Natives /\ EntersFor(f, return, Len(vals))
         \/ f \in Natives /\ running /\ Stays
         \/ /\ f \in Natives /\ phase = "called" /\ phase' = "running"
            /\ frames' = <<DummyFrame>> /\ pc' = NoPos /\ labels' = <<>> /\ locals' = <<>>
<1>1. CASE f \in Natives
  <2>1. PICK v \in Val : InvokeNative(f, vals, return, v)
    BY <1>1 DEF InvokeFunc
  <2>2. UNCHANGED <<labels, frames, locals>>
    BY <2>1 DEF InvokeNative
  <2>3. CASE f \in Exiting
    BY <2>1, <2>3 DEF InvokeNative
  <2>4. CASE f \notin Exiting
    <3>1. pc' = return /\ phase' = "running" /\ callee' = callee
      BY <2>1, <2>4 DEF InvokeNative
    <3>2. CASE phase = "called"
      BY <1>1, <2>2, <3>1, <3>2 DEF CallsFor, TypedStacks, DummyBelow, Nested
    <3>3. CASE phase # "called"
      <4>1. /\ running /\ pc.at # "dummy" /\ return.at = "any" /\ return.func = pc.func
            /\ return.ctl = pc.ctl
        BY <3>3 DEF CallsFor
      <4>2. Len(frames) >= 2
        BY <4>1, RunningFacts
      <4>3. Len(locals') = Len(locals) /\ Keeps(locals, locals', Inner.locals)
        BY <2>2, <4>1, <4>2, LocalsStay
      <4>4. Stays
        BY <2>2, <3>1, <4>1, <4>3, InstructionStays
      <4>5. QED
        BY <1>1, <4>1, <4>4
    <3>4. QED
      BY <3>2, <3>3
  <2>5. QED
    BY <2>3, <2>4
<1>2. CASE f \notin Natives
  <2> DEFINE frame == NewFrame(f, return, Len(vals))
  <2>1. InvokeWasm(f, vals, return) /\ (LocalsFull(f) \/ Params[f] <= Len(vals))
    BY <1>2 DEF InvokeFunc, Invokable
  <2>2. frames' = Append(frames, frame) /\ UNCHANGED labels
    BY <2>1 DEF InvokeWasm
  <2>3. CASE LocalsFull(f)
    BY <2>1, <2>3 DEF InvokeWasm, Fail
  <2>4. CASE ~LocalsFull(f)
    <3>1. /\ locals' = locals \o Arguments(f, vals) \o Zeros(Locals[f])
          /\ IF Full(frames', FrameCap)
             THEN Fail(TrapStackOverflow)
             ELSE pc' = Pos("entry", f, 0) /\ phase' = "running" /\ callee' = callee
      BY <2>1, <2>4 DEF InvokeWasm
    <3>2. CASE Full(frames', FrameCap)
      BY <3>1, <3>2 DEF Fail
    <3>3. CASE ~Full(frames', FrameCap)
      <4>1. pc' = Pos("entry", f, 0) /\ phase' = "running" /\ callee' = callee
        BY <3>1, <3>3
      <4>2. /\ locals \in Seq(Val) /\ Len(locals) \in Nat
            /\ Arguments(f, vals) \in Seq(Val) /\ Len(Arguments(f, vals)) = Params[f]
            /\ Zeros(Locals[f]) \in Seq(Val) /\ Len(Zeros(Locals[f])) = Locals[f]
            /\ Params[f] \in Nat /\ Locals[f] \in Nat
        BY <2>1, <2>4, ArgumentsType, FuncsAssumption, LenProperties DEF TypedStacks, TypeInv
      <4>3. /\ Keeps(locals, locals', Len(locals))
            /\ Len(locals') = Len(locals) + Params[f] + Locals[f]
        <5>1. ASSUME NEW a \in Seq(Val), NEW b \in Seq(Val), locals' = locals \o a \o b
              PROVE  /\ Keeps(locals, locals', Len(locals))
                     /\ Len(locals') = Len(locals) + Len(a) + Len(b)
          BY <4>2, <5>1, KeepsExtended
        <5>2. QED
          BY <3>1, <4>2, <5>1
      <4>4. IF running THEN /\ Len(frames) >= 2 /\ return.at = "any"
                            /\ return.func = pc.func /\ return.ctl = pc.ctl
                       ELSE phase = "called" /\ f = callee
        BY RunningFacts DEF CallsFor, running
      <4>5. EntersFor(f, return, Len(vals))
        BY <2>2, <4>1, <4>3, <4>4 DEF EntersFor
      <4>6. QED
        BY <1>2, <4>5
    <3>4. QED
      BY <3>2, <3>3
  <2>5. QED
    BY <2>3, <2>4
<1>3. QED
  BY <1>1, <1>2

LEMMA InvokeNested ==
  ASSUME TypedStacks, Nested, NEW f \in Funcs, NEW vals \in Seq(Val), NEW return \in Position,
         CallsFor(f, return), InvokeFunc(f, vals, return)
  PROVE  Nested'
<1>1. CASE phase' = "idle"
  BY <1>1, NestedIdle
<1>2. CASE f \notin Natives /\ EntersFor(f, return, Len(vals))
  <2>1. Len(vals) \in Nat
    BY LenProperties
  <2>2. QED
    BY <1>2, <2>1, NestedEnters
<1>3. CASE Stays
  BY <1>3, NestedStays
<1>4. CASE /\ phase' = "running" /\ frames' = <<DummyFrame>>
           /\ labels' = <<>> /\ locals' = <<>>
  <2>1. Len(frames') = 1
    BY <1>4
  <2>2. Acts' = {}
    BY <2>1 DEF Acts
  <2>3. Ordered' /\ \A i \in Acts' : Active(i)'
    BY <2>2 DEF Ordered
  <2>4. QED
    BY <1>4, <2>1, <2>3 DEF Nested
<1>5. QED
  BY <1>1, <1>2, <1>3, <1>4, InvokeSteps

(* The call an instruction makes.                                           *)
LEMMA CallingCalls ==
  ASSUME TypedStacks, NEW f \in Funcs, Call(f)
  PROVE  /\ running /\ pc.at # "dummy" /\ After(Params[f], Ret[f]) \in Position
         /\ CallsFor(f, After(Params[f], Ret[f]))
         /\ values \in Seq(Val) /\ InvokeFunc(f, values, After(Params[f], Ret[f]))
<1>1. Params[f] \in Nat /\ Ret[f] \in Nat
  <2>1. Params[f] \in Nat /\ Ret[f] \in 0..1
    BY FuncsAssumption
  <2>2. QED
    BY <2>1
<1>2. running /\ pc.at # "dummy" /\ After(Params[f], Ret[f]) \in Position
  BY <1>1, MayFacts DEF Call
<1>3. QED
  BY <1>2, AfterFacts DEF CallsFor, running, Call, TypedStacks, TypeInv

LEMMA IndirectCalls ==
  ASSUME TypedStacks, NEW t \in Types, CallIndirect(t)
  PROVE  LET vals == DropLast(values, 1)
             f == Callee
             return == After(t.params + 1, t.ret)
         IN /\ running /\ pc.at # "dummy" /\ vals \in Seq(Val)
            /\ \/ phase' = "idle"
               \/ /\ f \in Funcs /\ return \in Position /\ Type(f) = t
                  /\ CallsFor(f, return) /\ InvokeFunc(f, vals, return)
<1> DEFINE vals == DropLast(values, 1)
           f == Callee
           return == After(t.params + 1, t.ret)
<1>0. 1 \in Nat
  OBVIOUS
<1>1. running /\ pc.at # "dummy" /\ return \in Position /\ vals \in Seq(Val)
  BY <1>0, IndirectFacts, DropValuesType
<1>2. CASE ~Called(t)
  <2>1. \E r \in 0..9 : Fail(r)
    BY <1>2 DEF CallIndirect, TrapUndefinedElement, TrapIndirectCallTypeMismatch
  <2>2. QED
    BY <1>1, <2>1 DEF Fail
<1>3. CASE Called(t)
  <2>1. f \in Funcs
    BY <1>3, IndirectCallee
  <2>2. InvokeFunc(f, vals, return)
    BY <1>3 DEF CallIndirect
  <2>3. CallsFor(f, return)
    BY <1>1, AfterFacts DEF CallsFor, running
  <2>4. QED
    BY <1>1, <1>3, <2>1, <2>2, <2>3 DEF Called
<1>4. QED
  BY <1>2, <1>3

LEMMA CallingNested ==
  ASSUME TypedStacks, Nested, Calling
  PROVE  Nested'
<1>1. ASSUME NEW f \in Funcs, Call(f) PROVE Nested'
  BY <1>1, CallingCalls, InvokeNested
<1>2. ASSUME NEW t \in Types, CallIndirect(t) PROVE Nested'
  BY <1>2, IndirectCalls, InvokeNested, NestedIdle
<1>3. QED
  BY <1>1, <1>2 DEF Calling

LEMMA HostNested ==
  ASSUME TypedStacks, Nested, Host
  PROVE  Nested'
<1>1. ASSUME NEW f \in Entries, NEW args \in [1..Type(f).params -> Val], Invoke(f, args)
      PROVE  Nested'
  BY <1>1 DEF Invoke, Nested, running
<1>2. CASE InvokeEntry
  <2>1. callee \in Funcs /\ values \in Seq(Val) /\ pc \in Position
    BY FuncsAssumption DEF TypedStacks, TypeInv
  <2>2. phase = "called" /\ InvokeFunc(callee, values, pc) /\ pc = NoPos
    BY <1>2 DEF InvokeEntry, TypedStacks, DummyBelow
  <2>3. CallsFor(callee, pc)
    BY <2>2 DEF CallsFor
  <2>4. QED
    BY <2>1, <2>2, <2>3, InvokeNested
<1>3. CASE Finish
  BY <1>3, NestedIdle DEF Finish
<1>4. QED
  BY <1>1, <1>2, <1>3 DEF Host

-----------------------------------------------------------------------------
LEMMA InitNested == Init => Nested
BY DEF Init, Nested, running

LEMMA NextNested ==
  ASSUME ~BrOut
  PROVE  TypedStacks /\ TypedStacks' /\ Nested /\ [Next]_vars => Nested'
<1> SUFFICES ASSUME TypedStacks, TypedStacks', Nested, [Next]_vars PROVE Nested'
  OBVIOUS
<1>1. CASE Plain
  BY <1>1, PlainSteps, NestedStays, NestedIdle
<1>2. CASE Structured
  BY <1>2, StructuredNested
<1>3. CASE Calling
  BY <1>3, CallingNested
<1>4. CASE Host
  BY <1>4, HostNested
<1>5. CASE UNCHANGED vars
  BY <1>5 DEF vars, Nested, running, Outermost, Placed, Ordered, Acts, Active, Suspended,
              PosOf, LabelEnd, LocalEnd
<1>6. CASE Astray
  BY <1>6 DEF Astray, Nested, running
<1>7. QED
  BY <1>1, <1>2, <1>3, <1>4, <1>5, <1>6 DEF Next, Gone

LEMMA NestedAlways ==
  ASSUME ~BrOut
  PROVE  Spec => [](TypedStacks /\ Nested)
<1>1. Init => TypedStacks /\ Nested
  BY InitType, InitNested
<1>2. (TypedStacks /\ Nested) /\ [Next]_vars => (TypedStacks /\ Nested)'
  BY NextType, NextNested
<1>3. QED
  BY <1>1, <1>2, PTL DEF Spec

(* The code that runs is that of the innermost frame, and every caller      *)
(* resumes in its own: so for every program that branches to the label of a *)
(* body in the outermost activation only, as BranchOut.cfg shows the others *)
(* to go wrong.                                                             *)
THEOREM CodeOfFrames ==
  ASSUME ~BrOut
  PROVE  Spec => []FrameOfCode
<1>1. TypedStacks /\ Nested => FrameOfCode
  BY ActFacts DEF FrameOfCode, Active, Well
<1>2. QED
  BY <1>1, NestedAlways, PTL

(* The labels an activation owns are those of the blocks around its place,  *)
(* in nesting order: br and end, which count labels, find the right one.    *)
THEOREM BlocksLabelled ==
  ASSUME ~BrOut
  PROVE  Spec => []LabelsOfBlocks
<1>1. ASSUME TypedStacks, Nested, running, NEW i \in Acts
      PROVE  LET p == PosOf(i)
                 n == frames[i].labelStackSize
             IN /\ i = 2 => n = 0
                /\ LabelEnd(i) = n + Len(p.ctl)
                /\ \A j \in 1..Len(p.ctl) :
                     LabelOf(labels[n + j], p.func, p.ctl[j], SubSeq(p.ctl, 1, j - 1))
  <2>1. Active(i) /\ Outermost
    BY <1>1, ActFacts DEF Nested
  <2>2. QED
    BY <2>1 DEF Active, Well, Outermost
<1>2. TypedStacks /\ Nested => LabelsOfBlocks
  BY <1>1 DEF LabelsOfBlocks, Nested
<1>3. QED
  BY <1>2, NestedAlways, PTL

(* The locals stack is the concatenation of the locals of the activations.  *)
THEOREM LocalsConcatenated ==
  ASSUME ~BrOut
  PROVE  Spec => []LocalsOfFrames
<1>1. ASSUME TypedStacks, Nested, running, NEW i \in Acts
      PROVE  /\ i = 2 => frames[i].locals = 0
             /\ frames[i].localSize = Params[frames[i].func] + Locals[frames[i].func]
             /\ LocalEnd(i) = frames[i].locals + frames[i].localSize
  <2>1. Active(i) /\ Outermost
    BY <1>1, ActFacts DEF Nested
  <2>2. QED
    BY <2>1 DEF Active, Well, Outermost
<1>2. TypedStacks /\ Nested => LocalsOfFrames
  BY <1>1 DEF LocalsOfFrames, Nested
<1>3. QED
  BY <1>2, NestedAlways, PTL
=============================================================================
