-------------------------- MODULE RuntimeImplements --------------------------
(****************************************************************************)
(* The interpreter implements the activation machine: read off its four     *)
(* stacks by the sizes the frames saved, every step of it is a step of      *)
(* Activations or a stutter.  For every program that branches to the label  *)
(* of a body only in the outermost activation, returns over unused operands *)
(* only where nothing was passed, and holds no more operands per function   *)
(* than the array of the values has room for.                               *)
(****************************************************************************)
EXTENDS RuntimeOperands, RuntimeRefines

-----------------------------------------------------------------------------
(* Slices of a stack.                                                       *)

LEMMA Slice ==
  ASSUME NEW S, NEW s \in Seq(S), NEW a \in Nat, NEW b \in Nat, a <= b, b <= Len(s)
  PROVE  /\ SubSeq(s, a + 1, b) \in Seq(S) /\ Len(SubSeq(s, a + 1, b)) = b - a
         /\ \A x \in 1..(b - a) : SubSeq(s, a + 1, b)[x] = s[a + x]
<1>1. a + 1 \in Int /\ b \in Int /\ Len(s) \in Nat
  BY LenProperties
<1>2. ASSUME NEW i \in (a + 1)..b PROVE s[i] \in S
  <2>1. i \in 1..Len(s)
    BY <1>1
  <2>2. QED
    BY <2>1, ElementOfSeq
<1>3. /\ SubSeq(s, a + 1, b) \in Seq(S)
      /\ Len(SubSeq(s, a + 1, b)) = IF a + 1 <= b THEN b - (a + 1) + 1 ELSE 0
      /\ \A i \in 1..(b - (a + 1) + 1) : SubSeq(s, a + 1, b)[i] = s[(a + 1) + i - 1]
  BY <1>1, <1>2, SubSeqProperties
<1>4. b - (a + 1) + 1 = b - a /\ \A x \in Int : (a + 1) + x - 1 = a + x
  OBVIOUS
<1>5. (IF a + 1 <= b THEN b - (a + 1) + 1 ELSE 0) = b - a
  OBVIOUS
<1>6. QED
  BY <1>3, <1>4, <1>5

LEMMA SameSlice ==
  ASSUME NEW S, NEW s \in Seq(S), NEW t \in Seq(S), NEW a \in Nat, NEW b \in Nat, a <= b,
         b <= Len(s), Keeps(s, t, b)
  PROVE  SubSeq(s, a + 1, b) = SubSeq(t, a + 1, b)
<1>1. b <= Len(t) /\ \A x \in 1..b : t[x] = s[x]
  BY DEF Keeps
<1>2. /\ SubSeq(s, a + 1, b) \in Seq(S) /\ Len(SubSeq(s, a + 1, b)) = b - a
      /\ \A x \in 1..(b - a) : SubSeq(s, a + 1, b)[x] = s[a + x]
  BY Slice
<1>3. /\ SubSeq(t, a + 1, b) \in Seq(S) /\ Len(SubSeq(t, a + 1, b)) = b - a
      /\ \A x \in 1..(b - a) : SubSeq(t, a + 1, b)[x] = t[a + x]
  BY <1>1, Slice
<1>4. \A x \in 1..(b - a) : a + x \in 1..b
  OBVIOUS
<1>5. \A x \in 1..(b - a) : SubSeq(s, a + 1, b)[x] = SubSeq(t, a + 1, b)[x]
  BY <1>1, <1>2, <1>3, <1>4
<1>6. QED
  BY <1>2, <1>3, <1>5, SeqEqual

(* The entries of s behind the first a, up to b.                            *)
Between(s, a, b) == SubSeq(s, a + 1, b)

LEMMA SameBetween ==
  ASSUME NEW S, NEW s \in Seq(S), NEW t \in Seq(S), NEW a \in Nat, NEW b \in Nat, a <= b,
         b <= Len(s), Keeps(s, t, b)
  PROVE  Between(s, a, b) = Between(t, a, b)
BY SameSlice DEF Between

LEMMA SamePrefix ==
  ASSUME NEW S, NEW s \in Seq(S), NEW t \in Seq(S), NEW n \in Nat, n <= Len(s), n <= Len(t),
         \A x \in 1..n : s[x] = t[x]
  PROVE  SubSeq(s, 1, n) = SubSeq(t, 1, n)
<1>1. 0 \in Nat /\ 0 <= n /\ 0 + 1 = 1 /\ Keeps(s, t, n)
  BY DEF Keeps
<1>2. SubSeq(s, 0 + 1, n) = SubSeq(t, 0 + 1, n)
  BY <1>1, SameSlice
<1>3. QED
  BY <1>1, <1>2

-----------------------------------------------------------------------------
(* The activations.                                                         *)

Act == [func : Funcs, ops : Seq(Val), locals : Seq(Val)]

(* The operands and locals of an activation are slices of the stacks.       *)
Sliced(i) ==
  /\ Base(i) \in Nat /\ ValueEnd(i) \in Nat
  /\ Base(i) <= ValueEnd(i) /\ ValueEnd(i) <= Len(values)
  /\ frames[i].locals \in Nat /\ LocalEnd(i) \in Nat
  /\ frames[i].locals <= LocalEnd(i) /\ LocalEnd(i) <= Len(locals)
  /\ LocalEnd(i) - frames[i].locals = frames[i].localSize
  /\ frames[i].func \in Funcs \ Natives

LEMMA ActsSliced ==
  ASSUME Facts, running, NEW i \in Acts
  PROVE  Sliced(i)
<1>1. /\ frames[i] \in Frame /\ Active(i) /\ Base(i) \in Nat /\ Len(frames) \in Nat
      /\ frames[i].func \in Funcs \ Natives /\ Len(frames) >= 2 /\ i \in Nat
      /\ Len(values) \in Nat
  BY ActFacts, OperatedFacts DEF Facts
<1>2. /\ Len(frames) \in Acts /\ BaseOf(Inner) = Base(Len(frames)) /\ BaseOf(Inner) \in Nat
      /\ BaseOf(Inner) <= Len(values) /\ Inner \in Frame /\ Inner = frames[Len(frames)]
  BY <1>1, TopFacts
<1>3. Inner.locals \in Nat /\ Inner.localSize \in Nat /\ Len(locals) \in Nat
      /\ Len(locals) = Inner.locals + Inner.localSize
  <2>1. Active(Len(frames)) /\ LocalEnd(Len(frames)) = Len(locals)
    BY <1>2, ActFacts DEF Facts
  <2>2. Inner.locals \in Nat /\ Inner.localSize \in Nat
    BY <1>2 DEF Frame
  <2>3. QED
    BY <1>2, <2>1, <2>2 DEF Active
<1>4. /\ frames[i].locals \in Nat /\ frames[i].localSize \in Nat
      /\ LocalEnd(i) = frames[i].locals + frames[i].localSize
  BY <1>1 DEF Frame, Active
<1>5. LocalEnd(i) \in Nat /\ frames[i].locals <= LocalEnd(i)
      /\ LocalEnd(i) - frames[i].locals = frames[i].localSize
  BY <1>4
<1>6. CASE i = Len(frames)
  <2>1. ValueEnd(i) = Len(values) /\ LocalEnd(i) = Len(locals)
    BY <1>6 DEF ValueEnd, LocalEnd, Suspended
  <2>2. QED
    BY <1>1, <1>2, <1>4, <1>5, <1>6, <2>1 DEF Sliced
<1>7. CASE i # Len(frames)
  <2>1. i + 1 \in Acts /\ i < Len(frames)
    BY <1>1, <1>7 DEF Acts
  <2>2. ValueEnd(i) = Base(i + 1) /\ LocalEnd(i) = frames[i + 1].locals /\ Base(i + 1) \in Nat
    BY <2>1, OperatedFacts DEF ValueEnd, LocalEnd, Suspended
  <2>3. i <= i + 1 /\ i + 1 <= Len(frames)
    BY <1>1, <2>1
  <2>4. Base(i) <= Base(i + 1) /\ Base(i + 1) <= Base(Len(frames))
    BY <1>2, <2>1, <2>3 DEF Facts, Operands, Rising
  <2>5. frames[i + 1].locals <= Inner.locals
    BY <1>2, <2>1, <2>3 DEF Facts, Nested, Ordered
  <2>6. Base(i + 1) <= Len(values) /\ LocalEnd(i) <= Len(locals)
    BY <1>1, <1>2, <1>3, <1>5, <2>2, <2>4, <2>5, SMTT(30)
  <2>7. QED
    BY <1>1, <1>4, <1>5, <2>2, <2>4, <2>6 DEF Sliced
<1>8. QED
  BY <1>6, <1>7

LEMMA ActType ==
  ASSUME Facts, running, NEW i \in Acts
  PROVE  /\ ActivationAt(i) \in Act
         /\ Len(ActivationAt(i).ops) = ValueEnd(i) - Base(i)
         /\ Len(ActivationAt(i).locals) = frames[i].localSize
<1>1. Sliced(i)
  BY ActsSliced
<1>2. values \in Seq(Val) /\ locals \in Seq(Val)
  BY DEF Facts, TypedStacks, TypeInv
<1>a. \A s \in Seq(Val), a, b \in Nat : a <= b /\ b <= Len(s) =>
        SubSeq(s, a + 1, b) \in Seq(Val) /\ Len(SubSeq(s, a + 1, b)) = b - a
  BY Slice
<1>b. /\ Base(i) \in Nat /\ ValueEnd(i) \in Nat /\ frames[i].locals \in Nat /\ LocalEnd(i) \in Nat
      /\ Base(i) <= ValueEnd(i) /\ ValueEnd(i) <= Len(values)
      /\ frames[i].locals <= LocalEnd(i) /\ LocalEnd(i) <= Len(locals)
  BY <1>1 DEF Sliced
<1>3. /\ SubSeq(values, Base(i) + 1, ValueEnd(i)) \in Seq(Val)
      /\ Len(SubSeq(values, Base(i) + 1, ValueEnd(i))) = ValueEnd(i) - Base(i)
  BY <1>2, <1>a, <1>b
<1>4. /\ SubSeq(locals, frames[i].locals + 1, LocalEnd(i)) \in Seq(Val)
      /\ Len(SubSeq(locals, frames[i].locals + 1, LocalEnd(i))) = LocalEnd(i) - frames[i].locals
  BY <1>2, <1>a, <1>b
<1>5. QED
  BY <1>1, <1>3, <1>4 DEF Sliced, ActivationAt, Act

(* The stack of the activation machine, in this state and in the next.      *)
Stacked ==
  /\ ActivationStack \in Seq(Act)
  /\ IF running THEN /\ Len(ActivationStack) = Len(frames) - 1
                     /\ \A i \in Acts : ActivationStack[i - 1] = ActivationAt(i)
                ELSE ActivationStack = <<>>

LEMMA StackType == Facts => Stacked
<1> SUFFICES ASSUME Facts PROVE Stacked
  OBVIOUS
<1>1. CASE ~running
  BY <1>1, EmptySeq DEF Stacked, ActivationStack
<1>2. CASE running
  <2>1. frames \in Seq(Frame) /\ frames # <<>> /\ Len(frames) \in Nat
    BY <1>2, LenProperties DEF Facts, TypedStacks, TypeInv, DummyBelow
  <2>2. Len(frames) - 1 \in Nat
    BY <2>1, EmptySeq
  <2>3. ASSUME NEW i \in 1..(Len(frames) - 1) PROVE ActivationAt(i + 1) \in Act
    <3>1. i + 1 \in Acts
      BY <2>1 DEF Acts
    <3>2. QED
      BY <1>2, <3>1, ActType
  <2>4. ActivationStack = [i \in 1..(Len(frames) - 1) |-> ActivationAt(i + 1)]
    BY <1>2 DEF ActivationStack
  <2>5. ActivationStack \in Seq(Act) /\ Len(ActivationStack) = Len(frames) - 1
    BY <2>2, <2>3, <2>4
  <2>6. ASSUME NEW i \in Acts PROVE ActivationStack[i - 1] = ActivationAt(i)
    <3>1. i - 1 \in 1..(Len(frames) - 1) /\ (i - 1) + 1 = i
      BY <2>1 DEF Acts
    <3>2. QED
      BY <2>4, <3>1
  <2>7. QED
    BY <1>2, <2>5, <2>6 DEF Stacked
<1>3. QED
  BY <1>1, <1>2

LEMMA StackNext == Facts' => Stacked'
BY StackType, PTL

ActsTyped ==
  running => \A i \in Acts : /\ ActivationAt(i) \in Act
                             /\ Len(ActivationAt(i).locals) = frames[i].localSize

LEMMA ActsNow == Facts => ActsTyped
BY ActType DEF ActsTyped

LEMMA ActsNext == Facts' => ActsTyped'
BY ActsNow, PTL

(* An activation whose slices a step keeps is the same after it.            *)
LEMMA ActKept ==
  ASSUME Facts, Facts', running, running', NEW i \in Acts, i < Len(frames), i < Len(frames'),
         frames'[i] = frames[i], frames'[i + 1] = frames[i + 1],
         Keeps(values, values', Base(i + 1)), Keeps(locals, locals', frames[i + 1].locals)
  PROVE  ActivationAt(i)' = ActivationAt(i)
<1>1. Sliced(i) /\ Suspended(i) /\ Suspended(i)'
  BY ActsSliced DEF Suspended
<1>2. /\ Base(i)' = Base(i) /\ ValueEnd(i)' = ValueEnd(i) /\ ValueEnd(i) = Base(i + 1)
      /\ LocalEnd(i)' = LocalEnd(i) /\ LocalEnd(i) = frames[i + 1].locals
  BY <1>1 DEF Base, ValueEnd, LocalEnd
<1>3. /\ values \in Seq(Val) /\ locals \in Seq(Val) /\ values' \in Seq(Val) /\ locals' \in Seq(Val)
  BY DEF Facts, TypedStacks, TypeInv
<1>k. Keeps(values, values', ValueEnd(i)) /\ Keeps(locals, locals', LocalEnd(i))
  BY <1>2
<1>4. SubSeq(values, Base(i) + 1, ValueEnd(i)) = SubSeq(values', Base(i) + 1, ValueEnd(i))
  <2>1. /\ Base(i) \in Nat /\ ValueEnd(i) \in Nat
        /\ Base(i) <= ValueEnd(i) /\ ValueEnd(i) <= Len(values)
    BY <1>1 DEF Sliced
  <2>2. PICK a \in Nat, b \in Nat : a = Base(i) /\ b = ValueEnd(i)
    BY <2>1
  <2>3. a <= b /\ b <= Len(values) /\ Keeps(values, values', b)
    BY <1>k, <2>1, <2>2
  <2>4. SubSeq(values, a + 1, b) = SubSeq(values', a + 1, b)
    BY <1>3, <2>3, SameSlice
  <2>5. QED
    BY <2>2, <2>4
<1>5. SubSeq(locals, frames[i].locals + 1, LocalEnd(i))
        = SubSeq(locals', frames[i].locals + 1, LocalEnd(i))
  <2>1. /\ frames[i].locals \in Nat /\ LocalEnd(i) \in Nat
        /\ frames[i].locals <= LocalEnd(i) /\ LocalEnd(i) <= Len(locals)
    BY <1>1 DEF Sliced
  <2>2. PICK a \in Nat, b \in Nat : a = frames[i].locals /\ b = LocalEnd(i)
    BY <2>1
  <2>3. a <= b /\ b <= Len(locals) /\ Keeps(locals, locals', b)
    BY <1>k, <2>1, <2>2
  <2>4. SubSeq(locals, a + 1, b) = SubSeq(locals', a + 1, b)
    BY <1>3, <2>3, SameSlice
  <2>5. QED
    BY <2>2, <2>4
<1>6. QED
  BY <1>2, <1>4, <1>5 DEF ActivationAt

(* A sequence that differs from another in one place.                       *)
LEMMA Changed ==
  ASSUME NEW S, NEW s \in Seq(S), NEW t \in Seq(S), NEW e, NEW k \in 1..Len(s),
         Len(t) = Len(s), t[k] = e, \A x \in 1..Len(s) : x # k => t[x] = s[x]
  PROVE  t = [s EXCEPT ![k] = e]
<1>1. DOMAIN s = 1..Len(s) /\ DOMAIN t = 1..Len(s)
  BY LenProperties
<1>2. t = [x \in 1..Len(s) |-> t[x]]
  BY <1>1, LenProperties
<1>3. QED
  BY <1>1, <1>2

LEMMA MoreOps ==
  ASSUME NEW r \in Act, NEW q \in Act, NEW w \in Seq(Val),
         q.func = r.func, q.ops = w, q.locals = r.locals
  PROVE  q = [r EXCEPT !.ops = w]
<1> DEFINE p == [r EXCEPT !.ops = w]
<1>1. p \in Act
  BY DEF Act
<1>2. p.ops = w /\ p.func = r.func /\ p.locals = r.locals
  BY DEF Act
<1> HIDE DEF p
<1>3. p = q
  BY <1>1, <1>2 DEF Act
<1>4. QED
  BY <1>3 DEF p

LEMMA StaysWork ==
  ASSUME Facts, Facts', StaysFitting, UNCHANGED <<ok, result>>
  PROVE  A!Work
<1> DEFINE stack == ActivationStack
           n == Len(frames)
<1>1. /\ running /\ running' /\ n >= 2 /\ frames' = frames
      /\ Keeps(values, values', BaseOf(Inner)) /\ Keeps(locals, locals', Inner.locals)
  BY DEF StaysFitting, Stays, running
<1>2. n \in Nat /\ n \in Acts /\ BaseOf(Inner) = Base(n) /\ Inner = frames[n]
  BY <1>1, TopFacts
<1>3. /\ stack \in Seq(Act) /\ Len(stack) = n - 1 /\ \A i \in Acts : stack[i - 1] = ActivationAt(i)
      /\ stack' \in Seq(Act) /\ Len(stack') = n - 1
      /\ \A i \in Acts : stack'[i - 1] = ActivationAt(i)'
  BY <1>1, StackType, StackNext DEF Stacked, Acts
<1>4. ASSUME NEW i \in Acts, i < n PROVE ActivationAt(i)' = ActivationAt(i)
  <2>1. /\ i + 1 \in Acts /\ i + 1 <= n /\ Base(i + 1) \in Nat /\ Base(n) \in Nat
        /\ frames[i + 1].locals \in Nat /\ Inner.locals \in Nat
    <3>1. i + 1 \in Acts /\ i + 1 <= n
      BY <1>2, <1>4 DEF Acts
    <3>2. QED
      BY <1>1, <1>2, <3>1, ActsSliced DEF Sliced
  <2>2. Base(i + 1) <= Base(n) /\ frames[i + 1].locals <= Inner.locals
    BY <1>1, <1>2, <2>1 DEF Facts, Operands, Rising, Nested, Ordered
  <2>3. Len(values') \in Int /\ Len(locals') \in Int
    BY LenProperties DEF Facts, TypedStacks, TypeInv
  <2>4. Keeps(values, values', Base(i + 1)) /\ Keeps(locals, locals', frames[i + 1].locals)
    BY <1>1, <1>2, <2>1, <2>2, <2>3, KeepsLess
  <2>5. QED
    BY <1>1, <1>4, <2>4, ActKept
<1>5. SubSeq(stack', 1, Len(stack) - 1) = SubSeq(stack, 1, Len(stack) - 1)
  <2>1. ASSUME NEW x \in 1..(n - 2) PROVE stack'[x] = stack[x]
    <3>1. x + 1 \in Acts /\ x + 1 < n /\ (x + 1) - 1 = x
      BY <1>2 DEF Acts
    <3>2. QED
      BY <1>3, <1>4, <3>1
  <2>2. n - 2 \in Nat /\ n - 2 <= Len(stack) /\ n - 2 <= Len(stack') /\ Len(stack) - 1 = n - 2
    BY <1>1, <1>2, <1>3
  <2>3. SubSeq(stack', 1, n - 2) = SubSeq(stack, 1, n - 2)
    BY <1>3, <2>1, <2>2, SamePrefix
  <2>4. QED
    BY <2>2, <2>3
<1>6. stack[Len(stack)] = ActivationAt(n) /\ stack'[Len(stack)] = ActivationAt(n)'
  <2>1. Len(stack) = n - 1 /\ stack[n - 1] = ActivationAt(n) /\ stack'[n - 1] = ActivationAt(n)'
    BY <1>1, <1>2, <1>3
  <2>2. QED
    BY <2>1
<1>7. ActivationAt(n)'.func = ActivationAt(n).func
  BY <1>1 DEF ActivationAt
<1>8. Len(ActivationAt(n)'.locals) = Len(ActivationAt(n).locals)
  <2>1. \A i \in Acts : Len(ActivationAt(i).locals) = frames[i].localSize
    BY <1>1, ActsNow DEF ActsTyped
  <2>2. \A i \in Acts' : Len(ActivationAt(i)'.locals) = frames'[i].localSize
    BY <1>1, ActsNext DEF ActsTyped
  <2>3. Acts' = Acts
    BY <1>1 DEF Acts
  <2>4. QED
    BY <1>1, <1>2, <2>1, <2>2, <2>3
<1>9. UNCHANGED Returned
  <2>1. ~(n = 1)
    BY <1>1, <1>2
  <2>2. QED
    BY <1>1, <2>1 DEF Returned
<1>10. stack # <<>> /\ Len(stack') = Len(stack)
  BY <1>1, <1>2, <1>3
<1>11. QED
  BY <1>5, <1>6, <1>7, <1>8, <1>9, <1>10 DEF A!Work, A!Below, A!Inner

-----------------------------------------------------------------------------
(* A return, or the end of a function.                                      *)

(* The last n entries of a slice that ends with the stack.                  *)
LEMMA LastOfSlice ==
  ASSUME NEW S, NEW s \in Seq(S), NEW a \in Nat, a <= Len(s), NEW n \in 0..1, n <= Len(s) - a
  PROVE  /\ A!LastN(SubSeq(s, a + 1, Len(s)), n) \in Seq(S)
         /\ Len(A!LastN(SubSeq(s, a + 1, Len(s)), n)) = n
         /\ n = 1 => A!LastN(SubSeq(s, a + 1, Len(s)), n)[1] = Last(s)
<1> DEFINE t == SubSeq(s, a + 1, Len(s))
<1>1. Len(s) \in Nat /\ n \in Nat
  BY LenProperties
<1>2. /\ t \in Seq(S) /\ Len(t) = Len(s) - a
      /\ \A x \in 1..(Len(s) - a) : t[x] = s[a + x]
  BY <1>1, Slice
<1> HIDE DEF t
<1> DEFINE k == Len(t) - n
<1>3. k \in Nat /\ Len(t) \in Nat /\ k <= Len(t) /\ Len(t) - k = n
  BY <1>1, <1>2
<1>4. /\ SubSeq(t, k + 1, Len(t)) \in Seq(S) /\ Len(SubSeq(t, k + 1, Len(t))) = n
      /\ \A x \in 1..n : SubSeq(t, k + 1, Len(t))[x] = t[k + x]
  <2>1. /\ SubSeq(t, k + 1, Len(t)) \in Seq(S) /\ Len(SubSeq(t, k + 1, Len(t))) = Len(t) - k
        /\ \A x \in 1..(Len(t) - k) : SubSeq(t, k + 1, Len(t))[x] = t[k + x]
    BY <1>2, <1>3, Slice
  <2>2. QED
    BY <1>3, <2>1
<1>5. A!LastN(t, n) = SubSeq(t, k + 1, Len(t))
  BY DEF A!LastN
<1>6. ASSUME n = 1 PROVE t[k + 1] = Last(s)
  <2>1. k + 1 = Len(s) - a /\ k + 1 \in 1..(Len(s) - a) /\ a + (k + 1) = Len(s)
    BY <1>1, <1>2, <1>6
  <2>2. QED
    BY <1>2, <2>1 DEF Last
<1>7. /\ A!LastN(t, n) \in Seq(S) /\ Len(A!LastN(t, n)) = n
      /\ n = 1 => A!LastN(t, n)[1] = Last(s)
  BY <1>4, <1>5, <1>6
<1>8. QED
  BY <1>7 DEF t

(* What a function leaves on the stack: that below it, and its results.     *)
Leaving(s, t, b, v) ==
  /\ b <= Len(s) /\ Keeps(s, t, b) /\ Len(v) \in 0..1 /\ Len(t) = b + Len(v)
  /\ Len(v) = 1 => v[1] = Last(t)

Joins(s, t, u) == s = t \o u

LEMMA LeftOver ==
  ASSUME NEW s \in Seq(Val), NEW t \in Seq(Val), NEW v \in Seq(Val),
         NEW a \in Nat, NEW b \in Nat, a <= b, Leaving(s, t, b, v)
  PROVE  Joins(SubSeq(t, a + 1, Len(t)), SubSeq(s, a + 1, b), v)
<1>a. /\ b <= Len(s) /\ Keeps(s, t, b) /\ Len(v) \in 0..1 /\ Len(t) = b + Len(v)
      /\ Len(v) = 1 => v[1] = Last(t)
  BY DEF Leaving
<1>1. /\ Len(t) \in Nat /\ Len(v) \in Nat /\ b <= Len(t) /\ a <= Len(t)
      /\ \A x \in 1..b : t[x] = s[x]
  BY <1>a, LenProperties DEF Keeps
<1>2. /\ SubSeq(t, a + 1, Len(t)) \in Seq(Val) /\ Len(SubSeq(t, a + 1, Len(t))) = Len(t) - a
      /\ \A x \in 1..(Len(t) - a) : SubSeq(t, a + 1, Len(t))[x] = t[a + x]
  BY <1>1, Slice
<1> DEFINE low == SubSeq(s, a + 1, b)
<1>3. low \in Seq(Val) /\ Len(low) = b - a /\ \A x \in 1..(b - a) : low[x] = s[a + x]
  BY <1>a, Slice
<1> HIDE DEF low
<1>4. /\ low \o v \in Seq(Val) /\ Len(low \o v) = Len(low) + Len(v)
      /\ \A x \in 1..(Len(low) + Len(v)) :
           (low \o v)[x] = IF x <= Len(low) THEN low[x] ELSE v[x - Len(low)]
  BY <1>3, ConcatProperties
<1>5. Len(t) - a = Len(low \o v)
  BY <1>a, <1>1, <1>3, <1>4
<1>6. ASSUME NEW x \in 1..(Len(t) - a) PROVE t[a + x] = (low \o v)[x]
  <2>1. CASE x <= b - a
    <3>1. x \in 1..(b - a) /\ a + x \in 1..b /\ x \in 1..(Len(low) + Len(v))
      BY <1>1, <1>3, <2>1
    <3>2. QED
      BY <1>1, <1>3, <1>4, <2>1, <3>1
  <2>2. CASE ~(x <= b - a)
    <3>1. Len(v) = 1 /\ x - (b - a) = 1 /\ a + x = Len(t) /\ x \in 1..(Len(low) + Len(v))
      <4>1. x > b - a /\ x <= (b + Len(v)) - a /\ x \in Int
        BY <1>a, <1>1, <2>2
      <4>2. Len(v) = 1
        BY <1>a, <1>1, <4>1
      <4>3. x - (b - a) = 1 /\ a + x = Len(t)
        BY <1>a, <1>1, <4>1, <4>2
      <4>4. QED
        BY <1>1, <1>3, <4>1, <4>2, <4>3
    <3>2. QED
      BY <1>a, <1>3, <1>4, <2>2, <3>1 DEF Last
  <2>3. QED
    BY <2>1, <2>2
<1>7. \A x \in 1..Len(SubSeq(t, a + 1, Len(t))) : SubSeq(t, a + 1, Len(t))[x] = (low \o v)[x]
  BY <1>2, <1>6
<1>8. SubSeq(t, a + 1, Len(t)) = low \o v
  BY <1>2, <1>4, <1>5, <1>7, SeqEqual
<1>9. QED
  BY <1>8 DEF low, Joins

LEMMA LeavesReturn ==
  ASSUME ~LeftoverReturn, Facts, Facts', LeavesFitting, UNCHANGED <<ok, result>>
  PROVE  A!Return
<1> DEFINE stack == ActivationStack
           n == Len(frames)
           r == Ret[Inner.func]
           b == BaseOf(Inner)
           vals == A!LastN(stack[n - 1].ops, r)
<1>1. /\ running /\ running' /\ n >= 2 /\ frames' = DropLast(frames, 1)
      /\ Keeps(values, values', b) /\ Keeps(locals, locals', Inner.locals)
      /\ Len(locals') = Inner.locals /\ r <= pc.h
      /\ r # 0 => Last(values') = Last(values)
  BY DEF LeavesFitting, Leaves, running
<1>2. /\ n \in Nat /\ n \in Acts /\ b = Base(n) /\ Inner = frames[n] /\ r \in 0..1 /\ r \in Nat
      /\ b \in Nat /\ b + pc.h <= Len(values) /\ Len(values) \in Nat /\ pc.h \in Nat
  BY <1>1, TopFacts
<1>3. /\ values \in Seq(Val) /\ locals \in Seq(Val) /\ frames \in Seq(Frame)
      /\ values' \in Seq(Val) /\ locals' \in Seq(Val)
  BY DEF Facts, TypedStacks, TypeInv
<1>4. Len(values') = b + r
  BY <1>1 DEF LeavesFitting, Slack
<1>5. Len(frames') = n - 1 /\ \A i \in 1..(n - 1) : frames'[i] = frames[i]
  BY <1>1, <1>3, PoppedType
<1>6. /\ stack \in Seq(Act) /\ Len(stack) = n - 1 /\ \A i \in Acts : stack[i - 1] = ActivationAt(i)
  BY <1>1, StackType DEF Stacked
<1>7. /\ stack' \in Seq(Act) /\ Len(stack') = n - 2
      /\ \A i \in Acts' : stack'[i - 1] = ActivationAt(i)'
  <2>1. Len(frames') - 1 = n - 2
    BY <1>2, <1>5
  <2>2. QED
    BY <1>1, <2>1, StackNext DEF Stacked
<1>8. stack[n - 1] = ActivationAt(n) /\ stack # <<>> /\ stack[Len(stack)] = stack[n - 1]
  BY <1>1, <1>2, <1>6
<1>9. /\ stack[n - 1].func = Inner.func /\ stack[n - 1].ops = SubSeq(values, b + 1, Len(values))
      /\ r <= Len(stack[n - 1].ops) /\ r <= Len(values) - b
  <2>1. stack[n - 1].func = Inner.func /\ stack[n - 1].ops = SubSeq(values, b + 1, Len(values))
    <3>1. ValueEnd(n) = Len(values)
      BY <1>2 DEF ValueEnd, Suspended
    <3>2. /\ ActivationAt(n).func = frames[n].func
          /\ ActivationAt(n).ops = SubSeq(values, Base(n) + 1, ValueEnd(n))
      BY DEF ActivationAt
    <3>3. QED
      BY <1>2, <1>8, <3>1, <3>2
  <2>2. b <= Len(values) /\ r <= Len(values) - b
    BY <1>1, <1>2
  <2>3. Len(SubSeq(values, b + 1, Len(values))) = Len(values) - b
    BY <1>2, <1>3, <2>2, Slice
  <2>4. QED
    BY <2>1, <2>2, <2>3
<1>10. vals \in Seq(Val) /\ Len(vals) = r /\ (r = 1 => vals[1] = Last(values'))
  <2>1. b <= Len(values)
    BY <1>1, <1>2
  <2>2. /\ A!LastN(SubSeq(values, b + 1, Len(values)), r) \in Seq(Val)
        /\ Len(A!LastN(SubSeq(values, b + 1, Len(values)), r)) = r
        /\ r = 1 => A!LastN(SubSeq(values, b + 1, Len(values)), r)[1] = Last(values)
    <3>1. \A a \in Nat, m \in 0..1 : a <= Len(values) /\ m <= Len(values) - a =>
            /\ A!LastN(SubSeq(values, a + 1, Len(values)), m) \in Seq(Val)
            /\ Len(A!LastN(SubSeq(values, a + 1, Len(values)), m)) = m
            /\ m = 1 => A!LastN(SubSeq(values, a + 1, Len(values)), m)[1] = Last(values)
      <4> HIDE DEF stack, n, r, b, vals
      <4>1. values \in Seq(Val)
        BY <1>3
      <4>2. QED
        BY <4>1, LastOfSlice
    <3>2. b \in Nat /\ r \in 0..1 /\ b <= Len(values) /\ r <= Len(values) - b
      BY <1>2, <1>9, <2>1
    <3> HIDE DEF stack, n, r, b, vals
    <3>3. QED
      BY <3>1, <3>2
  <2>3. QED
    BY <1>1, <1>9, <2>2
<1> HIDE DEF vals, r, b
<1>11. ASSUME NEW a \in Nat, a <= b
       PROVE  Joins(SubSeq(values', a + 1, Len(values')), SubSeq(values, a + 1, b), vals)
  <2>1. b <= Len(values) /\ Len(vals) \in 0..1 /\ (Len(vals) = 1 => vals[1] = Last(values'))
        /\ Len(values') = b + Len(vals)
    BY <1>1, <1>2, <1>4, <1>10
  <2>2. Keeps(values, values', b) /\ b \in Nat /\ vals \in Seq(Val)
    BY <1>1, <1>2, <1>10
  <2>3. Leaving(values, values', b, vals)
    BY <2>1, <2>2 DEF Leaving
  <2>4. QED
    BY <1>3, <1>11, <2>2, <2>3, LeftOver
<1>12. CASE n = 2
  <2>1. stack' = <<>> /\ Len(stack) = 1
    BY <1>6, <1>7, <1>12, EmptySeq
  <2>2. b = 0
    BY <1>1, <1>2, <1>12 DEF Facts, Operands, b
  <2>3. values' = vals
    <3>1. 0 \in Nat /\ 0 <= b /\ 0 + 1 = 1
      BY <2>2
    <3>2. SubSeq(values', 0 + 1, Len(values')) = SubSeq(values, 0 + 1, b) \o vals
      BY <1>11, <3>1 DEF Joins
    <3>3. SubSeq(values', 1, Len(values')) = SubSeq(values, 1, 0) \o vals
      BY <2>2, <3>1, <3>2
    <3>4. SubSeq(values, 1, 0) = <<>>
      BY SubSeqEmpty
    <3>5. <<>> \o vals = vals
      BY <1>10, ConcatEmptySeq
    <3>6. SubSeq(values', 1, Len(values')) = values'
      BY <1>3, SubSeqFull
    <3>7. QED
      BY <3>3, <3>4, <3>5, <3>6
  <2>4. Returned' = [ok |-> TRUE, vals |-> values']
    <3>1. Len(frames') = 1
      BY <1>5, <1>12
    <3>2. QED
      BY <1>1, <3>1 DEF Returned
  <2>5. QED
    BY <1>8, <1>9, <2>1, <2>3, <2>4 DEF A!Return, A!Inner, r, vals
<1>13. CASE n # 2
  <2> DEFINE below == SubSeq(stack, 1, n - 2)
  <2>c. n \in Nat /\ n >= 2 /\ n # 2
    BY <1>1, <1>2, <1>13
  <2>d. \A k \in Nat : k >= 2 /\ k # 2 => k - 1 \in 2..k /\ k - 2 \in 1..(k - 2)
    OBVIOUS
  <2>a. n - 1 \in 2..n /\ n - 2 \in 1..(n - 2)
    BY <2>c, <2>d
  <2>b. n - 1 \in Acts
    BY <2>a DEF Acts
  <2>0. PICK m \in Acts : m = n - 1
    BY <2>b
  <2>1. m \in Acts /\ m >= 2 /\ m \in Nat /\ m < n /\ m + 1 = n /\ m - 1 = n - 2 /\ m \in Acts'
    BY <1>1, <1>2, <1>5, <1>13, <2>0 DEF Acts
  <2>2. below \in Seq(Act) /\ Len(below) = n - 2 /\ \A x \in 1..(n - 2) : below[x] = stack[x]
    <3>1. 0 \in Nat /\ n - 2 \in Nat /\ 0 <= n - 2 /\ n - 2 <= Len(stack) /\ 0 + 1 = 1
          /\ (n - 2) - 0 = n - 2 /\ \A x \in 1..(n - 2) : 0 + x = x
      BY <1>1, <1>2, <1>6
    <3>2. /\ SubSeq(stack, 0 + 1, n - 2) \in Seq(Act) /\ Len(SubSeq(stack, 0 + 1, n - 2)) = n - 2
          /\ \A x \in 1..(n - 2) : SubSeq(stack, 0 + 1, n - 2)[x] = stack[0 + x]
      BY <1>6, <3>1, Slice
    <3>3. QED
      BY <3>1, <3>2
  <2>3. ASSUME NEW i \in Acts, i < m PROVE ActivationAt(i)' = ActivationAt(i)
    <3>1. /\ i \in 1..(n - 1) /\ i + 1 \in 1..(n - 1) /\ i + 1 \in Acts /\ i + 1 <= n
          /\ i < Len(frames) /\ i < Len(frames')
      BY <1>2, <1>5, <2>1, <2>3 DEF Acts
    <3>2. Base(i + 1) \in Nat /\ frames[i + 1].locals \in Nat /\ Inner.locals \in Nat
      BY <1>1, <1>2, <3>1, ActsSliced DEF Sliced
    <3>3. Base(i + 1) <= b /\ frames[i + 1].locals <= Inner.locals
      BY <1>1, <1>2, <3>1 DEF Facts, Operands, Rising, Nested, Ordered
    <3>4. Len(values') \in Int /\ Len(locals') \in Int
      BY <1>3, LenProperties
    <3>5. Keeps(values, values', Base(i + 1)) /\ Keeps(locals, locals', frames[i + 1].locals)
      BY <1>1, <1>2, <3>2, <3>3, <3>4, KeepsLess
    <3>6. frames'[i] = frames[i] /\ frames'[i + 1] = frames[i + 1]
      BY <1>5, <3>1
    <3>7. QED
      BY <1>1, <3>1, <3>5, <3>6, ActKept
  <2>4. ActivationAt(m)' = [ActivationAt(m) EXCEPT !.ops = @ \o vals]
    <3>1. /\ Sliced(m) /\ frames'[m] = frames[m]
      BY <1>1, <1>2, <1>5, <2>1, ActsSliced
    <3>2. /\ Base(m)' = Base(m) /\ ValueEnd(m)' = Len(values') /\ ValueEnd(m) = b
          /\ LocalEnd(m)' = Len(locals') /\ LocalEnd(m) = Inner.locals
      BY <1>1, <1>2, <1>5, <2>1, <3>1 DEF Base, ValueEnd, LocalEnd, Suspended
    <3>3. SubSeq(values', Base(m) + 1, Len(values')) = SubSeq(values, Base(m) + 1, b) \o vals
      <4>1. Base(m) \in Nat /\ Base(m) <= b
        BY <3>1, <3>2 DEF Sliced
      <4>2. QED
        BY <1>11, <4>1 DEF Joins
    <3>4. SubSeq(locals, frames[m].locals + 1, Inner.locals)
            = SubSeq(locals', frames[m].locals + 1, Inner.locals)
      <4>1. /\ frames[m].locals \in Nat /\ Inner.locals \in Nat
            /\ frames[m].locals <= Inner.locals /\ Inner.locals <= Len(locals)
        BY <3>1, <3>2 DEF Sliced
      <4>2. Keeps(locals, locals', Inner.locals)
        BY <1>1
      <4>3. QED
        BY <1>3, <4>1, <4>2, SameSlice
    <3>5. /\ ActivationAt(m)'.func = ActivationAt(m).func
          /\ ActivationAt(m)'.ops = ActivationAt(m).ops \o vals
          /\ ActivationAt(m)'.locals = ActivationAt(m).locals
      BY <1>1, <3>1, <3>2, <3>3, <3>4 DEF ActivationAt
    <3>6. ActivationAt(m) \in Act /\ ActivationAt(m)' \in Act
      <4>1. stack[m - 1] \in Act /\ stack'[m - 1] \in Act
        BY <1>1, <1>2, <1>6, <1>7, <2>1, <2>a, ElementOfSeq
      <4>2. QED
        BY <1>6, <1>7, <2>1, <4>1
    <3>7. ActivationAt(m).ops \o vals \in Seq(Val)
      BY <1>10, <3>6, ConcatProperties DEF Act
    <3>8. QED
      BY <3>5, <3>6, <3>7, MoreOps
  <2>5. /\ below[n - 2] = ActivationAt(m) /\ stack'[n - 2] = ActivationAt(m)'
        /\ n - 2 \in 1..(n - 2)
    <3>1. n - 2 \in 1..(n - 2)
      BY <2>a
    <3>2. stack[m - 1] = ActivationAt(m) /\ stack'[m - 1] = ActivationAt(m)'
      BY <1>6, <1>7, <2>1
    <3>3. QED
      BY <2>1, <2>2, <3>1, <3>2
  <2>6. ASSUME NEW x \in 1..(n - 2), x # n - 2 PROVE stack'[x] = below[x]
    <3>1. x + 1 \in 2..(n - 1) /\ x + 1 < n - 1 /\ (x + 1) - 1 = x
      BY <1>2, <2>6
    <3>2. x + 1 \in Acts /\ x + 1 < m /\ x + 1 \in Acts'
      BY <1>2, <1>5, <2>0, <3>1 DEF Acts
    <3>3. PICK i \in Acts : i = x + 1
      BY <3>2
    <3>4. ActivationAt(i)' = ActivationAt(i)
      BY <2>3, <3>2, <3>3
    <3>5. stack[i - 1] = ActivationAt(i) /\ stack'[i - 1] = ActivationAt(i)'
      BY <1>6, <1>7, <3>2, <3>3
    <3>6. QED
      BY <2>2, <3>1, <3>3, <3>4, <3>5
  <2> HIDE DEF below
  <2>7. stack' = [below EXCEPT ![n - 2] = [below[n - 2] EXCEPT !.ops = @ \o vals]]
    <3>1. /\ stack'[n - 2] = [below[n - 2] EXCEPT !.ops = @ \o vals]
          /\ n - 2 \in 1..Len(below) /\ Len(stack') = Len(below)
          /\ \A x \in 1..Len(below) : x # n - 2 => stack'[x] = below[x]
      BY <1>7, <2>2, <2>4, <2>5, <2>6
    <3>2. QED
      BY <1>7, <2>2, <3>1, Changed
  <2>8. UNCHANGED Returned
    <3>1. Len(frames') # 1 /\ n # 1
      BY <1>5, <1>13, <2>c
    <3>2. QED
      BY <1>1, <3>1 DEF Returned
  <2>9. Len(stack) # 1 /\ Len(stack) - 1 = n - 2
    BY <1>1, <1>2, <1>6, <1>13
  <2>10. stack' = [A!Below EXCEPT ![Len(stack) - 1].ops = @ \o vals]
    BY <2>7, <2>9 DEF A!Below, below
  <2>11. QED
    BY <1>8, <1>9, <2>8, <2>9, <2>10 DEF A!Return, A!Inner, r, vals
<1>14. QED
  BY <1>12, <1>13

-----------------------------------------------------------------------------
(* A call.                                                                  *)

(* The two ends of a slice.                                                 *)
LEMMA CutSlice ==
  ASSUME NEW s \in Seq(Val), NEW a \in Nat, NEW e \in Nat, NEW n \in Nat,
         e <= Len(s), a + n <= e
  PROVE  /\ A!ButLastN(SubSeq(s, a + 1, e), n) = SubSeq(s, a + 1, e - n)
         /\ A!LastN(SubSeq(s, a + 1, e), n) = SubSeq(s, (e - n) + 1, e)
<1> DEFINE t == SubSeq(s, a + 1, e)
           m == (e - a) - n
           low == SubSeq(t, 1, m)
           high == SubSeq(t, m + 1, e - a)
<1>1. a <= e /\ Len(s) \in Nat /\ m \in Nat /\ m <= e - a /\ e - a \in Nat
  BY LenProperties
<1>2. /\ t \in Seq(Val) /\ Len(t) = e - a
      /\ \A x \in 1..(e - a) : t[x] = s[a + x]
  BY <1>1, Slice
<1>3. A!ButLastN(t, n) = low /\ A!LastN(t, n) = high
  <2>1. Len(t) - n = m /\ Len(t) - n + 1 = m + 1
    BY <1>1, <1>2
  <2> HIDE DEF m, t
  <2>2. QED
    BY <1>2, <2>1 DEF A!ButLastN, A!LastN
<1> HIDE DEF t
<1>4. /\ low \in Seq(Val) /\ Len(low) = m /\ \A x \in 1..m : low[x] = t[x]
  <2>1. 0 \in Nat /\ 0 <= m /\ 0 + 1 = 1 /\ m - 0 = m /\ \A x \in 1..m : 0 + x = x
    BY <1>1
  <2> HIDE DEF m
  <2>2. /\ SubSeq(t, 0 + 1, m) \in Seq(Val) /\ Len(SubSeq(t, 0 + 1, m)) = m - 0
        /\ \A x \in 1..(m - 0) : SubSeq(t, 0 + 1, m)[x] = t[0 + x]
    BY <1>1, <1>2, <2>1, Slice
  <2>3. QED
    BY <2>1, <2>2
<1>5. /\ high \in Seq(Val) /\ Len(high) = (e - a) - m
      /\ \A x \in 1..((e - a) - m) : high[x] = t[m + x]
  <2> HIDE DEF m
  <2>1. /\ SubSeq(t, m + 1, e - a) \in Seq(Val) /\ Len(SubSeq(t, m + 1, e - a)) = (e - a) - m
        /\ \A x \in 1..((e - a) - m) : SubSeq(t, m + 1, e - a)[x] = t[m + x]
    BY <1>1, <1>2, Slice
  <2>2. QED
    BY <2>1
<1> HIDE DEF low, high
<1>6. low = SubSeq(s, a + 1, e - n)
  <2>1. e - n \in Nat /\ a <= e - n /\ e - n <= Len(s) /\ (e - n) - a = m
    BY <1>1
  <2>2. /\ SubSeq(s, a + 1, e - n) \in Seq(Val) /\ Len(SubSeq(s, a + 1, e - n)) = (e - n) - a
        /\ \A x \in 1..((e - n) - a) : SubSeq(s, a + 1, e - n)[x] = s[a + x]
    BY <2>1, Slice
  <2>3. ASSUME NEW x \in 1..m PROVE low[x] = SubSeq(s, a + 1, e - n)[x]
    <3>1. x \in 1..(e - a) /\ x \in 1..((e - n) - a)
      BY <1>1, <2>1
    <3>2. low[x] = s[a + x]
      BY <1>2, <1>4, <3>1
    <3>3. QED
      BY <2>2, <3>1, <3>2
  <2>4. QED
    BY <1>4, <2>1, <2>2, <2>3, SeqEqual
<1>7. high = SubSeq(s, (e - n) + 1, e)
  <2>1. e - n \in Nat /\ e - n <= e /\ e - (e - n) = n /\ (e - a) - m = n /\ a + m = e - n
    BY <1>1
  <2>2. /\ SubSeq(s, (e - n) + 1, e) \in Seq(Val) /\ Len(SubSeq(s, (e - n) + 1, e)) = e - (e - n)
        /\ \A x \in 1..(e - (e - n)) : SubSeq(s, (e - n) + 1, e)[x] = s[(e - n) + x]
    BY <2>1, Slice
  <2>3. ASSUME NEW x \in 1..n PROVE high[x] = SubSeq(s, (e - n) + 1, e)[x]
    <3>1. /\ x \in 1..((e - a) - m) /\ x \in 1..(e - (e - n)) /\ m + x \in 1..(e - a)
          /\ a + (m + x) = (e - n) + x
      BY <1>1, <2>1
    <3>2. high[x] = s[a + (m + x)]
      BY <1>2, <1>5, <3>1
    <3>3. QED
      BY <2>2, <3>1, <3>2
  <2>4. QED
    BY <1>5, <2>1, <2>2, <2>3, SeqEqual
<1>8. A!ButLastN(t, n) = SubSeq(s, a + 1, e - n) /\ A!LastN(t, n) = SubSeq(s, (e - n) + 1, e)
  BY <1>3, <1>6, <1>7 DEF low, high
<1>9. QED
  BY <1>8 DEF t

LEMMA CutBetween ==
  ASSUME NEW s \in Seq(Val), NEW a \in Nat, NEW d \in Nat, NEW e \in Nat, NEW n \in Nat,
         e <= Len(s), a + n <= e, d = e - n
  PROVE  /\ A!ButLastN(Between(s, a, e), n) = Between(s, a, d)
         /\ A!LastN(Between(s, a, e), n) = Between(s, d, e)
BY CutSlice DEF Between

(* A sequence whose last entry changes before another is pushed.            *)
LEMMA Grown ==
  ASSUME NEW S, NEW s \in Seq(S), NEW t \in Seq(S), NEW e \in S, NEW y \in S, NEW k \in Nat,
         Len(s) = k, k >= 1, Len(t) = k + 1, t[k] = e, t[k + 1] = y,
         \A x \in 1..k : x # k => t[x] = s[x]
  PROVE  t = Append([s EXCEPT ![k] = e], y)
<1>1. PICK r \in Seq(S) : /\ r = [s EXCEPT ![k] = e]
                          /\ Len(r) = k /\ \A x \in 1..k : r[x] = t[x]
  <2> DEFINE r == [s EXCEPT ![k] = e]
  <2>1. DOMAIN s = 1..k /\ k \in 1..k
    BY LenProperties
  <2>2. DOMAIN r = 1..k /\ \A x \in 1..k : r[x] = t[x]
    BY <2>1
  <2>3. r = [x \in 1..k |-> t[x]]
    BY <2>1
  <2>4. \A x \in 1..k : t[x] \in S
    <3>1. \A x \in 1..k : x \in 1..Len(t)
      OBVIOUS
    <3>2. QED
      BY <3>1, ElementOfSeq
  <2>5. [x \in 1..k |-> t[x]] \in Seq(S) /\ Len([x \in 1..k |-> t[x]]) = k
    BY <2>4
  <2> HIDE DEF r
  <2>6. r \in Seq(S) /\ Len(r) = k
    BY <2>3, <2>5
  <2>7. QED
    BY <2>2, <2>6 DEF r
<1>2. Len(r) = k /\ \A x \in 1..k : r[x] = t[x]
  BY <1>1
<1>3. /\ Append(r, y) \in Seq(S) /\ Len(Append(r, y)) = k + 1
      /\ \A x \in 1..k : Append(r, y)[x] = r[x] /\ Append(r, y)[k + 1] = y
  BY <1>2, AppendProperties
<1>4. \A x \in 1..(k + 1) : x \in 1..k \/ x = k + 1
  OBVIOUS
<1>5. \A x \in 1..(k + 1) : t[x] = Append(r, y)[x]
  BY <1>2, <1>3, <1>4
<1>6. t = Append(r, y)
  BY <1>3, <1>5, SeqEqual
<1>7. QED
  BY <1>1, <1>6

(* The locals of a new activation are those pushed for it.                  *)
LEMMA NewLocals ==
  ASSUME NEW l \in Seq(Val), NEW a \in Seq(Val), NEW z \in Seq(Val), NEW t \in Seq(Val),
         t = l \o a \o z
  PROVE  Joins(SubSeq(t, Len(l) + 1, Len(t)), a, z)
<1>1. PICK u \in Seq(Val) : u = l \o a
  BY ConcatProperties
<1>2. /\ Len(u) = Len(l) + Len(a) /\ Len(l) \in Nat /\ Len(a) \in Nat /\ Len(z) \in Nat
      /\ \A x \in 1..(Len(l) + Len(a)) : u[x] = IF x <= Len(l) THEN l[x] ELSE a[x - Len(l)]
  BY <1>1, ConcatProperties, LenProperties
<1>3. /\ Len(t) = Len(u) + Len(z)
      /\ \A x \in 1..(Len(u) + Len(z)) : t[x] = IF x <= Len(u) THEN u[x] ELSE z[x - Len(u)]
  <2>1. t = u \o z
    BY <1>1
  <2>2. QED
    BY <2>1, ConcatProperties
<1>4. PICK v \in Seq(Val) : v = a \o z
  BY ConcatProperties
<1>5. /\ Len(v) = Len(a) + Len(z)
      /\ \A x \in 1..(Len(a) + Len(z)) : v[x] = IF x <= Len(a) THEN a[x] ELSE z[x - Len(a)]
  BY <1>4, ConcatProperties
<1>6. /\ Len(l) <= Len(t) /\ Len(t) \in Nat /\ Len(t) - Len(l) = Len(v)
  BY <1>2, <1>3, <1>5
<1> DEFINE w == SubSeq(t, Len(l) + 1, Len(t))
<1>7. /\ w \in Seq(Val) /\ Len(w) = Len(v)
      /\ \A x \in 1..Len(v) : w[x] = t[Len(l) + x]
  BY <1>2, <1>6, Slice, SMTT(30)
<1> HIDE DEF w
<1>8. ASSUME NEW x \in 1..Len(v) PROVE w[x] = v[x]
  <2>1. /\ Len(l) + x \in 1..(Len(u) + Len(z)) /\ x \in 1..(Len(a) + Len(z)) /\ x \in Int
        /\ ~(Len(l) + x <= Len(l)) /\ (Len(l) + x) - Len(l) = x
    BY <1>2, <1>5
  <2>2. CASE x <= Len(a)
    <3>1. Len(l) + x <= Len(u) /\ Len(l) + x \in 1..(Len(l) + Len(a))
      BY <1>2, <2>1, <2>2
    <3>2. t[Len(l) + x] = u[Len(l) + x] /\ u[Len(l) + x] = a[x]
      BY <1>2, <1>3, <2>1, <3>1
    <3>3. QED
      BY <1>5, <1>7, <2>1, <2>2, <3>2
  <2>3. CASE ~(x <= Len(a))
    <3>1. ~(Len(l) + x <= Len(u)) /\ (Len(l) + x) - Len(u) = x - Len(a)
      BY <1>2, <2>1, <2>3
    <3>2. t[Len(l) + x] = z[x - Len(a)]
      BY <1>3, <2>1, <3>1
    <3>3. QED
      BY <1>5, <1>7, <2>1, <2>3, <3>2
  <2>4. QED
    BY <2>2, <2>3
<1>9. w = v
  BY <1>7, <1>8, SeqEqual
<1>10. QED
  BY <1>4, <1>9 DEF w, Joins

LEMMA NewActivation ==
  ASSUME Facts, Facts', NEW f \in Funcs \ Natives, NEW return \in Position,
         NEW vals \in Seq(Val), EntersFitting(f, return, vals),
         NEW m \in Nat, m = Len(frames) + 1
  PROVE  /\ ActivationAt(m)' = A!New(f, Arguments(f, vals)) /\ Len(frames') = m
         /\ Base(m)' = Len(vals) - Params[f] /\ frames'[m].locals = Len(locals)
         /\ \A i \in 1..Len(frames) : frames'[i] = frames[i]
         /\ Len(vals) - Params[f] \in Nat /\ Len(values') = Len(vals) - Params[f]
<1> DEFINE new == NewFrame(f, return, Len(vals))
           c == Len(vals) - Params[f]
<1>1. /\ frames \in Seq(Frame) /\ values' \in Seq(Val) /\ locals \in Seq(Val)
      /\ locals' \in Seq(Val) /\ TypedStacks /\ Len(vals) \in Nat
  BY LenProperties DEF Facts, TypedStacks, TypeInv
<1>2. /\ frames' = Append(frames, new) /\ Params[f] <= Len(vals) /\ phase' = "running"
      /\ values' = DropLast(vals, Params[f])
      /\ locals' = locals \o Arguments(f, vals) \o Zeros(Locals[f])
  BY DEF EntersFitting, EntersFor, WithoutArguments
<1>3. Params[f] \in Nat /\ Locals[f] \in Nat
  BY FuncsAssumption
<1>4. /\ new \in Frame /\ new.func = f /\ new.valueStackSize = Len(vals)
      /\ new.locals = Len(locals)
  BY <1>1, NewFrameType DEF NewFrame
<1>5. c \in Nat /\ Len(values') = c
  BY <1>1, <1>2, <1>3, DropLen
<1>6. /\ Len(frames') = m /\ frames'[m] = new
      /\ \A i \in 1..Len(frames) : frames'[i] = frames[i]
  BY <1>1, <1>2, <1>4, AppendProperties
<1>7. /\ frames'[m].func = f /\ Base(m)' = c /\ ValueEnd(m)' = c
      /\ frames'[m].locals = Len(locals) /\ LocalEnd(m)' = Len(locals')
  BY <1>4, <1>5, <1>6 DEF Base, ValueEnd, LocalEnd, Suspended
<1>8. SubSeq(values', c + 1, c) = <<>>
  <2>1. c <= c /\ c <= Len(values') /\ c - c = 0
    BY <1>5
  <2>2. SubSeq(values', c + 1, c) \in Seq(Val) /\ Len(SubSeq(values', c + 1, c)) = 0
    BY <1>1, <1>5, <2>1, Slice
  <2>3. QED
    BY <2>2, EmptySeq
<1>9. Joins(SubSeq(locals', Len(locals) + 1, Len(locals')), Arguments(f, vals), Zeros(Locals[f]))
  <2>1. Arguments(f, vals) \in Seq(Val) /\ Zeros(Locals[f]) \in Seq(Val)
    BY <1>2, ArgumentsType
  <2>2. QED
    BY <1>1, <1>2, <2>1, NewLocals
<1>10. SubSeq(locals', Len(locals) + 1, Len(locals')) = Arguments(f, vals) \o Zeros(Locals[f])
  BY <1>9 DEF Joins
<1>11. ActivationAt(m)' = [func |-> f, ops |-> <<>>,
                           locals |-> Arguments(f, vals) \o Zeros(Locals[f])]
  BY <1>7, <1>8, <1>10 DEF ActivationAt
<1>12. A!New(f, Arguments(f, vals)) = [func |-> f, ops |-> <<>>,
                                       locals |-> Arguments(f, vals) \o Zeros(Locals[f])]
  BY DEF A!New, Zeros
<1>13. QED
  BY <1>5, <1>6, <1>7, <1>11, <1>12

LEMMA EntersStart ==
  ASSUME Facts, Facts', phase = "called", callee \notin Natives,
         EntersFitting(callee, pc, values), UNCHANGED <<ok, result>>
  PROVE  \E f \in Entries \ Natives : \E args \in [1..Params[f] -> Val] : A!Start(f, args)
<1> DEFINE stack == ActivationStack
<1>1. /\ callee \in Entries /\ callee \in Funcs \ Natives /\ pc \in Position
      /\ values \in Seq(Val) /\ frames = <<DummyFrame>> /\ ~running
  BY FuncsAssumption DEF Facts, TypedStacks, TypeInv, DummyBelow, running
<1>2. Len(values) = Params[callee] /\ phase' = "running" /\ running'
  BY <1>1 DEF EntersFitting, EntersFor, CountsOn, running
<1>3. Len(frames) = 1 /\ 2 = Len(frames) + 1 /\ 2 \in Nat
  BY <1>1
<1>4. ActivationAt(2)' = A!New(callee, Arguments(callee, values)) /\ Len(frames') = 2
  BY <1>1, <1>3, NewActivation
<1>5. Arguments(callee, values) = values
  <2>1. Len(values) - Params[callee] + 1 = 1
    BY <1>1, <1>2, LenProperties
  <2>2. SubSeq(values, 1, Len(values)) = values
    BY <1>1, SubSeqFull
  <2>3. QED
    BY <2>1, <2>2 DEF Arguments
<1>6. stack = <<>>
  BY <1>1, StackType DEF Stacked
<1>7. stack' = <<A!New(callee, values)>>
  <2>1. stack' = [i \in 1..1 |-> ActivationAt(i + 1)']
    BY <1>2, <1>4 DEF ActivationStack
  <2>2. PICK x : x = ActivationAt(2)'
    OBVIOUS
  <2>3. \A i \in 1..1 : ActivationAt(i + 1)' = x
    <3>1. ASSUME NEW i \in 1..1 PROVE ActivationAt(i + 1)' = x
      <4>1. i + 1 = 2
        OBVIOUS
      <4>2. QED
        BY <2>2, <4>1
    <3>2. QED
      BY <3>1
  <2>4. stack' = [i \in 1..1 |-> x]
    BY <2>1, <2>3
  <2>5. [i \in 1..1 |-> x] = <<x>>
    OBVIOUS
  <2>6. QED
    BY <1>4, <1>5, <2>2, <2>4, <2>5
<1>8. UNCHANGED Returned
  BY <1>1, <1>2, <1>4 DEF Returned
<1>9. values \in [1..Params[callee] -> Val]
  BY <1>1, <1>2, LenProperties
<1>10. A!Start(callee, values)
  BY <1>6, <1>7, <1>8 DEF A!Start
<1>11. QED
  BY <1>1, <1>9, <1>10

(* What the caller of f keeps, and what it passes.                          *)
LEMMA CallerKeeps ==
  ASSUME Facts, Facts', running, Len(frames) >= 2, NEW f \in Funcs \ Natives,
         NEW return \in Position, NEW vals \in Seq(Val), EntersFitting(f, return, vals),
         NEW n \in 0..1, Len(vals) = Len(values) - n, Keeps(values, vals, Len(vals)),
         Params[f] + n <= Len(values) - BaseOf(Inner), NEW k \in Acts, k = Len(frames)
  PROVE  /\ Params[f] + n <= Len(ActivationAt(k).ops)
         /\ A!LastN(A!ButLastN(ActivationAt(k).ops, n), Params[f]) = Arguments(f, vals)
         /\ ActivationAt(k)'
              = [ActivationAt(k) EXCEPT !.ops = A!ButLastN(A!ButLastN(ActivationAt(k).ops, n),
                                                           Params[f])]
         /\ Keeps(values, values', BaseOf(Inner))
<1> DEFINE ops == A!ButLastN(ActivationAt(k).ops, n)
           b == BaseOf(Inner)
<1>1. /\ values \in Seq(Val) /\ values' \in Seq(Val) /\ locals \in Seq(Val)
      /\ locals' \in Seq(Val) /\ frames \in Seq(Frame)
  BY DEF Facts, TypedStacks, TypeInv
<1>2. n \in Nat /\ Params[f] \in Nat /\ Len(frames) \in Nat /\ Len(values) \in Nat
  <2>1. Params[f] \in Nat
    BY FuncsAssumption
  <2>2. Len(frames) \in Nat /\ Len(values) \in Nat
    BY <1>1, LenProperties
  <2>3. QED
    BY <2>1, <2>2
<1>3. /\ b = Base(k) /\ Inner = frames[k] /\ b \in Nat /\ b <= Len(values)
      /\ k \in 1..Len(frames)
  BY <1>2, TopFacts DEF Acts
<1>4. /\ running' /\ values' = DropLast(vals, Params[f]) /\ Params[f] <= Len(vals)
      /\ Keeps(locals, locals', Len(locals))
  BY DEF EntersFitting, EntersFor, WithoutArguments, running
<1>5. PICK m \in Nat : m = Len(frames) + 1
  BY <1>2
<1>6. /\ Len(frames') = m /\ Base(m)' = Len(vals) - Params[f] /\ frames'[m].locals = Len(locals)
      /\ frames'[k] = frames[k] /\ Len(values') = Len(vals) - Params[f]
      /\ Len(vals) - Params[f] \in Nat
  BY <1>3, <1>5, NewActivation
<1>7. k + 1 = m /\ k < m
  BY <1>5
(* The operands end at e, those below the index at d, and those left at c.  *)
<1>8. PICK e \in Nat, d \in Nat, c \in Nat, p \in Nat :
        e = Len(values) /\ d = Len(vals) /\ p = Params[f] /\ c = Len(vals) - Params[f]
  BY <1>2, <1>6, LenProperties
<1>9. /\ d = e - n /\ c = d - p /\ b + n <= e /\ b + p <= d /\ d <= e /\ b <= d /\ b <= c
      /\ c <= d /\ c <= e
  BY <1>2, <1>3, <1>8, SMTT(30)
<1>10. Sliced(k) /\ ValueEnd(k) = e /\ LocalEnd(k) = Len(locals)
  BY <1>8, ActsSliced, ActFacts DEF ValueEnd, LocalEnd, Suspended, Facts
<1>11. ActivationAt(k).ops = Between(values, b, e)
  BY <1>3, <1>10 DEF ActivationAt, Between
<1>12. p + n <= Len(ActivationAt(k).ops)
  <2>1. Len(SubSeq(values, b + 1, e)) = e - b
    BY <1>1, <1>3, <1>8, Slice, SMTT(30)
  <2>2. p + n <= e - b
    BY <1>2, <1>3, <1>9
  <2>3. QED
    BY <1>11, <2>1, <2>2 DEF Between
<1> HIDE DEF b
<1>c. /\ \A s \in Seq(Val), x, y, z, w \in Nat :
            z <= Len(s) /\ x + w <= z /\ y = z - w =>
              A!ButLastN(Between(s, x, z), w) = Between(s, x, y)
      /\ \A s \in Seq(Val), x, y, z, w \in Nat :
            z <= Len(s) /\ x + w <= z /\ y = z - w =>
              A!LastN(Between(s, x, z), w) = Between(s, y, z)
  BY CutBetween, SMTT(30)
<1>13. ops = Between(values, b, d)
  <2>a. e <= Len(values) /\ d <= Len(values)
    BY <1>8, <1>9
  <2>b. /\ values \in Seq(Val) /\ b \in Nat /\ e \in Nat /\ d \in Nat /\ n \in Nat
        /\ e <= Len(values) /\ b + n <= e /\ d = e - n
    BY <1>1, <1>2, <1>3, <1>9, <2>a
  <2>1. A!ButLastN(Between(values, b, e), n) = Between(values, b, d)
    BY <2>b, <1>c
  <2>2. QED
    BY <1>11, <2>1
<1>14. A!ButLastN(ops, p) = Between(values, b, c) /\ A!LastN(ops, p) = Between(values, c, d)
  <2>1. /\ values \in Seq(Val) /\ b \in Nat /\ d \in Nat /\ c \in Nat /\ p \in Nat
        /\ d <= Len(values) /\ b + p <= d /\ c = d - p
    BY <1>1, <1>3, <1>8, <1>9
  <2>2. A!ButLastN(Between(values, b, d), p) = Between(values, b, c)
    BY <2>1, <1>c
  <2>3. A!LastN(Between(values, b, d), p) = Between(values, c, d)
    BY <2>1, <1>c
  <2>4. QED
    BY <1>13, <2>2, <2>3
<1>15. A!LastN(ops, p) = Arguments(f, vals)
  <2>1. Keeps(values, vals, d) /\ d <= Len(values)
    BY <1>8, <1>9
  <2>2. Between(values, c, d) = Between(vals, c, d)
    BY <1>1, <1>9, <2>1, SameBetween
  <2>3. Arguments(f, vals) = Between(vals, c, d)
    BY <1>8 DEF Arguments, Between
  <2>4. QED
    BY <1>14, <2>2, <2>3
<1>16. Base(k)' = b /\ ValueEnd(k)' = c /\ LocalEnd(k)' = Len(locals)
  <2>1. Suspended(k)'
    BY <1>6, <1>7 DEF Suspended
  <2>2. Base(k)' = Base(k) /\ ValueEnd(k)' = Base(m)' /\ LocalEnd(k)' = frames'[m].locals
    BY <1>6, <1>7, <2>1 DEF Base, ValueEnd, LocalEnd
  <2>3. QED
    BY <1>3, <1>6, <1>8, <2>2
<1>17. Between(values, b, c) = Between(values', b, c)
  <2>1. Keeps(vals, values', c)
    BY <1>4, <1>8, DropKeeps
  <2>2. Keeps(values, vals, d) /\ d \in Int /\ c \in Int
    BY <1>8
  <2>3. Keeps(values, values', c)
    BY <1>9, <2>1, <2>2, KeepsChain
  <2>4. c <= Len(values)
    BY <1>8, <1>9
  <2>5. QED
    BY <1>1, <1>3, <1>9, <2>3, <2>4, SameBetween, SMTT(30)
<1>18. Between(locals, frames[k].locals, Len(locals))
         = Between(locals', frames[k].locals, Len(locals))
  <2>1. /\ frames[k].locals \in Nat /\ Len(locals) \in Nat
        /\ frames[k].locals <= Len(locals) /\ Len(locals) <= Len(locals)
    BY <1>1, <1>10, LenProperties DEF Sliced
  <2>2. QED
    BY <1>1, <1>4, <2>1, SameBetween
<1>19. /\ ActivationAt(k)'.func = ActivationAt(k).func
       /\ ActivationAt(k)'.ops = A!ButLastN(ops, p)
       /\ ActivationAt(k)'.locals = ActivationAt(k).locals
  BY <1>6, <1>10, <1>14, <1>16, <1>17, <1>18 DEF ActivationAt, Between
<1>20. ActivationAt(k) \in Act /\ ActivationAt(k)' \in Act
  <2>1. ActivationAt(k) \in Act
    BY ActType
  <2>2. k \in Acts'
    BY <1>6, <1>7 DEF Acts
  <2>3. QED
    BY <1>4, <2>1, <2>2, ActsNext DEF ActsTyped
<1>21. A!ButLastN(ops, p) \in Seq(Val)
  BY <1>19, <1>20 DEF Act
<1>22. PICK u \in Seq(Val) : u = A!ButLastN(ops, p)
  BY <1>21
<1>23. ActivationAt(k)' = [ActivationAt(k) EXCEPT !.ops = u]
  BY <1>19, <1>20, <1>22, MoreOps
<1>24. Keeps(values, values', b)
  <2>1. Keeps(vals, values', c)
    BY <1>4, <1>8, DropKeeps
  <2>2. Keeps(values, vals, d) /\ d \in Int /\ c \in Int /\ b \in Int /\ Len(values') \in Int
    BY <1>3, <1>6, <1>8
  <2>3. Keeps(values, values', c)
    BY <1>9, <2>1, <2>2, KeepsChain
  <2>4. QED
    BY <1>9, <2>2, <2>3, KeepsLess
<1>25. QED
  BY <1>8, <1>12, <1>15, <1>22, <1>23, <1>24 DEF b

LEMMA EntersCall ==
  ASSUME Facts, Facts', running, Len(frames) >= 2, NEW f \in Funcs \ Natives,
         NEW return \in Position, NEW vals \in Seq(Val), EntersFitting(f, return, vals),
         NEW n \in 0..1, Len(vals) = Len(values) - n, Keeps(values, vals, Len(vals)),
         Params[f] + n <= Len(values) - BaseOf(Inner), UNCHANGED <<ok, result>>
  PROVE  A!Call(f)
<1> DEFINE stack == ActivationStack
           ops == A!ButLastN(ActivationAt(Len(frames)).ops, n)
<1>1. /\ BaseOf(Inner) = Base(Len(frames)) /\ Inner = frames[Len(frames)]
      /\ Len(frames) \in Acts /\ Len(frames) \in Nat /\ BaseOf(Inner) \in Nat
  BY TopFacts
<1>2. PICK k \in Acts : k = Len(frames)
  BY <1>1
<1>3. PICK m \in Nat, j \in Nat : m = k + 1 /\ j = k - 1
  <2>1. k \in Nat /\ k >= 2
    BY <1>1, <1>2
  <2>2. k + 1 \in Nat /\ k - 1 \in Nat
    BY <2>1
  <2>3. QED
    BY <2>2
<1>4. k \in Nat /\ k >= 2 /\ j >= 1 /\ j + 1 = k /\ m - 1 = k /\ k # 1
  BY <1>1, <1>2, <1>3
<1>5. /\ ActivationAt(m)' = A!New(f, Arguments(f, vals)) /\ Len(frames') = m
      /\ \A i \in 1..k : frames'[i] = frames[i]
  BY <1>2, <1>3, NewActivation
<1>6. /\ Params[f] + n <= Len(ActivationAt(k).ops)
      /\ A!LastN(A!ButLastN(ActivationAt(k).ops, n), Params[f]) = Arguments(f, vals)
      /\ ActivationAt(k)'
           = [ActivationAt(k) EXCEPT !.ops = A!ButLastN(A!ButLastN(ActivationAt(k).ops, n),
                                                        Params[f])]
      /\ Keeps(values, values', BaseOf(Inner))
  BY <1>2, CallerKeeps
<1>7. running' /\ Keeps(locals, locals', Len(locals))
  BY DEF EntersFitting, EntersFor, running
<1>8. /\ stack \in Seq(Act) /\ Len(stack) = j /\ \A i \in Acts : stack[i - 1] = ActivationAt(i)
  BY <1>2, <1>3, StackType DEF Stacked
<1>9. /\ stack' \in Seq(Act) /\ Len(stack') = j + 1
      /\ \A i \in Acts' : stack'[i - 1] = ActivationAt(i)'
  BY <1>4, <1>5, <1>7, StackNext DEF Stacked
<1>10. /\ stack[j] = ActivationAt(k) /\ stack'[j] = ActivationAt(k)'
       /\ stack'[j + 1] = ActivationAt(m)'
  <2>1. k \in Acts' /\ m \in Acts' /\ k - 1 = j /\ m - 1 = j + 1
    BY <1>3, <1>4, <1>5 DEF Acts
  <2>2. QED
    BY <1>8, <1>9, <2>1
<1>11. ASSUME NEW x \in 1..j, x # j PROVE stack'[x] = stack[x]
  <2>1. PICK i \in Nat : i = x + 1
    OBVIOUS
  <2>2. /\ i \in Acts /\ i + 1 \in Acts /\ i < k /\ i < m /\ i - 1 = x /\ i \in Acts'
        /\ i \in 1..k /\ i + 1 \in 1..k /\ i + 1 <= k
    BY <1>2, <1>3, <1>4, <1>5, <1>11, <2>1 DEF Acts
  <2>3. Base(i + 1) <= BaseOf(Inner) /\ frames[i + 1].locals <= Inner.locals
    BY <1>1, <1>2, <2>2 DEF Facts, Operands, Rising, Nested, Ordered
  <2>4. /\ Base(i + 1) \in Nat /\ frames[i + 1].locals \in Nat /\ Len(values') \in Int
        /\ Len(locals') \in Int /\ Len(locals) \in Int /\ Inner.locals <= Len(locals)
        /\ Inner.locals \in Nat
    <3>1. Sliced(i + 1) /\ Sliced(k) /\ LocalEnd(k) = Len(locals)
      BY <1>2, <2>2, ActsSliced DEF LocalEnd, Suspended
    <3>2. Len(values') \in Int /\ Len(locals') \in Int /\ Len(locals) \in Int
      BY LenProperties DEF Facts, TypedStacks, TypeInv
    <3>3. Base(i + 1) \in Nat /\ frames[i + 1].locals \in Nat
      BY <3>1 DEF Sliced
    <3>4. frames[k].locals \in Nat /\ frames[k].locals <= LocalEnd(k)
      BY <3>1 DEF Sliced
    <3>5. QED
      BY <1>1, <1>2, <3>1, <3>2, <3>3, <3>4
  <2>5. frames[i + 1].locals <= Len(locals)
    BY <2>3, <2>4
  <2>6. Keeps(values, values', Base(i + 1)) /\ Keeps(locals, locals', frames[i + 1].locals)
    BY <1>1, <1>6, <1>7, <2>3, <2>4, <2>5, KeepsLess, SMTT(30)
  <2>7. ActivationAt(i)' = ActivationAt(i)
    BY <1>2, <1>5, <1>7, <2>2, <2>6, ActKept
  <2>8. stack[i - 1] = ActivationAt(i) /\ stack'[i - 1] = ActivationAt(i)'
    BY <1>8, <1>9, <2>2
  <2>9. QED
    BY <2>2, <2>7, <2>8
<1>12. stack' = Append([stack EXCEPT ![j] = ActivationAt(k)'], A!New(f, Arguments(f, vals)))
  <2>1. ActivationAt(k)' \in Act /\ ActivationAt(m)' \in Act
    <3>1. j \in 1..Len(stack') /\ j + 1 \in 1..Len(stack')
      BY <1>4, <1>9
    <3>2. QED
      BY <1>9, <1>10, <3>1, ElementOfSeq
  <2>2. PICK e \in Act, y \in Act : e = ActivationAt(k)' /\ y = ActivationAt(m)'
    BY <2>1
  <2>3. stack' = Append([stack EXCEPT ![j] = e], y)
    BY <1>4, <1>8, <1>9, <1>10, <1>11, <2>2, Grown
  <2>4. QED
    BY <1>5, <2>2, <2>3
<1>13. UNCHANGED Returned
  <2>1. Len(frames') # 1 /\ Len(frames) # 1
    BY <1>2, <1>3, <1>4, <1>5
  <2>2. QED
    BY <1>7, <2>1 DEF Returned
<1>14. /\ stack # <<>> /\ stack[Len(stack)] = ActivationAt(k)
  BY <1>4, <1>8, <1>10
<1>15. stack' = Append([stack EXCEPT ![Len(stack)].ops =
                          A!ButLastN(A!ButLastN(stack[Len(stack)].ops, n), Params[f])],
                       A!New(f, A!LastN(A!ButLastN(stack[Len(stack)].ops, n), Params[f])))
  <2>1. stack' = Append([stack EXCEPT ![j] = [stack[j] EXCEPT !.ops =
                           A!ButLastN(A!ButLastN(stack[j].ops, n), Params[f])]],
                        A!New(f, A!LastN(A!ButLastN(stack[j].ops, n), Params[f])))
    BY <1>6, <1>10, <1>12
  <2>2. QED
    BY <1>8, <2>1
<1>16. Params[f] + n <= Len(stack[Len(stack)].ops)
  BY <1>6, <1>14
<1>17. QED
  BY <1>13, <1>14, <1>15, <1>16 DEF A!Call, A!Inner

-----------------------------------------------------------------------------
(* The beginning and the end of an invocation.                              *)

(* A trap in an activation, or before there is one.                         *)
LEMMA StopsAbstractly ==
  ASSUME Facts, phase' = "idle", ok' = FALSE
  PROVE  A!Trap \/ A!Refuse
<1>1. ActivationStack' = <<>> /\ Returned' = [ok |-> FALSE, vals |-> <<>>]
  BY DEF ActivationStack, Returned, running
<1>2. QED
  BY <1>1 DEF A!Trap, A!Refuse, A!Failed

LEMMA IdleFails ==
  ASSUME Facts, Next, ~Finish, phase' = "idle", ~UNCHANGED vars
  PROVE  ok' = FALSE
BY NextReports DEF Facts, Reports, Proceeds, Begins, Exits, Stops, Fail, Strays

LEMMA RunningKeeps ==
  ASSUME Facts, Next, phase' = "running"
  PROVE  UNCHANGED <<ok, result>>
BY NextReports DEF Facts, Reports, Proceeds, Begins, Exits, Stops, Fail, Finish, Strays,
                   vars

(* The host learns what the outermost activation left.                      *)
LEMMA FinishStutters ==
  ASSUME ~LeftoverReturn, Facts, Finish
  PROVE  UNCHANGED A!vars
<1> DEFINE n == Type(callee).ret
<1>1. /\ running /\ ~running' /\ pc.at = "dummy" /\ phase' = "idle"
  BY DEF Finish, running
<1>2. frames \in Seq(Frame) /\ Len(frames) \in Nat /\ frames # <<>> /\ values \in Seq(Val)
  BY <1>1, LenProperties DEF Facts, TypedStacks, TypeInv, DummyBelow
<1>3. ~(Len(frames) >= 2)
  BY <1>1 DEF Facts, Nested, Outermost, Placed
<1>4. Len(frames) = 1
  <2>1. Len(frames) \in Nat \ {0}
    BY <1>2, EmptySeq
  <2>2. \A k \in Nat \ {0} : k >= 2 \/ k = 1
    OBVIOUS
  <2>3. QED
    BY <1>3, <2>1, <2>2
<1>5. Len(values) = n /\ Len(values) \in Nat
  BY <1>1, <1>2, <1>4, LenProperties DEF Facts, Operands, Delivered, Slack
<1>6. ok' = TRUE
  <2>1. ok' = (n <= Len(values))
    BY FinishResult DEF Facts
  <2>2. n <= Len(values)
    BY <1>5
  <2>3. QED
    BY <2>1, <2>2, Zenon
<1>7. result' = values
  <2>1. result' = SubSeq(values, Len(values) - n + 1, Len(values))
    BY <1>6 DEF Finish
  <2>2. Len(values) - n + 1 = 1
    BY <1>5
  <2>3. QED
    BY <1>2, <2>1, <2>2, SubSeqFull
<1>8. Returned = [ok |-> TRUE, vals |-> values] /\ Returned' = [ok |-> TRUE, vals |-> values]
  BY <1>1, <1>4, <1>6, <1>7 DEF Returned
<1>9. ActivationStack = <<>> /\ ActivationStack' = <<>>
  <2>1. ActivationStack \in Seq(Act) /\ Len(ActivationStack) = 1 - 1
    BY <1>1, <1>4, StackType DEF Stacked
  <2>2. ActivationStack = <<>>
    BY <2>1, EmptySeq
  <2>3. QED
    BY <1>1, <2>2 DEF ActivationStack
<1>10. QED
  BY <1>8, <1>9 DEF A!vars

LEMMA DirectDirect ==
  ASSUME Facts, Facts', NEW f, NEW vals, Direct(f, vals)
  PROVE  A!Direct
<1>1. ~running /\ running' /\ Len(frames') = 1 /\ values' \in Seq(Val)
  BY DEF Direct, running, Facts, TypedStacks, TypeInv
<1>2. ActivationStack = <<>> /\ ActivationStack' = <<>>
  <2>1. ActivationStack' \in Seq(Act) /\ Len(ActivationStack') = 1 - 1
    BY <1>1, StackNext DEF Stacked
  <2>2. ActivationStack' = <<>>
    BY <2>1, EmptySeq
  <2>3. QED
    BY <1>1, <2>2 DEF ActivationStack
<1>3. Returned' = [ok |-> TRUE, vals |-> values']
  BY <1>1 DEF Returned
<1>4. QED
  BY <1>1, <1>2, <1>3 DEF A!Direct

LEMMA StructuredImplements ==
  ASSUME ~BrOut, ~LeftoverReturn, Facts, Facts', Next, Structured, phase' # "idle"
  PROVE  A!Work \/ A!Return
<1>1. StaysFitting \/ LeavesFitting
  <2>1. ASSUME NEW r \in 0..1, Block(r) \/ Loop(r) \/ \E hasElse \in BOOLEAN : If(r, hasElse)
        PROVE  StaysFitting
    BY <2>1, BlocksFit
  <2>2. ASSUME NEW k \in 0..(MaxDepth - 1),
               Br(k) \/ BrIf(k) \/ \E vec \in Vectors(MaxDepth) : BrTable(vec, k)
        PROVE  StaysFitting
    <3>1. k \in Nat
      BY BoundsAssumption
    <3>2. QED
      BY <2>2, <3>1, BranchFits
  <2>3. ~EndOfPc
    BY DEF EndOfPc, Fail
  <2>4. QED
    BY <2>1, <2>2, <2>3, EndFits, EndOfFrameFits, EnterBodyFits, ReturnFits DEF Structured
<1>2. phase' = "running"
  BY <1>1 DEF StaysFitting, LeavesFitting, Stays, Leaves
<1>3. UNCHANGED <<ok, result>>
  BY <1>2, RunningKeeps
<1>4. QED
  BY <1>1, <1>3, StaysWork, LeavesReturn

LEMMA InvokeImplements ==
  ASSUME Facts, Facts', Next, phase' # "idle",
         NEW f \in Funcs, NEW vals \in Seq(Val), NEW return \in Position,
         CallsFor(f, return), InvokeFunc(f, vals, return), CountsOn(f, return, Len(vals)),
         Keeps(values, vals, Len(vals))
  PROVE  \/ /\ f \notin Natives /\ EntersFitting(f, return, vals)
            /\ UNCHANGED <<ok, result>>
         \/ A!Work
         \/ (A!Direct /\ phase = "called")
<1>1. \/ f \notin Natives /\ EntersFitting(f, return, vals)
      \/ running /\ StaysFitting
      \/ Direct(f, vals)
  BY InvokeFits
<1>2. phase' = "running"
  BY <1>1 DEF EntersFitting, EntersFor, StaysFitting, Stays, Direct
<1>3. UNCHANGED <<ok, result>>
  BY <1>2, RunningKeeps
<1>4. CASE running /\ StaysFitting
  <2>1. A!Work
    BY <1>3, <1>4, StaysWork
  <2>2. QED
    BY <2>1
<1>5. CASE Direct(f, vals)
  <2>1. A!Direct /\ phase = "called"
    BY <1>5, DirectDirect DEF Direct
  <2>2. QED
    BY <2>1
<1>6. QED
  BY <1>1, <1>3, <1>4, <1>5

LEMMA CallingImplements ==
  ASSUME NativesAsTyped, Facts, Facts', Next, Calling, phase' # "idle"
  PROVE  A!Work \/ \E f \in Funcs \ Natives : A!Call(f)
<1>1. PICK f \in Funcs, n \in 0..1 : running /\ CallsOver(f, n)
  BY CallingInvokes
<1>2. PICK vals \in Seq(Val), return \in Position :
        /\ Len(vals) = Len(values) - n /\ Keeps(values, vals, Len(vals))
        /\ Params[f] + n <= Len(values) - BaseOf(Inner)
        /\ CallsFor(f, return) /\ InvokeFunc(f, vals, return) /\ CountsOn(f, return, Len(vals))
  BY <1>1 DEF CallsOver
<1>3. phase # "called" /\ Len(frames) >= 2
  BY <1>1, <1>2, RunningFacts DEF running, CallsFor, Facts
<1>4. CASE f \notin Natives /\ EntersFitting(f, return, vals) /\ UNCHANGED <<ok, result>>
  <2>1. A!Call(f)
    BY <1>1, <1>2, <1>3, <1>4, EntersCall
  <2>2. QED
    BY <1>4, <2>1
<1>5. QED
  BY <1>2, <1>3, <1>4, InvokeImplements

LEMMA EntryImplements ==
  ASSUME NativesAsTyped, Facts, Facts', Next, InvokeEntry, phase' # "idle"
  PROVE  \/ A!Work \/ A!Direct
         \/ \E f \in Entries \ Natives : \E args \in [1..Params[f] -> Val] : A!Start(f, args)
<1>1. /\ callee \in Funcs /\ values \in Seq(Val) /\ pc \in Position
      /\ phase = "called" /\ CallsFor(callee, pc) /\ InvokeFunc(callee, values, pc)
      /\ CountsOn(callee, pc, Len(values)) /\ Keeps(values, values, Len(values))
  BY EntryInvokes
<1>2. CASE callee \notin Natives /\ EntersFitting(callee, pc, values) /\ UNCHANGED <<ok, result>>
  BY <1>1, <1>2, EntersStart
<1>3. QED
  BY <1>1, <1>2, InvokeImplements

(* Every step of the interpreter is one of the activation machine, or none. *)
LEMMA NextImplements ==
  ASSUME ~BrOut, ~LeftoverReturn, NativesAsTyped, EnoughValues
  PROVE  Facts /\ StacksInBounds /\ Facts' /\ [Next]_vars => [A!Next]_A!vars
<1> SUFFICES ASSUME Ready, Facts, Facts', [Next]_vars PROVE [A!Next]_A!vars
  BY DEF Ready
<1>1. CASE UNCHANGED vars
  BY <1>1 DEF vars, A!vars, ActivationStack, Returned, running, ActivationAt, Base, ValueEnd,
              LocalEnd, Suspended
<1>2. CASE Finish
  BY <1>2, FinishStutters
<1>3. CASE Next /\ ~Finish /\ phase' = "idle" /\ ~UNCHANGED vars
  BY <1>3, IdleFails, StopsAbstractly DEF A!Next
<1>4. CASE Next /\ Plain /\ phase' # "idle"
  <2>1. StaysFitting /\ phase' = "running"
    BY <1>4, PlainFits DEF StaysFitting, Stays
  <2>2. QED
    BY <1>4, <2>1, RunningKeeps, StaysWork DEF A!Next
<1>5. CASE Next /\ Structured /\ phase' # "idle"
  BY <1>5, StructuredImplements DEF A!Next
<1>6. CASE Next /\ Calling /\ phase' # "idle"
  BY <1>6, CallingImplements DEF A!Next, A!Wasm
<1>7. CASE Next /\ InvokeEntry /\ phase' # "idle"
  BY <1>7, EntryImplements DEF A!Next
<1>8. ASSUME NEW f, NEW args, Invoke(f, args) PROVE UNCHANGED A!vars
  BY <1>8 DEF Invoke, A!vars, ActivationStack, Returned, running
<1>9. ~Astray
  BY ReadyNotAstray
<1>10. CASE Next /\ ~Finish /\ phase' # "idle"
  BY <1>4, <1>5, <1>6, <1>7, <1>8, <1>9, <1>10, <1>1 DEF Next, Host, Gone
<1>11. QED
  BY <1>1, <1>2, <1>3, <1>10

(* The interpreter implements the activation machine: the stacks it cuts    *)
(* and indexes by saved sizes behave, for every program, table and stack    *)
(* size, as a stack of activations with operands and locals of their own,   *)
(* which a call, a return, a branch or a trap of another never touches.     *)
(* The hypotheses exclude the programs for which BranchOut and Leftover     *)
(* show the opposite, natives registered with a type that is not theirs,    *)
(* and recursions whose operands outgrow the array of the values.           *)
THEOREM ImplementsActivations ==
  ASSUME ~BrOut, ~LeftoverReturn, NativesAsTyped, EnoughValues
  PROVE  Spec => Refinement
<1>1. Init => A!Init
  BY DEF Init, A!Init, ActivationStack, Returned, running
<1>2. QED
  BY <1>1, FactsAlways, StacksBounded, NextImplements, PTL DEF Spec, Refinement, A!Spec
=============================================================================
