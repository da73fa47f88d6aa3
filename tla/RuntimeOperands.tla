--------------------------- MODULE RuntimeOperands ---------------------------
(****************************************************************************)
(* The value stack and the outcome of an invocation.  Handlers pop operands *)
(* without a test and cut the stack to sizes saved when a block or a        *)
(* function was entered: that the operands are there, when they are exactly *)
(* those the code counts on, and when no handler uses what is not there.    *)
(****************************************************************************)
EXTENDS RuntimeProofs

(* Natives are registered with the type [] -> [].  A native that takes      *)
(* operands or leaves one must not be reached where that type is read, by   *)
(* the host or through the table: it would disturb its caller's operands.   *)
NativesAsTyped ==
  \A f \in Natives : f \in Entries \/ (\E i \in 1..Len(Table) : Table[i] = f) =>
    Params[f] = 0 /\ Ret[f] = 0

(* A size and what the code counts on.  Unused operands that a return       *)
(* leaves behind can only make the stack larger.                            *)
Slack(size, counted) == IF LeftoverReturn THEN size >= counted ELSE size = counted

(* Base(i) of the frame F: the size of the stack below its operands.        *)
BaseOf(F) == F.valueStackSize - Params[F.func]

(* The operands of a frame F whose code is at p: blocks nest also by their  *)
(* heights, and each label has saved the height of its block.               *)
Fits(F, p, ls) ==
  /\ BaseOf(F) >= 0 /\ p.h <= MaxHeight
  /\ \A j, k \in 1..Len(p.ctl) : j <= k => p.ctl[j].base <= p.ctl[k].base
  /\ \A j \in 1..Len(p.ctl) :
       Slack(ls[F.labelStackSize + j].valueStackSize, BaseOf(F) + p.ctl[j].base)

(* The inductive invariant, beside Nested.  OperandsExact does not tell     *)
(* what a caller will find on the stack when a chain of calls returns, nor  *)
(* that inner blocks, and inner activations, start above outer ones, which  *)
(* a branch and a return count on.                                          *)
Operated(i) ==
  /\ Fits(frames[i], PosOf(i), labels)
  /\ Slack(ValueEnd(i), Base(i) + Held(i))
  /\ ~LeftoverReturn => Base(i) <= (i - 2) * MaxHeight

Delivered ==
  /\ Slack(Len(values), Type(callee).ret)
  /\ ~LeftoverReturn => Len(values) <= MaxHeight

Rising == \A i, j \in Acts : i <= j => Base(i) <= Base(j)

Operands ==
  /\ phase = "called" => Len(values) = Type(callee).params
  /\ running => /\ Len(frames) = 1 => Delivered
                /\ Len(frames) >= 2 => BaseOf(frames[2]) = 0
                /\ Rising /\ \A i \in Acts : Operated(i)

Facts == TypedStacks /\ Nested /\ Operands

-----------------------------------------------------------------------------
(* Sizes.                                                                   *)

LEMMA SlackShift ==
  ASSUME NEW a \in Int, NEW b \in Int, NEW c \in Int, NEW d \in Int,
         Slack(a, b), c - a = d - b
  PROVE  Slack(c, d)
BY DEF Slack

LEMMA SlackOver ==
  ASSUME NEW a \in Nat, NEW b \in Nat, NEW h \in Nat, NEW r \in Nat, Slack(a, b + (h - r))
  PROVE  Slack(a + r, b + h)
BY DEF Slack

LEMMA SlackCall ==
  ASSUME NEW a \in Nat, NEW b \in Nat, NEW h \in Nat, NEW p \in Nat, NEW x \in Nat,
         NEW r \in Nat, Slack(a, b + h)
  PROVE  Slack((a - x) - p, b + (((h - (p + x)) + r) - r))
BY DEF Slack

LEMMA SlackChain ==
  ASSUME NEW a \in Int, NEW b \in Int, NEW c \in Int, Slack(a, b), Slack(b, c)
  PROVE  Slack(a, c)
BY DEF Slack

LEMMA SlackAbove ==
  ASSUME NEW a \in Int, NEW b \in Int, Slack(a, b)
  PROVE  a >= b
BY DEF Slack

LEMMA SlackEqual ==
  ASSUME NEW a \in Int, NEW b \in Int, a = b
  PROVE  Slack(a, b)
BY DEF Slack

LEMMA DropLen ==
  ASSUME NEW S, NEW s \in Seq(S), NEW n \in Nat, n <= Len(s)
  PROVE  DropLast(s, n) \in Seq(S) /\ Len(DropLast(s, n)) = Len(s) - n
<1>1. Len(s) \in Nat
  BY LenProperties
<1>2. /\ DropLast(s, n) \in Seq(S)
      /\ Len(DropLast(s, n)) = IF n < Len(s) THEN Len(s) - n ELSE 0
  BY DropLastType
<1>3. QED
  BY <1>1, <1>2

(* The stack below the operands an instruction takes.                       *)
LEMMA DropKeeps ==
  ASSUME NEW S, NEW s \in Seq(S), NEW n \in Nat, n <= Len(s)
  PROVE  Keeps(s, DropLast(s, n), Len(s) - n)
<1>1. Len(s) \in Nat /\ Len(DropLast(s, n)) = Len(s) - n
  BY LenProperties, DropLen
<1>2. \A x \in 1..(Len(s) - n) : DropLast(s, n)[x] = s[x]
  BY DropLastType
<1>3. QED
  BY <1>1, <1>2 DEF Keeps

LEMMA DropExtended ==
  ASSUME NEW S, NEW s \in Seq(S), NEW n \in Nat, n <= Len(s), NEW t \in Seq(S)
  PROVE  /\ Len(DropLast(s, n) \o t) = (Len(s) - n) + Len(t)
         /\ Keeps(s, DropLast(s, n) \o t, Len(s) - n)
<1>1. /\ DropLast(s, n) \in Seq(S) /\ Len(DropLast(s, n)) = Len(s) - n
      /\ Keeps(s, DropLast(s, n), Len(s) - n) /\ Len(s) \in Nat /\ Len(t) \in Nat
  BY LenProperties, DropLen, DropKeeps
<1>2. PICK r \in Seq(S) : r = DropLast(s, n)
  BY <1>1
<1>3. /\ Len(r \o t) = Len(r) + Len(t) /\ \A x \in 1..Len(r) : (r \o t)[x] = r[x]
  BY ConcatProperties
<1>4. QED
  BY <1>1, <1>2, <1>3 DEF Keeps

LEMMA KeepsLess ==
  ASSUME NEW s, NEW t, NEW n \in Int, NEW m \in Int, m <= n, Len(t) \in Int, Keeps(s, t, n)
  PROVE  Keeps(s, t, m)
BY DEF Keeps

LEMMA KeepsChain ==
  ASSUME NEW s, NEW t, NEW u, NEW n \in Int, NEW m \in Int, m <= n, Keeps(s, t, n), Keeps(t, u, m)
  PROVE  Keeps(s, u, m)
BY DEF Keeps

LEMMA BaseType ==
  ASSUME NEW F \in Frame, F.func \in Funcs
  PROVE  BaseOf(F) \in Int /\ Params[F.func] \in Nat /\ Ret[F.func] \in 0..1
         /\ Ret[F.func] \in Nat /\ F.valueStackSize \in Nat /\ F.labelStackSize \in Nat
         /\ F.valueStackSize = BaseOf(F) + Params[F.func]
<1>1. F.valueStackSize \in Nat /\ F.labelStackSize \in Nat
  BY DEF Frame
<1>2. Params[F.func] \in Nat /\ Ret[F.func] \in 0..1
  BY FuncsAssumption
<1>3. Ret[F.func] \in Nat
  BY <1>2
<1>4. BaseOf(F) \in Int /\ F.valueStackSize = BaseOf(F) + Params[F.func]
  BY <1>1, <1>2 DEF BaseOf
<1>5. QED
  BY <1>1, <1>2, <1>3, <1>4

(* What lies above the labels of an activation does not concern it.         *)
LEMMA FitsKeeps ==
  ASSUME NEW F \in Frame, NEW p \in Position, NEW ls, NEW lt, NEW end,
         Well(F, p, ls, end), Fits(F, p, ls), \A x \in 1..end : lt[x] = ls[x]
  PROVE  Fits(F, p, lt)
<1>1. F.labelStackSize \in Nat /\ p.ctl \in Seq(Control) /\ Len(p.ctl) \in Nat
  BY LenProperties DEF Frame, Position, Place
<1>2. \A j \in 1..Len(p.ctl) : F.labelStackSize + j \in 1..end
  BY <1>1 DEF Well
<1>3. QED
  BY <1>2 DEF Fits

LEMMA FitsAround ==
  ASSUME NEW F, NEW p, NEW q, NEW ls, Fits(F, p, ls), q.ctl = p.ctl, q.h <= MaxHeight
  PROVE  Fits(F, q, ls)
BY DEF Fits

LEMMA FitsOuter ==
  ASSUME NEW F \in Frame, NEW p \in Position, NEW ls, Fits(F, p, ls),
         NEW j \in 1..Len(p.ctl), NEW q, q.ctl = SubSeq(p.ctl, 1, j - 1), q.h <= MaxHeight,
         NEW lt, \A x \in 1..(F.labelStackSize + (j - 1)) : lt[x] = ls[x]
  PROVE  Fits(F, q, lt)
<1>1. F.labelStackSize \in Nat /\ p.ctl \in Seq(Control) /\ Len(p.ctl) \in Nat /\ j \in Nat
      /\ j - 1 \in Int /\ j - 1 <= Len(p.ctl)
  BY LenProperties DEF Frame, Position, Place
<1>2. /\ Len(q.ctl) = IF j - 1 > 0 THEN j - 1 ELSE 0
      /\ \A x \in 1..(j - 1) : q.ctl[x] = p.ctl[x]
  BY <1>1, PrefixType
<1>3. ASSUME NEW x \in 1..Len(q.ctl)
      PROVE  /\ x \in 1..Len(p.ctl) /\ q.ctl[x] = p.ctl[x]
             /\ lt[F.labelStackSize + x] = ls[F.labelStackSize + x]
  <2>1. x \in 1..(j - 1) /\ x \in 1..Len(p.ctl)
    BY <1>1, <1>2
  <2>2. F.labelStackSize + x \in 1..(F.labelStackSize + (j - 1))
    BY <1>1, <2>1
  <2>3. QED
    BY <1>2, <2>1, <2>2
<1>4. QED
  BY <1>3 DEF Fits

LEMMA FitsInner ==
  ASSUME NEW F \in Frame, NEW p \in Position, NEW ls \in Seq(Label),
         Well(F, p, ls, Len(ls)), Fits(F, p, ls),
         NEW c \in Control, \A j \in 1..Len(p.ctl) : p.ctl[j].base <= c.base,
         NEW q, q.ctl = Append(p.ctl, c), q.h <= MaxHeight,
         NEW L \in Label, Slack(L.valueStackSize, BaseOf(F) + c.base)
  PROVE  Fits(F, q, Append(ls, L))
<1>1. F.labelStackSize \in Nat /\ p.ctl \in Seq(Control) /\ Len(p.ctl) \in Nat
  BY LenProperties DEF Frame, Position, Place
<1>2. /\ Len(q.ctl) = Len(p.ctl) + 1 /\ \A x \in 1..Len(p.ctl) : q.ctl[x] = p.ctl[x]
      /\ q.ctl[Len(p.ctl) + 1] = c
  BY <1>1, AppendType
<1>3. /\ \A x \in 1..Len(ls) : Append(ls, L)[x] = ls[x]
      /\ Append(ls, L)[Len(ls) + 1] = L /\ Len(ls) \in Nat
  BY AppendType, LenProperties
<1>4. Len(ls) = F.labelStackSize + Len(p.ctl)
  BY DEF Well
<1>5. c.base \in Nat
  BY DEF Control
<1>6. ASSUME NEW x \in 1..Len(q.ctl)
      PROVE  IF x = Len(p.ctl) + 1
             THEN q.ctl[x] = c /\ Append(ls, L)[F.labelStackSize + x] = L
             ELSE /\ x \in 1..Len(p.ctl) /\ q.ctl[x] = p.ctl[x]
                  /\ Append(ls, L)[F.labelStackSize + x] = ls[F.labelStackSize + x]
  <2>1. CASE x = Len(p.ctl) + 1
    <3>0. \A n, m \in Nat : n + (m + 1) = (n + m) + 1
      OBVIOUS
    <3>1. F.labelStackSize + x = Len(ls) + 1
      BY <1>1, <1>4, <2>1, <3>0
    <3>2. QED
      BY <1>2, <1>3, <2>1, <3>1
  <2>2. CASE x # Len(p.ctl) + 1
    <3>1. x \in 1..Len(p.ctl)
      BY <1>1, <1>2, <2>2
    <3>2. F.labelStackSize + x \in 1..Len(ls)
      BY <1>1, <1>4, <3>1
    <3>3. QED
      BY <1>2, <1>3, <2>2, <3>1, <3>2
  <2>3. QED
    BY <2>1, <2>2
<1>7. ASSUME NEW j \in 1..Len(q.ctl), NEW k \in 1..Len(q.ctl), j <= k
      PROVE  q.ctl[j].base <= q.ctl[k].base
  <2>1. CASE k = Len(p.ctl) + 1
    <3>1. CASE j = Len(p.ctl) + 1
      BY <1>5, <1>6, <2>1, <3>1
    <3>2. CASE j # Len(p.ctl) + 1
      BY <1>6, <2>1, <3>2
    <3>3. QED
      BY <3>1, <3>2
  <2>2. CASE k # Len(p.ctl) + 1
    <3>1. j # Len(p.ctl) + 1
      BY <1>1, <1>2, <1>7, <2>2
    <3>2. QED
      BY <1>6, <1>7, <2>2, <3>1 DEF Fits
  <2>3. QED
    BY <2>1, <2>2
<1>8. ASSUME NEW j \in 1..Len(q.ctl)
      PROVE  Slack(Append(ls, L)[F.labelStackSize + j].valueStackSize,
                   BaseOf(F) + q.ctl[j].base)
  BY <1>6 DEF Fits
<1>9. QED
  BY <1>7, <1>8 DEF Fits

-----------------------------------------------------------------------------
(* Every step that does not stop the execution, with its operands.          *)

StaysFitting ==
  /\ Stays /\ Fits(Inner, pc', labels')
  /\ Slack(Len(values'), BaseOf(Inner) + pc'.h) /\ Keeps(values, values', BaseOf(Inner))

LeavesFitting ==
  /\ Leaves /\ Ret[Inner.func] <= pc.h
  /\ Slack(Len(values'), BaseOf(Inner) + Ret[Inner.func])
  /\ Keeps(values, values', BaseOf(Inner))
  /\ Ret[Inner.func] # 0 => Last(values') = Last(values)

(* The operands a call takes are there, in the height at which it returns.  *)
CountsOn(f, return, size) ==
  IF running THEN /\ Ret[f] <= return.h /\ return.h <= MaxHeight
                  /\ Slack(size - Params[f], BaseOf(Inner) + (return.h - Ret[f]))
             ELSE size = Params[f] /\ (f \in Natives => Ret[f] = 0)

EntersFitting(f, return, vals) ==
  /\ EntersFor(f, return, Len(vals)) /\ CountsOn(f, return, Len(vals))
  /\ Params[f] <= Len(vals) /\ values' = WithoutArguments(f, vals)
  /\ locals' = locals \o Arguments(f, vals) \o Zeros(Locals[f])

(* What the invariant says of the activations.                              *)
LEMMA OperatedFacts ==
  ASSUME Facts, running, NEW i \in Acts
  PROVE  /\ Operated(i) /\ frames[i] \in Frame /\ PosOf(i) \in Position
         /\ frames[i].func \in Funcs \ Natives
         /\ BaseOf(frames[i]) = Base(i) /\ Base(i) \in Nat
         /\ PosOf(i).h \in Nat /\ Params[frames[i].func] \in Nat
         /\ Ret[frames[i].func] \in 0..1 /\ Ret[frames[i].func] \in Nat
         /\ Len(values) \in Nat
<1>1. /\ Operated(i) /\ frames[i] \in Frame /\ PosOf(i) \in Position /\ Active(i)
  BY ActFacts DEF Facts, Operands
<1>2. frames[i].func \in Funcs \ Natives
  BY <1>1 DEF Active, Well
<1>3. /\ BaseOf(frames[i]) \in Int /\ BaseOf(frames[i]) >= 0 /\ Params[frames[i].func] \in Nat
      /\ Ret[frames[i].func] \in 0..1 /\ Ret[frames[i].func] \in Nat
  BY <1>1, <1>2, BaseType DEF Operated, Fits
<1>4. BaseOf(frames[i]) = Base(i) /\ Base(i) \in Nat
  BY <1>3 DEF BaseOf, Base
<1>5. PosOf(i).h \in Nat
  BY <1>1 DEF Position, Place
<1>6. Len(values) \in Nat
  BY LenProperties DEF Facts, TypedStacks, TypeInv
<1>7. QED
  BY <1>1, <1>2, <1>3, <1>4, <1>5, <1>6

(* The innermost activation.                                                *)
LEMMA TopFacts ==
  ASSUME Facts, running, Len(frames) >= 2
  PROVE  /\ Inner \in Frame /\ pc \in Position /\ Inner = frames[Len(frames)]
         /\ Len(frames) \in Acts /\ Len(frames) \in Nat
         /\ Inner.func \in Funcs \ Natives /\ Inner.func = pc.func
         /\ Well(Inner, pc, labels, Len(labels)) /\ Fits(Inner, pc, labels)
         /\ Slack(Len(values), BaseOf(Inner) + pc.h)
         /\ BaseOf(Inner) \in Nat /\ pc.h \in Nat /\ Len(values) \in Nat
         /\ pc.h <= MaxHeight /\ MaxHeight \in Nat
         /\ Params[Inner.func] \in Nat /\ Ret[Inner.func] \in 0..1 /\ Ret[Inner.func] \in Nat
         /\ pc.ctl \in Seq(Control) /\ labels \in Seq(Label) /\ Len(labels) \in Nat
         /\ Inner.labelStackSize \in Nat /\ Inner.valueStackSize \in Nat
         /\ BaseOf(Inner) = Base(Len(frames)) /\ BaseOf(Inner) + pc.h <= Len(values)
         /\ BaseOf(Inner) <= Len(values)
<1>1. /\ Inner \in Frame /\ pc \in Position /\ Inner = frames[Len(frames)]
      /\ Len(frames) \in Acts /\ Len(frames) \in Nat
      /\ Well(Inner, pc, labels, Len(labels)) /\ pc.ctl \in Seq(Control)
      /\ Inner.labelStackSize \in Nat /\ Len(labels) \in Nat
  BY InnerFacts DEF Facts
<1>2. /\ Operated(Len(frames)) /\ BaseOf(Inner) \in Nat /\ PosOf(Len(frames)).h \in Nat
      /\ Params[Inner.func] \in Nat /\ Ret[Inner.func] \in 0..1 /\ Ret[Inner.func] \in Nat
      /\ Len(values) \in Nat /\ Inner.func \in Funcs \ Natives
      /\ BaseOf(Inner) = Base(Len(frames))
  BY <1>1, OperatedFacts
<1>3. /\ PosOf(Len(frames)) = pc /\ ValueEnd(Len(frames)) = Len(values)
      /\ Held(Len(frames)) = pc.h
  BY <1>1 DEF PosOf, ValueEnd, Held, Suspended
<1>4. Fits(Inner, pc, labels) /\ Slack(Len(values), BaseOf(Inner) + pc.h)
  BY <1>1, <1>2, <1>3 DEF Operated
<1>5. pc.h <= MaxHeight /\ MaxHeight \in Nat
  BY <1>4, BoundsAssumption DEF Fits
<1>6. Inner.func = pc.func
  BY <1>1 DEF Well
<1>7. labels \in Seq(Label) /\ Inner.valueStackSize \in Nat
  BY <1>1 DEF Facts, TypedStacks, TypeInv, Frame
<1>8. pc.h \in Nat
  BY <1>1 DEF Position, Place
<1>9. BaseOf(Inner) + pc.h <= Len(values)
  BY <1>2, <1>4, <1>8, SlackAbove
<1>10. BaseOf(Inner) <= Len(values)
  BY <1>2, <1>8, <1>9
<1>11. QED
  BY <1>1, <1>2, <1>3, <1>4, <1>5, <1>6, <1>7, <1>8, <1>9, <1>10

LEMMA OperandsIdle ==
  ASSUME phase' = "idle"
  PROVE  Operands'
BY DEF Operands, running

LEMMA OperandsStay ==
  ASSUME Facts, StaysFitting
  PROVE  Operands'
<1>1. /\ running /\ running' /\ Len(frames) >= 2 /\ UNCHANGED <<frames, callee>>
      /\ Stays /\ Fits(Inner, pc', labels') /\ Slack(Len(values'), BaseOf(Inner) + pc'.h)
  BY DEF StaysFitting, Stays, running
<1>2. /\ Inner \in Frame /\ Inner = frames[Len(frames)] /\ Len(frames) \in Nat
      /\ Len(frames) \in Acts /\ BaseOf(Inner) = Base(Len(frames))
      /\ Operated(Len(frames))
  BY <1>1, TopFacts, OperatedFacts
<1>3. ASSUME NEW i \in Acts PROVE Operated(i)'
  <2>1. CASE i = Len(frames)
    <3>1. /\ PosOf(i)' = pc' /\ ValueEnd(i)' = Len(values') /\ Held(i)' = pc'.h
          /\ Base(i)' = Base(i) /\ frames'[i] = Inner
      BY <1>1, <1>2, <2>1 DEF PosOf, ValueEnd, Held, Suspended, Base
    <3>2. QED
      BY <1>1, <1>2, <2>1, <3>1 DEF Operated
  <2>2. CASE i # Len(frames)
    <3>1. /\ i < Len(frames) /\ i + 1 \in Acts /\ frames[i] \in Frame /\ PosOf(i) \in Position
          /\ Active(i) /\ LabelEnd(i) = frames[i + 1].labelStackSize
          /\ frames[i + 1] \in Frame /\ Operated(i)
      BY <1>1, <2>2, ActFacts, OperatedFacts DEF Facts
    <3>2. PosOf(i)' = PosOf(i) /\ ValueEnd(i)' = ValueEnd(i) /\ Held(i)' = Held(i)
          /\ Base(i)' = Base(i)
      BY <1>1, <3>1 DEF PosOf, ValueEnd, Held, Suspended, Base
    <3>3. frames[i + 1].labelStackSize <= Inner.labelStackSize
      <4>1. i + 1 <= Len(frames) /\ Ordered
        BY <1>1, <1>2, <3>1 DEF Facts, Nested, Acts
      <4>2. QED
        BY <1>2, <3>1, <4>1 DEF Ordered
    <3>4. \A x \in 1..LabelEnd(i) : labels'[x] = labels[x]
      <4>1. LabelEnd(i) \in Nat /\ Inner.labelStackSize \in Nat
        BY <1>2, <3>1 DEF Frame
      <4>2. QED
        BY <1>1, <3>1, <3>3, <4>1 DEF Stays, Keeps
    <3>5. Fits(frames[i], PosOf(i), labels')
      BY <3>1, <3>4, FitsKeeps DEF Active, Operated
    <3>6. QED
      BY <1>1, <3>1, <3>2, <3>5 DEF Operated
  <2>3. QED
    BY <2>1, <2>2
<1>4. Acts' = Acts /\ ~(phase' = "called") /\ ~(Len(frames') = 1)
  BY <1>1, <1>2 DEF Acts, running
<1>5. BaseOf(frames'[2]) = 0
  BY <1>1 DEF Facts, Operands
<1>6. Rising'
  BY <1>1 DEF Facts, Operands, Rising, Acts, Base
<1>7. QED
  BY <1>3, <1>4, <1>5, <1>6 DEF Operands

LEMMA OperandsLeave ==
  ASSUME Facts, TypedStacks', LeavesFitting
  PROVE  Operands'
<1>1. /\ running /\ running' /\ ~(phase' = "called") /\ Len(frames) >= 2 /\ callee' = callee
      /\ frames' = DropLast(frames, 1) /\ pc' = Inner.pre /\ Leaves
      /\ Ret[Inner.func] <= pc.h /\ Slack(Len(values'), BaseOf(Inner) + Ret[Inner.func])
  BY DEF LeavesFitting, Leaves, running
<1>2. /\ Inner \in Frame /\ Inner = frames[Len(frames)] /\ Len(frames) \in Nat
      /\ Len(frames) \in Acts /\ BaseOf(Inner) = Base(Len(frames)) /\ BaseOf(Inner) \in Nat
      /\ Inner.func \in Funcs \ Natives /\ pc.h <= MaxHeight /\ pc.h \in Nat
      /\ Ret[Inner.func] \in Nat /\ Inner.labelStackSize \in Nat /\ MaxHeight \in Nat
  BY <1>1, TopFacts
<1>3. frames \in Seq(Frame) /\ Len(values') \in Nat
  BY LenProperties DEF Facts, TypedStacks, TypeInv
<1>4. /\ Len(frames') = Len(frames) - 1
      /\ \A i \in 1..(Len(frames) - 1) : frames'[i] = frames[i]
  BY <1>1, <1>3, PoppedType
<1>5. ASSUME NEW i \in Acts' PROVE Operated(i)'
  <2>1. i \in Nat /\ i >= 2 /\ i < Len(frames) /\ i \in Acts /\ frames'[i] = frames[i]
    BY <1>2, <1>4 DEF Acts
  <2>2. /\ i + 1 \in Acts /\ frames[i] \in Frame /\ PosOf(i) \in Position
        /\ Active(i) /\ frames[i + 1] \in Frame
        /\ PosOf(i) = frames[i + 1].pre /\ LabelEnd(i) = frames[i + 1].labelStackSize
        /\ Operated(i) /\ Base(i) \in Nat /\ PosOf(i).h \in Nat
    BY <1>1, <2>1, ActFacts, OperatedFacts DEF Facts
  <2>3. PosOf(i)' = PosOf(i) /\ Slack(ValueEnd(i)', Base(i)' + Held(i)') /\ Base(i)' = Base(i)
    <3>0. Base(i)' = Base(i)
      BY <2>1 DEF Base
    <3>1. CASE i = Len(frames) - 1
      <4>1. i + 1 = Len(frames) /\ ~Suspended(i)' /\ Suspended(i)
        BY <1>2, <1>4, <2>1, <3>1 DEF Suspended
      <4>2. /\ PosOf(i)' = pc' /\ pc' = PosOf(i) /\ ValueEnd(i)' = Len(values')
            /\ Held(i)' = PosOf(i).h
        BY <1>1, <1>2, <2>2, <4>1 DEF PosOf, ValueEnd, Held
      <4>3. ValueEnd(i) = BaseOf(Inner) /\ Held(i) = PosOf(i).h - Ret[Inner.func]
        BY <1>2, <4>1 DEF ValueEnd, Held
      <4>4. Slack(BaseOf(Inner), Base(i) + (PosOf(i).h - Ret[Inner.func]))
        BY <2>2, <4>3 DEF Operated
      <4>5. Slack(BaseOf(Inner) + Ret[Inner.func], Base(i) + PosOf(i).h)
        BY <1>2, <2>2, <4>4, SlackOver
      <4>6. /\ BaseOf(Inner) + Ret[Inner.func] \in Int /\ Base(i) + PosOf(i).h \in Int
            /\ Len(values') \in Int
        BY <1>2, <1>3, <2>2
      <4>7. Slack(Len(values'), Base(i) + PosOf(i).h)
        BY <1>1, <4>5, <4>6, SlackChain
      <4>8. QED
        BY <3>0, <4>2, <4>7
    <3>2. CASE i # Len(frames) - 1
      <4>1. Suspended(i)' /\ Suspended(i) /\ frames'[i + 1] = frames[i + 1]
        BY <1>2, <1>4, <2>1, <3>2 DEF Suspended
      <4>2. PosOf(i)' = PosOf(i) /\ ValueEnd(i)' = ValueEnd(i) /\ Held(i)' = Held(i)
        BY <2>2, <4>1 DEF PosOf, ValueEnd, Held, Base
      <4>3. QED
        BY <2>2, <3>0, <4>2 DEF Operated
    <3>3. QED
      BY <3>1, <3>2
  <2>4. frames[i + 1].labelStackSize <= Inner.labelStackSize
    <3>1. i + 1 <= Len(frames) /\ Ordered
      BY <1>1, <1>2, <2>1 DEF Facts, Nested, Acts
    <3>2. QED
      BY <1>2, <2>2, <3>1 DEF Ordered
  <2>5. \A x \in 1..LabelEnd(i) : labels'[x] = labels[x]
    <3>1. LabelEnd(i) \in Nat
      BY <2>2 DEF Frame
    <3>2. QED
      BY <1>1, <1>2, <2>2, <2>4, <3>1 DEF Leaves, Keeps
  <2>6. Fits(frames[i], PosOf(i), labels')
    BY <2>2, <2>5, FitsKeeps DEF Active, Operated
  <2>7. QED
    BY <2>1, <2>2, <2>3, <2>6 DEF Operated
<1>6. ASSUME Len(frames') = 1 PROVE Delivered'
  <2>a. \A n \in Nat : n - 1 = 1 => n = 2
    OBVIOUS
  <2>1. Len(frames) = 2
    BY <1>2, <1>4, <1>6, <2>a
  <2>2. BaseOf(Inner) = 0 /\ Inner.func = callee
    BY <1>1, <1>2, <2>1 DEF Facts, Operands, Nested, Outermost
  <2>3. Type(callee).ret = Ret[Inner.func] /\ 0 + Ret[Inner.func] = Ret[Inner.func]
    BY <1>2, <2>2 DEF Type
  <2>4. Slack(Len(values'), Ret[Inner.func])
    BY <1>1, <2>2, <2>3
  <2>5. ~LeftoverReturn => Len(values') <= MaxHeight
    BY <1>1, <1>2, <1>3, <2>4 DEF Slack
  <2>6. QED
    BY <1>1, <2>3, <2>4, <2>5 DEF Delivered, Type
<1>7. ASSUME Len(frames') >= 2 PROVE BaseOf(frames'[2]) = 0
  <2>1. 2 \in 1..(Len(frames) - 1)
    BY <1>2, <1>4, <1>7
  <2>2. QED
    BY <1>1, <1>4, <2>1 DEF Facts, Operands
<1>8. ASSUME NEW i \in Acts', NEW j \in Acts', i <= j PROVE Base(i)' <= Base(j)'
  <2>1. /\ i \in 1..(Len(frames) - 1) /\ i \in Acts /\ j \in 1..(Len(frames) - 1) /\ j \in Acts
    BY <1>2, <1>4 DEF Acts
  <2>2. Base(i)' = Base(i) /\ Base(j)' = Base(j)
    BY <1>4, <2>1 DEF Base
  <2>3. QED
    BY <1>1, <1>8, <2>1, <2>2 DEF Facts, Operands, Rising
<1>9. QED
  BY <1>1, <1>5, <1>6, <1>7, <1>8 DEF Operands, Rising

LEMMA OneMore ==
  ASSUME NEW n \in Nat, NEW m \in Nat, NEW a \in Int, NEW b \in Int,
         a <= (n - 2) * m, b <= m
  PROVE  a + b <= ((n + 1) - 2) * m
<1>1. ((n + 1) - 2) * m = (n - 2) * m + m
  OBVIOUS
<1>2. (n - 2) * m \in Int
  OBVIOUS
<1>3. QED
  BY <1>1, <1>2

LEMMA OperandsEnter ==
  ASSUME Facts, NEW f \in Funcs \ Natives, NEW return \in Position,
         NEW vals \in Seq(Val), EntersFitting(f, return, vals)
  PROVE  Operands'
<1> DEFINE size == Len(vals)
           new == NewFrame(f, return, size)
           top == Len(frames) + 1
<1>1. /\ running' /\ ~(phase' = "called") /\ UNCHANGED <<labels, callee>>
      /\ EntersFor(f, return, size) /\ Params[f] <= size /\ values' = WithoutArguments(f, vals)
  BY DEF EntersFitting, EntersFor, running
<1>2. /\ frames \in Seq(Frame) /\ Len(frames) \in Nat
      /\ Params[f] \in Nat /\ Ret[f] \in Nat /\ MaxHeight \in Nat /\ return.h \in Nat
  <2>1. Params[f] \in Nat /\ Ret[f] \in 0..1
    BY FuncsAssumption
  <2>2. Ret[f] \in Nat
    BY <2>1
  <2>3. QED
    BY <2>1, <2>2, LenProperties, BoundsAssumption
       DEF Facts, TypedStacks, TypeInv, Position, Place
<1>3. new \in Frame /\ size \in Nat /\ Len(values') = size - Params[f]
  <2>1. size \in Nat
    BY LenProperties
  <2>2. Len(DropLast(vals, Params[f])) = size - Params[f]
    BY <1>1, <1>2, DropLen
  <2>3. QED
    BY <1>1, <2>1, <2>2, NewFrameType DEF Facts, WithoutArguments
<1> HIDE DEF size
<1>4. /\ Len(frames') = top /\ frames'[top] = new
      /\ \A i \in 1..Len(frames) : frames'[i] = frames[i]
  BY <1>1, <1>2, <1>3, AppendType DEF EntersFor
<1>5. /\ new.func = f /\ new.pre = return /\ new.valueStackSize = size
      /\ BaseOf(new) = size - Params[f] /\ size - Params[f] \in Nat
  BY <1>1, <1>2, <1>3 DEF NewFrame, BaseOf
<1>6. pc' = Pos("entry", f, 0)
  BY <1>1 DEF EntersFor
<1>7. IF running THEN Len(frames) >= 2 /\ return.h <= MaxHeight
                      /\ Ret[f] <= return.h
                      /\ Slack(size - Params[f], BaseOf(Inner) + (return.h - Ret[f]))
                 ELSE Len(frames) = 1 /\ size = Params[f] /\ phase = "called" /\ f = callee
  <2>1. CASE running
    BY <1>1, <2>1 DEF EntersFitting, EntersFor, CountsOn, size
  <2>2. CASE ~running
    <3>1. phase = "called" /\ f = callee /\ size = Params[f]
      BY <1>1, <2>2 DEF EntersFitting, EntersFor, CountsOn, size
    <3>2. frames = <<DummyFrame>>
      BY <3>1 DEF Facts, TypedStacks, DummyBelow
    <3>3. QED
      BY <2>2, <3>1, <3>2
  <2>3. QED
    BY <2>1, <2>2
<1>r. Len(frames) >= 2 => running
  <2>1. \A n \in Nat : n >= 2 => n # 1
    OBVIOUS
  <2>2. QED
    BY <1>2, <1>7, <2>1
<1>8. ASSUME running
      PROVE  /\ BaseOf(Inner) \in Nat /\ Inner.func \in Funcs /\ Len(frames) \in Acts
             /\ Inner = frames[Len(frames)] /\ BaseOf(Inner) = Base(Len(frames))
             /\ Operated(Len(frames))
  BY <1>7, <1>8, TopFacts, OperatedFacts
<1>9. ~LeftoverReturn => BaseOf(new) <= (top - 2) * MaxHeight
  <2>1. ASSUME ~LeftoverReturn, running PROVE BaseOf(new) <= (top - 2) * MaxHeight
    <3>1. BaseOf(Inner) <= (Len(frames) - 2) * MaxHeight
      BY <1>8, <2>1 DEF Operated
    <3>2. size - Params[f] = BaseOf(Inner) + (return.h - Ret[f])
      BY <1>7, <2>1 DEF Slack
    <3>3. /\ return.h - Ret[f] <= MaxHeight /\ return.h - Ret[f] \in Int
      BY <1>2, <1>7, <1>8, <2>1
    <3>4. QED
      BY <1>2, <1>5, <1>8, <2>1, <3>1, <3>2, <3>3, OneMore
  <2>2. ASSUME ~running PROVE BaseOf(new) <= (top - 2) * MaxHeight
    <3>1. \A m, n \in Nat : ((1 + 1) - 2) * m = 0 /\ n - n = 0 /\ 0 <= 0
      OBVIOUS
    <3>2. Len(frames) = 1 /\ size = Params[f]
      BY <1>7, <2>2
    <3>3. BaseOf(new) = 0 /\ (top - 2) * MaxHeight = 0
      BY <1>2, <1>5, <3>1, <3>2
    <3>4. QED
      BY <3>1, <3>3
  <2>3. QED
    BY <2>1, <2>2
<1>10. ASSUME NEW i \in Acts', i = top PROVE Operated(i)'
  <2>1. /\ PosOf(i)' = pc' /\ ValueEnd(i)' = Len(values') /\ Held(i)' = 0
        /\ Base(i)' = BaseOf(new) /\ ~Suspended(i)'
    BY <1>2, <1>4, <1>6, <1>10 DEF PosOf, ValueEnd, Held, Suspended, Base, BaseOf, Pos
  <2>2. Fits(new, pc', labels)
    BY <1>2, <1>5, <1>6 DEF Fits, Pos
  <2>3. Slack(Len(values'), BaseOf(new) + 0)
    BY <1>3, <1>5, SlackEqual
  <2>4. QED
    BY <1>1, <1>4, <1>9, <1>10, <2>1, <2>2, <2>3 DEF Operated
<1>11. ASSUME NEW i \in Acts', i # top PROVE Operated(i)'
  <2>1. i \in Nat /\ i >= 2 /\ i <= Len(frames) /\ i \in Acts /\ i \in 1..Len(frames)
    BY <1>2, <1>4, <1>11 DEF Acts
  <2>2. running
    <3>0. \A n, k \in Nat : k >= 2 /\ k <= n => n # 1
      OBVIOUS
    <3>1. Len(frames) # 1
      BY <1>2, <2>1, <3>0
    <3>2. QED
      BY <1>7, <3>1
  <2>3. /\ frames'[i] = frames[i] /\ frames[i] \in Frame /\ PosOf(i) \in Position
        /\ Operated(i) /\ Base(i)' = Base(i)
    BY <1>4, <2>1, <2>2, OperatedFacts DEF Base
  <2>4. CASE i = Len(frames)
    <3>1. PosOf(i) = pc
      BY <2>4 DEF PosOf, Suspended
    <3>2. /\ PosOf(i)' = return /\ ValueEnd(i)' = size - Params[f]
          /\ Held(i)' = return.h - Ret[f]
      BY <1>2, <1>4, <1>5, <2>4 DEF PosOf, ValueEnd, Held, Suspended, Base
    <3>3. return.ctl = pc.ctl /\ return.h <= MaxHeight
      BY <1>1, <1>7, <2>2 DEF EntersFor
    <3>4. Fits(frames[i], return, labels)
      BY <2>3, <3>1, <3>3, FitsAround DEF Operated
    <3>5. BaseOf(Inner) = Base(i)
      BY <1>8, <2>2, <2>4
    <3>6. Slack(size - Params[f], Base(i) + (return.h - Ret[f]))
      BY <1>7, <2>2, <3>5
    <3>7. QED
      BY <1>1, <2>3, <3>2, <3>4, <3>6 DEF Operated
  <2>5. CASE i # Len(frames)
    <3>1. i + 1 \in 1..Len(frames)
      BY <1>2, <2>1, <2>5
    <3>2. frames'[i + 1] = frames[i + 1] /\ Suspended(i) /\ Suspended(i)'
      BY <1>2, <1>4, <2>1, <2>5, <3>1 DEF Suspended
    <3>3. PosOf(i)' = PosOf(i) /\ ValueEnd(i)' = ValueEnd(i) /\ Held(i)' = Held(i)
      BY <3>2 DEF PosOf, ValueEnd, Held, Base
    <3>4. QED
      BY <1>1, <2>3, <3>3 DEF Operated
  <2>6. QED
    BY <2>4, <2>5
<1>12. Len(frames') # 1 /\ BaseOf(frames'[2]) = 0
  <2>1. CASE running
    <3>1. 2 \in 1..Len(frames)
      BY <1>2, <1>7, <2>1
    <3>2. QED
      BY <1>2, <1>4, <1>7, <2>1, <3>1 DEF Facts, Operands
  <2>2. CASE ~running
    <3>1. \A n \in Nat : n - n = 0
      OBVIOUS
    <3>2. Len(frames) = 1 /\ size = Params[f]
      BY <1>7, <2>2
    <3>3. top = 2 /\ size - Params[f] = 0
      BY <1>2, <3>1, <3>2
    <3>4. QED
      BY <1>4, <1>5, <3>3
  <2>3. QED
    BY <2>1, <2>2
<1>13. running => BaseOf(Inner) <= BaseOf(new)
  <2>1. ASSUME running PROVE BaseOf(Inner) <= BaseOf(new)
    <3>1. BaseOf(Inner) + (return.h - Ret[f]) \in Int /\ return.h - Ret[f] >= 0
      BY <1>2, <1>7, <1>8, <2>1
    <3>2. size - Params[f] >= BaseOf(Inner) + (return.h - Ret[f])
      BY <1>5, <1>7, <2>1, <3>1, SlackAbove
    <3>3. QED
      BY <1>2, <1>5, <1>8, <2>1, <3>1, <3>2
  <2>2. QED
    BY <2>1
<1>14. ASSUME NEW i \in Acts', NEW j \in Acts', i <= j PROVE Base(i)' <= Base(j)'
  <2>1. CASE j = top
    <3>1. Base(j)' = BaseOf(new) /\ BaseOf(new) \in Nat
      BY <1>4, <1>5, <2>1 DEF Base, BaseOf
    <3>2. CASE i = top
      BY <2>1, <3>1, <3>2
    <3>3. CASE i # top
      <4>1. i \in 1..Len(frames) /\ i \in Acts /\ i <= Len(frames) /\ i >= 2
        BY <1>2, <1>4, <3>3 DEF Acts
      <4>2. running
        BY <1>2, <1>r, <4>1
      <4>3. Base(i)' = Base(i) /\ Base(i) \in Nat
        BY <1>4, <4>1, <4>2, OperatedFacts DEF Base
      <4>4. Base(i) <= BaseOf(Inner)
        BY <1>8, <4>1, <4>2 DEF Facts, Operands, Rising
      <4>5. QED
        BY <1>8, <1>13, <3>1, <4>2, <4>3, <4>4
    <3>4. QED
      BY <3>2, <3>3
  <2>2. CASE j # top
    <3>1. /\ i \in 1..Len(frames) /\ i \in Acts /\ j \in 1..Len(frames) /\ j \in Acts
          /\ j <= Len(frames) /\ j >= 2
      BY <1>2, <1>4, <1>14, <2>2, SMTT(20) DEF Acts
    <3>2. running
      BY <1>2, <1>r, <3>1
    <3>3. Base(i)' = Base(i) /\ Base(j)' = Base(j)
      BY <1>4, <3>1 DEF Base
    <3>4. QED
      BY <1>14, <3>1, <3>2, <3>3 DEF Facts, Operands, Rising
  <2>3. QED
    BY <2>1, <2>2
<1>15. QED
  BY <1>1, <1>10, <1>11, <1>12, <1>14 DEF Operands, Rising

-----------------------------------------------------------------------------
(* Instructions that neither enter nor leave a block or a function.         *)

(* What an instruction takes is its activation's.                           *)
LEMMA TakesOwn ==
  ASSUME Facts, NEW n \in Nat, NEW m \in Nat, NEW ats, "dummy" \notin ats, May(ats, n, m)
  PROVE  /\ BaseOf(Inner) <= Len(values) - n /\ n <= pc.h /\ BaseOf(Inner) \in Nat
         /\ Len(frames) >= 2
<1>1. /\ running /\ pc.at # "dummy" /\ Cur \in Control /\ pc.h >= Cur.base + n
  BY MayFacts DEF Facts
<1>2. Len(frames) >= 2
  BY <1>1, RunningFacts DEF Facts
<1>3. /\ BaseOf(Inner) + pc.h <= Len(values) /\ BaseOf(Inner) \in Nat /\ pc.h \in Nat
      /\ Len(values) \in Nat
  BY <1>1, <1>2, TopFacts
<1>4. n <= pc.h
  BY <1>1, <1>3 DEF Control
<1>5. QED
  BY <1>2, <1>3, <1>4

LEMMA CodeHeight ==
  ASSUME NEW n \in Nat, NEW m \in Nat, NEW ats, May(ats, n, m)
  PROVE  pc.h + m <= MaxHeight + n
BY DEF May

LEMMA InstructionFits ==
  ASSUME Facts, Stays, NEW n \in Nat, NEW m \in Nat, Code(n, m),
         pc' = After(n, m), Len(values') = (Len(values) - n) + m, UNCHANGED labels,
         Keeps(values, values', Len(values) - n)
  PROVE  StaysFitting
<1>1. /\ running /\ Len(frames) >= 2 /\ TypedStacks
  BY DEF Stays, Facts
<1>2. /\ Inner \in Frame /\ pc \in Position /\ Fits(Inner, pc, labels)
      /\ Slack(Len(values), BaseOf(Inner) + pc.h) /\ BaseOf(Inner) \in Nat
      /\ pc.h \in Nat /\ Len(values) \in Nat /\ MaxHeight \in Nat
  BY <1>1, TopFacts
<1>3. pc'.h = (pc.h - n) + m /\ pc'.ctl = pc.ctl
  BY <1>1, AfterFacts
<1>4. pc.h + m <= MaxHeight + n
  BY CodeHeight DEF Code, CodeAt
<1>5. pc'.h <= MaxHeight
  BY <1>2, <1>3, <1>4
<1>6. Fits(Inner, pc', labels')
  BY <1>2, <1>3, <1>5, FitsAround
<1>7. /\ Len(values) \in Int /\ BaseOf(Inner) + pc.h \in Int
      /\ (Len(values) - n) + m \in Int /\ BaseOf(Inner) + ((pc.h - n) + m) \in Int
  BY <1>2
<1>8. ((Len(values) - n) + m) - Len(values) = (BaseOf(Inner) + ((pc.h - n) + m)) - (BaseOf(Inner) + pc.h)
  BY <1>2
<1>9. Slack((Len(values) - n) + m, BaseOf(Inner) + ((pc.h - n) + m))
  BY <1>2, <1>7, <1>8, SlackShift
<1>10. Keeps(values, values', BaseOf(Inner))
  <2>1. BaseOf(Inner) <= Len(values) - n
    BY TakesOwn DEF Code, CodeAt
  <2>2. Len(values') \in Int /\ Len(values) - n \in Int
    BY <1>2
  <2>3. QED
    BY <1>2, <2>1, <2>2, KeepsLess
<1>11. QED
  BY <1>3, <1>6, <1>9, <1>10 DEF StaysFitting

LEMMA ReplaceLength ==
  ASSUME TypedStacks, NEW n \in Nat, NEW s \in Seq(Val), Code(n, Len(s)), Replace(n, s)
  PROVE  /\ Len(values') = (Len(values) - n) + Len(s) /\ Keeps(values, values', Len(values) - n)
         /\ pc' = After(n, Len(s)) /\ UNCHANGED labels
<1>1. values \in Seq(Val) /\ n <= Len(values)
  BY DEF TypedStacks, TypeInv, Code, CodeAt, May
<1>2. /\ Len(DropLast(values, n) \o s) = (Len(values) - n) + Len(s)
      /\ Keeps(values, DropLast(values, n) \o s, Len(values) - n)
  BY <1>1, DropExtended
<1>3. QED
  BY <1>2 DEF Replace

(* The operands and the code an instruction leaves.                         *)
Operates(n, m) ==
  /\ Code(n, m) /\ pc' = After(n, m)
  /\ Len(values') = (Len(values) - n) + m /\ UNCHANGED labels
  /\ Keeps(values, values', Len(values) - n)

LEMMA PlainOperates ==
  ASSUME TypedStacks, Plain, phase' # "idle"
  PROVE  \E n, m \in Nat : Operates(n, m)
<1>0. 0 \in Nat /\ 1 \in Nat /\ 2 \in Nat /\ 3 \in Nat
  OBVIOUS
<1>s. values \in Seq(Val) /\ Len(values) \in Nat
  BY LenProperties DEF TypedStacks, TypeInv
<1>1. ASSUME NEW v, v \in Val, NEW n \in Nat, Code(n, 1), Replace(n, <<v>>)
      PROVE  Operates(n, 1)
  <2>1. <<v>> \in Seq(Val) /\ Len(<<v>>) = 1
    BY <1>1, SingletonType
  <2>2. QED
    BY <1>1, <2>1, ReplaceLength DEF Operates
<1>2. ASSUME NEW n \in Nat, Code(n, 0), Replace(n, <<>>) PROVE Operates(n, 0)
  <2>1. <<>> \in Seq(Val) /\ Len(<<>>) = 0
    BY EmptySeq
  <2>2. QED
    BY <1>2, <2>1, ReplaceLength DEF Operates
<1>3. ASSUME NEW v \in Val, Const(v) \/ MemorySize(v) PROVE Operates(0, 1)
  BY <1>0, <1>1, <1>3 DEF Const, MemorySize
<1>4. ASSUME NEW v \in Val, Unary(v) \/ Load(v) \/ MemoryGrow(v) PROVE Operates(1, 1)
  BY <1>0, <1>1, <1>4 DEF Unary, Load, MemoryGrow
<1>5. ASSUME NEW v \in Val, Binary(v) PROVE Operates(2, 1)
  BY <1>0, <1>1, <1>5 DEF Binary
<1>6. CASE Drop
  BY <1>0, <1>2, <1>6 DEF Drop
<1>7. CASE Store
  BY <1>0, <1>2, <1>7 DEF Store
<1>8. CASE Select
  <2>1. Code(3, 1)
    BY <1>8 DEF Select
  <2>2. 3 <= Len(values) /\ Len(values) \in Nat
    BY <1>0, <2>1, CodeFacts DEF Code
  <2>3. Top(1) \in Val /\ Top(2) \in Val
    BY <1>0, <2>2, TopType
  <2>4. PICK v \in Val : Replace(3, <<v>>)
    BY <1>8, <2>3 DEF Select
  <2>5. QED
    BY <1>0, <1>1, <2>1, <2>4
<1>9. ASSUME NEW n \in 1..2, NEW v \in 0..1, Compare(n, v) PROVE Operates(n, 1)
  <2>1. n \in Nat /\ v \in Val
    BY ValAssumption
  <2>2. QED
    BY <1>1, <1>9, <2>1 DEF Compare
<1>10. ASSUME NEW i \in 0..(LocalCap - 1), GetLocal(i) PROVE Operates(0, 1)
  <2>0. i \in Nat
    OBVIOUS
  <2>1. running /\ pc.at # "dummy"
    BY <1>0, <1>10, CodeFacts DEF GetLocal, Code
  <2>2. PICK v \in LocalRead(i) : Replace(0, <<v>>)
    BY <1>10 DEF GetLocal
  <2>a. v \in Val
    BY <2>0, <2>1, LocalType
  <2>3. QED
    BY <1>0, <1>1, <1>10, <2>2, <2>a DEF GetLocal
<1>11. ASSUME NEW n \in 0..1, Code(1, n), pc' = After(1, n), UNCHANGED labels,
              values' = IF n = 0 THEN DropLast(values, 1) ELSE values
       PROVE  Operates(1, n)
  <2>1. 1 <= Len(values)
    BY <1>11 DEF Code, CodeAt, May
  <2>2. Len(DropLast(values, 1)) = Len(values) - 1
    BY <1>0, <1>s, <2>1, DropLen
  <2>a. Keeps(values, DropLast(values, 1), Len(values) - 1)
    BY <1>0, <1>s, <2>1, DropKeeps
  <2>b. Keeps(values, values, Len(values) - 1)
    <3>1. Len(values) - 1 <= Len(values)
      BY <1>s
    <3>2. QED
      BY <3>1 DEF Keeps
  <2>3. Len(values') = (Len(values) - 1) + n /\ Keeps(values, values', Len(values) - 1)
    <3>1. CASE n = 0
      BY <1>s, <1>11, <2>2, <2>a, <3>1
    <3>2. CASE n = 1
      BY <1>s, <1>11, <2>b, <3>2
    <3>3. QED
      BY <3>1, <3>2
  <2>4. QED
    BY <1>11, <2>3 DEF Operates
<1>12. ASSUME NEW i, SetLocal(i) PROVE Operates(1, 0)
  BY <1>11, <1>12 DEF SetLocal
<1>13. ASSUME NEW i, TeeLocal(i) PROVE Operates(1, 1)
  BY <1>11, <1>13 DEF TeeLocal
<1>14. ASSUME NEW g \in Globals, GetGlobal(g) PROVE Operates(0, 1)
  <2>1. globals[g] \in Val
    BY DEF TypedStacks, TypeInv
  <2>2. QED
    BY <1>0, <1>1, <1>14, <2>1 DEF GetGlobal
<1>15. ASSUME NEW g, SetGlobal(g) PROVE Operates(1, 0)
  BY <1>11, <1>15 DEF SetGlobal
<1>16. /\ ~Unreachable /\ \A n : ~OutOfBounds(n) /\ \A t : ~DivTrap(t) /\ ~TruncTrap(t)
  BY DEF Unreachable, OutOfBounds, DivTrap, TruncTrap, Fail
<1>17. QED
  BY <1>0, <1>3, <1>4, <1>5, <1>6, <1>7, <1>8, <1>9, <1>10, <1>12, <1>13, <1>14, <1>15, <1>16
     DEF Plain

LEMMA PlainFits ==
  ASSUME Facts, Plain
  PROVE  StaysFitting \/ phase' = "idle"
<1>1. CASE phase' = "idle"
  BY <1>1
<1>2. CASE phase' # "idle"
  <2>1. PICK n, m \in Nat : Operates(n, m)
    BY <1>2, PlainOperates DEF Facts
  <2>2. Stays
    BY <1>2, PlainSteps DEF Facts
  <2>3. QED
    BY <2>1, <2>2, InstructionFits DEF Operates
<1>3. QED
  BY <1>1, <1>2

-----------------------------------------------------------------------------
(* Structured control.                                                      *)

(* The blocks around pc start no higher than the innermost.                 *)
LEMMA InnermostHighest ==
  ASSUME Facts, running, pc.at # "dummy", Depth > 0, NEW j \in 1..Len(pc.ctl)
  PROVE  pc.ctl[j] \in Control /\ Cur \in Control /\ pc.ctl[j].base <= Cur.base
<1>1. Len(frames) >= 2
  BY RunningFacts DEF Facts
<1>2. pc.ctl \in Seq(Control) /\ Len(pc.ctl) \in Nat /\ Fits(Inner, pc, labels)
  BY <1>1, TopFacts, LenProperties
<1>3. Depth \in 1..Len(pc.ctl) /\ j <= Depth
  BY <1>2 DEF Depth
<1>4. pc.ctl[j] \in Control /\ Cur \in Control
  BY <1>2, <1>3, ElementOfSeq DEF Cur
<1>5. QED
  BY <1>2, <1>3, <1>4 DEF Fits, Cur

LEMMA BlockFits ==
  ASSUME Facts, Stays, NEW ats, "dummy" \notin ats, NEW n \in Nat, NEW m \in Nat,
         May(ats, n, m),
         NEW label \in Label, NEW target, PushLabel(label, target),
         NEW c \in Control, target.ctl = Append(pc.ctl, c), target.h = pc.h - n,
         c.base = pc.h - n, label.valueStackSize = Len(values) - n,
         Len(values') = Len(values) - n, Keeps(values, values', Len(values) - n)
  PROVE  StaysFitting
<1>1. /\ running /\ Len(frames) >= 2 /\ TypedStacks /\ phase' = "running"
  BY DEF Stays, Facts
<1>2. pc' = target /\ labels' = Append(labels, label)
  BY <1>1 DEF PushLabel, Fail
<1>3. /\ Inner \in Frame /\ pc \in Position /\ Fits(Inner, pc, labels)
      /\ Well(Inner, pc, labels, Len(labels)) /\ labels \in Seq(Label)
      /\ Slack(Len(values), BaseOf(Inner) + pc.h) /\ BaseOf(Inner) \in Nat
      /\ pc.h \in Nat /\ Len(values) \in Nat /\ MaxHeight \in Nat /\ pc.h <= MaxHeight
  BY <1>1, TopFacts
<1>4. /\ Depth > 0 /\ Cur \in Control /\ pc.h >= Cur.base + n /\ pc.at # "dummy"
  BY <1>1, MayFacts
<1>5. c.base \in Nat /\ Cur.base \in Nat /\ Cur.base <= c.base
  <2>1. c.base \in Nat /\ Cur.base \in Nat
    BY <1>4 DEF Control
  <2>2. Cur.base <= pc.h - n
    BY <1>3, <1>4, <2>1
  <2>3. QED
    BY <2>1, <2>2
<1>6. ASSUME NEW j \in 1..Len(pc.ctl) PROVE pc.ctl[j].base <= c.base
  <2>1. pc.ctl[j].base \in Nat /\ pc.ctl[j].base <= Cur.base
    BY <1>1, <1>4, InnermostHighest DEF Control
  <2>2. QED
    BY <1>5, <2>1
<1>7. pc'.h <= MaxHeight
  <2>1. pc'.h = pc.h - n
    BY <1>2
  <2>2. QED
    BY <1>3, <2>1
<1>8. Slack(Len(values) - n, BaseOf(Inner) + (pc.h - n))
  <2>1. /\ Len(values) \in Int /\ BaseOf(Inner) + pc.h \in Int
        /\ Len(values) - n \in Int /\ BaseOf(Inner) + (pc.h - n) \in Int
    BY <1>3
  <2>2. (Len(values) - n) - Len(values) = (BaseOf(Inner) + (pc.h - n)) - (BaseOf(Inner) + pc.h)
    BY <1>3
  <2>3. QED
    BY <1>3, <2>1, <2>2, SlackShift
<1>9. Fits(Inner, pc', labels')
  <2>1. Slack(label.valueStackSize, BaseOf(Inner) + c.base)
    BY <1>8
  <2>2. pc'.ctl = Append(pc.ctl, c)
    BY <1>2
  <2>3. Fits(Inner, pc', Append(labels, label))
    BY <1>3, <1>6, <1>7, <2>1, <2>2, FitsInner
  <2>4. QED
    BY <1>2, <2>3
<1>10. Keeps(values, values', BaseOf(Inner))
  <2>1. BaseOf(Inner) <= Len(values) - n
    BY TakesOwn
  <2>2. Len(values') \in Int /\ Len(values) - n \in Int
    BY <1>3
  <2>3. QED
    BY <1>3, <2>1, <2>2, KeepsLess
<1>11. QED
  BY <1>2, <1>8, <1>9, <1>10 DEF StaysFitting

LEMMA BlocksFit ==
  ASSUME Facts, NEW r \in 0..1,
         Block(r) \/ Loop(r) \/ \E hasElse \in BOOLEAN : If(r, hasElse)
  PROVE  StaysFitting \/ phase' = "idle"
<1>0. 0 \in Nat /\ 1 \in Nat /\ r \in Nat /\ "dummy" \notin {"any"} /\ "dummy" \notin {"any", "loop"}
  OBVIOUS
<1>1. CASE phase' = "idle"
  BY <1>1
<1>2. CASE phase' # "idle"
  <2>1. Stays /\ TypedStacks
    BY <1>2, BlockSteps DEF Facts
  <2>2. values \in Seq(Val) /\ Len(values) \in Nat
    BY <2>1, LenProperties DEF TypedStacks, TypeInv
  <2>z. \A k \in Nat : k - 0 = k
    OBVIOUS
  <2>k. Keeps(values, values, Len(values) - 0)
    BY <2>2, <2>z DEF Keeps
  <2>3. CASE Block(r)
    <3> DEFINE c == [loop |-> FALSE, res |-> r, base |-> pc.h]
               label == NewLabel(r, After(0, r), After(0, r), Len(values))
               target == Inside("any", FALSE, r, pc.h)
    <3>1. May({"any"}, 0, r) /\ PushLabel(label, target) /\ values' = values
      BY <2>3 DEF Block
    <3>2. pc.h \in Nat /\ After(0, r) \in Position
      BY <1>0, <2>1, <3>1, MayFacts
    <3>3. label \in Label /\ c \in Control
      BY <2>2, <3>2 DEF NewLabel, Label, Control
    <3>4. /\ target.ctl = Append(pc.ctl, c) /\ target.h = pc.h /\ c.base = pc.h
          /\ label.valueStackSize = Len(values)
      BY DEF Inside, NewLabel
    <3>5. /\ target.h = pc.h - 0 /\ c.base = pc.h - 0
          /\ label.valueStackSize = Len(values) - 0 /\ Len(values') = Len(values) - 0
          /\ Keeps(values, values', Len(values) - 0)
      BY <2>2, <2>z, <2>k, <3>1, <3>2, <3>4
    <3>6. QED
      BY <1>0, <2>1, <3>1, <3>3, <3>4, <3>5, BlockFits
  <2>4. CASE Loop(r)
    <3> DEFINE c == [loop |-> TRUE, res |-> r, base |-> pc.h]
               label == NewLabel(0, After(0, r), [pc EXCEPT !.at = "loop"], Len(values))
               target == Inside("any", TRUE, r, pc.h)
    <3>1. May({"any", "loop"}, 0, r) /\ PushLabel(label, target) /\ values' = values
      BY <2>4 DEF Loop
    <3>2. pc.h \in Nat /\ After(0, r) \in Position
      BY <1>0, <2>1, <3>1, MayFacts
    <3>a. [pc EXCEPT !.at = "loop"] \in Position
      BY <1>0, <2>1, <3>1, MayFacts DEF TypedStacks, TypeInv, Position, Place
    <3>3. label \in Label /\ c \in Control
      BY <2>2, <3>2, <3>a DEF NewLabel, Label, Control
    <3>4. /\ target.ctl = Append(pc.ctl, c) /\ target.h = pc.h /\ c.base = pc.h
          /\ label.valueStackSize = Len(values)
      BY DEF Inside, NewLabel
    <3>5. /\ target.h = pc.h - 0 /\ c.base = pc.h - 0
          /\ label.valueStackSize = Len(values) - 0 /\ Len(values') = Len(values) - 0
          /\ Keeps(values, values', Len(values) - 0)
      BY <2>2, <2>z, <2>k, <3>1, <3>2, <3>4
    <3>6. QED
      BY <1>0, <2>1, <3>1, <3>3, <3>4, <3>5, BlockFits
  <2>5. ASSUME NEW hasElse \in BOOLEAN, If(r, hasElse) PROVE StaysFitting
    <3> DEFINE c == [loop |-> FALSE, res |-> r, base |-> pc.h - 1]
               label == NewLabel(r, After(1, r), After(1, r), Len(values) - 1)
               target == Inside(IF Top(0) # 0 \/ hasElse THEN "any" ELSE "end",
                                FALSE, r, pc.h - 1)
    <3>1. /\ CodeAt({"any"}, 1, r) /\ PushLabel(label, target)
          /\ values' = DropLast(values, 1)
      BY <2>5 DEF If, Code
    <3>2. /\ pc.h \in Nat /\ After(1, r) \in Position /\ 1 <= Len(values)
          /\ Cur \in Control /\ pc.h >= Cur.base + 1
      BY <1>0, <2>1, <3>1, CodeFacts
    <3>a. pc.h - 1 \in Nat /\ Len(values) - 1 \in Nat
      BY <2>2, <3>2 DEF Control
    <3>3. label \in Label /\ c \in Control
      BY <3>2, <3>a DEF NewLabel, Label, Control
    <3>4. /\ target.ctl = Append(pc.ctl, c) /\ target.h = pc.h - 1 /\ c.base = pc.h - 1
          /\ label.valueStackSize = Len(values) - 1
      BY DEF Inside, NewLabel
    <3>5. Len(values') = Len(values) - 1 /\ Keeps(values, values', Len(values) - 1)
      BY <1>0, <2>2, <3>1, <3>2, DropLen, DropKeeps
    <3>6. QED
      BY <1>0, <2>1, <3>1, <3>3, <3>4, <3>5, BlockFits DEF CodeAt
  <2>6. QED
    BY <2>3, <2>4, <2>5
<1>3. QED
  BY <1>1, <1>2

LEMMA EnterBodyFits ==
  ASSUME Facts, EnterBody
  PROVE  StaysFitting \/ phase' = "idle"
<1> DEFINE f == pc.func
           exit == Pos("exit", f, Ret[f])
           label == NewLabel(Ret[f], exit, exit, Len(values))
           target == [pc EXCEPT !.at = "any", !.ctl = <<Body(f)>>]
<1>1. running /\ pc.at = "entry" /\ PushLabel(label, target) /\ values' = values
  BY DEF EnterBody, running, Body
<1>2. CASE phase' = "idle"
  BY <1>2
<1>3. CASE phase' # "idle"
  <2>1. Stays /\ Len(frames) >= 2
    BY <1>3, EnterBodySteps DEF Facts, Stays
  <2>2. /\ pc' = target /\ labels' = Append(labels, label)
    BY <1>1, <1>3 DEF PushLabel, Fail
  <2>3. /\ Inner \in Frame /\ pc \in Position /\ Fits(Inner, pc, labels)
        /\ Well(Inner, pc, labels, Len(labels)) /\ labels \in Seq(Label)
        /\ Slack(Len(values), BaseOf(Inner) + pc.h) /\ BaseOf(Inner) \in Nat
        /\ pc.h \in Nat /\ Len(values) \in Nat /\ pc.h <= MaxHeight
        /\ Inner.labelStackSize \in Nat /\ Len(labels) \in Nat /\ f = Inner.func
        /\ Ret[f] \in 0..1 /\ Ret[f] \in Nat /\ f \in Funcs
    BY <1>1, <2>1, TopFacts
  <2>4. pc.ctl = <<>> /\ pc.h = 0
    BY <1>1, <2>1 DEF Facts, Nested, Outermost, Placed
  <2>5. Len(labels) = Inner.labelStackSize
    BY <2>3, <2>4, EmptySeq DEF Well
  <2>6. exit \in Position
    BY <2>3, EmptySeq DEF Pos, Position, Place
  <2>7. label \in Label /\ label.valueStackSize = Len(values)
    BY <2>3, <2>6 DEF NewLabel, Label
  <2>8. labels'[Len(labels) + 1] = label
    BY <2>2, <2>3, <2>7, AppendType
  <2>9. pc'.ctl = <<Body(f)>> /\ pc'.h = pc.h
    BY <2>2, <2>3 DEF Position, Place
  <2>10. Len(pc'.ctl) = 1 /\ pc'.ctl[1] = Body(f) /\ Body(f).base = 0
    BY <2>9 DEF Body
  <2>11. \A j \in 1..Len(pc'.ctl) :
           pc'.ctl[j].base = 0 /\ labels'[Inner.labelStackSize + j].valueStackSize = Len(values)
    <3>1. \A j \in 1..Len(pc'.ctl) : j = 1 /\ Inner.labelStackSize + j = Len(labels) + 1
      BY <2>3, <2>5, <2>10
    <3>2. QED
      BY <2>7, <2>8, <2>10, <3>1
  <2>12. Slack(Len(values), BaseOf(Inner) + 0)
    BY <2>3, <2>4
  <2>13. Fits(Inner, pc', labels')
    BY <2>3, <2>9, <2>11, <2>12 DEF Fits
  <2>14. Keeps(values, values, BaseOf(Inner))
    BY <2>1, TopFacts DEF Stays, Keeps
  <2>15. QED
    BY <1>1, <2>1, <2>3, <2>9, <2>13, <2>14 DEF StaysFitting
<1>4. QED
  BY <1>2, <1>3

(* A block ends at the height its label has for what follows.               *)
LEMMA EndFits ==
  ASSUME Facts, End
  PROVE  StaysFitting \/ LeavesFitting
<1>0. 0 \in Nat /\ "dummy" \notin {"any", "end"}
  OBVIOUS
<1>1. /\ TypedStacks /\ running /\ pc.at # "dummy" /\ Depth \in Nat /\ Depth > 0
      /\ OpEnd /\ pc.h = Cur.base + Cur.res /\ Cur \in Control /\ values' = values
  BY <1>0, MayFacts DEF End, OpEnd, Facts
<1>2. Len(frames) >= 2
  BY <1>1, RunningFacts
<1>3. /\ Inner \in Frame /\ pc \in Position /\ Fits(Inner, pc, labels)
      /\ Well(Inner, pc, labels, Len(labels)) /\ labels \in Seq(Label)
      /\ Slack(Len(values), BaseOf(Inner) + pc.h) /\ BaseOf(Inner) \in Nat
      /\ pc.h \in Nat /\ Len(values) \in Nat /\ pc.h <= MaxHeight
      /\ Inner.labelStackSize \in Nat /\ Len(labels) \in Nat /\ Ret[Inner.func] \in Nat
      /\ pc.ctl \in Seq(Control) /\ Inner.func \in Funcs
  BY <1>1, <1>2, TopFacts
<1>k. Keeps(values, values', BaseOf(Inner))
  BY <1>1, <1>2, TopFacts DEF Keeps
<1> DEFINE n == Inner.labelStackSize
           rest == DropLast(labels, 1)
<1>4. Len(labels) = n + Depth /\ Depth \in 1..Len(pc.ctl)
  BY <1>1, <1>3 DEF Well, Depth
<1>5. /\ labels # <<>> /\ Len(labels) >= 1
  BY <1>1, <1>3, <1>4, EmptySeq
<1>6. /\ Len(rest) = Len(labels) - 1
      /\ \A x \in 1..(Len(labels) - 1) : rest[x] = labels[x]
  <2>1. 1 \in Nat
    OBVIOUS
  <2>2. QED
    BY <1>3, <1>5, <2>1, DropLen, DropLastType
<1>7. labels' = rest
  BY <1>1, <1>5 DEF OpEnd
<1>8. Stays \/ Leaves
  BY EndSteps DEF Facts
<1>9. CASE n = Len(rest)
  <2>1. frames' = DropLast(frames, 1)
    BY <1>1, <1>5, <1>9 DEF OpEnd, FrameDone, Inner
  <2>2. frames' # frames
    <3>1. Len(frames') = Len(frames) - 1 /\ Len(frames) \in Nat
      BY <1>1, <1>2, <2>1, PoppedType, LenProperties DEF TypedStacks, TypeInv
    <3>2. QED
      BY <3>1
  <2>3. Leaves
    BY <1>8, <2>2 DEF Stays
  <2>4. Depth = 1
    BY <1>1, <1>3, <1>4, <1>6, <1>9
  <2>5. Cur = Body(Inner.func)
    <3>1. pc.ctl # <<>>
      BY <1>1, <1>3, EmptySeq DEF Depth
    <3>2. QED
      BY <1>3, <2>4, <3>1 DEF Well, Cur
  <2>6. pc.h = Ret[Inner.func]
    BY <1>1, <1>3, <2>5 DEF Body
  <2>7. QED
    BY <1>1, <1>3, <1>k, <2>3, <2>6 DEF LeavesFitting
<1>10. CASE n # Len(rest)
  <2>1. pc' = Last(labels).pre /\ frames' = frames
    BY <1>1, <1>5, <1>10 DEF OpEnd, FrameDone, Inner
  <2>2. Stays
    <3>1. Len(DropLast(frames, 1)) = Len(frames) - 1 /\ Len(frames) \in Nat
      BY <1>1, <1>2, PoppedType, LenProperties DEF TypedStacks, TypeInv
    <3>2. QED
      BY <1>8, <2>1, <3>1 DEF Leaves
  <2>3. LabelOf(Last(labels), pc.func, Cur, SubSeq(pc.ctl, 1, Depth - 1))
    BY <1>3, <1>4 DEF Well, Last, Cur
  <2>4. pc'.ctl = SubSeq(pc.ctl, 1, Depth - 1) /\ pc'.h = pc.h
    BY <1>1, <2>1, <2>3 DEF LabelOf
  <2>5. \A x \in 1..(n + (Depth - 1)) : labels'[x] = labels[x]
    <3>1. n + (Depth - 1) = Len(labels) - 1
      BY <1>1, <1>3, <1>4
    <3>2. QED
      BY <1>6, <1>7, <3>1
  <2>6. Fits(Inner, pc', labels')
    BY <1>3, <1>4, <2>4, <2>5, FitsOuter
  <2>7. QED
    BY <1>1, <1>3, <1>k, <2>2, <2>4, <2>6 DEF StaysFitting
<1>11. QED
  BY <1>9, <1>10

LEMMA EndOfFrameFits ==
  ASSUME Facts, EndOfFrame
  PROVE  LeavesFitting
<1>1. Leaves
  BY EndOfFrameSteps DEF Facts
<1>2. running /\ Len(frames) >= 2 /\ pc.at = "exit" /\ values' = values
  BY <1>1 DEF Leaves, EndOfFrame, OpEnd
<1>3. /\ Slack(Len(values), BaseOf(Inner) + pc.h) /\ pc.h \in Nat /\ Inner.func = pc.func
      /\ Ret[Inner.func] \in Nat
  BY <1>2, TopFacts
<1>4. pc.h = Ret[Inner.func]
  BY <1>2, <1>3 DEF Facts, Nested, Outermost, Placed
<1>5. Keeps(values, values', BaseOf(Inner))
  BY <1>2, TopFacts DEF Keeps
<1>6. QED
  BY <1>1, <1>2, <1>3, <1>4, <1>5 DEF LeavesFitting

-----------------------------------------------------------------------------
(* Branches and returns.                                                    *)

(* What a cut to size leaves of a stack, with the results above it.         *)
LEMMA CutLength ==
  ASSUME NEW vals \in Seq(Val), NEW n \in 0..1, n <= Len(vals), NEW size \in Nat,
         NEW ret \in Seq(Val), Len(ret) = n
  PROVE  /\ Len(AtMost(DropLast(vals, n), size) \o ret)
               = (IF Len(vals) - n > size THEN size ELSE Len(vals) - n) + n
         /\ Keeps(vals, AtMost(DropLast(vals, n), size) \o ret,
                  IF Len(vals) - n > size THEN size ELSE Len(vals) - n)
         /\ n = 1 => Last(AtMost(DropLast(vals, n), size) \o ret) = ret[1]
<1> DEFINE rest == DropLast(vals, n)
           cut == IF Len(vals) - n > size THEN size ELSE Len(vals) - n
<1>1. n \in Nat /\ Len(vals) \in Nat
  BY LenProperties
<1>2. rest \in Seq(Val) /\ Len(rest) = Len(vals) - n /\ Keeps(vals, rest, Len(vals) - n)
  BY <1>1, DropLen, DropKeeps
<1>3. /\ AtMost(rest, size) \in Seq(Val)
      /\ Len(AtMost(rest, size)) = IF Len(rest) > size THEN size ELSE Len(rest)
      /\ \A x \in 1..Len(AtMost(rest, size)) : AtMost(rest, size)[x] = rest[x]
  BY <1>2, AtMostType
<1>4. PICK low \in Seq(Val) : low = AtMost(rest, size)
  BY <1>3
<1>5. /\ Len(low \o ret) = Len(low) + n /\ low \o ret \in Seq(Val)
      /\ \A x \in 1..Len(low) : (low \o ret)[x] = low[x]
      /\ \A x \in 1..n : (low \o ret)[Len(low) + x] = ret[x]
  <2>1. /\ Len(low \o ret) = Len(low) + Len(ret) /\ low \o ret \in Seq(Val)
        /\ \A x \in 1..Len(low) : (low \o ret)[x] = low[x]
    BY ConcatProperties
  <2>2. ASSUME NEW x \in 1..n PROVE (low \o ret)[Len(low) + x] = ret[x]
    <3>1. /\ Len(low) + x \in 1..(Len(low) + Len(ret)) /\ ~(Len(low) + x <= Len(low))
          /\ (Len(low) + x) - Len(low) = x
      BY <1>1, LenProperties
    <3>2. QED
      BY <3>1, ConcatProperties
  <2>3. QED
    BY <2>1, <2>2
<1>6. Len(low) = cut /\ cut \in Nat /\ cut <= Len(vals) - n
  BY <1>1, <1>2, <1>3, <1>4
<1>7. \A x \in 1..cut : (low \o ret)[x] = vals[x]
  BY <1>1, <1>2, <1>3, <1>4, <1>5, <1>6 DEF Keeps
<1>8. n = 1 => Last(low \o ret) = ret[1]
  BY <1>5 DEF Last
<1>9. Keeps(vals, low \o ret, cut)
  <2>1. cut <= Len(vals) /\ cut <= Len(low \o ret)
    BY <1>1, <1>5, <1>6
  <2>2. QED
    BY <1>7, <2>1 DEF Keeps
<1>10. QED
  BY <1>4, <1>5, <1>6, <1>8, <1>9

(* The stack when something that starts at size b is left with n results,   *)
(* and the size saved for it.                                               *)
LEMMA CutFits ==
  ASSUME NEW len \in Nat, NEW size \in Nat, NEW n \in Nat, NEW b \in Nat,
         Slack(size, b), IF LeftoverReturn THEN len >= b + n ELSE len - n >= b, n <= len
  PROVE  Slack((IF len - n > size THEN size ELSE len - n) + n, b + n)
BY DEF Slack

LEMMA BreakFits ==
  ASSUME Facts, ~BrOut, running, pc.at # "dummy", Stays,
         NEW k \in Nat, NEW n \in Nat, NEW vals \in Seq(Val), MayBranch(k, n), Break(k, vals),
         n <= Len(values), Len(vals) = Len(values) - n, Keeps(values, vals, Len(vals))
  PROVE  StaysFitting
<1>1. Len(frames) >= 2 /\ TypedStacks
  BY DEF Stays, Facts
<1>2. /\ Inner \in Frame /\ pc \in Position /\ Fits(Inner, pc, labels)
      /\ Well(Inner, pc, labels, Len(labels)) /\ labels \in Seq(Label)
      /\ Slack(Len(values), BaseOf(Inner) + pc.h) /\ BaseOf(Inner) \in Nat
      /\ pc.h \in Nat /\ Len(values) \in Nat /\ pc.h <= MaxHeight
      /\ Inner.labelStackSize \in Nat /\ Len(labels) \in Nat
      /\ pc.ctl \in Seq(Control) /\ MaxHeight \in Nat
  BY <1>1, TopFacts
<1>d. Depth \in Nat
  BY <1>2, LenProperties DEF Depth
<1> DEFINE m == Inner.labelStackSize
           j == Depth - k
           L == labels[Len(labels) - k]
           c == pc.ctl[j]
<1>3. k < Depth /\ pc.h >= Cur.base + Arity(Target(k)) + n /\ L.retType <= Len(vals)
  BY DEF MayBranch, Break, LabelReached
<1>a. Len(labels) = m + Depth
  BY <1>2 DEF Well, Depth
<1>b. j \in 1..Depth /\ j \in Nat /\ j - 1 \in Nat /\ k + 1 \in Nat /\ Depth > 0
  BY <1>d, <1>3
<1>c. Len(labels) - k = m + j
  BY <1>2, <1>3, <1>a, <1>d
<1>e. Len(labels) - (k + 1) = m + (j - 1)
  BY <1>2, <1>3, <1>a, <1>d
<1>4. j \in 1..Len(pc.ctl)
  BY <1>b DEF Depth
<1>5. LabelOf(L, pc.func, c, SubSeq(pc.ctl, 1, j - 1))
  BY <1>2, <1>4, <1>c DEF Well
<1>6. Slack(L.valueStackSize, BaseOf(Inner) + c.base)
  BY <1>2, <1>4, <1>c DEF Fits
<1>7. c \in Control /\ Cur \in Control /\ c.base <= Cur.base /\ c = Target(k)
  BY <1>4, <1>b, InnermostHighest DEF Target
<1>8. c.base \in Nat /\ Cur.base \in Nat /\ Arity(c) \in 0..1 /\ Arity(c) \in Nat
  <2>1. c.base \in Nat /\ Cur.base \in Nat /\ c.res \in 0..1
    BY <1>7 DEF Control
  <2>2. Arity(c) \in 0..1
    BY <2>1 DEF Arity
  <2>3. QED
    BY <2>1, <2>2
<1>9. L \in Label /\ L.valueStackSize \in Nat /\ L.retType = Arity(c)
  <2>1. Len(labels) - k \in 1..Len(labels)
    <3>1. m + j >= 1 /\ m + j \in Nat
      BY <1>2, <1>b, SMTT(30)
    <3>2. \A len, x, y \in Nat : len - x = y /\ y >= 1 => len - x \in 1..len
      OBVIOUS
    <3>3. QED
      BY <1>2, <1>c, <3>1, <3>2
  <2>2. L \in Label
    BY <1>2, <2>1, ElementOfSeq
  <2>3. QED
    BY <1>5, <2>2 DEF Label, LabelOf
<1>10. pc' = L.next /\ labels' = DropLast(labels, k + 1)
  BY DEF Break, Unwind
<1> HIDE DEF L, c
<1>11. pc'.ctl = SubSeq(pc.ctl, 1, j - 1) /\ pc'.h = c.base + Arity(c)
  <2>1. L.pre.ctl = SubSeq(pc.ctl, 1, j - 1) /\ L.pre.h = c.base + c.res /\ L.pre \in Position
    BY <1>5, <1>9 DEF LabelOf, Label
  <2>2. CASE c.loop
    BY <1>5, <1>8, <1>10, <2>1, <2>2 DEF LabelOf, Arity, Position, Place
  <2>3. CASE ~c.loop
    BY <1>5, <1>10, <2>1, <2>3 DEF LabelOf, Arity
  <2>4. QED
    BY <2>2, <2>3
<1>12. pc.h >= c.base + Arity(c) + n
  <2>1. pc.h >= Cur.base + Arity(c) + n
    BY <1>3, <1>7
  <2>2. \A h, a, b, r, x \in Nat : h >= a + r + x /\ b <= a => h >= b + r + x
    OBVIOUS
  <2>3. QED
    BY <1>2, <1>7, <1>8, <2>1, <2>2
<1>13. pc'.h <= MaxHeight
  BY <1>2, <1>8, <1>11, <1>12
<1>14. Fits(Inner, pc', labels')
  <2>1. \A x \in 1..(m + (j - 1)) : labels'[x] = labels[x]
    <3>1. \A x \in 1..(Len(labels) - (k + 1)) : DropLast(labels, k + 1)[x] = labels[x]
      BY <1>2, <1>b, DropLastType
    <3>2. QED
      BY <1>10, <1>e, <3>1
  <2>2. QED
    BY <1>2, <1>4, <1>11, <1>13, <2>1, FitsOuter
<1>15. Arity(c) <= Len(vals) /\ Len(vals) \in Nat
  BY <1>2, <1>3, <1>9
<1>16. LET ret == IF L.retType # 0 THEN <<Last(vals)>> ELSE <<>>
       IN ret \in Seq(Val) /\ Len(ret) = Arity(c)
  <2>1. CASE L.retType # 0
    <3>1. Arity(c) = 1 /\ vals # <<>>
      BY <1>8, <1>9, <1>15, <2>1, EmptySeq
    <3>2. Last(vals) \in Val
      BY <3>1, LastType
    <3>3. QED
      BY <2>1, <3>1, <3>2, SingletonType
  <2>2. CASE L.retType = 0
    BY <1>9, <2>2, EmptySeq
  <2>3. QED
    BY <2>1, <2>2
<1> DEFINE cut == IF Len(vals) - Arity(c) > L.valueStackSize
                  THEN L.valueStackSize ELSE Len(vals) - Arity(c)
<1>17. Len(values') = cut + Arity(c) /\ Keeps(vals, values', cut)
  <2>1. PICK ret \in Seq(Val) :
          ret = (IF L.retType # 0 THEN <<Last(vals)>> ELSE <<>>) /\ Len(ret) = Arity(c)
    BY <1>16
  <2>2. values' = AtMost(DropLast(vals, Len(ret)), L.valueStackSize) \o ret
    BY <2>1 DEF Break, L
  <2>3. values' = AtMost(DropLast(vals, Arity(c)), L.valueStackSize) \o ret
    BY <2>1, <2>2
  <2>4. /\ Arity(c) \in 0..1 /\ Arity(c) <= Len(vals) /\ L.valueStackSize \in Nat
        /\ Len(ret) = Arity(c)
    BY <1>8, <1>9, <1>15, <2>1
  <2>5. /\ Len(AtMost(DropLast(vals, Arity(c)), L.valueStackSize) \o ret) = cut + Arity(c)
        /\ Keeps(vals, AtMost(DropLast(vals, Arity(c)), L.valueStackSize) \o ret, cut)
    BY <2>4, CutLength
  <2>6. QED
    BY <2>3, <2>5
<1>18. Len(vals) >= BaseOf(Inner) + c.base + Arity(c)
  <2>1. Len(values) >= BaseOf(Inner) + pc.h
    BY <1>2, SlackAbove
  <2>2. QED
    BY <1>2, <1>8, <1>12, <2>1, SMTT(30)
<1>19. Slack(Len(values'), (BaseOf(Inner) + c.base) + Arity(c))
  <2>1. /\ Len(vals) \in Nat /\ L.valueStackSize \in Nat /\ Arity(c) \in Nat
        /\ BaseOf(Inner) + c.base \in Nat
    BY <1>2, <1>8, <1>9, <1>15
  <2>2. Len(vals) >= (BaseOf(Inner) + c.base) + Arity(c)
        /\ Len(vals) - Arity(c) >= BaseOf(Inner) + c.base
    BY <1>2, <1>8, <1>15, <1>18
  <2>3. QED
    BY <1>6, <1>15, <1>17, <2>1, <2>2, CutFits
<1>20. Slack(Len(values'), BaseOf(Inner) + pc'.h)
  <2>1. (BaseOf(Inner) + c.base) + Arity(c) = BaseOf(Inner) + (c.base + Arity(c))
    BY <1>2, <1>8
  <2>2. QED
    BY <1>11, <1>19, <2>1
<1>21. Keeps(values, values', BaseOf(Inner))
  <2>1. L.valueStackSize >= BaseOf(Inner) + c.base
    BY <1>2, <1>6, <1>8, <1>9, SlackAbove, SMTT(20)
  <2>2. BaseOf(Inner) <= cut /\ cut <= Len(vals) /\ cut \in Int
    <3>1. \A b, a, x, l, z \in Nat : z >= b + x /\ l >= b + x + a =>
            LET t == IF l - a > z THEN z ELSE l - a IN b <= t /\ t <= l /\ t \in Int
      OBVIOUS
    <3>2. QED
      BY <1>2, <1>8, <1>9, <1>15, <1>18, <2>1, <3>1
  <2>3. Keeps(values, values', cut)
    BY <1>15, <1>17, <2>2, KeepsChain
  <2>4. Len(values') \in Int
    BY <1>8, <1>17, <2>2
  <2>5. QED
    BY <1>2, <2>2, <2>3, <2>4, KeepsLess
<1>22. QED
  BY <1>14, <1>20, <1>21 DEF StaysFitting

LEMMA BranchFits ==
  ASSUME Facts, ~BrOut, NEW k \in Nat,
         Br(k) \/ BrIf(k) \/ \E vec \in Vectors(MaxDepth) : BrTable(vec, k)
  PROVE  StaysFitting
<1>0. 0 \in Nat /\ 1 \in Nat
  OBVIOUS
<1>1. TypedStacks /\ Stays
  BY BranchSteps DEF Facts
<1>2. values \in Seq(Val) /\ Len(values) \in Nat
  BY <1>1, LenProperties DEF TypedStacks, TypeInv
<1>3. CASE Br(k)
  <2>1. /\ running /\ pc.at # "dummy" /\ MayBranch(k, 0) /\ Break(k, values)
        /\ 0 <= Len(values) /\ Len(values) = Len(values) - 0
        /\ Keeps(values, values, Len(values))
    BY <1>2, <1>3 DEF Br, Code, CodeAt, May, running, Keeps
  <2>2. QED
    BY <1>0, <1>1, <1>2, <2>1, BreakFits
<1>4. ASSUME Code(1, 0)
      PROVE  /\ running /\ pc.at # "dummy" /\ 1 <= Len(values)
             /\ DropLast(values, 1) \in Seq(Val) /\ Len(DropLast(values, 1)) = Len(values) - 1
             /\ Keeps(values, DropLast(values, 1), Len(DropLast(values, 1)))
  <2>1. running /\ pc.at # "dummy" /\ 1 <= Len(values)
    BY <1>4 DEF Code, CodeAt, May, running
  <2>2. QED
    BY <1>0, <1>2, <2>1, DropLen, DropKeeps
<1>5. CASE BrIf(k)
  <2>1. Code(1, 0) /\ MayBranch(k, 1)
    BY <1>5 DEF BrIf
  <2>2. CASE Break(k, DropLast(values, 1))
    BY <1>0, <1>1, <1>4, <2>1, <2>2, BreakFits
  <2>3. CASE Replace(1, <<>>)
    <3>1. <<>> \in Seq(Val) /\ Len(<<>>) = 0
      BY EmptySeq
    <3>2. /\ Len(values') = (Len(values) - 1) + 0 /\ pc' = After(1, 0) /\ UNCHANGED labels
          /\ Keeps(values, values', Len(values) - 1)
      BY <1>0, <1>1, <2>1, <2>3, <3>1, ReplaceLength
    <3>3. QED
      BY <1>0, <1>1, <2>1, <3>2, InstructionFits
  <2>4. QED
    BY <1>5, <2>2, <2>3 DEF BrIf
<1>6. ASSUME NEW vec \in Vectors(MaxDepth), BrTable(vec, k) PROVE StaysFitting
  <2> DEFINE t == IF Top(0) < Len(vec) THEN vec[Top(0) + 1] ELSE k
  <2>1. Code(1, 0) /\ Break(t, DropLast(values, 1))
    BY <1>6 DEF BrTable
  <2>2. t \in Nat /\ MayBranch(t, 1)
    BY <1>1, <1>6, BrTableTarget
  <2>3. QED
    BY <1>0, <1>1, <1>4, <2>1, <2>2, BreakFits
<1>7. QED
  BY <1>3, <1>5, <1>6

LEMMA ReturnFits ==
  ASSUME Facts, Return
  PROVE  LeavesFitting /\ (~LeftoverReturn => Len(values') = BaseOf(Inner) + Ret[Inner.func])
<1>1. Leaves /\ running /\ pc.at # "dummy" /\ Len(frames) >= 2 /\ TypedStacks
  BY ReturnSteps DEF Facts, Leaves, Return, MayReturn, May, running
<1>2. /\ Slack(Len(values), BaseOf(Inner) + pc.h) /\ BaseOf(Inner) \in Nat
      /\ pc.h \in Nat /\ Len(values) \in Nat /\ Inner.func \in Funcs /\ Inner.func = pc.func
      /\ Params[Inner.func] \in Nat /\ Ret[Inner.func] \in 0..1 /\ Ret[Inner.func] \in Nat
      /\ Inner.valueStackSize \in Nat /\ Inner \in Frame
  BY <1>1, TopFacts
<1> DEFINE n == Ret[Inner.func]
           size == Inner.valueStackSize
           b == BaseOf(Inner)
<1>3. size = b + Params[Inner.func]
  BY <1>2, BaseType
<1>r. RetType(Inner) = n
  BY <1>2, FuncsAssumption DEF RetType
<1>4. /\ May({"any"}, n, 0) /\ n <= Len(values)
      /\ LeftoverReturn \/ Params[Inner.func] = 0 \/ pc.h = n
  BY <1>2, <1>r DEF Return, MayReturn, Inner
<1>5. \E ret \in Seq(Val) :
         /\ Len(ret) = n /\ values' = AtMost(DropLast(values, n), size) \o ret
         /\ n # 0 => ret[1] = Last(values)
  <2>1. CASE n = 0
    <3>1. values' = AtMost(DropLast(values, n), size) \o <<>>
      BY <1>r, <2>1 DEF Return, Inner
    <3>2. QED
      BY <2>1, <3>1, EmptySeq
  <2>2. CASE n # 0
    <3>1. values' = AtMost(DropLast(values, n), size) \o <<Top(0)>>
      BY <1>r, <2>2 DEF Return, Inner
    <3>2. n = 1 /\ 0 \in Nat /\ 0 < Len(values)
      BY <1>2, <1>4, <2>2
    <3>3. Top(0) \in Val
      BY <1>1, <3>2, TopType
    <3>4. Top(0) = Last(values) /\ <<Top(0)>>[1] = Top(0)
      BY <1>2 DEF Top, Last
    <3>5. QED
      BY <3>1, <3>2, <3>3, <3>4, SingletonType
  <2>3. QED
    BY <2>1, <2>2
<1>6. values \in Seq(Val)
  BY <1>1 DEF TypedStacks, TypeInv
<1> DEFINE cut == IF Len(values) - n > size THEN size ELSE Len(values) - n
<1>7. Len(values') = cut + n /\ Keeps(values, values', cut) /\ (n # 0 => Last(values') = Last(values))
  <2>1. n \in 0..1 /\ size \in Nat /\ n <= Len(values) /\ (n # 0 => n = 1)
    BY <1>2, <1>4
  <2>2. PICK ret \in Seq(Val) :
           /\ Len(ret) = n /\ values' = AtMost(DropLast(values, n), size) \o ret
           /\ n # 0 => ret[1] = Last(values)
    BY <1>5
  <2> HIDE DEF n, size
  <2>3. /\ Len(AtMost(DropLast(values, n), size) \o ret) = cut + n
        /\ Keeps(values, AtMost(DropLast(values, n), size) \o ret, cut)
        /\ n = 1 => Last(AtMost(DropLast(values, n), size) \o ret) = ret[1]
    BY <1>6, <2>1, <2>2, CutLength
  <2>4. QED
    BY <2>1, <2>2, <2>3
<1>8. n <= pc.h
  <2>1. pc.h >= Cur.base + n /\ Cur \in Control /\ 0 \in Nat /\ "dummy" \notin {"any"}
    BY <1>1, <1>2, <1>4, MayFacts
  <2>2. Cur.base \in Nat
    BY <2>1 DEF Control
  <2>3. QED
    BY <1>2, <2>1, <2>2
<1> HIDE DEF n, size, b
<1>9. /\ n \in Nat /\ size \in Nat /\ b \in Nat
  BY <1>2 DEF n, size, b
<1>10. Len(values) >= b + pc.h /\ Len(values) - n >= b
  <2>1. Len(values) >= b + pc.h
    BY <1>2, SlackAbove DEF b
  <2>2. QED
    BY <1>2, <1>8, <1>9, <2>1
<1>11. ASSUME ~LeftoverReturn PROVE Len(values') = b + n
  <2>1. Len(values) = b + pc.h
    BY <1>2, <1>11 DEF Slack, b
  <2>2. CASE Params[Inner.func] = 0
    <3>1. size = b
      BY <1>3, <1>9, <2>2
    <3>2. QED
      BY <1>2, <1>7, <1>9, <1>10, <3>1
  <2>3. CASE pc.h = n
    <3>1. Len(values) - n = b
      BY <1>2, <1>9, <2>1, <2>3
    <3>2. size >= b
      BY <1>2, <1>3, <1>9
    <3>3. QED
      BY <1>7, <1>9, <3>1, <3>2
  <2>4. QED
    BY <1>4, <1>11, <2>2, <2>3
<1>12. ASSUME LeftoverReturn PROVE Len(values') >= b + n
  <2>1. size >= b
    BY <1>2, <1>3, <1>9
  <2>2. QED
    BY <1>2, <1>7, <1>9, <1>10, <2>1
<1>13. Slack(Len(values'), b + n)
  BY <1>11, <1>12 DEF Slack
<1>14. Keeps(values, values', b)
  <2>1. b <= cut /\ cut \in Int
    BY <1>2, <1>3, <1>9, <1>10
  <2>2. Len(values') \in Int
    BY <1>7, <1>9, <2>1
  <2>3. QED
    BY <1>7, <1>9, <2>1, <2>2, KeepsLess
<1>15. QED
  BY <1>1, <1>7, <1>8, <1>11, <1>13, <1>14 DEF LeavesFitting, n, b

LEMMA StructuredOperands ==
  ASSUME Facts, TypedStacks', ~BrOut, Structured
  PROVE  Operands'
<1>1. ASSUME NEW r \in 0..1, Block(r) \/ Loop(r) \/ \E hasElse \in BOOLEAN : If(r, hasElse)
      PROVE  Operands'
  BY <1>1, BlocksFit, OperandsStay, OperandsIdle
<1>2. CASE End
  BY <1>2, EndFits, OperandsStay, OperandsLeave
<1>3. CASE EndOfFrame
  BY <1>3, EndOfFrameFits, OperandsLeave
<1>4. CASE EnterBody
  BY <1>4, EnterBodyFits, OperandsStay, OperandsIdle
<1>5. CASE EndOfPc
  BY <1>5, OperandsIdle DEF EndOfPc, Fail
<1>6. CASE Return
  BY <1>6, ReturnFits, OperandsLeave
<1>7. ASSUME NEW k \in 0..(MaxDepth - 1),
             Br(k) \/ BrIf(k) \/ \E vec \in Vectors(MaxDepth) : BrTable(vec, k)
      PROVE  Operands'
  <2>1. k \in Nat
    BY BoundsAssumption
  <2>2. QED
    BY <1>7, <2>1, BranchFits, OperandsStay
<1>8. QED
  BY <1>1, <1>2, <1>3, <1>4, <1>5, <1>6, <1>7 DEF Structured

-----------------------------------------------------------------------------
(* Calls.                                                                   *)

LEMMA InvokeLength ==
  ASSUME NEW f \in Funcs, NEW vals \in Seq(Val), NEW return, InvokeFunc(f, vals, return),
         phase' # "idle"
  PROVE  /\ Params[f] \in Nat /\ Ret[f] \in Nat /\ Len(vals) \in Nat /\ Params[f] <= Len(vals)
         /\ Len(values') = (Len(vals) - Params[f]) + (IF f \in Natives THEN Ret[f] ELSE 0)
         /\ Keeps(vals, values', Len(vals) - Params[f])
<1>1. /\ Params[f] \in Nat /\ Ret[f] \in 0..1 /\ Len(vals) \in Nat /\ Params[f] <= Len(vals)
  <2>1. CASE f \notin Natives /\ LocalsFull(f)
    BY <2>1 DEF InvokeFunc, InvokeWasm, Fail
  <2>2. QED
    BY <2>1, FuncsAssumption, LenProperties DEF InvokeFunc, Invokable
<1>2. Ret[f] \in Nat
  BY <1>1
<1>3. /\ Len(DropLast(vals, Params[f])) = Len(vals) - Params[f]
      /\ Keeps(vals, DropLast(vals, Params[f]), Len(vals) - Params[f])
  BY <1>1, DropLen, DropKeeps
<1>4. CASE f \in Natives
  <2>1. PICK v \in Val : InvokeNative(f, vals, return, v)
    BY <1>4 DEF InvokeFunc
  <2>2. PICK pushed \in Seq(Val) :
          Len(pushed) = Ret[f] /\ values' = DropLast(vals, Params[f]) \o pushed
    <3>1. [i \in 1..Ret[f] |-> v] \in Seq(Val) /\ Len([i \in 1..Ret[f] |-> v]) = Ret[f]
      BY <1>2
    <3>2. QED
      BY <2>1, <3>1 DEF InvokeNative
  <2>3. /\ Len(DropLast(vals, Params[f]) \o pushed) = (Len(vals) - Params[f]) + Len(pushed)
        /\ Keeps(vals, DropLast(vals, Params[f]) \o pushed, Len(vals) - Params[f])
    BY <1>1, DropExtended
  <2>4. QED
    BY <1>1, <1>2, <1>4, <2>2, <2>3
<1>5. CASE f \notin Natives
  <2>1. InvokeWasm(f, vals, return)
    BY <1>5 DEF InvokeFunc
  <2>2. values' = DropLast(vals, Params[f])
    BY <2>1 DEF InvokeWasm, WithoutArguments, Fail
  <2>3. (Len(vals) - Params[f]) + 0 = Len(vals) - Params[f]
    BY <1>1
  <2>4. QED
    BY <1>1, <1>2, <1>3, <1>5, <2>2, <2>3
<1>6. QED
  BY <1>4, <1>5

(* A native called by the host.                                             *)
Direct(f, vals) ==
  /\ f \in Natives /\ phase = "called" /\ phase' = "running"
  /\ frames' = <<DummyFrame>> /\ Len(values') = 0 /\ Type(callee').ret = 0

LEMMA InvokeFits ==
  ASSUME Facts, NEW f \in Funcs, NEW vals \in Seq(Val), NEW return \in Position,
         CallsFor(f, return), InvokeFunc(f, vals, return), CountsOn(f, return, Len(vals)),
         Keeps(values, vals, Len(vals))
  PROVE  \/ phase' = "idle"
         \/ f \notin Natives /\ EntersFitting(f, return, vals)
         \/ running /\ StaysFitting
         \/ Direct(f, vals)
<1> SUFFICES ASSUME phase' # "idle"
             PROVE  \/ f \notin Natives /\ EntersFitting(f, return, vals)
                    \/ running /\ StaysFitting
                    \/ Direct(f, vals)
  OBVIOUS
<1>1. /\ Params[f] \in Nat /\ Ret[f] \in Nat /\ Len(vals) \in Nat /\ Params[f] <= Len(vals)
      /\ Len(values') = (Len(vals) - Params[f]) + (IF f \in Natives THEN Ret[f] ELSE 0)
      /\ Keeps(vals, values', Len(vals) - Params[f]) /\ return.h \in Nat
  BY InvokeLength DEF Position, Place
<1>2. CASE f \notin Natives /\ EntersFor(f, return, Len(vals))
  <2>1. InvokeWasm(f, vals, return)
    BY <1>2 DEF InvokeFunc
  <2>2. /\ values' = WithoutArguments(f, vals)
        /\ locals' = locals \o Arguments(f, vals) \o Zeros(Locals[f])
    BY <2>1 DEF InvokeWasm, Fail
  <2>3. QED
    BY <1>1, <1>2, <2>2 DEF EntersFitting
<1>3. CASE f \in Natives /\ running /\ Stays
  <2>1. /\ pc.ctl = return.ctl /\ pc' = return /\ UNCHANGED labels
    BY <1>3 DEF CallsFor, running, InvokeFunc, InvokeNative
  <2>2. Fits(Inner, pc, labels) /\ BaseOf(Inner) \in Nat
    BY <1>3, TopFacts DEF Stays
  <2>3. Fits(Inner, pc', labels')
    BY <1>3, <2>1, <2>2, FitsAround DEF CountsOn
  <2>4. /\ Len(vals) - Params[f] \in Nat
        /\ Slack(Len(vals) - Params[f], BaseOf(Inner) + (return.h - Ret[f]))
        /\ Ret[f] <= return.h
    BY <1>1, <1>3 DEF CountsOn
  <2>5. Slack((Len(vals) - Params[f]) + Ret[f], BaseOf(Inner) + return.h)
    BY <1>1, <2>2, <2>4, SlackOver
  <2>6. Keeps(values, values', BaseOf(Inner))
    <3>1. Len(vals) - Params[f] >= BaseOf(Inner) + (return.h - Ret[f])
      BY <1>1, <2>2, <2>4, SlackAbove
    <3>2. /\ BaseOf(Inner) <= Len(vals) - Params[f] /\ Len(vals) - Params[f] <= Len(vals)
          /\ Len(values') \in Int
      BY <1>1, <1>3, <2>2, <2>4, <3>1, SMTT(30)
    <3>3. Keeps(values, values', Len(vals) - Params[f])
      BY <1>1, <2>4, <3>2, KeepsChain
    <3>4. QED
      BY <2>2, <2>4, <3>2, <3>3, KeepsLess
  <2>7. QED
    BY <1>1, <1>3, <2>1, <2>3, <2>5, <2>6 DEF StaysFitting
<1>4. CASE /\ f \in Natives /\ phase = "called" /\ phase' = "running"
           /\ frames' = <<DummyFrame>>
  <2>1. Len(vals) = Params[f] /\ Ret[f] = 0 /\ f = callee /\ callee' = callee
    BY <1>4 DEF CountsOn, CallsFor, running, InvokeFunc, InvokeNative
  <2>2. Len(values') = 0 /\ Type(callee').ret = 0
    BY <1>1, <1>4, <2>1 DEF Type
  <2>3. QED
    BY <1>4, <2>2 DEF Direct
<1>5. QED
  BY <1>2, <1>3, <1>4, InvokeSteps DEF Facts

LEMMA InvokeOperands ==
  ASSUME Facts, NEW f \in Funcs, NEW vals \in Seq(Val), NEW return \in Position,
         CallsFor(f, return), InvokeFunc(f, vals, return), CountsOn(f, return, Len(vals)),
         Keeps(values, vals, Len(vals))
  PROVE  Operands'
<1>1. CASE Direct(f, vals)
  <2>1. Delivered' /\ Len(frames') = 1
    BY <1>1, BoundsAssumption DEF Direct, Delivered, Slack, Type
  <2>2. Acts' = {}
    BY <2>1 DEF Acts
  <2>3. QED
    BY <1>1, <2>1, <2>2 DEF Direct, Operands, Rising
<1>2. QED
  BY <1>1, InvokeFits, OperandsIdle, OperandsEnter, OperandsStay

(* A call that pops the operands taken, the function's and perhaps others.  *)
LEMMA CallCounts ==
  ASSUME Facts, NEW f \in Funcs, NEW x \in Nat,
         May({"any"}, Params[f] + x, Ret[f]), NEW vals, Len(vals) = Len(values) - x
  PROVE  CountsOn(f, After(Params[f] + x, Ret[f]), Len(vals))
<1>1. /\ Params[f] \in Nat /\ Ret[f] \in 0..1 /\ Params[f] + x \in Nat /\ TypedStacks
      /\ running
  BY FuncsAssumption DEF Facts, May, running
<1>2. Ret[f] \in Nat
  BY <1>1
<1>3. Params[f] + x <= pc.h /\ Len(frames) >= 2
  BY <1>1, <1>2, TakesOwn
<1>4. /\ Slack(Len(values), BaseOf(Inner) + pc.h) /\ BaseOf(Inner) \in Nat
      /\ pc.h \in Nat /\ Len(values) \in Nat /\ MaxHeight \in Nat
  BY <1>1, <1>3, TopFacts
<1>5. pc.h + Ret[f] <= MaxHeight + (Params[f] + x)
  BY <1>1, <1>2, CodeHeight
<1> DEFINE h == (pc.h - (Params[f] + x)) + Ret[f]
<1>6. After(Params[f] + x, Ret[f]).h = h
  BY <1>1, AfterFacts
<1>7. h <= MaxHeight /\ Ret[f] <= h
  BY <1>1, <1>2, <1>3, <1>4, <1>5, SMTT(30)
<1>8. Slack((Len(values) - x) - Params[f], BaseOf(Inner) + (h - Ret[f]))
  BY <1>1, <1>2, <1>4, SlackCall
<1>9. QED
  BY <1>1, <1>6, <1>7, <1>8 DEF CountsOn

(* An instruction that calls f, with n operands of its own to pop first.    *)
CallsOver(f, n) ==
  \E vals \in Seq(Val), return \in Position :
    /\ Len(vals) = Len(values) - n /\ Keeps(values, vals, Len(vals))
    /\ Params[f] + n <= Len(values) - BaseOf(Inner)
    /\ CallsFor(f, return) /\ InvokeFunc(f, vals, return) /\ CountsOn(f, return, Len(vals))

(* The function a table gives is counted on with its own type.              *)
LEMMA CalledType ==
  ASSUME TypedStacks, NativesAsTyped, NEW t \in Types, Called(t), Top(0) \in Nat
  PROVE  Callee \in Funcs /\ t.params = Params[Callee] /\ t.ret = Ret[Callee]
<1>1. Table \in Seq(Funcs) /\ Len(Table) \in Nat
  BY FuncsAssumption, LenProperties
<1>2. Top(0) + 1 \in 1..Len(Table) /\ Type(Callee) = t
  BY <1>1 DEF Called
<1>3. Callee \in Funcs
  BY <1>1, <1>2, ElementOfSeq DEF Callee
<1>4. CASE Callee \in Natives
  <2>1. Params[Callee] = 0 /\ Ret[Callee] = 0
    BY <1>2, <1>4 DEF NativesAsTyped, Callee
  <2>2. QED
    BY <1>2, <1>3, <1>4, <2>1 DEF Type
<1>5. CASE Callee \notin Natives
  BY <1>2, <1>3, <1>5 DEF Type
<1>6. QED
  BY <1>4, <1>5

LEMMA CallingInvokes ==
  ASSUME Facts, NativesAsTyped, Calling, phase' # "idle"
  PROVE  running /\ \E f \in Funcs, n \in 0..1 : CallsOver(f, n)
<1>0. 0 \in Nat /\ 1 \in Nat /\ TypedStacks
  BY DEF Facts
<1>v. values \in Seq(Val) /\ Len(values) \in Nat
  BY <1>0, LenProperties DEF TypedStacks, TypeInv
<1>o. ASSUME NEW f \in Funcs, NEW n \in Nat, May({"any"}, Params[f] + n, Ret[f])
      PROVE  Params[f] + n <= Len(values) - BaseOf(Inner)
  <2>1. Params[f] + n \in Nat /\ Ret[f] \in Nat
    <3>1. Params[f] \in Nat /\ Ret[f] \in 0..1
      BY FuncsAssumption
    <3>2. QED
      BY <3>1
  <2>2. BaseOf(Inner) <= Len(values) - (Params[f] + n) /\ BaseOf(Inner) \in Nat
    BY <1>o, <2>1, TakesOwn
  <2>3. QED
    BY <1>v, <2>1, <2>2
<1>1. ASSUME NEW f \in Funcs, Call(f) PROVE running /\ CallsOver(f, 0)
  <2>1. /\ running /\ After(Params[f], Ret[f]) \in Position
        /\ CallsFor(f, After(Params[f], Ret[f]))
        /\ InvokeFunc(f, values, After(Params[f], Ret[f])) /\ May({"any"}, Params[f], Ret[f])
    BY <1>0, <1>1, CallingCalls DEF Call
  <2>2. Params[f] + 0 = Params[f] /\ Len(values) = Len(values) - 0
    BY <1>v, FuncsAssumption
  <2>3. May({"any"}, Params[f] + 0, Ret[f])
    BY <2>1, <2>2
  <2>4. CountsOn(f, After(Params[f] + 0, Ret[f]), Len(values))
    BY <1>0, <2>2, <2>3, CallCounts
  <2>5. CountsOn(f, After(Params[f], Ret[f]), Len(values))
    BY <2>2, <2>4
  <2>6. Keeps(values, values, Len(values)) /\ Params[f] + 0 <= Len(values) - BaseOf(Inner)
    BY <1>0, <1>o, <1>v, <2>3 DEF Keeps
  <2>7. QED
    BY <1>v, <2>1, <2>2, <2>5, <2>6 DEF CallsOver
<1>2. ASSUME NEW t \in Types, CallIndirect(t)
      PROVE  running /\ \E f \in Funcs : CallsOver(f, 1)
  <2> DEFINE vals == DropLast(values, 1)
             f == Callee
             return == After(t.params + 1, t.ret)
  <2>1. /\ running /\ vals \in Seq(Val)
        /\ f \in Funcs /\ return \in Position /\ Type(f) = t
        /\ CallsFor(f, return) /\ InvokeFunc(f, vals, return)
    BY <1>0, <1>2, IndirectCalls
  <2>2. Called(t)
    BY <1>2 DEF CallIndirect, Fail
  <2>3. t.params = Params[f] /\ t.ret = Ret[f]
    BY <1>0, <1>2, <2>2, IndirectFacts, CalledType
  <2>4. May({"any"}, Params[f] + 1, Ret[f]) /\ return = After(Params[f] + 1, Ret[f])
    BY <1>2, <2>3 DEF CallIndirect
  <2>5. Len(vals) = Len(values) - 1 /\ Keeps(values, vals, Len(vals))
    <3>1. 1 <= Len(values)
      BY <1>2 DEF CallIndirect
    <3>2. QED
      BY <1>0, <1>v, <3>1, DropLen, DropKeeps
  <2>6. CountsOn(f, return, Len(vals))
    BY <1>0, <2>1, <2>4, <2>5, CallCounts
  <2>7. Params[f] + 1 <= Len(values) - BaseOf(Inner)
    BY <1>0, <1>o, <2>1, <2>4
  <2> HIDE DEF vals, f, return
  <2>8. QED
    BY <2>1, <2>5, <2>6, <2>7 DEF CallsOver
<1>3. QED
  BY <1>1, <1>2 DEF Calling

LEMMA CallingOperands ==
  ASSUME Facts, NativesAsTyped, Calling
  PROVE  Operands'
<1>1. CASE phase' = "idle"
  BY <1>1, OperandsIdle
<1>2. CASE phase' # "idle"
  <2>1. PICK f \in Funcs, n \in 0..1 : CallsOver(f, n)
    BY <1>2, CallingInvokes
  <2>2. QED
    BY <2>1, InvokeOperands DEF CallsOver
<1>3. QED
  BY <1>1, <1>2

(* The entry of the function the host named, with the parameters it gave.   *)
LEMMA EntryInvokes ==
  ASSUME Facts, NativesAsTyped, InvokeEntry
  PROVE  /\ callee \in Funcs /\ values \in Seq(Val) /\ pc \in Position
         /\ phase = "called" /\ CallsFor(callee, pc) /\ InvokeFunc(callee, values, pc)
         /\ CountsOn(callee, pc, Len(values)) /\ Keeps(values, values, Len(values))
<1>1. callee \in Funcs /\ callee \in Entries /\ values \in Seq(Val) /\ pc \in Position
  BY FuncsAssumption DEF Facts, TypedStacks, TypeInv
<1>2. phase = "called" /\ InvokeFunc(callee, values, pc) /\ pc = NoPos
  BY DEF InvokeEntry, Facts, TypedStacks, DummyBelow
<1>3. CallsFor(callee, pc)
  BY <1>2 DEF CallsFor
<1>4. Len(values) = Type(callee).params /\ ~running
  BY <1>2 DEF Facts, Operands, running
<1>5. CountsOn(callee, pc, Len(values))
  <2>1. CASE callee \in Natives
    <3>1. Params[callee] = 0 /\ Ret[callee] = 0
      BY <1>1, <2>1 DEF NativesAsTyped
    <3>2. QED
      BY <1>4, <2>1, <3>1 DEF CountsOn, Type
  <2>2. CASE callee \notin Natives
    BY <1>4, <2>2 DEF CountsOn, Type
  <2>3. QED
    BY <2>1, <2>2
<1>6. Keeps(values, values, Len(values))
  BY <1>1, LenProperties DEF Keeps
<1>7. QED
  BY <1>1, <1>2, <1>3, <1>5, <1>6

LEMMA HostOperands ==
  ASSUME Facts, NativesAsTyped, Host
  PROVE  Operands'
<1>1. ASSUME NEW f \in Entries, NEW args \in [1..Type(f).params -> Val], Invoke(f, args)
      PROVE  Operands'
  <2>1. Len(args) = Type(f).params /\ values' = args /\ phase' = "called" /\ callee' = f
    BY <1>1 DEF Invoke
  <2>2. Type(callee)' = Type(f)
    BY <2>1 DEF Type
  <2>3. QED
    BY <2>1, <2>2 DEF Operands, running
<1>2. CASE InvokeEntry
  BY <1>2, EntryInvokes, InvokeOperands
<1>3. CASE Finish
  BY <1>3, OperandsIdle DEF Finish
<1>4. QED
  BY <1>1, <1>2, <1>3 DEF Host

-----------------------------------------------------------------------------
LEMMA InitOperands == Init => Operands
BY DEF Init, Operands, running

LEMMA NextOperands ==
  ASSUME ~BrOut, NativesAsTyped
  PROVE  Facts /\ TypedStacks' /\ [Next]_vars => Operands'
<1> SUFFICES ASSUME Facts, TypedStacks', [Next]_vars PROVE Operands'
  OBVIOUS
<1>1. CASE Plain
  BY <1>1, PlainFits, OperandsStay, OperandsIdle
<1>2. CASE Structured
  BY <1>2, StructuredOperands
<1>3. CASE Calling
  BY <1>3, CallingOperands
<1>4. CASE Host
  BY <1>4, HostOperands
<1>5. CASE UNCHANGED vars
  BY <1>5 DEF vars, Facts, Operands, running, Delivered, Type, Acts, Operated, Fits, BaseOf, Rising,
              Suspended, PosOf, ValueEnd, Held, Base
<1>6. CASE Astray
  BY <1>6 DEF Astray, Operands, running
<1>7. QED
  BY <1>1, <1>2, <1>3, <1>4, <1>5, <1>6 DEF Next, Gone

LEMMA FactsNext ==
  ASSUME ~BrOut, NativesAsTyped
  PROVE  Facts /\ [Next]_vars => Facts'
BY NextType, NextNested, NextOperands DEF Facts

LEMMA FactsAlways ==
  ASSUME ~BrOut, NativesAsTyped
  PROVE  Spec => []Facts
<1>1. Init => Facts
  BY InitType, InitNested, InitOperands DEF Facts
<1>2. QED
  BY <1>1, FactsNext, PTL DEF Spec

(* Every activation finds the operands its code counts on, even when        *)
(* callees leave operands of their own behind: no handler, none of which    *)
(* tests it, pops a caller's operand or reads below the stack.              *)
THEOREM OperandsFound ==
  ASSUME ~BrOut, NativesAsTyped
  PROVE  Spec => []OperandsAvailable
<1>1. ASSUME Facts, running, NEW i \in Acts PROVE ValueEnd(i) >= Base(i) + Held(i)
  <2>1. Slack(ValueEnd(i), Base(i) + Held(i)) /\ ValueEnd(i) \in Int /\ Held(i) \in Int
        /\ Base(i) \in Nat
    <3>1. /\ Operated(i) /\ Base(i) \in Nat /\ PosOf(i).h \in Nat /\ Len(values) \in Nat
      BY <1>1, OperatedFacts
    <3>2. CASE Suspended(i)
      <4>1. i + 1 \in Acts
        BY <1>1, <3>2, ActFacts DEF Facts, Suspended
      <4>2. Base(i + 1) \in Nat /\ Ret[frames[i + 1].func] \in Nat
        BY <1>1, <4>1, OperatedFacts
      <4>3. QED
        BY <3>1, <3>2, <4>2 DEF Operated, ValueEnd, Held
    <3>3. CASE ~Suspended(i)
      BY <3>1, <3>3 DEF Operated, ValueEnd, Held, PosOf
    <3>4. QED
      BY <3>2, <3>3
  <2>2. Base(i) + Held(i) \in Int
    BY <2>1
  <2>3. QED
    BY <2>1, <2>2, SlackAbove
<1>2. Facts => OperandsAvailable
  BY <1>1 DEF OperandsAvailable
<1>3. QED
  BY <1>2, FactsAlways, PTL

(* Where no function with parameters returns over unused operands, the      *)
(* operands are exactly those, and every label has saved the height its     *)
(* block was entered at.                                                    *)
THEOREM OperandsCounted ==
  ASSUME ~BrOut, NativesAsTyped, ~LeftoverReturn
  PROVE  Spec => []OperandsExact
<1>1. ASSUME Facts, running, NEW i \in Acts
      PROVE  /\ i = 2 => Base(i) = 0
             /\ ValueEnd(i) = Base(i) + Held(i)
             /\ \A j \in 1..Len(PosOf(i).ctl) :
                  labels[frames[i].labelStackSize + j].valueStackSize
                    = Base(i) + PosOf(i).ctl[j].base
  <2>1. Operated(i) /\ BaseOf(frames[i]) = Base(i) /\ Len(frames) >= 2
    BY <1>1, OperatedFacts, ActFacts DEF Facts
  <2>2. BaseOf(frames[2]) = 0
    BY <1>1, <2>1 DEF Facts, Operands
  <2>3. QED
    BY <2>1, <2>2 DEF Operated, Fits, Slack
<1>2. Facts => OperandsExact
  BY <1>1 DEF OperandsExact, Facts, Operands, Delivered, Slack
<1>3. QED
  BY <1>2, FactsAlways, PTL

(* A return leaves its caller with its own operands and the result.         *)
THEOREM ReturnsClear ==
  ASSUME ~BrOut, NativesAsTyped, ~LeftoverReturn
  PROVE  Spec => ReturnClears
<1>1. ASSUME Facts, Return, Len(frames) > 2
      PROVE  Len(values') = Base(Len(frames)) + Ret[Last(frames).func]
  <2>1. running /\ Len(frames) >= 2
    BY <1>1, ReturnSteps DEF Facts, Leaves
  <2>2. BaseOf(Inner) = Base(Len(frames))
    BY <2>1, <1>1, TopFacts
  <2>3. QED
    BY <1>1, <2>2, ReturnFits DEF Inner
<1>2. Facts =>
        (Return /\ Len(frames) > 2 =>
           Len(values') = Base(Len(frames)) + Ret[Last(frames).func])
  BY <1>1
<1>3. QED
  BY <1>2, FactsAlways, PTL DEF ReturnClears

-----------------------------------------------------------------------------
(* No step goes astray.                                                     *)

(* The array of the values has room for what the activations that the       *)
(* frames stack admits can hold: it is full before a last one starts.       *)
EnoughValues == (FrameCap - 2) * MaxHeight <= ValueCap

Ready == Facts /\ StacksInBounds

LEMMA Product ==
  ASSUME NEW n \in Nat, NEW c \in Nat, NEW m \in Nat, NEW a \in Int, NEW v \in Int,
         n < c, a <= (n - 2) * m, (c - 2) * m <= v
  PROVE  a + m <= v
<1>1. PICK d \in Nat : c = n + 1 + d
  <2>1. c - (n + 1) \in Nat /\ c = n + 1 + (c - (n + 1))
    OBVIOUS
  <2>2. QED
    BY <2>1
<1>2. (c - 2) * m = ((n - 2) * m + m) + d * m
  BY <1>1
<1>3. d * m \in Nat /\ (n - 2) * m \in Int
  OBVIOUS
<1>4. QED
  BY <1>2, <1>3

(* What an instruction leaves has room.                                     *)
LEMMA RoomForAll ==
  ASSUME Ready, ~LeftoverReturn, EnoughValues, running, Len(frames) >= 2,
         NEW n \in Nat, NEW m \in Nat, pc.h + m <= MaxHeight + n
  PROVE  Room(n, m)
<1>1. /\ Len(frames) \in Acts /\ Len(frames) \in Nat /\ pc.h \in Nat /\ MaxHeight \in Nat
      /\ BaseOf(Inner) \in Nat /\ BaseOf(Inner) = Base(Len(frames))
      /\ Slack(Len(values), BaseOf(Inner) + pc.h)
  BY TopFacts DEF Ready
<1>2. BaseOf(Inner) <= (Len(frames) - 2) * MaxHeight
  BY <1>1, OperatedFacts DEF Ready, Operated
<1>3. Len(frames) < FrameCap /\ FrameCap \in Nat /\ ValueCap \in Nat
  BY BoundsAssumption DEF Ready, StacksInBounds
<1>4. BaseOf(Inner) + MaxHeight <= ValueCap
  <2>1. (FrameCap - 2) * MaxHeight <= ValueCap
    BY DEF EnoughValues
  <2>2. PICK a \in Int : a = BaseOf(Inner)
    BY <1>1
  <2>3. PICK k \in Nat : k = Len(frames)
    BY <1>1
  <2>4. PICK v \in Int : v = ValueCap
    BY <1>3
  <2>5. k < FrameCap /\ a <= (k - 2) * MaxHeight /\ (FrameCap - 2) * MaxHeight <= v
    BY <1>2, <1>3, <2>1, <2>2, <2>3, <2>4
  <2>6. a + MaxHeight <= v
    BY <1>1, <1>3, <2>5, Product
  <2>7. QED
    BY <2>2, <2>4, <2>6
<1>5. Len(values) = BaseOf(Inner) + pc.h
  BY <1>1 DEF Slack
<1>6. QED
  BY <1>1, <1>3, <1>4, <1>5 DEF Room

LEMMA PlainReady ==
  ASSUME Ready, ~LeftoverReturn, EnoughValues
  PROVE  ~AstrayPlain
<1>1. ASSUME NEW n \in Nat, NEW m \in Nat, May({"any"}, n, m)
      PROVE  /\ n <= Len(values) /\ Room(n, m) /\ running /\ Len(frames) >= 2
             /\ pc.at # "dummy"
  <2>1. "dummy" \notin {"any"}
    OBVIOUS
  <2>2. /\ running /\ pc.at # "dummy" /\ Len(frames) >= 2 /\ BaseOf(Inner) \in Nat
        /\ BaseOf(Inner) <= Len(values) - n /\ Len(values) \in Nat
    BY <1>1, <2>1, MayFacts, TakesOwn DEF Ready, Facts
  <2>3. n <= Len(values)
    BY <2>2
  <2>4. Room(n, m)
    BY <1>1, <2>2, CodeHeight, RoomForAll
  <2>5. QED
    BY <2>2, <2>3, <2>4
<1>2. ASSUME NEW s \in Shapes, May({"any"}, s[1], s[2])
      PROVE  s[1] <= Len(values) /\ Room(s[1], s[2])
  <2>1. s[1] \in Nat /\ s[2] \in Nat
    BY DEF Shapes
  <2>2. QED
    BY <1>1, <1>2, <2>1
<1>3. ASSUME NEW i \in 0..(LocalCap - 1), May({"any"}, 0, 1) \/ May({"any"}, 1, 0), LocalIdx(i)
      PROVE  LocalReached(i)
  <2>0. i \in Nat /\ 0 \in Nat /\ 1 \in Nat
    OBVIOUS
  <2>1. running /\ Len(frames) >= 2
    BY <1>1, <1>3, <2>0
  <2>2. /\ Len(locals) = Inner.locals + Inner.localSize /\ Inner.locals \in Nat
        /\ Inner.localSize \in Nat /\ Well(Inner, pc, labels, Len(labels))
    BY <2>1, InnerFacts DEF Ready, Facts
  <2>3. Inner.localSize = Params[pc.func] + Locals[pc.func]
    BY <2>2 DEF Well
  <2>4. i < Inner.localSize
    BY <1>3, <2>3 DEF LocalIdx
  <2>5. Len(locals) < LocalCap /\ LocalCap \in Nat
    BY CapsType DEF Ready, StacksInBounds
  <2>6. Inner.localSize > 0 /\ Inner.locals + i + 1 <= LocalCap
    BY <2>0, <2>2, <2>4, <2>5
  <2>7. QED
    BY <2>6 DEF LocalReached, LocalAt, Inner
<1>4. QED
  BY <1>2, <1>3 DEF AstrayPlain

LEMMA BranchReady ==
  ASSUME Ready, ~BrOut, NEW k \in Nat, NEW n \in Nat,
         CodeAt({"any"}, n, 0), MayBranch(k, n)
  PROVE  LabelReached(k, DropLast(values, n))
<1>0. "dummy" \notin {"any"} /\ 0 \in Nat
  OBVIOUS
<1>1. /\ running /\ pc.at # "dummy" /\ Cur \in Control /\ n <= Len(values)
      /\ Depth \in Nat /\ Depth > 0
  BY <1>0, CodeFacts DEF Ready, Facts
<1>2. Len(frames) >= 2
  BY <1>1, RunningFacts DEF Ready, Facts
<1>3. /\ Well(Inner, pc, labels, Len(labels)) /\ Inner.labelStackSize \in Nat
      /\ Len(labels) \in Nat /\ pc.h \in Nat /\ Len(values) \in Nat
      /\ BaseOf(Inner) + pc.h <= Len(values) /\ BaseOf(Inner) \in Nat /\ pc.ctl \in Seq(Control)
  BY <1>1, <1>2, TopFacts DEF Ready
<1>4. k < Depth /\ pc.h >= Cur.base + Arity(Target(k)) + n
  BY DEF MayBranch
<1> DEFINE m == Inner.labelStackSize
           j == Depth - k
<1>5. Len(labels) = m + Depth
  BY <1>3 DEF Well, Depth
<1>6. j \in 1..Len(pc.ctl) /\ Len(labels) - k = m + j /\ k < Len(labels)
  <2>1. j \in 1..Depth
    BY <1>1, <1>4
  <2>2. Len(labels) - k = m + j /\ k < Len(labels)
    BY <1>1, <1>3, <1>4, <1>5
  <2>3. QED
    BY <2>1, <2>2 DEF Depth
<1>7. labels[Len(labels) - k].retType = Arity(Target(k))
  <2>1. LabelOf(labels[m + j], pc.func, pc.ctl[j], SubSeq(pc.ctl, 1, j - 1))
    BY <1>3, <1>6 DEF Well
  <2>2. QED
    BY <1>6, <2>1 DEF LabelOf, Target
<1>8. Arity(Target(k)) \in Nat /\ Cur.base \in Nat
  <2>1. Target(k) \in Control
    BY <1>3, <1>6, ElementOfSeq DEF Target
  <2>2. Target(k).res \in Nat /\ Cur.base \in Nat
    BY <1>1, <2>1 DEF Control
  <2>3. QED
    BY <2>2 DEF Arity
<1>9. Len(DropLast(values, n)) = Len(values) - n
  BY <1>1, DropLen DEF Ready, Facts, TypedStacks, TypeInv
<1> HIDE DEF m, j
<1>10. Arity(Target(k)) <= Len(values) - n
  BY <1>3, <1>4, <1>8
<1>11. QED
  BY <1>6, <1>7, <1>9, <1>10 DEF LabelReached

LEMMA ReturnReady ==
  ASSUME Ready, MayReturn
  PROVE  ~(RetType(Last(frames)) > Len(values))
<1>1. running /\ pc.at # "dummy" /\ May({"any"}, Ret[pc.func], 0)
  BY DEF MayReturn, May, running
<1>2. Len(frames) >= 2
  BY <1>1, RunningFacts DEF Ready, Facts
<1>3. /\ Inner.func \in Funcs /\ Inner.func = pc.func /\ Ret[Inner.func] \in Nat
      /\ BaseOf(Inner) \in Nat /\ Len(values) \in Nat
  BY <1>1, <1>2, TopFacts DEF Ready
<1>4. RetType(Inner) = Ret[pc.func]
  BY <1>3, FuncsAssumption DEF RetType
<1>5. "dummy" \notin {"any"} /\ 0 \in Nat
  OBVIOUS
<1>6. BaseOf(Inner) <= Len(values) - Ret[pc.func]
  BY <1>1, <1>3, <1>5, TakesOwn DEF Ready
<1>7. QED
  BY <1>3, <1>4, <1>6 DEF Inner

(* A call that pops x operands before those of the function.                *)
LEMMA CallReady ==
  ASSUME Ready, ~LeftoverReturn, EnoughValues, NEW f \in Funcs, NEW x \in Nat,
         May({"any"}, Params[f] + x, Ret[f]), NEW vals, Len(vals) = Len(values) - x
  PROVE  Invokable(f, vals)
<1>1. Params[f] \in Nat /\ Ret[f] \in 0..1 /\ Params[f] + x \in Nat /\ "dummy" \notin {"any"}
  BY FuncsAssumption
<1>2. Ret[f] \in Nat
  BY <1>1
<1>3. /\ running /\ Len(frames) >= 2 /\ Len(values) \in Nat
      /\ BaseOf(Inner) <= Len(values) - (Params[f] + x) /\ BaseOf(Inner) \in Nat
  BY <1>1, <1>2, MayFacts, TakesOwn DEF Ready, Facts
<1>4. Params[f] <= Len(vals)
  BY <1>1, <1>3
<1>5. Room(Params[f] + x, Ret[f])
  BY <1>1, <1>2, <1>3, CodeHeight, RoomForAll
<1>6. Len(vals) + Ret[f] <= ValueCap + Params[f]
  <2>1. Len(values) + Ret[f] <= ValueCap + (Params[f] + x)
    BY <1>5 DEF Room
  <2>2. \A l, p, t, c \in Nat : l + t <= c + (p + x) => (l - x) + t <= c + p
    OBVIOUS
  <2>3. ValueCap \in Nat
    BY BoundsAssumption
  <2>4. QED
    BY <1>1, <1>2, <1>3, <2>1, <2>2, <2>3
<1>7. QED
  BY <1>4, <1>6 DEF Invokable

LEMMA CallsReady ==
  ASSUME Ready, ~LeftoverReturn, EnoughValues, NativesAsTyped
  PROVE  ~AstrayCall
<1>0. values \in Seq(Val) /\ Len(values) \in Nat /\ 1 \in Nat /\ 0 \in Nat
  BY LenProperties DEF Ready, Facts, TypedStacks, TypeInv
<1>1. ASSUME NEW f \in Funcs, May({"any"}, Params[f], Ret[f]) PROVE Invokable(f, values)
  <2>1. Params[f] + 0 = Params[f] /\ Len(values) = Len(values) - 0
    BY <1>0, FuncsAssumption
  <2>2. May({"any"}, Params[f] + 0, Ret[f])
    BY <1>1, <2>1
  <2>3. QED
    BY <1>0, <2>1, <2>2, CallReady
<1>2. ASSUME NEW t \in Types, May({"any"}, t.params + 1, t.ret), 1 <= Len(values), Called(t)
      PROVE  Invokable(Callee, DropLast(values, 1))
  <2>1. 0 < Len(values)
    BY <1>0, <1>2
  <2>2. Top(0) \in Nat
    BY <1>0, <2>1, TopType, ValAssumption DEF Ready, Facts
  <2>3. Callee \in Funcs /\ t.params = Params[Callee] /\ t.ret = Ret[Callee]
    BY <1>2, <2>2, CalledType DEF Ready, Facts
  <2>4. Len(DropLast(values, 1)) = Len(values) - 1
    BY <1>0, <1>2, DropLen
  <2>5. May({"any"}, Params[Callee] + 1, Ret[Callee])
    BY <1>2, <2>3
  <2>6. QED
    BY <1>0, <2>3, <2>4, <2>5, CallReady
<1>3. ASSUME phase = "called" PROVE Invokable(callee, values)
  <2>1. /\ callee \in Funcs /\ callee \in Entries
        /\ Params[callee] \in Nat /\ Len(values) = Type(callee).params
    BY <1>3, FuncsAssumption DEF Ready, Facts, TypedStacks, TypeInv, Operands
  <2>2. CASE callee \in Natives
    <3>1. Params[callee] = 0 /\ Ret[callee] = 0
      BY <2>1, <2>2 DEF NativesAsTyped
    <3>2. Len(values) = 0
      BY <2>1, <2>2 DEF Type
    <3>3. QED
      BY <3>1, <3>2, BoundsAssumption DEF Invokable
  <2>3. CASE callee \notin Natives
    BY <2>1, <2>3 DEF Invokable, Type
  <2>4. QED
    BY <2>2, <2>3
<1>4. QED
  BY <1>1, <1>2, <1>3 DEF AstrayCall

LEMMA ReadyNotAstray ==
  ASSUME Ready, ~BrOut, NativesAsTyped, ~LeftoverReturn, EnoughValues
  PROVE  ~Astray
<1>1. ~AstrayBranch
  <2>1. ASSUME NEW k \in 0..(MaxDepth - 1), NEW n \in 0..1,
               CodeAt({"any"}, n, 0), MayBranch(k, n)
        PROVE  LabelReached(k, DropLast(values, n))
    <3>1. k \in Nat /\ n \in Nat
      OBVIOUS
    <3>2. QED
      BY <2>1, <3>1, BranchReady
  <2>2. QED
    BY <2>1 DEF AstrayBranch
<1>2. ~AstrayReturn
  BY ReturnReady DEF AstrayReturn
<1>3. QED
  BY <1>1, <1>2, PlainReady, CallsReady DEF Astray

-----------------------------------------------------------------------------
(* The outcome of an invocation.                                            *)

Proceeds == phase # "idle" /\ phase' = "running" /\ UNCHANGED <<trap, exitCode, ok, result>>

Begins == phase' = "called" /\ trap' = TrapNone /\ exitCode' = 0

Exits == phase' = "idle" /\ ok' = FALSE /\ trap' = TrapExit

(* A failure of the initial invoke is that of its first frame.              *)
Stops(t) ==
  /\ phase # "idle" /\ Fail(t)
  /\ IF phase = "called"
     THEN t = TrapStackOverflow /\ \E frame : frames' = Append(frames, frame)
     ELSE running /\ pc.at # "dummy"
  /\ t = TrapNone => EndOfPc

Reports == Proceeds \/ Begins \/ Exits \/ Finish \/ \E t : Stops(t)

Strays == phase # "idle" /\ phase' = "undefined" /\ UNCHANGED <<trap, exitCode, ok, result>>

LEMMA ContinueProceeds ==
  ASSUME running, Continue
  PROVE  Reports
BY DEF Continue, outcome, running, Reports, Proceeds

LEMMA PlainReports ==
  ASSUME Plain
  PROVE  Reports
<1>1. ASSUME running, pc.at # "dummy", NEW t, Fail(t), t # 0 PROVE Reports
  BY <1>1 DEF running, Reports, Stops, TrapNone
<1>2. ASSUME NEW n, NEW m, Code(n, m), Continue PROVE Reports
  BY <1>2, ContinueProceeds DEF Code, CodeAt, May, running
<1>3. ASSUME NEW n, NEW m, Code(n, m), NEW s, Replace(n, s) PROVE Reports
  BY <1>2, <1>3 DEF Replace
<1>4. ASSUME NEW v \in Val,
             Const(v) \/ Unary(v) \/ Binary(v) \/ Load(v) \/ MemorySize(v) \/ MemoryGrow(v)
      PROVE  Reports
  BY <1>3, <1>4 DEF Const, Unary, Binary, Load, MemorySize, MemoryGrow
<1>5. CASE Drop \/ Select \/ Store
  BY <1>3, <1>5 DEF Drop, Select, Store
<1>6. CASE Unreachable
  BY <1>1, <1>6 DEF Unreachable, TrapUnreachable, Code, CodeAt, May, running
<1>7. ASSUME NEW n, OutOfBounds(n) PROVE Reports
  BY <1>1, <1>7 DEF OutOfBounds, TrapOutOfBoundsMemoryAccess, Code, CodeAt, May, running
<1>8. ASSUME NEW n, NEW v, Compare(n, v) PROVE Reports
  BY <1>3, <1>8 DEF Compare
<1>9. ASSUME NEW t \in DivTraps, DivTrap(t) PROVE Reports
  BY <1>1, <1>9 DEF DivTrap, DivTraps, TrapIntegerOverflow, TrapIntegerDivideByZero,
                    Code, CodeAt, May, running
<1>10. ASSUME NEW t \in TruncTraps, TruncTrap(t) PROVE Reports
  BY <1>1, <1>10 DEF TruncTrap, TruncTraps, TrapIntegerOverflow,
                     TrapInvalidConversionToInteger, Code, CodeAt, May, running
<1>11. ASSUME NEW i, GetLocal(i) \/ SetLocal(i) \/ TeeLocal(i) PROVE Reports
  BY <1>2, <1>3, <1>11 DEF GetLocal, SetLocal, TeeLocal
<1>12. ASSUME NEW g, GetGlobal(g) PROVE Reports
  BY <1>3, <1>12 DEF GetGlobal
<1>13. ASSUME NEW g, SetGlobal(g) PROVE Reports
  BY <1>13 DEF SetGlobal, Code, CodeAt, May, outcome, Reports, Proceeds
<1>14. QED
  BY <1>4, <1>5, <1>6, <1>7, <1>8, <1>9, <1>10, <1>11, <1>12, <1>13 DEF Plain

LEMMA PushLabelReports ==
  ASSUME running, pc.at # "dummy", NEW label, NEW target, PushLabel(label, target)
  PROVE  Reports
<1>1. CASE Full(labels', LabelCap)
  BY <1>1 DEF PushLabel, running, Reports, Stops, TrapStackOverflow, TrapNone
<1>2. CASE ~Full(labels', LabelCap)
  BY <1>2, ContinueProceeds DEF PushLabel
<1>3. QED
  BY <1>1, <1>2

LEMMA StructuredReports ==
  ASSUME Structured
  PROVE  Reports
<1>1. ASSUME NEW r, Block(r) \/ Loop(r) \/ \E hasElse \in BOOLEAN : If(r, hasElse)
      PROVE  Reports
  BY <1>1, PushLabelReports DEF Block, Loop, If, Code, CodeAt, May, running
<1>2. CASE End \/ EndOfFrame
  BY <1>2, ContinueProceeds DEF End, EndOfFrame, OpEnd, CodeAt, May, running
<1>3. CASE EnterBody
  BY <1>3, PushLabelReports DEF EnterBody, running
<1>4. CASE EndOfPc
  BY <1>4 DEF EndOfPc, Reports, Stops, TrapNone, running
<1>5. CASE Return
  BY <1>5, ContinueProceeds DEF Return, MayReturn, May, running
<1>6. ASSUME NEW k, Br(k) \/ BrIf(k) \/ \E vec \in Vectors(MaxDepth) : BrTable(vec, k)
      PROVE  Reports
  BY <1>6, ContinueProceeds DEF Br, BrIf, BrTable, Break, Replace, Code, CodeAt, May, running
<1>7. QED
  BY <1>1, <1>2, <1>3, <1>4, <1>5, <1>6 DEF Structured

LEMMA InvokeReports ==
  ASSUME phase = "called" \/ (running /\ pc.at # "dummy"),
         NEW f, NEW vals, NEW return, InvokeFunc(f, vals, return)
  PROVE  Reports
<1>1. ASSUME NEW v, InvokeNative(f, vals, return, v) PROVE Reports
  BY <1>1 DEF InvokeNative, Reports, Exits, Proceeds, running
<1>2. ASSUME Fail(TrapStackOverflow), NEW frame, frames' = Append(frames, frame) PROVE Reports
  BY <1>2 DEF Reports, Stops, TrapStackOverflow, TrapNone, running
<1>3. ASSUME InvokeWasm(f, vals, return) PROVE Reports
  BY <1>2, <1>3 DEF InvokeWasm, Reports, Proceeds, running
<1>4. QED
  BY <1>1, <1>3 DEF InvokeFunc

LEMMA EntryReports ==
  ASSUME InvokeEntry
  PROVE  Reports
<1>1. phase = "called" /\ InvokeFunc(callee, values, pc)
  BY DEF InvokeEntry
<1>2. PICK f, vals, return : InvokeFunc(f, vals, return)
  BY <1>1
<1>3. QED
  BY <1>1, <1>2, InvokeReports

LEMMA CallingReports ==
  ASSUME Calling
  PROVE  Reports
<1>1. ASSUME NEW f, Call(f) PROVE Reports
  BY <1>1, InvokeReports DEF Call, May, running
<1>2. ASSUME NEW t, CallIndirect(t) PROVE Reports
  <2>1. running /\ pc.at # "dummy"
    BY <1>2 DEF CallIndirect, May, running
  <2>2. CASE ~Called(t)
    <3>1. PICK r \in {8, 9} : Fail(r)
      BY <1>2, <2>2 DEF CallIndirect, TrapUndefinedElement, TrapIndirectCallTypeMismatch
    <3>2. QED
      BY <2>1, <3>1 DEF Reports, Stops, TrapNone, running
  <2>3. CASE Called(t)
    BY <1>2, <2>1, <2>3, InvokeReports DEF CallIndirect
  <2>4. QED
    BY <2>2, <2>3
<1>3. QED
  BY <1>1, <1>2 DEF Calling

LEMMA ReportsDefined ==
  ASSUME Reports
  PROVE  StaysDefined'
BY DEF Reports, Proceeds, Begins, Exits, Finish, Stops, Fail, StaysDefined

LEMMA NextReports ==
  ASSUME TypedStacks, Next
  PROVE  Reports \/ Strays \/ UNCHANGED vars
<1>1. ASSUME NEW f, NEW args, Invoke(f, args) PROVE Reports
  BY <1>1 DEF Invoke, ResetOutcome, Reports, Begins
<1>2. CASE InvokeEntry
  BY <1>2, EntryReports
<1>3. CASE Host
  BY <1>1, <1>2, <1>3 DEF Host, Reports
<1>4. CASE Astray
  <2>1. phase # "idle"
    BY <1>4 DEF Astray, AstrayPlain, AstrayBranch, AstrayReturn, AstrayCall, MayReturn,
                CodeAt, May
  <2>2. QED
    BY <1>4, <2>1 DEF Astray, Strays
<1>5. QED
  BY <1>3, <1>4, PlainReports, StructuredReports, CallingReports DEF Next, Gone

(* No handler uses what is not there: for every program that branches to    *)
(* the label of a body in the outermost activation only, calls natives by   *)
(* their types, returns over no unused operands in a function with          *)
(* parameters, and holds no more operands per function than the array of    *)
(* the values has room for.                                                 *)
THEOREM NeverAstray ==
  ASSUME ~BrOut, NativesAsTyped, ~LeftoverReturn, EnoughValues
  PROVE  Spec => []StaysDefined
<1>1. Init => StaysDefined
  BY DEF Init, StaysDefined
<1>2. ASSUME Ready, StaysDefined, [Next]_vars PROVE StaysDefined'
  <2>1. ~Astray
    BY <1>2, ReadyNotAstray
  <2>2. CASE Plain \/ Structured \/ Calling \/ Host
    <3>1. CASE Plain \/ Structured \/ Calling
      BY <3>1, PlainReports, StructuredReports, CallingReports, ReportsDefined
    <3>2. CASE Host
      <4>1. ASSUME NEW f, NEW args, Invoke(f, args) PROVE StaysDefined'
        BY <4>1 DEF Invoke, StaysDefined
      <4>2. CASE InvokeEntry
        BY <4>2, EntryReports, ReportsDefined
      <4>3. CASE Finish
        BY <4>3 DEF Finish, StaysDefined
      <4>4. QED
        BY <3>2, <4>1, <4>2, <4>3 DEF Host
    <3>3. QED
      BY <2>2, <3>1, <3>2
  <2>3. CASE UNCHANGED vars
    BY <1>2, <2>3 DEF vars, StaysDefined
  <2>4. QED
    BY <1>2, <2>1, <2>2, <2>3 DEF Next, Gone
<1>3. Facts /\ StacksInBounds /\ StaysDefined /\ [Next]_vars => StaysDefined'
  BY <1>2 DEF Ready
<1>4. QED
  BY <1>1, <1>3, FactsAlways, StacksBounded, PTL DEF Spec

(* While an invocation runs there is no trace of an earlier failure.        *)
Clean == phase # "idle" => trap = TrapNone /\ exitCode = 0

(* FailureReported of the executions that stop for a trap.                  *)
TrapReported ==
  phase = "idle" /\ ~ok /\ trap \notin {TrapNone, TrapExit} =>
    exitCode = IF FirstFrameRefused THEN 0 ELSE trap

Outcome == Clean /\ SuccessIsClean /\ TrapReported

LEMMA InitOutcome == Init => Outcome
BY DEF Init, Outcome, Clean, SuccessIsClean, TrapReported

(* A result is what was popped from the value stack.                        *)
LEMMA FinishResult ==
  ASSUME TypedStacks, Finish
  PROVE  /\ ok' => Len(result') = Type(callee).ret
         /\ phase' = "idle" /\ UNCHANGED <<trap, exitCode, callee>>
         /\ ok' = (Type(callee).ret <= Len(values)) /\ Len(values) \in Nat
<1> DEFINE n == Type(callee).ret
<1>1. callee \in Funcs /\ values \in Seq(Val) /\ Len(values) \in Nat
  BY FuncsAssumption, LenProperties DEF TypedStacks, TypeInv
<1>2. n \in 0..1
  BY <1>1, FuncsAssumption DEF Type
<1>3. ASSUME ok' PROVE Len(result') = n
  <2>1. n <= Len(values) /\ result' = SubSeq(values, Len(values) - n + 1, Len(values))
    BY <1>3 DEF Finish
  <2>2. ASSUME NEW i \in (Len(values) - n + 1)..Len(values) PROVE values[i] \in Val
    <3>1. i \in 1..Len(values)
      BY <1>1, <1>2, <2>1
    <3>2. QED
      BY <1>1, <3>1, ElementOfSeq
  <2>3. Len(values) - n + 1 \in Int /\ Len(values) \in Int
    BY <1>1, <1>2
  <2>4. Len(result') = IF Len(values) - n + 1 <= Len(values)
                       THEN Len(values) - (Len(values) - n + 1) + 1 ELSE 0
    BY <2>1, <2>2, <2>3, SubSeqProperties
  <2>5. QED
    BY <1>1, <1>2, <2>4
<1>4. ok' = (n <= Len(values))
  BY Zenon DEF Finish
<1>5. QED
  BY <1>1, <1>3, <1>4, Zenon DEF Finish

LEMMA NextOutcome == TypedStacks /\ Outcome /\ [Next]_vars => Outcome'
<1> SUFFICES ASSUME TypedStacks, Outcome, [Next]_vars PROVE Outcome'
  OBVIOUS
<1> USE DEF Outcome, Clean, SuccessIsClean, TrapReported
<1>1. CASE Proceeds
  BY <1>1 DEF Proceeds
<1>2. CASE Begins
  BY <1>2 DEF Begins
<1>3. CASE Exits
  BY <1>3 DEF Exits
<1>4. CASE Finish
  <2>1. /\ ok' => Len(result') = Type(callee).ret
        /\ phase' = "idle" /\ UNCHANGED <<trap, exitCode, callee>>
    BY <1>4, FinishResult
  <2>2. trap = TrapNone /\ exitCode = 0
    BY <1>4 DEF Finish
  <2>3. Type(callee)' = Type(callee) /\ trap' = TrapNone /\ exitCode' = 0
    BY <2>1, <2>2 DEF Type
  <2>4. SuccessIsClean'
    BY <2>1, <2>3
  <2>5. TrapReported' /\ Clean'
    BY <2>1, <2>3 DEF TrapNone
  <2>6. QED
    BY <2>4, <2>5
<1>5. ASSUME NEW t, Stops(t) PROVE Outcome'
  <2>1. phase' = "idle" /\ ok' = FALSE
    BY <1>5 DEF Stops, Fail
  <2>2. CASE phase = "called"
    <3>1. trap' = TrapStackOverflow /\ exitCode' = 0 /\ pc' = NoPos
      BY <1>5, <2>2 DEF Stops, Fail, TypedStacks, DummyBelow
    <3>2. PICK frame : frames' = Append(<<DummyFrame>>, frame)
      BY <1>5, <2>2 DEF Stops, TypedStacks, DummyBelow
    <3>3. Len(frames') = 2
      BY <3>2
    <3>4. QED
      BY <2>1, <3>1, <3>3 DEF FirstFrameRefused
  <2>3. CASE phase # "called"
    <3>1. pc.at # "dummy" /\ pc' = pc /\ exitCode' = trap'
      BY <1>5, <2>3 DEF Stops, Fail, running
    <3>2. ~FirstFrameRefused'
      BY <3>1 DEF FirstFrameRefused, NoPos, Pos
    <3>3. QED
      BY <2>1, <3>1, <3>2
  <2>4. QED
    BY <2>2, <2>3
<1>6. CASE UNCHANGED vars
  BY <1>6 DEF vars, Type, FirstFrameRefused
<1>7. CASE Strays
  BY <1>7 DEF Strays
<1>8. QED
  BY <1>1, <1>2, <1>3, <1>4, <1>5, <1>6, <1>7, NextReports DEF Reports

LEMMA OutcomeAlways == Spec => []Outcome
<1>1. Init => TypedStacks /\ Outcome
  BY InitType, InitOutcome
<1>2. (TypedStacks /\ Outcome) /\ [Next]_vars => (TypedStacks /\ Outcome)'
  BY NextType, NextOutcome
<1>3. QED
  BY <1>1, <1>2, PTL DEF Spec

(* A call that returns true leaves no trace of an earlier failure, and as   *)
(* many results as its type says: for every program, without assumptions.   *)
THEOREM SuccessClean == Spec => []SuccessIsClean
<1>1. Outcome => SuccessIsClean
  BY DEF Outcome
<1>2. QED
  BY <1>1, OutcomeAlways, PTL

(* An execution that stops early stopped for a trap: it never runs past the *)
(* end of a body, and finds its result when it comes to its end.            *)
THEOREM StopsForTraps ==
  ASSUME ~BrOut, NativesAsTyped
  PROVE  Spec => []StopsAreTraps
<1>1. ASSUME Facts, StopsAreTraps, [Next]_vars PROVE StopsAreTraps'
  <2>1. CASE Proceeds \/ Begins \/ Exits
    BY <2>1 DEF Proceeds, Begins, Exits, StopsAreTraps, TrapExit, TrapNone
  <2>2. CASE Finish
    <3>1. /\ phase' = "idle" /\ ok' = (Type(callee).ret <= Len(values))
          /\ Len(values) \in Nat
      BY <1>1, <2>2, FinishResult DEF Facts
    <3>2. running /\ pc.at = "dummy"
      BY <2>2 DEF Finish, running
    <3>3. frames # <<>> /\ frames \in Seq(Frame) /\ Len(frames) \in Nat
      BY <1>1, <3>2, LenProperties DEF Facts, TypedStacks, TypeInv, DummyBelow
    <3>4. ~(Len(frames) >= 2)
      BY <1>1, <3>2 DEF Facts, Nested, Outermost, Placed
    <3>5. Len(frames) = 1
      <4>1. \A n \in Nat : n # 0 /\ ~(n >= 2) => n = 1
        OBVIOUS
      <4>2. QED
        BY <3>3, <3>4, <4>1, EmptySeq
    <3>6. Slack(Len(values), Type(callee).ret)
      BY <1>1, <3>2, <3>5 DEF Facts, Operands, Delivered
    <3>7. Type(callee).ret \in Int
      <4>1. callee \in Funcs
        BY <1>1, FuncsAssumption DEF Facts, TypedStacks, TypeInv
      <4>2. Type(callee).ret \in 0..1
        BY <4>1, FuncsAssumption DEF Type
      <4>3. QED
        BY <4>2
    <3>8. Type(callee).ret <= Len(values)
      BY <3>1, <3>6, <3>7, SlackAbove
    <3>9. QED
      BY <3>1, <3>8 DEF StopsAreTraps
  <2>3. ASSUME NEW t, Stops(t) PROVE StopsAreTraps'
    <3>1. ~EndOfPc
      <4>1. ASSUME EndOfPc PROVE FALSE
        <5>1. running /\ pc.at = "past" /\ pc.at # "dummy"
          BY <4>1 DEF EndOfPc, running
        <5>2. QED
          BY <1>1, <5>1, RunningFacts DEF Facts, Nested, Outermost, Placed
      <4>2. QED
        BY <4>1
    <3>2. QED
      BY <2>3, <3>1 DEF Stops, Fail, StopsAreTraps
  <2>4. CASE UNCHANGED vars
    BY <1>1, <2>4 DEF vars, StopsAreTraps
  <2>5. CASE Strays
    BY <2>5 DEF Strays, StopsAreTraps
  <2>6. QED
    BY <1>1, <2>1, <2>2, <2>3, <2>4, <2>5, NextReports DEF Reports, Facts
<1>2. Init => StopsAreTraps
  BY DEF Init, StopsAreTraps
<1>3. Facts /\ StopsAreTraps /\ [Next]_vars => StopsAreTraps'
  BY <1>1
<1>4. QED
  BY <1>2, <1>3, FactsAlways, PTL DEF Spec

(* A call that fails, other than by proc_exit, fails for a trap and returns *)
(* that trap as exit code, except where its first frame is refused, which   *)
(* returns 0.                                                               *)
THEOREM FailuresReported ==
  ASSUME ~BrOut, NativesAsTyped
  PROVE  Spec => []FailureReported
<1>1. Outcome /\ StopsAreTraps => FailureReported
  BY DEF Outcome, TrapReported, StopsAreTraps, FailureReported
<1>2. QED
  BY <1>1, OutcomeAlways, StopsForTraps, PTL
=============================================================================
