------------------------------ MODULE Arithmetic ------------------------------
(***************************************************************************)
(* What an interpreter promises of the integer instructions: a stack of    *)
(* typed numbers, and for each instruction its result said bit by bit or   *)
(* by the equation that it solves.                                         *)
(***************************************************************************)
EXTENDS Integers, Sequences, FiniteSetsExt

CONSTANTS
  W32, W64,   \* bits of an i32 and of an i64
  MaxHeight   \* bound: operands on the stack

VARIABLES
  stack,  \* numbers: a type and its bits, read as a natural number
  last,   \* the instruction that ran last: opcode, type and immediates, and
          \* what it sent elsewhere: the bits a store writes, an index read
  trap

vars == <<stack, last, trap>>

Types == {"i32", "i64"}
Width(t) == IF t = "i32" THEN W32 ELSE W64
Bits(w) == 0..(2^w - 1)
Number(t, n) == [type |-> t, n |-> n]
Last(op, t, imm, out) == [op |-> op, type |-> t, imm |-> imm, out |-> out]

Bit(n, i) == (n \div 2^i) % 2
FromBits(w, b) == SumFunction([i \in 0..(w - 1) |-> b[i] * 2^i])
Signed(w, n) == IF Bit(n, w - 1) = 1 THEN n - 2^w ELSE n
AbsVal(x) == IF x < 0 THEN -x ELSE x

(* The quotient rounds towards 0.                                          *)
Quotient(a, b) ==
  CHOOSE q \in -AbsVal(a)..AbsVal(a) :
    LET r == a - q * b IN AbsVal(r) < AbsVal(b) /\ (r = 0 \/ (r < 0 <=> a < 0))
Remainder(a, b) == a - Quotient(a, b) * b

DivOps == {"div_s", "div_u", "rem_s", "rem_u"}
BinaryOps == {"add", "sub", "mul", "and", "or", "xor", "shl", "shr_s", "shr_u",
              "rotl", "rotr"} \cup DivOps
CompareOps == {"eq", "ne", "lt_s", "lt_u", "gt_s", "gt_u", "le_s", "le_u", "ge_s", "ge_u"}
UnaryOps == {"clz", "ctz", "popcnt"}

TrapOf(op, w, a, b) ==
  IF op \in DivOps /\ b = 0 THEN "divide by zero"
  ELSE IF op = "div_s" /\ Signed(w, b) = -1 /\ Signed(w, a) = -(2^(w - 1))
       THEN "integer overflow" ELSE "none"

Result(op, w, a, b) ==
  LET c == b % w
      I == 0..(w - 1)
  IN CASE op = "add" -> (a + b) % 2^w
       [] op = "sub" -> (a - b) % 2^w
       [] op = "mul" -> (a * b) % 2^w
       [] op = "and" -> FromBits(w, [i \in I |-> Bit(a, i) * Bit(b, i)])
       [] op = "or" -> FromBits(w, [i \in I |-> Max({Bit(a, i), Bit(b, i)})])
       [] op = "xor" -> FromBits(w, [i \in I |-> IF Bit(a, i) = Bit(b, i) THEN 0 ELSE 1])
       [] op = "shl" -> FromBits(w, [i \in I |-> IF i < c THEN 0 ELSE Bit(a, i - c)])
       [] op = "shr_u" -> FromBits(w, [i \in I |-> IF i + c \in I THEN Bit(a, i + c) ELSE 0])
       [] op = "shr_s" -> FromBits(w, [i \in I |-> Bit(a, Min({i + c, w - 1}))])
       [] op = "rotl" -> FromBits(w, [i \in I |-> Bit(a, (i - c) % w)])
       [] op = "rotr" -> FromBits(w, [i \in I |-> Bit(a, (i + c) % w)])
       [] op = "div_u" -> Quotient(a, b)
       [] op = "rem_u" -> Remainder(a, b)
       [] op = "div_s" -> Quotient(Signed(w, a), Signed(w, b)) % 2^w
       [] op = "rem_s" -> Remainder(Signed(w, a), Signed(w, b)) % 2^w

Holds(op, w, a, b) ==
  LET x == Signed(w, a)
      y == Signed(w, b)
  IN CASE op = "eq" -> a = b
       [] op = "ne" -> a # b
       [] op = "lt_s" -> x < y [] op = "lt_u" -> a < b
       [] op = "gt_s" -> x > y [] op = "gt_u" -> a > b
       [] op = "le_s" -> x <= y [] op = "le_u" -> a <= b
       [] op = "ge_s" -> x >= y [] op = "ge_u" -> a >= b
Truth(b) == IF b THEN 1 ELSE 0

Counted(op, w, a) ==
  LET ones == {i \in 0..(w - 1) : Bit(a, i) = 1}
  IN CASE op = "clz" -> IF ones = {} THEN w ELSE w - 1 - Max(ones)
       [] op = "ctz" -> IF ones = {} THEN w ELSE Min(ones)
       [] op = "popcnt" -> Cardinality(ones)

Converted(op, a) ==
  CASE op = "wrap" -> Number("i32", a % 2^W32)
    [] op = "extend_s" -> Number("i64", Signed(W32, a) % 2^W64)
    [] op = "extend_u" -> Number("i64", a)

-----------------------------------------------------------------------------
Top == stack[Len(stack)]
Second == stack[Len(stack) - 1]
Below(n) == SubSeq(stack, 1, Len(stack) - n)
Running == trap = "none"

Init == stack = <<>> /\ last = Last("none", "i32", <<>>, <<>>) /\ trap = "none"

Push(t, n) ==
  /\ Running /\ Len(stack) < MaxHeight
  /\ stack' = Append(stack, Number(t, n)) /\ UNCHANGED trap

Const == \E t \in Types : \E n \in Bits(Width(t)) :
  Push(t, n) /\ last' = Last("const", t, <<n>>, <<>>)

(* An index or a size in the code, always an unsigned 32-bit number.       *)
Index == \E n \in Bits(W32) :
  /\ Running /\ stack = <<>> /\ last' = Last("index", "i32", <<n>>, <<n>>)
  /\ UNCHANGED <<stack, trap>>

(* Loads and stores of k bits.                                             *)
Load == \E t \in Types : \E k \in 1..Width(t) : \E n \in Bits(k) :
  \/ /\ Push(t, Signed(k, n) % 2^Width(t))
     /\ last' = Last("load_s", t, <<k, n>>, <<>>)
  \/ /\ Push(t, n)
     /\ last' = Last("load_u", t, <<k, n>>, <<>>)
Store == \E k \in 1..W64 :
  /\ Running /\ stack # <<>> /\ k <= Width(Top.type)
  /\ last' = Last("store", Top.type, <<k>>, <<Top.n % 2^k>>)
  /\ stack' = Below(1) /\ UNCHANGED trap

Replace(n, x) == stack' = Append(Below(n), x) /\ UNCHANGED trap

Unary == \E op \in UnaryOps :
  /\ Running /\ stack # <<>> /\ last' = Last(op, Top.type, <<>>, <<>>)
  /\ Replace(1, Number(Top.type, Counted(op, Width(Top.type), Top.n)))
Eqz ==
  /\ Running /\ stack # <<>> /\ last' = Last("eqz", Top.type, <<>>, <<>>)
  /\ Replace(1, Number("i32", Truth(Top.n = 0)))
Convert == \E op \in {"wrap", "extend_s", "extend_u"} :
  /\ Running /\ stack # <<>> /\ Top.type = (IF op = "wrap" THEN "i64" ELSE "i32")
  /\ last' = Last(op, Top.type, <<>>, <<>>)
  /\ Replace(1, Converted(op, Top.n))

TwoOperands(op) ==
  /\ Running /\ Len(stack) >= 2 /\ Top.type = Second.type
  /\ last' = Last(op, Top.type, <<>>, <<>>)
Binary == \E op \in BinaryOps :
  /\ TwoOperands(op)
  /\ LET w == Width(Top.type)
     IN /\ trap' = TrapOf(op, w, Second.n, Top.n)
        /\ IF trap' = "none"
           THEN stack' = Append(Below(2), Number(Top.type, Result(op, w, Second.n, Top.n)))
           ELSE stack' = <<>>
Compare == \E op \in CompareOps :
  /\ TwoOperands(op)
  /\ Replace(2, Number("i32", Truth(Holds(op, Width(Top.type), Second.n, Top.n))))

(* A trap leaves no operands; the next call starts without any.            *)
Restart == ~Running /\ trap' = "none" /\ UNCHANGED <<stack, last>>

Next == Const \/ Index \/ Load \/ Store \/ Unary \/ Eqz \/ Convert \/ Binary \/ Compare \/ Restart

Spec == Init /\ [][Next]_vars
=============================================================================
