------------------------------- MODULE Numbers -------------------------------
(***************************************************************************)
(* The integer instructions of TWA (operation.h, utils.h) on the slots of  *)
(* the value stack, and the literals of the code that they start from      *)
(* (readLebU64, readLebI64 in decoder.cpp).                                *)
(*                                                                         *)
(* A slot is a union Value: its low half is i32, all of it is i64.  An     *)
(* i32 that is stored in a slot leaves the upper half as it was, or, in a  *)
(* new Value, uninitialised.                                               *)
(***************************************************************************)
EXTENDS Integers, Sequences, FiniteSetsExt

CONSTANTS
  W32, W64,   \* bits of I32 and I64
  Group,      \* bits in a byte of a LEB128 number, 7 in the code
  Stale,      \* what may be in the upper half of a new Value
  Masks,      \* whether the machine reduces the count of a shift to its width;
              \* in C++ such a count is undefined
  MaxHeight,  \* bound: operands on the stack
  BitAnd(_, _), BitOr(_, _), BitXor(_, _)  \* the machine's instructions of these names

BitOf(n, i) == (n \div 2^i) % 2
BitByBit(a, b) ==
  /\ {BitAnd(a, b), BitOr(a, b), BitXor(a, b)} \subseteq 0..(2^W64 - 1)
  /\ \A i \in 0..(W64 - 1) :
       /\ BitOf(BitAnd(a, b), i) = BitOf(a, i) * BitOf(b, i)
       /\ BitOf(BitOr(a, b), i) = Max({BitOf(a, i), BitOf(b, i)})
       /\ BitOf(BitXor(a, b), i) = (BitOf(a, i) + BitOf(b, i)) % 2
ASSUME NumbersAssumption ==
  /\ W32 \in Nat \ {0} /\ W64 = 2 * W32 /\ Group \in 1..W64
  /\ \A a, b \in 0..(2^W64 - 1) : BitByBit(a, b)
  /\ Stale \subseteq 0..(2^W32 - 1) /\ Stale # {} /\ Masks \in BOOLEAN /\ MaxHeight \in Nat

VARIABLES
  values,  \* Stack::values, as bits
  types,   \* the types of the operands, known from validation
  last,    \* the instruction that ran last, as in Arithmetic
  trap     \* Runtime::trap_

vars == <<values, types, last, trap>>

Width(t) == IF t = "i32" THEN W32 ELSE W64
Last(op, t, imm, out) == [op |-> op, type |-> t, imm |-> imm, out |-> out]

-----------------------------------------------------------------------------
(* Slots.                                                                  *)

(* The members u32/u64 and i32/i64 of a slot.                              *)
Unsigned(t, s) == s % 2^Width(t)
ToSigned(w, n) == IF n >= 2^(w - 1) THEN n - 2^w ELSE n
SignedOf(t, s) == ToSigned(Width(t), Unsigned(t, s))

(* An assignment to a member, and the constructors of Value.  Before some  *)
(* operators stands a wrong variant: a mistake the properties notice.      *)
Assign(t, s, n) == IF t = "i32" THEN (s - (s % 2^W32)) + n ELSE n
NewValues(t, n) == IF t = "i32" THEN {n + h * 2^W32 : h \in Stale} ELSE {n}

Push(t, n) ==
  /\ trap = "none" /\ Len(values) < MaxHeight
  /\ \E s \in NewValues(t, n) : values' = Append(values, s)
  /\ types' = Append(types, t) /\ UNCHANGED trap

Top == values[Len(values)]
TopType == types[Len(types)]
Second == values[Len(values) - 1]
Below(n, s) == SubSeq(s, 1, Len(s) - n)

(* n operands of type t are replaced by one.                               *)
Operands(n, t) ==
  /\ trap = "none" /\ Len(values) >= n
  /\ \A i \in 0..(n - 1) : types[Len(types) - i] = t
Replace(n, t, s) ==
  /\ values' = Append(Below(n, values), s) /\ types' = Append(Below(n, types), t)
  /\ UNCHANGED trap

-----------------------------------------------------------------------------
(* Literals.  A byte has Group bits of the number and one that says        *)
(* whether more follow.                                                    *)
More == 2^Group
Slice(bytes, i) == bytes[i] % More
Shift(i) == Group * (i - 1)
SumOf(bytes) == SumFunction([i \in DOMAIN bytes |-> Slice(bytes, i) * 2^Shift(i)])

(* A number that is too big is given up in the middle.                     *)
TooBig(slice, shift) == shift >= W64 \/ slice * 2^shift >= 2^W64
ReadLebU64(bytes) ==
  IF \E i \in DOMAIN bytes : TooBig(Slice(bytes, i), Shift(i)) THEN 0 ELSE SumOf(bytes)
SignFillEarly(n) == Shift(n)
SignFill(n) == Shift(n + 1)
ReadLebI64(bytes) ==
  LET n == Len(bytes)
      negative == SignFill(n) < W64 /\ BitAnd(bytes[n], 2^(Group - 1)) # 0
  IN (SumOf(bytes) % 2^W64) + (IF negative THEN 2^W64 - 2^SignFill(n) ELSE 0)
ReadLebU32(bytes) == ReadLebU64(bytes) % 2^W32
ReadLeb(t, bytes) == IF t = "i32" THEN ReadLebI64(bytes) % 2^W32 ELSE ReadLebI64(bytes)

(* What files hold: each encoding of v in as many bytes as w bits may take.*)
Encode(v, n) ==
  [i \in 1..n |-> ((v \div 2^Shift(i)) % More) + (IF i < n THEN More ELSE 0)]
Lengths(w) == 1..((w + Group - 1) \div Group)
SignedEncodings(w, v) ==
  {Encode(v, n) : n \in {n \in Lengths(w) : v \in -(2^(Group * n - 1))..(2^(Group * n - 1) - 1)}}
UnsignedEncodings(w, v) == {Encode(v, n) : n \in {n \in Lengths(w) : v < 2^(Group * n)}}

Const == \E t \in {"i32", "i64"} : \E n \in 0..(2^Width(t) - 1) :
  \E bytes \in SignedEncodings(Width(t), ToSigned(Width(t), n)) :
    Push(t, ReadLeb(t, bytes)) /\ last' = Last("const", t, <<n>>, <<>>)
Index == \E n \in 0..(2^W32 - 1) : \E bytes \in UnsignedEncodings(W32, n) :
  /\ trap = "none" /\ values = <<>>
  /\ last' = Last("index", "i32", <<n>>, <<ReadLebU32(bytes)>>)
  /\ UNCHANGED <<values, types, trap>>

-----------------------------------------------------------------------------
(* Loads and stores of k bits (loads, as a bound, on an empty stack).      *)
SignExtWide(t, k, n) == IF n >= 2^(k - 1) THEN n + 2^W64 - 2^k ELSE n
SignExt(t, k, n) ==
  LET promoted == IF n >= 2^(k - 1) THEN n + 2^Width(t) - 2^k ELSE n
  IN IF BitAnd(n, 2^(k - 1)) # 0 THEN BitOr(promoted, 2^Width(t) - 2^k) ELSE promoted
Load == \E t \in {"i32", "i64"} : \E k \in 1..Width(t) : \E n \in 0..(2^k - 1) :
  /\ values = <<>>
  /\ \/ Push(t, SignExt(t, k, n)) /\ last' = Last("load_s", t, <<k, n>>, <<>>)
     \/ Push(t, n) /\ last' = Last("load_u", t, <<k, n>>, <<>>)
Store == \E t \in {"i32", "i64"} : \E k \in 1..Width(t) :
  /\ Operands(1, t)
  /\ last' = Last("store", t, <<k>>, <<Unsigned(t, Top) % 2^k>>)
  /\ values' = Below(1, values) /\ types' = Below(1, types) /\ UNCHANGED trap

(* OP_TYPE_BIT_IMPL.  The compiler's builtins are not defined for 0.       *)
Ones(n) == {i \in 0..(W64 - 1) : BitAnd(n, 2^i) # 0}
BuiltinClz(w, n) == w - 1 - Max(Ones(n))
BuiltinCtz(n) == Min(Ones(n))
Counted(op, w, n) ==
  CASE op = "clz" -> IF n = 0 THEN w ELSE BuiltinClz(w, n)
    [] op = "ctz" -> IF n = 0 THEN w ELSE BuiltinCtz(n)
    [] op = "popcnt" -> IF n = 0 THEN 0 ELSE Cardinality(Ones(n))
BitOp == \E t \in {"i32", "i64"} : \E op \in {"clz", "ctz", "popcnt"} :
  /\ Operands(1, t) /\ last' = Last(op, t, <<>>, <<>>)
  /\ \E s \in NewValues(t, Counted(op, Width(t), Unsigned(t, Top))) : Replace(1, t, s)

Eqz == \E t \in {"i32", "i64"} :
  /\ Operands(1, t) /\ last' = Last("eqz", t, <<>>, <<>>)
  /\ \E s \in NewValues("i32", IF Unsigned(t, Top) = 0 THEN 1 ELSE 0) : Replace(1, "i32", s)

(* OP_TYPE_CVT_IMPL widens in place; wrap makes a new Value.               *)
Wrap ==
  /\ Operands(1, "i64") /\ last' = Last("wrap", "i64", <<>>, <<>>)
  /\ \E s \in NewValues("i32", Unsigned("i32", Top)) : Replace(1, "i32", s)
Extend == \E op \in {"extend_s", "extend_u"} :
  /\ Operands(1, "i32") /\ last' = Last(op, "i32", <<>>, <<>>)
  /\ Replace(1, "i64", IF op = "extend_s" THEN SignedOf("i32", Top) % 2^W64
                                          ELSE Unsigned("i32", Top))

(* OP_TYPE_NUM_IMPL works in place on the slot below the top.              *)
ShiftCount(w, c) == IF Masks THEN c % w ELSE c
NumOp(op, t, A, B) ==
  LET w == Width(t)
      a == Unsigned(t, A)
      b == Unsigned(t, B)
      c == ShiftCount(w, b)
  IN CASE op = "add" -> a + b
       [] op = "sub" -> a - b
       [] op = "mul" -> a * b
       [] op = "and" -> BitAnd(a, b)
       [] op = "or" -> BitOr(a, b)
       [] op = "xor" -> BitXor(a, b)
       [] op = "shl" -> a * 2^c
       [] op = "shr_u" -> a \div 2^c
       [] op = "shr_s" -> SignedOf(t, A) \div 2^c
Num == \E t \in {"i32", "i64"} :
  \E op \in {"add", "sub", "mul", "and", "or", "xor", "shl", "shr_s", "shr_u"} :
    /\ Operands(2, t) /\ last' = Last(op, t, <<>>, <<>>)
    /\ Replace(2, t, Assign(t, Second, NumOp(op, t, Second, Top) % 2^Width(t)))

(* ROTL_32, ROTR_32, ROTL_64, ROTR_64.                                     *)
Rotl(w, n, c) ==
  LET d == c % w IN BitOr((n * 2^d) % 2^w, n \div 2^((-d) % w))
Rotr(w, n, c) ==
  LET d == c % w IN BitOr(n \div 2^d, (n * 2^((-d) % w)) % 2^w)
Rot == \E t \in {"i32", "i64"} : \E op \in {"rotl", "rotr"} :
  LET w == Width(t)
      n == Unsigned(t, Second)
      c == Unsigned(t, Top)
  IN /\ Operands(2, t) /\ last' = Last(op, t, <<>>, <<>>)
     /\ \E s \in NewValues(t, IF op = "rotl" THEN Rotl(w, n, c) ELSE Rotr(w, n, c)) :
          Replace(2, t, s)

(* OP_TYPE_DIV_REM_IMPL: the division of C++ cuts the fraction off.        *)
CutDiv(a, b) ==
  LET q == (IF a < 0 THEN -a ELSE a) \div (IF b < 0 THEN -b ELSE b)
  IN IF (a < 0) = (b < 0) THEN q ELSE -q
CutRem(a, b) == a - b * CutDiv(a, b)
DivRemOp(op, t, A, B) ==
  CASE op = "div_s" -> CutDiv(SignedOf(t, A), SignedOf(t, B))
    [] op = "rem_s" -> CutRem(SignedOf(t, A), SignedOf(t, B))
    [] op = "div_u" -> CutDiv(Unsigned(t, A), Unsigned(t, B))
    [] op = "rem_u" -> CutRem(Unsigned(t, A), Unsigned(t, B))
Trapped(reason, popped) ==
  trap' = reason /\ values' = Below(popped, values) /\ types' = Below(popped, types)
MinByMinusOne(t) == SignedOf(t, Top) = -1 /\ SignedOf(t, Second) = -(2^(Width(t) - 1))
DivRem == \E t \in {"i32", "i64"} : \E op \in {"div_s", "div_u", "rem_s", "rem_u"} :
  /\ Operands(2, t) /\ last' = Last(op, t, <<>>, <<>>)
  /\ \/ op = "div_s" /\ MinByMinusOne(t) /\ Trapped("integer overflow", 0)
     \/ op = "rem_s" /\ MinByMinusOne(t) /\ Replace(2, t, Assign(t, Second, 0))
     \/ /\ ~(op \in {"div_s", "rem_s"} /\ MinByMinusOne(t))
        /\ IF Unsigned(t, Top) = 0 THEN Trapped("divide by zero", 1)
           ELSE \E s \in NewValues(t, DivRemOp(op, t, Second, Top) % 2^Width(t)) :
                  Replace(2, t, s)

(* OP_TYPE_CMP_IMPL: val1 is the operand on top.                           *)
Holds(op, t, val2, val1) ==
  CASE op = "eq" -> Unsigned(t, val2) = Unsigned(t, val1)
    [] op = "ne" -> Unsigned(t, val2) # Unsigned(t, val1)
    [] op = "lt_s" -> SignedOf(t, val2) < SignedOf(t, val1)
    [] op = "lt_u" -> Unsigned(t, val2) < Unsigned(t, val1)
    [] op = "gt_s" -> SignedOf(t, val2) > SignedOf(t, val1)
    [] op = "gt_u" -> Unsigned(t, val2) > Unsigned(t, val1)
    [] op = "le_s" -> SignedOf(t, val2) <= SignedOf(t, val1)
    [] op = "le_u" -> Unsigned(t, val2) <= Unsigned(t, val1)
    [] op = "ge_s" -> SignedOf(t, val2) >= SignedOf(t, val1)
    [] op = "ge_u" -> Unsigned(t, val2) >= Unsigned(t, val1)
Cmp == \E t \in {"i32", "i64"} :
  \E op \in {"eq", "ne", "lt_s", "lt_u", "gt_s", "gt_u", "le_s", "le_u", "ge_s", "ge_u"} :
    /\ Operands(2, t) /\ last' = Last(op, t, <<>>, <<>>)
    /\ \E s \in NewValues("i32", IF Holds(op, t, Second, Top) THEN 1 ELSE 0) :
         Replace(2, "i32", s)

(* After a trap the next Runtime::invoke clears the stack.                 *)
Restart ==
  /\ trap # "none" /\ trap' = "none" /\ values' = <<>> /\ types' = <<>> /\ UNCHANGED last

Init ==
  /\ values = <<>> /\ types = <<>> /\ last = Last("none", "i32", <<>>, <<>>) /\ trap = "none"
Next ==
  \/ Const \/ Index \/ Load \/ Store \/ BitOp \/ Eqz \/ Wrap \/ Extend
  \/ Num \/ Rot \/ DivRem \/ Cmp \/ Restart
Spec == Init /\ [][Next]_vars

-----------------------------------------------------------------------------
(* Properties.                                                             *)

(* Every variable has its type, and each operand is a slot.                *)
NumbersTypeInv ==
  /\ values \in Seq(0..(2^W64 - 1)) /\ Len(types) = Len(values)
  /\ \A i \in DOMAIN types : types[i] \in {"i32", "i64"}
  /\ trap \in {"none", "integer overflow", "divide by zero"}

(* The integer instructions compute what Arithmetic says of them: for all  *)
(* operands, from every encoding of a literal, whatever earlier i32        *)
(* instructions left in the upper halves of slots.                         *)
Ideal == INSTANCE Arithmetic WITH
  stack <- IF trap # "none" THEN <<>>
           ELSE [i \in DOMAIN values |-> [type |-> types[i], n |-> Unsigned(types[i], values[i])]]
Computes == Ideal!Spec
=============================================================================
