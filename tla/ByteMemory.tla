------------------------------ MODULE ByteMemory ------------------------------
(****************************************************************************)
(* What a linear memory promises a program: an array of bytes that only     *)
(* memory.grow makes longer, by pages of zeros, and that loads and stores   *)
(* address without gaps or wrapping.  A grow may be refused at any time.    *)
(****************************************************************************)
EXTENDS Integers, Sequences

CONSTANTS PageSize, Min, Limit, Byte, Addrs, Offsets, Widths, Grows

VARIABLES bytes, ret

vars == <<bytes, ret>>

Reply(kind, val) == [kind |-> kind, val |-> val]
Trap == Reply("trap", <<>>)

Zeros(n) == [i \in 1..n |-> 0]
Pages == Len(bytes) \div PageSize

Init == bytes = Zeros(Min * PageSize) /\ ret = Reply("store", <<>>)

Grow(n) ==
  \/ ret' = Reply("grow", <<-1>>) /\ UNCHANGED bytes
  \/ /\ Pages + n <= Limit
     /\ bytes' = bytes \o Zeros(n * PageSize)
     /\ ret' = Reply("grow", <<Pages>>)

Size == ret' = Reply("size", <<Pages>>) /\ UNCHANGED bytes

Load(ea, w) ==
  /\ ret' = IF ea + w <= Len(bytes)
            THEN Reply("load", SubSeq(bytes, ea + 1, ea + w)) ELSE Trap
  /\ UNCHANGED bytes

Store(ea, val) ==
  IF ea + Len(val) <= Len(bytes)
  THEN /\ bytes' = [i \in 1..Len(bytes) |->
                     IF i - ea \in 1..Len(val) THEN val[i - ea] ELSE bytes[i]]
       /\ ret' = Reply("store", <<>>)
  ELSE ret' = Trap /\ UNCHANGED bytes

Next ==
  \/ \E n \in Grows : Grow(n)
  \/ Size
  \/ \E addr \in Addrs, off \in Offsets, w \in Widths :
       \/ Load(addr + off, w)
       \/ \E val \in [1..w -> Byte] : Store(addr + off, val)

Spec == Init /\ [][Next]_vars
=============================================================================
