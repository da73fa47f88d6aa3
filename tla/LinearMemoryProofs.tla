-------------------------- MODULE LinearMemoryProofs --------------------------
(****************************************************************************)
(* The sizes of a linear memory stay true and its block is never left, for  *)
(* every memory type below the limits at which 32-bit sizes wrap.           *)
(****************************************************************************)
EXTENDS LinearMemory, SequenceTheorems, TLAPS

(* The memory types for which the code is right: at least a page, a maximum *)
(* of fewer pages than fill the 32-bit range, and arguments of memory.grow  *)
(* whose sum with a page count does not wrap.                               *)
NoWrap ==
  /\ HasMax /\ DeclMax \in 1..(MaxLen - 1) /\ Min \in 1..DeclMax
  /\ \A n \in Grows : n + DeclMax < U32Size

LEMMA SmallProduct ==
  ASSUME NEW a \in Nat, NEW b \in Nat, NEW p \in Nat \ {0}, a < b
  PROVE  a * p \in Nat /\ a * p < b * p
<1>1. b >= a + 1
  OBVIOUS
<1>2. (b - (a + 1)) * p >= 0
  BY <1>1
<1>3. (b - (a + 1)) * p = b * p - a * p - p
  OBVIOUS
<1>4. QED
  BY <1>2, <1>3

LEMMA SmallModulo ==
  ASSUME NEW a \in Nat, a < U32Size
  PROVE  U32(a) = a
<1>1. U32Size \in Nat \ {0}
  BY MemoryAssumption
<1>2. QED
  BY <1>1 DEF U32

(* Up to DeclMax pages the byte counts fit.                                 *)
LEMMA PageBytes ==
  ASSUME NoWrap, NEW n \in Nat, n <= DeclMax
  PROVE  /\ n * PageSize \in Nat /\ U32(n * PageSize) = n * PageSize
         /\ n > 0 => n * PageSize > 0
<1>1. n < MaxLen /\ MaxLen \in Nat /\ PageSize \in Nat \ {0}
  BY MemoryAssumption DEF NoWrap
<1>2. n * PageSize \in Nat /\ n * PageSize < MaxLen * PageSize
  BY <1>1, SmallProduct
<1>3. MaxLen * PageSize = U32Size
  BY <1>1, MemoryAssumption
<1>4. n > 0 => n * PageSize > 0
  <2>1. 0 < n => 0 * PageSize < n * PageSize
    BY <1>1, SmallProduct
  <2>2. QED
    BY <1>1, <2>1
<1>5. QED
  BY <1>2, <1>3, <1>4, SmallModulo

MInv ==
  /\ pageCnt \in 1..DeclMax
  /\ dataSize = pageCnt * PageSize
  /\ data \in Seq(Byte) /\ Len(data) = dataSize
  /\ freed = FALSE /\ undefined = FALSE

LEMMA MemoryInit == ASSUME NoWrap, Init PROVE MInv
<1>1. Min \in Nat /\ Min <= DeclMax /\ Min \in 1..DeclMax
  BY MemoryAssumption DEF NoWrap
<1>2. dataSize = Min * PageSize /\ dataSize \in Nat
  BY <1>1, PageBytes DEF Init
<1>3. data \in Seq(Byte) /\ Len(data) = dataSize
  BY <1>2, MemoryAssumption DEF Init, Zeroed
<1>4. QED
  BY <1>1, <1>2, <1>3 DEF Init, MInv

(* A grow that succeeds clears exactly the bytes it adds.                   *)
LEMMA MemoryGrow ==
  ASSUME NoWrap, MInv, NEW n \in Grows, Grow(n)
  PROVE  MInv'
<1> DEFINE pages == U32(n + pageCnt)
           bytes == U32(pages * PageSize)
           from == U32(pageCnt * PageSize)
           added == U32(n * PageSize)
<1>1. /\ n \in Nat /\ pageCnt \in Nat /\ DeclMax \in Nat /\ pageCnt > 0
      /\ pageCnt <= DeclMax /\ n + DeclMax < U32Size /\ U32Size \in Nat
      /\ PageSize \in Nat \ {0}
  BY MemoryAssumption DEF NoWrap, MInv
<1>2. pages = n + pageCnt
  BY <1>1, SmallModulo
<1>3. CASE TooLong(pages)
  BY <1>3 DEF Grow, MInv
<1>4. CASE ~TooLong(pages)
  <2>1. pages \in 1..DeclMax /\ pages \in Nat /\ pages > 0 /\ n <= DeclMax
    BY <1>1, <1>2, <1>4 DEF TooLong, max, NoWrap
  <2>2. bytes = pages * PageSize /\ bytes \in Nat /\ bytes > 0
    BY <2>1, PageBytes
  <2>3. from = pageCnt * PageSize /\ from \in Nat /\ from = Len(data)
    BY <1>1, PageBytes DEF MInv
  <2>4. added = n * PageSize /\ added \in Nat
    BY <1>1, <2>1, PageBytes
  <2>5. from + added = bytes
    BY <1>1, <1>2, <2>2, <2>3, <2>4
  <2>6. CASE UNCHANGED <<pageCnt, dataSize, data, undefined, freed>>
    BY <2>6 DEF MInv
  <2>7. CASE /\ data' = Memset(Resized(bytes), from, added)
             /\ pageCnt' = pages /\ dataSize' = NewSize(bytes)
             /\ UNCHANGED <<undefined, freed>>
    <3>1. data' = [i \in 1..bytes |-> IF from < i /\ i <= from + added THEN 0 ELSE
                                       IF i <= Len(data) THEN data[i] ELSE Garbage]
      BY <2>2, <2>7 DEF Memset, Resized
    <3>2. \A i \in 1..bytes : data'[i] \in Byte
      <4>1. ASSUME NEW i \in 1..bytes PROVE data'[i] \in Byte
        <5>1. CASE i <= Len(data)
          <6>1. data[i] \in Byte
            BY <2>2, <2>3, <5>1 DEF MInv
          <6>2. QED
            BY <2>3, <3>1, <5>1, <6>1
        <5>2. CASE ~(i <= Len(data))
          <6>1. from < i /\ i <= from + added
            BY <2>2, <2>3, <2>5, <5>2
          <6>2. QED
            BY <3>1, <6>1, MemoryAssumption
        <5>3. QED
          BY <5>1, <5>2
      <4>2. QED
        BY <4>1
    <3>3. data' \in Seq(Byte) /\ Len(data') = bytes
      BY <2>2, <3>1, <3>2
    <3>4. QED
      BY <2>1, <2>2, <2>7, <3>3 DEF NewSize, MInv
  <2>8. freed = FALSE /\ bytes # 0 /\ ~(from + added > bytes)
    BY <2>2, <2>5 DEF MInv
  <2>9. QED
    BY <1>4, <2>6, <2>7, <2>8 DEF Grow
<1>5. QED
  BY <1>3, <1>4

(* The tests of the bounds keep loads and stores inside the block.          *)
LEMMA MemoryAccess ==
  ASSUME NoWrap, MInv, NEW addr \in 0..(U32Size - 1), NEW off \in Offsets, NEW w \in Widths,
         ~OutOfBounds(addr, off, w)
  PROVE  Inside(addr + off, w)
<1>1. addr \in Nat /\ off \in Nat /\ w \in Nat /\ dataSize \in Nat
  BY MemoryAssumption, LenProperties DEF MInv
<1>2. QED
  BY <1>1 DEF OutOfBounds, Inside, MInv

LEMMA MemoryStore ==
  ASSUME NoWrap, MInv, NEW addr \in 0..(U32Size - 1), NEW off \in Offsets, NEW w \in Widths,
         NEW val \in [1..w -> Byte], Store(addr, off, val)
  PROVE  MInv'
<1>1. w \in Nat /\ addr \in Nat /\ off \in Nat
  BY MemoryAssumption
<1>2. Len(val) = w
  BY <1>1
<1>3. CASE OutOfBounds(addr, off, w)
  BY <1>2, <1>3 DEF Store, MInv
<1>4. CASE ~OutOfBounds(addr, off, w)
  <2>1. Inside(addr + off, w)
    BY <1>4, MemoryAccess
  <2>2. /\ data' = Written(addr + off, val)
        /\ UNCHANGED <<pageCnt, dataSize, freed, undefined>>
    BY <1>2, <1>4, <2>1 DEF Store
  <2>3. Len(data) \in Nat
    BY LenProperties DEF MInv
  <2>4. \A i \in 1..Len(data) : Written(addr + off, val)[i] \in Byte
    BY <1>1, <1>2, <2>3 DEF Written, MInv
  <2>5. data' \in Seq(Byte) /\ Len(data') = Len(data)
    BY <2>2, <2>3, <2>4 DEF Written
  <2>6. QED
    BY <2>2, <2>5 DEF MInv
<1>5. QED
  BY <1>3, <1>4

LEMMA MemoryNext == ASSUME NoWrap, MInv, [Next]_vars PROVE MInv'
<1>1. ASSUME NEW n \in Grows, Grow(n) PROVE MInv'
  BY <1>1, MemoryGrow
<1>2. CASE MemorySize
  BY <1>2 DEF MemorySize, MInv
<1>3. ASSUME NEW addr \in 0..(U32Size - 1), NEW off \in Offsets, NEW w \in Widths,
             Load(addr, off, w)
      PROVE MInv'
  BY <1>3, MemoryAccess DEF Load, MInv
<1>4. ASSUME NEW addr \in 0..(U32Size - 1), NEW off \in Offsets, NEW w \in Widths,
             NEW val \in [1..w -> Byte], Store(addr, off, val)
      PROVE MInv'
  BY <1>4, MemoryStore
<1>5. CASE UNCHANGED vars
  BY <1>5 DEF vars, MInv
<1>6. QED
  BY <1>1, <1>2, <1>3, <1>4, <1>5 DEF Next

(* A memory whose type stays clear of the 32-bit limits keeps its block:    *)
(* no instruction leaves it, and no grow gives it back.                     *)
THEOREM MemorySafe ==
  ASSUME NoWrap
  PROVE  Spec => []BlockSafe
<1>1. Init => MInv
  BY MemoryInit
<1>2. MInv /\ [Next]_vars => MInv'
  BY MemoryNext
<1>3. MInv => BlockSafe
  BY DEF MInv, BlockSafe
<1>4. QED
  BY <1>1, <1>2, <1>3, PTL DEF Spec

-----------------------------------------------------------------------------
(* The sizes and the types need no such care: any argument may be given to  *)
(* memory.grow, and page counts may wrap, as long as the memory does not    *)
(* begin with all of the 32-bit range.                                      *)
SmallerStart == Min < MaxLen

Sized ==
  /\ pageCnt \in 0..(MaxLen - 1)
  /\ dataSize = pageCnt * PageSize
  /\ data \in Seq(Byte) /\ Len(data) = dataSize
  /\ freed \in BOOLEAN /\ undefined \in BOOLEAN

LEMMA BytesOfPages ==
  ASSUME NEW n \in Nat, n < MaxLen
  PROVE  n * PageSize \in Nat /\ n * PageSize < U32Size /\ U32(n * PageSize) = n * PageSize
<1>1. MaxLen \in Nat /\ PageSize \in Nat \ {0} /\ U32Size = PageSize * MaxLen
  BY MemoryAssumption
<1>2. n * PageSize \in Nat /\ n * PageSize < MaxLen * PageSize
  BY <1>1, SmallProduct
<1>3. MaxLen * PageSize = U32Size
  BY <1>1
<1>4. QED
  BY <1>2, <1>3, SmallModulo

LEMMA SizedInit == ASSUME SmallerStart, Init PROVE Sized
<1>1. Min \in Nat /\ Min <= MaxLen - 1 /\ MaxLen \in Nat
  BY MemoryAssumption DEF SmallerStart
<1>2. dataSize = Min * PageSize /\ dataSize \in Nat
  BY <1>1, BytesOfPages DEF Init
<1>3. data \in Seq(Byte) /\ Len(data) = dataSize
  BY <1>2, MemoryAssumption DEF Init, Zeroed
<1>4. pageCnt = Min /\ freed = FALSE /\ undefined = FALSE
  BY DEF Init
<1>5. pageCnt \in 0..(MaxLen - 1) /\ dataSize = pageCnt * PageSize
  BY <1>1, <1>2, <1>4
<1>6. QED
  BY <1>3, <1>4, <1>5 DEF Sized

LEMMA WrapOnce ==
  ASSUME NEW a \in Nat, U32Size <= a, a < 2 * U32Size
  PROVE  U32(a) = a - U32Size
<1>1. U32Size \in Nat \ {0}
  BY MemoryAssumption
<1>2. QED
  BY <1>1 DEF U32

LEMMA ModuloOfSum ==
  ASSUME NEW u \in Nat \ {0}, NEW k \in Nat, NEW r \in Nat, r < u
  PROVE  (u * k + r) % u = r
OBVIOUS

(* A page count that wraps gives back fewer bytes than the old size and the *)
(* added bytes are together: memset would leave the block.                  *)
LEMMA WrappedBytes ==
  ASSUME NEW n \in Nat, NEW c \in Nat, NEW p \in Nat, c < MaxLen, n < U32Size,
         n + c >= U32Size, p = n + c - U32Size
  PROVE  U32(n * PageSize) = U32Size - (c * PageSize - p * PageSize)
<1>1. /\ PageSize \in Nat \ {0} /\ U32Size \in Nat \ {0} /\ p < c
      /\ n = (U32Size - 1) - (c - p - 1) /\ MaxLen \in Nat
  BY MemoryAssumption
<1>2. c * PageSize \in Nat /\ c * PageSize < U32Size
  BY BytesOfPages
<1>3. p * PageSize \in Nat /\ p * PageSize < c * PageSize
  BY <1>1, SmallProduct
<1>4. n * PageSize = U32Size * (PageSize - 1) + (U32Size - (c * PageSize - p * PageSize))
  <2>1. n = U32Size - c + p
    BY <1>1
  <2>2. (U32Size - c + p) * PageSize = U32Size * PageSize - c * PageSize + p * PageSize
    BY <1>1
  <2>3. U32Size * PageSize = U32Size * (PageSize - 1) + U32Size
    BY <1>1
  <2>4. QED
    BY <1>1, <1>2, <1>3, <2>1, <2>2, <2>3
<1>5. U32Size - (c * PageSize - p * PageSize) \in 0..(U32Size - 1)
  BY <1>1, <1>2, <1>3
<1>6. QED
  BY <1>1, <1>4, <1>5, ModuloOfSum DEF U32

LEMMA RefusedGrow ==
  ASSUME Sized, UNCHANGED <<pageCnt, dataSize, data>>, freed' \in BOOLEAN, undefined' \in BOOLEAN
  PROVE  Sized'
BY DEF Sized

(* What the code clears is what realloc added, or the grow is undefined.    *)
LEMMA GrownBytes ==
  ASSUME SmallerStart, Sized, NEW n \in Grows,
         NEW pages, pages = U32(n + pageCnt), pages <= MaxLen,
         NEW bytes, bytes = U32(pages * PageSize), bytes > 0,
         NEW from, from = U32(pageCnt * PageSize),
         NEW added, added = U32(n * PageSize), ~(from + added > bytes)
  PROVE  /\ pages \in 0..(MaxLen - 1) /\ bytes = pages * PageSize /\ bytes \in Nat
         /\ from = Len(data) /\ from \in Nat /\ added \in Nat /\ from + added = bytes
         /\ pages = n + pageCnt /\ added = n * PageSize
<1>1. /\ n \in Nat /\ pageCnt \in Nat /\ pageCnt < MaxLen /\ n < U32Size
      /\ U32Size \in Nat \ {0} /\ MaxLen \in Nat \ {0} /\ PageSize \in Nat \ {0}
      /\ U32Size = PageSize * MaxLen
  BY MemoryAssumption DEF Sized
<1>2. pages \in Nat
  BY <1>1 DEF U32
<1>3. pages # MaxLen
  <2>1. U32Size % U32Size = 0
    BY <1>1
  <2>2. MaxLen * PageSize = U32Size
    BY <1>1
  <2>3. pages = MaxLen => bytes = 0
    BY <2>1, <2>2 DEF U32
  <2>4. QED
    BY <2>3
<1>4. pages < MaxLen
  BY <1>1, <1>2, <1>3
<1>5. bytes = pages * PageSize /\ bytes \in Nat
  BY <1>2, <1>4, BytesOfPages
<1>6. from = pageCnt * PageSize /\ from \in Nat /\ from < U32Size
  BY <1>1, BytesOfPages
<1>7. MaxLen <= U32Size
  <2>1. (PageSize - 1) * MaxLen >= 0
    BY <1>1
  <2>2. (PageSize - 1) * MaxLen = PageSize * MaxLen - MaxLen
    BY <1>1
  <2>3. QED
    BY <1>1, <2>1, <2>2
<1>8. n + pageCnt < U32Size
  <2>1. SUFFICES ASSUME n + pageCnt >= U32Size
                 PROVE  FALSE
    BY <1>1
  <2>2. U32(n + pageCnt) = n + pageCnt - U32Size
    <3>1. n + pageCnt \in Nat /\ U32Size <= n + pageCnt /\ n + pageCnt < 2 * U32Size
      BY <1>1, <1>7, <2>1
    <3>2. QED
      BY <1>1, <3>1, WrapOnce
  <2>3. pages = n + pageCnt - U32Size
    BY <2>2
  <2>4. added = U32Size - (pageCnt * PageSize - pages * PageSize)
    <3>1. /\ n \in Nat /\ pageCnt \in Nat /\ pages \in Nat /\ pageCnt < MaxLen /\ n < U32Size
          /\ n + pageCnt >= U32Size /\ pages = n + pageCnt - U32Size
      BY <1>1, <1>2, <2>1, <2>3
    <3>2. U32(n * PageSize) = U32Size - (pageCnt * PageSize - pages * PageSize)
      BY <3>1, WrappedBytes
    <3>3. QED
      BY <3>2
  <2>5. QED
    BY <1>1, <1>5, <1>6, <2>4
<1>9. pages = n + pageCnt
  BY <1>1, <1>8, SmallModulo
<1>10. n < MaxLen
  BY <1>1, <1>4, <1>9
<1>11. added = n * PageSize /\ added \in Nat
  BY <1>1, <1>10, BytesOfPages
<1>12. (n + pageCnt) * PageSize = n * PageSize + pageCnt * PageSize
  BY <1>1
<1>13. from + added = bytes
  BY <1>5, <1>6, <1>9, <1>11, <1>12
<1>14. from = Len(data)
  BY <1>6 DEF Sized
<1>15. QED
  BY <1>2, <1>1, <1>4, <1>5, <1>6, <1>9, <1>11, <1>13, <1>14, SMTT(30)

(* The grown block is the old one, followed by zeros.                       *)
LEMMA GrownBlock ==
  ASSUME NEW bytes \in Nat, NEW added \in Nat, data \in Seq(Byte), Len(data) + added = bytes
  PROVE  /\ Memset(Resized(bytes), Len(data), added)
              = [i \in 1..bytes |-> IF i <= Len(data) THEN data[i] ELSE 0]
         /\ Memset(Resized(bytes), Len(data), added) \in Seq(Byte)
<1> DEFINE grown == [i \in 1..bytes |-> IF i <= Len(data) THEN data[i] ELSE 0]
<1>1. Len(data) \in Nat /\ DOMAIN data = 1..Len(data)
  BY LenProperties
<1>2. Resized(bytes) = [i \in 1..bytes |-> IF i <= Len(data) THEN data[i] ELSE Garbage]
  BY DEF Resized
<1>3. Len(Resized(bytes)) = bytes
  BY <1>2
<1>4. Memset(Resized(bytes), Len(data), added) = grown
  BY <1>1, <1>2, <1>3 DEF Memset
<1>5. \A i \in 1..bytes : grown[i] \in Byte
  <2>1. ASSUME NEW i \in 1..bytes, i <= Len(data) PROVE data[i] \in Byte
    BY <1>1, <2>1
  <2>2. QED
    BY <2>1, MemoryAssumption
<1>6. grown \in Seq(Byte)
  BY <1>5
<1>7. QED
  BY <1>4, <1>6

LEMMA SizedGrow ==
  ASSUME SmallerStart, Sized, NEW n \in Grows, Grow(n)
  PROVE  Sized'
<1> DEFINE pages == U32(n + pageCnt)
           bytes == U32(pages * PageSize)
           from == U32(pageCnt * PageSize)
           added == U32(n * PageSize)
<1>1. CASE UNCHANGED <<pageCnt, dataSize, data>> /\ freed' \in BOOLEAN /\ undefined' \in BOOLEAN
  BY <1>1, RefusedGrow
<1>2. CASE /\ ~TooLong(pages) /\ bytes > 0 /\ ~(from + added > bytes)
           /\ data' = Memset(Resized(bytes), from, added)
           /\ pageCnt' = pages /\ dataSize' = NewSize(bytes)
           /\ UNCHANGED <<undefined, freed>>
  <2>1. pages \in Nat /\ MaxLen \in Nat
    <3>1. n + pageCnt \in Nat /\ U32Size \in Nat \ {0} /\ MaxLen \in Nat
      BY MemoryAssumption DEF Sized
    <3>2. QED
      BY <3>1 DEF U32
  <2>2. pages <= MaxLen
    BY <1>2, <2>1 DEF TooLong
  <2>3. /\ pages \in 0..(MaxLen - 1) /\ bytes = pages * PageSize /\ bytes \in Nat
        /\ from = Len(data) /\ added \in Nat /\ from + added = bytes
    <3> HIDE DEF pages, bytes, from, added
    <3>1. pages = U32(n + pageCnt) /\ bytes = U32(pages * PageSize)
          /\ from = U32(pageCnt * PageSize) /\ added = U32(n * PageSize)
      BY DEF pages, bytes, from, added
    <3>2. QED
      BY <1>2, <2>2, <3>1, GrownBytes
  <2>4. data \in Seq(Byte) /\ Len(data) + added = bytes
    BY <2>3 DEF Sized
  <2>5. data' = [i \in 1..bytes |-> IF i <= Len(data) THEN data[i] ELSE 0] /\ data' \in Seq(Byte)
    <3> HIDE DEF pages, bytes, from, added
    <3>1. QED
      BY <1>2, <2>3, <2>4, GrownBlock
  <2>6. Len(data') = bytes
    BY <2>3, <2>5
  <2>7. pageCnt' = pages /\ dataSize' = bytes
    BY <1>2 DEF NewSize
  <2>8. QED
    BY <1>2, <2>3, <2>5, <2>6, <2>7 DEF Sized
<1>3. QED
  BY <1>1, <1>2 DEF Grow, Sized

LEMMA SizedStore ==
  ASSUME Sized, NEW addr \in 0..(U32Size - 1), NEW off \in Offsets, NEW w \in Widths,
         NEW val \in [1..w -> Byte], Store(addr, off, val)
  PROVE  Sized'
<1>1. w \in Nat /\ addr \in Nat /\ off \in Nat
  BY MemoryAssumption
<1>2. Len(val) = w
  BY <1>1
<1>3. CASE UNCHANGED data
  BY <1>3 DEF Store, Sized
<1>4. CASE data' = Written(addr + off, val) /\ UNCHANGED undefined
  <2>1. Len(data) \in Nat
    BY LenProperties DEF Sized
  <2>2. \A i \in 1..Len(data) : Written(addr + off, val)[i] \in Byte
    BY <1>1, <1>2, <2>1 DEF Written, Sized
  <2>3. data' \in Seq(Byte) /\ Len(data') = Len(data)
    BY <1>4, <2>1, <2>2 DEF Written
  <2>4. QED
    BY <1>4, <2>3 DEF Store, Sized
<1>5. QED
  BY <1>3, <1>4 DEF Store

LEMMA SizedNext == ASSUME SmallerStart, Sized, [Next]_vars PROVE Sized'
<1>1. ASSUME NEW n \in Grows, Grow(n) PROVE Sized'
  BY <1>1, SizedGrow
<1>2. CASE MemorySize
  BY <1>2 DEF MemorySize, Sized
<1>3. ASSUME NEW addr \in 0..(U32Size - 1), NEW off \in Offsets, NEW w \in Widths,
             Load(addr, off, w)
      PROVE Sized'
  BY <1>3 DEF Load, Sized
<1>4. ASSUME NEW addr \in 0..(U32Size - 1), NEW off \in Offsets, NEW w \in Widths,
             NEW val \in [1..w -> Byte], Store(addr, off, val)
      PROVE Sized'
  BY <1>4, SizedStore
<1>5. CASE UNCHANGED vars
  BY <1>5 DEF vars, Sized
<1>6. QED
  BY <1>1, <1>2, <1>3, <1>4, <1>5 DEF Next

(* memory.size, memory.grow and the bounds tests always use the size the    *)
(* block has, whatever counts memory.grow is given and however they wrap.   *)
THEOREM SizesTrue ==
  ASSUME SmallerStart
  PROVE  Spec => []SizesAgree
<1>1. Init => Sized
  BY SizedInit
<1>2. Sized /\ [Next]_vars => Sized'
  BY SizedNext
<1>3. Sized => SizesAgree
  BY DEF Sized, SizesAgree
<1>4. QED
  BY <1>1, <1>2, <1>3, PTL DEF Spec

(* Every variable keeps its type; in particular every byte of the block has *)
(* been written: realloc adds none that memset does not clear.              *)
THEOREM MemoryTyped ==
  ASSUME SmallerStart
  PROVE  Spec => []MemoryTypeInv
<1>1. Init => Sized
  BY SizedInit
<1>2. Sized /\ [Next]_vars => Sized'
  BY SizedNext
<1>3. Sized => MemoryTypeInv
  <2>1. SUFFICES ASSUME Sized PROVE MemoryTypeInv
    OBVIOUS
  <2>2. pageCnt \in Nat /\ pageCnt < MaxLen /\ MaxLen \in Nat /\ U32Size \in Nat
    BY <2>1, MemoryAssumption DEF Sized
  <2>3. dataSize \in Nat /\ dataSize < U32Size
    BY <2>1, <2>2, BytesOfPages DEF Sized
  <2>4. QED
    BY <2>1, <2>2, <2>3 DEF Sized, MemoryTypeInv
<1>4. QED
  BY <1>1, <1>2, <1>3, PTL DEF Spec

(* No argument of memory.grow takes a memory past a maximum it declares,    *)
(* unless that maximum is 0, which the code reads as none.                  *)
THEOREM MaximumKept ==
  ASSUME HasMax => DeclMax > 0 /\ Min <= DeclMax
  PROVE  Spec => []MaxKept
<1> DEFINE Kept == pageCnt \in Nat /\ MaxKept
<1>1. Init => Kept
  BY MemoryAssumption DEF Init, MaxKept
<1>2. Kept /\ [Next]_vars => Kept'
  <2>1. ASSUME Kept, NEW n \in Grows, Grow(n) PROVE Kept'
    <3>1. /\ HasMax => DeclMax \in Nat
          /\ n + pageCnt \in Nat /\ U32Size \in Nat \ {0}
      BY <2>1, MemoryAssumption
    <3>2. U32(n + pageCnt) \in Nat
      BY <3>1 DEF U32
    <3>3. ~TooLong(U32(n + pageCnt)) /\ HasMax => U32(n + pageCnt) <= DeclMax
      BY <3>1, <3>2 DEF TooLong, max
    <3>4. QED
      BY <2>1, <3>2, <3>3 DEF Grow, MaxKept
  <2>2. QED
    BY <2>1 DEF Next, MemorySize, Load, Store, vars, MaxKept
<1>3. QED
  BY <1>1, <1>2, PTL DEF Spec

-----------------------------------------------------------------------------
(* Where a grow cannot give the block back, -1 means that nothing changed.  *)
THEOREM RefusalsKeep ==
  ASSUME NoWrap
  PROVE  Spec => RefusedGrowKeeps
<1> DEFINE Keeps == \A n \in Grows :
             Grow(n) /\ ret' = Refused => UNCHANGED <<pageCnt, dataSize, data, freed>>
<1>1. Init => MInv
  BY MemoryInit
<1>2. MInv /\ [Next]_vars => MInv'
  BY MemoryNext
<1>3. MInv => Keeps
  <2>1. SUFFICES ASSUME MInv, NEW n \in Grows, Grow(n), ret' = Refused
                 PROVE  UNCHANGED <<pageCnt, dataSize, data, freed>>
    OBVIOUS
  <2>2. ret' # Reply("grow", <<pageCnt>>)
    <3>1. pageCnt # -1 /\ <<pageCnt>>[1] = pageCnt /\ <<-1>>[1] = -1
      BY <2>1 DEF MInv
    <3>2. <<pageCnt>> # <<-1>>
      BY <3>1
    <3>3. QED
      BY <2>1, <3>2 DEF Refused, Reply
  <2>3. freed = FALSE /\ freed' = freed
    <3>1. MInv'
      BY <2>1, MemoryGrow
    <3>2. QED
      BY <2>1, <3>1 DEF MInv
  <2>4. QED
    BY <2>1, <2>2, <2>3 DEF Grow
<1>4. QED
  <2>1. MInv /\ [Next]_vars => [Keeps]_vars
    BY <1>3
  <2>2. QED
    BY <1>1, <1>2, <2>1, PTL DEF Spec, RefusedGrowKeeps

-----------------------------------------------------------------------------
(* The memory implements ByteMemory.  Addresses from half the range on are  *)
(* negative to the code, so the memory must not reach them.                 *)
HalfRange == DeclMax * PageSize <= U32Size \div 2

LEMMA PagesOfBytes ==
  ASSUME NEW n \in Nat, NEW p \in Nat \ {0}
  PROVE  (n * p) \div p = n
OBVIOUS

LEMMA AbstractPages ==
  ASSUME MInv, NoWrap
  PROVE  B!Pages = pageCnt
<1>1. pageCnt \in Nat /\ PageSize \in Nat \ {0} /\ Len(data) = pageCnt * PageSize
  BY MemoryAssumption DEF MInv, NoWrap
<1>2. QED
  BY <1>1, PagesOfBytes DEF B!Pages

LEMMA AbstractInit ==
  ASSUME NoWrap, Init
  PROVE  B!Init
<1>1. Min \in Nat /\ Min <= DeclMax
  BY MemoryAssumption DEF NoWrap
<1>2. U32(Min * PageSize) = Min * PageSize
  BY <1>1, PageBytes
<1>3. QED
  BY <1>2 DEF Init, B!Init, Zeroed, B!Zeros, Done, Reply, B!Reply

LEMMA ZerosAppended ==
  ASSUME NEW S, NEW s \in Seq(S), NEW z \in Seq(S), NEW size,
         \A i \in 1..Len(z) : z[i] = 0, Len(s) + Len(z) = size
  PROVE  s \o z = [i \in 1..size |-> IF i <= Len(s) THEN s[i] ELSE 0]
<1> DEFINE t == [i \in 1..size |-> IF i <= Len(s) THEN s[i] ELSE 0]
<1>1. Len(s) \in Nat /\ Len(z) \in Nat /\ size \in Nat
  BY LenProperties
<1>2. /\ s \o z \in Seq(S) /\ Len(s \o z) = size
      /\ \A i \in 1..size : (s \o z)[i] = IF i <= Len(s) THEN s[i] ELSE z[i - Len(s)]
  BY ConcatProperties
<1>3. \A i \in 1..size : ~(i <= Len(s)) => i - Len(s) \in 1..Len(z)
  BY <1>1
<1>4. \A i \in 1..size : (s \o z)[i] = t[i]
  BY <1>2, <1>3
<1>5. DOMAIN (s \o z) = 1..size
  BY <1>2, LenProperties
<1>6. PICK u \in Seq(S) : u = s \o z
  BY <1>2
<1>7. u = [i \in 1..size |-> u[i]]
  <2>1. u \in [1..Len(u) -> S] /\ Len(u) = size
    BY <1>2, <1>6, LenProperties
  <2>2. QED
    BY <2>1
<1>8. u = t
  BY <1>4, <1>6, <1>7
<1>9. QED
  BY <1>6, <1>8

(* A grow that is not refused appends zeros, below the maximum.             *)
LEMMA AbstractGrow ==
  ASSUME NoWrap, MInv, NEW n \in Grows, Grow(n)
  PROVE  B!Grow(n)
<1>1. CASE ret' = Refused /\ UNCHANGED data
  BY <1>1 DEF B!Grow, Refused, Reply, B!Reply
<1>2. CASE /\ ~TooLong(U32(n + pageCnt)) /\ ret' = Reply("grow", <<pageCnt>>)
           /\ data' = Memset(Resized(U32(U32(n + pageCnt) * PageSize)), U32(pageCnt * PageSize),
                             U32(n * PageSize))
  <2>1. /\ n \in Nat /\ pageCnt \in Nat /\ DeclMax \in Nat /\ pageCnt <= DeclMax
        /\ n + DeclMax < U32Size /\ PageSize \in Nat \ {0} /\ U32Size \in Nat
        /\ data \in Seq(Byte)
    BY MemoryAssumption DEF NoWrap, MInv
  <2>2. U32(n + pageCnt) = n + pageCnt
    BY <2>1, SmallModulo
  <2>3. n + pageCnt <= DeclMax
    BY <1>2, <2>1, <2>2 DEF TooLong, max, NoWrap
  <2>4. /\ U32((n + pageCnt) * PageSize) = (n + pageCnt) * PageSize
        /\ (n + pageCnt) * PageSize \in Nat
    <3>1. n + pageCnt \in Nat
      BY <2>1
    <3>2. QED
      BY <2>3, <3>1, PageBytes
  <2>5. U32(pageCnt * PageSize) = Len(data) /\ Len(data) \in Nat
    BY <2>1, PageBytes DEF MInv
  <2>6. U32(n * PageSize) = n * PageSize /\ n * PageSize \in Nat
    BY <2>1, <2>3, PageBytes
  <2>7. Len(data) + n * PageSize = (n + pageCnt) * PageSize
    BY <2>1 DEF MInv
  <2> DEFINE added == n * PageSize
             size == (n + pageCnt) * PageSize
  <2>8. data' = Memset(Resized(size), Len(data), added)
    BY <1>2, <2>2, <2>4, <2>5, <2>6
  <2>9. data' = data \o B!Zeros(added)
    <3>1. added \in Nat /\ size \in Nat /\ Len(data) + added = size
      BY <2>4, <2>6, <2>7
    <3> HIDE DEF added, size
    <3>2. data' = [i \in 1..size |-> IF i <= Len(data) THEN data[i] ELSE 0]
      BY <2>1, <2>8, <3>1, GrownBlock
    <3>3. Len(B!Zeros(added)) = added /\ \A i \in 1..added : B!Zeros(added)[i] = 0
      BY <3>1 DEF B!Zeros
    <3>4. B!Zeros(added) \in Seq(Byte)
      BY <3>1, MemoryAssumption DEF B!Zeros
    <3>5. PICK z \in Seq(Byte) : z = B!Zeros(added)
      BY <3>4
    <3>6. data \o z = [i \in 1..size |-> IF i <= Len(data) THEN data[i] ELSE 0]
      BY <2>1, <3>1, <3>3, <3>5, ZerosAppended
    <3>7. QED
      BY <3>2, <3>5, <3>6
  <2>10. B!Pages = pageCnt
    BY AbstractPages
  <2>11. B!Pages + n <= (IF HasMax THEN DeclMax ELSE MaxLen)
    BY <2>1, <2>3, <2>10 DEF NoWrap
  <2>12. QED
    BY <1>2, <2>9, <2>10, <2>11 DEF B!Grow, Reply, B!Reply
<1>3. undefined' = undefined /\ undefined = FALSE
  BY MemoryGrow DEF MInv
<1>4. QED
  BY <1>1, <1>2, <1>3 DEF Grow, MInv

(* The two tests agree below half the range.                                *)
LEMMA SameBounds ==
  ASSUME NoWrap, HalfRange, MInv, NEW addr \in 0..(U32Size - 1), NEW off \in Offsets,
         NEW w \in Widths
  PROVE  OutOfBounds(addr, off, w) <=> ~(addr + off + w <= Len(data))
<1>1. addr \in Nat /\ off \in Nat /\ w \in Nat /\ U32Size \in Nat /\ w > 0
  BY MemoryAssumption
<1>2. dataSize \in Nat /\ Len(data) = dataSize
  BY LenProperties DEF MInv
<1>3. dataSize <= DeclMax * PageSize
  <2>1. pageCnt \in Nat /\ DeclMax \in Nat /\ PageSize \in Nat \ {0} /\ pageCnt <= DeclMax
    BY MemoryAssumption DEF MInv, NoWrap
  <2>2. pageCnt < DeclMax => pageCnt * PageSize < DeclMax * PageSize
    BY <2>1, SmallProduct
  <2>3. pageCnt * PageSize \in Nat /\ DeclMax * PageSize \in Nat
    BY <2>1
  <2>4. pageCnt * PageSize <= DeclMax * PageSize
    BY <2>1, <2>2, <2>3
  <2>5. QED
    BY <2>4 DEF MInv
<1>4. DeclMax * PageSize \in Nat /\ U32Size \div 2 \in Nat
  BY <1>1, MemoryAssumption
<1>5. dataSize <= U32Size \div 2
  BY <1>2, <1>3, <1>4 DEF HalfRange
<1>6. Negative(addr) => addr + off + w > dataSize
  BY <1>1, <1>2, <1>4, <1>5 DEF Negative
<1>7. QED
  BY <1>1, <1>2, <1>6 DEF OutOfBounds

LEMMA AbstractLoad ==
  ASSUME NoWrap, HalfRange, MInv, NEW addr \in 0..(U32Size - 1), NEW off \in Offsets,
         NEW w \in Widths, Load(addr, off, w)
  PROVE  B!Load(addr + off, w)
<1>1. OutOfBounds(addr, off, w) <=> ~(addr + off + w <= Len(data))
  BY SameBounds
<1>2. CASE OutOfBounds(addr, off, w)
  BY <1>1, <1>2 DEF Load, B!Load, Trap, Reply, B!Trap, B!Reply
<1>3. CASE ~OutOfBounds(addr, off, w)
  BY <1>1, <1>3, MemoryAccess DEF Load, B!Load, Reply, B!Reply
<1>4. QED
  BY <1>2, <1>3

LEMMA AbstractStore ==
  ASSUME NoWrap, HalfRange, MInv, NEW addr \in 0..(U32Size - 1), NEW off \in Offsets,
         NEW w \in Widths, NEW val \in [1..w -> Byte], Store(addr, off, val)
  PROVE  B!Store(addr + off, val)
<1>1. w \in Nat /\ addr \in Nat /\ off \in Nat /\ Len(data) \in Nat
  BY MemoryAssumption, LenProperties DEF MInv
<1>2. Len(val) = w
  BY <1>1
<1>3. OutOfBounds(addr, off, w) <=> ~(addr + off + w <= Len(data))
  BY SameBounds
<1>4. CASE OutOfBounds(addr, off, w)
  BY <1>2, <1>3, <1>4 DEF Store, B!Store, Trap, Reply, B!Trap, B!Reply
<1>5. CASE ~OutOfBounds(addr, off, w)
  <2>1. Inside(addr + off, w)
    BY <1>5, MemoryAccess
  <2>2. data' = Written(addr + off, val) /\ ret' = Done
    BY <1>2, <1>5, <2>1 DEF Store
  <2>3. Written(addr + off, val)
          = [i \in 1..Len(data) |-> IF i - (addr + off) \in 1..Len(val)
                                    THEN val[i - (addr + off)] ELSE data[i]]
    BY <1>1, <1>2 DEF Written
  <2>4. QED
    BY <1>2, <1>3, <1>5, <2>2, <2>3 DEF B!Store, Done, Reply, B!Reply
<1>6. QED
  BY <1>4, <1>5

LEMMA AbstractNext ==
  ASSUME NoWrap, HalfRange, MInv, [Next]_vars
  PROVE  [B!Next]_(B!vars)
<1>1. ASSUME NEW n \in Grows, Grow(n) PROVE B!Next
  BY <1>1, AbstractGrow DEF B!Next
<1>2. CASE MemorySize
  BY <1>2, AbstractPages DEF MemorySize, B!Next, B!Size, Reply, B!Reply
<1>3. ASSUME NEW addr \in 0..(U32Size - 1), NEW off \in Offsets, NEW w \in Widths,
             Load(addr, off, w)
      PROVE B!Next
  BY <1>3, AbstractLoad DEF B!Next
<1>4. ASSUME NEW addr \in 0..(U32Size - 1), NEW off \in Offsets, NEW w \in Widths,
             NEW val \in [1..w -> Byte], Store(addr, off, val)
      PROVE B!Next
  BY <1>4, AbstractStore DEF B!Next
<1>5. CASE UNCHANGED vars
  BY <1>5 DEF vars, B!vars
<1>6. QED
  BY <1>1, <1>2, <1>3, <1>4, <1>5 DEF Next

(* A memory that stays in half the range, with a maximum, is a growing      *)
(* array of bytes: every instruction does and answers what ByteMemory does. *)
THEOREM MemoryImplements ==
  ASSUME NoWrap, HalfRange
  PROVE  Spec => MemoryRefinement
<1>1. Init => MInv /\ B!Init
  BY MemoryInit, AbstractInit
<1>2. MInv /\ [Next]_vars => MInv'
  BY MemoryNext
<1>3. MInv /\ [Next]_vars => [B!Next]_(B!vars)
  BY AbstractNext
<1>4. QED
  BY <1>1, <1>2, <1>3, PTL DEF Spec, B!Spec, MemoryRefinement
=============================================================================
