----------------------------- MODULE LinearMemory -----------------------------
(****************************************************************************)
(* A linear memory of TWA (MemoryInstance in store.h and the memory         *)
(* instructions in operation.h).  The sizes are 32-bit unsigned numbers     *)
(* that wrap around, addresses come off the value stack as signed ones, and *)
(* the bytes live in a block of the C heap that calloc and realloc resize.  *)
(* The 32-bit range and the page size are constants, so that a small memory *)
(* meets the same boundaries.                                               *)
(****************************************************************************)
EXTENDS Integers, Sequences

CONSTANTS
  U32Size,    \* 2^32, the number of values of a U32
  PageSize,   \* WasmPageSize
  MaxLen,     \* TWA_MAX_MEMORY_LEN, in pages
  Min,        \* the minimum the memory type declares, in pages
  HasMax,     \* it declares a maximum,
  DeclMax,    \* which is this one
  Byte,       \* byte values
  Garbage,    \* what a byte is that nobody has written
  Grows,      \* arguments of memory.grow
  Offsets,    \* the offsets in load and store instructions
  Widths      \* the number of bytes they access

ASSUME MemoryAssumption ==
  /\ PageSize \in Nat \ {0} /\ MaxLen \in Nat \ {0}
  /\ U32Size = PageSize * MaxLen
  /\ Min \in 0..MaxLen /\ HasMax \in BOOLEAN /\ DeclMax \in 0..MaxLen
  /\ 0 \in Byte /\ Garbage \notin Byte
  /\ Grows \subseteq 0..(U32Size - 1) /\ Offsets \subseteq 0..(U32Size - 1)
  /\ Widths \subseteq Nat \ {0}

VARIABLES
  pageCnt, dataSize,  \* the fields of the same names
  data,      \* the heap block at MemoryInstance::data
  freed,     \* that block was given back to the heap
  undefined, \* the block was used outside its bounds or after its end:
             \* what happens from then on is not modelled
  ret        \* what the last instruction gave, a Reply

vars == <<pageCnt, dataSize, data, freed, undefined, ret>>

Reply(kind, val) == [kind |-> kind, val |-> val]
Refused == Reply("grow", <<-1>>)
Done == Reply("store", <<>>)
Trap == Reply("trap", <<>>)

U32(n) == n % U32Size

(* Limit::max as readLimit stores it: 0 stands for "no maximum".            *)
max == IF HasMax THEN DeclMax ELSE 0

Zeroed(n) == [i \in 1..n |-> 0]

(* MemoryInstance(MemType &), with the minimum of the type.                 *)
Init ==
  /\ pageCnt = Min
  /\ dataSize = U32(Min * PageSize)
  /\ data = Zeroed(dataSize)
  /\ freed = FALSE /\ undefined = FALSE
  /\ ret = Done

(* The two tests of grow, on a page count that may have wrapped.  This and  *)
(* some other operators follow a wrong variant (TooLongForAll): a mistake *)
(* that the properties at the end notice.                                   *)
TooLongForAll(pages) == pages > MaxLen
TooLong(pages) == pages > MaxLen \/ (max > 0 /\ pages > max)

(* realloc keeps what fits; what it adds has no defined content.            *)
Resized(n) == [i \in 1..n |-> IF i <= Len(data) THEN data[i] ELSE Garbage]

(* memset(data + from, 0, n) on the block.                                  *)
MemsetShort(block, from, n) == [i \in 1..Len(block) |->
                                 IF from < i /\ i < from + n THEN 0 ELSE block[i]]
MemsetAll(block, from, n) == [i \in 1..Len(block) |-> IF i <= n THEN 0 ELSE block[i]]
Memset(block, from, n) == [i \in 1..Len(block) |->
                            IF from < i /\ i <= from + n THEN 0 ELSE block[i]]

KeepsOldSize(bytes) == dataSize
NewSize(bytes) == bytes

(* memory.grow: -1, or the page count before.  realloc to no bytes frees    *)
(* the block and returns null, like a realloc that fails - but that one     *)
(* keeps the block.                                                         *)
Grow(n) ==
  LET pages == U32(n + pageCnt)
      bytes == U32(pages * PageSize)
      from == U32(pageCnt * PageSize)
      added == U32(n * PageSize)
  IN /\ ~undefined
     /\ \/ /\ TooLong(pages)
           /\ ret' = Refused
           /\ UNCHANGED <<pageCnt, dataSize, data, freed, undefined>>
        \/ /\ ~TooLong(pages) /\ freed
           /\ undefined' = TRUE
           /\ UNCHANGED <<pageCnt, dataSize, data, freed, ret>>
        \/ /\ ~TooLong(pages) /\ ~freed
           /\ ret' = Refused
           /\ IF bytes = 0 THEN freed' = TRUE ELSE UNCHANGED freed
           /\ UNCHANGED <<pageCnt, dataSize, data, undefined>>
        \/ /\ ~TooLong(pages) /\ ~freed /\ bytes > 0
           /\ IF from + added > bytes
              THEN undefined' = TRUE /\ UNCHANGED <<pageCnt, dataSize, data, ret>>
              ELSE /\ data' = Memset(Resized(bytes), from, added)
                   /\ pageCnt' = pages /\ dataSize' = NewSize(bytes)
                   /\ ret' = Reply("grow", <<pageCnt>>)
                   /\ UNCHANGED undefined
           /\ UNCHANGED freed

MemorySize ==
  /\ ~undefined /\ ret' = Reply("size", <<pageCnt>>)
  /\ UNCHANGED <<pageCnt, dataSize, data, freed, undefined>>

(* op_load_impl and op_store_impl: offset.i32 < 0 is the upper half of the  *)
(* 32-bit range; the sum with the offset of the instruction has 64 bits.    *)
Negative(addr) == addr >= U32Size \div 2
OutOfBoundsStart(addr, off, w) == Negative(addr) \/ addr + off >= dataSize
OutOfBounds(addr, off, w) == Negative(addr) \/ addr + off + w > dataSize

Inside(ea, w) == ~freed /\ ea + w <= Len(data)

Load(addr, off, w) ==
  /\ ~undefined
  /\ IF OutOfBounds(addr, off, w) THEN ret' = Trap /\ UNCHANGED undefined
     ELSE IF Inside(addr + off, w)
     THEN /\ ret' = Reply("load", SubSeq(data, addr + off + 1, addr + off + w))
          /\ UNCHANGED undefined
     ELSE undefined' = TRUE /\ UNCHANGED ret
  /\ UNCHANGED <<pageCnt, dataSize, data, freed>>

Written(ea, val) == [i \in 1..Len(data) |->
                      IF ea < i /\ i <= ea + Len(val) THEN val[i - ea] ELSE data[i]]

Store(addr, off, val) ==
  LET w == Len(val)
  IN /\ ~undefined
     /\ IF OutOfBounds(addr, off, w) THEN ret' = Trap /\ UNCHANGED <<data, undefined>>
        ELSE IF Inside(addr + off, w)
        THEN data' = Written(addr + off, val) /\ ret' = Done /\ UNCHANGED undefined
        ELSE undefined' = TRUE /\ UNCHANGED <<data, ret>>
     /\ UNCHANGED <<pageCnt, dataSize, freed>>

Next ==
  \/ \E n \in Grows : Grow(n)
  \/ MemorySize
  \/ \E addr \in 0..(U32Size - 1), off \in Offsets, w \in Widths :
       \/ Load(addr, off, w)
       \/ \E val \in [1..w -> Byte] : Store(addr, off, val)

Spec == Init /\ [][Next]_vars

-----------------------------------------------------------------------------
(* Properties.                                                              *)

(* Every variable has its type; no byte of a live block is uninitialised.   *)
MemoryTypeInv ==
  /\ pageCnt \in 0..MaxLen /\ dataSize \in 0..(U32Size - 1)
  /\ data \in Seq(Byte)
  /\ freed \in BOOLEAN /\ undefined \in BOOLEAN

(* The two sizes that memory.size, memory.grow and the bounds tests use     *)
(* agree with each other and with the block they describe.                  *)
SizesAgree == dataSize = pageCnt * PageSize /\ Len(data) = dataSize

(* The block is never used outside its bounds, and never lost.              *)
BlockSafe == ~undefined /\ ~freed

(* A memory never grows past the maximum its type declares.                 *)
MaxKept == HasMax => pageCnt <= DeclMax

(* A memory.grow that answers -1 has left the memory as it was.             *)
RefusedGrowKeeps ==
  [][ \A n \in Grows :
        Grow(n) /\ ret' = Refused => UNCHANGED <<pageCnt, dataSize, data, freed>> ]_vars

(* The promise: a growing array of bytes.                                   *)
B == INSTANCE ByteMemory WITH
       Limit <- IF HasMax THEN DeclMax ELSE MaxLen, Addrs <- 0..(U32Size - 1),
       bytes <- data
MemoryRefinement == B!Spec
=============================================================================
