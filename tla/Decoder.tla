------------------------------- MODULE Decoder -------------------------------
(***************************************************************************)
(* Decoder::decodeStream (decoder.cpp): a file is read from its beginning  *)
(* to its end and becomes a Module.  The file is a sequence of tokens, one *)
(* for each readElement, readLeb and readName of the code (how LEB128      *)
(* numbers are read is in Numbers).  Sizes of sections count tokens.       *)
(*                                                                         *)
(* Nothing in the decoder looks at the state of the stream, except for the *)
(* eof test before a section: a read that fails leaves the uninitialised   *)
(* variable it was to fill, and reading goes on.                           *)
(***************************************************************************)
EXTENDS Integers, Sequences, SequencesExt

CONSTANTS
  Files,     \* the files there are
  Garbage,   \* what may be in a variable that a failed read has not filled
  Changing,  \* the files of which each step may find other garbage
  NameWord,  \* the token of the custom section's name "name"
  MaxParams, \* TWA_MAX_PARAM_LEN, room in FuncSignature::types
  MaxList    \* bound: longer lists of instructions or items have used up the memory

WasmMagic == 1836278016
WasmTrue == 1
WasmZeroByte == 0
WasmValueTypeFunc == 96
ValueTypeVoid == 64

SectionCustom == 0
SectionType == 1
SectionImport == 2
SectionFunction == 3
SectionTable == 4
SectionMemory == 5
SectionGlobal == 6
SectionExport == 7
SectionStart == 8
SectionElement == 9
SectionCode == 10
SectionData == 11
SectionLength == 12

Op_block == 2
Op_if == 4
Op_else == 5
Op_end == 11
Op_br == 12
Op_br_if == 13
Op_br_table == 14
Op_return == 15
Op_call == 16
Op_call_indirect == 17
Op_select == 27
Op_set_global == 36
Op_i64_store32 == 62
Op_memory_grow == 64
Op_f64_const == 68
Op_f64_reinterpret_i64 == 191

ASSUME DecoderAssumption ==
  /\ \A f \in Files : f \in Seq(Nat) /\ \A p \in 2..Len(f) : f[p] \in 0..255
  /\ Garbage \subseteq 0..255 /\ Changing \subseteq Files
  /\ MaxParams \in Nat /\ MaxList \in Nat \ {0}

VARIABLES
  file,             \* the file that is read
  junk,             \* the garbage that failing reads find, at even and odd positions
  pos,              \* the position of the stream
  failbit, eofbit,  \* its state
  status,           \* "header", "reading", and at last "ok", "failed" (what decodeStream
                    \* returns), "undefined" or "exhausted" (no memory left)
  version, name,    \* Module::version, Module::name
  built,            \* the other members of Module, by section
  section,          \* the section that is being read
  item,             \* of it, what has been read of an item before its expression
  exprs             \* the nested calls of readExpr, the innermost last

stream == <<file, junk, pos, failbit, eofbit>>
module == <<version, name, built>>
vars == <<stream, status, module, section, item, exprs>>

-----------------------------------------------------------------------------
(* Reading.  A reader returns what it has read and where the next begins.  *)

Byte(p) == IF p < Len(file) THEN file[p + 1] ELSE junk[p % 2]
Read(v, p) == [val |-> v, pos |-> p]

ReadVec(p) == Read([i \in 1..Byte(p) |-> Byte(p + i)], p + 1 + Byte(p))
BoolAt(p) == IF Byte(p) = WasmTrue THEN 1 ELSE 0

ReadFuncType(p) ==
  LET params == ReadVec(p + 1)
      results == ReadVec(params.pos)
  IN Read([params |-> params.val,
           ret |-> IF results.val = <<>> THEN ValueTypeVoid ELSE results.val[1]],
          results.pos)
ReadLimit(p) == IF BoolAt(p) = 1 THEN Read(<<Byte(p + 1), Byte(p + 2)>>, p + 3)
                                 ELSE Read(<<Byte(p + 1), 0>>, p + 2)
ReadTableType(p) ==
  LET limit == ReadLimit(p + 1) IN Read(<<Byte(p)>> \o limit.val, limit.pos)
ReadGlobalType(p) == Read(<<Byte(p), BoolAt(p + 1)>>, p + 2)
ReadDesc(type, p) ==
  CASE type = 0 -> Read(<<Byte(p)>>, p + 1)
    [] type = 1 -> ReadTableType(p)
    [] type = 2 -> ReadLimit(p)
    [] type = 3 -> ReadGlobalType(p)
    [] OTHER -> Read(<<>>, p)
ReadImport(p) ==
  LET desc == ReadDesc(Byte(p + 2), p + 3)
  IN Read([module |-> Byte(p), name |-> Byte(p + 1), type |-> Byte(p + 2),
           desc |-> desc.val], desc.pos)
ReadExport(p) == Read([name |-> Byte(p), type |-> Byte(p + 1), addr |-> Byte(p + 2)], p + 3)
(* The code of a function comes in a later section than its type.          *)
NotRead == -1
Func(typeIdx, localCnt, codes) == [typeIdx |-> typeIdx, localCnt |-> localCnt, codes |-> codes]
ReadFunction(p) == Read(Func(Byte(p), NotRead, <<>>), p + 1)
(* The size of the body is read and not used; locals are added up.         *)
LocalCount(p) == FoldLeft(+, 0, [i \in 1..Byte(p + 1) |-> Byte(p + 2 * i)])
ReadLocals(p) == Read(<<LocalCount(p)>>, p + 2 + 2 * Byte(p + 1))

(* Items that have no expression, and the part before it of those that do. *)
ReadPlain(id, p) ==
  CASE id = SectionType -> ReadFuncType(p)
    [] id = SectionImport -> ReadImport(p)
    [] id = SectionFunction -> ReadFunction(p)
    [] id = SectionTable -> ReadTableType(p)
    [] id = SectionMemory -> ReadLimit(p)
    [] id = SectionExport -> ReadExport(p)
ReadHead(id, p) ==
  CASE id = SectionGlobal -> ReadGlobalType(p)
    [] id = SectionCode -> ReadLocals(p)
    [] id \in {SectionElement, SectionData} -> Read(<<Byte(p)>>, p + 1)

(* A read that fails leaves its variable as it is, and each has one of its *)
(* own.                                                                    *)
NextJunk(failed) ==
  junk' \in IF failed /\ file \in Changing THEN [0..1 -> Garbage] ELSE {junk}

(* std::istream: reading to before p, and seeking.                         *)
Consume(p) ==
  /\ UNCHANGED file /\ NextJunk(failbit \/ p > Len(file))
  /\ pos' = IF p > Len(file) THEN Len(file) ELSE p
  /\ failbit' = (failbit \/ p > Len(file))
  /\ eofbit' = (eofbit \/ (~failbit /\ p > Len(file)))
Seek(p) ==
  /\ pos' = IF failbit THEN pos ELSE p
  /\ eofbit' = FALSE
  /\ UNCHANGED <<file, junk, failbit>>

-----------------------------------------------------------------------------
(* Some operators here follow wrong variants: mistakes that the properties *)
(* are known to notice.                                                    *)
SectionFromOne(id, size) == [id |-> id, size |-> size, next |-> 1]
Section(id, size) == [id |-> id, size |-> size, next |-> 0]
NoSection == Section(SectionLength, 0)

Init ==
  /\ file \in Files /\ junk \in [0..1 -> Garbage]
  /\ pos = 0 /\ failbit = FALSE /\ eofbit = FALSE
  /\ status = "header" /\ version = 0 /\ name = 0
  /\ built = [id \in SectionType..SectionData |-> <<>>]
  /\ section = NoSection /\ item = <<>> /\ exprs = <<>>

End(result) == status' = result /\ UNCHANGED <<module, section, item, exprs>>

(* decodeStream: the result of readVersion is overwritten.                 *)
ReadHeader ==
  /\ status = "header"
  /\ IF Byte(0) = WasmMagic
     THEN status' = "reading" /\ version' = Byte(1) /\ Consume(2)
     ELSE status' = "failed" /\ Consume(1) /\ UNCHANGED version
  /\ UNCHANGED <<name, built, section, item, exprs>>

(* readSection.                                                            *)
ListsFull == \E id \in DOMAIN built : Len(built[id]) > MaxList
BetweenSections == status = "reading" /\ section = NoSection /\ ~ListsFull
AtEnd == eofbit \/ (~failbit /\ pos >= Len(file))

EndOfFile == BetweenSections /\ AtEnd /\ End("ok") /\ Consume(pos + 1)

(* A section has an id and a size; most continue with a count.             *)
SectionIs(id) == BetweenSections /\ ~AtEnd /\ Byte(pos) = id
Count == Byte(pos + 2)

InvalidSection ==
  /\ \E id \in SectionLength..255 : SectionIs(id)
  /\ End("failed") /\ Consume(pos + 1)

TooLongLate(n) == n > Len(built[SectionFunction]) + 1
TooLong(n) == n > Len(built[SectionFunction])
MoreCode ==
  /\ SectionIs(SectionCode) /\ TooLong(Count)
  /\ End("failed") /\ Consume(pos + 3)

BeginSection ==
  /\ \E id \in SectionType..SectionData \ {SectionStart} :
       /\ SectionIs(id) /\ ~(id = SectionCode /\ TooLong(Count))
       /\ section' = Section(id, Count)
  /\ Consume(pos + 3)
  /\ UNCHANGED <<status, module, item, exprs>>

StartSection ==
  /\ SectionIs(SectionStart)
  /\ built' = [built EXCEPT ![SectionStart] = <<Byte(pos + 2)>>]
  /\ Consume(pos + 3)
  /\ UNCHANGED <<status, version, name, section, item, exprs>>

(* readSection_custom: from the name on it is as long as its size says.    *)
CustomEnd(p) == p + 2 + Byte(p + 1)
SkipCustom ==
  /\ SectionIs(SectionCustom) /\ Byte(pos + 2) # NameWord
  /\ LET failed == failbit \/ pos + 3 > Len(file)
     IN /\ failbit' = failed /\ eofbit' = FALSE /\ NextJunk(failed)
        /\ pos' = IF failed THEN Len(file) ELSE CustomEnd(pos)
  /\ UNCHANGED <<file, status, module, section, item, exprs>>

NameSection ==
  /\ SectionIs(SectionCustom) /\ Byte(pos + 2) = NameWord
  /\ section' = Section(SectionCustom, CustomEnd(pos))
  /\ Consume(pos + 3)
  /\ UNCHANGED <<status, module, item, exprs>>

(* Its subsections: tellg is -1, so less than any end, once a read failed. *)
InNames == status = "reading" /\ section.id = SectionCustom
MoreNamesLate == failbit \/ pos <= section.size
MoreNames == failbit \/ pos < section.size
ReadSubsection ==
  /\ InNames /\ item = <<>> /\ MoreNames
  /\ item' = <<Byte(pos), Byte(pos + 1)>>
  /\ Consume(pos + 2)
  /\ UNCHANGED <<status, module, section, exprs>>
ModuleName ==
  /\ InNames /\ item # <<>> /\ item[1] = 0
  /\ name' = Byte(pos) /\ Consume(pos + 1) /\ item' = <<>>
  /\ UNCHANGED <<status, version, built, section, exprs>>
SkipSubsection ==
  /\ InNames /\ item # <<>> /\ item[1] # 0
  /\ Seek(pos + item[2]) /\ item' = <<>>
  /\ UNCHANGED <<status, module, section, exprs>>
EndNames ==
  /\ InNames /\ item = <<>> /\ ~MoreNames
  /\ section' = NoSection
  /\ UNCHANGED <<stream, status, module, item, exprs>>

-----------------------------------------------------------------------------
(* The items of a section.                                                 *)
WithExpr == {SectionGlobal, SectionElement, SectionCode, SectionData}
InSection == status = "reading" /\ section.id \in SectionType..SectionData /\ exprs = <<>>
MoreItems == InSection /\ section.next < section.size

EndSection ==
  /\ InSection /\ section.next = section.size
  /\ section' = NoSection
  /\ UNCHANGED <<stream, status, module, item, exprs>>

NextItem == section' = [section EXCEPT !.next = @ + 1]
Add(id, x) == built' = [built EXCEPT ![id] = Append(@, x)]

(* readFuncSignature stores a type behind the end of FuncSignature::types. *)
Overflows == section.id = SectionType /\
  (Byte(pos + 1) > MaxParams \/ Byte(ReadVec(pos + 1).pos) > MaxParams)
TooManyTypes == MoreItems /\ Overflows /\ End("undefined") /\ UNCHANGED stream

ReadItem ==
  LET r == ReadPlain(section.id, pos)
  IN /\ MoreItems /\ section.id \notin WithExpr /\ ~Overflows
     /\ Add(section.id, r.val) /\ NextItem
     /\ Consume(r.pos)
     /\ UNCHANGED <<status, version, name, item, exprs>>

Reader(op, type) == [op |-> op, type |-> type, instrs |-> <<>>]
BeginItem ==
  LET r == ReadHead(section.id, pos)
  IN /\ MoreItems /\ section.id \in WithExpr
     /\ item' = r.val /\ exprs' = <<Reader(0, 0)>>
     /\ built' = IF section.id = SectionCode
                 THEN [built EXCEPT ![SectionFunction][section.next + 1].localCnt = r.val[1]]
                 ELSE built
     /\ Consume(r.pos)
     /\ UNCHANGED <<status, version, name, section>>

-----------------------------------------------------------------------------
(* readExpr and readControlInstr.  An instruction has its immediates and,  *)
(* if it is a block, its body and the place of the else.                   *)
Instr(op, imm, type, body, elseIdx) ==
  [op |-> op, imm |-> imm, type |-> type, body |-> body, elseIdx |-> elseIdx]
EndInstr == Instr(Op_end, <<>>, 0, <<>>, 0)

Blocks == Op_block..Op_if
MemorySizes == (Op_i64_store32 + 1)..Op_memory_grow
Reserved == (Op_else + 1)..(Op_end - 1)
Invalid == (Op_f64_reinterpret_i64 + 1)..255

(* The flags of memory.size, memory.grow, call_indirect are not kept.      *)
Immediates(op, p) ==
  CASE op \in {Op_br, Op_br_if, Op_call} -> Read(<<Byte(p)>>, p + 1)
    [] op = Op_br_table -> LET v == ReadVec(p) IN Read(Append(v.val, Byte(v.pos)), v.pos + 1)
    [] op = Op_call_indirect -> Read(<<Byte(p)>>, p + 2)
    [] op \in (Op_select + 1)..Op_set_global -> Read(<<Byte(p)>>, p + 1)
    [] op \in (Op_set_global + 1)..Op_i64_store32 -> Read(<<Byte(p), Byte(p + 1)>>, p + 2)
    [] op \in MemorySizes -> Read(<<>>, p + 1)
    [] op \in (Op_memory_grow + 1)..Op_f64_const -> Read(<<Byte(p)>>, p + 1)
    [] OTHER -> Read(<<>>, p)

Inner == exprs[Len(exprs)]
WithInstr(stack, ins) == [stack EXCEPT ![Len(stack)].instrs = Append(@, ins)]
Used == Len(exprs) + Len(Inner.instrs)
InExpr == status = "reading" /\ exprs # <<>> /\ Used < MaxList
Opcode == Byte(pos)

(* At the end of the file the loops of readExpr and decodeStream may go on *)
(* without end.                                                            *)
OutOfMemory ==
  /\ status = "reading"
  /\ \/ exprs # <<>> /\ Used >= MaxList
     \/ section = NoSection /\ ListsFull
  /\ End("exhausted") /\ UNCHANGED stream

BeginBlock ==
  /\ InExpr /\ Opcode \in Blocks
  /\ exprs' = Append(exprs, Reader(Opcode, Byte(pos + 1)))
  /\ Consume(pos + 2)
  /\ UNCHANGED <<status, module, section, item>>

(* The flag of a memory.size or memory.grow has to be 0.                   *)
FlagWrong == Opcode \in MemorySizes /\ Byte(pos + 1) # WasmZeroByte
ReadInstr ==
  LET r == Immediates(Opcode, pos + 1)
  IN /\ InExpr /\ Opcode \in 0..255 \ (Blocks \cup Reserved \cup Invalid \cup {Op_end})
     /\ ~FlagWrong
     /\ exprs' = WithInstr(exprs, Instr(Opcode, r.val, 0, <<>>, 0))
     /\ Consume(r.pos)
     /\ UNCHANGED <<status, module, section, item>>

(* A reserved opcode of the control range is reported and left out.        *)
SkipReserved ==
  /\ InExpr /\ Opcode \in Reserved
  /\ Consume(pos + 1)
  /\ UNCHANGED <<status, module, section, item, exprs>>

(* The else of an if is found in its list and becomes an end.              *)
IsElse(ins) == ins.op = Op_else
ElseIdxLate(codes) == LET i == SelectInSeq(codes, IsElse)
                      IN IF i = 0 THEN Len(codes) ELSE i
ElseIdx(codes) == LET i == SelectInSeq(codes, IsElse)
                  IN IF i = 0 THEN Len(codes) ELSE i - 1
ElseKept(codes) == codes
WithoutElse(codes) == IF ElseIdx(codes) < Len(codes)
                      THEN [codes EXCEPT ![ElseIdx(codes) + 1] = EndInstr] ELSE codes
BlockInstr(r, codes) ==
  IF r.op = Op_if THEN Instr(r.op, <<>>, r.type, WithoutElse(codes), ElseIdx(codes))
                  ELSE Instr(r.op, <<>>, r.type, codes, 0)

(* What the section's reader does with an expression and what follows it.  *)
Keep(codes, init) ==
  \/ /\ section.id = SectionCode
     /\ built' = [built EXCEPT ![SectionFunction][section.next + 1].codes = codes]
  \/ /\ section.id = SectionGlobal
     /\ Add(SectionGlobal, [type |-> item, init |-> codes])
  \/ /\ section.id \in {SectionElement, SectionData}
     /\ Add(section.id, [idx |-> item[1], offset |-> codes, init |-> init])

(* readExpr returns, the stream being at p: to readControlInstr, or to the *)
(* section's reader, which reads the rest of the item.                     *)
ReturnTo(p) ==
  LET codes == Append(Inner.instrs, EndInstr)
      rest == IF section.id \in {SectionElement, SectionData} THEN ReadVec(p) ELSE Read(<<>>, p)
  IN IF Len(exprs) > 1
     THEN /\ exprs' = WithInstr(Front(exprs), BlockInstr(Inner, codes))
          /\ Consume(p)
          /\ UNCHANGED <<module, section, item>>
     ELSE /\ exprs' = <<>> /\ item' = <<>> /\ NextItem
          /\ Keep(codes, rest.val)
          /\ Consume(rest.pos)
          /\ UNCHANGED <<version, name>>

EndExpr == InExpr /\ Opcode = Op_end /\ ReturnTo(pos + 1) /\ UNCHANGED status

(* Something invalid ends the innermost readExpr as if an end were there.  *)
BreakExpr ==
  /\ InExpr
  /\ \/ Opcode \in Invalid /\ ReturnTo(pos + 1)
     \/ FlagWrong /\ ReturnTo(pos + 2)
  /\ UNCHANGED status

Next ==
  \/ ReadHeader \/ EndOfFile \/ InvalidSection \/ MoreCode \/ BeginSection \/ StartSection
  \/ SkipCustom \/ NameSection \/ ReadSubsection \/ ModuleName \/ SkipSubsection \/ EndNames
  \/ EndSection \/ TooManyTypes \/ ReadItem \/ BeginItem
  \/ OutOfMemory \/ BeginBlock \/ ReadInstr \/ SkipReserved \/ EndExpr \/ BreakExpr

(* decodeStream runs in one thread and waits for nothing.                  *)
Spec == Init /\ [][Next]_vars /\ WF_vars(Next)

-----------------------------------------------------------------------------
(* Every variable has its type: no section is read past its count, and     *)
(* readExpr runs only for the four kinds of section that call it.          *)
DecoderTypeInv ==
  /\ pos \in Nat /\ failbit \in BOOLEAN /\ eofbit \in BOOLEAN
  /\ status \in {"header", "reading", "ok", "failed", "undefined", "exhausted"}
  /\ section.id \in SectionCustom..SectionLength
  /\ (section.id \in SectionType..SectionData => section.next \in 0..section.size)
  /\ (exprs # <<>> => section.id \in WithExpr)

(* The code section writes only to functions that were declared, however   *)
(* the file repeats or cuts its sections, and whatever is read behind its  *)
(* end: readSection_code compares the lengths once, before the loop.       *)
CodeDeclared ==
  section.id = SectionCode =>
    section.next <= section.size /\ section.size <= Len(built[SectionFunction])

(* Whatever the file holds, the handlers of the interpreter find an end    *)
(* where they rely on one: as the last instruction of a body and of every  *)
(* block, and before the else part that Op_if jumps to.                    *)
BlockEnds(ins) ==
  ins.op \in Blocks =>
    /\ ins.body # <<>>
    /\ ins.op = Op_if /\ ins.elseIdx < Len(ins.body) =>
         /\ ins.elseIdx + 1 < Len(ins.body)
         /\ ins.body[ins.elseIdx + 1] = EndInstr
Instrs(bodies) ==
  [op : Nat, imm : Seq(Nat), type : Nat, body : bodies \cup {<<>>}, elseIdx : Nat]
WithEnds(bodies) ==
  {codes \in Seq(Instrs(bodies)) :
    /\ codes # <<>> /\ codes[Len(codes)] = EndInstr
    /\ \A i \in DOMAIN codes : BlockEnds(codes[i])}
Ended[depth \in Nat] == IF depth = 0 THEN {} ELSE WithEnds(Ended[depth - 1])
Codes == Ended[MaxList]
CodesEnded ==
  /\ \A i \in DOMAIN built[SectionFunction] : built[SectionFunction][i].codes \in Codes \cup {<<>>}
  /\ \A i \in DOMAIN built[SectionGlobal] : built[SectionGlobal][i].init \in Codes
  /\ \A id \in {SectionElement, SectionData} :
       \A i \in DOMAIN built[id] : built[id][i].offset \in Codes
=============================================================================
