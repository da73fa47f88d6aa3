----------------------------- MODULE BinaryFormat -----------------------------
(***************************************************************************)
(* What Decoder promises, said from the other side: the binary format, as  *)
(* a function from modules to files, and what the interpreter needs to     *)
(* find in whatever code was decoded.                                      *)
(***************************************************************************)
EXTENDS Decoder

CONSTANT Modules  \* modules whose files are among Files: version, name (0 if it has
                  \* none), custom (whether it has sections of other names) and built

Vec(s) == <<Len(s)>> \o s

-----------------------------------------------------------------------------
(* Expressions.  An if has lost its else, of which the place is left; its  *)
(* source is the list that readExpr makes before it is looked for.         *)
ElseInstr == Instr(Op_else, <<>>, 0, <<>>, 0)
Source(ins) ==
  IF ins.op = Op_if /\ ins.elseIdx < Len(ins.body)
  THEN [ins.body EXCEPT ![ins.elseIdx + 1] = ElseInstr] ELSE ins.body

(* The number of immediates; br_table has one more than its count.         *)
OneImmediate ==
  {Op_br, Op_br_if, Op_call, Op_call_indirect} \cup
  (Op_select + 1)..Op_set_global \cup (Op_memory_grow + 1)..Op_f64_const
TwoImmediates == (Op_set_global + 1)..Op_i64_store32
ImmediatesOf(op) ==
  IF op = Op_br_table THEN Seq(Nat) \ {<<>>}
  ELSE IF op \in OneImmediate THEN [1..1 -> Nat]
  ELSE IF op \in TwoImmediates THEN [1..2 -> Nat] ELSE {<<>>}
EncodeImm(ins) ==
  IF ins.op = Op_br_table THEN <<Len(ins.imm) - 1>> \o ins.imm
  ELSE IF ins.op = Op_call_indirect THEN ins.imm \o <<WasmZeroByte>>
  ELSE IF ins.op \in MemorySizes THEN <<WasmZeroByte>> ELSE ins.imm

(* Spell[room] is the encoding of all lists that MaxList leaves room for,  *)
(* with room instructions and calls of readExpr.                           *)
InstrOf(ins, bodies) ==
  IF ins.op \in Blocks
  THEN /\ ins = Instr(ins.op, <<>>, ins.type, ins.body, ins.elseIdx) /\ Source(ins) \in bodies
       /\ IF ins.op = Op_if
          THEN ins.elseIdx <= Len(ins.body) /\ \A i \in 1..ins.elseIdx : ~IsElse(ins.body[i])
          ELSE ins.elseIdx = 0
  ELSE /\ ins = Instr(ins.op, ins.imm, 0, <<>>, 0) /\ ins.imm \in ImmediatesOf(ins.op)
       /\ ins.op \in 0..Op_f64_reinterpret_i64 /\ ins.op \notin Reserved \cup {Op_end}
Lists(room, bodies) ==
  {codes \in Ended[room] :
    Len(codes) < room /\ \A i \in 1..(Len(codes) - 1) : InstrOf(codes[i], bodies)}
EncodeInstr(ins, spell) ==
  IF ins.op \in Blocks THEN <<ins.op, ins.type>> \o spell[Source(ins)]
                       ELSE <<ins.op>> \o EncodeImm(ins)
EncodeList(codes, spell) == FlattenSeq([i \in DOMAIN codes |-> EncodeInstr(codes[i], spell)])
Spelling(room, spell) ==
  [codes \in Lists(room, DOMAIN spell) |-> EncodeList(codes, spell)]
Spell[room \in Nat] == IF room = 0 THEN <<>> ELSE Spelling(room, Spell[room - 1])
Expressions == DOMAIN Spell[MaxList]
EncodeExpr(codes) == Spell[MaxList][codes]

-----------------------------------------------------------------------------
(* The items.                                                              *)
EncodeType(t) ==
  <<WasmValueTypeFunc>> \o Vec(t.params) \o Vec(IF t.ret = ValueTypeVoid THEN <<>> ELSE <<t.ret>>)
EncodeLimit(l) == IF l[2] = 0 THEN <<0, l[1]>> ELSE <<1>> \o l
EncodeTable(t) == <<t[1]>> \o EncodeLimit(<<t[2], t[3]>>)
EncodeDesc(i) == CASE i.type \in {0, 3} -> i.desc
                   [] i.type = 1 -> EncodeTable(i.desc)
                   [] i.type = 2 -> EncodeLimit(i.desc)
EncodeImport(i) == <<i.module, i.name, i.type>> \o EncodeDesc(i)
EncodeLocals(n) == IF n = 0 THEN <<0>> ELSE <<2, n - 1, 127, 1, 126>>
EncodePlain(id, x) ==
  CASE id = SectionType -> EncodeType(x)
    [] id = SectionImport -> EncodeImport(x)
    [] id = SectionFunction -> <<x.typeIdx>>
    [] id = SectionTable -> EncodeTable(x)
    [] id = SectionMemory -> EncodeLimit(x)
    [] id = SectionExport -> <<x.name, x.type, x.addr>>

(* Items with an expression: what comes before it, and after it.           *)
ExprOf(id, x) ==
  CASE id = SectionGlobal -> x.init
    [] id = SectionCode -> x.codes
    [] id \in {SectionElement, SectionData} -> x.offset
EncodeHead(id, x) ==
  CASE id = SectionGlobal -> x.type
    [] id = SectionCode ->
         LET locals == EncodeLocals(x.localCnt)
         IN <<Len(locals) + Len(EncodeExpr(x.codes))>> \o locals
    [] id \in {SectionElement, SectionData} -> <<x.idx>>
EncodeTail(id, x) == IF id \in {SectionElement, SectionData} THEN Vec(x.init) ELSE <<>>
EncodeItem(id, x) ==
  IF id \in WithExpr THEN EncodeHead(id, x) \o EncodeExpr(ExprOf(id, x)) \o EncodeTail(id, x)
                     ELSE EncodePlain(id, x)

(* What a module may have in a section.                                    *)
Limits == Nat \X Nat
TableTypes == Nat \X Nat \X Nat
GlobalTypes == Nat \X {0, 1}
DescOf(type) == CASE type = 0 -> [1..1 -> Nat] [] type = 1 -> TableTypes
                  [] type = 2 -> Limits [] type = 3 -> GlobalTypes
Types == {t \in [params : Seq(Nat), ret : Nat] :
           Len(t.params) <= MaxParams /\ (t.ret # ValueTypeVoid => MaxParams >= 1)}
Imports ==
  {i \in [module : Nat, name : Nat, type : 0..3, desc : Seq(Nat)] : i.desc \in DescOf(i.type)}
Functions == [typeIdx : Nat, localCnt : Nat, codes : Expressions]
Globals == [type : GlobalTypes, init : Expressions]
Exports == [name : Nat, type : Nat, addr : Nat]
Segments == [idx : Nat, offset : Expressions, init : Seq(Nat)]
ItemsOf(id) ==
  CASE id = SectionType -> Types [] id = SectionImport -> Imports
    [] id = SectionFunction -> Functions [] id = SectionTable -> TableTypes
    [] id = SectionMemory -> Limits [] id = SectionGlobal -> Globals
    [] id = SectionExport -> Exports [] id = SectionStart -> Nat
    [] id \in {SectionElement, SectionData} -> Segments [] id = SectionCode -> {}
Encodable(m) ==
  /\ m.version \in Nat /\ m.name \in Nat /\ m.custom \in BOOLEAN
  /\ m.built = [id \in SectionType..SectionData |-> m.built[id]]
  /\ Len(m.built[SectionStart]) <= 1
  /\ \A id \in SectionType..SectionData :
       m.built[id] \in Seq(ItemsOf(id)) /\ Len(m.built[id]) <= MaxList
ASSUME FormatAssumption == NameWord \in Nat /\ \A m \in Modules : Encodable(m)

-----------------------------------------------------------------------------
(* The sections.  The name section, here SectionName, has a subsection of  *)
(* function names too.                                                     *)
SectionName == SectionLength
Order ==
  <<SectionCustom, SectionType, SectionImport, SectionFunction, SectionTable, SectionMemory,
    SectionGlobal, SectionCustom, SectionExport, SectionStart, SectionElement, SectionCode,
    SectionData, SectionName, SectionCustom>>
Items(m, id) == m.built[IF id = SectionCode THEN SectionFunction ELSE id]
EncodeItems(m, id) ==
  LET items == Items(m, id) IN [i \in DOMAIN items |-> EncodeItem(id, items[i])]
EncodeCustom(m) == IF m.custom THEN <<SectionCustom, 3, NameWord + 1, 0, 0>> ELSE <<>>
EncodeName(m) == IF m.name = 0 THEN <<>>
                 ELSE <<SectionCustom, 8, NameWord, 1, 2, 0, 0, 0, 1, m.name>>
EncodeSection(m, id) ==
  IF id = SectionCustom THEN EncodeCustom(m)
  ELSE IF id = SectionName THEN EncodeName(m)
  ELSE IF Items(m, id) = <<>> THEN <<>>
  ELSE IF id = SectionStart THEN <<SectionStart, 1>> \o Items(m, id)
  ELSE LET content == <<Len(Items(m, id))>> \o FlattenSeq(EncodeItems(m, id))
       IN <<id, Len(content)>> \o content
File(m) ==
  <<WasmMagic, m.version>> \o FlattenSeq([k \in DOMAIN Order |-> EncodeSection(m, Order[k])])
Encoded == {[module |-> m, file |-> File(m)] : m \in Modules}
WellFormed == {e.file : e \in Encoded}

-----------------------------------------------------------------------------
(* Properties.                                                             *)

(* The file of a module is accepted, and decodes to that module: no reader *)
(* takes a token too many or too few, each block gets its own instructions *)
(* and its own else, and each body the function of its index.              *)
Faithful ==
  status \notin {"header", "reading"} =>
    \A e \in Encoded : file = e.file =>
      /\ status = "ok" /\ version = e.module.version /\ name = e.module.name
      /\ built = e.module.built

(* Decoding the file of a module ends.                                     *)
DecodingEnds == file \in WellFormed => <>(status \in {"ok", "failed"})
=============================================================================
