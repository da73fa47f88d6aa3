------------------------------ MODULE MCDecoder ------------------------------
(* Decoder on the files of small modules, and on damaged ones.             *)
EXTENDS BinaryFormat

Empty == [id \in SectionType..SectionData |-> <<>>]
Mod(b) == [version |-> 1, name |-> 0, custom |-> FALSE, built |-> b]

(* Expressions: instructions of each shape of immediates; blocks in blocks *)
(* and both forms of if.                                                   *)
Plain(op, imm) == Instr(op, imm, 0, <<>>, 0)
Atoms == {Plain(1, <<>>), Plain(Op_br_table, <<1, 0, 2>>), Plain(Op_call_indirect, <<4>>),
          Plain(Op_select, <<>>), Plain(Op_set_global, <<11>>),
          Plain(Op_i64_store32, <<2, 5>>), Plain(Op_memory_grow, <<>>),
          Plain(Op_f64_const, <<4>>), Plain(Op_f64_reinterpret_i64, <<>>)}
Few == {Plain(Op_br, <<Op_else>>), Plain(Op_return, <<>>)}
ListsOf(S) == {Append(s, EndInstr) : s \in {<<>>} \cup {<<i>> : i \in S}}
Pairs(S, T) == {<<i, j, EndInstr>> : i \in S, j \in T}
BlocksOf(B) ==
  {Instr(op, <<>>, 127, b, 0) : op \in {Op_block, Op_block + 1}, b \in B} \cup
  {Instr(Op_if, <<>>, 64, b, Len(b)) : b \in B} \cup
  {Instr(Op_if, <<>>, 126, b \o c, Len(b) - 1) : b \in B, c \in B}
Inside == BlocksOf(ListsOf(Few))
Bodies == ListsOf(Atoms) \cup Pairs(Atoms, Inside) \cup Pairs(Inside, Few)
            \cup ListsOf(BlocksOf(ListsOf(Inside)))

(* Modules with one function, and one module with everything.              *)
OfCode(codes) == Mod([Empty EXCEPT ![SectionFunction] = <<Func(0, 0, codes)>>])
Const(n) == <<Plain(Op_memory_grow + 1, <<n>>), EndInstr>>
Full ==
  [version |-> 1, name |-> 42, custom |-> TRUE, built |->
   [Empty EXCEPT
     ![SectionType] = <<[params |-> <<127, 126>>, ret |-> 127],
                        [params |-> <<>>, ret |-> ValueTypeVoid]>>,
     ![SectionImport] = <<[module |-> 50, name |-> 51, type |-> 0, desc |-> <<1>>],
                          [module |-> 50, name |-> 52, type |-> 1, desc |-> <<112, 2, 3>>],
                          [module |-> 50, name |-> 53, type |-> 2, desc |-> <<1, 0>>],
                          [module |-> 50, name |-> 54, type |-> 3, desc |-> <<127, 0>>]>>,
     ![SectionFunction] = <<Func(1, 0, Const(3)), Func(0, 3, <<EndInstr>>)>>,
     ![SectionTable] = <<<<112, 1, 0>>>>,
     ![SectionMemory] = <<<<1, 2>>>>,
     ![SectionGlobal] = <<[type |-> <<127, 1>>, init |-> Const(7)]>>,
     ![SectionExport] = <<[name |-> 60, type |-> 0, addr |-> 1]>>,
     ![SectionStart] = <<1>>,
     ![SectionElement] = <<[idx |-> 0, offset |-> Const(1), init |-> <<1, 2>>]>>,
     ![SectionData] = <<[idx |-> 0, offset |-> Const(0), init |-> <<11, 0, 5>>]>>]]
MCModules == {OfCode(c) : c \in Bodies} \cup {Full, [Full EXCEPT !.custom = FALSE, !.version = 2]}

(* Damaged files: cut anywhere; with an invalid or reserved opcode, or a   *)
(* flag, inside a block; with sections twice, too much code, too many      *)
(* parameters, an unknown section; not wasm at all.                        *)
Nested == OfCode(<<Instr(Op_if, <<>>, 64,
            <<Plain(1, <<>>), EndInstr, Plain(Op_memory_grow, <<>>), EndInstr>>, 1), EndInstr>>)
Replace(f, old, new) == {[f EXCEPT ![i] = new] : i \in {j \in Len(f)-7..Len(f) : f[j] = old}}
Cut(f, S) == {SubSeq(f, 1, n) : n \in S \cap 0..Len(f)}
Body(m) == EncodeSection(m, SectionCode)
Damaged ==
  Cut(File(Nested), 0..40)
    \cup Cut(File(Full), 0..200)
    \cup {[File(Nested) EXCEPT ![1] = 0], File(Nested) \o <<SectionLength>>}
    \cup {File(Nested) \o Body(m) : m \in {Nested, Full}}
    \cup {File(Full) \o <<SectionType, 0, 1, WasmValueTypeFunc, MaxParams + 1>>}
    \cup UNION {Replace(File(Nested), Op_memory_grow, op) : op \in {6, 192}}
    \cup UNION {Replace(File(Nested), 1, op) : op \in {192, Op_memory_grow}}
MCFiles == WellFormed \cup Damaged

(* Those cut where the loops of readExpr or decodeStream go on in garbage  *)
(* would give a behaviour for each of its sequences.                       *)
Endless == 19..21 \cup 44..45 \cup 49..50 \cup 55..56 \cup 61..62 \cup 69..70
             \cup 74..75 \cup 83..84 \cup 108..109
MCChanging == {f \in Damaged : Len(f) \in (5..118) \ Endless}
=============================================================================
