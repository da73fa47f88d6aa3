---------------------------- MODULE DecoderProofs ----------------------------
(***************************************************************************)
(* Decoder never writes code to a function that was not declared and never *)
(* reads a section past its count, for every file, whatever is read behind *)
(* its end.                                                                *)
(***************************************************************************)
EXTENDS Decoder, SequenceTheorems, WellFoundedInduction, TLAPS

(* Of the lists of a module only the lengths matter here.                  *)
IsSeq(s) == \E S : s \in Seq(S)

LEMMA AppendIsSeq ==
  ASSUME NEW s, IsSeq(s), NEW e
  PROVE  IsSeq(Append(s, e)) /\ Len(Append(s, e)) = Len(s) + 1 /\ Append(s, e) # <<>>
<1>1. PICK S : s \in Seq(S)
  BY DEF IsSeq
<1>2. s \in Seq(S \cup {e}) /\ e \in S \cup {e}
  BY <1>1, SeqMonotonic
<1>3. /\ Append(s, e) \in Seq(S \cup {e}) /\ Len(Append(s, e)) = Len(s) + 1
      /\ Len(s) \in Nat
  BY <1>2
<1> QED
  BY <1>3, EmptySeq DEF IsSeq

LEMMA ExceptIsSeq ==
  ASSUME NEW s, IsSeq(s), NEW i, NEW e
  PROVE  /\ IsSeq([s EXCEPT ![i] = e]) /\ Len([s EXCEPT ![i] = e]) = Len(s)
         /\ s # <<>> => [s EXCEPT ![i] = e] # <<>>
<1>1. PICK S : s \in Seq(S)
  BY DEF IsSeq
<1>2. Len(s) \in Nat /\ s \in [1..Len(s) -> S]
  BY <1>1, LenProperties
<1> DEFINE t == [s EXCEPT ![i] = e]
<1>3. t \in [1..Len(s) -> S \cup {e}]
  BY <1>2
<1>4. t \in Seq(S \cup {e}) /\ Len(t) = Len(s)
  BY <1>2, <1>3
<1>5. s # <<>> => Len(s) # 0
  BY <1>1, <1>2
<1> HIDE DEF t
<1> QED
  BY <1>4, <1>5, EmptySeq DEF IsSeq, t

LEMMA SingletonIsSeq ==
  ASSUME NEW e
  PROVE  IsSeq(<<e>>) /\ <<e>> # <<>>
<1>1. <<e>> \in Seq({e})
  OBVIOUS
<1> QED
  BY <1>1 DEF IsSeq

LEMMA FrontIsSeq ==
  ASSUME NEW s, IsSeq(s), Len(s) > 1
  PROVE  IsSeq(Front(s)) /\ Front(s) # <<>>
<1>1. PICK S : s \in Seq(S)
  BY DEF IsSeq
<1>2. Len(s) \in Nat /\ \A i \in 1..Len(s) : s[i] \in S
  BY <1>1, LenProperties, ElementOfSeq
<1>3. \A i \in 1..(Len(s) - 1) : s[i] \in S
  BY <1>2
<1>4. /\ SubSeq(s, 1, Len(s) - 1) \in Seq(S)
      /\ Len(SubSeq(s, 1, Len(s) - 1)) = Len(s) - 1
  BY <1>2, <1>3, SubSeqProperties
<1> DEFINE t == SubSeq(s, 1, Len(s) - 1)
<1>5. t # <<>>
  <2>1. Len(t) > 0 /\ t \in Seq(S)
    BY <1>2, <1>4
  <2> HIDE DEF t
  <2> QED
    BY <2>1, EmptySeq
<1> QED
  BY <1>4, <1>5 DEF Front, IsSeq

(* The invariant.  Its first part is the types of what positions and counts *)
(* are computed from; the second relates the calls of the section's reader  *)
(* and of readExpr: the place of the body that is read stays below the size *)
(* that was compared with the functions.                                    *)
Typed ==
  /\ file \in Seq(Nat) /\ junk \in [0..1 -> Nat] /\ pos \in Nat
  /\ DOMAIN built = SectionType..SectionData /\ IsSeq(built[SectionFunction])
  /\ IsSeq(exprs)
  /\ section \in [id : SectionCustom..SectionLength, size : Nat, next : Nat]
  /\ section.id # SectionStart
  /\ section.id = SectionCustom => item = <<>> \/ item \in [1..2 -> Nat]

Nested ==
  /\ exprs = <<>> /\ section.id # SectionCustom => item = <<>>
  /\ exprs # <<>> => section.id \in WithExpr /\ section.next < section.size
  /\ section.id = SectionLength => section = NoSection

DInv == Typed /\ Nested /\ CodeDeclared

-----------------------------------------------------------------------------
(* Readers end at a position.                                              *)
LEMMA ByteType ==
  ASSUME Typed, NEW p \in Nat
  PROVE  Byte(p) \in Nat
<1>1. p % 2 \in 0..1
  OBVIOUS
<1>2. p < Len(file) => p + 1 \in 1..Len(file)
  BY LenProperties DEF Typed
<1> QED
  BY <1>1, <1>2, ElementOfSeq DEF Byte, Typed

LEMMA VecType ==
  ASSUME Typed, NEW p \in Nat
  PROVE  ReadVec(p).pos \in Nat
BY ByteType DEF ReadVec, Read

LEMMA LimitType ==
  ASSUME Typed, NEW p \in Nat
  PROVE  ReadLimit(p).pos \in Nat
BY DEF ReadLimit, Read

LEMMA DescType ==
  ASSUME Typed, NEW p \in Nat, NEW type \in Nat
  PROVE  ReadDesc(type, p).pos \in Nat
<1>1. ReadTableType(p).pos \in Nat
  BY LimitType DEF ReadTableType, Read
<1> QED
  BY <1>1, LimitType DEF ReadDesc, ReadGlobalType, Read

LEMMA PlainType ==
  ASSUME Typed, NEW p \in Nat,
         NEW id \in (SectionType..SectionData) \ (WithExpr \cup {SectionStart})
  PROVE  ReadPlain(id, p).pos \in Nat
<1>1. ReadFuncType(p).pos \in Nat
  BY VecType DEF ReadFuncType, Read
<1>2. ReadImport(p).pos \in Nat
  BY ByteType, DescType DEF ReadImport, Read
<1>3. ReadTableType(p).pos \in Nat
  BY LimitType DEF ReadTableType, Read
<1>4. ReadFunction(p).pos \in Nat /\ ReadExport(p).pos \in Nat
  BY DEF ReadFunction, ReadExport, Read
<1> QED
  BY <1>1, <1>2, <1>3, <1>4, LimitType
  DEF ReadPlain, WithExpr, SectionType, SectionImport, SectionFunction, SectionTable,
      SectionMemory, SectionGlobal, SectionExport, SectionStart, SectionElement, SectionCode,
      SectionData

LEMMA HeadType ==
  ASSUME Typed, NEW p \in Nat, NEW id \in WithExpr
  PROVE  ReadHead(id, p).pos \in Nat
<1>1. ReadGlobalType(p).pos \in Nat
  BY DEF ReadGlobalType, Read
<1>2. ReadLocals(p).pos \in Nat
  BY ByteType DEF ReadLocals, Read
<1> QED
  BY <1>1, <1>2 DEF ReadHead, Read, WithExpr, SectionGlobal, SectionCode, SectionElement, SectionData

LEMMA ImmediatesType ==
  ASSUME Typed, NEW p \in Nat, NEW opc
  PROVE  Immediates(opc, p).pos \in Nat
BY VecType DEF Immediates, Read

LEMMA JunkType ==
  ASSUME Typed, NEW failed, NextJunk(failed)
  PROVE  junk' \in [0..1 -> Nat]
<1>1. Garbage \subseteq Nat
  BY DecoderAssumption
<1>2. junk \in [0..1 -> Nat]
  BY DEF Typed
<1>3. junk' = junk \/ junk' \in [0..1 -> Garbage]
  BY DEF NextJunk
<1> QED
  BY <1>1, <1>2, <1>3

LEMMA ConsumeType ==
  ASSUME Typed, NEW p \in Nat, Consume(p)
  PROVE  file' = file /\ junk' \in [0..1 -> Nat] /\ pos' \in Nat
BY LenProperties, JunkType DEF Consume, Typed
LEMMA ReturnType ==
  ASSUME Typed, NEW p \in Nat
  PROVE  (IF section.id \in {SectionElement, SectionData}
          THEN ReadVec(p) ELSE Read(<<>>, p)).pos \in Nat
BY VecType DEF Read

-----------------------------------------------------------------------------
(* The steps, by what they change: the position alone, the section, the    *)
(* lists of the module, the readers.                                       *)
Unmoved == UNCHANGED <<built, section, item, exprs>>

LEMMA StaysPut ==
  ASSUME DInv, Unmoved, file' = file, junk' \in [0..1 -> Nat], pos' \in Nat
  PROVE  DInv'
BY DEF DInv, Typed, Nested, CodeDeclared, Unmoved, IsSeq, NoSection, Section

LEMMA BetweenFacts ==
  ASSUME DInv, BetweenSections
  PROVE  exprs = <<>> /\ item = <<>> /\ section.id = SectionLength
BY DEF DInv, Nested, BetweenSections, NoSection, Section, WithExpr, SectionLength, SectionCustom,
       SectionGlobal, SectionElement, SectionCode, SectionData

LEMMA OutsideStep ==
  ASSUME DInv,
         ReadHeader \/ EndOfFile \/ InvalidSection \/ MoreCode \/ SkipCustom \/ TooManyTypes
           \/ OutOfMemory \/ SkipReserved
  PROVE  DInv'
<1>1. pos \in Nat /\ pos + 1 \in Nat /\ pos + 3 \in Nat /\ CustomEnd(pos) \in Nat
  <2>1. pos \in Nat /\ Typed
    BY DEF DInv, Typed
  <2>2. Byte(pos + 1) \in Nat
    BY <2>1, ByteType
  <2> QED
    BY <2>1, <2>2 DEF CustomEnd
<1>2. Typed
  BY DEF DInv
<1>3. CASE ReadHeader
  <2>1. PICK p \in {1, 2} : Consume(p)
    BY <1>3 DEF ReadHeader
  <2>2. file' = file /\ junk' \in [0..1 -> Nat] /\ pos' \in Nat
    BY <1>2, <2>1, ConsumeType
  <2> QED
    BY <1>3, <2>2, StaysPut DEF ReadHeader, Unmoved
<1>4. CASE EndOfFile
  BY <1>1, <1>2, <1>4, ConsumeType, StaysPut DEF EndOfFile, End, module, Unmoved
<1>5. CASE InvalidSection
  BY <1>1, <1>2, <1>5, ConsumeType, StaysPut DEF InvalidSection, End, module, Unmoved
<1>6. CASE MoreCode
  BY <1>1, <1>2, <1>6, ConsumeType, StaysPut DEF MoreCode, End, module, Unmoved
<1>7. CASE SkipCustom
  <2>1. file' = file /\ junk' \in [0..1 -> Nat] /\ pos' \in Nat
    <3>1. file' = file /\ pos' \in Nat
      BY <1>1, <1>2, <1>7, LenProperties DEF SkipCustom, Typed
    <3>2. \E failed : NextJunk(failed)
      BY <1>7 DEF SkipCustom
    <3> QED
      BY <1>2, <3>1, <3>2, JunkType
  <2> QED
    BY <1>7, <2>1, StaysPut DEF SkipCustom, module, Unmoved
<1>8. CASE TooManyTypes
  BY <1>1, <1>2, <1>8, StaysPut DEF TooManyTypes, End, stream, module, Unmoved, Typed
<1>9. CASE OutOfMemory
  BY <1>1, <1>2, <1>9, StaysPut DEF OutOfMemory, End, stream, module, Unmoved, Typed
<1>10. CASE SkipReserved
  BY <1>1, <1>2, <1>10, ConsumeType, StaysPut DEF SkipReserved, module, Unmoved
<1> QED
  BY <1>3, <1>4, <1>5, <1>6, <1>7, <1>8, <1>9, <1>10

(* The only comparison of the code's length: BeginSection is not taken when *)
(* there is too much.                                                      *)
LEMMA SectionStep ==
  ASSUME DInv, BeginSection \/ StartSection \/ NameSection \/ EndSection \/ EndNames
  PROVE  DInv'
<1>1. /\ pos \in Nat /\ pos + 3 \in Nat
      /\ Count \in Nat /\ CustomEnd(pos) \in Nat
  <2>1. pos \in Nat /\ Typed
    BY DEF DInv, Typed
  <2>2. Byte(pos + 1) \in Nat /\ Byte(pos + 2) \in Nat
    BY <2>1, ByteType
  <2> QED
    BY <2>1, <2>2 DEF CustomEnd, Count
<1>2. Typed
  BY DEF DInv
<1>3. CASE BeginSection
  <2>1. /\ exprs = <<>> /\ item = <<>>
        /\ UNCHANGED <<built, item, exprs>> /\ Consume(pos + 3)
    BY <1>3, BetweenFacts DEF BeginSection, SectionIs, module
  <2>2. PICK id \in (SectionType..SectionData) \ {SectionStart} :
          /\ ~(id = SectionCode /\ TooLong(Count))
          /\ section' = Section(id, Count)
    BY <1>3 DEF BeginSection
  <2>3. id = SectionCode => Count <= Len(built[SectionFunction])
    <3>1. Len(built[SectionFunction]) \in Nat
      BY <1>2, LenProperties DEF Typed, IsSeq
    <3> QED
      BY <1>1, <2>2, <3>1 DEF TooLong
  <2>4. /\ section' = [id |-> id, size |-> Count, next |-> 0]
        /\ id \in Nat /\ 1 <= id /\ id <= 11
    BY <2>2 DEF Section, SectionType, SectionData
  <2>5. Typed'
    BY <1>1, <1>2, <2>1, <2>4, ConsumeType
    DEF Typed, IsSeq, SectionCustom, SectionLength, SectionStart
  <2>6. Nested' /\ CodeDeclared'
    BY <1>1, <2>1, <2>3, <2>4 DEF Nested, CodeDeclared, SectionLength, SectionCustom
  <2> QED
    BY <2>5, <2>6 DEF DInv
<1>4. CASE StartSection
  <2>1. /\ UNCHANGED <<section, item, exprs>> /\ Consume(pos + 3)
        /\ built' = [built EXCEPT ![SectionStart] = <<Byte(pos + 2)>>]
    BY <1>4 DEF StartSection
  <2>2. DOMAIN built' = DOMAIN built /\ built'[SectionFunction] = built[SectionFunction]
    BY <1>2, <2>1 DEF Typed, SectionStart, SectionFunction, SectionType, SectionData
  <2> QED
    BY <1>1, <1>2, <2>1, <2>2, ConsumeType
    DEF DInv, Typed, Nested, CodeDeclared, IsSeq, NoSection, Section
<1>5. CASE NameSection
  <2>1. /\ exprs = <<>> /\ item = <<>> /\ Consume(pos + 3)
        /\ section' = [id |-> SectionCustom, size |-> CustomEnd(pos), next |-> 0]
        /\ UNCHANGED <<built, item, exprs>>
    BY <1>5, BetweenFacts DEF NameSection, SectionIs, Section, module
  <2>2. Typed'
    BY <1>1, <1>2, <2>1, ConsumeType
    DEF Typed, IsSeq, SectionCustom, SectionLength, SectionStart
  <2> QED
    BY <2>1, <2>2 DEF DInv, Nested, CodeDeclared, SectionCustom, SectionCode, SectionLength
<1>6. CASE EndSection \/ EndNames
  <2>1. /\ section' = [id |-> SectionLength, size |-> 0, next |-> 0]
        /\ UNCHANGED <<file, junk, pos, built, item, exprs>>
    BY <1>6 DEF EndSection, EndNames, NoSection, Section, stream, module
  <2>2. item = <<>> /\ exprs = <<>>
    BY <1>2, <1>6
    DEF EndSection, EndNames, InSection, InNames, DInv, Nested, WithExpr, SectionCustom,
        SectionType, SectionGlobal, SectionElement, SectionCode, SectionData
  <2>3. Typed'
    BY <1>2, <2>1 DEF Typed, IsSeq, SectionCustom, SectionLength, SectionStart
  <2> QED
    BY <2>1, <2>2, <2>3
    DEF DInv, Nested, CodeDeclared, NoSection, Section, SectionCustom, SectionCode, SectionLength
<1> QED
  BY <1>3, <1>4, <1>5, <1>6

(* The name section.                                                       *)
LEMMA NamesStep ==
  ASSUME DInv, ReadSubsection \/ ModuleName \/ SkipSubsection
  PROVE  DInv'
<1>1. Typed /\ pos \in Nat /\ pos + 1 \in Nat /\ pos + 2 \in Nat
  BY DEF DInv, Typed
<1>2. section.id = SectionCustom /\ UNCHANGED <<built, section, exprs>>
  BY DEF ReadSubsection, ModuleName, SkipSubsection, InNames, module
<1>3. item' = <<>> \/ item' \in [1..2 -> Nat]
  <2>1. Byte(pos) \in Nat /\ Byte(pos + 1) \in Nat
    BY <1>1, ByteType
  <2> QED
    BY <2>1 DEF ReadSubsection, ModuleName, SkipSubsection
<1>4. file' = file /\ junk' \in [0..1 -> Nat] /\ pos' \in Nat
  <2>1. CASE ReadSubsection \/ ModuleName
    BY <1>1, <2>1, ConsumeType DEF ReadSubsection, ModuleName
  <2>2. CASE SkipSubsection
    <3>1. item[2] \in Nat
      BY <1>1, <1>2, <2>2 DEF SkipSubsection, Typed
    <3> QED
      BY <1>1, <2>2, <3>1 DEF SkipSubsection, Seek, Typed
  <2> QED
    BY <2>1, <2>2
<1>5. Typed'
  BY <1>1, <1>2, <1>3, <1>4 DEF Typed, IsSeq
<1> QED
  BY <1>2, <1>5 DEF DInv, Nested, CodeDeclared, SectionCustom, SectionLength

(* Items without expressions: lists only grow, and the code section has    *)
(* none of these.                                                          *)
LEMMA ItemStep ==
  ASSUME DInv, ReadItem
  PROVE  DInv'
<1> DEFINE r == ReadPlain(section.id, pos)
<1>1. /\ Typed /\ pos \in Nat /\ exprs = <<>>
      /\ section.id \in (SectionType..SectionData) \ (WithExpr \cup {SectionStart})
      /\ section.next < section.size
  BY DEF DInv, Typed, ReadItem, MoreItems, InSection
<1>2. /\ UNCHANGED <<item, exprs>> /\ section' = [section EXCEPT !.next = @ + 1]
      /\ built' = [built EXCEPT ![section.id] = Append(@, r.val)] /\ Consume(r.pos)
  BY DEF ReadItem, NextItem, Add
<1>3. r.pos \in Nat
  BY <1>1, PlainType
<1> HIDE DEF r
<1>4. file' = file /\ junk' \in [0..1 -> Nat] /\ pos' \in Nat
  BY <1>1, <1>2, <1>3, ConsumeType
<1>5. DOMAIN built' = DOMAIN built /\ IsSeq(built'[SectionFunction])
  <2>1. CASE section.id = SectionFunction
    BY <1>1, <1>2, <2>1, AppendIsSeq DEF Typed
  <2>2. CASE section.id # SectionFunction
    BY <1>1, <1>2, <2>2 DEF Typed
  <2> QED
    BY <2>1, <2>2
<1>6. /\ section' \in [id : SectionCustom..SectionLength, size : Nat, next : Nat]
      /\ section'.id = section.id
  <2>1. section \in [id : SectionCustom..SectionLength, size : Nat, next : Nat]
    BY <1>1 DEF Typed
  <2> QED
    BY <1>2, <2>1
<1>7. section.id # SectionCustom /\ section.id # SectionCode /\ section.id # SectionLength
  BY <1>1 DEF WithExpr, SectionType, SectionData, SectionCustom, SectionLength
<1>8. Typed'
  BY <1>1, <1>2, <1>4, <1>5, <1>6, <1>7 DEF Typed
<1> QED
  BY <1>1, <1>2, <1>6, <1>7, <1>8 DEF DInv, Nested, CodeDeclared

-----------------------------------------------------------------------------
(* Items with expressions: the entry of the functions that the number of   *)
(* locals is written to is there, and their number does not change.        *)
LEMMA BeginItemStep ==
  ASSUME DInv, BeginItem
  PROVE  DInv'
<1> DEFINE r == ReadHead(section.id, pos)
<1>1. /\ Typed /\ pos \in Nat /\ section.id \in WithExpr /\ section.next < section.size
      /\ exprs = <<>> /\ CodeDeclared
  BY DEF DInv, Typed, BeginItem, MoreItems, InSection
<1>2. /\ UNCHANGED section /\ exprs' = <<Reader(0, 0)>> /\ Consume(r.pos)
      /\ built' = IF section.id = SectionCode
                  THEN [built EXCEPT ![SectionFunction][section.next + 1].localCnt = r.val[1]]
                  ELSE built
  BY DEF BeginItem
<1>3. r.pos \in Nat
  BY <1>1, HeadType
<1> HIDE DEF r
<1>4. file' = file /\ junk' \in [0..1 -> Nat] /\ pos' \in Nat
  BY <1>1, <1>2, <1>3, ConsumeType
<1>5. /\ DOMAIN built' = DOMAIN built /\ IsSeq(built'[SectionFunction])
      /\ Len(built'[SectionFunction]) = Len(built[SectionFunction])
  <2>1. CASE section.id = SectionCode
    <3> DEFINE f == [built[SectionFunction][section.next + 1] EXCEPT !.localCnt = r.val[1]]
    <3>1. built' = [built EXCEPT ![SectionFunction] = [@ EXCEPT ![section.next + 1] = f]]
      BY <1>2, <2>1
    <3> HIDE DEF f
    <3>2. built'[SectionFunction] = [built[SectionFunction] EXCEPT ![section.next + 1] = f]
      BY <1>1, <3>1 DEF Typed, SectionFunction, SectionType, SectionData
    <3>3. IsSeq(built[SectionFunction])
      BY <1>1 DEF Typed
    <3>4. DOMAIN built' = DOMAIN built
      BY <3>1
    <3> DEFINE g == [built[SectionFunction] EXCEPT ![section.next + 1] = f]
    <3>5. IsSeq(g) /\ Len(g) = Len(built[SectionFunction])
      BY <3>3, ExceptIsSeq
    <3> HIDE DEF g
    <3> QED
      BY <3>2, <3>4, <3>5 DEF g
  <2>2. CASE section.id # SectionCode
    BY <1>1, <1>2, <2>2 DEF Typed
  <2> QED
    BY <2>1, <2>2
<1>6. IsSeq(exprs') /\ exprs' # <<>>
  BY <1>2, SingletonIsSeq
<1>7. section.id # SectionCustom
  BY <1>1 DEF WithExpr, SectionCustom, SectionGlobal, SectionElement, SectionCode, SectionData
<1>8. Typed'
  BY <1>1, <1>2, <1>4, <1>5, <1>6, <1>7 DEF Typed
<1> QED
  BY <1>1, <1>2, <1>5, <1>6, <1>8 DEF DInv, Nested, CodeDeclared

LEMMA ExprFacts ==
  ASSUME DInv, InExpr
  PROVE  /\ Typed /\ pos \in Nat /\ IsSeq(exprs) /\ exprs # <<>>
         /\ section.id \in WithExpr /\ section.next < section.size
         /\ section.id # SectionCustom
BY DEF DInv, Typed, Nested, InExpr, WithExpr, SectionCustom, SectionGlobal, SectionElement,
       SectionCode, SectionData

(* An instruction is added to the list of a reader.                        *)
LEMMA WithInstrType ==
  ASSUME NEW s, IsSeq(s), s # <<>>, NEW ins
  PROVE  IsSeq(WithInstr(s, ins)) /\ WithInstr(s, ins) # <<>>
<1> DEFINE e == [s[Len(s)] EXCEPT !.instrs = Append(@, ins)]
<1>1. WithInstr(s, ins) = [s EXCEPT ![Len(s)] = e]
  BY DEF WithInstr
<1> HIDE DEF e
<1> QED
  BY <1>1, ExceptIsSeq

LEMMA ExprStep ==
  ASSUME DInv, BeginBlock \/ ReadInstr
  PROVE  DInv'
<1>1. /\ Typed /\ pos \in Nat /\ IsSeq(exprs) /\ exprs # <<>>
      /\ section.id \in WithExpr /\ section.next < section.size
      /\ section.id # SectionCustom
  BY ExprFacts DEF BeginBlock, ReadInstr
<1>2. UNCHANGED <<built, section, item>>
  BY DEF BeginBlock, ReadInstr, module
<1>3. IsSeq(exprs') /\ exprs' # <<>> /\ \E p \in Nat : Consume(p)
  <2>1. CASE BeginBlock
    <3>1. exprs' = Append(exprs, Reader(Opcode, Byte(pos + 1))) /\ Consume(pos + 2)
      BY <2>1 DEF BeginBlock
    <3> QED
      BY <1>1, <3>1, AppendIsSeq
  <2>2. CASE ReadInstr
    <3> DEFINE r == Immediates(Opcode, pos + 1)
    <3>1. /\ exprs' = WithInstr(exprs, Instr(Opcode, r.val, 0, <<>>, 0))
          /\ Consume(r.pos)
      BY <2>2 DEF ReadInstr
    <3>2. r.pos \in Nat
      BY <1>1, ImmediatesType
    <3> HIDE DEF r
    <3> QED
      BY <1>1, <3>1, <3>2, WithInstrType
  <2> QED
    BY <2>1, <2>2
<1>4. file' = file /\ junk' \in [0..1 -> Nat] /\ pos' \in Nat
  BY <1>1, <1>3, ConsumeType
<1>5. Typed'
  BY <1>1, <1>2, <1>3, <1>4 DEF Typed
<1> QED
  BY <1>1, <1>2, <1>3, <1>5 DEF DInv, Nested, CodeDeclared, IsSeq

(* readExpr returns.                                                       *)
LEMMA ReturnStep ==
  ASSUME DInv, InExpr, NEW p \in Nat, ReturnTo(p)
  PROVE  DInv'
<1> DEFINE codes == Append(Inner.instrs, EndInstr)
           rest == IF section.id \in {SectionElement, SectionData} THEN ReadVec(p) ELSE Read(<<>>, p)
<1>1. /\ Typed /\ pos \in Nat /\ IsSeq(exprs) /\ exprs # <<>>
      /\ section.id \in WithExpr /\ section.next < section.size
      /\ section.id # SectionCustom /\ CodeDeclared
  BY ExprFacts DEF DInv
<1>2. rest.pos \in Nat
  BY <1>1, ReturnType
<1>3. CASE Len(exprs) > 1
  <2>1. /\ exprs' = WithInstr(Front(exprs), BlockInstr(Inner, codes)) /\ Consume(p)
        /\ UNCHANGED <<built, section, item>>
    BY <1>3 DEF ReturnTo, module
  <2> HIDE DEF codes, rest
  <2>2. IsSeq(exprs') /\ exprs' # <<>>
    BY <1>1, <1>3, <2>1, FrontIsSeq, WithInstrType
  <2>3. file' = file /\ junk' \in [0..1 -> Nat] /\ pos' \in Nat
    BY <1>1, <2>1, ConsumeType
  <2>4. Typed'
    BY <1>1, <2>1, <2>2, <2>3 DEF Typed
  <2> QED
    BY <1>1, <2>1, <2>2, <2>4 DEF DInv, Nested, CodeDeclared
<1>4. CASE ~(Len(exprs) > 1)
  <2>1. /\ exprs' = <<>> /\ item' = <<>> /\ section' = [section EXCEPT !.next = @ + 1]
        /\ Consume(rest.pos)
    BY <1>4 DEF ReturnTo, NextItem
  <2>2. \/ /\ section.id = SectionCode
           /\ built' = [built EXCEPT ![SectionFunction][section.next + 1].codes = codes]
        \/ /\ section.id # SectionCode
           /\ \E x : built' = [built EXCEPT ![section.id] = Append(@, x)]
    <3>1. Keep(codes, rest.val)
      BY <1>4 DEF ReturnTo
    <3> HIDE DEF codes, rest
    <3>2. \/ /\ section.id = SectionCode
             /\ built' = [built EXCEPT ![SectionFunction][section.next + 1].codes = codes]
          \/ /\ section.id = SectionGlobal
             /\ Add(section.id, [type |-> item, init |-> codes])
          \/ /\ section.id \in {SectionElement, SectionData}
             /\ Add(section.id, [idx |-> item[1], offset |-> codes, init |-> rest.val])
      BY <3>1, Zenon DEF Keep
    <3>3. section.id \in {SectionGlobal, SectionElement, SectionData} => section.id # SectionCode
      BY DEF SectionCode, SectionGlobal, SectionElement, SectionData
    <3> QED
      BY <3>2, <3>3, Zenon DEF Add
  <2> HIDE DEF codes, rest
  <2>3. file' = file /\ junk' \in [0..1 -> Nat] /\ pos' \in Nat
    BY <1>1, <1>2, <2>1, ConsumeType
  <2>4. /\ DOMAIN built' = DOMAIN built /\ IsSeq(built'[SectionFunction])
        /\ Len(built'[SectionFunction]) = Len(built[SectionFunction])
    <3>1. IsSeq(built[SectionFunction]) /\ SectionFunction \in DOMAIN built
      BY <1>1 DEF Typed, SectionFunction, SectionType, SectionData
    <3>2. CASE section.id = SectionCode
      <4> DEFINE f == [built[SectionFunction][section.next + 1] EXCEPT !.codes = codes]
      <4>1. built' = [built EXCEPT ![SectionFunction] = [@ EXCEPT ![section.next + 1] = f]]
        BY <2>2, <3>2
      <4> HIDE DEF f
      <4>2. built'[SectionFunction] = [built[SectionFunction] EXCEPT ![section.next + 1] = f]
        BY <3>1, <4>1
      <4>3. DOMAIN built' = DOMAIN built
        BY <4>1
      <4> DEFINE g == [built[SectionFunction] EXCEPT ![section.next + 1] = f]
      <4>4. IsSeq(g) /\ Len(g) = Len(built[SectionFunction])
        BY <3>1, ExceptIsSeq
      <4> HIDE DEF g
      <4> QED
        BY <4>2, <4>3, <4>4 DEF g
    <3>3. CASE section.id # SectionCode
      <4>1. PICK x : built' = [built EXCEPT ![section.id] = Append(@, x)]
        BY <2>2, <3>3
      <4>2. section.id # SectionFunction
        BY <1>1 DEF WithExpr, SectionFunction, SectionGlobal, SectionElement, SectionCode, SectionData
      <4>3. DOMAIN built' = DOMAIN built /\ built'[SectionFunction] = built[SectionFunction]
        BY <3>1, <4>1, <4>2
      <4> QED
        BY <3>1, <4>3
    <3> QED
      BY <3>2, <3>3
  <2>5. /\ section' \in [id : SectionCustom..SectionLength, size : Nat, next : Nat]
        /\ section'.id = section.id /\ section'.size = section.size
        /\ section'.next <= section'.size
    <3>1. section \in [id : SectionCustom..SectionLength, size : Nat, next : Nat]
      BY <1>1 DEF Typed
    <3> QED
      BY <1>1, <2>1, <3>1
  <2>6. section.id # SectionLength
    BY <1>1 DEF WithExpr, SectionLength, SectionGlobal, SectionElement, SectionCode, SectionData
  <2>7. IsSeq(exprs')
    BY <2>1, EmptySeq DEF IsSeq
  <2>8. Typed'
    BY <1>1, <2>3, <2>4, <2>5, <2>7 DEF Typed
  <2> QED
    BY <1>1, <2>1, <2>4, <2>5, <2>6, <2>8 DEF DInv, Nested, CodeDeclared
<1> QED
  BY <1>3, <1>4

-----------------------------------------------------------------------------
LEMMA Initially == Init => DInv
<1> SUFFICES ASSUME Init PROVE DInv
  OBVIOUS
<1>1. file \in Seq(Nat) /\ junk \in [0..1 -> Nat] /\ pos \in Nat
  <2>1. file \in Files /\ junk \in [0..1 -> Garbage] /\ pos = 0
    BY DEF Init
  <2>2. Garbage \subseteq Nat /\ \A f \in Files : f \in Seq(Nat)
    BY DecoderAssumption
  <2> QED
    BY <2>1, <2>2
<1>2. IsSeq(<<>>)
  BY EmptySeq DEF IsSeq
<1>3. DOMAIN built = SectionType..SectionData /\ built[SectionFunction] = <<>>
  BY DEF Init, SectionFunction, SectionType, SectionData
<1>4. section = [id |-> SectionLength, size |-> 0, next |-> 0] /\ exprs = <<>> /\ item = <<>>
  BY DEF Init, NoSection, Section
<1>5. Typed
  BY <1>1, <1>2, <1>3, <1>4 DEF Typed, SectionCustom, SectionLength, SectionStart
<1> QED
  BY <1>4, <1>5
  DEF DInv, Nested, CodeDeclared, NoSection, Section, SectionLength, SectionCode

LEMMA Inductive == DInv /\ [Next]_vars => DInv'
<1> SUFFICES ASSUME DInv, [Next]_vars PROVE DInv'
  OBVIOUS
<1>1. CASE ReadHeader \/ EndOfFile \/ InvalidSection \/ MoreCode \/ SkipCustom
           \/ TooManyTypes \/ OutOfMemory \/ SkipReserved
  BY <1>1, OutsideStep
<1>2. CASE BeginSection \/ StartSection \/ NameSection \/ EndSection \/ EndNames
  BY <1>2, SectionStep
<1>3. CASE ReadSubsection \/ ModuleName \/ SkipSubsection
  BY <1>3, NamesStep
<1>4. CASE ReadItem
  BY <1>4, ItemStep
<1>5. CASE BeginItem
  BY <1>5, BeginItemStep
<1>6. CASE BeginBlock \/ ReadInstr
  BY <1>6, ExprStep
<1>7. CASE EndExpr \/ BreakExpr
  <2>1. pos \in Nat
    BY DEF DInv, Typed
  <2>2. InExpr /\ \E p \in Nat : ReturnTo(p)
    BY <1>7, <2>1 DEF EndExpr, BreakExpr
  <2> QED
    BY <2>2, ReturnStep
<1>8. CASE UNCHANGED vars
  BY <1>8 DEF vars, stream, module, DInv, Typed, Nested, CodeDeclared, IsSeq, NoSection, Section
<1> QED
  BY <1>1, <1>2, <1>3, <1>4, <1>5, <1>6, <1>7, <1>8 DEF Next

(* For every file, whatever the uninitialised variables hold that failing  *)
(* reads leave: readSection_code stores a body only in an entry of         *)
(* Module::funcs that the function section has made.                       *)
THEOREM BodiesDeclared == Spec => []CodeDeclared
<1>1. DInv => CodeDeclared
  BY DEF DInv
<1> QED
  BY Initially, Inductive, <1>1, PTL DEF Spec

-----------------------------------------------------------------------------
(* The type invariant.  What the steps do to the state of the stream, to   *)
(* status and to the place in the section.                                 *)
Statuses == {"header", "reading", "ok", "failed", "undefined", "exhausted"}
Bits == failbit \in BOOLEAN /\ eofbit \in BOOLEAN
Counts == section.id \in SectionType..SectionData => section.next <= section.size
Counted == Bits /\ status \in Statuses /\ Counts

LEMMA ConsumeBits ==
  ASSUME Bits, NEW p, Consume(p)
  PROVE  Bits'
<1>1. failbit' \in BOOLEAN
  BY Zenon DEF Bits, Consume
<1>2. eofbit' \in BOOLEAN
  BY Zenon DEF Bits, Consume
<1> QED
  BY <1>1, <1>2 DEF Bits

LEMMA SeekBits ==
  ASSUME Bits, NEW p, Seek(p)
  PROVE  Bits'
BY DEF Bits, Seek

(* Steps between sections and of expressions: the section stays, or is     *)
(* begun at 0, or ends.                                                    *)
LEMMA BitsKept ==
  ASSUME DInv, Counted, Next
  PROVE  Bits'
<1>1. Bits
  BY DEF Counted
<1>2. CASE \E p : Consume(p)
  BY <1>1, <1>2, ConsumeBits
<1>3. CASE \E p : Seek(p)
  BY <1>1, <1>3, SeekBits
<1>4. CASE UNCHANGED <<failbit, eofbit>>
  BY <1>1, <1>4 DEF Bits
<1>5. CASE SkipCustom
  <2>1. PICK failed \in BOOLEAN : failbit' = failed /\ eofbit' = FALSE
    <3>1. (failbit \/ pos + 3 > Len(file)) \in BOOLEAN
      BY Zenon DEF Bits
    <3> QED
      BY <1>5, <3>1, Zenon DEF SkipCustom
  <2> QED
    BY <2>1 DEF Bits
<1>6. ASSUME NEW p, InExpr, ReturnTo(p) PROVE \E q : Consume(q)
  BY <1>6, Zenon DEF ReturnTo
<1>7. CASE ReadHeader \/ EndOfFile \/ InvalidSection \/ MoreCode \/ BeginSection \/ StartSection
           \/ NameSection \/ ReadSubsection \/ ModuleName \/ ReadItem \/ BeginItem \/ BeginBlock
           \/ ReadInstr \/ SkipReserved
  <2>1. \E p : Consume(p)
    BY <1>7, Zenon
    DEF ReadHeader, EndOfFile, InvalidSection, MoreCode, BeginSection, StartSection, NameSection,
        ReadSubsection, ModuleName, ReadItem, BeginItem, BeginBlock, ReadInstr, SkipReserved
  <2> QED
    BY <1>2, <2>1
<1>8. CASE EndExpr \/ BreakExpr
  <2>1. \E p : Consume(p)
    BY <1>6, <1>8, Zenon DEF EndExpr, BreakExpr
  <2> QED
    BY <1>2, <2>1
<1>9. CASE SkipSubsection
  <2>1. \E p : Seek(p)
    BY <1>9 DEF SkipSubsection
  <2> QED
    BY <1>3, <2>1
<1>10. CASE EndNames \/ EndSection \/ TooManyTypes \/ OutOfMemory
  <2>1. UNCHANGED stream
    BY <1>10 DEF EndNames, EndSection, TooManyTypes, OutOfMemory
  <2> QED
    BY <1>4, <2>1 DEF stream
<1> QED
  BY <1>5, <1>7, <1>8, <1>9, <1>10 DEF Next

LEMMA StatusKept ==
  ASSUME Counted, Next
  PROVE  status' \in Statuses
<1>1. status \in Statuses
  BY DEF Counted
<1> QED
  BY <1>1
  DEF Next, Statuses, End, ReadHeader, EndOfFile, InvalidSection, MoreCode, BeginSection,
      StartSection, SkipCustom, NameSection, ReadSubsection, ModuleName, SkipSubsection, EndNames,
      EndSection, TooManyTypes, ReadItem, BeginItem, OutOfMemory, BeginBlock, ReadInstr,
      SkipReserved, EndExpr, BreakExpr

(* A place moves on only below the size.                                   *)
LEMMA CountsKept ==
  ASSUME DInv, Counted, Next
  PROVE  Counts'
<1>1. Typed /\ section \in [id : SectionCustom..SectionLength, size : Nat, next : Nat] /\ pos \in Nat
  BY DEF DInv, Typed
<1>2. CASE UNCHANGED section
  BY <1>2 DEF Counted, Counts
<1>3. CASE section' = NoSection
  BY <1>3 DEF Counts, NoSection, Section, SectionLength, SectionType, SectionData
<1>4. CASE section.next < section.size /\ NextItem
  <2>1. section'.next = section.next + 1 /\ section'.size = section.size
    BY <1>1, <1>4 DEF NextItem
  <2> QED
    BY <1>1, <1>4, <2>1 DEF Counts
<1>5. CASE BeginSection
  <2>1. PICK id : section' = Section(id, Count)
    BY <1>5 DEF BeginSection
  <2>2. Count \in Nat
    BY <1>1, ByteType DEF Count
  <2> QED
    BY <2>1, <2>2 DEF Counts, Section
<1>6. CASE NameSection
  BY <1>6 DEF NameSection, Counts, Section, SectionCustom, SectionType
<1>7. CASE ReadItem
  BY <1>4, <1>7 DEF ReadItem, MoreItems
<1>8. CASE EndExpr \/ BreakExpr
  <2>1. section.next < section.size /\ exprs # <<>>
    BY <1>8, ExprFacts DEF EndExpr, BreakExpr
  <2>2. NextItem \/ UNCHANGED section
    BY <1>8 DEF EndExpr, BreakExpr, ReturnTo
  <2> QED
    BY <1>2, <1>4, <2>1, <2>2
<1>9. CASE EndNames \/ EndSection
  BY <1>3, <1>9 DEF EndNames, EndSection
<1>10. CASE ReadHeader \/ EndOfFile \/ InvalidSection \/ MoreCode \/ StartSection \/ SkipCustom
            \/ ReadSubsection \/ ModuleName \/ SkipSubsection \/ TooManyTypes \/ BeginItem
            \/ OutOfMemory \/ BeginBlock \/ ReadInstr \/ SkipReserved
  <2>1. UNCHANGED section
    BY <1>10
    DEF ReadHeader, EndOfFile, InvalidSection, MoreCode, StartSection, SkipCustom, ReadSubsection,
        ModuleName, SkipSubsection, TooManyTypes, BeginItem, OutOfMemory, BeginBlock, ReadInstr,
        SkipReserved, End
  <2> QED
    BY <1>2, <2>1
<1> QED
  BY <1>5, <1>6, <1>7, <1>8, <1>9, <1>10 DEF Next

LEMMA CountedInitially == Init => Counted
<1> SUFFICES ASSUME Init PROVE Counted
  OBVIOUS
<1>1. Bits
  BY DEF Init, Bits
<1>2. Counts
  BY DEF Init, Counts, NoSection, Section
<1>3. status \in Statuses
  BY DEF Init, Statuses
<1> QED
  BY <1>1, <1>2, <1>3 DEF Counted

LEMMA CountedInductive == DInv /\ Counted /\ [Next]_vars => Counted'
<1> SUFFICES ASSUME DInv, Counted, [Next]_vars PROVE Counted'
  OBVIOUS
<1>1. CASE Next
  BY <1>1, BitsKept, StatusKept, CountsKept DEF Counted
<1>2. CASE UNCHANGED vars
  BY <1>2 DEF vars, stream, module, Counted, Bits, Counts, Statuses
<1> QED
  BY <1>1, <1>2

(* For every file and whatever failing reads leave: the decoder's state    *)
(* keeps its types, no reader of a section goes on past the count, and     *)
(* readExpr has calls only in sections that have expressions.              *)
THEOREM DecoderTyped == Spec => []DecoderTypeInv
<1>1. ASSUME DInv, Counted PROVE DecoderTypeInv
  <2>1. pos \in Nat /\ section \in [id : SectionCustom..SectionLength, size : Nat, next : Nat]
    BY <1>1 DEF DInv, Typed
  <2>2. section.id \in SectionType..SectionData => section.next \in 0..section.size
    BY <1>1, <2>1 DEF Counted, Counts
  <2>3. exprs # <<>> => section.id \in WithExpr
    BY <1>1 DEF DInv, Nested
  <2> QED
    BY <1>1, <2>1, <2>2, <2>3, Zenon DEF DecoderTypeInv, Counted, Bits, Statuses
<1> QED
  BY Initially, Inductive, CountedInitially, CountedInductive, <1>1, PTL DEF Spec

-----------------------------------------------------------------------------
(* Where code ends.  Ended is what its definition says: a function that is *)
(* defined by recursion exists.                                            *)
LEMMA NatSetInduction ==
  ASSUME NEW S, 0 \in S, \A n \in Nat : n \in S => n + 1 \in S
  PROVE  \A n \in Nat : n \in S
<1> DEFINE T == {n \in Nat : n \notin S}
           R == {ss \in Nat \X Nat : ss[1] < ss[2]}
<1>1. SUFFICES ASSUME T # {} PROVE FALSE
  OBVIOUS
<1>2. IsWellFoundedOn(R, Nat)
  BY NatLessThanWellFounded, Zenon DEF OpToRel
<1>3. T \subseteq Nat
  OBVIOUS
<1> HIDE DEF T, R
<1>4. PICK x \in T : \A y \in T : ~(<<y, x>> \in R)
  BY <1>1, <1>2, <1>3, WFMin
<1>5. x \in Nat /\ x # 0 /\ x \notin S
  BY <1>3 DEF T
<1>6. x - 1 \in Nat /\ x - 1 < x /\ (x - 1) + 1 = x
  BY <1>5
<1>7. <<x - 1, x>> \in R
  BY <1>5, <1>6 DEF R
<1>8. x - 1 \in S
  BY <1>4, <1>6, <1>7 DEF T
<1> QED
  BY <1>5, <1>6, <1>8

EndedUpTo(g, n) == g = [d \in 0..n |-> IF d = 0 THEN {} ELSE WithEnds(g[d - 1])]

LEMMA EndedUpToExists == \A n \in Nat : \E g : EndedUpTo(g, n)
<1> DEFINE S == {n \in Nat : \E g : EndedUpTo(g, n)}
<1>1. 0 \in S
  <2>1. EndedUpTo([d \in 0..0 |-> {}], 0)
    BY DEF EndedUpTo
  <2> QED
    BY <2>1
<1>2. ASSUME NEW n \in Nat, n \in S PROVE n + 1 \in S
  <2>1. PICK g : EndedUpTo(g, n)
    BY <1>2
  <2> DEFINE h == [d \in 0..(n + 1) |-> IF d = 0 THEN {} ELSE WithEnds(g[d - 1])]
  <2>2. \A d \in 0..n : h[d] = g[d]
    <3>1. \A d \in 0..n : g[d] = IF d = 0 THEN {} ELSE WithEnds(g[d - 1])
      BY <2>1, Zenon DEF EndedUpTo
    <3>2. \A d \in 0..n : d \in 0..(n + 1)
      OBVIOUS
    <3> QED
      BY <3>1, <3>2
  <2>3. \A d \in 0..(n + 1) : d # 0 => d - 1 \in 0..n
    OBVIOUS
  <2>4. \A d \in 0..(n + 1) : h[d] = IF d = 0 THEN {} ELSE WithEnds(h[d - 1])
    BY <2>2, <2>3
  <2>5. h = [d \in 0..(n + 1) |-> h[d]]
    OBVIOUS
  <2> HIDE DEF h
  <2>6. EndedUpTo(h, n + 1)
    BY <2>4, <2>5, Zenon DEF EndedUpTo
  <2> QED
    BY <2>6
<1> HIDE DEF S
<1>3. \A n \in Nat : n \in S
  BY <1>1, <1>2, NatSetInduction
<1> QED
  BY <1>3 DEF S

LEMMA EndedUpToUnique ==
  \A n \in Nat : \A m, k \in Nat : \A g, h :
    n <= m /\ n <= k /\ EndedUpTo(g, m) /\ EndedUpTo(h, k) => g[n] = h[n]
<1> DEFINE S == {n \in Nat : \A m, k \in Nat : \A g, h :
                  n <= m /\ n <= k /\ EndedUpTo(g, m) /\ EndedUpTo(h, k) => g[n] = h[n]}
<1>1. \A m \in Nat : \A n \in 0..m : \A g :
        EndedUpTo(g, m) => g[n] = IF n = 0 THEN {} ELSE WithEnds(g[n - 1])
  BY Zenon DEF EndedUpTo
<1>2. 0 \in S
  <2>1. \A m \in Nat : 0 \in 0..m
    OBVIOUS
  <2> QED
    BY <1>1, <2>1
<1>3. ASSUME NEW n \in Nat, n \in S PROVE n + 1 \in S
  <2>1. SUFFICES ASSUME NEW m \in Nat, NEW k \in Nat, NEW g, NEW h, n + 1 <= m, n + 1 <= k,
                        EndedUpTo(g, m), EndedUpTo(h, k)
                 PROVE  g[n + 1] = h[n + 1]
    OBVIOUS
  <2>2. n + 1 \in 0..m /\ n + 1 \in 0..k /\ n <= m /\ n <= k /\ n + 1 # 0 /\ (n + 1) - 1 = n
    BY <2>1
  <2>3. g[n] = h[n]
    BY <1>3, <2>1, <2>2
  <2>4. g[n + 1] = WithEnds(g[n]) /\ h[n + 1] = WithEnds(h[n])
    BY <1>1, <2>1, <2>2
  <2> QED
    BY <2>3, <2>4
<1> HIDE DEF S
<1>4. \A n \in Nat : n \in S
  BY <1>2, <1>3, NatSetInduction
<1> QED
  BY <1>4 DEF S

LEMMA EndedDef ==
  \A d \in Nat : Ended[d] = IF d = 0 THEN {} ELSE WithEnds(Ended[d - 1])
<1> DEFINE upTo(n) == CHOOSE g : EndedUpTo(g, n)
           f == [d \in Nat |-> upTo(d)[d]]
<1>1. \A n \in Nat : EndedUpTo(upTo(n), n)
  BY EndedUpToExists
<1>2. ASSUME NEW d \in Nat PROVE f[d] = IF d = 0 THEN {} ELSE WithEnds(f[d - 1])
  <2> HIDE DEF upTo
  <2>1. d \in 0..d
    OBVIOUS
  <2>2. upTo(d)[d] = IF d = 0 THEN {} ELSE WithEnds(upTo(d)[d - 1])
    BY <1>1, <2>1, Zenon DEF EndedUpTo
  <2>3. CASE d = 0
    BY <2>2, <2>3
  <2>4. CASE d # 0
    <3>1. d - 1 \in Nat /\ d - 1 <= d /\ d - 1 <= d - 1
      BY <2>4
    <3>2. upTo(d)[d - 1] = upTo(d - 1)[d - 1]
      BY <1>1, <3>1, EndedUpToUnique
    <3>3. f[d - 1] = upTo(d - 1)[d - 1] /\ f[d] = upTo(d)[d]
      BY <3>1
    <3> HIDE DEF f
    <3> QED
      BY <2>2, <2>4, <3>2, <3>3
  <2> QED
    BY <2>3, <2>4
<1>3. f = [d \in Nat |-> f[d]]
  OBVIOUS
<1> HIDE DEF f
<1>4. f = [d \in Nat |-> IF d = 0 THEN {} ELSE WithEnds(f[d - 1])]
  BY <1>2, <1>3, Zenon
<1>5. Ended = [d \in Nat |-> IF d = 0 THEN {} ELSE WithEnds(Ended[d - 1])]
  BY <1>4, Zenon DEF Ended
<1> QED
  BY <1>5, Zenon

LEMMA InEnded ==
  ASSUME NEW d \in Nat, NEW codes
  PROVE  codes \in Ended[d + 1] <=>
           /\ codes \in Seq(Instrs(Ended[d]))
           /\ codes # <<>> /\ codes[Len(codes)] = EndInstr
           /\ \A i \in DOMAIN codes : BlockEnds(codes[i])
<1>1. d + 1 \in Nat /\ d + 1 # 0 /\ (d + 1) - 1 = d
  OBVIOUS
<1> QED
  BY <1>1, EndedDef, Zenon DEF WithEnds

LEMMA FirstPosition ==
  ASSUME NEW P \in SUBSET Nat, P # {}
  PROVE  Min(P) \in P /\ \A p \in P : Min(P) <= p
<1> DEFINE R == {ss \in Nat \X Nat : ss[1] < ss[2]}
<1>1. IsWellFoundedOn(R, Nat)
  BY NatLessThanWellFounded, Zenon DEF OpToRel
<1>2. PICK x \in P : \A y \in P : ~(<<y, x>> \in R)
  <2> HIDE DEF R
  <2> QED
    BY <1>1, WFMin
<1>3. ASSUME NEW y \in P PROVE x <= y
  <2>1. x \in Nat /\ y \in Nat /\ ~(<<y, x>> \in R)
    BY <1>2
  <2> QED
    BY <2>1
<1> QED
  BY <1>2, <1>3 DEF Min

(* The else that ElseIdx finds is the first one.                           *)
LEMMA ElseFound ==
  ASSUME NEW S, NEW codes \in Seq(S)
  PROVE  /\ ElseIdx(codes) \in 0..Len(codes)
         /\ ElseIdx(codes) < Len(codes) =>
              /\ IsElse(codes[ElseIdx(codes) + 1])
              /\ \A i \in 1..ElseIdx(codes) : ~IsElse(codes[i])
         /\ ElseIdx(codes) = Len(codes) => \A i \in 1..Len(codes) : ~IsElse(codes[i])
<1> DEFINE I == {i \in 1..Len(codes) : IsElse(codes[i])}
<1>1. Len(codes) \in Nat /\ I \in SUBSET Nat
  OBVIOUS
<1>2. SelectInSeq(codes, IsElse) = IF I # {} THEN Min(I) ELSE 0
  BY DEF SelectInSeq
<1>3. \A i \in 1..Len(codes) : i \in I <=> IsElse(codes[i])
  OBVIOUS
<1>4. I \subseteq 1..Len(codes)
  OBVIOUS
<1> HIDE DEF I
<1>5. CASE I = {}
  BY <1>1, <1>2, <1>3, <1>5 DEF ElseIdx
<1>6. CASE I # {}
  <2>1. Min(I) \in I /\ \A i \in I : Min(I) <= i
    BY <1>1, <1>6, FirstPosition
  <2>2. Min(I) \in 1..Len(codes)
    BY <1>4, <2>1
  <2>3. ElseIdx(codes) = Min(I) - 1
    BY <1>1, <1>2, <1>6, <2>2 DEF ElseIdx
  <2> DEFINE m == Min(I)
  <2> HIDE DEF m
  <2>4. m \in 1..Len(codes) /\ ElseIdx(codes) = m - 1 /\ IsElse(codes[m])
    BY <1>3, <2>1, <2>2, <2>3 DEF m
  <2>5. \A i \in 1..Len(codes) : i < m => ~IsElse(codes[i])
    BY <1>3, <2>1, <2>4 DEF m
  <2> QED
    BY <1>1, <2>4, <2>5
<1> QED
  BY <1>5, <1>6

-----------------------------------------------------------------------------
(* The invariant: what a reader has read so far can be nested as deep as   *)
(* the calls of readExpr above it leave room for.                          *)
ReaderEnds(r, bodies) ==
  /\ r \in [op : Nat, type : Nat, instrs : Seq(Instrs(bodies))]
  /\ \A i \in DOMAIN r.instrs : BlockEnds(r.instrs[i])
ReadersEnd ==
  /\ Len(exprs) <= MaxList
  /\ \A k \in 1..Len(exprs) : ReaderEnds(exprs[k], Ended[MaxList - k])

HasCodes(f) == "codes" \in DOMAIN f /\ f.codes \in Codes \cup {<<>>}
ListsEnd ==
  /\ \A i \in DOMAIN built[SectionFunction] : HasCodes(built[SectionFunction][i])
  /\ IsSeq(built[SectionGlobal]) /\ IsSeq(built[SectionElement]) /\ IsSeq(built[SectionData])
  /\ CodesEnded

LEMMA AppendElements ==
  ASSUME NEW s, IsSeq(s), NEW e
  PROVE  \A i \in DOMAIN Append(s, e) :
           \/ i \in DOMAIN s /\ Append(s, e)[i] = s[i]
           \/ Append(s, e)[i] = e
<1>1. PICK S : s \in Seq(S)
  BY DEF IsSeq
<1>2. s \in Seq(S \cup {e}) /\ e \in S \cup {e}
  BY <1>1, SeqMonotonic
<1>3. /\ DOMAIN s = 1..Len(s) /\ Len(s) \in Nat /\ DOMAIN Append(s, e) = 1..(Len(s) + 1)
      /\ \A i \in 1..Len(s) : Append(s, e)[i] = s[i]
      /\ Append(s, e)[Len(s) + 1] = e
  BY <1>2, AppendProperties, LenProperties
<1> QED
  BY <1>3

LEMMA EndInstrEnds ==
  /\ \A bodies : EndInstr \in Instrs(bodies)
  /\ BlockEnds(EndInstr) /\ ~IsElse(EndInstr)
<1>1. <<>> \in Seq(Nat)
  OBVIOUS
<1> QED
  BY <1>1
  DEF EndInstr, Instr, Instrs, BlockEnds, Blocks, Op_block, Op_if, Op_end, IsElse, Op_else

(* A list that is closed has its ends, and so has what an if makes of it.  *)
LEMMA ListClosed ==
  ASSUME NEW d \in Nat, NEW r, ReaderEnds(r, Ended[d])
  PROVE  Append(r.instrs, EndInstr) \in Ended[d + 1]
<1> DEFINE s == r.instrs
           codes == Append(s, EndInstr)
<1>1. s \in Seq(Instrs(Ended[d])) /\ EndInstr \in Instrs(Ended[d])
  BY EndInstrEnds DEF ReaderEnds
<1>2. /\ codes \in Seq(Instrs(Ended[d])) /\ Len(codes) = Len(s) + 1 /\ codes[Len(codes)] = EndInstr
      /\ Len(s) \in Nat
  BY <1>1, AppendProperties, LenProperties
<1>3. codes # <<>>
  BY <1>2
<1>4. \A i \in DOMAIN codes : BlockEnds(codes[i])
  <2>1. \A i \in DOMAIN codes :
          \/ i \in DOMAIN s /\ codes[i] = s[i]
          \/ codes[i] = EndInstr
    BY <1>1, AppendElements DEF IsSeq
  <2> QED
    BY <2>1, EndInstrEnds DEF ReaderEnds
<1> QED
  BY <1>2, <1>3, <1>4, InEnded

LEMMA ElseReplaced ==
  ASSUME NEW d \in Nat, NEW codes \in Ended[d]
  PROVE  /\ WithoutElse(codes) \in Ended[d] /\ Len(WithoutElse(codes)) = Len(codes)
         /\ ElseIdx(codes) \in Nat
         /\ ElseIdx(codes) < Len(codes) =>
              /\ ElseIdx(codes) + 1 < Len(codes)
              /\ WithoutElse(codes)[ElseIdx(codes) + 1] = EndInstr
<1>1. d # 0
  BY EndedDef
<1> DEFINE c == d - 1
           b == Ended[c]
<1>2. c \in Nat /\ d = c + 1
  BY <1>1
<1> HIDE DEF c
<1>3. /\ codes \in Seq(Instrs(b)) /\ codes # <<>> /\ codes[Len(codes)] = EndInstr
      /\ \A i \in DOMAIN codes : BlockEnds(codes[i])
  BY <1>2, InEnded
<1> HIDE DEF b
<1>4. Len(codes) \in Nat /\ DOMAIN codes = 1..Len(codes)
  BY <1>3, LenProperties
<1> DEFINE e == ElseIdx(codes)
<1>5. /\ e \in 0..Len(codes)
      /\ e < Len(codes) => IsElse(codes[e + 1])
  BY <1>3, ElseFound
<1> HIDE DEF e
<1>6. CASE ~(e < Len(codes))
  BY <1>4, <1>5, <1>6 DEF WithoutElse, e
<1>7. CASE e < Len(codes)
  <2>1. e + 1 # Len(codes) /\ e + 1 \in 1..Len(codes) /\ e + 1 < Len(codes)
    <3>1. codes[e + 1] # codes[Len(codes)]
      BY <1>3, <1>5, <1>7, EndInstrEnds DEF IsElse
    <3>2. e + 1 # Len(codes)
      BY <3>1
    <3>3. e \in 0..Len(codes)
      BY <1>5
    <3>4. e \in Nat /\ Len(codes) \in Nat /\ e < Len(codes)
      BY <1>4, <1>7, <3>3
    <3> QED
      BY <3>2, <3>4
  <2> DEFINE w == [codes EXCEPT ![e + 1] = EndInstr]
  <2>2. WithoutElse(codes) = w
    BY <1>7 DEF WithoutElse, e
  <2>3. /\ w \in Seq(Instrs(b)) /\ Len(w) = Len(codes) /\ w[e + 1] = EndInstr
        /\ DOMAIN w = DOMAIN codes
        /\ \A i \in DOMAIN codes : i # e + 1 => w[i] = codes[i]
    BY <1>3, <1>4, <2>1, EndInstrEnds, ExceptSeq
  <2> HIDE DEF w
  <2>4. \A i \in DOMAIN w : BlockEnds(w[i])
    BY <1>3, <2>3, EndInstrEnds
  <2>5. w # <<>> /\ w[Len(w)] = EndInstr
    BY <1>3, <1>4, <2>1, <2>3
  <2>6. w \in Ended[d]
    BY <1>2, <2>3, <2>4, <2>5, InEnded DEF b
  <2> QED
    BY <1>5, <2>1, <2>2, <2>3, <2>6 DEF e
<1> QED
  BY <1>6, <1>7

LEMMA BlockClosed ==
  ASSUME NEW d \in Nat, NEW r, r.op \in Nat, r.type \in Nat, NEW codes \in Ended[d]
  PROVE  BlockInstr(r, codes) \in Instrs(Ended[d]) /\ BlockEnds(BlockInstr(r, codes))
<1>1. <<>> \in Seq(Nat) /\ 0 \in Nat
  OBVIOUS
<1>2. codes # <<>> /\ WithoutElse(codes) # <<>> /\ WithoutElse(codes) \in Ended[d]
  <2>1. d # 0
    BY EndedDef
  <2>2. d - 1 \in Nat /\ d = (d - 1) + 1
    BY <2>1
  <2> QED
    BY <2>2, ElseReplaced, InEnded
<1>3. CASE r.op = Op_if
  <2>1. BlockInstr(r, codes) = Instr(r.op, <<>>, r.type, WithoutElse(codes), ElseIdx(codes))
    BY <1>3 DEF BlockInstr
  <2>2. BlockInstr(r, codes) \in Instrs(Ended[d])
    BY <1>1, <1>2, <2>1, ElseReplaced DEF Instr, Instrs
  <2> QED
    BY <1>2, <2>1, <2>2, ElseReplaced DEF Instr, BlockEnds
<1>4. CASE r.op # Op_if
  <2>1. BlockInstr(r, codes) = Instr(r.op, <<>>, r.type, codes, 0)
    BY <1>4 DEF BlockInstr
  <2> QED
    BY <1>1, <1>2, <1>4, <2>1 DEF Instr, Instrs, BlockEnds
<1> QED
  BY <1>3, <1>4

-----------------------------------------------------------------------------
(* The steps.                                                              *)
LEMMA ImmediatesAreNat ==
  ASSUME Typed, NEW p \in Nat, NEW op
  PROVE  Immediates(op, p).val \in Seq(Nat)
<1>1. \A q \in Nat : Byte(q) \in Nat
  BY ByteType
<1>2. \A q \in Nat : ReadVec(q).val \in Seq(Nat) /\ ReadVec(q).pos \in Nat
  <2>1. ASSUME NEW q \in Nat
        PROVE  [i \in 1..Byte(q) |-> Byte(q + i)] \in Seq(Nat)
    <3>1. Byte(q) \in Nat /\ \A i \in 1..Byte(q) : Byte(q + i) \in Nat
      BY <1>1
    <3> QED
      BY <3>1, IsASeq
  <2> QED
    BY <2>1, VecType DEF ReadVec, Read
<1>3. Append(ReadVec(p).val, Byte(ReadVec(p).pos)) \in Seq(Nat)
  <2>1. ReadVec(p).val \in Seq(Nat) /\ Byte(ReadVec(p).pos) \in Nat
    BY <1>1, <1>2
  <2> QED
    BY <2>1, AppendProperties
<1>4. /\ Byte(p) \in Nat /\ Byte(p + 1) \in Nat
      /\ <<Byte(p)>> \in Seq(Nat) /\ <<Byte(p), Byte(p + 1)>> \in Seq(Nat) /\ <<>> \in Seq(Nat)
  <2>1. Byte(p) \in Nat /\ Byte(p + 1) \in Nat
    BY <1>1
  <2> QED
    BY <2>1
<1> QED
  BY <1>3, <1>4 DEF Immediates, Read

LEMMA WithInstrEnds ==
  ASSUME NEW s, IsSeq(s), s # <<>>, NEW d, NEW ins \in Instrs(Ended[d]), BlockEnds(ins),
         ReaderEnds(s[Len(s)], Ended[d])
  PROVE  /\ Len(WithInstr(s, ins)) = Len(s)
         /\ ReaderEnds(WithInstr(s, ins)[Len(s)], Ended[d])
         /\ \A k \in 1..(Len(s) - 1) : WithInstr(s, ins)[k] = s[k]
<1> DEFINE r == s[Len(s)]
           e == [r EXCEPT !.instrs = Append(@, ins)]
           w == [s EXCEPT ![Len(s)] = e]
<1>1. WithInstr(s, ins) = w
  BY DEF WithInstr
<1>2. /\ r \in [op : Nat, type : Nat, instrs : Seq(Instrs(Ended[d]))]
      /\ \A i \in DOMAIN r.instrs : BlockEnds(r.instrs[i])
  BY DEF ReaderEnds
<1> HIDE DEF r
<1>3. /\ e \in [op : Nat, type : Nat, instrs : Seq(Instrs(Ended[d]))]
      /\ e.instrs = Append(r.instrs, ins)
  BY <1>2, AppendProperties
<1>4. \A i \in DOMAIN e.instrs : BlockEnds(e.instrs[i])
  <2>1. IsSeq(r.instrs)
    BY <1>2 DEF IsSeq
  <2> QED
    BY <1>2, <1>3, <2>1, AppendElements
<1> HIDE DEF e
<1>5. Len(s) \in Nat /\ DOMAIN s = 1..Len(s) /\ Len(s) # 0
  BY LenProperties, EmptySeq DEF IsSeq
<1>6. w[Len(s)] = e /\ \A k \in 1..(Len(s) - 1) : w[k] = s[k]
  BY <1>5
<1>7. Len(w) = Len(s)
  BY ExceptIsSeq
<1> HIDE DEF w
<1> QED
  BY <1>1, <1>3, <1>4, <1>6, <1>7 DEF ReaderEnds

LEMMA ExprEnds ==
  ASSUME DInv, ReadersEnd, BeginBlock \/ ReadInstr
  PROVE  ReadersEnd'
<1>1. Typed /\ pos \in Nat /\ IsSeq(exprs) /\ exprs # <<>> /\ InExpr
  BY ExprFacts DEF BeginBlock, ReadInstr
<1>2. Len(exprs) \in Nat /\ Len(exprs) # 0 /\ MaxList \in Nat /\ Len(exprs) <= MaxList
  BY <1>1, LenProperties, EmptySeq, DecoderAssumption DEF IsSeq, ReadersEnd
<1>3. ReaderEnds(Inner, Ended[MaxList - Len(exprs)])
  BY <1>2 DEF ReadersEnd, Inner
<1>4. CASE BeginBlock
  <2> DEFINE r == Reader(Opcode, Byte(pos + 1))
  <2>1. exprs' = Append(exprs, r)
    BY <1>4 DEF BeginBlock
  <2>2. Byte(pos + 1) \in Nat /\ Opcode \in Nat
    BY <1>1, ByteType DEF Opcode
  <2>3. \A bodies : ReaderEnds(r, bodies)
    <3>1. \A bodies : <<>> \in Seq(Instrs(bodies))
      OBVIOUS
    <3> QED
      BY <2>2, <3>1 DEF ReaderEnds, Reader
  <2> HIDE DEF r
  <2>4. Len(exprs) < MaxList
    <3>1. Len(Inner.instrs) \in Nat
      BY <1>3, LenProperties DEF ReaderEnds
    <3> QED
      BY <1>1, <1>2, <3>1 DEF InExpr, Used
  <2>5. /\ Len(exprs') = Len(exprs) + 1 /\ exprs'[Len(exprs) + 1] = r
        /\ \A k \in 1..Len(exprs) : exprs'[k] = exprs[k]
    BY <1>1, <2>1, AppendProperties, SeqMonotonic, AppendIsSeq DEF IsSeq
  <2> QED
    BY <1>2, <2>3, <2>4, <2>5 DEF ReadersEnd
<1>5. CASE ReadInstr
  <2> DEFINE m == Immediates(Opcode, pos + 1)
             ins == Instr(Opcode, m.val, 0, <<>>, 0)
  <2>1. exprs' = WithInstr(exprs, ins) /\ Opcode \notin Blocks
    BY <1>5 DEF ReadInstr
  <2>2. m.val \in Seq(Nat) /\ Opcode \in Nat
    BY <1>1, ImmediatesAreNat, ByteType DEF Opcode
  <2> HIDE DEF m
  <2>3. ins \in Instrs(Ended[MaxList - Len(exprs)]) /\ BlockEnds(ins)
    BY <2>1, <2>2 DEF Instr, Instrs, BlockEnds
  <2> HIDE DEF ins
  <2>4. /\ Len(exprs') = Len(exprs)
        /\ ReaderEnds(exprs'[Len(exprs)], Ended[MaxList - Len(exprs)])
        /\ \A k \in 1..(Len(exprs) - 1) : exprs'[k] = exprs[k]
    BY <1>1, <1>3, <2>1, <2>3, WithInstrEnds DEF Inner
  <2>5. \A k \in 1..Len(exprs) : k = Len(exprs) \/ k \in 1..(Len(exprs) - 1)
    BY <1>2
  <2> QED
    BY <1>2, <2>4, <2>5 DEF ReadersEnd
<1> QED
  BY <1>4, <1>5

LEMMA ReturnReadersEnd ==
  ASSUME DInv, ReadersEnd, InExpr, NEW p, ReturnTo(p)
  PROVE  ReadersEnd'
<1>1. Typed /\ IsSeq(exprs) /\ exprs # <<>>
  BY ExprFacts
<1>2. Len(exprs) \in Nat /\ Len(exprs) # 0 /\ MaxList \in Nat /\ Len(exprs) <= MaxList
  BY <1>1, LenProperties, EmptySeq, DecoderAssumption DEF IsSeq, ReadersEnd
<1>3. CASE ~(Len(exprs) > 1)
  <2>1. exprs' = <<>>
    BY <1>3 DEF ReturnTo
  <2> QED
    BY <1>2, <2>1 DEF ReadersEnd
<1>4. CASE Len(exprs) > 1
  <2> DEFINE n == Len(exprs)
             codes == Append(Inner.instrs, EndInstr)
             ins == BlockInstr(Inner, codes)
             s == Front(exprs)
  <2>1. exprs' = WithInstr(s, ins)
    BY <1>4 DEF ReturnTo
  <2>2. ReaderEnds(Inner, Ended[MaxList - n]) /\ MaxList - n \in Nat
    BY <1>2 DEF ReadersEnd, Inner
  <2>3. codes \in Ended[(MaxList - n) + 1]
    BY <2>2, ListClosed
  <2>4. (MaxList - n) + 1 = MaxList - (n - 1) /\ MaxList - (n - 1) \in Nat
    BY <1>2, <1>4
  <2>5. ins \in Instrs(Ended[MaxList - (n - 1)]) /\ BlockEnds(ins)
    <3> HIDE DEF codes
    <3>1. Inner.op \in Nat /\ Inner.type \in Nat
      BY <2>2 DEF ReaderEnds
    <3> QED
      BY <2>3, <2>4, <3>1, BlockClosed
  <2> HIDE DEF codes, ins
  <2>6. /\ IsSeq(s) /\ s # <<>> /\ Len(s) = n - 1
        /\ \A k \in 1..(n - 1) : s[k] = exprs[k]
    <3>1. PICK S : exprs \in Seq(S)
      BY <1>1 DEF IsSeq
    <3>2. \A k \in 1..(n - 1) : exprs[k] \in S
      BY <1>2, <3>1, ElementOfSeq
    <3>3. /\ Len(SubSeq(exprs, 1, n - 1)) = n - 1
          /\ \A k \in 1..(n - 1) : SubSeq(exprs, 1, n - 1)[k] = exprs[k]
      <4> DEFINE m == n - 1
      <4>1. m \in Nat /\ \A k \in 1..m : exprs[k] \in S
        BY <1>2, <3>2
      <4> HIDE DEF m
      <4>2. Len(SubSeq(exprs, 1, m)) = m /\ \A k \in 1..m : SubSeq(exprs, 1, m)[k] = exprs[k]
        <5>1. 1..m = 1..m /\ (m - 1) + 1 = m /\ \A k \in 1..m : (1 + k) - 1 = k
          BY <4>1
        <5> QED
          BY <3>1, <4>1, <5>1, SubSeqProperties
      <4> QED
        BY <4>2 DEF m
    <3> QED
      BY <1>1, <1>4, <3>3, FrontIsSeq DEF Front
  <2> HIDE DEF s
  <2>7. ReaderEnds(s[n - 1], Ended[MaxList - (n - 1)])
    <3>1. n - 1 \in 1..n
      BY <1>2, <1>4
    <3> QED
      BY <2>6, <3>1, <1>4, <1>2 DEF ReadersEnd
  <2>8. /\ Len(exprs') = n - 1
        /\ ReaderEnds(exprs'[n - 1], Ended[MaxList - (n - 1)])
        /\ \A k \in 1..(n - 2) : exprs'[k] = s[k]
    <3>1. Len(s) = n - 1 /\ (n - 1) - 1 = n - 2
      BY <1>2, <2>6
    <3>2. ReaderEnds(s[Len(s)], Ended[MaxList - (n - 1)])
      BY <2>7, <3>1
    <3> QED
      BY <2>1, <2>5, <2>6, <3>1, <3>2, WithInstrEnds
  <2>9. \A k \in 1..(n - 1) : ReaderEnds(exprs'[k], Ended[MaxList - k])
    <3>1. \A k \in 1..(n - 2) : exprs'[k] = exprs[k] /\ k \in 1..n
      BY <1>2, <2>6, <2>8
    <3>2. \A k \in 1..(n - 1) : k = n - 1 \/ k \in 1..(n - 2)
      BY <1>2
    <3> QED
      BY <2>8, <3>1, <3>2 DEF ReadersEnd
  <2>10. Len(exprs') <= MaxList /\ Len(exprs') = n - 1
    BY <1>2, <2>8
  <2> HIDE DEF n
  <2>11. \A k \in 1..Len(exprs') : ReaderEnds(exprs'[k], Ended[MaxList - k])
    BY <2>9, <2>10
  <2> QED
    BY <2>10, <2>11 DEF ReadersEnd
<1> QED
  BY <1>3, <1>4

(* The lists of the module.                                                *)
LEMMA OthersAdded ==
  ASSUME Typed, ListsEnd, NEW id \in SectionType..SectionData, id # SectionFunction, NEW x,
         id = SectionGlobal => x.init \in Codes,
         id \in {SectionElement, SectionData} => x.offset \in Codes,
         built' = [built EXCEPT ![id] = Append(@, x)]
  PROVE  ListsEnd'
<1>1. /\ DOMAIN built = SectionType..SectionData /\ built'[id] = Append(built[id], x)
      /\ \A k \in SectionType..SectionData : k # id => built'[k] = built[k]
  BY DEF Typed
<1>2. /\ {SectionFunction, SectionGlobal, SectionElement, SectionData} \subseteq SectionType..SectionData
      /\ SectionGlobal \notin {SectionElement, SectionData}
  BY DEF SectionFunction, SectionGlobal, SectionElement, SectionData, SectionType
<1>3. built'[SectionFunction] = built[SectionFunction]
  BY <1>1, <1>2
<1>4. ASSUME NEW k \in {SectionGlobal, SectionElement, SectionData}
      PROVE  /\ IsSeq(built'[k])
             /\ \A i \in DOMAIN built'[k] :
                  \/ i \in DOMAIN built[k] /\ built'[k][i] = built[k][i]
                  \/ k = id /\ built'[k][i] = x
  <2>1. IsSeq(built[k]) /\ k \in SectionType..SectionData
    BY <1>2 DEF ListsEnd
  <2>2. CASE k = id
    <3>1. built'[k] = Append(built[k], x)
      BY <1>1, <2>2
    <3>2. IsSeq(Append(built[k], x))
      BY <2>1, AppendIsSeq
    <3>3. \A i \in DOMAIN Append(built[k], x) :
            \/ i \in DOMAIN built[k] /\ Append(built[k], x)[i] = built[k][i]
            \/ Append(built[k], x)[i] = x
      BY <2>1, AppendElements
    <3> QED
      BY <2>2, <3>1, <3>2, <3>3
  <2>3. CASE k # id
    <3>1. built'[k] = built[k]
      BY <1>1, <2>1, <2>3
    <3> QED
      BY <2>1, <3>1
  <2> QED
    BY <2>2, <2>3
<1>5. \A i \in DOMAIN built'[SectionFunction] :
        HasCodes(built'[SectionFunction][i]) /\ built'[SectionFunction][i].codes \in Codes \cup {<<>>}
  BY <1>3 DEF ListsEnd, HasCodes
<1>6. \A i \in DOMAIN built'[SectionGlobal] : built'[SectionGlobal][i].init \in Codes
  BY <1>4 DEF ListsEnd, CodesEnded
<1>7. \A k \in {SectionElement, SectionData} : \A i \in DOMAIN built'[k] : built'[k][i].offset \in Codes
  BY <1>4 DEF ListsEnd, CodesEnded
<1> QED
  BY <1>4, <1>5, <1>6, <1>7 DEF ListsEnd, CodesEnded

LEMMA FunctionsChanged ==
  ASSUME Typed, ListsEnd, NEW fs, built' = [built EXCEPT ![SectionFunction] = fs],
         \A i \in DOMAIN fs : HasCodes(fs[i])
  PROVE  ListsEnd'
<1>1. /\ built'[SectionFunction] = fs /\ built'[SectionGlobal] = built[SectionGlobal]
      /\ built'[SectionElement] = built[SectionElement] /\ built'[SectionData] = built[SectionData]
  BY DEF Typed, SectionFunction, SectionGlobal, SectionElement, SectionData, SectionType
<1> QED
  BY <1>1 DEF ListsEnd, CodesEnded, HasCodes

LEMMA EntryChanged ==
  ASSUME Typed, ListsEnd, NEW i, NEW f,
         i \in DOMAIN built[SectionFunction] => HasCodes(f),
         built' = [built EXCEPT ![SectionFunction] = [@ EXCEPT ![i] = f]]
  PROVE  ListsEnd'
<1> DEFINE fs == [built[SectionFunction] EXCEPT ![i] = f]
<1>1. \A j \in DOMAIN fs : HasCodes(fs[j])
  BY DEF ListsEnd
<1>2. built' = [built EXCEPT ![SectionFunction] = fs]
  BY DEF Typed, SectionFunction, SectionType, SectionData
<1> HIDE DEF fs
<1> QED
  BY <1>1, <1>2, FunctionsChanged

LEMMA ItemLists ==
  ASSUME DInv, ListsEnd, ReadItem
  PROVE  ListsEnd'
<1> DEFINE r == ReadPlain(section.id, pos)
<1>1. /\ Typed /\ section.id \in SectionType..SectionData /\ section.id \notin WithExpr
      /\ built' = [built EXCEPT ![section.id] = Append(@, r.val)]
  BY DEF DInv, ReadItem, MoreItems, InSection, Add
<1>2. CASE section.id = SectionFunction
  <2> DEFINE fs == Append(built[SectionFunction], r.val)
  <2>1. HasCodes(r.val)
    <3>1. r = ReadFunction(pos)
      BY <1>2
      DEF ReadPlain, SectionFunction, SectionType, SectionImport, SectionTable, SectionMemory,
          SectionExport
    <3>2. r.val = [typeIdx |-> Byte(pos), localCnt |-> NotRead, codes |-> <<>>]
      BY <3>1 DEF ReadFunction, Read, Func
    <3> HIDE DEF r
    <3>3. "codes" \in DOMAIN r.val /\ r.val.codes = <<>>
      BY <3>2
    <3> QED
      BY <3>3, Zenon DEF HasCodes
  <2> HIDE DEF r
  <2>2. \A i \in DOMAIN fs :
          \/ i \in DOMAIN built[SectionFunction] /\ fs[i] = built[SectionFunction][i]
          \/ fs[i] = r.val
    BY <1>1, AppendElements DEF Typed
  <2>3. built' = [built EXCEPT ![SectionFunction] = fs]
    BY <1>1, <1>2
  <2>4. \A i \in DOMAIN fs : HasCodes(fs[i])
    BY <2>1, <2>2 DEF ListsEnd
  <2> HIDE DEF fs
  <2> QED
    BY <1>1, <2>3, <2>4, FunctionsChanged
<1>3. CASE section.id # SectionFunction
  <2> HIDE DEF r
  <2>1. section.id # SectionGlobal /\ section.id \notin {SectionElement, SectionData}
    BY <1>1 DEF WithExpr
  <2> QED
    BY <1>1, <1>3, <2>1, OthersAdded
<1> QED
  BY <1>2, <1>3

LEMMA BeginLists ==
  ASSUME DInv, ListsEnd, BeginItem
  PROVE  ListsEnd'
<1> DEFINE r == ReadHead(section.id, pos)
           i == section.next + 1
<1>1. /\ Typed
      /\ built' = IF section.id = SectionCode
                  THEN [built EXCEPT ![SectionFunction][i].localCnt = r.val[1]]
                  ELSE built
  BY DEF DInv, BeginItem
<1>2. CASE section.id = SectionCode
  <2> DEFINE f == [built[SectionFunction][i] EXCEPT !.localCnt = r.val[1]]
  <2>1. built' = [built EXCEPT ![SectionFunction] = [@ EXCEPT ![i] = f]]
    BY <1>1, <1>2
  <2> HIDE DEF r, i
  <2>2. i \in DOMAIN built[SectionFunction] => HasCodes(f)
    BY DEF ListsEnd, HasCodes
  <2> HIDE DEF f
  <2> QED
    BY <1>1, <2>1, <2>2, EntryChanged
<1>3. CASE section.id # SectionCode
  BY <1>1, <1>3 DEF ListsEnd, CodesEnded, IsSeq, HasCodes
<1> QED
  BY <1>2, <1>3

(* What readExpr gives to the section's reader is closed.                  *)
LEMMA ReturnLists ==
  ASSUME DInv, ReadersEnd, ListsEnd, InExpr, NEW p, ReturnTo(p)
  PROVE  ListsEnd'
<1> DEFINE codes == Append(Inner.instrs, EndInstr)
           rest == IF section.id \in {SectionElement, SectionData} THEN ReadVec(p) ELSE Read(<<>>, p)
<1>1. Typed /\ IsSeq(exprs) /\ exprs # <<>>
  BY ExprFacts
<1>2. Len(exprs) \in Nat /\ Len(exprs) # 0 /\ MaxList \in Nat /\ Len(exprs) <= MaxList
  BY <1>1, LenProperties, EmptySeq, DecoderAssumption DEF IsSeq, ReadersEnd
<1>3. CASE Len(exprs) > 1
  BY <1>3 DEF ReturnTo, module, ListsEnd, CodesEnded, IsSeq, HasCodes
<1>4. CASE ~(Len(exprs) > 1)
  <2>1. codes \in Codes
    <3>1. ReaderEnds(Inner, Ended[MaxList - Len(exprs)])
      BY <1>2 DEF ReadersEnd, Inner
    <3>2. MaxList - Len(exprs) \in Nat /\ (MaxList - Len(exprs)) + 1 = MaxList
      BY <1>2, <1>4
    <3> QED
      BY <3>1, <3>2, ListClosed DEF Codes
  <2>2. Keep(codes, rest.val)
    BY <1>4 DEF ReturnTo
  <2> HIDE DEF codes, rest
  <2>3. CASE /\ section.id = SectionCode
             /\ built' = [built EXCEPT ![SectionFunction][section.next + 1].codes = codes]
    <3> DEFINE i == section.next + 1
               f == [built[SectionFunction][i] EXCEPT !.codes = codes]
    <3>1. built' = [built EXCEPT ![SectionFunction] = [@ EXCEPT ![i] = f]]
      BY <2>3
    <3> HIDE DEF i
    <3>2. i \in DOMAIN built[SectionFunction] => HasCodes(f)
      BY <2>1 DEF ListsEnd, HasCodes
    <3> HIDE DEF f
    <3> QED
      BY <1>1, <3>1, <3>2, EntryChanged
  <2>4. CASE /\ section.id = SectionGlobal
             /\ built' = [built EXCEPT ![SectionGlobal] =
                                  Append(@, [type |-> item, init |-> codes])]
    <3>1. /\ SectionGlobal \in SectionType..SectionData
          /\ SectionGlobal # SectionFunction /\ SectionGlobal \notin {SectionElement, SectionData}
      BY DEF SectionFunction, SectionGlobal, SectionElement, SectionData, SectionType
    <3> QED
      BY <1>1, <2>1, <2>4, <3>1, OthersAdded
  <2>5. CASE /\ section.id \in {SectionElement, SectionData}
             /\ built' = [built EXCEPT ![section.id] =
                           Append(@, [idx |-> item[1], offset |-> codes, init |-> rest.val])]
    <3>1. /\ section.id \in SectionType..SectionData
          /\ section.id # SectionFunction /\ section.id # SectionGlobal
      BY <2>5 DEF SectionFunction, SectionGlobal, SectionElement, SectionData, SectionType
    <3> QED
      BY <1>1, <2>1, <2>5, <3>1, OthersAdded
  <2> QED
    BY <2>2, <2>3, <2>4, <2>5, Zenon DEF Keep, Add
<1> QED
  BY <1>3, <1>4

-----------------------------------------------------------------------------
LEMMA EndsInitially == Init => ReadersEnd /\ ListsEnd
<1> SUFFICES ASSUME Init PROVE ReadersEnd /\ ListsEnd
  OBVIOUS
<1>1. exprs = <<>> /\ MaxList \in Nat
  BY DecoderAssumption DEF Init
<1>2. ReadersEnd
  BY <1>1 DEF ReadersEnd
<1>3. \A id \in {SectionFunction, SectionGlobal, SectionElement, SectionData} : built[id] = <<>>
  BY DEF Init, SectionFunction, SectionGlobal, SectionElement, SectionData, SectionType
<1>4. IsSeq(<<>>) /\ DOMAIN <<>> = {}
  BY EmptySeq DEF IsSeq
<1> QED
  BY <1>2, <1>3, <1>4 DEF ListsEnd, CodesEnded

LEMMA EndsInductive ==
  DInv /\ ReadersEnd /\ ListsEnd /\ [Next]_vars => (ReadersEnd /\ ListsEnd)'
<1> SUFFICES ASSUME DInv, ReadersEnd, ListsEnd, [Next]_vars PROVE (ReadersEnd /\ ListsEnd)'
  OBVIOUS
<1>1. ASSUME UNCHANGED exprs PROVE ReadersEnd'
  BY <1>1 DEF ReadersEnd
<1>2. ASSUME UNCHANGED built PROVE ListsEnd'
  BY <1>2 DEF ListsEnd, CodesEnded, IsSeq, HasCodes
<1>3. CASE ReadHeader \/ EndOfFile \/ InvalidSection \/ MoreCode \/ BeginSection \/ SkipCustom
           \/ NameSection \/ ReadSubsection \/ ModuleName \/ SkipSubsection \/ EndNames
           \/ EndSection \/ TooManyTypes \/ OutOfMemory \/ SkipReserved \/ UNCHANGED vars
  <2>1. UNCHANGED <<built, exprs>>
    BY <1>3
    DEF ReadHeader, EndOfFile, InvalidSection, MoreCode, BeginSection, SkipCustom, NameSection,
        ReadSubsection, ModuleName, SkipSubsection, EndNames, EndSection, TooManyTypes,
        OutOfMemory, SkipReserved, End, module, vars
  <2> QED
    BY <1>1, <1>2, <2>1
<1>4. CASE StartSection
  <2>1. UNCHANGED exprs /\ built' = [built EXCEPT ![SectionStart] = <<Byte(pos + 2)>>]
    BY <1>4 DEF StartSection
  <2>2. \A id \in {SectionFunction, SectionGlobal, SectionElement, SectionData} : built'[id] = built[id]
    BY <2>1
    DEF DInv, Typed, SectionFunction, SectionGlobal, SectionElement, SectionData, SectionType,
        SectionStart
  <2> QED
    BY <1>1, <2>1, <2>2 DEF ListsEnd, CodesEnded, IsSeq, HasCodes
<1>5. CASE ReadItem
  <2>1. UNCHANGED exprs
    BY <1>5 DEF ReadItem
  <2> QED
    BY <1>1, <1>5, <2>1, ItemLists
<1>6. CASE BeginItem
  <2>1. exprs' = <<Reader(0, 0)>>
    BY <1>6 DEF BeginItem
  <2>2. \A bodies : ReaderEnds(Reader(0, 0), bodies)
    <3>1. \A bodies : <<>> \in Seq(Instrs(bodies))
      OBVIOUS
    <3> QED
      BY <3>1 DEF ReaderEnds, Reader
  <2>3. Len(exprs') = 1 /\ exprs'[1] = Reader(0, 0) /\ 1 <= MaxList
    BY <2>1, DecoderAssumption
  <2>4. ReadersEnd'
    BY <2>2, <2>3 DEF ReadersEnd
  <2> QED
    BY <1>6, <2>4, BeginLists
<1>7. CASE BeginBlock \/ ReadInstr
  <2>1. UNCHANGED built
    BY <1>7 DEF BeginBlock, ReadInstr, module
  <2> QED
    BY <1>2, <1>7, <2>1, ExprEnds
<1>8. CASE EndExpr \/ BreakExpr
  <2>1. InExpr /\ \E p : ReturnTo(p)
    BY <1>8 DEF EndExpr, BreakExpr
  <2> QED
    BY <2>1, ReturnReadersEnd, ReturnLists
<1> QED
  BY <1>3, <1>4, <1>5, <1>6, <1>7, <1>8 DEF Next

(* For every file and whatever failing reads leave: every body, offset and *)
(* initial value in the module, and every block in them however deep, ends *)
(* with an end, and the else part of an if comes after one; Op_if, Op_end  *)
(* and Op_br rely on it and test nothing.  Only a declared function whose  *)
(* body never came has no code.                                            *)
THEOREM CodesHaveEnds == Spec => []CodesEnded
<1>1. ListsEnd => CodesEnded
  BY DEF ListsEnd
<1> QED
  BY Initially, Inductive, EndsInitially, EndsInductive, <1>1, PTL DEF Spec
=============================================================================
