----------------------------- MODULE LoaderProofs -----------------------------
(****************************************************************************)
(* What holds of loading for all files, requests and sizes: names lead to   *)
(* their modules, imports are linked by name, nothing is instantiated       *)
(* twice, what exports and tables refer to exists, and tables and memories  *)
(* hold what the loaded modules wrote.                                      *)
(****************************************************************************)
EXTENDS Loader, SequenceTheorems, FiniteSetTheorems, WellFoundedInduction, TLAPS

-----------------------------------------------------------------------------
(* Sequences of anything.                                                   *)
IsSeq(s) == s \in Seq({s[i] : i \in DOMAIN s})

(* A sequence over any set is one.                                          *)
LEMMA SeqIsSeq ==
  ASSUME NEW S, NEW s \in Seq(S)
  PROVE  IsSeq(s)
<1>1. Len(s) \in Nat /\ DOMAIN s = 1..Len(s) /\ s \in [1..Len(s) -> S]
  OBVIOUS
<1> DEFINE R == {s[i] : i \in DOMAIN s}
<1>2. \A i \in 1..Len(s) : s[i] \in R
  BY <1>1
<1>3. s = [i \in 1..Len(s) |-> s[i]]
  BY <1>1
<1> HIDE DEF R
<1>4. s \in Seq(R)
  BY <1>1, <1>2, <1>3, IsASeq
<1> QED
  BY <1>4 DEF IsSeq, R

(* Its length and its positions.                                            *)
LEMMA IsSeqLen ==
  ASSUME NEW s, IsSeq(s)
  PROVE  Len(s) \in Nat /\ DOMAIN s = 1..Len(s)
BY DEF IsSeq

(* What Append does to it.                                                  *)
LEMMA Appended ==
  ASSUME NEW s, IsSeq(s), NEW e
  PROVE  /\ IsSeq(Append(s, e)) /\ Len(Append(s, e)) = Len(s) + 1
         /\ DOMAIN Append(s, e) = 1..(Len(s) + 1)
         /\ \A i \in 1..Len(s) : Append(s, e)[i] = s[i]
         /\ Append(s, e)[Len(s) + 1] = e
<1> DEFINE S == {s[i] : i \in DOMAIN s} \cup {e}
<1>1. s \in Seq(S) /\ e \in S
  BY DEF IsSeq
<1> HIDE DEF S
<1>2. /\ Append(s, e) \in Seq(S) /\ Len(Append(s, e)) = Len(s) + 1
      /\ \A i \in 1..Len(s) : Append(s, e)[i] = s[i]
      /\ Append(s, e)[Len(s) + 1] = e
  BY <1>1, AppendProperties
<1>3. IsSeq(Append(s, e))
  BY <1>2, SeqIsSeq
<1> QED
  BY <1>2, <1>3, IsSeqLen

(* And what is left without its last element.                               *)
LEMMA WithoutLast ==
  ASSUME NEW s, IsSeq(s), s # <<>>
  PROVE  LET t == SubSeq(s, 1, Len(s) - 1)
         IN /\ IsSeq(t) /\ Len(t) = Len(s) - 1 /\ Len(s) \in Nat \ {0}
            /\ DOMAIN t = 1..(Len(s) - 1)
            /\ \A i \in 1..(Len(s) - 1) : t[i] = s[i]
<1> DEFINE S == {s[i] : i \in DOMAIN s}
           t == SubSeq(s, 1, Len(s) - 1)
<1>1. s \in Seq(S)
  BY DEF IsSeq
<1> HIDE DEF S
<1>2. Len(s) \in Nat /\ Len(s) # 0
  BY <1>1, EmptySeq
<1>3. PICK n \in Nat : n = Len(s)
  BY <1>1
<1>4. 1 \in 1..(n + 1) /\ n - 1 \in (1 - 1)..n /\ (n - 1) - 1 + 1 = n - 1
  BY <1>2, <1>3
<1>5. /\ SubSeq(s, 1, n - 1) \in Seq(S)
      /\ Len(SubSeq(s, 1, n - 1)) = n - 1
      /\ \A i \in 1..(n - 1) : SubSeq(s, 1, n - 1)[i] = s[i]
  <2>1. \A i \in 1..(n - 1) : s[i] \in S
    BY <1>1, <1>3
  <2>2. SubSeq(s, 1, n - 1) = [i \in 1..(n - 1) |-> s[i]]
    BY <1>1, <1>2, <1>3
  <2> QED
    BY <1>2, <1>3, <2>1, <2>2, IsASeq
<1>6. PICK u : u = SubSeq(s, 1, n - 1)
  OBVIOUS
<1>7. IsSeq(u)
  BY <1>5, <1>6, SeqIsSeq
<1>8. DOMAIN u = 1..(n - 1)
  BY <1>5, <1>6, <1>7, IsSeqLen
<1> QED
  BY <1>2, <1>3, <1>5, <1>6, <1>7, <1>8

-----------------------------------------------------------------------------
(* Without :init, the table of modules only grows, and only instantiate     *)
(* makes it grow: by one instance, under the name the index then has.       *)
Registers(inst) == moduleIns' = Append(moduleIns, inst) /\ moduleIdx' = IndexWith(inst.name)
NewName == IF Module.name = <<>> THEN GetModuleName(Cur.file) ELSE Module.name
NewAddrs == Addrs(Module, Cur.extVal)
NewInstance ==
  Instance(made + 1, Cur.file, NewName, Exports(Module, NewAddrs), Cur.extVal, NewAddrs)

LEMMA NewInstanceIs ==
  /\ NewInstance.id = made + 1 /\ NewInstance.file = Cur.file /\ NewInstance.name = NewName
  /\ NewInstance.exports = Exports(Module, NewAddrs)
  /\ NewInstance.links = Cur.extVal /\ NewInstance.addrs = NewAddrs
BY DEF NewInstance, Instance

LEMMA TableGrows ==
  ASSUME ~Resets, [Next]_vars
  PROVE  \/ UNCHANGED app
         \/ Instantiate /\ TypesMatch(Module, Cur.extVal) /\ Registers(NewInstance)
<1>1. CASE Instantiate
  <2>1. CASE UNCHANGED app
    BY <2>1
  <2>2. CASE ~UNCHANGED app
    <3>1. /\ TypesMatch(Module, Cur.extVal)
          /\ moduleIns' = Append(moduleIns, NewInstance) /\ moduleIdx' = IndexWith(NewName)
      BY <1>1, <2>2 DEF Instantiate, app, NewInstance, NewName, NewAddrs
    <3> QED
      BY <1>1, <3>1, NewInstanceIs DEF Registers
  <2> QED
    BY <2>1, <2>2
<1>2. CASE ~Instantiate
  BY <1>2 DEF Next, Step, vars, app, Reset, LoadModule, CallFunction, Begin, LoadImport,
     Resume, LookUp, NotSatisfied
<1> QED
  BY <1>1, <1>2

(* The two native modules.                                                  *)
LEMMA NativeSeq ==
  /\ IsSeq(Native) /\ DOMAIN Native = 1..2 /\ Len(Native) = 2
  /\ Native[1].name = <<"spectest">> /\ Native[2].name = <<"wasi_unstable">>
  /\ Native[1].file = <<>> /\ Native[2].file = <<>>
<1> DEFINE A == Instance(1, <<>>, <<"spectest">>,
                [print |-> Extern("func", 1), table |-> Extern("table", 1)], <<>>, NoAddrs)
           B == Instance(2, <<>>, <<"wasi_unstable">>,
                [proc_exit |-> Extern("func", 2)], <<>>, NoAddrs)
<1>a. Native = <<A, B>>
  BY DEF Native
<1>b. A.name = <<"spectest">> /\ A.file = <<>>
  BY DEF Instance
<1>c. B.name = <<"wasi_unstable">> /\ B.file = <<>>
  BY DEF Instance
<1> HIDE DEF A, B
<1>1. PICK a, b : Native = <<a, b>> /\ a.name = <<"spectest">> /\ b.name = <<"wasi_unstable">>
                  /\ a.file = <<>> /\ b.file = <<>>
  BY <1>a, <1>b, <1>c
<1>2. <<a, b>> \in Seq({a, b})
  OBVIOUS
<1>3. IsSeq(Native)
  BY <1>1, <1>2, SeqIsSeq
<1> QED
  BY <1>1, <1>3

-----------------------------------------------------------------------------
(* Names lead to modules.                                                   *)
IndexInv == IsSeq(moduleIns) /\ IndexNames

LEMMA IndexInit == Init => IndexInv
<1> SUFFICES ASSUME Init PROVE IndexInv
  OBVIOUS
<1>1. moduleIns = Native /\ moduleIdx = NativeIdx
  BY DEF Init
<1>2. <<"spectest">> # <<"wasi_unstable">>
  OBVIOUS
<1>3. IndexNames
  BY <1>1, <1>2, NativeSeq DEF IndexNames, NativeIdx
<1> QED
  BY <1>1, <1>3, NativeSeq DEF IndexInv

(* An instance that is added leaves the others where they were.             *)
LEMMA IndexStep ==
  ASSUME ~Resets, IndexInv, [Next]_vars
  PROVE  IndexInv'
<1>1. CASE UNCHANGED app
  BY <1>1 DEF IndexInv, IndexNames, app
<1>2. ASSUME NEW inst, Registers(inst)
      PROVE  IndexInv'
  <2>1. /\ IsSeq(moduleIns') /\ DOMAIN moduleIns' = 1..(Len(moduleIns) + 1)
        /\ \A i \in 1..Len(moduleIns) : moduleIns'[i] = moduleIns[i]
        /\ moduleIns'[Len(moduleIns) + 1] = inst
    BY <1>2, Appended DEF Registers, IndexInv
  <2>2. Len(moduleIns) \in Nat /\ DOMAIN moduleIns = 1..Len(moduleIns)
    BY IsSeqLen DEF IndexInv
  <2>3. DOMAIN moduleIdx' = DOMAIN moduleIdx \cup {inst.name}
        /\ \A n \in DOMAIN moduleIdx' :
             moduleIdx'[n] = IF n = inst.name THEN Len(moduleIns) + 1 ELSE moduleIdx[n]
    BY <1>2 DEF Registers, IndexWith
  <2>4. ASSUME NEW n \in DOMAIN moduleIdx'
        PROVE  moduleIdx'[n] \in DOMAIN moduleIns' /\ moduleIns'[moduleIdx'[n]].name = n
    <3>1. CASE n = inst.name
      BY <2>1, <2>2, <2>3, <3>1
    <3>2. CASE n # inst.name
      <4>1. moduleIdx'[n] = moduleIdx[n] /\ moduleIdx[n] \in 1..Len(moduleIns)
            /\ moduleIns[moduleIdx[n]].name = n
        BY <2>2, <2>3, <3>2 DEF IndexInv, IndexNames
      <4> QED
        BY <2>1, <2>2, <4>1
    <3> QED
      BY <3>1, <3>2
  <2> QED
    BY <2>1, <2>4 DEF IndexInv, IndexNames
<1> QED
  BY <1>1, <1>2, TableGrows

(* loadModule finds a name in moduleIdx_ only where a module of that name   *)
(* is (application.cpp, loadModule and addModuleInstance), for all files    *)
(* and requests, as long as nothing is reset.                               *)
THEOREM NamesIndexed ==
  ASSUME ~Resets
  PROVE  Spec => []IndexNames
<1>1. IndexInv /\ [Next]_vars => IndexInv'
  BY IndexStep
<1>2. IndexInv => IndexNames
  BY DEF IndexInv
<1> QED
  BY IndexInit, <1>1, <1>2, PTL DEF Spec

-----------------------------------------------------------------------------
(* The nested calls: what returning, going on, and calling again leave of   *)
(* them.                                                                    *)
LEMMA OuterCalls ==
  ASSUME IsSeq(calls), calls # <<>>
  PROVE  /\ IsSeq(Outer) /\ Len(calls) \in Nat \ {0} /\ Len(Outer) = Len(calls) - 1
         /\ DOMAIN Outer = 1..(Len(calls) - 1) /\ DOMAIN calls = 1..Len(calls)
         /\ \A i \in 1..(Len(calls) - 1) : Outer[i] = calls[i]
BY WithoutLast, IsSeqLen DEF Outer

LEMMA GoesOn ==
  ASSUME IsSeq(calls), calls # <<>>, NEW call, calls' = Append(Outer, call)
  PROVE  /\ IsSeq(calls') /\ DOMAIN calls' = DOMAIN calls /\ Len(calls') = Len(calls)
         /\ \A i \in 1..(Len(calls) - 1) : calls'[i] = calls[i]
         /\ calls'[Len(calls)] = call
<1>1. PICK n \in Nat \ {0} : n = Len(calls)
  BY OuterCalls
<1>2. /\ IsSeq(calls') /\ Len(calls') = Len(Outer) + 1 /\ DOMAIN calls' = 1..(Len(Outer) + 1)
      /\ \A i \in 1..Len(Outer) : calls'[i] = Outer[i]
      /\ calls'[Len(Outer) + 1] = call
  BY OuterCalls, Appended
<1>3. Len(Outer) = n - 1 /\ (n - 1) + 1 = n
  BY <1>1, OuterCalls
<1>4. DOMAIN calls = 1..n /\ \A i \in 1..(n - 1) : Outer[i] = calls[i]
  BY <1>1, OuterCalls
<1> QED
  BY <1>1, <1>2, <1>3, <1>4

LEMMA CallsAgain ==
  ASSUME IsSeq(calls), calls # <<>>, NEW call, NEW inner,
         calls' = Append(Append(Outer, call), inner)
  PROVE  /\ IsSeq(calls') /\ DOMAIN calls' = 1..(Len(calls) + 1) /\ Len(calls') = Len(calls) + 1
         /\ \A i \in 1..(Len(calls) - 1) : calls'[i] = calls[i]
         /\ calls'[Len(calls)] = call /\ calls'[Len(calls) + 1] = inner
<1>1. PICK n \in Nat \ {0} : n = Len(calls)
  BY OuterCalls
<1>2. PICK mid : mid = Append(Outer, call)
  OBVIOUS
<1>3. /\ IsSeq(mid) /\ Len(mid) = Len(Outer) + 1
      /\ \A i \in 1..Len(Outer) : mid[i] = Outer[i]
      /\ mid[Len(Outer) + 1] = call
  BY <1>2, OuterCalls, Appended
<1>4. Len(Outer) = n - 1 /\ (n - 1) + 1 = n /\ Len(mid) = n
  BY <1>1, <1>3, OuterCalls
<1>5. /\ IsSeq(calls') /\ Len(calls') = n + 1 /\ DOMAIN calls' = 1..(n + 1)
      /\ \A i \in 1..n : calls'[i] = mid[i]
      /\ calls'[n + 1] = inner
  BY <1>2, <1>3, <1>4, Appended
<1>6. \A i \in 1..(n - 1) : Outer[i] = calls[i]
  BY <1>1, OuterCalls
<1> QED
  BY <1>1, <1>3, <1>4, <1>5, <1>6

LEMMA FirstCall ==
  ASSUME NEW call, calls' = <<call>>
  PROVE  IsSeq(calls') /\ DOMAIN calls' = {1} /\ Len(calls') = 1 /\ calls'[1] = call
<1>1. PICK s : s = <<call>>
  OBVIOUS
<1>2. s \in Seq({call}) /\ Len(s) = 1 /\ s[1] = call
  BY <1>1
<1>3. IsSeq(s)
  BY <1>2, SeqIsSeq
<1>4. DOMAIN s = {1}
  BY <1>2
<1> QED
  BY <1>1, <1>2, <1>3, <1>4

LEMMA Returns ==
  ASSUME IsSeq(calls), calls # <<>>, calls' = Outer
  PROVE  /\ IsSeq(calls') /\ DOMAIN calls' = 1..(Len(calls) - 1)
         /\ DOMAIN calls' \subseteq DOMAIN calls
         /\ \A i \in DOMAIN calls' : calls'[i] = calls[i]
BY OuterCalls

-----------------------------------------------------------------------------
(* What a link leads to: one of the first modules in the table that has the *)
(* import's module name exports it under the import's name.                 *)
Serves(ins, link, import, last) ==
  \E j \in 1..last :
    /\ ins[j].name = import.module
    /\ import.item \in DOMAIN ins[j].exports
    /\ link = ins[j].exports[import.item]

(* What an activation that has begun has in its hands.                      *)
Decodable(f) == f \in DOMAIN Files /\ Files[f].decodes

(* An activation has found what its module imports up to its index, unless  *)
(* something was missing.                                                   *)
CallOk(ins, call) ==
  /\ DOMAIN call = {"file", "stage", "idx", "extVal", "importOk"}
  /\ call.idx \in Nat \ {0} /\ IsSeq(call.extVal)
  /\ call.stage # "begin" => Decodable(call.file)
  /\ call.importOk =>
       /\ Len(call.extVal) = call.idx - 1
       /\ \A k \in 1..Len(call.extVal) :
            Serves(ins, call.extVal[k], Files[call.file].imports[k], Len(ins))

LinkInv ==
  /\ IndexInv /\ IsSeq(calls) /\ LinkedByName
  /\ \A c \in DOMAIN calls : CallOk(moduleIns, calls[c])

(* More modules do not undo a link.                                         *)
LEMMA StillServes ==
  ASSUME NEW ins, NEW more, NEW last \in Nat, NEW later \in Nat, last <= later,
         \A i \in 1..last : more[i] = ins[i],
         NEW link, NEW import, Serves(ins, link, import, last)
  PROVE  Serves(more, link, import, later)
<1>1. PICK j \in 1..last : /\ ins[j].name = import.module
                           /\ import.item \in DOMAIN ins[j].exports
                           /\ link = ins[j].exports[import.item]
  BY DEF Serves
<1>2. j \in 1..later /\ more[j] = ins[j]
  OBVIOUS
<1> QED
  BY <1>1, <1>2 DEF Serves

LEMMA StillOk ==
  ASSUME NEW ins, NEW more, Len(ins) \in Nat, Len(more) \in Nat, Len(ins) <= Len(more),
         \A i \in 1..Len(ins) : more[i] = ins[i],
         NEW call, CallOk(ins, call)
  PROVE  CallOk(more, call)
<1>1. ASSUME call.importOk, NEW k \in 1..Len(call.extVal)
      PROVE  Serves(more, call.extVal[k], Files[call.file].imports[k], Len(more))
  <2>1. Serves(ins, call.extVal[k], Files[call.file].imports[k], Len(ins))
    BY <1>1 DEF CallOk
  <2> QED
    BY <2>1, StillServes, SMTT(30)
<1> QED
  BY <1>1 DEF CallOk

(* The activations that the steps of loadModule make.                       *)
LEMMA EmptySeqIsSeq == IsSeq(<<>>) /\ Len(<<>>) = 0
<1>1. <<>> \in Seq({})
  OBVIOUS
<1> QED
  BY <1>1, SeqIsSeq

LEMMA ActivationOk ==
  ASSUME NEW ins, NEW f
  PROVE  CallOk(ins, Activation(f))
<1>1. PICK call : call = Activation(f)
  OBVIOUS
<1>2. /\ DOMAIN call = {"file", "stage", "idx", "extVal", "importOk"}
      /\ call.idx = 1 /\ call.extVal = <<>> /\ call.stage = "begin"
  BY <1>1 DEF Activation
<1>3. CallOk(ins, call)
  BY <1>2, EmptySeqIsSeq DEF CallOk
<1> QED
  BY <1>1, <1>3

LEMMA StageOk ==
  ASSUME NEW ins, NEW call, CallOk(ins, call), NEW stage, Decodable(call.file)
  PROVE  CallOk(ins, [call EXCEPT !.stage = stage])
<1>1. PICK next : next = [call EXCEPT !.stage = stage]
  OBVIOUS
<1>2. /\ DOMAIN next = DOMAIN call
      /\ next.idx = call.idx /\ next.extVal = call.extVal /\ next.file = call.file
      /\ next.importOk = call.importOk
  BY <1>1 DEF CallOk
<1>3. CallOk(ins, next)
  BY <1>2 DEF CallOk
<1> QED
  BY <1>1, <1>3

LEMMA AgainOk ==
  ASSUME NEW ins, NEW call, CallOk(ins, call), Decodable(call.file)
  PROVE  CallOk(ins, Again(call))
<1>1. PICK next : next = Again(call)
  OBVIOUS
<1>2. /\ DOMAIN next = DOMAIN call
      /\ next.idx = 1 /\ next.extVal = <<>> /\ next.file = call.file
  BY <1>1 DEF CallOk, Again
<1>3. CallOk(ins, next)
  BY <1>2, EmptySeqIsSeq DEF CallOk
<1> QED
  BY <1>1, <1>3

LEMMA MissingOk ==
  ASSUME NEW ins, NEW call, CallOk(ins, call), Decodable(call.file)
  PROVE  CallOk(ins, Missing(call))
<1>1. PICK next : next = Missing(call)
  OBVIOUS
<1>2. /\ DOMAIN next = DOMAIN call
      /\ next.idx = call.idx + 1 /\ next.extVal = call.extVal /\ next.file = call.file
      /\ next.importOk = FALSE
  BY <1>1 DEF CallOk, Missing
<1>3. CallOk(ins, next)
  BY <1>2 DEF CallOk
<1> QED
  BY <1>1, <1>3

LEMMA FoundOk ==
  ASSUME NEW ins, NEW call, CallOk(ins, call), Decodable(call.file), NEW ext,
         Serves(ins, ext, Files[call.file].imports[call.idx], Len(ins))
  PROVE  CallOk(ins, Found(call, ext))
<1>1. PICK next : next = Found(call, ext)
  OBVIOUS
<1>2. /\ DOMAIN next = DOMAIN call
      /\ next.idx = call.idx + 1 /\ next.file = call.file /\ next.importOk = call.importOk
      /\ next.extVal = IF call.importOk THEN Append(call.extVal, ext) ELSE call.extVal
  BY <1>1 DEF CallOk, Found
<1>3. CASE ~call.importOk
  <2>1. CallOk(ins, next)
    BY <1>2, <1>3 DEF CallOk
  <2> QED
    BY <1>1, <2>1
<1>4. CASE call.importOk
  <2>1. PICK n \in Nat : n = call.idx /\ n # 0
    BY DEF CallOk
  <2>2. IsSeq(call.extVal) /\ Len(call.extVal) = n - 1
    BY <1>4, <2>1 DEF CallOk
  <2>3. /\ IsSeq(next.extVal) /\ Len(next.extVal) = n
        /\ \A k \in 1..(n - 1) : next.extVal[k] = call.extVal[k]
        /\ next.extVal[n] = ext
    <3>1. PICK old : old = call.extVal
      OBVIOUS
    <3>2. Len(old) = n - 1 /\ (n - 1) + 1 = n /\ next.extVal = Append(old, ext) /\ IsSeq(old)
      BY <1>2, <1>4, <2>1, <2>2, <3>1
    <3>3. /\ IsSeq(Append(old, ext)) /\ Len(Append(old, ext)) = n
          /\ \A k \in 1..(n - 1) : Append(old, ext)[k] = old[k]
          /\ Append(old, ext)[n] = ext
      BY <3>2, Appended
    <3> QED
      BY <3>1, <3>2, <3>3
  <2>4. ASSUME NEW k \in 1..n
        PROVE  Serves(ins, next.extVal[k], Files[next.file].imports[k], Len(ins))
    <3>1. CASE k = n
      BY <1>2, <2>1, <2>3, <3>1
    <3>2. CASE k # n
      <4>1. k \in 1..(n - 1)
        BY <2>1, <3>2
      <4>2. Serves(ins, call.extVal[k], Files[call.file].imports[k], Len(ins))
        BY <1>4, <2>2, <4>1 DEF CallOk
      <4> QED
        BY <1>2, <2>3, <4>1, <4>2
    <3> QED
      BY <3>1, <3>2
  <2>5. next.idx = n + 1 /\ (n + 1) - 1 = n /\ n + 1 \in Nat \ {0}
    BY <1>2, <2>1
  <2>6. CallOk(ins, next)
    BY <1>2, <2>3, <2>4, <2>5 DEF CallOk
  <2> QED
    BY <1>1, <2>6
<1> QED
  BY <1>3, <1>4

-----------------------------------------------------------------------------
(* What the files import, and how the current activation gets at it.        *)
LEMMA ImportsListed ==
  ASSUME NEW f \in DOMAIN Files
  PROVE  /\ Len(Files[f].imports) \in Nat /\ DOMAIN Files[f].imports = 1..Len(Files[f].imports)
         /\ \A k \in 1..Len(Files[f].imports) :
              Files[f].imports[k] \in [module : Seq(STRING), item : STRING, type : ExternType]
<1> DEFINE S == [module : Seq(STRING), item : STRING, type : ExternType]
<1>1. PICK imports : imports = Files[f].imports
  OBVIOUS
<1>2. imports \in Seq(S)
  BY <1>1, FilesAssumption DEF Valid
<1> HIDE DEF S
<1>3. /\ Len(imports) \in Nat /\ DOMAIN imports = 1..Len(imports)
      /\ \A k \in 1..Len(imports) : imports[k] \in S
  BY <1>2
<1> QED
  BY <1>1, <1>3 DEF S

LEMMA CurOk ==
  ASSUME LinkInv, calls # <<>>
  PROVE  /\ Len(calls) \in DOMAIN calls /\ CallOk(moduleIns, Cur)
         /\ Cur.stage # "begin" => Decodable(Cur.file)
<1>1. Len(calls) \in DOMAIN calls
  BY OuterCalls DEF LinkInv
<1> QED
  BY <1>1 DEF LinkInv, Cur, CallOk

(* Every step keeps what the activations have found.                        *)
CallsOk(ins, cs) == \A c \in DOMAIN cs : CallOk(ins, cs[c])

LEMMA GoesOnOk ==
  ASSUME LinkInv, calls # <<>>, NEW call, calls' = Append(Outer, call),
         CallOk(moduleIns, call)
  PROVE  IsSeq(calls') /\ CallsOk(moduleIns, calls')
<1>1. IsSeq(calls) /\ \A c \in DOMAIN calls : CallOk(moduleIns, calls[c])
  BY DEF LinkInv
<1>2. PICK n \in Nat \ {0} : n = Len(calls) /\ DOMAIN calls = 1..n
  BY <1>1, OuterCalls
<1>3. /\ IsSeq(calls') /\ DOMAIN calls' = 1..n
      /\ \A i \in 1..(n - 1) : calls'[i] = calls[i]
      /\ calls'[n] = call
  BY <1>1, <1>2, GoesOn
<1>4. ASSUME NEW c \in 1..n PROVE CallOk(moduleIns, calls'[c])
  <2>1. CASE c = n
    BY <1>3, <2>1
  <2>2. CASE c # n
    <3>1. c \in 1..(n - 1)
      BY <1>2, <2>2
    <3> QED
      BY <1>1, <1>2, <1>3, <3>1
  <2> QED
    BY <2>1, <2>2
<1> QED
  BY <1>3, <1>4 DEF CallsOk

LEMMA ReturnsOk ==
  ASSUME LinkInv, calls # <<>>, calls' = Outer
  PROVE  IsSeq(calls') /\ CallsOk(moduleIns, calls')
BY Returns DEF LinkInv, CallsOk

LEMMA LinkCalls ==
  ASSUME ~Resets, LinkInv, [Next]_vars
  PROVE  IsSeq(calls') /\ CallsOk(moduleIns, calls')
<1>1. CASE UNCHANGED calls
  BY <1>1 DEF LinkInv, CallsOk
<1>2. ASSUME NEW f \in Wanted, LoadModule(f)
      PROVE  IsSeq(calls') /\ CallsOk(moduleIns, calls')
  <2>1. PICK call : call = Activation(f)
    OBVIOUS
  <2>2. calls' = <<call>> /\ CallOk(moduleIns, call)
    BY <1>2, <2>1, ActivationOk DEF LoadModule
  <2>3. IsSeq(calls') /\ DOMAIN calls' = {1} /\ calls'[1] = call
    BY <2>2, FirstCall
  <2> QED
    BY <2>2, <2>3 DEF CallsOk
<1>3. CASE Begin
  <2>1. calls # <<>> /\ CallOk(moduleIns, Cur)
    BY <1>3, CurOk DEF Begin, At
  <2>2. CASE calls' = Outer
    BY <2>1, <2>2, ReturnsOk
  <2>3. CASE Goto([Cur EXCEPT !.stage = "imports"]) /\ Decodable(Cur.file)
    <3>1. CallOk(moduleIns, [Cur EXCEPT !.stage = "imports"])
      BY <2>1, <2>3, StageOk
    <3> QED
      BY <2>1, <2>3, <3>1, GoesOnOk DEF Goto
  <2> QED
    BY <1>3, <2>2, <2>3 DEF Begin, Return, Decodable, Module
<1>4. CASE LoadImport
  <2>1. calls # <<>> /\ CallOk(moduleIns, Cur) /\ Decodable(Cur.file)
    BY <1>4, CurOk DEF LoadImport, Importing, At
  <2>2. PICK call : call = [Cur EXCEPT !.stage = "waiting"]
    OBVIOUS
  <2>3. PICK inner : inner = Activation(Import.module \o <<".", "wasm">>)
    OBVIOUS
  <2>4. CallOk(moduleIns, call) /\ CallOk(moduleIns, inner)
    BY <2>1, <2>2, <2>3, StageOk, ActivationOk
  <2>5. calls' = Append(Append(Outer, call), inner)
    BY <1>4, <2>2, <2>3 DEF LoadImport
  <2>6. IsSeq(calls) /\ \A c \in DOMAIN calls : CallOk(moduleIns, calls[c])
    BY DEF LinkInv
  <2>7. PICK n \in Nat \ {0} : n = Len(calls) /\ DOMAIN calls = 1..n
    BY <2>1, <2>6, OuterCalls
  <2>8. /\ IsSeq(calls') /\ DOMAIN calls' = 1..(n + 1)
        /\ \A i \in 1..(n - 1) : calls'[i] = calls[i]
        /\ calls'[n] = call /\ calls'[n + 1] = inner
    BY <2>1, <2>5, <2>6, <2>7, CallsAgain
  <2>9. ASSUME NEW c \in 1..(n + 1) PROVE CallOk(moduleIns, calls'[c])
    <3>1. c = n \/ c = n + 1 \/ c \in 1..(n - 1)
      BY <2>7
    <3>2. CASE c \in 1..(n - 1)
      <4>1. c \in DOMAIN calls
        BY <2>7, <3>2
      <4> QED
        BY <2>6, <2>8, <3>2, <4>1
    <3> QED
      BY <2>4, <2>8, <3>1, <3>2
  <2> QED
    BY <2>8, <2>9 DEF CallsOk
<1>5. CASE Resume
  <2>1. calls # <<>> /\ CallOk(moduleIns, Cur) /\ Decodable(Cur.file)
    BY <1>5, CurOk DEF Resume, At
  <2>2. CASE calls' = Append(Outer, Again(Cur))
    BY <2>1, <2>2, AgainOk, GoesOnOk
  <2> QED
    BY <1>1, <1>5, <2>2 DEF Resume, Goto
<1>6. CASE LookUp
  <2>1. calls # <<>> /\ CallOk(moduleIns, Cur) /\ Decodable(Cur.file)
    BY <1>6, CurOk DEF LookUp, Importing, At
  <2>2. PICK i : i = moduleIdx[Import.module]
    OBVIOUS
  <2>3. i \in DOMAIN moduleIns /\ moduleIns[i].name = Import.module
    BY <1>6, <2>2 DEF LookUp, Loaded, LinkInv, IndexInv, IndexNames
  <2>4. CASE Import.item \in DOMAIN moduleIns[i].exports
    <3>1. PICK ext : ext = moduleIns[i].exports[Import.item]
      OBVIOUS
    <3>2. calls' = Append(Outer, Found(Cur, ext))
      BY <1>6, <2>2, <2>3, <2>4, <3>1 DEF LookUp, Goto
    <3>3. i \in 1..Len(moduleIns)
      BY <2>3, IsSeqLen DEF LinkInv, IndexInv
    <3>4. Serves(moduleIns, ext, Import, Len(moduleIns))
      BY <2>3, <2>4, <3>1, <3>3 DEF Serves
    <3>5. CallOk(moduleIns, Found(Cur, ext))
      BY <2>1, <3>4, FoundOk DEF Import, Module
    <3> QED
      BY <2>1, <3>2, <3>5, GoesOnOk
  <2>5. CASE Import.item \notin DOMAIN moduleIns[i].exports
    <3>1. calls' = Append(Outer, Missing(Cur))
      BY <1>6, <2>2, <2>3, <2>5 DEF LookUp, Goto
    <3> QED
      BY <2>1, <3>1, MissingOk, GoesOnOk
  <2> QED
    BY <2>4, <2>5
<1>7. CASE NotSatisfied \/ Instantiate
  <2>1. calls # <<>> /\ calls' = Outer
    BY <1>7 DEF NotSatisfied, Instantiate, At, Return
  <2> QED
    BY <2>1, ReturnsOk
<1>8. CASE \E x \in Called : CallFunction(x)
  BY <1>1, <1>8 DEF CallFunction
<1> QED
  BY <1>1, <1>2, <1>3, <1>4, <1>5, <1>6, <1>7, <1>8 DEF Next, Step, Reset, vars

-----------------------------------------------------------------------------
(* One instance has links to what its imports ask for.                      *)
LinkedAt(ins, i) ==
  ins[i].file # <<>> =>
    LET imports == Files[ins[i].file].imports
    IN /\ Len(ins[i].links) = Len(imports)
       /\ \A k \in DOMAIN imports : Serves(ins, ins[i].links[k], imports[k], i - 1)

LEMMA LinkedEach == LinkedByName <=> \A i \in DOMAIN moduleIns : LinkedAt(moduleIns, i)
BY DEF LinkedByName, LinkedAt, Serves

LEMMA LinkInit == Init => LinkInv
<1> SUFFICES ASSUME Init PROVE LinkInv
  OBVIOUS
<1>1. moduleIns = Native /\ calls = <<>>
  BY DEF Init
<1>2. \A i \in DOMAIN moduleIns : moduleIns[i].file = <<>>
  BY <1>1, NativeSeq
<1>3. LinkedByName
  BY <1>2 DEF LinkedByName
<1> QED
  BY <1>1, <1>3, IndexInit, EmptySeqIsSeq DEF LinkInv

(* A new instance takes over what its activation has found.                 *)
LEMMA NewLinked ==
  ASSUME LinkInv, Instantiate, TypesMatch(Module, Cur.extVal), Registers(NewInstance)
  PROVE  LinkedAt(moduleIns', Len(moduleIns) + 1)
<1>1. calls # <<>> /\ CallOk(moduleIns, Cur) /\ Cur.file \in DOMAIN Files /\ Cur.importOk
  BY CurOk DEF Instantiate, At, Decodable
<1>2. PICK n \in Nat : n = Len(moduleIns) /\ DOMAIN moduleIns = 1..n
  BY IsSeqLen DEF LinkInv, IndexInv
<1>3. PICK more : more = moduleIns'
  OBVIOUS
<1>4. /\ Len(more) = n + 1 /\ \A i \in 1..n : more[i] = moduleIns[i]
      /\ more[n + 1] = NewInstance
  BY <1>2, <1>3, Appended DEF Registers, LinkInv, IndexInv
<1>5. PICK imports : imports = Files[Cur.file].imports
  OBVIOUS
<1>6. DOMAIN imports = 1..Len(imports) /\ Len(Cur.extVal) = Len(imports)
  BY <1>1, <1>5, ImportsListed DEF TypesMatch, Module
<1>7. ASSUME NEW k \in DOMAIN imports
      PROVE  Serves(more, Cur.extVal[k], imports[k], n)
  <2>1. Serves(moduleIns, Cur.extVal[k], imports[k], n)
    BY <1>1, <1>2, <1>5, <1>6 DEF CallOk
  <2> QED
    BY <1>4, <2>1 DEF Serves
<1>8. more[n + 1].file = Cur.file /\ more[n + 1].links = Cur.extVal
  BY <1>4, NewInstanceIs
<1>9. (n + 1) - 1 = n
  OBVIOUS
<1>10. LinkedAt(more, n + 1)
  BY <1>5, <1>6, <1>7, <1>8, <1>9 DEF LinkedAt
<1> QED
  BY <1>2, <1>3, <1>10

LEMMA LinkStep ==
  ASSUME ~Resets, LinkInv, [Next]_vars
  PROVE  LinkInv'
<1>1. IndexInv'
  BY IndexStep DEF LinkInv
<1>2. IsSeq(calls') /\ CallsOk(moduleIns, calls')
  BY LinkCalls
<1>3. CASE UNCHANGED app
  <2>1. moduleIns' = moduleIns
    BY <1>3 DEF app
  <2>2. LinkedByName'
    BY <2>1 DEF LinkInv, LinkedByName
  <2> QED
    BY <1>1, <1>2, <2>1, <2>2 DEF LinkInv, CallsOk
<1>4. CASE Instantiate /\ TypesMatch(Module, Cur.extVal) /\ Registers(NewInstance)
  <2>1. PICK n \in Nat : n = Len(moduleIns) /\ DOMAIN moduleIns = 1..n
    BY IsSeqLen DEF LinkInv, IndexInv
  <2>2. PICK more : more = moduleIns'
    OBVIOUS
  <2>3. /\ Len(more) = n + 1 /\ DOMAIN more = 1..(n + 1)
        /\ \A i \in 1..n : more[i] = moduleIns[i]
    BY <1>4, <2>1, <2>2, Appended DEF Registers, LinkInv, IndexInv
  <2>4. LinkedAt(more, n + 1)
    BY <1>4, <2>1, <2>2, NewLinked
  <2>5. ASSUME NEW i \in 1..n PROVE LinkedAt(more, i)
    <3>1. LinkedAt(moduleIns, i) /\ more[i] = moduleIns[i]
      BY <2>1, <2>3, LinkedEach DEF LinkInv
    <3>2. i - 1 \in Nat /\ \A j \in 1..(i - 1) : more[j] = moduleIns[j]
      BY <2>3
    <3>3. ASSUME NEW link, NEW import, Serves(moduleIns, link, import, i - 1)
          PROVE  Serves(more, link, import, i - 1)
      BY <3>2, <3>3 DEF Serves
    <3> QED
      BY <3>1, <3>3 DEF LinkedAt
  <2>6. \A i \in 1..(n + 1) : LinkedAt(more, i)
    <3>1. \A i \in 1..(n + 1) : i = n + 1 \/ i \in 1..n
      OBVIOUS
    <3> QED
      BY <2>4, <2>5, <3>1
  <2>7. LinkedByName'
    BY <2>2, <2>3, <2>6 DEF LinkedByName, LinkedAt, Serves
  <2>8. ASSUME NEW call, CallOk(moduleIns, call) PROVE CallOk(more, call)
    <3>1. Len(moduleIns) <= Len(more) /\ Len(more) \in Nat
      BY <2>1, <2>3
    <3> QED
      BY <2>1, <2>3, <2>8, <3>1, StillOk
  <2> QED
    BY <1>1, <1>2, <2>2, <2>7, <2>8 DEF LinkInv, CallsOk
<1> QED
  BY <1>3, <1>4, TableGrows

(* However loads nest, fail half-way or look their imports up again, an     *)
(* instance is linked to what the modules it names export under the names   *)
(* it gives (application.cpp, loadModule), for all files and requests, as   *)
(* long as nothing is reset.                                                *)
THEOREM LinksByName ==
  ASSUME ~Resets
  PROVE  Spec => []LinkedByName
<1>1. LinkInv /\ [Next]_vars => LinkInv'
  BY LinkStep
<1>2. LinkInv => LinkedByName
  BY DEF LinkInv
<1> QED
  BY LinkInit, <1>1, <1>2, PTL DEF Spec

-----------------------------------------------------------------------------
(* Names of modules and of files.                                           *)
LEMMA MaxIs ==
  ASSUME NEW S, \A y \in S : y \in Int, NEW x \in S, \A y \in S : x >= y
  PROVE  Max(S) = x
<1>1. PICK m : m = Max(S)
  OBVIOUS
<1>2. m \in S /\ \A y \in S : m >= y
  BY <1>1 DEF Max
<1>3. m >= x /\ x >= m /\ m \in Int /\ x \in Int
  BY <1>2
<1> QED
  BY <1>1, <1>3

(* The file that a module is imported from has the module's name, if that   *)
(* has no slash.                                                            *)
WasmFile(name) == name \o <<".", "wasm">>

LEMMA FlatFile ==
  ASSUME NEW name \in Seq(STRING), \A p \in 1..Len(name) : name[p] # "/"
  PROVE  GetModuleName(WasmFile(name)) = name
<1>1. PICK n \in Nat : n = Len(name)
  OBVIOUS
<1>2. PICK path : path = WasmFile(name)
  OBVIOUS
<1>3. PICK a, b : a = "." /\ b = "wasm"
  OBVIOUS
<1> DEFINE S == STRING \cup {a, b}
<1>4. name \in Seq(S) /\ a \in S /\ b \in S
  OBVIOUS
<1> HIDE DEF S
<1>5. PICK tail : tail = <<a, b>>
  OBVIOUS
<1>6. tail \in Seq(S) /\ Len(tail) = 2 /\ tail[1] = "." /\ tail[2] = "wasm"
  BY <1>3, <1>4, <1>5
<1>7. /\ path \in Seq(S) /\ Len(path) = n + 2
      /\ \A p \in 1..n : path[p] = name[p]
      /\ path[n + 1] = "." /\ path[n + 2] = "wasm"
  <2>1. path = name \o tail
    BY <1>2, <1>3, <1>5 DEF WasmFile
  <2>2. /\ name \o tail \in Seq(S) /\ Len(name \o tail) = n + 2
        /\ \A p \in 1..(n + 2) : (name \o tail)[p] = IF p <= n THEN name[p] ELSE tail[p - n]
    <3>1. /\ name \o tail \in Seq(S) /\ Len(name \o tail) = Len(name) + Len(tail)
          /\ \A p \in 1..(Len(name) + Len(tail)) : (name \o tail)[p] =
               IF p <= Len(name) THEN name[p] ELSE tail[p - Len(name)]
      BY <1>4, <1>6, ConcatProperties
    <3> QED
      BY <1>1, <1>6, <3>1
  <2>3. n + 1 \in 1..(n + 2) /\ n + 2 \in 1..(n + 2) /\ ~(n + 1 <= n) /\ ~(n + 2 <= n)
        /\ (n + 1) - n = 1 /\ (n + 2) - n = 2
    BY <1>1
  <2>4. path[n + 1] = tail[1]
    BY <2>1, <2>2, <2>3
  <2>5. path[n + 2] = tail[2]
    BY <2>1, <2>2, <2>3
  <2>6. \A p \in 1..n : p \in 1..(n + 2) /\ p <= n
    BY <1>1
  <2> QED
    BY <1>6, <2>1, <2>2, <2>4, <2>5, <2>6
<1>8. \A p \in 1..(n + 2) : p \in 1..n \/ p = n + 1 \/ p = n + 2
  BY <1>1
<1>9. "." # "/" /\ "wasm" # "/" /\ "wasm" # "."
  OBVIOUS
<1>10. \A p \in 1..(n + 2) : path[p] # "/"
  BY <1>1, <1>7, <1>8, <1>9
<1>11. FindLastOf(path, "/") = -1
  <2> DEFINE P == {-1} \cup {i \in 0..(Len(path) - 1) : path[i + 1] = "/"}
  <2>1. \A i \in 0..(Len(path) - 1) : i + 1 \in 1..(n + 2)
    BY <1>7
  <2>2. \A y \in P : y = -1
    BY <1>10, <2>1
  <2>3. -1 \in P
    OBVIOUS
  <2> HIDE DEF P
  <2>4. Max(P) = -1
    BY <2>2, <2>3, MaxIs
  <2> QED
    BY <2>4 DEF P, FindLastOf
<1>12. FindLastOf(path, ".") = n
  <2> DEFINE P == {-1} \cup {i \in 0..(Len(path) - 1) : path[i + 1] = "."}
  <2>1. \A i \in 0..(Len(path) - 1) : i \in Nat /\ i <= n + 1 /\ i + 1 \in 1..(n + 2)
    BY <1>7
  <2>2. \A i \in 0..(Len(path) - 1) : path[i + 1] = "." => i <= n
    <3>1. \A i \in 0..(Len(path) - 1) : i # n + 1 => i <= n
      BY <2>1
    <3>2. (n + 1) + 1 = n + 2
      OBVIOUS
    <3> QED
      BY <1>7, <1>9, <3>1, <3>2
  <2>3. \A y \in P : y \in Int /\ n >= y
    BY <2>1, <2>2
  <2>4. n \in 0..(Len(path) - 1)
    BY <1>7
  <2>5. n \in P
    BY <1>7, <2>4
  <2> HIDE DEF P
  <2>6. Max(P) = n
    BY <2>3, <2>5, MaxIs
  <2> QED
    BY <2>6 DEF P, FindLastOf
<1>13. NameStart(path) = 0
  <2>1. Max({0, -1}) = 0
    BY MaxIs
  <2> QED
    BY <1>11, <2>1 DEF NameStart
<1>14. GetModuleName(path) = SubSeq(path, 1, n)
  <2>1. ~(n < 0) /\ 0 + 1 = 1
    BY <1>1
  <2> QED
    BY <1>12, <1>13, <2>1 DEF GetModuleName
<1>15. SubSeq(path, 1, n) = name
  <2>1. SubSeq(path, 1, n) = [p \in 1..n |-> path[p]]
    BY <1>1, <1>7
  <2>2. name = [p \in 1..n |-> name[p]]
    BY <1>1
  <2> QED
    BY <1>7, <2>1, <2>2
<1> QED
  BY <1>2, <1>14, <1>15

-----------------------------------------------------------------------------
(* What files must be like for modules to be instantiated only once: a      *)
(* module has the name of its file or none in its name section (Renamed is  *)
(* the run without this); no import names a module with a slash, since such *)
(* a name is that of another file; and modules do not import from each      *)
(* other in a circle, so that they can be ranked.                           *)
OwnNames ==
  \A f \in DOMAIN Files : Files[f].decodes => Files[f].name \in {<<>>, GetModuleName(f)}
FlatImports ==
  \A f \in DOMAIN Files : \A k \in DOMAIN Files[f].imports :
    LET name == Files[f].imports[k].module IN \A p \in 1..Len(name) : name[p] # "/"
LowerName(rank, low, high) == rank[low] \in Int /\ rank[high] \in Int /\ rank[low] < rank[high]
Ranked(rank) ==
  \A f \in DOMAIN Files : \A k \in DOMAIN Files[f].imports :
    LowerName(rank, Files[f].imports[k].module, GetModuleName(f))

(* The name of each loaded module leads to it; activations that have begun  *)
(* load modules that are not there yet; and each loads one of lower rank    *)
(* than those that wait for it.                                             *)
Unindexed(cs, names) ==
  \A c \in DOMAIN cs : cs[c].stage # "begin" => GetModuleName(cs[c].file) \notin names
Descending(rank, cs) ==
  \A c, d \in DOMAIN cs :
    c < d => LowerName(rank, GetModuleName(cs[d].file), GetModuleName(cs[c].file))
EachIndexed(ins, idx) ==
  \A i \in DOMAIN ins : ins[i].name \in DOMAIN idx /\ idx[ins[i].name] = i
OnceInv(rank) ==
  /\ LinkInv /\ EachIndexed(moduleIns, moduleIdx)
  /\ Unindexed(calls, DOMAIN moduleIdx) /\ Descending(rank, calls)

LEMMA OnceInit == ASSUME NEW rank, Init PROVE OnceInv(rank)
<1>1. moduleIns = Native /\ moduleIdx = NativeIdx /\ calls = <<>>
  BY DEF Init
<1>2. <<"spectest">> # <<"wasi_unstable">>
  OBVIOUS
<1>3. EachIndexed(moduleIns, moduleIdx)
  BY <1>1, <1>2, NativeSeq DEF EachIndexed, NativeIdx
<1>4. DOMAIN calls = {}
  BY <1>1
<1> QED
  BY <1>3, <1>4, LinkInit DEF OnceInv, Unindexed, Descending

(* An activation that goes on stays at its file, and has begun only if its  *)
(* module is not there.                                                     *)
LEMMA GoesOnOnce ==
  ASSUME NEW rank, OnceInv(rank), calls # <<>>, NEW call, calls' = Append(Outer, call),
         call.file = Cur.file,
         call.stage # "begin" => GetModuleName(Cur.file) \notin DOMAIN moduleIdx
  PROVE  Unindexed(calls', DOMAIN moduleIdx) /\ Descending(rank, calls')
<1>1. IsSeq(calls)
  BY DEF OnceInv, LinkInv
<1>2. PICK n \in Nat \ {0} : n = Len(calls) /\ DOMAIN calls = 1..n
  BY <1>1, OuterCalls
<1>3. PICK cs : cs = calls'
  OBVIOUS
<1>4. /\ DOMAIN cs = 1..n /\ \A i \in 1..(n - 1) : cs[i] = calls[i]
      /\ cs[n] = call
  BY <1>1, <1>2, <1>3, GoesOn
<1>5. ASSUME NEW c \in 1..n
      PROVE  /\ cs[c].file = calls[c].file
             /\ cs[c].stage # "begin" => GetModuleName(cs[c].file) \notin DOMAIN moduleIdx
  <2>1. CASE c = n
    BY <1>2, <1>4, <2>1 DEF Cur
  <2>2. CASE c # n
    <3>1. c \in 1..(n - 1)
      BY <1>2, <2>2
    <3> QED
      BY <1>2, <1>4, <3>1 DEF OnceInv, Unindexed
  <2> QED
    BY <2>1, <2>2
<1>6. Unindexed(cs, DOMAIN moduleIdx)
  BY <1>4, <1>5 DEF Unindexed
<1>7. Descending(rank, cs)
  BY <1>2, <1>4, <1>5 DEF Descending, OnceInv
<1> QED
  BY <1>3, <1>6, <1>7

(* A nested call is for a module of lower rank.                             *)
LEMMA CallsAgainOnce ==
  ASSUME NEW rank, OnceInv(rank), FlatImports, Ranked(rank), LoadImport
  PROVE  Unindexed(calls', DOMAIN moduleIdx) /\ Descending(rank, calls')
<1>1. /\ calls # <<>> /\ IsSeq(calls) /\ CallOk(moduleIns, Cur) /\ Cur.file \in DOMAIN Files
      /\ Cur.idx <= Len(Module.imports) /\ Cur.stage # "begin"
  BY CurOk DEF LoadImport, Importing, At, OnceInv, LinkInv, Decodable
<1>2. PICK n \in Nat \ {0} : n = Len(calls) /\ DOMAIN calls = 1..n
  BY <1>1, OuterCalls
<1>3. PICK call : call = [Cur EXCEPT !.stage = "waiting"]
  OBVIOUS
<1>4. call.file = Cur.file
  BY <1>1, <1>3 DEF CallOk
<1>5. PICK name : name = Import.module
  OBVIOUS
<1>6. PICK inner : inner = Activation(WasmFile(name))
  OBVIOUS
<1>7. inner.stage = "begin" /\ inner.file = WasmFile(name)
  BY <1>6 DEF Activation
<1>8. PICK cs : cs = calls'
  OBVIOUS
<1>9. cs = Append(Append(Outer, call), inner)
  BY <1>3, <1>5, <1>6, <1>8 DEF LoadImport, WasmFile
<1>10. /\ DOMAIN cs = 1..(n + 1) /\ \A i \in 1..(n - 1) : cs[i] = calls[i]
       /\ cs[n] = call /\ cs[n + 1] = inner
  BY <1>1, <1>2, <1>8, <1>9, CallsAgain
<1>11. GetModuleName(WasmFile(name)) = name
       /\ LowerName(rank, name, GetModuleName(Cur.file))
  <2>1. PICK k : k = Cur.idx
    OBVIOUS
  <2>2. k \in 1..Len(Files[Cur.file].imports) /\ k \in DOMAIN Files[Cur.file].imports
    BY <1>1, <2>1, ImportsListed DEF CallOk, Module
  <2>3. name = Files[Cur.file].imports[k].module
    BY <1>5, <2>1 DEF Import, Module
  <2>4. name \in Seq(STRING) /\ \A p \in 1..Len(name) : name[p] # "/"
    BY <1>1, <2>2, <2>3, ImportsListed DEF FlatImports
  <2> QED
    BY <1>1, <2>2, <2>3, <2>4, FlatFile DEF Ranked
<1>12. calls[n] = Cur
  BY <1>2 DEF Cur
<1>13. \A c \in 1..n : cs[c].file = calls[c].file
  <2>1. \A c \in 1..n : c = n \/ c \in 1..(n - 1)
    BY <1>2
  <2> QED
    BY <1>4, <1>10, <1>12, <2>1
<1>14. ASSUME NEW c \in 1..(n + 1), cs[c].stage # "begin"
       PROVE  GetModuleName(cs[c].file) \notin DOMAIN moduleIdx
  <2>1. c = n \/ c = n + 1 \/ c \in 1..(n - 1)
    BY <1>2
  <2>2. CASE c = n
    <3>1. n \in DOMAIN calls
      BY <1>2
    <3> QED
      BY <1>1, <1>4, <1>10, <1>12, <2>2, <3>1 DEF OnceInv, Unindexed
  <2>3. CASE c \in 1..(n - 1)
    <3>1. c \in DOMAIN calls
      BY <1>2, <2>3
    <3> QED
      BY <1>10, <1>14, <2>3, <3>1 DEF OnceInv, Unindexed
  <2> QED
    BY <1>7, <1>10, <1>14, <2>1, <2>2, <2>3
<1>15. ASSUME NEW c \in 1..(n + 1), NEW d \in 1..(n + 1), c < d
       PROVE  LowerName(rank, GetModuleName(cs[d].file), GetModuleName(cs[c].file))
  <2>1. c \in 1..n
    BY <1>2, <1>15
  <2>2. CASE d \in 1..n
    BY <1>2, <1>13, <1>15, <2>1, <2>2 DEF OnceInv, Descending
  <2>3. CASE d = n + 1
    <3>1. GetModuleName(cs[d].file) = name
      BY <1>7, <1>10, <1>11, <2>3
    <3>2. CASE c = n
      BY <1>4, <1>10, <1>11, <3>1, <3>2
    <3>3. CASE c # n
      <4>1. n \in DOMAIN calls /\ c \in DOMAIN calls /\ c < n
        BY <1>2, <2>1, <3>3
      <4>2. LowerName(rank, GetModuleName(Cur.file), GetModuleName(cs[c].file))
        BY <1>12, <1>13, <2>1, <4>1 DEF OnceInv, Descending
      <4> QED
        BY <1>11, <3>1, <4>2 DEF LowerName
    <3> QED
      BY <3>2, <3>3
  <2> QED
    BY <1>2, <2>2, <2>3
<1>16. Unindexed(cs, DOMAIN moduleIdx)
  BY <1>10, <1>14 DEF Unindexed
<1>17. Descending(rank, cs)
  BY <1>10, <1>15 DEF Descending
<1> QED
  BY <1>8, <1>16, <1>17

(* Returning only ends an activation.                                       *)
LEMMA ReturnsOnce ==
  ASSUME NEW rank, OnceInv(rank), calls # <<>>, calls' = Outer
  PROVE  Unindexed(calls', DOMAIN moduleIdx) /\ Descending(rank, calls')
<1>1. DOMAIN calls' \subseteq DOMAIN calls /\ \A i \in DOMAIN calls' : calls'[i] = calls[i]
  BY Returns DEF OnceInv, LinkInv
<1>2. PICK cs : cs = calls'
  OBVIOUS
<1>3. Unindexed(cs, DOMAIN moduleIdx)
  BY <1>1, <1>2 DEF OnceInv, Unindexed
<1>4. Descending(rank, cs)
  BY <1>1, <1>2 DEF OnceInv, Descending
<1> QED
  BY <1>2, <1>3, <1>4

LEMMA OnceCalls ==
  ASSUME NEW rank, ~Resets, FlatImports, Ranked(rank), OnceInv(rank), [Next]_vars
  PROVE  Unindexed(calls', DOMAIN moduleIdx) /\ Descending(rank, calls')
<1>1. CASE UNCHANGED calls
  BY <1>1 DEF OnceInv
<1>2. ASSUME NEW f \in Wanted, LoadModule(f)
      PROVE  Unindexed(calls', DOMAIN moduleIdx) /\ Descending(rank, calls')
  <2>1. PICK call : call = Activation(f)
    OBVIOUS
  <2>2. calls' = <<call>> /\ call.stage = "begin"
    BY <1>2, <2>1 DEF LoadModule, Activation
  <2>3. PICK cs : cs = calls'
    OBVIOUS
  <2>4. DOMAIN cs = {1} /\ cs[1] = call
    BY <2>2, <2>3, FirstCall
  <2>5. Unindexed(cs, DOMAIN moduleIdx) /\ Descending(rank, cs)
    BY <2>2, <2>4 DEF Unindexed, Descending
  <2> QED
    BY <2>3, <2>5
<1>3. ASSUME calls # <<>>
      PROVE  /\ DOMAIN Cur = {"file", "stage", "idx", "extVal", "importOk"}
             /\ Cur.stage # "begin" => GetModuleName(Cur.file) \notin DOMAIN moduleIdx
  BY <1>3, CurOk DEF OnceInv, Unindexed, CallOk, Cur
<1>4. CASE Begin
  <2>1. calls # <<>>
    BY <1>4 DEF Begin, At
  <2>2. CASE calls' = Outer
    BY <2>1, <2>2, ReturnsOnce
  <2>3. CASE calls' = Append(Outer, [Cur EXCEPT !.stage = "imports"])
             /\ ~Loaded(GetModuleName(Cur.file))
    <3>1. [Cur EXCEPT !.stage = "imports"].file = Cur.file
      BY <1>3, <2>1
    <3> QED
      BY <2>1, <2>3, <3>1, GoesOnOnce DEF Loaded
  <2> QED
    BY <1>4, <2>2, <2>3 DEF Begin, Return, Goto
<1>5. CASE LoadImport
  BY <1>5, CallsAgainOnce
<1>6. CASE Resume
  <2>1. calls # <<>> /\ Cur.stage # "begin"
    BY <1>6 DEF Resume, At
  <2>2. CASE calls' = Append(Outer, Again(Cur))
    <3>1. Again(Cur).file = Cur.file
      BY <1>3, <2>1 DEF Again
    <3> QED
      BY <1>3, <2>1, <2>2, <3>1, GoesOnOnce
  <2> QED
    BY <1>1, <1>6, <2>2 DEF Resume, Goto
<1>7. CASE LookUp
  <2>1. calls # <<>> /\ Cur.stage # "begin"
    BY <1>7 DEF LookUp, Importing, At
  <2>2. Missing(Cur).file = Cur.file
    BY <1>3, <2>1 DEF Missing
  <2>3. \A ext : Found(Cur, ext).file = Cur.file
    BY <1>3, <2>1 DEF Found
  <2>4. CASE \E call : calls' = Append(Outer, call) /\ call.file = Cur.file
    <3>1. PICK call : calls' = Append(Outer, call) /\ call.file = Cur.file
      BY <2>4
    <3> QED
      BY <1>3, <2>1, <3>1, GoesOnOnce
  <2>5. CASE UNCHANGED calls
    BY <1>1, <2>5
  <2> QED
    BY <1>7, <2>2, <2>3, <2>4, <2>5 DEF LookUp, Goto
<1>8. CASE NotSatisfied \/ Instantiate
  <2>1. calls # <<>> /\ calls' = Outer
    BY <1>8 DEF NotSatisfied, Instantiate, At, Return
  <2> QED
    BY <2>1, ReturnsOnce
<1>9. CASE \E x \in Called : CallFunction(x)
  BY <1>1, <1>9 DEF CallFunction
<1> QED
  BY <1>1, <1>2, <1>4, <1>5, <1>6, <1>7, <1>8, <1>9 DEF Next, Step, Reset, vars

LEMMA OnceStep ==
  ASSUME NEW rank, ~Resets, OwnNames, FlatImports, Ranked(rank), OnceInv(rank), [Next]_vars
  PROVE  OnceInv(rank)'
<1>1. LinkInv'
  BY LinkStep DEF OnceInv
<1>2. Unindexed(calls', DOMAIN moduleIdx) /\ Descending(rank, calls')
  BY OnceCalls
<1>3. CASE UNCHANGED app
  BY <1>1, <1>2, <1>3 DEF OnceInv, app
<1>4. CASE Instantiate /\ TypesMatch(Module, Cur.extVal) /\ Registers(NewInstance)
  <2>1. calls # <<>> /\ calls' = Outer /\ Cur.stage # "begin"
    BY <1>4 DEF Instantiate, At, Return
  <2>2. Decodable(Cur.file)
    BY <2>1, CurOk DEF OnceInv
  <2>3. PICK name : name = GetModuleName(Cur.file)
    OBVIOUS
  <2>4. NewInstance.name = name
    BY <2>2, <2>3, NewInstanceIs DEF NewName, OwnNames, Module, Decodable
  <2>5. name \notin DOMAIN moduleIdx
    BY <2>1, <2>3, CurOk DEF OnceInv, Unindexed, Cur
  <2>6. PICK n \in Nat : n = Len(moduleIns) /\ DOMAIN moduleIns = 1..n
    BY IsSeqLen DEF OnceInv, LinkInv, IndexInv
  <2>7. PICK more, idx : more = moduleIns' /\ idx = moduleIdx'
    OBVIOUS
  <2>8. /\ DOMAIN more = 1..(n + 1) /\ \A i \in 1..n : more[i] = moduleIns[i]
        /\ more[n + 1] = NewInstance
    BY <1>4, <2>6, <2>7, Appended DEF Registers, OnceInv, LinkInv, IndexInv
  <2>9. /\ DOMAIN idx = DOMAIN moduleIdx \cup {name} /\ idx[name] = n + 1
        /\ \A x \in DOMAIN moduleIdx : x # name => idx[x] = moduleIdx[x]
    BY <1>4, <2>4, <2>6, <2>7 DEF Registers, IndexWith
  <2>10. ASSUME NEW i \in 1..(n + 1)
         PROVE  more[i].name \in DOMAIN idx /\ idx[more[i].name] = i
    <3>1. CASE i = n + 1
      BY <2>4, <2>8, <2>9, <3>1
    <3>2. CASE i # n + 1
      <4>1. i \in 1..n
        BY <2>6, <3>2
      <4>2. moduleIns[i].name \in DOMAIN moduleIdx /\ moduleIdx[moduleIns[i].name] = i
        BY <2>6, <4>1 DEF OnceInv, EachIndexed
      <4> QED
        BY <2>5, <2>8, <2>9, <4>1, <4>2
    <3> QED
      BY <3>1, <3>2
  <2>11. EachIndexed(more, idx)
    BY <2>8, <2>10 DEF EachIndexed
  <2>12. ASSUME NEW c \in DOMAIN calls'
         PROVE  GetModuleName(calls'[c].file) # name
    <3>1. /\ calls'[c] = calls[c] /\ c \in DOMAIN calls /\ c < Len(calls)
          /\ Len(calls) \in DOMAIN calls
      <4>1. PICK m \in Nat \ {0} : m = Len(calls) /\ DOMAIN calls = 1..m
        BY <2>1, OuterCalls DEF OnceInv, LinkInv
      <4>2. DOMAIN calls' = 1..(m - 1) /\ calls'[c] = calls[c]
        BY <2>1, <4>1, Returns DEF OnceInv, LinkInv
      <4> QED
        BY <4>1, <4>2
    <3>2. LowerName(rank, name, GetModuleName(calls[c].file))
      BY <2>3, <3>1 DEF OnceInv, Descending, Cur
    <3> QED
      BY <3>1, <3>2 DEF LowerName
  <2>13. Unindexed(calls', DOMAIN idx)
    BY <1>2, <2>9, <2>12 DEF Unindexed
  <2> QED
    BY <1>1, <1>2, <2>7, <2>11, <2>13 DEF OnceInv
<1> QED
  BY <1>3, <1>4, TableGrows

(* A module is never instantiated again while it is loaded, in whatever     *)
(* order the host asks for files and modules import from each other         *)
(* (application.cpp, loadModule), for all files whose names are their own,  *)
(* whose imports have no circle, as long as nothing is reset.               *)
THEOREM LoadedOnce ==
  ASSUME ~Resets, OwnNames, FlatImports, NEW rank, Ranked(rank)
  PROVE  Spec => []InstantiatedOnce
<1>1. Init => OnceInv(rank)
  BY OnceInit
<1>2. OnceInv(rank) /\ [Next]_vars => OnceInv(rank)'
  BY OnceStep
<1>3. OnceInv(rank) => InstantiatedOnce
  <2> SUFFICES ASSUME OnceInv(rank),
                      NEW i \in DOMAIN moduleIns, NEW j \in DOMAIN moduleIns,
                      moduleIns[i].name = moduleIns[j].name
               PROVE  i = j
    BY DEF InstantiatedOnce
  <2> QED
    BY DEF OnceInv, EachIndexed
<1> QED
  BY <1>1, <1>2, <1>3, PTL DEF Spec

-----------------------------------------------------------------------------
(* Induction, in a form in which what is proved is a set: the library's     *)
(* theorems have a predicate as a parameter.                                *)
LEMMA SetInduction ==
  ASSUME NEW S, 0 \in S, \A n \in Nat : n \in S => n + 1 \in S
  PROVE  \A n \in Nat : n \in S
<1> DEFINE T == {n \in Nat : n \notin S}
           R == {ss \in Nat \X Nat : ss[1] < ss[2]}
<1>1. SUFFICES ASSUME T # {} PROVE FALSE
  OBVIOUS
<1>2. IsWellFoundedOn(R, Nat)
  BY NatLessThanWellFounded, Zenon DEF OpToRel
<1>3. T \subseteq Nat
  OBVIOUS
<1> HIDE DEF T, R
<1>4. PICK x \in T : \A y \in T : ~(<<y, x>> \in R)
  BY <1>1, <1>2, <1>3, WFMin
<1>5. x \in Nat /\ x # 0 /\ x \notin S
  BY <1>3 DEF T
<1>6. x - 1 \in Nat /\ x - 1 < x /\ (x - 1) + 1 = x
  BY <1>5
<1>7. <<x - 1, x>> \in R
  BY <1>5, <1>6 DEF R
<1>8. x - 1 \in S
  BY <1>4, <1>6, <1>7 DEF T
<1> QED
  BY <1>5, <1>6, <1>8

LEMMA IntervalInduction ==
  ASSUME NEW S, NEW last \in Nat, 0 \in S, \A n \in 0..(last - 1) : n \in S => n + 1 \in S
  PROVE  \A n \in 0..last : n \in S
<1> DEFINE T == {n \in Nat : n <= last => n \in S}
<1>1. 0 \in T
  OBVIOUS
<1>2. \A n \in Nat : n \in T => n + 1 \in T
  OBVIOUS
<1> HIDE DEF T
<1>3. \A n \in Nat : n \in T
  BY <1>1, <1>2, SetInduction
<1> QED
  BY <1>3 DEF T

(* A set of positions has a last one.                                       *)
LEMMA LastPosition ==
  ASSUME NEW last \in Nat, NEW P \in SUBSET (1..last), P # {}
  PROVE  Max(P) \in P /\ \A p \in P : Max(P) >= p
<1> DEFINE S == {n \in 0..last : \A p \in P : p >= last - n => \E m \in P : \A q \in P : m >= q}
<1>1. 0 \in S
  OBVIOUS
<1>2. ASSUME NEW n \in 0..(last - 1), n \in S PROVE n + 1 \in S
  <2>1. ASSUME NEW p \in P, p >= last - (n + 1)
        PROVE  \E m \in P : \A q \in P : m >= q
    <3>1. CASE \E q \in P : q >= last - n
      BY <1>2, <3>1
    <3>2. CASE ~\E q \in P : q >= last - n
      <4>1. \A q \in P : q \in Nat /\ p \in Nat /\ q < last - n
        BY <3>2
      <4>2. \A q \in P : p >= q
        BY <2>1, <4>1
      <4> QED
        BY <4>2
    <3> QED
      BY <3>1, <3>2
  <2> QED
    BY <2>1
<1> HIDE DEF S
<1>3. last \in S
  BY <1>1, <1>2, IntervalInduction
<1>4. PICK p : p \in P
  OBVIOUS
<1>5. p \in Nat /\ last - last = 0 /\ p >= 0
  BY <1>4
<1>6. \A n \in S : \A q \in P : q >= last - n => \E m \in P : \A r \in P : m >= r
  BY DEF S
<1>7. \E m \in P : \A q \in P : m >= q
  BY <1>3, <1>4, <1>5, <1>6
<1> QED
  BY <1>7 DEF Max

-----------------------------------------------------------------------------
(* The addresses a module imports: the recursive function of Imported       *)
(* exists, and gives the addresses of the values of that type, as many as   *)
(* there are.                                                               *)
NextImported(ext, type, first, n) ==
  IF n = 0 THEN <<>>
  ELSE IF ext[n].type = type THEN Append(first[n - 1], ext[n].addr) ELSE first[n - 1]

LEMMA ImportedExists ==
  ASSUME NEW ext, NEW type, Len(ext) \in Nat
  PROVE  \E first : /\ first = [n \in 0..Len(ext) |-> NextImported(ext, type, first, n)]
                    /\ Imported(ext, type) = first[Len(ext)]
<1> DEFINE S == {n \in 0..Len(ext) : \E g : g = [m \in 0..n |-> NextImported(ext, type, g, m)]}
<1>1. 0 \in S
  <2>1. PICK g : g = [m \in 0..0 |-> <<>>]
    OBVIOUS
  <2>2. \A m \in 0..0 : NextImported(ext, type, g, m) = <<>>
    BY DEF NextImported
  <2>3. g = [m \in 0..0 |-> NextImported(ext, type, g, m)]
    BY <2>1, <2>2
  <2> QED
    BY <2>3
<1>2. ASSUME NEW n \in 0..(Len(ext) - 1), n \in S PROVE n + 1 \in S
  <2>1. PICK g : g = [m \in 0..n |-> NextImported(ext, type, g, m)]
    BY <1>2
  <2>2. PICK h : h = [m \in 0..(n + 1) |->
                       IF m <= n THEN g[m] ELSE NextImported(ext, type, g, n + 1)]
    OBVIOUS
  <2>3. (n + 1) - 1 = n /\ n + 1 # 0 /\ n \in 0..n
    OBVIOUS
  <2>4. \A m \in 0..n : h[m] = g[m] /\ g[m] = NextImported(ext, type, g, m)
    BY <2>1, <2>2
  <2>5. ASSUME NEW m \in 0..(n + 1) PROVE h[m] = NextImported(ext, type, h, m)
    <3>1. CASE m = 0
      BY <2>4, <3>1 DEF NextImported
    <3>2. CASE m # 0 /\ m <= n
      <4>1. m \in 0..n /\ m - 1 \in 0..n
        BY <3>2
      <4>2. h[m - 1] = g[m - 1] /\ h[m] = NextImported(ext, type, g, m)
        BY <2>4, <4>1
      <4> QED
        BY <3>2, <4>2 DEF NextImported
    <3>3. CASE m = n + 1
      <4>1. h[n + 1] = NextImported(ext, type, g, n + 1)
        BY <2>2
      <4>2. h[n] = g[n]
        BY <2>3, <2>4
      <4> QED
        BY <2>3, <3>3, <4>1, <4>2 DEF NextImported
    <3> QED
      BY <3>1, <3>2, <3>3
  <2>6. h = [m \in 0..(n + 1) |-> NextImported(ext, type, h, m)]
    BY <2>2, <2>5
  <2>7. n + 1 \in 0..Len(ext)
    OBVIOUS
  <2> QED
    BY <2>6, <2>7
<1> HIDE DEF S
<1>3. Len(ext) \in S
  <2>1. PICK last \in Nat : last = Len(ext)
    OBVIOUS
  <2>2. \A n \in 0..(last - 1) : n \in S => n + 1 \in S
    BY <1>2, <2>1
  <2>3. \A n \in 0..last : n \in S
    BY <1>1, <2>2, IntervalInduction
  <2> QED
    BY <2>1, <2>3
<1>4. \E g : g = [n \in 0..Len(ext) |-> NextImported(ext, type, g, n)]
  BY <1>3 DEF S
<1> DEFINE first == CHOOSE g : g = [n \in 0..Len(ext) |-> NextImported(ext, type, g, n)]
<1>5. first = [n \in 0..Len(ext) |-> NextImported(ext, type, first, n)]
  BY <1>4
<1>6. Imported(ext, type) = first[Len(ext)]
  BY DEF Imported, NextImported
<1> QED
  BY <1>5, <1>6

OfType(ext, type, n) == {k \in 1..n : ext[k].type = type}

LEMMA ImportedIs ==
  ASSUME NEW ext, NEW type, Len(ext) \in Nat
  PROVE  /\ IsSeq(Imported(ext, type))
         /\ Len(Imported(ext, type)) = Cardinality(OfType(ext, type, Len(ext)))
         /\ \A i \in 1..Len(Imported(ext, type)) :
              \E k \in 1..Len(ext) :
                ext[k].type = type /\ Imported(ext, type)[i] = ext[k].addr
<1>1. PICK first : /\ first = [n \in 0..Len(ext) |-> NextImported(ext, type, first, n)]
                   /\ Imported(ext, type) = first[Len(ext)]
  BY ImportedExists
<1> DEFINE Good(n) ==
      /\ IsSeq(first[n]) /\ IsFiniteSet(OfType(ext, type, n))
      /\ Len(first[n]) = Cardinality(OfType(ext, type, n))
      /\ \A i \in 1..Len(first[n]) :
           \E k \in 1..n : ext[k].type = type /\ first[n][i] = ext[k].addr
    S == {n \in 0..Len(ext) : Good(n)}
<1>2. 0 \in S
  <2>1. first[0] = <<>>
    BY <1>1 DEF NextImported
  <2>2. OfType(ext, type, 0) = {}
    BY DEF OfType
  <2>3. IsFiniteSet(OfType(ext, type, 0)) /\ Cardinality(OfType(ext, type, 0)) = 0
    BY <2>2, FS_EmptySet
  <2>4. IsSeq(first[0]) /\ Len(first[0]) = 0
    BY <2>1, EmptySeqIsSeq
  <2>5. \A i \in 1..Len(first[0]) : FALSE
    BY <2>4
  <2>6. Good(0)
    BY <2>3, <2>4, <2>5
  <2> QED
    BY <2>6
<1>3. ASSUME NEW n \in 0..(Len(ext) - 1), n \in S PROVE n + 1 \in S
  <2> DEFINE s == first[n]
             e == ext[n + 1].addr
  <2>1. Good(n) /\ n + 1 \in 0..Len(ext) /\ (n + 1) - 1 = n /\ n + 1 # 0
    BY <1>3, SMTT(30)
  <2>2. first[n + 1] = IF ext[n + 1].type = type THEN Append(s, e) ELSE s
    BY <1>1, <2>1 DEF NextImported
  <2>3. CASE ext[n + 1].type # type
    <3>1. OfType(ext, type, n + 1) = OfType(ext, type, n)
      BY <2>3 DEF OfType
    <3>2. \A k \in 1..n : k \in 1..(n + 1)
      OBVIOUS
    <3>3. Good(n + 1)
      BY <2>1, <2>2, <2>3, <3>1, <3>2
    <3> QED
      BY <2>1, <3>3
  <2>4. CASE ext[n + 1].type = type
    <3>1. OfType(ext, type, n + 1) = OfType(ext, type, n) \cup {n + 1}
          /\ n + 1 \notin OfType(ext, type, n)
      BY <2>4 DEF OfType
    <3>2. IsFiniteSet(OfType(ext, type, n + 1))
          /\ Cardinality(OfType(ext, type, n + 1)) = Cardinality(OfType(ext, type, n)) + 1
      BY <2>1, <3>1, FS_AddElement
    <3>3. PICK t : t = first[n + 1]
      OBVIOUS
    <3>4. /\ IsSeq(t) /\ Len(t) = Len(s) + 1
          /\ \A i \in 1..Len(s) : t[i] = s[i]
          /\ t[Len(s) + 1] = e
      <4>1. t = Append(s, e) /\ IsSeq(s)
        BY <2>1, <2>2, <2>4, <3>3
      <4> QED
        BY <4>1, Appended
    <3>5. ASSUME NEW i \in 1..Len(t)
          PROVE  \E k \in 1..(n + 1) : ext[k].type = type /\ t[i] = ext[k].addr
      <4>1. Len(s) \in Nat
        BY <2>1, IsSeqLen
      <4>2. CASE i = Len(s) + 1
        <5>1. n + 1 \in 1..(n + 1)
          OBVIOUS
        <5> QED
          BY <2>4, <3>4, <4>2, <5>1
      <4>3. CASE i # Len(s) + 1
        <5>1. i \in 1..Len(s)
          BY <3>4, <4>1, <4>3
        <5>2. PICK k \in 1..n : ext[k].type = type /\ s[i] = ext[k].addr
          BY <2>1, <5>1
        <5>3. k \in 1..(n + 1)
          OBVIOUS
        <5> QED
          BY <3>4, <5>1, <5>2, <5>3
      <4> QED
        BY <4>2, <4>3
    <3>6. Good(n + 1)
      BY <2>1, <3>2, <3>3, <3>4, <3>5
    <3> QED
      BY <2>1, <3>6
  <2> QED
    BY <2>3, <2>4
<1> HIDE DEF S
<1>4. Len(ext) \in S
  <2>1. PICK last \in Nat : last = Len(ext)
    OBVIOUS
  <2>2. \A n \in 0..(last - 1) : n \in S => n + 1 \in S
    BY <1>3, <2>1
  <2>3. \A n \in 0..last : n \in S
    BY <1>2, <2>2, IntervalInduction
  <2> QED
    BY <2>1, <2>3
<1>5. Good(Len(ext))
  BY <1>4 DEF S
<1> QED
  BY <1>1, <1>5

-----------------------------------------------------------------------------
(* The addresses a new instance knows.                                      *)
LEMMA Concatenated ==
  ASSUME NEW s, IsSeq(s), NEW t, IsSeq(t)
  PROVE  /\ IsSeq(s \o t) /\ Len(s \o t) = Len(s) + Len(t)
         /\ \A i \in 1..Len(s) : (s \o t)[i] = s[i]
         /\ \A i \in 1..(Len(s) + Len(t)) :
              i \notin 1..Len(s) => i - Len(s) \in 1..Len(t) /\ (s \o t)[i] = t[i - Len(s)]
<1> DEFINE S == {s[i] : i \in DOMAIN s} \cup {t[i] : i \in DOMAIN t}
<1>1. s \in Seq(S) /\ t \in Seq(S)
  BY DEF IsSeq
<1> HIDE DEF S
<1>2. PICK m \in Nat, n \in Nat : m = Len(s) /\ n = Len(t)
  BY <1>1
<1>3. /\ s \o t \in Seq(S) /\ Len(s \o t) = Len(s) + Len(t)
      /\ \A i \in 1..(Len(s) + Len(t)) :
           (s \o t)[i] = IF i <= Len(s) THEN s[i] ELSE t[i - Len(s)]
  BY <1>1, ConcatProperties
<1>4. PICK u : u = s \o t
  OBVIOUS
<1>5. /\ u \in Seq(S) /\ Len(u) = m + n
      /\ \A i \in 1..(m + n) : u[i] = IF i <= m THEN s[i] ELSE t[i - m]
  BY <1>2, <1>3, <1>4
<1>6. \A i \in 1..m : i \in 1..(m + n) /\ i <= m
  BY <1>2
<1>7. \A i \in 1..(m + n) : i \notin 1..m => i - m \in 1..n /\ ~(i <= m)
  BY <1>2
<1>8. IsSeq(u)
  BY <1>5, SeqIsSeq
<1> QED
  BY <1>2, <1>4, <1>5, <1>6, <1>7, <1>8

LEMMA ListIsSeq ==
  ASSUME NEW n \in Nat, NEW s, s = [i \in 1..n |-> s[i]]
  PROVE  IsSeq(s) /\ Len(s) = n
<1> DEFINE S == {s[i] : i \in 1..n}
<1>1. \A i \in 1..n : s[i] \in S
  OBVIOUS
<1> HIDE DEF S
<1>2. s \in Seq(S) /\ Len(s) = n
  BY <1>1, IsASeq
<1> QED
  BY <1>2, SeqIsSeq

LEMMA FileFacts ==
  ASSUME NEW f \in DOMAIN Files
  PROVE  /\ Files[f].funcs \in Nat /\ Files[f].tables \in Nat /\ Files[f].mems \in Nat
         /\ Files[f].globals \in Seq(Expr)
         /\ \A type \in ExternType : Own(Files[f])[type] \in Nat
<1>1. /\ Files[f].funcs \in Nat /\ Files[f].tables \in Nat /\ Files[f].mems \in Nat
      /\ Valid(Files[f])
  BY FilesAssumption
<1>2. Files[f].globals \in Seq(Expr)
  BY <1>1 DEF Valid
<1>3. Len(Files[f].globals) \in Nat
  BY <1>2
<1> QED
  BY <1>1, <1>2, <1>3 DEF Own, ExternType

(* Each is that of an import of its type or one of those that are new in    *)
(* the store, and there are as many as the module knows.                    *)
AddrOf(ext, type, own, addr) ==
  \/ \E k \in 1..Len(ext) : ext[k].type = type /\ addr = ext[k].addr
  \/ \E i \in 1..own : addr = Stored[type] + i

LEMMA AddrsAre ==
  ASSUME NEW f \in DOMAIN Files, NEW ext, IsSeq(ext), TypesMatch(Files[f], ext),
         NEW type \in ExternType
  PROVE  /\ IsSeq(Addrs(Files[f], ext)[type])
         /\ Len(Addrs(Files[f], ext)[type]) = Known(Files[f], type)
         /\ \A i \in 1..Known(Files[f], type) :
              AddrOf(ext, type, Own(Files[f])[type], Addrs(Files[f], ext)[type][i])
<1>1. PICK own \in Nat : own = Own(Files[f])[type]
  BY FileFacts
<1>2. PICK s : s = Imported(ext, type)
  OBVIOUS
<1>3. PICK t : t = [i \in 1..own |-> Stored[type] + i]
  OBVIOUS
<1>4. Len(ext) \in Nat /\ DOMAIN ext = 1..Len(ext)
  BY IsSeqLen
<1>5. /\ IsSeq(s) /\ Len(s) = Cardinality(OfType(ext, type, Len(ext)))
      /\ \A i \in 1..Len(s) : \E k \in 1..Len(ext) : ext[k].type = type /\ s[i] = ext[k].addr
  BY <1>2, <1>4, ImportedIs
<1>6. IsSeq(t) /\ Len(t) = own
  <2>1. t = [i \in 1..own |-> t[i]]
    BY <1>3
  <2> QED
    BY <2>1, ListIsSeq
<1>7. PICK u : u = s \o t
  OBVIOUS
<1>8. Addrs(Files[f], ext)[type] = u
  BY <1>1, <1>2, <1>3, <1>7 DEF Addrs
<1>9. PICK m \in Nat : m = Len(s)
  BY <1>5, IsSeqLen
<1>10. /\ IsSeq(u) /\ Len(u) = m + own
       /\ \A i \in 1..m : u[i] = s[i]
       /\ \A i \in 1..(m + own) : i \notin 1..m => i - m \in 1..own /\ u[i] = t[i - m]
  <2>1. /\ IsSeq(s \o t) /\ Len(s \o t) = Len(s) + Len(t)
        /\ \A i \in 1..Len(s) : (s \o t)[i] = s[i]
        /\ \A i \in 1..(Len(s) + Len(t)) :
             i \notin 1..Len(s) => i - Len(s) \in 1..Len(t) /\ (s \o t)[i] = t[i - Len(s)]
    BY <1>5, <1>6, Concatenated
  <2> QED
    BY <1>6, <1>7, <1>9, <2>1
<1>11. Known(Files[f], type) = m + own
  <2>1. OfType(ext, type, Len(ext))
        = {k \in DOMAIN Files[f].imports : Files[f].imports[k].type = type}
    BY <1>4, ImportsListed DEF OfType, TypesMatch
  <2> QED
    BY <1>1, <1>5, <1>9, <2>1 DEF Known
<1>12. ASSUME NEW i \in 1..(m + own)
       PROVE  AddrOf(ext, type, own, u[i])
  <2>1. CASE i \in 1..m
    BY <1>5, <1>9, <1>10, <2>1 DEF AddrOf
  <2>2. CASE i \notin 1..m
    <3>1. PICK j \in 1..own : j = i - m
      BY <1>10, <2>2
    <3>2. u[i] = Stored[type] + j
      BY <1>3, <1>10, <2>2, <3>1
    <3> QED
      BY <3>2 DEF AddrOf
  <2> QED
    BY <2>1, <2>2
<1> QED
  BY <1>1, <1>8, <1>10, <1>11, <1>12

-----------------------------------------------------------------------------
(* What segments write is what they hold.                                   *)
Segments(D) == Seq([offset : Expr, init : Seq(D)])
OldOrWritten(D, old, new, cell) == new = old \/ \E d \in D : new = cell[d]

LEMMA OverlayIs ==
  ASSUME NEW D, NEW segs \in Segments(D), NEW cells, NEW cell,
         NEW p \in DOMAIN cells, p \in Int
  PROVE  OldOrWritten(D, cells[p], Overlay(cells, segs, cell)[p], cell)
<1> DEFINE S == {k \in Written(segs, Len(cells)) : Covers(segs[k], p)}
<1>1. Overlay(cells, segs, cell)[p] =
        IF S = {} THEN cells[p] ELSE cell[segs[Max(S)].init[p - Offset(segs[Max(S)])]]
  BY DEF Overlay
<1>2. CASE S = {}
  BY <1>1, <1>2 DEF OldOrWritten
<1>3. CASE S # {}
  <2>1. PICK last \in Nat : last = Len(segs) /\ DOMAIN segs = 1..last
    BY DEF Segments
  <2>2. S \in SUBSET (1..last)
    BY <2>1 DEF Written
  <2> HIDE DEF S
  <2>3. Max(S) \in S
    BY <1>3, <2>2, LastPosition
  <2>4. PICK k : k = Max(S)
    OBVIOUS
  <2>5. k \in 1..last /\ Covers(segs[k], p)
    BY <2>2, <2>3, <2>4 DEF S
  <2>6. PICK seg : seg = segs[k]
    OBVIOUS
  <2>7. seg \in [offset : Expr, init : Seq(D)]
    <3>1. PICK R : R = [offset : Expr, init : Seq(D)]
      OBVIOUS
    <3>2. segs \in Seq(R) /\ k \in 1..Len(segs)
      BY <2>1, <2>5, <3>1 DEF Segments
    <3>3. segs[k] \in R
      BY <3>2
    <3> QED
      BY <2>6, <3>1, <3>3
  <2>8. Offset(seg) \in Int
    <3>1. seg.offset \in Expr
      BY <2>7
    <3> QED
      BY <3>1 DEF Offset, InitValue, Expr
  <2>9. PICK init \in Seq(D) : init = seg.init
    BY <2>7
  <2>10. PICK o \in Int : o = Offset(seg)
    BY <2>8
  <2>11. p - 1 \in o..(o + Len(init) - 1)
    BY <2>5, <2>6, <2>9, <2>10 DEF Covers
  <2>12. p - o \in 1..Len(init)
    BY <2>11
  <2>13. init[p - o] \in D
    BY <2>12
  <2>14. Overlay(cells, segs, cell)[p] = cell[init[p - o]]
    BY <1>1, <1>3, <2>4, <2>6, <2>9, <2>10
  <2>15. PICK d \in D : d = init[p - o]
    BY <2>13
  <2>16. Overlay(cells, segs, cell)[p] = cell[d]
    BY <2>14, <2>15
  <2> QED
    BY <2>16 DEF OldOrWritten
<1> QED
  BY <1>2, <1>3

LEMMA OverlayTyped ==
  ASSUME NEW D, NEW segs \in Segments(D), NEW C, NEW n \in Nat,
         NEW cells \in [1..n -> C], NEW cell, \A d \in D : cell[d] \in C
  PROVE  Overlay(cells, segs, cell) \in [1..n -> C]
<1>1. ASSUME NEW p \in 1..n PROVE Overlay(cells, segs, cell)[p] \in C
  <2>1. p \in DOMAIN cells /\ p \in Int
    OBVIOUS
  <2>2. OldOrWritten(D, cells[p], Overlay(cells, segs, cell)[p], cell)
    BY <2>1, OverlayIs
  <2> QED
    BY <2>2 DEF OldOrWritten
<1>2. PICK over : over = Overlay(cells, segs, cell)
  OBVIOUS
<1>3. over = [p \in 1..n |-> over[p]]
  BY <1>2 DEF Overlay
<1> QED
  BY <1>1, <1>2, <1>3

-----------------------------------------------------------------------------
(* Exports and links are what is in the store, and belong to instances that *)
(* exist.                                                                   *)
ExternIn(e, stored, fs, live) ==
  /\ e.type \in ExternType /\ e.addr \in 1..stored[e.type]
  /\ e.type = "func" => fs[e.addr] \in live
ExternOk(e) == ExternIn(e, Stored, funcs, Live)
ExportsOk(ins) == \A i \in DOMAIN ins : \A x \in DOMAIN ins[i].exports : ExternOk(ins[i].exports[x])
HoldsOk(call) ==
  /\ DOMAIN call = {"file", "stage", "idx", "extVal", "importOk"}
  /\ call.stage \in {"begin", "imports", "waiting"} /\ call.idx \in Nat \ {0}
  /\ call.importOk \in BOOLEAN /\ IsSeq(call.extVal)
  /\ call.stage # "begin" => Decodable(call.file)
  /\ \A k \in 1..Len(call.extVal) : ExternOk(call.extVal[k])
NativesFirst ==
  /\ Len(funcs) >= 2 /\ funcs[1] = 1
  /\ 1 \in DOMAIN moduleIns /\ moduleIns[1].id = 1
StoreInv ==
  /\ LoaderTypeInv /\ made \in Nat /\ IsSeq(moduleIns) /\ IsSeq(calls)
  /\ NativesFirst /\ ExportsOk(moduleIns)
  /\ \A c \in DOMAIN calls : HoldsOk(calls[c])

(* What Init and Reset make.                                                *)
Fresh ==
  /\ moduleIns = Native /\ funcs = <<1, 2>> /\ tables = <<EmptyTable>>
  /\ mems = <<>> /\ globals = <<>> /\ made = 2

LEMMA FreshTyped ==
  ASSUME Fresh
  PROVE  /\ funcs \in Seq(1..made) /\ tables \in Seq([1..TableSize -> 1..Len(funcs)])
         /\ mems \in Seq(Seq(Nat)) /\ globals \in Seq(Int)
         /\ Len(funcs) = 2 /\ funcs[1] = 1 /\ funcs[2] = 2 /\ Len(tables) = 1
<1>1. PICK r : r = 1..made
  OBVIOUS
<1>2. 1 \in r /\ 2 \in r
  BY <1>1 DEF Fresh
<1>3. PICK fs : fs = <<1, 2>>
  OBVIOUS
<1>4. fs \in Seq(r) /\ Len(fs) = 2 /\ fs[1] = 1 /\ fs[2] = 2
  BY <1>2, <1>3
<1>5. funcs = fs
  BY <1>3 DEF Fresh
<1>6. EmptyTable \in [1..TableSize -> 1..2]
  BY DEF EmptyTable
<1>7. PICK e : e = EmptyTable
  OBVIOUS
<1>8. PICK T : T = [1..TableSize -> 1..2]
  OBVIOUS
<1>9. <<e>> \in Seq(T) /\ Len(<<e>>) = 1
  BY <1>6, <1>7, <1>8
<1>10. tables \in Seq([1..TableSize -> 1..Len(funcs)]) /\ Len(tables) = 1
  BY <1>4, <1>5, <1>7, <1>8, <1>9 DEF Fresh
<1>11. mems \in Seq(Seq(Nat)) /\ globals \in Seq(Int)
  BY DEF Fresh
<1> QED
  BY <1>1, <1>4, <1>5, <1>10, <1>11

-----------------------------------------------------------------------------
(* What instantiate does to the store: it is extended, and cells of tables  *)
(* and memories get values of their type.                                   *)
Extends(u, s, n, t) ==
  /\ Len(u) = Len(s) + n
  /\ \A i \in 1..Len(s) : u[i] = s[i]
  /\ \A i \in 1..n : u[Len(s) + i] = t[i]

LEMMA Extended ==
  ASSUME NEW S, NEW s \in Seq(S), NEW n \in Nat, NEW t, t = [i \in 1..n |-> t[i]],
         NEW R, S \subseteq R, \A i \in 1..n : t[i] \in R
  PROVE  s \o t \in Seq(R) /\ Extends(s \o t, s, n, t)
<1>1. s \in Seq(R) /\ t \in Seq(R) /\ Len(t) = n
  BY SeqMonotonic, IsASeq
<1>2. PICK m \in Nat : m = Len(s)
  OBVIOUS
<1>3. /\ s \o t \in Seq(R) /\ Len(s \o t) = Len(s) + Len(t)
      /\ \A i \in 1..(Len(s) + Len(t)) :
           (s \o t)[i] = IF i <= Len(s) THEN s[i] ELSE t[i - Len(s)]
  BY <1>1, ConcatProperties
<1>4. PICK u : u = s \o t
  OBVIOUS
<1>5. /\ u \in Seq(R) /\ Len(u) = m + n
      /\ \A i \in 1..(m + n) : u[i] = IF i <= m THEN s[i] ELSE t[i - m]
  BY <1>1, <1>2, <1>3, <1>4
<1>6. \A i \in 1..m : i \in 1..(m + n) /\ i <= m
  BY <1>2
<1>7. \A i \in 1..n : m + i \in 1..(m + n) /\ ~(m + i <= m) /\ (m + i) - m = i
  BY <1>2
<1> QED
  BY <1>2, <1>4, <1>5, <1>6, <1>7 DEF Extends

LEMMA StoredNat ==
  ASSUME LoaderTypeInv, NEW type \in ExternType
  PROVE  Stored[type] \in Nat
<1>1. Len(funcs) \in Nat /\ Len(tables) \in Nat /\ Len(mems) \in Nat /\ Len(globals) \in Nat
  BY DEF LoaderTypeInv
<1> QED
  BY <1>1 DEF Stored, ExternType

(* The activation that instantiates holds what AddrsAre asks for.           *)
LEMMA Instantiating ==
  ASSUME StoreInv, Instantiate
  PROVE  /\ calls # <<>> /\ HoldsOk(Cur) /\ Decodable(Cur.file)
         /\ Cur.file \in DOMAIN Files /\ Valid(Module) /\ IsSeq(Cur.extVal)
<1>1. calls # <<>> /\ Cur.stage = "imports"
  BY DEF Instantiate, At
<1>2. HoldsOk(Cur)
  BY <1>1, OuterCalls DEF StoreInv, Cur
<1>3. Decodable(Cur.file)
  BY <1>1, <1>2 DEF HoldsOk
<1>4. Cur.file \in DOMAIN Files
  BY <1>3 DEF Decodable
<1>5. Valid(Module)
  BY <1>4, FilesAssumption DEF Module
<1> QED
  BY <1>1, <1>2, <1>3, <1>4, <1>5 DEF HoldsOk

LEMMA AddrBound ==
  ASSUME StoreInv, Instantiate, TypesMatch(Module, Cur.extVal), NEW type \in ExternType
  PROVE  /\ IsSeq(NewAddrs[type]) /\ Len(NewAddrs[type]) = Known(Module, type)
         /\ Known(Module, type) \in Nat
         /\ \A i \in 1..Known(Module, type) :
              /\ AddrOf(Cur.extVal, type, Own(Module)[type], NewAddrs[type][i])
              /\ NewAddrs[type][i] \in 1..(Stored[type] + Own(Module)[type])
<1>1. /\ IsSeq(NewAddrs[type]) /\ Len(NewAddrs[type]) = Known(Module, type)
      /\ \A i \in 1..Known(Module, type) :
           AddrOf(Cur.extVal, type, Own(Module)[type], NewAddrs[type][i])
  BY Instantiating, AddrsAre DEF Module, NewAddrs
<1>2. Known(Module, type) \in Nat
  BY <1>1, IsSeqLen
<1>3. PICK own \in Nat, old \in Nat : own = Own(Module)[type] /\ old = Stored[type]
  BY Instantiating, FileFacts, StoredNat DEF Module, StoreInv
<1>4. ASSUME NEW i \in 1..Known(Module, type)
      PROVE  NewAddrs[type][i] \in 1..(old + own)
  <2>1. PICK addr : addr = NewAddrs[type][i]
    OBVIOUS
  <2>2. AddrOf(Cur.extVal, type, own, addr)
    BY <1>1, <1>3, <2>1
  <2>3. CASE \E k \in 1..Len(Cur.extVal) : Cur.extVal[k].type = type /\ addr = Cur.extVal[k].addr
    <3>1. PICK k \in 1..Len(Cur.extVal) : Cur.extVal[k].type = type /\ addr = Cur.extVal[k].addr
      BY <2>3
    <3>2. addr \in 1..old
      BY <1>3, <3>1, Instantiating DEF HoldsOk, ExternOk, ExternIn
    <3> QED
      BY <2>1, <3>2
  <2>4. CASE \E j \in 1..own : addr = Stored[type] + j
    BY <1>3, <2>1, <2>4
  <2> QED
    BY <2>2, <2>3, <2>4 DEF AddrOf
<1> QED
  BY <1>1, <1>2, <1>3, <1>4

(* The store after instantiate has passed the test of types.                *)
LEMMA FuncsGrow ==
  ASSUME StoreInv, Instantiate, TypesMatch(Module, Cur.extVal)
  PROVE  /\ funcs' \in Seq(1..made') /\ made' = made + 1
         /\ Len(funcs') = Len(funcs) + Module.funcs
         /\ \A i \in 1..Len(funcs) : funcs'[i] = funcs[i]
         /\ \A i \in 1..Module.funcs : funcs'[Len(funcs) + i] = made + 1
<1>1. PICK own \in Nat : own = Module.funcs
  BY Instantiating, FileFacts DEF Module
<1>2. made' = made + 1 /\ funcs' = funcs \o [i \in 1..own |-> made + 1]
  BY <1>1 DEF Instantiate
<1>3. PICK t : t = [i \in 1..own |-> made + 1]
  OBVIOUS
<1>4. t = [i \in 1..own |-> t[i]]
  BY <1>3
<1>5. funcs \in Seq(1..made) /\ made \in Nat
  BY DEF StoreInv, LoaderTypeInv
<1>6. PICK S, R : S = 1..made /\ R = 1..(made + 1)
  OBVIOUS
<1>7. S \subseteq R /\ \A i \in 1..own : t[i] \in R
  BY <1>3, <1>5, <1>6
<1>8. PICK fs : fs = funcs \o t
  OBVIOUS
<1>9. /\ fs \in Seq(R) /\ Len(fs) = Len(funcs) + own
      /\ \A i \in 1..Len(funcs) : fs[i] = funcs[i]
      /\ \A i \in 1..own : fs[Len(funcs) + i] = t[i]
  <2>1. funcs \in Seq(S)
    BY <1>5, <1>6
  <2>2. fs \in Seq(R) /\ Extends(fs, funcs, own, t)
    BY <1>4, <1>7, <1>8, <2>1, Extended
  <2> QED
    BY <2>2 DEF Extends
<1>10. funcs' = fs
  BY <1>2, <1>3, <1>8
<1> QED
  BY <1>1, <1>2, <1>3, <1>6, <1>9, <1>10

LEMMA GlobalsGrow ==
  ASSUME StoreInv, Instantiate, TypesMatch(Module, Cur.extVal)
  PROVE  globals' \in Seq(Int) /\ Len(globals') = Len(globals) + Len(Module.globals)
<1>1. PICK init : init = Module.globals
  OBVIOUS
<1>2. init \in Seq(Expr)
  BY <1>1, Instantiating, FileFacts DEF Module
<1>3. PICK n \in Nat : n = Len(init) /\ DOMAIN init = 1..n
  BY <1>2
<1>4. PICK t : t = [i \in 1..n |-> InitValue(init[i])]
  OBVIOUS
<1>5. globals' = globals \o t
  BY <1>1, <1>3, <1>4 DEF Instantiate
<1>6. \A i \in 1..n : t[i] \in Int
  <2>1. \A i \in 1..n : init[i] \in Expr
    BY <1>2, <1>3
  <2> QED
    BY <1>4, <2>1 DEF InitValue, Expr
<1>7. t = [i \in 1..n |-> t[i]]
  BY <1>4
<1>8. globals \in Seq(Int)
  BY DEF StoreInv, LoaderTypeInv
<1>9. globals \o t \in Seq(Int) /\ Len(globals \o t) = Len(globals) + n
  BY <1>6, <1>7, <1>8, Extended DEF Extends
<1> QED
  BY <1>1, <1>3, <1>5, <1>9

(* Tables: a cell holds what it did, or the first address if the table is   *)
(* new, or a function that a segment has put there.                         *)
NewElems == IF Module.fails = "export" THEN <<>> ELSE Module.elems
CellFrom(a, p, value) ==
  \/ a \in 1..Len(tables) /\ value = tables[a][p]
  \/ value = 1
  \/ /\ Written(NewElems, TableSize) # {}
     /\ \E d \in 1..Known(Module, "func") : value = NewAddrs["func"][d]

LEMMA ElemsTyped ==
  ASSUME StoreInv, Instantiate
  PROVE  /\ NewElems \in Segments(1..Known(Module, "func"))
         /\ NewElems # <<>> /\ TypesMatch(Module, Cur.extVal) => 1 \in DOMAIN NewAddrs["table"]
<1>1. Module.elems \in Segments(1..Known(Module, "func"))
  BY Instantiating DEF Valid, Segments
<1>2. <<>> \in Segments(1..Known(Module, "func"))
  BY DEF Segments
<1>3. ASSUME NewElems # <<>>, TypesMatch(Module, Cur.extVal)
      PROVE  1 \in DOMAIN NewAddrs["table"]
  <2>1. Known(Module, "table") > 0
    BY <1>3, Instantiating DEF Valid, NewElems
  <2>2. "table" \in ExternType
    BY DEF ExternType
  <2>3. /\ IsSeq(NewAddrs["table"]) /\ Len(NewAddrs["table"]) = Known(Module, "table")
        /\ Known(Module, "table") \in Nat
    BY <1>3, <2>2, AddrBound
  <2> QED
    BY <2>1, <2>3, IsSeqLen
<1> QED
  BY <1>1, <1>2, <1>3 DEF NewElems

LEMMA OverlayNothing ==
  ASSUME NEW segs, NEW cells, NEW cell, NEW p \in DOMAIN cells,
         Written(segs, Len(cells)) = {}
  PROVE  Overlay(cells, segs, cell)[p] = cells[p]
BY DEF Overlay

LEMMA TablesGrow ==
  ASSUME StoreInv, Instantiate, TypesMatch(Module, Cur.extVal)
  PROVE  /\ tables' \in Seq([1..TableSize -> 1..Len(funcs')])
         /\ Len(tables') = Len(tables) + Module.tables
         /\ \A a \in 1..Len(tables') : \A p \in 1..TableSize : CellFrom(a, p, tables'[a][p])
<1>1. PICK own \in Nat : own = Module.tables
  BY Instantiating, FileFacts DEF Module
<1>2. PICK n \in Nat, after \in Nat : n = Len(funcs) /\ after = Len(funcs') /\ n >= 2 /\ n <= after
  <2>1. Len(funcs) \in Nat /\ Len(funcs) >= 2
    BY DEF StoreInv, LoaderTypeInv, NativesFirst
  <2>2. Module.funcs \in Nat
    BY Instantiating, FileFacts DEF Module
  <2> QED
    BY <2>1, <2>2, FuncsGrow
<1>3. PICK S, R : S = [1..TableSize -> 1..n] /\ R = [1..TableSize -> 1..after]
  OBVIOUS
<1>4. tables \in Seq(S) /\ S \subseteq R
  BY <1>2, <1>3 DEF StoreInv, LoaderTypeInv
<1>5. PICK t : t = [i \in 1..own |-> EmptyTable]
  OBVIOUS
<1>6. t = [i \in 1..own |-> t[i]] /\ \A i \in 1..own : t[i] \in R
  BY <1>2, <1>3, <1>5 DEF EmptyTable
<1>7. PICK all : all = tables \o t
  OBVIOUS
<1>8. all \in Seq(R) /\ Extends(all, tables, own, t)
  BY <1>4, <1>6, <1>7, Extended
<1>9. ASSUME NEW a \in 1..Len(all), NEW p \in 1..TableSize
      PROVE  CellFrom(a, p, all[a][p])
  <2>1. PICK m \in Nat : m = Len(tables)
    BY <1>4
  <2>2. Len(all) = m + own
    BY <1>8, <2>1 DEF Extends
  <2>3. CASE a \in 1..m
    BY <1>8, <2>1, <2>3 DEF Extends, CellFrom
  <2>4. CASE a \notin 1..m
    <3>1. PICK i \in 1..own : a = m + i
      <4>1. a - m \in 1..own /\ a = m + (a - m)
        BY <2>1, <2>2, <2>4
      <4> QED
        BY <4>1
    <3>2. all[a] = EmptyTable
      BY <1>5, <1>8, <2>1, <3>1 DEF Extends
    <3> QED
      BY <3>2 DEF EmptyTable, CellFrom
  <2> QED
    BY <2>3, <2>4
<1>10. CASE NewElems = <<>>
  <2>1. tables' = all
    BY <1>1, <1>5, <1>7, <1>10 DEF Instantiate, NewElems
  <2> QED
    BY <1>1, <1>2, <1>3, <1>8, <1>9, <2>1 DEF Extends
<1>11. CASE NewElems # <<>>
  <2>1. PICK b : b = NewAddrs["table"][1]
    OBVIOUS
  <2>2. b \in 1..Len(all)
    <3>1. "table" \in ExternType
      BY DEF ExternType
    <3>2. 1 \in 1..Known(Module, "table")
      BY <1>11, <3>1, ElemsTyped, AddrBound, IsSeqLen
    <3>3. b \in 1..(Stored["table"] + Own(Module)["table"])
      BY <2>1, <3>1, <3>2, AddrBound
    <3> QED
      BY <1>1, <1>8, <3>3 DEF Stored, Own, Extends
  <2>3. PICK D, cell : D = 1..Known(Module, "func") /\ cell = NewAddrs["func"]
    OBVIOUS
  <2>4. PICK over : over = Overlay(all[b], NewElems, cell)
    OBVIOUS
  <2>5. tables' = [all EXCEPT ![b] = over]
    BY <1>1, <1>5, <1>7, <1>11, <2>1, <2>3, <2>4 DEF Instantiate, NewElems, NewAddrs
  <2>6. NewElems \in Segments(D)
    BY <2>3, ElemsTyped
  <2>7. \A d \in D : cell[d] \in 1..after
    <3>1. "func" \in ExternType
      BY DEF ExternType
    <3>2. \A d \in D : cell[d] \in 1..(Stored["func"] + Own(Module)["func"])
      BY <2>3, <3>1, AddrBound
    <3>3. Stored["func"] + Own(Module)["func"] = after
      BY <1>2, FuncsGrow DEF Stored, Own
    <3> QED
      BY <3>2, <3>3
  <2>8. all[b] \in R
    BY <1>8, <2>2
  <2>9. over \in R
    BY <1>3, <2>4, <2>6, <2>7, <2>8, FilesAssumption, OverlayTyped
  <2>10. tables' \in Seq(R) /\ Len(tables') = Len(all)
    BY <1>8, <2>2, <2>5, <2>9, ExceptSeq
  <2>11. ASSUME NEW a \in 1..Len(all), NEW p \in 1..TableSize
         PROVE  CellFrom(a, p, tables'[a][p])
    <3>1. CASE a # b
      BY <1>8, <1>9, <2>5, <3>1
    <3>2. CASE a = b
      <4>1. tables'[a] = over
        BY <1>8, <2>2, <2>5, <3>2
      <4>2. PICK cells : cells = all[b]
        OBVIOUS
      <4>3. DOMAIN cells = 1..TableSize /\ Len(cells) = TableSize /\ p \in DOMAIN cells /\ p \in Int
        BY <1>3, <2>8, <4>2, FilesAssumption
      <4>4. CASE Written(NewElems, TableSize) = {}
        <5>1. over[p] = cells[p]
          BY <2>4, <4>2, <4>3, <4>4, OverlayNothing
        <5> QED
          BY <1>9, <3>2, <4>1, <4>2, <5>1
      <4>5. CASE Written(NewElems, TableSize) # {}
        <5>1. OldOrWritten(D, cells[p], over[p], cell)
          BY <2>4, <2>6, <4>2, <4>3, OverlayIs
        <5>2. CASE over[p] = cells[p]
          BY <1>9, <3>2, <4>1, <4>2, <5>2
        <5>3. CASE \E d \in D : over[p] = cell[d]
          BY <2>3, <4>1, <4>5, <5>3 DEF CellFrom
        <5> QED
          BY <5>1, <5>2, <5>3 DEF OldOrWritten
      <4> QED
        BY <4>4, <4>5
    <3> QED
      BY <3>1, <3>2
  <2> QED
    BY <1>1, <1>2, <1>3, <1>8, <2>10, <2>11 DEF Extends
<1> QED
  BY <1>10, <1>11

(* Memories hold bytes.                                                     *)
LEMMA MemsGrow ==
  ASSUME StoreInv, Instantiate, TypesMatch(Module, Cur.extVal)
  PROVE  mems' \in Seq(Seq(Nat)) /\ Len(mems') = Len(mems) + Module.mems
<1>1. PICK own \in Nat : own = Module.mems
  BY Instantiating, FileFacts DEF Module
<1>2. PICK R : R = Seq(Nat)
  OBVIOUS
<1>3. mems \in Seq(R)
  BY <1>2 DEF StoreInv, LoaderTypeInv
<1>4. PICK t : t = [i \in 1..own |-> EmptyMem]
  OBVIOUS
<1>5. t = [i \in 1..own |-> t[i]] /\ \A i \in 1..own : t[i] \in R
  <2>1. EmptyMem = [i \in 1..MemSize |-> 0]
    BY DEF EmptyMem
  <2>2. EmptyMem \in Seq(Nat)
    BY <2>1, FilesAssumption
  <2> QED
    BY <1>2, <1>4, <2>2
<1>6. PICK all : all = mems \o t
  OBVIOUS
<1>7. R \subseteq R
  OBVIOUS
<1>8. all \in Seq(R) /\ Extends(all, mems, own, t)
  BY <1>3, <1>5, <1>6, <1>7, Extended
<1> DEFINE elems == IF Module.fails = "export" THEN <<>> ELSE Module.elems
           datas == IF DatasRun(Module) THEN Module.datas ELSE <<>>
<1>9. CASE datas = <<>>
  <2>1. mems' = all
    BY <1>1, <1>4, <1>6, <1>9 DEF Instantiate
  <2> QED
    BY <1>1, <1>2, <1>8, <2>1 DEF Extends
<1>10. CASE datas # <<>>
  <2>1. PICK b : b = NewAddrs["mem"][1]
    OBVIOUS
  <2>2. "mem" \in ExternType
    BY DEF ExternType
  <2>3. b \in 1..Len(all)
    <3>1. Known(Module, "mem") > 0
      BY <1>10, Instantiating DEF Valid
    <3>2. 1 \in 1..Known(Module, "mem")
      BY <2>2, <3>1, AddrBound
    <3>3. b \in 1..(Stored["mem"] + Own(Module)["mem"])
      BY <2>1, <2>2, <3>2, AddrBound
    <3> QED
      BY <1>1, <1>8, <3>3 DEF Stored, Own, Extends
  <2>4. PICK D, cell : D = 0..255 /\ cell = Bytes
    OBVIOUS
  <2>5. PICK over : over = Overlay(all[b], datas, cell)
    OBVIOUS
  <2>6. mems' = [all EXCEPT ![b] = over]
    BY <1>1, <1>4, <1>6, <1>10, <2>1, <2>4, <2>5 DEF Instantiate, NewAddrs
  <2>7. datas \in Segments(D)
    BY <1>10, <2>4, Instantiating DEF Valid, Segments
  <2>8. \A d \in D : cell[d] \in Nat
    BY <2>4 DEF Bytes
  <2>9. PICK cells \in Seq(Nat) : cells = all[b]
    BY <1>2, <1>8, <2>3
  <2>10. PICK n \in Nat : n = Len(cells) /\ cells \in [1..n -> Nat]
    OBVIOUS
  <2> HIDE DEF datas
  <2>11. over \in [1..n -> Nat]
    BY <2>5, <2>7, <2>8, <2>9, <2>10, OverlayTyped
  <2>12. over \in R
    BY <1>2, <2>11
  <2> QED
    BY <1>1, <1>2, <1>8, <2>3, <2>6, <2>12, ExceptSeq DEF Extends
<1> QED
  BY <1>9, <1>10

-----------------------------------------------------------------------------
(* What a fresh program has.                                                *)
Idle ==
  /\ Fresh /\ calls = <<>> /\ answer \in BOOLEAN /\ undefined \in BOOLEAN
  /\ \A n \in DOMAIN moduleIdx : moduleIdx[n] \in Nat

LEMMA FreshInv == Idle => StoreInv
<1> SUFFICES ASSUME Idle PROVE StoreInv
  OBVIOUS
<1>1. Fresh
  BY DEF Idle
<1>2. DOMAIN calls = {} /\ IsSeq(calls)
  BY EmptySeqIsSeq DEF Idle
<1>3. LoaderTypeInv
  BY <1>1, <1>2, FreshTyped DEF Idle, LoaderTypeInv
<1>4. IsSeq(moduleIns) /\ DOMAIN moduleIns = {1, 2}
  BY <1>1, NativeSeq DEF Fresh
<1>5. moduleIns[1].id = 1 /\ moduleIns[2].id = 2
      /\ moduleIns[1].exports = [print |-> Extern("func", 1), table |-> Extern("table", 1)]
      /\ moduleIns[2].exports = [proc_exit |-> Extern("func", 2)]
  BY <1>1 DEF Fresh, Native, Instance
<1>6. Live = {1, 2}
  BY <1>4, <1>5 DEF Live
<1>7. Stored["func"] = 2 /\ Stored["table"] = 1
  BY <1>1, FreshTyped DEF Stored
<1>8. ASSUME NEW e, e \in {Extern("func", 1), Extern("table", 1), Extern("func", 2)}
      PROVE  ExternOk(e)
  <2>1. CASE e = Extern("func", 1)
    BY <1>1, <1>6, <1>7, <2>1, FreshTyped DEF Extern, ExternOk, ExternIn, ExternType
  <2>2. CASE e = Extern("table", 1)
    BY <1>1, <1>6, <1>7, <2>2, FreshTyped DEF Extern, ExternOk, ExternIn, ExternType
  <2>3. CASE e = Extern("func", 2)
    BY <1>1, <1>6, <1>7, <2>3, FreshTyped DEF Extern, ExternOk, ExternIn, ExternType
  <2> QED
    BY <1>8, <2>1, <2>2, <2>3
<1>9. ASSUME NEW i \in DOMAIN moduleIns, NEW x \in DOMAIN moduleIns[i].exports
      PROVE  ExternOk(moduleIns[i].exports[x])
  <2>1. moduleIns[i].exports[x] \in {Extern("func", 1), Extern("table", 1), Extern("func", 2)}
    <3> HIDE DEF Extern
    <3>1. CASE i = 1
      BY <1>5, <3>1
    <3>2. CASE i = 2
      BY <1>5, <3>2
    <3> QED
      BY <1>4, <3>1, <3>2
  <2> QED
    BY <1>8, <2>1
<1>10. ExportsOk(moduleIns)
  BY <1>9 DEF ExportsOk
<1>11. NativesFirst /\ made \in Nat
  BY <1>1, <1>4, <1>5, FreshTyped DEF NativesFirst, Fresh
<1> QED
  BY <1>2, <1>3, <1>4, <1>10, <1>11 DEF StoreInv

LEMMA FreshInvAfter == Idle' => StoreInv'
BY FreshInv, PTL

LEMMA StoreInit == Init => StoreInv
<1> SUFFICES ASSUME Init PROVE StoreInv
  OBVIOUS
<1>1. \A n \in DOMAIN NativeIdx : NativeIdx[n] \in Nat
  BY DEF NativeIdx
<1>2. Fresh /\ calls = <<>> /\ answer \in BOOLEAN /\ undefined \in BOOLEAN
  BY DEF Init, Fresh
<1>3. moduleIdx = NativeIdx
  BY DEF Init
<1>4. Idle
  BY <1>1, <1>2, <1>3 DEF Idle
<1> QED
  BY <1>4, FreshInv

LEMMA StoreReset ==
  ASSUME StoreInv, Reset
  PROVE  StoreInv'
<1>1. Fresh'
  BY DEF Reset, Fresh, Cleared
<1>2. Idle'
  BY <1>1 DEF Reset, Idle, StoreInv, LoaderTypeInv, NativeIdx
<1> QED
  BY <1>2, FreshInvAfter

(* The store keeps what is in it, whatever step is taken but :init.         *)
StoreTyped ==
  /\ funcs \in Seq(1..made) /\ tables \in Seq([1..TableSize -> 1..Len(funcs)])
  /\ mems \in Seq(Seq(Nat)) /\ globals \in Seq(Int) /\ made \in Nat
Keeps == \A e : ExternOk(e) => ExternIn(e, Stored', funcs', Live')

LEMMA OnlyInstantiates ==
  ASSUME [Next]_vars, ~Reset
  PROVE  \/ UNCHANGED <<app, store>>
         \/ /\ Instantiate /\ TypesMatch(Module, Cur.extVal)
            /\ UNCHANGED app \/ Registers(NewInstance)
<1>1. CASE Instantiate
  <2>1. CASE ~TypesMatch(Module, Cur.extVal)
    BY <1>1, <2>1 DEF Instantiate
  <2>2. CASE TypesMatch(Module, Cur.extVal)
    <3>1. UNCHANGED app \/ (moduleIns' = Append(moduleIns, NewInstance)
                            /\ moduleIdx' = IndexWith(NewName))
      BY <1>1, <2>2 DEF Instantiate, NewInstance, NewName, NewAddrs
    <3> QED
      BY <1>1, <2>2, <3>1, NewInstanceIs DEF Registers
  <2> QED
    BY <2>1, <2>2
<1>2. CASE ~Instantiate
  BY <1>2 DEF Next, Step, vars, LoadModule, CallFunction, Begin, LoadImport,
     Resume, LookUp, NotSatisfied
<1> QED
  BY <1>1, <1>2

LEMMA StoreKeeps ==
  ASSUME StoreInv, [Next]_vars, ~Reset
  PROVE  /\ StoreTyped' /\ IsSeq(moduleIns') /\ NativesFirst' /\ Keeps
         /\ \A n \in DOMAIN moduleIdx' : moduleIdx'[n] \in Nat
<1>1. CASE UNCHANGED <<app, store>>
  <2>1. Stored' = Stored /\ funcs' = funcs /\ Live' = Live /\ moduleIns' = moduleIns
        /\ moduleIdx' = moduleIdx
    BY <1>1 DEF app, store, Stored, Live
  <2>2. StoreTyped'
    BY <1>1 DEF StoreInv, StoreTyped, LoaderTypeInv, store
  <2> QED
    BY <2>1, <2>2 DEF StoreInv, LoaderTypeInv, NativesFirst, Keeps, ExternOk
<1>2. CASE /\ Instantiate /\ TypesMatch(Module, Cur.extVal)
           /\ UNCHANGED app \/ Registers(NewInstance)
  <2>1. PICK n \in Nat : n = Len(moduleIns) /\ DOMAIN moduleIns = 1..n
    BY IsSeqLen DEF StoreInv
  <2>2. PICK ins : ins = moduleIns'
    OBVIOUS
  <2>3. /\ IsSeq(ins) /\ 1..n \subseteq DOMAIN ins /\ \A i \in 1..n : ins[i] = moduleIns[i]
    <3>1. CASE UNCHANGED app
      BY <2>1, <2>2, <3>1 DEF app, StoreInv
    <3>2. CASE Registers(NewInstance)
      BY <2>1, <2>2, <3>2, Appended DEF Registers, StoreInv
    <3> QED
      BY <1>2, <3>1, <3>2
  <2>4. Live \subseteq Live'
    <3>1. Live' = {ins[i].id : i \in DOMAIN ins}
      BY <2>2 DEF Live
    <3> QED
      BY <2>1, <2>3, <3>1 DEF Live
  <2>5. \A m \in DOMAIN moduleIdx' : moduleIdx'[m] \in Nat
    <3>1. CASE UNCHANGED app
      BY <3>1 DEF app, StoreInv, LoaderTypeInv
    <3>2. CASE Registers(NewInstance)
      BY <2>1, <3>2 DEF Registers, IndexWith, StoreInv, LoaderTypeInv
    <3> QED
      BY <1>2, <3>1, <3>2
  <2>6. \A type \in ExternType : Own(Module)[type] \in Nat /\ Stored[type] \in Nat
    BY <1>2, Instantiating, FileFacts, StoredNat DEF Module, StoreInv
  <2>7. \A type \in ExternType : Stored'[type] = Stored[type] + Own(Module)[type]
    <3>1. /\ Len(funcs') = Len(funcs) + Module.funcs /\ Len(tables') = Len(tables) + Module.tables
          /\ Len(mems') = Len(mems) + Module.mems
          /\ Len(globals') = Len(globals) + Len(Module.globals)
      BY <1>2, FuncsGrow, TablesGrow, MemsGrow, GlobalsGrow
    <3>2. PICK old, new, own : old = Stored /\ new = Stored' /\ own = Own(Module)
      OBVIOUS
    <3>3. /\ old.func = Len(funcs) /\ old.table = Len(tables)
          /\ old.mem = Len(mems) /\ old.global = Len(globals)
      BY <3>2 DEF Stored
    <3>4. /\ new.func = Len(funcs') /\ new.table = Len(tables')
          /\ new.mem = Len(mems') /\ new.global = Len(globals')
      BY <3>2 DEF Stored
    <3>5. /\ own.func = Module.funcs /\ own.table = Module.tables
          /\ own.mem = Module.mems /\ own.global = Len(Module.globals)
      BY <3>2 DEF Own
    <3>6. \A type \in ExternType : new[type] = old[type] + own[type]
      BY <3>1, <3>3, <3>4, <3>5 DEF ExternType
    <3> QED
      BY <3>2, <3>6
  <2>8. ASSUME NEW e, ExternOk(e)
        PROVE  ExternIn(e, Stored', funcs', Live')
    <3>1. e.type \in ExternType /\ e.addr \in 1..Stored[e.type]
          /\ (e.type = "func" => funcs[e.addr] \in Live)
      BY <2>8 DEF ExternOk, ExternIn
    <3>2. e.addr \in 1..Stored'[e.type]
      <4>1. PICK old \in Nat, own \in Nat : old = Stored[e.type] /\ own = Own(Module)[e.type]
        BY <2>6, <3>1
      <4>2. e.addr \in 1..(old + own)
        BY <3>1, <4>1
      <4> QED
        BY <2>7, <3>1, <4>1, <4>2
    <3>3. ASSUME e.type = "func" PROVE funcs'[e.addr] \in Live'
      <4>1. e.addr \in 1..Len(funcs)
        BY <3>1, <3>3 DEF Stored
      <4> QED
        BY <1>2, <2>4, <3>1, <3>3, <4>1, FuncsGrow
    <3> QED
      BY <3>1, <3>2, <3>3 DEF ExternIn
  <2>9. StoreTyped'
    BY <1>2, FuncsGrow, TablesGrow, MemsGrow, GlobalsGrow DEF StoreTyped, StoreInv
  <2>10. NativesFirst'
    <3>1. Module.funcs \in Nat /\ Len(funcs) \in Nat /\ Len(funcs) >= 2
      BY <1>2, Instantiating, FileFacts DEF Module, StoreInv, LoaderTypeInv, NativesFirst
    <3>2. Len(funcs') >= 2 /\ funcs'[1] = funcs[1]
      BY <1>2, <3>1, FuncsGrow
    <3>3. 1 \in 1..n
      BY <2>1 DEF StoreInv, NativesFirst
    <3> QED
      BY <2>1, <2>2, <2>3, <3>2, <3>3 DEF StoreInv, NativesFirst
  <2> QED
    BY <2>2, <2>3, <2>5, <2>8, <2>9, <2>10 DEF Keeps
<1> QED
  BY <1>1, <1>2, OnlyInstantiates

(* What a new instance exports is in the store.                             *)
LEMMA NewExports ==
  ASSUME StoreInv, [Next]_vars, ~Reset, Instantiate, TypesMatch(Module, Cur.extVal),
         Registers(NewInstance)
  PROVE  \A x \in DOMAIN NewInstance.exports :
           ExternIn(NewInstance.exports[x], Stored', funcs', Live')
<1> SUFFICES ASSUME NEW x \in DOMAIN NewInstance.exports
             PROVE  ExternIn(NewInstance.exports[x], Stored', funcs', Live')
  OBVIOUS
<1>1. PICK type : type = Module.exports[x].type
  OBVIOUS
<1>2. PICK idx : idx = Module.exports[x].idx
  OBVIOUS
<1>3. type \in ExternType /\ idx \in 1..Known(Module, type)
  BY <1>1, <1>2, NewInstanceIs, Instantiating DEF Exports, Valid
<1>4. PICK addr : addr = NewAddrs[type][idx]
  OBVIOUS
<1>5. PICK e : e = NewInstance.exports[x]
  OBVIOUS
<1>6. e.type = type /\ e.addr = addr
  <2>1. NewInstance.exports = Exports(Module, NewAddrs)
    BY NewInstanceIs
  <2>2. x \in DOMAIN Module.exports
    BY <2>1 DEF Exports
  <2>3. e = Extern(Module.exports[x].type, NewAddrs[Module.exports[x].type][Module.exports[x].idx])
    BY <1>5, <2>1, <2>2 DEF Exports
  <2> QED
    BY <1>1, <1>2, <1>4, <2>3 DEF Extern
<1>7. AddrOf(Cur.extVal, type, Own(Module)[type], addr)
  BY <1>3, <1>4, AddrBound
<1>8. CASE \E k \in 1..Len(Cur.extVal) : Cur.extVal[k].type = type /\ addr = Cur.extVal[k].addr
  <2>1. PICK k \in 1..Len(Cur.extVal) : Cur.extVal[k].type = type /\ addr = Cur.extVal[k].addr
    BY <1>8
  <2>2. PICK l : l = Cur.extVal[k]
    OBVIOUS
  <2>3. ExternOk(l)
    BY <2>2, Instantiating DEF HoldsOk
  <2>4. ExternIn(l, Stored', funcs', Live')
    BY <2>3, StoreKeeps DEF Keeps
  <2> QED
    BY <1>5, <1>6, <2>1, <2>2, <2>4 DEF ExternIn
<1>9. CASE \E i \in 1..Own(Module)[type] : addr = Stored[type] + i
  <2>1. PICK own \in Nat, old \in Nat : own = Own(Module)[type] /\ old = Stored[type]
    BY <1>3, Instantiating, FileFacts, StoredNat DEF Module, StoreInv
  <2>2. PICK i \in 1..own : addr = old + i
    BY <1>9, <2>1
  <2>3. Stored'[type] = old + own
    <3>1. /\ Len(funcs') = Len(funcs) + Module.funcs /\ Len(tables') = Len(tables) + Module.tables
          /\ Len(mems') = Len(mems) + Module.mems
          /\ Len(globals') = Len(globals) + Len(Module.globals)
      BY FuncsGrow, TablesGrow, MemsGrow, GlobalsGrow
    <3>2. CASE type = "func"
      BY <2>1, <3>1, <3>2 DEF Stored, Own
    <3>3. CASE type = "table"
      BY <2>1, <3>1, <3>3 DEF Stored, Own
    <3>4. CASE type = "mem"
      BY <2>1, <3>1, <3>4 DEF Stored, Own
    <3>5. CASE type = "global"
      BY <2>1, <3>1, <3>5 DEF Stored, Own
    <3> QED
      BY <1>3, <3>2, <3>3, <3>4, <3>5 DEF ExternType
  <2>4. addr \in 1..Stored'[type]
    BY <2>1, <2>2, <2>3
  <2>5. ASSUME type = "func" PROVE funcs'[addr] \in Live'
    <3>1. own = Module.funcs /\ old = Len(funcs)
      BY <2>1, <2>5 DEF Own, Stored
    <3>2. funcs'[addr] = made + 1
      BY <2>2, <3>1, FuncsGrow
    <3>3. PICK n \in Nat : n = Len(moduleIns)
      BY IsSeqLen DEF StoreInv
    <3>4. n + 1 \in DOMAIN moduleIns' /\ moduleIns'[n + 1].id = made + 1
      BY <3>3, Appended, NewInstanceIs DEF Registers, StoreInv
    <3> QED
      BY <3>2, <3>4 DEF Live
  <2> QED
    BY <1>3, <1>5, <1>6, <2>4, <2>5 DEF ExternIn
<1> QED
  BY <1>7, <1>8, <1>9 DEF AddrOf

LEMMA ExportsStay ==
  ASSUME StoreInv, [Next]_vars, ~Reset
  PROVE  ExportsOk(moduleIns)'
<1>1. PICK n \in Nat : n = Len(moduleIns) /\ DOMAIN moduleIns = 1..n
  BY IsSeqLen DEF StoreInv
<1>2. PICK ins : ins = moduleIns'
  OBVIOUS
<1>3. ASSUME NEW i \in 1..n, NEW x \in DOMAIN moduleIns[i].exports
      PROVE  ExternIn(moduleIns[i].exports[x], Stored', funcs', Live')
  <2>1. PICK e : e = moduleIns[i].exports[x]
    OBVIOUS
  <2>2. ExternOk(e)
    BY <1>1, <2>1 DEF StoreInv, ExportsOk
  <2> QED
    BY <2>1, <2>2, StoreKeeps DEF Keeps
<1>4. ASSUME NEW i \in DOMAIN ins, NEW x \in DOMAIN ins[i].exports
      PROVE  ExternIn(ins[i].exports[x], Stored', funcs', Live')
  <2>1. CASE UNCHANGED moduleIns
    BY <1>1, <1>2, <1>3, <1>4, <2>1
  <2>2. CASE /\ Instantiate /\ TypesMatch(Module, Cur.extVal) /\ Registers(NewInstance)
    <3>1. /\ DOMAIN ins = 1..(n + 1) /\ \A j \in 1..n : ins[j] = moduleIns[j]
          /\ ins[n + 1] = NewInstance
      BY <1>1, <1>2, <2>2, Appended DEF Registers, StoreInv
    <3>2. CASE i \in 1..n
      BY <1>3, <1>4, <3>1, <3>2
    <3>3. CASE i = n + 1
      BY <1>4, <2>2, <3>1, <3>3, NewExports
    <3> QED
      BY <3>1, <3>2, <3>3
  <2> QED
    BY <2>1, <2>2, OnlyInstantiates DEF app
<1> QED
  BY <1>2, <1>4 DEF ExportsOk, ExternOk

(* The activations hold what was in the store when the step was taken.      *)
HoldsAll(cs) == \A c \in DOMAIN cs : HoldsOk(cs[c])

LEMMA ActivationHolds == ASSUME NEW f PROVE HoldsOk(Activation(f))
<1>1. PICK call : call = Activation(f)
  OBVIOUS
<1>2. /\ DOMAIN call = {"file", "stage", "idx", "extVal", "importOk"}
      /\ call.idx = 1 /\ call.extVal = <<>> /\ call.stage = "begin" /\ call.importOk = TRUE
  BY <1>1 DEF Activation
<1>3. IsSeq(call.extVal) /\ \A k \in 1..Len(call.extVal) : FALSE
  BY <1>2, EmptySeqIsSeq
<1>4. call.idx \in Nat \ {0}
  BY <1>2
<1>5. call.stage \in {"begin", "imports", "waiting"} /\ call.importOk \in BOOLEAN
  BY <1>2
<1>6. \A k \in 1..Len(call.extVal) : ExternOk(call.extVal[k])
  BY <1>3
<1>7. HoldsOk(call)
  BY <1>2, <1>3, <1>4, <1>5, <1>6 DEF HoldsOk
<1> QED
  BY <1>1, <1>7

LEMMA StageHolds ==
  ASSUME NEW call, HoldsOk(call), NEW stage \in {"begin", "imports", "waiting"},
         Decodable(call.file)
  PROVE  HoldsOk([call EXCEPT !.stage = stage])
<1>1. PICK next : next = [call EXCEPT !.stage = stage]
  OBVIOUS
<1>2. /\ DOMAIN next = DOMAIN call /\ next.stage = stage
      /\ next.idx = call.idx /\ next.extVal = call.extVal /\ next.file = call.file
      /\ next.importOk = call.importOk
  BY <1>1 DEF HoldsOk
<1>3. HoldsOk(next)
  BY <1>2 DEF HoldsOk
<1> QED
  BY <1>1, <1>3

LEMMA AgainHolds ==
  ASSUME NEW call, HoldsOk(call), Decodable(call.file)
  PROVE  HoldsOk(Again(call))
<1>1. PICK next : next = Again(call)
  OBVIOUS
<1>2. /\ DOMAIN next = DOMAIN call /\ next.stage = "imports"
      /\ next.idx = 1 /\ next.extVal = <<>> /\ next.file = call.file
      /\ next.importOk = call.importOk
  BY <1>1 DEF HoldsOk, Again
<1>3. IsSeq(next.extVal) /\ \A k \in 1..Len(next.extVal) : FALSE
  BY <1>2, EmptySeqIsSeq
<1>4. next.idx \in Nat \ {0}
  BY <1>2
<1>5. next.stage \in {"begin", "imports", "waiting"}
  BY <1>2
<1>6. Decodable(next.file)
  BY <1>2
<1>7. next.importOk \in BOOLEAN
  BY <1>2 DEF HoldsOk
<1>8. DOMAIN next = {"file", "stage", "idx", "extVal", "importOk"}
  BY <1>2 DEF HoldsOk
<1>9. \A k \in 1..Len(next.extVal) : ExternOk(next.extVal[k])
  BY <1>3
<1>10. HoldsOk(next)
  BY <1>3, <1>4, <1>5, <1>6, <1>7, <1>8, <1>9 DEF HoldsOk
<1> QED
  BY <1>1, <1>10

LEMMA MissingHolds ==
  ASSUME NEW call, HoldsOk(call)
  PROVE  HoldsOk(Missing(call))
<1>1. PICK next : next = Missing(call)
  OBVIOUS
<1>2. /\ DOMAIN next = DOMAIN call /\ next.stage = call.stage
      /\ next.idx = call.idx + 1 /\ next.extVal = call.extVal /\ next.file = call.file
      /\ next.importOk = FALSE
  BY <1>1 DEF HoldsOk, Missing
<1>3. next.importOk \in BOOLEAN
  BY <1>2
<1>4. PICK i \in Nat \ {0} : i = call.idx
  BY DEF HoldsOk
<1>5. next.idx \in Nat \ {0}
  BY <1>2, <1>4
<1>6. /\ IsSeq(next.extVal) /\ \A k \in 1..Len(next.extVal) : ExternOk(next.extVal[k])
      /\ next.stage # "begin" => Decodable(next.file)
  BY <1>2 DEF HoldsOk
<1>7. HoldsOk(next)
  BY <1>2, <1>3, <1>5, <1>6 DEF HoldsOk
<1> QED
  BY <1>1, <1>7

LEMMA FoundHolds ==
  ASSUME NEW call, HoldsOk(call), NEW ext, ExternOk(ext)
  PROVE  HoldsOk(Found(call, ext))
<1>1. PICK next : next = Found(call, ext)
  OBVIOUS
<1>2. /\ DOMAIN next = DOMAIN call /\ next.stage = call.stage
      /\ next.idx = call.idx + 1 /\ next.file = call.file
      /\ next.importOk = call.importOk
      /\ next.extVal = IF call.importOk THEN Append(call.extVal, ext) ELSE call.extVal
  BY <1>1 DEF HoldsOk, Found
<1>3. PICK old : old = call.extVal
  OBVIOUS
<1>4. IsSeq(old) /\ Len(old) \in Nat
  BY <1>3, IsSeqLen DEF HoldsOk
<1>5. /\ IsSeq(Append(old, ext)) /\ Len(Append(old, ext)) = Len(old) + 1
      /\ \A k \in 1..Len(old) : Append(old, ext)[k] = old[k]
      /\ Append(old, ext)[Len(old) + 1] = ext
  BY <1>4, Appended
<1>6. \A k \in 1..Len(old) : ExternOk(old[k])
  BY <1>3 DEF HoldsOk
<1>7. \A k \in 1..Len(Append(old, ext)) : ExternOk(Append(old, ext)[k])
  <2>1. \A k \in 1..(Len(old) + 1) : k = Len(old) + 1 \/ k \in 1..Len(old)
    BY <1>4
  <2> QED
    BY <1>5, <1>6, <2>1
<1>8. IsSeq(next.extVal) /\ \A k \in 1..Len(next.extVal) : ExternOk(next.extVal[k])
  BY <1>2, <1>3, <1>4, <1>5, <1>6, <1>7
<1>9. HoldsOk(next)
  BY <1>2, <1>8 DEF HoldsOk
<1> QED
  BY <1>1, <1>9

LEMMA GoesOnHolds ==
  ASSUME IsSeq(calls), HoldsAll(calls), calls # <<>>, NEW call,
         calls' = Append(Outer, call), HoldsOk(call)
  PROVE  IsSeq(calls') /\ HoldsAll(calls')
<1>1. PICK n \in Nat \ {0} : n = Len(calls) /\ DOMAIN calls = 1..n
  BY OuterCalls
<1>2. PICK cs : cs = calls'
  OBVIOUS
<1>3. /\ IsSeq(cs) /\ DOMAIN cs = 1..n /\ \A i \in 1..(n - 1) : cs[i] = calls[i]
      /\ cs[n] = call
  BY <1>1, <1>2, GoesOn
<1>4. \A c \in 1..n : c = n \/ c \in 1..(n - 1)
  BY <1>1
<1>5. \A c \in 1..(n - 1) : c \in DOMAIN calls
  BY <1>1
<1>6. HoldsAll(cs)
  BY <1>3, <1>4, <1>5 DEF HoldsAll
<1> QED
  BY <1>2, <1>3, <1>6

LEMMA ReturnsHolds ==
  ASSUME IsSeq(calls), HoldsAll(calls), calls # <<>>, calls' = Outer
  PROVE  IsSeq(calls') /\ HoldsAll(calls')
<1>1. PICK cs : cs = calls'
  OBVIOUS
<1>2. IsSeq(cs) /\ DOMAIN cs \subseteq DOMAIN calls /\ \A i \in DOMAIN cs : cs[i] = calls[i]
  BY <1>1, Returns
<1>3. HoldsAll(cs)
  BY <1>2 DEF HoldsAll
<1> QED
  BY <1>1, <1>2, <1>3

LEMMA CurHolds ==
  ASSUME StoreInv, calls # <<>>
  PROVE  /\ IsSeq(calls) /\ HoldsAll(calls) /\ HoldsOk(Cur)
         /\ Cur.stage # "begin" => Decodable(Cur.file)
<1>1. IsSeq(calls) /\ HoldsAll(calls)
  BY DEF StoreInv, HoldsAll
<1>2. HoldsOk(Cur)
  BY <1>1, OuterCalls DEF HoldsAll, Cur
<1> QED
  BY <1>1, <1>2 DEF HoldsOk

LEMMA CallsHold ==
  ASSUME StoreInv, [Next]_vars, ~Reset
  PROVE  IsSeq(calls') /\ HoldsAll(calls')
<1>1. CASE UNCHANGED calls
  BY <1>1 DEF StoreInv, HoldsAll
<1>2. ASSUME NEW f \in Wanted, LoadModule(f)
      PROVE  IsSeq(calls') /\ HoldsAll(calls')
  <2>1. PICK call : call = Activation(f)
    OBVIOUS
  <2>2. calls' = <<call>> /\ HoldsOk(call)
    BY <1>2, <2>1, ActivationHolds DEF LoadModule
  <2>3. PICK cs : cs = calls'
    OBVIOUS
  <2>4. IsSeq(cs) /\ DOMAIN cs = {1} /\ cs[1] = call
    BY <2>2, <2>3, FirstCall
  <2>5. HoldsAll(cs)
    BY <2>2, <2>4 DEF HoldsAll
  <2> QED
    BY <2>3, <2>4, <2>5
<1>3. CASE Begin
  <2>1. calls # <<>>
    BY <1>3 DEF Begin, At
  <2>2. CASE calls' = Outer
    BY <2>1, <2>2, CurHolds, ReturnsHolds
  <2>3. CASE calls' = Append(Outer, [Cur EXCEPT !.stage = "imports"]) /\ Decodable(Cur.file)
    <3>1. HoldsOk([Cur EXCEPT !.stage = "imports"])
      BY <2>1, <2>3, CurHolds, StageHolds
    <3> QED
      BY <2>1, <2>3, <3>1, CurHolds, GoesOnHolds
  <2> QED
    BY <1>3, <2>2, <2>3 DEF Begin, Return, Goto, Decodable, Module
<1>4. CASE LoadImport
  <2>1. calls # <<>> /\ Cur.stage # "begin"
    BY <1>4 DEF LoadImport, Importing, At
  <2>2. PICK call : call = [Cur EXCEPT !.stage = "waiting"]
    OBVIOUS
  <2>3. PICK inner : inner = Activation(Import.module \o <<".", "wasm">>)
    OBVIOUS
  <2>4. HoldsOk(call) /\ HoldsOk(inner)
    BY <2>1, <2>2, <2>3, CurHolds, StageHolds, ActivationHolds
  <2>5. calls' = Append(Append(Outer, call), inner)
    BY <1>4, <2>2, <2>3 DEF LoadImport
  <2>6. IsSeq(calls) /\ HoldsAll(calls)
    BY <2>1, CurHolds
  <2>7. PICK n \in Nat \ {0} : n = Len(calls) /\ DOMAIN calls = 1..n
    BY <2>1, <2>6, OuterCalls
  <2>8. PICK cs : cs = calls'
    OBVIOUS
  <2>9. /\ IsSeq(cs) /\ DOMAIN cs = 1..(n + 1) /\ \A i \in 1..(n - 1) : cs[i] = calls[i]
        /\ cs[n] = call /\ cs[n + 1] = inner
    BY <2>1, <2>5, <2>6, <2>7, <2>8, CallsAgain
  <2>10. \A c \in 1..(n + 1) : c = n \/ c = n + 1 \/ c \in 1..(n - 1)
    BY <2>7
  <2>11. \A c \in 1..(n - 1) : c \in DOMAIN calls
    BY <2>7
  <2>12. HoldsAll(cs)
    BY <2>4, <2>6, <2>9, <2>10, <2>11 DEF HoldsAll
  <2> QED
    BY <2>8, <2>9, <2>12
<1>5. CASE Resume
  <2>1. calls # <<>> /\ Cur.stage # "begin"
    BY <1>5 DEF Resume, At
  <2>2. CASE calls' = Append(Outer, Again(Cur))
    BY <2>1, <2>2, CurHolds, AgainHolds, GoesOnHolds
  <2> QED
    BY <1>1, <1>5, <2>2 DEF Resume, Goto
<1>6. CASE LookUp
  <2>1. calls # <<>>
    BY <1>6 DEF LookUp, Importing, At
  <2>2. PICK i : i = moduleIdx[Import.module]
    OBVIOUS
  <2>3. CASE i \in DOMAIN moduleIns /\ Import.item \in DOMAIN moduleIns[i].exports
    <3>1. PICK ext : ext = moduleIns[i].exports[Import.item]
      OBVIOUS
    <3>2. calls' = Append(Outer, Found(Cur, ext))
      BY <1>6, <2>2, <2>3, <3>1 DEF LookUp, Goto
    <3>3. ExternOk(ext)
      BY <2>3, <3>1 DEF StoreInv, ExportsOk
    <3>4. HoldsOk(Found(Cur, ext))
      BY <2>1, <3>3, CurHolds, FoundHolds
    <3> QED
      BY <2>1, <3>2, <3>4, CurHolds, GoesOnHolds
  <2>4. CASE i \in DOMAIN moduleIns /\ Import.item \notin DOMAIN moduleIns[i].exports
    <3>1. calls' = Append(Outer, Missing(Cur))
      BY <1>6, <2>2, <2>4 DEF LookUp, Goto
    <3>2. HoldsOk(Missing(Cur))
      BY <2>1, CurHolds, MissingHolds
    <3> QED
      BY <2>1, <3>1, <3>2, CurHolds, GoesOnHolds
  <2>5. CASE i \notin DOMAIN moduleIns
    BY <1>1, <1>6, <2>2, <2>5 DEF LookUp
  <2> QED
    BY <2>3, <2>4, <2>5
<1>7. CASE NotSatisfied \/ Instantiate
  <2>1. calls # <<>> /\ calls' = Outer
    BY <1>7 DEF NotSatisfied, Instantiate, At, Return
  <2> QED
    BY <2>1, CurHolds, ReturnsHolds
<1>8. CASE \E x \in Called : CallFunction(x)
  BY <1>1, <1>8 DEF CallFunction
<1> QED
  BY <1>1, <1>2, <1>3, <1>4, <1>5, <1>6, <1>7, <1>8 DEF Next, Step, vars

(* Two variables are true or false.                                         *)
LEMMA Flags ==
  ASSUME StoreInv, [Next]_vars, ~Reset
  PROVE  answer' \in BOOLEAN /\ undefined' \in BOOLEAN
<1>1. answer \in BOOLEAN /\ undefined \in BOOLEAN
  BY DEF StoreInv, LoaderTypeInv
<1>2. CASE UNCHANGED <<answer, undefined>>
  BY <1>1, <1>2
<1>3. CASE Begin \/ Resume \/ LookUp \/ NotSatisfied
  BY <1>1, <1>3, Zenon DEF Begin, Resume, LookUp, NotSatisfied, Return, Goto
<1>4. CASE Instantiate
  <2>1. answer' = TRUE \/ answer' = FALSE
    BY <1>4, Zenon DEF Instantiate, Return
  <2>2. CASE ~TypesMatch(Module, Cur.extVal)
    <3>1. undefined' = undefined
      BY <1>4, <2>2 DEF Instantiate
    <3> QED
      BY <1>1, <2>1, <3>1
  <2>3. CASE TypesMatch(Module, Cur.extVal)
    <3> DEFINE elems == IF Module.fails = "export" THEN <<>> ELSE Module.elems
               datas == IF DatasRun(Module) THEN Module.datas ELSE <<>>
               wild == Wild(elems, TableSize) \/ Wild(datas, MemSize)
    <3>1. undefined' = wild
      BY <1>4, <2>3 DEF Instantiate
    <3>2. wild \in BOOLEAN
      BY Zenon
    <3> HIDE DEF wild
    <3>3. undefined' \in BOOLEAN
      BY <3>1, <3>2
    <3>4. answer' \in BOOLEAN
      BY <2>1
    <3> QED
      BY <3>3, <3>4
  <2> QED
    BY <2>2, <2>3
<1>5. ASSUME NEW x \in Called, CallFunction(x)
      PROVE  answer' \in BOOLEAN /\ undefined' \in BOOLEAN
  BY <1>5, Zenon DEF CallFunction
<1> QED
  BY <1>2, <1>3, <1>4, <1>5 DEF Next, Step, vars, LoadModule, LoadImport

LEMMA StoreStep ==
  ASSUME StoreInv, [Next]_vars
  PROVE  StoreInv'
<1>1. CASE Reset
  BY <1>1, StoreReset
<1>2. CASE ~Reset
  <2>1. /\ StoreTyped' /\ IsSeq(moduleIns') /\ NativesFirst' /\ Keeps
        /\ \A n \in DOMAIN moduleIdx' : moduleIdx'[n] \in Nat
    BY <1>2, StoreKeeps
  <2>2. ExportsOk(moduleIns)'
    BY <1>2, ExportsStay
  <2>3. IsSeq(calls') /\ HoldsAll(calls')
    BY <1>2, CallsHold
  <2>4. ASSUME NEW c \in DOMAIN calls'
        PROVE  HoldsOk(calls[c])'
    <3>1. PICK call : call = calls'[c]
      OBVIOUS
    <3>2. HoldsOk(call)
      BY <2>3, <3>1 DEF HoldsAll
    <3>3. \A k \in 1..Len(call.extVal) : ExternIn(call.extVal[k], Stored', funcs', Live')
      <4>1. ASSUME NEW k \in 1..Len(call.extVal)
            PROVE  ExternIn(call.extVal[k], Stored', funcs', Live')
        <5>1. ExternOk(call.extVal[k])
          BY <3>2 DEF HoldsOk
        <5> QED
          BY <2>1, <5>1 DEF Keeps
      <4> QED
        BY <4>1
    <3> QED
      BY <3>1, <3>2, <3>3 DEF HoldsOk, ExternOk
  <2>5. answer' \in BOOLEAN /\ undefined' \in BOOLEAN
    BY <1>2, Flags
  <2>6. \A c \in DOMAIN calls' :
          /\ calls'[c].stage \in {"begin", "imports", "waiting"}
          /\ calls'[c].idx \in Nat /\ calls'[c].importOk \in BOOLEAN
    BY <2>3 DEF HoldsAll, HoldsOk
  <2>7. LoaderTypeInv'
    BY <2>1, <2>5, <2>6 DEF LoaderTypeInv, StoreTyped
  <2> QED
    BY <2>1, <2>2, <2>3, <2>4, <2>7 DEF StoreInv, StoreTyped
<1> QED
  BY <1>1, <1>2

(* The program's tables, memories, functions and globals have their types,  *)
(* and every address of a function in a table is in Store::funcs, for all   *)
(* valid files, requests and sizes, loads that fail and :init included.     *)
THEOREM LoaderTyped == Spec => []LoaderTypeInv
<1>1. StoreInv /\ [Next]_vars => StoreInv'
  BY StoreStep
<1>2. StoreInv => LoaderTypeInv
  BY DEF StoreInv
<1> QED
  BY StoreInit, <1>1, <1>2, PTL DEF Spec

(* What modules export stays in the store, and the functions among it       *)
(* belong to instances that exist (application.cpp, instantiation.cpp), for *)
(* all valid files and requests, loads that fail and :init included.        *)
THEOREM ExportsAlive == Spec => []ExportsLive
<1>1. StoreInv /\ [Next]_vars => StoreInv'
  BY StoreStep
<1>2. StoreInv => ExportsLive
  BY DEF StoreInv, ExportsOk, ExternOk, ExternIn, ExportsLive
<1> QED
  BY StoreInit, <1>1, <1>2, PTL DEF Spec

-----------------------------------------------------------------------------
(* Whether instantiate makes an instance of a module whose imports have     *)
(* their types.                                                             *)
Loads(m) == m.fails = "nothing" /\ AllFit(m.elems, TableSize) /\ AllFit(m.datas, MemSize)

LEMMA LoadsOrNot ==
  ASSUME Instantiate, TypesMatch(Module, Cur.extVal)
  PROVE  /\ Loads(Module) => Registers(NewInstance)
         /\ ~Loads(Module) => UNCHANGED app
<1>1. CASE Loads(Module)
  <2>1. DatasRun(Module) /\ Module.fails = "nothing"
    BY <1>1 DEF DatasRun, Loads
  <2>2. moduleIns' = Append(moduleIns, NewInstance) /\ moduleIdx' = IndexWith(NewName)
    BY <1>1, <2>1 DEF Instantiate, Loads, NewInstance, NewName, NewAddrs
  <2> QED
    BY <1>1, <2>2, NewInstanceIs DEF Registers
<1>2. CASE ~Loads(Module)
  BY <1>2 DEF Instantiate, Loads, DatasRun
<1> QED
  BY <1>1, <1>2

(* Tables keep functions of instances that exist, if what a file's elements *)
(* write is followed by a load that succeeds: instantiate takes nothing     *)
(* back.                                                                    *)
NothingLeft ==
  \A f \in DOMAIN Files :
    Files[f].fails # "export" /\ Written(Files[f].elems, TableSize) # {} => Loads(Files[f])

LEMMA WritersRegister ==
  ASSUME NothingLeft, StoreInv, Instantiate, TypesMatch(Module, Cur.extVal),
         Written(NewElems, TableSize) # {}
  PROVE  Registers(NewInstance)
<1>1. Cur.file \in DOMAIN Files
  BY Instantiating
<1>2. NewElems # <<>>
  BY DEF Written
<1>3. Module.fails # "export" /\ NewElems = Module.elems
  BY <1>2 DEF NewElems
<1>4. Loads(Module)
  BY <1>1, <1>3 DEF NothingLeft, Module
<1> QED
  BY <1>4, LoadsOrNot

(* The functions a new instance knows belong to instances that exist.       *)
LEMMA KnownLive ==
  ASSUME StoreInv, [Next]_vars, ~Reset, Instantiate, TypesMatch(Module, Cur.extVal),
         Registers(NewInstance), NEW d \in 1..Known(Module, "func")
  PROVE  funcs'[NewAddrs["func"][d]] \in Live'
<1>1. "func" \in ExternType
  BY DEF ExternType
<1>2. PICK addr : addr = NewAddrs["func"][d]
  OBVIOUS
<1>3. AddrOf(Cur.extVal, "func", Own(Module)["func"], addr)
  BY <1>1, <1>2, AddrBound
<1>4. CASE \E k \in 1..Len(Cur.extVal) : Cur.extVal[k].type = "func" /\ addr = Cur.extVal[k].addr
  <2>1. PICK k \in 1..Len(Cur.extVal) : Cur.extVal[k].type = "func" /\ addr = Cur.extVal[k].addr
    BY <1>4
  <2>2. PICK l : l = Cur.extVal[k]
    OBVIOUS
  <2>3. ExternOk(l)
    BY <2>2, Instantiating DEF HoldsOk
  <2>4. ExternIn(l, Stored', funcs', Live')
    BY <2>3, StoreKeeps DEF Keeps
  <2> QED
    BY <1>2, <2>1, <2>2, <2>4 DEF ExternIn
<1>5. CASE \E i \in 1..Own(Module)["func"] : addr = Stored["func"] + i
  <2>1. Own(Module)["func"] = Module.funcs /\ Stored["func"] = Len(funcs)
    BY DEF Own, Stored
  <2>2. PICK i \in 1..Module.funcs : addr = Len(funcs) + i
    BY <1>5, <2>1
  <2>3. funcs'[addr] = made + 1
    BY <2>2, FuncsGrow
  <2>4. PICK n \in Nat : n = Len(moduleIns)
    BY IsSeqLen DEF StoreInv
  <2>5. n + 1 \in DOMAIN moduleIns' /\ moduleIns'[n + 1].id = made + 1
    BY <2>4, Appended, NewInstanceIs DEF Registers, StoreInv
  <2> QED
    BY <1>2, <2>3, <2>5 DEF Live
<1> QED
  BY <1>3, <1>4, <1>5 DEF AddrOf

LEMMA FreshLive == Fresh => TablesLive
<1> SUFFICES ASSUME Fresh, NEW t \in DOMAIN tables, NEW p \in 1..TableSize
             PROVE  funcs[tables[t][p]] \in Live
  BY DEF TablesLive
<1>1. tables = <<EmptyTable>> /\ funcs[1] = 1
  BY FreshTyped DEF Fresh
<1>2. t = 1
  BY <1>1
<1>3. tables[t][p] = 1
  BY <1>1, <1>2 DEF EmptyTable
<1>4. 1 \in DOMAIN moduleIns /\ moduleIns[1].id = 1
  BY NativeSeq DEF Fresh, Native, Instance
<1> QED
  BY <1>1, <1>3, <1>4 DEF Live

LEMMA FreshLiveAfter == Fresh' => TablesLive'
BY FreshLive, PTL

LEMMA LiveStep ==
  ASSUME NothingLeft, StoreInv, TablesLive, [Next]_vars
  PROVE  TablesLive'
<1>1. CASE Reset
  <2>1. Fresh'
    BY <1>1 DEF Reset, Fresh, Cleared
  <2> QED
    BY <2>1, FreshLiveAfter
<1>2. CASE UNCHANGED <<app, store>>
  BY <1>2 DEF app, store, TablesLive, Live
<1>3. CASE ~Reset /\ Instantiate /\ TypesMatch(Module, Cur.extVal)
  <2> SUFFICES ASSUME NEW a \in 1..Len(tables'), NEW p \in 1..TableSize
               PROVE  funcs'[tables'[a][p]] \in Live'
    <3>1. tables' \in Seq([1..TableSize -> 1..Len(funcs')])
      BY <1>3, TablesGrow
    <3>2. DOMAIN tables' = 1..Len(tables')
      BY <3>1
    <3> QED
      BY <3>2 DEF TablesLive
  <2>1. PICK value : value = tables'[a][p]
    OBVIOUS
  <2>2. CellFrom(a, p, value)
    BY <1>3, <2>1, TablesGrow
  <2>3. CASE a \in 1..Len(tables) /\ value = tables[a][p]
    <3>1. tables \in Seq([1..TableSize -> 1..Len(funcs)])
      BY DEF StoreInv, LoaderTypeInv
    <3>2. a \in DOMAIN tables /\ value \in 1..Len(funcs)
      <4>1. PICK T : T = [1..TableSize -> 1..Len(funcs)]
        OBVIOUS
      <4>2. a \in DOMAIN tables /\ tables[a] \in T
        BY <2>3, <3>1, <4>1
      <4> QED
        BY <2>3, <4>1, <4>2
    <3>3. funcs[value] \in Live
      BY <2>3, <3>2 DEF TablesLive
    <3>4. PICK e : e = Extern("func", value)
      OBVIOUS
    <3>5. e.type = "func" /\ e.addr = value /\ e.type \in ExternType
      BY <3>4 DEF Extern, ExternType
    <3>6. Stored["func"] = Len(funcs)
      BY DEF Stored
    <3>7. ExternOk(e)
      BY <3>2, <3>3, <3>5, <3>6 DEF ExternOk, ExternIn
    <3>8. ExternIn(e, Stored', funcs', Live')
      BY <1>3, <3>7, StoreKeeps DEF Keeps
    <3> QED
      BY <2>1, <3>5, <3>8 DEF ExternIn
  <2>4. CASE value = 1
    <3>1. NativesFirst'
      BY <1>3, StoreKeeps
    <3> QED
      BY <2>1, <2>4, <3>1 DEF NativesFirst, Live
  <2>5. CASE /\ Written(NewElems, TableSize) # {}
             /\ \E d \in 1..Known(Module, "func") : value = NewAddrs["func"][d]
    <3>1. Registers(NewInstance)
      BY <1>3, <2>5, WritersRegister
    <3> QED
      BY <1>3, <2>1, <2>5, <3>1, KnownLive
  <2> QED
    BY <2>2, <2>3, <2>4, <2>5 DEF CellFrom
<1> QED
  BY <1>1, <1>2, <1>3, OnlyInstantiates

(* The functions in tables, which call_indirect runs, belong to instances   *)
(* that exist (instantiation.cpp), for all valid files whose loads do not   *)
(* fail after their elements are written, and whatever :init is used.       *)
THEOREM TablesAlive ==
  ASSUME NothingLeft
  PROVE  Spec => []TablesLive
<1>1. Init => StoreInv /\ TablesLive
  <2>1. Init => Fresh
    BY DEF Init, Fresh
  <2> QED
    BY <2>1, StoreInit, FreshLive
<1>2. StoreInv /\ TablesLive /\ [Next]_vars => StoreInv' /\ TablesLive'
  BY StoreStep, LiveStep
<1> QED
  BY <1>1, <1>2, PTL DEF Spec

-----------------------------------------------------------------------------
(* What files must be like for the program to stay in its data structures:  *)
(* what a file imports from can be loaded and exports what is imported,     *)
(* whichever module of that name it is, and no segment passes the test with *)
(* a negative offset.                                                       *)
Provides(exports, import) ==
  import.item \in DOMAIN exports /\ exports[import.item].type = import.type
Offered(import) ==
  /\ \A j \in DOMAIN Native :
       Native[j].name = import.module => Provides(Native[j].exports, import)
  /\ \A g \in DOMAIN Files :
       GetModuleName(g) = import.module => Provides(Files[g].exports, import)
Complete(f) ==
  /\ Decodable(f) /\ Loads(Files[f])
  /\ \A k \in DOMAIN Files[f].imports : Offered(Files[f].imports[k])
ImportsLoad ==
  \A f \in DOMAIN Files : Files[f].decodes =>
    \A k \in DOMAIN Files[f].imports :
      LET name == Files[f].imports[k].module
      IN name \in DOMAIN NativeIdx \/ Complete(WasmFile(name))
InPlace ==
  \A f \in DOMAIN Files : ~Wild(Files[f].elems, TableSize) /\ ~Wild(Files[f].datas, MemSize)

(* Instances export what is offered under their names; nested activations   *)
(* find all they import, and the one that waits has been told so.           *)
AsOffered(inst) ==
  \A import : Offered(import) /\ inst.name = import.module => Provides(inst.exports, import)
EachOffered(ins) == \A i \in DOMAIN ins : AsOffered(ins[i])
Sound(nested, call) ==
  /\ call.stage = "begin" => call.idx = 1
  /\ call.stage # "begin" => call.idx <= Len(Files[call.file].imports) + 1
  /\ nested => Complete(call.file) /\ call.importOk
EachSound(cs) == \A c \in DOMAIN cs : Sound(c > 1, cs[c])
Waits(cs) == cs # <<>> /\ cs[Len(cs)].stage = "waiting"
DefinedInv ==
  /\ LinkInv /\ StoreInv /\ Defined /\ EachOffered(moduleIns)
  /\ DOMAIN NativeIdx \subseteq DOMAIN moduleIdx
  /\ EachSound(calls) /\ (Waits(calls) => answer)

LEMMA DefinedInit == Init => DefinedInv
<1> SUFFICES ASSUME Init PROVE DefinedInv
  OBVIOUS
<1>1. /\ moduleIns = Native /\ moduleIdx = NativeIdx /\ calls = <<>> /\ ~undefined
  BY DEF Init
<1>2. EachOffered(moduleIns)
  BY <1>1 DEF EachOffered, AsOffered, Offered
<1>3. DOMAIN calls = {}
  BY <1>1
<1> QED
  BY <1>1, <1>2, <1>3, LinkInit, StoreInit DEF DefinedInv, Defined, EachSound, Waits

(* The instance of a file exports what the file does.                       *)
LEMMA NewOffered ==
  ASSUME OwnNames, LinkInv, Instantiate
  PROVE  AsOffered(NewInstance)
<1>1. Decodable(Cur.file)
  BY CurOk DEF Instantiate, At
<1>2. NewInstance.name = GetModuleName(Cur.file)
  BY <1>1, NewInstanceIs DEF NewName, OwnNames, Module, Decodable
<1>3. ASSUME NEW import, Offered(import), NewInstance.name = import.module
      PROVE  Provides(NewInstance.exports, import)
  <2>1. Provides(Module.exports, import)
    BY <1>1, <1>2, <1>3 DEF Offered, Decodable, Module
  <2>2. PICK exports : exports = NewInstance.exports
    OBVIOUS
  <2>3. /\ DOMAIN exports = DOMAIN Module.exports
        /\ \A x \in DOMAIN exports : exports[x].type = Module.exports[x].type
    <3>1. exports = Exports(Module, NewAddrs)
      BY <2>2, NewInstanceIs
    <3> QED
      BY <3>1 DEF Exports, Extern
  <2> QED
    BY <2>1, <2>2, <2>3, SMTT(20) DEF Provides
<1> QED
  BY <1>3 DEF AsOffered

LEMMA OfferedStep ==
  ASSUME ~Resets, OwnNames, DefinedInv, [Next]_vars
  PROVE  EachOffered(moduleIns') /\ DOMAIN NativeIdx \subseteq DOMAIN moduleIdx'
<1>1. CASE UNCHANGED app
  BY <1>1 DEF app, DefinedInv
<1>2. CASE Instantiate /\ TypesMatch(Module, Cur.extVal) /\ Registers(NewInstance)
  <2>1. PICK n \in Nat : n = Len(moduleIns) /\ DOMAIN moduleIns = 1..n
    BY IsSeqLen DEF DefinedInv, LinkInv, IndexInv
  <2>2. PICK more : more = moduleIns'
    OBVIOUS
  <2>3. /\ DOMAIN more = 1..(n + 1) /\ \A i \in 1..n : more[i] = moduleIns[i]
        /\ more[n + 1] = NewInstance
    BY <1>2, <2>1, <2>2, Appended DEF Registers, DefinedInv, LinkInv, IndexInv
  <2>4. ASSUME NEW i \in 1..(n + 1) PROVE AsOffered(more[i])
    <3>1. CASE i = n + 1
      BY <1>2, <2>3, <3>1, NewOffered DEF DefinedInv
    <3>2. CASE i # n + 1
      <4>1. i \in 1..n
        BY <2>1, <3>2
      <4> QED
        BY <2>1, <2>3, <4>1 DEF DefinedInv, EachOffered
    <3> QED
      BY <3>1, <3>2
  <2>5. EachOffered(more)
    BY <2>3, <2>4 DEF EachOffered
  <2>6. DOMAIN moduleIdx \subseteq DOMAIN moduleIdx'
    BY <1>2 DEF Registers, IndexWith
  <2> QED
    BY <2>2, <2>5, <2>6 DEF DefinedInv
<1> QED
  BY <1>1, <1>2, TableGrows

(* What the current activation finds has the types that are imported.       *)
LEMMA ItemOffered ==
  ASSUME DefinedInv, Importing, Loaded(Import.module), Offered(Import)
  PROVE  LET exports == moduleIns[moduleIdx[Import.module]].exports
         IN Provides(exports, Import)
BY DEF DefinedInv, LinkInv, IndexInv, IndexNames, Loaded, EachOffered, AsOffered

LEMMA NestedMatches ==
  ASSUME DefinedInv, calls # <<>>, Len(calls) > 1, At("imports"), Cur.idx > Len(Module.imports)
  PROVE  Complete(Cur.file) /\ Cur.importOk /\ TypesMatch(Module, Cur.extVal)
<1>1. /\ CallOk(moduleIns, Cur) /\ Cur.file \in DOMAIN Files /\ Sound(TRUE, Cur)
  <2>1. Len(calls) \in DOMAIN calls /\ CallOk(moduleIns, Cur) /\ Cur.file \in DOMAIN Files
    BY CurOk DEF DefinedInv, At, Decodable
  <2> QED
    BY <2>1 DEF DefinedInv, EachSound, Cur, Sound
<1>2. Complete(Cur.file) /\ Cur.importOk /\ Cur.idx <= Len(Module.imports) + 1
  BY <1>1 DEF Sound, At, Module
<1>3. PICK imports : imports = Files[Cur.file].imports
  OBVIOUS
<1>4. PICK n \in Nat : n = Len(imports) /\ DOMAIN imports = 1..n
  BY <1>1, <1>3, ImportsListed
<1>5. Cur.idx = n + 1
  <2>1. PICK idx \in Nat : idx = Cur.idx
    BY <1>1 DEF CallOk
  <2>2. idx > n /\ idx <= n + 1
    BY <1>2, <1>3, <1>4, <2>1 DEF Module
  <2> QED
    BY <2>1, <2>2
<1>6. PICK ext : ext = Cur.extVal
  OBVIOUS
<1>7. IsSeq(ext) /\ Len(ext) = n
  BY <1>1, <1>2, <1>5, <1>6 DEF CallOk
<1>8. ASSUME NEW k \in 1..n PROVE imports[k].type = ext[k].type
  <2>1. Serves(moduleIns, ext[k], imports[k], Len(moduleIns))
    BY <1>1, <1>2, <1>3, <1>6, <1>7 DEF CallOk
  <2>2. PICK j \in 1..Len(moduleIns) :
               /\ moduleIns[j].name = imports[k].module
               /\ ext[k] = moduleIns[j].exports[imports[k].item]
    BY <2>1 DEF Serves
  <2>3. j \in DOMAIN moduleIns
    BY IsSeqLen DEF DefinedInv, LinkInv, IndexInv
  <2>4. Offered(imports[k])
    BY <1>2, <1>3, <1>4 DEF Complete
  <2> QED
    BY <2>2, <2>3, <2>4 DEF DefinedInv, EachOffered, AsOffered, Provides
<1>9. DOMAIN ext = 1..n
  BY <1>7, IsSeqLen
<1> QED
  BY <1>2, <1>3, <1>4, <1>6, <1>7, <1>8, <1>9 DEF TypesMatch, Module

(* Activations stay sound: in what they go on with, and when they return.   *)
LEMMA GoesOnSound ==
  ASSUME DefinedInv, calls # <<>>, NEW call, calls' = Append(Outer, call),
         Sound(Len(calls) > 1, call), call.stage # "waiting"
  PROVE  EachSound(calls') /\ ~Waits(calls')
<1>1. IsSeq(calls)
  BY DEF DefinedInv, LinkInv
<1>2. PICK n \in Nat \ {0} : n = Len(calls) /\ DOMAIN calls = 1..n
  BY <1>1, OuterCalls
<1>3. PICK cs : cs = calls'
  OBVIOUS
<1>4. /\ DOMAIN cs = 1..n /\ Len(cs) = n /\ \A i \in 1..(n - 1) : cs[i] = calls[i]
      /\ cs[n] = call
  BY <1>1, <1>2, <1>3, GoesOn
<1>5. ASSUME NEW c \in 1..n PROVE Sound(c > 1, cs[c])
  <2>1. CASE c = n
    BY <1>2, <1>4, <2>1
  <2>2. CASE c # n
    <3>1. c \in 1..(n - 1)
      BY <1>2, <2>2
    <3> QED
      BY <1>2, <1>4, <3>1 DEF DefinedInv, EachSound
  <2> QED
    BY <2>1, <2>2
<1>6. EachSound(cs)
  BY <1>4, <1>5 DEF EachSound
<1>7. ~Waits(cs)
  BY <1>4 DEF Waits
<1> QED
  BY <1>3, <1>6, <1>7

LEMMA ReturnsSound ==
  ASSUME DefinedInv, calls # <<>>, calls' = Outer, Len(calls) > 1 => answer'
  PROVE  EachSound(calls') /\ (Waits(calls') => answer')
<1>1. IsSeq(calls)
  BY DEF DefinedInv, LinkInv
<1>2. PICK n \in Nat \ {0} : n = Len(calls) /\ DOMAIN calls = 1..n
  BY <1>1, OuterCalls
<1>3. PICK cs : cs = calls'
  OBVIOUS
<1>4. IsSeq(cs) /\ DOMAIN cs = 1..(n - 1) /\ \A i \in 1..(n - 1) : cs[i] = calls[i]
  BY <1>1, <1>2, <1>3, OuterCalls
<1>5. \A i \in 1..(n - 1) : i \in DOMAIN calls
  BY <1>2
<1>6. EachSound(cs)
  BY <1>4, <1>5 DEF DefinedInv, EachSound
<1>7. ASSUME Waits(cs) PROVE answer'
  <2>1. Len(cs) = n - 1
    BY <1>2, <1>4, IsSeqLen
  <2>2. cs # <<>>
    BY <1>7 DEF Waits
  <2>3. n - 1 # 0
    <3>1. ASSUME Len(cs) = 0 PROVE cs = <<>>
      <4>1. PICK S : cs \in Seq(S)
        BY <1>4 DEF IsSeq
      <4> QED
        BY <3>1, <4>1, EmptySeq
    <3> QED
      BY <2>1, <2>2, <3>1
  <2>4. n > 1
    BY <1>2, <2>3
  <2> QED
    BY <1>2, <2>4
<1> QED
  BY <1>3, <1>6, <1>7

(* A nested activation is for a file that is complete.                      *)
LEMMA NestedSound ==
  ASSUME ImportsLoad, DefinedInv, LoadImport
  PROVE  EachSound(calls') /\ ~Waits(calls')
<1>1. /\ calls # <<>> /\ IsSeq(calls) /\ CallOk(moduleIns, Cur) /\ Decodable(Cur.file)
      /\ Cur.stage = "imports" /\ Cur.idx <= Len(Module.imports)
  BY CurOk DEF LoadImport, Importing, At, DefinedInv, LinkInv
<1>2. PICK n \in Nat \ {0} : n = Len(calls) /\ DOMAIN calls = 1..n
  BY <1>1, OuterCalls
<1>3. PICK call : call = [Cur EXCEPT !.stage = "waiting"]
  OBVIOUS
<1>4. /\ call.file = Cur.file /\ call.idx = Cur.idx /\ call.importOk = Cur.importOk
      /\ call.stage = "waiting"
  BY <1>1, <1>3 DEF CallOk
<1>5. PICK name : name = Import.module
  OBVIOUS
<1>6. PICK inner : inner = Activation(WasmFile(name))
  OBVIOUS
<1>7. inner.stage = "begin" /\ inner.file = WasmFile(name) /\ inner.importOk
      /\ inner.idx = 1
  BY <1>6 DEF Activation
<1>8. PICK cs : cs = calls'
  OBVIOUS
<1>9. cs = Append(Append(Outer, call), inner)
  BY <1>3, <1>5, <1>6, <1>8 DEF LoadImport, WasmFile
<1>10. /\ DOMAIN cs = 1..(n + 1) /\ Len(cs) = n + 1
       /\ \A i \in 1..(n - 1) : cs[i] = calls[i]
       /\ cs[n] = call /\ cs[n + 1] = inner
  BY <1>1, <1>2, <1>8, <1>9, CallsAgain
<1>11. Complete(WasmFile(name))
  <2>1. PICK k : k = Cur.idx
    OBVIOUS
  <2>2. k \in DOMAIN Files[Cur.file].imports
    BY <1>1, <2>1, ImportsListed DEF CallOk, Module, Decodable
  <2>3. name = Files[Cur.file].imports[k].module
    BY <1>5, <2>1 DEF Import, Module
  <2>4. name \notin DOMAIN NativeIdx
    BY <1>5 DEF LoadImport, Loaded, DefinedInv
  <2> QED
    BY <1>1, <2>2, <2>3, <2>4 DEF ImportsLoad, Decodable
<1>12. Sound(n > 1, Cur) /\ n \in DOMAIN calls
  BY <1>2 DEF DefinedInv, EachSound, Cur
<1>13. ASSUME NEW c \in 1..(n + 1) PROVE Sound(c > 1, cs[c])
  <2>1. c = n \/ c = n + 1 \/ c \in 1..(n - 1)
    BY <1>2
  <2>2. CASE c = n
    <3>1. Sound(n > 1, call)
      BY <1>1, <1>4, <1>12 DEF Sound
    <3> QED
      BY <1>10, <2>2, <3>1
  <2>3. CASE c = n + 1
    <3>1. Sound(TRUE, inner)
      BY <1>7, <1>11 DEF Sound
    <3>2. c > 1
      BY <1>2, <2>3
    <3>3. Sound(c > 1, inner)
      BY <3>1, <3>2 DEF Sound
    <3> QED
      BY <1>10, <2>3, <3>3
  <2>4. CASE c \in 1..(n - 1)
    <3>1. c \in DOMAIN calls
      BY <1>2, <2>4
    <3> QED
      BY <1>10, <2>4, <3>1 DEF DefinedInv, EachSound
  <2> QED
    BY <2>1, <2>2, <2>3, <2>4
<1>14. EachSound(cs)
  BY <1>10, <1>13 DEF EachSound
<1>15. ~Waits(cs)
  BY <1>7, <1>10 DEF Waits
<1> QED
  BY <1>8, <1>14, <1>15

LEMMA SoundStep ==
  ASSUME ~Resets, ImportsLoad, DefinedInv, [Next]_vars
  PROVE  EachSound(calls') /\ (Waits(calls') => answer')
<1>1. CASE UNCHANGED <<calls, answer>>
  BY <1>1 DEF DefinedInv
<1>2. ASSUME NEW f \in Wanted, LoadModule(f)
      PROVE  EachSound(calls') /\ ~Waits(calls')
  <2>1. PICK call : call = Activation(f)
    OBVIOUS
  <2>2. calls' = <<call>> /\ call.stage = "begin" /\ call.idx = 1
    BY <1>2, <2>1 DEF LoadModule, Activation
  <2>3. PICK cs : cs = calls'
    OBVIOUS
  <2>4. DOMAIN cs = {1} /\ Len(cs) = 1 /\ cs[1] = call
    BY <2>2, <2>3, FirstCall
  <2>5. Sound(FALSE, call) /\ ~(1 > 1)
    BY <2>2 DEF Sound
  <2>6. EachSound(cs) /\ ~Waits(cs)
    BY <2>2, <2>4, <2>5 DEF EachSound, Sound, Waits
  <2> QED
    BY <2>3, <2>6
<1>3. ASSUME calls # <<>>
      PROVE  /\ CallOk(moduleIns, Cur) /\ Sound(Len(calls) > 1, Cur)
             /\ Cur.stage # "begin" => Decodable(Cur.file)
  BY <1>3, CurOk DEF DefinedInv, EachSound, Cur

<1>4. CASE Begin
  <2>1. calls # <<>> /\ Cur.stage = "begin"
    BY <1>4 DEF Begin, At
  <2>2. CASE Return(TRUE)
    BY <2>1, <2>2, ReturnsSound DEF Return
  <2>3. CASE Return(FALSE) /\ ~Decodable(Cur.file)
    BY <1>3, <2>1, <2>3, ReturnsSound DEF Return, Sound, Complete
  <2>4. CASE calls' = Append(Outer, [Cur EXCEPT !.stage = "imports"]) /\ Decodable(Cur.file)
    <3>1. PICK call : call = [Cur EXCEPT !.stage = "imports"]
      OBVIOUS
    <3>2. call.file = Cur.file /\ call.idx = Cur.idx /\ call.importOk = Cur.importOk
          /\ call.stage = "imports"
      BY <1>3, <2>1, <3>1 DEF CallOk
    <3>3. call.idx = 1 /\ Len(Files[Cur.file].imports) \in Nat
      BY <1>3, <2>1, <2>4, <3>2, ImportsListed DEF Sound, Decodable
    <3>4. Sound(Len(calls) > 1, call)
      BY <1>3, <2>1, <3>2, <3>3 DEF Sound
    <3> QED
      BY <2>1, <2>4, <3>1, <3>2, <3>4, GoesOnSound
  <2> QED
    BY <1>4, <2>2, <2>3, <2>4 DEF Begin, Goto, Decodable, Module
<1>5. CASE LoadImport
  BY <1>5, NestedSound
<1>6. CASE Resume
  <2>1. calls # <<>> /\ Cur.stage = "waiting"
    BY <1>6 DEF Resume, At
  <2>2. CASE calls' = Append(Outer, Again(Cur))
    <3>1. PICK call : call = Again(Cur)
      OBVIOUS
    <3>2. /\ call.file = Cur.file /\ call.idx = 1 /\ call.importOk = Cur.importOk
          /\ call.stage = "imports"
      BY <1>3, <2>1, <3>1 DEF CallOk, Again
    <3>3. Len(Files[Cur.file].imports) \in Nat
      BY <1>3, <2>1, ImportsListed DEF Decodable
    <3>4. Sound(Len(calls) > 1, call)
      BY <1>3, <2>1, <3>2, <3>3 DEF Sound
    <3> QED
      BY <2>1, <2>2, <3>1, <3>2, <3>4, GoesOnSound
  <2> QED
    BY <1>1, <1>6, <2>2 DEF Resume, Goto
<1>7. CASE LookUp
  <2>1. /\ calls # <<>> /\ Cur.stage = "imports" /\ Cur.idx <= Len(Module.imports)
        /\ Importing /\ Loaded(Import.module)
    BY <1>7 DEF LookUp, Importing, At
  <2>2. PICK n \in Nat, idx \in Nat \ {0} :
               n = Len(Files[Cur.file].imports) /\ idx = Cur.idx /\ idx <= n
    BY <1>3, <2>1, ImportsListed DEF Decodable, CallOk, Module
  <2>3. PICK exports : exports = moduleIns[moduleIdx[Import.module]].exports
    OBVIOUS
  <2>4. ASSUME Len(calls) > 1 PROVE Import.item \in DOMAIN exports
    <3>1. idx \in DOMAIN Files[Cur.file].imports
      BY <1>3, <2>1, <2>2, ImportsListed DEF Decodable
    <3>2. Offered(Import)
      BY <1>3, <2>1, <2>2, <2>4, <3>1 DEF Sound, Complete, Import, Module
    <3> QED
      BY <2>1, <2>3, <3>2, ItemOffered DEF Provides, DefinedInv
  <2>5. CASE Import.item \in DOMAIN exports /\ calls' = Append(Outer, Found(Cur, exports[Import.item]))
    <3>1. PICK call : call = Found(Cur, exports[Import.item])
      OBVIOUS
    <3>2. /\ call.file = Cur.file /\ call.idx = Cur.idx + 1 /\ call.importOk = Cur.importOk
          /\ call.stage = Cur.stage
      BY <1>3, <2>1, <3>1 DEF CallOk, Found
    <3>3. call.idx <= n + 1 /\ call.stage = "imports"
      BY <2>1, <2>2, <3>2
    <3>4. Sound(Len(calls) > 1, call)
      BY <1>3, <2>2, <3>2, <3>3 DEF Sound
    <3> QED
      BY <2>1, <2>5, <3>1, <3>3, <3>4, GoesOnSound
  <2>6. CASE Import.item \notin DOMAIN exports /\ calls' = Append(Outer, Missing(Cur))
    <3>1. PICK call : call = Missing(Cur)
      OBVIOUS
    <3>2. call.file = Cur.file /\ call.idx = Cur.idx + 1 /\ call.stage = Cur.stage
      BY <1>3, <2>1, <3>1 DEF CallOk, Missing
    <3>3. call.idx <= n + 1 /\ call.stage = "imports"
      BY <2>1, <2>2, <3>2
    <3>4. Sound(Len(calls) > 1, call)
      BY <2>2, <2>4, <2>6, <3>2, <3>3 DEF Sound
    <3> QED
      BY <2>1, <2>6, <3>1, <3>3, <3>4, GoesOnSound
  <2> QED
    BY <1>1, <1>7, <2>3, <2>5, <2>6 DEF LookUp, Goto
<1>8. CASE NotSatisfied
  <2>1. calls # <<>> /\ calls' = Outer /\ ~(Len(calls) > 1)
    BY <1>8, NestedMatches DEF NotSatisfied, At, Return
  <2> QED
    BY <2>1, ReturnsSound
<1>9. CASE Instantiate
  <2>1. calls # <<>> /\ calls' = Outer
    BY <1>9 DEF Instantiate, At, Return
  <2>2. ASSUME Len(calls) > 1 PROVE answer'
    <3>1. Complete(Cur.file) /\ TypesMatch(Module, Cur.extVal)
      BY <1>9, <2>1, <2>2, NestedMatches DEF Instantiate
    <3>2. Loads(Module)
      BY <3>1 DEF Complete, Module
    <3>3. DatasRun(Module)
      BY <3>2 DEF Loads, DatasRun
    <3> QED
      BY <1>9, <3>1, <3>2, <3>3 DEF Instantiate, Return, Loads
  <2> QED
    BY <2>1, <2>2, ReturnsSound
<1>10. CASE \E x \in Called : CallFunction(x)
  <2>1. calls' = calls /\ calls = <<>>
    BY <1>10 DEF CallFunction
  <2> QED
    BY <2>1 DEF DefinedInv, Waits
<1> QED
  BY <1>1, <1>2, <1>4, <1>5, <1>6, <1>7, <1>8, <1>9, <1>10 DEF Next, Step, Reset, vars

(* No step leaves the program's data structures.                            *)
LEMMA StaysDefined ==
  ASSUME ~Resets, InPlace, DefinedInv, [Next]_vars
  PROVE  Defined'
<1>1. ~undefined
  BY DEF DefinedInv, Defined
<1>2. CASE UNCHANGED undefined
  BY <1>1, <1>2 DEF Defined
<1>3. CASE Resume
  <2>1. answer
    <3>1. calls # <<>> /\ Cur.stage = "waiting"
      BY <1>3 DEF Resume, At
    <3> QED
      BY <3>1 DEF DefinedInv, Waits, Cur
  <2> QED
    BY <1>2, <1>3, <2>1 DEF Resume
<1>4. CASE LookUp
  <2>1. moduleIdx[Import.module] \in DOMAIN moduleIns
    BY <1>4 DEF LookUp, Loaded, DefinedInv, LinkInv, IndexInv, IndexNames
  <2> QED
    BY <1>2, <1>4, <2>1 DEF LookUp
<1>5. CASE Instantiate
  <2>1. ~Wild(Module.elems, TableSize) /\ ~Wild(Module.datas, MemSize)
    BY <1>5, Instantiating DEF InPlace, Module, DefinedInv
  <2>2. ~Wild(<<>>, TableSize) /\ ~Wild(<<>>, MemSize)
    BY DEF Wild, Written
  <2> QED
    BY <1>2, <1>5, <2>1, <2>2 DEF Instantiate, Defined
<1>6. ASSUME NEW x \in Called, CallFunction(x)
      PROVE  Defined'
  <2>1. CASE Exporters(x) = {}
    BY <1>6, <2>1 DEF CallFunction, Defined
  <2>2. CASE Exporters(x) # {}
    <3>1. PICK n \in Nat : n = Len(moduleIns) /\ DOMAIN moduleIns = 1..n
      BY IsSeqLen DEF DefinedInv, LinkInv, IndexInv
    <3>2. Exporters(x) \in SUBSET (1..n)
      BY <3>1 DEF Exporters
    <3>3. PICK i : i = Max(Exporters(x))
      OBVIOUS
    <3>4. i \in Exporters(x)
      BY <2>2, <3>2, <3>3, LastPosition
    <3>5. /\ i \in DOMAIN moduleIns /\ x \in DOMAIN moduleIns[i].exports
          /\ moduleIns[i].exports[x].type = "func"
      BY <3>4 DEF Exporters
    <3>6. funcs[moduleIns[i].exports[x].addr] \in Live
      BY <3>5 DEF DefinedInv, StoreInv, ExportsOk, ExternOk, ExternIn
    <3> QED
      BY <1>6, <3>3, <3>6 DEF CallFunction, Defined
  <2> QED
    BY <2>1, <2>2
<1> QED
  BY <1>2, <1>3, <1>4, <1>5, <1>6 DEF Next, Step, Reset, LoadModule, Begin, LoadImport,
     NotSatisfied, vars

LEMMA DefinedStep ==
  ASSUME ~Resets, OwnNames, ImportsLoad, InPlace, DefinedInv, [Next]_vars
  PROVE  DefinedInv'
<1>1. LinkInv' /\ StoreInv'
  BY LinkStep, StoreStep DEF DefinedInv
<1>2. EachOffered(moduleIns') /\ DOMAIN NativeIdx \subseteq DOMAIN moduleIdx'
  BY OfferedStep
<1>3. EachSound(calls') /\ (Waits(calls') => answer')
  BY SoundStep
<1>4. Defined'
  BY StaysDefined
<1> QED
  BY <1>1, <1>2, <1>3, <1>4 DEF DefinedInv

(* loadModule never reads a module that is not there, callFunction never a  *)
(* function whose module is gone, and segments stay in their table or       *)
(* memory (application.cpp, instantiation.cpp), for all valid files with    *)
(* names of their own whose imports can be loaded and found and whose       *)
(* segments lie in place, as long as nothing is reset.  Files that nothing  *)
(* imports may fail in every way.                                           *)
THEOREM StaysInBounds ==
  ASSUME ~Resets, OwnNames, ImportsLoad, InPlace
  PROVE  Spec => []Defined
<1>1. DefinedInv /\ [Next]_vars => DefinedInv'
  BY DefinedStep
<1>2. DefinedInv => Defined
  BY DEF DefinedInv
<1> QED
  BY DefinedInit, <1>1, <1>2, PTL DEF Spec

-----------------------------------------------------------------------------
(* What modules share: a table or memory, what a segment of either kind     *)
(* holds, and what the instances of a table of modules have put at one of   *)
(* its positions.                                                           *)
SharedTypes == {"table", "mem"}
Shared(type) == IF type = "table" THEN tables ELSE mems
SizeOf(type) == IF type = "table" THEN TableSize ELSE MemSize
Blank(type) == IF type = "table" THEN 1 ELSE 0
SegsOf(f, type) == IF type = "table" THEN Files[f].elems ELSE Files[f].datas
CoveredBy(segs, p) == \E k \in DOMAIN segs : Covers(segs[k], p)
Writes(inst, type, a, p) ==
  inst.addrs[type] # <<>> /\ inst.addrs[type][1] = a /\ CoveredBy(SegsOf(inst.file, type), p)
Wrote(inst, type, p) ==
  LET last == LastWritten(SegsOf(inst.file, type), p)
  IN IF type = "table" THEN inst.addrs["func"][last] ELSE last
Writing(ins, type, a, p) == {i \in DOMAIN ins : Writes(ins[i], type, a, p)}
Replayed(ins, type, a, p) ==
  IF Writing(ins, type, a, p) = {} THEN Blank(type)
  ELSE Wrote(ins[Max(Writing(ins, type, a, p))], type, p)

EachReplayed ==
  \A type \in SharedTypes : \A a \in DOMAIN Shared(type) : \A p \in 1..SizeOf(type) :
    Shared(type)[a][p] = Replayed(moduleIns, type, a, p)

LEMMA ReplaysEach == StoreReplays <=> EachReplayed
<1>1. ASSUME NEW a, NEW p
      PROVE  /\ Writers("table", a, p) = Writing(moduleIns, "table", a, p)
             /\ Writers("mem", a, p) = Writing(moduleIns, "mem", a, p)
  BY DEF Writers, Writing, Writes, SegsOf, FileOf, CoveredBy
<1>2. EachReplayed <=>
        /\ \A a \in DOMAIN tables : \A p \in 1..TableSize :
             tables[a][p] = Replayed(moduleIns, "table", a, p)
        /\ \A a \in DOMAIN mems : \A p \in 1..MemSize :
             mems[a][p] = Replayed(moduleIns, "mem", a, p)
  BY DEF EachReplayed, SharedTypes, Shared, SizeOf
<1>3. ASSUME NEW a, NEW p
      PROVE  /\ Replayed(moduleIns, "table", a, p) =
                  IF Writers("table", a, p) = {} THEN 1
                  ELSE moduleIns[Max(Writers("table", a, p))].addrs["func"][
                         LastWritten(FileOf(Max(Writers("table", a, p))).elems, p)]
             /\ Replayed(moduleIns, "mem", a, p) =
                  IF Writers("mem", a, p) = {} THEN 0
                  ELSE LastWritten(FileOf(Max(Writers("mem", a, p))).datas, p)
  BY <1>1 DEF Replayed, Wrote, Blank, SegsOf, FileOf
<1> QED
  BY <1>2, <1>3 DEF StoreReplays

(* One more instance is the last to write, or changes nothing.              *)
LastToWrite(ins, inst, more, type, a, p) ==
  Replayed(more, type, a, p) =
    IF Writes(inst, type, a, p) THEN Wrote(inst, type, p) ELSE Replayed(ins, type, a, p)

LEMMA WritersExtend ==
  ASSUME NEW ins, IsSeq(ins), NEW inst, NEW more, more = Append(ins, inst),
         NEW type, NEW a, NEW p
  PROVE  LastToWrite(ins, inst, more, type, a, p)
<1>1. PICK n \in Nat : n = Len(ins) /\ DOMAIN ins = 1..n
  BY IsSeqLen
<1>2. DOMAIN more = 1..(n + 1) /\ more[n + 1] = inst /\ \A i \in 1..n : more[i] = ins[i]
  BY <1>1, Appended
<1>3. PICK W : W = Writing(ins, type, a, p)
  OBVIOUS
<1>4. W \in SUBSET (1..n)
  BY <1>1, <1>3 DEF Writing
<1>5. CASE Writes(inst, type, a, p)
  <2>1. Writing(more, type, a, p) = W \cup {n + 1}
    BY <1>1, <1>2, <1>3, <1>5 DEF Writing
  <2>2. PICK V : V = W \cup {n + 1}
    OBVIOUS
  <2>3. (\A y \in V : y \in Int) /\ n + 1 \in V /\ (\A y \in V : n + 1 >= y)
    BY <1>4, <2>2
  <2>4. Max(V) = n + 1
    BY <2>3, MaxIs
  <2>5. V # {}
    BY <2>3
  <2> QED
    BY <1>2, <1>5, <2>1, <2>2, <2>4, <2>5 DEF LastToWrite, Replayed
<1>6. CASE ~Writes(inst, type, a, p)
  <2>1. Writing(more, type, a, p) = W
    BY <1>1, <1>2, <1>3, <1>6 DEF Writing
  <2>2. CASE W = {}
    BY <1>3, <1>6, <2>1, <2>2 DEF LastToWrite, Replayed
  <2>3. CASE W # {}
    <3>1. Max(W) \in 1..n
      BY <1>4, <2>3, LastPosition
    <3>2. more[Max(W)] = ins[Max(W)]
      BY <1>2, <3>1
    <3> QED
      BY <1>3, <1>6, <2>1, <2>3, <3>2 DEF LastToWrite, Replayed
  <2> QED
    BY <2>2, <2>3
<1> QED
  BY <1>5, <1>6

(* Segments that all fit leave the last value written at each position.     *)
LEMMA OverlayReplays ==
  ASSUME NEW segs, IsSeq(segs), NEW cells, NEW cell, NEW p \in DOMAIN cells,
         AllFit(segs, Len(cells))
  PROVE  Overlay(cells, segs, cell)[p] =
           IF CoveredBy(segs, p) THEN cell[LastWritten(segs, p)] ELSE cells[p]
<1>1. Written(segs, Len(cells)) = DOMAIN segs
  <2>1. PICK n \in Nat : n = Len(segs) /\ DOMAIN segs = 1..n
    BY IsSeqLen
  <2>2. \A k \in 1..n : \A j \in 1..k : j \in 1..n
    BY <2>1
  <2> QED
    BY <2>1, <2>2 DEF Written, AllFit
<1>2. PICK S : S = {k \in DOMAIN segs : Covers(segs[k], p)}
  OBVIOUS
<1>3. Overlay(cells, segs, cell)[p] =
        IF S = {} THEN cells[p] ELSE cell[segs[Max(S)].init[p - Offset(segs[Max(S)])]]
  BY <1>1, <1>2 DEF Overlay
<1>4. LastWritten(segs, p) = segs[Max(S)].init[p - Offset(segs[Max(S)])]
  BY <1>2 DEF LastWritten
<1>5. S = {} <=> ~CoveredBy(segs, p)
  BY <1>2 DEF CoveredBy
<1> QED
  BY <1>3, <1>4, <1>5

LEMMA LastIn ==
  ASSUME NEW D, NEW segs \in Segments(D), NEW p \in Int, CoveredBy(segs, p)
  PROVE  LastWritten(segs, p) \in D
<1>1. PICK last \in Nat : last = Len(segs) /\ DOMAIN segs = 1..last
  BY DEF Segments
<1>2. PICK S : S = {k \in DOMAIN segs : Covers(segs[k], p)}
  OBVIOUS
<1>3. S \in SUBSET (1..last) /\ S # {}
  BY <1>1, <1>2 DEF CoveredBy
<1>4. PICK k : k = Max(S)
  OBVIOUS
<1>5. k \in 1..last /\ Covers(segs[k], p)
  <2>1. k \in S
    BY <1>3, <1>4, LastPosition
  <2> QED
    BY <1>2, <1>3, <2>1
<1>6. PICK seg : seg = segs[k]
  OBVIOUS
<1>7. seg \in [offset : Expr, init : Seq(D)]
  <2>1. PICK R : R = [offset : Expr, init : Seq(D)]
    OBVIOUS
  <2>2. segs \in Seq(R) /\ k \in 1..Len(segs)
    BY <1>1, <1>5, <2>1 DEF Segments
  <2>3. segs[k] \in R
    BY <2>2
  <2> QED
    BY <1>6, <2>1, <2>3
<1>8. Offset(seg) \in Int
  <2>1. seg.offset \in Expr
    BY <1>7
  <2> QED
    BY <2>1 DEF Offset, InitValue, Expr
<1>9. PICK init \in Seq(D) : init = seg.init
  BY <1>7
<1>10. PICK o \in Int : o = Offset(seg)
  BY <1>8
<1>11. p - 1 \in o..(o + Len(init) - 1)
  BY <1>5, <1>6, <1>9, <1>10 DEF Covers
<1>12. p - o \in 1..Len(init)
  BY <1>11
<1>13. init[p - o] \in D
  BY <1>12
<1>14. LastWritten(segs, p) = init[p - o]
  BY <1>2, <1>4, <1>6, <1>9, <1>10 DEF LastWritten
<1> QED
  BY <1>13, <1>14

(* What instantiate makes of a table or memory.                             *)
NewDatas == IF DatasRun(Module) THEN Module.datas ELSE <<>>
NewSegs(type) == IF type = "table" THEN NewElems ELSE NewDatas
NewCells(type) == IF type = "table" THEN NewAddrs["func"] ELSE Bytes
EmptyOf(type) == IF type = "table" THEN EmptyTable ELSE EmptyMem
Was(type, a) == IF a \in DOMAIN Shared(type) THEN Shared(type)[a] ELSE EmptyOf(type)
Is(type, a) ==
  IF NewSegs(type) # <<>> /\ a = NewAddrs[type][1]
  THEN Overlay(Was(type, a), NewSegs(type), NewCells(type)) ELSE Was(type, a)

LEMMA SharedSeq ==
  ASSUME StoreInv, NEW type \in SharedTypes
  PROVE  IsSeq(Shared(type)) /\ Len(Shared(type)) = Stored[type] /\ type \in ExternType
<1>1. IsSeq(tables) /\ IsSeq(mems)
  <2>1. PICK S, T : tables \in Seq(S) /\ mems \in Seq(T)
    BY DEF StoreInv, LoaderTypeInv
  <2> QED
    BY <2>1, SeqIsSeq
<1> QED
  BY <1>1 DEF SharedTypes, Shared, Stored, ExternType

LEMMA SharedIs ==
  ASSUME StoreInv, Instantiate, TypesMatch(Module, Cur.extVal), NEW type \in SharedTypes
  PROVE  \A a \in DOMAIN Shared(type)' : a \in Nat /\ Shared(type)'[a] = Is(type, a)
<1>1. PICK own \in Nat : own = Own(Module)[type]
  BY Instantiating, FileFacts, SharedSeq DEF Module
<1>2. PICK old : old = Shared(type)
  OBVIOUS
<1>3. PICK m \in Nat : m = Len(old) /\ DOMAIN old = 1..m /\ IsSeq(old) /\ m = Stored[type]
  BY <1>2, SharedSeq, IsSeqLen
<1>4. PICK t : t = [i \in 1..own |-> EmptyOf(type)]
  OBVIOUS
<1>5. IsSeq(t) /\ Len(t) = own
  <2>1. t = [i \in 1..own |-> t[i]]
    BY <1>4
  <2> QED
    BY <2>1, ListIsSeq
<1>6. PICK all : all = old \o t
  OBVIOUS
<1>7. /\ IsSeq(all) /\ DOMAIN all = 1..(m + own)
      /\ \A a \in 1..m : all[a] = old[a]
      /\ \A a \in 1..(m + own) : a \notin 1..m => a - m \in 1..own /\ all[a] = t[a - m]
  <2>1. /\ IsSeq(old \o t) /\ Len(old \o t) = Len(old) + Len(t)
        /\ \A a \in 1..Len(old) : (old \o t)[a] = old[a]
        /\ \A a \in 1..(Len(old) + Len(t)) :
             a \notin 1..Len(old) => a - Len(old) \in 1..Len(t) /\ (old \o t)[a] = t[a - Len(old)]
    BY <1>3, <1>5, Concatenated
  <2>2. Len(old) = m /\ Len(t) = own
    BY <1>3, <1>5
  <2>3. /\ IsSeq(all) /\ Len(all) = m + own
        /\ \A a \in 1..m : all[a] = old[a]
        /\ \A a \in 1..(m + own) : a \notin 1..m => a - m \in 1..own /\ all[a] = t[a - m]
    BY <1>6, <2>1, <2>2
  <2> QED
    BY <2>3, IsSeqLen
<1>8. \A a \in 1..(m + own) : all[a] = Was(type, a)
  BY <1>2, <1>3, <1>4, <1>7 DEF Was
<1>9. Shared(type)' = IF NewSegs(type) = <<>> THEN all
                      ELSE [all EXCEPT ![NewAddrs[type][1]] =
                              Overlay(all[NewAddrs[type][1]], NewSegs(type), NewCells(type))]
  <2>1. CASE type = "table"
    <3>1. all = tables \o [i \in 1..Module.tables |-> EmptyTable]
      BY <1>1, <1>2, <1>4, <1>6, <2>1 DEF Shared, EmptyOf, Own
    <3>2. tables' = IF NewElems = <<>> THEN all
                    ELSE [all EXCEPT ![NewAddrs["table"][1]] =
                            Overlay(all[NewAddrs["table"][1]], NewElems, NewAddrs["func"])]
      BY <3>1 DEF Instantiate, NewElems, NewAddrs
    <3> QED
      BY <2>1, <3>2 DEF Shared, NewSegs, NewCells
  <2>2. CASE type = "mem"
    <3>1. all = mems \o [i \in 1..Module.mems |-> EmptyMem]
      BY <1>1, <1>2, <1>4, <1>6, <2>2 DEF Shared, EmptyOf, Own
    <3>2. mems' = IF NewDatas = <<>> THEN all
                  ELSE [all EXCEPT ![NewAddrs["mem"][1]] =
                          Overlay(all[NewAddrs["mem"][1]], NewDatas, Bytes)]
      BY <3>1 DEF Instantiate, NewDatas, NewAddrs
    <3> QED
      BY <2>2, <3>2 DEF Shared, NewSegs, NewCells
  <2> QED
    BY <2>1, <2>2 DEF SharedTypes
<1>10. PICK b, over : b = NewAddrs[type][1] /\ over = Overlay(all[b], NewSegs(type), NewCells(type))
  OBVIOUS
<1>11. PICK new : new = Shared(type)'
  OBVIOUS
<1>12. new = IF NewSegs(type) = <<>> THEN all ELSE [all EXCEPT ![b] = over]
  BY <1>9, <1>10, <1>11
<1>13. ASSUME NEW a \in DOMAIN new
       PROVE  a \in Nat /\ new[a] = Is(type, a)
  <2>1. DOMAIN new = 1..(m + own)
    BY <1>7, <1>12
  <2>2. a \in 1..(m + own) /\ all[a] = Was(type, a)
    BY <1>8, <2>1
  <2>3. CASE NewSegs(type) # <<>> /\ a = b
    <3>1. new[a] = over
      BY <1>7, <1>12, <2>2, <2>3
    <3> QED
      BY <1>10, <2>2, <2>3, <3>1 DEF Is
  <2>4. CASE ~(NewSegs(type) # <<>> /\ a = b)
    <3>1. new[a] = all[a]
      BY <1>7, <1>12, <2>2, <2>4
    <3> QED
      BY <1>10, <2>2, <2>4, <3>1 DEF Is
  <2> QED
    BY <2>3, <2>4
<1> QED
  BY <1>11, <1>13

LEMMA NewSegsAre ==
  ASSUME StoreInv, Instantiate, TypesMatch(Module, Cur.extVal), NEW type \in SharedTypes
  PROVE  /\ IsSeq(NewSegs(type)) /\ (NewSegs(type) # <<>> => NewAddrs[type] # <<>>)
         /\ Loads(Module) => /\ NewSegs(type) = SegsOf(Cur.file, type)
                             /\ AllFit(NewSegs(type), SizeOf(type))
<1>1. Module.elems \in Segments(1..Known(Module, "func")) /\ Module.datas \in Segments(0..255)
  BY Instantiating DEF Valid, Segments
<1>2. IsSeq(Module.elems) /\ IsSeq(Module.datas)
  BY <1>1, SeqIsSeq DEF Segments
<1>3. IsSeq(NewSegs(type))
  BY <1>2, EmptySeqIsSeq DEF NewSegs, NewElems, NewDatas
<1>4. ASSUME NewSegs(type) # <<>>
      PROVE  NewAddrs[type] # <<>>
  <2>1. Known(Module, type) > 0
    BY <1>4, Instantiating DEF NewSegs, NewElems, NewDatas, Valid, SharedTypes
  <2>2. Len(NewAddrs[type]) = Known(Module, type)
    BY SharedSeq, AddrBound
  <2> QED
    BY <2>1, <2>2
<1>5. ASSUME Loads(Module)
      PROVE  NewSegs(type) = SegsOf(Cur.file, type) /\ AllFit(NewSegs(type), SizeOf(type))
  <2>1. Module.fails # "export" /\ DatasRun(Module)
    BY <1>5 DEF Loads, DatasRun
  <2> QED
    BY <1>5, <2>1 DEF Loads, NewSegs, NewElems, NewDatas, SegsOf, Module, SizeOf
<1> QED
  BY <1>3, <1>4, <1>5

(* What the files must be like: a load that fails does so before it has     *)
(* written a segment.                                                       *)
CleanLoads ==
  \A f \in DOMAIN Files :
    LET m == Files[f]
    IN m.fails # "export" /\ ~Loads(m) =>
         /\ Written(m.elems, TableSize) = {}
         /\ AllFit(m.elems, TableSize) => Written(m.datas, MemSize) = {}

(* What is shared has its size, and is what was written; instances write to *)
(* what is in the store.                                                    *)
CellsOk(type, cells) == DOMAIN cells = 1..SizeOf(type) /\ Len(cells) = SizeOf(type)
EachCellsOk == \A type \in SharedTypes : \A a \in DOMAIN Shared(type) : CellsOk(type, Shared(type)[a])
FirstIn(inst, stored) ==
  \A type \in SharedTypes : inst.addrs[type] # <<>> => inst.addrs[type][1] \in 1..stored[type]
EachFirstIn == \A i \in DOMAIN moduleIns : FirstIn(moduleIns[i], Stored)
ReplayInv == StoreInv /\ EachReplayed /\ EachCellsOk /\ EachFirstIn

LEMMA EmptyOk ==
  ASSUME NEW type \in SharedTypes
  PROVE  /\ CellsOk(type, EmptyOf(type)) /\ SizeOf(type) \in Nat
         /\ \A p \in 1..SizeOf(type) : EmptyOf(type)[p] = Blank(type)
<1>1. PICK n \in Nat : n = SizeOf(type)
  BY FilesAssumption DEF SizeOf
<1>2. PICK e : e = EmptyOf(type)
  OBVIOUS
<1>3. e = [p \in 1..n |-> Blank(type)]
  BY <1>1, <1>2 DEF EmptyOf, EmptyTable, EmptyMem, Blank, SizeOf
<1>4. e = [p \in 1..n |-> e[p]]
  BY <1>3
<1>5. Len(e) = n
  BY <1>4, ListIsSeq
<1> QED
  BY <1>1, <1>2, <1>3, <1>5 DEF CellsOk

LEMMA WasReplayed ==
  ASSUME ReplayInv, NEW type \in SharedTypes, NEW a
  PROVE  /\ CellsOk(type, Was(type, a))
         /\ \A p \in 1..SizeOf(type) : Was(type, a)[p] = Replayed(moduleIns, type, a, p)
<1>1. CASE a \in DOMAIN Shared(type)
  BY <1>1 DEF ReplayInv, EachReplayed, EachCellsOk, Was
<1>2. CASE a \notin DOMAIN Shared(type)
  <2>1. DOMAIN Shared(type) = 1..Stored[type]
    BY SharedSeq, IsSeqLen DEF ReplayInv
  <2>2. \A p : Writing(moduleIns, type, a, p) = {}
    BY <1>2, <2>1 DEF ReplayInv, EachFirstIn, FirstIn, Writing, Writes
  <2>3. Was(type, a) = EmptyOf(type)
    BY <1>2 DEF Was
  <2> QED
    BY <2>2, <2>3, EmptyOk DEF Replayed
<1> QED
  BY <1>1, <1>2

(* A table or memory after instantiate.                                     *)
LEMMA ReplaysOn ==
  ASSUME CleanLoads, ReplayInv, Instantiate, TypesMatch(Module, Cur.extVal),
         NEW type \in SharedTypes, NEW a \in DOMAIN Shared(type)'
  PROVE  /\ CellsOk(type, Shared(type)'[a])
         /\ \A p \in 1..SizeOf(type) : Shared(type)'[a][p] = Replayed(moduleIns', type, a, p)
<1>1. PICK cells : cells = Was(type, a)
  OBVIOUS
<1>2. PICK segs, cell : segs = NewSegs(type) /\ cell = NewCells(type)
  OBVIOUS
<1>3. PICK now : now = Shared(type)'[a]
  OBVIOUS
<1>4. now = IF segs # <<>> /\ a = NewAddrs[type][1] THEN Overlay(cells, segs, cell) ELSE cells
  BY <1>1, <1>2, <1>3, SharedIs DEF ReplayInv, Is
<1>5. PICK n \in Nat : n = SizeOf(type)
  BY EmptyOk
<1>6. DOMAIN cells = 1..n /\ Len(cells) = n
  BY <1>1, <1>5, WasReplayed DEF CellsOk
<1>7. CellsOk(type, now)
  <2>1. CASE now = cells
    BY <1>5, <1>6, <2>1 DEF CellsOk
  <2>2. CASE now = Overlay(cells, segs, cell)
    <3>1. now = [p \in 1..n |-> now[p]]
      BY <1>6, <2>2 DEF Overlay
    <3>2. Len(now) = n /\ DOMAIN now = 1..n
      BY <3>1, ListIsSeq
    <3> QED
      BY <1>5, <3>2 DEF CellsOk
  <2> QED
    BY <1>4, <2>1, <2>2
<1>8. CASE ~Loads(Module)
  <2>1. Written(segs, n) = {}
    <3>1. /\ Module.fails # "export" => Written(Module.elems, TableSize) = {}
          /\ DatasRun(Module) => Written(Module.datas, MemSize) = {}
      BY <1>8, Instantiating DEF CleanLoads, Module, DatasRun, ReplayInv
    <3>2. \A size : Written(<<>>, size) = {}
      BY DEF Written
    <3> QED
      BY <1>2, <1>5, <3>1, <3>2 DEF NewSegs, NewElems, NewDatas, SizeOf
  <2>2. ASSUME NEW p \in 1..n PROVE now[p] = cells[p]
    <3>1. Overlay(cells, segs, cell)[p] = cells[p]
      BY <1>6, <2>1, OverlayNothing
    <3> QED
      BY <1>4, <3>1
  <2>3. moduleIns' = moduleIns
    BY <1>8, LoadsOrNot DEF app
  <2> QED
    BY <1>1, <1>3, <1>5, <1>7, <2>2, <2>3, WasReplayed
<1>9. CASE Loads(Module)
  <2>1. segs = SegsOf(Cur.file, type) /\ AllFit(segs, n) /\ IsSeq(segs)
        /\ (segs # <<>> => NewAddrs[type] # <<>>)
    BY <1>2, <1>5, <1>9, NewSegsAre DEF ReplayInv
  <2>2. moduleIns' = Append(moduleIns, NewInstance) /\ IsSeq(moduleIns)
    BY <1>9, LoadsOrNot DEF Registers, ReplayInv, StoreInv
  <2>3. ASSUME NEW p \in 1..n
        PROVE  now[p] = Replayed(moduleIns', type, a, p)
    <3>1. Replayed(moduleIns', type, a, p) =
            IF Writes(NewInstance, type, a, p) THEN Wrote(NewInstance, type, p)
            ELSE Replayed(moduleIns, type, a, p)
      <4>1. LastToWrite(moduleIns, NewInstance, moduleIns', type, a, p)
        BY <2>2, WritersExtend
      <4> QED
        BY <4>1 DEF LastToWrite
    <3>2. Writes(NewInstance, type, a, p) <=>
            NewAddrs[type] # <<>> /\ NewAddrs[type][1] = a /\ CoveredBy(segs, p)
      BY <2>1, NewInstanceIs DEF Writes
    <3>3. Overlay(cells, segs, cell)[p] =
            IF CoveredBy(segs, p) THEN cell[LastWritten(segs, p)] ELSE cells[p]
      BY <1>6, <2>1, OverlayReplays
    <3>4. cells[p] = Replayed(moduleIns, type, a, p)
      BY <1>1, <1>5, WasReplayed
    <3>5. CoveredBy(segs, p) => segs # <<>>
      BY DEF CoveredBy
    <3>6. CASE Writes(NewInstance, type, a, p)
      <4>1. now[p] = cell[LastWritten(segs, p)]
        BY <1>4, <3>2, <3>3, <3>5, <3>6
      <4>2. CASE type = "table"
        BY <1>2, <2>1, <3>1, <3>6, <4>1, <4>2, NewInstanceIs DEF Wrote, NewCells
      <4>3. CASE type = "mem"
        <5>1. segs \in Segments(0..255)
          BY <2>1, <4>3, Instantiating DEF Valid, Segments, SegsOf, Module, ReplayInv
        <5>2. LastWritten(segs, p) \in 0..255
          <6>1. CoveredBy(segs, p) /\ p \in Int
            BY <3>2, <3>6
          <6> QED
            BY <5>1, <6>1, LastIn
        <5>3. cell[LastWritten(segs, p)] = LastWritten(segs, p)
          BY <1>2, <4>3, <5>2 DEF NewCells, Bytes
        <5> QED
          BY <2>1, <3>1, <3>6, <4>1, <4>3, <5>3, NewInstanceIs DEF Wrote
      <4> QED
        BY <4>2, <4>3 DEF SharedTypes
    <3>7. CASE ~Writes(NewInstance, type, a, p)
      <4>1. now[p] = cells[p]
        BY <1>4, <2>1, <3>2, <3>3, <3>7
      <4> QED
        BY <3>1, <3>4, <3>7, <4>1
    <3> QED
      BY <3>6, <3>7
  <2> QED
    BY <1>3, <1>5, <1>7, <2>3
<1> QED
  BY <1>8, <1>9

LEMMA FreshReplays == Fresh => EachReplayed /\ EachCellsOk /\ EachFirstIn
<1> SUFFICES ASSUME Fresh PROVE EachReplayed /\ EachCellsOk /\ EachFirstIn
  OBVIOUS
<1>1. tables = <<EmptyTable>> /\ mems = <<>> /\ moduleIns = Native
  BY DEF Fresh
<1>2. ASSUME NEW i \in DOMAIN moduleIns, NEW type \in SharedTypes
      PROVE  moduleIns[i].addrs[type] = <<>>
  <2>1. moduleIns[1].addrs = NoAddrs /\ moduleIns[2].addrs = NoAddrs
    BY <1>1 DEF Native, Instance
  <2>2. NoAddrs[type] = <<>>
    BY DEF NoAddrs, SharedTypes, ExternType
  <2>3. i = 1 \/ i = 2
    BY <1>1, NativeSeq
  <2> QED
    BY <2>1, <2>2, <2>3
<1>3. EachFirstIn
  BY <1>2 DEF EachFirstIn, FirstIn
<1>4. ASSUME NEW type \in SharedTypes, NEW a \in DOMAIN Shared(type)
      PROVE  Shared(type)[a] = EmptyOf(type)
  <2>1. CASE type = "table"
    <3>1. PICK e : e = EmptyTable
      OBVIOUS
    <3>2. Shared(type) = <<e>>
      BY <1>1, <2>1, <3>1 DEF Shared
    <3>3. Shared(type)[a] = e
      BY <1>4, <3>2
    <3> QED
      BY <2>1, <3>1, <3>3 DEF EmptyOf
  <2>2. CASE type = "mem"
    BY <1>1, <1>4, <2>2 DEF Shared
  <2> QED
    BY <2>1, <2>2 DEF SharedTypes
<1>5. EachCellsOk
  BY <1>4, EmptyOk DEF EachCellsOk
<1>6. ASSUME NEW type \in SharedTypes, NEW a \in DOMAIN Shared(type), NEW p \in 1..SizeOf(type)
      PROVE  Shared(type)[a][p] = Replayed(moduleIns, type, a, p)
  <2>1. Writing(moduleIns, type, a, p) = {}
    BY <1>2 DEF Writing, Writes
  <2> QED
    BY <1>4, <2>1, EmptyOk DEF Replayed
<1>7. EachReplayed
  BY <1>6 DEF EachReplayed
<1> QED
  BY <1>3, <1>5, <1>7

LEMMA FreshReplaysAfter == Fresh' => EachReplayed' /\ EachCellsOk' /\ EachFirstIn'
BY FreshReplays, PTL

(* Where a new instance writes is in the store, and stays there.            *)
LEMMA NewFirstIn ==
  ASSUME ReplayInv, [Next]_vars, ~Reset, Instantiate, TypesMatch(Module, Cur.extVal)
  PROVE  EachFirstIn'
<1>1. ASSUME NEW type \in SharedTypes
      PROVE  /\ Stored[type] \in Nat /\ Own(Module)[type] \in Nat
             /\ Stored'[type] = Stored[type] + Own(Module)[type]
  <2>0. StoreInv /\ LoaderTypeInv /\ type \in ExternType
    BY SharedSeq DEF ReplayInv, StoreInv
  <2>1. Stored[type] \in Nat /\ Own(Module)[type] \in Nat
    BY <2>0, Instantiating, FileFacts, StoredNat DEF Module
  <2>2. Len(tables') = Len(tables) + Module.tables /\ Len(mems') = Len(mems) + Module.mems
    BY TablesGrow, MemsGrow DEF ReplayInv
  <2>3. CASE type = "table"
    BY <2>1, <2>2, <2>3 DEF Stored, Own
  <2>4. CASE type = "mem"
    BY <2>1, <2>2, <2>4 DEF Stored, Own
  <2> QED
    BY <2>1, <2>3, <2>4 DEF SharedTypes
<1>2. ASSUME NEW type \in SharedTypes, NEW addr, addr \in 1..(Stored[type] + Own(Module)[type])
      PROVE  addr \in 1..Stored'[type]
  BY <1>1, <1>2
<1>3. ASSUME NEW inst, FirstIn(inst, Stored) PROVE FirstIn(inst, Stored')
  <2>1. ASSUME NEW type \in SharedTypes, inst.addrs[type] # <<>>
        PROVE  inst.addrs[type][1] \in 1..Stored'[type]
    <3>1. PICK addr : addr = inst.addrs[type][1]
      OBVIOUS
    <3>2. addr \in 1..Stored[type]
      BY <1>3, <2>1, <3>1 DEF FirstIn
    <3>3. addr \in 1..(Stored[type] + Own(Module)[type])
      BY <1>1, <3>2
    <3> QED
      BY <1>2, <3>1, <3>3
  <2> QED
    BY <2>1 DEF FirstIn
<1>4. FirstIn(NewInstance, Stored')
  <2>1. ASSUME NEW type \in SharedTypes, NewAddrs[type] # <<>>
        PROVE  NewAddrs[type][1] \in 1..Stored'[type]
    <3>1. /\ IsSeq(NewAddrs[type]) /\ Len(NewAddrs[type]) = Known(Module, type)
          /\ Known(Module, type) \in Nat
      BY SharedSeq, AddrBound DEF ReplayInv
    <3>2. PICK s : s = NewAddrs[type]
      OBVIOUS
    <3>3. PICK S : s \in Seq(S)
      BY <3>1, <3>2 DEF IsSeq
    <3>4. Len(s) # 0
      BY <2>1, <3>2, <3>3, EmptySeq
    <3>5. 1 \in 1..Known(Module, type)
      BY <3>1, <3>2, <3>4
    <3>6. NewAddrs[type][1] \in 1..(Stored[type] + Own(Module)[type])
      BY <3>5, SharedSeq, AddrBound DEF ReplayInv
    <3> QED
      BY <1>2, <3>6
  <2> QED
    BY <2>1, NewInstanceIs DEF FirstIn
<1>5. PICK n \in Nat : n = Len(moduleIns) /\ DOMAIN moduleIns = 1..n
  BY IsSeqLen DEF ReplayInv, StoreInv
<1>6. PICK ins : ins = moduleIns'
  OBVIOUS
<1>7. ASSUME NEW i \in DOMAIN ins PROVE FirstIn(ins[i], Stored')
  <2>1. CASE UNCHANGED app
    BY <1>3, <1>6, <2>1 DEF app, ReplayInv, EachFirstIn
  <2>2. CASE Registers(NewInstance)
    <3>1. /\ DOMAIN ins = 1..(n + 1) /\ \A j \in 1..n : ins[j] = moduleIns[j]
          /\ ins[n + 1] = NewInstance
      BY <1>5, <1>6, <2>2, Appended DEF Registers, ReplayInv, StoreInv
    <3>2. CASE i \in 1..n
      BY <1>3, <1>5, <3>1, <3>2 DEF ReplayInv, EachFirstIn
    <3>3. CASE i = n + 1
      BY <1>4, <3>1, <3>3
    <3> QED
      BY <3>1, <3>2, <3>3
  <2> QED
    BY <2>1, <2>2, LoadsOrNot
<1> QED
  BY <1>6, <1>7 DEF EachFirstIn

LEMMA ReplayStep ==
  ASSUME CleanLoads, ReplayInv, [Next]_vars
  PROVE  ReplayInv'
<1>1. StoreInv'
  BY StoreStep DEF ReplayInv
<1>2. CASE Reset
  <2>1. Fresh'
    BY <1>2 DEF Reset, Fresh, Cleared
  <2> QED
    BY <1>1, <2>1, FreshReplaysAfter DEF ReplayInv
<1>3. CASE UNCHANGED <<app, store>>
  <2>1. tables' = tables /\ mems' = mems /\ moduleIns' = moduleIns /\ Stored' = Stored
    BY <1>3 DEF app, store, Stored
  <2>2. \A type : Shared(type)' = Shared(type)
    BY <2>1 DEF Shared
  <2> QED
    BY <1>1, <2>1, <2>2 DEF ReplayInv, EachReplayed, EachCellsOk, EachFirstIn
<1>4. CASE ~Reset /\ Instantiate /\ TypesMatch(Module, Cur.extVal)
  <2>1. EachFirstIn'
    BY <1>4, NewFirstIn
  <2>2. ASSUME NEW type \in SharedTypes, NEW a \in DOMAIN Shared(type)'
        PROVE  /\ CellsOk(type, Shared(type)'[a])
               /\ \A p \in 1..SizeOf(type) : Shared(type)'[a][p] = Replayed(moduleIns', type, a, p)
    BY <1>4, <2>2, ReplaysOn
  <2>3. EachCellsOk'
    BY <2>2 DEF EachCellsOk
  <2>4. EachReplayed'
    BY <2>2 DEF EachReplayed
  <2> QED
    BY <1>1, <2>1, <2>3, <2>4 DEF ReplayInv
<1> QED
  BY <1>2, <1>3, <1>4, OnlyInstantiates

(* What modules share is what the loaded ones have written, the last one    *)
(* last: no load leaves anything behind that fails before its segments, and *)
(* no module reaches another's table or memory but through an import        *)
(* (instantiation.cpp), for all valid files whose loads fail, if they fail, *)
(* before they write; :init included.                                       *)
THEOREM SharedAsWritten ==
  ASSUME CleanLoads
  PROVE  Spec => []StoreReplays
<1>1. Init => ReplayInv
  <2>1. Init => Fresh
    BY DEF Init, Fresh
  <2> QED
    BY <2>1, StoreInit, FreshReplays DEF ReplayInv
<1>2. ReplayInv /\ [Next]_vars => ReplayInv'
  BY ReplayStep
<1>3. ReplayInv => StoreReplays
  BY ReplaysEach DEF ReplayInv
<1> QED
  BY <1>1, <1>2, <1>3, PTL DEF Spec
=============================================================================
