-------------------------------- MODULE Loader --------------------------------
(****************************************************************************)
(* Loading modules into TWA (application.cpp, instantiation.cpp): the host  *)
(* asks for a file, loadModule decodes it, finds or loads the modules it    *)
(* imports from - calling itself - and instantiates it into the store that  *)
(* all modules share.  The steps below are those of the nested loadModule   *)
(* calls; what the host can see is the table of modules and the store.      *)
(****************************************************************************)
EXTENDS Integers, Sequences, FiniteSetsExt

CONSTANTS
  Files,     \* the modules in the .wasm files there are, by path
  Wanted,    \* the paths the host asks for
  Called,    \* the names of functions the host calls
  TableSize, \* elements of a table
  MemSize,   \* bytes of a memory
  MaxMade,   \* bound: once so many instances were made, the host asks only for
             \* modules that are loaded
  Resets     \* the host may use :init

(* Paths and the names of modules are sequences of parts, a part being a    *)
(* string without "/" and ".", or one of these.  A file holds a module: its *)
(* name, if it has a name section, and what instantiate uses of the rest;   *)
(* fails says which of its later steps goes wrong, if any: an export that   *)
(* has no name, or a start function that traps.                             *)
ExternType == {"func", "table", "mem", "global"}
Own(m) == [func |-> m.funcs, table |-> m.tables, mem |-> m.mems, global |-> Len(m.globals)]

(* Modules are valid, which TWA does not test: their indexes are those of   *)
(* what they import and define.                                             *)
Known(m, type) ==
  Cardinality({k \in DOMAIN m.imports : m.imports[k].type = type}) + Own(m)[type]
Expr == [op : {"const", "get_global"}, n : Int]
Valid(m) ==
  /\ m.imports \in Seq([module : Seq(STRING), item : STRING, type : ExternType])
  /\ m.globals \in Seq(Expr)
  /\ \A x \in DOMAIN m.exports :
       m.exports[x].type \in ExternType /\ m.exports[x].idx \in 1..Known(m, m.exports[x].type)
  /\ m.elems \in Seq([offset : Expr, init : Seq(1..Known(m, "func"))])
  /\ m.elems # <<>> => Known(m, "table") > 0
  /\ m.datas \in Seq([offset : Expr, init : Seq(0..255)])
  /\ m.datas # <<>> => Known(m, "mem") > 0
ASSUME FilesAssumption ==
  /\ TableSize \in Nat \ {0} /\ MemSize \in Nat \ {0}
  /\ MaxMade \in Nat /\ Resets \in BOOLEAN
  /\ \A f \in DOMAIN Files :
       /\ Files[f].decodes \in BOOLEAN /\ Valid(Files[f])
       /\ Files[f].funcs \in Nat /\ Files[f].tables \in Nat /\ Files[f].mems \in Nat
       /\ Files[f].fails \in {"nothing", "export", "start"}

VARIABLES
  moduleIns,  \* Application::moduleIns_, a sequence of instances
  moduleIdx,  \* Application::moduleIdx_, from names to indexes of moduleIns
  funcs,      \* Store::funcs: the instance each function belongs to
  tables,     \* Store::tables: the functions in each
  mems,       \* Store::mems: the bytes of each
  globals,    \* Store::globals: their values
  made,       \* ModuleInstances made since the last reset: their identities
  calls,      \* the nested loadModule calls, the innermost last
  answer,     \* what the loadModule or callFunction that ended last returned
  undefined   \* the program has left its data structures

store == <<funcs, tables, mems, globals, made>>
app == <<moduleIns, moduleIdx>>
vars == <<app, store, calls, answer, undefined>>

-----------------------------------------------------------------------------
(* What is in the store is known by its position, counted from 1.  An       *)
(* element no segment has set is position 1, the address 0 of the code.     *)
Extern(type, addr) == [type |-> type, addr |-> addr]
EmptyTable == [i \in 1..TableSize |-> 1]
EmptyMem == [i \in 1..MemSize |-> 0]
NoAddrs == [type \in ExternType |-> <<>>]

Instance(id, file, name, exports, links, addrs) ==
  [id |-> id, file |-> file, name |-> name, exports |-> exports, links |-> links,
   addrs |-> addrs]

(* Application::reset registers the two native modules, each with one       *)
(* function here.                                                           *)
Native ==
  << Instance(1, <<>>, <<"spectest">>,
       [print |-> Extern("func", 1), table |-> Extern("table", 1)], <<>>, NoAddrs),
     Instance(2, <<>>, <<"wasi_unstable">>, [proc_exit |-> Extern("func", 2)], <<>>, NoAddrs) >>
NativeIdx == [n \in {<<"spectest">>, <<"wasi_unstable">>} |-> IF n = <<"spectest">> THEN 1 ELSE 2]

(* addModuleInstance.  This and some other operators follow wrong variants  *)
(* (here IndexBefore): mistakes that the properties at the end notice.      *)
IndexBefore(name) == [n \in DOMAIN moduleIdx \cup {name} |->
                       IF n = name THEN Len(moduleIns) ELSE moduleIdx[n]]
IndexWith(name) == [n \in DOMAIN moduleIdx \cup {name} |->
                     IF n = name THEN Len(moduleIns) + 1 ELSE moduleIdx[n]]

(* reset clears moduleIns_ and the store, but not moduleIdx_.               *)
NativesAfter(ins) == Native \o ins
Cleared(ins) == Native
Reset ==
  /\ Resets /\ calls = <<>> /\ ~undefined
  /\ funcs' = <<1, 2>> /\ tables' = <<EmptyTable>> /\ mems' = <<>> /\ globals' = <<>>
  /\ made' = 2
  /\ moduleIns' = Cleared(moduleIns)
  /\ moduleIdx' = [n \in DOMAIN moduleIdx |->
                    IF n \in DOMAIN NativeIdx THEN NativeIdx[n] ELSE moduleIdx[n]]
  /\ UNCHANGED <<calls, answer, undefined>>

Init ==
  /\ moduleIns = Native /\ moduleIdx = NativeIdx
  /\ funcs = <<1, 2>> /\ tables = <<EmptyTable>> /\ mems = <<>> /\ globals = <<>>
  /\ made = 2 /\ calls = <<>> /\ answer = FALSE /\ undefined = FALSE

-----------------------------------------------------------------------------
(* getModuleName.  Positions are counted from 0: find_last_of is -1 if it   *)
(* finds nothing.  The name begins with the last "/" and ends before the    *)
(* last "."; without one it loses its end.                                  *)
FindLastOf(path, part) == Max({-1} \cup {i \in 0..(Len(path) - 1) : path[i + 1] = part})
NameStart(path) == Max({0, FindLastOf(path, "/")})
GetModuleName(path) ==
  LET start == NameStart(path)
      dot == FindLastOf(path, ".")
      end == IF dot < start THEN Len(path) - 1 ELSE dot
  IN SubSeq(path, start + 1, end)

(* loadModule.  A call is at its beginning, in the loop over the imports,   *)
(* or waits for the module it has asked a nested call to load.              *)
Activation(f) == [file |-> f, stage |-> "begin", idx |-> 1,
                  extVal |-> <<>>, importOk |-> TRUE]
Cur == calls[Len(calls)]
Outer == SubSeq(calls, 1, Len(calls) - 1)
Module == Files[Cur.file]
At(stage) == calls # <<>> /\ ~undefined /\ Cur.stage = stage

Goto(call) == calls' = Append(Outer, call) /\ UNCHANGED answer
Return(b) == calls' = Outer /\ answer' = b

LoadModule(f) ==
  /\ calls = <<>> /\ ~undefined
  /\ made < MaxMade \/ GetModuleName(f) \in DOMAIN moduleIdx
  /\ calls' = <<Activation(f)>>
  /\ UNCHANGED <<app, store, answer, undefined>>

(* moduleIdx_ has the name.                                                 *)
LoadedEarlier(name) == name \in DOMAIN moduleIdx /\ moduleIdx[name] < Len(moduleIns)
Loaded(name) == name \in DOMAIN moduleIdx

(* The module of that name is there already, or its file is not, or it      *)
(* cannot be decoded.                                                       *)
Begin ==
  /\ At("begin")
  /\ IF Loaded(GetModuleName(Cur.file)) THEN Return(TRUE)
     ELSE IF Cur.file \notin DOMAIN Files THEN Return(FALSE)
     ELSE IF ~Module.decodes THEN Return(FALSE)
     ELSE Goto([Cur EXCEPT !.stage = "imports"])
  /\ UNCHANGED <<app, store, undefined>>

Import == Module.imports[Cur.idx]
Importing == At("imports") /\ Cur.idx <= Len(Module.imports)

LoadImport ==
  /\ Importing /\ ~Loaded(Import.module)
  /\ calls' = Append(Append(Outer, [Cur EXCEPT !.stage = "waiting"]),
                     Activation(Import.module \o <<".", "wasm">>))
  /\ UNCHANGED <<app, store, answer, undefined>>

(* After a nested load all imports are looked up again; if it failed, the   *)
(* code reads the module it did not find.                                   *)
Again(call) == [call EXCEPT !.stage = "imports", !.idx = 1, !.extVal = <<>>]
Resume ==
  /\ At("waiting")
  /\ IF answer THEN Goto(Again(Cur)) /\ UNCHANGED undefined
     ELSE undefined' = TRUE /\ UNCHANGED <<calls, answer>>
  /\ UNCHANGED <<app, store>>

(* One import is looked up in the exports of its module.                    *)
FromTheStart(call) == Again(call)
Missing(call) == [call EXCEPT !.idx = @ + 1, !.importOk = FALSE]
FoundFirst(call, ext) == [call EXCEPT !.idx = @ + 1,
                            !.extVal = IF call.importOk THEN <<ext>> \o @ ELSE @]
Found(call, ext) == [call EXCEPT !.idx = @ + 1,
                       !.extVal = IF call.importOk THEN Append(@, ext) ELSE @]
LookUp ==
  LET i == moduleIdx[Import.module]
      exports == moduleIns[i].exports
  IN /\ Importing /\ Loaded(Import.module)
     /\ IF i \in DOMAIN moduleIns
        THEN /\ Goto(IF Import.item \in DOMAIN exports
                     THEN Found(Cur, exports[Import.item]) ELSE Missing(Cur))
             /\ UNCHANGED undefined
        ELSE undefined' = TRUE /\ UNCHANGED <<calls, answer>>
     /\ UNCHANGED <<app, store>>

NotSatisfied ==
  /\ At("imports") /\ Cur.idx > Len(Module.imports) /\ ~Cur.importOk
  /\ Return(FALSE)
  /\ UNCHANGED <<app, store, undefined>>

-----------------------------------------------------------------------------
(* Instantiation::instantiate.                                              *)

TypesMatch(m, ext) ==
  /\ Len(ext) = Len(m.imports)
  /\ \A i \in DOMAIN ext : m.imports[i].type = ext[i].type

(* evaluateInitValue knows constants; anything else is reported and is 0.   *)
InitValue(expr) == IF expr.op = "const" THEN expr.n ELSE 0

(* The addresses of one kind a module knows: its imports first, then its    *)
(* own, which are appended to the store.                                    *)
Stored == [func |-> Len(funcs), table |-> Len(tables), mem |-> Len(mems),
           global |-> Len(globals)]
Imported(ext, type) ==
  LET first[n \in 0..Len(ext)] ==
        IF n = 0 THEN <<>>
        ELSE IF ext[n].type = type THEN Append(first[n - 1], ext[n].addr)
        ELSE first[n - 1]
  IN first[Len(ext)]
AddrsAfterPush(m, ext) == [type \in ExternType |->
  Imported(ext, type) \o [i \in 1..Own(m)[type] |-> Stored[type] + i + 1]]
Addrs(m, ext) == [type \in ExternType |->
  Imported(ext, type) \o [i \in 1..Own(m)[type] |-> Stored[type] + i]]
Exports(m, addrs) ==
  [x \in DOMAIN m.exports |->
    Extern(m.exports[x].type, addrs[m.exports[x].type][m.exports[x].idx])]

(* Element and data segments: the offset is a signed number, added as an    *)
(* unsigned one of 64 bits.  Segments are written up to the first that does *)
(* not fit.                                                                 *)
Offset(seg) == InitValue(seg.offset)
FitsBelow(seg, size) == Offset(seg) + Len(seg.init) \in 0..(size - 1)
Fits(seg, size) == Offset(seg) + Len(seg.init) \in 0..size
WrittenTogether(segs, size) == DOMAIN segs
Written(segs, size) == {k \in DOMAIN segs : \A j \in 1..k : Fits(segs[j], size)}
AllFit(segs, size) == \A k \in DOMAIN segs : Fits(segs[k], size)
(* A negative offset can pass the test; the first elements are then written *)
(* far behind the end.                                                      *)
Wild(segs, size) == \E k \in Written(segs, size) : Offset(segs[k]) < 0 /\ segs[k].init # <<>>
Covers(seg, p) == p - 1 \in Offset(seg)..(Offset(seg) + Len(seg.init) - 1)
Overlay(cells, segs, cell) ==
  [p \in DOMAIN cells |->
    LET S == {k \in Written(segs, Len(cells)) : Covers(segs[k], p)}
    IN IF S = {} THEN cells[p] ELSE cell[segs[Max(S)].init[p - Offset(segs[Max(S)])]]]

(* The steps before the exports succeed: everything the module defines is   *)
(* in the store.  Its segments go to its first table and memory.            *)
Bytes == [b \in 0..255 |-> b]
DatasAnyway(m) == m.fails # "export"
DatasRun(m) == m.fails # "export" /\ AllFit(m.elems, TableSize)
Instantiate ==
  LET m == Module
      ext == Cur.extVal
      id == made + 1
      addrs == Addrs(m, ext)
      elems == IF m.fails = "export" THEN <<>> ELSE m.elems
      datas == IF DatasRun(m) THEN m.datas ELSE <<>>
      allTables == tables \o [i \in 1..m.tables |-> EmptyTable]
      allMems == mems \o [i \in 1..m.mems |-> EmptyMem]
  IN /\ At("imports") /\ Cur.idx > Len(m.imports) /\ Cur.importOk
     /\ IF ~TypesMatch(m, ext) THEN Return(FALSE) /\ UNCHANGED <<app, store, undefined>>
        ELSE /\ made' = id
             /\ funcs' = funcs \o [i \in 1..m.funcs |-> id]
             /\ globals' = globals \o [i \in DOMAIN m.globals |-> InitValue(m.globals[i])]
             /\ tables' = IF elems = <<>> THEN allTables
                          ELSE [allTables EXCEPT ![addrs["table"][1]] = Overlay(@, elems, addrs["func"])]
             /\ mems' = IF datas = <<>> THEN allMems
                        ELSE [allMems EXCEPT ![addrs["mem"][1]] = Overlay(@, datas, Bytes)]
             /\ undefined' = (Wild(elems, TableSize) \/ Wild(datas, MemSize))
             /\ IF m.fails # "nothing" \/ ~AllFit(elems, TableSize) \/ ~AllFit(datas, MemSize)
                THEN Return(FALSE) /\ UNCHANGED app
                ELSE LET name == IF m.name = <<>> THEN GetModuleName(Cur.file) ELSE m.name
                     IN /\ Return(TRUE)
                        /\ moduleIns' = Append(moduleIns,
                             Instance(id, Cur.file, name, Exports(m, addrs), ext, addrs))
                        /\ moduleIdx' = IndexWith(name)

-----------------------------------------------------------------------------
(* callFunction looks for an exported function of that name, from the last  *)
(* module to the first.  What the function does is in Runtime.              *)
Live == {moduleIns[i].id : i \in DOMAIN moduleIns}
Exporters(x) == {i \in DOMAIN moduleIns :
  x \in DOMAIN moduleIns[i].exports /\ moduleIns[i].exports[x].type = "func"}
CallFunction(x) ==
  /\ calls = <<>> /\ ~undefined
  /\ answer' = (Exporters(x) # {})
  /\ undefined' = (Exporters(x) # {} /\
       funcs[moduleIns[Max(Exporters(x))].exports[x].addr] \notin Live)
  /\ UNCHANGED <<app, store, calls>>

Step == Begin \/ LoadImport \/ Resume \/ LookUp \/ NotSatisfied \/ Instantiate

Next ==
  \/ Reset \/ (\E f \in Wanted : LoadModule(f)) \/ (\E x \in Called : CallFunction(x))
  \/ Step

(* A load runs by itself once it is asked for.                              *)
Spec == Init /\ [][Next]_vars /\ WF_vars(Step)

-----------------------------------------------------------------------------
(* Properties.                                                              *)

(* Every variable has its type, and addresses are positions in the store.   *)
LoaderTypeInv ==
  /\ funcs \in Seq(1..made) /\ tables \in Seq([1..TableSize -> 1..Len(funcs)])
  /\ mems \in Seq(Seq(Nat)) /\ globals \in Seq(Int)
  /\ \A n \in DOMAIN moduleIdx : moduleIdx[n] \in Nat
  /\ answer \in BOOLEAN /\ undefined \in BOOLEAN
  /\ \A i \in DOMAIN calls :
       /\ calls[i].stage \in {"begin", "imports", "waiting"}
       /\ calls[i].idx \in Nat /\ calls[i].importOk \in BOOLEAN

(* The program never reads through an iterator or index that is not valid.  *)
Defined == ~undefined

(* "Loaded already" means loaded: a name in moduleIdx_ leads to the         *)
(* instance of that name, from which imports are then linked.               *)
IndexNames ==
  \A n \in DOMAIN moduleIdx :
    moduleIdx[n] \in DOMAIN moduleIns /\ moduleIns[moduleIdx[n]].name = n

(* The functions a module exports belong to modules that still exist, so    *)
(* that callFunction and other modules' imports can run them.               *)
ExportsLive ==
  \A i \in DOMAIN moduleIns : \A x \in DOMAIN moduleIns[i].exports :
    LET e == moduleIns[i].exports[x]
    IN /\ e.addr \in 1..Stored[e.type]
       /\ e.type = "func" => funcs[e.addr] \in Live

(* So do the functions in tables, which call_indirect runs.                 *)
TablesLive ==
  \A t \in DOMAIN tables : \A p \in 1..TableSize : funcs[tables[t][p]] \in Live

(* An instance is linked to what the modules it names export under the      *)
(* names it gives, in the order of its imports.                             *)
LinkedByName ==
  \A i \in DOMAIN moduleIns : moduleIns[i].file # <<>> =>
    LET imports == Files[moduleIns[i].file].imports
    IN /\ Len(moduleIns[i].links) = Len(imports)
       /\ \A k \in DOMAIN imports :
            \E j \in 1..(i - 1) :
              /\ moduleIns[j].name = imports[k].module
              /\ imports[k].item \in DOMAIN moduleIns[j].exports
              /\ moduleIns[i].links[k] = moduleIns[j].exports[imports[k].item]

(* What modules share holds what the modules that were loaded put there, in *)
(* the order of their loading: a load that fails before its segments are    *)
(* written leaves nothing, and no module reaches another's table or memory  *)
(* but through an import.                                                   *)
FileOf(i) == Files[moduleIns[i].file]
Writers(type, a, p) ==
  {i \in DOMAIN moduleIns :
    /\ moduleIns[i].addrs[type] # <<>> /\ moduleIns[i].addrs[type][1] = a
    /\ LET segs == IF type = "table" THEN FileOf(i).elems ELSE FileOf(i).datas
       IN \E k \in DOMAIN segs : Covers(segs[k], p)}
LastWritten(segs, p) ==
  LET k == Max({k \in DOMAIN segs : Covers(segs[k], p)}) IN segs[k].init[p - Offset(segs[k])]
StoreReplays ==
  /\ \A a \in DOMAIN tables : \A p \in 1..TableSize :
       LET W == Writers("table", a, p)
       IN tables[a][p] = IF W = {} THEN 1
          ELSE moduleIns[Max(W)].addrs["func"][LastWritten(FileOf(Max(W)).elems, p)]
  /\ \A a \in DOMAIN mems : \A p \in 1..MemSize :
       LET W == Writers("mem", a, p)
       IN mems[a][p] = IF W = {} THEN 0 ELSE LastWritten(FileOf(Max(W)).datas, p)

(* A module that is loaded is not instantiated again.                       *)
InstantiatedOnce ==
  \A i, j \in DOMAIN moduleIns : moduleIns[i].name = moduleIns[j].name => i = j

(* Every load the host asks for ends.                                       *)
LoadsEnd == (calls # <<>> /\ ~undefined) ~> (calls = <<>> \/ undefined)
=============================================================================
