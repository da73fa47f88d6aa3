------------------------------- MODULE MCLoader -------------------------------
(* Loader on small programs.                                                *)
EXTENDS Loader, TLC

Wasm(name) == name \o <<".", "wasm">>
Named(path, m) == [p \in {path} |-> m]
Mod(imports, nfuncs, exports) ==
  [decodes |-> TRUE, name |-> <<>>, imports |-> imports, funcs |-> nfuncs, tables |-> 0,
   mems |-> 0, globals |-> <<>>, exports |-> exports, elems |-> <<>>, datas |-> <<>>,
   fails |-> "nothing"]
From(m, item, type) == [module |-> m, item |-> item, type |-> type]
Item(type, i) == [type |-> type, idx |-> i]
Const(n) == [op |-> "const", n |-> n]
GetGlobal(n) == [op |-> "get_global", n |-> n]
Seg(offset, init) == [offset |-> offset, init |-> init]
SpecTable == From(<<"spectest">>, "table", "table")

(* "lib" exports a function, puts another into the table that spectest      *)
(* exports, and has a memory.                                               *)
LibFile == Wasm(<<"lib">>)
Lib == [Mod(<<SpecTable>>, 2, [f |-> Item("func", 1), mem |-> Item("mem", 1)])
         EXCEPT !.elems = <<Seg(Const(0), <<2>>)>>, !.mems = 1,
                !.globals = <<Const(3)>>, !.datas = <<Seg(Const(1), <<7, 8>>)>>]
Other == [Mod(<<>>, 1, [f |-> Item("func", 1)]) EXCEPT !.name = <<"other">>]
(* Two modules that need several loads, one through the other.  "mid"       *)
(* exports what it imports, has a table of its own, writes the memory of    *)
(* "lib", and places a segment by a global, which the code takes as 0.      *)
Mid == [Mod(<<From(<<"other">>, "f", "func"), From(<<"lib">>, "mem", "mem"),
              From(<<"lib">>, "f", "func")>>, 1,
            [f |-> Item("func", 2), g |-> Item("func", 3), table |-> Item("table", 1)])
         EXCEPT !.tables = 1, !.elems = <<Seg(Const(0), <<3, 1>>), Seg(Const(1), <<2>>)>>,
                !.globals = <<Const(2), GetGlobal(1)>>,
                !.datas = <<Seg(GetGlobal(1), <<5, 6>>), Seg(Const(2), <<9>>)>>]
App == Mod(<<From(<<"spectest">>, "print", "func"), From(<<"mid">>, "g", "func"),
             From(<<"lib">>, "f", "func")>>, 1, [main |-> Item("func", 4)])
(* Modules that cannot be loaded: no such export, an export of another      *)
(* kind, an empty export name, a segment that does not fit - behind the end *)
(* or before the beginning -, a broken file.                                *)
NoItem == Mod(<<From(<<"lib">>, "g", "func")>>, 1, [f |-> Item("func", 2)])
NoKind == Mod(<<From(<<"lib">>, "f", "table")>>, 1, [f |-> Item("func", 1)])
NoName == [Lib EXCEPT !.fails = "export"]
TooFar == [Mod(<<SpecTable>>, 1, [f |-> Item("func", 1)])
            EXCEPT !.elems = <<Seg(Const(TableSize - 1), <<1, 1>>)>>]
Before == [TooFar EXCEPT !.elems = <<Seg(Const(-2), <<1>>)>>, !.mems = 1,
                         !.datas = <<Seg(Const(0), <<4>>)>>]
Broken == [Other EXCEPT !.decodes = FALSE]

(* A file in a directory has a name of its own.                             *)
GoodFiles ==
  Named(LibFile, Lib) @@ Named(<<"d", "/">> \o LibFile, Lib)
  @@ Named(Wasm(<<"other">>), Other) @@ Named(Wasm(<<"mid">>), Mid) @@ Named(Wasm(<<"app">>), App)
  @@ Named(Wasm(<<"noitem">>), NoItem) @@ Named(Wasm(<<"nokind">>), NoKind)
  @@ Named(Wasm(<<"noname">>), NoName) @@ Named(Wasm(<<"toofar">>), TooFar)
  @@ Named(Wasm(<<"before">>), Before) @@ Named(Wasm(<<"broken">>), Broken)
GoodWanted == DOMAIN GoodFiles \cup {Wasm(<<"spectest">>), Wasm(<<"nofile">>)}

(* For :init: an importer, modules whose second segment does not fit or     *)
(* lies before the beginning, one whose start function traps, one that has  *)
(* another name than its file.                                              *)
UseLib == Mod(<<From(<<"lib">>, "f", "func")>>, 1, [main |-> Item("func", 2)])
Half == [Lib EXCEPT !.elems = <<Seg(Const(0), <<2>>), Seg(Const(TableSize), <<1>>)>>]
Late == [Lib EXCEPT !.fails = "start"]
Far == [Lib EXCEPT !.datas = <<Seg(Const(-1), <<4, 4>>)>>]
Nick == [Other EXCEPT !.name = <<"lib">>]
ResetFiles ==
  Named(LibFile, Mod(<<>>, 1, [f |-> Item("func", 1)])) @@ Named(Wasm(<<"uselib">>), UseLib)
  @@ Named(Wasm(<<"half">>), Half) @@ Named(Wasm(<<"late">>), Late)
  @@ Named(Wasm(<<"far">>), Far) @@ Named(Wasm(<<"nick">>), Nick)
ResetWanted == DOMAIN ResetFiles \cup {Wasm(<<"spectest">>)}

(* A module that has another name than its file, and one that imports it.   *)
RenamedFiles == Named(LibFile, [Lib EXCEPT !.name = <<"library">>])
                @@ Named(Wasm(<<"uselib">>), UseLib)
RenamedWanted == {Wasm(<<"uselib">>)}
=============================================================================
