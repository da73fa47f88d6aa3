------------------------------ MODULE MCRuntime ------------------------------
(* Runtime on a program of two wasm functions and two natives:              *)
(*   main : [] -> [i32], one local      pair : [i32 i32] -> [i32], one local *)
(*   print : [] -> []                   exit : [i32] -> []                   *)
EXTENDS RuntimeRefines

MCFuncs == {"main", "pair", "print", "exit"}
MCNatives == {"print", "exit"}
MCExiting == {"exit"}
MCEntries == {"main", "print"}
MCParams == [main |-> 0, pair |-> 2, print |-> 0, exit |-> 1]
MCLocals == [main |-> 1, pair |-> 1, print |-> 0, exit |-> 0]
MCRet == [main |-> 1, pair |-> 1, print |-> 0, exit |-> 0]
MCTable == <<"pair">>

(* With a function whose locals never have room:                            *)
(*   wide : [] -> [], as many locals as LocalCap                            *)
WideFuncs == MCFuncs \cup {"wide"}
WideEntries == MCEntries \cup {"wide"}
With(f, x) == [g \in WideFuncs |-> IF g = "wide" THEN x ELSE f[g]]
WideParams == With(MCParams, 0)
WideLocals == With(MCLocals, LocalCap)
WideRet == With(MCRet, 0)

(* A second program, without natives or results at the start:               *)
(*   start : [] -> []                   pair : [i32 i32] -> [i32], one local *)
PairFuncs == {"start", "pair"}
PairParams == [start |-> 0, pair |-> 2]
PairLocals == [start |-> 0, pair |-> 1]
PairRet == [start |-> 0, pair |-> 1]
PairTable == <<"start", "pair">>

(* A third, in which a branch out of a called function can leave the frame  *)
(* of a function with fewer locals, or none, on top:                        *)
(*   main : [] -> [], three locals      one : [i32] -> [i32], no local       *)
(*   none : [] -> [], no local                                              *)
OutFuncs == {"main", "one", "none"}
OutParams == [main |-> 0, one |-> 1, none |-> 0]
OutLocals == [main |-> 3, one |-> 0, none |-> 0]
OutRet == [main |-> 0, one |-> 1, none |-> 0]
OutTable == <<"one">>
=============================================================================
