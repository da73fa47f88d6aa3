# TWA in TLA+

TLA+ models of [TWA](../src/README.md), a WebAssembly interpreter in C++, the TLC runs that check
them on small instances, and proofs of what holds for every instance. Paths below are relative to
the repository's `src/` directory (`operation.h` is `src/operation.h` of the repository).

TWA is sequential: there are no threads, and nothing is persisted. What makes it hard is *state that
is saved at one time and used at another* - sizes of four stacks, positions in code, indexes of
modules, a heap block - by code that relies on facts it never checks, since TWA has no validator; and
input that is read without looking at the state of the stream.

## 1. The system

| Component | State | Operations | What makes it correct |
|---|---|---|---|
| Interpreter (`runtime.cpp`, `operation.h`, `stack.h`) | `stack_.values/labels/frames/locals`, `pc_`, `trap_`, `exitCode_`, globals | `invoke`, `execInstruction`, one handler per opcode | every saved size and position fits the activation it belongs to when it is used; a stop is a trap; the host sees it |
| Linear memory (`store.h`, `operation.h`) | `pageCnt`, `dataSize`, the block `data` | constructor, `grow`, loads, stores, `memory.size` | the sizes describe the block; addresses inside work, others trap; no access outside the block |
| Module table (`application.cpp`) | `moduleIns_`, `moduleIdx_` | `reset`, `loadModule` (recursive), `callFunction` | a name leads to its module; a load ends, links by name, and fails without traces |
| Instantiation (`instantiation.cpp`) | `Store::funcs/tables/mems/globals`, `ModuleInstance` | `instantiate` | what the store and exports refer to exists; shared tables and memories hold what the loaded modules put there |
| Native modules (`bind/`, `native.h`) | none of their own | print functions, five WASI functions, `proc_exit` | pop and push what their callers expect |
| Decoder (`decoder.cpp`) | the input stream, the `Module` being built, nested `readExpr` calls | `decodeStream`, one reader per section, `readExpr` | a well-formed file becomes its module; whatever is decoded has the ends the interpreter relies on |
| Numeric instructions (`operation.h`, `utils.h`) | operands | arithmetic, comparisons, conversions | results and traps of the instruction set |
| Command line (`main.cpp`) | none | `run`, `:init`, `:load`, calls | reports what happened |

How they interact. `main` calls `Application`; `loadModule` calls the decoder, itself for imports,
and `Instantiation::instantiate`, which appends to the `Store` that all modules share and may run a
start function. `callFunction` finds an export and calls `Runtime::invoke`. The interpreter reaches
functions, tables, memories and globals through the module of the top frame, so an instance must
outlive every function that belongs to it. Native functions are called back from `invoke` and work on
the value stack of the caller.

Hard behaviours: branches, returns and ends that unwind several stacks at once, across calls;
failures half-way (a trap, an overflow while a frame is pushed, a segment that does not fit, a nested
load that fails); 32-bit sizes that wrap; state left from the call, load or reset before; upper halves
of value slots; a stream that has failed.

`PROJECT.json` lists each hazard at its line with the properties that cover it.

## 2. Modules

| Module | What it is |
|---|---|
| `Runtime` | the interpreter: one action per handler, the host's calls, and the safety properties |
| `Activations` | what an interpreter promises: a stack of activations with operands and locals of their own |
| `RuntimeRefines` | the refinement mapping from `Runtime` to `Activations` |
| `RuntimeProofs` | proofs: types, the dummy frame, the sizes of the tested stacks; frames, labels and locals are those of the activations |
| `RuntimeOperands` | proofs, from `RuntimeProofs`: operands, returns, that nothing undefined happens, and what the host sees |
| `RuntimeImplements` | proofs, from `RuntimeOperands`: `Runtime` implements `Activations` |
| `LinearMemory` | a memory instance and the memory instructions, with 32-bit and heap behaviour |
| `ByteMemory` | what a memory promises: a growing array of bytes |
| `LinearMemoryProofs` | proofs: sizes, the block, refused growth, and that `LinearMemory` implements `ByteMemory` |
| `Decoder` | `decodeStream`: the section loop, the readers, `readExpr` on nested blocks |
| `BinaryFormat` | the other direction: the file of a module, and what decoding promises |
| `DecoderProofs` | proofs: declared bodies, types, ends of blocks |
| `BinaryFormatProofs` | proofs, from `DecoderProofs`: the file of a module decodes to that module |
| `Numbers` | the integer instructions on value slots, and LEB128 literals |
| `Arithmetic` | what the integer instructions promise, bit by bit |
| `NumbersProofs` | proofs: `Numbers` implements `Arithmetic` |
| `Loader` | `reset`, the nested `loadModule` calls, `instantiate`, `callFunction`'s search |
| `LoaderProofs` | proofs: all the invariants of `Loader` |
| `MCRuntime`, `MCLinearMemory`, `MCDecoder`, `MCNumbers`, `MCLoader` | instances for TLC |

Some operators follow a wrong variant (`FullLate` before `Full`): plausible mistakes in the code,
used to see that the properties notice them. `PROJECT.json` names, for each property of each passing
run, one that it catches.

### Runtime

The variables are the members of `Runtime` plus three for where `invoke` is (`phase`, `callee`) and
what it gave (`ok`, `result`). Each opcode's handler is an action: guard, stack tests, early returns and
the order of pushes and tests are those of the code. The five steps of `Runtime::invoke` are `Invoke`
(clear and push the parameters), `InvokeEntry` (push the first frame), the instructions, `Finish`
(take the result) and `Fail` (copy the trap - or not).

*No program text is modelled.* A program counter carries what WebAssembly validation knows about the
place it points to: the function, the enclosing blocks, the number of operands. A step runs **any**
instruction that valid code may have there. So one run of TLC covers every valid program over the
given functions, within the bounds on nesting and operands. These static facts appear only in guards
that say which instruction may come next (`May`, `MayBranch`, `MayReturn`) and in the invariants; no
handler reads them.

*What no handler tests is not assumed.* That an operand is there (`CodeAt`), that a value pushed has room
(`Room`), that a label a branch counts to exists (`LabelReached`), that the top frame has the local
(`LocalReached`), that a call finds its parameters (`Invokable`): where one of these fails, C++ has no defined
behaviour, and the model takes the step `Astray` to the phase `"undefined"`, of which it says nothing more
(`Gone`). A slot above the locals stack but inside its array is defined, and holds any value (`LocalRead`).

The invariants say that the dynamic bookkeeping agrees with the static facts:

- `FrameOfCode`, `LabelsOfBlocks`, `LocalsOfFrames`, `OperandsExact`: frames, labels, locals and
  operands are those of the activations, also of suspended ones.
- `Refinement`: consequently, the interpreter implements `Activations`, in which there are no saved
  sizes at all.
- `StaysDefined`: no step goes astray.
- `StacksInBounds`, `DummyBelow`: the stacks whose sizes are tested are not pushed past their arrays, no pop
  reaches the dummy frame. They speak of programs that go astray, too, up to the step that does.
- `SuccessIsClean`, `StopsAreTraps`, `FailureReported`: what the host sees. `FailureReported`: a failed call
  returns its trap as exit code, but for one whose first frame does not fit. That holds for programs without
  branches out of called functions; with them, the end of pc (`runtime.cpp:129`) and a missing result
  (`runtime.cpp:57`) are failures with exit code 0 as well. `branch_out` shows the first.

Abstractions: results of arithmetic and loads are arbitrary values (`Compare` gives 0 or 1, the traps
of division and truncation are separate actions); `nop` and the reinterpretations change nothing in
this model and have no action; the instruction pointers of a block, its `expr` and `elseIdx`, are the
static facts. All functions are as if of one module: after a branch out of a function of another module the
code would also use the wrong module's indexes. Not in the model: opcodes without a handler, which no valid
code has, and a table element whose address is not in `Store::funcs`.

### LinearMemory

`U32Size`, `PageSize` and `MaxLen` are constants with the relation they have in the code
(`2^32 = 65536 * 2^16`), so that 16 addresses in 8 pages of 2 bytes meet every boundary. The C heap is
modelled as far as the code depends on it: `realloc` may fail and leave the block, to 0 bytes it
frees it and returns null (glibc), and grown bytes are undefined until `memset`. `undefined` marks a
use of the block outside its bounds or after its end. After such a step nothing is modelled.

### Decoder and BinaryFormat

A file is a sequence of tokens, one for each `readElement`, `readLeb...` and `readName` of the code;
sizes count tokens. The stream has `pos`, `failbit` and `eofbit`, and `Consume` and `Seek` are what
`read` and `seekg` do to them. The code tests only `eof`, and only before a section: a read that fails
leaves its uninitialised variable (`junk`), and the readers go on, as the model does. Each step may find other
garbage, two values of it, for the files in `Changing`; for the others it stays the same, which gives loops over
garbage few enough behaviours for TLC. The theorems are about any `Changing`. `exprs` is the
stack of nested `readExpr` calls; `section` and `item` are the local variables of the section's reader.
Members of `Module` are the lists in `built`, with instructions that contain their blocks, and `elseIdx`
as in the code. `MaxList` ends the loops that append without end (`status = "exhausted"`);
`"undefined"` is the write behind `FuncSignature::types`.

`BinaryFormat` says what a decoder is for, from the other side. `File(m)` is the file of a module. Nested
code has no bound in the format; `Ended[depth]` (in `Decoder`) and `Spell[room]` go as deep as `MaxList` lets
`readExpr` go, as recursive functions. `Encodable(m)` says what a module may have in each section, and
`FormatAssumption` that the modules of an instance do. The properties are:

- `Faithful`: the file of a module is accepted and decodes to that module.
- `CodesEnded`: whatever the file, bodies, blocks and else parts have the ends on which the handlers of
  the interpreter rely. It holds for damaged files because `readExpr` appends an end wherever it stops.
- `CodeDeclared` and `DecoderTypeInv`: no body is written to an undeclared function, no section is read past
  its count. These three are in `Decoder`: they are about any file.
- `DecodingEnds`: for well-formed files.

### Numbers and Arithmetic

A slot of the value stack is a `union Value`: `i32` is its low half. An assignment to `i32` keeps the
upper half; a `Value(I32)` leaves it uninitialised, so the model takes any of `Stale`. Each macro of
`operation.h` is an action that makes a new `Value` or works in place, as the macro does. `last` names the
instruction that ran. `Arithmetic` has typed numbers without slots; its results are said by bits, or by the
equation that division solves. `Computes` (`Arithmetic` as a property) is the refinement: no instruction
is affected by what earlier ones left in upper halves. The machine's `&`, `|` and `^` are constants of `Numbers`;
all that is assumed of them is what they do to each bit (`BitByBit`), and the run takes those of the module
`Bitwise`, for which TLC evaluates the assumption. Literals start from every encoding of the number
that is no longer than its width needs.

### Loader

An activation in `calls` is a `loadModule` call: at its beginning, in the loop over the imports, or
waiting for the nested call. A file says whether it decodes, the name that its name section gives, its
imports, functions, tables, memories, globals, exports and segments, and which of the late steps fails.
Paths and names are sequences of parts, so that `GetModuleName` does what `getModuleName` does with
slashes and dots: a path with a directory keeps its slash. Functions in the store are known by the
identity of the `ModuleInstance` they point to; an instance that is not in `moduleIns_` has been freed.
Addresses are counted from 1 (in the code from 0), so an element that no segment has set is 1.
Files hold valid modules (`Valid`, part of the assumption on `Files`): TWA does not test indexes, and a module
that exports function 7 of 3 has no defined behaviour in it.

`StoreReplays` states what sharing means: each element of each table and each byte of each memory is what
the last loaded module wrote there, computed from `moduleIns` and the files alone. `LinkedByName` says the
same of imports. All loads, of modules that import from others or fail on the way, keep both.

## 3. Runs

| Run (cfg) | Instance | Shows |
|---|---|---|
| `interpreter` (MCRuntime) | 2 wasm functions, one with 2 parameters, 2 natives, an entry function whose locals never fit; 3 labels and 3 frames in use (capacities 4), 6 values, nesting 2, 3 operands each | all invariants, what a return clears, the order of arguments and the refinement, without the two constructs that the code gets wrong |
| `leftovers` (MCLeftover) | returns over unused operands allowed; 2 operands each, a global | what survives: all but `OperandsExact` |
| `any_branch` (MCAnyBranch) | everything valid code can do with a function of three locals and two without any: branches out of calls, leftovers, more operands than the 2 values there is room for | sizes of the tested stacks and the dummy frame, up to a step that goes astray; all causes of one occur |
| `memory` (MCLinearMemory) | a memory with a maximum of half the range | all memory properties, refinement of `ByteMemory` |
| `any_grow` (MCAnyGrow) | all 16 grow arguments | `SizesAgree` even when counts wrap |
| `decoder` (MCDecoder) | files of some 600 modules, damaged files, two values of garbage | decoding inverts `File`; ends of codes; termination |
| `numbers` (MCNumbers) | 3 and 6 bits, all operands and literals | refinement of `Arithmetic` |
| `loader` (MCLoader) | 11 files, any order of loads, calls between them | linking, liveness of exports and tables, contents of tables and memories, termination |
| `resets` (MCReset) | `:init` at any time, modules that fail late | exports never lead to freed modules |

Each of the other runs checks one property which the code does not have; TLC's counterexample is the
shortest one:

| Run | Property | What happens |
|---|---|---|
| `branch_out` | `StopsAreTraps` | a `br` to a function's own label, in a call made inside a block, ends in "end of pc" |
| `grow_frees` | `RefusedGrowKeeps` | `memory.grow(-1)` on one page frees the block |
| `renamed` | `InstantiatedOnce` | a module that its name section names differently is instantiated for every load that names its file |

Other disagreements that were met while modelling have no run of their own. They are in the models, as
the code has them:

- `return` leaves up to as many unused operands as the function has parameters (`operation.h:156`, with
  the size saved at `stack.h:167`); the `leftovers` run allows it and shows what survives.
- After a `br` out of a called function the frame on top is not that of the code that runs. `set_local` then
  writes through that frame's `locals`, which are null or another function's when it has none of its own
  (`operation.h:227`, `runtime.cpp:86-93`), and a branch can count below the labels (`operation.h:96`). The
  `any_branch` run meets both, as steps to `"undefined"`.
- `pushValue` (`stack.h:154`) never tests for room. The array of the values has 65536 places (512 KiB), that of the
  frames about 4700: a recursion in which each function holds 14 operands just fits, one with more writes past
  the array before the frames are full. `NeverAstray` has the condition as a hypothesis (`EnoughValues`).
- A first frame that does not fit gives exit code 0 and an uninitialised result (`runtime.cpp:51`).
- `op_load_impl` and `op_store_impl` (`operation.h:260`) trap for every address from 2^31, also inside
  the memory. The `memory` run has a memory of at most half the range for that reason.
- A memory declared with maximum 0 grows (`store.h:98` reads 0 as no maximum).
- A file of any version is accepted (`decoder.cpp:34` and `:39`).
- A name section that is cut off, and code that is cut off unless garbage happens to be an end, are read
  without end (`decoder.cpp:96`, `:392`). An invalid opcode is not an error (`decoder.cpp:419`), nor is a
  declared function without a body, whose local count is uninitialised (`module.h:17`).
- After a nested load that failed, `loadModule` reads through `moduleIdx_.end()` (`application.cpp:66`).
- After `:init` the modules loaded before are "loaded already" (`application.cpp:20` keeps `moduleIdx_`).
- A module whose second segment does not fit, or whose start function traps, leaves functions of a
  freed instance in a shared table (`instantiation.cpp:98`).
- An initialiser that is not a constant is 0 (`instantiation.cpp:142`), an element never set is
  function 0 (`store.h:54`), and a negative segment offset that the segment bridges is written far behind
  the end (`instantiation.cpp:92`).
- The name made from `d/lib.wasm` is `/lib` (`application.cpp:189`), that from `lib` is `li`.

### Why the bounds are enough

*Interpreter.* All handlers look at the top label, the top frame and the sizes of the stacks, so a step
relates a function and its caller. With capacities of 4, two activations run at a time above the dummy
frame, and a third is refused; three labels are in use: a caller's body with a block in it and the callee's body, or
the caller's body and the callee's with a block. A fourth is refused. Every overflow test is met from both sides.
Deeper stacks are the matter of the theorems. `MaxHeight` and `MaxDepth` bound the programs (operands a function
holds, nesting). `ValueCap` is the capacity of the values: 6 in `interpreter` is exactly what `EnoughValues` asks
for, so one push more than the code makes would not fit; in `leftovers` and `any_branch` it is small,
so that piles of leftovers end there, astray.

*Memory.* 16 values of an address with pages of 2 bytes: accesses of 1 and 2 bytes at the end of the
memory, at half the range and around the wrap. `any_grow` may stop: after undefined behaviour there
is no step (`CHECK_DEADLOCK FALSE`).

*Decoder.* Every reader is used by the module with all sections, and every shape of immediates by a body;
blocks nest two deep with both forms of `if`, so that each `readExpr` returns to a reader with
instructions before and after it. Damaged files are cut at every token. `MaxList` (12) is above what any of the
well-formed files needs, and reached only by loops without end. `Garbage` has one value that is an end and one
that is not; it changes from step to step for the damaged files of all lengths but those where that makes millions
of behaviours of a loop without end (`Endless`). Decoding ends, so the run may stop (`CHECK_DEADLOCK FALSE`).

*Numbers.* With 3 and 6 bits, signs, carries, shift counts from 0 past the width, and encodings of
one and two bytes all occur; `MaxHeight` is 2 because no instruction takes more operands. The stale upper half
is 0 or has bits of both values.

*Loader.* `MaxMade` bounds how many instances the host asks for, not what a load does; the largest
program in `GoodFiles` needs three nested loads, two of them through one import list. Tables of 2 elements and memories of 3
bytes are overwritten by segments of several modules. `resets` may stop where the code reads through an
invalid index (`CHECK_DEADLOCK FALSE`).

### Fairness

`Loader` has `WF_vars(Step)`: `loadModule` is a synchronous call in a single thread, so
a step of the innermost call is taken whenever there is one; nothing forces the host to ask for
loads. `LoadsEnd` needs it and is checked for files without circular imports. `Decoder` has
`WF_vars(Next)`: `decodeStream` is one thread that waits for nothing. The interpreter has no
liveness property: programs may loop forever.

## 4. Proofs

Each theorem holds for all values of the constants that satisfy the named assumptions of its module and the
hypotheses below: any functions, nesting, capacities, files, page sizes. `[]P` stands for `Spec => []P`.

| Module | Theorem | Shows | Hypotheses |
|---|---|---|---|
| `RuntimeProofs` | `TypeCorrect` | `[](TypeInv /\ DummyBelow)` | |
| | `StacksBounded` | `[]StacksInBounds` | |
| | `CodeOfFrames`, `BlocksLabelled`, `LocalsConcatenated` | `[]FrameOfCode`, `[]LabelsOfBlocks`, `[]LocalsOfFrames` | `~BrOut` |
| `RuntimeOperands` | `OperandsFound` | `[]OperandsAvailable` | `~BrOut`, `NativesAsTyped` |
| | `StopsForTraps`, `FailuresReported` | `[]StopsAreTraps`, `[]FailureReported` | the same |
| | `OperandsCounted`, `ReturnsClear` | `[]OperandsExact`, `ReturnClears` | the same, `~LeftoverReturn` |
| | `NeverAstray` | `[]StaysDefined` | the same, `~LeftoverReturn`, `EnoughValues` |
| | `SuccessClean` | `[]SuccessIsClean` | |
| `RuntimeImplements` | `ImplementsActivations` | `Refinement`: `Runtime` implements `Activations` | those of `NeverAstray` |
| `LinearMemoryProofs` | `MemorySafe`, `RefusalsKeep` | `[]BlockSafe`, `RefusedGrowKeeps` | `NoWrap` |
| | `SizesTrue`, `MemoryTyped` | `[]SizesAgree`, `[]MemoryTypeInv` | `SmallerStart` |
| | `MaximumKept` | `[]MaxKept` | a declared maximum is not 0 nor below the minimum |
| | `MemoryImplements` | `MemoryRefinement`: `LinearMemory` implements `ByteMemory` | `NoWrap`, `HalfRange` |
| `DecoderProofs` | `BodiesDeclared`, `DecoderTyped` | `[]CodeDeclared`, `[]DecoderTypeInv` | |
| | `CodesHaveEnds` | `[]CodesEnded` | |
| `BinaryFormatProofs` | `DecodingInverts` | `[]Faithful` | |
| `NumbersProofs` | `NumbersTypes` | `[]NumbersTypeInv` | |
| | `NumbersCompute` | `Computes`: `Numbers` implements `Arithmetic` | `Masks` |
| `LoaderProofs` | `LoaderTyped`, `ExportsAlive` | `[]LoaderTypeInv`, `[]ExportsLive` | |
| | `NamesIndexed`, `LinksByName` | `[]IndexNames`, `[]LinkedByName` | `~Resets` |
| | `LoadedOnce` | `[]InstantiatedOnce` | `~Resets`, `OwnNames`, `FlatImports`, `Ranked(rank)` |
| | `StaysInBounds` | `[]Defined` | `~Resets`, `OwnNames`, `ImportsLoad`, `InPlace` |
| | `TablesAlive` | `[]TablesLive` | `NothingLeft` |
| | `SharedAsWritten` | `[]StoreReplays` | `CleanLoads` |

### The hypotheses

Each excludes a situation in which the code does not keep the property. All hold of the instance that the passing run of
the same property checks (those of `RefusalsKeep` of the `memory` run), so none is empty.

- `~BrOut`: no branch to the body of a called function. `branch_out` is the counterexample.
- `~LeftoverReturn`: a function with parameters returns with no more operands than its result; otherwise
  operands stay behind, and `OperandsExact` is false.
- `EnoughValues`: the array of the values has room for `MaxHeight` operands for each activation that the array of the
  frames admits. The code does not see to it: with the sizes it has, a deep recursion of functions that hold 15
  operands breaks it.
- `NativesAsTyped`: natives that the host calls or a table holds have the type `[] -> []` with which all are
  registered (`native.h:19`). Others pop what nobody pushed.
- `NoWrap`: a memory begins with a page or more, declares a maximum, of at least that and below the address range, and `memory.grow`
  gets no argument that wraps the page count with it. `grow_frees` is the counterexample. `HalfRange`: the
  memory stays below 2^31 bytes, from where addresses are negative to the code. `SmallerStart`: it does not
  begin with all of the 2^32 bytes, which is a byte count of 0.
- `Masks`: the machine reduces the count of a shift to the width of the operand. The code does not
  (`operation.h:618`), and in C++ a shift by the width or more is undefined.
- `~Resets`: no `:init`, which clears the modules but not their names. `ExportsAlive`, `TablesAlive`,
  `LoaderTyped` and `SharedAsWritten` hold with it.
- `OwnNames`: a name section gives the name made from the path; `renamed` is the counterexample. `FlatImports`:
  no import's module name contains a slash. `Ranked(rank)`: imports have no circle; `rank` is any numbering of
  names that shows it.
- `ImportsLoad`: what a file imports from is a native module, or a file that loads and exports it; so `Resume`
  has a module to read. The importing file may fail in every other way. `InPlace`: no segment begins at a
  negative offset and reaches back over the beginning, which the test lets pass (`instantiation.cpp:92`).
- `NothingLeft`: a file whose elements are written loads. `CleanLoads`: a file that does not load writes
  nothing. Instantiation never takes back what it wrote.

### The interpreter

`TypeInv` is not inductive: a handler that pops the frame stack could pop the dummy frame and then
read a program counter or a module that is not there. `TypedStacks` adds `DummyBelow` - the dummy frame
is at the bottom and the outermost activation returns to the null program counter - and is
inductive. The proof has one lemma per group of handlers and one step per handler in it; general
lemmas on sequences (appending, cutting, elements) come first.

`StacksInBounds` needs to know that labels and frames have room for one more element *whenever an
instruction runs*, and that there are no labels and only the dummy frame when the first frame is
pushed (`Bounded`). Both theorems hold for branches out of called functions and returns over
leftovers too, up to the first undefined step: what such a step writes, and where, is not in the model.

`FrameOfCode`, `LabelsOfBlocks` and `LocalsOfFrames` need each other, and more: `Nested` adds that sizes saved by deeper
frames are larger (`Ordered`), that the end behind a body is reached in the outermost activation only, and that a
caller goes on in the middle of its code. `Active(i)` says of each frame that it is that of its code (`Well`). The
proof sorts the actions into four kinds, each with a lemma: an instruction that stays in its activation, a call,
a return, and a trap or an end.

`Operands` says the same of the value stack: the height at each label, the operands of suspended callers less
the result they wait for, bases of deeper activations that do not fall (`Rising`). Leftovers make the stack
larger, never smaller: `Slack(size, counted)` is `>=` with them and `=` without, so that one induction serves
`OperandsAvailable` and `OperandsExact`.

`NeverAstray` puts these together: from the operands, labels and locals being those of the activations, one lemma
for each way to go astray shows that it is closed (`PlainReady`, `BranchReady`, `ReturnReady`, `CallsReady`). For
the room of the values, bases of activations rise by at most `MaxHeight` each, and fewer than `FrameCap` frames are
there when an instruction runs (`RoomForAll`). `Outcome` is what the host sees; it needs only that `trap_` and
`exitCode_` are clear while an invocation runs.

`ImplementsActivations` is the step simulation with `TypedStacks /\ Nested /\ Operands` at hand, where no step
goes astray. The refinement
mapping cuts `values` and `locals` at the sizes saved in the frames. An instruction that stays in its
activation maps to `Work` of the abstract machine, a return to `Return`, a first frame or a call to `Start` or
`Call`; a step that stops maps to `Trap` or `Refuse`; `Invoke` and `Finish` are stutters. That a step leaves
the *other* activations alone in the abstract state is where the cuts must not move: the part of the concrete
stack below the top activation's base is a prefix that the step keeps.

### The memory

`MInv` (under `NoWrap`): the page count is between 1 and the maximum, the two sizes and the block agree, the block is alive.
`Sized` needs no bound on the arguments: even a page count that wraps is turned into a byte count, and `memset`
and the block use the same; only that the block survives is lost. Both need that products of page counts below
`MaxLen` do not wrap. `MemoryImplements` adds what an address is: below half the range the signed number popped
and the unsigned address are the same, above it the code traps as `ByteMemory` does, since no memory is there.

### The decoder

`BodiesDeclared` is about every file: `readSection_code` compares the number of bodies with the functions
once and then writes in a loop, while nested readers consume the stream. `CodeDeclared` is not inductive: it says
that `next <= size`, but writing the local count and the codes of a body needs `next < size` while an
expression is read, and nothing in `CodeDeclared` keeps the sections apart. `DInv` adds `Typed` (positions and counts are
natural numbers, lists are sequences - of what does not matter, so `IsSeq` quantifies over the set of
elements) and `Nested`: an expression is read only inside an item of a section that has expressions,
with `next < size`, and between sections there is none. One lemma per reader gives the type of the
position it returns, one per group of actions the step. `DecoderTyped` uses the same and `Counted`.

`CodesHaveEnds` is about nesting. `CodesEnded` wants every list that is kept to be in `Ended[MaxList]`; its
inductive form, `ListsEnd`, also says what the nested calls of `readExpr` hold: the instructions of the call at depth
`j` have blocks from `Ended[MaxList - j]` (`ReaderEnds`), so that when it returns, with an end appended, its list is a block
of the call outside. `InExpr` keeps the depth below `MaxList`, so there is always a level left. `ListClosed` is that
return, `ElseReplaced` the search for the else: what becomes an end has an instruction behind it, because the list
ended with an end before. That the recursive function `Ended` exists is itself proved (`EndedDef`): from functions
that satisfy its equation up to a depth, by induction on a *set* of numbers, as below for the loader.

`DecodingInverts` has no hypothesis but `FormatAssumption`, which says what a module is. `Faithful` speaks of the
end only; the invariant `Follows(m)` says of every moment where the decoder stands in the file of `m`: before the
header, between the sections `k` and `k + 1`, at one of five places of the name section, between the items `n` and
`n + 1` of a section, or in an expression of one. At each place it says what has been built (`ReadUpTo`, `Partly`,
`Begun`) and that what is `Ahead` of the position, up to the end of the file, is the encoding of exactly what has
not been built. In an expression `Stacked` does so for the nested calls of `readExpr`: call `j` has read the first
instructions of the list `lists[j]`, the next of which is the block that call `j + 1` is reading, and `more[j]` is
ahead after the list. So a reader that took a token too many or too few would leave its successor at a place that
is none of these. The proof first inverts every reader (`PlainRead`, `HeadRead`, `ImmRead`), then has a lemma for each
place and each step from it. That the decoder neither fails nor runs out of memory on such a file is part of it. What
holds of whole sequences - a concatenation of encodings, the sum of locals - is again induction on a set of numbers.

### The numbers

`NumbersCompute` is a simulation, step by step, whose invariant is only that slots have their types: what is hard is
that each instruction's result is the one that `Arithmetic` says, for every width. The code computes with
numbers, `Arithmetic` says most results by their bits, so the proof goes between the two:

- *Numbers to bits.* `DivUnique` (a quotient and remainder are the only ones) gives how division, remainder, products
  with powers of two and addition above a power act on bits (`BitDiv`, `BitMod`, `BitTimes`, `BitPlus`). Powers have to
  be reasoned about by what defines them here: 2^n is how many subsets `1..n` has (`PowCard`).
- *Bits to numbers.* `SameBits`: a number below 2^w is known by its w bits. `BitsSum`: it is the sum of them. A sum over
  a set is a recursion through `CHOOSE` in the library; `SumIs` says it by counting pairs, which does not depend on
  the order.
- *Instructions.* From there on, one lemma each: `AndResult`, `ShlResult`, `ShrSResult` (whose argument may be
  negative), `RotlResult` (two parts with no bit in common, `Rotated`), `CountedResult`, `SignExtIs`. Division is by
  its equation: `CutDivIs` says that the quotient of C++ solves it, `QuotientIs` that nothing else does.
- *Literals.* `SumOfEncode`: the bytes of an encoding, of whatever length, add up to the number modulo the bits they
  hold; `ReadSigned` that the sign is filled in from where they end.
- *Slots.* `NewIs` and `AssignIs`: what is put into one half is read from it, whatever the other holds.

### The loader

- `IndexInv`, `LinkInv`: an activation that found its imports so far holds as many links, each to what a loaded
  module exports under that name (`CallOk`); further modules do not undo a link, because the table of modules
  only grows while nothing is reset. A nested load that succeeds makes the caller start over; one that fails
  leaves the table as it was.
- `OnceInv(rank)`: every loaded module is in `moduleIdx_` at its own place, nested activations load modules of
  falling rank and hence of different names, and what they load is not there yet.
- `StoreInv`: what activations hold and instances export are addresses in the store, and functions of instances that exist
  (`ExternOk`); instances that failed own functions that nobody refers to. This needs that addresses computed
  from the imports and the own definitions are those of the entries the store gets.
- `DefinedInv`: `LinkInv` and `StoreInv`, that instances export what files of their name offer, and that an activation
  which waits for a nested load will be told `true`.
- `ReplayInv`: `StoreInv`, and cell by cell `StoreReplays`; an instantiation either leaves a cell or writes what its
  last covering segment says, and then it is the last writer.

Two facts are inductions over data: that `Imported` keeps exactly the imports of a type, in order, and that a
nonempty set of positions has a last one. The library's induction theorems have an operator as a parameter, which
the provers in use cannot instantiate; `SetInduction` states induction for a *set* of numbers instead, and is
proved from the theorem that the order of natural numbers is well founded (`WFMin`, `NatLessThanWellFounded`).

### Only model-checked

The two liveness properties, `LoadsEnd` and `DecodingEnds`: fairness and ENABLED are out of the prover's reach. Every
other property of the passing runs is stated by a theorem.

## 5. Not modelled

- Floating point, the conversions to and from it, and what is printed or formatted. Out of TLC's reach.
- What WASI functions other than `proc_exit` write to memory (they return 0), at addresses they do not
  check (`bind/wasi_module.cpp:27`).
- Text: the splitting and unescaping of commands, arguments of calls made from strings (`main.cpp`,
  `application.cpp:127-148`); the conversions of names to bytes in files.
- `decodeBytes`, which nothing calls; `TableInstance::grow`, which nothing calls; the release of instructions
  (`instruction.cpp`); the timer.
- What an execution does after undefined behaviour.

## 6. Plan

Done: the interpreter, the memory, the decoder, the integer instructions, the loader, and the theorems above, which
state every property of the passing runs but the two on liveness.

1. Theorems: weaker hypotheses for `LoadedOnce` and `StaysInBounds` (imports in a circle that a loaded module
   breaks); that the decoder reads to the end of a section with the number of items it announced.
2. `Session`: loader and interpreter together: start functions, calls after a failed load, calls through
   tables whose elements were never set.
