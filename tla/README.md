# A formal model of XCC

XCC is a C compiler for x86-64 in C: a driver (`xcc`) runs a preprocessor
(`cpp`), a compiler (`cc1`) and an assembler (`as`) as processes joined by
pipes. This directory models it in TLA+, checks the models with TLC on small
instances and proves the central facts with TLAPS for every instance.
Paths below are relative to the repository; `src/cc/regalloc.c:390` is line
390 of that file.

## The system

```
             xcc (src/xcc)           starts, pipes, waits, kills
      cpp  ──pipe──>  cc1  ──pipe──>  as
      src/cpp         src/cc          src/as
   #if, #include    lexer, parser    parser, encoder
   macros           types, scopes    layout, resolution
                    code generation  sections, ELF
                    registers, frame
             src/util: tables, vectors, buffers
             src/lib:  the C library of compiled programs
   wasm/src: the same parser with another back end, which writes WebAssembly
```

| Component | State it keeps | Operations | What is hard | What makes it correct |
|---|---|---|---|---|
| driver, `xcc/main.c` | process ids, a count of running children, pipe ends, `res` | start, feed, wait, kill, conclude | children end in any order or fail at any time; every later child inherits pipe ends; a failing fork | everyone ends; status 0 only for a complete output; no output after a failure; only live children are killed and waited for |
| preprocessor, `cpp/preprocessor.c` | stack of conditions with two flags for the whole nest, streams, line numbers, macro table | a directive, a line | nesting of skipped conditions, includes that end inside one, line numbers kept in several places | what is written is what the standard makes of the files; tokens are reported on their lines |
| macros, `cpp/macro.c`, `pp_parser.c` | macro table, arguments | define, match, expand, evaluate a condition | arguments and bodies that name macros; text that is read again; calls over several lines | replacement as the standard has it |
| lexer, `cc/lexer.c` | a queue of tokens handed back | match, consume, unget | peeking after handing back | tokens come once and in order |
| parser, types, scopes, `cc/parser*.c`, `type.c`, `var.c` | scope chain, tag and typedef tables | declarations, expressions, initialisers | shadowing, brace elision, flexible arrays | names resolve to the innermost declaration; members do not overlap |
| code generator, `cc/codegen*.c` | current block, targets of `break` and `continue`, cases | one function per statement and operator | control that leaves in the middle, calls within calls | the blocks form the program's control flow |
| register allocator, `cc/regalloc.c` | per block sets of live registers; live intervals, active list, bit sets; frame offsets | liveness, intervals, scan, living registers at calls, frame | several passes, each trusting the numbering and rounding of the ones before | a value that is read is the one that was written |
| emission, `cc/ir.c`, `emit_code.c` | stack depth (`stackpos`), saved registers | PRECALL, PUSHARG, CALL, ADDSP, prologue | caller and callee are compiled apart | arguments arrive, registers survive, the stack is aligned and balanced |
| assembler, `as/*.c` | items with addresses, label table, unresolved list, section buffers | assign addresses, lengthen jumps, emit, write | addresses depend on lengths and lengths on addresses; the same address is computed in three places | it ends; operands lead to their labels, in memory and in the file |
| WebAssembly back end, `wasm/src/*.c` | indices of functions, globals and table entries, depth of blocks, the module's bytes | traverse, number, generate, write sections | numbers agreed between passes over hash tables; relative depths of branches; structured control; LEB128 | the module validates, and main does what its source says |
| table, `util/table.c` | open addressing with tombstones | put, get, delete, iterate | probes across tombstones, growth | it is a map, and every probe ends |
| allocator, `lib/umalloc.c` | circular free list in address order, roving start | malloc, free, realloc | joining neighbours, gaps between sbrk areas, failure | blocks are disjoint; nothing is lost; memory that is free is found |

The parts meet in four ways. Processes share pipes (driver). The passes of
`cc1` run one after another over shared data structures (`RegFlow`, then
`LinearScan`, within `RegAlloc`; the trees of `Typing` go to `CodeGen` or to
`WasmGen`). Two functions compiled apart share a calling
convention only (`CallFrame`, `FrameLayout`). The assembler's passes share the
list of items (`AsmLayout`). There are no threads and no signals besides
`SIGKILL`.

## The modules

| Module | Code | Composition |
|---|---|---|
| `LinearScan` | `linear_scan_register_allocation`, `regalloc.c:59-120,178-243`; the bits of `detect_living_registers`, `regalloc.c:419-442` | |
| `RegFlow` | `analyze_reg_flow`, `regalloc.c:351-416` | |
| `RegAlloc` | `convert_3to2`, `check_live_interval`, the calls' part of `detect_living_registers`, `insert_load_store_spilled`, then execution of the result | extends `RegFlow` and `LinearScan`, its first passes |
| `RegAllocProofs` | | extends `RegAlloc`; the proofs about its passes too |
| `FrameLayout` | `prepare_register_allocation`, the frame part of `alloc_physical_registers`, the prologue's `put_args_to_stack` | |
| `FrameLayoutProofs` | | extends it |
| `CallFrame` | `gen_funcall`, the call instructions of `ir_out`, and the callee's view of its arguments | |
| `CallFrameProofs` | | extends it |
| `CTypes` | sizes and alignments of `type.c`, and two's complement | |
| `CSource` | none: programs and what C says they do (the promise) | extends `CTypes` |
| `Typing` | the typed trees of `parser_expr.c` and `parser.c` | extends `CSource` |
| `CodeGen` | `codegen.c`, `codegen_expr.c`, the constructors of `ir.c` | extends `Typing` |
| `Syntax` | none: how the functions of an instance are written | extends `CTypes` |
| `BasicBlocks` | `remove_unnecessary_bb`, `ir.c:1337-1412` | |
| `BasicBlocksProofs` | | extends it |
| `Compile` | `gen_defun`, `ir_out`, then execution of the result | extends `CodeGen` and `BasicBlocks` |
| `WasmGen` | `wasm/src/traverse.c`, `wasm/src/gen_wasm.c` | extends `Typing` |
| `Wasm` | indices and addresses of `traverse.c`, the sections of `wcc.c`, `emit_wasm`; then validation and execution by an engine | extends `WasmGen` |
| `CppText` | texts as pieces; tokens of `lexer.c` | |
| `PpParser` | `macro.c`, `pp_parser.c`, the bodies of macros | extends `CppText` |
| `CppMeaning` | none: what the standard makes of files (the promise) | extends `CppText` |
| `Preprocessor` | `preprocessor.c`, `cpp.c` | extends `PpParser` and `CppMeaning` |
| `AsmLayout` | `calc_label_address`, `resolve_relative_address`, `emit_irs`, `fix_section_size`, output of `as.c` | |
| `AsmLayoutProofs` | | extends it |
| `Driver` | `xcc/main.c`, with children and pipes | |
| `DriverProofs` | | extends it |
| `NameMap`, `Table` | `util/table.h` (promise), `util/table.c` | `Table` implements `NameMap` |
| `TableProofs` | | extends `Table` |
| `Heap`, `Umalloc` | `malloc`, `free`, `realloc` (promise), `lib/umalloc.c` | `Umalloc` implements `Heap` |
| `UmallocProofs` | | extends `Umalloc` |
| `MC...` | instances for TLC, `MCDefun` those of `BasicBlocks` and `FrameLayout` | |

Conventions. Names are the source's where TLA+ allows it. A position in an
array is 1-based in TLA+ (block 1 is `bbs->data[0]`); addresses, registers and
instruction numbers keep their values. A definition that stands directly
before one whose name it extends (`ExpiredPrefixEager` before
`ExpiredPrefix`, `StopsNever` before `Stops`) is a mistaken version of it. No specification uses these: they are the
slips the properties have been tried against, and PROJECT.json pairs each
property with one that it catches.

### Registers: `RegFlow`, `LinearScan`, `RegAlloc`

`RegFlow` has an action per iteration of each loop of `analyze_reg_flow`:
`Enumerate` computes a block's used and assigned registers, `Propagate` one
step of the backward pass, restarted while a set grew. Programs are arbitrary
blocks; an instruction keeps its operands and where it jumps. `LivePoints` is an
independent definition of liveness, point by point on the paths of execution,
and `SetsAreLiveness` compares the two at the step on which the analysis ends
(`FlowIsLiveness`).

`LinearScan` has one action per way an iteration can end: `Skip` (spilled
beforehand), `Assign`, `SpillActive` (an active interval gives its register
up), `SpillNew`. `active` is a sequence per register file and `using` and
`used` are the bit sets; expiry is part of every action, as in the loop. The
sort is modelled by what it ensures (starts ascend); ties are left open
because the comparator is not an order. `LivingPregs` is what
`detect_living_registers` holds after each instruction, interval by interval, with
the bits of both files.

`RegAlloc` runs both as the compiler does, numbers the instructions (`Nip`),
computes intervals, spills the parameters by force, stores the living registers
(`LivingPregs`) of the calls and the loads and stores of spilled registers; where both
operands of an instruction are spilled the compiler stops (phase `abort`). What
the code writes into the instructions or inserts between them is kept beside
the program (`living`, `loads`, `stores`), so that an instruction keeps its
number; one step executes it with its loads before and its stores after it. Then
it *executes* the function on every path: `regs` holds the virtual register
whose value each physical register contains, `frame` the same of the places on
the stack, and a call destroys the caller-save registers that it does not save
and the one through which spilled values pass. `ReadsOwnValue` says that a read
finds its value.

### Calls and frames: `CallFrame`, `FrameLayout`

`CallFrame` executes the instructions one call compiles to over a memory of
four-byte cells, possibly with a second call inside an argument, and lets the
callee, from the parameter types alone, look where each parameter should be.
Values are tokens (call, argument), so that a wrong place shows as a wrong
token. `FrameLayout` follows the two loops that reserve places, the second in
any order of its intervals, and computes what the prologue stores where.

### From source to execution: `CSource`, `Typing`, `CodeGen`, `BasicBlocks`, `Compile`

A program is a list of statement nodes over a few typed variables. `Run` in
`CSource` says what it means in C, by recursion on the source: the calls it
makes with their arguments, the value it returns, the memory it leaves.
`Parse` and `ParseStmt` in `Typing` build the compiler's typed trees,
one operator per function of the parser (`MakeCast` is `make_cast`, `AddSub` is
`new_expr_addsub`, `Cmp` is `new_expr_cmp`...). `GenStmt` and
`GenExpr` in `CodeGen` turn them into blocks of instructions; where the code
numbers registers and blocks from a counter, the model names them by the path
of the tree node that asks for them.

`BasicBlocks` takes the blocks of a function (`Generated`), drops the unnecessary
ones with one action per way a round of the inner loop of `remove_unnecessary_bb`
can end (`RemoveEmpty`, `RemoveJump`, `KeepBlock`) and one for its repetition
(`ScanAgain`), and hands them to the assembler (`Assemble`, phase `assembled`, or
`rejected` where a label is undefined). It knows nothing of instructions but
which are jumps, so it can be given any blocks. `SameFlow` compares those left with
those generated, block by block: the same instructions but for the jump at the
end, and for each of the 32 ways a comparison can turn out (`Outcomes`) the same
way out, or one that leads on from it through blocks that do nothing
(`Passages`).

`Compile` gives it the blocks that the code generator makes and carries out
what it leaves, with one action per kind of instruction of `ir_out`. Registers
here are virtual ones; that sharing machine registers keeps their values is
`RegAlloc`'s matter. A register keeps what a narrow write leaves in its upper
bytes (`Junk`), so that a missing conversion shows. `MeansSource` compares the
two ends.

`Code` and `Meaning` are constants that an assumption defines (`CodeAssumption`,
`MeaningAssumption`): they are computed once for all programs.

### WebAssembly: `WasmGen`, `Wasm`

`WasmGen` starts from the trees of `Typing`. `traverse.c` rewrites them until an
assignment has no value and every place is written through a variable;
`gen_wasm.c` turns them into a tree of instructions, the numbers in them as the
bytes the code writes (`Leb128`; `OfByte` for the depths of branches). `Wasm` numbers
functions and globals in the order in which the hash tables give them (`TableOrders`), lays out
the linear memory, takes the module as an engine does (`Validates`: operand types
and depths of the structured code) and runs it with one action per kind of
instruction, on a stack of values, locals and memory. What is outside the module
notes its arguments. `WasmMeansSource` compares the end with the meaning of
`CSource`, the one that `Compile` is measured against. `Built` and `Meaning` are
constants that assumptions define.

### Preprocessor: `CppText`, `PpParser`, `CppMeaning`, `Preprocessor`

A file is a sequence of lines, a line a sequence of pieces (tokens, blanks, marks
of comments); a token of several fragments can come from `##`. `Preprocessor` has
one action per kind of line: a directive that opens, divides or closes a
section, one that defines, includes or gives up, a line of text up to the next
name, the expansion of a name, the end of a stream. `streams` is the stack of
nested `preprocess` calls, each with its own file, conditions and line number;
`out` is what is written, behind the markers that say where it comes from.
`CppMeaning` says what the standard makes of the same files, on tokens, without
streams or flags. `ExpandsAsMeant` compares the two when the program ends, and
`LinesInStep` where each token is reported to stand.

### Assembler: `AsmLayout`

A program is a list of items for each of the four sections: code, data, label,
alignment, jump, call, address (`lea`), pointer (`quad`), value (`.byte`, `.word` or
`.long` of a label), zeros; addresses, pointers and values may add a constant to
their label. One action is
a whole call of `calc_label_address`, `resolve_relative_address`, `emit_irs`
or `fix_section_size` in the order of `as.c:571-590`, with `settle1` and
`settle2` deciding whether the first two repeat. The size of an item replaces
its bytes. The linker is external: `LinkedValue` is what it stores for a
relocation.

### Driver: `Driver`

Each step of `main`, `compile` and `cat` that another process can observe is
an action, and so is each read, write, exit and death of a child. `readers`
and `writers` say who has which end of a pipe open; a fork copies them
(`Forked`), an exit drops them. Data is a sequence of numbered chunks, so that
what `as` took can be compared with what the files hold. `cpp` and `cc1` may
fail at any time, before or between their writes (`Cc1Error`: also at an assertion
in the middle of the output), `cat` at a read in the middle of a file
(`CatReadFails`) or at a short write to the output (`CatWriteFails`). In the command
lines of the run that have these failures, `as` may be unable to start or die early
(`AsError`), any `fork`, the assembler's included, may fail (`ForkFails`), and the
output may not open (`OpenFails`). A short write, a `fork` or an output that fails
ends `xcc` at once (`ExitAtOnce`), and its children are left to themselves.

### Table and allocator: `Table`, `Umalloc`

Both take one step per iteration of a loop of the code: one probe in
`find_entry`, one moved entry in `adjust_capacity`, one list node in `malloc`'s
and `free`'s searches. `Call` accepts a request and the step that ends an
operation produces its result. The abstract modules take the operation in one
step; the refinement maps every other step to a stutter. In `Table` the hash
of a name is a constant, so collisions are chosen; in `Umalloc` the unit is one
`Header`, and a block is its header's unit and its payload, which may be empty.
`realloc` of nothing is `free` and `realloc` of `NULL` is `malloc` (`Delegated`);
`free` of `NULL` returns at once (`FreeNothing`).

## What the runs check

Every run is exhaustive for its instance. None takes more than five minutes.

| Run | Instance | Properties |
|---|---|---|
| `reg_alloc` | (a) all functions of 2 blocks of 2 instructions and a jump, entered at the top or at the condition of a loop, 3 virtual and 2 physical registers, parameters and calls included, without dead assignments at block starts; sums of two registers and negations; (b) all flow graphs of 3 blocks with at most one instruction and one jump each; (c) all sorted quadruples of: any integer interval on 4 points, some floating-point ones, some spilled beforehand, unused; 2 integer and 1 floating-point register | `FlowIsLiveness` (equal to the definition by paths); `NoSharedRegister`; `UsedCoversAssigned` (what the prologue saves); `SpillsFurthestEnd` (what a spilling step may do); `LivingMatchesIntervals`; `ReadsOwnValue`; `AllocationEnds` |
| `reg_alloc_dead` | (a) and (b) with dead assignments | `ReadsOwnValue` is violated: departure 1 |
| `call_frame` | all calls of up to 3 integers, doubles, 16-byte structs, 2+1 argument registers, one of 4 inner calls, every set of living registers, both parities of the frame | `ArgsArrive`; `StackAccounted`; `LivingKept` |
| `call_frame_flonum` | the same without the proviso on the order of types | `ArgsArrive` is violated: departure 2 |
| `defun_passes` | (a) all 6859 functions of 4 blocks: nothing, work, a jump to any block (always or on a condition, with work before it or without), or a goto and a jump, and at last the block where the function is left; (b) all functions of up to 3 parameters and 2 locals, 2+1 argument registers, every order | `FlowIsKept` (dropping blocks changes nowhere what the function does); `SlotsDisjoint`; `SlotsInFrame`; `ArgumentsStored` |
| `compile` | of 1075 functions the 945 that the language admits and that end within the bounds: every binary operator on 8 places and 13 operands of four types, every compound assignment and unary operator, 16 conditions used in 12 ways, 900 nestings of two statements around a leaf, switches on every kind of place, gotos into and out of loops | `MeansSource` (the code does what the source means); `ReadsAreDefined` (registers and flags are written before they are read); `TargetsExist` (no jump to a dropped block); `Ends` |
| `wasm` | some 460 mains: every operator on operands of each type and place, every use of a condition, assignments and `++` on places that lead through effects, aggregates, calls with none, one and more variadic arguments, every pair of nested statements with `break`, `continue` and `return` inside; each under two orders of the hash tables | `WasmMeansSource`; `Validates` (operands and results on the engine's stack, branches that name a block); `StackRestored` (the pointer to the stack in memory, on every way out); `WasmEnds` |
| `preprocessor` | some 4200 inputs: four lines that may open, divide or close a section inside another; every pair of operators in a condition; every pair of uses of eight macros before and after an `#undef`; files that include each other from two directories with six kinds of guards; text over several lines | `ExpandsAsMeant`; `LinesInStep` |
| `asm_layout` | every order of 2 jumps, 2 labels, code, alignment, with 3 choices of the other sections, sums of a label and a constant among them, to both kinds of output | `OperandsReachTargets`; `AlignedAsAsked`; `LayoutAgrees` (labels against buffers); `FileMatchesMemory` (file offsets against headers); `LayoutEnds` |
| `driver` | 7 lists of up to 3 files in 3 modes, cpp, cc1, cat, fork and the opening of the output failing; 3 lists with as dying | `ZeroMeansComplete`; `Cc1SeesWhole`; `FailureLeavesNoOutput`; `PidsAreChildren`; `EveryoneEnds` |
| `table` | any sequence of operations on 4 names in tables of up to 9 entries | `ProbeEnds`; `ImplementsMap` |
| `umalloc` | any sequence of requests, of nothing and of `NULL` among them, on 9 units of heap | `EveryUnitOnce`; `FailsOnlyWhenFull`; `IsHeap`; `Returns` |

Why the bounds are enough:

- *Registers.* Two integer registers and four intervals allow a spill of an
  active interval, a spill of the new one and reuse after expiry in the same
  run; smaller files would make some of them impossible, larger ones add no
  branch of the code. One floating-point register makes the two limits
  (`phys_max`, `fphys_max`) differ, and the number that marks a spilled
  register is one of them.
- *Blocks.* Three blocks have loops, nested loops, irreducible graphs and
  unreachable blocks. The second loop of the analysis depends on the order of
  blocks, and all six orders of a graph are among the programs.
- *Functions for the allocator.* Two registers for three virtual ones make the
  scan spill, and the parameters are spilled by force besides; the two
  blocks are the body and the condition of a loop in both orders of entry.
- *Blocks to drop.* Three blocks and the last are enough for a block that is
  dropped between one that falls or jumps into it and one behind it, for chains
  and loops of such blocks, and for blocks that become idle neighbours only when
  one between them is gone; all conditions are treated alike but for their inverse,
  and four of the ten are met (two and their inverses).
- *Calls.* Three arguments with two and one registers put every type into a
  register and on the stack, before and after one of the other kind. The real
  numbers are six and eight. `StackCells` (60) is
  what two such calls take at most (`CallAssumption`).
- *Code generation.* A byte has 2 bits (`CharBit`), so an `int` has 8 and a
  `long` 16: every width still differs from every other, every value and every
  product stays within TLC's integers, and constants on both sides of each limit
  are among the operands. Two levels of statements make every pair of
  constructs meet, with everything that leaves them early inside; a loop runs up
  to four times. `Fuel` (12) bounds the iterations and gotos of the meaning; a
  program that needs more is not started. A call beyond those of the source is
  where the execution stops: `MeansSource` has failed by then.
- *WebAssembly.* The same byte of 2 bits gives an `i32` 8 bits and an `i64` 16,
  and a byte of LEB128 stands for 7 bits as it does in the code. Two orders of the
  tables differ in the place of every entry.
- *Preprocessor.* Four free lines in a section, closed by two more, nest two deep
  with `#elif` and `#else` in any order; a third level changes the counter only.
  Two inputs see what the first leaves in the macro table and among the files
  already read.
- *Assembler.* `Im8Max` is 7, so that jumps over a piece of code and an
  alignment are just in and just out of reach; addresses and alignments are
  scaled alike. The real values are 127 (`Im8Max`), `0x1000100` (`LoadAddress`),
  `0x100` (`ProgStart`) and `0x1000` (`DataAlign`).
- *Driver.* Three chunks do not fit in a pipe of two, so writers wait for
  readers; three files are one more than needed for a pipe to be inherited by
  a child of another file.
- *Table.* Capacities 0, 3 and 9 (`capacity * 2 - 1` at least `MinCapacity`,
  15 in the code) with four names pass both growths with tombstones present.
  The smallest capacity is scaled down; with 15, five times as many names would
  be needed to grow once.
- *Allocator.* `PageUnits` 3 stands for 256 units per `sbrk`; 9 units are
  three pages, or two and gaps, enough for a block between two free ones and for a
  list in two areas. A request for `MaxPayload` (3) units takes more than a page. The heap may start at any address and be extended with a
  gap at any time.

Fairness. `cc1`, `as`, `wcc`, the compiled programs and the allocator are
sequential: weak fairness of the next step says only that the program goes on
running (`RegAlloc`, `AsmLayout`, `Compile`, `Wasm`; `BasicBlocks` states no
liveness: that its loops end is proved), and in `Umalloc` it covers
the steps of an operation but not the arrival of the next request. In `Driver`
every process is weakly fair (a runnable process is scheduled, a killed one
dies), but errors, failures of `fork` and the early death of `as` are not: they
may or may not happen. `xcc` and its children have no timeouts.
`Preprocessor` and `Table` state no liveness: a macro that names itself does not
end (departure 17), and that a probe of the table ends is `ProbeEnds`, an
invariant.

`CHECK_DEADLOCK FALSE` stands in the configurations of `AsmLayout`, `Compile`
and `Wasm`, where a finished program has no next step, and of `Driver`, where an assembler that
dies early leaves the other processes waiting (departure 6).

## What is proved

Eight modules hold proofs that TLAPS checks to the last leaf, one beside each of
`BasicBlocks`, `RegAlloc` (with `LinearScan` and `RegFlow`), `FrameLayout`, `CallFrame`,
`AsmLayout`, `Driver`, `Table` and `Umalloc` (the theorems are in `...Proofs`). In each, one
inductive invariant (`IInv`; `TidyInv` for the blocks, `ScanInv`, `FlowInv` and
`AllocInv` for the registers)
carries all theorems of its module, and type correctness is one of them but for
`RegAlloc`, whose invariant says of its own variables what its theorem needs. Nothing
is assumed besides the named assumptions on the constants, which TLC evaluates
for every instance:

- `BlocksAssumption`: a function has a finite list of blocks with labels of their
  own, and the jumps in them lead to some of these. `compile` evaluates it for what
  the code generator makes, and that the hypothesis of `BasicBlocksTargetsExist` holds
  there (`MidJumpsAssumption`).
- `ScanAssumption`: intervals have integer ends, a normal one does not end
  before it starts and starts with the first instruction at the earliest, unless
  its register is never used (then both ends are -1), there is at least one register in each file and no more
  floating-point registers than integer ones. (The code marks a spilled
  floating-point interval with the integer file's count; the last conjunct is
  what keeps that mark from being a register. It holds: 6 and 6.)
- `AllocAssumption`: a function has finitely many virtual registers, and as many
  intervals.
- `FlowAssumption`: a program is a finite list of blocks of instructions over
  the function's registers.
- `FrameAssumption`: sizes are natural numbers, alignments positive, and what is
  no struct fits a word. Alignments need not be powers of two.
- `CallAssumption`: the loops over the caller-save registers come to each once,
  frames consist of words, sizes of four-byte cells; and the memory of the
  model has room for two calls (`StackCells`), which limits nothing in the code.
- `LayoutAssumption`: the sections' items are as the assembler's parser makes
  them (`WellFormed`): sizes and alignments are natural numbers, what is added to a
  label is an integer, and jumps and calls add nothing.
- `DriverAssumption`, `MaxFilesAssumption`: modes and kinds of files are those
  `main` distinguishes; command lines are of bounded length; a pipe holds at
  least one chunk.
- `TableAssumption`: the hash is a natural number, capacities are at least
  three. Any names may collide.
- `UmallocAssumption`: a page of `sbrk` has at least one unit.
- `RequestAssumption` (both): the mark for "no call" is not a call.

**Blocks** (`BasicBlocksFlowIsKept`, `BasicBlocksTargetsExist`,
`BasicBlocksLoopsEnd`). Dropping a block is right only if it does nothing, and
whether it does is seen on the blocks as earlier drops and redirections have left
them, while the promise is about those generated. The invariant (`Tidied`) says
of every block left that it follows the generated one of its label
(`FollowsAt`): the same work, a jump at the end if and only if there was one,
and for every outcome of a comparison a way out to which the old way out
passes on. From it follows that a block that does nothing now did nothing when it
was generated (`IdleNow`), so that control from its label passes on to where it
leads now; the one exception, a generated block that jumps to itself, is left by
nothing (`PassageEnds`), so that it still does. Then its jumps may be led on
(`RedirectProperties`), the block before it may fall further (`FollowsOn`) or,
jumping over it, be turned round (`FollowsTurned`: of a condition and its inverse
exactly one holds), and it may go (`DropProperties`). What the passes do not look
at are jumps before the end of a block. They stay as generated, so no label is
missed if they lead to blocks that the passes leave: the hypothesis
`MidJumpsStay`, which departure 7 breaks. `Aimed` (last jumps lead to blocks that are left)
and `Staying` (blocks that do something are left) give the rest. `SameFlow` itself
needs no such hypothesis, for it compares the ends of blocks. That the
loops end is the measure of blocks, `again` and index (`GoesForward`).

**No shared register** (`LinearScanNoSharedRegister`). The invariant says of
two normal intervals of one file with one register that one ends before or
where the other starts. It is not inductive: the scan looks at the active list
only. The strengthening adds that the active list is ordered by end and
agrees with the bits and the assignments (`ActiveAgrees`), that unscanned
positions are untouched (`StateAgrees`) and that an interval that left the
list is over before any later one starts (`RetiredAreOver`). The last needs the
order of the list, since expiry stops at the first interval still alive, and
the order of starts. Each action then falls into a lemma about expiry
(`ExpiryProperties`), one about insertion (`InsertionKeepsOrder`) and one that
a register given out keeps both promises (`PlacementPreserves`). The theorem
covers any tie-breaking of the sort. `UsedCoversAssigned` and `ActiveAgrees`
follow from the same invariant. So does the action property
`LinearScanSpillsFurthestEnd`: a step that spills finds the file's list full,
and the intervals on it and the new one are all live at its start, which is one
more than there are registers; the list being ordered, its last ends furthest.

**Living registers** (`LinearScanLivingMatchesIntervals`).
`detect_living_registers` sets a bit when an interval starts and clears it when
one ends, both in the order of the sorted list, and two intervals that meet at
an instruction may have the same bit. That the clearing never takes a bit that
another interval has just set needs more than that no register is shared: of two
intervals with one register the *first in the list* must be over when the second
starts (`InTurn`, the form of the invariant that is inductive;
`NoSharedRegister` follows). With the first k intervals passed at an instruction, the bits
are the registers of those that live there and of the others that lived before
it (`Mixed`), by induction over k and over the instructions.

**Balanced flow** (`RegFlowBalanced`). When the loop stops, `out_regs` of a
block is the union of its successors' `in_regs` and `in_regs` is what it uses
and what it passes on. The strengthening says that a set never holds too much
(`NotTooMuch`), what the first loop has done (`Enumerated`) and that in a pass
in which nothing grew yet the blocks behind are balanced (`Visited`); a pass
that ends with nothing grown has visited all.

**Liveness analysis** (`RegFlowIsLiveness`). Balanced sets could still be too
large: any cycle of blocks may keep a register alive for itself. The theorem says
that `in_regs` and `out_regs` are exactly what `LivePoints` says of the paths of
execution. `LivePoints` is the least set that contains the reads and is closed
under steps back that pass no assignment (`LiveClosed`); that it is reached in as
many steps as there are points is a matter of counting (`GrowingStops`: until it
stops, each step adds a point). Nothing but what is live is ever put into
`in_regs` (`LiveOnly`, the inductive part): a path inside the block leads from its
entry to the read, or to its end and on to a successor. And the points at which
balanced blocks want a register contain the reads and are closed under steps back
(`LiveGetsIn`), so they contain all that is live. The hypothesis, `JumpsLast`, is
what `ir.h:185` says of a block: no jump but at the bottom. Code behind a `goto`
in the same statement list breaks it (departure 7), `next_bbs` then does not see
the jump, and the theorem says nothing of such functions.

**Register allocation** (`RegAllocReadsOwnValue`). The compiled program is
executed, and an instruction that reads a register which was assigned on this
run, or a parameter, finds its value. The invariant `AllocInv` follows the passes
and then the run: every register whose value some path still reads is held where
its interval says (`Holding`), in its physical register or in its place in the
frame. What makes a step keep this was settled by the passes. The interval of a
register covers every instruction at which it is live (`Covering` with
`RegFlowIsLiveness`: `LiveStart` and `LiveEnd` find a mention before and after).
An instruction that assigns to a physical register whose value is still read
does so for another interval that holds it (`NotOverwritten`): the two are in
turn, so the one ends at the instruction where the other starts. What is
assigned starts no later than its assignment, and what is read after the
instruction does not end there; so the one read must *start* at this
instruction and be live before it, which happens only at the top of a
block, and the assigned one must end there, unread. That case is real
(departure 1) and `NoDeadFirst` excludes it. A call overwrites the caller-save
registers but for those in `living`, which hold every interval that began and
goes on (`LivingCovers`, from `LinearScanLivingMatchesIntervals`). A spilled
register's value is in its place in the frame from its last store on, and passes
through `WORK_REG_NO`, which no interval has.
The theorem covers any program, any number of registers, any sort. Its
hypotheses are `JumpsLast` (departure 7), `NoDeadFirst` (departure 1) and
`OperandsKnown`, that `INC` and `DEC` through a register are not among the
instructions (departure 16). The spilling of both operands (departure 8)
ends in `abort` and needs no hypothesis.

**Frames** (`FrameDisjoint`, `FrameInBounds`, `FrameArgumentsStored`). Places
are handed out from two ends that only move apart: parameters passed on the
stack from 16 upward to `count.offset`, everything else from `-frame_size` to 0.
The order of the intervals does not matter. For the prologue's stores the
invariant also says that `prepare_register_allocation` and `put_args_to_stack`,
which count argument registers separately, agree after every parameter. The
three theorems are about functions with `GoodFunction`: those that are not
variadic, and variadic ones that keep nothing in their frame but integer
parameters in registers. Of other variadic functions they would be wrong
(departure 4); types are proved for all.

**Calls** (`StackIsAccounted`, `RegistersKept`, `ArgumentsArrive`). A call is
straight-line code, but of any length and with another call inside any argument.
The invariant says that the execution is at one of the points (`PointOK`) of
that code, that what is left to execute is `Code` of that point, and what the
stack (`StackAt`), the memory (`MemAt`) and the registers (`RegsAt`) are there,
relative to the stack before the call (`e`) and at its call instruction (`b`).
Between two arguments the point depends on which comes next and whether the inner
call is in it; `Arriving` collects these, and one lemma (`ArgsPoint`) leaves it.
Memory is the hard part: every argument placed so far, the saved registers
and, during the inner call, all that the outer one has stored, are areas of
which each step must show that it writes beside them (arguments lie below the
saved registers and those below what was there before; the inner call and the
functions called stay below the outer call's stack pointer). That
`SAVE` and the argument stores reach the right places although the stack pointer
has moved by then is the arithmetic of `Base` and `Above`. `ArgumentsArrive`
then needs two counts: that the pops, which go by the types of the *first*
arguments, take each pushed value to its register (`PopsCount`), and that the
callee, which adds sizes without rounding them, finds the offsets of the
caller, which rounds (`CountAlike`). Both hold only of calls with `GoodCall`:
the first needs `TypesLineUp` (departure 2), the second structs of whole words
(departure 5). The stack and the registers are right for all calls.

**Assembler** (`AsmLayoutAgrees`, `AsmAlignedAsAsked`, `AsmFileMatchesMemory`,
`AsmOperandsReachTargets`). While the loop of `calc_label_address` and
`resolve_relative_address` turns, addresses are right only for the
lengths of the pass before. The invariant therefore speaks of the state after
the last pass: nothing is emitted before the addresses are final for the lengths
of the jumps (`Calculated`, `Final`), the operands are those of these addresses
(`Resolved`), and what is in the buffers lies where they say (`Buffered`). The
three ways of computing a place (along the items, from the start of a buffer,
from the start of the file) are then brought together item by item. The
hypotheses name where the code does not do it: alignments above `ProgStart`
are not honoured in the code section (`AlignmentsFit`, departure 19); a pointer
to a label of no section gets no room (`PointersDefined`, departure 3); in an object
file a sum gets no relocation (`InPlace`, a condition of the property, departure 19);
`CodeAndData` says that jumps and calls of labels of the file stay in their section and pointers are
data, as the compiler writes them.

**Driver** (`DriverZeroMeansComplete`, `DriverCc1SeesWhole`,
`DriverFailureLeavesNoOutput`, `DriverPidsAreChildren`). Any number of files,
chunks and any size of the pipes; children run, block and fail at any time.
That status 0 means a complete output is known only at the end, from what
each wait has said before, so the invariant follows `main` from file to file
(`FilesAgree`: those before are done with, those after untouched) and through
the wait of one file: which of its two children are left, doomed or waited for,
how many `running` counts and whether `xcc` still holds the pipe's write end
(`WaitAgrees`, six situations). For each pipe, what was read and what is in
it make up what was written, and a compiler sees its end only after its
preprocessor has succeeded (`PipeAgrees`); what the assembler took and what is
still on its way make up the files so far in order (`SentAgrees`). The early
death of the assembler is among the failures: there a wait counts it as another
child (departure 6), `AsCounted` says by how much `running` is then wrong, and
the theorems hold nevertheless (only `PidsAreChildren` is promised for an
assembler that reads its input, as its definition says).

**Table** (`TableProbeEnds`, `TableImplementsMap`). `count` is the number of
entries that are not unused, tombstones included, and at most half of the
capacity, so a search meets an unused entry (`CountAgrees`, by cardinality).
For the map, the invariant says that a name is in one place at most and that
no unused entry lies between its hash and its place, in the table and in the
array being filled (`WellFormed`), and of a search under way that it has met
neither its name nor an unused entry, and remembers a tombstone it went past
(`Reached`). Then a search that ends at an unused entry has shown that the name is
not there. `MapOf` is the refinement mapping; only the last step of a call changes
it, growing does not.

**Allocator** (`UmallocEveryUnitOnce`, `UmallocFailsOnlyWhenFull`,
`UmallocIsHeap`). The free list is in the order of its addresses and closed
through the base (`Linked`), blocks do not overlap and make up all that `sbrk`
gave (`BlocksApart`), every block of the program is one of them
(`OwnedAgrees`), and a search has found everything it has gone past too small
(`Passed`, on a circle that starts at the rover). Joining a freed block with
the one before or behind it is the case with most work: what is on the list
changes and what the blocks cover does not. That every block is reached from the base is
shown by the least address that is not. In the refinement the last step of a
call is the step of the promise.

Induction over numbers, which the library offers only through operators the
provers cannot instantiate, is replaced throughout by the least counterexample
(`Induct`, from the well-foundedness of `<`). Only model-checked:

- every liveness property: fairness and `ENABLED` are out of the prover's reach;
- that allocation ends (`AllocationEnds`), one of these;
- of `Compile`, that the code does what the source means (`MeansSource`,
  `ReadsAreDefined`), and `Wasm` and `Preprocessor`: `CodeGen`, `Typing`, `WasmGen`,
  `PpParser` and `CppMeaning` compute over trees and texts by `RECURSIVE`
  operators, on which the provers have no hold. `Compile`'s `TargetsExist` is that
  of `BasicBlocks`, whose actions are those of `Compile` on its variables.

The theorems about the passes of register allocation state the properties of the
modules that `RegAlloc` extends, so that `reg_alloc` checks the same formulas on
its instance; the one about the run is of `RegAlloc` itself.
No run repeats the theorems about types, `ActiveAgrees`, `FlowBalanced` (which
`FlowIsLiveness` implies) and the end of the loops over blocks.

## Departures

Where the code does something else than it says. The first two have a run; the
others were seen while modelling and tried on the compiler.

1. **A dead assignment destroys a live value** (`reg_alloc_dead`,
   `regalloc.c:113`). A register is freed for an interval that starts where
   another ends. If a block begins with an assignment that is never read, the
   intervals of the assigned register and of one that lives into the block may
   share a register: `while ((v = next()) != 0) { dummy = 1; sum += v; }` adds 1s.
2. **Arguments popped by the wrong kind** (`call_frame_flonum`, `ir.c:1059`).
   `IR_CALL` pops with `arg_vtypes[i]`, indexed over all arguments, while only
   those in registers were pushed: `f(struct_value, 1.5)` pops the double into
   `rdi`.
3. **A pointer to a variable of another file is not emitted**
   (`ir_asm.c:438`). `extern int x; int *p = &x; int y = 5; int *q = &y;` gives a
   `.data` of 16 bytes and a relocation at 16. To see it, give
   `AsmLayout.cfg` the programs `ExternPrograms`.
4. **Frames of variadic functions** (`regalloc.c:588`). The save area is given
   room only when the loop comes to a parameter; a local that comes first
   shares its bytes: `int f(int n, ...) { int arr[4]; g(arr); return n; }`. With
   six integer and two floating-point parameters the last place is the return
   address's. To see it, drop `SimpleVariadic` from `GoodFunction`.
5. **Odd struct sizes on the stack** (`regalloc.c:476`). The caller rounds each
   stack argument to 8 bytes (`codegen_expr.c:388`), the callee adds
   `type_size`: after a 12-byte struct the next parameter is read 4 bytes low.
   To see it, give `CallFrame.cfg` a struct of 12 bytes and drop the sizes from
   `GoodCall`.
6. **An assembler that dies early** (`xcc/main.c:163`). `wait_child` waits for any
   child and the loop counts `as` as `cpp` or `cc1`, contrary to its comment.
   Nobody gets `SIGPIPE`, because every writer has inherited the read end;
   `xcc b.s` with a large file waits for ever in `cat`.
7. **A second jump in a block** (`codegen.c:375-380`, `regalloc.c:390`,
   `ir.c:1359`). `gen_goto` does not start a new block, so in
   `goto L; break;` or `if (c) goto L; else ...` the jump to `L` is not the last
   instruction of its block. `ir.h:185` says a block is a "Chunk of IR codes without
   branching in the middle (except at the bottom)." Liveness misses the
   edge: to see it, let the blocks of `Graphs` in `MCRegAlloc` end in up to two
   jumps. And if the block of `L` has nothing in it, `remove_unnecessary_bb` drops it
   and leaves the jump:
   `while (d) { if (c) goto L; else d = d - 2; d = d - 1; L: ; }` ends with an
   undefined reference to `.L2`. To see it, give `Compile.cfg` the programs
   `GotoPrograms` (with `GotoCode` and `GotoMeaning`): `TargetsExist` is violated.
8. **Both operands spilled** (`regalloc.c:307`). Parameters of deep expressions
   are all spilled, and `tmp = tmp op param` with a spilled `tmp` stops the
   compiler at an assertion. The sums of `reg_alloc` reach it: there the run ends
   in phase `abort`, and `AllocationEnds` counts it as an end.
9. **`continue` in a switch outside any loop** (`parser.c:15-16`). `LF_BREAK` and
   `LF_CONTINUE` are both `1 << 0`, so the parser lets it pass and `cc1` stops at an
   assertion (`codegen.c:369`).
10. **Casts of casts** (`parser_expr.c:1442`, `:144`). A cast of a cast replaces the
   inner one: `(int)(char)300` is 300, and a `(char)x` passed as a `long` is not cut.
11. **Compound assignment to a static of a block** (`codegen_expr.c:680`). Such a
   variable is taken for one in a register: `static int q; q += 1;` changes a
   temporary. The same holds of a block's `extern`.
12. **A product with 0** (`ir.c:177-183`): `x * 0` ends the compilation with "Divide
   by 0". `g &= 0` of a variable in memory stops at the assertion `ir.c:517`, a
   structure as the value of `?:` at `ir.c:1227`.
13. **Constants** (`parser_expr.c:264-286`, `:1345`). Folded values are not cut to
   their type: `long a = ~0u` is -1, `2147483647 + 1 > 0` is 1. A comparison with an
   unsigned constant above `INT_MAX` is given to the assembler as a 32-bit operand
   that it refuses (`codegen_expr.c:78`). A constant beyond 32 bits that is folded
   after parsing comes out negative when it is cast to `int`, for the bit of its sign is
   an `int` too (`codegen_expr.c:178`): `(int)(x = 0, 0x100000001)` is 1 - 2^32.
14. **No integer promotion.** The sum of two `char`s is a `char`, and the type of `?:`
   ignores the sign at equal rank.
15. **Division of `short`s** (`ir.c:668`) extends with `cwtl` where `cwtd` is meant;
   with a nonzero `dx` it traps.
16. **Increments through a spilled pointer** (`regalloc.c:301`). `IR_INC`, `IR_DEC`
   and `IR_CLEAR` are not among the instructions for which loads of spilled
   registers are inserted: `++*p` of a parameter `p` is `incl (%r15)` with
   whatever `r15` holds. That register (`WORK_REG_NO`) is callee-saved by the
   calling convention, yet no prologue saves it (`ir.c:67`). To see it, give
   `RegAlloc.cfg` the programs `Increments`.
17. **Preprocessor.** A macro that names itself never ends (`preprocessor.c:325`). A
   function-like name at the end of a line whose next line does not open the call
   loses that line (`preprocessor.c:336`, `pp_parser.c:329`), and at the end of an `#if`
   reads a stream that is not there (`pp_parser.c:316`). Comments, calls and splices
   over several lines make line numbers drift (`preprocessor.c:284`). Arguments are
   not expanded before they are put in place; `#__VA_ARGS__` is not turned into a
   string; a name that is no macro takes the token behind it along
   (`preprocessor.c:352`), so that in `foo BAR` the macro `BAR` stays as it is, and a
   comment of several lines behind a name ends in an error (to see it, give
   `Preprocessor.cfg` the programs `BehindNames`); macros named like keywords
   are not expanded; conditions are evaluated in skipped sections too; pieces of the output can join into one token
   (`+A` with `A` defined as `+1`); a comment behind a comment or a string is not
   looked for again (`preprocessor.c:317`).
18. **WebAssembly back end.** A conversion from `long long` to `int` writes
   `i32.wrap_i64` twice (`gen_wasm.c:216`), from `short` to `char` it shifts by the wrong
   count, from a negative number to a wider unsigned type likewise (`:235`); a `char`
   in a local is not cut after `++` and `op=`, and `++` of a `long long` in a local stops at an
   assertion. A comparison, a logical expression, `?:` or a place as a statement leaves
   its value behind; a `long long` constant as a condition is compared with an `i32`.
   Gaps for alignment are not counted in the frame (`:1296`); the local that holds the
   frame of a variadic function is off by one; `p++` over elements of 64 to 127 bytes and
   the address of a function with such an index in the table write an unsigned number
   where a signed one is read; an array member without an initial value takes no bytes in a
   global (`construct_initial_value`). A number of more than 35 bits overruns the
   buffer of five bytes in which it is written (`gen_wasm.c:33`, `:47`). `goto`, labels and a `case` inside another
   statement are refused.
19. Smaller ones: `new_ir_bop` folds `%` with `/` and `0 - x`
   to `x`; the dispatch of an unsigned `switch` compares signed; an alignment above
   256 in the code section moves labels but not code (`ir_asm.c:101`); instructions
   outside the code section are added to it; `.globl` of an undefined label and an
   `lea` of it leave neither an error nor a relocation; in an object file a sum of a
   label and a constant gets no relocation, nor does a `.byte`, `.word` or `.long` of a
   label (`ir_asm.c:246`, `:340`, `:357`); `malloc` of a size close to `SIZE_MAX` wraps
   round (`umalloc.c:73`), a block of 2^32 units has a header of 32 bits (`:15`), and
   `calloc` does not check its product; `x op= y` is computed in the type of `x`.

The passing runs exclude exactly these cases: no dead assignment at a block's
start (`NoDeadFirst`), arguments whose types line up and structs
of whole words (`GoodCall`), variadic functions with integer
parameters and no locals (`SimpleVariadic`), no `goto` before another jump to a label with nothing behind it, in
`RegAlloc` one jump per block, pointers to
defined labels, alignments below `ProgStart`, in object files operands that are a
label alone (`InPlace`), functions that the language admits
(`ProgramsAssumption`) without the operands of departures 10 to 15, no increment
through a spilled pointer, texts without the forms of departure 17 (`LinesInStep`
speaks of the files whose text stays on its lines), mains without those of
departure 18 (`Handled`), and, for liveness and the count of
children, an assembler that reads its input.

## What is not modelled

- The instruction encoder and the assembler's parser: tables and text, without
  state to speak of.
- Vectors, buffers, string builders: sequential and small.
- Floating point (but for the registers of arguments and of the scan) and 16-bit
  types; unions, enums and function pointers in expressions; structures as values
  in WebAssembly.
- The parser's recursion over text; its scopes and initializers are planned.
- `--dump-ir`, options of the driver and of `wcc`, linking of several objects.
- The C library besides its allocator, tests, examples and the web page.

## Plan

Written, most important first: registers with spill code, calls and frames, the way
from source to execution, driver, assembler, table, allocator, preprocessor, the
WebAssembly back end. To come, in this order:

1. `Scopes` and `Initializers`: name lookup through the scope chain, brace elision
   and the flattening of initializers, against a reference definition; the initial
   values `emit_code.c` writes.
2. `AsmParse` and `Encode`: the assembler's items from lines and the lengths of
   instructions, which `AsmLayout` takes as given.
3. `FileBuffers` of the library, `NameIntern`, `TokenQueue`.
4. Proofs: those of the modules to come; the end of `RegFlow`'s and `AsmLayout`'s repeated passes by a
   measure, as for the blocks. `CodeGen` and `Typing` are recursive over data and stay with TLC.
