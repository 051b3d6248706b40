-------------------------------- MODULE Wasm --------------------------------
(***************************************************************************)
(* A function from its trees to its end on a WebAssembly machine: wcc      *)
(* (wasm/src/wcc.c) traverses the unit, gives every function, variable and *)
(* address its index (traverse_ast), generates code (WasmGen), writes the  *)
(* sections of the module (emit_wasm); an engine instantiates the module,  *)
(* which it refuses when the code does not validate, and runs main.        *)
(*                                                                         *)
(* The unit holds main and the functions of Defined, all of whose calls    *)
(* are outside here: they note their arguments and return the first.       *)
(***************************************************************************)
EXTENDS WasmGen

CONSTANTS Programs,     \* main, a sequence of lists of statements
          TableOrders,  \* orders in which the hash tables of functions and of
                        \* variables may be gone through: [funcs, gvars]
          Defined,      \* the functions that the unit defines besides main
          VaTypes,      \* what a variadic function reads, by its first argument
          StackSize, MemorySize,
          Built,        \* what wcc makes of each program, for each order
          Meaning       \* how each ends, as the source has it

(***************************************************************************)
(* traverse_ast: indices and addresses.                                    *)
(***************************************************************************)
Builtins == {"$_SP", "$_DE"}
GlobalType(x) == IF x \in Builtins THEN SizeType ELSE Vars[x].type
InLinearMemory(x, refs) == x \notin Builtins /\ (x \in refs \/ ~IsScalar(Vars[x].type))

RECURSIVE DataEnd(_, _)
DataEnd(list, n) ==   \* the end of the first n variables in memory
  IF n = 0 THEN 1   \* START_ADDRESS: no variable is at 0
  ELSE LET t == Vars[list[n]].type IN RoundUp(DataEnd(list, n - 1), AlignOf(t)) + SizeOf(t)

Numbers(list) == [x \in {list[i] : i \in DOMAIN list} |-> (CHOOSE i \in DOMAIN list : list[i] = x) - 1]

\* Imports have the first indices, then the functions that are defined and
\* called; those with initial values have the first addresses.
TraverseAst(calls, refs, tables) ==
  LET defined == Defined \cup {"main"}
      imports == SelectSeq(tables.funcs, LAMBDA f : f \in calls \ defined)
      defuns == SelectSeq(tables.funcs, LAMBDA f : f \in defined \cap (calls \cup {"main"}))
      memory == SelectSeq(tables.gvars, LAMBDA x : InLinearMemory(x, refs) /\ x \in DOMAIN Inits)
                  \o SelectSeq(tables.gvars, LAMBDA x : InLinearMemory(x, refs) /\ x \notin DOMAIN Inits)
      others == SelectSeq(tables.gvars, LAMBDA x : ~InLinearMemory(x, refs))
      end(n) == DataEnd(memory, n)
  IN  [imports |-> imports, defuns |-> defuns, globals |-> others, memory |-> memory,
       refs |-> refs,
       func |-> Numbers(imports \o defuns),
       global |-> Numbers(others),
       address |-> [x \in {memory[i] : i \in DOMAIN memory} |->
                      LET n == CHOOSE i \in DOMAIN memory : memory[i] = x
                      IN  end(n) - SizeOf(Vars[x].type)],
       end |-> end(Len(memory))]

(***************************************************************************)
(* emit_wasm.                                                              *)
(***************************************************************************)
LittleEndian(v, size) == [i \in 1 .. size |-> (v \div Modulus(i - 1)) % Modulus(1)]
Zeros(n) == [i \in 1 .. n |-> 0]

\* construct_initial_value; an initializer is <<>> or <<what it holds>>.  An
\* array without one has no bytes.
RECURSIVE InitialValue(_, _, _), MemberValues(_, _, _, _)
MemberValues(t, inits, n, u) ==   \* the first n members of a structure
  IF n = 0 THEN <<>>
  ELSE LET before == MemberValues(t, inits, n - 1, u)
       IN  before \o Zeros(MemberOffset(t, n) - SizeUpTo(t.members, n - 1))
                  \o InitialValue(t.members[n], IF inits = <<>> THEN <<>> ELSE inits[1][n], u)
InitialValue(t, init, u) ==
  CASE t.kind = "fixnum" -> LittleEndian(IF init = <<>> THEN 0 ELSE init[1], SizeOf(t))
    [] t.kind = "ptr" -> LittleEndian(IF init = <<>> THEN 0 ELSE u.address[init[1]], PtrSize)
    [] t.kind = "array" ->
         IF init = <<>> THEN <<>>
         ELSE FlattenSeq([i \in 1 .. t.length |->
                InitialValue(t.to, IF i <= Len(init[1]) THEN init[1][i] ELSE <<>>, u)])
    [] t.kind = "struct" ->
         MemberValues(t, init, Len(t.members), u)
           \o Zeros(SizeOf(t) - SizeUpTo(t.members, Len(t.members)))

RECURSIVE DataSegment(_, _)
DataSegment(u, n) ==   \* of the first n variables with initial values
  IF n = 0 THEN <<>>
  ELSE LET before == DataSegment(u, n - 1)
           x == u.memory[n]
       IN  before \o Zeros(u.address[x] - DataEnd(u.memory, n - 1) * Truth(n > 1))
                  \o InitialValue(Vars[x].type, <<Inits[x]>>, u)

GlobalValue(x, u) ==
  CASE x = "$_DE" -> u.end
    [] x = "$_SP" -> RoundUp(u.end + StackSize, 16)
    [] x \notin Builtins \cup DOMAIN Inits -> 0
    [] OTHER -> IF Vars[x].type.kind = "ptr" THEN u.address[Inits[x]] ELSE Inits[x]

FuncType(f) ==
  LET wtypes(ts) == [i \in DOMAIN ts |-> WType(ts[i])] IN
  CASE f = "main" -> [params |-> [i \in DOMAIN Params |-> WType(Vars[Params[i]].type)],
                      results |-> <<WType(LongType)>>]
    [] f \in {"_memcpy", "_memset"} -> [params |-> <<"i32", "i32", "i32">>, results |-> <<>>]
    [] OTHER -> [params |-> wtypes(Funcs[f]) \o (IF f \in Variadic THEN <<"i32">> ELSE <<>>),
                 results |-> <<"i32">>]

\* functypes holds each type once; functions refer to it by its index.
FuncTypes(names) ==
  FoldLeft(LAMBDA types, f : IF FuncType(f) \in ToSet(types) THEN types ELSE Append(types, FuncType(f)),
           <<>>, names)

EmitWasm(u, body) ==
  LET all == u.imports \o u.defuns
      types == FuncTypes(all)
      typed(list) == [i \in DOMAIN list |->
                        [name |-> list[i],
                         type |-> CHOOSE n \in DOMAIN types : types[n] = FuncType(list[i])]]
      data == SelectSeq(u.memory, LAMBDA x : x \in DOMAIN Inits)
  IN  [types |-> types,
       imports |-> typed(u.imports),
       funcs |-> typed(u.defuns),
       globals |-> [i \in DOMAIN u.globals |->
                      LET x == u.globals[i]
                      IN  [type |-> WType(GlobalType(x)), mutable |-> x # "$_DE",
                           v |-> GlobalValue(x, u) % Modulus(SizeOf(IF WType(GlobalType(x)) = "i64"
                                                                     THEN LLongType ELSE IntType))]],
       exports |-> [main |-> u.func["main"], sp |-> u.global["$_SP"]],
       body |-> body,
       data |-> DataSegment(u, Len(data))]

\* The variables of the unit whose addresses its initial values hold.
PointedTo == {Inits[x] : x \in {y \in DOMAIN Inits : Vars[y].type.kind = "ptr"}}

Wcc(program, tables) ==
  LET parsed == [i \in DOMAIN program |-> ParseStmt(program[i])]
      refs == UNION {RefTaken(parsed[i]) : i \in DOMAIN parsed} \cup PointedTo
      stmts == [i \in DOMAIN parsed |-> TraverseStmt(parsed[i], <<i>>, refs)]
      nodes == FlattenSeq([i \in DOMAIN stmts |-> NodesIn(stmts[i])])
      calls == CalledBy(nodes)
                 \cup {"_memset" : i \in {j \in DOMAIN stmts : Clears(stmts[j])}}
      u == TraverseAst(calls, refs, tables)
  IN  IF \E i \in DOMAIN parsed : Refused(parsed[i], "")
      THEN [refused |-> TRUE]
      ELSE [refused |-> FALSE, unit |-> u,
            mod |-> EmitWasm(u, GenDefun(stmts, TmpsOf(nodes), u))]

(***************************************************************************)
(* The engine.                                                             *)
(***************************************************************************)
RECURSIVE FromULeb(_)
FromULeb(bytes) ==
  (Head(bytes) % 128) + (IF Len(bytes) = 1 THEN 0 ELSE 128 * FromULeb(Tail(bytes)))
FromLeb(bytes) ==
  IF Last(bytes) >= 64 THEN FromULeb(bytes) - 128 ^ Len(bytes) ELSE FromULeb(bytes)

Functions(m) == m.imports \o m.funcs
FunctionAt(m, n) == Functions(m)[n + 1]
TypeAt(m, n) == m.types[FunctionAt(m, n).type]
LocalTypes(m) == TypeAt(m, m.exports.main).params \o m.body.locals

\* The types that a plain instruction takes and leaves.
Takes(these, those) == [in |-> these, out |-> those]
Flow(ins, m) ==
  LET t == ins.t
      n == FromULeb(ins.x)
      localType == LocalTypes(m)[n + 1]
      globalType == m.globals[n + 1].type
  IN
  CASE ins.op = "CONST" -> Takes(<<>>, <<t>>)
    [] ins.op = "LOAD" -> Takes(<<"i32">>, <<t>>)
    [] ins.op = "STORE" -> Takes(<<"i32", t>>, <<>>)
    [] ins.op \in Arithmetic -> Takes(<<t, t>>, <<t>>)
    [] ins.op \in Comparisons -> Takes(<<t, t>>, <<"i32">>)
    [] ins.op = "WRAP" -> Takes(<<"i64">>, <<"i32">>)
    [] ins.op = "EXTEND" -> Takes(<<"i32">>, <<"i64">>)
    [] ins.op = "DROP" -> Takes(<<"any">>, <<>>)
    [] ins.op = "LOCAL_GET" -> Takes(<<>>, <<localType>>)
    [] ins.op = "LOCAL_SET" -> Takes(<<localType>>, <<>>)
    [] ins.op = "LOCAL_TEE" -> Takes(<<localType>>, <<localType>>)
    [] ins.op = "GLOBAL_GET" -> Takes(<<>>, <<globalType>>)
    [] ins.op = "GLOBAL_SET" -> Takes(<<IF m.globals[n + 1].mutable THEN globalType ELSE "constant">>, <<>>)
    [] ins.op = "CALL" -> Takes(TypeAt(m, n).params, TypeAt(m, n).results)

\* Validation: the types on the stack and the blocks open; after a branch that
\* is always taken (dead) the stack holds whatever is asked for.
RECURSIVE TakeAll(_, _)
TakeAll(s, types) ==
  IF types = <<>> \/ ~s.ok THEN s
  ELSE LET block == Last(s.blocks)
           empty == Len(s.stack) = block.height
           fits == Last(types) \in {"any", Last(s.stack)}
       IN  IF empty THEN TakeAll([s EXCEPT !.ok = block.dead], Front(types))
           ELSE TakeAll([s EXCEPT !.ok = fits, !.stack = Front(@)], Front(types))
Leave(s, types) == [s EXCEPT !.stack = @ \o types]

\* The block ends with its results on the stack and nothing else.
Finished(s) ==
  LET taken == TakeAll(s, Last(s.blocks).results)
  IN  [taken EXCEPT !.ok = @ /\ Len(taken.stack) = Last(s.blocks).height]
Opened(s, op, results, i) ==
  [s EXCEPT !.blocks = Append(@, [op |-> op, results |-> results, height |-> Len(s.stack),
                                  dead |-> FALSE, at |-> {i}])]

\* The i-th instruction; ends and splits are where the blocks end that the
\* instructions open, and where the branches of an if part.
Validated(s, i, m) ==
  LET ins == m.body.code[i]
      block == Last(s.blocks)
      n == FromULeb(ins.x)
      results == IF ins.t = "void" THEN <<>> ELSE <<ins.t>>
      done == Finished(s)
      here == [j \in block.at |-> i]
      target == s.blocks[Len(s.blocks) - n]
      empty == n < Len(s.blocks) /\ (target.op = "LOOP" \/ target.results = <<>>)
      plain == Flow(ins, m)
  IN
  CASE s.blocks = <<>> -> [s EXCEPT !.ok = FALSE]
    [] s.blocks # <<>> /\ ins.op \in {"BLOCK", "LOOP"} -> Opened(s, ins.op, results, i)
    [] s.blocks # <<>> /\ ins.op = "IF" -> Opened(TakeAll(s, <<"i32">>), "IF", results, i)
    [] s.blocks # <<>> /\ ins.op = "ELSE" ->
         [done EXCEPT !.ok = @ /\ block.op = "IF", !.splits = here @@ @,
                      !.blocks[Len(s.blocks)] = [@ EXCEPT !.op = "ELSE", !.dead = FALSE, !.at = @ \cup {i}]]
    [] s.blocks # <<>> /\ ins.op = "END" ->
         Leave([done EXCEPT !.ok = @ /\ ~(block.op = "IF" /\ block.results # <<>>),
                            !.ends = here @@ @, !.blocks = Front(@)], block.results)
    [] s.blocks # <<>> /\ ins.op = "BR" ->
         [s EXCEPT !.ok = empty, !.stack = SubSeq(@, 1, block.height),
                   !.blocks[Len(s.blocks)].dead = TRUE]
    [] s.blocks # <<>> /\ ins.op = "BR_IF" ->
         LET taken == TakeAll(s, <<"i32">>) IN [taken EXCEPT !.ok = @ /\ empty]
    [] OTHER -> Leave(TakeAll(s, plain.in), plain.out)

\* The instructions from the first to the last, until one is wrong: by halves,
\* which keeps the recursion shallow.
RECURSIVE ValidatedAll(_, _, _, _)
ValidatedAll(s, first, last, m) ==
  LET middle == (first + last) \div 2
      half == ValidatedAll(s, first, middle, m)
  IN  IF first = last THEN Validated(s, first, m)
      ELSE IF half.ok THEN ValidatedAll(half, middle + 1, last, m) ELSE half

Validation(m) ==
  LET empty == [ok |-> TRUE, stack |-> <<>>, blocks |-> <<>>, ends |-> <<>>, splits |-> <<>>]
      start == Opened(empty, "BLOCK", TypeAt(m, m.exports.main).results, 0)
      final == ValidatedAll(start, 1, Len(m.body.code), m)
  IN  [final EXCEPT !.ok = @ /\ final.blocks = <<>>]

\* What wcc built and what the engine finds.
Load(built) ==
  IF built.refused THEN built
  ELSE LET final == Validation(built.mod)
       IN  built @@ [valid |-> final.ok, ends |-> final.ends, splits |-> final.splits]

(***************************************************************************)
(* The state.                                                              *)
(***************************************************************************)
\* What main leaves behind: the variables that are not its own, those whose
\* values are addresses left out.
Lasting == {x \in DOMAIN Vars : ~Own(x) /\ Vars[x].type.kind # "ptr"}

\* How a main ends, with the bytes of those variables.
Outcome(program) ==
  LET final == Run(program)
  IN  [how |-> final.how, x |-> final.x, out |-> final.s.out,
       left |-> [v \in Lasting |-> <<>> \o [i \in 1 .. SizeOf(Vars[v].type) |-> final.s.mem[Place[v] + i - 1]]]]

\* TLC keeps the value of a definition; that of a constant it computes anew.
Bodies == Programs
Orders == TableOrders
BuiltOf == Built
MeaningOf == Meaning

ASSUME ProgramsAssumption ==
  \A n \in DOMAIN Bodies : \A i \in DOMAIN Bodies[n] : WellPlaced(Bodies[n][i], FALSE, FALSE)
ASSUME BuiltAssumption ==
  \A n \in DOMAIN Bodies, o \in DOMAIN Orders : BuiltOf[n][o] \in {Load(Wcc(Bodies[n], Orders[o]))}
ASSUME MeaningAssumption == \A n \in DOMAIN Bodies : MeaningOf[n] \in {Outcome(Bodies[n])}

VARIABLES prog,     \* main: an index of Programs
          arranged, \* an index of TableOrders
          phase,    \* "parsed", "refused", "emitted", "invalid", "running" or "done"
          pc,       \* the next instruction
          vs,       \* the value stack, its top last
          labels,   \* the blocks open: where a branch goes, what the stack held
          locals, globals,
          mem,
          out       \* the calls made

vars == <<prog, arranged, phase, pc, vs, labels, locals, globals, mem, out>>

Mod == BuiltOf[prog][arranged].mod
Code == Mod.body.code
Ends == BuiltOf[prog][arranged].ends
Splits == BuiltOf[prog][arranged].splits

\* A main that ends in the source.
Init ==
  /\ prog \in DOMAIN Bodies /\ arranged \in DOMAIN Orders
  /\ MeaningOf[prog].how # "lost"
  /\ phase = "parsed" /\ pc = 1 /\ vs = <<>> /\ labels = <<>> /\ locals = <<>> /\ globals = <<>>
  /\ mem = <<>> /\ out = <<>>

Compile ==
  /\ phase = "parsed"
  /\ phase' = IF BuiltOf[prog][arranged].refused THEN "refused" ELSE "emitted"
  /\ UNCHANGED <<prog, arranged, pc, vs, labels, locals, globals, mem, out>>

BytesOf(t) == IF t = "i64" THEN 8 ELSE 4
Pattern(v, t) == v % Modulus(BytesOf(t))

\* The arguments of main, and zero in its other locals.
Instantiate ==
  /\ phase = "emitted"
  /\ IF ~BuiltOf[prog][arranged].valid
     THEN phase' = "invalid" /\ UNCHANGED <<locals, globals, mem>>
     ELSE /\ phase' = "running"
          /\ locals' = [i \in DOMAIN LocalTypes(Mod) |->
                          IF i \in DOMAIN Params
                          THEN Pattern(Inits[Params[i]], LocalTypes(Mod)[i]) ELSE 0]
          /\ globals' = [i \in DOMAIN Mod.globals |-> Mod.globals[i].v]
          /\ mem' = [i \in 0 .. MemorySize - 1 |-> IF i < Len(Mod.data) THEN Mod.data[i + 1] ELSE 0]
  /\ UNCHANGED <<prog, arranged, pc, vs, labels, out>>

(***************************************************************************)
(* The machine.                                                            *)
(***************************************************************************)
Instr == Code[pc]
At(ops) == phase = "running" /\ Instr.op \in ops
Operand0 == FromULeb(Instr.x)
Top(k) == vs[Len(vs) - k]                  \* the value under k others
Drop(k) == SubSeq(vs, 1, Len(vs) - k)
Advance == pc' = pc + 1 /\ UNCHANGED <<prog, arranged, phase>>

Get ==
  /\ At({"CONST", "LOCAL_GET", "GLOBAL_GET"})
  /\ vs' = Append(vs, CASE Instr.op = "CONST" -> Pattern(FromLeb(Instr.x), Instr.t)
                        [] Instr.op = "LOCAL_GET" -> locals[Operand0 + 1]
                        [] Instr.op = "GLOBAL_GET" -> globals[Operand0 + 1])
  /\ Advance /\ UNCHANGED <<labels, locals, globals, mem, out>>

Put ==
  /\ At({"LOCAL_SET", "LOCAL_TEE", "GLOBAL_SET", "DROP"})
  /\ vs' = IF Instr.op = "LOCAL_TEE" THEN vs ELSE Drop(1)
  /\ locals' = IF Instr.op \in {"LOCAL_SET", "LOCAL_TEE"}
               THEN [locals EXCEPT ![Operand0 + 1] = Top(0)] ELSE locals
  /\ globals' = IF Instr.op = "GLOBAL_SET" THEN [globals EXCEPT ![Operand0 + 1] = Top(0)] ELSE globals
  /\ Advance /\ UNCHANGED <<labels, mem, out>>

\* Operands are read with the sign that the instruction has; the count of a
\* shift modulo the width.
Calculate ==
  /\ At(Arithmetic \cup Comparisons)
  /\ LET size == BytesOf(Instr.t)
         a == Wrap(Top(1), size, Instr.x.uns)
         b == Wrap(Top(0), size, Instr.x.uns)
     IN  /\ Instr.op \in {"DIV", "MOD"} => b # 0
         /\ vs' = Append(Drop(2),
                    CASE Instr.op \in Comparisons -> Truth(Holds(Instr.op, a, b))
                      [] Instr.op \in Shifts -> Pattern(Exact(Instr.op, a, Top(0) % (size * CharBit)), Instr.t)
                      [] OTHER -> Pattern(Exact(Instr.op, a, b), Instr.t))
  /\ Advance /\ UNCHANGED <<labels, locals, globals, mem, out>>

Convert ==
  /\ At({"WRAP", "EXTEND"})
  /\ vs' = Append(Drop(1), Pattern(IF Instr.op = "EXTEND" THEN Wrap(Top(0), 4, Instr.x.uns) ELSE Top(0),
                                   Instr.t))
  /\ Advance /\ UNCHANGED <<labels, locals, globals, mem, out>>

\* An access outside the memory traps: the machine stops.
LoadValue ==
  /\ At({"LOAD"})
  /\ Top(0) + Instr.x.size <= MemorySize
  /\ vs' = Append(Drop(1), Pattern(Wrap(LoadBytes(mem, Top(0), Instr.x.size), Instr.x.size, Instr.x.uns),
                                   Instr.t))
  /\ Advance /\ UNCHANGED <<labels, locals, globals, mem, out>>

StoreValue ==
  /\ At({"STORE"})
  /\ Top(1) + Instr.x.size <= MemorySize
  /\ mem' = StoreBytes(mem, Top(1), Instr.x.size, Top(0) % Modulus(Instr.x.size))
  /\ vs' = Drop(2)
  /\ Advance /\ UNCHANGED <<labels, locals, globals, out>>

Label(target) == [target |-> target, height |-> Len(vs)]
Enter ==
  /\ At({"BLOCK", "LOOP"})
  /\ labels' = Append(labels, Label(IF Instr.op = "LOOP" THEN pc ELSE Ends[pc] + 1))
  /\ Advance /\ UNCHANGED <<vs, locals, globals, mem, out>>

Decide ==
  /\ At({"IF"})
  /\ LET split == pc \in DOMAIN Splits
         taken == Top(0) # 0 \/ split
     IN  /\ pc' = 1 + IF Top(0) # 0 THEN pc ELSE IF split THEN Splits[pc] ELSE Ends[pc]
         /\ labels' = IF taken THEN Append(labels, [target |-> Ends[pc] + 1, height |-> Len(vs) - 1])
                      ELSE labels
  /\ vs' = Drop(1)
  /\ UNCHANGED <<prog, arranged, phase, locals, globals, mem, out>>

CloseBlock ==
  /\ At({"ELSE", "END"}) /\ labels # <<>>
  /\ labels' = Front(labels)
  /\ pc' = IF Instr.op = "ELSE" THEN Ends[pc] + 1 ELSE pc + 1
  /\ UNCHANGED <<prog, arranged, phase, vs, locals, globals, mem, out>>

\* Out of as many blocks as it says, or back to the beginning of a loop.
Branch ==
  /\ At({"BR", "BR_IF"})
  /\ LET label == labels[Len(labels) - Operand0]
         goes == Instr.op = "BR" \/ Top(0) # 0
     IN  /\ pc' = IF goes THEN label.target ELSE pc + 1
         /\ labels' = IF goes THEN SubSeq(labels, 1, Len(labels) - Operand0 - 1) ELSE labels
         /\ vs' = IF goes THEN SubSeq(vs, 1, label.height) ELSE Drop(1)
  /\ UNCHANGED <<prog, arranged, phase, locals, globals, mem, out>>

Callee == FunctionAt(Mod, Operand0).name
Arity == Len(TypeAt(Mod, Operand0).params)
Args == [i \in 1 .. Arity |-> Top(Arity - i)]

CallLibrary ==
  /\ At({"CALL"}) /\ Callee \in {"_memcpy", "_memset"}
  /\ mem' = IF Callee = "_memset" THEN ClearBytes(mem, Args[1], Args[3])
            ELSE CopyBytes(mem, Args[1], Args[2], Args[3])
  /\ vs' = Drop(3)
  /\ Advance /\ UNCHANGED <<labels, locals, globals, out>>

\* What a variadic function finds with va_arg: each argument after the bytes of
\* those before it.
RECURSIVE VaRead(_, _)
VaRead(at, types) ==
  IF types = <<>> THEN <<>>
  ELSE <<InType(LoadBytes(mem, at, ScalarSize(Head(types))), Head(types))>>
         \o VaRead(at + ScalarSize(Head(types)), Tail(types))

\* The bound: code that makes one call more than the source is wrong already
\* and goes no further.
CallFunction ==
  /\ At({"CALL"}) /\ Callee \notin {"_memcpy", "_memset"}
  /\ Len(out) <= Len(MeaningOf[prog].out)
  /\ LET params == Funcs[Callee]
         fixed == [i \in DOMAIN params |-> InType(Args[i], params[i])]
         extra == IF Callee \in Variadic /\ Args[Arity] # 0
                  THEN VaRead(Args[Arity], VaTypes[fixed[1]]) ELSE <<>>
     IN  /\ out' = Append(out, <<Callee, fixed \o extra>>)
         /\ vs' = Append(Drop(Arity), Pattern(InType(fixed[1], IntType), "i32"))
  /\ Advance /\ UNCHANGED <<labels, locals, globals, mem>>

\* The end of main, its result on the stack.
ReturnFromMain ==
  /\ At({"END"}) /\ labels = <<>>
  /\ phase' = "done"
  /\ UNCHANGED <<prog, arranged, pc, vs, labels, locals, globals, mem, out>>

Next ==
  \/ Compile \/ Instantiate
  \/ Get \/ Put \/ Calculate \/ Convert \/ LoadValue \/ StoreValue
  \/ Enter \/ Decide \/ CloseBlock \/ Branch \/ CallLibrary \/ CallFunction \/ ReturnFromMain

Spec == Init /\ [][Next]_vars
FairSpec == Spec /\ WF_vars(Next)

(***************************************************************************)
(* Properties.                                                             *)
(***************************************************************************)
SameAsMeant(x) ==
  LET meant == MeaningOf[prog].left[x]
      unit == BuiltOf[prog][arranged].unit
  IN  IF x \in DOMAIN unit.address
      THEN \A i \in DOMAIN meant : mem[unit.address[x] + i - 1] = meant[i]
      ELSE LittleEndian(globals[unit.global[x] + 1], Len(meant)) = meant

\* The module does what the source means: the same calls with the same
\* arguments in the same order, the same result, and the same values left in
\* the variables that outlive main, whatever order the tables of functions and
\* variables are gone through (traverse.c, gen_wasm.c and emit_wasm of wcc.c).
WasmMeansSource ==
  LET meant == MeaningOf[prog] IN
  /\ IsPrefix(out, meant.out)
  /\ phase = "done" =>
       /\ out = meant.out
       /\ meant.how = "return" => InType(Last(vs), LongType) = meant.x
       /\ \A x \in Lasting : SameAsMeant(x)

\* An engine accepts the module: every block leaves on the stack what it says,
\* operands have the types of their instructions, branches and indices lead
\* somewhere (gen_expr's needval, cur_depth, and the indices of traverse_ast).
Validates == phase # "invalid"

\* When main returns, the stack pointer is where it was, whatever way main was
\* left: also from within loops and switches (gen_defun, gen_stmt).
StackRestored ==
  phase = "done" => LET sp == Mod.exports.sp + 1 IN globals[sp] = Mod.globals[sp].v

\* A main that ends in the source ends in the module too: no branch goes round
\* in circles, and nothing traps.
WasmEnds == <>(phase = "done" \/ phase = "refused")
=============================================================================
