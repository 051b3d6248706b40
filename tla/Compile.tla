------------------------------ MODULE Compile -------------------------------
(***************************************************************************)
(* A function from its syntax to its end: the compiler generates its       *)
(* blocks (gen_defun), drops the unnecessary ones (BasicBlocks), and the   *)
(* machine carries out what ir_out of src/cc/ir.c writes for each          *)
(* instruction.  Registers are the virtual ones, each in a machine         *)
(* register of its own (RegAlloc is about sharing those); one whose        *)
(* address is taken lies in memory.                                        *)
(*                                                                         *)
(* A register holds 8 bytes: a write of 4 clears the upper half, one of    *)
(* fewer leaves the rest as it was, which is Junk here.  Memory, stack and *)
(* calls are those of CSource, so that what the code does can be compared  *)
(* with what the source means.                                             *)
(***************************************************************************)
EXTENDS CodeGen, BasicBlocks

\* What gen_defun makes of a function, and the variables that have to lie in
\* memory.
Compiled(program) ==
  LET stmts == [i \in DOMAIN program |-> ParseStmt(program[i])]
  IN  [bbs |-> GenDefun(stmts), inMem |-> UNION {RefTaken(stmts[i]) : i \in DOMAIN stmts}]

CONSTANTS Programs,   \* the functions, a sequence of lists of statements
          Meaning,    \* how each ends, as the source has it
          Junk        \* what the upper bytes of a register hold

ASSUME JunkAssumption == Junk \in 0 .. Modulus(WordSize) - 1

\* TLC keeps the value of a definition; that of a constant it computes anew.
Bodies == Programs
MeaningOf == Meaning

ASSUME ProgramsAssumption ==
  \A n \in DOMAIN Bodies : \A i \in DOMAIN Bodies[n] : WellPlaced(Bodies[n][i], FALSE, FALSE)
ASSUME CodeAssumption == CodeOf = [n \in DOMAIN Bodies |-> Compiled(Bodies[n])]
ASSUME MeaningAssumption == MeaningOf = [n \in DOMAIN Bodies |-> Run(Bodies[n])]

VARIABLES inMem,   \* the variables whose registers lie in memory
          pc,      \* the next instruction: <<index of its block, index in it>>
          regs,    \* virtual register -> its 8 bytes, for those written so far
          flags,   \* the operands compared last; NoFlags after any arithmetic
          stk,     \* the stack, its top last
          mem,
          rax,
          out      \* the calls made

vars == <<tidyVars, inMem, pc, regs, flags, stk, mem, rax, out>>
machine == <<regs, flags, stk, mem, rax, out>>

NoFlags == [size |-> 0, a |-> 0, b |-> 0]

\* A function that ends.
Init ==
  /\ TidyInit
  /\ MeaningOf[prog].how # "lost"
  /\ inMem = {} /\ pc = <<1, 1>>
  /\ regs = <<>> /\ flags = NoFlags /\ stk = <<>> /\ mem = StartBytes
  /\ rax = Junk /\ out = <<>>

(***************************************************************************)
(* The compiler.                                                           *)
(***************************************************************************)
Generate ==
  /\ Generated
  /\ inMem' = CodeOf[prog].inMem
  /\ UNCHANGED <<pc, machine>>

Tidy == TidyBlocks /\ UNCHANGED <<inMem, pc, machine>>

(***************************************************************************)
(* The machine.                                                            *)
(***************************************************************************)
Done == phase = "assembled" /\ pc[1] > Len(bbs)
Running == phase = "assembled" /\ ~Done
InBlock == pc[2] <= Len(bbs[pc[1]].irs)
Instr == bbs[pc[1]].irs[pc[2]]
At(ops) == Running /\ InBlock /\ Instr.op \in ops
Advance == pc' = <<pc[1], pc[2] + 1>> /\ UNCHANGED <<tidyVars, inMem>>

Pattern(v, size) == v % Modulus(size)
Full(v, size) ==   \* a register after size bytes of it were written
  IF size >= 4 THEN Pattern(v, size)
  ELSE Pattern(v, size) + (Junk \div Modulus(size)) * Modulus(size)

Variable(reg) == ~reg.const /\ reg.id[1] = "var"
InMemory(reg) == Variable(reg) /\ reg.id[2] \in inMem

Whole(reg) ==
  IF reg.const THEN Pattern(reg.v, WordSize)
  ELSE IF InMemory(reg) THEN Full(LoadBytes(mem, Place[reg.id[2]], reg.size), reg.size)
  ELSE regs[reg.id]
Get(reg, size) == Pattern(Whole(reg), size)

\* Writing a register; bytes is the memory but for that write.
Put(reg, v, size, bytes) ==
  IF InMemory(reg)
  THEN mem' = StoreBytes(bytes, Place[reg.id[2]], size, Pattern(v, size)) /\ regs' = regs
  ELSE mem' = bytes /\ regs' = (reg.id :> Full(v, size)) @@ regs

\* The values of IR_MOV, IR_CAST, IR_BOFS and IR_IOFS, which leave the flags.
Move ==
  /\ At({"MOV", "CAST", "BOFS", "IOFS"})
  /\ Put(Instr.dst,
         IF Instr.op \in {"BOFS", "IOFS"} THEN Place[Instr.x]
         ELSE Wrap(Get(Instr.a, Instr.a.size), Instr.a.size, Instr.a.uns),
         Instr.size, mem)
  /\ Advance
  /\ UNCHANGED <<flags, stk, rax, out>>

LoadWord ==
  /\ At({"LOAD"})
  /\ Put(Instr.dst, LoadBytes(mem, Get(Instr.a, WordSize), Instr.size), Instr.size, mem)
  /\ Advance
  /\ UNCHANGED <<flags, stk, rax, out>>

StoreWord ==
  /\ At({"STORE"})
  /\ mem' = StoreBytes(mem, Get(Instr.b, WordSize), Instr.size, Get(Instr.a, Instr.size))
  /\ Advance
  /\ UNCHANGED <<regs, flags, stk, rax, out>>

CopyOrClear ==
  /\ At({"MEMCPY", "CLEAR"})
  /\ mem' = IF Instr.op = "CLEAR" THEN ClearBytes(mem, Get(Instr.a, WordSize), Instr.size)
            ELSE CopyBytes(mem, Get(Instr.b, WordSize), Get(Instr.a, WordSize), Instr.size)
  /\ flags' = NoFlags
  /\ Advance
  /\ UNCHANGED <<regs, stk, rax, out>>

\* The count of a shift is taken from the low byte, modulo the width.
ShiftCount(ir) ==
  (IF ir.b.const THEN ir.b.v ELSE Get(ir.b, 1)) % (CharBit * (IF ir.size = 8 THEN 8 ELSE 4))

Computed(ir) ==
  LET a(uns) == Wrap(Get(ir.a, ir.size), ir.size, uns)
      b(uns) == Wrap(Get(ir.b, ir.size), ir.size, uns)
  IN
  CASE ir.op = "NEG" -> -a(FALSE)
    [] ir.op = "BITNOT" -> -1 - a(FALSE)
    [] ir.op = "LSHIFT" -> Exact(ir.op, a(FALSE), ShiftCount(ir))
    [] ir.op = "RSHIFT" -> Exact(ir.op, a(ir.a.uns), ShiftCount(ir))
    [] ir.op = "DIVU" -> Exact("DIV", a(TRUE), b(TRUE))
    [] ir.op = "MODU" -> Exact("MOD", a(TRUE), b(TRUE))
    [] OTHER -> Exact(ir.op, a(FALSE), b(FALSE))

Calculate ==
  /\ At({"NEG", "BITNOT", "DIVU", "MODU"} \cup Arithmetic)
  /\ Put(Instr.dst, Computed(Instr), Instr.size, mem)
  /\ flags' = NoFlags
  /\ Advance
  /\ UNCHANGED <<stk, rax, out>>

IncDec ==
  /\ At({"INC", "DEC"})
  /\ LET at == Get(Instr.a, WordSize)
         old == LoadBytes(mem, at, Instr.size)
     IN  mem' = StoreBytes(mem, at, Instr.size,
                           Pattern(IF Instr.op = "INC" THEN old + Instr.x ELSE old - Instr.x,
                                   Instr.size))
  /\ flags' = NoFlags
  /\ Advance
  /\ UNCHANGED <<regs, stk, rax, out>>

Compare ==
  /\ At({"CMP", "TEST"})
  /\ flags' = [size |-> Instr.size, a |-> Get(Instr.a, Instr.size),
               b |-> IF Instr.op = "TEST" THEN 0 ELSE Get(Instr.b, Instr.size)]
  /\ Advance
  /\ UNCHANGED <<regs, stk, mem, rax, out>>

UnsignedOf == [ULT |-> "LT", ULE |-> "LE", UGE |-> "GE", UGT |-> "GT"]
Satisfied(cond) ==
  LET operand(v, uns) == Wrap(v, flags.size, uns)
      uns == cond \in DOMAIN UnsignedOf
  IN  cond = "ANY" \/ Holds(IF uns THEN UnsignedOf[cond] ELSE cond,
                            operand(flags.a, uns), operand(flags.b, uns))

SetCond ==
  /\ At({"COND"})
  /\ Put(Instr.dst, Truth(Satisfied(Instr.x)), Instr.size, mem)
  /\ Advance
  /\ UNCHANGED <<flags, stk, rax, out>>

Jump ==
  /\ At({"JMP"})
  /\ pc' = IF Satisfied(Instr.x.cond)
           THEN <<CHOOSE i \in DOMAIN bbs : bbs[i].bb = Instr.x.bb, 1>>
           ELSE <<pc[1], pc[2] + 1>>
  /\ UNCHANGED <<tidyVars, inMem, machine>>

PushArg ==
  /\ At({"PRECALL", "PUSHARG"})
  /\ stk' = IF Instr.op = "PRECALL" THEN stk ELSE Append(stk, Whole(Instr.a))
  /\ flags' = NoFlags
  /\ Advance
  /\ UNCHANGED <<regs, mem, rax, out>>

\* The call of an outside function: it takes its arguments from the top of
\* the stack on, notes them and returns the first.  The bound: code that makes
\* one call more than the source is wrong already and goes no further.
Call ==
  /\ At({"CALL"})
  /\ Len(out) <= Len(MeaningOf[prog].s.out)
  /\ LET params == Funcs[Instr.x]
         args == [i \in DOMAIN params |-> InType(stk[Len(stk) + 1 - i], params[i])]
     IN  /\ out' = Append(out, <<Instr.x, args>>)
         /\ rax' = Full(args[1], 4)
         /\ Put(Instr.dst, args[1], Instr.size, mem)
         /\ stk' = SubSeq(stk, 1, Len(stk) - Len(params))
  /\ flags' = NoFlags
  /\ Advance

Result ==
  /\ At({"RESULT"})
  /\ rax' = Full(Get(Instr.a, Instr.size), Instr.size)
  /\ Advance
  /\ UNCHANGED <<regs, flags, stk, mem, out>>

\* From the end of a block into the next, or of the last one out of the function.
FallThrough ==
  /\ Running /\ ~InBlock
  /\ pc' = <<pc[1] + 1, 1>>
  /\ UNCHANGED <<tidyVars, inMem, machine>>

Next ==
  \/ Generate \/ Tidy
  \/ Move \/ LoadWord \/ StoreWord \/ CopyOrClear \/ Calculate \/ IncDec
  \/ Compare \/ SetCond \/ Jump \/ PushArg \/ Call \/ Result
  \/ FallThrough

Spec == Init /\ [][Next]_vars
FairSpec == Spec /\ WF_vars(Next)

(***************************************************************************)
(* Properties.                                                             *)
(***************************************************************************)
\* The bytes of the variables that outlive the function.
Lasting == UNION {LET first == Place[x] IN first .. first + SizeOf(Vars[x].type) - 1 :
                    x \in {y \in DOMAIN Vars : ~IsLocal(y)}}

\* The generated code does what the source means: it makes the same calls with
\* the same arguments in the same order, and when it leaves, all were made, the
\* value returned is the source's and so is what lies in the variables that
\* outlive it (codegen.c, codegen_expr.c, and the parser's rewriting of
\* conditions, casts and constants).
MeansSource ==
  LET meant == MeaningOf[prog] IN
  /\ IsPrefix(out, meant.s.out)
  /\ Done =>
       /\ out = meant.s.out
       /\ meant.how = "return" => InType(rax, LongType) = meant.x
       /\ \A i \in Lasting : mem[i] = meant.s.mem[i]

\* What an instruction reads was written before, on whatever path control came:
\* the registers of a condition or a logical value that several blocks assign,
\* and the flags, which a second jump reads after the first (gen_switch_cond).
ReadsAreDefined ==
  (Running /\ InBlock) =>
    LET known(reg) == reg.const \/ InMemory(reg) \/ reg.id \in DOMAIN regs
        conditional == \/ Instr.op = "COND"
                       \/ Instr.op = "JMP" /\ Instr.x.cond # "ANY"
    IN  known(Instr.a) /\ known(Instr.b) /\ (conditional => flags # NoFlags)

\* A function that ends is compiled into code that ends: no loop loses its way
\* out and no jump of a dropped block goes round in circles.
Ends == <>Done
=============================================================================
