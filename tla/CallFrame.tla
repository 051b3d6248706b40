----------------------------- MODULE CallFrame -----------------------------
(***************************************************************************)
(* A function call as the compiler emits it: gen_funcall (codegen_expr.c)  *)
(* lays the arguments out and ir_out (ir.c) turns IR_PRECALL, IR_PUSHARG   *)
(* and IR_CALL into stack operations, while prepare_register_allocation    *)
(* (regalloc.c) and put_args_to_stack (emit_code.c) decide, from the same  *)
(* types and without seeing the call, where the callee looks for its       *)
(* parameters.                                                             *)
(*                                                                         *)
(* One call is executed, possibly with another call inside one of its      *)
(* arguments.  Addresses are in bytes, in cells of four; rsp is relative   *)
(* to an address that is a multiple of 16.                                 *)
(***************************************************************************)
EXTENDS Integers, Sequences, FiniteSets, Functions

CONSTANTS
    MaxRegArgs,    \* MAX_REG_ARGS
    MaxFregArgs,   \* MAX_FREG_ARGS
    SaveOrder,     \* kCallerSaveFRegs and kCallerSaveRegs from the last to
                   \* the first, in the order both loops go through them
    Calls,         \* [args, ret_struct] of the calls that may be compiled
    InnerCalls,    \* those that may be made inside an argument
    FrameSizes,    \* what the function has on the stack before the call
    StackCells     \* the cells of memory the model has

WORD == 8
Cell == 4
CallerSave == Range(SaveOrder)

Junk == <<0, 0>>
Arg(id, k) == <<id, k>>       \* the value of argument k of call id
RetPtr(id) == <<id, 0>>       \* the address for a struct result
Held(r) == <<9, r>>           \* what a caller-save register holds before

VARIABLES
    frame,    \* bytes of locals and saved registers below the return address
    call,     \* the two calls: 1 the outer one, 2 the one in an argument
    living,   \* living_pregs of each
    irs,      \* the instructions still to be executed
    rsp,
    stackpos, \* the compiler's own count of what is on the stack
    aligned,  \* precall.stack_aligned of each call
    mem,      \* the stack
    regs,     \* caller-save registers that virtual registers may occupy
    ireg,     \* argument registers rdi, rsi, ...
    freg      \* argument registers xmm0, xmm1, ...

vars == <<frame, call, living, irs, rsp, stackpos, aligned, mem, regs, ireg, freg>>

Align(x, a) == ((x + a - 1) \div a) * a

-----------------------------------------------------------------------------
(* The caller's side.  Counters[k] are gen_funcall's ireg_index,           *)
(* freg_index and offset after the first k arguments.                      *)

First(c) == IF c.ret_struct THEN 1 ELSE 0

InRegister(arg, s) ==
    \/ arg.cls = "flo" /\ s.freg < MaxFregArgs
    \/ arg.cls = "int" /\ s.ireg < MaxRegArgs

Counted(c, k, s) ==
    LET a == c.args[k]
    IN  IF InRegister(a, s)
        THEN [ireg |-> IF a.cls = "int" THEN s.ireg + 1 ELSE s.ireg,
              freg |-> IF a.cls = "flo" THEN s.freg + 1 ELSE s.freg,
              offset |-> s.offset]
        ELSE [s EXCEPT !.offset = Align(@, a.align) + Align(a.size, WORD)]

Start(c) == [ireg |-> First(c), freg |-> 0, offset |-> 0]

Counters(c) ==
    LET After[k \in 0..Len(c.args)] ==
            IF k = 0 THEN Start(c) ELSE Counted(c, k, After[k - 1])
    IN  After

RegArgs(c) == {k \in 1..Len(c.args) : InRegister(c.args[k], Counters(c)[k - 1])}

StackOffset(c, k) == Align(Counters(c)[k - 1].offset, c.args[k].align)

StackArgsSize(c) == Align(Counters(c)[Len(c.args)].offset, 8)

RegArgCount(c) == Cardinality(RegArgs(c)) + First(c)

\* call.arg_vtypes[j], by the position of the argument.
VtypeOf(c, j) ==
    IF c.ret_struct /\ j = 1 THEN "int" ELSE c.args[j - First(c)].cls

\* Definitions that stand before one they resemble, as the next one does,
\* are mistaken versions of it: no specification uses them, and each is a
\* slip that one of the properties below must notice.
StoreOffsetIgnoringPushes(c, k) == StackOffset(c, k)

\* The room for a stack argument is above what has been pushed so far.
StoreOffset(c, k) ==
    StackOffset(c, k) + WORD * Cardinality({j \in RegArgs(c) : j > k})

\* The last instruction for argument k: the value is pushed, or stored in
\* the room for it above what has been pushed so far.
ArgIr(id, c, k) ==
    IF k \in RegArgs(c)
    THEN [op |-> "PUSHARG", id |-> id, n |-> 0, size |-> WORD, value |-> Arg(id, k)]
    ELSE [op |-> "STORE", id |-> id, n |-> StoreOffset(c, k),
          size |-> c.args[k].size, value |-> Arg(id, k)]

\* The arguments k, ..., 1, in this order; the value of argument at is
\* computed by the inner call.
ArgsIrs(id, c, at, inner) ==
    LET code[k \in 0..Len(c.args)] ==
            IF k = 0 THEN << >>
            ELSE (IF k = at THEN inner ELSE << >>) \o (<< ArgIr(id, c, k) >> \o code[k - 1])
    IN  code

RetIr(id) == [op |-> "PUSHARG", id |-> id, n |-> 0, size |-> WORD, value |-> RetPtr(id)]

Op(o, id) == [op |-> o, id |-> id, n |-> 0, size |-> 0, value |-> Junk]

\* IR_CALL is executed in its four parts.
CallIrs(id, c) ==
    (IF c.ret_struct THEN << RetIr(id) >> ELSE << >>)
    \o << Op("SAVE", id), Op("POPARGS", id), Op("INVOKE", id), Op("RESTORE", id) >>

GenFuncall(id, c, at, inner) ==
    << Op("PRECALL", id) >>
    \o ((IF StackArgsSize(c) > 0 THEN << Op("ADDSP", id) >> ELSE << >>)
        \o (ArgsIrs(id, c, at, inner)[Len(c.args)] \o CallIrs(id, c)))

\* How far a call comes down the stack at most, with its padding.
Room(c) == WORD * (Cardinality(CallerSave) + RegArgCount(c)) + StackArgsSize(c) + 15

\* The loops over kCallerSaveRegs come to every register once, and the
\* memory is large enough for two calls.
ASSUME CallAssumption ==
    /\ MaxRegArgs \in Nat \ {0} /\ MaxFregArgs \in Nat
    /\ SaveOrder \in Seq(CallerSave)
    /\ \A j, k \in DOMAIN SaveOrder : SaveOrder[j] = SaveOrder[k] => j = k
    /\ \A n \in FrameSizes : n \in Nat /\ n % WORD = 0
    /\ \A c \in Calls \cup InnerCalls :
          /\ c.args \in Seq(Range(c.args)) /\ c.ret_struct \in BOOLEAN
          /\ \A arg \in Range(c.args) :
                /\ arg.cls \in {"int", "flo", "struct"}
                /\ arg.size \in Nat /\ arg.size % Cell = 0 /\ arg.align \in Nat \ {0}
    /\ StackCells \in Nat
    /\ \A n \in FrameSizes, c \in Calls, d \in Calls \cup InnerCalls :
          8 + n + Room(c) + Room(d) <= Cell * StackCells

Instructions ==
    [op : {"PRECALL", "ADDSP", "PUSHARG", "STORE", "SAVE", "POPARGS", "INVOKE", "RESTORE"},
     id : {1, 2}, n : Nat, size : Nat, value : {Junk} \cup ({1, 2} \X Nat)]

Values == {Held(r) : r \in CallerSave} \cup {Junk} \cup ({1, 2} \X Nat)

Cells == {-Cell * k : k \in 1..StackCells}

TypeOK ==
    /\ frame \in FrameSizes
    /\ call \in Calls \X (Calls \cup InnerCalls)
    /\ living \in (SUBSET CallerSave) \X (SUBSET CallerSave)
    /\ irs \in Seq(Instructions)
    /\ rsp \in Int /\ stackpos \in Nat
    /\ aligned \in (0..15) \X (0..15)
    /\ mem \in [Cells -> Values]
    /\ regs \in [CallerSave -> Values]
    /\ ireg \in [0..(MaxRegArgs - 1) -> Values]
    /\ freg \in [0..(MaxFregArgs - 1) -> Values]

Init ==
    \E outer \in Calls, nested \in Calls \cup InnerCalls, size \in FrameSizes,
       lo \in SUBSET CallerSave, li \in SUBSET CallerSave :
      \E at \in 0..Len(outer.args) :
        \* What lives across the outer call lives across the inner one.
        /\ lo \subseteq li
        /\ IF at = 0 THEN nested = outer /\ li = lo ELSE nested \in InnerCalls
        /\ call = <<outer, nested>>
        /\ living = <<lo, li>>
        /\ irs = GenFuncall(1, outer, at, GenFuncall(2, nested, 0, << >>))
        /\ frame = size
        /\ stackpos = 8 + size
        /\ rsp = -(8 + size)
        /\ aligned = <<0, 0>>
        /\ mem = [a \in Cells |-> Junk]
        /\ regs = [r \in CallerSave |-> Held(r)]
        /\ ireg = [k \in 0..(MaxRegArgs - 1) |-> Junk]
        /\ freg = [k \in 0..(MaxFregArgs - 1) |-> Junk]

-----------------------------------------------------------------------------
Ir == Head(irs)
Executing(op) == irs # << >> /\ Ir.op = op /\ irs' = Tail(irs)
Called == call[Ir.id]

Stored(m, at, size, value) ==
    [a \in DOMAIN m |-> IF at <= a /\ a < at + size THEN value ELSE m[a]]

\* IR_PRECALL makes room for the registers that live and aligns the stack
\* for the call instruction.
Padding(id) == (16 - (stackpos + WORD * Cardinality(living[id])
                      + StackArgsSize(call[id]))) % 16

Precall ==
    LET room == WORD * Cardinality(living[Ir.id]) + Padding(Ir.id)
    IN  /\ Executing("PRECALL")
        /\ aligned' = [aligned EXCEPT ![Ir.id] = Padding(Ir.id)]
        /\ rsp' = rsp - room
        /\ stackpos' = stackpos + room
        /\ UNCHANGED <<frame, call, living, mem, regs, ireg, freg>>

AddSp ==
    /\ Executing("ADDSP")
    /\ rsp' = rsp - StackArgsSize(Called)
    /\ stackpos' = stackpos + StackArgsSize(Called)
    /\ UNCHANGED <<frame, call, living, aligned, mem, regs, ireg, freg>>

PushArg ==
    /\ Executing("PUSHARG")
    /\ rsp' = rsp - WORD
    /\ stackpos' = stackpos + WORD
    /\ mem' = Stored(mem, rsp - WORD, WORD, Ir.value)
    /\ UNCHANGED <<frame, call, living, aligned, regs, ireg, freg>>

\* IR_SOFS and IR_STORE, or IR_MEMCPY for a struct.
StoreArg ==
    /\ Executing("STORE")
    /\ mem' = Stored(mem, rsp + Ir.n, Ir.size, Ir.value)
    /\ UNCHANGED <<frame, call, living, rsp, stackpos, aligned, regs, ireg, freg>>

\* push_caller_save_regs: where a register that lives is stored.
PlaceOf(r) == CHOOSE j \in DOMAIN SaveOrder : SaveOrder[j] = r
StoredBefore(id, r) == Cardinality({q \in living[id] : PlaceOf(q) < PlaceOf(r)})
SaveBase(id) ==
    RegArgCount(call[id]) * WORD + StackArgsSize(call[id]) + aligned[id]

Save ==
    LET Holds(r, a) ==
            LET at == rsp + SaveBase(Ir.id) + WORD * StoredBefore(Ir.id, r)
            IN  r \in living[Ir.id] /\ at <= a /\ a < at + WORD
    IN  /\ Executing("SAVE")
        /\ mem' = [a \in DOMAIN mem |->
              IF \E r \in CallerSave : Holds(r, a)
              THEN regs[CHOOSE r \in CallerSave : Holds(r, a)]
              ELSE mem[a]]
        /\ UNCHANGED <<frame, call, living, rsp, stackpos, aligned, regs, ireg, freg>>

\* Which argument register the j-th pop goes to, by the type at position j.
PoppedBefore(c, j, cls) ==
    Cardinality({l \in 1..(j - 1) : (VtypeOf(c, l) = "flo") = (cls = "flo")})

PopArgs ==
    LET c == Called
        n == RegArgCount(c)
        Top(j) == mem[rsp + WORD * (j - 1)]
    IN  /\ Executing("POPARGS")
        /\ ireg' = [k \in DOMAIN ireg |->
              LET js == {j \in 1..n : VtypeOf(c, j) # "flo" /\ PoppedBefore(c, j, "int") = k}
              IN  IF js = {} THEN Junk ELSE Top(CHOOSE j \in js : TRUE)]
        /\ freg' = [k \in DOMAIN freg |->
              LET js == {j \in 1..n : VtypeOf(c, j) = "flo" /\ PoppedBefore(c, j, "flo") = k}
              IN  IF js = {} THEN Junk ELSE Top(CHOOSE j \in js : TRUE)]
        /\ rsp' = rsp + WORD * n
        /\ stackpos' = stackpos - WORD * n
        /\ UNCHANGED <<frame, call, living, aligned, mem, regs>>

\* The called function may write to its own frame, to its stack parameters
\* and to every caller-save register.
Invoke ==
    /\ Executing("INVOKE")
    /\ mem' = [a \in DOMAIN mem |->
                  IF a < rsp + StackArgsSize(Called) THEN Junk ELSE mem[a]]
    /\ regs' = [r \in CallerSave |-> Junk]
    /\ ireg' = [k \in DOMAIN ireg |-> Junk]
    /\ freg' = [k \in DOMAIN freg |-> Junk]
    /\ UNCHANGED <<frame, call, living, rsp, stackpos, aligned>>

\* The padding and the stack arguments are dropped and
\* pop_caller_save_regs loads what was saved.
DropArgsOnly(id) == StackArgsSize(call[id])
Drop(id) == aligned[id] + StackArgsSize(call[id])

\* pop_caller_save_regs: where it looks for it.
LoadedBeforeFromFirst(id, r) == Cardinality({q \in living[id] : PlaceOf(q) > PlaceOf(r)})
LoadedBefore(id, r) == Cardinality({q \in living[id] : PlaceOf(q) < PlaceOf(r)})

Restore ==
    LET drop == Drop(Ir.id)
    IN  /\ Executing("RESTORE")
        /\ regs' = [r \in CallerSave |->
              IF r \in living[Ir.id]
              THEN mem[rsp + drop + WORD * LoadedBefore(Ir.id, r)]
              ELSE regs[r]]
        /\ rsp' = rsp + drop + WORD * Cardinality(living[Ir.id])
        /\ stackpos' = stackpos - drop - WORD * Cardinality(living[Ir.id])
        /\ UNCHANGED <<frame, call, living, aligned, mem, ireg, freg>>

Done == irs = << >> /\ UNCHANGED vars

Next ==
    \/ Precall \/ AddSp \/ PushArg \/ StoreArg
    \/ Save \/ PopArgs \/ Invoke \/ Restore
    \/ Done

Spec == Init /\ [][Next]_vars

-----------------------------------------------------------------------------
(* The callee's side: where prepare_register_allocation and                *)
(* put_args_to_stack look for parameter k, counted from the stack pointer  *)
(* at the call instruction (rbp + 16).                                     *)

CountedParam(c, k, s) ==
    LET p == c.args[k]
    IN  IF p.cls = "struct"
        THEN [s EXCEPT !.offset = Align(@, p.align) + p.size]
        ELSE [ireg |-> IF p.cls = "int" THEN s.ireg + 1 ELSE s.ireg,
              freg |-> IF p.cls = "flo" THEN s.freg + 1 ELSE s.freg,
              offset |-> IF InRegister(p, s) THEN s.offset ELSE s.offset + WORD]

CalleeCounters(c) ==
    LET After[k \in 0..Len(c.args)] ==
            IF k = 0 THEN Start(c) ELSE CountedParam(c, k, After[k - 1])
    IN  After

ParamArrives(id, c, k) ==
    LET s == CalleeCounters(c)[k - 1]
        p == c.args[k]
        at == rsp + IF p.cls = "struct" THEN Align(s.offset, p.align) ELSE s.offset
    IN  IF InRegister(p, s)
        THEN Arg(id, k) = IF p.cls = "flo" THEN freg[s.freg] ELSE ireg[s.ireg]
        ELSE \A a \in DOMAIN mem :
                (at <= a /\ a < at + p.size) => mem[a] = Arg(id, k)

\* The calls for which this is promised.  The pops go through the types of
\* the first arguments in order: they are those of the arguments in registers
\* if no argument of the other register file comes before the last of these
\* and is on the stack.
TypesLineUp(c) ==
    \A k \in RegArgs(c) :
        LET popped == Cardinality({j \in RegArgs(c) : j <= k})
        IN  (c.args[popped].cls = "flo") <=> (c.args[k].cls = "flo")

\* And scalars fit a register, structs consist of words.
GoodCall(c) ==
    /\ TypesLineUp(c)
    /\ \A arg \in Range(c.args) :
          IF arg.cls = "struct"
          THEN arg.size % WORD = 0 /\ (WORD % arg.align = 0 \/ arg.align % WORD = 0)
          ELSE arg.size \in 1..WORD /\ WORD % arg.align = 0

\* At the call instruction every argument, and the address for a struct
\* result, is where the callee looks for it, also when another call ran
\* while half of the arguments were on the stack.
ArgsArrive ==
    (irs # << >> /\ Ir.op = "INVOKE") =>
        /\ \A k \in 1..Len(Called.args) : ParamArrives(Ir.id, Called, k)
        /\ Called.ret_struct => ireg[0] = RetPtr(Ir.id)

\* stackpos is right after every instruction, the stack pointer a multiple
\* of 16 at every call instruction, inner calls included, as the ABI
\* requires, and both are back where they were after the call: emit_defun
\* asserts that a function ends with what it began.
StackAccounted ==
    /\ rsp = -stackpos
    /\ (irs # << >> /\ Ir.op = "INVOKE") => rsp % 16 = 0
    /\ irs = << >> => stackpos = 8 + frame

\* A register read after a call holds what it held before it: those living
\* across the inner call until the outer one is made, those living across
\* the outer one at the end.
LivingKept ==
    /\ irs = << >> => \A r \in living[1] : regs[r] = Held(r)
    /\ (/\ \A k \in 1..Len(irs) : irs[k].id = 1
        /\ \E k \in 1..Len(irs) : irs[k].op = "INVOKE")
          => \A r \in living[2] : regs[r] = Held(r)
=============================================================================
