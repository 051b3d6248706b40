----------------------------- MODULE RegAlloc ------------------------------
(***************************************************************************)
(* From the intermediate code of a function to its code on physical        *)
(* registers, and a run of that code: alloc_physical_registers of          *)
(* src/cc/regalloc.c with what gen_defun does before it and what ir.c      *)
(* emits after it.                                                         *)
(*                                                                         *)
(* The flow analysis is RegFlow's and the allocation LinearScan's; this    *)
(* module joins them with the intervals, the registers living at each call *)
(* and the operands of spilled registers, and then executes the program    *)
(* with every register holding the value of one virtual register.          *)
(***************************************************************************)
EXTENDS RegFlow, LinearScan, SequencesExt

CONSTANTS
    Params(_),    \* the virtual registers that are parameters of a function
    CallerSave    \* the registers a called function may overwrite

ASSUME AllocAssumption == IsFiniteSet(VRegs) /\ N = Cardinality(VRegs)

VARIABLES
    phase,    \* what alloc_physical_registers is doing; "run" executes
    virt,     \* the virtual register of every sorted interval
    living,   \* the registers living at each call
    loads,    \* the spilled registers that instructions inserted before
    stores,   \* each instruction load, and those inserted after it store
    pc,       \* the point of the running program
    regs,     \* the virtual register whose value a register holds
    frame,    \* the same of the place that each spilled register has
    fresh     \* the virtual registers assigned on this run

runVars == <<pc, regs, frame, fresh>>
allocVars == <<phase, virt, living, loads, stores>>
vars == <<flowVars, scanVars, allocVars, runVars>>

-----------------------------------------------------------------------------
\* convert_3to2: `A = B op C` becomes `A = B; A = A op C`, and the negation
\* or complement `A = op B`, which has no second operand, `A = B; A = op A`.
Operate(ir) ==
    IF ir.op = "BOP"
    THEN << [ir EXCEPT !.op = "OP", !.opr2 = None],
            [ir EXCEPT !.opr1 = ir.dst] >>
    ELSE << ir >>

TwoAddress(irs) == FlattenSeq([j \in 1..Len(irs) |-> Operate(irs[j])])

Converted == {[b \in Blocks |-> TwoAddress(p[b])] : p \in Programs}

\* WORK_REG_NO, the register next to those given out, is Spilled: the number
\* of a spilled register is the register its value passes through.
PhysRegs == Regs("ireg")

Init ==
    /\ prog \in Converted
    /\ FlowStart
    /\ itv = << >> /\ state = << >> /\ phys = << >>
    /\ active = << >> /\ using = << >> /\ used = << >> /\ i = 1
    /\ phase = "flow"
    /\ virt = << >>
    /\ living = << >> /\ loads = << >> /\ stores = << >>
    /\ pc = <<1, 1>>
    /\ regs = [r \in PhysRegs \cup {Spilled} |-> None]
    /\ frame = [v \in VRegs |-> None]
    /\ fresh = {}

AnalyzeRegFlow ==
    /\ phase = "flow"
    /\ flow # "done"
    /\ FlowNext
    /\ UNCHANGED <<scanVars, allocVars, runVars>>

-----------------------------------------------------------------------------
\* nip, the number of instructions before a point.
Before[b \in 0..NB] == IF b = 0 THEN 0 ELSE Before[b - 1] + Len(prog[b])
Nip(p) == Before[p[1] - 1] + p[2] - 1

\* A definition standing before one it resembles, as MentionedInCode does, is
\* also a mistaken version of it that a property must notice.

\* The instruction numbers at which check_live_interval meets v: in an
\* instruction, on entry to a block and past the end of one.
MentionedInCode(v) ==
    {Nip(p) : p \in {q \in Points : /\ ~AtEnd(q)
                                         /\ v \in Opr(IrAt(q))
                                                  \cup Dst(IrAt(q))}}

Mentioned(v) ==
    MentionedInCode(v)
    \cup {Before[b - 1] : b \in {c \in Blocks : v \in in_regs[c]}}
    \cup {Before[b] : b \in {c \in Blocks : v \in out_regs[c]}}

StartOf(v) == IF Mentioned(v) = {} THEN -1 ELSE Min(Mentioned(v))
EndOf(v) == IF Mentioned(v) = {} THEN -1 ELSE Max(Mentioned(v))

\* ra->vregs, and the orders it can be sorted into.
VregList == SetToSeq(VRegs)
Orders == {s \in [1..N -> 1..N] : \A a, b \in 1..N : s[a] = s[b] => a = b}

\* check_live_interval, with the parameters spilled by force and their
\* start reset after the sort.  qsort may leave equal starts in any order.
CheckLiveInterval ==
    /\ phase = "flow"
    /\ flow = "done"
    /\ \E start \in {[v \in VRegs |-> StartOf(v)]},
          end \in {[v \in VRegs |-> EndOf(v)]}, s \in Orders :
          /\ virt' = [a \in 1..N |-> VregList[s[a]]]
          /\ \A a \in 1 .. (N - 1) : start[virt'[a]] <= start[virt'[a + 1]]
          /\ itv' = [a \in 1..N |->
                [start |-> IF virt'[a] \in Params(prog) THEN 0 ELSE start[virt'[a]],
                 end |-> end[virt'[a]],
                 file |-> "ireg",
                 kind |-> IF virt'[a] \in Params(prog) THEN "SPILL" ELSE "NORMAL"]]
    /\ state' = [a \in 1..N |-> itv'[a].kind]
    /\ phys' = [a \in 1..N |->
                 IF itv'[a].kind = "SPILL" THEN Spilled ELSE -1]
    /\ active' = [f \in Files |-> << >>]
    /\ using' = [f \in Files |-> {}]
    /\ used' = [f \in Files |-> {}]
    /\ i' = 1
    /\ phase' = "scan"
    /\ UNCHANGED <<flowVars, living, loads, stores, runVars>>

LinearScan ==
    /\ phase = "scan"
    /\ i <= N
    /\ ScanNext
    /\ UNCHANGED <<flowVars, allocVars, runVars>>

-----------------------------------------------------------------------------
\* Where the instructions are.
Instructions == {p \in Points : ~AtEnd(p)}

\* ir->call.living_pregs.
DetectLivingRegisters ==
    /\ phase = "scan"
    /\ i > N
    /\ living' = [p \in {q \in Instructions : IrAt(q).op = "CALL"} |->
                    LivingPregs(Nip(p))]
    /\ phase' = "spill"
    /\ UNCHANGED <<flowVars, scanVars, virt, loads, stores, runVars>>

-----------------------------------------------------------------------------
RegOf(v) == phys[CHOOSE a \in 1..N : virt[a] = v]
InFrame(v) == RegOf(v) = Spilled

\* Jumps have no operands; INC and DEC are not among the instructions that
\* insert_load_store_spilled knows.
Known(ir) == ir.op \in {"OP", "BOP", "CALL"}

LoadSpilled(ir) == IF Known(ir) THEN {v \in Opr(ir) : InFrame(v)} ELSE {}
StoreSpilled(ir) == IF Known(ir) THEN {v \in Dst(ir) : InFrame(v)} ELSE {}

\* The assertion: there is one register for both operands.
BothSpilled(ir) ==
    /\ Known(ir)
    /\ ir.opr1 # None /\ InFrame(ir.opr1)
    /\ ir.opr2 # None /\ InFrame(ir.opr2)

\* The function starts with its parameters in their places.
InsertLoadStoreSpilled ==
    /\ phase = "spill"
    /\ IF \E p \in Instructions : BothSpilled(IrAt(p))
       THEN phase' = "abort" /\ UNCHANGED <<loads, stores, frame, fresh>>
       ELSE /\ phase' = "run"
            /\ loads' = [p \in Instructions |-> LoadSpilled(IrAt(p))]
            /\ stores' = [p \in Instructions |-> StoreSpilled(IrAt(p))]
            /\ fresh' = {virt[a] : a \in {c \in 1..N : itv[c].kind = "SPILL"}}
            /\ frame' = [v \in VRegs |-> IF v \in fresh' THEN v ELSE None]
    /\ UNCHANGED <<flowVars, scanVars, virt, living, pc, regs>>

-----------------------------------------------------------------------------
\* The registers once the loads before an instruction are done.
Loaded ==
    [r \in DOMAIN regs |->
        IF r = Spilled /\ loads[pc] # {} THEN frame[CHOOSE v \in loads[pc] : TRUE]
        ELSE regs[r]]

\* Around a call the caller-save registers that live are stored and loaded
\* again; the others, and the one for spilled values, which no function
\* saves, come back with anything in them.
Overwritten ==
    IF IrAt(pc).op = "CALL" THEN (CallerSave \cup {Spilled}) \ living[pc] ELSE {}

\* One instruction of the allocated program, with its loads and stores.
Execute ==
    /\ phase = "run"
    /\ ~AtEnd(pc)
    /\ regs' = [r \in DOMAIN regs |->
                 IF \E v \in Dst(IrAt(pc)) : r = RegOf(v) THEN IrAt(pc).dst
                 ELSE IF r \in Overwritten THEN None ELSE Loaded[r]]
    /\ frame' = [v \in VRegs |-> IF v \in stores[pc] THEN regs'[Spilled] ELSE frame[v]]
    /\ fresh' = fresh \cup Dst(IrAt(pc))
    /\ pc' \in SuccPoints(pc)
    /\ UNCHANGED <<flowVars, scanVars, allocVars>>

NextBlock ==
    /\ phase = "run"
    /\ AtEnd(pc)
    /\ pc' \in SuccPoints(pc)
    /\ UNCHANGED <<flowVars, scanVars, allocVars, regs, frame, fresh>>

\* The function has returned, or the compiler has stopped.
Return ==
    /\ \/ phase = "abort"
       \/ phase = "run" /\ SuccPoints(pc) = {}
    /\ UNCHANGED vars

Next ==
    \/ AnalyzeRegFlow
    \/ CheckLiveInterval
    \/ LinearScan
    \/ DetectLivingRegisters
    \/ InsertLoadStoreSpilled
    \/ Execute
    \/ NextBlock
    \/ Return

\* The first instruction of a block assigns no value that is never read.
NoDeadFirst ==
    \A p \in Instructions : p[2] = 1 =>
        \A d \in Dst(IrAt(p)) : \E q \in SuccPoints(p) : q \in LivePoints(d)

Spec == Init /\ [][Next]_vars /\ WF_vars(Next)

-----------------------------------------------------------------------------
\* An instruction that reads a parameter, or a virtual register assigned
\* earlier on this run, finds its value in the register it names, whatever
\* was assigned, called, loaded and stored in between: allocation does not
\* change what the program computes.
ReadsOwnValue ==
    (phase = "run" /\ ~AtEnd(pc)) =>
        \A v \in Opr(IrAt(pc)) \cap fresh : Loaded[RegOf(v)] = v

\* Every function is allocated, unless the compiler stops at its assertion:
\* the loop over the blocks, which goes on while a set grows, and the scan
\* come to their ends.
AllocationEnds == <>(phase = "run" \/ phase = "abort")
=============================================================================
