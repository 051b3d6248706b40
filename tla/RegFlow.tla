------------------------------ MODULE RegFlow ------------------------------
(***************************************************************************)
(* Which virtual registers live on from one basic block to the next:       *)
(* analyze_reg_flow of src/cc/regalloc.c.                                  *)
(*                                                                         *)
(* A program is a sequence of basic blocks in layout order, a block a      *)
(* sequence of instructions [op, dst, opr1, opr2, to].  `op` keeps only    *)
(* what the flow of registers and of control depends on: "JMP" jumps       *)
(* always, "JCC" under a condition, and anything else falls through.  A    *)
(* constant operand is no register, and is None.                           *)
(***************************************************************************)
EXTENDS Integers, Sequences, FiniteSets

CONSTANTS
    VRegs,     \* the virtual registers of the function
    None,      \* an operand an instruction does not have
    NB,        \* the number of basic blocks
    Programs   \* the functions that may be compiled

Blocks == 1..NB

Instr == [op : {"OP", "BOP", "INC", "CALL", "JMP", "JCC"},
          dst : VRegs \cup {None},
          opr1 : VRegs \cup {None},
          opr2 : VRegs \cup {None},
          to : Blocks]

ASSUME FlowAssumption ==
    /\ None \notin VRegs
    /\ NB \in Nat \ {0}
    /\ Programs \subseteq [Blocks -> Seq(Instr)]

VARIABLES
    prog,           \* bbcon->bbs, the irs of every block
    in_regs,        \* bb->in_regs
    out_regs,       \* bb->out_regs
    assigned_regs,  \* bb->assigned_regs
    bi,             \* the block the running loop has come to
    cont,           \* some in_regs grew in this pass
    flow            \* which of the two loops runs

flowVars == <<prog, in_regs, out_regs, assigned_regs, bi, cont, flow>>

Opr(ir) == {ir.opr1, ir.opr2} \ {None}
Dst(ir) == {ir.dst} \ {None}

FlowStart ==
    /\ in_regs = [b \in Blocks |-> {}]
    /\ out_regs = [b \in Blocks |-> {}]
    /\ assigned_regs = [b \in Blocks |-> {}]
    /\ bi = 1
    /\ cont = FALSE
    /\ flow = "enumerate"

FlowInit == prog \in Programs /\ FlowStart

-----------------------------------------------------------------------------
\* Where a definition stands before one it resembles, as NextBBsLaidOut
\* does, it is a mistaken version of it that no specification uses: a slip
\* that one of the properties below must notice.

\* The registers a block reads before it assigns them.
UsedFirst(irs) ==
    {v \in VRegs : \E j \in 1..Len(irs) :
        /\ v \in Opr(irs[j])
        /\ \A k \in 1..(j - 1) : v \notin Dst(irs[k])}

Assigned(irs) == UNION {Dst(irs[j]) : j \in 1..Len(irs)}

\* The body of the first loop.
Enumerate ==
    /\ flow = "enumerate"
    /\ in_regs' = [in_regs EXCEPT ![bi] = UsedFirst(prog[bi])]
    /\ out_regs' = [out_regs EXCEPT ![bi] = {}]
    /\ assigned_regs' = [assigned_regs EXCEPT ![bi] = Assigned(prog[bi])]
    /\ IF bi < NB
       THEN bi' = bi + 1 /\ UNCHANGED flow
       ELSE bi' = 1 /\ flow' = "propagate"
    /\ UNCHANGED <<prog, cont>>

\* next_bbs: the block laid out next, unless the last instruction always
\* jumps, and the target of the last instruction if it is a jump.
LastOf(b) == prog[b][Len(prog[b])]
EndsIn(b, ops) == Len(prog[b]) > 0 /\ LastOf(b).op \in ops

NextBBsLaidOut(b) == {n \in Blocks : n = b + 1 /\ ~EndsIn(b, {"JMP"})}

NextBBs(b) ==
    {n \in Blocks : \/ n = b + 1 /\ ~EndsIn(b, {"JMP"})
                    \/ EndsIn(b, {"JMP", "JCC"}) /\ n = LastOf(b).to}

\* `cont` is set for each register that in_regs did not contain.
GrewAlways(old, new) == new # {}
Grew(old, new) == new # old

\* The body of the second loop.  A block that is its own successor comes
\* last in next_bbs: what it takes over from the others it hands to itself.
Propagate ==
    LET before == UNION {in_regs[n] : n \in NextBBs(bi)}
        grown == in_regs[bi] \cup (before \ assigned_regs[bi])
    IN  /\ flow = "propagate"
        /\ in_regs' = [in_regs EXCEPT ![bi] = grown]
        /\ out_regs' = [out_regs EXCEPT ![bi] =
                @ \cup before \cup IF bi \in NextBBs(bi) THEN grown ELSE {}]
        /\ LET again == cont \/ Grew(in_regs[bi], grown)
           IN  IF bi < NB
               THEN bi' = bi + 1 /\ cont' = again /\ UNCHANGED flow
               ELSE /\ bi' = 1
                    /\ cont' = FALSE
                    /\ flow' = IF again THEN "propagate" ELSE "done"
        /\ UNCHANGED <<prog, assigned_regs>>

FlowDone == flow = "done" /\ UNCHANGED flowVars

FlowNext == Enumerate \/ Propagate \/ FlowDone

FlowSpec == FlowInit /\ [][FlowNext]_flowVars

-----------------------------------------------------------------------------
\* What the flow analysis is for, read off the program itself.  <<b, j>> is
\* the point before instruction j of block b, and the last one of a block
\* is past its instructions.
Points == UNION {{b} \X (1 .. (Len(prog[b]) + 1)) : b \in Blocks}

AtEnd(p) == p[2] = Len(prog[p[1]]) + 1
IrAt(p) == prog[p[1]][p[2]]
Entry(b) == <<b, 1>>

\* Where execution can go from a point.  The last block falls through to
\* the epilogue, which reads no virtual register.
SuccPoints(p) ==
    IF AtEnd(p) THEN {Entry(b) : b \in Blocks \cap {p[1] + 1}}
    ELSE (IF IrAt(p).op \in {"JMP", "JCC"} THEN {Entry(IrAt(p).to)} ELSE {})
         \cup (IF IrAt(p).op # "JMP" THEN {<<p[1], p[2] + 1>>} ELSE {})

\* The points at which v holds a value that some execution still reads:
\* one where it is read, and one from which execution can go there without
\* assigning it, by at most so many steps as there are points.
Uses(v) == {p \in Points : ~AtEnd(p) /\ v \in Opr(IrAt(p))}
Defs(v) == {p \in Points : ~AtEnd(p) /\ v \in Dst(IrAt(p))}

LivePoints(v) ==
    LET Passing == Points \ Defs(v)
        Within[n \in 0..Cardinality(Points)] ==
            IF n = 0 THEN Uses(v)
            ELSE LET after == Within[n - 1]
                 IN  after \cup {p \in Passing : SuccPoints(p) \cap after # {}}
    IN  IF Uses(v) = {} THEN {} ELSE Within[Cardinality(Points)]

\* The blocks execution can go to from block b: nothing behind a JMP runs.
Leaves(b) ==
    {n \in Blocks : \E j \in 1 .. (Len(prog[b]) + 1) :
        /\ \A k \in 1 .. (j - 1) : prog[b][k].op # "JMP"
        /\ Entry(n) \in SuccPoints(<<b, j>>)}

\* ir.h: a block is a chunk of code without branching in the middle, except
\* at the bottom.
JumpsLast(p) ==
    \A b \in Blocks : \A j \in 1..Len(p[b]) : p[b][j].op \in {"JMP", "JCC"} => j = Len(p[b])

-----------------------------------------------------------------------------
FlowTypeOK ==
    /\ prog \in [Blocks -> Seq(Instr)]
    /\ in_regs \in [Blocks -> SUBSET VRegs]
    /\ out_regs \in [Blocks -> SUBSET VRegs]
    /\ assigned_regs \in [Blocks -> SUBSET VRegs]
    /\ bi \in Blocks
    /\ cont \in BOOLEAN
    /\ flow \in {"enumerate", "propagate", "done"}

\* What the loops compute, block by block, is live-variable analysis: a
\* register whose value is read after a block is entered or left belongs to
\* the block's in_regs or out_regs, or check_live_interval ends its interval
\* too early and its physical register is reused; and none is kept alive
\* across a boundary for nothing.
SetsAreLiveness ==
    \A v \in VRegs :
        LET live == LivePoints(v)
        IN  \A b \in Blocks :
               /\ v \in in_regs[b] <=> Entry(b) \in live
               /\ v \in out_regs[b] <=> \E n \in Leaves(b) : Entry(n) \in live

\* When the loop stops the three sets of every block satisfy the equations
\* of live-variable analysis, whatever the program.
Balanced(b) ==
    /\ out_regs[b] = UNION {in_regs[n] : n \in NextBBs(b)}
    /\ in_regs[b] = UsedFirst(prog[b]) \cup (out_regs[b] \ assigned_regs[b])

FlowBalanced == flow = "done" => \A b \in Blocks : Balanced(b)

\* What analyze_reg_flow hands on is liveness, neither less nor more.
FlowIsLiveness == [][(flow # "done" /\ flow' = "done") => SetsAreLiveness']_flowVars
=============================================================================
