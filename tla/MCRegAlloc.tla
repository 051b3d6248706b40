---------------------------- MODULE MCRegAlloc -----------------------------
(***************************************************************************)
(* Instances of RegAlloc, of three kinds: functions of two blocks that     *)
(* compute with several virtual registers and are run to the end; flow     *)
(* graphs of three blocks over one register; and intervals of both files   *)
(* given to the scan as they are.                                          *)
(***************************************************************************)
EXTENDS RegAlloc

CONSTANTS IRegs, FRegs,
          BodyLen,     \* computing instructions in a block
          LastPoint    \* of the intervals

MCPhysMax == [f \in Files |-> IF f = "ireg" THEN IRegs ELSE FRegs]

Ir(op, d, a, b, t) == [op |-> op, dst |-> d, opr1 |-> a, opr2 |-> b, to |-> t]
Jumps(ops, targets) == {Ir(op, None, None, None, t) : op \in ops, t \in targets}
SeqsUpTo(S, n) == UNION {[1..k -> S] : k \in 0..n}

\* Functions over all registers but the last, numbered in the order in which
\* the code mentions them: a body and a condition, entered from the top or,
\* as gen_while lays them out, at the condition.
Computed == VRegs \ {Max(VRegs)}
Mention(what, v) ==
    Ir(IF what = "call" THEN "CALL" ELSE "OP", IF what = "read" THEN None ELSE v,
       IF what = "read" THEN v ELSE None, None, 1)
Numbered ==
    {r \in [1 .. 2 * BodyLen -> Computed] :
        \A m \in DOMAIN r : r[m] <= 1 + Max({0} \cup {r[l] : l \in 1 .. (m - 1)})}
Block1(whats, r, j) == [m \in 1..BodyLen |-> Mention(whats[m], r[m])] \o j
Block2(whats, r, j) ==
    [m \in 1..BodyLen |-> Mention(whats[BodyLen + m], r[BodyLen + m])] \o j
Turns1 == SeqsUpTo(Jumps({"JCC"}, {2}) \cup Jumps({"JMP"}, {3}), 1)
Turns2 == SeqsUpTo(Jumps({"JCC"}, {2, 3}) \cup Jumps({"JMP"}, {2}), 1)
Entered(from, turns1, turns2) ==
    {<<from, Block1(w, r, j1), Block2(w, r, j2)>> :
        w \in [1 .. 2 * BodyLen -> {"set", "read", "call"}], r \in Numbered,
        j1 \in turns1, j2 \in turns2}
ToCondition == <<Ir("JMP", None, None, None, 3)>>
Functions ==
    Entered(<< >>, Turns1, Turns2)
    \cup Entered(ToCondition, {<< >>}, {<<j>> : j \in Jumps({"JCC"}, {2})})

\* Flow graphs over the first register: a block reads it, assigns it, both
\* or neither, and goes on, back, round or to the end.
Touching == {<< >>} \cup {<<Ir("OP", p[1], p[2], None, 1)>> :
                             p \in {<<1, None>>, <<None, 1>>, <<1, 1>>}}
Going == <<Jumps({"JMP"}, {3}) \cup Jumps({"JCC"}, {1, 3}),
           Jumps({"JMP"}, {1}) \cup Jumps({"JCC"}, {1, 2}),
           Jumps({"JMP"}, {1, 2}) \cup Jumps({"JCC"}, {1, 2, 3})>>
GraphBlocks(b) == {c \o j : c \in Touching, j \in SeqsUpTo(Going[b], 1)}
Graphs == {<<a, b, c>> : a \in GraphBlocks(1), b \in GraphBlocks(2), c \in GraphBlocks(3)}

\* Sums, whose operands may all be spilled, and negations, before a block
\* that reads the operands.
Sum(d, a, b) == Ir("BOP", d, a, b, 1)
Sums ==
    {<< << >>, <<Sum(d, a, b)>> \o j, <<Mention("read", x), Mention("read", d)>> >> :
        d \in Computed, a \in Computed, b \in Computed \cup {None}, x \in {1, 2}, j \in Turns1}

AnyProgram == Functions \cup Graphs \cup Sums

\* ++*p of a parameter p, whose address is in the frame.
Increments == {<<<<Ir("INC", None, 1, None, 1)>>, << >>, << >> >>}

\* What the code, in the order in which it is first come to, reads before
\* it assigns it, is a parameter.
InRunOrder(p) == IF p[1] = ToCondition THEN p[3] \o p[2] ELSE FlattenSeq(p)
First(code, v) ==
    LET at == {j \in DOMAIN code : v \in Opr(code[j]) \cup Dst(code[j])}
    IN  IF at = {} THEN << >> ELSE <<code[Min(at)]>>
MCParams(p) ==
    {v \in Computed : \E c \in {InRunOrder(p)} : \E ir \in ToSet(First(c, v)) : v \in Opr(ir)}

(***************************************************************************)
(* A scan of any intervals, of a function whose code is left out.          *)
(***************************************************************************)
Mentions(files, kinds) ==
    {v \in [start : 0..LastPoint, end : 0..LastPoint, file : files, kind : kinds] :
        v.start <= v.end}
Whole == {v \in Mentions({"freg"}, {"NORMAL"}) \cup Mentions(Files, {"SPILL"}) :
             v.start = 0 /\ v.end = LastPoint}
Halves == {v \in Mentions({"freg"}, {"NORMAL"}) : {v.start, v.end} \in {{0, 1}, {1, 2}}}

\* A vreg no instruction names keeps the interval [-1, -1].
MCInterval ==
    Mentions({"ireg"}, {"NORMAL"}) \cup Whole \cup Halves \cup
    {[start |-> -1, end |-> -1, file |-> "ireg", kind |-> "NORMAL"]}

IntervalsInit ==
    /\ ScanInit
    /\ prog = [b \in Blocks |-> << >>]
    /\ in_regs = [b \in Blocks |-> {}] /\ out_regs = in_regs /\ assigned_regs = in_regs
    /\ bi = 1 /\ cont = FALSE /\ flow = "done"
    /\ phase = "scan"
    /\ virt = [a \in 1..N |-> a]
    /\ pc = <<NB, 1>> /\ regs = [r \in PhysRegs \cup {Spilled} |-> None]
    /\ frame = [v \in VRegs |-> None] /\ fresh = {}
    /\ living = << >> /\ loads = << >> /\ stores = << >>

\* Registers that no instruction names are all alike: one order of them is
\* enough.
InOrder ==
    phase = "flow" /\ phase' = "scan" =>
        \A a \in 1..N, b \in 1..N :
            a < b /\ itv'[a].start = -1 /\ itv'[b].start = -1 => virt'[a] < virt'[b]
MCNext == Next /\ InOrder

AnySpec == Init /\ [][MCNext]_vars
MCSpec == ((Init /\ NoDeadFirst) \/ IntervalsInit) /\ [][MCNext]_vars /\ WF_vars(MCNext)
=============================================================================
