------------------------------ MODULE MCDefun -------------------------------
(***************************************************************************)
(* Two passes that gen_defun makes over a function of the program:         *)
(* remove_unnecessary_bb over its blocks, and, for what register           *)
(* allocation left without a register, the layout of its frame.  Neither   *)
(* reads what the other decides, so each is run over instances of its own. *)
(***************************************************************************)
EXTENDS FrameLayout, BasicBlocks

CONSTANTS MaxParams, MaxLocals,   \* of a frame
          NB                      \* blocks of a function

VARIABLE pass   \* "blocks" or "frame"

(***************************************************************************)
(* Frames: all functions with up to MaxParams parameters and MaxLocals     *)
(* spilled local variables of the types below.                             *)
(***************************************************************************)
Char == [cls |-> "int", size |-> 1, align |-> 1]
Long == [cls |-> "int", size |-> 8, align |-> 8]
Double == [cls |-> "flo", size |-> 8, align |-> 8]
Struct(size, align) == [cls |-> "struct", size |-> size, align |-> align]

ParamTypes == {Char, Long, Double, Struct(12, 4)}
LocalTypes == {Char, Long, Struct(12, 4), Struct(0, 1)}

UpTo(types, n) == UNION {[1..l -> types] : l \in 0..n}

AllFunctions ==
    [params : UpTo(ParamTypes, MaxParams), locals : UpTo(LocalTypes, MaxLocals),
     vaargs : BOOLEAN, ret_struct : BOOLEAN]

GoodFunctions == {f \in AllFunctions : GoodFunction(f)}

NoFrame == [params |-> <<>>, locals |-> <<>>, vaargs |-> FALSE, ret_struct |-> FALSE]

(***************************************************************************)
(* Blocks: every function of NB blocks, in each of which an instruction    *)
(* may stand before a jump to any block or, in the middle, a goto.         *)
(***************************************************************************)
AnInstr == [op |-> "MOV", x |-> 0]
JumpTo(cond, l) == [op |-> "JMP", x |-> [cond |-> cond, bb |-> <<l>>]]

\* What a block may hold, as a sequence.
Contents ==
  LET to(before, cond) == [l \in 1 .. NB |-> Append(before, JumpTo(cond, l))]
  IN  <<<<>>, <<AnInstr>>, <<JumpTo("ANY", 1), JumpTo("ANY", 2)>>>>
        \o to(<<>>, "ANY") \o to(<<>>, "ULE") \o to(<<AnInstr>>, "ANY") \o to(<<AnInstr>>, "LT")

\* The blocks but the last, where a function is left, are the digits of the
\* function's number.
MCCode ==
  LET contents == Contents
      base == Len(contents)
      holds(n, i) == contents[((n \div base ^ (i - 1)) % base) + 1]
  IN  [n \in 1 .. base ^ (NB - 1) |->
         [bbs |-> [i \in 1 .. NB |->
            [bb |-> <<i>>, irs |-> IF i = NB THEN <<>> ELSE holds(n, i)]]]]

(***************************************************************************)
(* One pass, with the other waiting at its start.                          *)
(***************************************************************************)
TidyEnded == phase \in {"assembled", "rejected"} /\ UNCHANGED tidyVars

MCInit == \/ pass = "frame" /\ Init /\ prog = 1 /\ TidyInit
          \/ pass = "blocks" /\ fn = NoFrame /\ Init /\ TidyInit
MCNext == \/ pass = "frame" /\ Next /\ UNCHANGED <<pass, tidyVars>>
          \/ pass = "blocks" /\ (TidyNext \/ TidyEnded) /\ UNCHANGED <<pass, vars>>
MCSpec == MCInit /\ [][MCNext]_<<pass, vars, tidyVars>>
=============================================================================
