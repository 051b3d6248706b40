----------------------------- MODULE BasicBlocks ----------------------------
(***************************************************************************)
(* The blocks of a function, and remove_unnecessary_bb of src/cc/ir.c,     *)
(* which drops those that do nothing: an empty one, and one that only      *)
(* jumps if control enters it by jumps alone.  The jumps to it are led to  *)
(* where it leads.  Control runs from a block into the one behind it       *)
(* unless the last instruction jumps; only last jumps are led elsewhere.   *)
(*                                                                         *)
(* bb->next is the block that follows in bbs: the code keeps the two alike *)
(* when it drops a block.                                                  *)
(***************************************************************************)
EXTENDS Integers, SequencesExt

CONSTANT Code   \* what is generated of each function: [bbs |-> its blocks, ...]

\* TLC keeps the value of a definition; that of a constant it computes anew.
CodeOf == Code

(***************************************************************************)
(* Blocks, each with its label bb and its instructions irs; of a jump, x   *)
(* is its condition and the block it leads to.                             *)
(***************************************************************************)
Inverted == [EQ |-> "NE", NE |-> "EQ", LT |-> "GE", GE |-> "LT", LE |-> "GT", GT |-> "LE",
            ULT |-> "UGE", UGE |-> "ULT", ULE |-> "UGT", UGT |-> "ULE"]
Conds == DOMAIN Inverted \cup {"ANY"}
InvertCond(cond) == Inverted[cond]

Labels(blocks) == {blocks[i].bb : i \in DOMAIN blocks}
JumpsIn(irs) == {j \in DOMAIN irs : irs[j].op = "JMP"}
Jumps(blocks) == UNION {{blocks[i].irs[j].x.bb : j \in JumpsIn(blocks[i].irs)} : i \in DOMAIN blocks}

EndsInJmp(block) == block.irs # <<>> /\ Last(block.irs).op = "JMP"
EndsInAnyJmp(block) == EndsInJmp(block) /\ Last(block.irs).x.cond = "ANY"
Cond(block) == Last(block.irs).x.cond
Target(block) == Last(block.irs).x.bb
LedTo(ir, x) == [ir EXCEPT !.x = x]
SetTarget(block, cond, bb) ==
  [block EXCEPT !.irs = Append(Front(@), LedTo(Last(@), [cond |-> cond, bb |-> bb]))]

RedirectAny(blocks, from, to) ==
  [i \in DOMAIN blocks |->
     IF blocks[i].bb # from /\ EndsInAnyJmp(blocks[i]) /\ Target(blocks[i]) = from
     THEN SetTarget(blocks[i], "ANY", to) ELSE blocks[i]]
\* replace_jmp_destination
Redirect(blocks, from, to) ==
  [i \in DOMAIN blocks |->
     IF blocks[i].bb # from /\ EndsInJmp(blocks[i]) /\ Target(blocks[i]) = from
     THEN SetTarget(blocks[i], Cond(blocks[i]), to) ELSE blocks[i]]

\* A block that only jumps, and elsewhere.
JumpsOnly(block) == Len(block.irs) = 1 /\ EndsInAnyJmp(block) /\ Target(block) # block.bb

\* It may go if control enters it by jumps alone, or else if the jump before
\* it, turned round, can take its place.
FallsIn(before) == ~EndsInAnyJmp(before)
RemovableAfterAny(before, next) == EndsInJmp(before)
Removable(before, next) == EndsInJmp(before) /\ (FallsIn(before) => Target(before) = next)
TurnedRound(before, bb) ==
  IF FallsIn(before) THEN SetTarget(before, InvertCond(Cond(before)), bb) ELSE before

\* A last jump to the block that follows.
WithoutJumpsToNext(blocks) ==
  [i \in DOMAIN blocks |->
     IF i < Len(blocks) /\ EndsInAnyJmp(blocks[i]) /\ Target(blocks[i]) = blocks[i + 1].bb
     THEN [blocks[i] EXCEPT !.irs = Front(@)] ELSE blocks[i]]

(***************************************************************************)
(* What may be given to it: blocks with labels of their own, and jumps to  *)
(* some of them.                                                           *)
(***************************************************************************)
Nowhere == <<>>   \* where control goes from the end: no block's label

IsSequence(s) == Len(s) \in Nat /\ s = [i \in 1 .. Len(s) |-> s[i]]
IsInstr(ir, labels) ==
  /\ {"op", "x"} \subseteq DOMAIN ir /\ ir = [field \in DOMAIN ir |-> ir[field]]
  /\ ir.op = "JMP" => ir.x \in [cond : Conds, bb : labels]
IsBlock(block, labels) ==
  /\ block = [bb |-> block.bb, irs |-> block.irs]
  /\ IsSequence(block.irs) /\ \A j \in DOMAIN block.irs : IsInstr(block.irs[j], labels)
IsBlocks(blocks) ==
  /\ IsSequence(blocks) /\ blocks # <<>>
  /\ \A i, j \in DOMAIN blocks : blocks[i].bb = blocks[j].bb => i = j
  /\ Nowhere \notin Labels(blocks)
  /\ \A i \in DOMAIN blocks : IsBlock(blocks[i], Labels(blocks))

ASSUME BlocksAssumption == \A p \in DOMAIN CodeOf : IsBlocks(CodeOf[p].bbs)

(***************************************************************************)
(* The passes over the blocks, which leave the last one.                   *)
(***************************************************************************)
VARIABLES prog,    \* the function: an index of Code
          phase,   \* "parsed", "generated", then "assembled" or "rejected"
          bbs,     \* its blocks
          scan     \* the pass of remove_unnecessary_bb: [i, again]

tidyVars == <<prog, phase, bbs, scan>>

TidyInit ==
  /\ prog \in DOMAIN CodeOf /\ phase = "parsed" /\ bbs = <<>>
  /\ scan = [i |-> 1, again |-> FALSE]

\* gen_defun has made its blocks.
Generated ==
  /\ phase = "parsed"
  /\ phase' = "generated" /\ bbs' = CodeOf[prog].bbs
  /\ UNCHANGED <<prog, scan>>

\* One round of the inner loop.
Scanning == phase = "generated" /\ scan.i < Len(bbs)

RemoveEmpty ==
  /\ Scanning /\ bbs[scan.i].irs = <<>>
  /\ bbs' = RemoveAt(Redirect(bbs, bbs[scan.i].bb, bbs[scan.i + 1].bb), scan.i)
  /\ scan' = [scan EXCEPT !.again = TRUE]
  /\ UNCHANGED <<prog, phase>>

RemoveJump ==
  /\ Scanning /\ scan.i > 1 /\ JumpsOnly(bbs[scan.i])
  /\ LET block == bbs[scan.i]
         past == Redirect(bbs, block.bb, Target(block))
         before == past[scan.i - 1]
     IN  /\ Removable(before, bbs[scan.i + 1].bb)
         /\ bbs' = RemoveAt([past EXCEPT ![scan.i - 1] = TurnedRound(before, Target(block))],
                            scan.i)
  /\ scan' = [scan EXCEPT !.again = TRUE]
  /\ UNCHANGED <<prog, phase>>

KeepBlock ==
  /\ Scanning /\ bbs[scan.i].irs # <<>>
  /\ LET block == bbs[scan.i]
         past == Redirect(bbs, block.bb, Target(block))
     IN  IF JumpsOnly(block)
         THEN /\ scan.i > 1 => ~Removable(past[scan.i - 1], bbs[scan.i + 1].bb)
              /\ bbs' = past
         ELSE bbs' = bbs
  /\ scan' = [scan EXCEPT !.i = @ + 1]
  /\ UNCHANGED <<prog, phase>>

ScanAgain ==
  /\ phase = "generated" /\ scan.i = Len(bbs) /\ scan.again
  /\ scan' = [i |-> 1, again |-> FALSE]
  /\ UNCHANGED <<prog, phase, bbs>>

\* A jump to a block that is gone is an undefined label for the assembler.
Assemble ==
  /\ phase = "generated" /\ scan.i = Len(bbs) /\ ~scan.again
  /\ bbs' = WithoutJumpsToNext(bbs)
  /\ phase' = IF Jumps(bbs') \subseteq Labels(bbs') THEN "assembled" ELSE "rejected"
  /\ UNCHANGED <<prog, scan>>

TidyBlocks == RemoveEmpty \/ RemoveJump \/ KeepBlock \/ ScanAgain \/ Assemble
TidyNext == Generated \/ TidyBlocks
TidySpec == TidyInit /\ [][TidyNext]_tidyVars

(***************************************************************************)
(* Properties.                                                             *)
(***************************************************************************)
Redirected(irs, labels) ==
  {LedTo(ir, x) : ir \in {i \in irs : i.op = "JMP"}, x \in [cond : Conds, bb : labels]}
Irs(blocks) == UNION {Range(blocks[i].irs) : i \in DOMAIN blocks}
IrsLedAnywhere(blocks) == Irs(blocks) \cup Redirected(Irs(blocks), Labels(blocks))

\* Blocks lose labels and their jumps change, nothing else; the loop's index
\* is that of a block.
TidyTypeOK ==
  /\ prog \in DOMAIN CodeOf
  /\ phase \in {"parsed", "generated", "assembled", "rejected"}
  /\ LET code == CodeOf[prog].bbs
     IN  bbs \in Seq([bb : Labels(code), irs : Seq(IrsLedAnywhere(code))])
  /\ scan \in [i : Nat \ {0}, again : BOOLEAN]
  /\ phase = "generated" => scan.i <= Len(bbs)

\* Dropping blocks leaves no jump to a block that is gone, which the assembler
\* would reject (remove_unnecessary_bb in ir.c).
TargetsExist == phase # "rejected"

\* The blocks with nothing to do but to pass control on, and to where.
Idle(code) ==
  {i \in DOMAIN code : (code[i].irs = <<>> /\ i < Len(code)) \/ JumpsOnly(code[i])}
Onward(code, i) == IF code[i].irs = <<>> THEN code[i + 1].bb ELSE Target(code[i])

\* A jump before the end of its block, which no pass leads elsewhere, leads to a
\* block that no pass drops.
MidJumpsStay(code) ==
  \A i, k \in DOMAIN code : \A j \in JumpsIn(code[i].irs) :
    j < Len(code[i].irs) /\ code[i].irs[j].x.bb = code[k].bb => k \notin Idle(code) \/ k = Len(code)

\* <<x, y>> where control at x may get to y through such blocks alone: every set
\* of labels that holds x and that control, passed on, does not leave holds y.
Passages(code) ==
  LET places == Labels(code) \cup {Nowhere}
      steps == {<<code[i].bb, Onward(code, i)>> : i \in Idle(code)}
      closed(S) == \A step \in steps : step[1] \in S => step[2] \in S
  IN  {xy \in places \X places :
         \A S \in SUBSET places : closed(S) /\ xy[1] \in S => xy[2] \in S}

\* The conditions that hold after some comparison.
Outcomes ==
  LET half == {"EQ", "LT", "LE", "ULT", "ULE"}
  IN  {S \cup {Inverted[c] : c \in half \ S} \cup {"ANY"} : S \in SUBSET half}

\* A block's instructions without the jump at its end; what control falls into
\* from block i; where it goes that has carried out n instructions of block i,
\* which has one more at most.
WorkOf(block) == IF EndsInJmp(block) THEN Front(block.irs) ELSE block.irs
Behind(blocks, i) == IF i < Len(blocks) THEN blocks[i + 1].bb ELSE Nowhere
Exit(blocks, i, n, met) ==
  LET irs == blocks[i].irs
  IN  IF n < Len(irs) /\ irs[n + 1].x.cond \in met THEN irs[n + 1].x.bb ELSE Behind(blocks, i)

\* Block k of blocks does what block i of code does, and leaves for the same
\* block or one that control would have got to from there.
SameBlock(code, i, blocks, k, passages) ==
  LET n == Len(WorkOf(code[i]))
      irs == blocks[k].irs
  IN  /\ blocks[k].bb = code[i].bb
      /\ Len(irs) \in {n, n + 1} /\ SubSeq(irs, 1, n) = WorkOf(code[i])
      /\ n < Len(irs) => irs[n + 1].op = "JMP"
      /\ \A met \in Outcomes : <<Exit(code, i, n, met), Exit(blocks, k, n, met)>> \in passages

SameFlow(code, blocks) ==
  LET passages == Passages(code)
  IN  /\ blocks # <<>> /\ <<code[1].bb, blocks[1].bb>> \in passages
      /\ \A k \in DOMAIN blocks : \E i \in DOMAIN code : SameBlock(code, i, blocks, k, passages)

\* Dropping blocks, leading jumps past them and turning conditions round changes
\* nowhere what the function does: from the entry and from the end of each block
\* control gets, whatever was compared, to the same instructions as before
\* (remove_unnecessary_bb in ir.c).
FlowIsKept == phase # "parsed" => SameFlow(CodeOf[prog].bbs, bbs)
=============================================================================
