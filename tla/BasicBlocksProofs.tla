-------------------------- MODULE BasicBlocksProofs -------------------------
(***************************************************************************)
(* remove_unnecessary_bb does not change what a function does, for any     *)
(* blocks of any number, and leaves no jump without its block if only the  *)
(* last instructions of blocks jump to what it may drop.                   *)
(*                                                                         *)
(* The invariant compares the blocks left with those generated, block by   *)
(* block (Follows): the same work, a jump at the end where there was one,  *)
(* and for every outcome of a comparison a way out that the old way out    *)
(* passes on to.  A block that does nothing now did nothing then, so where *)
(* it leads is where control from its label is passed on to (IdleNow): a   *)
(* jump to it may be led there, and it may be left out.                    *)
(***************************************************************************)
EXTENDS BasicBlocks, SequenceTheorems, TLAPS

\* Where a block is left whose end falls into next.
Way(block, next, met) ==
  IF EndsInJmp(block) /\ Cond(block) \in met THEN Target(block) ELSE next

BlockSet(code) == [bb : Labels(code), irs : Seq(IrsLedAnywhere(code))]
Apart(blocks) == \A i, j \in DOMAIN blocks : blocks[i].bb = blocks[j].bb => i = j

\* A block in front of the label next does what the one of its label in code does.
FollowsAt(code, i, block, next) ==
  /\ block.bb = code[i].bb
  /\ WorkOf(block) = WorkOf(code[i])
  /\ EndsInJmp(block) <=> EndsInJmp(code[i])
  /\ EndsInAnyJmp(block) <=> EndsInAnyJmp(code[i])
  /\ \A met \in Outcomes :
       <<Way(code[i], Behind(code, i), met), Way(block, next, met)>> \in Passages(code)
Follows(code, block, next) == \E i \in DOMAIN code : FollowsAt(code, i, block, next)

\* What has become of code while the passes go on.
Tidied(code, blocks) ==
  /\ blocks \in Seq(BlockSet(code)) /\ blocks # <<>> /\ Apart(blocks)
  /\ <<code[1].bb, blocks[1].bb>> \in Passages(code)
  /\ blocks[Len(blocks)].bb = code[Len(code)].bb
  /\ \A k \in DOMAIN blocks : Follows(code, blocks[k], Behind(blocks, k))

\* Last jumps lead to blocks that are left, and so are the blocks that work.
Aimed(blocks) == \A k \in DOMAIN blocks : EndsInJmp(blocks[k]) => Target(blocks[k]) \in Labels(blocks)
Staying(code, blocks) ==
  \A i \in DOMAIN code : i \notin Idle(code) \/ i = Len(code) => code[i].bb \in Labels(blocks)

Own == CodeOf[prog].bbs

TidyInv ==
  /\ prog \in DOMAIN CodeOf
  /\ phase \in {"parsed", "generated", "assembled", "rejected"}
  /\ scan \in [i : Nat \ {0}, again : BOOLEAN]
  /\ phase = "parsed" => bbs = <<>> /\ scan.i = 1
  /\ phase = "generated" =>
       Tidied(Own, bbs) /\ Aimed(bbs) /\ Staying(Own, bbs) /\ scan.i <= Len(bbs)
  /\ phase \in {"assembled", "rejected"} => bbs \in Seq(BlockSet(Own)) /\ SameFlow(Own, bbs)

\* What the loops of remove_unnecessary_bb go by: fewer blocks, or a round with
\* nothing dropped yet, or the next block of the round.
GoesForward ==
  phase = "generated" /\ phase' = "generated" =>
    \/ Len(bbs') < Len(bbs)
    \/ Len(bbs') = Len(bbs) /\ scan.again /\ ~scan'.again
    \/ /\ Len(bbs') = Len(bbs) /\ scan'.again = scan.again
       /\ scan'.i = scan.i + 1 /\ scan'.i <= Len(bbs')

-----------------------------------------------------------------------------
\* Lists.
LEMMA LastProperties ==
  ASSUME NEW S, NEW s \in Seq(S), s # <<>>
  PROVE  /\ Len(s) \in Nat \ {0} /\ Last(s) = s[Len(s)] /\ Last(s) \in S
         /\ Front(s) \in Seq(S) /\ Len(Front(s)) = Len(s) - 1
         /\ \A j \in 1 .. Len(s) - 1 : Front(s)[j] = s[j]
<1>1. Len(s) \in Nat \ {0} /\ \A j \in 1 .. Len(s) : s[j] \in S
  BY EmptySeq, LenProperties
<1>2. /\ Front(s) \in Seq(S) /\ Len(Front(s)) = IF 1 <= Len(s) - 1 THEN (Len(s) - 1) - 1 + 1 ELSE 0
      /\ \A j \in 1 .. (Len(s) - 1) - 1 + 1 : Front(s)[j] = s[1 + j - 1]
  BY <1>1, SubSeqProperties DEF Front
<1>3. s[Len(s)] \in S /\ Last(s) = s[Len(s)]
  BY <1>1 DEF Last
<1>4. Len(Front(s)) = Len(s) - 1
  <2>1. \A n \in Nat \ {0} : (IF 1 <= n - 1 THEN (n - 1) - 1 + 1 ELSE 0) = n - 1
    OBVIOUS
  <2>2. Len(Front(s)) = IF 1 <= Len(s) - 1 THEN (Len(s) - 1) - 1 + 1 ELSE 0
    BY <1>2
  <2> QED BY <1>1, <2>1, <2>2
<1>5. ASSUME NEW j \in 1 .. Len(s) - 1 PROVE Front(s)[j] = s[j]
  <2>1. j \in 1 .. (Len(s) - 1) - 1 + 1 /\ 1 + j - 1 = j
    BY <1>1
  <2>2. Front(s)[j] = s[1 + j - 1]
    BY <1>2, <2>1
  <2> QED BY <2>1, <2>2
<1> QED BY <1>1, <1>2, <1>3, <1>4, <1>5

LEMMA RemoveAtProperties ==
  ASSUME NEW S, NEW s \in Seq(S), NEW k \in 1 .. Len(s)
  PROVE  /\ RemoveAt(s, k) \in Seq(S) /\ Len(RemoveAt(s, k)) = Len(s) - 1
         /\ \A j \in 1 .. Len(s) - 1 :
              RemoveAt(s, k)[j] = IF j < k THEN s[j] ELSE s[j + 1]
<1> DEFINE l == SubSeq(s, 1, k - 1)
           r == SubSeq(s, k + 1, Len(s))
<1>1. Len(s) \in Nat /\ k \in Int /\ \A j \in 1 .. Len(s) : s[j] \in S
  BY LenProperties
<1>2. /\ l \in Seq(S) /\ Len(l) = k - 1
      /\ \A j \in 1 .. k - 1 : l[j] = s[j]
  BY <1>1, SubSeqProperties
<1>3. /\ r \in Seq(S) /\ Len(r) = Len(s) - k
      /\ \A j \in 1 .. Len(s) - k : r[j] = s[k + j]
  BY <1>1, SubSeqProperties
<1>4. RemoveAt(s, k) = l \o r
  BY DEF RemoveAt
<1> HIDE DEF l, r
<1>5. /\ l \o r \in Seq(S) /\ Len(l \o r) = Len(l) + Len(r)
      /\ \A j \in 1 .. Len(l) + Len(r) : (l \o r)[j] = IF j <= Len(l) THEN l[j] ELSE r[j - Len(l)]
  BY <1>2, <1>3, ConcatProperties
<1>6. ASSUME NEW j \in 1 .. Len(s) - 1
      PROVE  (l \o r)[j] = IF j < k THEN s[j] ELSE s[j + 1]
  <2>1. CASE j < k
    BY <1>1, <1>2, <1>3, <1>5, <2>1
  <2>2. CASE ~(j < k)
    <3>1. (l \o r)[j] = r[j - (k - 1)]
      BY <1>1, <1>2, <1>3, <1>5, <2>2
    <3>2. r[j - (k - 1)] = s[k + (j - (k - 1))]
      BY <1>1, <1>3, <2>2
    <3> QED BY <1>1, <2>2, <3>1, <3>2
  <2> QED BY <2>1, <2>2
<1> QED BY <1>1, <1>2, <1>3, <1>4, <1>5, <1>6

\* What is said of sequences by their entries makes them sequences.
LEMMA SequenceIsSeq ==
  ASSUME NEW S, NEW s, IsSequence(s), \A i \in 1 .. Len(s) : s[i] \in S
  PROVE  s \in Seq(S)
<1>1. [i \in 1 .. Len(s) |-> s[i]] \in Seq(S)
  BY IsASeq DEF IsSequence
<1> QED BY <1>1 DEF IsSequence

-----------------------------------------------------------------------------
\* Of every outcome: an unconditional jump is taken, and a condition holds where
\* its inverse does not.
LEMMA OutcomeProperties ==
  ASSUME NEW met \in Outcomes
  PROVE  /\ "ANY" \in met
         /\ \A c \in DOMAIN Inverted :
              Inverted[c] \in DOMAIN Inverted /\ (Inverted[c] \in met <=> c \notin met)
         /\ "ANY" \notin DOMAIN Inverted
<1> DEFINE half == {"EQ", "LT", "LE", "ULT", "ULE"}
<1>1. PICK S \in SUBSET half : met = S \cup {Inverted[c] : c \in half \ S} \cup {"ANY"}
  BY DEF Outcomes
<1>2. DOMAIN Inverted = {"EQ", "NE", "LT", "GE", "LE", "GT", "ULT", "UGE", "ULE", "UGT"}
  BY DEF Inverted
<1>3. /\ Inverted["EQ"] = "NE" /\ Inverted["NE"] = "EQ" /\ Inverted["LT"] = "GE"
      /\ Inverted["GE"] = "LT" /\ Inverted["LE"] = "GT" /\ Inverted["GT"] = "LE"
      /\ Inverted["ULT"] = "UGE" /\ Inverted["UGE"] = "ULT" /\ Inverted["ULE"] = "UGT"
      /\ Inverted["UGT"] = "ULE"
  BY DEF Inverted
<1>4. \A c \in half : c \in met <=> c \in S
  BY <1>1, <1>3
<1>5. \A c \in half : Inverted[c] \in met <=> c \notin S
  BY <1>1, <1>3
<1>6. \A c \in half : Inverted[Inverted[c]] = c
  BY <1>3
<1>7. ASSUME NEW c \in DOMAIN Inverted
      PROVE  Inverted[c] \in DOMAIN Inverted /\ (Inverted[c] \in met <=> c \notin met)
  <2>1. c \in half \/ \E d \in half : c = Inverted[d]
    BY <1>2, <1>3
  <2>2. Inverted[c] \in DOMAIN Inverted
    BY <1>2, <1>3
  <2> QED BY <1>4, <1>5, <1>6, <2>1, <2>2
<1> QED BY <1>1, <1>2, <1>7

LEMMA SomeOutcome == \E met : met \in Outcomes
<1> DEFINE half == {"EQ", "LT", "LE", "ULT", "ULE"}
<1>1. half \cup {Inverted[c] : c \in half \ half} \cup {"ANY"} \in Outcomes
  BY DEF Outcomes
<1> QED BY <1>1

-----------------------------------------------------------------------------
\* Passages.
Places(code) == Labels(code) \cup {Nowhere}
Shut(code, S) == \A i \in Idle(code) : code[i].bb \in S => Onward(code, i) \in S

LEMMA PassageMeans ==
  ASSUME NEW code, NEW x, NEW y
  PROVE  <<x, y>> \in Passages(code) <=>
           /\ x \in Places(code) /\ y \in Places(code)
           /\ \A S \in SUBSET Places(code) : Shut(code, S) /\ x \in S => y \in S
<1> DEFINE steps == {<<code[i].bb, Onward(code, i)>> : i \in Idle(code)}
           closed(S) == \A step \in steps : step[1] \in S => step[2] \in S
<1>1. ASSUME NEW S PROVE closed(S) <=> Shut(code, S)
  <2>1. ASSUME closed(S), NEW i \in Idle(code), code[i].bb \in S
        PROVE  Onward(code, i) \in S
    <3>1. <<code[i].bb, Onward(code, i)>> \in steps
      OBVIOUS
    <3> QED BY <2>1, <3>1
  <2>2. ASSUME Shut(code, S), NEW step \in steps, step[1] \in S
        PROVE  step[2] \in S
    <3>1. PICK i \in Idle(code) : step = <<code[i].bb, Onward(code, i)>>
      OBVIOUS
    <3> QED BY <2>2, <3>1 DEF Shut
  <2> QED BY <2>1, <2>2 DEF Shut
<1>2. Passages(code) = {xy \in Places(code) \X Places(code) :
                          \A S \in SUBSET Places(code) : closed(S) /\ xy[1] \in S => xy[2] \in S}
  BY DEF Passages, Places
<1> HIDE DEF closed
<1>3. <<x, y>> \in Passages(code) <=>
        /\ x \in Places(code) /\ y \in Places(code)
        /\ \A S \in SUBSET Places(code) : closed(S) /\ x \in S => y \in S
  BY <1>2
<1> QED BY <1>1, <1>3

LEMMA PassageStays ==
  ASSUME NEW code, NEW x \in Places(code)
  PROVE  <<x, x>> \in Passages(code)
BY PassageMeans

LEMMA PassageGoesOn ==
  ASSUME NEW code, NEW x, NEW y, NEW z,
         <<x, y>> \in Passages(code), <<y, z>> \in Passages(code)
  PROVE  <<x, z>> \in Passages(code)
BY PassageMeans

LEMMA PassageSteps ==
  ASSUME NEW code, NEW i \in Idle(code), code[i].bb \in Places(code), Onward(code, i) \in Places(code)
  PROVE  <<code[i].bb, Onward(code, i)>> \in Passages(code)
BY PassageMeans DEF Shut

\* From a block that works control goes nowhere by itself.
LEMMA PassageEnds ==
  ASSUME NEW code, Apart(code), NEW i \in DOMAIN code, i \notin Idle(code), NEW y,
         <<code[i].bb, y>> \in Passages(code)
  PROVE  y = code[i].bb
<1>1. Idle(code) \subseteq DOMAIN code
  BY DEF Idle
<1>2. Shut(code, {code[i].bb})
  BY <1>1 DEF Shut, Apart
<1>3. {code[i].bb} \in SUBSET Places(code)
  BY DEF Places, Labels
<1> QED BY <1>2, <1>3, PassageMeans

-----------------------------------------------------------------------------
\* Instructions and blocks.
LEMMA LedProperties ==
  ASSUME NEW ir, NEW v, NEW labels, IsInstr(ir, labels)
  PROVE  /\ DOMAIN LedTo(ir, v) = DOMAIN ir /\ LedTo(ir, v).x = v /\ LedTo(ir, v).op = ir.op
         /\ LedTo(ir, v) = [field \in DOMAIN LedTo(ir, v) |-> LedTo(ir, v)[field]]
         /\ \A w : LedTo(LedTo(ir, w), v) = LedTo(ir, v)
<1>1. {"op", "x"} \subseteq DOMAIN ir
  BY DEF IsInstr
<1>2. \A w : LedTo(ir, w) = [field \in DOMAIN ir |-> IF field = "x" THEN w ELSE ir[field]]
  BY <1>1 DEF LedTo
<1>3. \A w : LedTo(LedTo(ir, w), v) = LedTo(ir, v)
  <2> SUFFICES ASSUME NEW w PROVE LedTo(LedTo(ir, w), v) = LedTo(ir, v)
    OBVIOUS
  <2> DEFINE a == LedTo(ir, w)
  <2>1. DOMAIN a = DOMAIN ir /\ \A field \in DOMAIN ir : a[field] = IF field = "x" THEN w ELSE ir[field]
    BY <1>2
  <2> HIDE DEF a
  <2>2. LedTo(a, v) = [field \in DOMAIN a |-> IF field = "x" THEN v ELSE a[field]]
    BY <1>1, <2>1 DEF LedTo
  <2>3. LedTo(a, v) = [field \in DOMAIN ir |-> IF field = "x" THEN v ELSE ir[field]]
    BY <2>1, <2>2
  <2> QED BY <1>2, <2>3 DEF a
<1> QED BY <1>1, <1>2, <1>3

LEMMA InstrKinds ==
  ASSUME NEW code, IsBlocks(code), NEW ir \in IrsLedAnywhere(code)
  PROVE  IsInstr(ir, Labels(code))
<1>1. ASSUME NEW a \in Irs(code) PROVE IsInstr(a, Labels(code))
  BY <1>1 DEF Irs, IsBlocks, IsBlock, Range
<1>2. ASSUME NEW a \in Irs(code), a.op = "JMP", NEW x \in [cond : Conds, bb : Labels(code)]
      PROVE  IsInstr(LedTo(a, x), Labels(code))
  <2> DEFINE b == LedTo(a, x)
  <2>1. DOMAIN b = DOMAIN a /\ b.x = x /\ b = [field \in DOMAIN b |-> b[field]]
    BY <1>1, LedProperties
  <2>2. {"op", "x"} \subseteq DOMAIN a
    BY <1>1 DEF IsInstr
  <2> HIDE DEF b
  <2>3. IsInstr(b, Labels(code))
    BY <2>1, <2>2 DEF IsInstr
  <2> QED BY <2>3 DEF b
<1> QED BY <1>1, <1>2 DEF IrsLedAnywhere, Redirected

\* A jump led elsewhere is a jump to there.
LEMMA InstrLed ==
  ASSUME NEW code, IsBlocks(code), NEW ir \in IrsLedAnywhere(code), ir.op = "JMP",
         NEW c \in Conds, NEW l \in Labels(code)
  PROVE  LET new == LedTo(ir, [cond |-> c, bb |-> l])
         IN  /\ new \in IrsLedAnywhere(code) /\ new.op = "JMP"
             /\ new.x.cond = c /\ new.x.bb = l
<1> DEFINE v == [cond |-> c, bb |-> l]
<1>0. v \in [cond : Conds, bb : Labels(code)] /\ v.cond = c /\ v.bb = l
  OBVIOUS
<1> HIDE DEF v
<1>1. LedTo(ir, v).op = "JMP" /\ LedTo(ir, v).x = v
  BY InstrKinds, LedProperties
<1>2. LedTo(ir, v) \in IrsLedAnywhere(code)
  <2>1. CASE ir \in Irs(code)
    BY <1>0, <2>1 DEF IrsLedAnywhere, Redirected
  <2>2. ASSUME NEW a \in Irs(code), a.op = "JMP", NEW x \in [cond : Conds, bb : Labels(code)],
               ir = LedTo(a, x)
        PROVE  LedTo(ir, v) \in IrsLedAnywhere(code)
    <3>1. a \in IrsLedAnywhere(code)
      BY DEF IrsLedAnywhere
    <3>2. LedTo(ir, v) = LedTo(a, v)
      BY <2>2, <3>1, InstrKinds, LedProperties
    <3> QED BY <1>0, <2>2, <3>2 DEF IrsLedAnywhere, Redirected
  <2> QED BY <2>1, <2>2 DEF IrsLedAnywhere, Redirected
<1> QED BY <1>0, <1>1, <1>2 DEF v

LEMMA BlockKinds ==
  ASSUME NEW code, IsBlocks(code), NEW block \in BlockSet(code)
  PROVE  /\ block.bb \in Labels(code) /\ Len(block.irs) \in Nat
         /\ WorkOf(block) \in Seq(IrsLedAnywhere(code))
         /\ EndsInJmp(block) =>
              /\ Len(block.irs) = Len(WorkOf(block)) + 1
              /\ \A j \in 1 .. Len(WorkOf(block)) : WorkOf(block)[j] = block.irs[j]
              /\ Last(block.irs) = block.irs[Len(block.irs)]
              /\ Last(block.irs) \in IrsLedAnywhere(code)
              /\ Cond(block) \in Conds /\ Target(block) \in Labels(code)
         /\ ~EndsInJmp(block) => WorkOf(block) = block.irs
<1>1. block.bb \in Labels(code) /\ block.irs \in Seq(IrsLedAnywhere(code))
  BY DEF BlockSet
<1>2. Len(block.irs) \in Nat
  BY <1>1, LenProperties
<1>3. ASSUME EndsInJmp(block)
      PROVE  /\ Len(block.irs) \in Nat \ {0} /\ Last(block.irs) = block.irs[Len(block.irs)]
             /\ Last(block.irs) \in IrsLedAnywhere(code)
             /\ Front(block.irs) \in Seq(IrsLedAnywhere(code))
             /\ Len(Front(block.irs)) = Len(block.irs) - 1
             /\ \A j \in 1 .. Len(block.irs) - 1 : Front(block.irs)[j] = block.irs[j]
  BY <1>1, <1>3, LastProperties DEF EndsInJmp
<1>4. ASSUME EndsInJmp(block)
      PROVE  Cond(block) \in Conds /\ Target(block) \in Labels(code)
  <2>1. IsInstr(Last(block.irs), Labels(code)) /\ Last(block.irs).op = "JMP"
    BY <1>3, <1>4, InstrKinds DEF EndsInJmp
  <2> QED BY <2>1 DEF IsInstr, Cond, Target
<1> QED BY <1>1, <1>2, <1>3, <1>4 DEF WorkOf

\* A block whose last jump is set keeps its work.
LEMMA BlockSetTarget ==
  ASSUME NEW code, IsBlocks(code), NEW block \in BlockSet(code), EndsInJmp(block),
         NEW c \in Conds, NEW l \in Labels(code)
  PROVE  LET new == SetTarget(block, c, l)
         IN  /\ new \in BlockSet(code) /\ new.bb = block.bb
             /\ EndsInJmp(new) /\ Cond(new) = c /\ Target(new) = l
             /\ WorkOf(new) = WorkOf(block) /\ Len(new.irs) = Len(block.irs)
<1> DEFINE I == IrsLedAnywhere(code)
           old == block.irs
           last == LedTo(Last(old), [cond |-> c, bb |-> l])
           irs == Append(Front(old), last)
           new == SetTarget(block, c, l)
<1>1. block = [bb |-> block.bb, irs |-> old] /\ block.bb \in Labels(code) /\ old \in Seq(I)
  BY DEF BlockSet
<1>2. new = [bb |-> block.bb, irs |-> irs]
  <2>1. new = [block EXCEPT !.irs = irs]
    BY DEF SetTarget
  <2> HIDE DEF irs, new, old
  <2> QED BY <1>1, <2>1
<1>3. /\ Len(old) \in Nat \ {0} /\ Last(old) \in I /\ Last(old).op = "JMP"
      /\ Front(old) \in Seq(I) /\ Len(Front(old)) = Len(old) - 1
  BY <1>1, LastProperties DEF EndsInJmp
<1>4. last \in I /\ last.op = "JMP" /\ last.x.cond = c /\ last.x.bb = l
  BY <1>3, InstrLed
<1> HIDE DEF last, I
<1>5. irs \in Seq(I) /\ irs # <<>> /\ Len(irs) = Len(old) /\ irs[Len(old)] = last
      /\ \A j \in 1 .. Len(old) - 1 : irs[j] = Front(old)[j]
  <2>1. /\ irs \in Seq(I) /\ irs # <<>> /\ Len(irs) = Len(Front(old)) + 1
        /\ \A j \in 1 .. Len(Front(old)) : irs[j] = Front(old)[j]
        /\ irs[Len(Front(old)) + 1] = last
    BY <1>3, <1>4, AppendProperties
  <2> QED BY <1>3, <2>1
<1>6. Last(irs) = last
  BY <1>5 DEF Last
<1>7. Front(irs) = Front(old)
  <2> HIDE DEF irs
  <2>1. /\ Front(irs) \in Seq(I) /\ Len(Front(irs)) = Len(irs) - 1
        /\ \A j \in 1 .. Len(irs) - 1 : Front(irs)[j] = irs[j]
    BY <1>5, LastProperties
  <2> HIDE DEF old
  <2>2. \A j \in 1 .. Len(Front(irs)) : Front(irs)[j] = Front(old)[j]
    BY <1>3, <1>5, <2>1
  <2> QED BY <1>3, <1>5, <2>1, <2>2, SeqEqual
<1> HIDE DEF irs, new
<1>8. new.irs = irs /\ new.bb = block.bb /\ new \in BlockSet(code)
  BY <1>1, <1>2, <1>5 DEF BlockSet, I
<1>9. EndsInJmp(new) /\ Cond(new) = c /\ Target(new) = l
  BY <1>4, <1>5, <1>6, <1>8 DEF EndsInJmp, Cond, Target
<1>10. WorkOf(new) = WorkOf(block)
  BY <1>7, <1>8, <1>9 DEF WorkOf
<1> QED BY <1>5, <1>8, <1>9, <1>10 DEF new

\* The generated blocks are such blocks.
LEMMA CodeIsBlocks ==
  ASSUME NEW code, IsBlocks(code)
  PROVE  /\ code \in Seq(BlockSet(code)) /\ code # <<>> /\ Apart(code)
         /\ Len(code) \in Nat \ {0} /\ DOMAIN code = 1 .. Len(code)
         /\ Nowhere \notin Labels(code)
<1>1. IsSequence(code) /\ code # <<>> /\ Apart(code)
  BY DEF IsBlocks, Apart
<1>2. ASSUME NEW i \in DOMAIN code PROVE code[i] \in BlockSet(code)
  <2>1. /\ code[i] = [bb |-> code[i].bb, irs |-> code[i].irs] /\ IsSequence(code[i].irs)
    BY DEF IsBlocks, IsBlock
  <2>2. \A j \in 1 .. Len(code[i].irs) : code[i].irs[j] \in IrsLedAnywhere(code)
    <3>1. DOMAIN code[i].irs = 1 .. Len(code[i].irs)
      BY <2>1 DEF IsSequence
    <3> QED BY <3>1 DEF IrsLedAnywhere, Irs, Range
  <2>3. code[i].irs \in Seq(IrsLedAnywhere(code))
    BY <2>1, <2>2, SequenceIsSeq
  <2>4. code[i].bb \in Labels(code)
    BY DEF Labels
  <2> QED BY <2>1, <2>3, <2>4 DEF BlockSet
<1>3. DOMAIN code = 1 .. Len(code)
  BY <1>1 DEF IsSequence
<1>4. code \in Seq(BlockSet(code))
  BY <1>1, <1>2, <1>3, SequenceIsSeq
<1> QED BY <1>1, <1>3, <1>4, EmptySeq DEF IsBlocks

LEMMA BlocksKinds ==
  ASSUME NEW code, NEW blocks \in Seq(BlockSet(code)), blocks # <<>>
  PROVE  /\ Len(blocks) \in Nat \ {0} /\ DOMAIN blocks = 1 .. Len(blocks)
         /\ \A k \in 1 .. Len(blocks) :
              /\ blocks[k] \in BlockSet(code) /\ blocks[k].bb \in Labels(code)
              /\ Behind(blocks, k) \in Places(code)
<1>1. Len(blocks) \in Nat \ {0} /\ DOMAIN blocks = 1 .. Len(blocks)
  BY EmptySeq, LenProperties
<1>2. \A k \in 1 .. Len(blocks) : blocks[k] \in BlockSet(code)
  BY LenProperties
<1>3. \A block \in BlockSet(code) : block.bb \in Labels(code)
  BY DEF BlockSet
<1> QED BY <1>1, <1>2, <1>3 DEF Behind, Places

-----------------------------------------------------------------------------
\* A block that still follows the one of its label.
LEMMA WayIsPlace ==
  ASSUME NEW code, IsBlocks(code), NEW block \in BlockSet(code), NEW next \in Places(code), NEW met
  PROVE  Way(block, next, met) \in Places(code)
BY BlockKinds DEF Way, Places

LEMMA FollowsItself ==
  ASSUME NEW code, IsBlocks(code), NEW i \in DOMAIN code
  PROVE  Follows(code, code[i], Behind(code, i))
<1>1. code[i] \in BlockSet(code) /\ Behind(code, i) \in Places(code)
  BY CodeIsBlocks, BlocksKinds
<1>2. \A met : Way(code[i], Behind(code, i), met) \in Places(code)
  BY <1>1, WayIsPlace
<1>3. FollowsAt(code, i, code[i], Behind(code, i))
  BY <1>2, PassageStays DEF FollowsAt
<1> QED BY <1>3 DEF Follows

\* It may fall further.
LEMMA FollowsOn ==
  ASSUME NEW code, NEW block, NEW x, NEW y, Follows(code, block, x), <<x, y>> \in Passages(code)
  PROVE  Follows(code, block, y)
<1>1. PICK i \in DOMAIN code : FollowsAt(code, i, block, x)
  BY DEF Follows
<1>2. ASSUME NEW met \in Outcomes
      PROVE  <<Way(code[i], Behind(code, i), met), Way(block, y, met)>> \in Passages(code)
  <2>1. <<Way(code[i], Behind(code, i), met), Way(block, x, met)>> \in Passages(code)
    BY <1>1 DEF FollowsAt
  <2>2. CASE Way(block, x, met) = Way(block, y, met)
    BY <2>1, <2>2
  <2>3. CASE Way(block, x, met) = x /\ Way(block, y, met) = y
    BY <2>1, <2>3, PassageGoesOn
  <2> QED BY <2>2, <2>3 DEF Way
<1>3. FollowsAt(code, i, block, y)
  BY <1>1, <1>2 DEF FollowsAt
<1> QED BY <1>3 DEF Follows

\* It does not matter what is behind an unconditional jump.
LEMMA FollowsAnywhere ==
  ASSUME NEW code, NEW block, NEW x, NEW y, Follows(code, block, x), EndsInAnyJmp(block)
  PROVE  Follows(code, block, y)
<1>1. PICK i \in DOMAIN code : FollowsAt(code, i, block, x)
  BY DEF Follows
<1>2. \A met \in Outcomes : Way(block, x, met) = Way(block, y, met)
  BY OutcomeProperties DEF Way, EndsInAnyJmp, Cond
<1>3. FollowsAt(code, i, block, y)
  BY <1>1, <1>2 DEF FollowsAt
<1> QED BY <1>3 DEF Follows

\* Its jump may be led further.
LEMMA FollowsLed ==
  ASSUME NEW code, IsBlocks(code), NEW block \in BlockSet(code), EndsInJmp(block),
         NEW next, Follows(code, block, next), NEW to \in Labels(code),
         <<Target(block), to>> \in Passages(code)
  PROVE  Follows(code, SetTarget(block, Cond(block), to), next)
<1> DEFINE new == SetTarget(block, Cond(block), to)
<1>1. PICK i \in DOMAIN code : FollowsAt(code, i, block, next)
  BY DEF Follows
<1>2. /\ new.bb = block.bb /\ EndsInJmp(new) /\ Cond(new) = Cond(block) /\ Target(new) = to
      /\ WorkOf(new) = WorkOf(block)
  BY BlockKinds, BlockSetTarget
<1> HIDE DEF new
<1>3. EndsInAnyJmp(new) <=> EndsInAnyJmp(block)
  BY <1>2 DEF EndsInAnyJmp, Cond
<1>4. ASSUME NEW met \in Outcomes
      PROVE  <<Way(code[i], Behind(code, i), met), Way(new, next, met)>> \in Passages(code)
  <2>1. <<Way(code[i], Behind(code, i), met), Way(block, next, met)>> \in Passages(code)
    BY <1>1 DEF FollowsAt
  <2>2. CASE Cond(block) \in met
    <3>1. Way(block, next, met) = Target(block) /\ Way(new, next, met) = to
      BY <1>2, <2>2 DEF Way
    <3> QED BY <2>1, <3>1, PassageGoesOn
  <2>3. CASE Cond(block) \notin met
    BY <1>2, <2>1, <2>3 DEF Way
  <2> QED BY <2>2, <2>3
<1>5. FollowsAt(code, i, new, next)
  BY <1>1, <1>2, <1>3, <1>4 DEF FollowsAt
<1> QED BY <1>5 DEF Follows, new

\* A conditional jump over a block that only jumps may be turned round.
LEMMA FollowsTurned ==
  ASSUME NEW code, IsBlocks(code), NEW block \in BlockSet(code), EndsInJmp(block), FallsIn(block),
         NEW from, Follows(code, block, from), NEW to \in Labels(code),
         <<from, to>> \in Passages(code)
  PROVE  Follows(code, TurnedRound(block, to), Target(block))
<1> DEFINE c == Cond(block)
           next == Target(block)
           new == SetTarget(block, Inverted[c], to)
<1>1. PICK i \in DOMAIN code : FollowsAt(code, i, block, from)
  BY DEF Follows
<1>2. c \in Conds /\ c # "ANY" /\ TurnedRound(block, to) = new
  BY BlockKinds DEF TurnedRound, InvertCond, FallsIn, EndsInAnyJmp, Cond
<1>3. c \in DOMAIN Inverted
  BY <1>2 DEF Conds
<1>4. /\ Inverted[c] \in DOMAIN Inverted /\ Inverted[c] # "ANY"
      /\ \A met \in Outcomes : Inverted[c] \in met <=> c \notin met
  BY <1>3, OutcomeProperties, SomeOutcome
<1>5. /\ new.bb = block.bb /\ EndsInJmp(new) /\ Cond(new) = Inverted[c] /\ Target(new) = to
      /\ WorkOf(new) = WorkOf(block)
  <2>1. Inverted[c] \in Conds
    BY <1>4 DEF Conds
  <2> QED BY <2>1, BlockSetTarget
<1> HIDE DEF new
<1>6. ~EndsInAnyJmp(new) /\ ~EndsInAnyJmp(block)
  BY <1>4, <1>5 DEF EndsInAnyJmp, Cond, FallsIn
<1>7. ASSUME NEW met \in Outcomes
      PROVE  <<Way(code[i], Behind(code, i), met), Way(new, next, met)>> \in Passages(code)
  <2>1. <<Way(code[i], Behind(code, i), met), Way(block, from, met)>> \in Passages(code)
    BY <1>1 DEF FollowsAt
  <2>2. CASE c \in met
    <3>1. Way(block, from, met) = next /\ Way(new, next, met) = next
      BY <1>4, <1>5, <2>2 DEF Way
    <3> QED BY <2>1, <3>1
  <2>3. CASE c \notin met
    <3>1. Way(block, from, met) = from /\ Way(new, next, met) = to
      BY <1>4, <1>5, <2>3 DEF Way
    <3> QED BY <2>1, <3>1, PassageGoesOn
  <2> QED BY <2>2, <2>3
<1>8. FollowsAt(code, i, new, next)
  BY <1>1, <1>5, <1>6, <1>7 DEF FollowsAt
<1> QED BY <1>2, <1>8 DEF Follows

-----------------------------------------------------------------------------
\* The passes.
LEMMA TidiedMeans ==
  ASSUME NEW code, NEW blocks, Tidied(code, blocks)
  PROVE  /\ blocks \in Seq(BlockSet(code)) /\ blocks # <<>> /\ Apart(blocks)
         /\ Len(blocks) \in Nat \ {0} /\ DOMAIN blocks = 1 .. Len(blocks)
         /\ \A k \in 1 .. Len(blocks) :
              /\ blocks[k] \in BlockSet(code) /\ blocks[k].bb \in Labels(code)
              /\ Behind(blocks, k) \in Places(code)
              /\ Follows(code, blocks[k], Behind(blocks, k))
BY BlocksKinds DEF Tidied

LEMMA TidiedAtFirst ==
  ASSUME NEW code, IsBlocks(code)
  PROVE  Tidied(code, code) /\ Aimed(code) /\ Staying(code, code)
<1>1. /\ code \in Seq(BlockSet(code)) /\ code # <<>> /\ Apart(code)
      /\ Len(code) \in Nat \ {0} /\ DOMAIN code = 1 .. Len(code)
  BY CodeIsBlocks
<1>2. \A k \in 1 .. Len(code) : code[k] \in BlockSet(code) /\ code[k].bb \in Labels(code)
  BY <1>1, BlocksKinds
<1>3. <<code[1].bb, code[1].bb>> \in Passages(code)
  BY <1>1, <1>2, PassageStays DEF Places
<1>4. \A k \in DOMAIN code : Follows(code, code[k], Behind(code, k))
  BY FollowsItself
<1>5. Tidied(code, code)
  BY <1>1, <1>3, <1>4 DEF Tidied
<1>6. Aimed(code)
  BY <1>1, <1>2, BlockKinds DEF Aimed
<1>7. Staying(code, code)
  BY <1>1, <1>2 DEF Staying
<1> QED BY <1>5, <1>6, <1>7

\* A block that does nothing now did nothing when it was generated.
LEMMA IdleNow ==
  ASSUME NEW code, IsBlocks(code), NEW blocks, Tidied(code, blocks),
         NEW k \in 1 .. Len(blocks), k < Len(blocks), NEW to,
         \/ blocks[k].irs = <<>> /\ to = blocks[k + 1].bb
         \/ JumpsOnly(blocks[k]) /\ to = Target(blocks[k])
  PROVE  /\ <<blocks[k].bb, to>> \in Passages(code)
         /\ \E i \in Idle(code) : i # Len(code) /\ blocks[k].bb = code[i].bb
<1> DEFINE block == blocks[k]
           next == Behind(blocks, k)
<1>1. /\ Apart(blocks) /\ DOMAIN blocks = 1 .. Len(blocks) /\ Len(blocks) \in Nat \ {0}
      /\ block \in BlockSet(code) /\ Follows(code, block, next)
  BY TidiedMeans
<1>2. PICK i \in DOMAIN code : FollowsAt(code, i, block, next)
  BY <1>1 DEF Follows
<1>3. PICK met : met \in Outcomes /\ "ANY" \in met
  BY SomeOutcome, OutcomeProperties
<1>4. /\ block.bb = code[i].bb /\ WorkOf(block) = WorkOf(code[i])
      /\ EndsInJmp(block) <=> EndsInJmp(code[i])
      /\ EndsInAnyJmp(block) <=> EndsInAnyJmp(code[i])
      /\ <<Way(code[i], Behind(code, i), met), Way(block, next, met)>> \in Passages(code)
  BY <1>2, <1>3 DEF FollowsAt
<1>5. /\ Len(code) \in Nat \ {0} /\ DOMAIN code = 1 .. Len(code) /\ Apart(code)
      /\ code[i] \in BlockSet(code) /\ code[i].bb \in Labels(code)
  BY CodeIsBlocks, BlocksKinds
<1>6. i # Len(code)
  <2>1. blocks[Len(blocks)].bb = code[Len(code)].bb
    BY DEF Tidied
  <2>2. blocks[k].bb # blocks[Len(blocks)].bb
    BY <1>1 DEF Apart
  <2> QED BY <1>4, <2>1, <2>2
<1>7. CASE blocks[k].irs = <<>> /\ to = blocks[k + 1].bb
  <2>1. ~EndsInJmp(block) /\ WorkOf(block) = <<>> /\ next = to
    BY <1>1, <1>7 DEF EndsInJmp, WorkOf, Behind
  <2>2. ~EndsInJmp(code[i]) /\ code[i].irs = <<>>
    BY <1>4, <2>1 DEF WorkOf
  <2>3. i \in Idle(code) /\ Onward(code, i) = code[i + 1].bb /\ Behind(code, i) = code[i + 1].bb
    BY <1>5, <1>6, <2>2 DEF Idle, Onward, Behind
  <2>4. Way(code[i], Behind(code, i), met) = code[i + 1].bb /\ Way(block, next, met) = to
    BY <2>1, <2>2, <2>3 DEF Way
  <2>5. code[i + 1].bb \in Labels(code)
    BY <1>5, <1>6, CodeIsBlocks, BlocksKinds
  <2>6. <<code[i].bb, code[i + 1].bb>> \in Passages(code)
    BY <1>5, <2>3, <2>5, PassageSteps DEF Places
  <2> QED BY <1>4, <1>6, <2>3, <2>4, <2>6, PassageGoesOn
<1>8. CASE JumpsOnly(blocks[k]) /\ to = Target(blocks[k])
  <2>1. /\ EndsInAnyJmp(block) /\ EndsInJmp(block) /\ Cond(block) = "ANY" /\ to # block.bb
        /\ Len(block.irs) = 1
    BY <1>8 DEF JumpsOnly, EndsInAnyJmp, Cond
  <2>2. EndsInAnyJmp(code[i]) /\ EndsInJmp(code[i]) /\ Cond(code[i]) = "ANY"
    BY <1>4, <2>1 DEF EndsInAnyJmp, Cond
  <2>3. Len(code[i].irs) = 1 /\ Target(code[i]) \in Labels(code) /\ code[i].irs # <<>>
    <3>1. Len(WorkOf(block)) \in Nat /\ Len(block.irs) = Len(WorkOf(block)) + 1
      BY <1>1, <2>1, BlockKinds, LenProperties
    <3>2. Len(code[i].irs) = Len(WorkOf(code[i])) + 1 /\ Target(code[i]) \in Labels(code)
      BY <1>5, <2>2, BlockKinds
    <3> QED BY <1>4, <2>1, <2>2, <3>1, <3>2 DEF EndsInJmp
  <2>4. <<Target(code[i]), to>> \in Passages(code)
    BY <1>3, <1>4, <1>8, <2>1, <2>2 DEF Way
  <2>5. CASE Target(code[i]) = code[i].bb
    <3>1. i \notin Idle(code)
      BY <2>3, <2>5 DEF Idle, JumpsOnly
    <3>2. to = code[i].bb
      BY <1>5, <2>4, <2>5, <3>1, PassageEnds
    <3> QED BY <1>4, <2>1, <3>2
  <2>6. CASE Target(code[i]) # code[i].bb
    <3>1. i \in Idle(code) /\ Onward(code, i) = Target(code[i])
      BY <2>2, <2>3, <2>6 DEF Idle, Onward, JumpsOnly
    <3>2. <<code[i].bb, Target(code[i])>> \in Passages(code)
      BY <1>5, <2>3, <3>1, PassageSteps DEF Places
    <3> QED BY <1>4, <1>6, <2>4, <3>1, <3>2, PassageGoesOn
  <2> QED BY <2>5, <2>6
<1> QED BY <1>7, <1>8

LEMMA SameLabels ==
  ASSUME NEW code, NEW blocks \in Seq(BlockSet(code)), NEW new \in Seq(BlockSet(code)),
         Len(new) = Len(blocks), \A j \in 1 .. Len(blocks) : new[j].bb = blocks[j].bb
  PROVE  /\ DOMAIN new = DOMAIN blocks /\ Labels(new) = Labels(blocks)
         /\ \A j \in DOMAIN blocks : Behind(new, j) = Behind(blocks, j)
         /\ Apart(blocks) => Apart(new)
<1>1. DOMAIN blocks = 1 .. Len(blocks) /\ DOMAIN new = 1 .. Len(blocks) /\ Len(blocks) \in Nat
  BY LenProperties
<1> QED BY <1>1 DEF Labels, Behind, Apart

\* Jumps to a block may lead to where it leads.
LEMMA RedirectProperties ==
  ASSUME NEW code, IsBlocks(code), NEW blocks, Tidied(code, blocks), NEW from,
         NEW to \in Labels(code), to # from, <<from, to>> \in Passages(code)
  PROVE  LET new == Redirect(blocks, from, to)
         IN  /\ Tidied(code, new) /\ Len(new) = Len(blocks) /\ Labels(new) = Labels(blocks)
             /\ \A j \in 1 .. Len(blocks) :
                  /\ new[j].bb = blocks[j].bb
                  /\ new[j].bb = from => new[j] = blocks[j]
                  /\ EndsInJmp(new[j]) <=> EndsInJmp(blocks[j])
                  /\ EndsInJmp(new[j]) /\ new[j].bb # from =>
                       Target(new[j]) # from /\ Target(new[j]) \in {Target(blocks[j]), to}
<1> DEFINE new == Redirect(blocks, from, to)
           led(j) == blocks[j].bb # from /\ EndsInJmp(blocks[j]) /\ Target(blocks[j]) = from
<1>1. /\ blocks \in Seq(BlockSet(code)) /\ blocks # <<>> /\ Apart(blocks)
      /\ Len(blocks) \in Nat \ {0} /\ DOMAIN blocks = 1 .. Len(blocks)
      /\ \A k \in 1 .. Len(blocks) :
           blocks[k] \in BlockSet(code) /\ Follows(code, blocks[k], Behind(blocks, k))
  BY TidiedMeans
<1>2. new = [j \in 1 .. Len(blocks) |->
               IF led(j) THEN SetTarget(blocks[j], Cond(blocks[j]), to) ELSE blocks[j]]
  BY <1>1 DEF Redirect
<1> HIDE DEF new
<1>3. ASSUME NEW j \in 1 .. Len(blocks), led(j)
      PROVE  /\ new[j] \in BlockSet(code) /\ new[j].bb = blocks[j].bb
             /\ EndsInJmp(new[j]) /\ Target(new[j]) = to
             /\ Follows(code, new[j], Behind(blocks, j))
  <2>1. new[j] = SetTarget(blocks[j], Cond(blocks[j]), to)
    BY <1>2, <1>3
  <2>2. Cond(blocks[j]) \in Conds
    BY <1>1, <1>3, BlockKinds
  <2> QED BY <1>1, <1>3, <2>1, <2>2, BlockSetTarget, FollowsLed
<1>4. ASSUME NEW j \in 1 .. Len(blocks), ~led(j) PROVE new[j] = blocks[j]
  BY <1>2, <1>4
<1>5. \A j \in 1 .. Len(blocks) :
        /\ new[j] \in BlockSet(code) /\ new[j].bb = blocks[j].bb
        /\ Follows(code, new[j], Behind(blocks, j))
  BY <1>1, <1>3, <1>4
<1>6. new \in Seq(BlockSet(code)) /\ Len(new) = Len(blocks) /\ DOMAIN new = DOMAIN blocks
  <2>1. new = [j \in 1 .. Len(blocks) |-> new[j]]
    BY <1>2
  <2>2. [j \in 1 .. Len(blocks) |-> new[j]] \in Seq(BlockSet(code))
    BY <1>1, <1>5, IsASeq
  <2>3. DOMAIN new = 1 .. Len(blocks) /\ new \in Seq(BlockSet(code))
    BY <2>1, <2>2
  <2> QED BY <1>1, <2>3, LenProperties
<1>7. /\ Labels(new) = Labels(blocks) /\ Apart(new)
      /\ \A j \in DOMAIN blocks : Behind(new, j) = Behind(blocks, j)
  BY <1>1, <1>5, <1>6, SameLabels
<1>8. Tidied(code, new)
  <2>1. new # <<>>
    BY <1>1, <1>6, EmptySeq
  <2>2. new[1].bb = blocks[1].bb /\ new[Len(new)].bb = blocks[Len(blocks)].bb
    BY <1>1, <1>5, <1>6
  <2>3. \A j \in DOMAIN new : Follows(code, new[j], Behind(new, j))
    BY <1>1, <1>5, <1>6, <1>7
  <2> QED BY <1>6, <1>7, <2>1, <2>2, <2>3 DEF Tidied
<1>9. ASSUME NEW j \in 1 .. Len(blocks)
      PROVE  /\ new[j].bb = from => new[j] = blocks[j]
             /\ EndsInJmp(new[j]) <=> EndsInJmp(blocks[j])
             /\ EndsInJmp(new[j]) /\ new[j].bb # from =>
                  Target(new[j]) # from /\ Target(new[j]) \in {Target(blocks[j]), to}
  <2>1. CASE led(j)
    BY <1>3, <2>1
  <2>2. CASE ~led(j)
    BY <1>4, <2>2
  <2> QED BY <2>1, <2>2
<1> QED BY <1>5, <1>6, <1>7, <1>8, <1>9 DEF new

\* A block may go if those before it do without it.
LEMMA DropProperties ==
  ASSUME NEW code, IsBlocks(code), NEW blocks \in Seq(BlockSet(code)), Apart(blocks),
         NEW k \in 1 .. Len(blocks), k < Len(blocks),
         <<code[1].bb, IF k = 1 THEN blocks[2].bb ELSE blocks[1].bb>> \in Passages(code),
         blocks[Len(blocks)].bb = code[Len(code)].bb,
         \A j \in 1 .. Len(blocks) : j # k =>
           Follows(code, blocks[j], IF j = k - 1 THEN blocks[k + 1].bb ELSE Behind(blocks, j)),
         \A j \in 1 .. Len(blocks) : j # k /\ EndsInJmp(blocks[j]) =>
           Target(blocks[j]) \in Labels(blocks) \ {blocks[k].bb}
  PROVE  LET new == RemoveAt(blocks, k)
         IN  /\ Tidied(code, new) /\ Aimed(new) /\ Len(new) = Len(blocks) - 1
             /\ Labels(new) = Labels(blocks) \ {blocks[k].bb}
<1> DEFINE new == RemoveAt(blocks, k)
           at(j) == IF j < k THEN j ELSE j + 1
<1>1. Len(blocks) \in Nat /\ DOMAIN blocks = 1 .. Len(blocks) /\ k \in Nat \ {0}
  BY LenProperties
<1>2. /\ new \in Seq(BlockSet(code)) /\ Len(new) = Len(blocks) - 1
      /\ \A j \in 1 .. Len(blocks) - 1 : new[j] = IF j < k THEN blocks[j] ELSE blocks[j + 1]
  BY RemoveAtProperties
<1> HIDE DEF new
<1>3. DOMAIN new = 1 .. Len(blocks) - 1
  BY <1>1, <1>2, LenProperties
<1>4. \A j \in 1 .. Len(blocks) - 1 :
        at(j) \in 1 .. Len(blocks) /\ at(j) # k /\ new[j] = blocks[at(j)]
  BY <1>1, <1>2
<1>5. \A i, j \in 1 .. Len(blocks) - 1 : at(i) = at(j) => i = j
  BY <1>1
<1>6. \A m \in 1 .. Len(blocks) : m # k => \E j \in 1 .. Len(blocks) - 1 : at(j) = m
  <2> TAKE m \in 1 .. Len(blocks)
  <2> HAVE m # k
  <2>1. CASE m < k
    <3>1. m \in 1 .. Len(blocks) - 1 /\ at(m) = m
      BY <1>1, <2>1
    <3> QED BY <3>1
  <2>2. CASE ~(m < k)
    <3>1. m - 1 \in 1 .. Len(blocks) - 1 /\ at(m - 1) = m
      BY <1>1, <2>2
    <3> QED BY <3>1
  <2> QED BY <2>1, <2>2
<1>7. ASSUME NEW j \in 1 .. Len(blocks) - 1
      PROVE  Behind(new, j) = IF at(j) = k - 1 THEN blocks[k + 1].bb ELSE Behind(blocks, at(j))
  <2>1. CASE j < k - 1
    <3>1. j < Len(new) /\ at(j) = j /\ j + 1 \in 1 .. Len(blocks) - 1 /\ at(j + 1) = j + 1
      BY <1>1, <1>2, <2>1
    <3>2. new[j + 1] = blocks[j + 1] /\ at(j) # k - 1 /\ at(j) < Len(blocks)
      BY <1>1, <1>4, <2>1, <3>1
    <3> QED BY <3>1, <3>2 DEF Behind
  <2>2. CASE j = k - 1
    <3>1. j < Len(new) /\ at(j) = k - 1 /\ j + 1 \in 1 .. Len(blocks) - 1 /\ at(j + 1) = k + 1
      BY <1>1, <1>2, <2>2
    <3>2. new[j + 1] = blocks[k + 1]
      BY <1>4, <3>1
    <3> QED BY <3>1, <3>2 DEF Behind
  <2>3. CASE ~(j < k) /\ j < Len(blocks) - 1
    <3>1. j < Len(new) /\ at(j) = j + 1 /\ j + 1 \in 1 .. Len(blocks) - 1 /\ at(j + 1) = j + 1 + 1
      BY <1>1, <1>2, <2>3
    <3>2. new[j + 1] = blocks[j + 1 + 1] /\ at(j) # k - 1 /\ at(j) < Len(blocks)
      BY <1>1, <1>4, <2>3, <3>1
    <3> QED BY <3>1, <3>2 DEF Behind
  <2>4. CASE ~(j < k) /\ j = Len(blocks) - 1
    <3>1. ~(j < Len(new)) /\ at(j) = j + 1 /\ at(j) # k - 1 /\ ~(at(j) < Len(blocks))
      BY <1>1, <1>2, <2>4
    <3> QED BY <3>1 DEF Behind
  <2>5. \/ j < k - 1
        \/ j = k - 1
        \/ ~(j < k) /\ j < Len(blocks) - 1
        \/ ~(j < k) /\ j = Len(blocks) - 1
    <3>1. \A a, b, n \in Int :
            a <= n => a < b - 1 \/ a = b - 1 \/ (~(a < b) /\ a < n) \/ (~(a < b) /\ a = n)
      OBVIOUS
    <3>2. j \in Int /\ k \in Int /\ Len(blocks) - 1 \in Int /\ j <= Len(blocks) - 1
      BY <1>1
    <3> QED BY <3>1, <3>2
  <2> HIDE DEF at
  <2> QED BY <2>1, <2>2, <2>3, <2>4, <2>5
<1> HIDE DEF at
<1>8. Labels(new) = Labels(blocks) \ {blocks[k].bb}
  <2>1. ASSUME NEW j \in 1 .. Len(blocks) - 1
        PROVE  new[j].bb \in Labels(blocks) /\ new[j].bb # blocks[k].bb
    <3>1. at(j) \in DOMAIN blocks /\ k \in DOMAIN blocks /\ at(j) # k /\ new[j] = blocks[at(j)]
      BY <1>1, <1>4
    <3>2. blocks[at(j)].bb # blocks[k].bb
      BY <3>1 DEF Apart
    <3> QED BY <3>1, <3>2 DEF Labels
  <2>2. ASSUME NEW m \in 1 .. Len(blocks), blocks[m].bb # blocks[k].bb
        PROVE  blocks[m].bb \in Labels(new)
    <3>1. PICK j \in 1 .. Len(blocks) - 1 : at(j) = m
      BY <1>6, <2>2
    <3> QED BY <1>3, <1>4, <3>1 DEF Labels
  <2> QED BY <1>1, <1>3, <2>1, <2>2 DEF Labels
<1>9. Apart(new)
  BY <1>1, <1>3, <1>4, <1>5 DEF Apart
<1>10. new # <<>> /\ new[Len(new)].bb = code[Len(code)].bb
  <2>1. Len(blocks) - 1 \in 1 .. Len(blocks) - 1 /\ ~(Len(blocks) - 1 < k)
    BY <1>1
  <2>2. at(Len(blocks) - 1) = Len(blocks)
    BY <1>1, <2>1 DEF at
  <2> QED BY <1>2, <1>4, <2>1, <2>2, EmptySeq
<1>11. <<code[1].bb, new[1].bb>> \in Passages(code)
  <2>1. 1 \in 1 .. Len(blocks) - 1 /\ at(1) = IF k = 1 THEN 2 ELSE 1
    BY <1>1 DEF at
  <2> QED BY <1>4, <2>1
<1>12. \A j \in DOMAIN new : Follows(code, new[j], Behind(new, j))
  BY <1>3, <1>4, <1>7
<1>13. Aimed(new)
  BY <1>3, <1>4, <1>8 DEF Aimed
<1> QED BY <1>2, <1>8, <1>9, <1>10, <1>11, <1>12, <1>13 DEF Tidied, new

LEMMA StayingDropped ==
  ASSUME NEW code, IsBlocks(code), NEW blocks, NEW new, Staying(code, blocks),
         NEW i \in Idle(code), i # Len(code), Labels(new) = Labels(blocks) \ {code[i].bb}
  PROVE  Staying(code, new)
<1>1. Apart(code) /\ i \in DOMAIN code
  BY CodeIsBlocks DEF Idle
<1> QED BY <1>1 DEF Staying, Apart

LEMMA EmptyDrops ==
  ASSUME NEW code, IsBlocks(code), NEW blocks,
         Tidied(code, blocks), Aimed(blocks), Staying(code, blocks),
         NEW k \in 1 .. Len(blocks), k < Len(blocks), blocks[k].irs = <<>>
  PROVE  LET new == RemoveAt(Redirect(blocks, blocks[k].bb, blocks[k + 1].bb), k)
         IN  /\ Tidied(code, new) /\ Aimed(new) /\ Staying(code, new)
             /\ Len(new) = Len(blocks) - 1
<1> DEFINE from == blocks[k].bb
           to == blocks[k + 1].bb
           past == Redirect(blocks, from, to)
           new == RemoveAt(past, k)
<1>1. /\ Apart(blocks) /\ DOMAIN blocks = 1 .. Len(blocks) /\ Len(blocks) \in Nat \ {0}
      /\ k + 1 \in 1 .. Len(blocks) /\ k # k + 1
  BY TidiedMeans
<1>2. to \in Labels(code) /\ to \in Labels(blocks) /\ to # from
  <2>1. to \in Labels(code)
    BY <1>1, TidiedMeans
  <2> QED BY <1>1, <2>1 DEF Labels, Apart
<1>3. /\ <<from, to>> \in Passages(code)
      /\ \E i \in Idle(code) : i # Len(code) /\ from = code[i].bb
  BY IdleNow
<1>4. /\ Tidied(code, past) /\ Len(past) = Len(blocks) /\ Labels(past) = Labels(blocks)
      /\ \A j \in 1 .. Len(blocks) :
           /\ past[j].bb = blocks[j].bb
           /\ EndsInJmp(past[j]) <=> EndsInJmp(blocks[j])
           /\ EndsInJmp(past[j]) /\ past[j].bb # from =>
                Target(past[j]) # from /\ Target(past[j]) \in {Target(blocks[j]), to}
  BY <1>2, <1>3, RedirectProperties
<1> HIDE DEF past, from, to
<1>5. past[k].bb = from /\ past[k + 1].bb = to
  BY <1>1, <1>4 DEF from, to
<1>6. /\ past \in Seq(BlockSet(code)) /\ Apart(past) /\ past # <<>>
      /\ past[Len(past)].bb = code[Len(code)].bb /\ <<code[1].bb, past[1].bb>> \in Passages(code)
      /\ DOMAIN past = 1 .. Len(past)
      /\ \A j \in 1 .. Len(past) : Follows(code, past[j], Behind(past, j))
  BY <1>4, TidiedMeans DEF Tidied
<1>7. <<code[1].bb, IF k = 1 THEN past[2].bb ELSE past[1].bb>> \in Passages(code)
  <2>1. CASE k = 1
    BY <1>3, <1>5, <1>6, <2>1, PassageGoesOn
  <2>2. CASE k # 1
    BY <1>6, <2>2
  <2> QED BY <2>1, <2>2
<1>8. ASSUME NEW j \in 1 .. Len(past), j # k
      PROVE  Follows(code, past[j], IF j = k - 1 THEN past[k + 1].bb ELSE Behind(past, j))
  <2>1. CASE j = k - 1
    <3>1. Behind(past, j) = from
      BY <1>1, <1>4, <1>5, <2>1 DEF Behind
    <3>2. Follows(code, past[j], to)
      BY <1>3, <1>6, <3>1, FollowsOn
    <3> QED BY <1>5, <2>1, <3>2
  <2>2. CASE j # k - 1
    BY <1>6, <2>2
  <2> QED BY <2>1, <2>2
<1>9. ASSUME NEW j \in 1 .. Len(past), j # k, EndsInJmp(past[j])
      PROVE  Target(past[j]) \in Labels(past) \ {past[k].bb}
  <2>1. past[j].bb # from
    BY <1>4, <1>5, <1>6, <1>9 DEF Apart
  <2>2. Target(blocks[j]) \in Labels(blocks)
    BY <1>1, <1>4, <1>9 DEF Aimed
  <2> QED BY <1>2, <1>4, <1>5, <1>9, <2>1, <2>2
<1>10. /\ Tidied(code, new) /\ Aimed(new) /\ Len(new) = Len(past) - 1
       /\ Labels(new) = Labels(past) \ {past[k].bb}
  <2>1. \A j \in 1 .. Len(past) : j # k /\ EndsInJmp(past[j]) =>
          Target(past[j]) \in Labels(past) \ {past[k].bb}
    BY <1>9
  <2>2. \A j \in 1 .. Len(past) : j # k =>
          Follows(code, past[j], IF j = k - 1 THEN past[k + 1].bb ELSE Behind(past, j))
    BY <1>8
  <2>3. k \in 1 .. Len(past) /\ k < Len(past)
    BY <1>4
  <2> QED BY <1>6, <1>7, <2>1, <2>2, <2>3, DropProperties
<1> HIDE DEF new
<1>11. Staying(code, new)
  BY <1>3, <1>4, <1>5, <1>10, StayingDropped
<1> QED BY <1>4, <1>10, <1>11 DEF new, past, from, to

LEMMA JumpDrops ==
  ASSUME NEW code, IsBlocks(code), NEW blocks,
         Tidied(code, blocks), Aimed(blocks), Staying(code, blocks),
         NEW k \in 1 .. Len(blocks), 1 < k, k < Len(blocks), JumpsOnly(blocks[k]),
         Removable(Redirect(blocks, blocks[k].bb, Target(blocks[k]))[k - 1], blocks[k + 1].bb)
  PROVE  LET past == Redirect(blocks, blocks[k].bb, Target(blocks[k]))
             new == RemoveAt([past EXCEPT ![k - 1] =
                                TurnedRound(past[k - 1], Target(blocks[k]))], k)
         IN  /\ Tidied(code, new) /\ Aimed(new) /\ Staying(code, new)
             /\ Len(new) = Len(blocks) - 1
<1> DEFINE from == blocks[k].bb
           to == Target(blocks[k])
           past == Redirect(blocks, from, to)
           before == past[k - 1]
           turned == TurnedRound(before, to)
           all == [past EXCEPT ![k - 1] = turned]
           new == RemoveAt(all, k)
<1>1. /\ Apart(blocks) /\ DOMAIN blocks = 1 .. Len(blocks) /\ Len(blocks) \in Nat \ {0}
      /\ k - 1 \in 1 .. Len(blocks) /\ k + 1 \in 1 .. Len(blocks) /\ k # k + 1 /\ k # k - 1
      /\ k \in Int /\ k # 1
  BY TidiedMeans
<1>2. to \in Labels(code) /\ to \in Labels(blocks) /\ to # from
  <2>1. EndsInJmp(blocks[k]) /\ to # from
    BY DEF JumpsOnly, EndsInAnyJmp
  <2>2. to \in Labels(blocks)
    BY <1>1, <2>1 DEF Aimed
  <2>3. to \in Labels(code)
    BY <1>1, <2>1, TidiedMeans, BlockKinds
  <2> QED BY <2>1, <2>2, <2>3
<1>3. /\ <<from, to>> \in Passages(code)
      /\ \E i \in Idle(code) : i # Len(code) /\ from = code[i].bb
  BY IdleNow
<1>4. /\ Tidied(code, past) /\ Len(past) = Len(blocks) /\ Labels(past) = Labels(blocks)
      /\ \A j \in 1 .. Len(blocks) :
           /\ past[j].bb = blocks[j].bb
           /\ EndsInJmp(past[j]) <=> EndsInJmp(blocks[j])
           /\ EndsInJmp(past[j]) /\ past[j].bb # from =>
                Target(past[j]) # from /\ Target(past[j]) \in {Target(blocks[j]), to}
  BY <1>2, <1>3, RedirectProperties
<1>5. EndsInJmp(before) /\ (FallsIn(before) => Target(before) = blocks[k + 1].bb)
  BY DEF Removable
<1> HIDE DEF past, from, to
<1>6. past[k].bb = from /\ past[k + 1].bb = blocks[k + 1].bb
  BY <1>1, <1>4 DEF from
<1>7. /\ past \in Seq(BlockSet(code)) /\ Apart(past)
      /\ past[Len(past)].bb = code[Len(code)].bb /\ <<code[1].bb, past[1].bb>> \in Passages(code)
      /\ DOMAIN past = 1 .. Len(past)
      /\ \A j \in 1 .. Len(past) :
           past[j] \in BlockSet(code) /\ Follows(code, past[j], Behind(past, j))
  BY <1>4, TidiedMeans DEF Tidied
<1>8. Behind(past, k - 1) = from
  <2>1. k - 1 < Len(past) /\ (k - 1) + 1 = k
    BY <1>1, <1>4
  <2> QED BY <1>6, <2>1 DEF Behind
<1>9. /\ Follows(code, turned, past[k + 1].bb) /\ turned \in BlockSet(code)
      /\ turned.bb = before.bb
      /\ EndsInJmp(turned) => Target(turned) \in {Target(before), to}
  <2>1. CASE FallsIn(before)
    <3>1. Follows(code, turned, past[k + 1].bb)
      BY <1>1, <1>2, <1>3, <1>4, <1>5, <1>6, <1>7, <1>8, <2>1, FollowsTurned
    <3>2. turned = SetTarget(before, InvertCond(Cond(before)), to)
      BY <2>1 DEF TurnedRound
    <3>3. Cond(before) \in DOMAIN Inverted
      <4>1. before \in BlockSet(code)
        BY <1>1, <1>4, <1>7
      <4>2. Cond(before) \in Conds /\ Cond(before) # "ANY"
        BY <1>5, <2>1, <4>1, BlockKinds DEF FallsIn, EndsInAnyJmp, Cond
      <4> QED BY <4>2 DEF Conds
    <3>4. InvertCond(Cond(before)) \in Conds
      BY <3>3, OutcomeProperties, SomeOutcome DEF Conds, InvertCond
    <3>5. /\ turned \in BlockSet(code) /\ turned.bb = before.bb /\ Target(turned) = to
      BY <1>1, <1>2, <1>4, <1>5, <1>7, <3>2, <3>4, BlockSetTarget
    <3> QED BY <3>1, <3>5
  <2>2. CASE ~FallsIn(before)
    <3>1. turned = before /\ EndsInAnyJmp(before)
      BY <2>2 DEF TurnedRound, FallsIn
    <3> QED BY <1>1, <1>4, <1>7, <3>1, FollowsAnywhere
  <2> QED BY <2>1, <2>2
<1> HIDE DEF turned
<1>10. /\ all \in Seq(BlockSet(code)) /\ Len(all) = Len(past) /\ DOMAIN all = 1 .. Len(past)
       /\ all[k - 1] = turned
       /\ \A j \in 1 .. Len(past) : j # k - 1 => all[j] = past[j]
  BY <1>1, <1>4, <1>7, <1>9, ExceptSeq
<1> HIDE DEF all
<1>11. /\ Labels(all) = Labels(past) /\ Apart(all)
       /\ \A j \in 1 .. Len(past) : all[j].bb = past[j].bb /\ Behind(all, j) = Behind(past, j)
  <2>1. \A j \in 1 .. Len(past) : all[j].bb = past[j].bb
    BY <1>9, <1>10
  <2> QED BY <1>7, <1>10, <2>1, SameLabels
<1>12. <<code[1].bb, IF k = 1 THEN all[2].bb ELSE all[1].bb>> \in Passages(code)
  <2>1. 1 \in 1 .. Len(past)
    BY <1>1, <1>4
  <2> QED BY <1>1, <1>7, <1>11, <2>1
<1>13. ASSUME NEW j \in 1 .. Len(all), j # k
       PROVE  Follows(code, all[j], IF j = k - 1 THEN all[k + 1].bb ELSE Behind(all, j))
  <2>1. CASE j = k - 1
    <3>1. all[k + 1].bb = past[k + 1].bb
      BY <1>1, <1>4, <1>11
    <3> QED BY <1>9, <1>10, <2>1, <3>1
  <2>2. CASE j # k - 1
    <3>1. j \in 1 .. Len(past) /\ all[j] = past[j] /\ Behind(all, j) = Behind(past, j)
      BY <1>10, <1>11, <2>2
    <3> QED BY <1>7, <2>2, <3>1
  <2> QED BY <2>1, <2>2
<1>14. ASSUME NEW j \in 1 .. Len(all), j # k, EndsInJmp(all[j])
       PROVE  Target(all[j]) \in Labels(all) \ {all[k].bb}
  <2>1. ASSUME NEW m \in 1 .. Len(past), m # k, EndsInJmp(past[m])
        PROVE  Target(past[m]) \in Labels(past) \ {from}
    <3>1. past[m].bb # from
      BY <1>4, <1>6, <1>7, <2>1 DEF Apart
    <3>2. Target(blocks[m]) \in Labels(blocks)
      BY <1>1, <1>4, <2>1 DEF Aimed
    <3> QED BY <1>2, <1>4, <2>1, <3>1, <3>2
  <2>2. all[k].bb = from /\ j \in 1 .. Len(past)
    BY <1>4, <1>6, <1>10, <1>11
  <2>3. CASE j = k - 1
    <3>1. Target(before) \in Labels(past) \ {from}
      BY <1>1, <1>4, <1>5, <2>1
    <3> QED BY <1>2, <1>4, <1>9, <1>10, <1>11, <1>14, <2>2, <2>3, <3>1
  <2>4. CASE j # k - 1
    BY <1>10, <1>11, <1>14, <2>1, <2>2, <2>4
  <2> QED BY <2>3, <2>4
<1>15. /\ Tidied(code, new) /\ Aimed(new) /\ Len(new) = Len(all) - 1
       /\ Labels(new) = Labels(all) \ {all[k].bb}
  <2>1. \A j \in 1 .. Len(all) : j # k /\ EndsInJmp(all[j]) =>
          Target(all[j]) \in Labels(all) \ {all[k].bb}
    BY <1>14
  <2>2. \A j \in 1 .. Len(all) : j # k =>
          Follows(code, all[j], IF j = k - 1 THEN all[k + 1].bb ELSE Behind(all, j))
    BY <1>13
  <2>3. k \in 1 .. Len(all) /\ k < Len(all) /\ all[Len(all)].bb = code[Len(code)].bb
    BY <1>1, <1>4, <1>7, <1>10, <1>11
  <2>4. all \in Seq(BlockSet(code)) /\ Apart(all)
    BY <1>10, <1>11
  <2> HIDE DEF before
  <2> QED BY <1>12, <2>1, <2>2, <2>3, <2>4, DropProperties
<1> HIDE DEF new, before
<1>16. Staying(code, new)
  <2>1. Labels(new) = Labels(blocks) \ {from}
    <3>1. all[k].bb = from /\ Labels(all) = Labels(blocks)
      BY <1>4, <1>6, <1>11
    <3> QED BY <1>15, <3>1
  <2> QED BY <1>3, <2>1, StayingDropped
<1> QED BY <1>4, <1>10, <1>15, <1>16 DEF new, all, turned, before, past, from, to

LEMMA JumpStays ==
  ASSUME NEW code, IsBlocks(code), NEW blocks,
         Tidied(code, blocks), Aimed(blocks), Staying(code, blocks),
         NEW k \in 1 .. Len(blocks), k < Len(blocks), JumpsOnly(blocks[k])
  PROVE  LET past == Redirect(blocks, blocks[k].bb, Target(blocks[k]))
         IN  /\ Tidied(code, past) /\ Aimed(past) /\ Staying(code, past)
             /\ Len(past) = Len(blocks)
<1> DEFINE from == blocks[k].bb
           to == Target(blocks[k])
           past == Redirect(blocks, from, to)
<1>1. DOMAIN blocks = 1 .. Len(blocks)
  BY TidiedMeans
<1>2. to \in Labels(code) /\ to \in Labels(blocks) /\ to # from
  <2>1. EndsInJmp(blocks[k]) /\ to # from
    BY DEF JumpsOnly, EndsInAnyJmp
  <2> QED BY <1>1, <2>1, TidiedMeans, BlockKinds DEF Aimed
<1>3. <<from, to>> \in Passages(code)
  BY IdleNow
<1>4. /\ Tidied(code, past) /\ Len(past) = Len(blocks) /\ Labels(past) = Labels(blocks)
      /\ \A j \in 1 .. Len(blocks) :
           /\ past[j].bb = blocks[j].bb
           /\ past[j].bb = from => past[j] = blocks[j]
           /\ EndsInJmp(past[j]) <=> EndsInJmp(blocks[j])
           /\ EndsInJmp(past[j]) /\ past[j].bb # from =>
                Target(past[j]) # from /\ Target(past[j]) \in {Target(blocks[j]), to}
  BY <1>2, <1>3, RedirectProperties
<1> HIDE DEF past, from, to
<1>5. DOMAIN past = 1 .. Len(blocks)
  BY <1>4, TidiedMeans
<1>6. ASSUME NEW j \in 1 .. Len(blocks), EndsInJmp(past[j])
      PROVE  Target(past[j]) \in Labels(past)
  <2>1. Target(blocks[j]) \in Labels(blocks)
    BY <1>1, <1>4, <1>6 DEF Aimed
  <2> QED BY <1>2, <1>4, <1>6, <2>1
<1>7. Aimed(past) /\ Staying(code, past)
  BY <1>4, <1>5, <1>6 DEF Aimed, Staying
<1> QED BY <1>4, <1>7 DEF past, from, to

-----------------------------------------------------------------------------
\* What is assembled does what was generated.
LEMMA ExitIsWay ==
  ASSUME NEW code, IsBlocks(code), NEW blocks, NEW k, blocks[k] \in BlockSet(code), NEW met
  PROVE  /\ Exit(blocks, k, Len(WorkOf(blocks[k])), met)
              = Way(blocks[k], Behind(blocks, k), met)
         /\ Len(WorkOf(blocks[k])) \in Nat
<1> DEFINE block == blocks[k]
           n == Len(WorkOf(block))
<1>1. n \in Nat
  BY BlockKinds, LenProperties
<1>2. CASE EndsInJmp(block)
  <2>1. n < Len(block.irs) /\ block.irs[n + 1] = Last(block.irs)
    BY <1>1, <1>2, BlockKinds
  <2> QED BY <1>1, <1>2, <2>1 DEF Exit, Way, Cond, Target
<1>3. CASE ~EndsInJmp(block)
  <2>1. ~(n < Len(block.irs))
    BY <1>1, <1>3, BlockKinds
  <2> QED BY <1>1, <1>3, <2>1 DEF Exit, Way
<1> QED BY <1>2, <1>3

\* A block that follows, with or without its jump to the one behind it.
LEMMA FollowsIsSame ==
  ASSUME NEW code, IsBlocks(code), NEW blocks, NEW k, NEW i \in DOMAIN code,
         NEW old \in BlockSet(code), FollowsAt(code, i, old, Behind(blocks, k)),
         blocks[k].bb = old.bb,
         \/ blocks[k] = old
         \/ /\ blocks[k].irs = WorkOf(old)
            /\ EndsInAnyJmp(old) /\ Target(old) = Behind(blocks, k)
  PROVE  SameBlock(code, i, blocks, k, Passages(code))
<1> DEFINE n == Len(WorkOf(code[i]))
           irs == blocks[k].irs
<1>1. /\ old.bb = code[i].bb /\ WorkOf(old) = WorkOf(code[i])
      /\ \A met \in Outcomes :
           <<Way(code[i], Behind(code, i), met), Way(old, Behind(blocks, k), met)>>
             \in Passages(code)
  BY DEF FollowsAt
<1>2. code[i] \in BlockSet(code)
  BY CodeIsBlocks, BlocksKinds
<1>3. n \in Nat /\ \A met : Exit(code, i, n, met) = Way(code[i], Behind(code, i), met)
  BY <1>2, ExitIsWay
<1>4. WorkOf(old) \in Seq(IrsLedAnywhere(code)) /\ Len(WorkOf(old)) = n
  BY <1>1, BlockKinds
<1>5. ASSUME NEW list \in Seq(IrsLedAnywhere(code)), n <= Len(list),
             \A j \in 1 .. n : list[j] = WorkOf(old)[j]
      PROVE  SubSeq(list, 1, n) = WorkOf(code[i])
  <2> DEFINE part == SubSeq(list, 1, n)
  <2>1. Len(list) \in Nat /\ \A j \in 1 .. n : list[j] \in IrsLedAnywhere(code)
    BY <1>3, <1>4, <1>5, LenProperties
  <2>2. /\ part \in Seq(IrsLedAnywhere(code)) /\ Len(part) = n
        /\ \A j \in 1 .. n : part[j] = list[j]
    <3>1. \A j \in 1 .. n : 1 + j - 1 = j
      BY <1>3
    <3>2. /\ part \in Seq(IrsLedAnywhere(code))
          /\ Len(part) = IF 1 <= n THEN n - 1 + 1 ELSE 0
          /\ \A j \in 1 .. n - 1 + 1 : part[j] = list[1 + j - 1]
      BY <1>3, <2>1, SubSeqProperties
    <3>3. Len(part) = n /\ 1 .. n - 1 + 1 = 1 .. n
      BY <1>3, <3>2
    <3> QED BY <3>1, <3>2, <3>3
  <2> HIDE DEF part
  <2>3. part = WorkOf(old)
    BY <1>4, <1>5, <2>2, SeqEqual
  <2> QED BY <1>1, <2>3 DEF part
<1>6. CASE blocks[k] = old
  <2>1. irs \in Seq(IrsLedAnywhere(code))
    BY <1>6 DEF BlockSet
  <2>2. /\ Len(irs) \in {n, n + 1}
        /\ n < Len(irs) => irs[n + 1].op = "JMP"
        /\ n <= Len(irs) /\ \A j \in 1 .. n : irs[j] = WorkOf(old)[j]
    <3>1. CASE EndsInJmp(old)
      <4>1. /\ Len(irs) = n + 1 /\ Last(irs) = irs[Len(irs)]
            /\ \A j \in 1 .. n : WorkOf(old)[j] = irs[j]
        BY <1>4, <1>6, <3>1, BlockKinds
      <4> QED BY <1>3, <1>6, <3>1, <4>1 DEF EndsInJmp
    <3>2. CASE ~EndsInJmp(old)
      BY <1>3, <1>4, <1>6, <3>2, BlockKinds
    <3> QED BY <3>1, <3>2
  <2>3. SubSeq(irs, 1, n) = WorkOf(code[i])
    BY <1>5, <2>1, <2>2
  <2>4. ASSUME NEW met PROVE Exit(blocks, k, n, met) = Way(old, Behind(blocks, k), met)
    <3>1. blocks[k] \in BlockSet(code) /\ Len(WorkOf(blocks[k])) = n
      BY <1>1, <1>6
    <3>2. Exit(blocks, k, Len(WorkOf(blocks[k])), met) = Way(blocks[k], Behind(blocks, k), met)
      BY <3>1, ExitIsWay
    <3> QED BY <1>6, <3>1, <3>2
  <2>5. \A met \in Outcomes : <<Exit(code, i, n, met), Exit(blocks, k, n, met)>> \in Passages(code)
    BY <1>1, <1>3, <2>4
  <2>6. blocks[k].bb = code[i].bb
    BY <1>1
  <2> HIDE DEF n
  <2> QED BY <2>2, <2>3, <2>5, <2>6 DEF SameBlock, n
<1>7. CASE blocks[k].irs = WorkOf(old) /\ EndsInAnyJmp(old) /\ Target(old) = Behind(blocks, k)
  <2>1. Len(irs) = n /\ ~(n < Len(irs)) /\ irs \in Seq(IrsLedAnywhere(code))
    BY <1>3, <1>4, <1>7
  <2>2. SubSeq(irs, 1, n) = WorkOf(code[i])
    BY <1>3, <1>5, <1>7, <2>1
  <2>3. ASSUME NEW met \in Outcomes
        PROVE  Exit(blocks, k, n, met) = Way(old, Behind(blocks, k), met)
    <3>1. Exit(blocks, k, n, met) = Behind(blocks, k)
      BY <2>1 DEF Exit
    <3>2. Way(old, Behind(blocks, k), met) = Target(old)
      BY <1>7, OutcomeProperties DEF Way, EndsInAnyJmp, Cond
    <3> QED BY <1>7, <3>1, <3>2
  <2> QED BY <1>1, <1>3, <2>1, <2>2, <2>3 DEF SameBlock
<1> QED BY <1>6, <1>7

LEMMA TidiedIsSame ==
  ASSUME NEW code, IsBlocks(code), NEW blocks, Tidied(code, blocks)
  PROVE  SameFlow(code, blocks)
<1>1. ASSUME NEW k \in DOMAIN blocks
      PROVE  \E i \in DOMAIN code : SameBlock(code, i, blocks, k, Passages(code))
  <2>1. blocks[k] \in BlockSet(code) /\ Follows(code, blocks[k], Behind(blocks, k))
    BY TidiedMeans
  <2>2. PICK i \in DOMAIN code : FollowsAt(code, i, blocks[k], Behind(blocks, k))
    BY <2>1 DEF Follows
  <2>3. SameBlock(code, i, blocks, k, Passages(code))
    BY <2>1, <2>2, FollowsIsSame
  <2> QED BY <2>3
<1> QED BY <1>1 DEF SameFlow, Tidied

LEMMA LastJumpsGone ==
  ASSUME NEW code, IsBlocks(code), NEW blocks, Tidied(code, blocks)
  PROVE  LET new == WithoutJumpsToNext(blocks)
         IN  /\ new \in Seq(BlockSet(code)) /\ new # <<>> /\ DOMAIN new = DOMAIN blocks
             /\ Labels(new) = Labels(blocks) /\ SameFlow(code, new)
             /\ \A k \in DOMAIN blocks : new[k] = blocks[k] \/ new[k].irs = WorkOf(blocks[k])
<1> DEFINE new == WithoutJumpsToNext(blocks)
           ends(k) == /\ k < Len(blocks) /\ EndsInAnyJmp(blocks[k])
                      /\ Target(blocks[k]) = blocks[k + 1].bb
           cut(k) == [blocks[k] EXCEPT !.irs = Front(blocks[k].irs)]
<1>1. /\ blocks \in Seq(BlockSet(code)) /\ blocks # <<>>
      /\ Len(blocks) \in Nat \ {0} /\ DOMAIN blocks = 1 .. Len(blocks)
      /\ \A k \in 1 .. Len(blocks) :
           blocks[k] \in BlockSet(code) /\ Follows(code, blocks[k], Behind(blocks, k))
  BY TidiedMeans
<1>2. new = [k \in 1 .. Len(blocks) |-> IF ends(k) THEN cut(k) ELSE blocks[k]]
  BY <1>1 DEF WithoutJumpsToNext
<1>3. ASSUME NEW k \in 1 .. Len(blocks), ends(k)
      PROVE  /\ new[k] \in BlockSet(code) /\ new[k].bb = blocks[k].bb
             /\ new[k].irs = WorkOf(blocks[k])
             /\ EndsInAnyJmp(blocks[k]) /\ Target(blocks[k]) = Behind(blocks, k)
  <2>1. /\ blocks[k] = [bb |-> blocks[k].bb, irs |-> blocks[k].irs]
        /\ blocks[k].bb \in Labels(code)
        /\ WorkOf(blocks[k]) \in Seq(IrsLedAnywhere(code))
    BY <1>1, BlockKinds DEF BlockSet
  <2>2. WorkOf(blocks[k]) = Front(blocks[k].irs)
    BY <1>3 DEF WorkOf, EndsInAnyJmp
  <2>3. new[k] = cut(k)
    BY <1>2, <1>3
  <2>4. new[k] = [bb |-> blocks[k].bb, irs |-> WorkOf(blocks[k])]
    BY <2>1, <2>2, <2>3
  <2> HIDE DEF new
  <2>5. new[k] \in BlockSet(code) /\ new[k].bb = blocks[k].bb /\ new[k].irs = WorkOf(blocks[k])
    BY <2>1, <2>4 DEF BlockSet
  <2> QED BY <1>3, <2>5 DEF Behind
<1>4. ASSUME NEW k \in 1 .. Len(blocks), ~ends(k) PROVE new[k] = blocks[k]
  BY <1>2, <1>4
<1> HIDE DEF new, ends
<1>5. \A k \in 1 .. Len(blocks) :
        /\ new[k] \in BlockSet(code) /\ new[k].bb = blocks[k].bb
        /\ new[k] = blocks[k] \/ new[k].irs = WorkOf(blocks[k])
  BY <1>1, <1>3, <1>4
<1>6. new \in Seq(BlockSet(code)) /\ Len(new) = Len(blocks) /\ DOMAIN new = DOMAIN blocks
  <2>1. new = [k \in 1 .. Len(blocks) |-> new[k]]
    BY <1>2
  <2>2. [k \in 1 .. Len(blocks) |-> new[k]] \in Seq(BlockSet(code))
    BY <1>1, <1>5, IsASeq
  <2>3. DOMAIN new = 1 .. Len(blocks) /\ new \in Seq(BlockSet(code))
    BY <2>1, <2>2
  <2> QED BY <1>1, <2>3, LenProperties
<1>7. /\ Labels(new) = Labels(blocks)
      /\ \A k \in DOMAIN blocks : Behind(new, k) = Behind(blocks, k)
  BY <1>1, <1>5, <1>6, SameLabels
<1>8. ASSUME NEW k \in DOMAIN new
      PROVE  \E i \in DOMAIN code : SameBlock(code, i, new, k, Passages(code))
  <2>1. PICK i \in DOMAIN code : FollowsAt(code, i, blocks[k], Behind(new, k))
    BY <1>1, <1>6, <1>7 DEF Follows
  <2>2. CASE ends(k)
    <3>1. SameBlock(code, i, new, k, Passages(code))
      BY <1>1, <1>3, <1>6, <1>7, <2>1, <2>2, FollowsIsSame
    <3> QED BY <3>1
  <2>3. CASE ~ends(k)
    <3>1. SameBlock(code, i, new, k, Passages(code))
      BY <1>1, <1>4, <1>6, <2>1, <2>3, FollowsIsSame
    <3> QED BY <3>1
  <2> QED BY <2>2, <2>3
<1>9. new # <<>> /\ new[1].bb = blocks[1].bb
  BY <1>1, <1>5, <1>6, EmptySeq
<1>10. SameFlow(code, new)
  BY <1>8, <1>9 DEF SameFlow, Tidied
<1> QED BY <1>1, <1>5, <1>6, <1>7, <1>9, <1>10 DEF new

\* If the jumps that stay where they are lead to blocks that stay, all jumps do.
LEMMA JumpsHaveBlocks ==
  ASSUME NEW code, IsBlocks(code), MidJumpsStay(code), NEW blocks,
         Tidied(code, blocks), Aimed(blocks), Staying(code, blocks)
  PROVE  LET new == WithoutJumpsToNext(blocks) IN Jumps(new) \subseteq Labels(new)
<1> DEFINE new == WithoutJumpsToNext(blocks)
<1>1. /\ DOMAIN new = DOMAIN blocks /\ Labels(new) = Labels(blocks)
      /\ \A k \in DOMAIN blocks : new[k] = blocks[k] \/ new[k].irs = WorkOf(blocks[k])
  BY LastJumpsGone
<1> HIDE DEF new
<1>2. SUFFICES ASSUME NEW k \in DOMAIN blocks, NEW j \in JumpsIn(new[k].irs)
               PROVE  new[k].irs[j].x.bb \in Labels(blocks)
  BY <1>1 DEF Jumps, new
<1> DEFINE block == blocks[k]
           n == Len(WorkOf(block))
<1>3. block \in BlockSet(code) /\ DOMAIN blocks = 1 .. Len(blocks)
  BY TidiedMeans
<1>4. PICK i \in DOMAIN code : FollowsAt(code, i, block, Behind(blocks, k))
  BY <1>3, TidiedMeans DEF Follows
<1>5. WorkOf(block) = WorkOf(code[i]) /\ code[i] \in BlockSet(code)
  BY <1>4, CodeIsBlocks, BlocksKinds DEF FollowsAt
<1>6. n \in Nat /\ DOMAIN WorkOf(block) = 1 .. n
  BY <1>3, BlockKinds, LenProperties
<1>7. ASSUME NEW m \in 1 .. n, WorkOf(block)[m].op = "JMP"
      PROVE  WorkOf(block)[m].x.bb \in Labels(blocks)
  <2>1. /\ code[i].irs \in Seq(IrsLedAnywhere(code)) /\ Len(code[i].irs) \in Nat
        /\ DOMAIN code[i].irs = 1 .. Len(code[i].irs)
    BY <1>5, LenProperties DEF BlockSet
  <2>2. m < Len(code[i].irs) /\ WorkOf(block)[m] = code[i].irs[m]
    <3>1. CASE EndsInJmp(code[i])
      BY <1>5, <1>6, <3>1, BlockKinds
    <3>2. CASE ~EndsInJmp(code[i])
      <4>1. WorkOf(block) = code[i].irs
        BY <1>5, <3>2, BlockKinds
      <4>2. m # Len(code[i].irs)
        BY <1>6, <1>7, <2>1, <3>2, <4>1, EmptySeq DEF EndsInJmp, Last
      <4> QED BY <1>6, <2>1, <4>1, <4>2
    <3> QED BY <3>1, <3>2
  <2>3. m \in JumpsIn(code[i].irs) /\ code[i].irs[m] \in IrsLedAnywhere(code)
    BY <1>6, <1>7, <2>1, <2>2, LenProperties DEF JumpsIn
  <2>4. code[i].irs[m].x.bb \in Labels(code)
    BY <1>7, <2>2, <2>3, InstrKinds DEF IsInstr
  <2>5. PICK to \in DOMAIN code : code[i].irs[m].x.bb = code[to].bb
    BY <2>4 DEF Labels
  <2>6. to \notin Idle(code) \/ to = Len(code)
    BY <2>2, <2>3, <2>5 DEF MidJumpsStay
  <2> QED BY <2>2, <2>5, <2>6 DEF Staying
<1>8. CASE new[k].irs = WorkOf(block)
  BY <1>6, <1>7, <1>8 DEF JumpsIn
<1>9. CASE new[k] = block
  <2>1. CASE EndsInJmp(block)
    <3>1. /\ Len(block.irs) = n + 1 /\ Last(block.irs) = block.irs[n + 1]
          /\ \A m \in 1 .. n : WorkOf(block)[m] = block.irs[m]
      BY <1>3, <1>6, <2>1, BlockKinds
    <3>2. DOMAIN block.irs = 1 .. n + 1
      BY <1>3, <3>1, LenProperties DEF BlockSet
    <3>3. Target(block) \in Labels(blocks)
      BY <2>1 DEF Aimed
    <3>4. CASE j = n + 1
      BY <1>9, <3>1, <3>3, <3>4 DEF Target
    <3>5. CASE j # n + 1
      BY <1>6, <1>7, <1>9, <3>1, <3>2, <3>5 DEF JumpsIn
    <3> QED BY <3>4, <3>5
  <2>2. CASE ~EndsInJmp(block)
    BY <1>3, <1>8, <1>9, <2>2, BlockKinds
  <2> QED BY <2>1, <2>2
<1> QED BY <1>1, <1>8, <1>9

-----------------------------------------------------------------------------
\* TidyInv is inductive.
LEMMA OwnIsBlocks == ASSUME prog \in DOMAIN CodeOf PROVE IsBlocks(Own)
BY BlocksAssumption DEF Own

LEMMA TidyInvInit == TidyInit => TidyInv
BY DEF TidyInit, TidyInv

LEMMA TidyInvStep == TidyInv /\ [TidyNext]_tidyVars => TidyInv'
<1> SUFFICES ASSUME TidyInv, [TidyNext]_tidyVars PROVE TidyInv'
  OBVIOUS
<1>1. IsBlocks(Own)
  BY OwnIsBlocks DEF TidyInv
<1>2. ASSUME prog' = prog PROVE Own' = Own
  BY <1>2 DEF Own, CodeOf
<1>3. ASSUME phase = "generated"
      PROVE  /\ Tidied(Own, bbs) /\ Aimed(bbs) /\ Staying(Own, bbs)
             /\ Len(bbs) \in Nat \ {0} /\ scan.i \in Nat \ {0} /\ scan.again \in BOOLEAN
             /\ scan.i \in 1 .. Len(bbs)
  <2>1. /\ Tidied(Own, bbs) /\ Aimed(bbs) /\ Staying(Own, bbs) /\ scan.i <= Len(bbs)
        /\ scan.i \in Nat \ {0} /\ scan.again \in BOOLEAN
    BY <1>3 DEF TidyInv
  <2>2. Len(bbs) \in Nat \ {0}
    BY <2>1, TidiedMeans
  <2> QED BY <2>1, <2>2
<1>4. CASE Generated
  <2>1. Tidied(Own, Own) /\ Aimed(Own) /\ Staying(Own, Own) /\ Len(Own) \in Nat \ {0}
    BY <1>1, TidiedAtFirst, CodeIsBlocks
  <2>2. /\ prog' = prog /\ Own' = Own /\ bbs' = Own /\ scan' = scan /\ phase' = "generated"
        /\ scan.i = 1
    BY <1>2, <1>4 DEF Generated, Own, TidyInv
  <2> HIDE DEF Own
  <2> QED BY <2>1, <2>2 DEF TidyInv
<1>5. ASSUME phase = "generated", prog' = prog, phase' = "generated",
             Tidied(Own, bbs'), Aimed(bbs'), Staying(Own, bbs'),
             scan' \in [i : Nat \ {0}, again : BOOLEAN], scan'.i <= Len(bbs')
      PROVE  TidyInv'
  BY <1>2, <1>5 DEF TidyInv
<1>6. CASE RemoveEmpty
  <2>1. /\ phase = "generated" /\ prog' = prog /\ phase' = "generated" /\ scan.i < Len(bbs)
        /\ bbs[scan.i].irs = <<>> /\ scan' = [scan EXCEPT !.again = TRUE]
        /\ bbs' = RemoveAt(Redirect(bbs, bbs[scan.i].bb, bbs[scan.i + 1].bb), scan.i)
    BY <1>6 DEF RemoveEmpty, Scanning
  <2>2. /\ Tidied(Own, bbs') /\ Aimed(bbs') /\ Staying(Own, bbs') /\ Len(bbs') = Len(bbs) - 1
    BY <1>1, <1>3, <2>1, EmptyDrops
  <2>3. scan' \in [i : Nat \ {0}, again : BOOLEAN] /\ scan'.i = scan.i
    BY <2>1 DEF TidyInv
  <2>4. scan'.i <= Len(bbs')
    BY <1>3, <2>1, <2>2, <2>3
  <2> QED BY <1>5, <2>1, <2>2, <2>3, <2>4
<1>7. CASE RemoveJump
  <2>1. /\ phase = "generated" /\ prog' = prog /\ phase' = "generated" /\ scan.i < Len(bbs)
        /\ scan.i > 1 /\ JumpsOnly(bbs[scan.i]) /\ scan' = [scan EXCEPT !.again = TRUE]
        /\ Removable(Redirect(bbs, bbs[scan.i].bb, Target(bbs[scan.i]))[scan.i - 1],
                     bbs[scan.i + 1].bb)
        /\ LET past == Redirect(bbs, bbs[scan.i].bb, Target(bbs[scan.i]))
           IN  bbs' = RemoveAt([past EXCEPT ![scan.i - 1] =
                                  TurnedRound(past[scan.i - 1], Target(bbs[scan.i]))], scan.i)
    BY <1>7 DEF RemoveJump, Scanning
  <2>2. 1 < scan.i
    BY <1>3, <2>1
  <2>3. /\ Tidied(Own, bbs') /\ Aimed(bbs') /\ Staying(Own, bbs') /\ Len(bbs') = Len(bbs) - 1
    BY <1>1, <1>3, <2>1, <2>2, JumpDrops
  <2>4. scan' \in [i : Nat \ {0}, again : BOOLEAN] /\ scan'.i = scan.i
    BY <2>1 DEF TidyInv
  <2>5. scan'.i <= Len(bbs')
    BY <1>3, <2>1, <2>3, <2>4
  <2> QED BY <1>5, <2>1, <2>3, <2>4, <2>5
<1>8. CASE KeepBlock
  <2>1. /\ phase = "generated" /\ prog' = prog /\ phase' = "generated" /\ scan.i < Len(bbs)
        /\ scan' = [scan EXCEPT !.i = @ + 1]
        /\ \/ JumpsOnly(bbs[scan.i]) /\ bbs' = Redirect(bbs, bbs[scan.i].bb, Target(bbs[scan.i]))
           \/ bbs' = bbs
    BY <1>8 DEF KeepBlock, Scanning
  <2>2. /\ Tidied(Own, bbs') /\ Aimed(bbs') /\ Staying(Own, bbs') /\ Len(bbs') = Len(bbs)
    BY <1>1, <1>3, <2>1, JumpStays
  <2>3. scan' \in [i : Nat \ {0}, again : BOOLEAN] /\ scan'.i = scan.i + 1
    BY <1>3, <2>1 DEF TidyInv
  <2>4. scan'.i <= Len(bbs')
    BY <1>3, <2>1, <2>2, <2>3
  <2> QED BY <1>5, <2>1, <2>2, <2>3, <2>4
<1>9. CASE ScanAgain
  <2>1. /\ phase = "generated" /\ prog' = prog /\ phase' = "generated" /\ bbs' = bbs
        /\ scan' = [i |-> 1, again |-> FALSE]
    BY <1>9 DEF ScanAgain
  <2>2. scan' \in [i : Nat \ {0}, again : BOOLEAN] /\ scan'.i <= Len(bbs')
    BY <1>3, <2>1
  <2> QED BY <1>3, <1>5, <2>1, <2>2
<1>10. CASE Assemble
  <2>1. /\ phase = "generated" /\ prog' = prog /\ phase' \in {"assembled", "rejected"}
        /\ bbs' = WithoutJumpsToNext(bbs) /\ scan' = scan /\ Own' = Own
    BY <1>2, <1>10 DEF Assemble
  <2>2. bbs' \in Seq(BlockSet(Own)) /\ SameFlow(Own, bbs')
    BY <1>1, <1>3, <2>1, LastJumpsGone
  <2> QED BY <2>1, <2>2 DEF TidyInv
<1>11. CASE UNCHANGED tidyVars
  <2>1. Own' = Own /\ prog' = prog /\ phase' = phase /\ bbs' = bbs /\ scan' = scan
    BY <1>2, <1>11 DEF tidyVars
  <2> QED BY <2>1 DEF TidyInv
<1> QED BY <1>4, <1>6, <1>7, <1>8, <1>9, <1>10, <1>11 DEF TidyNext, TidyBlocks

LEMMA TidyInvAlways == TidySpec => []TidyInv
BY TidyInvInit, TidyInvStep, PTL DEF TidySpec

-----------------------------------------------------------------------------
\* Blocks lose labels, and jumps change, nothing else.
THEOREM BasicBlocksTypeOK == TidySpec => []TidyTypeOK
<1>1. TidyInv => TidyTypeOK
  <2> SUFFICES ASSUME TidyInv PROVE TidyTypeOK
    OBVIOUS
  <2>1. bbs \in Seq(BlockSet(Own))
    <3>1. CASE phase = "parsed"
      BY <3>1, EmptySeq DEF TidyInv
    <3>2. CASE phase # "parsed"
      BY <3>2 DEF TidyInv, Tidied
    <3> QED BY <3>1, <3>2
  <2> QED BY <2>1 DEF TidyInv, TidyTypeOK, BlockSet, Own
<1> QED BY <1>1, TidyInvAlways, PTL

\* remove_unnecessary_bb changes nowhere what the function does.
THEOREM BasicBlocksFlowIsKept == TidySpec => []FlowIsKept
<1>1. TidyInv => FlowIsKept
  <2> SUFFICES ASSUME TidyInv, phase # "parsed" PROVE SameFlow(Own, bbs)
    BY DEF FlowIsKept, Own
  <2>1. CASE phase = "generated"
    BY <2>1, OwnIsBlocks, TidiedIsSame DEF TidyInv
  <2>2. CASE phase # "generated"
    BY <2>2 DEF TidyInv
  <2> QED BY <2>1, <2>2
<1> QED BY <1>1, TidyInvAlways, PTL

\* It leaves no jump to a block that is gone, if the jumps before the ends of
\* blocks, which it does not see, lead to blocks that it does not drop.
THEOREM BasicBlocksTargetsExist ==
  ASSUME \A p \in DOMAIN CodeOf : MidJumpsStay(CodeOf[p].bbs)
  PROVE  TidySpec => []TargetsExist
<1>1. TidyInit => TargetsExist
  BY DEF TidyInit, TargetsExist
<1>2. TidyInv /\ TargetsExist /\ [TidyNext]_tidyVars => TargetsExist'
  <2> SUFFICES ASSUME TidyInv, TargetsExist, [TidyNext]_tidyVars PROVE TargetsExist'
    OBVIOUS
  <2>1. CASE Assemble
    <3>1. IsBlocks(Own) /\ MidJumpsStay(Own)
      BY OwnIsBlocks DEF TidyInv, Own
    <3>2. Tidied(Own, bbs) /\ Aimed(bbs) /\ Staying(Own, bbs)
      BY <2>1 DEF Assemble, TidyInv
    <3>3. Jumps(bbs') \subseteq Labels(bbs')
      BY <2>1, <3>1, <3>2, JumpsHaveBlocks DEF Assemble
    <3> QED BY <2>1, <3>3 DEF Assemble, TargetsExist
  <2>2. CASE ~Assemble
    BY <2>2 DEF TidyNext, TidyBlocks, Generated, RemoveEmpty, RemoveJump, KeepBlock,
                ScanAgain, Scanning, TargetsExist, tidyVars
  <2> QED BY <2>1, <2>2
<1> QED BY <1>1, <1>2, TidyInvAlways, PTL DEF TidySpec

\* The loops end: no step leaves a block count, the flag again and the index as
\* they were, and they go one way only.
THEOREM BasicBlocksLoopsEnd == TidySpec => [][GoesForward]_tidyVars
<1>1. ASSUME TidyInv, TidyInv', TidyNext PROVE GoesForward
  <2> SUFFICES ASSUME phase = "generated", phase' = "generated"
               PROVE  \/ Len(bbs') < Len(bbs)
                      \/ Len(bbs') = Len(bbs) /\ scan.again /\ ~scan'.again
                      \/ /\ Len(bbs') = Len(bbs) /\ scan'.again = scan.again
                         /\ scan'.i = scan.i + 1 /\ scan'.i <= Len(bbs')
    BY DEF GoesForward
  <2>1. /\ IsBlocks(Own) /\ Tidied(Own, bbs) /\ Aimed(bbs) /\ Staying(Own, bbs)
        /\ scan \in [i : Nat \ {0}, again : BOOLEAN] /\ scan.i <= Len(bbs)
    BY <1>1, OwnIsBlocks DEF TidyInv
  <2>2. Len(bbs) \in Nat \ {0} /\ scan.i \in 1 .. Len(bbs)
    BY <2>1, TidiedMeans
  <2>3. CASE RemoveEmpty
    <3>1. /\ scan.i < Len(bbs) /\ bbs[scan.i].irs = <<>>
          /\ bbs' = RemoveAt(Redirect(bbs, bbs[scan.i].bb, bbs[scan.i + 1].bb), scan.i)
      BY <2>3 DEF RemoveEmpty, Scanning
    <3>2. Len(bbs') = Len(bbs) - 1
      BY <2>1, <2>2, <3>1, EmptyDrops
    <3> QED BY <2>2, <3>2
  <2>4. CASE RemoveJump
    <3>1. /\ scan.i < Len(bbs) /\ scan.i > 1 /\ JumpsOnly(bbs[scan.i])
          /\ Removable(Redirect(bbs, bbs[scan.i].bb, Target(bbs[scan.i]))[scan.i - 1],
                       bbs[scan.i + 1].bb)
          /\ LET past == Redirect(bbs, bbs[scan.i].bb, Target(bbs[scan.i]))
             IN  bbs' = RemoveAt([past EXCEPT ![scan.i - 1] =
                                    TurnedRound(past[scan.i - 1], Target(bbs[scan.i]))], scan.i)
      BY <2>4 DEF RemoveJump, Scanning
    <3>2. 1 < scan.i
      BY <2>2, <3>1
    <3>3. Len(bbs') = Len(bbs) - 1
      BY <2>1, <2>2, <3>1, <3>2, JumpDrops
    <3> QED BY <2>2, <3>3
  <2>5. CASE KeepBlock
    <3>1. /\ scan.i < Len(bbs) /\ scan' = [scan EXCEPT !.i = @ + 1]
          /\ \/ JumpsOnly(bbs[scan.i]) /\ bbs' = Redirect(bbs, bbs[scan.i].bb, Target(bbs[scan.i]))
             \/ bbs' = bbs
      BY <2>5 DEF KeepBlock, Scanning
    <3>2. Len(bbs') = Len(bbs)
      BY <2>1, <2>2, <3>1, JumpStays
    <3>3. scan'.again = scan.again /\ scan'.i = scan.i + 1
      BY <2>1, <3>1
    <3> QED BY <2>2, <3>1, <3>2, <3>3
  <2>6. CASE ScanAgain
    BY <2>6 DEF ScanAgain
  <2> QED BY <1>1, <2>3, <2>4, <2>5, <2>6 DEF TidyNext, TidyBlocks, Generated, Assemble
<1>2. TidyInv /\ TidyInv' /\ [TidyNext]_tidyVars => [GoesForward]_tidyVars
  BY <1>1
<1> QED BY <1>2, TidyInvAlways, PTL DEF TidySpec
=============================================================================
