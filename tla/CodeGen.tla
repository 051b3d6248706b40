------------------------------- MODULE CodeGen ------------------------------
(***************************************************************************)
(* Intermediate code for the parser's trees: src/cc/codegen.c,             *)
(* src/cc/codegen_expr.c and the constructors of src/cc/ir.c.  Code is a   *)
(* sequence of instructions and block marks (set_curbb).  Where the code   *)
(* draws a fresh register or block from a counter, the model names it by   *)
(* the path p of the tree node that asks for it.                           *)
(***************************************************************************)
EXTENDS Typing, SequencesExt

(***************************************************************************)
(* Registers.  A constant one is an immediate operand; the register of a   *)
(* variable is named by the variable.                                      *)
(***************************************************************************)
VType(t) == [size |-> IF t.kind \in {"fixnum", "ptr"} THEN SizeOf(t) ELSE WordSize,
             uns |-> IF IsNumber(t) THEN t.uns ELSE TRUE]
PtrVType == [size |-> WordSize, uns |-> FALSE]

Reg(id, vt) == [const |-> FALSE, id |-> id, v |-> 0, size |-> vt.size, uns |-> vt.uns]
ConstReg(v, vt) == [const |-> TRUE, id |-> <<"const">>, v |-> v, size |-> vt.size, uns |-> vt.uns]
Temp(p, vt) == Reg(<<"temp">> \o p, vt)
VarReg(x) == Reg(<<"var", x>>, VType(Vars[x].type))
NoReg == ConstReg(0, PtrVType)
VTypeOf(reg) == [size |-> reg.size, uns |-> reg.uns]

InRegister(e) == e.ex = "VAR" /\ IsLocal(e.x) /\ IsScalar(e.type)

Ir(op, dst, a, b, size, x) == [op |-> op, dst |-> dst, a |-> a, b |-> b, size |-> size, x |-> x]
Block(bb) == <<Ir("BB", NoReg, NoReg, NoReg, 0, bb)>>
Jmp(cond, bb) == <<Ir("JMP", NoReg, NoReg, NoReg, 0, [cond |-> cond, bb |-> bb])>>
Mov(dst, a) == <<Ir("MOV", dst, a, NoReg, dst.size, 0)>>
Load(p, at, vt) == [code |-> <<Ir("LOAD", Temp(p, vt), at, NoReg, vt.size, 0)>>, reg |-> Temp(p, vt)]
Store(at, a) == <<Ir("STORE", NoReg, a, at, a.size, 0)>>
Memcpy(to, from, size) == <<Ir("MEMCPY", NoReg, from, to, size, 0)>>
BB(p, k) == <<"bb">> \o p \o <<k>>

\* Code and the register its value is in.
G(code, reg) == [code |-> code, reg |-> reg]

\* clamp_value
Clamp(v, vt) == IF vt.size < WordSize THEN Wrap(v, vt.size, vt.uns) ELSE Fixnum(v)

Divisions == {"DIV", "DIVU", "MOD", "MODU"}

FoldConstants(op, l, r) ==
  LET bits(v) == Wrap(v, WordSize, TRUE) IN
  CASE op \in {"DIV", "MOD"} -> Exact("DIV", l.v, r.v)
    [] op \in {"DIVU", "MODU"} -> Exact("DIV", bits(l.v), bits(r.v))
    [] op = "RSHIFT" /\ l.uns -> Exact(op, bits(l.v), r.v)
    [] OTHER -> Exact(op, l.v, r.v)

\* new_ir_bop: constants are folded, neutral operands dropped.  A product with
\* the constant 0 falls into the case of the divisions, which the compiler
\* refuses ("Divide by 0"): no program here has one.
NewBop(op, l, r, vt, p) ==
  LET zero(reg) == reg.const /\ reg.v = 0
      unit(reg) == reg.const /\ reg.v = 1
      left == l.const /\ ~r.const
      right == r.const /\ ~l.const
  IN
  CASE l.const /\ r.const -> G(<<>>, ConstReg(Clamp(FoldConstants(op, l, r), vt), vt))
    [] \/ left /\ zero(l) /\ op \in {"ADD", "SUB", "BITOR", "BITXOR"}
       \/ left /\ unit(l) /\ op = "MUL"
       \/ right /\ zero(r) /\ op = "BITAND" -> G(<<>>, r)
    [] \/ left /\ zero(l) /\ op \in Divisions \cup {"BITAND"} \cup Shifts
       \/ right /\ zero(r) /\ op \in {"ADD", "SUB", "BITOR", "BITXOR"} \cup Shifts
       \/ right /\ unit(r) /\ op \in {"MUL", "DIV", "DIVU"} -> G(<<>>, l)
    [] OTHER -> G(<<Ir(op, Temp(p, vt), l, r, vt.size, 0)>>, Temp(p, vt))

\* new_ir_unary for a sign or a complement.
NewUnary(op, a, vt, p) ==
  IF a.const THEN G(<<>>, ConstReg(Clamp(IF op = "NEG" THEN -a.v ELSE -1 - a.v, vt), vt))
  ELSE G(<<Ir(op, Temp(p, vt), a, NoReg, vt.size, 0)>>, Temp(p, vt))

Arith(op, t, l, r, p) ==
  NewBop(CASE op = "DIV" /\ t.uns -> "DIVU" [] op = "MOD" /\ t.uns -> "MODU" [] OTHER -> op,
         l, r, VType(t), p)

\* The low bytes of a constant.  The bit that says it is negative is an int:
\* that of 4 bytes stands for all bits above it too.
CutConst(v, size, signed) ==
  LET low == v % Modulus(size)
      half == Modulus(size) \div 2
      negative == IF size = 4 THEN v \notin 0 .. half - 1 ELSE low >= half
  IN  IF signed /\ negative THEN low - Modulus(size) ELSE low

Cast(reg, t, p) ==
  LET vt == VType(t)
      uns == IF IsNumber(t) THEN t.uns ELSE t.kind = "ptr"
  IN
  CASE t.kind = "void" -> G(<<>>, NoReg)
    [] t.kind # "void" /\ reg.const ->
         G(<<>>, ConstReg(IF vt.size < reg.size THEN CutConst(reg.v, vt.size, IsNumber(t) /\ ~t.uns)
                          ELSE reg.v, vt))
    [] t.kind # "void" /\ ~reg.const /\ vt.size = reg.size /\ uns = reg.uns -> G(<<>>, reg)
    [] OTHER -> G(<<Ir("CAST", Temp(p, vt), reg, NoReg, vt.size, 0)>>, Temp(p, vt))

\* A constant beyond 32 bits goes through a register.
Constant(e, p) ==
  LET vt == VType(e.type)
      c == ConstReg(e.x, vt)
  IN  IF IsImm32(e.x) THEN G(<<>>, c) ELSE G(Mov(Temp(p, vt), c), Temp(p, vt))

(***************************************************************************)
(* Expressions.                                                            *)
(***************************************************************************)
UnsignedCond(cond) ==
  CASE cond = "LT" -> "ULT" [] cond = "LE" -> "ULE" [] cond = "GE" -> "UGE" [] cond = "GT" -> "UGT"
    [] OTHER -> cond

RECURSIVE GenExpr(_, _), GenLval(_, _), GenCondJmp(_, _, _, _), GenCompare(_, _, _, _), GenArgs(_, _, _)

GenCompare(op, left, right, p) ==
  LET swap == IsConst(left)
      l == IF swap THEN right ELSE left
      r == IF swap THEN left ELSE right
      cond == IF swap THEN SwapCmp(op) ELSE op
      lr == GenExpr(l, p \o <<1>>)
      rr == GenExpr(r, p \o <<2>>)
      tmp == Temp(p \o <<3>>, VType(l.type))
      short == IsNumber(l.type) /\ l.type.rank < 3
      Flags(a, b) == <<Ir("CMP", NoReg, a, b, a.size, 0)>>
  IN  [cond |-> IF l.type.kind = "ptr" \/ l.type.uns THEN UnsignedCond(cond) ELSE cond,
       code |-> lr.code \o
         CASE IsConst(r) /\ r.x = 0 /\ cond \in {"EQ", "NE"} ->
                <<Ir("TEST", NoReg, lr.reg, NoReg, lr.reg.size, 0)>>
           [] IsConst(r) /\ ~(r.x = 0 /\ cond \in {"EQ", "NE"}) /\ (short \/ IsImm32(r.x)) ->
                Flags(lr.reg, ConstReg(r.x, VType(r.type)))
           [] OTHER -> rr.code \o Mov(tmp, lr.reg) \o Flags(tmp, rr.reg)]

\* Jump to bb if the condition is tf.
GenCondJmp(e, tf, bb, p) ==
  LET first(sense, to) == GenCondJmp(e.a[1], sense, to, p \o <<1>>)
      second(sense, to) == GenCondJmp(e.a[2], sense, to, p \o <<2>>)
      compare == GenCompare(IF tf THEN e.ex ELSE InvertCmp(e.ex), e.a[1], e.a[2], p)
      \* The value of the first operand that decides alone.
      decides == e.ex = "LOGIOR"
  IN
  CASE e.ex = "FIXNUM" -> IF (e.x # 0) = tf THEN Jmp("ANY", bb) ELSE <<>>
    [] e.ex \in Comparisons -> compare.code \o Jmp(compare.cond, bb)
    [] e.ex \in {"LOGAND", "LOGIOR"} ->
         first(decides, IF tf = decides THEN bb ELSE BB(p, 2)) \o Block(BB(p, 1))
           \o second(tf, bb) \o Block(BB(p, 2))

GenLval(e, p) ==
  CASE e.ex = "VAR" ->
         LET at == Temp(p, PtrVType) IN
         G(<<Ir(IF IsLocal(e.x) THEN "BOFS" ELSE "IOFS", at, NoReg, NoReg, WordSize, e.x)>>, at)
    [] e.ex = "DEREF" -> GenExpr(e.a[1], p \o <<1>>)
    [] e.ex = "MEMBER" ->
         LET target == GenExpr(e.a[1], p \o <<1>>)
             offset == MemberOffset(e.a[1].type, e.x)
             at == NewBop("ADD", target.reg, ConstReg(offset, VType(SizeType)), VType(SizeType), p)
         IN  IF offset = 0 THEN target ELSE G(target.code \o at.code, at.reg)

\* The value at a place; that of an array or a structure is the place.
Fetch(e, at, p) ==
  IF ~IsScalar(e.type) THEN at
  ELSE LET v == Load(p \o <<0>>, at.reg, VType(e.type)) IN G(at.code \o v.code, v.reg)

\* Both arms put their value into one register, where there is a value.
Arms(e, p, keptThen, keptElse) ==
  LET result == Temp(p, VType(e.type))
      t == GenExpr(e.a[2], p \o <<2>>)
      f == GenExpr(e.a[3], p \o <<3>>)
  IN  G(GenCondJmp(e.a[1], FALSE, BB(p, 5), p \o <<1>>) \o Block(BB(p, 4))
          \o t.code \o (IF keptThen THEN Mov(result, t.reg) ELSE <<>>)
          \o Jmp("ANY", BB(p, 6)) \o Block(BB(p, 5))
          \o f.code \o (IF keptElse THEN Mov(result, f.reg) ELSE <<>>)
          \o Block(BB(p, 6)), result)
GenTernaryOneSided(e, p) == Arms(e, p, e.type.kind # "void", FALSE)
GenTernary(e, p) == Arms(e, p, e.type.kind # "void", e.type.kind # "void")

GenLogical(e, p) ==
  LET result == Temp(p, VType(BoolType))
      decides == e.ex = "LOGIOR"
      value(b) == Mov(result, ConstReg(Truth(b), VType(BoolType)))
  IN  G(GenCondJmp(e.a[1], decides, BB(p, 5), p \o <<1>>) \o Block(BB(p, 3))
          \o GenCondJmp(e.a[2], decides, BB(p, 5), p \o <<2>>) \o Block(BB(p, 4))
          \o value(~decides) \o Jmp("ANY", BB(p, 6)) \o Block(BB(p, 5))
          \o value(decides) \o Block(BB(p, 6)), result)

GenAssign(e, p) ==
  LET src == GenExpr(e.a[2], p \o <<2>>)
      dst == GenLval(e.a[1], p \o <<1>>)
      tmp == Temp(p, VType(e.type))
  IN  G(src.code \o
          CASE InRegister(e.a[1]) -> Mov(VarReg(e.a[1].x), src.reg)
            [] ~InRegister(e.a[1]) /\ IsScalar(e.type) ->
                 dst.code \o Mov(tmp, src.reg) \o Store(dst.reg, tmp)
            [] OTHER -> dst.code \o Mov(tmp, src.reg) \o Memcpy(dst.reg, tmp, SizeOf(e.type)),
        src.reg)

\* A variable declared in a block is taken for one in a register even when it
\* is static or extern.
GenModify(e, p) ==
  LET sub == e.a[1]
      target == sub.a[1]
      lhs == GenExpr(target, p \o <<1>>)
      rhs == GenExpr(sub.a[2], p \o <<2>>)
      at == GenLval(target, p \o <<1>>)
      old == Load(p \o <<3>>, at.reg, VType(target.type))
      inReg == Arith(sub.ex, sub.type, lhs.reg, rhs.reg, p)
      inPlace == Arith(sub.ex, sub.type, old.reg, rhs.reg, p)
      cast == Cast(inPlace.reg, e.type, p \o <<4>>)
  IN  IF target.ex = "VAR" /\ Vars[target.x].storage # "global"
      THEN G(lhs.code \o rhs.code \o inReg.code \o Mov(lhs.reg, inReg.reg), inReg.reg)
      ELSE G(at.code \o rhs.code \o old.code \o inPlace.code \o cast.code
               \o Store(at.reg, cast.reg), inPlace.reg)

GenIncDec(e, p) ==
  LET vt == VType(e.type)
      by == IF e.type.kind = "ptr" THEN SizeOf(e.type.to) ELSE 1
      up == e.ex \in {"PREINC", "POSTINC"}
      pre == e.ex \in {"PREINC", "PREDEC"}
      var == VarReg(e.a[1].x)
      org == Temp(p \o <<2>>, vt)
      new == NewBop(IF up THEN "ADD" ELSE "SUB", var, ConstReg(by, vt), vt, p)
      at == GenLval(e.a[1], p \o <<1>>)
      step == <<Ir(IF up THEN "INC" ELSE "DEC", NoReg, at.reg, NoReg, SizeOf(e.type), by)>>
      v == Load(p, at.reg, vt)
  IN
  CASE InRegister(e.a[1]) /\ pre -> G(new.code \o Mov(var, new.reg), new.reg)
    [] InRegister(e.a[1]) /\ ~pre -> G(Mov(org, var) \o new.code \o Mov(var, new.reg), org)
    [] ~InRegister(e.a[1]) /\ pre -> G(at.code \o step \o v.code, v.reg)
    [] OTHER -> G(at.code \o v.code \o step, v.reg)

GenArgs(e, i, p) ==   \* the arguments i..1, the last first
  IF i = 0 THEN <<>>
  ELSE LET arg == GenExpr(e.a[i], p \o <<i>>)
       IN  arg.code \o <<Ir("PUSHARG", NoReg, arg.reg, NoReg, SizeOf(e.a[i].type), 0)>>
             \o GenArgs(e, i - 1, p)

GenFuncall(e, p) ==
  LET result == Temp(p, VType(e.type)) IN
  G(<<Ir("PRECALL", NoReg, NoReg, NoReg, 0, Len(e.a))>> \o GenArgs(e, Len(e.a), p)
      \o <<Ir("CALL", result, NoReg, NoReg, result.size, e.x)>>, result)

GenExpr(e, p) ==
  LET l == GenExpr(e.a[1], p \o <<1>>)
      r == GenExpr(e.a[2], p \o <<2>>)
      After(g) == G(l.code \o g.code, g.reg)
  IN
  CASE e.ex = "FIXNUM" -> Constant(e, p)
    [] InRegister(e) -> G(<<>>, VarReg(e.x))
    [] e.ex = "VAR" /\ ~InRegister(e) -> Fetch(e, GenLval(e, p), p)
    [] e.ex = "REF" -> GenLval(e.a[1], p)
    [] e.ex = "DEREF" -> Fetch(e, l, p)
    [] e.ex = "MEMBER" -> Fetch(e, GenLval(e, p), p)
    [] e.ex = "COMMA" -> After(r)
    [] e.ex = "TERNARY" -> GenTernary(e, p)
    [] e.ex = "CAST" -> After(Cast(l.reg, e.type, p))
    [] e.ex = "ASSIGN" -> GenAssign(e, p)
    [] e.ex = "MODIFY" -> GenModify(e, p)
    [] e.ex \in Increments -> GenIncDec(e, p)
    [] e.ex = "CALL" -> GenFuncall(e, p)
    [] e.ex = "POS" -> l
    [] e.ex \in {"NEG", "BITNOT"} -> After(NewUnary(e.ex, l.reg, VType(e.type), p))
    [] e.ex \in Comparisons ->
         LET c == GenCompare(e.ex, e.a[1], e.a[2], p)
             result == Temp(p, VType(BoolType))
         IN  G(c.code \o <<Ir("COND", result, NoReg, NoReg, result.size, c.cond)>>, result)
    [] e.ex \in {"LOGAND", "LOGIOR"} -> GenLogical(e, p)
    [] e.ex \in Arithmetic -> LET v == Arith(e.ex, e.type, l.reg, r.reg, p)
                              IN  G(l.code \o r.code \o v.code, v.reg)
    [] e.ex = "ABSENT" -> G(<<>>, NoReg)

(***************************************************************************)
(* Statements.  env holds where break and continue lead and the path of    *)
(* the enclosing switch, by which case labels are named.                   *)
(***************************************************************************)
NoTarget == <<"none">>
RetBB == <<"ret">>
LabelBB(l) == <<"label", l>>
CaseBB(v, p) == <<"case">> \o p \o <<v>>
DefaultBB(p) == <<"default">> \o p

\* The values of the cases that belong to a switch.
RECURSIVE CaseValues(_), HasDefault(_)
CaseValues(st) ==
  IF st.st = "CASE" THEN {st.x}
  ELSE UNION {CaseValues(st.b[i]) : i \in {j \in DOMAIN st.b : st.b[j].st # "SWITCH"}}
HasDefault(st) ==
  st.st = "DEFAULT" \/ \E i \in DOMAIN st.b : st.b[i].st # "SWITCH" /\ HasDefault(st.b[i])

Sorted(S) ==   \* the members of a set of integers in ascending order
  [n \in 1 .. Cardinality(S) |-> CHOOSE k \in S : Cardinality({m \in S : m <= k}) = n]

\* Binary search for the value among the sorted cases.
RECURSIVE GenSwitchCond(_, _, _, _, _)
GenSwitchCond(reg, values, p, sw, otherwise) ==
  LET m == Len(values) \div 2 + 1
      test(v) == <<Ir("CMP", NoReg, reg, ConstReg(v, VTypeOf(reg)), reg.size, 0)>>
                   \o Jmp("EQ", CaseBB(v, sw))
      Compared[n \in 0 .. Len(values)] ==
        IF n = 0 THEN <<>> ELSE Compared[n - 1] \o test(values[n]) \o Block(BB(p, n))
  IN
  IF Len(values) <= 2 THEN Compared[Len(values)] \o Jmp("ANY", otherwise)
  ELSE test(values[m]) \o Block(BB(p, 1)) \o Jmp("GT", BB(p, 3)) \o Block(BB(p, 2))
         \o GenSwitchCond(reg, SubSeq(values, 1, m - 1), p \o <<1>>, sw, otherwise)
         \o Block(BB(p, 3))
         \o GenSwitchCond(reg, SubSeq(values, m + 1, Len(values)), p \o <<2>>, sw, otherwise)

RECURSIVE GenStmt(_, _, _), GenStmts(_, _, _, _)
GenStmts(stmts, i, p, env) ==   \* the statements i and on
  IF i > Len(stmts) THEN <<>>
  ELSE GenStmt(stmts[i], p \o <<i>>, env) \o GenStmts(stmts, i + 1, p, env)

GenIf(st, p, env) ==
  LET cond == GenCondJmp(st.e[1], FALSE, BB(p, 2), p \o <<0>>)
      Branch(i) == GenStmt(st.b[i], p \o <<i>>, env)
  IN  cond \o Block(BB(p, 1)) \o Branch(1)
        \o IF Len(st.b) = 1 THEN Block(BB(p, 2))
           ELSE Jmp("ANY", BB(p, 3)) \o Block(BB(p, 2)) \o Branch(2) \o Block(BB(p, 3))

GenSwitch(st, p, env) ==
  LET value == GenExpr(st.e[1], p \o <<0>>)
      tmp == Temp(p, VType(st.e[1].type))
      break == BB(p, 1)
      otherwise == IF HasDefault(st.b[1]) THEN DefaultBB(p) ELSE break
      values == Sorted(CaseValues(st.b[1]))
  IN  value.code \o Mov(tmp, value.reg) \o GenSwitchCond(tmp, values, p \o <<2>>, p, otherwise)
        \o Block(BB(p, 2)) \o GenStmt(st.b[1], p \o <<1>>, [env EXCEPT !.break = break, !.switch = p])
        \o Block(break)

ContinueAtBody(st, p) == IF st.st = "FOR" THEN BB(p, 4) ELSE BB(p, 1)
ContinueBB(st, p) == IF st.st = "FOR" THEN BB(p, 4) ELSE BB(p, 2)

GenLoop(st, p, env) ==   \* while, do and for; st.e is <<before, condition, after>>
  LET loop == BB(p, 1)
      cond == BB(p, 2)
      next == BB(p, 3)
      continue == ContinueBB(st, p)
      body == GenStmt(st.b[1], p \o <<1>>, [env EXCEPT !.break = next, !.continue = continue])
      Part(i) == GenExpr(st.e[i], p \o <<4, i>>).code
      Test(sense, to) == IF st.e[2].ex = "ABSENT" THEN <<>> ELSE GenCondJmp(st.e[2], sense, to, p \o <<2>>)
  IN
  CASE st.st = "WHILE" -> Jmp("ANY", cond) \o Block(loop) \o body \o Block(cond)
                            \o Test(TRUE, loop) \o Block(next)
    [] st.st = "DO" -> Block(loop) \o body \o Block(cond) \o Test(TRUE, loop) \o Block(next)
    [] st.st = "FOR" -> Part(1) \o Block(cond) \o Test(FALSE, next) \o Block(loop) \o body
                          \o Block(continue) \o Part(3) \o Jmp("ANY", cond) \o Block(next)

GenReturn(st, p) ==
  LET value == GenExpr(st.e[1], p \o <<1>>) IN
  value.code \o <<Ir("RESULT", NoReg, value.reg, NoReg, value.reg.size, 0)>>
    \o Jmp("ANY", RetBB) \o Block(BB(p, 1))

GenDecl(st, p, env) ==
  LET at == Temp(p, PtrVType)
      size == SizeOf(Vars[st.x].type)
      clear == <<Ir("BOFS", at, NoReg, NoReg, WordSize, st.x),
                 Ir("CLEAR", NoReg, at, NoReg, size, 0)>>
  IN  (IF IsScalar(Vars[st.x].type) THEN <<>> ELSE clear) \o GenStmts(st.b, 1, p, env)

GenStmt(st, p, env) ==
  CASE st.st = "EXPR" -> GenExpr(st.e[1], p).code
    [] st.st = "BLOCK" -> GenStmts(st.b, 1, p, env)
    [] st.st = "IF" -> GenIf(st, p, env)
    [] st.st = "SWITCH" -> GenSwitch(st, p, env)
    [] st.st = "CASE" -> Block(CaseBB(st.x, env.switch))
    [] st.st = "DEFAULT" -> Block(DefaultBB(env.switch))
    [] st.st \in {"WHILE", "DO", "FOR"} -> GenLoop(st, p, env)
    [] st.st = "BREAK" -> Jmp("ANY", env.break) \o Block(BB(p, 1))
    [] st.st = "CONTINUE" -> Jmp("ANY", env.continue) \o Block(BB(p, 1))
    [] st.st = "GOTO" -> Jmp("ANY", LabelBB(st.x))
    [] st.st = "LABEL" -> Block(LabelBB(st.x)) \o GenStmt(st.b[1], p \o <<1>>, env)
    [] st.st = "RETURN" -> GenReturn(st, p)
    [] st.st = "DECL" -> GenDecl(st, p, env)
    [] st.st = "NOTHING" -> <<>>

\* Code cut at its marks into blocks [bb, irs].
CutIntoBlocks(code) ==
  LET marks == Sorted({k \in DOMAIN code : code[k].op = "BB"})
      end(n) == IF n = Len(marks) THEN Len(code) ELSE marks[n + 1] - 1
  IN  [n \in DOMAIN marks |-> [bb |-> code[marks[n]].x, irs |-> SubSeq(code, marks[n] + 1, end(n))]]

GenDefun(stmts) ==
  LET env == [break |-> NoTarget, continue |-> NoTarget, switch |-> <<>>] IN
  CutIntoBlocks(Block(<<"entry">>) \o GenStmts(stmts, 1, <<>>, env) \o Block(RetBB))
=============================================================================
