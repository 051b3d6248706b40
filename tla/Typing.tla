------------------------------- MODULE Typing -------------------------------
(***************************************************************************)
(* The parser's typed trees: src/cc/parser_expr.c and src/cc/parser.c.     *)
(* Parse turns an expression of CSource into a node [ex, type, a, x] of    *)
(* the kind the parser builds: operands cast to a common type, constants   *)
(* folded, pointer arithmetic scaled, conditions made comparisons.         *)
(***************************************************************************)
EXTENDS CSource

Node(ex, type, a, x) == [ex |-> ex, type |-> type, a |-> a, x |-> x]
Literal(type, v) == Node("FIXNUM", type, <<>>, v)
IsConst(e) == e.ex = "FIXNUM"
IsConstNumber(e) == IsConst(e) /\ IsNumber(e.type)

MakeCast(t, e) ==
  CASE t = e.type -> e
    [] t # e.type /\ IsConstNumber(e) /\ IsNumber(t) ->
         LET size == SizeOf(t)
             from == SizeOf(e.type)
             wraps == /\ size < WordSize
                      /\ size < from \/ (size = from /\ t.uns # e.type.uns)
         IN  Literal(t, IF wraps THEN Wrap(e.x, size, t.uns) ELSE e.x)
    [] t # e.type /\ e.ex = "CAST" -> [e EXCEPT !.type = t]
    [] OTHER -> Node("CAST", t, <<e>>, 0)

\* Both operands in the greater of their types, or in the left one's.
CastNumbers(l, r, keepLeft) ==
  LET order(t) == 2 * t.rank + Truth(t.uns) IN
  CASE keepLeft \/ order(l.type) > order(r.type) -> <<l, MakeCast(l.type, r)>>
    [] ~keepLeft /\ order(l.type) < order(r.type) -> <<MakeCast(r.type, l), r>>
    [] OTHER -> <<l, r>>

BothConst(l, r) == IsConstNumber(l) /\ IsConstNumber(r)

\* A constant as the integer type the compiler computes with.
Operand(e, uns) == IF uns THEN Wrap(e.x, WordSize, TRUE) ELSE e.x

NumBop(op, l, r, keepLeft) ==
  LET uns == l.type.uns
      type == IF keepLeft \/ l.type.rank >= r.type.rank THEN l.type ELSE r.type
      both == CastNumbers(l, r, keepLeft)
  IN  IF BothConst(l, r)
      THEN Literal(type, Fixnum(Exact(op, Operand(l, uns), Operand(r, uns))))
      ELSE Node(op, both[1].type, both, 0)

\* An index times the size of what the pointer points to.
Scaled(e, ptr) ==
  NumBop("MUL", MakeCast(SizeType, e), Literal(SizeType, SizeOf(ptr.to)), FALSE)

AddSub(op, l, r, keepLeft) ==
  LET both == CastNumbers(l, r, keepLeft)
      lt == Decayed(l.type)
      rt == Decayed(r.type)
  IN
  CASE BothConst(l, r) ->
         Literal(IF l.type.rank >= r.type.rank THEN l.type ELSE r.type,
                 Fixnum(Exact(op, l.x, r.x)))
    [] IsNumber(lt) /\ IsNumber(rt) /\ ~BothConst(l, r) -> Node(op, both[1].type, both, 0)
    [] PtrOrArray(lt) /\ IsNumber(rt) -> Node(op, lt, <<l, Scaled(r, lt)>>, 0)
    [] op = "SUB" /\ PtrOrArray(lt) /\ PtrOrArray(rt) ->
         Node("DIV", LongType, <<Node("SUB", LongType, <<l, r>>, 0),
                                 Literal(LongType, SizeOf(lt.to))>>, 0)
    [] op = "ADD" /\ ~keepLeft /\ IsNumber(lt) /\ PtrOrArray(rt) ->
         Node(op, rt, <<Scaled(l, rt), r>>, 0)

Shift(op, l, r) ==
  LET uns == l.type.uns IN
  IF IsConst(l) /\ IsConst(r)
  THEN Literal(l.type, Fixnum(Exact(op, Operand(l, uns), Operand(r, uns))))
  ELSE Node(op, l.type, <<l, r>>, 0)

SwapCmp(op) == CASE op = "LT" -> "GT" [] op = "GT" -> "LT"
                 [] op = "LE" -> "GE" [] op = "GE" -> "LE" [] OTHER -> op
InvertCmpTurned(op) == CASE op = "EQ" -> "NE" [] op = "NE" -> "EQ" [] OTHER -> SwapCmp(op)
InvertCmp(op) == CASE op = "EQ" -> "NE" [] op = "NE" -> "EQ"
                   [] op = "LT" -> "GE" [] op = "GE" -> "LT"
                   [] op = "LE" -> "GT" [] op = "GT" -> "LE"

Cmp(op, left, right) ==
  LET l == MakeCast(Decayed(left.type), left)
      r == MakeCast(Decayed(right.type), right)
      both == CastNumbers(l, r, FALSE)
      uns == both[1].type.uns
  IN
  CASE l.type.kind = "ptr" ->
         Node(op, BoolType, <<l, IF r.type.kind = "ptr" THEN r ELSE MakeCast(l.type, r)>>, 0)
    [] l.type.kind # "ptr" /\ r.type.kind = "ptr" ->
         Node(SwapCmp(op), BoolType, <<r, MakeCast(r.type, l)>>, 0)
    [] OTHER ->
         IF BothConst(l, r)
         THEN Literal(BoolType, Truth(Holds(op, Operand(both[1], uns), Operand(both[2], uns))))
         ELSE Node(op, BoolType, both, 0)

IsCond(e) == e.ex \in {"FIXNUM", "LOGAND", "LOGIOR"} \cup Comparisons

MakeCond(e) ==
  CASE IsCond(e) -> e
    [] ~IsCond(e) /\ e.type.kind = "array" -> Literal(BoolType, 1)
    [] OTHER -> Cmp("NE", e, MakeCast(e.type, Literal(IntType, 0)))

RECURSIVE MakeNotCond(_)
MakeNotCond(e) ==
  LET c == MakeCond(e) IN
  CASE c.ex = "FIXNUM" -> Literal(BoolType, Truth(c.x = 0))
    [] c.ex \in Comparisons -> [c EXCEPT !.ex = InvertCmp(@)]
    [] OTHER -> Node(IF c.ex = "LOGAND" THEN "LOGIOR" ELSE "LOGAND", BoolType,
                     <<MakeNotCond(c.a[1]), MakeNotCond(c.a[2])>>, 0)

\* The type of a conditional expression with a value; what no case covers is
\* an error.
RECURSIVE ChooseType(_, _)
ChooseType(t, f) ==
  LET tt == Decayed(t.type)
      ft == Decayed(f.type)
      bothPtr == tt.kind = "ptr" /\ ft.kind = "ptr"
  IN  CASE tt = ft -> tt
        [] tt # ft /\ bothPtr /\ tt.to = VoidType -> ft
        [] tt # ft /\ bothPtr /\ tt.to # VoidType /\ ft.to = VoidType -> tt
        [] tt.kind = "ptr" /\ IsNumber(ft) /\ IsConst(f) /\ f.x = 0 -> tt
        [] tt.kind # "ptr" /\ ft.kind = "ptr" -> ChooseType(f, t)
        [] tt # ft /\ IsNumber(tt) /\ IsNumber(ft) -> IF tt.rank > ft.rank THEN tt ELSE ft

\* A sign or complement taken of a constant.
Negated(e) ==
  Literal(e.type, IF e.type.uns /\ SizeOf(e.type) < WordSize
                  THEN Wrap(-e.x, SizeOf(e.type), TRUE) ELSE Fixnum(-e.x))

MakeRefer(e) == IF e.ex = "DEREF" THEN e.a[1] ELSE Node("REF", PtrTo(e.type), <<e>>, 0)
Deref(e) == Node("DEREF", e.type.to, <<e>>, 0)

Comma(l, r) == IF IsConst(l) THEN r ELSE Node("COMMA", r.type, <<l, r>>, 0)

ExplicitCast(t, e) ==
  CASE e.ex = "CAST" -> [e EXCEPT !.type = t]
    [] e.ex # "CAST" /\ IsConst(e) /\ t # VoidType -> MakeCast(t, e)
    [] e.type = VoidType -> e
    [] OTHER -> Node("CAST", t, <<e>>, 0)

Conditional(c, t, f) ==
  LET void == VoidType \in {t.type, f.type}
      type == IF void THEN VoidType ELSE ChooseType(t, f)
      both == IF void THEN <<t, f>> ELSE <<MakeCast(type, t), MakeCast(type, f)>>
  IN  IF IsConst(c) THEN both[IF c.x # 0 THEN 1 ELSE 2]
      ELSE Node("TERNARY", type, <<MakeCond(c)>> \o both, 0)

\* l op= r: the operation, whose result goes where its left operand lies.
Modify(op, l, r) ==
  Node("MODIFY", l.type,
       <<CASE op \in {"ADD", "SUB"} -> AddSub(op, l, r, TRUE)
           [] op \in Shifts -> Node(op, l.type, <<l, r>>, 0)
           [] OTHER -> NumBop(op, l, r, TRUE)>>, 0)

RECURSIVE Parse(_)
Parse(e) ==
  LET l == Parse(e.a[1])
      r == Parse(e.a[2])
  IN
  CASE e.op = "NUM" -> Literal(e.x.type, e.x.v)
    [] e.op = "VAR" -> Node("VAR", Vars[e.x].type, <<>>, e.x)
    [] e.op = "MEMBER" -> Node("MEMBER", l.type.members[e.x], <<l>>, e.x)
    [] e.op \in {"ADD", "SUB"} -> AddSub(e.op, l, r, FALSE)
    [] e.op \in Shifts -> Shift(e.op, l, r)
    [] e.op \in Arithmetic \ ({"ADD", "SUB"} \cup Shifts) -> NumBop(e.op, l, r, FALSE)
    [] e.op \in Comparisons -> Cmp(e.op, l, r)
    [] e.op \in {"LOGAND", "LOGIOR"} ->
         Node(e.op, BoolType, <<MakeCond(l), MakeCond(r)>>, 0)
    [] e.op = "NOT" -> IF IsConst(l) THEN Literal(l.type, Truth(l.x = 0)) ELSE MakeNotCond(l)
    [] e.op = "POS" -> IF IsConst(l) THEN l ELSE Node("POS", l.type, <<l>>, 0)
    [] e.op = "NEG" -> IF IsConst(l) THEN Negated(l) ELSE Node("NEG", l.type, <<l>>, 0)
    [] e.op = "BITNOT" -> IF IsConst(l) THEN Literal(l.type, -1 - l.x)
                          ELSE Node("BITNOT", l.type, <<l>>, 0)
    [] e.op = "REF" -> MakeRefer(l)
    [] e.op = "DEREF" -> Deref(l)
    [] e.op = "CAST" -> ExplicitCast(e.x, l)
    [] e.op = "COMMA" -> Comma(l, r)
    [] e.op = "TERNARY" -> Conditional(l, r, Parse(e.a[3]))
    [] e.op = "ASSIGN" -> Node("ASSIGN", l.type, <<l, MakeCast(l.type, r)>>, 0)
    [] e.op = "MODIFY" -> Modify(e.x, l, r)
    [] e.op \in Increments -> Node(e.op, l.type, <<l>>, 0)
    [] e.op = "CALL" ->
         Node("CALL", IntType,
              [i \in DOMAIN e.a |-> LET arg == Parse(e.a[i])
                                    IN  MakeCast(ArgType(e.x, i, arg.type), MakeCast(Decayed(arg.type), arg))],
              e.x)
    [] e.op = "ABSENT" -> Node("ABSENT", IntType, <<>>, 0)

(***************************************************************************)
(* Statements keep their form; the conditions of if and of loops become    *)
(* comparisons and a returned value gets the function's type.              *)
(***************************************************************************)
RECURSIVE ParseStmt(_)
ParseStmt(st) ==
  LET Conditions == IF st.st \in {"IF"} THEN {1} ELSE IF st.st \in {"WHILE", "DO", "FOR"} THEN {2} ELSE {}
      Typed(i) == LET e == Parse(st.e[i]) IN
                  CASE i \in Conditions /\ e.ex # "ABSENT" -> MakeCond(e)
                    [] st.st = "RETURN" -> MakeCast(LongType, e)
                    [] OTHER -> e
  IN  [st EXCEPT !.e = [i \in DOMAIN st.e |-> Typed(i)],
                 !.b = [i \in DOMAIN st.b |-> ParseStmt(st.b[i])]]

\* The variables whose address is taken (VS_REF_TAKEN).
RECURSIVE RefsOf(_), RefTaken(_)
RefsOf(e) ==
  (IF e.ex = "REF" /\ e.a[1].ex = "VAR" THEN {e.a[1].x} ELSE {})
     \cup UNION {RefsOf(e.a[i]) : i \in DOMAIN e.a}
RefTaken(st) == UNION ({RefsOf(st.e[i]) : i \in DOMAIN st.e}
                         \cup {RefTaken(st.b[i]) : i \in DOMAIN st.b})
=============================================================================
