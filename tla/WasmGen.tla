------------------------------- MODULE WasmGen -------------------------------
(***************************************************************************)
(* The WebAssembly compiler's way from typed trees to code:                *)
(* wasm/src/traverse.c, which rewrites assignments until they have no      *)
(* value and every place is written through a variable, and                *)
(* wasm/src/gen_wasm.c, which writes the code of a function.               *)
(*                                                                         *)
(* An instruction is [op, t, x]: its name, the type it works on and what   *)
(* else its bytes hold, numbers in LEB128 as the code writes them.         *)
(* Floating-point numbers and pointers to functions are left out.          *)
(***************************************************************************)
EXTENDS Typing, SequencesExt

Own(x) == Vars[x].storage \in {"local", "param"}

(***************************************************************************)
(* traverse_expr.  The variables it adds are told apart by the path that   *)
(* leads to the expression; refs are the variables with VS_REF_TAKEN.      *)
(***************************************************************************)
Tmp(type, path) == Node("TMP", type, <<>>, path)
IsVariable(e) == e.ex \in {"VAR", "TMP"}
IsRefTaken(e, refs) == e.ex = "VAR" /\ e.x \in refs

\* A place that can be read and written twice.
IsDirect(e) == IsVariable(e) \/ (e.ex = "DEREF" /\ IsVariable(e.a[1]))
IsSimple(e) == IsConst(e) \/ IsVariable(e)

Assign(l, r) == Node("ASSIGN", VoidType, <<l, r>>, 0)
Then(l, r) == Node("COMMA", r.type, <<l, r>>, 0)
AddressOf(e) == Node("REF", PtrTo(e.type), <<e>>, 0)

\* ++x and x++ as assignments through a pointer p and a copy tmp.
IncDecThrough(e, place, p, tmp) ==
  LET t == place.type
      pre == e.ex \in {"PREINC", "PREDEC"}
      one == IF t.kind = "ptr" THEN Literal(SizeType, SizeOf(t.to)) ELSE Literal(t, 1)
      Step(v) == Node(IF e.ex \in {"PREINC", "POSTINC"} THEN "ADD" ELSE "SUB", t, <<v, one>>, 0)
  IN  Then(Assign(p, AddressOf(place)),
           Then(Assign(tmp, IF pre THEN Step(Deref(p)) ELSE Deref(p)),
                Then(Assign(Deref(p), IF pre THEN tmp ELSE Step(tmp)), tmp)))
RECURSIVE Traverse(_, _, _, _)

\* l = r where its value is needed: (l = r, r), with r in a variable.
AssignForValue(l, r, tmp) ==
  IF IsSimple(r) THEN Node("COMMA", r.type, <<Assign(l, r), r>>, 0)
  ELSE Node("COMMA", r.type,
            <<Node("COMMA", l.type, <<Assign(tmp, r), Assign(l, tmp)>>, 0), tmp>>, 0)

Traverse(e, need, path, refs) ==
  LET T(i, n) == Traverse(e.a[i], n, Append(path, i), refs)
      place == T(1, TRUE)
      p(t) == Tmp(PtrTo(t), Append(path, -1))
      Again(x) == Traverse(x, need, Append(path, 0), refs)
  IN
  CASE e.ex = "COMMA" -> [e EXCEPT !.a = <<T(1, FALSE), T(2, need)>>]
    [] e.ex = "TERNARY" -> [e EXCEPT !.a = <<T(1, TRUE), T(2, need), T(3, need)>>]
    [] e.ex = "CALL" -> [e EXCEPT !.a = [i \in DOMAIN @ |-> T(i, TRUE)]]
    [] e.ex = "ASSIGN" ->
         CASE ~need -> Assign(place, T(2, TRUE))
           [] need /\ ~IsDirect(place) ->
                Again(Node("COMMA", place.type,
                           <<Assign(p(place.type), AddressOf(place)),
                             Assign(Deref(p(place.type)), T(2, TRUE))>>, 0))
           [] OTHER -> AssignForValue(place, T(2, TRUE), Tmp(place.type, Append(path, -2)))
    [] e.ex = "MODIFY" ->
         LET l == place.a[1]
             modify(x) == Node("MODIFY", VoidType, <<[place EXCEPT !.a[1] = x]>>, 0)
         IN  CASE ~IsDirect(l) ->
                    Again(Node("COMMA", l.type,
                               <<Assign(p(l.type), AddressOf(l)), modify(Deref(p(l.type)))>>, 0))
               [] IsDirect(l) /\ need -> Then(modify(l), l)
               [] OTHER -> modify(l)
    [] e.ex \in Increments ->
         LET l == T(1, need)
         IN  IF IsVariable(l) /\ ~IsRefTaken(l, refs) THEN [e EXCEPT !.a = <<l>>]
             ELSE IncDecThrough(e, l, p(l.type), Tmp(l.type, Append(path, -2)))
    [] OTHER -> [e EXCEPT !.a = [i \in DOMAIN @ |-> T(i, need)]]

(***************************************************************************)
(* traverse_stmt.  goto and labels are refused, and so is a case anywhere  *)
(* but in the body of its switch.                                          *)
(***************************************************************************)
RECURSIVE Refused(_, _)
Refused(st, branching) ==
  \/ st.st \in {"GOTO", "LABEL"}
  \/ st.st \in {"CASE", "DEFAULT"} /\ branching # "SWITCH"
  \/ \E i \in DOMAIN st.b :
       Refused(st.b[i], IF st.st \in {"IF", "SWITCH", "WHILE", "DO", "FOR"} THEN st.st ELSE branching)

RECURSIVE TraverseStmt(_, _, _)
TraverseStmt(st, path, refs) ==
  LET valued == IF st.st \in {"RETURN", "IF", "SWITCH"} THEN {1}
                ELSE IF st.st \in {"WHILE", "DO", "FOR"} THEN {2} ELSE {}
      value(i) == Traverse(st.e[i], i \in valued, Append(path, i), refs)
      \* A switch looks at its value several times.
      kept(e) == IF IsSimple(e) THEN e
                 ELSE LET tmp == Tmp(e.type, Append(path, 0)) IN Then(Assign(tmp, e), tmp)
  IN  [st EXCEPT !.e = [i \in DOMAIN @ |-> IF st.st = "SWITCH" THEN kept(value(i)) ELSE value(i)],
                 !.b = [i \in DOMAIN @ |-> TraverseStmt(@[i], Append(path, 10 + i), refs)]]

\* The expressions of a tree and of a statement, in order.
RECURSIVE NodesOf(_), NodesIn(_)
NodesOf(e) == <<e>> \o FlattenSeq([i \in DOMAIN e.a |-> NodesOf(e.a[i])])
NodesIn(st) == FlattenSeq([i \in DOMAIN st.e |-> NodesOf(st.e[i])])
                 \o FlattenSeq([i \in DOMAIN st.b |-> NodesIn(st.b[i])])

\* The added variables, each assigned once, and the functions called.
TmpsOf(nodes) ==
  LET first == SelectSeq(nodes, LAMBDA e : e.ex = "ASSIGN" /\ e.a[1].ex = "TMP")
  IN  [i \in DOMAIN first |-> first[i].a[1]]
CalledBy(nodes) ==
  {nodes[i].x : i \in {j \in DOMAIN nodes : nodes[j].ex = "CALL"}}
    \cup {"_memcpy" : i \in {j \in DOMAIN nodes : /\ nodes[j].ex = "ASSIGN"
                                                  /\ ~IsScalar(nodes[j].a[1].type)}}
RECURSIVE Clears(_)
Clears(st) ==
  \/ st.st = "DECL" /\ Own(st.x) /\ ~IsScalar(Vars[st.x].type)
  \/ \E i \in DOMAIN st.b : Clears(st.b[i])

(***************************************************************************)
(* Instructions.                                                           *)
(***************************************************************************)
Ins(op, t, x) == [op |-> op, t |-> t, x |-> x]

\* LEB128: seven bits in a byte, the lowest first; of a signed number the last
\* byte holds the sign (emit_leb128, emit_uleb128).
Leb128Unsigned == [signed |-> 128, unsigned |-> 128]
Leb128 == [signed |-> 64, unsigned |-> 128]
RECURSIVE Leb(_), ULeb(_)
Leb(v) == IF v \in -Leb128.signed .. Leb128.signed - 1 THEN <<v % 128>>
          ELSE <<128 + (v % 128)>> \o Leb(v \div 128)
ULeb(v) == IF v < Leb128.unsigned THEN <<v>> ELSE <<128 + (v % 128)>> \o ULeb(v \div 128)

I32Size == 4
WType(t) == IF t.kind = "void" THEN "void"
            ELSE IF t.kind = "fixnum" /\ SizeOf(t) > I32Size THEN "i64" ELSE "i32"
IsUnsigned(t) == t.kind # "fixnum" \/ t.uns

Const(t, v) == <<Ins("CONST", t, Leb(v))>>
I32(v) == Const("i32", v)
OfIndex(op, n) == <<Ins(op, "", ULeb(n))>>
OfByte(op, n) == <<Ins(op, "", <<n % 256>>)>>

GenLoad(t) == <<Ins("LOAD", WType(t), [size |-> SizeOf(t), uns |-> IsUnsigned(t)])>>
GenStore(t) == <<Ins("STORE", WType(t), [size |-> SizeOf(t), uns |-> FALSE])>>
GenArith(op, t) == <<Ins(op, WType(t), [uns |-> t.kind = "fixnum" /\ t.uns])>>

ShiftBy(op, shift, uns) == I32(shift) \o <<Ins(op, "i32", [uns |-> uns])>>
GenCast(to, from) ==
  IF to.kind = "void" THEN <<Ins("DROP", "", 0)>> ELSE
  LET d == SizeOf(to)
      s == SizeOf(Decayed(from))
      wide == d > I32Size
      wrap == IF ~wide /\ s > I32Size THEN <<Ins("WRAP", "i32", 0)>> ELSE <<>>
      extend == IF wide /\ s <= I32Size
                THEN <<Ins("EXTEND", "i64", [uns |-> IsUnsigned(Decayed(from))])>> ELSE <<>>
      shift == (s - d) * CharBit
  IN
  wrap \o extend \o
  CASE d < s /\ d >= I32Size -> wrap
    [] d < s /\ d < I32Size /\ IsUnsigned(to) ->
         wrap \o I32(Modulus(d) - 1) \o <<Ins("BITAND", "i32", [uns |-> FALSE])>>
    [] d < s /\ d < I32Size /\ ~IsUnsigned(to) ->
         wrap \o ShiftBy("LSHIFT", shift, FALSE) \o ShiftBy("RSHIFT", shift, FALSE)
    [] d > s /\ IsUnsigned(to) /\ ~IsUnsigned(Decayed(from)) ->
         ShiftBy("LSHIFT", shift, FALSE) \o ShiftBy("RSHIFT", shift, TRUE)
    [] OTHER -> <<>>

(***************************************************************************)
(* Expressions.  c is what is known of the function: the local variables   *)
(* [index], the variables in its frame [offset], the indices of functions  *)
(* [func], of globals [global] and the addresses of variables in memory    *)
(* [address].                                                              *)
(***************************************************************************)
Key(e) == IF e.ex = "TMP" THEN <<"tmp", e.x>> ELSE <<"var", e.x>>
BasePtr == <<"bp">>
RetVal == <<"retval">>

GenBpofs(n, c) ==
  OfIndex("LOCAL_GET", c.index[BasePtr])
    \o IF n = 0 THEN <<>> ELSE I32(n) \o <<Ins("ADD", "i32", [uns |-> FALSE])>>

GetSp(c) == OfIndex("GLOBAL_GET", c.global["$_SP"])
SetSp(c) == OfIndex("GLOBAL_SET", c.global["$_SP"])
MoveSp(op, n, c) == GetSp(c) \o I32(n) \o GenArith(op, SizeType) \o SetSp(c)
GenCall(f, c) == OfIndex("CALL", c.func[f])

\* The place of a number kept in a local variable or a global one.
Accessed(e, c, local, global) ==
  IF e.ex = "TMP" \/ Own(e.x) THEN OfIndex(local, c.index[Key(e)])
  ELSE OfIndex(global, c.global[e.x])

RECURSIVE GenExpr(_, _, _), GenCond(_, _, _), GenArgs(_, _, _)

GenLval(e, c) ==
  CASE e.ex = "VAR" /\ ~Own(e.x) -> I32(c.address[e.x])
    [] IsVariable(e) /\ Key(e) \in DOMAIN c.offset -> GenBpofs(c.offset[Key(e)], c)
    [] e.ex = "DEREF" -> GenExpr(e.a[1], TRUE, c)
    [] e.ex = "MEMBER" ->
         LET n == MemberOffset(e.a[1].type, e.x)
         IN  GenExpr(e.a[1], TRUE, c)
               \o IF n = 0 THEN <<>> ELSE I32(n) \o <<Ins("ADD", "i32", [uns |-> FALSE])>>

InMemory(e, c) == ~IsScalar(e.type) \/ IsRefTaken(e, c.refs)
GenVar(e, c) ==
  IF InMemory(e, c) THEN GenLval(e, c) \o IF IsScalar(e.type) THEN GenLoad(e.type) ELSE <<>>
  ELSE Accessed(e, c, "LOCAL_GET", "GLOBAL_GET")

Kept(needval, code) == IF needval THEN code ELSE <<>>
DroppedNever(needval) == <<>>
Dropped(needval) == Kept(~needval, <<Ins("DROP", "", 0)>>)

GenIncDec(e, needval, c) ==
  LET v == e.a[1]
      local == v.ex = "TMP" \/ Own(v.x)
      post == e.ex \in {"POSTINC", "POSTDEC"}
      step == IF e.type.kind = "ptr" THEN SizeOf(e.type.to) ELSE 1
      get == GenVar(v, c)
  IN  Kept(post /\ needval, get) \o get
        \o <<Ins("CONST", "i32", ULeb(step)),
             Ins(IF e.ex \in {"PREINC", "POSTINC"} THEN "ADD" ELSE "SUB", "i32", [uns |-> FALSE])>>
        \o (IF ~post /\ needval /\ local THEN Accessed(v, c, "LOCAL_TEE", "")
            ELSE Accessed(v, c, "LOCAL_SET", "GLOBAL_SET"))
        \o Kept(~post /\ needval /\ ~local, get)

GenAssign(l, r, c) ==
  LET value == GenExpr(r, TRUE, c) IN
  CASE ~IsScalar(l.type) ->
         GenLval(l, c) \o value \o I32(SizeOf(l.type)) \o GenCall("_memcpy", c)
    [] IsScalar(l.type) /\ IsVariable(l) /\ ~InMemory(l, c) ->
         value \o Accessed(l, c, "LOCAL_SET", "GLOBAL_SET")
    [] OTHER -> GenLval(l, c) \o value \o GenStore(l.type)

\* The place is reckoned twice: that has no effects.
GenModify(bop, c) ==
  LET l == bop.a[1]
      r == GenExpr(bop.a[2], TRUE, c)
  IN  IF IsVariable(l) /\ ~InMemory(l, c)
      THEN GenVar(l, c) \o r \o GenArith(bop.ex, bop.type)
             \o Accessed(l, c, "LOCAL_SET", "GLOBAL_SET")
      ELSE GenLval(l, c) \o GenLval(l, c) \o GenLoad(l.type) \o r
             \o GenArith(bop.ex, l.type) \o GenStore(l.type)

\* Arguments past the parameters go to the stack, each at the sum of the sizes
\* before it, and their address is one more argument.
VarArgType(t) == IF t.kind = "fixnum" THEN Promoted(t) ELSE t
RECURSIVE VarArgOffset(_, _)
VarArgOffset(args, i) ==   \* of the i-th of them
  IF i = 1 THEN 0 ELSE VarArgOffset(args, i - 1) + SizeOf(VarArgType(args[i - 1].type))
VarArgs(e) == SubSeq(e.a, Len(Funcs[e.x]) + 1, Len(e.a))
BufferSize(e) == RoundUp(VarArgOffset(VarArgs(e), Len(VarArgs(e)) + 1), 8)

GenArgs(e, i, c) ==   \* the arguments from the i-th on
  LET arg == e.a[i]
      extra == i > Len(Funcs[e.x])
      address == GetSp(c) \o I32(VarArgOffset(VarArgs(e), i - Len(Funcs[e.x])))
                   \o GenArith("ADD", SizeType)
  IN  IF i > Len(e.a) THEN <<>>
      ELSE Kept(extra, address) \o GenExpr(arg, TRUE, c)
             \o Kept(extra, GenStore(VarArgType(arg.type))) \o GenArgs(e, i + 1, c)

GenFuncall(e, c) ==
  LET extra == e.x \in Variadic /\ Len(VarArgs(e)) > 0
      size == BufferSize(e)
  IN  Kept(extra, MoveSp("SUB", size, c))
        \o GenArgs(e, 1, c)
        \o (IF extra THEN GetSp(c) ELSE Kept(e.x \in Variadic, I32(0)))
        \o GenCall(e.x, c)
        \o Kept(extra, MoveSp("ADD", size, c))

Branching(cond, t, yes, no) ==
  cond \o <<Ins("IF", t, 0)>> \o yes \o <<Ins("ELSE", "", 0)>> \o no \o <<Ins("END", "", 0)>>

GenCompare(op, l, r, c) ==
  GenExpr(l, TRUE, c) \o GenExpr(r, TRUE, c)
    \o <<Ins(op, WType(l.type), [uns |-> IsUnsigned(l.type)])>>

\* The truth of a condition, or of its opposite.
GenCond(e, tf, c) ==
  LET left == GenCond(e.a[1], tf, c)
      right == GenCond(e.a[2], tf, c)
  IN
  CASE e.ex = "FIXNUM" -> GenCompare(IF tf THEN "NE" ELSE "EQ", e, Literal(IntType, 0), c)
    [] e.ex \in Comparisons ->
         GenCompare(IF tf THEN e.ex ELSE InvertCmp(e.ex), e.a[1], e.a[2], c)
    [] (e.ex = "LOGAND" /\ tf) \/ (e.ex = "LOGIOR" /\ ~tf) -> Branching(left, "i32", right, I32(0))
    [] OTHER -> Branching(left, "i32", I32(1), right)

GenExpr(e, needval, c) ==
  LET Sub(i, n) == GenExpr(e.a[i], n, c) IN
  CASE e.ex = "FIXNUM" ->
         Kept(needval, Const(WType(e.type), IF SizeOf(e.type) <= I32Size THEN Wrap(e.x, I32Size, FALSE)
                                            ELSE e.x))
    [] IsVariable(e) -> Kept(needval, GenVar(e, c))
    [] e.ex \in Arithmetic -> Sub(1, needval) \o Sub(2, needval) \o Kept(needval, GenArith(e.ex, e.type))
    [] e.ex \in Comparisons \cup {"LOGAND", "LOGIOR"} -> GenCond(e, TRUE, c)
    [] e.ex = "POS" -> Sub(1, needval)
    [] e.ex = "NEG" -> IF needval THEN Const(WType(e.type), 0) \o Sub(1, TRUE) \o GenArith("SUB", e.type)
                       ELSE Sub(1, FALSE)
    [] e.ex = "BITNOT" ->
         Sub(1, needval) \o Kept(needval, Const(WType(e.type), -1) \o GenArith("BITXOR", e.type))
    [] e.ex \in Increments -> GenIncDec(e, needval, c)
    [] e.ex = "ASSIGN" -> GenAssign(e.a[1], e.a[2], c)
    [] e.ex = "MODIFY" -> GenModify(e.a[1], c)
    [] e.ex = "COMMA" -> Sub(1, FALSE) \o Sub(2, needval)
    [] e.ex = "CAST" -> Sub(1, needval) \o Kept(needval, GenCast(e.type, e.a[1].type))
    [] e.ex = "REF" -> GenLval(e.a[1], c)
    [] e.ex = "DEREF" -> Sub(1, needval) \o Kept(needval /\ IsScalar(e.type), GenLoad(e.type))
    [] e.ex = "TERNARY" ->
         LET valued == e.type.kind # "void"
         IN  Branching(GenCond(e.a[1], TRUE, c), WType(e.type), Sub(2, valued), Sub(3, valued))
    [] e.ex = "MEMBER" -> GenLval(e, c) \o IF IsScalar(e.type) THEN GenLoad(e.type) ELSE <<>>
    [] e.ex = "CALL" -> GenFuncall(e, c) \o Dropped(needval)

(***************************************************************************)
(* Statements.  d is cur_depth, break_depth and continue_depth; a case     *)
(* ends a block, so what follows it lies one level higher.  The depth a    *)
(* loop, a break or a continue branches to is one byte, others are LEB128. *)
(***************************************************************************)
Br(op, n) == OfIndex(op, n)
EffectOf(e, c) == IF e.ex = "ABSENT" THEN <<>> ELSE GenExpr(e, FALSE, c)
Open(op) == <<Ins(op, "void", 0)>>
End1 == <<Ins("END", "", 0)>>
BrUnlessInner(e, n, c) == IF e.ex = "ABSENT" THEN <<>> ELSE GenCond(e, FALSE, c) \o Br("BR_IF", n - 1)
BrUnless(e, n, c) == IF e.ex = "ABSENT" THEN <<>> ELSE GenCond(e, FALSE, c) \o Br("BR_IF", n)

\* The cases of a switch, those of inner ones left out.
RECURSIVE CasesIn(_)
CasesIn(st) ==
  CASE st.st \in {"CASE", "DEFAULT"} -> <<st>>
    [] st.st = "SWITCH" -> <<>>
    [] OTHER -> FlattenSeq([i \in DOMAIN st.b |-> CasesIn(st.b[i])])

RECURSIVE GenStmt(_, _, _), GenStmts(_, _, _)
GenStmts(stmts, d, c) ==   \* the code, and the depth it ends in
  IF stmts = <<>> THEN [code |-> <<>>, cur |-> d.cur]
  ELSE LET first == GenStmt(Head(stmts), d, c)
           rest == GenStmts(Tail(stmts), [d EXCEPT !.cur = first.cur], c)
       IN  [code |-> first.code \o rest.code, cur |-> rest.cur]

InBody(st, cur, brk, cont, c) == GenStmt(st, [cur |-> cur, brk |-> brk, cont |-> cont], c).code

GenWhile(st, d, c) ==
  Open("BLOCK") \o Open("LOOP") \o BrUnless(st.e[2], 1, c)
    \o InBody(st.b[1], d.cur + 2, d.cur, d.cur + 1, c) \o OfByte("BR", 0) \o End1 \o End1
GenDoWhile(st, d, c) ==
  Open("BLOCK") \o Open("LOOP") \o Open("BLOCK")
    \o InBody(st.b[1], d.cur + 3, d.cur, d.cur + 2, c) \o End1
    \o BrUnless(st.e[2], 1, c) \o OfByte("BR", 0) \o End1 \o End1
GenFor(st, d, c) ==
  EffectOf(st.e[1], c) \o Open("BLOCK") \o Open("LOOP") \o Open("BLOCK")
    \o BrUnless(st.e[2], 2, c) \o InBody(st.b[1], d.cur + 3, d.cur, d.cur + 2, c) \o End1
    \o EffectOf(st.e[3], c) \o OfByte("BR", 0) \o End1 \o End1

GenSwitch(st, d, c) ==
  LET cases == CasesIn(st.b[1])
      n == Len(cases)
      value == st.e[1]
      first == IF value.ex = "COMMA" THEN GenExpr(value, FALSE, c) ELSE <<>>
      again == GenExpr(IF value.ex = "COMMA" THEN value.a[2] ELSE value, TRUE, c)
      defaults == {i \in 1 .. n : cases[i].st = "DEFAULT"}
      test(i) == again \o I32(cases[i].x) \o <<Ins("EQ", "i32", [uns |-> FALSE])>> \o Br("BR_IF", i - 1)
  IN  FlattenSeq([i \in 1 .. n + 1 |-> Open("BLOCK")]) \o first
        \o FlattenSeq([i \in 1 .. n |-> IF i \in defaults THEN <<>> ELSE test(i)])
        \o Br("BR", IF defaults = {} THEN n ELSE (CHOOSE i \in defaults : TRUE) - 1)
        \o GenStmt(st.b[1], [d EXCEPT !.cur = @ + n + 1, !.brk = d.cur], c).code
        \o End1

GenClear(x, c) ==
  GenBpofs(c.offset[<<"var", x>>], c) \o I32(0) \o I32(SizeOf(Vars[x].type)) \o GenCall("_memset", c)

GenStmt(st, d, c) ==
  LET Code(code) == [code |-> code, cur |-> d.cur] IN
  CASE st.st = "EXPR" -> Code(GenExpr(st.e[1], FALSE, c))
    [] st.st = "NOTHING" -> Code(<<>>)
    [] st.st = "BLOCK" -> GenStmts(st.b, d, c)
    [] st.st = "RETURN" ->
         Code(GenExpr(st.e[1], TRUE, c) \o OfIndex("LOCAL_SET", c.index[RetVal]) \o Br("BR", d.cur - 1))
    [] st.st = "IF" ->
         LET inner == [d EXCEPT !.cur = @ + 1]
         IN  Code(GenCond(st.e[1], TRUE, c) \o Open("IF") \o GenStmt(st.b[1], inner, c).code
                    \o (IF Len(st.b) = 2 THEN <<Ins("ELSE", "", 0)>> \o GenStmt(st.b[2], inner, c).code
                        ELSE <<>>)
                    \o End1)
    [] st.st = "SWITCH" -> Code(GenSwitch(st, d, c))
    [] st.st \in {"CASE", "DEFAULT"} -> [code |-> End1, cur |-> d.cur - 1]
    [] st.st = "WHILE" -> Code(GenWhile(st, d, c))
    [] st.st = "DO" -> Code(GenDoWhile(st, d, c))
    [] st.st = "FOR" -> Code(GenFor(st, d, c))
    [] st.st = "BREAK" -> Code(OfByte("BR", d.cur - d.brk - 1))
    [] st.st = "CONTINUE" -> Code(OfByte("BR", d.cur - d.cont - 1))
    [] st.st = "DECL" ->
         LET clears == Own(st.x) /\ ~IsScalar(Vars[st.x].type)
         IN  Code((IF clears THEN GenClear(st.x, c) ELSE <<>>) \o GenStmts(st.b, d, c).code)

(***************************************************************************)
(* gen_defun: a function's variables in locals of WebAssembly or, where an *)
(* address is needed, in a frame below the base pointer.                   *)
(***************************************************************************)
OfStorage(storage) == SelectSeq(VarOrder, LAMBDA x : Vars[x].storage = storage)
Params == OfStorage("param")

Slots(tmps, refs) ==   \* what the function's scopes hold
  LET variable(x) == [key |-> <<"var", x>>, type |-> Vars[x].type, ref |-> x \in refs]
      own == Params \o OfStorage("local")
  IN  [i \in DOMAIN own |-> variable(own[i])]
        \o <<[key |-> RetVal, type |-> LongType, ref |-> FALSE]>>
        \o [i \in DOMAIN tmps |-> [key |-> Key(tmps[i]), type |-> tmps[i].type, ref |-> FALSE]]

Framed(slot) == slot.ref \/ ~IsScalar(slot.type)

\* The bytes of the first n slots of the frame: the gap before an aligned one
\* is not counted.
RECURSIVE FrameBytes(_, _)
FrameBytes(framed, n) ==
  IF n = 0 THEN 0 ELSE FrameBytes(framed, n - 1) + SizeOf(framed[n].type)
FrameOffset(framed, n) == RoundUp(FrameBytes(framed, n - 1), AlignOf(framed[n].type))

Allocated(slots) ==
  LET params == {slots[i].key : i \in DOMAIN Params}
      framed == SelectSeq(slots, Framed)
      size == RoundUp(FrameBytes(framed, Len(framed)), 8)
      base == IF framed = <<>> THEN <<>> ELSE <<[key |-> BasePtr, type |-> SizeType, ref |-> FALSE]>>
      declared == SelectSeq(slots, LAMBDA s : ~Framed(s) /\ s.key \notin params) \o base
      number(list, key) == CHOOSE i \in DOMAIN list : list[i].key = key
      keys(list) == {list[i].key : i \in DOMAIN list}
  IN  [size |-> size,
       locals |-> [i \in DOMAIN declared |-> WType(declared[i].type)],
       index |-> [key \in keys(declared) \cup params |->
                    IF key \in params THEN number(slots, key) - 1
                    ELSE Len(Params) + number(declared, key) - 1],
       offset |-> [key \in keys(framed) |-> FrameOffset(framed, number(framed, key)) - size]]

ClosedBehind(code, restore) == code \o restore \o End1
Closed(code, restore) == code \o End1 \o restore

\* c has the indices of the unit; c.refs are the variables with VS_REF_TAKEN.
GenDefun(stmts, tmps, unit) ==
  LET frame == Allocated(Slots(tmps, unit.refs))
      c == unit @@ [index |-> frame.index, offset |-> frame.offset]
      bp(op) == OfIndex(op, c.index[BasePtr])
      store(x) == IF x \notin c.refs THEN <<>>
                  ELSE GenBpofs(c.offset[<<"var", x>>], c)
                         \o OfIndex("LOCAL_GET", c.index[<<"var", x>>]) \o GenStore(Vars[x].type)
  IN  [locals |-> frame.locals,
       code |-> Kept(frame.size > 0, GetSp(c) \o bp("LOCAL_SET") \o MoveSp("SUB", frame.size, c))
                  \o FlattenSeq([i \in DOMAIN Params |-> store(Params[i])])
                  \o Open("BLOCK")
                  \o Closed(GenStmts(stmts, [cur |-> 1, brk |-> 0, cont |-> 0], c).code,
                            Kept(frame.size > 0, bp("LOCAL_GET") \o SetSp(c)))
                  \o OfIndex("LOCAL_GET", c.index[RetVal]) \o End1]
=============================================================================
