------------------------------- MODULE MCWasm -------------------------------
(***************************************************************************)
(* Instances of Wasm: mains built from families of expressions and of      *)
(* statements, calls with any number of arguments, and units that wcc      *)
(* refuses.  A byte has 2 bits, so an i32 has 8 and an i64 16.             *)
(***************************************************************************)
EXTENDS Wasm, Syntax

Pair == StructOf(<<CharType, IntType>>)
Variable(type, storage) == [type |-> type, storage |-> storage]

MCVars ==
  [n |-> Variable(IntType, "param"), b |-> Variable(CharType, "param"),
   y |-> Variable(LLongType, "local"), i |-> Variable(IntType, "local"),
   j |-> Variable(IntType, "local"), u |-> Variable(UInt, "local"),
   c |-> Variable(CharType, "local"), o |-> Variable(IntType, "local"),
   p |-> Variable(PtrTo(IntType), "local"), r |-> Variable(PtrTo(LLongType), "local"),
   a |-> Variable(ArrayOf(IntType, 2), "local"), s |-> Variable(Pair, "local"),
   g |-> Variable(IntType, "global"), h |-> Variable(LLongType, "global"),
   t |-> Variable(Pair, "global"), w |-> Variable(ArrayOf(IntType, 2), "global"),
   z |-> Variable(IntType, "global"), e |-> Variable(PtrTo(IntType), "global"),
   x |-> Variable(IntType, "extern"), q |-> Variable(IntType, "static")]
MCOrder == <<"n", "b", "y", "i", "j", "u", "c", "o", "p", "r", "a", "s",
             "g", "h", "t", "w", "z", "e", "x", "q">>
MCInits == [n |-> 3, b |-> -1, t |-> <<<<1>>, <<-9>>>>, w |-> <<<<70>>>>, e |-> "z", q |-> 6]

WasmSizes == <<1, 2, 4, 4, 8>>
MCFuncs == [f |-> <<IntType>>, k |-> <<IntType, LLongType>>, v |-> <<IntType>>, idle |-> <<IntType>>]
MCVaTypes == <<<<IntType>>, <<IntType, LLongType>>, <<IntType, LLongType, UInt>>>>
MCTableOrders ==
  <<[funcs |-> <<"idle", "f", "main", "_memset", "v", "k", "_memcpy">>,
     gvars |-> <<"g", "t", "$_SP", "h", "w", "e", "q", "$_DE", "z", "x">>],
    [funcs |-> <<"k", "_memcpy", "v", "_memset", "main", "f", "idle">>,
     gvars |-> <<"x", "q", "z", "w", "$_DE", "e", "t", "h", "$_SP", "g">>]>>

(***************************************************************************)
(* What the code generator can do: it knows no conversion of a long long   *)
(* to less, none of a signed number to a wider unsigned one, none of a     *)
(* short to a char, no count of another width, no ++ of a long long in a   *)
(* local and no long long constant as a condition.                         *)
(***************************************************************************)
Narrow(t) == SizeOf(t) <= I32Size
HandlesCast(to, from) ==
  /\ SizeOf(from) > I32Size => ~Narrow(to)
  /\ SizeOf(from) # 2 \/ SizeOf(to) # 1
  /\ to.kind = "fixnum" /\ to.uns /\ from.kind = "fixnum" /\ ~from.uns => SizeOf(to) <= SizeOf(from)
Handles(e, refs) ==
  /\ e.ex = "CAST" /\ e.type # VoidType => HandlesCast(e.type, Decayed(e.a[1].type))
  /\ e.ex \in Shifts => Narrow(e.a[1].type) = Narrow(e.a[2].type)
  /\ e.ex \in Increments /\ IsVariable(e.a[1]) => Narrow(e.type) \/ IsRefTaken(e.a[1], refs)
  /\ e.ex \in {"LOGAND", "LOGIOR"} => \A k \in 1 .. 2 : IsConst(e.a[k]) => Narrow(e.a[k].type)

\* A program without the statements that hold something else.
Handled(program) ==
  LET parsed == [k \in DOMAIN program |-> ParseStmt(program[k])]
      refs == UNION {RefTaken(parsed[k]) : k \in DOMAIN program}
      fits(k) == LET nodes == NodesIn(parsed[k]) IN \A m \in DOMAIN nodes : Handles(nodes[m], refs)
      RECURSIVE keep(_)
      keep(k) == IF k = 0 THEN <<>> ELSE keep(k - 1) \o IF fits(k) THEN <<program[k]>> ELSE <<>>
  IN  keep(Len(program))

(***************************************************************************)
(* Expressions.                                                            *)
(***************************************************************************)
Prologue ==
  <<S("DECL", <<>>, <<Do(Let(X("i"), I(5)))>>, "i"), S("DECL", <<>>, <<Do(Let(X("j"), I(0)))>>, "j"),
    Do(Let(X("u"), N(UInt, 100))), Do(Let(X("y"), N(LLongType, -300))), Do(Let(X("c"), I(-1))),
    S("DECL", <<>>, <<Do(Let(At2("a", I(0)), I(5))), Do(Let(At2("a", I(1)), I(-6)))>>, "a"),
    Do(Let(X("p"), U("REF", At2("a", I(1))))), Do(Let(X("g"), I(-7))), Do(Let(X("h"), N(LLongType, 500)))>>

Places == <<X("i"), X("u"), X("y"), X("g"), X("h"), X("x"), At2("a", I(1)), Member("t", 2), U("DEREF", X("p"))>>
Atoms == <<X("i"), X("y"), X("b"), X("q"), I(64), N(LLongType, -65), N(UInt, 3)>>

BinaryOps == <<"ADD", "SUB", "MUL", "DIV", "MOD", "BITAND", "BITOR", "BITXOR",
               "EQ", "NE", "LT", "LE", "GE", "GT", "LOGAND", "LOGIOR">>
Binary(d, e) == Prologue \o [k \in DOMAIN BinaryOps |-> Show(B(BinaryOps[k], d, e))]

ModifyOps == <<"ADD", "SUB", "BITXOR", "MUL", "DIV", "MOD", "BITOR", "BITAND">>
Modifying(d, e) ==
  Prologue \o FlattenSeq([k \in DOMAIN ModifyOps |->
    <<Do(Let(d, I(5))), Do(Op(ModifyOps[k], d, e)), Show(d), Show(Op(ModifyOps[k], d, e))>>])

UnaryOps == <<"POS", "NEG", "BITNOT", "NOT", "PREINC", "POSTINC", "PREDEC", "POSTDEC">>
Casts == <<X("c"), X("i"), X("u"), X("y"), X("h")>>
Counts == <<I(1), I(3), X("j"), N(LLongType, 2)>>
Unary(d) ==
  Prologue
    \o [k \in DOMAIN UnaryOps |-> Show(U(UnaryOps[k], d))]
    \o [k \in 1 .. 4 |-> Do(U(UnaryOps[k + 4], d))] \o <<Show(d)>>
    \o [k \in DOMAIN Counts |-> Show(B("LSHIFT", d, Counts[k]))]
    \o [k \in DOMAIN Counts |-> Show(B("RSHIFT", d, Counts[k]))]
    \o FlattenSeq([k \in DOMAIN Casts |->
         <<Do(Let(Casts[k], E("CAST", <<d>>, TypeOf(Casts[k])))), Show(Casts[k])>>])

Conditions ==
  <<B("LT", X("i"), X("j")), X("g"), U("NOT", X("j")), X("y"),
    B("LOGAND", X("i"), X("j")), B("LOGIOR", X("j"), B("EQ", X("c"), I(-1))),
    B("LOGIOR", B("LOGAND", X("j"), F(I(1))), B("LOGAND", F(I(2)), X("i"))),
    U("NOT", B("LOGAND", B("LOGIOR", X("i"), F(I(1))), U("NOT", F(I(0))))),
    B("GT", X("p"), U("REF", At2("a", I(0)))), U("NOT", X("p")), I(0), I(1),
    E("TERNARY", <<X("i"), X("j"), X("g")>>, 0), Let(X("o"), X("j")), Let(X("o"), B("ADD", X("i"), X("j"))),
    B("COMMA", U("PREINC", X("o")), U("POSTDEC", X("o")))>>

Using(e) ==
  Prologue \o
    <<Show(e), Show(U("NOT", e)), Do(Let(X("o"), e)), Show(X("o")), Do(Op("ADD", X("h"), e)),
      Show(E("TERNARY", <<e, X("i"), N(LLongType, 7)>>, 0)),
      Do(E("TERNARY", <<e, E("CAST", <<F(I(8))>>, VoidType), E("CAST", <<Let(X("j"), I(2))>>, VoidType)>>, 0)),
      When(e, <<Do(F(I(1)))>>), When(e, <<Do(F(I(2))), Do(F(I(3)))>>),
      When(B("LOGAND", e, X("i")), <<Nothing, Do(F(I(4)))>>),
      While(e, Body(<<Do(F(I(5))), Break>>)),
      DoWhile(Do(F(I(6))), B("LOGAND", U("PREDEC", X("i")), e)),
      Return(e)>>

\* Structures, pointers, and places that lead through effects.
Through(d) == <<Do(Op("ADD", d, I(3))), Show(Op("SUB", d, I(1))), Show(Let(d, B("ADD", X("i"), I(60)))),
                Show(Let(d, X("i"))), Do(U("PREINC", d)), Show(U("POSTINC", d)), Show(U("PREDEC", d)), Show(d)>>
Aggregates ==
  <<Prologue \o <<S("DECL", <<>>, <<Do(Let(Member("s", 1), I(1))), Do(Let(Member("s", 2), I(9)))>>, "s"),
      Do(Let(X("t"), X("s"))), Show(Member("t", 2)), Do(Let(Member("s", 2), I(-70))),
      Do(Let(X("s"), Let(X("t"), X("s")))), Show(Member("t", 2)), Show(Let(Member("s", 1), I(0))),
      Show(Member("s", 2))>>,
    Prologue \o <<Do(U("PREDEC", X("p"))), Show(B("SUB", X("p"), X("a"))),
      Do(Let(U("DEREF", U("POSTINC", X("p"))), B("ADD", At2("a", X("j")), I(1)))), Show(At2("a", I(0))),
      Do(Op("SUB", X("p"), X("j"))), Show(B("EQ", X("p"), X("a"))), Show(U("DEREF", X("p"))),
      Show(Op("ADD", U("DEREF", U("PREDEC", X("p"))), I(2))), Show(At2("a", I(0))),
      Show(Op("ADD", At2("w", F(I(1))), I(7))), Show(U("POSTINC", At2("w", F(I(0))))),
      Show(Let(At2("w", F(I(1))), B("SUB", X("i"), I(1)))), Do(Let(U("DEREF", X("e")), At2("w", I(0)))),
      Do(Let(X("e"), U("REF", X("g")))), Do(Let(U("DEREF", X("e")), At2("w", I(1)))),
      When(X("a"), <<Do(F(I(1)))>>), Return(X("z"))>>,
    Prologue \o <<Do(Let(X("p"), U("REF", X("i")))), Show(Op("ADD", U("DEREF", X("p")), X("n")))>> \o Through(X("i")),
    Prologue \o <<Do(Let(X("p"), U("REF", X("n")))), Show(Op("ADD", U("DEREF", X("p")), X("b")))>> \o Through(X("n"))
      \o Through(U("DEREF", X("p"))) \o Through(Member("t", 2)) \o Through(At2("a", X("j")))
      \o Through(X("z")),
    Prologue \o <<Do(Let(X("r"), U("REF", X("y")))), Show(Op("SUB", U("DEREF", X("r")), N(LLongType, 300)))>>
      \o Through(X("y")) \o Through(U("DEREF", X("r")))>>

(***************************************************************************)
(* Calls.                                                                  *)
(***************************************************************************)
CallV(args) == E("CALL", args, "v")
Calls ==
  <<<<Do(CallV(<<I(0)>>)), Do(CallV(<<I(1), X("n")>>)), Return(CallV(<<I(2), X("b"), X("h")>>))>>,
    <<Do(CallV(<<I(1), F(I(64))>>)), Do(CallV(<<I(2), CallV(<<I(1), X("n")>>), N(LLongType, -200)>>)),
      When(X("b"), <<Return(CallV(<<I(3), X("b"), X("h"), N(UInt, 200)>>))>>), Do(F(I(1)))>>,
    Prologue \o
    <<Do(CallV(<<I(3), X("c"), X("y"), X("u")>>)), Do(CallV(<<I(1), CallV(<<I(2), X("i"), X("h")>>)>>)),
      Show(CallV(<<I(0)>>)), Show(B("ADD", X("y"), F(I(3)))), Show(B("ADD", F(X("i")), X("h"))),
      While(CallV(<<I(1), U("POSTDEC", X("i"))>>),
            Body(<<When(Ctr("i", 2), <<Return(CallV(<<I(2), X("i"), X("y")>>))>>)>>))>>>>

(***************************************************************************)
(* Statements: what a statement may hold inside another, twice.            *)
(***************************************************************************)
Plain == <<S("DECL", <<>>, <<Do(Let(X("i"), I(2)))>>, "i"),
           S("DECL", <<>>, <<Do(Let(X("j"), I(3)))>>, "j")>>
Leaves == <<Break, Continue, Do(F(X("j"))), When(Ctr("j", 1), <<Return(X("j"))>>),
            When(Ctr("j", 1), <<Continue, Do(F(I(7)))>>)>>

Around(d, st) ==   \* statements that hold st and count with d
  <<When(Ctr(d, 2), <<Body(<<st, Do(F(I(8)))>>), Do(F(I(1)))>>), When(Ctr(d, 2), <<Nothing, st>>),
    While(U("POSTDEC", X(d)), st), DoWhile(st, U("PREDEC", X(d))),
    For(Let(X(d), I(1)), B("LT", X(d), I(3)), U("POSTINC", X(d)), st),
    For(Nil, Nil, U("PREDEC", X(d)), Body(<<When(B("LE", X(d), I(0)), <<Break>>), st>>)),
    Switch(X(d), <<Case(1), Do(F(I(1))), Case(2), st, Default, Do(F(I(3))), Case(4)>>),
    Switch(U("POSTDEC", X(d)), <<Case(3), st, Case(0), Do(F(I(4))), Break, Case(1), Nothing, Case(-5)>>),
    Switch(X(d), <<st, Case(2)>>)>>
AllAround(d, list) == FlattenSeq([k \in DOMAIN list |-> Around(d, list[k])])
Statements(list) == [k \in DOMAIN list |-> Plain \o <<list[k], Do(F(X("i"))), Do(F(X("j")))>>]

Deciding(e) ==
  Prologue \o
  <<Switch(e, <<Case(-100), Do(F(I(1))), Case(-1), Do(F(I(2))), Break, Case(5), Do(F(I(3))),
                Case(9), Case(100), Do(F(I(4))), Default, Do(F(I(5)))>>),
    Switch(e, <<Case(64), Case(-1), Case(-7), Case(5), Do(F(I(6)))>>)>>
Decided == <<X("i"), X("u"), X("g"), X("b"), At2("a", I(1)), U("DEREF", X("p")), F(I(9)), U("POSTINC", X("x"))>>

NotHandled ==
  <<Plain \o <<Goto("out"), Do(F(I(1))), Labelled("out", Nothing)>>,
    Plain \o <<Switch(X("i"), <<Case(1), When(X("j"), <<Body(<<Case(2), Do(F(I(1)))>>)>>)>>)>>>>

Pool ==
  FlattenSeq([k \in DOMAIN Places |-> [m \in DOMAIN Atoms |-> Binary(Places[k], Atoms[m])]])
    \o FlattenSeq([k \in DOMAIN Places |->
         <<Modifying(Places[k], X("q")), Modifying(Places[k], N(UInt, 100)),
           Modifying(Places[k], N(LLongType, -65)), Unary(Places[k])>>])
    \o <<Unary(X("b")), Unary(X("q"))>>
    \o [k \in DOMAIN Conditions |-> Using(Conditions[k])]
    \o [k \in DOMAIN Decided |-> Deciding(Decided[k])]
    \o Aggregates \o Calls \o NotHandled
    \o Statements(AllAround("i", AllAround("j", Leaves)))

MCPrograms == LET placed == SelectSeq(Pool, LAMBDA program :
                              \A k \in DOMAIN program : WellPlaced(program[k], FALSE, FALSE))
              IN  <<>> \o [k \in DOMAIN placed |-> Handled(placed[k])]
\* The empty sequence makes TLC compute the others once and for all.
MCBuilt == LET programs == MCPrograms
           IN  <<>> \o [k \in DOMAIN programs |->
                          <<>> \o [o \in 1 .. 2 |-> Load(Wcc(programs[k], MCTableOrders[o]))]]
MCMeaning == LET programs == MCPrograms
             IN  <<>> \o [k \in DOMAIN programs |-> Outcome(programs[k])]
=============================================================================
