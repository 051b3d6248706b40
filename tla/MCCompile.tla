----------------------------- MODULE MCCompile ------------------------------
(***************************************************************************)
(* Instances of Compile: functions built from families of expressions and  *)
(* of statements over a few variables.  A byte has 2 bits, so an int has   *)
(* 8, a long 16.                                                           *)
(***************************************************************************)
EXTENDS Compile, Syntax

Pair == StructOf(<<CharType, IntType>>)

MCVars ==
  [i  |-> [type |-> IntType, storage |-> "local"],
   j  |-> [type |-> IntType, storage |-> "local"],
   u  |-> [type |-> UInt, storage |-> "local"],
   l  |-> [type |-> LongType, storage |-> "local"],
   c  |-> [type |-> CharType, storage |-> "local"],
   r  |-> [type |-> IntType, storage |-> "local"],
   p  |-> [type |-> PtrTo(IntType), storage |-> "local"],
   a  |-> [type |-> ArrayOf(IntType, 2), storage |-> "local"],
   s  |-> [type |-> Pair, storage |-> "local"],
   g  |-> [type |-> IntType, storage |-> "global"],
   h  |-> [type |-> LongType, storage |-> "global"],
   t  |-> [type |-> Pair, storage |-> "global"],
   q  |-> [type |-> IntType, storage |-> "static"]]
MCOrder == <<"i", "j", "u", "l", "c", "r", "p", "a", "s", "g", "h", "t", "q">>
X8664Sizes == <<1, 2, 4, 8, 8>>
NoInits == <<>>
MCFuncs == [f |-> <<IntType>>, k |-> <<IntType, LongType>>]

\* Every variable gets a value first.
Prologue(i, j) ==
  <<S("DECL", <<>>, <<Do(Let(X("i"), I(i)))>>, "i"),
    S("DECL", <<>>, <<Do(Let(X("j"), I(j)))>>, "j"),
    Do(Let(X("u"), N(UInt, 100))), Do(Let(X("l"), N(LongType, -300))),
    Do(Let(X("c"), I(-1))), Do(Let(X("r"), I(0))),
    S("DECL", <<>>, <<Do(Let(At2("a", I(0)), I(5))), Do(Let(At2("a", I(1)), I(-6)))>>, "a"),
    S("DECL", <<>>, <<Do(Let(Member("s", 1), I(1))), Do(Let(Member("s", 2), I(9)))>>, "s"),
    Do(Let(X("p"), U("REF", At2("a", I(1))))),
    Do(Let(X("g"), I(-7))), Do(Let(X("h"), N(LongType, 500))), Do(Let(X("q"), I(6)))>>

(***************************************************************************)
(* Expressions: every operator on every two atoms, and the ways a value or *)
(* a condition is used.                                                    *)
(***************************************************************************)
Places == <<X("i"), X("u"), X("l"), X("g"), X("h"), At2("a", I(1)), Member("s", 2), U("DEREF", X("p"))>>
Atoms == Places \o <<X("c"), X("q"), I(3), N(LongType, -2), N(UInt, 3)>>

BinaryOps == <<"ADD", "SUB", "MUL", "DIV", "MOD", "BITAND", "BITOR", "BITXOR",
               "EQ", "NE", "LT", "LE", "GE", "GT", "LOGAND", "LOGIOR">>
Binary(d, e) == Prologue(5, 0) \o [n \in DOMAIN BinaryOps |-> Show(B(BinaryOps[n], d, e))]

ModifyOps == <<"ADD", "SUB", "BITXOR", "MUL", "DIV", "MOD", "BITOR", "BITAND">>
Modifying(d, e) ==
  Prologue(5, 0)
    \o FlattenSeq([n \in DOMAIN ModifyOps |-> <<Do(Let(d, I(5))), Show(Op(ModifyOps[n], d, e))>>])

UnaryOps == <<"POS", "NEG", "BITNOT", "NOT", "PREINC", "POSTINC", "PREDEC", "POSTDEC">>
Casts == <<X("c"), X("i"), X("u"), X("l"), X("h")>>
Unary(d) ==
  Prologue(5, 0)
    \o [n \in DOMAIN UnaryOps |-> Show(U(UnaryOps[n], d))]
    \o <<Show(B("LSHIFT", d, I(1))), Show(B("LSHIFT", d, I(2))), Show(B("LSHIFT", d, X("j"))),
         Show(B("RSHIFT", d, I(1))), Show(B("RSHIFT", d, I(3))), Show(B("RSHIFT", d, X("j")))>>
    \o FlattenSeq([n \in DOMAIN Casts |->
         <<Do(Let(Casts[n], E("CAST", <<d>>, TypeOf(Casts[n])))), Show(Casts[n])>>])

Conditions ==
  <<B("LT", X("i"), X("j")), B("GE", I(3), X("i")), X("g"), U("NOT", X("j")),
    B("LOGAND", X("i"), X("j")), B("LOGIOR", X("j"), B("EQ", X("c"), I(-1))),
    U("NOT", B("LOGAND", X("i"), U("NOT", X("j")))),
    B("LOGIOR", B("LOGAND", X("j"), F(I(1))), B("LOGAND", F(I(2)), X("i"))),
    B("LOGAND", B("LOGIOR", X("i"), F(I(1))), U("NOT", F(I(0)))),
    B("GT", X("p"), U("REF", At2("a", I(0)))), U("NOT", X("p")), I(0), I(1),
    E("TERNARY", <<X("i"), X("j"), X("g")>>, 0), Let(X("r"), X("j")),
    B("COMMA", U("PREINC", X("r")), U("POSTDEC", X("r")))>>

Using(e) ==
  Prologue(5, 0)
    \o <<Show(e), Show(U("NOT", e)), Do(Let(X("r"), e)), Show(X("r")),
         Do(Op("ADD", X("h"), e)),
         Show(E("TERNARY", <<e, X("i"), N(LongType, 7)>>, 0)),
         Do(E("TERNARY", <<e, E("CAST", <<F(I(8))>>, VoidType), E("CAST", <<Let(X("j"), I(2))>>, VoidType)>>, 0)),
         When(e, <<Do(F(I(1)))>>), When(e, <<Do(F(I(2))), Do(F(I(3)))>>),
         When(B("LOGAND", e, X("i")), <<Nothing, Do(F(I(4)))>>),
         While(e, Body(<<Do(F(I(5))), Break>>)),
         DoWhile(Do(F(I(6))), B("LOGAND", U("PREDEC", X("i")), e)),
         Return(e)>>

Aggregates ==
  Prologue(1, 0) \o
  <<Do(Let(X("t"), X("s"))), Show(Member("t", 2)), Do(Let(X("s"), Let(X("t"), X("s")))),
    Show(U("POSTINC", X("p"))), Show(B("SUB", X("p"), X("a"))), Show(U("PREDEC", X("p"))),
    Do(Let(U("DEREF", X("p")), B("ADD", At2("a", X("i")), I(1)))), Show(At2("a", I(1))),
    Do(Op("SUB", X("p"), X("i"))), Show(U("DEREF", X("p"))), Show(B("EQ", X("p"), X("a"))),
    Do(Let(X("p"), U("REF", X("i")))), Do(Op("ADD", U("DEREF", X("p")), I(6))), Show(X("i")),
    Do(Let(X("r"), E("CAST", <<B("COMMA", F(I(4)), N(LongType, -5))>>, IntType))), Show(X("r")),
    Do(Let(X("c"), E("CAST", <<B("COMMA", F(I(4)), N(LongType, 70))>>, CharType))), Show(X("c")),
    Show(B("ADD", F(X("i")), K(F(I(2)), F(I(3))))), Show(U("POSTINC", Member("t", 1))),
    Do(K(U("PREINC", X("i")), U("POSTINC", X("g")))), Do(K(X("l"), X("c"))),
    When(X("a"), <<Do(F(I(1))), Do(F(I(2)))>>),
    Do(Let(X("p"), E("TERNARY", <<X("j"), X("p"), X("a")>>, 0))), Show(B("SUB", X("p"), X("a"))),
    Return(B("ADD", X("i"), X("g")))>>

Modifiers == <<X("u"), X("l"), X("g"), I(3)>>
Variables == Append(Places, X("q"))
Expressions(places, atoms, modifiers, conditions, variables) ==
  FlattenSeq([n \in DOMAIN places |-> [k \in DOMAIN atoms |-> Binary(places[n], atoms[k])]])
    \o FlattenSeq([n \in DOMAIN places |->
                     [k \in DOMAIN modifiers |-> Modifying(places[n], modifiers[k])]])
    \o [n \in DOMAIN variables |-> Unary(variables[n])]
    \o [n \in DOMAIN conditions |-> Using(conditions[n])] \o <<Aggregates>>

(***************************************************************************)
(* Statements: what a statement may hold inside another, twice.            *)
(***************************************************************************)
Plain == <<S("DECL", <<>>, <<Do(Let(X("i"), I(2)))>>, "i"),
           S("DECL", <<>>, <<Do(Let(X("j"), I(3)))>>, "j")>>

Leaves ==
  <<Nothing, Body(<<>>), Break, Continue, Goto("out"), Do(F(X("j"))), Return(X("j")),
    When(Ctr("j", 1), <<Break>>), When(Ctr("j", 1), <<Continue, Do(F(I(7)))>>)>>

Around(x, st) ==   \* statements that hold st and count with x
  <<When(X(x), <<st>>), When(Ctr(x, 2), <<st, Do(F(I(1)))>>), When(Ctr(x, 2), <<Nothing, st>>),
    While(U("POSTDEC", X(x)), st), DoWhile(st, U("PREDEC", X(x))),
    For(Let(X(x), I(1)), B("LT", X(x), I(3)), U("POSTINC", X(x)), st),
    For(Nil, Nil, U("PREDEC", X(x)), Body(<<When(B("LE", X(x), I(0)), <<Break>>), st>>)),
    Switch(X(x), <<Case(1), Do(F(I(1))), Case(2), st, Default, Do(F(I(3))), Case(4)>>),
    Switch(X(x), <<Case(3), st, Case(0), Do(F(I(4))), Break, Case(1), Nothing, Case(-5)>>),
    Switch(X(x), <<st, Case(2)>>)>>

AllAround(x, list) == FlattenSeq([n \in DOMAIN list |-> Around(x, list[n])])
Statements(list) ==
  [n \in DOMAIN list |-> Plain \o <<list[n], Do(F(X("i"))), Labelled("out", Do(F(X("j"))))>>]

Deciding(e) ==
  Prologue(5, 0) \o
  <<Switch(e, <<Case(-300), Do(F(I(1))), Case(-1), Do(F(I(2))), Break, Case(5), Do(F(I(3))),
                Case(9), Case(100), Do(F(I(4))), Default, Do(F(I(5)))>>),
    Switch(e, <<Case(500), Case(-1), Case(-7), Case(5), Do(F(I(6)))>>)>>
Decided == Places \o <<X("c"), I(9)>>

\* Gotos into a loop, back, and out of a switch in a loop.
Jumping ==
  <<<<When(X("j"), <<Goto("in")>>),
      While(U("POSTDEC", X("i")), Body(<<Do(F(I(1))), Labelled("in", Do(F(X("i"))))>>)),
      Return(X("i"))>>,
    <<Labelled("back", Do(F(U("POSTDEC", X("i"))))), When(X("i"), <<Goto("back"), Do(F(I(2)))>>),
      DoWhile(Body(<<When(Ctr("j", 2), <<Goto("next")>>), Do(F(I(3))), Labelled("next", Nothing)>>),
              U("PREDEC", X("j")))>>,
    <<For(Nil, X("i"), U("PREDEC", X("i")),
          Switch(X("j"), <<Case(3), Do(Let(X("j"), I(1))), Goto("case"), Case(2), Goto("out"),
                           Default, Labelled("case", Do(F(X("j")))), Do(U("POSTINC", X("j")))>>)),
      Labelled("out", Do(F(X("i"))))>>>>

Pool ==
  Expressions(Places, Atoms, Modifiers, Conditions, Variables)
    \o Statements(AllAround("i", AllAround("j", Leaves)))
    \o [n \in DOMAIN Decided |-> Deciding(Decided[n])]
    \o [n \in DOMAIN Jumping |-> Plain \o Jumping[n]]

Admitted(programs) == SelectSeq(programs, LAMBDA program :
                        \A i \in DOMAIN program : WellPlaced(program[i], FALSE, FALSE))
\* The empty sequence makes TLC compute the others once and for all.
CodeFor(programs) == <<>> \o [n \in DOMAIN programs |-> Compiled(programs[n])]
MeaningFor(programs) == <<>> \o [n \in DOMAIN programs |-> Run(programs[n])]

MCPrograms == Admitted(Pool)
MCCode == LET programs == MCPrograms IN CodeFor(programs)
MCMeaning == LET programs == MCPrograms IN MeaningFor(programs)

\* No jump of theirs that the passes do not see leads to a block they drop.
\* One of GotoPrograms does, and the assembler misses its label: a goto before
\* the else of its if leads to a label with nothing behind it.
ASSUME MidJumpsAssumption == \A p \in DOMAIN MCCode : MidJumpsStay(MCCode[p].bbs)

GotoPrograms ==
  <<Plain \o <<While(X("j"), Body(<<When(Ctr("i", 1), <<Goto("next"), Do(F(I(1)))>>),
                                    Do(U("PREDEC", X("j"))), Labelled("next", Nothing)>>))>>>>
GotoCode == CodeFor(GotoPrograms)
GotoMeaning == MeaningFor(GotoPrograms)
=============================================================================
