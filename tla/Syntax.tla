------------------------------- MODULE Syntax -------------------------------
(***************************************************************************)
(* How the functions of an instance are written down: an expression or a   *)
(* statement of CSource, one short name for each form of C.                *)
(***************************************************************************)
EXTENDS CTypes

UInt == Unsigned(IntType)

E(op, a, x) == [op |-> op, a |-> a, x |-> x]
N(t, v) == E("NUM", <<>>, [type |-> t, v |-> v])
I(v) == N(IntType, v)
X(x) == E("VAR", <<>>, x)
U(op, e) == E(op, <<e>>, 0)
B(op, d, e) == E(op, <<d, e>>, 0)
Let(d, e) == E("ASSIGN", <<d, e>>, 0)
Op(op, d, e) == E("MODIFY", <<d, e>>, op)
F(e) == E("CALL", <<e>>, "f")
K(d, e) == E("CALL", <<d, e>>, "k")
Nil == E("ABSENT", <<>>, 0)

S(st, e, b, x) == [st |-> st, e |-> e, b |-> b, x |-> x]
Do(e) == S("EXPR", <<e>>, <<>>, 0)
Body(b) == S("BLOCK", <<>>, b, 0)
When(e, b) == S("IF", <<e>>, b, 0)
Return(e) == S("RETURN", <<e>>, <<>>, 0)
Break == S("BREAK", <<>>, <<>>, 0)
Continue == S("CONTINUE", <<>>, <<>>, 0)
Nothing == S("NOTHING", <<>>, <<>>, 0)
Goto(x) == S("GOTO", <<>>, <<>>, x)
Labelled(x, b) == S("LABEL", <<>>, <<b>>, x)
Case(v) == S("CASE", <<>>, <<>>, v)
Default == S("DEFAULT", <<>>, <<>>, 0)
Switch(e, b) == S("SWITCH", <<e>>, <<Body(b)>>, 0)
While(c, b) == S("WHILE", <<Nil, c, Nil>>, <<b>>, 0)
DoWhile(b, c) == S("DO", <<Nil, c, Nil>>, <<b>>, 0)
For(x, c, y, b) == S("FOR", <<x, c, y>>, <<b>>, 0)
At2(x, n) == U("DEREF", B("ADD", X(x), n))
Member(x, n) == E("MEMBER", <<X(x)>>, n)
Ctr(x, n) == B("EQ", X(x), I(n))
Show(e) == Do(K(I(1), e))
=============================================================================
