---------------------------- MODULE MCAsmLayout ----------------------------
(***************************************************************************)
(* Programs for AsmLayout: every order of a few jumps, labels, a piece of  *)
(* code and an alignment, followed by the instructions that refer to other *)
(* sections, sums among them, with three choices for these.                *)
(***************************************************************************)
EXTENDS AsmLayout, SequencesExt

Item(kind, label, n) == [kind |-> kind, label |-> label, size |-> n, add |-> 0]
Label(l) == Item("label", l, 0)
Ref(kind, l) == Item(kind, l, 0)
Sized(kind, n) == Item(kind, "none", n)
Sum(ir, n) == [ir EXCEPT !.add = n]

Jumping == {Label("a"), Label("b"), Ref("jmp", "a"), Ref("jcc", "b"), Sized("code", 4)}
Orders ==
    SetToSeqs(Jumping \cup {Sized("align", 4)}) \cup SetToSeqs(Jumping)

Referring == << Ref("lea", "v"), Ref("call", "a"), Ref("lea", "s"),
                Sum(Ref("lea", "b"), 2), Sum(Ref("lea", "v"), -4) >>
Extern == << Ref("lea", "x"), Ref("call", "f") >>

Strings == << Label("s"), Sized("data", 3) >>
Variables == << Sized("align", 8), Label("v"), Sized("data", 5), Sized("align", 4),
                Label("w"), Ref("quad", "a"), Ref("quad", "z"), Ref("quad", "s"),
                Sum(Ref("quad", "s"), 1), Item("value", "w", 4), Ref("quad", "v") >>
Zeros == << Sized("align", 4), Label("z"), Sized("bss", 3), Sized("align", 8), Label("y"), Sized("bss", 8) >>
Table == << Sized("align", 8), Label("v"), Ref("quad", "a"), Label("s"), Ref("quad", "v") >>

Layouts(order) == {
    (0 :> order \o Referring) @@ (1 :> Strings) @@ (2 :> Variables) @@ (3 :> Zeros),
    (0 :> order \o Referring) @@ (1 :> Table) @@ (2 :> << >>) @@ (3 :> << >>),
    (0 :> order \o Extern) @@ (1 :> << >>) @@ (2 :> << >>) @@ (3 :> Zeros) }

Program(irs) == [irs |-> irs, globals |-> {"a", "v"}]
AllPrograms == {Program(irs) : irs \in UNION {Layouts(order) : order \in Orders}}

\* A pointer to a variable of another file, followed by a variable.
ExternPointer == << Sized("align", 8), Label("v"), Ref("quad", "x"), Label("s"), Sized("data", 4) >>
ExternPrograms ==
    {Program((0 :> order \o Referring) @@ (1 :> << >>) @@ (2 :> ExternPointer) @@ (3 :> << >>)) :
        order \in SetToSeqs(Jumping)}
=============================================================================
