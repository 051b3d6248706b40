--------------------------- MODULE MCPreprocessor ---------------------------
(***************************************************************************)
(* Instances of Preprocessor: sections in every order, conditions of every *)
(* pair of operators, calls of every kind of macro, files that include     *)
(* files, and text that goes over lines.                                   *)
(***************************************************************************)
EXTENDS Preprocessor

\* Pieces, and pieces with blanks between them.
Pieces(ws) == << >> \o [i \in DOMAIN ws |-> <<ws[i]>>]
Spaced(ws) == FlattenSeq([i \in DOMAIN ws |-> IF i = 1 THEN <<ws[i]>> ELSE <<" ", ws[i]>>])
Hash(word, ws) == Pieces(<<"#", word, " ">> \o Spaced(ws))

Main == <<"d", "main">>
Of(files) == [inputs |-> <<Main>>, dirs |-> << >>, defs |-> (<<"D">> :> <<<<"1">>>>), files |-> files]
One(rows) == Of(Main :> rows)

\* A section in a section, and lines that may open, close or divide others.
Free == {Hash("ifdef", <<"A">>), Hash("elif", <<"D">>),
         Pieces(<<"#", "else">>), Pieces(<<" ", "#", " ", "endif">>), Hash("define", <<"A", "2">>),
         Pieces(<<"A", " ", "B">>)}
Starts == {Hash("ifndef", <<"A">>), Hash("if", <<"0">>)}
Sections ==
    {One(<<start>> \o free \o <<Hash("endif", <<"A">>), Pieces(<<"A">>)>>) :
        start \in Starts, free \in [1..4 -> Free]}

\* Two operators, as they stand and with the second in parentheses, and signs;
\* a condition compares the value with what it is.
Operators == {"*", "/", "%", "+", "-", "<<", ">>", "<", ">", "<=", ">=", "==", "!=",
              "&", "^", "|", "&&", "||", ","}
Signed == {"*", "/", "%", "+", "-", "<", ">", "<=", ">=", "==", "!=", "&&", "||"}
Plain(a, b, c, ops) == {<<a, p, b, q, c>> : p \in ops, q \in ops}
Val(e) == ValueOf(Pieces(e))
Inner == {<<"2", q, "1">> : q \in Operators}
Expressions ==
    Plain("7", "2", "1", Operators)
    \cup Plain("4", "0", "2", Operators \ {"/", "%", "-"})
    \cup {<<"7", p, "(">> \o e \o <<")">> :
              p \in {"*", "-", "<<", "<", "==", "&", "^", "|", "&&", "||"}, e \in Inner}
    \cup {<<"9", p, "(">> \o e \o <<")">> : p \in {"/", "%"}, e \in {i \in Inner : Val(i) # 0}}
    \cup {<<s, "7", p, "2">> : s \in {"-", "+", "~", "!"}, p \in Signed}
    \cup {<<"7", p, s, "2">> : s \in {"-", "+", "~"}, p \in Signed}
    \cup {<<"!", "(", "-", "7", p, "-", "2", ")">> : p \in Signed}
Written(v) == (IF v < 0 THEN <<"-">> ELSE << >>) \o Number(IF v < 0 THEN -v ELSE v)
Asking(condition) ==
    One(<<condition, Pieces(<<"A">>), Pieces(<<"#", "else">>), Pieces(<<"B">>), Pieces(<<"#", "endif">>)>>)
Conditions1 ==
    {Asking(Hash("if", <<"(">> \o e \o <<")", "==">> \o Written(Val(e)))) :
        e \in {x \in Expressions : Val(x) \in -9..9}}
    \cup {Asking(Hash("if", w)) :
             w \in {<<"D", "*", "2", "==", "2">>, <<"defined", "(", "D", ")", "&&", "!", "U">>,
                    <<"U", "+", "1">>, <<"U", "||", "defined", "U">>}}

\* Macros of every kind, and lines that use two things each.
Macros ==
    <<Hash("define", <<"A", "B", "+", "1">>), Hash("define", <<"B", "2">>), Hash("define", <<"E">>),
      Pieces(<<"#", "define", " ", "F", "(", "x", ")", "(", "x", ")">>),
      Pieces(<<"#", "define", " ", "G", "(", "x", ",", "y", ")", " ", "x", " ", "##", " ", "y", " ", ";", " ", "y">>),
      Pieces(<<"#", "define", " ", "S", "(", "x", ")", " ", "#", "x", " ", "x">>),
      Pieces(<<"#", "define", " ", "V", "(", "x", ",", "...", ")", " ", "F", "(", "__VA_ARGS__", ")", " ", "x">>),
      Pieces(<<"#", "define", " ", "N", "(", ")", " ", "F", "(", "A", ")">>)>>
Uses ==
    {<<"A">>, <<"E">>, <<"F", "(", "A", ")">>, <<"F", " ", "(", " ", "F", "(", "B", ")", " ", ")">>,
     <<"F", "(", "(", "A", ",", "B", ")", ")">>, <<"G", "(", "x", ",", "A", ")">>,
     <<"G", "(", "(", "B", ")", " ", "x", ",", "A", ")">>, <<"V", "(", "A", ",", " ", "B", ")">>,
     <<"N", "(", ")">>, <<"F", " ", ";">>, <<"G", "(", "A", ",", "1", ")">>, <<"__LINE__">>,
     <<"A", "(", "B", ")">>, <<"U", "(", "E", ")">>, <<"/*", "A", "*/">>,
     <<"S", "(", "F", "(", "B", ")", ")">>}
Calls ==
    {One(Macros \o <<Pieces(u \o <<" ">> \o v), Hash("undef", <<"B">>), Pieces(v \o <<"//", "A">>)>>) :
        u \in Uses, v \in Uses}

\* Files that include files: with what guards them, and where they lie.
Header == <<"d", "h">>
System == <<"s", "h">>
Here == Pieces(<<"__FILE__", " ", "__LINE__">>)
EndIf == Pieces(<<"#", "endif">>)
Guards ==
    {<<Hash("pragma", <<"once">>), Here>>, <<Here>>,
     <<Hash("ifndef", <<"H">>), Hash("define", <<"H">>), Here, EndIf>>,
     <<Pieces(<<"#", "include", " ", "<", "k", ">">>)>>,
     <<Hash("if", <<"H">>), Here, Pieces(<<"#", "else">>), Hash("define", <<"H", "1">>), EndIf,
       Hash("undef", <<"B">>)>>,
     <<Hash("error", <<"A">>)>>, <<Hash("ifdef", <<"D">>)>>}
Including(open, close) == Pieces(<<"#", "include", " ", open, "h", close>>)
Quote1 == Including("\"", "\"")
Angle == Including("<", ">")
Mains ==
    {<<Here, i, Here, j, Here>> : i \in {Quote1, Angle}, j \in {Quote1, Angle}}
    \cup {<<Hash("ifdef", <<"U">>), Angle, EndIf, Here, Pieces(<<"B">>)>>,
          <<Hash("ifdef", <<"D">>), Quote1, Pieces(<<"#", "else">>), Quote1, EndIf, Here, Pieces(<<"B">>)>>}
Second == <<"d", "second">>
Included ==
    {[inputs |-> inputs, dirs |-> dirs, defs |-> (<<"D">> :> <<<<"1">>>>) @@ (<<"B">> :> <<<<"4">>>>),
      files |-> files] :
        inputs \in {<<Main>>, <<Main, Second>>},
        dirs \in {<< >>, <<"s">>, <<"d", "s">>},
        files \in {(Main :> m) @@ (Second :> <<Quote1, Pieces(<<"D", " ", "B">>)>>)
                      @@ (IF away THEN (System :> h) ELSE (Header :> h) @@ (System :> <<Here>>)) :
                      m \in Mains, h \in Guards, away \in BOOLEAN}}

\* Text that goes over lines, and lines behind it.
Over ==
    {<<<<"F", "(", "A">>, <<")">>>>, <<<<"F">>, <<"(", "A", " ", "+">>, <<"1", ")", "A">>>>,
     <<<<"G", "(">>, <<"A", ",">>, <<" ">>, <<"B", "//", "c">>, <<")">>>>,
     <<<<"A", " ", "\\">>, <<"+", "B">>>>, <<<<"#", "define", " ", "B", " ", "\\">>, <<"5">>>>,
     <<<<"A", "/*", "B">>, <<"A">>, <<"*/", "A">>>>, <<<<"/*">>, <<"#", "if">>, <<"*/">>, <<"A", "/*", "*/", "B">>>>,
     <<<<"G", "(", "+", " ", "F", ",">>, <<"A", "(", "E", ",", ")", ")", " ", "A">>>>,
     <<<<"/*">>, <<"A", "*/", "B", "/*">>, <<"*/", "F", "(">>, <<"B", ")">>>>}
Overlong ==
    {One(Macros \o [i \in DOMAIN o |-> Pieces(o[i])] \o <<Pieces(<<"A">>), Pieces(<<"B">>)>>) : o \in Over}
    \cup {One(Macros \o <<Pieces(<<"A", " ", "F">>), Pieces(<<" ">>), Pieces(<<" ">>)>>),
          One(Macros \o <<Pieces(<<"A", " ", "\\", " ", "B">>)>>)}

\* A macro behind a name that is none, and a comment there: neither is looked
\* for.  No run uses these: they show what the code does (README, departure 17).
BehindNames ==
    {One(Macros \o <<Pieces(<<"x", " ", "A">>)>>), One(Macros \o <<Pieces(<<"G", "(", "x", ",", "x", " ", "A", ")">>)>>),
     One(Macros \o <<Pieces(<<"x", "/*">>), Pieces(<<"*/", "A">>)>>)}

AllPrograms == Sections \cup Conditions1 \cup Calls \cup Included \cup Overlong
=============================================================================
