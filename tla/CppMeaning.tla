----------------------------- MODULE CppMeaning -----------------------------
(***************************************************************************)
(* What a preprocessor is to make of files, as the C standard says it, on  *)
(* tokens and on the nesting of sections: nothing here knows of the state  *)
(* of Preprocessor.  Files are as in CppText.                              *)
(*                                                                         *)
(* A token is [s, row, file]: its spelling and the line it, or the name of *)
(* the macro it comes from, stands on.                                     *)
(***************************************************************************)
EXTENDS CppText, Bitwise

-----------------------------------------------------------------------------
\* The tokens of a text whose first line is a row of a file.
TokensIn(t, row, file) ==
    LET ks == Ascending(TokensOf(t), Len(t))
    IN  [i \in DOMAIN ks |->
            [s |-> t[ks[i]],
             row |-> row + Cardinality({q \in 1 .. ks[i] : t[q] = NewLine}),
             file |-> file]]

FirstWhere(n, P(_)) == Min({i \in 1..n : P(i)} \cup {n + 1})
IsToken(ts, i, s) == i \in DOMAIN ts /\ ts[i].s = <<s>>

\* The ) of the ( at i, the arguments between them.
DepthAfter(ts, i, j) ==
    Cardinality({k \in i..j : ts[k].s = <<"(">>}) - Cardinality({k \in i..j : ts[k].s = <<")">>})
CloseOf(ts, i) == FirstWhere(Len(ts), LAMBDA j : j > i /\ DepthAfter(ts, i, j) = 0)

Arguments(ts, i) ==
    LET close == CloseOf(ts, i)
        cuts == Ascending({j \in i..close : \/ j \in {i, close}
                                            \/ ts[j].s = <<",">> /\ DepthAfter(ts, i, j) = 1}, close)
    IN  IF close = i + 1 THEN << >>
        ELSE [j \in 1 .. Len(cuts) - 1 |-> SubSeq(ts, cuts[j] + 1, cuts[j + 1] - 1)]

\* A macro's definition: a name, parameters if a parenthesis touches it, and
\* the tokens of the body.  The dots are the parameter __VA_ARGS__.
Definition(t) ==
    LET ts == TokensIn(t, 0, "")
        fn == At(t, 2) = <<"(">>
        params == IF fn THEN Arguments(ts, 2) ELSE << >>
        named(k) == IF k = <<"...">> THEN <<"__VA_ARGS__">> ELSE k
    IN  [name |-> ts[1].s,
         fn |-> fn,
         va |-> params # << >> /\ Last(params)[1].s = <<"...">>,
         params |-> [j \in DOMAIN params |-> named(params[j][1].s)],
         body |-> SubSeq(ts, IF fn THEN CloseOf(ts, 2) + 1 ELSE 2, Len(ts))]

\* The arguments that stand for the parameters, those of the dots as one.
Bound(m, args) ==
    LET n == Len(m.params)
        comma == <<[s |-> <<",">>, row |-> 0, file |-> ""]>>
        dots == [j \in 1 .. Len(args) - n + 1 |->
                    (IF j > 1 THEN comma ELSE << >>) \o args[n - 1 + j]]
    IN  IF m.va THEN SubSeq(args, 1, n - 1) \o <<FlattenSeq(dots)>> ELSE args

Spelled(ts) == FlattenSeq([i \in DOMAIN ts |-> ts[i].s])
Quote(ts) ==
    LET text == Spelled(ts)
    IN  <<"\"">> \o [i \in DOMAIN text |-> IF text[i] = "\"" THEN "\\\"" ELSE text[i]] \o <<"\"">>

\* The body with its parameters replaced: by what the arguments are beside #
\* and ##, by what they become elsewhere.
Replaced(m, raw, full, name) ==
    LET body == m.body
        param(i) == Max({j \in DOMAIN m.params : i \in DOMAIN body /\ m.params[j] = body[i].s} \cup {0})
        quoted(i) == IsToken(body, i, "#") /\ param(i + 1) > 0
        pasted(i) == IsToken(body, i - 1, "##") \/ IsToken(body, i + 1, "##")
        here(s) == [s |-> s, row |-> name.row, file |-> name.file]
        put(i) == IF quoted(i) THEN <<here(Quote(raw[param(i + 1)]))>>
                  ELSE IF quoted(i - 1) THEN << >>
                  ELSE IF param(i) = 0 THEN <<here(body[i].s)>>
                  ELSE LET ts == IF pasted(i) THEN raw[param(i)] ELSE full[param(i)]
                       IN  [k \in DOMAIN ts |-> here(ts[k].s)]
        join(ts, us) == IF ts = << >> \/ us = << >> THEN ts \o us
                        ELSE Front(ts) \o <<here(Last(ts).s \o us[1].s)>> \o Tail(us)
        step(ts, i) == IF IsToken(body, i, "##") THEN ts
                       ELSE IF IsToken(body, i - 1, "##") THEN join(ts, put(i))
                       ELSE ts \o put(i)
    IN  FoldLeftDomain(step, << >>, body)

\* Every macro replaced, from left to right; what replaces one is read again
\* with what follows.
RECURSIVE Expanded(_, _)
Expanded(ts, macros) ==
    LET called(i) == /\ ts[i].s \in DOMAIN macros
                     /\ macros[ts[i].s].fn => IsToken(ts, i + 1, "(")
        i == FirstWhere(Len(ts), called)
        m == macros[ts[i].s]
        raw == IF m.fn THEN Bound(m, Arguments(ts, i + 1)) ELSE << >>
        full == [j \in DOMAIN raw |-> Expanded(raw[j], macros)]
        rest == SubSeq(ts, (IF m.fn THEN CloseOf(ts, i + 1) ELSE i) + 1, Len(ts))
    IN  IF i > Len(ts) THEN ts
        ELSE SubSeq(ts, 1, i - 1) \o Expanded(Replaced(m, raw, full, ts[i]) \o rest, macros)

\* The names that stand for places are replaced where they stand.
Placed(ts) ==
    [i \in DOMAIN ts |->
        CASE ts[i].s = <<"__LINE__">> -> [ts[i] EXCEPT !.s = Number(ts[i].row)]
          [] ts[i].s = <<"__FILE__">> ->
                [ts[i] EXCEPT !.s = <<"\"", ts[i].file[1], "/", ts[i].file[2], "\"">>]
          [] OTHER -> ts[i]]

-----------------------------------------------------------------------------
\* The value of a condition: cut at its loosest operator, the last of them.
Loosest == << {","}, {"||"}, {"&&"}, {"|"}, {"^"}, {"&"}, {"==", "!="},
              {"<", ">", "<=", ">="}, {"<<", ">>"}, {"+", "-"}, {"*", "/", "%"} >>
Truthful(b) == IF b THEN 1 ELSE 0
Divided(a, b) == CHOOSE q \in -a .. a \cup a .. -a :
                    LET r == a - b * q IN r * r < b * b /\ (r = 0 \/ (r < 0) = (a < 0))
Meant(op, a, b) ==
    CASE op = "," -> b
      [] op = "||" -> IF a = 0 THEN Truthful(b # 0) ELSE 1
      [] op = "&&" -> IF a = 0 THEN 0 ELSE Truthful(b # 0)
      [] op = "|" -> a | b [] op = "^" -> a ^^ b [] op = "&" -> a & b
      [] op = "==" -> Truthful(a = b) [] op = "!=" -> Truthful(a # b)
      [] op = "<" -> Truthful(a < b) [] op = ">" -> Truthful(b < a)
      [] op = "<=" -> Truthful(~(b < a)) [] op = ">=" -> Truthful(~(a < b))
      [] op = "<<" -> a * 2^b [] op = ">>" -> a \div 2^b
      [] op = "+" -> a + b [] op = "-" -> a - b [] op = "*" -> a * b
      [] op = "/" -> Divided(a, b) [] op = "%" -> a - b * Divided(a, b)

RECURSIVE ValueOf(_)
ValueOf(es) ==
    LET n == Len(es)
        operand(i) == i \in 1..n /\ (es[i] = <<")">> \/ es[i][1] \in Digit \/ IsName(es[i]))
        depth(i) == Cardinality({k \in 1..i : es[k] = <<"(">>})
                    - Cardinality({k \in 1..i : es[k] = <<")">>})
        binary(i, level) == es[i][1] \in Loosest[level] /\ depth(i) = 0 /\ operand(i - 1)
        levels == {l \in DOMAIN Loosest : \E i \in 1..n : binary(i, l)}
        at == Max({i \in 1..n : binary(i, Min(levels))})
        sub == ValueOf(Tail(es))
    IN  IF levels # {}
        THEN Meant(es[at][1], ValueOf(SubSeq(es, 1, at - 1)), ValueOf(SubSeq(es, at + 1, n)))
        ELSE IF es[1] = <<"(">> THEN ValueOf(SubSeq(es, 2, n - 1))
        ELSE CASE es[1] = <<"-">> -> -sub
               [] es[1] = <<"+">> -> sub
               [] es[1] = <<"!">> -> Truthful(sub = 0)
               [] es[1] = <<"~">> -> -sub - 1
               [] es[1][1] \in Digit -> NumberOf(es[1])
               [] OTHER -> 0

\* `defined X` and `defined(X)` are decided before macros are replaced.
RECURSIVE Decided(_, _)
Decided(ts, macros) ==
    LET i == FirstWhere(Len(ts), LAMBDA k : ts[k].s = <<"defined">>)
        open == IsToken(ts, i + 1, "(")
        name == ts[IF open THEN i + 2 ELSE i + 1].s
        known == [ts[i] EXCEPT !.s = Number(Truthful(name \in DOMAIN macros))]
    IN  IF i > Len(ts) THEN ts
        ELSE SubSeq(ts, 1, i - 1) \o <<known>>
               \o Decided(SubSeq(ts, i + (IF open THEN 4 ELSE 2), Len(ts)), macros)

Holds(t, row, file, macros) ==
    LET ts == Expanded(Decided(Placed(TokensIn(t, row, file)), macros), macros)
    IN  ValueOf([i \in DOMAIN ts |-> ts[i].s]) # 0

-----------------------------------------------------------------------------
\* Lines that belong together; the words of the lines that are directives, a
\* line in a comment being none.
TextOf(rows, i, j) ==
    FlattenSeq([k \in 1 .. j - i + 1 |->
        LET t == rows[i + k - 1] IN IF Spliced(t) THEN Front(t) ELSE Append(t, NewLine)])
Words(rows) ==
    [i \in DOMAIN rows |-> IF Unclosed(TextOf(rows, 1, i - 1)) THEN "" ELSE Directive(rows[i]).word]

\* Sections: how deep a line stands, and which section it belongs to.
Opens == {"if", "ifdef", "ifndef"}
Level(ws, i) ==
    Cardinality({j \in 1 .. i - 1 : ws[j] \in Opens}) - Cardinality({j \in 1 .. i - 1 : ws[j] = "endif"})
Encloses(ws, j, i) == ws[j] \in Opens /\ \A m \in j + 1 .. i : Level(ws, m) > Level(ws, j)
Branches(ws, j) ==
    {j} \cup {m \in j + 1 .. Len(ws) : /\ ws[m] \in {"elif", "else"}
                                       /\ Encloses(ws, j, m)
                                       /\ Level(ws, m) = Level(ws, j) + 1}
Around(ws, i) == {j \in 1 .. i - 1 : Encloses(ws, j, i)}

WellNested(ws) ==
    /\ Level(ws, Len(ws) + 1) = 0
    /\ \A i \in DOMAIN ws :
        /\ Level(ws, i + 1) >= 0
        /\ ws[i] \in {"elif", "else"} => Around(ws, i) # {}
        /\ ws[i] \in Opens =>
              \A m \in Branches(ws, i) : ws[m] = "else" => m = Max(Branches(ws, i))

\* A line counts if in every section around it the branch it stands in was
\* taken; a branch can be if none before it was.
Counts(ws, i, taken) ==
    \A j \in Around(ws, i) :
        LET before == {b \in Branches(ws, j) : b < i}
        IN  IF i \in Branches(ws, j) THEN \A b \in before : b \notin taken
            ELSE Max(before) \in taken

\* A text goes on while a comment or a call is open.
Complete(t, macros) ==
    LET ts == TokensIn(t, 1, "")
        last == IF ts = << >> THEN << >> ELSE Last(ts).s
    IN  /\ ~Unclosed(t)
        /\ last \in DOMAIN macros => ~macros[last].fn
        /\ DepthAfter(ts, 1, Len(ts)) <= 0
GroupEnd(rows, i, macros) ==
    FirstWhere(Len(rows) - 1, LAMBDA j :
        j >= i /\ ~Spliced(rows[j]) /\ Complete(TextOf(rows, i, j), macros))

Found(program, file, arg) ==
    LET dirs == (IF arg[1] = <<"<">> THEN << >> ELSE <<file[1]>>) \o program.dirs
        here == FirstWhere(Len(dirs), LAMBDA i : <<dirs[i], arg[2][1]>> \in DOMAIN program.files)
    IN  IF here > Len(dirs) THEN << >> ELSE <<dirs[here], arg[2][1]>>

\* The state of a reading: tokens so far, macros, files not to read again.
\* taken are the branches taken in the file.
RECURSIVE ReadFrom(_, _, _, _, _)
ReadFile(program, file, st) ==
    IF WellNested(Words(program.files[file])) THEN ReadFrom(program, file, 1, {}, st)
    ELSE [st EXCEPT !.ok = FALSE]

ReadFrom(program, file, i, taken, st) ==
    LET rows == program.files[file]
        d == Directive(Joined(rows, i))
        name == At(d.arg, 1)
        branch == d.is /\ d.word \in Opens \cup {"elif", "else"}
        counts == Counts(Words(rows), i, taken)
        holds == CASE d.word = "ifdef" -> name \in DOMAIN st.macros
                   [] d.word = "ifndef" -> name \notin DOMAIN st.macros
                   [] d.word = "else" -> TRUE
                   [] d.word \in {"if", "elif"} -> Holds(d.arg, i, file, st.macros)
        end == IF counts /\ ~d.is THEN GroupEnd(rows, i, st.macros) ELSE LastRow(rows, i)
        text == Expanded(Placed(TokensIn(TextOf(rows, i, end), i, file)), st.macros)
        found == Found(program, file, d.arg)
        defn == Definition(d.arg)
        read ==
            CASE ~counts \/ branch \/ d.word = "endif" -> st
              [] counts /\ ~d.is -> [st EXCEPT !.toks = @ \o text,
                                              !.ok = ~\E k \in DOMAIN text : text[k].s = Splice]
              [] counts /\ d.is /\ d.word = "define" -> [st EXCEPT !.macros = (defn.name :> defn) @@ @]
              [] counts /\ d.is /\ d.word = "undef" ->
                    [st EXCEPT !.macros = [n \in DOMAIN @ \ {name} |-> @[n]]]
              [] counts /\ d.is /\ d.word = "pragma" ->
                    [st EXCEPT !.once = IF name = <<"once">> THEN @ \cup {file} ELSE @]
              [] counts /\ d.is /\ d.word = "include" ->
                    IF found \in st.once THEN st
                    ELSE IF found # << >> THEN ReadFile(program, found, st)
                    ELSE [st EXCEPT !.ok = FALSE]
              [] OTHER -> [st EXCEPT !.ok = FALSE]
    IN  IF ~st.ok \/ i > Len(rows) THEN st
        ELSE ReadFrom(program, file, end + 1,
                      IF branch /\ counts /\ holds THEN taken \cup {i} ELSE taken, read)

Meaning(program) ==
    FoldLeft(LAMBDA st, file : ReadFile(program, file, st),
             [ok |-> TRUE, toks |-> << >>, once |-> {},
              macros |-> [n \in DOMAIN program.defs |->
                             [name |-> n, fn |-> FALSE, va |-> FALSE, params |-> << >>,
                              body |-> TokensIn(program.defs[n], 0, "")]]],
             program.inputs)
=============================================================================
