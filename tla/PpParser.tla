------------------------------ MODULE PpParser ------------------------------
(***************************************************************************)
(* Macros (src/cpp/macro.c), the arguments of a call and the conditions of *)
(* #if and #elif (src/cpp/pp_parser.c), and how the body of a macro is cut *)
(* into segments (parse_macro_body and handle_define of                    *)
(* src/cpp/preprocessor.c).  Where the program gives up, ok is FALSE.      *)
(***************************************************************************)
EXTENDS CppText, Bitwise

VaArgs == <<"__VA_ARGS__">>

\* table_get: a name that is in the table of macros may have NULL there.
NULL == [null |-> TRUE]
TableGet(macros, name) == IF name \in DOMAIN macros THEN macros[name] ELSE NULL

-----------------------------------------------------------------------------
\* A macro has parameters (fn) or none, and the segments of its body: pieces
\* of text, parameters and parameters to stringify, or the buffer that a
\* preprocess keeps its line number in.
Simple(text) ==
    [fn |-> FALSE, params |-> << >>, va |-> FALSE,
     segs |-> [i \in DOMAIN text |-> <<"text", text[i]>>]]
LineBuffer(n) == [Simple(<< >>) EXCEPT !.segs = <<<<"buffer", Number(n)>>>>]
IsBuffer(m) == m # NULL /\ \E i \in DOMAIN m.segs : m.segs[i][1] = "buffer"

\* The number of the parameter that k names, 0 for none; after the others
\* comes what the dots stand for.
ParamOf(k, params, va) ==
    IF va /\ k = VaArgs THEN Len(params) + 1
    ELSE Min({j \in DOMAIN params : params[j] = k} \cup {Len(params) + 1}) % (Len(params) + 1)

\* parse_macro_body: what piece q of the body gives.  A # takes the name
\* behind it along; ## drops the blanks around it.
SegmentsAt(t, toks, params, va, q) ==
    LET prev == Max({k \in toks : k < q} \cup {0})
        next == Min({k \in toks : k > q} \cup {Len(t) + 1})
        shown == ParamOf(At(t, next), params, FALSE)
        named == ParamOf(t[q], params, va)
        taken == At(t, prev) = <<"#">> /\ IsName(t[q])
        dropped == \/ next > Len(t)
                   \/ At(t, next) = <<"##">>
                   \/ At(t, prev) = <<"##">> /\ \A k \in prev + 1 .. q : t[k] \in Blanks
                   \/ At(t, prev) = <<"#">> /\ shown > 0
    IN  IF q \notin toks THEN IF dropped THEN << >> ELSE <<<<"text", t[q]>>>>
        ELSE IF t[q] = <<"##">> THEN << >>
        ELSE IF t[q] = <<"#">> /\ shown > 0 THEN <<<<"stringify", shown>>>>
        ELSE IF taken /\ ParamOf(t[q], params, FALSE) > 0 THEN << >>
        ELSE IF named > 0 /\ ~taken THEN <<<<"param", named>>>>
        ELSE <<<<"text", t[q]>>>>

ParseMacroBody(t, params, va) ==
    Once(TokensOf(t), LAMBDA toks :
        FlattenSeq(<< >> \o [q \in DOMAIN t |-> SegmentsAt(t, toks, params, va, q)]))

\* handle_define's parameters: names and commas up to the parenthesis, the
\* dots last.  toks are where the tokens of t are.
Parameters(t, toks) ==
    LET token(i) == t[toks[i]]
        close == Min({i \in DOMAIN toks : token(i) = <<")">>} \cup {Len(toks) + 1})
        dots == close > 1 /\ close <= Len(toks) /\ token(close - 1) = <<"...">>
        listed == IF dots THEN (close \div 2) - 1 ELSE close \div 2
    IN  [ok |-> /\ close <= Len(toks) /\ (close % 2 = 0 \/ close = 1)
                /\ \A i \in 1..listed : IsName(token(2 * i - 1))
                /\ \A i \in 1 .. ((close \div 2) - 1) : token(2 * i) = <<",">>,
         params |-> [i \in 1..listed |-> token(2 * i - 1)],
         va |-> dots,
         rest |-> IF close <= Len(toks) THEN From(t, toks[close] + 1) ELSE << >>]

\* handle_define: with parameters if the parenthesis touches the name.
Defined(t) ==
    LET heads == IF At(t, 2) = <<"(">>
                 THEN {Parameters(From(t, 3), Ascending(TokensOf(From(t, 3)), Len(t)))}
                 ELSE {[ok |-> TRUE, params |-> << >>, va |-> FALSE, rest |-> From(t, 2)]}
        macro(p) ==
            LET body == From(p.rest, NonBlank(p.rest, 1))
            IN  [ok |-> IsName(At(t, 1)) /\ p.ok /\ ~Unclosed(body),
                 name |-> At(t, 1),
                 macro |-> [fn |-> At(t, 2) = <<"(">>, params |-> p.params, va |-> p.va,
                            segs |-> ParseMacroBody(body, p.params, p.va)]]
    IN  CHOOSE m \in {macro(p) : p \in heads} : TRUE

-----------------------------------------------------------------------------
\* pp_funargs: the arguments of a call.  rows are the text after the macro's
\* name and the lines behind it, refs where their tokens are; read is how many
\* of the lines were taken, left the text that remains of the last.  Without a
\* parenthesis there is no call.
ArgsFrom(rows, refs) ==
    LET token(i) == rows[refs[i][1]][refs[i][2]]
        depth(i) == Cardinality({j \in 1..i : token(j) = <<"(">>})
                    - Cardinality({j \in 1..i : token(j) = <<")">>})
        close == Min({i \in DOMAIN refs : depth(i) = 0} \cup {Len(refs) + 1})
        cuts == Ascending({i \in 2..close : i = close \/ (token(i) = <<",">> /\ depth(i) = 1)}, close)
        from(j) == IF j = 1 THEN 2 ELSE cuts[j - 1] + 1
        passed(n) == \A r \in 1 .. n - 1 : ~Unclosed(rows[r])
        none(n, p) == [call |-> FALSE, ok |-> passed(n), args |-> << >>,
                       read |-> n - 1, left |-> From(rows[n], p)]
        \* A line gives what lies between its first and last tokens.
        span(j, r) ==
            LET here == {i \in from(j) .. cuts[j] - 1 : refs[i][1] = r}
            IN  IF here = {} THEN << >>
                ELSE SubSeq(rows[r], refs[Min(here)][2], refs[Max(here)][2])
        arg(j) ==
            LET first == refs[from(j)][1]
                last == refs[cuts[j]][1]
            IN  FlattenSeq([r \in 1 .. last - first + 1 |->
                    span(j, first + r - 1) \o IF first + r - 1 < last THEN <<NewLine>> ELSE << >>])
        empty == close = 2
    IN  IF refs = << >> THEN [none(Len(rows), Len(Last(rows)) + 1) EXCEPT !.ok = @ /\ ~Unclosed(Last(rows))]
        ELSE IF token(1) # <<"(">> THEN none(refs[1][1], refs[1][2])
        ELSE IF close > Len(refs) THEN [none(1, 1) EXCEPT !.ok = FALSE]
        ELSE [call |-> TRUE,
              ok |-> passed(refs[close][1])
                     /\ (empty \/ \A j \in DOMAIN cuts : from(j) < cuts[j]),
              args |-> IF empty THEN << >> ELSE << >> \o [j \in DOMAIN cuts |-> arg(j)],
              read |-> refs[close][1] - 1,
              left |-> From(rows[refs[close][1]], refs[close][2] + 1)]

PpFunargs(rows) ==
    Once(FlattenSeq([r \in DOMAIN rows |->
            LET toks == Ascending(TokensOf(rows[r]), Len(rows[r]))
            IN  [i \in DOMAIN toks |-> <<r, toks[i]>>]]),
         LAMBDA refs : ArgsFrom(rows, refs))

NoCall(t) == [call |-> FALSE, ok |-> TRUE, args |-> << >>, read |-> 0, left |-> t]
CallOf(m, t, behind) ==
    IF m.fn THEN PpFunargs(<<t>> \o [j \in DOMAIN behind |-> Append(behind[j], NewLine)])
    ELSE NoCall(t)

\* expand: the text that a call becomes.  The arguments go in as they are.
FitsParams(m, args) ==
    IF m.va THEN Len(args) > Len(m.params) ELSE Len(args) = Len(m.params)

Stringified(t) ==
    LET s == FlattenSeq(t)
    IN  <<"\"">> \o [i \in DOMAIN s |-> IF s[i] = "\"" THEN "\\\"" ELSE s[i]] \o <<"\"">>

\* What the dots stand for, with its commas.
VaText(m, args) ==
    LET n == Len(m.params)
    IN  FlattenSeq([j \in 1 .. Len(args) - n |->
            (IF j > 1 THEN <<<<",">>>> ELSE << >>) \o args[n + j]])

Expand(m, args) ==
    LET arg(n) == IF n > Len(m.params) THEN VaText(m, args) ELSE args[n]
        put(seg) == CASE seg[1] \in {"text", "buffer"} -> <<seg[2]>>
                      [] seg[1] = "param" -> arg(seg[2])
                      [] seg[1] = "stringify" -> <<Stringified(arg(seg[2]))>>
    IN  FlattenSeq([i \in DOMAIN m.segs |-> put(m.segs[i])])

-----------------------------------------------------------------------------
\* pp_expr: a parser that computes.  t is the text left, v the value of what
\* was read.
Binary == << {"*", "/", "%"}, {"+", "-"}, {"<<", ">>"}, {"<", ">", "<=", ">="}, {"==", "!="},
             {"&"}, {"^"}, {"|"}, {"&&"}, {"||"}, {","} >>
LogAnd == 9

Truth(b) == IF b THEN 1 ELSE 0
Quotient(a, b) ==
    LET q == (IF a < 0 THEN -a ELSE a) \div (IF b < 0 THEN -b ELSE b)
    IN  IF (a < 0) = (b < 0) THEN q ELSE -q
Apply(op, a, b) ==
    CASE op = "*" -> a * b
      [] op = "/" -> Quotient(a, b)
      [] op = "%" -> a - b * Quotient(a, b)
      [] op = "+" -> a + b
      [] op = "-" -> a - b
      [] op = "<<" -> a * 2^b
      [] op = ">>" -> a \div 2^b
      [] op = "<" -> Truth(a < b)
      [] op = ">" -> Truth(a > b)
      [] op = "<=" -> Truth(a <= b)
      [] op = ">=" -> Truth(a >= b)
      [] op = "==" -> Truth(a = b)
      [] op = "!=" -> Truth(a # b)
      [] op = "&" -> a & b
      [] op = "^" -> a ^^ b
      [] op = "|" -> a | b
      [] op = "&&" -> Truth(a # 0 /\ b # 0)
      [] op = "||" -> Truth(a # 0 \/ b # 0)
      [] op = "," -> b
Negated(op, a) ==
    CASE op = "+" -> a [] op = "-" -> -a [] op = "!" -> Truth(a = 0) [] op = "~" -> -a - 1

Peek(s) == At(s.t, First(s.t))
Shifted(s) == [s EXCEPT !.t = From(@, First(@) + 1)]
Consume(s, token) == [Shifted(s) EXCEPT !.ok = @ /\ Peek(s) = token]

\* parse_defined
ParseDefined(s, macros) ==
    LET open == Peek(s) = <<"(">>
        named == IF open THEN Shifted(s) ELSE s
        after == [Shifted(named) EXCEPT !.ok = @ /\ IsName(Peek(named)),
                                        !.v = Truth(Peek(named) \in DOMAIN macros)]
    IN  IF open THEN Consume(after, <<")">>) ELSE after

\* What a binary operator makes of the value before it and what follows.
Combined(op, v, rhs) ==
    IF op \in {"/", "%"} /\ rhs.v = 0 THEN [rhs EXCEPT !.ok = FALSE]
    ELSE [rhs EXCEPT !.v = Apply(op, v, @)]

\* expand_ident: what a name becomes is put before the rest and read again; a
\* macro that wants arguments and has none vanishes, and if the text ends
\* there the program reads a stream that is not there.
Substituted(s, m, call) ==
    [s EXCEPT !.t = Fused((IF m.fn /\ ~call.call THEN << >> ELSE Expand(m, call.args)) \o call.left),
              !.ok = @ /\ call.ok /\ (call.call => FitsParams(m, call.args))
                     /\ (m.fn => call.call \/ call.left # << >>)]

\* The operators of a level, from left to right; && takes all that follows on
\* its level to its right.
Operand(level) == IF level = LogAnd THEN LogAnd ELSE level - 1

RECURSIVE PpLevel(_, _, _), PpMore(_, _, _), PpPrim(_, _)
PpLevel(level, s, macros) ==
    IF level = 0 THEN PpPrim(s, macros)
    ELSE Once(PpLevel(level - 1, s, macros), LAMBDA lhs : PpMore(level, lhs, macros))

PpMore(level, lhs, macros) ==
    LET op == Peek(lhs)[1]
    IN  IF ~lhs.ok \/ op \notin Binary[level] THEN lhs
        ELSE Once(PpLevel(Operand(level), Shifted(lhs), macros),
                  LAMBDA rhs : PpMore(level, Combined(op, lhs.v, rhs), macros))

PpPrim(s, macros) ==
    LET token == Peek(s)
        rest == Shifted(s)
    IN  IF ~s.ok THEN s
        ELSE IF token[1] \in {"+", "-", "!", "~"}
        THEN Once(PpPrim(rest, macros), LAMBDA sub : [sub EXCEPT !.v = Negated(token[1], @)])
        ELSE IF token = <<"(">>
        THEN Consume(PpLevel(Len(Binary), rest, macros), <<")">>)
        ELSE IF IsNumber(token) THEN [rest EXCEPT !.v = NumberOf(token)]
        ELSE IF token = <<"defined">> THEN ParseDefined(rest, macros)
        ELSE IF ~IsName(token) THEN [s EXCEPT !.ok = FALSE]
        ELSE IF TableGet(macros, token) = NULL THEN [rest EXCEPT !.v = 0]
        ELSE Once(CallOf(macros[token], rest.t, << >>),
                  LAMBDA call : PpPrim(Substituted(s, macros[token], call), macros))

PpExpr(t, macros) ==
    PpLevel(Len(Binary), [t |-> t, v |-> 0, ok |-> ~Unclosed(t)], macros)
=============================================================================
