------------------------------ MODULE CppText -------------------------------
(***************************************************************************)
(* The text the preprocessor works on, and the tokens its lexer finds in   *)
(* it (src/cc/lexer.c).                                                    *)
(*                                                                         *)
(* A text is a sequence of pieces: tokens, blanks and the marks of         *)
(* comments.  A piece is a sequence of fragments; a token of more than one *)
(* is a name, a number or a string, and text put together from others can  *)
(* have tokens that none of them had.                                      *)
(***************************************************************************)
EXTENDS Integers, SequencesExt

\* What F makes of a value that is computed once.
Once(v, F(_)) == CHOOSE y \in {F(x) : x \in {v}} : TRUE

Space == <<" ">>
NewLine == <<"\n">>
Blanks == {Space, NewLine}
Open == <<"/*">>
Close == <<"*/">>
LineComment == <<"//">>
Splice == <<"\\">>

Digit == {"0", "1", "2", "3", "4", "5", "6", "7", "8", "9"}
Punctuation ==
    {"(", ")", ",", "#", "##", "...", "+", "-", "*", "/", "%", "<<", ">>", "<", ">",
     "<=", ">=", "==", "!=", "&", "^", "|", "&&", "||", "!", "~", ";", "\"",
     "/*", "*/", "//", "\\", " ", "\n"}
IsNumber(k) == k[1] \in Digit
IsString(k) == k[1] = "\""
IsName(k) == k[1] \notin Digit \cup Punctuation

\* A piece of a text, a blank where it has none.
At(t, i) == IF i \in DOMAIN t THEN t[i] ELSE NewLine
From(t, p) == SubSeq(t, p, Len(t))
NonBlank(t, p) == Min({q \in p .. Len(t) : t[q] \notin Blanks} \cup {Len(t) + 1})
Ascending(S, n) == SelectSeq([i \in 1..n |-> i], LAMBDA i : i \in S)

\* The token of a number and the number of a token.
Number(n) == (IF n < 10 THEN << >> ELSE <<ToString(n \div 10)>>) \o <<ToString(n % 10)>>
NumberOf(k) ==
    MapThenSumSet(LAMBDA i : (CHOOSE d \in 0..9 : ToString(d) = k[i]) * 10^(Len(k) - i), DOMAIN k)

\* The pieces that get_token finds: what skip_whitespace_or_comment leaves.
Commented(t, i) == \E q \in 1..i : t[q] = Open /\ \A r \in q .. i - 1 : t[r] # Close
LineCommented(t, i) ==
    \E q \in 1..i : /\ t[q] = LineComment /\ ~Commented(t, q)
                    /\ \A r \in q..i : t[r] # NewLine
TokensOf(t) ==
    {i \in DOMAIN t : t[i] \notin Blanks /\ ~Commented(t, i) /\ ~LineCommented(t, i)}
First(t) == Min(TokensOf(t) \cup {Len(t) + 1})

\* A comment that the text does not close: a lexer that gets there gives up.
Unclosed(t) ==
    \E q \in DOMAIN t : t[q] = Open /\ ~LineCommented(t, q) /\ \A r \in q .. Len(t) : t[r] # Close

\* Pieces that touch are one token.
Touch(a, b) ==
    \/ IsName(a) /\ (IsName(b) \/ IsNumber(b))
    \/ IsNumber(a) /\ IsNumber(b)
    \/ a = b /\ a \in {<<"+">>, <<"-">>, <<"&">>, <<"|">>}
Fused(t) ==
    Once(Ascending({i \in DOMAIN t : i = Len(t) \/ ~Touch(t[i], t[i + 1])}, Len(t)),
         LAMBDA ends :
            << >> \o [n \in DOMAIN ends |->
                FlattenSeq(SubSeq(t, IF n = 1 THEN 1 ELSE ends[n - 1] + 1, ends[n]))])

\* A file is a sequence of lines; one that ends in a backslash goes on in the
\* next.
Spliced(t) == t # << >> /\ Last(t) = Splice
LastRow(rows, i) == Min({j \in i .. Len(rows) : j = Len(rows) \/ ~Spliced(rows[j])})
Joined(rows, i) ==
    FlattenSeq([j \in 1 .. LastRow(rows, i) - i + 1 |->
                   LET t == rows[i + j - 1] IN IF Spliced(t) THEN Front(t) ELSE t])

\* find_directive and keyword: the word after the # that starts a line, and
\* the text it is about.
Directive(t) ==
    LET hash == NonBlank(t, 1)
        word == NonBlank(t, hash + 1)
    IN  [is |-> At(t, hash) = <<"#">>,
         word |-> IF At(t, word + 1) \in Blanks THEN At(t, word)[1] ELSE "",
         arg |-> From(t, NonBlank(t, word + 1))]

=============================================================================
