---------------------------- MODULE Preprocessor ----------------------------
(***************************************************************************)
(* The preprocessor (src/cpp/preprocessor.c and cpp.c): it reads files     *)
(* line by line, carries out directives, expands macros and writes lines   *)
(* with markers that say where they come from.                             *)
(*                                                                         *)
(* A program is a record of files (a function from their names, which are  *)
(* pairs <<directory, name>>, to the lines), the inputs named on the       *)
(* command line, the -I directories and the -D macros.                     *)
(***************************************************************************)
EXTENDS PpParser, CppMeaning

CONSTANT Programs

VARIABLES
    prog,               \* the files, inputs, dirs and defs that cpp is given
    input,              \* the inputs opened so far
    streams,            \* one for each call of preprocess, the innermost last
    macro_table,
    pragma_once_files,
    out,                \* what is written: text behind the markers [n, file]
    phase,              \* what the innermost preprocess is doing
    line,               \* the directive, or the text that process_line has left
    pending,            \* from `begin`, where it still has to write, to there
    lost                \* `begin` is in a line that was left for another

vars == <<prog, input, streams, macro_table, pragma_once_files, out, phase, line, pending, lost>>

FileMacro == <<"__FILE__">>
LineMacro == <<"__LINE__">>
Quoted(file) == Simple(<<<<"\"", file[1], "/", file[2], "\"">>>>)

Top == Last(streams)
Rows == prog.files[Top.file]
SetTop(s) == streams' = [streams EXCEPT ![Len(streams)] = s]
Write(text) == out' = [out EXCEPT ![Len(out)].text = @ \o text]
Mark(n, file) == [n |-> n, file |-> file, text |-> << >>]
Line(word, t) == [word |-> word, t |-> t]

With(name, m) == (name :> m) @@ macro_table
Without(name, table) == [n \in DOMAIN table \ {name} |-> table[n]]
IsMacro(name) == TableGet(macro_table, name) # NULL

\* The two macros that every call of preprocess defines for itself: the line
\* number is a buffer that the loop writes.
PlaceMacros(file) == (FileMacro :> Quoted(file)) @@ (LineMacro :> LineBuffer(0)) @@ macro_table
Renumbered(n) ==
    [name \in DOMAIN macro_table |->
        IF IsBuffer(macro_table[name]) THEN LineBuffer(n) ELSE macro_table[name]]

\* What preprocess sets up when it is called.
Opened(file) ==
    [file |-> file, read |-> 0, lineno |-> 0, conds |-> << >>, enable |-> TRUE, satisfy |-> 0,
     oldFile |-> TableGet(macro_table, FileMacro), oldLine |-> TableGet(macro_table, LineMacro)]

Init ==
    /\ prog \in Programs
    /\ input = 0
    /\ streams = << >>
    /\ macro_table = [name \in DOMAIN prog.defs |-> Simple(prog.defs[name])]
    /\ pragma_once_files = {}
    /\ out = << >>
    /\ phase = "open"
    /\ line = Line("", << >>)
    /\ pending = << >>
    /\ lost = FALSE

\* main opens the next input.
OpenInput ==
    /\ phase = "open" /\ input < Len(prog.inputs)
    /\ input' = input + 1
    /\ LET file == prog.inputs[input']
       IN  /\ streams' = <<Opened(file)>>
           /\ macro_table' = PlaceMacros(file)
           /\ out' = Append(out, Mark(1, file))
    /\ phase' = "read"
    /\ UNCHANGED <<prog, pragma_once_files, line, pending, lost>>

Finish ==
    /\ phase = "open" /\ input = Len(prog.inputs)
    /\ phase' = "done"
    /\ UNCHANGED <<prog, input, streams, macro_table, pragma_once_files, out, line, pending, lost>>

-----------------------------------------------------------------------------
\* The body of preprocess's loop up to the directive.
ReadLine ==
    /\ phase = "read" /\ Top.read < Len(Rows)
    /\ \E last \in {LastRow(Rows, Top.read + 1)}, text \in {Joined(Rows, Top.read + 1)} :
       \E d \in {Directive(text)} :
           /\ SetTop([Top EXCEPT
                  !.read = last,
                  !.lineno = @ + 1 + Cardinality({j \in Top.read + 1 .. last : Spliced(Rows[j])})])
           /\ IF d.is
              THEN /\ phase' = "directive" /\ line' = Line(d.word, d.arg)
                   /\ Write(<<NewLine>>)
              ELSE IF Top.enable
              THEN /\ phase' = "text" /\ line' = Line("", text)
                   /\ UNCHANGED out
              ELSE /\ Write(<<NewLine>>)
                   /\ UNCHANGED <<phase, line>>
    /\ macro_table' = Renumbered(Top.lineno + 1)
    /\ pending' = << >> /\ lost' = FALSE
    /\ UNCHANGED <<prog, input, pragma_once_files>>

Fail ==
    /\ phase' = "error"
    /\ UNCHANGED <<prog, input, streams, macro_table, pragma_once_files, out, line, pending, lost>>

\* The loop is over: the two macros are what they were (where there were none
\* the names stay in the table), and handle_include and the directive it
\* serves write where reading goes on.
ResumeLineHere(s) == s.lineno
ResumeLine(s) == s.lineno + 1

EndFile ==
    /\ phase = "read" /\ Top.read = Len(Rows)
    /\ IF Top.conds # << >> THEN Fail
       ELSE /\ macro_table' = (LineMacro :> Top.oldLine) @@ (FileMacro :> Top.oldFile) @@ macro_table
            /\ streams' = Front(streams)
            /\ IF Len(streams) = 1
               THEN phase' = "open" /\ UNCHANGED out
               ELSE /\ out' = out \o <<Mark(Top.lineno + 1, Top.file),
                                       Mark(ResumeLine(Last(streams')), Last(streams').file)>>
                    /\ UNCHANGED phase
            /\ UNCHANGED <<prog, input, pragma_once_files, line, pending, lost>>

-----------------------------------------------------------------------------
\* Directives.
Is(w) == phase = "directive" /\ line.word = w
Arg == line.t
Name == At(Arg, 1)

\* Back to the loop, with the conditions as s has them.
Conditions(s) ==
    /\ SetTop(s) /\ phase' = "read"
    /\ UNCHANGED <<prog, input, macro_table, pragma_once_files, out, line, pending, lost>>

Entered(s, holds) ==
    [s EXCEPT !.conds = Append(@, [enable |-> s.enable, satisfy |-> s.satisfy]),
              !.satisfy = Truth(holds), !.enable = @ /\ holds]

Ifdef ==
    /\ Is("ifdef") \/ Is("ifndef")
    /\ IF ~IsName(Name) THEN Fail
       ELSE Conditions(Entered(Top, IsMacro(Name) = (line.word = "ifdef")))

\* A branch is compiled if none before it was, it is wanted and the lines
\* around the section are compiled.
BranchAnywhere(s, holds) == ~s.enable /\ holds
Branch(s, holds) == ~s.enable /\ holds /\ Last(s.conds).enable

\* #if is evaluated wherever it stands, #elif unless a branch before it held.
If ==
    /\ \/ Is("if")
       \/ Is("elif") /\ Top.conds # << >> /\ Top.satisfy = 0
    /\ \E cond \in {PpExpr(Arg, macro_table)} :
       IF ~cond.ok THEN Fail
       ELSE Conditions(IF line.word = "if" THEN Entered(Top, cond.v # 0)
                       ELSE [Top EXCEPT !.satisfy = Truth(cond.v # 0),
                                        !.enable = Branch(Top, cond.v # 0)])

\* #elif after a branch that held, and #else.
OtherBranch ==
    /\ \/ Is("else")
       \/ Is("elif") /\ (Top.conds = << >> \/ Top.satisfy # 0)
    /\ IF Top.conds = << >> \/ Top.satisfy = 2 THEN Fail
       ELSE Conditions(IF line.word = "elif" THEN [Top EXCEPT !.enable = FALSE]
                       ELSE [Top EXCEPT !.enable = Branch(Top, Top.satisfy = 0), !.satisfy = 2])

Endif ==
    /\ Is("endif")
    /\ IF Top.conds = << >> THEN Fail
       ELSE LET flag == Last(Top.conds)
            IN  Conditions([Top EXCEPT !.enable = flag.enable, !.satisfy = flag.satisfy,
                                       !.conds = Front(@)])

\* Any other directive counts only where lines are compiled.
Conditional == {"ifdef", "ifndef", "if", "elif", "else", "endif"}
SkipDirective ==
    /\ phase = "directive" /\ line.word \notin Conditional /\ ~Top.enable
    /\ Conditions(Top)

\* The file that an #include means: next to the file it stands in, unless in
\* angle brackets, or in the first -I directory that has it.
Searched(name, sys) ==
    LET dirs == (IF sys THEN << >> ELSE <<Top.file[1]>>) \o prog.dirs
        hits == {i \in DOMAIN dirs : <<dirs[i], name>> \in pragma_once_files \cup DOMAIN prog.files}
    IN  IF hits = {} THEN << >> ELSE <<dirs[Min(hits)], name>>

Closing == (<<"\"">> :> <<"\"">>) @@ (<<"<">> :> <<">">>)

Include ==
    /\ Is("include") /\ Top.enable
    /\ IF Name \notin DOMAIN Closing \/ At(Arg, 3) # Closing[Name] THEN Fail
       ELSE \E file \in {Searched(Arg[2][1], Name = <<"<">>)} :
            IF file = << >> THEN Fail
            ELSE /\ phase' = "read"
                 /\ IF file \in pragma_once_files
                    THEN /\ out' = Append(out, Mark(ResumeLine(Top), Top.file))
                         /\ UNCHANGED <<streams, macro_table>>
                    ELSE /\ streams' = Append(streams, Opened(file))
                         /\ macro_table' = PlaceMacros(file)
                         /\ out' = Append(out, Mark(1, file))
                 /\ UNCHANGED <<prog, input, pragma_once_files, line, pending, lost>>

Back == phase' = "read" /\ UNCHANGED <<prog, input, streams, out, line, pending, lost>>

Define ==
    /\ Is("define") /\ Top.enable
    /\ \E d \in {Defined(Arg)} :
       IF ~d.ok THEN Fail
       ELSE macro_table' = With(d.name, d.macro) /\ Back /\ UNCHANGED pragma_once_files

Undef ==
    /\ Is("undef") /\ Top.enable
    /\ IF ~IsName(Name) THEN Fail
       ELSE macro_table' = Without(Name, macro_table) /\ Back /\ UNCHANGED pragma_once_files

\* A pragma other than once is only warned of.
Pragma ==
    /\ Is("pragma") /\ Top.enable
    /\ pragma_once_files' =
          IF Name = <<"once">> THEN pragma_once_files \cup {Top.file} ELSE pragma_once_files
    /\ Back /\ UNCHANGED macro_table

\* #error, and what is no directive.
Refuse ==
    /\ phase = "directive" /\ Top.enable
    /\ line.word \notin Conditional \cup {"include", "define", "undef", "pragma"}
    /\ Fail

-----------------------------------------------------------------------------
\* process_line.  In phase "token" the lexer is past the place where a comment
\* is looked for: it skips those to come, if they end on the line.  So it is in
\* phase "behind", behind a name that is no macro: match(-1) then takes the
\* next token, too, and no macro is looked for in it.
AtComment == phase = "text" /\ At(line.t, NonBlank(line.t, 1)) = Open
AtToken == phase \in {"text", "token", "behind"} /\ ~AtComment
Token == Peek(line)
AtMacro == phase # "behind" /\ IsMacro(Token)
Rest == From(line.t, First(line.t) + 1)
AtEnd == First(line.t) > Len(line.t)
Behind == SubSeq(Rows, Top.read + 1, Len(Rows))

\* handle_block_comment.  It reads lines with the ends they have, and adds
\* one to each that it writes.
Comment ==
    /\ AtComment
    /\ \E open \in {NonBlank(line.t, 1)} :
           /\ line' = [line EXCEPT !.t = From(@, open + 1)]
           /\ pending' = pending \o SubSeq(line.t, 1, open)
    /\ phase' = IF lost THEN "undefined" ELSE "comment"
    /\ UNCHANGED <<prog, input, streams, macro_table, pragma_once_files, out, lost>>

InComment ==
    /\ phase = "comment"
    /\ LET close == Min({q \in DOMAIN line.t : line.t[q] = Close} \cup {Len(line.t) + 1})
       IN  IF close <= Len(line.t)
           THEN /\ Write(pending \o SubSeq(line.t, 1, close))
                /\ line' = [line EXCEPT !.t = From(@, close + 1)]
                /\ phase' = "token"
                /\ UNCHANGED streams
           ELSE /\ Write(pending \o line.t \o <<NewLine>>)
                /\ IF Top.read = Len(Rows)
                   THEN /\ line' = [line EXCEPT !.t = << >>]
                        /\ phase' = "token"
                        /\ UNCHANGED streams
                   ELSE /\ line' = [line EXCEPT !.t = Append(Rows[Top.read + 1], NewLine)]
                        /\ SetTop([Top EXCEPT !.read = @ + 1, !.lineno = @ + 1])
                        /\ UNCHANGED phase
    /\ pending' = << >>
    /\ UNCHANGED <<prog, input, macro_table, pragma_once_files, lost>>

\* The lexer refuses a comment without an end, and a backslash.
Unread == (AtEnd /\ Unclosed(line.t)) \/ Token = Splice
RefuseText == AtToken /\ Unread /\ Fail

\* A token that is no macro stays as it is.
Passed ==
    /\ line' = [line EXCEPT !.t = Rest]
    /\ pending' = IF lost THEN pending ELSE pending \o SubSeq(line.t, 1, First(line.t))

PassToken ==
    /\ AtToken /\ ~AtEnd /\ ~Unread /\ ~AtMacro
    /\ Passed
    /\ phase' = IF IsName(Token) /\ phase # "behind" THEN "behind"
                ELSE IF IsString(Token) THEN "token" ELSE "text"
    /\ UNCHANGED <<prog, input, streams, macro_table, pragma_once_files, out, lost>>

\* A macro's name.  The text it becomes is put before what is left of the
\* line, and read again from its start.  A name that wants arguments and has
\* none stays, but if lines were read to find that out, the one at hand is
\* now another than the one that is pending.
ExpandMacro ==
    /\ AtToken /\ ~AtEnd /\ ~Unread /\ AtMacro
    /\ \E m \in {macro_table[Token]} :
       \E call \in {CallOf(m, Rest, Behind)} :
           LET read == [Top EXCEPT !.read = @ + call.read, !.lineno = @ + call.read]
           IN  IF ~call.ok \/ (call.call /\ ~FitsParams(m, call.args)) THEN Fail
               ELSE IF m.fn /\ ~call.call
               THEN /\ SetTop(read)
                    /\ phase' = "token"
                    /\ IF call.read = 0
                       THEN Passed /\ UNCHANGED lost
                       ELSE /\ line' = [line EXCEPT !.t = call.left]
                            /\ pending' = IF lost THEN pending ELSE pending \o line.t
                            /\ lost' = TRUE
                    /\ UNCHANGED <<prog, input, macro_table, pragma_once_files, out>>
               ELSE IF lost
               THEN /\ phase' = "undefined"
                    /\ UNCHANGED <<prog, input, streams, macro_table, pragma_once_files, out,
                                   line, pending, lost>>
               ELSE /\ SetTop(read)
                    /\ Write(pending \o SubSeq(line.t, 1, First(line.t) - 1))
                    /\ line' = [line EXCEPT !.t = Fused(Expand(m, call.args) \o call.left)]
                    /\ phase' = "text"
                    /\ pending' = << >>
                    /\ UNCHANGED <<prog, input, macro_table, pragma_once_files, lost>>

EndLine ==
    /\ AtToken /\ AtEnd /\ ~Unread
    /\ Write(pending \o (IF lost THEN << >> ELSE line.t) \o <<NewLine>>)
    /\ phase' = "read"
    /\ UNCHANGED <<prog, input, streams, macro_table, pragma_once_files, line, pending, lost>>

Ended == phase \in {"done", "error", "undefined"}
Stopped == Ended /\ UNCHANGED vars

Next ==
    \/ OpenInput \/ Finish \/ ReadLine \/ EndFile
    \/ Ifdef \/ If \/ OtherBranch \/ Endif \/ SkipDirective
    \/ Include \/ Define \/ Undef \/ Pragma \/ Refuse
    \/ Comment \/ InComment \/ RefuseText \/ PassToken \/ ExpandMacro \/ EndLine
    \/ Stopped

Spec == Init /\ [][Next]_vars

-----------------------------------------------------------------------------
\* The compiler's lexer reads the output and takes from the markers which
\* line of which file it has come to (read_next_line of lexer.c).
Output == FlattenSeq([i \in DOMAIN out |-> TokensIn(Fused(out[i].text), out[i].n, out[i].file)])

\* What each program means, worked out once.
Meanings == {[program |-> p, meaning |-> Meaning(p)] : p \in Programs}
MeaningHere == (CHOOSE m \in Meanings : m.program = prog).meaning

Spelling(ts) == [i \in DOMAIN ts |-> SelectSeq(ts[i].s, LAMBDA c : c \notin {" ", "\n"})]
Place(ts) == [i \in DOMAIN ts |-> <<ts[i].file, ts[i].row>>]

\* What cpp writes is the text of the branches taken, in order, every macro
\* replaced: whatever nests, is included, defined, undefined or passed along;
\* and cpp gives up only where the files are wrong.
ExpandsAsMeant ==
    Ended =>
        \E meant \in {MeaningHere} :
            /\ phase = IF meant.ok THEN "done" ELSE "error"
            /\ meant.ok => Spelling(Output) = Spelling(meant.toks)

\* Where no line is spliced and no comment or call goes over lines, every
\* token is reported where it stands, before, in and after included files
\* and skipped sections.
Straight ==
    \A file \in DOMAIN prog.files : LET rows == prog.files[file] IN
        \A i \in DOMAIN rows : ~Spliced(rows[i]) /\ Complete(rows[i], << >>)

LinesInStep == phase = "done" /\ Straight => Place(Output) = Place(MeaningHere.toks)
=============================================================================
