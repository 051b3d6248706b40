------------------------------ MODULE CSource -------------------------------
(***************************************************************************)
(* Programs as the parser reads them and what they mean.  A program is the *)
(* body of one function over the variables Vars; an expression is a node   *)
(* [op, a, x] of an operator, its operands and what else it names, a       *)
(* statement a node [st, e, b, x] of its expressions and statements.  The  *)
(* meaning (Run) is C's, written by recursion on the source with no jumps, *)
(* no registers and no types but the language's: promotion, the usual      *)
(* conversions, and for what C leaves open the order the code has          *)
(* (operands from the left, arguments from the right, a value before the   *)
(* place it is assigned to).                                               *)
(***************************************************************************)
EXTENDS CTypes, TLC

CONSTANTS Vars,      \* variable -> [type, storage]; storage is global, local,
                     \* param, static or extern (both in a block)
          VarOrder,  \* the variables in the order of their addresses
          Inits,     \* what variables hold at the start: variable -> a number,
                     \* the variable a pointer leads to, or one list of
                     \* initializers for the members of an array or structure
          Funcs,     \* function -> the types of its parameters
          Variadic,  \* functions that take more arguments than those
          Fuel       \* bound on the iterations and gotos of a run

\* Variables of the function's own frame.
IsLocal(x) == Vars[x].storage = "local"

RECURSIVE PlaceAfter(_)
PlaceAfter(n) == IF n = 0 THEN WordSize
                 ELSE LET t == Vars[VarOrder[n]].type
                      IN  RoundUp(PlaceAfter(n - 1), AlignOf(t)) + SizeOf(t)
Place == [x \in DOMAIN Vars |->
            LET n == CHOOSE n \in DOMAIN VarOrder : VarOrder[n] = x
            IN  RoundUp(PlaceAfter(n - 1), AlignOf(Vars[x].type))]

Memory == 0 .. PlaceAfter(Len(VarOrder)) - 1
NoBytes == [i \in Memory |-> 0]

RECURSIVE LoadBytes(_, _, _)
LoadBytes(bytes, at, size) ==
  IF size = 0 THEN 0 ELSE bytes[at] + Modulus(1) * LoadBytes(bytes, at + 1, size - 1)
StoreBytes(bytes, at, size, v) ==
  [i \in DOMAIN bytes |-> IF i \in at .. at + size - 1
                    THEN (v \div Modulus(i - at)) % Modulus(1) ELSE bytes[i]]
CopyBytes(bytes, to, from, size) ==
  [i \in DOMAIN bytes |-> IF i \in to .. to + size - 1 THEN bytes[from + i - to] ELSE bytes[i]]
ClearBytes(bytes, at, size) ==
  [i \in DOMAIN bytes |-> IF i \in at .. at + size - 1 THEN 0 ELSE bytes[i]]

\* An initializer of a member is <<>> or <<what it holds>>.
RECURSIVE Initialized(_, _, _, _, _)
Initialized(bytes, at, t, init, n) ==   \* n members are left of an array or structure
  LET rest == Initialized(bytes, at, t, init, n - 1)
      array == t.kind = "array"
  IN
  CASE t.kind = "fixnum" -> StoreBytes(bytes, at, SizeOf(t), init)
    [] t.kind = "ptr" -> StoreBytes(bytes, at, PtrSize, Place[init])
    [] ~IsScalar(t) /\ n = 0 -> bytes
    [] ~IsScalar(t) /\ n > 0 /\ init[n] = <<>> -> rest
    [] OTHER -> LET member == IF array THEN t.to ELSE t.members[n]
                IN  Initialized(rest, at + (IF array THEN (n - 1) * SizeOf(t.to) ELSE MemberOffset(t, n)),
                                member, init[n][1], IF IsScalar(member) THEN 0 ELSE Len(init[n][1]))

RECURSIVE InitialBytes(_)
InitialBytes(n) ==   \* with the first n variables initialized
  LET x == VarOrder[n]
      t == Vars[x].type
  IN  IF n = 0 THEN NoBytes
      ELSE IF x \notin DOMAIN Inits THEN InitialBytes(n - 1)
      ELSE Initialized(InitialBytes(n - 1), Place[x], t, Inits[x],
                       IF IsScalar(t) THEN 0 ELSE Len(Inits[x]))

(***************************************************************************)
(* Types of expressions.                                                   *)
(***************************************************************************)
Promoted(t) == IF t.kind = "fixnum" /\ t.rank < 2 THEN IntType ELSE t
Common(t, u) ==
  LET p == Promoted(t)
      q == Promoted(u)
  IN  IF p.rank = q.rank THEN Fixed(p.rank, p.uns \/ q.uns)
      ELSE IF p.rank > q.rank THEN p ELSE q

Increments == {"PREINC", "PREDEC", "POSTINC", "POSTDEC"}

RECURSIVE TypeOf(_)
TypeOf(e) ==
  LET T(i) == Decayed(TypeOf(e.a[i])) IN
  CASE e.op = "NUM" -> e.x.type
    [] e.op = "VAR" -> Vars[e.x].type
    [] e.op = "SUB" /\ T(1).kind = "ptr" /\ T(2).kind = "ptr" -> LongType
    [] e.op \in {"ADD", "SUB"} /\ T(1).kind = "ptr" -> T(1)
    [] e.op = "ADD" /\ T(2).kind = "ptr" -> T(2)
    [] e.op \in Shifts \cup {"POS", "NEG", "BITNOT"} -> Promoted(T(1))
    [] e.op \in Comparisons \cup {"LOGAND", "LOGIOR", "NOT"} -> IntType
    [] e.op \in {"ASSIGN", "MODIFY"} \cup Increments -> TypeOf(e.a[1])
    [] e.op = "CAST" -> e.x
    [] e.op = "TERNARY" -> IF T(2).kind # "fixnum" THEN T(2)
                           ELSE IF T(3).kind # "fixnum" THEN T(3) ELSE Common(T(2), T(3))
    [] e.op = "COMMA" -> T(2)
    [] e.op = "REF" -> PtrTo(TypeOf(e.a[1]))
    [] e.op = "DEREF" -> TypeOf(e.a[1]).to
    [] e.op = "MEMBER" -> TypeOf(e.a[1]).members[e.x]
    [] e.op = "CALL" -> IntType
    [] OTHER -> Common(T(1), T(2))

(***************************************************************************)
(* Expressions.  A state is the memory and the calls made so far; Eval     *)
(* yields a value and a state, Locate an address and a state.  The value   *)
(* of an array or a structure is its address.  An outside function records *)
(* its arguments and returns the first.                                    *)
(***************************************************************************)
V(v, s) == [v |-> v, s |-> s]

Apply(op, t, u, a, b) ==   \* the operator on values of types t and u
  LET scale(p, n) == n * SizeOf(p.to) IN
  CASE op \in {"ADD", "SUB"} /\ t.kind = "ptr" /\ u.kind = "fixnum" ->
         InType(Exact(op, a, scale(t, b)), t)
    [] op = "ADD" /\ u.kind = "ptr" -> InType(scale(u, a) + b, u)
    [] op = "SUB" /\ u.kind = "ptr" -> Quotient(a - b, SizeOf(t.to))
    [] op \in Shifts -> InType(Exact(op, a, b), Promoted(t))
    [] OTHER -> LET c == Common(t, u) IN InType(Exact(op, InType(a, c), InType(b, c)), c)

RECURSIVE Eval(_, _), Locate(_, _), EvalArgs(_, _, _)
Locate(e, s) ==
  CASE e.op = "VAR" -> V(Place[e.x], s)
    [] e.op = "DEREF" -> Eval(e.a[1], s)
    [] e.op = "MEMBER" -> LET at == Locate(e.a[1], s)
                          IN  V(at.v + MemberOffset(TypeOf(e.a[1]), e.x), at.s)

ValueAt(at, t) ==
  V(IF IsScalar(t) THEN InType(LoadBytes(at.s.mem, at.v, SizeOf(t)), t) ELSE at.v, at.s)
Stored(at, t, v) ==   \* the state after a value is assigned to a place
  [at.s EXCEPT !.mem = IF IsScalar(t) THEN StoreBytes(@, at.v, SizeOf(t), v)
                       ELSE CopyBytes(@, at.v, v, SizeOf(t))]

ArgType(f, i, t) == IF i <= Len(Funcs[f]) THEN Funcs[f][i] ELSE Promoted(Decayed(t))
EvalArgs(e, i, s) ==   \* the arguments i..1, the last first
  IF i = 0 THEN [vs |-> <<>>, s |-> s]
  ELSE LET last == Eval(e.a[i], s)
           rest == EvalArgs(e, i - 1, last.s)
       IN  [vs |-> Append(rest.vs, InType(last.v, ArgType(e.x, i, TypeOf(e.a[i])))), s |-> rest.s]

Eval(e, s) ==
  LET T(i) == Decayed(TypeOf(e.a[i]))
      one == Eval(e.a[1], s)
      two == Eval(e.a[2], one.s)
  IN
  CASE e.op = "NUM" -> V(e.x.v, s)
    [] e.op \in {"VAR", "DEREF", "MEMBER"} -> ValueAt(Locate(e, s), TypeOf(e))
    [] e.op = "REF" -> Locate(e.a[1], s)
    [] e.op = "COMMA" -> two
    [] e.op = "TERNARY" -> LET r == Eval(e.a[IF one.v # 0 THEN 2 ELSE 3], one.s)
                           IN  V(IF IsScalar(TypeOf(e)) THEN InType(r.v, TypeOf(e)) ELSE r.v, r.s)
    [] e.op = "CAST" -> V(InType(one.v, e.x), one.s)
    [] e.op = "POS" -> V(InType(one.v, TypeOf(e)), one.s)
    [] e.op = "NEG" -> V(InType(-InType(one.v, TypeOf(e)), TypeOf(e)), one.s)
    [] e.op = "BITNOT" -> V(InType(-1 - InType(one.v, TypeOf(e)), TypeOf(e)), one.s)
    [] e.op = "NOT" -> V(Truth(one.v = 0), one.s)
    [] e.op = "LOGAND" -> IF one.v = 0 THEN V(0, one.s) ELSE V(Truth(two.v # 0), two.s)
    [] e.op = "LOGIOR" -> IF one.v # 0 THEN V(1, one.s) ELSE V(Truth(two.v # 0), two.s)
    [] e.op \in Comparisons ->
         LET c == IF IsNumber(T(1)) /\ IsNumber(T(2)) THEN Common(T(1), T(2)) ELSE SizeType
         IN  V(Truth(Holds(e.op, InType(one.v, c), InType(two.v, c))), two.s)
    [] e.op \in Arithmetic -> V(Apply(e.op, T(1), T(2), one.v, two.v), two.s)
    [] e.op = "ASSIGN" ->
         LET value == Eval(e.a[2], s)
             t == TypeOf(e)
             v == IF IsScalar(t) THEN InType(value.v, t) ELSE value.v
         IN  V(v, Stored(Locate(e.a[1], value.s), t, v))
    [] e.op = "MODIFY" ->
         LET at == Locate(e.a[1], s)
             rhs == Eval(e.a[2], at.s)
             t == TypeOf(e)
             v == InType(Apply(e.x, t, T(2), ValueAt(V(at.v, rhs.s), t).v, rhs.v), t)
         IN  V(v, Stored(V(at.v, rhs.s), t, v))
    [] e.op \in Increments ->
         LET at == Locate(e.a[1], s)
             t == TypeOf(e)
             old == ValueAt(at, t).v
             by == IF t.kind = "ptr" THEN SizeOf(t.to) ELSE 1
             new == InType(IF e.op \in {"PREINC", "POSTINC"} THEN old + by ELSE old - by, t)
         IN  V(IF e.op \in {"PREINC", "PREDEC"} THEN new ELSE old, Stored(at, t, new))
    [] e.op = "CALL" ->
         LET args == EvalArgs(e, Len(e.a), s)
         IN  V(InType(args.vs[1], IntType),
               [args.s EXCEPT !.out = Append(@, <<e.x, args.vs>>)])

(***************************************************************************)
(* Statements.  Executing one ends in the next (go), in break, continue or *)
(* return, in a goto, or out of fuel (lost).  A target other than Start    *)
(* asks for the part of the statement from a label on.                     *)
(***************************************************************************)
Start == [to |-> "start", x |-> 0]
ToCase(v) == [to |-> "CASE", x |-> v]
ToDefault == [to |-> "DEFAULT", x |-> 0]
ToLabel(l) == [to |-> "LABEL", x |-> l]

Seeks(target) == target.to # "start"

\* break belongs in a loop or a switch, continue in a loop.
RECURSIVE WellPlaced(_, _, _)
WellPlaced(st, breaks, continues) ==
  LET loop == st.st \in {"WHILE", "DO", "FOR"} IN
  /\ st.st = "BREAK" => breaks
  /\ st.st = "CONTINUE" => continues
  /\ \A i \in DOMAIN st.b :
       WellPlaced(st.b[i], breaks \/ loop \/ st.st = "SWITCH", continues \/ loop)

RECURSIVE Inside(_, _)
Inside(st, target) ==
  \/ st.st = target.to /\ (target.to = "DEFAULT" \/ st.x = target.x)
  \/ /\ st.st = "SWITCH" => target.to = "LABEL"
     /\ \E i \in DOMAIN st.b : Inside(st.b[i], target)

End(how, s, x) == [how |-> how, s |-> s, x |-> x]
Go(s) == End("go", s, 0)
Burnt(s) == [s EXCEPT !.fuel = @ - 1]

RECURSIVE Exec(_, _, _), ExecAll(_, _, _), Loop(_, _, _)
ExecAll(stmts, s, target) ==
  IF stmts = <<>> THEN Go(s)
  ELSE IF Seeks(target) /\ ~Inside(Head(stmts), target) THEN ExecAll(Tail(stmts), s, target)
  ELSE LET r == Exec(Head(stmts), s, target)
       IN  IF r.how = "go" THEN ExecAll(Tail(stmts), r.s, Start) ELSE r

Absent(e) == e.op = "ABSENT"
Effect(e, s) == IF Absent(e) THEN s ELSE Eval(e, s).s

\* A loop from its body on: st.e is <<before, condition, after>>.
Loop(st, s, target) ==
  LET body == Exec(st.b[1], s, target)
      after == Effect(st.e[3], body.s)
      c == IF Absent(st.e[2]) THEN V(1, after) ELSE Eval(st.e[2], after)
  IN  CASE s.fuel = 0 -> End("lost", s, 0)
        [] s.fuel > 0 /\ body.how \in {"go", "continue"} ->
             IF c.v = 0 THEN Go(c.s) ELSE Loop(st, Burnt(c.s), Start)
        [] s.fuel > 0 /\ body.how = "break" -> Go(body.s)
        [] OTHER -> body

Exec(st, s, target) ==
  LET value == Eval(st.e[1], s) IN
  CASE st.st = "BLOCK" -> ExecAll(st.b, s, target)
    [] st.st = "EXPR" -> Go(value.s)
    [] st.st \in {"CASE", "DEFAULT", "NOTHING"} -> Go(s)
    [] st.st = "LABEL" ->
         Exec(st.b[1], s, IF target.to = "LABEL" /\ target.x = st.x THEN Start ELSE target)
    [] st.st = "BREAK" -> End("break", s, 0)
    [] st.st = "CONTINUE" -> End("continue", s, 0)
    [] st.st = "GOTO" -> End("goto", s, st.x)
    [] st.st = "RETURN" -> End("return", value.s, InType(value.v, LongType))
    [] st.st = "DECL" -> 
         LET cleared == [s EXCEPT !.mem =
                           IF IsScalar(Vars[st.x].type) THEN @
                           ELSE ClearBytes(@, Place[st.x], SizeOf(Vars[st.x].type))]
         IN  ExecAll(st.b, cleared, Start)
    [] st.st = "IF" ->
         IF Seeks(target)
         THEN Exec(st.b[CHOOSE i \in DOMAIN st.b : Inside(st.b[i], target)], s, target)
         ELSE IF value.v # 0 THEN Exec(st.b[1], value.s, Start)
         ELSE IF Len(st.b) = 2 THEN Exec(st.b[2], value.s, Start) ELSE Go(value.s)
    [] st.st = "DO" -> Loop(st, s, target)
    [] st.st \in {"WHILE", "FOR"} ->
         LET before == Effect(st.e[1], s)
             c == IF Absent(st.e[2]) THEN V(1, before) ELSE Eval(st.e[2], before)
         IN  IF Seeks(target) THEN Loop(st, s, target)
             ELSE IF c.v = 0 THEN Go(c.s) ELSE Loop(st, c.s, Start)
    [] st.st = "SWITCH" ->
         LET body == st.b[1]
             entry == IF Seeks(target) THEN target
                      ELSE IF Inside(body, ToCase(value.v)) THEN ToCase(value.v) ELSE ToDefault
             r == Exec(body, IF Seeks(target) THEN s ELSE value.s, entry)
         IN  IF ~Inside(body, entry) THEN Go(value.s)
             ELSE IF r.how = "break" THEN Go(r.s) ELSE r

RECURSIVE Resume(_, _)
Resume(program, r) ==
  IF r.how # "goto" THEN r
  ELSE IF r.s.fuel = 0 THEN End("lost", r.s, 0)
  ELSE Resume(program, ExecAll(program, Burnt(r.s), ToLabel(r.x)))

StartBytes == InitialBytes(Len(VarOrder))
Run(program) ==
  Resume(program, ExecAll(program, [mem |-> StartBytes, out |-> <<>>, fuel |-> Fuel], Start))
=============================================================================
