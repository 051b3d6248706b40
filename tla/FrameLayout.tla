---------------------------- MODULE FrameLayout ----------------------------
(***************************************************************************)
(* Where a function keeps what is not in a register, as offsets from rbp:  *)
(* prepare_register_allocation (regalloc.c) gives some parameters a place, *)
(* the end of alloc_physical_registers gives one to every other spilled    *)
(* register, in the order of the sorted intervals, and put_args_to_stack   *)
(* (emit_code.c) stores the argument registers, those of a variadic        *)
(* function in an area of their own below rbp.                             *)
(*                                                                         *)
(* Below rbp are frame_size bytes and then the callee-save registers; at   *)
(* rbp and above it are the saved rbp, the return address and, from 16,    *)
(* the stack parameters.                                                   *)
(***************************************************************************)
EXTENDS Integers, Sequences

CONSTANTS
    MaxRegArgs,    \* MAX_REG_ARGS
    MaxFregArgs,   \* MAX_FREG_ARGS
    Functions      \* [params, locals, vaargs, ret_struct]: the types of the
                   \* parameters and of the spilled local variables

WORD == 8

TypesOf(f) == {f.params[k] : k \in DOMAIN f.params}
                  \cup {f.locals[k] : k \in DOMAIN f.locals}

ASSUME FrameAssumption ==
    /\ MaxRegArgs \in Nat /\ MaxFregArgs \in Nat
    /\ \A f \in Functions :
          /\ f.params \in Seq(TypesOf(f)) /\ f.locals \in Seq(TypesOf(f))
          /\ f.vaargs \in BOOLEAN /\ f.ret_struct \in BOOLEAN
          /\ \A t \in TypesOf(f) :
                /\ t.cls \in {"int", "flo", "struct"}
                /\ t.size \in Nat /\ t.align \in Nat \ {0}
                /\ t.cls # "struct" => t.size <= WORD

VARIABLES
    fn,         \* the function that is compiled
    step,       \* "prepare", "place" or "done"
    k,          \* parameters prepared so far
    count,      \* ireg_index, freg_index, reg_param_index and offset
    offset,     \* VReg.offset of every spilled register, 0 if it has none
    todo,       \* intervals that the last loop has not come to
    frame_size

vars == <<fn, step, k, count, offset, todo, frame_size>>

\* ALIGN(x, align): the next multiple of align.
Align(x, a) == x + ((-x) % a)

\* The spilled registers: 0 is the address of a struct result, which is
\* passed as a hidden first argument, then come parameters and locals.
Params(f) == 1..Len(f.params)
VRegs(f) == {v \in 0..(Len(f.params) + Len(f.locals)) : v = 0 => f.ret_struct}

Pointer == [cls |-> "int", size |-> WORD, align |-> WORD]

TypeAt(f, v) ==
    IF v = 0 THEN Pointer
    ELSE IF v \in Params(f) THEN f.params[v] ELSE f.locals[v - Len(f.params)]

First(f) == IF f.ret_struct THEN 1 ELSE 0

Init ==
    /\ fn \in Functions
    /\ step = "prepare"
    /\ k = 0
    /\ count = [ireg |-> First(fn), freg |-> 0, reg_param |-> First(fn),
                offset |-> 2 * WORD]
    /\ offset = [v \in VRegs(fn) |-> 0]
    /\ todo = VRegs(fn)
    /\ frame_size = 0

-----------------------------------------------------------------------------
Preparing == step = "prepare" /\ k < Len(fn.params)
Param == fn.params[k + 1]

PrepareStruct ==
    LET at == Align(count.offset, Param.align)
    IN  /\ Preparing /\ Param.cls = "struct"
        /\ offset' = [offset EXCEPT ![k + 1] = at]
        /\ count' = [count EXCEPT !.offset = at + Param.size]
        /\ k' = k + 1
        /\ UNCHANGED <<fn, step, todo, frame_size>>

\* A parameter of a variadic function gets its place in the save area.
\* (A definition that stands before one it resembles is a mistaken version
\* of it; the specification does not use it.)
SaveAreaFromTop(n) == -n * WORD - WORD
SaveArea(n) == (n - MaxRegArgs) * WORD

ThroughStack ==
    IF Param.cls = "flo" THEN count.freg >= MaxFregArgs
                         ELSE count.ireg >= MaxRegArgs

PrepareScalar ==
    /\ Preparing /\ Param.cls # "struct"
    /\ offset' = [offset EXCEPT ![k + 1] =
                     IF ThroughStack THEN count.offset
                     ELSE IF fn.vaargs THEN SaveArea(count.reg_param)
                     ELSE @]
    /\ count' = [count EXCEPT
                     !.ireg = IF Param.cls = "flo" THEN @ ELSE @ + 1,
                     !.freg = IF Param.cls = "flo" THEN @ + 1 ELSE @,
                     !.reg_param = @ + 1,
                     !.offset = IF ThroughStack THEN @ + WORD ELSE @]
    /\ k' = k + 1
    /\ UNCHANGED <<fn, step, todo, frame_size>>

Prepared ==
    /\ step = "prepare" /\ k = Len(fn.params)
    /\ step' = "place"
    /\ UNCHANGED <<fn, k, count, offset, todo, frame_size>>

\* A register that has a place already only makes the frame large enough.
\* The order of intervals is that of the first mention in the code, and the
\* comparator leaves ties to the sort: any order may come.
CoveringNever(at) == frame_size
Covering(at) == IF -at > frame_size THEN -at ELSE frame_size

Cover(v) ==
    /\ step = "place" /\ v \in todo
    /\ offset[v] # 0
    /\ frame_size' = Covering(offset[v])
    /\ todo' = todo \ {v}
    /\ UNCHANGED <<fn, step, k, count, offset>>

\* The frame grows by the size of the register, an empty struct taking a
\* byte too, and then to its alignment.
SizeInFrame(t) == IF t.size < 1 THEN 1 ELSE t.size
DeepenedToAlignment(t) == Align(frame_size + t.align, t.align)
Deepened(t) == Align(frame_size + SizeInFrame(t), t.align)

Place(v) ==
    /\ step = "place" /\ v \in todo
    /\ offset[v] = 0
    /\ frame_size' = Deepened(TypeAt(fn, v))
    /\ offset' = [offset EXCEPT ![v] = -frame_size']
    /\ todo' = todo \ {v}
    /\ UNCHANGED <<fn, step, k, count>>

Round ==
    /\ step = "place" /\ todo = {}
    /\ step' = "done"
    /\ frame_size' = Align(frame_size, WORD)
    /\ UNCHANGED <<fn, k, count, offset, todo>>

Done == step = "done" /\ UNCHANGED vars

Next ==
    \/ PrepareStruct \/ PrepareScalar \/ Prepared
    \/ \E v \in VRegs(fn) : Cover(v) \/ Place(v)
    \/ Round
    \/ Done

Spec == Init /\ [][Next]_vars

-----------------------------------------------------------------------------
(* The prologue's stores.                                                  *)

ArgCount(f) == IF f.vaargs /\ Len(f.params) < MaxRegArgs THEN MaxRegArgs ELSE Len(f.params)

\* arg_index and farg_index of put_args_to_stack after parameter j, and
\* after each number of parameters.
Counted(f, j, s) ==
    CASE j > Len(f.params) -> [s EXCEPT !.ireg = @ + 1]
      [] f.params[j].cls = "struct" -> s
      [] f.params[j].cls = "flo" -> [s EXCEPT !.freg = @ + 1]
      [] OTHER -> [s EXCEPT !.ireg = @ + 1]

Passed(f) ==
    LET After[j \in 0..ArgCount(f)] ==
          IF j = 0 THEN [ireg |-> First(f), freg |-> 0] ELSE Counted(f, j, After[j - 1])
    IN  After

InRegister(p) ==
    LET s == Passed(fn)[p - 1]
    IN  IF p > Len(fn.params) THEN s.ireg < MaxRegArgs
        ELSE CASE fn.params[p].cls = "struct" -> FALSE
               [] fn.params[p].cls = "flo" -> s.freg < MaxFregArgs
               [] OTHER -> s.ireg < MaxRegArgs

\* What put_args_to_stack writes: a parameter, or the place where va_arg
\* will look for an argument that has no name.
Stores ==
    (IF fn.ret_struct THEN {[of |-> 0, at |-> offset[0], size |-> WORD]} ELSE {})
    \cup {IF p <= Len(fn.params)
          THEN [of |-> p, at |-> offset[p], size |-> fn.params[p].size]
          ELSE [of |-> p, at |-> SaveArea(p - 1), size |-> WORD] :
              p \in {q \in 1..ArgCount(fn) : InRegister(q)}}

-----------------------------------------------------------------------------
\* A variadic function whose named parameters are integers and fit in the
\* argument registers, and that has nothing else in its frame, is laid out
\* as it should be.
SimpleVariadic(f) ==
    /\ f.locals = << >> /\ ~f.ret_struct
    /\ Len(f.params) \in 1..MaxRegArgs
    /\ \A p \in DOMAIN f.params : f.params[p].cls = "int"
GoodFunction(f) == f.vaargs => SimpleVariadic(f)

Placed == {v \in DOMAIN offset : offset[v] # 0}
End(v) == offset[v] + TypeAt(fn, v).size
Apart(v, w) == End(v) <= offset[w] \/ End(w) <= offset[v]

\* The counters and the frame are what the compiler's types allow, and no
\* register is without a place when the frame is finished.
TypeOK ==
    /\ fn \in Functions
    /\ step \in {"prepare", "place", "done"}
    /\ k \in 0..Len(fn.params)
    /\ count \in [ireg : Nat, freg : Nat, reg_param : Nat, offset : Nat]
    /\ DOMAIN offset = VRegs(fn)
    /\ \A v \in VRegs(fn) : offset[v] \in Int
    /\ todo \subseteq VRegs(fn)
    /\ frame_size \in Nat
    /\ step = "done" => (todo = {} /\ Placed = VRegs(fn))

\* No two variables of a function share a byte, whatever the order in
\* which they were given their places.
SlotsDisjoint == \A v, w \in Placed : v # w => Apart(v, w)

\* A variable lies inside the frame or, if the caller put it on the stack,
\* above the return address.
SlotsInFrame ==
    \A v \in Placed \ todo :
        \/ -frame_size <= offset[v] /\ End(v) <= 0
        \/ offset[v] >= 2 * WORD

\* The stores of the prologue stay in the frame and change no variable but
\* the parameter they are for: "Store arguments into local frame.".
ArgumentsStored ==
    step = "done" =>
        \A s \in Stores :
            /\ -frame_size <= s.at /\ s.at + s.size <= 0
            /\ \A v \in VRegs(fn) \ {s.of} :
                  End(v) <= s.at \/ s.at + s.size <= offset[v]
=============================================================================
