------------------------- MODULE FrameLayoutProofs -------------------------
(***************************************************************************)
(* Variables of a function never overlap and the prologue stores its       *)
(* arguments where they belong, for any numbers and types of parameters    *)
(* and locals and any order of the intervals; of the variadic functions,   *)
(* for those with nothing else in their frame.                             *)
(*                                                                         *)
(* The argument: places are handed out from two ends that only grow.       *)
(* Stack parameters lie between 16 and count.offset, the rest between      *)
(* -frame_size and 0, and each new place starts where its end was.  The    *)
(* prologue counts registers again, and comes to the same numbers.         *)
(***************************************************************************)
EXTENDS FrameLayout, WellFoundedInduction, TLAPS

Types ==
    /\ fn \in Functions
    /\ step \in {"prepare", "place", "done"}
    /\ k \in 0..Len(fn.params)
    /\ count \in [ireg : Nat, freg : Nat, reg_param : Nat, offset : Nat]
    /\ DOMAIN offset = VRegs(fn)
    /\ \A v \in VRegs(fn) : offset[v] \in Int
    /\ todo \subseteq VRegs(fn)
    /\ frame_size \in Nat
    /\ step = "prepare" => todo = VRegs(fn)
    /\ step = "done" => todo = {}

\* What the last loop has gone through has a place.
Progressed == \A v \in VRegs(fn) \ todo : offset[v] # 0

\* The part above the return address: parameters that are prepared, one
\* after the other.
AboveReturn ==
    /\ count.offset >= 2 * WORD
    /\ \A v \in Placed : offset[v] > 0 =>
          /\ v \in 1..k
          /\ offset[v] >= 2 * WORD
          /\ End(v) <= count.offset

\* The part below rbp: everything that the last loop has placed.
BelowBase ==
    /\ step = "prepare" => \A v \in Placed : offset[v] > 0
    /\ \A v \in Placed : offset[v] < 0 => -frame_size <= offset[v] /\ End(v) <= 0

IInv ==
    /\ Types
    /\ Progressed
    /\ ~fn.vaargs => (AboveReturn /\ BelowBase /\ SlotsDisjoint)

\* ALIGN never goes down, and goes up by less than the alignment.
LEMMA AlignUp ==
    ASSUME NEW x \in Int, NEW a \in Nat \ {0}
    PROVE  /\ Align(x, a) \in Int
           /\ x <= Align(x, a)
<1>1. (-x) % a \in 0..(a - 1)
  OBVIOUS
<1> QED
  BY <1>1 DEF Align

\* What is assumed of a function, for one function.
LEMMA FunctionType ==
    ASSUME NEW f \in Functions
    PROVE  /\ Len(f.params) \in Nat
           /\ Len(f.locals) \in Nat
           /\ DOMAIN f.params = 1..Len(f.params)
           /\ DOMAIN f.locals = 1..Len(f.locals)
           /\ \A t \in TypesOf(f) :
                 /\ t.size \in Nat /\ t.align \in Nat \ {0}
                 /\ t.cls # "struct" => t.size <= WORD
<1>1. f.params \in Seq(TypesOf(f)) /\ f.locals \in Seq(TypesOf(f))
  BY FrameAssumption
<1>2. \A t \in TypesOf(f) :
         /\ t.size \in Nat /\ t.align \in Nat \ {0}
         /\ t.cls # "struct" => t.size <= WORD
  BY FrameAssumption
<1> HIDE DEF TypesOf
<1> QED
  BY <1>1, <1>2

\* The size of every spilled register is a number, its alignment is one.
LEMMA TypeAtType ==
    ASSUME NEW f \in Functions, NEW v \in VRegs(f)
    PROVE  /\ TypeAt(f, v).size \in Nat
           /\ TypeAt(f, v).align \in Nat \ {0}
<1>1. CASE v = 0
  <2>1. TypeAt(f, v) = Pointer
    BY <1>1 DEF TypeAt
  <2> QED
    BY <2>1 DEF Pointer, WORD
<1>2. CASE v \in Params(f) /\ v # 0
  <2>1. f.params[v] \in TypesOf(f)
    BY <1>2, FunctionType DEF TypesOf, Params
  <2>2. TypeAt(f, v) = f.params[v]
    BY <1>2 DEF TypeAt
  <2> QED
    BY <2>1, <2>2, FunctionType
<1>3. CASE v # 0 /\ v \notin Params(f)
  <2>1. v \in 0..(Len(f.params) + Len(f.locals))
    BY DEF VRegs
  <2> DEFINE n == Len(f.params) m == Len(f.locals)
  <2>2. n \in Nat /\ m \in Nat /\ v \in 0..(n + m) /\ v # 0 /\ v \notin 1..n
    BY <1>3, <2>1, FunctionType DEF Params
  <2>3. v - n \in 1..m
    <3> HIDE DEF n, m
    <3> QED
      BY <2>2
  <2>4. f.locals[v - Len(f.params)] \in TypesOf(f)
    BY <2>3, FunctionType DEF TypesOf
  <2>5. TypeAt(f, v) = f.locals[v - Len(f.params)]
    BY <1>3 DEF TypeAt
  <2> QED
    BY <2>4, <2>5, FunctionType
<1> QED
  BY <1>1, <1>2, <1>3

\* The parameter in turn, its type and its register.
LEMMA ParamType ==
    ASSUME fn \in Functions, k \in 0..Len(fn.params), Preparing
    PROVE  /\ k + 1 \in 1..Len(fn.params)
           /\ k + 1 \in VRegs(fn)
           /\ Param.size \in Nat
           /\ Param.align \in Nat \ {0}
           /\ Param.cls # "struct" => Param.size <= WORD
           /\ TypeAt(fn, k + 1) = Param
<1>1. Len(fn.params) \in Nat /\ Len(fn.locals) \in Nat
  BY FunctionType
<1>2. k + 1 \in 1..Len(fn.params)
  BY <1>1 DEF Preparing
<1>3. Param \in TypesOf(fn)
  BY <1>2, FunctionType DEF TypesOf, Param
<1>4. TypeAt(fn, k + 1) = Param
  BY <1>1, <1>2 DEF TypeAt, Param, Params
<1>5. k + 1 \in VRegs(fn)
  <2> DEFINE n == Len(fn.params) m == Len(fn.locals)
  <2>1. n \in Nat /\ m \in Nat /\ k + 1 \in 1..n
    BY <1>1, <1>2
  <2>2. k + 1 \in 0..(n + m) /\ k + 1 # 0
    <3> HIDE DEF n, m
    <3> QED
      BY <2>1
  <2> QED
    BY <2>2 DEF VRegs
<1> QED
  BY <1>2, <1>3, <1>4, <1>5, FunctionType

LEMMA InitIInv == Init => IInv
<1> SUFFICES ASSUME Init PROVE IInv
  OBVIOUS
<1>1. Len(fn.params) \in Nat
  BY FrameAssumption DEF Init
<1>2. First(fn) \in Nat
  BY DEF First
<1>3. Types
  BY <1>1, <1>2 DEF Init, Types, WORD
<1>4. Placed = {}
  BY DEF Init, Placed
<1>5. Progressed
  BY DEF Init, Progressed
<1>6. AboveReturn /\ BelowBase /\ SlotsDisjoint
  BY <1>4 DEF Init, AboveReturn, BelowBase, SlotsDisjoint, WORD
<1> QED
  BY <1>3, <1>5, <1>6 DEF IInv

\* A new stack parameter at an address from which on nothing is placed.
LEMMA StackParamStep ==
    ASSUME IInv, fn' = fn, step = "prepare", step' = step, todo' = todo,
           frame_size' = frame_size, k \in Nat, k' = k + 1, ~fn.vaargs,
           NEW p \in VRegs(fn), p = k + 1,
           NEW at \in Int, at >= count.offset,
           offset' = [offset EXCEPT ![p] = at],
           count'.offset \in Nat,
           at + TypeAt(fn, p).size <= count'.offset
    PROVE  AboveReturn' /\ BelowBase' /\ SlotsDisjoint'
<1> USE DEF WORD
<1>1. Types /\ AboveReturn /\ BelowBase /\ SlotsDisjoint
  BY DEF IInv
<1>2. TypeAt(fn, p).size \in Nat /\ count.offset \in Nat
  BY <1>1, TypeAtType DEF Types
<1>3. DOMAIN offset' = DOMAIN offset /\ offset'[p] = at /\ at > 0
  BY <1>1, <1>2 DEF Types, AboveReturn
<1>4. \A v \in DOMAIN offset : v # p => offset'[v] = offset[v]
  BY DEF Types
<1>5. ASSUME NEW v \in Placed', v # p
      PROVE  v \in Placed /\ offset'[v] = offset[v] /\ End(v)' = End(v)
             /\ offset[v] \in Int /\ End(v) \in Int
  <2>1. v \in DOMAIN offset /\ offset'[v] = offset[v]
    BY <1>3, <1>4, <1>5 DEF Placed
  <2>2. v \in Placed
    BY <1>5, <2>1 DEF Placed
  <2>3. offset[v] \in Int /\ TypeAt(fn, v).size \in Nat
    BY <1>1, <2>1, TypeAtType DEF Types
  <2>4. End(v)' = offset'[v] + TypeAt(fn, v).size
    BY DEF End
  <2> QED
    BY <2>1, <2>2, <2>3, <2>4 DEF End
<1>6. End(p)' = at + TypeAt(fn, p).size
  BY <1>3 DEF End
<1>7. ASSUME NEW v \in Placed', v # p
      PROVE  offset[v] > 0 /\ End(v) <= count.offset /\ v \in 1..k
             /\ offset[v] >= 2 * WORD
  BY <1>1, <1>5, <1>7 DEF AboveReturn, BelowBase
<1>8. AboveReturn'
  <2>1. count'.offset >= 2 * WORD
    BY <1>1, <1>2 DEF AboveReturn
  <2>2. ASSUME NEW v \in Placed', v # p
        PROVE  v \in 1..(k + 1) /\ offset'[v] >= 2 * WORD /\ End(v)' <= count'.offset
    <3>1. count.offset <= count'.offset
      BY <1>2
    <3> QED
      BY <1>2, <1>5, <1>7, <2>2, <3>1
  <2>3. p \in 1..(k + 1) /\ offset'[p] >= 2 * WORD /\ End(p)' <= count'.offset
    <3>1. End(p)' <= count'.offset
      BY <1>6
    <3> QED
      BY <1>1, <1>2, <1>3, <3>1 DEF AboveReturn
  <2>4. ASSUME NEW v \in Placed'
        PROVE  v \in 1..k' /\ offset'[v] >= 2 * WORD /\ End(v)' <= count'.offset
    BY <2>2, <2>3
  <2> QED
    BY <2>1, <2>4 DEF AboveReturn
<1>9. BelowBase'
  <2>1. \A v \in Placed' : offset'[v] > 0
    BY <1>3, <1>5, <1>7
  <2>2. \A v \in Placed' : offset'[v] \in Int
    BY <1>3, <1>5
  <2> QED
    BY <2>1, <2>2 DEF BelowBase
<1>10. ASSUME NEW v \in Placed', NEW w \in Placed', v # w
       PROVE  Apart(v, w)'
  <2>1. CASE v # p /\ w # p
    BY <1>1, <1>5, <1>10, <2>1 DEF SlotsDisjoint, Apart
  <2>2. CASE v = p
    <3>1. End(w)' <= count.offset /\ End(w)' \in Int
      BY <1>5, <1>7, <1>10, <2>2
    <3> QED
      BY <1>2, <1>3, <2>2, <3>1 DEF Apart
  <2>3. CASE w = p
    <3>1. End(v)' <= count.offset /\ End(v)' \in Int
      BY <1>5, <1>7, <1>10, <2>3
    <3> QED
      BY <1>2, <1>3, <2>3, <3>1 DEF Apart
  <2> QED
    BY <2>1, <2>2, <2>3
<1> QED
  BY <1>8, <1>9, <1>10 DEF SlotsDisjoint

\* A new place below everything that has one: what end and Deepened give.
LEMMA PlaceStep ==
    ASSUME IInv, [Next]_vars, NEW v \in VRegs(fn), Place(v)
    PROVE  IInv'
<1> USE DEF WORD
<1>1. Types /\ Progressed
  BY DEF IInv
<1>2. UNCHANGED <<fn, step, k, count>> /\ step = "place" /\ v \in todo
      /\ todo' = todo \ {v} /\ offset[v] = 0
  BY DEF Place
<1>3. TypeAt(fn, v).size \in Nat /\ TypeAt(fn, v).align \in Nat \ {0}
      /\ frame_size \in Nat
  BY <1>1, TypeAtType DEF Types
<1>4. /\ frame_size' \in Nat /\ frame_size' >= 1
      /\ frame_size + TypeAt(fn, v).size <= frame_size'
  <2>1. SizeInFrame(TypeAt(fn, v)) \in Nat
        /\ SizeInFrame(TypeAt(fn, v)) >= 1
        /\ SizeInFrame(TypeAt(fn, v)) >= TypeAt(fn, v).size
    BY <1>3 DEF SizeInFrame
  <2> DEFINE x == frame_size + SizeInFrame(TypeAt(fn, v))
  <2>2. x \in Int /\ x >= 1 /\ x >= frame_size + TypeAt(fn, v).size
    BY <1>3, <2>1
  <2>3. frame_size' = Align(x, TypeAt(fn, v).align)
    BY DEF Place, Deepened
  <2> HIDE DEF x
  <2>4. frame_size' \in Int /\ x <= frame_size'
    BY <1>3, <2>2, <2>3, AlignUp
  <2> QED
    BY <1>3, <2>2, <2>4
<1>5. /\ DOMAIN offset' = DOMAIN offset /\ offset'[v] = -frame_size'
      /\ \A w \in DOMAIN offset : w # v => offset'[w] = offset[w]
  BY <1>1 DEF Place, Types
<1>6. Types'
  <2>1. \A w \in VRegs(fn) : offset'[w] \in Int
    BY <1>1, <1>4, <1>5 DEF Types
  <2> QED
    BY <1>1, <1>2, <1>4, <1>5, <2>1 DEF Types
<1>7. Progressed'
  BY <1>1, <1>2, <1>4, <1>5 DEF Progressed, Types
<1>8. ASSUME ~fn.vaargs
      PROVE  AboveReturn' /\ BelowBase' /\ SlotsDisjoint'
  <2>1. AboveReturn /\ BelowBase /\ SlotsDisjoint
    BY <1>8 DEF IInv
  <2>2. ASSUME NEW w \in Placed', w # v
        PROVE  /\ w \in Placed /\ offset'[w] = offset[w] /\ End(w)' = End(w)
               /\ offset[w] \in Int /\ offset[w] # 0 /\ End(w) \in Int
               /\ TypeAt(fn, w).size \in Nat
    <3>1. w \in DOMAIN offset /\ offset'[w] = offset[w]
      BY <1>5, <2>2 DEF Placed
    <3>2. w \in Placed /\ offset[w] # 0
      BY <2>2, <3>1 DEF Placed
    <3>3. offset[w] \in Int /\ TypeAt(fn, w).size \in Nat
      BY <1>1, <3>1, TypeAtType DEF Types
    <3>4. End(w)' = offset'[w] + TypeAt(fn, w).size
      BY <1>2 DEF End
    <3> QED
      BY <3>1, <3>2, <3>3, <3>4 DEF End
  <2>3. End(v)' = -frame_size' + TypeAt(fn, v).size
    <3>1. End(v)' = offset'[v] + TypeAt(fn, v).size
      BY <1>2 DEF End
    <3> QED
      BY <1>3, <1>4, <1>5, <3>1
  <2>4. End(v)' \in Int /\ End(v)' <= -frame_size /\ offset'[v] < 0
    <3> DEFINE e == End(v)' d == frame_size' z == TypeAt(fn, v).size o == offset'[v]
    <3>1. /\ e = -d + z /\ o = -d
          /\ d \in Nat /\ z \in Nat /\ frame_size \in Nat
          /\ d >= 1 /\ frame_size + z <= d
      BY <1>3, <1>4, <1>5, <2>3
    <3> HIDE DEF e, d, z, o
    <3>2. e \in Int /\ e <= -frame_size /\ o < 0
      BY <3>1
    <3> QED
      BY <3>2 DEF e, o
  <2>5. ASSUME NEW w \in Placed', w # v
        PROVE  -frame_size <= offset'[w]
    BY <1>3, <2>1, <2>2, <2>5 DEF BelowBase
  <2>6. AboveReturn'
    <3>1. ASSUME NEW w \in Placed', offset'[w] > 0
          PROVE  w \in 1..k' /\ offset'[w] >= 2 * WORD /\ End(w)' <= count'.offset
      <4>1. w # v
        BY <2>4, <3>1, <1>4, <1>5
      <4> QED
        BY <1>2, <2>1, <2>2, <3>1, <4>1 DEF AboveReturn
    <3> QED
      BY <1>2, <2>1, <3>1 DEF AboveReturn
  <2>7. BelowBase'
    <3>1. ASSUME NEW w \in Placed', offset'[w] < 0
          PROVE  -frame_size' <= offset'[w] /\ End(w)' <= 0
      <4>1. CASE w = v
        BY <1>3, <1>4, <1>5, <2>4, <4>1
      <4>2. CASE w # v
        <5>1. -frame_size <= offset[w] /\ End(w) <= 0
          BY <2>1, <2>2, <3>1, <4>2 DEF BelowBase
        <5> QED
          BY <1>3, <1>4, <2>2, <4>2, <5>1
      <4> QED
        BY <4>1, <4>2
    <3> QED
      BY <1>2, <3>1 DEF BelowBase
  <2>8. ASSUME NEW u \in Placed', NEW w \in Placed', u # w
        PROVE  Apart(u, w)'
    <3>1. CASE u # v /\ w # v
      BY <2>1, <2>2, <2>8, <3>1 DEF SlotsDisjoint, Apart
    <3>2. CASE u = v
      <4>1. -frame_size <= offset'[w] /\ offset'[w] \in Int
        BY <2>2, <2>5, <2>8, <3>2
      <4> QED
        BY <1>3, <2>4, <3>2, <4>1 DEF Apart
    <3>3. CASE w = v
      <4>1. -frame_size <= offset'[u] /\ offset'[u] \in Int
        BY <2>2, <2>5, <2>8, <3>3
      <4> QED
        BY <1>3, <2>4, <3>3, <4>1 DEF Apart
    <3> QED
      BY <3>1, <3>2, <3>3
  <2> QED
    BY <2>6, <2>7, <2>8 DEF SlotsDisjoint
<1> QED
  BY <1>2, <1>6, <1>7, <1>8 DEF IInv

\* When no place changes and the frame does not shrink, nothing is lost.
LEMMA KeptStep ==
    ASSUME IInv, UNCHANGED <<fn, k, count, offset>>,
           Types', Progressed', frame_size' >= frame_size,
           step' = "prepare" => step = "prepare"
    PROVE  IInv'
<1> SUFFICES ASSUME ~fn.vaargs
             PROVE  AboveReturn' /\ BelowBase' /\ SlotsDisjoint'
  BY DEF IInv
<1>1. AboveReturn /\ BelowBase /\ SlotsDisjoint /\ Types
  BY DEF IInv
<1>2. \A v : offset'[v] = offset[v] /\ End(v)' = End(v)
  BY DEF End
<1>3. Placed' = Placed
  BY DEF Placed
<1>4. AboveReturn'
  BY <1>1, <1>2, <1>3 DEF AboveReturn
<1>5. BelowBase'
  <2>1. ASSUME NEW v \in Placed, offset[v] < 0
        PROVE  -frame_size' <= offset[v]
    <3>1. -frame_size <= offset[v] /\ offset[v] \in Int
      BY <1>1, <2>1 DEF BelowBase, Types, Placed
    <3> QED
      BY <1>1, <3>1 DEF Types
  <2> QED
    BY <1>1, <1>2, <1>3, <2>1 DEF BelowBase
<1>6. SlotsDisjoint'
  BY <1>1, <1>2, <1>3 DEF SlotsDisjoint, Apart
<1> QED
  BY <1>4, <1>5, <1>6

LEMMA PrepareStep ==
    ASSUME IInv, PrepareStruct \/ PrepareScalar
    PROVE  IInv'
<1> USE DEF WORD
<1>1. Types /\ Progressed /\ Preparing
  BY DEF IInv, PrepareStruct, PrepareScalar
<1>2. /\ UNCHANGED <<fn, step, todo, frame_size>> /\ k' = k + 1
      /\ step = "prepare"
  BY DEF PrepareStruct, PrepareScalar, Preparing
<1>3. /\ fn \in Functions /\ k \in 0..Len(fn.params) /\ k \in Nat
      /\ count.offset \in Nat /\ count.ireg \in Nat /\ count.freg \in Nat
      /\ count.reg_param \in Nat
  BY <1>1 DEF Types
<1>4. /\ k + 1 \in 1..Len(fn.params) /\ k + 1 \in VRegs(fn)
      /\ Param.size \in Nat /\ Param.align \in Nat \ {0}
      /\ Param.cls # "struct" => Param.size <= WORD
      /\ TypeAt(fn, k + 1) = Param
  BY <1>1, <1>3, ParamType
<1>5. PICK up \in Int : /\ up = Align(count.offset, Param.align)
                          /\ count.offset <= up
  <2> DEFINE x == count.offset a == Param.align
  <2>1. x \in Int /\ a \in Nat \ {0}
    BY <1>3, <1>4
  <2> HIDE DEF x, a
  <2>2. Align(x, a) \in Int /\ x <= Align(x, a)
    BY <2>1, AlignUp
  <2> QED
    BY <2>2 DEF x, a
<1>6. PrepareStruct =>
         /\ offset' = [offset EXCEPT ![k + 1] = up]
         /\ count' = [count EXCEPT !.offset = up + Param.size]
  BY <1>5 DEF PrepareStruct
<1>7. PrepareScalar =>
         \E at \in Int : offset' = [offset EXCEPT ![k + 1] = at]
  <2>1. SaveArea(count.reg_param) \in Int
    BY <1>3, FrameAssumption DEF SaveArea
  <2>2. offset[k + 1] \in Int
    BY <1>1, <1>4 DEF Types
  <2> DEFINE at == IF ThroughStack THEN count.offset
                   ELSE IF fn.vaargs THEN SaveArea(count.reg_param)
                   ELSE offset[k + 1]
  <2>3. at \in Int
    BY <1>3, <2>1, <2>2
  <2>4. PrepareScalar => offset' = [offset EXCEPT ![k + 1] = at]
    BY DEF PrepareScalar
  <2> HIDE DEF at
  <2> QED
    BY <2>3, <2>4
<1>8. count' \in [ireg : Nat, freg : Nat, reg_param : Nat, offset : Nat]
  <2>1. up + Param.size \in Nat
    BY <1>3, <1>4, <1>5
  <2>2. count \in [ireg : Nat, freg : Nat, reg_param : Nat, offset : Nat]
    BY <1>1 DEF Types
  <2>3. CASE PrepareStruct
    BY <1>6, <2>1, <2>2, <2>3
  <2>4. CASE PrepareScalar
    <3> DEFINE i == IF Param.cls = "flo" THEN count.ireg ELSE count.ireg + 1
               f == IF Param.cls = "flo" THEN count.freg + 1 ELSE count.freg
               r == count.reg_param + 1
               o == IF ThroughStack THEN count.offset + WORD ELSE count.offset
    <3>1. i \in Nat /\ f \in Nat /\ r \in Nat /\ o \in Nat
      BY <1>3
    <3>2. count' = [count EXCEPT !.ireg = i, !.freg = f, !.reg_param = r, !.offset = o]
      BY <2>4 DEF PrepareScalar
    <3> HIDE DEF i, f, r, o
    <3> QED
      BY <2>2, <3>1, <3>2
  <2> QED
    BY <2>3, <2>4
<1>9. \E at \in Int : offset' = [offset EXCEPT ![k + 1] = at]
  BY <1>6, <1>7
<1>10. Types'
  <2>1. DOMAIN offset' = VRegs(fn) /\ \A v \in VRegs(fn) : offset'[v] \in Int
    BY <1>1, <1>9 DEF Types
  <2>2. k' \in 0..Len(fn.params)
    BY <1>2, <1>3, <1>4
  <2> QED
    BY <1>1, <1>2, <1>8, <2>1, <2>2 DEF Types
<1>11. Progressed'
  <2>1. todo = VRegs(fn)
    BY <1>1, <1>2 DEF Types
  <2> QED
    BY <1>2, <2>1 DEF Progressed
<1>12. ASSUME ~fn.vaargs
       PROVE  AboveReturn' /\ BelowBase' /\ SlotsDisjoint'
  <2> DEFINE p == k + 1
  <2>1. p \in VRegs(fn) /\ TypeAt(fn, p) = Param
    BY <1>4
  <2>2. count'.offset \in Nat
    BY <1>8
  <2>3. CASE PrepareStruct
    <3>1. count'.offset = up + TypeAt(fn, k + 1).size
      BY <1>1, <1>4, <1>6, <2>3 DEF Types
    <3>2. up + TypeAt(fn, k + 1).size <= count'.offset
      BY <1>8, <3>1
    <3>3. PICK q \in VRegs(fn) : q = k + 1
      BY <1>4
    <3> QED
      BY <1>2, <1>3, <1>5, <1>6, <1>12, <2>2, <2>3, <3>2, <3>3, StackParamStep
  <2>4. CASE PrepareScalar /\ ThroughStack
    <3>1. /\ offset' = [offset EXCEPT ![k + 1] = count.offset]
          /\ count'.offset = count.offset + WORD
      BY <1>1, <2>4 DEF PrepareScalar, Types
    <3>2. count.offset + TypeAt(fn, k + 1).size <= count'.offset
      BY <1>3, <1>4, <2>4, <3>1 DEF PrepareScalar
    <3>3. PICK q \in VRegs(fn) : q = k + 1
      BY <1>4
    <3>4. PICK at \in Int : at = count.offset
      BY <1>3
    <3>5. /\ at >= count.offset
          /\ offset' = [offset EXCEPT ![q] = at]
          /\ at + TypeAt(fn, q).size <= count'.offset
      BY <1>3, <3>1, <3>2, <3>3, <3>4
    <3> QED
      BY <1>2, <1>3, <1>12, <2>2, <3>3, <3>5, StackParamStep
  <2>5. CASE PrepareScalar /\ ~ThroughStack
    <3>1. /\ count'.offset = count.offset
          /\ offset' = [offset EXCEPT ![k + 1] = @]
      BY <1>1, <1>12, <2>5 DEF PrepareScalar, Types
    <3>2. AboveReturn /\ BelowBase /\ SlotsDisjoint
      BY <1>12 DEF IInv
    <3>3. /\ Placed' = Placed
          /\ \A v \in Placed : offset'[v] = offset[v] /\ End(v)' = End(v)
      <4>1. DOMAIN offset' = DOMAIN offset
            /\ \A v \in DOMAIN offset : offset'[v] = offset[v]
        BY <3>1
      <4> QED
        BY <1>2, <4>1 DEF Placed, End
    <3>4. AboveReturn'
      BY <1>2, <1>3, <3>1, <3>2, <3>3 DEF AboveReturn
    <3>5. BelowBase'
      BY <1>2, <3>2, <3>3 DEF BelowBase
    <3>6. SlotsDisjoint'
      BY <3>2, <3>3 DEF SlotsDisjoint, Apart
    <3> QED
      BY <3>4, <3>5, <3>6
  <2> QED
    BY <2>3, <2>4, <2>5, PrepareStruct \/ PrepareScalar
<1> QED
  BY <1>2, <1>10, <1>11, <1>12 DEF IInv

LEMMA NextIInv == IInv /\ [Next]_vars => IInv'
<1> SUFFICES ASSUME IInv, [Next]_vars PROVE IInv'
  OBVIOUS
<1>1. Types /\ Progressed
  BY DEF IInv
<1>2. CASE PrepareStruct \/ PrepareScalar
  BY <1>2, PrepareStep
<1>3. CASE Prepared
  <2>1. Types' /\ Progressed'
    BY <1>1, <1>3 DEF Prepared, Types, Progressed
  <2>2. frame_size \in Nat /\ frame_size' = frame_size
    BY <1>1, <1>3 DEF Prepared, Types
  <2> QED
    BY <1>3, <2>1, <2>2, KeptStep DEF Prepared
<1>4. ASSUME NEW v \in VRegs(fn), Place(v) PROVE IInv'
  BY <1>4, PlaceStep
<1>5. ASSUME NEW v \in VRegs(fn), Cover(v) PROVE IInv'
  <2>1. /\ UNCHANGED <<fn, step, k, count, offset>>
        /\ step = "place" /\ offset[v] # 0 /\ todo' = todo \ {v}
        /\ frame_size' = Covering(offset[v])
    BY <1>5 DEF Cover
  <2>2. offset[v] \in Int /\ frame_size \in Nat
    BY <1>1 DEF Types
  <2>3. frame_size' \in Nat /\ frame_size' >= frame_size
    BY <2>1, <2>2 DEF Covering
  <2>4. Types' /\ Progressed'
    BY <1>1, <2>1, <2>3 DEF Types, Progressed
  <2> QED
    BY <2>1, <2>3, <2>4, KeptStep
<1>6. CASE Round
  <2>1. frame_size \in Int /\ WORD \in Nat \ {0}
    BY <1>1 DEF Types, WORD
  <2>2. Align(frame_size, WORD) \in Int /\ frame_size <= Align(frame_size, WORD)
    BY <2>1, AlignUp
  <2>3. frame_size' \in Nat /\ frame_size' >= frame_size
    BY <1>1, <1>6, <2>2 DEF Round, Types
  <2>4. Types' /\ Progressed'
    BY <1>1, <1>6, <2>3 DEF Round, Types, Progressed
  <2> QED
    BY <1>6, <2>3, <2>4, KeptStep DEF Round
<1>7. CASE Done \/ UNCHANGED vars
  <2>1. UNCHANGED vars
    BY <1>7 DEF Done
  <2>2. Types' /\ Progressed'
    BY <1>1, <2>1 DEF vars, Types, Progressed
  <2>3. frame_size \in Nat
    BY <1>1 DEF Types
  <2> QED
    BY <2>1, <2>2, <2>3, KeptStep DEF vars
<1> QED
  BY <1>2, <1>3, <1>4, <1>5, <1>6, <1>7 DEF Next

LEMMA SpecIInv == Spec => []IInv
  BY InitIInv, NextIInv, PTL DEF Spec

\* The counters and offsets have their types, and in a finished frame every
\* spilled register has a place, in every function.
THEOREM FrameTypeOK == Spec => []TypeOK
<1>1. IInv => TypeOK
  BY DEF IInv, Types, Progressed, TypeOK, Placed
<1> QED
  BY <1>1, SpecIInv, PTL


-----------------------------------------------------------------------------
(* The counters of the prologue, which goes through the parameters again   *)

LEMMA Least == ASSUME NEW S \in SUBSET Nat, S # {} PROVE \E n \in S : \A m \in S : n <= m
<1>1. IsWellFoundedOn(OpToRel(<, Nat), Nat)
  BY NatLessThanWellFounded
<1>2. PICK n \in S : \A m \in S : ~(<<m, n>> \in OpToRel(<, Nat))
  BY <1>1, WFMin
<1>3. ASSUME NEW m \in S PROVE n <= m
  <2>1. m \in Nat /\ n \in Nat
    OBVIOUS
  <2>2. ~(m < n)
    BY <1>2, <2>1 DEF OpToRel
  <2> QED BY <2>1, <2>2
<1> QED
  BY <1>3


\* The counters after each number of parameters.
PassedFrom(h, f, limit) ==
    h = [j \in 0..limit |-> IF j = 0 THEN [ireg |-> First(f), freg |-> 0]
                            ELSE Counted(f, j, h[j - 1])]

LEMMA PassedExists == ASSUME NEW f, NEW limit \in Nat PROVE \E h : PassedFrom(h, f, limit)
<1> DEFINE None == {n \in Nat : ~\E h : PassedFrom(h, f, n)}
           zero == [ireg |-> First(f), freg |-> 0]
<1>1. SUFFICES ASSUME None # {} PROVE FALSE
  OBVIOUS
<1>2. None \in SUBSET Nat
  OBVIOUS
<1> HIDE DEF None
<1>3. PICK n \in None : \A m \in None : n <= m
  BY <1>1, <1>2, Least
<1>4. n \in Nat /\ ~\E h : PassedFrom(h, f, n)
  BY DEF None
<1>5. n # 0
  <2>1. PassedFrom([j \in 0..0 |-> zero], f, 0)
    BY DEF PassedFrom
  <2> QED BY <1>4, <2>1
<1>6. n - 1 \in Nat /\ n - 1 \notin None
  BY <1>3, <1>4, <1>5
<1>7. PICK h : PassedFrom(h, f, n - 1)
  BY <1>6 DEF None
<1> DEFINE g == [j \in 0..n |-> IF j = n THEN Counted(f, n, h[n - 1]) ELSE h[j]]
<1>8. ASSUME NEW j \in 0..n
      PROVE  g[j] = IF j = 0 THEN zero ELSE Counted(f, j, g[j - 1])
  <2>1. CASE j = 0
    <3>1. h[0] = zero
      BY <1>6, <1>7 DEF PassedFrom
    <3> QED BY <1>5, <2>1, <3>1
  <2>2. CASE j = n
    <3>1. g[n - 1] = h[n - 1]
      BY <1>4, <1>6
    <3> QED BY <1>4, <1>5, <2>2, <3>1
  <2>3. CASE j # 0 /\ j # n
    <3>1. j \in 0..(n - 1) /\ j - 1 \in 0..n /\ j - 1 # n
      BY <1>4, <2>3
    <3>2. h[j] = Counted(f, j, h[j - 1])
      BY <1>7, <2>3, <3>1 DEF PassedFrom
    <3>3. g[j] = h[j] /\ g[j - 1] = h[j - 1]
      BY <2>3, <3>1
    <3> QED BY <2>3, <3>2, <3>3
  <2> QED BY <2>1, <2>2, <2>3
<1>9. PassedFrom(g, f, n)
  BY <1>8 DEF PassedFrom
<1> QED
  BY <1>4, <1>9

LEMMA ArgCountType ==
    ASSUME NEW f \in Functions
    PROVE  ArgCount(f) \in Nat /\ Len(f.params) <= ArgCount(f) /\ Len(f.params) \in Nat
BY FunctionType, FrameAssumption DEF ArgCount

LEMMA PassedSteps ==
    ASSUME NEW f \in Functions
    PROVE  /\ Passed(f)[0] = [ireg |-> First(f), freg |-> 0]
           /\ \A j \in 1..Len(f.params) : Passed(f)[j] = Counted(f, j, Passed(f)[j - 1])
<1>1. ArgCount(f) \in Nat /\ Len(f.params) <= ArgCount(f) /\ Len(f.params) \in Nat
  BY ArgCountType
<1>2. PassedFrom(Passed(f), f, ArgCount(f))
  <2>1. PICK h : PassedFrom(h, f, ArgCount(f))
    BY <1>1, PassedExists
  <2> QED BY <2>1 DEF Passed, PassedFrom
<1>3. ASSUME NEW j \in 1..Len(f.params)
      PROVE  Passed(f)[j] = Counted(f, j, Passed(f)[j - 1])
  <2>1. j \in 0..ArgCount(f) /\ j # 0
    BY <1>1
  <2> QED BY <1>2, <2>1 DEF PassedFrom
<1>4. 0 \in 0..ArgCount(f)
  BY <1>1
<1> QED BY <1>2, <1>3, <1>4 DEF PassedFrom

-----------------------------------------------------------------------------
(* Which parameters lie where the prologue may store them                  *)

\* regalloc.c and emit_code.c count alike, and a parameter that came in a
\* register has no place above the return address.
Counts ==
    /\ step = "prepare" => Passed(fn)[k] = [ireg |-> count.ireg, freg |-> count.freg]
    /\ step # "prepare" => k = Len(fn.params)
RegistersBelow == \A p \in 1..k : InRegister(p) => offset[p] <= 0

\* The parameters of a simple variadic function lie in its save area.
SavedInOrder ==
    /\ count.ireg = k /\ count.reg_param = k
    /\ \A v \in VRegs(fn) : offset[v] = IF v <= k THEN SaveArea(v - 1) ELSE 0
    /\ \A v \in VRegs(fn) \ todo : -frame_size <= offset[v]

SInv ==
    /\ Counts
    /\ ~fn.vaargs => RegistersBelow
    /\ (fn.vaargs /\ SimpleVariadic(fn)) => SavedInOrder

LEMMA SimpleFunction ==
    ASSUME NEW f \in Functions, SimpleVariadic(f)
    PROVE  /\ Len(f.params) \in 1..MaxRegArgs
           /\ VRegs(f) = 1..Len(f.params)
           /\ First(f) = 0
           /\ \A v \in VRegs(f) : TypeAt(f, v).size \in 0..WORD /\ f.params[v].cls = "int"
<1>1. Len(f.params) \in 1..MaxRegArgs /\ Len(f.locals) = 0 /\ ~f.ret_struct
      /\ MaxRegArgs \in Nat
  BY FrameAssumption DEF SimpleVariadic
<1>2. VRegs(f) = 1..Len(f.params)
  BY <1>1 DEF VRegs
<1>3. ASSUME NEW v \in VRegs(f) PROVE TypeAt(f, v).size \in 0..WORD /\ f.params[v].cls = "int"
  <2>1. v \in DOMAIN f.params /\ v # 0 /\ v \in 1..Len(f.params)
    BY <1>1, <1>2, FunctionType
  <2>2. f.params[v].cls = "int" /\ f.params[v] \in TypesOf(f)
    BY <2>1 DEF SimpleVariadic, TypesOf
  <2>3. f.params[v].size \in Nat /\ f.params[v].size <= WORD
    BY <2>2, FunctionType
  <2>4. TypeAt(f, v) = f.params[v]
    BY <2>1 DEF TypeAt, Params
  <2> QED BY <2>2, <2>3, <2>4 DEF WORD
<1> QED
  BY <1>1, <1>2, <1>3 DEF First

\* A place in the save area is a word below rbp, one after the other.
LEMMA SaveAreaPlaces ==
    ASSUME NEW n \in 1..MaxRegArgs
    PROVE  /\ SaveArea(n - 1) \in Int /\ SaveArea(0) <= SaveArea(n - 1)
           /\ SaveArea(n - 1) + WORD <= 0
           /\ \A m \in 1..MaxRegArgs : n < m => SaveArea(n - 1) + WORD <= SaveArea(m - 1)
BY FrameAssumption DEF SaveArea, WORD

LEMMA ParamsAreVRegs ==
    ASSUME NEW f \in Functions, NEW p \in 1..Len(f.params)
    PROVE  p \in VRegs(f)
<1> DEFINE n == Len(f.params) m == Len(f.locals)
<1>1. n \in Nat /\ m \in Nat /\ p \in 1..n
  BY FunctionType
<1>2. p \in 0 .. (n + m) /\ p # 0
  <2> HIDE DEF n, m
  <2> QED BY <1>1
<1> QED BY <1>2 DEF VRegs

LEMMA InitSInv == Init => SInv
<1> SUFFICES ASSUME Init PROVE SInv
  OBVIOUS
<1>1. fn \in Functions /\ k = 0 /\ step = "prepare" /\ todo = VRegs(fn)
      /\ count.ireg = First(fn) /\ count.freg = 0 /\ count.reg_param = First(fn)
      /\ \A v \in VRegs(fn) : offset[v] = 0
  BY DEF Init
<1>2. Counts
  BY <1>1, PassedSteps DEF Counts
<1>3. RegistersBelow
  BY <1>1 DEF RegistersBelow
<1>4. SimpleVariadic(fn) => SavedInOrder
  BY <1>1, SimpleFunction DEF SavedInOrder
<1> QED BY <1>2, <1>3, <1>4 DEF SInv

\* What a step of the first loop does to the counters.
LEMMA CountsStep ==
    ASSUME IInv, SInv, PrepareStruct \/ PrepareScalar
    PROVE  Counts' /\ (InRegister(k + 1) => Param.cls # "struct" /\ ~ThroughStack)
<1>1. Types /\ Preparing /\ fn' = fn /\ k' = k + 1 /\ step' = step /\ step = "prepare"
  BY DEF IInv, PrepareStruct, PrepareScalar, Preparing
<1>2. k + 1 \in 1..Len(fn.params) /\ k \in Nat /\ fn \in Functions
      /\ Len(fn.params) \in Nat
  BY <1>1, ParamType, FunctionType DEF Types
<1>3. Passed(fn)[k] = [ireg |-> count.ireg, freg |-> count.freg]
  BY <1>1 DEF SInv, Counts
<1>4. Passed(fn)[k + 1] = Counted(fn, k + 1, Passed(fn)[k])
  <2>1. (k + 1) - 1 = k
    BY <1>2
  <2> QED BY <1>2, <2>1, PassedSteps
<1>5. /\ ~(k + 1 > Len(fn.params)) /\ fn.params[k + 1] = Param /\ (k + 1) - 1 = k
      /\ Param.cls \in {"int", "flo", "struct"}
  <2>1. Param \in TypesOf(fn)
    BY <1>2, FunctionType DEF TypesOf, Param
  <2>2. Param.cls \in {"int", "flo", "struct"}
    BY <1>2, <2>1, FrameAssumption
  <2> QED BY <1>2, <2>2 DEF Param
<1>6. count \in [ireg : Nat, freg : Nat, reg_param : Nat, offset : Nat]
  BY <1>1 DEF Types
<1>7. Passed(fn)[k + 1] = [ireg |-> count'.ireg, freg |-> count'.freg]
  <2>1. CASE PrepareStruct
    <3>1. Param.cls = "struct" /\ count'.ireg = count.ireg /\ count'.freg = count.freg
      BY <1>6, <2>1 DEF PrepareStruct
    <3> QED BY <1>3, <1>4, <1>5, <3>1 DEF Counted
  <2>2. CASE PrepareScalar
    <3>1. /\ Param.cls # "struct"
          /\ count'.ireg = IF Param.cls = "flo" THEN count.ireg ELSE count.ireg + 1
          /\ count'.freg = IF Param.cls = "flo" THEN count.freg + 1 ELSE count.freg
      BY <1>6, <2>2 DEF PrepareScalar
    <3>2. CASE Param.cls = "flo"
      BY <1>3, <1>4, <1>5, <3>1, <3>2 DEF Counted
    <3>3. CASE Param.cls = "int"
      BY <1>3, <1>4, <1>5, <3>1, <3>3 DEF Counted
    <3> QED BY <1>5, <3>1, <3>2, <3>3
  <2> QED BY <2>1, <2>2, PrepareStruct \/ PrepareScalar
<1>8. Counts'
  BY <1>1, <1>7 DEF Counts
<1>9. InRegister(k + 1) => Param.cls # "struct" /\ ~ThroughStack
  BY <1>3, <1>5, <1>6, FrameAssumption DEF InRegister, ThroughStack
<1> QED BY <1>8, <1>9

LEMMA PrepareSInv ==
    ASSUME IInv, SInv, PrepareStruct \/ PrepareScalar
    PROVE  SInv'
<1>1. Types /\ Preparing /\ fn' = fn /\ k' = k + 1 /\ step' = step /\ step = "prepare"
      /\ todo' = todo /\ frame_size' = frame_size /\ todo = VRegs(fn)
  BY DEF IInv, PrepareStruct, PrepareScalar, Preparing, Types
<1>2. k + 1 \in 1..Len(fn.params) /\ k + 1 \in VRegs(fn) /\ k \in Nat /\ fn \in Functions
      /\ Len(fn.params) \in Nat
  BY <1>1, ParamType, FunctionType DEF Types
<1>3. Counts' /\ (InRegister(k + 1) => Param.cls # "struct" /\ ~ThroughStack)
  BY CountsStep
<1>4. /\ \A v \in VRegs(fn) : v # k + 1 => offset'[v] = offset[v]
      /\ \A v \in VRegs(fn) : offset[v] \in Int
      /\ DOMAIN offset = VRegs(fn)
      /\ count \in [ireg : Nat, freg : Nat, reg_param : Nat, offset : Nat]
  BY <1>1 DEF Types, PrepareStruct, PrepareScalar
<1>5. ASSUME ~fn.vaargs PROVE RegistersBelow'
  <2>1. RegistersBelow /\ BelowBase
    BY <1>5 DEF SInv, IInv
  <2>2. ASSUME NEW p \in 1..(k + 1), InRegister(p) PROVE offset'[p] <= 0
    <3>1. CASE p = k + 1
      <4>1. PrepareScalar /\ ~ThroughStack
        BY <1>3, <2>2, <3>1 DEF PrepareStruct
      <4>2. offset'[p] = offset[p]
        BY <1>2, <1>4, <1>5, <3>1, <4>1 DEF PrepareScalar
      <4>3. p \in Placed => offset[p] > 0 /\ p \in 1..k
        BY <1>1, <1>2, <1>5, <3>1 DEF IInv, AboveReturn, BelowBase
      <4>4. p \notin 1..k
        BY <1>2, <3>1
      <4>5. offset[p] = 0
        BY <1>2, <1>4, <3>1, <4>3, <4>4 DEF Placed
      <4> QED BY <4>2, <4>5
    <3>2. CASE p # k + 1
      <4>1. p \in 1..k /\ p \in VRegs(fn)
        <5>1. p \in 1..k /\ p \in 1..Len(fn.params)
          BY <1>2, <3>2
        <5> QED BY <1>2, <5>1, ParamsAreVRegs
      <4> QED BY <1>4, <2>1, <2>2, <3>2, <4>1 DEF RegistersBelow
    <3> QED BY <3>1, <3>2
  <2>3. \A p : InRegister(p)' <=> InRegister(p)
    BY <1>1 DEF InRegister
  <2> QED BY <1>1, <2>2, <2>3 DEF RegistersBelow
<1>6. ASSUME fn.vaargs, SimpleVariadic(fn) PROVE SavedInOrder'
  <2>1. SavedInOrder /\ Len(fn.params) \in 1..MaxRegArgs /\ VRegs(fn) = 1..Len(fn.params)
    BY <1>2, <1>6, SimpleFunction DEF SInv
  <2>2. Param.cls = "int"
    BY <1>2, <1>6, SimpleFunction DEF Param
  <2>3. PrepareScalar
    BY <2>2 DEF PrepareStruct
  <2>4. ~ThroughStack
    BY <1>2, <1>4, <2>1, <2>2, FrameAssumption DEF ThroughStack, SavedInOrder
  <2>5. count'.ireg = k + 1 /\ count'.reg_param = k + 1
    BY <1>4, <2>1, <2>2, <2>3 DEF PrepareScalar, SavedInOrder
  <2>6. offset'[k + 1] = SaveArea((k + 1) - 1)
    <3>1. offset'[k + 1] = SaveArea(count.reg_param)
      BY <1>2, <1>4, <1>6, <2>3, <2>4 DEF PrepareScalar
    <3> QED BY <1>2, <2>1, <3>1 DEF SavedInOrder
  <2>7. ASSUME NEW v \in VRegs(fn)
        PROVE  offset'[v] = IF v <= k + 1 THEN SaveArea(v - 1) ELSE 0
    <3>1. CASE v = k + 1
      BY <1>2, <2>6, <3>1
    <3>2. CASE v # k + 1
      BY <1>2, <1>4, <2>1, <3>2 DEF SavedInOrder
    <3> QED BY <3>1, <3>2
  <2> QED BY <1>1, <2>5, <2>7 DEF SavedInOrder
<1> QED BY <1>1, <1>3, <1>5, <1>6 DEF SInv

\* When no place changes and the frame does not shrink.
LEMMA KeptSInv ==
    ASSUME IInv, IInv', SInv, UNCHANGED <<fn, k, count, offset>>,
           step' = "prepare" => step = "prepare",
           step' # "prepare" => k = Len(fn.params),
           frame_size' >= frame_size,
           \A v \in todo \ todo' : -frame_size' <= offset[v]
    PROVE  SInv'
<1>1. Types /\ Types'
  BY DEF IInv
<1>2. \A p : InRegister(p)' <=> InRegister(p)
  BY DEF InRegister
<1>3. Counts'
  BY DEF SInv, Counts
<1>4. RegistersBelow => RegistersBelow'
  BY <1>2 DEF RegistersBelow
<1>5. SavedInOrder => SavedInOrder'
  <2>1. ASSUME SavedInOrder, NEW v \in VRegs(fn) \ todo' PROVE -frame_size' <= offset[v]
    <3>1. CASE v \in todo
      BY <2>1, <3>1
    <3>2. CASE v \notin todo
      <4>1. -frame_size <= offset[v]
        BY <2>1, <3>2 DEF SavedInOrder
      <4> QED BY <1>1, <4>1 DEF Types
    <3> QED BY <3>1, <3>2
  <2> QED BY <2>1 DEF SavedInOrder
<1> QED BY <1>3, <1>4, <1>5 DEF SInv

LEMMA PlaceSInv ==
    ASSUME IInv, SInv, NEW v \in VRegs(fn), Place(v)
    PROVE  SInv'
<1>1. Types /\ UNCHANGED <<fn, step, k, count>> /\ step = "place" /\ offset[v] = 0
      /\ k = Len(fn.params) /\ DOMAIN offset = VRegs(fn)
      /\ offset' = [offset EXCEPT ![v] = -frame_size']
  BY DEF IInv, SInv, Counts, Types, Place
<1>2. Counts'
  BY <1>1 DEF Counts
<1>3. ASSUME ~fn.vaargs PROVE RegistersBelow'
  <2>1. RegistersBelow
    BY <1>3 DEF SInv
  <2>2. frame_size' \in Nat
    <3>1. IInv'
      BY PlaceStep DEF Next
    <3> QED BY <3>1 DEF IInv, Types
  <2>3. ASSUME NEW p \in 1..k, InRegister(p) PROVE offset'[p] <= 0
    <3>1. CASE p = v
      <4>1. offset'[v] = -frame_size'
        BY <1>1
      <4>2. \A n \in Nat : -n <= 0
        OBVIOUS
      <4> QED BY <2>2, <3>1, <4>1, <4>2
    <3>2. CASE p # v
      <4>1. p \in VRegs(fn) /\ offset'[p] = offset[p]
        BY <1>1, <2>3, <3>2, ParamsAreVRegs DEF Types
      <4> QED BY <2>1, <2>3, <4>1 DEF RegistersBelow
    <3> QED BY <3>1, <3>2
  <2>4. \A p : InRegister(p)' <=> InRegister(p)
    BY <1>1 DEF InRegister
  <2> QED BY <1>1, <2>3, <2>4 DEF RegistersBelow
<1>4. ASSUME fn.vaargs, SimpleVariadic(fn) PROVE FALSE
  <2>1. SavedInOrder /\ Len(fn.params) \in 1..MaxRegArgs /\ VRegs(fn) = 1..Len(fn.params)
        /\ fn \in Functions
    BY <1>1, <1>4, SimpleFunction DEF SInv, Types
  <2>2. v \in 1..MaxRegArgs /\ v <= k
    BY <1>1, <2>1, FrameAssumption
  <2>3. SaveArea(v - 1) + WORD <= 0 /\ offset[v] = SaveArea(v - 1)
    BY <2>1, <2>2, SaveAreaPlaces DEF SavedInOrder
  <2> QED BY <1>1, <2>3 DEF WORD
<1> QED BY <1>1, <1>2, <1>3, <1>4 DEF SInv

LEMMA NextSInv == IInv /\ IInv' /\ SInv /\ [Next]_vars => SInv'
<1> SUFFICES ASSUME IInv, IInv', SInv, [Next]_vars PROVE SInv'
  OBVIOUS
<1>1. Types /\ Types' /\ Counts
  BY DEF IInv, SInv
<1>2. CASE PrepareStruct \/ PrepareScalar
  BY <1>2, PrepareSInv
<1>3. CASE Prepared
  BY <1>1, <1>3, KeptSInv DEF Prepared, Types
<1>4. ASSUME NEW v \in VRegs(fn), Place(v) PROVE SInv'
  BY <1>4, PlaceSInv
<1>5. ASSUME NEW v \in VRegs(fn), Cover(v) PROVE SInv'
  <2>1. /\ UNCHANGED <<fn, step, k, count, offset>> /\ step = "place"
        /\ todo' = todo \ {v} /\ frame_size' = Covering(offset[v])
    BY <1>5 DEF Cover
  <2>2. frame_size' >= frame_size /\ -frame_size' <= offset[v]
    BY <1>1, <2>1 DEF Covering, Types
  <2>3. k = Len(fn.params)
    BY <1>1, <2>1 DEF Counts
  <2>4. \A w \in todo \ todo' : -frame_size' <= offset[w]
    BY <2>1, <2>2
  <2> QED BY <2>1, <2>2, <2>3, <2>4, KeptSInv
<1>6. CASE Round
  <2>1. frame_size \in Int /\ WORD \in Nat \ {0}
    BY <1>1 DEF Types, WORD
  <2>2. frame_size' >= frame_size
    BY <1>6, <2>1, AlignUp DEF Round
  <2>3. k = Len(fn.params)
    BY <1>1, <1>6 DEF Round, Counts
  <2> QED BY <1>6, <2>2, <2>3, KeptSInv DEF Round
<1>7. CASE Done \/ UNCHANGED vars
  <2>1. UNCHANGED vars
    BY <1>7 DEF Done
  <2>2. frame_size' >= frame_size
    BY <1>1, <2>1 DEF vars, Types
  <2> QED BY <1>1, <2>1, <2>2, KeptSInv DEF vars, Counts
<1> QED
  BY <1>2, <1>3, <1>4, <1>5, <1>6, <1>7 DEF Next

LEMMA SpecSInv == Spec => [](IInv /\ SInv)
<1>1. Init => IInv /\ SInv
  BY InitIInv, InitSInv
<1>2. IInv /\ SInv /\ [Next]_vars => IInv' /\ SInv'
  BY NextIInv, NextSInv
<1> QED
  BY <1>1, <1>2, PTL DEF Spec

-----------------------------------------------------------------------------
\* Places in a save area do not touch, and lie below rbp.
LEMMA SavedApart ==
    ASSUME IInv, SInv, fn.vaargs, SimpleVariadic(fn), NEW v \in VRegs(fn),
           NEW n \in 1..MaxRegArgs, v <= k
    PROVE  /\ End(v) <= 0
           /\ v < n => End(v) <= SaveArea(n - 1)
           /\ n < v => SaveArea(n - 1) + WORD <= offset[v]
<1>1. fn \in Functions /\ SavedInOrder
  BY DEF IInv, SInv, Types
<1>2. Len(fn.params) \in 1..MaxRegArgs /\ v \in 1..Len(fn.params) /\ TypeAt(fn, v).size \in 0..WORD
  BY <1>1, SimpleFunction
<1>3. v \in 1..MaxRegArgs /\ n \in Int /\ v \in Int
  BY <1>2, FrameAssumption
<1>4. offset[v] = SaveArea(v - 1) /\ End(v) = SaveArea(v - 1) + TypeAt(fn, v).size
  BY <1>1 DEF SavedInOrder, End
<1>5. /\ SaveArea(v - 1) \in Int /\ SaveArea(n - 1) \in Int
      /\ SaveArea(v - 1) + WORD <= 0
      /\ v < n => SaveArea(v - 1) + WORD <= SaveArea(n - 1)
      /\ n < v => SaveArea(n - 1) + WORD <= SaveArea(v - 1)
  BY <1>3, SaveAreaPlaces
<1>6. SaveArea(v - 1) + TypeAt(fn, v).size <= SaveArea(v - 1) + WORD
  BY <1>2, <1>5 DEF WORD
<1> QED BY <1>2, <1>4, <1>5, <1>6 DEF WORD

\* In a function that is not variadic, or that is and has nothing in its
\* frame but integer parameters that fit in the registers, no two variables
\* share a byte, whatever the order of the intervals.
THEOREM FrameDisjoint == Spec => [](GoodFunction(fn) => SlotsDisjoint)
<1>1. ASSUME IInv, SInv, fn.vaargs, SimpleVariadic(fn) PROVE SlotsDisjoint
  <2>1. fn \in Functions /\ SavedInOrder /\ DOMAIN offset = VRegs(fn)
    BY <1>1 DEF IInv, SInv, Types
  <2>2. Len(fn.params) \in 1..MaxRegArgs /\ VRegs(fn) = 1..Len(fn.params) /\ MaxRegArgs \in Nat
    BY <1>1, <2>1, SimpleFunction, FrameAssumption
  <2>3. ASSUME NEW v \in Placed PROVE v \in VRegs(fn) /\ v <= k /\ v \in 1..MaxRegArgs
                                      /\ offset[v] = SaveArea(v - 1)
    BY <2>1, <2>2 DEF Placed, SavedInOrder
  <2>4. ASSUME NEW v \in Placed, NEW w \in Placed, v < w PROVE Apart(v, w)
    BY <1>1, <2>3, <2>4, SavedApart DEF Apart
  <2>5. ASSUME NEW v \in Placed, NEW w \in Placed, v # w PROVE v < w \/ w < v
    BY <2>3, <2>5
  <2> QED BY <2>4, <2>5 DEF SlotsDisjoint, Apart
<1>2. IInv /\ SInv => (GoodFunction(fn) => SlotsDisjoint)
  BY <1>1 DEF IInv, GoodFunction
<1> QED
  BY <1>2, SpecSInv, PTL

\* In such functions every variable is in the frame or, put there by the
\* caller, above the return address.
THEOREM FrameInBounds == Spec => [](GoodFunction(fn) => SlotsInFrame)
<1>1. ASSUME IInv, ~fn.vaargs PROVE SlotsInFrame
  <2>1. AboveReturn /\ BelowBase /\ Types
    BY <1>1 DEF IInv
  <2>2. ASSUME NEW v \in Placed
        PROVE  \/ -frame_size <= offset[v] /\ End(v) <= 0
               \/ offset[v] >= 2 * WORD
    <3>1. offset[v] \in Int /\ offset[v] # 0
      BY <2>1 DEF Types, Placed
    <3>2. CASE offset[v] > 0
      BY <2>1, <3>2 DEF AboveReturn
    <3>3. CASE offset[v] < 0
      BY <2>1, <3>3 DEF BelowBase
    <3> QED
      BY <3>1, <3>2, <3>3
  <2> QED
    BY <2>2 DEF SlotsInFrame
<1>2. ASSUME IInv, SInv, fn.vaargs, SimpleVariadic(fn) PROVE SlotsInFrame
  <2>1. fn \in Functions /\ SavedInOrder /\ DOMAIN offset = VRegs(fn)
    BY <1>2 DEF IInv, SInv, Types
  <2>2. Len(fn.params) \in 1..MaxRegArgs /\ VRegs(fn) = 1..Len(fn.params) /\ MaxRegArgs \in Nat
    BY <1>2, <2>1, SimpleFunction, FrameAssumption
  <2>3. ASSUME NEW v \in Placed \ todo PROVE -frame_size <= offset[v] /\ End(v) <= 0
    <3>1. v \in VRegs(fn) \ todo /\ v <= k /\ v \in 1..MaxRegArgs
      BY <2>1, <2>2, <2>3 DEF Placed, SavedInOrder
    <3>2. End(v) <= 0
      BY <1>2, <3>1, SavedApart
    <3> QED BY <2>1, <3>1, <3>2 DEF SavedInOrder
  <2> QED BY <2>3 DEF SlotsInFrame
<1>3. IInv /\ SInv => (GoodFunction(fn) => SlotsInFrame)
  BY <1>1, <1>2 DEF GoodFunction
<1> QED
  BY <1>3, SpecSInv, PTL

\* A store of a parameter writes the place of the parameter.
LEMMA PlainStores ==
    ASSUME IInv, SInv, ~fn.vaargs, step = "done", NEW s \in Stores
    PROVE  /\ s.of \in VRegs(fn) /\ s.at = offset[s.of] /\ s.size = TypeAt(fn, s.of).size
           /\ s.at < 0
<1>1. Types /\ Placed = VRegs(fn) /\ AboveReturn /\ RegistersBelow /\ k = Len(fn.params)
      /\ k \in Nat /\ fn \in Functions
  BY FunctionType DEF IInv, SInv, Types, Progressed, Placed, Counts
<1>2. CASE fn.ret_struct /\ s = [of |-> 0, at |-> offset[0], size |-> WORD]
  <2>1. 0 \in VRegs(fn)
    <3> DEFINE n == Len(fn.params) m == Len(fn.locals)
    <3>1. n \in Nat /\ m \in Nat
      BY <1>1, FunctionType
    <3>2. 0 \in 0 .. (n + m)
      <4> HIDE DEF n, m
      <4> QED BY <3>1
    <3> QED BY <1>2, <3>2 DEF VRegs
  <2>2. TypeAt(fn, 0).size = WORD
    BY DEF TypeAt, Pointer
  <2>3. offset[0] \in Int /\ offset[0] # 0
    BY <1>1, <2>1 DEF Types, Placed
  <2>4. ~(offset[0] > 0)
    BY <1>1, <2>1 DEF AboveReturn
  <2> QED BY <1>2, <2>1, <2>2, <2>3, <2>4
<1>3. CASE \E p \in 1..Len(fn.params) :
              InRegister(p) /\ s = [of |-> p, at |-> offset[p], size |-> fn.params[p].size]
  <2>1. PICK p \in 1..Len(fn.params) :
              InRegister(p) /\ s = [of |-> p, at |-> offset[p], size |-> fn.params[p].size]
    BY <1>3
  <2>2. p \in VRegs(fn) /\ offset[p] \in Int /\ offset[p] # 0
    BY <1>1, <2>1, ParamsAreVRegs DEF Types, Placed
  <2>3. offset[p] <= 0
    BY <1>1, <2>1 DEF RegistersBelow
  <2>4. TypeAt(fn, p) = fn.params[p]
    BY <1>1, <2>1 DEF TypeAt, Params
  <2> QED BY <2>1, <2>2, <2>3, <2>4
<1>4. ArgCount(fn) = Len(fn.params)
  BY DEF ArgCount
<1> QED BY <1>1, <1>2, <1>3, <1>4 DEF Stores

\* In such functions the prologue stores the argument registers inside the
\* frame and over no variable but the parameter each store is for.
THEOREM FrameArgumentsStored == Spec => [](GoodFunction(fn) => ArgumentsStored)
<1>1. ASSUME IInv, SInv, ~fn.vaargs, step = "done", NEW s \in Stores
      PROVE  /\ -frame_size <= s.at /\ s.at + s.size <= 0
             /\ \A v \in VRegs(fn) \ {s.of} :
                   End(v) <= s.at \/ s.at + s.size <= offset[v]
  <2>1. /\ s.of \in VRegs(fn) /\ s.at = offset[s.of] /\ s.size = TypeAt(fn, s.of).size
        /\ s.at < 0
    BY <1>1, PlainStores
  <2>2. Placed = VRegs(fn) /\ BelowBase /\ SlotsDisjoint
    BY <1>1 DEF IInv, Types, Progressed, Placed
  <2>3. End(s.of) = s.at + s.size
    BY <2>1 DEF End
  <2>4. -frame_size <= s.at /\ End(s.of) <= 0
    BY <2>1, <2>2 DEF BelowBase
  <2>5. \A v \in VRegs(fn) \ {s.of} : Apart(v, s.of)
    BY <2>1, <2>2 DEF SlotsDisjoint
  <2> QED BY <2>1, <2>3, <2>4, <2>5 DEF Apart
<1>2. ASSUME IInv, SInv, fn.vaargs, SimpleVariadic(fn), step = "done", NEW s \in Stores
      PROVE  /\ -frame_size <= s.at /\ s.at + s.size <= 0
             /\ \A v \in VRegs(fn) \ {s.of} :
                   End(v) <= s.at \/ s.at + s.size <= offset[v]
  <2>1. fn \in Functions /\ SavedInOrder /\ todo = {} /\ k = Len(fn.params) /\ frame_size \in Nat
    BY <1>2 DEF IInv, SInv, Types, Counts
  <2>2. Len(fn.params) \in 1..MaxRegArgs /\ VRegs(fn) = 1..Len(fn.params) /\ MaxRegArgs \in Nat
        /\ ~fn.ret_struct
    BY <1>2, <2>1, SimpleFunction, FrameAssumption DEF SimpleVariadic
  <2>3. ArgCount(fn) = MaxRegArgs
    BY <1>2, <2>2 DEF ArgCount
  <2>4. PICK p \in 1..MaxRegArgs :
           s = IF p <= Len(fn.params)
               THEN [of |-> p, at |-> offset[p], size |-> fn.params[p].size]
               ELSE [of |-> p, at |-> SaveArea(p - 1), size |-> WORD]
    BY <2>2, <2>3 DEF Stores
  <2>5. s.of = p /\ s.at = SaveArea(p - 1) /\ s.size \in 0..WORD
    <3>1. CASE p <= Len(fn.params)
      <4>1. p \in VRegs(fn) /\ p <= k
        BY <2>1, <2>2, <3>1
      <4>2. TypeAt(fn, p) = fn.params[p] /\ TypeAt(fn, p).size \in 0..WORD
        BY <1>2, <2>1, <2>2, <4>1, SimpleFunction DEF TypeAt, Params
      <4> QED BY <2>1, <2>4, <3>1, <4>1, <4>2 DEF SavedInOrder
    <3>2. CASE ~(p <= Len(fn.params))
      BY <2>4, <3>2 DEF WORD
    <3> QED BY <3>1, <3>2
  <2>6. SaveArea(0) <= SaveArea(p - 1) /\ SaveArea(p - 1) + WORD <= 0 /\ SaveArea(p - 1) \in Int
    BY SaveAreaPlaces
  <2>7. -frame_size <= SaveArea(0)
    <3>1. 1 \in VRegs(fn) /\ 1 <= k /\ 1 - 1 = 0
      BY <2>1, <2>2
    <3> QED BY <2>1, <3>1 DEF SavedInOrder
  <2>8. SaveArea(0) \in Int
    BY <2>2 DEF SaveArea, WORD
  <2>9. ASSUME NEW v \in VRegs(fn) \ {p}
        PROVE  End(v) <= SaveArea(p - 1) \/ SaveArea(p - 1) + WORD <= offset[v]
    <3>1. v \in VRegs(fn) /\ v <= k /\ (v < p \/ p < v)
      BY <2>1, <2>2
    <3> QED BY <1>2, <3>1, SavedApart
  <2>10. \A v \in VRegs(fn) : offset[v] \in Int
    BY <1>2 DEF IInv, Types
  <2> HIDE DEF SaveArea
  <2>11. -frame_size <= s.at /\ s.at + s.size <= 0
    BY <2>1, <2>5, <2>6, <2>7, <2>8 DEF WORD
  <2>12. ASSUME NEW v \in VRegs(fn) \ {p}
        PROVE  End(v) <= s.at \/ s.at + s.size <= offset[v]
    <3>1. offset[v] \in Int
      BY <2>10
    <3>2. SaveArea(p - 1) + WORD <= offset[v] => s.at + s.size <= offset[v]
      BY <2>5, <2>6, <3>1 DEF WORD
    <3> QED BY <2>5, <2>9, <3>2
  <2> QED BY <2>5, <2>11, <2>12
<1>3. IInv /\ SInv => (GoodFunction(fn) => ArgumentsStored)
  BY <1>1, <1>2 DEF GoodFunction, ArgumentsStored
<1> QED
  BY <1>3, SpecSInv, PTL
=============================================================================
