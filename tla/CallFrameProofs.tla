-------------------------- MODULE CallFrameProofs ---------------------------
(***************************************************************************)
(* Proofs about a function call: for any argument lists, frame sizes,      *)
(* registers that live and any call inside an argument, the stack is       *)
(* accounted for and aligned, the registers survive, and the arguments     *)
(* arrive where the callee looks for them.                                 *)
(*                                                                         *)
(* The execution is a walk through points (PointOK), each with the code    *)
(* that is left (Code); the invariant says at which point the calls are    *)
(* and what the stack, the memory and the registers are there (At).        *)
(***************************************************************************)
EXTENDS CallFrame, FiniteSetTheorems, SequenceTheorems, WellFoundedInduction, TLAPS

-----------------------------------------------------------------------------
(* Induction on numbers, and functions defined by recursion on them        *)

LEMMA Least == ASSUME NEW S \in SUBSET Nat, S # {} PROVE \E n \in S : \A m \in S : n <= m
<1>1. IsWellFoundedOn(OpToRel(<, Nat), Nat)
  BY NatLessThanWellFounded
<1>2. PICK n \in S : \A m \in S : ~(<<m, n>> \in OpToRel(<, Nat))
  BY <1>1, WFMin
<1>3. ASSUME NEW m \in S PROVE n <= m
  <2>1. m \in Nat /\ n \in Nat
    OBVIOUS
  <2>2. ~(m < n)
    BY <1>2, <2>1 DEF OpToRel
  <2> QED BY <2>1, <2>2
<1> QED
  BY <1>3

LEMMA Induct ==
    ASSUME NEW S, NEW limit \in Nat, 0 \in S,
           \A n \in Nat : (n < limit /\ n \in S) => n + 1 \in S
    PROVE  \A n \in 0..limit : n \in S
<1> DEFINE Bad == {n \in Nat : n <= limit /\ n \notin S}
<1>1. SUFFICES ASSUME Bad # {} PROVE FALSE
  OBVIOUS
<1>2. Bad \in SUBSET Nat
  OBVIOUS
<1> HIDE DEF Bad
<1>3. PICK n \in Bad : \A m \in Bad : n <= m
  BY <1>1, <1>2, Least
<1>4. n \in Nat /\ n <= limit /\ n \notin S
  BY DEF Bad
<1>5. n # 0
  BY <1>4
<1>6. n - 1 \in Nat /\ n - 1 < limit /\ n - 1 \notin Bad /\ (n - 1) + 1 = n
  BY <1>3, <1>4, <1>5
<1>7. n - 1 \in S
  BY <1>4, <1>6 DEF Bad
<1>8. (n - 1) + 1 \in S
  BY <1>6, <1>7
<1> QED BY <1>4, <1>6, <1>8

\* h goes from zero through the steps of F, which keep to S.
Recursion(h, n, zero, F) ==
    h = [k \in 0..n |-> IF k = 0 THEN zero ELSE F[k][h[k - 1]]]

LEMMA RecursionStays ==
    ASSUME NEW S, NEW zero \in S, NEW n \in Nat, NEW F \in [Nat -> [S -> S]],
           NEW h, Recursion(h, n, zero, F)
    PROVE  h \in [0..n -> S]
<1> DEFINE T == {k \in Nat : k <= n => h[k] \in S}
<1>1. 0 \in T
  BY DEF Recursion
<1>2. ASSUME NEW k \in Nat, k < n, k \in T PROVE k + 1 \in T
  <2>1. k + 1 \in 0..n /\ k + 1 # 0 /\ (k + 1) - 1 = k /\ h[k] \in S
    BY <1>2
  <2>2. h[k + 1] = F[k + 1][h[k]]
    BY <2>1 DEF Recursion
  <2> QED BY <2>1, <2>2
<1> HIDE DEF T
<1>3. \A k \in 0..n : k \in T
  BY <1>1, <1>2, Induct
<1>4. \A k \in 0..n : h[k] \in S
  BY <1>3 DEF T
<1> QED BY <1>4 DEF Recursion

LEMMA RecursionExists ==
    ASSUME NEW S, NEW zero \in S, NEW n \in Nat, NEW F \in [Nat -> [S -> S]]
    PROVE  \E h : Recursion(h, n, zero, F)
<1> DEFINE T == {m \in Nat : \E h : Recursion(h, m, zero, F)}
<1>1. 0 \in T
  <2>1. Recursion([k \in 0..0 |-> zero], 0, zero, F)
    BY DEF Recursion
  <2> QED BY <2>1
<1>2. ASSUME NEW m \in Nat, m \in T PROVE m + 1 \in T
  <2>1. PICK h : Recursion(h, m, zero, F)
    BY <1>2
  <2> DEFINE g == [k \in 0 .. (m + 1) |-> IF k = m + 1 THEN F[m + 1][h[m]] ELSE h[k]]
  <2>2. ASSUME NEW k \in 0 .. (m + 1) PROVE g[k] = IF k = 0 THEN zero ELSE F[k][g[k - 1]]
    <3>1. CASE k = m + 1
      <4>1. g[m] = h[m] /\ k - 1 = m /\ k # 0
        BY <3>1
      <4> QED BY <3>1, <4>1
    <3>2. CASE k = 0
      BY <2>1, <3>2 DEF Recursion
    <3>3. CASE k # 0 /\ k # m + 1
      <4>1. k \in 0..m /\ k - 1 \in 0 .. (m + 1) /\ k - 1 # m + 1
        BY <3>3
      <4>2. h[k] = F[k][h[k - 1]]
        BY <2>1, <3>3, <4>1 DEF Recursion
      <4> QED BY <3>3, <4>1, <4>2
    <3> QED BY <3>1, <3>2, <3>3
  <2>3. Recursion(g, m + 1, zero, F)
    BY <2>2 DEF Recursion
  <2> QED BY <2>3
<1> HIDE DEF T
<1>3. \A m \in Nat : (m < n /\ m \in T) => m + 1 \in T
  BY <1>2
<1>4. \A m \in 0..n : m \in T
  BY <1>1, <1>3, Induct
<1>5. n \in T
  BY <1>4
<1> QED BY <1>5 DEF T

-----------------------------------------------------------------------------
(* The arguments of a call                                                 *)

AllCalls == Calls \cup InnerCalls

LEMMA CallTypes ==
    ASSUME NEW c \in AllCalls
    PROVE  /\ Len(c.args) \in Nat /\ DOMAIN c.args = 1..Len(c.args)
           /\ First(c) \in {0, 1} /\ c.ret_struct \in BOOLEAN
           /\ \A k \in 1..Len(c.args) :
                /\ c.args[k].cls \in {"int", "flo", "struct"}
                /\ c.args[k].size \in Nat /\ c.args[k].align \in Nat \ {0}
<1>1. /\ c.args \in Seq(Range(c.args)) /\ c.ret_struct \in BOOLEAN
      /\ \A arg \in Range(c.args) :
            /\ arg.cls \in {"int", "flo", "struct"}
            /\ arg.size \in Nat /\ arg.size % Cell = 0 /\ arg.align \in Nat \ {0}
  BY CallAssumption DEF AllCalls
<1>2. Len(c.args) \in Nat /\ DOMAIN c.args = 1..Len(c.args)
  BY <1>1, LenProperties
<1>3. \A k \in 1..Len(c.args) : c.args[k] \in Range(c.args)
  BY <1>1, ElementOfSeq
<1> QED BY <1>1, <1>2, <1>3 DEF First

LEMMA AlignUp ==
    ASSUME NEW x \in Nat, NEW a \in Nat \ {0}
    PROVE  Align(x, a) \in Nat /\ x <= Align(x, a) /\ Align(x, a) < x + a
BY DEF Align

LEMMA AlignWord ==
    ASSUME NEW x \in Nat
    PROVE  Align(x, 8) \in Nat /\ x <= Align(x, 8) /\ Align(x, 8) < x + 8 /\ Align(x, 8) % 8 = 0
BY DEF Align

Count == [ireg : Nat, freg : Nat, offset : Nat]

LEMMA CountedType ==
    ASSUME NEW c \in AllCalls, NEW k \in 1..Len(c.args), NEW s \in Count
    PROVE  Counted(c, k, s) \in Count
<1>1. c.args[k].size \in Nat /\ c.args[k].align \in Nat \ {0}
  BY CallTypes
<1>2. s.offset \in Nat
  BY DEF Count
<1>3. Align(s.offset, c.args[k].align) + Align(c.args[k].size, WORD) \in Nat
  <2>1. Align(s.offset, c.args[k].align) \in Nat
    BY <1>1, <1>2, AlignUp
  <2>2. Align(c.args[k].size, WORD) \in Nat
    BY <1>1, AlignWord DEF WORD
  <2> QED BY <2>1, <2>2
<1> QED BY <1>3 DEF Counted, Count

LEMMA CountersSteps ==
    ASSUME NEW c \in AllCalls
    PROVE  /\ Counters(c) \in [0..Len(c.args) -> Count]
           /\ Counters(c)[0] = Start(c)
           /\ \A k \in 1..Len(c.args) : Counters(c)[k] = Counted(c, k, Counters(c)[k - 1])
<1> DEFINE n == Len(c.args)
           F == [k \in Nat |-> [s \in Count |-> IF k \in 1..n THEN Counted(c, k, s) ELSE s]]
<1>1. n \in Nat
  BY CallTypes
<1>2. Start(c) \in Count
  BY CallTypes DEF Start, Count
<1>3. F \in [Nat -> [Count -> Count]]
  BY CountedType
<1>4. PICK h : Recursion(h, n, Start(c), F)
  <2> HIDE DEF F, n
  <2> QED BY <1>1, <1>2, <1>3, RecursionExists
<1>5. h \in [0..n -> Count]
  <2> HIDE DEF F, n
  <2> QED BY <1>1, <1>2, <1>3, <1>4, RecursionStays
<1>6. ASSUME NEW k \in 0..n, k # 0 PROVE F[k][h[k - 1]] = Counted(c, k, h[k - 1])
  <2>1. k \in 1..n /\ k \in Nat /\ h[k - 1] \in Count
    BY <1>1, <1>5, <1>6
  <2> QED BY <2>1
<1>7. h = [k \in 0..n |-> IF k = 0 THEN Start(c) ELSE Counted(c, k, h[k - 1])]
  <2> HIDE DEF F, n
  <2> QED BY <1>4, <1>6 DEF Recursion
<1>8. Counters(c) = [k \in 0..n |-> IF k = 0 THEN Start(c) ELSE Counted(c, k, Counters(c)[k - 1])]
  BY <1>7 DEF Counters
<1>9. ASSUME NEW k \in 0..n, k # 0, Counters(c)[k - 1] \in Count
      PROVE  F[k][Counters(c)[k - 1]] = Counted(c, k, Counters(c)[k - 1])
  <2>1. k \in 1..n /\ k \in Nat
    BY <1>1, <1>9
  <2> QED BY <2>1, <1>9
<1>10. Counters(c) \in [0..n -> Count]
  <2> DEFINE T == {k \in Nat : k <= n => Counters(c)[k] \in Count}
  <2>1. 0 \in T
    BY <1>1, <1>2, <1>8
  <2>2. ASSUME NEW k \in Nat, k < n, k \in T PROVE k + 1 \in T
    <3>1. k + 1 \in 0..n /\ k + 1 # 0 /\ (k + 1) - 1 = k /\ Counters(c)[k] \in Count /\ k + 1 \in 1..n
      BY <1>1, <2>2
    <3>2. Counters(c)[k + 1] = Counted(c, k + 1, Counters(c)[k])
      BY <1>8, <3>1
    <3> QED BY <3>1, <3>2, CountedType
  <2> HIDE DEF T, n
  <2>3. \A k \in 0..n : k \in T
    BY <1>1, <2>1, <2>2, Induct
  <2>4. \A k \in 0..n : Counters(c)[k] \in Count
    BY <2>3 DEF T
  <2> QED BY <1>8, <2>4
<1>11. \A k \in 1..n : k \in 0..n /\ k # 0
  BY <1>1
<1>12. 0 \in 0..n
  BY <1>1
<1> HIDE DEF F
<1> QED BY <1>8, <1>10, <1>11, <1>12

LEMMA CountersStep ==
    ASSUME NEW c \in AllCalls, NEW k \in 1..Len(c.args)
    PROVE  LET s == Counters(c)[k - 1]
               t == Counters(c)[k]
               arg == c.args[k]
           IN  /\ s \in Count /\ t \in Count
               /\ k \in RegArgs(c) <=> InRegister(arg, s)
               /\ k \in RegArgs(c) =>
                    /\ t.offset = s.offset
                    /\ t.ireg = IF arg.cls = "int" THEN s.ireg + 1 ELSE s.ireg
                    /\ t.freg = IF arg.cls = "flo" THEN s.freg + 1 ELSE s.freg
               /\ k \notin RegArgs(c) =>
                    /\ t.offset = StackOffset(c, k) + Align(arg.size, 8)
                    /\ t.ireg = s.ireg /\ t.freg = s.freg
<1>1. Len(c.args) \in Nat
  BY CallTypes
<1>2. k - 1 \in 0..Len(c.args) /\ k \in 0..Len(c.args)
  BY <1>1
<1>3. Counters(c)[k - 1] \in Count /\ Counters(c)[k] \in Count
  BY <1>2, CountersSteps
<1>4. Counters(c)[k] = Counted(c, k, Counters(c)[k - 1])
  BY CountersSteps
<1>5. k \in RegArgs(c) <=> InRegister(c.args[k], Counters(c)[k - 1])
  BY DEF RegArgs
<1> QED BY <1>3, <1>4, <1>5 DEF Counted, Count, StackOffset, WORD

LEMMA OffsetStep ==
    ASSUME NEW c \in AllCalls, NEW k \in 1..Len(c.args)
    PROVE  /\ Counters(c)[k - 1].offset \in Nat /\ Counters(c)[k].offset \in Nat
           /\ Counters(c)[k - 1].offset <= Counters(c)[k].offset
           /\ k \notin RegArgs(c) =>
                /\ StackOffset(c, k) \in Nat
                /\ Counters(c)[k - 1].offset <= StackOffset(c, k)
                /\ StackOffset(c, k) + c.args[k].size <= Counters(c)[k].offset
<1>1. c.args[k].size \in Nat /\ c.args[k].align \in Nat \ {0}
  BY CallTypes
<1>2. Counters(c)[k - 1].offset \in Nat /\ Counters(c)[k].offset \in Nat
  BY CountersStep DEF Count
<1>3. /\ StackOffset(c, k) \in Nat
      /\ Counters(c)[k - 1].offset <= StackOffset(c, k)
  BY <1>1, <1>2, AlignUp DEF StackOffset
<1>4. Align(c.args[k].size, 8) \in Nat /\ c.args[k].size <= Align(c.args[k].size, 8)
  BY <1>1, AlignWord
<1>5. CASE k \in RegArgs(c)
  BY <1>2, <1>5, CountersStep
<1>6. CASE k \notin RegArgs(c)
  <2>1. Counters(c)[k].offset = StackOffset(c, k) + Align(c.args[k].size, 8)
    BY <1>6, CountersStep
  <2> QED BY <1>1, <1>2, <1>3, <1>4, <1>6, <2>1
<1> QED BY <1>5, <1>6

LEMMA OffsetsGrow ==
    ASSUME NEW c \in AllCalls, NEW j \in 0..Len(c.args), NEW k \in 0..Len(c.args), j <= k
    PROVE  Counters(c)[j].offset <= Counters(c)[k].offset
<1> DEFINE n == Len(c.args)
           o(i) == Counters(c)[i].offset
           T == {m \in Nat : m <= n => \A i \in 0..m : o(i) <= o(m)}
<1>1. n \in Nat
  BY CallTypes
<1>2. \A i \in 0..n : o(i) \in Nat
  BY CountersSteps DEF Count
<1>3. 0 \in T
  BY <1>1, <1>2
<1>4. ASSUME NEW m \in Nat, m < n, m \in T PROVE m + 1 \in T
  <2>1. m + 1 \in 1..n /\ (m + 1) - 1 = m
    BY <1>1, <1>4
  <2>2. o(m) <= o(m + 1)
    BY <2>1, OffsetStep
  <2>3. \A i \in 0..m : o(i) <= o(m)
    BY <1>4
  <2>4. ASSUME NEW i \in 0 .. (m + 1) PROVE o(i) <= o(m + 1)
    <3>1. i \in 0..n /\ m \in 0..n /\ m + 1 \in 0..n
      BY <1>1, <1>4
    <3>2. o(i) \in Nat /\ o(m) \in Nat /\ o(m + 1) \in Nat
      BY <1>2, <3>1
    <3>3. CASE i = m + 1
      BY <3>2, <3>3
    <3>4. CASE i \in 0..m
      BY <2>2, <2>3, <3>2, <3>4
    <3> QED BY <3>3, <3>4
  <2> QED BY <2>4
<1> HIDE DEF T
<1>5. \A m \in 0..n : m \in T
  BY <1>1, <1>3, <1>4, Induct
<1>6. k \in T /\ k \in Nat /\ k <= n /\ j \in 0..k
  BY <1>1, <1>5
<1> QED BY <1>6 DEF T

\* The room for the arguments on the stack, and their places in it.
LEMMA RoomForArgs ==
    ASSUME NEW c \in AllCalls
    PROVE  /\ StackArgsSize(c) \in Nat /\ StackArgsSize(c) % 8 = 0
           /\ \A k \in 1..Len(c.args) : k \notin RegArgs(c) =>
                StackOffset(c, k) \in Nat
                /\ StackOffset(c, k) + c.args[k].size <= StackArgsSize(c)
<1>1. Len(c.args) \in Nat /\ Len(c.args) \in 0..Len(c.args)
  BY CallTypes
<1>2. Counters(c)[Len(c.args)].offset \in Nat
  BY <1>1, CountersSteps DEF Count
<1>3. /\ StackArgsSize(c) \in Nat /\ StackArgsSize(c) % 8 = 0
      /\ Counters(c)[Len(c.args)].offset <= StackArgsSize(c)
  BY <1>2, AlignWord DEF StackArgsSize
<1>4. ASSUME NEW k \in 1..Len(c.args), k \notin RegArgs(c)
      PROVE  StackOffset(c, k) \in Nat
             /\ StackOffset(c, k) + c.args[k].size <= StackArgsSize(c)
  <2>1. k \in 0..Len(c.args) /\ k <= Len(c.args)
    BY <1>1
  <2>2. Counters(c)[k].offset <= Counters(c)[Len(c.args)].offset
    BY <1>1, <2>1, OffsetsGrow
  <2>3. Counters(c)[k].offset \in Nat
    BY OffsetStep
  <2>4. c.args[k].size \in Nat
    BY CallTypes
  <2>5. /\ StackOffset(c, k) \in Nat
        /\ StackOffset(c, k) + c.args[k].size <= Counters(c)[k].offset
    BY <1>4, OffsetStep
  <2> DEFINE from == StackOffset(c, k)
             size == c.args[k].size
             next == Counters(c)[k].offset
             last == Counters(c)[Len(c.args)].offset
             room == StackArgsSize(c)
  <2>6. /\ from \in Nat /\ size \in Nat /\ next \in Nat /\ last \in Nat /\ room \in Nat
        /\ from + size <= next /\ next <= last /\ last <= room
    BY <1>2, <1>3, <2>2, <2>3, <2>4, <2>5
  <2>7. from \in Nat /\ from + size <= room
    <3> HIDE DEF from, size, next, last, room
    <3> QED BY <2>6
  <2> QED BY <2>7
<1> QED BY <1>3, <1>4

LEMMA StackArgsApart ==
    ASSUME NEW c \in AllCalls, NEW j \in 1..Len(c.args), NEW k \in 1..Len(c.args), j < k,
           j \notin RegArgs(c), k \notin RegArgs(c)
    PROVE  StackOffset(c, j) + c.args[j].size <= StackOffset(c, k)
<1>1. Len(c.args) \in Nat
  BY CallTypes
<1>2. j \in 0..Len(c.args) /\ k - 1 \in 0..Len(c.args) /\ j <= k - 1
  BY <1>1
<1>3. Counters(c)[j].offset <= Counters(c)[k - 1].offset
  BY <1>2, OffsetsGrow
<1>4. c.args[j].size \in Nat
  BY CallTypes
<1>5. /\ StackOffset(c, j) + c.args[j].size <= Counters(c)[j].offset
      /\ StackOffset(c, j) \in Nat /\ Counters(c)[j].offset \in Nat
  BY OffsetStep
<1>6. /\ Counters(c)[k - 1].offset <= StackOffset(c, k)
      /\ StackOffset(c, k) \in Nat /\ Counters(c)[k - 1].offset \in Nat
  BY OffsetStep
<1> DEFINE from == StackOffset(c, j)
           size == c.args[j].size
           next == Counters(c)[j].offset
           before == Counters(c)[k - 1].offset
           to == StackOffset(c, k)
<1>7. /\ from \in Nat /\ size \in Nat /\ next \in Nat /\ before \in Nat /\ to \in Nat
      /\ from + size <= next /\ next <= before /\ before <= to
  BY <1>3, <1>4, <1>5, <1>6
<1>8. from + size <= to
  <2> HIDE DEF from, size, next, before, to
  <2> QED BY <1>7
<1> QED BY <1>8

-----------------------------------------------------------------------------
(* The arguments that are pushed                                           *)

Above(c, k) == Cardinality({j \in RegArgs(c) : j > k})

LEMMA AboveSteps ==
    ASSUME NEW c \in AllCalls
    PROVE  /\ IsFiniteSet(RegArgs(c))
           /\ \A k \in Int : Above(c, k) \in Nat
           /\ Above(c, Len(c.args)) = 0
           /\ RegArgCount(c) = Above(c, 0) + First(c)
           /\ \A k \in 1..Len(c.args) :
                Above(c, k - 1) = IF k \in RegArgs(c) THEN Above(c, k) + 1 ELSE Above(c, k)
           /\ \A j, k \in Int : j <= k => Above(c, k) <= Above(c, j)
<1> DEFINE R == RegArgs(c)
           A(k) == {j \in R : j > k}
<1>1. Len(c.args) \in Nat
  BY CallTypes
<1>2. IsFiniteSet(R) /\ R \subseteq 1..Len(c.args)
  <2>1. IsFiniteSet(1..Len(c.args))
    BY <1>1, FS_Interval
  <2>2. R \in SUBSET (1..Len(c.args))
    BY DEF RegArgs
  <2> QED BY <2>1, <2>2, FS_Subset
<1>0. \A j \in R : j \in Int /\ 1 <= j /\ j <= Len(c.args)
  BY <1>1, <1>2
<1> HIDE DEF R
<1>3. \A k \in Int : IsFiniteSet(A(k)) /\ Cardinality(A(k)) \in Nat
  <2>1. \A k \in Int : A(k) \in SUBSET R
    OBVIOUS
  <2>2. \A k \in Int : IsFiniteSet(A(k))
    BY <1>2, <2>1, FS_Subset
  <2> QED BY <2>2, FS_CardinalityType
<1>4. Cardinality(A(Len(c.args))) = 0
  <2>1. A(Len(c.args)) = {}
    BY <1>0, <1>1
  <2> QED BY <2>1, FS_EmptySet
<1>5. A(0) = R
  BY <1>0
<1>6. ASSUME NEW k \in 1..Len(c.args)
      PROVE  Cardinality(A(k - 1)) = IF k \in R THEN Cardinality(A(k)) + 1 ELSE Cardinality(A(k))
  <2>0. k \in Int
    OBVIOUS
  <2>1. CASE k \in R
    <3>0. \A j \in R : j > k - 1 <=> (j > k \/ j = k)
      BY <1>0, <2>0
    <3>4. k \notin A(k)
      BY <2>0
    <3>5. \A j : j \in A(k - 1) <=> (j \in A(k) \/ j = k)
      BY <2>1, <3>0
    <3>1. A(k - 1) = A(k) \cup {k} /\ k \notin A(k)
      <4> HIDE DEF A
      <4> QED BY <3>4, <3>5
    <3>2. IsFiniteSet(A(k))
      BY <1>3, <2>0
    <3> HIDE DEF A
    <3>3. Cardinality(A(k) \cup {k}) = Cardinality(A(k)) + 1
      BY <3>1, <3>2, FS_AddElement
    <3> QED BY <2>1, <3>1, <3>3
  <2>2. CASE k \notin R
    <3>1. A(k - 1) = A(k)
      BY <1>0, <2>0, <2>2
    <3> QED BY <2>2, <3>1
  <2> QED BY <2>1, <2>2
<1>7. ASSUME NEW j \in Int, NEW k \in Int, j <= k PROVE Cardinality(A(k)) <= Cardinality(A(j))
  <2>1. A(k) \in SUBSET A(j)
    BY <1>0, <1>7
  <2>2. IsFiniteSet(A(j))
    BY <1>3
  <2> HIDE DEF A
  <2> QED BY <2>1, <2>2, FS_Subset
<1> HIDE DEF A
<1>8. \A k : Above(c, k) = Cardinality(A(k))
  BY DEF Above, A, R
<1>9. RegArgCount(c) = Cardinality(A(0)) + First(c)
  BY <1>5 DEF RegArgCount, R
<1> QED BY <1>1, <1>2, <1>3, <1>4, <1>6, <1>7, <1>8, <1>9 DEF R

-----------------------------------------------------------------------------
(* Sequences                                                               *)

LEMMA Cons ==
    ASSUME NEW S, NEW x \in S, NEW s \in Seq(S)
    PROVE  /\ << x >> \o s \in Seq(S) /\ << x >> \o s # << >>
           /\ Head(<< x >> \o s) = x /\ Tail(<< x >> \o s) = s
<1>1. << x >> \in Seq(S) /\ Len(<< x >>) = 1 /\ << x >>[1] = x
  OBVIOUS
<1> DEFINE t == << x >> \o s
<1>2. t \in Seq(S) /\ Len(t) = 1 + Len(s) /\ Len(s) \in Nat
  BY <1>1, ConcatProperties
<1>3. \A i \in 1 .. 1 + Len(s) : t[i] = IF i <= 1 THEN << x >>[i] ELSE s[i - 1]
  BY <1>1, ConcatProperties
<1>4. t # << >>
  BY <1>2
<1> HIDE DEF t
<1>5. Tail(t) \in Seq(S) /\ Len(Tail(t)) = Len(s) /\ \A i \in 1..Len(Tail(t)) : Tail(t)[i] = t[i + 1]
  BY <1>2, <1>4, HeadTailProperties
<1>6. ASSUME NEW i \in 1..Len(Tail(t)) PROVE Tail(t)[i] = s[i]
  <2>1. i + 1 \in 1 .. 1 + Len(s) /\ ~(i + 1 <= 1) /\ (i + 1) - 1 = i
    BY <1>2, <1>5
  <2> QED BY <1>3, <1>5, <2>1
<1>7. Tail(t) = s
  BY <1>5, <1>6, SeqEqual
<1>8. Head(t) = x
  <2>1. Head(t) = t[1]
    BY <1>2, <1>4
  <2>2. 1 \in 1 .. 1 + Len(s)
    BY <1>2
  <2> QED BY <1>1, <1>3, <2>1, <2>2
<1> QED BY <1>2, <1>4, <1>7, <1>8 DEF t

-----------------------------------------------------------------------------
(* The code of a call                                                      *)

LEMMA OpType ==
    ASSUME NEW id \in {1, 2},
           NEW o \in {"PRECALL", "ADDSP", "SAVE", "POPARGS", "INVOKE", "RESTORE"}
    PROVE  Op(o, id) \in Instructions
BY DEF Op, Instructions, Junk

LEMMA RetIrType == ASSUME NEW id \in {1, 2} PROVE RetIr(id) \in Instructions
BY DEF RetIr, RetPtr, WORD, Instructions

LEMMA ArgIrType ==
    ASSUME NEW c \in AllCalls, NEW id \in {1, 2}, NEW k \in 1..Len(c.args)
    PROVE  ArgIr(id, c, k) \in Instructions
<1>1. c.args[k].size \in Nat /\ Len(c.args) \in Nat
  BY CallTypes
<1>2. Arg(id, k) \in {1, 2} \X Nat
  BY <1>1 DEF Arg
<1>3. CASE k \in RegArgs(c)
  BY <1>2, <1>3 DEF ArgIr, WORD, Instructions
<1>4. CASE k \notin RegArgs(c)
  <2>1. StackOffset(c, k) \in Nat
    BY <1>4, OffsetStep
  <2>2. k \in Int /\ Above(c, k) \in Nat
    BY AboveSteps
  <2>3. StoreOffset(c, k) \in Nat
    BY <2>1, <2>2 DEF StoreOffset, Above, WORD
  <2> QED BY <1>1, <1>2, <1>4, <2>3 DEF ArgIr, Instructions
<1> QED BY <1>3, <1>4

\* The four parts of IR_CALL.
LEMMA CallTail ==
    ASSUME NEW id \in {1, 2}
    PROVE  LET w == Op("SAVE", id)
               x == Op("POPARGS", id)
               y == Op("INVOKE", id)
               z == Op("RESTORE", id)
           IN  /\ << w, x, y, z >> = << w >> \o << x, y, z >>
               /\ << x, y, z >> = << x >> \o << y, z >>
               /\ << y, z >> = << y >> \o << z >>
               /\ << z >> = << z >> \o << >>
               /\ << w, x, y, z >> \in Seq(Instructions) /\ << x, y, z >> \in Seq(Instructions)
               /\ << y, z >> \in Seq(Instructions) /\ << z >> \in Seq(Instructions)
<1> DEFINE S == Instructions
           a == Op("SAVE", id)
           b == Op("POPARGS", id)
           c == Op("INVOKE", id)
           d == Op("RESTORE", id)
<1>0. a \in S /\ b \in S /\ c \in S /\ d \in S
  BY OpType
<1> HIDE DEF S, a, b, c, d
<1>1. /\ << a, b, c, d >> \in Seq(S) /\ << b, c, d >> \in Seq(S)
      /\ << c, d >> \in Seq(S) /\ << d >> \in Seq(S) /\ << a >> \in Seq(S) /\ << b >> \in Seq(S)
      /\ << c >> \in Seq(S) /\ << >> \in Seq(S)
  BY <1>0
<1>2. << a, b, c, d >> = << a >> \o << b, c, d >>
  OBVIOUS
<1>3. << b, c, d >> = << b >> \o << c, d >>
  OBVIOUS
<1>4. << c, d >> = << c >> \o << d >>
  <2> DEFINE t == << c >> \o << d >>
             u == << c, d >>
  <2>1. Len(<< c >>) = 1 /\ Len(<< d >>) = 1 /\ << c >>[1] = c /\ << d >>[1] = d
    OBVIOUS
  <2>2. t \in Seq(S) /\ Len(t) = 2 /\ \A i \in 1..2 : t[i] = IF i <= 1 THEN << c >>[i] ELSE << d >>[i - 1]
    BY <1>1, <2>1, ConcatProperties
  <2>3. t[1] = c /\ t[2] = d
    BY <2>1, <2>2
  <2>4. u \in Seq(S) /\ Len(u) = 2 /\ u[1] = c /\ u[2] = d
    BY <1>1
  <2> HIDE DEF t, u
  <2>5. Len(t) = Len(u) /\ \A i \in 1..Len(t) : t[i] = u[i]
    BY <2>2, <2>3, <2>4
  <2>6. t = u
    BY <2>2, <2>4, <2>5, SeqEqual
  <2> QED BY <2>6 DEF t, u
<1>5. << d >> = << d >> \o << >>
  BY <1>1, ConcatEmptySeq
<1> QED BY <1>1, <1>2, <1>3, <1>4, <1>5 DEF S, a, b, c, d

LEMMA CallIrsType ==
    ASSUME NEW c \in AllCalls, NEW id \in {1, 2}
    PROVE  CallIrs(id, c) \in Seq(Instructions)
<1>1. << Op("SAVE", id), Op("POPARGS", id), Op("INVOKE", id), Op("RESTORE", id) >> \in Seq(Instructions)
  BY CallTail
<1>2. << RetIr(id) >> \o << Op("SAVE", id), Op("POPARGS", id), Op("INVOKE", id), Op("RESTORE", id) >> \in Seq(Instructions)
  BY <1>1, RetIrType, Cons
<1>3. << >> \o << Op("SAVE", id), Op("POPARGS", id), Op("INVOKE", id), Op("RESTORE", id) >> \in Seq(Instructions)
  BY <1>1, ConcatEmptySeq
<1> QED BY <1>2, <1>3 DEF CallIrs

ArgStep(id, c, at, inner, k, s) ==
    (IF k = at THEN inner ELSE << >>) \o (<< ArgIr(id, c, k) >> \o s)

LEMMA ArgStepType ==
    ASSUME NEW c \in AllCalls, NEW id \in {1, 2}, NEW at, NEW inner \in Seq(Instructions),
           NEW k \in 1..Len(c.args), NEW s \in Seq(Instructions)
    PROVE  ArgStep(id, c, at, inner, k, s) \in Seq(Instructions)
<1>1. << ArgIr(id, c, k) >> \o s \in Seq(Instructions)
  BY ArgIrType, Cons
<1>2. inner \o (<< ArgIr(id, c, k) >> \o s) \in Seq(Instructions)
  BY <1>1, ConcatProperties
<1>3. << >> \o (<< ArgIr(id, c, k) >> \o s) \in Seq(Instructions)
  BY <1>1, ConcatEmptySeq
<1> QED BY <1>2, <1>3 DEF ArgStep

LEMMA ArgsIrsSteps ==
    ASSUME NEW c \in AllCalls, NEW id \in {1, 2}, NEW at, NEW inner \in Seq(Instructions)
    PROVE  LET f == ArgsIrs(id, c, at, inner)
           IN  /\ f \in [0..Len(c.args) -> Seq(Instructions)]
               /\ f[0] = << >>
               /\ \A k \in 1..Len(c.args) : f[k] = ArgStep(id, c, at, inner, k, f[k - 1])
<1> DEFINE n == Len(c.args)
           S == Seq(Instructions)
           Next1(k, s) == ArgStep(id, c, at, inner, k, s)
           F == [k \in Nat |-> [s \in S |-> IF k \in 1..n THEN Next1(k, s) ELSE s]]
           f == ArgsIrs(id, c, at, inner)
<1>1. n \in Nat
  BY CallTypes
<1>2. << >> \in S
  OBVIOUS
<1>3. F \in [Nat -> [S -> S]]
  BY ArgStepType
<1>4. PICK h : Recursion(h, n, << >>, F)
  <2> HIDE DEF F, n, S
  <2> QED BY <1>1, <1>2, <1>3, RecursionExists
<1>5. h \in [0..n -> S]
  <2> HIDE DEF F, n, S
  <2> QED BY <1>1, <1>2, <1>3, <1>4, RecursionStays
<1>6. ASSUME NEW k \in 0..n, k # 0 PROVE F[k][h[k - 1]] = Next1(k, h[k - 1])
  <2>1. k \in 1..n /\ k \in Nat /\ h[k - 1] \in S
    BY <1>1, <1>5, <1>6
  <2> HIDE DEF S, Next1
  <2> QED BY <2>1
<1>7. h = [k \in 0..n |-> IF k = 0 THEN << >> ELSE Next1(k, h[k - 1])]
  <2> HIDE DEF F, n, Next1
  <2> QED BY <1>4, <1>6 DEF Recursion
<1>8. f = [k \in 0..n |-> IF k = 0 THEN << >> ELSE Next1(k, f[k - 1])]
  BY <1>7 DEF ArgsIrs, ArgStep
<1>9. f \in [0..n -> S]
  <2> DEFINE T == {k \in Nat : k <= n => f[k] \in S}
  <2> HIDE DEF f, S, Next1
  <2>1. 0 \in T
    BY <1>1, <1>2, <1>8
  <2>2. ASSUME NEW k \in Nat, k < n, k \in T PROVE k + 1 \in T
    <3>1. k + 1 \in 0..n /\ k + 1 # 0 /\ (k + 1) - 1 = k /\ f[k] \in S /\ k + 1 \in 1..n
      BY <1>1, <2>2
    <3>2. f[k + 1] = Next1(k + 1, f[k])
      BY <1>8, <3>1
    <3>3. Next1(k + 1, f[k]) \in S
      BY <3>1, ArgStepType DEF S, Next1
    <3> QED BY <3>2, <3>3
  <2> HIDE DEF T, n
  <2>3. \A k \in 0..n : k \in T
    BY <1>1, <2>1, <2>2, Induct
  <2>4. \A k \in 0..n : f[k] \in S
    BY <2>3 DEF T
  <2> QED BY <1>8, <2>4
<1>10. \A k \in 1..n : k \in 0..n /\ k # 0
  BY <1>1
<1>11. 0 \in 0..n
  BY <1>1
<1> HIDE DEF F
<1> QED BY <1>8, <1>9, <1>10, <1>11

-----------------------------------------------------------------------------
(* The points of the execution of a call                                   *)

\* The two calls and where the inner one is made.
Args(id) == call[id].args
Inside(id, at) == IF id = 1 THEN at ELSE 0
InnerIrs(id) == IF id = 1 THEN GenFuncall(2, call[2], 0, << >>) ELSE << >>
ArgCode(id, at) == ArgsIrs(id, call[id], Inside(id, at), InnerIrs(id))

\* A call at stage st has come to the argument k; st is the operation that
\* comes next.
FromArgs(id, at, k) == ArgCode(id, at)[k] \o CallIrs(id, call[id])
Code(id, at, st, k) ==
    CASE st = "pre" -> GenFuncall(id, call[id], Inside(id, at), InnerIrs(id))
      [] st = "add" -> << Op("ADDSP", id) >> \o FromArgs(id, at, k)
      [] st = "own" -> << ArgIr(id, call[id], k) >> \o FromArgs(id, at, k - 1)
      [] st = "ret" -> CallIrs(id, call[id])
      [] st = "save" -> << Op("SAVE", id), Op("POPARGS", id), Op("INVOKE", id), Op("RESTORE", id) >>
      [] st = "pop" -> << Op("POPARGS", id), Op("INVOKE", id), Op("RESTORE", id) >>
      [] st = "invoke" -> << Op("INVOKE", id), Op("RESTORE", id) >>
      [] st = "restore" -> << Op("RESTORE", id) >>
      [] st = "end" -> << >>

\* What comes after the inner call.
After(id, at) == IF id = 1 THEN << >> ELSE Code(1, at, "own", at)

Stages == {"pre", "add", "own", "ret", "save", "pop", "invoke", "restore", "end"}

\* The points that a call comes to.
PointOK(id, at, st, k) ==
    /\ at \in 0..Len(Args(1))
    /\ id = 2 => at # 0
    /\ CASE st = "pre" -> k = Len(Args(id))
         [] st = "add" -> k = Len(Args(id)) /\ StackArgsSize(call[id]) > 0
         [] st = "own" -> k \in 1..Len(Args(id))
         [] st = "ret" -> k = 0 /\ call[id].ret_struct
         [] st = "end" -> k = 0 /\ id = 1
         [] OTHER -> k = 0

CallsOK == call[1] \in AllCalls /\ call[2] \in AllCalls

LEMMA IrsAssociate ==
    ASSUME NEW s \in Seq(Instructions), NEW t \in Seq(Instructions), NEW u \in Seq(Instructions)
    PROVE  (s \o t) \o u = s \o (t \o u)
BY ConcatAssociative

LEMMA GenFuncallType ==
    ASSUME NEW c \in AllCalls, NEW id \in {1, 2}, NEW at, NEW inner \in Seq(Instructions)
    PROVE  /\ GenFuncall(id, c, at, inner) \in Seq(Instructions)
           /\ \A k \in 0..Len(c.args) :
                ArgsIrs(id, c, at, inner)[k] \o CallIrs(id, c) \in Seq(Instructions)
<1> DEFINE from(k) == ArgsIrs(id, c, at, inner)[k] \o CallIrs(id, c)
           add == IF StackArgsSize(c) > 0 THEN << Op("ADDSP", id) >> ELSE << >>
<1>1. Len(c.args) \in 0..Len(c.args)
  BY CallTypes
<1>2. \A k \in 0..Len(c.args) : ArgsIrs(id, c, at, inner)[k] \in Seq(Instructions)
  BY ArgsIrsSteps
<1>3. \A k \in 0..Len(c.args) : from(k) \in Seq(Instructions)
  BY <1>2, CallIrsType, ConcatProperties
<1>4. << Op("ADDSP", id) >> \o from(Len(c.args)) \in Seq(Instructions)
  BY <1>1, <1>3, OpType, Cons
<1>5. << >> \o from(Len(c.args)) \in Seq(Instructions)
  BY <1>1, <1>3, ConcatEmptySeq
<1>6. add \o from(Len(c.args)) \in Seq(Instructions)
  BY <1>4, <1>5
<1>7. << Op("PRECALL", id) >> \o (add \o from(Len(c.args))) \in Seq(Instructions)
  <2> HIDE DEF add, from
  <2> QED BY <1>6, OpType, Cons
<1> QED BY <1>3, <1>7 DEF GenFuncall

LEMMA InnerIrsType ==
    ASSUME CallsOK, NEW id \in {1, 2} PROVE InnerIrs(id) \in Seq(Instructions)
<1>1. << >> \in Seq(Instructions)
  OBVIOUS
<1>2. GenFuncall(2, call[2], 0, << >>) \in Seq(Instructions)
  BY <1>1, GenFuncallType DEF CallsOK
<1> QED BY <1>1, <1>2 DEF InnerIrs

LEMMA FromArgsType ==
    ASSUME CallsOK, NEW id \in {1, 2}, NEW at, NEW k \in 0..Len(Args(id))
    PROVE  FromArgs(id, at, k) \in Seq(Instructions)
BY InnerIrsType, GenFuncallType DEF FromArgs, ArgCode, CallsOK, Args

LEMMA AfterType ==
    ASSUME CallsOK, NEW id \in {1, 2}, NEW at \in 0..Len(Args(1)), id = 2 => at # 0
    PROVE  After(id, at) \in Seq(Instructions)
<1>1. CASE id = 1
  BY <1>1 DEF After
<1>2. CASE id = 2
  <2>1. Len(Args(1)) \in Nat
    BY CallTypes DEF CallsOK, Args
  <2>2. at \in 1..Len(Args(1)) /\ at - 1 \in 0..Len(Args(1))
    BY <1>2, <2>1
  <2>3. ArgIr(1, call[1], at) \in Instructions
    BY <2>2, ArgIrType DEF CallsOK, Args
  <2>4. FromArgs(1, at, at - 1) \in Seq(Instructions)
    BY <2>2, FromArgsType
  <2>5. << ArgIr(1, call[1], at) >> \o FromArgs(1, at, at - 1) \in Seq(Instructions)
    BY <2>3, <2>4, Cons
  <2> QED BY <1>2, <2>5 DEF After, Code
<1> QED BY <1>1, <1>2

\* What is executed first at each point, and what is left then.
LEMMA FirstIr ==
    ASSUME CallsOK, NEW id \in {1, 2}, NEW at, NEW st, NEW k, PointOK(id, at, st, k),
           irs = Code(id, at, st, k) \o After(id, at),
           NEW x \in Instructions, NEW t \in Seq(Instructions), Code(id, at, st, k) = << x >> \o t
    PROVE  irs \in Seq(Instructions) /\ irs # << >> /\ Head(irs) = x /\ Tail(irs) = t \o After(id, at)
<1> DEFINE after == After(id, at)
<1>1. at \in 0..Len(Args(1)) /\ (id = 2 => at # 0)
  BY DEF PointOK
<1>2. after \in Seq(Instructions)
  BY <1>1, AfterType
<1> HIDE DEF after
<1>3. << x >> \in Seq(Instructions)
  OBVIOUS
<1>4. irs = << x >> \o (t \o after)
  BY <1>2, <1>3, IrsAssociate DEF after
<1>5. t \o after \in Seq(Instructions)
  BY <1>2, ConcatProperties
<1> DEFINE u == t \o after
<1> HIDE DEF u
<1>6. /\ << x >> \o u \in Seq(Instructions) /\ << x >> \o u # << >>
      /\ Head(<< x >> \o u) = x /\ Tail(<< x >> \o u) = u
  <2>1. u \in Seq(Instructions)
    BY <1>5 DEF u
  <2> QED BY <2>1, Cons
<1> DEFINE v == << x >> \o u
<1>7. irs = v
  BY <1>4 DEF u
<1> HIDE DEF v
<1>8. irs \in Seq(Instructions) /\ irs # << >> /\ Head(irs) = x /\ Tail(irs) = u
  BY <1>6, <1>7 DEF v
<1> QED BY <1>8 DEF u, after

LEMMA FirstPre ==
    ASSUME CallsOK, NEW id \in {1, 2}, NEW at, NEW k, PointOK(id, at, "pre", k),
           irs = Code(id, at, "pre", k) \o After(id, at)
    PROVE  /\ irs \in Seq(Instructions) /\ irs # << >> /\ Head(irs) = Op("PRECALL", id)
           /\ PointOK(id, at, "add", k) => Tail(irs) = Code(id, at, "add", k) \o After(id, at)
           /\ ~PointOK(id, at, "add", k) => Tail(irs) = FromArgs(id, at, k) \o After(id, at)
<1> DEFINE c == call[id]
           n == Len(Args(id))
<1>1. c \in AllCalls /\ n \in Nat
  BY CallTypes DEF CallsOK, Args
<1>2. k = n /\ k \in 0..n /\ FromArgs(id, at, k) \in Seq(Instructions)
  <2>1. k = n /\ k \in 0..n
    BY <1>1 DEF PointOK
  <2> QED BY <2>1, FromArgsType
<1> DEFINE add == IF StackArgsSize(c) > 0 THEN << Op("ADDSP", id) >> ELSE << >>
           t == add \o FromArgs(id, at, k)
<1>3. Code(id, at, "pre", k) = << Op("PRECALL", id) >> \o t
  BY <1>2 DEF Code, GenFuncall, FromArgs, ArgCode, Args
<1>4. PointOK(id, at, "add", k) <=> StackArgsSize(c) > 0
  BY <1>2 DEF PointOK
<1>5. PointOK(id, at, "add", k) => t = Code(id, at, "add", k)
  BY <1>4 DEF Code
<1>6. ~PointOK(id, at, "add", k) => t = FromArgs(id, at, k)
  BY <1>2, <1>4, ConcatEmptySeq
<1>7. t \in Seq(Instructions)
  <2>1. << Op("ADDSP", id) >> \o FromArgs(id, at, k) \in Seq(Instructions)
    BY <1>2, OpType, Cons
  <2> QED BY <1>2, <1>4, <1>6, <2>1
<1>8. Op("PRECALL", id) \in Instructions
  BY OpType
<1> HIDE DEF t
<1>9. irs \in Seq(Instructions) /\ irs # << >> /\ Head(irs) = Op("PRECALL", id) /\ Tail(irs) = t \o After(id, at)
  BY <1>3, <1>7, <1>8, FirstIr
<1> QED BY <1>5, <1>6, <1>9

LEMMA FirstAdd ==
    ASSUME CallsOK, NEW id \in {1, 2}, NEW at, NEW k, PointOK(id, at, "add", k),
           irs = Code(id, at, "add", k) \o After(id, at)
    PROVE  /\ irs \in Seq(Instructions) /\ irs # << >> /\ Head(irs) = Op("ADDSP", id)
           /\ Tail(irs) = FromArgs(id, at, k) \o After(id, at)
<1>1. k \in 0..Len(Args(id))
  BY CallTypes DEF PointOK, CallsOK, Args
<1>2. FromArgs(id, at, k) \in Seq(Instructions) /\ Op("ADDSP", id) \in Instructions
  BY <1>1, FromArgsType, OpType
<1>3. Code(id, at, "add", k) = << Op("ADDSP", id) >> \o FromArgs(id, at, k)
  BY DEF Code
<1> QED BY <1>2, <1>3, FirstIr

LEMMA FirstOwn ==
    ASSUME CallsOK, NEW id \in {1, 2}, NEW at, NEW k, PointOK(id, at, "own", k),
           irs = Code(id, at, "own", k) \o After(id, at)
    PROVE  /\ irs \in Seq(Instructions) /\ irs # << >> /\ Head(irs) = ArgIr(id, call[id], k)
           /\ Tail(irs) = FromArgs(id, at, k - 1) \o After(id, at)
<1>1. k \in 1..Len(Args(id)) /\ k - 1 \in 0..Len(Args(id))
  BY CallTypes DEF PointOK, CallsOK, Args
<1>2. FromArgs(id, at, k - 1) \in Seq(Instructions) /\ ArgIr(id, call[id], k) \in Instructions
  BY <1>1, FromArgsType, ArgIrType DEF CallsOK, Args
<1>3. Code(id, at, "own", k) = << ArgIr(id, call[id], k) >> \o FromArgs(id, at, k - 1)
  BY DEF Code
<1> QED BY <1>2, <1>3, FirstIr

LEMMA FirstRet ==
    ASSUME CallsOK, NEW id \in {1, 2}, NEW at, NEW k, PointOK(id, at, "ret", k),
           irs = Code(id, at, "ret", k) \o After(id, at)
    PROVE  /\ irs \in Seq(Instructions) /\ irs # << >> /\ Head(irs) = RetIr(id)
           /\ Tail(irs) = Code(id, at, "save", 0) \o After(id, at)
<1>1. Code(id, at, "save", 0) \in Seq(Instructions) /\ RetIr(id) \in Instructions
  BY CallTail, RetIrType DEF Code
<1>2. Code(id, at, "ret", k) = << RetIr(id) >> \o Code(id, at, "save", 0)
  BY DEF Code, CallIrs, PointOK
<1> QED BY <1>1, <1>2, FirstIr

LEMMA FirstSave ==
    ASSUME CallsOK, NEW id \in {1, 2}, NEW at, NEW k, PointOK(id, at, "save", k),
           irs = Code(id, at, "save", k) \o After(id, at)
    PROVE  /\ irs \in Seq(Instructions) /\ irs # << >> /\ Head(irs) = Op("SAVE", id)
           /\ Tail(irs) = Code(id, at, "pop", 0) \o After(id, at)
<1>1. Code(id, at, "pop", 0) \in Seq(Instructions) /\ Op("SAVE", id) \in Instructions
  BY CallTail, OpType DEF Code
<1>2. Code(id, at, "save", k) = << Op("SAVE", id) >> \o Code(id, at, "pop", 0)
  BY CallTail DEF Code
<1> QED BY <1>1, <1>2, FirstIr

LEMMA FirstPop ==
    ASSUME CallsOK, NEW id \in {1, 2}, NEW at, NEW k, PointOK(id, at, "pop", k),
           irs = Code(id, at, "pop", k) \o After(id, at)
    PROVE  /\ irs \in Seq(Instructions) /\ irs # << >> /\ Head(irs) = Op("POPARGS", id)
           /\ Tail(irs) = Code(id, at, "invoke", 0) \o After(id, at)
<1>1. Code(id, at, "invoke", 0) \in Seq(Instructions) /\ Op("POPARGS", id) \in Instructions
  BY CallTail, OpType DEF Code
<1>2. Code(id, at, "pop", k) = << Op("POPARGS", id) >> \o Code(id, at, "invoke", 0)
  BY CallTail DEF Code
<1> QED BY <1>1, <1>2, FirstIr

LEMMA FirstInvoke ==
    ASSUME CallsOK, NEW id \in {1, 2}, NEW at, NEW k, PointOK(id, at, "invoke", k),
           irs = Code(id, at, "invoke", k) \o After(id, at)
    PROVE  /\ irs \in Seq(Instructions) /\ irs # << >> /\ Head(irs) = Op("INVOKE", id)
           /\ Tail(irs) = Code(id, at, "restore", 0) \o After(id, at)
<1>1. Code(id, at, "restore", 0) \in Seq(Instructions) /\ Op("INVOKE", id) \in Instructions
  BY CallTail, OpType DEF Code
<1>2. Code(id, at, "invoke", k) = << Op("INVOKE", id) >> \o Code(id, at, "restore", 0)
  BY CallTail DEF Code
<1> QED BY <1>1, <1>2, FirstIr

LEMMA FirstRestore ==
    ASSUME CallsOK, NEW id \in {1, 2}, NEW at, NEW k, PointOK(id, at, "restore", k),
           irs = Code(id, at, "restore", k) \o After(id, at)
    PROVE  /\ irs \in Seq(Instructions) /\ irs # << >> /\ Head(irs) = Op("RESTORE", id)
           /\ Tail(irs) = After(id, at)
<1>1. << >> \in Seq(Instructions) /\ Op("RESTORE", id) \in Instructions
  BY OpType
<1>2. Code(id, at, "restore", k) = << Op("RESTORE", id) >> \o << >>
  BY CallTail DEF Code
<1>3. irs \in Seq(Instructions) /\ irs # << >> /\ Head(irs) = Op("RESTORE", id) /\ Tail(irs) = << >> \o After(id, at)
  BY <1>1, <1>2, FirstIr
<1>4. After(id, at) \in Seq(Instructions)
  BY AfterType DEF PointOK
<1> QED BY <1>3, <1>4, ConcatEmptySeq

LEMMA NothingAtEnd ==
    ASSUME CallsOK, NEW id \in {1, 2}, NEW at, NEW k, PointOK(id, at, "end", k),
           irs = Code(id, at, "end", k) \o After(id, at)
    PROVE  irs = << >>
<1>1. id = 1
  BY DEF PointOK
<1>2. Code(id, at, "end", k) = << >> /\ After(id, at) = << >>
  BY <1>1 DEF Code, After
<1>3. << >> \o << >> = << >>
  OBVIOUS
<1> QED BY <1>2, <1>3

\* Where a call is when its arguments k, ..., 1 are left.
LEMMA ArgsPoint ==
    ASSUME CallsOK, NEW id \in {1, 2}, NEW at \in 0..Len(Args(1)), id = 2 => at # 0,
           NEW k \in 0..Len(Args(id))
    PROVE  LET s == FromArgs(id, at, k) \o After(id, at)
           IN  /\ (k = 0 /\ call[id].ret_struct) => s = Code(id, at, "ret", 0) \o After(id, at)
               /\ (k = 0 /\ ~call[id].ret_struct) => s = Code(id, at, "save", 0) \o After(id, at)
               /\ (k # 0 /\ ~(id = 1 /\ k = at)) => s = Code(id, at, "own", k) \o After(id, at)
               /\ (k # 0 /\ id = 1 /\ k = at) =>
                    s = Code(2, at, "pre", Len(Args(2))) \o After(2, at)
<1> DEFINE n == Len(Args(id))
           c == call[id]
           after == After(id, at)
           inner == InnerIrs(id)
           in == Inside(id, at)
           S == Seq(Instructions)
<1>1. c \in AllCalls /\ n \in Nat
  BY CallTypes DEF CallsOK, Args
<1>2. after \in S /\ inner \in S
  BY AfterType, InnerIrsType
<1>3. CallIrs(id, c) \in S /\ << >> \in S
  BY <1>1, CallIrsType
<1>4. /\ ArgCode(id, at) \in [0..n -> S] /\ ArgCode(id, at)[0] = << >>
      /\ \A j \in 1..n : ArgCode(id, at)[j] = ArgStep(id, c, in, inner, j, ArgCode(id, at)[j - 1])
  <2> HIDE DEF in, inner
  <2> QED BY <1>1, <1>2, ArgsIrsSteps DEF ArgCode, Args, in, inner
<1>5. CASE k = 0
  <2>1. FromArgs(id, at, k) = CallIrs(id, c)
    BY <1>3, <1>4, <1>5, ConcatEmptySeq DEF FromArgs
  <2>2. Code(id, at, "ret", 0) = CallIrs(id, c)
    BY DEF Code
  <2>3. ~c.ret_struct => CallIrs(id, c) = Code(id, at, "save", 0)
    <3>1. << Op("SAVE", id), Op("POPARGS", id), Op("INVOKE", id), Op("RESTORE", id) >> \in S
      BY CallTail
    <3>2. << >> \o << Op("SAVE", id), Op("POPARGS", id), Op("INVOKE", id), Op("RESTORE", id) >>
            = << Op("SAVE", id), Op("POPARGS", id), Op("INVOKE", id), Op("RESTORE", id) >>
      BY <3>1, ConcatEmptySeq
    <3> QED BY <3>2 DEF CallIrs, Code
  <2> QED BY <1>5, <2>1, <2>2, <2>3
<1>6. CASE k # 0
  <2>1. k \in 1..n /\ k - 1 \in 0..n
    BY <1>1, <1>6
  <2> DEFINE x == ArgIr(id, c, k)
             prev == ArgCode(id, at)[k - 1]
             calls == CallIrs(id, c)
  <2>2. x \in Instructions /\ prev \in S /\ << x >> \in S /\ << x >> \o prev \in S
    <3>1. x \in Instructions
      BY <1>1, <2>1, ArgIrType DEF Args
    <3>2. prev \in S
      BY <1>4, <2>1
    <3> HIDE DEF x, prev
    <3> QED BY <3>1, <3>2, Cons
  <2>8. calls \in S
    BY <1>3
  <2>3. << x >> \o (prev \o calls) = (<< x >> \o prev) \o calls
    <3> DEFINE y == << x >>
    <3> HIDE DEF x, prev, calls, y
    <3>1. y \in S /\ prev \in S /\ calls \in S
      BY <2>2, <2>8 DEF y
    <3>2. (y \o prev) \o calls = y \o (prev \o calls)
      BY <3>1, IrsAssociate
    <3> QED BY <3>2 DEF y
  <2>4. Code(id, at, "own", k) = (<< x >> \o prev) \o calls
    BY <2>3 DEF Code, FromArgs
  <2>5. ArgCode(id, at)[k] = (IF k = in THEN inner ELSE << >>) \o (<< x >> \o prev)
    BY <1>4, <2>1 DEF ArgStep
  <2> HIDE DEF x, prev, calls
  <2>6. CASE id = 1 /\ k = at
    <3>1. in = k
      BY <2>6 DEF Inside
    <3>2. FromArgs(id, at, k) = (inner \o (<< x >> \o prev)) \o calls
      <4> HIDE DEF in, inner
      <4> QED BY <2>5, <3>1 DEF FromArgs, calls
    <3>3. FromArgs(id, at, k) = inner \o Code(id, at, "own", k)
      <4> DEFINE y == << x >> \o prev
      <4> HIDE DEF in, inner, y
      <4>1. inner \in S /\ y \in S /\ calls \in S
        BY <1>2, <2>2, <2>8 DEF y
      <4>2. (inner \o y) \o calls = inner \o (y \o calls)
        BY <4>1, IrsAssociate
      <4> QED BY <2>4, <3>2, <4>2 DEF y
    <3>4. after = << >> /\ After(2, at) = Code(1, at, "own", at)
      BY <2>6 DEF After
    <3>5. inner = Code(2, at, "pre", Len(Args(2)))
      BY <2>6 DEF InnerIrs, Code, Inside
    <3>6. Code(id, at, "own", k) \in S
      BY <1>3, <2>2, <2>4, ConcatProperties DEF calls
    <3>7. inner \o Code(id, at, "own", k) \in S
      <4> HIDE DEF inner
      <4> QED BY <1>2, <3>6, ConcatProperties
    <3>8. FromArgs(id, at, k) \o after = FromArgs(id, at, k)
      <4> HIDE DEF inner
      <4> QED BY <3>3, <3>4, <3>7, ConcatEmptySeq
    <3> QED BY <1>6, <2>6, <3>3, <3>4, <3>5, <3>8
  <2>7. CASE ~(id = 1 /\ k = at)
    <3>1. in # k
      BY <1>6, <2>7 DEF Inside
    <3>2. << >> \o (<< x >> \o prev) = << x >> \o prev
      BY <2>2, ConcatEmptySeq
    <3>3. FromArgs(id, at, k) = (<< x >> \o prev) \o calls
      <4> HIDE DEF in, inner
      <4> QED BY <2>5, <3>1, <3>2 DEF FromArgs, calls
    <3> QED BY <1>6, <2>4, <2>7, <3>3
  <2> QED BY <2>6, <2>7
<1> QED BY <1>5, <1>6

-----------------------------------------------------------------------------
(* The stack, the memory and the registers at each point                   *)

\* How far the stack has come down at the call instruction, if it had come
\* down by e before the call.
PadOf(id, e) ==
    (16 - (e + WORD * Cardinality(living[id]) + StackArgsSize(call[id]))) % 16
Base(id, e) ==
    e + WORD * Cardinality(living[id]) + PadOf(id, e) + StackArgsSize(call[id])

Entry(id, at) ==
    IF id = 1 THEN 8 + frame ELSE Base(1, 8 + frame) + WORD * Above(call[1], at)

\* Where the inner call is made, how far the stack had come down before this
\* call, and how far it has at its call instruction and at the outer one.
Frames(id, at, e, b, b1) ==
    /\ at \in 0..Len(Args(1)) /\ (id = 2 => at # 0)
    /\ e = Entry(id, at) /\ b = Base(id, e) /\ b1 = Base(1, 8 + frame)

StackAt(id, st, k, e, b) ==
    /\ stackpos = CASE st \in {"pre", "end"} -> e
                    [] st = "add" -> b - StackArgsSize(call[id])
                    [] st \in {"own", "ret"} -> b + WORD * Above(call[id], k)
                    [] st \in {"save", "pop"} -> b + WORD * RegArgCount(call[id])
                    [] OTHER -> b
    /\ rsp = -stackpos
    /\ st # "pre" => aligned[id] = PadOf(id, e)
    /\ id = 2 => aligned[1] = PadOf(1, 8 + frame)

\* An area of the stack holds a value.
HoldsAt(m, at, size, value) ==
    \A a \in DOMAIN m : (at <= a /\ a < at + size) => m[a] = value

\* Where argument j is.
PlaceOfArg(id, b, j) ==
    IF j \in RegArgs(call[id]) THEN -(b + WORD * Above(call[id], j - 1))
    ELSE StackOffset(call[id], j) - b
SizeOfArg(id, j) ==
    IF j \in RegArgs(call[id]) THEN WORD ELSE Args(id)[j].size

Placed(id, b, k) ==
    \A j \in 1..Len(Args(id)) :
        j > k => HoldsAt(mem, PlaceOfArg(id, b, j), SizeOfArg(id, j), Arg(id, j))

RetPlaced(id, b) ==
    call[id].ret_struct =>
        HoldsAt(mem, -(b + WORD * RegArgCount(call[id])), WORD, RetPtr(id))

PlaceOfSaved(id, e, r) ==
    WORD * StoredBefore(id, r) - (e + WORD * Cardinality(living[id]))
SavedAll(id, e) ==
    \A r \in living[id] : HoldsAt(mem, PlaceOfSaved(id, e, r), WORD, Held(r))

MemAt(id, at, st, k, e, b, b1) ==
    /\ st \notin {"restore", "end"} => Placed(id, b, k)
    /\ id = 2 => Placed(1, b1, at)
    /\ st \in {"save", "pop"} => RetPlaced(id, b)
    /\ st \in {"pop", "invoke", "restore"} => SavedAll(id, e)

\* The arguments in registers are where the callee looks for them.
Popped(id) ==
    /\ \A j \in RegArgs(call[id]) :
          LET s == Counters(call[id])[j - 1]
          IN  Arg(id, j) = IF Args(id)[j].cls = "flo" THEN freg[s.freg] ELSE ireg[s.ireg]
    /\ call[id].ret_struct => ireg[0] = RetPtr(id)

AllHeld(id) == \A r \in living[id] : regs[r] = Held(r)

RegsAt(id, st) ==
    /\ st \notin {"restore", "end"} => AllHeld(2)
    /\ st = "end" => AllHeld(1)
    /\ (st = "invoke" /\ GoodCall(call[id])) => Popped(id)

At(id, at, st, k, e, b, b1) ==
    /\ PointOK(id, at, st, k)
    /\ Frames(id, at, e, b, b1)
    /\ irs = Code(id, at, st, k) \o After(id, at)
    /\ StackAt(id, st, k, e, b)
    /\ MemAt(id, at, st, k, e, b, b1)
    /\ RegsAt(id, st)

Static ==
    /\ frame \in FrameSizes
    /\ call \in Calls \X (Calls \cup InnerCalls)
    /\ living \in (SUBSET CallerSave) \X (SUBSET CallerSave)
    /\ living[1] \subseteq living[2]
    /\ aligned \in (0..15) \X (0..15)
    /\ mem \in [Cells -> Values]
    /\ regs \in [CallerSave -> Values]
    /\ ireg \in [0..(MaxRegArgs - 1) -> Values]
    /\ freg \in [0..(MaxFregArgs - 1) -> Values]

Somewhere ==
    \E id \in {1, 2}, st \in Stages, at, k, e, b, b1 \in Nat : At(id, at, st, k, e, b, b1)

IInv == Static /\ Somewhere

\* Between two arguments: a point of one of the kinds above.
Arriving(id, at, k, e, b, b1) ==
    /\ k \in 0..Len(Args(id))
    /\ Frames(id, at, e, b, b1)
    /\ irs = FromArgs(id, at, k) \o After(id, at)
    /\ stackpos = b + WORD * Above(call[id], k) /\ rsp = -stackpos
    /\ aligned[id] = PadOf(id, e) /\ (id = 2 => aligned[1] = PadOf(1, 8 + frame))
    /\ Placed(id, b, k) /\ (id = 2 => Placed(1, b1, at))
    /\ AllHeld(2)
SomewhereArriving ==
    \E id \in {1, 2}, at, k, e, b, b1 \in Nat : Arriving(id, at, k, e, b, b1)

-----------------------------------------------------------------------------
(* Sizes and places                                                        *)

LEMMA StaticCalls == ASSUME Static PROVE CallsOK /\ call[1] \in Calls /\ call[2] \in Calls \cup InnerCalls
BY DEF Static, CallsOK, AllCalls

LEMMA SaveOrderFinite == IsFiniteSet(CallerSave) /\ Cardinality(CallerSave) \in Nat
<1>1. SaveOrder \in Seq(CallerSave)
  BY CallAssumption
<1>2. Len(SaveOrder) \in Nat /\ DOMAIN SaveOrder = 1..Len(SaveOrder)
  BY <1>1
<1>3. SaveOrder \in Surjection(1..Len(SaveOrder), CallerSave)
  BY <1>1, <1>2 DEF Surjection, CallerSave, Range
<1>4. IsFiniteSet(1..Len(SaveOrder))
  BY <1>2, FS_Interval
<1>5. IsFiniteSet(CallerSave)
  BY <1>3, <1>4, FS_Surjection
<1> QED BY <1>5, FS_CardinalityType

\* A place of its own for each register that is saved.
LEMMA SavedPlaces ==
    ASSUME NEW id \in {1, 2}, Static
    PROVE  /\ IsFiniteSet(living[id]) /\ Cardinality(living[id]) \in Nat
           /\ Cardinality(living[id]) <= Cardinality(CallerSave)
           /\ \A r \in living[id] :
                StoredBefore(id, r) \in Nat /\ StoredBefore(id, r) < Cardinality(living[id])
           /\ \A q, r \in living[id] : q # r => StoredBefore(id, q) # StoredBefore(id, r)
<1> DEFINE L == living[id]
           B(r) == {q \in L : PlaceOf(q) < PlaceOf(r)}
<1>1. L \in SUBSET CallerSave
  BY DEF Static
<1>2. IsFiniteSet(L) /\ Cardinality(L) \in Nat /\ Cardinality(L) <= Cardinality(CallerSave)
  BY <1>1, SaveOrderFinite, FS_Subset, FS_CardinalityType
<1>3. \A r \in CallerSave : PlaceOf(r) \in Nat /\ PlaceOf(r) \in DOMAIN SaveOrder /\ SaveOrder[PlaceOf(r)] = r
  <2>1. \A r \in CallerSave : \E j \in DOMAIN SaveOrder : SaveOrder[j] = r
    BY DEF CallerSave, Range
  <2>2. \A r \in CallerSave : PlaceOf(r) \in DOMAIN SaveOrder /\ SaveOrder[PlaceOf(r)] = r
    BY <2>1 DEF PlaceOf
  <2>3. SaveOrder \in Seq(CallerSave)
    BY CallAssumption
  <2>4. \A j \in DOMAIN SaveOrder : j \in Nat
    BY <2>3
  <2> QED BY <2>2, <2>4
<1> HIDE DEF L
<1>4. \A r \in CallerSave : IsFiniteSet(B(r)) /\ Cardinality(B(r)) \in Nat
  <2>1. \A r \in CallerSave : B(r) \in SUBSET L
    OBVIOUS
  <2> HIDE DEF B
  <2> QED BY <1>2, <2>1, FS_Subset, FS_CardinalityType
<1>5. ASSUME NEW q \in L, NEW r \in CallerSave, PlaceOf(q) < PlaceOf(r)
      PROVE  Cardinality(B(q)) < Cardinality(B(r))
  <2>0. q \in CallerSave /\ PlaceOf(q) \in Nat /\ PlaceOf(r) \in Nat
    BY <1>1, <1>3 DEF L
  <2>1. B(q) \subseteq B(r) /\ q \in B(r) /\ q \notin B(q)
    <3>1. \A p \in L : PlaceOf(p) \in Nat
      BY <1>1, <1>3 DEF L
    <3>2. \A p \in L : PlaceOf(p) < PlaceOf(q) => PlaceOf(p) < PlaceOf(r)
      BY <1>5, <2>0, <3>1
    <3>3. ~(PlaceOf(q) < PlaceOf(q))
      BY <2>0
    <3> QED BY <1>5, <3>2, <3>3
  <2>2. IsFiniteSet(B(r)) /\ Cardinality(B(r)) \in Nat /\ Cardinality(B(q)) \in Nat
    BY <1>4, <2>0
  <2> HIDE DEF B
  <2>3. B(q) \in SUBSET B(r) /\ B(q) # B(r)
    BY <2>1
  <2> QED BY <2>2, <2>3, FS_Subset
<1>6. ASSUME NEW r \in L PROVE Cardinality(B(r)) \in Nat /\ Cardinality(B(r)) < Cardinality(L)
  <2>1. r \in CallerSave /\ PlaceOf(r) \in Nat
    BY <1>1, <1>3 DEF L
  <2>2. B(r) \in SUBSET L /\ r \notin B(r)
    BY <2>1
  <2>3. Cardinality(B(r)) \in Nat
    BY <1>4, <2>1
  <2> HIDE DEF B
  <2>4. B(r) # L
    BY <2>2
  <2> QED BY <1>2, <2>2, <2>3, <2>4, FS_Subset
<1>7. ASSUME NEW q \in L, NEW r \in L, q # r PROVE Cardinality(B(q)) # Cardinality(B(r))
  <2>1. q \in CallerSave /\ r \in CallerSave
    BY <1>1 DEF L
  <2>2. PlaceOf(q) \in Nat /\ PlaceOf(r) \in Nat /\ PlaceOf(q) # PlaceOf(r)
    BY <1>3, <1>7, <2>1
  <2>3. Cardinality(B(q)) \in Nat /\ Cardinality(B(r)) \in Nat
    BY <1>4, <2>1
  <2> HIDE DEF B
  <2>4. PlaceOf(q) < PlaceOf(r) \/ PlaceOf(r) < PlaceOf(q)
    BY <2>2
  <2> QED BY <1>5, <2>1, <2>3, <2>4
<1> HIDE DEF B
<1>8. \A r : StoredBefore(id, r) = Cardinality(B(r))
  BY DEF StoredBefore, B, L
<1> QED BY <1>2, <1>6, <1>7, <1>8 DEF L

\* The stack at the call instruction, if it had come down by e before.
LEMMA BaseProperties ==
    ASSUME NEW id \in {1, 2}, NEW e \in Nat, e % 8 = 0, Static
    PROVE  /\ PadOf(id, e) \in 0..15
           /\ Base(id, e) \in Nat /\ Base(id, e) % 16 = 0 /\ Base(id, e) % 8 = 0
           /\ Base(id, e) = e + 8 * Cardinality(living[id]) + PadOf(id, e) + StackArgsSize(call[id])
           /\ StackArgsSize(call[id]) \in Nat /\ Cardinality(living[id]) \in Nat
           /\ Base(id, e) + 8 * RegArgCount(call[id]) <= e + Room(call[id])
           /\ RegArgCount(call[id]) \in Nat
<1> DEFINE L == Cardinality(living[id])
           S == StackArgsSize(call[id])
           x == e + 8 * L + S
           R == RegArgCount(call[id])
<1>1. L \in Nat /\ L <= Cardinality(CallerSave) /\ Cardinality(CallerSave) \in Nat
  BY SavedPlaces, SaveOrderFinite
<1>2. call[id] \in AllCalls
  BY StaticCalls DEF CallsOK
<1>3. S \in Nat /\ S % 8 = 0
  BY <1>2, RoomForArgs
<1>4. R \in Nat
  <2>1. Above(call[id], 0) \in Nat
    <3>1. 0 \in Int
      OBVIOUS
    <3> QED BY <1>2, <3>1, AboveSteps
  <2>2. First(call[id]) \in Nat
    BY <1>2, CallTypes
  <2>3. R = Above(call[id], 0) + First(call[id])
    BY <1>2, AboveSteps
  <2> HIDE DEF R
  <2> QED BY <2>1, <2>2, <2>3
<1> HIDE DEF L, S, R
<1>5. x \in Nat
  BY <1>1, <1>3
<1>6. PadOf(id, e) = (16 - x) % 16 /\ Base(id, e) = e + 8 * L + ((16 - x) % 16) + S
  BY DEF PadOf, Base, WORD, L, S
<1>7. Room(call[id]) = 8 * (Cardinality(CallerSave) + R) + S + 15
  BY DEF Room, WORD, R, S
<1> DEFINE p == (16 - x) % 16
<1>8. p \in 0..15 /\ (x + p) % 16 = 0 /\ (x + p) % 8 = 0
  <2> HIDE DEF x
  <2> QED BY <1>5
<1>9. e + 8 * L + p + S = x + p
  <2>1. p \in Nat
    BY <1>8
  <2> HIDE DEF p
  <2> QED BY <1>1, <1>3, <2>1
<1> HIDE DEF p
<1>10. e + 8 * L + p + S + 8 * R <= e + (8 * (Cardinality(CallerSave) + R) + S + 15)
  BY <1>1, <1>3, <1>4, <1>8
<1>11. e + 8 * L + p + S \in Nat
  BY <1>1, <1>3, <1>8
<1> HIDE DEF x
<1>12. PadOf(id, e) = p /\ Base(id, e) = e + 8 * L + p + S
  BY <1>6 DEF p
<1> QED BY <1>1, <1>3, <1>4, <1>7, <1>8, <1>9, <1>10, <1>11, <1>12 DEF L, S, R

LEMMA EntryProperties ==
    ASSUME NEW id \in {1, 2}, NEW at \in 0..Len(Args(1)), Static
    PROVE  /\ Entry(id, at) \in Nat /\ Entry(id, at) % 8 = 0
           /\ Base(id, Entry(id, at)) + 8 * RegArgCount(call[id]) <= 4 * StackCells
           /\ id = 2 => Entry(id, at) = Base(1, 8 + frame) + 8 * Above(call[1], at)
           /\ id = 1 => Entry(id, at) = 8 + frame
<1>1. frame \in Nat /\ frame % 8 = 0
  BY CallAssumption DEF Static, WORD
<1>2. 8 + frame \in Nat /\ (8 + frame) % 8 = 0
  BY <1>1
<1> DEFINE b == Base(1, 8 + frame)
           A == Above(call[1], at)
<1>3. b \in Nat /\ b % 8 = 0 /\ b + 8 * RegArgCount(call[1]) <= (8 + frame) + Room(call[1])
  BY <1>2, BaseProperties
<1>4. call[1] \in Calls /\ call[2] \in Calls \cup InnerCalls /\ call[1] \in AllCalls /\ call[2] \in AllCalls
  BY StaticCalls DEF CallsOK
<1>5. A \in Nat /\ A <= RegArgCount(call[1]) /\ RegArgCount(call[1]) \in Nat
  <2>1. Above(call[1], at) <= Above(call[1], 0) /\ Above(call[1], 0) \in Nat /\ A \in Nat
    <3>1. at \in Int /\ 0 \in Int /\ 0 <= at
      BY DEF Args
    <3> QED BY <1>4, <3>1, AboveSteps
  <2>2. RegArgCount(call[1]) = Above(call[1], 0) + First(call[1]) /\ First(call[1]) \in {0, 1}
    BY <1>4, AboveSteps, CallTypes
  <2> QED BY <2>1, <2>2
<1>6. 8 + frame + Room(call[1]) + Room(call[2]) <= 4 * StackCells
  BY <1>4, CallAssumption DEF Cell, Static
<1>7. ASSUME NEW i \in {1, 2} PROVE Room(call[i]) \in Nat
  <2>1. StackArgsSize(call[i]) \in Nat /\ RegArgCount(call[i]) \in Nat
    BY <1>2, BaseProperties
  <2>2. Cardinality(CallerSave) \in Nat
    BY SaveOrderFinite
  <2> QED BY <2>1, <2>2 DEF Room, WORD
<1>8. StackCells \in Nat
  BY CallAssumption
<1>9. CASE id = 1
  <2>1. Entry(id, at) = 8 + frame
    BY <1>9 DEF Entry
  <2>2. Room(call[1]) \in Nat /\ Room(call[2]) \in Nat /\ RegArgCount(call[1]) \in Nat
    BY <1>5, <1>7
  <2> HIDE DEF b, A
  <2>3. b + 8 * RegArgCount(call[1]) <= 4 * StackCells
    BY <1>1, <1>3, <1>6, <1>8, <2>2
  <2> QED BY <1>2, <1>9, <2>1, <2>3 DEF b
<1>10. CASE id = 2
  <2>1. Entry(id, at) = b + 8 * A
    BY <1>10 DEF Entry, WORD
  <2> DEFINE e == b + 8 * A
  <2> HIDE DEF b, A
  <2>2. e \in Nat /\ e % 8 = 0
    BY <1>3, <1>5
  <2> HIDE DEF e
  <2>3. Base(2, e) + 8 * RegArgCount(call[2]) <= e + Room(call[2])
        /\ Base(2, e) \in Nat /\ RegArgCount(call[2]) \in Nat
    BY <2>2, BaseProperties
  <2>4. e <= b + 8 * RegArgCount(call[1])
    BY <1>3, <1>5 DEF e
  <2>5. Base(2, e) + 8 * RegArgCount(call[2]) <= 4 * StackCells
    <3>1. Room(call[1]) \in Nat /\ Room(call[2]) \in Nat
      BY <1>7
    <3> DEFINE u == b + 8 * RegArgCount(call[1])
               v == 8 + frame + Room(call[1])
               w == Base(2, e) + 8 * RegArgCount(call[2])
    <3>2. u \in Nat /\ v \in Nat /\ w \in Nat
      <4>1. u \in Nat
        BY <1>3, <1>5
      <4>2. v \in Nat
        BY <1>1, <3>1
      <4>3. w \in Nat
        BY <2>3
      <4> QED BY <4>1, <4>2, <4>3
    <3>3. u <= v
      BY <1>1, <1>3, <1>5, <3>1
    <3>4. v + Room(call[2]) <= 4 * StackCells
      BY <1>6
    <3>5. w <= e + Room(call[2]) /\ e <= u
      BY <2>3, <2>4
    <3> HIDE DEF u, v, w
    <3>6. w <= 4 * StackCells
      BY <1>8, <2>2, <3>1, <3>2, <3>3, <3>4, <3>5
    <3> QED BY <3>6 DEF w
  <2> QED BY <1>10, <2>1, <2>2, <2>5 DEF e, b, A
<1> QED BY <1>9, <1>10

LEMMA FramesType ==
    ASSUME Static, NEW id \in {1, 2}, NEW at, NEW e, NEW b, NEW b1, Frames(id, at, e, b, b1)
    PROVE  e \in Nat /\ b \in Nat /\ b1 \in Nat
<1>1. at \in 0..Len(Args(1)) /\ e = Entry(id, at) /\ b = Base(id, e) /\ b1 = Base(1, 8 + frame)
  BY DEF Frames
<1>2. e \in Nat /\ e % 8 = 0
  BY <1>1, EntryProperties
<1>3. b \in Nat
  BY <1>1, <1>2, BaseProperties
<1>4. 8 + frame \in Nat /\ (8 + frame) % 8 = 0
  <2>1. frame \in Nat /\ frame % 8 = 0
    BY CallAssumption DEF Static, WORD
  <2> QED BY <2>1
<1>5. b1 \in Nat
  BY <1>1, <1>4, BaseProperties
<1> QED BY <1>2, <1>3, <1>5

LEMMA FramesCall ==
    ASSUME Static, NEW id \in {1, 2}, NEW at \in Nat, NEW e \in Nat, NEW b \in Nat, NEW b1 \in Nat,
           Frames(id, at, e, b, b1)
    PROVE  /\ call[id] \in AllCalls /\ call[1] \in AllCalls /\ at \in 0..Len(Args(1))
           /\ Cardinality(living[id]) \in Nat /\ StackArgsSize(call[id]) \in Nat
           /\ RegArgCount(call[id]) \in Nat /\ Above(call[id], 0) \in Nat
           /\ RegArgCount(call[id]) = Above(call[id], 0) + First(call[id])
           /\ First(call[id]) \in {0, 1} /\ Above(call[1], at) \in Nat /\ frame \in Nat
<1>1. call[id] \in AllCalls /\ call[1] \in AllCalls
  BY StaticCalls DEF CallsOK
<1>2. at \in 0..Len(Args(1)) /\ at \in Int /\ 0 \in Int
  BY DEF Frames
<1>3. frame \in Nat
  BY CallAssumption DEF Static
<1>4. Cardinality(living[id]) \in Nat
  BY SavedPlaces
<1>5. StackArgsSize(call[id]) \in Nat
  BY <1>1, RoomForArgs
<1>6. /\ RegArgCount(call[id]) = Above(call[id], 0) + First(call[id])
      /\ Above(call[id], 0) \in Nat /\ Above(call[1], at) \in Nat
  BY <1>1, <1>2, AboveSteps
<1>7. First(call[id]) \in {0, 1}
  BY <1>1, CallTypes
<1>8. RegArgCount(call[id]) \in Nat
  BY <1>6, <1>7
<1> QED BY <1>1, <1>2, <1>3, <1>4, <1>5, <1>6, <1>7, <1>8

LEMMA FramesBase ==
    ASSUME Static, NEW id \in {1, 2}, NEW at \in Nat, NEW e \in Nat, NEW b \in Nat, NEW b1 \in Nat,
           Frames(id, at, e, b, b1)
    PROVE  /\ PadOf(id, e) \in 0..15
           /\ b = e + 8 * Cardinality(living[id]) + PadOf(id, e) + StackArgsSize(call[id])
           /\ id = 1 => e = 8 + frame /\ b = b1
           /\ id = 2 => e = b1 + 8 * Above(call[1], at)
<1>1. at \in 0..Len(Args(1)) /\ e = Entry(id, at) /\ b = Base(id, e) /\ b1 = Base(1, 8 + frame)
  BY DEF Frames
<1>2. /\ id = 2 => e = b1 + 8 * Above(call[1], at)
      /\ id = 1 => e = 8 + frame
      /\ e % 8 = 0
  BY <1>1, EntryProperties
<1>3. /\ PadOf(id, e) \in 0..15
      /\ b = e + 8 * Cardinality(living[id]) + PadOf(id, e) + StackArgsSize(call[id])
  BY <1>1, <1>2, BaseProperties
<1> QED BY <1>1, <1>2, <1>3

LEMMA FramesAligned ==
    ASSUME Static, NEW id \in {1, 2}, NEW at \in Nat, NEW e \in Nat, NEW b \in Nat, NEW b1 \in Nat,
           Frames(id, at, e, b, b1)
    PROVE  /\ e % 8 = 0 /\ b % 16 = 0 /\ b % 8 = 0
           /\ b + 8 * RegArgCount(call[id]) <= 4 * StackCells
<1>1. at \in 0..Len(Args(1)) /\ e = Entry(id, at) /\ b = Base(id, e)
  BY DEF Frames
<1>2. e % 8 = 0 /\ b + 8 * RegArgCount(call[id]) <= 4 * StackCells
  BY <1>1, EntryProperties
<1>3. b % 16 = 0 /\ b % 8 = 0
  BY <1>1, <1>2, BaseProperties
<1> QED BY <1>2, <1>3

LEMMA FramesKept ==
    ASSUME NEW id \in {1, 2}, NEW at, NEW e, NEW b, NEW b1, Frames(id, at, e, b, b1),
           UNCHANGED <<frame, call, living>>
    PROVE  /\ Frames(id, at, e, b, b1)'
           /\ PadOf(id, e)' = PadOf(id, e) /\ PadOf(1, 8 + frame)' = PadOf(1, 8 + frame)
BY DEF Frames, Entry, Base, PadOf, Args

LEMMA CodeKept ==
    ASSUME NEW id \in {1, 2}, NEW at, NEW st, NEW k, UNCHANGED call
    PROVE  /\ Code(id, at, st, k)' = Code(id, at, st, k)
           /\ FromArgs(id, at, k)' = FromArgs(id, at, k)
           /\ After(id, at)' = After(id, at)
           /\ PointOK(id, at, st, k) => PointOK(id, at, st, k)'
<1>1. /\ FromArgs(id, at, k)' = FromArgs(id, at, k)
      /\ FromArgs(id, at, k - 1)' = FromArgs(id, at, k - 1)
      /\ FromArgs(1, at, at - 1)' = FromArgs(1, at, at - 1)
  BY DEF FromArgs, ArgCode, InnerIrs, Args
<1>2. GenFuncall(id, call[id], Inside(id, at), InnerIrs(id))'
        = GenFuncall(id, call[id], Inside(id, at), InnerIrs(id))
  BY DEF InnerIrs
<1>3. Code(id, at, st, k)' = Code(id, at, st, k)
  BY <1>1, <1>2 DEF Code
<1>4. Code(1, at, "own", at)' = Code(1, at, "own", at)
  BY <1>1 DEF Code
<1>5. After(id, at)' = After(id, at)
  BY <1>4 DEF After
<1>6. PointOK(id, at, st, k) => PointOK(id, at, st, k)'
  BY DEF PointOK, Args
<1> QED BY <1>1, <1>3, <1>5, <1>6

LEMMA ArrivingAt ==
    ASSUME Static, NEW id \in {1, 2}, NEW at \in Nat, NEW k \in Nat, NEW e \in Nat, NEW b \in Nat,
           NEW b1 \in Nat, Arriving(id, at, k, e, b, b1)
    PROVE  Somewhere
<1> DEFINE n == Len(Args(id))
           c == call[id]
<1>1. CallsOK /\ at \in 0..Len(Args(1)) /\ (id = 2 => at # 0) /\ k \in 0..n
      /\ Frames(id, at, e, b, b1)
  BY StaticCalls DEF Arriving, Frames
<1>2. n \in Nat /\ Len(Args(2)) \in Nat /\ c.ret_struct \in BOOLEAN
  <2>1. c \in AllCalls /\ call[2] \in AllCalls
    BY <1>1 DEF CallsOK
  <2> QED BY <2>1, CallTypes DEF Args
<1>3. RegArgCount(c) = Above(c, 0) + First(c) /\ Above(c, 0) \in Nat
      /\ (id = 1 => b = b1)
  BY <1>1, FramesCall, FramesBase
<1>4. /\ irs = FromArgs(id, at, k) \o After(id, at)
      /\ stackpos = b + WORD * Above(c, k) /\ rsp = -stackpos
      /\ aligned[id] = PadOf(id, e) /\ (id = 2 => aligned[1] = PadOf(1, 8 + frame))
      /\ Placed(id, b, k) /\ (id = 2 => Placed(1, b1, at))
      /\ AllHeld(2)
  BY DEF Arriving
<1>5. CASE k = 0 /\ c.ret_struct
  <2>1. irs = Code(id, at, "ret", 0) \o After(id, at)
    BY <1>1, <1>4, <1>5, ArgsPoint
  <2>2. PointOK(id, at, "ret", 0)
    BY <1>1, <1>5 DEF PointOK
  <2>3. StackAt(id, "ret", 0, e, b)
    BY <1>4, <1>5 DEF StackAt
  <2>4. MemAt(id, at, "ret", 0, e, b, b1) /\ RegsAt(id, "ret")
    BY <1>4, <1>5 DEF MemAt, RegsAt
  <2>5. At(id, at, "ret", 0, e, b, b1)
    BY <1>1, <2>1, <2>2, <2>3, <2>4 DEF At
  <2>6. "ret" \in Stages /\ 0 \in Nat
    BY DEF Stages
  <2> QED BY <2>5, <2>6 DEF Somewhere
<1>6. CASE k = 0 /\ ~c.ret_struct
  <2>1. irs = Code(id, at, "save", 0) \o After(id, at)
    BY <1>1, <1>4, <1>6, ArgsPoint
  <2>2. PointOK(id, at, "save", 0)
    BY <1>1, <1>6 DEF PointOK
  <2>3. RegArgCount(c) = Above(c, 0)
    BY <1>3, <1>6 DEF First
  <2>4. StackAt(id, "save", 0, e, b)
    BY <1>4, <1>6, <2>3 DEF StackAt
  <2>5. MemAt(id, at, "save", 0, e, b, b1) /\ RegsAt(id, "save")
    BY <1>4, <1>6 DEF MemAt, RegsAt, RetPlaced
  <2>6. At(id, at, "save", 0, e, b, b1)
    BY <1>1, <2>1, <2>2, <2>4, <2>5 DEF At
  <2>7. "save" \in Stages /\ 0 \in Nat
    BY DEF Stages
  <2> QED BY <2>6, <2>7 DEF Somewhere
<1>7. CASE k # 0 /\ ~(id = 1 /\ k = at)
  <2>1. irs = Code(id, at, "own", k) \o After(id, at)
    BY <1>1, <1>4, <1>7, ArgsPoint
  <2>2. PointOK(id, at, "own", k)
    BY <1>1, <1>2, <1>7 DEF PointOK
  <2>3. StackAt(id, "own", k, e, b)
    BY <1>4, <1>7 DEF StackAt
  <2>4. MemAt(id, at, "own", k, e, b, b1) /\ RegsAt(id, "own")
    BY <1>4, <1>7 DEF MemAt, RegsAt
  <2>5. At(id, at, "own", k, e, b, b1)
    BY <1>1, <2>1, <2>2, <2>3, <2>4 DEF At
  <2>6. "own" \in Stages
    BY DEF Stages
  <2> QED BY <2>5, <2>6 DEF Somewhere
<1>8. CASE k # 0 /\ id = 1 /\ k = at
  <2> DEFINE m == Len(Args(2))
             d == b + WORD * Above(call[1], at)
  <2>1. irs = Code(2, at, "pre", m) \o After(2, at)
    BY <1>1, <1>4, <1>8, ArgsPoint
  <2>2. PointOK(2, at, "pre", m)
    BY <1>1, <1>8 DEF PointOK
  <2>3. Entry(2, at) = d /\ b = b1
    BY <1>1, <1>3, <1>8 DEF Frames, Entry
  <2>4. Frames(2, at, d, Base(2, d), b1)
    BY <1>1, <1>8, <2>3 DEF Frames
  <2>5. d \in Nat /\ Base(2, d) \in Nat
    BY <2>4, FramesType
  <2>6. stackpos = d
    BY <1>4, <1>8
  <2> HIDE DEF d
  <2>7. e = 8 + frame
    BY <1>1, <1>8, FramesCall, FramesBase
  <2>8. StackAt(2, "pre", m, d, Base(2, d))
    BY <1>4, <1>8, <2>6, <2>7 DEF StackAt
  <2>9. Placed(2, Base(2, d), m)
    BY <1>2 DEF Placed
  <2>10. MemAt(2, at, "pre", m, d, Base(2, d), b1) /\ RegsAt(2, "pre")
    BY <1>4, <1>8, <2>3, <2>9 DEF MemAt, RegsAt
  <2>11. At(2, at, "pre", m, d, Base(2, d), b1)
    BY <2>1, <2>2, <2>4, <2>8, <2>10 DEF At
  <2>12. "pre" \in Stages
    BY DEF Stages
  <2>13. m \in Nat
    BY <1>2
  <2> HIDE DEF m
  <2> QED BY <2>5, <2>11, <2>12, <2>13 DEF Somewhere
<1> QED BY <1>2, <1>5, <1>6, <1>7, <1>8

LEMMA ArrivingSomewhere == Static /\ SomewhereArriving => Somewhere
BY ArrivingAt DEF SomewhereArriving

-----------------------------------------------------------------------------
(* The invariant holds at first                                            *)

LEMMA InitIInv == Init => IInv
<1> SUFFICES ASSUME Init PROVE IInv
  OBVIOUS
<1>0. PICK outer \in Calls, nested \in Calls \cup InnerCalls, size \in FrameSizes,
           lo \in SUBSET CallerSave, li \in SUBSET CallerSave :
        \E at \in 0..Len(outer.args) :
          /\ lo \subseteq li
          /\ IF at = 0 THEN nested = outer /\ li = lo ELSE nested \in InnerCalls
          /\ call = <<outer, nested>>
          /\ living = <<lo, li>>
          /\ irs = GenFuncall(1, outer, at, GenFuncall(2, nested, 0, << >>))
          /\ frame = size
          /\ stackpos = 8 + size
          /\ rsp = -(8 + size)
          /\ aligned = <<0, 0>>
          /\ mem = [a \in Cells |-> Junk]
          /\ regs = [r \in CallerSave |-> Held(r)]
          /\ ireg = [k \in 0..(MaxRegArgs - 1) |-> Junk]
          /\ freg = [k \in 0..(MaxFregArgs - 1) |-> Junk]
  BY Zenon DEF Init
<1>1. PICK at \in 0..Len(outer.args) :
        /\ lo \subseteq li
        /\ call = <<outer, nested>>
        /\ living = <<lo, li>>
        /\ irs = GenFuncall(1, outer, at, GenFuncall(2, nested, 0, << >>))
        /\ frame = size
        /\ stackpos = 8 + size
        /\ rsp = -(8 + size)
        /\ aligned = <<0, 0>>
        /\ mem = [a \in Cells |-> Junk]
        /\ regs = [r \in CallerSave |-> Held(r)]
        /\ ireg = [k \in 0..(MaxRegArgs - 1) |-> Junk]
        /\ freg = [k \in 0..(MaxFregArgs - 1) |-> Junk]
  BY <1>0
<1>2. Junk \in Values /\ \A r \in CallerSave : Held(r) \in Values
  BY DEF Values
<1>3. Static
  BY <1>1, <1>2 DEF Static
<1> DEFINE n == Len(Args(1))
           e == 8 + frame
           b == Base(1, e)
<1>4. CallsOK /\ Args(1) = outer.args /\ n \in Nat
  <2>1. CallsOK /\ call[1] = outer /\ call[1] \in AllCalls
    BY <1>1, <1>3, StaticCalls DEF CallsOK
  <2> QED BY <2>1, CallTypes DEF Args
<1>5. at \in 0..n /\ at \in Nat
  BY <1>1, <1>4
<1>6. PointOK(1, at, "pre", n)
  BY <1>5 DEF PointOK
<1>7. Frames(1, at, e, b, b)
  BY <1>5 DEF Frames, Entry
<1>8. e \in Nat /\ b \in Nat
  BY <1>3, <1>7, FramesType
<1>9. Code(1, at, "pre", n) = irs /\ After(1, at) = << >>
  <2>1. call[1] = outer /\ call[2] = nested
    BY <1>1
  <2> QED BY <1>1, <1>4, <2>1 DEF Code, Inside, InnerIrs, After
<1>10. irs \in Seq(Instructions)
  <2>1. GenFuncall(2, nested, 0, << >>) \in Seq(Instructions)
    <3>1. << >> \in Seq(Instructions) /\ nested \in AllCalls
      BY <1>1 DEF AllCalls
    <3> QED BY <3>1, GenFuncallType
  <2>2. outer \in AllCalls
    BY DEF AllCalls
  <2> QED BY <1>1, <2>1, <2>2, GenFuncallType
<1>11. irs = Code(1, at, "pre", n) \o After(1, at)
  BY <1>9, <1>10, ConcatEmptySeq
<1>12. StackAt(1, "pre", n, e, b)
  BY <1>1 DEF StackAt
<1>13. Placed(1, b, n)
  BY <1>4 DEF Placed
<1>14. AllHeld(2)
  BY <1>1 DEF AllHeld
<1>15. MemAt(1, at, "pre", n, e, b, b) /\ RegsAt(1, "pre")
  BY <1>13, <1>14 DEF MemAt, RegsAt
<1> HIDE DEF n, e, b
<1>16. At(1, at, "pre", n, e, b, b)
  BY <1>6, <1>7, <1>11, <1>12, <1>15 DEF At
<1>17. "pre" \in Stages /\ n \in Nat
  BY <1>4 DEF Stages, n
<1>18. Somewhere
  BY <1>5, <1>8, <1>16, <1>17 DEF Somewhere
<1> QED BY <1>3, <1>18 DEF IInv

-----------------------------------------------------------------------------
(* What the stores leave alone                                             *)

LEMMA CellsAreNumbers == \A a \in Cells : a \in Int
<1>1. StackCells \in Nat
  BY CallAssumption
<1> QED BY <1>1 DEF Cells, Cell

LEMMA CellThere ==
    ASSUME NEW a \in Int, a % 8 = 0, -(4 * StackCells) <= a, a < 0
    PROVE  a \in Cells
<1>1. StackCells \in Nat
  BY CallAssumption
<1> DEFINE k == (0 - a) \div 4
<1>2. k \in 1..StackCells /\ a = -4 * k
  BY <1>1
<1> QED BY <1>2 DEF Cells, Cell

\* The arguments come to lie between what is pushed and the saved registers.
LEMMA PlaceProperties ==
    ASSUME NEW id \in {1, 2}, CallsOK, NEW b \in Nat, NEW j \in 1..Len(Args(id)),
           NEW k \in 0..Len(Args(id)), k < j
    PROVE  /\ PlaceOfArg(id, b, j) \in Int /\ SizeOfArg(id, j) \in Nat
           /\ -(b + 8 * Above(call[id], k)) <= PlaceOfArg(id, b, j)
           /\ PlaceOfArg(id, b, j) + SizeOfArg(id, j) <= StackArgsSize(call[id]) - b
           /\ j \in RegArgs(call[id]) => PlaceOfArg(id, b, j) + SizeOfArg(id, j) <= -b
           /\ j \notin RegArgs(call[id]) => -b <= PlaceOfArg(id, b, j)
           /\ Above(call[id], k) \in Nat /\ StackArgsSize(call[id]) \in Nat
<1> DEFINE c == call[id]
           S == StackArgsSize(c)
<1>1. c \in AllCalls
  BY DEF CallsOK
<1>2. Len(Args(id)) \in Nat /\ Args(id)[j].size \in Nat
  BY <1>1, CallTypes DEF Args
<1>3. k \in Int /\ j - 1 \in Int /\ k <= j - 1
  BY <1>2
<1>4. Above(c, k) \in Nat /\ Above(c, j - 1) \in Nat /\ Above(c, j - 1) <= Above(c, k)
  BY <1>1, <1>3, AboveSteps
<1>5. S \in Nat
  BY <1>1, RoomForArgs
<1> DEFINE p == PlaceOfArg(id, b, j)
           z == SizeOfArg(id, j)
           A == Above(c, k)
           A1 == Above(c, j - 1)
<1>6. CASE j \in RegArgs(c)
  <2>1. A1 = Above(c, j) + 1 /\ Above(c, j) \in Nat
    <3>1. j \in 1..Len(c.args) /\ j \in Int
      BY DEF Args
    <3> QED BY <1>1, <1>6, <3>1, AboveSteps
  <2>2. p = -(b + 8 * A1) /\ z = 8
    BY <1>6 DEF PlaceOfArg, SizeOfArg, WORD
  <2>3. A \in Nat /\ A1 \in Nat /\ A1 <= A /\ 1 <= A1
    BY <1>4, <2>1
  <2> HIDE DEF p, z, A, A1, S
  <2>4. /\ p \in Int /\ z \in Nat /\ -(b + 8 * A) <= p /\ p + z <= S - b /\ p + z <= -b
    BY <1>5, <2>2, <2>3
  <2> QED BY <1>4, <1>5, <1>6, <2>4 DEF p, z, A, S
<1>7. CASE j \notin RegArgs(c)
  <2>1. StackOffset(c, j) \in Nat /\ StackOffset(c, j) + Args(id)[j].size <= S
    BY <1>1, <1>7, RoomForArgs DEF Args
  <2>2. p = StackOffset(c, j) - b /\ z = Args(id)[j].size
    BY <1>7 DEF PlaceOfArg, SizeOfArg
  <2>3. A \in Nat
    BY <1>4
  <2> HIDE DEF p, z, A, S
  <2>4. /\ p \in Int /\ z \in Nat /\ -(b + 8 * A) <= p /\ p + z <= S - b /\ -b <= p
    BY <1>2, <1>5, <2>1, <2>2, <2>3
  <2> QED BY <1>4, <1>5, <1>7, <2>4 DEF p, z, A, S
<1> QED BY <1>6, <1>7

LEMMA PlacedKept ==
    ASSUME NEW id \in {1, 2}, Static, NEW b \in Nat, NEW k \in 0..Len(Args(id)), Placed(id, b, k),
           UNCHANGED call, DOMAIN mem' = DOMAIN mem,
           \A a \in Cells : (/\ -(b + 8 * Above(call[id], k)) <= a
                             /\ a < StackArgsSize(call[id]) - b) => mem'[a] = mem[a]
    PROVE  Placed(id, b, k)'
<1>1. CallsOK /\ DOMAIN mem = Cells
  BY StaticCalls DEF Static
<1>2. ASSUME NEW j \in 1..Len(Args(id)), j > k
      PROVE  HoldsAt(mem', PlaceOfArg(id, b, j), SizeOfArg(id, j), Arg(id, j))
  <2> DEFINE p == PlaceOfArg(id, b, j)
             z == SizeOfArg(id, j)
             low == -(b + 8 * Above(call[id], k))
             high == StackArgsSize(call[id]) - b
  <2>1. k < j
    <3>1. Len(Args(id)) \in Nat
      BY <1>1, CallTypes DEF CallsOK, Args
    <3> QED BY <1>2, <3>1
  <2>2. /\ p \in Int /\ z \in Nat /\ low <= p /\ p + z <= high
        /\ Above(call[id], k) \in Nat /\ StackArgsSize(call[id]) \in Nat
    BY <1>1, <2>1, PlaceProperties
  <2>3. low \in Int /\ high \in Int
    BY <2>2
  <2>4. HoldsAt(mem, p, z, Arg(id, j))
    BY <1>2 DEF Placed
  <2> HIDE DEF p, z
  <2>5. ASSUME NEW a \in DOMAIN mem', p <= a, a < p + z PROVE mem'[a] = Arg(id, j)
    <3>1. a \in Cells /\ a \in Int
      BY <1>1, CellsAreNumbers
    <3> HIDE DEF low, high
    <3>2. low <= a /\ a < high
      BY <2>2, <2>3, <2>5, <3>1
    <3>3. mem'[a] = mem[a]
      BY <3>1, <3>2 DEF low, high
    <3>4. mem[a] = Arg(id, j)
      BY <1>1, <2>4, <2>5, <3>1 DEF HoldsAt
    <3> QED BY <3>3, <3>4
  <2> QED BY <2>5 DEF HoldsAt, p, z
<1>3. \A j : PlaceOfArg(id, b, j)' = PlaceOfArg(id, b, j) /\ SizeOfArg(id, j)' = SizeOfArg(id, j)
  BY DEF PlaceOfArg, SizeOfArg, Args
<1>4. Args(id)' = Args(id)
  BY DEF Args
<1> QED BY <1>2, <1>3, <1>4 DEF Placed

-----------------------------------------------------------------------------
(* Every instruction keeps the invariant                                   *)

\* The instruction tells the point.
LEMMA HeadIs ==
    ASSUME Static, NEW id \in {1, 2}, NEW at \in Nat, NEW st \in Stages, NEW k \in Nat,
           NEW e \in Nat, NEW b \in Nat, NEW b1 \in Nat, At(id, at, st, k, e, b, b1)
    PROVE  /\ irs \in Seq(Instructions) /\ (irs = << >> <=> st = "end") /\ (st = "end" => id = 1)
           /\ \/ st = "pre" /\ Head(irs) = Op("PRECALL", id)
              \/ st = "add" /\ Head(irs) = Op("ADDSP", id)
              \/ st = "own" /\ Head(irs) = ArgIr(id, call[id], k)
              \/ st = "ret" /\ Head(irs) = RetIr(id)
              \/ st = "save" /\ Head(irs) = Op("SAVE", id)
              \/ st = "pop" /\ Head(irs) = Op("POPARGS", id)
              \/ st = "invoke" /\ Head(irs) = Op("INVOKE", id)
              \/ st = "restore" /\ Head(irs) = Op("RESTORE", id)
              \/ st = "end"
<1>1. CallsOK /\ PointOK(id, at, st, k) /\ irs = Code(id, at, st, k) \o After(id, at)
  BY StaticCalls DEF At
<1>2. CASE st = "pre"
  BY <1>1, <1>2, FirstPre
<1>3. CASE st = "add"
  BY <1>1, <1>3, FirstAdd
<1>4. CASE st = "own"
  BY <1>1, <1>4, FirstOwn
<1>5. CASE st = "ret"
  BY <1>1, <1>5, FirstRet
<1>6. CASE st = "save"
  BY <1>1, <1>6, FirstSave
<1>7. CASE st = "pop"
  BY <1>1, <1>7, FirstPop
<1>8. CASE st = "invoke"
  BY <1>1, <1>8, FirstInvoke
<1>9. CASE st = "restore"
  BY <1>1, <1>9, FirstRestore
<1>10. CASE st = "end"
  <2>1. irs = << >> /\ id = 1
    BY <1>1, <1>10, NothingAtEnd DEF PointOK
  <2> QED BY <1>10, <2>1
<1> QED BY <1>2, <1>3, <1>4, <1>5, <1>6, <1>7, <1>8, <1>9, <1>10 DEF Stages

LEMMA Executes ==
    ASSUME Static, NEW id \in {1, 2}, NEW at \in Nat, NEW st \in Stages, NEW k \in Nat,
           NEW e \in Nat, NEW b \in Nat, NEW b1 \in Nat, At(id, at, st, k, e, b, b1),
           NEW o, Executing(o)
    PROVE  /\ Ir.id = id /\ st # "end" /\ irs' = Tail(irs)
           /\ o = "PRECALL" => st = "pre"
           /\ o = "ADDSP" => st = "add"
           /\ o = "PUSHARG" => st \in {"own", "ret"}
           /\ o = "STORE" => st = "own"
           /\ o = "SAVE" => st = "save"
           /\ o = "POPARGS" => st = "pop"
           /\ o = "INVOKE" => st = "invoke"
           /\ o = "RESTORE" => st = "restore"
<1>1. irs # << >> /\ Head(irs).op = o /\ irs' = Tail(irs)
  BY DEF Executing, Ir
<1>2. st # "end"
  BY <1>1, HeadIs
<1>3. \/ st = "pre" /\ Head(irs) = Op("PRECALL", id)
      \/ st = "add" /\ Head(irs) = Op("ADDSP", id)
      \/ st = "own" /\ Head(irs) = ArgIr(id, call[id], k)
      \/ st = "ret" /\ Head(irs) = RetIr(id)
      \/ st = "save" /\ Head(irs) = Op("SAVE", id)
      \/ st = "pop" /\ Head(irs) = Op("POPARGS", id)
      \/ st = "invoke" /\ Head(irs) = Op("INVOKE", id)
      \/ st = "restore" /\ Head(irs) = Op("RESTORE", id)
  BY <1>2, HeadIs
<1> QED BY <1>1, <1>2, <1>3 DEF Op, RetIr, ArgIr, Ir

LEMMA ExecutesArg ==
    ASSUME Static, NEW id \in {1, 2}, NEW at \in Nat, NEW st \in Stages, NEW k \in Nat,
           NEW e \in Nat, NEW b \in Nat, NEW b1 \in Nat, At(id, at, st, k, e, b, b1)
    PROVE  /\ st = "own" => Ir = ArgIr(id, call[id], k)
           /\ st = "ret" => Ir = RetIr(id)
<1>1. CallsOK /\ PointOK(id, at, st, k) /\ irs = Code(id, at, st, k) \o After(id, at)
  BY StaticCalls DEF At
<1>2. CASE st = "own"
  BY <1>1, <1>2, FirstOwn DEF Ir
<1>3. CASE st = "ret"
  BY <1>1, <1>3, FirstRet DEF Ir
<1> QED BY <1>2, <1>3

LEMMA SameMemory ==
    ASSUME NEW id \in {1, 2}, NEW b, NEW k, NEW e, UNCHANGED <<mem, call, living>>
    PROVE  /\ Placed(id, b, k)' = Placed(id, b, k)
           /\ RetPlaced(id, b)' = RetPlaced(id, b)
           /\ SavedAll(id, e)' = SavedAll(id, e)
BY DEF Placed, PlaceOfArg, SizeOfArg, Args, RetPlaced, SavedAll, PlaceOfSaved, StoredBefore, HoldsAt

LEMMA SameRegisters ==
    ASSUME NEW id \in {1, 2}, UNCHANGED <<regs, living>> PROVE AllHeld(id)' = AllHeld(id)
BY DEF AllHeld

LEMMA PrecallStep ==
    ASSUME Static, NEW id \in {1, 2}, NEW at \in Nat, NEW st \in Stages, NEW k \in Nat,
           NEW e \in Nat, NEW b \in Nat, NEW b1 \in Nat, At(id, at, st, k, e, b, b1), Precall
    PROVE  Static' /\ (Somewhere \/ SomewhereArriving)'
<1> DEFINE c == call[id]
           S == StackArgsSize(c)
           L == Cardinality(living[id])
           n == Len(Args(id))
<1>0. Executing("PRECALL") /\ UNCHANGED <<frame, call, living, mem, regs, ireg, freg>>
  BY DEF Precall
<1>1. Ir.id = id /\ st = "pre" /\ irs' = Tail(irs)
  BY <1>0, Executes
<1>2. /\ PointOK(id, at, st, k) /\ Frames(id, at, e, b, b1)
      /\ irs = Code(id, at, st, k) \o After(id, at)
      /\ StackAt(id, st, k, e, b) /\ MemAt(id, at, st, k, e, b, b1) /\ RegsAt(id, st)
      /\ CallsOK
  BY StaticCalls DEF At
<1>3. /\ k = n /\ stackpos = e /\ rsp = -e /\ (id = 2 => aligned[1] = PadOf(1, 8 + frame))
      /\ Placed(id, b, k) /\ (id = 2 => Placed(1, b1, at)) /\ AllHeld(2)
  BY <1>1, <1>2 DEF PointOK, StackAt, MemAt, RegsAt
<1>4. /\ c \in AllCalls /\ PadOf(id, e) \in 0..15 /\ L \in Nat /\ S \in Nat
      /\ b = e + 8 * L + PadOf(id, e) + S
  <2>1. b = e + 8 * L + PadOf(id, e) + S
    BY <1>2 DEF Frames, Base, WORD
  <2> QED BY <1>2, <2>1, FramesCall, FramesBase
<1>5. Padding(id) = PadOf(id, e)
  BY <1>3 DEF Padding, PadOf
<1>6. /\ aligned' = [aligned EXCEPT ![id] = PadOf(id, e)]
      /\ rsp' = rsp - (8 * L + PadOf(id, e)) /\ stackpos' = stackpos + (8 * L + PadOf(id, e))
  BY <1>1, <1>5 DEF Precall, WORD
<1>7. stackpos' = b - S /\ rsp' = -stackpos'
  <2> DEFINE p == PadOf(id, e)
  <2>1. p \in Nat
    BY <1>4
  <2>2. rsp' = rsp - (8 * L + p) /\ stackpos' = stackpos + (8 * L + p) /\ b = e + 8 * L + p + S
    BY <1>4, <1>6
  <2> HIDE DEF p, L, S
  <2>3. L \in Nat /\ S \in Nat
    BY <1>4 DEF L, S
  <2> QED BY <1>3, <2>1, <2>2, <2>3
<1>8. aligned' \in (0..15) \X (0..15) /\ aligned'[id] = PadOf(id, e) /\ (id = 2 => aligned'[1] = aligned[1])
  <2> DEFINE p == PadOf(id, e)
  <2>1. p \in 0..15 /\ aligned' = [aligned EXCEPT ![id] = p] /\ aligned \in (0..15) \X (0..15)
    BY <1>4, <1>6 DEF Static
  <2> HIDE DEF p
  <2>2. aligned' \in (0..15) \X (0..15) /\ aligned'[id] = p /\ (id = 2 => aligned'[1] = aligned[1])
    BY <2>1
  <2> QED BY <2>2 DEF p
<1>9. Static'
  BY <1>0, <1>8 DEF Static
<1>10. /\ Frames(id, at, e, b, b1)' /\ PadOf(id, e)' = PadOf(id, e)
       /\ PadOf(1, 8 + frame)' = PadOf(1, 8 + frame)
  BY <1>0, <1>2, FramesKept
<1>11. /\ Placed(id, b, k)' /\ (id = 2 => Placed(1, b1, at)') /\ AllHeld(2)'
  BY <1>0, <1>3, SameMemory, SameRegisters
<1>12. /\ aligned'[id] = PadOf(id, e)' /\ (id = 2 => aligned'[1] = PadOf(1, 8 + frame)')
  BY <1>3, <1>8, <1>10
<1>13. CASE PointOK(id, at, "add", k)
  <2>1. irs' = Code(id, at, "add", k) \o After(id, at)
    BY <1>1, <1>2, <1>13, FirstPre
  <2>2. (irs = Code(id, at, "add", k) \o After(id, at))'
    BY <1>0, <2>1, CodeKept
  <2>3. PointOK(id, at, "add", k)'
    BY <1>0, <1>13, CodeKept
  <2>4. StackAt(id, "add", k, e, b)'
    BY <1>0, <1>7, <1>12 DEF StackAt
  <2>5. MemAt(id, at, "add", k, e, b, b1)' /\ RegsAt(id, "add")'
    BY <1>11 DEF MemAt, RegsAt
  <2>6. At(id, at, "add", k, e, b, b1)'
    BY <1>10, <2>2, <2>3, <2>4, <2>5 DEF At
  <2>7. "add" \in Stages
    BY DEF Stages
  <2>8. Somewhere'
    BY <2>6, <2>7 DEF Somewhere
  <2> QED BY <1>9, <2>8
<1>14. CASE ~PointOK(id, at, "add", k)
  <2>1. irs' = FromArgs(id, at, k) \o After(id, at)
    <3>1. Tail(irs) = FromArgs(id, at, k) \o After(id, at)
      BY <1>1, <1>2, <1>14, FirstPre
    <3> QED BY <1>1, <3>1
  <2>2. (irs = FromArgs(id, at, k) \o After(id, at))'
    BY <1>0, <2>1, CodeKept
  <2>3. Above(c, k) = 0
    BY <1>3, <1>4, AboveSteps DEF Args
  <2>4. S = 0
    BY <1>2, <1>3, <1>4, <1>14 DEF PointOK, Frames
  <2>5. stackpos' = b + WORD * Above(c, k)
    BY <1>7, <2>3, <2>4 DEF WORD
  <2>6. k \in 0..Len(Args(id)')
    BY <1>0, <1>3 DEF Args
  <2>7. Arriving(id, at, k, e, b, b1)'
    BY <1>0, <1>7, <1>10, <1>11, <1>12, <2>2, <2>5, <2>6 DEF Arriving
  <2>8. SomewhereArriving'
    BY <2>7 DEF SomewhereArriving
  <2> QED BY <1>9, <2>8
<1> QED BY <1>13, <1>14

LEMMA AddSpStep ==
    ASSUME Static, NEW id \in {1, 2}, NEW at \in Nat, NEW st \in Stages, NEW k \in Nat,
           NEW e \in Nat, NEW b \in Nat, NEW b1 \in Nat, At(id, at, st, k, e, b, b1), AddSp
    PROVE  Static' /\ (Somewhere \/ SomewhereArriving)'
<1> DEFINE c == call[id]
           S == StackArgsSize(c)
<1>0. /\ Executing("ADDSP") /\ UNCHANGED <<frame, call, living, aligned, mem, regs, ireg, freg>>
      /\ rsp' = rsp - StackArgsSize(Called) /\ stackpos' = stackpos + StackArgsSize(Called)
  BY DEF AddSp
<1>1. Ir.id = id /\ st = "add" /\ irs' = Tail(irs)
  BY <1>0, Executes
<1>2. /\ PointOK(id, at, st, k) /\ Frames(id, at, e, b, b1)
      /\ irs = Code(id, at, st, k) \o After(id, at)
      /\ StackAt(id, st, k, e, b) /\ MemAt(id, at, st, k, e, b, b1) /\ RegsAt(id, st)
      /\ CallsOK
  BY StaticCalls DEF At
<1>3. /\ k = Len(Args(id)) /\ stackpos = b - S /\ rsp = -stackpos
      /\ aligned[id] = PadOf(id, e) /\ (id = 2 => aligned[1] = PadOf(1, 8 + frame))
      /\ Placed(id, b, k) /\ (id = 2 => Placed(1, b1, at)) /\ AllHeld(2)
  BY <1>1, <1>2 DEF PointOK, StackAt, MemAt, RegsAt
<1>4. c \in AllCalls /\ S \in Nat /\ Above(c, k) = 0 /\ k \in 0..Len(Args(id))
  <2>1. c \in AllCalls /\ S \in Nat
    BY <1>2, FramesCall
  <2>2. Len(c.args) \in Nat /\ Above(c, Len(c.args)) = 0
    BY <2>1, CallTypes, AboveSteps
  <2> QED BY <1>3, <2>1, <2>2 DEF Args
<1>5. stackpos' = b + WORD * Above(c, k) /\ rsp' = -stackpos'
  <2>1. rsp' = rsp - S /\ stackpos' = stackpos + S
    BY <1>0, <1>1 DEF Called
  <2> HIDE DEF S
  <2>2. stackpos' = b /\ rsp' = -b
    BY <1>3, <1>4, <2>1
  <2> QED BY <1>4, <2>2 DEF WORD
<1>6. Static'
  BY <1>0 DEF Static
<1>7. /\ Frames(id, at, e, b, b1)' /\ PadOf(id, e)' = PadOf(id, e)
      /\ PadOf(1, 8 + frame)' = PadOf(1, 8 + frame)
  BY <1>0, <1>2, FramesKept
<1>8. /\ Placed(id, b, k)' /\ (id = 2 => Placed(1, b1, at)') /\ AllHeld(2)'
  BY <1>0, <1>3, SameMemory, SameRegisters
<1>9. (irs = FromArgs(id, at, k) \o After(id, at))'
  <2>1. Tail(irs) = FromArgs(id, at, k) \o After(id, at)
    BY <1>1, <1>2, FirstAdd
  <2> QED BY <1>0, <1>1, <2>1, CodeKept
<1>10. Arriving(id, at, k, e, b, b1)'
  BY <1>0, <1>3, <1>4, <1>5, <1>7, <1>8, <1>9 DEF Arriving, Args
<1>11. SomewhereArriving'
  BY <1>10 DEF SomewhereArriving
<1> QED BY <1>6, <1>11

LEMMA StoredProperties ==
    ASSUME mem \in [Cells -> Values], NEW p \in Int, NEW z \in Nat, NEW v \in Values,
           mem' = Stored(mem, p, z, v)
    PROVE  /\ mem' \in [Cells -> Values]
           /\ \A a \in Cells : mem'[a] = IF p <= a /\ a < p + z THEN v ELSE mem[a]
BY DEF Stored

\* No two arguments have a cell in common.
LEMMA PlacesApart ==
    ASSUME NEW id \in {1, 2}, CallsOK, NEW b \in Nat, NEW k \in 1..Len(Args(id)),
           NEW j \in 1..Len(Args(id)), k < j
    PROVE  \/ PlaceOfArg(id, b, k) + SizeOfArg(id, k) <= PlaceOfArg(id, b, j)
           \/ PlaceOfArg(id, b, j) + SizeOfArg(id, j) <= PlaceOfArg(id, b, k)
<1> DEFINE c == call[id]
           R == RegArgs(c)
           pj == PlaceOfArg(id, b, j)
           zj == SizeOfArg(id, j)
           pk == PlaceOfArg(id, b, k)
           zk == SizeOfArg(id, k)
<1>1. c \in AllCalls /\ Len(Args(id)) \in Nat
  BY CallTypes DEF CallsOK, Args
<1>2. k \in 0..Len(Args(id)) /\ k - 1 \in 0..Len(Args(id)) /\ k - 1 < k
  BY <1>1
<1>3. /\ pj \in Int /\ zj \in Nat /\ -(b + 8 * Above(c, k)) <= pj
      /\ j \in R => pj + zj <= -b
      /\ j \notin R => -b <= pj
      /\ Above(c, k) \in Nat
  BY <1>2, PlaceProperties
<1>4. pk \in Int /\ zk \in Nat /\ (k \notin R => -b <= pk)
  BY <1>2, PlaceProperties
<1>5. CASE k \in R
  <2>1. Above(c, k - 1) = Above(c, k) + 1
    BY <1>1, <1>5, AboveSteps DEF Args
  <2>2. pk = -(b + 8 * Above(c, k - 1)) /\ zk = 8
    BY <1>5 DEF PlaceOfArg, SizeOfArg, WORD
  <2> HIDE DEF pk, zk, pj
  <2> DEFINE A == Above(c, k)
  <2>3. pk = -(b + 8 * (A + 1)) /\ -(b + 8 * A) <= pj /\ A \in Nat
    BY <1>3, <2>1, <2>2
  <2> HIDE DEF A
  <2>4. pk + zk <= pj
    BY <1>3, <2>2, <2>3
  <2> QED BY <2>4 DEF pk, zk, pj
<1>6. CASE k \notin R /\ j \in R
  <2> HIDE DEF pk, zj, pj, R
  <2>1. pj + zj <= pk
    BY <1>3, <1>4, <1>6
  <2> QED BY <2>1 DEF pk, zj, pj
<1>7. CASE k \notin R /\ j \notin R
  <2>1. StackOffset(c, k) + c.args[k].size <= StackOffset(c, j)
    BY <1>1, <1>7, StackArgsApart DEF Args
  <2>2. StackOffset(c, k) \in Nat /\ StackOffset(c, j) \in Nat /\ c.args[k].size \in Nat
    BY <1>1, <1>7, RoomForArgs, CallTypes DEF Args
  <2>3. pk = StackOffset(c, k) - b /\ zk = c.args[k].size /\ pj = StackOffset(c, j) - b
    BY <1>7 DEF PlaceOfArg, SizeOfArg, Args
  <2> HIDE DEF pk, zk, pj
  <2>4. pk + zk <= pj
    BY <2>1, <2>2, <2>3
  <2> QED BY <2>4 DEF pk, zk, pj
<1> QED BY <1>5, <1>6, <1>7

\* The arguments of the outer call are out of reach of what an inner one stores.
LEMMA OuterKept ==
    ASSUME Static, NEW at \in Nat, NEW e \in Nat, NEW b \in Nat, NEW b1 \in Nat,
           Frames(2, at, e, b, b1), Placed(1, b1, at), UNCHANGED call, DOMAIN mem' = DOMAIN mem,
           \A a \in Cells : -e <= a => mem'[a] = mem[a]
    PROVE  Placed(1, b1, at)'
<1>1. at \in 0..Len(Args(1)) /\ e = b1 + 8 * Above(call[1], at)
  BY FramesCall, FramesBase
<1>2. \A a \in Cells : (/\ -(b1 + 8 * Above(call[1], at)) <= a
                        /\ a < StackArgsSize(call[1]) - b1) => mem'[a] = mem[a]
  BY <1>1
<1> QED BY <1>1, <1>2, PlacedKept

\* The last instruction for an argument puts it in its place.
LEMMA OwnStep ==
    ASSUME Static, NEW id \in {1, 2}, NEW at \in Nat, NEW k \in Nat,
           NEW e \in Nat, NEW b \in Nat, NEW b1 \in Nat, At(id, at, "own", k, e, b, b1),
           mem' = Stored(mem, PlaceOfArg(id, b, k), SizeOfArg(id, k), Arg(id, k)),
           irs' = Tail(irs), stackpos' = b + WORD * Above(call[id], k - 1), rsp' = -stackpos',
           UNCHANGED <<frame, call, living, aligned, regs, ireg, freg>>
    PROVE  Static' /\ SomewhereArriving'
<1> DEFINE c == call[id]
           n == Len(Args(id))
           p == PlaceOfArg(id, b, k)
           z == SizeOfArg(id, k)
<1>1. /\ PointOK(id, at, "own", k) /\ Frames(id, at, e, b, b1)
      /\ irs = Code(id, at, "own", k) \o After(id, at)
      /\ StackAt(id, "own", k, e, b) /\ MemAt(id, at, "own", k, e, b, b1) /\ RegsAt(id, "own")
      /\ CallsOK
  BY StaticCalls DEF At
<1>2. /\ k \in 1..n /\ aligned[id] = PadOf(id, e) /\ (id = 2 => aligned[1] = PadOf(1, 8 + frame))
      /\ Placed(id, b, k) /\ (id = 2 => Placed(1, b1, at)) /\ AllHeld(2)
  BY <1>1 DEF PointOK, StackAt, MemAt, RegsAt
<1>3. n \in Nat
  BY <1>1, CallTypes DEF CallsOK, Args
<1>4. k - 1 \in 0..n /\ k - 1 < k
  BY <1>2, <1>3
<1>5. p \in Int /\ z \in Nat /\ p + z <= StackArgsSize(c) - b
  BY <1>1, <1>2, <1>4, PlaceProperties
<1>6. Arg(id, k) \in Values
  BY DEF Arg, Values
<1>7. /\ mem \in [Cells -> Values] /\ mem' \in [Cells -> Values]
      /\ \A a \in Cells : mem'[a] = IF p <= a /\ a < p + z THEN Arg(id, k) ELSE mem[a]
  <2> HIDE DEF p, z
  <2>1. mem \in [Cells -> Values]
    BY DEF Static
  <2>2. mem' = Stored(mem, p, z, Arg(id, k))
    BY DEF p, z
  <2> QED BY <1>5, <1>6, <2>1, <2>2, StoredProperties
<1>8. Static'
  BY <1>7 DEF Static
<1>9. ASSUME NEW j \in 1..n, j > k - 1
      PROVE  HoldsAt(mem', PlaceOfArg(id, b, j), SizeOfArg(id, j), Arg(id, j))
  <2>1. CASE j = k
    BY <1>7, <2>1 DEF HoldsAt
  <2>2. CASE j # k
    <3>1. k < j
      BY <1>2, <1>3, <1>9, <2>2
    <3> DEFINE pj == PlaceOfArg(id, b, j)
               zj == SizeOfArg(id, j)
    <3>2. p + z <= pj \/ pj + zj <= p
      BY <1>1, <1>2, <3>1, PlacesApart
    <3>3. pj \in Int /\ zj \in Nat
      BY <1>1, <1>2, <1>3, <3>1, PlaceProperties
    <3>4. HoldsAt(mem, pj, zj, Arg(id, j))
      BY <1>2, <3>1 DEF Placed
    <3> HIDE DEF p, z, pj, zj
    <3>5. ASSUME NEW a \in DOMAIN mem', pj <= a, a < pj + zj PROVE mem'[a] = Arg(id, j)
      <4>1. a \in Cells /\ a \in Int
        BY <1>7, CellsAreNumbers
      <4>2. ~(p <= a /\ a < p + z)
        BY <1>5, <3>2, <3>3, <3>5, <4>1
      <4>3. mem[a] = Arg(id, j)
        BY <1>7, <3>4, <3>5, <4>1 DEF HoldsAt
      <4> QED BY <1>7, <4>1, <4>2, <4>3
    <3> QED BY <3>5 DEF HoldsAt, pj, zj
  <2> QED BY <2>1, <2>2
<1>10. Placed(id, b, k - 1)'
  <2>1. \A j : PlaceOfArg(id, b, j)' = PlaceOfArg(id, b, j) /\ SizeOfArg(id, j)' = SizeOfArg(id, j)
    BY DEF PlaceOfArg, SizeOfArg, Args
  <2>2. Args(id)' = Args(id)
    BY DEF Args
  <2> QED BY <1>9, <2>1, <2>2 DEF Placed
<1>11. id = 2 => Placed(1, b1, at)'
  <2>1. SUFFICES ASSUME id = 2 PROVE Placed(1, b1, at)'
    OBVIOUS
  <2>2. /\ b = e + 8 * Cardinality(living[id]) + PadOf(id, e) + StackArgsSize(c)
        /\ PadOf(id, e) \in 0..15 /\ Cardinality(living[id]) \in Nat /\ StackArgsSize(c) \in Nat
    <3>1. /\ b = e + 8 * Cardinality(living[id]) + PadOf(id, e) + StackArgsSize(call[id])
          /\ PadOf(id, e) \in 0..15
      BY <1>1, FramesBase
    <3>2. Cardinality(living[id]) \in Nat /\ StackArgsSize(call[id]) \in Nat
      BY <1>1, FramesCall
    <3> QED BY <3>1, <3>2
  <2>3. p + z <= -e
    <3> DEFINE L == Cardinality(living[id])
               q == PadOf(id, e)
               S == StackArgsSize(c)
    <3>1. b = e + 8 * L + q + S /\ q \in 0..15 /\ L \in Nat /\ S \in Nat /\ p + z <= S - b
      BY <1>5, <2>2
    <3> HIDE DEF L, q, S, p, z
    <3> QED BY <1>5, <3>1
  <2>4. ASSUME NEW a \in Cells, -e <= a PROVE mem'[a] = mem[a]
    <3> HIDE DEF p, z
    <3>1. a \in Int
      BY CellsAreNumbers
    <3>2. ~(a < p + z)
      BY <1>5, <2>3, <2>4, <3>1
    <3> QED BY <1>7, <3>2
  <2> QED BY <1>1, <1>2, <1>7, <2>1, <2>4, OuterKept
<1>12. AllHeld(2)'
  BY <1>2, SameRegisters
<1>13. /\ Frames(id, at, e, b, b1)' /\ PadOf(id, e)' = PadOf(id, e)
       /\ PadOf(1, 8 + frame)' = PadOf(1, 8 + frame)
  BY <1>1, FramesKept
<1>14. (irs = FromArgs(id, at, k - 1) \o After(id, at))'
  <2>1. Tail(irs) = FromArgs(id, at, k - 1) \o After(id, at)
    BY <1>1, FirstOwn
  <2> QED BY <2>1, CodeKept
<1>15. (stackpos = b + WORD * Above(call[id], k - 1))'
  OBVIOUS
<1>16. Arriving(id, at, k - 1, e, b, b1)'
  BY <1>2, <1>4, <1>10, <1>11, <1>12, <1>13, <1>14, <1>15 DEF Arriving, Args
<1>17. k - 1 \in Nat
  BY <1>2
<1>18. SomewhereArriving'
  BY <1>16, <1>17 DEF SomewhereArriving
<1> QED BY <1>8, <1>18

LEMMA StoreArgStep ==
    ASSUME Static, NEW id \in {1, 2}, NEW at \in Nat, NEW st \in Stages, NEW k \in Nat,
           NEW e \in Nat, NEW b \in Nat, NEW b1 \in Nat, At(id, at, st, k, e, b, b1), StoreArg
    PROVE  Static' /\ SomewhereArriving'
<1> DEFINE c == call[id]
           A == Above(c, k)
           o == StackOffset(c, k)
<1>0. /\ Executing("STORE") /\ mem' = Stored(mem, rsp + Ir.n, Ir.size, Ir.value)
      /\ UNCHANGED <<frame, call, living, rsp, stackpos, aligned, regs, ireg, freg>>
  BY DEF StoreArg
<1>1. /\ st = "own" /\ k \notin RegArgs(c) /\ Ir.value = Arg(id, k)
      /\ Ir.n = StoreOffset(c, k) /\ Ir.size = Args(id)[k].size /\ irs' = Tail(irs)
  <2>1. st = "own" /\ irs' = Tail(irs)
    BY <1>0, Executes
  <2>2. Ir = ArgIr(id, c, k) /\ Ir.op = "STORE"
    BY <1>0, <2>1, ExecutesArg DEF Executing
  <2> QED BY <2>1, <2>2 DEF ArgIr, Args
<1>2. /\ PointOK(id, at, st, k) /\ StackAt(id, st, k, e, b) /\ CallsOK
  BY StaticCalls DEF At
<1>3. k \in 1..Len(Args(id)) /\ stackpos = b + WORD * A /\ rsp = -stackpos
  BY <1>1, <1>2 DEF PointOK, StackAt
<1>4. c \in AllCalls
  BY <1>2 DEF CallsOK
<1>5. A \in Nat /\ o \in Nat /\ Above(c, k - 1) = A
  <2>1. Len(c.args) \in Nat /\ k \in 1..Len(c.args) /\ k \in Int
    BY <1>3, <1>4, CallTypes DEF Args
  <2> QED BY <1>1, <1>4, <2>1, AboveSteps, RoomForArgs
<1>6. rsp + StoreOffset(c, k) = PlaceOfArg(id, b, k)
  <2>1. StoreOffset(c, k) = o + 8 * A /\ PlaceOfArg(id, b, k) = o - b
    BY <1>1 DEF StoreOffset, Above, PlaceOfArg, WORD
  <2>2. rsp = -(b + 8 * A)
    BY <1>3 DEF WORD
  <2> HIDE DEF o, A
  <2> QED BY <1>5, <2>1, <2>2
<1>7. mem' = Stored(mem, PlaceOfArg(id, b, k), SizeOfArg(id, k), Arg(id, k))
  BY <1>0, <1>1, <1>6 DEF SizeOfArg
<1>8. stackpos' = b + WORD * Above(call[id], k - 1) /\ rsp' = -stackpos'
  BY <1>0, <1>3, <1>5
<1> QED BY <1>0, <1>1, <1>7, <1>8, OwnStep

LEMMA PushOwnStep ==
    ASSUME Static, NEW id \in {1, 2}, NEW at \in Nat, NEW k \in Nat,
           NEW e \in Nat, NEW b \in Nat, NEW b1 \in Nat, At(id, at, "own", k, e, b, b1),
           PushArg, k \in RegArgs(call[id]), Ir.value = Arg(id, k)
    PROVE  Static' /\ SomewhereArriving'
<1> DEFINE c == call[id]
           A == Above(c, k)
           A1 == Above(c, k - 1)
<1>0. /\ Executing("PUSHARG") /\ mem' = Stored(mem, rsp - WORD, WORD, Ir.value)
      /\ rsp' = rsp - WORD /\ stackpos' = stackpos + WORD
      /\ UNCHANGED <<frame, call, living, aligned, regs, ireg, freg>>
  BY DEF PushArg
<1>1. irs' = Tail(irs)
  BY <1>0 DEF Executing
<1>2. /\ PointOK(id, at, "own", k) /\ StackAt(id, "own", k, e, b) /\ CallsOK
  BY StaticCalls DEF At
<1>3. k \in 1..Len(Args(id)) /\ stackpos = b + WORD * A /\ rsp = -stackpos
  BY <1>2 DEF PointOK, StackAt
<1>4. c \in AllCalls
  BY <1>2 DEF CallsOK
<1>5. A \in Nat /\ A1 = A + 1
  <2>1. Len(c.args) \in Nat /\ k \in 1..Len(c.args) /\ k \in Int
    BY <1>3, <1>4, CallTypes DEF Args
  <2> QED BY <1>4, <2>1, AboveSteps
<1>6. PlaceOfArg(id, b, k) = -(b + 8 * A1) /\ SizeOfArg(id, k) = 8
  BY DEF PlaceOfArg, SizeOfArg, WORD
<1>7. /\ rsp - WORD = -(b + 8 * A1) /\ stackpos' = b + 8 * A1 /\ rsp' = -stackpos'
  <2>1. stackpos = b + 8 * A /\ rsp = -(b + 8 * A) /\ rsp' = rsp - 8 /\ stackpos' = stackpos + 8
    BY <1>0, <1>3 DEF WORD
  <2> HIDE DEF A, A1
  <2>2. rsp - 8 = -(b + 8 * A1) /\ stackpos' = b + 8 * A1 /\ rsp' = -stackpos'
    BY <1>5, <2>1
  <2> QED BY <2>2 DEF WORD
<1>8. mem' = Stored(mem, PlaceOfArg(id, b, k), SizeOfArg(id, k), Arg(id, k))
  BY <1>0, <1>6, <1>7 DEF WORD
<1>9. stackpos' = b + WORD * Above(call[id], k - 1)
  BY <1>7 DEF WORD
<1> QED BY <1>0, <1>1, <1>7, <1>8, <1>9, OwnStep

LEMMA PushRetStep ==
    ASSUME Static, NEW id \in {1, 2}, NEW at \in Nat, NEW k \in Nat,
           NEW e \in Nat, NEW b \in Nat, NEW b1 \in Nat, At(id, at, "ret", k, e, b, b1),
           PushArg, Ir.value = RetPtr(id)
    PROVE  Static' /\ Somewhere'
<1> DEFINE c == call[id]
           A == Above(c, 0)
           R == RegArgCount(c)
           S == StackArgsSize(c)
           p == -(b + 8 * R)
<1>0. /\ Executing("PUSHARG") /\ mem' = Stored(mem, rsp - WORD, WORD, Ir.value)
      /\ rsp' = rsp - WORD /\ stackpos' = stackpos + WORD
      /\ UNCHANGED <<frame, call, living, aligned, regs, ireg, freg>>
  BY DEF PushArg
<1>1. irs' = Tail(irs)
  BY <1>0 DEF Executing
<1>2. /\ PointOK(id, at, "ret", k) /\ Frames(id, at, e, b, b1)
      /\ irs = Code(id, at, "ret", k) \o After(id, at)
      /\ StackAt(id, "ret", k, e, b) /\ MemAt(id, at, "ret", k, e, b, b1) /\ RegsAt(id, "ret")
      /\ CallsOK
  BY StaticCalls DEF At
<1>3. /\ k = 0 /\ c.ret_struct /\ aligned[id] = PadOf(id, e)
      /\ (id = 2 => aligned[1] = PadOf(1, 8 + frame))
      /\ stackpos = b + WORD * A /\ rsp = -stackpos
      /\ Placed(id, b, 0) /\ (id = 2 => Placed(1, b1, at)) /\ AllHeld(2)
  BY <1>2 DEF PointOK, StackAt, MemAt, RegsAt
<1>4. /\ c \in AllCalls /\ A \in Nat /\ R = A + 1 /\ S \in Nat
      /\ Cardinality(living[id]) \in Nat /\ Len(Args(id)) \in Nat
  <2>1. c \in AllCalls /\ A \in Nat /\ R = A + First(c) /\ S \in Nat /\ Cardinality(living[id]) \in Nat
    BY <1>2, FramesCall
  <2>2. First(c) = 1
    BY <1>3 DEF First
  <2>3. Len(Args(id)) \in Nat
    BY <2>1, CallTypes DEF Args
  <2> QED BY <2>1, <2>2, <2>3
<1>5. p \in Int /\ p + 8 = -(b + 8 * A) /\ rsp - WORD = p /\ stackpos' = b + 8 * R /\ rsp' = -stackpos'
  <2>1. stackpos = b + 8 * A /\ rsp = -(b + 8 * A) /\ rsp' = rsp - 8 /\ stackpos' = stackpos + 8
    BY <1>0, <1>3 DEF WORD
  <2> HIDE DEF A, R
  <2>2. p \in Int /\ p + 8 = -(b + 8 * A) /\ rsp - 8 = p /\ stackpos' = b + 8 * R /\ rsp' = -stackpos'
    BY <1>4, <2>1
  <2> QED BY <2>2 DEF WORD
<1>6. RetPtr(id) \in Values
  BY DEF RetPtr, Values
<1>7. /\ mem \in [Cells -> Values] /\ mem' \in [Cells -> Values]
      /\ \A a \in Cells : mem'[a] = IF p <= a /\ a < p + 8 THEN RetPtr(id) ELSE mem[a]
  <2>1. mem \in [Cells -> Values]
    BY DEF Static
  <2>2. mem' = Stored(mem, p, 8, RetPtr(id))
    BY <1>0, <1>5 DEF WORD
  <2> HIDE DEF p
  <2>3. 8 \in Nat /\ p \in Int
    BY <1>5
  <2> QED BY <1>6, <2>1, <2>2, <2>3, StoredProperties
<1>8. Static'
  BY <1>0, <1>7 DEF Static
<1>9. RetPlaced(id, b)'
  BY <1>0, <1>7 DEF RetPlaced, HoldsAt, WORD
<1>10. Placed(id, b, 0)'
  <2>1. ASSUME NEW a \in Cells, -(b + 8 * Above(call[id], 0)) <= a PROVE mem'[a] = mem[a]
    <3>1. a \in Int /\ p + 8 <= a
      BY <1>5, <2>1, CellsAreNumbers
    <3> HIDE DEF p
    <3>2. ~(a < p + 8)
      BY <1>5, <3>1
    <3> QED BY <1>7, <3>2
  <2>2. 0 \in 0..Len(Args(id))
    BY <1>4
  <2> QED BY <1>0, <1>3, <1>7, <2>1, <2>2, PlacedKept
<1>11. id = 2 => Placed(1, b1, at)'
  <2>1. SUFFICES ASSUME id = 2 PROVE Placed(1, b1, at)'
    OBVIOUS
  <2>2. b = e + 8 * Cardinality(living[id]) + PadOf(id, e) + S /\ PadOf(id, e) \in 0..15
    BY <1>2, FramesBase
  <2>3. p + 8 <= -e
    <3> DEFINE L == Cardinality(living[id])
               q == PadOf(id, e)
    <3>1. b = e + 8 * L + q + S /\ q \in 0..15 /\ L \in Nat
      BY <1>4, <2>2
    <3> HIDE DEF L, q, S, A, p
    <3> QED BY <1>4, <1>5, <3>1
  <2>4. ASSUME NEW a \in Cells, -e <= a PROVE mem'[a] = mem[a]
    <3> HIDE DEF p
    <3>1. a \in Int
      BY CellsAreNumbers
    <3>2. ~(a < p + 8)
      BY <1>5, <2>3, <2>4, <3>1
    <3> QED BY <1>7, <3>2
  <2> QED BY <1>0, <1>2, <1>3, <1>7, <2>1, <2>4, OuterKept
<1>12. AllHeld(2)'
  BY <1>0, <1>3, SameRegisters
<1>13. /\ Frames(id, at, e, b, b1)' /\ PadOf(id, e)' = PadOf(id, e)
       /\ PadOf(1, 8 + frame)' = PadOf(1, 8 + frame)
  BY <1>0, <1>2, FramesKept
<1>14. (irs = Code(id, at, "save", 0) \o After(id, at))'
  <2>1. Tail(irs) = Code(id, at, "save", 0) \o After(id, at)
    BY <1>2, FirstRet
  <2> QED BY <1>0, <1>1, <2>1, CodeKept
<1>15. PointOK(id, at, "save", 0)'
  <2>1. PointOK(id, at, "save", 0)
    BY <1>2 DEF PointOK
  <2> QED BY <1>0, <2>1, CodeKept
<1>16. StackAt(id, "save", 0, e, b)'
  BY <1>0, <1>3, <1>5, <1>13 DEF StackAt, WORD
<1>17. MemAt(id, at, "save", 0, e, b, b1)' /\ RegsAt(id, "save")'
  BY <1>9, <1>10, <1>11, <1>12 DEF MemAt, RegsAt
<1>18. At(id, at, "save", 0, e, b, b1)'
  BY <1>13, <1>14, <1>15, <1>16, <1>17 DEF At
<1>19. "save" \in Stages /\ 0 \in Nat
  BY DEF Stages
<1>20. Somewhere'
  BY <1>18, <1>19 DEF Somewhere
<1> QED BY <1>8, <1>20

LEMMA PushArgStep ==
    ASSUME Static, NEW id \in {1, 2}, NEW at \in Nat, NEW st \in Stages, NEW k \in Nat,
           NEW e \in Nat, NEW b \in Nat, NEW b1 \in Nat, At(id, at, st, k, e, b, b1), PushArg
    PROVE  Static' /\ (Somewhere \/ SomewhereArriving)'
<1>1. Executing("PUSHARG")
  BY DEF PushArg
<1>2. st = "own" \/ st = "ret"
  BY <1>1, Executes
<1>3. CASE st = "own"
  <2>1. k \in RegArgs(call[id]) /\ Ir.value = Arg(id, k)
    <3>1. Ir = ArgIr(id, call[id], k) /\ Ir.op = "PUSHARG"
      BY <1>1, <1>3, ExecutesArg DEF Executing
    <3> QED BY <3>1 DEF ArgIr
  <2> QED BY <1>3, <2>1, PushOwnStep
<1>4. CASE st = "ret"
  <2>1. Ir.value = RetPtr(id)
    <3>1. Ir = RetIr(id)
      BY <1>4, ExecutesArg
    <3> QED BY <3>1 DEF RetIr
  <2> QED BY <1>4, <2>1, PushRetStep
<1> QED BY <1>2, <1>3, <1>4

\* The saved registers lie between what was on the stack before the call and
\* the arguments, apart from each other.
LEMMA SavedAreas ==
    ASSUME Static, NEW id \in {1, 2}, NEW at \in Nat, NEW e \in Nat, NEW b \in Nat, NEW b1 \in Nat,
           Frames(id, at, e, b, b1), NEW r \in living[id]
    PROVE  /\ PlaceOfSaved(id, e, r) \in Cells /\ PlaceOfSaved(id, e, r) \in Int
           /\ StackArgsSize(call[id]) - b <= PlaceOfSaved(id, e, r)
           /\ PlaceOfSaved(id, e, r) + 8 <= -e
           /\ \A q \in living[id] : q # r =>
                \/ PlaceOfSaved(id, e, q) + 8 <= PlaceOfSaved(id, e, r)
                \/ PlaceOfSaved(id, e, r) + 8 <= PlaceOfSaved(id, e, q)
<1> DEFINE L == Cardinality(living[id])
           S == StackArgsSize(call[id])
           B(q) == StoredBefore(id, q)
           p == PlaceOfSaved(id, e, r)
<1>1. /\ L \in Nat /\ B(r) \in Nat /\ B(r) < L
      /\ \A q \in living[id] : B(q) \in Nat /\ (q # r => B(q) # B(r))
  BY SavedPlaces
<1>2. \A q : PlaceOfSaved(id, e, q) = 8 * B(q) - (e + 8 * L)
  BY DEF PlaceOfSaved, WORD
<1>3. b = e + 8 * L + PadOf(id, e) + S /\ PadOf(id, e) \in 0..15
  BY FramesBase
<1>4. S \in Nat /\ RegArgCount(call[id]) \in Nat
  BY FramesCall
<1>5. e % 8 = 0 /\ b + 8 * RegArgCount(call[id]) <= 4 * StackCells
  BY FramesAligned
<1>6. StackCells \in Nat
  BY CallAssumption
<1> DEFINE m == B(r)
<1>7. p = 8 * m - (e + 8 * L) /\ m \in Nat /\ m < L
  BY <1>1, <1>2
<1>8. p \in Int /\ S - b <= p /\ p + 8 <= -e /\ p % 8 = 0 /\ -(4 * StackCells) <= p /\ p < 0
  <2> DEFINE g == PadOf(id, e)
             R == RegArgCount(call[id])
  <2>1. b = e + 8 * L + g + S /\ g \in 0..15 /\ b + 8 * R <= 4 * StackCells /\ R \in Nat
    BY <1>3, <1>4, <1>5
  <2> HIDE DEF p, m, L, S, g, R
  <2>2. L \in Nat /\ S \in Nat
    BY <1>1, <1>4 DEF L, S
  <2>3. p \in Int
    BY <1>7, <2>2
  <2>4. S - b <= p
    BY <1>7, <2>1, <2>2
  <2>5. p + 8 <= -e /\ p < 0
    BY <1>7, <2>2
  <2>6. p % 8 = 0
    BY <1>5, <1>7, <2>2
  <2>7. -(4 * StackCells) <= p
    BY <1>6, <1>7, <2>1, <2>2
  <2> QED BY <2>3, <2>4, <2>5, <2>6, <2>7
<1>9. p \in Cells
  <2> HIDE DEF p
  <2> QED BY <1>8, CellThere
<1>10. ASSUME NEW q \in living[id], q # r
       PROVE  PlaceOfSaved(id, e, q) + 8 <= p \/ p + 8 <= PlaceOfSaved(id, e, q)
  <2> DEFINE i == B(q)
             pq == PlaceOfSaved(id, e, q)
  <2>1. i \in Nat /\ i # m /\ pq = 8 * i - (e + 8 * L)
    BY <1>1, <1>2, <1>10
  <2> HIDE DEF p, m, i, pq, L
  <2>2. L \in Nat
    BY <1>1 DEF L
  <2>3. pq + 8 <= p \/ p + 8 <= pq
    BY <1>7, <2>1, <2>2
  <2> QED BY <2>3 DEF p, pq
<1> QED BY <1>8, <1>9, <1>10

\* push_caller_save_regs stores each register in its place and nothing else.
LEMMA SaveStores ==
    ASSUME Static, NEW id \in {1, 2}, NEW at \in Nat, NEW e \in Nat, NEW b \in Nat, NEW b1 \in Nat,
           Frames(id, at, e, b, b1), StackAt(id, "save", 0, e, b), Ir.id = id, Save
    PROVE  /\ mem' \in [Cells -> Values]
           /\ \A r \in living[id] : \A a \in Cells :
                (/\ PlaceOfSaved(id, e, r) <= a
                 /\ a < PlaceOfSaved(id, e, r) + 8) => mem'[a] = regs[r]
           /\ \A a \in Cells :
                (a < StackArgsSize(call[id]) - b \/ -e <= a) => mem'[a] = mem[a]
<1> DEFINE P(r) == PlaceOfSaved(id, e, r)
           H(r, a) == r \in living[id] /\ P(r) <= a /\ a < P(r) + 8
           L == Cardinality(living[id])
           S == StackArgsSize(call[id])
           R == RegArgCount(call[id])
           g == PadOf(id, e)
<1>1. rsp + SaveBase(id) = -(e + 8 * L)
  <2>1. stackpos = b + 8 * R /\ rsp = -stackpos /\ aligned[id] = g
    BY DEF StackAt, WORD
  <2>2. SaveBase(id) = R * 8 + S + g
    BY <2>1 DEF SaveBase, WORD
  <2>3. b = e + 8 * L + g + S /\ g \in 0..15
    BY FramesBase
  <2>4. L \in Nat /\ S \in Nat /\ R \in Nat
    BY FramesCall
  <2> HIDE DEF L, S, R, g
  <2> QED BY <2>1, <2>2, <2>3, <2>4
<1>2. \A r \in living[id] :
        /\ P(r) \in Int /\ S - b <= P(r) /\ P(r) + 8 <= -e
        /\ \A q \in living[id] : q # r => P(q) + 8 <= P(r) \/ P(r) + 8 <= P(q)
  BY SavedAreas
<1>3. ASSUME NEW r \in living[id]
      PROVE  rsp + SaveBase(id) + WORD * StoredBefore(id, r) = P(r)
  <2> DEFINE m == StoredBefore(id, r)
             x == rsp + SaveBase(id)
  <2>1. m \in Nat /\ L \in Nat
    BY SavedPlaces
  <2>2. P(r) = 8 * m - (e + 8 * L)
    BY DEF PlaceOfSaved, WORD
  <2>3. x = -(e + 8 * L)
    BY <1>1
  <2> HIDE DEF m, x, L, P
  <2>4. x + 8 * m = P(r)
    BY <2>1, <2>2, <2>3
  <2> QED BY <2>4 DEF x, m, WORD
<1> DEFINE G(r, a) == LET p == rsp + SaveBase(id) + WORD * StoredBefore(id, r)
                      IN  r \in living[id] /\ p <= a /\ a < p + WORD
<1>4. \A r, a : G(r, a) <=> H(r, a)
  <2> HIDE DEF P
  <2> QED BY <1>3 DEF WORD
<1>5. mem' = [a \in DOMAIN mem |->
              IF \E r \in CallerSave : G(r, a)
              THEN regs[CHOOSE r \in CallerSave : G(r, a)]
              ELSE mem[a]]
  BY DEF Save
<1> HIDE DEF G
<1>6. /\ mem \in [Cells -> Values] /\ regs \in [CallerSave -> Values]
      /\ living[id] \subseteq CallerSave
  BY DEF Static
<1>7. mem' \in [Cells -> Values]
  <2>1. \A a \in Cells : (\E r \in CallerSave : G(r, a)) =>
            (CHOOSE r \in CallerSave : G(r, a)) \in CallerSave
    OBVIOUS
  <2> QED BY <1>5, <1>6, <2>1
<1> HIDE DEF P
<1>8. ASSUME NEW r \in living[id], NEW a \in Cells, P(r) <= a, a < P(r) + 8
      PROVE  mem'[a] = regs[r]
  <2>1. G(r, a) /\ r \in CallerSave
    BY <1>4, <1>6, <1>8
  <2>2. \A q \in CallerSave : G(q, a) => q = r
    <3>1. SUFFICES ASSUME NEW q \in living[id], H(q, a), q # r PROVE FALSE
      BY <1>4
    <3>2. P(q) \in Int /\ P(r) \in Int /\ (P(q) + 8 <= P(r) \/ P(r) + 8 <= P(q))
      BY <1>2, <3>1
    <3>3. a \in Int
      BY CellsAreNumbers
    <3> QED BY <1>8, <3>1, <3>2, <3>3
  <2>3. (CHOOSE q \in CallerSave : G(q, a)) = r
    BY <2>1, <2>2
  <2> QED BY <1>5, <1>6, <2>1, <2>3
<1>9. ASSUME NEW a \in Cells, a < S - b \/ -e <= a PROVE mem'[a] = mem[a]
  <2>1. \A q \in CallerSave : ~G(q, a)
    <3>1. SUFFICES ASSUME NEW q \in living[id], H(q, a) PROVE FALSE
      BY <1>4
    <3>2. P(q) \in Int /\ S - b <= P(q) /\ P(q) + 8 <= -e
      BY <1>2
    <3>3. a \in Int /\ S \in Nat
      BY CellsAreNumbers, FramesCall
    <3> HIDE DEF S
    <3> QED BY <1>9, <3>1, <3>2, <3>3
  <2> QED BY <1>5, <1>6, <2>1
<1> QED BY <1>7, <1>8, <1>9 DEF P

LEMMA SaveStep ==
    ASSUME Static, NEW id \in {1, 2}, NEW at \in Nat, NEW st \in Stages, NEW k \in Nat,
           NEW e \in Nat, NEW b \in Nat, NEW b1 \in Nat, At(id, at, st, k, e, b, b1), Save
    PROVE  Static' /\ Somewhere'
<1> DEFINE c == call[id]
           S == StackArgsSize(c)
           R == RegArgCount(c)
<1>0. Executing("SAVE") /\ UNCHANGED <<frame, call, living, rsp, stackpos, aligned, regs, ireg, freg>>
  BY DEF Save
<1>1. Ir.id = id /\ st = "save" /\ irs' = Tail(irs)
  BY <1>0, Executes
<1>2. /\ PointOK(id, at, "save", k) /\ Frames(id, at, e, b, b1)
      /\ irs = Code(id, at, "save", k) \o After(id, at)
      /\ StackAt(id, "save", k, e, b) /\ MemAt(id, at, "save", k, e, b, b1) /\ RegsAt(id, "save")
      /\ CallsOK
  BY <1>1, StaticCalls DEF At
<1>3. /\ k = 0 /\ Placed(id, b, 0) /\ (id = 2 => Placed(1, b1, at)) /\ RetPlaced(id, b) /\ AllHeld(2)
  BY <1>2 DEF PointOK, MemAt, RegsAt
<1>4. /\ mem' \in [Cells -> Values]
      /\ \A r \in living[id] : \A a \in Cells :
           (/\ PlaceOfSaved(id, e, r) <= a
            /\ a < PlaceOfSaved(id, e, r) + 8) => mem'[a] = regs[r]
      /\ \A a \in Cells :
           (a < StackArgsSize(call[id]) - b \/ -e <= a) => mem'[a] = mem[a]
  BY <1>1, <1>2, <1>3, SaveStores
<1>5. mem \in [Cells -> Values] /\ living[1] \subseteq living[2]
  BY DEF Static
<1>6. Static'
  BY <1>0, <1>4 DEF Static
<1>7. \A r \in living[id] : regs[r] = Held(r)
  BY <1>3, <1>5 DEF AllHeld
<1>8. SavedAll(id, e)'
  <2>1. \A r : PlaceOfSaved(id, e, r)' = PlaceOfSaved(id, e, r)
    BY <1>0 DEF PlaceOfSaved, StoredBefore
  <2> QED BY <1>0, <1>4, <1>7, <2>1 DEF SavedAll, HoldsAt, WORD
<1>9. Placed(id, b, 0)'
  <2>1. 0 \in 0..Len(Args(id))
    BY <1>2, CallTypes DEF CallsOK, Args
  <2> QED BY <1>0, <1>3, <1>4, <1>5, <2>1, PlacedKept
<1>10. id = 2 => Placed(1, b1, at)'
  BY <1>0, <1>2, <1>3, <1>4, <1>5, OuterKept
<1>11. RetPlaced(id, b)'
  <2>1. SUFFICES ASSUME c.ret_struct
                 PROVE  HoldsAt(mem', -(b + 8 * R), 8, RetPtr(id))
    BY <1>0 DEF RetPlaced, WORD
  <2>2. HoldsAt(mem, -(b + 8 * R), 8, RetPtr(id))
    BY <1>3, <2>1 DEF RetPlaced, WORD
  <2>3. R \in Nat /\ S \in Nat /\ R >= 1
    <3>1. R = Above(c, 0) + First(c) /\ Above(c, 0) \in Nat /\ S \in Nat
      BY <1>2, FramesCall
    <3>2. First(c) = 1
      BY <2>1 DEF First
    <3> QED BY <3>1, <3>2
  <2>4. ASSUME NEW a \in Cells, a < -(b + 8 * R) + 8 PROVE a < S - b
    <3>1. a \in Int
      BY CellsAreNumbers
    <3> HIDE DEF R, S
    <3> QED BY <2>3, <2>4, <3>1
  <2> QED BY <1>4, <1>5, <2>2, <2>4 DEF HoldsAt
<1>12. AllHeld(2)'
  BY <1>0, <1>3, SameRegisters
<1>13. /\ Frames(id, at, e, b, b1)' /\ PadOf(id, e)' = PadOf(id, e)
       /\ PadOf(1, 8 + frame)' = PadOf(1, 8 + frame)
  BY <1>0, <1>2, FramesKept
<1>14. (irs = Code(id, at, "pop", 0) \o After(id, at))'
  <2>1. Tail(irs) = Code(id, at, "pop", 0) \o After(id, at)
    BY <1>2, FirstSave
  <2>2. irs' = Code(id, at, "pop", 0) \o After(id, at)
    BY <1>1, <2>1
  <2>3. Code(id, at, "pop", 0)' = Code(id, at, "pop", 0) /\ After(id, at)' = After(id, at)
    BY <1>0, CodeKept
  <2> QED BY <2>2, <2>3
<1>15. PointOK(id, at, "pop", 0)'
  <2>1. PointOK(id, at, "pop", 0)
    BY <1>2 DEF PointOK
  <2> QED BY <1>0, <2>1, CodeKept
<1>16. StackAt(id, "pop", 0, e, b)'
  BY <1>0, <1>2, <1>13 DEF StackAt
<1>17. MemAt(id, at, "pop", 0, e, b, b1)' /\ RegsAt(id, "pop")'
  BY <1>8, <1>9, <1>10, <1>11, <1>12 DEF MemAt, RegsAt
<1>18. At(id, at, "pop", 0, e, b, b1)'
  BY <1>13, <1>14, <1>15, <1>16, <1>17 DEF At
<1>19. "pop" \in Stages /\ 0 \in Nat
  BY DEF Stages
<1>20. Somewhere'
  BY <1>18, <1>19 DEF Somewhere
<1> QED BY <1>6, <1>20

LEMMA InvokeStep ==
    ASSUME Static, NEW id \in {1, 2}, NEW at \in Nat, NEW st \in Stages, NEW k \in Nat,
           NEW e \in Nat, NEW b \in Nat, NEW b1 \in Nat, At(id, at, st, k, e, b, b1), Invoke
    PROVE  Static' /\ Somewhere'
<1> DEFINE c == call[id]
           S == StackArgsSize(c)
<1>0. Executing("INVOKE") /\ UNCHANGED <<frame, call, living, rsp, stackpos, aligned>>
  BY DEF Invoke
<1>1. Ir.id = id /\ st = "invoke" /\ irs' = Tail(irs)
  BY <1>0, Executes
<1>2. /\ PointOK(id, at, "invoke", k) /\ Frames(id, at, e, b, b1)
      /\ irs = Code(id, at, "invoke", k) \o After(id, at)
      /\ StackAt(id, "invoke", k, e, b) /\ MemAt(id, at, "invoke", k, e, b, b1)
      /\ CallsOK
  BY <1>1, StaticCalls DEF At
<1>3. /\ k = 0 /\ (id = 2 => Placed(1, b1, at)) /\ SavedAll(id, e) /\ rsp = -b
  BY <1>2 DEF PointOK, MemAt, StackAt
<1>4. mem \in [Cells -> Values] /\ Junk \in Values /\ S \in Nat
  <2>1. S \in Nat
    BY <1>2, FramesCall
  <2> QED BY <2>1 DEF Static, Values
<1>5. /\ mem' \in [Cells -> Values]
      /\ \A a \in Cells : S - b <= a => mem'[a] = mem[a]
  <2> DEFINE limit == rsp + S
  <2>1. mem' = [a \in DOMAIN mem |-> IF a < limit THEN Junk ELSE mem[a]]
    BY <1>1 DEF Invoke, Called
  <2>2. limit = S - b /\ limit \in Int
    BY <1>3, <1>4
  <2> HIDE DEF limit
  <2>3. mem' \in [Cells -> Values]
    BY <1>4, <2>1
  <2>4. ASSUME NEW a \in Cells, S - b <= a PROVE mem'[a] = mem[a]
    <3>1. a \in Int
      BY CellsAreNumbers
    <3> HIDE DEF S
    <3>2. ~(a < limit)
      BY <2>2, <2>4, <3>1
    <3> QED BY <1>4, <2>1, <3>2
  <2> QED BY <2>3, <2>4
<1>6. Static'
  <2>1. /\ regs' = [r \in CallerSave |-> Junk]
        /\ ireg' = [i \in DOMAIN ireg |-> Junk]
        /\ freg' = [i \in DOMAIN freg |-> Junk]
    BY DEF Invoke
  <2>2. /\ regs' \in [CallerSave -> Values]
        /\ ireg' \in [0..(MaxRegArgs - 1) -> Values]
        /\ freg' \in [0..(MaxFregArgs - 1) -> Values]
    BY <1>4, <2>1 DEF Static
  <2> QED BY <1>0, <1>5, <2>2 DEF Static
<1>7. SavedAll(id, e)'
  <2>1. \A r : PlaceOfSaved(id, e, r)' = PlaceOfSaved(id, e, r)
    BY <1>0 DEF PlaceOfSaved, StoredBefore
  <2>2. ASSUME NEW r \in living[id] PROVE HoldsAt(mem', PlaceOfSaved(id, e, r), WORD, Held(r))
    <3> DEFINE p == PlaceOfSaved(id, e, r)
    <3>1. p \in Int /\ S - b <= p
      BY <1>2, SavedAreas
    <3>2. HoldsAt(mem, p, WORD, Held(r))
      BY <1>3 DEF SavedAll
    <3> HIDE DEF p
    <3>3. ASSUME NEW a \in Cells, p <= a PROVE S - b <= a
      <4>1. a \in Int
        BY CellsAreNumbers
      <4> HIDE DEF S
      <4>2. S \in Nat
        BY <1>4 DEF S
      <4> QED BY <3>1, <3>3, <4>1, <4>2
    <3> QED BY <1>4, <1>5, <3>2, <3>3 DEF HoldsAt, p
  <2> QED BY <1>0, <2>1, <2>2 DEF SavedAll
<1>8. id = 2 => Placed(1, b1, at)'
  <2>1. SUFFICES ASSUME id = 2 PROVE Placed(1, b1, at)'
    OBVIOUS
  <2>2. b = e + 8 * Cardinality(living[id]) + PadOf(id, e) + S /\ PadOf(id, e) \in 0..15
    BY <1>2, FramesBase
  <2>3. Cardinality(living[id]) \in Nat
    BY <1>2, FramesCall
  <2>4. S - b <= -e
    <3> DEFINE L == Cardinality(living[id])
               q == PadOf(id, e)
    <3>1. b = e + 8 * L + q + S /\ q \in 0..15 /\ L \in Nat
      BY <2>2, <2>3
    <3> HIDE DEF L, q, S
    <3>2. S \in Nat
      BY <1>4 DEF S
    <3> QED BY <3>1, <3>2
  <2>5. ASSUME NEW a \in Cells, -e <= a PROVE mem'[a] = mem[a]
    <3>1. a \in Int
      BY CellsAreNumbers
    <3>2. S - b <= a
      <4> HIDE DEF S
      <4>1. S \in Nat
        BY <1>4 DEF S
      <4> QED BY <2>4, <2>5, <3>1, <4>1
    <3> QED BY <1>5, <3>2
  <2> QED BY <1>0, <1>2, <1>3, <1>4, <1>5, <2>1, <2>5, OuterKept
<1>9. /\ Frames(id, at, e, b, b1)' /\ PadOf(id, e)' = PadOf(id, e)
      /\ PadOf(1, 8 + frame)' = PadOf(1, 8 + frame)
  BY <1>0, <1>2, FramesKept
<1>10. (irs = Code(id, at, "restore", 0) \o After(id, at))'
  <2>1. Tail(irs) = Code(id, at, "restore", 0) \o After(id, at)
    BY <1>2, FirstInvoke
  <2>2. irs' = Code(id, at, "restore", 0) \o After(id, at)
    BY <1>1, <2>1
  <2>3. Code(id, at, "restore", 0)' = Code(id, at, "restore", 0) /\ After(id, at)' = After(id, at)
    BY <1>0, CodeKept
  <2> QED BY <2>2, <2>3
<1>11. PointOK(id, at, "restore", 0)'
  <2>1. PointOK(id, at, "restore", 0)
    BY <1>2 DEF PointOK
  <2> QED BY <1>0, <2>1, CodeKept
<1>12. StackAt(id, "restore", 0, e, b)'
  BY <1>0, <1>2, <1>9 DEF StackAt
<1>13. MemAt(id, at, "restore", 0, e, b, b1)' /\ RegsAt(id, "restore")'
  BY <1>7, <1>8 DEF MemAt, RegsAt
<1>14. At(id, at, "restore", 0, e, b, b1)'
  BY <1>9, <1>10, <1>11, <1>12, <1>13 DEF At
<1>15. "restore" \in Stages /\ 0 \in Nat
  BY DEF Stages
<1>16. Somewhere'
  BY <1>14, <1>15 DEF Somewhere
<1> QED BY <1>6, <1>16

LEMMA RestoreStep ==
    ASSUME Static, NEW id \in {1, 2}, NEW at \in Nat, NEW st \in Stages, NEW k \in Nat,
           NEW e \in Nat, NEW b \in Nat, NEW b1 \in Nat, At(id, at, st, k, e, b, b1), Restore
    PROVE  Static' /\ Somewhere'
<1> DEFINE c == call[id]
           S == StackArgsSize(c)
           L == Cardinality(living[id])
           g == PadOf(id, e)
<1>0. Executing("RESTORE") /\ UNCHANGED <<frame, call, living, aligned, mem, ireg, freg>>
  BY DEF Restore
<1>1. Ir.id = id /\ st = "restore" /\ irs' = Tail(irs)
  BY <1>0, Executes
<1>2. /\ PointOK(id, at, "restore", k) /\ Frames(id, at, e, b, b1)
      /\ irs = Code(id, at, "restore", k) \o After(id, at)
      /\ StackAt(id, "restore", k, e, b) /\ MemAt(id, at, "restore", k, e, b, b1)
      /\ CallsOK
  BY <1>1, StaticCalls DEF At
<1>3. /\ k = 0 /\ (id = 2 => at # 0) /\ (id = 2 => Placed(1, b1, at)) /\ SavedAll(id, e)
      /\ stackpos = b /\ rsp = -b /\ aligned[id] = g
      /\ (id = 2 => aligned[1] = PadOf(1, 8 + frame))
  BY <1>2 DEF PointOK, MemAt, StackAt
<1>4. b = e + 8 * L + g + S /\ g \in 0..15 /\ L \in Nat /\ S \in Nat
  <2>1. b = e + 8 * L + g + S /\ g \in 0..15
    BY <1>2, FramesBase
  <2>2. L \in Nat /\ S \in Nat
    BY <1>2, FramesCall
  <2> QED BY <2>1, <2>2
<1>5. Drop(id) = g + S
  BY <1>3 DEF Drop
<1>6. /\ rsp' = (rsp + (g + S)) + 8 * L
      /\ stackpos' = (stackpos - (g + S)) - 8 * L
      /\ regs' = [r \in CallerSave |->
              IF r \in living[id]
              THEN mem[(rsp + (g + S)) + 8 * LoadedBefore(id, r)]
              ELSE regs[r]]
  BY <1>1, <1>5 DEF Restore, WORD
<1>7. rsp' = -e /\ stackpos' = e
  <2> HIDE DEF L, g, S
  <2> QED BY <1>3, <1>4, <1>6
<1>8. mem \in [Cells -> Values] /\ regs \in [CallerSave -> Values] /\ living[id] \subseteq CallerSave
  BY DEF Static
<1>9. ASSUME NEW r \in living[id] PROVE mem[(rsp + (g + S)) + 8 * LoadedBefore(id, r)] = Held(r)
  <2> DEFINE m == LoadedBefore(id, r)
             p == PlaceOfSaved(id, e, r)
  <2>1. m = StoredBefore(id, r)
    BY DEF LoadedBefore, StoredBefore
  <2>2. m \in Nat
    BY <2>1, SavedPlaces
  <2>3. p = 8 * m - (e + 8 * L)
    BY <2>1 DEF PlaceOfSaved, WORD
  <2>4. p \in Cells /\ p \in Int
    BY <1>2, SavedAreas
  <2>5. HoldsAt(mem, p, 8, Held(r))
    BY <1>3 DEF SavedAll, WORD
  <2>6. mem[p] = Held(r)
    <3> HIDE DEF p
    <3> QED BY <1>8, <2>4, <2>5 DEF HoldsAt
  <2> HIDE DEF p, m, L, g, S
  <2>7. (rsp + (g + S)) + 8 * m = p
    BY <1>3, <1>4, <2>2, <2>3
  <2> QED BY <2>6, <2>7 DEF m
<1> HIDE DEF L, g, S
<1>10. regs' \in [CallerSave -> Values] /\ \A r \in living[id] : regs'[r] = Held(r)
  <2>1. \A r \in CallerSave : Held(r) \in Values
    BY DEF Values
  <2>2. \A r \in CallerSave : regs'[r] = IF r \in living[id] THEN Held(r) ELSE regs[r]
    BY <1>6, <1>9
  <2>3. \A r \in CallerSave : regs'[r] \in Values
    BY <1>8, <2>1, <2>2
  <2>4. regs' = [r \in CallerSave |-> regs'[r]]
    BY <1>6
  <2>5. \A r \in living[id] : regs'[r] = Held(r)
    BY <1>8, <2>2
  <2> QED BY <2>3, <2>4, <2>5
<1>11. Static'
  BY <1>0, <1>10 DEF Static
<1>12. AllHeld(id)'
  BY <1>0, <1>10 DEF AllHeld
<1>13. Tail(irs) = After(id, at)
  BY <1>2, FirstRestore
<1>14. /\ Frames(id, at, e, b, b1)' /\ PadOf(id, e)' = PadOf(id, e)
       /\ PadOf(1, 8 + frame)' = PadOf(1, 8 + frame)
  BY <1>0, <1>2, FramesKept
<1>15. CASE id = 1
  <2>1. (irs = Code(1, at, "end", 0) \o After(1, at))'
    <3>1. irs' = << >>
      BY <1>1, <1>13, <1>15 DEF After
    <3>2. << >> = << >> \o << >>
      OBVIOUS
    <3> QED BY <3>1, <3>2 DEF Code, After
  <2>2. PointOK(1, at, "end", 0)'
    <3>1. PointOK(1, at, "end", 0)
      BY <1>2, <1>15 DEF PointOK
    <3> QED BY <1>0, <3>1, CodeKept
  <2>3. StackAt(1, "end", 0, e, b)'
    BY <1>0, <1>3, <1>7, <1>14, <1>15 DEF StackAt, g
  <2>4. MemAt(1, at, "end", 0, e, b, b1)'
    BY DEF MemAt
  <2>5. RegsAt(1, "end")'
    BY <1>12, <1>15 DEF RegsAt
  <2>6. At(1, at, "end", 0, e, b, b1)'
    BY <1>14, <1>15, <2>1, <2>2, <2>3, <2>4, <2>5 DEF At
  <2>7. "end" \in Stages /\ 0 \in Nat /\ 1 \in {1, 2}
    BY DEF Stages
  <2>8. Somewhere'
    BY <2>6, <2>7 DEF Somewhere
  <2> QED BY <1>11, <2>8
<1>16. CASE id = 2
  <2>0. at \in 0..Len(Args(1)) /\ at # 0 /\ frame \in Nat /\ Len(Args(1)) \in Nat
    <3>1. at \in 0..Len(Args(1)) /\ frame \in Nat /\ call[1] \in AllCalls
      BY <1>2, <1>16, FramesCall
    <3> QED BY <1>3, <1>16, <3>1, CallTypes DEF Args
  <2>13. PICK d : d = 8 + frame
    OBVIOUS
  <2>1. (irs = Code(1, at, "own", at) \o After(1, at))'
    <3>1. irs' = Code(1, at, "own", at)
      BY <1>1, <1>13, <1>16 DEF After
    <3>2. After(2, at) \in Seq(Instructions) /\ After(2, at) = Code(1, at, "own", at)
      BY <1>2, <2>0, AfterType DEF After
    <3> DEFINE x == Code(1, at, "own", at)
    <3>3. x \in Seq(Instructions)
      BY <3>2
    <3> HIDE DEF x
    <3>4. x \o << >> = x
      BY <3>3, ConcatEmptySeq
    <3>5. irs' = Code(1, at, "own", at) \o After(1, at)
      BY <3>1, <3>4 DEF After, x
    <3>6. Code(1, at, "own", at)' = Code(1, at, "own", at) /\ After(1, at)' = After(1, at)
      BY <1>0, CodeKept
    <3> QED BY <3>5, <3>6
  <2>2. PointOK(1, at, "own", at)'
    <3>1. PointOK(1, at, "own", at)
      BY <2>0 DEF PointOK
    <3> QED BY <1>0, <3>1, CodeKept
  <2>3. b1 = Base(1, d) /\ d \in Nat
    BY <1>2, <2>0, <2>13 DEF Frames
  <2>4. Frames(1, at, d, b1, b1)
    BY <2>0, <2>3, <2>13 DEF Frames, Entry
  <2>5. Frames(1, at, d, b1, b1)' /\ PadOf(1, d)' = PadOf(1, d)
    <3>1. 1 \in {1, 2}
      OBVIOUS
    <3>2. Frames(1, at, d, b1, b1)'
      BY <1>0, <2>4, <3>1, FramesKept
    <3> QED BY <1>14, <2>13, <1>0, <3>2
  <2>6. e = b1 + WORD * Above(call[1], at)
    BY <1>2, <1>16, FramesBase DEF WORD
  <2>7. StackAt(1, "own", at, d, b1)'
    BY <1>0, <1>3, <1>7, <1>16, <2>5, <2>6, <2>13 DEF StackAt
  <2>8. Placed(1, b1, at)'
    BY <1>0, <1>3, <1>16, SameMemory
  <2>9. MemAt(1, at, "own", at, d, b1, b1)' /\ RegsAt(1, "own")'
    BY <1>12, <1>16, <2>8 DEF MemAt, RegsAt
  <2>10. At(1, at, "own", at, d, b1, b1)'
    BY <2>1, <2>2, <2>5, <2>7, <2>9 DEF At
  <2>11. "own" \in Stages /\ 1 \in {1, 2}
    BY DEF Stages
  <2>12. Somewhere'
    BY <2>3, <2>10, <2>11 DEF Somewhere
  <2> QED BY <1>11, <2>12
<1> QED BY <1>15, <1>16

-----------------------------------------------------------------------------
(* IR_CALL pops the arguments into the registers                           *)

\* How many of the first k arguments are pushed.
LEMMA Rank ==
    ASSUME NEW c \in AllCalls, NEW k \in 0..Len(c.args)
    PROVE  Cardinality({j \in RegArgs(c) : j <= k}) = Above(c, 0) - Above(c, k)
<1> DEFINE R == RegArgs(c)
           D == {j \in R : j <= k}
           U == {j \in R : j > k}
<1>1. Len(c.args) \in Nat /\ IsFiniteSet(R)
  BY CallTypes, AboveSteps
<1>2. R \subseteq 1..Len(c.args)
  BY DEF RegArgs
<1>3. \A j \in R : j \in Int /\ j > 0
  BY <1>1, <1>2
<1>4. k \in Int
  BY <1>1
<1>5. /\ \A j : j \in D \cup U <=> j \in R
      /\ \A j : j \notin D \cap U
      /\ \A j : j \in {i \in R : i > 0} <=> j \in R
  BY <1>3, <1>4
<1>6. D \in SUBSET R /\ U \in SUBSET R
  OBVIOUS
<1>7. Above(c, 0) = Cardinality({i \in R : i > 0}) /\ Above(c, k) = Cardinality(U)
  BY DEF Above
<1> HIDE DEF D, U, R
<1>8. D \cup U = R /\ D \cap U = {} /\ {i \in R : i > 0} = R
  BY <1>5
<1>9. IsFiniteSet(D) /\ IsFiniteSet(U)
  BY <1>1, <1>6, FS_Subset
<1>10. Cardinality(D) \in Nat /\ Cardinality(U) \in Nat
  BY <1>9, FS_CardinalityType
<1>11. Cardinality(D \cup U) = Cardinality(D) + Cardinality(U) - Cardinality(D \cap U)
  BY <1>9, FS_Union
<1>12. Cardinality(D \cap U) = 0
  BY <1>8, FS_EmptySet
<1>13. Cardinality(R) = Cardinality(D) + Cardinality(U)
  <2> DEFINE r == Cardinality(R)
             d == Cardinality(D)
             u == Cardinality(U)
             i == Cardinality(D \cap U)
  <2>1. r = d + u - i
    BY <1>8, <1>11
  <2>2. d \in Nat /\ u \in Nat /\ i = 0
    BY <1>10, <1>12
  <2> HIDE DEF r, d, u, i
  <2>3. r = d + u
    BY <2>1, <2>2
  <2> QED BY <2>3 DEF r, d, u
<1>14. Above(c, 0) = Cardinality(R)
  BY <1>7, <1>8
<1>15. Cardinality(D) = Above(c, 0) - Above(c, k)
  BY <1>7, <1>10, <1>13, <1>14
<1> QED BY <1>15 DEF D, R

OfClass(c, l, cls) == (VtypeOf(c, l) = "flo") = (cls = "flo")

LEMMA PoppedSteps ==
    ASSUME NEW c, NEW cls
    PROVE  /\ PoppedBefore(c, 1, cls) = 0
           /\ \A j \in Nat \ {0} :
                /\ PoppedBefore(c, j, cls) \in Nat
                /\ PoppedBefore(c, j + 1, cls)
                     = IF OfClass(c, j, cls) THEN PoppedBefore(c, j, cls) + 1
                       ELSE PoppedBefore(c, j, cls)
           /\ \A i, j \in Nat \ {0} : (i < j /\ OfClass(c, i, cls)) =>
                PoppedBefore(c, i, cls) < PoppedBefore(c, j, cls)
<1> DEFINE P(l) == OfClass(c, l, cls)
           B(j) == {l \in 1..(j - 1) : P(l)}
<1>1. \A j : PoppedBefore(c, j, cls) = Cardinality(B(j))
  BY DEF PoppedBefore, OfClass
<1> HIDE DEF P
<1>2. \A j \in Nat \ {0} : IsFiniteSet(B(j)) /\ Cardinality(B(j)) \in Nat
  <2>1. SUFFICES ASSUME NEW j \in Nat \ {0} PROVE IsFiniteSet(B(j)) /\ Cardinality(B(j)) \in Nat
    OBVIOUS
  <2>2. IsFiniteSet(1..(j - 1))
    BY FS_Interval
  <2>3. B(j) \in SUBSET (1..(j - 1))
    OBVIOUS
  <2> HIDE DEF B
  <2> QED BY <2>2, <2>3, FS_Subset, FS_CardinalityType
<1>3. Cardinality(B(1)) = 0
  <2>1. \A l : l \notin B(1)
    OBVIOUS
  <2>2. B(1) = {}
    <3> HIDE DEF B
    <3> QED BY <2>1
  <2> QED BY <2>2, FS_EmptySet
<1>4. ASSUME NEW j \in Nat \ {0}
      PROVE  Cardinality(B(j + 1)) = IF P(j) THEN Cardinality(B(j)) + 1 ELSE Cardinality(B(j))
  <2>1. \A l : l \in 1..((j + 1) - 1) <=> (l \in 1..(j - 1) \/ l = j)
    OBVIOUS
  <2>2. j \notin B(j)
    OBVIOUS
  <2>3. \A l : l \in B(j + 1) <=> (l \in B(j) \/ (l = j /\ P(j)))
    BY <2>1
  <2>4. IsFiniteSet(B(j))
    BY <1>2
  <2> HIDE DEF B
  <2>5. CASE P(j)
    <3>1. B(j + 1) = B(j) \cup {j}
      BY <2>3, <2>5
    <3>2. Cardinality(B(j) \cup {j}) = Cardinality(B(j)) + 1
      BY <2>2, <2>4, FS_AddElement
    <3> QED BY <2>5, <3>1, <3>2
  <2>6. CASE ~P(j)
    <3>1. B(j + 1) = B(j)
      BY <2>3, <2>6
    <3> QED BY <2>6, <3>1
  <2> QED BY <2>5, <2>6
<1>5. ASSUME NEW i \in Nat \ {0}, NEW j \in Nat \ {0}, i < j, P(i)
      PROVE  Cardinality(B(i)) < Cardinality(B(j))
  <2>1. B(i) \in SUBSET B(j) /\ i \in B(j) /\ i \notin B(i)
    BY <1>5
  <2>2. IsFiniteSet(B(j)) /\ Cardinality(B(j)) \in Nat /\ Cardinality(B(i)) \in Nat
    BY <1>2
  <2> HIDE DEF B
  <2>3. B(i) # B(j)
    BY <2>1
  <2> QED BY <2>1, <2>2, <2>3, FS_Subset
<1> HIDE DEF B
<1> QED BY <1>1, <1>2, <1>3, <1>4, <1>5 DEF P

\* The type at the position of a pushed argument is the argument's.
LEMMA PopType ==
    ASSUME NEW c \in AllCalls, GoodCall(c), NEW k \in RegArgs(c)
    PROVE  /\ Above(c, 0) \in Nat /\ Above(c, k) \in Nat /\ Above(c, k) + 1 <= Above(c, 0)
           /\ VtypeOf(c, First(c) + (Above(c, 0) - Above(c, k))) = "flo" <=> c.args[k].cls = "flo"
<1> DEFINE a0 == Above(c, 0)
           a == Above(c, k)
           F == First(c)
           r == a0 - a
           j == F + r
<1>1. Len(c.args) \in Nat /\ F \in {0, 1} /\ k \in 1..Len(c.args)
  BY CallTypes DEF RegArgs
<1>2. k \in Int /\ k - 1 \in Int /\ 0 \in Int /\ 0 <= k - 1 /\ k \in 0..Len(c.args)
  BY <1>1
<1>3. a0 \in Nat /\ a \in Nat /\ Above(c, k - 1) = a + 1 /\ Above(c, k - 1) <= a0
  BY <1>1, <1>2, AboveSteps
<1>4. Cardinality({x \in RegArgs(c) : x <= k}) = r
  BY <1>2, Rank
<1>5. a + 1 <= a0
  BY <1>3
<1> HIDE DEF a0, a, F
<1>6. r \in Nat /\ r >= 1 /\ j \in Nat /\ j - F = r /\ (F = 1 => j # 1)
  BY <1>1, <1>3, <1>5
<1> HIDE DEF r, j
<1>7. c.args[r].cls = "flo" <=> c.args[k].cls = "flo"
  BY <1>4 DEF GoodCall, TypesLineUp
<1>8. VtypeOf(c, j) = c.args[r].cls
  BY <1>6 DEF VtypeOf, F, First
<1>9. VtypeOf(c, j) = "flo" <=> c.args[k].cls = "flo"
  BY <1>7, <1>8
<1> QED BY <1>3, <1>5, <1>9 DEF j, r, a0, a, F

\* The registers filled by the pops for the first k arguments are those that
\* gen_funcall gave to them.
LEMMA PopsCount ==
    ASSUME NEW c \in AllCalls, GoodCall(c), NEW k \in 0..Len(c.args)
    PROVE  /\ PoppedBefore(c, First(c) + (Above(c, 0) - Above(c, k)) + 1, "int") = Counters(c)[k].ireg
           /\ PoppedBefore(c, First(c) + (Above(c, 0) - Above(c, k)) + 1, "flo") = Counters(c)[k].freg
<1> DEFINE n == Len(c.args)
           F == First(c)
           J(i) == F + (Above(c, 0) - Above(c, i)) + 1
           T == {i \in Nat : i <= n =>
                   /\ PoppedBefore(c, J(i), "int") = Counters(c)[i].ireg
                   /\ PoppedBefore(c, J(i), "flo") = Counters(c)[i].freg}
<1>1. n \in Nat /\ F \in {0, 1} /\ c.ret_struct \in BOOLEAN
  BY CallTypes
<1>2. /\ \A i \in Int : Above(c, i) \in Nat
      /\ \A i \in 1..n : Above(c, i - 1) = IF i \in RegArgs(c) THEN Above(c, i) + 1 ELSE Above(c, i)
      /\ \A i, j \in Int : i <= j => Above(c, j) <= Above(c, i)
  BY AboveSteps
<1>3. 0 \in T
  <2>1. J(0) = F + 1
    <3>1. Above(c, 0) \in Nat
      BY <1>2
    <3> HIDE DEF F
    <3> QED BY <1>1, <3>1
  <2>2. Counters(c)[0].ireg = F /\ Counters(c)[0].freg = 0
    <3>1. Counters(c)[0] = Start(c)
      BY CountersSteps
    <3> QED BY <3>1 DEF Start
  <2>3. PoppedBefore(c, F + 1, "int") = F /\ PoppedBefore(c, F + 1, "flo") = 0
    <3>1. CASE c.ret_struct
      <4>1. VtypeOf(c, 1) = "int" /\ F = 1
        BY <3>1 DEF VtypeOf, First
      <4>2. OfClass(c, 1, "int") /\ ~OfClass(c, 1, "flo")
        BY <4>1 DEF OfClass
      <4>3. /\ PoppedBefore(c, 1, "int") = 0 /\ PoppedBefore(c, 1 + 1, "int") = PoppedBefore(c, 1, "int") + 1
            /\ PoppedBefore(c, 1, "flo") = 0 /\ PoppedBefore(c, 1 + 1, "flo") = PoppedBefore(c, 1, "flo")
        <5>1. 1 \in Nat \ {0}
          OBVIOUS
        <5> QED BY <4>2, <5>1, PoppedSteps
      <4> QED BY <4>1, <4>3
    <3>2. CASE ~c.ret_struct
      <4>1. F = 0
        BY <3>2 DEF First
      <4>2. PoppedBefore(c, 1, "int") = 0 /\ PoppedBefore(c, 1, "flo") = 0
        BY PoppedSteps
      <4> QED BY <4>1, <4>2
    <3> QED BY <1>1, <3>1, <3>2
  <2> QED BY <2>1, <2>2, <2>3
<1>4. ASSUME NEW m \in Nat, m < n, m \in T PROVE m + 1 \in T
  <2> DEFINE i == m + 1
             s == Counters(c)[m]
             t == Counters(c)[i]
  <2>1. i \in 1..n /\ i - 1 = m /\ i \in 0..n /\ i \in Int /\ m \in Int
    BY <1>1, <1>4
  <2>2. /\ s \in Count /\ t \in Count
        /\ i \in RegArgs(c) <=> InRegister(c.args[i], s)
        /\ i \in RegArgs(c) =>
             /\ t.ireg = IF c.args[i].cls = "int" THEN s.ireg + 1 ELSE s.ireg
             /\ t.freg = IF c.args[i].cls = "flo" THEN s.freg + 1 ELSE s.freg
        /\ i \notin RegArgs(c) => t.ireg = s.ireg /\ t.freg = s.freg
    <3>1. Counters(c)[i - 1] = s
      BY <2>1
    <3> QED BY <2>1, <3>1, CountersStep
  <2>3. PoppedBefore(c, J(m), "int") = s.ireg /\ PoppedBefore(c, J(m), "flo") = s.freg
    BY <1>4
  <2>4. Above(c, m) = IF i \in RegArgs(c) THEN Above(c, i) + 1 ELSE Above(c, i)
    BY <1>2, <2>1
  <2>5. CASE i \notin RegArgs(c)
    <3>1. J(i) = J(m) /\ t.ireg = s.ireg /\ t.freg = s.freg
      BY <2>2, <2>4, <2>5
    <3> HIDE DEF J, s, t
    <3>2. PoppedBefore(c, J(i), "int") = t.ireg /\ PoppedBefore(c, J(i), "flo") = t.freg
      BY <2>3, <3>1
    <3> QED BY <3>2 DEF t
  <2>6. CASE i \in RegArgs(c)
    <3> DEFINE j == J(m)
               a0 == Above(c, 0)
               ai == Above(c, i)
               am == Above(c, m)
    <3>1. /\ a0 \in Nat /\ ai \in Nat /\ am = ai + 1 /\ ai + 1 <= a0
          /\ (VtypeOf(c, F + (a0 - ai)) = "flo" <=> c.args[i].cls = "flo")
      BY <2>4, <2>6, PopType
    <3>2. j = F + (a0 - ai) /\ J(i) = j + 1 /\ j \in Nat \ {0}
      <4> HIDE DEF a0, ai, am, F
      <4>1. /\ F + (a0 - am) + 1 = F + (a0 - ai)
            /\ F + (a0 - ai) + 1 = (F + (a0 - am) + 1) + 1 /\ F + (a0 - am) + 1 \in Nat \ {0}
        BY <1>1, <3>1
      <4> QED BY <4>1 DEF a0, ai, am
    <3>5. /\ OfClass(c, j, "int") <=> c.args[i].cls # "flo"
          /\ OfClass(c, j, "flo") <=> c.args[i].cls = "flo"
      <4>1. VtypeOf(c, j) = "flo" <=> c.args[i].cls = "flo"
        BY <3>1, <3>2
      <4> HIDE DEF j
      <4> QED BY <4>1 DEF OfClass
    <3>6. c.args[i].cls \in {"int", "flo"}
      BY <2>2, <2>6 DEF InRegister
    <3>7. /\ PoppedBefore(c, j + 1, "int")
               = IF OfClass(c, j, "int") THEN PoppedBefore(c, j, "int") + 1 ELSE PoppedBefore(c, j, "int")
          /\ PoppedBefore(c, j + 1, "flo")
               = IF OfClass(c, j, "flo") THEN PoppedBefore(c, j, "flo") + 1 ELSE PoppedBefore(c, j, "flo")
      <4>1. j \in Nat \ {0}
        BY <3>2
      <4> HIDE DEF j
      <4> QED BY <4>1, PoppedSteps
    <3>8. /\ t.ireg = IF c.args[i].cls = "int" THEN s.ireg + 1 ELSE s.ireg
          /\ t.freg = IF c.args[i].cls = "flo" THEN s.freg + 1 ELSE s.freg
      BY <2>2, <2>6
    <3>9. PoppedBefore(c, j, "int") = s.ireg /\ PoppedBefore(c, j, "flo") = s.freg
      BY <2>3
    <3>10. J(i) = j + 1
      BY <3>2
    <3> HIDE DEF j, s, t, J
    <3>11. PoppedBefore(c, J(i), "int") = t.ireg /\ PoppedBefore(c, J(i), "flo") = t.freg
      BY <3>5, <3>6, <3>7, <3>8, <3>9, <3>10
    <3> QED BY <3>11 DEF t
  <2> QED BY <2>5, <2>6
<1> HIDE DEF T
<1>5. \A i \in 0..n : i \in T
  BY <1>1, <1>3, <1>4, Induct
<1>6. k \in T /\ k <= n
  BY <1>1, <1>5
<1> QED BY <1>6 DEF T

\* No two arguments are popped into one register.
LEMMA PopsApart ==
    ASSUME NEW c, NEW cls, NEW i \in Nat \ {0}, NEW j \in Nat \ {0},
           OfClass(c, i, cls), OfClass(c, j, cls),
           PoppedBefore(c, i, cls) = PoppedBefore(c, j, cls)
    PROVE  i = j
<1>1. PoppedBefore(c, i, cls) \in Nat /\ PoppedBefore(c, j, cls) \in Nat
  BY PoppedSteps
<1>2. i < j => PoppedBefore(c, i, cls) < PoppedBefore(c, j, cls)
  BY PoppedSteps
<1>3. j < i => PoppedBefore(c, j, cls) < PoppedBefore(c, i, cls)
  BY PoppedSteps
<1> DEFINE x == PoppedBefore(c, i, cls)
           y == PoppedBefore(c, j, cls)
<1>4. x \in Nat /\ y \in Nat /\ x = y /\ (i < j => x < y) /\ (j < i => y < x)
  BY <1>1, <1>2, <1>3
<1> HIDE DEF x, y
<1> QED BY <1>4

\* What the position j holds goes to the register that its type and the
\* positions below it tell.
LEMMA PopInto ==
    ASSUME PopArgs, NEW id \in {1, 2}, Ir.id = id, NEW j \in 1..RegArgCount(call[id]),
           RegArgCount(call[id]) \in Nat
    PROVE  LET c == call[id]
               top == mem[rsp + WORD * (j - 1)]
           IN  /\ (VtypeOf(c, j) # "flo" /\ PoppedBefore(c, j, "int") \in DOMAIN ireg) =>
                     ireg'[PoppedBefore(c, j, "int")] = top
               /\ (VtypeOf(c, j) = "flo" /\ PoppedBefore(c, j, "flo") \in DOMAIN freg) =>
                     freg'[PoppedBefore(c, j, "flo")] = top
<1> DEFINE c == call[id]
           n == RegArgCount(c)
           Top(i) == mem[rsp + WORD * (i - 1)]
           I(k) == {i \in 1..n : VtypeOf(c, i) # "flo" /\ PoppedBefore(c, i, "int") = k}
           G(k) == {i \in 1..n : VtypeOf(c, i) = "flo" /\ PoppedBefore(c, i, "flo") = k}
<1>1. /\ ireg' = [k \in DOMAIN ireg |-> IF I(k) = {} THEN Junk ELSE Top(CHOOSE i \in I(k) : TRUE)]
      /\ freg' = [k \in DOMAIN freg |-> IF G(k) = {} THEN Junk ELSE Top(CHOOSE i \in G(k) : TRUE)]
  BY DEF PopArgs, Called
<1>2. \A i \in 1..n : /\ OfClass(c, i, "int") <=> VtypeOf(c, i) # "flo"
                      /\ OfClass(c, i, "flo") <=> VtypeOf(c, i) = "flo"
  BY DEF OfClass
<1>3. \A i \in 1..n : i \in Nat \ {0}
  OBVIOUS
<1> HIDE DEF Top, n
<1>4. ASSUME VtypeOf(c, j) # "flo", PoppedBefore(c, j, "int") \in DOMAIN ireg
      PROVE  ireg'[PoppedBefore(c, j, "int")] = Top(j)
  <2> DEFINE k == PoppedBefore(c, j, "int")
  <2>1. j \in I(k) /\ j \in 1..n
    BY <1>4 DEF n
  <2>2. \A i \in I(k) : i = j
    BY <1>2, <1>3, <2>1, PopsApart
  <2>3. k \in DOMAIN ireg
    BY <1>4
  <2> HIDE DEF I, G, k
  <2>4. (CHOOSE i \in I(k) : TRUE) = j /\ I(k) # {}
    BY <2>1, <2>2
  <2> QED BY <1>1, <2>3, <2>4 DEF k
<1>5. ASSUME VtypeOf(c, j) = "flo", PoppedBefore(c, j, "flo") \in DOMAIN freg
      PROVE  freg'[PoppedBefore(c, j, "flo")] = Top(j)
  <2> DEFINE k == PoppedBefore(c, j, "flo")
  <2>1. j \in G(k) /\ j \in 1..n
    BY <1>5 DEF n
  <2>2. \A i \in G(k) : i = j
    BY <1>2, <1>3, <2>1, PopsApart
  <2>3. k \in DOMAIN freg
    BY <1>5
  <2> HIDE DEF I, G, k
  <2>4. (CHOOSE i \in G(k) : TRUE) = j /\ G(k) # {}
    BY <2>1, <2>2
  <2> QED BY <1>1, <2>3, <2>4 DEF k
<1> QED BY <1>4, <1>5 DEF Top

\* Every pushed argument comes to the register that gen_funcall gave to it.
LEMMA PopsReach ==
    ASSUME Static, NEW id \in {1, 2}, NEW at \in Nat, NEW e \in Nat, NEW b \in Nat, NEW b1 \in Nat,
           Frames(id, at, e, b, b1), StackAt(id, "pop", 0, e, b), Placed(id, b, 0), RetPlaced(id, b),
           PopArgs, Ir.id = id, GoodCall(call[id]), UNCHANGED call
    PROVE  Popped(id)'
<1> DEFINE c == call[id]
           n == RegArgCount(c)
           a0 == Above(c, 0)
           F == First(c)
<1>1. /\ c \in AllCalls /\ n \in Nat /\ a0 \in Nat /\ n = a0 + F /\ F \in {0, 1}
  BY FramesCall
<1>2. rsp = -(b + 8 * n)
  BY DEF StackAt, WORD
<1>3. b % 8 = 0 /\ b + 8 * n <= 4 * StackCells /\ StackCells \in Nat
  BY FramesAligned, CallAssumption
<1>4. /\ mem \in [Cells -> Values] /\ DOMAIN ireg = 0..(MaxRegArgs - 1)
      /\ DOMAIN freg = 0..(MaxFregArgs - 1)
      /\ MaxRegArgs \in Nat \ {0} /\ MaxFregArgs \in Nat
  BY CallAssumption DEF Static
<1>5. ASSUME NEW k \in RegArgs(c)
      PROVE  LET s == Counters(c)[k - 1]
             IN  Arg(id, k) = IF Args(id)[k].cls = "flo" THEN freg'[s.freg] ELSE ireg'[s.ireg]
  <2> DEFINE s == Counters(c)[k - 1]
             a == Above(c, k)
             am == Above(c, k - 1)
             J == F + (a0 - a)
             p == PlaceOfArg(id, b, k)
  <2>1. k \in 1..Len(c.args) /\ k - 1 \in 0..Len(c.args)
    BY <1>1, CallTypes DEF RegArgs
  <2>2. /\ a \in Nat /\ a + 1 <= a0 /\ am = a + 1
        /\ VtypeOf(c, J) = "flo" <=> c.args[k].cls = "flo"
    <3>1. am = a + 1
      BY <1>1, <2>1, AboveSteps
    <3> QED BY <1>1, <3>1, PopType
  <2>3. s \in Count /\ InRegister(c.args[k], s)
    BY <1>1, <2>1, CountersStep
  <2>4. F + (a0 - am) + 1 = J /\ J \in 1..n /\ J \in Nat
    <3> HIDE DEF F, a0, a, am, n
    <3> QED BY <1>1, <2>2
  <2>5. PoppedBefore(c, J, "int") = s.ireg /\ PoppedBefore(c, J, "flo") = s.freg
    <3> HIDE DEF J
    <3> QED BY <1>1, <2>1, <2>4, PopsCount
  <2>6. p = -(b + 8 * am) /\ SizeOfArg(id, k) = 8
    BY DEF PlaceOfArg, SizeOfArg, WORD
  <2>7. rsp + WORD * (J - 1) = p
    <3> HIDE DEF F, a0, a, am, n, p
    <3>1. rsp + 8 * ((F + (a0 - a)) - 1) = p
      BY <1>1, <1>2, <2>2, <2>6
    <3> QED BY <3>1 DEF WORD
  <2>8. p \in Cells
    <3> HIDE DEF F, a0, a, am, n, p
    <3>1. p \in Int /\ p % 8 = 0 /\ -(4 * StackCells) <= p /\ p < 0
      BY <1>1, <1>3, <2>2, <2>6
    <3> QED BY <3>1, CellThere
  <2>9. mem[p] = Arg(id, k)
    <3>1. HoldsAt(mem, p, 8, Arg(id, k))
      <4>1. k \in 1..Len(Args(id)) /\ k > 0
        BY <2>1 DEF Args
      <4> QED BY <2>6, <4>1 DEF Placed
    <3>2. p \in Int
      BY <2>8, CellsAreNumbers
    <3> HIDE DEF p
    <3> QED BY <1>4, <2>8, <3>1, <3>2 DEF HoldsAt
  <2>10. mem[rsp + WORD * (J - 1)] = Arg(id, k)
    BY <2>7, <2>9
  <2> HIDE DEF J, s
  <2>11. CASE c.args[k].cls = "flo"
    <3>1. s.freg \in DOMAIN freg
      BY <1>4, <2>3, <2>11 DEF InRegister, Count
    <3>2. freg'[PoppedBefore(c, J, "flo")] = Arg(id, k)
      BY <1>1, <2>2, <2>4, <2>5, <2>10, <2>11, <3>1, PopInto DEF J
    <3> QED BY <2>5, <2>11, <3>2 DEF s, Args
  <2>12. CASE c.args[k].cls # "flo"
    <3>1. s.ireg \in DOMAIN ireg
      BY <1>4, <2>3, <2>12 DEF InRegister, Count
    <3>2. ireg'[PoppedBefore(c, J, "int")] = Arg(id, k)
      BY <1>1, <2>2, <2>4, <2>5, <2>10, <2>12, <3>1, PopInto DEF J
    <3> QED BY <2>5, <2>12, <3>2 DEF s, Args
  <2> QED BY <2>11, <2>12
<1>6. ASSUME c.ret_struct PROVE ireg'[0] = RetPtr(id)
  <2>1. F = 1 /\ VtypeOf(c, 1) = "int"
    BY <1>6 DEF First, VtypeOf
  <2>2. 1 \in 1..n
    <3> HIDE DEF a0, n, F
    <3> QED BY <1>1, <2>1
  <2>3. PoppedBefore(c, 1, "int") = 0 /\ 0 \in DOMAIN ireg
    BY <1>4, PoppedSteps
  <2> DEFINE p == -(b + 8 * n)
  <2>4. p \in Cells /\ p \in Int
    <3> HIDE DEF n
    <3>1. n >= 1
      BY <2>2
    <3>2. p \in Int /\ p % 8 = 0 /\ -(4 * StackCells) <= p /\ p < 0
      BY <1>1, <1>3, <3>1
    <3> HIDE DEF p
    <3> QED BY <3>2, CellThere
  <2>5. mem[p] = RetPtr(id)
    <3>1. HoldsAt(mem, p, 8, RetPtr(id))
      BY <1>6 DEF RetPlaced, WORD
    <3> HIDE DEF p
    <3> QED BY <1>4, <2>4, <3>1 DEF HoldsAt
  <2>6. rsp + WORD * (1 - 1) = p
    <3> HIDE DEF n
    <3> QED BY <1>1, <1>2 DEF WORD
  <2>7. ireg'[PoppedBefore(c, 1, "int")] = mem[rsp + WORD * (1 - 1)]
    <3>1. VtypeOf(c, 1) # "flo" /\ PoppedBefore(c, 1, "int") \in DOMAIN ireg
      BY <2>1, <2>3
    <3> QED BY <1>1, <2>2, <3>1, PopInto
  <2> QED BY <2>3, <2>5, <2>6, <2>7
<1>7. Args(id)' = Args(id) /\ c' = c
  BY DEF Args
<1> QED BY <1>5, <1>6, <1>7 DEF Popped

LEMMA PopArgsTypes ==
    ASSUME Static, NEW id \in {1, 2}, NEW at \in Nat, NEW e \in Nat, NEW b \in Nat, NEW b1 \in Nat,
           Frames(id, at, e, b, b1), StackAt(id, "pop", 0, e, b), PopArgs, Ir.id = id
    PROVE  /\ ireg' \in [0..(MaxRegArgs - 1) -> Values]
           /\ freg' \in [0..(MaxFregArgs - 1) -> Values]
<1> DEFINE c == call[id]
           n == RegArgCount(c)
           Top(i) == mem[rsp + WORD * (i - 1)]
           I(k) == {i \in 1..n : VtypeOf(c, i) # "flo" /\ PoppedBefore(c, i, "int") = k}
           G(k) == {i \in 1..n : VtypeOf(c, i) = "flo" /\ PoppedBefore(c, i, "flo") = k}
<1>1. n \in Nat /\ rsp = -(b + 8 * n)
  BY FramesCall DEF StackAt, WORD
<1>2. b % 8 = 0 /\ b + 8 * n <= 4 * StackCells /\ StackCells \in Nat
  BY FramesAligned, CallAssumption
<1>3. /\ mem \in [Cells -> Values] /\ DOMAIN ireg = 0..(MaxRegArgs - 1)
      /\ DOMAIN freg = 0..(MaxFregArgs - 1) /\ Junk \in Values
  BY DEF Static, Values
<1>4. ASSUME NEW i \in 1..n PROVE Top(i) \in Values
  <2> DEFINE p == rsp + 8 * (i - 1)
  <2>1. i \in Nat /\ 1 <= i /\ i <= n
    BY <1>1
  <2> HIDE DEF n
  <2>2. p \in Int /\ p % 8 = 0 /\ -(4 * StackCells) <= p /\ p < 0
    <3>1. p = -(b + 8 * (n - (i - 1)))
      BY <1>1, <2>1
    <3> DEFINE m == n - (i - 1)
    <3>2. m \in Nat /\ m >= 1 /\ m <= n
      BY <1>1, <2>1
    <3>3. p = -(b + 8 * m)
      BY <3>1
    <3> HIDE DEF m, p
    <3> QED BY <1>1, <1>2, <3>2, <3>3
  <2>3. p \in Cells
    <3> HIDE DEF p
    <3> QED BY <2>2, CellThere
  <2> QED BY <1>3, <2>3 DEF WORD
<1>5. /\ ireg' = [k \in DOMAIN ireg |-> IF I(k) = {} THEN Junk ELSE Top(CHOOSE i \in I(k) : TRUE)]
      /\ freg' = [k \in DOMAIN freg |-> IF G(k) = {} THEN Junk ELSE Top(CHOOSE i \in G(k) : TRUE)]
  BY DEF PopArgs, Called
<1>6. \A k : I(k) # {} => (CHOOSE i \in I(k) : TRUE) \in 1..n
  <2>1. \A k : I(k) \subseteq 1..n
    OBVIOUS
  <2> HIDE DEF I, n
  <2> QED BY <2>1
<1>7. \A k : G(k) # {} => (CHOOSE i \in G(k) : TRUE) \in 1..n
  <2>1. \A k : G(k) \subseteq 1..n
    OBVIOUS
  <2> HIDE DEF G, n
  <2> QED BY <2>1
<1> HIDE DEF I, G, n, Top
<1> QED BY <1>3, <1>4, <1>5, <1>6, <1>7

LEMMA PopArgsStep ==
    ASSUME Static, NEW id \in {1, 2}, NEW at \in Nat, NEW st \in Stages, NEW k \in Nat,
           NEW e \in Nat, NEW b \in Nat, NEW b1 \in Nat, At(id, at, st, k, e, b, b1), PopArgs
    PROVE  Static' /\ Somewhere'
<1> DEFINE c == call[id]
           n == RegArgCount(c)
<1>0. Executing("POPARGS") /\ UNCHANGED <<frame, call, living, aligned, mem, regs>>
  BY DEF PopArgs
<1>1. Ir.id = id /\ st = "pop" /\ irs' = Tail(irs)
  BY <1>0, Executes
<1>2. /\ PointOK(id, at, "pop", k) /\ Frames(id, at, e, b, b1)
      /\ irs = Code(id, at, "pop", k) \o After(id, at)
      /\ StackAt(id, "pop", k, e, b) /\ MemAt(id, at, "pop", k, e, b, b1) /\ RegsAt(id, "pop")
      /\ CallsOK
  BY <1>1, StaticCalls DEF At
<1>3. /\ k = 0 /\ Placed(id, b, 0) /\ (id = 2 => Placed(1, b1, at)) /\ RetPlaced(id, b)
      /\ SavedAll(id, e) /\ AllHeld(2)
  BY <1>2 DEF PointOK, MemAt, RegsAt
<1>4. StackAt(id, "pop", 0, e, b)
  BY <1>2, <1>3
<1>5. rsp' = -b /\ stackpos' = b
  <2>1. n \in Nat /\ stackpos = b + 8 * n /\ rsp = -stackpos
    BY <1>2, <1>4, FramesCall DEF StackAt, WORD
  <2>2. rsp' = rsp + 8 * n /\ stackpos' = stackpos - 8 * n
    BY <1>1 DEF PopArgs, Called, WORD
  <2> HIDE DEF n
  <2> QED BY <2>1, <2>2
<1>6. Static'
  <2>1. ireg' \in [0..(MaxRegArgs - 1) -> Values] /\ freg' \in [0..(MaxFregArgs - 1) -> Values]
    BY <1>1, <1>2, <1>4, PopArgsTypes
  <2> QED BY <1>0, <2>1 DEF Static
<1>7. GoodCall(c)' => Popped(id)'
  <2>1. GoodCall(c)' => GoodCall(c)
    BY <1>0
  <2> QED BY <1>0, <1>1, <1>2, <1>3, <1>4, <2>1, PopsReach
<1>8. /\ Placed(id, b, 0)' /\ (id = 2 => Placed(1, b1, at)') /\ SavedAll(id, e)' /\ AllHeld(2)'
  BY <1>0, <1>3, SameMemory, SameRegisters
<1>9. /\ Frames(id, at, e, b, b1)' /\ PadOf(id, e)' = PadOf(id, e)
      /\ PadOf(1, 8 + frame)' = PadOf(1, 8 + frame)
  BY <1>0, <1>2, FramesKept
<1>10. (irs = Code(id, at, "invoke", 0) \o After(id, at))'
  <2>1. Tail(irs) = Code(id, at, "invoke", 0) \o After(id, at)
    BY <1>2, FirstPop
  <2>2. irs' = Code(id, at, "invoke", 0) \o After(id, at)
    BY <1>1, <2>1
  <2>3. Code(id, at, "invoke", 0)' = Code(id, at, "invoke", 0) /\ After(id, at)' = After(id, at)
    BY <1>0, CodeKept
  <2> QED BY <2>2, <2>3
<1>11. PointOK(id, at, "invoke", 0)'
  <2>1. PointOK(id, at, "invoke", 0)
    BY <1>2 DEF PointOK
  <2> QED BY <1>0, <2>1, CodeKept
<1>12. StackAt(id, "invoke", 0, e, b)'
  BY <1>0, <1>4, <1>5, <1>9 DEF StackAt
<1>13. MemAt(id, at, "invoke", 0, e, b, b1)' /\ RegsAt(id, "invoke")'
  BY <1>7, <1>8 DEF MemAt, RegsAt
<1>14. At(id, at, "invoke", 0, e, b, b1)'
  BY <1>9, <1>10, <1>11, <1>12, <1>13 DEF At
<1>15. "invoke" \in Stages /\ 0 \in Nat
  BY DEF Stages
<1>16. Somewhere'
  BY <1>14, <1>15 DEF Somewhere
<1> QED BY <1>6, <1>16

LEMMA NextIInv == IInv /\ [Next]_vars => IInv'
<1>1. Static /\ SomewhereArriving => Somewhere
  BY ArrivingSomewhere
<1>2. (Static /\ SomewhereArriving => Somewhere)'
  BY <1>1, PTL
<1> SUFFICES ASSUME IInv, [Next]_vars PROVE IInv'
  OBVIOUS
<1>3. Static
  BY DEF IInv
<1>4. PICK id \in {1, 2}, st \in Stages, at \in Nat, k \in Nat, e \in Nat, b \in Nat, b1 \in Nat :
          At(id, at, st, k, e, b, b1)
  BY DEF IInv, Somewhere
<1>5. ASSUME Static' /\ (Somewhere \/ SomewhereArriving)' PROVE IInv'
  BY <1>2, <1>5 DEF IInv
<1>6. CASE Precall
  BY <1>3, <1>4, <1>5, <1>6, PrecallStep
<1>7. CASE AddSp
  BY <1>3, <1>4, <1>5, <1>7, AddSpStep
<1>8. CASE PushArg
  BY <1>3, <1>4, <1>5, <1>8, PushArgStep
<1>9. CASE StoreArg
  BY <1>3, <1>4, <1>5, <1>9, StoreArgStep
<1>10. CASE Save
  BY <1>3, <1>4, <1>5, <1>10, SaveStep
<1>11. CASE PopArgs
  BY <1>3, <1>4, <1>5, <1>11, PopArgsStep
<1>12. CASE Invoke
  BY <1>3, <1>4, <1>5, <1>12, InvokeStep
<1>13. CASE Restore
  BY <1>3, <1>4, <1>5, <1>13, RestoreStep
<1>14. CASE UNCHANGED vars
  <2>1. UNCHANGED <<frame, call, living, irs, rsp, stackpos, aligned, mem, regs, ireg, freg>>
    BY <1>14 DEF vars
  <2>2. Static'
    BY <1>3, <2>1 DEF Static
  <2>3. /\ PointOK(id, at, st, k) /\ Frames(id, at, e, b, b1)
        /\ irs = Code(id, at, st, k) \o After(id, at)
        /\ StackAt(id, st, k, e, b) /\ MemAt(id, at, st, k, e, b, b1) /\ RegsAt(id, st)
    BY <1>4 DEF At
  <2>4. /\ Frames(id, at, e, b, b1)' /\ PadOf(id, e)' = PadOf(id, e)
        /\ PadOf(1, 8 + frame)' = PadOf(1, 8 + frame)
    BY <2>1, <2>3, FramesKept
  <2>5. (irs = Code(id, at, st, k) \o After(id, at))' /\ PointOK(id, at, st, k)'
    <3>1. /\ Code(id, at, st, k)' = Code(id, at, st, k) /\ After(id, at)' = After(id, at)
          /\ PointOK(id, at, st, k)'
      BY <2>1, <2>3, CodeKept
    <3> QED BY <2>1, <2>3, <3>1
  <2>6. StackAt(id, st, k, e, b)'
    BY <2>1, <2>3, <2>4 DEF StackAt
  <2>7. MemAt(id, at, st, k, e, b, b1)'
    <3>1. /\ Placed(id, b, k)' = Placed(id, b, k) /\ Placed(1, b1, at)' = Placed(1, b1, at)
          /\ RetPlaced(id, b)' = RetPlaced(id, b) /\ SavedAll(id, e)' = SavedAll(id, e)
      BY <2>1, SameMemory
    <3> QED BY <2>3, <3>1 DEF MemAt
  <2>8. RegsAt(id, st)'
    BY <2>1, <2>3 DEF RegsAt, AllHeld, Popped, Args
  <2>9. At(id, at, st, k, e, b, b1)'
    BY <2>4, <2>5, <2>6, <2>7, <2>8 DEF At
  <2>10. Somewhere'
    BY <2>9 DEF Somewhere
  <2> QED BY <2>2, <2>10 DEF IInv
<1>15. Next \/ UNCHANGED vars
  OBVIOUS
<1> QED BY <1>6, <1>7, <1>8, <1>9, <1>10, <1>11, <1>12, <1>13, <1>14, <1>15 DEF Next, Done

\* At every step the calls are at one of the points of their execution, with
\* the stack, the memory and the registers as they must be there: from entry
\* to the end gen_funcall's code and ir_out never lose what was stored.
THEOREM CallInvariant == Spec => []IInv
BY InitIInv, NextIInv, PTL DEF Spec

-----------------------------------------------------------------------------
(* What the invariant says of each state                                   *)

LEMMA AtInvoke ==
    ASSUME Static, NEW id \in {1, 2}, NEW at \in Nat, NEW st \in Stages, NEW k \in Nat,
           NEW e \in Nat, NEW b \in Nat, NEW b1 \in Nat, At(id, at, st, k, e, b, b1),
           irs # << >>, Ir.op = "INVOKE"
    PROVE  st = "invoke" /\ Ir.id = id
<1>1. st # "end"
  BY HeadIs
<1>2. \/ st = "pre" /\ Head(irs) = Op("PRECALL", id)
      \/ st = "add" /\ Head(irs) = Op("ADDSP", id)
      \/ st = "own" /\ Head(irs) = ArgIr(id, call[id], k)
      \/ st = "ret" /\ Head(irs) = RetIr(id)
      \/ st = "save" /\ Head(irs) = Op("SAVE", id)
      \/ st = "pop" /\ Head(irs) = Op("POPARGS", id)
      \/ st = "invoke" /\ Head(irs) = Op("INVOKE", id)
      \/ st = "restore" /\ Head(irs) = Op("RESTORE", id)
  BY <1>1, HeadIs
<1> QED BY <1>2 DEF Op, RetIr, ArgIr, Ir

LEMMA StackType ==
    ASSUME Static, NEW id \in {1, 2}, NEW at \in Nat, NEW st \in Stages, NEW k \in Nat,
           NEW e \in Nat, NEW b \in Nat, NEW b1 \in Nat, At(id, at, st, k, e, b, b1)
    PROVE  stackpos \in Nat /\ rsp \in Int
<1> DEFINE c == call[id]
           S == StackArgsSize(c)
           n == RegArgCount(c)
           a == Above(c, k)
<1>1. Frames(id, at, e, b, b1) /\ StackAt(id, st, k, e, b)
  BY DEF At
<1>2. c \in AllCalls /\ S \in Nat /\ n \in Nat
  BY <1>1, FramesCall
<1>3. a \in Nat
  BY <1>2, AboveSteps
<1>4. b - S \in Nat
  <2> DEFINE L == Cardinality(living[id])
             g == PadOf(id, e)
  <2>1. b = e + 8 * L + g + S /\ g \in 0..15
    BY <1>1, FramesBase
  <2>2. L \in Nat
    BY <1>1, FramesCall
  <2> HIDE DEF L, g, S
  <2>3. S \in Nat
    BY <1>2 DEF S
  <2> QED BY <2>1, <2>2, <2>3
<1>5. b + WORD * a \in Nat /\ b + WORD * n \in Nat
  BY <1>2, <1>3 DEF WORD
<1>6. stackpos \in Nat
  BY <1>1, <1>4, <1>5 DEF StackAt
<1> QED BY <1>1, <1>6 DEF StackAt

\* The types of the state: every instruction is one that ir_out knows, the
\* compiler's count of the stack never goes below nothing.
THEOREM CallTypeOK == Spec => []TypeOK
<1>1. IInv => TypeOK
  <2> SUFFICES ASSUME IInv PROVE TypeOK
    OBVIOUS
  <2>1. Static
    BY DEF IInv
  <2>2. irs \in Seq(Instructions) /\ stackpos \in Nat /\ rsp \in Int
    BY <2>1, HeadIs, StackType DEF IInv, Somewhere
  <2> QED BY <2>1, <2>2 DEF TypeOK, Static
<1> QED BY <1>1, CallInvariant, PTL

\* The compiler's count of the stack is the stack pointer's distance after
\* every instruction, the stack is aligned to 16 bytes at every call
\* instruction, also of a call made while half of another's arguments lie on
\* the stack, and in the end it is where it was.
THEOREM StackIsAccounted == Spec => []StackAccounted
<1>1. IInv => StackAccounted
  <2> SUFFICES ASSUME IInv PROVE StackAccounted
    OBVIOUS
  <2>1. Static
    BY DEF IInv
  <2>2. PICK id \in {1, 2}, st \in Stages, at \in Nat, k \in Nat, e \in Nat, b \in Nat, b1 \in Nat :
            At(id, at, st, k, e, b, b1)
    BY DEF IInv, Somewhere
  <2>3. Frames(id, at, e, b, b1) /\ StackAt(id, st, k, e, b)
    BY <2>2 DEF At
  <2>4. rsp = -stackpos
    BY <2>3 DEF StackAt
  <2>5. ASSUME irs # << >>, Ir.op = "INVOKE" PROVE rsp % 16 = 0
    <3>1. st = "invoke"
      BY <2>1, <2>2, <2>5, AtInvoke
    <3>2. rsp = -b
      BY <2>3, <3>1 DEF StackAt
    <3>3. b % 16 = 0
      BY <2>1, <2>3, FramesAligned
    <3> QED BY <3>2, <3>3
  <2>6. ASSUME irs = << >> PROVE stackpos = 8 + frame
    <3>1. st = "end" /\ id = 1
      BY <2>1, <2>2, <2>6, HeadIs
    <3>2. stackpos = e
      BY <2>3, <3>1 DEF StackAt
    <3>3. e = 8 + frame
      BY <2>1, <2>3, <3>1, FramesBase
    <3> QED BY <3>2, <3>3
  <2> QED BY <2>4, <2>5, <2>6 DEF StackAccounted
<1> QED BY <1>1, CallInvariant, PTL

\* A register that lives across a call is what it was: those living across the
\* inner call from the end of that call to the outer call instruction, those
\* living across the outer one in the end, whatever the called functions do
\* to the registers and to the stack below.
THEOREM RegistersKept == Spec => []LivingKept
<1>1. IInv => LivingKept
  <2> SUFFICES ASSUME IInv PROVE LivingKept
    OBVIOUS
  <2>1. Static
    BY DEF IInv
  <2>2. PICK id \in {1, 2}, st \in Stages, at \in Nat, k \in Nat, e \in Nat, b \in Nat, b1 \in Nat :
            At(id, at, st, k, e, b, b1)
    BY DEF IInv, Somewhere
  <2>3. RegsAt(id, st) /\ irs = Code(id, at, st, k) \o After(id, at)
    BY <2>2 DEF At
  <2>4. ASSUME irs = << >> PROVE \A r \in living[1] : regs[r] = Held(r)
    <3>1. st = "end"
      BY <2>1, <2>2, <2>4, HeadIs
    <3> QED BY <2>3, <3>1 DEF RegsAt, AllHeld
  <2>5. ASSUME \A i \in 1..Len(irs) : irs[i].id = 1,
               \E i \in 1..Len(irs) : irs[i].op = "INVOKE"
        PROVE  \A r \in living[2] : regs[r] = Held(r)
    <3>1. st # "end"
      <4>1. irs # << >>
        BY <2>5
      <4> QED BY <2>1, <2>2, <4>1, HeadIs
    <3>2. st # "restore"
      <4>1. SUFFICES ASSUME st = "restore" PROVE FALSE
        OBVIOUS
      <4>2. Head(irs) = Op("RESTORE", id) /\ irs \in Seq(Instructions) /\ irs # << >>
        BY <2>1, <2>2, <4>1, HeadIs
      <4>3. Head(irs) = irs[1] /\ 1 \in 1..Len(irs)
        BY <4>2
      <4>4. id = 1
        BY <2>5, <4>2, <4>3 DEF Op
      <4>5. irs = << Op("RESTORE", 1) >>
        <5>1. << Op("RESTORE", 1) >> \o << >> = << Op("RESTORE", 1) >>
          BY CallTail
        <5> QED BY <2>3, <4>1, <4>4, <5>1 DEF Code, After
      <4>6. PICK i \in 1..Len(irs) : irs[i].op = "INVOKE"
        BY <2>5
      <4>7. i = 1
        BY <4>5, <4>6
      <4> QED BY <4>2, <4>3, <4>6, <4>7 DEF Op
    <3> QED BY <2>3, <3>1, <3>2 DEF RegsAt, AllHeld
  <2> QED BY <2>4, <2>5 DEF LivingKept
<1> QED BY <1>1, CallInvariant, PTL

-----------------------------------------------------------------------------
(* Where the callee looks for its parameters                               *)

LEMMA CountedParamType ==
    ASSUME NEW c \in AllCalls, NEW k \in 1..Len(c.args), NEW s \in Count
    PROVE  CountedParam(c, k, s) \in Count
<1>1. c.args[k].size \in Nat /\ c.args[k].align \in Nat \ {0}
  BY CallTypes
<1>2. s.offset \in Nat
  BY DEF Count
<1>3. Align(s.offset, c.args[k].align) + c.args[k].size \in Nat
  <2>1. Align(s.offset, c.args[k].align) \in Nat
    BY <1>1, <1>2, AlignUp
  <2> QED BY <1>1, <2>1
<1> QED BY <1>3 DEF CountedParam, Count, WORD

LEMMA CalleeSteps ==
    ASSUME NEW c \in AllCalls
    PROVE  /\ CalleeCounters(c) \in [0..Len(c.args) -> Count]
           /\ CalleeCounters(c)[0] = Start(c)
           /\ \A k \in 1..Len(c.args) :
                CalleeCounters(c)[k] = CountedParam(c, k, CalleeCounters(c)[k - 1])
<1> DEFINE n == Len(c.args)
           F == [k \in Nat |-> [s \in Count |-> IF k \in 1..n THEN CountedParam(c, k, s) ELSE s]]
<1>1. n \in Nat
  BY CallTypes
<1>2. Start(c) \in Count
  BY CallTypes DEF Start, Count
<1>3. F \in [Nat -> [Count -> Count]]
  BY CountedParamType
<1>4. PICK h : Recursion(h, n, Start(c), F)
  <2> HIDE DEF F, n
  <2> QED BY <1>1, <1>2, <1>3, RecursionExists
<1>5. h \in [0..n -> Count]
  <2> HIDE DEF F, n
  <2> QED BY <1>1, <1>2, <1>3, <1>4, RecursionStays
<1>6. ASSUME NEW k \in 0..n, k # 0 PROVE F[k][h[k - 1]] = CountedParam(c, k, h[k - 1])
  <2>1. k \in 1..n /\ k \in Nat /\ h[k - 1] \in Count
    BY <1>1, <1>5, <1>6
  <2> QED BY <2>1
<1>7. h = [k \in 0..n |-> IF k = 0 THEN Start(c) ELSE CountedParam(c, k, h[k - 1])]
  <2> HIDE DEF F, n
  <2> QED BY <1>4, <1>6 DEF Recursion
<1>8. CalleeCounters(c) = [k \in 0..n |-> IF k = 0 THEN Start(c) ELSE CountedParam(c, k, CalleeCounters(c)[k - 1])]
  BY <1>7 DEF CalleeCounters
<1>9. CalleeCounters(c) \in [0..n -> Count]
  <2> DEFINE T == {k \in Nat : k <= n => CalleeCounters(c)[k] \in Count}
  <2>1. 0 \in T
    BY <1>1, <1>2, <1>8
  <2>2. ASSUME NEW k \in Nat, k < n, k \in T PROVE k + 1 \in T
    <3>1. k + 1 \in 0..n /\ k + 1 # 0 /\ (k + 1) - 1 = k /\ CalleeCounters(c)[k] \in Count /\ k + 1 \in 1..n
      BY <1>1, <2>2
    <3>2. CalleeCounters(c)[k + 1] = CountedParam(c, k + 1, CalleeCounters(c)[k])
      BY <1>8, <3>1
    <3> QED BY <3>1, <3>2, CountedParamType
  <2> HIDE DEF T, n
  <2>3. \A k \in 0..n : k \in T
    BY <1>1, <2>1, <2>2, Induct
  <2>4. \A k \in 0..n : CalleeCounters(c)[k] \in Count
    BY <2>3 DEF T
  <2> QED BY <1>8, <2>4
<1>10. \A k \in 1..n : k \in 0..n /\ k # 0
  BY <1>1
<1>11. 0 \in 0..n
  BY <1>1
<1> HIDE DEF F
<1> QED BY <1>8, <1>9, <1>10, <1>11

LEMMA AlignedMultiple ==
    ASSUME NEW q \in Nat, NEW a \in Nat, a % 8 = 0 PROVE (q * a) % 8 = 0
<1>1. PICK m \in Nat : a = 8 * m
  <2>1. a = 8 * (a \div 8) /\ a \div 8 \in Nat
    OBVIOUS
  <2> QED BY <2>1
<1> DEFINE n == q * m
<1>2. n \in Nat /\ q * a = 8 * n
  BY <1>1
<1> HIDE DEF n
<1> QED BY <1>2

\* Parameters need no more than a word's alignment, or a multiple of it.
LEMMA AlignWords ==
    ASSUME NEW x \in Nat, x % 8 = 0, NEW a \in Nat \ {0}
    PROVE  /\ 8 % a = 0 => Align(x, a) = x
           /\ a % 8 = 0 => Align(x, a) % 8 = 0
           /\ 8 % a = 0 => Align(x, a) % 8 = 0
<1>1. ASSUME 8 % a = 0 PROVE Align(x, a) = x
  <2>1. a <= 8
    BY <1>1
  <2>2. a \in 1..8
    BY <2>1
  <2>3. a = 1 \/ a = 2 \/ a = 4 \/ a = 8
    BY <1>1, <2>2
  <2> QED BY <2>3 DEF Align
<1>2. ASSUME a % 8 = 0 PROVE Align(x, a) % 8 = 0
  <2> DEFINE q == (x + a - 1) \div a
  <2>1. q \in Nat
    OBVIOUS
  <2>2. Align(x, a) = q * a
    BY DEF Align
  <2> HIDE DEF q
  <2> QED BY <1>2, <2>1, <2>2, AlignedMultiple
<1> QED BY <1>1, <1>2

LEMMA AlignSize ==
    ASSUME NEW z \in Nat
    PROVE  (z % 8 = 0 => Align(z, 8) = z) /\ (z \in 1..8 => Align(z, 8) = 8)
BY DEF Align

\* The same number of registers used up, or all of them.
SameUse(x, y, limit) == x = y \/ (x >= limit /\ y >= limit)

\* Both sides count alike.
LEMMA CountAlike ==
    ASSUME NEW c \in AllCalls, GoodCall(c), NEW k \in 0..Len(c.args)
    PROVE  LET s == Counters(c)[k]
               t == CalleeCounters(c)[k]
           IN  /\ s.offset = t.offset /\ s.offset % 8 = 0
               /\ SameUse(s.ireg, t.ireg, MaxRegArgs)
               /\ SameUse(s.freg, t.freg, MaxFregArgs)
<1> DEFINE n == Len(c.args)
           T == {i \in Nat : i <= n =>
                   /\ Counters(c)[i].offset = CalleeCounters(c)[i].offset
                   /\ Counters(c)[i].offset % 8 = 0
                   /\ SameUse(Counters(c)[i].ireg, CalleeCounters(c)[i].ireg, MaxRegArgs)
                   /\ SameUse(Counters(c)[i].freg, CalleeCounters(c)[i].freg, MaxFregArgs)}
<1>1. n \in Nat /\ MaxRegArgs \in Nat /\ MaxFregArgs \in Nat
  BY CallTypes, CallAssumption
<1>2. 0 \in T
  <2>1. Counters(c)[0] = Start(c) /\ CalleeCounters(c)[0] = Start(c)
    BY CountersSteps, CalleeSteps
  <2> QED BY <2>1 DEF Start, SameUse
<1>3. ASSUME NEW m \in Nat, m < n, m \in T PROVE m + 1 \in T
  <2> DEFINE i == m + 1
             p == c.args[i]
             s == Counters(c)[m]
             t == CalleeCounters(c)[m]
             s1 == Counters(c)[i]
             t1 == CalleeCounters(c)[i]
  <2>1. i \in 1..n /\ i - 1 = m /\ m \in 0..n
    BY <1>1, <1>3
  <2>2. s \in Count /\ t \in Count /\ s1 = Counted(c, i, s) /\ t1 = CountedParam(c, i, t)
    BY <2>1, CountersSteps, CalleeSteps
  <2>3. /\ s.offset = t.offset /\ s.offset % 8 = 0
        /\ SameUse(s.ireg, t.ireg, MaxRegArgs) /\ SameUse(s.freg, t.freg, MaxFregArgs)
    BY <1>3
  <2>4. /\ p.cls \in {"int", "flo", "struct"} /\ p.size \in Nat /\ p.align \in Nat \ {0}
        /\ IF p.cls = "struct"
           THEN p.size % 8 = 0 /\ (8 % p.align = 0 \/ p.align % 8 = 0)
           ELSE p.size \in 1..8 /\ 8 % p.align = 0
    <3>1. p \in Range(c.args)
      BY <2>1, CallTypes DEF Range
    <3>2. /\ p.cls \in {"int", "flo", "struct"} /\ p.size \in Nat /\ p.align \in Nat \ {0}
      BY <2>1, CallTypes
    <3> QED BY <3>1, <3>2 DEF GoodCall, WORD
  <2> HIDE DEF p, i
  <2>5. InRegister(p, s) <=> InRegister(p, t)
    BY <1>1, <2>2, <2>3 DEF InRegister, SameUse, Count
  <2> DEFINE o == s.offset
             al == Align(o, p.align)
  <2>6. o \in Nat /\ o % 8 = 0
    BY <2>2, <2>3 DEF Count
  <2>7. /\ al \in Nat /\ al % 8 = 0
        /\ 8 % p.align = 0 => al = o
    <3> HIDE DEF o
    <3> QED BY <2>4, <2>6, AlignWords, AlignUp
  <2>8. /\ p.cls = "struct" => Align(p.size, 8) = p.size
        /\ p.cls # "struct" => Align(p.size, 8) = 8
    BY <2>4, AlignSize
  <2>9. s1.offset = t1.offset /\ s1.offset % 8 = 0
    <3>1. CASE p.cls = "struct"
      <4>1. ~InRegister(p, s)
        BY <3>1 DEF InRegister
      <4>2. s1.offset = al + p.size /\ t1.offset = al + p.size
        BY <2>2, <2>3, <2>8, <3>1, <4>1 DEF Counted, CountedParam, Count, WORD, p
      <4> DEFINE z == p.size
      <4>3. al \in Nat /\ al % 8 = 0 /\ z \in Nat /\ z % 8 = 0
        BY <2>4, <2>7, <3>1
      <4> HIDE DEF al, z
      <4>4. (al + z) % 8 = 0
        BY <4>3
      <4> QED BY <4>2, <4>4 DEF z
    <3>2. CASE p.cls # "struct" /\ InRegister(p, s)
      <4>1. s1.offset = o /\ t1.offset = o
        BY <2>2, <2>3, <2>5, <3>2 DEF Counted, CountedParam, Count, p
      <4> QED BY <2>6, <4>1
    <3>3. CASE p.cls # "struct" /\ ~InRegister(p, s)
      <4>1. s1.offset = al + 8 /\ t1.offset = o + 8
        BY <2>2, <2>3, <2>5, <2>8, <3>3 DEF Counted, CountedParam, Count, WORD, p
      <4>2. al = o
        BY <2>4, <2>7, <3>3
      <4> HIDE DEF al, o
      <4>3. (o + 8) % 8 = 0
        BY <2>6
      <4> QED BY <4>1, <4>2, <4>3
    <3> QED BY <3>1, <3>2, <3>3
  <2>10. SameUse(s1.ireg, t1.ireg, MaxRegArgs)
    <3>1. s1.ireg = IF p.cls = "int" /\ InRegister(p, s) THEN s.ireg + 1 ELSE s.ireg
      BY <2>2 DEF Counted, Count, p
    <3>2. t1.ireg = IF p.cls = "int" THEN t.ireg + 1 ELSE t.ireg
      BY <2>2 DEF CountedParam, Count, p
    <3>3. p.cls = "int" => (InRegister(p, s) <=> s.ireg < MaxRegArgs)
      BY DEF InRegister
    <3>4. s.ireg \in Nat /\ t.ireg \in Nat
      BY <2>2 DEF Count
    <3> DEFINE x == s.ireg
               y == t.ireg
    <3>5. x \in Nat /\ y \in Nat /\ SameUse(x, y, MaxRegArgs)
      BY <2>3, <3>4
    <3> HIDE DEF x, y
    <3>6. x < MaxRegArgs => SameUse(x + 1, y + 1, MaxRegArgs)
      BY <1>1, <3>5 DEF SameUse
    <3>7. ~(x < MaxRegArgs) => SameUse(x, y + 1, MaxRegArgs)
      BY <1>1, <3>5 DEF SameUse
    <3> QED BY <3>1, <3>2, <3>3, <3>5, <3>6, <3>7 DEF x, y
  <2>11. SameUse(s1.freg, t1.freg, MaxFregArgs)
    <3>1. s1.freg = IF p.cls = "flo" /\ InRegister(p, s) THEN s.freg + 1 ELSE s.freg
      BY <2>2 DEF Counted, Count, p
    <3>2. t1.freg = IF p.cls = "flo" THEN t.freg + 1 ELSE t.freg
      BY <2>2 DEF CountedParam, Count, p
    <3>3. p.cls = "flo" => (InRegister(p, s) <=> s.freg < MaxFregArgs)
      BY DEF InRegister
    <3>4. s.freg \in Nat /\ t.freg \in Nat
      BY <2>2 DEF Count
    <3> DEFINE x == s.freg
               y == t.freg
    <3>5. x \in Nat /\ y \in Nat /\ SameUse(x, y, MaxFregArgs)
      BY <2>3, <3>4
    <3> HIDE DEF x, y
    <3>6. x < MaxFregArgs => SameUse(x + 1, y + 1, MaxFregArgs)
      BY <1>1, <3>5 DEF SameUse
    <3>7. ~(x < MaxFregArgs) => SameUse(x, y + 1, MaxFregArgs)
      BY <1>1, <3>5 DEF SameUse
    <3> QED BY <3>1, <3>2, <3>3, <3>5, <3>6, <3>7 DEF x, y
  <2> QED BY <2>9, <2>10, <2>11 DEF i
<1> HIDE DEF T
<1>4. \A i \in 0..n : i \in T
  BY <1>1, <1>2, <1>3, Induct
<1>5. k \in T /\ k <= n
  BY <1>1, <1>4
<1> QED BY <1>5 DEF T

\* What the pops and the stores have put in place is where the callee looks.
LEMMA ParamsThere ==
    ASSUME Static, NEW id \in {1, 2}, NEW at \in Nat, NEW k \in Nat,
           NEW e \in Nat, NEW b \in Nat, NEW b1 \in Nat, At(id, at, "invoke", k, e, b, b1),
           GoodCall(call[id]), NEW j \in 1..Len(Args(id))
    PROVE  ParamArrives(id, call[id], j)
<1> DEFINE c == call[id]
           s == Counters(c)[j - 1]
           t == CalleeCounters(c)[j - 1]
           p == c.args[j]
<1>1. /\ Frames(id, at, e, b, b1) /\ StackAt(id, "invoke", k, e, b)
      /\ Placed(id, b, 0) /\ Popped(id) /\ c \in AllCalls
  <2>1. k = 0
    BY DEF At, PointOK
  <2>2. Placed(id, b, k) /\ Popped(id)
    BY DEF At, MemAt, RegsAt
  <2> QED BY <2>1, <2>2, StaticCalls DEF At, CallsOK
<1>2. rsp = -b
  BY <1>1 DEF StackAt
<1>3. j \in 1..Len(c.args) /\ j - 1 \in 0..Len(c.args) /\ j > 0
  BY <1>1, CallTypes DEF Args
<1>4. /\ s.offset = t.offset /\ s.offset % 8 = 0
      /\ SameUse(s.ireg, t.ireg, MaxRegArgs) /\ SameUse(s.freg, t.freg, MaxFregArgs)
  BY <1>1, <1>3, CountAlike
<1>5. s \in Count /\ t \in Count /\ (j \in RegArgs(c) <=> InRegister(p, s))
  BY <1>1, <1>3, CountersStep, CalleeSteps
<1>6. MaxRegArgs \in Nat /\ MaxFregArgs \in Nat
  BY CallAssumption
<1>7. InRegister(p, t) <=> InRegister(p, s)
  <2> HIDE DEF s, t, p
  <2> QED BY <1>4, <1>5, <1>6 DEF InRegister, SameUse, Count
<1>8. CASE InRegister(p, s)
  <2>1. Arg(id, j) = IF p.cls = "flo" THEN freg[s.freg] ELSE ireg[s.ireg]
    BY <1>1, <1>5, <1>8 DEF Popped, Args
  <2>2. /\ p.cls = "flo" => s.freg = t.freg
        /\ p.cls # "flo" => s.ireg = t.ireg
    <3> HIDE DEF s, t, p
    <3> QED BY <1>4, <1>5, <1>6, <1>8 DEF InRegister, SameUse, Count
  <2>3. Arg(id, j) = IF p.cls = "flo" THEN freg[t.freg] ELSE ireg[t.ireg]
    BY <2>1, <2>2
  <2> QED BY <1>7, <1>8, <2>3 DEF ParamArrives
<1>9. CASE ~InRegister(p, s)
  <2> DEFINE o == IF p.cls = "struct" THEN Align(t.offset, p.align) ELSE t.offset
  <2>1. j \notin RegArgs(c)
    BY <1>5, <1>9
  <2>2. PlaceOfArg(id, b, j) = StackOffset(c, j) - b /\ SizeOfArg(id, j) = p.size
    BY <2>1 DEF PlaceOfArg, SizeOfArg, Args
  <2>3. StackOffset(c, j) = Align(t.offset, p.align)
    BY <1>4 DEF StackOffset
  <2>4. StackOffset(c, j) = o
    <3>1. CASE p.cls = "struct"
      BY <2>3, <3>1
    <3>2. CASE p.cls # "struct"
      <4>1. p \in Range(c.args) /\ p.align \in Nat \ {0}
        <5>1. p.align \in Nat \ {0}
          BY <1>1, <1>3, CallTypes
        <5> QED BY <1>1, <1>3, <5>1, CallTypes DEF Range
      <4>2. 8 % p.align = 0
        BY <3>2, <4>1 DEF GoodCall, WORD
      <4>3. t.offset \in Nat /\ t.offset % 8 = 0
        BY <1>4, <1>5 DEF Count
      <4>4. Align(t.offset, p.align) = t.offset
        <5> DEFINE x == t.offset
                   a == p.align
        <5>1. x \in Nat /\ x % 8 = 0 /\ a \in Nat \ {0} /\ 8 % a = 0
          BY <4>1, <4>2, <4>3
        <5> HIDE DEF x, a
        <5>2. Align(x, a) = x
          BY <5>1, AlignWords
        <5> QED BY <5>2 DEF x, a
      <4> QED BY <2>3, <3>2, <4>4
    <3> QED BY <3>1, <3>2
  <2>5. StackOffset(c, j) \in Nat
    BY <1>1, <1>3, <2>1, RoomForArgs
  <2>6. rsp + o = PlaceOfArg(id, b, j)
    <3> DEFINE q == StackOffset(c, j)
    <3>1. q \in Nat /\ PlaceOfArg(id, b, j) = q - b /\ o = q
      BY <2>2, <2>4, <2>5
    <3> HIDE DEF q, o
    <3> QED BY <1>2, <3>1
  <2>7. HoldsAt(mem, PlaceOfArg(id, b, j), SizeOfArg(id, j), Arg(id, j))
    BY <1>1, <1>3 DEF Placed
  <2>8. \A a \in DOMAIN mem : (rsp + o <= a /\ a < rsp + o + p.size) => mem[a] = Arg(id, j)
    BY <2>2, <2>6, <2>7 DEF HoldsAt
  <2> QED BY <1>7, <1>9, <2>8 DEF ParamArrives
<1> QED BY <1>8, <1>9

\* At the call instruction every argument is where the callee looks for it,
\* be it in a register or on the stack, and the address for a struct result
\* too, for every call whose types line up: gen_funcall's layout, the stores
\* made relative to a moving stack pointer, an inner call in between, the
\* saved registers and the pops agree with prepare_register_allocation and
\* put_args_to_stack, which count for themselves.
THEOREM ArgumentsArrive == Spec => []((irs # << >> /\ GoodCall(Called)) => ArgsArrive)
<1>1. IInv => ((irs # << >> /\ GoodCall(Called)) => ArgsArrive)
  <2> SUFFICES ASSUME IInv, irs # << >>, GoodCall(Called), Ir.op = "INVOKE"
               PROVE  /\ \A j \in 1..Len(Called.args) : ParamArrives(Ir.id, Called, j)
                      /\ Called.ret_struct => ireg[0] = RetPtr(Ir.id)
    BY DEF ArgsArrive
  <2>1. Static
    BY DEF IInv
  <2>2. PICK id \in {1, 2}, st \in Stages, at \in Nat, k \in Nat, e \in Nat, b \in Nat, b1 \in Nat :
            At(id, at, st, k, e, b, b1)
    BY DEF IInv, Somewhere
  <2>3. st = "invoke" /\ Ir.id = id
    BY <2>1, <2>2, AtInvoke
  <2>4. Called = call[id] /\ Called.args = Args(id)
    BY <2>3 DEF Called, Args
  <2>5. At(id, at, "invoke", k, e, b, b1) /\ GoodCall(call[id])
    BY <2>2, <2>3, <2>4
  <2>6. \A j \in 1..Len(Args(id)) : ParamArrives(id, call[id], j)
    BY <2>1, <2>5, ParamsThere
  <2>7. Popped(id)
    BY <2>5 DEF At, RegsAt
  <2> QED BY <2>3, <2>4, <2>6, <2>7 DEF Popped
<1> QED BY <1>1, CallInvariant, PTL
=============================================================================
