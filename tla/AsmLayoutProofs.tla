--------------------------- MODULE AsmLayoutProofs --------------------------
(***************************************************************************)
(* The three computations of the places in a file agree, for all programs, *)
(* sizes and alignments that fit, for executables and for object files:    *)
(* what is aligned stays aligned in memory, the buffers hold every item    *)
(* where its label says, the headers map the file to the addresses, and    *)
(* every operand leads to its label after loading or linking.              *)
(*                                                                         *)
(* The argument: nothing is emitted before addresses have been computed    *)
(* from the final alignments and the final lengths of all jumps (IInv).    *)
(* A section starts at a multiple of every alignment in it, so its items   *)
(* lie at the same distances from its start wherever it is put.            *)
(***************************************************************************)
EXTENDS AsmLayout, WellFoundedInduction, TLAPS

-----------------------------------------------------------------------------
(* Arithmetic of ALIGN                                                     *)

Divides(a, x) == \E q \in Int : x = q * a

LEMMA DividesMod == ASSUME NEW x \in Int, NEW a \in Nat \ {0} PROVE x % a = 0 <=> Divides(a, x)
<1>1. x % a = 0 => Divides(a, x)
  BY DEF Divides
<1>2. ASSUME NEW q \in Int, x = q * a PROVE x % a = 0
  BY <1>2
<1> QED BY <1>1, <1>2 DEF Divides

LEMMA DividesOne == ASSUME NEW x \in Int PROVE Divides(1, x)
BY DEF Divides

LEMMA DividesSum ==
    ASSUME NEW x \in Int, NEW y \in Int, NEW a \in Nat \ {0}, Divides(a, x), Divides(a, y)
    PROVE  Divides(a, x + y)
<1>1. PICK q \in Int : x = q * a
  BY DEF Divides
<1>2. PICK r \in Int : y = r * a
  BY DEF Divides
<1>3. q + r \in Int /\ x + y = (q + r) * a
  BY <1>1, <1>2
<1> QED BY <1>3 DEF Divides

LEMMA DividesProduct ==
    ASSUME NEW n \in Int, NEW x \in Int, NEW a \in Nat \ {0}, Divides(a, x)
    PROVE  Divides(a, n * x)
<1>1. PICK q \in Int : x = q * a
  BY DEF Divides
<1>2. n * q \in Int /\ n * x = (n * q) * a
  BY <1>1
<1> QED BY <1>2 DEF Divides

LEMMA DividesTrans ==
    ASSUME NEW x \in Int, NEW a \in Nat \ {0}, NEW b \in Nat \ {0}, Divides(a, b), Divides(b, x)
    PROVE  Divides(a, x)
<1>1. PICK q \in Int : x = q * b
  BY DEF Divides
<1>2. b \in Int
  OBVIOUS
<1>3. Divides(a, q * b)
  BY <1>2, DividesProduct
<1> QED BY <1>1, <1>3

LEMMA AlignProperties ==
    ASSUME NEW x \in Int, NEW a \in Nat \ {0}
    PROVE  /\ Align(x, a) \in Int /\ x <= Align(x, a) /\ Align(x, a) < x + a
           /\ Divides(a, Align(x, a))
BY DEF Align, Divides

LEMMA OneMultiple ==
    ASSUME NEW x \in Int, NEW a \in Nat \ {0}, NEW y \in Int, NEW z \in Int,
           Divides(a, y), Divides(a, z), x <= y, y < x + a, x <= z, z < x + a
    PROVE  y = z
<1>1. PICK q \in Int : y = q * a
  BY DEF Divides
<1>2. PICK r \in Int : z = r * a
  BY DEF Divides
<1>3. q * a < r * a + a /\ r * a < q * a + a
  BY <1>1, <1>2
<1>4. q <= r /\ r <= q
  <2>1. ASSUME NEW m \in Int, NEW n \in Int, m * a < n * a + a PROVE m <= n
    BY <2>1
  <2> QED BY <1>3, <2>1
<1> QED BY <1>1, <1>2, <1>4

LEMMA AlignIs ==
    ASSUME NEW x \in Int, NEW a \in Nat \ {0}, NEW y \in Int,
           Divides(a, y), x <= y, y < x + a
    PROVE  Align(x, a) = y
BY AlignProperties, OneMultiple

LEMMA AlignShift ==
    ASSUME NEW x \in Int, NEW y \in Int, NEW a \in Nat \ {0}, Divides(a, x)
    PROVE  Align(x + y, a) = x + Align(y, a)
<1>1. /\ Align(y, a) \in Int /\ y <= Align(y, a) /\ Align(y, a) < y + a
      /\ Divides(a, Align(y, a))
  BY AlignProperties
<1>2. Divides(a, x + Align(y, a))
  BY <1>1, DividesSum
<1>3. x + y \in Int /\ x + Align(y, a) \in Int
      /\ x + y <= x + Align(y, a) /\ x + Align(y, a) < (x + y) + a
  BY <1>1
<1> QED BY <1>2, <1>3, AlignIs

LEMMA AlignAligned ==
    ASSUME NEW x \in Int, NEW a \in Nat \ {0}, Divides(a, x) PROVE Align(x, a) = x
BY AlignIs

LEMMA AlignTwice ==
    ASSUME NEW x \in Int, NEW a \in Nat \ {0}, NEW b \in Nat \ {0}, Divides(a, b)
    PROVE  Align(Align(x, a), b) = Align(x, b)
<1> DEFINE y == Align(x, a)
           z == Align(y, b)
<1>1. y \in Int /\ x <= y /\ y < x + a /\ Divides(a, y)
  BY AlignProperties
<1>2. z \in Int /\ y <= z /\ z < y + b /\ Divides(b, z)
  BY <1>1, AlignProperties
<1>3. z < x + b
  <2>1. SUFFICES ASSUME z >= x + b PROVE FALSE
    BY <1>1, <1>2
  <2>2. Divides(a, z - b)
    <3>1. Divides(a, z)
      BY <1>2, DividesTrans
    <3>2. Divides(a, -1 * b)
      BY DividesProduct
    <3>3. z - b = z + (-1 * b) /\ -1 * b \in Int
      BY <1>2
    <3> QED BY <1>2, <3>1, <3>2, <3>3, DividesSum
  <2>3. PICK q \in Int : y = q * a
    BY <1>1 DEF Divides
  <2>4. PICK r \in Int : z - b = r * a
    BY <2>2 DEF Divides
  <2>5. q * a < r * a + a
    BY <1>1, <1>2, <2>1, <2>3, <2>4
  <2>6. q <= r
    BY <2>5
  <2>7. q * a <= r * a
    BY <2>6
  <2> QED BY <1>1, <1>2, <2>3, <2>4, <2>7
<1>4. x <= z
  BY <1>1, <1>2
<1> HIDE DEF y, z
<1>5. Align(x, b) = z
  BY <1>2, <1>3, <1>4, AlignIs
<1> QED BY <1>5 DEF y, z

-----------------------------------------------------------------------------
(* Induction, by the least counterexample                                  *)

LEMMA Least == ASSUME NEW S \in SUBSET Nat, S # {} PROVE \E n \in S : \A m \in S : n <= m
<1>1. IsWellFoundedOn(OpToRel(<, Nat), Nat)
  BY NatLessThanWellFounded
<1>2. PICK n \in S : \A m \in S : ~(<<m, n>> \in OpToRel(<, Nat))
  BY <1>1, WFMin
<1>3. ASSUME NEW m \in S PROVE n <= m
  <2>1. m \in Nat /\ n \in Nat
    OBVIOUS
  <2>2. ~(m < n)
    BY <1>2, <2>1 DEF OpToRel
  <2> QED BY <2>1, <2>2
<1> QED
  BY <1>3

LEMMA Induct ==
    ASSUME NEW S, NEW limit \in Nat, 0 \in S,
           \A n \in Nat : (n < limit /\ n \in S) => n + 1 \in S
    PROVE  \A n \in 0..limit : n \in S
<1> DEFINE Bad == {n \in Nat : n <= limit /\ n \notin S}
<1>1. SUFFICES ASSUME Bad # {} PROVE FALSE
  OBVIOUS
<1>2. Bad \in SUBSET Nat
  OBVIOUS
<1> HIDE DEF Bad
<1>3. PICK n \in Bad : \A m \in Bad : n <= m
  BY <1>1, <1>2, Least
<1>4. n \in Nat /\ n <= limit /\ n \notin S
  BY DEF Bad
<1>5. n # 0
  BY <1>4
<1>6. n - 1 \in Nat /\ n - 1 < limit /\ n - 1 \notin Bad /\ (n - 1) + 1 = n
  BY <1>3, <1>4, <1>5
<1>7. n - 1 \in S
  BY <1>4, <1>6 DEF Bad
<1>8. (n - 1) + 1 \in S
  BY <1>6, <1>7
<1> QED BY <1>4, <1>6, <1>8

-----------------------------------------------------------------------------
(* The places of the items of a section                                    *)

IrsType == SectionIrs(section_irs)

LEMMA ItemsType ==
    ASSUME IrsType, NEW s \in Sections
    PROVE  /\ Len(section_irs[s]) \in Nat
           /\ DOMAIN section_irs[s] = 1..Len(section_irs[s])
           /\ \A i \in 1..Len(section_irs[s]) :
                 /\ <<s, i>> \in Items /\ Ir(<<s, i>>).size \in Nat
                 /\ Ir(<<s, i>>).kind = "align" =>
                       Ir(<<s, i>>).size \in Alignments(s) /\ Ir(<<s, i>>).size \in Nat \ {0}
<1>1. /\ section_irs[s] \in Seq(Range(section_irs[s]))
      /\ \A ir \in Range(section_irs[s]) :
            ir.size \in Nat /\ (ir.kind = "align" => ir.size > 0)
  BY DEF IrsType, SectionIrs, WellFormed
<1>2. Len(section_irs[s]) \in Nat /\ DOMAIN section_irs[s] = 1..Len(section_irs[s])
  BY <1>1
<1>3. ASSUME NEW i \in 1..Len(section_irs[s])
      PROVE  /\ <<s, i>> \in Items /\ Ir(<<s, i>>).size \in Nat
             /\ Ir(<<s, i>>).kind = "align" =>
                   Ir(<<s, i>>).size \in Alignments(s) /\ Ir(<<s, i>>).size \in Nat \ {0}
  <2>1. <<s, i>> \in Items
    BY <1>2 DEF Items
  <2>2. Ir(<<s, i>>) = section_irs[s][i]
    BY DEF Ir
  <2>3. section_irs[s][i] \in Range(section_irs[s])
    BY <1>2 DEF Range
  <2>4. Ir(<<s, i>>).size \in Nat /\ (Ir(<<s, i>>).kind = "align" => Ir(<<s, i>>).size > 0)
    BY <1>1, <2>2, <2>3
  <2>5. Ir(<<s, i>>).kind = "align" => Ir(<<s, i>>).size \in Alignments(s)
    BY <2>1 DEF Alignments
  <2> QED BY <2>1, <2>4, <2>5
<1> QED BY <1>2, <1>3

LEMMA ItemIs ==
    ASSUME IrsType, NEW p \in Items
    PROVE  /\ p[1] \in Sections /\ p[2] \in 1..Len(section_irs[p[1]]) /\ p = <<p[1], p[2]>>
           /\ p[2] \in Nat /\ Len(section_irs[p[1]]) \in Nat
           /\ p[2] \in 0..Len(section_irs[p[1]]) /\ p[2] - 1 \in 0..Len(section_irs[p[1]])
<1>1. PICK s \in Sections : p \in {s} \X DOMAIN section_irs[s]
  BY DEF Items
<1>2. p[1] = s /\ p[2] \in DOMAIN section_irs[s] /\ p = <<p[1], p[2]>>
  BY <1>1
<1> QED BY <1>2, ItemsType

\* The addresses after the items of a section, one step after the other.
AfterNext(s, length, i, x) ==
    IF Ir(<<s, i>>).kind = "align" THEN Align(x, Ir(<<s, i>>).size) ELSE x + length[<<s, i>>]
AfterFrom(h, s, start, length, limit) ==
    h = [i \in 0..limit |-> IF i = 0 THEN start
                            ELSE IF Ir(<<s, i>>).kind = "align"
                                 THEN Align(h[i - 1], Ir(<<s, i>>).size)
                                 ELSE h[i - 1] + length[<<s, i>>]]

LEMMA AfterExists ==
    ASSUME NEW s, NEW start, NEW length, NEW limit \in Nat
    PROVE  \E h : AfterFrom(h, s, start, length, limit)
<1> DEFINE S == {n \in Nat : \E h : AfterFrom(h, s, start, length, n)}
<1>1. 0 \in S
  <2>1. AfterFrom([i \in 0..0 |-> start], s, start, length, 0)
    BY DEF AfterFrom
  <2> QED BY <2>1
<1>2. ASSUME NEW n \in Nat, n \in S PROVE n + 1 \in S
  <2>1. PICK h : AfterFrom(h, s, start, length, n)
    BY <1>2
  <2> DEFINE g == [i \in 0 .. (n + 1) |-> IF i = n + 1 THEN AfterNext(s, length, i, h[n]) ELSE h[i]]
  <2>2. ASSUME NEW i \in 0 .. (n + 1)
        PROVE  g[i] = IF i = 0 THEN start
                      ELSE IF Ir(<<s, i>>).kind = "align"
                           THEN Align(g[i - 1], Ir(<<s, i>>).size)
                           ELSE g[i - 1] + length[<<s, i>>]
    <3>1. CASE i = n + 1
      <4>1. g[n] = h[n] /\ i - 1 = n /\ i # 0
        BY <3>1
      <4> QED BY <3>1, <4>1 DEF AfterNext
    <3>2. CASE i = 0
      <4>1. h[0] = start
        BY <2>1 DEF AfterFrom
      <4> QED BY <3>2, <4>1
    <3>3. CASE i # 0 /\ i # n + 1
      <4>1. i \in 0..n /\ i - 1 \in 0 .. (n + 1) /\ i - 1 # n + 1
        BY <3>3
      <4>2. h[i] = IF Ir(<<s, i>>).kind = "align" THEN Align(h[i - 1], Ir(<<s, i>>).size)
                   ELSE h[i - 1] + length[<<s, i>>]
        BY <2>1, <3>3, <4>1 DEF AfterFrom
      <4>3. g[i] = h[i] /\ g[i - 1] = h[i - 1]
        BY <3>3, <4>1
      <4> QED BY <3>3, <4>2, <4>3
    <3> QED BY <3>1, <3>2, <3>3
  <2>3. AfterFrom(g, s, start, length, n + 1)
    BY <2>2 DEF AfterFrom
  <2> QED BY <2>3
<1> HIDE DEF S
<1>3. \A n \in Nat : (n < limit /\ n \in S) => n + 1 \in S
  BY <1>2
<1>4. \A n \in 0..limit : n \in S
  BY <1>1, <1>3, Induct
<1>5. limit \in S
  BY <1>4
<1> QED BY <1>5 DEF S

LEMMA AfterSteps ==
    ASSUME IrsType, NEW s \in Sections, NEW start, NEW length
    PROVE  /\ After(s, start, length)[0] = start
           /\ \A i \in 1..Len(section_irs[s]) :
                After(s, start, length)[i] =
                    AfterNext(s, length, i, After(s, start, length)[i - 1])
<1>1. Len(section_irs[s]) \in Nat
  BY ItemsType
<1>2. AfterFrom(After(s, start, length), s, start, length, Len(section_irs[s]))
  <2>1. PICK h : AfterFrom(h, s, start, length, Len(section_irs[s]))
    BY <1>1, AfterExists
  <2> QED BY <2>1 DEF After, AfterFrom
<1>3. 0 \in 0..Len(section_irs[s])
      /\ \A i \in 1..Len(section_irs[s]) : i \in 0..Len(section_irs[s]) /\ i # 0
  BY <1>1
<1> QED BY <1>2, <1>3 DEF AfterFrom, AfterNext

LEMMA NextType ==
    ASSUME IrsType, NEW s \in Sections, NEW length \in [Items -> Nat],
           NEW i \in 1..Len(section_irs[s]), NEW x \in Int
    PROVE  AfterNext(s, length, i, x) \in Int /\ x <= AfterNext(s, length, i, x)
<1>1. /\ <<s, i>> \in Items /\ length[<<s, i>>] \in Nat
      /\ Ir(<<s, i>>).kind = "align" => Ir(<<s, i>>).size \in Nat \ {0}
  BY ItemsType
<1>2. CASE Ir(<<s, i>>).kind = "align"
  BY <1>1, <1>2, AlignProperties DEF AfterNext
<1>3. CASE Ir(<<s, i>>).kind # "align"
  BY <1>1, <1>3 DEF AfterNext
<1> QED BY <1>2, <1>3

LEMMA AfterType ==
    ASSUME IrsType, NEW s \in Sections, NEW start \in Int, NEW length \in [Items -> Nat]
    PROVE  /\ \A i \in 0..Len(section_irs[s]) : After(s, start, length)[i] \in Int
           /\ \A i, j \in 0..Len(section_irs[s]) :
                 i <= j => After(s, start, length)[i] <= After(s, start, length)[j]
<1> DEFINE h == After(s, start, length)
           n == Len(section_irs[s])
           S == {j \in Nat : h[j] \in Int /\ \A i \in 0..j : h[i] \in Int /\ h[i] <= h[j]}
<1>1. n \in Nat
  BY ItemsType
<1>2. h[0] = start /\ \A i \in 1..n : h[i] = AfterNext(s, length, i, h[i - 1])
  BY AfterSteps
<1>3. \A i \in 1..n, x \in Int : AfterNext(s, length, i, x) \in Int /\ x <= AfterNext(s, length, i, x)
  BY NextType
<1> HIDE DEF h, n
<1>4. 0 \in S
  BY <1>2
<1>5. ASSUME NEW j \in Nat, j < n, j \in S PROVE j + 1 \in S
  <2>1. j + 1 \in 1..n /\ (j + 1) - 1 = j
    BY <1>1, <1>5
  <2>2. h[j + 1] \in Int /\ h[j] \in Int /\ h[j] <= h[j + 1]
    BY <1>2, <1>3, <1>5, <2>1
  <2>3. ASSUME NEW i \in 0 .. (j + 1) PROVE h[i] \in Int /\ h[i] <= h[j + 1]
    <3>1. i = j + 1 \/ i \in 0..j
      BY <1>5
    <3>2. i \in 0..j => h[i] \in Int /\ h[i] <= h[j]
      BY <1>5
    <3> QED BY <2>2, <3>1, <3>2
  <2> QED BY <2>2, <2>3
<1> HIDE DEF S
<1>6. \A j \in 0..n : j \in S
  BY <1>1, <1>4, <1>5, Induct
<1>7. ASSUME NEW i \in 0..n, NEW j \in 0..n, i <= j PROVE h[i] \in Int /\ h[i] <= h[j]
  <2>1. i \in 0..j /\ j \in S
    BY <1>1, <1>6, <1>7
  <2> QED BY <2>1 DEF S
<1>8. \A i \in 0..n : h[i] \in Int
  BY <1>6 DEF S
<1> QED BY <1>7, <1>8 DEF h, n

\* From a place where every alignment of the section is kept, all items lie
\* at the distances they have from 0.
LEMMA AfterShift ==
    ASSUME IrsType, NEW s \in Sections, NEW start \in Int, NEW length \in [Items -> Nat],
           \A a \in Alignments(s) : Divides(a, start)
    PROVE  \A i \in 0..Len(section_irs[s]) :
              After(s, start, length)[i] = start + After(s, 0, length)[i]
<1> DEFINE h == After(s, start, length)
           g == After(s, 0, length)
           n == Len(section_irs[s])
           S == {j \in Nat : h[j] = start + g[j]}
<1>1. n \in Nat
  BY ItemsType
<1>2. /\ h[0] = start /\ \A i \in 1..n : h[i] = AfterNext(s, length, i, h[i - 1])
      /\ g[0] = 0 /\ \A i \in 1..n : g[i] = AfterNext(s, length, i, g[i - 1])
  BY AfterSteps
<1>3. \A i \in 0..n : g[i] \in Int
  <2>1. 0 \in Int
    OBVIOUS
  <2> QED BY <2>1, AfterType
<1>4. ASSUME NEW i \in 1..n, NEW x \in Int
      PROVE  AfterNext(s, length, i, start + x) = start + AfterNext(s, length, i, x)
  <2>1. /\ <<s, i>> \in Items /\ length[<<s, i>>] \in Nat
        /\ Ir(<<s, i>>).kind = "align" =>
              Ir(<<s, i>>).size \in Nat \ {0} /\ Ir(<<s, i>>).size \in Alignments(s)
    BY ItemsType
  <2>2. CASE Ir(<<s, i>>).kind = "align"
    BY <2>1, <2>2, AlignShift DEF AfterNext
  <2>3. CASE Ir(<<s, i>>).kind # "align"
    BY <2>1, <2>3 DEF AfterNext
  <2> QED BY <2>2, <2>3
<1> HIDE DEF h, g, n
<1>5. 0 \in S
  BY <1>2
<1>6. ASSUME NEW j \in Nat, j < n, j \in S PROVE j + 1 \in S
  <2>1. j + 1 \in 1..n /\ (j + 1) - 1 = j /\ j \in 0..n
    BY <1>1, <1>6
  <2>2. h[j] = start + g[j] /\ g[j] \in Int
    BY <1>3, <1>6, <2>1
  <2>3. h[j + 1] = start + g[j + 1]
    BY <1>2, <1>4, <2>1, <2>2
  <2> QED BY <2>3
<1> HIDE DEF S
<1>7. \A j \in 0..n : j \in S
  BY <1>1, <1>5, <1>6, Induct
<1> QED BY <1>7 DEF S, h, g, n

-----------------------------------------------------------------------------
(* Types, and what has been computed when                                  *)

StartAlign(s) == IF s = DataSec /\ ~out_obj THEN DataAlign ELSE 0

\* The alignment of a section is one that is asked for.
AlignsKnown ==
    \A s \in Sections :
        /\ section_aligns[s] \in {StartAlign(s)} \cup Alignments(s)
        /\ StartAlign(s) <= section_aligns[s]

Calculated ==
    address = [p \in Items |-> Place(p, After(p[1], section_start_addresses[p[1]], Sizes))]
Final == Calculated /\ AlignsSettled /\ section_start_addresses = Starts

Resolved ==
    /\ Upgraded = {} /\ ~Undefined
    /\ unresolved = IF out_obj THEN LeftOver ELSE {}
    /\ \A p \in Operands : PutNow(p) => operand[p] = Relative(p)

Buffered ==
    /\ offset = [p \in Items |-> Place(p, After(p[1], 0, EmittedSizes))]
    /\ size = [s \in Sections |-> After(s, 0, EmittedSizes)[Len(section_irs[s])]]
    /\ \A p \in Operands : (Absolute(p) /\ Defined(Ir(p).label)) => operand[p] = Target(p)

IInv ==
    /\ TypeOK /\ AlignsKnown
    /\ status = "written" => pc = "end"
    /\ pc = "resolve" => Calculated /\ (settle1 => Final)
    /\ pc \in {"emit", "fix"} \/ status = "written" => Final /\ Resolved
    /\ pc = "fix" \/ status = "written" => Buffered
    /\ status = "written" => start_address = FixedStarts

LEMMA IrsTyped == ASSUME TypeOK PROVE IrsType
BY DEF TypeOK, IrsType

LEMMA SizesType ==
    ASSUME IrsType
    PROVE  /\ Sizes \in [Items -> Nat] /\ EmittedSizes \in [Items -> Nat]
           /\ \A p \in Items : Sizes[p] = Size(p)
<1>1. ASSUME NEW p \in Items PROVE Size(p) \in Nat
  <2>1. Ir(p).size \in Nat
    <3>1. p[1] \in Sections /\ p[2] \in 1..Len(section_irs[p[1]]) /\ p = <<p[1], p[2]>>
      BY ItemIs
    <3>2. Ir(<<p[1], p[2]>>).size \in Nat
      BY <3>1, ItemsType
    <3> QED BY <3>1, <3>2
  <2>2. \A x \in DOMAIN FixedSize : FixedSize[x] \in Nat
    BY DEF FixedSize
  <2> QED BY <2>1, <2>2 DEF Size
<1> QED BY <1>1 DEF Sizes, EmittedSizes

LEMMA AlignedToType ==
    ASSUME NEW x \in Int, NEW a \in Nat
    PROVE  AlignedTo(x, a) \in Int /\ x <= AlignedTo(x, a)
           /\ (a > 0 => Divides(a, AlignedTo(x, a)))
<1>1. CASE a > 1
  BY <1>1, AlignProperties DEF AlignedTo
<1>2. CASE ~(a > 1)
  <2>1. AlignedTo(x, a) = x /\ (a > 0 => a = 1)
    BY <1>2 DEF AlignedTo
  <2> QED BY <2>1, DividesOne
<1> QED BY <1>1, <1>2

StartFrom(h, s) ==
    AlignedTo(IF s = Code THEN LoadAddress
              ELSE After(s - 1, h[s - 1], Sizes)[Len(section_irs[s - 1])],
              section_aligns[s])
StartsFrom(h) ==
    h = [s \in Sections |->
            AlignedTo(IF s = Code THEN LoadAddress
                      ELSE After(s - 1, h[s - 1], Sizes)[Len(section_irs[s - 1])],
                      section_aligns[s])]

LEMMA StartsExists == \E h : StartsFrom(h)
<1> DEFINE Next0(s, x) == AlignedTo(After(s - 1, x, Sizes)[Len(section_irs[s - 1])], section_aligns[s])
           x0 == AlignedTo(LoadAddress, section_aligns[0])
           x1 == Next0(1, x0)
           x2 == Next0(2, x1)
           x3 == Next0(3, x2)
           h == [s \in Sections |-> IF s = 0 THEN x0 ELSE IF s = 1 THEN x1 ELSE IF s = 2 THEN x2 ELSE x3]
<1>1. Sections = {0, 1, 2, 3} /\ Code = 0
  BY DEF Sections, Code, Bss
<1>2. x1 = Next0(1, x0) /\ x2 = Next0(2, x1) /\ x3 = Next0(3, x2)
  OBVIOUS
<1>3. \A s \in Sections : s # 0 => StartFrom(h, s) = Next0(s, h[s - 1])
  BY <1>1 DEF StartFrom
<1>4. StartFrom(h, 0) = x0
  BY <1>1 DEF StartFrom
<1> HIDE DEF Next0, x0, x1, x2, x3
<1>5. h[0] = x0 /\ h[1] = x1 /\ h[2] = x2 /\ h[3] = x3
  BY <1>1
<1>6. 1 - 1 = 0 /\ 2 - 1 = 1 /\ 3 - 1 = 2
  OBVIOUS
<1> HIDE DEF h
<1>7. \A s \in Sections : StartFrom(h, s) = h[s]
  BY <1>1, <1>2, <1>3, <1>4, <1>5, <1>6
<1>8. h = [s \in Sections |-> StartFrom(h, s)]
  BY <1>7 DEF h
<1> QED BY <1>8 DEF StartsFrom, StartFrom

LEMMA StartsSteps ==
    ASSUME TypeOK
    PROVE  /\ Starts \in [Sections -> Int]
           /\ Starts[Code] = AlignedTo(LoadAddress, section_aligns[Code])
           /\ \A s \in {RoData, DataSec, Bss} :
                 Starts[s] = AlignedTo(After(s - 1, Starts[s - 1], Sizes)[Len(section_irs[s - 1])],
                                       section_aligns[s])
<1>1. Sections = {0, 1, 2, 3} /\ Code = 0 /\ RoData = 1 /\ DataSec = 2 /\ Bss = 3
  BY DEF Sections, Code, Bss, RoData, DataSec
<1>2. StartsFrom(Starts)
  <2>1. PICK h : StartsFrom(h)
    BY StartsExists
  <2> QED BY <2>1 DEF Starts, StartsFrom
<1>3. /\ Starts[0] = AlignedTo(LoadAddress, section_aligns[0])
      /\ \A s \in {1, 2, 3} :
            Starts[s] = AlignedTo(After(s - 1, Starts[s - 1], Sizes)[Len(section_irs[s - 1])],
                                  section_aligns[s])
      /\ DOMAIN Starts = Sections /\ Starts = [s \in Sections |-> Starts[s]]
  BY <1>1, <1>2 DEF StartsFrom
<1>4. IrsType /\ Sizes \in [Items -> Nat]
  BY IrsTyped, SizesType
<1>5. \A s \in Sections : section_aligns[s] \in Nat
  BY DEF TypeOK
<1>6. Starts[0] \in Int
  <2>1. LoadAddress \in Int /\ section_aligns[0] \in Nat
    BY <1>1, <1>5, LayoutAssumption
  <2> QED BY <1>3, <2>1, AlignedToType
<1>7. ASSUME NEW s \in {1, 2, 3}, Starts[s - 1] \in Int PROVE Starts[s] \in Int
  <2>1. s - 1 \in Sections /\ s \in Sections
    BY <1>1
  <2>2. Len(section_irs[s - 1]) \in 0..Len(section_irs[s - 1])
    BY <1>4, <2>1, ItemsType
  <2>3. After(s - 1, Starts[s - 1], Sizes)[Len(section_irs[s - 1])] \in Int
    BY <1>4, <1>7, <2>1, <2>2, AfterType
  <2> QED BY <1>3, <1>5, <2>1, <2>3, AlignedToType
<1>8. 1 - 1 = 0 /\ 2 - 1 = 1 /\ 3 - 1 = 2
  OBVIOUS
<1>9. Starts[1] \in Int /\ Starts[2] \in Int /\ Starts[3] \in Int
  <2>1. Starts[1] \in Int
    BY <1>6, <1>7, <1>8
  <2>2. Starts[2] \in Int
    BY <1>7, <1>8, <2>1
  <2>3. Starts[3] \in Int
    BY <1>7, <1>8, <2>2
  <2> QED BY <2>1, <2>2, <2>3
<1>10. Starts \in [Sections -> Int]
  BY <1>1, <1>3, <1>6, <1>9
<1> QED BY <1>1, <1>3, <1>10

\* The largest alignment exists.
LEMMA MaxIs ==
    ASSUME NEW S \in SUBSET Int, NEW m \in S, \A x \in S : x <= m
    PROVE  Max(S) = m
<1>1. \A x \in S : m >= x
  OBVIOUS
<1>2. Max(S) \in S /\ \A x \in S : Max(S) >= x
  BY <1>1 DEF Max
<1>3. Max(S) \in Int /\ m \in Int /\ Max(S) >= m /\ Max(S) <= m
  BY <1>2
<1> QED BY <1>3

LEMMA AlignmentsType ==
    ASSUME IrsType, NEW s \in Sections
    PROVE  /\ Alignments(s) \in SUBSET (Nat \ {0})
           /\ \A x \in Nat : \E m \in {x} \cup Alignments(s) :
                 \A y \in {x} \cup Alignments(s) : y <= m
<1>1. ASSUME NEW a \in Alignments(s)
      PROVE  \E i \in 1..Len(section_irs[s]) :
                 Ir(<<s, i>>).kind = "align" /\ a = Ir(<<s, i>>).size
  <2>1. PICK p \in Items : p[1] = s /\ Ir(p).kind = "align" /\ a = Ir(p).size
    BY DEF Alignments
  <2>2. p = <<s, p[2]>> /\ p[2] \in 1..Len(section_irs[s])
    BY <2>1, ItemIs
  <2> QED BY <2>1, <2>2
<1>2. Alignments(s) \in SUBSET (Nat \ {0})
  BY <1>1, ItemsType
<1>3. ASSUME NEW x \in Nat
      PROVE  \E m \in {x} \cup Alignments(s) : \A y \in {x} \cup Alignments(s) : y <= m
  <2> DEFINE n == Len(section_irs[s])
             Seen(j, y) == \/ y = x
                           \/ \E i \in 1..j : Ir(<<s, i>>).kind = "align" /\ y = Ir(<<s, i>>).size
             S == {j \in Nat : j <= n => \E m \in Nat : Seen(j, m) /\ \A y : Seen(j, y) => y <= m}
  <2>1. n \in Nat /\ \A i \in 1..n : Ir(<<s, i>>).size \in Nat
    BY ItemsType
  <2>2. \A y : y \in {x} \cup Alignments(s) <=> Seen(n, y)
    <3>1. \A i \in 1..n : Ir(<<s, i>>).kind = "align" => Ir(<<s, i>>).size \in Alignments(s)
      BY ItemsType
    <3> QED BY <1>1, <3>1
  <2> HIDE DEF n
  <2>3. 0 \in S
    <3>1. Seen(0, x) /\ \A y : Seen(0, y) => y = x
      OBVIOUS
    <3> HIDE DEF Seen
    <3> QED BY <3>1
  <2>4. ASSUME NEW j \in Nat, j < n, j \in S PROVE j + 1 \in S
    <3>1. PICK m \in Nat : Seen(j, m) /\ \A y : Seen(j, y) => y <= m
      BY <2>1, <2>4
    <3>2. j + 1 \in 1..n
      BY <2>1, <2>4
    <3> DEFINE b == Ir(<<s, j + 1>>).size
    <3>3. b \in Nat
      BY <2>1, <3>2
    <3>4. ASSUME NEW y PROVE Seen(j + 1, y) <=> (Seen(j, y) \/ (Ir(<<s, j + 1>>).kind = "align" /\ y = b))
      <4>1. \A i : i \in 1 .. (j + 1) <=> (i \in 1..j \/ i = j + 1)
        OBVIOUS
      <4> QED BY <4>1
    <3> HIDE DEF Seen, b
    <3>5. CASE Ir(<<s, j + 1>>).kind = "align" /\ m < b
      <4>1. Seen(j + 1, b) /\ \A y : Seen(j + 1, y) => y <= m \/ y = b
        BY <3>1, <3>4, <3>5
      <4>2. ASSUME NEW y, Seen(j, y) PROVE y \in Nat
        <5>1. \A i \in 1..j : i \in 1..n
          BY <2>1, <2>4
        <5>2. y = x \/ \E i \in 1..j : y = Ir(<<s, i>>).size
          BY <4>2 DEF Seen
        <5> QED BY <2>1, <5>1, <5>2
      <4>3. ASSUME NEW y, Seen(j + 1, y) PROVE y <= b
        <5>1. y = b \/ (y \in Nat /\ y <= m)
          BY <3>1, <3>4, <4>2, <4>3
        <5> QED BY <3>3, <3>5, <5>1
      <4> QED BY <3>3, <4>1, <4>3
    <3>6. CASE ~(Ir(<<s, j + 1>>).kind = "align" /\ m < b)
      <4>1. Seen(j + 1, m)
        BY <3>1, <3>4
      <4>2. ASSUME NEW y, Seen(j + 1, y) PROVE y <= m
        <5>1. Seen(j, y) \/ (Ir(<<s, j + 1>>).kind = "align" /\ y = b)
          BY <3>4, <4>2
        <5> QED BY <3>1, <3>3, <3>6, <5>1
      <4> QED BY <4>1, <4>2
    <3> QED BY <3>5, <3>6
  <2> HIDE DEF S
  <2>5. \A j \in 0..n : j \in S
    BY <2>1, <2>3, <2>4, Induct
  <2>6. n \in S
    BY <2>1, <2>5
  <2> HIDE DEF Seen
  <2>7. PICK m \in Nat : Seen(n, m) /\ \A y : Seen(n, y) => y <= m
    BY <2>1, <2>6 DEF S
  <2> QED BY <2>2, <2>7
<1> QED BY <1>2, <1>3

LEMMA AlignsProperties ==
    ASSUME TypeOK, NEW s \in Sections
    PROVE  /\ Aligns[s] \in {section_aligns[s]} \cup Alignments(s) /\ Aligns[s] \in Nat
           /\ \A a \in {section_aligns[s]} \cup Alignments(s) : a <= Aligns[s]
<1>1. section_aligns[s] \in Nat /\ Alignments(s) \in SUBSET (Nat \ {0})
  BY IrsTyped, AlignmentsType DEF TypeOK
<1>2. PICK m \in {section_aligns[s]} \cup Alignments(s) :
         \A y \in {section_aligns[s]} \cup Alignments(s) : y <= m
  BY <1>1, IrsTyped, AlignmentsType
<1>3. {section_aligns[s]} \cup Alignments(s) \in SUBSET Int
  BY <1>1
<1>4. Max({section_aligns[s]} \cup Alignments(s)) = m
  BY <1>2, <1>3, MaxIs
<1> QED BY <1>1, <1>2, <1>4 DEF Aligns

-----------------------------------------------------------------------------
(* Every step keeps the invariant                                          *)

LEMMA InitIInv == Init => IInv
<1> SUFFICES ASSUME Init PROVE IInv
  OBVIOUS
<1>1. Sections = {0, 1, 2, 3}
  BY DEF Sections, Code, Bss
<1>2. TypeOK
  <2>1. SectionIrs(section_irs) /\ out_obj \in BOOLEAN
        /\ pc = "calc" /\ status = "running" /\ long = {} /\ settle1 = FALSE
    BY LayoutAssumption DEF Init
  <2>2. section_aligns \in [Sections -> Nat]
    BY LayoutAssumption DEF Init
  <2>3. /\ section_start_addresses \in [Sections -> Int] /\ start_address \in [Sections -> Int]
        /\ address \in [Items -> Int] /\ offset \in [Items -> Int]
        /\ operand \in [Operands -> Int] /\ size \in [Sections -> Nat]
    BY DEF Init
  <2> QED BY <2>1, <2>2, <2>3 DEF TypeOK
<1>3. AlignsKnown
  <2>1. \A s \in Sections : section_aligns[s] = StartAlign(s) /\ StartAlign(s) \in Nat
    BY LayoutAssumption DEF Init, StartAlign
  <2> QED BY <2>1 DEF AlignsKnown
<1> QED BY <1>2, <1>3 DEF Init, IInv

\* What the definitions depend on.
LEMMA SameInput ==
    ASSUME UNCHANGED input
    PROVE  /\ Items' = Items /\ Jumps' = Jumps /\ Operands' = Operands /\ IrsType' = IrsType
           /\ \A p : Ir(p)' = Ir(p) /\ Field(p)' = Field(p)
           /\ \A l : Defined(l)' = Defined(l) /\ Definition(l)' = Definition(l)
           /\ \A s : Alignments(s)' = Alignments(s) /\ StartAlign(s)' = StartAlign(s)
           /\ \A s, start, length : After(s, start, length)' = After(s, start, length)
<1>1. section_irs' = section_irs /\ out_obj' = out_obj
  BY DEF input
<1>2. \A p : Ir(p)' = Ir(p) /\ Field(p)' = Field(p)
  BY <1>1 DEF Ir, Field, Absolute
<1>3. Items' = Items
  BY <1>1 DEF Items
<1>4. Jumps' = Jumps /\ Operands' = Operands
  BY <1>2, <1>3 DEF Jumps, Operands
<1>5. \A l : Defined(l)' = Defined(l) /\ Definition(l)' = Definition(l)
  BY <1>1, <1>3 DEF Defined, Definition, Ir
<1>6. \A s : Alignments(s)' = Alignments(s) /\ StartAlign(s)' = StartAlign(s)
  BY <1>1, <1>2, <1>3 DEF Alignments, StartAlign
<1>7. ASSUME NEW s, NEW start, NEW length
      PROVE  After(s, start, length)' = After(s, start, length)
  BY <1>1 DEF After, Align, Ir
<1>8. IrsType' = IrsType
  BY <1>1 DEF IrsType, SectionIrs
<1> QED BY <1>2, <1>3, <1>4, <1>5, <1>6, <1>7, <1>8

LEMMA PlaceType ==
    ASSUME IrsType, NEW start \in [Sections -> Int], NEW length \in [Items -> Nat]
    PROVE  [p \in Items |-> Place(p, After(p[1], start[p[1]], length))] \in [Items -> Int]
<1>1. ASSUME NEW p \in Items PROVE Place(p, After(p[1], start[p[1]], length)) \in Int
  <2>1. p[1] \in Sections /\ p[2] \in 0..Len(section_irs[p[1]]) /\ p[2] - 1 \in 0..Len(section_irs[p[1]])
    BY ItemIs
  <2>2. start[p[1]] \in Int
    BY <2>1
  <2>3. \A i \in 0..Len(section_irs[p[1]]) : After(p[1], start[p[1]], length)[i] \in Int
    BY <2>1, <2>2, AfterType
  <2> QED BY <2>1, <2>3 DEF Place
<1> QED BY <1>1

LEMMA CalcStep == ASSUME IInv, CalcLabelAddress PROVE IInv'
<1>1. /\ TypeOK /\ AlignsKnown /\ IrsType /\ pc = "calc" /\ status # "written"
      /\ UNCHANGED <<input, status, long, operand, unresolved, offset, size, start_address>>
  BY IrsTyped DEF IInv, CalcLabelAddress
<1>2. /\ Items' = Items /\ Jumps' = Jumps /\ Operands' = Operands
      /\ \A s : Alignments(s)' = Alignments(s) /\ StartAlign(s)' = StartAlign(s)
      /\ \A s, start, length : After(s, start, length)' = After(s, start, length)
      /\ \A p : Ir(p)' = Ir(p)
  BY <1>1, SameInput
<1>3. Sizes' = Sizes
  BY <1>1, <1>2 DEF Sizes, Size, FixedSize
<1>4. /\ section_start_addresses' = Starts /\ section_aligns' = Aligns /\ pc' = "resolve"
      /\ address' = [p \in Items |-> Place(p, After(p[1], Starts[p[1]], Sizes))]
      /\ settle1' = AlignsSettled
  BY DEF CalcLabelAddress
<1>5. TypeOK'
  <2>1. Starts \in [Sections -> Int] /\ Sizes \in [Items -> Nat]
    BY <1>1, StartsSteps, SizesType
  <2>2. address' \in [Items -> Int]
    BY <1>1, <1>4, <2>1, PlaceType
  <2>3. Aligns \in [Sections -> Nat]
    BY <1>1, AlignsProperties DEF Aligns
  <2>4. settle1' \in BOOLEAN
    BY <1>4 DEF AlignsSettled
  <2> QED BY <1>1, <1>2, <1>4, <2>1, <2>2, <2>3, <2>4 DEF TypeOK, input
<1>6. AlignsKnown'
  <2>1. ASSUME NEW s \in Sections
        PROVE  Aligns[s] \in {StartAlign(s)} \cup Alignments(s) /\ StartAlign(s) <= Aligns[s]
    <3>1. /\ Aligns[s] \in {section_aligns[s]} \cup Alignments(s) /\ Aligns[s] \in Nat
          /\ section_aligns[s] <= Aligns[s]
      BY <1>1, AlignsProperties
    <3>2. section_aligns[s] \in {StartAlign(s)} \cup Alignments(s) /\ StartAlign(s) <= section_aligns[s]
          /\ section_aligns[s] \in Nat /\ StartAlign(s) \in Nat
      BY <1>1, LayoutAssumption DEF AlignsKnown, TypeOK, StartAlign
    <3> QED BY <3>1, <3>2
  <2> QED BY <1>2, <1>4, <2>1 DEF AlignsKnown
<1>7. Calculated'
  BY <1>1, <1>2, <1>3, <1>4 DEF Calculated, Place
<1>8. ASSUME settle1' PROVE Final'
  <2>1. section_aligns' = section_aligns
    BY <1>4, <1>8 DEF AlignsSettled
  <2>2. Starts' = Starts
    BY <1>1, <2>1 DEF Starts, After, Align, Ir, AlignedTo, Sizes, Size, Items, Jumps, input
  <2>3. Aligns' = Aligns
    BY <1>2, <2>1 DEF Aligns
  <2> QED BY <1>4, <1>7, <2>1, <2>2, <2>3 DEF Final, AlignsSettled
<1> QED BY <1>1, <1>4, <1>5, <1>6, <1>7, <1>8 DEF IInv

\* As long as the places and the lengths stay, so does what follows from them.
LEMMA SamePlaces ==
    ASSUME UNCHANGED <<input, section_aligns, section_start_addresses, address, long>>
    PROVE  /\ Calculated' = Calculated /\ Final' = Final /\ AlignsKnown' = AlignsKnown
           /\ Upgraded' = Upgraded /\ Undefined' = Undefined /\ LeftOver' = LeftOver
           /\ Sizes' = Sizes /\ EmittedSizes' = EmittedSizes
           /\ \A p : /\ Target(p)' = Target(p) /\ Relative(p)' = Relative(p)
                     /\ PutNow(p)' <=> PutNow(p)
<1>1. /\ input' = input /\ section_aligns' = section_aligns /\ address' = address /\ long' = long
      /\ section_start_addresses' = section_start_addresses /\ section_irs' = section_irs
      /\ out_obj' = out_obj
  BY DEF input
<1>2. /\ Items' = Items /\ Jumps' = Jumps /\ Operands' = Operands
      /\ \A p : Ir(p)' = Ir(p) /\ Field(p)' = Field(p)
      /\ \A l : Defined(l)' = Defined(l) /\ Definition(l)' = Definition(l)
      /\ \A s : Alignments(s)' = Alignments(s) /\ StartAlign(s)' = StartAlign(s)
      /\ \A s, start, length : After(s, start, length)' = After(s, start, length)
  BY <1>1, SameInput
<1>3. \A p : Size(p)' = Size(p)
  BY <1>1, <1>2 DEF Size, FixedSize
<1>4. Sizes' = Sizes /\ EmittedSizes' = EmittedSizes
  BY <1>2, <1>3 DEF Sizes, EmittedSizes
<1>5. Calculated' = Calculated
  BY <1>1, <1>2, <1>4 DEF Calculated, Place
<1>6. Starts' = Starts
  BY <1>1 DEF Starts, After, Align, Ir, AlignedTo, Sizes, Size, Items, Jumps
<1>7. Aligns' = Aligns
  BY <1>1, <1>2 DEF Aligns
<1>8. Final' = Final /\ AlignsKnown' = AlignsKnown
  BY <1>1, <1>2, <1>5, <1>6, <1>7 DEF Final, AlignsKnown, AlignsSettled
<1>9. \A p : Target(p)' = Target(p) /\ Relative(p)' = Relative(p)
  BY <1>1, <1>2, <1>3 DEF Target, Relative
<1>10. Upgraded' = Upgraded
  BY <1>1, <1>2, <1>9 DEF Upgraded, IsIm8
<1>11. Undefined' = Undefined
  BY <1>1, <1>2 DEF Undefined
<1>12. \A p : /\ CallExtern(p)' = CallExtern(p) /\ LeaExtern(p)' = LeaExtern(p)
              /\ LeaOtherSection(p)' = LeaOtherSection(p) /\ QuadAbsolute(p)' = QuadAbsolute(p)
  BY <1>2 DEF CallExtern, LeaExtern, LeaOtherSection, QuadAbsolute, LabelAlone
<1>13. \A p : PutNow(p)' <=> PutNow(p)
  BY <1>1, <1>2, <1>10, <1>12 DEF PutNow, LeftToLinker, Absolute
<1>14. /\ \A s : FirstAddress(s)' = FirstAddress(s)
  BY <1>1 DEF FirstAddress
<1>15. \A p, kind, add : Unresolved(p, kind, add)' = Unresolved(p, kind, add)
  BY <1>1, <1>2, <1>14 DEF Unresolved
<1>16. LeftOver' = LeftOver
  BY <1>2, <1>9, <1>12, <1>14, <1>15 DEF LeftOver
<1> QED BY <1>4, <1>5, <1>8, <1>9, <1>10, <1>11, <1>13, <1>16

\* What an item adds to its label, and the size of a value.
LEMMA ItemIsWellFormed == ASSUME TypeOK, NEW p \in Items PROVE WellFormed(Ir(p))
<1>1. /\ p[1] \in Sections /\ Ir(p) = section_irs[p[1]][p[2]]
      /\ p[2] \in DOMAIN section_irs[p[1]]
  <2>1. /\ p[1] \in Sections /\ p[2] \in 1..Len(section_irs[p[1]])
        /\ DOMAIN section_irs[p[1]] = 1..Len(section_irs[p[1]])
    BY IrsTyped, ItemIs, ItemsType
  <2> QED BY <2>1 DEF Ir
<1>2. Ir(p) \in Range(section_irs[p[1]])
  BY <1>1 DEF Range
<1> QED BY <1>1, <1>2 DEF TypeOK, SectionIrs

LEMMA RelativeType ==
    ASSUME TypeOK, NEW p \in Items, Defined(Ir(p).label)
    PROVE  Target(p) \in Int /\ Relative(p) \in Int
<1>1. Definition(Ir(p).label) \in Items
  BY DEF Defined, Definition
<1>2. Size(p) \in Nat
  BY IrsTyped, SizesType
<1>3. address[p] \in Int /\ Target(p) \in Int
  <2>1. Ir(p).add \in Int
    BY ItemIsWellFormed DEF WellFormed
  <2> QED BY <1>1, <2>1 DEF TypeOK, Target
<1> QED BY <1>2, <1>3 DEF Relative

LEMMA OperandsAreItems == Operands \subseteq Items /\ Jumps \subseteq Operands
BY DEF Operands, Jumps

LEMMA ResolveStep == ASSUME IInv, ResolveRelativeAddress PROVE IInv'
<1>1. /\ TypeOK /\ AlignsKnown /\ Calculated /\ (settle1 => Final) /\ ~Undefined
      /\ pc = "resolve" /\ status # "written" /\ pc' \in {"emit", "calc"}
      /\ UNCHANGED <<input, status, section_aligns, section_start_addresses, address, settle1,
                     offset, size, start_address>>
  BY DEF IInv, ResolveRelativeAddress
<1>2. /\ Items' = Items /\ Jumps' = Jumps /\ Operands' = Operands
      /\ \A s : Alignments(s)' = Alignments(s) /\ StartAlign(s)' = StartAlign(s)
  BY <1>1, SameInput
<1>3. /\ long' = long \cup Upgraded
      /\ operand' = [p \in Operands |-> IF PutNow(p) THEN Relative(p) ELSE operand[p]]
      /\ unresolved' = IF out_obj THEN LeftOver ELSE {}
  BY DEF ResolveRelativeAddress
<1>4. TypeOK'
  <2>1. long' \subseteq Jumps
    BY <1>1, <1>3 DEF TypeOK, Upgraded
  <2>2. \A p \in Operands : PutNow(p) => Relative(p) \in Int
    BY <1>1, RelativeType, OperandsAreItems DEF PutNow
  <2>3. operand' \in [Operands -> Int]
    BY <1>1, <1>3, <2>2 DEF TypeOK
  <2> QED BY <1>1, <1>2, <2>1, <2>3 DEF TypeOK, input
<1>5. AlignsKnown'
  BY <1>1, <1>2 DEF AlignsKnown
<1>6. ASSUME pc' = "emit" PROVE Final' /\ Resolved'
  <2>1. Final /\ Upgraded = {}
    BY <1>1, <1>6 DEF Settled, ResolveRelativeAddress
  <2>2. UNCHANGED <<input, section_aligns, section_start_addresses, address, long>>
    BY <1>1, <1>3, <2>1
  <2>3. /\ Final' = Final /\ Upgraded' = Upgraded /\ Undefined' = Undefined /\ LeftOver' = LeftOver
        /\ \A p : Relative(p)' = Relative(p) /\ (PutNow(p)' <=> PutNow(p))
    BY <2>2, SamePlaces
  <2>4. Final'
    BY <2>1, <2>3
  <2>5. unresolved' = IF out_obj' THEN LeftOver' ELSE {}
    BY <1>1, <1>3, <2>3 DEF input
  <2>6. \A p \in Operands' : PutNow(p)' => operand'[p] = Relative(p)'
    BY <1>2, <1>3, <2>3
  <2>7. Upgraded' = {} /\ ~Undefined'
    BY <1>1, <2>1, <2>3
  <2>8. Resolved'
    BY <2>5, <2>6, <2>7 DEF Resolved
  <2> QED BY <2>4, <2>8
<1> QED BY <1>1, <1>4, <1>5, <1>6 DEF IInv

LEMMA EmitStep == ASSUME IInv, EmitIrs PROVE IInv'
<1>1. /\ TypeOK /\ AlignsKnown /\ Final /\ Resolved /\ IrsType
      /\ pc = "emit" /\ status # "written" /\ pc' = "fix"
      /\ UNCHANGED <<input, status, section_aligns, section_start_addresses, address, long, settle1,
                     unresolved, start_address>>
  BY IrsTyped DEF IInv, EmitIrs
<1>2. /\ Items' = Items /\ Jumps' = Jumps /\ Operands' = Operands
      /\ \A p : Ir(p)' = Ir(p)
      /\ \A l : Defined(l)' = Defined(l)
      /\ \A s, start, length : After(s, start, length)' = After(s, start, length)
  BY <1>1, SameInput
<1>3. /\ Final' = Final /\ AlignsKnown' = AlignsKnown
      /\ Upgraded' = Upgraded /\ Undefined' = Undefined /\ LeftOver' = LeftOver
      /\ EmittedSizes' = EmittedSizes
      /\ \A p : /\ Target(p)' = Target(p) /\ Relative(p)' = Relative(p)
                /\ PutNow(p)' <=> PutNow(p)
  BY <1>1, SamePlaces
<1>4. /\ offset' = [p \in Items |-> Place(p, After(p[1], 0, EmittedSizes))]
      /\ size' = [s \in Sections |-> After(s, 0, EmittedSizes)[Len(section_irs[s])]]
      /\ operand' = [p \in Operands |->
              IF Absolute(p) /\ Defined(Ir(p).label) THEN Target(p) ELSE operand[p]]
  BY DEF EmitIrs
<1>5. EmittedSizes \in [Items -> Nat] /\ 0 \in Int
  BY <1>1, SizesType
<1>6. TypeOK'
  <2>1. offset' \in [Items -> Int]
    <3> DEFINE zero == [s \in Sections |-> 0]
    <3>1. zero \in [Sections -> Int]
      OBVIOUS
    <3>2. \A p \in Items : zero[p[1]] = 0
      BY <1>1, ItemIs
    <3>3. [p \in Items |-> Place(p, After(p[1], zero[p[1]], EmittedSizes))] \in [Items -> Int]
      BY <1>1, <1>5, <3>1, PlaceType
    <3>4. \A p \in Items :
            Place(p, After(p[1], zero[p[1]], EmittedSizes)) = Place(p, After(p[1], 0, EmittedSizes))
      BY <3>2
    <3>5. [p \in Items |-> Place(p, After(p[1], zero[p[1]], EmittedSizes))] = offset'
      BY <1>4, <3>4
    <3> QED BY <3>3, <3>5
  <2>2. ASSUME NEW s \in Sections PROVE After(s, 0, EmittedSizes)[Len(section_irs[s])] \in Nat
    <3>1. 0 \in 0..Len(section_irs[s]) /\ Len(section_irs[s]) \in 0..Len(section_irs[s])
          /\ 0 <= Len(section_irs[s])
      BY <1>1, ItemsType
    <3>2. After(s, 0, EmittedSizes)[0] = 0
      BY <1>1, AfterSteps
    <3>3. After(s, 0, EmittedSizes)[Len(section_irs[s])] \in Int
          /\ After(s, 0, EmittedSizes)[0] <= After(s, 0, EmittedSizes)[Len(section_irs[s])]
      BY <1>1, <1>5, <3>1, AfterType
    <3> QED BY <3>2, <3>3
  <2>3. size' \in [Sections -> Nat]
    BY <1>4, <2>2
  <2>4. \A p \in Operands : Defined(Ir(p).label) => Target(p) \in Int
    BY <1>1, RelativeType, OperandsAreItems
  <2>5. operand' \in [Operands -> Int]
    BY <1>1, <1>4, <2>4 DEF TypeOK
  <2> QED BY <1>1, <1>2, <2>1, <2>3, <2>5 DEF TypeOK, input
<1>7. Resolved'
  <2>1. \A p \in Operands : PutNow(p) => operand'[p] = Relative(p)
    BY <1>1, <1>4 DEF Resolved, PutNow
  <2>2. unresolved' = IF out_obj' THEN LeftOver' ELSE {}
    BY <1>1, <1>3 DEF Resolved, input
  <2> QED BY <1>1, <1>2, <1>3, <2>1, <2>2 DEF Resolved
<1>8. Buffered'
  <2>1. offset' = [p \in Items' |-> Place(p, After(p[1], 0, EmittedSizes))']
    BY <1>2, <1>3, <1>4 DEF Place
  <2>2. size' = [s \in Sections |-> After(s, 0, EmittedSizes)[Len(section_irs[s])]']
    BY <1>1, <1>2, <1>3, <1>4 DEF input
  <2>3. \A p \in Operands' :
           (Absolute(p) /\ Defined(Ir(p).label))' => operand'[p] = Target(p)'
    <3>1. \A p : (Absolute(p) /\ Defined(Ir(p).label))' <=> (Absolute(p) /\ Defined(Ir(p).label))
      BY <1>2 DEF Absolute
    <3> QED BY <1>2, <1>3, <1>4, <3>1
  <2> QED BY <2>1, <2>2, <2>3 DEF Buffered
<1> QED BY <1>1, <1>3, <1>6, <1>7, <1>8 DEF IInv

\* Where fix_section_size puts the sections.
LEMMA FixedStartsAre ==
    LET rodata == Align(LoadAddress + size[Code], AlignOf(RoData))
        data == Align(rodata + size[RoData], AlignOf(DataSec))
    IN  /\ FixedStarts = [s \in Sections |-> FixedStarts[s]]
        /\ FixedStarts[Code] = LoadAddress
        /\ FixedStarts[RoData] = rodata
        /\ FixedStarts[DataSec] = data
        /\ FixedStarts[Bss] = data + Align(size[DataSec], AlignOf(Bss))
<1> DEFINE a == Align(LoadAddress + size[Code], AlignOf(RoData))
           b == Align(a + size[RoData], AlignOf(DataSec))
           c == b + Align(size[DataSec], AlignOf(Bss))
<1>1. FixedStarts = [s \in Sections |-> << LoadAddress, a, b, c >>[s + 1]]
  BY DEF FixedStarts
<1>2. Sections = {0, 1, 2, 3} /\ Code = 0 /\ RoData = 1 /\ DataSec = 2 /\ Bss = 3
  BY DEF Sections, Code, Bss, RoData, DataSec
<1> HIDE DEF a, b, c
<1>3. /\ FixedStarts = [s \in Sections |-> FixedStarts[s]]
      /\ FixedStarts[Code] = LoadAddress /\ FixedStarts[RoData] = a
      /\ FixedStarts[DataSec] = b /\ FixedStarts[Bss] = c
  BY <1>1, <1>2
<1> QED BY <1>3 DEF a, b, c

LEMMA AlignOfType ==
    ASSUME TypeOK, NEW s \in Sections
    PROVE  AlignOf(s) \in Nat \ {0} /\ section_aligns[s] \in Nat
           /\ AlignOf(s) = IF section_aligns[s] = 0 THEN 1 ELSE section_aligns[s]
<1>1. section_aligns[s] \in Nat
  BY DEF TypeOK
<1>2. CASE section_aligns[s] = 0
  <2>1. {section_aligns[s], 1} \in SUBSET Int /\ 1 \in {section_aligns[s], 1}
        /\ \A x \in {section_aligns[s], 1} : x <= 1
    BY <1>2
  <2>2. Max({section_aligns[s], 1}) = 1
    BY <2>1, MaxIs
  <2> QED BY <1>1, <1>2, <2>2 DEF AlignOf
<1>3. CASE section_aligns[s] # 0
  <2>1. {section_aligns[s], 1} \in SUBSET Int /\ section_aligns[s] \in {section_aligns[s], 1}
        /\ \A x \in {section_aligns[s], 1} : x <= section_aligns[s]
    BY <1>1, <1>3
  <2>2. Max({section_aligns[s], 1}) = section_aligns[s]
    BY <2>1, MaxIs
  <2> QED BY <1>1, <1>3, <2>2 DEF AlignOf
<1> QED BY <1>2, <1>3

LEMMA FixedStartsType == ASSUME TypeOK PROVE FixedStarts \in [Sections -> Int]
<1>1. Sections = {0, 1, 2, 3} /\ Code = 0 /\ RoData = 1 /\ DataSec = 2 /\ Bss = 3
  BY DEF Sections, Code, Bss, RoData, DataSec
<1>2. \A s \in Sections : AlignOf(s) \in Nat \ {0} /\ size[s] \in Nat
  BY AlignOfType DEF TypeOK
<1>3. LoadAddress + size[Code] \in Int /\ LoadAddress \in Int
  BY <1>1, <1>2, LayoutAssumption
<1>4. FixedStarts[RoData] \in Int
  BY <1>1, <1>2, <1>3, AlignProperties, FixedStartsAre
<1>5. FixedStarts[RoData] + size[RoData] \in Int
  BY <1>1, <1>2, <1>4
<1>6. FixedStarts[DataSec] \in Int
  BY <1>1, <1>2, <1>5, AlignProperties, FixedStartsAre
<1>7. Align(size[DataSec], AlignOf(Bss)) \in Int
  <2>1. size[DataSec] \in Int /\ AlignOf(Bss) \in Nat \ {0}
    BY <1>1, <1>2
  <2> QED BY <2>1, AlignProperties
<1>8. FixedStarts[Bss] \in Int
  BY <1>6, <1>7, FixedStartsAre
<1>9. \A s \in Sections : FixedStarts[s] \in Int
  BY <1>1, <1>3, <1>4, <1>6, <1>8, FixedStartsAre
<1> QED BY <1>9, FixedStartsAre

\* What depends only on the layout, the operands and the buffers.
LEMMA SameOutput ==
    ASSUME UNCHANGED <<input, section_aligns, section_start_addresses, address, long,
                       operand, unresolved, offset, size>>
    PROVE  /\ (Resolved' <=> Resolved) /\ (Buffered' <=> Buffered) /\ FixedStarts' = FixedStarts
<1>1. /\ section_irs' = section_irs /\ out_obj' = out_obj /\ operand' = operand
      /\ unresolved' = unresolved /\ offset' = offset /\ size' = size /\ section_aligns' = section_aligns
      /\ UNCHANGED <<input, section_aligns, section_start_addresses, address, long>>
  BY DEF input
<1>2. /\ Items' = Items /\ Operands' = Operands
      /\ \A p : Ir(p)' = Ir(p)
      /\ \A l : Defined(l)' = Defined(l)
      /\ \A s, start, length : After(s, start, length)' = After(s, start, length)
  BY <1>1, SameInput
<1>3. /\ Upgraded' = Upgraded /\ Undefined' = Undefined /\ LeftOver' = LeftOver
      /\ EmittedSizes' = EmittedSizes
      /\ \A p : /\ Target(p)' = Target(p) /\ Relative(p)' = Relative(p)
                /\ PutNow(p)' <=> PutNow(p)
  BY <1>1, SamePlaces
<1>4. Resolved' <=> Resolved
  BY <1>1, <1>2, <1>3 DEF Resolved
<1>5. Buffered' <=> Buffered
  BY <1>1, <1>2, <1>3 DEF Buffered, Place, Absolute
<1>6. FixedStarts' = FixedStarts
  BY <1>1 DEF FixedStarts, AlignOf, Align
<1> QED BY <1>4, <1>5, <1>6

LEMMA FixStep == ASSUME IInv, FixSectionSize PROVE IInv'
<1>1. /\ TypeOK /\ AlignsKnown /\ Final /\ Resolved /\ Buffered
      /\ pc' = "end" /\ status' = "written" /\ start_address' = FixedStarts
      /\ UNCHANGED <<input, section_aligns, section_start_addresses, address, long, settle1,
                     operand, unresolved, offset, size>>
  BY DEF IInv, FixSectionSize
<1>2. Items' = Items /\ Jumps' = Jumps /\ Operands' = Operands
  BY <1>1, SameInput
<1>3. TypeOK'
  BY <1>1, <1>2, FixedStartsType DEF TypeOK, input
<1>4. Final' /\ AlignsKnown'
  BY <1>1, SamePlaces
<1>5. Resolved' /\ Buffered' /\ FixedStarts' = FixedStarts
  BY <1>1, SameOutput
<1> QED BY <1>1, <1>3, <1>4, <1>5 DEF IInv

LEMMA UndefinedStep == ASSUME IInv, UndefinedReference PROVE IInv'
<1>1. /\ TypeOK /\ AlignsKnown
      /\ pc' = "end" /\ status' = "failed"
      /\ UNCHANGED <<input, section_aligns, section_start_addresses, address, long, settle1,
                     operand, unresolved, offset, size, start_address>>
  BY DEF IInv, UndefinedReference
<1>2. Items' = Items /\ Jumps' = Jumps /\ Operands' = Operands
  BY <1>1, SameInput
<1>3. TypeOK'
  BY <1>1, <1>2 DEF TypeOK, input
<1>4. AlignsKnown'
  BY <1>1, SamePlaces
<1> QED BY <1>1, <1>3, <1>4 DEF IInv

LEMMA StutterStep == ASSUME IInv, UNCHANGED vars PROVE IInv'
<1>1. /\ UNCHANGED <<input, section_aligns, section_start_addresses, address, long,
                     operand, unresolved, offset, size>>
      /\ pc' = pc /\ status' = status /\ start_address' = start_address /\ settle1' = settle1
  BY DEF vars, input
<1>2. Items' = Items /\ Jumps' = Jumps /\ Operands' = Operands
  BY <1>1, SameInput
<1>3. TypeOK' <=> TypeOK
  BY <1>1, <1>2 DEF TypeOK, input
<1>4. (Calculated' <=> Calculated) /\ (Final' <=> Final) /\ (AlignsKnown' <=> AlignsKnown)
  BY <1>1, SamePlaces
<1>5. (Resolved' <=> Resolved) /\ (Buffered' <=> Buffered) /\ FixedStarts' = FixedStarts
  BY <1>1, SameOutput
<1> QED BY <1>1, <1>3, <1>4, <1>5 DEF IInv

LEMMA NextIInv == IInv /\ [Next]_vars => IInv'
<1> SUFFICES ASSUME IInv, [Next]_vars PROVE IInv'
  OBVIOUS
<1>1. CASE CalcLabelAddress
  BY <1>1, CalcStep
<1>2. CASE ResolveRelativeAddress
  BY <1>2, ResolveStep
<1>3. CASE UndefinedReference
  BY <1>3, UndefinedStep
<1>4. CASE EmitIrs
  BY <1>4, EmitStep
<1>5. CASE FixSectionSize
  BY <1>5, FixStep
<1>6. CASE UNCHANGED vars
  BY <1>6, StutterStep
<1> QED BY <1>1, <1>2, <1>3, <1>4, <1>5, <1>6 DEF Next

LEMMA AlwaysIInv == Spec => []IInv
BY InitIInv, NextIInv, PTL DEF Spec

\* Addresses and operands stay numbers, sizes natural numbers, and only jumps
\* are lengthened, however often the loop of calc_label_address and
\* resolve_relative_address turns.
THEOREM AsmLayoutTypeOK == Spec => []TypeOK
<1>1. IInv => TypeOK
  BY DEF IInv
<1> QED BY <1>1, AlwaysIInv, PTL

-----------------------------------------------------------------------------
(* Alignments that fit                                                     *)

\* When the alignments are final, that of a section is a multiple of all that
\* are asked for in it.
LEMMA SettledAligns ==
    ASSUME TypeOK, AlignsKnown, AlignsSettled, AlignmentsFit,
           NEW s \in Sections, NEW a \in Alignments(s)
    PROVE  /\ a \in Nat \ {0} /\ section_aligns[s] \in Nat \ {0}
           /\ Divides(a, section_aligns[s]) /\ AlignOf(s) = section_aligns[s]
           /\ Divides(a, LoadAddress) /\ Divides(a, DataAlign) /\ Divides(a, ProgStart)
<1>1. a \in Nat \ {0} /\ section_aligns[s] \in Nat
  BY IrsTyped, AlignmentsType DEF TypeOK
<1>2. a <= section_aligns[s]
  BY AlignsProperties DEF AlignsSettled
<1>3. a \in UNION {Alignments(t) : t \in Sections}
  OBVIOUS
<1>4. LoadAddress % a = 0 /\ DataAlign % a = 0 /\ ProgStart % a = 0
  BY <1>3 DEF AlignmentsFit
<1>5. section_aligns[s] % a = 0
  <2>1. CASE section_aligns[s] \in Alignments(s)
    <3>1. section_aligns[s] \in UNION {Alignments(t) : t \in Sections}
      BY <2>1
    <3> QED BY <1>2, <1>3, <3>1 DEF AlignmentsFit
  <2>2. CASE section_aligns[s] = StartAlign(s)
    <3>1. section_aligns[s] # 0
      BY <1>1, <1>2
    <3>2. section_aligns[s] = DataAlign
      BY <2>2, <3>1 DEF StartAlign
    <3> QED BY <1>4, <3>2
  <2> QED BY <2>1, <2>2 DEF AlignsKnown
<1>6. LoadAddress \in Int /\ DataAlign \in Int /\ ProgStart \in Int /\ section_aligns[s] \in Int
  BY <1>1, LayoutAssumption
<1>7. Divides(a, section_aligns[s]) /\ Divides(a, LoadAddress) /\ Divides(a, DataAlign)
      /\ Divides(a, ProgStart)
  BY <1>1, <1>4, <1>5, <1>6, DividesMod
<1>8. AlignOf(s) = section_aligns[s] /\ section_aligns[s] # 0
  BY <1>1, <1>2, AlignOfType
<1> QED BY <1>1, <1>7, <1>8

\* An executable's data are aligned to DATA_ALIGN.
LEMMA DataIsAligned ==
    ASSUME TypeOK, AlignsKnown, AlignsSettled, AlignmentsFit, ~out_obj
    PROVE  section_aligns[DataSec] = DataAlign /\ AlignOf(DataSec) = DataAlign
<1>1. DataSec \in Sections /\ DataAlign \in Nat \ {0} /\ DataAlign \in Int
  BY LayoutAssumption DEF DataSec, Sections, Code, Bss
<1>2. StartAlign(DataSec) = DataAlign
  BY DEF StartAlign
<1>3. DataAlign <= section_aligns[DataSec] /\ section_aligns[DataSec] \in {DataAlign} \cup Alignments(DataSec)
  BY <1>1, <1>2 DEF AlignsKnown
<1>4. section_aligns[DataSec] = DataAlign
  <2>1. CASE section_aligns[DataSec] \in Alignments(DataSec)
    <3> DEFINE a == section_aligns[DataSec]
    <3>1. a \in Nat \ {0} /\ Divides(a, DataAlign)
      BY <1>1, <2>1, SettledAligns
    <3>2. PICK q \in Int : DataAlign = q * a
      BY <3>1 DEF Divides
    <3>3. DataAlign <= a
      BY <1>3
    <3> HIDE DEF a
    <3>4. q >= 1
      BY <1>1, <3>1, <3>2
    <3>5. q * a >= a
      BY <3>1, <3>4
    <3>6. DataAlign = a
      BY <1>1, <3>1, <3>2, <3>3, <3>5
    <3> QED BY <3>6 DEF a
  <2> QED BY <1>3, <2>1
<1> QED BY <1>1, <1>4, AlignOfType

\* Wherever a section is put, every alignment in it is kept.
LEMMA BasesAligned ==
    ASSUME IInv, Written, AlignmentsFit, NEW base \in Bases, NEW s \in Sections
    PROVE  base[s] \in Int /\ \A a \in Alignments(s) : Divides(a, base[s])
<1>1. TypeOK /\ AlignsKnown /\ AlignsSettled /\ start_address = FixedStarts
  BY DEF IInv, Written, Final
<1>2. AlignOf(s) \in Nat \ {0} /\ s \in 0..3
  BY <1>1, AlignOfType DEF Sections, Code, Bss
<1>3. CASE out_obj
  <2>1. PICK n \in {1, 5} : base = [t \in Sections |-> n * (1 + t) * AlignOf(t)]
    BY <1>3 DEF Bases
  <2> DEFINE m == n * (1 + s)
  <2>2. m \in Int
    BY <1>2
  <2>3. base[s] = m * AlignOf(s)
    BY <2>1
  <2> HIDE DEF m
  <2>4. ASSUME NEW a \in Alignments(s) PROVE Divides(a, base[s])
    <3>1. a \in Nat \ {0} /\ AlignOf(s) \in Int /\ Divides(a, AlignOf(s))
      BY <1>1, SettledAligns
    <3> QED BY <2>2, <2>3, <3>1, DividesProduct
  <2> QED BY <1>2, <2>2, <2>3, <2>4
<1>4. CASE ~out_obj
  <2>1. base = FixedStarts
    BY <1>1, <1>4 DEF Bases
  <2>2. FixedStarts \in [Sections -> Int]
    BY <1>1, FixedStartsType
  <2>3. Sections = {0, 1, 2, 3} /\ Code = 0 /\ RoData = 1 /\ DataSec = 2 /\ Bss = 3
    BY DEF Sections, Code, Bss, RoData, DataSec
  <2>4. \A t \in Sections : size[t] \in Int /\ AlignOf(t) \in Nat \ {0}
    BY <1>1, AlignOfType DEF TypeOK
  <2>5. LoadAddress + size[Code] \in Int /\ FixedStarts[RoData] + size[RoData] \in Int
    <3>1. LoadAddress \in Int
      BY LayoutAssumption
    <3> QED BY <2>2, <2>3, <2>4, <3>1
  <2>6. Divides(AlignOf(RoData), FixedStarts[RoData])
    <3>1. AlignOf(RoData) \in Nat \ {0}
      BY <2>3, <2>4
    <3>2. Divides(AlignOf(RoData), Align(LoadAddress + size[Code], AlignOf(RoData)))
      BY <2>5, <3>1, AlignProperties
    <3> QED BY <3>2, FixedStartsAre
  <2>7. Divides(AlignOf(DataSec), FixedStarts[DataSec])
    <3>1. AlignOf(DataSec) \in Nat \ {0}
      BY <2>3, <2>4
    <3>2. Divides(AlignOf(DataSec), Align(FixedStarts[RoData] + size[RoData], AlignOf(DataSec)))
      BY <2>5, <3>1, AlignProperties
    <3> QED BY <3>2, FixedStartsAre
  <2>8. /\ Align(size[DataSec], AlignOf(Bss)) \in Int
        /\ Divides(AlignOf(Bss), Align(size[DataSec], AlignOf(Bss)))
        /\ FixedStarts[Bss] = FixedStarts[DataSec] + Align(size[DataSec], AlignOf(Bss))
    <3>1. AlignOf(Bss) \in Nat \ {0} /\ size[DataSec] \in Int
      BY <2>3, <2>4
    <3> QED BY <3>1, AlignProperties, FixedStartsAre
  <2>9. ASSUME NEW a \in Alignments(s) PROVE Divides(a, FixedStarts[s])
    <3>1. a \in Nat \ {0} /\ Divides(a, AlignOf(s)) /\ Divides(a, LoadAddress) /\ Divides(a, DataAlign)
      BY <1>1, SettledAligns
    <3>2. FixedStarts[s] \in Int
      BY <2>2
    <3>3. CASE s = Code
      BY <3>1, <3>3, FixedStartsAre
    <3>4. CASE s = RoData
      BY <1>2, <2>6, <3>1, <3>2, <3>4, DividesTrans
    <3>5. CASE s = DataSec
      BY <1>2, <2>7, <3>1, <3>2, <3>5, DividesTrans
    <3>6. CASE s = Bss
      <4>1. AlignOf(DataSec) = DataAlign /\ DataAlign \in Nat \ {0}
        BY <1>1, <1>4, DataIsAligned, LayoutAssumption
      <4>2. FixedStarts[DataSec] \in Int
        BY <2>2, <2>3
      <4>3. Divides(a, FixedStarts[DataSec])
        BY <2>7, <3>1, <4>1, <4>2, DividesTrans
      <4>4. Divides(a, Align(size[DataSec], AlignOf(Bss)))
        BY <1>2, <2>8, <3>1, <3>6, DividesTrans
      <4> QED BY <2>8, <3>1, <3>6, <4>2, <4>3, <4>4, DividesSum
    <3> QED BY <2>3, <3>3, <3>4, <3>5, <3>6
  <2> QED BY <2>1, <2>2, <2>9
<1> QED BY <1>3, <1>4

LEMMA PlaceShift ==
    ASSUME IrsType, NEW p \in Items, NEW start \in Int, NEW length \in [Items -> Nat],
           \A a \in Alignments(p[1]) : Divides(a, start)
    PROVE  Place(p, After(p[1], start, length)) = start + Place(p, After(p[1], 0, length))
<1>1. p[1] \in Sections /\ p[2] \in 0..Len(section_irs[p[1]]) /\ p[2] - 1 \in 0..Len(section_irs[p[1]])
  BY ItemIs
<1>2. \A i \in 0..Len(section_irs[p[1]]) :
         After(p[1], start, length)[i] = start + After(p[1], 0, length)[i]
  BY <1>1, AfterShift
<1> QED BY <1>1, <1>2 DEF Place

\* Where the addresses start, every alignment is kept too.
LEMMA StartsAligned ==
    ASSUME TypeOK, AlignsKnown, Final, AlignmentsFit, NEW s \in Sections
    PROVE  /\ section_start_addresses[s] \in Int
           /\ \A a \in Alignments(s) : Divides(a, section_start_addresses[s])
<1>1. AlignsSettled /\ section_start_addresses = Starts /\ section_start_addresses[s] \in Int
  BY DEF Final, TypeOK
<1>2. \E x \in Int : Starts[s] = AlignedTo(x, section_aligns[s])
  <2>1. CASE s = Code
    <3>1. LoadAddress \in Int
      BY LayoutAssumption
    <3> QED BY <2>1, <3>1, StartsSteps
  <2>2. CASE s # Code
    <3>1. s \in {RoData, DataSec, Bss} /\ s - 1 \in Sections
      BY <2>2 DEF Sections, Code, RoData, DataSec, Bss
    <3>2. IrsType /\ Sizes \in [Items -> Nat] /\ Starts[s - 1] \in Int
      BY <3>1, IrsTyped, SizesType, StartsSteps
    <3>3. Len(section_irs[s - 1]) \in 0..Len(section_irs[s - 1])
      BY <3>1, <3>2, ItemsType
    <3>4. After(s - 1, Starts[s - 1], Sizes)[Len(section_irs[s - 1])] \in Int
      BY <3>1, <3>2, <3>3, AfterType
    <3> QED BY <3>1, <3>4, StartsSteps
  <2> QED BY <2>1, <2>2
<1>3. ASSUME NEW a \in Alignments(s) PROVE Divides(a, Starts[s])
  <2>1. a \in Nat \ {0} /\ section_aligns[s] \in Nat \ {0} /\ Divides(a, section_aligns[s])
    BY <1>1, SettledAligns
  <2>2. PICK x \in Int : Starts[s] = AlignedTo(x, section_aligns[s])
    BY <1>2
  <2>3. section_aligns[s] \in Nat /\ section_aligns[s] > 0
    BY <2>1
  <2>4. Divides(section_aligns[s], AlignedTo(x, section_aligns[s]))
    BY <2>3, AlignedToType
  <2> QED BY <1>1, <2>1, <2>2, <2>4, DividesTrans
<1> QED BY <1>1, <1>3

\* The buffers agree with the addresses.
LEMMA OffsetsAgree ==
    ASSUME TypeOK, AlignsKnown, Final, Buffered, AlignmentsFit, PointersDefined
    PROVE  \A p \in Items : offset[p] = address[p] - section_start_addresses[p[1]]
<1>1. EmittedSizes = Sizes
  BY DEF EmittedSizes, Sizes, PointersDefined
<1>2. IrsType /\ Sizes \in [Items -> Nat]
  BY IrsTyped, SizesType
<1>3. ASSUME NEW p \in Items PROVE offset[p] = address[p] - section_start_addresses[p[1]]
  <2>1. p[1] \in Sections
    BY <1>2, ItemIs
  <2>2. /\ section_start_addresses[p[1]] \in Int
        /\ \A a \in Alignments(p[1]) : Divides(a, section_start_addresses[p[1]])
    BY <2>1, StartsAligned
  <2>3. Place(p, After(p[1], section_start_addresses[p[1]], Sizes))
          = section_start_addresses[p[1]] + Place(p, After(p[1], 0, Sizes))
    BY <1>2, <2>2, PlaceShift
  <2>4. address[p] = Place(p, After(p[1], section_start_addresses[p[1]], Sizes))
    BY DEF Final, Calculated
  <2>5. offset[p] = Place(p, After(p[1], 0, Sizes)) /\ offset[p] \in Int
    BY <1>1 DEF Buffered, TypeOK
  <2> QED BY <2>2, <2>3, <2>4, <2>5
<1> QED BY <1>3

\* What is in the buffers lies where the labels say, from the start of its
\* section: calc_label_address and emit_irs, which count alignment from
\* different places, come to the same.  A pointer to a label of another file,
\* for which emit_irs leaves no room, would break it.
THEOREM AsmLayoutAgrees == Spec => []((AlignmentsFit /\ PointersDefined) => LayoutAgrees)
<1>1. IInv => ((AlignmentsFit /\ PointersDefined) => LayoutAgrees)
  BY OffsetsAgree DEF IInv, LayoutAgrees, Written
<1> QED BY <1>1, AlwaysIInv, PTL

\* Everything after an alignment lies in memory at a multiple of it, in an
\* executable as in an object file that is linked anywhere.
THEOREM AsmAlignedAsAsked == Spec => [](AlignmentsFit => AlignedAsAsked)
<1>1. ASSUME IInv, AlignmentsFit PROVE AlignedAsAsked
  <2> SUFFICES ASSUME Written, NEW p \in Items, NEW base \in Bases, Ir(p).kind = "align"
               PROVE  At(p, base) % Ir(p).size = 0
    BY DEF AlignedAsAsked
  <2>1. TypeOK /\ AlignsKnown /\ AlignsSettled /\ Buffered /\ IrsType
    BY <1>1, IrsTyped DEF IInv, Written, Final
  <2>2. /\ p[1] \in Sections /\ p[2] \in 1..Len(section_irs[p[1]]) /\ p = <<p[1], p[2]>>
        /\ p[2] - 1 \in 0..Len(section_irs[p[1]])
    BY <2>1, ItemIs
  <2> DEFINE a == Ir(p).size
             x == After(p[1], 0, EmittedSizes)[p[2] - 1]
  <2>3. Ir(<<p[1], p[2]>>).kind = "align"
    BY <2>2
  <2>4. a \in Alignments(p[1])
    BY DEF Alignments, Items
  <2>5. a \in Nat \ {0}
    BY <2>1, <2>2, <2>4, AlignmentsType
  <2>6. offset[p] = Align(x, a)
    <3>1. offset[p] = After(p[1], 0, EmittedSizes)[p[2]]
      BY <2>1 DEF Buffered, Place
    <3>2. After(p[1], 0, EmittedSizes)[p[2]] = AfterNext(p[1], EmittedSizes, p[2], x)
      BY <2>1, <2>2, AfterSteps
    <3>3. AfterNext(p[1], EmittedSizes, p[2], x) = Align(x, Ir(<<p[1], p[2]>>).size)
      BY <2>3 DEF AfterNext
    <3>4. Ir(<<p[1], p[2]>>).size = a
      BY <2>2
    <3> QED BY <3>1, <3>2, <3>3, <3>4
  <2>7. x \in Int
    <3>1. EmittedSizes \in [Items -> Nat] /\ 0 \in Int
      BY <2>1, SizesType
    <3> QED BY <2>1, <2>2, <3>1, AfterType
  <2>8. base[p[1]] \in Int /\ Divides(a, base[p[1]])
    BY <1>1, <2>2, <2>4, BasesAligned
  <2> HIDE DEF a, x
  <2>9. offset[p] \in Int /\ Divides(a, offset[p])
    BY <2>5, <2>6, <2>7, AlignProperties
  <2>10. Divides(a, base[p[1]] + offset[p]) /\ base[p[1]] + offset[p] \in Int
    <3> DEFINE b == base[p[1]]
               o == offset[p]
    <3>1. b \in Int /\ o \in Int /\ Divides(a, b) /\ Divides(a, o)
      BY <2>8, <2>9
    <3> HIDE DEF b, o
    <3>2. Divides(a, b + o) /\ b + o \in Int
      BY <2>5, <3>1, DividesSum
    <3> QED BY <3>2 DEF b, o
  <2>11. (base[p[1]] + offset[p]) % a = 0
    BY <2>5, <2>10, DividesMod
  <2> QED BY <2>11 DEF At, a
<1>2. IInv => (AlignmentsFit => AlignedAsAsked)
  BY <1>1
<1> QED BY <1>2, AlwaysIInv, PTL

\* But for the data of an executable, a section is aligned only as asked.
LEMMA SectionAlign ==
    ASSUME TypeOK, AlignsKnown, AlignsSettled, AlignmentsFit,
           NEW s \in Sections, s # DataSec
    PROVE  /\ AlignOf(s) \in Nat \ {0} /\ Divides(AlignOf(s), LoadAddress)
           /\ Divides(AlignOf(s), ProgStart) /\ Divides(AlignOf(s), DataAlign)
<1>1. CASE section_aligns[s] = 0
  <2>1. AlignOf(s) = 1
    BY <1>1, AlignOfType
  <2>2. LoadAddress \in Int /\ ProgStart \in Int /\ DataAlign \in Int /\ 1 \in Nat \ {0}
    BY LayoutAssumption
  <2> QED BY <2>1, <2>2, DividesOne
<1>2. CASE section_aligns[s] # 0
  <2>1. section_aligns[s] \in Alignments(s)
    BY <1>2 DEF AlignsKnown, StartAlign
  <2>2. AlignOf(s) = section_aligns[s]
    BY <1>2, AlignOfType
  <2> QED BY <2>1, <2>2, SettledAligns
<1> QED BY <1>1, <1>2

\* The program headers of an executable map the bytes of each section to the
\* addresses that fix_section_size gave it: output_exe and output_program_headers
\* count the gaps from the start of the file, fix_section_size from LOAD_ADDRESS.
THEOREM AsmFileMatchesMemory == Spec => [](AlignmentsFit => FileMatchesMemory)
<1>1. ASSUME IInv, AlignmentsFit PROVE FileMatchesMemory
  <2> SUFFICES ASSUME Written, ~out_obj PROVE FileMatchesMemory
    BY DEF FileMatchesMemory
  <2>1. TypeOK /\ AlignsKnown /\ AlignsSettled /\ start_address = FixedStarts
    BY <1>1 DEF IInv, Written, Final
  <2> DEFINE A == AlignOf(RoData)
             C == size[Code]
             R == size[RoData]
             D == size[DataSec]
             M == DataAlign
             gap == Align(C, A)
             bss == Align(D, AlignOf(Bss))
  <2>2. Sections = {0, 1, 2, 3} /\ Code = 0 /\ RoData = 1 /\ DataSec = 2 /\ Bss = 3
    BY DEF Sections, Code, Bss, RoData, DataSec
  <2>3. C \in Nat /\ R \in Nat /\ D \in Nat /\ size[Bss] \in Nat
    BY <2>1, <2>2 DEF TypeOK
  <2>4. /\ A \in Nat \ {0} /\ Divides(A, LoadAddress) /\ Divides(A, ProgStart) /\ Divides(A, M)
        /\ M \in Nat \ {0} /\ LoadAddress \in Int /\ ProgStart \in Int
        /\ AlignOf(DataSec) = M
    <3>1. RoData \in Sections /\ RoData # DataSec
      BY <2>2
    <3> QED BY <1>1, <2>1, <3>1, SectionAlign, DataIsAligned, LayoutAssumption
  <2>5. gap \in Int /\ C \in Int
    <3>1. A \in Nat \ {0} /\ C \in Int
      BY <2>3, <2>4
    <3> HIDE DEF A, C
    <3> QED BY <3>1, AlignProperties
  <2>6. Align(LoadAddress + C, A) = LoadAddress + gap /\ Align(ProgStart + C, A) = ProgStart + gap
    BY <2>4, <2>5, AlignShift
  <2>7. /\ start_address[RoData] = LoadAddress + gap
        /\ start_address[DataSec] = Align((LoadAddress + gap) + R, M)
        /\ start_address[Bss] = start_address[DataSec] + bss
    BY <2>1, <2>4, <2>6, FixedStartsAre
  <2>8. CodeRoDataSize = gap + R
    BY DEF CodeRoDataSize
  <2>9. ASSUME R > 0
        PROVE  RoDataFileOffset = ProgStart + gap
    BY <2>6, <2>9 DEF RoDataFileOffset
  <2>10. DataFileOffset = DataHeaderOffset
    <3>1. CASE R > 0
      <4>1. (ProgStart + gap) + R = ProgStart + (gap + R)
        BY <2>3, <2>4, <2>5
      <4> QED BY <2>8, <2>9, <3>1, <4>1 DEF DataFileOffset, DataHeaderOffset
    <3>2. CASE ~(R > 0)
      <4>1. RoDataFileOffset = ProgStart + C /\ R = 0
        BY <2>3, <3>2 DEF RoDataFileOffset
      <4>2. (ProgStart + C) + 0 = ProgStart + C /\ ProgStart + C \in Int
            /\ ProgStart + (gap + 0) = ProgStart + gap
        BY <2>4, <2>5
      <4>3. Align(Align(ProgStart + C, A), M) = Align(ProgStart + C, M)
        BY <2>4, <4>2, AlignTwice
      <4>4. DataFileOffset = Align(ProgStart + C, M)
        BY <4>1, <4>2 DEF DataFileOffset
      <4>5. DataHeaderOffset = Align(ProgStart + gap, M)
        BY <2>8, <4>1, <4>2 DEF DataHeaderOffset
      <4> QED BY <2>6, <4>3, <4>4, <4>5
    <3> QED BY <3>1, <3>2
  <2>11. DataHeaderOffset % M = 0 /\ start_address[DataSec] % M = 0 /\ start_address[DataSec] \in Int
    <3>1. ProgStart + (gap + R) \in Int /\ (LoadAddress + gap) + R \in Int
      BY <2>3, <2>4, <2>5
    <3>2. /\ DataHeaderOffset = Align(ProgStart + (gap + R), M)
          /\ start_address[DataSec] = Align((LoadAddress + gap) + R, M)
      BY <2>7, <2>8 DEF DataHeaderOffset
    <3> QED BY <2>4, <3>1, <3>2, AlignProperties, DividesMod
  <2>12. bss \in Int
    <3>1. AlignOf(Bss) \in Nat \ {0} /\ D \in Int
      BY <2>1, <2>2, <2>3, AlignOfType
    <3> QED BY <3>1, AlignProperties
  <2>13. DataMemorySize = bss + size[Bss]
    BY DEF DataMemorySize
  <2> HIDE DEF A, C, R, D, M, gap, bss
  <2>14. R > 0 => /\ RoDataFileOffset - ProgStart = start_address[RoData] - LoadAddress
                  /\ RoDataFileOffset + R = ProgStart + CodeRoDataSize
    BY <2>3, <2>4, <2>5, <2>7, <2>8, <2>9
  <2>15. start_address[Bss] + size[Bss] = start_address[DataSec] + DataMemorySize
    BY <2>3, <2>7, <2>11, <2>12, <2>13
  <2> QED BY <2>10, <2>11, <2>14, <2>15 DEF FileMatchesMemory, R, D, M
<1>2. IInv => (AlignmentsFit => FileMatchesMemory)
  BY <1>1
<1> QED BY <1>2, AlwaysIInv, PTL

-----------------------------------------------------------------------------
(* The operands                                                            *)

\* The operand lies within its instruction.
LEMMA OperandSize ==
    ASSUME TypeOK, NEW p \in Operands
    PROVE  /\ Field(p) \in Nat /\ Size(p) \in Nat /\ Field(p) < Size(p)
           /\ Ir(p).kind = "call" => Field(p) = 1 /\ Size(p) = 5
           /\ Ir(p).kind = "lea" => Field(p) = 3 /\ Size(p) = 7
           /\ Ir(p).kind # "align"
<1>1. Ir(p).kind \in {"jmp", "jcc", "call", "lea", "quad", "value"} /\ p \in Items
  BY DEF Operands
<1>2. CASE p \in Jumps
  <2>1. Ir(p).kind \in {"jmp", "jcc"}
    BY <1>2 DEF Jumps
  <2> QED BY <1>2, <2>1 DEF Size, Field, Absolute
<1>3. CASE p \notin Jumps /\ Ir(p).kind # "value"
  <2>1. Ir(p).kind \in {"call", "lea", "quad"}
    BY <1>1, <1>3 DEF Jumps
  <2>2. Size(p) = FixedSize[Ir(p).kind]
    BY <1>3, <2>1 DEF Size, FixedSize
  <2> QED BY <2>1, <2>2 DEF FixedSize, Field, Absolute
<1>4. CASE Ir(p).kind = "value"
  <2>1. Size(p) = Ir(p).size
    BY <1>4 DEF Size, FixedSize, Jumps
  <2>2. Ir(p).size \in Nat /\ Ir(p).size > 0
    BY <1>1, <1>4, ItemIsWellFormed DEF WellFormed
  <2> QED BY <1>4, <2>1, <2>2 DEF Field, Absolute
<1> QED BY <1>2, <1>3, <1>4

\* Where an item is in its section, and where the next can be.
LEMMA OffsetsOrdered ==
    ASSUME TypeOK, Buffered, PointersDefined, NEW p \in Operands, NEW q \in Items,
           q[1] = p[1], p[2] < q[2]
    PROVE  offset[p] + Size(p) <= offset[q]
<1>1. IrsType /\ Sizes \in [Items -> Nat] /\ EmittedSizes = Sizes
  <2>1. EmittedSizes = Sizes
    BY DEF EmittedSizes, Sizes, PointersDefined
  <2> QED BY <2>1, IrsTyped, SizesType
<1>2. p \in Items /\ Ir(p).kind # "align" /\ Size(p) \in Nat /\ Sizes[p] = Size(p)
  BY <1>1, OperandSize, OperandsAreItems, SizesType
<1> DEFINE s == p[1]
           n == Len(section_irs[s])
           h == After(s, 0, Sizes)
<1>3. /\ s \in Sections /\ n \in Nat
      /\ p[2] \in 1..n /\ p = <<s, p[2]>> /\ q[2] \in 1..n /\ q = <<s, q[2]>>
  BY <1>1, <1>2, ItemIs
<1>4. offset[p] = h[p[2] - 1]
  BY <1>1, <1>2 DEF Buffered, Place
<1>5. offset[q] = h[q[2]] \/ offset[q] = h[q[2] - 1]
  BY <1>1 DEF Buffered, Place
<1>6. h[p[2]] = h[p[2] - 1] + Size(p)
  <2>1. h[p[2]] = AfterNext(s, Sizes, p[2], h[p[2] - 1])
    BY <1>1, <1>3, AfterSteps
  <2> QED BY <1>2, <1>3, <2>1 DEF AfterNext
<1>7. \A i, j \in 0..n : i <= j => h[i] <= h[j]
  <2>1. 0 \in Int
    OBVIOUS
  <2> QED BY <1>1, <1>3, <2>1, AfterType
<1> HIDE DEF s, n, h
<1>8. p[2] \in 0..n /\ q[2] \in 0..n /\ q[2] - 1 \in 0..n /\ p[2] <= q[2] /\ p[2] <= q[2] - 1
  BY <1>3
<1>9. h[p[2]] <= h[q[2]] /\ h[p[2]] <= h[q[2] - 1]
  BY <1>7, <1>8
<1> QED BY <1>4, <1>5, <1>6, <1>9

\* No two instructions have an operand at the same place.
LEMMA FieldsApart ==
    ASSUME TypeOK, Buffered, PointersDefined, NEW p \in Operands, NEW q \in Operands,
           p[1] = q[1], offset[p] + Field(p) = offset[q] + Field(q)
    PROVE  p = q
<1>1. p \in Items /\ q \in Items /\ offset[p] \in Int /\ offset[q] \in Int
  BY OperandsAreItems DEF TypeOK
<1>2. p = <<p[1], p[2]>> /\ q = <<q[1], q[2]>> /\ p[2] \in Nat /\ q[2] \in Nat
  BY <1>1, IrsTyped, ItemIs
<1>3. /\ Field(p) \in Nat /\ Size(p) \in Nat /\ Field(p) < Size(p)
      /\ Field(q) \in Nat /\ Size(q) \in Nat /\ Field(q) < Size(q)
  BY OperandSize
<1>4. ~(p[2] < q[2])
  <2>1. p[2] < q[2] => offset[p] + Size(p) <= offset[q]
    BY <1>1, OffsetsOrdered
  <2> QED BY <1>1, <1>3, <2>1
<1>5. ~(q[2] < p[2])
  <2>1. q[2] < p[2] => offset[q] + Size(q) <= offset[p]
    BY <1>1, OffsetsOrdered
  <2> QED BY <1>1, <1>3, <2>1
<1>6. p[2] = q[2]
  BY <1>2, <1>4, <1>5
<1> QED BY <1>2, <1>6

\* The first item of a section is at its start.
LEMMA FirstIsStart ==
    ASSUME TypeOK, AlignsKnown, Final, AlignmentsFit, NEW p \in Items
    PROVE  FirstAddress(p[1]) = section_start_addresses[p[1]]
<1> DEFINE s == p[1]
           x == section_start_addresses[s]
<1>1. IrsType /\ Sizes \in [Items -> Nat]
  BY IrsTyped, SizesType
<1>2. s \in Sections /\ 1 \in 1..Len(section_irs[s]) /\ section_irs[s] # << >>
  <2>1. s \in Sections /\ p[2] \in 1..Len(section_irs[s]) /\ Len(section_irs[s]) \in Nat
    BY <1>1, ItemIs
  <2>2. Len(section_irs[s]) # 0 /\ 1 \in 1..Len(section_irs[s])
    BY <2>1
  <2> QED BY <2>1, <2>2
<1>3. <<s, 1>> \in Items /\ <<s, 1>>[1] = s /\ <<s, 1>>[2] = 1
  BY <1>1, <1>2, ItemsType
<1>4. x \in Int /\ \A a \in Alignments(s) : Divides(a, x)
  BY <1>2, StartsAligned
<1>5. After(s, x, Sizes)[0] = x
  BY <1>1, <1>2, AfterSteps
<1>6. address[<<s, 1>>] = Place(<<s, 1>>, After(s, x, Sizes))
  BY <1>3 DEF Final, Calculated
<1>7. Place(<<s, 1>>, After(s, x, Sizes)) = x
  <2>1. CASE Ir(<<s, 1>>).kind = "align"
    <3>1. Ir(<<s, 1>>).size \in Alignments(s) /\ Ir(<<s, 1>>).size \in Nat \ {0}
      BY <1>1, <1>2, <2>1, ItemsType
    <3>2. After(s, x, Sizes)[1] = AfterNext(s, Sizes, 1, After(s, x, Sizes)[0])
      <4>1. 1 - 1 = 0
        OBVIOUS
      <4> QED BY <1>1, <1>2, <4>1, AfterSteps
    <3>3. AfterNext(s, Sizes, 1, x) = Align(x, Ir(<<s, 1>>).size)
      BY <2>1 DEF AfterNext
    <3>4. Align(x, Ir(<<s, 1>>).size) = x
      BY <1>4, <3>1, AlignAligned
    <3> QED BY <1>3, <1>5, <2>1, <3>2, <3>3, <3>4 DEF Place
  <2>2. CASE Ir(<<s, 1>>).kind # "align"
    BY <1>3, <1>5, <2>2 DEF Place
  <2> QED BY <2>1, <2>2
<1> QED BY <1>2, <1>6, <1>7 DEF FirstAddress

\* fix_section_size puts the sections of an executable where
\* calc_label_address had put them.
LEMMA StartsAgree ==
    ASSUME TypeOK, AlignsKnown, Final, Buffered, AlignmentsFit, PointersDefined, ~out_obj
    PROVE  \A s \in Sections : FixedStarts[s] = section_start_addresses[s]
<1>1. Sections = {0, 1, 2, 3} /\ Code = 0 /\ RoData = 1 /\ DataSec = 2 /\ Bss = 3
  BY DEF Sections, Code, Bss, RoData, DataSec
<1>2. /\ IrsType /\ Sizes \in [Items -> Nat] /\ AlignsSettled /\ section_start_addresses = Starts
      /\ Starts \in [Sections -> Int]
  BY IrsTyped, SizesType, StartsSteps DEF Final
<1>3. EmittedSizes = Sizes
  BY DEF EmittedSizes, Sizes, PointersDefined
<1>4. ASSUME NEW s \in Sections
      PROVE  After(s, Starts[s], Sizes)[Len(section_irs[s])] = Starts[s] + size[s]
             /\ Starts[s] + size[s] \in Int /\ size[s] \in Int
  <2>1. Starts[s] \in Int /\ \A a \in Alignments(s) : Divides(a, Starts[s])
    BY <1>2, StartsAligned
  <2>2. Len(section_irs[s]) \in 0..Len(section_irs[s])
    BY <1>2, ItemsType
  <2>3. size[s] = After(s, 0, Sizes)[Len(section_irs[s])] /\ size[s] \in Int
    BY <1>3 DEF Buffered, TypeOK
  <2> QED BY <1>2, <2>1, <2>2, <2>3, AfterShift
<1>5. ASSUME NEW s \in Sections, NEW x \in Int PROVE AlignedTo(x, section_aligns[s]) = Align(x, AlignOf(s))
  <2>1. /\ AlignOf(s) = IF section_aligns[s] = 0 THEN 1 ELSE section_aligns[s]
        /\ section_aligns[s] \in Nat
    BY AlignOfType
  <2>2. Align(x, 1) = x
    BY DividesOne, AlignAligned
  <2> QED BY <2>1, <2>2 DEF AlignedTo
<1>6. ASSUME NEW s \in {RoData, DataSec, Bss}
      PROVE  Starts[s] = Align(Starts[s - 1] + size[s - 1], AlignOf(s))
  <2>1. s \in Sections /\ s - 1 \in Sections
    BY <1>1
  <2> QED BY <1>4, <1>5, <1>6, <2>1, StartsSteps
<1>7. Starts[Code] = LoadAddress
  <2>1. LoadAddress \in Int /\ Code \in Sections /\ Code # DataSec
    BY <1>1, LayoutAssumption
  <2>2. AlignOf(Code) \in Nat \ {0} /\ Divides(AlignOf(Code), LoadAddress)
    BY <1>2, <2>1, SectionAlign
  <2>3. Align(LoadAddress, AlignOf(Code)) = LoadAddress
    BY <2>1, <2>2, AlignAligned
  <2> QED BY <1>5, <2>1, <2>3, StartsSteps
<1>8. 1 - 1 = 0 /\ 2 - 1 = 1 /\ 3 - 1 = 2
  OBVIOUS
<1>9. Starts[RoData] = FixedStarts[RoData]
  BY <1>1, <1>6, <1>7, <1>8, FixedStartsAre
<1>10. Starts[DataSec] = FixedStarts[DataSec]
  BY <1>1, <1>6, <1>8, <1>9, FixedStartsAre
<1>11. Starts[Bss] = FixedStarts[Bss]
  <2>1. AlignOf(Bss) \in Nat \ {0} /\ Divides(AlignOf(Bss), DataAlign)
    BY <1>1, <1>2, SectionAlign
  <2>2. DataAlign \in Nat \ {0} /\ AlignOf(DataSec) = DataAlign
    BY <1>2, DataIsAligned, LayoutAssumption
  <2>3. Divides(DataAlign, Starts[DataSec]) /\ Starts[DataSec] \in Int /\ size[DataSec] \in Int
    <3>1. Starts[RoData] + size[RoData] \in Int
      BY <1>1, <1>4
    <3> QED BY <1>1, <1>2, <1>4, <1>6, <1>8, <2>2, <3>1, AlignProperties
  <2>4. Divides(AlignOf(Bss), Starts[DataSec])
    BY <2>1, <2>2, <2>3, DividesTrans
  <2>5. Align(Starts[DataSec] + size[DataSec], AlignOf(Bss))
          = Starts[DataSec] + Align(size[DataSec], AlignOf(Bss))
    BY <2>1, <2>3, <2>4, AlignShift
  <2> QED BY <1>1, <1>6, <1>8, <1>10, <2>5, FixedStartsAre
<1> QED BY <1>1, <1>2, <1>7, <1>9, <1>10, <1>11, FixedStartsAre

\* A relocation at the place of an instruction's operand is its own.
Own(p, kind, add) == {Unresolved(p, kind, add)}
Links(p) == {u \in unresolved : u.src_section = p[1] /\ u.offset = offset[p] + Field(p)}

LEMMA LinksAre ==
    ASSUME TypeOK, AlignsKnown, Final, Resolved, Buffered, AlignmentsFit, PointersDefined,
           out_obj, NEW p \in Operands
    PROVE  /\ CallExtern(p) => Links(p) = Own(p, "EXTERN", -4)
           /\ LeaExtern(p) => Links(p) = Own(p, "EXTERN_PC32", -4)
           /\ LeaOtherSection(p) =>
                 Links(p) = Own(p, "OTHER_SECTION",
                                Target(p) - FirstAddress(Definition(Ir(p).label)[1]) - 4)
           /\ QuadAbsolute(p) => Links(p) = Own(p, "ABS64", 0)
           /\ ~LeftToLinker(p) => Links(p) = {}
<1>1. unresolved = LeftOver
  BY DEF Resolved
<1>2. \A q \in Items : offset[q] = address[q] - section_start_addresses[q[1]]
                       /\ FirstAddress(q[1]) = section_start_addresses[q[1]]
                       /\ offset[q] \in Int /\ address[q] \in Int
                       /\ section_start_addresses[q[1]] \in Int
  <2>1. \A q \in Items : q[1] \in Sections
    BY IrsTyped, ItemIs
  <2> QED BY <2>1, OffsetsAgree, FirstIsStart DEF TypeOK
<1>3. \A q \in Operands : q \in Items /\ Field(q) \in Nat
  BY OperandsAreItems, OperandSize
<1>4. ASSUME NEW q \in Operands, NEW kind, NEW add
      PROVE  /\ Unresolved(q, kind, add).src_section = q[1]
             /\ Unresolved(q, kind, add).offset = offset[q] + Field(q)
  <2>1. Unresolved(q, kind, add).offset = address[q] + Field(q) - FirstAddress(q[1])
        /\ Unresolved(q, kind, add).src_section = q[1]
    BY DEF Unresolved
  <2>2. address[q] + Field(q) - FirstAddress(q[1]) = offset[q] + Field(q)
    BY <1>2, <1>3
  <2> QED BY <2>1, <2>2
<1>5. \A q \in Items : LeftToLinker(q) => q \in Operands
  BY DEF LeftToLinker, CallExtern, LeaExtern, LeaOtherSection, QuadAbsolute, Operands
<1>6. \A q \in Items : (CallExtern(q) \/ LeaExtern(q) \/ LeaOtherSection(q) \/ QuadAbsolute(q))
                          => q \in Operands
  BY <1>5 DEF LeftToLinker
<1>7. ASSUME NEW u \in Links(p)
      PROVE  \/ CallExtern(p) /\ u = Unresolved(p, "EXTERN", -4)
             \/ LeaExtern(p) /\ u = Unresolved(p, "EXTERN_PC32", -4)
             \/ LeaOtherSection(p) /\ u = Unresolved(p, "OTHER_SECTION",
                    Target(p) - FirstAddress(Definition(Ir(p).label)[1]) - 4)
             \/ QuadAbsolute(p) /\ u = Unresolved(p, "ABS64", 0)
  <2>1. u \in LeftOver /\ u.src_section = p[1] /\ u.offset = offset[p] + Field(p)
    BY <1>1 DEF Links
  <2>2. PICK q \in Items :
           \/ CallExtern(q) /\ u = Unresolved(q, "EXTERN", -4)
           \/ LeaExtern(q) /\ u = Unresolved(q, "EXTERN_PC32", -4)
           \/ LeaOtherSection(q) /\ u = Unresolved(q, "OTHER_SECTION",
                  Target(q) - FirstAddress(Definition(Ir(q).label)[1]) - 4)
           \/ QuadAbsolute(q) /\ u = Unresolved(q, "ABS64", 0)
    BY <2>1 DEF LeftOver
  <2>3. q \in Operands
    BY <1>6, <2>2
  <2>4. u.src_section = q[1] /\ u.offset = offset[q] + Field(q)
    BY <1>4, <2>2, <2>3
  <2>5. q = p
    BY <2>1, <2>3, <2>4, FieldsApart
  <2> QED BY <2>2, <2>5
<1>8. \A kind, add : Unresolved(p, kind, add) \in LeftOver => Unresolved(p, kind, add) \in Links(p)
  BY <1>1, <1>4 DEF Links
<1>9. p \in Items
  BY <1>3
<1>10. CallExtern(p) => Links(p) = Own(p, "EXTERN", -4)
  <2> SUFFICES ASSUME CallExtern(p) PROVE Links(p) = Own(p, "EXTERN", -4)
    OBVIOUS
  <2>1. Unresolved(p, "EXTERN", -4) \in Links(p)
    BY <1>8, <1>9 DEF LeftOver
  <2>2. ~LeaExtern(p) /\ ~LeaOtherSection(p) /\ ~QuadAbsolute(p)
    BY DEF CallExtern, LeaExtern, LeaOtherSection, QuadAbsolute
  <2> QED BY <1>7, <2>1, <2>2 DEF Own
<1>11. LeaExtern(p) => Links(p) = Own(p, "EXTERN_PC32", -4)
  <2> SUFFICES ASSUME LeaExtern(p) PROVE Links(p) = Own(p, "EXTERN_PC32", -4)
    OBVIOUS
  <2>1. Unresolved(p, "EXTERN_PC32", -4) \in Links(p)
    BY <1>8, <1>9 DEF LeftOver
  <2>2. ~CallExtern(p) /\ ~LeaOtherSection(p) /\ ~QuadAbsolute(p)
    BY DEF CallExtern, LeaExtern, LeaOtherSection, QuadAbsolute
  <2> QED BY <1>7, <2>1, <2>2 DEF Own
<1>12. LeaOtherSection(p) =>
          Links(p) = Own(p, "OTHER_SECTION",
                         Target(p) - FirstAddress(Definition(Ir(p).label)[1]) - 4)
  <2> DEFINE add == Target(p) - FirstAddress(Definition(Ir(p).label)[1]) - 4
  <2> SUFFICES ASSUME LeaOtherSection(p) PROVE Links(p) = Own(p, "OTHER_SECTION", add)
    OBVIOUS
  <2>1. Unresolved(p, "OTHER_SECTION", add) \in LeftOver
    BY <1>9 DEF LeftOver
  <2>2. ~CallExtern(p) /\ ~LeaExtern(p) /\ ~QuadAbsolute(p)
    BY DEF CallExtern, LeaExtern, LeaOtherSection, QuadAbsolute
  <2>3. \A u \in Links(p) : u = Unresolved(p, "OTHER_SECTION", add)
    BY <1>7, <2>2
  <2> HIDE DEF add
  <2>4. Unresolved(p, "OTHER_SECTION", add) \in Links(p)
    BY <1>8, <2>1
  <2> QED BY <2>3, <2>4 DEF Own
<1>13. QuadAbsolute(p) => Links(p) = Own(p, "ABS64", 0)
  <2> SUFFICES ASSUME QuadAbsolute(p) PROVE Links(p) = Own(p, "ABS64", 0)
    OBVIOUS
  <2>1. Unresolved(p, "ABS64", 0) \in Links(p)
    BY <1>8, <1>9 DEF LeftOver
  <2>2. ~CallExtern(p) /\ ~LeaExtern(p) /\ ~LeaOtherSection(p)
    BY DEF CallExtern, LeaExtern, LeaOtherSection, QuadAbsolute
  <2> QED BY <1>7, <2>1, <2>2 DEF Own
<1>14. ~LeftToLinker(p) => Links(p) = {}
  BY <1>7 DEF LeftToLinker
<1> QED BY <1>10, <1>11, <1>12, <1>13, <1>14

\* What the linker or put_value stored.
Value(p, base) ==
    IF Links(p) # {} THEN LinkedValue(CHOOSE u \in Links(p) : TRUE, base) ELSE operand[p]

LEMMA ValueIs ==
    ASSUME NEW p, NEW base
    PROVE  /\ Links(p) = {} => Value(p, base) = operand[p]
           /\ \A kind, add : Links(p) = Own(p, kind, add) =>
                 Value(p, base) = LinkedValue(Unresolved(p, kind, add), base)
BY DEF Value, Own

\* What the linker makes of a relocation.
LEMMA LinkedIs ==
    ASSUME NEW p, NEW kind, NEW add, NEW base
    PROVE  LET u == Unresolved(p, kind, add)
               l == Ir(p).label
           IN  LinkedValue(u, base) = SymbolValue(u, base) + Addend(u)
                  - (IF kind = "ABS64" THEN 0 ELSE base[p[1]] + u.offset)
               /\ u.label = l /\ u.kind = kind /\ u.add = add /\ u.src_section = p[1]
BY DEF LinkedValue, Unresolved

LEMMA JumpsPut ==
    ASSUME Resolved, NEW p \in Operands, Defined(Ir(p).label), ~Absolute(p),
           ~(out_obj /\ LeftToLinker(p))
    PROVE  operand[p] = Relative(p)
BY DEF Resolved, PutNow

LEMMA ValueReaches ==
    ASSUME IInv, Written, AlignmentsFit, PointersDefined, CodeAndData,
           NEW p \in Operands, NEW base \in Bases, InPlace(p)
    PROVE  ReachesTarget(p, base)
<1>1. /\ TypeOK /\ AlignsKnown /\ Final /\ Resolved /\ Buffered /\ AlignsSettled
      /\ start_address = FixedStarts /\ IrsType
  BY IrsTyped DEF IInv, Written, Final
<1> DEFINE l == Ir(p).label
           d == Definition(l)
           s == p[1]
           t == d[1]
           start == section_start_addresses
<1>2. \A q \in Items : /\ q[1] \in Sections
                       /\ offset[q] = address[q] - start[q[1]]
                       /\ FirstAddress(q[1]) = start[q[1]]
                       /\ offset[q] \in Int /\ address[q] \in Int /\ start[q[1]] \in Int
                       /\ base[q[1]] \in Int
  <2>1. \A q \in Items : q[1] \in Sections
    BY <1>1, ItemIs
  <2> QED BY <1>1, <2>1, OffsetsAgree, FirstIsStart, BasesAligned DEF TypeOK
<1>3. p \in Items /\ Size(p) \in Nat /\ Field(p) \in Nat
  BY <1>1, OperandsAreItems, OperandSize
<1>4. Defined(l) => d \in Items
  BY DEF Defined, Definition
<1>5. /\ Target(p) = address[d] + Ir(p).add
      /\ Relative(p) = (address[d] + Ir(p).add) - (address[p] + Size(p))
  BY DEF Target, Relative
<1>10. Ir(p).add \in Int
  BY <1>1, <1>3, ItemIsWellFormed DEF WellFormed
<1>6. At(p, base) = base[s] + offset[p] /\ At(d, base) = base[t] + offset[d]
  BY DEF At
<1> DEFINE target == (IF Defined(l) THEN At(d, base) ELSE ExternAddress) + Ir(p).add
<1>7. ReachesTarget(p, base)
        <=> Value(p, base) = IF Absolute(p) THEN target
                             ELSE target - (At(p, base) + Size(p))
  BY DEF ReachesTarget, PlaceMeant, Value, Links
<1>8. CASE ~out_obj
  <2>1. \A u : u \notin unresolved
    BY <1>1, <1>8 DEF Resolved
  <2>2. Links(p) = {}
    BY <2>1 DEF Links
  <2>3. Value(p, base) = operand[p]
    BY <2>2, ValueIs
  <2>4. Defined(l)
    BY <1>1, <1>8 DEF Resolved, Undefined
  <2>5. base = FixedStarts
    BY <1>1, <1>8 DEF Bases
  <2>6. base[s] = start[s] /\ base[t] = start[t]
    BY <1>1, <1>2, <1>3, <1>4, <1>8, <2>4, <2>5, StartsAgree
  <2>7. At(p, base) = address[p] /\ At(d, base) = address[d]
    BY <1>2, <1>3, <1>4, <1>6, <2>4, <2>6
  <2>8. CASE Absolute(p)
    <3>1. operand[p] = Target(p)
      BY <1>1, <2>4, <2>8 DEF Buffered
    <3> QED BY <1>5, <1>7, <2>3, <2>4, <2>7, <2>8, <3>1
  <2>9. CASE ~Absolute(p)
    <3>1. operand[p] = Relative(p)
      BY <1>1, <1>8, <2>4, <2>9, JumpsPut
    <3> QED BY <1>5, <1>7, <2>3, <2>4, <2>7, <2>9, <3>1
  <2> QED BY <2>8, <2>9
<1>9. CASE out_obj
  <2>1. CASE ~LeftToLinker(p)
    <3>1. Links(p) = {}
      BY <1>1, <1>9, <2>1, LinksAre
    <3>2. Value(p, base) = operand[p]
      BY <3>1, ValueIs
    <3>3. /\ Ir(p).kind \in {"jmp", "jcc", "call", "lea"} /\ ~Absolute(p)
          /\ LabelAlone(p) \/ (Ir(p).kind = "lea" /\ Defined(l) /\ t = s)
      <4>1. Ir(p).kind \in {"jmp", "jcc", "call", "lea", "quad", "value"}
        BY DEF Operands
      <4>2. LabelAlone(p) \/ (Ir(p).kind = "lea" /\ Defined(l) /\ t = s)
        BY <1>9 DEF InPlace
      <4>3. Ir(p).kind # "value"
        BY <4>2 DEF LabelAlone
      <4>4. Ir(p).kind = "quad" => QuadAbsolute(p)
        BY <4>2 DEF CodeAndData, QuadAbsolute
      <4> QED BY <2>1, <4>1, <4>2, <4>3, <4>4 DEF LeftToLinker, Absolute
    <3>4. Defined(l)
      <4>1. CASE Ir(p).kind \in {"jmp", "jcc"}
        BY <1>1, <1>3, <1>9, <4>1 DEF Resolved, Undefined, Jumps
      <4>2. CASE Ir(p).kind \in {"call", "lea"}
        BY <2>1, <3>3, <4>2 DEF LeftToLinker, CallExtern, LeaExtern
      <4> QED BY <3>3, <4>1, <4>2
    <3>5. t = s
      <4>1. CASE Ir(p).kind = "lea"
        BY <2>1, <3>3, <3>4, <4>1 DEF LeftToLinker, LeaOtherSection
      <4>2. CASE Ir(p).kind # "lea"
        BY <3>3, <3>4, <4>2 DEF CodeAndData
      <4> QED BY <4>1, <4>2
    <3>6. operand[p] = Relative(p)
      BY <1>1, <2>1, <3>3, <3>4, JumpsPut
    <3>7. target - (At(p, base) + Size(p)) = (address[d] + Ir(p).add) - (address[p] + Size(p))
      <4>1. /\ offset[p] = address[p] - start[s] /\ offset[d] = address[d] - start[s]
            /\ base[s] \in Int /\ start[s] \in Int /\ address[p] \in Int /\ address[d] \in Int
        BY <1>2, <1>3, <1>4, <3>4, <3>5
      <4>2. At(p, base) = base[s] + offset[p] /\ At(d, base) = base[s] + offset[d]
        BY <1>6, <3>5
      <4>3. target = At(d, base) + Ir(p).add
        BY <3>4
      <4> HIDE DEF d, s, t, start, target
      <4> QED BY <1>3, <1>10, <4>1, <4>2, <4>3
    <3> QED BY <1>5, <1>7, <3>2, <3>3, <3>4, <3>6, <3>7
  <2>2. CASE CallExtern(p)
    <3> DEFINE u == Unresolved(p, "EXTERN", -4)
    <3>1. /\ Ir(p).kind = "call" /\ ~Defined(l) /\ Field(p) = 1 /\ Size(p) = 5
          /\ ~Absolute(p) /\ Ir(p).add = 0
      BY <1>1, <1>3, <2>2, OperandSize, ItemIsWellFormed DEF CallExtern, Absolute, WellFormed
    <3>2. Value(p, base) = LinkedValue(u, base)
      BY <1>1, <1>9, <2>2, LinksAre, ValueIs
    <3>3. u.label = l /\ u.kind = "EXTERN" /\ u.add = -4 /\ u.offset = offset[p] + 1
      BY <1>2, <1>3, <3>1 DEF Unresolved
    <3>4. LinkedValue(u, base) = SymbolValue(u, base) + Addend(u) - (base[s] + u.offset)
      BY LinkedIs
    <3>5. SymbolValue(u, base) = ExternAddress /\ Addend(u) = -4 + 0
      BY <3>1, <3>3 DEF SymbolValue, Addend, BySection
    <3>6. target = ExternAddress /\ ExternAddress \in Int
      BY <3>1, LayoutAssumption
    <3>7. offset[p] \in Int /\ base[s] \in Int
      BY <1>2, <1>3
    <3> HIDE DEF u, target, l, s
    <3>8. LinkedValue(u, base) = target - (At(p, base) + Size(p))
      BY <1>6, <3>1, <3>3, <3>4, <3>5, <3>6, <3>7
    <3> QED BY <1>7, <3>1, <3>2, <3>8
  <2>3. CASE LeaExtern(p)
    <3> DEFINE u == Unresolved(p, "EXTERN_PC32", -4)
    <3>1. /\ Ir(p).kind = "lea" /\ ~Defined(l) /\ Field(p) = 3 /\ Size(p) = 7
          /\ ~Absolute(p) /\ Ir(p).add = 0
      BY <1>1, <2>3, OperandSize DEF LeaExtern, LabelAlone, Absolute
    <3>2. Value(p, base) = LinkedValue(u, base)
      BY <1>1, <1>9, <2>3, LinksAre, ValueIs
    <3>3. u.label = l /\ u.kind = "EXTERN_PC32" /\ u.add = -4 /\ u.offset = offset[p] + 3
      BY <1>2, <1>3, <3>1 DEF Unresolved
    <3>4. LinkedValue(u, base) = SymbolValue(u, base) + Addend(u) - (base[s] + u.offset)
      BY LinkedIs
    <3>5. SymbolValue(u, base) = ExternAddress /\ Addend(u) = -4 + 0
      BY <3>1, <3>3 DEF SymbolValue, Addend, BySection
    <3>6. target = ExternAddress /\ ExternAddress \in Int
      BY <3>1, LayoutAssumption
    <3>7. offset[p] \in Int /\ base[s] \in Int
      BY <1>2, <1>3
    <3> HIDE DEF u, target, l, s
    <3>8. LinkedValue(u, base) = target - (At(p, base) + Size(p))
      BY <1>6, <3>1, <3>3, <3>4, <3>5, <3>6, <3>7
    <3> QED BY <1>7, <3>1, <3>2, <3>8
  <2>4. CASE LeaOtherSection(p)
    <3> DEFINE add == Target(p) - FirstAddress(t) - 4
               u == Unresolved(p, "OTHER_SECTION", add)
    <3>1. /\ Ir(p).kind = "lea" /\ Defined(l) /\ Field(p) = 3 /\ Size(p) = 7
          /\ ~Absolute(p) /\ Ir(p).add = 0
      BY <1>1, <2>4, OperandSize DEF LeaOtherSection, LabelAlone, Absolute
    <3>2. Value(p, base) = LinkedValue(u, base)
      BY <1>1, <1>9, <2>4, LinksAre, ValueIs
    <3>3. u.label = l /\ u.kind = "OTHER_SECTION" /\ u.add = add /\ u.offset = offset[p] + 3
      BY <1>2, <1>3, <3>1 DEF Unresolved
    <3>4. LinkedValue(u, base) = SymbolValue(u, base) + Addend(u) - (base[s] + u.offset)
      BY LinkedIs
    <3>5. SymbolValue(u, base) = base[t] + 0 /\ Addend(u) = add + 0
      BY <3>1, <3>3 DEF SymbolValue, Addend, BySection
    <3>6. target = At(d, base)
      <4>1. At(d, base) \in Int
        BY <1>2, <1>3, <1>4, <1>6, <3>1
      <4> QED BY <3>1, <4>1
    <3>7. /\ offset[p] \in Int /\ base[s] \in Int /\ offset[d] \in Int /\ base[t] \in Int
          /\ add = offset[d] - 4
      BY <1>2, <1>3, <1>4, <1>5, <3>1
    <3> HIDE DEF u, add, target, l, s, t, d
    <3>8. LinkedValue(u, base) = target - (At(p, base) + Size(p))
      BY <1>6, <3>1, <3>3, <3>4, <3>5, <3>6, <3>7
    <3> QED BY <1>7, <3>1, <3>2, <3>8
  <2>5. CASE QuadAbsolute(p)
    <3> DEFINE u == Unresolved(p, "ABS64", 0)
    <3>1. Ir(p).kind = "quad" /\ Defined(l) /\ Absolute(p) /\ Ir(p).add = 0
      BY <1>3, <2>5 DEF QuadAbsolute, PointersDefined, LabelAlone, Absolute
    <3>2. Value(p, base) = LinkedValue(u, base)
      BY <1>1, <1>9, <2>5, LinksAre, ValueIs
    <3>3. u.label = l /\ u.kind = "ABS64" /\ u.add = 0
      BY DEF Unresolved
    <3>4. LinkedValue(u, base) = SymbolValue(u, base) + (Addend(u) - 0)
      BY LinkedIs
    <3>5. SymbolOffset(u.label) = offset[d]
      BY <1>2, <1>4, <3>1, <3>3 DEF SymbolOffset
    <3>6. SymbolValue(u, base) + (Addend(u) - 0) = base[t] + offset[d]
      <4>1. offset[d] \in Int /\ base[t] \in Int
        BY <1>2, <1>4, <3>1
      <4>2. SymbolValue(u, base) = base[t] + (IF BySection(u) THEN 0 ELSE offset[d])
        BY <3>1, <3>3, <3>5 DEF SymbolValue
      <4>3. Addend(u) = 0 + (IF BySection(u) THEN offset[d] ELSE 0)
        BY <3>3, <3>5 DEF Addend
      <4> HIDE DEF u, t, d
      <4> QED BY <4>1, <4>2, <4>3
    <3>7. base[t] + offset[d] \in Int /\ target = base[t] + offset[d]
      BY <1>2, <1>4, <1>6, <3>1
    <3>8. LinkedValue(u, base) = target
      BY <3>4, <3>6, <3>7
    <3> QED BY <1>7, <3>1, <3>2, <3>8
  <2> QED BY <2>1, <2>2, <2>3, <2>4, <2>5 DEF LeftToLinker
<1> QED BY <1>8, <1>9

\* Every jump, call, address and pointer that was emitted leads to the place
\* where its label lies in memory, in an executable as laid out by
\* fix_section_size and in an object file after a linker has applied its
\* relocations at any aligned places, and no jump left short has an operand
\* that does not fit its byte.
THEOREM AsmOperandsReachTargets ==
    Spec => []((AlignmentsFit /\ PointersDefined /\ CodeAndData) => OperandsReachTargets)
<1>1. ASSUME IInv, AlignmentsFit, PointersDefined, CodeAndData PROVE OperandsReachTargets
  <2> SUFFICES ASSUME Written PROVE OperandsReachTargets
    BY DEF OperandsReachTargets
  <2>1. \A p \in Operands, base \in Bases : InPlace(p) => ReachesTarget(p, base)
    BY <1>1, ValueReaches
  <2>2. ASSUME NEW p \in Jumps \ long PROVE IsIm8(operand[p])
    <3>1. Resolved /\ p \in Operands /\ p \in Items /\ Ir(p).kind \in {"jmp", "jcc"}
      BY <1>1, OperandsAreItems DEF IInv, Written, Jumps
    <3>2. Defined(Ir(p).label)
      BY <3>1 DEF Resolved, Undefined
    <3>3. ~LeftToLinker(p)
      BY <3>1 DEF LeftToLinker, CallExtern, LeaExtern, LeaOtherSection, QuadAbsolute
    <3>4. operand[p] = Relative(p)
      BY <3>1, <3>2, <3>3, JumpsPut DEF Absolute
    <3>5. IsIm8(Relative(p))
      BY <3>1, <3>2 DEF Resolved, Upgraded
    <3> QED BY <3>4, <3>5
  <2> QED BY <2>1, <2>2 DEF OperandsReachTargets
<1>2. IInv => ((AlignmentsFit /\ PointersDefined /\ CodeAndData) => OperandsReachTargets)
  BY <1>1
<1> QED BY <1>2, AlwaysIInv, PTL
=============================================================================
