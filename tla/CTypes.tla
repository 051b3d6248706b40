------------------------------- MODULE CTypes -------------------------------
(***************************************************************************)
(* Types of the compiled language and arithmetic on values of a type:      *)
(* src/cc/type.c, and clamp_value of src/cc/ir.c.  Integer types have five *)
(* ranks (char, short, int, long, long long); floating-point types,        *)
(* unions, enums and functions are left out.  CharBit is the number of     *)
(* bits of a byte, 8 in the code; a smaller one keeps every value within   *)
(* what TLC computes.                                                      *)
(***************************************************************************)
EXTENDS Integers, Sequences
LOCAL INSTANCE Bitwise

CONSTANTS CharBit,
          FixnumSize   \* the bytes of each rank: 1, 2, 4, 8, 8 for x86-64,
                       \* 1, 2, 4, 4, 8 for WebAssembly

ASSUME CharBitAssumption == CharBit \in Nat \ {0}
ASSUME FixnumSizeAssumption == FixnumSize \in Seq({1, 2, 4, 8}) /\ Len(FixnumSize) = 5

Fixed(rank, uns) == [kind |-> "fixnum", rank |-> rank, uns |-> uns]
PtrTo(t) == [kind |-> "ptr", to |-> t]
ArrayOf(t, n) == [kind |-> "array", to |-> t, length |-> n]
StructOf(members) == [kind |-> "struct", members |-> members]

CharType == Fixed(0, FALSE)
IntType == Fixed(2, FALSE)
LongType == Fixed(3, FALSE)
LLongType == Fixed(4, FALSE)
VoidType == [kind |-> "void"]
Unsigned(t) == [t EXCEPT !.uns = TRUE]
BoolType == IntType
SizeType == Unsigned(LongType)

IsNumber(t) == t.kind = "fixnum"
PtrOrArray(t) == t.kind \in {"ptr", "array"}
IsScalar(t) == t.kind \in {"fixnum", "ptr"}
Decayed(t) == IF t.kind = "array" THEN PtrTo(t.to) ELSE t

\* The compiler's own integers (intptr_t), and the addresses it compiles for.
WordSize == 8
PtrSize == FixnumSize[4]
RoundUp(n, align) == ((n + align - 1) \div align) * align

RECURSIVE AlignOf(_), SizeOf(_), SizeUpTo(_, _)
AlignOf(t) ==
  CASE t.kind = "fixnum" -> FixnumSize[t.rank + 1]
    [] t.kind = "ptr" -> PtrSize
    [] t.kind = "array" -> AlignOf(t.to)
    [] t.kind = "struct" -> LET aligns == {AlignOf(t.members[i]) : i \in DOMAIN t.members}
                            IN  CHOOSE a \in aligns : \A b \in aligns : b <= a
\* The bytes that the first n members of a structure take.
SizeUpTo(members, n) ==
  IF n = 0 THEN 0
  ELSE RoundUp(SizeUpTo(members, n - 1), AlignOf(members[n])) + SizeOf(members[n])
SizeOf(t) ==
  CASE t.kind = "fixnum" -> FixnumSize[t.rank + 1]
    [] t.kind = "ptr" -> PtrSize
    [] t.kind = "array" -> SizeOf(t.to) * t.length
    [] t.kind = "struct" -> RoundUp(SizeUpTo(t.members, Len(t.members)), AlignOf(t))

MemberOffset(t, i) == RoundUp(SizeUpTo(t.members, i - 1), AlignOf(t.members[i]))

(***************************************************************************)
(* Two's complement.  Wrap(v, size, uns) is the number that the low size   *)
(* bytes of v stand for.                                                   *)
(***************************************************************************)
Modulus(size) == 2 ^ (size * CharBit)
Wrap(v, size, uns) ==
  LET low == v % Modulus(size)
  IN  IF ~uns /\ 2 * low >= Modulus(size) THEN low - Modulus(size) ELSE low

Fixnum(v) == Wrap(v, WordSize, FALSE)
IsImm32(v) == Wrap(v, 4, FALSE) = v

\* The bytes of a number or a pointer, and what they hold of a value.
ScalarSize(t) == IF t.kind = "fixnum" THEN FixnumSize[t.rank + 1] ELSE PtrSize
InType(v, t) == Wrap(v, ScalarSize(t), t.kind # "fixnum" \/ t.uns)

Magnitude(v) == IF v < 0 THEN -v ELSE v
Quotient(a, b) == LET q == Magnitude(a) \div Magnitude(b)
                  IN  IF (a < 0) = (b < 0) THEN q ELSE -q

\* The exact result of an operator; who calls it wraps it.
Exact(op, a, b) ==
  LET Bits(v) == v % Modulus(WordSize) IN
  CASE op = "ADD" -> a + b
    [] op = "SUB" -> a - b
    [] op = "MUL" -> a * b
    [] op = "DIV" -> Quotient(a, b)
    [] op = "MOD" -> a - b * Quotient(a, b)
    [] op = "BITAND" -> Bits(a) & Bits(b)
    [] op = "BITOR" -> Bits(a) | Bits(b)
    [] op = "BITXOR" -> Bits(a) ^^ Bits(b)
    [] op = "LSHIFT" -> a * 2 ^ b
    [] op = "RSHIFT" -> a \div 2 ^ b

Holds(op, a, b) ==
  CASE op = "EQ" -> a = b
    [] op = "NE" -> a # b
    [] op = "LT" -> a < b
    [] op = "LE" -> a <= b
    [] op = "GE" -> a >= b
    [] op = "GT" -> a > b

Comparisons == {"EQ", "NE", "LT", "LE", "GE", "GT"}
Shifts == {"LSHIFT", "RSHIFT"}
Arithmetic == {"ADD", "SUB", "MUL", "DIV", "MOD", "BITAND", "BITOR", "BITXOR"} \cup Shifts
Truth(b) == IF b THEN 1 ELSE 0
=============================================================================
