----------------------------- MODULE AsmLayout -----------------------------
(***************************************************************************)
(* The layout of the assembler (as/as.c, as/ir_asm.c, as/gen.c): addresses *)
(* are assigned and jumps lengthened until both settle, the items are      *)
(* emitted into section buffers, and an executable or an object file is    *)
(* written.  Each place is computed three times, by calc_label_address     *)
(* from lengths, by emit_irs from the buffers, and by fix_section_size and *)
(* the output functions from the sizes of the buffers.                     *)
(***************************************************************************)
EXTENDS Integers, Sequences, FiniteSetsExt, Functions, TLC

CONSTANTS
    Programs,       \* section_irs, and which labels are global
    LoadAddress,    \* LOAD_ADDRESS
    ProgStart,      \* PROG_START, the offset of the code in an executable
    DataAlign,      \* DATA_ALIGN
    Im8Max,         \* is_im8: -Im8Max - 1 .. Im8Max
    ExternAddress   \* where the linker finds the symbols of other files

Code == 0
RoData == 1
DataSec == 2
Bss == 3
Sections == Code..Bss

\* The items of the sections: lengths are counted in bytes.  What refers to a
\* label may add to it; the parser admits that in an lea, a .quad and a value,
\* which is a .byte, .word or .long of 1, 2 or 4 bytes.
WellFormed(ir) ==
    /\ ir.size \in Nat /\ ir.add \in Int
    /\ ir.kind \in {"align", "value"} => ir.size > 0
    /\ ir.kind \in {"jmp", "jcc", "call"} => ir.add = 0
SectionIrs(irs) ==
    \A s \in Sections :
        /\ irs[s] \in Seq(Range(irs[s]))
        /\ \A ir \in Range(irs[s]) : WellFormed(ir)

ASSUME LayoutAssumption ==
    /\ LoadAddress \in Nat /\ ProgStart \in Nat /\ DataAlign \in Nat \ {0}
    /\ Im8Max \in Nat /\ ExternAddress \in Int
    /\ \A program \in Programs : SectionIrs(program.irs)

VARIABLES
    section_irs, globals, out_obj,           \* the input
    pc, status,
    section_aligns, section_start_addresses,
    address,        \* ir->address, by <<section, index>>
    long,           \* the jumps with INST_LONG_OFFSET
    settle1,
    operand,        \* what put_value stored, by <<section, index>>
    unresolved,
    offset, size,   \* what the buffers hold: offset of each item, total
    start_address   \* Section.start_address

vars == <<section_irs, globals, out_obj, pc, status, section_aligns, section_start_addresses,
          address, long, settle1, operand, unresolved, offset, size, start_address>>
input == <<section_irs, globals, out_obj>>

Items == UNION {{s} \X DOMAIN section_irs[s] : s \in Sections}
Ir(p) == section_irs[p[1]][p[2]]
Jumps == {p \in Items : Ir(p).kind \in {"jmp", "jcc"}}
Operands == {p \in Items : Ir(p).kind \in {"jmp", "jcc", "call", "lea", "quad", "value"}}
Absolute(p) == Ir(p).kind \in {"quad", "value"}

\* The label table: where a label is defined.
Defined(l) == \E p \in Items : Ir(p).kind = "label" /\ Ir(p).label = l
Definition(l) == CHOOSE p \in Items : Ir(p).kind = "label" /\ Ir(p).label = l

Align(x, a) == ((x + a - 1) \div a) * a
AlignedTo(x, a) == IF a > 1 THEN Align(x, a) ELSE x

FixedSize == [label |-> 0, align |-> 0, call |-> 5, lea |-> 7, quad |-> 8]
Size(p) ==
    IF p \in Jumps THEN (IF p \notin long THEN 2 ELSE IF Ir(p).kind = "jmp" THEN 5 ELSE 6)
    ELSE IF Ir(p).kind \in DOMAIN FixedSize THEN FixedSize[Ir(p).kind]
    ELSE Ir(p).size     \* code, data, bss and values
Sizes == [p \in Items |-> Size(p)]

Init ==
    /\ \E program \in Programs : section_irs = program.irs /\ globals = program.globals
    /\ out_obj \in BOOLEAN
    /\ pc = "calc" /\ status = "running"
    /\ section_aligns = [s \in Sections |-> IF s = DataSec /\ ~out_obj THEN DataAlign ELSE 0]
    /\ section_start_addresses = [s \in Sections |-> 0]
    /\ address = [p \in Items |-> 0]
    /\ long = {} /\ settle1 = FALSE
    /\ operand = [p \in Operands |-> 0]
    /\ unresolved = {}
    /\ offset = [p \in Items |-> 0] /\ size = [s \in Sections |-> 0]
    /\ start_address = [s \in Sections |-> 0]

-----------------------------------------------------------------------------
(* calc_label_address                                                      *)

\* The addresses after 0, 1, ... items of a section, sizes being those of length.
After(s, start, length) ==
    LET after[i \in 0..Len(section_irs[s])] ==
            IF i = 0 THEN start
            ELSE IF Ir(<<s, i>>).kind = "align" THEN Align(after[i - 1], Ir(<<s, i>>).size)
            ELSE after[i - 1] + length[<<s, i>>]
    IN  after

\* ir->address: that of an alignment is the one it leads to.
Place(p, after) == IF Ir(p).kind = "align" THEN after[p[2]] ELSE after[p[2] - 1]

StartsUnaligned ==
    LET start[s \in Sections] ==
            IF s = Code THEN LoadAddress
            ELSE After(s - 1, start[s - 1], Sizes)[Len(section_irs[s - 1])]
    IN  start
Starts ==
    LET start[s \in Sections] ==
            AlignedTo(IF s = Code THEN LoadAddress
                      ELSE After(s - 1, start[s - 1], Sizes)[Len(section_irs[s - 1])],
                      section_aligns[s])
    IN  start

Alignments(s) == {Ir(p).size : p \in {p \in Items : p[1] = s /\ Ir(p).kind = "align"}}
AlignsKept == section_aligns
Aligns == [s \in Sections |-> Max({section_aligns[s]} \cup Alignments(s))]

AlignsSettledStrictly == \A s \in Sections : \A n \in Alignments(s) : n < section_aligns[s]
AlignsSettled == Aligns = section_aligns

CalcLabelAddress ==
    /\ pc = "calc"
    /\ section_start_addresses' = Starts
    /\ address' = [p \in Items |-> Place(p, After(p[1], Starts[p[1]], Sizes))]
    /\ section_aligns' = Aligns
    /\ settle1' = AlignsSettled
    /\ pc' = "resolve"
    /\ UNCHANGED <<input, status, long, operand, unresolved, offset, size, start_address>>

-----------------------------------------------------------------------------
(* resolve_relative_address                                                *)

Target(p) == address[Definition(Ir(p).label)] + Ir(p).add
Relative(p) == Target(p) - (address[p] + Size(p))
IsIm8(x) == x \in -(Im8Max + 1)..Im8Max

Upgraded == {p \in Jumps \ long : Defined(Ir(p).label) /\ ~IsIm8(Relative(p))}

\* Where the operand is in the instruction.
Field(p) == IF Ir(p).kind = "lea" THEN 3 ELSE IF Absolute(p) THEN 0 ELSE 1

FirstAddress(s) == IF section_irs[s] = << >> THEN 0 ELSE address[<<s, 1>>]

Unresolved(p, kind, add) ==
    [kind |-> kind, label |-> Ir(p).label, src_section |-> p[1],
     offset |-> address[p] + Field(p) - FirstAddress(p[1]), add |-> add]

\* What is left to the linker, by the kind of the instruction: labels alone.
LabelAlone(p) == Ir(p).kind # "value" /\ Ir(p).add = 0
CallExtern(p) == Ir(p).kind = "call" /\ ~Defined(Ir(p).label)
LeaExtern(p) == Ir(p).kind = "lea" /\ LabelAlone(p) /\ ~Defined(Ir(p).label)
LeaOtherSection(p) ==
    /\ Ir(p).kind = "lea" /\ LabelAlone(p)
    /\ Defined(Ir(p).label) /\ Definition(Ir(p).label)[1] # p[1]
QuadAbsolute(p) ==
    /\ Ir(p).kind = "quad" /\ LabelAlone(p)
    /\ ~Defined(Ir(p).label) \/ p[1] # Code \/ Definition(Ir(p).label)[1] # Code
LeftToLinker(p) == CallExtern(p) \/ LeaExtern(p) \/ LeaOtherSection(p) \/ QuadAbsolute(p)

LeftOver ==
    {Unresolved(p, "EXTERN", -4) : p \in {p \in Items : CallExtern(p)}} \cup
    {Unresolved(p, "EXTERN_PC32", -4) : p \in {p \in Items : LeaExtern(p)}} \cup
    {Unresolved(p, "OTHER_SECTION", Target(p) - FirstAddress(Definition(Ir(p).label)[1]) - 4) :
        p \in {p \in Items : LeaOtherSection(p)}} \cup
    {Unresolved(p, "ABS64", 0) : p \in {p \in Items : QuadAbsolute(p)}}

\* A jump to a label that is not defined stops an assembly to an object file
\* with "assert(unresolved == NULL)", one to an executable with a message; a
\* value of such a label stops both.
Undefined ==
    \E p \in Operands :
        ~Defined(Ir(p).label) /\ (out_obj => p \in Jumps \/ Ir(p).kind = "value")

PutNow(p) ==
    /\ Defined(Ir(p).label) /\ ~Absolute(p)
    /\ p \notin Upgraded
    /\ ~(out_obj /\ LeftToLinker(p))

UpgradedIgnored == settle1
Settled == settle1 /\ Upgraded = {}

ResolveRelativeAddress ==
    /\ pc = "resolve" /\ ~Undefined
    /\ long' = long \cup Upgraded
    /\ operand' = [p \in Operands |-> IF PutNow(p) THEN Relative(p) ELSE operand[p]]
    /\ unresolved' = IF out_obj THEN LeftOver ELSE {}
    /\ pc' = IF Settled THEN "emit" ELSE "calc"
    /\ UNCHANGED <<input, status, section_aligns, section_start_addresses, address, settle1,
                   offset, size, start_address>>

UndefinedReference ==
    /\ pc = "resolve" /\ Undefined
    /\ pc' = "end" /\ status' = "failed"
    /\ UNCHANGED <<input, section_aligns, section_start_addresses, address, long, settle1,
                   operand, unresolved, offset, size, start_address>>

-----------------------------------------------------------------------------
(* emit_irs                                                                *)

EmittedSizes ==
    [p \in Items |-> IF Ir(p).kind = "quad" /\ ~Defined(Ir(p).label) THEN 0 ELSE Size(p)]

EmitIrs ==
    /\ pc = "emit"
    /\ offset' = [p \in Items |-> Place(p, After(p[1], 0, EmittedSizes))]
    /\ size' = [s \in Sections |-> After(s, 0, EmittedSizes)[Len(section_irs[s])]]
    /\ operand' = [p \in Operands |->
                      IF Absolute(p) /\ Defined(Ir(p).label) THEN Target(p) ELSE operand[p]]
    /\ pc' = "fix"
    /\ UNCHANGED <<input, status, section_aligns, section_start_addresses, address, long, settle1,
                   unresolved, start_address>>

-----------------------------------------------------------------------------
(* fix_section_size                                                        *)

AlignOf(s) == Max({section_aligns[s], 1})

FixedStartsUnaligned ==
    LET rodata == LoadAddress + size[Code]
        data == Align(rodata + size[RoData], AlignOf(DataSec))
        bss == data + Align(size[DataSec], AlignOf(Bss))
    IN  [s \in Sections |-> << LoadAddress, rodata, data, bss >>[s + 1]]

FixedStarts ==
    LET rodata == Align(LoadAddress + size[Code], AlignOf(RoData))
        data == Align(rodata + size[RoData], AlignOf(DataSec))
        bss == data + Align(size[DataSec], AlignOf(Bss))
    IN  [s \in Sections |-> << LoadAddress, rodata, data, bss >>[s + 1]]

FixSectionSize ==
    /\ pc = "fix"
    /\ start_address' = FixedStarts
    /\ pc' = "end" /\ status' = "written"
    /\ UNCHANGED <<input, section_aligns, section_start_addresses, address, long, settle1,
                   operand, unresolved, offset, size>>

Next ==
    \/ CalcLabelAddress \/ ResolveRelativeAddress \/ UndefinedReference
    \/ EmitIrs \/ FixSectionSize

Spec == Init /\ [][Next]_vars
FairSpec == Spec /\ WF_vars(Next)

-----------------------------------------------------------------------------
(* output_exe: the program headers and the places in the file              *)

CodeRoDataSize == Align(size[Code], AlignOf(RoData)) + size[RoData]
DataHeaderOffset == Align(ProgStart + CodeRoDataSize, DataAlign)
DataMemorySize == Align(size[DataSec], AlignOf(Bss)) + size[Bss]

RoDataFileOffset ==
    IF size[RoData] > 0 THEN Align(ProgStart + size[Code], AlignOf(RoData)) ELSE ProgStart + size[Code]
DataFileOffset ==
    Align(RoDataFileOffset + size[RoData], DataAlign)

(* output_obj: the symbol that a relocation refers to, and its addend      *)

SymbolOffset(l) == address[Definition(l)] - section_start_addresses[Definition(l)[1]]

BySection(u) ==
    Defined(u.label) /\ (u.kind = "OTHER_SECTION" \/ (u.kind = "ABS64" /\ u.label \notin globals))
Addend(u) == u.add + (IF u.kind = "ABS64" /\ BySection(u) THEN SymbolOffset(u.label) ELSE 0)

\* The linker: S + A - P, or S + A for R_X86_64_64, with the sections at base.
SymbolValue(u, base) ==
    IF ~Defined(u.label) THEN ExternAddress
    ELSE base[Definition(u.label)[1]] + (IF BySection(u) THEN 0 ELSE SymbolOffset(u.label))
LinkedValue(u, base) ==
    SymbolValue(u, base) + Addend(u)
        - (IF u.kind = "ABS64" THEN 0 ELSE base[u.src_section] + u.offset)

-----------------------------------------------------------------------------
\* The addresses, operands and sizes are numbers, and what is lengthened are
\* jumps, of a program that was given.
TypeOK ==
    /\ SectionIrs(section_irs) /\ out_obj \in BOOLEAN
    /\ pc \in {"calc", "resolve", "emit", "fix", "end"}
    /\ status \in {"running", "failed", "written"}
    /\ section_aligns \in [Sections -> Nat]
    /\ section_start_addresses \in [Sections -> Int] /\ start_address \in [Sections -> Int]
    /\ address \in [Items -> Int] /\ offset \in [Items -> Int]
    /\ long \subseteq Jumps
    /\ settle1 \in BOOLEAN
    /\ operand \in [Operands -> Int]
    /\ size \in [Sections -> Nat]

(* What the properties are promised for.  The run's programs are such.     *)

\* Alignments are powers of two up to that of the place where code starts:
\* output_exe cannot give a section more.
AlignmentsFit ==
    \A a \in UNION {Alignments(s) : s \in Sections} :
        /\ LoadAddress % a = 0 /\ ProgStart % a = 0 /\ DataAlign % a = 0
        /\ \A b \in UNION {Alignments(s) : s \in Sections} : a <= b => b % a = 0

\* No pointer is to a label of another file: emit_irs leaves no room for it.
PointersDefined == \A p \in Items : Ir(p).kind = "quad" => Defined(Ir(p).label)

\* Code and data as the compiler writes them: jumps and calls of labels of
\* the file stay in their section, pointers are data.
CodeAndData ==
    \A p \in Operands :
        /\ (Ir(p).kind \in {"jmp", "jcc", "call"} /\ Defined(Ir(p).label)) =>
              Definition(Ir(p).label)[1] = p[1]
        /\ Ir(p).kind = "quad" => p[1] # Code

\* In an object file no relocation has an addend from the text: a sum is right
\* only if it is the distance to a place in the section that it is in, and a
\* value is one of the assembler's own addresses.
InPlace(p) ==
    out_obj =>
        \/ LabelAlone(p)
        \/ Ir(p).kind = "lea" /\ Defined(Ir(p).label) /\ Definition(Ir(p).label)[1] = p[1]

-----------------------------------------------------------------------------

Written == status = "written"

\* Where the program may be loaded: an executable where its headers say, an
\* object file wherever a linker puts its aligned sections.
Bases ==
    IF ~out_obj THEN {start_address}
    ELSE {[s \in Sections |-> n * (1 + s) * AlignOf(s)] : n \in {1, 5}}

At(p, base) == base[p[1]] + offset[p]

\* Every jump, call, address and pointer in the output leads to the place
\* where its label ended up, or so many bytes behind it, after lengthening,
\* alignment and linking, and a short jump has an operand that fits its byte.
\* (Of the operand of a value the low bytes are written.)
PlaceMeant(p, base) ==
    (IF Defined(Ir(p).label) THEN At(Definition(Ir(p).label), base) ELSE ExternAddress)
        + Ir(p).add

ReachesTarget(p, base) ==
    LET target == PlaceMeant(p, base)
        links == {u \in unresolved : u.src_section = p[1] /\ u.offset = offset[p] + Field(p)}
        value == IF links # {} THEN LinkedValue(CHOOSE u \in links : TRUE, base) ELSE operand[p]
    IN  value = IF Absolute(p) THEN target ELSE target - (At(p, base) + Size(p))

OperandsReachTargets ==
    Written =>
        /\ \A p \in Operands, base \in Bases : InPlace(p) => ReachesTarget(p, base)
        /\ \A p \in Jumps \ long : IsIm8(operand[p])

\* Everything after an alignment is aligned in memory.
AlignedAsAsked ==
    Written => \A p \in Items, base \in Bases :
                   Ir(p).kind = "align" => At(p, base) % Ir(p).size = 0

\* The buffers agree with the addresses that labels were given.
LayoutAgrees ==
    Written => \A p \in Items : offset[p] = address[p] - section_start_addresses[p[1]]

\* The program headers map each section of the file to its address.
FileMatchesMemory ==
    (Written /\ ~out_obj) =>
        /\ size[RoData] > 0 =>
              /\ RoDataFileOffset - ProgStart = start_address[RoData] - LoadAddress
              /\ RoDataFileOffset + size[RoData] = ProgStart + CodeRoDataSize
        /\ size[DataSec] > 0 => DataFileOffset = DataHeaderOffset
        /\ size[DataSec] + size[Bss] > 0 =>
              DataHeaderOffset % DataAlign = start_address[DataSec] % DataAlign
        /\ start_address[Bss] + size[Bss] = start_address[DataSec] + DataMemorySize

\* The loop of calc_label_address and resolve_relative_address ends.
LayoutEnds == <>(pc = "end")
=============================================================================
