------------------------------ MODULE Umalloc ------------------------------
(***************************************************************************)
(* The memory allocator of lib/umalloc.c: a circular list of free blocks   *)
(* in the order of their addresses, searched from where the last search    *)
(* ended.  Addresses and sizes are in units of a header; a block's header  *)
(* is its first unit; what stands where no header is, is not kept.         *)
(***************************************************************************)
EXTENDS Integers, FiniteSets, FiniteSetsExt

CONSTANTS
    NoRequest,
    MaxPayload,   \* bound: the largest request, in units
    PageUnits,    \* PAGESIZE / sizeof(Header)
    HeapLimit     \* bound: sbrk fails beyond it

ASSUME UmallocAssumption ==
    MaxPayload \in Nat /\ PageUnits \in Nat \ {0} /\ HeapLimit \in Nat

Base == 0         \* &base, below the heap
HeapStart == 2
Addresses == HeapStart..HeapLimit
Given == (HeapStart + 1)..(HeapLimit + 1)   \* what may stand behind a header
Payloads == 0..MaxPayload
NULL == -1

ASSUME RequestAssumption ==
    NoRequest \notin [op : {"malloc"}, units : Payloads] \cup
                     [op : {"free"}, at : Given \cup {NULL}] \cup
                     [op : {"realloc"}, at : Given \cup {NULL}, units : Payloads]

VARIABLES
    ptr, size,    \* the headers, by address
    freep,
    brk,          \* the end of the heap
    got,          \* what sbrk gave to morecore, as a set of units
    blocks,       \* the program's blocks: address after the header, payload
    req, result,  \* the call, and what the last one returned
    pc,
    p, prevp, nunits,   \* malloc and free
    bp, buf             \* free, and realloc's new block

vars == <<ptr, size, freep, brk, got, blocks, req, result, pc, p, prevp, nunits, bp, buf>>

Headers == {Base} \cup Addresses

Init ==
    /\ ptr = [a \in Headers |-> Base] /\ size = [a \in Headers |-> 0]
    /\ freep = Base
    /\ brk = HeapStart /\ got = {}
    /\ blocks = << >>
    /\ req = NoRequest /\ result = NULL
    /\ pc = "idle"
    /\ p = Base /\ prevp = Base /\ nunits = 0 /\ bp = NULL /\ buf = NULL

Requests ==
    [op : {"malloc"}, units : Payloads] \cup
    [op : {"free"}, at : DOMAIN blocks \cup {NULL}] \cup
    [op : {"realloc"}, at : DOMAIN blocks \cup {NULL}, units : Payloads]

\* realloc is free when nothing is asked for and malloc when nothing is there.
DelegatedToMalloc(r) ==
    IF r.op = "realloc" /\ r.at = NULL THEN [op |-> "malloc", units |-> r.units] ELSE r
Delegated(r) ==
    IF r.op = "realloc" /\ r.units = 0 THEN [op |-> "free", at |-> r.at]
    ELSE IF r.op = "realloc" /\ r.at = NULL THEN [op |-> "malloc", units |-> r.units]
    ELSE r

call == Delegated(req)

-----------------------------------------------------------------------------
(* The calls.  malloc's nunits is the payload and the header.              *)

StartSearch(units) ==
    /\ nunits' = units + 1
    /\ prevp' = freep /\ p' = ptr[freep]
    /\ pc' = "search"

StartFree(header) ==
    /\ bp' = header
    /\ p' = freep
    /\ pc' = "insert"

\* free(NULL) returns at once.
Call(r) ==
    LET d == Delegated(r) IN
    /\ pc = "idle"
    /\ req' = r /\ result' = NULL
    /\ CASE d.op = "free" /\ d.at = NULL -> pc' = "return" /\ UNCHANGED <<bp, p, prevp, nunits>>
         [] d.op = "free" /\ d.at # NULL -> StartFree(d.at - 1) /\ UNCHANGED <<prevp, nunits>>
         [] d.op # "free" -> StartSearch(d.units) /\ UNCHANGED bp
    /\ UNCHANGED <<ptr, size, freep, brk, got, blocks, buf>>

\* The locals of malloc and free end with the call.
Return(value) ==
    /\ result' = value
    /\ req' = NoRequest
    /\ pc' = "idle"
    /\ p' = Base /\ prevp' = Base /\ nunits' = 0 /\ bp' = NULL /\ buf' = NULL

FreeNothing ==
    /\ pc = "return"
    /\ Return(NULL)
    /\ UNCHANGED <<ptr, size, freep, brk, got, blocks>>

-----------------------------------------------------------------------------
(* malloc                                                                  *)

Fits == size[p] >= nunits

\* The search is over when it is back at the block it began behind.
AllSearchedButLast == ptr[p] = freep
AllSearched == p = freep

NextBlock ==
    /\ pc = "search" /\ ~Fits /\ ~AllSearched
    /\ prevp' = p /\ p' = ptr[p]
    /\ UNCHANGED <<ptr, size, freep, brk, got, blocks, req, result, pc, nunits, bp, buf>>

\* A block of the size asked for is unlinked; a larger one gives its tail.
Exact == size[p] = nunits
Taken == IF Exact THEN p ELSE p + size[p] - nunits

Allocated(header) ==
    [a \in DOMAIN blocks \cup {header + 1} |-> IF a = header + 1 THEN call.units ELSE blocks[a]]

\* realloc copies to the new block and frees the old one.
Take ==
    /\ pc = "search" /\ Fits
    /\ IF Exact
       THEN ptr' = [ptr EXCEPT ![prevp] = ptr[p], ![p] = Base] /\ UNCHANGED size
       ELSE /\ size' = [size EXCEPT ![p] = @ - nunits, ![Taken] = nunits]
            /\ UNCHANGED ptr
    /\ freep' = prevp
    /\ IF call.op = "malloc"
       THEN blocks' = Allocated(Taken) /\ Return(Taken + 1)
       ELSE /\ buf' = Taken + 1
            /\ bp' = call.at - 1 /\ p' = prevp
            /\ pc' = "insert"
            /\ UNCHANGED <<blocks, req, result, prevp, nunits>>
    /\ UNCHANGED <<brk, got>>

\* morecore: sbrk may leave a gap that another caller has taken, or fail.
MoreUnits == PageUnits * ((nunits + PageUnits - 1) \div PageUnits)

MoreSize == MoreUnits

MoreCore ==
    /\ pc = "search" /\ ~Fits /\ AllSearched
    /\ \E gap \in {0, 1} :
          LET hp == brk + gap
          IN  /\ hp + MoreUnits - 1 <= HeapLimit
              /\ brk' = hp + MoreUnits
              /\ got' = got \cup hp..(hp + MoreUnits - 1)
              /\ size' = [size EXCEPT ![hp] = MoreSize]
              /\ StartFree(hp)
    /\ UNCHANGED <<ptr, freep, blocks, req, result, prevp, nunits, buf>>

SbrkFails ==
    /\ pc = "search" /\ ~Fits /\ AllSearched
    /\ Return(NULL)
    /\ UNCHANGED <<ptr, size, freep, brk, got, blocks>>

-----------------------------------------------------------------------------
(* free                                                                    *)

\* bp lies between p and the next one, or at an end of the heap.
BetweenOnly == p < bp /\ bp < ptr[p]
Between ==
    \/ p < bp /\ bp < ptr[p]
    \/ p >= ptr[p] /\ (bp > p \/ bp < ptr[p])

Advance ==
    /\ pc = "insert" /\ ~Between
    /\ p' = ptr[p]
    /\ UNCHANGED <<ptr, size, freep, brk, got, blocks, req, result, pc, prevp, nunits, bp, buf>>

\* The size and successor of bp when joined to the upper neighbour, and then
\* those of p when joined to the lower one.
JoinsUpper == bp + size[bp] = ptr[p]
JoinsLower == p + size[p] = bp

UpperSize == IF JoinsUpper THEN size[bp] + size[ptr[p]] ELSE size[bp]
UpperPtrKept == ptr[p]
UpperPtr == IF JoinsUpper THEN ptr[ptr[p]] ELSE ptr[p]

Freed == [a \in DOMAIN blocks \ {bp + 1} |-> blocks[a]]
Replaced ==
    [a \in (DOMAIN blocks \ {bp + 1}) \cup {buf} |->
        IF a = buf THEN call.units ELSE blocks[a]]

\* Headers that are now inside a block.
Swallowed == (IF JoinsUpper THEN {ptr[p]} ELSE {}) \cup (IF JoinsLower THEN {bp} ELSE {})

Link ==
    /\ pc = "insert" /\ Between
    /\ size' = [a \in Headers |->
                  IF a \in Swallowed THEN 0
                  ELSE IF a = bp THEN UpperSize
                  ELSE IF a = p /\ JoinsLower THEN size[p] + UpperSize ELSE size[a]]
    /\ ptr' = [a \in Headers |->
                  IF a \in Swallowed THEN Base
                  ELSE IF a = bp THEN UpperPtr
                  ELSE IF a = p THEN (IF JoinsLower THEN UpperPtr ELSE bp) ELSE ptr[a]]
    /\ freep' = p
    /\ CASE call.op = "free" -> blocks' = Freed /\ Return(NULL)
         [] call.op = "realloc" /\ bp = call.at - 1 -> blocks' = Replaced /\ Return(buf)
         [] OTHER ->    \* for morecore: the search goes on behind freep
              /\ prevp' = p /\ p' = ptr'[p] /\ pc' = "search" /\ bp' = NULL
              /\ UNCHANGED <<blocks, req, result, nunits, buf>>
    /\ UNCHANGED <<brk, got>>

Internal == FreeNothing \/ NextBlock \/ Take \/ MoreCore \/ SbrkFails \/ Advance \/ Link

Next == (\E r \in Requests : Call(r)) \/ Internal

Spec == Init /\ [][Next]_vars
FairSpec == Spec /\ WF_vars(Internal)

-----------------------------------------------------------------------------
Units(header, n) == header..(header + n - 1)

\* The blocks on the list, found by following ptr from the base.
Reached ==
    LET after[n \in 0..HeapLimit] ==
            IF n = 0 THEN {ptr[Base]}
            ELSE LET before == after[n - 1] IN before \cup {ptr[a] : a \in before}
    IN  after[HeapLimit]
FreeBlocks == Reached \ {Base}
Owned == {at - 1 : at \in DOMAIN blocks}

\* No unit that sbrk gave is lost or in two blocks: each is in exactly one
\* block, free or the program's.
EveryUnitOnce ==
    pc = "idle" =>
        LET all == FreeBlocks \cup Owned
        IN  /\ FreeBlocks \cap Owned = {}
            /\ UNION {Units(a, size[a]) : a \in all} = got
            /\ \A a, b \in all : a # b => Units(a, size[a]) \cap Units(b, size[b]) = {}

\* malloc gives up only when no free block is large enough.
FailsOnlyWhenFull ==
    [][SbrkFails => \A a \in FreeBlocks : size[a] < nunits]_vars

\* The program sees a heap: blocks of its own, and every call in one step.
Promise == INSTANCE Heap WITH Addresses <- Given
IsHeap == Promise!Spec

\* Every call returns.
Returns == (pc # "idle") ~> (pc = "idle")
=============================================================================
