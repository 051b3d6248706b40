----------------------------- MODULE LinearScan -----------------------------
(***************************************************************************)
(* The linear-scan register allocator of the compiler: the loop of         *)
(* linear_scan_register_allocation (src/cc/regalloc.c) over the sorted     *)
(* live intervals of one function, with its two register files.            *)
(*                                                                         *)
(* A position 1..N stands for an entry of sorted_intervals.  `itv` holds   *)
(* what check_live_interval computed and the scan only reads; `state`,     *)
(* `phys`, `active`, `using` and `used` are what the scan writes.          *)
(***************************************************************************)
EXTENDS Integers, Sequences, FiniteSets

CONSTANTS
    N,        \* vreg_count
    Interval, \* the live intervals a function may have
    PhysMax   \* number of physical registers of each file

Files == {"ireg", "freg"}

\* start and end are instruction indices (nip), -1 for an unused vreg.
AnyInterval ==
    {v \in [start : Int, end : Int, file : Files, kind : {"NORMAL", "SPILL", "CONST"}] :
        v.kind = "NORMAL" => v.start <= v.end /\ (v.start >= 0 \/ v.end = -1)}

ASSUME ScanAssumption ==
    /\ N \in Nat
    /\ Interval \subseteq AnyInterval
    /\ PhysMax \in [Files -> Nat \ {0}]
    \* The number that marks a spilled interval is ra->phys_max, the integer
    \* file's, for both files.
    /\ PhysMax["freg"] <= PhysMax["ireg"]

Ranks == 1..N
Regs(f) == 0 .. (PhysMax[f] - 1)

Spilled == PhysMax["ireg"]          \* SPILLED_REG_NO(ra)
Unassigned == -1

VARIABLES
    itv,      \* [start, end, file, kind] of every interval, never written
    state,    \* li->state
    phys,     \* li->phys
    active,   \* per file, the positions now holding a register
    using,    \* per file, using_bits as a set of register numbers
    used,     \* per file, used_bits
    i         \* the loop counter: the next position to scan

scanVars == <<itv, state, phys, active, using, used, i>>

\* qsort by sort_live_interval orders by `start`; the tie break never makes
\* an earlier start come later, and entries with equal starts may come in
\* any order.  Entries the scan skips are unconstrained: the parameters'
\* starts are reset to 0 after the sort.
SortedByStart(v) ==
    \A a, b \in Ranks :
        (a < b /\ v[a].kind = "NORMAL" /\ v[b].kind = "NORMAL")
            => v[a].start <= v[b].start

ScanStart ==
    /\ SortedByStart(itv)
    /\ state = [a \in Ranks |-> itv[a].kind]
    /\ phys = [a \in Ranks |->
                 IF itv[a].kind = "SPILL" THEN Spilled ELSE Unassigned]
    /\ active = [f \in Files |-> << >>]
    /\ using = [f \in Files |-> {}]
    /\ used = [f \in Files |-> {}]
    /\ i = 1

ScanInit == itv \in [Ranks -> Interval] /\ ScanStart

-----------------------------------------------------------------------------
End(a) == itv[a].end

\* Definitions that stand before one they resemble, as ExpiredPrefixEager does, are
\* mistaken versions of it: no specification uses them, and each stands for
\* a slip that one of the properties below must notice.

\* expire_old_intervals leaves the array loop at the first interval that
\* ends after `start`: n is the length of the prefix it removes.
ExpiredPrefixEager(s, n, start) ==
    /\ n \in 0..Len(s)
    /\ \A k \in 1..n : End(s[k]) <= start + 1
    /\ n < Len(s) => End(s[n + 1]) > start + 1

ExpiredPrefix(s, n, start) ==
    /\ n \in 0..Len(s)
    /\ \A k \in 1..n : End(s[k]) <= start
    /\ n < Len(s) => End(s[n + 1]) > start

DropFirst(s, n) == SubSeq(s, n + 1, Len(s))

\* insert_active puts an interval before the first one that ends later.
InsertPosition(s, p, a) ==
    /\ p \in 1 .. (Len(s) + 1)
    /\ \A k \in 1 .. (p - 1) : End(s[k]) <= End(a)
    /\ p <= Len(s) => End(a) < End(s[p])

InsertedAt(s, p, a) ==
    [k \in 1 .. (Len(s) + 1) |->
        IF k < p THEN s[k] ELSE IF k = p THEN a ELSE s[k - 1]]

\* The registers of the intervals dropped by expire_old_intervals are
\* cleared from the file's bits.
FreedBits(bits, s, n) == bits \ {phys[s[k]] : k \in 1..n}

\* The lowest register whose bit is clear.
LowestFree(f, bits, r) ==
    /\ r \in Regs(f) \ bits
    /\ \A q \in Regs(f) : q < r => q \in bits

-----------------------------------------------------------------------------
\* Intervals that are already spilled or constant are passed over.
Skip ==
    /\ i <= N
    /\ state[i] # "NORMAL"
    /\ i' = i + 1
    /\ UNCHANGED <<itv, state, phys, active, using, used>>

\* The part of the loop body that precedes the choice of a register: the
\* interval is a normal one and nx intervals of each file expire.
Scanned(nx) ==
    /\ i <= N
    /\ state[i] = "NORMAL"
    /\ \A f \in Files : ExpiredPrefix(active[f], nx[f], itv[i].start)

\* active_count >= phys_max
Full(f, s) == Len(s) >= PhysMax[f]

\* spill->end > li->end
OutlivesInverted(a, b) == End(a) < End(b)
Outlives(a, b) == End(a) > End(b)

\* used_bits |= using_bits
RecordedLatest(bits, now) == now
Recorded(bits, now) == bits \cup now

Live(nx, f) == DropFirst(active[f], nx[f])
Bits(nx, f) == FreedBits(using[f], active[f], nx[f])

\* A register is free: the interval takes the lowest one.
Assign(nx) ==
    LET f == itv[i].file
        s == Live(nx, f)
    IN  /\ Scanned(nx)
        /\ ~Full(f, s)
        /\ \E r \in Regs(f), p \in 1 .. (Len(s) + 1) :
              /\ LowestFree(f, Bits(nx, f), r)
              /\ InsertPosition(s, p, i)
              /\ phys' = [phys EXCEPT ![i] = r]
              /\ active' = [g \in Files |->
                    IF g = f THEN InsertedAt(s, p, i) ELSE Live(nx, g)]
              /\ using' = [g \in Files |->
                    IF g = f THEN Bits(nx, f) \cup {r} ELSE Bits(nx, g)]
        /\ used' = [used EXCEPT ![f] = Recorded(@, using'[f])]
        /\ i' = i + 1
        /\ UNCHANGED <<itv, state>>

\* No register is free and the active interval that ends last outlives the
\* new one: split_at_interval spills it and hands its register over.
SpillActive(nx) ==
    LET f == itv[i].file
        s == Live(nx, f)
        last == s[Len(s)]
        rest == SubSeq(s, 1, Len(s) - 1)
    IN  /\ Scanned(nx)
        /\ Full(f, s)
        /\ Outlives(last, i)
        /\ phys' = [phys EXCEPT ![i] = phys[last], ![last] = Spilled]
        /\ state' = [state EXCEPT ![last] = "SPILL"]
        /\ \E p \in 1 .. Len(s) :
              /\ InsertPosition(rest, p, i)
              /\ active' = [g \in Files |->
                    IF g = f THEN InsertedAt(rest, p, i) ELSE Live(nx, g)]
        /\ using' = [g \in Files |-> Bits(nx, g)]
        /\ used' = [used EXCEPT ![f] = Recorded(@, using'[f])]
        /\ i' = i + 1
        /\ UNCHANGED itv

\* No register is free and no active interval outlives the new one, which
\* is spilled itself.
SpillNew(nx) ==
    LET f == itv[i].file
        s == Live(nx, f)
    IN  /\ Scanned(nx)
        /\ Full(f, s)
        /\ ~Outlives(s[Len(s)], i)
        /\ phys' = [phys EXCEPT ![i] = Spilled]
        /\ state' = [state EXCEPT ![i] = "SPILL"]
        /\ active' = [g \in Files |-> Live(nx, g)]
        /\ using' = [g \in Files |-> Bits(nx, g)]
        /\ used' = [used EXCEPT ![f] = Recorded(@, using'[f])]
        /\ i' = i + 1
        /\ UNCHANGED itv

\* The loop is over.
ScanDone == i > N /\ UNCHANGED scanVars

ScanNext ==
    \/ Skip
    \/ \E nx \in [Files -> 0..N] : Assign(nx) \/ SpillActive(nx) \/ SpillNew(nx)
    \/ ScanDone

ScanSpec == ScanInit /\ [][ScanNext]_scanVars

-----------------------------------------------------------------------------
\* The bits detect_living_registers holds after instruction n: the sorted
\* intervals set the bit of their register where they start and clear it
\* where they end; the loop that stops at the first that starts later than n
\* leaves out none with anything to do.  The floating-point registers have
\* the bits above the integer ones.
BitOf(a) == phys[a] + IF itv[a].file = "freg" THEN PhysMax["ireg"] ELSE 0

BitsAfterStart(bits, a, n) ==
    IF itv[a].start = n THEN bits \cup {BitOf(a)} ELSE bits
BitsAfterEndLate(bits, a, n) ==
    IF itv[a].end + 1 = n THEN bits \ {BitOf(a)} ELSE bits
BitsAfterEnd(bits, a, n) ==
    IF itv[a].end = n THEN bits \ {BitOf(a)} ELSE bits

Passed(bits, a, n) ==
    IF state[a] = "NORMAL"
    THEN BitsAfterEnd(BitsAfterStart(bits, a, n), a, n)
    ELSE bits

PassedAll(bits, n) ==
    LET Upto[a \in 0..N] == IF a = 0 THEN bits ELSE Passed(Upto[a - 1], a, n)
    IN  Upto[N]

LivingPregs(n) ==
    LET After[m \in 0 .. (n + 1)] ==
            IF m = 0 THEN {} ELSE PassedAll(After[m - 1], m - 1)
    IN  After[n + 1]

-----------------------------------------------------------------------------
Normal == {a \in Ranks : a < i /\ state[a] = "NORMAL"}

ScanTypeOK ==
    /\ itv \in [Ranks -> AnyInterval]
    /\ state \in [Ranks -> {"NORMAL", "SPILL", "CONST"}]
    /\ phys \in [Ranks -> {Unassigned} \cup 0..Spilled]
    /\ active \in [Files -> Seq(Ranks)]
    /\ using \in [Files -> SUBSET (0 .. (Spilled - 1))]
    /\ used \in [Files -> SUBSET (0 .. (Spilled - 1))]
    /\ i \in 1 .. (N + 1)

In(s, a) == \E k \in 1..Len(s) : s[k] = a

\* Two intervals are live together when each starts before the other ends.
Overlap(a, b) ==
    /\ itv[a].start < itv[b].end
    /\ itv[b].start < itv[a].end

\* Two variables of one register file that are live together are never
\* given the same register: what the whole allocator is for.
NoSharedRegister ==
    \A a, b \in Normal :
        (a # b /\ itv[a].file = itv[b].file /\ Overlap(a, b))
            => phys[a] # phys[b]

Agrees(f, s, bits) ==
    /\ Len(s) <= PhysMax[f]
    /\ \A k \in 1..Len(s) :
          /\ s[k] \in Normal
          /\ itv[s[k]].file = f
          /\ phys[s[k]] \in Regs(f)
    /\ \A k, l \in 1..Len(s) : k < l =>
          /\ End(s[k]) <= End(s[l])
          /\ phys[s[k]] # phys[s[l]]
    /\ bits = {phys[s[k]] : k \in 1..Len(s)}

\* The three ways the scan knows which registers are taken agree: the list
\* ordered by end, the bit set, and the register each interval was given.
\* The expiry loop stops at the first interval that is not over, and the
\* assertion regno >= 0 takes a list shorter than the file to mean a clear
\* bit: both rest on this.
ActiveAgrees == \A f \in Files : Agrees(f, active[f], using[f])

\* used_reg_bits, from which the prologue saves the callee-save registers,
\* covers the register of every interval that keeps one, whichever way it
\* came by it.
UsedCoversAssigned ==
    \A a \in Normal : phys[a] \in used[itv[a].file]

LiveAt(t) ==
    {a \in Ranks : /\ itv[a].kind = "NORMAL"
                   /\ itv[a].start <= t
                   /\ itv[a].end > t \/ itv[a].start = t}

\* An interval goes to the stack only where more intervals of its file are
\* live than the file has registers, and none of those that keep a register
\* ends later.
SpillsOnlyFurthest ==
    \A a \in DOMAIN state : (state[a] = "NORMAL" /\ state'[a] = "SPILL") =>
        LET f == itv[a].file IN
            /\ Cardinality({c \in LiveAt(itv[i].start) : itv[c].file = f}) > PhysMax[f]
            /\ \A k \in 1..Len(active'[f]) : End(active'[f][k]) <= End(a)

SpillsFurthestEnd == [][SpillsOnlyFurthest]_scanVars

\* The registers of the intervals that began by instruction n and go on.
LivingAt(n) ==
    {BitOf(a) : a \in {c \in Ranks : /\ state[c] = "NORMAL"
                                    /\ itv[c].start <= n
                                    /\ n < itv[c].end}}

LivingIsExact == \A a \in Ranks : \A n \in 0..End(a) : LivingPregs(n) = LivingAt(n)

\* living_pregs, kept up to date bit by bit from one instruction to the
\* next, holds at each exactly the registers whose interval began by then
\* and goes on, when the scan is over: a bit missing loses a value in a
\* call, a bit too many keeps the room PRECALL makes and the stores of CALL
\* from agreeing with what lives.
LivingMatchesIntervals == [][(i <= N /\ i' > N) => LivingIsExact']_scanVars
=============================================================================
