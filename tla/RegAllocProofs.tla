--------------------------- MODULE RegAllocProofs --------------------------
(***************************************************************************)
(* Register allocation does not change what a program computes, for all    *)
(* programs, of any number of blocks and registers, whose blocks jump only *)
(* at the bottom: analyze_reg_flow computes liveness, the intervals cover  *)
(* it, and on the run of the allocated program an instruction finds the    *)
(* value of each register it reads.                                        *)
(*                                                                         *)
(* No shared register: the linear scan looks at the active list only, so   *)
(* its invariant says what the list, the bits and the registers given out  *)
(* have to do with each other, for any intervals and any register files.   *)
(*                                                                         *)
(* Balanced: as long as a pass has not changed any in_regs (cont is        *)
(* FALSE), every block it has visited satisfies the equations of           *)
(* live-variable analysis, since what a visit writes depends only on       *)
(* in_regs.  The loop stops after such a pass.                             *)
(*                                                                         *)
(* No more than what is live: each register is put into in_regs because    *)
(* the block reads it first, or passes it on to a successor, and either    *)
(* way a path leads from the block's entry to a read.                      *)
(*                                                                         *)
(* No less: the points at which balanced blocks want a register are closed *)
(* under steps back, and the points at which it is live are the least such *)
(* set, whatever the number of steps.                                      *)
(*                                                                         *)
(* The run: a register whose value is still read is kept where its         *)
(* interval is.  An instruction can only overwrite it for another one of   *)
(* the same register, whose interval then meets this one; the two are in   *)
(* turn (InTurn), so one ends where the other starts, and that is at the   *)
(* first instruction of a block which assigns what is never read           *)
(* (NoDeadFirst).  A call keeps what living_pregs holds, which is every    *)
(* interval that goes on.                                                  *)
(***************************************************************************)
EXTENDS RegAlloc, FiniteSetTheorems, WellFoundedInduction, TLAPS

(***************************************************************************)
(* The linear scan.                                                        *)
(***************************************************************************)
\* A position not yet scanned is as check_live_interval left it, and only
\* intervals that were normal from the start may hold a register.
StateAgrees ==
    /\ \A a \in Ranks : a >= i => state[a] = itv[a].kind
    /\ \A a \in Ranks : state[a] = "NORMAL" => itv[a].kind = "NORMAL"

\* A scanned interval that is out of the list is over before any interval
\* still to be scanned starts.  This is what makes freeing its register right.
RetiredAreOver ==
    \A a \in Normal : ~In(active[itv[a].file], a) =>
        \A b \in Ranks : (b >= i /\ itv[b].kind = "NORMAL") =>
            itv[a].end <= itv[b].start

\* Of two intervals with one register the first in order is over when the
\* second starts: the registers' bits come and go in the order of the list.
InTurn ==
    \A a, b \in Normal :
        (a < b /\ itv[a].file = itv[b].file /\ phys[a] = phys[b])
            => itv[a].end <= itv[b].start

ScanInv ==
    /\ ScanTypeOK
    /\ SortedByStart(itv)
    /\ StateAgrees
    /\ ActiveAgrees
    /\ RetiredAreOver
    /\ InTurn
    /\ UsedCoversAssigned

-----------------------------------------------------------------------------
\* Dropping the first n elements of a list shifts the others down.
LEMMA DropFirstProperties ==
    ASSUME NEW S, NEW s \in Seq(S), NEW n \in 0..Len(s)
    PROVE  /\ DropFirst(s, n) \in Seq(S)
           /\ Len(DropFirst(s, n)) = Len(s) - n
           /\ \A k \in 1 .. (Len(s) - n) : DropFirst(s, n)[k] = s[k + n]
BY DEF DropFirst

\* Inserting at p keeps what is before p and shifts what is behind it.
LEMMA InsertedAtProperties ==
    ASSUME NEW S, NEW s \in Seq(S), NEW a \in S, NEW p \in 1 .. (Len(s) + 1)
    PROVE  /\ InsertedAt(s, p, a) \in Seq(S)
           /\ Len(InsertedAt(s, p, a)) = Len(s) + 1
           /\ InsertedAt(s, p, a)[p] = a
           /\ \A k \in 1 .. (p - 1) : InsertedAt(s, p, a)[k] = s[k]
           /\ \A k \in (p + 1) .. (Len(s) + 1) : InsertedAt(s, p, a)[k] = s[k - 1]
<1>1. \A k \in 1 .. (Len(s) + 1) :
        (IF k < p THEN s[k] ELSE IF k = p THEN a ELSE s[k - 1]) \in S
  OBVIOUS
<1>2. InsertedAt(s, p, a) \in Seq(S)
  BY <1>1 DEF InsertedAt
<1>3. Len(InsertedAt(s, p, a)) = Len(s) + 1
  BY DEF InsertedAt
<1> QED
  BY <1>2, <1>3 DEF InsertedAt

-----------------------------------------------------------------------------
\* The list and the bits after expiry agree with one another, and what left
\* the list is over when interval i starts.
LEMMA ExpiryProperties ==
    ASSUME ScanInv, NEW nx \in [Files -> 0..N], Scanned(nx), NEW f \in Files
    PROVE  /\ Live(nx, f) \in Seq(Ranks)
           /\ Agrees(f, Live(nx, f), Bits(nx, f))
           /\ \A a \in Normal :
                (itv[a].file = f /\ ~In(Live(nx, f), a)) => itv[a].end <= itv[i].start
<1> DEFINE s == active[f]
           n == nx[f]
           t == Live(nx, f)
<1>1. /\ s \in Seq(Ranks)
      /\ n \in 0..Len(s)
      /\ Agrees(f, s, using[f])
  BY DEF ScanInv, ScanTypeOK, ActiveAgrees, Scanned, ExpiredPrefix
<1>2. /\ t \in Seq(Ranks)
      /\ Len(t) = Len(s) - n
      /\ \A k \in 1 .. (Len(s) - n) : t[k] = s[k + n]
  BY <1>1, DropFirstProperties DEF Live
<1>3. Bits(nx, f) = {phys[t[k]] : k \in 1..Len(t)}
  <2>1. Bits(nx, f) = {phys[s[k]] : k \in 1..Len(s)} \ {phys[s[k]] : k \in 1..n}
    BY <1>1 DEF Bits, FreedBits, Agrees
  <2>2. \A k \in 1..n, l \in (n + 1)..Len(s) : phys[s[k]] # phys[s[l]]
    BY <1>1 DEF Agrees
  <2>3. {phys[s[k]] : k \in 1..Len(s)} \ {phys[s[k]] : k \in 1..n}
          = {phys[s[k]] : k \in (n + 1)..Len(s)}
    BY <1>1, <2>2
  <2>4. ASSUME NEW r
        PROVE r \in {phys[s[k]] : k \in (n + 1)..Len(s)}
                <=> r \in {phys[t[k]] : k \in 1..Len(t)}
    <3>1. ASSUME NEW k \in (n + 1)..Len(s), r = phys[s[k]]
          PROVE  \E l \in 1..Len(t) : r = phys[t[l]]
      <4>1. k - n \in 1..Len(t) /\ t[k - n] = s[k]
        BY <1>1, <1>2
      <4> QED BY <3>1, <4>1
    <3>2. ASSUME NEW k \in 1..Len(t), r = phys[t[k]]
          PROVE  \E l \in (n + 1)..Len(s) : r = phys[s[l]]
      <4>1. k + n \in (n + 1)..Len(s) /\ t[k] = s[k + n]
        BY <1>1, <1>2
      <4> QED BY <3>2, <4>1
    <3> QED BY <3>1, <3>2
  <2> QED BY <2>1, <2>3, <2>4
<1>4. Agrees(f, t, Bits(nx, f))
  <2>1. \A k \in 1..Len(t) : k + n \in 1..Len(s) /\ t[k] = s[k + n]
    BY <1>1, <1>2
  <2>2. Len(t) <= PhysMax[f]
    BY <1>1, <1>2, ScanAssumption DEF Agrees
  <2> HIDE DEF t
  <2>3. ASSUME NEW k \in 1..Len(t), NEW l \in 1..Len(t), k < l
        PROVE  /\ End(t[k]) <= End(t[l])
               /\ phys[t[k]] # phys[t[l]]
    <3>1. k + n \in 1..Len(s) /\ l + n \in 1..Len(s) /\ k + n < l + n
      BY <1>1, <2>1, <2>3
    <3>2. t[k] = s[k + n] /\ t[l] = s[l + n]
      BY <2>1
    <3> HIDE DEF s, n
    <3> QED BY <1>1, <3>1, <3>2 DEF Agrees
  <2>4. \A k \in 1..Len(t) :
          /\ t[k] \in Normal
          /\ itv[t[k]].file = f
          /\ phys[t[k]] \in Regs(f)
    BY <1>1, <2>1 DEF Agrees
  <2> QED
    BY <1>3, <2>2, <2>3, <2>4 DEF Agrees
<1>5. ASSUME NEW a \in Normal, itv[a].file = f, ~In(t, a)
      PROVE  itv[a].end <= itv[i].start
  <2>1. CASE ~In(s, a)
    <3>1. i \in Ranks /\ itv[i].kind = "NORMAL" /\ i >= i
      BY DEF ScanInv, ScanTypeOK, StateAgrees, Scanned, Ranks
    <3> QED BY <1>5, <2>1, <3>1 DEF ScanInv, RetiredAreOver
  <2>2. CASE In(s, a)
    <3>1. PICK k \in 1..Len(s) : s[k] = a
      BY <2>2 DEF In
    <3>2. k <= n
      <4>1. SUFFICES ASSUME k > n PROVE FALSE
        BY <1>1
      <4>2. k - n \in 1..Len(t) /\ t[k - n] = a
        BY <1>1, <1>2, <3>1, <4>1
      <4> QED BY <1>5, <4>2 DEF In
    <3>3. \A l \in 1..n : End(s[l]) <= itv[i].start
      BY DEF Scanned, ExpiredPrefix
    <3> QED BY <1>1, <3>1, <3>2, <3>3 DEF End
  <2> QED BY <2>1, <2>2
<1> QED BY <1>2, <1>4, <1>5

\* The elements of a list after an insertion are the old ones and the new.
LEMMA InsertionMembers ==
    ASSUME NEW S, NEW s \in Seq(S), NEW a \in S, NEW p \in 1 .. (Len(s) + 1)
    PROVE  \A x : In(InsertedAt(s, p, a), x) <=> (x = a \/ In(s, x))
<1> DEFINE t == InsertedAt(s, p, a)
<1>1. /\ t \in Seq(S)
      /\ Len(t) = Len(s) + 1
      /\ t[p] = a
      /\ \A k \in 1 .. (p - 1) : t[k] = s[k]
      /\ \A k \in (p + 1) .. (Len(s) + 1) : t[k] = s[k - 1]
  <2>1. t \in Seq(S) /\ Len(t) = Len(s) + 1 /\ t[p] = a
    BY InsertedAtProperties
  <2>2. \A k \in 1 .. (p - 1) : t[k] = s[k]
    BY InsertedAtProperties
  <2>3. \A k \in (p + 1) .. (Len(s) + 1) : t[k] = s[k - 1]
    BY InsertedAtProperties
  <2> QED BY <2>1, <2>2, <2>3
<1> HIDE DEF t
<1>2. \A k \in p .. Len(s) : t[k + 1] = s[k]
  <2>1. \A k \in p .. Len(s) : k + 1 \in (p + 1) .. (Len(s) + 1) /\ (k + 1) - 1 = k
    OBVIOUS
  <2> QED BY <1>1, <2>1
<1>3. ASSUME NEW x
      PROVE  In(t, x) <=> (x = a \/ In(s, x))
  <2>1. ASSUME NEW k \in 1..Len(t), t[k] = x PROVE x = a \/ In(s, x)
    <3>1. CASE k = p BY <1>1, <2>1, <3>1
    <3>2. CASE k < p
      <4>1. k \in 1..Len(s) /\ s[k] = x BY <1>1, <2>1, <3>2
      <4> QED BY <4>1 DEF In
    <3>3. CASE k > p
      <4>1. k - 1 \in 1..Len(s) /\ s[k - 1] = x BY <1>1, <2>1, <3>3
      <4> QED BY <4>1 DEF In
    <3> QED BY <1>1, <2>1, <3>1, <3>2, <3>3
  <2>2. ASSUME NEW k \in 1..Len(s), s[k] = x PROVE In(t, x)
    <3>1. CASE k < p
      BY <1>1, <2>2, <3>1 DEF In
    <3>2. CASE k >= p
      <4>1. k + 1 \in 1..Len(t) /\ t[k + 1] = x BY <1>1, <1>2, <2>2, <3>2
      <4> QED BY <4>1 DEF In
    <3> QED BY <3>1, <3>2
  <2>3. In(t, a)
    BY <1>1 DEF In
  <2> QED BY <2>1, <2>2, <2>3 DEF In
<1> QED BY <1>3 DEF t

\* A list ordered by end whose registers are distinct.
Ordered(s, en, ph) ==
    \A k, l \in 1..Len(s) : k < l => en[s[k]] <= en[s[l]] /\ ph[s[k]] # ph[s[l]]

\* insert_active on a list ordered by end: the result is ordered, holds the
\* old elements and the new one, and their registers stay distinct.
LEMMA InsertionKeepsOrder ==
    ASSUME NEW S, NEW en, NEW ph,
           NEW s \in Seq(S), NEW a \in S, NEW p \in 1 .. (Len(s) + 1)
    PROVE  ( /\ \A x \in S : en[x] \in Int
             /\ Ordered(s, en, ph)
             /\ \A k \in 1..Len(s) : ph[s[k]] # ph[a]
             /\ \A k \in 1 .. (p - 1) : en[s[k]] <= en[a]
             /\ p <= Len(s) => en[a] < en[s[p]] )
           => Ordered(InsertedAt(s, p, a), en, ph)
<1> DEFINE t == InsertedAt(s, p, a)
<1>1. /\ t \in Seq(S)
      /\ Len(t) = Len(s) + 1
      /\ t[p] = a
      /\ \A k \in 1 .. (p - 1) : t[k] = s[k]
      /\ \A k \in (p + 1) .. (Len(s) + 1) : t[k] = s[k - 1]
  <2>1. t \in Seq(S) /\ Len(t) = Len(s) + 1 /\ t[p] = a
    BY InsertedAtProperties
  <2>2. \A k \in 1 .. (p - 1) : t[k] = s[k]
    BY InsertedAtProperties
  <2>3. \A k \in (p + 1) .. (Len(s) + 1) : t[k] = s[k - 1]
    BY InsertedAtProperties
  <2> QED BY <2>1, <2>2, <2>3
<1> HIDE DEF t
<1>2. \A k \in p .. Len(s) : t[k + 1] = s[k]
  <2>1. \A k \in p .. Len(s) : k + 1 \in (p + 1) .. (Len(s) + 1) /\ (k + 1) - 1 = k
    OBVIOUS
  <2> QED BY <1>1, <2>1
<1>3. \A k \in 1..Len(s) : s[k] \in S
  OBVIOUS
<1>4. ASSUME \A x \in S : en[x] \in Int,
             Ordered(s, en, ph),
             \A k \in 1..Len(s) : ph[s[k]] # ph[a],
             \A k \in 1 .. (p - 1) : en[s[k]] <= en[a],
             p <= Len(s) => en[a] < en[s[p]],
             NEW k \in 1..Len(t), NEW l \in 1..Len(t), k < l
      PROVE  en[t[k]] <= en[t[l]] /\ ph[t[k]] # ph[t[l]]
  <2>1. p <= Len(s) => \A m \in p..Len(s) : en[a] < en[s[m]]
    <3>1. \A m \in p..Len(s) : m = p \/ en[s[p]] <= en[s[m]]
      BY <1>4 DEF Ordered
    <3> QED BY <3>1, <1>3, <1>4
  <2>2. CASE l < p
    <3>1. k \in 1..Len(s) /\ l \in 1..Len(s)
      BY <1>1, <1>4, <2>2
    <3>2. t[k] = s[k] /\ t[l] = s[l]
      BY <1>1, <1>4, <2>2
    <3> QED BY <1>4, <3>1, <3>2 DEF Ordered
  <2>3. CASE l = p
    BY <1>1, <1>4, <2>3
  <2>4. CASE l > p /\ k < p
    <3>1. k \in 1..Len(s) /\ l - 1 \in 1..Len(s) /\ k < l - 1
      BY <1>1, <1>4, <2>4
    <3>2. t[k] = s[k] /\ t[l] = s[l - 1]
      BY <1>1, <1>4, <2>4
    <3> QED BY <1>4, <3>1, <3>2 DEF Ordered
  <2>5. CASE l > p /\ k = p
    <3>1. l - 1 \in p..Len(s) /\ t[l] = s[l - 1] /\ t[k] = a
      BY <1>1, <1>4, <2>5
    <3>2. ph[a] # ph[s[l - 1]]
      BY <1>4, <3>1
    <3>3. en[a] <= en[s[l - 1]]
      <4>1. l - 1 \in 1..Len(s) /\ p <= Len(s)
        BY <3>1
      <4>2. en[a] \in Int /\ en[s[l - 1]] \in Int
        <5>1. s[l - 1] \in S
          BY <1>3, <4>1
        <5> QED BY <1>4, <5>1
      <4> QED BY <2>1, <3>1, <4>1, <4>2
    <3> QED BY <3>1, <3>2, <3>3
  <2>6. CASE l > p /\ k > p
    <3>1. k - 1 \in 1..Len(s) /\ l - 1 \in 1..Len(s) /\ k - 1 < l - 1
      BY <1>1, <1>4, <2>6
    <3>2. t[k] = s[k - 1] /\ t[l] = s[l - 1]
      BY <1>1, <1>4, <2>6
    <3> QED BY <1>4, <3>1, <3>2 DEF Ordered
  <2> QED BY <1>1, <1>4, <2>2, <2>3, <2>4, <2>5, <2>6
<1>5. ( /\ \A x \in S : en[x] \in Int
        /\ Ordered(s, en, ph)
        /\ \A k \in 1..Len(s) : ph[s[k]] # ph[a]
        /\ \A k \in 1 .. (p - 1) : en[s[k]] <= en[a]
        /\ p <= Len(s) => en[a] < en[s[p]] )
      => Ordered(t, en, ph)
  BY <1>4 DEF Ordered
<1> QED BY <1>5 DEF t

-----------------------------------------------------------------------------
\* What every branch of the loop body may assume of the interval it places.
LEMMA ScannedProperties ==
    ASSUME ScanInv, NEW nx \in [Files -> 0..N], Scanned(nx)
    PROVE  /\ i \in Ranks
           /\ i \notin Normal
           /\ itv[i].kind = "NORMAL"
           /\ itv[i].file \in Files
           /\ \A a \in Ranks : itv[a].start \in Int /\ itv[a].end \in Int
           /\ itv[i].start <= itv[i].end
           /\ \A b \in Ranks : (b >= i /\ itv[b].kind = "NORMAL")
                => itv[i].start <= itv[b].start
           /\ \A a \in Normal : itv[a].kind = "NORMAL" /\ itv[a].start <= itv[i].start
<1>1. i \in Ranks
  BY DEF ScanInv, ScanTypeOK, Scanned, Ranks
<1>2. \A a \in Ranks : itv[a] \in AnyInterval
  BY DEF ScanInv, ScanTypeOK
<1>3. \A a \in Ranks : /\ itv[a].start \in Int /\ itv[a].end \in Int
                        /\ itv[a].file \in Files
  BY <1>2, ScanAssumption DEF AnyInterval
<1>4. itv[i].kind = "NORMAL"
  BY <1>1 DEF ScanInv, StateAgrees, Scanned
<1>5. itv[i].start <= itv[i].end
  BY <1>1, <1>2, <1>4, ScanAssumption DEF AnyInterval
<1>6. \A b \in Ranks : (b >= i /\ itv[b].kind = "NORMAL") => itv[i].start <= itv[b].start
  BY <1>1, <1>3, <1>4 DEF ScanInv, SortedByStart, Ranks
<1>7. \A a \in Normal : itv[a].kind = "NORMAL" /\ itv[a].start <= itv[i].start
  BY <1>1, <1>4 DEF ScanInv, SortedByStart, StateAgrees, Normal
<1> QED BY <1>1, <1>3, <1>4, <1>5, <1>6, <1>7 DEF Normal, Ranks

\* The step of the argument that every branch shares: whatever the branch
\* does, if afterwards the list, the bits and the registers agree, and every
\* interval that was in the list and stays normal is still there, then what
\* left the list is over and no two live intervals share a register.
LEMMA PlacementPreserves ==
    ASSUME ScanInv, NEW nx \in [Files -> 0..N], Scanned(nx),
           NEW f \in Files, f = itv[i].file,
           ActiveAgrees',
           itv' = itv,
           i' = i + 1,
           used' = [used EXCEPT ![f] = @ \cup using'[f]],
           \A a \in Ranks : state'[a] = "NORMAL" => state[a] = "NORMAL",
           \A a \in Normal : state'[a] = "NORMAL" => phys'[a] = phys[a],
           state'[i] = "NORMAL" => In(active'[f], i),
           \A a \in Normal : (state'[a] = "NORMAL" /\ In(Live(nx, itv[a].file), a))
              => In(active'[itv[a].file], a)
    PROVE  RetiredAreOver' /\ InTurn' /\ UsedCoversAssigned'
<1>1. /\ i \in Ranks
      /\ itv[i].kind = "NORMAL"
      /\ itv[i].file \in Files
      /\ \A a \in Ranks : itv[a].start \in Int /\ itv[a].end \in Int
      /\ \A b \in Ranks : (b >= i /\ itv[b].kind = "NORMAL")
            => itv[i].start <= itv[b].start
  BY ScannedProperties
<1>2. \A a \in Ranks : itv[a].file \in Files
  BY ScanAssumption DEF AnyInterval, ScanInv, ScanTypeOK
<1>3. \A a \in Normal' : /\ a \in Ranks
                         /\ a \in Normal \/ a = i
                         /\ state'[a] = "NORMAL"
  BY <1>1 DEF Normal, Ranks
<1>4. \A a \in Normal : ~In(Live(nx, itv[a].file), a) => itv[a].end <= itv[i].start
  BY <1>2, ExpiryProperties DEF Normal
<1>5. RetiredAreOver'
  <2>1. SUFFICES ASSUME NEW a \in Normal', ~In(active'[itv[a].file], a),
                        NEW b \in Ranks, b >= i + 1, itv[b].kind = "NORMAL"
                 PROVE  itv[a].end <= itv[b].start
    BY <1>3 DEF RetiredAreOver, In
  <2>2. a \in Normal /\ ~In(Live(nx, itv[a].file), a)
    <3>1. state'[a] = "NORMAL"
      BY <1>3
    <3>2. a # i
      BY <2>1, <3>1
    <3>3. a \in Normal
      BY <1>3, <3>2
    <3> QED BY <2>1, <3>1, <3>3
  <2>3. itv[a].end <= itv[i].start
    BY <1>4, <2>2
  <2>4. itv[i].start <= itv[b].start
    BY <1>1, <2>1 DEF Ranks
  <2> QED BY <1>1, <1>3, <2>3, <2>4
<1>6. ASSUME NEW a \in Normal', itv[a].file = itv[i].file, a # i,
             ~(itv[a].end <= itv[i].start), i \in Normal'
      PROVE  phys'[a] # phys'[i]
  <2>1. a \in Normal /\ In(Live(nx, itv[a].file), a)
    BY <1>3, <1>4, <1>6
  <2>2. In(active'[f], a) /\ In(active'[f], i)
    BY <1>1, <1>3, <1>6, <2>1
  <2>3. PICK k \in 1..Len(active'[f]), l \in 1..Len(active'[f]) :
          active'[f][k] = a /\ active'[f][l] = i
    BY <2>2 DEF In
  <2>4. Agrees(f, active[f], using[f])'
    BY DEF ActiveAgrees
  <2>5. k < l \/ l < k
    <3>1. k # l
      BY <1>6, <2>3
    <3> QED BY <3>1
  <2> QED BY <2>3, <2>4, <2>5 DEF Agrees
<1>7. InTurn'
  <2>1. SUFFICES ASSUME NEW a \in Normal', NEW b \in Normal', a < b,
                        itv[a].file = itv[b].file, phys'[a] = phys'[b]
                 PROVE  itv[a].end <= itv[b].start
    BY DEF InTurn
  <2>2. CASE a \in Normal /\ b \in Normal
    <3>1. phys'[a] = phys[a] /\ phys'[b] = phys[b]
      BY <1>3, <2>2
    <3> QED BY <2>1, <2>2, <3>1 DEF ScanInv, InTurn
  <2>3. a # i
    BY <1>1, <2>1 DEF Normal, Ranks
  <2>4. CASE b = i
    BY <1>6, <2>1, <2>3, <2>4
  <2> QED BY <1>3, <2>2, <2>3, <2>4
<1>8. UsedCoversAssigned'
  <2>1. SUFFICES ASSUME NEW a \in Normal'
                 PROVE  phys'[a] \in used'[itv[a].file]
    BY DEF UsedCoversAssigned
  <2>2. \A g \in Files : used[g] \subseteq used'[g]
    BY <1>1 DEF ScanInv, ScanTypeOK
  <2>3. CASE a \in Normal
    <3>1. phys[a] \in used[itv[a].file]
      BY <2>3 DEF ScanInv, UsedCoversAssigned
    <3> QED BY <1>2, <1>3, <2>2, <2>3, <3>1
  <2>4. CASE a = i
    <3>1. In(active'[f], i)
      <4>1. state'[i] = "NORMAL"
        BY <1>3, <2>4
      <4> QED BY <4>1
    <3>2. Agrees(f, active[f], using[f])'
      BY DEF ActiveAgrees
    <3>3. phys'[i] \in using'[f]
      BY <3>1, <3>2 DEF Agrees, In
    <3>4. using'[f] \subseteq used'[f]
      BY DEF ScanInv, ScanTypeOK
    <3> QED BY <2>4, <3>3, <3>4
  <2> QED BY <1>3, <2>3, <2>4
<1> QED BY <1>5, <1>7, <1>8

\* A file whose list only expired still agrees, as long as the step takes
\* nothing from the intervals that remain in it.
LEMMA ExpiredAgrees ==
    ASSUME ScanInv, NEW nx \in [Files -> 0..N], Scanned(nx), NEW g \in Files,
           active'[g] = Live(nx, g),
           using'[g] = Bits(nx, g),
           itv' = itv,
           i' = i + 1,
           \A a \in Normal : In(Live(nx, g), a) => state'[a] = "NORMAL" /\ phys'[a] = phys[a]
    PROVE  Agrees(g, active[g], using[g])'
<1> DEFINE s == Live(nx, g)
<1>1. s \in Seq(Ranks) /\ Agrees(g, s, Bits(nx, g))
  BY ExpiryProperties
<1> HIDE DEF s
<1>2. i \in Ranks
  BY ScannedProperties
<1>3. \A k \in 1..Len(s) :
        /\ s[k] \in Normal
        /\ state'[s[k]] = "NORMAL"
        /\ phys'[s[k]] = phys[s[k]]
  BY <1>1 DEF s, In, Agrees
<1>4. \A k \in 1..Len(s) : s[k] \in Normal'
  BY <1>2, <1>3 DEF Normal, Ranks
<1>5. Bits(nx, g) = {phys'[s[k]] : k \in 1..Len(s)}
  BY <1>1, <1>3 DEF Agrees
<1>6. \A k, l \in 1..Len(s) : k < l =>
        /\ itv[s[k]].end <= itv[s[l]].end
        /\ phys'[s[k]] # phys'[s[l]]
  BY <1>1, <1>3 DEF Agrees, End
<1>7. \A k \in 1..Len(s) : itv[s[k]].file = g /\ phys'[s[k]] \in Regs(g)
  BY <1>1, <1>3 DEF Agrees
<1>8. Len(s) <= PhysMax[g]
  BY <1>1 DEF Agrees
<1>9. active'[g] = s
  BY DEF s
<1> QED
  BY <1>4, <1>5, <1>6, <1>7, <1>8, <1>9 DEF Agrees, End

\* A file into whose list interval i was inserted agrees, when the register
\* given to i is one of the file and no other interval of the list has it.
LEMMA InsertedAgrees ==
    ASSUME ScanInv, NEW nx \in [Files -> 0..N], Scanned(nx),
           NEW f \in Files, f = itv[i].file,
           NEW s \in Seq(Ranks), NEW p \in 1 .. (Len(s) + 1),
           NEW bits, Agrees(f, s, bits),
           NEW r \in Regs(f), r \notin bits,
           Len(s) < PhysMax[f],
           InsertPosition(s, p, i),
           active'[f] = InsertedAt(s, p, i),
           using'[f] = bits \cup {r},
           itv' = itv,
           i' = i + 1,
           state'[i] = "NORMAL",
           phys'[i] = r,
           \A a \in Normal : In(s, a) => state'[a] = "NORMAL" /\ phys'[a] = phys[a]
    PROVE  Agrees(f, active[f], using[f])'
<1> DEFINE en == [a \in Ranks |-> itv[a].end]
           ph == phys'
           t == InsertedAt(s, p, i)
<1>1. /\ i \in Ranks
      /\ \A a \in Ranks : itv[a].end \in Int
  BY ScannedProperties
<1>2. \A k \in 1..Len(s) :
        /\ s[k] \in Normal
        /\ state'[s[k]] = "NORMAL"
        /\ ph[s[k]] = phys[s[k]]
  BY DEF In, Agrees
<1>3. \A a \in Ranks : en[a] = itv[a].end /\ en[a] \in Int
  BY <1>1
<1> HIDE DEF en, ph
<1>4. \A k \in 1..Len(s) : s[k] \in Ranks
  OBVIOUS
<1>5. Ordered(s, en, ph)
  BY <1>2, <1>3, <1>4 DEF Agrees, End, Ordered
<1>6. \A k \in 1..Len(s) : ph[s[k]] # ph[i]
  BY <1>2 DEF Agrees, ph
<1>7. (\A k \in 1 .. (p - 1) : en[s[k]] <= en[i]) /\ (p <= Len(s) => en[i] < en[s[p]])
  <2>1. \A k \in 1 .. (p - 1) : k \in 1..Len(s)
    OBVIOUS
  <2>2. p <= Len(s) => p \in 1..Len(s)
    OBVIOUS
  <2> QED BY <1>1, <1>3, <1>4, <2>1, <2>2 DEF InsertPosition, End
<1>8. t \in Seq(Ranks) /\ Len(t) = Len(s) + 1
  BY <1>1, InsertedAtProperties
<1>9. \A x : In(t, x) <=> (x = i \/ In(s, x))
  BY <1>1, InsertionMembers
<1>10. Ordered(t, en, ph)
  BY <1>1, <1>3, <1>5, <1>6, <1>7, InsertionKeepsOrder
<1> HIDE DEF t
<1>11. \A k \in 1..Len(t) : t[k] \in Ranks /\ (t[k] = i \/ In(s, t[k]))
  <2>1. \A k \in 1..Len(t) : In(t, t[k])
    BY DEF In
  <2> QED BY <1>8, <1>9, <2>1
<1>12. \A x : In(s, x) => /\ x \in Normal
                           /\ itv[x].file = f
                           /\ ph[x] \in Regs(f)
                           /\ state'[x] = "NORMAL"
  BY <1>2 DEF In, Agrees
<1>13. \A k \in 1..Len(t) : /\ t[k] \in Normal'
                              /\ itv[t[k]].file = f
                              /\ ph[t[k]] \in Regs(f)
  BY <1>1, <1>11, <1>12 DEF Normal, Ranks, ph
<1>14. using'[f] = {ph[t[k]] : k \in 1..Len(t)}
  <2>1. bits = {ph[s[k]] : k \in 1..Len(s)}
    BY <1>2 DEF Agrees
  <2>2. \A q : q \in {ph[s[k]] : k \in 1..Len(s)} <=> \E x : In(s, x) /\ ph[x] = q
    BY DEF In
  <2>3. \A q : q \in {ph[t[k]] : k \in 1..Len(t)} <=> \E x : In(t, x) /\ ph[x] = q
    BY DEF In
  <2>4. ph[i] = r
    BY DEF ph
  <2>5. \A q : q \in bits \cup {r} <=> q \in {ph[t[k]] : k \in 1..Len(t)}
    BY <1>9, <2>1, <2>2, <2>3, <2>4
  <2> QED BY <2>5
<1>15. Len(t) <= PhysMax[f]
  BY <1>8, ScanAssumption
<1>16. \A k, l \in 1..Len(t) : k < l => itv[t[k]].end <= itv[t[l]].end /\ ph[t[k]] # ph[t[l]]
  BY <1>3, <1>10, <1>11 DEF Ordered
<1>17. active'[f] = t
  BY DEF t
<1>18. \A k, l \in 1..Len(t) : k < l =>
          itv'[t[k]].end <= itv'[t[l]].end /\ phys'[t[k]] # phys'[t[l]]
  BY <1>16 DEF ph
<1>19. \A k \in 1..Len(t) : /\ t[k] \in Normal'
                              /\ itv'[t[k]].file = f
                              /\ phys'[t[k]] \in Regs(f)
  BY <1>13 DEF ph
<1>20. using'[f] = {phys'[t[k]] : k \in 1..Len(t)}
  BY <1>14 DEF ph
<1>21. Len(active'[f]) <= PhysMax[f]
  BY <1>15, <1>17
<1>22. \A k \in 1..Len(active'[f]) : /\ active'[f][k] \in Normal'
                                      /\ itv'[active'[f][k]].file = f
                                      /\ phys'[active'[f][k]] \in Regs(f)
  BY <1>17, <1>19
<1>23. \A k, l \in 1..Len(active'[f]) : k < l =>
          /\ itv'[active'[f][k]].end <= itv'[active'[f][l]].end
          /\ phys'[active'[f][k]] # phys'[active'[f][l]]
  BY <1>17, <1>18
<1>24. using'[f] = {phys'[active'[f][k]] : k \in 1..Len(active'[f])}
  BY <1>17, <1>20
<1> QED
  BY <1>21, <1>22, <1>23, <1>24 DEF Agrees, End

-----------------------------------------------------------------------------
\* Register numbers fit the bits of a file and never read as spilled.
LEMMA RegsProperties ==
    ASSUME NEW f \in Files
    PROVE  /\ Regs(f) \subseteq 0 .. (Spilled - 1)
           /\ Spilled \in Nat /\ Spilled > 0
           /\ PhysMax[f] \in Nat /\ PhysMax[f] > 0
<1>1. PhysMax["freg"] \in Nat /\ PhysMax["ireg"] \in Nat /\ PhysMax[f] \in Nat /\ PhysMax[f] > 0
  BY ScanAssumption DEF Files
<1>2. PhysMax["freg"] <= PhysMax["ireg"] /\ PhysMax["ireg"] > 0
  BY ScanAssumption DEF Files
<1> QED BY <1>1, <1>2 DEF Regs, Spilled, Files

\* What expiry leaves has the types of the scan's lists and bits.
LEMMA LiveTypes ==
    ASSUME ScanInv, NEW nx \in [Files -> 0..N], Scanned(nx), NEW g \in Files
    PROVE  Live(nx, g) \in Seq(Ranks) /\ Bits(nx, g) \subseteq 0 .. (Spilled - 1)
<1>1. Live(nx, g) \in Seq(Ranks)
  BY ExpiryProperties
<1>2. Bits(nx, g) \subseteq using[g]
  BY DEF Bits, FreedBits
<1> QED BY <1>1, <1>2 DEF ScanInv, ScanTypeOK

LEMMA AssignPreserves ==
    ASSUME ScanInv, NEW nx \in [Files -> 0..N], Assign(nx)
    PROVE  ScanInv'
<1>1. Scanned(nx)
  BY DEF Assign, Recorded
<1>2. PICK f \in Files : f = itv[i].file
  BY <1>1, ScannedProperties
<1>3. PICK s : s = Live(nx, f)
  OBVIOUS
<1>0. PICK r \in Regs(itv[i].file), p \in 1 .. (Len(Live(nx, itv[i].file)) + 1) :
        /\ LowestFree(itv[i].file, Bits(nx, itv[i].file), r)
        /\ InsertPosition(Live(nx, itv[i].file), p, i)
        /\ phys' = [phys EXCEPT ![i] = r]
        /\ active' = [g \in Files |->
              IF g = itv[i].file THEN InsertedAt(Live(nx, itv[i].file), p, i)
                                 ELSE Live(nx, g)]
        /\ using' = [g \in Files |->
              IF g = itv[i].file THEN Bits(nx, itv[i].file) \cup {r} ELSE Bits(nx, g)]
  BY Zenon DEF Assign, Recorded
<1>4. /\ r \in Regs(f)
      /\ p \in 1 .. (Len(s) + 1)
      /\ LowestFree(f, Bits(nx, f), r)
      /\ InsertPosition(s, p, i)
      /\ phys' = [phys EXCEPT ![i] = r]
      /\ active' = [g \in Files |->
            IF g = f THEN InsertedAt(s, p, i) ELSE Live(nx, g)]
      /\ using' = [g \in Files |->
            IF g = f THEN Bits(nx, f) \cup {r} ELSE Bits(nx, g)]
  BY <1>2, <1>3, <1>0
<1>5. /\ ~Full(f, s)
      /\ used' = [used EXCEPT ![f] = @ \cup using'[f]]
      /\ i' = i + 1
      /\ itv' = itv
      /\ state' = state
  BY <1>2, <1>3 DEF Assign, Recorded
<1>6. /\ i \in Ranks
      /\ i \notin Normal
      /\ i \in Nat /\ i <= N /\ N \in Nat
      /\ state[i] = "NORMAL"
  BY <1>1, ScannedProperties, ScanAssumption DEF Ranks, Scanned
<1>7. /\ s \in Seq(Ranks)
      /\ Agrees(f, s, Bits(nx, f))
      /\ Len(s) < PhysMax[f]
  <2>1. s \in Seq(Ranks) /\ Agrees(f, s, Bits(nx, f))
    BY <1>1, <1>3, ExpiryProperties
  <2>2. Len(s) \in Nat /\ PhysMax[f] \in Nat
    BY <2>1, RegsProperties
  <2>3. Len(s) < PhysMax[f]
    BY <1>5, <2>2 DEF Full
  <2> QED BY <2>1, <2>3
<1>8. \A a \in Normal : state'[a] = "NORMAL" /\ phys'[a] = phys[a]
  BY <1>4, <1>5, <1>6 DEF ScanInv, ScanTypeOK, Normal
<1>9. phys'[i] = r
  BY <1>4, <1>6 DEF ScanInv, ScanTypeOK
<1>10. r \in Regs(f) /\ r \notin Bits(nx, f)
  BY <1>4 DEF LowestFree
<1>11. active'[f] = InsertedAt(s, p, i) /\ using'[f] = Bits(nx, f) \cup {r}
  BY <1>4
<1>12. \A g \in Files : g # f => active'[g] = Live(nx, g) /\ using'[g] = Bits(nx, g)
  BY <1>4
<1>13. ActiveAgrees'
  <2>1. SUFFICES ASSUME NEW g \in Files
                 PROVE  Agrees(g, active[g], using[g])'
    BY DEF ActiveAgrees
  <2>2. CASE g = f
    <3>1. Agrees(f, active[f], using[f])'
      BY <1>1, <1>2, <1>4, <1>5, <1>6, <1>7, <1>8, <1>9, <1>10, <1>11, InsertedAgrees
    <3> QED BY <2>2, <3>1
  <2>3. CASE g # f
    BY <1>1, <1>5, <1>8, <1>12, <2>3, ExpiredAgrees
  <2> QED BY <2>2, <2>3
<1>14. \A x : In(active'[f], x) <=> (x = i \/ In(s, x))
  BY <1>4, <1>6, <1>7, <1>11, InsertionMembers
<1>15. \A a \in Normal : In(Live(nx, itv[a].file), a) => In(active'[itv[a].file], a)
  <2>1. ASSUME NEW a \in Normal, In(Live(nx, itv[a].file), a)
        PROVE  In(active'[itv[a].file], a)
    <3>1. itv[a].file \in Files
      BY ScanAssumption DEF AnyInterval, ScanInv, ScanTypeOK, Normal
    <3>2. CASE itv[a].file = f
      BY <1>3, <1>14, <2>1, <3>2
    <3>3. CASE itv[a].file # f
      BY <1>12, <2>1, <3>1, <3>3
    <3> QED BY <3>2, <3>3
  <2> QED BY <2>1
<1>16. RetiredAreOver' /\ InTurn' /\ UsedCoversAssigned'
  <2>1. \A a \in Ranks : state'[a] = "NORMAL" => state[a] = "NORMAL"
    BY <1>5
  <2>2. In(active'[f], i)
    BY <1>14
  <2> QED
    BY <1>1, <1>2, <1>5, <1>8, <1>13, <1>15, <2>1, <2>2, PlacementPreserves
<1>17. ScanTypeOK'
  <2>1. phys' \in [Ranks -> {Unassigned} \cup 0..Spilled]
    <3>1. r \in {Unassigned} \cup 0..Spilled
      BY <1>10, RegsProperties
    <3>2. phys \in [Ranks -> {Unassigned} \cup 0..Spilled]
      BY DEF ScanInv, ScanTypeOK
    <3> HIDE DEF Spilled, Unassigned
    <3> QED BY <1>4, <3>1, <3>2
  <2>2. active' \in [Files -> Seq(Ranks)]
    <3>1. InsertedAt(s, p, i) \in Seq(Ranks)
      BY <1>4, <1>6, <1>7, InsertedAtProperties
    <3>2. \A g \in Files : Live(nx, g) \in Seq(Ranks)
      BY <1>1, LiveTypes
    <3> QED BY <1>4, <3>1, <3>2
  <2>3. using' \in [Files -> SUBSET (0 .. (Spilled - 1))]
    <3>1. \A g \in Files : Bits(nx, g) \subseteq 0 .. (Spilled - 1)
      BY <1>1, LiveTypes
    <3>2. r \in 0 .. (Spilled - 1)
      BY <1>4, RegsProperties
    <3> QED BY <1>4, <3>1, <3>2
  <2>4. used' \in [Files -> SUBSET (0 .. (Spilled - 1))]
    BY <1>5, <2>3 DEF ScanInv, ScanTypeOK
  <2>5. i' \in 1 .. (N + 1)
    BY <1>5, <1>6 DEF Ranks
  <2> QED BY <1>5, <2>1, <2>2, <2>3, <2>4, <2>5 DEF ScanInv, ScanTypeOK
<1>18. SortedByStart(itv)' /\ StateAgrees'
  BY <1>5, <1>6 DEF ScanInv, SortedByStart, StateAgrees, Ranks
<1> QED BY <1>13, <1>16, <1>17, <1>18 DEF ScanInv

\* The front of a list keeps every element but the last.
LEMMA FrontProperties ==
    ASSUME NEW S, NEW s \in Seq(S), Len(s) > 0
    PROVE  /\ SubSeq(s, 1, Len(s) - 1) \in Seq(S)
           /\ Len(SubSeq(s, 1, Len(s) - 1)) = Len(s) - 1
           /\ \A k \in 1 .. (Len(s) - 1) : SubSeq(s, 1, Len(s) - 1)[k] = s[k]
<1>1. Len(s) \in Nat /\ Len(s) - 1 \in Nat
  OBVIOUS
<1>2. \A k \in 1 .. (Len(s) - 1) : s[k] \in S
  OBVIOUS
<1>3. Len(SubSeq(s, 1, Len(s) - 1)) = Len(s) - 1
  <2>1. CASE Len(s) = 1
    BY <2>1
  <2>2. CASE Len(s) > 1
    BY <1>1, <2>2
  <2>3. PICK n \in Nat : n = Len(s)
    BY <1>1
  <2>4. n = 1 \/ n > 1
    BY <2>3
  <2> QED BY <2>1, <2>2, <2>3, <2>4, Zenon
<1>4. \A k \in 1 .. (Len(s) - 1) : SubSeq(s, 1, Len(s) - 1)[k] = s[k]
  BY <1>1
<1>5. SubSeq(s, 1, Len(s) - 1) \in Seq(S)
  BY <1>1, <1>2
<1> QED BY <1>3, <1>4, <1>5

SplitsOff(s, rest, last) ==
    last = s[Len(s)] /\ rest = SubSeq(s, 1, Len(s) - 1)

\* A list that agrees still does without its last element, once the register
\* of that element is taken from the bits.
LEMMA RestAgrees ==
    ASSUME NEW f \in Files, NEW s \in Seq(Ranks), NEW bits, Agrees(f, s, bits),
           Len(s) > 0, PhysMax[f] \in Nat,
           NEW last \in Ranks, NEW rest \in Seq(Ranks), SplitsOff(s, rest, last)
    PROVE  /\ last \in Normal /\ itv[last].file = f /\ phys[last] \in bits
           /\ Len(rest) = Len(s) - 1
           /\ ~In(rest, last)
           /\ \A x : In(s, x) => x = last \/ In(rest, x)
           /\ Agrees(f, rest, bits \ {phys[last]})
<1>0. last = s[Len(s)] /\ rest = SubSeq(s, 1, Len(s) - 1)
  BY DEF SplitsOff
<1>1. /\ rest \in Seq(Ranks)
      /\ Len(rest) = Len(s) - 1
      /\ \A k \in 1 .. Len(rest) : k \in 1..Len(s) /\ k < Len(s) /\ rest[k] = s[k]
  <2>1. Len(s) \in Nat /\ Len(s) - 1 \in Nat /\ Len(s) - 1 <= Len(s)
    OBVIOUS
  <2>2. rest \in Seq(Ranks) /\ Len(rest) = Len(s) - 1
    BY <1>0, FrontProperties
  <2>3. \A k \in 1 .. (Len(s) - 1) : rest[k] = s[k]
    BY <1>0, FrontProperties
  <2> QED BY <2>1, <2>2, <2>3
<1>2. Len(s) \in 1..Len(s)
  OBVIOUS
<1>3. last \in Normal /\ itv[last].file = f /\ phys[last] \in bits
  BY <1>0, <1>2 DEF Agrees
<1>4. \A k \in 1..Len(rest) : phys[rest[k]] # phys[last]
  BY <1>0, <1>1, <1>2 DEF Agrees
<1>5. \A x : In(s, x) => x = last \/ In(rest, x)
  <2>1. ASSUME NEW k \in 1..Len(s), s[k] # last PROVE k \in 1..Len(rest) /\ rest[k] = s[k]
    BY <1>0, <1>1, <2>1
  <2> QED BY <2>1 DEF In
<1>6. bits \ {phys[last]} = {phys[rest[k]] : k \in 1..Len(rest)}
  <2>1. bits = {phys[s[k]] : k \in 1..Len(s)}
    BY DEF Agrees
  <2>2. ASSUME NEW k \in 1..Len(s), phys[s[k]] # phys[last]
        PROVE  \E m \in 1..Len(rest) : phys[rest[m]] = phys[s[k]]
    <3>1. k \in 1..Len(rest) /\ rest[k] = s[k]
      BY <1>0, <1>1, <2>2
    <3> QED BY <3>1
  <2>3. \A k \in 1..Len(rest) : \E m \in 1..Len(s) : phys[rest[k]] = phys[s[m]]
    BY <1>1
  <2>4. \A q : q \in {phys[rest[k]] : k \in 1..Len(rest)} => q \in bits \ {phys[last]}
    BY <1>4, <2>1, <2>3
  <2>5. \A q : q \in bits \ {phys[last]} => q \in {phys[rest[k]] : k \in 1..Len(rest)}
    BY <2>1, <2>2
  <2> QED BY <2>4, <2>5
<1>7. \A k, l \in 1..Len(rest) : k < l =>
        End(rest[k]) <= End(rest[l]) /\ phys[rest[k]] # phys[rest[l]]
  BY <1>1 DEF Agrees
<1>8. \A k \in 1..Len(rest) :
        rest[k] \in Normal /\ itv[rest[k]].file = f /\ phys[rest[k]] \in Regs(f)
  BY <1>1 DEF Agrees
<1>9. Len(rest) <= PhysMax[f]
  BY <1>1 DEF Agrees
<1>10. Agrees(f, rest, bits \ {phys[last]})
  BY <1>6, <1>7, <1>8, <1>9 DEF Agrees
<1>11. ~In(rest, last)
  BY <1>4 DEF In
<1> QED BY <1>1, <1>3, <1>5, <1>10, <1>11

LEMMA SpillActivePreserves ==
    ASSUME ScanInv, NEW nx \in [Files -> 0..N], SpillActive(nx)
    PROVE  ScanInv'
<1>1. Scanned(nx)
  BY DEF SpillActive, Full, Recorded
<1>2. PICK f \in Files : f = itv[i].file
  BY <1>1, ScannedProperties
<1>3. PICK s : s = Live(nx, f)
  OBVIOUS
<1>4. PICK last, rest : last = s[Len(s)] /\ rest = SubSeq(s, 1, Len(s) - 1)
  OBVIOUS
<1>5. /\ Len(s) >= PhysMax[f]
      /\ phys' = [phys EXCEPT ![i] = phys[last], ![last] = Spilled]
      /\ state' = [state EXCEPT ![last] = "SPILL"]
      /\ using' = [g \in Files |-> Bits(nx, g)]
      /\ used' = [used EXCEPT ![f] = @ \cup using'[f]]
      /\ i' = i + 1
      /\ itv' = itv
  BY <1>2, <1>3, <1>4 DEF SpillActive, Full, Recorded
<1>0. PICK p \in 1 .. Len(Live(nx, itv[i].file)) :
        LET rs == SubSeq(Live(nx, itv[i].file), 1, Len(Live(nx, itv[i].file)) - 1) IN
        /\ InsertPosition(rs, p, i)
        /\ active' = [g \in Files |->
              IF g = itv[i].file THEN InsertedAt(rs, p, i) ELSE Live(nx, g)]
  BY Zenon DEF SpillActive, Full, Recorded
<1>6. /\ p \in 1 .. Len(s)
      /\ InsertPosition(rest, p, i)
      /\ active' = [g \in Files |->
            IF g = f THEN InsertedAt(rest, p, i) ELSE Live(nx, g)]
  BY <1>2, <1>3, <1>4, <1>0
<1>7. /\ i \in Ranks
      /\ i \notin Normal
      /\ i \in Nat /\ i <= N /\ N \in Nat
      /\ state[i] = "NORMAL"
  <2>1. i \in Ranks /\ i \notin Normal
    BY <1>1, ScannedProperties
  <2>2. i <= N /\ state[i] = "NORMAL"
    BY <1>1 DEF Scanned
  <2>3. i \in Nat /\ N \in Nat
    BY <2>1, ScanAssumption DEF Ranks
  <2> QED BY <2>1, <2>2, <2>3
<1>8. /\ s \in Seq(Ranks)
      /\ Agrees(f, s, Bits(nx, f))
      /\ PhysMax[f] \in Nat
      /\ Len(s) > 0
  BY <1>1, <1>3, <1>5, ExpiryProperties, RegsProperties
<1>9. /\ last \in Normal /\ itv[last].file = f
      /\ phys[last] \in Bits(nx, f) /\ phys[last] \in Regs(f)
      /\ rest \in Seq(Ranks)
      /\ Len(rest) = Len(s) - 1
      /\ ~In(rest, last)
      /\ \A x : In(s, x) => x = last \/ In(rest, x)
      /\ Agrees(f, rest, Bits(nx, f) \ {phys[last]})
  <2>1. phys[last] \in Regs(f)
    <3>1. Len(s) \in 1..Len(s)
      BY <1>8
    <3> QED BY <1>4, <1>8, <3>1 DEF Agrees
  <2>2. last \in Ranks
    <3>1. Len(s) \in 1..Len(s)
      BY <1>8
    <3> QED BY <1>4, <1>8, <3>1
  <2>3. rest \in Seq(Ranks)
    BY <1>4, <1>8, FrontProperties
  <2>4. /\ Len(s) > 0 /\ PhysMax[f] \in Nat /\ s \in Seq(Ranks)
        /\ SplitsOff(s, rest, last)
        /\ Agrees(f, s, Bits(nx, f))
    BY <1>4, <1>8 DEF SplitsOff
  <2>5. last \in Normal /\ itv[last].file = f /\ phys[last] \in Bits(nx, f)
    BY <2>2, <2>3, <2>4, RestAgrees
  <2>6. Len(rest) = Len(s) - 1 /\ ~In(rest, last)
    BY <2>2, <2>3, <2>4, RestAgrees
  <2>7. \A x : In(s, x) => x = last \/ In(rest, x)
    BY <2>2, <2>3, <2>4, RestAgrees
  <2>8. Agrees(f, rest, Bits(nx, f) \ {phys[last]})
    BY <2>2, <2>3, <2>4, RestAgrees
  <2> QED BY <2>1, <2>3, <2>5, <2>6, <2>7, <2>8
<1>10. last \in Ranks /\ last # i
  BY <1>7, <1>9 DEF Normal
<1>11. /\ phys'[i] = phys[last]
       /\ state'[i] = "NORMAL"
       /\ state'[last] = "SPILL"
       /\ \A a \in Normal : a # last => state'[a] = "NORMAL" /\ phys'[a] = phys[a]
       /\ \A a \in Ranks : a # last => state'[a] = state[a]
  BY <1>5, <1>7, <1>10 DEF ScanInv, ScanTypeOK, Normal
<1>12. /\ active'[f] = InsertedAt(rest, p, i)
       /\ using'[f] = (Bits(nx, f) \ {phys[last]}) \cup {phys[last]}
  BY <1>5, <1>6, <1>9
<1>13. \A g \in Files : g # f => active'[g] = Live(nx, g) /\ using'[g] = Bits(nx, g)
  BY <1>5, <1>6
<1>14. Len(rest) < PhysMax[f] /\ p \in 1 .. (Len(rest) + 1)
  BY <1>6, <1>8, <1>9 DEF Agrees
<1>15. ActiveAgrees'
  <2>1. SUFFICES ASSUME NEW g \in Files
                 PROVE  Agrees(g, active[g], using[g])'
    BY DEF ActiveAgrees
  <2>2. CASE g = f
    <3>1. PICK bits : bits = Bits(nx, f) \ {phys[last]}
      OBVIOUS
    <3>2. PICK r : r = phys[last]
      OBVIOUS
    <3>3. /\ Agrees(f, rest, bits)
          /\ r \in Regs(f) /\ r \notin bits
          /\ using'[f] = bits \cup {r}
          /\ phys'[i] = r
      BY <1>9, <1>11, <1>12, <3>1, <3>2
    <3>4. \A a \in Normal : In(rest, a) => state'[a] = "NORMAL" /\ phys'[a] = phys[a]
      BY <1>9, <1>11
    <3>5. Agrees(f, active[f], using[f])'
      <4>1. itv' = itv /\ i' = i + 1 /\ state'[i] = "NORMAL"
        BY <1>5, <1>11
      <4>2. InsertPosition(rest, p, i) /\ active'[f] = InsertedAt(rest, p, i)
        BY <1>6, <1>12
      <4>3. rest \in Seq(Ranks)
        BY <1>9
      <4> QED BY <1>1, <1>2, <1>14, <3>3, <3>4, <4>1, <4>2, <4>3, InsertedAgrees
    <3> QED BY <2>2, <3>5
  <2>3. CASE g # f
    <3>1. \A a \in Normal : In(Live(nx, g), a) => a # last
      <4>1. Agrees(g, Live(nx, g), Bits(nx, g))
        BY <1>1, ExpiryProperties
      <4> QED BY <1>9, <2>3, <4>1 DEF Agrees, In
    <3> QED BY <1>1, <1>5, <1>11, <1>13, <2>3, <3>1, ExpiredAgrees
  <2> QED BY <2>2, <2>3
<1>16. \A x : In(active'[f], x) <=> (x = i \/ In(rest, x))
  BY <1>7, <1>9, <1>12, <1>14, InsertionMembers
<1>17. \A a \in Normal : (state'[a] = "NORMAL" /\ In(Live(nx, itv[a].file), a))
          => In(active'[itv[a].file], a)
  <2>1. ASSUME NEW a \in Normal, state'[a] = "NORMAL", In(Live(nx, itv[a].file), a)
        PROVE  In(active'[itv[a].file], a)
    <3>1. itv[a].file \in Files
      BY ScanAssumption DEF AnyInterval, ScanInv, ScanTypeOK, Normal
    <3>2. CASE itv[a].file = f
      <4>1. a # last
        BY <1>11, <2>1
      <4>2. In(s, a)
        BY <1>3, <2>1, <3>2
      <4> QED BY <1>9, <1>16, <3>2, <4>1, <4>2
    <3>3. CASE itv[a].file # f
      BY <1>13, <2>1, <3>1, <3>3
    <3> QED BY <3>2, <3>3
  <2> QED BY <2>1
<1>18. RetiredAreOver' /\ InTurn' /\ UsedCoversAssigned'
  <2>1. \A a \in Ranks : state'[a] = "NORMAL" => state[a] = "NORMAL"
    BY <1>11
  <2>2. \A a \in Normal : state'[a] = "NORMAL" => phys'[a] = phys[a]
    BY <1>11
  <2>3. In(active'[f], i)
    BY <1>16
  <2> QED
    BY <1>1, <1>2, <1>5, <1>15, <1>17, <2>1, <2>2, <2>3, PlacementPreserves
<1>19. ScanTypeOK'
  <2>1. phys' \in [Ranks -> {Unassigned} \cup 0..Spilled]
    <3>1. phys \in [Ranks -> {Unassigned} \cup 0..Spilled]
      BY DEF ScanInv, ScanTypeOK
    <3>2. phys[last] \in {Unassigned} \cup 0..Spilled
      BY <1>10, <3>1
    <3>3. Spilled \in {Unassigned} \cup 0..Spilled
      BY <1>2, RegsProperties
    <3> QED BY <1>5, <3>1, <3>2, <3>3
  <2>2. active' \in [Files -> Seq(Ranks)]
    <3>1. InsertedAt(rest, p, i) \in Seq(Ranks)
      BY <1>7, <1>9, <1>14, InsertedAtProperties
    <3>2. \A g \in Files : Live(nx, g) \in Seq(Ranks)
      BY <1>1, LiveTypes
    <3> QED BY <1>6, <3>1, <3>2
  <2>3. using' \in [Files -> SUBSET (0 .. (Spilled - 1))]
    <3>1. \A g \in Files : Bits(nx, g) \subseteq 0 .. (Spilled - 1)
      BY <1>1, LiveTypes
    <3> QED BY <1>5, <3>1
  <2>4. used' \in [Files -> SUBSET (0 .. (Spilled - 1))]
    BY <1>5, <2>3 DEF ScanInv, ScanTypeOK
  <2>5. i' \in 1 .. (N + 1)
    BY <1>5, <1>7 DEF Ranks
  <2>6. state' \in [Ranks -> {"NORMAL", "SPILL", "CONST"}]
    BY <1>5 DEF ScanInv, ScanTypeOK
  <2> QED BY <1>5, <2>1, <2>2, <2>3, <2>4, <2>5, <2>6 DEF ScanInv, ScanTypeOK
<1>20. SortedByStart(itv)' /\ StateAgrees'
  <2>1. last < i
    BY <1>9 DEF Normal
  <2>2. SortedByStart(itv)'
    BY <1>5 DEF ScanInv, SortedByStart
  <2>3. \A a \in Ranks : a >= i + 1 => state'[a] = itv[a].kind
    BY <1>7, <1>10, <1>11, <2>1 DEF ScanInv, StateAgrees, Ranks
  <2>4. \A a \in Ranks : state'[a] = "NORMAL" => itv[a].kind = "NORMAL"
    BY <1>11 DEF ScanInv, StateAgrees
  <2> QED BY <1>5, <2>2, <2>3, <2>4 DEF StateAgrees
<1> QED BY <1>15, <1>18, <1>19, <1>20 DEF ScanInv

LEMMA SpillNewPreserves ==
    ASSUME ScanInv, NEW nx \in [Files -> 0..N], SpillNew(nx)
    PROVE  ScanInv'
<1>1. Scanned(nx)
  BY DEF SpillNew, Recorded
<1>2. PICK f \in Files : f = itv[i].file
  BY <1>1, ScannedProperties
<1>3. /\ phys' = [phys EXCEPT ![i] = Spilled]
      /\ state' = [state EXCEPT ![i] = "SPILL"]
      /\ active' = [g \in Files |-> Live(nx, g)]
      /\ using' = [g \in Files |-> Bits(nx, g)]
      /\ used' = [used EXCEPT ![f] = @ \cup using'[f]]
      /\ i' = i + 1
      /\ itv' = itv
  BY <1>2 DEF SpillNew, Recorded
<1>4. /\ i \in Ranks
      /\ i \notin Normal
      /\ i \in Nat /\ i <= N /\ N \in Nat
  BY <1>1, ScannedProperties, ScanAssumption DEF Ranks, Scanned
<1>5. /\ state'[i] = "SPILL"
      /\ \A a \in Normal : state'[a] = "NORMAL" /\ phys'[a] = phys[a]
      /\ \A a \in Ranks : a # i => state'[a] = state[a]
  BY <1>3, <1>4 DEF ScanInv, ScanTypeOK, Normal
<1>6. ActiveAgrees'
  <2>1. SUFFICES ASSUME NEW g \in Files
                 PROVE  Agrees(g, active[g], using[g])'
    BY DEF ActiveAgrees
  <2>2. active'[g] = Live(nx, g) /\ using'[g] = Bits(nx, g)
    BY <1>3
  <2> QED BY <1>1, <1>3, <1>5, <2>2, ExpiredAgrees
<1>7. RetiredAreOver' /\ InTurn' /\ UsedCoversAssigned'
  <2>1. \A a \in Ranks : state'[a] = "NORMAL" => state[a] = "NORMAL"
    BY <1>5
  <2>2. \A a \in Normal : (state'[a] = "NORMAL" /\ In(Live(nx, itv[a].file), a))
          => In(active'[itv[a].file], a)
    <3>1. \A a \in Normal : itv[a].file \in Files
      BY ScanAssumption DEF AnyInterval, ScanInv, ScanTypeOK, Normal
    <3> QED BY <1>3, <3>1
  <2>3. state'[i] # "NORMAL"
    BY <1>5
  <2> QED
    BY <1>1, <1>2, <1>3, <1>5, <1>6, <2>1, <2>2, <2>3, PlacementPreserves
<1>8. ScanTypeOK'
  <2>1. phys' \in [Ranks -> {Unassigned} \cup 0..Spilled]
    <3>1. phys \in [Ranks -> {Unassigned} \cup 0..Spilled]
      BY DEF ScanInv, ScanTypeOK
    <3>2. Spilled \in {Unassigned} \cup 0..Spilled
      BY <1>2, RegsProperties
    <3> QED BY <1>3, <3>1, <3>2
  <2>2. active' \in [Files -> Seq(Ranks)]
    BY <1>1, <1>3, LiveTypes
  <2>3. using' \in [Files -> SUBSET (0 .. (Spilled - 1))]
    <3>1. \A g \in Files : Bits(nx, g) \subseteq 0 .. (Spilled - 1)
      BY <1>1, LiveTypes
    <3> QED BY <1>3, <3>1
  <2>4. used' \in [Files -> SUBSET (0 .. (Spilled - 1))]
    BY <1>3, <2>3 DEF ScanInv, ScanTypeOK
  <2>5. i' \in 1 .. (N + 1)
    BY <1>3, <1>4 DEF Ranks
  <2>6. state' \in [Ranks -> {"NORMAL", "SPILL", "CONST"}]
    BY <1>3 DEF ScanInv, ScanTypeOK
  <2> QED BY <1>3, <2>1, <2>2, <2>3, <2>4, <2>5, <2>6 DEF ScanInv, ScanTypeOK
<1>9. SortedByStart(itv)' /\ StateAgrees'
  <2>1. SortedByStart(itv)'
    BY <1>3 DEF ScanInv, SortedByStart
  <2>2. \A a \in Ranks : a >= i + 1 => state'[a] = itv[a].kind
    BY <1>4, <1>5 DEF ScanInv, StateAgrees, Ranks
  <2>3. \A a \in Ranks : state'[a] = "NORMAL" => itv[a].kind = "NORMAL"
    BY <1>5 DEF ScanInv, StateAgrees
  <2> QED BY <1>3, <2>1, <2>2, <2>3 DEF StateAgrees
<1> QED BY <1>6, <1>7, <1>8, <1>9 DEF ScanInv

LEMMA SkipPreserves ==
    ASSUME ScanInv, Skip
    PROVE  ScanInv'
<1>1. /\ i \in Ranks /\ i \in Nat /\ i <= N /\ N \in Nat
      /\ i' = i + 1
      /\ UNCHANGED <<itv, state, phys, active, using, used>>
      /\ state[i] # "NORMAL"
  BY ScanAssumption DEF AnyInterval, Skip, ScanInv, ScanTypeOK, Ranks
<1>2. Normal' = Normal
  BY <1>1 DEF Normal, Ranks
<1>3. ScanTypeOK'
  BY <1>1 DEF ScanInv, ScanTypeOK
<1>4. SortedByStart(itv)' /\ StateAgrees'
  BY <1>1 DEF ScanInv, SortedByStart, StateAgrees, Ranks
<1>5. ActiveAgrees'
  <2>1. SUFFICES ASSUME NEW g \in Files
                 PROVE  Agrees(g, active[g], using[g])'
    BY DEF ActiveAgrees
  <2>2. Agrees(g, active[g], using[g])
    BY DEF ScanInv, ActiveAgrees
  <2> QED BY <1>1, <1>2, <2>2 DEF Agrees, End
<1>6. RetiredAreOver'
  BY <1>1, <1>2 DEF ScanInv, RetiredAreOver, In, Ranks
<1>7. InTurn' /\ UsedCoversAssigned'
  BY <1>1, <1>2 DEF ScanInv, InTurn, UsedCoversAssigned
<1> QED BY <1>3, <1>4, <1>5, <1>6, <1>7 DEF ScanInv

LEMMA StartInvariant == itv \in [Ranks -> AnyInterval] /\ ScanStart => ScanInv
<1> SUFFICES ASSUME itv \in [Ranks -> AnyInterval], ScanStart PROVE ScanInv
  OBVIOUS
<1>1. i = 1 /\ N \in Nat /\ Normal = {}
  <2>1. i = 1
    BY DEF ScanStart
  <2>2. N \in Nat
    BY ScanAssumption
  <2> QED BY <2>1, <2>2 DEF Normal, Ranks
<1>2. ScanTypeOK
  <2>1. \A a \in Ranks : itv[a].kind \in {"NORMAL", "SPILL", "CONST"}
    BY DEF AnyInterval
  <2>2. Spilled \in Nat
    BY RegsProperties DEF Files
  <2>3. << >> \in Seq(Ranks)
    OBVIOUS
  <2> QED BY <1>1, <2>1, <2>2, <2>3 DEF ScanStart, ScanTypeOK
<1>3. SortedByStart(itv) /\ StateAgrees
  BY DEF ScanStart, StateAgrees
<1>4. ActiveAgrees
  <2>1. SUFFICES ASSUME NEW f \in Files
                 PROVE  Agrees(f, active[f], using[f])
    BY DEF ActiveAgrees
  <2>2. active[f] = << >> /\ using[f] = {}
    BY DEF ScanStart
  <2>3. Len(<< >>) = 0 /\ 0 <= PhysMax[f]
    BY RegsProperties
  <2> QED BY <2>2, <2>3 DEF Agrees
<1>5. RetiredAreOver /\ InTurn /\ UsedCoversAssigned
  BY <1>1 DEF RetiredAreOver, InTurn, UsedCoversAssigned
<1> QED BY <1>2, <1>3, <1>4, <1>5 DEF ScanInv

LEMMA InitInvariant == ScanInit => ScanInv
BY ScanAssumption, StartInvariant DEF ScanInit

LEMMA NextPreserves == ScanInv /\ [ScanNext]_scanVars => ScanInv'
<1> SUFFICES ASSUME ScanInv, [ScanNext]_scanVars PROVE ScanInv'
  OBVIOUS
<1>1. CASE Skip
  BY <1>1, SkipPreserves
<1>2. ASSUME NEW nx \in [Files -> 0..N], Assign(nx) PROVE ScanInv'
  BY <1>2, AssignPreserves
<1>3. ASSUME NEW nx \in [Files -> 0..N], SpillActive(nx) PROVE ScanInv'
  BY <1>3, SpillActivePreserves
<1>4. ASSUME NEW nx \in [Files -> 0..N], SpillNew(nx) PROVE ScanInv'
  BY <1>4, SpillNewPreserves
<1>5. CASE UNCHANGED scanVars
  <2>1. ScanTypeOK'
    <3>1. /\ itv' = itv /\ state' = state /\ phys' = phys /\ active' = active
          /\ using' = using /\ used' = used /\ i' = i
      BY <1>5 DEF scanVars
    <3>2. ScanTypeOK
      BY DEF ScanInv
    <3> QED BY <3>1, <3>2 DEF ScanTypeOK, Ranks, Spilled, Unassigned, Files
  <2>2. SortedByStart(itv)' /\ StateAgrees'
    BY <1>5 DEF scanVars, ScanInv, SortedByStart, StateAgrees
  <2>3. ActiveAgrees'
    BY <1>5 DEF scanVars, ScanInv, ActiveAgrees, Agrees, In, End, Regs, Normal, Ranks
  <2>4. RetiredAreOver'
    BY <1>5 DEF scanVars, ScanInv, RetiredAreOver, Normal, In, Ranks
  <2>5. InTurn'
    BY <1>5 DEF scanVars, ScanInv, InTurn, Normal, Ranks
  <2>6. UsedCoversAssigned'
    BY <1>5 DEF scanVars, ScanInv, UsedCoversAssigned, Normal, Ranks
  <2> QED BY <2>1, <2>2, <2>3, <2>4, <2>5, <2>6 DEF ScanInv
<1> QED BY <1>1, <1>2, <1>3, <1>4, <1>5 DEF ScanNext, ScanDone

-----------------------------------------------------------------------------
\* The types of everything the scan writes, for any function and any machine.
THEOREM LinearScanTypeOK == ScanSpec => []ScanTypeOK
<1>1. ScanInv => ScanTypeOK
  BY DEF ScanInv
<1> QED BY <1>1, InitInvariant, NextPreserves, PTL DEF ScanSpec

\* Two vregs of one file that are live together never share a register,
\* whatever the intervals, the ties of the sort and the register files.
THEOREM LinearScanNoSharedRegister == ScanSpec => []NoSharedRegister
<1>1. ScanInv => NoSharedRegister
  <2>1. SUFFICES ASSUME ScanInv, NEW a \in Normal, NEW b \in Normal, a # b,
                        itv[a].file = itv[b].file, Overlap(a, b)
                 PROVE  phys[a] # phys[b]
    BY DEF NoSharedRegister
  <2>2. /\ a \in Nat /\ b \in Nat
        /\ itv[a].start \in Int /\ itv[a].end \in Int
        /\ itv[b].start \in Int /\ itv[b].end \in Int
    <3>1. a \in Ranks /\ b \in Ranks /\ Ranks \subseteq Nat
      BY DEF Normal, Ranks
    <3>2. \A c \in Ranks : itv[c].start \in Int /\ itv[c].end \in Int
      BY <2>1, ScanAssumption DEF AnyInterval, ScanInv, ScanTypeOK
    <3> QED BY <3>1, <3>2
  <2>3. a < b \/ b < a
    BY <2>1, <2>2
  <2> QED BY <2>1, <2>2, <2>3 DEF ScanInv, InTurn, Overlap
<1> QED BY <1>1, InitInvariant, NextPreserves, PTL DEF ScanSpec

\* The active list, the bit set and the registers given out always agree.
THEOREM LinearScanActiveAgrees == ScanSpec => []ActiveAgrees
<1>1. ScanInv => ActiveAgrees
  BY DEF ScanInv
<1> QED BY <1>1, InitInvariant, NextPreserves, PTL DEF ScanSpec

\* The registers the prologue is told of cover every register given out.
THEOREM LinearScanUsedCoversAssigned == ScanSpec => []UsedCoversAssigned
<1>1. ScanInv => UsedCoversAssigned
  BY DEF ScanInv
<1> QED BY <1>1, InitInvariant, NextPreserves, PTL DEF ScanSpec

-----------------------------------------------------------------------------
(* What is spilled                                                         *)

\* A list of n distinct elements and one more element make n + 1.
LEMMA OneMore ==
    ASSUME NEW S, NEW s \in Seq(S), NEW a \in S, NEW T \in SUBSET S, IsFiniteSet(T),
           \A k, l \in 1..Len(s) : k < l => s[k] # s[l],
           \A k \in 1..Len(s) : s[k] \in T /\ s[k] # a,
           a \in T
    PROVE  Cardinality(T) > Len(s)
<1> DEFINE n == Len(s)
           g == [k \in 1 .. (n + 1) |-> IF k <= n THEN s[k] ELSE a]
<1>1. n \in Nat
  OBVIOUS
<1> HIDE DEF n
<1>2. \A k \in 1 .. (n + 1) : k \in 1..n \/ k = n + 1
  BY <1>1
<1>3. g \in [1 .. (n + 1) -> T]
  BY <1>1, <1>2 DEF n
<1>4. ASSUME NEW k \in 1 .. (n + 1), NEW l \in 1 .. (n + 1), g[k] = g[l] PROVE k = l
  <2>1. CASE k \in 1..n /\ l \in 1..n
    <3>1. g[k] = s[k] /\ g[l] = s[l]
      BY <1>1, <2>1
    <3>2. k < l \/ l < k \/ k = l
      BY <2>1
    <3> QED BY <1>4, <2>1, <3>1, <3>2 DEF n
  <2>2. CASE k \in 1..n /\ l = n + 1
    <3>1. g[k] = s[k] /\ g[l] = a
      BY <1>1, <2>2
    <3> QED BY <1>4, <2>2, <3>1 DEF n
  <2>3. CASE l \in 1..n /\ k = n + 1
    <3>1. g[l] = s[l] /\ g[k] = a
      BY <1>1, <2>3
    <3> QED BY <1>4, <2>3, <3>1 DEF n
  <2> QED BY <1>2, <2>1, <2>2, <2>3
<1>5. g \in Injection(1 .. (n + 1), T)
  BY <1>3, <1>4 DEF Injection, IsInjective
<1> HIDE DEF g
<1>6. Cardinality(1 .. (n + 1)) = n + 1
  BY <1>1, FS_Interval
<1>7. Cardinality(1 .. (n + 1)) <= Cardinality(T)
  BY <1>5, FS_Injection
<1>8. Cardinality(T) \in Nat
  BY FS_CardinalityType
<1> QED
  BY <1>1, <1>6, <1>7, <1>8 DEF n

\* When a file is full, more of its intervals are live than it has registers.
LEMMA FullMeansTooMany ==
    ASSUME ScanInv, NEW nx \in [Files -> 0..N], Scanned(nx),
           NEW f \in Files, f = itv[i].file, Full(f, Live(nx, f))
    PROVE  /\ Cardinality({c \in LiveAt(itv[i].start) : itv[c].file = f}) > PhysMax[f]
           /\ Len(Live(nx, f)) > 0 /\ Live(nx, f) \in Seq(Ranks)
           /\ \A k \in 1..Len(Live(nx, f)) :
                End(Live(nx, f)[k]) <= End(Live(nx, f)[Len(Live(nx, f))])
<1> DEFINE s == Live(nx, f)
           t == itv[i].start
           T == {c \in LiveAt(t) : itv[c].file = f}
<1>1. /\ s \in Seq(Ranks) /\ Agrees(f, s, Bits(nx, f))
      /\ PhysMax[f] \in Nat /\ Len(s) >= PhysMax[f] /\ Len(s) > 0 /\ Len(s) \in Nat
  BY ExpiryProperties, RegsProperties DEF Full
<1>2. /\ i \in Ranks /\ i \notin Normal /\ itv[i].kind = "NORMAL"
      /\ \A a \in Ranks : itv[a].start \in Int /\ itv[a].end \in Int
      /\ \A a \in Normal : itv[a].kind = "NORMAL" /\ itv[a].start <= t
  BY ScannedProperties
<1>3. \A k \in 1..Len(s) : s[k] \in Ranks /\ s[k] \in Normal /\ itv[s[k]].file = f
  BY <1>1 DEF Agrees
<1>4. \A k, l \in 1..Len(s) : k < l => End(s[k]) <= End(s[l]) /\ s[k] # s[l]
  BY <1>1 DEF Agrees
<1>5. \A k \in 1..Len(s) : End(s[k]) > t
  <2> DEFINE r == active[f]
             n == nx[f]
  <2>1. /\ r \in Seq(Ranks) /\ n \in 0..Len(r)
        /\ n < Len(r) => End(r[n + 1]) > t
    BY DEF ScanInv, ScanTypeOK, Scanned, ExpiredPrefix
  <2>2. /\ Len(s) = Len(r) - n
        /\ \A k \in 1 .. (Len(r) - n) : s[k] = r[k + n]
    BY <2>1, DropFirstProperties DEF Live
  <2> HIDE DEF r, n, s, t
  <2>3. n < Len(r) /\ 1 \in 1 .. (Len(r) - n) /\ 1 + n = n + 1
    BY <1>1, <2>1, <2>2
  <2>4. End(s[1]) > t
    BY <2>1, <2>2, <2>3
  <2>5. ASSUME NEW k \in 1..Len(s) PROVE End(s[k]) > t
    <3>1. k = 1 \/ End(s[1]) <= End(s[k])
      BY <1>1, <1>4
    <3>2. 1 \in 1..Len(s)
      BY <1>1
    <3>3. End(s[1]) \in Int /\ End(s[k]) \in Int /\ t \in Int
      BY <1>2, <1>3, <3>2 DEF End, t
    <3> QED BY <2>4, <3>1, <3>3
  <2> QED BY <2>5
<1>6. T \in SUBSET Ranks /\ IsFiniteSet(T)
  <2>1. T \in SUBSET Ranks
    BY DEF LiveAt
  <2>2. IsFiniteSet(Ranks)
    <3>1. N \in Int /\ 1 \in Int
      BY ScanAssumption
    <3>2. IsFiniteSet(1 .. N)
      BY <3>1, FS_Interval
    <3> QED BY <3>2 DEF Ranks
  <2> QED BY <2>1, <2>2, FS_Subset
<1>7. i \in T
  BY <1>2 DEF LiveAt
<1>8. \A k \in 1..Len(s) : s[k] \in T /\ s[k] # i
  BY <1>2, <1>3, <1>5 DEF LiveAt, End
<1> HIDE DEF s, T
<1>9. Cardinality(T) > Len(s)
  BY <1>1, <1>2, <1>4, <1>6, <1>7, <1>8, OneMore
<1>10. Cardinality(T) > PhysMax[f]
  <2>1. Cardinality(T) \in Nat
    BY <1>6, FS_CardinalityType
  <2> QED BY <1>1, <1>9, <2>1
<1>11. \A k \in 1..Len(s) : End(s[k]) <= End(s[Len(s)])
  <2>1. ASSUME NEW k \in 1..Len(s) PROVE End(s[k]) <= End(s[Len(s)])
    <3>1. k = Len(s) \/ k < Len(s)
      BY <1>1
    <3>2. End(s[k]) \in Int
      BY <1>2, <1>3 DEF End
    <3>3. Len(s) \in 1..Len(s)
      BY <1>1
    <3> QED BY <1>4, <3>1, <3>2, <3>3
  <2> QED BY <2>1
<1> QED
  BY <1>1, <1>10, <1>11 DEF s, T

\* The two branches that spill.
LEMMA SpillActiveFurthest ==
    ASSUME ScanInv, NEW nx \in [Files -> 0..N], SpillActive(nx)
    PROVE  SpillsOnlyFurthest
<1> DEFINE f == itv[i].file
           s == Live(nx, f)
           last == s[Len(s)]
           rest == SubSeq(s, 1, Len(s) - 1)
<1>1. Scanned(nx) /\ Full(f, s) /\ Outlives(last, i)
      /\ state' = [state EXCEPT ![last] = "SPILL"]
  BY DEF SpillActive
<1>2. PICK p \in 1 .. Len(s) :
        active' = [g \in Files |-> IF g = f THEN InsertedAt(rest, p, i) ELSE Live(nx, g)]
  BY DEF SpillActive
<1>3. f \in Files /\ i \in Ranks
  BY <1>1, ScannedProperties
<1>4. /\ Cardinality({c \in LiveAt(itv[i].start) : itv[c].file = f}) > PhysMax[f]
      /\ Len(s) > 0 /\ s \in Seq(Ranks)
      /\ \A k \in 1..Len(s) : End(s[k]) <= End(last)
  BY <1>1, <1>3, FullMeansTooMany
<1>5. /\ Len(s) \in 1..Len(s) /\ last \in Ranks /\ itv[last].file = f
  <2>1. Len(s) \in 1..Len(s)
    BY <1>4
  <2>2. Agrees(f, s, Bits(nx, f))
    BY <1>1, <1>3, ExpiryProperties
  <2> QED BY <1>4, <2>1, <2>2 DEF Agrees
<1>6. /\ rest \in Seq(Ranks) /\ Len(rest) = Len(s) - 1
      /\ \A k \in 1 .. (Len(s) - 1) : rest[k] = s[k]
  BY <1>4, FrontProperties
<1> HIDE DEF s, rest, f, last
<1>7. \A x : In(active'[f], x) <=> (x = i \/ In(rest, x))
  <2>1. p \in 1 .. (Len(rest) + 1) /\ active'[f] = InsertedAt(rest, p, i)
    BY <1>2, <1>3, <1>4, <1>6
  <2> QED BY <1>3, <1>6, <2>1, InsertionMembers
<1>8. ASSUME NEW x, In(active'[f], x) PROVE End(x) <= End(last)
  <2>1. CASE x = i
    <3>1. End(i) \in Int /\ End(last) \in Int
      BY <1>1, <1>3, <1>5, ScannedProperties DEF End
    <3> QED BY <1>1, <2>1, <3>1 DEF Outlives
  <2>2. CASE In(rest, x)
    <3>1. PICK k \in 1..Len(rest) : rest[k] = x
      BY <2>2 DEF In
    <3>2. k \in 1 .. (Len(s) - 1) /\ k \in 1..Len(s)
      BY <1>4, <1>6
    <3> QED BY <1>4, <1>6, <3>1, <3>2
  <2> QED BY <1>7, <1>8, <2>1, <2>2
<1>9. \A k \in 1..Len(active'[f]) : End(active'[f][k]) <= End(last)
  BY <1>8 DEF In
<1>10. ASSUME NEW a \in DOMAIN state, state[a] = "NORMAL", state'[a] = "SPILL"
       PROVE  a = last
  BY <1>1, <1>10 DEF ScanInv, ScanTypeOK
<1> QED
  BY <1>4, <1>5, <1>9, <1>10 DEF SpillsOnlyFurthest, f

LEMMA SpillNewFurthest ==
    ASSUME ScanInv, NEW nx \in [Files -> 0..N], SpillNew(nx)
    PROVE  SpillsOnlyFurthest
<1> DEFINE f == itv[i].file
           s == Live(nx, f)
           last == s[Len(s)]
<1>1. /\ Scanned(nx) /\ Full(f, s) /\ ~Outlives(last, i)
      /\ state' = [state EXCEPT ![i] = "SPILL"]
      /\ active' = [g \in Files |-> Live(nx, g)]
  BY DEF SpillNew
<1>2. f \in Files /\ i \in Ranks /\ active'[f] = s
  BY <1>1, ScannedProperties
<1>3. /\ Cardinality({c \in LiveAt(itv[i].start) : itv[c].file = f}) > PhysMax[f]
      /\ Len(s) > 0 /\ s \in Seq(Ranks)
      /\ \A k \in 1..Len(s) : End(s[k]) <= End(last)
  BY <1>1, <1>2, FullMeansTooMany
<1>4. \A k \in 1..Len(s) : End(s[k]) <= End(i)
  <2>1. \A a \in Ranks : End(a) \in Int
    BY <1>1, ScannedProperties DEF End
  <2>2. Len(s) \in 1..Len(s)
    BY <1>3
  <2> HIDE DEF s
  <2>3. last \in Ranks /\ \A k \in 1..Len(s) : s[k] \in Ranks
    BY <1>3, <2>2
  <2>4. End(last) <= End(i)
    BY <1>1, <1>2, <2>1, <2>3 DEF Outlives
  <2> QED BY <1>2, <1>3, <2>1, <2>3, <2>4
<1>5. ASSUME NEW a \in DOMAIN state, state[a] = "NORMAL", state'[a] = "SPILL"
      PROVE  a = i
  BY <1>1, <1>5 DEF ScanInv, ScanTypeOK
<1> HIDE DEF s
<1> QED
  BY <1>2, <1>3, <1>4, <1>5 DEF SpillsOnlyFurthest

\* An interval goes to the stack only where more intervals of its file are
\* live than there are registers, and none that keeps one ends later.
THEOREM LinearScanSpillsFurthestEnd == ScanSpec => SpillsFurthestEnd
<1>1. ScanInv /\ [ScanNext]_scanVars => [SpillsOnlyFurthest]_scanVars
  <2>1. SUFFICES ASSUME ScanInv, ScanNext PROVE SpillsOnlyFurthest \/ UNCHANGED scanVars
    OBVIOUS
  <2>2. ASSUME UNCHANGED state PROVE SpillsOnlyFurthest
    BY <2>2 DEF SpillsOnlyFurthest
  <2>3. CASE Skip
    BY <2>2, <2>3 DEF Skip
  <2>4. ASSUME NEW nx \in [Files -> 0..N], Assign(nx) PROVE SpillsOnlyFurthest
    BY <2>2, <2>4 DEF Assign
  <2>5. ASSUME NEW nx \in [Files -> 0..N], SpillActive(nx) PROVE SpillsOnlyFurthest
    BY <2>1, <2>5, SpillActiveFurthest
  <2>6. ASSUME NEW nx \in [Files -> 0..N], SpillNew(nx) PROVE SpillsOnlyFurthest
    BY <2>1, <2>6, SpillNewFurthest
  <2> QED BY <2>1, <2>3, <2>4, <2>5, <2>6 DEF ScanNext, ScanDone
<1>2. ScanSpec => []ScanInv
  BY InitInvariant, NextPreserves, PTL DEF ScanSpec
<1> QED BY <1>1, <1>2, PTL DEF ScanSpec, SpillsFurthestEnd

-----------------------------------------------------------------------------
(* Which registers live at an instruction                                  *)

LEMMA Least == ASSUME NEW S \in SUBSET Nat, S # {} PROVE \E n \in S : \A m \in S : n <= m
<1>1. IsWellFoundedOn(OpToRel(<, Nat), Nat)
  BY NatLessThanWellFounded
<1>2. PICK n \in S : \A m \in S : ~(<<m, n>> \in OpToRel(<, Nat))
  BY <1>1, WFMin
<1>3. ASSUME NEW m \in S PROVE n <= m
  <2>1. m \in Nat /\ n \in Nat /\ ~(m < n)
    BY <1>2 DEF OpToRel
  <2> QED BY <2>1
<1> QED
  BY <1>3

LEMMA Induct ==
    ASSUME NEW S, NEW limit \in Nat, 0 \in S,
           \A n \in Nat : (n < limit /\ n \in S) => n + 1 \in S
    PROVE  \A n \in 0..limit : n \in S
<1> DEFINE Bad == {n \in Nat : n <= limit /\ n \notin S}
<1>1. SUFFICES ASSUME Bad # {} PROVE FALSE
  OBVIOUS
<1>2. Bad \in SUBSET Nat
  OBVIOUS
<1> HIDE DEF Bad
<1>3. PICK n \in Bad : \A m \in Bad : n <= m
  BY <1>1, <1>2, Least
<1>4. n \in Nat /\ n <= limit /\ n \notin S /\ n # 0
  BY DEF Bad
<1>5. n - 1 \in Nat /\ n - 1 < limit /\ n - 1 \notin Bad /\ (n - 1) + 1 = n
  BY <1>3, <1>4
<1>6. n - 1 \in S
  BY <1>4, <1>5 DEF Bad
<1>7. (n - 1) + 1 \in S
  BY <1>5, <1>6
<1> QED BY <1>4, <1>5, <1>7

\* The bits before and after each interval is passed at one instruction.
IsUpto(h, limit, bits, n) ==
    h = [a \in 0..limit |-> IF a = 0 THEN bits ELSE Passed(h[a - 1], a, n)]

LEMMA UptoExists ==
    ASSUME NEW bits, NEW n, NEW limit \in Nat
    PROVE  \E h : IsUpto(h, limit, bits, n)
<1> DEFINE T == {m \in Nat : \E h : IsUpto(h, m, bits, n)}
<1>1. 0 \in T
  <2>1. IsUpto([k \in 0..0 |-> bits], 0, bits, n)
    BY DEF IsUpto
  <2> QED BY <2>1
<1>2. ASSUME NEW m \in Nat, m \in T PROVE m + 1 \in T
  <2>1. PICK h : IsUpto(h, m, bits, n)
    BY <1>2
  <2> DEFINE g == [k \in 0 .. (m + 1) |-> IF k = m + 1 THEN Passed(h[m], k, n) ELSE h[k]]
  <2>2. ASSUME NEW k \in 0 .. (m + 1) PROVE g[k] = IF k = 0 THEN bits ELSE Passed(g[k - 1], k, n)
    <3>1. CASE k = m + 1
      <4>1. g[m] = h[m] /\ k - 1 = m /\ k # 0
        BY <3>1
      <4> QED BY <3>1, <4>1
    <3>2. CASE k = 0
      BY <2>1, <3>2 DEF IsUpto
    <3>3. CASE k # 0 /\ k # m + 1
      <4>1. k \in 0..m /\ k - 1 \in 0 .. (m + 1) /\ k - 1 # m + 1
        BY <3>3
      <4>2. h[k] = Passed(h[k - 1], k, n)
        BY <2>1, <3>3, <4>1 DEF IsUpto
      <4> QED BY <3>3, <4>1, <4>2
    <3> QED BY <3>1, <3>2, <3>3
  <2>3. IsUpto(g, m + 1, bits, n)
    BY <2>2 DEF IsUpto
  <2> QED BY <2>3
<1> HIDE DEF T
<1>3. \A m \in 0..limit : m \in T
  BY <1>1, <1>2, Induct
<1>4. limit \in T
  BY <1>3
<1> QED BY <1>4 DEF T

\* The bits after each of the first instructions.
IsAfter(h, limit) ==
    h = [m \in 0..limit |-> IF m = 0 THEN {} ELSE PassedAll(h[m - 1], m - 1)]

LEMMA AfterExists == ASSUME NEW limit \in Nat PROVE \E h : IsAfter(h, limit)
<1> DEFINE T == {m \in Nat : \E h : IsAfter(h, m)}
<1>1. 0 \in T
  <2>1. IsAfter([k \in 0..0 |-> {}], 0)
    BY DEF IsAfter
  <2> QED BY <2>1
<1>2. ASSUME NEW m \in Nat, m \in T PROVE m + 1 \in T
  <2>1. PICK h : IsAfter(h, m)
    BY <1>2
  <2> DEFINE g == [k \in 0 .. (m + 1) |-> IF k = m + 1 THEN PassedAll(h[m], m) ELSE h[k]]
  <2>2. ASSUME NEW k \in 0 .. (m + 1) PROVE g[k] = IF k = 0 THEN {} ELSE PassedAll(g[k - 1], k - 1)
    <3>1. CASE k = m + 1
      <4>1. g[m] = h[m] /\ k - 1 = m /\ k # 0
        BY <3>1
      <4> QED BY <3>1, <4>1
    <3>2. CASE k = 0
      BY <2>1, <3>2 DEF IsAfter
    <3>3. CASE k # 0 /\ k # m + 1
      <4>1. k \in 0..m /\ k - 1 \in 0 .. (m + 1) /\ k - 1 # m + 1
        BY <3>3
      <4>2. h[k] = PassedAll(h[k - 1], k - 1)
        BY <2>1, <3>3, <4>1 DEF IsAfter
      <4> QED BY <3>3, <4>1, <4>2
    <3> QED BY <3>1, <3>2, <3>3
  <2>3. IsAfter(g, m + 1)
    BY <2>2 DEF IsAfter
  <2> QED BY <2>3
<1> HIDE DEF T
<1>3. \A m \in 0..limit : m \in T
  BY <1>1, <1>2, Induct
<1>4. limit \in T
  BY <1>3
<1> QED BY <1>4 DEF T

\* When the scan is over, of two intervals with one bit the first in order
\* is over when the second starts.
Keeps(a) == a \in Ranks /\ state[a] = "NORMAL"

LEMMA BitsInTurn ==
    ASSUME ScanInv, i > N, NEW a, NEW b, Keeps(a), Keeps(b), a < b, BitOf(a) = BitOf(b)
    PROVE  itv[a].end <= itv[b].start
<1>1. a \in Normal /\ b \in Normal
  <2>1. a < i /\ b < i
    BY ScanAssumption DEF Keeps, Ranks, ScanInv, ScanTypeOK
  <2> QED BY <2>1 DEF Keeps, Normal
<1>2. itv[a].file \in Files /\ itv[b].file \in Files
  <2>1. \A c \in Ranks : itv[c].file \in Files
    BY ScanAssumption DEF AnyInterval, ScanInv, ScanTypeOK
  <2> QED BY <2>1 DEF Keeps
<1>3. phys[a] \in 0 .. (Spilled - 1) /\ phys[b] \in 0 .. (Spilled - 1)
  <2>1. \A f \in Files : used[f] \in SUBSET (0 .. (Spilled - 1))
    BY DEF ScanInv, ScanTypeOK
  <2> QED BY <1>1, <1>2, <2>1 DEF ScanInv, UsedCoversAssigned
<1>4. PhysMax["ireg"] \in Nat /\ Spilled = PhysMax["ireg"]
  BY ScanAssumption DEF Files, Spilled
<1>5. itv[a].file = itv[b].file /\ phys[a] = phys[b]
  <2>1. itv[a].file \in {"ireg", "freg"} /\ itv[b].file \in {"ireg", "freg"}
    BY <1>2 DEF Files
  <2>2. CASE itv[a].file = itv[b].file
    BY <1>3, <1>4, <2>2 DEF BitOf
  <2>3. CASE itv[a].file # itv[b].file
    BY <1>3, <1>4, <2>1, <2>3 DEF BitOf
  <2> QED BY <2>2, <2>3
<1> QED BY <1>1, <1>5 DEF ScanInv, InTurn

LEMMA Bounds ==
    ASSUME ScanInv, NEW a, Keeps(a)
    PROVE  /\ itv[a].start \in Int /\ itv[a].end \in Int /\ itv[a].start <= itv[a].end
           /\ itv[a].start >= 0 \/ itv[a].end = -1
<1>1. a \in Ranks /\ itv[a].kind = "NORMAL" /\ itv[a] \in AnyInterval
  BY DEF Keeps, ScanInv, StateAgrees, ScanTypeOK
<1>2. \A v \in AnyInterval :
        /\ v.start \in Int /\ v.end \in Int
        /\ v.kind = "NORMAL" => v.start <= v.end /\ (v.start >= 0 \/ v.end = -1)
  BY DEF AnyInterval
<1> QED BY <1>1, <1>2

\* The first k intervals have been passed at instruction n, the others at
\* the one before.
Lives(a, n) == itv[a].start <= n /\ n < itv[a].end
Mixed(n, k) == {BitOf(a) : a \in {c \in Ranks : /\ state[c] = "NORMAL"
                                               /\ Lives(c, IF c <= k THEN n ELSE n - 1)}}

LEMMA MixedIs ==
    ASSUME NEW n, NEW k
    PROVE  \A r : r \in Mixed(n, k) <=>
             \E c : Keeps(c) /\ Lives(c, IF c <= k THEN n ELSE n - 1) /\ r = BitOf(c)
BY DEF Mixed, Keeps

LEMMA PassedOne ==
    ASSUME ScanInv, i > N, NEW n \in Nat, NEW k \in Ranks
    PROVE  Passed(Mixed(n, k - 1), k, n) = Mixed(n, k)
<1>0. Ranks \subseteq Nat /\ k \in Nat /\ \A c : Keeps(c) => c \in Nat
  BY DEF Ranks, Keeps
<1>1. \A c : (Keeps(c) /\ c # k) =>
        (Lives(c, IF c <= k THEN n ELSE n - 1) <=> Lives(c, IF c <= k - 1 THEN n ELSE n - 1))
  <2> SUFFICES ASSUME NEW c, Keeps(c), c # k
               PROVE  c <= k <=> c <= k - 1
    OBVIOUS
  <2> QED BY <1>0
<1>2. CASE state[k] # "NORMAL"
  <2>1. Passed(Mixed(n, k - 1), k, n) = Mixed(n, k - 1)
    BY <1>2 DEF Passed
  <2>2. \A c : Keeps(c) => c # k
    BY <1>2 DEF Keeps
  <2>3. \A r : r \in Mixed(n, k - 1) <=> r \in Mixed(n, k)
    BY <1>1, <2>2, MixedIs
  <2> QED BY <2>1, <2>3 DEF Mixed
<1>3. CASE state[k] = "NORMAL"
  <2>0. /\ Keeps(k)
        /\ itv[k].start \in Int /\ itv[k].end \in Int /\ itv[k].start <= itv[k].end
    BY <1>3, Bounds DEF Keeps
  <2>a. ~(k <= k - 1) /\ k <= k
    BY <1>0
  <2>b. \A r : r \in Mixed(n, k - 1) <=>
          \/ \E c : /\ Keeps(c) /\ c # k /\ r = BitOf(c)
                    /\ Lives(c, IF c <= k THEN n ELSE n - 1)
          \/ Lives(k, n - 1) /\ r = BitOf(k)
    BY <1>1, <2>0, <2>a, MixedIs
  <2>c. \A r : r \in Mixed(n, k) <=>
          \/ \E c : /\ Keeps(c) /\ c # k /\ r = BitOf(c)
                    /\ Lives(c, IF c <= k THEN n ELSE n - 1)
          \/ Lives(k, n) /\ r = BitOf(k)
    BY <2>0, <2>a, MixedIs
  <2>1. CASE itv[k].end = n
    <3>1. Passed(Mixed(n, k - 1), k, n) = Mixed(n, k - 1) \ {BitOf(k)}
      BY <1>3, <2>1 DEF Passed, BitsAfterStart, BitsAfterEnd
    <3>2. ~Lives(k, n)
      BY <2>0, <2>1 DEF Lives
    <3>3. ASSUME NEW c, Keeps(c), c # k, Lives(c, IF c <= k THEN n ELSE n - 1),
                 BitOf(c) = BitOf(k)
          PROVE  FALSE
      <4>1. itv[c].start \in Int /\ itv[c].end \in Int
        BY <3>3, Bounds
      <4>2. CASE c < k
        <5>1. itv[c].end <= itv[k].start
          BY <2>0, <3>3, <4>2, BitsInTurn
        <5>2. n < itv[c].end
          BY <1>0, <3>3, <4>2 DEF Lives
        <5> QED BY <2>0, <2>1, <4>1, <5>1, <5>2
      <4>3. CASE k < c
        <5>1. itv[k].end <= itv[c].start
          BY <2>0, <3>3, <4>3, BitsInTurn
        <5>2. itv[c].start <= n - 1
          BY <1>0, <3>3, <4>3 DEF Lives
        <5> QED BY <2>0, <2>1, <4>1, <5>1, <5>2
      <4> QED BY <1>0, <3>3, <4>2, <4>3
    <3>4. \A r : r \in Passed(Mixed(n, k - 1), k, n) <=> r \in Mixed(n, k)
      BY <2>b, <2>c, <3>1, <3>2, <3>3
    <3> QED BY <3>1, <3>4 DEF Mixed
  <2>2. CASE itv[k].end # n /\ itv[k].start = n
    <3>1. Passed(Mixed(n, k - 1), k, n) = Mixed(n, k - 1) \cup {BitOf(k)}
      BY <1>3, <2>2 DEF Passed, BitsAfterStart, BitsAfterEnd
    <3>2. Lives(k, n) /\ ~Lives(k, n - 1)
      BY <2>0, <2>2 DEF Lives
    <3>3. \A r : r \in Passed(Mixed(n, k - 1), k, n) <=> r \in Mixed(n, k)
      BY <2>b, <2>c, <3>1, <3>2
    <3> QED BY <3>1, <3>3 DEF Mixed
  <2>3. CASE itv[k].end # n /\ itv[k].start # n
    <3>1. Passed(Mixed(n, k - 1), k, n) = Mixed(n, k - 1)
      BY <1>3, <2>3 DEF Passed, BitsAfterStart, BitsAfterEnd
    <3>2. Lives(k, n) <=> Lives(k, n - 1)
      BY <2>0, <2>3 DEF Lives
    <3>3. \A r : r \in Mixed(n, k - 1) <=> r \in Mixed(n, k)
      BY <2>b, <2>c, <3>2
    <3> QED BY <3>1, <3>3 DEF Mixed
  <2> QED BY <2>1, <2>2, <2>3
<1> QED BY <1>2, <1>3

LEMMA PassedAllIs ==
    ASSUME ScanInv, i > N, NEW n \in Nat
    PROVE  PassedAll(LivingAt(n - 1), n) = LivingAt(n)
<1> DEFINE first == LivingAt(n - 1)
           Is(h) == h = [a \in 0..N |-> IF a = 0 THEN first ELSE Passed(h[a - 1], a, n)]
           U == CHOOSE h : Is(h)
<1>0. N \in Nat
  BY ScanAssumption
<1>1. PassedAll(first, n) = U[N]
  BY DEF PassedAll
<1>2. \A c \in Ranks : c <= N /\ ~(c <= 0)
  BY <1>0 DEF Ranks
<1>3. LivingAt(n - 1) = Mixed(n, 0) /\ LivingAt(n) = Mixed(n, N)
  BY <1>2 DEF LivingAt, Mixed, Lives
<1> HIDE DEF first
<1>4. \A h : Is(h) <=> IsUpto(h, N, first, n)
  BY DEF IsUpto
<1>5. \E h : IsUpto(h, N, first, n)
  BY <1>0, UptoExists
<1> HIDE DEF Is
<1>6. IsUpto(U, N, first, n)
  BY <1>4, <1>5
<1> HIDE DEF U
<1> DEFINE T == {k \in Nat : k <= N => U[k] = Mixed(n, k)}
<1>7. 0 \in T
  <2>1. U[0] = first
    BY <1>0, <1>6 DEF IsUpto
  <2> QED BY <1>3, <2>1 DEF first
<1>8. ASSUME NEW k \in Nat, k < N, k \in T PROVE k + 1 \in T
  <2>1. k + 1 \in 0..N /\ k + 1 # 0 /\ (k + 1) - 1 = k /\ k + 1 \in Ranks
    BY <1>0, <1>8 DEF Ranks
  <2>2. U[k + 1] = Passed(U[k], k + 1, n)
    BY <1>6, <2>1 DEF IsUpto
  <2>3. Passed(Mixed(n, (k + 1) - 1), k + 1, n) = Mixed(n, k + 1)
    BY <2>1, PassedOne
  <2>4. U[k] = Mixed(n, k)
    BY <1>0, <1>8
  <2>5. U[k + 1] = Mixed(n, k + 1)
    BY <2>1, <2>2, <2>3, <2>4
  <2> QED BY <2>5
<1> HIDE DEF T
<1>9. N \in T
  BY <1>0, <1>7, <1>8, Induct
<1> QED BY <1>0, <1>1, <1>3, <1>9 DEF T, first

LEMMA LivingPregsIs ==
    ASSUME ScanInv, i > N, NEW n \in Nat
    PROVE  LivingPregs(n) = LivingAt(n)
<1> DEFINE Is(h) == h = [m \in 0 .. (n + 1) |->
                            IF m = 0 THEN {} ELSE PassedAll(h[m - 1], m - 1)]
           A == CHOOSE h : Is(h)
<1>1. LivingPregs(n) = A[n + 1]
  BY DEF LivingPregs
<1>2. \A h : Is(h) <=> IsAfter(h, n + 1)
  BY DEF IsAfter
<1>3. \E h : IsAfter(h, n + 1)
  BY AfterExists
<1> HIDE DEF Is
<1>4. IsAfter(A, n + 1)
  BY <1>2, <1>3
<1> HIDE DEF A
<1> DEFINE T == {m \in Nat : m <= n + 1 => A[m] = LivingAt(m - 1)}
<1>5. 0 \in T
  <2>1. A[0] = {}
    BY <1>4 DEF IsAfter
  <2>2. \A c : Keeps(c) => ~(itv[c].start <= 0 - 1 /\ 0 - 1 < itv[c].end)
    <3> SUFFICES ASSUME NEW c, Keeps(c)
                 PROVE  ~(itv[c].start <= 0 - 1 /\ 0 - 1 < itv[c].end)
      OBVIOUS
    <3>1. /\ itv[c].start \in Int /\ itv[c].end \in Int
          /\ itv[c].start >= 0 \/ itv[c].end = -1
      BY Bounds
    <3> QED BY <3>1
  <2>3. LivingAt(0 - 1) = {}
    BY <2>2 DEF LivingAt, Keeps
  <2> QED BY <2>1, <2>3
<1>6. ASSUME NEW m \in Nat, m < n + 1, m \in T PROVE m + 1 \in T
  <2>1. m + 1 \in 0 .. (n + 1) /\ m + 1 # 0 /\ (m + 1) - 1 = m
    BY <1>6
  <2>2. A[m + 1] = PassedAll(A[m], m)
    BY <1>4, <2>1 DEF IsAfter
  <2>3. PassedAll(LivingAt(m - 1), m) = LivingAt(m)
    BY PassedAllIs
  <2> QED BY <1>6, <2>1, <2>2, <2>3
<1> HIDE DEF T
<1>7. n + 1 \in T
  BY <1>5, <1>6, Induct
<1>8. A[n + 1] = LivingAt((n + 1) - 1) /\ (n + 1) - 1 = n
  BY <1>7 DEF T
<1> QED BY <1>1, <1>8

\* What detect_living_registers collects bit by bit over the intervals the
\* scan has ended with is, at every instruction, the set of registers whose
\* interval began by then and goes on, for any intervals and both files.
THEOREM LinearScanLivingMatchesIntervals == ScanSpec => LivingMatchesIntervals
<1>1. ScanInv /\ i > N => LivingIsExact
  <2> SUFFICES ASSUME ScanInv, i > N, NEW a \in Ranks, NEW n \in 0..End(a)
               PROVE  LivingPregs(n) = LivingAt(n)
    BY DEF LivingIsExact
  <2>1. n \in Nat
    <3>1. End(a) \in Int
      BY ScanAssumption DEF AnyInterval, End, ScanInv, ScanTypeOK
    <3> QED BY <3>1
  <2> QED BY <2>1, LivingPregsIs
<1>2. (ScanInv /\ i > N)' => LivingIsExact'
  BY <1>1, PTL
<1>3. ScanInv' => [(i <= N /\ i' > N) => LivingIsExact']_scanVars
  BY <1>2
<1>4. ScanSpec => []ScanInv
  BY InitInvariant, NextPreserves, PTL DEF ScanSpec
<1> QED BY <1>3, <1>4, PTL DEF LivingMatchesIntervals
-----------------------------------------------------------------------------
(***************************************************************************)
(* Liveness analysis.                                                      *)
(***************************************************************************)
\* What a state says of its program.
Code == prog \in [Blocks -> Seq(Instr)]

\* Every set holds at most what its equation allows, from the start.
NotTooMuch ==
    \A b \in Blocks :
        /\ out_regs[b] \subseteq UNION {in_regs[n] : n \in NextBBs(b)}
        /\ flow # "enumerate" =>
              /\ UsedFirst(prog[b]) \subseteq in_regs[b]
              /\ in_regs[b] \subseteq
                     UsedFirst(prog[b]) \cup (out_regs[b] \ assigned_regs[b])

Enumerated ==
    /\ flow = "enumerate" =>
          /\ \A b \in Blocks : out_regs[b] = {}
          /\ \A b \in Blocks : b >= bi => in_regs[b] = {}
          /\ \A b \in Blocks : b < bi => in_regs[b] = UsedFirst(prog[b])
          /\ cont = FALSE

Visited == (flow = "propagate" /\ ~cont) => \A b \in Blocks : b < bi => Balanced(b)

FlowInv == FlowTypeOK /\ NotTooMuch /\ Enumerated /\ Visited /\ FlowBalanced

\* Every instruction of a program is an Instr, so what a block assigns are
\* virtual registers.
LEMMA AssignedAreVRegs ==
    ASSUME NEW p \in [Blocks -> Seq(Instr)], NEW b \in Blocks
    PROVE  /\ UsedFirst(p[b]) \in SUBSET VRegs
           /\ Assigned(p[b]) \in SUBSET VRegs
<1>1. p[b] \in Seq(Instr)
  OBVIOUS
<1>2. UsedFirst(p[b]) \in SUBSET VRegs
  BY DEF UsedFirst
<1>3. ASSUME NEW v \in Assigned(p[b]) PROVE v \in VRegs
  <2>1. PICK j \in 1..Len(p[b]) : v \in Dst(p[b][j])
    BY <1>3 DEF Assigned
  <2>2. p[b][j] \in Instr
    BY <1>1, <2>1
  <2>3. p[b][j].dst \in VRegs \cup {None}
    BY <2>2 DEF Instr
  <2> QED
    BY <2>1, <2>3 DEF Dst
<1> QED
  BY <1>2, <1>3

\* The invariant of the analysis holds before its first block.
LEMMA StartFlowInv == Code /\ FlowStart => FlowInv
<1> SUFFICES ASSUME Code, FlowStart PROVE FlowInv
  OBVIOUS
<1>1. FlowTypeOK
  <2>1. /\ in_regs \in [Blocks -> SUBSET VRegs]
        /\ out_regs \in [Blocks -> SUBSET VRegs]
        /\ assigned_regs \in [Blocks -> SUBSET VRegs]
    BY DEF FlowStart
  <2>2. bi \in Blocks
    BY FlowAssumption DEF FlowStart, Blocks
  <2>3. cont \in BOOLEAN /\ flow \in {"enumerate", "propagate", "done"}
    BY DEF FlowStart
  <2> QED
    BY <2>1, <2>2, <2>3 DEF FlowTypeOK, Code
<1>2. NotTooMuch
  BY DEF FlowStart, NotTooMuch
<1>3. Enumerated
  BY FlowAssumption DEF FlowStart, Enumerated, Blocks
<1>4. Visited /\ FlowBalanced
  BY DEF FlowStart, Visited, FlowBalanced
<1> QED
  BY <1>1, <1>2, <1>3, <1>4 DEF FlowInv

\* The same for the analysis on its own.
LEMMA InitFlowInv == FlowInit => FlowInv
BY FlowAssumption, StartFlowInv DEF FlowInit, Code

-----------------------------------------------------------------------------
\* A block of the first pass writes what it reads first and what it assigns.
LEMMA EnumerateFlowInv == FlowInv /\ Enumerate => FlowInv'
<1> SUFFICES ASSUME FlowInv, Enumerate PROVE FlowInv'
  OBVIOUS
<1> USE DEF FlowInv
<1>0. /\ bi \in Blocks /\ bi \in Nat /\ NB \in Nat /\ prog \in [Blocks -> Seq(Instr)]
      /\ in_regs \in [Blocks -> SUBSET VRegs]
      /\ out_regs \in [Blocks -> SUBSET VRegs]
      /\ assigned_regs \in [Blocks -> SUBSET VRegs]
      /\ prog' = prog /\ cont' = cont /\ cont = FALSE
      /\ flow = "enumerate"
  BY FlowAssumption DEF FlowTypeOK, Enumerate, Blocks, Enumerated
<1>1. FlowTypeOK'
  <2>1. UsedFirst(prog[bi]) \in SUBSET VRegs /\ Assigned(prog[bi]) \in SUBSET VRegs
    BY <1>0, AssignedAreVRegs
  <2>2. /\ in_regs' \in [Blocks -> SUBSET VRegs]
        /\ out_regs' \in [Blocks -> SUBSET VRegs]
        /\ assigned_regs' \in [Blocks -> SUBSET VRegs]
    BY <1>0, <2>1 DEF Enumerate
  <2>3. bi' \in Blocks /\ flow' \in {"enumerate", "propagate", "done"}
    BY <1>0 DEF Enumerate, Blocks
  <2> QED
    BY <1>0, <2>2, <2>3 DEF FlowTypeOK
<1>2. \A b \in Blocks : out_regs'[b] = {}
  BY <1>0 DEF Enumerate, Enumerated
<1>3. \A b \in Blocks : b <= bi => in_regs'[b] = UsedFirst(prog[b])
  BY <1>0 DEF Enumerate, Enumerated, Blocks
<1>4. \A b \in Blocks : b > bi => in_regs'[b] = {}
  BY <1>0 DEF Enumerate, Enumerated, Blocks
<1>5. NotTooMuch'
  <2>1. ASSUME NEW b \in Blocks, flow' # "enumerate"
        PROVE  in_regs'[b] = UsedFirst(prog'[b])
    <3>1. bi = NB
      BY <1>0, <2>1 DEF Enumerate, Blocks
    <3> QED
      BY <1>0, <1>3, <3>1 DEF Blocks
  <2> QED
    BY <1>0, <1>2, <2>1 DEF NotTooMuch
<1>6. Enumerated'
  BY <1>0, <1>2, <1>3, <1>4 DEF Enumerated, Enumerate, Blocks
<1>7. Visited'
  BY <1>0 DEF Visited, Enumerate, Blocks
<1>8. FlowBalanced'
  BY <1>0 DEF FlowBalanced, Enumerate
<1> QED
  BY <1>1, <1>5, <1>6, <1>7, <1>8

-----------------------------------------------------------------------------
\* A block of a later pass writes sets that satisfy its equations, unless it
\* changes in_regs, which makes the pass one that is repeated.
LEMMA PropagateFlowInv == FlowInv /\ Propagate => FlowInv'
<1> SUFFICES ASSUME FlowInv, Propagate PROVE FlowInv'
  OBVIOUS
<1> USE DEF FlowInv
<1> DEFINE before == UNION {in_regs[n] : n \in NextBBs(bi)}
           grown == in_regs[bi] \cup (before \ assigned_regs[bi])
           again == cont \/ Grew(in_regs[bi], grown)
<1>0. /\ bi \in Blocks /\ bi \in Nat /\ NB \in Nat /\ prog \in [Blocks -> Seq(Instr)]
      /\ in_regs \in [Blocks -> SUBSET VRegs]
      /\ out_regs \in [Blocks -> SUBSET VRegs]
      /\ assigned_regs \in [Blocks -> SUBSET VRegs]
      /\ prog' = prog /\ assigned_regs' = assigned_regs
      /\ flow = "propagate" /\ flow' \in {"propagate", "done"}
      /\ cont \in BOOLEAN
  BY FlowAssumption DEF FlowTypeOK, Propagate, Blocks
<1>a. /\ in_regs' = [in_regs EXCEPT ![bi] = grown]
      /\ out_regs' = [out_regs EXCEPT ![bi] =
            out_regs[bi] \cup before \cup IF bi \in NextBBs(bi) THEN grown ELSE {}]
  BY Zenon DEF Propagate
<1>b. /\ bi < NB => bi' = bi + 1 /\ cont' = again /\ flow' = flow
      /\ ~(bi < NB) => /\ bi' = 1
                       /\ cont' = FALSE
                       /\ flow' = IF again THEN "propagate" ELSE "done"
  BY Zenon DEF Propagate
<1> HIDE DEF again
<1>c. \A b \in Blocks : NextBBs(b)' = NextBBs(b) /\ NextBBs(b) \subseteq Blocks
  BY <1>0 DEF NextBBs, EndsIn, LastOf
<1>d. before \in SUBSET VRegs /\ grown \in SUBSET VRegs
  BY <1>0, <1>c
<1> HIDE DEF before, grown
<1>e. /\ in_regs'[bi] = grown
      /\ \A b \in Blocks : b # bi => in_regs'[b] = in_regs[b]
      /\ \A b \in Blocks : in_regs[b] \subseteq in_regs'[b]
  BY <1>0, <1>a DEF grown
<1>f. /\ out_regs'[bi] =
            out_regs[bi] \cup before \cup IF bi \in NextBBs(bi) THEN grown ELSE {}
      /\ \A b \in Blocks : b # bi => out_regs'[b] = out_regs[b]
  BY <1>0, <1>a
<1>1. FlowTypeOK'
  <2>1. in_regs' \in [Blocks -> SUBSET VRegs] /\ out_regs' \in [Blocks -> SUBSET VRegs]
    BY <1>0, <1>a, <1>d
  <2>2. bi' \in Blocks
    BY <1>0, <1>b DEF Blocks
  <2>3. cont' \in BOOLEAN
    BY <1>0, <1>b DEF again, Grew
  <2> QED
    BY <1>0, <2>1, <2>2, <2>3 DEF FlowTypeOK
<1>2. NotTooMuch'
  <2>1. ASSUME NEW b \in Blocks
        PROVE  out_regs'[b] \subseteq UNION {in_regs'[n] : n \in NextBBs(b)}
    <3>1. out_regs[b] \subseteq UNION {in_regs'[n] : n \in NextBBs(b)}
      BY <1>c, <1>e DEF NotTooMuch
    <3>2. CASE b # bi
      BY <1>f, <3>1, <3>2
    <3>3. CASE b = bi
      <4>1. before \subseteq UNION {in_regs'[n] : n \in NextBBs(bi)}
        BY <1>0, <1>c, <1>e DEF before
      <4>2. bi \in NextBBs(bi) => grown \subseteq UNION {in_regs'[n] : n \in NextBBs(bi)}
        BY <1>e
      <4> QED
        BY <1>f, <3>1, <3>3, <4>1, <4>2
    <3> QED
      BY <3>2, <3>3
  <2>2. ASSUME NEW b \in Blocks
        PROVE  /\ UsedFirst(prog[b]) \subseteq in_regs'[b]
               /\ in_regs'[b] \subseteq
                     UsedFirst(prog[b]) \cup (out_regs'[b] \ assigned_regs[b])
    <3>1. /\ UsedFirst(prog[b]) \subseteq in_regs[b]
          /\ in_regs[b] \subseteq
                UsedFirst(prog[b]) \cup (out_regs[b] \ assigned_regs[b])
      BY <1>0 DEF NotTooMuch
    <3>2. out_regs[b] \subseteq out_regs'[b] /\ (b = bi => before \subseteq out_regs'[b])
      BY <1>f
    <3>3. CASE b # bi
      BY <1>e, <3>1, <3>2, <3>3
    <3>4. CASE b = bi
      BY <1>e, <3>1, <3>2, <3>4 DEF grown
    <3> QED
      BY <3>3, <3>4
  <2> QED
    BY <1>0, <1>c, <2>1, <2>2 DEF NotTooMuch
<1>3. Enumerated'
  BY <1>0 DEF Enumerated
\* A visit that does not grow in_regs leaves its block balanced and the
\* balanced ones as they were.
<1>4. ASSUME ~again PROVE \A b \in Blocks : b <= bi => Balanced(b)'
  <2>1. ~cont /\ grown = in_regs[bi]
    BY <1>4 DEF again, Grew
  <2>2. \A b \in Blocks : in_regs'[b] = in_regs[b]
    BY <1>e, <2>1
  <2>3. ASSUME NEW b \in Blocks PROVE
          UNION {in_regs'[n] : n \in NextBBs(b)} = UNION {in_regs[n] : n \in NextBBs(b)}
    BY <1>c, <2>2
  <2>4. ASSUME NEW b \in Blocks, b < bi PROVE Balanced(b)'
    <3>1. Balanced(b)
      BY <1>0, <2>1, <2>4 DEF Visited
    <3>2. b # bi
      BY <1>0, <2>4 DEF Blocks
    <3>3. out_regs'[b] = out_regs[b]
      BY <1>f, <3>2
    <3> QED
      BY <1>0, <1>c, <2>2, <2>3, <3>1, <3>3 DEF Balanced
  <2>5. ASSUME NEW b \in Blocks, b = bi PROVE Balanced(b)'
    <3>1. out_regs[bi] \subseteq before
      BY <1>0 DEF NotTooMuch, before
    <3>2. bi \in NextBBs(bi) => grown \subseteq before
      BY <2>1 DEF before
    <3>3. out_regs'[bi] = before
      BY <1>f, <3>1, <3>2
    <3>4. before \ assigned_regs[bi] \subseteq in_regs[bi]
      BY <2>1 DEF grown
    <3>5. /\ UsedFirst(prog[bi]) \subseteq in_regs[bi]
          /\ in_regs[bi] \subseteq
                UsedFirst(prog[bi]) \cup (out_regs[bi] \ assigned_regs[bi])
      BY <1>0 DEF NotTooMuch
    <3>6. in_regs'[bi] = UsedFirst(prog[bi]) \cup (out_regs'[bi] \ assigned_regs[bi])
      BY <1>0, <2>2, <3>1, <3>3, <3>4, <3>5
    <3>7. out_regs'[bi] = UNION {in_regs'[n] : n \in NextBBs(bi)}
      BY <1>0, <2>3, <3>3 DEF before
    <3>8. in_regs'[b] = UsedFirst(prog'[b]) \cup (out_regs'[b] \ assigned_regs'[b])
      BY <1>0, <2>5, <3>6
    <3>9. out_regs'[b] = UNION {in_regs'[n] : n \in NextBBs(b)'}
      BY <1>c, <2>5, <3>7
    <3> QED
      BY <3>8, <3>9 DEF Balanced
  <2> QED
    BY <1>0, <2>4, <2>5 DEF Blocks
<1>5. Visited'
  <2>1. CASE bi < NB
    BY <1>0, <1>b, <1>4, <2>1 DEF Visited, Blocks
  <2>2. CASE ~(bi < NB)
    BY <1>0, <1>b, <2>2 DEF Visited, Blocks
  <2> QED
    BY <2>1, <2>2
<1>6. FlowBalanced'
  <2>1. CASE flow' = "done"
    <3>1. bi = NB /\ ~again
      BY <1>0, <1>b, <2>1 DEF Blocks
    <3> QED
      BY <1>0, <1>4, <3>1 DEF FlowBalanced, Blocks
  <2>2. CASE flow' # "done"
    BY <2>2 DEF FlowBalanced
  <2> QED
    BY <2>1, <2>2
<1> QED
  BY <1>1, <1>2, <1>3, <1>5, <1>6

-----------------------------------------------------------------------------
\* FlowInv speaks of flowVars alone.
LEMMA StutterFlowInv == FlowInv /\ UNCHANGED flowVars => FlowInv'
BY DEF FlowInv, flowVars, FlowTypeOK, NotTooMuch, Enumerated, Visited, FlowBalanced,
       Balanced, NextBBs, EndsIn, LastOf

\* Every step of the analysis preserves the invariant.
LEMMA NextFlowInv == FlowInv /\ [FlowNext]_flowVars => FlowInv'
<1> SUFFICES ASSUME FlowInv, [FlowNext]_flowVars PROVE FlowInv'
  OBVIOUS
<1>1. CASE Enumerate
  BY <1>1, EnumerateFlowInv
<1>2. CASE Propagate
  BY <1>2, PropagateFlowInv
<1>3. CASE FlowDone
  BY <1>3, StutterFlowInv DEF FlowDone
<1>4. CASE UNCHANGED flowVars
  BY <1>4, StutterFlowInv
<1> QED
  BY <1>1, <1>2, <1>3, <1>4 DEF FlowNext

\* The sets the two loops keep have their types at every step.
THEOREM RegFlowTypeOK == FlowSpec => []FlowTypeOK
<1>1. FlowInv => FlowTypeOK
  BY DEF FlowInv
<1> QED
  BY <1>1, InitFlowInv, NextFlowInv, PTL DEF FlowSpec

\* When the do-while loop of analyze_reg_flow stops, in_regs and out_regs
\* of every block satisfy the equations of live-variable analysis.
THEOREM RegFlowBalanced == FlowSpec => []FlowBalanced
<1>1. FlowInv => FlowBalanced
  BY DEF FlowInv
<1> QED
  BY <1>1, InitFlowInv, NextFlowInv, PTL DEF FlowSpec
-----------------------------------------------------------------------------
(* The sets that grow step by step from a first one                        *)

\* From S one step back: from p, one of Q, the steps lead to G[p].
Back(S, Q, G) == S \cup {p \in Q : G[p] \cap S # {}}
Growing(h, zero, n, Q, G) ==
    h = [k \in 0..n |-> IF k = 0 THEN zero ELSE Back(h[k - 1], Q, G)]

\* The recursive function by which LivePoints is defined is one.
LEMMA GrowingExists ==
    ASSUME NEW zero, NEW Q, NEW G, NEW n \in Nat
    PROVE  \E h : Growing(h, zero, n, Q, G)
<1> DEFINE T == {m \in Nat : \E h : Growing(h, zero, m, Q, G)}
<1>1. 0 \in T
  <2>1. Growing([k \in 0..0 |-> zero], zero, 0, Q, G)
    BY DEF Growing
  <2> QED BY <2>1
<1>2. ASSUME NEW m \in Nat, m \in T PROVE m + 1 \in T
  <2>1. PICK h : Growing(h, zero, m, Q, G)
    BY <1>2
  <2> DEFINE g == [k \in 0 .. (m + 1) |-> IF k = m + 1 THEN Back(h[m], Q, G) ELSE h[k]]
  <2>2. ASSUME NEW k \in 0 .. (m + 1) PROVE g[k] = IF k = 0 THEN zero ELSE Back(g[k - 1], Q, G)
    <3>1. CASE k = m + 1
      <4>1. g[m] = h[m] /\ k - 1 = m /\ k # 0
        BY <3>1
      <4> QED BY <3>1, <4>1
    <3>2. CASE k = 0
      BY <2>1, <3>2 DEF Growing
    <3>3. CASE k # 0 /\ k # m + 1
      <4>1. k \in 0..m /\ k - 1 \in 0 .. (m + 1) /\ k - 1 # m + 1
        BY <3>3
      <4>2. h[k] = Back(h[k - 1], Q, G)
        BY <2>1, <3>3, <4>1 DEF Growing
      <4> QED BY <3>3, <4>1, <4>2
    <3> QED BY <3>1, <3>2, <3>3
  <2>3. Growing(g, zero, m + 1, Q, G)
    BY <2>2 DEF Growing
  <2> QED BY <2>3
<1> HIDE DEF T
<1>3. \A m \in 0..n : m \in T
  BY <1>1, <1>2, Induct
<1>4. n \in T
  BY <1>3
<1> QED BY <1>4 DEF T

\* In as many steps as P has members, a set that was not empty has stopped
\* growing: each step adds one at least.
GrowsIn(P, zero, Q) == IsFiniteSet(P) /\ zero \in SUBSET P /\ zero # {} /\ Q \in SUBSET P

\* A set that grows within P has stopped growing after Cardinality(P) steps.
LEMMA GrowingStops ==
    ASSUME NEW P, NEW zero, NEW Q, NEW G, NEW h,
           GrowsIn(P, zero, Q), Growing(h, zero, Cardinality(P), Q, G)
    PROVE  /\ h[Cardinality(P)] \in SUBSET P
           /\ zero \subseteq h[Cardinality(P)]
           /\ Back(h[Cardinality(P)], Q, G) = h[Cardinality(P)]
<1> DEFINE n == Cardinality(P)
           c(k) == Cardinality(h[k])
           fixed(k) == Back(h[k], Q, G) = h[k]
<1> USE DEF GrowsIn
<1>1. n \in Nat
  BY FS_CardinalityType
<1>2. h[0] = zero
  BY <1>1 DEF Growing
<1>3. \A k \in Nat : k < n => h[k + 1] = Back(h[k], Q, G)
  <2> SUFFICES ASSUME NEW k \in Nat, k < n PROVE h[k + 1] = Back(h[k], Q, G)
    OBVIOUS
  <2>1. k + 1 \in 0..n /\ k + 1 # 0 /\ (k + 1) - 1 = k
    BY <1>1
  <2> QED BY <2>1 DEF Growing
<1> HIDE DEF n
<1> DEFINE T == {k \in Nat : h[k] \in SUBSET P /\ zero \subseteq h[k]
                               /\ (fixed(k) \/ c(k) >= k + 1)}
<1>4. \A S \in SUBSET P : IsFiniteSet(S) /\ Cardinality(S) \in Nat /\ Cardinality(S) <= Cardinality(P)
  BY FS_Subset, FS_CardinalityType
<1>5. 0 \in T
  <2>1. Cardinality(zero) # 0 /\ Cardinality(zero) \in Nat
    BY <1>4, FS_EmptySet
  <2> QED BY <1>2, <2>1
<1>6. ASSUME NEW k \in Nat, k < n, k \in T PROVE k + 1 \in T
  <2> DEFINE old == h[k]
             new == h[k + 1]
  <2>1. old \in SUBSET P /\ zero \subseteq old /\ new = Back(old, Q, G)
    BY <1>3, <1>6
  <2>2. new \in SUBSET P /\ old \subseteq new
    BY <2>1 DEF Back
  <2>3. CASE fixed(k)
    <3>1. Back(new, Q, G) = new
      BY <2>1, <2>3
    <3> QED BY <2>1, <2>2, <3>1
  <2>4. CASE ~fixed(k)
    <3>1. c(k) >= k + 1 /\ new # old
      BY <1>6, <2>1, <2>4
    <3> HIDE DEF old, new
    <3>2. IsFiniteSet(new) /\ Cardinality(new) \in Nat /\ Cardinality(old) \in Nat
      BY <1>4, <2>1, <2>2
    <3>3. Cardinality(old) <= Cardinality(new) /\ Cardinality(old) # Cardinality(new)
      BY <2>2, <3>1, <3>2, FS_Subset
    <3>4. Cardinality(new) >= (k + 1) + 1
      BY <3>1, <3>2, <3>3 DEF old
    <3> QED BY <2>1, <2>2, <3>4 DEF new
  <2> QED BY <2>3, <2>4
<1> HIDE DEF T
<1>7. \A k \in 0..n : k \in T
  BY <1>1, <1>5, <1>6, Induct
<1>8. n \in T
  BY <1>1, <1>7
<1>9. h[n] \in SUBSET P /\ zero \subseteq h[n] /\ (fixed(n) \/ c(n) >= n + 1)
  BY <1>8 DEF T
<1>10. ~(c(n) >= n + 1)
  BY <1>1, <1>4, <1>9 DEF n
<1> QED BY <1>9, <1>10 DEF n

-----------------------------------------------------------------------------
(* The points of a program                                                 *)

\* What instructions and points of a program are.
LEMMA CodeTypes ==
    ASSUME Code, NEW b \in Blocks
    PROVE  /\ Len(prog[b]) \in Nat
           /\ \A j \in 1..Len(prog[b]) :
                prog[b][j] \in Instr /\ prog[b][j].to \in Blocks
<1>1. prog[b] \in Seq(Instr)
  BY FlowAssumption DEF Code
<1>2. \A j \in 1..Len(prog[b]) : prog[b][j] \in Instr
  BY <1>1
<1> QED BY <1>1, <1>2 DEF Instr

\* The points, without the union that defines them.
LEMMA PointsAre ==
    ASSUME Code
    PROVE  /\ \A b \in Blocks : \A j \in 1 .. (Len(prog[b]) + 1) :
                <<b, j>> \in Points /\ (AtEnd(<<b, j>>) <=> j = Len(prog[b]) + 1)
           /\ \A p \in Points : \E b \in Blocks : \E j \in 1 .. (Len(prog[b]) + 1) : p = <<b, j>>
           /\ \A b \in Blocks : Entry(b) \in Points
<1>1. \A b \in Blocks : \A j \in 1 .. (Len(prog[b]) + 1) : <<b, j>> \in Points
  BY DEF Points
<1>2. \A b \in Blocks : 1 \in 1 .. (Len(prog[b]) + 1)
  BY CodeTypes
<1> QED BY <1>1, <1>2 DEF Points, AtEnd, Entry

\* A program has finitely many points.
LEMMA PointsFinite == ASSUME Code PROVE IsFiniteSet(Points)
<1> DEFINE Of(b) == {b} \X (1 .. (Len(prog[b]) + 1))
           Upto(n) == UNION {Of(b) : b \in 1..n}
           T == {n \in Nat : n <= NB => IsFiniteSet(Upto(n))}
<1>1. NB \in Nat
  BY FlowAssumption
<1>2. \A b \in Blocks : IsFiniteSet(Of(b))
  <2> SUFFICES ASSUME NEW b \in Blocks PROVE IsFiniteSet(Of(b))
    OBVIOUS
  <2>1. 1 \in Int /\ Len(prog[b]) + 1 \in Int
    BY CodeTypes
  <2>2. IsFiniteSet(1 .. (Len(prog[b]) + 1)) /\ IsFiniteSet({b})
    BY <2>1, FS_Interval, FS_Singleton
  <2> QED BY <2>2, FS_Product
<1> HIDE DEF Of
<1>3. 0 \in T
  <2>1. Upto(0) = {}
    OBVIOUS
  <2> QED BY <2>1, FS_EmptySet
<1>4. ASSUME NEW n \in Nat, n < NB, n \in T PROVE n + 1 \in T
  <2>1. Upto(n + 1) = Upto(n) \cup Of(n + 1)
    <3>1. 1 .. (n + 1) = (1..n) \cup {n + 1}
      BY <1>4
    <3> QED BY <3>1
  <2>2. IsFiniteSet(Upto(n))
    BY <1>1, <1>4
  <2>3. n + 1 \in Blocks
    BY <1>1, <1>4 DEF Blocks
  <2> HIDE DEF Upto, T
  <2>4. IsFiniteSet(Upto(n + 1))
    <3> DEFINE S == Upto(n)
               O == Of(n + 1)
    <3>1. IsFiniteSet(O) /\ IsFiniteSet(S)
      BY <1>2, <2>2, <2>3
    <3> HIDE DEF S, O
    <3>2. IsFiniteSet(S \cup O)
      BY <3>1, FS_Union
    <3> QED BY <2>1, <3>2 DEF S, O
  <2> QED BY <2>4 DEF T
<1> HIDE DEF T
<1>5. NB \in T
  BY <1>1, <1>3, <1>4, Induct
<1>6. Points = Upto(NB)
  BY DEF Points, Of, Blocks
<1> HIDE DEF Upto
<1> QED BY <1>1, <1>5, <1>6 DEF T

\* LivePoints is the least set that contains the reads and is closed under
\* steps back that pass no assignment.
LEMMA LiveClosed ==
    ASSUME Code, NEW v
    PROVE  /\ LivePoints(v) \subseteq Points
           /\ Uses(v) \subseteq LivePoints(v)
           /\ \A p \in Points \ Defs(v) :
                SuccPoints(p) \cap LivePoints(v) # {} => p \in LivePoints(v)
           /\ \A T : (/\ Uses(v) \subseteq T
                     /\ \A p \in Points \ Defs(v) : SuccPoints(p) \cap T # {} => p \in T)
                    => LivePoints(v) \subseteq T
<1> DEFINE P == Points
           U == Uses(v)
           Q == Points \ Defs(v)
           n == Cardinality(P)
           G == [p \in Points |-> SuccPoints(p)]
<1>1. CASE U = {}
  BY <1>1 DEF LivePoints
<1>2. CASE U # {}
  <2>1. IsFiniteSet(P) /\ n \in Nat /\ U \in SUBSET P /\ Q \in SUBSET P
    BY PointsFinite, FS_CardinalityType DEF Uses
  <2> DEFINE Within(h) == h = [k \in 0..n |->
                    IF k = 0 THEN U
                    ELSE h[k - 1] \cup {p \in Q : SuccPoints(p) \cap h[k - 1] # {}}]
             W == CHOOSE h : Within(h)
  <2>2. LivePoints(v) = W[n]
    BY <1>2 DEF LivePoints
  <2>3. \A S : Back(S, Q, G) = S \cup {p \in Q : SuccPoints(p) \cap S # {}}
    <3>1. \A p \in Q : G[p] = SuccPoints(p)
      OBVIOUS
    <3> HIDE DEF G
    <3> QED BY <3>1 DEF Back
  <2> HIDE DEF G, Q, U, n, P
  <2>4. \A h : Within(h) <=> Growing(h, U, n, Q, G)
    BY <2>3 DEF Growing
  <2>5. \E h : Growing(h, U, n, Q, G)
    BY <2>1, GrowingExists
  <2> HIDE DEF Within
  <2>6. Growing(W, U, n, Q, G)
    BY <2>4, <2>5
  <2> HIDE DEF W
  <2>7. /\ W[n] \in SUBSET P /\ U \subseteq W[n] /\ Back(W[n], Q, G) = W[n]
    <3>1. Growing(W, U, Cardinality(P), Q, G)
      BY <2>6 DEF n
    <3>0. GrowsIn(P, U, Q)
      BY <1>2, <2>1 DEF GrowsIn
    <3>2. /\ W[Cardinality(P)] \in SUBSET P /\ U \subseteq W[Cardinality(P)]
          /\ Back(W[Cardinality(P)], Q, G) = W[Cardinality(P)]
      BY <3>0, <3>1, GrowingStops
    <3> QED BY <3>2 DEF n
  <2>8. \A p \in Q : SuccPoints(p) \cap W[n] # {} => p \in W[n]
    BY <2>3, <2>7
  <2>9. ASSUME NEW T, U \subseteq T, \A p \in Q : SuccPoints(p) \cap T # {} => p \in T
        PROVE  W[n] \subseteq T
    <3> DEFINE K == {k \in Nat : k <= n => W[k] \subseteq T}
    <3>1. 0 \in K
      BY <2>1, <2>6, <2>9 DEF Growing
    <3>2. ASSUME NEW k \in Nat, k < n, k \in K PROVE k + 1 \in K
      <4>1. k + 1 \in 0..n /\ k + 1 # 0 /\ (k + 1) - 1 = k /\ W[k] \subseteq T
        BY <2>1, <3>2
      <4>2. W[k + 1] = Back(W[k], Q, G)
        BY <2>6, <4>1 DEF Growing
      <4> QED BY <2>3, <2>9, <4>1, <4>2
    <3> HIDE DEF K
    <3>3. n \in K
      BY <2>1, <3>1, <3>2, Induct
    <3> QED BY <2>1, <3>3 DEF K
  <2> QED BY <2>2, <2>7, <2>8, <2>9 DEF P, Q, U
<1> QED BY <1>1, <1>2

-----------------------------------------------------------------------------
(* The sets are liveness                                                   *)

\* Where execution goes from the points of a block.
LEMMA Steps ==
    ASSUME Code, NEW b \in Blocks, NEW j \in 1..Len(prog[b])
    PROVE  /\ <<b, j>> \in Points /\ ~AtEnd(<<b, j>>) /\ IrAt(<<b, j>>) = prog[b][j]
           /\ prog[b][j].op # "JMP" => <<b, j + 1>> \in SuccPoints(<<b, j>>)
           /\ prog[b][j].op \in {"JMP", "JCC"} => Entry(prog[b][j].to) \in SuccPoints(<<b, j>>)
           /\ \A s \in SuccPoints(<<b, j>>) :
                \/ s = <<b, j + 1>> /\ prog[b][j].op # "JMP"
                \/ s = Entry(prog[b][j].to) /\ prog[b][j].op \in {"JMP", "JCC"}
<1>1. Len(prog[b]) \in Nat
  BY CodeTypes
<1>2. j \in 1 .. (Len(prog[b]) + 1) /\ j # Len(prog[b]) + 1
  BY <1>1
<1>3. <<b, j>> \in Points /\ ~AtEnd(<<b, j>>)
  BY <1>2, PointsAre
<1>4. IrAt(<<b, j>>) = prog[b][j]
  BY DEF IrAt
<1>5. SuccPoints(<<b, j>>) =
        (IF prog[b][j].op \in {"JMP", "JCC"} THEN {Entry(prog[b][j].to)} ELSE {})
        \cup (IF prog[b][j].op # "JMP" THEN {<<b, j + 1>>} ELSE {})
  BY <1>3, <1>4 DEF SuccPoints
<1> QED BY <1>3, <1>4, <1>5

\* From the end of a block the way leads to the top of the next ones.
LEMMA StepsAtEnd ==
    ASSUME Code, NEW b \in Blocks
    PROVE  /\ <<b, Len(prog[b]) + 1>> \in Points /\ AtEnd(<<b, Len(prog[b]) + 1>>)
           /\ \A s : s \in SuccPoints(<<b, Len(prog[b]) + 1>>) <=>
                        (b + 1 \in Blocks /\ s = Entry(b + 1))
<1>1. Len(prog[b]) + 1 \in 1 .. (Len(prog[b]) + 1)
  BY CodeTypes
<1>2. <<b, Len(prog[b]) + 1>> \in Points /\ AtEnd(<<b, Len(prog[b]) + 1>>)
  BY <1>1, PointsAre
<1>3. SuccPoints(<<b, Len(prog[b]) + 1>>) = {Entry(n) : n \in Blocks \cap {b + 1}}
  BY <1>2 DEF SuccPoints
<1> QED BY <1>2, <1>3

\* The last instruction of a block is its only jump, and next_bbs sees it.
LEMMA LastJump ==
    ASSUME Code, JumpsLast(prog), NEW b \in Blocks, NEW j \in 1..Len(prog[b]),
           prog[b][j].op \in {"JMP", "JCC"}
    PROVE  /\ j = Len(prog[b]) /\ LastOf(b) = prog[b][j]
           /\ EndsIn(b, {"JMP", "JCC"}) /\ (EndsIn(b, {"JMP"}) <=> prog[b][j].op = "JMP")
           /\ prog[b][j].to \in NextBBs(b)
<1>1. Len(prog[b]) \in Nat /\ prog[b][j].to \in Blocks
  BY CodeTypes
<1>2. j = Len(prog[b])
  BY DEF JumpsLast
<1>3. LastOf(b) = prog[b][j] /\ Len(prog[b]) > 0
  BY <1>1, <1>2 DEF LastOf
<1> QED BY <1>1, <1>2, <1>3 DEF EndsIn, NextBBs

\* What is live at a point of a block is live on entry, unless it is
\* assigned before.
LEMMA LiveOnEntry ==
    ASSUME Code, JumpsLast(prog), NEW v, NEW b \in Blocks, NEW j \in 1 .. (Len(prog[b]) + 1),
           <<b, j>> \in LivePoints(v), j <= Len(prog[b]) \/ ~EndsIn(b, {"JMP"}),
           \A k \in 1 .. (j - 1) : v \notin Dst(prog[b][k])
    PROVE  Entry(b) \in LivePoints(v)
<1> DEFINE T == {m \in Nat : m <= j - 1 => <<b, j - m>> \in LivePoints(v)}
<1>1. Len(prog[b]) \in Nat /\ j \in Nat /\ j - 1 \in Nat /\ j >= 1
  BY CodeTypes
<1>2. 0 \in T
  <2>1. j - 0 = j
    BY <1>1
  <2> QED BY <2>1
<1>3. ASSUME NEW m \in Nat, m < j - 1, m \in T PROVE m + 1 \in T
  <2> DEFINE k == j - (m + 1)
  <2>1. k \in 1 .. (j - 1) /\ k \in 1..Len(prog[b]) /\ k + 1 = j - m /\ k + 1 <= j
    BY <1>1, <1>3
  <2>2. <<b, k + 1>> \in LivePoints(v)
    BY <1>1, <1>3, <2>1
  <2> HIDE DEF k
  <2>3. prog[b][k].op # "JMP"
    <3>1. CASE k = Len(prog[b])
      <4>1. ~EndsIn(b, {"JMP"})
        BY <1>1, <2>1, <3>1
      <4> QED BY <1>1, <2>1, <3>1, <4>1 DEF EndsIn, LastOf
    <3>2. CASE k # Len(prog[b])
      BY <2>1, <3>2, LastJump
    <3> QED BY <3>1, <3>2
  <2>4. <<b, k>> \in Points /\ <<b, k + 1>> \in SuccPoints(<<b, k>>) /\ IrAt(<<b, k>>) = prog[b][k]
    BY <2>1, <2>3, Steps
  <2>5. <<b, k>> \notin Defs(v)
    BY <2>1, <2>4 DEF Defs
  <2>6. <<b, k>> \in LivePoints(v)
    BY <2>2, <2>4, <2>5, LiveClosed
  <2> QED BY <2>6 DEF k
<1> HIDE DEF T
<1>4. j - 1 \in T
  <2>1. j - 1 \in 0 .. (j - 1)
    BY <1>1
  <2> QED BY <1>1, <1>2, <1>3, <2>1, Induct
<1>5. <<b, j - (j - 1)>> \in LivePoints(v) /\ j - (j - 1) = 1
  BY <1>1, <1>4 DEF T
<1> QED BY <1>5 DEF Entry

\* Only what is live gets into the sets.
LEMMA UsedFirstLive ==
    ASSUME Code, JumpsLast(prog), NEW b \in Blocks, NEW v \in UsedFirst(prog[b])
    PROVE  Entry(b) \in LivePoints(v)
<1>1. PICK j \in 1..Len(prog[b]) :
        v \in Opr(prog[b][j]) /\ \A k \in 1 .. (j - 1) : v \notin Dst(prog[b][k])
  BY DEF UsedFirst
<1>2. <<b, j>> \in Points /\ ~AtEnd(<<b, j>>) /\ IrAt(<<b, j>>) = prog[b][j]
  BY Steps
<1>3. <<b, j>> \in LivePoints(v)
  BY <1>1, <1>2, LiveClosed DEF Uses
<1>4. Len(prog[b]) \in Nat
  BY CodeTypes
<1>5. j \in 1 .. (Len(prog[b]) + 1) /\ j <= Len(prog[b])
  BY <1>4
<1> QED BY <1>1, <1>3, <1>5, LiveOnEntry

\* What is live on entry to a successor and not assigned on the way is live
\* on entry to the block.
LEMMA PassedOnLive ==
    ASSUME Code, JumpsLast(prog), NEW b \in Blocks, NEW n \in NextBBs(b), NEW v,
           v \notin Assigned(prog[b]), Entry(n) \in LivePoints(v)
    PROVE  Entry(b) \in LivePoints(v)
<1>1. \A k \in 1..Len(prog[b]) : v \notin Dst(prog[b][k])
  BY DEF Assigned
<1>2. Len(prog[b]) \in Nat
  BY CodeTypes
<1>3. CASE n = b + 1 /\ ~EndsIn(b, {"JMP"})
  <2> DEFINE j == Len(prog[b]) + 1
  <2>1. <<b, j>> \in Points /\ AtEnd(<<b, j>>) /\ Entry(n) \in SuccPoints(<<b, j>>)
    BY <1>3, StepsAtEnd DEF NextBBs
  <2>2. <<b, j>> \in LivePoints(v)
    BY <2>1, LiveClosed DEF Defs
  <2>3. j \in 1 .. (Len(prog[b]) + 1) /\ \A k \in 1 .. (j - 1) : k \in 1..Len(prog[b])
    BY <1>2
  <2> HIDE DEF j
  <2> QED BY <1>1, <1>3, <2>2, <2>3, LiveOnEntry
<1>4. CASE EndsIn(b, {"JMP", "JCC"}) /\ n = LastOf(b).to
  <2> DEFINE j == Len(prog[b])
  <2>1. j \in 1..Len(prog[b]) /\ LastOf(b) = prog[b][j] /\ prog[b][j].op \in {"JMP", "JCC"}
    BY <1>2, <1>4 DEF EndsIn, LastOf
  <2>2. /\ <<b, j>> \in Points /\ IrAt(<<b, j>>) = prog[b][j]
        /\ Entry(n) \in SuccPoints(<<b, j>>)
    BY <1>4, <2>1, Steps
  <2>3. <<b, j>> \in LivePoints(v)
    BY <1>1, <2>1, <2>2, LiveClosed DEF Defs
  <2>4. /\ j \in 1 .. (Len(prog[b]) + 1) /\ j <= Len(prog[b])
        /\ \A k \in 1 .. (j - 1) : k \in 1..Len(prog[b])
    BY <1>2, <2>1
  <2> HIDE DEF j
  <2> QED BY <1>1, <2>3, <2>4, LiveOnEntry
<1> QED BY <1>3, <1>4 DEF NextBBs

-----------------------------------------------------------------------------
(* Only what is live gets into in_regs, step by step                       *)

LiveOnly ==
    /\ \A b \in Blocks :
          flow # "enumerate" \/ b < bi => assigned_regs[b] = Assigned(prog[b])
    /\ \A b \in Blocks : \A v \in in_regs[b] : Entry(b) \in LivePoints(v)

\* It is the program alone that says what is live.
LiveLeast ==
    \A v :
        /\ Uses(v) \subseteq LivePoints(v)
        /\ \A p \in Points \ Defs(v) :
              SuccPoints(p) \cap LivePoints(v) # {} => p \in LivePoints(v)
        /\ \A T : (/\ Uses(v) \subseteq T
                  /\ \A p \in Points \ Defs(v) : SuccPoints(p) \cap T # {} => p \in T)
                 => LivePoints(v) \subseteq T

\* LivePoints is the least set closed under steps back.
LEMMA CodeLiveLeast == Code => LiveLeast
BY LiveClosed DEF LiveLeast

\* Liveness is a matter of the program alone.
LEMMA LiveStays == Code /\ prog' = prog => \A v : LivePoints(v)' = LivePoints(v)
<1>1. Code' => LiveLeast'
  BY CodeLiveLeast, PTL
<1> SUFFICES ASSUME Code, prog' = prog, NEW v PROVE LivePoints(v)' = LivePoints(v)
  OBVIOUS
<1>2. LiveLeast /\ LiveLeast'
  BY <1>1, CodeLiveLeast DEF Code
<1>3. Points' = Points /\ Uses(v)' = Uses(v) /\ Defs(v)' = Defs(v)
  BY DEF Points, Uses, Defs, AtEnd, IrAt
<1>4. \A p : SuccPoints(p)' = SuccPoints(p)
  BY DEF SuccPoints, AtEnd, IrAt
<1> DEFINE new == LivePoints(v)'
           old == LivePoints(v)
<1>5. /\ Uses(v) \subseteq new
      /\ \A p \in Points \ Defs(v) : SuccPoints(p) \cap new # {} => p \in new
      /\ \A T : (/\ Uses(v) \subseteq T
                /\ \A p \in Points \ Defs(v) : SuccPoints(p) \cap T # {} => p \in T)
               => new \subseteq T
  BY <1>2, <1>3, <1>4 DEF LiveLeast
<1>6. /\ Uses(v) \subseteq old
      /\ \A p \in Points \ Defs(v) : SuccPoints(p) \cap old # {} => p \in old
      /\ \A T : (/\ Uses(v) \subseteq T
                /\ \A p \in Points \ Defs(v) : SuccPoints(p) \cap T # {} => p \in T)
               => old \subseteq T
  BY <1>2 DEF LiveLeast
<1> HIDE DEF new, old
<1>7. new \subseteq old /\ old \subseteq new
  BY <1>5, <1>6
<1> QED BY <1>7 DEF new, old

\* The analysis does not change the program.
LEMMA NextKeepsProg == [FlowNext]_flowVars => prog' = prog
BY DEF FlowNext, Enumerate, Propagate, FlowDone, flowVars

\* No register is in in_regs or out_regs at the start.
LEMMA InitLiveOnly == FlowStart => LiveOnly
<1> SUFFICES ASSUME FlowStart PROVE LiveOnly
  OBVIOUS
<1>1. flow = "enumerate" /\ bi = 1 /\ \A b \in Blocks : in_regs[b] = {} /\ ~(b < 1)
  BY DEF FlowStart, Blocks
<1> QED BY <1>1 DEF LiveOnly

\* A block puts a register into its sets only if it is live there.
LEMMA NextLiveOnly ==
    ASSUME FlowInv, JumpsLast(prog), LiveOnly, [FlowNext]_flowVars
    PROVE  LiveOnly'
<1>0. /\ Code /\ bi \in Blocks /\ bi \in Nat /\ NB \in Nat /\ Blocks = 1..NB
      /\ in_regs \in [Blocks -> SUBSET VRegs] /\ assigned_regs \in [Blocks -> SUBSET VRegs]
  BY FlowAssumption DEF FlowInv, FlowTypeOK, Code, Blocks
<1>a. prog' = prog => \A v : LivePoints(v)' = LivePoints(v)
  BY <1>0, LiveStays
<1>b. \A b : Assigned(prog[b])' = Assigned(prog'[b]) /\ Entry(b)' = Entry(b)
  BY DEF Assigned, Dst, Entry
<1>1. CASE Enumerate
  <2>1. prog' = prog /\ flow = "enumerate"
    BY <1>1 DEF Enumerate
  <2>2. \A b \in Blocks : flow' # "enumerate" \/ b < bi' => b = bi \/ b < bi
    BY <1>0, <1>1 DEF Enumerate
  <2>3. /\ in_regs' = [in_regs EXCEPT ![bi] = UsedFirst(prog[bi])]
        /\ assigned_regs' = [assigned_regs EXCEPT ![bi] = Assigned(prog[bi])]
    BY <1>1 DEF Enumerate
  <2>4. ASSUME NEW b \in Blocks, flow' # "enumerate" \/ b < bi'
        PROVE  assigned_regs'[b] = Assigned(prog[b])
    BY <1>0, <2>2, <2>3, <2>4 DEF LiveOnly
  <2>5. ASSUME NEW b \in Blocks, NEW v \in in_regs'[b] PROVE Entry(b) \in LivePoints(v)
    <3>1. CASE b = bi
      <4>1. v \in UsedFirst(prog[b])
        BY <1>0, <2>3, <2>5, <3>1
      <4> QED BY <1>0, <4>1, UsedFirstLive
    <3>2. CASE b # bi
      BY <1>0, <2>3, <2>5, <3>2 DEF LiveOnly
    <3> QED BY <3>1, <3>2
  <2> QED BY <1>a, <1>b, <2>1, <2>4, <2>5 DEF LiveOnly
<1>2. CASE Propagate
  <2> DEFINE before == UNION {in_regs[n] : n \in NextBBs(bi)}
             grown == in_regs[bi] \cup (before \ assigned_regs[bi])
  <2>1. /\ prog' = prog /\ assigned_regs' = assigned_regs
        /\ flow = "propagate"
        /\ in_regs' = [in_regs EXCEPT ![bi] = grown]
    BY <1>2, Zenon DEF Propagate
  <2>2. \A b \in Blocks : assigned_regs[b] = Assigned(prog[b])
    BY <2>1 DEF LiveOnly
  <2>3. ASSUME NEW b \in Blocks, NEW v \in in_regs'[b] PROVE Entry(b) \in LivePoints(v)
    <3>1. CASE v \in in_regs[b]
      BY <3>1 DEF LiveOnly
    <3>2. CASE v \notin in_regs[b]
      <4>1. b = bi
        BY <1>0, <2>1, <2>3, <3>2
      <4>2. v \in before \ assigned_regs[b]
        BY <1>0, <2>1, <2>3, <3>2, <4>1
      <4>3. PICK n \in NextBBs(b) : v \in in_regs[n]
        BY <4>1, <4>2
      <4>4. Entry(n) \in LivePoints(v)
        BY <4>3 DEF LiveOnly, NextBBs
      <4>5. v \notin Assigned(prog[b])
        BY <2>2, <4>2
      <4> QED BY <1>0, <4>3, <4>4, <4>5, PassedOnLive
    <3> QED BY <3>1, <3>2
  <2> QED BY <1>a, <1>b, <2>1, <2>2, <2>3 DEF LiveOnly
<1>3. CASE UNCHANGED flowVars
  BY <1>a, <1>b, <1>3 DEF LiveOnly, flowVars
<1> QED BY <1>1, <1>2, <1>3 DEF FlowNext, FlowDone

-----------------------------------------------------------------------------
(* All that is live has got in when the blocks are balanced                *)

AllBalanced ==
    \A b \in Blocks : Balanced(b) /\ assigned_regs[b] = Assigned(prog[b])

\* From instruction j of b on, v is read before it is assigned, or reaches
\* the end of b and is handed on.
Wanted(v, b, j) ==
    \/ \E m \in j..Len(prog[b]) :
          v \in Opr(prog[b][m]) /\ \A k \in j .. (m - 1) : v \notin Dst(prog[b][k])
    \/ v \in out_regs[b] /\ \A k \in j..Len(prog[b]) : v \notin Dst(prog[b][k])

\* What a block wants at its top is in in_regs, once it is balanced.
LEMMA WantedOnEntry ==
    ASSUME Code, AllBalanced, NEW v \in VRegs, NEW b \in Blocks, Wanted(v, b, 1)
    PROVE  v \in in_regs[b]
<1>1. in_regs[b] = UsedFirst(prog[b]) \cup (out_regs[b] \ Assigned(prog[b]))
  BY DEF AllBalanced, Balanced
<1>2. Wanted(v, b, 1) => v \in UsedFirst(prog[b]) \cup (out_regs[b] \ Assigned(prog[b]))
  BY DEF Wanted, UsedFirst, Assigned
<1> QED BY <1>1, <1>2

\* What is wanted after an instruction, or read by it, is wanted before it.
LEMMA WantedBefore ==
    ASSUME Code, NEW v, NEW b \in Blocks, NEW j \in 1..Len(prog[b]),
           v \notin Dst(prog[b][j]), Wanted(v, b, j + 1)
    PROVE  Wanted(v, b, j)
<1>1. Len(prog[b]) \in Nat /\ j \in Nat
  BY CodeTypes
<1>2. \A m : m \in (j + 1)..Len(prog[b]) => m \in j..Len(prog[b])
  BY <1>1
<1>3. \A m \in (j + 1)..Len(prog[b]) : \A k \in j .. (m - 1) : k = j \/ k \in (j + 1) .. (m - 1)
  BY <1>1
<1>4. \A k \in j..Len(prog[b]) : k = j \/ k \in (j + 1)..Len(prog[b])
  BY <1>1
<1>5. CASE \E m \in (j + 1)..Len(prog[b]) :
             v \in Opr(prog[b][m]) /\ \A k \in (j + 1) .. (m - 1) : v \notin Dst(prog[b][k])
  BY <1>2, <1>3, <1>5 DEF Wanted
<1>6. CASE v \in out_regs[b] /\ \A k \in (j + 1)..Len(prog[b]) : v \notin Dst(prog[b][k])
  BY <1>4, <1>6 DEF Wanted
<1> QED BY <1>5, <1>6 DEF Wanted

\* What a successor has in in_regs is in out_regs.
LEMMA HandedOn ==
    ASSUME AllBalanced, NEW b \in Blocks, NEW n \in NextBBs(b), NEW v, v \in in_regs[n]
    PROVE  v \in out_regs[b]
BY DEF AllBalanced, Balanced

\* Balanced blocks want every register at every point at which it is live.
LEMMA LiveIsWanted ==
    ASSUME Code, JumpsLast(prog), AllBalanced, NEW v \in VRegs,
           NEW b \in Blocks, NEW l \in 1 .. (Len(prog[b]) + 1), <<b, l>> \in LivePoints(v)
    PROVE  (l = Len(prog[b]) + 1 /\ EndsIn(b, {"JMP"})) \/ Wanted(v, b, l)
<1> DEFINE Wants(a, j) == (j = Len(prog[a]) + 1 /\ EndsIn(a, {"JMP"})) \/ Wanted(v, a, j)
           T == {p \in Points : Wants(p[1], p[2])}
<1>1. \A a \in Blocks : \A j \in 1 .. (Len(prog[a]) + 1) : <<a, j>> \in T <=> Wants(a, j)
  <2> HIDE DEF Wants
  <2> QED BY PointsAre
<1>2. \A p \in Points : \E a \in Blocks : \E j \in 1 .. (Len(prog[a]) + 1) : p = <<a, j>>
  BY PointsAre
<1>3. \A a \in Blocks : Len(prog[a]) \in Nat
  BY CodeTypes
<1>4. ASSUME NEW a \in Blocks, Entry(a) \in T PROVE v \in in_regs[a]
  <2>1. 1 \in 1 .. (Len(prog[a]) + 1)
    BY <1>3
  <2>2. Wants(a, 1)
    BY <1>1, <1>4, <2>1 DEF Entry
  <2>3. ~(1 = Len(prog[a]) + 1 /\ EndsIn(a, {"JMP"}))
    BY <1>3 DEF EndsIn
  <2> QED BY <2>2, <2>3, WantedOnEntry
<1> HIDE DEF T
<1>5. Uses(v) \subseteq T
  <2> SUFFICES ASSUME NEW p \in Uses(v) PROVE p \in T
    OBVIOUS
  <2>1. p \in Points /\ ~AtEnd(p) /\ v \in Opr(IrAt(p))
    BY DEF Uses
  <2>2. PICK a \in Blocks : \E j \in 1 .. (Len(prog[a]) + 1) : p = <<a, j>>
    BY <1>2, <2>1
  <2>3. PICK j \in 1 .. (Len(prog[a]) + 1) : p = <<a, j>>
    BY <2>2
  <2>4. j \in 1..Len(prog[a]) /\ j \in j..Len(prog[a]) /\ \A k \in j .. (j - 1) : FALSE
    <3>1. j # Len(prog[a]) + 1
      BY <2>1, <2>3 DEF AtEnd
    <3> QED BY <1>3, <3>1
  <2>5. v \in Opr(prog[a][j])
    BY <2>1, <2>3 DEF IrAt
  <2>6. Wanted(v, a, j)
    BY <2>4, <2>5 DEF Wanted
  <2> QED BY <1>1, <2>3, <2>6
<1>6. ASSUME NEW p \in Points \ Defs(v), NEW s \in SuccPoints(p), s \in T PROVE p \in T
  <2>1. PICK a \in Blocks : \E j \in 1 .. (Len(prog[a]) + 1) : p = <<a, j>>
    BY <1>2, <1>6
  <2>2. PICK j \in 1 .. (Len(prog[a]) + 1) : p = <<a, j>>
    BY <2>1
  <2>3. CASE j \in 1..Len(prog[a])
    <3>1. v \notin Dst(prog[a][j])
      <4>1. ~AtEnd(p) /\ IrAt(p) = prog[a][j]
        BY <2>2, <2>3, Steps
      <4> QED BY <1>6, <4>1 DEF Defs
    <3>2. CASE s = <<a, j + 1>> /\ prog[a][j].op # "JMP"
      <4>1. j + 1 \in 1 .. (Len(prog[a]) + 1)
        BY <1>3, <2>3
      <4>2. Wants(a, j + 1)
        BY <1>1, <1>6, <3>2, <4>1
      <4>3. ~(j + 1 = Len(prog[a]) + 1 /\ EndsIn(a, {"JMP"}))
        <5>1. j + 1 = Len(prog[a]) + 1 => j = Len(prog[a])
          BY <1>3, <2>3
        <5> QED BY <3>2, <5>1 DEF EndsIn, LastOf
      <4>4. Wanted(v, a, j)
        BY <2>3, <3>1, <4>2, <4>3, WantedBefore
      <4> QED BY <1>1, <2>2, <4>4
    <3>3. CASE s = Entry(prog[a][j].to) /\ prog[a][j].op \in {"JMP", "JCC"}
      <4>1. j = Len(prog[a]) /\ prog[a][j].to \in NextBBs(a) /\ prog[a][j].to \in Blocks
        BY <2>3, <3>3, LastJump, CodeTypes
      <4>2. v \in in_regs[prog[a][j].to]
        BY <1>4, <1>6, <3>3, <4>1
      <4>3. v \in out_regs[a]
        BY <4>1, <4>2, HandedOn
      <4>4. \A k \in j..Len(prog[a]) : k = j
        BY <1>3, <4>1
      <4>5. Wanted(v, a, j)
        BY <3>1, <4>3, <4>4 DEF Wanted
      <4> QED BY <1>1, <2>2, <4>5
    <3> QED BY <1>6, <2>2, <2>3, <3>2, <3>3, Steps
  <2>4. CASE j = Len(prog[a]) + 1
    <3>1. a + 1 \in Blocks /\ s = Entry(a + 1)
      BY <1>6, <2>2, <2>4, StepsAtEnd
    <3>2. v \in in_regs[a + 1]
      BY <1>4, <1>6, <3>1
    <3>3. CASE EndsIn(a, {"JMP"})
      BY <1>1, <2>2, <2>4, <3>3
    <3>4. CASE ~EndsIn(a, {"JMP"})
      <4>1. a + 1 \in NextBBs(a)
        BY <3>1, <3>4 DEF NextBBs
      <4>2. v \in out_regs[a]
        BY <3>2, <4>1, HandedOn
      <4>3. \A k \in j..Len(prog[a]) : FALSE
        BY <1>3, <2>4
      <4>4. Wanted(v, a, j)
        BY <4>2, <4>3 DEF Wanted
      <4> QED BY <1>1, <2>2, <4>4
    <3> QED BY <3>3, <3>4
  <2>5. j \in 1..Len(prog[a]) \/ j = Len(prog[a]) + 1
    BY <1>3
  <2> QED BY <2>3, <2>4, <2>5
<1>7. LivePoints(v) \subseteq T
  <2>1. \A p \in Points \ Defs(v) : SuccPoints(p) \cap T # {} => p \in T
    BY <1>6
  <2> QED BY <1>5, <2>1, LiveClosed
<1> QED BY <1>1, <1>7

\* So what is live on entry is in in_regs.
LEMMA LiveGetsIn ==
    ASSUME Code, JumpsLast(prog), AllBalanced, NEW v \in VRegs, NEW b \in Blocks,
           Entry(b) \in LivePoints(v)
    PROVE  v \in in_regs[b]
<1>1. Len(prog[b]) \in Nat /\ 1 \in 1 .. (Len(prog[b]) + 1)
  BY CodeTypes
<1>2. ~(1 = Len(prog[b]) + 1 /\ EndsIn(b, {"JMP"}))
  BY <1>1 DEF EndsIn
<1>3. Wanted(v, b, 1)
  BY <1>1, <1>2, LiveIsWanted DEF Entry
<1> QED BY <1>3, WantedOnEntry

\* Only the last instruction of a block jumps.
LEMMA NoJumpBefore ==
    ASSUME Code, JumpsLast(prog), NEW b \in Blocks, NEW j \in 1..Len(prog[b]),
           j # Len(prog[b]) \/ ~EndsIn(b, {"JMP"})
    PROVE  prog[b][j].op # "JMP"
<1>1. SUFFICES ASSUME prog[b][j].op = "JMP" PROVE FALSE
  OBVIOUS
<1>2. j = Len(prog[b]) /\ EndsIn(b, {"JMP"})
  BY <1>1, LastJump
<1> QED BY <1>2

\* The successors next_bbs lists are the ones execution goes on to.
LEMMA LeavesNext == ASSUME Code, JumpsLast(prog), NEW b \in Blocks PROVE Leaves(b) = NextBBs(b)
<1> DEFINE last == Len(prog[b])
<1>0. last \in Nat
  BY CodeTypes
<1>1. ASSUME NEW n \in Leaves(b) PROVE n \in NextBBs(b)
  <2>1. n \in Blocks
    BY <1>1 DEF Leaves
  <2>2. PICK j \in 1 .. (last + 1) : /\ \A k \in 1 .. (j - 1) : prog[b][k].op # "JMP"
                                     /\ Entry(n) \in SuccPoints(<<b, j>>)
    BY <1>1 DEF Leaves
  <2>3. CASE j \in 1..last
    <3>1. Entry(n) # <<b, j + 1>>
      <4>1. j + 1 # 1
        BY <1>0, <2>3
      <4> QED BY <4>1 DEF Entry
    <3>2. Entry(n) = Entry(prog[b][j].to) /\ prog[b][j].op \in {"JMP", "JCC"}
      BY <2>2, <2>3, <3>1, Steps
    <3>3. n = prog[b][j].to
      BY <3>2 DEF Entry
    <3> QED BY <2>3, <3>2, <3>3, LastJump
  <2>4. CASE j = last + 1
    <3>1. Entry(n) = Entry(b + 1)
      BY <2>2, <2>4, StepsAtEnd
    <3>2. n = b + 1
      BY <3>1 DEF Entry
    <3>3. ~EndsIn(b, {"JMP"})
      <4>1. last > 0 => last \in 1 .. (j - 1)
        BY <1>0, <2>4
      <4> QED BY <2>2, <4>1 DEF EndsIn, LastOf
    <3> QED BY <2>1, <3>2, <3>3 DEF NextBBs
  <2>5. j \in 1..last \/ j = last + 1
    BY <1>0
  <2> QED BY <2>3, <2>4, <2>5
<1>2. ASSUME NEW n \in NextBBs(b) PROVE n \in Leaves(b)
  <2>1. n \in Blocks
    BY <1>2 DEF NextBBs
  <2>2. CASE n = b + 1 /\ ~EndsIn(b, {"JMP"})
    <3> DEFINE j == last + 1
    <3>1. j \in 1 .. (last + 1) /\ \A k \in 1 .. (j - 1) : k \in 1..last
      BY <1>0
    <3>2. Entry(n) \in SuccPoints(<<b, j>>)
      BY <2>1, <2>2, StepsAtEnd
    <3>3. \A k \in 1 .. (j - 1) : prog[b][k].op # "JMP"
      BY <2>2, <3>1, NoJumpBefore
    <3> HIDE DEF j
    <3> QED BY <2>1, <3>1, <3>2, <3>3 DEF Leaves
  <2>3. CASE EndsIn(b, {"JMP", "JCC"}) /\ n = LastOf(b).to
    <3>1. last \in 1..last /\ last \in 1 .. (last + 1) /\ LastOf(b) = prog[b][last]
      BY <1>0, <2>3 DEF EndsIn, LastOf
    <3>2. Entry(n) \in SuccPoints(<<b, last>>)
      BY <2>3, <3>1, Steps DEF EndsIn
    <3>3. \A k \in 1 .. (last - 1) : k \in 1..last /\ k # last
      BY <1>0
    <3>4. \A k \in 1 .. (last - 1) : prog[b][k].op # "JMP"
      BY <3>3, NoJumpBefore
    <3> HIDE DEF last
    <3> QED BY <2>1, <3>1, <3>2, <3>4 DEF Leaves, last
  <2> QED BY <1>2, <2>2, <2>3 DEF NextBBs
<1> QED BY <1>1, <1>2

\* Balanced sets that hold nothing but what is live are liveness.
LEMMA BalancedIsLiveness ==
    ASSUME FlowInv, JumpsLast(prog), LiveOnly, flow = "done"
    PROVE  SetsAreLiveness
<1>1. /\ Code
      /\ in_regs \in [Blocks -> SUBSET VRegs] /\ out_regs \in [Blocks -> SUBSET VRegs]
  BY DEF FlowInv, FlowTypeOK, Code
<1>2. AllBalanced
  BY DEF AllBalanced, FlowInv, FlowBalanced, LiveOnly
<1>3. ASSUME NEW v \in VRegs, NEW b \in Blocks
      PROVE  v \in in_regs[b] <=> Entry(b) \in LivePoints(v)
  BY <1>1, <1>2, LiveGetsIn DEF LiveOnly
<1>4. ASSUME NEW v \in VRegs, NEW b \in Blocks
      PROVE  v \in out_regs[b] <=> \E n \in Leaves(b) : Entry(n) \in LivePoints(v)
  <2>1. out_regs[b] = UNION {in_regs[n] : n \in NextBBs(b)} /\ NextBBs(b) \subseteq Blocks
    BY <1>2 DEF AllBalanced, Balanced, NextBBs
  <2>2. Leaves(b) = NextBBs(b)
    BY <1>1, LeavesNext
  <2> QED BY <1>3, <2>1, <2>2
<1> QED BY <1>3, <1>4 DEF SetsAreLiveness

\* What analyze_reg_flow hands on to the register allocator is liveness,
\* for every program whose blocks jump only at the bottom, as ir.h says they
\* do: in_regs and out_regs hold the registers whose values are still read
\* after the boundary, and no others.
THEOREM RegFlowIsLiveness ==
    ASSUME \A p \in Programs : JumpsLast(p)
    PROVE  FlowSpec => FlowIsLiveness
<1>1. FlowInit => JumpsLast(prog)
  BY DEF FlowInit
<1>2. JumpsLast(prog) /\ [FlowNext]_flowVars => JumpsLast(prog)'
  BY NextKeepsProg DEF JumpsLast
<1>3. FlowInv /\ JumpsLast(prog) /\ LiveOnly /\ [FlowNext]_flowVars => LiveOnly'
  BY NextLiveOnly
<1>4. FlowInv /\ JumpsLast(prog) /\ LiveOnly /\ flow = "done" => SetsAreLiveness
  BY BalancedIsLiveness
<1>5. (FlowInv /\ JumpsLast(prog) /\ LiveOnly /\ flow = "done")' => SetsAreLiveness'
  BY <1>4, PTL
<1>6. FlowInv' /\ JumpsLast(prog)' /\ LiveOnly' =>
        [(flow # "done" /\ flow' = "done") => SetsAreLiveness']_flowVars
  BY <1>5
<1> QED
  BY <1>1, <1>2, <1>3, <1>6, InitFlowInv, NextFlowInv, InitLiveOnly, PTL
     DEF FlowSpec, FlowIsLiveness, FlowInit

-----------------------------------------------------------------------------
(* Positions in the program                                                *)

Sums(h, n) == h = [b \in 0..n |-> IF b = 0 THEN 0 ELSE h[b - 1] + Len(prog[b])]

\* The recursive function by which Before is defined is one.
LEMMA SumsExist == ASSUME NEW n \in Nat PROVE \E h : Sums(h, n)
<1> DEFINE T == {m \in Nat : \E h : Sums(h, m)}
<1>1. 0 \in T
  <2>1. Sums([b \in 0..0 |-> 0], 0)
    BY DEF Sums
  <2> QED BY <2>1
<1>2. ASSUME NEW m \in Nat, m < n, m \in T PROVE m + 1 \in T
  <2>1. PICK h : Sums(h, m)
    BY <1>2
  <2> DEFINE g == [b \in 0 .. (m + 1) |->
                     IF b = m + 1 THEN h[m] + Len(prog[b]) ELSE h[b]]
  <2>2. ASSUME NEW b \in 0 .. (m + 1)
        PROVE  g[b] = IF b = 0 THEN 0 ELSE g[b - 1] + Len(prog[b])
    <3>1. CASE b = m + 1
      <4>1. g[m] = h[m] /\ b - 1 = m /\ b # 0
        BY <3>1
      <4> QED BY <3>1, <4>1
    <3>2. CASE b = 0
      BY <2>1, <3>2 DEF Sums
    <3>3. CASE b # 0 /\ b # m + 1
      <4>1. b \in 0..m /\ b - 1 \in 0 .. (m + 1) /\ b - 1 # m + 1
        BY <3>3
      <4>2. h[b] = h[b - 1] + Len(prog[b])
        BY <2>1, <3>3, <4>1 DEF Sums
      <4> QED BY <3>3, <4>1, <4>2
    <3> QED BY <3>1, <3>2, <3>3
  <2>3. Sums(g, m + 1)
    BY <2>2 DEF Sums
  <2> QED BY <2>3
<1> HIDE DEF T
<1>3. n \in T
  BY <1>1, <1>2, Induct
<1> QED BY <1>3 DEF T

\* Before counts the instructions of the blocks before.
BeforeIs ==
    /\ Before[0] = 0
    /\ \A b \in Blocks : Before[b] = Before[b - 1] + Len(prog[b])
    /\ \A b \in 0..NB : Before[b] \in Nat

\* Before[b] is the length of the first b blocks.
LEMMA CodeBefore == Code => BeforeIs
<1> SUFFICES ASSUME Code PROVE BeforeIs
  OBVIOUS
<1>0. NB \in Nat /\ Blocks = 1..NB /\ \A b \in Blocks : Len(prog[b]) \in Nat
  BY FlowAssumption, CodeTypes DEF Blocks
<1> DEFINE Is(h) == h = [b \in 0..NB |-> IF b = 0 THEN 0 ELSE h[b - 1] + Len(prog[b])]
           B == CHOOSE h : Is(h)
<1>1. Before = B
  BY DEF Before
<1>2. \A h : Is(h) <=> Sums(h, NB)
  BY DEF Sums
<1>3. \E h : Sums(h, NB)
  BY <1>0, SumsExist
<1> HIDE DEF Is
<1>4. Sums(B, NB)
  BY <1>2, <1>3
<1> HIDE DEF B
<1>5. /\ B[0] = 0
      /\ \A b \in Blocks : B[b] = B[b - 1] + Len(prog[b])
  BY <1>0, <1>4 DEF Sums
<1> DEFINE T == {b \in Nat : b <= NB => B[b] \in Nat}
<1>6. 0 \in T
  BY <1>5
<1>7. ASSUME NEW b \in Nat, b < NB, b \in T PROVE b + 1 \in T
  <2>1. b + 1 \in Blocks /\ (b + 1) - 1 = b /\ B[b] \in Nat
    BY <1>0, <1>7
  <2>2. B[b + 1] = B[b] + Len(prog[b + 1]) /\ Len(prog[b + 1]) \in Nat
    BY <1>0, <1>5, <2>1
  <2> QED BY <2>1, <2>2
<1> HIDE DEF T
<1>8. \A b \in 0..NB : b \in T
  BY <1>0, <1>6, <1>7, Induct
<1>9. \A b \in 0..NB : B[b] \in Nat
  BY <1>8 DEF T
<1> QED BY <1>1, <1>5, <1>9 DEF BeforeIs

\* No block starts after the end of the program.
LEMMA BeforeGrows == ASSUME Code, NEW b \in 0..NB PROVE Before[b] <= Before[NB]
<1>0. /\ NB \in Nat /\ Blocks = 1..NB /\ \A c \in Blocks : Len(prog[c]) \in Nat
      /\ BeforeIs
  BY FlowAssumption, CodeTypes, CodeBefore DEF Blocks
<1> DEFINE T == {m \in Nat : m <= NB => Before[NB - m] <= Before[NB]}
<1>1. 0 \in T
  <2>1. NB - 0 = NB /\ Before[NB] \in Nat
    BY <1>0 DEF BeforeIs
  <2> QED BY <2>1
<1>2. ASSUME NEW m \in Nat, m < NB, m \in T PROVE m + 1 \in T
  <2> DEFINE c == NB - m
  <2>1. c \in Blocks /\ c - 1 = NB - (m + 1) /\ c - 1 \in 0..NB /\ c \in 0..NB
    BY <1>0, <1>2
  <2>2. Before[c] <= Before[NB]
    BY <1>0, <1>2
  <2> HIDE DEF c
  <2>3. Before[c] = Before[c - 1] + Len(prog[c]) /\ Before[c - 1] \in Nat /\ Before[c] \in Nat
    BY <1>0, <2>1 DEF BeforeIs
  <2>4. Before[NB] \in Nat /\ Len(prog[c]) \in Nat
    BY <1>0, <2>1 DEF BeforeIs
  <2>5. Before[c - 1] <= Before[NB]
    BY <2>2, <2>3, <2>4
  <2> QED BY <2>1, <2>5
<1> HIDE DEF T
<1>3. NB - b \in T
  <2>1. NB - b \in 0..NB
    BY <1>0
  <2> QED BY <1>0, <1>1, <1>2, <2>1, Induct
<1>4. NB - (NB - b) = b /\ NB - b <= NB
  BY <1>0
<1> QED BY <1>3, <1>4 DEF T

\* It is the program alone that says where the instructions are.
LEMMA BeforeStays == Code /\ prog' = prog => \A b \in 0..NB : Before'[b] = Before[b]
<1>1. Code' => BeforeIs'
  BY CodeBefore, PTL
<1> SUFFICES ASSUME Code, prog' = prog PROVE \A b \in 0..NB : Before'[b] = Before[b]
  OBVIOUS
<1>2. BeforeIs /\ BeforeIs'
  BY <1>1, CodeBefore DEF Code
<1>0. NB \in Nat /\ Blocks = 1..NB
  BY FlowAssumption DEF Blocks
<1> DEFINE new == Before'
           old == Before
<1>3. /\ old[0] = 0 /\ \A b \in Blocks : old[b] = old[b - 1] + Len(prog[b])
      /\ new[0] = 0 /\ \A b \in Blocks : new[b] = new[b - 1] + Len(prog[b])
  BY <1>2 DEF BeforeIs
<1> HIDE DEF new, old
<1> DEFINE T == {b \in Nat : b <= NB => new[b] = old[b]}
<1>4. 0 \in T
  BY <1>3
<1>5. ASSUME NEW b \in Nat, b < NB, b \in T PROVE b + 1 \in T
  <2>1. b + 1 \in Blocks /\ (b + 1) - 1 = b /\ new[b] = old[b]
    BY <1>0, <1>5
  <2> QED BY <1>3, <2>1
<1> HIDE DEF T
<1>6. \A b \in 0..NB : b \in T
  BY <1>0, <1>4, <1>5, Induct
<1> QED BY <1>6 DEF T, new, old

-----------------------------------------------------------------------------
\* The number of an instruction is that of its block and its place in it.
LEMMA NipIs ==
    ASSUME Code, NEW b \in Blocks, NEW j \in 1 .. (Len(prog[b]) + 1)
    PROVE  /\ Nip(<<b, j>>) = Before[b - 1] + j - 1
           /\ Nip(<<b, j>>) \in Nat
           /\ Before[b - 1] \in Nat /\ Before[b] = Before[b - 1] + Len(prog[b])
           /\ Nip(<<b, j>>) <= Before[NB]
<1>1. Nip(<<b, j>>) = Before[b - 1] + j - 1
  BY DEF Nip
<1>2. b - 1 \in 0..NB /\ b \in 0..NB /\ Len(prog[b]) \in Nat /\ NB \in 0..NB
  BY FlowAssumption, CodeTypes DEF Blocks
<1>3. /\ Before[b - 1] \in Nat /\ Before[b] = Before[b - 1] + Len(prog[b])
      /\ Before[NB] \in Nat
  BY <1>2, CodeBefore DEF BeforeIs
<1>4. Before[b] <= Before[NB]
  BY <1>2, BeforeGrows
<1>5. Before[b - 1] + j - 1 <= Before[b]
  BY <1>2, <1>3
<1> QED BY <1>1, <1>2, <1>3, <1>4, <1>5

\* Where a register is mentioned, one by one.
LEMMA MentionedIs ==
    ASSUME Code, NEW v
    PROVE  /\ \A b \in Blocks : \A j \in 1..Len(prog[b]) :
                v \in Opr(prog[b][j]) \cup Dst(prog[b][j]) => Nip(<<b, j>>) \in Mentioned(v)
           /\ \A b \in Blocks : v \in in_regs[b] => Before[b - 1] \in Mentioned(v)
           /\ \A b \in Blocks : v \in out_regs[b] => Before[b] \in Mentioned(v)
           /\ Mentioned(v) \subseteq 0 .. Before[NB]
<1>0. NB \in Nat /\ Blocks = 1..NB /\ Before[NB] \in Nat
  BY FlowAssumption, CodeBefore DEF Blocks, BeforeIs
<1>1. ASSUME NEW b \in Blocks, NEW j \in 1..Len(prog[b]), v \in Opr(prog[b][j]) \cup Dst(prog[b][j])
      PROVE  Nip(<<b, j>>) \in Mentioned(v)
  <2>1. <<b, j>> \in Points /\ ~AtEnd(<<b, j>>) /\ IrAt(<<b, j>>) = prog[b][j]
    BY Steps
  <2> QED BY <1>1, <2>1 DEF Mentioned, MentionedInCode
<1>2. ASSUME NEW p \in Points PROVE Nip(p) \in 0 .. Before[NB]
  <2>1. PICK b \in Blocks : \E j \in 1 .. (Len(prog[b]) + 1) : p = <<b, j>>
    BY PointsAre
  <2>2. PICK j \in 1 .. (Len(prog[b]) + 1) : p = <<b, j>>
    BY <2>1
  <2> QED BY <1>0, <2>2, NipIs
<1>3. ASSUME NEW b \in 0..NB PROVE Before[b] \in 0 .. Before[NB]
  <2>1. Before[b] \in Nat /\ Before[b] <= Before[NB]
    BY CodeBefore, BeforeGrows DEF BeforeIs
  <2> QED BY <1>0, <2>1
<1>4. \A b \in Blocks : b - 1 \in 0..NB /\ b \in 0..NB
  BY <1>0
<1>5. Mentioned(v) \subseteq 0 .. Before[NB]
  BY <1>2, <1>3, <1>4 DEF Mentioned, MentionedInCode
<1> QED BY <1>1, <1>5 DEF Mentioned

\* What mentions a register is a matter of the code and its flow sets.
LEMMA MentionedStays ==
    Code /\ prog' = prog /\ in_regs' = in_regs /\ out_regs' = out_regs
        => /\ \A v : Mentioned(v)' = Mentioned(v)
           /\ \A p \in Points : Nip(p)' = Nip(p)
<1> SUFFICES ASSUME Code, prog' = prog, in_regs' = in_regs, out_regs' = out_regs
             PROVE  /\ \A v : Mentioned(v)' = Mentioned(v)
                    /\ \A p \in Points : Nip(p)' = Nip(p)
  OBVIOUS
<1>0. \A b \in Blocks : b - 1 \in 0..NB /\ b \in 0..NB
  BY FlowAssumption DEF Blocks
<1>1. \A b \in 0..NB : Before'[b] = Before[b]
  BY BeforeStays
<1>2. ASSUME NEW p \in Points PROVE Nip(p)' = Nip(p)
  <2>1. PICK b \in Blocks : \E j \in 1 .. (Len(prog[b]) + 1) : p = <<b, j>>
    BY PointsAre
  <2>2. p[1] = b
    BY <2>1
  <2> QED BY <1>0, <1>1, <2>2 DEF Nip
<1>3. Points' = Points /\ \A p : AtEnd(p)' = AtEnd(p) /\ IrAt(p)' = IrAt(p)
  BY DEF Points, AtEnd, IrAt
<1>4. ASSUME NEW v PROVE Mentioned(v)' = Mentioned(v)
  <2>1. MentionedInCode(v)' = MentionedInCode(v)
    BY <1>2, <1>3 DEF MentionedInCode
  <2>2. \A b \in Blocks : Before'[b - 1] = Before[b - 1] /\ Before'[b] = Before[b]
    BY <1>0, <1>1
  <2>3. {Before'[b - 1] : b \in {c \in Blocks : v \in in_regs[c]}}
          = {Before[b - 1] : b \in {c \in Blocks : v \in in_regs[c]}}
    BY <2>2
  <2>4. {Before'[b] : b \in {c \in Blocks : v \in out_regs[c]}}
          = {Before[b] : b \in {c \in Blocks : v \in out_regs[c]}}
    BY <2>2
  <2> QED BY <2>1, <2>3, <2>4 DEF Mentioned
<1> QED BY <1>2, <1>4

\* The least element of a finite set of numbers.
LEMMA MinOf ==
    ASSUME NEW S \in SUBSET Nat, S # {}
    PROVE  Min(S) \in S /\ \A m \in S : Min(S) <= m
<1>1. \E n \in S : \A m \in S : n <= m
  BY Least
<1> QED BY <1>1 DEF Min

\* The greatest.
LEMMA MaxOf ==
    ASSUME NEW top \in Nat, NEW S \in SUBSET (0..top), S # {}
    PROVE  Max(S) \in S /\ \A m \in S : m <= Max(S)
<1> DEFINE R == {top - m : m \in S}
<1>1. R \in SUBSET Nat /\ R # {}
  OBVIOUS
<1> HIDE DEF R
<1>2. PICK r \in R : \A q \in R : r <= q
  BY <1>1, Least
<1>3. PICK n \in S : r = top - n
  BY DEF R
<1>4. \A m \in S : n >= m
  <2>1. ASSUME NEW m \in S PROVE n >= m
    <3>1. top - m \in R
      BY DEF R
    <3>2. top - n <= top - m
      BY <1>2, <1>3, <3>1
    <3> QED BY <3>2
  <2> QED BY <2>1
<1>5. Max(S) \in S /\ \A m \in S : Max(S) >= m
  BY <1>4 DEF Max
<1> QED BY <1>5

\* An interval covers all that mentions its register.
LEMMA IntervalCovers ==
    ASSUME Code, NEW v
    PROVE  /\ StartOf(v) \in Int /\ EndOf(v) \in Int /\ StartOf(v) <= EndOf(v)
           /\ StartOf(v) >= 0 \/ EndOf(v) = -1
           /\ \A n \in Mentioned(v) : n \in Nat /\ StartOf(v) <= n /\ n <= EndOf(v)
<1> DEFINE S == Mentioned(v)
<1>1. S \subseteq 0 .. Before[NB] /\ Before[NB] \in Nat
  BY MentionedIs, CodeBefore, FlowAssumption DEF BeforeIs
<1>2. /\ StartOf(v) = IF S = {} THEN -1 ELSE Min(S)
      /\ EndOf(v) = IF S = {} THEN -1 ELSE Max(S)
  BY DEF StartOf, EndOf
<1> HIDE DEF S
<1>3. CASE S = {}
  BY <1>2, <1>3 DEF S
<1>4. CASE S # {}
  <2> DEFINE top == Before[NB]
  <2>1. S \in SUBSET Nat /\ top \in Nat /\ S \in SUBSET (0..top)
    BY <1>1
  <2> HIDE DEF top
  <2>2. Min(S) \in S /\ \A m \in S : Min(S) <= m
    BY <1>4, <2>1, MinOf
  <2>3. Max(S) \in S /\ \A m \in S : m <= Max(S)
    BY <1>4, <2>1, MaxOf
  <2> QED BY <1>1, <1>2, <1>4, <2>1, <2>2, <2>3 DEF S
<1> QED BY <1>3, <1>4

-----------------------------------------------------------------------------
(* Where the value of a register is still read, its interval goes on       *)

\* A register that is live at a point has been met there or before it.
LEMMA LiveStart ==
    ASSUME Code, JumpsLast(prog), SetsAreLiveness, NEW v \in VRegs,
           NEW b \in Blocks, NEW j \in 1..Len(prog[b]), <<b, j>> \in LivePoints(v)
    PROVE  \E n \in Mentioned(v) : n <= Nip(<<b, j>>) /\ (j # 1 => n < Nip(<<b, j>>))
<1>0. /\ Len(prog[b]) \in Nat /\ j \in 1 .. (Len(prog[b]) + 1)
      /\ \A k \in 1 .. (j - 1) : k \in 1..Len(prog[b]) /\ k \in 1 .. (Len(prog[b]) + 1)
  BY CodeTypes
<1>1. Before[b - 1] \in Nat /\ Nip(<<b, j>>) = Before[b - 1] + j - 1
  BY <1>0, NipIs
<1>2. CASE \E k \in 1 .. (j - 1) : v \in Dst(prog[b][k])
  <2>1. PICK k \in 1 .. (j - 1) : v \in Dst(prog[b][k])
    BY <1>2
  <2>2. Nip(<<b, k>>) \in Mentioned(v)
    BY <1>0, <2>1, MentionedIs
  <2>3. Nip(<<b, k>>) = Before[b - 1] + k - 1
    BY <1>0, NipIs
  <2>4. Nip(<<b, k>>) < Nip(<<b, j>>)
    BY <1>0, <1>1, <2>3
  <2> QED BY <1>1, <2>2, <2>3, <2>4
<1>3. CASE \A k \in 1 .. (j - 1) : v \notin Dst(prog[b][k])
  <2>1. Entry(b) \in LivePoints(v)
    BY <1>0, <1>3, LiveOnEntry
  <2>2. Before[b - 1] \in Mentioned(v)
    BY <2>1, MentionedIs DEF SetsAreLiveness
  <2> QED BY <1>0, <1>1, <2>2
<1> QED BY <1>2, <1>3

\* A register that is live at a point is met again, there or after it.
LEMMA LiveEnd ==
    ASSUME Code, JumpsLast(prog), AllBalanced, NEW v \in VRegs,
           NEW b \in Blocks, NEW j \in 1..Len(prog[b]),
           NEW q \in SuccPoints(<<b, j>>), q \in LivePoints(v)
    PROVE  \E n \in Mentioned(v) : Nip(<<b, j>>) + 1 <= n
<1>0. /\ Len(prog[b]) \in Nat /\ j \in 1 .. (Len(prog[b]) + 1)
      /\ j + 1 \in 1 .. (Len(prog[b]) + 1)
  BY CodeTypes
<1>1. /\ Before[b - 1] \in Nat /\ Nip(<<b, j>>) = Before[b - 1] + j - 1
      /\ Before[b] = Before[b - 1] + Len(prog[b])
  BY <1>0, NipIs
<1>2. CASE v \in out_regs[b]
  <2>1. Before[b] \in Mentioned(v)
    BY <1>2, MentionedIs
  <2> QED BY <1>0, <1>1, <2>1
<1>3. CASE q = <<b, j + 1>> /\ prog[b][j].op # "JMP"
  <2>1. ~(j + 1 = Len(prog[b]) + 1 /\ EndsIn(b, {"JMP"}))
    <3>1. j + 1 = Len(prog[b]) + 1 => j = Len(prog[b])
      BY <1>0
    <3> QED BY <1>3, <3>1 DEF EndsIn, LastOf
  <2>2. Wanted(v, b, j + 1)
    BY <1>0, <1>3, <2>1, LiveIsWanted
  <2>3. CASE \E m \in (j + 1)..Len(prog[b]) : v \in Opr(prog[b][m])
    <3>1. PICK m \in (j + 1)..Len(prog[b]) : v \in Opr(prog[b][m])
      BY <2>3
    <3>2. m \in 1..Len(prog[b]) /\ m \in 1 .. (Len(prog[b]) + 1)
      BY <1>0
    <3>3. Nip(<<b, m>>) \in Mentioned(v) /\ Nip(<<b, m>>) = Before[b - 1] + m - 1
      BY <3>1, <3>2, MentionedIs, NipIs
    <3>4. Nip(<<b, j>>) + 1 <= Nip(<<b, m>>)
      BY <1>0, <1>1, <3>3
    <3> QED BY <3>3, <3>4
  <2> QED BY <1>2, <2>2, <2>3 DEF Wanted
<1>4. CASE q = Entry(prog[b][j].to) /\ prog[b][j].op \in {"JMP", "JCC"}
  <2>1. prog[b][j].to \in NextBBs(b) /\ prog[b][j].to \in Blocks
    BY <1>4, LastJump, CodeTypes
  <2>2. v \in in_regs[prog[b][j].to]
    BY <1>4, <2>1, LiveGetsIn
  <2>3. v \in out_regs[b]
    BY <2>1, <2>2, HandedOn
  <2> QED BY <1>2, <2>3
<1> QED BY <1>3, <1>4, Steps

-----------------------------------------------------------------------------
(* The program converted to two addresses                                  *)

\* convert_3to2 makes instructions of instructions.
LEMMA OperateIs == ASSUME NEW ir \in Instr PROVE Operate(ir) \in Seq(Instr)
<1> DEFINE first == [ir EXCEPT !.op = "OP", !.opr2 = None]
           second == [ir EXCEPT !.opr1 = ir.dst]
<1>1. first \in Instr /\ second \in Instr
  BY DEF Instr
<1> HIDE DEF first, second
<1>2. << first, second >> \in Seq(Instr) /\ << ir >> \in Seq(Instr)
  BY <1>1
<1>3. Operate(ir) = IF ir.op = "BOP" THEN << first, second >> ELSE << ir >>
  BY DEF Operate, first, second
<1> QED BY <1>2, <1>3

\* The first n parts of s, joined.
Joins(h, s, n) == h = [k \in 1..n |-> IF k = 1 THEN s[k] ELSE h[k - 1] \o s[k]]

\* The recursive function by which FlattenSeq is defined is one.
LEMMA JoinsExist == ASSUME NEW s, NEW n \in Nat PROVE \E h : Joins(h, s, n)
<1> DEFINE T == {m \in Nat : \E h : Joins(h, s, m)}
<1>1. 0 \in T
  <2>1. Joins([k \in 1..0 |-> s], s, 0)
    BY DEF Joins
  <2> QED BY <2>1
<1>2. ASSUME NEW m \in Nat, m < n, m \in T PROVE m + 1 \in T
  <2>1. PICK h : Joins(h, s, m)
    BY <1>2
  <2> DEFINE g == [k \in 1 .. (m + 1) |->
                     IF k = m + 1 THEN (IF k = 1 THEN s[k] ELSE h[m] \o s[k]) ELSE h[k]]
  <2>2. ASSUME NEW k \in 1 .. (m + 1)
        PROVE  g[k] = IF k = 1 THEN s[k] ELSE g[k - 1] \o s[k]
    <3>1. CASE k = m + 1 /\ k # 1
      <4>1. g[m] = h[m] /\ k - 1 = m
        BY <3>1
      <4> QED BY <3>1, <4>1
    <3>2. CASE k = 1
      BY <2>1, <3>2 DEF Joins
    <3>3. CASE k # 1 /\ k # m + 1
      <4>1. k \in 1..m /\ k - 1 \in 1 .. (m + 1) /\ k - 1 # m + 1
        BY <3>3
      <4>2. h[k] = h[k - 1] \o s[k]
        BY <2>1, <3>3, <4>1 DEF Joins
      <4> QED BY <3>3, <4>1, <4>2
    <3> QED BY <3>1, <3>2, <3>3
  <2>3. Joins(g, s, m + 1)
    BY <2>2 DEF Joins
  <2> QED BY <2>3
<1> HIDE DEF T
<1>3. n \in T
  BY <1>1, <1>2, Induct
<1> QED BY <1>3 DEF T

\* Joining sequences of instructions makes one.
LEMMA FlattenSeqIs ==
    ASSUME NEW S, NEW s \in Seq(Seq(S)) PROVE FlattenSeq(s) \in Seq(S)
<1> DEFINE n == Len(s)
           Is(h) == h = [k \in 1..n |-> IF k = 1 THEN s[k] ELSE h[k - 1] \o s[k]]
           F == CHOOSE h : Is(h)
<1>1. n \in Nat
  OBVIOUS
<1>2. CASE n = 0
  <2>1. FlattenSeq(s) = s /\ s = << >>
    BY <1>2 DEF FlattenSeq
  <2> QED BY <2>1
<1>3. CASE n # 0
  <2>1. FlattenSeq(s) = F[n]
    BY <1>3 DEF FlattenSeq
  <2>2. \A h : Is(h) <=> Joins(h, s, n)
    BY DEF Joins
  <2>3. \E h : Joins(h, s, n)
    BY <1>1, JoinsExist
  <2>4. \A k \in 1..n : s[k] \in Seq(S)
    OBVIOUS
  <2> HIDE DEF Is, n
  <2>5. Joins(F, s, n)
    BY <2>2, <2>3
  <2> HIDE DEF F
  <2> DEFINE T == {k \in Nat : k + 1 <= n => F[k + 1] \in Seq(S)}
  <2>6. 0 \in T
    BY <1>1, <2>4, <2>5 DEF Joins
  <2>7. ASSUME NEW k \in Nat, k < n - 1, k \in T PROVE k + 1 \in T
    <3>1. /\ (k + 1) + 1 \in 1..n /\ (k + 1) + 1 # 1 /\ ((k + 1) + 1) - 1 = k + 1
          /\ F[k + 1] \in Seq(S)
      BY <1>1, <2>7
    <3>2. F[(k + 1) + 1] = F[k + 1] \o s[(k + 1) + 1]
      BY <2>5, <3>1 DEF Joins
    <3>3. s[(k + 1) + 1] \in Seq(S)
      BY <2>4, <3>1
    <3>4. \A x, y \in Seq(S) : x \o y \in Seq(S)
      OBVIOUS
    <3>5. F[(k + 1) + 1] \in Seq(S)
      BY <3>1, <3>2, <3>3, <3>4
    <3> QED BY <3>5
  <2> HIDE DEF T
  <2>8. n - 1 \in T
    <3>1. n - 1 \in 0 .. (n - 1) /\ n - 1 \in Nat
      BY <1>1, <1>3
    <3> QED BY <2>6, <2>7, <3>1, Induct
  <2>9. F[(n - 1) + 1] \in Seq(S) /\ (n - 1) + 1 = n
    BY <1>1, <2>8 DEF T
  <2> QED BY <2>1, <2>9
<1> QED BY <1>2, <1>3

\* Every converted program is made of instructions.
LEMMA ConvertedAre == Converted \subseteq [Blocks -> Seq(Instr)]
<1> SUFFICES ASSUME NEW p \in Programs, NEW b \in Blocks PROVE TwoAddress(p[b]) \in Seq(Instr)
  BY DEF Converted
<1>1. p[b] \in Seq(Instr)
  BY FlowAssumption
<1> DEFINE irs == p[b]
           parts == [j \in 1..Len(irs) |-> Operate(irs[j])]
<1>2. parts \in Seq(Seq(Instr))
  <2>1. \A j \in 1..Len(irs) : Operate(irs[j]) \in Seq(Instr)
    BY <1>1, OperateIs
  <2>2. Len(irs) \in Nat
    BY <1>1
  <2> HIDE DEF irs
  <2> QED BY <2>1, <2>2
<1>3. TwoAddress(irs) = FlattenSeq(parts)
  BY DEF TwoAddress
<1> HIDE DEF parts
<1> QED BY <1>2, <1>3, FlattenSeqIs

-----------------------------------------------------------------------------
(* The sorted intervals                                                    *)

\* Every interval belongs to a register of its own, and none is left out.
VirtIs ==
    /\ virt \in [Ranks -> VRegs]
    /\ \A a, c \in Ranks : virt[a] = virt[c] => a = c
    /\ \A v \in VRegs : \E a \in Ranks : virt[a] = v

\* What the scan starts from, and that it marks what it spills.
Marked ==
    \A a \in Ranks :
        /\ itv[a].file = "ireg"
        /\ state[a] = "NORMAL" \/ (state[a] = "SPILL" /\ phys[a] = Spilled)
        /\ itv[a].kind = "SPILL" => state[a] = "SPILL"

\* An interval lasts as long as its register is mentioned.
Covering ==
    \A a \in Ranks : itv[a].kind = "NORMAL" =>
        \A n \in Mentioned(virt[a]) : itv[a].start <= n /\ n <= itv[a].end

\* ra->vregs holds every register once.
LEMMA VregListIs ==
    /\ VregList \in [Ranks -> VRegs]
    /\ \A a, c \in Ranks : VregList[a] = VregList[c] => a = c
<1> DEFINE F == [1..Cardinality(VRegs) -> VRegs]
<1>1. IsFiniteSet(VRegs) /\ Ranks = 1..Cardinality(VRegs)
  BY AllocAssumption DEF Ranks
<1>2. ExistsBijection(1..Cardinality(VRegs), VRegs)
  BY <1>1, FS_CardinalityType
<1>3. \E f \in F : IsInjective(f)
  BY <1>2 DEF ExistsBijection, Bijection, Injection
<1>4. VregList = CHOOSE f \in F : IsInjective(f)
  BY DEF VregList, SetToSeq
<1> HIDE DEF F
<1>5. VregList \in F /\ IsInjective(VregList)
  BY <1>3, <1>4
<1> QED BY <1>1, <1>5 DEF F, IsInjective

\* As many positions as registers: an order leaves none out.
LEMMA NoneLeftOut ==
    ASSUME NEW w \in [Ranks -> VRegs], \A a, c \in Ranks : w[a] = w[c] => a = c
    PROVE  \A v \in VRegs : \E a \in Ranks : w[a] = v
<1>1. w \in Injection(Ranks, VRegs)
  BY DEF Injection, IsInjective
<1>2. Cardinality(Ranks) = Cardinality(VRegs)
  <2>1. 1 \in Int /\ N \in Int /\ N \in Nat
    BY ScanAssumption
  <2>2. Cardinality(1..N) = IF 1 > N THEN 0 ELSE N - 1 + 1
    BY <2>1, FS_Interval
  <2>3. Cardinality(1..N) = N
    BY <2>1, <2>2
  <2> QED BY <2>3, AllocAssumption DEF Ranks
<1>3. w \in Surjection(Ranks, VRegs)
  BY <1>1, <1>2, FS_Injection, AllocAssumption
<1> QED BY <1>3 DEF Surjection

\* What an order of sorting is.
LEMMA OrdersAre ==
    ASSUME NEW s \in Orders
    PROVE  LET w == [a \in 1..N |-> VregList[s[a]]]
           IN  /\ w \in [Ranks -> VRegs]
               /\ \A a, c \in Ranks : w[a] = w[c] => a = c
               /\ \A v \in VRegs : \E a \in Ranks : w[a] = v
<1> DEFINE w == [a \in 1..N |-> VregList[s[a]]]
<1>1. s \in [Ranks -> Ranks] /\ \A a, c \in Ranks : s[a] = s[c] => a = c
  BY DEF Orders, Ranks
<1>2. w \in [Ranks -> VRegs] /\ \A a, c \in Ranks : w[a] = w[c] => a = c
  BY <1>1, VregListIs DEF Ranks
<1> HIDE DEF w
<1>3. \A v \in VRegs : \E a \in Ranks : w[a] = v
  BY <1>2, NoneLeftOut
<1> QED BY <1>2, <1>3 DEF w

\* Each no later than the next, so each no later than all behind it.
LEMMA Ascending ==
    ASSUME NEW f, \A a \in Ranks : f[a] \in Int, \A a \in 1 .. (N - 1) : f[a] <= f[a + 1]
    PROVE  \A a, c \in Ranks : a < c => f[a] <= f[c]
<1>0. N \in Nat /\ Ranks = 1..N
  BY ScanAssumption DEF Ranks
<1> SUFFICES ASSUME NEW a \in Ranks, NEW c \in Ranks, a < c PROVE f[a] <= f[c]
  OBVIOUS
<1> DEFINE T == {k \in Nat : a + k <= N => f[a] <= f[a + k]}
<1>1. 0 \in T
  BY <1>0
<1>2. ASSUME NEW k \in Nat, k < c - a, k \in T PROVE k + 1 \in T
  <2> DEFINE m == a + k
  <2>1. m \in 1 .. (N - 1) /\ m \in Ranks /\ m + 1 \in Ranks /\ a + (k + 1) = m + 1
    BY <1>0, <1>2
  <2>2. f[a] <= f[m]
    BY <1>0, <1>2, <2>1
  <2> HIDE DEF m
  <2>3. f[m] <= f[m + 1] /\ f[m] \in Int /\ f[m + 1] \in Int /\ f[a] \in Int
    BY <2>1
  <2>4. f[a] <= f[m + 1]
    BY <2>2, <2>3
  <2> QED BY <2>1, <2>4
<1> HIDE DEF T
<1>3. c - a \in T
  <2>1. c - a \in Nat /\ c - a \in 0 .. (c - a)
    BY <1>0
  <2> QED BY <1>1, <1>2, <2>1, Induct
<1>4. a + (c - a) = c /\ c <= N
  BY <1>0
<1> QED BY <1>3, <1>4 DEF T

\* The scan starts from sorted intervals that cover what is live.
LEMMA CheckLiveIntervalIs ==
    Code /\ CheckLiveInterval => VirtIs' /\ ScanInv' /\ Marked' /\ Covering'
<1> SUFFICES ASSUME Code, CheckLiveInterval
             PROVE  VirtIs' /\ ScanInv' /\ Marked' /\ Covering'
  OBVIOUS
<1>0. N \in Nat /\ Ranks = 1..N
  BY ScanAssumption DEF Ranks
<1>1. PICK s \in Orders :
        /\ virt' = [a \in 1..N |-> VregList[s[a]]]
        /\ \A a \in 1 .. (N - 1) :
             [v \in VRegs |-> StartOf(v)][virt'[a]] <= [v \in VRegs |-> StartOf(v)][virt'[a + 1]]
        /\ itv' = [a \in 1..N |->
                [start |-> IF virt'[a] \in Params(prog) THEN 0
                           ELSE [v \in VRegs |-> StartOf(v)][virt'[a]],
                 end |-> [v \in VRegs |-> EndOf(v)][virt'[a]],
                 file |-> "ireg",
                 kind |-> IF virt'[a] \in Params(prog) THEN "SPILL" ELSE "NORMAL"]]
  BY Zenon DEF CheckLiveInterval
<1>2. VirtIs'
  <2> DEFINE w == [a \in 1..N |-> VregList[s[a]]]
  <2>1. /\ w \in [Ranks -> VRegs]
        /\ \A a, c \in Ranks : w[a] = w[c] => a = c
        /\ \A v \in VRegs : \E a \in Ranks : w[a] = v
    BY OrdersAre
  <2>2. virt' = w
    BY <1>1
  <2> HIDE DEF w
  <2> QED BY <2>1, <2>2 DEF VirtIs
<1>3. /\ \A a \in Ranks : virt'[a] \in VRegs
      /\ \A a \in 1 .. (N - 1) : a \in Ranks /\ a + 1 \in Ranks
  BY <1>0, <1>2 DEF VirtIs
<1>4. /\ \A a \in 1 .. (N - 1) : StartOf(virt'[a]) <= StartOf(virt'[a + 1])
      /\ itv' = [a \in Ranks |->
                [start |-> IF virt'[a] \in Params(prog) THEN 0 ELSE StartOf(virt'[a]),
                 end |-> EndOf(virt'[a]),
                 file |-> "ireg",
                 kind |-> IF virt'[a] \in Params(prog) THEN "SPILL" ELSE "NORMAL"]]
  BY <1>0, <1>1, <1>3
<1>5. \A a \in Ranks :
        /\ StartOf(virt'[a]) \in Int /\ EndOf(virt'[a]) \in Int
        /\ StartOf(virt'[a]) <= EndOf(virt'[a])
        /\ StartOf(virt'[a]) >= 0 \/ EndOf(virt'[a]) = -1
        /\ \A n \in Mentioned(virt'[a]) : StartOf(virt'[a]) <= n /\ n <= EndOf(virt'[a])
  BY IntervalCovers
<1>6. \A a \in Ranks : itv'[a] \in AnyInterval
  BY <1>4, <1>5 DEF AnyInterval, Files
<1>7. itv' \in [Ranks -> AnyInterval]
  BY <1>4, <1>6
<1>8. SortedByStart(itv)'
  <2> DEFINE f == [a \in Ranks |-> StartOf(virt'[a])]
  <2>1. \A a \in Ranks : f[a] \in Int
    BY <1>5
  <2>2. \A a \in 1 .. (N - 1) : f[a] <= f[a + 1]
    BY <1>3, <1>4
  <2>3. \A a \in Ranks : itv'[a].kind = "NORMAL" => itv'[a].start = f[a]
    BY <1>4
  <2> HIDE DEF f
  <2>4. \A a, c \in Ranks : a < c => f[a] <= f[c]
    BY <2>1, <2>2, Ascending
  <2> QED BY <2>3, <2>4 DEF SortedByStart
<1>9. /\ state' = [a \in Ranks |-> itv'[a].kind]
      /\ phys' = [a \in Ranks |-> IF itv'[a].kind = "SPILL" THEN Spilled ELSE Unassigned]
      /\ active' = [f \in Files |-> << >>]
      /\ using' = [f \in Files |-> {}]
      /\ used' = [f \in Files |-> {}]
      /\ i' = 1
  BY <1>0 DEF CheckLiveInterval, Unassigned
<1>10. ScanInv'
  <2>1. (itv \in [Ranks -> AnyInterval] /\ ScanStart)' => ScanInv'
    BY StartInvariant, PTL
  <2>2. ScanStart'
    BY <1>8, <1>9 DEF ScanStart
  <2> QED BY <1>7, <2>1, <2>2
<1>11. Marked'
  BY <1>4, <1>9 DEF Marked
<1>12. Covering'
  <2>1. \A v : Mentioned(v)' = Mentioned(v)
    BY MentionedStays DEF CheckLiveInterval, flowVars
  <2> QED BY <1>4, <1>5, <2>1 DEF Covering
<1> QED BY <1>2, <1>10, <1>11, <1>12

\* An interval the scan spills gets WORK_REG_NO.
LEMMA ScanNextMarked == ScanInv /\ Marked /\ [ScanNext]_scanVars => Marked'
<1> SUFFICES ASSUME ScanInv, Marked, [ScanNext]_scanVars PROVE Marked'
  OBVIOUS
<1>0. state \in [Ranks -> {"NORMAL", "SPILL", "CONST"}] /\ phys \in [Ranks -> {Unassigned} \cup 0..Spilled]
  BY DEF ScanInv, ScanTypeOK
<1>1. CASE Skip
  BY <1>1 DEF Skip, Marked
<1>2. CASE \E nx \in [Files -> 0..N] : Assign(nx)
  <2>1. PICK nx \in [Files -> 0..N] : Assign(nx)
    BY <1>2
  <2>2. PICK r : phys' = [phys EXCEPT ![i] = r]
    BY <2>1 DEF Assign
  <2>3. state[i] = "NORMAL" /\ itv' = itv /\ state' = state
    BY <2>1 DEF Assign, Scanned
  <2> QED BY <1>0, <2>2, <2>3 DEF Marked
<1>3. CASE \E nx \in [Files -> 0..N] : SpillActive(nx)
  <2>1. PICK nx \in [Files -> 0..N] : SpillActive(nx)
    BY <1>3
  <2> DEFINE s == Live(nx, itv[i].file)
             last == s[Len(s)]
  <2>2. /\ phys' = [phys EXCEPT ![i] = phys[last], ![last] = Spilled]
        /\ state' = [state EXCEPT ![last] = "SPILL"]
        /\ itv' = itv /\ state[i] = "NORMAL"
    BY <2>1 DEF SpillActive, Scanned
  <2> HIDE DEF last
  <2> QED BY <1>0, <2>2 DEF Marked
<1>4. CASE \E nx \in [Files -> 0..N] : SpillNew(nx)
  <2>1. PICK nx \in [Files -> 0..N] : SpillNew(nx)
    BY <1>4
  <2>2. /\ phys' = [phys EXCEPT ![i] = Spilled]
        /\ state' = [state EXCEPT ![i] = "SPILL"]
        /\ itv' = itv
    BY <2>1 DEF SpillNew
  <2> QED BY <1>0, <2>2 DEF Marked
<1>5. CASE ScanDone \/ UNCHANGED scanVars
  BY <1>5 DEF ScanDone, scanVars, Marked
<1> QED BY <1>1, <1>2, <1>3, <1>4, <1>5 DEF ScanNext

-----------------------------------------------------------------------------
(* What allocation has settled, when the program runs                      *)

\* Only OP, BOP and CALL have operands.
OperandsKnown(p) ==
    \A b \in Blocks : \A j \in 1..Len(p[b]) :
        ~Known(p[b][j]) => Opr(p[b][j]) = {} /\ Dst(p[b][j]) = {}

Compiled == Code /\ JumpsLast(prog) /\ OperandsKnown(prog) /\ NoDeadFirst

Settled == flow = "done" /\ VirtIs /\ ScanInv /\ Marked /\ Covering

\* The registers living_pregs holds at a call cover the intervals that go on.
LivingCovers ==
    \A p \in Instructions : IrAt(p).op = "CALL" =>
        \A a \in Ranks :
            (Keeps(a) /\ itv[a].start <= Nip(p) /\ Nip(p) < itv[a].end)
                => phys[a] \in living[p]

LoadsAndStores ==
    \A p \in Instructions : \A a \in Ranks :
        /\ phys[a] = Spilled /\ virt[a] \in Opr(IrAt(p)) => loads[p] = {virt[a]}
        /\ virt[a] \in stores[p] <=> phys[a] = Spilled /\ virt[a] \in Dst(IrAt(p))

\* Where interval a is kept is the value of its register.
Held(a) ==
    IF phys[a] = Spilled THEN frame[virt[a]] = virt[a] ELSE regs[phys[a]] = virt[a]

Holding ==
    \A a \in Ranks : virt[a] \in fresh /\ pc \in LivePoints(virt[a]) => Held(a)

AllocInv ==
    /\ Compiled
    /\ FlowInv /\ LiveOnly
    /\ pc \in Points
    /\ DOMAIN regs = 0..Spilled
    /\ phase # "flow" => Settled
    /\ phase \in {"spill", "run"} => i > N /\ LivingCovers
    /\ phase = "run" => LoadsAndStores /\ Holding

\* What the instructions of a program are.
LEMMA InstructionsAre ==
    ASSUME Code
    PROVE  /\ \A b \in Blocks : \A j \in 1..Len(prog[b]) :
                <<b, j>> \in Instructions /\ IrAt(<<b, j>>) = prog[b][j]
           /\ \A p \in Instructions : \E b \in Blocks : \E j \in 1..Len(prog[b]) : p = <<b, j>>
<1>1. \A b \in Blocks : \A j \in 1..Len(prog[b]) :
        <<b, j>> \in Instructions /\ IrAt(<<b, j>>) = prog[b][j]
  BY Steps DEF Instructions
<1>2. ASSUME NEW p \in Instructions
      PROVE  \E b \in Blocks : \E j \in 1..Len(prog[b]) : p = <<b, j>>
  <2>1. p \in Points /\ ~AtEnd(p)
    BY DEF Instructions
  <2>2. PICK b \in Blocks : \E j \in 1 .. (Len(prog[b]) + 1) : p = <<b, j>>
    BY <2>1, PointsAre
  <2>3. PICK j \in 1 .. (Len(prog[b]) + 1) : p = <<b, j>>
    BY <2>2
  <2>4. Len(prog[b]) \in Nat /\ j # Len(prog[b]) + 1
    BY <2>1, <2>3, CodeTypes DEF AtEnd
  <2>5. j \in 1..Len(prog[b])
    BY <2>4
  <2> QED BY <2>3, <2>5
<1> QED BY <1>1, <1>2

\* The run goes from points to points.
LEMMA StepsStayIn ==
    ASSUME Code, NEW p \in Points, NEW q \in SuccPoints(p)
    PROVE  q \in Points
<1>1. PICK b \in Blocks : \E j \in 1 .. (Len(prog[b]) + 1) : p = <<b, j>>
  BY PointsAre
<1>2. PICK j \in 1 .. (Len(prog[b]) + 1) : p = <<b, j>>
  BY <1>1
<1>3. Len(prog[b]) \in Nat
  BY CodeTypes
<1>4. CASE j = Len(prog[b]) + 1
  BY <1>2, <1>4, StepsAtEnd, PointsAre
<1>5. CASE j \in 1..Len(prog[b])
  <2>1. j + 1 \in 1 .. (Len(prog[b]) + 1) /\ prog[b][j].to \in Blocks
    BY <1>3, <1>5, CodeTypes
  <2>2. <<b, j + 1>> \in Points /\ Entry(prog[b][j].to) \in Points
    BY <2>1, PointsAre
  <2>3. q = <<b, j + 1>> \/ q = Entry(prog[b][j].to)
    BY <1>2, <1>5, Steps
  <2> QED BY <2>2, <2>3
<1> QED BY <1>3, <1>4, <1>5

\* An interval that stays normal has an integer register, and the others
\* are marked.
LEMMA PhysIs ==
    ASSUME Settled, i > N, NEW a \in Ranks
    PROVE  /\ phys[a] \in 0..Spilled
           /\ phys[a] # Spilled <=> Keeps(a)
           /\ BitOf(a) = phys[a]
           /\ Keeps(a) => a \in Normal /\ itv[a].kind = "NORMAL"
<1>0. Spilled \in Nat /\ N \in Nat /\ Ranks = 1..N
  BY ScanAssumption DEF Spilled, Ranks, Files
<1>1. itv[a].file = "ireg" /\ (state[a] = "NORMAL" \/ (state[a] = "SPILL" /\ phys[a] = Spilled))
  BY DEF Settled, Marked
<1>2. CASE Keeps(a)
  <2>1. a \in Normal
    BY <1>0, <1>2 DEF Keeps, Normal, Settled, ScanInv, ScanTypeOK
  <2>2. phys[a] \in used["ireg"] /\ used["ireg"] \subseteq 0 .. (Spilled - 1)
    BY <1>1, <2>1 DEF Settled, ScanInv, UsedCoversAssigned, ScanTypeOK, Files
  <2>3. phys[a] \in 0 .. (Spilled - 1)
    BY <2>2
  <2>4. itv[a].kind = "NORMAL"
    BY <1>2 DEF Keeps, Settled, ScanInv, StateAgrees
  <2>5. phys[a] \in 0..Spilled /\ phys[a] # Spilled /\ phys[a] + 0 = phys[a]
    BY <1>0, <2>3
  <2> QED BY <1>1, <1>2, <2>1, <2>4, <2>5 DEF BitOf
<1>3. CASE ~Keeps(a)
  <2>1. phys[a] = Spilled
    BY <1>1, <1>3 DEF Keeps
  <2>2. phys[a] \in 0..Spilled /\ phys[a] + 0 = phys[a]
    BY <1>0, <2>1
  <2> QED BY <1>1, <1>3, <2>1, <2>2 DEF BitOf
<1> QED BY <1>2, <1>3

\* The register of a virtual register is that of its interval.
LEMMA RegOfIs ==
    ASSUME VirtIs
    PROVE  /\ \A a \in Ranks : RegOf(virt[a]) = phys[a]
           /\ \A v \in VRegs : \E a \in Ranks : v = virt[a] /\ RegOf(v) = phys[a]
<1>1. ASSUME NEW a \in Ranks PROVE RegOf(virt[a]) = phys[a]
  <2> DEFINE c == CHOOSE c \in 1..N : virt[c] = virt[a]
  <2>1. c \in Ranks /\ virt[c] = virt[a]
    BY DEF Ranks
  <2>2. RegOf(virt[a]) = phys[c]
    BY DEF RegOf
  <2> HIDE DEF c
  <2> QED BY <2>1, <2>2 DEF VirtIs
<1> QED BY <1>1 DEF VirtIs

\* An instruction whose value is not read any more shares no register with
\* one that is.
LEMMA NotOverwritten ==
    ASSUME Compiled, FlowInv, LiveOnly, Settled, i > N,
           NEW b \in Blocks, NEW j \in 1..Len(prog[b]), NEW q \in SuccPoints(<<b, j>>),
           NEW a \in Ranks, Keeps(a), NEW c \in Ranks, Keeps(c), a # c,
           <<b, j>> \in LivePoints(virt[a]), q \in LivePoints(virt[a]),
           virt[c] \in Dst(prog[b][j])
    PROVE  phys[a] # phys[c]
<1> DEFINE n == Nip(<<b, j>>)
<1>0. /\ Code /\ JumpsLast(prog) /\ AllBalanced /\ SetsAreLiveness
      /\ virt[a] \in VRegs /\ virt[c] \in VRegs
      /\ Len(prog[b]) \in Nat /\ j \in 1 .. (Len(prog[b]) + 1)
  <2>1. Code /\ JumpsLast(prog) /\ virt[a] \in VRegs /\ virt[c] \in VRegs
    BY DEF Compiled, Settled, VirtIs
  <2>2. SetsAreLiveness
    BY <2>1, BalancedIsLiveness DEF Settled
  <2>3. AllBalanced
    BY DEF Settled, AllBalanced, FlowInv, FlowBalanced, LiveOnly
  <2>4. Len(prog[b]) \in Nat
    BY <2>1, CodeTypes
  <2> QED BY <2>1, <2>2, <2>3, <2>4
<1>1. n \in Nat
  BY <1>0, NipIs
<1>2. \A r \in {a, c} : /\ itv[r].start \in Int /\ itv[r].end \in Int
                        /\ \A m \in Mentioned(virt[r]) :
                              m \in Nat /\ itv[r].start <= m /\ m <= itv[r].end
  <2> SUFFICES ASSUME NEW r \in {a, c}
               PROVE  /\ itv[r].start \in Int /\ itv[r].end \in Int
                      /\ \A m \in Mentioned(virt[r]) :
                            m \in Nat /\ itv[r].start <= m /\ m <= itv[r].end
    OBVIOUS
  <2>1. Keeps(r) /\ r \in Ranks
    OBVIOUS
  <2>2. itv[r].start \in Int /\ itv[r].end \in Int /\ itv[r].kind = "NORMAL"
    BY <2>1, Bounds, PhysIs DEF Settled
  <2>3. \A m \in Mentioned(virt[r]) : itv[r].start <= m /\ m <= itv[r].end
    BY <2>1, <2>2 DEF Settled, Covering
  <2>4. \A m \in Mentioned(virt[r]) : m \in Nat
    BY <1>0, IntervalCovers
  <2> QED BY <2>2, <2>3, <2>4
<1>3. PICK start \in Mentioned(virt[a]) : start <= n /\ (j # 1 => start < n)
  BY <1>0, LiveStart
<1>4. PICK end \in Mentioned(virt[a]) : n + 1 <= end
  BY <1>0, LiveEnd
<1>5. n \in Mentioned(virt[c])
  BY <1>0, MentionedIs
<1>6. \A x, y \in Ranks : (Keeps(x) /\ Keeps(y) /\ x < y /\ phys[x] = phys[y])
        => itv[x].end <= itv[y].start
  <2> SUFFICES ASSUME NEW x \in Ranks, NEW y \in Ranks, Keeps(x), Keeps(y), x < y,
                      phys[x] = phys[y]
               PROVE  itv[x].end <= itv[y].start
    OBVIOUS
  <2>1. x \in Normal /\ y \in Normal
    BY PhysIs
  <2>2. itv[x].file = itv[y].file
    BY DEF Settled, Marked
  <2> QED BY <2>1, <2>2 DEF Settled, ScanInv, InTurn
<1> HIDE DEF n
<1>7. a \in Int /\ c \in Int
  BY DEF Ranks
<1>8. CASE a < c
  BY <1>1, <1>2, <1>4, <1>5, <1>6, <1>8
<1>9. CASE c < a /\ j # 1
  <2>1. n <= itv[c].end
    BY <1>2, <1>5
  <2>2. itv[a].start <= start /\ start \in Nat /\ start < n
    BY <1>2, <1>3, <1>9
  <2>3. ~(itv[c].end <= itv[a].start)
    BY <1>1, <1>2, <2>1, <2>2
  <2> QED BY <1>6, <1>9, <2>3
<1>10. CASE c < a /\ j = 1
  <2>1. <<b, j>> \in Instructions /\ IrAt(<<b, j>>) = prog[b][j]
    BY <1>0, InstructionsAre
  <2>2. PICK s \in SuccPoints(<<b, j>>) : s \in LivePoints(virt[c])
    BY <1>10, <2>1 DEF Compiled, NoDeadFirst
  <2>3. PICK last \in Mentioned(virt[c]) : n + 1 <= last
    BY <1>0, <2>2, LiveEnd DEF n
  <2>4. n + 1 <= itv[c].end /\ itv[a].start <= n
    <3>1. last <= itv[c].end /\ itv[a].start <= start /\ last \in Nat /\ start \in Nat
      BY <1>2
    <3> QED BY <1>1, <1>2, <1>3, <2>3, <3>1
  <2> QED BY <1>1, <1>2, <1>6, <1>10, <2>4
<1> QED BY <1>7, <1>8, <1>9, <1>10

\* A call leaves what goes on after it where it is.
LEMMA SavedInCall ==
    ASSUME Compiled, FlowInv, LiveOnly, Settled, i > N, LivingCovers,
           NEW b \in Blocks, NEW j \in 1..Len(prog[b]), NEW q \in SuccPoints(<<b, j>>),
           NEW a \in Ranks, Keeps(a),
           <<b, j>> \in LivePoints(virt[a]), q \in LivePoints(virt[a]),
           prog[b][j].op = "CALL"
    PROVE  phys[a] \in living[<<b, j>>]
<1> DEFINE n == Nip(<<b, j>>)
<1>0. /\ Code /\ JumpsLast(prog) /\ AllBalanced /\ SetsAreLiveness
      /\ virt[a] \in VRegs
      /\ Len(prog[b]) \in Nat /\ j \in 1 .. (Len(prog[b]) + 1)
  <2>1. Code /\ JumpsLast(prog) /\ virt[a] \in VRegs
    BY DEF Compiled, Settled, VirtIs
  <2>2. SetsAreLiveness
    BY <2>1, BalancedIsLiveness DEF Settled
  <2>3. AllBalanced
    BY DEF Settled, AllBalanced, FlowInv, FlowBalanced, LiveOnly
  <2>4. Len(prog[b]) \in Nat
    BY <2>1, CodeTypes
  <2> QED BY <2>1, <2>2, <2>3, <2>4
<1>1. n \in Nat
  BY <1>0, NipIs
<1>2. /\ itv[a].start \in Int /\ itv[a].end \in Int
      /\ \A m \in Mentioned(virt[a]) : m \in Nat /\ itv[a].start <= m /\ m <= itv[a].end
  <2>1. itv[a].start \in Int /\ itv[a].end \in Int /\ itv[a].kind = "NORMAL"
    BY Bounds, PhysIs DEF Settled
  <2>2. \A m \in Mentioned(virt[a]) : m \in Nat
    BY <1>0, IntervalCovers
  <2> QED BY <2>1, <2>2 DEF Settled, Covering
<1>3. PICK start \in Mentioned(virt[a]) : start <= n
  BY <1>0, LiveStart
<1>4. PICK end \in Mentioned(virt[a]) : n + 1 <= end
  BY <1>0, LiveEnd
<1>5. itv[a].start <= n /\ n < itv[a].end
  <2> HIDE DEF n
  <2> QED BY <1>1, <1>2, <1>3, <1>4
<1>6. <<b, j>> \in Instructions /\ IrAt(<<b, j>>).op = "CALL"
  BY <1>0, InstructionsAre
<1> QED BY <1>5, <1>6 DEF LivingCovers

-----------------------------------------------------------------------------
(* What a step leaves as it was                                            *)

\* The provisos are about the program, which does not change.
LEMMA CompiledStays == Compiled /\ prog' = prog => Compiled'
<1> SUFFICES ASSUME Compiled, prog' = prog PROVE Compiled'
  OBVIOUS
<1>1. \A v : LivePoints(v)' = LivePoints(v)
  BY LiveStays DEF Compiled
<1>2. Code' /\ JumpsLast(prog)' /\ OperandsKnown(prog)'
  BY DEF Compiled, Code, JumpsLast, OperandsKnown
<1>3. /\ Instructions' = Instructions
      /\ \A p : IrAt(p)' = IrAt(p) /\ SuccPoints(p)' = SuccPoints(p)
  BY DEF Instructions, Points, AtEnd, IrAt, SuccPoints
<1>4. NoDeadFirst'
  BY <1>1, <1>3 DEF Compiled, NoDeadFirst
<1> QED BY <1>2, <1>4 DEF Compiled

\* What is known of the flow sets stays true while they are not written.
LEMMA FlowStays == FlowInv /\ LiveOnly /\ UNCHANGED flowVars => FlowInv' /\ LiveOnly'
<1> SUFFICES ASSUME FlowInv, LiveOnly, UNCHANGED flowVars PROVE FlowInv' /\ LiveOnly'
  OBVIOUS
<1>1. FlowInv'
  BY StutterFlowInv
<1>2. \A v : LivePoints(v)' = LivePoints(v)
  BY LiveStays DEF FlowInv, FlowTypeOK, Code, flowVars
<1>3. LiveOnly'
  BY <1>2 DEF LiveOnly, flowVars, Assigned, Dst, Entry
<1> QED BY <1>1, <1>3

\* The scan computes on the intervals and writes none.
LEMMA SettledStays ==
    Code /\ Settled /\ [ScanNext]_scanVars /\ UNCHANGED <<flowVars, virt>> => Settled'
<1> SUFFICES ASSUME Code, Settled, [ScanNext]_scanVars, UNCHANGED <<flowVars, virt>>
             PROVE  Settled'
  OBVIOUS
<1>1. ScanInv'
  BY NextPreserves DEF Settled
<1>2. Marked'
  BY ScanNextMarked DEF Settled
<1>3. itv' = itv
  BY DEF ScanNext, Skip, Assign, SpillActive, SpillNew, ScanDone, scanVars
<1>4. \A v : Mentioned(v)' = Mentioned(v)
  BY MentionedStays DEF flowVars
<1>5. Covering'
  BY <1>3, <1>4 DEF Settled, Covering
<1>6. VirtIs' /\ flow' = "done"
  BY DEF Settled, VirtIs, flowVars
<1> QED BY <1>1, <1>2, <1>5, <1>6 DEF Settled

\* Nothing the allocation does moves an instruction.
LEMMA InstructionsStay ==
    prog' = prog => Instructions' = Instructions /\ \A p : IrAt(p)' = IrAt(p)
BY DEF Instructions, Points, AtEnd, IrAt

\* What lives at a call, once it is detected, stays as it is.
LEMMA LivingStays ==
    Code /\ LivingCovers /\ UNCHANGED <<flowVars, scanVars, living>> => LivingCovers'
<1> SUFFICES ASSUME Code, LivingCovers, UNCHANGED <<flowVars, scanVars, living>>
             PROVE  LivingCovers'
  OBVIOUS
<1>1. \A p \in Points : Nip(p)' = Nip(p)
  BY MentionedStays DEF flowVars
<1>2. Instructions' = Instructions /\ \A p : IrAt(p)' = IrAt(p)
  BY InstructionsStay DEF flowVars
<1>3. \A p \in Instructions : p \in Points
  BY DEF Instructions
<1> QED BY <1>1, <1>2, <1>3 DEF LivingCovers, Keeps, scanVars

\* So do the loads and the stores.
LEMMA LoadsStay ==
    LoadsAndStores /\ UNCHANGED <<prog, phys, virt, loads, stores>> => LoadsAndStores'
BY InstructionsStay DEF LoadsAndStores

-----------------------------------------------------------------------------
(* One step of each kind                                                   *)

\* One lemma for each action of RegAlloc: it preserves the invariant.
LEMMA AnalyzeRegFlowAllocInv == AllocInv /\ AnalyzeRegFlow => AllocInv'
<1> SUFFICES ASSUME AllocInv, AnalyzeRegFlow PROVE AllocInv'
  OBVIOUS
<1>1. FlowNext /\ phase = "flow" /\ UNCHANGED <<scanVars, allocVars, runVars>>
  BY DEF AnalyzeRegFlow
<1>2. prog' = prog
  BY <1>1, NextKeepsProg
<1>3. Compiled'
  BY <1>2, CompiledStays DEF AllocInv
<1>4. FlowInv' /\ LiveOnly'
  BY <1>1, NextFlowInv, NextLiveOnly DEF AllocInv, Compiled
<1>5. Points' = Points
  BY <1>2 DEF Points
<1> QED BY <1>1, <1>3, <1>4, <1>5 DEF AllocInv, allocVars, runVars

\* The intervals cover liveness as soon as they are made.
LEMMA CheckLiveIntervalAllocInv == AllocInv /\ CheckLiveInterval => AllocInv'
<1> SUFFICES ASSUME AllocInv, CheckLiveInterval PROVE AllocInv'
  OBVIOUS
<1>1. flow = "done" /\ phase' = "scan" /\ UNCHANGED <<flowVars, living, loads, stores, runVars>>
  BY DEF CheckLiveInterval
<1>2. Compiled'
  BY <1>1, CompiledStays DEF AllocInv, flowVars
<1>3. FlowInv' /\ LiveOnly'
  BY <1>1, FlowStays DEF AllocInv
<1>4. Settled'
  BY <1>1, CheckLiveIntervalIs DEF AllocInv, Compiled, Settled, flowVars
<1>5. Points' = Points
  BY <1>1 DEF Points, flowVars
<1> QED BY <1>1, <1>2, <1>3, <1>4, <1>5 DEF AllocInv, runVars

\* The scan keeps them, and keeps those of a register apart.
LEMMA LinearScanAllocInv == AllocInv /\ LinearScan => AllocInv'
<1> SUFFICES ASSUME AllocInv, LinearScan PROVE AllocInv'
  OBVIOUS
<1>1. phase = "scan" /\ ScanNext /\ UNCHANGED <<flowVars, allocVars, runVars>>
  BY DEF LinearScan
<1>2. Compiled'
  BY <1>1, CompiledStays DEF AllocInv, flowVars
<1>3. FlowInv' /\ LiveOnly'
  BY <1>1, FlowStays DEF AllocInv
<1>4. Settled'
  BY <1>1, SettledStays DEF AllocInv, Compiled, allocVars
<1>5. Points' = Points
  BY <1>1 DEF Points, flowVars
<1> QED BY <1>1, <1>2, <1>3, <1>4, <1>5 DEF AllocInv, allocVars, runVars

\* What goes on after a call is active there, so it is in living_pregs.
LEMMA DetectLivingRegistersAllocInv == AllocInv /\ DetectLivingRegisters => AllocInv'
<1> SUFFICES ASSUME AllocInv, DetectLivingRegisters PROVE AllocInv'
  OBVIOUS
<1>1. /\ phase = "scan" /\ i > N /\ phase' = "spill"
      /\ UNCHANGED <<flowVars, scanVars, virt, loads, stores, runVars>>
      /\ living' = [p \in {q \in Instructions : IrAt(q).op = "CALL"} |-> LivingPregs(Nip(p))]
  BY DEF DetectLivingRegisters
<1>2. Compiled'
  BY <1>1, CompiledStays DEF AllocInv, flowVars
<1>3. FlowInv' /\ LiveOnly'
  BY <1>1, FlowStays DEF AllocInv
<1>4. Settled /\ Settled' /\ Code
  BY <1>1, SettledStays DEF AllocInv, Compiled
<1>5. Points' = Points
  BY <1>1 DEF Points, flowVars
<1>6. ASSUME NEW p \in Instructions, IrAt(p).op = "CALL", NEW a \in Ranks, Keeps(a),
             itv[a].start <= Nip(p), Nip(p) < itv[a].end
      PROVE  phys[a] \in living'[p]
  <2>1. Nip(p) \in Nat
    <3>1. PICK b \in Blocks : \E j \in 1..Len(prog[b]) : p = <<b, j>>
      BY <1>4, InstructionsAre
    <3>2. PICK j \in 1..Len(prog[b]) : p = <<b, j>>
      BY <3>1
    <3>3. j \in 1 .. (Len(prog[b]) + 1)
      BY <1>4, CodeTypes
    <3> QED BY <1>4, <3>2, <3>3, NipIs
  <2>2. living'[p] = LivingPregs(Nip(p))
    BY <1>1, <1>6
  <2>3. LivingPregs(Nip(p)) = LivingAt(Nip(p))
    BY <1>1, <1>4, <2>1, LivingPregsIs DEF Settled
  <2>4. BitOf(a) \in LivingAt(Nip(p))
    BY <1>6 DEF LivingAt, Keeps
  <2>5. BitOf(a) = phys[a]
    BY <1>1, <1>4, PhysIs
  <2> QED BY <2>2, <2>3, <2>4, <2>5
<1>7. LivingCovers'
  <2>1. \A p \in Points : Nip(p)' = Nip(p)
    BY <1>1, <1>4, MentionedStays DEF flowVars
  <2>2. Instructions' = Instructions /\ \A p : IrAt(p)' = IrAt(p)
    BY <1>1, InstructionsStay DEF flowVars
  <2>3. \A p \in Instructions : p \in Points
    BY DEF Instructions
  <2> QED BY <1>1, <1>6, <2>1, <2>2, <2>3 DEF LivingCovers, Keeps, scanVars
<1> QED BY <1>1, <1>2, <1>3, <1>4, <1>5, <1>7 DEF AllocInv, scanVars, runVars

\* The run starts with only the parameters assigned, in their places.
LEMMA InsertLoadStoreSpilledAllocInv == AllocInv /\ InsertLoadStoreSpilled => AllocInv'
<1> SUFFICES ASSUME AllocInv, InsertLoadStoreSpilled PROVE AllocInv'
  OBVIOUS
<1>1. /\ phase = "spill" /\ i > N /\ phase' \in {"run", "abort"}
      /\ UNCHANGED <<flowVars, scanVars, virt, living, pc, regs>>
  BY DEF InsertLoadStoreSpilled, AllocInv
<1>2. Compiled /\ Compiled'
  BY <1>1, CompiledStays DEF AllocInv, flowVars
<1>3. FlowInv' /\ LiveOnly'
  BY <1>1, FlowStays DEF AllocInv
<1>4. Settled /\ Settled' /\ Code /\ LivingCovers /\ LivingCovers'
  BY <1>1, SettledStays, LivingStays DEF AllocInv, Compiled
<1>5. Points' = Points
  BY <1>1 DEF Points, flowVars
<1>6. CASE phase' = "abort"
  BY <1>1, <1>2, <1>3, <1>4, <1>5, <1>6 DEF AllocInv, scanVars
<1>7. CASE phase' = "run"
  <2>1. /\ \A p \in Instructions : ~BothSpilled(IrAt(p))
        /\ loads' = [p \in Instructions |-> LoadSpilled(IrAt(p))]
        /\ stores' = [p \in Instructions |-> StoreSpilled(IrAt(p))]
        /\ fresh' = {virt[a] : a \in {c \in 1..N : itv[c].kind = "SPILL"}}
        /\ frame' = [v \in VRegs |-> IF v \in fresh' THEN v ELSE None]
    BY <1>7 DEF InsertLoadStoreSpilled
  <2>2. /\ \A a \in Ranks : RegOf(virt[a]) = phys[a] /\ virt[a] \in VRegs
        /\ \A v \in VRegs : \E a \in Ranks : v = virt[a] /\ RegOf(v) = phys[a]
    BY <1>4, RegOfIs DEF Settled, VirtIs
  <2>3. ASSUME NEW p \in Instructions, NEW a \in Ranks
        PROVE  /\ phys[a] = Spilled /\ virt[a] \in Opr(IrAt(p)) => loads'[p] = {virt[a]}
               /\ virt[a] \in stores'[p] <=> phys[a] = Spilled /\ virt[a] \in Dst(IrAt(p))
    <3> DEFINE ir == IrAt(p)
               v == virt[a]
    <3>1. InFrame(v) <=> phys[a] = Spilled
      BY <2>2 DEF InFrame
    <3>2. ~Known(ir) => Opr(ir) = {} /\ Dst(ir) = {}
      <4>1. PICK b \in Blocks : \E j \in 1..Len(prog[b]) : p = <<b, j>>
        BY <1>4, InstructionsAre
      <4>2. PICK j \in 1..Len(prog[b]) : p = <<b, j>>
        BY <4>1
      <4>3. ir = prog[b][j]
        BY <1>4, <4>2, InstructionsAre
      <4> QED BY <1>2, <4>3 DEF Compiled, OperandsKnown
    <3>3. loads'[p] = LoadSpilled(ir) /\ stores'[p] = StoreSpilled(ir) /\ ~BothSpilled(ir)
      BY <2>1
    <3> HIDE DEF ir, v
    <3>4. v \in stores'[p] <=> InFrame(v) /\ v \in Dst(ir)
      BY <3>2, <3>3 DEF StoreSpilled
    <3>5. ASSUME InFrame(v), v \in Opr(ir) PROVE loads'[p] = {v}
      <4>1. LoadSpilled(ir) = {w \in Opr(ir) : InFrame(w)}
        BY <3>2, <3>5 DEF LoadSpilled
      <4>2. \A w \in Opr(ir) : InFrame(w) => w = v
        BY <3>2, <3>3, <3>5 DEF BothSpilled, Opr
      <4> QED BY <3>3, <3>5, <4>1, <4>2
    <3> QED BY <3>1, <3>4, <3>5 DEF ir, v
  <2>4. LoadsAndStores'
    <3>1. Instructions' = Instructions /\ \A p : IrAt(p)' = IrAt(p)
      BY <1>1, InstructionsStay DEF flowVars
    <3> QED BY <1>1, <2>3, <3>1 DEF LoadsAndStores, scanVars
  <2>5. Holding'
    <3> SUFFICES ASSUME NEW a \in Ranks, virt[a] \in fresh' PROVE Held(a)'
      BY <1>1 DEF Holding
    <3>1. PICK c \in Ranks : itv[c].kind = "SPILL" /\ virt[a] = virt[c]
      BY <2>1 DEF Ranks
    <3>2. a = c
      BY <1>4, <3>1 DEF Settled, VirtIs
    <3>3. phys[a] = Spilled
      BY <1>4, <3>1, <3>2 DEF Settled, Marked
    <3>4. frame'[virt[a]] = virt[a]
      BY <2>1, <2>2
    <3> QED BY <1>1, <3>3, <3>4 DEF Held, scanVars
  <2> QED BY <1>1, <1>2, <1>3, <1>4, <1>5, <1>7, <2>4, <2>5 DEF AllocInv, scanVars
<1> QED BY <1>1, <1>6, <1>7

\* An instruction overwrites no register that is still read after it: this
\* is the step that needs InTurn, LivingCovers and NoDeadFirst.
LEMMA ExecuteAllocInv == AllocInv /\ Execute => AllocInv'
<1> SUFFICES ASSUME AllocInv, Execute PROVE AllocInv'
  OBVIOUS
<1>1. /\ phase = "run" /\ i > N /\ ~AtEnd(pc) /\ pc' \in SuccPoints(pc)
      /\ regs' = [r \in DOMAIN regs |->
                   IF \E v \in Dst(IrAt(pc)) : r = RegOf(v) THEN IrAt(pc).dst
                   ELSE IF r \in Overwritten THEN None ELSE Loaded[r]]
      /\ frame' = [v \in VRegs |-> IF v \in stores[pc] THEN regs'[Spilled] ELSE frame[v]]
      /\ fresh' = fresh \cup Dst(IrAt(pc))
      /\ UNCHANGED <<flowVars, scanVars, allocVars>>
  BY DEF Execute, AllocInv
<1>2. /\ Compiled /\ Code /\ FlowInv /\ LiveOnly /\ Settled /\ LivingCovers
      /\ LoadsAndStores /\ Holding /\ pc \in Points /\ DOMAIN regs = 0..Spilled
  BY <1>1 DEF AllocInv, Compiled
<1>3. Compiled' /\ FlowInv' /\ LiveOnly'
  BY <1>1, <1>2, CompiledStays, FlowStays DEF flowVars
<1>4. Settled' /\ LivingCovers' /\ LoadsAndStores'
  BY <1>1, <1>2, SettledStays, LivingStays, LoadsStay DEF allocVars, flowVars, scanVars
<1>5. pc' \in Points'
  <2>1. pc' \in Points /\ Points' = Points
    BY <1>1, <1>2, StepsStayIn DEF Points, flowVars
  <2> QED BY <2>1
<1>6. DOMAIN regs' = 0..Spilled
  BY <1>1, <1>2
<1>7. pc \in Instructions
  BY <1>1, <1>2 DEF Instructions
<1>8. PICK b \in Blocks : \E j \in 1..Len(prog[b]) : pc = <<b, j>>
  BY <1>2, <1>7, InstructionsAre
<1>9. PICK j \in 1..Len(prog[b]) : pc = <<b, j>>
  BY <1>8
<1>10. IrAt(pc) = prog[b][j] /\ Dst(IrAt(pc)) \subseteq VRegs
  <2>1. IrAt(pc) = prog[b][j]
    BY <1>2, <1>9, InstructionsAre
  <2>2. prog[b][j] \in Instr
    BY <1>2, CodeTypes
  <2>3. prog[b][j].dst \in VRegs \cup {None}
    BY <2>2 DEF Instr
  <2> QED BY <2>1, <2>3 DEF Dst
<1>11. /\ virt \in [Ranks -> VRegs]
       /\ \A a \in Ranks : RegOf(virt[a]) = phys[a]
       /\ \A v \in VRegs : \E a \in Ranks : v = virt[a] /\ RegOf(v) = phys[a]
  BY <1>2, RegOfIs DEF Settled, VirtIs
<1>12. \A v : LivePoints(v)' = LivePoints(v)
  BY <1>1, <1>2, LiveStays DEF flowVars
<1>13. ASSUME NEW a \in Ranks, virt[a] \in Dst(IrAt(pc)) PROVE Held(a)'
  <2>1. IrAt(pc).dst = virt[a] /\ phys[a] \in DOMAIN regs /\ RegOf(virt[a]) = phys[a]
    BY <1>1, <1>2, <1>11, <1>13, PhysIs DEF Dst
  <2>2. regs'[phys[a]] = virt[a]
    BY <1>1, <1>13, <2>1
  <2>3. phys[a] = Spilled => frame'[virt[a]] = virt[a]
    <3>1. phys[a] = Spilled => virt[a] \in stores[pc] /\ virt[a] \in VRegs
      BY <1>2, <1>7, <1>11, <1>13 DEF LoadsAndStores
    <3> QED BY <1>1, <2>2, <3>1
  <2> QED BY <1>1, <2>2, <2>3 DEF Held, allocVars, scanVars
<1>14. ASSUME NEW a \in Ranks, virt[a] \notin Dst(IrAt(pc)), virt[a] \in fresh,
              pc' \in LivePoints(virt[a])
       PROVE  Held(a)'
  <2>1. pc \in LivePoints(virt[a])
    <3>1. pc \notin Defs(virt[a])
      BY <1>14 DEF Defs
    <3> QED BY <1>1, <1>2, <1>14, <3>1, LiveClosed
  <2>2. Held(a)
    BY <1>2, <1>14, <2>1 DEF Holding
  <2>3. CASE phys[a] = Spilled
    <3>1. virt[a] \notin stores[pc] /\ virt[a] \in VRegs
      BY <1>2, <1>7, <1>11, <1>14 DEF LoadsAndStores
    <3>2. frame'[virt[a]] = virt[a]
      BY <1>1, <2>2, <2>3, <3>1 DEF Held
    <3> QED BY <1>1, <2>3, <3>2 DEF Held, allocVars, scanVars
  <2>4. CASE phys[a] # Spilled
    <3>1. Keeps(a) /\ phys[a] \in DOMAIN regs
      BY <1>1, <1>2, <2>4, PhysIs
    <3>2. ASSUME NEW v \in Dst(IrAt(pc)), phys[a] = RegOf(v) PROVE FALSE
      <4>1. PICK c \in Ranks : v = virt[c] /\ RegOf(v) = phys[c]
        BY <1>10, <1>11
      <4>2. a # c /\ Keeps(c)
        BY <1>1, <1>2, <1>14, <2>4, <3>2, <4>1, PhysIs
      <4>3. virt[c] \in Dst(prog[b][j]) /\ phys[a] = phys[c]
        BY <1>10, <3>2, <4>1
      <4> QED BY <1>1, <1>2, <1>9, <1>14, <2>1, <3>1, <4>2, <4>3, NotOverwritten
    <3>3. phys[a] \notin Overwritten
      <4>1. prog[b][j].op = "CALL" => phys[a] \in living[pc]
        BY <1>1, <1>2, <1>9, <1>14, <2>1, <3>1, SavedInCall
      <4> QED BY <1>10, <4>1 DEF Overwritten
    <3>4. Loaded[phys[a]] = regs[phys[a]]
      BY <2>4, <3>1 DEF Loaded
    <3>5. regs'[phys[a]] = virt[a]
      BY <1>1, <2>2, <2>4, <3>1, <3>2, <3>3, <3>4 DEF Held
    <3> QED BY <1>1, <2>4, <3>5 DEF Held, allocVars, scanVars
  <2> QED BY <2>3, <2>4
<1>15. Holding'
  <2> SUFFICES ASSUME NEW a \in Ranks, virt[a] \in fresh', pc' \in LivePoints(virt[a])
               PROVE  Held(a)'
    BY <1>1, <1>12 DEF Holding, allocVars
  <2> QED BY <1>1, <1>13, <1>14
<1> QED BY <1>1, <1>3, <1>4, <1>5, <1>6, <1>15 DEF AllocInv, allocVars, scanVars

\* Going to another block moves no value.
LEMMA NextBlockAllocInv == AllocInv /\ NextBlock => AllocInv'
<1> SUFFICES ASSUME AllocInv, NextBlock PROVE AllocInv'
  OBVIOUS
<1>1. /\ phase = "run" /\ i > N /\ AtEnd(pc) /\ pc' \in SuccPoints(pc)
      /\ UNCHANGED <<flowVars, scanVars, allocVars, regs, frame, fresh>>
  BY DEF NextBlock, AllocInv
<1>2. /\ Compiled /\ Code /\ FlowInv /\ LiveOnly /\ Settled /\ LivingCovers
      /\ LoadsAndStores /\ Holding /\ pc \in Points
  BY <1>1 DEF AllocInv, Compiled
<1>3. Compiled' /\ FlowInv' /\ LiveOnly'
  BY <1>1, <1>2, CompiledStays, FlowStays DEF flowVars
<1>4. Settled' /\ LivingCovers' /\ LoadsAndStores'
  BY <1>1, <1>2, SettledStays, LivingStays, LoadsStay DEF allocVars, flowVars, scanVars
<1>5. pc' \in Points'
  <2>1. pc' \in Points /\ Points' = Points
    BY <1>1, <1>2, StepsStayIn DEF Points, flowVars
  <2> QED BY <2>1
<1>6. \A v : LivePoints(v)' = LivePoints(v)
  BY <1>1, <1>2, LiveStays DEF flowVars
<1>7. ASSUME NEW v, pc' \in LivePoints(v) PROVE pc \in LivePoints(v)
  <2>1. pc \notin Defs(v)
    BY <1>1 DEF Defs
  <2> QED BY <1>1, <1>2, <1>7, <2>1, LiveClosed
<1>8. Holding'
  <2> SUFFICES ASSUME NEW a \in Ranks, virt[a] \in fresh, pc' \in LivePoints(virt[a])
               PROVE  Held(a)'
    BY <1>1, <1>6 DEF Holding, allocVars
  <2>1. Held(a)
    BY <1>2, <1>7 DEF Holding
  <2> QED BY <1>1, <2>1 DEF Held, allocVars, scanVars
<1> QED BY <1>1, <1>3, <1>4, <1>5, <1>8 DEF AllocInv, allocVars, scanVars

\* AllocInv speaks of vars alone.
LEMMA StutterAllocInv == AllocInv /\ UNCHANGED vars => AllocInv'
<1> SUFFICES ASSUME AllocInv, UNCHANGED vars PROVE AllocInv'
  OBVIOUS
<1>1. UNCHANGED <<flowVars, scanVars, allocVars, runVars>> /\ prog' = prog
  BY DEF vars, flowVars
<1>2. Compiled' /\ FlowInv' /\ LiveOnly'
  BY <1>1, CompiledStays, FlowStays DEF AllocInv
<1>3. Code /\ (Settled => Settled') /\ (LivingCovers => LivingCovers')
  BY <1>1, SettledStays, LivingStays DEF AllocInv, Compiled, allocVars
<1>4. LoadsAndStores => LoadsAndStores'
  BY <1>1, LoadsStay DEF allocVars, scanVars
<1>5. Holding => Holding'
  <2>1. \A v : LivePoints(v)' = LivePoints(v)
    BY <1>1, <1>3, LiveStays
  <2>2. \A a : Held(a) <=> Held(a)'
    BY <1>1 DEF Held, allocVars, scanVars, runVars
  <2> QED BY <1>1, <2>1, <2>2 DEF Holding, allocVars, runVars
<1>6. Points' = Points
  BY <1>1 DEF Points
<1> QED BY <1>1, <1>2, <1>3, <1>4, <1>5, <1>6 DEF AllocInv, allocVars, scanVars, runVars

\* Every step of RegAlloc preserves the invariant.
LEMMA NextAllocInv == AllocInv /\ [Next]_vars => AllocInv'
BY AnalyzeRegFlowAllocInv, CheckLiveIntervalAllocInv, LinearScanAllocInv,
   DetectLivingRegistersAllocInv, InsertLoadStoreSpilledAllocInv, ExecuteAllocInv,
   NextBlockAllocInv, StutterAllocInv DEF Next, Return

\* A program as the theorem supposes starts in the invariant.
LEMMA InitAllocInv ==
    ASSUME \A p \in Converted : JumpsLast(p) /\ OperandsKnown(p)
    PROVE  Init /\ NoDeadFirst => AllocInv
<1> SUFFICES ASSUME Init, NoDeadFirst PROVE AllocInv
  OBVIOUS
<1>1. Compiled
  BY ConvertedAre DEF Init, Compiled, Code
<1>2. FlowInv /\ LiveOnly
  BY <1>1, StartFlowInv, InitLiveOnly DEF Init, Compiled
<1>3. pc \in Points
  <2>1. 1 \in Blocks
    BY FlowAssumption DEF Blocks
  <2>2. Entry(1) \in Points
    BY <1>1, <2>1, PointsAre DEF Compiled
  <2> QED BY <2>2 DEF Init, Entry
<1>4. DOMAIN regs = 0..Spilled
  <2>1. Spilled \in Nat
    BY ScanAssumption DEF Spilled, Files
  <2>2. PhysRegs \cup {Spilled} = 0..Spilled
    BY <2>1 DEF PhysRegs, Regs, Spilled
  <2> QED BY <2>2 DEF Init
<1> QED BY <1>1, <1>2, <1>3, <1>4 DEF Init, AllocInv

\* Where the invariant holds, an instruction finds what it reads.
LEMMA AllocInvReads == AllocInv => ReadsOwnValue
<1> SUFFICES ASSUME AllocInv, phase = "run", ~AtEnd(pc), NEW v \in Opr(IrAt(pc)) \cap fresh
             PROVE  Loaded[RegOf(v)] = v
  BY DEF ReadsOwnValue
<1>1. /\ Code /\ Settled /\ LoadsAndStores /\ Holding /\ pc \in Points
      /\ DOMAIN regs = 0..Spilled /\ i > N
  BY DEF AllocInv, Compiled
<1>2. pc \in Instructions
  BY <1>1 DEF Instructions
<1>3. v \in VRegs
  <2>1. PICK b \in Blocks : \E j \in 1..Len(prog[b]) : pc = <<b, j>>
    BY <1>1, <1>2, InstructionsAre
  <2>2. PICK j \in 1..Len(prog[b]) : pc = <<b, j>>
    BY <2>1
  <2>3. IrAt(pc) = prog[b][j] /\ prog[b][j] \in Instr
    BY <1>1, <2>2, InstructionsAre, CodeTypes
  <2>4. \A ir \in Instr : ir.opr1 \in VRegs \cup {None} /\ ir.opr2 \in VRegs \cup {None}
    BY DEF Instr
  <2> QED BY <2>3, <2>4 DEF Opr
<1>4. PICK a \in Ranks : v = virt[a] /\ RegOf(v) = phys[a]
  BY <1>1, <1>3, RegOfIs DEF Settled
<1>5. pc \in LivePoints(v)
  BY <1>1, LiveClosed DEF Uses
<1>6. Held(a) /\ phys[a] \in DOMAIN regs
  BY <1>1, <1>4, <1>5, PhysIs DEF Holding
<1>7. CASE phys[a] = Spilled
  <2>1. loads[pc] = {v}
    BY <1>1, <1>2, <1>4, <1>7 DEF LoadsAndStores
  <2>2. Loaded[Spilled] = frame[v]
    BY <1>6, <1>7, <2>1 DEF Loaded
  <2> QED BY <1>4, <1>6, <1>7, <2>2 DEF Held
<1>8. CASE phys[a] # Spilled
  BY <1>4, <1>6, <1>8 DEF Loaded, Held
<1> QED BY <1>7, <1>8

\* Allocation does not change what the program computes.  An instruction that
\* reads a parameter, or a register assigned on this run, finds its value
\* where alloc_physical_registers has put it, in whatever order qsort leaves
\* the intervals, whatever linear_scan_register_allocation spills, and
\* whatever the calls in between overwrite.  The programs are those whose
\* blocks jump only at the bottom and whose operands are of instructions
\* that insert_load_store_spilled knows; NoDeadFirst is what the code cannot
\* do without, as RegAllocDead.cfg shows.
THEOREM RegAllocReadsOwnValue ==
    ASSUME \A p \in Converted : JumpsLast(p) /\ OperandsKnown(p)
    PROVE  Init /\ NoDeadFirst /\ [][Next]_vars => []ReadsOwnValue
<1>1. Init /\ NoDeadFirst => AllocInv
  BY InitAllocInv
<1> QED BY <1>1, NextAllocInv, AllocInvReads, PTL
=============================================================================
