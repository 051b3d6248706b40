--------------------------- MODULE UmallocProofs ---------------------------
(***************************************************************************)
(* Proofs about the memory allocator: for any page size, any heap and any  *)
(* requests, no unit of memory is lost or given out twice, a search that   *)
(* fails has seen every free block, and the program sees a heap.           *)
(***************************************************************************)
EXTENDS Umalloc, WellFoundedInduction, TLAPS

\* The blocks, by their headers: those on the list are the ones that neither
\* the program nor the call under way holds.
Blocks == {a \in Addresses : size[a] > 0}
OnList == Blocks \ (Owned \cup {bp, buf - 1})

\* The list runs through the blocks of S in the order of their addresses,
\* from the base and back to it.
Linked(S, next) ==
    \A a \in S \cup {Base} :
        \/ /\ next[a] \in S /\ a < next[a]
           /\ \A b \in S : b <= a \/ next[a] <= b
        \/ /\ next[a] = Base
           /\ \A b \in S : b <= a

TypeOK ==
    /\ ptr \in [Headers -> Headers] /\ size \in [Headers -> Nat]
    /\ brk \in Nat /\ brk >= HeapStart
    /\ DOMAIN blocks \subseteq Given /\ blocks \in [DOMAIN blocks -> Payloads]
    /\ pc \in {"idle", "search", "insert", "return"}
    /\ IF pc = "idle" THEN req = NoRequest ELSE req \in Requests
    /\ nunits \in Nat

Apart(B, sz) == \A a, b \in B : a < b => a + sz[a] <= b
Cover(B, sz) == UNION {Units(a, sz[a]) : a \in B}

\* Blocks lie in the heap one after the other, and sbrk's units are theirs.
BlocksApart ==
    /\ size[Base] = 0
    /\ \A a \in Blocks : a + size[a] <= brk /\ a + size[a] <= HeapLimit + 1
    /\ Apart(Blocks, size)
    /\ got = Cover(Blocks, size)

OwnedAgrees ==
    \A at \in DOMAIN blocks : at - 1 \in Addresses /\ size[at - 1] = blocks[at] + 1

\* The block that a search has gone past since freep, round the base.
Passed(a) == IF freep < p THEN freep < a /\ a < p ELSE freep < a \/ a < p

CallAgrees ==
    /\ freep \in OnList \cup {Base}
    /\ pc = "idle" => (bp = NULL /\ buf = NULL)
    /\ pc # "idle" => result = NULL
    /\ pc \in {"search", "insert"} => p \in OnList \cup {Base}
    /\ pc = "return" => (bp = NULL /\ buf = NULL /\ call.op = "free" /\ call.at = NULL)
    /\ pc = "search" =>
         /\ call.op # "free" /\ bp = NULL /\ buf = NULL /\ nunits = call.units + 1
         /\ prevp \in OnList \cup {Base} /\ ptr[prevp] = p
         /\ \A a \in OnList : Passed(a) => size[a] < nunits
    /\ pc = "insert" =>
         /\ bp \in Blocks
         /\ IF bp + 1 \in DOMAIN blocks
            THEN /\ call.op \in {"free", "realloc"} /\ bp = call.at - 1
                 /\ IF call.op = "free" THEN buf = NULL
                    ELSE /\ buf \in Nat /\ buf - 1 \in Blocks /\ buf \notin DOMAIN blocks
                         /\ size[buf - 1] = call.units + 1
            ELSE /\ call.op # "free" /\ buf = NULL /\ nunits = call.units + 1

IInv ==
    /\ TypeOK
    /\ BlocksApart
    /\ OwnedAgrees
    /\ Linked(OnList, ptr)
    /\ CallAgrees

-----------------------------------------------------------------------------
(* Lists in the order of their addresses                                   *)

\* A block is taken off the list.
LEMMA LinkedWithout ==
    ASSUME NEW S \in SUBSET (Nat \ {0}), NEW next, Linked(S, next),
           NEW r \in S \cup {Base}, NEW q \in S, next[r] = q,
           NEW after,
           \A a \in (S \ {q}) \cup {Base} : after[a] = IF a = r THEN next[q] ELSE next[a]
    PROVE  Linked(S \ {q}, after)
<1>0. r \in Int /\ q \in Int /\ \A b \in S : b \in Int /\ 0 < b
  BY DEF Base
<1>1. r < q /\ \A b \in S : b <= r \/ q <= b
  BY DEF Linked, Base
<1>2. ASSUME NEW a \in (S \ {q}) \cup {Base}
      PROVE  \/ /\ after[a] \in S \ {q} /\ a < after[a]
                /\ \A b \in S \ {q} : b <= a \/ after[a] <= b
             \/ /\ after[a] = Base
                /\ \A b \in S \ {q} : b <= a
  <2>1. CASE a = r
    <3>1. after[a] = next[q]
      BY <2>1
    <3>2. \/ /\ next[q] \in S /\ q < next[q]
             /\ \A b \in S : b <= q \/ next[q] <= b
          \/ /\ next[q] = Base
             /\ \A b \in S : b <= q
      BY DEF Linked
    <3>3. \A b \in S \ {q} : b <= q => b <= r
      BY <1>0, <1>1
    <3>4. CASE next[q] = Base
      BY <1>0, <2>1, <3>1, <3>2, <3>3, <3>4 DEF Base
    <3>5. CASE next[q] # Base
      <4>1. next[q] \in S /\ q < next[q] /\ \A b \in S : b <= q \/ next[q] <= b
        BY <3>2, <3>5
      <4>2. next[q] \in Int
        BY <1>0, <4>1
      <4>3. next[q] \in S \ {q} /\ r < next[q]
        BY <1>0, <1>1, <4>1, <4>2
      <4>4. \A b \in S \ {q} : b <= r \/ next[q] <= b
        BY <1>0, <3>3, <4>1
      <4> QED BY <2>1, <3>1, <4>3, <4>4
    <3> QED BY <3>4, <3>5
  <2>2. CASE a # r
    <3>1. after[a] = next[a]
      BY <2>2
    <3>2. a <= r \/ q < a
      BY <1>1 DEF Base
    <3>3. next[a] # q
      <4>1. SUFFICES ASSUME next[a] = q PROVE FALSE
        OBVIOUS
      <4>2. a < r
        BY <1>1, <2>2, <3>2, <4>1 DEF Linked, Base
      <4>3. r \in S
        BY <4>2 DEF Base
      <4> QED BY <1>1, <4>1, <4>2, <4>3 DEF Linked, Base
    <3> QED BY <3>1, <3>3 DEF Linked
  <2> QED BY <2>1, <2>2
<1> QED
  BY <1>2 DEF Linked

\* A block is put on the list behind r, where its address belongs.
LEMMA LinkedWith ==
    ASSUME NEW S \in SUBSET (Nat \ {0}), NEW next, Linked(S, next),
           NEW r \in S \cup {Base}, NEW q \in Nat \ {0}, q \notin S,
           r < q, next[r] = Base \/ q < next[r],
           NEW after,
           \A a \in S \cup {q, Base} :
               after[a] = IF a = r THEN q ELSE IF a = q THEN next[r] ELSE next[a]
    PROVE  Linked(S \cup {q}, after)
<1>0. r \in Int /\ q \in Int /\ \A b \in S : b \in Int /\ 0 < b
  BY DEF Base
<1>1. \A b \in S : b <= r \/ q < b
  <2>1. \/ /\ next[r] \in S /\ r < next[r]
           /\ \A b \in S : b <= r \/ next[r] <= b
        \/ /\ next[r] = Base
           /\ \A b \in S : b <= r
    BY DEF Linked
  <2>2. CASE next[r] = Base
    BY <2>1, <2>2 DEF Base
  <2>3. CASE next[r] # Base
    <3>1. next[r] \in S /\ q < next[r] /\ \A b \in S : b <= r \/ next[r] <= b
      BY <2>1, <2>3
    <3>2. next[r] \in Int
      BY <1>0, <3>1
    <3>3. ASSUME NEW b \in S PROVE b <= r \/ q < b
      <4>1. b \in Int /\ (b <= r \/ next[r] <= b)
        BY <1>0, <3>1
      <4> QED BY <1>0, <3>1, <3>2, <4>1
    <3> QED BY <3>3
  <2> QED BY <2>2, <2>3
<1>2. ASSUME NEW a \in (S \cup {q}) \cup {Base}
      PROVE  \/ /\ after[a] \in S \cup {q} /\ a < after[a]
                /\ \A b \in S \cup {q} : b <= a \/ after[a] <= b
             \/ /\ after[a] = Base
                /\ \A b \in S \cup {q} : b <= a
  <2>1. CASE a = r
    BY <1>1, <2>1 DEF Base
  <2>2. CASE a = q
    BY <1>1, <2>2 DEF Linked, Base
  <2>3. CASE a # r /\ a # q
    <3>1. after[a] = next[a] /\ a \in S \cup {Base}
      BY <2>3
    <3>2. CASE a < r
      <4>1. r \in S
        BY <3>2, <3>1 DEF Base
      <4>2. next[a] \in S /\ a < next[a] /\ next[a] <= r /\ \A b \in S : b <= a \/ next[a] <= b
        BY <3>1, <3>2, <4>1 DEF Linked, Base
      <4>3. next[a] \in Int
        BY <1>0, <4>2
      <4>4. next[a] <= q
        BY <1>0, <4>2, <4>3
      <4>5. \A b \in S \cup {q} : b <= a \/ next[a] <= b
        BY <4>2, <4>4
      <4> QED BY <3>1, <4>2, <4>5
    <3>3. CASE q < a
      BY <3>1, <3>3 DEF Linked, Base
    <3> QED BY <1>1, <2>3, <3>1, <3>2, <3>3 DEF Base
  <2> QED BY <2>1, <2>2, <2>3
<1> QED
  BY <1>2 DEF Linked

-----------------------------------------------------------------------------
(* Blocks that lie apart                                                   *)

LEMMA CoverMembers ==
    ASSUME NEW B \in SUBSET Nat, NEW sz, \A a \in B : sz[a] \in Nat
    PROVE  \A u : u \in Cover(B, sz) <=>
                    u \in Nat /\ \E a \in B : a <= u /\ u < a + sz[a]
BY DEF Cover, Units

\* Only the sizes of the blocks themselves count.
LEMMA SameSizes ==
    ASSUME NEW B \in SUBSET Nat, NEW sz, Apart(B, sz),
           NEW sz2, \A a \in B : sz2[a] = sz[a]
    PROVE  Apart(B, sz2) /\ Cover(B, sz2) = Cover(B, sz)
<1>1. Apart(B, sz2)
  <2>1. ASSUME NEW a \in B, NEW b \in B, a < b PROVE a + sz2[a] <= b
    <3>1. a + sz[a] <= b
      BY <2>1 DEF Apart
    <3> QED BY <3>1
  <2> QED BY <2>1 DEF Apart
<1>2. \A a \in B : Units(a, sz2[a]) = Units(a, sz[a])
  OBVIOUS
<1>3. Cover(B, sz2) = Cover(B, sz)
  BY <1>2 DEF Cover
<1> QED
  BY <1>1, <1>3

\* Two neighbours become one block.
LEMMA Merged ==
    ASSUME NEW B \in SUBSET Nat, NEW sz, \A a \in B : sz[a] \in Nat \ {0}, Apart(B, sz),
           NEW l \in B, NEW h \in B, l + sz[l] = h,
           NEW sz2, sz2[l] = sz[l] + sz[h], \A a \in B \ {l, h} : sz2[a] = sz[a]
    PROVE  /\ \A a \in B \ {h} : sz2[a] \in Nat \ {0}
           /\ Apart(B \ {h}, sz2)
           /\ Cover(B \ {h}, sz2) = Cover(B, sz)
<1>1. \A a \in B \ {h} : sz2[a] \in Nat \ {0}
  OBVIOUS
<1>2. l < h
  OBVIOUS
<1>3. Apart(B \ {h}, sz2)
  BY <1>2 DEF Apart
<1>4. ASSUME NEW u \in Nat
      PROVE  (\E a \in B \ {h} : a <= u /\ u < a + sz2[a]) <=>
             (\E a \in B : a <= u /\ u < a + sz[a])
  <2>1. ASSUME NEW a \in B \ {h}, a <= u, u < a + sz2[a]
        PROVE  \E b \in B : b <= u /\ u < b + sz[b]
    BY <2>1
  <2>2. ASSUME NEW a \in B, a <= u, u < a + sz[a]
        PROVE  \E b \in B \ {h} : b <= u /\ u < b + sz2[b]
    <3>1. CASE a = h
      BY <1>2, <2>2, <3>1
    <3>2. CASE a # h
      BY <1>2, <2>2, <3>2
    <3> QED BY <3>1, <3>2
  <2> QED BY <2>1, <2>2
<1>5. \A a \in B \ {h} : sz2[a] \in Nat
  BY <1>1
<1>6. \A u : u \in Cover(B \ {h}, sz2) <=> u \in Cover(B, sz)
  <2>1. \A u : u \in Cover(B \ {h}, sz2) <=>
                 u \in Nat /\ \E a \in B \ {h} : a <= u /\ u < a + sz2[a]
    BY <1>5, CoverMembers
  <2>2. \A u : u \in Cover(B, sz) <=>
                 u \in Nat /\ \E a \in B : a <= u /\ u < a + sz[a]
    BY CoverMembers
  <2> QED BY <1>4, <2>1, <2>2
<1> QED
  BY <1>1, <1>3, <1>6

\* A block gives its tail.
LEMMA Split ==
    ASSUME NEW B \in SUBSET Nat, NEW sz, \A a \in B : sz[a] \in Nat \ {0}, Apart(B, sz),
           NEW l \in B, NEW n \in Nat \ {0}, n < sz[l],
           NEW t, t = l + sz[l] - n,
           NEW sz2, sz2[l] = sz[l] - n, sz2[t] = n, \A a \in B \ {l} : sz2[a] = sz[a]
    PROVE  /\ t \notin B
           /\ Apart(B \cup {t}, sz2)
           /\ Cover(B \cup {t}, sz2) = Cover(B, sz)
<1>1. t \in Nat /\ l < t /\ t < l + sz[l]
  OBVIOUS
<1>2. t \notin B
  BY <1>1 DEF Apart
<1>3. Apart(B \cup {t}, sz2)
  BY <1>1, <1>2 DEF Apart
<1>4. ASSUME NEW u \in Nat
      PROVE  (\E a \in B \cup {t} : a <= u /\ u < a + sz2[a]) <=>
             (\E a \in B : a <= u /\ u < a + sz[a])
  <2>1. ASSUME NEW a \in B \cup {t}, a <= u, u < a + sz2[a]
        PROVE  \E b \in B : b <= u /\ u < b + sz[b]
    BY <1>1, <2>1
  <2>2. ASSUME NEW a \in B, a <= u, u < a + sz[a]
        PROVE  \E b \in B \cup {t} : b <= u /\ u < b + sz2[b]
    <3>1. CASE a = l
      BY <1>1, <1>2, <2>2, <3>1
    <3>2. CASE a # l
      BY <2>2, <3>2
    <3> QED BY <3>1, <3>2
  <2> QED BY <2>1, <2>2
<1>5. \A a \in B \cup {t} : sz2[a] \in Nat
  BY <1>1
<1>6. \A u : u \in Cover(B \cup {t}, sz2) <=> u \in Cover(B, sz)
  <2>1. \A u : u \in Cover(B \cup {t}, sz2) <=>
                 u \in Nat /\ \E a \in B \cup {t} : a <= u /\ u < a + sz2[a]
    BY <1>1, <1>5, CoverMembers
  <2>2. \A u : u \in Cover(B, sz) <=>
                 u \in Nat /\ \E a \in B : a <= u /\ u < a + sz[a]
    BY CoverMembers
  <2> QED BY <1>4, <2>1, <2>2
<1> QED
  BY <1>2, <1>3, <1>6

\* The heap has grown by a block.
LEMMA Grown ==
    ASSUME NEW B \in SUBSET Nat, NEW sz, \A a \in B : sz[a] \in Nat \ {0}, Apart(B, sz),
           NEW t \in Nat, \A a \in B : a + sz[a] <= t,
           NEW sz2, sz2[t] \in Nat \ {0}, \A a \in B : sz2[a] = sz[a]
    PROVE  /\ t \notin B
           /\ Apart(B \cup {t}, sz2)
           /\ Cover(B \cup {t}, sz2) = Cover(B, sz) \cup Units(t, sz2[t])
<1>1. \A a \in B : a < t
  OBVIOUS
<1>2. Apart(B \cup {t}, sz2)
  BY <1>1 DEF Apart
<1>3. Cover(B \cup {t}, sz2) = Cover(B, sz) \cup Units(t, sz2[t])
  BY <1>1 DEF Cover
<1> QED
  BY <1>1, <1>2, <1>3

\* morecore asks for at least a page.
LEMMA MoreUnitsPositive == ASSUME nunits \in Nat \ {0} PROVE MoreUnits \in Nat \ {0}
<1> DEFINE q == (nunits + PageUnits - 1) \div PageUnits
<1>1. PageUnits \in Nat \ {0}
  BY UmallocAssumption
<1>2. q \in Nat /\ q > 0
  BY <1>1
<1> HIDE DEF q
<1>3. PageUnits * q \in Nat /\ PageUnits * q > 0
  BY <1>1, <1>2
<1> QED
  BY <1>3 DEF MoreUnits, q

-----------------------------------------------------------------------------
\* What every step may assume of the heap.
LEMMA HeapFacts ==
    ASSUME IInv
    PROVE  /\ Base = 0 /\ NULL = -1 /\ Base \in Headers /\ Base \notin Addresses
           /\ \A a \in Addresses : a \in Nat /\ a >= 2 /\ a <= HeapLimit /\ a \in Headers
           /\ \A a \in Headers : a \in Nat
           /\ Blocks \subseteq Addresses /\ OnList \subseteq Blocks /\ Owned \subseteq Blocks
           /\ Blocks \in SUBSET Nat /\ OnList \in SUBSET (Nat \ {0})
           /\ \A a \in Blocks : size[a] \in Nat \ {0}
           /\ \A a \in Headers : size[a] \in Nat
           /\ \A a \in OnList \cup {Base} :
                ptr[a] \in OnList \cup {Base} /\ (a < ptr[a] \/ ptr[a] = Base)
           /\ NULL \notin Blocks /\ NULL - 1 \notin Blocks
           /\ \A at \in DOMAIN blocks : at \in Nat
<1>1. /\ Base = 0 /\ NULL = -1 /\ Base \in Headers /\ Base \notin Addresses
      /\ \A a \in Addresses : a \in Nat /\ a >= 2 /\ a <= HeapLimit /\ a \in Headers
      /\ \A a \in Headers : a \in Nat
  BY UmallocAssumption DEF Base, NULL, Headers, Addresses, HeapStart
<1>2. Blocks \subseteq Addresses /\ OnList \subseteq Blocks
  BY DEF Blocks, OnList
<1>3. \A a \in Headers : size[a] \in Nat
  BY DEF IInv, TypeOK
<1>4. \A a \in Blocks : size[a] \in Nat \ {0}
  BY <1>1, <1>3 DEF Blocks
<1>5. Owned \subseteq Blocks
  <2>1. ASSUME NEW at \in DOMAIN blocks PROVE at - 1 \in Blocks
    <3>1. /\ at - 1 \in Addresses /\ size[at - 1] = blocks[at] + 1
          /\ blocks[at] \in Payloads
      BY DEF IInv, TypeOK, OwnedAgrees
    <3> QED BY <3>1, UmallocAssumption DEF Blocks, Payloads
  <2> QED BY <2>1 DEF Owned
<1>6. Blocks \in SUBSET Nat /\ OnList \in SUBSET (Nat \ {0})
  BY <1>1, <1>2
<1>7. \A a \in OnList \cup {Base} :
        ptr[a] \in OnList \cup {Base} /\ (a < ptr[a] \/ ptr[a] = Base)
  BY DEF IInv, Linked
<1>8. NULL \notin Blocks /\ NULL - 1 \notin Blocks
  <2>1. NULL \notin Addresses /\ NULL - 1 \notin Addresses
    BY DEF NULL, Addresses, HeapStart
  <2> QED BY <1>2, <2>1
<1>9. \A at \in DOMAIN blocks : at \in Nat
  <2>1. DOMAIN blocks \subseteq Given
    BY DEF IInv, TypeOK
  <2> QED BY <2>1 DEF Given, HeapStart
<1> QED
  BY <1>1, <1>2, <1>3, <1>4, <1>5, <1>6, <1>7, <1>8, <1>9

LEMMA InitIInv == Init => IInv
<1> SUFFICES ASSUME Init PROVE IInv
  OBVIOUS
<1> USE DEF Init
<1>1. Base \in Headers
  BY DEF Headers
<1>2. Blocks = {}
  BY DEF Blocks, Headers
<1>3. OnList = {}
  BY <1>2 DEF OnList
<1>4. DOMAIN blocks = {} /\ blocks \in [{} -> Payloads]
  OBVIOUS
<1>5. TypeOK
  BY <1>1, <1>4 DEF TypeOK, HeapStart, Base
<1>6. BlocksApart
  BY <1>1, <1>2 DEF BlocksApart, Apart, Cover
<1>7. OwnedAgrees
  BY <1>4 DEF OwnedAgrees
<1>8. Linked(OnList, ptr)
  BY <1>1, <1>3 DEF Linked
<1> QED
  BY <1>5, <1>6, <1>7, <1>8 DEF IInv, CallAgrees

\* What the program may ask for.
LEMMA RequestProperties ==
    ASSUME IInv, NEW r \in Requests
    PROVE  /\ Delegated(r).op \in {"malloc", "free", "realloc"}
           /\ Delegated(r).op # "free" => Delegated(r).units \in Payloads /\ Delegated(r).units \in Nat
           /\ Delegated(r).op = "realloc" =>
                /\ Delegated(r).at \in DOMAIN blocks
                /\ Delegated(r).at \in Nat /\ Delegated(r).at - 1 \in Owned
           /\ Delegated(r).op = "free" => Delegated(r).at \in DOMAIN blocks \cup {NULL}
           /\ \A at \in DOMAIN blocks : at \in Nat /\ at - 1 \in Owned
           /\ r # NoRequest
<1>1. /\ r.op \in {"malloc", "free", "realloc"}
      /\ r.op # "free" => r.units \in Payloads
      /\ r.op # "malloc" => r.at \in DOMAIN blocks \cup {NULL}
  BY DEF Requests
<1>2. Payloads \subseteq Nat
  BY UmallocAssumption DEF Payloads
<1>3. DOMAIN blocks \subseteq Given
  BY DEF IInv, TypeOK
<1>4. \A at \in DOMAIN blocks : at \in Nat /\ at - 1 \in Owned
  <2>1. Given \subseteq Nat
    BY DEF Given, HeapStart
  <2> QED BY <1>3, <2>1 DEF Owned
<1>5. /\ Delegated(r).op \in {"malloc", "free", "realloc"}
      /\ Delegated(r).op # "free" => Delegated(r).units \in Payloads
      /\ Delegated(r).op = "realloc" => Delegated(r).at \in DOMAIN blocks
      /\ Delegated(r).op = "free" => Delegated(r).at \in DOMAIN blocks \cup {NULL}
  <2>1. CASE r.op = "realloc" /\ r.units = 0
    BY <1>1, <2>1 DEF Delegated
  <2>2. CASE r.op = "realloc" /\ r.units # 0 /\ r.at = NULL
    BY <1>1, <2>2 DEF Delegated
  <2>3. CASE r.op # "realloc" \/ (r.units # 0 /\ r.at # NULL)
    BY <1>1, <2>3 DEF Delegated
  <2> QED BY <2>1, <2>2, <2>3
<1>6. r # NoRequest
  <2>1. Requests \subseteq [op : {"malloc"}, units : Payloads] \cup
                           [op : {"free"}, at : Given \cup {NULL}] \cup
                           [op : {"realloc"}, at : Given \cup {NULL}, units : Payloads]
    BY <1>3 DEF Requests
  <2> QED BY <2>1, RequestAssumption
<1> QED
  BY <1>2, <1>4, <1>5, <1>6

\* Between the block that a search starts behind and the next one there is
\* none.
LEMMA NonePassed ==
    ASSUME NEW S \in SUBSET (Nat \ {0}), NEW next, Linked(S, next),
           NEW f \in S \cup {Base}, NEW a \in S
    PROVE  ~(IF f < next[f] THEN f < a /\ a < next[f] ELSE f < a \/ a < next[f])
<1> DEFINE q == next[f]
<1>1. \/ /\ q \in S /\ f < q
         /\ a <= f \/ q <= a
      \/ q = Base /\ a <= f
  BY DEF Linked
<1>2. f \in Int /\ a \in Int /\ q \in Int /\ 0 < a /\ 0 <= f
  <2>1. \A x \in S \cup {Base} : x \in Int /\ 0 <= x
    BY DEF Base
  <2>2. q \in S \cup {Base} /\ a \in S \cup {Base}
    BY <1>1
  <2>3. 0 < a
    OBVIOUS
  <2> HIDE DEF q
  <2>4. f \in Int /\ 0 <= f
    BY <2>1
  <2>5. a \in Int /\ q \in Int
    BY <2>1, <2>2
  <2> QED BY <2>3, <2>4, <2>5
<1> HIDE DEF q
<1>3. ~(IF f < q THEN f < a /\ a < q ELSE f < a \/ a < q)
  BY <1>1, <1>2 DEF Base
<1> QED
  BY <1>3 DEF q

LEMMA CallIInv == ASSUME IInv, NEW r \in Requests, Call(r) PROVE IInv'
<1> USE DEF Call
<1>1. pc = "idle" /\ bp = NULL /\ buf = NULL /\ freep \in OnList \cup {Base}
  BY DEF IInv, CallAgrees
<1> DEFINE d == Delegated(r)
<1>2. /\ d.op \in {"malloc", "free", "realloc"}
      /\ d.op # "free" => d.units \in Nat
      /\ d.op = "free" => d.at \in DOMAIN blocks \cup {NULL}
      /\ \A at \in DOMAIN blocks : at \in Nat /\ at - 1 \in Owned
      /\ call' = d
  BY RequestProperties DEF call
<1> HIDE DEF d
<1>3. Blocks' = Blocks /\ Owned' = Owned
  BY DEF Blocks, Owned
<1>4. OnList' = OnList
  BY <1>1, <1>2, <1>3, HeapFacts DEF OnList, StartFree, StartSearch, d
<1>5. TypeOK'
  <2>1. /\ pc' \in {"search", "insert", "return"} /\ nunits' \in Nat
    <3>1. CASE d.op = "free"
      <4>1. nunits \in Nat
        BY DEF IInv, TypeOK
      <4>2. CASE d.at = NULL
        BY <3>1, <4>1, <4>2 DEF d
      <4>3. CASE d.at # NULL
        BY <3>1, <4>1, <4>3 DEF StartFree, d
      <4> QED BY <4>2, <4>3
    <3>2. CASE d.op # "free"
      <4>1. StartSearch(d.units)
        BY <3>2 DEF d
      <4>2. nunits' = d.units + 1 /\ pc' = "search"
        BY <4>1 DEF StartSearch
      <4>3. d.units \in Nat
        BY <1>2, <3>2
      <4> HIDE DEF Call
      <4> QED BY <4>2, <4>3
    <3> QED BY <3>1, <3>2
  <2>2. UNCHANGED <<ptr, size, brk, blocks>> /\ req' = r
    OBVIOUS
  <2>3. r \in Requests'
    BY <2>2 DEF Requests
  <2> HIDE DEF Call
  <2> QED BY <2>1, <2>2, <2>3 DEF IInv, TypeOK
<1>6. BlocksApart' /\ OwnedAgrees' /\ Linked(OnList, ptr)'
  BY <1>3, <1>4 DEF IInv, BlocksApart, OwnedAgrees, Linked
<1>7. CallAgrees'
  <2>1. CASE d.op = "free" /\ d.at # NULL
    <3>1. pc' = "insert" /\ bp' = d.at - 1 /\ p' = freep
      BY <2>1 DEF StartFree, d
    <3>2. bp' + 1 = d.at /\ bp' \in Blocks
      BY <1>2, <2>1, <3>1, HeapFacts
    <3> QED BY <1>1, <1>2, <1>3, <1>4, <2>1, <3>1, <3>2 DEF CallAgrees
  <2>3. CASE d.op = "free" /\ d.at = NULL
    <3>1. pc' = "return" /\ bp' = bp
      BY <2>3 DEF d
    <3> QED BY <1>1, <1>2, <1>4, <2>3, <3>1 DEF CallAgrees
  <2>2. CASE d.op # "free"
    <3>1. /\ pc' = "search" /\ prevp' = freep /\ p' = ptr[freep]
          /\ nunits' = d.units + 1 /\ bp' = bp
      BY <2>2 DEF StartSearch, d
    <3>2. p' \in OnList \cup {Base}
      BY <1>1, <3>1, HeapFacts
    <3>3. \A a \in OnList' : ~Passed(a)'
      <4>1. OnList \in SUBSET (Nat \ {0}) /\ Linked(OnList, ptr)
        BY HeapFacts DEF IInv
      <4> QED BY <1>1, <1>4, <3>1, <4>1, NonePassed DEF Passed
    <3> QED BY <1>1, <1>2, <1>4, <2>2, <3>1, <3>2, <3>3 DEF CallAgrees
  <2> QED BY <2>1, <2>2, <2>3
<1> QED
  BY <1>5, <1>6, <1>7 DEF IInv

LEMMA FreeNothingIInv == ASSUME IInv, FreeNothing PROVE IInv'
<1> USE DEF FreeNothing, Return
<1>1. Blocks' = Blocks /\ Owned' = Owned
  BY DEF Blocks, Owned
<1>2. OnList' = OnList
  BY <1>1 DEF OnList, IInv, CallAgrees
<1>3. TypeOK'
  BY DEF IInv, TypeOK
<1>4. BlocksApart' /\ OwnedAgrees' /\ Linked(OnList, ptr)'
  BY <1>1, <1>2 DEF IInv, BlocksApart, OwnedAgrees, Linked
<1> QED
  BY <1>2, <1>3, <1>4 DEF IInv, CallAgrees

LEMMA NextBlockIInv == ASSUME IInv, NextBlock PROVE IInv'
<1> USE DEF NextBlock
<1>1. Blocks' = Blocks /\ Owned' = Owned /\ OnList' = OnList
  BY DEF Blocks, Owned, OnList
<1>2. TypeOK'
  BY DEF IInv, TypeOK, Requests
<1>3. BlocksApart' /\ OwnedAgrees' /\ Linked(OnList, ptr)'
  BY <1>1 DEF IInv, BlocksApart, OwnedAgrees, Linked
<1>4. /\ p \in OnList \cup {Base} /\ freep \in OnList \cup {Base} /\ p # freep
      /\ ptr[p] \in OnList \cup {Base}
  BY HeapFacts DEF IInv, CallAgrees, AllSearched
<1>5. /\ \A x \in OnList \cup {Base} : x \in Int /\ 0 <= x
      /\ Base = 0
  BY HeapFacts
<1>6. p \in Int /\ freep \in Int /\ ptr[p] \in Int /\ 0 <= p /\ 0 <= freep
  BY <1>4, <1>5
\* The block that did not fit is the only one passed anew.
<1>7. ASSUME NEW a \in OnList, Passed(a)' PROVE a = p \/ Passed(a)
  <2>1. IF freep < ptr[p] THEN freep < a /\ a < ptr[p] ELSE freep < a \/ a < ptr[p]
    BY <1>7 DEF Passed
  <2>2. a \in Int /\ 0 < a
    BY HeapFacts
  <2>3. \/ p < ptr[p] /\ (a <= p \/ ptr[p] <= a)
        \/ ptr[p] = Base /\ a <= p
    BY <1>4 DEF IInv, Linked
  <2>4. freep <= p \/ (ptr[p] # Base /\ ptr[p] <= freep)
    <3>1. CASE freep = Base
      BY <1>5, <1>6, <3>1
    <3>2. CASE freep \in OnList
      <4>1. \/ p < ptr[p] /\ (freep <= p \/ ptr[p] <= freep)
            \/ ptr[p] = Base /\ freep <= p
        BY <1>4, <3>2 DEF IInv, Linked
      <4> QED BY <1>5, <1>6, <4>1
    <3> QED BY <1>4, <3>1, <3>2
  <2> QED BY <1>4, <1>5, <1>6, <2>1, <2>2, <2>3, <2>4 DEF Passed
<1>8. \A a \in OnList : (a = p \/ Passed(a)) => size[a] < nunits
  <2>1. p \in OnList => size[p] < nunits
    <3>1. p \in OnList => size[p] \in Int
      BY HeapFacts
    <3>2. nunits \in Int
      BY DEF IInv, TypeOK
    <3> QED BY <3>1, <3>2 DEF Fits
  <2> QED BY <2>1 DEF IInv, CallAgrees
<1>10. call' = call
  BY DEF call
<1>9. CallAgrees'
  <2>1. \A a \in OnList : Passed(a)' => size[a] < nunits
    BY <1>7, <1>8
  <2> QED BY <1>1, <1>4, <1>10, <2>1 DEF IInv, CallAgrees
<1> QED
  BY <1>2, <1>3, <1>9 DEF IInv

LEMMA AdvanceIInv == ASSUME IInv, Advance PROVE IInv'
<1> USE DEF Advance
<1>1. Blocks' = Blocks /\ Owned' = Owned /\ OnList' = OnList
  BY DEF Blocks, Owned, OnList
<1>2. TypeOK'
  BY DEF IInv, TypeOK, Requests
<1>3. BlocksApart' /\ OwnedAgrees' /\ Linked(OnList, ptr)'
  BY <1>1 DEF IInv, BlocksApart, OwnedAgrees, Linked
<1>4. p' \in OnList \cup {Base}
  BY HeapFacts DEF IInv, CallAgrees
<1>5. call' = call
  BY DEF call
<1> QED
  BY <1>1, <1>2, <1>3, <1>4, <1>5 DEF IInv, CallAgrees

LEMMA SbrkFailsIInv == ASSUME IInv, SbrkFails PROVE IInv'
<1> USE DEF SbrkFails, Return
<1>1. Blocks' = Blocks /\ Owned' = Owned
  BY DEF Blocks, Owned
<1>2. OnList' = OnList
  BY <1>1 DEF OnList, IInv, CallAgrees
<1>3. TypeOK'
  BY DEF IInv, TypeOK
<1>4. BlocksApart' /\ OwnedAgrees' /\ Linked(OnList, ptr)'
  BY <1>1, <1>2 DEF IInv, BlocksApart, OwnedAgrees, Linked
<1> QED
  BY <1>2, <1>3, <1>4 DEF IInv, CallAgrees

-----------------------------------------------------------------------------
(* malloc's last step                                                      *)

\* The block that is taken, and what is left of the heap and of the list.
TakenFrom == IF Exact THEN OnList \ {p} ELSE OnList

LEMMA TakeProperties ==
    ASSUME IInv, Take
    PROVE  /\ Taken \in Addresses /\ Taken \notin Owned /\ Taken \notin TakenFrom
           /\ Blocks' = Blocks \cup {Taken} /\ size'[Taken] = nunits
           /\ \A a \in Owned : size'[a] = size[a]
           /\ Blocks \ {Taken} = TakenFrom \cup Owned
           /\ ptr' \in [Headers -> Headers] /\ size' \in [Headers -> Nat]
           /\ BlocksApart'
           /\ Linked(TakenFrom, ptr')
           /\ prevp \in TakenFrom \cup {Base}
           /\ nunits = call.units + 1 /\ call.units \in Nat /\ call.op # "free"
<1> USE DEF Take
<1>1. /\ bp = NULL /\ buf = NULL
      /\ p \in OnList \cup {Base} /\ prevp \in OnList \cup {Base} /\ ptr[prevp] = p
      /\ call.op # "free" /\ nunits = call.units + 1 /\ req \in Requests
      /\ ptr \in [Headers -> Headers] /\ size \in [Headers -> Nat]
      /\ size[Base] = 0
      /\ brk \in Nat
  BY DEF IInv, CallAgrees, TypeOK, BlocksApart
<1>2. call.units \in Nat
  BY <1>1, RequestProperties DEF call
<1>3. nunits \in Nat /\ nunits >= 1 /\ size[p] >= nunits
  BY <1>1, <1>2 DEF Fits
<1>4. p \in OnList /\ p # Base
  BY <1>1, <1>3
<1>5. /\ p \in Blocks /\ p \in Addresses /\ p \in Headers /\ p \in Nat
      /\ size[p] \in Nat \ {0}
      /\ p \notin Owned
      /\ Blocks = OnList \cup Owned
  BY <1>1, <1>4, HeapFacts DEF OnList
<1>6. prevp # p /\ prevp \in (OnList \ {p}) \cup {Base} /\ prevp \in Headers
  <2>1. prevp < p
    BY <1>1, <1>4, HeapFacts
  <2> QED BY <1>1, <1>4, <1>5, <2>1, HeapFacts
<1>7. CASE Exact
  <2>1. Taken = p /\ TakenFrom = OnList \ {p} /\ size[p] = nunits
    BY <1>7 DEF Taken, TakenFrom, Exact
  <2>2. ptr' = [ptr EXCEPT ![prevp] = ptr[p], ![p] = Base] /\ size' = size
    BY <1>7
  <2>3. ptr' \in [Headers -> Headers]
    BY <1>1, <1>5, <2>2, HeapFacts
  <2>4. \A a \in Headers : ptr'[a] = IF a = p THEN Base ELSE IF a = prevp THEN ptr[p] ELSE ptr[a]
    BY <1>1, <2>2
  <2>5. Linked(OnList \ {p}, ptr')
    <3>1. \A a \in (OnList \ {p}) \cup {Base} : ptr'[a] = IF a = prevp THEN ptr[p] ELSE ptr[a]
      BY <1>4, <2>4, HeapFacts
    <3>2. OnList \in SUBSET (Nat \ {0}) /\ Linked(OnList, ptr)
      BY HeapFacts DEF IInv
    <3> QED BY <1>1, <1>4, <3>1, <3>2, LinkedWithout
  <2>6. Blocks' = Blocks /\ BlocksApart'
    BY <2>2 DEF Blocks, IInv, BlocksApart
  <2> QED BY <1>1, <1>2, <1>3, <1>5, <1>6, <2>1, <2>2, <2>3, <2>5, <2>6
<1>8. CASE ~Exact
  <2>1. /\ Taken = p + size[p] - nunits /\ TakenFrom = OnList
        /\ nunits < size[p]
    BY <1>3, <1>5, <1>8 DEF Taken, TakenFrom, Exact
  <2>2. size' = [size EXCEPT ![p] = size[p] - nunits, ![Taken] = nunits] /\ ptr' = ptr
    BY <1>8
  <2>3. /\ Taken \in Addresses /\ Taken \in Headers /\ Taken \in Nat /\ Taken > p
        /\ p + size[p] <= HeapLimit + 1 /\ p + size[p] <= brk
    <3>1. p + size[p] <= HeapLimit + 1 /\ p + size[p] <= brk
      BY <1>5 DEF IInv, BlocksApart
    <3>2. HeapLimit \in Nat /\ p >= 2
      BY <1>5, HeapFacts, UmallocAssumption
    <3>3. Taken \in Int /\ Taken > p /\ Taken <= HeapLimit
      BY <1>3, <1>5, <2>1, <3>1, <3>2
    <3> HIDE DEF Taken
    <3> QED BY <1>5, <3>1, <3>2, <3>3 DEF Addresses, HeapStart, Headers
  <2> HIDE DEF Taken, Take
  <2>4. /\ size' \in [Headers -> Nat]
        /\ \A a \in Headers : size'[a] = IF a = Taken THEN nunits
                                         ELSE IF a = p THEN size[p] - nunits ELSE size[a]
    BY <1>1, <1>3, <1>5, <2>1, <2>2, <2>3
  <2>5. /\ size'[p] = size[p] - nunits /\ size'[Taken] = nunits
    BY <1>5, <2>3, <2>4
  <2>6. /\ Blocks \in SUBSET Nat
        /\ \A a \in Blocks : size[a] \in Nat \ {0} /\ a \in Headers
        /\ Apart(Blocks, size) /\ got = Cover(Blocks, size)
    BY HeapFacts DEF IInv, BlocksApart
  <2>7. Taken \notin Blocks
    BY <1>3, <1>5, <2>1, <2>3, <2>6 DEF Apart
  <2>8. \A a \in Blocks \ {p} : size'[a] = size[a]
    BY <2>4, <2>6, <2>7
  <2>9. /\ Apart(Blocks \cup {Taken}, size')
        /\ Cover(Blocks \cup {Taken}, size') = Cover(Blocks, size)
    <3>1. nunits \in Nat \ {0}
      BY <1>3
    <3>2. Apart(Blocks, size) /\ p \in Blocks /\ nunits < size[p]
      BY <1>5, <2>1, <2>6
    <3> QED BY <2>1, <2>5, <2>6, <2>8, <3>1, <3>2, Split
  <2>10. Blocks' = Blocks \cup {Taken}
    <3>1. \A a \in Addresses : a \in Headers
      BY HeapFacts
    <3>2. size'[p] > 0 /\ nunits > 0
      BY <1>3, <1>5, <2>1, <2>5
    <3> QED BY <1>5, <2>3, <2>4, <3>1, <3>2 DEF Blocks
  <2>11. BlocksApart'
    <3>1. size'[Base] = 0
      BY <1>1, <1>4, <2>3, <2>4, HeapFacts
    <3>2. brk' = brk /\ got' = got
      BY DEF Take
    <3>3. ASSUME NEW a \in Blocks \cup {Taken}
          PROVE  a + size'[a] <= brk /\ a + size'[a] <= HeapLimit + 1
      <4>1. CASE a = Taken \/ a = p
        <5>1. HeapLimit \in Nat
          BY UmallocAssumption
        <5> QED BY <1>1, <1>3, <1>5, <2>1, <2>3, <2>5, <4>1, <5>1
      <4>2. CASE a # Taken /\ a # p
        BY <2>8, <4>2 DEF IInv, BlocksApart
      <4> QED BY <4>1, <4>2
    <3> QED BY <2>6, <2>9, <2>10, <3>1, <3>2, <3>3 DEF BlocksApart
  <2>12. Linked(OnList, ptr')
    BY <2>2 DEF IInv
  <2>13. /\ Taken \notin Owned /\ Taken \notin OnList
         /\ \A a \in Owned : size'[a] = size[a]
         /\ prevp \in OnList \cup {Base}
    BY <1>5, <1>6, <2>7, <2>8, HeapFacts
  <2>14. Blocks \ {Taken} = OnList \cup Owned
    BY <1>5, <2>7
  <2> QED
    BY <1>1, <1>2, <2>1, <2>2, <2>3, <2>4, <2>5, <2>10, <2>11, <2>12, <2>13, <2>14
<1> QED
  BY <1>7, <1>8

LEMMA TakeIInv == ASSUME IInv, Take PROVE IInv'
<1>1. /\ Taken \in Addresses /\ Taken \notin Owned /\ Taken \notin TakenFrom
      /\ Blocks' = Blocks \cup {Taken} /\ size'[Taken] = nunits
      /\ \A a \in Owned : size'[a] = size[a]
      /\ Blocks \ {Taken} = TakenFrom \cup Owned
      /\ ptr' \in [Headers -> Headers] /\ size' \in [Headers -> Nat]
      /\ BlocksApart'
      /\ Linked(TakenFrom, ptr')
      /\ prevp \in TakenFrom \cup {Base}
      /\ nunits = call.units + 1 /\ call.units \in Nat /\ call.op # "free"
  BY TakeProperties
<1>2. /\ req \in Requests /\ brk \in Nat /\ brk >= HeapStart /\ nunits \in Nat
      /\ DOMAIN blocks \subseteq Given /\ blocks \in [DOMAIN blocks -> Payloads]
      /\ result = NULL /\ bp = NULL
      /\ OwnedAgrees
  BY DEF IInv, TypeOK, CallAgrees, Take
<1>3. /\ call.units \in Payloads
      /\ call.op \in {"malloc", "realloc"}
      /\ call.op = "realloc" => (call.at \in DOMAIN blocks /\ call.at \in Nat /\ call.at - 1 \in Owned)
  BY <1>1, <1>2, RequestProperties DEF call
<1>4. /\ \A a \in Addresses : a \in Nat /\ a >= 2 /\ a <= HeapLimit
      /\ NULL = -1 /\ Base \notin Addresses
      /\ OnList \subseteq Addresses /\ Owned \subseteq Addresses /\ Owned \subseteq Blocks
      /\ TakenFrom \subseteq Blocks /\ Taken \in Nat
      /\ Blocks \subseteq Addresses
  BY <1>1, HeapFacts DEF TakenFrom
<1>5. Taken + 1 \in Given
  <2>1. Taken + nunits <= HeapLimit + 1
    BY <1>1 DEF BlocksApart
  <2>2. HeapLimit \in Nat
    BY UmallocAssumption
  <2>3. Taken + 1 <= HeapLimit + 1 /\ Taken + 1 >= 3
    BY <1>1, <1>2, <1>4, <2>1, <2>2
  <2> HIDE DEF Taken
  <2> QED BY <1>4, <2>2, <2>3 DEF Given, HeapStart
<1> HIDE DEF Taken
<1>6. Taken + 1 \notin DOMAIN blocks
  BY <1>1, <1>4 DEF Owned
<1>7. CASE call.op = "malloc"
  <2>1. /\ blocks' = Allocated(Taken)
        /\ req' = NoRequest /\ pc' = "idle" /\ nunits' = 0
        /\ bp' = NULL /\ buf' = NULL /\ brk' = brk /\ freep' = prevp
    BY <1>7 DEF Take, Return
  <2>2. /\ DOMAIN blocks' = DOMAIN blocks \cup {Taken + 1}
        /\ \A a \in DOMAIN blocks : blocks'[a] = blocks[a]
        /\ blocks'[Taken + 1] = call.units
        /\ blocks' \in [DOMAIN blocks' -> Payloads]
    BY <1>2, <1>3, <1>6, <2>1 DEF Allocated
  <2>3. Owned' = Owned \cup {Taken}
    BY <1>4, <2>2 DEF Owned
  <2>4. OnList' = TakenFrom
    <3>1. OnList' = (Blocks \cup {Taken}) \ ((Owned \cup {Taken}) \cup {-1, -1 - 1})
      BY <1>1, <1>4, <2>1, <2>3 DEF OnList
    <3>2. -1 \notin Addresses /\ (-1 - 1) \notin Addresses
      BY <1>4
    <3>3. TakenFrom \cap Owned = {}
      BY DEF TakenFrom, OnList
    <3> HIDE DEF TakenFrom
    <3> QED BY <1>1, <1>4, <3>1, <3>2, <3>3
  <2>5. TypeOK'
    BY <1>1, <1>2, <1>5, <2>1, <2>2 DEF TypeOK
  <2>6. OwnedAgrees'
    <3>1. ASSUME NEW at \in DOMAIN blocks'
          PROVE  at - 1 \in Addresses /\ size'[at - 1] = blocks'[at] + 1
      <4>1. CASE at = Taken + 1
        <5>1. at - 1 = Taken
          BY <1>4, <4>1
        <5> QED BY <1>1, <2>2, <4>1, <5>1
      <4>2. CASE at # Taken + 1
        <5>1. at \in DOMAIN blocks /\ at - 1 \in Owned
          BY <2>2, <4>2 DEF Owned
        <5> QED BY <1>1, <1>2, <2>2, <5>1 DEF OwnedAgrees
      <4> QED BY <4>1, <4>2
    <3> QED BY <3>1 DEF OwnedAgrees
  <2>7. CallAgrees'
    BY <1>1, <2>1, <2>4 DEF CallAgrees
  <2> QED
    BY <1>1, <2>4, <2>5, <2>6, <2>7 DEF IInv
<1>8. CASE call.op = "realloc"
  <2>1. /\ buf' = Taken + 1 /\ bp' = call.at - 1 /\ p' = prevp /\ pc' = "insert"
        /\ UNCHANGED <<blocks, req, result, prevp, nunits, brk>> /\ freep' = prevp
    BY <1>8 DEF Take
  <2>2. Owned' = Owned /\ call' = call
    BY <2>1 DEF Owned, call
  <2>3. OnList' = TakenFrom
    <3>1. OnList' = (Blocks \cup {Taken}) \ (Owned \cup {call.at - 1, Taken})
      BY <1>1, <1>4, <2>1, <2>2 DEF OnList
    <3>2. TakenFrom \cap Owned = {}
      BY DEF TakenFrom, OnList
    <3> HIDE DEF TakenFrom
    <3> QED BY <1>1, <1>3, <1>4, <1>8, <3>1, <3>2
  <2>4. TypeOK'
    BY <1>1, <1>2, <2>1 DEF TypeOK, Requests
  <2>5. OwnedAgrees'
    <3>1. ASSUME NEW at \in DOMAIN blocks
          PROVE  at - 1 \in Addresses /\ size'[at - 1] = blocks[at] + 1
      <4>1. at - 1 \in Owned
        BY DEF Owned
      <4> QED BY <1>1, <1>2, <4>1 DEF OwnedAgrees
    <3> QED BY <2>1, <3>1 DEF OwnedAgrees
  <2>6. CallAgrees'
    <3>1. bp' + 1 = call.at /\ buf' - 1 = Taken /\ buf' \in Nat
      BY <1>3, <1>4, <1>8, <2>1
    <3>2. bp' \in Blocks' /\ buf' - 1 \in Blocks'
      BY <1>1, <1>3, <1>4, <1>8, <2>1, <3>1
    <3> QED
      BY <1>1, <1>2, <1>3, <1>6, <1>8, <2>1, <2>2, <2>3, <3>1, <3>2 DEF CallAgrees
  <2> QED
    BY <1>1, <2>3, <2>4, <2>5, <2>6 DEF IInv
<1> QED
  BY <1>3, <1>7, <1>8

-----------------------------------------------------------------------------
(* morecore                                                                *)

LEMMA MoreCoreIInv == ASSUME IInv, MoreCore PROVE IInv'
<1> DEFINE n == MoreUnits
<1>1. PICK hp \in {brk, brk + 1} :
        /\ hp + n - 1 <= HeapLimit
        /\ brk' = hp + n
        /\ got' = got \cup hp..(hp + n - 1)
        /\ size' = [size EXCEPT ![hp] = n]
        /\ bp' = hp /\ p' = freep /\ pc' = "insert"
  <2>1. PICK gap \in {0, 1} :
          /\ (brk + gap) + n - 1 <= HeapLimit
          /\ brk' = (brk + gap) + n
          /\ got' = got \cup (brk + gap)..((brk + gap) + n - 1)
          /\ size' = [size EXCEPT ![brk + gap] = n]
          /\ bp' = brk + gap /\ p' = freep /\ pc' = "insert"
    BY DEF MoreCore, StartFree, MoreSize
  <2>2. brk + gap \in {brk, brk + 1}
    BY <2>1 DEF IInv, TypeOK
  <2> HIDE DEF n
  <2> QED BY <2>1, <2>2
<1>2. /\ UNCHANGED <<ptr, freep, blocks, req, result, prevp, nunits, buf>>
      /\ pc = "search"
  BY DEF MoreCore
<1>3. /\ call.op # "free" /\ bp = NULL /\ buf = NULL /\ nunits = call.units + 1 /\ req \in Requests
      /\ freep \in OnList \cup {Base} /\ result = NULL
      /\ ptr \in [Headers -> Headers] /\ size \in [Headers -> Nat]
      /\ brk \in Nat /\ brk >= 2 /\ HeapLimit \in Nat
      /\ nunits \in Nat
  BY <1>2, UmallocAssumption DEF IInv, CallAgrees, TypeOK, HeapStart
<1>4. n \in Nat \ {0}
  <2>1. call.units \in Nat
    BY <1>3, RequestProperties DEF call
  <2> QED BY <1>3, <2>1, MoreUnitsPositive
<1> HIDE DEF n
<1>5. hp \in Addresses /\ hp \in Headers /\ hp \in Nat /\ hp >= brk
  BY <1>1, <1>3, <1>4 DEF Addresses, Headers, HeapStart
<1>6. /\ Blocks \in SUBSET Nat /\ Blocks \subseteq Headers
      /\ \A a \in Blocks : size[a] \in Nat \ {0}
      /\ Apart(Blocks, size) /\ got = Cover(Blocks, size)
      /\ \A a \in Blocks : a + size[a] <= brk /\ a + size[a] <= HeapLimit + 1
      /\ size[Base] = 0 /\ Base # hp /\ Base \in Headers
  BY <1>5, HeapFacts DEF IInv, BlocksApart
<1>7. \A a \in Blocks : a + size[a] <= hp
  BY <1>3, <1>5, <1>6
<1>8. hp \notin Blocks
  BY <1>5, <1>6, <1>7
<1>9. /\ \A a \in Headers : size'[a] = IF a = hp THEN n ELSE size[a]
      /\ size' \in [Headers -> Nat]
  BY <1>1, <1>3, <1>4
<1>10. Blocks' = Blocks \cup {hp}
  <2>1. (\A a \in Addresses : a \in Headers) /\ n > 0
    BY <1>4, HeapFacts
  <2> QED BY <1>5, <1>9, <2>1 DEF Blocks
<1>11. /\ Apart(Blocks \cup {hp}, size')
       /\ Cover(Blocks \cup {hp}, size') = got \cup Units(hp, n)
  <2>1. size'[hp] = n /\ \A a \in Blocks : size'[a] = size[a]
    BY <1>5, <1>6, <1>8, <1>9
  <2>2. size'[hp] \in Nat \ {0}
    BY <1>4, <2>1
  <2>3. /\ Apart(Blocks \cup {hp}, size')
        /\ Cover(Blocks \cup {hp}, size') = Cover(Blocks, size) \cup Units(hp, size'[hp])
    BY <1>5, <1>6, <1>7, <2>1, <2>2, Grown
  <2> QED BY <1>6, <2>1, <2>3
<1>12. BlocksApart'
  <2>1. ASSUME NEW a \in Blocks \cup {hp}
        PROVE  a + size'[a] <= brk' /\ a + size'[a] <= HeapLimit + 1
    <3>1. CASE a = hp
      BY <1>1, <1>3, <1>4, <1>5, <1>9, <3>1
    <3>2. CASE a # hp
      <4>1. size'[a] = size[a] /\ a \in Blocks
        BY <1>6, <1>9, <3>2
      <4>2. a + size[a] <= brk /\ a + size[a] <= HeapLimit + 1 /\ a \in Nat /\ size[a] \in Nat
        BY <1>6, <4>1
      <4> QED BY <1>1, <1>3, <1>4, <1>5, <4>1, <4>2
    <3> QED BY <3>1, <3>2
  <2>2. got' = Cover(Blocks', size')
    BY <1>1, <1>10, <1>11 DEF Units
  <2>3. size'[Base] = 0
    BY <1>6, <1>9
  <2> QED BY <1>10, <1>11, <2>1, <2>2, <2>3 DEF BlocksApart
<1>13. Owned' = Owned /\ OnList' = OnList
  <2>1. Owned' = Owned
    BY <1>2 DEF Owned
  <2>2. buf - 1 \notin Blocks /\ bp \notin Blocks /\ buf - 1 # hp
    BY <1>3, <1>5, HeapFacts
  <2> QED BY <1>1, <1>2, <1>8, <1>10, <2>1, <2>2, HeapFacts DEF OnList
<1>14. TypeOK'
  BY <1>1, <1>2, <1>3, <1>4, <1>5, <1>9 DEF IInv, TypeOK, Requests, HeapStart
<1>15. OwnedAgrees'
  <2>1. ASSUME NEW at \in DOMAIN blocks
        PROVE  at - 1 \in Addresses /\ size'[at - 1] = blocks[at] + 1
    <3>1. at - 1 \in Blocks
      BY HeapFacts DEF Owned
    <3>2. at - 1 \in Headers /\ at - 1 # hp
      BY <1>6, <1>8, <3>1
    <3> QED BY <1>9, <3>2 DEF IInv, OwnedAgrees
  <2> QED BY <1>2, <2>1 DEF OwnedAgrees
<1>16. Linked(OnList, ptr)'
  BY <1>2, <1>13 DEF IInv, Linked
<1>17. CallAgrees'
  <2>1. hp + 1 \notin DOMAIN blocks
    <3>1. SUFFICES ASSUME hp + 1 \in DOMAIN blocks PROVE FALSE
      OBVIOUS
    <3>2. (hp + 1) - 1 \in Blocks
      BY <3>1, HeapFacts DEF Owned
    <3> QED BY <1>5, <1>8, <3>2
  <2>2. call' = call
    BY <1>2 DEF call
  <2> QED
    BY <1>1, <1>2, <1>3, <1>10, <1>13, <2>1, <2>2 DEF CallAgrees
<1> QED
  BY <1>12, <1>14, <1>15, <1>16, <1>17 DEF IInv

-----------------------------------------------------------------------------
(* free's last step                                                        *)

\* Where the loop over the list has ended, and which neighbours join.
LEMMA BetweenProperties ==
    ASSUME IInv, Link
    PROVE  /\ bp \in Blocks /\ bp \in Headers /\ bp \in Nat /\ bp >= 2 /\ bp \notin OnList
           /\ p \in OnList \cup {Base} /\ p \in Headers /\ p \in Nat
           /\ ptr[p] \in OnList \cup {Base} /\ ptr[p] \in Headers
           /\ p < bp /\ (ptr[p] = Base \/ bp < ptr[p])
           /\ JoinsUpper => (ptr[p] \in OnList /\ bp < ptr[p] /\ ptr[p] \in Nat)
           /\ JoinsLower => p \in OnList
<1>1. /\ bp \in Blocks /\ bp \notin OnList /\ p \in OnList \cup {Base} /\ size[Base] = 0
  BY DEF IInv, CallAgrees, Link, OnList, BlocksApart
<1>2. /\ ptr[p] \in OnList \cup {Base} /\ (p < ptr[p] \/ ptr[p] = Base)
      /\ \A a \in OnList \cup {Base} : a \in Headers /\ a \in Int /\ a >= 0
      /\ bp \in Headers /\ bp \in Int /\ bp >= 2 /\ size[bp] \in Nat \ {0}
      /\ Base = 0
  BY <1>1, HeapFacts
<1>3. p \in Int /\ p >= 0 /\ ptr[p] \in Int /\ ptr[p] >= 0 /\ p \in Headers /\ ptr[p] \in Headers
  BY <1>1, <1>2
<1>4. p < bp /\ (ptr[p] = Base \/ bp < ptr[p])
  BY <1>2, <1>3 DEF Link, Between
<1>5. JoinsUpper => (ptr[p] \in OnList /\ bp < ptr[p])
  BY <1>2, <1>3, <1>4 DEF JoinsUpper
<1>6. JoinsLower => p \in OnList
  BY <1>1, <1>2 DEF JoinsLower
<1> QED
  BY <1>1, <1>2, <1>3, <1>4, <1>5, <1>6

\* What the step writes, header by header.
LEMMA LinkWrites ==
    ASSUME IInv, Link
    PROVE  /\ \A a \in Headers :
                size'[a] = IF a \in Swallowed THEN 0
                           ELSE IF a = bp THEN UpperSize
                           ELSE IF a = p /\ JoinsLower THEN size[p] + UpperSize ELSE size[a]
           /\ \A a \in Headers :
                ptr'[a] = IF a \in Swallowed THEN Base
                          ELSE IF a = bp THEN UpperPtr
                          ELSE IF a = p THEN (IF JoinsLower THEN UpperPtr ELSE bp) ELSE ptr[a]
           /\ size' \in [Headers -> Nat] /\ ptr' \in [Headers -> Headers]
           /\ UpperSize \in Nat \ {0}
           /\ Swallowed \subseteq OnList \cup {bp}
<1>1. /\ bp \in Headers /\ p \in Headers /\ ptr[p] \in Headers
      /\ JoinsUpper => ptr[p] \in OnList
      /\ bp \in Blocks
  BY BetweenProperties
<1>2. /\ \A a \in Headers : size[a] \in Nat
      /\ ptr \in [Headers -> Headers]
      /\ size[bp] \in Nat \ {0}
      /\ Base \in Headers
  BY <1>1, HeapFacts DEF IInv, TypeOK
<1>3. UpperSize \in Nat \ {0} /\ UpperPtr \in Headers
  BY <1>1, <1>2 DEF UpperSize, UpperPtr
<1>4. size[p] \in Nat /\ size[p] + UpperSize \in Nat
  BY <1>1, <1>2, <1>3
<1>5. Swallowed \subseteq OnList \cup {bp}
  BY <1>1 DEF Swallowed
<1> HIDE DEF UpperSize, UpperPtr, Swallowed, JoinsLower
<1>6. size' \in [Headers -> Nat] /\ ptr' \in [Headers -> Headers]
  BY <1>1, <1>2, <1>3, <1>4 DEF Link
<1> QED
  BY <1>3, <1>5, <1>6 DEF Link

LEMMA LinkKeepsBlocks ==
    ASSUME IInv, Link
    PROVE  Blocks' = Blocks \ Swallowed /\ BlocksApart'
<1> DEFINE u == ptr[p]
           B1 == IF JoinsUpper THEN Blocks \ {u} ELSE Blocks
           sz1 == [a \in Headers |-> IF a = bp THEN UpperSize ELSE size[a]]
<1>1. /\ bp \in Blocks /\ bp \in Headers /\ bp \in Nat /\ bp >= 2
      /\ p \in Headers /\ p \in Nat /\ p < bp
      /\ JoinsUpper => (u \in Blocks /\ bp < u /\ u \in Nat)
      /\ JoinsLower => p \in Blocks
      /\ Swallowed = (IF JoinsUpper THEN {u} ELSE {}) \cup (IF JoinsLower THEN {bp} ELSE {})
  BY BetweenProperties, HeapFacts DEF Swallowed
<1>2. /\ Blocks \in SUBSET Nat /\ Blocks \subseteq Headers
      /\ \A a \in Blocks : size[a] \in Nat \ {0}
      /\ Apart(Blocks, size) /\ got = Cover(Blocks, size)
  BY HeapFacts DEF IInv, BlocksApart
<1>3. UpperSize = IF JoinsUpper THEN size[bp] + size[u] ELSE size[bp]
  BY DEF UpperSize
<1>4. /\ \A a \in Headers :
           size'[a] = IF a \in Swallowed THEN 0
                      ELSE IF a = bp THEN UpperSize
                      ELSE IF a = p /\ JoinsLower THEN size[p] + UpperSize ELSE size[a]
      /\ UpperSize \in Nat \ {0}
  BY LinkWrites
<1>5. JoinsUpper <=> bp + size[bp] = u
  BY DEF JoinsUpper
<1>6. JoinsLower <=> p + size[p] = bp
  BY DEF JoinsLower
<1> HIDE DEF u, JoinsUpper, JoinsLower, Swallowed, UpperSize
<1>7. /\ \A a \in Headers : sz1[a] = IF a = bp THEN UpperSize ELSE size[a]
      /\ B1 \in SUBSET Nat /\ bp \in B1 /\ B1 \subseteq Headers
  <2>1. \A a \in Headers : sz1[a] = IF a = bp THEN UpperSize ELSE size[a]
    OBVIOUS
  <2>2. B1 \subseteq Blocks
    OBVIOUS
  <2>3. bp \in B1
    <3>1. JoinsUpper => bp # u
      BY <1>1
    <3> QED BY <1>1, <3>1
  <2> HIDE DEF B1, sz1
  <2> QED BY <1>2, <2>1, <2>2, <2>3
<1> HIDE DEF sz1
<1>8. /\ \A a \in B1 : sz1[a] \in Nat \ {0}
      /\ Apart(B1, sz1) /\ Cover(B1, sz1) = got
  <2>1. CASE JoinsUpper
    <3>1. bp + size[bp] = u /\ B1 = Blocks \ {u} /\ UpperSize = size[bp] + size[u]
      BY <1>3, <1>5, <2>1
    <3>2. sz1[bp] = size[bp] + size[u] /\ \A a \in Blocks \ {bp, u} : sz1[a] = size[a]
      BY <1>1, <1>2, <1>7, <3>1
    <3> QED BY <1>1, <1>2, <2>1, <3>1, <3>2, Merged
  <2>2. CASE ~JoinsUpper
    <3>1. B1 = Blocks /\ \A a \in Blocks : sz1[a] = size[a]
      BY <1>2, <1>3, <1>7, <2>2
    <3>2. Apart(Blocks, sz1) /\ Cover(Blocks, sz1) = Cover(Blocks, size)
      BY <1>2, <3>1, SameSizes
    <3> QED BY <1>2, <3>1, <3>2
  <2> QED BY <2>1, <2>2
<1>9. /\ JoinsLower => (p \in B1 /\ p \in Blocks /\ p + sz1[p] = bp /\ sz1[p] = size[p])
  <2>1. ASSUME JoinsLower PROVE p \in B1 /\ sz1[p] = size[p]
    <3>1. p # bp /\ (JoinsUpper => p # u)
      BY <1>1
    <3> QED BY <1>1, <1>7, <2>1, <3>1
  <2> QED BY <1>1, <1>6, <2>1
<1> DEFINE B2 == IF JoinsLower THEN B1 \ {bp} ELSE B1
<1>10. B2 = Blocks \ Swallowed
  BY <1>1
<1>11. \A a \in B2 : size'[a] = IF a = p /\ JoinsLower THEN sz1[p] + sz1[bp] ELSE sz1[a]
  <2>1. ASSUME NEW a \in B2
        PROVE  size'[a] = IF a = p /\ JoinsLower THEN sz1[p] + sz1[bp] ELSE sz1[a]
    <3>1. a \in Headers /\ a \notin Swallowed
      BY <1>2, <1>10
    <3>2. sz1[bp] = UpperSize
      BY <1>1, <1>7
    <3>3. p # bp
      BY <1>1
    <3> QED BY <1>4, <1>7, <1>9, <3>1, <3>2, <3>3
  <2> QED BY <2>1
<1> HIDE DEF B1
<1>12. /\ \A a \in B2 : size'[a] \in Nat \ {0}
       /\ Apart(B2, size') /\ Cover(B2, size') = got
  <2>1. CASE JoinsLower
    <3>1. /\ size'[p] = sz1[p] + sz1[bp]
          /\ \A a \in B1 \ {p, bp} : size'[a] = sz1[a]
          /\ B2 = B1 \ {bp}
          /\ p \in B1 /\ p + sz1[p] = bp
      <4>1. p # bp
        BY <1>1
      <4> QED BY <1>9, <1>11, <2>1, <4>1
    <3> HIDE DEF B2
    <3>2. /\ \A a \in B1 \ {bp} : size'[a] \in Nat \ {0}
          /\ Apart(B1 \ {bp}, size') /\ Cover(B1 \ {bp}, size') = Cover(B1, sz1)
      BY <1>7, <1>8, <3>1, Merged
    <3> QED BY <1>8, <3>1, <3>2
  <2>2. CASE ~JoinsLower
    <3>1. B2 = B1 /\ \A a \in B1 : size'[a] = sz1[a]
      BY <1>11, <2>2
    <3>2. Apart(B1, size') /\ Cover(B1, size') = Cover(B1, sz1)
      BY <1>7, <1>8, <3>1, SameSizes
    <3> QED BY <1>8, <3>1, <3>2
  <2> QED BY <2>1, <2>2
<1> HIDE DEF B2
<1>13. Blocks' = B2
  <2>1. \A a \in Addresses : a \in Headers
    BY HeapFacts
  <2>2. \A a \in B2 : size'[a] > 0
    BY <1>12
  <2>3. ASSUME NEW a \in Addresses, size'[a] > 0 PROVE a \in B2
    <3>1. a \notin Swallowed
      BY <1>4, <2>1, <2>3
    <3>2. a = bp \/ (a = p /\ JoinsLower) \/ size[a] > 0
      BY <1>4, <2>1, <2>3, <3>1
    <3> QED BY <1>1, <1>10, <3>1, <3>2 DEF Blocks
  <2>4. B2 \subseteq Addresses
    BY <1>10, HeapFacts
  <2> QED BY <2>2, <2>3, <2>4 DEF Blocks
<1>14. BlocksApart'
  <2>1. got' = got /\ brk' = brk /\ brk \in Nat /\ HeapLimit \in Nat
    BY UmallocAssumption DEF Link, IInv, TypeOK
  <2>2. size'[Base] = 0
    <3>1. Base \in Headers /\ Base # bp /\ size[Base] = 0 /\ Base \notin Blocks
      BY <1>1, HeapFacts DEF IInv, BlocksApart
    <3>2. ~(Base = p /\ JoinsLower)
      BY <1>1, <3>1
    <3> QED BY <1>4, <3>1, <3>2
  <2>3. \A a \in Blocks : a + size[a] <= brk /\ a + size[a] <= HeapLimit + 1
    BY DEF IInv, BlocksApart
  \* A unit of a block is one of got, and those are in the heap.
  <2>4. ASSUME NEW a \in B2 PROVE a + size'[a] <= brk /\ a + size'[a] <= HeapLimit + 1
    <3>1. a \in Nat /\ size'[a] \in Nat \ {0} /\ a \in Blocks
      BY <1>2, <1>10, <1>12
    <3> DEFINE m == a + size'[a] - 1
    <3>2. B2 \in SUBSET Nat /\ \A b \in B2 : size'[b] \in Nat
      BY <1>2, <1>10, <1>12
    <3>3. m \in Nat /\ a <= m /\ m < a + size'[a]
      BY <3>1
    <3>4. m \in Cover(B2, size')
      BY <3>2, <3>3, CoverMembers
    <3>5. m \in Cover(Blocks, size)
      BY <1>2, <1>12, <3>4
    <3>6. \A b \in Blocks : size[b] \in Nat
      BY <1>2
    <3>7. PICK b \in Blocks : b <= m /\ m < b + size[b]
      BY <1>2, <3>5, <3>6, CoverMembers
    <3>8. /\ b \in Nat /\ size[b] \in Nat
          /\ b + size[b] <= brk /\ b + size[b] <= HeapLimit + 1
      BY <1>2, <2>3, <3>7
    <3> QED BY <2>1, <3>1, <3>7, <3>8
  <2> QED BY <1>12, <1>13, <2>1, <2>2, <2>4 DEF BlocksApart
<1> QED
  BY <1>10, <1>13, <1>14

LEMMA LinkKeepsList ==
    ASSUME IInv, Link
    PROVE  /\ Linked((OnList \cup {bp}) \ Swallowed, ptr')
           /\ p \in ((OnList \cup {bp}) \ Swallowed) \cup {Base}
<1> DEFINE u == ptr[p]
           F1 == OnList \cup {bp}
           n1 == [a \in Headers |-> IF a = p THEN bp ELSE IF a = bp THEN u ELSE ptr[a]]
           F2 == IF JoinsUpper THEN F1 \ {u} ELSE F1
           n2 == [a \in Headers |-> IF a = bp THEN UpperPtr ELSE n1[a]]
           F3 == IF JoinsLower THEN F2 \ {bp} ELSE F2
<1>1. /\ bp \in Headers /\ bp \in Nat /\ bp >= 2 /\ bp \notin OnList
      /\ p \in OnList \cup {Base} /\ p \in Headers /\ p \in Nat
      /\ u \in OnList \cup {Base} /\ u \in Headers
      /\ p < bp /\ (u = Base \/ bp < u)
      /\ JoinsUpper => (u \in OnList /\ bp < u /\ u \in Nat)
      /\ JoinsLower => p \in OnList
      /\ Swallowed = (IF JoinsUpper THEN {u} ELSE {}) \cup (IF JoinsLower THEN {bp} ELSE {})
      /\ UpperPtr = IF JoinsUpper THEN ptr[u] ELSE u
  BY BetweenProperties DEF Swallowed, UpperPtr
<1>2. /\ OnList \in SUBSET (Nat \ {0}) /\ Linked(OnList, ptr) /\ OnList \subseteq Headers
      /\ Base \in Headers /\ Base = 0
  BY HeapFacts DEF IInv
<1>3. \A a \in Headers :
        ptr'[a] = IF a \in Swallowed THEN Base
                  ELSE IF a = bp THEN UpperPtr
                  ELSE IF a = p THEN (IF JoinsLower THEN UpperPtr ELSE bp) ELSE ptr[a]
  BY LinkWrites
<1>4. p # bp /\ (JoinsUpper => u # p /\ u # bp) /\ bp # Base /\ (JoinsUpper => u # Base)
  BY <1>1, <1>2
<1>5. /\ F1 \in SUBSET (Nat \ {0}) /\ F1 \subseteq Headers
      /\ F2 \in SUBSET (Nat \ {0}) /\ F2 \subseteq Headers
      /\ bp \in F1 /\ bp \in F2
  BY <1>1, <1>2, <1>4
<1>6. /\ \A a \in Headers : n1[a] = IF a = p THEN bp ELSE IF a = bp THEN u ELSE ptr[a]
      /\ \A a \in Headers : n2[a] = IF a = bp THEN UpperPtr ELSE n1[a]
  OBVIOUS
<1> HIDE DEF u, n1, n2, JoinsUpper, JoinsLower, Swallowed, UpperPtr
<1>7. Linked(F1, n1)
  <2>1. \A a \in OnList \cup {bp, Base} :
          n1[a] = IF a = p THEN bp ELSE IF a = bp THEN ptr[p] ELSE ptr[a]
    BY <1>1, <1>2, <1>6 DEF u
  <2>2. ptr[p] = Base \/ bp < ptr[p]
    BY <1>1 DEF u
  <2>3. bp \in Nat \ {0}
    BY <1>1
  <2> QED BY <1>1, <1>2, <2>1, <2>2, <2>3, LinkedWith
<1>8. Linked(F2, n2)
  <2>1. CASE JoinsUpper
    <3>1. n1[bp] = u /\ n1[u] = ptr[u] /\ u \in F1 /\ UpperPtr = ptr[u]
      BY <1>1, <1>4, <1>6, <2>1
    <3>2. \A a \in (F1 \ {u}) \cup {Base} : n2[a] = IF a = bp THEN n1[u] ELSE n1[a]
      BY <1>2, <1>5, <1>6, <3>1
    <3>3. F2 = F1 \ {u}
      BY <2>1
    <3> HIDE DEF F1, F2
    <3>4. Linked(F1 \ {u}, n2)
      BY <1>5, <1>7, <3>1, <3>2, LinkedWithout
    <3> QED BY <3>3, <3>4
  <2>2. CASE ~JoinsUpper
    <3>1. F2 = F1 /\ UpperPtr = u
      BY <1>1, <2>2
    <3>2. \A a \in F1 \cup {Base} : n2[a] = n1[a]
      BY <1>2, <1>4, <1>5, <1>6, <3>1
    <3> QED BY <1>7, <3>1, <3>2 DEF Linked
  <2> QED BY <2>1, <2>2
<1>9. Linked(F3, ptr')
  <2>1. CASE JoinsLower
    <3>1. n2[p] = bp /\ n2[bp] = UpperPtr
      BY <1>1, <1>4, <1>6
    <3>2. F3 = F2 \ {bp} /\ F2 \ {bp} = OnList \ Swallowed
      BY <1>1, <2>1
    <3>3. ASSUME NEW a \in (F2 \ {bp}) \cup {Base}
          PROVE  ptr'[a] = IF a = p THEN n2[bp] ELSE n2[a]
      <4>1. a \in Headers /\ a # bp /\ a \notin Swallowed
        BY <1>1, <1>2, <1>4, <1>5, <3>2
      <4> QED BY <1>3, <1>6, <2>1, <3>1, <4>1
    <3>4. p \in F2 \cup {Base}
      BY <1>1, <1>4
    <3> HIDE DEF F2, F3
    <3>5. Linked(F2 \ {bp}, ptr')
      BY <1>5, <1>8, <3>1, <3>3, <3>4, LinkedWithout
    <3> QED BY <3>2, <3>5
  <2>2. CASE ~JoinsLower
    <3>1. F3 = F2
      BY <2>2
    <3>2. ASSUME NEW a \in F2 \cup {Base} PROVE ptr'[a] = n2[a]
      <4>1. a \in Headers /\ a \notin Swallowed
        BY <1>1, <1>2, <1>4, <1>5, <2>2
      <4> QED BY <1>3, <1>4, <1>6, <2>2, <4>1
    <3> QED BY <1>8, <3>1, <3>2 DEF Linked
  <2> QED BY <2>1, <2>2
<1>10. F3 = (OnList \cup {bp}) \ Swallowed
  BY <1>1
<1>11. p \in F3 \cup {Base}
  BY <1>1, <1>4
<1> HIDE DEF F3
<1> QED
  BY <1>9, <1>10, <1>11

LEMMA LinkIInv == ASSUME IInv, Link PROVE IInv'
<1> DEFINE F == (OnList \cup {bp}) \ Swallowed
<1>1. /\ bp \in Blocks /\ bp \in Headers /\ bp \in Nat /\ bp \notin OnList
      /\ p \in F \cup {Base}
      /\ Linked(F, ptr') /\ F \in SUBSET (Nat \ {0})
      /\ Blocks' = Blocks \ Swallowed /\ BlocksApart'
      /\ size' \in [Headers -> Nat] /\ ptr' \in [Headers -> Headers]
      /\ Swallowed \subseteq OnList \cup {bp}
  <2>1. F \subseteq OnList \cup {bp} /\ bp \in Nat \ {0} /\ OnList \in SUBSET (Nat \ {0})
    BY BetweenProperties, HeapFacts
  <2> HIDE DEF F
  <2>2. F \in SUBSET (Nat \ {0})
    BY <2>1
  <2> QED BY <2>2, BetweenProperties, LinkWrites, LinkKeepsBlocks, LinkKeepsList DEF F
\* What is neither linked nor joined stays as it is.
<1>2. ASSUME NEW a \in Blocks \ (OnList \cup {bp})
      PROVE  size'[a] = size[a] /\ a \in Blocks' /\ a \in Addresses
  <2>1. a \notin Swallowed /\ a \in Headers /\ a \in Addresses
    BY <1>1, HeapFacts
  <2>2. ~(a = p /\ JoinsLower)
    BY BetweenProperties
  <2> QED BY <1>1, <2>1, <2>2, LinkWrites
<1>3. /\ req \in Requests /\ brk \in Nat /\ brk >= HeapStart /\ nunits \in Nat
      /\ DOMAIN blocks \subseteq Given /\ blocks \in [DOMAIN blocks -> Payloads]
      /\ OwnedAgrees /\ result = NULL
      /\ Owned \subseteq Blocks
      /\ UNCHANGED <<brk, got>> /\ freep' = p
  BY HeapFacts DEF IInv, TypeOK, CallAgrees, Link
<1>4. IF bp + 1 \in DOMAIN blocks
      THEN /\ call.op \in {"free", "realloc"} /\ bp = call.at - 1
           /\ IF call.op = "free" THEN buf = NULL
              ELSE /\ buf \in Nat /\ buf - 1 \in Blocks /\ buf \notin DOMAIN blocks
                   /\ size[buf - 1] = call.units + 1
      ELSE /\ call.op # "free" /\ buf = NULL /\ nunits = call.units + 1
  BY DEF IInv, CallAgrees, Link
<1>5. NULL \notin Blocks /\ NULL - 1 \notin Blocks
  BY HeapFacts
<1>6. bp + 1 \in DOMAIN blocks <=> bp \in Owned
  <2>1. \A at \in DOMAIN blocks : at \in Nat
    BY <1>3, HeapFacts
  <2> QED BY <1>1, <2>1 DEF Owned
\* The program's other blocks.
<1>7. ASSUME NEW at \in DOMAIN blocks, at # bp + 1
      PROVE  at - 1 \in Addresses /\ size'[at - 1] = blocks[at] + 1
  <2>1. at \in Nat /\ at - 1 \in Owned
    BY <1>3, HeapFacts DEF Owned
  <2>2. at - 1 # bp
    BY <1>1, <1>7, <2>1
  <2>3. at - 1 \notin OnList
    BY <2>1 DEF OnList
  <2> QED BY <1>2, <1>3, <2>1, <2>2, <2>3 DEF OwnedAgrees
<1> HIDE DEF F
<1>8. CASE bp \in Owned /\ call.op = "free"
  <2>1. /\ blocks' = Freed /\ req' = NoRequest /\ pc' = "idle" /\ nunits' = 0
        /\ bp' = NULL /\ buf' = NULL
    BY <1>8 DEF Link, Return
  <2>2. /\ DOMAIN blocks' = DOMAIN blocks \ {bp + 1}
        /\ \A at \in DOMAIN blocks' : blocks'[at] = blocks[at]
        /\ blocks' \in [DOMAIN blocks' -> Payloads]
    BY <1>3, <2>1 DEF Freed
  <2>3. Owned' = Owned \ {bp}
    <3>1. \A at \in DOMAIN blocks : at \in Nat
      BY <1>3, HeapFacts
    <3> QED BY <1>1, <2>2, <3>1 DEF Owned
  <2>4. OnList' = F
    <3>1. OnList = Blocks \ Owned
      BY <1>3, <1>4, <1>5, <1>6, <1>8 DEF OnList
    <3>2. OnList' = (Blocks \ Swallowed) \ (Owned \ {bp})
      BY <1>1, <1>5, <2>1, <2>3 DEF OnList
    <3> QED BY <1>1, <1>3, <1>8, <3>1, <3>2 DEF F
  <2>5. TypeOK'
    BY <1>1, <1>3, <2>1, <2>2 DEF TypeOK
  <2>6. OwnedAgrees'
    BY <1>7, <2>2 DEF OwnedAgrees
  <2>7. CallAgrees'
    BY <1>1, <1>3, <2>1, <2>4 DEF CallAgrees
  <2> QED
    BY <1>1, <2>4, <2>5, <2>6, <2>7 DEF IInv
<1>9. CASE bp \in Owned /\ call.op = "realloc"
  <2>1. /\ blocks' = Replaced /\ req' = NoRequest /\ pc' = "idle" /\ nunits' = 0
        /\ bp' = NULL /\ buf' = NULL
        /\ buf - 1 \in Blocks /\ buf \notin DOMAIN blocks /\ size[buf - 1] = call.units + 1
    BY <1>4, <1>6, <1>9 DEF Link, Return
  <2>2. call.units \in Payloads /\ call.units \in Nat
    BY <1>3, <1>9, RequestProperties DEF call
  <2>3. /\ buf \in Nat /\ buf - 1 \in Nat /\ buf = (buf - 1) + 1 /\ buf # bp + 1
        /\ \A at \in DOMAIN blocks : at \in Nat
    <3>1. \A at \in DOMAIN blocks : at \in Nat
      BY <1>3, HeapFacts
    <3>2. buf - 1 \in Nat
      BY <2>1, HeapFacts
    <3>3. buf # bp + 1
      BY <1>6, <1>9, <2>1
    <3> QED BY <1>4, <1>6, <1>9, <3>1, <3>2, <3>3
  <2>4. buf - 1 \notin OnList /\ buf - 1 # bp /\ buf - 1 \notin Owned
    <3>1. buf - 1 \notin OnList
      BY DEF OnList
    <3>2. buf - 1 # bp
      BY <1>1, <2>3
    <3>3. buf - 1 \notin Owned
      BY <2>1, <2>3 DEF Owned
    <3> QED BY <3>1, <3>2, <3>3
  <2>5. size'[buf - 1] = call.units + 1 /\ buf - 1 \in Blocks' /\ buf - 1 \in Addresses
    BY <1>2, <2>1, <2>4
  <2>6. buf \in Given
    <3>1. (buf - 1) + size'[buf - 1] <= HeapLimit + 1
      BY <1>1, <2>5 DEF BlocksApart
    <3>2. HeapLimit \in Nat
      BY UmallocAssumption
    <3> QED BY <2>2, <2>3, <2>5, <3>1, <3>2 DEF Addresses, Given, HeapStart
  <2>7. /\ DOMAIN blocks' = (DOMAIN blocks \ {bp + 1}) \cup {buf}
        /\ \A at \in DOMAIN blocks' :
             blocks'[at] = IF at = buf THEN call.units ELSE blocks[at]
        /\ blocks' \in [DOMAIN blocks' -> Payloads]
    BY <1>3, <2>1, <2>2 DEF Replaced
  <2>8. Owned' = (Owned \ {bp}) \cup {buf - 1}
    BY <1>1, <2>3, <2>7 DEF Owned
  <2>9. OnList' = F
    <3>1. OnList = Blocks \ (Owned \cup {buf - 1})
      BY <1>9 DEF OnList
    <3>2. OnList' = (Blocks \ Swallowed) \ ((Owned \ {bp}) \cup {buf - 1})
      BY <1>1, <1>5, <2>1, <2>8 DEF OnList
    <3> QED BY <1>1, <1>3, <1>9, <2>4, <3>1, <3>2 DEF F
  <2>10. TypeOK'
    BY <1>1, <1>3, <2>1, <2>6, <2>7 DEF TypeOK
  <2>11. OwnedAgrees'
    <3>1. ASSUME NEW at \in DOMAIN blocks'
          PROVE  at - 1 \in Addresses /\ size'[at - 1] = blocks'[at] + 1
      <4>1. CASE at = buf
        BY <2>5, <2>7, <4>1
      <4>2. CASE at # buf
        BY <1>7, <2>7, <4>2
      <4> QED BY <4>1, <4>2
    <3> QED BY <3>1 DEF OwnedAgrees
  <2>12. CallAgrees'
    BY <1>1, <1>3, <2>1, <2>9 DEF CallAgrees
  <2> QED
    BY <1>1, <2>9, <2>10, <2>11, <2>12 DEF IInv
\* The search goes on in the heap that has grown.
<1>10. CASE bp \notin Owned
  <2>1. call.op # "free" /\ ~(call.op = "realloc" /\ bp = call.at - 1)
    <3>1. call.op # "free"
      BY <1>4, <1>6, <1>10
    <3>2. call.op = "realloc" => call.at - 1 \in Owned
      BY <1>3, RequestProperties DEF call
    <3> QED BY <1>10, <3>1, <3>2
  <2>2. /\ prevp' = p /\ p' = ptr'[p] /\ pc' = "search" /\ bp' = NULL
        /\ UNCHANGED <<blocks, req, result, nunits, buf>>
    BY <2>1 DEF Link
  <2>3. buf = NULL /\ nunits = call.units + 1
    BY <1>4, <1>6, <1>10
  <2>4. Owned' = Owned /\ call' = call
    BY <2>2 DEF Owned, call
  <2>5. OnList' = F
    <3>1. OnList = Blocks \ (Owned \cup {bp})
      BY <1>5, <2>3 DEF OnList
    <3>2. OnList' = (Blocks \ Swallowed) \ Owned
      BY <1>1, <1>5, <2>2, <2>3, <2>4 DEF OnList
    <3> QED BY <1>1, <1>10, <3>1, <3>2 DEF F
  <2>6. TypeOK'
    BY <1>1, <1>3, <2>2 DEF TypeOK, Requests
  <2>7. OwnedAgrees'
    <3>1. \A at \in DOMAIN blocks : at # bp + 1
      BY <1>6, <1>10
    <3> QED BY <1>7, <2>2, <3>1 DEF OwnedAgrees
  <2>8. p' \in F \cup {Base}
    BY <1>1, <2>2 DEF Linked
  <2>9. \A a \in F : ~Passed(a)'
    BY <1>1, <1>3, <2>2, NonePassed DEF Passed
  <2>10. CallAgrees'
    BY <1>1, <1>3, <2>1, <2>2, <2>3, <2>4, <2>5, <2>8, <2>9 DEF CallAgrees
  <2> QED
    BY <1>1, <2>5, <2>6, <2>7, <2>10 DEF IInv
<1>11. bp \in Owned => call.op \in {"free", "realloc"}
  BY <1>4, <1>6
<1> QED
  BY <1>8, <1>9, <1>10, <1>11

LEMMA NextIInv == IInv /\ [Next]_vars => IInv'
<1> SUFFICES ASSUME IInv, [Next]_vars PROVE IInv'
  OBVIOUS
<1>1. ASSUME NEW r \in Requests, Call(r) PROVE IInv'
  BY <1>1, CallIInv
<1>2. CASE UNCHANGED vars
  <2> USE <1>2 DEF vars
  <2>1. Blocks' = Blocks /\ Owned' = Owned
    BY DEF Blocks, Owned
  <2>2. OnList' = OnList
    BY <2>1 DEF OnList
  <2>3. TypeOK'
    BY DEF IInv, TypeOK, Requests
  <2>4. BlocksApart' /\ OwnedAgrees' /\ Linked(OnList, ptr)'
    BY <2>1, <2>2 DEF IInv, BlocksApart, OwnedAgrees, Linked
  <2>5. CallAgrees'
    <3>1. \A a : Passed(a)' <=> Passed(a)
      BY DEF Passed
    <3>2. call' = call
      BY DEF call
    <3> QED BY <2>1, <2>2, <3>1, <3>2 DEF IInv, CallAgrees
  <2> QED BY <2>2, <2>3, <2>4, <2>5 DEF IInv
<1> QED
  BY <1>1, <1>2, NextBlockIInv, TakeIInv, MoreCoreIInv, SbrkFailsIInv, AdvanceIInv, LinkIInv,
     FreeNothingIInv
  DEF Next, Internal

LEMMA SpecIInv == Spec => []IInv
BY InitIInv, NextIInv, PTL DEF Spec

\* The headers lie in the heap and point to headers, the program's blocks are
\* in it, and a call is under way exactly when there is a request.
THEOREM UmallocTypeOK == Spec => []TypeOK
<1>1. IInv => TypeOK
  BY DEF IInv
<1> QED
  BY <1>1, SpecIInv, PTL

-----------------------------------------------------------------------------
(* The list, as it is found by following it                                *)

\* The least of some natural numbers.
LEMMA Least == ASSUME NEW S \in SUBSET Nat, S # {} PROVE \E n \in S : \A m \in S : n <= m
<1>1. IsWellFoundedOn(OpToRel(<, Nat), Nat)
  BY NatLessThanWellFounded
<1>2. PICK n \in S : \A m \in S : ~(<<m, n>> \in OpToRel(<, Nat))
  BY <1>1, WFMin
<1>3. ASSUME NEW m \in S PROVE n <= m
  <2>1. m \in Nat /\ n \in Nat
    OBVIOUS
  <2>2. ~(m < n)
    BY <1>2, <2>1 DEF OpToRel
  <2> QED BY <2>1, <2>2
<1> QED
  BY <1>3

\* f[n] is what has been found after n steps.
Follows(f, first, next, limit) ==
    f = [n \in 0..limit |->
           IF n = 0 THEN {first} ELSE f[n - 1] \cup {next[a] : a \in f[n - 1]}]

LEMMA FollowingExists ==
    ASSUME NEW next, NEW first, NEW limit \in Nat
    PROVE  \E f : Follows(f, first, next, limit)
<1> DEFINE None == {k \in Nat : ~\E f : Follows(f, first, next, k)}
<1>1. SUFFICES None = {}
  OBVIOUS
<1>2. SUFFICES ASSUME None # {} PROVE FALSE
  OBVIOUS
<1>3. None \in SUBSET Nat
  OBVIOUS
<1> HIDE DEF None
<1>4. PICK k \in None : \A m \in None : k <= m
  BY <1>2, <1>3, Least
<1>5. k \in Nat /\ ~\E f : Follows(f, first, next, k)
  BY DEF None
<1>6. k # 0
  <2>1. SUFFICES ASSUME k = 0 PROVE FALSE
    OBVIOUS
  <2>2. Follows([n \in 0..0 |-> {first}], first, next, 0)
    BY DEF Follows
  <2> QED BY <1>5, <2>1, <2>2
<1>7. k - 1 \in Nat /\ k - 1 \notin None
  BY <1>4, <1>5, <1>6
<1>8. PICK f : Follows(f, first, next, k - 1)
  BY <1>7 DEF None
<1> DEFINE g == [n \in 0..k |-> IF n = k THEN f[k - 1] \cup {next[a] : a \in f[k - 1]} ELSE f[n]]
<1>9. ASSUME NEW n \in 0..k
      PROVE  g[n] = IF n = 0 THEN {first} ELSE g[n - 1] \cup {next[a] : a \in g[n - 1]}
  <2>1. CASE n = 0
    <3>1. f[0] = {first}
      BY <1>7, <1>8 DEF Follows
    <3> QED BY <1>6, <2>1, <3>1
  <2>2. CASE n = k
    <3>1. g[k - 1] = f[k - 1]
      BY <1>5, <1>7
    <3> QED BY <1>5, <1>6, <2>2, <3>1
  <2>3. CASE n # 0 /\ n # k
    <3>1. n \in 0..(k - 1) /\ n - 1 \in 0..k /\ n - 1 # k
      BY <1>5, <2>3
    <3>2. f[n] = f[n - 1] \cup {next[a] : a \in f[n - 1]}
      BY <1>8, <2>3, <3>1 DEF Follows
    <3>3. g[n] = f[n] /\ g[n - 1] = f[n - 1]
      BY <2>3, <3>1
    <3> QED BY <2>3, <3>2, <3>3
  <2> QED BY <2>1, <2>2, <2>3
<1>10. Follows(g, first, next, k)
  BY <1>9 DEF Follows
<1> QED
  BY <1>5, <1>10

\* Every block on a list is found within as many steps as there are addresses.
LEMMA FollowingFinds ==
    ASSUME NEW limit \in Nat, NEW S \in SUBSET (1..limit), NEW next, Linked(S, next),
           NEW f, Follows(f, next[Base], next, limit)
    PROVE  f[limit] \subseteq S \cup {Base} /\ S \subseteq f[limit]
<1>0. \A a \in S \cup {Base} : a \in Int /\ 0 <= a /\ a <= limit
  BY DEF Base
\* m has been found and every block up to it.
<1> DEFINE Found(n) ==
             /\ f[n] \subseteq S \cup {Base}
             /\ \E m \in f[n] :
                  /\ \A a \in S : a <= m => a \in f[n]
                  /\ m > n \/ \A a \in S : a <= m
           Not == {n \in Nat : n <= limit /\ ~Found(n)}
<1>1. ASSUME NEW n \in 0..limit
      PROVE  f[n] = IF n = 0 THEN {next[Base]} ELSE f[n - 1] \cup {next[a] : a \in f[n - 1]}
  BY DEF Follows
<1>2. Found(0)
  <2>1. f[0] = {next[Base]}
    <3>1. 0 \in 0..limit
      OBVIOUS
    <3> QED BY <1>1, <3>1
  <2>2. \/ /\ next[Base] \in S /\ Base < next[Base]
           /\ \A b \in S : b <= Base \/ next[Base] <= b
        \/ /\ next[Base] = Base
           /\ \A b \in S : b <= Base
    BY DEF Linked
  <2>3. next[Base] \in Int /\ Base = 0
    BY <1>0, <2>2 DEF Base
  <2>4. ASSUME NEW a \in S, a <= next[Base] PROVE a = next[Base]
    <3>1. a \in Int /\ 0 < a
      OBVIOUS
    <3> QED BY <2>2, <2>3, <2>4, <3>1
  <2> QED BY <2>1, <2>2, <2>3, <2>4
<1>3. ASSUME NEW n \in Nat, n + 1 <= limit, Found(n) PROVE Found(n + 1)
  <2>1. f[n + 1] = f[n] \cup {next[a] : a \in f[n]}
    <3>1. n + 1 \in 0..limit /\ n + 1 # 0 /\ (n + 1) - 1 = n
      BY <1>3
    <3> QED BY <1>1, <3>1
  <2>2. \A a \in S \cup {Base} : next[a] \in S \cup {Base}
    BY DEF Linked
  <2>3. f[n + 1] \subseteq S \cup {Base}
    <3>1. ASSUME NEW x \in f[n + 1] PROVE x \in S \cup {Base}
      <4>1. x \in f[n] \/ \E a \in f[n] : x = next[a]
        BY <2>1, <3>1
      <4> QED BY <1>3, <2>2, <4>1
    <3> QED BY <3>1
  <2>4. PICK m \in f[n] :
          /\ \A a \in S : a <= m => a \in f[n]
          /\ m > n \/ \A a \in S : a <= m
    BY <1>3
  <2>5. m \in S \cup {Base} /\ m \in Int
    BY <1>0, <1>3
  <2>6. CASE \A a \in S : a <= m
    BY <2>1, <2>3, <2>4, <2>6
  <2>7. CASE \E a \in S : ~(a <= m)
    <3>1. next[m] \in S /\ m < next[m] /\ \A b \in S : b <= m \/ next[m] <= b
      BY <2>5, <2>7 DEF Linked
    <3>2. next[m] \in f[n + 1] /\ next[m] \in Int
      BY <1>0, <2>1, <2>4, <3>1
    <3>3. next[m] > n + 1
      BY <2>4, <2>5, <2>7, <3>1, <3>2
    <3>4. ASSUME NEW a \in S, a <= next[m] PROVE a \in f[n + 1]
      <4>1. a \in Int
        BY <1>0
      <4>2. a <= m \/ a = next[m]
        BY <3>1, <3>2, <3>4, <4>1
      <4> QED BY <2>1, <2>4, <3>2, <4>2
    <3> QED BY <2>3, <3>2, <3>3, <3>4
  <2> QED BY <2>6, <2>7
<1>4. Not = {}
  <2>1. SUFFICES ASSUME Not # {} PROVE FALSE
    OBVIOUS
  <2>2. Not \in SUBSET Nat
    OBVIOUS
  <2> HIDE DEF Not, Found
  <2>3. PICK k \in Not : \A m \in Not : k <= m
    BY <2>1, <2>2, Least
  <2>4. k \in Nat /\ k <= limit /\ ~Found(k) /\ k # 0
    BY <1>2 DEF Not
  <2>5. k - 1 \in Nat /\ (k - 1) + 1 = k /\ k - 1 \notin Not /\ k - 1 <= limit
    BY <2>3, <2>4
  <2>6. Found(k - 1)
    BY <2>5 DEF Not
  <2>7. Found((k - 1) + 1)
    BY <1>3, <2>4, <2>5, <2>6
  <2> QED BY <2>4, <2>5, <2>7
<1>5. Found(limit)
  <2> HIDE DEF Found
  <2> QED BY <1>4
<1>6. PICK m \in f[limit] :
        /\ \A a \in S : a <= m => a \in f[limit]
        /\ m > limit \/ \A a \in S : a <= m
  BY <1>5
<1>7. m \in Int /\ m <= limit
  BY <1>0, <1>5, <1>6
<1>8. \A a \in S : a <= m
  BY <1>0, <1>6, <1>7
<1> QED
  BY <1>5, <1>6, <1>8

LEMMA FreeBlocksOnList == ASSUME IInv PROVE FreeBlocks = OnList
<1>1. HeapLimit \in Nat /\ OnList \in SUBSET (1..HeapLimit) /\ Linked(OnList, ptr)
  <2>1. \A a \in OnList : a \in 1..HeapLimit
    BY HeapFacts, UmallocAssumption
  <2> QED BY <2>1, UmallocAssumption DEF IInv
<1>2. \E f : Follows(f, ptr[Base], ptr, HeapLimit)
  BY <1>1, FollowingExists
<1>3. ASSUME NEW f, Follows(f, ptr[Base], ptr, HeapLimit)
      PROVE  f[HeapLimit] \subseteq OnList \cup {Base} /\ OnList \subseteq f[HeapLimit]
  <2> HIDE DEF OnList
  <2> QED BY <1>1, <1>3, FollowingFinds
<1>4. \E f : Follows(f, ptr[Base], ptr, HeapLimit) /\ Reached = f[HeapLimit]
  BY <1>2 DEF Reached, Follows
<1>5. Base \notin OnList
  BY HeapFacts
<1> QED
  BY <1>3, <1>4, <1>5 DEF FreeBlocks

\* No unit that sbrk gave is lost or given out twice: between calls each is in
\* exactly one block, one that free will find or one of the program's.
THEOREM UmallocEveryUnitOnce == Spec => []EveryUnitOnce
<1>1. ASSUME IInv, pc = "idle"
      PROVE  /\ FreeBlocks \cap Owned = {}
             /\ UNION {Units(a, size[a]) : a \in FreeBlocks \cup Owned} = got
             /\ \A a, b \in FreeBlocks \cup Owned :
                  a # b => Units(a, size[a]) \cap Units(b, size[b]) = {}
  <2>1. FreeBlocks = Blocks \ Owned /\ FreeBlocks \cup Owned = Blocks
    BY <1>1, FreeBlocksOnList, HeapFacts DEF OnList, IInv, CallAgrees
  <2>2. got = Cover(Blocks, size) /\ Apart(Blocks, size)
    BY <1>1 DEF IInv, BlocksApart
  <2>3. ASSUME NEW a \in Blocks, NEW b \in Blocks, a # b
        PROVE  Units(a, size[a]) \cap Units(b, size[b]) = {}
    <3>1. a \in Nat /\ b \in Nat /\ size[a] \in Nat /\ size[b] \in Nat
      BY <1>1, HeapFacts
    <3>2. a + size[a] <= b \/ b + size[b] <= a
      BY <2>2, <2>3, <3>1 DEF Apart
    <3> QED BY <3>1, <3>2 DEF Units
  <2> QED BY <2>1, <2>2, <2>3 DEF Cover
<1>2. IInv => EveryUnitOnce
  BY <1>1 DEF EveryUnitOnce
<1> QED
  BY <1>2, SpecIInv, PTL

\* malloc fails only when every free block is too small: a search that is
\* back at freep has looked at the whole list, wherever the rover began and
\* whatever the free of the new core has joined.
THEOREM UmallocFailsOnlyWhenFull == Spec => FailsOnlyWhenFull
<1>1. ASSUME IInv, SbrkFails, NEW a \in FreeBlocks PROVE size[a] < nunits
  <2>1. /\ pc = "search" /\ ~(size[p] >= nunits) /\ p = freep
        /\ \A b \in OnList : Passed(b) => size[b] < nunits
        /\ a \in OnList
    BY <1>1, FreeBlocksOnList DEF SbrkFails, Fits, AllSearched, IInv, CallAgrees
  <2>2. nunits \in Nat /\ \A b \in OnList : size[b] \in Nat /\ b \in Int
    BY <1>1, HeapFacts DEF IInv, TypeOK
  <2>3. freep \in Int
    BY <1>1, <2>2 DEF IInv, CallAgrees, Base
  <2>4. CASE a = p
    BY <2>1, <2>2, <2>4
  <2>5. CASE a # p
    <3>1. freep < a \/ a < freep
      BY <2>1, <2>2, <2>3, <2>5
    <3> QED BY <2>1, <2>3, <3>1 DEF Passed
  <2> QED BY <2>4, <2>5
<1>2. IInv /\ [Next]_vars => [SbrkFails => \A a \in FreeBlocks : size[a] < nunits]_vars
  BY <1>1
<1> QED
  BY <1>2, SpecIInv, PTL DEF Spec, FailsOnlyWhenFull

-----------------------------------------------------------------------------
(* The heap that the program sees                                          *)

\* What is behind the header of a block that the program does not own
\* overlaps none of the program's blocks.
LEMMA NewUnused ==
    ASSUME IInv, NEW B \in SUBSET Nat, NEW sz, Apart(B, sz), Owned \subseteq B,
           \A at \in DOMAIN blocks : sz[at - 1] = blocks[at] + 1,
           NEW h \in B, h \notin Owned, NEW n \in Nat, sz[h] = n + 1
    PROVE  Promise!Unused(Promise!Units(h + 1, n))
<1>1. ASSUME NEW at \in DOMAIN blocks
      PROVE  Promise!Units(at, blocks[at]) \cap Promise!Units(h + 1, n) = {}
  <2>1. at \in Nat /\ blocks[at] \in Nat
    <3>1. at \in Given /\ blocks[at] \in Payloads
      BY DEF IInv, TypeOK
    <3> QED BY <3>1, UmallocAssumption DEF Payloads, Given, HeapStart
  <2>2. at - 1 \in Owned
    BY DEF Owned
  <2>3. at - 1 \in B /\ at - 1 # h /\ sz[at - 1] = blocks[at] + 1
    BY <2>2
  <2>4. at - 1 \in Nat
    BY <2>3
  <2>5. (at - 1) + sz[at - 1] <= h \/ h + sz[h] <= at - 1
    <3>1. CASE at - 1 < h
      BY <2>3, <3>1 DEF Apart
    <3>2. CASE h < at - 1
      BY <2>3, <3>2 DEF Apart
    <3> QED BY <2>3, <2>4, <3>1, <3>2
  <2> QED BY <2>1, <2>3, <2>5 DEF Promise!Units
<1> QED
  BY <1>1 DEF Promise!Unused

\* What realloc delegates is what it promises.
LEMMA Meanings ==
    ASSUME req \in Requests
    PROVE  /\ Promise!Frees <=> call.op = "free"
           /\ Promise!Resizes <=> call.op = "realloc"
           /\ Promise!Allocates <=> call.op = "malloc"
           /\ call.op # "malloc" => call.at = req.at
           /\ call.op # "free" => call.units = req.units
<1>1. req.op \in {"malloc", "free", "realloc"}
  BY DEF Requests
<1>2. CASE req.op # "realloc"
  BY <1>1, <1>2 DEF call, Delegated, Promise!Frees, Promise!Resizes, Promise!Allocates
<1>3. CASE req.op = "realloc"
  BY <1>3 DEF call, Delegated, Promise!Frees, Promise!Resizes, Promise!Allocates
<1> QED
  BY <1>2, <1>3

LEMMA CallIsCall == ASSUME IInv, NEW r \in Requests, Call(r) PROVE Promise!Next
<1>1. /\ req = NoRequest /\ req' = r /\ result' = NULL /\ UNCHANGED blocks
      /\ DOMAIN blocks \subseteq Given
  BY DEF Call, IInv, TypeOK
<1>2. r.op # "malloc" => r.at \in DOMAIN blocks \cup {NULL}
  BY DEF Requests
<1>3. r \in Promise!Requests
  BY <1>1 DEF Requests, Promise!Requests
<1> QED
  BY <1>1, <1>2, <1>3 DEF Promise!Next, Promise!Call

LEMMA FreeNothingIsFree == ASSUME IInv, FreeNothing PROVE Promise!Next
<1>1. /\ req \in Requests /\ req # NoRequest /\ result = NULL
      /\ call.op = "free" /\ call.at = NULL
  BY RequestProperties DEF FreeNothing, IInv, TypeOK, CallAgrees
<1>2. blocks' = Promise!Without(req.at) /\ req' = NoRequest /\ result' = result
  <2>1. NULL \notin DOMAIN blocks
    <3>1. DOMAIN blocks \subseteq Given
      BY DEF IInv, TypeOK
    <3> QED BY <3>1 DEF Given, HeapStart, NULL
  <2>2. blocks = [a \in DOMAIN blocks \ {NULL} |-> blocks[a]]
    BY <2>1 DEF IInv, TypeOK
  <2> QED BY <1>1, <2>2, Meanings DEF FreeNothing, Return, Promise!Without
<1> QED
  BY <1>1, <1>2, Meanings DEF Promise!Next, Promise!Free

LEMMA TakeIsMalloc ==
    ASSUME IInv, Take PROVE Promise!Next \/ UNCHANGED Promise!vars
<1>1. CASE call.op = "malloc"
  <2>1. blocks' = Allocated(Taken) /\ result' = Taken + 1 /\ req' = NoRequest
    BY <1>1 DEF Take, Return
  <2>2. blocks' = Promise!With(Taken + 1, call.units)
    BY <2>1 DEF Allocated, Promise!With
  <2>3. Taken + 1 \in Given /\ Taken + 1 \notin DOMAIN blocks
    <3>2. Taken \notin Owned /\ Taken \in Nat
      BY TakeProperties, HeapFacts
    <3>1. DOMAIN blocks' \subseteq Given
      BY TakeIInv DEF IInv, TypeOK
    <3> HIDE DEF Taken
    <3> QED BY <2>1, <3>1, <3>2 DEF Allocated, Owned
  <2>4. Promise!Unused(Promise!Units(Taken + 1, call.units))
    <3>1. /\ Taken \in Blocks' /\ Taken \notin Owned /\ size'[Taken] = call.units + 1
          /\ Apart(Blocks', size') /\ Owned \subseteq Blocks'
          /\ call.units \in Nat
          /\ \A a \in Owned : size'[a] = size[a]
      BY TakeProperties, HeapFacts DEF BlocksApart
    <3>2. \A at \in DOMAIN blocks : size'[at - 1] = blocks[at] + 1
      BY <3>1 DEF IInv, OwnedAgrees, Owned
    <3>3. Blocks' \in SUBSET Nat
      <4>1. \A a \in Blocks' : a \in Addresses
        BY DEF Blocks
      <4> QED BY <4>1, HeapFacts
    <3> QED BY <3>1, <3>2, <3>3, NewUnused
  <2>5. req # NoRequest /\ Promise!Allocates /\ call.units = req.units
    BY <1>1, RequestProperties, Meanings DEF IInv, TypeOK, Take
  <2> HIDE DEF Taken
  <2> QED BY <1>1, <2>1, <2>2, <2>3, <2>4, <2>5 DEF Promise!Next, Promise!Malloc
<1>2. CASE call.op # "malloc"
  BY <1>2 DEF Take, Promise!vars
<1> QED
  BY <1>1, <1>2

LEMMA SbrkFailsIsFail == ASSUME IInv, SbrkFails PROVE Promise!Next
<1>1. /\ req \in Requests /\ call.op # "free" /\ result' = NULL /\ req' = NoRequest
      /\ UNCHANGED blocks
  BY DEF SbrkFails, Return, IInv, TypeOK, CallAgrees
<1>2. ~Promise!Frees /\ req # NoRequest
  BY <1>1, RequestProperties, Meanings
<1> QED
  BY <1>1, <1>2 DEF Promise!Next, Promise!Fail

LEMMA LinkIsFreeOrReallocate ==
    ASSUME IInv, Link PROVE Promise!Next \/ UNCHANGED Promise!vars
<1>1. /\ req \in Requests /\ req # NoRequest /\ result = NULL
      /\ bp \in Blocks
      /\ IF bp + 1 \in DOMAIN blocks
         THEN /\ call.op \in {"free", "realloc"} /\ bp = call.at - 1
              /\ IF call.op = "free" THEN buf = NULL
                 ELSE /\ buf \in Nat /\ buf - 1 \in Blocks /\ buf \notin DOMAIN blocks
                      /\ size[buf - 1] = call.units + 1
         ELSE call.op # "free"
  BY RequestProperties DEF IInv, TypeOK, CallAgrees, Link
<1>2. \A at \in DOMAIN blocks : at \in Nat
  BY HeapFacts
<1>3. call.op # "malloc" => (call.at \in DOMAIN blocks /\ call.at \in Nat /\ call.at = req.at)
  <2>1. call.op = "free" => call.at \in DOMAIN blocks \cup {NULL}
    BY <1>1, RequestProperties DEF call
  <2>2. call.op = "realloc" => call.at \in DOMAIN blocks
    BY <1>1, RequestProperties DEF call
  <2>3. call.op \in {"malloc", "free", "realloc"}
    BY <1>1, RequestProperties DEF call
  <2>4. bp \in Nat
    BY <1>1, HeapFacts
  <2>5. call.op = "free" => call.at # NULL
    BY <1>1, <2>4 DEF NULL
  <2> QED BY <1>1, <1>2, <2>1, <2>2, <2>3, <2>5, Meanings
<1>4. CASE call.op = "free"
  <2>1. bp + 1 = call.at
    BY <1>1, <1>3, <1>4
  <2>2. blocks' = Promise!Without(req.at)
    BY <1>3, <1>4, <2>1 DEF Link, Freed, Promise!Without
  <2>3. result' = result /\ req' = NoRequest
    BY <1>1, <1>4 DEF Link, Return
  <2> QED BY <1>1, <1>4, <2>2, <2>3, Meanings DEF Promise!Next, Promise!Free
<1>5. CASE call.op = "realloc" /\ bp = call.at - 1
  <2>1. bp + 1 = call.at /\ bp + 1 \in DOMAIN blocks
    BY <1>3, <1>5
  <2>2. /\ blocks' = [a \in (DOMAIN blocks \ {call.at}) \cup {buf} |->
                        IF a = buf THEN call.units ELSE blocks[a]]
        /\ result' = buf /\ req' = NoRequest
    BY <1>5, <2>1 DEF Link, Return, Replaced
  <2>3. buf \in Given
    <3>1. DOMAIN blocks' \subseteq Given
      BY LinkIInv DEF IInv, TypeOK
    <3> QED BY <2>2, <3>1
  <2>4. Promise!Unused(Promise!Units(buf, call.units))
    <3>1. /\ buf \in Nat /\ buf - 1 \in Blocks /\ buf \notin DOMAIN blocks
          /\ size[buf - 1] = call.units + 1 /\ call.units \in Nat
      BY <1>1, <1>5, <2>1, RequestProperties DEF call
    <3>2. buf - 1 \notin Owned /\ (buf - 1) + 1 = buf
      BY <1>2, <3>1 DEF Owned
    <3>3. /\ Blocks \in SUBSET Nat /\ Apart(Blocks, size) /\ Owned \subseteq Blocks
          /\ \A at \in DOMAIN blocks : size[at - 1] = blocks[at] + 1
      BY HeapFacts DEF IInv, BlocksApart, OwnedAgrees
    <3>4. Promise!Unused(Promise!Units((buf - 1) + 1, call.units))
      BY <3>1, <3>2, <3>3, NewUnused
    <3> QED BY <3>2, <3>4
  <2>5. call.units = req.units /\ call.at = req.at /\ Promise!Resizes
    BY <1>1, <1>5, Meanings
  <2>6. buf \notin DOMAIN blocks
    BY <1>1, <1>5, <2>1
  <2> QED BY <1>1, <1>5, <2>2, <2>3, <2>4, <2>5, <2>6 DEF Promise!Next, Promise!Reallocate
<1>6. CASE call.op # "free" /\ ~(call.op = "realloc" /\ bp = call.at - 1)
  BY <1>6 DEF Link, Promise!vars
<1> QED
  BY <1>4, <1>5, <1>6

\* The program sees a heap.  A call of malloc or realloc is one step of the
\* promise, its last: the block that is given overlaps none of the program's,
\* as large as was asked for, and the others stay as they are; when sbrk fails
\* the old block of realloc is still there.
THEOREM UmallocIsHeap == Spec => IsHeap
<1>1. Init => Promise!Init
  BY DEF Init, Promise!Init
<1>2. IInv /\ [Next]_vars => [Promise!Next]_(Promise!vars)
  <2> SUFFICES ASSUME IInv, [Next]_vars
               PROVE  Promise!Next \/ UNCHANGED Promise!vars
    OBVIOUS
  <2>1. ASSUME NEW r \in Requests, Call(r) PROVE Promise!Next
    BY <2>1, CallIsCall
  <2>2. CASE NextBlock \/ MoreCore \/ Advance
    BY <2>2 DEF NextBlock, MoreCore, Advance, Promise!vars
  <2>3. CASE UNCHANGED vars
    BY <2>3 DEF vars, Promise!vars
  <2> QED
    BY <2>1, <2>2, <2>3, TakeIsMalloc, SbrkFailsIsFail, LinkIsFreeOrReallocate, FreeNothingIsFree
    DEF Next, Internal
<1> QED
  BY <1>1, <1>2, SpecIInv, PTL DEF Spec, IsHeap, Promise!Spec
=============================================================================
