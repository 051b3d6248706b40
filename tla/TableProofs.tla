---------------------------- MODULE TableProofs ----------------------------
(***************************************************************************)
(* Proofs about the hash table: for any names, any hash function and any   *)
(* capacity, find_entry's loop ends, and the table implements a map.       *)
(***************************************************************************)
EXTENDS Table, FiniteSetTheorems, TLAPS

Positions(c) == 0 .. (c - 1)

\* How many steps find_entry takes from position h to position j.
Distance(h, j, c) == IF j >= h THEN j - h ELSE j - h + c
Nearer(k, p, j, c) == Distance(Home(k, c), p, c) < Distance(Home(k, c), j, c)

Used(a, c) == {j \in Positions(c) : a[j] # Unused}

Entries == [key : Names \cup {Null}, value : Values \cup {Self}]

KeysUnique(a, c) ==
    \A i, j \in Positions(c) : (a[i].key # Null /\ a[i].key = a[j].key) => i = j

\* A search for a name that is there meets no unused entry on its way.
ChainsUnbroken(a, c) ==
    \A j, p \in Positions(c) :
        (a[j].key # Null /\ Nearer(a[j].key, p, j, c)) => a[p] # Unused

WellFormed(a, c) ==
    /\ a \in [Positions(c) -> Entries]
    /\ \A j \in Positions(c) : a[j].key # Null => a[j].value \in Values
    /\ KeysUnique(a, c)
    /\ ChainsUnbroken(a, c)

\* A search for k in a has reached i and remembers tombstone t: it has met
\* neither k nor an unused entry, and t is a tombstone it went past.
Reached(a, c, k, i, t) ==
    /\ i \in Positions(c)
    /\ \A p \in Positions(c) : Nearer(k, p, i, c) => (a[p] # Unused /\ a[p].key # k)
    /\ t # NoIndex => (t \in Positions(c) /\ Nearer(k, t, i, c) /\ IsTombstone(a[t]))

-----------------------------------------------------------------------------
Resizing == pc \in {"move", "place"}

\* The counter is the number of entries not unused, and at most half are.
CountAgrees ==
    /\ capacity = 0 \/ capacity >= MinCapacity
    /\ capacity <= MaxCapacity
    /\ count = Cardinality(Used(entries, capacity))
    /\ count <= capacity \div 2
    /\ pc = "probe" => IF req.op = "put" THEN count < capacity \div 2 ELSE count # 0

\* A put that finds the table half used fits the bound of the model.
FitsBound ==
    /\ (pc = "start" /\ req.op = "put" /\ HalfUsed) => NewCapacity <= MaxCapacity
    /\ Resizing => (req.op = "put" /\ HalfUsed /\ NewCapacity <= MaxCapacity)

TakenKeys == {j \in Positions(moved) : entries[j].key # Null}

\* The new array holds what was moved so far, once each.
NewAgrees ==
    Resizing =>
        /\ moved <= capacity
        /\ WellFormed(new, NewCapacity)
        /\ new_count = Cardinality(TakenKeys)
        /\ new_count = Cardinality(Used(new, NewCapacity))
        /\ \A i \in Positions(NewCapacity) :
             new[i] # Unused => \E j \in TakenKeys : new[i] = entries[j]
        /\ \A j \in TakenKeys : \E i \in Positions(NewCapacity) : new[i] = entries[j]

SearchAgrees ==
    /\ pc = "probe" => Reached(entries, capacity, req.key, index, tombstone)
    /\ pc = "place" =>
         /\ moved < capacity /\ entries[moved].key # Null
         /\ Reached(new, NewCapacity, entries[moved].key, index, tombstone)

IInv ==
    /\ TypeOK
    /\ WellFormed(entries, capacity)
    /\ CountAgrees
    /\ FitsBound
    /\ NewAgrees
    /\ SearchAgrees

-----------------------------------------------------------------------------
LEMMA HomeInRange ==
    ASSUME NEW k \in Names, NEW c \in Nat, c > 0
    PROVE  Home(k, c) \in Positions(c)
<1>1. Hash[k] \in Nat
  BY TableAssumption
<1> QED
  BY <1>1 DEF Home, Positions

\* A search visits the positions in the order of their distances from home.
LEMMA DistanceProperties ==
    ASSUME NEW c \in Nat, NEW h \in Positions(c)
    PROVE  /\ \A i \in Positions(c) : Distance(h, i, c) \in Positions(c)
           /\ Distance(h, h, c) = 0
           /\ \A i, j \in Positions(c) : Distance(h, i, c) = Distance(h, j, c) => i = j
           /\ \A i \in Positions(c) :
                /\ After(i, c) \in Positions(c)
                /\ \/ Distance(h, i, c) = c - 1
                   \/ Distance(h, After(i, c), c) = Distance(h, i, c) + 1
BY DEF Distance, Positions, After

LEMMA UsedFinite ==
    ASSUME NEW c \in Nat, NEW a
    PROVE  /\ IsFiniteSet(Used(a, c))
           /\ Cardinality(Used(a, c)) \in Nat
<1>1. IsFiniteSet(Positions(c))
  BY FS_Interval DEF Positions
<1>2. Used(a, c) \subseteq Positions(c)
  BY DEF Used
<1> QED
  BY <1>1, <1>2, FS_Subset, FS_CardinalityType

\* When fewer entries are used than there are, some entry is unused.
LEMMA UnusedExists ==
    ASSUME NEW c \in Nat, NEW a, Cardinality(Used(a, c)) < c
    PROVE  \E p \in Positions(c) : a[p] = Unused
<1>1. Cardinality(Positions(c)) = c
  BY FS_Interval DEF Positions
<1>2. SUFFICES ASSUME \A p \in Positions(c) : a[p] # Unused PROVE FALSE
  OBVIOUS
<1>3. Used(a, c) = Positions(c)
  BY <1>2 DEF Used
<1> QED
  BY <1>1, <1>3

\* Storing an entry that is not unused uses one entry more if it takes an
\* unused one.
LEMMA StoreCounted ==
    ASSUME NEW c \in Nat, NEW a \in [Positions(c) -> Entries], NEW f \in Positions(c),
           NEW e \in Entries, e # Unused
    PROVE  Cardinality(Used([a EXCEPT ![f] = e], c)) =
               IF a[f] = Unused THEN Cardinality(Used(a, c)) + 1
                                ELSE Cardinality(Used(a, c))
<1> DEFINE b == [a EXCEPT ![f] = e]
<1>1. \A p \in Positions(c) : b[p] = IF p = f THEN e ELSE a[p]
  OBVIOUS
<1> HIDE DEF b
<1>2. Used(b, c) = Used(a, c) \cup {f}
  BY <1>1 DEF Used
<1>3. f \in Used(a, c) <=> a[f] # Unused
  BY DEF Used
<1>4. CASE a[f] = Unused
  BY <1>2, <1>3, <1>4, UsedFinite, FS_AddElement DEF b
<1>5. CASE a[f] # Unused
  <2>1. Used(b, c) = Used(a, c)
    BY <1>2, <1>3, <1>5
  <2> QED BY <2>1, <1>5 DEF b
<1> QED BY <1>4, <1>5

-----------------------------------------------------------------------------
(* What find_entry finds                                                   *)

\* The loop goes on: the position after i has been reached.
LEMMA ReachedStep ==
    ASSUME NEW c \in Nat, NEW a \in [Positions(c) -> Entries], NEW k \in Names,
           NEW i, NEW t, Reached(a, c, k, i, t), a[i] # Unused, a[i].key # k,
           Cardinality(Used(a, c)) < c
    PROVE  Reached(a, c, k, After(i, c),
                   IF IsTombstone(a[i]) /\ t = NoIndex THEN i ELSE t)
<1> DEFINE h == Home(k, c)
           n == After(i, c)
<1>1. i \in Positions(c) /\ c > 0
  BY DEF Reached, Positions
<1>2. h \in Positions(c)
  BY <1>1, HomeInRange
<1> HIDE DEF h, n
<1>3. \A p \in Positions(c) :
        Distance(h, p, c) <= Distance(h, i, c) => (a[p] # Unused /\ a[p].key # k)
  <2>1. ASSUME NEW p \in Positions(c), Distance(h, p, c) <= Distance(h, i, c)
        PROVE  a[p] # Unused /\ a[p].key # k
    <3>1. CASE p = i
      BY <3>1
    <3>2. CASE p # i
      <4>1. /\ Distance(h, p, c) # Distance(h, i, c)
            /\ Distance(h, p, c) \in Positions(c)
            /\ Distance(h, i, c) \in Positions(c)
        BY <1>1, <1>2, <3>2, DistanceProperties
      <4>2. Distance(h, p, c) < Distance(h, i, c)
        BY <2>1, <4>1 DEF Positions
      <4> QED BY <4>2 DEF Reached, Nearer, h
    <3> QED BY <3>1, <3>2
  <2> QED BY <2>1
<1>4. PICK q \in Positions(c) : a[q] = Unused
  BY UnusedExists
<1>5. /\ n \in Positions(c)
      /\ Distance(h, n, c) = Distance(h, i, c) + 1
      /\ \A p \in Positions(c) : Distance(h, p, c) \in Positions(c)
  <2>1. /\ Distance(h, q, c) \in Positions(c)
        /\ Distance(h, i, c) \in Positions(c)
        /\ n \in Positions(c)
        /\ \/ Distance(h, i, c) = c - 1
           \/ Distance(h, n, c) = Distance(h, i, c) + 1
        /\ \A p \in Positions(c) : Distance(h, p, c) \in Positions(c)
    BY <1>1, <1>2, DistanceProperties DEF n
  <2>2. ~(Distance(h, q, c) <= Distance(h, i, c))
    BY <1>3, <1>4
  <2> QED BY <2>1, <2>2 DEF Positions
<1>6. ASSUME NEW p \in Positions(c), Distance(h, p, c) < Distance(h, n, c)
      PROVE  a[p] # Unused /\ a[p].key # k
  <2>1. Distance(h, p, c) <= Distance(h, i, c)
    BY <1>1, <1>5, <1>6 DEF Positions
  <2> QED BY <1>3, <2>1
<1>7. Nearer(k, i, n, c)
  BY <1>1, <1>5 DEF Nearer, h, Positions
<1>8. (t # NoIndex) =>
        (t \in Positions(c) /\ Nearer(k, t, n, c) /\ IsTombstone(a[t]))
  <2>1. ASSUME t # NoIndex
        PROVE  t \in Positions(c) /\ Distance(h, t, c) < Distance(h, i, c) /\ IsTombstone(a[t])
    BY <2>1 DEF Reached, Nearer, h
  <2>2. ASSUME t # NoIndex
        PROVE  Distance(h, t, c) < Distance(h, n, c)
    BY <2>1, <2>2, <1>1, <1>5 DEF Positions
  <2> QED BY <2>1, <2>2 DEF Nearer, h
<1> QED
  BY <1>1, <1>5, <1>6, <1>7, <1>8 DEF Reached, Nearer, h, n

FoundIn(a, i, t) == IF a[i].key = Null /\ t # NoIndex THEN t ELSE i

\* The loop has stopped: what it returns is the entry of the name, or one
\* that is free while the name is nowhere; nothing unused is nearer home.
LEMMA SearchFinds ==
    ASSUME NEW c \in Nat, NEW a, WellFormed(a, c), NEW k \in Names,
           NEW i, NEW t, Reached(a, c, k, i, t), a[i] = Unused \/ a[i].key = k
    PROVE  /\ FoundIn(a, i, t) \in Positions(c)
           /\ \/ a[FoundIn(a, i, t)].key = k
              \/ /\ a[FoundIn(a, i, t)].key = Null
                 /\ \A j \in Positions(c) : a[j].key # k
           /\ \A p \in Positions(c) :
                Nearer(k, p, FoundIn(a, i, t), c) => a[p] # Unused
<1> DEFINE h == Home(k, c)
           f == FoundIn(a, i, t)
<1>1. /\ k # Null
      /\ i \in Positions(c) /\ c > 0
      /\ h \in Positions(c)
  BY TableAssumption, HomeInRange DEF Reached, Positions
<1>2. \A p \in Positions(c) :
        Distance(h, p, c) < Distance(h, i, c) => (a[p] # Unused /\ a[p].key # k)
  BY DEF Reached, Nearer
<1>3. t # NoIndex =>
        (t \in Positions(c) /\ Distance(h, t, c) < Distance(h, i, c) /\ IsTombstone(a[t]))
  BY DEF Reached, Nearer
<1> HIDE DEF h
<1>4. \A p \in Positions(c) : Distance(h, p, c) \in Nat
  <2>1. \A p \in Positions(c) : Distance(h, p, c) \in Positions(c)
    BY <1>1, DistanceProperties
  <2> QED BY <2>1 DEF Positions
<1>5. CASE a[i].key = k
  <2>1. f = i
    BY <1>1, <1>5 DEF FoundIn
  <2> QED BY <1>1, <1>2, <1>5, <2>1 DEF Nearer, h
<1>6. CASE a[i] = Unused
  <2>1. \A j \in Positions(c) : a[j].key # k
    <3>1. SUFFICES ASSUME NEW j \in Positions(c), a[j].key = k PROVE FALSE
      OBVIOUS
    <3>2. j # i
      BY <1>1, <1>6, <3>1 DEF Unused
    <3>3. ~(Distance(h, j, c) < Distance(h, i, c))
      BY <1>2, <3>1
    <3>4. Distance(h, j, c) # Distance(h, i, c)
      BY <1>1, <3>2, DistanceProperties
    <3>5. Distance(h, i, c) < Distance(h, j, c)
      BY <1>1, <1>4, <3>3, <3>4
    <3> QED BY <1>1, <1>6, <3>1, <3>5 DEF WellFormed, ChainsUnbroken, Nearer, h
  <2>2. a[i].key = Null
    BY <1>6 DEF Unused
  <2>3. CASE t = NoIndex
    BY <1>1, <1>2, <2>1, <2>2, <2>3 DEF FoundIn, Nearer, h
  <2>4. CASE t # NoIndex
    <3>1. /\ f = t
          /\ t \in Positions(c)
          /\ a[t].key = Null
          /\ Distance(h, t, c) < Distance(h, i, c)
      BY <1>3, <2>2, <2>4 DEF FoundIn, IsTombstone
    <3>2. ASSUME NEW p \in Positions(c), Distance(h, p, c) < Distance(h, t, c)
          PROVE  a[p] # Unused
      <4>1. Distance(h, p, c) < Distance(h, i, c)
        BY <1>1, <1>4, <3>1, <3>2
      <4> QED BY <1>2, <4>1
    <3> QED BY <2>1, <3>1, <3>2 DEF Nearer, h
  <2> QED BY <2>3, <2>4
<1> QED BY <1>5, <1>6

\* Storing the name where the search ended leaves every name once, and no
\* search broken.
LEMMA StoreWellFormed ==
    ASSUME NEW c \in Nat, NEW a, WellFormed(a, c), NEW k \in Names, NEW f \in Positions(c),
           NEW v \in Values,
           \/ a[f].key = k
           \/ a[f].key = Null /\ \A j \in Positions(c) : a[j].key # k,
           \A p \in Positions(c) : Nearer(k, p, f, c) => a[p] # Unused
    PROVE  WellFormed([a EXCEPT ![f] = [key |-> k, value |-> v]], c)
<1> DEFINE e == [key |-> k, value |-> v]
           b == [a EXCEPT ![f] = e]
<1>1. k # Null /\ e \in Entries /\ e.key = k /\ e.value = v /\ e # Unused
  BY TableAssumption DEF Entries, Unused
<1>2. b \in [Positions(c) -> Entries]
  BY <1>1 DEF WellFormed
<1>3. \A p \in Positions(c) : b[p] = IF p = f THEN e ELSE a[p]
  BY DEF WellFormed
<1> HIDE DEF b, e
<1>4. \A j \in Positions(c) : b[j].key # Null => b[j].value \in Values
  BY <1>1, <1>3 DEF WellFormed
<1>5. KeysUnique(b, c)
  <2>1. \A j \in Positions(c) : j # f => a[j].key # k
    BY <1>1 DEF WellFormed, KeysUnique
  <2> QED BY <1>1, <1>3, <2>1 DEF WellFormed, KeysUnique
<1>6. ChainsUnbroken(b, c)
  <2>1. ASSUME NEW j \in Positions(c), NEW p \in Positions(c),
               b[j].key # Null, Nearer(b[j].key, p, j, c)
        PROVE  b[p] # Unused
    <3>1. CASE p = f
      BY <1>1, <1>3, <3>1
    <3>2. CASE p # f /\ j = f
      <4>1. b[j].key = k /\ b[p] = a[p]
        BY <1>1, <1>3, <3>2
      <4> QED BY <2>1, <3>2, <4>1
    <3>3. CASE p # f /\ j # f
      <4>1. b[j] = a[j] /\ b[p] = a[p]
        BY <1>3, <3>3
      <4> QED BY <2>1, <4>1 DEF WellFormed, ChainsUnbroken
    <3> QED BY <3>1, <3>2, <3>3
  <2> QED BY <2>1 DEF ChainsUnbroken
<1> QED
  BY <1>2, <1>4, <1>5, <1>6 DEF WellFormed, b, e

\* A tombstone in place of an entry leaves every search unbroken.
LEMMA DeleteWellFormed ==
    ASSUME NEW c \in Nat, NEW a, WellFormed(a, c), NEW f \in Positions(c)
    PROVE  WellFormed([a EXCEPT ![f] = DeletedEntry], c)
<1> DEFINE b == [a EXCEPT ![f] = DeletedEntry]
<1>1. DeletedEntry \in Entries /\ DeletedEntry.key = Null /\ DeletedEntry # Unused
  BY TableAssumption DEF Entries, Unused, DeletedEntry
<1>2. b \in [Positions(c) -> Entries]
  BY <1>1 DEF WellFormed
<1>3. \A p \in Positions(c) : b[p] = IF p = f THEN DeletedEntry ELSE a[p]
  BY DEF WellFormed
<1> HIDE DEF b
<1>4. \A j \in Positions(c) : b[j].key # Null => b[j].value \in Values
  BY <1>1, <1>3 DEF WellFormed
<1>5. KeysUnique(b, c)
  BY <1>1, <1>3 DEF WellFormed, KeysUnique
<1>6. ChainsUnbroken(b, c)
  BY <1>1, <1>3 DEF WellFormed, ChainsUnbroken
<1> QED
  BY <1>2, <1>4, <1>5, <1>6 DEF WellFormed, b

-----------------------------------------------------------------------------
LEMMA RequestProperties ==
    ASSUME NEW r \in Requests
    PROVE  /\ r.key \in Names
           /\ r.op \in {"put", "get", "delete"}
           /\ r.op = "put" => r.value \in Values
BY DEF Requests

LEMMA ReachedStart ==
    ASSUME NEW c \in Nat, c > 0, NEW a, NEW k \in Names
    PROVE  Reached(a, c, k, Home(k, c), NoIndex)
<1> DEFINE h == Home(k, c)
<1>1. h \in Positions(c)
  BY HomeInRange
<1> HIDE DEF h
<1>2. /\ Distance(h, h, c) = 0
      /\ \A p \in Positions(c) : Distance(h, p, c) \in Positions(c)
  BY <1>1, DistanceProperties
<1>3. \A p \in Positions(c) : ~(Distance(h, p, c) < Distance(h, h, c))
  BY <1>2 DEF Positions
<1> QED
  BY <1>1, <1>3 DEF Reached, Nearer, h

\* A table grows enough for the name that made it grow and one more.
LEMMA NewCapacityProperties ==
    ASSUME capacity \in Nat, capacity = 0 \/ capacity >= MinCapacity
    PROVE  /\ NewCapacity \in Nat
           /\ NewCapacity >= MinCapacity
           /\ NewCapacity > 0
           /\ capacity \div 2 < NewCapacity \div 2
           /\ capacity \div 2 < NewCapacity
BY TableAssumption DEF NewCapacity

LEMMA TakenFinite ==
    ASSUME NEW n \in Nat
    PROVE  IsFiniteSet({j \in Positions(n) : entries[j].key # Null})
<1>1. IsFiniteSet(Positions(n))
  BY FS_Interval DEF Positions
<1> QED
  BY <1>1, FS_Subset

\* No more entries are in the new array than the table counts; there is
\* room for one more as long as there are entries to be moved.
LEMMA NewHasRoom ==
    ASSUME IInv, Resizing
    PROVE  /\ new_count <= count
           /\ new_count < NewCapacity
           /\ NewCapacity \in Nat /\ NewCapacity > 0
<1>1. /\ capacity \in Nat /\ moved \in Nat /\ moved <= capacity
      /\ count = Cardinality(Used(entries, capacity))
      /\ new_count = Cardinality(TakenKeys)
      /\ count <= capacity \div 2
      /\ new_count \in Nat /\ count \in Nat
  BY DEF IInv, TypeOK, CountAgrees, NewAgrees
<1>2. TakenKeys \subseteq Used(entries, capacity)
  BY <1>1 DEF TakenKeys, Used, Positions, Unused
<1>3. new_count <= count
  BY <1>1, <1>2, UsedFinite, FS_Subset
<1>4. /\ NewCapacity \in Nat /\ NewCapacity > 0
      /\ capacity \div 2 < NewCapacity
  BY <1>1, NewCapacityProperties DEF IInv, CountAgrees
<1>5. capacity \div 2 \in Nat
  BY <1>1
<1> QED
  BY <1>1, <1>3, <1>4, <1>5

\* What find_entry returns to its two callers.
LEMMA FoundProperties ==
    ASSUME IInv, pc = "probe", Stops(Entry)
    PROVE  /\ Found = FoundIn(entries, index, tombstone)
           /\ Found \in Positions(capacity)
           /\ \/ entries[Found].key = req.key
              \/ /\ entries[Found].key = Null
                 /\ \A j \in Positions(capacity) : entries[j].key # req.key
           /\ \A p \in Positions(capacity) :
                Nearer(req.key, p, Found, capacity) => entries[p] # Unused
<1>1. /\ capacity \in Nat
      /\ req.key \in Names
      /\ WellFormed(entries, capacity)
      /\ Reached(entries, capacity, req.key, index, tombstone)
  BY RequestProperties DEF IInv, TypeOK, SearchAgrees
<1>2. entries[index] = Unused \/ entries[index].key = req.key
  BY DEF Stops, Entry, EntryAt, Moving, Key
<1>3. Found = FoundIn(entries, index, tombstone)
  BY DEF Found, FoundIn, Entry, EntryAt, Moving
<1> QED
  BY <1>1, <1>2, <1>3, SearchFinds

\* A name that is being moved finds an unused entry.
LEMMA PlaceProperties ==
    ASSUME IInv, pc = "place", Stops(Entry)
    PROVE  /\ Found \in Positions(NewCapacity)
           /\ new[Found] = Unused
           /\ \A j \in Positions(NewCapacity) : new[j].key # entries[moved].key
           /\ \A p \in Positions(NewCapacity) :
                Nearer(entries[moved].key, p, Found, NewCapacity) => new[p] # Unused
<1> DEFINE k == entries[moved].key
<1>1. /\ NewCapacity \in Nat
      /\ WellFormed(new, NewCapacity)
      /\ Reached(new, NewCapacity, k, index, tombstone)
      /\ moved \in Positions(capacity)
      /\ k # Null
  BY NewHasRoom DEF IInv, TypeOK, SearchAgrees, NewAgrees, Resizing, Positions
<1>2. entries \in [Positions(capacity) -> Entries]
  BY DEF IInv, WellFormed
<1>3. k \in Names
  BY <1>1, <1>2 DEF Entries
<1>4. new[index] = Unused \/ new[index].key = k
  BY DEF Stops, Entry, EntryAt, Moving, Key
<1>5. Found = FoundIn(new, index, tombstone)
  BY DEF Found, FoundIn, Entry, EntryAt, Moving
<1>6. \A j \in TakenKeys : j \in Positions(capacity) /\ j # moved
  BY <1>1 DEF IInv, TypeOK, TakenKeys, Positions
<1>7. \A j \in Positions(NewCapacity) :
        new[j] # Unused => (new[j].key # Null /\ new[j].key # k)
  <2>1. ASSUME NEW j \in Positions(NewCapacity), new[j] # Unused
        PROVE  new[j].key # Null /\ new[j].key # k
    <3>1. PICK l \in TakenKeys : new[j] = entries[l]
      BY <2>1 DEF IInv, NewAgrees, Resizing
    <3>2. l \in Positions(capacity) /\ l # moved /\ entries[l].key # Null
      BY <1>6 DEF TakenKeys
    <3> QED BY <1>1, <3>1, <3>2 DEF IInv, WellFormed, KeysUnique
  <2> QED BY <2>1
<1>8. \A j \in Positions(NewCapacity) : new[j].key # k
  <2>1. Unused.key = Null
    BY DEF Unused
  <2> QED BY <1>1, <1>7, <2>1
<1> HIDE DEF k
<1>9. /\ Found \in Positions(NewCapacity)
      /\ new[Found].key = k \/ new[Found].key = Null
      /\ \A p \in Positions(NewCapacity) :
           Nearer(k, p, Found, NewCapacity) => new[p] # Unused
  BY <1>1, <1>3, <1>4, <1>5, SearchFinds
<1>10. new[Found] = Unused
  BY <1>7, <1>8, <1>9
<1> QED
  BY <1>8, <1>9, <1>10 DEF k

-----------------------------------------------------------------------------
(* The invariant is inductive: one lemma for each step that changes what   *)
(* it speaks of                                                            *)

LEMMA InitIInv == Init => IInv
<1> SUFFICES ASSUME Init PROVE IInv
  OBVIOUS
<1> USE DEF Init
<1>1. Positions(0) = {}
  BY DEF Positions
<1>2. entries \in [Positions(0) -> Entries]
  BY <1>1
<1>3. TypeOK
  BY <1>1, <1>2, TableAssumption DEF TypeOK, Indices, Positions, Entries, NoIndex
<1>4. WellFormed(entries, capacity)
  BY <1>1, <1>2 DEF WellFormed, KeysUnique, ChainsUnbroken
<1>5. CountAgrees
  <2>1. Used(entries, capacity) = {}
    BY <1>1 DEF Used
  <2>2. Cardinality(Used(entries, capacity)) = 0
    BY <2>1, FS_EmptySet
  <2>3. 0 <= 0 \div 2
    OBVIOUS
  <2> QED BY <2>2, <2>3, TableAssumption DEF CountAgrees
<1> QED
  BY <1>3, <1>4, <1>5 DEF IInv, FitsBound, NewAgrees, SearchAgrees, Resizing

LEMMA CallIInv == ASSUME IInv, NEW r \in Requests, Call(r) PROVE IInv'
<1> USE DEF Call
<1>1. TypeOK'
  BY DEF IInv, TypeOK, Indices
<1>2. WellFormed(entries, capacity)'
  BY DEF IInv, WellFormed, KeysUnique, ChainsUnbroken, Nearer
<1>3. CountAgrees'
  BY DEF IInv, CountAgrees, Used
<1>4. FitsBound'
  BY DEF FitsBound, Resizing, HalfUsed, NewCapacity
<1> QED
  BY <1>1, <1>2, <1>3, <1>4 DEF IInv, NewAgrees, SearchAgrees, Resizing

\* Steps that give the answer and leave the table alone.
LEMMA AnswerIInv ==
    ASSUME IInv, NEW v \in Values \cup {Absent} \cup BOOLEAN, Return(v),
           UNCHANGED <<entries, capacity, count, new, moved, new_count>>
    PROVE  IInv'
<1> USE DEF Return, EndProbing, StartProbing
<1>1. TypeOK'
  BY TableAssumption DEF IInv, TypeOK, Indices, NoIndex
<1>2. WellFormed(entries, capacity)'
  BY DEF IInv, WellFormed, KeysUnique, ChainsUnbroken, Nearer
<1>3. CountAgrees'
  BY DEF IInv, CountAgrees, Used
<1> QED
  BY <1>1, <1>2, <1>3 DEF IInv, FitsBound, NewAgrees, SearchAgrees, Resizing

LEMMA FindIInv == ASSUME IInv, Find PROVE IInv'
<1> USE DEF Find, StartProbing
<1>1. /\ capacity \in Nat /\ count \in Nat
      /\ count <= capacity \div 2
      /\ req \in Requests /\ req.key \in Names
      /\ capacity <= MaxCapacity
  BY RequestProperties DEF IInv, TypeOK, CountAgrees
<1>2. capacity > 0
  BY <1>1 DEF HalfUsed
<1>3. Home(req.key, capacity) \in Positions(capacity)
  BY <1>1, <1>2, HomeInRange
<1>4. TypeOK'
  BY <1>1, <1>3, TableAssumption DEF IInv, TypeOK, Indices, NoIndex, Positions
<1>5. WellFormed(entries, capacity)'
  BY DEF IInv, WellFormed, KeysUnique, ChainsUnbroken, Nearer
<1>6. CountAgrees'
  BY <1>1 DEF IInv, CountAgrees, Used, HalfUsed
<1>7. SearchAgrees'
  <2>1. Reached(entries, capacity, req.key, Home(req.key, capacity), NoIndex)
    BY <1>1, <1>2, ReachedStart
  <2> QED BY <2>1 DEF SearchAgrees
<1> QED
  BY <1>4, <1>5, <1>6, <1>7 DEF IInv, FitsBound, NewAgrees, Resizing

LEMMA ProbeIInv == ASSUME IInv, Probe PROVE IInv'
<1> USE DEF Probe
<1> DEFINE n == After(index, Length)
           t == IF IsTombstone(Entry) /\ tombstone = NoIndex THEN index ELSE tombstone
<1>1. CASE pc = "probe"
  <2>1. /\ Length = capacity /\ Entry = entries[index] /\ Key = req.key
    BY <1>1 DEF Length, Entry, EntryAt, Key, Moving
  <2>2. /\ capacity \in Nat /\ capacity <= MaxCapacity
        /\ req.key \in Names
        /\ entries \in [Positions(capacity) -> Entries]
        /\ Reached(entries, capacity, req.key, index, tombstone)
        /\ Cardinality(Used(entries, capacity)) < capacity
    <3>1. req \in Requests /\ req.op \in {"put", "get", "delete"} /\ req.key \in Names
      BY <1>1, RequestProperties DEF IInv, TypeOK
    <3>2. /\ capacity \in Nat /\ count \in Nat /\ count <= capacity \div 2
          /\ count # 0 \/ count < capacity \div 2
          /\ count = Cardinality(Used(entries, capacity))
      BY <1>1 DEF IInv, TypeOK, CountAgrees
    <3>3. count < capacity
      BY <3>2
    <3> QED BY <1>1, <3>1, <3>2, <3>3 DEF IInv, WellFormed, CountAgrees, SearchAgrees
  <2>3. Reached(entries, capacity, req.key, n, t)
    BY <2>1, <2>2, ReachedStep DEF Stops
  <2>4. n \in Positions(capacity) /\ (t = NoIndex \/ t \in Positions(capacity))
    BY <2>3 DEF Reached
  <2>5. TypeOK'
    <3>1. index' = n /\ tombstone' = t
      OBVIOUS
    <3> HIDE DEF n, t
    <3>2. index' \in 0..MaxCapacity /\ tombstone' \in {NoIndex} \cup (0..(MaxCapacity - 1))
      BY <2>2, <2>4, <3>1, TableAssumption DEF Positions
    <3> QED BY <3>2 DEF IInv, TypeOK, Indices
  <2>6. WellFormed(entries, capacity)'
    BY DEF IInv, WellFormed, KeysUnique, ChainsUnbroken, Nearer
  <2>7. CountAgrees'
    BY DEF IInv, CountAgrees, Used
  <2>8. SearchAgrees'
    BY <1>1, <2>3 DEF SearchAgrees
  <2> QED
    BY <1>1, <2>5, <2>6, <2>7, <2>8 DEF IInv, FitsBound, NewAgrees, Resizing
<1>2. CASE pc = "place"
  <2> DEFINE k == entries[moved].key
  <2>1. /\ Length = NewCapacity /\ Entry = new[index] /\ Key = k
    BY <1>2 DEF Length, Entry, EntryAt, Key, Moving
  <2>2. /\ NewCapacity \in Nat /\ NewCapacity <= MaxCapacity
        /\ new \in [Positions(NewCapacity) -> Entries]
        /\ Reached(new, NewCapacity, k, index, tombstone)
        /\ Cardinality(Used(new, NewCapacity)) < NewCapacity
    BY <1>2, NewHasRoom DEF IInv, NewAgrees, WellFormed, SearchAgrees, FitsBound, Resizing
  <2>3. k \in Names
    <3>1. moved \in Positions(capacity) /\ k # Null
      BY <1>2 DEF IInv, TypeOK, SearchAgrees, Positions
    <3>2. entries \in [Positions(capacity) -> Entries]
      BY DEF IInv, WellFormed
    <3> QED BY <3>1, <3>2 DEF Entries
  <2> HIDE DEF k
  <2>4. Reached(new, NewCapacity, k, n, t)
    BY <2>1, <2>2, <2>3, ReachedStep DEF Stops
  <2>5. n \in Positions(NewCapacity) /\ (t = NoIndex \/ t \in Positions(NewCapacity))
    BY <2>4 DEF Reached
  <2>6. TypeOK'
    <3>1. index' = n /\ tombstone' = t
      OBVIOUS
    <3> HIDE DEF n, t
    <3>2. index' \in 0..MaxCapacity /\ tombstone' \in {NoIndex} \cup (0..(MaxCapacity - 1))
      BY <2>2, <2>5, <3>1, TableAssumption DEF Positions
    <3> QED BY <3>2 DEF IInv, TypeOK, Indices
  <2>7. WellFormed(entries, capacity)'
    BY DEF IInv, WellFormed, KeysUnique, ChainsUnbroken, Nearer
  <2>8. CountAgrees'
    BY <1>2 DEF IInv, CountAgrees, Used
  <2>9. FitsBound'
    BY DEF IInv, FitsBound, Resizing, HalfUsed, NewCapacity
  <2>10. NewAgrees'
    BY <1>2 DEF IInv, NewAgrees, Resizing, NewCapacity, TakenKeys,
         WellFormed, KeysUnique, ChainsUnbroken, Nearer, Used
  <2>11. SearchAgrees'
    BY <1>2, <2>4 DEF IInv, SearchAgrees, NewCapacity, k
  <2> QED
    BY <2>6, <2>7, <2>8, <2>9, <2>10, <2>11 DEF IInv
<1> QED
  BY <1>1, <1>2 DEF Probing

LEMMA PutIInv == ASSUME IInv, Put PROVE IInv'
<1> USE DEF Put, Return, EndProbing, StartProbing
<1> DEFINE e == [key |-> req.key, value |-> req.value]
<1>1. /\ capacity \in Nat /\ count \in Nat
      /\ req.key \in Names /\ req.value \in Values
      /\ WellFormed(entries, capacity)
      /\ entries \in [Positions(capacity) -> Entries]
      /\ count = Cardinality(Used(entries, capacity))
      /\ count < capacity \div 2
  BY RequestProperties DEF IInv, TypeOK, CountAgrees, WellFormed
<1>2. /\ Found \in Positions(capacity)
      /\ \/ entries[Found].key = req.key
         \/ /\ entries[Found].key = Null
            /\ \A j \in Positions(capacity) : entries[j].key # req.key
      /\ \A p \in Positions(capacity) :
           Nearer(req.key, p, Found, capacity) => entries[p] # Unused
  BY FoundProperties
<1>3. e \in Entries /\ e # Unused
  BY <1>1, TableAssumption DEF Entries, Unused
<1>4. WellFormed(entries', capacity)
  BY <1>1, <1>2, StoreWellFormed
<1>5. count' = Cardinality(Used(entries', capacity))
  <2> HIDE DEF e
  <2>1. entries' = [entries EXCEPT ![Found] = e] /\ count' = Counted(entries[Found])
    BY DEF e
  <2> HIDE DEF Put
  <2>2. Cardinality(Used([entries EXCEPT ![Found] = e], capacity)) =
          IF entries[Found] = Unused THEN Cardinality(Used(entries, capacity)) + 1
                                     ELSE Cardinality(Used(entries, capacity))
    BY <1>1, <1>2, <1>3, StoreCounted
  <2> QED BY <1>1, <2>1, <2>2 DEF Counted
<1>6. count' \in Nat /\ count' <= capacity \div 2
  BY <1>1 DEF Counted
<1>7. TypeOK'
  BY <1>1, <1>4, <1>6, TableAssumption DEF IInv, TypeOK, Indices, NoIndex, WellFormed,
     Positions, Entries
<1>8. CountAgrees'
  BY <1>5, <1>6 DEF IInv, CountAgrees, Used
<1>9. WellFormed(entries, capacity)'
  BY <1>4 DEF WellFormed, KeysUnique, ChainsUnbroken, Nearer
<1> QED
  BY <1>7, <1>8, <1>9 DEF IInv, FitsBound, NewAgrees, SearchAgrees, Resizing

LEMMA DeleteIInv == ASSUME IInv, Delete PROVE IInv'
<1> USE DEF Delete, Return, EndProbing, StartProbing
<1>1. /\ capacity \in Nat
      /\ WellFormed(entries, capacity)
      /\ entries \in [Positions(capacity) -> Entries]
      /\ count = Cardinality(Used(entries, capacity))
      /\ Found \in Positions(capacity)
  BY FoundProperties DEF IInv, TypeOK, CountAgrees, WellFormed
<1>2. DeletedEntry \in Entries /\ DeletedEntry # Unused
  BY TableAssumption DEF Entries, Unused, DeletedEntry
<1>3. WellFormed(entries', capacity)
  BY <1>1, DeleteWellFormed
<1>4. count = Cardinality(Used(entries', capacity))
  <2>1. CASE entries[Found].key = Null
    BY <1>1, <2>1
  <2>2. CASE entries[Found].key # Null
    <3>1. entries[Found] # Unused
      BY <2>2 DEF Unused
    <3> QED BY <1>1, <1>2, <2>2, <3>1, StoreCounted
  <2> QED BY <2>1, <2>2
<1>5. TypeOK'
  BY <1>1, <1>3, TableAssumption DEF IInv, TypeOK, Indices, NoIndex, WellFormed,
     Positions, Entries
<1>6. CountAgrees'
  BY <1>4 DEF IInv, CountAgrees, Used
<1>7. WellFormed(entries, capacity)'
  BY <1>3 DEF WellFormed, KeysUnique, ChainsUnbroken, Nearer
<1> QED
  BY <1>5, <1>6, <1>7 DEF IInv, FitsBound, NewAgrees, SearchAgrees, Resizing

LEMMA GrowIInv == ASSUME IInv, Grow PROVE IInv'
<1> USE DEF Grow
<1> DEFINE c == NewCapacity
<1>1. /\ c \in Nat /\ c > 0 /\ c <= MaxCapacity
      /\ new' = [j \in Positions(c) |-> Unused]
      /\ Unused \in Entries /\ Unused.key = Null
      /\ c' = c
  BY NewCapacityProperties, TableAssumption
     DEF IInv, TypeOK, CountAgrees, FitsBound, Positions, Entries, Unused, NewCapacity
<1> HIDE DEF c
<1>2. TypeOK'
  BY TableAssumption DEF IInv, TypeOK, Indices
<1>3. WellFormed(entries, capacity)'
  BY DEF IInv, WellFormed, KeysUnique, ChainsUnbroken, Nearer
<1>4. CountAgrees'
  BY DEF IInv, CountAgrees, Used
<1>5. FitsBound'
  BY <1>1 DEF FitsBound, Resizing, HalfUsed, c
<1>6. NewAgrees'
  <2>1. /\ \A j \in Positions(c) : new'[j] = Unused
        /\ new' \in [Positions(c) -> Entries]
    BY <1>1
  <2>2. WellFormed(new', c)
    BY <1>1, <2>1 DEF WellFormed, KeysUnique, ChainsUnbroken
  <2>3. Used(new', c) = {}
    BY <2>1 DEF Used
  <2>4. TakenKeys' = {}
    BY DEF TakenKeys, Positions
  <2>5. Cardinality(Used(new', c)) = 0 /\ Cardinality(TakenKeys') = 0
    BY <2>3, <2>4, FS_EmptySet
  <2>6. moved' <= capacity'
    BY DEF IInv, TypeOK
  <2>7. WellFormed(new, NewCapacity)' /\ Used(new, NewCapacity)' = Used(new', c)
    BY <1>1, <2>2 DEF c, WellFormed, KeysUnique, ChainsUnbroken, Nearer, Used
  <2>8. \A i \in Positions(c') : new'[i] = Unused
    BY <1>1, <2>1
  <2> QED BY <2>4, <2>5, <2>6, <2>7, <2>8 DEF NewAgrees, c
<1> QED
  BY <1>2, <1>3, <1>4, <1>5, <1>6 DEF IInv, SearchAgrees

LEMMA SkipIInv == ASSUME IInv, Skip PROVE IInv'
<1> USE DEF Skip
<1>1. moved \in Nat /\ capacity \in Nat /\ moved < capacity /\ capacity <= MaxCapacity
  BY DEF IInv, TypeOK, CountAgrees
<1>2. TypeOK'
  BY <1>1, TableAssumption DEF IInv, TypeOK, Indices
<1>3. WellFormed(entries, capacity)'
  BY DEF IInv, WellFormed, KeysUnique, ChainsUnbroken, Nearer
<1>4. CountAgrees'
  BY DEF IInv, CountAgrees, Used
<1>5. FitsBound'
  BY DEF IInv, FitsBound, Resizing, HalfUsed, NewCapacity
<1>6. NewAgrees'
  <2>1. Positions(moved + 1) = Positions(moved) \cup {moved}
    BY <1>1 DEF Positions
  <2>2. TakenKeys' = TakenKeys
    BY <2>1 DEF TakenKeys
  <2>3. moved' <= capacity'
    BY <1>1
  <2> QED BY <2>2, <2>3 DEF IInv, NewAgrees, Resizing, NewCapacity,
             WellFormed, KeysUnique, ChainsUnbroken, Nearer, Used
<1> QED
  BY <1>2, <1>3, <1>4, <1>5, <1>6 DEF IInv, SearchAgrees

LEMMA TakeIInv == ASSUME IInv, Take PROVE IInv'
<1> USE DEF Take, StartProbing
<1> DEFINE k == entries[moved].key
           h == Home(k, NewCapacity)
<1>1. /\ moved \in Positions(capacity) /\ k # Null
      /\ entries \in [Positions(capacity) -> Entries]
      /\ NewCapacity <= MaxCapacity
  BY DEF IInv, TypeOK, WellFormed, FitsBound, Resizing, Positions
<1>2. k \in Names
  BY <1>1 DEF Entries
<1>3. NewCapacity \in Nat /\ NewCapacity > 0
  BY NewHasRoom DEF Resizing
<1> HIDE DEF k
<1>4. h \in Positions(NewCapacity)
  BY <1>2, <1>3, HomeInRange
<1>5. Reached(new, NewCapacity, k, h, NoIndex)
  BY <1>2, <1>3, ReachedStart
<1>6. index' = h /\ tombstone' = NoIndex
  BY DEF k
<1> HIDE DEF h
<1>7. TypeOK'
  <2>1. index' \in 0..MaxCapacity /\ tombstone' \in {NoIndex}
    BY <1>1, <1>3, <1>4, <1>6, TableAssumption DEF Positions
  <2> QED BY <2>1 DEF IInv, TypeOK, Indices
<1>8. WellFormed(entries, capacity)'
  BY DEF IInv, WellFormed, KeysUnique, ChainsUnbroken, Nearer
<1>9. CountAgrees'
  BY DEF IInv, CountAgrees, Used
<1>10. FitsBound'
  BY DEF IInv, FitsBound, Resizing, HalfUsed, NewCapacity
<1>11. NewAgrees'
  BY DEF IInv, NewAgrees, Resizing, NewCapacity, TakenKeys,
     WellFormed, KeysUnique, ChainsUnbroken, Nearer, Used
<1>12. SearchAgrees'
  BY <1>5, <1>6 DEF SearchAgrees, NewCapacity, k
<1> QED
  BY <1>7, <1>8, <1>9, <1>10, <1>11, <1>12 DEF IInv

LEMMA PlaceIInv == ASSUME IInv, Place PROVE IInv'
<1> USE DEF Place, EndProbing, StartProbing
<1> DEFINE e == entries[moved]
           f == Found
           c == NewCapacity
<1>1. /\ moved \in Nat /\ capacity \in Nat /\ moved < capacity /\ capacity <= MaxCapacity
      /\ moved \in Positions(capacity)
      /\ new_count \in Nat
      /\ c \in Nat /\ c > 0 /\ c' = c
      /\ WellFormed(new, c) /\ new \in [Positions(c) -> Entries]
      /\ WellFormed(entries, capacity)
  BY NewHasRoom DEF IInv, TypeOK, CountAgrees, NewAgrees, SearchAgrees, Resizing,
     WellFormed, Positions, NewCapacity
<1>2. /\ e \in Entries /\ e.key # Null /\ e.key \in Names /\ e.value \in Values
      /\ e # Unused
      /\ e = [key |-> e.key, value |-> e.value]
  BY <1>1 DEF IInv, SearchAgrees, WellFormed, Entries, Unused
<1>3. /\ f \in Positions(c)
      /\ new[f] = Unused
      /\ \A j \in Positions(c) : new[j].key # e.key
      /\ \A p \in Positions(c) : Nearer(e.key, p, f, c) => new[p] # Unused
  BY PlaceProperties
<1>4. new' = [new EXCEPT ![f] = e]
  OBVIOUS
<1> HIDE DEF c, f, e
<1>5. \A j \in Positions(c) : new'[j] = IF j = f THEN e ELSE new[j]
  BY <1>1, <1>4
<1>6. WellFormed(new', c)
  <2>1. new[f].key = Null
    BY <1>3 DEF Unused
  <2> HIDE DEF Place
  <2>2. WellFormed([new EXCEPT ![f] = [key |-> e.key, value |-> e.value]], c)
    BY <1>1, <1>2, <1>3, <2>1, StoreWellFormed
  <2> QED BY <1>2, <1>4, <2>2
<1>7. Cardinality(Used(new', c)) = Cardinality(Used(new, c)) + 1
  <2> HIDE DEF Place
  <2>1. Cardinality(Used([new EXCEPT ![f] = e], c)) = Cardinality(Used(new, c)) + 1
    BY <1>1, <1>2, <1>3, StoreCounted
  <2> QED BY <1>4, <2>1
<1>8. TakenKeys' = TakenKeys \cup {moved} /\ moved \notin TakenKeys
  <2>1. Positions(moved + 1) = Positions(moved) \cup {moved} /\ moved \notin Positions(moved)
    BY <1>1 DEF Positions
  <2> QED BY <1>2, <2>1 DEF TakenKeys, e
<1>9. Cardinality(TakenKeys') = Cardinality(TakenKeys) + 1
  <2>1. IsFiniteSet(TakenKeys)
    BY <1>1, TakenFinite DEF TakenKeys
  <2> QED BY <1>8, <2>1, FS_AddElement
<1>10. TypeOK'
  BY <1>1, TableAssumption DEF IInv, TypeOK, Indices, NoIndex
<1>11. WellFormed(entries, capacity)'
  BY DEF IInv, WellFormed, KeysUnique, ChainsUnbroken, Nearer
<1>12. CountAgrees'
  BY DEF IInv, CountAgrees, Used
<1>13. FitsBound'
  BY DEF IInv, FitsBound, Resizing, HalfUsed, NewCapacity
<1>14. NewAgrees'
  <2>1. moved' <= capacity'
    BY <1>1
  <2>2. WellFormed(new, NewCapacity)' /\ Used(new, NewCapacity)' = Used(new', c)
    BY <1>1, <1>6 DEF c, WellFormed, KeysUnique, ChainsUnbroken, Nearer, Used
  <2>3. new_count' = Cardinality(TakenKeys') /\ new_count' = Cardinality(Used(new', c))
    BY <1>1, <1>7, <1>9 DEF IInv, NewAgrees, Resizing, c
  <2>4. /\ entries' = entries
        /\ \A i \in Positions(c) :
             new[i] # Unused => \E j \in TakenKeys : new[i] = entries[j]
        /\ \A j \in TakenKeys : \E i \in Positions(c) : new[i] = entries[j]
    BY DEF IInv, NewAgrees, Resizing, c
  <2>5. ASSUME NEW i \in Positions(c), new'[i] # Unused
        PROVE  \E j \in TakenKeys' : new'[i] = entries[j]
    BY <1>5, <1>8, <2>4, <2>5 DEF e
  <2>6. ASSUME NEW j \in TakenKeys'
        PROVE  \E i \in Positions(c) : new'[i] = entries[j]
    <3>1. CASE j = moved
      BY <1>3, <1>5, <3>1 DEF e
    <3>2. CASE j # moved
      <4>1. j \in TakenKeys
        BY <1>8, <3>2
      <4>2. PICK i \in Positions(c) : new[i] = entries[j]
        BY <2>4, <4>1
      <4>3. entries[j].key # Null
        BY <4>1 DEF TakenKeys
      <4>4. i # f
        BY <1>3, <4>2, <4>3 DEF Unused
      <4> QED BY <1>5, <4>2, <4>4
    <3> QED BY <3>1, <3>2
  <2> QED BY <1>1, <2>1, <2>2, <2>3, <2>4, <2>5, <2>6 DEF NewAgrees, c
<1> QED
  BY <1>10, <1>11, <1>12, <1>13, <1>14 DEF IInv, SearchAgrees

LEMMA AdjustedIInv == ASSUME IInv, Adjusted PROVE IInv'
<1> USE DEF Adjusted, StartProbing
<1> DEFINE c == NewCapacity
<1>1. /\ capacity \in Nat /\ count \in Nat /\ new_count \in Nat
      /\ capacity = 0 \/ capacity >= MinCapacity
      /\ c \in Nat /\ c > 0 /\ c >= MinCapacity /\ c <= MaxCapacity
      /\ req \in Requests /\ req.key \in Names /\ req.op = "put"
      /\ WellFormed(new, c) /\ new \in [Positions(c) -> Entries]
      /\ new_count = Cardinality(Used(new, c))
      /\ new_count <= count
      /\ count <= capacity \div 2
  BY RequestProperties, NewHasRoom, NewCapacityProperties DEF IInv, TypeOK, CountAgrees,
     FitsBound, NewAgrees, WellFormed, Resizing
<1>2. capacity \div 2 < c \div 2
  BY <1>1, NewCapacityProperties
<1>3. new_count < c \div 2
  BY <1>1, <1>2
<1>4. /\ Home(req.key, c) \in Positions(c)
      /\ Reached(new, c, req.key, Home(req.key, c), NoIndex)
  BY <1>1, HomeInRange, ReachedStart
<1>5. /\ entries' = new /\ capacity' = c /\ count' = new_count
      /\ index' = Home(req.key, c) /\ tombstone' = NoIndex
  OBVIOUS
<1> HIDE DEF c
<1>6. TypeOK'
  <2>1. /\ index' \in 0..MaxCapacity /\ tombstone' \in {NoIndex}
        /\ entries' \in [Indices' -> [key : Names \cup {Null}, value : Values \cup {Self}]]
    BY <1>1, <1>4, <1>5, TableAssumption DEF Positions, Indices, Entries
  <2> QED BY <1>1, <1>5, <2>1, TableAssumption DEF IInv, TypeOK
<1>7. WellFormed(entries, capacity)'
  BY <1>1, <1>5 DEF WellFormed, KeysUnique, ChainsUnbroken, Nearer
<1>8. CountAgrees'
  BY <1>1, <1>3, <1>5 DEF CountAgrees, Used
<1>9. SearchAgrees'
  BY <1>4, <1>5 DEF SearchAgrees
<1> QED
  BY <1>6, <1>7, <1>8, <1>9 DEF IInv, FitsBound, NewAgrees, Resizing

LEMMA NextIInv == IInv /\ [Next]_vars => IInv'
<1> SUFFICES ASSUME IInv, [Next]_vars PROVE IInv'
  OBVIOUS
<1>1. ASSUME NEW r \in Requests, Call(r) PROVE IInv'
  BY <1>1, CallIInv
<1>2. CASE ReturnEmpty
  <2> DEFINE v == IF req.op = "get" THEN Absent ELSE FALSE
  <2>1. v \in Values \cup {Absent} \cup BOOLEAN
    OBVIOUS
  <2>2. Return(v) /\ UNCHANGED <<entries, capacity, count, new, moved, new_count>>
    BY <1>2 DEF ReturnEmpty
  <2> HIDE DEF v
  <2> QED BY <2>1, <2>2, AnswerIInv
<1>3. CASE Get
  <2> DEFINE v == LookedUp(entries[Found])
  <2>1. Found \in Positions(capacity)
    BY <1>3, FoundProperties DEF Get
  <2>2. v \in Values \cup {Absent} \cup BOOLEAN
    BY <2>1 DEF LookedUp, IInv, WellFormed
  <2>3. Return(v) /\ UNCHANGED <<entries, capacity, count, new, moved, new_count>>
    BY <1>3 DEF Get
  <2> HIDE DEF v
  <2> QED BY <2>2, <2>3, AnswerIInv
<1>4. CASE UNCHANGED vars
  <2> USE <1>4 DEF vars
  <2>1. TypeOK'
    BY DEF IInv, TypeOK, Indices
  <2>2. WellFormed(entries, capacity)'
    BY DEF IInv, WellFormed, KeysUnique, ChainsUnbroken, Nearer
  <2>3. CountAgrees'
    BY DEF IInv, CountAgrees, Used
  <2>4. FitsBound'
    BY DEF IInv, FitsBound, Resizing, HalfUsed, NewCapacity
  <2>5. NewAgrees'
    BY DEF IInv, NewAgrees, Resizing, NewCapacity, TakenKeys,
       WellFormed, KeysUnique, ChainsUnbroken, Nearer, Used
  <2>6. SearchAgrees'
    BY DEF IInv, SearchAgrees, NewCapacity
  <2> QED
    BY <2>1, <2>2, <2>3, <2>4, <2>5, <2>6 DEF IInv
<1> QED
  BY <1>1, <1>2, <1>3, <1>4, FindIInv, ProbeIInv, PutIInv, DeleteIInv, GrowIInv, SkipIInv,
     TakeIInv, PlaceIInv, AdjustedIInv DEF Next, Internal

LEMMA SpecIInv == Spec => []IInv
BY InitIInv, NextIInv, PTL DEF Spec

\* The state keeps its types.
THEOREM TableTypeOK == Spec => []TypeOK
<1>1. IInv => TypeOK
  BY DEF IInv
<1> QED
  BY <1>1, SpecIInv, PTL

\* find_entry's loop ends whatever the names hash to: while it searches, the
\* table or the new array has an entry that was never used.
THEOREM TableProbeEnds == Spec => []ProbeEnds
<1>1. ASSUME IInv PROVE ProbeEnds
  <2>1. CASE pc = "probe"
    <3>1. /\ capacity \in Nat
          /\ Cardinality(Used(entries, capacity)) < capacity
      <4>1. /\ capacity \in Nat /\ count \in Nat /\ count <= capacity \div 2
            /\ count # 0 \/ count < capacity \div 2
            /\ count = Cardinality(Used(entries, capacity))
        BY <1>1, <2>1 DEF IInv, TypeOK, CountAgrees
      <4> QED BY <4>1
    <3>2. PICK p \in Positions(capacity) : entries[p] = Unused
      BY <3>1, UnusedExists
    <3> QED BY <2>1, <3>2 DEF ProbeEnds, Length, Moving, EntryAt, Stops, Positions
  <2>2. CASE pc = "place"
    <3>1. /\ NewCapacity \in Nat
          /\ Cardinality(Used(new, NewCapacity)) < NewCapacity
      BY <1>1, <2>2, NewHasRoom DEF IInv, NewAgrees, Resizing
    <3>2. PICK p \in Positions(NewCapacity) : new[p] = Unused
      BY <3>1, UnusedExists
    <3> QED BY <2>2, <3>2 DEF ProbeEnds, Length, Moving, EntryAt, Stops, Positions
  <2> QED BY <2>1, <2>2 DEF ProbeEnds, Probing
<1> QED
  BY <1>1, SpecIInv, PTL

-----------------------------------------------------------------------------
(* The table implements a map                                              *)

MapOf(a, c) ==
    [k \in {a[j].key : j \in Positions(c)} \ {Null} |->
        a[CHOOSE j \in Positions(c) : a[j].key = k].value]

\* What the entries stand for does not depend on which of them is found
\* first: no name is there twice.
LEMMA MapOfProperties ==
    ASSUME NEW c \in Nat, NEW a, WellFormed(a, c)
    PROVE  /\ MapOf(a, c) = [k \in DOMAIN MapOf(a, c) |-> MapOf(a, c)[k]]
           /\ \A k : k \in DOMAIN MapOf(a, c) <=>
                       (k # Null /\ \E j \in Positions(c) : a[j].key = k)
           /\ \A j \in Positions(c) :
                a[j].key # Null => MapOf(a, c)[a[j].key] = a[j].value
<1>1. ASSUME NEW j \in Positions(c), a[j].key # Null
      PROVE  MapOf(a, c)[a[j].key] = a[j].value
  <2> DEFINE k == a[j].key
             l == CHOOSE i \in Positions(c) : a[i].key = k
  <2>1. l \in Positions(c) /\ a[l].key = k
    OBVIOUS
  <2>2. l = j
    BY <1>1, <2>1 DEF WellFormed, KeysUnique
  <2>3. MapOf(a, c)[k] = a[l].value
    BY <1>1 DEF MapOf
  <2> QED BY <2>2, <2>3
<1> QED
  BY <1>1 DEF MapOf

\* Two functions of names that agree on their domains are the same map.
LEMMA SameMap ==
    ASSUME NEW c \in Nat, NEW a, WellFormed(a, c),
           NEW m, m = [k \in DOMAIN m |-> m[k]],
           \A k : k \in DOMAIN m <=> (k # Null /\ \E j \in Positions(c) : a[j].key = k),
           \A j \in Positions(c) : a[j].key # Null => m[a[j].key] = a[j].value
    PROVE  MapOf(a, c) = m
<1> DEFINE b == MapOf(a, c)
<1>1. b = [k \in DOMAIN b |-> b[k]]
  BY MapOfProperties
<1>2. \A k : k \in DOMAIN b <=> k \in DOMAIN m
  BY MapOfProperties
<1>3. DOMAIN b = DOMAIN m
  BY <1>2
<1>4. ASSUME NEW k \in DOMAIN b PROVE b[k] = m[k]
  <2>1. PICK j \in Positions(c) : a[j].key = k /\ k # Null
    BY MapOfProperties
  <2> QED BY <2>1, MapOfProperties
<1> HIDE DEF b
<1>5. b = m
  BY <1>1, <1>3, <1>4
<1> QED
  BY <1>5 DEF b

LEMMA ContentsIsMapOf == Contents = MapOf(entries, capacity)
BY DEF Contents, MapOf, Indices, Positions

\* What a step leaves as it was looks to a caller as it was.
LEMMA SilentStep ==
    ASSUME UNCHANGED <<entries, capacity, req, result>>
    PROVE  UNCHANGED Promise!vars
BY DEF Promise!vars, Contents, Indices

\* Growing the table moves every name with its value.
LEMMA AdjustedKeepsContents ==
    ASSUME IInv, Adjusted
    PROVE  Contents' = Contents
<1> DEFINE c == NewCapacity
           m == MapOf(entries, capacity)
<1>1. /\ capacity \in Nat /\ c \in Nat
      /\ WellFormed(new, c) /\ WellFormed(entries, capacity)
      /\ TakenKeys = {j \in Positions(capacity) : entries[j].key # Null}
  BY NewHasRoom DEF IInv, TypeOK, NewAgrees, Adjusted, Resizing, TakenKeys
<1>2. /\ \A i \in Positions(c) :
           new[i] # Unused => \E j \in TakenKeys : new[i] = entries[j]
      /\ \A j \in TakenKeys : \E i \in Positions(c) : new[i] = entries[j]
  BY DEF IInv, NewAgrees, Adjusted, Resizing
<1>3. entries' = new /\ capacity' = c
  BY DEF Adjusted
<1> HIDE DEF c
<1>4. /\ m = [k \in DOMAIN m |-> m[k]]
      /\ \A k : k \in DOMAIN m <=>
                  (k # Null /\ \E j \in Positions(capacity) : entries[j].key = k)
      /\ \A j \in Positions(capacity) :
           entries[j].key # Null => m[entries[j].key] = entries[j].value
  BY <1>1, MapOfProperties
<1> HIDE DEF m
<1>5. \A i \in Positions(c) : new[i].key # Null => \E j \in TakenKeys : new[i] = entries[j]
  BY <1>2 DEF Unused
<1>6. \A k : k \in DOMAIN m <=> (k # Null /\ \E i \in Positions(c) : new[i].key = k)
  <2>1. ASSUME NEW k, k \in DOMAIN m
        PROVE  k # Null /\ \E i \in Positions(c) : new[i].key = k
    <3>1. PICK j \in Positions(capacity) : entries[j].key = k /\ k # Null
      BY <1>4, <2>1
    <3>2. PICK i \in Positions(c) : new[i] = entries[j]
      BY <1>1, <1>2, <3>1
    <3> QED BY <3>1, <3>2
  <2>2. ASSUME NEW k, k # Null, NEW i \in Positions(c), new[i].key = k
        PROVE  k \in DOMAIN m
    BY <1>1, <1>4, <1>5, <2>2
  <2> QED BY <2>1, <2>2
<1>7. \A i \in Positions(c) : new[i].key # Null => m[new[i].key] = new[i].value
  BY <1>1, <1>4, <1>5
<1>8. MapOf(new, c) = m
  BY <1>1, <1>4, <1>6, <1>7, SameMap
<1>9. Contents' = MapOf(new, c)
  BY <1>3 DEF Contents, MapOf, Indices, Positions
<1> QED
  BY <1>8, <1>9, ContentsIsMapOf DEF m

\* What a search that has stopped knows of the name: it is in the map with
\* the entry's value, or not in the map.
LEMMA FoundInContents ==
    ASSUME IInv, pc = "probe", Stops(Entry)
    PROVE  /\ req.key \in DOMAIN Contents <=> entries[Found].key # Null
           /\ entries[Found].key # Null => Contents[req.key] = entries[Found].value
<1>1. /\ capacity \in Nat
      /\ WellFormed(entries, capacity)
      /\ req.key \in Names /\ req.key # Null
  BY RequestProperties, TableAssumption DEF IInv, TypeOK
<1>2. /\ Found \in Positions(capacity)
      /\ \/ entries[Found].key = req.key
         \/ /\ entries[Found].key = Null
            /\ \A j \in Positions(capacity) : entries[j].key # req.key
  BY FoundProperties
<1>3. /\ \A k : k \in DOMAIN Contents <=>
                  (k # Null /\ \E j \in Positions(capacity) : entries[j].key = k)
      /\ \A j \in Positions(capacity) :
           entries[j].key # Null => Contents[entries[j].key] = entries[j].value
  BY <1>1, MapOfProperties, ContentsIsMapOf
<1> QED
  BY <1>1, <1>2, <1>3

LEMMA PutImplements == ASSUME IInv, Put PROVE Promise!Put
<1> DEFINE m == [k \in DOMAIN Contents \cup {req.key} |->
                   IF k = req.key THEN req.value ELSE Contents[k]]
           f == Found
<1>1. /\ capacity \in Nat
      /\ req \in Requests /\ req # NoRequest /\ req.op = "put"
      /\ req.key \in Names /\ req.key # Null
      /\ WellFormed(entries, capacity)
      /\ entries \in [Positions(capacity) -> Entries]
  BY RequestProperties, TableAssumption, RequestAssumption DEF IInv, TypeOK, WellFormed, Put
<1>2. /\ f \in Positions(capacity)
      /\ \/ entries[f].key = req.key
         \/ /\ entries[f].key = Null
            /\ \A j \in Positions(capacity) : entries[j].key # req.key
  BY FoundProperties DEF Put
<1>3. /\ entries' = [entries EXCEPT ![f] = [key |-> req.key, value |-> req.value]]
      /\ capacity' = capacity
      /\ result' = (entries[f].key = Null)
      /\ req' = NoRequest
  BY DEF Put, Return
<1>4. WellFormed(entries', capacity)
  <2>1. WellFormed(entries', capacity')
    BY PutIInv DEF IInv, WellFormed, KeysUnique, ChainsUnbroken, Nearer
  <2> QED BY <1>3, <2>1
<1> HIDE DEF f
<1>5. \A j \in Positions(capacity) :
        entries'[j] = IF j = f THEN [key |-> req.key, value |-> req.value] ELSE entries[j]
  BY <1>1, <1>3
<1>6. /\ \A k : k \in DOMAIN Contents <=>
                  (k # Null /\ \E j \in Positions(capacity) : entries[j].key = k)
      /\ \A j \in Positions(capacity) :
           entries[j].key # Null => Contents[entries[j].key] = entries[j].value
  BY <1>1, MapOfProperties, ContentsIsMapOf
<1>7. \A k : k \in DOMAIN m <=>
               (k # Null /\ \E j \in Positions(capacity) : entries'[j].key = k)
  <2>1. DOMAIN m = DOMAIN Contents \cup {req.key}
    OBVIOUS
  <2>2. ASSUME NEW k, k # Null, NEW j \in Positions(capacity), entries'[j].key = k
        PROVE  k \in DOMAIN Contents \cup {req.key}
    BY <1>5, <1>6, <2>2
  <2>3. ASSUME NEW k \in DOMAIN Contents \cup {req.key}
        PROVE  k # Null /\ \E j \in Positions(capacity) : entries'[j].key = k
    <3>1. CASE k = req.key
      BY <1>1, <1>2, <1>5, <3>1
    <3>2. CASE k # req.key
      <4>1. PICK j \in Positions(capacity) : entries[j].key = k /\ k # Null
        BY <1>6, <2>3, <3>2
      <4>2. j # f
        BY <1>2, <3>2, <4>1
      <4> QED BY <1>5, <4>1, <4>2
    <3> QED BY <3>1, <3>2
  <2> HIDE DEF m
  <2> QED BY <2>1, <2>2, <2>3
<1>8. \A j \in Positions(capacity) : entries'[j].key # Null => m[entries'[j].key] = entries'[j].value
  <2>1. ASSUME NEW j \in Positions(capacity), entries'[j].key # Null
        PROVE  m[entries'[j].key] = entries'[j].value
    <3>1. CASE j = f
      BY <1>5, <3>1
    <3>2. CASE j # f
      <4>1. entries'[j] = entries[j]
        BY <1>5, <3>2
      <4>2. entries[j].key # req.key
        BY <1>1, <1>2, <2>1, <3>2, <4>1 DEF WellFormed, KeysUnique
      <4>3. entries[j].key \in DOMAIN Contents
        BY <1>6, <2>1, <4>1
      <4> QED BY <1>6, <2>1, <4>1, <4>2, <4>3
    <3> QED BY <3>1, <3>2
  <2> QED BY <2>1
<1>9. m = [k \in DOMAIN m |-> m[k]]
  OBVIOUS
<1> HIDE DEF m
<1>10. MapOf(entries', capacity) = m
  BY <1>1, <1>4, <1>7, <1>8, <1>9, SameMap
<1>11. Contents' = m
  BY <1>3, <1>10 DEF Contents, MapOf, Indices, Positions
<1>12. result' = (req.key \notin DOMAIN Contents)
  BY <1>3, FoundInContents DEF Put, f
<1> QED
  BY <1>1, <1>3, <1>11, <1>12 DEF Promise!Put, m

LEMMA DeleteImplements == ASSUME IInv, Delete PROVE Promise!Delete
<1> DEFINE m == [k \in DOMAIN Contents \ {req.key} |-> Contents[k]]
           f == Found
<1>1. /\ capacity \in Nat
      /\ req \in Requests /\ req # NoRequest /\ req.op = "delete"
      /\ req.key \in Names /\ req.key # Null
      /\ WellFormed(entries, capacity)
      /\ entries \in [Positions(capacity) -> Entries]
  BY RequestProperties, TableAssumption, RequestAssumption DEF IInv, TypeOK, WellFormed, Delete
<1>2. /\ f \in Positions(capacity)
      /\ \/ entries[f].key = req.key
         \/ /\ entries[f].key = Null
            /\ \A j \in Positions(capacity) : entries[j].key # req.key
  BY FoundProperties DEF Delete
<1>3. /\ entries' = IF entries[f].key = Null THEN entries
                    ELSE [entries EXCEPT ![f] = DeletedEntry]
      /\ capacity' = capacity
      /\ result' = (entries[f].key # Null)
      /\ req' = NoRequest
  BY DEF Delete, Return
<1>4. WellFormed(entries', capacity)
  <2>1. WellFormed(entries', capacity')
    BY DeleteIInv DEF IInv, WellFormed, KeysUnique, ChainsUnbroken, Nearer
  <2> QED BY <1>3, <2>1
<1> HIDE DEF f
<1>5. \A j \in Positions(capacity) :
        IF entries[j].key = req.key THEN entries'[j].key = Null ELSE entries'[j] = entries[j]
  <2>1. CASE entries[f].key = Null
    BY <1>1, <1>2, <1>3, <2>1
  <2>2. CASE entries[f].key # Null
    <3>1. entries[f].key = req.key
      BY <1>2, <2>2
    <3>2. \A j \in Positions(capacity) : entries[j].key = req.key <=> j = f
      BY <1>1, <1>2, <3>1 DEF WellFormed, KeysUnique
    <3>3. DeletedEntry.key = Null
      BY DEF DeletedEntry
    <3> QED BY <1>1, <1>2, <1>3, <2>2, <3>2, <3>3
  <2> QED BY <2>1, <2>2
<1>6. /\ \A k : k \in DOMAIN Contents <=>
                  (k # Null /\ \E j \in Positions(capacity) : entries[j].key = k)
      /\ \A j \in Positions(capacity) :
           entries[j].key # Null => Contents[entries[j].key] = entries[j].value
  BY <1>1, MapOfProperties, ContentsIsMapOf
<1>7. \A k : k \in DOMAIN m <=>
               (k # Null /\ \E j \in Positions(capacity) : entries'[j].key = k)
  <2>1. DOMAIN m = DOMAIN Contents \ {req.key}
    OBVIOUS
  <2>2. ASSUME NEW k, k # Null, NEW j \in Positions(capacity), entries'[j].key = k
        PROVE  k \in DOMAIN Contents \ {req.key}
    BY <1>5, <1>6, <2>2
  <2>3. ASSUME NEW k \in DOMAIN Contents \ {req.key}
        PROVE  k # Null /\ \E j \in Positions(capacity) : entries'[j].key = k
    BY <1>5, <1>6, <2>3
  <2> HIDE DEF m
  <2> QED BY <2>1, <2>2, <2>3
<1>8. \A j \in Positions(capacity) : entries'[j].key # Null => m[entries'[j].key] = entries'[j].value
  <2>1. ASSUME NEW j \in Positions(capacity), entries'[j].key # Null
        PROVE  m[entries'[j].key] = entries'[j].value
    <3>1. entries[j].key # req.key /\ entries'[j] = entries[j]
      BY <1>5, <2>1
    <3>2. entries[j].key \in DOMAIN Contents \ {req.key}
      BY <1>6, <2>1, <3>1
    <3> QED BY <1>6, <2>1, <3>1, <3>2
  <2> QED BY <2>1
<1>9. m = [k \in DOMAIN m |-> m[k]]
  OBVIOUS
<1> HIDE DEF m
<1>10. MapOf(entries', capacity) = m
  BY <1>1, <1>4, <1>7, <1>8, <1>9, SameMap
<1>11. Contents' = m
  <2>1. capacity' = capacity
    BY <1>3
  <2>2. Contents' = MapOf(entries', capacity')
    BY DEF Contents, MapOf, Indices, Positions
  <2> QED BY <1>10, <2>1, <2>2
<1>12. result' = (req.key \in DOMAIN Contents)
  BY <1>3, FoundInContents DEF Delete, f
<1> QED
  BY <1>1, <1>3, <1>11, <1>12 DEF Promise!Delete, m

LEMMA GetImplements == ASSUME IInv, Get PROVE Promise!Get
<1>1. req # NoRequest /\ req.op = "get" /\ req' = NoRequest
  BY RequestAssumption DEF IInv, TypeOK, Get, Return
<1>2. Contents' = Contents
  BY DEF Contents, Indices, Get
<1>3. /\ req.key \in DOMAIN Contents <=> entries[Found].key # Null
      /\ entries[Found].key # Null => Contents[req.key] = entries[Found].value
  BY FoundInContents DEF Get
<1>4. result' = LookedUp(entries[Found])
  BY DEF Get, Return
<1> QED
  BY <1>1, <1>2, <1>3, <1>4 DEF Promise!Get, LookedUp

\* A table that counts no entry stands for the empty map.
LEMMA ReturnEmptyImplements ==
    ASSUME IInv, ReturnEmpty PROVE Promise!Get \/ Promise!Delete
<1>1. /\ req \in Requests /\ req # NoRequest /\ req' = NoRequest
      /\ req.op \in {"get", "delete"}
      /\ result' = IF req.op = "get" THEN Absent ELSE FALSE
      /\ Contents' = Contents
  BY RequestProperties, RequestAssumption
     DEF IInv, TypeOK, ReturnEmpty, Return, Contents, Indices
<1>2. Used(entries, capacity) = {}
  <2>1. /\ capacity \in Nat
        /\ Cardinality(Used(entries, capacity)) = 0
    BY DEF IInv, TypeOK, CountAgrees, ReturnEmpty
  <2> QED BY <2>1, UsedFinite, FS_EmptySet
<1>3. DOMAIN Contents = {}
  BY <1>2 DEF Contents, Indices, Positions, Used, Unused
<1>4. Contents = [k \in DOMAIN Contents \ {req.key} |-> Contents[k]]
  BY <1>3 DEF Contents
<1>5. CASE req.op = "get"
  BY <1>1, <1>3, <1>5 DEF Promise!Get
<1>6. CASE req.op = "delete"
  <2>1. result' = FALSE
    BY <1>1, <1>6
  <2>2. (req.key \in DOMAIN Contents) = FALSE
    BY <1>3
  <2>3. result' = (req.key \in DOMAIN Contents)
    BY <2>1, <2>2
  <2> QED BY <1>1, <1>4, <1>6, <2>3 DEF Promise!Delete
<1> QED
  BY <1>1, <1>5, <1>6

\* A function of nothing is the empty tuple.
LEMMA EmptyFunction ==
    ASSUME NEW f, f = [x \in DOMAIN f |-> f[x]], DOMAIN f = {}
    PROVE  f = << >>
<1>1. f = [x \in {} |-> f[x]]
  OBVIOUS
<1>2. << >> = [x \in 1..0 |-> << >>[x]]
  OBVIOUS
<1> QED
  BY <1>1, <1>2

\* The table implements a map: every call returns what it would return on
\* the map that the entries stand for, whatever the names hash to and
\* however often the table grew.
THEOREM TableImplementsMap == Spec => ImplementsMap
<1>1. Init => Promise!Init
  <2> SUFFICES ASSUME Init PROVE Promise!Init
    OBVIOUS
  <2>1. DOMAIN Contents = {}
    BY DEF Init, Contents, Indices
  <2>2. Contents = [k \in DOMAIN Contents |-> Contents[k]]
    BY DEF Contents
  <2>3. Contents = << >>
    BY <2>1, <2>2, EmptyFunction
  <2> QED BY <2>3 DEF Init, Promise!Init
<1>2. IInv /\ [Next]_vars => [Promise!Next]_Promise!vars
  <2> SUFFICES ASSUME IInv, [Next]_vars PROVE [Promise!Next]_Promise!vars
    OBVIOUS
  <2>1. ASSUME NEW r \in Requests, Call(r) PROVE Promise!Next
    <3>1. req = NoRequest
      BY <2>1 DEF IInv, TypeOK, Call
    <3>2. UNCHANGED <<Contents, result>> /\ req' = r
      BY <2>1 DEF Call, Contents, Indices
    <3>3. Promise!Call(r)
      BY <3>1, <3>2 DEF Promise!Call
    <3> QED BY <3>3 DEF Promise!Next, Promise!Requests, Requests
  <2>2. CASE Put \/ Delete \/ Get \/ ReturnEmpty
    BY <2>2, PutImplements, DeleteImplements, GetImplements, ReturnEmptyImplements
       DEF Promise!Next
  <2>3. CASE Find \/ Probe \/ Grow \/ Skip \/ Take \/ Place \/ UNCHANGED vars
    BY <2>3, SilentStep DEF Find, Probe, Grow, Skip, Take, Place, vars
  <2>4. CASE Adjusted
    <3>1. UNCHANGED <<req, result>>
      BY <2>4 DEF Adjusted
    <3> QED BY <2>4, <3>1, AdjustedKeepsContents DEF Promise!vars
  <2> QED BY <2>1, <2>2, <2>3, <2>4 DEF Next, Internal
<1> QED
  BY <1>1, <1>2, SpecIInv, PTL DEF Spec, ImplementsMap, Promise!Spec
=============================================================================
