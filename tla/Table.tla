------------------------------- MODULE Table -------------------------------
(***************************************************************************)
(* The hash table of util/table.c, step by step: open addressing with      *)
(* linear probing, deleted entries left behind as tombstones, and a        *)
(* capacity that grows when half of the entries have been used.            *)
(***************************************************************************)
EXTENDS Integers, FiniteSets

CONSTANTS
    Names, Values, NoRequest, Absent,
    Null,          \* NULL, as a key and as a value
    Self,          \* the address of the entry, the value of a tombstone
    Hash,          \* Name.hash
    MinCapacity,   \* MIN_CAPACITY
    MaxCapacity    \* bound of the model: no put beyond this capacity

ASSUME TableAssumption ==
    /\ Null \notin Names /\ Null \in Values
    /\ Self \notin Values
    /\ Hash \in [Names -> Nat]
    /\ MinCapacity \in Nat /\ MinCapacity >= 3
    /\ MaxCapacity \in Nat

VARIABLES
    entries, capacity, count,   \* the table
    req, result,                \* the call, and what the last one returned
    pc,
    index, tombstone,           \* find_entry: the loop, and the first
                                \* tombstone that it went past
    new, moved, new_count       \* adjust_capacity: new_entries, i, new_count

vars == <<entries, capacity, count, req, result, pc, index, tombstone, new, moved, new_count>>

NoIndex == -1
Unused == [key |-> Null, value |-> Null]
IsTombstone(e) == e.key = Null /\ e.value # Null

Requests ==
    [op : {"put"}, key : Names, value : Values] \cup
    [op : {"get", "delete"}, key : Names]

ASSUME RequestAssumption == NoRequest \notin Requests

Init ==
    /\ entries = << >> /\ capacity = 0 /\ count = 0
    /\ req = NoRequest /\ result = Absent
    /\ pc = "idle"
    /\ index = 0 /\ tombstone = NoIndex
    /\ new = << >> /\ moved = 0 /\ new_count = 0

-----------------------------------------------------------------------------
(* find_entry, called on the table and, while it grows, on the new array   *)

Home(k, c) == Hash[k] % c
After(i, c) == IF i + 1 = c THEN 0 ELSE i + 1

\* The array that is searched, its capacity and the name.
Moving == pc = "place"
NewCapacity == IF 2 * capacity - 1 < MinCapacity THEN MinCapacity ELSE 2 * capacity - 1
Length == IF Moving THEN NewCapacity ELSE capacity
Key == IF Moving THEN entries[moved].key ELSE req.key
EntryAt(i) == IF Moving THEN new[i] ELSE entries[i]
Entry == EntryAt(index)

Probing == pc \in {"probe", "place"}

Stops(e) == e = Unused \/ e.key = Key

Probe ==
    /\ Probing /\ ~Stops(Entry)
    /\ index' = After(index, Length)
    /\ tombstone' = IF IsTombstone(Entry) /\ tombstone = NoIndex THEN index ELSE tombstone
    /\ UNCHANGED <<entries, capacity, count, req, result, pc, new, moved, new_count>>

\* What find_entry returns.
Found == IF Entry.key = Null /\ tombstone # NoIndex THEN tombstone ELSE index

StartProbing(home) == index' = home /\ tombstone' = NoIndex
EndProbing == StartProbing(0)

-----------------------------------------------------------------------------
(* table_get, table_try_get, table_put and table_delete                    *)

HalfUsedNever == count >= capacity
HalfUsed == count >= capacity \div 2

Call(r) ==
    /\ pc = "idle"
    /\ (r.op = "put" /\ HalfUsed) => NewCapacity <= MaxCapacity
    /\ req' = r
    /\ pc' = "start"
    /\ UNCHANGED <<entries, capacity, count, result, index, tombstone, new, moved, new_count>>

Return(value) ==
    /\ result' = value
    /\ req' = NoRequest
    /\ pc' = "idle"
    /\ EndProbing

\* "if (table->count == 0)"
ReturnEmpty ==
    /\ pc = "start" /\ req.op # "put" /\ count = 0
    /\ Return(IF req.op = "get" THEN Absent ELSE FALSE)
    /\ UNCHANGED <<entries, capacity, count, new, moved, new_count>>

Find ==
    /\ pc = "start"
    /\ IF req.op = "put" THEN ~HalfUsed ELSE count # 0
    /\ pc' = "probe"
    /\ StartProbing(Home(req.key, capacity))
    /\ UNCHANGED <<entries, capacity, count, req, result, new, moved, new_count>>

LookedUp(e) == IF e.key = Null THEN Absent ELSE e.value

Get ==
    /\ pc = "probe" /\ Stops(Entry) /\ req.op = "get"
    /\ Return(LookedUp(entries[Found]))
    /\ UNCHANGED <<entries, capacity, count, new, moved, new_count>>

Counted(e) == IF e = Unused THEN count + 1 ELSE count

Put ==
    /\ pc = "probe" /\ Stops(Entry) /\ req.op = "put"
    /\ count' = Counted(entries[Found])
    /\ entries' = [entries EXCEPT ![Found] = [key |-> req.key, value |-> req.value]]
    /\ Return(entries[Found].key = Null)
    /\ UNCHANGED <<capacity, new, moved, new_count>>

DeletedEntryCleared == Unused
DeletedEntry == [key |-> Null, value |-> Self]

Delete ==
    /\ pc = "probe" /\ Stops(Entry) /\ req.op = "delete"
    /\ entries' = IF entries[Found].key = Null THEN entries
                  ELSE [entries EXCEPT ![Found] = DeletedEntry]
    /\ Return(entries[Found].key # Null)
    /\ UNCHANGED <<capacity, count, new, moved, new_count>>

-----------------------------------------------------------------------------
(* adjust_capacity                                                         *)

Grow ==
    /\ pc = "start" /\ req.op = "put" /\ HalfUsed
    /\ new' = [j \in 0..(NewCapacity - 1) |-> Unused]
    /\ moved' = 0 /\ new_count' = 0
    /\ pc' = "move"
    /\ UNCHANGED <<entries, capacity, count, req, result, index, tombstone>>

Skip ==
    /\ pc = "move" /\ moved < capacity
    /\ entries[moved].key = Null
    /\ moved' = moved + 1
    /\ UNCHANGED <<entries, capacity, count, req, result, pc, index, tombstone, new, new_count>>

Take ==
    /\ pc = "move" /\ moved < capacity
    /\ entries[moved].key # Null
    /\ pc' = "place"
    /\ StartProbing(Home(entries[moved].key, NewCapacity))
    /\ UNCHANGED <<entries, capacity, count, req, result, new, moved, new_count>>

Place ==
    /\ pc = "place" /\ Stops(Entry)
    /\ new' = [new EXCEPT ![Found] = entries[moved]]
    /\ new_count' = new_count + 1
    /\ moved' = moved + 1
    /\ pc' = "move"
    /\ EndProbing
    /\ UNCHANGED <<entries, capacity, count, req, result>>

Adjusted ==
    /\ pc = "move" /\ moved = capacity
    /\ entries' = new
    /\ capacity' = NewCapacity
    /\ count' = new_count
    /\ pc' = "probe"
    /\ new' = << >> /\ moved' = 0 /\ new_count' = 0
    /\ StartProbing(Home(req.key, NewCapacity))
    /\ UNCHANGED <<req, result>>

Internal ==
    \/ ReturnEmpty \/ Find \/ Probe \/ Get \/ Put \/ Delete
    \/ Grow \/ Skip \/ Take \/ Place \/ Adjusted

Next == (\E r \in Requests : Call(r)) \/ Internal

Spec == Init /\ [][Next]_vars

-----------------------------------------------------------------------------
Indices == 0..(capacity - 1)

TypeOK ==
    /\ capacity \in Nat /\ count \in Nat
    /\ entries \in [Indices -> [key : Names \cup {Null}, value : Values \cup {Self}]]
    /\ result \in Values \cup {Absent} \cup BOOLEAN
    /\ pc \in {"idle", "start", "probe", "move", "place"}
    /\ IF pc = "idle" THEN req = NoRequest ELSE req \in Requests
    /\ index \in 0..MaxCapacity
    /\ tombstone \in {NoIndex} \cup (0..(MaxCapacity - 1))
    /\ new_count \in Nat /\ moved \in 0..MaxCapacity

\* What iterating over the entries finds: the promise is about it.
Contents ==
    [k \in {entries[j].key : j \in Indices} \ {Null} |->
        entries[CHOOSE j \in Indices : entries[j].key = k].value]

\* find_entry's loop has no other way out than an entry that was never used
\* or the name itself: there is always one.
ProbeEnds == Probing => \E i \in 0..(Length - 1) : Stops(EntryAt(i))

\* The table implements a map: each call returns what it would return on
\* the map that the entries stand for, and changes it likewise; probing,
\* growing and moving change nothing.
Promise == INSTANCE NameMap WITH map <- Contents
ImplementsMap == Promise!Spec
=============================================================================
