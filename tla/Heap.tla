-------------------------------- MODULE Heap --------------------------------
(***************************************************************************)
(* What malloc, free and realloc promise a program that frees only what it *)
(* was given: blocks that do not overlap, each as large as was asked for,  *)
(* that stay where they are until they are freed (stdlib.h).  A block may  *)
(* be empty; realloc to nothing frees, realloc of NULL allocates.          *)
(***************************************************************************)
EXTENDS Integers

CONSTANTS Addresses, Payloads, NoRequest, NULL

VARIABLES
    blocks,    \* from the addresses of the program's blocks to their sizes
    req,       \* the call that is being made
    result     \* what the last call returned

vars == <<blocks, req, result>>

Requests ==
    [op : {"malloc"}, units : Payloads] \cup
    [op : {"free"}, at : Addresses \cup {NULL}] \cup
    [op : {"realloc"}, at : Addresses \cup {NULL}, units : Payloads]

Units(at, n) == at..(at + n - 1)
Unused(units) == \A at \in DOMAIN blocks : Units(at, blocks[at]) \cap units = {}

Without(at) == [a \in DOMAIN blocks \ {at} |-> blocks[a]]
With(at, n) == [a \in DOMAIN blocks \cup {at} |-> IF a = at THEN n ELSE blocks[a]]

Init == blocks = << >> /\ req = NoRequest /\ result = NULL

Call(r) ==
    /\ req = NoRequest
    /\ r.op # "malloc" => r.at \in DOMAIN blocks \cup {NULL}
    /\ req' = r /\ result' = NULL
    /\ UNCHANGED blocks

\* What is asked for.
Frees == req.op = "free" \/ (req.op = "realloc" /\ req.units = 0)
Resizes == req.op = "realloc" /\ req.units # 0 /\ req.at # NULL
Allocates == ~Frees /\ ~Resizes

Malloc ==
    /\ req # NoRequest /\ Allocates
    /\ \E at \in Addresses \ DOMAIN blocks :
          /\ Unused(Units(at, req.units))
          /\ blocks' = With(at, req.units)
          /\ result' = at
    /\ req' = NoRequest

Free ==
    /\ req # NoRequest /\ Frees
    /\ blocks' = Without(req.at)
    /\ req' = NoRequest
    /\ UNCHANGED result

\* The new block does not overlap the old one, which is copied from.
Reallocate ==
    /\ req # NoRequest /\ Resizes
    /\ \E at \in Addresses \ DOMAIN blocks :
          /\ Unused(Units(at, req.units))
          /\ blocks' = [a \in (DOMAIN blocks \ {req.at}) \cup {at} |->
                           IF a = at THEN req.units ELSE blocks[a]]
          /\ result' = at
    /\ req' = NoRequest

\* There is no memory left: nothing has changed, the old block included.
Fail ==
    /\ req # NoRequest /\ ~Frees
    /\ result' = NULL
    /\ req' = NoRequest
    /\ UNCHANGED blocks

Next == (\E r \in Requests : Call(r)) \/ Malloc \/ Free \/ Reallocate \/ Fail

Spec == Init /\ [][Next]_vars
=============================================================================
