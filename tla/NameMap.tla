------------------------------ MODULE NameMap ------------------------------
(***************************************************************************)
(* What a table of names promises its callers: a finite map, one request   *)
(* at a time.  table_put says whether the name is new, table_delete        *)
(* whether it was there, and table_try_get whether it is there and with    *)
(* what value (table.h).                                                   *)
(***************************************************************************)
CONSTANTS
    Names,
    Values,      \* NULL among them
    NoRequest,   \* not a request
    Absent       \* what a lookup returns that finds nothing; no value

Requests ==
    [op : {"put"}, key : Names, value : Values] \cup
    [op : {"get", "delete"}, key : Names]

VARIABLES
    map,      \* a function from the names that are there to values
    req,      \* the call that is being made
    result    \* what the last call returned

Init == map = << >> /\ req = NoRequest /\ result = Absent

Call(r) ==
    /\ req = NoRequest
    /\ req' = r
    /\ UNCHANGED <<map, result>>

Put ==
    /\ req # NoRequest /\ req.op = "put"
    /\ map' = [k \in DOMAIN map \cup {req.key} |->
                  IF k = req.key THEN req.value ELSE map[k]]
    /\ result' = (req.key \notin DOMAIN map)
    /\ req' = NoRequest

Delete ==
    /\ req # NoRequest /\ req.op = "delete"
    /\ map' = [k \in DOMAIN map \ {req.key} |-> map[k]]
    /\ result' = (req.key \in DOMAIN map)
    /\ req' = NoRequest

Get ==
    /\ req # NoRequest /\ req.op = "get"
    /\ result' = IF req.key \in DOMAIN map THEN map[req.key] ELSE Absent
    /\ req' = NoRequest
    /\ UNCHANGED map

Next == (\E r \in Requests : Call(r)) \/ Put \/ Delete \/ Get

vars == <<map, req, result>>

Spec == Init /\ [][Next]_vars
=============================================================================
