---------------------------- MODULE MCCallFrame ----------------------------
(***************************************************************************)
(* Instances of CallFrame: calls with up to MaxArgs arguments of the given *)
(* types, one inner call, and a machine with few argument registers.       *)
(***************************************************************************)
EXTENDS CallFrame

CONSTANTS MaxArgs, Types

Long == [cls |-> "int", size |-> 8, align |-> 8]
Double == [cls |-> "flo", size |-> 8, align |-> 8]
Struct(size, align) == [cls |-> "struct", size |-> size, align |-> align]

IntAndStruct == {Long, Struct(16, 8)}
IntAndFlo == {Long, Double}
AllTypes == {Long, Double, Struct(16, 8)}

ArgLists == UNION {[1..n -> Types] : n \in 0..MaxArgs}

AnyCalls == [args : ArgLists, ret_struct : BOOLEAN]

GoodCalls == {c \in AnyCalls : GoodCall(c)}

SomeCalls ==
    {[args |-> << >>, ret_struct |-> FALSE],
     [args |-> <<Long>>, ret_struct |-> TRUE],
     [args |-> <<Double, Long>>, ret_struct |-> FALSE],
     [args |-> <<Long, Long, Long>>, ret_struct |-> FALSE]}

Saves == <<"xmm9", "xmm8", "r10">>
=============================================================================
