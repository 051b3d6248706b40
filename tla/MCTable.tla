------------------------------ MODULE MCTable ------------------------------
(***************************************************************************)
(* Instances of Table: four names, two of which collide at every           *)
(* capacity, one that follows them and one at the end of the array.        *)
(***************************************************************************)
EXTENDS Table

CONSTANTS a, b, c, d, v

FourNames == {a, b, c, d}
TwoValues == {v, Null}
Colliding == [n \in FourNames |-> CASE n = c -> 1 [] n = d -> 8 [] OTHER -> 0]
=============================================================================
