----------------------------- MODULE MCUmalloc -----------------------------
(***************************************************************************)
(* Umalloc on a small heap.                                                *)
(***************************************************************************)
EXTENDS Umalloc
=============================================================================
