----------------------------- MODULE MCRefHeap -----------------------------
(* RefHeap on two or three addresses and one constant, each value two words. *)
EXTENDS RefHeap

CONSTANTS a1, a2, a3, c1

MCAddr == {a1, a2, a3, c1}
MCConst == {c1}
=============================================================================
