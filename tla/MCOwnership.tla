---------------------------- MODULE MCOwnership ----------------------------
(* Ownership on two heap addresses, with or without a string constant. *)
EXTENDS Ownership

CONSTANTS a1, a2, c1, x, y

HeapValues == {a1, a2}
WithConstant == {a1, a2, c1}
MCConst == {c1}

\* Heap addresses are interchangeable, whoever malloc gives them to, and so are
\* the names of variables.
Symmetry == Permutations({a1, a2}) \cup Permutations({x, y})
=============================================================================
