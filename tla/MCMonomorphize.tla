--------------------------- MODULE MCMonomorphize ---------------------------
(* Three generic functions, which no property tells apart. *)
EXTENDS Monomorphize, TLC

CONSTANTS a, b, c

MCGenerics == {a, b, c}
MCSymmetry == Permutations(MCGenerics)
=============================================================================
