--------------------------- MODULE MCPackBuilder ---------------------------
(***************************************************************************)
(* Small instances of PackBuilder.                                         *)
(***************************************************************************)
EXTENDS PackBuilder, TLC

Symmetry == Permutations(Chunk) \cup Permutations(Name) \cup Permutations(PackId)
=============================================================================
