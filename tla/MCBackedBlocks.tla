-------------------------- MODULE MCBackedBlocks --------------------------
(***************************************************************************)
(* Small instances of BackedBlocks: blocks of two bytes, so that a last    *)
(* block can be partial, and one source of every type.                     *)
(***************************************************************************)
EXTENDS BackedBlocks, TLC

CONSTANTS n1, n2, n3, in_s, tmp

\* The offsets of "f" make neighbouring regions contiguous in the file.
MCSources ==
  {[type |-> "fill", src |-> "0", off |-> 0]}
  \union {[type |-> "fd", src |-> "f", off |-> o] : o \in {0, 2}}

MCLens == {2, 3}
FillOnly == {[type |-> "fill", src |-> "0", off |-> 0]}
Cells == Permutations({n1, n2, n3}) \union Permutations({in_s, tmp})
=============================================================================
