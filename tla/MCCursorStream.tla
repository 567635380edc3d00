--------------------------- MODULE MCCursorStream ---------------------------
(***************************************************************************)
(* Instances of CursorStream for TLC.                                      *)
(***************************************************************************)
EXTENDS CursorStream, TLC

CONSTANTS i1, i2, i3

MCIterator == {i1, i2, i3}

Symmetry == Permutations(MCIterator)
=============================================================================
