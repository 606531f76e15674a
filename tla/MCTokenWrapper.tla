-------------------------- MODULE MCTokenWrapper --------------------------
(* TokenWrapper with clocks that differ by a second at most. *)
EXTENDS TokenWrapper

DriftsOfOne == {-1, 0, 1}
=============================================================================
