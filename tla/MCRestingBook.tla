--------------------------- MODULE MCRestingBook ---------------------------
(***************************************************************************)
(* Instances of RestingBook for TLC.                                       *)
(***************************************************************************)
EXTENDS RestingBook, TLC

CONSTANTS s1, o1, o2

MCOneSymbol == {s1}
MCTwoOrders == {o1, o2}

Symmetry ==
  Permutations(Symbols) \cup Permutations(OrderIds)

=============================================================================
