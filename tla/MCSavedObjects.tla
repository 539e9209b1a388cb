--------------------------- MODULE MCSavedObjects ---------------------------
(* SavedObjects for TLC: addresses and names are interchangeable.          *)
EXTENDS SavedObjects, TLC

Symmetry == Permutations(Obj) \cup Permutations(Name)
=============================================================================
