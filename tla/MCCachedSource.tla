--------------------------- MODULE MCCachedSource ---------------------------
(* CachedSource on a small instance. *)
EXTENDS CachedSource, TLC

ASSUME RevisionsNumbered == Numbered

Symmetry == Permutations(Callers) \cup Permutations(Flights)
=============================================================================
