----------------------------- MODULE MCSessions -----------------------------
(* Sessions for TLC: symmetric handlers and sessions for the safety runs.  *)
EXTENDS Sessions, TLC

Symmetry == Permutations(Handlers) \union Permutations(SessionIds)

=============================================================================
