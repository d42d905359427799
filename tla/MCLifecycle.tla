---------------------------- MODULE MCLifecycle ----------------------------
(* Three daemons and at most two commands at a time. *)
EXTENDS Lifecycle, TLC

CONSTANTS d1, d2, d3, c1, c2

Symmetry == Permutations({d1, d2, d3}) \union Permutations({c1, c2})
=============================================================================
