---------------------------- MODULE MCBroadcast ----------------------------
(* Two chats, and broadcasts of two chunks while the chats come and go. *)
EXTENDS Broadcast, TLC

CONSTANTS a1, a2, b1, b2

Symmetry == Permutations({a1, a2}) \union Permutations({b1, b2})
=============================================================================
