---------------------------- MODULE MCLogStream ----------------------------
(***************************************************************************)
(* Model-checking instances of LogStream.  Ring, buffer and socket are so  *)
(* small that each of them overflows.  The connections are interchangeable *)
(* in the run that checks safety; the liveness run has one.                *)
(***************************************************************************)
EXTENDS LogStream, TLC

CONSTANTS c1, c2

ConnectionSymmetry == Permutations({c1, c2})
=============================================================================
