-------------------------- MODULE MCSessionStore --------------------------
(* Instances of SessionStore for TLC.                                       *)
EXTENDS SessionStore, TLC

CONSTANTS h1, h2, t1, t2

Interchangeable == Permutations({h1, h2}) \cup Permutations({t1, t2})
=============================================================================
