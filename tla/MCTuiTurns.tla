----------------------------- MODULE MCTuiTurns -----------------------------
(* Instances of TuiTurns for TLC.                                           *)
EXTENDS TuiTurns

CONSTANTS u1, u2, reply
=============================================================================
