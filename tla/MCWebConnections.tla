-------------------------- MODULE MCWebConnections --------------------------
(* Model values for WebConnections.                                          *)
EXTENDS WebConnections

CONSTANTS c1, c2, c3, c4

FourConnections == {c1, c2, c3, c4}
ThreeConnections == {c1, c2, c3}
=============================================================================
