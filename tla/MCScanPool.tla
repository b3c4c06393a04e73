---------------------------- MODULE MCScanPool ------------------------------
(* ScanPool for TLC: the constants are numbers, and so need no model values. *)
EXTENDS ScanPool
=============================================================================
