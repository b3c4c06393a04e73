------------------------------ MODULE MCProbes ------------------------------
(* Values of the constants of Probes for the model checker.                 *)
EXTENDS Probes

MCLegacy == <<"a", "b", "c">>

\* Two orders of hashed names: that of the names, and one that mixes them.
MCSalts == {<<1, 0>>, <<5, 3>>}
=============================================================================
