----------------------------- MODULE MCWebJobs ------------------------------
(* Model values for WebJobs; jobs are interchangeable in the safety runs.    *)
EXTENDS WebJobs, TLC

CONSTANTS j1, j2, j3, p1, text

ThreeJobs == {j1, j2, j3}
TwoJobs == {j1, j2}
OnePage == {p1}
OneFormat == {text}
Symmetry == Permutations(ThreeJobs)
=============================================================================
