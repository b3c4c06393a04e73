----------------------------- MODULE SerialScan -----------------------------
(***************************************************************************)
(* What scan() of scanner.py promises of its first phase, and what its      *)
(* serial path does literally: the targets are scanned one after another,   *)
(* each group of results is appended and counted, and the phase ends with a *)
(* group for every target or by raising at one of them.                     *)
(***************************************************************************)
EXTENDS Naturals, Sequences

CONSTANTS Count,    \* len(targets)
          Groups    \* what scanning one target may return

VARIABLES results,   \* the groups appended so far, in order
          progress,  \* calls of progress()
          outcome    \* "scanning", "report" or "raised"

vars == <<results, progress, outcome>>

Init ==
    /\ results = <<>>
    /\ progress = 0
    /\ outcome = "scanning"

Collect ==
    /\ outcome = "scanning"
    /\ Len(results) < Count
    /\ \E group \in Groups : results' = Append(results, group)
    /\ progress' = progress + 1
    /\ UNCHANGED outcome

Raise ==
    /\ outcome = "scanning"
    /\ Len(results) < Count
    /\ outcome' = "raised"
    /\ UNCHANGED <<results, progress>>

Report ==
    /\ outcome = "scanning"
    /\ Len(results) = Count
    /\ outcome' = "report"
    /\ UNCHANGED <<results, progress>>

Next == Collect \/ Raise \/ Report

Spec == Init /\ [][Next]_vars
=============================================================================
