----------------------------- MODULE JobService -----------------------------
(***************************************************************************)
(* What the scan service of web/server.py promises about its jobs, with no  *)
(* threads, locks or counters: at most MaxRunning jobs hold capacity, an    *)
(* outcome is written once and only by a job that holds capacity, and a job *)
(* gives its capacity back exactly once.                                    *)
(***************************************************************************)
EXTENDS Naturals, FiniteSets

CONSTANTS Jobs,        \* the scan requests, a finite set
          MaxRunning   \* MAX_RUNNING_JOBS

VARIABLES phase,    \* "new", "holding" capacity, or "left"
          outcome   \* "none" until the scan ended in "done" or "error"

vars == <<phase, outcome>>

Holding == {j \in Jobs : phase[j] = "holding"}

Init ==
    /\ phase = [j \in Jobs |-> "new"]
    /\ outcome = [j \in Jobs |-> "none"]

Admit(j) ==
    /\ phase[j] = "new"
    /\ Cardinality(Holding) < MaxRunning
    /\ phase' = [phase EXCEPT ![j] = "holding"]
    /\ UNCHANGED outcome

Settle(j) ==
    /\ phase[j] = "holding"
    /\ outcome[j] = "none"
    /\ \E o \in {"done", "error"} : outcome' = [outcome EXCEPT ![j] = o]
    /\ UNCHANGED phase

\* A job leaves with its outcome, or with none when its thread never started.
Leave(j) ==
    /\ phase[j] = "holding"
    /\ phase' = [phase EXCEPT ![j] = "left"]
    /\ UNCHANGED outcome

Next == \E j \in Jobs : Admit(j) \/ Settle(j) \/ Leave(j)

Spec == Init /\ [][Next]_vars
=============================================================================
