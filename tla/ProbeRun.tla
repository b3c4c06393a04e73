------------------------------ MODULE ProbeRun ------------------------------
(***************************************************************************)
(* What the probes of one address have in common: a probe asks one peer,    *)
(* whose true nature it cannot see, over connections that may fail, and     *)
(* concludes something.  The modules that extend this one add what each     *)
(* family of probes keeps while it runs.                                    *)
(***************************************************************************)
EXTENDS Naturals, Sequences, FiniteSets

CONSTANT MaxFaults \* Bound of the model: failures of the network in one run.

ASSUME ProbeRunAssumption == MaxFaults \in Nat

VARIABLES
    probe,    \* the function that runs
    peer,     \* what the other side really is
    pc,       \* where the function stands; "done" when it has returned
    faults,   \* how often the network failed it so far
    verdict   \* what it returned

run == <<probe, peer, pc, faults, verdict>>

Begin(p, other, start) ==
    /\ probe = p /\ peer = other /\ pc = start
    /\ faults = 0 /\ verdict = [is |-> "none"]

Conclude(v) == pc' = "done" /\ verdict' = v

\* The network fails: a connection is refused, cut or reset, or an answer is late.
Fault   == faults < MaxFaults /\ faults' = faults + 1
NoFault == UNCHANGED faults

\* A function that returned an error, or None for want of an answer.
Failed == [is |-> "error"]
=============================================================================
