------------------------------- MODULE Audits -------------------------------
(***************************************************************************)
(* What becomes of what was read of a server: what its certificates are     *)
(* worth, the grade and the profiles, and what the command line, its plugins*)
(* and the MCP server make of the report.  The three are the later stages   *)
(* of one scan; each takes any result the stages before it may have.        *)
(***************************************************************************)
EXTENDS Trust, Grading, Invocation

vars == <<run, trust, report, invocation>>

Init ==
    \/ TrustInit /\ GradingIdle /\ InvocationIdle
    \/ TrustIdle /\ GradingInit /\ InvocationIdle
    \/ TrustIdle /\ GradingIdle /\ InvocationInit

Next ==
    \/ TrustStep      /\ UNCHANGED <<report, invocation>>
    \/ GradingStep    /\ UNCHANGED <<trust, invocation>>
    \/ InvocationStep /\ UNCHANGED <<trust, report>>

Spec == Init /\ [][Next]_vars

-----------------------------------------------------------------------------
\* The types of what each stage keeps; of a chain it says, too, that completion adds at
\* most one certificate to it (certificates.complete_chain_via_aia).
AuditsTypeOK ==
    /\ faults \in 0..MaxFaults
    /\ TrustTypeOK /\ GradingTypeOK /\ InvocationTypeOK
=============================================================================
