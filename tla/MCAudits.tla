------------------------------ MODULE MCAudits ------------------------------
(* Audits for the model checker; its constants are numbers.                 *)
EXTENDS Audits
=============================================================================
