------------------------------ MODULE MCFleet ------------------------------
(* Values for the constants of Fleet. *)
EXTENDS Fleet

\* No tool is called here.
MCToolRisks == [t \in {} |-> "low"]
=============================================================================
