------------------------------ MODULE MCWorker ------------------------------
(* Values for the constants of Worker. *)
EXTENDS Worker, TLC

CONSTANTS search, payment    \* a LOW tool of the registry, an unclassified one

MCToolRisks == [t \in {search} |-> "low"]

\* guard reports no usage; the worker's own report spends the budget of 1.
MCUsage == {<<0, 0>>, <<2, 0>>}

MCSymmetry == Permutations(Calls)
=============================================================================
