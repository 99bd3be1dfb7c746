--------------------------- MODULE MCControlPlane ---------------------------
(* Values for the constants of ControlPlane and Detectors. *)
EXTENDS Detectors, TLC

CONSTANTS search, payment    \* a LOW tool of the registry, an unclassified one

\* The registry: any other tool is absent from it, hence HIGH.
MCToolRisks == [t \in {search} |-> "low"]

\* The gate calls are interchangeable.
MCSymmetry == Permutations(Calls)

MCRequestSymmetry == Permutations(Requests)

MCReportSymmetry == Permutations(Reports)

MCSerialSymmetry == Permutations(Calls) \cup Permutations(Reports)

\* Amounts of an outcome; two of the larger one together pass MaxCounter = 3.
MCUsage == {<<0, 1>>, <<2, 1>>}

MCLargeUsage == {<<2, 1>>}
=============================================================================
