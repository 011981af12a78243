--------------------------- MODULE MCPhaseLedger ---------------------------
(***************************************************************************)
(* TLC instances of PhaseLedger.                                           *)
(***************************************************************************)
EXTENDS PhaseLedger, TLC

Symmetry == Permutations(Processes) \cup Permutations(Roots)
            \cup Permutations(WorkflowIds) \cup Permutations(Anchors)
=============================================================================
