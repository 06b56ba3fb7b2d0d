------------------------- MODULE MCWorkflowScheduler -------------------------
(* Instances of WorkflowScheduler for TLC. *)
EXTENDS WorkflowScheduler, TLC

Symmetry == Permutations(Workflow) \cup Permutations(Call) \cup Permutations(Graph)
==============================================================================
