--------------------------- MODULE MCFlowPipeline ---------------------------
(* Small instances of the pipeline for TLC. *)
EXTENDS Divergences, FlowPipelineInvariant

CONSTANTS web, sys, pid

\* A workload, a workload of kube-system, and a process without a pod.
MCKeyRank == [k \in Key |-> CASE k = web -> 1 [] k = sys -> 2 [] OTHER -> 0]

=============================================================================
