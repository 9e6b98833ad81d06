---------------------------- MODULE MCDstResolver ----------------------------
(* Two generations of one Deployment's pods, and pods with hostNetwork,   *)
(* for TLC.                                                               *)
EXTENDS DstResolver, TLC

CONSTANTS old, new, rs1, rs2, web, agents

ReplicaSets == [p \in Pod |-> CASE p = old -> rs1 [] p = new -> rs2
                               [] OTHER -> agents]
Deployments == [p \in Pod |-> IF p \in HostPod THEN agents ELSE web]

Equals == Permutations(Service) \cup Permutations(PodIP)

=============================================================================
