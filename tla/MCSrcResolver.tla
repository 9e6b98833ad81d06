---------------------------- MODULE MCSrcResolver ----------------------------
(* Small instances of the source resolver for TLC. *)
EXTENDS SrcResolver

CONSTANTS web1, web2, agent1, agent2, web, agents

OwnerOfPods == [p \in Pod |-> IF p \in HostPod THEN agents ELSE web]

=============================================================================
