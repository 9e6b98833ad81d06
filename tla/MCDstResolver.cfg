\* Addresses to reuse: an ended pod is listed at its own, two pods at the node's.
SPECIFICATION FairSpec
CONSTANTS
    old = old  new = new  rs1 = rs1  rs2 = rs2  web = web  agents = agents
    Service = {svc1, svc2}
    Pod = {old, new, agent1, agent2}
    HostPod = {agent1, agent2}
    ReplicaSetOf <- ReplicaSets
    DeploymentOf <- Deployments
    ServiceIP = {vip}
    PodIP = {ip1, node}
    NodeIP = {node}
    None = None
    MaxChanges = 4
INVARIANTS
    DestinationIsRecent
    SteadyPodsResolved
PROPERTIES
    AddressMapsAreRecent
    StaleNamesForgotten
CHECK_DEADLOCK FALSE
