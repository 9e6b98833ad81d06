\* A rollout: what README.md:44 says does not hold.
SPECIFICATION Spec
CONSTANTS
    old = old  new = new  rs1 = rs1  rs2 = rs2  web = web  agents = agents
    Service = {svc1, svc2}
    Pod = {old, new}
    HostPod = {}
    ReplicaSetOf <- ReplicaSets
    DeploymentOf <- Deployments
    ServiceIP = {vip}
    PodIP = {ip1, ip2}
    NodeIP = {}
    None = None
    MaxChanges = 6
INVARIANTS
    DestinationIsWorkload
SYMMETRY Equals
CHECK_DEADLOCK FALSE
