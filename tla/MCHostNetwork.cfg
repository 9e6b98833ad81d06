\* Two pods with hostNetwork: what README.md:25 says does not hold.
SPECIFICATION Spec
CONSTANTS
    web1 = web1  web2 = web2  agent1 = agent1  agent2 = agent2
    web = web  agents = agents
    Pod = {agent1, agent2}  HostPod = {agent1, agent2}
    Local = {agent1, agent2}
    ReplicaSet = {agents}
    OwnerOf <- OwnerOfPods
    Netns = {}  HostNetns = host
    NodeNameSet = TRUE
    None = None
    MaxStarts = 3
INVARIANTS
    IdentifiedByPod
CHECK_DEADLOCK FALSE
