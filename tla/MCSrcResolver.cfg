\* Two pods of one ReplicaSet, two namespace numbers, fair refreshes.
SPECIFICATION FairSpec
CONSTANTS
    web1 = web1  web2 = web2  agent1 = agent1  agent2 = agent2
    web = web  agents = agents
    Pod = {web1, web2}  HostPod = {}
    Local = {web1, web2}
    ReplicaSet = {web}
    OwnerOf <- OwnerOfPods
    Netns = {n1, n2}  HostNetns = host
    NodeNameSet = TRUE
    None = None
    MaxStarts = 2
INVARIANTS
    AttributionIsRecent
    OneNamePerReplicaSet
PROPERTIES
    PodsResolved
    NetnsMapIsRecent
CHECK_DEADLOCK FALSE
