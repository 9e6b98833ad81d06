--------------------------- MODULE DstResolverProofs ---------------------------
(***************************************************************************)
(* Proofs about DstResolver, for any cluster: its types, that an address   *)
(* is resolved to what held it since the last good refresh began, that a   *)
(* pod which keeps its address stays resolved however many refreshes fail, *)
(* and that the resolver implements RecentMap.                             *)
(***************************************************************************)
EXTENDS DstResolver, TLAPS

\* What the refresh has listed was so since it began.
Listed ==
    /\ \A ip \in ServiceIP :
          services[ip] # None => <<services[ip], ip>> \in held
    /\ \A ip \in PodIP : pods[ip] # None => <<pods[ip], ip>> \in held
    /\ rpc # "wait" => Holding \subseteq held
    /\ rpc = "wait" => services = NoServices
    /\ rpc # "install" => pods = NoPods

\* Pods that have been alone since still are, and the list has them.
Steady ==
    /\ alone \subseteq Alone /\ mapAlone \subseteq Alone
    /\ rpc = "install" => \A p \in alone : pods[podIP[p]] = p

IInv == /\ TypeOK /\ Listed /\ DestinationIsRecent
        /\ Steady /\ SteadyPodsResolved

-----------------------------------------------------------------------------
\* Each change in the cluster changes one address and counts.
LEMMA ClusterChanges ==
    ASSUME TypeOK, Cluster
    PROVE  /\ Change
           /\ clusterIP' \in [Service -> ServiceIP \cup {None}]
           /\ podIP' \in [Pod -> PodIP \cup {None}]
           /\ ended' \subseteq Pod
<1> USE DstAssumption DEF TypeOK
<1>1. ASSUME NEW s \in Service, ServiceCreated(s) \/ ServiceDeleted(s)
      PROVE  /\ Change /\ UNCHANGED <<podIP, ended>>
             /\ clusterIP' \in [Service -> ServiceIP \cup {None}]
    BY <1>1 DEF ServiceCreated, ServiceDeleted
<1>2. ASSUME NEW p \in Pod, PodStarts(p) \/ PodEnds(p) \/ PodDeleted(p)
      PROVE  /\ Change /\ UNCHANGED clusterIP /\ ended' \subseteq Pod
             /\ podIP' \in [Pod -> PodIP \cup {None}]
    BY <1>2 DEF PodStarts, FreeIP, PodEnds, PodDeleted
<1> QED BY <1>1, <1>2 DEF Cluster

\* A listing names for each address a pod that has it now, if there is one.
LEMMA ListingType ==
    ASSUME TypeOK, NEW f \in LastListed(PodIP)
    PROVE  /\ f \in [PodIP -> Pod \cup {None}]
           /\ \A ip \in PodIP : f[ip] # None => f[ip] \in Pod /\ podIP[f[ip]] = ip
           /\ \A p \in Alone : f[podIP[p]] = p
<1>1. f \in [PodIP -> Pod \cup {None}]
    BY DEF LastListed
<1>2. \A ip \in PodIP : f[ip] # None => f[ip] \in Pod /\ podIP[f[ip]] = ip
    BY DEF LastListed, PodsAt
<1>3. ASSUME NEW p \in Alone PROVE f[podIP[p]] = p
    <2>1. p \in Pod /\ podIP[p] \in PodIP
        BY DEF Alone, TypeOK
    <2>2. p \in PodsAt(podIP[p])
        BY <2>1 DEF PodsAt
    <2>3. \A q \in PodsAt(podIP[p]) : q = p
        BY <2>1 DEF PodsAt, Alone
    <2> QED BY <2>1, <2>2, <2>3 DEF LastListed
<1> QED BY <1>1, <1>2, <1>3

\* A service found at an address has it.
LEMMA ServiceAtType ==
    ASSUME TypeOK, NEW ip \in ServiceIP, ServiceAt(ip) # None
    PROVE  ServiceAt(ip) \in Service /\ clusterIP[ServiceAt(ip)] = ip
BY DEF ServiceAt

\* Every step keeps the types.
LEMMA TypeStep == ASSUME TypeOK, Next PROVE TypeOK'
<1> USE DEF TypeOK, clusterVars, mapVars
<1>1. CASE Cluster
    <2>1. changes' \in 0..MaxChanges
        BY <1>1, ClusterChanges, DstAssumption DEF Change
    <2> QED BY <1>1, <2>1, ClusterChanges DEF Change
<1>2. CASE LoadServices
    <2>1. \A ip \in ServiceIP : ServiceAt(ip) \in Service \cup {None}
        BY ServiceAtType
    <2> QED BY <1>2, <2>1 DEF LoadServices, Alone
<1>3. CASE LoadPods
    BY <1>3, ListingType DEF LoadPods
<1>4. CASE LoadPodsFails
    BY <1>4 DEF LoadPodsFails, NoServices
<1>5. CASE Install
    BY <1>5 DEF Install, NoServices, NoPods
<1> QED BY <1>1, <1>2, <1>3, <1>4, <1>5 DEF Next

-----------------------------------------------------------------------------
(* One lemma per step.                                                     *)

\* A change adds to what was held, and ends that a pod is alone.
LEMMA ClusterKeeps == ASSUME IInv, Cluster PROVE IInv'
<1> USE DEF IInv
<1>1. TypeOK'
    BY TypeStep DEF Next
<1>2. /\ held' = held \cup Holding'
      /\ alone' = {p \in alone \cap Alone' : podIP'[p] = podIP[p]}
      /\ mapAlone' = {p \in mapAlone \cap Alone' : podIP'[p] = podIP[p]}
      /\ UNCHANGED <<servicesByIP, podsByIP, mapHeld, rpc, services, pods>>
    BY ClusterChanges DEF Change
<1>3. Listed'
    BY <1>2 DEF Listed, NoServices, NoPods
<1>4. DestinationIsRecent'
    BY <1>2 DEF DestinationIsRecent
<1>5. Steady'
    BY <1>2 DEF Steady
<1>6. SteadyPodsResolved'
    BY <1>2 DEF SteadyPodsResolved
<1> QED BY <1>1, <1>3, <1>4, <1>5, <1>6

\* A refresh begins with the services there are.
LEMMA LoadServicesKeeps == ASSUME IInv, LoadServices PROVE IInv'
<1> USE DEF IInv
<1>1. TypeOK'
    BY TypeStep DEF Next
<1>2. /\ services' = [ip \in ServiceIP |-> ServiceAt(ip)]
      /\ rpc = "wait" /\ rpc' = "pods" /\ held' = Holding /\ alone' = Alone
      /\ UNCHANGED <<clusterVars, mapVars, pods>>
    BY DEF LoadServices
<1>3. Holding' = Holding /\ Alone' = Alone
    BY <1>2 DEF Holding, Alone, clusterVars
<1>4. pods = NoPods
    BY <1>2 DEF Listed
<1>5. ASSUME NEW ip \in ServiceIP, services'[ip] # None
      PROVE  <<services'[ip], ip>> \in held'
    BY <1>2, <1>5, ServiceAtType DEF Holding
<1>6. Listed'
    BY <1>2, <1>3, <1>4, <1>5 DEF Listed, NoPods
<1>7. DestinationIsRecent' /\ SteadyPodsResolved'
    BY <1>2 DEF DestinationIsRecent, SteadyPodsResolved, mapVars, clusterVars
<1>8. Steady'
    BY <1>2, <1>3 DEF Steady, mapVars
<1> QED BY <1>1, <1>6, <1>7, <1>8

\* The list of pods has every pod that has been alone.
LEMMA LoadPodsKeeps == ASSUME IInv, LoadPods PROVE IInv'
<1> USE DEF IInv
<1>1. TypeOK'
    BY TypeStep DEF Next
<1>2. /\ pods' \in LastListed(PodIP)
      /\ rpc = "pods" /\ rpc' = "install"
      /\ UNCHANGED <<clusterVars, mapVars, services, held, alone>>
    BY DEF LoadPods
<1>3. Holding' = Holding /\ Alone' = Alone
    BY <1>2 DEF Holding, Alone, clusterVars
<1>4. ASSUME NEW ip \in PodIP, pods'[ip] # None
      PROVE  <<pods'[ip], ip>> \in held
    <2>1. pods'[ip] \in Pod /\ podIP[pods'[ip]] = ip
        BY <1>2, <1>4, ListingType
    <2> QED BY <1>2, <2>1 DEF Holding, Listed
<1>5. Listed'
    BY <1>2, <1>3, <1>4 DEF Listed
<1>6. DestinationIsRecent' /\ SteadyPodsResolved'
    BY <1>2 DEF DestinationIsRecent, SteadyPodsResolved, mapVars, clusterVars
<1>7. \A p \in alone : pods'[podIP[p]] = p
    BY <1>2, ListingType DEF Steady
<1>8. Steady'
    BY <1>2, <1>3, <1>7 DEF Steady, mapVars, clusterVars
<1> QED BY <1>1, <1>5, <1>6, <1>8

\* A failed list leaves the maps and gives up the services.
LEMMA LoadPodsFailsKeeps == ASSUME IInv, LoadPodsFails PROVE IInv'
<1> USE DEF IInv
<1>1. TypeOK'
    BY TypeStep DEF Next
<1>2. /\ services' = NoServices /\ rpc = "pods" /\ rpc' = "wait"
      /\ UNCHANGED <<clusterVars, mapVars, pods, held, alone>>
    BY DEF LoadPodsFails
<1>3. Alone' = Alone
    BY <1>2 DEF Alone, clusterVars
<1>4. Listed'
    BY <1>2 DEF Listed, NoServices, NoPods
<1>5. DestinationIsRecent' /\ SteadyPodsResolved'
    BY <1>2 DEF DestinationIsRecent, SteadyPodsResolved, mapVars, clusterVars
<1>6. Steady'
    BY <1>2, <1>3 DEF Steady, mapVars
<1> QED BY <1>1, <1>4, <1>5, <1>6

\* Both maps are replaced by what was listed.
LEMMA InstallKeeps == ASSUME IInv, Install PROVE IInv'
<1> USE DEF IInv
<1>1. TypeOK'
    BY TypeStep DEF Next
<1>2. /\ servicesByIP' = services /\ podsByIP' = pods
      /\ services' = NoServices /\ pods' = NoPods
      /\ mapHeld' = held /\ mapAlone' = alone
      /\ rpc = "install" /\ rpc' = "wait"
      /\ UNCHANGED <<clusterVars, held, alone>>
    BY DEF Install
<1>3. Alone' = Alone
    BY <1>2 DEF Alone, clusterVars
<1>4. Listed'
    BY <1>2 DEF Listed, NoServices, NoPods
<1>5. DestinationIsRecent'
    BY <1>2 DEF DestinationIsRecent, Listed
<1>6. SteadyPodsResolved'
    BY <1>2 DEF SteadyPodsResolved, Steady, clusterVars
<1>7. Steady'
    BY <1>2, <1>3 DEF Steady
<1> QED BY <1>1, <1>4, <1>5, <1>6, <1>7

\* It holds at the start.
LEMMA InitIInv == Init => IInv
BY DstAssumption DEF Init, IInv, TypeOK, Listed, DestinationIsRecent, Steady,
    SteadyPodsResolved, NoServices, NoPods

\* The invariant of the theorems below.
THEOREM DstInductive == Spec => []IInv
<1>1. IInv /\ [Next]_dstVars => IInv'
    <2>1. IInv /\ UNCHANGED dstVars => IInv'
        BY DEF IInv, TypeOK, Listed, DestinationIsRecent, Steady,
            SteadyPodsResolved, NoServices, NoPods, Holding, Alone,
            dstVars, clusterVars, mapVars
    <2> QED BY <2>1, ClusterKeeps, LoadServicesKeeps, LoadPodsKeeps,
            LoadPodsFailsKeeps, InstallKeeps DEF Next
<1> QED BY InitIInv, <1>1, PTL DEF Spec

\* The resolver's state is well typed.
THEOREM DstTypes == Spec => []TypeOK
<1>1. IInv => TypeOK
    BY DEF IInv
<1> QED BY <1>1, DstInductive, PTL

\* A refresh that fails half way brings in nothing, for any cluster.
THEOREM DestinationAlwaysRecent == Spec => []DestinationIsRecent
<1>1. IInv => DestinationIsRecent
    BY DEF IInv
<1> QED BY <1>1, DstInductive, PTL

\* A pod that keeps its address to itself stays resolved, in whatever order
\* the API lists the pods.
THEOREM SteadyPodsAlwaysResolved == Spec => []SteadyPodsResolved
<1>1. IInv => SteadyPodsResolved
    BY DEF IInv
<1> QED BY <1>1, DstInductive, PTL

-----------------------------------------------------------------------------
(* The resolver implements RecentMap.                                      *)

\* Nothing is held or resolved at the start.
LEMMA InitRecent == Init => Recent!Init
BY DstAssumption DEF Init, Recent!Init, Assigned, Holding, NoServices, NoPods

\* Every step changes, begins or installs, or does nothing.
LEMMA NextRecent == ASSUME IInv, Next PROVE [Recent!Next]_(Recent!recentVars)
<1> USE DEF IInv
<1>1. CASE Cluster
    <2>1. /\ held' = held \cup Holding'
          /\ UNCHANGED <<servicesByIP, podsByIP, mapHeld>>
        BY <1>1, ClusterChanges DEF Change
    <2>2. Recent!Change
        BY <2>1 DEF Recent!Change
    <2> QED BY <2>2 DEF Recent!Next
<1>2. CASE LoadServices
    <2>1. held' = Holding /\ UNCHANGED <<clusterVars, mapVars>>
        BY <1>2 DEF LoadServices
    <2>2. Holding' = Holding
        BY <2>1 DEF Holding, clusterVars
    <2>3. Recent!Begin
        BY <2>1, <2>2 DEF Recent!Begin, mapVars
    <2> QED BY <2>3 DEF Recent!Next
<1>3. CASE LoadPods \/ LoadPodsFails
    <2>1. UNCHANGED <<clusterVars, mapVars, held>>
        BY <1>3 DEF LoadPods, LoadPodsFails
    <2>2. Holding' = Holding
        BY <2>1 DEF Holding, clusterVars
    <2> QED BY <2>1, <2>2 DEF Recent!recentVars, mapVars
<1>4. CASE Install
    <2>1. /\ servicesByIP' = services /\ podsByIP' = pods /\ mapHeld' = held
          /\ UNCHANGED <<clusterVars, held>>
        BY <1>4 DEF Install
    <2>2. Holding' = Holding
        BY <2>1 DEF Holding, clusterVars
    <2> DEFINE entries == {h \in Assigned :
                              \/ h[2] \in ServiceIP /\ services[h[2]] = h[1]
                              \/ h[2] \in PodIP /\ pods[h[2]] = h[1]}
    <2>3. entries \subseteq held \cap Assigned
        <3> SUFFICES ASSUME NEW h \in entries PROVE h \in held
            OBVIOUS
        <3>1. h = <<h[1], h[2]>> /\ h[1] # None
            BY DstAssumption DEF Assigned
        <3> QED BY <3>1 DEF Listed
    <2>4. \A x, y \in entries : x[2] = y[2] => x = y
        BY DstAssumption DEF Assigned
    <2>5. Recent!Install
        BY <2>1, <2>2, <2>3, <2>4 DEF Recent!Install
    <2> QED BY <2>5 DEF Recent!Next
<1> QED BY <1>1, <1>2, <1>3, <1>4 DEF Next

\* DstResolver implements RecentMap: both maps are replaced at once, by what
\* held its address since the refresh began.
THEOREM DstImplementsRecentMap == Spec => AddressMapsAreRecent
<1>1. IInv /\ [Next]_dstVars => [Recent!Next]_(Recent!recentVars)
    <2>1. UNCHANGED dstVars => UNCHANGED Recent!recentVars
        BY DEF dstVars, clusterVars, mapVars, Recent!recentVars, Holding
    <2> QED BY <2>1, NextRecent
<1> QED BY InitRecent, <1>1, DstInductive, PTL
        DEF Spec, AddressMapsAreRecent, Recent!Spec

=============================================================================
