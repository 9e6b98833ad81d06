----------------------------- MODULE DstResolver -----------------------------
(***************************************************************************)
(* internal/k8smeta/destination_resolver.go: whose address an address is.  *)
(* refresh lists the services, then the pods, then replaces both maps      *)
(* under the lock; if a list fails it leaves both as they were.            *)
(*                                                                         *)
(* The cluster is external.  A pod that has ended stays in the API with    *)
(* the address it had, which is free for others; pods with hostNetwork     *)
(* have the address of their node, all at once.                            *)
(***************************************************************************)
EXTENDS Integers

CONSTANTS
    Service, Pod,
    HostPod,            \* pods with hostNetwork
    ReplicaSetOf,       \* the first OwnerReference of a pod
    DeploymentOf,       \* the Deployment it belongs to
    ServiceIP, PodIP,
    NodeIP,             \* those of PodIP that are nodes' addresses
    None,
    MaxChanges          \* bound: changes in the cluster

ASSUME DstAssumption ==
    /\ ServiceIP \cap PodIP = {}
    /\ HostPod \subseteq Pod /\ NodeIP \subseteq PodIP
    /\ None \notin ServiceIP \cup PodIP \cup Pod \cup Service
    /\ MaxChanges \in Nat

VARIABLES
    clusterIP, podIP, ended, changes,   \* the cluster
    servicesByIP, podsByIP,
    rpc, services, pods,    \* refresh: "wait", "pods" or "install"; its locals
    \* history: what held an address at some time since the refresh began,
    \* and the pods that have been alone on one address since then; the same
    \* for the refresh that the maps are from
    held, alone, mapHeld, mapAlone

clusterVars == <<clusterIP, podIP, ended, changes>>
mapVars     == <<servicesByIP, podsByIP, mapHeld, mapAlone>>
dstVars     == <<clusterVars, mapVars, rpc, services, pods, held, alone>>

Holding == {<<s, clusterIP[s]>> : s \in Service}
              \cup {<<p, podIP[p]>> : p \in Pod}

Alone == {p \in Pod : podIP[p] # None /\ \A q \in Pod \ {p} : podIP[q] # podIP[p]}

TypeOK ==
    /\ clusterIP \in [Service -> ServiceIP \cup {None}]
    /\ podIP \in [Pod -> PodIP \cup {None}]
    /\ ended \subseteq Pod /\ changes \in 0..MaxChanges
    /\ {servicesByIP, services} \subseteq [ServiceIP -> Service \cup {None}]
    /\ {podsByIP, pods} \subseteq [PodIP -> Pod \cup {None}]
    /\ rpc \in {"wait", "pods", "install"}
    /\ alone \cup mapAlone \subseteq Pod

NoServices == [ip \in ServiceIP |-> None]
NoPods     == [ip \in PodIP |-> None]

Init ==
    /\ clusterIP = [s \in Service |-> None] /\ podIP = [p \in Pod |-> None]
    /\ ended = {} /\ changes = 0
    /\ servicesByIP = NoServices /\ podsByIP = NoPods
    /\ rpc = "wait" /\ services = NoServices /\ pods = NoPods
    /\ held = {} /\ alone = {} /\ mapHeld = {} /\ mapAlone = {}

-----------------------------------------------------------------------------
(* The cluster.                                                            *)

Change ==
    /\ changes < MaxChanges
    /\ changes' = changes + 1
    /\ held' = held \cup Holding'
    /\ alone' = {p \in alone \cap Alone' : podIP'[p] = podIP[p]}
    /\ mapAlone' = {p \in mapAlone \cap Alone' : podIP'[p] = podIP[p]}
    /\ UNCHANGED <<servicesByIP, podsByIP, mapHeld, rpc, services, pods>>

ServiceCreated(s) ==
    /\ clusterIP[s] = None
    /\ \E ip \in ServiceIP :
          /\ \A t \in Service : clusterIP[t] # ip
          /\ clusterIP' = [clusterIP EXCEPT ![s] = ip]
    /\ UNCHANGED <<podIP, ended>>
    /\ Change

ServiceDeleted(s) ==
    /\ clusterIP[s] # None
    /\ clusterIP' = [clusterIP EXCEPT ![s] = None]
    /\ UNCHANGED <<podIP, ended>>
    /\ Change

FreeIP(p) == IF p \in HostPod THEN NodeIP
             ELSE {ip \in PodIP \ NodeIP : \A q \in Pod \ ended : podIP[q] # ip}

PodStarts(p) ==
    /\ podIP[p] = None
    /\ \E ip \in FreeIP(p) : podIP' = [podIP EXCEPT ![p] = ip]
    /\ UNCHANGED <<clusterIP, ended>>
    /\ Change

PodEnds(p) ==
    /\ podIP[p] # None /\ p \notin ended
    /\ ended' = ended \cup {p}
    /\ UNCHANGED <<clusterIP, podIP>>
    /\ Change

PodDeleted(p) ==
    /\ podIP[p] # None
    /\ podIP' = [podIP EXCEPT ![p] = None]
    /\ ended' = ended \ {p}
    /\ UNCHANGED clusterIP
    /\ Change

-----------------------------------------------------------------------------
(* refresh, in Start and then every thirty seconds.  It returns where a    *)
(* list fails: LoadServices with nothing done, LoadPods with the services  *)
(* that were listed thrown away.                                           *)

ServiceAt(ip) == IF \E s \in Service : clusterIP[s] = ip
                 THEN CHOOSE s \in Service : clusterIP[s] = ip ELSE None

\* Mutant of LoadServices: the map in use is filled.
LoadServices_InPlace ==
    /\ rpc = "wait"
    /\ services' = [ip \in ServiceIP |-> ServiceAt(ip)]
    /\ servicesByIP' = services'
    /\ rpc' = "pods"
    /\ held' = Holding /\ alone' = Alone
    /\ UNCHANGED <<clusterVars, podsByIP, mapHeld, mapAlone, pods>>

LoadServices ==
    /\ rpc = "wait"
    /\ services' = [ip \in ServiceIP |-> ServiceAt(ip)]
    /\ rpc' = "pods"
    /\ held' = Holding /\ alone' = Alone
    /\ UNCHANGED <<clusterVars, mapVars, pods>>

PodsAt(ip) == {p \in Pod : podIP[p] = ip}

\* Every pod with an address is entered, one over the other: the last in the
\* list stays.
LastListed(ips) ==
    {f \in [ips -> Pod \cup {None}] :
        \A ip \in ips : IF PodsAt(ip) = {} THEN f[ip] = None
                        ELSE f[ip] \in PodsAt(ip)}

\* Mutant of LoadPods: an error is taken for an empty list.
LoadPods_NoError ==
    /\ rpc = "pods"
    /\ rpc' = "install"
    /\ pods' \in {NoPods} \cup LastListed(PodIP)
    /\ UNCHANGED <<clusterVars, mapVars, services, held, alone>>

LoadPods ==
    /\ rpc = "pods"
    /\ rpc' = "install"
    /\ pods' \in LastListed(PodIP)
    /\ UNCHANGED <<clusterVars, mapVars, services, held, alone>>

LoadPodsFails ==
    /\ rpc = "pods"
    /\ rpc' = "wait"
    /\ services' = NoServices
    /\ UNCHANGED <<clusterVars, mapVars, pods, held, alone>>

Or(new, old) == IF new = None THEN old ELSE new

\* Mutant of Install: the lists are entered into the maps in use.
Install_Merged ==
    /\ rpc = "install"
    /\ rpc' = "wait"
    /\ servicesByIP' = [ip \in ServiceIP |-> Or(services[ip], servicesByIP[ip])]
    /\ podsByIP' = [ip \in PodIP |-> Or(pods[ip], podsByIP[ip])]
    /\ services' = NoServices /\ pods' = NoPods
    /\ mapHeld' = held /\ mapAlone' = alone
    /\ UNCHANGED <<clusterVars, held, alone>>

Install ==
    /\ rpc = "install"
    /\ rpc' = "wait"
    /\ servicesByIP' = services /\ podsByIP' = pods
    /\ services' = NoServices /\ pods' = NoPods
    /\ mapHeld' = held /\ mapAlone' = alone
    /\ UNCHANGED <<clusterVars, held, alone>>

-----------------------------------------------------------------------------
Cluster == \/ \E s \in Service : ServiceCreated(s) \/ ServiceDeleted(s)
           \/ \E p \in Pod : PodStarts(p) \/ PodEnds(p) \/ PodDeleted(p)

Next == Cluster \/ LoadServices \/ LoadPods \/ LoadPodsFails \/ Install

Spec == Init /\ [][Next]_dstVars

\* The ticker fires, and of the lists asked for again and again one is
\* answered.
FairSpec == /\ Spec
            /\ WF_dstVars(LoadServices) /\ SF_dstVars(LoadPods)
            /\ WF_dstVars(Install)

\* ResolveDstIP: what the flow key gets for an address.
ResolveDstIP(ip) ==
    IF ip \in ServiceIP
    THEN IF servicesByIP[ip] = None THEN {} ELSE {<<"Service", servicesByIP[ip]>>}
    ELSE IF podsByIP[ip] = None THEN {}
         ELSE {<<"Workload", ReplicaSetOf[podsByIP[ip]]>>}

-----------------------------------------------------------------------------
(***************************************************************************)
(* An address is resolved to a service or pod that held it at some time    *)
(* since the last refresh that succeeded began; a refresh that fails half  *)
(* way does not bring in half of the cluster.                              *)
(***************************************************************************)
DestinationIsRecent ==
    /\ \A ip \in ServiceIP :
          servicesByIP[ip] # None => <<servicesByIP[ip], ip>> \in mapHeld
    /\ \A ip \in PodIP :
          podsByIP[ip] # None => <<podsByIP[ip], ip>> \in mapHeld

(***************************************************************************)
(* Both maps are replaced at once, and only by what held its address       *)
(* between the start of a refresh and its end.                             *)
(***************************************************************************)
Assigned == (Service \X ServiceIP) \cup (Pod \X PodIP)

Recent == INSTANCE RecentMap WITH
    Pair    <- Assigned,
    holding <- Holding \cap Assigned,
    since   <- held \cap Assigned,
    map     <- {h \in Assigned :
                   \/ h[2] \in ServiceIP /\ servicesByIP[h[2]] = h[1]
                   \/ h[2] \in PodIP /\ podsByIP[h[2]] = h[1]},
    base    <- mapHeld \cap Assigned

AddressMapsAreRecent == Recent!Spec

(***************************************************************************)
(* A name for an address that has been given back does not stay, unless    *)
(* every list fails from then on.                                          *)
(***************************************************************************)
StaleNamesForgotten ==
    /\ \A s \in Service, ip \in ServiceIP :
          (servicesByIP[ip] = s /\ clusterIP[s] # ip)
              ~> (servicesByIP[ip] # s \/ clusterIP[s] = ip)
    /\ \A p \in Pod, ip \in PodIP :
          (podsByIP[ip] = p /\ podIP[p] # ip)
              ~> (podsByIP[ip] # p \/ podIP[p] = ip)

(***************************************************************************)
(* A pod that has kept its address to itself since the last refresh that   *)
(* succeeded began is resolved, however many refreshes have failed since.  *)
(***************************************************************************)
SteadyPodsResolved == \A p \in mapAlone : podsByIP[podIP[p]] = p

(***************************************************************************)
(* README.md:44 says that flows are aggregated by Kubernetes workload: the *)
(* pods of one Deployment are one destination.                             *)
(***************************************************************************)
DestinationIsWorkload ==
    \A p, q \in mapAlone :
        DeploymentOf[p] = DeploymentOf[q]
            => ResolveDstIP(podIP[p]) = ResolveDstIP(podIP[q])

=============================================================================
