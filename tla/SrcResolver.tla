----------------------------- MODULE SrcResolver -----------------------------
(***************************************************************************)
(* internal/k8smeta/source_resolver.go and procscan.go: which pod a        *)
(* network namespace belongs to.                                           *)
(*                                                                         *)
(* Informer handlers keep podsByUID and rsToDeploy, each call under the    *)
(* lock.  refreshNetnsCache lists the processes, reads them one by one     *)
(* without a lock, builds the next map under the read lock and installs it *)
(* under the write lock.  Meanwhile pods start and end, the numbers of     *)
(* network namespaces are used again, and informer events arrive late.     *)
(* A refresh whose listing fails changes nothing and is no step here.      *)
(*                                                                         *)
(* The cluster is external.  The processes of a pod share its namespace    *)
(* and cgroup, so a pod has one here.  A pod in the API is pending, then   *)
(* scheduled, then deleted; an informer may skip stages but never goes     *)
(* back, and it may report a deletion as DeletedFinalStateUnknown.         *)
(***************************************************************************)
EXTENDS Integers

CONSTANTS
    Pod, HostPod,       \* pods; those with hostNetwork
    Local,              \* pods the scheduler places on this node
    ReplicaSet, OwnerOf,
    Netns, HostNetns,   \* inode numbers for pods' namespaces; the node's own
    NodeNameSet,        \* MY_NODE_NAME is given
    None,
    MaxStarts           \* bound: processes started

ASSUME SrcAssumption ==
    /\ HostPod \subseteq Pod /\ Local \subseteq Pod
    /\ OwnerOf \in [Pod -> ReplicaSet]
    /\ HostNetns \notin Netns
    /\ NodeNameSet \in BOOLEAN
    /\ None \notin Netns \cup {HostNetns}
    /\ None \notin [pod: Pod, kind: {"Deployment", "ReplicaSet"}]
    /\ MaxStarts \in Nat

VARIABLES
    podStage, netnsOf, starts,  \* the cluster and the kernel
    seenStage, rsSeen,      \* what the informers have delivered
    podsByUID, rsToDeploy,  \* stage stored of a pod; its Deployment is known
    netnsToPod,
    rpc,                    \* refreshNetnsCache: "wait", "scan" or "install"
    pids, procs, next,      \* its locals; pids are those still to be read
    holders, mapHolders     \* history: the pods that held a namespace since
                            \*   the scan began; since that of netnsToPod did

clusterVars  == <<podStage, netnsOf, starts>>
informerVars == <<seenStage, rsSeen, podsByUID, rsToDeploy>>
refreshVars  == <<netnsToPod, rpc, pids, procs, next>>
histVars     == <<holders, mapHolders>>
srcVars      == <<clusterVars, informerVars, refreshVars, histVars>>

\* The stages of a pod in the API.
Absent    == 0
Pending   == 1
Scheduled == 2
Deleted   == 3

Inode == Netns \cup {HostNetns}
Entry == [pod: Pod, kind: {"Deployment", "ReplicaSet"}]
Map   == [Inode -> Entry \cup {None}]

TypeOK ==
    /\ podStage \in [Pod -> 0..3] /\ seenStage \in [Pod -> 0..3]
    /\ netnsOf \in [Pod -> Inode \cup {None}]
    /\ starts \in 0..MaxStarts
    /\ rsSeen \in [ReplicaSet -> {"none", "present", "deleted"}]
    /\ podsByUID \in [Pod -> 0..2]
    /\ rsToDeploy \subseteq ReplicaSet
    /\ netnsToPod \in Map /\ next \in Map
    /\ rpc \in {"wait", "scan", "install"}
    /\ pids \subseteq Pod
    /\ procs \subseteq [pod: Pod, netns: Inode]
    /\ holders \in [Inode -> SUBSET Pod]
    /\ mapHolders \in [Inode -> SUBSET Pod]

Nobody == [n \in Inode |-> {}]
NoMap  == [n \in Inode |-> None]

Init ==
    /\ podStage = [p \in Pod |-> Absent] /\ seenStage = podStage
    /\ netnsOf = [p \in Pod |-> None] /\ starts = 0
    /\ rsSeen = [r \in ReplicaSet |-> "none"]
    /\ podsByUID = podStage /\ rsToDeploy = {}
    /\ netnsToPod = NoMap /\ next = NoMap
    /\ rpc = "wait" /\ pids = {} /\ procs = {}
    /\ holders = Nobody /\ mapHolders = Nobody

-----------------------------------------------------------------------------
(* The cluster and the kernel.                                             *)

Running(p) == netnsOf[p] # None

PodChanges(p) ==
    /\ \/ /\ podStage[p] < Deleted
          /\ podStage' = [podStage EXCEPT ![p] = @ + 1]
       \/ /\ podStage[p] = Pending
          /\ podStage' = [podStage EXCEPT ![p] = Deleted]
    /\ UNCHANGED <<netnsOf, starts, informerVars, refreshVars, histVars>>

FreeNetns(p) == IF p \in HostPod THEN {HostNetns}
                ELSE {n \in Netns : \A q \in Pod : netnsOf[q] # n}

\* The listing has the number of an earlier process of p, if any.
ProcessStarts(p) ==
    /\ p \in Local /\ podStage[p] = Scheduled /\ ~Running(p)
    /\ starts < MaxStarts
    /\ starts' = starts + 1
    /\ \E n \in FreeNetns(p) :
          /\ netnsOf' = [netnsOf EXCEPT ![p] = n]
          /\ holders' = [holders EXCEPT ![n] = @ \cup {p}]
    /\ pids' = pids \ {p}
    /\ UNCHANGED <<podStage, informerVars, netnsToPod, rpc, procs, next,
                   mapHolders>>

ProcessEnds(p) ==
    /\ Running(p)
    /\ netnsOf' = [netnsOf EXCEPT ![p] = None]
    /\ UNCHANGED <<podStage, starts, informerVars, refreshVars, histVars>>

-----------------------------------------------------------------------------
(* The informers' handlers.                                                *)

\* What an informer may report next: it may skip stages, not go back.
News(p) == (seenStage[p] + 1)..podStage[p]

\* Mutant of PodStored: there is no UpdateFunc.
PodStored_AddOnly(p) ==
    /\ \E s \in News(p) \ {Deleted} :
          /\ seenStage' = [seenStage EXCEPT ![p] = s]
          /\ podsByUID' = IF seenStage[p] = Absent
                          THEN [podsByUID EXCEPT ![p] = s] ELSE podsByUID
    /\ UNCHANGED <<clusterVars, rsSeen, rsToDeploy, refreshVars, histVars>>

\* AddFunc, UpdateFunc
PodStored(p) ==
    /\ \E s \in News(p) \ {Deleted} :
          /\ seenStage' = [seenStage EXCEPT ![p] = s]
          /\ podsByUID' = [podsByUID EXCEPT ![p] = s]
    /\ UNCHANGED <<clusterVars, rsSeen, rsToDeploy, refreshVars, histVars>>

\* DeleteFunc: what is not a *v1.Pod is ignored.
PodDeleted(p) ==
    /\ Deleted \in News(p)
    /\ seenStage' = [seenStage EXCEPT ![p] = Deleted]
    /\ \/ podsByUID' = [podsByUID EXCEPT ![p] = Absent]
       \/ UNCHANGED podsByUID
    /\ UNCHANGED <<clusterVars, rsSeen, rsToDeploy, refreshVars, histVars>>

\* cacheReplicaSet
SetStored(r) ==
    /\ rsSeen[r] = "none"
    /\ rsSeen' = [rsSeen EXCEPT ![r] = "present"]
    /\ rsToDeploy' = rsToDeploy \cup {r}
    /\ UNCHANGED <<clusterVars, seenStage, podsByUID, refreshVars, histVars>>

\* A ReplicaSet may be deleted in the API at any time.
SetDeleted(r) ==
    /\ rsSeen[r] # "deleted"
    /\ rsSeen' = [rsSeen EXCEPT ![r] = "deleted"]
    /\ \/ rsToDeploy' = rsToDeploy \ {r}
       \/ UNCHANGED rsToDeploy
    /\ UNCHANGED <<clusterVars, seenStage, podsByUID, refreshVars, histVars>>

-----------------------------------------------------------------------------
(* refreshNetnsCache, at once after Start and then every ten seconds.      *)

\* os.ReadDir
ScanBegin ==
    /\ rpc = "wait"
    /\ rpc' = "scan"
    /\ pids' = {p \in Pod : Running(p)}
    /\ procs' = {}
    /\ holders' = [n \in Inode |-> {p \in Pod : netnsOf[p] = n}]
    /\ UNCHANGED <<clusterVars, informerVars, netnsToPod, next, mapHolders>>

\* readNetnsIno, readPodUIDFromCgroup; a process that has ended is left out.
ScanProcess(p) ==
    /\ rpc = "scan"
    /\ p \in pids
    /\ pids' = pids \ {p}
    /\ procs' = IF Running(p)
                THEN procs \cup {[pod |-> p, netns |-> netnsOf[p]]} ELSE procs
    /\ UNCHANGED <<clusterVars, informerVars, netnsToPod, rpc, next, histVars>>

OnThisNode(p) ==
    podsByUID[p] = Scheduled \/ (~NodeNameSet /\ podsByUID[p] = Pending)

\* resolveWorkloadLocked, for a pod of a ReplicaSet
Kind(p) == IF OwnerOf[p] \in rsToDeploy THEN "Deployment" ELSE "ReplicaSet"

Found(n) == {p \in Pod : [pod |-> p, netns |-> n] \in procs /\ OnThisNode(p)}

\* The last process in the listing decides.
Last(n) == IF Found(n) = {} THEN {None}
           ELSE {[pod |-> p, kind |-> Kind(p)] : p \in Found(n)}

\* Mutant of Build: the next map starts as a copy of the one in use.
Build_Merged ==
    /\ rpc = "scan" /\ pids = {}
    /\ rpc' = "install"
    /\ next' \in {f \in Map : \A n \in Inode :
                     f[n] \in IF Found(n) = {} THEN {netnsToPod[n]} ELSE Last(n)}
    /\ UNCHANGED <<clusterVars, informerVars, netnsToPod, pids, procs,
                   histVars>>

\* Mutant of Build: the lock is taken for each process.
Build_LockEach ==
    /\ rpc = "scan" /\ pids = {}
    /\ \/ /\ procs = {}
          /\ rpc' = "install"
          /\ UNCHANGED <<procs, next>>
       \/ \E q \in procs :
             /\ procs' = procs \ {q}
             /\ next' = IF OnThisNode(q.pod)
                        THEN [next EXCEPT ![q.netns] =
                                 [pod |-> q.pod, kind |-> Kind(q.pod)]]
                        ELSE next
             /\ UNCHANGED rpc
    /\ UNCHANGED <<clusterVars, informerVars, netnsToPod, pids, histVars>>

\* Under the read lock.
Build ==
    /\ rpc = "scan" /\ pids = {}
    /\ rpc' = "install"
    /\ next' \in {f \in Map : \A n \in Inode : f[n] \in Last(n)}
    /\ UNCHANGED <<clusterVars, informerVars, netnsToPod, pids, procs,
                   histVars>>

\* Under the write lock.
Install ==
    /\ rpc = "install"
    /\ rpc' = "wait"
    /\ netnsToPod' = next
    /\ mapHolders' = holders
    /\ next' = NoMap /\ procs' = {}
    /\ UNCHANGED <<clusterVars, informerVars, pids, holders>>

-----------------------------------------------------------------------------
Refresh == ScanBegin \/ Build \/ Install
              \/ \E p \in Pod : ScanProcess(p)

Handler == \/ \E p \in Pod : PodStored(p) \/ PodDeleted(p)
           \/ \E r \in ReplicaSet : SetStored(r) \/ SetDeleted(r)

Cluster ==
    \E p \in Pod : PodChanges(p) \/ ProcessStarts(p) \/ ProcessEnds(p)

Next == Cluster \/ Handler \/ Refresh

Spec == Init /\ [][Next]_srcVars

\* The ticker fires, the scan is scheduled, and an informer delivers what it
\* has been told of a pod.
FairSpec == /\ Spec
            /\ WF_srcVars(Refresh)
            /\ \A p \in Pod : WF_srcVars(PodStored(p))

-----------------------------------------------------------------------------
(***************************************************************************)
(* A namespace is attributed to a pod that held it during the scan the map *)
(* was built from, never to one that had left it before: a number that is  *)
(* used again is misattributed for one refresh at most, even if the        *)
(* deletion of its former pod was never reported.                          *)
(***************************************************************************)
AttributionIsRecent ==
    \A n \in Inode :
        netnsToPod[n] # None => netnsToPod[n].pod \in mapHolders[n]

(***************************************************************************)
(* The map is only ever replaced, by pods that held their namespaces       *)
(* between the start of a scan and its end.                                *)
(***************************************************************************)
Recent == INSTANCE RecentMap WITH
    Pair    <- Pod \X Inode,
    holding <- {h \in Pod \X Inode : netnsOf[h[1]] = h[2]},
    since   <- {h \in Pod \X Inode : h[1] \in holders[h[2]]},
    map     <- {h \in Pod \X Inode :
                   netnsToPod[h[2]] # None /\ netnsToPod[h[2]].pod = h[1]},
    base    <- {h \in Pod \X Inode : h[1] \in mapHolders[h[2]]}

NetnsMapIsRecent == Recent!Spec

(***************************************************************************)
(* Pods of one ReplicaSet are named alike in one map, whenever the events  *)
(* of the ReplicaSet arrive: two pods of a workload never have different   *)
(* flow keys at the same time.                                             *)
(***************************************************************************)
OneNamePerReplicaSet ==
    \A m, n \in Inode :
        /\ netnsToPod[m] # None /\ netnsToPod[n] # None
        /\ OwnerOf[netnsToPod[m].pod] = OwnerOf[netnsToPod[n].pod]
        => netnsToPod[m].kind = netnsToPod[n].kind

(***************************************************************************)
(* A pod with a namespace of its own that keeps running and is not deleted *)
(* is resolved in the end, although it was pending when it was first       *)
(* reported and its process may have started in the middle of a scan.      *)
(***************************************************************************)
Attributed(p) == LET e == netnsToPod[netnsOf[p]] IN e # None /\ e.pod = p

PodsResolved ==
    \A p \in Pod \ HostPod :
        Running(p) /\ podStage[p] = Scheduled
            ~> \/ ~Running(p) \/ podStage[p] = Deleted
               \/ Attributed(p)

(***************************************************************************)
(* README.md:25 says that flows are identified by pod, namespace and       *)
(* workload: no namespace of a running pod is attributed to another        *)
(* running pod.                                                            *)
(***************************************************************************)
IdentifiedByPod ==
    \A p, q \in Pod :
        p # q /\ Running(p) /\ Running(q) /\ netnsToPod[netnsOf[p]] # None
            => netnsToPod[netnsOf[p]].pod # q

=============================================================================
