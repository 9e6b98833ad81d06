--------------------------- MODULE SrcResolverProofs ---------------------------
(***************************************************************************)
(* Proofs about SrcResolver, for any cluster and node: its types, that a   *)
(* namespace is attributed to a pod that held it since the scan began,     *)
(* that one map names the pods of a ReplicaSet alike, and that the         *)
(* resolver implements RecentMap.                                          *)
(***************************************************************************)
EXTENDS SrcResolver, TLAPS

\* Everything the refresh has collected was so since its scan began.
Observed ==
    /\ \A p \in Pod : Running(p) => p \in holders[netnsOf[p]]
    /\ \A q \in procs : q.pod \in holders[q.netns]
    /\ \A n \in Inode : next[n] # None => next[n].pod \in holders[n]
    /\ rpc # "install" => next = NoMap

\* The entries of one map name the pods of a ReplicaSet alike.
NamedAlike(map) ==
    \A m, n \in Inode :
        map[m] # None /\ map[n] # None /\ OwnerOf[map[m].pod] = OwnerOf[map[n].pod]
            => map[m].kind = map[n].kind

IInv == /\ TypeOK /\ Observed /\ AttributionIsRecent
        /\ NamedAlike(next) /\ NamedAlike(netnsToPod)

-----------------------------------------------------------------------------
(* Types.                                                                  *)

\* Steps of the cluster keep the types.
LEMMA ClusterTypes == ASSUME TypeOK, Cluster PROVE TypeOK'
<1> PICK p \in Pod : PodChanges(p) \/ ProcessStarts(p) \/ ProcessEnds(p)
    BY DEF Cluster
<1> USE SrcAssumption DEF TypeOK, informerVars, refreshVars, histVars
<1>1. CASE PodChanges(p)
    <2>1. podStage' \in [Pod -> 0..3]
        BY <1>1 DEF PodChanges, Deleted, Pending
    <2> QED BY <1>1, <2>1 DEF PodChanges
<1>2. CASE ProcessStarts(p)
    <2>1. PICK n \in FreeNetns(p) :
              /\ netnsOf' = [netnsOf EXCEPT ![p] = n]
              /\ holders' = [holders EXCEPT ![n] = @ \cup {p}]
        BY <1>2 DEF ProcessStarts
    <2>2. n \in Inode
        BY DEF FreeNetns, Inode
    <2>3. netnsOf' \in [Pod -> Inode \cup {None}] /\ holders' \in [Inode -> SUBSET Pod]
        BY <2>1, <2>2
    <2>4. starts' \in 0..MaxStarts /\ pids' \subseteq Pod
        BY <1>2 DEF ProcessStarts
    <2> QED BY <1>2, <2>3, <2>4 DEF ProcessStarts
<1>3. CASE ProcessEnds(p)
    BY <1>3 DEF ProcessEnds
<1> QED BY <1>1, <1>2, <1>3

\* Informer handlers keep the types.
LEMMA HandlerTypes == ASSUME TypeOK, Handler PROVE TypeOK'
<1> USE DEF TypeOK, clusterVars, refreshVars, histVars
<1>1. ASSUME NEW p \in Pod, PodStored(p) PROVE TypeOK'
    <2>1. PICK s \in News(p) \ {Deleted} :
              /\ seenStage' = [seenStage EXCEPT ![p] = s]
              /\ podsByUID' = [podsByUID EXCEPT ![p] = s]
        BY <1>1 DEF PodStored
    <2>2. s \in 0..2
        BY DEF News, Deleted
    <2>3. seenStage' \in [Pod -> 0..3] /\ podsByUID' \in [Pod -> 0..2]
        BY <2>1, <2>2
    <2> QED BY <1>1, <2>3 DEF PodStored
<1>2. ASSUME NEW p \in Pod, PodDeleted(p) PROVE TypeOK'
    <2>1. seenStage' \in [Pod -> 0..3] /\ podsByUID' \in [Pod -> 0..2]
        BY <1>2 DEF PodDeleted, Deleted, Absent
    <2> QED BY <1>2, <2>1 DEF PodDeleted
<1>3. ASSUME NEW r \in ReplicaSet, SetStored(r) \/ SetDeleted(r) PROVE TypeOK'
    <2>1. /\ rsSeen' \in [ReplicaSet -> {"none", "present", "deleted"}]
          /\ rsToDeploy' \subseteq ReplicaSet
        BY <1>3 DEF SetStored, SetDeleted
    <2> QED BY <1>3, <2>1 DEF SetStored, SetDeleted
<1> QED BY <1>1, <1>2, <1>3 DEF Handler

\* The refresh keeps the types.
LEMMA RefreshTypes == ASSUME TypeOK, Refresh PROVE TypeOK'
<1> USE DEF TypeOK, clusterVars, informerVars, histVars
<1>1. CASE ScanBegin
    BY <1>1 DEF ScanBegin
<1>2. CASE Build
    BY <1>2 DEF Build
<1>3. CASE Install
    BY <1>3 DEF Install, NoMap, Map
<1>4. ASSUME NEW p \in Pod, ScanProcess(p) PROVE TypeOK'
    <2>1. procs' \subseteq [pod: Pod, netns: Inode]
        BY <1>4 DEF ScanProcess, Running
    <2>2. pids' \subseteq Pod
        BY <1>4 DEF ScanProcess
    <2> QED BY <1>4, <2>1, <2>2 DEF ScanProcess
<1> QED BY <1>1, <1>2, <1>3, <1>4 DEF Refresh

-----------------------------------------------------------------------------
(* The invariant.                                                          *)

\* A process that starts holds its namespace from then on; nothing else in
\* the cluster is of interest here.
LEMMA ClusterKeeps == ASSUME IInv, Cluster PROVE IInv'
<1> PICK p \in Pod : PodChanges(p) \/ ProcessStarts(p) \/ ProcessEnds(p)
    BY DEF Cluster
<1>1. TypeOK'
    BY ClusterTypes DEF IInv
<1>2. UNCHANGED <<netnsToPod, next, procs, rpc, mapHolders>>
    BY DEF PodChanges, ProcessStarts, ProcessEnds, refreshVars, histVars
<1>3. AttributionIsRecent' /\ NamedAlike(next)' /\ NamedAlike(netnsToPod)'
    BY <1>2 DEF IInv, AttributionIsRecent, NamedAlike
<1>4. Observed'
    <2> USE DEF IInv, TypeOK, Observed
    <2>1. CASE PodChanges(p)
        BY <2>1, <1>2 DEF PodChanges, histVars, Running
    <2>2. CASE ProcessStarts(p)
        <3>1. PICK n \in FreeNetns(p) :
                  /\ netnsOf' = [netnsOf EXCEPT ![p] = n]
                  /\ holders' = [holders EXCEPT ![n] = @ \cup {p}]
            BY <2>2 DEF ProcessStarts
        <3>2. n \in Inode
            BY DEF FreeNetns, Inode
        <3>3. \A i \in Inode : holders[i] \subseteq holders'[i]
            BY <3>1, <3>2
        <3>4. ASSUME NEW q \in Pod, Running(q)' PROVE q \in holders'[netnsOf'[q]]
            BY <3>1, <3>2, <3>3, <3>4 DEF Running
        <3>5. \A q \in procs : q.pod \in holders'[q.netns]
            BY <3>3
        <3>6. \A i \in Inode : next[i] # None => next[i].pod \in holders'[i]
            BY <3>3
        <3> QED BY <1>2, <3>4, <3>5, <3>6 DEF NoMap
    <2>3. CASE ProcessEnds(p)
        BY <2>3, <1>2 DEF ProcessEnds, histVars, Running
    <2> QED BY <2>1, <2>2, <2>3
<1> QED BY <1>1, <1>3, <1>4 DEF IInv

\* Informer handlers change neither map nor what it rests on.
LEMMA HandlerKeeps == ASSUME IInv, Handler PROVE IInv'
<1>1. TypeOK'
    BY HandlerTypes DEF IInv
<1>2. UNCHANGED <<clusterVars, refreshVars, histVars>>
    BY DEF Handler, PodStored, PodDeleted, SetStored, SetDeleted
<1> QED BY <1>1, <1>2 DEF IInv, Observed, AttributionIsRecent, NamedAlike, Running,
        clusterVars, refreshVars, histVars, NoMap

\* What Build puts in the next map comes from procs, named by one rsToDeploy.
LEMMA BuildKeeps == ASSUME IInv, Build PROVE IInv'
<1> USE DEF IInv
<1>1. TypeOK'
    BY RefreshTypes DEF Refresh
<1>2. UNCHANGED <<clusterVars, netnsToPod, procs, histVars>> /\ rpc' = "install"
    BY DEF Build
<1>3. \A n \in Inode : next'[n] \in Last(n)
    BY DEF Build
<1>4. ASSUME NEW n \in Inode, next'[n] # None
      PROVE  \E p \in Found(n) : next'[n] = [pod |-> p, kind |-> Kind(p)]
    BY <1>3, <1>4 DEF Last
<1>5. Observed'
    <2>1. ASSUME NEW n \in Inode, next'[n] # None PROVE next'[n].pod \in holders[n]
        <3>1. PICK p \in Found(n) : next'[n] = [pod |-> p, kind |-> Kind(p)]
            BY <1>4, <2>1
        <3>2. p \in holders[n]
            BY DEF Found, Observed
        <3> QED BY <3>1, <3>2
    <2> QED BY <1>2, <2>1 DEF Observed, clusterVars, histVars, Running
<1>6. AttributionIsRecent' /\ NamedAlike(netnsToPod)'
    BY <1>2 DEF AttributionIsRecent, NamedAlike, histVars
<1>7. NamedAlike(next)'
    <2>1. SUFFICES ASSUME NEW m \in Inode, NEW n \in Inode,
                          next'[m] # None, next'[n] # None,
                          OwnerOf[next'[m].pod] = OwnerOf[next'[n].pod]
                   PROVE  next'[m].kind = next'[n].kind
        BY DEF NamedAlike
    <2>2. PICK p \in Found(m) : next'[m] = [pod |-> p, kind |-> Kind(p)]
        BY <1>4, <2>1
    <2>3. PICK q \in Found(n) : next'[n] = [pod |-> q, kind |-> Kind(q)]
        BY <1>4, <2>1
    <2>4. OwnerOf[p] = OwnerOf[q]
        BY <2>1, <2>2, <2>3
    <2> QED BY <2>2, <2>3, <2>4 DEF Kind
<1> QED BY <1>1, <1>5, <1>6, <1>7

\* The other steps of the refresh.
LEMMA RefreshKeeps == ASSUME IInv, Refresh PROVE IInv'
<1> USE DEF IInv
<1>1. TypeOK'
    BY RefreshTypes
<1>2. CASE ScanBegin
    <2>1. UNCHANGED <<netnsToPod, next, netnsOf, mapHolders>> /\ rpc = "wait"
          /\ rpc' = "scan"
        BY <1>2 DEF ScanBegin, clusterVars
    <2>2. Observed'
        BY <1>2, <2>1 DEF ScanBegin, Observed, NoMap, Running, TypeOK
    <2> QED BY <1>1, <2>1, <2>2 DEF AttributionIsRecent, NamedAlike
<1>3. ASSUME NEW p \in Pod, ScanProcess(p) PROVE IInv'
    <2>1. UNCHANGED <<netnsToPod, next, netnsOf, rpc, holders, mapHolders>>
        BY <1>3 DEF ScanProcess, clusterVars, histVars
    <2>2. \A q \in procs' : q.pod \in holders[q.netns]
        BY <1>3 DEF ScanProcess, Observed
    <2>3. Observed'
        BY <2>1, <2>2 DEF Observed, Running, NoMap
    <2> QED BY <1>1, <2>1, <2>3 DEF AttributionIsRecent, NamedAlike
<1>4. CASE Install
    <2>1. /\ netnsToPod' = next /\ mapHolders' = holders
          /\ next' = NoMap /\ procs' = {}
          /\ UNCHANGED <<netnsOf, holders>>
        BY <1>4 DEF Install, clusterVars
    <2>2. Observed'
        BY <2>1 DEF Observed, NoMap, Running
    <2>3. AttributionIsRecent'
        BY <2>1 DEF AttributionIsRecent, Observed
    <2>4. NamedAlike(next)' /\ NamedAlike(netnsToPod)'
        BY <2>1 DEF NamedAlike, NoMap
    <2> QED BY <1>1, <2>2, <2>3, <2>4
<1> QED BY BuildKeeps, <1>2, <1>3, <1>4 DEF Refresh

\* It holds at the start.
LEMMA InitIInv == Init => IInv
BY SrcAssumption DEF Init, IInv, TypeOK, Observed, AttributionIsRecent, NamedAlike,
    Running, Absent, Nobody, NoMap, Map, Inode

\* The invariant of the theorems below.
THEOREM SrcInductive == Spec => []IInv
<1>1. IInv /\ [Next]_srcVars => IInv'
    <2>1. IInv /\ UNCHANGED srcVars => IInv'
        BY DEF IInv, TypeOK, Observed, AttributionIsRecent, NamedAlike, Running,
            srcVars, clusterVars, informerVars, refreshVars, histVars, NoMap
    <2> QED BY <2>1, ClusterKeeps, HandlerKeeps, RefreshKeeps DEF Next
<1> QED BY InitIInv, <1>1, PTL DEF Spec

\* The resolver's state is well typed.
THEOREM SrcTypes == Spec => []TypeOK
<1>1. IInv => TypeOK
    BY DEF IInv
<1> QED BY <1>1, SrcInductive, PTL

\* A namespace number that is used again is misattributed for one refresh at
\* most, for any number of pods, namespaces and late or lost events.
THEOREM AttributionAlwaysRecent == Spec => []AttributionIsRecent
<1>1. IInv => AttributionIsRecent
    BY DEF IInv
<1> QED BY <1>1, SrcInductive, PTL

\* Pods of one ReplicaSet always have the same workload name in one map.
THEOREM AlwaysOneNamePerReplicaSet == Spec => []OneNamePerReplicaSet
<1>1. IInv => OneNamePerReplicaSet
    BY DEF IInv, NamedAlike, OneNamePerReplicaSet
<1> QED BY <1>1, SrcInductive, PTL

-----------------------------------------------------------------------------
(* The resolver implements RecentMap.                                      *)

\* Nothing is held or resolved at the start.
LEMMA InitRecent == Init => Recent!Init
BY SrcAssumption DEF Init, Recent!Init, Nobody, NoMap, Inode

\* A process that starts or ends is a change, the rest is none.
LEMMA ClusterRecent == ASSUME IInv, Cluster PROVE [Recent!Next]_(Recent!recentVars)
<1> USE DEF IInv, TypeOK, Observed
<1> PICK p \in Pod : PodChanges(p) \/ ProcessStarts(p) \/ ProcessEnds(p)
    BY DEF Cluster
<1> DEFINE holding == {h \in Pod \X Inode : netnsOf[h[1]] = h[2]}
           since == {h \in Pod \X Inode : h[1] \in holders[h[2]]}
<1>1. UNCHANGED <<netnsToPod, mapHolders>>
    BY DEF PodChanges, ProcessStarts, ProcessEnds, refreshVars, histVars
<1>2. CASE PodChanges(p)
    BY <1>1, <1>2 DEF PodChanges, histVars, Recent!recentVars
<1>3. holding \subseteq since
    BY SrcAssumption DEF Running, Inode
<1>4. ASSUME since' = since \cup holding' PROVE Recent!Change
    BY <1>1, <1>4 DEF Recent!Change
<1>5. CASE ProcessStarts(p)
    <2>1. PICK n \in FreeNetns(p) :
              /\ netnsOf' = [netnsOf EXCEPT ![p] = n]
              /\ holders' = [holders EXCEPT ![n] = @ \cup {p}]
        BY <1>5 DEF ProcessStarts
    <2>2. n \in Inode
        BY DEF FreeNetns, Inode
    <2>3. \A q \in Pod, i \in Inode :
              (q \in holders'[i]) <=> (q \in holders[i] \/ netnsOf'[q] = i)
        <3>1. \A q \in Pod, i \in Inode : netnsOf[q] = i => q \in holders[i]
            BY SrcAssumption DEF Running, Inode
        <3>2. netnsOf'[p] = n /\ \A q \in Pod \ {p} : netnsOf'[q] = netnsOf[q]
            BY <2>1, <2>2
        <3>3. /\ holders'[n] = holders[n] \cup {p}
              /\ \A i \in Inode \ {n} : holders'[i] = holders[i]
            BY <2>1, <2>2
        <3>4. netnsOf[p] = None
            BY <1>5 DEF ProcessStarts, Running
        <3> QED BY <3>1, <3>2, <3>3, <3>4
    <2>4. since' = since \cup holding'
        BY <2>3
    <2> QED BY <1>4, <2>4 DEF Recent!Next
<1>6. CASE ProcessEnds(p)
    <2>1. holders' = holders /\ netnsOf' = [netnsOf EXCEPT ![p] = None]
        BY <1>6 DEF ProcessEnds, histVars
    <2>2. holding' \subseteq holding
        BY <2>1, SrcAssumption DEF Inode
    <2>3. since' = since \cup holding'
        BY <2>1, <2>2, <1>3
    <2> QED BY <1>4, <2>3 DEF Recent!Next
<1> QED BY <1>2, <1>5, <1>6

\* ScanBegin begins, Install installs, and the steps between do nothing.
LEMMA RefreshRecent == ASSUME IInv, Refresh PROVE [Recent!Next]_(Recent!recentVars)
<1> USE DEF IInv, TypeOK
<1>1. CASE ScanBegin
    <2>1. UNCHANGED <<netnsOf, netnsToPod, mapHolders>>
        BY <1>1 DEF ScanBegin, clusterVars
    <2>2. \A q \in Pod, i \in Inode : (q \in holders'[i]) <=> (netnsOf[q] = i)
        BY <1>1 DEF ScanBegin
    <2>3. Recent!Begin
        BY <2>1, <2>2 DEF Recent!Begin
    <2> QED BY <2>3 DEF Recent!Next
<1>2. CASE Build \/ \E p \in Pod : ScanProcess(p)
    BY <1>2 DEF Build, ScanProcess, clusterVars, histVars, Recent!recentVars
<1>3. CASE Install
    <2>1. /\ netnsToPod' = next /\ mapHolders' = holders
          /\ UNCHANGED <<netnsOf, holders>>
        BY <1>3 DEF Install, clusterVars
    <2>2. \A i \in Inode : next[i] # None => next[i].pod \in holders[i]
        BY DEF Observed
    <2>3. Recent!Install
        BY <2>1, <2>2 DEF Recent!Install
    <2> QED BY <2>3 DEF Recent!Next
<1> QED BY <1>1, <1>2, <1>3 DEF Refresh

\* SrcResolver implements RecentMap: its map is only replaced by what it saw
\* since its scan began.
THEOREM SrcImplementsRecentMap == Spec => NetnsMapIsRecent
<1>1. IInv /\ [Next]_srcVars => [Recent!Next]_(Recent!recentVars)
    <2>1. ASSUME Handler \/ UNCHANGED srcVars
          PROVE  UNCHANGED Recent!recentVars
        BY <2>1 DEF Handler, PodStored, PodDeleted, SetStored, SetDeleted, srcVars,
            clusterVars, refreshVars, histVars, Recent!recentVars
    <2> QED BY <2>1, ClusterRecent, RefreshRecent DEF Next
<1> QED BY InitRecent, <1>1, SrcInductive, PTL
        DEF Spec, NetnsMapIsRecent, Recent!Spec

=============================================================================
