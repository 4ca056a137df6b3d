--------------------------- MODULE K8sAgentProofs ---------------------------
(***************************************************************************)
(* Proofs about K8sAgent, for any sets of pods, namespaces, nodes and      *)
(* prefixes and, where a theorem does not say otherwise, any set of calls  *)
(* that may fail.                                                          *)
(***************************************************************************)
EXTENDS K8sAgent, SequenceTheorems, TLAPS

----------------------------------------------------------------------------
(* Lemmas about the allocator *)

Slots == [cidr : CIDR, gen : Nat, host : Host]

\* Reserving an address of a Range yields slots.
LEMMA ReserveType ==
  ASSUME NEW A \in SUBSET Slots, NEW s \in Subnet, NEW h \in Host
  PROVE  Reserve(A, s, h) \subseteq Slots
  BY DEF Reserve, Slot, Slots, Subnet

\* Releasing an address adds nothing.
LEMMA ReleaseType ==
  ASSUME NEW A, NEW s, NEW h
  PROVE  Release(A, s, h) \subseteq A
  BY DEF Release

\* The slots read back from the VSD are slots, whatever the VSD reports.
LEMMA LoadedType ==
  ASSUME NEW cs \in SUBSET CIDR, NEW g \in Nat
  PROVE  LoadedSlots(cs, g) \subseteq Slots
  BY DEF LoadedSlots, ReserveAll, Slot, Slots, Contains

\* A free address is a usable one.
LEMMA FreeHostsType ==
  ASSUME NEW A, NEW s
  PROVE  FreeHosts(A, s) \subseteq Host
  BY DEF FreeHosts

\* The prefixes of a zone are prefixes.
LEMMA ZonePrefixesType ==
  ASSUME vsubnets \subseteq VSubnet, NEW n
  PROVE  ZonePrefixes(n) \subseteq CIDR
  BY DEF ZonePrefixes, VSubnet

\* The bounds are not negative.
LEMMA BoundFacts ==
    /\ 0 \in 0 .. MaxUID /\ 0 \in 0 .. MaxNsCreate /\ 0 \in 0 .. MaxRestarts
    /\ \A r \in 0 .. MaxRestarts : r < MaxRestarts => r + 1 \in 0 .. MaxRestarts
    /\ \A r \in 0 .. MaxNsCreate : r < MaxNsCreate => r + 1 \in 0 .. MaxNsCreate
    /\ \A u \in 0 .. MaxUID : u < MaxUID => u + 1 \in UID
    /\ UID \subseteq 0 .. MaxUID
  BY BoundAssumption DEF UID

\* Pod queues stay pod queues when an event is added or taken.
LEMMA PodQueueType ==
    /\ <<>> \in PodQueue
    /\ \A e \in PodEvent : <<e>> \in PodQueue
    /\ \A q \in PodQueue, e \in PodEvent : Append(q, e) \in PodQueue
    /\ \A q \in PodQueue : q # <<>> => Head(q) \in PodEvent /\ Tail(q) \in PodQueue
  BY DEF PodQueue

\* The same for namespace queues.
LEMMA NsQueueType ==
    /\ <<>> \in NsQueue
    /\ \A e \in {"add", "del"} : <<e>> \in NsQueue
    /\ \A q \in NsQueue, e \in {"add", "del"} : Append(q, e) \in NsQueue
    /\ \A q \in NsQueue : q # <<>> => Tail(q) \in NsQueue
  BY DEF NsQueue

----------------------------------------------------------------------------
(* Type correctness *)

\* The initial state has the right types.
LEMMA InitType == Init => TypeOK
<1> SUFFICES ASSUME Init PROVE TypeOK
  OBVIOUS
<1>1. VSDTypeOK
  BY ProvisionedAssumption DEF Init, VSDTypeOK, VSubnet
<1>2. APITypeOK
  <2>1. \A p \in PodName : ~apipods[p].live
    BY DEF Init
  <2>2. apipods \in [PodName -> [live : BOOLEAN, uid : 0 .. MaxUID, node : Where]]
    BY BoundFacts DEF Init, Where
  <2>3. apins \in [NS -> [live : BOOLEAN, count : 0 .. MaxNsCreate]]
    BY BoundFacts DEF Init
  <2>4. /\ podq \in [PodName -> PodQueue] /\ nsq \in [NS -> NsQueue]
        /\ store \in [PodName -> SUBSET Where]
    BY PodQueueType, NsQueueType DEF Init, FreshMemory
  <2> QED BY <2>1, <2>2, <2>3, <2>4 DEF APITypeOK
<1>3. CacheTypeOK
  BY DEF Init, CacheTypeOK, FreshMemory, NoNamespaces
<1>4. WorkerTypeOK
  BY DEF Init, WorkerTypeOK, FreshMemory, PodPC, NsPC
<1>5. ProcessTypeOK
  BY BoundFacts DEF Init, ProcessTypeOK, Exit
<1> QED BY <1>1, <1>2, <1>3, <1>4, <1>5 DEF TypeOK

\* The end of the process leaves well-typed state behind.
LEMMA DieType ==
  ASSUME TypeOK, NEW reason \in Exit, Die(reason)
  PROVE  TypeOK'
<1>1. VSDTypeOK'
  BY DEF TypeOK, VSDTypeOK, Die, vsdVars, cniVars
<1>2. APITypeOK'
  BY PodQueueType, NsQueueType DEF TypeOK, APITypeOK, Die, LoseMemory, apiVars
<1>3. CacheTypeOK'
  BY DEF CacheTypeOK, Die, LoseMemory, NoNamespaces
<1>4. WorkerTypeOK'
  BY DEF WorkerTypeOK, Die, LoseMemory, PodPC, NsPC
<1>5. ProcessTypeOK'
  BY DEF TypeOK, ProcessTypeOK, Die
<1> QED BY <1>1, <1>2, <1>3, <1>4, <1>5 DEF TypeOK

\* The namespace controller.
LEMMA NsType ==
  ASSUME TypeOK, NsNext
  PROVE  TypeOK'
<1> USE DEF TypeOK
<1>1. ASSUME NEW n \in NS, NsAdded(n) \/ NamespaceDeleted(n) PROVE TypeOK'
  <2>1. VSDTypeOK' /\ ProcessTypeOK' /\ CacheTypeOK'
    BY <1>1 DEF NsAdded, NamespaceDeleted, NsFrame, VSDTypeOK, ProcessTypeOK, CacheTypeOK,
                vsdVars, cniVars, ipamVars, procVars
  <2>2. APITypeOK'
    <3>1. nsq' \in [NS -> NsQueue]
      <4>1. nsq[n] \in NsQueue
        BY DEF APITypeOK
      <4>2. nsq[n] # <<>> /\ nsq' = [nsq EXCEPT ![n] = Tail(nsq[n])]
        BY <1>1 DEF NsAdded, NamespaceDeleted
      <4>3. Tail(nsq[n]) \in NsQueue
        BY <4>1, <4>2, NsQueueType
      <4> QED BY <4>2, <4>3 DEF APITypeOK
    <3> QED BY <1>1, <3>1 DEF NsAdded, NamespaceDeleted, NsFrame, APITypeOK, apiVars
  <2>3. WorkerTypeOK'
    BY <1>1 DEF NsAdded, NamespaceDeleted, NsFrame, WorkerTypeOK, podVars, nsVars, NsPC
  <2> QED BY <2>1, <2>2, <2>3
<1>2. CASE ZoneFetchByName
  <2>1. VSDTypeOK' /\ ProcessTypeOK' /\ APITypeOK'
    BY <1>2 DEF ZoneFetchByName, NsFrame, VSDTypeOK, ProcessTypeOK, APITypeOK,
                vsdVars, cniVars, apiVars, procVars
  <2>2. CacheTypeOK'
    BY <1>2 DEF ZoneFetchByName, NsFrame, CacheTypeOK, WorkerTypeOK, ipamVars
  <2>3. WorkerTypeOK'
    BY <1>2 DEF ZoneFetchByName, NsFrame, NsGoto, NsReturn, WorkerTypeOK, podVars, NsPC
  <2> QED BY <2>1, <2>2, <2>3
<1>3. CASE ZoneCreate
  <2>1. ProcessTypeOK' /\ APITypeOK'
    BY <1>3 DEF ZoneCreate, NsFrame, ProcessTypeOK, APITypeOK, apiVars, procVars
  <2>2. VSDTypeOK' /\ CacheTypeOK'
    BY <1>3 DEF ZoneCreate, NsFrame, VSDTypeOK, CacheTypeOK, WorkerTypeOK, cniVars, ipamVars
  <2>3. WorkerTypeOK'
    BY <1>3 DEF ZoneCreate, NsFrame, NsGoto, NsReturn, WorkerTypeOK, podVars, NsPC
  <2> QED BY <2>1, <2>2, <2>3
<1>4. CASE ZoneSubnets
  <2>1. VSDTypeOK' /\ ProcessTypeOK' /\ APITypeOK'
    BY <1>4 DEF ZoneSubnets, NsFrame, VSDTypeOK, ProcessTypeOK, APITypeOK,
                vsdVars, cniVars, apiVars, procVars
  <2>2. \A n \in NS : ZonePrefixes(n) \subseteq CIDR
    BY ZonePrefixesType DEF VSDTypeOK
  <2>3. nsjob \subseteq NS /\ gen + 1 \in Nat
    BY DEF WorkerTypeOK, CacheTypeOK
  <2>0. \A fault, objs : \A read \in Listed(fault, objs) : read \subseteq objs
    BY DEF Listed
  <2>4. allocated' \subseteq Slots
    <3>1. CASE allocated' = allocated
      BY <3>1 DEF CacheTypeOK, Slots
    <3>2. CASE \E n \in nsjob : \E cs \in Listed("subnets", ZonePrefixes(n)) :
               \E slots \in Listed("cifaces", LoadedSlots(cs, gen + 1)) :
                  allocated' = allocated \cup slots
      <4>0. PICK n \in nsjob : \E cs \in Listed("subnets", ZonePrefixes(n)) :
               \E slots \in Listed("cifaces", LoadedSlots(cs, gen + 1)) :
                  allocated' = allocated \cup slots
        BY <3>2
      <4>1. PICK cs \in Listed("subnets", ZonePrefixes(n)) :
               \E slots \in Listed("cifaces", LoadedSlots(cs, gen + 1)) :
                  allocated' = allocated \cup slots
        BY <4>0
      <4>2. LoadedSlots(cs, gen + 1) \subseteq Slots
        BY <2>0, <2>2, <2>3, LoadedType
      <4> QED BY <2>0, <4>1, <4>2 DEF CacheTypeOK, Slots
    <3> QED BY <1>4, <3>1, <3>2 DEF ZoneSubnets
  <2>5. nssubnets' \subseteq Subnet
    <3>1. PICK n \in NS :
              \/ \E cs \in Listed("subnets", ZonePrefixes(n)) :
                    nssubnets' = {[cidr |-> c, gen |-> gen + 1, customed |-> Customed(c)] : c \in cs}
              \/ nssubnets' = {}
      BY <1>4, <2>3 DEF ZoneSubnets
    <3>2. \A c \in ZonePrefixes(n) :
             [cidr |-> c, gen |-> gen + 1, customed |-> Customed(c)] \in Subnet
      BY <2>2, <2>3 DEF Subnet, Customed
    <3> QED BY <2>0, <3>1, <3>2
  <2>6. FreeCIDRs' \subseteq ClusterCIDRs /\ gen' \in Nat
    BY <1>4, <2>3 DEF ZoneSubnets, CacheTypeOK
  <2>7. CacheTypeOK'
    BY <1>4, <2>4, <2>6 DEF ZoneSubnets, NsFrame, CacheTypeOK, Slots
  <2>8. WorkerTypeOK'
    BY <1>4, <2>5 DEF ZoneSubnets, NsFrame, NsGoto, WorkerTypeOK, podVars, NsPC
  <2> QED BY <2>1, <2>7, <2>8
<1>5. CASE PublishNamespace
  <2>1. VSDTypeOK' /\ ProcessTypeOK' /\ APITypeOK'
    BY <1>5 DEF PublishNamespace, NsFrame, VSDTypeOK, ProcessTypeOK, APITypeOK,
                vsdVars, cniVars, apiVars, procVars
  <2>2. CacheTypeOK'
    BY <1>5 DEF PublishNamespace, NsFrame, CacheTypeOK, WorkerTypeOK
  <2>3. WorkerTypeOK'
    BY <1>5 DEF PublishNamespace, NsFrame, NsReturn, WorkerTypeOK, podVars, NsPC
  <2> QED BY <2>1, <2>2, <2>3
<1> QED BY <1>1, <1>2, <1>3, <1>4, <1>5 DEF NsNext

\* The cluster, the plugins, crashes and restarts.
LEMMA EnvironmentType ==
  ASSUME TypeOK, ClusterNext \/ PluginRemove \/ PluginLeftover \/ Crash \/ Restart
  PROVE  TypeOK'
<1> USE DEF TypeOK
<1>1. ASSUME NEW p \in PodName, NEW n,
             CreatePod(p) \/ DeletePod(p) \/ (n \in Node /\ SchedulePod(p, n))
      PROVE  TypeOK'
  <2>1. VSDTypeOK' /\ ProcessTypeOK' /\ CacheTypeOK' /\ WorkerTypeOK'
    BY <1>1 DEF CreatePod, DeletePod, SchedulePod, ClusterFrame, VSDTypeOK, ProcessTypeOK,
                CacheTypeOK, WorkerTypeOK, vsdVars, cniVars, ipamVars, podVars, nsVars, procVars
  <2>2. /\ apipods' \in [PodName -> [live : BOOLEAN, uid : 0 .. MaxUID, node : Where]]
        /\ \A q \in PodName : apipods'[q].live => apipods'[q].uid \in UID
        /\ apipods'[p].uid \in UID /\ apipods'[p].node \in Where
    <3>1. CASE CreatePod(p)
      <4>1. apipods[p].uid + 1 \in UID /\ apipods[p].uid + 1 \in 0 .. MaxUID
        BY <3>1, BoundAssumption DEF CreatePod, APITypeOK, UID
      <4>2. apipods' = [apipods EXCEPT ![p] = [live |-> TRUE, uid |-> apipods[p].uid + 1,
                                               node |-> NoNode]]
        BY <3>1 DEF CreatePod
      <4> QED BY <4>1, <4>2 DEF APITypeOK, Where
    <3>2. CASE n \in Node /\ SchedulePod(p, n)
      <4>1. apipods' = [apipods EXCEPT ![p].node = n] /\ apipods[p].live
        BY <3>2 DEF SchedulePod
      <4>2. apipods' = [apipods EXCEPT ![p] = [apipods[p] EXCEPT !.node = n]]
        BY <4>1
      <4>3. [apipods[p] EXCEPT !.node = n] \in [live : BOOLEAN, uid : 0 .. MaxUID, node : Where]
        BY <3>2 DEF APITypeOK, Where
      <4> QED BY <3>2, <4>1, <4>2, <4>3 DEF APITypeOK, Where
    <3>3. CASE DeletePod(p)
      <4>1. apipods' = [apipods EXCEPT ![p].live = FALSE] /\ apipods[p].live
        BY <3>3 DEF DeletePod
      <4> QED BY <4>1 DEF APITypeOK, Where
    <3> QED BY <1>1, <3>1, <3>2, <3>3
  <2>3. podq' \in [PodName -> PodQueue]
    <3>1. \A k \in {"set", "del"} :
             [kind |-> k, uid |-> apipods'[p].uid, node |-> apipods'[p].node] \in PodEvent
      BY <2>2 DEF PodEvent
    <3>2. podq[p] \in PodQueue
      BY DEF APITypeOK
    <3>3. PICK e \in PodEvent : podq' = [podq EXCEPT ![p] = Append(podq[p], e)] \/ podq' = podq
      BY <1>1, <3>1 DEF CreatePod, DeletePod, SchedulePod, Notify
    <3>4. Append(podq[p], e) \in PodQueue
      BY <3>2, PodQueueType
    <3> QED BY <3>3, <3>4 DEF APITypeOK
  <2>4. APITypeOK'
    BY <1>1, <2>2, <2>3 DEF CreatePod, DeletePod, SchedulePod, ClusterFrame, APITypeOK
  <2> QED BY <2>1, <2>4
<1>2. ASSUME NEW n \in NS, CreateNs(n) \/ DeleteNs(n) PROVE TypeOK'
  <2>1. VSDTypeOK' /\ ProcessTypeOK' /\ CacheTypeOK' /\ WorkerTypeOK'
    BY <1>2 DEF CreateNs, DeleteNs, ClusterFrame, VSDTypeOK, ProcessTypeOK,
                CacheTypeOK, WorkerTypeOK, vsdVars, cniVars, ipamVars, podVars, nsVars, procVars
  <2>2. apins' \in [NS -> [live : BOOLEAN, count : 0 .. MaxNsCreate]]
    <3>1. CASE CreateNs(n)
      <4>1. apins[n].count + 1 \in 0 .. MaxNsCreate
        BY <3>1, BoundAssumption DEF CreateNs, APITypeOK
      <4>2. apins' = [apins EXCEPT ![n] = [live |-> TRUE, count |-> apins[n].count + 1]]
        BY <3>1 DEF CreateNs
      <4> QED BY <4>1, <4>2 DEF APITypeOK
    <3>2. CASE DeleteNs(n)
      BY <3>2 DEF DeleteNs, APITypeOK
    <3> QED BY <1>2, <3>1, <3>2
  <2>3. nsq' \in [NS -> NsQueue]
    <3>1. PICK e \in {"add", "del"} : nsq' = [nsq EXCEPT ![n] = Append(nsq[n], e)] \/ nsq' = nsq
      BY <1>2 DEF CreateNs, DeleteNs, NotifyNs
    <3>2. Append(nsq[n], e) \in NsQueue
      BY NsQueueType DEF APITypeOK
    <3> QED BY <3>1, <3>2 DEF APITypeOK
  <2>4. APITypeOK'
    BY <1>2, <2>2, <2>3 DEF CreateNs, DeleteNs, ClusterFrame, APITypeOK
  <2> QED BY <2>1, <2>4
<1>3. CASE PluginRemove \/ PluginLeftover
  <2>1. vcont' \subseteq Container
    BY <1>3 DEF PluginRemove, PluginLeftover, VSDTypeOK, Container
  <2> QED BY <1>3, <2>1
    DEF PluginRemove, PluginLeftover, PluginFrame, VSDTypeOK, APITypeOK, ProcessTypeOK,
        CacheTypeOK, WorkerTypeOK, cniVars, apiVars, qVars, ipamVars, podVars, nsVars, procVars
<1>4. CASE Crash
  BY <1>4, DieType DEF Crash, Exit
<1>5. CASE Restart
  <2>1. VSDTypeOK' /\ CacheTypeOK' /\ WorkerTypeOK'
    BY <1>5 DEF Restart, VSDTypeOK, CacheTypeOK, WorkerTypeOK, vsdVars, cniVars, ipamVars,
                podVars, nsVars
  <2>2. ProcessTypeOK'
    <3>1. restarts' \in 0 .. MaxRestarts
      BY <1>5, BoundFacts DEF Restart, ProcessTypeOK
    <3> QED BY <1>5, <3>1 DEF Restart, ProcessTypeOK, Exit
  <2>3. APITypeOK'
    <3>1. ASSUME NEW p \in PodName, apipods[p].live
          PROVE  <<[kind |-> "set", uid |-> apipods[p].uid, node |-> apipods[p].node]>>
                    \in PodQueue
      BY <3>1, PodQueueType DEF APITypeOK, PodEvent
    <3>2. podq' \in [PodName -> PodQueue]
      BY <1>5, <3>1, PodQueueType DEF Restart
    <3>3. nsq' \in [NS -> NsQueue]
      BY <1>5, NsQueueType DEF Restart
    <3> QED BY <1>5, <3>2, <3>3 DEF Restart, APITypeOK, apiVars
  <2> QED BY <2>1, <2>2, <2>3
<1> QED BY <1>1, <1>2, <1>3, <1>4, <1>5 DEF ClusterNext

\* What every step of the pod controller leaves alone keeps its type.
LEMMA PodFrameType ==
  ASSUME TypeOK, PodFrame
  PROVE  /\ vzones' \subseteq NS /\ Zones' \subseteq NS /\ gen' \in Nat
         /\ apipods' = apipods /\ apins' = apins /\ nsq' = nsq
         /\ nspc' = nspc /\ nsjob' = nsjob /\ nssubnets' = nssubnets /\ ProcessTypeOK'
  BY DEF TypeOK, VSDTypeOK, CacheTypeOK, ProcessTypeOK, PodFrame, apiVars, nsVars, procVars

\* The cache entry of a pod's namespace is a list of subnets.
LEMMA CachedSubnetsType ==
  ASSUME TypeOK, NEW p \in PodName
  PROVE  CachedSubnets(p) \subseteq Subnet
  BY PodNSAssumption DEF TypeOK, CacheTypeOK, CachedSubnets

\* The container a handler is about to create.
LEMMA NewContainerType ==
  ASSUME NEW j \in Job, NEW s \in Subnet, NEW h \in Host
  PROVE  NewContainer(j, s.cidr, h) \in Container
  BY DEF Job, Subnet, NewContainer, Container

\* ContainerPUT.
LEMMA PutType ==
  ASSUME TypeOK, NEW n, NEW c \in Container, PutSucceeds(n, c) \/ PutFails(n)
  PROVE  cni' \subseteq [node : Node, cont : Container] /\ ran' \subseteq Container
  BY DEF TypeOK, VSDTypeOK, PutSucceeds, PutFails, CniPut, cniVars

\* Taking an event from a pod's queue.
LEMMA PodEventType ==
  ASSUME TypeOK, NEW p \in PodName, podq[p] # <<>>
  PROVE  /\ Head(podq[p]) \in PodEvent
         /\ [podq EXCEPT ![p] = Tail(podq[p])] \in [PodName -> PodQueue]
         /\ [pod |-> p, uid |-> Head(podq[p]).uid, node |-> Head(podq[p]).node] \in Job
<1>1. podq[p] \in PodQueue
  BY DEF TypeOK, APITypeOK
<1>2. Head(podq[p]) \in PodEvent /\ Tail(podq[p]) \in PodQueue
  BY <1>1, PodQueueType
<1>3. [pod |-> p, uid |-> Head(podq[p]).uid, node |-> Head(podq[p]).node] \in Job
  BY <1>2 DEF PodEvent, Job
<1> QED BY <1>2, <1>3 DEF TypeOK, APITypeOK

\* The steps of PodCreated.
LEMMA PodCreatedType ==
  ASSUME TypeOK, PodCreatedStep
  PROVE  TypeOK'
<1> USE DEF TypeOK
<1>0. ASSUME NEW p \in PodName, PodAdded(p) PROVE TypeOK'
  <2>0. PodFrame /\ podq[p] # <<>>
    BY <1>0 DEF PodAdded
  <2>1. VSDTypeOK' /\ ProcessTypeOK'
    BY <1>0, <2>0, PodFrameType DEF PodAdded, VSDTypeOK, cniVars
  <2>2. APITypeOK'
    <3>1. store' \in [PodName -> SUBSET Where] /\ podq' \in [PodName -> PodQueue]
      BY <1>0, <2>0, PodEventType DEF PodAdded, APITypeOK, PodEvent
    <3> QED BY <2>0, <3>1, PodFrameType DEF APITypeOK
  <2>3. CacheTypeOK'
    BY <1>0, <2>0, PodFrameType DEF PodAdded, CacheTypeOK
  <2>4. WorkerTypeOK'
    BY <1>0, <2>0, PodFrameType, PodEventType DEF PodAdded, WorkerTypeOK, PodPC
  <2> QED BY <2>1, <2>2, <2>3, <2>4
<1>1. CASE WaitNamespace
  <2>0. PodFrame
    BY <1>1 DEF WaitNamespace
  <2>1. VSDTypeOK' /\ ProcessTypeOK' /\ APITypeOK' /\ CacheTypeOK'
    BY <1>1, <2>0, PodFrameType DEF WaitNamespace, VSDTypeOK, APITypeOK, CacheTypeOK, cniVars
  <2>2. WorkerTypeOK'
    BY <1>1, <2>0, PodFrameType DEF WaitNamespace, PodGoto, PodReturn, WorkerTypeOK, PodPC
  <2> QED BY <2>1, <2>2
<1>2. CASE Case1Fetch
  <2>0. PodFrame
    BY <1>2 DEF Case1Fetch
  <2>1. VSDTypeOK' /\ ProcessTypeOK' /\ APITypeOK' /\ CacheTypeOK'
    BY <1>2, <2>0, PodFrameType DEF Case1Fetch, VSDTypeOK, APITypeOK, CacheTypeOK, cniVars
  <2>2. WorkerTypeOK'
    BY <1>2, <2>0, PodFrameType
       DEF Case1Fetch, Named, PodGoto, WorkerTypeOK, VSDTypeOK, PodPC
  <2> QED BY <2>1, <2>2
<1>3. CASE Case1Fatal
  BY <1>3, DieType DEF Case1Fatal, Exit
<1>4. CASE Case1Put
  <2>0. PodFrame
    BY <1>4 DEF Case1Put
  <2>1. cni' \subseteq [node : Node, cont : Container] /\ ran' \subseteq Container
    BY <1>4, PutType DEF Case1Put, WorkerTypeOK
  <2>2. VSDTypeOK' /\ ProcessTypeOK' /\ APITypeOK' /\ CacheTypeOK'
    BY <1>4, <2>0, <2>1, PodFrameType DEF Case1Put, VSDTypeOK, APITypeOK, CacheTypeOK
  <2>3. WorkerTypeOK'
    BY <1>4, <2>0, PodFrameType DEF Case1Put, PodReturn, WorkerTypeOK, PodPC
  <2> QED BY <2>2, <2>3
<1>5. CASE Case2Allocate
  <2>0. PodFrame
    BY <1>5 DEF Case2Allocate
  <2>1. VSDTypeOK' /\ ProcessTypeOK' /\ APITypeOK'
    BY <1>5, <2>0, PodFrameType DEF Case2Allocate, VSDTypeOK, APITypeOK, cniVars
  <2>2. /\ allocated' \subseteq Slots /\ container' \subseteq Container
        /\ csubnet' \subseteq Subnet /\ podpc' \in PodPC /\ job' = job
    <3>1. CASE UNCHANGED <<allocated, container, csubnet>> /\ PodGoto("case3")
      BY <3>1 DEF CacheTypeOK, WorkerTypeOK, Slots, PodGoto, PodPC
    <3>2. CASE \E j \in job : \E s \in CustomSubnets(j.pod) : \E h \in CustomHosts(j.pod, s) :
                  /\ allocated' = Reserve(allocated, s, h)
                  /\ container' = {NewContainer(j, s.cidr, h)} /\ csubnet' = {s}
                  /\ PodGoto("create2")
      <4>1. PICK j \in job : \E s \in CustomSubnets(j.pod) : \E h \in CustomHosts(j.pod, s) :
                  /\ allocated' = Reserve(allocated, s, h)
                  /\ container' = {NewContainer(j, s.cidr, h)} /\ csubnet' = {s}
                  /\ PodGoto("create2")
        BY <3>2
      <4>2. j \in Job /\ j.pod \in PodName
        BY DEF WorkerTypeOK, Job
      <4>3. PICK s \in CustomSubnets(j.pod) : \E h \in CustomHosts(j.pod, s) :
                  /\ allocated' = Reserve(allocated, s, h)
                  /\ container' = {NewContainer(j, s.cidr, h)} /\ csubnet' = {s}
                  /\ PodGoto("create2")
        BY <4>1
      <4>4. PICK h \in CustomHosts(j.pod, s) :
                  /\ allocated' = Reserve(allocated, s, h)
                  /\ container' = {NewContainer(j, s.cidr, h)} /\ csubnet' = {s}
                  /\ PodGoto("create2")
        BY <4>3
      <4>5. s \in Subnet /\ h \in Host
        BY <4>2, CachedSubnetsType, FreeHostsType DEF CustomSubnets, CustomHosts
      <4>6. allocated' \subseteq Slots
        BY <4>4, <4>5, ReserveType DEF CacheTypeOK, Slots
      <4> QED BY <4>2, <4>4, <4>5, <4>6, NewContainerType DEF PodGoto, PodPC
    <3> QED BY <1>5, <3>1, <3>2 DEF Case2Allocate
  <2>3. CacheTypeOK'
    BY <1>5, <2>0, <2>2, PodFrameType DEF Case2Allocate, CacheTypeOK, Slots
  <2>4. WorkerTypeOK'
    BY <1>5, <2>0, <2>2, PodFrameType DEF Case2Allocate, WorkerTypeOK
  <2> QED BY <2>1, <2>3, <2>4
<1>6. ASSUME Case2Create \/ Case3Create PROVE TypeOK'
  <2>0. PodFrame
    BY <1>6 DEF Case2Create, Case3Create
  <2>1. vcont' \subseteq Container
    BY <1>6 DEF Case2Create, Case3Create, CreateSucceeds, CreateFails, VSDTypeOK, WorkerTypeOK
  <2>2. allocated' \subseteq Slots
    BY <1>6, ReleaseType DEF Case2Create, Case3Create, ReleaseReserved, CacheTypeOK, Slots
  <2>3. VSDTypeOK' /\ ProcessTypeOK' /\ APITypeOK'
    BY <1>6, <2>0, <2>1, PodFrameType
       DEF Case2Create, Case3Create, VSDTypeOK, APITypeOK, cniVars
  <2>4. CacheTypeOK'
    BY <1>6, <2>0, <2>2, PodFrameType DEF Case2Create, Case3Create, CacheTypeOK, Slots
  <2>5. WorkerTypeOK'
    BY <1>6, <2>0, PodFrameType
       DEF Case2Create, Case3Create, PodGoto, PodReturn, WorkerTypeOK, PodPC
  <2> QED BY <2>3, <2>4, <2>5
<1>7. ASSUME Case2Put \/ Case3Put PROVE TypeOK'
  <2>0. PodFrame
    BY <1>7 DEF Case2Put, Case3Put
  <2>1. cni' \subseteq [node : Node, cont : Container] /\ ran' \subseteq Container
    BY <1>7, PutType DEF Case2Put, Case3Put, WorkerTypeOK, VSDTypeOK, cniVars
  <2>2. Pods' \subseteq Container
    BY <1>7 DEF Case2Put, Case3Put, RememberPod, WorkerTypeOK, CacheTypeOK
  <2>3. VSDTypeOK' /\ ProcessTypeOK' /\ APITypeOK'
    BY <1>7, <2>0, <2>1, PodFrameType DEF Case2Put, Case3Put, VSDTypeOK, APITypeOK
  <2>4. CacheTypeOK'
    BY <1>7, <2>0, <2>2, PodFrameType DEF Case2Put, Case3Put, CacheTypeOK
  <2>5. WorkerTypeOK'
    BY <1>7, <2>0, PodFrameType DEF Case2Put, Case3Put, PodGoto, PodReturn, WorkerTypeOK, PodPC
  <2> QED BY <2>3, <2>4, <2>5
<1>8. CASE Case3Allocate
  <2>0. PodFrame
    BY <1>8 DEF Case3Allocate
  <2>1. VSDTypeOK' /\ ProcessTypeOK' /\ APITypeOK'
    BY <1>8, <2>0, PodFrameType DEF Case3Allocate, VSDTypeOK, APITypeOK, cniVars
  <2>2. PICK j \in job :
          \/ \E s \in ClusterSubnets(j.pod) : \E h \in ClusterHosts(s) :
               /\ allocated' = Reserve(allocated, s, h)
               /\ container' = {NewContainer(j, s.cidr, h)} /\ csubnet' = {s}
               /\ PodGoto("create3") /\ UNCHANGED podNsZone
          \/ /\ podNsZone' = CachedSubnets(j.pod)
             /\ PodGoto("addsubnet") /\ UNCHANGED <<allocated, container, csubnet>>
    BY <1>8 DEF Case3Allocate
  <2>3. j \in Job /\ j.pod \in PodName
    BY DEF WorkerTypeOK, Job
  <2>4. /\ allocated' \subseteq Slots /\ container' \subseteq Container
        /\ csubnet' \subseteq Subnet /\ podNsZone' \subseteq Subnet
        /\ podpc' \in PodPC /\ job' = job
    <3>1. CASE \E s \in ClusterSubnets(j.pod) : \E h \in ClusterHosts(s) :
                  /\ allocated' = Reserve(allocated, s, h)
                  /\ container' = {NewContainer(j, s.cidr, h)} /\ csubnet' = {s}
                  /\ PodGoto("create3") /\ UNCHANGED podNsZone
      <4>1. PICK s \in ClusterSubnets(j.pod) : \E h \in ClusterHosts(s) :
                  /\ allocated' = Reserve(allocated, s, h)
                  /\ container' = {NewContainer(j, s.cidr, h)} /\ csubnet' = {s}
                  /\ PodGoto("create3") /\ UNCHANGED podNsZone
        BY <3>1
      <4>2. PICK h \in ClusterHosts(s) :
                  /\ allocated' = Reserve(allocated, s, h)
                  /\ container' = {NewContainer(j, s.cidr, h)} /\ csubnet' = {s}
                  /\ PodGoto("create3") /\ UNCHANGED podNsZone
        BY <4>1
      <4>3. s \in Subnet /\ h \in Host
        BY <2>3, CachedSubnetsType, FreeHostsType DEF ClusterSubnets, ClusterHosts
      <4>4. allocated' \subseteq Slots
        BY <4>2, <4>3, ReserveType DEF CacheTypeOK, Slots
      <4> QED BY <2>3, <4>2, <4>3, <4>4, NewContainerType DEF PodGoto, PodPC, WorkerTypeOK
    <3>2. CASE /\ podNsZone' = CachedSubnets(j.pod)
               /\ PodGoto("addsubnet") /\ UNCHANGED <<allocated, container, csubnet>>
      BY <2>3, <3>2, CachedSubnetsType DEF CacheTypeOK, WorkerTypeOK, Slots, PodGoto, PodPC
    <3> QED BY <2>2, <3>1, <3>2
  <2>5. CacheTypeOK'
    BY <1>8, <2>0, <2>4, PodFrameType DEF Case3Allocate, CacheTypeOK, Slots
  <2>6. WorkerTypeOK'
    BY <1>8, <2>0, <2>4, PodFrameType DEF Case3Allocate, WorkerTypeOK
  <2> QED BY <2>1, <2>5, <2>6
<1>9. CASE Case3AddSubnet
  <2>0. PodFrame /\ PodGoto("append")
    BY <1>9 DEF Case3AddSubnet
  <2>1. PICK j \in job, c \in AddableCIDRs, h \in Host :
          LET s == [cidr |-> c, gen |-> gen, customed |-> FALSE] IN
          /\ vsubnets' = vsubnets \cup {[cidr |-> c, zone |-> PodNS[j.pod]]}
          /\ allocated' = Reserve(allocated, s, h)
          /\ container' = {NewContainer(j, c, h)} /\ csubnet' = {s}
    BY <1>9 DEF Case3AddSubnet
  <2>2. j \in Job /\ PodNS[j.pod] \in NS
    BY PodNSAssumption DEF WorkerTypeOK, Job
  <2>3. AddableCIDRs \subseteq CIDR
    BY DEF AddableCIDRs, CacheTypeOK, CIDR
  <2>4. vsubnets' \subseteq VSubnet
    BY <2>1, <2>2, <2>3 DEF VSDTypeOK, VSubnet
  <2>5. [cidr |-> c, gen |-> gen, customed |-> FALSE] \in Subnet
    BY <2>3 DEF Subnet, CacheTypeOK
  <2>6. allocated' \subseteq Slots
    BY <2>1, <2>5, ReserveType DEF CacheTypeOK, Slots
  <2>7. NewContainer(j, c, h) \in Container
    BY <2>2, <2>3 DEF NewContainer, Container, Job
  <2>8. VSDTypeOK' /\ ProcessTypeOK' /\ APITypeOK'
    BY <1>9, <2>0, <2>4, PodFrameType DEF Case3AddSubnet, VSDTypeOK, APITypeOK, cniVars
  <2>9. CacheTypeOK'
    BY <1>9, <2>0, <2>6, PodFrameType DEF Case3AddSubnet, CacheTypeOK, Slots
  <2>10. WorkerTypeOK'
    BY <1>9, <2>0, <2>1, <2>5, <2>7, PodFrameType
       DEF Case3AddSubnet, PodGoto, WorkerTypeOK, PodPC
  <2> QED BY <2>8, <2>9, <2>10
<1>9a. CASE Case3AddLost
  <2>1. PICK j \in job, c \in AddableCIDRs : vsubnets' = vsubnets \cup {[cidr |-> c, zone |-> PodNS[j.pod]]}
    BY <1>9a DEF Case3AddLost
  <2>2. j \in Job /\ PodNS[j.pod] \in NS /\ c \in CIDR
    BY PodNSAssumption DEF WorkerTypeOK, Job, AddableCIDRs, CacheTypeOK, CIDR
  <2>3. vsubnets' \subseteq VSubnet
    BY <2>1, <2>2 DEF VSDTypeOK, VSubnet
  <2>4. PodFrame
    BY <1>9a DEF Case3AddLost
  <2>5. VSDTypeOK' /\ ProcessTypeOK' /\ APITypeOK'
    BY <1>9a, <2>3, <2>4, PodFrameType DEF Case3AddLost, VSDTypeOK, APITypeOK, cniVars
  <2>6. CacheTypeOK' /\ WorkerTypeOK'
    BY <1>9a, <2>4, PodFrameType DEF Case3AddLost, CacheTypeOK, WorkerTypeOK, podVars
  <2> QED BY <2>5, <2>6
<1>10. CASE Case3NoAddress
  BY <1>10, DieType DEF Case3NoAddress, Exit
<1>11. CASE Case3Append
  <2>0. PodFrame
    BY <1>11 DEF Case3Append
  <2>1. VSDTypeOK' /\ ProcessTypeOK' /\ APITypeOK'
    BY <1>11, <2>0, PodFrameType DEF Case3Append, VSDTypeOK, APITypeOK, cniVars
  <2>2. Namespaces' \in [NS -> [exists : BOOLEAN, subnets : SUBSET Subnet]]
    <3>1. [exists |-> TRUE, subnets |-> podNsZone \cup csubnet]
             \in [exists : BOOLEAN, subnets : SUBSET Subnet]
      BY DEF WorkerTypeOK
    <3>2. PICK n : Namespaces' = [Namespaces EXCEPT ![n] = 
                                    [exists |-> TRUE, subnets |-> podNsZone \cup csubnet]]
      BY <1>11 DEF Case3Append
    <3> QED BY <3>1, <3>2 DEF CacheTypeOK
  <2>3. CacheTypeOK'
    BY <1>11, <2>0, <2>2, PodFrameType DEF Case3Append, CacheTypeOK
  <2>4. WorkerTypeOK'
    BY <1>11, <2>0, PodFrameType DEF Case3Append, PodGoto, WorkerTypeOK, PodPC
  <2> QED BY <2>1, <2>3, <2>4
<1> QED
  BY <1>0, <1>1, <1>2, <1>3, <1>4, <1>5, <1>6, <1>7, <1>8, <1>9, <1>9a, <1>10, <1>11
     DEF PodCreatedStep

\* The steps of PodDeleted.
LEMMA PodDeletedType ==
  ASSUME TypeOK, PodDeletedStep
  PROVE  TypeOK'
<1> USE DEF TypeOK
<1>1. ASSUME NEW p \in PodName, PodDeletedGet(p) PROVE TypeOK'
  <2>0. PodFrame /\ podq[p] # <<>>
    BY <1>1 DEF PodDeletedGet
  <2>1. VSDTypeOK' /\ ProcessTypeOK' /\ CacheTypeOK'
    BY <1>1, <2>0, PodFrameType DEF PodDeletedGet, VSDTypeOK, CacheTypeOK, cniVars
  <2>2. APITypeOK'
    <3>1. store' \in [PodName -> SUBSET Where] /\ podq' \in [PodName -> PodQueue]
      BY <1>1, <2>0, PodEventType DEF PodDeletedGet, APITypeOK
    <3> QED BY <2>0, <3>1, PodFrameType DEF APITypeOK
  <2>3. WorkerTypeOK'
    BY <1>1, <2>0, PodFrameType, PodEventType
       DEF PodDeletedGet, CniGet, VSDTypeOK, WorkerTypeOK, PodPC
  <2> QED BY <2>1, <2>2, <2>3
<1>2. CASE PodDeletedFetch
  <2>0. PodFrame
    BY <1>2 DEF PodDeletedFetch
  <2>1. vcont' \subseteq Container
    BY <1>2 DEF PodDeletedFetch, VSDTypeOK
  <2>2. VSDTypeOK' /\ ProcessTypeOK' /\ APITypeOK' /\ CacheTypeOK'
    BY <1>2, <2>0, <2>1, PodFrameType DEF PodDeletedFetch, VSDTypeOK, APITypeOK, CacheTypeOK, cniVars
  <2>3. WorkerTypeOK'
    BY <1>2, <2>0, PodFrameType
       DEF PodDeletedFetch, Named, PodGoto, PodReturn, WorkerTypeOK, VSDTypeOK, PodPC
  <2> QED BY <2>2, <2>3
<1>3. CASE PodDeletedFatal
  BY <1>3, DieType DEF PodDeletedFatal, Exit
<1>4. CASE PodDeletedRelease
  <2>0. PodFrame
    BY <1>4 DEF PodDeletedRelease
  <2>1. allocated' \subseteq Slots
    BY <1>4, ReleaseType DEF PodDeletedRelease, CacheTypeOK, Slots
  <2>2. VSDTypeOK' /\ ProcessTypeOK' /\ APITypeOK'
    BY <1>4, <2>0, PodFrameType DEF PodDeletedRelease, VSDTypeOK, APITypeOK, cniVars
  <2>3. CacheTypeOK'
    BY <1>4, <2>0, <2>1, PodFrameType DEF PodDeletedRelease, CacheTypeOK, Slots
  <2>4. WorkerTypeOK'
    BY <1>4, <2>0, PodFrameType DEF PodDeletedRelease, PodGoto, WorkerTypeOK, PodPC
  <2> QED BY <2>2, <2>3, <2>4
<1>5. CASE PodDeletedCni
  <2>0. PodFrame
    BY <1>5 DEF PodDeletedCni
  <2>1. cni' \subseteq [node : Node, cont : Container]
    BY <1>5 DEF PodDeletedCni, CniDelete, VSDTypeOK
  <2>2. VSDTypeOK' /\ ProcessTypeOK' /\ APITypeOK' /\ CacheTypeOK'
    BY <1>5, <2>0, <2>1, PodFrameType DEF PodDeletedCni, VSDTypeOK, APITypeOK, CacheTypeOK
  <2>3. WorkerTypeOK'
    BY <1>5, <2>0, PodFrameType DEF PodDeletedCni, PodReturn, WorkerTypeOK, PodPC
  <2> QED BY <2>2, <2>3
<1> QED BY <1>1, <1>2, <1>3, <1>4, <1>5 DEF PodDeletedStep

\* PodUpdated.
LEMMA PodUpdatedType ==
  ASSUME TypeOK, NEW p \in PodName, PodUpdated(p)
  PROVE  TypeOK'
<1> USE DEF TypeOK
<1>0. PodFrame /\ podq[p] # <<>>
  BY DEF PodUpdated
<1>1. store' \in [PodName -> SUBSET Where] /\ podq' \in [PodName -> PodQueue]
  BY <1>0, PodEventType DEF PodUpdated, APITypeOK, PodEvent
<1>2. /\ cni' \subseteq [node : Node, cont : Container] /\ ran' \subseteq Container
      /\ Pods' \subseteq Container
  BY PutType DEF PodUpdated, VSDTypeOK, CacheTypeOK, cniVars
<1>3. VSDTypeOK' /\ ProcessTypeOK' /\ APITypeOK'
  BY <1>0, <1>1, <1>2, PodFrameType DEF PodUpdated, VSDTypeOK, APITypeOK
<1>4. CacheTypeOK' /\ WorkerTypeOK'
  BY <1>0, <1>2, PodFrameType DEF PodUpdated, CacheTypeOK, WorkerTypeOK, podVars
<1> QED BY <1>3, <1>4

\* A step of the system, or a stutter, preserves the types.
LEMMA TypeStep ==
  ASSUME TypeOK, [Next]_vars
  PROVE  TypeOK'
<1>1. CASE UNCHANGED vars
  BY <1>1 DEF vars, vsdVars, cniVars, apiVars, qVars, ipamVars, podVars, nsVars, procVars,
              TypeOK, VSDTypeOK, APITypeOK, CacheTypeOK, WorkerTypeOK, ProcessTypeOK
<1>2. CASE PodNext
  BY <1>2, PodCreatedType, PodDeletedType, PodUpdatedType DEF PodNext
<1> QED BY <1>1, <1>2, NsType, EnvironmentType DEF Next

\* Every variable keeps its type; in particular every address in a Range, in
\* a container of the VSD and in a container of an agent server is a usable
\* one (ipallocator's contains), whichever calls fail.
THEOREM TypeCorrect == Spec => []TypeOK
<1>1. TypeOK /\ [Next]_vars => TypeOK'
  BY TypeStep
<1> QED BY InitType, <1>1, PTL DEF Spec

----------------------------------------------------------------------------
(* Exhaustion of the ClusterCIDR *)

\* Only Zone.Subnets and the end of the process change FreeCIDRs, and nothing
\* removes a subnet from the VSD.
LEMMA PrefixSteps ==
  ASSUME [Next]_vars
  PROVE  /\ vsubnets \subseteq vsubnets'
         /\ \/ FreeCIDRs' = FreeCIDRs
            \/ FreeCIDRs' = ClusterCIDRs
            \/ ZoneSubnets /\ \E n \in nsjob : FreeCIDRs \ ZonePrefixes(n) \subseteq FreeCIDRs'
<1>1. CASE UNCHANGED vars
  BY <1>1 DEF vars, vsdVars, ipamVars
<1>2. CASE NsNext
  BY <1>2 DEF NsNext, NsAdded, NamespaceDeleted, ZoneFetchByName, ZoneCreate, ZoneSubnets,
              Listed, PublishNamespace, vsdVars, ipamVars
<1>3. CASE PodNext
  BY <1>3 DEF PodNext, PodCreatedStep, PodDeletedStep, PodAdded, WaitNamespace, Case1Fetch,
         Case1Fatal, Case1Put, Case2Allocate, Case2Create, Case2Put, Case3Allocate,
         Case3AddSubnet, Case3AddLost, Case3NoAddress, Case3Append, Case3Create, Case3Put, PodUpdated,
         PodDeletedGet, PodDeletedFetch, PodDeletedFatal, PodDeletedRelease, PodDeletedCni,
         Die, LoseMemory, vsdVars
<1>4. CASE ClusterNext \/ PluginRemove \/ PluginLeftover \/ Crash \/ Restart
  BY <1>4 DEF ClusterNext, CreatePod, SchedulePod, DeletePod, CreateNs, DeleteNs, ClusterFrame,
              PluginRemove, PluginLeftover, PluginFrame, Crash, Die, LoseMemory, Restart,
              vsdVars, ipamVars
<1> QED BY <1>1, <1>2, <1>3, <1>4 DEF Next

\* A prefix leaves FreeCIDRs only once the VSD has a subnet for it.
LEMMA TakenStep ==
  ASSUME TakenPrefixesExist, [Next]_vars
  PROVE  TakenPrefixesExist'
<1> SUFFICES ASSUME NEW c \in ClusterCIDRs, c \notin FreeCIDRs'
             PROVE  \E s \in vsubnets' : s.cidr = c
  BY DEF TakenPrefixesExist
<1>1. CASE c \notin FreeCIDRs
  BY <1>1, PrefixSteps DEF TakenPrefixesExist
<1>2. CASE c \in FreeCIDRs
  <2>1. PICK n \in nsjob : c \in ZonePrefixes(n)
    BY <1>2, PrefixSteps
  <2> QED BY <2>1, PrefixSteps DEF ZonePrefixes
<1> QED BY <1>1, <1>2

\* The process ends for want of an address only in case3create.
LEMMA NilAddrStep ==
  ASSUME [Next]_vars, exit # "nilAddr", exit' = "nilAddr"
  PROVE  Case3NoAddress
<1>1. CASE UNCHANGED vars
  BY <1>1 DEF vars, procVars
<1>2. CASE NsNext
  BY <1>2 DEF NsNext, NsAdded, NamespaceDeleted, ZoneFetchByName, ZoneCreate, ZoneSubnets,
              PublishNamespace, NsFrame, procVars
<1>3. CASE PodNext
  BY <1>3 DEF PodNext, PodCreatedStep, PodDeletedStep, PodAdded, WaitNamespace, Case1Fetch,
         Case1Fatal, Case1Put, Case2Allocate, Case2Create, Case2Put, Case3Allocate,
         Case3AddSubnet, Case3AddLost, Case3Append, Case3Create, Case3Put, PodUpdated, PodDeletedGet,
         PodDeletedFetch, PodDeletedFatal, PodDeletedRelease, PodDeletedCni, Die,
         PodFrame, procVars
<1>4. CASE ClusterNext \/ PluginRemove \/ PluginLeftover \/ Crash \/ Restart
  BY <1>4 DEF ClusterNext, CreatePod, SchedulePod, DeletePod, CreateNs, DeleteNs, ClusterFrame,
              PluginRemove, PluginLeftover, PluginFrame, Crash, Die, Restart, procVars
<1> QED BY <1>1, <1>2, <1>3, <1>4 DEF Next

\* case3create finds no address, and the agent dies, only when every prefix of
\* the ClusterCIDR is a subnet in the VSD, be it that the VSD added it and the
\* answer was an error, or is still in FreeCIDRs and AddSubnet failed for it:
\* no prefix is lost, whatever the interleaving of the two controllers and
\* however often the agent is restarted, if a prefix has a usable address.
THEOREM Exhaustion ==
  ASSUME Hosts # 0
  PROVE  Spec => ExhaustedOnlyWhenFull
<1> DEFINE Full ==
      \A c \in ClusterCIDRs :
          (\E s \in vsubnets : s.cidr = c) \/ ("addsubnet" \in Faults /\ c \in FreeCIDRs)
<1>1. Init => TakenPrefixesExist
  BY DEF Init, FreshMemory, TakenPrefixesExist
<1>2. TakenPrefixesExist /\ [Next]_vars => TakenPrefixesExist'
  BY TakenStep
<1>3. TakenPrefixesExist /\ [Next]_vars => [exit # "nilAddr" /\ exit' = "nilAddr" => Full]_vars
  <2> SUFFICES ASSUME TakenPrefixesExist, [Next]_vars, exit # "nilAddr", exit' = "nilAddr"
               PROVE  Full
    OBVIOUS
  <2>1. AddableCIDRs = {} \/ "addsubnet" \in Faults
    BY NilAddrStep DEF Case3NoAddress
  <2>2. Hosts > 0
    BY HostsAssumption
  <2>3. CASE AddableCIDRs = {}
    BY <2>2, <2>3 DEF AddableCIDRs, TakenPrefixesExist
  <2>4. CASE "addsubnet" \in Faults
    BY <2>4 DEF TakenPrefixesExist
  <2> QED BY <2>1, <2>3, <2>4
<1> QED BY <1>1, <1>2, <1>3, PTL DEF Spec, ExhaustedOnlyWhenFull

----------------------------------------------------------------------------
(* The Customed flag *)

\* A step of the pod controller ends the process or leaves the frame alone.
LEMMA PodStepFrame ==
  ASSUME PodNext
  PROVE  PodFrame \/ Die("IPandMask") \/ Die("nilAddr")
  BY DEF PodNext, PodCreatedStep, PodDeletedStep, PodAdded, WaitNamespace, Case1Fetch,
         Case1Fatal, Case1Put, Case2Allocate, Case2Create, Case2Put, Case3Allocate,
         Case3AddSubnet, Case3AddLost, Case3NoAddress, Case3Append, Case3Create, Case3Put, PodUpdated,
         PodDeletedGet, PodDeletedFetch, PodDeletedFatal, PodDeletedRelease, PodDeletedCni

\* What the pod events, the plugins and the pod controller do not touch.
NsUntouched == UNCHANGED <<nsq, apins, up, nspc, nsjob>>

\* The steps that concern namespaces, and the others.
LEMMA StepKinds ==
  ASSUME [Next]_vars
  PROVE  \/ NsNext \/ Restart \/ (\E n \in NS : CreateNs(n) \/ DeleteNs(n))
         \/ (\E r \in Exit : Die(r))
         \/ NsUntouched
<1>1. CASE UNCHANGED vars
  BY <1>1 DEF vars, apiVars, qVars, nsVars, procVars, NsUntouched
<1>2. CASE PodNext
  BY <1>2, PodStepFrame DEF PodFrame, apiVars, nsVars, procVars, NsUntouched, Exit
<1>3. CASE ClusterNext
  BY <1>3 DEF ClusterNext, CreatePod, DeletePod, SchedulePod, ClusterFrame, nsVars, procVars,
              NsUntouched
<1>4. CASE PluginRemove \/ PluginLeftover
  BY <1>4 DEF PluginRemove, PluginLeftover, PluginFrame, apiVars, qVars, nsVars, procVars,
              NsUntouched
<1>5. CASE Crash
  BY <1>5 DEF Crash, Exit
<1> QED BY <1>1, <1>2, <1>3, <1>4, <1>5 DEF Next

\* The queues a namespace that is created once goes through.
LEMMA NsQueueValues ==
  /\ Append(<<>>, "add") = <<"add">> /\ Append(<<>>, "del") = <<"del">>
  /\ Append(<<"add">>, "del") = <<"add", "del">>
  /\ Head(<<"add">>) = "add" /\ Head(<<"add", "del">>) = "add" /\ Head(<<"del">>) = "del"
  /\ Tail(<<"add">>) = <<>> /\ Tail(<<"add", "del">>) = <<"del">> /\ Tail(<<"del">>) = <<>>
  /\ <<"add">> # <<>> /\ <<"del">> # <<>> /\ <<"add", "del">> # <<>>
  /\ <<"add">> # <<"del">> /\ <<"add", "del">> # <<"del">> /\ <<"add", "del">> # <<"add">>
<1>1. Append(<<>>, "add") = <<"add">> /\ Append(<<>>, "del") = <<"del">>
  OBVIOUS
<1>2. Append(<<"add">>, "del") = <<"add", "del">>
  <2> DEFINE s == Append(<<"add">>, "del")
             t == <<"add", "del">>
  <2>1. s \in NsQueue /\ t \in NsQueue
    BY DEF NsQueue
  <2>2. Len(s) = 2 /\ Len(t) = 2 /\ s[1] = t[1] /\ s[2] = t[2]
    OBVIOUS
  <2>3. \A i \in 1 .. Len(s) : s[i] = t[i]
    <3>1. \A i \in 1 .. 2 : i = 1 \/ i = 2
      OBVIOUS
    <3> HIDE DEF s, t
    <3> QED BY <2>2, <3>1
  <2> HIDE DEF s, t
  <2>4. s = t
    BY <2>1, <2>2, <2>3, SeqEqual DEF NsQueue
  <2> QED BY <2>4 DEF s, t
<1>3. Head(<<"add">>) = "add" /\ Head(<<"add", "del">>) = "add" /\ Head(<<"del">>) = "del"
  OBVIOUS
<1>4. Tail(<<"add">>) = <<>> /\ Tail(<<"del">>) = <<>>
  OBVIOUS
<1>5. Tail(<<"add", "del">>) = <<"del">>
  OBVIOUS
<1>6. <<"add">> # <<>> /\ <<"del">> # <<>> /\ <<"add", "del">> # <<>>
  OBVIOUS
<1>7. <<"add">> # <<"del">> /\ <<"add", "del">> # <<"del">> /\ <<"add", "del">> # <<"add">>
  OBVIOUS
<1> QED BY <1>1, <1>2, <1>3, <1>4, <1>5, <1>6, <1>7

\* NsEventsOnce, for one namespace.
Once(n) ==
    /\ nsq[n] \in {<<>>, <<"add">>, <<"add", "del">>, <<"del">>}
    /\ apins[n].live => nsq[n] \in {<<>>, <<"add">>} /\ apins[n].count # 0
    /\ apins[n].count = 0 => nsq[n] = <<>> /\ n \notin nsjob
    /\ n \in nsjob => nsq[n] \in {<<>>, <<"del">>}
    /\ ~up => nsq[n] = <<>>

\* A namespace that is created once is delivered at most once per process.
LEMMA OnceStep ==
  ASSUME TypeOK, NsEventsOnce, DownInv, MaxNsCreate = 1, [Next]_vars
  PROVE  NsEventsOnce'
<1> SUFFICES ASSUME NEW n \in NS PROVE Once(n)'
  BY DEF NsEventsOnce, Once
<1>0. Once(n)
  BY DEF NsEventsOnce, Once
<1>t. /\ apins[n] \in [live : BOOLEAN, count : 0 .. MaxNsCreate]
      /\ nsq \in [NS -> NsQueue] /\ apins \in [NS -> [live : BOOLEAN, count : 0 .. MaxNsCreate]]
  BY DEF TypeOK, APITypeOK
<1>1. CASE NsUntouched
  BY <1>0, <1>1 DEF NsUntouched, Once
<1>2. CASE \E r \in Exit : Die(r)
  <2>1. nsq'[n] = <<>> /\ nsjob' = {} /\ apins' = apins
    BY <1>2 DEF Die, LoseMemory, apiVars
  <2> QED BY <1>0, <2>1 DEF Once
<1>3. CASE Restart
  <2>1. nsjob' = {} /\ apins' = apins /\ up' = TRUE
    BY <1>3 DEF Restart, DownInv, apiVars, nsVars
  <2>2. nsq'[n] = IF apins[n].live THEN <<"add">> ELSE <<>>
    BY <1>3 DEF Restart
  <2> QED BY <1>0, <2>1, <2>2 DEF Once
<1>4. ASSUME NEW m \in NS, CreateNs(m) \/ DeleteNs(m) PROVE Once(n)'
  <2>1. nsjob' = nsjob /\ up' = up
    BY <1>4 DEF CreateNs, DeleteNs, ClusterFrame, nsVars, procVars
  <2>2. CASE m # n
    <3>1. nsq'[n] = nsq[n] /\ apins'[n] = apins[n]
      BY <1>4, <1>t, <2>2 DEF CreateNs, DeleteNs, NotifyNs
    <3> QED BY <1>0, <2>1, <3>1 DEF Once
  <2>3. CASE m = n /\ CreateNs(n)
    <3>1. apins[n].count = 0 /\ apins'[n].count = 1
      BY <2>3, <1>t DEF CreateNs
    <3>2. nsq[n] = <<>> /\ n \notin nsjob
      BY <1>0, <3>1 DEF Once
    <3>3. nsq'[n] = IF up THEN <<"add">> ELSE <<>>
      BY <2>3, <1>t, <3>2, NsQueueValues DEF CreateNs, NotifyNs
    <3> QED BY <2>1, <3>1, <3>2, <3>3 DEF Once
  <2>4. CASE m = n /\ DeleteNs(n)
    <3>1. apins[n].live /\ ~apins'[n].live /\ apins'[n].count = apins[n].count
      BY <2>4, <1>t DEF DeleteNs
    <3>2. nsq[n] \in {<<>>, <<"add">>} /\ apins[n].count # 0
      BY <1>0, <3>1 DEF Once
    <3>3. nsq'[n] = IF up THEN Append(nsq[n], "del") ELSE nsq[n]
      BY <2>4, <1>t DEF DeleteNs, NotifyNs
    <3>4. n \in nsjob => nsq[n] = <<>>
      BY <1>0, <3>2, NsQueueValues DEF Once
    <3> QED BY <1>0, <2>1, <3>1, <3>2, <3>3, <3>4, NsQueueValues DEF Once
  <2> QED BY <1>4, <2>2, <2>3, <2>4
<1>5. CASE NsNext
  <2>0. apins' = apins /\ up' = up /\ up
    BY <1>5 DEF NsNext, NsAdded, NamespaceDeleted, ZoneFetchByName, ZoneCreate, ZoneSubnets,
                PublishNamespace, NsFrame, apiVars, procVars
  <2>1. CASE ZoneFetchByName \/ ZoneCreate \/ ZoneSubnets \/ PublishNamespace
    <3>1. nsq' = nsq /\ nsjob' \subseteq nsjob
      BY <2>1 DEF ZoneFetchByName, ZoneCreate, ZoneSubnets, PublishNamespace, NsGoto, NsReturn
    <3> QED BY <1>0, <2>0, <3>1 DEF Once
  <2>2. ASSUME NEW m \in NS, NsAdded(m) PROVE Once(n)'
    <3>1. nsq' = [nsq EXCEPT ![m] = Tail(nsq[m])] /\ nsjob' = {m}
      BY <2>2 DEF NsAdded
    <3>2. CASE m = n
      <4>1. nsq[n] \in {<<"add">>, <<"add", "del">>}
        BY <1>0, <2>2, <3>2, NsQueueValues DEF NsAdded, Once
      <4>2. nsq'[n] = Tail(nsq[n])
        BY <1>t, <3>1, <3>2
      <4>3. apins[n].live => nsq[n] = <<"add">>
        BY <1>0, <4>1, NsQueueValues DEF Once
      <4>4. apins[n].count # 0
        BY <1>0, <4>1, NsQueueValues DEF Once
      <4> QED BY <2>0, <4>1, <4>2, <4>3, <4>4, NsQueueValues DEF Once
    <3>3. CASE m # n
      <4>1. nsq'[n] = nsq[n] /\ n \notin nsjob'
        BY <1>t, <3>1, <3>3
      <4> QED BY <1>0, <2>0, <4>1 DEF Once
    <3> QED BY <3>2, <3>3
  <2>3. ASSUME NEW m \in NS, NamespaceDeleted(m) PROVE Once(n)'
    <3>1. nsq' = [nsq EXCEPT ![m] = Tail(nsq[m])] /\ nsjob' = nsjob
      BY <2>3 DEF NamespaceDeleted, nsVars
    <3>2. CASE m = n
      <4>1. nsq[n] = <<"del">>
        BY <1>0, <2>3, <3>2, NsQueueValues DEF NamespaceDeleted, Once
      <4>2. nsq'[n] = <<>>
        BY <1>t, <3>1, <3>2, <4>1, NsQueueValues
      <4> QED BY <1>0, <2>0, <3>1, <4>1, <4>2, NsQueueValues DEF Once
    <3>3. CASE m # n
      <4>1. nsq'[n] = nsq[n]
        BY <1>t, <3>1, <3>3
      <4> QED BY <1>0, <2>0, <3>1, <4>1 DEF Once
    <3> QED BY <3>2, <3>3
  <2> QED BY <1>5, <2>1, <2>2, <2>3 DEF NsNext
<1> QED BY <1>1, <1>2, <1>3, <1>4, <1>5, StepKinds

\* The VSD keeps a prefix in one zone: AddSubnet is refused for others.
LEMMA PrefixesStep ==
  ASSUME PrefixesUnique, [Next]_vars
  PROVE  PrefixesUnique'
<1>1. CASE vsubnets' = vsubnets
  BY <1>1 DEF PrefixesUnique
<1>2. CASE Case3AddSubnet \/ Case3AddLost
  <2>1. PICK j \in job, c \in AddableCIDRs :
          vsubnets' = vsubnets \cup {[cidr |-> c, zone |-> PodNS[j.pod]]}
    BY <1>2 DEF Case3AddSubnet, Case3AddLost
  <2>2. \A d \in AddableCIDRs : \A s \in vsubnets : s.cidr # d
    BY DEF AddableCIDRs
  <2> QED BY <2>1, <2>2 DEF PrefixesUnique
<1>3. vsubnets' = vsubnets \/ Case3AddSubnet \/ Case3AddLost
  <2>1. CASE UNCHANGED vars
    BY <2>1 DEF vars, vsdVars
  <2>2. CASE NsNext
    BY <2>2 DEF NsNext, NsAdded, NamespaceDeleted, ZoneFetchByName, ZoneCreate, ZoneSubnets,
                PublishNamespace, vsdVars
  <2>3. CASE PodNext
    BY <2>3 DEF PodNext, PodCreatedStep, PodDeletedStep, PodAdded, WaitNamespace, Case1Fetch,
           Case1Fatal, Case1Put, Case2Allocate, Case2Create, Case2Put, Case3Allocate,
           Case3NoAddress, Case3Append, Case3Create, Case3Put, PodUpdated, PodDeletedGet,
           PodDeletedFetch, PodDeletedFatal, PodDeletedRelease, PodDeletedCni, Die, vsdVars
  <2>4. CASE ClusterNext \/ PluginRemove \/ PluginLeftover \/ Crash \/ Restart
    BY <2>4 DEF ClusterNext, CreatePod, SchedulePod, DeletePod, CreateNs, DeleteNs, ClusterFrame,
                PluginRemove, PluginLeftover, PluginFrame, Crash, Die, Restart, vsdVars
  <2> QED BY <2>1, <2>2, <2>3, <2>4 DEF Next
<1> QED BY <1>1, <1>2, <1>3

\* New subnets get their prefix from FreeCIDRs.
LEMMA NewSubnetsFree ==
  ASSUME [Next]_vars, NEW s \in vsubnets' \ vsubnets
  PROVE  s.cidr \in FreeCIDRs /\ FreeCIDRs' = FreeCIDRs
<1>1. CASE Case3AddSubnet \/ Case3AddLost
  <2>1. PICK j \in job, c \in AddableCIDRs :
          vsubnets' = vsubnets \cup {[cidr |-> c, zone |-> PodNS[j.pod]]}
    BY <1>1 DEF Case3AddSubnet, Case3AddLost
  <2>2. AddableCIDRs \subseteq FreeCIDRs
    BY DEF AddableCIDRs
  <2> QED BY <1>1, <2>1, <2>2 DEF Case3AddSubnet, Case3AddLost
<1>2. CASE UNCHANGED vars
  BY <1>2 DEF vars, vsdVars
<1>3. CASE NsNext
  BY <1>3 DEF NsNext, NsAdded, NamespaceDeleted, ZoneFetchByName, ZoneCreate, ZoneSubnets,
              PublishNamespace, vsdVars
<1>4. CASE PodNext /\ ~(Case3AddSubnet \/ Case3AddLost)
  BY <1>4 DEF PodNext, PodCreatedStep, PodDeletedStep, PodAdded, WaitNamespace, Case1Fetch,
         Case1Fatal, Case1Put, Case2Allocate, Case2Create, Case2Put, Case3Allocate,
         Case3NoAddress, Case3Append, Case3Create, Case3Put, PodUpdated, PodDeletedGet,
         PodDeletedFetch, PodDeletedFatal, PodDeletedRelease, PodDeletedCni, Die, vsdVars
<1>5. CASE ClusterNext \/ PluginRemove \/ PluginLeftover \/ Crash \/ Restart
  BY <1>5 DEF ClusterNext, CreatePod, SchedulePod, DeletePod, CreateNs, DeleteNs, ClusterFrame,
              PluginRemove, PluginLeftover, PluginFrame, Crash, Die, Restart, vsdVars
<1> QED BY <1>1, <1>2, <1>3, <1>4, <1>5 DEF Next

\* Unless the process ends, a zone that may be read after a step could be
\* read before it, and reading the zone is the last time it is read.
LEMMA MayLoadStep ==
  ASSUME TypeOK, NsEventsOnce, DownInv, MaxNsCreate = 1, [Next]_vars, NEW n \in NS
  PROVE  \/ FreeCIDRs' = ClusterCIDRs
         \/ MayLoad(n)' => MayLoad(n) /\ (ZoneSubnets => n \notin nsjob)
<1>0. /\ Once(n)
      /\ apins[n] \in [live : BOOLEAN, count : 0 .. MaxNsCreate] /\ nsq \in [NS -> NsQueue]
      /\ apins \in [NS -> [live : BOOLEAN, count : 0 .. MaxNsCreate]]
  BY DEF NsEventsOnce, Once, TypeOK, APITypeOK
<1>1. CASE ~up
  <2>1. ~ZoneSubnets
    BY <1>1 DEF ZoneSubnets
  <2> QED BY <1>1, <2>1 DEF MayLoad
<1>2. CASE up /\ NsUntouched
  <2>1. ZoneSubnets => FALSE
    BY <1>2 DEF ZoneSubnets, NsGoto, NsUntouched
  <2> QED BY <1>2, <2>1 DEF NsUntouched, MayLoad
<1>3. CASE \E r \in Exit : Die(r)
  BY <1>3 DEF Die, LoseMemory
<1>4. CASE up /\ Restart
  BY <1>4 DEF Restart
<1>5. ASSUME up, NEW m \in NS, CreateNs(m) \/ DeleteNs(m), MayLoad(n)'
      PROVE  MayLoad(n) /\ ~ZoneSubnets
  <2>1. nsjob' = nsjob /\ nspc' = nspc /\ up' = up
    BY <1>5 DEF CreateNs, DeleteNs, ClusterFrame, nsVars, procVars
  <2>2. ~ZoneSubnets
    BY <2>1 DEF ZoneSubnets, NsGoto
  <2>3. CASE m # n
    <3>1. nsq'[n] = nsq[n] /\ apins'[n] = apins[n]
      BY <1>0, <1>5, <2>3 DEF CreateNs, DeleteNs, NotifyNs
    <3> QED BY <1>5, <2>1, <2>2, <3>1 DEF MayLoad
  <2>4. CASE m = n /\ CreateNs(n)
    <3>1. apins[n].count = 0
      BY <1>0, <2>4 DEF CreateNs
    <3> QED BY <2>2, <3>1 DEF MayLoad
  <2>5. CASE m = n /\ DeleteNs(n)
    <3>1. apins[n].live /\ apins'[n].count = apins[n].count
      BY <1>0, <2>5 DEF DeleteNs
    <3>2. nsq[n] \in {<<>>, <<"add">>} /\ apins[n].count # 0
      BY <1>0, <3>1 DEF Once
    <3>3. nsq'[n] = Append(nsq[n], "del")
      BY <1>0, <1>5, <2>5 DEF DeleteNs, NotifyNs
    <3>4. nsq[n] = <<>> => nsq'[n] = <<"del">>
      BY <3>3, NsQueueValues
    <3> QED BY <1>5, <2>1, <2>2, <3>1, <3>2, <3>4, NsQueueValues DEF MayLoad
  <2> QED BY <1>5, <2>3, <2>4, <2>5
<1>6. ASSUME NsNext, MayLoad(n)' PROVE MayLoad(n) /\ (ZoneSubnets => n \notin nsjob)
  <2>0. apins' = apins /\ up' = up /\ up
    BY <1>6 DEF NsNext, NsAdded, NamespaceDeleted, ZoneFetchByName, ZoneCreate, ZoneSubnets,
                PublishNamespace, NsFrame, apiVars, procVars
  <2>1. CASE ZoneFetchByName \/ ZoneCreate \/ PublishNamespace
    <3>1. /\ nsq' = nsq /\ nsjob' \subseteq nsjob /\ ~ZoneSubnets
          /\ nspc' \in {"fetch", "zcreate", "subnets"} => nspc \in {"fetch", "zcreate", "subnets"}
      BY <2>1 DEF ZoneFetchByName, ZoneCreate, PublishNamespace, ZoneSubnets, NsGoto, NsReturn
    <3> QED BY <1>6, <2>0, <3>1 DEF MayLoad
  <2>2. CASE ZoneSubnets
    <3>1. nsq' = nsq /\ nsjob' = nsjob /\ nspc' = "publish"
      BY <2>2 DEF ZoneSubnets, NsGoto
    <3>2. apins[n].count = 0 \/ nsq[n] \in {<<"add">>, <<"add", "del">>}
      BY <1>6, <2>0, <3>1 DEF MayLoad
    <3>3. n \notin nsjob
      BY <1>0, <3>2, NsQueueValues DEF Once
    <3> QED BY <3>2, <3>3 DEF MayLoad
  <2>3. ASSUME NEW m \in NS, NsAdded(m) PROVE MayLoad(n) /\ ~ZoneSubnets
    <3>1. /\ nsq' = [nsq EXCEPT ![m] = Tail(nsq[m])] /\ nsjob' = {m}
          /\ nspc = "idle" /\ ~ZoneSubnets
      BY <2>3 DEF NsAdded, ZoneSubnets
    <3>2. CASE m = n
      <4>1. nsq[n] \in {<<"add">>, <<"add", "del">>}
        BY <1>0, <2>3, <3>2, NsQueueValues DEF NsAdded, Once
      <4> QED BY <3>1, <4>1 DEF MayLoad
    <3>3. CASE m # n
      <4>1. nsq'[n] = nsq[n] /\ n \notin nsjob'
        BY <1>0, <3>1, <3>3
      <4> QED BY <1>6, <2>0, <3>1, <4>1 DEF MayLoad
    <3> QED BY <3>2, <3>3
  <2>4. ASSUME NEW m \in NS, NamespaceDeleted(m) PROVE MayLoad(n) /\ ~ZoneSubnets
    <3>1. /\ nsq' = [nsq EXCEPT ![m] = Tail(nsq[m])] /\ nsjob' = nsjob /\ nspc' = nspc
          /\ nspc = "idle" /\ ~ZoneSubnets
      BY <2>4 DEF NamespaceDeleted, ZoneSubnets, nsVars
    <3>2. CASE m = n
      <4>1. nsq[n] = <<"del">>
        BY <1>0, <2>4, <3>2, NsQueueValues DEF NamespaceDeleted, Once
      <4>2. nsq'[n] = <<>>
        BY <1>0, <3>1, <3>2, <4>1, NsQueueValues
      <4> QED BY <1>6, <2>0, <3>1, <4>2, NsQueueValues DEF MayLoad
    <3>3. CASE m # n
      <4>1. nsq'[n] = nsq[n]
        BY <1>0, <3>1, <3>3
      <4> QED BY <1>6, <2>0, <3>1, <4>1 DEF MayLoad
    <3> QED BY <3>2, <3>3
  <2> QED BY <1>6, <2>1, <2>2, <2>3, <2>4 DEF NsNext
<1> QED BY <1>1, <1>2, <1>3, <1>4, <1>5, <1>6, StepKinds

\* Prefixes of zones that are still to be read stay in FreeCIDRs.
LEMMA UnreadStep ==
  ASSUME TypeOK, TypeOK', NsEventsOnce, PrefixesUnique, UnreadPrefixesFree, DownInv,
         MaxNsCreate = 1, [Next]_vars
  PROVE  UnreadPrefixesFree'
<1> SUFFICES ASSUME NEW s \in vsubnets', MayLoad(s.zone)', s.cidr \in ClusterCIDRs
             PROVE  s.cidr \in FreeCIDRs'
  BY DEF UnreadPrefixesFree
<1>1. s.zone \in NS
  BY DEF TypeOK, VSDTypeOK, VSubnet
<1>2. CASE s \notin vsubnets
  BY <1>2, NewSubnetsFree
<1>3. CASE s \in vsubnets /\ FreeCIDRs' # ClusterCIDRs
  <2>1. MayLoad(s.zone) /\ (ZoneSubnets => s.zone \notin nsjob)
    BY <1>1, <1>3, MayLoadStep
  <2>2. s.cidr \in FreeCIDRs
    BY <1>3, <2>1 DEF UnreadPrefixesFree
  <2>3. ASSUME ZoneSubnets, NEW n \in nsjob PROVE s.cidr \notin ZonePrefixes(n)
    BY <1>3, <2>1, <2>3 DEF ZonePrefixes, PrefixesUnique
  <2> QED BY <1>3, <2>2, <2>3, PrefixSteps
<1> QED BY <1>2, <1>3

\* Zone.Subnets sets the flag right, and the other steps copy it.
LEMMA FlagsStep ==
  ASSUME TypeOK, UnreadPrefixesFree, FlagsRight, [Next]_vars
  PROVE  FlagsRight'
<1>0. Flagged({})
  BY DEF Flagged
<1>1. CASE UNCHANGED <<Namespaces, nssubnets, podNsZone, csubnet>>
  BY <1>1 DEF FlagsRight, Flagged
<1>2. CASE \E r \in Exit : Die(r)
  BY <1>2 DEF Die, LoseMemory, NoNamespaces, FlagsRight, Flagged
<1>3. CASE ZoneSubnets
  <2>1. UNCHANGED <<Namespaces, podNsZone, csubnet>>
    BY <1>3 DEF ZoneSubnets, NsFrame, podVars
  <2>2. PICK n \in nsjob : \E cs \in SUBSET ZonePrefixes(n) :
          \/ nssubnets' = {[cidr |-> c, gen |-> gen + 1, customed |-> Customed(c)] : c \in cs}
          \/ nssubnets' = {}
    BY <1>3 DEF ZoneSubnets, Listed
  <2>3. MayLoad(n)
    BY <1>3 DEF ZoneSubnets, MayLoad
  <2>4. \A c \in ZonePrefixes(n) : c \notin FreeCIDRs <=> c \notin ClusterCIDRs
    BY <2>3 DEF ZonePrefixes, UnreadPrefixesFree, TypeOK, CacheTypeOK
  <2>5. Flagged(nssubnets')
    <3> SUFFICES ASSUME NEW s \in nssubnets' PROVE s.customed <=> s.cidr \notin ClusterCIDRs
      BY DEF Flagged
    <3>1. PICK c \in ZonePrefixes(n) :
             s = [cidr |-> c, gen |-> gen + 1, customed |-> Customed(c)]
      BY <2>2
    <3>2. s.cidr = c /\ s.customed = Customed(c)
      BY <3>1, Zenon
    <3>3. Customed(c) <=> c \notin ClusterCIDRs
      BY <2>4 DEF Customed
    <3> QED BY <3>2, <3>3, Zenon
  <2> QED BY <2>1, <2>5 DEF FlagsRight, Flagged
<1>4. CASE NsNext /\ ~ZoneSubnets
  <2>1. UNCHANGED <<podNsZone, csubnet>>
    BY <1>4 DEF NsNext, NsAdded, NamespaceDeleted, ZoneFetchByName, ZoneCreate,
                PublishNamespace, NsFrame, podVars
  <2>2. nssubnets' = nssubnets \/ nssubnets' = {}
    BY <1>4 DEF NsNext, NsAdded, NamespaceDeleted, ZoneFetchByName, ZoneCreate,
                PublishNamespace, NsReturn, nsVars
  <2>3. \/ Namespaces' = Namespaces
        \/ \E n : Namespaces' = [Namespaces EXCEPT ![n] = [exists |-> TRUE, subnets |-> nssubnets]]
    BY <1>4 DEF NsNext, NsAdded, NamespaceDeleted, ZoneFetchByName, ZoneCreate,
                PublishNamespace, ipamVars
  <2>4. \A n \in NS : Namespaces'[n].subnets \in {Namespaces[n].subnets, nssubnets}
    BY <2>3 DEF TypeOK, CacheTypeOK
  <2> QED BY <2>1, <2>2, <2>4 DEF FlagsRight, Flagged
<1>5. ASSUME PodFrame,
             UNCHANGED Namespaces,
             podNsZone' = podNsZone \/ podNsZone' = {} \/
                \E p \in PodName : podNsZone' = CachedSubnets(p),
             csubnet' = csubnet \/ csubnet' = {} \/
                \E p \in PodName : \E s \in CachedSubnets(p) : csubnet' = {s}
      PROVE  FlagsRight'
  <2>1. \A p \in PodName : Flagged(CachedSubnets(p))
    BY PodNSAssumption DEF FlagsRight, CachedSubnets
  <2> QED BY <1>5, <2>1 DEF PodFrame, nsVars, FlagsRight, Flagged
<1>6. CASE Case2Allocate \/ Case3Allocate
  <2>1. \A j \in job : j.pod \in PodName
    BY DEF TypeOK, WorkerTypeOK, Job
  <2> QED BY <1>5, <1>6, <2>1
          DEF Case2Allocate, Case3Allocate, CustomSubnets, ClusterSubnets
<1>7. CASE Case3AddSubnet
  <2>1. PICK c \in FreeCIDRs : csubnet' = {[cidr |-> c, gen |-> gen, customed |-> FALSE]}
    BY <1>7 DEF Case3AddSubnet, AddableCIDRs
  <2>2. Flagged(csubnet')
    BY <2>1 DEF Flagged, TypeOK, CacheTypeOK
  <2> QED BY <1>7, <2>2 DEF Case3AddSubnet, PodFrame, nsVars, FlagsRight, Flagged
<1>8. CASE Case3Append
  <2>1. PICK n : Namespaces' = [Namespaces EXCEPT ![n] =
                                  [exists |-> TRUE, subnets |-> podNsZone \cup csubnet]]
    BY <1>8 DEF Case3Append
  <2>2. \A m \in NS : Namespaces'[m].subnets \in {Namespaces[m].subnets, podNsZone \cup csubnet}
    BY <2>1 DEF TypeOK, CacheTypeOK
  <2>3. Flagged(podNsZone \cup csubnet)
    BY DEF FlagsRight, Flagged
  <2> QED BY <1>8, <2>2, <2>3 DEF Case3Append, PodFrame, nsVars, FlagsRight, Flagged
<1>9. CASE PodNext /\ ~(Case2Allocate \/ Case3Allocate \/ Case3AddSubnet \/ Case3Append)
  <2>1. \/ \E r \in Exit : Die(r)
        \/ /\ PodFrame /\ UNCHANGED Namespaces
           /\ podNsZone' = podNsZone \/ podNsZone' = {}
           /\ csubnet' = csubnet \/ csubnet' = {}
    BY <1>9 DEF PodNext, PodCreatedStep, PodDeletedStep, PodAdded, WaitNamespace, Case1Fetch,
           Case1Fatal, Case1Put, Case2Create, Case2Put, Case3AddLost, Case3NoAddress, Case3Create,
           Case3Put, PodUpdated, PodDeletedGet, PodDeletedFetch, PodDeletedFatal, PodDeletedRelease,
           PodDeletedCni, PodReturn, podVars, Exit
  <2> QED BY <1>2, <1>5, <2>1
<1>10. CASE ClusterNext \/ PluginRemove \/ PluginLeftover \/ Restart
  BY <1>1, <1>10 DEF ClusterNext, CreatePod, SchedulePod, DeletePod, CreateNs, DeleteNs,
       ClusterFrame, PluginRemove, PluginLeftover, PluginFrame, Restart, ipamVars, podVars, nsVars
<1>11. CASE Crash
  BY <1>2, <1>11 DEF Crash, Exit
<1>12. CASE UNCHANGED vars
  BY <1>1, <1>12 DEF vars, ipamVars, podVars, nsVars
<1> QED BY <1>3, <1>4, <1>6, <1>7, <1>8, <1>9, <1>10, <1>11, <1>12 DEF Next

\* A process that is down has lost its memory.
LEMMA DownStep ==
  ASSUME DownInv, [Next]_vars
  PROVE  DownInv'
<1>1. CASE NsUntouched /\ FreeCIDRs' = FreeCIDRs
  BY <1>1 DEF NsUntouched, DownInv
<1>2. CASE \E r \in Exit : Die(r)
  BY <1>2 DEF Die, LoseMemory, DownInv
<1>3. CASE NsNext
  BY <1>3 DEF NsNext, NsAdded, NamespaceDeleted, ZoneFetchByName, ZoneCreate, ZoneSubnets,
              PublishNamespace, NsFrame, procVars, DownInv
<1>4. CASE Restart
  BY <1>4 DEF Restart, DownInv
<1>5. ASSUME NEW n \in NS, CreateNs(n) \/ DeleteNs(n) PROVE DownInv'
  BY <1>5 DEF CreateNs, DeleteNs, ClusterFrame, ipamVars, nsVars, procVars, DownInv
<1>6. CASE NsUntouched /\ FreeCIDRs' = ClusterCIDRs
  BY <1>6 DEF NsUntouched, DownInv
<1> QED BY <1>1, <1>2, <1>3, <1>4, <1>5, <1>6, StepKinds, PrefixSteps DEF NsNext

\* The initial state satisfies the invariant.
LEMMA InitCustomed == Init => CustomedInv
<1> SUFFICES ASSUME Init PROVE CustomedInv
  OBVIOUS
<1>1. NsEventsOnce /\ DownInv
  BY DEF Init, FreshMemory, NsEventsOnce, DownInv
<1>2. PrefixesUnique
  BY ProvisionedAssumption DEF Init, PrefixesUnique
<1>3. UnreadPrefixesFree /\ FlagsRight
  BY DEF Init, FreshMemory, NoNamespaces, UnreadPrefixesFree, FlagsRight, Flagged
<1> QED BY <1>1, <1>2, <1>3 DEF CustomedInv

\* Every step preserves it when no namespace is created twice.
LEMMA CustomedStep ==
  ASSUME MaxNsCreate = 1, TypeOK, CustomedInv, [Next]_vars
  PROVE  TypeOK' /\ CustomedInv'
<1>1. TypeOK'
  BY TypeStep
<1>2. NsEventsOnce' /\ PrefixesUnique' /\ UnreadPrefixesFree'
  BY <1>1, OnceStep, PrefixesStep, UnreadStep DEF CustomedInv
<1>3. FlagsRight' /\ DownInv'
  BY FlagsStep, DownStep DEF CustomedInv
<1> QED BY <1>1, <1>2, <1>3 DEF CustomedInv

\* When no namespace is created twice, each zone is read at most once in the
\* life of a process and its prefixes stay in FreeCIDRs until then, whichever
\* calls fail, however the controllers interleave and however often the agent
\* is restarted.
THEOREM CustomedInvariance ==
  ASSUME MaxNsCreate = 1
  PROVE  Spec => []CustomedInv
<1>1. Init => TypeOK /\ CustomedInv
  BY InitType, InitCustomed
<1>2. TypeOK /\ CustomedInv /\ [Next]_vars => (TypeOK /\ CustomedInv)'
  BY CustomedStep
<1> QED BY <1>1, <1>2, PTL DEF Spec

\* So the flag that Zone.Subnets infers from FreeCIDRs is right for every
\* cached subnet: exactly the prefixes outside the ClusterCIDR are custom.
THEOREM CustomedCorrect ==
  ASSUME MaxNsCreate = 1
  PROVE  Spec => []CustomedIffNotCluster
<1>1. CustomedInv => CustomedIffNotCluster
  BY DEF CustomedInv, FlagsRight, Flagged, CustomedIffNotCluster
<1> QED BY <1>1, CustomedInvariance, PTL
=============================================================================
