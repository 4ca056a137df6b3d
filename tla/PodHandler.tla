----------------------------- MODULE PodHandler -----------------------------
(***************************************************************************)
(* The pod controller: one goroutine runs PodCreated, PodUpdated and       *)
(* PodDeleted one at a time, concurrently with the namespace controller,   *)
(* the CNI plugins and the cluster.  One action per call to the VSD or to  *)
(* a CNI agent server, and per access to the caches between such calls.    *)
(***************************************************************************)
EXTENDS AgentState

PodFrame == UNCHANGED <<vzones, apiVars, nsq, Zones, gen, nsVars, procVars>>

PodGoto(pc) == podpc' = pc /\ UNCHANGED job

\* The handler returns and its locals go out of scope.
PodReturn ==
    podpc' = "idle" /\ job' = {} /\ container' = {} /\ csubnet' = {} /\ podNsZone' = {}

\* The subnets cached for the namespace of a pod.
CachedSubnets(p) == Namespaces[PodNS[p]].subnets

NewContainer(j, c, h) == [pod |-> j.pod, uid |-> j.uid, cidr |-> c, host |-> h, ifs |-> 1]

\* Container.FetchByName: the VSD containers of that name.
Named(p) == {c \in vcont : c.pod = p}

\* ContainerPUT: the agent server on a node caches containers by name.
CniPut(n, c) ==
    {e \in cni : ~(e.node = n /\ e.cont.pod = c.pod)} \cup {[node |-> n, cont |-> c]}

\* What the agent server on a node caches under a name (ContainerGET).
CniGet(n, p) == {e.cont : e \in {f \in cni : f.node = n /\ f.cont.pod = p}}

\* Submit a container to a node.  Without a node name there is no server to
\* reach; the error is logged, or ignored, by every caller.
PutSucceeds(n, c) ==
    n \in Node /\ cni' = CniPut(n, c) /\ ran' = ran \cup {c}
PutFails(n) ==
    (n \notin Node \/ "put" \in Faults) /\ UNCHANGED cniVars

----------------------------------------------------------------------------
(* PodCreated *)

\* The informer delivers a pod its store does not hold: PodCreated is called
\* and looks for the pod's namespace.
PodAdded(p) ==
    /\ up /\ podpc = "idle" /\ podq[p] # <<>> /\ Head(podq[p]).kind = "set" /\ store[p] = {}
    /\ podq' = [podq EXCEPT ![p] = Tail(@)]
    /\ store' = [store EXCEPT ![p] = {Head(podq[p]).node}]
    /\ job' = {[pod |-> p, uid |-> Head(podq[p]).uid, node |-> Head(podq[p]).node]}
    /\ podpc' = IF Namespaces[PodNS[p]].exists THEN "case1" ELSE "waitns"
    /\ UNCHANGED <<vsubnets, vcont, cniVars, Namespaces, FreeCIDRs, allocated, Pods,
                   container, csubnet, podNsZone>>
    /\ PodFrame

\* The wait for the namespace: a tick finds it, or the 10 s timer fires and
\* the handler gives up for good.
WaitNamespace ==
    /\ up /\ podpc = "waitns"
    /\ \E j \in job :
        \/ Namespaces[PodNS[j.pod]].exists
           /\ PodGoto("case1") /\ UNCHANGED <<container, csubnet, podNsZone>>
        \/ "nstimeout" \in Faults /\ PodReturn
    /\ UNCHANGED <<vsubnets, vcont, cniVars, podq, store, Namespaces, FreeCIDRs, allocated, Pods>>
    /\ PodFrame

\* case1create: a container of that name in the VSD is taken over as it is.
\* If the fetch fails the handler goes on as if there were none.
Case1Fetch ==
    /\ up /\ podpc = "case1"
    /\ \E j \in job :
        \/ /\ Named(j.pod) = {} \/ "fetch" \in Faults
           /\ PodGoto("case2") /\ UNCHANGED <<container, csubnet, podNsZone>>
        \/ \E c \in Named(j.pod) :
            /\ c.ifs = 1
            /\ container' = {c} /\ PodGoto("put1") /\ UNCHANGED <<csubnet, podNsZone>>
    /\ UNCHANGED <<vsubnets, vcont, cniVars, podq, store, Namespaces, FreeCIDRs, allocated, Pods>>
    /\ PodFrame

\* IPandMask is fatal for a container without an interface.
Case1Fatal ==
    /\ up /\ podpc = "case1"
    /\ \E j \in job : \E c \in Named(j.pod) : c.ifs # 1
    /\ Die("IPandMask")

\* The end of case1create: the result of ContainerPUT does not matter.
Case1Put ==
    /\ up /\ podpc = "put1"
    /\ \E j \in job, c \in container : PutSucceeds(j.node, c) \/ PutFails(j.node)
    /\ PodReturn
    /\ UNCHANGED <<vsubnets, vcont, podq, store, Namespaces, FreeCIDRs, allocated, Pods>>
    /\ PodFrame

\* The custom subnets a pod's Subnet label names.
CustomSubnets(p) ==
    {s \in CachedSubnets(p) : Label[p].nuageio /\ s.customed /\ s.cidr \in Label[p].subnet}

\* Mutant of CustomHosts: a given address is used without being allocated.
CustomHostsUnchecked(p, s) ==
    IF Label[p].ip = {} THEN FreeHosts(allocated, s) ELSE Label[p].ip \cap Host

\* The addresses case2create may reserve: the one the IPAddress label gives,
\* if it is free, or any free one.
CustomHosts(p, s) ==
    IF Label[p].ip = {} THEN FreeHosts(allocated, s)
    ELSE Label[p].ip \cap FreeHosts(allocated, s)

\* case2create up to the reservation.  Without labels, without a matching
\* custom subnet or without a free address it fails and case 3 is tried.
Case2Allocate ==
    /\ up /\ podpc = "case2"
    /\ \E j \in job :
        \/ /\ \A s \in CustomSubnets(j.pod) : CustomHosts(j.pod, s) = {}
           /\ PodGoto("case3") /\ UNCHANGED <<allocated, container, csubnet>>
        \/ \E s \in CustomSubnets(j.pod) : \E h \in CustomHosts(j.pod, s) :
            /\ allocated' = Reserve(allocated, s, h)
            /\ container' = {NewContainer(j, s.cidr, h)} /\ csubnet' = {s}
            /\ PodGoto("create2")
    /\ UNCHANGED <<vsubnets, vcont, cniVars, podq, store, Namespaces, FreeCIDRs, Pods, podNsZone>>
    /\ PodFrame

\* Mutant of CreateSucceeds: the error of Create is not looked at.
CreateUnchecked == \E c \in container : UNCHANGED vcont

\* Container.Create succeeds: the VSD accepts a name it does not have.
CreateSucceeds == \E c \in container : Named(c.pod) = {} /\ vcont' = vcont \cup {c}

\* Container.Create fails: the name is taken, the request failed, or it was
\* carried out and its answer lost.
CreateFails ==
    \E c \in container :
        \/ Named(c.pod) # {} /\ UNCHANGED vcont
        \/ "create" \in Faults /\ UNCHANGED vcont
        \/ "createReply" \in Faults /\ Named(c.pod) = {} /\ vcont' = vcont \cup {c}

\* State cleanup after a failed Create: the address goes back to its Range.
ReleaseReserved ==
    \E c \in container, s \in csubnet : allocated' = Release(allocated, s, c.host)

\* case2create after the reservation.
Case2Create ==
    /\ up /\ podpc = "create2"
    /\ \/ CreateSucceeds /\ PodGoto("put2") /\ UNCHANGED <<allocated, container, csubnet>>
       \/ CreateFails /\ ReleaseReserved /\ PodGoto("case3") /\ container' = {} /\ csubnet' = {}
    /\ UNCHANGED <<vsubnets, cniVars, podq, store, Namespaces, FreeCIDRs, Pods, podNsZone>>
    /\ PodFrame

\* Pods[container.Name] = container
RememberPod(c) == Pods' = {d \in Pods : d.pod # c.pod} \cup {c}

\* The end of case2create.  A pod that has no node yet is remembered in Pods;
\* for one that has, the handler returns no container, whether ContainerPUT
\* failed or not, and PodCreated goes on to case 3.
Case2Put ==
    /\ up /\ podpc = "put2"
    /\ \E j \in job, c \in container :
        \/ j.node = NoNode /\ RememberPod(c) /\ PodReturn /\ UNCHANGED cniVars
        \/ /\ j.node # NoNode
           /\ PutSucceeds(j.node, c) \/ PutFails(j.node)
           /\ PodGoto("case3") /\ container' = {} /\ csubnet' = {}
           /\ UNCHANGED <<Pods, podNsZone>>
    /\ UNCHANGED <<vsubnets, vcont, podq, store, Namespaces, FreeCIDRs, allocated>>
    /\ PodFrame

\* The subnets case3create considers.
ClusterSubnets(p) == {s \in CachedSubnets(p) : ~s.customed}

\* Mutant of ClusterHosts: a random address, taken or not.
AnyHost(s) == Host

\* The addresses AllocateNext may return for a subnet.
ClusterHosts(s) == FreeHosts(allocated, s)

\* case3create, first part: an address of a cached cluster subnet, in the
\* order of the list (any order here); podNsZone is a copy of the cache entry.
Case3Allocate ==
    /\ up /\ podpc = "case3"
    /\ \E j \in job :
        \/ \E s \in ClusterSubnets(j.pod) : \E h \in ClusterHosts(s) :
            /\ allocated' = Reserve(allocated, s, h)
            /\ container' = {NewContainer(j, s.cidr, h)} /\ csubnet' = {s}
            /\ PodGoto("create3") /\ UNCHANGED podNsZone
        \/ /\ \A s \in ClusterSubnets(j.pod) : ClusterHosts(s) = {}
           /\ podNsZone' = CachedSubnets(j.pod)
           /\ PodGoto("addsubnet") /\ UNCHANGED <<allocated, container, csubnet>>
    /\ UNCHANGED <<vsubnets, vcont, cniVars, podq, store, Namespaces, FreeCIDRs, Pods>>
    /\ PodFrame

\* Mutant of AddableCIDRs: the loop ends when the first prefix is refused.
FirstCIDROnly ==
    {c \in FreeCIDRs : /\ c = CHOOSE d \in FreeCIDRs : TRUE
                       /\ Hosts > 0 /\ \A s \in vsubnets : s.cidr # c}

\* Mutant of AddableCIDRs: "already exists" is taken for success.
ExistingCIDRs == {c \in FreeCIDRs : Hosts > 0}

\* Prefixes for which AddSubnet can succeed: the VSD refuses one in use, and
\* a prefix without a usable address is skipped before AddSubnet.
AddableCIDRs == {c \in FreeCIDRs : Hosts > 0 /\ \A s \in vsubnets : s.cidr # c}

\* case3create, second part: the loop over FreeCIDRs, one call of AddSubnet
\* per step.  The VSD accepts a prefix, which ends the loop; the prefix stays
\* in FreeCIDRs.
Case3AddSubnet ==
    /\ up /\ podpc = "addsubnet"
    /\ \E j \in job, c \in AddableCIDRs, h \in Host :
        LET s == [cidr |-> c, gen |-> gen, customed |-> FALSE] IN
        /\ vsubnets' = vsubnets \cup {[cidr |-> c, zone |-> PodNS[j.pod]]}
        /\ allocated' = Reserve(allocated, s, h)
        /\ container' = {NewContainer(j, c, h)} /\ csubnet' = {s}
    /\ PodGoto("append")
    /\ UNCHANGED <<vcont, cniVars, podq, store, Namespaces, FreeCIDRs, Pods, podNsZone>>
    /\ PodFrame

\* The VSD adds a prefix but the answer is an error: the address goes back to
\* a Range nobody keeps, and the loop goes on to the next prefix.
Case3AddLost ==
    /\ up /\ podpc = "addsubnet" /\ "addsubnetReply" \in Faults
    /\ \E j \in job, c \in AddableCIDRs :
        vsubnets' = vsubnets \cup {[cidr |-> c, zone |-> PodNS[j.pod]]}
    /\ UNCHANGED <<vcont, cniVars, podq, store, Namespaces, FreeCIDRs, allocated, Pods, podVars>>
    /\ PodFrame

\* The loop is over and every prefix was refused, lost or (a fault) failed:
\* cifaddr is nil and dereferenced.
Case3NoAddress ==
    /\ up /\ podpc = "addsubnet"
    /\ AddableCIDRs = {} \/ "addsubnet" \in Faults
    /\ Die("nilAddr")

\* The copy of the cache entry, extended by the new subnet, is written back.
Case3Append ==
    /\ up /\ podpc = "append"
    /\ \E j \in job :
        Namespaces' = [Namespaces EXCEPT ![PodNS[j.pod]] =
                          [exists |-> TRUE, subnets |-> podNsZone \cup csubnet]]
    /\ PodGoto("create3") /\ podNsZone' = {}
    /\ UNCHANGED <<vsubnets, vcont, cniVars, podq, store, FreeCIDRs, allocated, Pods,
                   container, csubnet>>
    /\ PodFrame

\* case3create, last part.
Case3Create ==
    /\ up /\ podpc = "create3"
    /\ \/ /\ CreateSucceeds /\ PodGoto("put3")
          /\ UNCHANGED <<allocated, container, csubnet, podNsZone>>
       \/ CreateFails /\ ReleaseReserved /\ PodReturn
    /\ UNCHANGED <<vsubnets, cniVars, podq, store, Namespaces, FreeCIDRs, Pods>>
    /\ PodFrame

\* The end of case3create, and of PodCreated.
Case3Put ==
    /\ up /\ podpc = "put3"
    /\ \E j \in job, c \in container :
        \/ j.node = NoNode /\ RememberPod(c) /\ UNCHANGED cniVars
        \/ /\ j.node # NoNode
           /\ PutSucceeds(j.node, c) \/ PutFails(j.node)
           /\ UNCHANGED Pods
    /\ PodReturn
    /\ UNCHANGED <<vsubnets, vcont, podq, store, Namespaces, FreeCIDRs, allocated>>
    /\ PodFrame

----------------------------------------------------------------------------
(* PodUpdated *)

\* Mutant of Scheduled: a pod that is already bound is not told from a new one.
ScheduledNever(old, new) == FALSE

\* The update PodUpdated acts on: a node was assigned.
Scheduled(old, new) == old = NoNode /\ new # NoNode

\* The informer delivers a pod its store holds: PodUpdated.  A remembered
\* container of a pod that was just scheduled goes to its node, once; if
\* that fails it stays in Pods and nothing tries again.
PodUpdated(p) ==
    /\ up /\ podpc = "idle" /\ podq[p] # <<>> /\ Head(podq[p]).kind = "set" /\ store[p] # {}
    /\ podq' = [podq EXCEPT ![p] = Tail(@)]
    /\ store' = [store EXCEPT ![p] = {Head(podq[p]).node}]
    /\ \E old \in store[p] : LET new == Head(podq[p]).node IN
        \/ /\ Scheduled(old, new)
           /\ \E c \in Pods :
                /\ c.pod = p
                /\ \/ PutSucceeds(new, c) /\ Pods' = Pods \ {c}
                   \/ PutFails(new) /\ UNCHANGED Pods
        \/ /\ ~Scheduled(old, new) \/ \A c \in Pods : c.pod # p
           /\ UNCHANGED <<cniVars, Pods>>
    /\ UNCHANGED <<vsubnets, vcont, Namespaces, FreeCIDRs, allocated, podVars>>
    /\ PodFrame

----------------------------------------------------------------------------
(* PodDeleted *)

\* The informer delivers a deleted pod: PodDeleted asks the agent server on
\* the pod's node for the container.
PodDeletedGet(p) ==
    /\ up /\ podpc = "idle" /\ podq[p] # <<>> /\ Head(podq[p]).kind = "del"
    /\ podq' = [podq EXCEPT ![p] = Tail(@)]
    /\ store' = [store EXCEPT ![p] = {}]
    /\ LET j == [pod |-> p, uid |-> Head(podq[p]).uid, node |-> Head(podq[p]).node] IN
        /\ job' = {j}
        /\ \/ \E c \in CniGet(j.node, p) : container' = {c} /\ podpc' = "release"
           \/ /\ CniGet(j.node, p) = {} \/ "get" \in Faults
              /\ podpc' = "delfetch" /\ UNCHANGED container
    /\ UNCHANGED <<vsubnets, vcont, cniVars, Namespaces, FreeCIDRs, allocated, Pods,
                   csubnet, podNsZone>>
    /\ PodFrame

\* The fallback: fetch the container from the VSD and delete it there, errors
\* ignored.  A container without an interface ends the handler; one that was
\* not found leaves the empty container for IPandMask.
PodDeletedFetch ==
    /\ up /\ podpc = "delfetch"
    /\ \E j \in job :
        \/ /\ Named(j.pod) = {} \/ "fetch" \in Faults
           /\ PodGoto("release") /\ UNCHANGED <<vcont, container, csubnet, podNsZone>>
        \/ \E c \in Named(j.pod) :
            /\ vcont' = vcont \ {c} \/ ("delete" \in Faults /\ UNCHANGED vcont)
            /\ \/ c.ifs = 0 /\ PodReturn
               \/ /\ c.ifs = 1
                  /\ container' = {c} /\ PodGoto("release") /\ UNCHANGED <<csubnet, podNsZone>>
    /\ UNCHANGED <<vsubnets, cniVars, podq, store, Namespaces, FreeCIDRs, allocated, Pods>>
    /\ PodFrame

\* IPandMask is fatal when the container was found nowhere.
PodDeletedFatal ==
    /\ up /\ podpc = "release" /\ \A c \in container : c.ifs # 1
    /\ Die("IPandMask")

\* Local IPAM handling: the address is released in the cached subnet of the
\* pod's namespace that has its prefix, if there is one.
PodDeletedRelease ==
    /\ up /\ podpc = "release"
    /\ \E j \in job : \E c \in {d \in container : d.ifs = 1} :
        LET match == {s \in CachedSubnets(j.pod) : s.cidr = c.cidr} IN
        \/ match = {} /\ UNCHANGED allocated
        \/ \E s \in match : allocated' = Release(allocated, s, c.host)
    /\ PodGoto("delcni")
    /\ UNCHANGED <<vsubnets, vcont, cniVars, podq, store, Namespaces, FreeCIDRs, Pods,
                   container, csubnet, podNsZone>>
    /\ PodFrame

\* ContainerDELETE on the agent server of a node.
CniDelete(n, p) == {e \in cni : ~(e.node = n /\ e.cont.pod = p)}

\* The end of PodDeleted; errors are ignored.
PodDeletedCni ==
    /\ up /\ podpc = "delcni"
    /\ \E j \in job :
        cni' = CniDelete(j.node, j.pod) \/ ("cnidelete" \in Faults /\ UNCHANGED cni)
    /\ PodReturn
    /\ UNCHANGED <<ran, vsubnets, vcont, podq, store, Namespaces, FreeCIDRs, allocated, Pods>>
    /\ PodFrame

----------------------------------------------------------------------------
PodCreatedStep ==
    \/ \E p \in PodName : PodAdded(p)
    \/ WaitNamespace \/ Case1Fetch \/ Case1Fatal \/ Case1Put
    \/ Case2Allocate \/ Case2Create \/ Case2Put
    \/ Case3Allocate \/ Case3AddSubnet \/ Case3AddLost \/ Case3NoAddress
    \/ Case3Append \/ Case3Create \/ Case3Put

PodDeletedStep ==
    \/ \E p \in PodName : PodDeletedGet(p)
    \/ PodDeletedFetch \/ PodDeletedFatal \/ PodDeletedRelease \/ PodDeletedCni

PodNext == PodCreatedStep \/ PodDeletedStep \/ \E p \in PodName : PodUpdated(p)
=============================================================================
