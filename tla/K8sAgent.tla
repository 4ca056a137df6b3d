------------------------------ MODULE K8sAgent ------------------------------
(***************************************************************************)
(* The active agent: its pod and namespace controllers, running next to    *)
(* each other, composed with the cluster that produces their events, the   *)
(* CNI plugins that remove containers from the VSD, and crashes and        *)
(* restarts of the agent process.                                          *)
(***************************************************************************)
EXTENDS NamespaceHandler, PodHandler

----------------------------------------------------------------------------
(* The cluster.  Events reach the informers while the agent runs; a pod is *)
(* only ever in a namespace that exists.                                   *)

Notify(p, kind) ==
    podq' = IF up THEN [podq EXCEPT ![p] = Append(@, [kind |-> kind, uid |-> apipods'[p].uid,
                                                      node |-> apipods'[p].node])]
            ELSE podq

ClusterFrame ==
    UNCHANGED <<vsdVars, cniVars, store, ipamVars, Pods, Zones, podVars, nsVars, procVars>>

CreatePod(p) ==
    /\ ~apipods[p].live /\ apins[PodNS[p]].live /\ apipods[p].uid < MaxUID
    /\ apipods' = [apipods EXCEPT ![p] = [live |-> TRUE, uid |-> @.uid + 1, node |-> NoNode]]
    /\ Notify(p, "set") /\ UNCHANGED <<apins, nsq>> /\ ClusterFrame

SchedulePod(p, n) ==
    /\ apipods[p].live /\ apipods[p].node = NoNode
    /\ apipods' = [apipods EXCEPT ![p].node = n]
    /\ Notify(p, "set") /\ UNCHANGED <<apins, nsq>> /\ ClusterFrame

DeletePod(p) ==
    /\ apipods[p].live
    /\ apipods' = [apipods EXCEPT ![p].live = FALSE]
    /\ Notify(p, "del") /\ UNCHANGED <<apins, nsq>> /\ ClusterFrame

NotifyNs(n, kind) == nsq' = IF up THEN [nsq EXCEPT ![n] = Append(@, kind)] ELSE nsq

CreateNs(n) ==
    /\ ~apins[n].live /\ apins[n].count < MaxNsCreate
    /\ apins' = [apins EXCEPT ![n] = [live |-> TRUE, count |-> @.count + 1]]
    /\ NotifyNs(n, "add") /\ UNCHANGED <<apipods, podq>> /\ ClusterFrame

DeleteNs(n) ==
    /\ apins[n].live /\ \A p \in PodName : PodNS[p] = n => ~apipods[p].live
    /\ apins' = [apins EXCEPT ![n].live = FALSE]
    /\ NotifyNs(n, "del") /\ UNCHANGED <<apipods, podq>> /\ ClusterFrame

ClusterNext ==
    \/ \E p \in PodName : CreatePod(p) \/ DeletePod(p) \/ \E n \in Node : SchedulePod(p, n)
    \/ \E n \in NS : CreateNs(n) \/ DeleteNs(n)

----------------------------------------------------------------------------
(* The CNI plugin on a node removes the container of a dead pod from the   *)
(* VSD at a time of its own, at once or by way of a leftover without an    *)
(* interface.                                                              *)

Dead(c) == ~apipods[c.pod].live \/ apipods[c.pod].uid # c.uid

PluginFrame ==
    UNCHANGED <<vzones, vsubnets, cniVars, apiVars, qVars, ipamVars, Pods, Zones,
                podVars, nsVars, procVars>>

PluginRemove ==
    /\ \E c \in vcont : Dead(c) /\ [c EXCEPT !.ifs = 1] \in ran /\ vcont' = vcont \ {c}
    /\ PluginFrame

PluginLeftover ==
    /\ "leftover" \in Faults
    /\ \E c \in vcont :
        /\ Dead(c) /\ c \in ran /\ c.ifs = 1
        /\ vcont' = (vcont \ {c}) \cup {[c EXCEPT !.ifs = 0]}
    /\ PluginFrame

----------------------------------------------------------------------------
(* The agent process. *)

Crash == up /\ restarts < MaxRestarts /\ Die("crash")

\* A new process lists what exists; each object is an addition to it.
Restart ==
    /\ ~up /\ restarts < MaxRestarts
    /\ up' = TRUE /\ exit' = "" /\ restarts' = restarts + 1
    /\ podq' = [p \in PodName |->
                   IF apipods[p].live
                   THEN <<[kind |-> "set", uid |-> apipods[p].uid, node |-> apipods[p].node]>>
                   ELSE <<>>]
    /\ nsq' = [n \in NS |-> IF apins[n].live THEN <<"add">> ELSE <<>>]
    /\ UNCHANGED <<vsdVars, cniVars, apiVars, store, ipamVars, Pods, Zones, podVars, nsVars>>

----------------------------------------------------------------------------
Init ==
    /\ vzones = {s.zone : s \in Provisioned} /\ vsubnets = Provisioned /\ vcont = {}
    /\ cni = {} /\ ran = {}
    /\ apipods = [p \in PodName |-> [live |-> FALSE, uid |-> 0, node |-> NoNode]]
    /\ apins = [n \in NS |-> [live |-> FALSE, count |-> 0]]
    /\ podq = [p \in PodName |-> <<>>] /\ nsq = [n \in NS |-> <<>>]
    /\ FreshMemory
    /\ up = TRUE /\ exit = "" /\ restarts = 0

Next ==
    \/ NsNext \/ PodNext \/ ClusterNext
    \/ PluginRemove \/ PluginLeftover \/ Crash \/ Restart

Spec == Init /\ [][Next]_vars

\* The informers' goroutines keep running the handlers.  That the calls they
\* make return, with an answer or an error, is an assumption about the network,
\* the VSD and the agent servers: the HTTP clients set no time-out.  Nothing is
\* assumed of the cluster.
Fairness == WF_vars(NsNext) /\ WF_vars(PodNext)

FairSpec == Spec /\ Fairness

----------------------------------------------------------------------------
(* Properties *)

\* The agent has handled everything it was told about a pod.
Settled(p) == up /\ podq[p] = <<>> /\ \A j \in job : j.pod # p

\* Container c is what the VSD has for the live pod p: created for this very
\* pod, or taken over by it once the agent is done with the pod.
Holds(p, c) ==
    /\ apipods[p].live /\ c \in vcont /\ c.pod = p
    /\ c.uid = apipods[p].uid \/ (Settled(p) /\ store[p] # {})

\* The agent's IPAM agrees with the VSD: the address of a live pod's
\* container is reserved in the Range its namespace's subnet list has for
\* that prefix, so case2create and case3create cannot hand it out again.
IPAMAccurate ==
    \A p \in PodName : \A c \in vcont : \A s \in CachedSubnets(p) :
        Holds(p, c) /\ s.cidr = c.cidr => Slot(s, c.host) \in allocated

\* Two live pods never have containers with the same address.
AddressesUnique ==
    \A c, d \in vcont :
        c.pod # d.pod /\ Holds(c.pod, c) /\ Holds(d.pod, d) => <<c.cidr, c.host>> # <<d.cidr, d.host>>

\* Customed is true of exactly the cached subnets outside the ClusterCIDR:
\* Zone.Subnets infers the flag from FreeCIDRs, which the pod and namespace
\* controllers change.
CustomedIffNotCluster ==
    \A n \in NS : \A s \in Namespaces[n].subnets : s.customed <=> s.cidr \notin ClusterCIDRs

\* The flag is right in every list of subnets a controller holds.
Flagged(subnets) == \A s \in subnets : s.customed <=> s.cidr \notin ClusterCIDRs

\* Zone.Subnets may yet run for a namespace in the life of this process.
MayLoad(n) ==
    \/ ~up \/ apins[n].count = 0 \/ nsq[n] \in {<<"add">>, <<"add", "del">>}
    \/ n \in nsjob /\ nspc \in {"fetch", "zcreate", "subnets"}

\* A namespace that is created once has at most one addition to handle.
NsEventsOnce ==
    \A n \in NS :
        /\ nsq[n] \in {<<>>, <<"add">>, <<"add", "del">>, <<"del">>}
        /\ apins[n].live => nsq[n] \in {<<>>, <<"add">>} /\ apins[n].count # 0
        /\ apins[n].count = 0 => nsq[n] = <<>> /\ n \notin nsjob
        /\ n \in nsjob => nsq[n] \in {<<>>, <<"del">>}
        /\ ~up => nsq[n] = <<>>

\* The VSD has a prefix in at most one zone.
PrefixesUnique == \A s, t \in vsubnets : s.cidr = t.cidr => s = t

\* Prefixes of zones that are still to be read are in FreeCIDRs.
UnreadPrefixesFree ==
    \A s \in vsubnets : MayLoad(s.zone) /\ s.cidr \in ClusterCIDRs => s.cidr \in FreeCIDRs

\* The flag is right in the cache and in what the handlers hold.
FlagsRight ==
    /\ \A n \in NS : Flagged(Namespaces[n].subnets)
    /\ Flagged(nssubnets) /\ Flagged(podNsZone) /\ Flagged(csubnet)

\* A process that is down has no namespace in work and every prefix free.
DownInv == ~up => nsjob = {} /\ FreeCIDRs = ClusterCIDRs

\* The inductive invariant behind CustomedIffNotCluster when a namespace is
\* created at most once: Zone.Subnets runs once per zone and process, and
\* until then nothing takes the zone's prefixes out of FreeCIDRs.
CustomedInv == NsEventsOnce /\ PrefixesUnique /\ UnreadPrefixesFree /\ FlagsRight /\ DownInv

\* IPandMask is only called on containers that have their interface.
IPandMaskApplies == exit # "IPandMask"

\* Once the agent is done with every event, an address is reserved in a
\* cached subnet only for a pod that is alive: PodDeleted gives back what
\* PodCreated took, whichever way it finds the container.
AddressesReclaimed ==
    podpc = "idle" /\ (\A p \in PodName : Settled(p)) =>
        \A n \in NS : \A s \in Namespaces[n].subnets : \A h \in Host :
            Slot(s, h) \in allocated =>
                \E c \in vcont : ~Dead(c) /\ c.cidr = s.cidr /\ c.host = h

\* A prefix leaves FreeCIDRs only because the VSD has a subnet for it.
TakenPrefixesExist ==
    \A c \in ClusterCIDRs : c \in FreeCIDRs \/ \E s \in vsubnets : s.cidr = c

\* The agent runs out of addresses (and dies) only when the VSD has a subnet
\* for every prefix of the ClusterCIDR, by then if not before, except for
\* prefixes the agent still had on its list and for which AddSubnet failed.
ExhaustedOnlyWhenFull ==
    [][exit # "nilAddr" /\ exit' = "nilAddr" =>
        \A c \in ClusterCIDRs :
            (\E s \in vsubnets : s.cidr = c) \/ ("addsubnet" \in Faults /\ c \in FreeCIDRs)]_vars

\* A pod that stays bound to a node gets its container to the agent server
\* on that node.
Delivered(p) ==
    \E e \in cni : e.node = apipods[p].node /\ e.cont.pod = p /\ e.cont.uid = apipods[p].uid

BoundPodIsDelivered ==
    \A p \in PodName :
        apipods[p].live /\ apipods[p].node # NoNode ~> ~apipods[p].live \/ Delivered(p)
=============================================================================
