-------------------------- MODULE NamespaceHandler --------------------------
(***************************************************************************)
(* The namespace controller: its informer's goroutine runs the namespace   *)
(* handlers one at a time, concurrently with the pod controller.           *)
(* NamespaceCreated finds or creates the zone of a namespace, reads its    *)
(* subnets and containers back from the VSD and publishes the result in    *)
(* Namespaces.  One action per call that takes vsdmutex, so that the pod   *)
(* controller may run between any two of them.                             *)
(***************************************************************************)
EXTENDS AgentState

\* What NamespaceCreated leaves alone, whatever its step.
NsFrame == UNCHANGED <<cniVars, apiVars, podq, store, Pods, podVars, procVars>>

NsGoto(pc) == nspc' = pc /\ UNCHANGED nsjob

NsReturn == nspc' = "idle" /\ nsjob' = {} /\ nssubnets' = {}

\* The informer delivers an added namespace: NamespaceCreated is called.
NsAdded(n) ==
    /\ up /\ nspc = "idle" /\ nsq[n] # <<>> /\ Head(nsq[n]) = "add"
    /\ nsq' = [nsq EXCEPT ![n] = Tail(@)]
    /\ nspc' = "fetch" /\ nsjob' = {n}
    /\ UNCHANGED <<vsdVars, ipamVars, Zones, nssubnets>> /\ NsFrame

\* NamespaceDeleted only logs: zone, subnets and cache entries stay.
NamespaceDeleted(n) ==
    /\ up /\ nspc = "idle" /\ nsq[n] # <<>> /\ Head(nsq[n]) = "del"
    /\ nsq' = [nsq EXCEPT ![n] = Tail(@)]
    /\ UNCHANGED <<vsdVars, ipamVars, Zones, nsVars>> /\ NsFrame

\* Zone.FetchByName: the cache first, then the VSD.  An error ends the
\* handler, and nothing calls it again.
ZoneFetchByName ==
    /\ up /\ nspc = "fetch"
    /\ \E n \in nsjob :
        \/ n \in Zones /\ NsGoto("subnets") /\ UNCHANGED <<Zones, nssubnets>>
        \/ n \notin Zones /\ n \in vzones
           /\ Zones' = Zones \cup {n} /\ NsGoto("subnets") /\ UNCHANGED nssubnets
        \/ n \notin Zones /\ n \notin vzones
           /\ NsGoto("zcreate") /\ UNCHANGED <<Zones, nssubnets>>
        \/ n \notin Zones /\ "zonefetch" \in Faults /\ NsReturn /\ UNCHANGED Zones
    /\ UNCHANGED <<vsdVars, ipamVars, nsq>> /\ NsFrame

\* Zone.Create.  An error ends the handler.
ZoneCreate ==
    /\ up /\ nspc = "zcreate"
    /\ \E n \in nsjob :
        \/ /\ vzones' = vzones \cup {n} /\ Zones' = Zones \cup {n}
           /\ NsGoto("subnets") /\ UNCHANGED nssubnets
        \/ "zonecreate" \in Faults /\ NsReturn /\ UNCHANGED <<vzones, Zones>>
    /\ UNCHANGED <<vsubnets, vcont, ipamVars, nsq>> /\ NsFrame

\* The prefixes of the subnets the VSD has in a zone.
ZonePrefixes(n) == {s.cidr : s \in {t \in vsubnets : t.zone = n}}

\* Container addresses the VSD reports for a prefix (ContainerInterfaces);
\* containers left without an interface are not among them.
ContainerInterfaces(c) == {v.host : v \in {w \in vcont : w.cidr = c /\ w.ifs = 1}}

\* What is read of the objects objs that a listing should return: all, unless
\* the listing fails or is longer than a page.
Listed(fault, objs) == IF fault \in Faults THEN SUBSET objs ELSE {objs}

\* Mutant of Customed: every subnet is treated as part of the ClusterCIDR.
NeverCustomed(c) == FALSE

\* Mutant of Customed: the prefix is taken out of FreeCIDRs before the check.
CustomedAfterDelete(c) == TRUE

\* A prefix that is not in FreeCIDRs is taken for a custom network.
Customed(c) == c \notin FreeCIDRs

\* Mutant of LoadedSlots: addresses of existing containers are not reserved.
LoadedNothing(cs, g) == {}

\* The slots reserved in the new Ranges of the prefixes cs.
LoadedSlots(cs, g) ==
    UNION {ReserveAll({}, [cidr |-> c, gen |-> g], ContainerInterfaces(c)) : c \in cs}

\* Zone.Subnets, atomic under vsdmutex: a new Range for every subnet of the
\* zone, its containers' addresses reserved, its prefix taken out of
\* FreeCIDRs.  The caller ignores an error and goes on without subnets; the
\* error of ContainerInterfaces is ignored too and leaves a Range empty.  Of
\* either listing only the first page is read: any part of it.
ZoneSubnets ==
    /\ up /\ nspc = "subnets"
    /\ \E n \in nsjob :
        \/ \E cs \in Listed("subnets", ZonePrefixes(n)) :
            /\ gen' = gen + 1
            /\ nssubnets' = {[cidr |-> c, gen |-> gen + 1, customed |-> Customed(c)] : c \in cs}
            /\ FreeCIDRs' = FreeCIDRs \ cs
            /\ \E slots \in Listed("cifaces", LoadedSlots(cs, gen + 1)) :
                allocated' = allocated \cup slots
        \/ "subnets" \in Faults /\ nssubnets' = {} /\ UNCHANGED <<gen, FreeCIDRs, allocated>>
    /\ NsGoto("publish")
    /\ UNCHANGED <<vsdVars, Namespaces, Zones, nsq>> /\ NsFrame

\* The end of NamespaceCreated: the cache entry is overwritten.
PublishNamespace ==
    /\ up /\ nspc = "publish"
    /\ \E n \in nsjob :
        Namespaces' = [Namespaces EXCEPT ![n] = [exists |-> TRUE, subnets |-> nssubnets]]
    /\ NsReturn
    /\ UNCHANGED <<vsdVars, FreeCIDRs, allocated, gen, Zones, nsq>> /\ NsFrame

NsNext ==
    \/ \E n \in NS : NsAdded(n) \/ NamespaceDeleted(n)
    \/ ZoneFetchByName \/ ZoneCreate \/ ZoneSubnets \/ PublishNamespace
=============================================================================
