--------------------------- MODULE PodLifeProofs ---------------------------
(***************************************************************************)
(* Theorems about the life of a pod, from its first event to the end of    *)
(* PodDeleted: in the first process of an agent every reserved address     *)
(* belongs to a pod the agent is not finished with, and PodDeleted never   *)
(* calls IPandMask without a container, as long as nothing leaves a pod    *)
(* without one.                                                            *)
(***************************************************************************)
EXTENDS IPAMProofs

\* No call fails that would keep a pod without its container, or PodDeleted
\* from finding it.
Sound == Faults \cap {"nstimeout", "fetch", "create", "get", "leftover"} = {}

\* All containers there are of a pod, wherever they are known.
Held(p) == Named(p) \cup PodsOf(p) \cup {e.cont : e \in CniOf(p)} \cup Work(p)

\* A container of the pod reached a node.
InRan(p) == \E c \in ran : c.pod = p

\* The agent has something to do for the pod, or will have.
Busy(p) == apipods[p].live \/ podq[p] # <<>> \/ JobOf(p) # {}

\* A pod that is gone is reported, last and with its node, until PodDeleted
\* is called.
EventsRight(p) ==
    /\ \A i \in 1 .. Len(podq[p]) : podq[p][i].kind = "del" => podq[p][i].node = apipods[p].node
    /\ ~apipods[p].live /\ podq[p] # <<>> => podq[p][Len(podq[p])].kind = "del"
    /\ store[p] # {} => apipods[p].live \/ podq[p] # <<>>

\* What reached a node is known to its agent server until the end.
RanRight(p) ==
    /\ apipods[p].uid = 0 => ~InRan(p)
    /\ Busy(p) /\ InRan(p) => CniOf(p) # {}

\* PodCreated has made no container for the pod yet.
Early(p) ==
    \/ store[p] = {} /\ podq[p] # <<>>
    \/ JobOf(p) # {} /\ podpc \in {"waitns", "case1"} \cup Between

\* The first process makes one container for a pod, before the pod has a node.
FirstRight(p) ==
    FirstLife =>
        /\ store[p] = {} /\ podq[p] # <<>> => Head(podq[p]).node = NoNode
        /\ JobOf(p) # {} /\ podpc \in Creating => podpc # "put1" /\ \A j \in JobOf(p) : j.node = NoNode
        /\ Early(p) => Named(p) = {} /\ PodsOf(p) = {} /\ CniOf(p) = {}
        /\ \A c, d \in Held(p) : c.cidr = d.cidr /\ c.host = d.host

\* PodDeleted will find a container of the pod, or has found it.
MaskRight(p) ==
    /\ store[p] # {} /\ (JobOf(p) = {} \/ podpc \in {"put1", "put2", "put3"}) => Named(p) # {} \/ CniOf(p) # {}
    /\ JobOf(p) # {} /\ podpc = "delfetch" => Named(p) # {} /\ CniOf(p) = {}
    /\ JobOf(p) # {} /\ podpc = "release" => Work(p) # {}

LifeRight(p) == EventsRight(p) /\ RanRight(p) /\ FirstRight(p) /\ (Sound => MaskRight(p))

\* Slots are of subnets the VSD has, and of Ranges that were built.
AllocRight ==
    /\ \A x \in allocated : x.gen <= gen /\ \E t \in vsubnets : t.cidr = x.cidr
    /\ \A n \in NS : \A s \in Lists(n) : s.gen <= gen

\* Containers keep their interface.
AllWhole == \A c \in vcont : c.ifs = 1

\* In the first process a reserved address belongs to a pod the agent is not
\* finished with.
Owned ==
    FirstLife =>
        \A n \in NS : \A s \in Lists(n) : \A h \in Host : Slot(s, h) \in allocated =>
            \E p \in PodName : Holder(p) /\ \E c \in Held(p) : c.cidr = s.cidr /\ c.host = h

LifeInv ==
    /\ IPAMInv /\ (\A p \in PodName : LifeRight(p)) /\ AllocRight
    /\ ("leftover" \notin Faults => AllWhole /\ Owned)
    /\ (Sound => exit # "IPandMask")

----------------------------------------------------------------------------
(* Steps that concern few pods *)

\* Nothing that matters for a pod changes.
Alike(q) ==
    /\ apipods'[q] = apipods[q] /\ podq'[q] = podq[q] /\ store'[q] = store[q]
    /\ JobOf(q)' = JobOf(q) /\ (JobOf(q) # {} => podpc' = podpc)
    /\ Named(q)' = Named(q) /\ PodsOf(q)' = PodsOf(q) /\ CniOf(q)' = CniOf(q) /\ Work(q)' = Work(q)
    /\ (InRan(q)' <=> InRan(q)) /\ (FirstLife' <=> FirstLife)

\* Then its invariant and its containers stay.
LEMMA AlikeRight ==
    ASSUME NEW q \in PodName, LifeRight(q), Alike(q)
    PROVE  LifeRight(q)' /\ (Holder(q)' <=> Holder(q)) /\ Held(q)' = Held(q)
<1> USE DEF Alike
<1>1. Held(q)' = Held(q) /\ (Holder(q)' <=> Holder(q)) /\ (Early(q)' <=> Early(q)) /\ (Busy(q)' <=> Busy(q))
    BY DEF Held, Holder, Early, Busy
<1>2. EventsRight(q)'
    BY DEF LifeRight, EventsRight
<1>3. RanRight(q)'
    BY <1>1 DEF LifeRight, RanRight
<1>4. FirstRight(q)'
    BY <1>1 DEF LifeRight, FirstRight
<1>5. Sound => MaskRight(q)'
    BY DEF LifeRight, MaskRight
<1> QED BY <1>1, <1>2, <1>3, <1>4, <1>5 DEF LifeRight

\* A step that only concerns the pods in P does not matter for the others.
LEMMA LocalAlike ==
    ASSUME NEW P, Local(P), NEW q \in PodName \ P, InRan(q)' <=> InRan(q)
    PROVE  Alike(q)
BY DEF Local, Alike, FirstLife

\* The owner of address c of pod p is not lost: the pod still has it, or no
\* list has the address reserved.
Keeps(p, c) ==
    \/ Holder(p)' /\ \E d \in Held(p)' : d.cidr = c.cidr /\ d.host = c.host
    \/ \A n \in NS : \A s \in Lists(n)' : s.cidr = c.cidr => Slot(s, c.host) \notin allocated'

\* What a step has to show that concerns the pods in P, reserves nothing and
\* makes no subnets.
LEMMA LifeAssemble ==
    ASSUME LifeInv, IPAMInv', NEW P, \A q \in PodName \ P : Alike(q), \A p \in PodName \cap P : LifeRight(p)',
           vsubnets \subseteq vsubnets', gen' = gen, allocated' \subseteq allocated,
           \A n \in NS : Lists(n)' \subseteq Lists(n),
           "leftover" \notin Faults => AllWhole', Sound => exit' # "IPandMask",
           FirstLife' /\ "leftover" \notin Faults =>
                FirstLife /\ \A p \in PodName \cap P : Holder(p) => \A c \in Held(p) : Keeps(p, c)
    PROVE  LifeInv'
<1>1. \A q \in PodName \ P : LifeRight(q)' /\ (Holder(q)' <=> Holder(q)) /\ Held(q)' = Held(q)
    BY AlikeRight DEF LifeInv
<1>2. \A q \in PodName : LifeRight(q)'
    BY <1>1
<1>3. AllocRight'
    BY DEF LifeInv, AllocRight
<1>4. ASSUME "leftover" \notin Faults, FirstLife'
      PROVE  Owned'
    <2> SUFFICES ASSUME NEW n \in NS, NEW s \in Lists(n)', NEW h \in Host, Slot(s, h) \in allocated'
                 PROVE  \E p \in PodName : Holder(p)' /\ \E c \in Held(p)' : c.cidr = s.cidr /\ c.host = h
        BY DEF Owned
    <2>1. PICK p \in PodName : Holder(p) /\ \E c \in Held(p) : c.cidr = s.cidr /\ c.host = h
        BY <1>4 DEF LifeInv, Owned
    <2>2. PICK c \in Held(p) : c.cidr = s.cidr /\ c.host = h
        BY <2>1
    <2>3. CASE p \in P
        BY <1>4, <2>1, <2>2, <2>3 DEF Keeps
    <2>4. CASE p \notin P
        BY <1>1, <2>1, <2>2, <2>4
    <2> QED BY <2>3, <2>4
<1>5. ~FirstLife' => Owned'
    BY DEF Owned
<1> QED BY <1>2, <1>3, <1>4, <1>5 DEF LifeInv

\* A prefix is in the list of one namespace and once.
LEMMA OneSubnet ==
    ASSUME IPAMInv, NEW m \in NS, NEW n \in NS, NEW s \in Lists(m), NEW t \in Lists(n), s.cidr = t.cidr
    PROVE  m = n /\ s = t
<1> DEFINE v == [cidr |-> s.cidr, zone |-> m]
           w == [cidr |-> t.cidr, zone |-> n]
<1>1. v \in vsubnets /\ w \in vsubnets
    BY DEF IPAMInv, ListsRight
<1>2. v.cidr = w.cidr /\ v.zone = m /\ w.zone = n
    OBVIOUS
<1> HIDE DEF v, w
<1>3. m = n
    BY <1>1, <1>2 DEF IPAMInv, CustomedInv, PrefixesUnique
<1> QED BY <1>3 DEF IPAMInv, ListsRight

\* A container of a pod is in a prefix of the zone of its namespace, and so
\* are the subnets of that prefix.
LEMMA SubnetOfPod ==
    ASSUME IPAMInv, NEW p \in PodName, NEW c, [cidr |-> c.cidr, zone |-> PodNS[p]] \in vsubnets,
           NEW n \in NS, NEW s \in Lists(n), s.cidr = c.cidr
    PROVE  n = PodNS[p]
<1> DEFINE v == [cidr |-> c.cidr, zone |-> PodNS[p]]
           w == [cidr |-> s.cidr, zone |-> n]
<1>1. v \in vsubnets /\ w \in vsubnets
    BY DEF IPAMInv, ListsRight
<1>2. v.cidr = w.cidr /\ v.zone = PodNS[p] /\ w.zone = n
    OBVIOUS
<1> HIDE DEF v, w
<1> QED BY <1>1, <1>2 DEF IPAMInv, CustomedInv, PrefixesUnique

----------------------------------------------------------------------------
(* Steps of a running handler *)

RunningStep ==
    \/ WaitNamespace \/ Case1Fetch \/ Case1Put \/ Case2Allocate \/ Case2Create \/ Case2Put
    \/ Case3Allocate \/ Case3AddSubnet \/ Case3AddLost \/ Case3Append \/ Case3Create \/ Case3Put
    \/ PodDeletedFetch \/ PodDeletedRelease \/ PodDeletedCni

\* What they have in common.
Works(j) ==
    /\ up /\ (\A q \in PodName \ {j.pod} : Alike(q)) /\ j.pod \in PodName
    /\ UNCHANGED <<podq, store, apipods, up, restarts, exit, gen>> /\ vsubnets \subseteq vsubnets'
    /\ job = {j} /\ JobOf(j.pod) = {j} /\ JobOf(j.pod)' = job' /\ (job' = job \/ job' = {})
    /\ Work(j.pod) = container /\ Work(j.pod)' = container' /\ (\A c \in container : c.pod = j.pod)
    /\ PodRight(j.pod) /\ PodRight(j.pod)' /\ LifeRight(j.pod) /\ (FirstLife' <=> FirstLife)
    /\ PodFrame

\* A step of a running handler concerns the handler's pod.
LEMMA RunningWorks ==
    ASSUME Premises, LifeInv, IPAMInv', RunningStep
    PROVE  \E j \in job : Works(j)
<1>1. /\ up /\ podpc # "idle" /\ PodFrame /\ UNCHANGED <<podq, store>>
      /\ job' = job \/ job' = {}
    BY DEF RunningStep, WaitNamespace, Case1Fetch, Case1Put, Case2Allocate, Case2Create, Case2Put,
           Case3Allocate, Case3AddSubnet, Case3AddLost, Case3Append, Case3Create, Case3Put, PodDeletedFetch,
           PodDeletedRelease, PodDeletedCni, PodGoto, PodReturn, podVars
<1>2. PICK j \in job : TRUE
    BY <1>1 DEF LifeInv, IPAMInv, JobShape
<1> DEFINE p == j.pod
<1>3. job = {j} /\ p \in PodName /\ \A c \in container : c.pod = p
    BY OneJob DEF LifeInv, IPAMInv
<1>4. \A c \in container' : c.pod = p
    BY <1>1, <1>3 DEF IPAMInv, JobShape, JobOf
<1>5. vsubnets \subseteq vsubnets'
    BY DEF RunningStep, WaitNamespace, Case1Fetch, Case1Put, Case2Allocate, Case2Create, Case2Put,
           Case3Allocate, Case3AddSubnet, Case3AddLost, Case3Append, Case3Create, Case3Put, PodDeletedFetch,
           PodDeletedRelease, PodDeletedCni
<1>6. \A c \in vcont \cup vcont' : c.pod # p => c \in vcont /\ c \in vcont'
    <2>1. CASE CreateSucceeds \/ CreateFails
        BY <1>3, <2>1 DEF CreateSucceeds, CreateFails
    <2>2. CASE PodDeletedFetch
        BY <1>3, <2>2 DEF PodDeletedFetch, Named
    <2>3. CASE vcont' = vcont
        BY <2>3
    <2> QED BY <2>1, <2>2, <2>3 DEF RunningStep, WaitNamespace, Case1Fetch, Case1Put, Case2Allocate, Case2Create,
           Case2Put, Case3Allocate, Case3AddSubnet, Case3AddLost, Case3Append, Case3Create, Case3Put,
           PodDeletedRelease, PodDeletedCni
<1>7. \A c \in Pods \cup Pods' : c.pod # p => c \in Pods /\ c \in Pods'
    <2>1. Pods' = Pods \/ \E c \in container : RememberPod(c)
        BY DEF RunningStep, WaitNamespace, Case1Fetch, Case1Put, Case2Allocate, Case2Create, Case2Put,
           Case3Allocate, Case3AddSubnet, Case3AddLost, Case3Append, Case3Create, Case3Put, PodDeletedFetch,
           PodDeletedRelease, PodDeletedCni
    <2> QED BY <1>3, <2>1 DEF RememberPod
<1>8. \/ UNCHANGED <<cni, ran>>
      \/ \E n \in Node, c \in container : cni' = CniPut(n, c) /\ ran' = ran \cup {c}
      \/ cni' = CniDelete(j.node, j.pod) /\ ran' = ran
    BY <1>3 DEF RunningStep, WaitNamespace, Case1Fetch, Case1Put, Case2Allocate, Case2Create, Case2Put,
           Case3Allocate, Case3AddSubnet, Case3AddLost, Case3Append, Case3Create, Case3Put, PodDeletedFetch,
           PodDeletedRelease, PodDeletedCni, PutSucceeds, PutFails, cniVars
<1>9. /\ \A e \in cni \cup cni' : e.cont.pod # p => e \in cni /\ e \in cni'
      /\ \A q \in PodName \ {p} : InRan(q)' <=> InRan(q)
    <2>1. CASE UNCHANGED <<cni, ran>>
        BY <2>1 DEF InRan
    <2>2. ASSUME NEW n \in Node, NEW c \in container, cni' = CniPut(n, c), ran' = ran \cup {c}
          PROVE  <1>9!:
        <3> DEFINE new == [node |-> n, cont |-> c]
        <3>1. new.cont = c
            OBVIOUS
        <3> HIDE DEF new
        <3>2. cni' = {e \in cni : ~(e.node = n /\ e.cont.pod = c.pod)} \cup {new}
            BY <2>2 DEF CniPut, new
        <3> QED BY <1>3, <2>2, <3>1, <3>2 DEF InRan
    <2>3. CASE cni' = CniDelete(j.node, j.pod) /\ ran' = ran
        BY <2>3 DEF CniDelete, InRan
    <2> QED BY <1>8, <2>1, <2>2, <2>3
<1>10. \A q \in PodName : Exists(q)' = Exists(q)
    <2>1. CASE Namespaces' = Namespaces
        BY <2>1 DEF Exists
    <2>2. CASE Case3Append
        <3>1. Namespaces' = [Namespaces EXCEPT ![PodNS[p]] = [exists |-> TRUE, subnets |-> podNsZone \cup csubnet]]
            BY <1>3, <2>2 DEF Case3Append
        <3>3. Namespaces \in [NS -> [exists : BOOLEAN, subnets : SUBSET Subnet]] /\ PodNS[p] \in NS
            BY <1>3, PodNSAssumption DEF LifeInv, IPAMInv, TypeOK, CacheTypeOK
        <3>4. \A m \in NS : Namespaces'[m].exists = Namespaces[m].exists \/ (m = PodNS[p] /\ Namespaces'[m].exists = TRUE)
            BY <3>1, <3>3
        <3>2. Namespaces[PodNS[p]].exists = TRUE
            <4>1. Exists(p) /\ PodNS[p] \in NS
                BY <1>3, <2>2, PodNSAssumption, OneJob DEF Case3Append, LifeInv, IPAMInv, PodRight, TaskRight, Creating
            <4> QED BY <4>1 DEF Exists, LifeInv, IPAMInv, TypeOK, CacheTypeOK
        <3> QED BY <3>2, <3>4, PodNSAssumption DEF Exists
    <2> QED BY <2>1, <2>2 DEF RunningStep, WaitNamespace, Case1Fetch, Case1Put, Case2Allocate, Case2Create,
           Case2Put, Case3Allocate, Case3AddSubnet, Case3AddLost, Case3Create, Case3Put, PodDeletedFetch,
           PodDeletedRelease, PodDeletedCni
<1>11. /\ Local({p}) /\ PodRight(p) /\ apipods' = apipods /\ up' = up
       /\ JobOf(p) = {j} /\ JobOf(p)' = job' /\ Work(p) = container /\ Work(p)' = container'
       /\ (FirstLife' <=> FirstLife)
    BY <1>1, <1>4, <1>5, <1>6, <1>7, <1>9, <1>10, WorkFrame DEF LifeInv
<1>12. \A q \in PodName \ {p} : Alike(q)
    BY <1>9, <1>11, LocalAlike
<1>13. UNCHANGED <<restarts, exit, gen>>
    BY <1>1, PodFrameIs
<1>14. PodRight(p)' /\ LifeRight(p)
    BY <1>3 DEF IPAMInv, LifeInv
<1> QED BY <1>1, <1>3, <1>5, <1>11, <1>12, <1>13, <1>14 DEF Works

\* The events of the pod in work do not change, and neither does what is
\* known on its node unless its container goes there.
LEMMA WorkEvents ==
    ASSUME NEW j, Works(j), UNCHANGED <<cni, ran>> \/ CniOf(j.pod)' # {} \/ ~Busy(j.pod)'
    PROVE  EventsRight(j.pod)' /\ RanRight(j.pod)'
<1>1. EventsRight(j.pod)'
    BY DEF Works, LifeRight, EventsRight
<1>2. apipods[j.pod].uid # 0
    BY DEF Works, PodRight, BornRight
<1>3. Busy(j.pod)
    BY DEF Works, Busy
<1>4. UNCHANGED <<cni, ran>> => CniOf(j.pod)' = CniOf(j.pod) /\ (InRan(j.pod)' <=> InRan(j.pod))
    BY DEF CniOf, InRan
<1>5. RanRight(j.pod)'
    BY <1>2, <1>3, <1>4 DEF Works, LifeRight, RanRight
<1> QED BY <1>1, <1>5

\* What a step of a running handler has to show that reserves nothing.
LEMMA WorkAssemble ==
    ASSUME LifeInv, IPAMInv', NEW j, Works(j), UNCHANGED <<cni, ran>> \/ CniOf(j.pod)' # {} \/ ~Busy(j.pod)',
           FirstRight(j.pod)', Sound => MaskRight(j.pod)',
           allocated' \subseteq allocated, \A n \in NS : Lists(n)' \subseteq Lists(n),
           vcont' \subseteq vcont \cup container,
           \/ Holder(j.pod)' /\ Held(j.pod) \subseteq Held(j.pod)'
           \/ FirstLife /\ Holder(j.pod) /\ "leftover" \notin Faults => \A c \in Held(j.pod) : Keeps(j.pod, c)
    PROVE  LifeInv'
<1>1. LifeRight(j.pod)'
    BY WorkEvents DEF LifeRight
<1>2. "leftover" \notin Faults => AllWhole'
    BY DEF LifeInv, AllWhole, Works, PodRight, PlacesRight
<1>3. FirstLife' /\ "leftover" \notin Faults =>
         FirstLife /\ \A p \in PodName \cap {j.pod} : Holder(p) => \A c \in Held(p) : Keeps(p, c)
    BY DEF Works, Keeps
<1>4. /\ \A q \in PodName \ {j.pod} : Alike(q)
      /\ \A p \in PodName \cap {j.pod} : LifeRight(p)'
      /\ vsubnets \subseteq vsubnets' /\ gen' = gen /\ (Sound => exit' # "IPandMask")
    BY <1>1 DEF Works, LifeInv
<1> QED BY <1>2, <1>3, <1>4, LifeAssemble

\* The lists when Namespaces stays and the subnet in work is kept or dropped.
LEMMA ListsShrink ==
    ASSUME NEW j, Works(j), Namespaces' = Namespaces, csubnet' = {} \/ (csubnet' = csubnet /\ job' = job)
    PROVE  \A n \in NS : Lists(n)' \subseteq Lists(n)
<1>1. nsjob' = nsjob /\ nssubnets' = nssubnets
    BY PodFrameIs DEF Works
<1> QED BY <1>1 DEF Lists

\* PodCreated goes on without a new container.
LEMMA MoveLife ==
    ASSUME LifeInv, IPAMInv', NEW j, Works(j), podpc \in {"waitns", "case1"} \cup Between,
           podpc' \in {"case1"} \cup Between,
           UNCHANGED <<vcont, Pods, cni, ran, container, job, allocated>>,
           \A n \in NS : Lists(n)' \subseteq Lists(n)
    PROVE  LifeInv'
<1> DEFINE p == j.pod
<1>1. Named(p)' = Named(p) /\ PodsOf(p)' = PodsOf(p) /\ CniOf(p)' = CniOf(p) /\ Work(p)' = Work(p)
    BY DEF Named, PodsOf, CniOf, Work
<1>2. Held(p)' = Held(p)
    BY <1>1 DEF Held
<1>3. podpc \in Creating /\ podpc' \in Creating /\ podpc' \notin {"put1", "put2", "put3", "delfetch", "release", "delcni"}
    BY DEF Creating, Between
<1>4. store'[p] = store[p] /\ store[p] # {} /\ podq'[p] = podq[p]
    BY <1>3 DEF Works, PodRight, TaskRight
<1>5. FirstRight(p)'
    BY <1>1, <1>2, <1>3, <1>4 DEF Works, LifeRight, FirstRight, Early
<1>6. MaskRight(p)'
    BY <1>3 DEF Works, MaskRight
<1>7. Holder(p)'
    BY <1>3 DEF Works, Holder
<1> QED BY <1>2, <1>5, <1>6, <1>7, WorkAssemble

\* PodCreated ends, and the container in work is dropped; the first process
\* remembers its address elsewhere.
LEMMA ReturnLife ==
    ASSUME LifeInv, IPAMInv', NEW j, Works(j), podpc \in Creating, podpc' = "idle", job' = {}, container' = {},
           UNCHANGED <<cni, ran>> \/ CniOf(j.pod)' # {},
           Held(j.pod)' \subseteq Held(j.pod),
           Sound => Named(j.pod)' # {} \/ CniOf(j.pod)' # {},
           allocated' \subseteq allocated, \A n \in NS : Lists(n)' \subseteq Lists(n),
           vcont' \subseteq vcont,
           FirstLife => \A c \in Held(j.pod) :
               \/ \E d \in Held(j.pod)' : d.cidr = c.cidr /\ d.host = c.host
               \/ \A n \in NS : \A s \in Lists(n)' : s.cidr = c.cidr => Slot(s, c.host) \notin allocated'
    PROVE  LifeInv'
<1> DEFINE p == j.pod
<1>1. store'[p] = store[p] /\ store[p] # {} /\ podq'[p] = podq[p] /\ apipods'[p] = apipods[p] /\ JobOf(p)' = {}
    BY DEF Works, PodRight, TaskRight
<1>2. Holder(p)'
    BY <1>1 DEF Works, LifeRight, EventsRight, Holder
<1>3. FirstRight(p)'
    BY <1>1 DEF Works, LifeRight, FirstRight, Early
<1>4. Sound => MaskRight(p)'
    BY <1>1 DEF MaskRight
<1>5. FirstLife => \A c \in Held(p) : Keeps(p, c)
    BY <1>2 DEF Keeps
<1> QED BY <1>3, <1>4, <1>5, WorkAssemble

\* WaitNamespace.
LEMMA WaitNamespaceLife ==
    ASSUME Premises, LifeInv, IPAMInv', WaitNamespace
    PROVE  LifeInv'
<1>1. PICK j \in job : Works(j)
    BY RunningWorks DEF RunningStep
<1>2. podpc = "waitns" /\ UNCHANGED <<vcont, Pods, cni, ran, allocated, Namespaces>>
    BY DEF WaitNamespace, cniVars
<1>3. CASE podpc' = "case1" /\ UNCHANGED <<job, container, csubnet>>
    BY <1>1, <1>2, <1>3, ListsShrink, MoveLife
<1>4. CASE "nstimeout" \in Faults /\ PodReturn
    <2>1. ~Sound /\ container = {} /\ podpc \in Creating
        BY <1>2, <1>4 DEF Sound, LifeInv, IPAMInv, JobShape, Creating
    <2>2. podpc' = "idle" /\ job' = {} /\ container' = {} /\ csubnet' = {}
        BY <1>4 DEF PodReturn
    <2>3. Held(j.pod)' = Held(j.pod)
        BY <1>2, <2>1, <2>2 DEF Held, Named, PodsOf, CniOf, Work
    <2> QED BY <1>1, <1>2, <2>1, <2>2, <2>3, ListsShrink, ReturnLife
<1> QED BY <1>3, <1>4 DEF WaitNamespace, PodGoto

\* case1create: what is there was made by an earlier process.
LEMMA Case1FetchLife ==
    ASSUME Premises, LifeInv, IPAMInv', Case1Fetch
    PROVE  LifeInv'
<1>1. PICK j \in job : Works(j)
    BY RunningWorks DEF RunningStep
<1>2. podpc = "case1" /\ UNCHANGED <<vcont, Pods, cni, ran, allocated, Namespaces, job, csubnet>>
    BY DEF Case1Fetch, cniVars, PodGoto
<1>3. CASE podpc' = "case2" /\ container' = container
    BY <1>1, <1>2, <1>3, ListsShrink, MoveLife DEF Between
<1>4. ASSUME NEW c \in Named(j.pod), container' = {c}, podpc' = "put1"
      PROVE  LifeInv'
    <2>1. Named(j.pod)' = Named(j.pod)
        BY <1>2 DEF Named
    <2>2. ~FirstLife /\ ~FirstLife'
        BY <1>1, <1>2, <1>4 DEF Works, LifeRight, FirstRight, Early
    <2>3. FirstRight(j.pod)' /\ MaskRight(j.pod)'
        BY <1>4, <2>1, <2>2 DEF FirstRight, MaskRight
    <2> QED BY <1>1, <1>2, <2>2, <2>3, ListsShrink, WorkAssemble
<1>5. \/ podpc' = "case2" /\ container' = container
      \/ \E c \in Named(j.pod) : container' = {c} /\ podpc' = "put1"
    BY <1>1 DEF Case1Fetch, PodGoto, Works
<1> QED BY <1>3, <1>4, <1>5

\* The container in work goes to Pods, or to the node the pod has.
LEMMA PutLife ==
    ASSUME Premises, LifeInv, IPAMInv', up, podpc \in {"put1", "put2", "put3"}, NEW j, Works(j), NEW c \in container,
           \/ j.node = NoNode /\ RememberPod(c) /\ UNCHANGED <<cni, ran>>
           \/ podpc = "put1" \/ j.node # NoNode,
           UNCHANGED <<cni, ran>> \/ PutSucceeds(j.node, c),
           Pods' = Pods \/ (j.node = NoNode /\ RememberPod(c)),
           (podpc' = "case3" /\ job' = job /\ j.node # NoNode) \/ (podpc' = "idle" /\ job' = {}),
           container' = {}, csubnet' = {}, UNCHANGED <<vcont, Namespaces, allocated>>
    PROVE  LifeInv'
<1> DEFINE p == j.pod
<1>1. c.pod = p /\ podpc \in Creating /\ Work(p) = container /\ Work(p)' = {} /\ Named(p)' = Named(p)
    BY DEF Works, Creating, Named
<1>2. UNCHANGED <<cni, ran>> => CniOf(p)' = CniOf(p)
    BY DEF CniOf
<1>3. PutSucceeds(j.node, c) => CniOf(p)' # {}
    <2> DEFINE new == [node |-> j.node, cont |-> c]
    <2>1. PutSucceeds(j.node, c) => new \in cni' /\ new.cont.pod = p
        BY <1>1 DEF PutSucceeds, CniPut
    <2> HIDE DEF new
    <2> QED BY <2>1 DEF CniOf
<1>4. /\ FirstLife => podpc # "put1" /\ j.node = NoNode
      /\ store[p] # {} /\ (Sound => Named(p) # {} \/ CniOf(p) # {})
    BY <1>1 DEF Works, LifeRight, FirstRight, MaskRight, PodRight, TaskRight
<1>5. \A n \in NS : Lists(n)' \subseteq Lists(n)
    BY ListsShrink
<1>6. Sound => Named(p)' # {} \/ CniOf(p)' # {}
    BY <1>1, <1>2, <1>3, <1>4
<1>7. CASE FirstLife
    <2>1. RememberPod(c) /\ podpc' = "idle" /\ job' = {} /\ cni' = cni /\ ran' = ran
        BY <1>4, <1>7
    <2>2. PodsOf(p)' = {c}
        BY <1>1, <2>1 DEF RememberPod, PodsOf
    <2>3. Held(p)' \subseteq Held(p) /\ c \in Held(p)' /\ c \in Held(p)
        BY <1>1, <1>2, <2>1, <2>2 DEF Held
    <2>4. \A d \in Held(p) : d.cidr = c.cidr /\ d.host = c.host
        BY <1>7, <2>3 DEF Works, LifeRight, FirstRight
    <2> QED BY <1>1, <1>5, <1>6, <2>1, <2>3, <2>4, ReturnLife
<1>8. CASE ~FirstLife
    <2>1. FirstRight(p)'
        BY <1>8 DEF FirstRight, Works
    <2>2. Sound => MaskRight(p)'
        BY <1>6 DEF MaskRight, Works
    <2> QED BY <1>2, <1>3, <1>5, <1>8, <2>1, <2>2, WorkAssemble
<1> QED BY <1>7, <1>8

\* The end of each way to create a pod's container.
LEMMA PutsLife ==
    ASSUME Premises, LifeInv, IPAMInv', Case1Put \/ Case2Put \/ Case3Put
    PROVE  LifeInv'
<1>1. PICK j \in job : Works(j)
    BY RunningWorks DEF RunningStep
<1>2. job = {j}
    BY <1>1 DEF Works
<1>3. CASE Case1Put
    <2>1. PICK c \in container : PutSucceeds(j.node, c) \/ PutFails(j.node)
        BY <1>2, <1>3 DEF Case1Put
    <2> QED BY <1>1, <1>3, <2>1, PutLife DEF Case1Put, PodReturn, PutFails, cniVars
<1>4. CASE Case2Put
    <2>1. PICK c \in container :
            \/ j.node = NoNode /\ RememberPod(c) /\ PodReturn /\ UNCHANGED cniVars
            \/ /\ j.node # NoNode
               /\ PutSucceeds(j.node, c) \/ PutFails(j.node)
               /\ PodGoto("case3") /\ container' = {} /\ csubnet' = {}
               /\ UNCHANGED <<Pods, podNsZone>>
        BY <1>2, <1>4 DEF Case2Put
    <2> QED BY <1>1, <1>4, <2>1, PutLife DEF Case2Put, PodReturn, PodGoto, PutFails, cniVars
<1>5. CASE Case3Put
    <2>1. PICK c \in container :
            \/ j.node = NoNode /\ RememberPod(c) /\ UNCHANGED cniVars
            \/ /\ j.node # NoNode
               /\ PutSucceeds(j.node, c) \/ PutFails(j.node)
               /\ UNCHANGED Pods
        BY <1>2, <1>5 DEF Case3Put
    <2> QED BY <1>1, <1>5, <2>1, PutLife DEF Case3Put, PodReturn, PutFails, cniVars
<1> QED BY <1>3, <1>4, <1>5

\* Create of the container in work.
LEMMA CreateLife ==
    ASSUME Premises, LifeInv, IPAMInv', Case2Create \/ Case3Create
    PROVE  LifeInv'
<1>1. PICK j \in job : Works(j)
    BY RunningWorks DEF RunningStep
<1> DEFINE p == j.pod
<1>2. /\ podpc \in {"create2", "create3"} /\ UNCHANGED <<cni, ran, Pods, Namespaces>>
      /\ \/ CreateSucceeds /\ podpc' \in {"put2", "put3"} /\ UNCHANGED <<job, allocated, container, csubnet>>
         \/ /\ CreateFails /\ ReleaseReserved /\ container' = {} /\ csubnet' = {}
            /\ (podpc' = "case3" /\ job' = job) \/ (podpc' = "idle" /\ job' = {})
    BY DEF Case2Create, Case3Create, PodGoto, PodReturn, cniVars
<1>3. PICK c \in container : TRUE
    BY <1>2 DEF CreateSucceeds, CreateFails
<1>4. container = {c} /\ c.pod = p /\ podpc \in Creating /\ podpc \in Between
    BY <1>1, <1>2, <1>3 DEF LifeInv, IPAMInv, JobShape, Works, Creating, Between
<1>5. PodsOf(p)' = PodsOf(p) /\ CniOf(p)' = CniOf(p)
    BY <1>2 DEF PodsOf, CniOf
<1>6. store[p] # {} /\ store'[p] = store[p]
    BY <1>1, <1>4 DEF Works, PodRight, TaskRight
<1>7. \A n \in NS : Lists(n)' \subseteq Lists(n)
    BY <1>1, <1>2, ListsShrink
<1>8. CASE CreateSucceeds /\ podpc' \in {"put2", "put3"} /\ UNCHANGED <<job, allocated, container, csubnet>>
    <2>1. vcont' = vcont \cup {c}
        BY <1>4, <1>8 DEF CreateSucceeds
    <2>2. Named(p)' = Named(p) \cup {c} /\ Work(p)' = {c} /\ Work(p) = {c}
        BY <1>1, <1>4, <1>8, <2>1 DEF Named, Works
    <2>3. Held(p)' = Held(p)
        BY <1>5, <2>2 DEF Held
    <2>4. FirstRight(p)'
        BY <1>1, <1>4, <1>6, <1>8, <2>3 DEF Works, LifeRight, FirstRight, Early, Between
    <2>5. MaskRight(p)'
        BY <1>6, <1>8, <2>2 DEF MaskRight
    <2>6. Holder(p)'
        BY <1>1, <1>8 DEF Works, Holder
    <2> QED BY <1>1, <1>2, <1>4, <1>7, <1>8, <2>1, <2>3, <2>4, <2>5, <2>6, WorkAssemble
<1>9. CASE CreateFails /\ ReleaseReserved /\ container' = {} /\ csubnet' = {}
           /\ ((podpc' = "case3" /\ job' = job) \/ (podpc' = "idle" /\ job' = {}))
    <2>1. vcont' = vcont /\ (Sound => Named(p) # {})
        BY <1>4, <1>9 DEF CreateFails, Premises, Sound
    <2>2. Named(p)' = Named(p) /\ Work(p)' = {} /\ Work(p) = {c}
        BY <1>1, <1>4, <1>9, <2>1 DEF Named, Works
    <2>3. Held(p)' \subseteq Held(p)
        BY <1>5, <2>2 DEF Held
    <2>4. PICK s \in csubnet : allocated' = allocated \ {Slot(s, c.host)} /\ s.cidr = c.cidr
        BY <1>4, <1>9 DEF ReleaseReserved, Release, LifeInv, IPAMInv, JobShape
    <2>5. FirstLife => Held(p) = {c}
        BY <1>1, <1>4, <2>2 DEF Works, LifeRight, FirstRight, Early, Held
    <2>6. PodNS[p] \in NS /\ s \in Lists(PodNS[p])
        BY <1>1, PodNSAssumption DEF Works, Lists
    <2>7. \A n \in NS : \A t \in Lists(n)' : t.cidr = c.cidr => Slot(t, c.host) \notin allocated'
        BY <1>7, <2>4, <2>6, OneSubnet DEF LifeInv
    <2>8. CASE podpc' = "idle" /\ job' = {}
        BY <1>1, <1>2, <1>4, <1>7, <1>9, <2>1, <2>2, <2>3, <2>4, <2>5, <2>7, <2>8, ReturnLife
    <2>9. CASE podpc' = "case3" /\ job' = job
        <3>1. FirstRight(p)'
            BY <1>1, <1>4, <1>5, <1>6, <2>2, <2>3, <2>9 DEF Works, LifeRight, FirstRight, Early
        <3>2. MaskRight(p)'
            BY <1>1, <2>9 DEF MaskRight, Works
        <3>3. FirstLife => \A d \in Held(p) : Keeps(p, d)
            BY <2>5, <2>7 DEF Keeps
        <3> QED BY <1>1, <1>2, <1>7, <2>1, <2>4, <3>1, <3>2, <3>3, WorkAssemble
    <2> QED BY <1>9, <2>8, <2>9
<1> QED BY <1>2, <1>8, <1>9

\* The new subnet is entered in the list of the pod's namespace.
LEMMA AppendLife ==
    ASSUME Premises, LifeInv, IPAMInv', Case3Append
    PROVE  LifeInv'
<1>1. PICK j \in job : Works(j)
    BY RunningWorks DEF RunningStep
<1>2. /\ podpc = "append" /\ podpc' = "create3"
      /\ UNCHANGED <<cni, ran, Pods, vcont, allocated, container, job, csubnet>>
    BY DEF Case3Append, PodGoto, cniVars
<1>3. Namespaces' = [Namespaces EXCEPT ![PodNS[j.pod]] = [exists |-> TRUE, subnets |-> podNsZone \cup csubnet]]
    BY <1>1 DEF Case3Append, Works
<1>4. podNsZone = Namespaces[PodNS[j.pod]].subnets
    BY <1>1, <1>2 DEF LifeInv, IPAMInv, JobShape, CachedSubnets
<1>5. nsjob' = nsjob /\ nssubnets' = nssubnets
    BY <1>1, PodFrameIs DEF Works
<1>6. \A n \in NS : Namespaces'[n].subnets = IF n = PodNS[j.pod] THEN podNsZone \cup csubnet ELSE Namespaces[n].subnets
    BY <1>3 DEF LifeInv, IPAMInv, TypeOK, CacheTypeOK
<1>7. \A n \in NS : Lists(n)' \subseteq Lists(n)
    BY <1>1, <1>2, <1>4, <1>5, <1>6 DEF Lists
<1> QED BY <1>1, <1>2, <1>7, MoveLife DEF Between

\* An address is reserved for the pod in work, in a cached subnet or in a
\* prefix that is new to the VSD.
LEMMA AllocateLife ==
    ASSUME LifeInv, IPAMInv', NEW j, Works(j), podpc \in {"case2", "case3", "addsubnet"},
           podpc' \in {"create2", "create3", "append"}, NEW s, NEW h \in Host,
           s \in CachedSubnets(j.pod) \/ (s.gen = gen /\ \A t \in vsubnets : t.cidr # s.cidr),
           allocated' = allocated \cup {Slot(s, h)}, container' = {NewContainer(j, s.cidr, h)}, csubnet' = {s},
           UNCHANGED <<job, vcont, cni, ran, Pods, Namespaces>>
    PROVE  LifeInv'
<1> DEFINE p == j.pod
           c == NewContainer(j, s.cidr, h)
<1>1. container = {} /\ Work(p) = {} /\ Work(p)' = {c} /\ c.cidr = s.cidr /\ c.host = h
    BY DEF Works, LifeInv, IPAMInv, JobShape, NewContainer
<1> HIDE DEF c
<1>2. podpc \in Creating /\ podpc \in Between /\ podpc' \in Creating /\ podpc' \in Between
      /\ podpc' \notin {"put1", "put2", "put3", "delfetch", "release", "delcni"}
    BY DEF Creating, Between
<1>3. Named(p)' = Named(p) /\ PodsOf(p)' = PodsOf(p) /\ CniOf(p)' = CniOf(p)
    BY DEF Named, PodsOf, CniOf
<1>4. Held(p)' = Held(p) \cup {c} /\ (FirstLife => Held(p) = {})
    BY <1>1, <1>2, <1>3 DEF Works, LifeRight, FirstRight, Early, Held
<1>5. store[p] # {} /\ store'[p] = store[p] /\ podq'[p] = podq[p] /\ JobOf(p)' = JobOf(p) /\ JobOf(p) = {j} /\ p \in PodName
    BY <1>2 DEF Works, PodRight, TaskRight
<1>6. FirstRight(p)'
    BY <1>2, <1>3, <1>4, <1>5 DEF Works, LifeRight, FirstRight, Early
<1>7. MaskRight(p)'
    BY <1>2, <1>5 DEF MaskRight
<1>8. LifeRight(p)'
    BY <1>6, <1>7, WorkEvents DEF LifeRight
<1>9. Holder(p)'
    BY <1>2, <1>5 DEF Holder
<1>10. \A q \in PodName \ {p} : LifeRight(q)' /\ (Holder(q)' <=> Holder(q)) /\ Held(q)' = Held(q)
    BY AlikeRight DEF LifeInv, Works
<1>11. \A q \in PodName : LifeRight(q)' /\ (Holder(q) => Holder(q)') /\ Held(q) \subseteq Held(q)'
    BY <1>4, <1>8, <1>9, <1>10
<1>12. nsjob' = nsjob /\ nssubnets' = nssubnets /\ gen' = gen /\ exit' = exit /\ PodNS[p] \in NS
    BY <1>5, PodFrameIs, PodNSAssumption DEF Works
<1>13. ASSUME NEW n \in NS, NEW t \in Lists(n)'
       PROVE  t \in Lists(n) \/ (t = s /\ n = PodNS[p])
    BY <1>12 DEF Lists, Works
<1>14. s \in CachedSubnets(p) => s \in Lists(PodNS[p])
    BY DEF Lists, CachedSubnets
<1>15. Slot(s, h).gen = s.gen /\ Slot(s, h).cidr = s.cidr
    BY DEF Slot
<1>16. s.gen <= gen
    BY <1>12, <1>14 DEF LifeInv, AllocRight, IPAMInv, TypeOK, CacheTypeOK
<1>17. AllocRight'
    <2>1. [cidr |-> s.cidr, zone |-> PodNS[p]] \in vsubnets'
        <3>1. s \in Lists(PodNS[p])'
            BY <1>5 DEF Lists, Works
        <3> QED BY <1>12, <3>1 DEF IPAMInv, ListsRight
    <2>2. \E t \in vsubnets' : t.cidr = s.cidr
        BY <2>1
    <2>3. \A x \in allocated : x.gen <= gen /\ \E t \in vsubnets' : t.cidr = x.cidr
        BY DEF LifeInv, AllocRight, Works
    <2>4. \A n \in NS : \A t \in Lists(n)' : t.gen <= gen
        BY <1>13, <1>16 DEF LifeInv, AllocRight
    <2> QED BY <1>12, <1>15, <1>16, <2>2, <2>3, <2>4 DEF AllocRight
<1>18. ASSUME "leftover" \notin Faults, FirstLife
       PROVE  Owned'
    <2> SUFFICES ASSUME NEW n \in NS, NEW t \in Lists(n)', NEW k \in Host, Slot(t, k) \in allocated'
                 PROVE  \E q \in PodName : Holder(q)' /\ \E d \in Held(q)' : d.cidr = t.cidr /\ d.host = k
        BY DEF Owned
    <2>1. CASE Slot(t, k) = Slot(s, h)
        <3>1. t.cidr = s.cidr /\ k = h
            BY <2>1 DEF Slot
        <3> QED BY <1>1, <1>4, <1>5, <1>9, <3>1
    <2>2. CASE Slot(t, k) \in allocated
        <3>1. t \in Lists(n)
            <4>1. \E v \in vsubnets : v.cidr = Slot(t, k).cidr
                BY <2>2 DEF LifeInv, AllocRight
            <4>2. Slot(t, k).cidr = t.cidr
                BY DEF Slot
            <4> QED BY <1>13, <1>14, <4>1, <4>2
        <3>2. PICK q \in PodName : Holder(q) /\ \E d \in Held(q) : d.cidr = t.cidr /\ d.host = k
            BY <1>18, <2>2, <3>1 DEF LifeInv, Owned
        <3> QED BY <1>11, <3>2
    <2> QED BY <2>1, <2>2
<1>19. ~FirstLife => Owned'
    BY DEF Owned, Works
<1>20. AllWhole' <=> AllWhole
    BY DEF AllWhole
<1> QED BY <1>11, <1>12, <1>17, <1>18, <1>19, <1>20 DEF LifeInv

\* The reservations of case2create and case3create.
LEMMA AllocatesLife ==
    ASSUME Premises, LifeInv, IPAMInv', Case2Allocate \/ Case3Allocate \/ Case3AddSubnet \/ Case3AddLost
    PROVE  LifeInv'
<1>1. PICK j \in job : Works(j)
    BY RunningWorks DEF RunningStep
<1>2. job = {j} /\ UNCHANGED <<vcont, cni, ran, Pods, Namespaces, job>>
    BY <1>1 DEF Works, Case2Allocate, Case3Allocate, Case3AddSubnet, Case3AddLost, cniVars, PodGoto, podVars
<1>3. CASE Case2Allocate
    <2>1. podpc = "case2"
        BY <1>3 DEF Case2Allocate
    <2>2. CASE podpc' = "case3" /\ UNCHANGED <<allocated, container, csubnet>>
        BY <1>1, <1>2, <2>1, <2>2, ListsShrink, MoveLife DEF Between
    <2>3. ASSUME NEW s \in CustomSubnets(j.pod), NEW h \in CustomHosts(j.pod, s), podpc' = "create2",
                 allocated' = Reserve(allocated, s, h),
                 container' = {NewContainer(j, s.cidr, h)}, csubnet' = {s}
          PROVE  LifeInv'
        <3>1. s \in CachedSubnets(j.pod) /\ h \in Host
            BY DEF CustomSubnets, CustomHosts, FreeHosts
        <3> QED BY <1>1, <1>2, <2>1, <2>3, <3>1, AllocateLife DEF Reserve
    <2> QED BY <1>2, <1>3, <2>2, <2>3 DEF Case2Allocate, PodGoto
<1>4. CASE Case3Allocate
    <2>1. podpc = "case3"
        BY <1>4 DEF Case3Allocate
    <2>2. CASE podpc' = "addsubnet" /\ UNCHANGED <<allocated, container, csubnet>>
        BY <1>1, <1>2, <2>1, <2>2, ListsShrink, MoveLife DEF Between
    <2>3. ASSUME NEW s \in ClusterSubnets(j.pod), NEW h \in ClusterHosts(s), podpc' = "create3",
                 allocated' = Reserve(allocated, s, h),
                 container' = {NewContainer(j, s.cidr, h)}, csubnet' = {s}
          PROVE  LifeInv'
        <3>1. s \in CachedSubnets(j.pod) /\ h \in Host
            BY DEF ClusterSubnets, ClusterHosts, FreeHosts
        <3> QED BY <1>1, <1>2, <2>1, <2>3, <3>1, AllocateLife DEF Reserve
    <2> QED BY <1>2, <1>4, <2>2, <2>3 DEF Case3Allocate, PodGoto
<1>5. CASE Case3AddSubnet
    <2>1. PICK c \in AddableCIDRs, h \in Host :
            /\ allocated' = Reserve(allocated, [cidr |-> c, gen |-> gen, customed |-> FALSE], h)
            /\ container' = {NewContainer(j, c, h)}
            /\ csubnet' = {[cidr |-> c, gen |-> gen, customed |-> FALSE]}
        BY <1>2, <1>5 DEF Case3AddSubnet
    <2>2. podpc = "addsubnet" /\ podpc' = "append" /\ \A t \in vsubnets : t.cidr # c
        BY <1>5 DEF Case3AddSubnet, PodGoto, AddableCIDRs
    <2> DEFINE s == [cidr |-> c, gen |-> gen, customed |-> FALSE]
    <2>3. s.cidr = c /\ s.gen = gen /\ allocated' = allocated \cup {Slot(s, h)} /\ csubnet' = {s}
        BY <2>1 DEF Reserve
    <2> HIDE DEF s
    <2> QED BY <1>1, <1>2, <2>1, <2>2, <2>3, AllocateLife
<1>6. CASE Case3AddLost
    <2>1. podpc = "addsubnet" /\ podpc' = podpc /\ UNCHANGED <<allocated, container, csubnet>>
        BY <1>6 DEF Case3AddLost, podVars
    <2> QED BY <1>1, <1>2, <2>1, ListsShrink, MoveLife DEF Between
<1> QED BY <1>3, <1>4, <1>5, <1>6

\* PodDeleted is at work on a pod that is gone.
LEMMA DeletingIs ==
    ASSUME NEW j, Works(j), podpc \in Deleting, podpc' \notin Creating
    PROVE  /\ ~apipods'[j.pod].live /\ podq'[j.pod] = <<>> /\ store'[j.pod] = {}
           /\ ~Early(j.pod)' /\ (Held(j.pod)' \subseteq Held(j.pod) => FirstRight(j.pod)')
<1>1. ~apipods'[j.pod].live /\ podq'[j.pod] = <<>> /\ store'[j.pod] = {}
    BY DEF Works, PodRight, TaskRight
<1>2. podpc' \notin {"waitns", "case1"} \cup Between
    BY DEF Creating, Between
<1>3. ~Early(j.pod)'
    BY <1>1, <1>2 DEF Early
<1>4. Held(j.pod)' \subseteq Held(j.pod) => FirstRight(j.pod)'
    BY <1>1, <1>3 DEF Works, LifeRight, FirstRight
<1> QED BY <1>1, <1>3, <1>4

\* PodDeleted fetches the container from the VSD and deletes it there.
LEMMA PodDeletedFetchLife ==
    ASSUME Premises, LifeInv, IPAMInv', PodDeletedFetch
    PROVE  LifeInv'
<1>1. PICK j \in job : Works(j)
    BY RunningWorks DEF RunningStep
<1> DEFINE p == j.pod
<1>2. podpc = "delfetch" /\ podpc \in Deleting /\ container = {}
      /\ UNCHANGED <<cni, ran, Pods, Namespaces, allocated>>
    BY DEF PodDeletedFetch, cniVars, Deleting, LifeInv, IPAMInv, JobShape
<1>3. PodsOf(p)' = PodsOf(p) /\ CniOf(p)' = CniOf(p) /\ Work(p) = {}
    BY <1>1, <1>2 DEF PodsOf, CniOf, Works
<1>4. CASE /\ Named(p) = {} \/ "fetch" \in Faults
           /\ podpc' = "release" /\ UNCHANGED <<job, vcont, container, csubnet>>
    <2>1. Held(p)' = Held(p)
        BY <1>2, <1>4 DEF Held, Named, PodsOf, CniOf, Work
    <2>2. FirstRight(p)'
        BY <1>1, <1>2, <1>4, <2>1, DeletingIs DEF Creating
    <2>3. ~Sound
        BY <1>1, <1>2, <1>4 DEF Works, LifeRight, MaskRight, Sound
    <2>4. Holder(p)'
        BY <1>1, <1>4 DEF Works, Holder
    <2> QED BY <1>1, <1>2, <1>4, <2>1, <2>2, <2>3, <2>4, ListsShrink, WorkAssemble
<1>5. ASSUME NEW c \in Named(p), vcont' = vcont \ {c} \/ vcont' = vcont,
             \/ c.ifs = 0 /\ PodReturn
             \/ c.ifs = 1 /\ container' = {c} /\ podpc' = "release" /\ UNCHANGED <<job, csubnet>>
      PROVE  LifeInv'
    <2>1. c.pod = p /\ c \in vcont /\ Named(p)' \subseteq Named(p) /\ Named(p) \subseteq Named(p)' \cup {c}
        BY <1>5 DEF Named
    <2>2. CASE c.ifs = 0 /\ PodReturn
        <3>1. podpc' = "idle" /\ job' = {} /\ container' = {} /\ csubnet' = {}
            BY <2>2 DEF PodReturn
        <3>2. Held(p)' \subseteq Held(p)
            BY <1>1, <1>3, <2>1, <3>1 DEF Held, Works
        <3>3. FirstRight(p)'
            BY <1>1, <1>2, <3>1, <3>2, DeletingIs DEF Creating
        <3>4. "leftover" \in Faults
            BY <2>1, <2>2 DEF LifeInv, AllWhole
        <3>5. ~Sound
            BY <3>4 DEF Sound
        <3> QED BY <1>1, <1>2, <1>5, <3>1, <3>3, <3>4, <3>5, ListsShrink, WorkAssemble
    <2>3. CASE c.ifs = 1 /\ container' = {c} /\ podpc' = "release" /\ UNCHANGED <<job, csubnet>>
        <3>1. Work(p)' = {c}
            BY <1>1, <2>3 DEF Works
        <3>2. Held(p)' = Held(p)
            BY <1>3, <2>1, <3>1 DEF Held
        <3>3. FirstRight(p)' /\ store'[p] = {}
            BY <1>1, <1>2, <2>3, <3>2, DeletingIs DEF Creating
        <3>4. MaskRight(p)'
            BY <2>3, <3>1, <3>3 DEF MaskRight
        <3>5. Holder(p)'
            BY <1>1, <2>3 DEF Works, Holder
        <3> QED BY <1>1, <1>2, <1>5, <2>3, <3>2, <3>3, <3>4, <3>5, ListsShrink, WorkAssemble
    <2> QED BY <1>5, <2>2, <2>3
<1>6. \/ /\ Named(p) = {} \/ "fetch" \in Faults
         /\ podpc' = "release" /\ UNCHANGED <<job, vcont, container, csubnet>>
      \/ \E c \in Named(p) :
            /\ vcont' = vcont \ {c} \/ vcont' = vcont
            /\ \/ c.ifs = 0 /\ PodReturn
               \/ c.ifs = 1 /\ container' = {c} /\ podpc' = "release" /\ UNCHANGED <<job, csubnet>>
    BY <1>1 DEF Works, PodDeletedFetch, PodGoto
<1> QED BY <1>4, <1>5, <1>6

\* The end of PodDeleted: the address is released in the list that has its
\* prefix, and then the agent is finished with the pod.
LEMMA PodDeletedEndLife ==
    ASSUME Premises, LifeInv, IPAMInv', PodDeletedRelease \/ PodDeletedCni
    PROVE  LifeInv'
<1>1. PICK j \in job : Works(j)
    BY RunningWorks DEF RunningStep
<1> DEFINE p == j.pod
<1>2. podpc \in Deleting /\ podpc' \notin Creating /\ UNCHANGED <<ran, Pods, Namespaces, vcont>>
      /\ podpc' \notin {"put1", "put2", "put3", "delfetch", "release"}
    BY DEF PodDeletedRelease, PodDeletedCni, PodGoto, PodReturn, podVars, Deleting, Creating, cniVars
<1>3. ~apipods'[p].live /\ podq'[p] = <<>> /\ store'[p] = {} /\ (Held(p)' \subseteq Held(p) => FirstRight(p)')
    BY <1>1, <1>2, DeletingIs
<1>4. MaskRight(p)' /\ Named(p)' = Named(p) /\ PodsOf(p)' = PodsOf(p)
    BY <1>2, <1>3 DEF MaskRight, Named, PodsOf
<1>5. CASE PodDeletedRelease
    <2>1. podpc = "release" /\ podpc' = "delcni" /\ UNCHANGED <<cni, container, csubnet, job>> /\ csubnet = {}
        BY <1>5 DEF PodDeletedRelease, PodGoto, cniVars, LifeInv, IPAMInv, JobShape
    <2>2. PICK c \in container : LET match == {s \in CachedSubnets(p) : s.cidr = c.cidr} IN
                (match = {} /\ allocated' = allocated) \/ \E s \in match : allocated' = Release(allocated, s, c.host)
        BY <1>1, <1>5 DEF PodDeletedRelease, Works
    <2>3. Held(p)' = Held(p) /\ c \in Held(p) /\ Work(p) = container
        BY <1>1, <1>4, <2>1 DEF Held, CniOf, Works
    <2>4. Lists(PodNS[p]) = CachedSubnets(p) /\ PodNS[p] \in NS
        <3>1. Exists(p) /\ p \in PodName
            BY <1>1, <2>3 DEF Works, PodRight, NoNamespaceRight
        <3>2. PodNS[p] \in NS /\ PodNS[p] \notin nsjob
            BY <3>1, PodNSAssumption DEF Exists, LifeInv, IPAMInv, NsRight
        <3> QED BY <2>1, <3>2 DEF Lists, CachedSubnets
    <2>5. \A n \in NS : Lists(n)' \subseteq Lists(n)
        BY <1>1, <1>2, <2>1, ListsShrink
    <2>6. [cidr |-> c.cidr, zone |-> PodNS[p]] \in vsubnets /\ p \in PodName
        BY <1>1, <2>3 DEF Works, PodRight, PlacesRight
    <2>7. ASSUME NEW n \in NS, NEW t \in Lists(n)', t.cidr = c.cidr
          PROVE  Slot(t, c.host) \notin allocated'
        <3>1. n = PodNS[p] /\ t \in CachedSubnets(p)
            BY <2>4, <2>5, <2>6, <2>7, SubnetOfPod DEF LifeInv
        <3>2. PICK s \in CachedSubnets(p) : s.cidr = c.cidr /\ allocated' = allocated \ {Slot(s, c.host)}
            BY <2>2, <2>7, <3>1 DEF Release
        <3>3. s = t
            BY <2>4, <2>7, <3>1, <3>2 DEF LifeInv, IPAMInv, ListsRight
        <3> QED BY <3>2, <3>3
    <2>8. FirstLife => \A d \in Held(p) : d.cidr = c.cidr /\ d.host = c.host
        BY <1>1, <2>3 DEF Works, LifeRight, FirstRight
    <2>9. FirstLife => \A d \in Held(p) : Keeps(p, d)
        BY <2>7, <2>8 DEF Keeps
    <2>10. allocated' \subseteq allocated
        BY <2>2 DEF Release
    <2> QED BY <1>1, <1>2, <1>3, <1>4, <2>1, <2>3, <2>5, <2>9, <2>10, WorkAssemble
<1>6. CASE PodDeletedCni
    <2>1. podpc = "delcni" /\ job' = {} /\ container' = {} /\ csubnet' = {} /\ cni' \subseteq cni /\ allocated' = allocated
        BY <1>6 DEF PodDeletedCni, PodReturn, CniDelete
    <2>2. ~Busy(p)' /\ ~Holder(p)
        BY <1>1, <1>3, <2>1 DEF Busy, Holder, Works
    <2>3. Held(p)' \subseteq Held(p)
        BY <1>1, <1>4, <2>1 DEF Held, CniOf, Works
    <2>4. \A n \in NS : Lists(n)' \subseteq Lists(n)
        BY <1>1, <1>2, <2>1, ListsShrink
    <2> QED BY <1>1, <1>2, <1>3, <1>4, <2>1, <2>2, <2>3, <2>4, WorkAssemble
<1> QED BY <1>5, <1>6

----------------------------------------------------------------------------
(* Events *)

\* A handler takes the first event of a pod.
LEMMA EventsTail ==
    ASSUME TypeOK, NEW p \in PodName, EventsRight(p), podq[p] # <<>>, podq'[p] = Tail(podq[p]),
           apipods' = apipods, store'[p] = {} \/ Head(podq[p]).kind = "set"
    PROVE  EventsRight(p)' /\ (Head(podq[p]).kind = "del" => Head(podq[p]).node = apipods[p].node)
<1> DEFINE q == podq[p]
           t == Tail(q)
<1>1. q \in PodQueue
    BY DEF TypeOK, APITypeOK
<1>2. /\ Head(q) = q[1] /\ Len(q) \in Nat /\ 1 \in 1 .. Len(q) /\ t \in PodQueue /\ Len(t) = Len(q) - 1
      /\ \A i \in 1 .. Len(t) : i + 1 \in 1 .. Len(q) /\ t[i] = q[i + 1]
      /\ Len(q) = 1 => t = <<>>
    BY <1>1, PodTail
<1> HIDE DEF t
<1>3. t # <<>> => t[Len(t)] = q[Len(q)]
    <2>1. t # <<>> => Len(t) \in 1 .. Len(t) /\ Len(t) + 1 = Len(q)
        BY <1>2 DEF PodQueue
    <2> QED BY <1>2, <2>1
<1>4. Len(q) # 1 => t # <<>>
    <2>1. t = <<>> => Len(t) = 0
        OBVIOUS
    <2>2. Len(t) = 0 => Len(q) = 1
        BY <1>2
    <2> QED BY <2>1, <2>2
<1>5. \A i \in 1 .. Len(t) : t[i].kind = "del" => t[i].node = apipods[p].node
    BY <1>2 DEF EventsRight
<1>6. ~apipods[p].live /\ Head(q).kind = "set" => t # <<>>
    BY <1>2, <1>4 DEF EventsRight
<1>7. Head(q).kind = "del" => Head(q).node = apipods[p].node
    BY <1>2 DEF EventsRight
<1>8. EventsRight(p)'
    BY <1>3, <1>5, <1>6 DEF EventsRight, t
<1> QED BY <1>7, <1>8

\* What an event has to show: it reserves nothing and deletes nothing.
LEMMA EventAssemble ==
    ASSUME LifeInv, IPAMInv', NEW p \in PodName, \A q \in PodName \ {p} : Alike(q), LifeRight(p)',
           UNCHANGED <<vsubnets, gen, allocated, exit, vcont>>, \A n \in NS : Lists(n)' \subseteq Lists(n),
           FirstLife' <=> FirstLife,
           FirstLife => Holder(p)' /\ \A c \in Held(p) : \E d \in Held(p)' : d.cidr = c.cidr /\ d.host = c.host
    PROVE  LifeInv'
<1>1. \A x \in PodName \cap {p} : LifeRight(x)' /\ (FirstLife => \A c \in Held(x) : Keeps(x, c))
    BY DEF Keeps
<1>2. AllWhole' <=> AllWhole
    BY DEF AllWhole
<1> QED BY <1>1, <1>2, LifeAssemble DEF LifeInv

\* A handler is called for pod p.
LEMMA CalledAlike ==
    ASSUME LifeInv, NEW p \in PodName, podpc = "idle", PodFrame,
           \A q \in PodName \ {p} : podq'[q] = podq[q] /\ store'[q] = store[q],
           \A j \in job' : j.pod = p, \A c \in container' : c.pod = p,
           \A c \in Pods \cup Pods' : c.pod # p => c \in Pods /\ c \in Pods',
           \A e \in cni \cup cni' : e.cont.pod # p => e \in cni /\ e \in cni',
           \A c \in ran \cup ran' : c.pod # p => c \in ran /\ c \in ran',
           UNCHANGED <<vsubnets, vcont, Namespaces, csubnet>>
    PROVE  /\ \A q \in PodName \ {p} : Alike(q)
           /\ \A n \in NS : Lists(n)' \subseteq Lists(n)
           /\ job = {} /\ container = {} /\ JobOf(p) = {} /\ Work(p) = {} /\ Named(p)' = Named(p)
           /\ JobOf(p)' = job' /\ Work(p)' = container'
           /\ UNCHANGED <<apipods, gen, exit, up, restarts>> /\ (FirstLife' <=> FirstLife)
<1>1. job = {} /\ container = {} /\ csubnet = {}
    BY DEF LifeInv, IPAMInv, JobShape
<1>2. UNCHANGED <<apipods, gen, exit, up, restarts, nsjob, nssubnets>>
    BY PodFrameIs
<1>3. \A q \in PodName : Exists(q)' = Exists(q)
    BY DEF Exists
<1>4. Local({p})
    BY <1>1, <1>3, HandlerLocal
<1>5. \A q \in PodName \ {p} : InRan(q)' <=> InRan(q)
    BY DEF InRan
<1>6. \A q \in PodName \ {p} : Alike(q)
    BY <1>4, <1>5, LocalAlike
<1>7. \A n \in NS : Lists(n)' \subseteq Lists(n)
    BY <1>1, <1>2 DEF Lists
<1>8. JobOf(p) = {} /\ Work(p) = {} /\ Named(p)' = Named(p) /\ JobOf(p)' = job' /\ Work(p)' = container'
    BY <1>1 DEF JobOf, Work, Named
<1> QED BY <1>1, <1>2, <1>6, <1>7, <1>8 DEF FirstLife

\* PodAdded.
LEMMA PodAddedLife ==
    ASSUME Premises, LifeInv, IPAMInv', NEW p \in PodName, PodAdded(p)
    PROVE  LifeInv'
<1> DEFINE e == Head(podq[p])
           j == [pod |-> p, uid |-> e.uid, node |-> e.node]
<1>1. /\ podpc = "idle" /\ podq[p] # <<>> /\ e.kind = "set" /\ store[p] = {}
      /\ podq' = [podq EXCEPT ![p] = Tail(podq[p])] /\ store' = [store EXCEPT ![p] = {e.node}]
      /\ job' = {j} /\ podpc' \in {"case1", "waitns"} /\ PodFrame
      /\ UNCHANGED <<vsubnets, vcont, cni, ran, Namespaces, allocated, Pods, container, csubnet>>
    BY DEF PodAdded, cniVars
<1>2. /\ podq'[p] = Tail(podq[p]) /\ store'[p] = {e.node} /\ j.pod = p /\ j.node = e.node
      /\ \A q \in PodName \ {p} : podq'[q] = podq[q] /\ store'[q] = store[q]
    BY <1>1 DEF LifeInv, IPAMInv, TypeOK, APITypeOK
<1>3. container = {}
    BY <1>1 DEF LifeInv, IPAMInv, JobShape
<1> HIDE DEF j
<1>4. /\ \A q \in PodName \ {p} : Alike(q)
      /\ \A n \in NS : Lists(n)' \subseteq Lists(n)
      /\ Work(p) = {} /\ Named(p)' = Named(p)
      /\ JobOf(p)' = job' /\ Work(p)' = container'
      /\ UNCHANGED <<apipods, gen, exit, up, restarts>> /\ (FirstLife' <=> FirstLife)
    BY <1>1, <1>2, <1>3, CalledAlike
<1>5. PodsOf(p)' = PodsOf(p) /\ CniOf(p)' = CniOf(p) /\ (InRan(p)' <=> InRan(p))
    BY <1>1 DEF PodsOf, CniOf, InRan
<1>6. Held(p)' = Held(p)
    BY <1>1, <1>3, <1>4, <1>5 DEF Held
<1>7. LifeRight(p) /\ Busy(p) /\ Early(p)
    BY <1>1 DEF LifeInv, Busy, Early
<1>8. EventsRight(p)'
    BY <1>1, <1>2, <1>4, <1>7, EventsTail DEF LifeRight, LifeInv, IPAMInv
<1>9. RanRight(p)'
    BY <1>4, <1>5, <1>7 DEF LifeRight, RanRight
<1>10. FirstRight(p)'
    <2>1. FirstLife => /\ e.node = NoNode /\ Named(p)' = {} /\ PodsOf(p)' = {} /\ CniOf(p)' = {}
                       /\ \A c, d \in Held(p)' : c.cidr = d.cidr /\ c.host = d.host
        BY <1>1, <1>4, <1>5, <1>6, <1>7 DEF LifeRight, FirstRight
    <2> QED BY <1>1, <1>2, <1>4, <2>1 DEF FirstRight
<1>11. MaskRight(p)' /\ Holder(p)'
    BY <1>1, <1>4 DEF MaskRight, Holder
<1>12. LifeRight(p)'
    BY <1>8, <1>9, <1>10, <1>11 DEF LifeRight
<1> QED BY <1>1, <1>4, <1>6, <1>11, <1>12, EventAssemble

\* PodUpdated.
LEMMA PodUpdatedLife ==
    ASSUME Premises, LifeInv, IPAMInv', NEW p \in PodName, PodUpdated(p)
    PROVE  LifeInv'
<1> DEFINE n == Head(podq[p]).node
<1>1. /\ podpc = "idle" /\ podq[p] # <<>> /\ Head(podq[p]).kind = "set" /\ store[p] # {}
      /\ podq' = [podq EXCEPT ![p] = Tail(podq[p])] /\ store' = [store EXCEPT ![p] = {n}] /\ PodFrame
      /\ UNCHANGED <<vsubnets, vcont, Namespaces, allocated, podpc, job, container, csubnet>>
    BY DEF PodUpdated, podVars
<1>2. \/ \E c \in Pods : c.pod = p /\ PutSucceeds(n, c) /\ Pods' = Pods \ {c}
      \/ UNCHANGED <<cni, ran, Pods>>
    BY DEF PodUpdated, PutFails, cniVars
<1>3. /\ podq'[p] = Tail(podq[p]) /\ store'[p] = {n}
      /\ \A q \in PodName \ {p} : podq'[q] = podq[q] /\ store'[q] = store[q]
    BY <1>1 DEF LifeInv, IPAMInv, TypeOK, APITypeOK
<1>4. PodRight(p) /\ LifeRight(p) /\ Busy(p) /\ job = {} /\ container = {}
    BY <1>1 DEF LifeInv, IPAMInv, Busy, JobShape
<1>5. n \in {NoNode, apipods[p].node}
    BY <1>1, <1>4, QueueTail DEF LifeInv, IPAMInv, PodRight
<1> HIDE DEF n
<1>6. /\ \A e \in cni \cup cni' : e.cont.pod # p => e \in cni /\ e \in cni'
      /\ \A d \in Pods \cup Pods' : d.pod # p => d \in Pods /\ d \in Pods'
      /\ \A d \in ran \cup ran' : d.pod # p => d \in ran /\ d \in ran'
      /\ PodsOf(p)' \subseteq PodsOf(p)
      /\ \/ \E c \in PodsOf(p) : CniOf(p)' = {[node |-> apipods[p].node, cont |-> c]}
         \/ PodsOf(p)' = PodsOf(p) /\ CniOf(p)' = CniOf(p) /\ (InRan(p)' <=> InRan(p))
    <2>1. ASSUME NEW c \in Pods, c.pod = p, PutSucceeds(n, c), Pods' = Pods \ {c}
          PROVE  <1>6!:
        <3>1. /\ \A e \in cni \cup cni' : e.cont.pod # p => e \in cni /\ e \in cni'
              /\ CniOf(p)' = {[node |-> apipods[p].node, cont |-> c]}
            BY <1>4, <1>5, <2>1, PutEffect DEF PodRight
        <3>2. c \in PodsOf(p) /\ PodsOf(p)' \subseteq PodsOf(p) /\ ran' = ran \cup {c}
            BY <2>1 DEF PodsOf, PutSucceeds
        <3> QED BY <2>1, <3>1, <3>2
    <2>2. ASSUME UNCHANGED <<cni, ran, Pods>>
          PROVE  <1>6!:
        BY <2>2 DEF PodsOf, CniOf, InRan
    <2> QED BY <1>2, <2>1, <2>2
<1>7. /\ \A q \in PodName \ {p} : Alike(q)
      /\ \A m \in NS : Lists(m)' \subseteq Lists(m)
      /\ Work(p) = {} /\ Named(p)' = Named(p) /\ JobOf(p) = {}
      /\ JobOf(p)' = job' /\ Work(p)' = container'
      /\ UNCHANGED <<apipods, gen, exit, up, restarts>> /\ (FirstLife' <=> FirstLife)
    BY <1>1, <1>3, <1>4, <1>6, CalledAlike
<1>8. EventsRight(p)'
    BY <1>1, <1>3, <1>4, <1>7, EventsTail DEF LifeRight, LifeInv, IPAMInv
<1>9. Holder(p)' /\ store'[p] # {} /\ JobOf(p)' = {}
    BY <1>1, <1>3, <1>4, <1>7, <1>8 DEF EventsRight, Holder
<1>10. RanRight(p)'
    <2>1. apipods[p].uid # 0
        BY <1>1, <1>4 DEF PodRight, BornRight
    <2> QED BY <1>4, <1>6, <1>7, <2>1 DEF LifeRight, RanRight
<1>11. Held(p)' \subseteq Held(p) /\ (Held(p)' = Held(p) \/ \E c \in Held(p) : c \in Held(p)')
    <2>1. CASE PodsOf(p)' = PodsOf(p) /\ CniOf(p)' = CniOf(p)
        BY <1>1, <1>4, <1>7, <2>1 DEF Held
    <2>2. ASSUME NEW c \in PodsOf(p), CniOf(p)' = {[node |-> apipods[p].node, cont |-> c]}
          PROVE  <1>11!:
        <3>1. {e.cont : e \in CniOf(p)'} = {c}
            BY <2>2
        <3>2. Held(p)' = Named(p)' \cup PodsOf(p)' \cup {c} \cup Work(p)'
            BY <3>1 DEF Held
        <3> QED BY <1>1, <1>4, <1>6, <1>7, <3>2 DEF Held
    <2> QED BY <1>6, <2>1, <2>2
<1>12. FirstRight(p)'
    BY <1>4, <1>7, <1>9, <1>11 DEF LifeRight, FirstRight, Early
<1>13. Sound => MaskRight(p)'
    BY <1>1, <1>4, <1>6, <1>7, <1>9 DEF LifeRight, MaskRight
<1>14. FirstLife => \A c \in Held(p) : \E d \in Held(p)' : d.cidr = c.cidr /\ d.host = c.host
    BY <1>4, <1>11 DEF LifeRight, FirstRight
<1>15. LifeRight(p)'
    BY <1>8, <1>10, <1>12, <1>13 DEF LifeRight
<1> QED BY <1>1, <1>7, <1>9, <1>14, <1>15, EventAssemble

\* PodDeleted, first part.
LEMMA PodDeletedGetLife ==
    ASSUME Premises, LifeInv, IPAMInv', NEW p \in PodName, PodDeletedGet(p)
    PROVE  LifeInv'
<1> DEFINE n == Head(podq[p]).node
           j == [pod |-> p, uid |-> Head(podq[p]).uid, node |-> n]
<1>1. /\ podpc = "idle" /\ podq[p] # <<>> /\ Head(podq[p]).kind = "del"
      /\ podq' = [podq EXCEPT ![p] = Tail(podq[p])] /\ store' = [store EXCEPT ![p] = {}] /\ PodFrame
      /\ job' = {j} /\ j.pod = p
      /\ UNCHANGED <<vsubnets, vcont, cni, ran, Namespaces, allocated, Pods, csubnet>>
    BY DEF PodDeletedGet, cniVars
<1>2. \/ \E c \in CniGet(n, p) : container' = {c} /\ podpc' = "release"
      \/ container' = container /\ podpc' = "delfetch" /\ (CniGet(n, p) = {} \/ "get" \in Faults)
    BY DEF PodDeletedGet
<1>3. /\ podq'[p] = Tail(podq[p]) /\ store'[p] = {}
      /\ \A q \in PodName \ {p} : podq'[q] = podq[q] /\ store'[q] = store[q]
    BY <1>1 DEF LifeInv, IPAMInv, TypeOK, APITypeOK
<1>4. PodRight(p) /\ LifeRight(p) /\ Busy(p) /\ container = {}
    BY <1>1 DEF LifeInv, IPAMInv, Busy, JobShape
<1>5. podq'[p] = <<>> /\ store[p] # {}
    BY <1>1, <1>3, <1>4, QueueTail DEF LifeInv, IPAMInv, PodRight, QueueRight
<1> HIDE DEF j, n
<1>6. \A c \in container' : c.pod = p /\ \E e \in CniOf(p) : c = e.cont
    BY <1>2, <1>4 DEF CniGet, CniOf
<1>7. /\ \A q \in PodName \ {p} : Alike(q)
      /\ \A m \in NS : Lists(m)' \subseteq Lists(m)
      /\ Work(p) = {} /\ Named(p)' = Named(p) /\ JobOf(p) = {}
      /\ JobOf(p)' = job' /\ Work(p)' = container'
      /\ UNCHANGED <<apipods, gen, exit, up, restarts>> /\ (FirstLife' <=> FirstLife)
    BY <1>1, <1>3, <1>6, CalledAlike
<1>8. PodsOf(p)' = PodsOf(p) /\ CniOf(p)' = CniOf(p) /\ (InRan(p)' <=> InRan(p))
    BY <1>1 DEF PodsOf, CniOf, InRan
<1>9. Held(p)' = Held(p)
    BY <1>6, <1>7, <1>8 DEF Held
<1>10. EventsRight(p)' /\ n = apipods[p].node
    BY <1>1, <1>3, <1>4, <1>7, EventsTail DEF LifeRight, LifeInv, IPAMInv, n
<1>11. RanRight(p)'
    BY <1>4, <1>7, <1>8 DEF LifeRight, RanRight
<1>12. podpc' \in {"release", "delfetch"} /\ JobOf(p)' # {}
    BY <1>1, <1>2, <1>7
<1>13. FirstRight(p)'
    BY <1>4, <1>5, <1>7, <1>9, <1>12 DEF LifeRight, FirstRight, Early, Creating, Between
<1>14. Sound => MaskRight(p)'
    <2>1. CniGet(n, p) = {} => CniOf(p) = {}
        <3>1. \A e \in CniOf(p) : e \in cni /\ e.cont.pod = p /\ e.node = n
            BY <1>4, <1>10 DEF PodRight, PlacesRight, CniOf
        <3> QED BY <3>1 DEF CniGet
    <2>2. Sound => Named(p) # {} \/ CniOf(p) # {}
        BY <1>4, <1>5, <1>7 DEF LifeRight, MaskRight
    <2>3. Sound => "get" \notin Faults
        BY DEF Sound
    <2> QED BY <1>2, <1>3, <1>7, <1>8, <2>1, <2>2, <2>3 DEF MaskRight
<1>15. Holder(p)'
    BY <1>12 DEF Holder
<1>16. LifeRight(p)'
    BY <1>10, <1>11, <1>13, <1>14 DEF LifeRight
<1> QED BY <1>1, <1>7, <1>9, <1>15, <1>16, EventAssemble

\* What a change of a pod in the cluster has to show.
LEMMA ClusterLife ==
    ASSUME LifeInv, IPAMInv', NEW p \in PodName, ClusterFrame,
           \A q \in PodName \ {p} : apipods'[q] = apipods[q] /\ podq'[q] = podq[q],
           Alike(p) \/ (UNCHANGED <<store, podpc, JobOf(p), Named(p), PodsOf(p), CniOf(p), Work(p), InRan(p), FirstLife>>
                            => LifeRight(p)'),
           FirstLife => Holder(p)' \/ Held(p) = {}
    PROVE  LifeInv'
<1>1. /\ UNCHANGED <<vsubnets, vcont, cni, ran, store, Namespaces, allocated, gen, Pods, podpc, job, container>>
      /\ UNCHANGED <<csubnet, nsjob, nssubnets, up, exit, restarts>>
    BY DEF ClusterFrame, vsdVars, cniVars, ipamVars, podVars, nsVars, procVars
<1>2. \A q \in PodName : /\ Named(q)' = Named(q) /\ PodsOf(q)' = PodsOf(q) /\ CniOf(q)' = CniOf(q)
                         /\ Work(q)' = Work(q) /\ JobOf(q)' = JobOf(q) /\ InRan(q)' = InRan(q)
    BY <1>1 DEF Named, PodsOf, CniOf, Work, JobOf, InRan
<1>3. FirstLife' = FirstLife
    BY <1>1 DEF FirstLife
<1>4. \A q \in PodName \ {p} : Alike(q)
    BY <1>1, <1>2, <1>3 DEF Alike
<1>5. Held(p)' = Held(p)
    BY <1>2 DEF Held
<1>6. LifeRight(p)'
    BY <1>1, <1>2, <1>3, AlikeRight DEF LifeInv
<1>7. \A n \in NS : Lists(n)' \subseteq Lists(n)
    BY <1>1 DEF Lists
<1>8. \A x \in PodName \cap {p} : LifeRight(x)' /\ (FirstLife => \A c \in Held(x) : Keeps(x, c))
    BY <1>5, <1>6 DEF Keeps
<1>9. AllWhole' <=> AllWhole
    BY <1>1 DEF AllWhole
<1> QED BY <1>1, <1>3, <1>4, <1>7, <1>8, <1>9, LifeAssemble DEF LifeInv

\* CreatePod.
LEMMA CreatePodLife ==
    ASSUME Premises, LifeInv, IPAMInv', NEW p \in PodName, CreatePod(p)
    PROVE  LifeInv'
<1> DEFINE e == [kind |-> "set", uid |-> apipods'[p].uid, node |-> apipods'[p].node]
<1>1. apipods \in [PodName -> [live : BOOLEAN, uid : 0 .. MaxUID, node : Where]] /\ MaxUID = 1
    BY DEF LifeInv, IPAMInv, TypeOK, APITypeOK, Premises
<1>2. apipods[p].uid = 0
    <2>1. apipods[p].uid \in 0 .. MaxUID /\ apipods[p].uid < MaxUID
        BY <1>1 DEF CreatePod
    <2> QED BY <1>1, <2>1
<1>3. /\ apipods'[p].live /\ apipods'[p].uid = 1 /\ apipods'[p].node = NoNode
      /\ \A q \in PodName \ {p} : apipods'[q] = apipods[q]
    BY <1>1, <1>2 DEF CreatePod
<1>4. /\ e \in PodEvent /\ podq[p] \in PodQueue /\ podq'[p] = IF up THEN Append(podq[p], e) ELSE podq[p]
      /\ \A q \in PodName \ {p} : podq'[q] = podq[q]
    <2>1. apipods'[p].uid \in UID /\ apipods'[p].node \in Where
        BY <1>1, <1>3 DEF Where, UID
    <2>2. TypeOK /\ Notify(p, "set")
        BY DEF LifeInv, IPAMInv, CreatePod
    <2> QED BY <2>1, <2>2, NotifyIs
<1>5. e.kind = "set" /\ e.node = NoNode
    BY <1>3
<1>6. ClusterFrame
    BY DEF CreatePod
<1> HIDE DEF e
<1>7. /\ podq[p] = <<>> /\ store[p] = {} /\ JobOf(p) = {}
      /\ Named(p) = {} /\ PodsOf(p) = {} /\ CniOf(p) = {} /\ Work(p) = {} /\ ~InRan(p)
    BY <1>2 DEF LifeInv, IPAMInv, PodRight, BornRight, LifeRight, RanRight
<1>8. Held(p) = {}
    BY <1>7 DEF Held
<1>9. /\ \A i \in 1 .. Len(podq'[p]) : podq'[p][i].kind # "del"
      /\ up => podq'[p] # <<>> /\ Head(podq'[p]).node = NoNode
    <2>1. CASE up
        <3>1. podq'[p] # <<>> /\ Len(podq'[p]) = 1 /\ podq'[p][1] = e /\ Head(podq'[p]) = e
            BY <1>4, <1>7, <2>1, PodAppend
        <3> QED BY <1>5, <3>1
    <2>2. CASE ~up
        BY <1>4, <1>7, <2>2
    <2> QED BY <2>1, <2>2
<1>10. ASSUME UNCHANGED <<store, podpc, JobOf(p), Named(p), PodsOf(p), CniOf(p), Work(p), InRan(p), FirstLife>>
       PROVE  LifeRight(p)'
    <2>1. EventsRight(p)' /\ RanRight(p)' /\ MaskRight(p)'
        BY <1>3, <1>7, <1>9, <1>10 DEF EventsRight, RanRight, MaskRight
    <2>2. Held(p)' = {}
        BY <1>7, <1>10 DEF Held
    <2>3. FirstRight(p)'
        BY <1>7, <1>9, <1>10, <2>2 DEF FirstRight, FirstLife
    <2> QED BY <2>1, <2>3 DEF LifeRight
<1> QED BY <1>3, <1>4, <1>6, <1>8, <1>10, ClusterLife

\* SchedulePod and DeletePod: one more event, after those there are.
LEMMA LivePodLife ==
    ASSUME Premises, LifeInv, IPAMInv', NEW p \in PodName, apipods[p].live, NEW k \in {"set", "del"},
           Notify(p, k), ClusterFrame,
           apipods'[p].uid = apipods[p].uid, apipods'[p].live <=> k = "set", apipods'[p].node \in Where,
           \A q \in PodName \ {p} : apipods'[q] = apipods[q]
    PROVE  LifeInv'
<1> DEFINE e == [kind |-> k, uid |-> apipods'[p].uid, node |-> apipods'[p].node]
<1>1. /\ e \in PodEvent /\ podq[p] \in PodQueue /\ podq'[p] = IF up THEN Append(podq[p], e) ELSE podq[p]
      /\ \A q \in PodName \ {p} : podq'[q] = podq[q]
    <2>1. TypeOK /\ apipods'[p].uid \in UID
        BY DEF LifeInv, IPAMInv, TypeOK, APITypeOK
    <2> QED BY <2>1, NotifyIs
<1>2. e.kind = k /\ e.node = apipods'[p].node
    OBVIOUS
<1> HIDE DEF e
<1>3. PodRight(p) /\ LifeRight(p) /\ Holder(p) /\ Busy(p)
    BY DEF LifeInv, IPAMInv, Holder, Busy
<1>4. /\ \A i \in 1 .. Len(podq[p]) : podq[p][i].kind # "del"
      /\ up => store[p] # {} \/ podq[p] # <<>>
    BY <1>3 DEF PodRight, QueueRight
<1>5. ~up => store[p] = {} /\ podq[p] = <<>>
    BY DEF LifeInv, IPAMInv, DownRight
<1>6. up => /\ podq'[p] # <<>> /\ podq'[p][Len(podq'[p])] = e
            /\ \A i \in 1 .. Len(podq'[p]) : podq'[p][i].kind = "del" => podq'[p][i] = e
            /\ store[p] = {} => Head(podq'[p]) = Head(podq[p])
    <2> SUFFICES ASSUME up
                 PROVE  <1>6!2
        OBVIOUS
    <2>1. /\ podq'[p] # <<>> /\ Len(podq[p]) \in Nat /\ Len(podq'[p]) = Len(podq[p]) + 1
          /\ \A i \in 1 .. Len(podq[p]) : podq'[p][i] = podq[p][i]
          /\ podq'[p][Len(podq[p]) + 1] = e
          /\ Head(podq'[p]) = IF podq[p] = <<>> THEN e ELSE Head(podq[p])
        BY <1>1, PodAppend
    <2>2. \A i \in 1 .. Len(podq'[p]) : i \in 1 .. Len(podq[p]) \/ i = Len(podq[p]) + 1
        BY <2>1
    <2> QED BY <1>4, <2>1, <2>2
<1>7. ASSUME UNCHANGED <<store, podpc, JobOf(p), Named(p), PodsOf(p), CniOf(p), Work(p), InRan(p), FirstLife>>
      PROVE  LifeRight(p)'
    <2>1. EventsRight(p)'
        <3>1. CASE up
            BY <1>2, <1>6, <3>1 DEF EventsRight
        <3>2. CASE ~up
            BY <1>1, <1>5, <1>7, <3>2 DEF EventsRight
        <3> QED BY <3>1, <3>2
    <2>2. RanRight(p)' /\ (Sound => MaskRight(p)')
        BY <1>3, <1>7 DEF LifeRight, RanRight, MaskRight
    <2>3. Held(p)' = Held(p)
        BY <1>7 DEF Held
    <2>4. FirstRight(p)'
        BY <1>3, <1>4, <1>6, <1>7, <2>3 DEF LifeRight, FirstRight, FirstLife, Early
    <2> QED BY <2>1, <2>2, <2>4 DEF LifeRight
<1>8. FirstLife => Holder(p)'
    BY <1>6 DEF FirstLife, Holder
<1> QED BY <1>1, <1>7, <1>8, ClusterLife

\* The cluster's pods.
LEMMA ClusterPodsLife ==
    ASSUME Premises, LifeInv, IPAMInv', NEW p \in PodName,
           CreatePod(p) \/ DeletePod(p) \/ \E n \in Node : SchedulePod(p, n)
    PROVE  LifeInv'
<1>1. apipods \in [PodName -> [live : BOOLEAN, uid : 0 .. MaxUID, node : Where]]
    BY DEF LifeInv, IPAMInv, TypeOK, APITypeOK
<1>2. CASE CreatePod(p)
    BY <1>2, CreatePodLife
<1>3. CASE DeletePod(p)
    <2>1. /\ apipods[p].live /\ Notify(p, "del") /\ ClusterFrame
          /\ apipods'[p].uid = apipods[p].uid /\ ~apipods'[p].live /\ apipods'[p].node \in Where
          /\ \A q \in PodName \ {p} : apipods'[q] = apipods[q]
        BY <1>1, <1>3 DEF DeletePod
    <2> QED BY <2>1, LivePodLife
<1>4. ASSUME NEW n \in Node, SchedulePod(p, n)
      PROVE  LifeInv'
    <2>1. /\ apipods[p].live /\ Notify(p, "set") /\ ClusterFrame
          /\ apipods'[p].uid = apipods[p].uid /\ apipods'[p].live /\ apipods'[p].node \in Where
          /\ \A q \in PodName \ {p} : apipods'[q] = apipods[q]
        BY <1>1, <1>4 DEF SchedulePod, Where
    <2> QED BY <2>1, LivePodLife
<1> QED BY <1>2, <1>3, <1>4

----------------------------------------------------------------------------
(* Namespaces *)

\* What a step has to show that touches no pod and reserves nothing.
LEMMA NoPodLife ==
    ASSUME LifeInv, IPAMInv',
           UNCHANGED <<vsubnets, vcont, cni, ran, apipods, podq, store, allocated, gen, Pods, podpc, job,
                       container, up, exit, restarts>>,
           \A n \in NS : Lists(n)' \subseteq Lists(n)
    PROVE  LifeInv'
<1>1. \A q \in PodName \ {} : Alike(q)
    BY DEF Alike, Named, PodsOf, CniOf, Work, JobOf, InRan, FirstLife
<1>2. (AllWhole' <=> AllWhole) /\ (FirstLife' <=> FirstLife)
    BY DEF AllWhole, FirstLife
<1>3. \A q \in PodName \cap {} : LifeRight(q)' /\ \A c \in Held(q) : Keeps(q, c)
    OBVIOUS
<1> QED BY <1>1, <1>2, <1>3, LifeAssemble DEF LifeInv

\* The steps of the namespace controller that reserve nothing, and the
\* cluster's namespaces.
LEMMA NsQuietLife ==
    ASSUME Premises, LifeInv, IPAMInv',
           \/ \E n \in NS : NsAdded(n) \/ NamespaceDeleted(n) \/ CreateNs(n) \/ DeleteNs(n)
           \/ ZoneFetchByName \/ ZoneCreate
    PROVE  LifeInv'
<1>1. /\ UNCHANGED <<vsubnets, vcont, cni, ran, apipods, podq, store, Namespaces, allocated, gen, Pods, podpc, job>>
      /\ UNCHANGED <<container, csubnet, podNsZone, up, exit, restarts>>
    BY DEF NsAdded, NamespaceDeleted, CreateNs, DeleteNs, ZoneFetchByName, ZoneCreate, NsFrame, ClusterFrame,
           vsdVars, cniVars, apiVars, ipamVars, podVars, procVars
<1>2. nssubnets' = {} \/ UNCHANGED <<nsjob, nssubnets>>
    BY DEF NsAdded, NamespaceDeleted, CreateNs, DeleteNs, ZoneFetchByName, ZoneCreate, ClusterFrame,
           nsVars, NsGoto, NsReturn, LifeInv, IPAMInv, NsRight
<1>3. \A n \in NS : Lists(n)' \subseteq Lists(n)
    BY <1>1, <1>2 DEF Lists
<1> QED BY <1>1, <1>3, NoPodLife

\* PublishNamespace: what was about to be in the list is in it.
LEMMA PublishLife ==
    ASSUME Premises, LifeInv, IPAMInv', PublishNamespace
    PROVE  LifeInv'
<1>1. PICK n \in nsjob : Namespaces' = [Namespaces EXCEPT ![n] = [exists |-> TRUE, subnets |-> nssubnets]]
    BY DEF PublishNamespace
<1>2. /\ up /\ nsjob' = {} /\ nssubnets' = {}
      /\ UNCHANGED <<vsubnets, vcont, cni, ran, apipods, podq, store, allocated, gen, Pods, podpc, job>>
      /\ UNCHANGED <<container, csubnet, up, exit, restarts>>
    BY DEF PublishNamespace, NsReturn, NsFrame, vsdVars, cniVars, apiVars, podVars, procVars
<1>3. n \in NS /\ nsjob = {n} /\ Lists(n) = nssubnets /\ \A j \in job : PodNS[j.pod] = n => csubnet = {}
    BY <1>2, Unpublished DEF LifeInv
<1>4. Namespaces'[n] = [exists |-> TRUE, subnets |-> nssubnets] /\ \A m \in NS : m # n => Namespaces'[m] = Namespaces[m]
    BY <1>1, <1>3 DEF LifeInv, IPAMInv, TypeOK, CacheTypeOK
<1>5. \A m \in NS : Lists(m)' \subseteq Lists(m)
    <2>1. ASSUME NEW m \in NS, m # n
          PROVE  Lists(m)' \subseteq Lists(m)
        BY <1>2, <1>4, <2>1 DEF Lists
    <2>2. Lists(n)' \subseteq Lists(n)
        BY <1>2, <1>3, <1>4 DEF Lists
    <2> QED BY <2>1, <2>2
<1> QED BY <1>2, <1>5, NoPodLife

\* A slot that Zone.Subnets reserves is one of a container in the zone.
LEMMA LoadedIs ==
    ASSUME NEW cs, NEW g, NEW x \in LoadedSlots(cs, g)
    PROVE  x.gen = g /\ x.cidr \in cs /\ \E w \in vcont : w.cidr = x.cidr
<1>1. PICK c \in cs : x \in ReserveAll({}, [cidr |-> c, gen |-> g], ContainerInterfaces(c))
    BY DEF LoadedSlots
<1>2. PICK h \in ContainerInterfaces(c) : x = Slot([cidr |-> c, gen |-> g], h)
    BY <1>1 DEF ReserveAll
<1>3. x.gen = g /\ x.cidr = c
    BY <1>2 DEF Slot
<1>4. \E w \in vcont : w.cidr = c
    BY <1>2 DEF ContainerInterfaces
<1> QED BY <1>3, <1>4

\* Zone.Subnets: the first process has made no container in a namespace that
\* it has not published.
LEMMA ZoneSubnetsLife ==
    ASSUME Premises, LifeInv, IPAMInv', ZoneSubnets
    PROVE  LifeInv'
<1> DEFINE new(c) == [cidr |-> c, gen |-> gen + 1, customed |-> Customed(c)]
<1>1. PICK n \in nsjob : \E cs \in SUBSET ZonePrefixes(n) : \E slots \in SUBSET LoadedSlots(cs, gen + 1) :
        \/ nssubnets' = {new(c) : c \in cs} /\ gen' = gen + 1 /\ allocated' = allocated \cup slots
        \/ nssubnets' = {} /\ allocated' = allocated /\ gen' = gen
    BY ZoneSubnetsIs
<1>1a. PICK cs \in SUBSET ZonePrefixes(n) : \E slots \in SUBSET LoadedSlots(cs, gen + 1) :
        \/ nssubnets' = {new(c) : c \in cs} /\ gen' = gen + 1 /\ allocated' = allocated \cup slots
        \/ nssubnets' = {} /\ allocated' = allocated /\ gen' = gen
    BY <1>1
<1>cs. PICK slots \in SUBSET LoadedSlots(cs, gen + 1) :
        \/ nssubnets' = {new(c) : c \in cs} /\ gen' = gen + 1 /\ allocated' = allocated \cup slots
        \/ nssubnets' = {} /\ allocated' = allocated /\ gen' = gen
    BY <1>1a
<1>2. /\ up /\ nsjob' = nsjob
      /\ UNCHANGED <<vsubnets, vcont, cni, ran, apipods, podq, store, Namespaces, Pods, podpc, job>>
      /\ UNCHANGED <<container, csubnet, up, exit, restarts>>
    BY DEF ZoneSubnets, NsGoto, NsFrame, vsdVars, cniVars, apiVars, podVars, procVars
<1>3. /\ n \in NS /\ nsjob = {n} /\ Namespaces[n].exists = FALSE /\ Namespaces[n].subnets = {}
      /\ \A j \in job : PodNS[j.pod] = n => csubnet = {}
    BY <1>2, Unpublished DEF LifeInv
<1>4. Lists(n)' = nssubnets' /\ \A m \in NS : m # n => Lists(m)' = Lists(m)
    BY <1>2, <1>3 DEF Lists
<1>5. gen \in Nat /\ (gen' = gen \/ gen' = gen + 1)
    BY <1>cs DEF LifeInv, IPAMInv, TypeOK, CacheTypeOK
<1>6. \A s \in nssubnets' : s.gen = gen + 1 /\ gen' = gen + 1
    BY <1>cs
<1>7. \A q \in PodName : Alike(q)
    BY <1>2 DEF Alike, Named, PodsOf, CniOf, Work, JobOf, InRan, FirstLife
<1>8. \A q \in PodName : LifeRight(q)' /\ (Holder(q)' <=> Holder(q)) /\ Held(q)' = Held(q)
    BY <1>7, AlikeRight DEF LifeInv
<1>9. \A c \in ZonePrefixes(n) : \E t \in vsubnets : t.cidr = c /\ t.zone = n
    BY DEF ZonePrefixes
<1>10. \A x \in allocated' : x \in allocated \/ (x \in LoadedSlots(cs, gen + 1) /\ gen' = gen + 1)
    BY <1>cs
<1>11. AllocRight'
    <2>1. ASSUME NEW x \in allocated'
          PROVE  x.gen <= gen' /\ \E t \in vsubnets : t.cidr = x.cidr
        <3>1. CASE x \in allocated
            <4>1. x.gen \in Nat /\ x.gen <= gen /\ \E t \in vsubnets : t.cidr = x.cidr
                BY <3>1 DEF LifeInv, AllocRight, IPAMInv, TypeOK, CacheTypeOK
            <4> QED BY <1>5, <4>1
        <3>2. CASE x \in LoadedSlots(cs, gen + 1) /\ gen' = gen + 1
            <4>1. x.gen = gen + 1 /\ x.cidr \in cs
                BY <3>2, LoadedIs
            <4> QED BY <1>5, <1>9, <3>2, <4>1
        <3> QED BY <1>10, <3>1, <3>2
    <2>2. ASSUME NEW m \in NS, NEW s \in Lists(m)'
          PROVE  s.gen <= gen'
        <3>1. CASE m = n
            BY <1>4, <1>5, <1>6, <3>1
        <3>2. CASE m # n
            <4>1. s \in Lists(m)
                BY <1>4, <3>2
            <4>2. s.gen <= gen
                BY <4>1 DEF LifeInv, AllocRight
            <4>3. s \in Subnet
                BY <4>1 DEF Lists, LifeInv, IPAMInv, TypeOK, CacheTypeOK, WorkerTypeOK
            <4>4. s.gen \in Nat
                BY <4>3 DEF Subnet
            <4> QED BY <1>5, <4>2, <4>4
        <3> QED BY <3>1, <3>2
    <2> QED BY <1>2, <2>1, <2>2 DEF AllocRight
<1>12. FirstLife => allocated' = allocated
    <2> SUFFICES ASSUME FirstLife
                 PROVE  LoadedSlots(cs, gen + 1) = {}
        BY <1>cs
    <2> SUFFICES ASSUME NEW x \in LoadedSlots(cs, gen + 1)
                 PROVE  FALSE
        OBVIOUS
    <2>1. PICK w \in vcont : w.cidr \in cs
        BY LoadedIs
    <2>2. w.pod \in PodName /\ w \in Named(w.pod)
        BY DEF Named, LifeInv, IPAMInv, TypeOK, VSDTypeOK, Container
    <2>3. PodRight(w.pod)
        BY <2>2 DEF LifeInv, IPAMInv
    <2> DEFINE v == [cidr |-> w.cidr, zone |-> PodNS[w.pod]]
    <2>4. v \in vsubnets /\ v.cidr = w.cidr /\ v.zone = PodNS[w.pod]
        BY <2>2, <2>3 DEF PodRight, PlacesRight
    <2> HIDE DEF v
    <2>5. PodNS[w.pod] = n
        BY <1>9, <2>1, <2>4 DEF LifeInv, IPAMInv, CustomedInv, PrefixesUnique
    <2>6. ~Exists(w.pod)
        BY <1>3, <2>5 DEF Exists
    <2> QED BY <2>2, <2>3, <2>6 DEF PodRight, NoNamespaceRight
<1>13. ASSUME "leftover" \notin Faults
       PROVE  AllWhole' /\ Owned'
    <2>1. AllWhole'
        BY <1>2, <1>13 DEF LifeInv, AllWhole
    <2>2. ASSUME FirstLife', NEW m \in NS, NEW s \in Lists(m)', NEW h \in Host, Slot(s, h) \in allocated'
          PROVE  \E p \in PodName : Holder(p)' /\ \E c \in Held(p)' : c.cidr = s.cidr /\ c.host = h
        <3>1. FirstLife /\ Slot(s, h) \in allocated /\ Slot(s, h).gen = s.gen
            BY <1>2, <1>12, <2>2 DEF FirstLife, Slot
        <3>2. s.gen <= gen
            BY <3>1 DEF LifeInv, AllocRight
        <3>3. m # n
            BY <1>4, <1>5, <1>6, <2>2, <3>2
        <3> QED BY <1>4, <1>8, <1>13, <2>2, <3>1, <3>3 DEF LifeInv, Owned
    <2> QED BY <2>1, <2>2 DEF Owned
<1> QED BY <1>2, <1>8, <1>11, <1>13 DEF LifeInv

----------------------------------------------------------------------------
(* CNI plugins and the process *)

\* A plugin removes a container that reached a node: the agent server has it
\* as long as the agent has something to do for the pod.
LEMMA PluginLife ==
    ASSUME Premises, LifeInv, IPAMInv', PluginRemove \/ PluginLeftover
    PROVE  LifeInv'
<1>1. /\ UNCHANGED <<vsubnets, cni, ran, apipods, podq, store, Namespaces, allocated, gen, Pods, podpc, job>>
      /\ UNCHANGED <<container, csubnet, nsjob, nssubnets, up, exit, restarts>>
    BY DEF PluginRemove, PluginLeftover, PluginFrame, cniVars, apiVars, qVars, ipamVars, podVars, nsVars, procVars
<1>2. PICK c \in vcont :
        /\ Dead(c)
        /\ \/ [c EXCEPT !.ifs = 1] \in ran /\ vcont' = vcont \ {c}
           \/ "leftover" \in Faults /\ c \in ran /\ vcont' = (vcont \ {c}) \cup {[c EXCEPT !.ifs = 0]}
    BY DEF PluginRemove, PluginLeftover
<1> DEFINE p == c.pod
           d == [c EXCEPT !.ifs = 0]
           e == [c EXCEPT !.ifs = 1]
<1>3. c \in Container /\ p \in PodName
    BY DEF LifeInv, IPAMInv, TypeOK, VSDTypeOK, Container
<1>4. d.pod = p /\ d.cidr = c.cidr /\ d.host = c.host /\ e.pod = p
    BY <1>3 DEF Container
<1> HIDE DEF d, e
<1>5. InRan(p)
    BY <1>2, <1>4 DEF InRan, e
<1> HIDE DEF p
<1>6. /\ c \in Named(p) /\ PodRight(p) /\ LifeRight(p)
      /\ Named(p)' \subseteq Named(p) \cup {d} /\ ("leftover" \notin Faults => Named(p)' \subseteq Named(p))
      /\ \A x \in vcont \cup vcont' : x.pod # p => x \in vcont /\ x \in vcont'
    BY <1>2, <1>3, <1>4 DEF Named, LifeInv, IPAMInv, p, d
<1>7. \A q \in PodName : /\ PodsOf(q)' = PodsOf(q) /\ CniOf(q)' = CniOf(q) /\ InRan(q)' = InRan(q)
                         /\ Work(q)' = Work(q) /\ JobOf(q)' = JobOf(q) /\ FirstLife' = FirstLife
    BY <1>1 DEF PodsOf, CniOf, Work, JobOf, FirstLife, InRan
<1>8. \A q \in PodName \ {p} : Alike(q)
    <2>1. \A q \in PodName \ {p} : Named(q)' = Named(q)
        BY <1>6 DEF Named
    <2> QED BY <1>1, <1>7, <2>1 DEF Alike
<1>9. Busy(p) => CniOf(p) # {}
    BY <1>5, <1>6 DEF LifeRight, RanRight
<1>10. EventsRight(p)' /\ RanRight(p)'
    BY <1>1, <1>3, <1>6, <1>7 DEF LifeRight, EventsRight, RanRight, Busy
<1>11. Held(p)' \subseteq Held(p) \cup {d} /\ c \in Held(p)
    BY <1>3, <1>6, <1>7 DEF Held
<1>12. FirstRight(p)'
    <2>1. FirstLife => ~Early(p)
        BY <1>6 DEF LifeRight, FirstRight
    <2>2. Early(p)' <=> Early(p)
        BY <1>1, <1>3, <1>7 DEF Early
    <2>3. FirstLife => \A x \in Held(p)' : x.cidr = c.cidr /\ x.host = c.host
        BY <1>4, <1>6, <1>11 DEF LifeRight, FirstRight
    <2> QED BY <1>1, <1>3, <1>6, <1>7, <2>1, <2>2, <2>3 DEF LifeRight, FirstRight
<1>13. Sound => MaskRight(p)'
    <2>1. store[p] # {} => Busy(p)
        BY <1>6 DEF LifeRight, EventsRight, Busy
    <2>2. JobOf(p) # {} => Busy(p)
        BY DEF Busy
    <2> QED BY <1>1, <1>3, <1>6, <1>7, <1>9, <2>1, <2>2 DEF LifeRight, MaskRight
<1>14. LifeRight(p)'
    BY <1>10, <1>12, <1>13 DEF LifeRight
<1>15. \A n \in NS : Lists(n)' \subseteq Lists(n)
    BY <1>1 DEF Lists
<1>16. "leftover" \notin Faults => AllWhole'
    BY <1>2 DEF LifeInv, AllWhole
<1>17. FirstLife /\ Holder(p) => \A x \in Held(p) : Keeps(p, x)
    <2> SUFFICES ASSUME FirstLife, Holder(p), NEW x \in Held(p)
                 PROVE  Keeps(p, x)
        OBVIOUS
    <2>1. Holder(p)' /\ Busy(p)
        BY <1>1, <1>3, <1>7 DEF Holder, Busy
    <2>2. PICK y \in CniOf(p) : TRUE
        BY <1>9, <2>1
    <2>3. y.cont \in Held(p) /\ y.cont \in Held(p)'
        BY <1>3, <1>7, <2>2 DEF Held
    <2>4. y.cont.cidr = x.cidr /\ y.cont.host = x.host
        BY <1>6, <2>3 DEF LifeRight, FirstRight
    <2> QED BY <2>1, <2>3, <2>4 DEF Keeps
<1>18. \A q \in PodName \cap {p} : LifeRight(q)' /\ (FirstLife => (Holder(q) => \A x \in Held(q) : Keeps(q, x)))
    BY <1>14, <1>17
<1>19. FirstLife' => FirstLife
    BY <1>3, <1>7
<1> QED BY <1>1, <1>8, <1>15, <1>16, <1>18, <1>19, LifeAssemble DEF LifeInv

\* The process dies.
LEMMA DieLife ==
    ASSUME Premises, LifeInv, IPAMInv', NEW r, Die(r), Sound => r # "IPandMask"
    PROVE  LifeInv'
<1>1. /\ up' = FALSE /\ exit' = r /\ podpc' = "idle" /\ job' = {} /\ allocated' = {}
      /\ Namespaces' = NoNamespaces /\ nsjob' = {}
      /\ store' = [p \in PodName |-> {}] /\ podq' = [p \in PodName |-> <<>>]
      /\ UNCHANGED <<vcont, cni, ran, apipods>>
    BY DEF Die, LoseMemory, vsdVars, cniVars, apiVars
<1>2. ~FirstLife' /\ \A p \in PodName : store'[p] = {} /\ podq'[p] = <<>> /\ JobOf(p)' = {}
    BY <1>1 DEF FirstLife, JobOf
<1>3. ASSUME NEW p \in PodName
      PROVE  LifeRight(p)'
    <2>1. LifeRight(p)
        BY DEF LifeInv
    <2>2. EventsRight(p)'
        <3>1. 1 .. Len(<<>>) = {}
            OBVIOUS
        <3> QED BY <1>2, <3>1 DEF EventsRight
    <2>3. CniOf(p)' = CniOf(p) /\ (InRan(p)' <=> InRan(p)) /\ (Busy(p)' => Busy(p))
        BY <1>1, <1>2 DEF CniOf, InRan, Busy
    <2>4. RanRight(p)'
        BY <1>1, <2>1, <2>3 DEF LifeRight, RanRight
    <2>5. FirstRight(p)' /\ MaskRight(p)'
        BY <1>2 DEF FirstRight, MaskRight
    <2> QED BY <2>2, <2>4, <2>5 DEF LifeRight
<1>4. \A n \in NS : Lists(n)' = {}
    BY <1>1 DEF Lists, NoNamespaces
<1>5. AllocRight' /\ Owned' /\ (AllWhole' <=> AllWhole)
    BY <1>1, <1>2, <1>4 DEF AllocRight, Owned, AllWhole
<1> QED BY <1>1, <1>3, <1>5 DEF LifeInv

\* IPandMask is not called without a container that has its interface.
LEMMA FatalLife ==
    ASSUME LifeInv, Case1Fatal \/ PodDeletedFatal
    PROVE  ~Sound
<1> SUFFICES ASSUME Sound
             PROVE  FALSE
    OBVIOUS
<1>1. AllWhole
    BY DEF LifeInv, Sound
<1>2. CASE Case1Fatal
    BY <1>1, <1>2 DEF Case1Fatal, AllWhole, Named
<1>3. CASE PodDeletedFatal
    <2>1. podpc = "release" /\ \A c \in container : c.ifs # 1
        BY <1>3 DEF PodDeletedFatal
    <2>2. PICK j \in job : TRUE
        BY <2>1 DEF LifeInv, IPAMInv, JobShape
    <2>3. j.pod \in PodName /\ JobOf(j.pod) = {j} /\ Work(j.pod) = container
        BY OneJob DEF LifeInv, IPAMInv
    <2>4. Work(j.pod) # {}
        BY <2>1, <2>3 DEF LifeInv, LifeRight, MaskRight
    <2>5. \A c \in Work(j.pod) : c.ifs = 1
        BY <2>3 DEF LifeInv, IPAMInv, PodRight, PlacesRight
    <2> QED BY <2>1, <2>3, <2>4, <2>5
<1> QED BY <1>2, <1>3

\* A new process.
LEMMA RestartLife ==
    ASSUME Premises, LifeInv, IPAMInv', Restart
    PROVE  LifeInv'
<1> DEFINE e(p) == [kind |-> "set", uid |-> apipods[p].uid, node |-> apipods[p].node]
<1>1. /\ ~up /\ up' = TRUE /\ restarts' = restarts + 1 /\ exit' = ""
      /\ podq' = [p \in PodName |-> IF apipods[p].live THEN <<e(p)>> ELSE <<>>]
      /\ UNCHANGED <<vsubnets, vcont, cni, ran, apipods, store, Namespaces, allocated, gen, job, csubnet>>
      /\ UNCHANGED <<nsjob, nssubnets>>
    BY DEF Restart, vsdVars, cniVars, apiVars, ipamVars, podVars, nsVars
<1>2. job = {} /\ \A p \in PodName : store[p] = {}
    BY <1>1 DEF LifeInv, IPAMInv, DownRight
<1>3. ~FirstLife'
    <2>1. restarts \in Nat
        BY BoundAssumption DEF LifeInv, IPAMInv, TypeOK, ProcessTypeOK
    <2>2. restarts' = restarts + 1
        BY DEF Restart
    <2>3. restarts' # 0
        BY <2>1, <2>2
    <2> QED BY <2>3 DEF FirstLife
<1>4. ASSUME NEW p \in PodName
      PROVE  /\ CniOf(p)' = CniOf(p) /\ (InRan(p)' <=> InRan(p)) /\ JobOf(p)' = {} /\ store'[p] = {}
             /\ podq'[p] = IF apipods[p].live THEN <<e(p)>> ELSE <<>>
             /\ e(p).kind = "set"
    BY <1>1, <1>2 DEF CniOf, InRan, JobOf
<1> HIDE DEF e
<1>5. ASSUME NEW p \in PodName
      PROVE  LifeRight(p)'
    <2>1. LifeRight(p)
        BY DEF LifeInv
    <2>2. /\ Len(<<e(p)>>) = 1 /\ <<e(p)>>[1] = e(p) /\ 1 .. Len(<<>>) = {} /\ \A i \in 1 .. 1 : i = 1
        OBVIOUS
    <2>3. EventsRight(p)'
        <3>1. CASE apipods[p].live
            BY <1>1, <1>4, <2>2, <3>1 DEF EventsRight
        <3>2. CASE ~apipods[p].live
            BY <1>1, <1>4, <2>2, <3>2 DEF EventsRight
        <3> QED BY <3>1, <3>2
    <2>4. RanRight(p)'
        BY <1>1, <1>4, <2>1 DEF LifeRight, RanRight, Busy
    <2>5. FirstRight(p)' /\ MaskRight(p)'
        BY <1>3, <1>4 DEF FirstRight, MaskRight
    <2> QED BY <2>3, <2>4, <2>5 DEF LifeRight
<1>6. \A n \in NS : Lists(n)' = Lists(n)
    BY <1>1 DEF Lists
<1>7. AllocRight' /\ Owned' /\ (AllWhole' <=> AllWhole)
    BY <1>1, <1>3, <1>6 DEF AllocRight, Owned, AllWhole, LifeInv
<1> QED BY <1>1, <1>5, <1>7 DEF LifeInv

----------------------------------------------------------------------------
(* The theorems *)

\* The agent starts with the invariant.
LEMMA InitLife == Init => LifeInv
<1> SUFFICES ASSUME Init PROVE LifeInv
    OBVIOUS
<1>1. IPAMInv
    BY InitIPAM
<1>2. /\ vcont = {} /\ cni = {} /\ ran = {} /\ Pods = {} /\ container = {} /\ job = {} /\ allocated = {}
      /\ Namespaces = NoNamespaces /\ nsjob = {} /\ exit = ""
      /\ apipods = [p \in PodName |-> [live |-> FALSE, uid |-> 0, node |-> NoNode]]
      /\ podq = [p \in PodName |-> <<>>] /\ store = [p \in PodName |-> {}]
    BY DEF Init, FreshMemory
<1>3. ASSUME NEW p \in PodName
      PROVE  LifeRight(p)
    <2>1. /\ Named(p) = {} /\ CniOf(p) = {} /\ PodsOf(p) = {} /\ Work(p) = {} /\ JobOf(p) = {} /\ ~InRan(p)
          /\ store[p] = {} /\ podq[p] = <<>>
        BY <1>2 DEF Named, CniOf, PodsOf, Work, JobOf, InRan
    <2>2. Held(p) = {}
        BY <2>1 DEF Held
    <2>3. 1 .. Len(<<>>) = {}
        OBVIOUS
    <2>4. EventsRight(p) /\ RanRight(p) /\ FirstRight(p) /\ MaskRight(p)
        BY <2>1, <2>2, <2>3 DEF EventsRight, RanRight, FirstRight, MaskRight
    <2> QED BY <2>4 DEF LifeRight
<1>4. \A n \in NS : Lists(n) = {}
    BY <1>2, NoLists
<1>5. AllocRight /\ AllWhole /\ Owned
    BY <1>2, <1>4 DEF AllocRight, AllWhole, Owned
<1> QED BY <1>1, <1>2, <1>3, <1>5 DEF LifeInv

\* Every step keeps it.
LEMMA LifeStep ==
    ASSUME Premises, LifeInv, [Next]_vars
    PROVE  LifeInv'
<1>1. IPAMInv'
    BY IPAMStep DEF LifeInv
<1>2. CASE UNCHANGED vars
    <2>1. /\ UNCHANGED <<vsubnets, vcont, cni, ran, apipods, podq, store, Namespaces, allocated, gen, Pods, podpc, job>>
          /\ UNCHANGED <<container, csubnet, nsjob, nssubnets, up, exit, restarts>>
        BY <1>2 DEF vars, vsdVars, cniVars, apiVars, qVars, ipamVars, podVars, nsVars, procVars
    <2>2. \A n \in NS : Lists(n)' \subseteq Lists(n)
        BY <2>1 DEF Lists
    <2> QED BY <1>1, <2>1, <2>2, NoPodLife
<1>3. CASE NsNext
    BY <1>1, <1>3, NsQuietLife, ZoneSubnetsLife, PublishLife DEF NsNext
<1>4. CASE PodCreatedStep
    <2>1. Case1Fatal => ~Sound /\ Die("IPandMask")
        BY FatalLife DEF Case1Fatal
    <2>2. Case3NoAddress => Die("nilAddr") /\ "nilAddr" # "IPandMask"
        BY DEF Case3NoAddress
    <2> QED BY <1>1, <1>4, <2>1, <2>2, DieLife, PodAddedLife, WaitNamespaceLife, Case1FetchLife, PutsLife,
               CreateLife, AllocatesLife, AppendLife
            DEF PodCreatedStep
<1>5. CASE PodDeletedStep
    <2>1. PodDeletedFatal => ~Sound /\ Die("IPandMask")
        BY FatalLife DEF PodDeletedFatal
    <2> QED BY <1>1, <1>5, <2>1, DieLife, PodDeletedGetLife, PodDeletedFetchLife, PodDeletedEndLife
            DEF PodDeletedStep
<1>6. CASE \E p \in PodName : PodUpdated(p)
    BY <1>1, <1>6, PodUpdatedLife
<1>7. CASE ClusterNext
    BY <1>1, <1>7, ClusterPodsLife, NsQuietLife DEF ClusterNext
<1>8. CASE PluginRemove \/ PluginLeftover
    BY <1>1, <1>8, PluginLife
<1>9. CASE Crash
    <2>1. Die("crash") /\ "crash" # "IPandMask"
        BY <1>9 DEF Crash
    <2> QED BY <1>1, <2>1, DieLife
<1>10. CASE Restart
    BY <1>1, <1>10, RestartLife
<1> QED BY <1>2, <1>3, <1>4, <1>5, <1>6, <1>7, <1>8, <1>9, <1>10 DEF Next, PodNext

\* LifeInv is an invariant: what the agent has reserved belongs to a pod it is
\* not finished with, and a pod keeps a container for PodDeleted to find.
THEOREM LifeInvariance ==
    ASSUME Premises
    PROVE  Spec => []LifeInv
<1>1. Init => LifeInv
    BY InitLife
<1>2. LifeInv /\ [Next]_vars => LifeInv'
    BY LifeStep
<1> QED BY <1>1, <1>2, PTL DEF Spec

\* In the first process, once every event is handled an address is reserved
\* in a cached subnet only for a live pod: PodDeleted gives back what
\* PodCreated took, whichever way it finds the container.
THEOREM Reclamation ==
    ASSUME Premises, "leftover" \notin Faults
    PROVE  Spec => [](restarts = 0 => AddressesReclaimed)
<1>1. LifeInv => (restarts = 0 => AddressesReclaimed)
    <2> SUFFICES ASSUME LifeInv, restarts = 0, podpc = "idle", \A p \in PodName : Settled(p),
                        NEW n \in NS, NEW s \in Namespaces[n].subnets, NEW h \in Host, Slot(s, h) \in allocated
                 PROVE  \E c \in vcont : ~Dead(c) /\ c.cidr = s.cidr /\ c.host = h
        BY DEF AddressesReclaimed
    <2>1. up
        <3>1. ~up => Namespaces[n].subnets = {}
            BY DEF LifeInv, IPAMInv, DownRight, NoNamespaces
        <3> QED BY <3>1 DEF LifeInv, IPAMInv, TypeOK, ProcessTypeOK
    <2>2. PICK p \in PodName : Holder(p) /\ \E c \in Held(p) : c.cidr = s.cidr /\ c.host = h
        <3>1. FirstLife /\ s \in Lists(n)
            BY <2>1 DEF FirstLife, Lists
        <3> QED BY <3>1 DEF LifeInv, Owned
    <2>3. apipods[p].live /\ Work(p) = {}
        BY <2>2 DEF Holder, Settled, JobOf, Work, LifeInv, IPAMInv, JobShape
    <2>4. PICK c \in Held(p) : c.cidr = s.cidr /\ c.host = h
        BY <2>2
    <2>5. c \in Named(p)
        <3>1. LiveRight(p)
            BY DEF LifeInv, IPAMInv, PodRight
        <3> QED BY <2>3, <2>4, <3>1 DEF LiveRight, Held
    <2>6. c \in vcont /\ c.pod = p
        BY <2>5 DEF Named
    <2>7. c.uid \in 1 .. 1 /\ apipods[p].uid \in 1 .. 1
        BY <2>3, <2>6 DEF LifeInv, IPAMInv, TypeOK, VSDTypeOK, APITypeOK, Container, UID, Premises
    <2>8. c.uid = apipods[p].uid
        BY <2>7
    <2> QED BY <2>3, <2>4, <2>6, <2>8 DEF Dead
<1> QED BY <1>1, LifeInvariance, PTL

\* IPandMask is only called on containers that have their interface, as long
\* as no call fails that leaves a pod without its container.
THEOREM MaskCorrect ==
    ASSUME Premises, Sound
    PROVE  Spec => []IPandMaskApplies
<1>1. LifeInv => IPandMaskApplies
    BY DEF LifeInv, IPandMaskApplies
<1> QED BY <1>1, LifeInvariance, PTL
=============================================================================
