----------------------------- MODULE IPAMProofs -----------------------------
(***************************************************************************)
(* Theorems about the addresses of pods: the agent's IPAM agrees with the  *)
(* VSD and two live pods never share an address, for any pods, namespaces, *)
(* nodes, prefixes and labels, under the premises below.                   *)
(*                                                                         *)
(* A container may be known in four places: the VSD, the CNI agent server  *)
(* of a node, Pods, and the handler that is at work on the pod.  The       *)
(* argument is about claims: the containers that the agent may still find  *)
(* in one of these places and then trust.  Every claim of a pod that is    *)
(* not finished with is reserved, and claims of different pods differ.     *)
(***************************************************************************)
EXTENDS K8sAgentProofs

\* Pod names are used once and namespaces created once, and a Create that is
\* carried out is answered.  If there are restarts, no time-out or error leaves
\* a pod without a container, or hides containers from the next process.
\* README section 3 says what happens otherwise.
Premises ==
    /\ MaxUID = 1 /\ MaxNsCreate = 1
    /\ "createReply" \notin Faults
    /\ \/ MaxRestarts = 0
       \/ /\ "nstimeout" \notin Faults /\ "create" \notin Faults /\ "put" \notin Faults
          /\ "cifaces" \notin Faults /\ ~("fetch" \in Faults /\ "leftover" \in Faults)

----------------------------------------------------------------------------
(* What there is of a pod *)

JobOf(p) == {j \in job : j.pod = p}
PodsOf(p) == {c \in Pods : c.pod = p}
CniOf(p) == {e \in cni : e.cont.pod = p}
Work(p) == {c \in container : c.pod = p}

\* A container before it lost its interface.
Whole(c) == [pod |-> c.pod, uid |-> c.uid, cidr |-> c.cidr, host |-> c.host, ifs |-> 1]

Exists(p) == Namespaces[PodNS[p]].exists

FirstLife == up /\ restarts = 0

Creating == {"waitns", "case1", "put1", "case2", "create2", "put2", "case3",
             "addsubnet", "append", "create3", "put3"}
Deleting == {"delfetch", "release", "delcni"}

\* Where PodCreated is between its decision that there is no container and
\* the ContainerPUT of a new one.
Between == {"case2", "create2", "case3", "addsubnet", "append", "create3"}

----------------------------------------------------------------------------
(* The invariant: the controllers *)

DownRight ==
    ~up => /\ job = {} /\ container = {} /\ csubnet = {} /\ Pods = {} /\ Namespaces = NoNamespaces
           /\ nsjob = {} /\ \A p \in PodName : store[p] = {} /\ podq[p] = <<>>

\* A namespace is published once.
NsRight ==
    /\ \A n \in NS :
        /\ Namespaces[n].exists => n \notin nsjob /\ nsq[n] \in {<<>>, <<"del">>} /\ apins[n].count # 0
        /\ ~Namespaces[n].exists => Namespaces[n].subnets = {}
    /\ nspc # "publish" => nssubnets = {}
    /\ \A m, n \in nsjob : m = n

\* The pod controller works on one pod and its locals are about that pod.
JobShape ==
    /\ podpc = "idle" <=> job = {}
    /\ \A i, j \in job : i = j
    /\ (\A c, d \in container : c = d) /\ (\A c \in container : JobOf(c.pod) # {})
    /\ podpc \in {"idle", "waitns", "case1", "case2", "case3", "addsubnet", "delfetch"} => container = {}
    /\ podpc \notin {"create2", "put2", "append", "create3", "put3"} => csubnet = {}
    /\ \A c \in container : \A s \in csubnet : s.cidr = c.cidr
    /\ podpc \in {"addsubnet", "append"} => \A j \in job : podNsZone = CachedSubnets(j.pod)

----------------------------------------------------------------------------
(* The invariant: each pod *)

\* The first event of a pod in the life of a process is an addition and a
\* deletion is the last one.
QueueRight(p) ==
    /\ \A i \in 1 .. Len(podq[p]) :
        /\ podq[p][i].node \in {NoNode, apipods[p].node}
        /\ podq[p][i].kind = "del" => i = Len(podq[p]) /\ ~apipods[p].live
    /\ store[p] = {} /\ podq[p] # <<>> => Head(podq[p]).kind = "set"
    /\ up /\ apipods[p].live => store[p] # {} \/ podq[p] # <<>>

\* A pod that was never created has left no traces.
BornRight(p) ==
    apipods[p].uid = 0 =>
        /\ ~apipods[p].live /\ podq[p] = <<>> /\ store[p] = {} /\ JobOf(p) = {}
        /\ Named(p) = {} /\ PodsOf(p) = {} /\ CniOf(p) = {} /\ Work(p) = {}

TaskRight(p) ==
    \A j \in JobOf(p) :
        /\ j.node \in {NoNode, apipods[p].node}
        /\ podpc \in Creating => store[p] # {} /\ (j.node = NoNode => CniOf(p) = {})
        /\ podpc \in Creating \ {"waitns"} => Exists(p)
        /\ podpc \in Deleting => /\ ~apipods[p].live /\ podq[p] = <<>> /\ store[p] = {}
                                 /\ Exists(p) \/ "nstimeout" \in Faults

\* Without its namespace nothing is done for a pod.
NoNamespaceRight(p) ==
    /\ store[p] # {} => \/ Exists(p) \/ "nstimeout" \in Faults
                        \/ JobOf(p) # {} /\ podpc = "waitns"
    /\ ~Exists(p) => /\ PodsOf(p) = {} /\ Work(p) = {}
                     /\ FirstLife => Named(p) = {} /\ CniOf(p) = {}

\* Containers are in the zone of their pod, the VSD has one per name, and
\* only the node of a pod has its container.
PlacesRight(p) ==
    /\ \A c \in Named(p) \cup PodsOf(p) \cup Work(p) : [cidr |-> c.cidr, zone |-> PodNS[p]] \in vsubnets
    /\ \A c \in PodsOf(p) \cup Work(p) : c.ifs = 1
    /\ \A c, d \in Named(p) : c = d
    /\ "fetch" \in Faults /\ MaxRestarts # 0 => \A c \in Named(p) : c.ifs = 1
    /\ \A e \in CniOf(p) : /\ e.node = apipods[p].node /\ e.cont.ifs = 1
                           /\ [cidr |-> e.cont.cidr, zone |-> PodNS[p]] \in vsubnets

\* What is known of a live pod's container is what the VSD has.
LiveRight(p) ==
    apipods[p].live =>
        /\ \A c \in Named(p) : c.ifs = 1
        /\ \A e \in CniOf(p) : e.cont \in Named(p)
        /\ PodsOf(p) \subseteq Named(p)
        /\ JobOf(p) # {} /\ podpc \in {"put1", "put2", "put3"} => Work(p) \subseteq Named(p)

\* So it is for a pod the process has not dealt with, until PodCreated acts.
UnseenRight(p) ==
    /\ (store[p] = {} /\ podq[p] # <<>>) \/ (JobOf(p) # {} /\ podpc \in {"waitns", "case1"}) =>
        \A c \in Named(p), e \in CniOf(p) : e.cont = Whole(c)
    /\ store[p] = {} /\ podq[p] # <<>> /\ Head(podq[p]).node = NoNode => CniOf(p) = {}

PodRight(p) ==
    /\ QueueRight(p) /\ BornRight(p) /\ TaskRight(p) /\ NoNamespaceRight(p)
    /\ PlacesRight(p) /\ LiveRight(p) /\ UnseenRight(p)

----------------------------------------------------------------------------
(* The invariant: addresses *)

\* The subnets that are, or are about to be, in the list of a namespace.
Lists(n) == Namespaces[n].subnets \cup (IF n \in nsjob THEN nssubnets ELSE {})
            \cup (IF \E j \in job : PodNS[j.pod] = n THEN csubnet ELSE {})

ListsRight ==
    \A n \in NS :
        /\ \A s \in Lists(n) : [cidr |-> s.cidr, zone |-> n] \in vsubnets
        /\ \A s, t \in Lists(n) : s.cidr = t.cidr => s = t

\* The agent is not finished with a pod.
Holder(p) == apipods[p].live \/ podq[p] # <<>> \/ (JobOf(p) # {} /\ podpc # "delcni")

\* What the CNI agent server has of a pod was put there, or found to be
\* right, in the life of this process.
Fresh(p) == FirstLife \/ (store[p] # {} /\ (JobOf(p) # {} => podpc \in Between /\ Named(p) # {}))

Known(p) == {c \in Named(p) : c.ifs = 1} \cup PodsOf(p)
            \cup (IF Fresh(p) THEN {e.cont : e \in CniOf(p)} ELSE {})

Claims(p) == Known(p) \cup Work(p)

Reserved ==
    \A p \in PodName : Holder(p) =>
        \A c \in Claims(p) : \A s \in Lists(PodNS[p]) : s.cidr = c.cidr => Slot(s, c.host) \in allocated

Apart(c, d) == <<c.cidr, c.host>> # <<d.cidr, d.host>>

Unique ==
    \A p, q \in PodName : p # q /\ Holder(p) /\ Holder(q) =>
        \A c \in Claims(p), d \in Claims(q) : Apart(c, d)

\* A container that is about to be created has an address of its own.
NewApart ==
    podpc \in {"create2", "append", "create3"} =>
        \A c \in container : \A d \in Known(c.pod) : Apart(c, d)

IPAMInv ==
    /\ TypeOK /\ CustomedInv /\ DownRight /\ NsRight /\ JobShape
    /\ (\A p \in PodName : PodRight(p))
    /\ ListsRight /\ Reserved /\ Unique /\ NewApart

----------------------------------------------------------------------------
(* Steps that concern few pods *)

\* A step changes nothing of the pods that are not in P.
Local(P) ==
    /\ UNCHANGED <<up, restarts>> /\ vsubnets \subseteq vsubnets'
    /\ \A q \in PodName \ P :
        /\ apipods'[q] = apipods[q] /\ podq'[q] = podq[q] /\ store'[q] = store[q]
        /\ JobOf(q)' = JobOf(q) /\ (JobOf(q) # {} => podpc' = podpc)
        /\ Named(q)' = Named(q) /\ PodsOf(q)' = PodsOf(q) /\ CniOf(q)' = CniOf(q)
        /\ Work(q)' = Work(q) /\ Exists(q)' = Exists(q)

\* Then the invariant of the other pods holds again.
LEMMA LocalPods ==
    ASSUME NEW P, Local(P), NEW q \in PodName \ P, PodRight(q)
    PROVE  PodRight(q)'
<1> USE DEF Local, PodRight
<1>1. QueueRight(q)'
    BY DEF QueueRight
<1>2. BornRight(q)'
    BY DEF BornRight
<1>3. TaskRight(q)'
    BY DEF TaskRight
<1>4. NoNamespaceRight(q)'
    BY DEF NoNamespaceRight, FirstLife
<1>5. PlacesRight(q)'
    BY DEF PlacesRight
<1>6. LiveRight(q)'
    BY DEF LiveRight
<1>7. UnseenRight(q)'
    BY DEF UnseenRight
<1> QED BY <1>1, <1>2, <1>3, <1>4, <1>5, <1>6, <1>7

\* And so their claims stay.
LEMMA LocalClaims ==
    ASSUME NEW P, Local(P), NEW q \in PodName \ P
    PROVE  (Holder(q)' <=> Holder(q)) /\ Known(q)' = Known(q) /\ Claims(q)' = Claims(q)
<1>1. Holder(q)' <=> Holder(q)
    BY DEF Local, Holder
<1>2. Fresh(q)' <=> Fresh(q)
    BY DEF Local, Fresh, FirstLife
<1>3. Known(q)' = Known(q)
    BY <1>2 DEF Local, Known
<1> QED BY <1>1, <1>3 DEF Local, Claims

\* If moreover those in P claim nothing new, the lists get no new subnets, and only
\* addresses that nobody claims are released, then the claims stay reserved
\* and apart.
LEMMA ClaimsShrink ==
    ASSUME Reserved, Unique, NEW P, Local(P),
           \A p \in PodName \cap P :
                Holder(p)' => (Holder(p) /\ Claims(p)' \subseteq Claims(p)) \/ Claims(p)' = {},
           \A n \in NS : Lists(n)' \subseteq Lists(n),
           \A x \in allocated : x \in allocated' \/ \A q \in PodName : Holder(q)' =>
                \A c \in Claims(q)' : x.cidr # c.cidr \/ x.host # c.host
    PROVE  Reserved' /\ Unique'
<1>1. ASSUME NEW q \in PodName, Holder(q)', NEW c \in Claims(q)'
      PROVE  Holder(q) /\ c \in Claims(q)
    BY <1>1, LocalClaims
<1>2. Reserved'
    <2> SUFFICES ASSUME NEW q \in PodName, Holder(q)', NEW c \in Claims(q)',
                        NEW s \in Lists(PodNS[q])', s.cidr = c.cidr
                 PROVE  Slot(s, c.host) \in allocated'
        BY DEF Reserved
    <2>1. Slot(s, c.host) \in allocated
        BY <1>1, PodNSAssumption DEF Reserved
    <2>2. Slot(s, c.host).cidr = c.cidr /\ Slot(s, c.host).host = c.host
        BY DEF Slot
    <2> QED BY <2>1, <2>2
<1>3. Unique'
    BY <1>1 DEF Unique
<1> QED BY <1>2, <1>3

----------------------------------------------------------------------------
(* Steps of the pod controller *)

\* The pod controller has one job.
LEMMA OneJob ==
    ASSUME TypeOK, JobShape, NEW j \in job
    PROVE  /\ job = {j} /\ j.pod \in PodName /\ JobOf(j.pod) = {j} /\ Work(j.pod) = container
           /\ podpc # "idle" /\ \A c \in container : c.pod = j.pod
<1>1. job = {j} /\ podpc # "idle"
    BY DEF JobShape
<1>2. j.pod \in PodName
    BY DEF TypeOK, WorkerTypeOK, Job
<1>3. JobOf(j.pod) = {j} /\ \A c \in container : c.pod = j.pod
    BY <1>1 DEF JobOf, JobShape
<1> QED BY <1>1, <1>2, <1>3 DEF Work

\* What PodFrame leaves alone.
LEMMA PodFrameIs ==
    ASSUME PodFrame
    PROVE  UNCHANGED <<vzones, apipods, apins, nsq, Zones, gen, nspc, nsjob, nssubnets, up, exit, restarts>>
BY DEF PodFrame, apiVars, nsVars, procVars

\* A handler touches nothing of other pods.
LEMMA HandlerLocal ==
    ASSUME NEW p \in PodName, PodFrame, vsubnets \subseteq vsubnets',
           \A j \in job \cup job' : j.pod = p,
           \A c \in container \cup container' : c.pod = p,
           \A q \in PodName \ {p} : podq'[q] = podq[q] /\ store'[q] = store[q] /\ Exists(q)' = Exists(q),
           \A c \in vcont \cup vcont' : c.pod # p => c \in vcont /\ c \in vcont',
           \A c \in Pods \cup Pods' : c.pod # p => c \in Pods /\ c \in Pods',
           \A e \in cni \cup cni' : e.cont.pod # p => e \in cni /\ e \in cni'
    PROVE  Local({p})
<1>1. UNCHANGED <<up, restarts, apipods>>
    BY PodFrameIs
<1>2. ASSUME NEW q \in PodName \ {p}
      PROVE  /\ JobOf(q) = {} /\ JobOf(q)' = {} /\ Work(q) = {} /\ Work(q)' = {}
             /\ Named(q)' = Named(q) /\ PodsOf(q)' = PodsOf(q) /\ CniOf(q)' = CniOf(q)
    <2>1. JobOf(q) = {} /\ JobOf(q)' = {}
        BY DEF JobOf
    <2>2. Work(q) = {} /\ Work(q)' = {}
        BY DEF Work
    <2>3. Named(q)' = Named(q)
        BY DEF Named
    <2>4. PodsOf(q)' = PodsOf(q)
        BY DEF PodsOf
    <2>5. CniOf(q)' = CniOf(q)
        BY DEF CniOf
    <2> QED BY <2>1, <2>2, <2>3, <2>4, <2>5
<1> QED BY <1>1, <1>2 DEF Local

\* What a step that concerns the pods in P has to show.
LEMMA Assemble ==
    ASSUME Premises, IPAMInv, Next, NEW P, Local(P), \A p \in PodName \cap P : PodRight(p)',
           DownRight', NsRight', JobShape', ListsRight', Reserved', Unique', NewApart'
    PROVE  IPAMInv'
<1>1. TypeOK' /\ CustomedInv'
    BY CustomedStep DEF IPAMInv, Premises
<1>2. \A q \in PodName : PodRight(q)'
    BY LocalPods DEF IPAMInv
<1> QED BY <1>1, <1>2 DEF IPAMInv

\* What a handler's step has to show that leaves Namespaces and the subnets
\* in work alone.
LEMMA QuietStep ==
    ASSUME Premises, IPAMInv, Next, up, NEW p \in PodName, Local({p}), PodFrame, Namespaces' = Namespaces,
           csubnet' = {} \/ (csubnet' = csubnet /\ job' = job),
           PodRight(p)', JobShape', NewApart',
           Holder(p)' => (Holder(p) /\ Claims(p)' \subseteq Claims(p)) \/ Claims(p)' = {},
           \A x \in allocated : x \in allocated' \/ \A q \in PodName : Holder(q)' =>
                \A c \in Claims(q)' : x.cidr # c.cidr \/ x.host # c.host
    PROVE  IPAMInv'
<1>1. UNCHANGED <<nsq, apins, nspc, nsjob, nssubnets>>
    BY PodFrameIs
<1>2. NsRight'
    BY <1>1 DEF NsRight, IPAMInv
<1>3. \A n \in NS : Lists(n)' \subseteq Lists(n)
    BY <1>1 DEF Lists
<1>4. ListsRight'
    BY <1>3 DEF ListsRight, IPAMInv, Local
<1>5. Reserved' /\ Unique'
    BY <1>3, ClaimsShrink DEF IPAMInv
<1>6. DownRight'
    BY DEF Local, DownRight
<1> QED BY <1>2, <1>4, <1>5, <1>6, Assemble

\* The first event of a pod's queue and the rest of it.
LEMMA PodTail ==
    ASSUME NEW q \in PodQueue, q # <<>>
    PROVE  /\ Head(q) = q[1] /\ Len(q) \in Nat /\ 1 \in 1 .. Len(q)
           /\ Tail(q) \in PodQueue /\ Len(Tail(q)) = Len(q) - 1
           /\ \A i \in 1 .. Len(Tail(q)) : i + 1 \in 1 .. Len(q) /\ Tail(q)[i] = q[i + 1]
           /\ Len(q) = 1 => Tail(q) = <<>>
<1>1. /\ Head(q) = q[1] /\ Len(q) \in Nat /\ 1 \in 1 .. Len(q)
      /\ Tail(q) \in PodQueue /\ Len(Tail(q)) = Len(q) - 1
      /\ \A i \in 1 .. Len(Tail(q)) : Tail(q)[i] = q[i + 1]
    BY DEF PodQueue
<1>2. \A i \in 1 .. Len(Tail(q)) : i + 1 \in 1 .. Len(q)
    BY <1>1
<1>3. Len(q) = 1 => Tail(q) = <<>>
    <2>1. Len(q) = 1 => Len(Tail(q)) = 0
        BY <1>1
    <2> QED BY <1>1, <2>1, EmptySeq DEF PodQueue
<1> QED BY <1>1, <1>2, <1>3

\* A handler takes the first event of a pod.
LEMMA QueueTail ==
    ASSUME TypeOK, NEW p \in PodName, QueueRight(p), podq[p] # <<>>
    PROVE  /\ Head(podq[p]).node \in {NoNode, apipods[p].node}
           /\ Head(podq[p]).kind = "del" => ~apipods[p].live /\ Tail(podq[p]) = <<>>
           /\ (/\ podq'[p] = Tail(podq[p]) /\ apipods' = apipods /\ up' = up
               /\ store'[p] # {} \/ (podq'[p] = <<>> /\ ~apipods[p].live)) => QueueRight(p)'
<1> DEFINE q == podq[p]
           t == Tail(q)
<1>1. q \in PodQueue
    BY DEF TypeOK, APITypeOK
<1>2. /\ Head(q) = q[1] /\ Len(q) \in Nat /\ 1 \in 1 .. Len(q) /\ Len(t) = Len(q) - 1
      /\ \A i \in 1 .. Len(t) : i + 1 \in 1 .. Len(q) /\ t[i] = q[i + 1]
      /\ Len(q) = 1 => t = <<>>
    BY <1>1, PodTail
<1>3. Head(q).node \in {NoNode, apipods[p].node}
    BY <1>2 DEF QueueRight
<1>4. Head(q).kind = "del" => ~apipods[p].live /\ t = <<>>
    BY <1>2 DEF QueueRight
<1> HIDE DEF t
<1>5. ASSUME podq'[p] = t, apipods' = apipods, up' = up,
             store'[p] # {} \/ (podq'[p] = <<>> /\ ~apipods[p].live)
      PROVE  QueueRight(p)'
    <2>1. ASSUME NEW i \in 1 .. Len(t)
          PROVE  /\ t[i].node \in {NoNode, apipods[p].node}
                 /\ t[i].kind = "del" => i = Len(t) /\ ~apipods[p].live
        <3>1. /\ q[i + 1].node \in {NoNode, apipods[p].node}
              /\ q[i + 1].kind = "del" => i + 1 = Len(q) /\ ~apipods[p].live
            BY <1>2 DEF QueueRight
        <3> QED BY <1>2, <3>1
    <2> QED BY <1>5, <2>1 DEF QueueRight
<1> QED BY <1>3, <1>4, <1>5 DEF t

\* PodAdded.
LEMMA PodAddedStep ==
    ASSUME Premises, IPAMInv, Next, NEW p \in PodName, PodAdded(p)
    PROVE  IPAMInv'
<1> DEFINE e == Head(podq[p])
           j == [pod |-> p, uid |-> e.uid, node |-> e.node]
<1>1. /\ up /\ podpc = "idle" /\ podq[p] # <<>> /\ e.kind = "set" /\ store[p] = {}
      /\ podq' = [podq EXCEPT ![p] = Tail(podq[p])] /\ store' = [store EXCEPT ![p] = {e.node}]
      /\ job' = {j} /\ podpc' = (IF Exists(p) THEN "case1" ELSE "waitns") /\ PodFrame
      /\ UNCHANGED <<vsubnets, vcont, cni, Namespaces, allocated, Pods, container, csubnet, podNsZone>>
    BY DEF PodAdded, Exists, cniVars
<1>2. job = {} /\ container = {} /\ csubnet = {} /\ UNCHANGED <<apipods, up, restarts>>
    BY <1>1, PodFrameIs DEF IPAMInv, JobShape
<1>3. podq'[p] = Tail(podq[p]) /\ store'[p] = {e.node} /\ j.pod = p /\ j.node = e.node
    BY <1>1 DEF IPAMInv, TypeOK, APITypeOK
<1> HIDE DEF j
<1>4. Local({p})
    <2>1. \A q \in PodName \ {p} : podq'[q] = podq[q] /\ store'[q] = store[q] /\ Exists(q)' = Exists(q)
        BY <1>1 DEF IPAMInv, TypeOK, APITypeOK, Exists
    <2> QED BY <1>1, <1>2, <1>3, <2>1, HandlerLocal
<1>5. /\ Named(p)' = Named(p) /\ PodsOf(p)' = PodsOf(p) /\ CniOf(p)' = CniOf(p)
      /\ Work(p) = {} /\ Work(p)' = {} /\ JobOf(p) = {} /\ JobOf(p)' = {j}
      /\ (Exists(p)' <=> Exists(p)) /\ (FirstLife' <=> FirstLife)
    BY <1>1, <1>2, <1>3 DEF Named, PodsOf, CniOf, Work, JobOf, Exists, FirstLife
<1>6. PodRight(p)
    BY DEF IPAMInv
<1>7. PodRight(p)'
    <2>1. QueueRight(p)'
        BY <1>1, <1>2, <1>3, <1>6, QueueTail DEF IPAMInv, PodRight
    <2>2. BornRight(p)'
        BY <1>1, <1>2, <1>6 DEF PodRight, BornRight
    <2>3. TaskRight(p)'
        <3>1. e.node \in {NoNode, apipods[p].node} /\ (e.node = NoNode => CniOf(p) = {})
            BY <1>1, <1>6, QueueTail DEF IPAMInv, PodRight, UnseenRight
        <3> QED BY <1>1, <1>2, <1>3, <1>5, <3>1 DEF TaskRight, Deleting, Creating
    <2>4. NoNamespaceRight(p)' /\ PlacesRight(p)'
        BY <1>1, <1>2, <1>3, <1>5, <1>6 DEF PodRight, NoNamespaceRight, PlacesRight
    <2>5. LiveRight(p)' /\ UnseenRight(p)'
        BY <1>1, <1>2, <1>3, <1>5, <1>6 DEF PodRight, LiveRight, UnseenRight
    <2> QED BY <2>1, <2>2, <2>3, <2>4, <2>5 DEF PodRight
<1>8. JobShape' /\ NewApart'
    BY <1>1, <1>2 DEF JobShape, NewApart
<1>9. Holder(p) /\ Claims(p)' \subseteq Claims(p)
    <2>1. Fresh(p)' => Fresh(p)
        BY <1>1, <1>3, <1>5 DEF Fresh, Between
    <2> QED BY <1>1, <1>5, <2>1 DEF Holder, Claims, Known
<1> QED BY <1>1, <1>2, <1>4, <1>7, <1>8, <1>9, QuietStep

\* Without restarts a process that runs is the first one.
LEMMA NoRestarts ==
    ASSUME TypeOK, up, MaxRestarts = 0
    PROVE  FirstLife
<1>1. restarts \in 0 .. MaxRestarts
    BY DEF TypeOK, ProcessTypeOK
<1>2. restarts = 0
    BY <1>1
<1> QED BY <1>2 DEF FirstLife

\* Where a time-out or an error can leave a live pod without a container,
\* the process is the first one.
LEMMA FaultsFirstLife ==
    ASSUME Premises, TypeOK, up, "nstimeout" \in Faults \/ "create" \in Faults \/ "put" \in Faults
    PROVE  FirstLife
BY NoRestarts DEF Premises

\* What a step of a running handler has to do with its pod.
LEMMA WorkFrame ==
    ASSUME IPAMInv, NEW j \in job, PodFrame, UNCHANGED <<podq, store>>, vsubnets \subseteq vsubnets',
           \A q \in PodName : Exists(q)' = Exists(q),
           job' = job \/ job' = {}, \A c \in container' : c.pod = j.pod,
           \A c \in vcont \cup vcont' : c.pod # j.pod => c \in vcont /\ c \in vcont',
           \A c \in Pods \cup Pods' : c.pod # j.pod => c \in Pods /\ c \in Pods',
           \A e \in cni \cup cni' : e.cont.pod # j.pod => e \in cni /\ e \in cni'
    PROVE  /\ Local({j.pod}) /\ PodRight(j.pod) /\ QueueRight(j.pod)' /\ BornRight(j.pod)'
           /\ j.pod \in PodName /\ apipods' = apipods /\ up' = up
           /\ job = {j} /\ JobOf(j.pod) = {j} /\ JobOf(j.pod)' = job'
           /\ Work(j.pod) = container /\ Work(j.pod)' = container'
           /\ (Exists(j.pod)' <=> Exists(j.pod)) /\ (FirstLife' <=> FirstLife)
<1>1. job = {j} /\ j.pod \in PodName /\ JobOf(j.pod) = {j} /\ Work(j.pod) = container
      /\ \A c \in container : c.pod = j.pod
    BY OneJob DEF IPAMInv
<1>2. UNCHANGED <<apipods, up, restarts>>
    BY PodFrameIs
<1>3. JobOf(j.pod)' = job' /\ Work(j.pod)' = container'
    BY <1>1 DEF JobOf, Work
<1>5. Local({j.pod})
    BY <1>1, HandlerLocal
<1>6. PodRight(j.pod)
    BY <1>1 DEF IPAMInv
<1>7. QueueRight(j.pod)'
    BY <1>2, <1>6 DEF PodRight, QueueRight
<1>8. BornRight(j.pod)'
    BY <1>1, <1>2, <1>6 DEF PodRight, BornRight
<1> QED BY <1>1, <1>2, <1>3, <1>5, <1>6, <1>7, <1>8 DEF FirstLife

\* WaitNamespace.
LEMMA WaitNamespaceStep ==
    ASSUME Premises, IPAMInv, Next, WaitNamespace
    PROVE  IPAMInv'
<1>1. PICK j \in job : \/ Exists(j.pod) /\ podpc' = "case1" /\ job' = job /\ UNCHANGED <<container, csubnet, podNsZone>>
                       \/ "nstimeout" \in Faults /\ PodReturn
    BY DEF WaitNamespace, Exists, PodGoto
<1> DEFINE p == j.pod
<1>2. /\ up /\ podpc = "waitns" /\ container = {} /\ csubnet = {}
      /\ container' = {} /\ csubnet' = {}
      /\ \/ podpc' = "case1" /\ Exists(p) /\ job' = job
         \/ "nstimeout" \in Faults /\ podpc' = "idle" /\ job' = {}
      /\ UNCHANGED <<vsubnets, vcont, cni, podq, store, Namespaces, allocated, Pods>> /\ PodFrame
    BY <1>1 DEF WaitNamespace, PodReturn, cniVars, IPAMInv, JobShape
<1>3. /\ Local({p}) /\ PodRight(p) /\ QueueRight(p)' /\ BornRight(p)'
      /\ p \in PodName /\ apipods' = apipods /\ up' = up
      /\ job = {j} /\ JobOf(p) = {j} /\ JobOf(p)' = job' /\ Work(p) = {} /\ Work(p)' = {}
      /\ (Exists(p)' <=> Exists(p)) /\ (FirstLife' <=> FirstLife)
    BY <1>1, <1>2, WorkFrame DEF Exists
<1> HIDE DEF p
<1>4. Named(p)' = Named(p) /\ PodsOf(p)' = PodsOf(p) /\ CniOf(p)' = CniOf(p)
    BY <1>2 DEF Named, PodsOf, CniOf
<1>5. PodRight(p)'
    <2>1. TaskRight(p)' /\ NoNamespaceRight(p)'
        BY <1>2, <1>3, <1>4 DEF PodRight, TaskRight, NoNamespaceRight, Creating, Deleting
    <2>2. PlacesRight(p)' /\ LiveRight(p)' 
        BY <1>2, <1>3, <1>4 DEF PodRight, PlacesRight, LiveRight
    <2>3. UnseenRight(p)'
        BY <1>2, <1>3, <1>4 DEF PodRight, UnseenRight, TaskRight, Creating
    <2> QED BY <1>3, <2>1, <2>2, <2>3 DEF PodRight
<1>6. JobShape' /\ NewApart'
    BY <1>2, <1>3 DEF JobShape, NewApart
<1>7. Holder(p) /\ Claims(p)' \subseteq Claims(p)
    <2>1. Fresh(p)' => Fresh(p)
        BY <1>2, <1>3, FaultsFirstLife DEF Fresh, Between, IPAMInv
    <2> QED BY <1>2, <1>3, <1>4, <2>1 DEF Holder, Claims, Known
<1> QED BY <1>2, <1>3, <1>5, <1>6, <1>7, QuietStep

\* A container with its interface.
LEMMA WholeIs ==
    ASSUME NEW c \in Container, c.ifs = 1
    PROVE  Whole(c) = c
BY DEF Whole, Container

\* case1create: the container that is taken over is claimed already.
LEMMA Case1FetchStep ==
    ASSUME Premises, IPAMInv, Next, Case1Fetch
    PROVE  IPAMInv'
<1>1. PICK j \in job :
        \/ (Named(j.pod) = {} \/ "fetch" \in Faults) /\ podpc' = "case2" /\ container' = container
        \/ \E c \in Named(j.pod) : c.ifs = 1 /\ container' = {c} /\ podpc' = "put1"
    BY DEF Case1Fetch, PodGoto
<1> DEFINE p == j.pod
<1>2. /\ up /\ podpc = "case1" /\ container = {} /\ csubnet = {} /\ csubnet' = {} /\ job' = job
      /\ UNCHANGED <<vsubnets, vcont, cni, podq, store, Namespaces, allocated, Pods>> /\ PodFrame
    BY DEF Case1Fetch, PodGoto, cniVars, IPAMInv, JobShape
<1>3. \A c \in container' : c.pod = p /\ c \in Named(p) /\ c.ifs = 1
    BY <1>1, <1>2 DEF Named
<1>4. /\ Local({p}) /\ PodRight(p) /\ QueueRight(p)' /\ BornRight(p)'
      /\ p \in PodName /\ apipods' = apipods /\ up' = up
      /\ job = {j} /\ JobOf(p) = {j} /\ JobOf(p)' = {j} /\ Work(p) = {} /\ Work(p)' = container'
      /\ (Exists(p)' <=> Exists(p)) /\ (FirstLife' <=> FirstLife)
    BY <1>2, <1>3, WorkFrame DEF Exists
<1>5. podpc' \in {"case2", "put1"} /\ (podpc' = "case2" => container' = {})
    BY <1>1, <1>2
<1>6. \A c, d \in container' : c = d
    BY <1>1, <1>2
<1>7. podpc' = "case2" /\ Named(p) # {} => "fetch" \in Faults
    BY <1>1
<1> HIDE DEF p
<1>8. Named(p)' = Named(p) /\ PodsOf(p)' = PodsOf(p) /\ CniOf(p)' = CniOf(p)
    BY <1>2 DEF Named, PodsOf, CniOf
<1>9. PodRight(p)'
    <2>1. TaskRight(p)' /\ NoNamespaceRight(p)'
        BY <1>2, <1>4, <1>5, <1>8 DEF PodRight, TaskRight, NoNamespaceRight, Creating, Deleting
    <2>2. PlacesRight(p)'
        BY <1>2, <1>3, <1>4, <1>8 DEF PodRight, PlacesRight
    <2>3. LiveRight(p)'
        BY <1>2, <1>3, <1>4, <1>5, <1>8 DEF PodRight, LiveRight
    <2>4. UnseenRight(p)'
        BY <1>2, <1>4, <1>5, <1>8 DEF PodRight, UnseenRight, TaskRight, Creating
    <2> QED BY <1>4, <2>1, <2>2, <2>3, <2>4 DEF PodRight
<1>10. JobShape' /\ NewApart'
    <2>1. \A c \in container' : JobOf(c.pod)' # {}
        BY <1>3, <1>4 DEF p
    <2> QED BY <1>2, <1>4, <1>5, <1>6, <2>1 DEF JobShape, NewApart
<1>11. Holder(p) /\ Claims(p)' \subseteq Claims(p)
    <2>1. ASSUME Fresh(p)', ~Fresh(p), NEW e \in CniOf(p)
          PROVE  e.cont \in Named(p) /\ e.cont.ifs = 1
        <3>1. podpc' = "case2" /\ Named(p) # {} /\ "fetch" \in Faults
            BY <1>4, <1>5, <1>7, <1>8, <2>1 DEF Fresh, Between
        <3>2. MaxRestarts # 0
            BY <1>2, <2>1, NoRestarts DEF Fresh, IPAMInv
        <3>3. PICK c \in Named(p) : c.ifs = 1 /\ e.cont = Whole(c)
            BY <1>2, <1>4, <3>1, <3>2 DEF PodRight, PlacesRight, UnseenRight
        <3>4. c \in Container
            BY DEF Named, IPAMInv, TypeOK, VSDTypeOK
        <3> QED BY <3>3, <3>4, WholeIs
    <2>2. Known(p)' \subseteq Known(p)
        BY <1>8, <2>1 DEF Known
    <2>3. Work(p)' \subseteq Known(p)
        BY <1>3, <1>4 DEF Known
    <2> QED BY <1>2, <1>4, <2>2, <2>3 DEF Holder, Claims
<1> QED BY <1>2, <1>4, <1>9, <1>10, <1>11, QuietStep

\* A ContainerPUT that succeeds.
LEMMA PutEffect ==
    ASSUME NEW p \in PodName, PlacesRight(p), NEW n \in {NoNode, apipods[p].node}, NEW c, c.pod = p,
           PutSucceeds(n, c)
    PROVE  /\ \A e \in cni \cup cni' : e.cont.pod # p => e \in cni /\ e \in cni'
           /\ CniOf(p)' = {[node |-> apipods[p].node, cont |-> c]}
<1> DEFINE new == [node |-> n, cont |-> c]
<1>1. n = apipods[p].node /\ new.cont = c
    BY NodeAssumption DEF PutSucceeds
<1>2. \A e \in cni : e.cont.pod = p => e.node = n
    BY <1>1 DEF PlacesRight, CniOf
<1> HIDE DEF new
<1>3. cni' = {e \in cni : ~(e.node = n /\ e.cont.pod = c.pod)} \cup {new}
    BY DEF PutSucceeds, CniPut, new
<1>4. CniOf(p)' = {new}
    BY <1>1, <1>2, <1>3 DEF CniOf
<1> QED BY <1>1, <1>3, <1>4 DEF new

\* ContainerPUT of the container in work: the agent server of the pod's node
\* has this container and no other, or nothing changes.
LEMMA PutIs ==
    ASSUME Premises, IPAMInv, up, NEW j \in job, podpc \in Creating, NEW c \in container,
           PutSucceeds(j.node, c) \/ PutFails(j.node)
    PROVE  /\ \A e \in cni \cup cni' : e.cont.pod # j.pod => e \in cni /\ e \in cni'
           /\ \/ CniOf(j.pod)' = {[node |-> apipods[j.pod].node, cont |-> c]}
              \/ CniOf(j.pod)' = CniOf(j.pod) /\ (CniOf(j.pod) = {} \/ FirstLife)
<1>1. c.pod = j.pod /\ j.pod \in PodName /\ JobOf(j.pod) = {j} /\ PodRight(j.pod)
    BY OneJob DEF IPAMInv
<1>2. j.node \in {NoNode, apipods[j.pod].node} /\ (j.node = NoNode => CniOf(j.pod) = {})
    BY <1>1 DEF PodRight, TaskRight
<1>3. CASE PutSucceeds(j.node, c)
    BY <1>1, <1>2, <1>3, PutEffect DEF PodRight
<1>4. CASE PutFails(j.node)
    <2>1. cni' = cni /\ (j.node \notin Node \/ "put" \in Faults)
        BY <1>4 DEF PutFails, cniVars
    <2>2. j.node \in Where
        BY DEF IPAMInv, TypeOK, WorkerTypeOK, Job
    <2>3. CniOf(j.pod) = {} \/ FirstLife
        BY <1>2, <2>1, <2>2, FaultsFirstLife DEF Where, IPAMInv
    <2> QED BY <2>1, <2>3 DEF CniOf
<1> QED BY <1>3, <1>4

\* The end of case1create, case2create and case3create: a container that is
\* in work and in the VSD goes to Pods or to its node.
LEMMA PutStep ==
    ASSUME Premises, IPAMInv, Next, up, podpc \in {"put1", "put2", "put3"}, NEW j \in job, NEW c \in container,
           \/ j.node = NoNode /\ RememberPod(c) /\ cni' = cni
           \/ (PutSucceeds(j.node, c) \/ PutFails(j.node)) /\ Pods' = Pods,
           (podpc' = "case3" /\ job' = job /\ j.node # NoNode) \/ (podpc' = "idle" /\ job' = {}),
           container' = {}, csubnet' = {},
           UNCHANGED <<vsubnets, vcont, podq, store, Namespaces, allocated>>, PodFrame
    PROVE  IPAMInv'
<1> DEFINE p == j.pod
<1>1. c.pod = p /\ p \in PodName /\ container = {c} /\ podpc \in Creating \ {"waitns"}
    BY OneJob DEF IPAMInv, JobShape, Creating
<1>2. /\ \A e \in cni \cup cni' : e.cont.pod # p => e \in cni /\ e \in cni'
      /\ \A d \in Pods \cup Pods' : d.pod # p => d \in Pods /\ d \in Pods'
      /\ \/ PodsOf(p)' = {c} /\ CniOf(p)' = {} /\ CniOf(p) = {}
         \/ PodsOf(p)' = PodsOf(p) /\ CniOf(p)' = {[node |-> apipods[p].node, cont |-> c]}
         \/ PodsOf(p)' = PodsOf(p) /\ CniOf(p)' = CniOf(p) /\ (CniOf(p) = {} \/ FirstLife)
    <2>1. CASE j.node = NoNode /\ RememberPod(c) /\ cni' = cni
        <3>1. Pods' = {d \in Pods : d.pod # p} \cup {c}
            BY <1>1, <2>1 DEF RememberPod
        <3>2. PodsOf(p)' = {c}
            BY <1>1, <3>1 DEF PodsOf
        <3>3. CniOf(p)' = CniOf(p) /\ CniOf(p) = {}
            BY <1>1, <2>1, OneJob DEF CniOf, IPAMInv, PodRight, TaskRight
        <3> QED BY <1>1, <2>1, <3>1, <3>2, <3>3
    <2>2. CASE (PutSucceeds(j.node, c) \/ PutFails(j.node)) /\ Pods' = Pods
        <3>1. PodsOf(p)' = PodsOf(p)
            BY <2>2 DEF PodsOf
        <3> QED BY <1>1, <2>2, <3>1, PutIs
    <2> QED BY <2>1, <2>2
<1>3. /\ Local({p}) /\ PodRight(p) /\ QueueRight(p)' /\ BornRight(p)'
      /\ apipods' = apipods /\ up' = up
      /\ job = {j} /\ JobOf(p) = {j} /\ JobOf(p)' = job' /\ Work(p) = {c} /\ Work(p)' = {}
      /\ (Exists(p)' <=> Exists(p)) /\ (FirstLife' <=> FirstLife)
    BY <1>1, <1>2, WorkFrame DEF Exists
<1> HIDE DEF p
<1>4. Named(p)' = Named(p)
    BY DEF Named
<1>5. /\ c.ifs = 1 /\ [cidr |-> c.cidr, zone |-> PodNS[p]] \in vsubnets /\ (apipods[p].live => c \in Named(p))
      /\ store[p] # {} /\ Exists(p) /\ (j.node = NoNode => CniOf(p) = {})
    BY <1>1, <1>3 DEF PodRight, PlacesRight, LiveRight, TaskRight
<1>6. PodRight(p)'
    <2>1. TaskRight(p)'
        BY <1>3, <1>5 DEF PodRight, TaskRight, Deleting
    <2>2. NoNamespaceRight(p)' /\ UnseenRight(p)'
        BY <1>3, <1>5 DEF NoNamespaceRight, UnseenRight
    <2>3. PlacesRight(p)'
        BY <1>2, <1>3, <1>4, <1>5 DEF PodRight, PlacesRight
    <2>4. LiveRight(p)'
        BY <1>2, <1>3, <1>4, <1>5 DEF PodRight, LiveRight
    <2> QED BY <1>3, <2>1, <2>2, <2>3, <2>4 DEF PodRight
<1>7. JobShape' /\ NewApart'
    BY <1>3 DEF JobShape, NewApart
<1>8. Holder(p) /\ Claims(p)' \subseteq Claims(p)
    <2>1. Known(p)' \subseteq Known(p) \cup {c}
        BY <1>2, <1>3, <1>4 DEF Known, Fresh
    <2> QED BY <1>3, <2>1 DEF Holder, Claims
<1> QED BY <1>1, <1>3, <1>6, <1>7, <1>8, QuietStep

\* The end of each way to create a pod's container.
LEMMA PutSteps ==
    ASSUME Premises, IPAMInv, Next, Case1Put \/ Case2Put \/ Case3Put
    PROVE  IPAMInv'
<1>1. CASE Case1Put
    BY <1>1, PutStep DEF Case1Put, PodReturn
<1>2. CASE Case2Put
    BY <1>2, PutStep DEF Case2Put, PodReturn, PodGoto, cniVars
<1>3. CASE Case3Put
    BY <1>3, PutStep DEF Case3Put, PodReturn, cniVars
<1> QED BY <1>1, <1>2, <1>3

\* Create of the container in work.  If it fails the address is released,
\* and nobody claims it.
LEMMA CreateStep ==
    ASSUME Premises, IPAMInv, Next, up, podpc \in {"create2", "create3"},
           \/ /\ CreateSucceeds /\ podpc' \in {"put2", "put3"}
              /\ UNCHANGED <<job, allocated, container, csubnet>>
           \/ /\ CreateFails /\ ReleaseReserved /\ container' = {} /\ csubnet' = {}
              /\ (podpc' = "case3" /\ job' = job) \/ (podpc' = "idle" /\ job' = {}),
           UNCHANGED <<vsubnets, cni, podq, store, Namespaces, Pods>>, PodFrame
    PROVE  IPAMInv'
<1>1. PICK c \in container : TRUE
    BY DEF CreateSucceeds, CreateFails
<1>2. PICK j \in job : c.pod = j.pod
    BY DEF IPAMInv, JobShape, JobOf
<1> DEFINE p == j.pod
<1>3. container = {c} /\ c.pod = p /\ podpc \in Creating \ {"waitns"} /\ podpc \in Between
    BY <1>1, <1>2 DEF IPAMInv, JobShape, Creating, Between
<1>4. \/ /\ Named(p) = {} /\ vcont' = vcont \cup {c} /\ podpc' \in {"put2", "put3"}
         /\ UNCHANGED <<job, allocated, container, csubnet>>
      \/ /\ Named(p) # {} \/ "create" \in Faults
         /\ vcont' = vcont /\ ReleaseReserved /\ container' = {} /\ csubnet' = {}
         /\ (podpc' = "case3" /\ job' = job) \/ (podpc' = "idle" /\ job' = {})
    BY <1>3 DEF CreateSucceeds, CreateFails, Premises
<1>5. /\ Local({p}) /\ PodRight(p) /\ QueueRight(p)' /\ BornRight(p)'
      /\ apipods' = apipods /\ up' = up /\ p \in PodName
      /\ job = {j} /\ JobOf(p) = {j} /\ JobOf(p)' = job' /\ Work(p) = {c} /\ Work(p)' = container'
      /\ (Exists(p)' <=> Exists(p)) /\ (FirstLife' <=> FirstLife)
    BY <1>3, <1>4, WorkFrame DEF Exists
<1> HIDE DEF p
<1>6. PodsOf(p)' = PodsOf(p) /\ CniOf(p)' = CniOf(p)
    BY DEF PodsOf, CniOf
<1>7. /\ c.ifs = 1 /\ [cidr |-> c.cidr, zone |-> PodNS[p]] \in vsubnets
      /\ store[p] # {} /\ Exists(p) /\ (j.node = NoNode => CniOf(p) = {})
      /\ j.node \in {NoNode, apipods[p].node}
    BY <1>3, <1>5 DEF PodRight, PlacesRight, TaskRight
<1>8. CASE Named(p) = {} /\ vcont' = vcont \cup {c} /\ podpc' \in {"put2", "put3"}
           /\ UNCHANGED <<job, allocated, container, csubnet>>
    <2>1. Named(p)' = {c}
        BY <1>3, <1>8 DEF Named
    <2>2. PodRight(p)'
        <3>1. TaskRight(p)'
            BY <1>5, <1>6, <1>7, <1>8 DEF TaskRight, Deleting
        <3>2. NoNamespaceRight(p)' /\ UnseenRight(p)'
            BY <1>5, <1>7, <1>8 DEF NoNamespaceRight, UnseenRight
        <3>3. PlacesRight(p)'
            BY <1>3, <1>5, <1>6, <1>7, <1>8, <2>1 DEF PodRight, PlacesRight
        <3>4. LiveRight(p)'
            BY <1>3, <1>5, <1>6, <1>7, <1>8, <2>1 DEF PodRight, LiveRight
        <3> QED BY <1>5, <3>1, <3>2, <3>3, <3>4 DEF PodRight
    <2>3. JobShape' /\ NewApart'
        <3>1. podpc' \notin {"create2", "append", "create3", "addsubnet", "idle", "waitns", "case1", "case2", "case3", "delfetch"}
            BY <1>8
        <3>2. \A d \in container' : JobOf(d.pod)' # {}
            BY <1>3, <1>5, <1>8 DEF p
        <3> QED BY <1>3, <1>5, <1>8, <3>1, <3>2 DEF JobShape, NewApart, IPAMInv
    <2>4. Holder(p) /\ Claims(p)' \subseteq Claims(p)
        <3>1. Known(p)' \subseteq Known(p) \cup {c}
            <4>1. Fresh(p)' => Fresh(p)
                BY <1>5, <1>8 DEF Fresh, Between
            <4> QED BY <1>6, <2>1, <4>1 DEF Known
        <3> QED BY <1>3, <1>5, <1>8, <3>1 DEF Holder, Claims
    <2> QED BY <1>5, <1>8, <2>2, <2>3, <2>4, QuietStep
<1>9. CASE /\ Named(p) # {} \/ "create" \in Faults
           /\ vcont' = vcont /\ ReleaseReserved /\ container' = {} /\ csubnet' = {}
           /\ (podpc' = "case3" /\ job' = job) \/ (podpc' = "idle" /\ job' = {})
    <2>1. Named(p)' = Named(p)
        BY <1>9 DEF Named
    <2>2. PodRight(p)'
        <3>1. TaskRight(p)'
            BY <1>5, <1>6, <1>7, <1>9 DEF TaskRight, Deleting
        <3>2. NoNamespaceRight(p)' /\ UnseenRight(p)'
            BY <1>5, <1>7, <1>9 DEF NoNamespaceRight, UnseenRight
        <3>3. PlacesRight(p)' /\ LiveRight(p)'
            BY <1>5, <1>6, <1>9, <2>1 DEF PodRight, PlacesRight, LiveRight
        <3> QED BY <1>5, <3>1, <3>2, <3>3 DEF PodRight
    <2>3. JobShape' /\ NewApart'
        BY <1>5, <1>9 DEF JobShape, NewApart
    <2>4. Holder(p) /\ Known(p)' \subseteq Known(p) /\ Claims(p)' = Known(p)'
        <3>1. Fresh(p)
            BY <1>3, <1>7, <1>9, FaultsFirstLife DEF Fresh, IPAMInv
        <3>2. Known(p)' \subseteq Known(p)
            BY <1>6, <2>1, <3>1 DEF Known
        <3> QED BY <1>3, <1>5, <1>9, <3>2 DEF Holder, Claims, Between
    <2>5. ASSUME NEW x \in allocated, x \notin allocated', NEW q \in PodName, Holder(q)',
                 NEW d \in Claims(q)'
          PROVE  x.cidr # d.cidr \/ x.host # d.host
        <3>1. PICK s \in csubnet : allocated' = allocated \ {Slot(s, c.host)} /\ s.cidr = c.cidr
            BY <1>3, <1>9 DEF ReleaseReserved, Release, IPAMInv, JobShape
        <3>2. x.cidr = c.cidr /\ x.host = c.host
            BY <2>5, <3>1 DEF Slot
        <3>3. Apart(c, d)
            <4>1. CASE q = p
                BY <1>3, <2>4, <2>5, <4>1 DEF IPAMInv, NewApart
            <4>2. CASE q # p
                <5>1. Holder(q) /\ d \in Claims(q)
                    BY <1>5, <2>5, <4>2, LocalClaims
                <5>2. c \in Claims(p)
                    BY <1>5 DEF Claims
                <5> QED BY <1>5, <2>4, <4>2, <5>1, <5>2 DEF IPAMInv, Unique
            <4> QED BY <4>1, <4>2
        <3> QED BY <3>2, <3>3 DEF Apart
    <2> QED BY <1>5, <1>9, <2>2, <2>3, <2>4, <2>5, QuietStep DEF Claims
<1> QED BY <1>4, <1>8, <1>9 DEF p

\* Create, in case2create and in case3create.
LEMMA CreateSteps ==
    ASSUME Premises, IPAMInv, Next, Case2Create \/ Case3Create
    PROVE  IPAMInv'
<1>1. CASE Case2Create
    BY <1>1, CreateStep DEF Case2Create, PodGoto, cniVars
<1>2. CASE Case3Create
    BY <1>2, CreateStep DEF Case3Create, PodReturn, PodGoto, cniVars
<1> QED BY <1>1, <1>2

\* PodUpdated.
LEMMA PodUpdatedStep ==
    ASSUME Premises, IPAMInv, Next, NEW p \in PodName, PodUpdated(p)
    PROVE  IPAMInv'
<1> DEFINE n == Head(podq[p]).node
<1>1. /\ up /\ podpc = "idle" /\ podq[p] # <<>> /\ store[p] # {}
      /\ podq' = [podq EXCEPT ![p] = Tail(podq[p])] /\ store' = [store EXCEPT ![p] = {n}] /\ PodFrame
      /\ UNCHANGED <<vsubnets, vcont, Namespaces, allocated, podpc, job, container, csubnet, podNsZone>>
    BY DEF PodUpdated, podVars
<1>2. \/ \E c \in Pods : c.pod = p /\ PutSucceeds(n, c) /\ Pods' = Pods \ {c}
      \/ UNCHANGED <<cni, Pods>>
    BY DEF PodUpdated, PutFails, cniVars
<1>3. job = {} /\ container = {} /\ csubnet = {} /\ UNCHANGED <<apipods, up, restarts>>
    BY <1>1, PodFrameIs DEF IPAMInv, JobShape
<1>4. podq'[p] = Tail(podq[p]) /\ store'[p] = {n}
    BY <1>1 DEF IPAMInv, TypeOK, APITypeOK
<1>5. PodRight(p)
    BY DEF IPAMInv
<1>6. n \in {NoNode, apipods[p].node} /\ QueueRight(p)'
    BY <1>1, <1>3, <1>4, <1>5, QueueTail DEF IPAMInv, PodRight
<1> HIDE DEF n
<1>7. /\ \A e \in cni \cup cni' : e.cont.pod # p => e \in cni /\ e \in cni'
      /\ \A d \in Pods \cup Pods' : d.pod # p => d \in Pods /\ d \in Pods'
      /\ PodsOf(p)' \subseteq PodsOf(p)
      /\ \/ \E c \in PodsOf(p) : CniOf(p)' = {[node |-> apipods[p].node, cont |-> c]}
         \/ CniOf(p)' = CniOf(p)
    <2>1. ASSUME NEW c \in Pods, c.pod = p, PutSucceeds(n, c), Pods' = Pods \ {c}
          PROVE  <1>7!:
        <3>1. /\ \A e \in cni \cup cni' : e.cont.pod # p => e \in cni /\ e \in cni'
              /\ CniOf(p)' = {[node |-> apipods[p].node, cont |-> c]}
            BY <1>5, <1>6, <2>1, PutEffect DEF PodRight
        <3>2. c \in PodsOf(p) /\ PodsOf(p)' \subseteq PodsOf(p)
            BY <2>1 DEF PodsOf
        <3> QED BY <2>1, <3>1, <3>2
    <2>2. ASSUME UNCHANGED <<cni, Pods>>
          PROVE  <1>7!:
        BY <2>2 DEF PodsOf, CniOf
    <2> QED BY <1>2, <2>1, <2>2
<1>8. Local({p})
    <2>1. \A q \in PodName \ {p} : podq'[q] = podq[q] /\ store'[q] = store[q] /\ Exists(q)' = Exists(q)
        BY <1>1 DEF IPAMInv, TypeOK, APITypeOK, Exists
    <2> QED BY <1>1, <1>3, <1>7, <2>1, HandlerLocal
<1>9. /\ Named(p)' = Named(p) /\ Work(p) = {} /\ Work(p)' = {} /\ JobOf(p) = {} /\ JobOf(p)' = {}
      /\ (Exists(p)' <=> Exists(p)) /\ (FirstLife' <=> FirstLife)
    BY <1>1, <1>3 DEF Named, Work, JobOf, Exists, FirstLife
<1>10. PodRight(p)'
    <2>1. BornRight(p)' /\ TaskRight(p)' /\ UnseenRight(p)'
        BY <1>1, <1>3, <1>4, <1>5, <1>9 DEF PodRight, BornRight, TaskRight, UnseenRight
    <2>2. NoNamespaceRight(p)'
        BY <1>1, <1>4, <1>5, <1>7, <1>9 DEF PodRight, NoNamespaceRight
    <2>3. PlacesRight(p)' /\ LiveRight(p)'
        BY <1>1, <1>3, <1>5, <1>7, <1>9 DEF PodRight, PlacesRight, LiveRight
    <2> QED BY <1>6, <2>1, <2>2, <2>3 DEF PodRight
<1>11. JobShape' /\ NewApart'
    BY <1>1, <1>3 DEF JobShape, NewApart
<1>12. Holder(p) /\ Claims(p)' \subseteq Claims(p)
    <2>1. Fresh(p)
        BY <1>1, <1>9 DEF Fresh
    <2>2. Known(p)' \subseteq Known(p)
        BY <1>7, <1>9, <2>1 DEF Known
    <2> QED BY <1>1, <1>9, <2>2 DEF Holder, Claims
<1> QED BY <1>1, <1>3, <1>8, <1>10, <1>11, <1>12, QuietStep

\* PodDeleted, first part: what the agent server has of the pod was put there
\* in the life of this process, so it is claimed.
LEMMA PodDeletedGetStep ==
    ASSUME Premises, IPAMInv, Next, NEW p \in PodName, PodDeletedGet(p)
    PROVE  IPAMInv'
<1> DEFINE n == Head(podq[p]).node
           j == [pod |-> p, uid |-> Head(podq[p]).uid, node |-> n]
<1>1. /\ up /\ podpc = "idle" /\ podq[p] # <<>> /\ Head(podq[p]).kind = "del"
      /\ podq' = [podq EXCEPT ![p] = Tail(podq[p])] /\ store' = [store EXCEPT ![p] = {}] /\ PodFrame
      /\ job' = {j}
      /\ UNCHANGED <<vsubnets, vcont, cni, Namespaces, allocated, Pods, csubnet>>
    BY DEF PodDeletedGet, cniVars
<1>2. \/ \E c \in CniGet(n, p) : container' = {c} /\ podpc' = "release"
      \/ container' = container /\ podpc' = "delfetch"
    BY DEF PodDeletedGet
<1>3. job = {} /\ container = {} /\ csubnet = {} /\ UNCHANGED <<apipods, up, restarts>>
    BY <1>1, PodFrameIs DEF IPAMInv, JobShape
<1>4. podq'[p] = Tail(podq[p]) /\ store'[p] = {} /\ j.pod = p /\ j.node = n
    BY <1>1 DEF IPAMInv, TypeOK, APITypeOK
<1>5. PodRight(p)
    BY DEF IPAMInv
<1>6. n \in {NoNode, apipods[p].node} /\ ~apipods[p].live /\ podq'[p] = <<>> /\ QueueRight(p)'
    BY <1>1, <1>3, <1>4, <1>5, QueueTail DEF IPAMInv, PodRight
<1> HIDE DEF n, j
<1>7. store[p] # {}
    BY <1>1, <1>5 DEF PodRight, QueueRight
<1>8. \A c \in container' : c.pod = p /\ \E e \in CniOf(p) : c = e.cont
    BY <1>2, <1>3 DEF CniGet, CniOf
<1>9. (\A c, d \in container' : c = d) /\ podpc' \in {"release", "delfetch"}
      /\ (podpc' = "delfetch" => container' = {})
    BY <1>2, <1>3
<1>10. Local({p})
    <2>1. \A q \in PodName \ {p} : podq'[q] = podq[q] /\ store'[q] = store[q] /\ Exists(q)' = Exists(q)
        BY <1>1 DEF IPAMInv, TypeOK, APITypeOK, Exists
    <2> QED BY <1>1, <1>3, <1>4, <1>8, <2>1, HandlerLocal
<1>11. /\ Named(p)' = Named(p) /\ PodsOf(p)' = PodsOf(p) /\ CniOf(p)' = CniOf(p)
       /\ Work(p) = {} /\ Work(p)' = container' /\ JobOf(p) = {} /\ JobOf(p)' = {j}
       /\ (Exists(p)' <=> Exists(p)) /\ (FirstLife' <=> FirstLife)
    BY <1>1, <1>3, <1>4, <1>8 DEF Named, PodsOf, CniOf, Work, JobOf, Exists, FirstLife
<1>12. Exists(p) \/ ("nstimeout" \in Faults /\ FirstLife)
    BY <1>1, <1>5, <1>7, <1>11, FaultsFirstLife DEF PodRight, NoNamespaceRight, IPAMInv
<1>13. PodRight(p)'
    <2>1. BornRight(p)' /\ LiveRight(p)' /\ UnseenRight(p)'
        BY <1>1, <1>3, <1>5, <1>6, <1>9 DEF PodRight, BornRight, LiveRight, UnseenRight
    <2>2. TaskRight(p)'
        BY <1>3, <1>4, <1>6, <1>9, <1>11, <1>12 DEF TaskRight, Creating
    <2>3. NoNamespaceRight(p)'
        BY <1>4, <1>5, <1>8, <1>11, <1>12 DEF PodRight, NoNamespaceRight
    <2>4. PlacesRight(p)'
        BY <1>1, <1>3, <1>5, <1>8, <1>11 DEF PodRight, PlacesRight
    <2> QED BY <1>6, <2>1, <2>2, <2>3, <2>4 DEF PodRight
<1>14. JobShape' /\ NewApart'
    BY <1>1, <1>3, <1>8, <1>9, <1>11 DEF JobShape, NewApart
<1>15. Holder(p) /\ Claims(p)' \subseteq Claims(p)
    <2>1. Fresh(p)
        BY <1>7, <1>11 DEF Fresh
    <2>2. Known(p)' \subseteq Known(p) /\ Work(p)' \subseteq Known(p)
        BY <1>8, <1>11, <2>1 DEF Known
    <2> QED BY <1>1, <2>2 DEF Holder, Claims
<1> QED BY <1>1, <1>3, <1>10, <1>13, <1>14, <1>15, QuietStep

\* PodDeleted, the fallback to the VSD.
LEMMA PodDeletedFetchStep ==
    ASSUME Premises, IPAMInv, Next, PodDeletedFetch
    PROVE  IPAMInv'
<1>1. PICK j \in job :
        \/ vcont' = vcont /\ container' = container /\ podpc' = "release" /\ job' = job
           /\ csubnet' = csubnet
        \/ \E c \in Named(j.pod) :
            /\ vcont' = vcont \ {c} \/ vcont' = vcont
            /\ \/ container' = {} /\ podpc' = "idle" /\ job' = {} /\ csubnet' = {}
               \/ c.ifs = 1 /\ container' = {c} /\ podpc' = "release" /\ job' = job /\ csubnet' = csubnet
    BY DEF PodDeletedFetch, PodGoto, PodReturn
<1> DEFINE p == j.pod
<1>2. /\ up /\ podpc = "delfetch" /\ container = {} /\ csubnet = {} /\ csubnet' = {}
      /\ UNCHANGED <<vsubnets, cni, podq, store, Namespaces, allocated, Pods>> /\ PodFrame
    BY <1>1 DEF PodDeletedFetch, cniVars, IPAMInv, JobShape
<1>3. /\ \A c \in container' : c \in Named(p) /\ c.ifs = 1 /\ c.pod = p
      /\ \A c \in vcont \cup vcont' : c.pod # p => c \in vcont /\ c \in vcont'
      /\ Named(p)' \subseteq Named(p)
      /\ \A c, d \in container' : c = d
      /\ (podpc' = "release" /\ job' = job) \/ (podpc' = "idle" /\ job' = {} /\ container' = {})
    BY <1>1, <1>2 DEF Named
<1>4. /\ Local({p}) /\ PodRight(p) /\ QueueRight(p)' /\ BornRight(p)'
      /\ apipods' = apipods /\ up' = up /\ p \in PodName
      /\ job = {j} /\ JobOf(p) = {j} /\ JobOf(p)' = job' /\ Work(p) = {} /\ Work(p)' = container'
      /\ (Exists(p)' <=> Exists(p)) /\ (FirstLife' <=> FirstLife)
    BY <1>2, <1>3, WorkFrame DEF Exists
<1> HIDE DEF p
<1>5. PodsOf(p)' = PodsOf(p) /\ CniOf(p)' = CniOf(p)
    BY <1>2 DEF PodsOf, CniOf
<1>6. /\ j.node \in {NoNode, apipods[p].node} /\ ~apipods[p].live /\ podq[p] = <<>> /\ store[p] = {}
      /\ Exists(p) \/ ("nstimeout" \in Faults /\ FirstLife)
    BY <1>2, <1>4, FaultsFirstLife DEF PodRight, TaskRight, Deleting, IPAMInv
<1>7. PodRight(p)'
    <2>1. TaskRight(p)'
        BY <1>2, <1>3, <1>4, <1>6 DEF TaskRight, Creating
    <2>2. NoNamespaceRight(p)'
        BY <1>2, <1>3, <1>4, <1>5, <1>6 DEF PodRight, NoNamespaceRight
    <2>3. PlacesRight(p)'
        BY <1>2, <1>3, <1>4, <1>5 DEF PodRight, PlacesRight
    <2>4. LiveRight(p)' /\ UnseenRight(p)'
        BY <1>2, <1>3, <1>4, <1>6 DEF LiveRight, UnseenRight
    <2> QED BY <1>4, <2>1, <2>2, <2>3, <2>4 DEF PodRight
<1>8. JobShape' /\ NewApart'
    <2>1. \A c \in container' : JobOf(c.pod)' # {}
        BY <1>3, <1>4 DEF p
    <2> QED BY <1>2, <1>3, <1>4, <2>1 DEF JobShape, NewApart
<1>9. Holder(p) /\ Claims(p)' \subseteq Claims(p)
    <2>1. Fresh(p)' => Fresh(p)
        BY <1>2, <1>4, <1>6 DEF Fresh
    <2>2. Known(p)' \subseteq Known(p)
        BY <1>3, <1>5, <2>1 DEF Known
    <2>3. Work(p)' \subseteq Known(p)
        BY <1>3, <1>4 DEF Known
    <2> QED BY <1>2, <1>4, <2>2, <2>3 DEF Holder, Claims
<1> QED BY <1>2, <1>4, <1>7, <1>8, <1>9, QuietStep

\* PodDeleted, the last two parts: from here on nothing is claimed for the pod.
LEMMA PodDeletedEndSteps ==
    ASSUME Premises, IPAMInv, Next, PodDeletedRelease \/ PodDeletedCni
    PROVE  IPAMInv'
<1>1. /\ up /\ podpc \in {"release", "delcni"} /\ csubnet = {} /\ csubnet' = {} /\ PodFrame
      /\ UNCHANGED <<vsubnets, vcont, podq, store, Namespaces, Pods>>
    BY DEF PodDeletedRelease, PodDeletedCni, PodReturn, IPAMInv, JobShape
<1>2. PICK j \in job : 
        \/ /\ podpc = "release" /\ podpc' = "delcni" /\ job' = job /\ container' = container /\ cni' = cni
           /\ \/ allocated' = allocated
              \/ \E c \in container, s \in CachedSubnets(j.pod) :
                    s.cidr = c.cidr /\ allocated' = Release(allocated, s, c.host)
        \/ /\ podpc = "delcni" /\ podpc' = "idle" /\ job' = {} /\ container' = {} /\ allocated' = allocated
           /\ cni' = CniDelete(j.node, j.pod) \/ cni' = cni
    BY DEF PodDeletedRelease, PodDeletedCni, PodReturn, PodGoto, cniVars
<1> DEFINE p == j.pod
<1>3. /\ \A e \in cni \cup cni' : e.cont.pod # p => e \in cni /\ e \in cni'
      /\ CniOf(p)' \subseteq CniOf(p)
      /\ \A c \in container : c.pod = p
    BY <1>2, OneJob DEF CniDelete, CniOf, IPAMInv
<1>4. /\ Local({p}) /\ PodRight(p) /\ QueueRight(p)' /\ BornRight(p)'
      /\ apipods' = apipods /\ up' = up /\ p \in PodName
      /\ job = {j} /\ JobOf(p) = {j} /\ JobOf(p)' = job' /\ Work(p) = container /\ Work(p)' = container'
      /\ (Exists(p)' <=> Exists(p)) /\ (FirstLife' <=> FirstLife)
    BY <1>1, <1>2, <1>3, WorkFrame DEF Exists
<1> HIDE DEF p
<1>5. PodsOf(p)' = PodsOf(p) /\ Named(p)' = Named(p) /\ Work(p)' \subseteq Work(p)
    BY <1>1, <1>2, <1>4 DEF PodsOf, Named
<1>6. /\ ~apipods[p].live /\ podq[p] = <<>> /\ store[p] = {} /\ podpc' \in {"idle", "delcni"}
      /\ (podpc' = "idle" <=> job' = {}) /\ job' \subseteq job
    BY <1>1, <1>2, <1>4 DEF PodRight, TaskRight, Deleting
<1>7. PodRight(p)'
    <2>1. TaskRight(p)'
        BY <1>1, <1>4, <1>5, <1>6 DEF PodRight, TaskRight, Creating, Deleting
    <2>2. NoNamespaceRight(p)'
        BY <1>1, <1>3, <1>4, <1>5, <1>6 DEF PodRight, NoNamespaceRight
    <2>3. PlacesRight(p)'
        BY <1>1, <1>3, <1>4, <1>5 DEF PodRight, PlacesRight
    <2>4. LiveRight(p)' /\ UnseenRight(p)'
        BY <1>1, <1>4, <1>6 DEF LiveRight, UnseenRight
    <2> QED BY <1>4, <2>1, <2>2, <2>3, <2>4 DEF PodRight
<1>8. JobShape' /\ NewApart'
    <2>1. \A c \in container' : JobOf(c.pod)' # {} /\ c \in container
        BY <1>2, <1>3, <1>4 DEF p
    <2>2. podpc' = "idle" => container' = {}
        BY <1>2, <1>6
    <2> QED BY <1>1, <1>4, <1>6, <2>1, <2>2 DEF JobShape, NewApart, IPAMInv
<1>9. ~Holder(p)'
    BY <1>1, <1>4, <1>6 DEF Holder
<1>10. ASSUME NEW x \in allocated, x \notin allocated', NEW q \in PodName, Holder(q)', NEW d \in Claims(q)'
       PROVE  x.cidr # d.cidr \/ x.host # d.host
    <2>1. PICK c \in container, s \in CachedSubnets(p) :
            podpc = "release" /\ s.cidr = c.cidr /\ allocated' = allocated \ {Slot(s, c.host)}
        BY <1>2, <1>10 DEF Release, p
    <2>2. x.cidr = c.cidr /\ x.host = c.host
        BY <1>10, <2>1 DEF Slot
    <2>3. q # p /\ Holder(q) /\ d \in Claims(q)
        BY <1>4, <1>9, <1>10, LocalClaims
    <2>4. Holder(p) /\ c \in Claims(p)
        BY <1>4, <2>1 DEF Holder, Claims
    <2>5. Apart(c, d)
        BY <1>4, <2>3, <2>4 DEF IPAMInv, Unique
    <2> QED BY <2>2, <2>5 DEF Apart
<1> QED BY <1>1, <1>4, <1>7, <1>8, <1>9, <1>10, QuietStep

----------------------------------------------------------------------------
(* New addresses *)

\* What is claimed for a pod is in the zone of its namespace.
LEMMA ClaimZone ==
    ASSUME IPAMInv, NEW q \in PodName, NEW d \in Claims(q)
    PROVE  [cidr |-> d.cidr, zone |-> PodNS[q]] \in vsubnets
<1>1. PlacesRight(q)
    BY DEF IPAMInv, PodRight
<1> QED BY <1>1 DEF PlacesRight, Claims, Known

\* An address that is free in a cached subnet, or in a prefix the VSD has
\* not seen before, is claimed for nobody.
LEMMA FreeIsUnclaimed ==
    ASSUME IPAMInv, NEW p \in PodName, NEW s \in Subnet, NEW h,
           \/ s \in CachedSubnets(p) /\ Slot(s, h) \notin allocated
           \/ \A t \in vsubnets : t.cidr # s.cidr,
           NEW q \in PodName, Holder(q), NEW d \in Claims(q)
    PROVE  d.cidr # s.cidr \/ d.host # h
<1> SUFFICES ASSUME d.cidr = s.cidr
             PROVE  d.host # h
    OBVIOUS
<1> DEFINE v == [cidr |-> d.cidr, zone |-> PodNS[q]]
           w == [cidr |-> s.cidr, zone |-> PodNS[p]]
<1>1. v \in vsubnets /\ v.cidr = s.cidr /\ w.cidr = s.cidr /\ w.zone = PodNS[p] /\ v.zone = PodNS[q]
    BY ClaimZone
<1> HIDE DEF v
<1>2. s \in CachedSubnets(p) /\ Slot(s, h) \notin allocated
    BY <1>1
<1>3. PodNS[p] \in NS /\ s \in Lists(PodNS[p])
    BY <1>2, PodNSAssumption DEF Lists, CachedSubnets
<1>4. w \in vsubnets
    BY <1>3 DEF IPAMInv, ListsRight
<1> HIDE DEF w
<1>5. PodNS[p] = PodNS[q]
    BY <1>1, <1>4 DEF IPAMInv, CustomedInv, PrefixesUnique
<1>6. Slot(s, d.host) \in allocated
    BY <1>3, <1>5 DEF IPAMInv, Reserved
<1> QED BY <1>2, <1>6

\* An address is reserved for the pod in work.
LEMMA AllocateStep ==
    ASSUME Premises, IPAMInv, Next, up, podpc \in {"case2", "case3", "addsubnet"},
           podpc' \in {"create2", "create3", "append"}, podpc' = "append" => podpc = "addsubnet",
           NEW j \in job, NEW s \in Subnet, NEW h \in Host,
           \/ s \in CachedSubnets(j.pod) /\ Slot(s, h) \notin allocated
           \/ \A t \in vsubnets : t.cidr # s.cidr,
           [cidr |-> s.cidr, zone |-> PodNS[j.pod]] \in vsubnets', vsubnets \subseteq vsubnets',
           allocated' = allocated \cup {Slot(s, h)},
           container' = {NewContainer(j, s.cidr, h)}, csubnet' = {s}, job' = job,
           UNCHANGED <<vcont, cni, podq, store, Namespaces, Pods, podNsZone>>, PodFrame
    PROVE  IPAMInv'
<1> DEFINE p == j.pod
           c == NewContainer(j, s.cidr, h)
<1>1. c.pod = p /\ c.cidr = s.cidr /\ c.host = h /\ c.ifs = 1
    BY DEF NewContainer
<1>2. container' = {c}
    OBVIOUS
<1> HIDE DEF c
<1>3. /\ Local({p}) /\ PodRight(p) /\ QueueRight(p)' /\ BornRight(p)'
      /\ apipods' = apipods /\ up' = up /\ p \in PodName
      /\ job = {j} /\ JobOf(p) = {j} /\ JobOf(p)' = {j} /\ Work(p) = container /\ Work(p)' = {c}
      /\ (Exists(p)' <=> Exists(p)) /\ (FirstLife' <=> FirstLife)
    BY <1>1, <1>2, WorkFrame DEF Exists
<1>4. container = {} /\ csubnet = {} /\ podpc \in Creating \ {"waitns"} /\ podpc' \in Creating \ {"waitns"}
      /\ podpc \in Between /\ podpc' \in Between
    BY DEF IPAMInv, JobShape, Creating, Between
<1>5. Named(p)' = Named(p) /\ PodsOf(p)' = PodsOf(p) /\ CniOf(p)' = CniOf(p)
    BY DEF Named, PodsOf, CniOf
<1>6. UNCHANGED <<nsq, apins, nspc, nsjob, nssubnets>>
    BY PodFrameIs
<1>7. PodRight(p)'
    <2>1. TaskRight(p)'
        BY <1>3, <1>4, <1>5 DEF PodRight, TaskRight, Creating, Deleting
    <2>2. NoNamespaceRight(p)'
        BY <1>3, <1>4, <1>5 DEF PodRight, NoNamespaceRight, TaskRight
    <2>3. PlacesRight(p)'
        BY <1>1, <1>3, <1>5 DEF PodRight, PlacesRight
    <2>4. LiveRight(p)' /\ UnseenRight(p)'
        BY <1>3, <1>4, <1>5 DEF PodRight, LiveRight, UnseenRight, Between
    <2> QED BY <1>3, <2>1, <2>2, <2>3, <2>4 DEF PodRight
<1>8. \A q \in PodName : Holder(q) => \A d \in Claims(q) : Apart(c, d)
    BY <1>1, <1>3, FreeIsUnclaimed DEF Apart
<1>9. Holder(p) /\ Known(p)' = Known(p) /\ Claims(p) = Known(p) /\ Claims(p)' = Known(p) \cup {c}
    <2>1. Fresh(p)' <=> Fresh(p)
        BY <1>3, <1>4, <1>5 DEF Fresh
    <2>2. Known(p)' = Known(p)
        BY <1>5, <2>1 DEF Known
    <2> QED BY <1>3, <1>4, <2>2 DEF Holder, Claims, Between
<1>10. ASSUME NEW q \in PodName, q # p
       PROVE  (Holder(q)' <=> Holder(q)) /\ Claims(q)' = Claims(q)
    BY <1>3, <1>10, LocalClaims
<1>11. JobShape' /\ NewApart'
    <2>1. \A d \in container' : d = c /\ JobOf(d.pod)' # {}
        BY <1>1, <1>2, <1>3
    <2>2. podpc' = "append" => podNsZone' = CachedSubnets(p)'
        BY <1>3 DEF IPAMInv, JobShape, CachedSubnets
    <2>3. JobShape'
        BY <1>1, <1>2, <1>3, <2>1, <2>2 DEF JobShape
    <2>4. NewApart'
        BY <1>1, <1>2, <1>3, <1>8, <1>9 DEF NewApart
    <2> QED BY <2>3, <2>4
<1>12. ASSUME NEW n \in NS, NEW t \in Lists(n)'
       PROVE  t \in Lists(n) \/ (t = s /\ n = PodNS[p])
    BY <1>3, <1>6 DEF Lists
<1>13. s \in Lists(PodNS[p]) \/ \A t \in vsubnets : t.cidr # s.cidr
    BY DEF Lists, CachedSubnets
<1>14. ListsRight'
    <2>1. ASSUME NEW n \in NS, NEW t \in Lists(n)'
          PROVE  [cidr |-> t.cidr, zone |-> n] \in vsubnets'
        BY <1>12 DEF IPAMInv, ListsRight
    <2>2. ASSUME NEW n \in NS, NEW t \in Lists(n)', NEW u \in Lists(n)', t.cidr = u.cidr
          PROVE  t = u
        <3>1. CASE t \in Lists(n) /\ u \in Lists(n)
            BY <2>2, <3>1 DEF IPAMInv, ListsRight
        <3>2. ASSUME NEW x \in Lists(n), x.cidr = s.cidr, n = PodNS[p]
              PROVE  x = s
            <4>1. [cidr |-> x.cidr, zone |-> n] \in vsubnets
                BY DEF IPAMInv, ListsRight
            <4>2. s \in Lists(n)
                BY <1>13, <3>2, <4>1
            <4> QED BY <3>2, <4>2 DEF IPAMInv, ListsRight
        <3> QED BY <1>12, <2>2, <3>1, <3>2
    <2> QED BY <2>1, <2>2 DEF ListsRight
<1>15. Unique'
    <2>1. ASSUME NEW q \in PodName, q # p, Holder(q), NEW d \in Claims(q), NEW x \in Claims(p)'
          PROVE  Apart(x, d) /\ Apart(d, x)
        <3>1. Apart(x, d)
            BY <1>3, <1>8, <1>9, <2>1 DEF IPAMInv, Unique
        <3> QED BY <3>1 DEF Apart
    <2>2. ASSUME NEW q \in PodName, NEW r \in PodName, q # r, Holder(q)', Holder(r)',
                 NEW d \in Claims(q)', NEW x \in Claims(r)'
          PROVE  Apart(d, x)
        <3>1. CASE q # p /\ r # p
            BY <1>10, <2>2, <3>1 DEF IPAMInv, Unique
        <3>2. CASE q = p
            BY <1>10, <2>1, <2>2, <3>2
        <3>3. CASE r = p
            BY <1>10, <2>1, <2>2, <3>3
        <3> QED BY <3>1, <3>2, <3>3
    <2> QED BY <2>2 DEF Unique
<1>16. Reserved'
    <2>1. ASSUME NEW q \in PodName, Holder(q)', NEW d \in Claims(q)',
                 NEW t \in Lists(PodNS[q])', t.cidr = d.cidr
          PROVE  Slot(t, d.host) \in allocated'
        <3>1. PodNS[q] \in NS /\ PodNS[p] \in NS
            BY <1>3, PodNSAssumption
        <3>2. CASE q = p /\ d = c
            <4>1. s \in Lists(PodNS[p])'
                BY <1>3 DEF Lists
            <4>2. t = s
                BY <1>1, <1>14, <2>1, <3>1, <3>2, <4>1 DEF ListsRight
            <4> QED BY <1>1, <3>2, <4>2
        <3>3. CASE d \in Claims(q) /\ Holder(q)
            <4>1. t \in Lists(PodNS[q])
                <5>1. [cidr |-> d.cidr, zone |-> PodNS[q]] \in vsubnets
                    BY <3>3, ClaimZone
                <5>2. t = s => \E v \in vsubnets : v.cidr = s.cidr
                    BY <2>1, <5>1
                <5> QED BY <1>12, <1>13, <2>1, <3>1, <5>2
            <4> QED BY <2>1, <3>3, <4>1 DEF IPAMInv, Reserved
        <3> QED BY <1>9, <1>10, <2>1, <3>2, <3>3
    <2> QED BY <2>1 DEF Reserved
<1>17. NsRight' /\ DownRight'
    BY <1>3, <1>6 DEF NsRight, DownRight, IPAMInv
<1> QED BY <1>3, <1>7, <1>11, <1>14, <1>15, <1>16, <1>17, Assemble

\* No address was found: the next part of PodCreated, or prefix, is tried.
LEMMA NoAddressStep ==
    ASSUME Premises, IPAMInv, Next, up, podpc \in {"case2", "case3", "addsubnet"},
           podpc' \in {"case3", "addsubnet"},
           NEW j \in job, podpc' = "addsubnet" => podNsZone' = CachedSubnets(j.pod),
           vsubnets \subseteq vsubnets',
           UNCHANGED <<job, container, csubnet, vcont, cni, podq, store, Namespaces,
                       allocated, Pods>>, PodFrame
    PROVE  IPAMInv'
<1> DEFINE p == j.pod
<1>1. container = {} /\ csubnet = {} /\ podpc \in Creating \ {"waitns"} /\ podpc' \in Creating \ {"waitns"}
      /\ podpc \in Between /\ podpc' \in Between
    BY DEF IPAMInv, JobShape, Creating, Between
<1>2. /\ Local({p}) /\ PodRight(p) /\ QueueRight(p)' /\ BornRight(p)'
      /\ apipods' = apipods /\ up' = up /\ p \in PodName
      /\ job = {j} /\ JobOf(p) = {j} /\ JobOf(p)' = {j} /\ Work(p) = {} /\ Work(p)' = {}
      /\ (Exists(p)' <=> Exists(p)) /\ (FirstLife' <=> FirstLife)
    BY <1>1, WorkFrame DEF Exists
<1>3. podpc' = "addsubnet" => podNsZone' = CachedSubnets(p)'
    BY DEF CachedSubnets
<1> HIDE DEF p
<1>4. Named(p)' = Named(p) /\ PodsOf(p)' = PodsOf(p) /\ CniOf(p)' = CniOf(p)
    BY DEF Named, PodsOf, CniOf
<1>5. PodRight(p)'
    <2>1. TaskRight(p)'
        BY <1>1, <1>2, <1>4 DEF PodRight, TaskRight, Deleting
    <2>2. NoNamespaceRight(p)' /\ PlacesRight(p)'
        BY <1>1, <1>2, <1>4 DEF PodRight, NoNamespaceRight, PlacesRight, TaskRight
    <2>3. LiveRight(p)' /\ UnseenRight(p)'
        BY <1>1, <1>2, <1>4 DEF PodRight, LiveRight, UnseenRight, Between
    <2> QED BY <1>2, <2>1, <2>2, <2>3 DEF PodRight
<1>6. JobShape' /\ NewApart'
    BY <1>1, <1>2, <1>3 DEF JobShape, NewApart, p
<1>7. Holder(p) /\ Claims(p)' \subseteq Claims(p)
    <2>1. Fresh(p)' => Fresh(p)
        BY <1>1, <1>2, <1>4 DEF Fresh
    <2> QED BY <1>1, <1>2, <1>4, <2>1 DEF Holder, Claims, Known, Between
<1> QED BY <1>2, <1>5, <1>6, <1>7, QuietStep

\* The reservation of case2create.
LEMMA Case2AllocateStep ==
    ASSUME Premises, IPAMInv, Next, Case2Allocate
    PROVE  IPAMInv'
<1>1. PICK j \in job :
        \/ podpc' = "case3" /\ UNCHANGED <<allocated, container, csubnet>>
        \/ \E s \in CustomSubnets(j.pod) : \E h \in CustomHosts(j.pod, s) :
            /\ allocated' = Reserve(allocated, s, h) /\ podpc' = "create2"
            /\ container' = {NewContainer(j, s.cidr, h)} /\ csubnet' = {s}
    BY DEF Case2Allocate, PodGoto
<1>2. /\ up /\ podpc = "case2" /\ job' = job /\ PodFrame
      /\ UNCHANGED <<vsubnets, vcont, cni, podq, store, Namespaces, Pods, podNsZone>>
    BY DEF Case2Allocate, PodGoto, cniVars
<1>3. CASE podpc' = "case3" /\ UNCHANGED <<allocated, container, csubnet>>
    BY <1>2, <1>3, NoAddressStep
<1>4. ASSUME NEW s \in CustomSubnets(j.pod), NEW h \in CustomHosts(j.pod, s),
             allocated' = Reserve(allocated, s, h), podpc' = "create2",
             container' = {NewContainer(j, s.cidr, h)}, csubnet' = {s}
      PROVE  IPAMInv'
    <2>1. s \in CachedSubnets(j.pod) /\ h \in Host /\ Slot(s, h) \notin allocated
        BY DEF CustomSubnets, CustomHosts, FreeHosts
    <2>2. j.pod \in PodName /\ PodNS[j.pod] \in NS
        BY OneJob, PodNSAssumption DEF IPAMInv
    <2>3. s \in Subnet /\ [cidr |-> s.cidr, zone |-> PodNS[j.pod]] \in vsubnets
        BY <2>1, <2>2 DEF IPAMInv, ListsRight, Lists, CachedSubnets, TypeOK, CacheTypeOK
    <2> QED BY <1>2, <1>4, <2>1, <2>3, AllocateStep DEF Reserve
<1> QED BY <1>1, <1>3, <1>4

\* The reservation of case3create in a cached subnet.
LEMMA Case3AllocateStep ==
    ASSUME Premises, IPAMInv, Next, Case3Allocate
    PROVE  IPAMInv'
<1>1. PICK j \in job :
        \/ \E s \in ClusterSubnets(j.pod) : \E h \in ClusterHosts(s) :
            /\ allocated' = Reserve(allocated, s, h) /\ podpc' = "create3" /\ podNsZone' = podNsZone
            /\ container' = {NewContainer(j, s.cidr, h)} /\ csubnet' = {s}
        \/ /\ podpc' = "addsubnet" /\ podNsZone' = CachedSubnets(j.pod)
           /\ UNCHANGED <<allocated, container, csubnet>>
    BY DEF Case3Allocate, PodGoto
<1>2. /\ up /\ podpc = "case3" /\ job' = job /\ PodFrame
      /\ UNCHANGED <<vsubnets, vcont, cni, podq, store, Namespaces, Pods>>
    BY DEF Case3Allocate, PodGoto, cniVars
<1>3. CASE podpc' = "addsubnet" /\ podNsZone' = CachedSubnets(j.pod) /\ UNCHANGED <<allocated, container, csubnet>>
    BY <1>2, <1>3, NoAddressStep
<1>4. ASSUME NEW s \in ClusterSubnets(j.pod), NEW h \in ClusterHosts(s), podNsZone' = podNsZone,
             allocated' = Reserve(allocated, s, h), podpc' = "create3",
             container' = {NewContainer(j, s.cidr, h)}, csubnet' = {s}
      PROVE  IPAMInv'
    <2>1. s \in CachedSubnets(j.pod) /\ h \in Host /\ Slot(s, h) \notin allocated
        BY DEF ClusterSubnets, ClusterHosts, FreeHosts
    <2>2. j.pod \in PodName /\ PodNS[j.pod] \in NS
        BY OneJob, PodNSAssumption DEF IPAMInv
    <2>3. s \in Subnet /\ [cidr |-> s.cidr, zone |-> PodNS[j.pod]] \in vsubnets
        BY <2>1, <2>2 DEF IPAMInv, ListsRight, Lists, CachedSubnets, TypeOK, CacheTypeOK
    <2> QED BY <1>2, <1>4, <2>1, <2>3, AllocateStep DEF Reserve
<1> QED BY <1>1, <1>3, <1>4

\* The reservation of case3create in a new subnet.
LEMMA Case3AddSubnetStep ==
    ASSUME Premises, IPAMInv, Next, Case3AddSubnet
    PROVE  IPAMInv'
<1>1. PICK j \in job, c \in AddableCIDRs, h \in Host :
        /\ vsubnets' = vsubnets \cup {[cidr |-> c, zone |-> PodNS[j.pod]]}
        /\ allocated' = Reserve(allocated, [cidr |-> c, gen |-> gen, customed |-> FALSE], h)
        /\ container' = {NewContainer(j, c, h)}
        /\ csubnet' = {[cidr |-> c, gen |-> gen, customed |-> FALSE]}
    BY DEF Case3AddSubnet
<1>2. /\ up /\ podpc = "addsubnet" /\ podpc' = "append" /\ job' = job /\ PodFrame
      /\ UNCHANGED <<vcont, cni, podq, store, Namespaces, Pods, podNsZone>>
    BY DEF Case3AddSubnet, PodGoto, cniVars
<1> DEFINE s == [cidr |-> c, gen |-> gen, customed |-> FALSE]
<1>3. c \in CIDR /\ gen \in Nat /\ \A t \in vsubnets : t.cidr # c
    BY DEF AddableCIDRs, IPAMInv, TypeOK, CacheTypeOK, CIDR
<1>4. s \in Subnet /\ s.cidr = c
    BY <1>3 DEF Subnet
<1>5. vsubnets \subseteq vsubnets' /\ [cidr |-> s.cidr, zone |-> PodNS[j.pod]] \in vsubnets'
    BY <1>1, <1>4
<1>6. allocated' = allocated \cup {Slot(s, h)} /\ container' = {NewContainer(j, s.cidr, h)} /\ csubnet' = {s}
    BY <1>1, <1>4 DEF Reserve
<1> HIDE DEF s
<1> QED BY <1>2, <1>3, <1>4, <1>5, <1>6, AllocateStep

\* A prefix is added to the VSD without the agent knowing.
LEMMA Case3AddLostStep ==
    ASSUME Premises, IPAMInv, Next, Case3AddLost
    PROVE  IPAMInv'
<1>1. /\ up /\ podpc = "addsubnet" /\ podpc' = podpc /\ PodFrame /\ vsubnets \subseteq vsubnets'
      /\ UNCHANGED <<job, container, csubnet, vcont, cni, podq, store, Namespaces, allocated, Pods>>
      /\ podNsZone' = podNsZone
    BY DEF Case3AddLost, podVars, cniVars
<1>2. PICK j \in job : TRUE
    BY DEF Case3AddLost
<1>3. podNsZone = CachedSubnets(j.pod)
    BY <1>1 DEF IPAMInv, JobShape
<1> QED BY <1>1, <1>2, <1>3, NoAddressStep

\* The new subnet is entered in the list of the pod's namespace.
LEMMA Case3AppendStep ==
    ASSUME Premises, IPAMInv, Next, Case3Append
    PROVE  IPAMInv'
<1>1. PICK j \in job :
        Namespaces' = [Namespaces EXCEPT ![PodNS[j.pod]] =
                          [exists |-> TRUE, subnets |-> podNsZone \cup csubnet]]
    BY DEF Case3Append
<1>2. /\ up /\ podpc = "append" /\ podpc' = "create3" /\ PodFrame
      /\ UNCHANGED <<job, container, csubnet, vsubnets, vcont, cni, podq, store, allocated, Pods>>
    BY DEF Case3Append, PodGoto, cniVars
<1> DEFINE p == j.pod
           n == PodNS[p]
<1>3. /\ p \in PodName /\ n \in NS /\ JobOf(p) = {j} /\ PodRight(p) /\ podNsZone = Namespaces[n].subnets
      /\ \A c \in container : c.pod = p
    BY <1>2, OneJob, PodNSAssumption DEF IPAMInv, JobShape, CachedSubnets
<1>4. Namespaces[n].exists = TRUE
    BY <1>2, <1>3 DEF PodRight, TaskRight, Creating, Exists, IPAMInv, TypeOK, CacheTypeOK
<1>5. /\ \A m \in NS : Namespaces'[m].exists = Namespaces[m].exists
      /\ \A m \in NS : m # n => Namespaces'[m] = Namespaces[m]
      /\ Namespaces'[n].subnets = Namespaces[n].subnets \cup csubnet
    BY <1>1, <1>3, <1>4 DEF IPAMInv, TypeOK, CacheTypeOK
<1>6. \A q \in PodName : Exists(q)' = Exists(q)
    BY <1>5, PodNSAssumption DEF Exists
<1>7. /\ Local({p}) /\ QueueRight(p)' /\ BornRight(p)' /\ apipods' = apipods /\ up' = up
      /\ job = {j} /\ JobOf(p)' = {j} /\ Work(p) = container /\ Work(p)' = container
      /\ (Exists(p)' <=> Exists(p)) /\ (FirstLife' <=> FirstLife)
    BY <1>2, <1>3, <1>6, WorkFrame
<1>8. UNCHANGED <<nsq, apins, nspc, nsjob, nssubnets>>
    BY <1>2, PodFrameIs
<1> HIDE DEF p, n
<1>9. Named(p)' = Named(p) /\ PodsOf(p)' = PodsOf(p) /\ CniOf(p)' = CniOf(p)
    BY <1>2 DEF Named, PodsOf, CniOf
<1>10. PodRight(p)'
    <2>1. TaskRight(p)'
        BY <1>2, <1>3, <1>7, <1>9 DEF PodRight, TaskRight, Creating, Deleting
    <2>2. NoNamespaceRight(p)' /\ PlacesRight(p)'
        BY <1>2, <1>3, <1>7, <1>9 DEF PodRight, NoNamespaceRight, PlacesRight, TaskRight, Creating
    <2>3. LiveRight(p)' /\ UnseenRight(p)'
        BY <1>2, <1>3, <1>7, <1>9 DEF PodRight, LiveRight, UnseenRight
    <2> QED BY <1>7, <2>1, <2>2, <2>3 DEF PodRight
<1>11. Holder(p) /\ Known(p)' = Known(p) /\ Claims(p)' = Claims(p)
    <2>1. Fresh(p)' <=> Fresh(p)
        BY <1>2, <1>3, <1>7, <1>9 DEF Fresh, Between
    <2>2. Known(p)' = Known(p)
        BY <1>9, <2>1 DEF Known
    <2> QED BY <1>2, <1>3, <1>7, <2>2 DEF Holder, Claims
<1>12. JobShape' /\ NewApart'
    <2>1. \A c \in container' : JobOf(c.pod)' # {}
        BY <1>2, <1>3, <1>7
    <2>2. JobShape'
        BY <1>2, <1>7, <2>1 DEF JobShape, IPAMInv
    <2>3. NewApart'
        BY <1>2, <1>3, <1>11 DEF NewApart, IPAMInv
    <2> QED BY <2>2, <2>3
<1>13. \A m \in NS : Lists(m)' \subseteq Lists(m)
    <2>1. ASSUME NEW m \in NS, m # n
          PROVE  Lists(m)' \subseteq Lists(m)
        BY <1>2, <1>5, <1>8, <2>1 DEF Lists
    <2>2. Lists(n)' \subseteq Lists(n)
        BY <1>2, <1>3, <1>5, <1>7, <1>8 DEF Lists, n, p
    <2> QED BY <2>1, <2>2
<1>14. Reserved' /\ Unique'
    <2>1. \A x \in PodName \cap {p} : Holder(x) /\ Claims(x)' \subseteq Claims(x)
        BY <1>11
    <2> QED BY <1>2, <1>7, <1>13, <2>1, ClaimsShrink DEF IPAMInv
<1>15. ListsRight'
    BY <1>2, <1>13 DEF IPAMInv, ListsRight
<1>16. NsRight' /\ DownRight'
    <2>1. \A m \in NS : ~Namespaces'[m].exists => Namespaces'[m].subnets = Namespaces[m].subnets
        BY <1>4, <1>5
    <2> QED BY <1>2, <1>5, <1>7, <1>8, <2>1 DEF NsRight, DownRight, IPAMInv
<1> QED BY <1>7, <1>10, <1>12, <1>14, <1>15, <1>16, Assemble

----------------------------------------------------------------------------
(* Steps of the cluster *)

\* The queue of a pod with one more event.
LEMMA PodAppend ==
    ASSUME NEW q \in PodQueue, NEW e \in PodEvent
    PROVE  /\ Append(q, e) # <<>> /\ Len(q) \in Nat /\ Len(Append(q, e)) = Len(q) + 1
           /\ \A i \in 1 .. Len(q) : Append(q, e)[i] = q[i]
           /\ Append(q, e)[Len(q) + 1] = e
           /\ Head(Append(q, e)) = IF q = <<>> THEN e ELSE Head(q)
<1>1. /\ Append(q, e) \in PodQueue /\ Len(q) \in Nat /\ Len(Append(q, e)) = Len(q) + 1
      /\ \A i \in 1 .. Len(q) : Append(q, e)[i] = q[i]
      /\ Append(q, e)[Len(q) + 1] = e
    BY DEF PodQueue
<1>2. Append(q, e) # <<>>
    BY <1>1 DEF PodQueue
<1>3. Head(Append(q, e)) = Append(q, e)[1]
    BY <1>1, <1>2 DEF PodQueue
<1>4. CASE q = <<>>
    BY <1>1, <1>3, <1>4
<1>5. CASE q # <<>>
    <2>1. 1 \in 1 .. Len(q) /\ Head(q) = q[1]
        BY <1>5 DEF PodQueue
    <2> QED BY <1>1, <1>3, <1>5, <2>1
<1> QED BY <1>1, <1>2, <1>4, <1>5

\* What a change of a pod in the cluster has to show.
LEMMA ClusterPodStep ==
    ASSUME Premises, IPAMInv, Next, NEW p \in PodName, ClusterFrame, UNCHANGED <<apins, nsq>>,
           \A q \in PodName \ {p} : apipods'[q] = apipods[q] /\ podq'[q] = podq[q],
           ~up => podq' = podq,
           Holder(p) \/ Claims(p) = {},
           (UNCHANGED <<Named(p), PodsOf(p), CniOf(p), Work(p), JobOf(p), Exists(p), FirstLife, vsubnets>>)
                => PodRight(p)'
    PROVE  IPAMInv'
<1>1. /\ UNCHANGED <<vsubnets, vcont, cni, store, Namespaces, allocated, Pods, podpc, job, container, csubnet>>
      /\ UNCHANGED <<podNsZone, nspc, nsjob, nssubnets, up, restarts>>
    BY DEF ClusterFrame, vsdVars, cniVars, ipamVars, podVars, nsVars, procVars
<1>2. \A q \in PodName : /\ Named(q)' = Named(q) /\ PodsOf(q)' = PodsOf(q) /\ CniOf(q)' = CniOf(q)
                         /\ Work(q)' = Work(q) /\ JobOf(q)' = JobOf(q) /\ Exists(q)' = Exists(q)
    BY <1>1 DEF Named, PodsOf, CniOf, Work, JobOf, Exists
<1>3. FirstLife' = FirstLife
    BY <1>1 DEF FirstLife
<1>4. Local({p})
    BY <1>1, <1>2 DEF Local
<1>5. PodRight(p)'
    BY <1>1, <1>2, <1>3
<1>6. \A q \in PodName : Known(q)' = Known(q) /\ Claims(q)' = Claims(q)
    <2>1. \A q \in PodName : Fresh(q)' = Fresh(q)
        BY <1>1, <1>2, <1>3 DEF Fresh
    <2>2. \A q \in PodName : Known(q)' = Known(q)
        BY <1>2, <2>1 DEF Known
    <2> QED BY <1>2, <2>2 DEF Claims
<1>7. NsRight' /\ JobShape'
    <2>1. \A c \in container : JobOf(c.pod)' = JobOf(c.pod)
        BY <1>1 DEF JobOf
    <2> QED BY <1>1, <2>1 DEF NsRight, JobShape, IPAMInv, CachedSubnets
<1>8. NewApart'
    <2>1. \A c \in container : c.pod \in PodName
        BY DEF IPAMInv, TypeOK, WorkerTypeOK, Container
    <2> QED BY <1>1, <1>6, <2>1 DEF NewApart, IPAMInv
<1>9. \A n \in NS : Lists(n)' = Lists(n)
    BY <1>1 DEF Lists
<1>10. ListsRight'
    BY <1>1, <1>9 DEF ListsRight, IPAMInv
<1>11. Reserved' /\ Unique'
    <2>1. \A x \in PodName \cap {p} : (Holder(x) /\ Claims(x)' \subseteq Claims(x)) \/ Claims(x)' = {}
        BY <1>6
    <2>2. \A n \in NS : Lists(n)' \subseteq Lists(n)
        BY <1>9
    <2> QED BY <1>1, <1>4, <2>1, <2>2, ClaimsShrink DEF IPAMInv
<1>12. DownRight'
    BY <1>1 DEF DownRight, IPAMInv
<1> QED BY <1>4, <1>5, <1>7, <1>8, <1>10, <1>11, <1>12, Assemble

\* What Notify does to the pod's queue.
LEMMA NotifyIs ==
    ASSUME TypeOK, NEW p \in PodName, NEW k \in {"set", "del"}, Notify(p, k),
           apipods'[p].uid \in UID, apipods'[p].node \in Where
    PROVE  LET e == [kind |-> k, uid |-> apipods'[p].uid, node |-> apipods'[p].node] IN
           /\ e \in PodEvent /\ podq[p] \in PodQueue
           /\ podq'[p] = IF up THEN Append(podq[p], e) ELSE podq[p]
           /\ \A q \in PodName \ {p} : podq'[q] = podq[q]
           /\ ~up => podq' = podq
<1>1. podq \in [PodName -> PodQueue]
    BY DEF TypeOK, APITypeOK
<1> QED BY <1>1 DEF Notify, PodEvent

\* CreatePod: the name was never used and nothing is left under it.
LEMMA CreatePodStep ==
    ASSUME Premises, IPAMInv, Next, NEW p \in PodName, CreatePod(p)
    PROVE  IPAMInv'
<1> DEFINE e == [kind |-> "set", uid |-> apipods'[p].uid, node |-> apipods'[p].node]
<1>1. apipods \in [PodName -> [live : BOOLEAN, uid : 0 .. MaxUID, node : Where]] /\ MaxUID = 1
    BY DEF IPAMInv, TypeOK, APITypeOK, Premises
<1>2. apipods[p].uid = 0
    <2>1. apipods[p].uid \in 0 .. MaxUID /\ apipods[p].uid < MaxUID
        BY <1>1 DEF CreatePod
    <2> QED BY <1>1, <2>1
<1>3. /\ apipods'[p].live /\ apipods'[p].uid = 1 /\ apipods'[p].node = NoNode
      /\ \A q \in PodName \ {p} : apipods'[q] = apipods[q]
    BY <1>1, <1>2 DEF CreatePod
<1>4. /\ e \in PodEvent /\ podq[p] \in PodQueue /\ podq'[p] = IF up THEN Append(podq[p], e) ELSE podq[p]
      /\ \A q \in PodName \ {p} : podq'[q] = podq[q]
      /\ ~up => podq' = podq
    <2>1. apipods'[p].uid \in UID /\ apipods'[p].node \in Where
        BY <1>1, <1>3 DEF Where, UID
    <2>2. TypeOK /\ Notify(p, "set")
        BY DEF IPAMInv, CreatePod
    <2> QED BY <2>1, <2>2, NotifyIs
<1>5. e.kind = "set" /\ e.node = NoNode
    BY <1>3
<1>6. ClusterFrame /\ UNCHANGED <<apins, nsq>> /\ UNCHANGED <<up, store>>
    BY DEF CreatePod, ClusterFrame, procVars
<1> HIDE DEF e
<1>7. /\ podq[p] = <<>> /\ store[p] = {} /\ JobOf(p) = {}
      /\ Named(p) = {} /\ PodsOf(p) = {} /\ CniOf(p) = {} /\ Work(p) = {}
    BY <1>2 DEF IPAMInv, PodRight, BornRight
<1>8. Claims(p) = {}
    BY <1>7 DEF Claims, Known
<1>9. QueueRight(p)'
    <2>1. CASE up
        <3>1. /\ podq'[p] # <<>> /\ Len(podq'[p]) = 1 /\ podq'[p][1] = e /\ Head(podq'[p]) = e
            BY <1>4, <1>7, <2>1, PodAppend
        <3> QED BY <1>5, <3>1 DEF QueueRight
    <2>2. CASE ~up
        BY <1>4, <1>6, <1>7, <2>2 DEF QueueRight
    <2> QED BY <2>1, <2>2
<1>10. ASSUME UNCHANGED <<Named(p), PodsOf(p), CniOf(p), Work(p), JobOf(p), Exists(p), FirstLife, vsubnets>>
       PROVE  PodRight(p)'
    <2>1. BornRight(p)' /\ TaskRight(p)' /\ UnseenRight(p)'
        BY <1>3, <1>7, <1>10 DEF BornRight, TaskRight, UnseenRight
    <2>2. NoNamespaceRight(p)' /\ PlacesRight(p)' /\ LiveRight(p)'
        BY <1>6, <1>7, <1>10 DEF NoNamespaceRight, PlacesRight, LiveRight
    <2> QED BY <1>9, <2>1, <2>2 DEF PodRight
<1> QED BY <1>3, <1>4, <1>6, <1>8, <1>10, ClusterPodStep

\* SchedulePod: a pod without a node is on no agent server.
LEMMA SchedulePodStep ==
    ASSUME Premises, IPAMInv, Next, NEW p \in PodName, NEW n \in Node, SchedulePod(p, n)
    PROVE  IPAMInv'
<1> DEFINE e == [kind |-> "set", uid |-> apipods'[p].uid, node |-> apipods'[p].node]
<1>1. /\ apipods \in [PodName -> [live : BOOLEAN, uid : 0 .. MaxUID, node : Where]]
      /\ apipods[p].live /\ apipods[p].node = NoNode /\ apipods[p].uid \in UID
    BY DEF IPAMInv, TypeOK, APITypeOK, SchedulePod
<1>2. /\ apipods'[p].live /\ apipods'[p].uid = apipods[p].uid /\ apipods'[p].node = n
      /\ \A q \in PodName \ {p} : apipods'[q] = apipods[q]
    BY <1>1 DEF SchedulePod
<1>3. /\ e \in PodEvent /\ podq[p] \in PodQueue /\ podq'[p] = IF up THEN Append(podq[p], e) ELSE podq[p]
      /\ \A q \in PodName \ {p} : podq'[q] = podq[q]
      /\ ~up => podq' = podq
    <2>1. apipods'[p].uid \in UID /\ apipods'[p].node \in Where
        BY <1>1, <1>2 DEF Where
    <2>2. TypeOK /\ Notify(p, "set")
        BY DEF IPAMInv, SchedulePod
    <2> QED BY <2>1, <2>2, NotifyIs
<1>4. e.kind = "set" /\ e.node = n
    BY <1>2
<1>5. ClusterFrame /\ UNCHANGED <<apins, nsq>> /\ UNCHANGED <<up, store, podpc>>
    BY DEF SchedulePod, ClusterFrame, procVars, podVars
<1> HIDE DEF e
<1>6. PodRight(p)
    BY DEF IPAMInv
<1>7. CniOf(p) = {}
    <2>1. \A x \in CniOf(p) : x.node \in Node /\ x.node = NoNode
        BY <1>1, <1>6 DEF PodRight, PlacesRight, CniOf, IPAMInv, TypeOK, VSDTypeOK
    <2> QED BY <2>1, NodeAssumption
<1>8. QueueRight(p)'
    <2>1. /\ \A i \in 1 .. Len(podq[p]) : podq[p][i].node = NoNode /\ podq[p][i].kind # "del"
          /\ store[p] = {} /\ podq[p] # <<>> => Head(podq[p]).kind = "set"
          /\ up => store[p] # {} \/ podq[p] # <<>>
        BY <1>1, <1>6 DEF PodRight, QueueRight
    <2>2. CASE up
        <3>1. /\ podq'[p] # <<>> /\ Len(podq[p]) \in Nat /\ Len(podq'[p]) = Len(podq[p]) + 1
              /\ \A i \in 1 .. Len(podq[p]) : podq'[p][i] = podq[p][i]
              /\ podq'[p][Len(podq[p]) + 1] = e
              /\ Head(podq'[p]) = IF podq[p] = <<>> THEN e ELSE Head(podq[p])
            BY <1>3, <2>2, PodAppend
        <3>2. \A i \in 1 .. Len(podq'[p]) : i \in 1 .. Len(podq[p]) \/ i = Len(podq[p]) + 1
            BY <3>1
        <3>3. \A i \in 1 .. Len(podq'[p]) : podq'[p][i].node \in {NoNode, n} /\ podq'[p][i].kind # "del"
            BY <1>4, <2>1, <3>1, <3>2
        <3> QED BY <1>2, <1>4, <1>5, <2>1, <3>1, <3>3 DEF QueueRight
    <2>3. CASE ~up
        BY <1>2, <1>3, <1>5, <2>1, <2>3 DEF QueueRight
    <2> QED BY <2>2, <2>3
<1>9. ASSUME UNCHANGED <<Named(p), PodsOf(p), CniOf(p), Work(p), JobOf(p), Exists(p), FirstLife, vsubnets>>
      PROVE  PodRight(p)'
    <2>1. BornRight(p)' /\ UnseenRight(p)'
        BY <1>1, <1>2, <1>6, <1>7, <1>9 DEF PodRight, BornRight, UnseenRight
    <2>2. TaskRight(p)'
        BY <1>1, <1>2, <1>5, <1>6, <1>7, <1>9 DEF PodRight, TaskRight
    <2>3. NoNamespaceRight(p)' /\ PlacesRight(p)' /\ LiveRight(p)'
        BY <1>1, <1>2, <1>5, <1>6, <1>7, <1>9 DEF PodRight, NoNamespaceRight, PlacesRight, LiveRight
    <2> QED BY <1>8, <2>1, <2>2, <2>3 DEF PodRight
<1>10. Holder(p)
    BY <1>1 DEF Holder
<1> QED BY <1>2, <1>3, <1>5, <1>9, <1>10, ClusterPodStep

\* DeletePod: the agent is still to be told.
LEMMA DeletePodStep ==
    ASSUME Premises, IPAMInv, Next, NEW p \in PodName, DeletePod(p)
    PROVE  IPAMInv'
<1> DEFINE e == [kind |-> "del", uid |-> apipods'[p].uid, node |-> apipods'[p].node]
<1>1. /\ apipods \in [PodName -> [live : BOOLEAN, uid : 0 .. MaxUID, node : Where]]
      /\ apipods[p].live /\ apipods[p].uid \in UID
    BY DEF IPAMInv, TypeOK, APITypeOK, DeletePod
<1>2. /\ ~apipods'[p].live /\ apipods'[p].uid = apipods[p].uid /\ apipods'[p].node = apipods[p].node
      /\ \A q \in PodName \ {p} : apipods'[q] = apipods[q]
    BY <1>1 DEF DeletePod
<1>3. /\ e \in PodEvent /\ podq[p] \in PodQueue /\ podq'[p] = IF up THEN Append(podq[p], e) ELSE podq[p]
      /\ \A q \in PodName \ {p} : podq'[q] = podq[q]
      /\ ~up => podq' = podq
    <2>1. apipods'[p].uid \in UID /\ apipods'[p].node \in Where
        BY <1>1, <1>2
    <2>2. TypeOK /\ Notify(p, "del")
        BY DEF IPAMInv, DeletePod
    <2> QED BY <2>1, <2>2, NotifyIs
<1>4. e.kind = "del" /\ e.node = apipods[p].node
    BY <1>2
<1>5. ClusterFrame /\ UNCHANGED <<apins, nsq>> /\ UNCHANGED <<up, store, podpc>>
    BY DEF DeletePod, ClusterFrame, procVars, podVars
<1> HIDE DEF e
<1>6. PodRight(p)
    BY DEF IPAMInv
<1>7. /\ \A i \in 1 .. Len(podq[p]) : podq[p][i].node \in {NoNode, apipods[p].node} /\ podq[p][i].kind # "del"
      /\ store[p] = {} /\ podq[p] # <<>> => Head(podq[p]).kind = "set"
      /\ up => store[p] # {} \/ podq[p] # <<>>
    BY <1>1, <1>6 DEF PodRight, QueueRight
<1>8. QueueRight(p)' /\ (store[p] = {} /\ podq'[p] # <<>> => podq[p] # <<>> /\ Head(podq'[p]) = Head(podq[p]))
    <2>1. CASE up
        <3>1. /\ podq'[p] # <<>> /\ Len(podq[p]) \in Nat /\ Len(podq'[p]) = Len(podq[p]) + 1
              /\ \A i \in 1 .. Len(podq[p]) : podq'[p][i] = podq[p][i]
              /\ podq'[p][Len(podq[p]) + 1] = e
              /\ Head(podq'[p]) = IF podq[p] = <<>> THEN e ELSE Head(podq[p])
            BY <1>3, <2>1, PodAppend
        <3>2. \A i \in 1 .. Len(podq'[p]) : i \in 1 .. Len(podq[p]) \/ i = Len(podq'[p])
            BY <3>1
        <3>3. \A i \in 1 .. Len(podq'[p]) :
                /\ podq'[p][i].node \in {NoNode, apipods[p].node}
                /\ podq'[p][i].kind = "del" => i = Len(podq'[p])
            BY <1>4, <1>7, <3>1, <3>2
        <3>4. store[p] = {} => podq[p] # <<>> /\ Head(podq'[p]) = Head(podq[p])
            BY <1>7, <2>1, <3>1
        <3> QED BY <1>2, <1>5, <1>7, <3>3, <3>4 DEF QueueRight
    <2>2. CASE ~up
        BY <1>2, <1>3, <1>5, <1>7, <2>2 DEF QueueRight
    <2> QED BY <2>1, <2>2
<1>9. ASSUME UNCHANGED <<Named(p), PodsOf(p), CniOf(p), Work(p), JobOf(p), Exists(p), FirstLife, vsubnets>>
      PROVE  PodRight(p)'
    <2>1. BornRight(p)' /\ LiveRight(p)'
        BY <1>1, <1>2, <1>6, <1>9 DEF PodRight, BornRight, LiveRight
    <2>2. UnseenRight(p)'
        BY <1>5, <1>6, <1>8, <1>9 DEF PodRight, UnseenRight
    <2>3. TaskRight(p)'
        BY <1>1, <1>2, <1>5, <1>6, <1>9 DEF PodRight, TaskRight
    <2>4. NoNamespaceRight(p)' /\ PlacesRight(p)'
        BY <1>1, <1>2, <1>5, <1>6, <1>9 DEF PodRight, NoNamespaceRight, PlacesRight
    <2> QED BY <1>8, <2>1, <2>2, <2>3, <2>4 DEF PodRight
<1>10. Holder(p)
    BY <1>1 DEF Holder
<1> QED BY <1>2, <1>3, <1>5, <1>9, <1>10, ClusterPodStep

----------------------------------------------------------------------------
(* Steps of the namespace controller and of the cluster's namespaces *)

\* What a step has to show that touches no pod.
LEMMA NoPodStep ==
    ASSUME Premises, IPAMInv, Next,
           UNCHANGED <<vsubnets, vcont, cni, apipods, podq, store, Namespaces, Pods, podpc, job,
                       container, csubnet, podNsZone, up, restarts>>,
           allocated \subseteq allocated', NsRight', nsjob' = {} \/ up,
           ListsRight', (\A n \in NS : Lists(n)' \subseteq Lists(n)) \/ Reserved'
    PROVE  IPAMInv'
<1>1. \A q \in PodName : /\ Named(q)' = Named(q) /\ PodsOf(q)' = PodsOf(q) /\ CniOf(q)' = CniOf(q)
                         /\ Work(q)' = Work(q) /\ JobOf(q)' = JobOf(q) /\ Exists(q)' = Exists(q)
    BY DEF Named, PodsOf, CniOf, Work, JobOf, Exists
<1>2. Local({})
    BY <1>1 DEF Local
<1>3. \A q \in PodName : Known(q)' = Known(q) /\ Claims(q)' = Claims(q) /\ (Holder(q)' <=> Holder(q))
    BY <1>2, LocalClaims
<1>4. JobShape'
    <2>1. \A c \in container : JobOf(c.pod)' = JobOf(c.pod)
        BY DEF JobOf
    <2> QED BY <2>1 DEF JobShape, IPAMInv, CachedSubnets
<1>5. NewApart'
    <2>1. \A c \in container : c.pod \in PodName
        BY DEF IPAMInv, TypeOK, WorkerTypeOK, Container
    <2> QED BY <1>3, <2>1 DEF NewApart, IPAMInv
<1>6. Unique'
    BY <1>3 DEF Unique, IPAMInv
<1>7. Reserved'
    <2>1. ASSUME \A n \in NS : Lists(n)' \subseteq Lists(n)
          PROVE  Reserved'
        BY <1>3, <2>1, PodNSAssumption DEF Reserved, IPAMInv
    <2> QED BY <2>1
<1>8. DownRight'
    BY DEF DownRight, IPAMInv
<1> QED BY <1>2, <1>4, <1>5, <1>6, <1>7, <1>8, Assemble

\* The steps that leave the subnets in work alone.
LEMMA NsQuietSteps ==
    ASSUME Premises, IPAMInv, Next,
           \/ \E n \in NS : NsAdded(n) \/ NamespaceDeleted(n) \/ CreateNs(n) \/ DeleteNs(n)
           \/ ZoneFetchByName \/ ZoneCreate
    PROVE  IPAMInv'
<1>1. /\ UNCHANGED <<vsubnets, vcont, cni, apipods, podq, store, Namespaces, allocated, Pods, podpc, job>>
      /\ UNCHANGED <<container, csubnet, podNsZone, up, restarts>>
    BY DEF NsAdded, NamespaceDeleted, CreateNs, DeleteNs, ZoneFetchByName, ZoneCreate, NsFrame, ClusterFrame,
           vsdVars, cniVars, apiVars, ipamVars, podVars, procVars
<1>2. \/ nssubnets' = {} /\ (nsjob' = {} \/ up) /\ nspc' # "publish"
      \/ UNCHANGED <<nspc, nsjob, nssubnets>>
    BY DEF NsAdded, NamespaceDeleted, CreateNs, DeleteNs, ZoneFetchByName, ZoneCreate, ClusterFrame,
           nsVars, NsGoto, NsReturn, IPAMInv, NsRight
<1>3. \A n \in NS : Lists(n)' \subseteq Lists(n)
    BY <1>1, <1>2 DEF Lists
<1>4. ListsRight'
    BY <1>1, <1>3 DEF ListsRight, IPAMInv
<1>5. nsjob' = {} \/ up
    BY <1>2 DEF IPAMInv, DownRight
<1>6. NsRight'
    <2> DEFINE Kept(n) == n \notin nsjob' /\ nsq'[n] \in {<<>>, <<"del">>} /\ apins'[n].count # 0
    <2>1. \A m, n \in nsjob' : m = n
        BY DEF NsAdded, NamespaceDeleted, CreateNs, DeleteNs, ZoneFetchByName, ZoneCreate, ClusterFrame,
               nsVars, NsGoto, NsReturn, IPAMInv, NsRight
    <2>2. nspc' # "publish" => nssubnets' = {}
        BY <1>2 DEF IPAMInv, NsRight
    <2>3. ASSUME NEW n \in NS, Namespaces[n].exists
          PROVE  Kept(n)
        <3>1. /\ n \notin nsjob /\ nsq[n] \in {<<>>, <<"del">>} /\ apins[n].count # 0
              /\ nsq \in [NS -> NsQueue] /\ apins \in [NS -> [live : BOOLEAN, count : 0 .. MaxNsCreate]]
            BY <2>3 DEF IPAMInv, NsRight, TypeOK, APITypeOK
        <3>2. ASSUME NEW m \in NS, NsAdded(m)
              PROVE  Kept(n)
            <4>1. m # n
                BY <3>1, <3>2, NsQueueValues DEF NsAdded
            <4> QED BY <3>1, <3>2, <4>1 DEF NsAdded, NsFrame, apiVars
        <3>3. ASSUME NEW m \in NS, NamespaceDeleted(m)
              PROVE  Kept(n)
            <4>1. m = n => nsq'[n] = <<>>
                BY <3>1, <3>3, NsQueueValues DEF NamespaceDeleted
            <4>2. m # n => nsq'[n] = nsq[n]
                BY <3>1, <3>3 DEF NamespaceDeleted
            <4> QED BY <3>1, <3>3, <4>1, <4>2 DEF NamespaceDeleted, NsFrame, apiVars, nsVars
        <3>4. ASSUME NEW m \in NS, CreateNs(m)
              PROVE  Kept(n)
            <4>1. m # n
                <5>1. apins[m].count < 1 /\ apins[m].count \in 0 .. 1
                    BY <3>1, <3>4 DEF CreateNs, Premises
                <5> QED BY <3>1, <5>1
            <4> QED BY <3>1, <3>4, <4>1 DEF CreateNs, NotifyNs, ClusterFrame, nsVars
        <3>5. ASSUME NEW m \in NS, DeleteNs(m)
              PROVE  Kept(n)
            <4>1. nsjob' = nsjob /\ apins'[n].count # 0
                BY <3>1, <3>5 DEF DeleteNs, ClusterFrame, nsVars
            <4>2. m # n => nsq'[n] = nsq[n]
                BY <3>1, <3>5 DEF DeleteNs, NotifyNs
            <4>3. m = n => nsq[n] = <<>> /\ nsq'[n] \in {Append(nsq[n], "del"), nsq[n]}
                <5>1. m = n => nsq[n] \in {<<>>, <<"add">>}
                    BY <3>5 DEF DeleteNs, IPAMInv, CustomedInv, NsEventsOnce
                <5>2. <<"add">> # <<>> /\ <<"add">> # <<"del">>
                    BY NsQueueValues
                <5>3. m = n => nsq'[n] \in {Append(nsq[n], "del"), nsq[n]}
                    BY <3>1, <3>5 DEF DeleteNs, NotifyNs
                <5> QED BY <3>1, <5>1, <5>2, <5>3
            <4>4. Append(<<>>, "del") = <<"del">>
                BY NsQueueValues
            <4> QED BY <3>1, <4>1, <4>2, <4>3, <4>4
        <3>6. CASE ZoneFetchByName \/ ZoneCreate
            BY <3>1, <3>6 DEF ZoneFetchByName, ZoneCreate, NsGoto, NsReturn, NsFrame, apiVars
        <3> QED BY <3>2, <3>3, <3>4, <3>5, <3>6
    <2> QED BY <1>1, <2>1, <2>2, <2>3 DEF NsRight, IPAMInv
<1> QED BY <1>1, <1>3, <1>4, <1>5, <1>6, NoPodStep

\* The namespace in work is not published: no list is kept for it, and all
\* that is claimed for its pods is in the VSD.
LEMMA Unpublished ==
    ASSUME Premises, IPAMInv, up, NEW n \in nsjob
    PROVE  /\ n \in NS /\ nsjob = {n} /\ Namespaces[n].exists = FALSE /\ Namespaces[n].subnets = {}
           /\ Lists(n) = nssubnets
           /\ \A j \in job : PodNS[j.pod] = n => csubnet = {} /\ podpc \notin {"addsubnet", "append"}
           /\ \A q \in PodName : PodNS[q] = n => \A c \in Claims(q) : c \in Named(q) /\ c.ifs = 1 /\ ~FirstLife
<1>1. n \in NS /\ nsjob = {n} /\ Namespaces[n].exists = FALSE /\ Namespaces[n].subnets = {}
    BY DEF IPAMInv, NsRight, TypeOK, WorkerTypeOK, CacheTypeOK
<1>2. \A q \in PodName : PodNS[q] = n => ~Exists(q)
    BY <1>1 DEF Exists
<1>3. ASSUME NEW j \in job, PodNS[j.pod] = n
      PROVE  csubnet = {} /\ podpc \notin {"addsubnet", "append"}
    <2>1. j.pod \in PodName /\ JobOf(j.pod) = {j} /\ ~Exists(j.pod)
        BY <1>2, <1>3, OneJob DEF IPAMInv
    <2>2. podpc \notin Creating \ {"waitns"}
        BY <2>1 DEF IPAMInv, PodRight, TaskRight
    <2> QED BY <2>2 DEF IPAMInv, JobShape, Creating
<1>4. ASSUME NEW q \in PodName, PodNS[q] = n, NEW c \in Claims(q)
      PROVE  c \in Named(q) /\ c.ifs = 1 /\ ~FirstLife
    <2>1. ~Exists(q) /\ PodRight(q)
        BY <1>2, <1>4 DEF IPAMInv
    <2>2. PodsOf(q) = {} /\ Work(q) = {} /\ (FirstLife => CniOf(q) = {} /\ Named(q) = {})
        BY <2>1 DEF PodRight, NoNamespaceRight
    <2>3. Fresh(q) => FirstLife
        <3>1. ASSUME store[q] # {}, JobOf(q) # {} => podpc \in Between
              PROVE  FirstLife
            <4>1. JobOf(q) = {}
                BY <2>1, <3>1 DEF PodRight, TaskRight, Between, Creating
            <4> QED BY <2>1, <3>1, <4>1, FaultsFirstLife DEF PodRight, NoNamespaceRight, IPAMInv
        <3> QED BY <3>1 DEF Fresh
    <2> QED BY <1>4, <2>2, <2>3 DEF Claims, Known
<1>5. Lists(n) = nssubnets
    BY <1>1, <1>3 DEF Lists
<1> QED BY <1>1, <1>3, <1>4, <1>5

\* What Zone.Subnets makes of a namespace: only where there are no restarts
\* may a subnet's containers be missed.
LEMMA ZoneSubnetsIs ==
    ASSUME Premises, ZoneSubnets
    PROVE  \E n \in nsjob : \E cs \in SUBSET ZonePrefixes(n) : \E slots \in SUBSET LoadedSlots(cs, gen + 1) :
            /\ slots = LoadedSlots(cs, gen + 1) \/ MaxRestarts = 0
            /\ \/ /\ nssubnets' = {[cidr |-> c, gen |-> gen + 1, customed |-> Customed(c)] : c \in cs}
                  /\ gen' = gen + 1 /\ allocated' = allocated \cup slots
               \/ nssubnets' = {} /\ allocated' = allocated /\ gen' = gen
<1>1. PICK n \in nsjob :
        \/ \E cs \in Listed("subnets", ZonePrefixes(n)) :
           \E slots \in Listed("cifaces", LoadedSlots(cs, gen + 1)) :
            /\ nssubnets' = {[cidr |-> c, gen |-> gen + 1, customed |-> Customed(c)] : c \in cs}
            /\ gen' = gen + 1 /\ allocated' = allocated \cup slots
        \/ nssubnets' = {} /\ allocated' = allocated /\ gen' = gen
    BY DEF ZoneSubnets
<1>2. CASE nssubnets' = {} /\ allocated' = allocated /\ gen' = gen
    <2>1. {} \in SUBSET ZonePrefixes(n) /\ LoadedSlots({}, gen + 1) \in SUBSET LoadedSlots({}, gen + 1)
        OBVIOUS
    <2> QED BY <1>1, <1>2, <2>1
<1>3. CASE \E cs \in Listed("subnets", ZonePrefixes(n)) :
           \E slots \in Listed("cifaces", LoadedSlots(cs, gen + 1)) :
            /\ nssubnets' = {[cidr |-> c, gen |-> gen + 1, customed |-> Customed(c)] : c \in cs}
            /\ gen' = gen + 1 /\ allocated' = allocated \cup slots
    <2>1. PICK cs \in Listed("subnets", ZonePrefixes(n)) :
          \E slots \in Listed("cifaces", LoadedSlots(cs, gen + 1)) :
            /\ nssubnets' = {[cidr |-> c, gen |-> gen + 1, customed |-> Customed(c)] : c \in cs}
            /\ gen' = gen + 1 /\ allocated' = allocated \cup slots
        BY <1>3
    <2>2. PICK slots \in Listed("cifaces", LoadedSlots(cs, gen + 1)) :
            /\ nssubnets' = {[cidr |-> c, gen |-> gen + 1, customed |-> Customed(c)] : c \in cs}
            /\ gen' = gen + 1 /\ allocated' = allocated \cup slots
        BY <2>1
    <2>3. cs \in SUBSET ZonePrefixes(n) /\ slots \in SUBSET LoadedSlots(cs, gen + 1)
        BY DEF Listed
    <2>4. slots = LoadedSlots(cs, gen + 1) \/ MaxRestarts = 0
        BY DEF Premises, Listed
    <2> QED BY <2>2, <2>3, <2>4
<1> QED BY <1>1, <1>2, <1>3

\* Zone.Subnets reserves what the VSD reports.
LEMMA ZoneSubnetsStep ==
    ASSUME Premises, IPAMInv, Next, ZoneSubnets
    PROVE  IPAMInv'
<1> DEFINE new(c) == [cidr |-> c, gen |-> gen + 1, customed |-> Customed(c)]
<1>1. PICK n \in nsjob : \E cs \in SUBSET ZonePrefixes(n) : \E slots \in SUBSET LoadedSlots(cs, gen + 1) :
        /\ slots = LoadedSlots(cs, gen + 1) \/ MaxRestarts = 0
        /\ \/ nssubnets' = {new(c) : c \in cs} /\ allocated' = allocated \cup slots
           \/ nssubnets' = {} /\ allocated' = allocated
    BY ZoneSubnetsIs
<1>1a. PICK cs \in SUBSET ZonePrefixes(n) : \E slots \in SUBSET LoadedSlots(cs, gen + 1) :
        /\ slots = LoadedSlots(cs, gen + 1) \/ MaxRestarts = 0
        /\ \/ nssubnets' = {new(c) : c \in cs} /\ allocated' = allocated \cup slots
           \/ nssubnets' = {} /\ allocated' = allocated
    BY <1>1
<1>cs. PICK slots \in SUBSET LoadedSlots(cs, gen + 1) :
        /\ slots = LoadedSlots(cs, gen + 1) \/ MaxRestarts = 0
        /\ \/ nssubnets' = {new(c) : c \in cs} /\ allocated' = allocated \cup slots
           \/ nssubnets' = {} /\ allocated' = allocated
    BY <1>1a
<1>2. /\ up /\ nspc' = "publish" /\ nsjob' = nsjob
      /\ UNCHANGED <<vsubnets, vcont, cni, apipods, podq, store, Namespaces, Pods, podpc, job>>
      /\ UNCHANGED <<container, csubnet, podNsZone, up, restarts, nsq, apins>>
    BY DEF ZoneSubnets, NsGoto, NsFrame, vsdVars, cniVars, apiVars, podVars, procVars
<1>3. /\ n \in NS /\ nsjob = {n} /\ Namespaces[n].subnets = {}
      /\ \A j \in job : PodNS[j.pod] = n => csubnet = {}
      /\ \A q \in PodName : PodNS[q] = n => \A c \in Claims(q) : c \in Named(q) /\ c.ifs = 1 /\ ~FirstLife
    BY <1>2, Unpublished
<1>4. Lists(n)' = nssubnets'
    BY <1>2, <1>3 DEF Lists
<1>5. \A m \in NS : m # n => Lists(m)' = Lists(m)
    BY <1>2, <1>3 DEF Lists
<1>6. \A s \in nssubnets' : /\ s.cidr \in ZonePrefixes(n) /\ s.cidr \in cs /\ s = new(s.cidr)
                            /\ allocated' = allocated \cup slots
    BY <1>cs
<1>7. NsRight'
    BY <1>2 DEF NsRight, IPAMInv
<1>8. ListsRight'
    <2>1. \A s \in nssubnets' : [cidr |-> s.cidr, zone |-> n] \in vsubnets
        <3>1. ASSUME NEW c \in ZonePrefixes(n)
              PROVE  [cidr |-> c, zone |-> n] \in vsubnets
            <4>1. PICK t \in vsubnets : t.zone = n /\ t.cidr = c
                BY DEF ZonePrefixes
            <4>2. t \in [cidr : CIDR, zone : NS]
                BY DEF IPAMInv, TypeOK, VSDTypeOK, VSubnet
            <4>3. t = [cidr |-> c, zone |-> n]
                BY <4>1, <4>2
            <4> QED BY <4>3
        <3> QED BY <1>6, <3>1
    <2>2. \A s, t \in nssubnets' : s.cidr = t.cidr => s = t
        BY <1>6
    <2>3. ASSUME NEW m \in NS
          PROVE  /\ \A s \in Lists(m)' : [cidr |-> s.cidr, zone |-> m] \in vsubnets
                 /\ \A s, t \in Lists(m)' : s.cidr = t.cidr => s = t
        <3>1. CASE m = n
            BY <1>4, <2>1, <2>2, <3>1
        <3>2. CASE m # n
            BY <1>5, <3>2 DEF ListsRight, IPAMInv
        <3> QED BY <3>1, <3>2
    <2> QED BY <1>2, <2>3 DEF ListsRight
<1>9. allocated \subseteq allocated'
    BY <1>cs
<1>10. \A q \in PodName : Claims(q)' = Claims(q) /\ (Holder(q)' <=> Holder(q))
    BY <1>2 DEF Claims, Known, Fresh, FirstLife, Holder, JobOf, Named, PodsOf, CniOf, Work
<1>11. Reserved'
    <2> SUFFICES ASSUME NEW q \in PodName, Holder(q), NEW c \in Claims(q),
                        NEW s \in Lists(PodNS[q])', s.cidr = c.cidr
                 PROVE  Slot(s, c.host) \in allocated'
        BY <1>10 DEF Reserved
    <2>1. CASE PodNS[q] # n
        <3>1. s \in Lists(PodNS[q])
            BY <1>5, <2>1, PodNSAssumption
        <3> QED BY <1>9, <3>1 DEF IPAMInv, Reserved
    <2>2. CASE PodNS[q] = n
        <3>1. /\ c \in vcont /\ c.ifs = 1 /\ c.host \in Host /\ c.cidr \in cs
              /\ Slot(s, c.host) = [cidr |-> c.cidr, gen |-> gen + 1, host |-> c.host]
              /\ allocated' = allocated \cup LoadedSlots(cs, gen + 1)
            <4>1. c \in vcont /\ c.ifs = 1
                BY <1>3, <2>2 DEF Named
            <4>2. c.host \in Host
                BY <4>1 DEF IPAMInv, TypeOK, VSDTypeOK, Container
            <4>3. s \in nssubnets'
                BY <1>4, <2>2
            <4>4. slots = LoadedSlots(cs, gen + 1)
                BY <1>cs, <1>2, <1>3, <2>2, NoRestarts DEF IPAMInv
            <4>5. s = new(c.cidr) /\ c.cidr \in cs
                  /\ allocated' = allocated \cup LoadedSlots(cs, gen + 1)
                BY <1>6, <4>3, <4>4
            <4>6. Slot(s, c.host) = [cidr |-> c.cidr, gen |-> gen + 1, host |-> c.host]
                BY <4>5 DEF Slot
            <4> QED BY <4>1, <4>2, <4>5, <4>6
        <3>2. c.host \in ContainerInterfaces(c.cidr)
            BY <3>1 DEF ContainerInterfaces
        <3>3. [cidr |-> c.cidr, gen |-> gen + 1, host |-> c.host]
                \in ReserveAll({}, [cidr |-> c.cidr, gen |-> gen + 1], ContainerInterfaces(c.cidr))
            BY <3>1, <3>2 DEF ReserveAll, Contains, Slot
        <3>4. [cidr |-> c.cidr, gen |-> gen + 1, host |-> c.host] \in LoadedSlots(cs, gen + 1)
            BY <3>1, <3>3 DEF LoadedSlots
        <3> QED BY <3>1, <3>4
    <2> QED BY <2>1, <2>2
<1> QED BY <1>2, <1>7, <1>8, <1>9, <1>11, NoPodStep

\* PublishNamespace: the pods of the namespace see it.
LEMMA PublishStep ==
    ASSUME Premises, IPAMInv, Next, PublishNamespace
    PROVE  IPAMInv'
<1>1. PICK n \in nsjob : Namespaces' = [Namespaces EXCEPT ![n] = [exists |-> TRUE, subnets |-> nssubnets]]
    BY DEF PublishNamespace
<1>2. /\ up /\ nsjob' = {} /\ nssubnets' = {} /\ nspc' = "idle"
      /\ UNCHANGED <<vsubnets, vcont, cni, apipods, podq, store, allocated, Pods, podpc, job>>
      /\ UNCHANGED <<container, csubnet, podNsZone, up, restarts, nsq, apins>>
    BY DEF PublishNamespace, NsReturn, NsFrame, vsdVars, cniVars, apiVars, podVars, procVars
<1>3. /\ n \in NS /\ nsjob = {n} /\ Namespaces[n].exists = FALSE /\ Lists(n) = nssubnets
      /\ \A j \in job : PodNS[j.pod] = n => csubnet = {} /\ podpc \notin {"addsubnet", "append"}
    BY <1>2, Unpublished
<1>4. Namespaces'[n] = [exists |-> TRUE, subnets |-> nssubnets] /\ \A m \in NS : m # n => Namespaces'[m] = Namespaces[m]
    BY <1>1, <1>3 DEF IPAMInv, TypeOK, CacheTypeOK
<1>5. \A m \in NS : Lists(m)' \subseteq Lists(m)
    <2>1. ASSUME NEW m \in NS, m # n
          PROVE  Lists(m)' \subseteq Lists(m)
        BY <1>2, <1>4, <2>1 DEF Lists
    <2>2. Lists(n)' \subseteq Lists(n)
        BY <1>2, <1>3, <1>4 DEF Lists
    <2> QED BY <2>1, <2>2
<1> DEFINE P == {q \in PodName : PodNS[q] = n}
<1>6. \A q \in PodName : /\ Named(q)' = Named(q) /\ PodsOf(q)' = PodsOf(q) /\ CniOf(q)' = CniOf(q)
                         /\ Work(q)' = Work(q) /\ JobOf(q)' = JobOf(q) /\ FirstLife' = FirstLife
    BY <1>2 DEF Named, PodsOf, CniOf, Work, JobOf, FirstLife
<1>7. Local(P)
    <2>1. \A q \in PodName \ P : Exists(q)' = Exists(q)
        BY <1>4, PodNSAssumption DEF Exists
    <2> QED BY <1>2, <1>6, <2>1 DEF Local
<1>8. ASSUME NEW q \in PodName \cap P
      PROVE  PodRight(q)'
    <2>1. Exists(q)' /\ PodRight(q)
        BY <1>4 DEF Exists, IPAMInv
    <2>2. QueueRight(q)' /\ BornRight(q)'
        BY <1>2, <1>6, <2>1 DEF PodRight, QueueRight, BornRight
    <2>3. TaskRight(q)' /\ NoNamespaceRight(q)'
        BY <1>2, <1>6, <2>1 DEF PodRight, TaskRight, NoNamespaceRight
    <2>4. PlacesRight(q)' /\ LiveRight(q)' /\ UnseenRight(q)'
        BY <1>2, <1>6, <2>1 DEF PodRight, PlacesRight, LiveRight, UnseenRight
    <2> QED BY <2>2, <2>3, <2>4 DEF PodRight
<1>9. \A q \in PodName : Known(q)' = Known(q) /\ Claims(q)' = Claims(q) /\ (Holder(q)' <=> Holder(q))
    BY <1>2, <1>6 DEF Claims, Known, Fresh, Holder
<1>10. Reserved' /\ Unique'
    BY <1>2, <1>5, <1>9, PodNSAssumption DEF Reserved, Unique, IPAMInv
<1>11. ListsRight'
    BY <1>2, <1>5 DEF ListsRight, IPAMInv
<1>12. NewApart'
    <2>1. \A c \in container : c.pod \in PodName
        BY DEF IPAMInv, TypeOK, WorkerTypeOK, Container
    <2> QED BY <1>2, <1>9, <2>1 DEF NewApart, IPAMInv
<1>13. JobShape'
    <2>1. \A c \in container : JobOf(c.pod)' = JobOf(c.pod)
        BY <1>2 DEF JobOf
    <2>2. podpc \in {"addsubnet", "append"} => \A j \in job : CachedSubnets(j.pod)' = CachedSubnets(j.pod)
        <3>1. \A j \in job : PodNS[j.pod] \in NS
            BY OneJob, PodNSAssumption DEF IPAMInv
        <3> QED BY <1>3, <1>4, <3>1 DEF CachedSubnets
    <2> QED BY <1>2, <2>1, <2>2 DEF JobShape, IPAMInv
<1>14. NsRight'
    <2>1. nsq[n] \in {<<>>, <<"del">>} /\ apins[n].count # 0
        BY <1>3 DEF IPAMInv, CustomedInv, NsEventsOnce
    <2> QED BY <1>2, <1>4, <2>1 DEF NsRight, IPAMInv
<1>15. DownRight'
    BY <1>2 DEF DownRight
<1> QED BY <1>7, <1>8, <1>10, <1>11, <1>12, <1>13, <1>14, <1>15, Assemble

----------------------------------------------------------------------------
(* Steps of the CNI plugins *)

\* A plugin only touches the container of a pod that is gone.
LEMMA PluginStep ==
    ASSUME Premises, IPAMInv, Next, PluginRemove \/ PluginLeftover
    PROVE  IPAMInv'
<1>1. /\ UNCHANGED <<vsubnets, cni, apipods, apins, podq, nsq, store, Namespaces, allocated, Pods, podpc, job>>
      /\ UNCHANGED <<container, csubnet, podNsZone, nspc, nsjob, nssubnets, up, restarts>>
    BY DEF PluginRemove, PluginLeftover, PluginFrame, cniVars, apiVars, qVars, ipamVars, podVars, nsVars, procVars
<1>2. PICK c \in vcont :
        /\ Dead(c)
        /\ \/ vcont' = vcont \ {c}
           \/ "leftover" \in Faults /\ vcont' = (vcont \ {c}) \cup {[c EXCEPT !.ifs = 0]}
    BY DEF PluginRemove, PluginLeftover
<1> DEFINE p == c.pod
           d == [c EXCEPT !.ifs = 0]
<1>3. /\ c \in Container /\ p \in PodName /\ c.uid = 1
      /\ d.pod = p /\ d.cidr = c.cidr /\ d.ifs = 0 /\ Whole(d) = Whole(c)
    <2>1. c \in Container /\ p \in PodName /\ c.uid \in 1 .. 1
        BY DEF IPAMInv, TypeOK, VSDTypeOK, Container, UID, Premises
    <2>2. c.uid = 1
        BY <2>1
    <2> QED BY <2>1, <2>2 DEF Container, Whole
<1>4. ~apipods[p].live
    <2>1. apipods[p].live => apipods[p].uid \in 1 .. 1
        BY <1>3 DEF IPAMInv, TypeOK, APITypeOK, UID, Premises
    <2>2. apipods[p].live => apipods[p].uid = 1
        BY <2>1
    <2> QED BY <1>2, <1>3, <2>2 DEF Dead
<1> HIDE DEF p, d
<1>5. c \in Named(p) /\ PodRight(p)
    BY <1>3 DEF Named, IPAMInv, p
<1>6. Named(p)' = {} \/ ("leftover" \in Faults /\ Named(p)' = {d})
    <2>1. \A x \in vcont : x.pod = p => x = c
        BY <1>5 DEF PodRight, PlacesRight, Named
    <2>2. CASE vcont' = vcont \ {c}
        BY <2>1, <2>2 DEF Named
    <2>3. CASE "leftover" \in Faults /\ vcont' = (vcont \ {c}) \cup {d}
        BY <1>3, <2>1, <2>3 DEF Named
    <2> QED BY <1>2, <2>2, <2>3 DEF d
<1>7. \A q \in PodName \ {p} : Named(q)' = Named(q)
    <2>1. \A x \in vcont \cup vcont' : x.pod # p => x \in vcont /\ x \in vcont'
        BY <1>2, <1>3 DEF p, d
    <2> QED BY <2>1 DEF Named
<1>8. \A q \in PodName : /\ PodsOf(q)' = PodsOf(q) /\ CniOf(q)' = CniOf(q) /\ Exists(q)' = Exists(q)
                         /\ Work(q)' = Work(q) /\ JobOf(q)' = JobOf(q) /\ FirstLife' = FirstLife
    BY <1>1 DEF PodsOf, CniOf, Work, JobOf, FirstLife, Exists
<1>9. Local({p})
    BY <1>1, <1>7, <1>8 DEF Local
<1>10. PodRight(p)'
    <2>1. QueueRight(p)' /\ BornRight(p)' /\ TaskRight(p)'
        BY <1>1, <1>3, <1>5, <1>8 DEF PodRight, QueueRight, BornRight, TaskRight
    <2>2. NoNamespaceRight(p)' /\ LiveRight(p)'
        BY <1>1, <1>3, <1>4, <1>5, <1>8 DEF PodRight, NoNamespaceRight, LiveRight
    <2>3. PlacesRight(p)'
        <3>1. [cidr |-> d.cidr, zone |-> PodNS[p]] \in vsubnets
            BY <1>3, <1>5 DEF PodRight, PlacesRight
        <3> QED BY <1>1, <1>3, <1>5, <1>6, <1>8, <3>1 DEF PodRight, PlacesRight, Premises
    <2>4. UnseenRight(p)'
        BY <1>1, <1>3, <1>5, <1>6, <1>8 DEF PodRight, UnseenRight
    <2> QED BY <2>1, <2>2, <2>3, <2>4 DEF PodRight
<1>11. \A q \in PodName : Known(q)' \subseteq Known(q) /\ Claims(q)' \subseteq Claims(q)
    <2>1. Known(p)' \subseteq Known(p)
        <3>1. Fresh(p)' => Fresh(p)
            BY <1>1, <1>3, <1>5, <1>8 DEF Fresh
        <3>2. \A x \in Named(p)' : x.ifs # 1
            BY <1>3, <1>6
        <3> QED BY <1>3, <1>8, <3>1, <3>2 DEF Known
    <2>2. ASSUME NEW q \in PodName
          PROVE  Known(q)' \subseteq Known(q)
        BY <1>9, <2>1, LocalClaims
    <2> QED BY <1>8, <2>2 DEF Claims
<1>12. \A q \in PodName : Holder(q)' <=> Holder(q)
    BY <1>1, <1>8 DEF Holder
<1>13. \A n \in NS : Lists(n)' = Lists(n)
    BY <1>1 DEF Lists
<1>14. ListsRight'
    BY <1>1, <1>13 DEF ListsRight, IPAMInv
<1>15. Reserved' /\ Unique'
    BY <1>1, <1>11, <1>12, <1>13, PodNSAssumption DEF Reserved, Unique, IPAMInv
<1>16. NewApart'
    <2>1. \A x \in container : x.pod \in PodName
        BY DEF IPAMInv, TypeOK, WorkerTypeOK, Container
    <2> QED BY <1>1, <1>11, <2>1 DEF NewApart, IPAMInv
<1>17. JobShape' /\ NsRight' /\ DownRight'
    <2>1. \A x \in container : JobOf(x.pod)' = JobOf(x.pod)
        BY <1>1 DEF JobOf
    <2> QED BY <1>1, <2>1 DEF JobShape, NsRight, DownRight, IPAMInv, CachedSubnets
<1>18. \A q \in PodName \cap {p} : PodRight(q)'
    BY <1>10
<1> QED BY <1>9, <1>14, <1>15, <1>16, <1>17, <1>18, Assemble

----------------------------------------------------------------------------
(* The process *)

\* The subnet lists of a process without memory are empty.
LEMMA NoLists ==
    ASSUME Namespaces = NoNamespaces, nsjob = {}, job = {}
    PROVE  \A n \in NS : Lists(n) = {}
BY DEF Lists, NoNamespaces

\* The process dies.
LEMMA DieStep ==
    ASSUME Premises, IPAMInv, Next, NEW r, Die(r)
    PROVE  IPAMInv'
<1>1. /\ up' = FALSE /\ podpc' = "idle" /\ job' = {} /\ container' = {} /\ csubnet' = {}
      /\ Namespaces' = NoNamespaces /\ Pods' = {} /\ nspc' = "idle" /\ nsjob' = {} /\ nssubnets' = {}
      /\ store' = [p \in PodName |-> {}] /\ podq' = [p \in PodName |-> <<>>]
      /\ UNCHANGED <<vsubnets, vcont, cni, apipods>>
    BY DEF Die, LoseMemory, vsdVars, cniVars, apiVars
<1>2. \A p \in PodName : store'[p] = {} /\ podq'[p] = <<>>
    BY <1>1
<1>3. TypeOK' /\ CustomedInv'
    BY CustomedStep DEF IPAMInv, Premises
<1>4. ASSUME NEW p \in PodName
      PROVE  /\ Named(p)' = Named(p) /\ CniOf(p)' = CniOf(p) /\ PodsOf(p)' = {} /\ Work(p)' = {}
             /\ JobOf(p)' = {} /\ ~FirstLife'
    BY <1>1 DEF Named, CniOf, PodsOf, Work, JobOf, FirstLife
<1>5. ASSUME NEW p \in PodName
      PROVE  PodRight(p)'
    <2>1. PodRight(p)
        BY DEF IPAMInv
    <2>2. QueueRight(p)'
        <3>1. 1 .. Len(<<>>) = {}
            OBVIOUS
        <3> QED BY <1>1, <1>2, <3>1 DEF QueueRight
    <2>3. BornRight(p)' /\ TaskRight(p)' /\ NoNamespaceRight(p)' /\ UnseenRight(p)'
        BY <1>1, <1>2, <1>4, <2>1 DEF PodRight, BornRight, TaskRight, NoNamespaceRight, UnseenRight
    <2>4. PlacesRight(p)' /\ LiveRight(p)'
        BY <1>1, <1>4, <2>1 DEF PodRight, PlacesRight, LiveRight
    <2> QED BY <2>2, <2>3, <2>4 DEF PodRight
<1>6. DownRight' /\ NsRight' /\ JobShape' /\ NewApart'
    BY <1>1, <1>2 DEF DownRight, NsRight, JobShape, NewApart, NoNamespaces
<1>7. \A n \in NS : Lists(n)' = {}
    BY <1>1 DEF Lists, NoNamespaces
<1>8. ListsRight' /\ Reserved'
    BY <1>7, PodNSAssumption DEF ListsRight, Reserved
<1>9. \A p \in PodName : Holder(p)' => Holder(p) /\ Claims(p)' \subseteq Claims(p)
    BY <1>1, <1>2, <1>4 DEF Holder, Claims, Known, Fresh
<1>10. Unique'
    BY <1>9 DEF Unique, IPAMInv
<1> QED BY <1>3, <1>5, <1>6, <1>8, <1>10 DEF IPAMInv

\* A new process: what the agent servers have of a pod is what the VSD has.
LEMMA RestartStep ==
    ASSUME Premises, IPAMInv, Next, Restart
    PROVE  IPAMInv'
<1> DEFINE e(p) == [kind |-> "set", uid |-> apipods[p].uid, node |-> apipods[p].node]
<1>1. /\ ~up /\ up' = TRUE /\ restarts' = restarts + 1
      /\ podq' = [p \in PodName |-> IF apipods[p].live THEN <<e(p)>> ELSE <<>>]
      /\ nsq' = [n \in NS |-> IF apins[n].live THEN <<"add">> ELSE <<>>]
      /\ UNCHANGED <<vsubnets, vcont, cni, apipods, apins, store, Namespaces, Pods>>
      /\ UNCHANGED <<podpc, job, container, csubnet, podNsZone, nspc, nsjob, nssubnets>>
    BY DEF Restart, vsdVars, cniVars, apiVars, ipamVars, podVars, nsVars
<1>2. /\ job = {} /\ container = {} /\ csubnet = {} /\ Pods = {} /\ Namespaces = NoNamespaces
      /\ nsjob = {} /\ \A p \in PodName : store[p] = {}
    BY <1>1 DEF IPAMInv, DownRight
<1>3. restarts' # 0
    <2>1. restarts \in Nat
        BY BoundAssumption DEF IPAMInv, TypeOK, ProcessTypeOK
    <2> QED BY <1>1, <2>1
<1>4. TypeOK' /\ CustomedInv'
    BY CustomedStep DEF IPAMInv, Premises
<1>5. ASSUME NEW p \in PodName
      PROVE  /\ Named(p)' = Named(p) /\ CniOf(p)' = CniOf(p) /\ PodsOf(p)' = {} /\ Work(p)' = {}
             /\ JobOf(p)' = {} /\ ~FirstLife' /\ store'[p] = {} /\ store[p] = {}
             /\ podq'[p] = IF apipods[p].live THEN <<e(p)>> ELSE <<>>
             /\ e(p).kind = "set" /\ e(p).node = apipods[p].node
    BY <1>1, <1>2, <1>3 DEF Named, CniOf, PodsOf, Work, JobOf, FirstLife
<1> HIDE DEF e
<1>6. ASSUME NEW p \in PodName
      PROVE  PodRight(p)'
    <2>1. PodRight(p)
        BY DEF IPAMInv
    <2>2. /\ <<e(p)>> # <<>> /\ Head(<<e(p)>>) = e(p) /\ Len(<<e(p)>>) = 1 /\ <<e(p)>>[1] = e(p)
          /\ 1 .. Len(<<>>) = {} /\ \A i \in 1 .. 1 : i = 1
        OBVIOUS
    <2>3. QueueRight(p)'
        <3>1. CASE apipods[p].live
            BY <1>1, <1>5, <2>2, <3>1 DEF QueueRight
        <3>2. CASE ~apipods[p].live
            BY <1>1, <1>5, <2>2, <3>2 DEF QueueRight
        <3> QED BY <3>1, <3>2
    <2>4. BornRight(p)' /\ TaskRight(p)' /\ NoNamespaceRight(p)'
        BY <1>1, <1>5, <2>1 DEF PodRight, BornRight, TaskRight, NoNamespaceRight
    <2>5. PlacesRight(p)' /\ LiveRight(p)'
        BY <1>1, <1>5, <2>1 DEF PodRight, PlacesRight, LiveRight
    <2>6. UnseenRight(p)'
        <3>1. ASSUME apipods[p].live, NEW c \in Named(p), NEW x \in CniOf(p)
              PROVE  x.cont = Whole(c)
            <4>1. x.cont = c /\ c.ifs = 1
                BY <2>1, <3>1 DEF PodRight, LiveRight, PlacesRight
            <4>2. c \in Container
                BY DEF Named, IPAMInv, TypeOK, VSDTypeOK
            <4> QED BY <4>1, <4>2, WholeIs
        <3>2. apipods[p].node = NoNode => CniOf(p) = {}
            <4>1. \A x \in CniOf(p) : x.node \in Node /\ x.node = apipods[p].node
                BY <2>1 DEF PodRight, PlacesRight, CniOf, IPAMInv, TypeOK, VSDTypeOK
            <4> QED BY <4>1, NodeAssumption
        <3> QED BY <1>5, <2>2, <3>1, <3>2 DEF UnseenRight
    <2> QED BY <2>3, <2>4, <2>5, <2>6 DEF PodRight
<1>7. DownRight' /\ JobShape' /\ NewApart'
    BY <1>1, <1>2 DEF DownRight, JobShape, NewApart, IPAMInv
<1>8. NsRight'
    BY <1>1, <1>2 DEF NsRight, IPAMInv, NoNamespaces
<1>9. \A n \in NS : Lists(n)' = {}
    BY <1>1, <1>2 DEF Lists, NoNamespaces
<1>10. ListsRight' /\ Reserved'
    BY <1>9, PodNSAssumption DEF ListsRight, Reserved
<1>11. \A p \in PodName : Holder(p)' => Holder(p) /\ Claims(p)' \subseteq Claims(p)
    BY <1>1, <1>5 DEF Holder, Claims, Known, Fresh
<1>12. Unique'
    BY <1>11 DEF Unique, IPAMInv
<1> QED BY <1>4, <1>6, <1>7, <1>8, <1>10, <1>12 DEF IPAMInv

----------------------------------------------------------------------------
(* The theorems *)

\* The agent starts with the invariant.
LEMMA InitIPAM == Init => IPAMInv
<1> SUFFICES ASSUME Init PROVE IPAMInv
    OBVIOUS
<1>1. TypeOK /\ CustomedInv
    BY InitType, InitCustomed
<1>2. /\ vcont = {} /\ cni = {} /\ Pods = {} /\ container = {} /\ csubnet = {} /\ job = {} /\ podpc = "idle"
      /\ Namespaces = NoNamespaces /\ nspc = "idle" /\ nsjob = {} /\ nssubnets = {} /\ up
      /\ apipods = [p \in PodName |-> [live |-> FALSE, uid |-> 0, node |-> NoNode]]
      /\ podq = [p \in PodName |-> <<>>] /\ store = [p \in PodName |-> {}]
    BY DEF Init, FreshMemory
<1>3. ASSUME NEW p \in PodName
      PROVE  /\ Named(p) = {} /\ CniOf(p) = {} /\ PodsOf(p) = {} /\ Work(p) = {} /\ JobOf(p) = {}
             /\ store[p] = {} /\ podq[p] = <<>> /\ ~apipods[p].live
    BY <1>2 DEF Named, CniOf, PodsOf, Work, JobOf
<1>4. ASSUME NEW p \in PodName
      PROVE  PodRight(p)
    <2>1. QueueRight(p)
        <3>1. 1 .. Len(<<>>) = {}
            OBVIOUS
        <3> QED BY <1>3, <3>1 DEF QueueRight
    <2>2. BornRight(p) /\ TaskRight(p) /\ NoNamespaceRight(p) /\ PlacesRight(p)
        BY <1>3 DEF BornRight, TaskRight, NoNamespaceRight, PlacesRight
    <2>3. LiveRight(p) /\ UnseenRight(p)
        BY <1>3 DEF LiveRight, UnseenRight
    <2> QED BY <2>1, <2>2, <2>3 DEF PodRight
<1>5. DownRight /\ NsRight /\ JobShape /\ NewApart
    BY <1>2 DEF DownRight, NsRight, JobShape, NewApart, NoNamespaces
<1>6. \A n \in NS : Lists(n) = {}
    BY <1>2, NoLists
<1>7. ListsRight /\ Reserved
    BY <1>6, PodNSAssumption DEF ListsRight, Reserved
<1>8. Unique
    BY <1>3 DEF Unique, Holder
<1> QED BY <1>1, <1>4, <1>5, <1>7, <1>8 DEF IPAMInv

\* Every step keeps it.
LEMMA IPAMStep ==
    ASSUME Premises, IPAMInv, [Next]_vars
    PROVE  IPAMInv'
<1>1. CASE UNCHANGED vars
    <2>1. /\ UNCHANGED <<vzones, vsubnets, vcont, cni, ran, apipods, apins, podq, nsq, store>>
          /\ UNCHANGED <<Namespaces, FreeCIDRs, allocated, gen, Pods, Zones, podpc, job, container, csubnet>>
          /\ UNCHANGED <<podNsZone, nspc, nsjob, nssubnets, up, exit, restarts>>
        BY <1>1 DEF vars, vsdVars, cniVars, apiVars, qVars, ipamVars, podVars, nsVars, procVars
    <2>2. TypeOK' /\ CustomedInv'
        BY CustomedStep DEF IPAMInv, Premises
    <2>3. /\ \A q \in PodName : /\ Named(q)' = Named(q) /\ PodsOf(q)' = PodsOf(q) /\ CniOf(q)' = CniOf(q)
                                /\ Work(q)' = Work(q) /\ JobOf(q)' = JobOf(q) /\ Exists(q)' = Exists(q)
          /\ \A n \in NS : Lists(n)' = Lists(n)
        BY <2>1 DEF Named, PodsOf, CniOf, Work, JobOf, Exists, Lists
    <2>4. Local({})
        BY <2>1, <2>3 DEF Local
    <2>5. \A q \in PodName : PodRight(q)'
        BY <2>4, LocalPods DEF IPAMInv
    <2>6. \A q \in PodName : Known(q)' = Known(q) /\ Claims(q)' = Claims(q) /\ (Holder(q)' <=> Holder(q))
        BY <2>4, LocalClaims
    <2>7. ListsRight' /\ Reserved' /\ Unique'
        BY <2>1, <2>3, <2>6, PodNSAssumption DEF ListsRight, Reserved, Unique, IPAMInv
    <2>8. NewApart'
        <3>1. \A x \in container : x.pod \in PodName
            BY DEF IPAMInv, TypeOK, WorkerTypeOK, Container
        <3> QED BY <2>1, <2>6, <3>1 DEF NewApart, IPAMInv
    <2>9. JobShape' /\ NsRight' /\ DownRight'
        <3>1. \A x \in container : JobOf(x.pod)' = JobOf(x.pod)
            BY <2>1 DEF JobOf
        <3> QED BY <2>1, <3>1 DEF JobShape, NsRight, DownRight, IPAMInv, CachedSubnets
    <2> QED BY <2>2, <2>5, <2>7, <2>8, <2>9 DEF IPAMInv
<1>2. CASE Next
    <2>1. CASE NsNext
        BY <1>2, <2>1, NsQuietSteps, ZoneSubnetsStep, PublishStep DEF NsNext
    <2>2. CASE PodCreatedStep
        <3>1. Case1Fatal \/ Case3NoAddress => \E r : Die(r)
            BY DEF Case1Fatal, Case3NoAddress
        <3> QED BY <1>2, <2>2, <3>1, DieStep, PodAddedStep, WaitNamespaceStep, Case1FetchStep, PutSteps,
                   CreateSteps, Case2AllocateStep, Case3AllocateStep, Case3AddSubnetStep,
                   Case3AddLostStep, Case3AppendStep
                DEF PodCreatedStep
    <2>3. CASE PodDeletedStep
        <3>1. PodDeletedFatal => \E r : Die(r)
            BY DEF PodDeletedFatal
        <3> QED BY <1>2, <2>3, <3>1, DieStep, PodDeletedGetStep, PodDeletedFetchStep, PodDeletedEndSteps
                DEF PodDeletedStep
    <2>4. CASE \E p \in PodName : PodUpdated(p)
        BY <1>2, <2>4, PodUpdatedStep
    <2>5. CASE ClusterNext
        BY <1>2, <2>5, CreatePodStep, DeletePodStep, SchedulePodStep, NsQuietSteps DEF ClusterNext
    <2>6. CASE PluginRemove \/ PluginLeftover
        BY <1>2, <2>6, PluginStep
    <2>7. CASE Crash
        BY <1>2, <2>7, DieStep DEF Crash
    <2>8. CASE Restart
        BY <1>2, <2>8, RestartStep
    <2> QED BY <1>2, <2>1, <2>2, <2>3, <2>4, <2>5, <2>6, <2>7, <2>8 DEF Next, PodNext
<1> QED BY <1>1, <1>2

\* IPAMInv is an invariant: under the premises every container the agent may
\* still trust has its address reserved, and no two pods share one, through
\* the concurrent handlers, CNI plugins, crashes and restarts.
THEOREM IPAMInvariance ==
    ASSUME Premises
    PROVE  Spec => []IPAMInv
<1>1. Init => IPAMInv
    BY InitIPAM
<1>2. IPAMInv /\ [Next]_vars => IPAMInv'
    BY IPAMStep
<1> QED BY <1>1, <1>2, PTL DEF Spec

\* The agent's IPAM agrees with the VSD: the address of a live pod's
\* container is reserved in the cached subnet that has its prefix, so that
\* case2create and case3create cannot hand it out again.
THEOREM IPAMCorrect ==
    ASSUME Premises
    PROVE  Spec => []IPAMAccurate
<1>1. IPAMInv => IPAMAccurate
    <2> SUFFICES ASSUME IPAMInv, NEW p \in PodName, NEW c \in vcont, NEW s \in CachedSubnets(p),
                        Holds(p, c), s.cidr = c.cidr
                 PROVE  Slot(s, c.host) \in allocated
        BY DEF IPAMAccurate
    <2>1. Holder(p) /\ c \in Claims(p)
        <3>1. apipods[p].live /\ c \in Named(p)
            BY DEF Holds, Named
        <3>2. c.ifs = 1
            BY <3>1 DEF IPAMInv, PodRight, LiveRight
        <3> QED BY <3>1, <3>2 DEF Holder, Claims, Known
    <2>2. s \in Lists(PodNS[p])
        BY DEF Lists, CachedSubnets
    <2> QED BY <2>1, <2>2 DEF IPAMInv, Reserved
<1> QED BY <1>1, IPAMInvariance, PTL

\* Two live pods never have containers with the same address.
THEOREM AddressesCorrect ==
    ASSUME Premises
    PROVE  Spec => []AddressesUnique
<1>1. IPAMInv => AddressesUnique
    <2> SUFFICES ASSUME IPAMInv, NEW c \in vcont, NEW d \in vcont, c.pod # d.pod,
                        Holds(c.pod, c), Holds(d.pod, d)
                 PROVE  <<c.cidr, c.host>> # <<d.cidr, d.host>>
        BY DEF AddressesUnique
    <2>1. ASSUME NEW x \in vcont, Holds(x.pod, x)
          PROVE  x.pod \in PodName /\ Holder(x.pod) /\ x \in Claims(x.pod)
        <3>1. x.pod \in PodName
            BY DEF IPAMInv, TypeOK, VSDTypeOK, Container
        <3>2. apipods[x.pod].live /\ x \in Named(x.pod)
            BY <2>1 DEF Holds, Named
        <3>3. x.ifs = 1
            BY <3>1, <3>2 DEF IPAMInv, PodRight, LiveRight
        <3> QED BY <3>1, <3>2, <3>3 DEF Holder, Claims, Known
    <2> QED BY <2>1 DEF IPAMInv, Unique, Apart
<1> QED BY <1>1, IPAMInvariance, PTL
=============================================================================
