----------------------------- MODULE AgentState -----------------------------
(***************************************************************************)
(* The state shared by the handlers of the agent: the VSD and the CNI      *)
(* agent servers it talks to, the Kubernetes API objects and the informer  *)
(* queues that feed the handlers, and the agent's own caches.              *)
(*                                                                         *)
(* A pod is named by its VSD container name, <pod>_<namespace>, which the  *)
(* agent and the CNI plugin agree on; a uid tells apart pods that reuse a  *)
(* name.  Values that may be absent are sets with at most one element.     *)
(***************************************************************************)
EXTENDS IPAllocator, Sequences

CONSTANTS
    PodName,       \* pod names, qualified by their namespace
    NS,            \* namespaces (a zone has the name of its namespace)
    PodNS,         \* the namespace of each pod name
    Node, NoNode,  \* nodes; NoNode is the empty Spec.NodeName
    ClusterCIDRs,  \* prefixes cut out of the ClusterCIDR by initCIDRs
    CustomCIDRs,   \* prefixes outside the ClusterCIDR
    Provisioned,   \* subnets in the VSD before the agent ever starts
    Label,         \* the nuage.io labels of each pod
    Faults,        \* the calls that may fail
    MaxUID,        \* bound: how often a pod name is used
    MaxNsCreate,   \* bound: how often a namespace is created
    MaxRestarts    \* bound: how often the agent is restarted

CIDR == ClusterCIDRs \cup CustomCIDRs
UID == 1 .. MaxUID
Where == Node \cup {NoNode}
VSubnet == [cidr : CIDR, zone : NS]

ASSUME NodeAssumption == NoNode \notin Node
ASSUME PodNSAssumption == PodNS \in [PodName -> NS]
ASSUME CIDRAssumption == ClusterCIDRs \cap CustomCIDRs = {}
ASSUME ProvisionedAssumption ==
    /\ Provisioned \subseteq VSubnet
    /\ \A s, t \in Provisioned : s.cidr = t.cidr => s = t
ASSUME LabelAssumption ==
    Label \in [PodName -> [nuageio : BOOLEAN, subnet : SUBSET CIDR, ip : SUBSET Nat]]
ASSUME BoundAssumption == MaxUID \in Nat /\ MaxNsCreate \in Nat /\ MaxRestarts \in Nat

\* vsdclient.Container: an entity of the VSD with at most one interface.
Container == [pod : PodName, uid : UID, cidr : CIDR, host : Host, ifs : {0, 1}]

\* vsdclient.Subnet: a VSD subnet, its Range and the Customed flag.
Subnet == [cidr : CIDR, gen : Nat, customed : BOOLEAN]

\* The pod object a handler was called with.
Job == [pod : PodName, uid : UID, node : Where]

PodEvent == [kind : {"set", "del"}, uid : UID, node : Where]

\* Events an informer has not yet delivered.
PodQueue == Seq(PodEvent)
NsQueue == Seq({"add", "del"})

VARIABLES
    \* The VSD
    vzones,      \* zones
    vsubnets,    \* subnets of the zones
    vcont,       \* containers
    \* The CNI agent servers
    cni,         \* containers cached per node
    ran,         \* containers that reached a node and may be removed by its plugin
    \* The Kubernetes API server
    apipods, apins,
    \* Informers: undelivered events per object, and the store of known pods
    podq, nsq, store,
    \* Caches of the agent
    Namespaces, Pods, Zones, FreeCIDRs, allocated, gen,
    \* The pod controller's goroutine
    podpc, job, container, csubnet, podNsZone,
    \* The namespace controller's goroutine
    nspc, nsjob, nssubnets,
    \* The agent process
    up, exit, restarts

vsdVars  == <<vzones, vsubnets, vcont>>
cniVars  == <<cni, ran>>
apiVars  == <<apipods, apins>>
qVars    == <<podq, nsq, store>>
ipamVars == <<Namespaces, FreeCIDRs, allocated, gen>>
podVars  == <<podpc, job, container, csubnet, podNsZone>>
nsVars   == <<nspc, nsjob, nssubnets>>
procVars == <<up, exit, restarts>>
vars == <<vsdVars, cniVars, apiVars, qVars, ipamVars, Pods, Zones, podVars, nsVars, procVars>>

PodPC == {"idle", "waitns", "case1", "put1", "case2", "create2", "put2", "case3",
          "addsubnet", "append", "create3", "put3", "delfetch", "release", "delcni"}
NsPC == {"idle", "fetch", "zcreate", "subnets", "publish"}
Exit == {"", "crash", "IPandMask", "nilAddr"}

VSDTypeOK ==
    /\ vzones \subseteq NS
    /\ vsubnets \subseteq VSubnet
    /\ vcont \subseteq Container
    /\ cni \subseteq [node : Node, cont : Container]
    /\ ran \subseteq Container

APITypeOK ==
    /\ apipods \in [PodName -> [live : BOOLEAN, uid : 0 .. MaxUID, node : Where]]
    /\ \A p \in PodName : apipods[p].live => apipods[p].uid \in UID
    /\ apins \in [NS -> [live : BOOLEAN, count : 0 .. MaxNsCreate]]
    /\ podq \in [PodName -> PodQueue]
    /\ nsq \in [NS -> NsQueue]
    /\ store \in [PodName -> SUBSET Where]

CacheTypeOK ==
    /\ Namespaces \in [NS -> [exists : BOOLEAN, subnets : SUBSET Subnet]]
    /\ Pods \subseteq Container
    /\ Zones \subseteq NS
    /\ FreeCIDRs \subseteq ClusterCIDRs
    /\ allocated \subseteq [cidr : CIDR, gen : Nat, host : Host]
    /\ gen \in Nat

WorkerTypeOK ==
    /\ podpc \in PodPC
    /\ job \subseteq Job
    /\ container \subseteq Container
    /\ csubnet \subseteq Subnet
    /\ podNsZone \subseteq Subnet
    /\ nspc \in NsPC
    /\ nsjob \subseteq NS
    /\ nssubnets \subseteq Subnet

ProcessTypeOK ==
    /\ up \in BOOLEAN
    /\ exit \in Exit
    /\ restarts \in 0 .. MaxRestarts

\* Every variable of the model keeps its type; in particular no Range ever
\* holds an address outside 1..Hosts (ipallocator's contains).
TypeOK == VSDTypeOK /\ APITypeOK /\ CacheTypeOK /\ WorkerTypeOK /\ ProcessTypeOK

NoNamespaces == [n \in NS |-> [exists |-> FALSE, subnets |-> {}]]

\* Memory of a process that has just started: k8s.InitClient, vsd.InitClient
\* (which runs initCIDRs) and idle controllers with empty informers.
FreshMemory ==
    /\ Namespaces = NoNamespaces /\ Pods = {} /\ Zones = {}
    /\ FreeCIDRs = ClusterCIDRs /\ allocated = {} /\ gen = 0
    /\ podpc = "idle" /\ job = {} /\ container = {} /\ csubnet = {} /\ podNsZone = {}
    /\ nspc = "idle" /\ nsjob = {} /\ nssubnets = {}
    /\ store = [p \in PodName |-> {}]

\* The memory of a process that has just started, in the next state.
LoseMemory ==
    /\ Namespaces' = NoNamespaces /\ Pods' = {} /\ Zones' = {}
    /\ FreeCIDRs' = ClusterCIDRs /\ allocated' = {} /\ gen' = 0
    /\ podpc' = "idle" /\ job' = {} /\ container' = {} /\ csubnet' = {} /\ podNsZone' = {}
    /\ nspc' = "idle" /\ nsjob' = {} /\ nssubnets' = {}
    /\ store' = [p \in PodName |-> {}]

\* The process ends (glog.Fatalf, an unrecovered panic, a crash): its memory
\* and the events its informers held are gone.
Die(reason) ==
    /\ up' = FALSE /\ exit' = reason
    /\ LoseMemory
    /\ podq' = [p \in PodName |-> <<>>]
    /\ nsq' = [n \in NS |-> <<>>]
    /\ UNCHANGED <<vsdVars, cniVars, apiVars, restarts>>
=============================================================================
