# Verification of nuage-k8s-cni

TLA+ models, TLC configurations and TLAPS proofs for the Nuage Kubernetes
agent: the program that watches a Kubernetes cluster and gives every pod a
container, with an address, in the Nuage VSD. Paths below are relative to the
repository (`src/`).

## 1. The system

One agent process runs on each Kubernetes master. `main.go` reads the
configuration, takes part in a leader election through etcd, and only the
winner goes on: it initialises the VSD client and the CNI agent client, then
the Kubernetes client, and starts a few informers, each with one goroutine that
runs handlers. For a pod the active agent reserves an address in an in-memory
IPAM, creates a container in the VSD and submits it (PUT) to the CNI agent
server on the pod's node, where the CNI plugin finds it.

### Inventory

| component | state | operations |
|---|---|---|
| Leader election, `etcd-client/etcd-leader-election.go` | etcd keys `hosts/<hostname>` and `leader` with a time to live; one renewal goroutine per key | `LeaderElection`, `CreateKey`, `BlockforKey`, `CASKey`, `RenewKey` |
| Pod handlers, `k8s-client/pod.go` | `Pods` (containers of pods without a node), `Namespaces` (shared) | `PodCreated` (`case1create`: exists in the VSD; `case2create`: custom subnet by label; `case3create`: subnet of the ClusterCIDR), `PodUpdated`, `PodDeleted` |
| Namespace handlers, `k8s-client/namespace.go`, `vsd-client/zone.go` | `Namespaces`, `vsdclient.Zones`, `FreeCIDRs` | `NamespaceCreated` (`Zone.FetchByName`, `Create`, `Subnets`), `NamespaceDeleted` |
| VSD client, `vsd-client/zone.go`, `container.go` | none of its own but the caches; `vsdmutex` serialises calls | `Zone.AddSubnet`, `Container.FetchByName`, `Create`, `Delete`, `IPandMask` |
| IPAM, vendored `ipallocator.Range` | a bitmap per subnet | `Allocate`, `AllocateNext`, `Release` |
| CNI agent client, vendored `nuage-cni-agent/client` | none (state is on the nodes) | `ContainerPUT`, `ContainerGET`, `ContainerDELETE` |
| Informers, `k8s-client/controllers.go`, vendored `cache` | a store of known objects and a `DeltaFIFO` per informer | `ListAndWatch`, `Replace`, `Pop`; add, update, delete callbacks |
| Start-up, `main.go`, `InitClient`s, `vsd-client/vsd-client.go` | `Enterprise`, `Domain`, `FreeCIDRs`; templates, Domains and policies in the VSD | `InitClient` of each client, `initCIDRs` (cuts the ClusterCIDR into prefixes) |
| Service handlers, `service.go`, `network-macro*.go` | `NMGs`, `NMs`, `IngressPolicy` | `ServiceCreated` (`FetchByName` and `Create` of groups and macros, `AddPESvcsAllow`, `AddNM`), `ServiceDeleted` |
| Policies, `policies.go`, vendored `nuage-policy-framework`, `networkpolicy.go` | VSD policies, drafts and live | `initPolicies`, `ApplyPolicy`, `ApplyPE`; the NetworkPolicy handlers are stubs |

### Interaction and what is hard about it

* The pod and the namespace controller run concurrently and share
  `Namespaces`, `FreeCIDRs` and the Ranges without a lock. `vsdmutex` makes
  single VSD calls atomic, never a handler: every cache value read before a
  VSD call may be stale after it.
* A pod's event may be handled before its namespace's; `PodCreated` polls and
  gives up after ten seconds.
* Nothing is persisted. After a crash at any step the next process rebuilds
  the IPAM from what the VSD has, while pods come and go.
* The CNI plugin on the node removes a dead pod's container from the VSD at a
  time of its own; `PodDeleted` may find it on the node, in the VSD or nowhere.
* Most errors are logged and ignored; nothing is retried.
* Most things in the VSD are found by name and created if absent, in several
  calls: a start or a handler that is interrupted leaves parts behind, which the
  next one finds or trips over.
* An informer may list the cluster again at any time, from a cache that lags
  behind, while its queue still holds what it saw before.
* Leadership is a lease: it holds only as long as renewals are timely.

### What makes each part correct

* Leader election: at most one process acts (`MutualExclusion`); a dead or hanging leader is
  replaced (`WatcherTakesOver`).
* Pod and namespace handlers with their IPAM: an address in use is reserved
  (`IPAMAccurate`), never given to two pods (`AddressesUnique`), and given back
  in the end (`AddressesReclaimed`); the `Customed` flag tells custom networks
  from the ClusterCIDR (`CustomedIffNotCluster`); the agent dies for want of an
  address only when every prefix has become a subnet or `AddSubnet` failed for
  it (`ExhaustedOnlyWhenFull`), and never because
  a container lacks its interface (`IPandMaskApplies`); a bound pod gets its
  container delivered (`BoundPodIsDelivered`).
* Service handlers: a service that was handled without an error is reachable
  (`ServicesReachable`), a missing policy element was reported or has a job that
  `Job` gave up on (`AllowedInFirstLife`), and every service is dealt with (`ServicesHandled`).
* Start-up: an agent that gets ready has all that the handlers rely on, but for
  a policy whose job was late
  (`ReadyComplete`, `PrefixesPartition`), and gets ready in the end unless one of a few
  named leftovers is in its way (`StartsUnlessDoomed`, `DoomedForGood`).
* Informers: the handlers' view is led to what exists (`QueueLeadsToAPI`,
  `CatchesUp`), through calls in an order that makes sense (`CallsSpec`).

## 2. Modules

| module | models |
|---|---|
| `IPAllocator` | the Ranges, as one set of slots `[cidr, gen, host]` |
| `AgentState` | all variables, their types, the memory of a fresh process, the end of a process |
| `NamespaceHandler` | the namespace controller |
| `PodHandler` | the pod controller |
| `K8sAgent` | both composed with cluster, CNI plugins, crash and restart; the properties |
| `MCK8sAgent` | instances for TLC |
| `K8sAgentProofs` | theorems about `K8sAgent`: types, the `Customed` flag, exhaustion |
| `IPAMProofs` | theorems about the addresses the agent has reserved |
| `PodLifeProofs` | theorems about the end of a pod: addresses given back, `IPandMask` |
| `LeaderElection` | the election among any number of processes; properties |
| `LeaderLock` | abstract specification: a lock with at most one holder |
| `MCLeaderElection`, `LeaderElectionProofs` | instances for TLC, theorems |
| `ServiceHandler`, `MCServiceHandler` | the service controller with macros, groups and policy elements; instances |
| `ServiceHandlerProofs` | theorems about `ServiceHandler` |
| `ClusterCIDR` | `initCIDRs` as operators, and the partition it should compute |
| `Startup`, `MCStartup` | `main` and the `InitClient`s, again and again; instances |
| `StartupProofs` | theorems about `Startup` |
| `HandlerCalls` | abstract specification: what an informer promises the handlers |
| `Informer` | reflector, `DeltaFIFO` and handler loop; properties |
| `InformerProofs` | theorems about `Informer` |

### The agent

Both controllers are program counters (`podpc`, `nspc`) with the locals of the
handler that runs (`job`, `container`, `csubnet`, `podNsZone`; `nsjob`,
`nssubnets`). There is one action per call to the VSD or a CNI agent server
and per access to a cache between two such calls, so the controllers
interleave wherever the code lets them. `Zone.Subnets` is one action because it
holds `vsdmutex` throughout. A returned error is an alternative of the action
that makes the call, enabled by naming the call in `Faults`:

| fault | the call that fails |
|---|---|
| `nstimeout` | the ten seconds pass before the namespace is published |
| `fetch` | `Container.FetchByName` |
| `create`, `createReply` | `Container.Create` is not, or is, carried out, and reports an error |
| `addsubnet`, `addsubnetReply` | `Zone.AddSubnet`, likewise |
| `subnets`, `cifaces` | the listing of a zone's subnets, of a subnet's container interfaces: it fails, or is longer than the page of 50 that is read, and any part of it is |
| `put`, `get`, `cnidelete` | the calls to the CNI agent server |
| `delete` | deletion of a VSD container |
| `zonefetch`, `zonecreate` | `Zone.FetchByName`, `Zone.Create` |
| `leftover` | the CNI plugin leaves a container without an interface in the VSD |

`glog.Fatalf` and nil dereferences end the process (`Die`), which loses its
memory and the events its informers hold, and `exit` records why.

Informers deliver, per object and in order, what happened to it. Whether a
`set` is an addition or an update is decided by the store, as `DeltaFIFO`
consumers do. `Restart` hands the new process what exists.

How the data is abstracted:

* A pod name stands for `<pod>_<namespace>`; a `uid` tells apart pods that
  reuse it. Addresses are a prefix and an offset; offsets 0 and the last one of
  a prefix are unusable, the others are `1..Hosts`.
* A Range is identified by its prefix and a generation, because reading a zone
  makes new Ranges while a handler may hold an old one.
* A namespace's subnet list is a set: any order of the list is considered.
* The loop of `case3create` over `FreeCIDRs` is a step (`Case3AddLost`) for every
  prefix that was added although the answer was an error, and one step for its
  end: a prefix was accepted (`Case3AddSubnet`), or none was and the process dies
  (`Case3NoAddress`), be it with prefixes just added. Prefixes that are refused are
  passed over in any order.
* The VSD refuses a container name it has and a prefix that is in use; it does
  not refuse an address that is in use (the agent's IPAM is what is checked).
* Events of different objects are not ordered among each other, although a
  `DeltaFIFO` would order those of one informer: more behaviours, none lost.
* Go's detection of concurrent map access ends the process at an arbitrary
  step, which is `Crash`. Values torn by a race are not modelled.
* `CHECK_DEADLOCK FALSE` in the agent's configurations: the cluster may come
  to rest and a dead agent that may not restart any more stays dead.

### The election

Time is discrete. `Tick` ages keys, timers and sleeps, and cannot pass a
renewal of a running process that is `Slack` ticks late. `Slack` stands for the
time a request and the scheduling of a goroutine may take; `Pause` lets the
processes in `MayPause` stop for any time. Creating and renewing a key are
one-shot requests, and an error that is not etcd's own ends the process in a failed
type assertion: a lost reply is the request followed by `Crash`. A watcher records the first notification that
it does not ignore. `RenewKey`'s unread error, the fatal reaction to a `create`
notification and the gap between the failed creation and the watch are all as
in the code. Time is bounded by `TTL` alone, so the state space is finite
without a bound on steps.

### The service controller

One action per call of `ServiceCreated`, with its failures and lost replies.
`policy` is the set of namespaces whose element is in the agent's copy of the
ingress policy, `vpes` what is live in the VSD and `vdraft` what is a draft there.
`AddPESvcsAllow` is one action with five outcomes, because it holds the only
reference to the copy: `AttachPE` refuses the priority; `HasPolicy` fails and leaves the new
element in the copy; or it replaces the copy by what it reads, without the new
element, which is then applied, not applied (with or without a draft left behind), or
left to a job that `Job` gives up on without an error (`ApplyLate`). `late`
is a history variable that names the elements of such jobs. Applying makes
everything live that is a draft, so an element that failed may appear with a later one;
`JobEnds` lets a job that nobody waits for end at any time, or never. Reading
a policy back attaches its elements one by one, of which the first of each
priority survives (`Loaded`). A group may be missing from the page that is read
(`nmgpage`); the VSD then refuses to create it again. The namespace controller is
reduced to publishing a namespace. A ClusterIP is the identity of its service.

### Start-up

The state of the VSD is what a start may find or leave: the Enterprise, the
template, Domains of the configured name (in this Enterprise or another), the
agent's policies, live or as drafts, and foreign policies of the same priority.
`Init` allows every consistent combination. Each call may fail, or succeed
without an answer; every error ends the process, which is started again.
`MaxFaults` bounds failures, late jobs and crashes together. A job that has not ended
within the 3.1 s of `Job` counts as a success and stays in `vjobs` until it ends (`JobEnds`) or for
ever; a late `APPLY` may make the draft live after the agent is ready, or in a later
start, and a late `DISCARD` may drop the draft of a later start. `late` is a history variable: the
policies that this start took for live or begun because of a late job. The leader election is one
step that ends. `ClusterCIDR` keeps the widths: addresses are `W` bits, `int` is
`IntW` bits, a shift by a negative count (a huge `uint`) gives zero.

### The informer

The API server is the history of its states, so a stale list is an earlier
position. `List` is `ListAndWatch` up to the first watch; `WatchEvent` applies one
event under the queue's lock; `WatchFails` stands for every way back to a list.
A watch that ends normally and is taken up again from the same version is
not visible. `Pop` and the handlers it calls hold the lock. A handler that gets a
`DeletedFinalStateUnknown` panics, which `HandleCrash` does not stop
(`ReallyCrash` is true): the process ends. `raced` is a history variable
that names the keys for which the last list came at one of two bad times
(section 6).

## 3. Runs

Each passing run's property has a mutant: a plausible bug in one mapped
definition under which the same configuration fails.

| run | question | size |
|---|---|---|
| `agent_twons` | two namespaces, two pods, two prefixes of one address, one of them a subnet already; eight faults, a crash and restart at any step: `IPAMAccurate`, `AddressesUnique`, `CustomedIffNotCluster`, `ExhaustedOnlyWhenFull` | 3.2 M states |
| `agent_faults` | three labelled pods on a custom subnet of two addresses and one cluster prefix, twelve kinds of fault, no restart: `IPAMAccurate`, `AddressesUnique`, `AddressesReclaimed` | 3.5 M |
| `agent_any_fault` | every fault and a restart, labelled pods: `TypeOK`, `CustomedInv` (the invariant that is also proved) | 1.6 M |
| `agent_live` | fair controllers, no faults: `IPandMaskApplies`, `BoundPodIsDelivered` | 28 k |
| `leader_exclusion` | three processes on two masters, crashes: `TypeOK`, `MutualExclusion`, `Inv`, `LockSpec` | 185 k |
| `leader_takeover` | two processes, a leader that crashes or hangs: `WatcherTakesOver` | 42 k |
| `services` | three services in two namespaces, thirteen faults, a restart: `TypeOK`, `ServicesReachable`, `AllowedInFirstLife`, `ServicesHandled` | 817 k |
| `startup` | every configuration over 3-bit addresses, every VSD, two faults: `TypeOK`, `ReadyComplete`, `PrefixesPartition`, `StartsUnlessDoomed`, `DoomedForGood` | 957 k |
| `informer` | two objects, three changes, two failing watches or crashes: `TypeOK`, `QueueLeadsToAPI`, `QueueHasItems`, `CallsSpec` (refinement of `HandlerCalls`), `CatchesUp` | 173 k |
| `name_reuse`, `leader_split_brain`, `services_priority` | expected violations, section 6 | |

Bounds and why they are enough for the cases that matter:

* Two pods are what a conflict over an address takes; the third pod of
  `agent_faults` has a label that cannot be satisfied and competes from the
  cluster's prefix.
* One or two addresses per prefix make a Range full while another pod is being
  handled, and two prefixes make `case3create` add subnets and be refused.
* One restart separates two lives of the agent: the IPAM of the second is
  rebuilt from the VSD, which with the nodes' caches is all that the first one
  leaves behind. What a third life would meet is what the second one leaves,
  under the same handlers.
* `MaxUID = 1` and `MaxNsCreate = 1` except where the reuse of a name is the
  question: with reuse the properties are violated (section 6).
* In `leader_exclusion` TTL 4, NrClients 2 and Slack 1 put the renewal sleep (2)
  one tick below the limit of `RenewAssumption`. Three processes on two masters
  are two that compete for a host key and two that compete for the leader key.
  `leader_split_brain` has ServiceTTL / NrClients = 3 seconds, as the code.

* `services`: two services share a namespace, so one finds the group the other
  made or failed to make; the third has the other namespace and competes for the
  priority. `Deletable` lets one service go while it is in work. Service names are
  distinct: two services of one name share a macro (section 6).
* `startup`: with `W` = 3 every network, mask and length is tried, lengths from
  -1 to `IntW`, past the last valid one on both sides; `MAX_SUBNETS` = 3 is below and above
  the number of subnets. Two faults are one that leaves something behind and
  one that meets it.
* `informer`: three changes let an object be created, deleted and created
  again; two failures give a list after a list, or a crash after a list. The same
  properties hold with four changes (2.2 M states).

`PodSymmetry` permutes pods only where they carry no label and live in one
namespace, and is not used for liveness.

### Fairness

That calls return, with an answer or an error, is an assumption about the environment
(the network, the VSD, etcd, the API server, the agent servers) in all of them: the
clients of the VSD and of the CNI agent servers set no time-out
(go-bambou `session.go:88`, `cni-agent-client.go:38`), and one call that hangs would hold `vsdmutex`
and stop both controllers. Given that:

* `agent_live`: weak fairness of each controller: an informer's goroutine calls
  one handler after the other. Nothing is assumed of cluster or plugins. Only the
  absence of faults makes the property true: nothing in the agent retries.
* `leader_takeover`: weak fairness of the goroutines of
  each process (the Go scheduler runs them) and strong fairness of `Tick` (time
  passes, however often processes stop and continue). No process has to
  start, crash, pause or resume.
* `services`: weak fairness of the service controller's goroutine. Nothing is
  assumed of the namespace controller, so `ServicesHandled` rests on the timer, nor of
  the jobs of the VSD.
* `startup`: weak fairness of the steps of the process, including that it is
  started again (the deployment's restart policy) and that the election ends.
  Failures are bounded, so in the end calls succeed. A job that nobody waits for need not end.
* `informer`: weak fairness of the handler loop, strong fairness of the reflector:
  it waits for a mutex that the loop takes again and again, and Go's mutexes do
  not starve a waiter.

### Where `IPAMAccurate` holds and where not

Within one life of the agent it holds under all faults but `createReply`: a `Create` that
is carried out and not answered has its address released.
Across a restart it also holds under `fetch`, `subnets`, `addsubnet`,
`addsubnetReply`, `get`, `cnidelete`, `delete`, `zonefetch`, `zonecreate` and, without `fetch`, `leftover`.
It does not hold with a restart and one of `nstimeout`, `create`, `put` or
`cifaces`, nor for `fetch` together with `leftover`: a pod that is left without
a container, or a container that is left without the agent's knowledge, by the first life is treated as
existing by the second. It fails without faults when a pod name is reused
(`name_reuse`) or a namespace is created again while a pod of it is in work.
`Premises` of `IPAMProofs` says the same as a formula, and the theorems of section 4
show that it is enough for any pods, namespaces, prefixes, addresses and restarts.

## 4. Theorems

All proofs are checked by TLAPS, with nothing assumed but the named
assumptions on the constants and those stated in the theorem.

* `LeaderElectionProofs!Invariance`, `TypeCorrect`, `Exclusion`, `Refinement`: for any set of
  processes and masters, any timing with `RenewSleep + Slack < TTL`, with crashes
  and `MayPause = {}`: `[]Inv`, `[]MutualExclusion`, and the election
  implements `LeaderLock`. `MutualExclusion` is not inductive: that nobody
  creates the leader key while a leader lives needs that key to be there, which needs
  the leader's timer to be below the remaining life of the key (`LeaseHeld`); and that the name
  in the key identifies the process needs one process per master past its
  host key (`OnePerHost`), which needs the same of the host key (`HostKeyHeld`).
  `leader_split_brain` shows that `MayPause = {}` cannot be dropped.
* `K8sAgentProofs!TypeCorrect`: `[]TypeOK`, for any pods, namespaces, prefixes,
  faults and bounds. Part of it is that every address in a Range, a container or
  a cache is a usable one of its prefix.
* `K8sAgentProofs!Exhaustion`: `ExhaustedOnlyWhenFull` for any faults, if prefixes have usable
  addresses: every prefix is a subnet when the agent dies, which includes those that
  the VSD added in the very loop that ends so, with an error for an answer, or it is still on the
  list and `AddSubnet` failed for it. It rests on `TakenPrefixesExist`: a prefix leaves `FreeCIDRs` only when a
  zone that has it is read, and subnets are never deleted.
* `K8sAgentProofs!CustomedCorrect`: `[]CustomedIffNotCluster` for any faults,
  interleavings and restarts, if a namespace is created at most once
  (`MaxNsCreate = 1`; section 6 has the counterexample otherwise).
  The flag is inferred from `FreeCIDRs`, so the invariant `CustomedInv` has to
  say when a prefix is still there: as long as `Zone.Subnets` may yet run for a
  zone in this process (`MayLoad`), the zone's cluster prefixes are free
  (`UnreadPrefixesFree`). That is preserved because prefixes are in one zone
  (`PrefixesUnique`) and each zone is read at most once per process
  (`NsEventsOnce`, over all shapes of the informer's queue); `FlagsRight`
  covers the lists that handlers hold but have not published; `DownInv` hands
  the invariant over to the next process. `CustomedInvariance` states `[]CustomedInv` itself.
* `IPAMProofs!IPAMInvariance`, `IPAMCorrect`, `AddressesCorrect`: `[]IPAMAccurate` and
  `[]AddressesUnique` under `Premises`: pod names are used once and namespaces created once,
  a `Create` that is carried out is answered and, if there are restarts, no `nstimeout`,
  `create`, `put` or `cifaces`, and not both `fetch` and `leftover`. Every other fault may
  happen any number of times, and each excluded one, put into `agent_any_fault.cfg`,
  has a counterexample (section 3). Neither property is inductive, because a container is
  known in four places (the VSD, a CNI agent server, `Pods`, the handler at work), and
  the agent will trust whichever it finds. `Claims(p)` are the containers it may
  still trust for pod `p`; `Reserved` says that the claims of a pod that is not finished with
  (`Holder`) are reserved in every list of subnets for the zone, published or
  not, `Unique` that claims of different pods have different addresses, and `NewApart`
  that a container about to be created has an address of its own. Reserving a claim is easy in the
  step that allocates it. The work is in the steps that read it elsewhere later:
  `LiveRight` says that all copies of a live pod's container are the one the VSD has,
  `UnseenRight` the same of a pod that this process has not dealt with yet. For a pod that
  is gone they may differ, so a copy on a node is a claim only if this process put it there or found it
  to be right (`Fresh`): after a restart an old copy may stay behind. `QueueRight`, `BornRight` and
  `TaskRight` say what the informer may still report, `NoNamespaceRight` that nothing is
  made for a pod before its namespace is published, and `DownRight` that the next process starts
  from what the VSD and the nodes have.
* `PodLifeProofs!LifeInvariance`, `Reclamation`, `MaskCorrect`: under `Premises` and without
  `leftover`, `AddressesReclaimed` holds until the agent is restarted, however often calls of
  the handlers fail (`agent_faults` is the instance); under
  `Premises` and `Sound` (none of `nstimeout`, `fetch`, `create`, `get`, `leftover`),
  `[]IPandMaskApplies`, restarts included. Each of these faults, `leftover` together with `get` or a restart,
  leads to a violation. `AddressesReclaimed` speaks of
  states with nothing to do; `Owned` says what leads there: every reserved address is one
  that a pod in work, queued or live holds in one of the four places. That `PodDeleted` gives back
  the address whichever copy it finds needs that all copies of a pod's
  container have one address in the first process (`FirstRight`), which holds because a
  pod is first reported without a node and gets its only container then. `EventsRight`:
  the deletion of a pod is queued last and names its node, so `PodDeleted` asks the
  right agent server; `RanRight`: that server still knows what it was given.
  After a restart an address may be lost for good: a pod that is gone by then is never reported, and
  its leftover container in the VSD is reserved again.
* `StartupProofs!Invariance`, `Complete`, `DoomedStays`: `[]ReadyComplete` and
  `DoomedForGood` for any configurations, address widths, consistent contents of the
  VSD and number of failures. `ReadyComplete` speaks of the last step alone; its
  invariant follows the start. `DomainRight`: `Domain` is what the lookup or the creation
  makes of the Domains there are, and is not nil once `initPolicies` has used it.
  `PoliciesLive`: a policy that has been passed is live in that Domain, unless a job of this start
  was late (`late`). `DraftsRight`: a draft in work clashes with nothing, or `ApplyPolicy` would not
  have got to it, and is in the VSD unless a late job applied or dropped it. The exception in `ReadyComplete`
  is what the code gives: a late job is the only way to get ready without a policy.
  `ConfigChecked`: steps behind a check have passed it. `DoomedStays` uses
  the same invariant at both ends of a step: only the step that follows the creation of the
  template in the same process makes a Domain.
* `StartupProofs!PrefixInvariance`, `TypeCorrect`, `Partition`: `[]TypeOK` and `[]PrefixesPartition` for
  any address width below that of an int, any `MAX_SUBNETS`, ClusterCIDR and
  `hostSubnetLength`. From `initCIDRs` on `FreeCIDRs` is
  `InitCIDRs` of the configuration (`CidrsRight`); the rest is arithmetic: `PrefixIs` shows
  that for a valid length neither `1<<(32-smask)` nor the addition of `ipToInt` overflows,
  so the prefix of round `i` is block `i` of the ClusterCIDR, and `Blocks` that those blocks cut it up. A
  bijection with the rounds counts them. TLAPS has no theory of
  exponentiation; the two laws used are the assumption `PowerLaws` of `ClusterCIDR`
  (`2^a` is positive and `2^(a+b) = 2^a * 2^b`, up to `W`), true for every `W` and evaluated by
  TLC in `startup`.
* `ServiceHandlerProofs!Invariance`, `TypeCorrect`, `Reachability`, `FirstLife`:
  `[]TypeOK`, `[]ServicesReachable` and `[]AllowedInFirstLife` for any services, namespaces, faults and
  number of restarts, if no two services ever share a name (`DistinctNames`; section 6
  says what happens otherwise). `MacrosRight`: a macro carries the address of the service
  it is named after, so a handler that finds a macro by name finds its own. `QueueRight`:
  deletions in the queue are of services that are gone, so a deletion never is the
  last event of a service that exists. `GroupsAllowed`: in the first life every group has its
  element, a logged error, a handler that is about to add it, or an element whose job was late.

* `InformerProofs!Invariance`, `TypeCorrect`, `QueueCorrect`, `QueueLeads`, `CallsMakeSense`:
  for any finite set of objects and any number of changes, failing watches and crashes,
  the type invariant, `QueueHasItems`, `QueueLeadsToAPI` and the
  refinement of `HandlerCalls`. That `OnUpdate` and `OnDelete` are called only for objects that
  the store has depends on the whole list of deltas of a key:
  `Sensible` says that a deletion neither comes first for an object the store does not
  have nor follows another one, which is what `Delete` checks before it queues and
  `dedupDeltas` merges; `JobRight` that `Pop` holds the lock, so no delta joins a key
  that is being handled; `HistoryRight` that the API server changes one object at
  a time, so a watch event leaves the others as the reflector knows them.

Each inductive invariant was checked by TLC before it was proved: `CustomedInv` and the election's `Inv`
are properties of runs, `IPAMInv` and `LifeInv` held on the instances of `agent_twons` and
`agent_faults` and on others with two restarts, `leftover` and `cifaces` (up to 2.8 M states), `IInv` of
the informer and `IInv` and `PInv` of the start on the instances of
`informer` and `startup`. To repeat one, extend the MC module and the proof module in a
module of its own and name the invariant in a copy of the run's configuration.

Every invariant and action property that a passing run checks is stated by a theorem. Only model-checked is
liveness (`BoundPodIsDelivered`, `WatcherTakesOver`, `ServicesHandled`, `StartsUnlessDoomed`,
`CatchesUp`), which is out of the prover's reach because it rests on fairness and `ENABLED`.

## 5. What is not modelled

* The NetworkPolicy handlers and the update handlers of services and namespaces
  are stubs; there is no state to model.
* An IPv6 ClusterCIDR (`ipToInt` panics on it at once).
* The agent's handlers above the `DeltaFIFO` of `Informer`: `K8sAgent` and
  `ServiceHandler` have queues of their own that deliver per object and in order,
  which is the informer without relists.
* Parsing of configuration, TLS and REST plumbing, printing: pure I/O.
* External, modelled by how the agent uses it: the VSD, etcd, the API server,
  the CNI plugin's removal of dead containers.

## 6. Disagreements between code and text

Shown by a run:

* `leader_split_brain`: against "there is a single Client active at one time"
  (`k8s-client.go:22`). A leader is paused until its leader key has expired and another host has
  created it, resumes, and its `RenewKey` finds the other name and returns an
  error that nobody reads (`etcd-leader-election.go:200`, `:304`); it goes on acting beside the new
  leader. `SingleActive` compares leaders that owe no renewal, so the time before the old one
  notices does not count: with a `RenewKey` that ends the process, the property holds in this
  configuration.
* `name_reuse`: "No need to handle IPAM here" (`pod.go:213`): a pod that reuses a name
  takes over a container whose address was released.
* `services_priority`: "Add a PE (Policy Element) allowing traffic to the services
  in this namespace" (`service.go:63`): all elements have priority 900000, and
  `AttachPE` refuses a second one of a priority. The copy of the policy that `HasPolicy`
  reads back is one element behind, so two namespaces get theirs and the
  third does not.

Met while modelling, and part of the model, without a run of their own:

* Reading a zone twice, when a namespace is created again, flags its cluster
  subnets as custom, against "If the net is part of ClusterCIDR or a customed
  network" (`types.go:16`): set `MaxNsCreate = 2` in `agent_twons.cfg`.
* `PodDeleted` calls `IPandMask`, which is fatal for it, on the empty container of a pod
  that has none, for instance after the wait for its namespace timed out: add `nstimeout`
  to the faults of `agent_live.cfg`.
* The leader key may expire between the failed creation and the watch
  (`etcd-leader-election.go:116`); `BlockforKey` then waits although nobody holds the key. `WatcherTakesOver`
  is therefore about watchers that were watching in time.
* A start that ends between the creation of the Domain template and of the Domain
  makes every later start fail (`Doomed`), although `vsd-client.go:43` says
  "Created if they don't exist already"; `alreadyexistserr` is not used.
* A Domain of the configured name in another Enterprise is taken for the
  cluster's own if it is the only one; if it already has policies of the agent's names the
  agent works in it, otherwise `ApplyPolicy` refuses. With two, `Domain` is nil.
* "(sanity checked)" (`vsd-client.go:213`): an impossible mask length is logged and
  used, a negative `hostSubnetLength` leaves no prefixes; `PrefixesPartition` is
  about valid lengths only.
* Two services of one name, in two namespaces or one after the other, share a macro
  with the address of the first (`service.go:44`); `AssignNetworkMacroGroups` moves it to
  the group of the last. `ServicesReachable` needs distinct names.
* `Job` returns nil for a job that has not ended (`policy-domain.go:43`): an agent may get ready
  without a live policy, and a namespace stay without its element, with nothing logged (`late` in
  `Startup` and `ServiceHandler`).
* Listings are not paged (`zone.go:67`, `:97`, `network-macro-group.go:35`): of more than 50 containers in
  a subnet a restarted agent reserves the addresses of the first 50 only; a group beyond the first 50
  looks absent and its creation is refused.
* A crash between `nmg.Create` and `AddPESvcsAllow` leaves a group whose element is
  never added; `AllowedInFirstLife` is therefore about the first life.
* `ServiceDeleted` leaves the macro; a service that is created again with another
  ClusterIP keeps the old address.
* Two races of a relist with a queue that is not empty: the Sync of an object whose
  deletion is still queued is ignored, so an object that was created again is not
  reported; an object that is queued for the first time and gone from the list gets no
  deletion. Both last until the object changes again (`raced` in `Informer`).
* A deletion seen by a relist reaches `DeleteFunc` as `DeletedFinalStateUnknown` and
  ends the process (`controllers.go:62`).
* `NamespaceCreated` for a namespace that is created again overwrites
  the Ranges while `PodCreated` uses the old ones (`namespace.go:43`).
* `case1create` after a restart may meet a pod without a node, although
  `pod.go:217` calls the check "overkill"; the container is then never delivered.
* `case3create` leaves the new subnet's prefix in `FreeCIDRs` although
  `vsd-client.go:131` says it is removed; only the VSD's refusal protects it.
* `PodDeleted` leaves entries of pods that were never scheduled in `Pods`.
* `RenewKey` sleeps for the maximum where its comment says "min" (`etcd-leader-election.go:205`).
* `case2create` returns no container for a pod that has a node, so `PodCreated`
  goes on to `case3create`, whose `Create` the VSD refuses.

## 7. Plan

Done:

1. `IPAllocator`, `AgentState`, `NamespaceHandler`, `PodHandler`, `K8sAgent`: the
   agent's core.
2. `LeaderElection` and its abstract `LeaderLock`.
3. Proofs of exclusion and refinement of the election.
4. Proofs of types, the `Customed` flag and exhaustion of the agent.
5. `ServiceHandler`, `Startup` with `ClusterCIDR`, `Informer` with `HandlerCalls`.
6. Proofs of `ReadyComplete` and `DoomedForGood` of the start.
7. Proofs of `ServicesReachable` and `AllowedInFirstLife` of the services.

8. Proofs about `Informer`: the queue, and the refinement of `HandlerCalls`.
9. Proofs of `IPAMAccurate`, `AddressesUnique`, `AddressesReclaimed` and `IPandMaskApplies`, with
   the faults and restarts under which they hold.
10. Proofs of types and `PrefixesPartition` of the start.

Next:

11. `IPAMAccurate` without `MaxUID = 1`: which order of events about pods of one name is safe.
12. The agents composed with the election: what two leaders do to the VSD.
