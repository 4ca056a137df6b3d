--------------------------- MODULE ServiceHandler ---------------------------
(***************************************************************************)
(* The service controller.  A Kubernetes service becomes a network macro   *)
(* (NM) of the VSD, the macro a member of the network macro group (NMG) of *)
(* the service's namespace, and the group the target of a policy element   *)
(* (PE) that lets the namespace's pods reach it.  The controller's         *)
(* goroutine runs ServiceCreated and ServiceDeleted one at a time; the     *)
(* namespace controller is reduced to the step that publishes a namespace. *)
(*                                                                         *)
(* A macro is named after the service and a group after the namespace; the *)
(* address of a macro is the service object whose ClusterIP it carries.    *)
(* One action per call that takes vsdmutex or talks to the VSD.            *)
(***************************************************************************)
EXTENDS Naturals, Sequences

CONSTANTS
    Svc,            \* service objects; each has a ClusterIP of its own
    Name, NS,       \* names of services, namespaces
    SvcName, SvcNS, \* name and namespace of each service object
    Faults,         \* the calls that may fail
    Deletable,      \* bound: the services that may be deleted
    MaxRestarts     \* bound: how often the agent is restarted

ASSUME SvcAssumption == SvcName \in [Svc -> Name] /\ SvcNS \in [Svc -> NS]
ASSUME RestartAssumption == MaxRestarts \in Nat

\* The informer's key of a service.
Key(s) == [ns |-> SvcNS[s], name |-> SvcName[s]]
Keys == [ns : NS, name : Name]

Macro == [name : Name, addr : Svc]
Event == [kind : {"add", "del"}, svc : Svc]
EventQueue == Seq(Event)

VARIABLES
    \* The VSD
    vnmgs,     \* macro groups, by namespace
    vnms,      \* macros
    vgroup,    \* the groups each macro (by name) is assigned to
    vpes,      \* namespaces whose PE is in the live ingress policy
    vdraft,    \* namespaces whose PE is in the draft of it
    late,      \* history: namespaces whose PE was taken for applied before its job had ended
    \* The Kubernetes API server and the informer
    svclive,   \* services that exist
    svcold,    \* services that existed
    svcq,      \* undelivered events
    \* The agent
    Namespaces, NMGs, NMs,
    policy,    \* namespaces whose PE is in IngressPolicy.PolicyElements
    svcpc, svcjob,
    logged,    \* services whose handling logged an error
    up, restarts

peVars == <<vpes, vdraft, late>>
vsdVars == <<vnmgs, vnms, vgroup, peVars>>
apiVars == <<svclive, svcold>>
memVars == <<Namespaces, NMGs, NMs, policy>>
vars == <<vsdVars, apiVars, svcq, memVars, svcpc, svcjob, logged, up, restarts>>

SvcPC == {"idle", "waitns", "nmgfetch", "nmgcreate", "addpe", "nmfetch", "nmcreate", "addnm"}

\* Every variable keeps its type.
TypeOK ==
    /\ vnmgs \subseteq NS /\ vnms \subseteq Macro /\ vpes \subseteq NS
    /\ vdraft \subseteq NS /\ late \subseteq NS
    /\ vgroup \in [Name -> SUBSET NS]
    /\ svclive \subseteq Svc /\ svcold \subseteq Svc /\ svcq \in [Keys -> EventQueue]
    /\ Namespaces \subseteq NS /\ NMGs \subseteq NS /\ NMs \subseteq Macro /\ policy \subseteq NS
    /\ svcpc \in SvcPC /\ svcjob \subseteq Svc /\ logged \subseteq Svc
    /\ up \in BOOLEAN /\ restarts \in 0 .. MaxRestarts

Init ==
    /\ vnmgs = {} /\ vnms = {} /\ vgroup = [x \in Name |-> {}] /\ vpes = {}
    /\ vdraft = {} /\ late = {}
    /\ svclive = {} /\ svcold = {} /\ svcq = [k \in Keys |-> <<>>]
    /\ Namespaces = {} /\ NMGs = {} /\ NMs = {} /\ policy = {}
    /\ svcpc = "idle" /\ svcjob = {} /\ logged = {} /\ up = TRUE /\ restarts = 0

----------------------------------------------------------------------------
(* The cluster and the namespace controller *)

Notify(s, kind) ==
    svcq' = IF up THEN [svcq EXCEPT ![Key(s)] = Append(@, [kind |-> kind, svc |-> s])] ELSE svcq

ClusterFrame == UNCHANGED <<vsdVars, memVars, svcpc, svcjob, logged, up, restarts>>

CreateService(s) ==
    /\ s \notin svclive \cup svcold /\ \A t \in svclive : Key(t) # Key(s)
    /\ svclive' = svclive \cup {s} /\ Notify(s, "add")
    /\ UNCHANGED svcold /\ ClusterFrame

DeleteService(s) ==
    /\ s \in svclive \cap Deletable
    /\ svclive' = svclive \ {s} /\ svcold' = svcold \cup {s} /\ Notify(s, "del")
    /\ ClusterFrame

\* NamespaceCreated enters a namespace into Namespaces, for good.
PublishNamespace(n) ==
    /\ up /\ n \notin Namespaces
    /\ Namespaces' = Namespaces \cup {n}
    /\ UNCHANGED <<vsdVars, apiVars, svcq, NMGs, NMs, policy, svcpc, svcjob, logged, up, restarts>>

----------------------------------------------------------------------------
(* The handlers *)

SvcFrame == UNCHANGED <<apiVars, Namespaces, up, restarts>>

SvcGoto(pc) == svcpc' = pc /\ UNCHANGED svcjob

SvcReturn == svcpc' = "idle" /\ svcjob' = {}

\* ServiceCreated returns an error, which the controller logs.
SvcFail == SvcReturn /\ logged' = logged \cup svcjob

\* The informer delivers an added service: ServiceCreated is called.
ServiceAdded(k) ==
    /\ up /\ svcpc = "idle" /\ svcq[k] # <<>> /\ Head(svcq[k]).kind = "add"
    /\ svcq' = [svcq EXCEPT ![k] = Tail(@)]
    /\ svcjob' = {Head(svcq[k]).svc}
    /\ svcpc' = IF k.ns \in Namespaces THEN "nmgfetch" ELSE "waitns"
    /\ UNCHANGED <<vsdVars, NMGs, NMs, policy, logged>> /\ SvcFrame

\* ServiceDeleted only logs: macro, group and policy element stay.
ServiceDeleted(k) ==
    /\ up /\ svcpc = "idle" /\ svcq[k] # <<>> /\ Head(svcq[k]).kind = "del"
    /\ svcq' = [svcq EXCEPT ![k] = Tail(@)]
    /\ UNCHANGED <<vsdVars, NMGs, NMs, policy, svcpc, svcjob, logged>> /\ SvcFrame

\* Mutant of WaitNamespace: the wait has no limit.
WaitNamespaceForever ==
    /\ up /\ svcpc = "waitns"
    /\ \E s \in svcjob : SvcNS[s] \in Namespaces /\ SvcGoto("nmgfetch") /\ UNCHANGED logged
    /\ UNCHANGED <<vsdVars, svcq, NMGs, NMs, policy>> /\ SvcFrame

\* A tick finds the namespace, or the 10 s timer fires.
WaitNamespace ==
    /\ up /\ svcpc = "waitns"
    /\ \E s \in svcjob :
        \/ SvcNS[s] \in Namespaces /\ SvcGoto("nmgfetch") /\ UNCHANGED logged
        \/ SvcFail
    /\ UNCHANGED <<vsdVars, svcq, NMGs, NMs, policy>> /\ SvcFrame

\* NetworkMacroGroup.FetchByName: the cache, then the first page of the groups
\* of the VSD, where a group may be missing.
NMGFetchByName ==
    /\ up /\ svcpc = "nmgfetch"
    /\ \E s \in svcjob : LET n == SvcNS[s] IN
        \/ n \in NMGs /\ SvcGoto("nmfetch") /\ UNCHANGED <<NMGs, logged>>
        \/ /\ n \notin NMGs /\ n \in vnmgs
           /\ NMGs' = NMGs \cup {n} /\ SvcGoto("nmfetch") /\ UNCHANGED logged
        \/ /\ n \notin NMGs /\ (n \in vnmgs => "nmgpage" \in Faults)
           /\ SvcGoto("nmgcreate") /\ UNCHANGED <<NMGs, logged>>
        \/ n \notin NMGs /\ "nmgfetch" \in Faults /\ SvcFail /\ UNCHANGED NMGs
    /\ UNCHANGED <<vsdVars, svcq, NMs, policy>> /\ SvcFrame

\* NetworkMacroGroup.Create; the VSD refuses a second group of a name.  On an
\* error the group may exist nevertheless.
NMGCreate ==
    /\ up /\ svcpc = "nmgcreate"
    /\ \E s \in svcjob : LET n == SvcNS[s] IN
        \/ /\ n \notin vnmgs /\ vnmgs' = vnmgs \cup {n} /\ NMGs' = NMGs \cup {n}
           /\ SvcGoto("addpe") /\ UNCHANGED logged
        \/ (n \in vnmgs \/ "nmgcreate" \in Faults) /\ SvcFail /\ UNCHANGED <<vnmgs, NMGs>>
        \/ "nmgcreateReply" \in Faults /\ vnmgs' = vnmgs \cup {n} /\ SvcFail /\ UNCHANGED NMGs
    /\ UNCHANGED <<vnms, vgroup, peVars, svcq, NMs, policy>> /\ SvcFrame

\* Loading a policy from the VSD attaches its PEs one by one.  AttachPE
\* refuses a PE of a priority that is attached already, and the PEs of all
\* namespaces have the same one: only the first of them is attached.
Loaded(pes) == IF pes = {} THEN {{}} ELSE {{n} : n \in pes}

\* Mutant of LogPEError: an error of AddPESvcsAllow is dropped.
DropPEError == UNCHANGED logged

\* An error of AddPESvcsAllow is logged and ServiceCreated goes on.
LogPEError == logged' = logged \cup svcjob

\* AttachPE refuses the new PE because of its priority.
AttachRefused == policy # {} /\ LogPEError /\ UNCHANGED <<policy, peVars>>

\* HasPolicy cannot read the policy: the new PE stays attached to it.
PolicyUnread(n) ==
    /\ policy = {} /\ "policyfetch" \in Faults
    /\ policy' = {n} /\ LogPEError /\ UNCHANGED peVars

\* APPLY_POLICY_CHANGES makes the whole draft live, the PEs in pes with it.
DraftApplied(pes) == vpes' = vpes \cup vdraft \cup pes /\ vdraft' = {}

\* HasPolicy has replaced the policy by what the VSD has, without the new PE;
\* the VSD refuses the PE or a request fails, carried out or not, before,
\* after or without a DISCARD_POLICY_CHANGES.
ApplyFails(n) ==
    /\ policy = {} /\ policy' \in Loaded(vpes) /\ LogPEError /\ UNCHANGED late
    /\ \/ "applype" \in Faults /\ vdraft' \in {vdraft, vdraft \cup {n}, {}} /\ UNCHANGED vpes
       \/ "applypeReply" \in Faults /\ DraftApplied({n})

\* Job gives up on a job after 3.1 s and returns no error: the PE is still a
\* draft, or a DISCARD of an earlier call has just dropped it.
ApplyLate(n) ==
    /\ policy = {} /\ policy' \in Loaded(vpes) /\ UNCHANGED <<vpes, logged>>
    /\ "job" \in Faults /\ vdraft' \in {vdraft \cup {n}, {}} /\ late' = late \cup {n}

ApplySucceeds(n) ==
    /\ policy = {} /\ policy' \in Loaded(vpes)
    /\ DraftApplied({n}) /\ UNCHANGED <<late, logged>>

\* AddPESvcsAllow, only for a group that was just created.
AddPESvcsAllow ==
    /\ up /\ svcpc = "addpe"
    /\ \E s \in svcjob : LET n == SvcNS[s] IN
        \/ AttachRefused \/ PolicyUnread(n) \/ ApplyFails(n)
        \/ ApplyLate(n) \/ ApplySucceeds(n)
    /\ SvcGoto("nmfetch")
    /\ UNCHANGED <<vnmgs, vnms, vgroup, svcq, NMGs, NMs>> /\ SvcFrame

\* Macros by name.
NamedMacro(ms, x) == {m \in ms : m.name = x}

\* NetworkMacro.FetchByName: the cache, then the VSD.
NMFetchByName ==
    /\ up /\ svcpc = "nmfetch"
    /\ \E s \in svcjob : LET x == SvcName[s] IN
        \/ NamedMacro(NMs, x) # {} /\ SvcGoto("addnm") /\ UNCHANGED <<NMs, logged>>
        \/ /\ NamedMacro(NMs, x) = {} /\ NamedMacro(vnms, x) # {}
           /\ NMs' = NMs \cup NamedMacro(vnms, x) /\ SvcGoto("addnm") /\ UNCHANGED logged
        \/ /\ NamedMacro(NMs, x) = {} /\ NamedMacro(vnms, x) = {}
           /\ SvcGoto("nmcreate") /\ UNCHANGED <<NMs, logged>>
        \/ NamedMacro(NMs, x) = {} /\ "nmfetch" \in Faults /\ SvcFail /\ UNCHANGED NMs
    /\ UNCHANGED <<vsdVars, svcq, NMGs, policy>> /\ SvcFrame

\* NetworkMacro.Create, with the service's ClusterIP as the address.
NMCreate ==
    /\ up /\ svcpc = "nmcreate"
    /\ \E s \in svcjob : LET m == [name |-> SvcName[s], addr |-> s] IN
        \/ /\ vnms' = vnms \cup {m} /\ NMs' = NMs \cup {m}
           /\ SvcGoto("addnm") /\ UNCHANGED logged
        \/ "nmcreate" \in Faults /\ SvcFail /\ UNCHANGED <<vnms, NMs>>
        \/ "nmcreateReply" \in Faults /\ vnms' = vnms \cup {m} /\ SvcFail /\ UNCHANGED NMs
    /\ UNCHANGED <<vnmgs, vgroup, peVars, svcq, NMGs, policy>> /\ SvcFrame

\* Mutant of Assigned: the macro is given itself for a group.
AssignedToItself(x, n) == [vgroup EXCEPT ![x] = {x}]

\* Mutant of Assigned: the assignment keeps what was there.
AssignedBefore(x, n) == vgroup

\* AssignNetworkMacroGroups puts a new list of groups in place of the old.
Assigned(x, n) == [vgroup EXCEPT ![x] = {n}]

\* NetworkMacroGroup.AddNM; an error is logged.
AddNM ==
    /\ up /\ svcpc = "addnm"
    /\ \E s \in svcjob :
        \/ vgroup' = Assigned(SvcName[s], SvcNS[s]) /\ SvcReturn /\ UNCHANGED logged
        \/ "addnm" \in Faults /\ SvcFail /\ UNCHANGED vgroup
    /\ UNCHANGED <<vnmgs, vnms, peVars, svcq, NMGs, NMs, policy>> /\ SvcFrame

SvcNext ==
    \/ \E k \in Keys : ServiceAdded(k) \/ ServiceDeleted(k)
    \/ WaitNamespace \/ NMGFetchByName \/ NMGCreate \/ AddPESvcsAllow
    \/ NMFetchByName \/ NMCreate \/ AddNM

----------------------------------------------------------------------------
(* The VSD *)

\* A job that Job no longer waits for, or whose request failed, ends: it
\* applies or discards what is in the draft by now.
JobEnds ==
    /\ "job" \in Faults /\ vdraft # {}
    /\ DraftApplied({}) \/ (vdraft' = {} /\ UNCHANGED vpes)
    /\ UNCHANGED <<vnmgs, vnms, vgroup, late, apiVars, svcq, memVars, svcpc, svcjob, logged, up, restarts>>

----------------------------------------------------------------------------
(* The agent process *)

Crash ==
    /\ up /\ restarts < MaxRestarts /\ up' = FALSE
    /\ Namespaces' = {} /\ NMGs' = {} /\ NMs' = {} /\ policy' = {}
    /\ svcpc' = "idle" /\ svcjob' = {} /\ logged' = {} /\ late' = {}
    /\ svcq' = [k \in Keys |-> <<>>]
    /\ UNCHANGED <<vnmgs, vnms, vgroup, vpes, vdraft, apiVars, restarts>>

\* initPolicies reads IngressPolicy back (an error in reading its PEs is
\* ignored), and the informer hands over what exists.
Restart ==
    /\ ~up /\ restarts < MaxRestarts /\ up' = TRUE /\ restarts' = restarts + 1
    /\ policy' \in Loaded(vpes) \cup (IF "policylist" \in Faults THEN {{}} ELSE {})
    /\ svcq' = [k \in Keys |->
            IF \A s \in svclive : Key(s) # k THEN <<>>
            ELSE <<[kind |-> "add", svc |-> CHOOSE s \in svclive : Key(s) = k]>>]
    /\ UNCHANGED <<vsdVars, apiVars, Namespaces, NMGs, NMs, svcpc, svcjob, logged>>

Next ==
    \/ \E s \in Svc : CreateService(s) \/ DeleteService(s)
    \/ \E n \in NS : PublishNamespace(n)
    \/ SvcNext \/ JobEnds \/ Crash \/ Restart

Spec == Init /\ [][Next]_vars

\* The informer's goroutine keeps running the handlers.  That the calls return
\* is an assumption about the VSD: the client sets no time-out.  Nothing is
\* assumed of the namespace controller, the cluster or the VSD's jobs.
FairSpec == Spec /\ WF_vars(SvcNext)

----------------------------------------------------------------------------
(* Properties *)

\* The agent has handled everything it was told about a service.
Settled(s) == up /\ svcq[Key(s)] = <<>> /\ s \notin svcjob

\* The VSD has the service's macro, with its address, in its namespace's group.
Reachable(s) ==
    [name |-> SvcName[s], addr |-> s] \in vnms /\ vgroup[SvcName[s]] = {SvcNS[s]}

\* A service that was handled without a logged error has its macro, with its
\* own address, in the group of its namespace, whatever failed for other
\* services or before a crash.  (ServiceCreated finds the macro by name, so
\* this needs names that no two services ever share.)
ServicesReachable == \A s \in svclive : Settled(s) /\ s \notin logged => Reachable(s)

\* "Add a PE (Policy Element) allowing traffic to the services in this
\* namespace": once ServiceCreated has put the macro of a service in place,
\* the policy element of its namespace is live.
NamespaceAllowed ==
    \A s \in svclive : Settled(s) /\ Reachable(s) => SvcNS[s] \in vpes

\* Until the agent is restarted the element is live unless an error was
\* logged for some service of the namespace, one of them is being handled, or
\* the job that makes the element live had not ended when Job gave up.
AllowedInFirstLife ==
    restarts = 0 =>
        \A s \in svclive :
            Settled(s) => \/ SvcNS[s] \in vpes \cup late
                          \/ \E t \in logged \cup svcjob : SvcNS[t] = SvcNS[s]

\* Every service is dealt with: its macro is in place or an error is logged,
\* even if its namespace, or that of a service before it, never appears.
ServicesHandled ==
    \A s \in Svc : s \in svclive ~> s \notin svclive \/ Reachable(s) \/ s \in logged \/ ~up
=============================================================================
