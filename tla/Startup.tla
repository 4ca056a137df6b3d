------------------------------ MODULE Startup ------------------------------
(***************************************************************************)
(* The start of an agent: main() up to the informers, with all that        *)
(* vsdclient.InitClient does in the VSD: find or create the Enterprise and *)
(* the Domain, cut the ClusterCIDR into prefixes, find or apply the egress *)
(* and ingress policies.  Any error ends the process (os.Exit), a crash    *)
(* may end it anywhere, and it is started again: what an earlier start     *)
(* left in the VSD is what the next one finds.                             *)
(*                                                                         *)
(* Policies are changed by jobs of the VSD.  Job waits 3.1 s for one and   *)
(* then takes it for done; the job goes on in the VSD.                     *)
(*                                                                         *)
(* VSD names are unique among siblings.  Domains are looked up by name in  *)
(* all Enterprises: "own" is the one of the configured Enterprise, "other" *)
(* one of the same name elsewhere.                                         *)
(***************************************************************************)
EXTENDS ClusterCIDR

CONSTANTS
    Configs,    \* configurations
    MaxFaults   \* bound: failing calls, lost replies and crashes

\* The configuration files: whether they name an Enterprise and a Domain, the
\* ClusterCIDR (empty if it cannot be parsed) and hostSubnetLength.
Config == [named : BOOLEAN, cidr : {{c} : c \in ParsedCIDR} \cup {{}}, slen : Int]

ASSUME ConfigAssumption == \A c \in Configs : c \in Config
ASSUME FaultAssumption == MaxFaults \in Nat

Dom == {"own", "other"}
Type == {"egress", "ingress"}
Command == {"APPLY", "DISCARD"}   \* the jobs that change the drafts

VARIABLES
    conf,       \* the configuration
    \* The VSD
    vent,       \* the configured Enterprise exists
    vtempl,     \* the Domain template exists in it
    vdoms,      \* Domains of the configured name
    vpols,      \* the agent's live policies in each Domain
    vclash,     \* types of which "own" has an operator's policy of priority 999999999
    vdraft,     \* types of which "own" has the agent's policy as a draft
    vjobs,      \* jobs that nobody waits for any more, still running
    \* The process
    pc,
    Domain,     \* empty if nil
    policies,   \* what GetPolicies returned of the agent's policies
    FreeCIDRs,
    late,       \* history: policies of this start that a job not ended in time may have lost
    faults

vsdVars == <<vent, vtempl, vdoms, vpols, vclash, vdraft, vjobs>>
procVars == <<Domain, policies, FreeCIDRs, late>>
vars == <<conf, vsdVars, pc, procVars, faults>>

PC == {"down", "config", "etcd", "elect", "readK8S", "connect",
       "enterprise", "entcreate", "domain", "template", "domcreate", "cidrs",
       "getpolicies", "egress", "egressdraft", "ingress", "ingressdraft", "cni", "k8s", "ready"}

Prefix == [prefix : 0 .. (2^W - 1), mask : SUBSET (0 .. W)]

\* Every variable keeps its type.
TypeOK ==
    /\ conf \in Configs
    /\ vent \in BOOLEAN /\ vtempl \in BOOLEAN /\ vdoms \subseteq Dom
    /\ vpols \in [Dom -> SUBSET Type] /\ vclash \subseteq Type /\ vdraft \subseteq Type
    /\ vjobs \subseteq Command
    /\ pc \in PC /\ Domain \subseteq Dom /\ policies \subseteq Type /\ late \subseteq Type
    /\ FreeCIDRs \subseteq Prefix /\ faults \in 0 .. MaxFaults

\* An Enterprise that holds what it is said to hold, and Domains that exist
\* have the policies.
Consistent ==
    /\ "own" \in vdoms \/ vtempl => vent
    /\ \A d \in Dom \ vdoms : vpols[d] = {}
    /\ "own" \notin vdoms => vclash = {}

\* The VSD may have been used before, by operators or other clusters.
Init ==
    /\ conf \in Configs
    /\ vent \in BOOLEAN /\ vtempl \in BOOLEAN /\ vdoms \in SUBSET Dom
    /\ vpols \in [Dom -> SUBSET Type] /\ vclash \in SUBSET Type
    /\ vdraft = {} /\ vjobs = {}
    /\ Consistent
    /\ pc = "down" /\ Domain = {} /\ policies = {} /\ FreeCIDRs = {} /\ late = {}
    /\ faults = 0

----------------------------------------------------------------------------
(* The process *)

\* The process is gone, with its memory.
Ends == pc' = "down" /\ Domain' = {} /\ policies' = {} /\ FreeCIDRs' = {} /\ late' = {}

Goto(next) == pc' = next /\ UNCHANGED procVars

\* A call goes wrong.
Fault == faults < MaxFaults /\ faults' = faults + 1

\* A call fails without effect, or the process dies before making it.
Fails == Fault /\ Ends /\ UNCHANGED vsdVars

\* The process dies at a step that makes no call, or when it is ready.
Crash == pc \in {"cidrs", "ready"} /\ Fails /\ UNCHANGED conf

Launch == pc = "down" /\ Goto("config") /\ UNCHANGED <<conf, vsdVars, faults>>

\* A step that reads files, connects or waits: only its failure matters here.
Plain(at, next) ==
    /\ pc = at
    /\ \/ Goto(next) /\ UNCHANGED <<vsdVars, faults>>
       \/ Fails
    /\ UNCHANGED conf

LoadAgentConfig == Plain("config", "etcd")
EtcdInitClient == Plain("etcd", "elect")
LeaderElection == Plain("elect", "readK8S")
ReadK8Sconfig == Plain("readK8S", "connect")
CniInitClient == Plain("cni", "k8s")
K8sInitClient == Plain("k8s", "ready")

\* After makeX509conn a configuration without names is refused.
MakeX509conn ==
    /\ pc = "connect"
    /\ \/ conf.named /\ Goto("enterprise") /\ UNCHANGED <<vsdVars, faults>>
       \/ ~conf.named /\ Ends /\ UNCHANGED <<vsdVars, faults>>
       \/ Fails
    /\ UNCHANGED conf

----------------------------------------------------------------------------
(* InitClient: Enterprise and Domain *)

FindEnterprise ==
    /\ pc = "enterprise"
    /\ \/ Goto(IF vent THEN "domain" ELSE "entcreate") /\ UNCHANGED <<vsdVars, faults>>
       \/ Fails
    /\ UNCHANGED conf

\* Creation of an object, which takes the process to its next step; of a
\* lost reply the object stays.
Created(next) ==
    \/ Goto(next) /\ UNCHANGED faults
    \/ Fault /\ Ends

CreateEnterprise ==
    /\ pc = "entcreate"
    /\ \/ Created("domain") /\ vent' = TRUE /\ UNCHANGED <<vtempl, vdoms, vpols, vclash, vdraft, vjobs>>
       \/ Fails
    /\ UNCHANGED conf

\* Mutant of Chosen: the Domain that was found is not kept.
ChosenNever(doms) == {}

\* Mutant of Chosen: the first of several Domains is taken.
ChosenFirst(doms) == IF doms = {} THEN {} ELSE {CHOOSE d \in doms : TRUE}

\* The Domain for a list of Domains of the configured name: nil if there are
\* several.
Chosen(doms) == IF Cardinality(doms) = 1 THEN doms ELSE {}

FindDomain ==
    /\ pc = "domain"
    /\ \/ /\ pc' = IF vdoms = {} THEN "template" ELSE "cidrs"
          /\ Domain' = Chosen(vdoms)
          /\ UNCHANGED <<vsdVars, policies, FreeCIDRs, late, faults>>
       \/ Fails
    /\ UNCHANGED conf

\* The VSD refuses a second template of the name, and that is the end.
CreateTemplate ==
    /\ pc = "template"
    /\ \/ /\ ~vtempl /\ Created("domcreate") /\ vtempl' = TRUE
          /\ UNCHANGED <<vent, vdoms, vpols, vclash, vdraft, vjobs>>
       \/ vtempl /\ Ends /\ UNCHANGED <<vsdVars, faults>>
       \/ Fails
    /\ UNCHANGED conf

CreateDomain ==
    /\ pc = "domcreate"
    /\ \/ /\ vdoms' = vdoms \cup {"own"}
          /\ \/ pc' = "cidrs" /\ Domain' = {"own"} /\ UNCHANGED <<policies, FreeCIDRs, late, faults>>
             \/ Fault /\ Ends
          /\ UNCHANGED <<vent, vtempl, vpols, vclash, vdraft, vjobs>>
       \/ Fails
    /\ UNCHANGED conf

\* initCIDRs; a ClusterCIDR that cannot be parsed is an error.
MakeCIDRs ==
    /\ pc = "cidrs"
    /\ \/ /\ \E c \in conf.cidr : FreeCIDRs' = InitCIDRs(c, conf.slen)
          /\ pc' = "getpolicies" /\ UNCHANGED <<Domain, policies, late>>
       \/ conf.cidr = {} /\ Ends
    /\ UNCHANGED <<conf, vsdVars, faults>>

----------------------------------------------------------------------------
(* initPolicies *)

\* GetPolicies dereferences the Domain, and takes a list it cannot read for
\* an empty one.
GetPolicies ==
    /\ pc = "getpolicies"
    /\ \/ /\ Domain # {} /\ pc' = "egress"
          /\ \E d \in Domain :
              \/ policies' = vpols[d] /\ UNCHANGED faults
              \/ Fault /\ policies' \in SUBSET vpols[d] \ {vpols[d]}
          /\ UNCHANGED <<vsdVars, Domain, FreeCIDRs, late>>
       \/ Domain = {} /\ Ends /\ UNCHANGED <<vsdVars, faults>>
       \/ Fails
    /\ UNCHANGED conf

\* Mutant of Found: the type of the policy is not compared.
FoundAny(t) == policies # {}

\* GetPolicies returned the agent's policy of type t.
Found(t) == t \in policies

\* What ApplyPolicy checks before it begins: the names of Enterprise and
\* Domain, and a live policy of the same name or priority.
Refused(d, t) == d # "own" \/ t \in vpols[d] \cup vclash

\* ApplyPolicy is called for type t and passes its checks.
Begins(t) == ~Found(t) /\ \A d \in Domain : ~Refused(d, t)

\* The policy of type t was found, or ApplyPolicy begins: it is refused, a
\* job or a listing fails, or the draft is made.  If BEGIN_POLICY_CHANGES is
\* not done when Job returns, the policy may get into no draft.
BeginPolicy(t, at, draft, next) ==
    /\ pc = at
    /\ \/ Found(t) /\ Goto(next) /\ UNCHANGED <<vsdVars, faults>>
       \/ /\ Begins(t) /\ t \notin vdraft /\ vdraft' = vdraft \cup {t}
          /\ Goto(draft) /\ UNCHANGED <<vent, vtempl, vdoms, vpols, vclash, vjobs, faults>>
       \/ /\ Begins(t) /\ t \notin vdraft /\ Fault /\ late' = late \cup {t}
          /\ pc' = draft /\ UNCHANGED <<vsdVars, Domain, policies, FreeCIDRs>>
       \/ /\ ~Found(t) /\ (\E d \in Domain : Refused(d, t))
          /\ Ends /\ UNCHANGED <<vsdVars, faults>>
       \/ \* a draft of the name is there already: DISCARD_POLICY_CHANGES
          /\ Begins(t) /\ t \in vdraft /\ Ends /\ UNCHANGED <<vent, vtempl, vdoms, vpols, vclash>>
          /\ \/ vdraft' = {} /\ UNCHANGED <<vjobs, faults>>
             \/ Fault /\ vjobs' = vjobs \cup {"DISCARD"} /\ UNCHANGED vdraft
       \/ Fails
    /\ UNCHANGED conf

\* What APPLY_POLICY_CHANGES does: all drafts of the Domain become live.
DraftsApplied == vpols' = [vpols EXCEPT !["own"] = @ \cup vdraft] /\ vdraft' = {}

\* The policy of type t is applied; the reply may be lost, or the process
\* fail before it, after or without a DISCARD.  A job that is not done when
\* Job gives up stays behind, and APPLY is then taken for a success.
ApplyPolicy(t, at, next) ==
    /\ pc = at
    /\ \/ DraftsApplied /\ Created(next) /\ UNCHANGED vjobs
       \/ /\ Fault /\ pc' = next /\ late' = late \cup {t} /\ vjobs' = vjobs \cup {"APPLY"}
          /\ UNCHANGED <<vpols, vdraft, Domain, policies, FreeCIDRs>>
       \/ Fault /\ Ends /\ vdraft' \in {vdraft, {}} /\ UNCHANGED <<vpols, vjobs>>
       \/ Fault /\ Ends /\ (\E j \in Command : vjobs' = vjobs \cup {j}) /\ UNCHANGED <<vpols, vdraft>>
    /\ UNCHANGED <<conf, vent, vtempl, vdoms, vclash>>

InitPolicies ==
    \/ GetPolicies
    \/ BeginPolicy("egress", "egress", "egressdraft", "ingress")
    \/ ApplyPolicy("egress", "egressdraft", "ingress")
    \/ BeginPolicy("ingress", "ingress", "ingressdraft", "cni")
    \/ ApplyPolicy("ingress", "ingressdraft", "cni")

Step ==
    \/ Launch \/ LoadAgentConfig \/ EtcdInitClient \/ LeaderElection
    \/ ReadK8Sconfig \/ MakeX509conn \/ FindEnterprise \/ CreateEnterprise
    \/ FindDomain \/ CreateTemplate \/ CreateDomain \/ MakeCIDRs \/ InitPolicies
    \/ CniInitClient \/ K8sInitClient

\* The types whose draft the process has made and not applied yet.
Drafting == {t \in Type : pc = (IF t = "egress" THEN "egressdraft" ELSE "ingressdraft")}

\* A job that nobody waits for ends: it fails, or changes what drafts there
\* are by now.
JobEnds(j) ==
    /\ j \in vjobs /\ vjobs' = vjobs \ {j}
    /\ \/ UNCHANGED <<vpols, vdraft, late>>
       \/ j = "APPLY" /\ DraftsApplied /\ UNCHANGED late
       \/ /\ j = "DISCARD" /\ vdraft' = {} /\ late' = late \cup (Drafting \cap vdraft)
          /\ UNCHANGED vpols
    /\ UNCHANGED <<conf, vent, vtempl, vdoms, vclash, pc, Domain, policies, FreeCIDRs, faults>>

Next == Step \/ Crash \/ \E j \in Command : JobEnds(j)

Spec == Init /\ [][Next]_vars

\* The process runs, and is started again when it ends.  That the election and
\* every call come to an end is an assumption about etcd and the VSD: the
\* clients set no time-out.  Nothing is assumed of the jobs left behind.
FairSpec == Spec /\ WF_vars(Step)

----------------------------------------------------------------------------
(* Properties *)

\* An agent that gets as far as its informers has one Domain, and both of its
\* policies are live in it unless a job of this start was not done in time:
\* handlers rely on Domain and IngressPolicy.
ReadyComplete ==
    pc = "ready" => Cardinality(Domain) = 1 /\ Domain \subseteq vdoms
                    /\ \A d \in Domain : vpols[d] \cup late = Type

\* FreeCIDRs of an agent that is ready partitions the ClusterCIDR if the
\* configuration leaves room for hosts.
PrefixesPartition ==
    \A c \in conf.cidr :
        pc = "ready" /\ ValidLength(c, conf.slen) => Partitions(FreeCIDRs, c, conf.slen)

\* What the VSD, or the configuration, must be like for no start to succeed:
\* a template whose Domain was never made, several Domains of the name, or a
\* policy that cannot be applied to the one there is.
Doomed ==
    \/ ~conf.named \/ conf.cidr = {}
    \/ vdoms = {} /\ vtempl /\ pc # "domcreate"
    \/ Cardinality(vdoms) > 1
    \/ Cardinality(vdoms) = 1 /\ \E d \in vdoms, t \in Type : t \notin vpols[d] /\ Refused(d, t)

\* Whatever failed before, start-up succeeds in the end unless it is doomed:
\* no other leftover of an interrupted start stands in the way of the next.
StartsUnlessDoomed == []<>(pc = "ready" \/ Doomed)

\* A doomed agent never gets ready, however often it is started.
DoomedForGood == [][Doomed => Doomed' /\ pc' # "ready"]_vars
=============================================================================
