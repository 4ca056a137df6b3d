------------------------ MODULE ServiceHandlerProofs ------------------------
(***************************************************************************)
(* Theorems about ServiceHandler for services that never share a name: a   *)
(* service that was handled without an error is in place in the VSD, and   *)
(* in the first life of the agent a missing policy element was reported or *)
(* is one that Job gave up waiting for, for any services, namespaces,      *)
(* failures and number of restarts.                                        *)
(***************************************************************************)
EXTENDS ServiceHandler, TLAPS

\* ServiceCreated finds macros by the name of the service alone.
DistinctNames == \A s, t \in Svc : SvcName[s] = SvcName[t] => s = t

----------------------------------------------------------------------------
(* The inductive invariant *)

\* The macro that ServiceCreated makes for a service.
MacroOf(s) == [name |-> SvcName[s], addr |-> s]

\* The controller handles one service at a time, and none when it is idle or
\* the agent is down.
OneJob ==
    /\ svcpc = "idle" <=> svcjob = {}
    /\ \A s, t \in svcjob : s = t
    /\ ~up => svcjob = {}

\* Events are queued under the key of their service, deletions are of services
\* that are gone, and those do not come back.
QueueRight ==
    /\ svclive \cap svcold = {}
    /\ \A k \in Keys : \A i \in 1 .. Len(svcq[k]) :
        Key(svcq[k][i].svc) = k /\ (svcq[k][i].kind = "del" => svcq[k][i].svc \in svcold)

\* Macros carry the address of the service they are named after, and the
\* caches hold what the VSD has.
MacrosRight ==
    /\ \A m \in vnms : m.name = SvcName[m.addr]
    /\ NMs \subseteq vnms /\ NMGs \subseteq vnmgs
    /\ svcpc = "addnm" => \A s \in svcjob : MacroOf(s) \in vnms

\* In the first life a group without its policy element is one whose element
\* is about to be added or had a job that was late, or an error was logged; and
\* ServiceCreated has seen the group of every service that it has dealt with.
GroupsAllowed ==
    up /\ restarts = 0 =>
        /\ \A n \in vnmgs :
            \/ n \in vpes \cup late
            \/ \E t \in logged : SvcNS[t] = n
            \/ svcpc = "addpe" /\ \E t \in svcjob : SvcNS[t] = n
        /\ svcpc \in {"addpe", "nmfetch", "nmcreate", "addnm"} => \A s \in svcjob : SvcNS[s] \in vnmgs
        /\ \A s \in svclive : Settled(s) /\ s \notin logged => SvcNS[s] \in vnmgs

IInv == TypeOK /\ OneJob /\ QueueRight /\ MacrosRight /\ ServicesReachable /\ GroupsAllowed

----------------------------------------------------------------------------
(* Steps of the handler that leave cluster and queue alone *)

\* What such a step does to the job: it is kept, or it ends with an error.
JobKept == svcpc' \in SvcPC \ {"idle"} /\ svcjob' = svcjob /\ (logged' = logged \/ logged' = logged \cup svcjob)
JobFails == svcpc' = "idle" /\ svcjob' = {} /\ logged' = logged \cup svcjob

\* A handler at work works on one service.
LEMMA TheJob ==
    ASSUME IInv, svcpc # "idle"
    PROVE  up /\ \E s \in Svc : svcjob = {s}
<1>1. svcjob # {} /\ up /\ \A s, t \in svcjob : s = t
    BY DEF IInv, OneJob
<1>2. svcjob \subseteq Svc
    BY DEF IInv, TypeOK
<1> QED BY <1>1, <1>2

\* Jobs, queues and services whose macro is in place are kept.
LEMMA QuietStep ==
    ASSUME IInv, svcpc # "idle", JobKept \/ JobFails,
           UNCHANGED <<svclive, svcold, svcq, up, vgroup>>, vnms \subseteq vnms'
    PROVE  OneJob' /\ QueueRight' /\ ServicesReachable'
<1>1. OneJob'
    BY DEF IInv, OneJob, JobKept, JobFails
<1>2. QueueRight'
    BY DEF IInv, QueueRight
<1>3. ServicesReachable'
    <2> SUFFICES ASSUME NEW s \in svclive', Settled(s)', s \notin logged'
                 PROVE  Reachable(s)'
        BY DEF ServicesReachable
    <2>1. s \in svclive /\ Settled(s) /\ s \notin logged
        BY DEF JobKept, JobFails, Settled
    <2>2. Reachable(s)
        BY <2>1 DEF IInv, ServicesReachable
    <2> QED BY <2>2 DEF Reachable
<1> QED BY <1>1, <1>2, <1>3

\* The same for groups, of a step that keeps the groups and elements.
LEMMA QuietGroups ==
    ASSUME IInv, svcpc # "idle", svcpc # "addpe", JobKept \/ JobFails,
           UNCHANGED <<svclive, svcq, up, restarts, vnmgs, vpes, late>>,
           svcpc' \in {"addpe", "nmfetch", "nmcreate", "addnm"} => \A s \in svcjob : SvcNS[s] \in vnmgs
    PROVE  GroupsAllowed'
<1> SUFFICES ASSUME up', restarts' = 0
             PROVE  GroupsAllowed'
    BY DEF GroupsAllowed
<1>1. logged \subseteq logged' /\ svcjob' \subseteq svcjob
    BY DEF JobKept, JobFails
<1>2. \A n \in vnmgs' : n \in vpes' \cup late' \/ \E t \in logged' : SvcNS[t] = n
    BY <1>1 DEF IInv, GroupsAllowed
<1>3. \A s \in svclive' : Settled(s)' /\ s \notin logged' => Settled(s) /\ s \notin logged
    BY DEF JobKept, JobFails, Settled
<1>4. \A s \in svclive' : Settled(s)' /\ s \notin logged' => SvcNS[s] \in vnmgs'
    BY <1>3 DEF IInv, GroupsAllowed
<1> QED BY <1>1, <1>2, <1>4 DEF GroupsAllowed

----------------------------------------------------------------------------
(* Every action keeps the invariant *)

\* Nothing exists and nothing is known at first.
LEMMA InitIInv == Init => IInv
<1> SUFFICES ASSUME Init
             PROVE  IInv
    OBVIOUS
<1>1. TypeOK
    <2>1. <<>> \in EventQueue
        BY DEF EventQueue
    <2>2. svcq \in [Keys -> EventQueue]
        BY <2>1 DEF Init
    <2>3. restarts \in 0 .. MaxRestarts
        BY RestartAssumption DEF Init
    <2> QED BY <2>2, <2>3 DEF Init, TypeOK, SvcPC
<1>2. OneJob /\ QueueRight /\ MacrosRight /\ ServicesReachable /\ GroupsAllowed
    BY DEF Init, OneJob, QueueRight, MacrosRight, ServicesReachable, GroupsAllowed
<1> QED BY <1>1, <1>2 DEF IInv

\* The wait for the namespace.
LEMMA WaitIInv ==
    ASSUME IInv, WaitNamespace
    PROVE  IInv'
<1>1. svcpc = "waitns" /\ (JobKept \/ JobFails) /\ svcpc' \in {"nmgfetch", "idle"}
    BY DEF WaitNamespace, SvcGoto, SvcFail, SvcReturn, JobKept, JobFails, SvcPC
<1>2. UNCHANGED <<vsdVars, svcq, NMGs, NMs, policy, apiVars, Namespaces, up, restarts>>
    BY DEF WaitNamespace, SvcFrame
<1>3. OneJob' /\ QueueRight' /\ ServicesReachable'
    BY <1>1, <1>2, QuietStep DEF vsdVars, peVars, apiVars
<1>4. GroupsAllowed'
    BY <1>1, <1>2, QuietGroups DEF vsdVars, peVars, apiVars
<1>5. MacrosRight'
    BY <1>1, <1>2 DEF IInv, MacrosRight, vsdVars, peVars
<1>6. TypeOK'
    BY <1>1, <1>2 DEF IInv, TypeOK, SvcPC, JobKept, JobFails, vsdVars, peVars, apiVars
<1> QED BY <1>3, <1>4, <1>5, <1>6 DEF IInv

\* Finding the group.
LEMMA NMGFetchIInv ==
    ASSUME IInv, NMGFetchByName
    PROVE  IInv'
<1>1. svcpc = "nmgfetch" /\ UNCHANGED <<vsdVars, svcq, NMs, policy, apiVars, Namespaces, up, restarts>>
    BY DEF NMGFetchByName, SvcFrame
<1>2. PICK s \in Svc : svcjob = {s}
    BY <1>1, TheJob
<1>3. JobKept \/ JobFails
    BY <1>2 DEF NMGFetchByName, SvcGoto, SvcFail, SvcReturn, JobKept, JobFails, SvcPC
<1>4. /\ svcpc' \in {"nmfetch", "nmgcreate", "idle"} /\ (svcpc' = "nmfetch" => SvcNS[s] \in vnmgs)
      /\ NMGs' \subseteq vnmgs
    BY <1>2 DEF NMGFetchByName, SvcGoto, SvcFail, SvcReturn, IInv, MacrosRight
<1>5. OneJob' /\ QueueRight' /\ ServicesReachable'
    BY <1>1, <1>3, QuietStep DEF vsdVars, peVars, apiVars
<1>6. GroupsAllowed'
    BY <1>1, <1>2, <1>3, <1>4, QuietGroups DEF vsdVars, peVars, apiVars
<1>7. MacrosRight'
    BY <1>1, <1>4 DEF IInv, MacrosRight, vsdVars, peVars
<1>8. TypeOK'
    BY <1>1, <1>3, <1>4 DEF IInv, TypeOK, SvcPC, JobKept, JobFails, vsdVars, peVars, apiVars
<1> QED BY <1>5, <1>6, <1>7, <1>8 DEF IInv

\* Making the group.
LEMMA NMGCreateIInv ==
    ASSUME IInv, NMGCreate
    PROVE  IInv'
<1>1. /\ svcpc = "nmgcreate"
      /\ UNCHANGED <<vnms, vgroup, vpes, vdraft, late, svcq, NMs, policy, apiVars, Namespaces, up, restarts>>
    BY DEF NMGCreate, SvcFrame, peVars
<1>2. PICK s \in Svc : svcjob = {s}
    BY <1>1, TheJob
<1>3. (JobKept /\ svcpc' = "addpe" /\ SvcNS[s] \in vnmgs') \/ JobFails
    BY <1>2 DEF NMGCreate, SvcGoto, SvcFail, SvcReturn, JobKept, JobFails, SvcPC
<1>4. /\ vnmgs' \in {vnmgs, vnmgs \cup {SvcNS[s]}} /\ SvcNS[s] \in NS
      /\ NMGs' \subseteq NMGs \cup vnmgs'
    BY <1>2, SvcAssumption DEF NMGCreate
<1>5. OneJob' /\ QueueRight' /\ ServicesReachable'
    BY <1>1, <1>3, QuietStep DEF apiVars
<1>6. GroupsAllowed'
    <2> SUFFICES ASSUME up', restarts' = 0
                 PROVE  GroupsAllowed'
        BY DEF GroupsAllowed
    <2>1. \A n \in vnmgs' : \/ n \in vpes' \cup late'
                            \/ \E t \in logged' : SvcNS[t] = n
                            \/ svcpc' = "addpe" /\ \E t \in svcjob' : SvcNS[t] = n
        BY <1>1, <1>2, <1>3, <1>4 DEF IInv, GroupsAllowed, JobKept, JobFails
    <2>2. \A t \in svclive' : Settled(t)' /\ t \notin logged' => Settled(t) /\ t \notin logged
        BY <1>1, <1>3 DEF JobKept, JobFails, Settled, apiVars
    <2>3. \A t \in svclive' : Settled(t)' /\ t \notin logged' => SvcNS[t] \in vnmgs'
        BY <1>1, <1>4, <2>2 DEF IInv, GroupsAllowed, apiVars
    <2>4. svcpc' \in {"addpe", "nmfetch", "nmcreate", "addnm"} => \A t \in svcjob' : SvcNS[t] \in vnmgs'
        BY <1>2, <1>3 DEF JobKept, JobFails
    <2> QED BY <2>1, <2>3, <2>4 DEF GroupsAllowed
<1>7. MacrosRight'
    BY <1>1, <1>3, <1>4 DEF IInv, MacrosRight, JobFails
<1>8. TypeOK'
    BY <1>1, <1>3, <1>4 DEF IInv, TypeOK, SvcPC, JobKept, JobFails, apiVars
<1> QED BY <1>5, <1>6, <1>7, <1>8 DEF IInv

\* Adding the policy element.
LEMMA AddPEIInv ==
    ASSUME IInv, AddPESvcsAllow
    PROVE  IInv'
<1>1. /\ svcpc = "addpe" /\ svcpc' = "nmfetch" /\ svcjob' = svcjob
      /\ UNCHANGED <<vnmgs, vnms, vgroup, svcq, NMGs, NMs, apiVars, Namespaces, up, restarts>>
    BY DEF AddPESvcsAllow, SvcFrame, SvcGoto
<1>2. PICK s \in Svc : svcjob = {s}
    BY <1>1, TheJob
<1>3. SvcNS[s] \in NS
    BY SvcAssumption
<1>4. /\ logged' = logged \cup {s} \/ (logged' = logged /\ SvcNS[s] \in vpes' \cup late')
      /\ vpes' \in {vpes, vpes \cup vdraft \cup {SvcNS[s]}} /\ late' \in {late, late \cup {SvcNS[s]}}
      /\ vdraft' \in {vdraft, vdraft \cup {SvcNS[s]}, {}}
    BY <1>2 DEF AddPESvcsAllow, AttachRefused, PolicyUnread, ApplyFails, ApplyLate, ApplySucceeds,
        DraftApplied, LogPEError, peVars
<1>5. policy' \subseteq NS
    <2>1. \A P : P \in Loaded(vpes) => P \subseteq NS
        BY DEF Loaded, IInv, TypeOK
    <2> QED BY <1>2, <1>3, <2>1
        DEF AddPESvcsAllow, AttachRefused, PolicyUnread, ApplyFails, ApplyLate, ApplySucceeds,
            IInv, TypeOK
<1>6. JobKept
    BY <1>1, <1>2, <1>4 DEF JobKept, SvcPC
<1>7. OneJob' /\ QueueRight' /\ ServicesReachable'
    BY <1>1, <1>6, QuietStep DEF apiVars
<1>8. GroupsAllowed'
    <2> SUFFICES ASSUME up', restarts' = 0
                 PROVE  GroupsAllowed'
        BY DEF GroupsAllowed
    <2>1. \A n \in vnmgs' : n \in vpes' \cup late' \/ \E t \in logged' : SvcNS[t] = n
        BY <1>1, <1>2, <1>4 DEF IInv, GroupsAllowed
    <2>2. \A t \in svclive' : Settled(t)' /\ t \notin logged' => SvcNS[t] \in vnmgs'
        BY <1>1, <1>4 DEF IInv, GroupsAllowed, apiVars, Settled
    <2>3. \A t \in svcjob' : SvcNS[t] \in vnmgs'
        BY <1>1 DEF IInv, GroupsAllowed
    <2> QED BY <2>1, <2>2, <2>3 DEF GroupsAllowed
<1>9. MacrosRight'
    BY <1>1 DEF IInv, MacrosRight
<1>10. TypeOK'
    BY <1>1, <1>2, <1>3, <1>4, <1>5 DEF IInv, TypeOK, SvcPC, apiVars
<1> QED BY <1>7, <1>8, <1>9, <1>10 DEF IInv

\* By its name a service finds its own macro.
LEMMA OwnMacro ==
    ASSUME DistinctNames, IInv, NEW s \in Svc, NamedMacro(vnms, SvcName[s]) # {}
    PROVE  MacroOf(s) \in vnms
<1>1. PICK m \in vnms : m.name = SvcName[s]
    BY DEF NamedMacro
<1>2. m \in Macro /\ m.name = SvcName[m.addr]
    BY DEF IInv, TypeOK, MacrosRight
<1>3. m.addr = s
    BY <1>1, <1>2 DEF DistinctNames, Macro
<1> QED BY <1>1, <1>2, <1>3 DEF Macro, MacroOf

\* Finding the macro.
LEMMA NMFetchIInv ==
    ASSUME DistinctNames, IInv, NMFetchByName
    PROVE  IInv'
<1>1. svcpc = "nmfetch" /\ UNCHANGED <<vsdVars, svcq, NMGs, policy, apiVars, Namespaces, up, restarts>>
    BY DEF NMFetchByName, SvcFrame
<1>2. PICK s \in Svc : svcjob = {s}
    BY <1>1, TheJob
<1>3. (JobKept /\ svcpc' \in {"addnm", "nmcreate"}) \/ JobFails
    BY <1>2 DEF NMFetchByName, SvcGoto, SvcFail, SvcReturn, JobKept, JobFails, SvcPC
<1>4. NMs' \subseteq vnms
    BY <1>2 DEF NMFetchByName, NamedMacro, IInv, MacrosRight
<1>5. svcpc' = "addnm" => MacroOf(s) \in vnms
    <2> SUFFICES ASSUME svcpc' = "addnm"
                 PROVE  MacroOf(s) \in vnms
        OBVIOUS
    <2>1. NamedMacro(NMs, SvcName[s]) # {} \/ NamedMacro(vnms, SvcName[s]) # {}
        BY <1>2 DEF NMFetchByName, SvcGoto, SvcFail, SvcReturn
    <2>2. NamedMacro(vnms, SvcName[s]) # {}
        BY <2>1 DEF NamedMacro, IInv, MacrosRight
    <2> QED BY <2>2, OwnMacro
<1>6. OneJob' /\ QueueRight' /\ ServicesReachable'
    BY <1>1, <1>3, QuietStep DEF vsdVars, peVars, apiVars
<1>7. GroupsAllowed'
    <2>1. CASE up /\ restarts = 0
        <3>1. \A t \in svcjob : SvcNS[t] \in vnmgs
            BY <1>1, <2>1 DEF IInv, GroupsAllowed
        <3> QED BY <1>1, <1>3, <3>1, QuietGroups DEF vsdVars, peVars, apiVars
    <2>2. CASE ~(up /\ restarts = 0)
        BY <1>1, <2>2 DEF GroupsAllowed
    <2> QED BY <2>1, <2>2
<1>8. MacrosRight'
    BY <1>1, <1>2, <1>3, <1>4, <1>5 DEF IInv, MacrosRight, vsdVars, peVars, JobKept, JobFails, MacroOf
<1>9. TypeOK'
    BY <1>1, <1>3, <1>4 DEF IInv, TypeOK, SvcPC, JobKept, JobFails, vsdVars, peVars, apiVars
<1> QED BY <1>6, <1>7, <1>8, <1>9 DEF IInv

\* Making the macro.
LEMMA NMCreateIInv ==
    ASSUME IInv, NMCreate
    PROVE  IInv'
<1>1. /\ svcpc = "nmcreate"
      /\ UNCHANGED <<vnmgs, vgroup, vpes, vdraft, late, svcq, NMGs, policy, apiVars, Namespaces, up, restarts>>
    BY DEF NMCreate, SvcFrame, peVars
<1>2. PICK s \in Svc : svcjob = {s}
    BY <1>1, TheJob
<1>3. (JobKept /\ svcpc' = "addnm" /\ MacroOf(s) \in vnms') \/ JobFails
    BY <1>2 DEF NMCreate, SvcGoto, SvcFail, SvcReturn, JobKept, JobFails, SvcPC, MacroOf
<1>4. /\ vnms' \in {vnms, vnms \cup {MacroOf(s)}}
      /\ NMs' \subseteq NMs \cup vnms' /\ vnms \subseteq vnms'
    BY <1>2 DEF NMCreate, MacroOf
<1>5. MacroOf(s) \in Macro /\ MacroOf(s).name = SvcName[MacroOf(s).addr]
    BY SvcAssumption DEF MacroOf, Macro
<1>6. OneJob' /\ QueueRight' /\ ServicesReachable'
    BY <1>1, <1>3, <1>4, QuietStep DEF apiVars
<1>7. GroupsAllowed'
    <2>1. CASE up /\ restarts = 0
        <3>1. \A t \in svcjob : SvcNS[t] \in vnmgs
            BY <1>1, <2>1 DEF IInv, GroupsAllowed
        <3> QED BY <1>1, <1>3, <3>1, QuietGroups DEF apiVars
    <2>2. CASE ~(up /\ restarts = 0)
        BY <1>1, <2>2 DEF GroupsAllowed
    <2> QED BY <2>1, <2>2
<1>8. MacrosRight'
    <2>1. \A m \in vnms' : m.name = SvcName[m.addr]
        BY <1>4, <1>5 DEF IInv, MacrosRight
    <2>2. NMs' \subseteq vnms' /\ NMGs' \subseteq vnmgs'
        BY <1>1, <1>4 DEF IInv, MacrosRight
    <2>3. svcpc' = "addnm" => \A t \in svcjob' : MacroOf(t) \in vnms'
        BY <1>2, <1>3 DEF JobKept, JobFails
    <2> QED BY <2>1, <2>2, <2>3 DEF MacrosRight, MacroOf
<1>9. TypeOK'
    BY <1>1, <1>3, <1>4, <1>5 DEF IInv, TypeOK, SvcPC, JobKept, JobFails, apiVars
<1> QED BY <1>6, <1>7, <1>8, <1>9 DEF IInv

\* Assigning the group: no other service loses its own.
LEMMA AddNMIInv ==
    ASSUME DistinctNames, IInv, AddNM
    PROVE  IInv'
<1>1. /\ svcpc = "addnm"
      /\ UNCHANGED <<vnmgs, vnms, vpes, vdraft, late, svcq, NMGs, NMs, policy, apiVars, Namespaces, up, restarts>>
    BY DEF AddNM, SvcFrame, peVars
<1>2. PICK s \in Svc : svcjob = {s}
    BY <1>1, TheJob
<1>3. svcpc' = "idle" /\ svcjob' = {}
    BY DEF AddNM, SvcFail, SvcReturn
<1>4. \/ vgroup' = Assigned(SvcName[s], SvcNS[s]) /\ logged' = logged
      \/ vgroup' = vgroup /\ logged' = logged \cup {s}
    BY <1>2 DEF AddNM, SvcFail, SvcReturn
<1>5. SvcName[s] \in Name /\ SvcNS[s] \in NS /\ MacroOf(s) \in vnms
    BY <1>1, <1>2, SvcAssumption DEF IInv, MacrosRight
<1>6. OneJob' /\ QueueRight'
    BY <1>1, <1>3 DEF IInv, OneJob, QueueRight, apiVars
<1>7. ServicesReachable'
    <2> SUFFICES ASSUME NEW t \in svclive', Settled(t)', t \notin logged'
                 PROVE  Reachable(t)'
        BY DEF ServicesReachable
    <2>1. t \in svclive /\ t \in Svc /\ t \notin logged /\ SvcName[t] \in Name
        BY <1>1, <1>4, SvcAssumption DEF IInv, TypeOK, apiVars
    <2>2. CASE t = s
        <3>1. vgroup' = Assigned(SvcName[s], SvcNS[s])
            BY <1>4, <2>2
        <3>2. vgroup'[SvcName[s]] = {SvcNS[s]}
            BY <1>5, <3>1 DEF Assigned, IInv, TypeOK
        <3> QED BY <1>1, <1>5, <2>2, <3>2 DEF Reachable, MacroOf
    <2>3. CASE t # s
        <3>1. SvcName[t] # SvcName[s]
            BY <2>1, <2>3 DEF DistinctNames
        <3>2. vgroup'[SvcName[t]] = vgroup[SvcName[t]]
            BY <1>4, <1>5, <2>1, <3>1 DEF Assigned, IInv, TypeOK
        <3>3. Settled(t)
            BY <1>1, <1>2, <2>3 DEF Settled
        <3>4. Reachable(t)
            BY <2>1, <3>3 DEF IInv, ServicesReachable
        <3> QED BY <1>1, <3>2, <3>4 DEF Reachable
    <2> QED BY <2>2, <2>3
<1>8. GroupsAllowed'
    <2> SUFFICES ASSUME up', restarts' = 0
                 PROVE  GroupsAllowed'
        BY DEF GroupsAllowed
    <2>1. logged \subseteq logged'
        BY <1>4
    <2>2. \A n \in vnmgs' : n \in vpes' \cup late' \/ \E t \in logged' : SvcNS[t] = n
        BY <1>1, <2>1 DEF IInv, GroupsAllowed
    <2>3. SvcNS[s] \in vnmgs
        BY <1>1, <1>2 DEF IInv, GroupsAllowed
    <2>4. \A t \in svclive' : Settled(t)' /\ t \notin logged' => t = s \/ (Settled(t) /\ t \notin logged)
        BY <1>1, <1>2, <2>1 DEF Settled
    <2>5. \A t \in svclive' : Settled(t)' /\ t \notin logged' => SvcNS[t] \in vnmgs'
        BY <1>1, <2>3, <2>4 DEF IInv, GroupsAllowed, apiVars
    <2> QED BY <1>3, <2>2, <2>5 DEF GroupsAllowed
<1>9. MacrosRight'
    BY <1>1, <1>3 DEF IInv, MacrosRight
<1>10. TypeOK'
    BY <1>1, <1>3, <1>4, <1>5 DEF IInv, TypeOK, SvcPC, apiVars, Assigned
<1> QED BY <1>6, <1>7, <1>8, <1>9, <1>10 DEF IInv

----------------------------------------------------------------------------
(* Events *)

\* The key of a service, and what is queued under it.
LEMMA KeyTyped ==
    ASSUME IInv, NEW s \in Svc
    PROVE  Key(s) \in Keys /\ svcq[Key(s)] \in Seq(Event) /\ SvcName[s] \in Name /\ SvcNS[s] \in NS
<1>1. SvcName[s] \in Name /\ SvcNS[s] \in NS
    BY SvcAssumption
<1>2. Key(s) \in Keys
    BY <1>1 DEF Key, Keys
<1> QED BY <1>1, <1>2 DEF IInv, TypeOK, EventQueue

\* Services that share a key are one service.
LEMMA OneOfKey ==
    ASSUME DistinctNames, NEW s \in Svc, NEW t \in Svc, Key(s) = Key(t)
    PROVE  s = t
<1>1. SvcName[s] = SvcName[t]
    BY DEF Key
<1> QED BY <1>1 DEF DistinctNames

\* Taking the first event of a queue.
LEMMA TakenEvent ==
    ASSUME IInv, NEW k \in Keys, svcq[k] # <<>>, svcold' = svcold, svclive' = svclive,
           svcq' = [svcq EXCEPT ![k] = Tail(@)]
    PROVE  /\ Head(svcq[k]) \in Event /\ Key(Head(svcq[k]).svc) = k
           /\ Head(svcq[k]).kind = "del" => Head(svcq[k]).svc \in svcold
           /\ svcq' \in [Keys -> EventQueue] /\ QueueRight'
           /\ \A j \in Keys : j # k => svcq'[j] = svcq[j]
<1>1. svcq[k] \in Seq(Event) /\ svcq \in [Keys -> EventQueue]
    BY DEF IInv, TypeOK, EventQueue
<1>2. Len(svcq[k]) \in Nat /\ Len(svcq[k]) >= 1 /\ Head(svcq[k]) = svcq[k][1] /\ Head(svcq[k]) \in Event
    BY <1>1
<1>3. Key(Head(svcq[k]).svc) = k /\ (Head(svcq[k]).kind = "del" => Head(svcq[k]).svc \in svcold)
    <2>1. 1 \in 1 .. Len(svcq[k])
        BY <1>2
    <2> QED BY <1>2, <2>1 DEF IInv, QueueRight
<1>4. /\ Tail(svcq[k]) \in Seq(Event) /\ Len(Tail(svcq[k])) = Len(svcq[k]) - 1
      /\ \A i \in 1 .. Len(Tail(svcq[k])) : Tail(svcq[k])[i] = svcq[k][i + 1]
    BY <1>1, <1>2
<1>5. \A j \in Keys : svcq'[j] = IF j = k THEN Tail(svcq[k]) ELSE svcq[j]
    BY <1>1
<1>6. svcq' \in [Keys -> EventQueue]
    BY <1>1, <1>4 DEF EventQueue
<1>7. QueueRight'
    <2>1. svclive' \cap svcold' = {}
        BY DEF IInv, QueueRight
    <2>2. ASSUME NEW j \in Keys, NEW i \in 1 .. Len(svcq'[j])
          PROVE  /\ Key(svcq'[j][i].svc) = j
                 /\ svcq'[j][i].kind = "del" => svcq'[j][i].svc \in svcold'
        <3>1. CASE j = k
            <4>1. svcq'[j] = Tail(svcq[k])
                BY <1>5, <3>1
            <4>2. i \in 1 .. Len(Tail(svcq[k])) /\ i + 1 \in 1 .. Len(svcq[k])
                <5>1. i \in 1 .. Len(Tail(svcq[k]))
                    BY <4>1
                <5>2. \A a, n \in Nat : n = a - 1 => \A b \in 1 .. n : b + 1 \in 1 .. a
                    OBVIOUS
                <5>3. Len(svcq[k]) \in Nat /\ Len(Tail(svcq[k])) \in Nat
                    BY <1>2, <1>4
                <5> QED BY <1>4, <5>1, <5>2, <5>3
            <4>3. svcq'[j][i] = svcq[k][i + 1]
                BY <1>4, <4>1, <4>2
            <4> QED BY <3>1, <4>2, <4>3 DEF IInv, QueueRight
        <3>2. CASE j # k
            BY <1>5, <3>2 DEF IInv, QueueRight
        <3> QED BY <3>1, <3>2
    <2>3. \A j \in Keys : \A i \in 1 .. Len(svcq'[j]) :
            Key(svcq'[j][i].svc) = j /\ (svcq'[j][i].kind = "del" => svcq'[j][i].svc \in svcold')
        BY <2>2
    <2> QED BY <2>1, <2>3 DEF QueueRight, Key, Keys
<1> QED BY <1>2, <1>3, <1>5, <1>6, <1>7

\* Adding an event to a queue, or not when the agent is down.
LEMMA AddedEvent ==
    ASSUME IInv, NEW s \in Svc, NEW kind \in {"add", "del"}, Notify(s, kind),
           svcold \subseteq svcold', svclive' \cap svcold' = {}, kind = "del" => s \in svcold'
    PROVE  /\ svcq' \in [Keys -> EventQueue] /\ QueueRight'
           /\ \A j \in Keys : svcq'[j] = <<>> => svcq[j] = <<>>
           /\ up => svcq'[Key(s)] # <<>>
<1>1. svcq \in [Keys -> EventQueue] /\ Key(s) \in Keys /\ svcq[Key(s)] \in Seq(Event)
    BY KeyTyped DEF IInv, TypeOK
<1> DEFINE e == [kind |-> kind, svc |-> s]
<1>2. e \in Event
    BY DEF Event
<1>3. CASE ~up
    <2>1. svcq' = svcq
        BY <1>3 DEF Notify
    <2> QED BY <1>1, <1>3, <2>1 DEF IInv, QueueRight, Key, Keys
<1>4. CASE up
    <2> DEFINE q == Append(svcq[Key(s)], e)
    <2>1. \A j \in Keys : svcq'[j] = IF j = Key(s) THEN q ELSE svcq[j]
        BY <1>1, <1>4 DEF Notify
    <2>2. /\ q \in Seq(Event) /\ Len(q) = Len(svcq[Key(s)]) + 1 /\ Len(svcq[Key(s)]) \in Nat
          /\ q[Len(q)] = e /\ \A i \in 1 .. Len(svcq[Key(s)]) : q[i] = svcq[Key(s)][i]
        BY <1>1, <1>2
    <2>3. q # <<>>
        <3> HIDE DEF q
        <3>1. Len(q) # 0
            BY <2>2
        <3> QED BY <3>1
    <2>4. svcq' \in [Keys -> EventQueue]
        <3> HIDE DEF q
        <3> QED BY <1>1, <1>4, <2>2 DEF Notify, EventQueue, q
    <2>5. ASSUME NEW j \in Keys, NEW i \in 1 .. Len(svcq'[j])
          PROVE  /\ Key(svcq'[j][i].svc) = j
                 /\ svcq'[j][i].kind = "del" => svcq'[j][i].svc \in svcold'
        <3> HIDE DEF q
        <3>1. CASE j # Key(s)
            BY <2>1, <3>1 DEF IInv, QueueRight
        <3>2. CASE j = Key(s) /\ i = Len(q)
            BY <2>1, <2>2, <3>2
        <3>3. CASE j = Key(s) /\ i # Len(q)
            <4>1. svcq'[j] = q /\ i \in 1 .. Len(svcq[Key(s)])
                BY <2>1, <2>2, <3>3
            <4>2. svcq'[j][i] = svcq[Key(s)][i]
                BY <2>2, <4>1
            <4> QED BY <1>1, <3>3, <4>1, <4>2 DEF IInv, QueueRight
        <3> QED BY <3>1, <3>2, <3>3
    <2>6. \A j \in Keys : \A i \in 1 .. Len(svcq'[j]) :
            Key(svcq'[j][i].svc) = j /\ (svcq'[j][i].kind = "del" => svcq'[j][i].svc \in svcold')
        BY <2>5
    <2>7. QueueRight'
        BY <2>6 DEF QueueRight, Key, Keys
    <2> HIDE DEF q
    <2> QED BY <1>1, <2>1, <2>3, <2>4, <2>7
<1> QED BY <1>3, <1>4

\* What a step owes to the services when it leaves the VSD and the errors
\* alone and settles no service.
LEMMA NoneSettled ==
    ASSUME IInv, UNCHANGED <<vsdVars, logged, restarts>>, up' => up,
           \A s \in svclive' : up' /\ svcq'[Key(s)] = <<>> /\ s \notin svcjob' => s \in svclive /\ Settled(s)
    PROVE  /\ ServicesReachable'
           /\ up' /\ restarts' = 0 => \A s \in svclive' : Settled(s)' /\ s \notin logged' => SvcNS[s] \in vnmgs'
<1>0. \A s \in svclive' : Settled(s)' => s \in svclive /\ Settled(s)
    BY DEF Settled, Key
<1>1. ServicesReachable'
    BY <1>0 DEF IInv, ServicesReachable, Reachable, vsdVars, peVars
<1>2. up' /\ restarts' = 0 => \A s \in svclive' : Settled(s)' /\ s \notin logged' => SvcNS[s] \in vnmgs'
    BY <1>0 DEF IInv, GroupsAllowed, vsdVars, peVars
<1> QED BY <1>1, <1>2

\* ServiceCreated is called.
LEMMA ServiceAddedIInv ==
    ASSUME DistinctNames, IInv, NEW k \in Keys, ServiceAdded(k)
    PROVE  IInv'
<1> DEFINE x == Head(svcq[k]).svc
<1>1. /\ up /\ svcpc = "idle" /\ svcq[k] # <<>> /\ svcq' = [svcq EXCEPT ![k] = Tail(@)]
      /\ svcjob' = {x} /\ svcpc' \in {"nmgfetch", "waitns"}
      /\ UNCHANGED <<vsdVars, NMGs, NMs, policy, logged, apiVars, Namespaces, up, restarts>>
    BY DEF ServiceAdded, SvcFrame
<1>2. svcjob = {}
    BY <1>1 DEF IInv, OneJob
<1>3. /\ x \in Svc /\ Key(x) = k /\ svcq' \in [Keys -> EventQueue] /\ QueueRight'
      /\ \A j \in Keys : j # k => svcq'[j] = svcq[j]
    <2>1. svcold' = svcold /\ svclive' = svclive
        BY <1>1 DEF apiVars
    <2> QED BY <1>1, <2>1, TakenEvent DEF Event
<1>4. ASSUME NEW s \in svclive', up', svcq'[Key(s)] = <<>>, s \notin svcjob'
      PROVE  s \in svclive /\ Settled(s)
    <2>1. s \in svclive /\ s \in Svc /\ s # x
        BY <1>1, <1>4 DEF apiVars, IInv, TypeOK
    <2>2. Key(s) # k /\ Key(s) \in Keys
        BY <1>3, <2>1, OneOfKey, KeyTyped
    <2>3. svcq[Key(s)] = <<>>
        BY <1>3, <1>4, <2>2
    <2> QED BY <1>1, <1>2, <2>1, <2>3 DEF Settled
<1> HIDE DEF x
<1>5. /\ ServicesReachable'
      /\ up' /\ restarts' = 0 => \A s \in svclive' : Settled(s)' /\ s \notin logged' => SvcNS[s] \in vnmgs'
    BY <1>1, <1>4, NoneSettled
<1>6. GroupsAllowed'
    BY <1>1, <1>5 DEF IInv, GroupsAllowed, vsdVars, peVars
<1>7. OneJob' /\ MacrosRight'
    BY <1>1 DEF IInv, OneJob, MacrosRight, vsdVars, peVars
<1>8. TypeOK'
    BY <1>1, <1>3 DEF IInv, TypeOK, SvcPC, vsdVars, peVars, apiVars
<1> QED BY <1>3, <1>5, <1>6, <1>7, <1>8 DEF IInv

\* ServiceDeleted is called: no service that exists has the same key.
LEMMA ServiceDeletedIInv ==
    ASSUME DistinctNames, IInv, NEW k \in Keys, ServiceDeleted(k)
    PROVE  IInv'
<1> DEFINE x == Head(svcq[k]).svc
<1>1. /\ up /\ svcpc = "idle" /\ svcq[k] # <<>> /\ Head(svcq[k]).kind = "del"
      /\ svcq' = [svcq EXCEPT ![k] = Tail(@)]
      /\ UNCHANGED <<vsdVars, NMGs, NMs, policy, svcpc, svcjob, logged, apiVars, Namespaces, up, restarts>>
    BY DEF ServiceDeleted, SvcFrame
<1>2. /\ x \in Svc /\ Key(x) = k /\ x \in svcold /\ svcq' \in [Keys -> EventQueue] /\ QueueRight'
      /\ \A j \in Keys : j # k => svcq'[j] = svcq[j]
    <2>1. svcold' = svcold /\ svclive' = svclive
        BY <1>1 DEF apiVars
    <2> QED BY <1>1, <2>1, TakenEvent DEF Event
<1>3. ASSUME NEW s \in svclive', up', svcq'[Key(s)] = <<>>, s \notin svcjob'
      PROVE  s \in svclive /\ Settled(s)
    <2>1. s \in svclive /\ s \in Svc /\ s # x
        BY <1>1, <1>2 DEF apiVars, IInv, TypeOK, QueueRight
    <2>2. Key(s) # k /\ Key(s) \in Keys
        BY <1>2, <2>1, OneOfKey, KeyTyped
    <2>3. svcq[Key(s)] = <<>>
        BY <1>2, <1>3, <2>2
    <2> QED BY <1>1, <1>3, <2>1, <2>3 DEF Settled
<1> HIDE DEF x
<1>4. /\ ServicesReachable'
      /\ up' /\ restarts' = 0 => \A s \in svclive' : Settled(s)' /\ s \notin logged' => SvcNS[s] \in vnmgs'
    BY <1>1, <1>3, NoneSettled
<1>5. GroupsAllowed'
    BY <1>1, <1>4 DEF IInv, GroupsAllowed, vsdVars, peVars
<1>6. OneJob' /\ MacrosRight'
    BY <1>1 DEF IInv, OneJob, MacrosRight, vsdVars, peVars
<1>7. TypeOK'
    BY <1>1, <1>2 DEF IInv, TypeOK, vsdVars, peVars, apiVars
<1> QED BY <1>2, <1>4, <1>5, <1>6, <1>7 DEF IInv

\* A service is created or deleted: the agent, if it is up, has it queued.
LEMMA ClusterIInv ==
    ASSUME IInv, NEW s \in Svc, CreateService(s) \/ DeleteService(s)
    PROVE  IInv'
<1>1. UNCHANGED <<vsdVars, memVars, svcpc, svcjob, logged, up, restarts>>
    BY DEF CreateService, DeleteService, ClusterFrame
<1>2. /\ svclive' \subseteq svclive \cup {s} /\ svcold \subseteq svcold' /\ svcold' \subseteq svcold \cup {s}
      /\ svclive' \cap svcold' = {}
      /\ \E kind \in {"add", "del"} : Notify(s, kind) /\ (kind = "del" => s \in svcold')
    <2>1. CASE CreateService(s)
        BY <2>1 DEF CreateService, IInv, QueueRight
    <2>2. CASE DeleteService(s)
        BY <2>2 DEF DeleteService, IInv, QueueRight
    <2> QED BY <2>1, <2>2
<1>3. /\ svcq' \in [Keys -> EventQueue] /\ QueueRight'
      /\ \A j \in Keys : svcq'[j] = <<>> => svcq[j] = <<>>
      /\ up => svcq'[Key(s)] # <<>>
    BY <1>2, AddedEvent
<1>4. ASSUME NEW t \in svclive', up', svcq'[Key(t)] = <<>>, t \notin svcjob'
      PROVE  t \in svclive /\ Settled(t)
    <2>1. t # s
        BY <1>1, <1>3, <1>4
    <2>2. t \in svclive /\ t \in Svc
        BY <1>2, <2>1 DEF IInv, TypeOK
    <2>3. Key(t) \in Keys
        BY <2>2, KeyTyped
    <2> QED BY <1>1, <1>3, <1>4, <2>2, <2>3 DEF Settled
<1>5. /\ ServicesReachable'
      /\ up' /\ restarts' = 0 => \A t \in svclive' : Settled(t)' /\ t \notin logged' => SvcNS[t] \in vnmgs'
    BY <1>1, <1>4, NoneSettled
<1>6. GroupsAllowed'
    BY <1>1, <1>5 DEF IInv, GroupsAllowed, vsdVars, peVars
<1>7. OneJob' /\ MacrosRight'
    BY <1>1 DEF IInv, OneJob, MacrosRight, vsdVars, peVars, memVars
<1>8. TypeOK'
    BY <1>1, <1>2, <1>3 DEF IInv, TypeOK, vsdVars, peVars, memVars
<1> QED BY <1>3, <1>5, <1>6, <1>7, <1>8 DEF IInv

\* A namespace appears.
LEMMA PublishIInv ==
    ASSUME IInv, NEW n \in NS, PublishNamespace(n)
    PROVE  IInv'
<1>1. /\ UNCHANGED <<vsdVars, apiVars, svcq, NMGs, NMs, policy, svcpc, svcjob, logged, up, restarts>>
      /\ Namespaces' = Namespaces \cup {n}
    BY DEF PublishNamespace
<1>2. \A s \in svclive' : up' /\ svcq'[Key(s)] = <<>> /\ s \notin svcjob' => s \in svclive /\ Settled(s)
    BY <1>1 DEF Settled, apiVars
<1>3. /\ ServicesReachable'
      /\ up' /\ restarts' = 0 => \A s \in svclive' : Settled(s)' /\ s \notin logged' => SvcNS[s] \in vnmgs'
    BY <1>1, <1>2, NoneSettled
<1>4. GroupsAllowed'
    BY <1>1, <1>3 DEF IInv, GroupsAllowed, vsdVars, peVars
<1>5. OneJob' /\ MacrosRight' /\ QueueRight'
    BY <1>1 DEF IInv, OneJob, MacrosRight, QueueRight, vsdVars, peVars, apiVars
<1>6. TypeOK'
    BY <1>1 DEF IInv, TypeOK, vsdVars, peVars, apiVars
<1> QED BY <1>3, <1>4, <1>5, <1>6 DEF IInv

\* A job of the VSD ends: elements of the draft become live, or are dropped.
LEMMA JobIInv ==
    ASSUME IInv, JobEnds
    PROVE  IInv'
<1>1. UNCHANGED <<vnmgs, vnms, vgroup, late, apiVars, svcq, memVars, svcpc, svcjob, logged, up, restarts>>
    BY DEF JobEnds
<1>2. vpes \subseteq vpes' /\ vpes' \subseteq vpes \cup vdraft /\ vdraft' = {}
    BY DEF JobEnds, DraftApplied
<1>3. TypeOK'
    BY <1>1, <1>2 DEF IInv, TypeOK, apiVars, memVars
<1>4. OneJob' /\ QueueRight' /\ MacrosRight' /\ ServicesReachable'
    BY <1>1 DEF IInv, OneJob, QueueRight, MacrosRight, ServicesReachable, Settled, Reachable,
        apiVars, memVars
<1>5. GroupsAllowed'
    BY <1>1, <1>2 DEF IInv, GroupsAllowed, Settled, apiVars
<1> QED BY <1>3, <1>4, <1>5 DEF IInv

----------------------------------------------------------------------------
(* The agent process *)

\* A crash forgets what is known, queued and logged.
LEMMA CrashIInv ==
    ASSUME IInv, Crash
    PROVE  IInv'
<1>1. /\ up' = FALSE /\ svcpc' = "idle" /\ svcjob' = {} /\ logged' = {} /\ svcq' = [k \in Keys |-> <<>>]
      /\ Namespaces' = {} /\ NMGs' = {} /\ NMs' = {} /\ policy' = {}
      /\ late' = {} /\ UNCHANGED <<vnmgs, vnms, vgroup, vpes, vdraft, apiVars, restarts>>
    BY DEF Crash
<1>2. svcq' \in [Keys -> EventQueue]
    <2>1. <<>> \in EventQueue
        BY DEF EventQueue
    <2> QED BY <1>1, <2>1
<1>3. QueueRight'
    <2>1. svclive' \cap svcold' = {}
        BY <1>1 DEF IInv, QueueRight, apiVars
    <2>2. \A k \in Keys : 1 .. Len(svcq'[k]) = {}
        BY <1>1
    <2> QED BY <2>1, <2>2 DEF QueueRight, Keys
<1>4. OneJob' /\ MacrosRight'
    BY <1>1 DEF IInv, OneJob, MacrosRight, vsdVars, peVars
<1>5. ServicesReachable' /\ GroupsAllowed'
    BY <1>1 DEF ServicesReachable, Settled, GroupsAllowed
<1>6. TypeOK'
    BY <1>1, <1>2 DEF IInv, TypeOK, SvcPC, vsdVars, peVars, apiVars
<1> QED BY <1>3, <1>4, <1>5, <1>6 DEF IInv

\* A restart queues every service that exists.
LEMMA RestartIInv ==
    ASSUME IInv, Restart
    PROVE  IInv'
<1> DEFINE none(k) == \A s \in svclive : Key(s) # k
           the(k) == CHOOSE s \in svclive : Key(s) = k
           first(k) == [kind |-> "add", svc |-> the(k)]
<1>1. /\ ~up /\ up' = TRUE /\ restarts < MaxRestarts /\ restarts' = restarts + 1
      /\ svcq' = [k \in Keys |-> IF none(k) THEN <<>> ELSE <<first(k)>>]
      /\ UNCHANGED <<vsdVars, apiVars, Namespaces, NMGs, NMs, svcpc, svcjob, logged>>
    BY DEF Restart
<1>2. svcjob = {} /\ svcpc = "idle"
    BY <1>1 DEF IInv, OneJob
<1>3. restarts' \in 0 .. MaxRestarts /\ restarts' # 0
    BY <1>1, RestartAssumption DEF IInv, TypeOK
<1>4. \A k \in Keys : ~none(k) => the(k) \in svclive /\ Key(the(k)) = k
    OBVIOUS
<1> HIDE DEF the
<1>5. \A k \in Keys : ~none(k) => first(k) \in Event /\ Key(first(k).svc) = k /\ first(k).kind = "add"
    BY <1>4 DEF Event, IInv, TypeOK
<1> HIDE DEF none, first
<1>6. svcq' \in [Keys -> EventQueue]
    <2>1. <<>> \in EventQueue /\ \A e \in Event : <<e>> \in EventQueue
        BY DEF EventQueue
    <2> QED BY <1>1, <1>5, <2>1
<1>7. QueueRight'
    <2>1. svclive' \cap svcold' = {}
        BY <1>1 DEF IInv, QueueRight, apiVars
    <2>2. ASSUME NEW k \in Keys, NEW i \in 1 .. Len(svcq'[k])
          PROVE  Key(svcq'[k][i].svc) = k /\ svcq'[k][i].kind = "add"
        <3>1. CASE none(k)
            <4>1. svcq'[k] = <<>>
                BY <1>1, <3>1
            <4> QED BY <4>1
        <3>2. CASE ~none(k)
            <4>1. svcq'[k] = <<first(k)>>
                BY <1>1, <3>2
            <4>2. svcq'[k][i] = first(k)
                BY <4>1
            <4> QED BY <1>5, <3>2, <4>2
        <3> QED BY <3>1, <3>2
    <2>3. \A k \in Keys : \A i \in 1 .. Len(svcq'[k]) :
            Key(svcq'[k][i].svc) = k /\ (svcq'[k][i].kind = "del" => svcq'[k][i].svc \in svcold')
        BY <2>2
    <2> QED BY <2>1, <2>3 DEF QueueRight, Key, Keys
<1>8. ServicesReachable'
    <2>1. ASSUME NEW s \in svclive
          PROVE  svcq'[Key(s)] # <<>>
        <3>1. Key(s) \in Keys
            BY KeyTyped DEF IInv, TypeOK
        <3>2. ~none(Key(s))
            BY DEF none
        <3>3. svcq'[Key(s)] = <<first(Key(s))>>
            BY <1>1, <3>1, <3>2
        <3> QED BY <3>3
    <2>2. \A s \in svclive : svcq'[Key(s)] # <<>>
        BY <2>1
    <2> QED BY <1>1, <2>2 DEF ServicesReachable, Settled, Key, apiVars
<1>9. OneJob' /\ MacrosRight' /\ GroupsAllowed'
    BY <1>1, <1>2, <1>3 DEF IInv, OneJob, MacrosRight, GroupsAllowed, vsdVars, peVars
<1>10. TypeOK'
    <2>1. policy' \subseteq NS
        BY DEF Restart, Loaded, IInv, TypeOK
    <2> QED BY <1>1, <1>3, <1>6, <2>1 DEF IInv, TypeOK, vsdVars, peVars, apiVars
<1> QED BY <1>7, <1>8, <1>9, <1>10 DEF IInv

----------------------------------------------------------------------------
(* The theorems *)

\* Every step keeps the invariant.
LEMMA NextIInv ==
    ASSUME DistinctNames, IInv, [Next]_vars
    PROVE  IInv'
<1>1. CASE \E s \in Svc : CreateService(s) \/ DeleteService(s)
    BY <1>1, ClusterIInv
<1>2. CASE \E n \in NS : PublishNamespace(n)
    BY <1>2, PublishIInv
<1>3. CASE \E k \in Keys : ServiceAdded(k) \/ ServiceDeleted(k)
    BY <1>3, ServiceAddedIInv, ServiceDeletedIInv
<1>4. CASE WaitNamespace
    BY <1>4, WaitIInv
<1>5. CASE NMGFetchByName
    BY <1>5, NMGFetchIInv
<1>6. CASE NMGCreate
    BY <1>6, NMGCreateIInv
<1>7. CASE AddPESvcsAllow
    BY <1>7, AddPEIInv
<1>8. CASE NMFetchByName
    BY <1>8, NMFetchIInv
<1>9. CASE NMCreate
    BY <1>9, NMCreateIInv
<1>10. CASE AddNM
    BY <1>10, AddNMIInv
<1>11. CASE Crash
    BY <1>11, CrashIInv
<1>12. CASE Restart
    BY <1>12, RestartIInv
<1>13. CASE JobEnds
    BY <1>13, JobIInv
<1>14. CASE UNCHANGED vars
    BY <1>14 DEF IInv, TypeOK, OneJob, QueueRight, MacrosRight, ServicesReachable, GroupsAllowed,
                 Settled, Reachable, vars, vsdVars, peVars, apiVars, memVars
<1> QED BY <1>1, <1>2, <1>3, <1>4, <1>5, <1>6, <1>7, <1>8, <1>9, <1>10, <1>11, <1>12, <1>13, <1>14
    DEF Next, SvcNext

\* The invariant holds of every behaviour.
THEOREM Invariance ==
    ASSUME DistinctNames
    PROVE  Spec => []IInv
<1>1. Init => IInv
    BY InitIInv
<1>2. IInv /\ [Next]_vars => IInv'
    BY NextIInv
<1> QED BY <1>1, <1>2, PTL DEF Spec

\* Every variable of the service controller keeps its type.
THEOREM TypeCorrect ==
    ASSUME DistinctNames
    PROVE  Spec => []TypeOK
<1>1. IInv => TypeOK
    BY DEF IInv
<1> QED BY <1>1, Invariance, PTL

\* When no two services share a name, a service that ServiceCreated has handled
\* without an error has its macro, with its own address, in the group of its
\* namespace, whatever failed for other services and after every restart.
THEOREM Reachability ==
    ASSUME DistinctNames
    PROVE  Spec => []ServicesReachable
<1>1. IInv => ServicesReachable
    BY DEF IInv
<1> QED BY <1>1, Invariance, PTL

\* In the first life of the agent the policy element of a handled service's
\* namespace is live, or an error was logged for a service of the namespace, or
\* one of them is being handled, or Job gave up waiting for the element's job:
\* nothing else keeps AddPESvcsAllow from having its effect silently.
THEOREM FirstLife ==
    ASSUME DistinctNames
    PROVE  Spec => []AllowedInFirstLife
<1>1. IInv => AllowedInFirstLife
    <2> SUFFICES ASSUME IInv, restarts = 0, NEW s \in svclive, Settled(s)
                 PROVE  SvcNS[s] \in vpes \cup late \/ \E t \in logged \cup svcjob : SvcNS[t] = SvcNS[s]
        BY DEF AllowedInFirstLife
    <2>1. up
        BY DEF Settled
    <2>2. s \in logged \/ SvcNS[s] \in vnmgs
        BY <2>1 DEF IInv, GroupsAllowed
    <2> QED BY <2>1, <2>2 DEF IInv, GroupsAllowed
<1> QED BY <1>1, Invariance, PTL
=============================================================================
