------------------------ MODULE LeaderElectionProofs ------------------------
(***************************************************************************)
(* Proofs about LeaderElection for any set of processes and masters and    *)
(* any durations with RenewSleep + Slack < TTL, if no process pauses for   *)
(* longer than Slack.                                                      *)
(***************************************************************************)
EXTENDS LeaderElection, TLAPS

\* The sleep between renewals is a positive number of ticks.
LEMMA RenewSleepNat == RenewSleep \in Nat
  BY TimeAssumption DEF RenewSleep

\* A timer that was just set runs for less than the life of a renewed key.
LEMMA TimerFacts ==
  /\ Slack \in Timer /\ Slack < TTL
  /\ RenewSleep + Slack \in Timer /\ RenewSleep + Slack < TTL
  /\ Timer \subseteq Nat
  BY RenewSleepNat, TimeAssumption, RenewAssumption DEF Timer

\* Lives of keys are natural numbers, and ageing keeps them so.
LEMMA LifeFacts ==
  /\ Life \subseteq Nat /\ 0 \in Life /\ TTL \in Life
  /\ \A x \in Life : Less(x) \in Life
<1>1. TTL \in Nat
  BY TimeAssumption
<1>2. Life \subseteq Nat /\ 0 \in Life /\ TTL \in Life
  BY <1>1 DEF Life
<1>3. \A x \in Life : Less(x) \in Life
  BY <1>1 DEF Life, Less
<1> QED BY <1>2, <1>3

\* A timer never runs for as long as a renewed key lives.
LEMMA TimerBelowTTL == \A t \in Timer : t \in Nat /\ t < TTL
<1>1. TTL \in Nat /\ RenewSleep + Slack \in Nat
  BY TimeAssumption, RenewSleepNat
<1> QED BY <1>1, RenewAssumption DEF Timer

\* The initial state satisfies the inductive invariant.
LEMMA InitInv == Init => Inv
<1> SUFFICES ASSUME Init PROVE Inv
  OBVIOUS
<1>1. TypeOK
  BY LifeFacts DEF Init, TypeOK, PC
<1>2. Registered = {} /\ Leaders = {}
  BY DEF Init, Registered, Leaders
<1> QED BY <1>1, <1>2 DEF Init, Inv, HostKeyHeld, OnePerHost, LeaseHeld

\* The end of a process takes nothing from the others.
LEMMA ProcessEndsInv ==
  ASSUME Inv, NEW a \in Agent, ProcessEnds(a), UNCHANGED etcdVars
  PROVE  Inv'
<1>1. TypeOK'
  BY LifeFacts DEF Inv, TypeOK, PC, ProcessEnds, etcdVars
<1>2. /\ Registered' = Registered \ {a} /\ Leaders' = Leaders \ {a}
      /\ \A b \in Agent \ {a} : hrenew'[b] = hrenew[b] /\ lrenew'[b] = lrenew[b]
      /\ lrenew'[a] = {} /\ paused' = {}
      /\ \A b \in Agent \ {a} : pc'[b] = pc[b]
  BY DEF Inv, TypeOK, Registered, Leaders, ProcessEnds
<1>3. Registered \subseteq Agent /\ Leaders \subseteq Agent
  BY DEF Registered, Leaders
<1>4. HostKeyHeld' /\ OnePerHost' /\ LeaseHeld'
  BY <1>2, <1>3 DEF Inv, HostKeyHeld, OnePerHost, LeaseHeld, etcdVars
<1> QED BY <1>1, <1>2, <1>4 DEF Inv

\* What ageing does to a timer.
LEMMA AgedTimer ==
  ASSUME NEW S \in SUBSET Timer
  PROVE  /\ {Less(t) : t \in S} \subseteq Timer
         /\ S # {} => {Less(t) : t \in S} # {}
         /\ S = {} => {Less(t) : t \in S} = {}
  BY TimerFacts, RenewSleepNat, TimeAssumption DEF Less, Timer

\* A tick leaves every key that is renewed in time with a life of its own.
LEMMA TickInv ==
  ASSUME Inv, Tick
  PROVE  Inv'
<1>1. TypeOK'
  <2>1. hrenew' \in [Agent -> SUBSET Timer] /\ lrenew' \in [Agent -> SUBSET Timer]
    BY AgedTimer DEF Inv, TypeOK, Tick, Aged
  <2>2. /\ hostkey' \in [HostName -> Life] /\ lease' \in Life
        /\ sleep' \in [Agent -> Life]
    BY LifeFacts DEF Inv, TypeOK, Tick
  <2>3. owner' \subseteq HostName /\ event' \in [Agent -> {"", "expire", "create"}]
    BY DEF Inv, TypeOK, Tick, Notified
  <2> QED BY <2>1, <2>2, <2>3 DEF Inv, TypeOK, Tick
<1>2. paused' = {} /\ \A a \in Agent : pc'[a] # "leader" => lrenew'[a] = {}
  BY AgedTimer DEF Inv, TypeOK, Tick, Aged
<1>3. Registered' = Registered /\ Leaders' = Leaders /\ OnePerHost'
  BY DEF Inv, OnePerHost, Registered, Leaders, Tick
<1>4. ASSUME NEW a \in Agent PROVE 0 \notin hrenew[a] /\ 0 \notin lrenew[a]
  BY DEF Inv, Tick, Timely
<1>5. HostKeyHeld'
  <2> SUFFICES ASSUME NEW a \in Registered
               PROVE  hrenew'[a] # {} /\ \A u \in hrenew'[a] : u < hostkey'[HostOf[a]]
    BY <1>3 DEF HostKeyHeld
  <2>1. a \in Agent /\ hrenew[a] \in SUBSET Timer /\ hrenew[a] # {}
    BY DEF Inv, TypeOK, Registered, HostKeyHeld
  <2>2. hrenew'[a] = {Less(t) : t \in hrenew[a]}
    BY <2>1 DEF Tick, Aged
  <2>3. HostOf[a] \in HostName /\ hostkey[HostOf[a]] \in Nat
    BY <2>1, HostAssumption, LifeFacts DEF Inv, TypeOK
  <2>4. ASSUME NEW t \in hrenew[a] PROVE Less(t) < hostkey'[HostOf[a]]
    <3>1. t \in Nat /\ t # 0 /\ t < hostkey[HostOf[a]]
      BY <1>4, <2>1, TimerFacts DEF Inv, HostKeyHeld
    <3>2. hostkey'[HostOf[a]] = Less(hostkey[HostOf[a]])
      BY <2>3 DEF Tick
    <3> QED BY <2>3, <3>1, <3>2 DEF Less
  <2> QED BY <2>1, <2>2, <2>4
<1>6. LeaseHeld'
  <2> SUFFICES ASSUME NEW a \in Leaders
               PROVE  /\ owner' = {HostOf[a]} /\ lrenew'[a] # {}
                      /\ \A u \in lrenew'[a] : u < lease'
    BY <1>3 DEF LeaseHeld
  <2>1. a \in Agent /\ lrenew[a] \in SUBSET Timer /\ lrenew[a] # {} /\ owner = {HostOf[a]}
    BY DEF Inv, TypeOK, Leaders, LeaseHeld
  <2>2. lrenew'[a] = {Less(t) : t \in lrenew[a]} /\ lease' = Less(lease) /\ lease \in Nat
    BY <2>1, LifeFacts DEF Tick, Aged, Inv, TypeOK
  <2>3. \A t \in lrenew[a] : t \in Nat /\ t # 0 /\ t < lease
    BY <1>4, <2>1, TimerFacts DEF Inv, LeaseHeld
  <2>4. lease # 1
    BY <2>1, <2>2, <2>3
  <2>5. owner' = owner
    BY <2>4 DEF Tick
  <2>6. \A t \in lrenew[a] : Less(t) < Less(lease)
    BY <2>2, <2>3 DEF Less
  <2> QED BY <2>1, <2>2, <2>5, <2>6
<1> QED BY <1>1, <1>2, <1>3, <1>5, <1>6 DEF Inv

\* A step that leaves keys and timers alone and moves no process into or out
\* of the registered ones.
LEMMA QuietStepInv ==
  ASSUME Inv, TypeOK', UNCHANGED <<hostkey, hrenew, lrenew, paused>>,
         Leaders' = Leaders, Registered' = Registered,
         Leaders # {} => UNCHANGED <<owner, lease>>
  PROVE  Inv'
<1>1. \A a \in Agent : pc'[a] # "leader" => pc[a] # "leader"
  BY DEF Leaders
<1> QED BY <1>1 DEF Inv, HostKeyHeld, OnePerHost, LeaseHeld

\* Registration: the host key was free, so no process of that master is
\* registered.
LEMMA RegisterInv ==
  ASSUME Inv, NEW a \in Agent, Register(a)
  PROVE  Inv'
<1>1. TypeOK'
  BY LifeFacts, TimerFacts, HostAssumption DEF Inv, TypeOK, PC, Register
<1>2. /\ Registered' = Registered \cup {a} /\ Leaders' = Leaders /\ a \notin Leaders
      /\ \A b \in Agent : pc'[b] # "leader" => pc[b] # "leader"
  BY DEF Inv, TypeOK, Registered, Leaders, Register
<1>3. \A b \in Registered : b \in Agent /\ HostOf[b] \in HostName /\ HostOf[b] # HostOf[a]
  <2> SUFFICES ASSUME NEW b \in Registered
               PROVE  b \in Agent /\ HostOf[b] \in HostName /\ HostOf[b] # HostOf[a]
    OBVIOUS
  <2>1. b \in Agent /\ HostOf[b] \in HostName
    BY HostAssumption DEF Registered
  <2>2. PICK t \in hrenew[b] : t < hostkey[HostOf[b]]
    BY DEF Inv, HostKeyHeld
  <2>3. t \in Nat
    BY <2>1, <2>2, TimerFacts DEF Inv, TypeOK
  <2>4. hostkey[HostOf[b]] # 0
    BY <2>2, <2>3
  <2> QED BY <2>1, <2>4 DEF Register, HostKeyExists
<1>4. HostOf[a] \in HostName /\ hostkey'[HostOf[a]] = TTL /\ hrenew'[a] = {Slack}
  BY HostAssumption DEF Inv, TypeOK, Register
<1>5. HostKeyHeld'
  <2> SUFFICES ASSUME NEW b \in Registered'
               PROVE  hrenew'[b] # {} /\ \A t \in hrenew'[b] : t < hostkey'[HostOf[b]]
    BY DEF HostKeyHeld
  <2>1. CASE b = a
    BY <2>1, <1>4, TimerFacts
  <2>2. CASE b # a
    <3>1. b \in Registered /\ b \in Agent /\ HostOf[b] # HostOf[a]
      BY <2>2, <1>2, <1>3
    <3>2. hrenew'[b] = hrenew[b] /\ hostkey'[HostOf[b]] = hostkey[HostOf[b]]
      BY <3>1, <2>2, <1>3 DEF Inv, TypeOK, Register
    <3> QED BY <3>1, <3>2 DEF Inv, HostKeyHeld
  <2> QED BY <2>1, <2>2
<1>6. OnePerHost'
  BY <1>2, <1>3 DEF Inv, OnePerHost
<1>7. LeaseHeld' /\ paused' = {} /\ \A b \in Agent : pc'[b] # "leader" => lrenew'[b] = {}
  BY <1>2 DEF Inv, LeaseHeld, Register
<1> QED BY <1>1, <1>5, <1>6, <1>7 DEF Inv

\* Creation of the leader key: there was none, so there was no leader.
LEMMA BecomeLeaderInv ==
  ASSUME Inv, NEW a \in Agent, BecomeLeader(a)
  PROVE  Inv'
<1>1. TypeOK'
  BY LifeFacts, TimerFacts, HostAssumption
  DEF Inv, TypeOK, PC, BecomeLeader, Notified
<1>2. Leaders = {}
  BY DEF Inv, LeaseHeld, BecomeLeader, LeaderKeyExists
<1>3. Registered' = Registered /\ Leaders' = {a}
  BY <1>2 DEF Inv, TypeOK, Registered, Leaders, BecomeLeader
<1>4. lrenew'[a] = {Slack} /\ lease' = TTL /\ owner' = {HostOf[a]}
  BY DEF Inv, TypeOK, BecomeLeader
<1>5. LeaseHeld'
  BY <1>3, <1>4, TimerFacts DEF LeaseHeld
<1>6. HostKeyHeld' /\ OnePerHost' /\ paused' = {}
  BY <1>3 DEF Inv, HostKeyHeld, OnePerHost, BecomeLeader
<1>7. \A b \in Agent : pc'[b] # "leader" => lrenew'[b] = {}
  BY <1>2 DEF Inv, TypeOK, BecomeLeader, Leaders
<1> QED BY <1>1, <1>5, <1>6, <1>7 DEF Inv

\* Renewal of the host key by one process does not shorten anybody's key.
LEMMA RenewHostInv ==
  ASSUME Inv, NEW a \in Agent, RenewHost(a)
  PROVE  Inv'
<1>1. CASE ProcessEnds(a) /\ UNCHANGED hostkey
  BY <1>1, ProcessEndsInv DEF RenewHost, etcdVars
<1>2. CASE /\ hostkey' = [hostkey EXCEPT ![HostOf[a]] = TTL]
           /\ hrenew' = [hrenew EXCEPT ![a] = NextRenewal]
           /\ UNCHANGED <<pc, event, lrenew, sleep, paused>>
  <2>1. TypeOK' /\ UNCHANGED <<owner, lease>>
    BY <1>2, LifeFacts, TimerFacts, HostAssumption
    DEF Inv, TypeOK, NextRenewal, RenewHost
  <2>2. Registered' = Registered /\ Leaders' = Leaders
    BY <1>2 DEF Registered, Leaders
  <2>3. HostKeyHeld'
    <3> SUFFICES ASSUME NEW b \in Registered
                 PROVE  hrenew'[b] # {} /\ \A t \in hrenew'[b] : t < hostkey'[HostOf[b]]
      BY <2>2 DEF HostKeyHeld
    <3>1. b \in Agent /\ HostOf[a] \in HostName /\ HostOf[b] \in HostName
      BY HostAssumption DEF Registered
    <3>2. CASE b = a
      BY <3>1, <3>2, <1>2, TimerFacts DEF Inv, TypeOK, NextRenewal
    <3>3. CASE b # a /\ HostOf[b] = HostOf[a]
      <4>1. hrenew'[b] = hrenew[b] /\ hostkey'[HostOf[b]] = TTL
        BY <3>1, <3>3, <1>2 DEF Inv, TypeOK
      <4>2. \A t \in hrenew[b] : t < TTL
        BY <3>1, TimerBelowTTL DEF Inv, TypeOK
      <4> QED BY <4>1, <4>2 DEF Inv, HostKeyHeld
    <3>4. CASE HostOf[b] # HostOf[a]
      <4>1. hrenew'[b] = hrenew[b] /\ hostkey'[HostOf[b]] = hostkey[HostOf[b]]
        BY <3>1, <3>4, <1>2 DEF Inv, TypeOK
      <4> QED BY <4>1 DEF Inv, HostKeyHeld
    <3> QED BY <3>2, <3>3, <3>4
  <2> QED BY <1>2, <2>1, <2>2, <2>3 DEF Inv, OnePerHost, LeaseHeld
<1> QED BY <1>1, <1>2 DEF RenewHost

\* Renewal of the leader key by its owner.
LEMMA RenewLeaderInv ==
  ASSUME Inv, NEW a \in Agent, RenewLeader(a)
  PROVE  Inv'
<1>1. a \in Leaders /\ owner = {HostOf[a]}
  BY DEF Inv, Leaders, LeaseHeld, RenewLeader, Due
<1>2. /\ lease' = TTL /\ lrenew' = [lrenew EXCEPT ![a] = NextRenewal]
      /\ UNCHANGED <<hostkey, owner, pc, event, hrenew, sleep, paused>>
  BY <1>1 DEF RenewLeader
<1>3. TypeOK'
  BY <1>2, LifeFacts, TimerFacts DEF Inv, TypeOK, NextRenewal
<1>4. Registered' = Registered /\ Leaders' = Leaders
  BY <1>2 DEF Registered, Leaders
<1>5. LeaseHeld'
  <2> SUFFICES ASSUME NEW b \in Leaders
               PROVE  /\ owner' = {HostOf[b]} /\ lrenew'[b] # {}
                      /\ \A t \in lrenew'[b] : t < lease'
    BY <1>4 DEF LeaseHeld
  <2>1. b \in Agent /\ owner' = {HostOf[b]}
    BY <1>2 DEF Inv, LeaseHeld, Leaders
  <2>2. CASE b = a
    BY <2>1, <2>2, <1>2, TimerFacts DEF Inv, TypeOK, NextRenewal
  <2>3. CASE b # a
    <3>1. lrenew'[b] = lrenew[b] /\ lrenew[b] # {} /\ lrenew[b] \subseteq Timer
      BY <2>1, <2>3, <1>2 DEF Inv, TypeOK, LeaseHeld
    <3>2. \A t \in lrenew[b] : t < TTL
      BY <3>1, TimerBelowTTL
    <3> QED BY <2>1, <3>1, <3>2, <1>2
  <2> QED BY <2>2, <2>3
<1>6. \A b \in Agent : pc'[b] # "leader" => lrenew'[b] = {}
  BY <1>1, <1>2 DEF Inv, TypeOK, Leaders
<1> QED BY <1>2, <1>3, <1>4, <1>5, <1>6 DEF Inv, HostKeyHeld, OnePerHost

\* A process that runs, starts or crashes preserves the invariant.
LEMMA AgentInv ==
  ASSUME Inv, NEW a \in Agent,
         Start(a) \/ Crash(a) \/ ElectionStep(a) \/ RenewHost(a) \/ RenewLeader(a)
  PROVE  Inv'
<1>1. CASE Crash(a) \/ GraciousExit(a) \/ UnknownEvent(a)
  BY <1>1, ProcessEndsInv DEF Crash, GraciousExit, UnknownEvent
<1>2. CASE Start(a) \/ Watch(a) \/ KeyExpired(a)
  <2>1. TypeOK'
    BY <1>2 DEF Inv, TypeOK, PC, Start, Watch, KeyExpired, etcdVars
  <2>2. Registered' = Registered /\ Leaders' = Leaders
    BY <1>2 DEF Inv, TypeOK, Registered, Leaders, Start, Watch, KeyExpired
  <2> QED BY <1>2, <2>1, <2>2, QuietStepInv DEF Start, Watch, KeyExpired, etcdVars
<1>3. CASE AlreadyRegistered(a) \/ LeaderExists(a)
  <2>1. TypeOK'
    BY <1>3, LifeFacts DEF Inv, TypeOK, PC, AlreadyRegistered, LeaderExists, etcdVars
  <2>2. Registered' = Registered /\ Leaders' = Leaders
    BY <1>3 DEF Inv, TypeOK, Registered, Leaders, AlreadyRegistered, LeaderExists
  <2> QED BY <1>3, <2>1, <2>2, QuietStepInv DEF AlreadyRegistered, LeaderExists, etcdVars
<1> QED BY <1>1, <1>2, <1>3, RegisterInv, BecomeLeaderInv, RenewHostInv, RenewLeaderInv
        DEF ElectionStep

\* If no process may pause, every step preserves the invariant.
LEMMA NextInv ==
  ASSUME MayPause = {}, Inv, [Next]_vars
  PROVE  Inv'
<1>1. CASE Tick
  BY <1>1, TickInv
<1>2. ASSUME NEW a \in Agent, Pause(a) \/ Resume(a) PROVE Inv'
  BY <1>2 DEF Pause, Resume, Inv
<1>3. CASE UNCHANGED vars
  BY <1>3 DEF vars, Inv, TypeOK, HostKeyHeld, OnePerHost, LeaseHeld, Registered, Leaders
<1> QED BY <1>1, <1>2, <1>3, AgentInv DEF Next

\* The inductive invariant holds in every behaviour without long pauses.
THEOREM Invariance ==
  ASSUME MayPause = {}
  PROVE  Spec => []Inv
  BY InitInv, NextInv, PTL DEF Spec

\* Every variable of the election keeps its type; above all the timers stay
\* within the sleeps of RenewKey and keys within their time to live.
THEOREM TypeCorrect ==
  ASSUME MayPause = {}
  PROVE  Spec => []TypeOK
<1>1. Inv => TypeOK
  BY DEF Inv
<1> QED BY <1>1, Invariance, PTL

\* Without long pauses at most one agent acts as the leader.
THEOREM Exclusion ==
  ASSUME MayPause = {}
  PROVE  Spec => []MutualExclusion
<1>1. Inv => MutualExclusion
  <2> SUFFICES ASSUME Inv, NEW a \in Leaders, NEW b \in Leaders PROVE a = b
    BY DEF MutualExclusion
  <2>1. owner = {HostOf[a]} /\ owner = {HostOf[b]}
    BY DEF Inv, LeaseHeld
  <2>2. HostOf[a] = HostOf[b]
    BY <2>1
  <2> QED BY <2>2 DEF Inv, OnePerHost, Registered, Leaders
<1> QED BY <1>1, Invariance, PTL

\* A step of the election acquires the lock when it is free, gives it up, or
\* leaves it alone.
LEMMA StepIsLockStep ==
  ASSUME MayPause = {}, Inv, Inv', [Next]_vars
  PROVE  [Lock!Next]_Leaders
<1>1. ASSUME NEW a \in Agent, BecomeLeader(a) PROVE Lock!Acquire(a)
  <2>1. Leaders = {}
    BY <1>1 DEF Inv, LeaseHeld, BecomeLeader, LeaderKeyExists
  <2>2. Leaders' = {a}
    BY <1>1, <2>1 DEF Inv, TypeOK, Leaders, BecomeLeader
  <2> QED BY <2>1, <2>2 DEF Lock!Acquire
<1>2. ASSUME NEW a \in Agent, ProcessEnds(a) PROVE UNCHANGED Leaders \/ Lock!Lose
  <2>1. Leaders' = Leaders \ {a}
    BY <1>2 DEF Inv, TypeOK, Leaders, ProcessEnds
  <2>2. CASE a \notin Leaders
    BY <2>1, <2>2
  <2>3. CASE a \in Leaders
    <3>1. \A b \in Leaders : b = a
      <4> SUFFICES ASSUME NEW b \in Leaders PROVE b = a
        OBVIOUS
      <4>1. owner = {HostOf[a]} /\ owner = {HostOf[b]}
        BY <2>3 DEF Inv, LeaseHeld
      <4>2. HostOf[a] = HostOf[b]
        BY <4>1
      <4> QED BY <2>3, <4>2 DEF Inv, OnePerHost, Registered, Leaders
    <3> QED BY <2>1, <2>3, <3>1 DEF Lock!Lose
  <2> QED BY <2>2, <2>3
<1>3. ASSUME NEW a \in Agent,
             Start(a) \/ Register(a) \/ AlreadyRegistered(a) \/ LeaderExists(a)
                \/ Watch(a) \/ KeyExpired(a)
      PROVE  UNCHANGED Leaders
  BY <1>3 DEF Inv, TypeOK, Leaders, Start, Register, AlreadyRegistered, LeaderExists,
              Watch, KeyExpired
<1>4. ASSUME NEW a \in Agent, RenewHost(a) \/ RenewLeader(a)
      PROVE  UNCHANGED Leaders \/ ProcessEnds(a)
  BY <1>4 DEF Leaders, RenewHost, RenewLeader
<1>5. ASSUME NEW a \in Agent, Pause(a) \/ Resume(a) PROVE UNCHANGED Leaders
  BY <1>5 DEF Leaders, Pause, Resume
<1>6. CASE Tick \/ UNCHANGED vars
  BY <1>6 DEF Leaders, Tick, vars
<1> QED
  BY <1>1, <1>2, <1>3, <1>4, <1>5, <1>6
  DEF Next, ElectionStep, Crash, GraciousExit, UnknownEvent, Lock!Next

\* Without long pauses the election implements the lock.
THEOREM Refinement ==
  ASSUME MayPause = {}
  PROVE  Spec => LockSpec
<1>1. Init => Lock!Init
  BY DEF Init, Lock!Init, Leaders
<1>2. Inv /\ Inv' /\ [Next]_vars => [Lock!Next]_Leaders
  BY StepIsLockStep
<1> QED BY <1>1, <1>2, Invariance, PTL DEF Spec, LockSpec, Lock!Spec
=============================================================================
