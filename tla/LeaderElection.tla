--------------------------- MODULE LeaderElection ---------------------------
(***************************************************************************)
(* Leader election among agent processes by means of etcd keys with a time *)
(* to live.  A process first registers its host under hosts/<hostname>,    *)
(* then blocks until it has created the key "leader"; a goroutine per key  *)
(* renews it by compare-and-swap.  The value of both keys is the hostname. *)
(*                                                                         *)
(* Time is discrete.  A Tick ages keys and sleeps; it has to wait for a    *)
(* renewal that is Slack ticks overdue, which is how long a request and    *)
(* the scheduling of a goroutine may take, unless the process is paused.   *)
(* A timer is a set: empty if its goroutine does not run, else the ticks   *)
(* that are left until the renewal has to have happened.                   *)
(***************************************************************************)
EXTENDS Integers

CONSTANTS
    Agent,       \* agent processes
    HostName,    \* names of the masters they run on
    HostOf,      \* the master of each process
    TTL,         \* ServiceTTL
    NrClients,
    Second,      \* ticks per second
    Slack,       \* bound: lateness of a renewal by a process that is not paused
    MayPause     \* processes that may stop for longer than that

\* The sleep between two renewals.
RenewSleep == IF Second > TTL \div NrClients THEN Second ELSE TTL \div NrClients

ASSUME TimeAssumption ==
    /\ TTL \in Nat \ {0} /\ NrClients \in Nat \ {0} /\ Second \in Nat \ {0} /\ Slack \in Nat
ASSUME RenewAssumption == RenewSleep + Slack < TTL
ASSUME HostAssumption == HostOf \in [Agent -> HostName]
ASSUME PauseAssumption == MayPause \subseteq Agent

VARIABLES
    hostkey,   \* remaining life of hosts/<hostname>, 0 if there is no such key
    owner,     \* value of the leader key, empty if there is no such key
    lease,     \* remaining life of the leader key
    pc,        \* where each process is
    event,     \* the first notification a watcher has not ignored
    hrenew,    \* timer of the goroutine that renews the host key
    lrenew,    \* timer of the goroutine that renews the leader key
    sleep,     \* remaining sleep before a gracious exit
    paused     \* processes that do not run

etcdVars == <<hostkey, owner, lease>>
vars == <<hostkey, owner, lease, pc, event, hrenew, lrenew, sleep, paused>>

\* down: no process; register: about to create the host key; exiting: the
\* host was registered already; create: about to create the leader key; gap:
\* that failed, no watcher yet; watch: a watcher is registered; leader: past
\* LeaderElection().
PC == {"down", "register", "exiting", "create", "gap", "watch", "leader"}

\* Spans of the life of a key and of a renewal timer.
Life == 0 .. TTL
Timer == 0 .. (RenewSleep + Slack)

\* Every variable keeps its type; in particular keys and timers stay within
\* their spans, so the model is finite without a bound on time.
TypeOK ==
    /\ hostkey \in [HostName -> Life]
    /\ owner \subseteq HostName
    /\ lease \in Life
    /\ pc \in [Agent -> PC]
    /\ event \in [Agent -> {"", "expire", "create"}]
    /\ hrenew \in [Agent -> SUBSET Timer]
    /\ lrenew \in [Agent -> SUBSET Timer]
    /\ sleep \in [Agent -> Life]
    /\ paused \subseteq Agent

Init ==
    /\ hostkey = [h \in HostName |-> 0] /\ owner = {} /\ lease = 0
    /\ pc = [a \in Agent |-> "down"] /\ event = [a \in Agent |-> ""]
    /\ hrenew = [a \in Agent |-> {}] /\ lrenew = [a \in Agent |-> {}]
    /\ sleep = [a \in Agent |-> 0] /\ paused = {}

Running(a) == a \notin paused

\* Watchers that have been told nothing yet are told of a change of the
\* leader key.  (They ignore the compareAndSwap of a renewal.)
Notified(what) ==
    [a \in Agent |-> IF pc[a] = "watch" /\ event[a] = "" THEN what ELSE event[a]]

\* The process is gone, with its goroutines: os.Exit, glog.Fatalf, a failed
\* type assertion on a network error, or a crash.
ProcessEnds(a) ==
    /\ pc' = [pc EXCEPT ![a] = "down"] /\ event' = [event EXCEPT ![a] = ""]
    /\ hrenew' = [hrenew EXCEPT ![a] = {}] /\ lrenew' = [lrenew EXCEPT ![a] = {}]
    /\ sleep' = [sleep EXCEPT ![a] = 0] /\ paused' = paused \ {a}

Start(a) ==
    /\ pc[a] = "down" /\ pc' = [pc EXCEPT ![a] = "register"]
    /\ UNCHANGED <<etcdVars, event, hrenew, lrenew, sleep, paused>>

\* This is also what a lost reply comes to: CreateKey and CASKey try once, and
\* an error that is not etcd's own ends the process (os.Exit for the host key,
\* a failed type assertion elsewhere) with the key created or renewed.
Crash(a) == pc[a] # "down" /\ ProcessEnds(a) /\ UNCHANGED etcdVars

\* Mutant of HostKeyExists: registration does not insist on PrevNoExist.
HostKeyIgnored(a) == FALSE

\* CreateKey under hosts/ would fail with EcodeNodeExist.
HostKeyExists(a) == hostkey[HostOf[a]] # 0

\* CreateKey(hosts, hname) succeeds and go RenewKey, which starts with a
\* compare-and-swap, is due at once.
Register(a) ==
    /\ pc[a] = "register" /\ Running(a) /\ ~HostKeyExists(a)
    /\ hostkey' = [hostkey EXCEPT ![HostOf[a]] = TTL]
    /\ pc' = [pc EXCEPT ![a] = "create"]
    /\ hrenew' = [hrenew EXCEPT ![a] = {Slack}]
    /\ UNCHANGED <<owner, lease, event, lrenew, sleep, paused>>

\* The host is registered already: sleep for ServiceTTL, then exit.
AlreadyRegistered(a) ==
    /\ pc[a] = "register" /\ Running(a) /\ HostKeyExists(a)
    /\ pc' = [pc EXCEPT ![a] = "exiting"] /\ sleep' = [sleep EXCEPT ![a] = TTL]
    /\ UNCHANGED <<etcdVars, event, hrenew, lrenew, paused>>

GraciousExit(a) ==
    /\ pc[a] = "exiting" /\ Running(a) /\ sleep[a] = 0
    /\ ProcessEnds(a) /\ UNCHANGED etcdVars

----------------------------------------------------------------------------
(* BlockforKey *)

\* Mutant of LeaderKeyExists: the leader key is overwritten.
LeaderKeyIgnored == FALSE

\* CreateKey of the leader key would fail with EcodeNodeExist.
LeaderKeyExists == owner # {}

\* CreateKey succeeds: BlockforKey and LeaderElection return.
BecomeLeader(a) ==
    /\ pc[a] = "create" /\ Running(a) /\ ~LeaderKeyExists
    /\ owner' = {HostOf[a]} /\ lease' = TTL
    /\ pc' = [pc EXCEPT ![a] = "leader"]
    /\ lrenew' = [lrenew EXCEPT ![a] = {Slack}]
    /\ event' = Notified("create")
    /\ UNCHANGED <<hostkey, hrenew, sleep, paused>>

\* CreateKey fails because there is a leader key, possibly one of an earlier
\* process of this host.
LeaderExists(a) ==
    /\ pc[a] = "create" /\ Running(a) /\ LeaderKeyExists
    /\ pc' = [pc EXCEPT ![a] = "gap"]
    /\ UNCHANGED <<etcdVars, event, hrenew, lrenew, sleep, paused>>

\* watcher.Next with AfterIndex 0 sees only what happens from now on.
Watch(a) ==
    /\ pc[a] = "gap" /\ Running(a)
    /\ pc' = [pc EXCEPT ![a] = "watch"]
    /\ UNCHANGED <<etcdVars, event, hrenew, lrenew, sleep, paused>>

\* Mutant of KeyExpired: the watcher is told but does not try again.
KeyExpiredIgnored(a) ==
    /\ pc[a] = "watch" /\ Running(a) /\ event[a] = "expire"
    /\ event' = [event EXCEPT ![a] = ""]
    /\ UNCHANGED <<etcdVars, pc, hrenew, lrenew, sleep, paused>>

\* "expire": create the key, and if that fails watch it again.
KeyExpired(a) ==
    /\ pc[a] = "watch" /\ Running(a) /\ event[a] = "expire"
    /\ pc' = [pc EXCEPT ![a] = "create"] /\ event' = [event EXCEPT ![a] = ""]
    /\ UNCHANGED <<etcdVars, hrenew, lrenew, sleep, paused>>

\* "create" is a notification BlockforKey does not know: glog.Fatalf.
UnknownEvent(a) ==
    /\ pc[a] = "watch" /\ Running(a) /\ event[a] = "create"
    /\ ProcessEnds(a) /\ UNCHANGED etcdVars

----------------------------------------------------------------------------
(* RenewKey, once per key *)

\* Mutant of NextRenewal: sleep for the whole time to live.
NextRenewalTooLate == {TTL + Slack}

\* The timer after a renewal.
NextRenewal == {RenewSleep + Slack}

Due(timer) == \E t \in timer : t <= Slack

\* CASKey of the host key; EcodeKeyNotFound is fatal.
RenewHost(a) ==
    /\ Running(a) /\ Due(hrenew[a])
    /\ \/ /\ HostKeyExists(a)
          /\ hostkey' = [hostkey EXCEPT ![HostOf[a]] = TTL]
          /\ hrenew' = [hrenew EXCEPT ![a] = NextRenewal]
          /\ UNCHANGED <<pc, event, lrenew, sleep, paused>>
       \/ ~HostKeyExists(a) /\ ProcessEnds(a) /\ UNCHANGED hostkey
    /\ UNCHANGED <<owner, lease>>

\* CASKey of the leader key: renewed if the value is this host's name, fatal
\* if there is no key.  If another host's name is there (EcodeTestFailed) the
\* goroutine returns its error to nobody, and the process stays the leader.
RenewLeader(a) ==
    /\ Running(a) /\ Due(lrenew[a])
    /\ \/ /\ owner = {HostOf[a]} /\ lease' = TTL
          /\ lrenew' = [lrenew EXCEPT ![a] = NextRenewal]
          /\ UNCHANGED <<pc, event, hrenew, sleep, paused>>
       \/ owner = {} /\ ProcessEnds(a) /\ UNCHANGED lease
       \/ /\ owner \notin {{}, {HostOf[a]}} /\ lrenew' = [lrenew EXCEPT ![a] = {}]
          /\ UNCHANGED <<lease, pc, event, hrenew, sleep, paused>>
    /\ UNCHANGED <<hostkey, owner>>

----------------------------------------------------------------------------
(* Time, etcd and processes that stop for a while *)

Less(t) == IF t = 0 THEN 0 ELSE t - 1

Aged(timers) == [a \in Agent |-> {Less(t) : t \in timers[a]}]

\* No renewal of a process that is not paused is overdue.
Timely == \A a \in Agent \ paused : 0 \notin hrenew[a] \cup lrenew[a]

\* A tick.  Keys whose time to live is over are removed by etcd, and the
\* watchers of the leader key are told.
Tick ==
    /\ Timely
    /\ hostkey' = [h \in HostName |-> Less(hostkey[h])]
    /\ lease' = Less(lease)
    /\ hrenew' = Aged(hrenew) /\ lrenew' = Aged(lrenew)
    /\ sleep' = [a \in Agent |-> Less(sleep[a])]
    /\ \/ owner # {} /\ lease = 1 /\ owner' = {} /\ event' = Notified("expire")
       \/ ~(owner # {} /\ lease = 1) /\ UNCHANGED <<owner, event>>
    /\ UNCHANGED <<pc, paused>>

Pause(a) ==
    /\ a \in MayPause /\ pc[a] # "down" /\ paused' = paused \cup {a}
    /\ UNCHANGED <<etcdVars, pc, event, hrenew, lrenew, sleep>>

Resume(a) ==
    /\ a \in paused /\ paused' = paused \ {a}
    /\ UNCHANGED <<etcdVars, pc, event, hrenew, lrenew, sleep>>

----------------------------------------------------------------------------
\* LeaderElection(), the main goroutine of a process.
ElectionStep(a) ==
    \/ Register(a) \/ AlreadyRegistered(a) \/ GraciousExit(a)
    \/ BecomeLeader(a) \/ LeaderExists(a) \/ Watch(a) \/ KeyExpired(a) \/ UnknownEvent(a)

Next ==
    \/ Tick
    \/ \E a \in Agent :
        \/ Start(a) \/ Crash(a) \/ Pause(a) \/ Resume(a)
        \/ ElectionStep(a) \/ RenewHost(a) \/ RenewLeader(a)

Spec == Init /\ [][Next]_vars

\* Time never stands still (strong fairness: pausing and resuming processes
\* cannot keep it from passing), and each goroutine of a process that runs
\* takes its steps.  Nothing makes a process start, crash,
\* pause or resume.
Fairness ==
    /\ SF_vars(Tick)
    /\ \A a \in Agent :
        WF_vars(ElectionStep(a)) /\ WF_vars(RenewHost(a)) /\ WF_vars(RenewLeader(a))

FairSpec == Spec /\ Fairness

----------------------------------------------------------------------------
(* Properties *)

Leaders == {a \in Agent : pc[a] = "leader"}

\* At most one process is past LeaderElection(): the election that renewals,
\* expiries and restarts go on in never lets two agents act at once.
MutualExclusion == \A a, b \in Leaders : a = b

\* The agent that has nothing to renew at the moment: if it was paused, both
\* of its goroutines have had their turn since.
UpToDate(a) == Running(a) /\ ~Due(hrenew[a]) /\ ~Due(lrenew[a])

\* "there is a single Client active at one time": when processes have done the
\* renewals they owe after a pause, which tell them that they lost the
\* election, at most one of them is still past LeaderElection().
SingleActive == \A a, b \in Leaders : UpToDate(a) /\ UpToDate(b) => a = b

\* The processes that own a host key they created.
Registered == {a \in Agent : pc[a] \in {"create", "gap", "watch", "leader"}}

\* A registered process renews its host key before etcd drops it.
HostKeyHeld ==
    \A a \in Registered : hrenew[a] # {} /\ \A t \in hrenew[a] : t < hostkey[HostOf[a]]

\* One process per master gets past the host key.
OnePerHost == \A a, b \in Registered : HostOf[a] = HostOf[b] => a = b

\* The leader's key carries its name and is renewed before etcd drops it.
LeaseHeld ==
    \A a \in Leaders :
        owner = {HostOf[a]} /\ lrenew[a] # {} /\ \A t \in lrenew[a] : t < lease

\* The inductive invariant behind MutualExclusion: a process that is not
\* paused keeps both of its keys alive, so the values of the keys identify
\* the only process that may act on them.
Inv ==
    /\ TypeOK /\ paused = {}
    /\ \A a \in Agent : pc[a] # "leader" => lrenew[a] = {}
    /\ HostKeyHeld /\ OnePerHost /\ LeaseHeld

\* The election implements the lock the rest of the agent relies on.
Lock == INSTANCE LeaderLock WITH holder <- Leaders
LockSpec == Lock!Spec

\* A watcher does not wait in vain for a leader that died or hangs: unless
\* the key expired behind its back, some process that runs becomes the
\* leader (or the watcher itself is stopped).
WatcherTakesOver ==
    \A a \in Agent :
        pc[a] = "watch" /\ event[a] = (IF owner = {} THEN "expire" ELSE "")
            ~> Leaders \ paused # {} \/ pc[a] = "down" \/ a \in paused
=============================================================================
