----------------------------- MODULE LeaderLock -----------------------------
(***************************************************************************)
(* What the rest of the agent relies on the leader election for: at any    *)
(* time at most one agent process is past LeaderElection().                *)
(***************************************************************************)
CONSTANT Agent

VARIABLE holder  \* the agents that act as the leader

Init == holder = {}

\* An agent gets the lock when nobody has it.
Acquire(a) == holder = {} /\ holder' = {a}

\* The holder's process ends.
Lose == holder # {} /\ holder' = {}

Next == Lose \/ \E a \in Agent : Acquire(a)

Spec == Init /\ [][Next]_holder
=============================================================================
