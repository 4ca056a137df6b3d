-------------------------- MODULE MCLeaderElection --------------------------
(* Instances of LeaderElection for TLC. *)
EXTENDS LeaderElection, TLC

CONSTANTS a1, a2, a3, m1, m2

\* a1 has a master of its own; a2, and a3 if it takes part, share one.
TwoMasters == [a \in Agent |-> IF a = a1 THEN m1 ELSE m2]
=============================================================================
