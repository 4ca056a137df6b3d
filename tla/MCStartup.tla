----------------------------- MODULE MCStartup -----------------------------
(* Instances of Startup for TLC. *)
EXTENDS Startup

\* Every ClusterCIDR and hostSubnetLength, and the two mistakes.
AllConfigs ==
    {[named |-> TRUE, cidr |-> {c}, slen |-> n] : c \in ParsedCIDR, n \in -1 .. IntW}
    \cup {[named |-> FALSE, cidr |-> {[ip |-> 0, cmask |-> 0]}, slen |-> 1],
          [named |-> TRUE, cidr |-> {}, slen |-> 1]}
=============================================================================
