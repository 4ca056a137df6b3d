----------------------------- MODULE MCK8sAgent -----------------------------
(***************************************************************************)
(* Instances of K8sAgent for TLC.  The cfg files choose among these.       *)
(***************************************************************************)
EXTENDS K8sAgent, TLC

CONSTANTS p1, p2, p3, ns1, ns2, n1, n2, c1, c2, x1

AllInNs1 == [p \in PodName |-> ns1]

P2InNs2 == [p \in PodName |-> IF p = p2 THEN ns2 ELSE ns1]

\* The VSD is empty.
NothingProvisioned == {}

\* The VSD has a cluster subnet of namespace ns1 from an earlier agent.
C1Provisioned == {[cidr |-> c1, zone |-> ns1]}

\* The VSD has a custom subnet in ns1's zone, made by an operator.
X1Provisioned == {[cidr |-> x1, zone |-> ns1]}

Unlabelled == [p \in PodName |-> [nuageio |-> FALSE, subnet |-> {}, ip |-> {}]]

\* p1 asks for an address of the custom subnet, p2 for its address 1, and a
\* third pod for the subnet's network address.
Customised ==
    [p \in PodName |->
        [nuageio |-> TRUE, subnet |-> {x1},
         ip |-> IF p = p1 THEN {} ELSE IF p = p2 THEN {1} ELSE {0}]]

PodSymmetry == Permutations(PodName)
=============================================================================
