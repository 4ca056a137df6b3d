-------------------------- MODULE MCServiceHandler --------------------------
(* Instances of ServiceHandler for TLC. *)
EXTENDS ServiceHandler

CONSTANTS s1, s2, s3, x1, x2, x3, ns1, ns2, ns3

OwnName == [s \in Svc |-> IF s = s1 THEN x1 ELSE IF s = s2 THEN x2 ELSE x3]

\* s1 and s2 share a namespace.
TwoNamespaces == [s \in Svc |-> IF s = s3 THEN ns2 ELSE ns1]

ThreeNamespaces == [s \in Svc |-> IF s = s1 THEN ns1 ELSE IF s = s2 THEN ns2 ELSE ns3]
=============================================================================
