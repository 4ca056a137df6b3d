SPECIFICATION Spec
CONSTANTS
  s1 = s1  s2 = s2  s3 = s3  x1 = x1  x2 = x2  x3 = x3  ns1 = ns1  ns2 = ns2  ns3 = ns3
  Svc = {s1, s2, s3}
  Name = {x1, x2, x3}
  SvcName <- OwnName
  NS = {ns1, ns2, ns3}
  SvcNS <- ThreeNamespaces
  Faults = {}
  Deletable = {s1}
  MaxRestarts = 0
CHECK_DEADLOCK FALSE
INVARIANT NamespaceAllowed
