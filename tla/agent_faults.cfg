SPECIFICATION Spec
CONSTANTS
  p1 = p1  p2 = p2  p3 = p3  ns1 = ns1  ns2 = ns2  n1 = n1  n2 = n2
  c1 = c1  c2 = c2  x1 = x1
  PodName = {p1, p2, p3}
  NS = {ns1}
  PodNS <- AllInNs1
  Node = {n1}
  NoNode = NoNode
  ClusterCIDRs = {c1}
  CustomCIDRs = {x1}
  Hosts = 2
  Provisioned <- X1Provisioned
  Label <- Customised
  Faults = {"nstimeout", "fetch", "create", "put", "get", "cnidelete", "delete", "zonefetch", "zonecreate", "subnets", "addsubnet", "addsubnetReply"}
  MaxUID = 1
  MaxNsCreate = 1
  MaxRestarts = 0
CHECK_DEADLOCK FALSE
INVARIANT IPAMAccurate
INVARIANT AddressesUnique
INVARIANT AddressesReclaimed
