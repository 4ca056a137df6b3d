SPECIFICATION Spec
CONSTANTS
  p1 = p1  p2 = p2  p3 = p3  ns1 = ns1  ns2 = ns2  n1 = n1  n2 = n2
  c1 = c1  c2 = c2  x1 = x1
  PodName = {p1, p2}
  NS = {ns1, ns2}
  PodNS <- P2InNs2
  Node = {n1}
  NoNode = NoNode
  ClusterCIDRs = {c1, c2}
  CustomCIDRs = {}
  Hosts = 1
  Provisioned <- C1Provisioned
  Label <- Unlabelled
  Faults = {"fetch", "subnets", "get", "cnidelete", "delete", "zonefetch", "zonecreate", "addsubnetReply"}
  MaxUID = 1
  MaxNsCreate = 1
  MaxRestarts = 1
CHECK_DEADLOCK FALSE
INVARIANT IPAMAccurate
INVARIANT AddressesUnique
INVARIANT CustomedIffNotCluster
PROPERTY ExhaustedOnlyWhenFull
