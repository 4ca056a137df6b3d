SPECIFICATION FairSpec
CONSTANTS
  a1 = a1  a2 = a2  a3 = a3  m1 = m1  m2 = m2
  Agent = {a1, a2}
  HostName = {m1, m2}
  HostOf <- TwoMasters
  TTL = 4
  NrClients = 2
  Second = 1
  Slack = 1
  MayPause = {a1}
PROPERTY WatcherTakesOver
