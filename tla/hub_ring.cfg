SPECIFICATION FairSpec
CONSTANTS
  s1 = s1  s2 = s2  s3 = s3
  h1 = h1  h2 = h2  h3 = h3  bc = bc
  Switch = {s1, s2, s3}
  Port = {0, 1, 2}
  Host = {h1, h2, h3, bc}
  EtherType = {"IPv4"}
  NoBuffer = 7
  FloodPort = 99
  AnyPort = 98
  Broadcast = Broadcast  NoHost = NoHost
  Peer <- RingPeer
  MaxSends = 1
  Capacity = 1
  Asked = {}
  SendComplete = FALSE
  DisabledPorts <- RingDisabled
  Behavior = "Hub"
  Topology = {h1, h2}
  NextPort <- RingNext
  ArpOracle = FALSE
INVARIANTS
  NoDuplicateDelivery
PROPERTIES
  EveryFrameDelivered
CHECK_DEADLOCK FALSE
