SPECIFICATION FairSpec
CONSTANTS
  s1 = s1  s2 = s2  s3 = s3
  h1 = h1  h2 = h2  h3 = h3  bc = bc
  Switch = {s1, s2}
  Port = {0, 1}
  Host = {h1, h2}
  EtherType = {"IPv4"}
  NoBuffer = 7
  FloodPort = 99
  AnyPort = 98
  Broadcast = Broadcast  NoHost = NoHost
  Peer <- LinePeer
  MaxSends = 2
  Capacity = 1
  Asked = {h1, h2}
  SendComplete = FALSE
  DisabledPorts <- NoneDisabled
  Behavior = "Forwarding"
  Topology = {h2}
  NextPort <- LineNext
  ArpOracle = TRUE
INVARIANTS
  BufferedFramesClaimedOnce
  AbortsOnlyBeforeConnected
PROPERTIES
  EveryFrameDelivered
CHECK_DEADLOCK FALSE
