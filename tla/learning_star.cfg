SPECIFICATION FairSpec
CONSTANTS
  s1 = s1  s2 = s2  s3 = s3
  h1 = h1  h2 = h2  h3 = h3  bc = bc
  Switch = {s1}
  Port = {0, 1}
  Host = {h1, h2}
  EtherType = {"IPv4", "ARP"}
  NoBuffer = 7
  FloodPort = 99
  AnyPort = 98
  Broadcast = Broadcast  NoHost = NoHost
  Peer <- StarPeer
  MaxSends = 3
  Capacity = 2
  Asked = {}
  SendComplete = FALSE
  DisabledPorts <- NoneDisabled
  Behavior = "Switch"
  Topology = {h1, h2}
  NextPort <- StarNext
  ArpOracle = FALSE
INVARIANTS
  TypeOK
  BufferedFramesClaimedOnce
  ClaimsDescribeFrame
  QueuesWorkConserving
  DecisionsFollowLearnedPorts
  TimersMatchEntries
PROPERTIES
  EventuallyQuiet
CHECK_DEADLOCK FALSE
