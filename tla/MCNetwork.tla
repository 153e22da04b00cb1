----------------------------- MODULE MCNetwork ------------------------------
(***************************************************************************)
(* Instances of OpenFlowNetwork for TLC.                                   *)
(*   Star: switch s1 with hosts h1 and h2 on ports 0 and 1.                *)
(*   Line: h1 - s1 - s2 - h2, ports 0 to the host, ports 1 between.        *)
(*   Ring: s1, s2, s3 in a ring by their ports 0 and 1, a host on each     *)
(*         port 2; SpanningTree has disabled the link from s3 to s1.       *)
(* The address bc is no host's: frames for it are broadcast.               *)
(***************************************************************************)
EXTENDS OpenFlowNetwork

CONSTANTS s1, s2, s3, h1, h2, h3, bc

Route2(a, b) == [h \in Host |-> IF h = h1 THEN a ELSE b]

StarPeer == [s \in Switch |-> [p \in Port |->
  IF p = 0 THEN HostEnd(h1) ELSE HostEnd(h2)]]
StarNext == [s \in Switch |-> Route2(0, 1)]

LinePeer == [s \in Switch |-> [p \in Port |->
  CASE s = s1 /\ p = 0 -> HostEnd(h1)
    [] s = s2 /\ p = 0 -> HostEnd(h2)
    [] s = s1 /\ p = 1 -> SwitchEnd(s2, 1)
    [] s = s2 /\ p = 1 -> SwitchEnd(s1, 1)]]
LineNext == [s \in Switch |-> IF s = s1 THEN Route2(0, 1) ELSE Route2(1, 0)]

RingPeer == [s \in Switch |-> [p \in Port |->
  CASE p = 2 -> HostEnd(IF s = s1 THEN h1 ELSE IF s = s2 THEN h2 ELSE h3)
    [] p = 0 -> SwitchEnd(IF s = s1 THEN s2 ELSE IF s = s2 THEN s3 ELSE s1, 1)
    [] p = 1 -> SwitchEnd(IF s = s1 THEN s3 ELSE IF s = s2 THEN s1 ELSE s2, 0)]]
RingNext == [s \in Switch |-> [h \in Host |-> 0]]
RingDisabled ==
  [s \in Switch |-> IF s = s3 THEN {0} ELSE IF s = s1 THEN {1} ELSE {}]

NoneDisabled == [s \in Switch |-> {}]
=============================================================================
