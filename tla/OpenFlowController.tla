------------------------- MODULE OpenFlowController -------------------------
(***************************************************************************)
(* OFA_controller.cc and the control applications of ctrlApps/ that decide *)
(* on packet-in messages: Hub.cc, Switch.cc and Forwarding.cc.  The NED    *)
(* parameter "behavior" picks the application.                             *)
(***************************************************************************)
EXTENDS Links, ServiceQueue

CONSTANTS Behavior,      \* "Hub", "Switch" or "Forwarding"
          Topology,      \* Forwarding: the MAC addresses of its topology
          NextPort,      \* NextPort[s][h]: first port of the path cTopology
                         \* finds from s to h
          ArpOracle      \* Forwarding: the NED parameter "isArpOracle"

ASSUME BehaviorAssumption == Behavior \in {"Hub", "Switch", "Forwarding"}
ASSUME TopologyAssumption == Topology \subseteq Host
ASSUME ArpOracleAssumption == ArpOracle \in BOOLEAN
ASSUME NextPortAssumption == NextPort \in [Switch -> [Host -> Port]]

VARIABLES ctrl,          \* the service queue of OFA_controller
          socketMap,     \* switches whose connection the controller knows
          mac_to_port    \* Switch.cc: learned ports, per switch a function

controllerVars == <<ctrl, socketMap, mac_to_port>>

\* The part of the type invariant that concerns the controller.
ControllerTypeOK ==
  /\ ctrl \in QueueOf([from : Switch, msg : UpMessage])
  /\ socketMap \in SUBSET Switch
  /\ mac_to_port = [s \in Switch |-> mac_to_port[s]]
  /\ \A s \in Switch : IsMap(mac_to_port[s], Host, Port)

ControllerInit ==
  /\ ctrl = IdleQueue
  /\ socketMap = {}
  /\ mac_to_port = [s \in Switch |-> << >>]

\* A message of s arrives; it keeps the connection it came on.
MessageArrives(s) ==
  /\ toController[s] # <<>>
  /\ toController' = [toController EXCEPT ![s] = Tail(@)]
  /\ ctrl' = Arrive(ctrl, [from |-> s, msg |-> Head(toController[s])])
  /\ UNCHANGED <<toSwitch, aborted, socketMap, mac_to_port>>

-----------------------------------------------------------------------------
\* The message whose service ends, and the switch that sent it.
Message == Head(ctrl.event).msg
From == Head(ctrl.event).from

Processes(types) == ctrl.event # <<>> /\ Message.type \in types

PacketIns == {"PACKET_IN", "PACKET_IN_FULL"}

\* The header fields of a packet-in, from the match or from the frame inside.
Header(m) ==
  IF m.type = "PACKET_IN_FULL" THEN ExtractMatch(m.frame) ELSE m.match

\* The packet-out that answers packet-in m (floodPacket and sendPacket).
PacketOut(m, port) ==
  IF m.type = "PACKET_IN_FULL" THEN PacketOutFrame(m.frame, port)
  ELSE PacketOutHeader(m.buffer_id, port)

\* Processing ends with out[s] sent to each switch s, over the sockets known.
\* A message for a switch without a socket is sent through a null pointer:
\* findSocketFor(msg) or socketMap[connID] found none.
Reply(out, known) ==
  IF \A s \in Switch : out[s] # <<>> => s \in known
  THEN /\ toSwitch' = [s \in Switch |-> toSwitch[s] \o out[s]]
       /\ ctrl' = Finish(ctrl)
       /\ UNCHANGED <<toController, aborted>>
  ELSE /\ aborted' = TRUE
       /\ UNCHANGED <<channelVars, ctrl>>

Only(s, ms) == [t \in Switch |-> IF t = s THEN ms ELSE <<>>]

\* A new connection: its socket is recorded and the handshake started.
handshake ==
  /\ Processes({"ESTABLISHED"})
  /\ socketMap' = socketMap \cup {From}
  /\ Reply(Only(From, <<FeaturesRequest>>), socketMap')
  /\ UNCHANGED mac_to_port

handleFeaturesReply ==
  /\ Processes({"FEATURES_REPLY"})
  /\ Reply([s \in Switch |-> <<>>], socketMap)
  /\ UNCHANGED <<socketMap, mac_to_port>>

-----------------------------------------------------------------------------
\* Hub.cc floods every frame.
HubPacketIn ==
  /\ Behavior = "Hub"
  /\ Processes(PacketIns)
  /\ Reply(Only(From, <<PacketOut(Message, FloodPort)>>), socketMap)
  /\ UNCHANGED <<socketMap, mac_to_port>>

\* Mutant of Learn: the destination is learned at the port of the source.
LearnDestination(ports, m) ==
  IF m.eth_dst \in DOMAIN ports THEN ports
  ELSE [h \in DOMAIN ports \cup {m.eth_dst} |->
          IF h = m.eth_dst THEN m.in_port ELSE ports[h]]

\* Switch.cc: the port of the source is learned unless one is known already.
Learn(ports, m) ==
  IF m.eth_src \in DOMAIN ports THEN ports
  ELSE [h \in DOMAIN ports \cup {m.eth_src} |->
          IF h = m.eth_src THEN m.in_port ELSE ports[h]]

\* Mutants of Decision: the port of the source is used, or a flow entry that
\* floods is installed.
DecisionToSource(ports, m) ==
  LET hdr == Header(m)
  IN  IF hdr.eth_dst \in DOMAIN ports
      THEN <<FlowMod(hdr, ports[hdr.eth_src]), PacketOut(m, ports[hdr.eth_src])>>
      ELSE <<PacketOut(m, FloodPort)>>

DecisionInstallsFlood(ports, m) ==
  LET hdr == Header(m)
      p == IF hdr.eth_dst \in DOMAIN ports THEN ports[hdr.eth_dst] ELSE FloodPort
  IN  <<FlowMod(hdr, p), PacketOut(m, p)>>

\* Switch.cc: a flow entry and the frame, to the port of the destination;
\* the frame alone, to all ports, while that port is not known.
Decision(ports, m) ==
  LET hdr == Header(m)
  IN  IF hdr.eth_dst \in DOMAIN ports
      THEN <<FlowMod(hdr, ports[hdr.eth_dst]),
             PacketOut(m, ports[hdr.eth_dst])>>
      ELSE <<PacketOut(m, FloodPort)>>

SwitchPacketIn ==
  /\ Behavior = "Switch"
  /\ Processes(PacketIns)
  /\ mac_to_port' = [mac_to_port EXCEPT ![From] = Learn(@, Header(Message))]
  /\ Reply(Only(From, Decision(mac_to_port'[From], Message)), socketMap)
  /\ UNCHANGED socketMap

-----------------------------------------------------------------------------
\* The switches on the way from s to h, s first.
Hop(s, h) == Peer[s][NextPort[s][h]]

Path(s, h) ==
  LET at[n \in 1..Cardinality(Switch)] ==
        IF n = 1 THEN <<s>>
        ELSE LET last == at[n - 1][Len(at[n - 1])]
             IN  IF Hop(last, h).kind = "switch"
                 THEN Append(at[n - 1], Hop(last, h).node) ELSE at[n - 1]
  IN  at[Cardinality(Switch)]

OnPath(t, s, h) == \E i \in DOMAIN Path(s, h) : Path(s, h)[i] = t

\* Forwarding.cc: an entry for the destination at every switch of the path,
\* whatever port the frame comes in on, and the frame on its way.  A frame
\* for an address outside the topology, a broadcast say, is flooded.  The
\* in_port of the entry is not set, which leaves it 0.
RouteMatch(hdr) == [hdr EXCEPT !.in_port = 0, !.wildcards = {"in_port"}]

\* Mutant of Route: the way back to the source is taken.
RouteToSource(s, m) ==
  Only(s, <<FlowMod(RouteMatch(Header(m)), NextPort[s][Header(m).eth_src]),
            PacketOut(m, NextPort[s][Header(m).eth_src])>>)

Route(s, m) ==
  LET hdr == Header(m)
      mod(t) == FlowMod(RouteMatch(hdr), NextPort[t][hdr.eth_dst])
      out == PacketOut(m, NextPort[s][hdr.eth_dst])
  IN  [t \in Switch |-> IF t = s THEN <<mod(t), out>>
                        ELSE IF OnPath(t, s, hdr.eth_dst) THEN <<mod(t)>>
                        ELSE <<>>]

\* The address an ARP request asks for and the identity of the request.
ArpTarget(m) ==
  IF m.type = "PACKET_IN_FULL" THEN m.frame.arp_tpa ELSE m.arp_tpa

RequestId(m) == IF m.type = "PACKET_IN_FULL" THEN m.frame.id ELSE m.id

\* The ARP oracle answers the requests for an address of its topology.  An
\* ARP reply is a frame like all others.  Hosts send no third opcode, so the
\* error for it is not reached.
processARPPacket(m) == ArpOracle /\ ArpTarget(m) \in Topology

\* Its answer, which keeps the identity of the request.  No code reads the
\* in_port of a frame that a packet-out sends to one port.
ArpReply(m) ==
  [id |-> RequestId(m), in_port |-> Header(m).in_port,
   eth_src |-> ArpTarget(m), eth_dst |-> Header(m).eth_src,
   eth_type |-> ETHERTYPE_ARP, arp_tpa |-> NoHost]

\* Mutants of ArpAnswer: the request stays in the buffer, or is deleted twice.
ArpAnswerKeepsRequest(m) ==
  <<PacketOutFrame(ArpReply(m), Header(m).in_port)>>

ArpAnswerDropsTwice(m) ==
  LET reply == PacketOutFrame(ArpReply(m), Header(m).in_port)
      drop == PacketOutHeader(m.buffer_id, AnyPort)
  IN  IF m.type = "PACKET_IN_FULL" THEN <<reply>> ELSE <<drop, reply, drop>>

\* The answer goes to the port the request came in on.  A request that waits
\* in the buffer of the switch is deleted.
ArpAnswer(m) ==
  LET reply == PacketOutFrame(ArpReply(m), Header(m).in_port)
  IN  IF m.type = "PACKET_IN_FULL" THEN <<reply>>
      ELSE <<PacketOutHeader(m.buffer_id, AnyPort), reply>>

Answer(s, m) ==
  IF Header(m).eth_dst \in Topology THEN Route(s, m)
  ELSE IF processARPPacket(m) THEN Only(s, ArpAnswer(m))
  ELSE Only(s, <<PacketOut(m, FloodPort)>>)

\* A switch of the path that is not connected yet has no valid connID: the
\* field is an uninitialised int, which socketMap maps to no socket.
ForwardingPacketIn ==
  /\ Behavior = "Forwarding"
  /\ Processes(PacketIns)
  /\ Reply(Answer(From, Message), socketMap)
  /\ UNCHANGED <<socketMap, mac_to_port>>

ControllerServes ==
  \/ handshake
  \/ handleFeaturesReply
  \/ HubPacketIn
  \/ SwitchPacketIn
  \/ ForwardingPacketIn

ControllerStep == ControllerServes \/ \E s \in Switch : MessageArrives(s)
=============================================================================
