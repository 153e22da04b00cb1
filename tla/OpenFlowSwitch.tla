--------------------------- MODULE OpenFlowSwitch ---------------------------
(***************************************************************************)
(* An OpenFlow switch: Open_Flow_Processing.cc (service queue, table       *)
(* lookup, output), OFA_switch.cc (the agent that talks to the controller) *)
(* and their Buffer and Flow_Table.  Every variable maps a switch to its   *)
(* state.  An action is one event of the simulation, executed to its end.  *)
(***************************************************************************)
EXTENDS Links, ServiceQueue, PacketBuffer, FlowTable

CONSTANTS SendComplete,  \* the NED parameter "sendCompletePacket"
          DisabledPorts  \* per switch: ports that SpanningTree has disabled

ASSUME SendCompleteAssumption == SendComplete \in BOOLEAN
ASSUME DisabledPortsAssumption == DisabledPorts \in [Switch -> SUBSET Port]

VARIABLES socket,        \* "BOUND" until connect(), "CONNECTING" from then on
          proc,          \* the service queue of Open_Flow_Processing
          buffer,        \* the Buffer
          entry_map,     \* the Flow_Table
          timers         \* matches of the pending flow timers, next one first

switchVars == <<socket, proc, buffer, entry_map, timers>>

\* The part of the type invariant that concerns the switches.
SwitchTypeOK ==
  /\ socket \in [Switch -> {"BOUND", "CONNECTING"}]
  /\ proc \in [Switch -> QueueOf(Frame)]
  /\ buffer = [s \in Switch |-> buffer[s]]
  /\ \A s \in Switch : IsBuffer(buffer[s])
  /\ entry_map \in [Switch -> Seq(Entry)]
  /\ timers \in [Switch -> Seq(Match)]

SwitchInit ==
  /\ socket = [s \in Switch |-> "BOUND"]
  /\ proc = [s \in Switch |-> IdleQueue]
  /\ buffer = [s \in Switch |-> EmptyBuffer]
  /\ entry_map = [s \in Switch |-> <<>>]
  /\ timers = [s \in Switch |-> <<>>]

-----------------------------------------------------------------------------
\* The timer of startTime: active open.  TCP tells the controller first.
connect(s) ==
  /\ socket[s] = "BOUND"
  /\ socket' = [socket EXCEPT ![s] = "CONNECTING"]
  /\ SendUp(s, <<Established>>)
  /\ UNCHANGED <<linkVars, toSwitch, aborted, proc, buffer, entry_map, timers>>

\* A frame arrives on port p.
FrameArrives(s, p) ==
  /\ wire[s][p] # <<>>
  /\ wire' = [wire EXCEPT ![s][p] = Tail(@)]
  /\ proc' = [proc EXCEPT ![s] = Arrive(@, Head(wire[s][p]))]
  /\ UNCHANGED <<sent, received, channelVars, aborted, socket, buffer,
                 entry_map, timers>>

\* The frame whose service ends.
Served(s) == Head(proc[s].event)

ServiceEnds(s) == proc[s].event # <<>>

Miss(s) == ~lookup(entry_map[s], ExtractMatch(Served(s)))

NextService(s) == proc' = [proc EXCEPT ![s] = Finish(@)]

\* Table hit: the frame leaves on the port of the first matching entry.
ForwardFrame(s) ==
  /\ ServiceEnds(s)
  /\ ~Miss(s)
  /\ Transmit(s, Served(s),
              {returnAction(entry_map[s], ExtractMatch(Served(s)))})
  /\ NextService(s)
  /\ UNCHANGED <<channelVars, aborted, socket, buffer, entry_map, timers>>

\* Table miss with room in the buffer: the frame is stored, its header sent.
SendPacketIn(s) ==
  /\ ServiceEnds(s)
  /\ Miss(s)
  /\ ~SendComplete
  /\ ~isfull(buffer[s])
  /\ socket[s] = "CONNECTING"
  /\ buffer' = [buffer EXCEPT ![s] = storeMessage(@, Served(s))]
  /\ SendUp(s, <<PacketInHeader(StoredId(buffer[s]), Served(s))>>)
  /\ NextService(s)
  /\ UNCHANGED <<linkVars, toSwitch, aborted, socket, entry_map, timers>>

\* Table miss otherwise: the whole frame goes to the controller.
SendCompletePacketIn(s) ==
  /\ ServiceEnds(s)
  /\ Miss(s)
  /\ SendComplete \/ isfull(buffer[s])
  /\ socket[s] = "CONNECTING"
  /\ SendUp(s, <<PacketInFrame(Served(s))>>)
  /\ NextService(s)
  /\ UNCHANGED <<linkVars, toSwitch, aborted, socket, buffer, entry_map,
                 timers>>

\* Table miss before connect(): socket.send throws and the simulation ends.
PacketInOnClosedSocket(s) ==
  /\ ServiceEnds(s)
  /\ Miss(s)
  /\ socket[s] = "BOUND"
  /\ aborted' = TRUE
  /\ UNCHANGED <<linkVars, channelVars, switchVars>>

-----------------------------------------------------------------------------
(* Messages of the controller.                                             *)

Received(s) == Head(toSwitch[s])

Receives(s, type) == toSwitch[s] # <<>> /\ Received(s).type = type

Consume(s) == toSwitch' = [toSwitch EXCEPT ![s] = Tail(@)]

handleFeaturesRequest(s) ==
  /\ Receives(s, "FEATURES_REQUEST")
  /\ Consume(s)
  /\ SendUp(s, <<FeaturesReply>>)
  /\ UNCHANGED <<linkVars, aborted, switchVars>>

\* Mutant of handleFlowMod: a match that hits already gets no second timer.
FlowModSharesTimer(s) ==
  /\ Receives(s, "FLOW_MOD")
  /\ Consume(s)
  /\ \E table \in addEntry(entry_map[s], [match |-> Received(s).match,
                                          outport |-> Received(s).outport]) :
        entry_map' = [entry_map EXCEPT ![s] = table]
  /\ timers' = IF lookup(entry_map[s], Received(s).match) THEN timers
               ELSE [timers EXCEPT ![s] = Append(@, Received(s).match)]
  /\ UNCHANGED <<linkVars, toController, aborted, socket, proc, buffer>>

\* The entry is added whatever the table holds, and one timer is started.
\* All timers of a switch run for flow_timeout, so they fire in this order.
handleFlowMod(s) ==
  /\ Receives(s, "FLOW_MOD")
  /\ Consume(s)
  /\ \E table \in addEntry(entry_map[s], [match |-> Received(s).match,
                                          outport |-> Received(s).outport]) :
        entry_map' = [entry_map EXCEPT ![s] = table]
  /\ timers' = [timers EXCEPT ![s] = Append(@, Received(s).match)]
  /\ UNCHANGED <<linkVars, toController, aborted, socket, proc, buffer>>

\* Mutants of OutPorts: flooding uses the disabled ports too, or stops at the
\* port it came from.
FloodDisabledToo(s, f, port) ==
  IF port = FloodPort THEN Connected(s) \ {f.in_port} ELSE {port}

FloodStops(s, f, port) ==
  IF port = FloodPort
  THEN {p \in Connected(s) \ DisabledPorts[s] : p < f.in_port}
  ELSE {port}

\* The ports a packet-out sends a frame to: one port, or, to flood, every
\* connected port but the one the frame came in on and the disabled ones.
OutPorts(s, f, port) ==
  IF port = FloodPort THEN Connected(s) \ ({f.in_port} \cup DisabledPorts[s])
  ELSE {port}

\* A packet-out for a frame in the buffer.  Where no frame has the id,
\* returnMessage drops a null pointer.
handlePacketOut(s) ==
  /\ Receives(s, "PACKET_OUT")
  /\ Received(s).outport # AnyPort
  /\ LET id == Received(s).buffer_id
         f == buffer[s].pending_msgs[id]
     IN  IF id \in DOMAIN buffer[s].pending_msgs
         THEN /\ Consume(s)
              /\ Transmit(s, f, OutPorts(s, f, Received(s).outport))
              /\ buffer' = [buffer EXCEPT ![s] = returnMessage(@, id)]
              /\ UNCHANGED aborted
         ELSE /\ aborted' = TRUE
              /\ UNCHANGED <<linkVars, toSwitch, buffer>>
  /\ UNCHANGED <<toController, socket, proc, entry_map, timers>>

\* A packet-out for OFPP_ANY: the frame in the buffer is deleted.  It fails as
\* handlePacketOut does where no frame has the id.
dropBuffered(s) ==
  /\ Receives(s, "PACKET_OUT")
  /\ Received(s).outport = AnyPort
  /\ LET id == Received(s).buffer_id
     IN  IF id \in DOMAIN buffer[s].pending_msgs
         THEN /\ Consume(s)
              /\ buffer' = [buffer EXCEPT ![s] = returnMessage(@, id)]
              /\ UNCHANGED aborted
         ELSE /\ aborted' = TRUE
              /\ UNCHANGED <<toSwitch, buffer>>
  /\ UNCHANGED <<linkVars, toController, socket, proc, entry_map, timers>>

\* A packet-out that carries its frame.
handleCompletePacketOut(s) ==
  /\ Receives(s, "PACKET_OUT_FULL")
  /\ Consume(s)
  /\ LET f == Received(s).frame
     IN  Transmit(s, f, OutPorts(s, f, Received(s).outport))
  /\ UNCHANGED <<toController, aborted, switchVars>>

\* A flow timer fires and removes the first entry its match hits.
FlowTimer(s) ==
  /\ timers[s] # <<>>
  /\ entry_map' = [entry_map EXCEPT ![s] = deleteEntry(@, Head(timers[s]))]
  /\ timers' = [timers EXCEPT ![s] = Tail(@)]
  /\ UNCHANGED <<linkVars, channelVars, aborted, socket, proc, buffer>>

\* The events of a switch by what schedules them: the end of a service, a
\* message of the controller, and the rest.
SwitchServes(s) ==
  \/ ForwardFrame(s)
  \/ SendPacketIn(s)
  \/ SendCompletePacketIn(s)
  \/ PacketInOnClosedSocket(s)

SwitchReceives(s) ==
  \/ handleFeaturesRequest(s)
  \/ handleFlowMod(s)
  \/ handlePacketOut(s)
  \/ dropBuffered(s)
  \/ handleCompletePacketOut(s)

SwitchStep(s) ==
  \/ connect(s)
  \/ \E p \in Port : FrameArrives(s, p)
  \/ SwitchServes(s)
  \/ SwitchReceives(s)
  \/ FlowTimer(s)
=============================================================================
