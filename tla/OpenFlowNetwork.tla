-------------------------- MODULE OpenFlowNetwork ---------------------------
(***************************************************************************)
(* The OpenFlow switches, their controller and the hosts, composed.  The   *)
(* simulation kernel runs one event at a time, in any order the delays     *)
(* allow; the model allows every order, except that links and connections  *)
(* are FIFO and that the flow timers of a switch fire in the order they    *)
(* were started.                                                           *)
(***************************************************************************)
EXTENDS OpenFlowSwitch, OpenFlowController

vars == <<linkVars, channelVars, aborted, switchVars, controllerVars>>

Init == LinksInit /\ SwitchInit /\ ControllerInit

HostStep ==
  /\ ~aborted
  /\ \E h \in Host, s \in Switch, p \in Port : HostSends(h, s, p)
  /\ UNCHANGED <<channelVars, aborted, switchVars, controllerVars>>

\* A step of a switch; a step of the controller.
OfSwitch(A) == ~aborted /\ A /\ UNCHANGED controllerVars
OfController(A) == ~aborted /\ A /\ UNCHANGED <<linkVars, switchVars>>

Next ==
  \/ HostStep
  \/ \E s \in Switch : OfSwitch(SwitchStep(s))
  \/ OfController(ControllerStep)

Spec == Init /\ [][Next]_vars

\* The kernel executes every event that is scheduled: the start timer, the
\* arrivals, the ends of service and the flow timers.  Hosts need not send.
Fairness ==
  /\ \A s \in Switch :
       /\ WF_vars(OfSwitch(connect(s)))
       /\ \A p \in Port : WF_vars(OfSwitch(FrameArrives(s, p)))
       /\ WF_vars(OfSwitch(SwitchServes(s)))
       /\ WF_vars(OfSwitch(SwitchReceives(s)))
       /\ WF_vars(OfSwitch(FlowTimer(s)))
       /\ WF_vars(OfController(MessageArrives(s)))
  /\ WF_vars(OfController(ControllerServes))

FairSpec == Spec /\ Fairness

-----------------------------------------------------------------------------
\* The state of every part has the type the code declares for it.
TypeOK == LinksTypeOK /\ SwitchTypeOK /\ ControllerTypeOK

-----------------------------------------------------------------------------
\* The messages of s that the controller has not answered yet: under way to it
\* or waiting there.
Unanswered(s) ==
  {toController[s][i] : i \in DOMAIN toController[s]}
    \cup {Contents(ctrl)[i].msg :
            i \in {j \in DOMAIN Contents(ctrl) : Contents(ctrl)[j].from = s}}

\* The packet-ins and packet-outs under way that refer to the frame with this
\* id in the buffer of s, by their places: up to the controller, in its queue
\* and back down.
ClaimsUp(s, id) ==
  {i \in DOMAIN toController[s] :
     toController[s][i].type = "PACKET_IN" /\ toController[s][i].buffer_id = id}

ClaimsQueued(s, id) ==
  {i \in DOMAIN Contents(ctrl) :
     LET item == Contents(ctrl)[i]
     IN  /\ item.from = s
         /\ item.msg.type = "PACKET_IN"
         /\ item.msg.buffer_id = id}

ClaimsDown(s, id) ==
  {i \in DOMAIN toSwitch[s] :
     toSwitch[s][i].type = "PACKET_OUT" /\ toSwitch[s][i].buffer_id = id}

\* Each frame in a switch's buffer is claimed by exactly one packet-in or
\* packet-out under way, and each of these claims a frame that is there: no
\* answer finds an empty slot (returnMessage would return NULL), no frame is
\* forgotten in the buffer, and none is answered twice.
BufferedFramesClaimedOnce ==
  \A s \in Switch, id \in BufferId :
    Cardinality(ClaimsUp(s, id)) + Cardinality(ClaimsQueued(s, id))
      + Cardinality(ClaimsDown(s, id))
      = IF id \in DOMAIN buffer[s].pending_msgs THEN 1 ELSE 0

\* The id in a packet-in is the id of a frame in the buffer: storeMessage
\* stores the frame and returns the id it has stored it under.
PacketInIdsStored ==
  \A s \in Switch : \A m \in Unanswered(s) :
    m.type = "PACKET_IN" => m.buffer_id \in DOMAIN buffer[s].pending_msgs

\* A packet-in describes the very frame that waits under its buffer id, its
\* ARP fields included.
ClaimsDescribeFrame ==
  \A s \in Switch : \A m \in Unanswered(s) :
    m.type = "PACKET_IN" =>
      /\ m.buffer_id \in DOMAIN buffer[s].pending_msgs
      /\ m = PacketInHeader(m.buffer_id, buffer[s].pending_msgs[m.buffer_id])

\* The buffer never holds more frames than its capacity, although the check
\* (isfull) and the insertion (storeMessage) are separate calls.
BufferWithinCapacity ==
  \A s \in Switch : Cardinality(DOMAIN buffer[s].pending_msgs) <= Capacity

\* No frame and no message is stranded in a service queue: whoever waits, a
\* service is in progress whose end will take the next one.
QueuesWorkConserving ==
  /\ \A s \in Switch : WorkConserving(proc[s])
  /\ WorkConserving(ctrl)

\* Every flow entry has a timer that will remove it and every timer an entry:
\* for each match there are as many of the one as of the other, though a
\* timer removes the first entry it hits and not the one it was started for.
TimersMatchEntries ==
  \A s \in Switch :
    \A m \in {timers[s][i] : i \in DOMAIN timers[s]}
               \cup {entry_map[s][i].match : i \in DOMAIN entry_map[s]} :
      Cardinality({i \in DOMAIN timers[s] : timers[s][i] = m})
        = Cardinality({i \in DOMAIN entry_map[s] : entry_map[s][i].match = m})

\* The simulation fails only through a switch whose connection the controller
\* does not know yet (startTime has not come, or the handshake is under way).
\* Once all are connected no order of events leads to a runtime error: every
\* packet-out, to send a buffered frame on or to delete it, finds its frame.
AbortsOnlyBeforeConnected == aborted => socketMap # Switch

\* No host ever gets the same frame twice: no switch and no answer of the
\* controller duplicates a frame, and flooding does not bring one back.
NoDuplicateDelivery ==
  \A h \in Host : \A i, j \in DOMAIN received[h] :
    received[h][i] = received[h][j] => i = j

\* Switch.cc: every decision in force or under way sends a destination's
\* frames to the port where that destination was learned.
DecisionsFollowLearnedPorts ==
  \A s \in Switch :
    LET ports == mac_to_port[s]
        agrees(m, p) == m.eth_dst \in DOMAIN ports /\ p = ports[m.eth_dst]
    IN  /\ \A i \in DOMAIN entry_map[s] :
             agrees(entry_map[s][i].match, entry_map[s][i].outport)
        /\ \A i \in DOMAIN toSwitch[s] :
             LET m == toSwitch[s][i]
             IN  CASE m.type = "FLOW_MOD" -> agrees(m.match, m.outport)
                   [] m.type = "PACKET_OUT_FULL" /\ m.outport # FloodPort ->
                        agrees(m.frame, m.outport)
                   [] m.type = "PACKET_OUT" /\ m.outport # FloodPort ->
                        agrees(buffer[s].pending_msgs[m.buffer_id], m.outport)
                   [] OTHER -> TRUE

\* A frame reaches the host it is for, and every other host if its address is
\* no host's (a broadcast), unless the simulation fails.  A question for an
\* address that the ARP oracle knows is answered instead: the answer, which
\* has the identity of the question, reaches the host that asked.
Attached(h) == \E s \in Switch, p \in Port : Peer[s][p] = HostEnd(h)

OracleKnows(a) == Behavior = "Forwarding" /\ ArpOracle /\ a \in Topology

IsFor(i, h) ==
  /\ i <= Len(sent)
  /\ Attached(h)
  /\ IF OracleKnows(sent[i].tpa) THEN sent[i].src = h
     ELSE sent[i].dst = h \/ (~Attached(sent[i].dst) /\ sent[i].src # h)

EveryFrameDelivered ==
  \A i \in 1..MaxSends, h \in Host :
    IsFor(i, h)
      ~> (aborted \/ \E k \in DOMAIN received[h] : received[h][k] = i)

\* In the end nothing is left behind: no frame in a switch, no message under
\* way, no flow entry and no timer.
Quiet(s) ==
  /\ \A p \in Port : wire[s][p] = <<>>
  /\ proc[s] = IdleQueue
  /\ DOMAIN buffer[s].pending_msgs = {}
  /\ toController[s] = <<>>
  /\ toSwitch[s] = <<>>
  /\ entry_map[s] = <<>>
  /\ timers[s] = <<>>

EventuallyQuiet ==
  <>[](aborted \/ (ctrl = IdleQueue /\ \A s \in Switch : Quiet(s)))
=============================================================================
