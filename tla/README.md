# A TLA+ verification of openflow-industry4.0

The repository simulates, in OMNeT++ with INET, a factory whose machines talk
over an OpenFlow network. It has two halves:

- the **network**: OpenFlow switches that buffer the frames they cannot place,
  a controller, three control applications, and what prepares the network
  (its division into domains and a spanning tree for floods);
- the **factory**: a server that takes orders, a supplier, sensors on two
  production lines and a node factory that creates the products.

OMNeT++ runs one event at a time, so nothing here runs in parallel. What makes
the code hard is the *order* of events: each `handleMessage` runs to its end,
but the message, the answer and the timer that belong together are events of
several modules with arbitrary delays between them. A step of every model is
one event, executed to its end, calls and signals included.

The repository has no tests; its comments are its only statement of intent.

## 1. Inventory

| Part | State | Operations | Talks to |
|---|---|---|---|
| `Buffer` | frames by id, id counter, hand-over deque | `storeMessage`, `returnMessage`, `isfull`, `push`, `dequeue` | called by the agent and the processing module |
| `Flow_Table` | multimap of entries | `addEntry`, `deleteEntry`, `lookup`, `returnAction` | the same |
| `Open_Flow_Processing` | busy flag, list of frames, service event, disabled ports | arrival, end of service, output and flood | agent (signal `NF_NO_MATCH_FOUND`), links |
| `OFA_switch` | socket, pending flow timers | connect, packet-in, features request, flow-mod, packet-out, flow timer | controller by TCP; processing by signals |
| `OFA_controller` | busy flag, list, socket map | handshake, dispatch, flood, send, flow-mod | applications by the signal `PacketIn` |
| `Hub`, `Switch`, `Forwarding` | none; learned ports; topology | answer a packet-in; `Forwarding` also answers ARP requests | controller methods |
| `NodeFactory` | demand per line, timer, products | timer, `setDemand`, `createNode`, `deleteNode` | called by the server |
| `ServerApp` | demand, inventory, books of two lines | `process_message`, `check_demmmand` | all applications by TCP, node factory by calls |
| `SensorApp` | buffer, history, timer, session | `pushBuffer`, timer, TCP callbacks | reader (call), server (TCP) |
| `ClientApp`, `SupplierApp` | counters, timer, session | timer, TCP callbacks | server (TCP) |
| `RFIDGenericApp` | - | beacon of a tag, reading of a tag | radio, sensor |
| `kPartitionNetwork` | domains, nodes still to assign | seeds, then the next node for the next domain | writes the `domainID` of the nodes |
| `SpanningTree` | tree and ports per node | scans the nodes until all are processed | reads `domainID`, disables ports of the processing modules |
| `PingAppRandom` | sequence numbers, statistics | timer, reply, end of the simulation | ICMP |
| `placeController`, `DynamicRectableMobility` | placement, motion | - | INET |

What is hard in each, and the property that would notice it going wrong
(`PROJECT.json` lists the hazards line by line):

- *Buffer and agent.* A frame waits in the switch while its header travels to
  the controller and a decision travels back. Each id must be claimed once: no
  decision for an empty slot (a null pointer), no frame nobody claims.
  `BufferedFramesClaimedOnce`, `ClaimsDescribeFrame`, `PacketInIdsStored`.
- *Flow table.* Several frames of a flow miss before the first flow-mod arrives,
  so entries are duplicated; a timer removes the first entry that its match
  hits, not the one it was started for, in a multimap whose comparison is no
  order. `TimersMatchEntries`, `EventuallyQuiet`.
- *Service queues.* Flag, self message and list change together or a frame is
  stranded. `QueuesWorkConserving`, `EveryFrameDelivered`.
- *Controller and applications.* Decisions are taken on state that goes on
  changing, and sent to switches that may not be connected yet.
  The ARP oracle answers a request with two messages, or with one if the request
  came whole. `DecisionsFollowLearnedPorts`, `AbortsOnlyBeforeConnected`,
  `EveryFrameDelivered`, `NoDuplicateDelivery`.
- *Server and node factory.* The same quantities are kept in two modules and
  moved by orders, deliveries, polls and sensor reports in any order.
  `LinesOweTheirProducts`, `OrdersConserved`, `MaterialForEveryProduct`,
  `ProductsAccountedFor`, `DemandHasTimer`, `StartedAreOnTheLine`,
  `EndsWithNothingLeft`, `OnlyDefectsAreDeletedTwice`, `MakesWhatIsOrdered`,
  `EventuallyEnds`.
- *Sensors.* A tag in range is read every 10 ms, also while its report is under
  way. `ReportedOnce`, `NoTagForgotten`, `ConnectsOnlyWhenClosed`,
  `OneByOneReported`, `SessionsEnd`.
- *Client and supplier.* One timer is used by initialization, by sessions that
  close and by connections that fail, at any point of a session.
  `OrdersBounded`, `ConnectsOnlyWhenClosed`, `Stops`, `KeepsContract`,
  `Reconnects`.
- *Ping.* Replies of different nodes overtake each other, get lost or come
  twice, and one counter has to stay right. `LossIsExact`, `EveryPingAnswered`.
- *Division into domains.* A list iterator that passes the end, and searches
  that return what they have never set. `NodesDivided`, `UndefinedOnlyIfDense`,
  `DivisionComesToAnEnd`.
- *Spanning tree.* The two ends of a link are disabled by two nodes at different
  times, each from what is in the tree then. `NoPacketLoops`,
  `EveryNodeReached`, `EndsIfConnected`.

## 2. Modules

```
OpenFlow            frames, matches, messages (openflow.h, messages/*.msg)
 |-- PacketBuffer   Buffer.cc
 |-- FlowTable      Flow_Table.cc
 |-- Links          Ethernet links, TCP connections, hosts (external)
ServiceQueue        the queue in handleMessage of processing and controller
OpenFlowSwitch      Open_Flow_Processing.cc, OFA_switch.cc  (extends the above)
OpenFlowController  OFA_controller.cc, ctrlApps/*.cc
OpenFlowNetwork     switches + controller + hosts, and the network's properties
 |-- MCNetwork      the topologies TLC checks

NodeFactory         factory/nodeFactory.cc
 |-- ServerApp      apps/ServerApp.cc
      |-- FactoryFloor  + client, sensors, SupplyContract; the factory's
                        properties; implements Production
SensorApp           apps/SensorApp.cc: one sensor and its TCP sessions

Connection          a TCP connection as an application sees it (external)
 |-- ClientApp      apps/ClientApp.cc
 |-- SupplierApp    apps/SupplierApp.cc, implements SupplyContract
PingAppRandom       apps/PingAppRandom.cc
 |-- MCApplications the three applications for TLC

CTopology           nodes and links as cTopology extracts them
 |-- KPartitionNetwork  utility/kPartitionNetwork.cc
 |-- SpanningTree       utility/SpanningTree.cc
      |-- DomainSetup   both, one after the other
           |-- MCDomainSetup  the networks TLC checks

OpenFlowNetwork_proofs   types, queues and buffers of the network
 |-- OpenFlowClaims_proofs  what its messages claim, decide, time and deliver
FactoryFloor_proofs, SensorApp_proofs, DomainSetup_proofs
ClientApp_proofs, PingAppRandom_proofs
 |-- Applications_proofs    both of them beside the supplier
```

**OpenFlowSwitch.** `proc[s]` is the service queue, `buffer[s]` the `Buffer`,
`entry_map[s]` the multimap in iteration order, `timers[s]` the flow timers in
the order in which they fire (all of a switch run for the same `flow_timeout`).
`ForwardFrame`, `SendPacketIn`, `SendCompletePacketIn` and
`PacketInOnClosedSocket` are the four outcomes of `processQueuedMsg` and the
`handlePacket` it signals; `handleFeaturesRequest`, `handleFlowMod`,
`handlePacketOut` and `handleCompletePacketOut` are the messages of the
controller; `dropBuffered` is the packet-out for `OFPP_ANY`, with which the ARP
oracle deletes a request; `FlowTimer` is the timer of a flow entry. A null pointer or a
runtime error sets `aborted`, after which nothing happens: a packet-in before the
socket is open, and a packet-out, of either kind, for an id under which the buffer
has no frame (`returnMessage` drops a null pointer, `Buffer.cc:90`).

*Insertion into the multimap.* `ltmatch` compares as "every field differs", which
is symmetric, so the position where the red-black tree puts a new entry depends
on the shape of the tree. `addEntry` therefore allows every position that a
descent can end in: the element before does not compare greater, the one after
does.

**OpenFlowController.** One service queue for the messages of all switches.
`Reply` sends what a handler has produced; a message for a switch without a
socket is the null pointer that `findSocketFor` or `socketMap[connID]` yields.
For `Forwarding`, `NextPort` is the result of `cTopology` and `Topology` the
hosts whose addresses it has extracted. Its `Answer` is a route for a known
destination, else the ARP oracle's answer (`processARPPacket`, `ArpAnswer`), else
a flood. The oracle looks only at requests: an ARP reply is a frame like any
other, so that a frame carries no more of ARP than the address it asks for
(`arp_tpa`). No shipped scenario enables the oracle.

**ServerApp.** One operator for each branch of `process_message`. The branches
of the two lines are the same code twice and become one operator with a
parameter. `FactoryFloor` adds what drives them: orders, the supplier, products
that pass `PRODUCT`, then `WEIGTH`, then `SIZE` (the positions of `Industry.ned`),
and the reports, a set because every sensor has a connection of its own. With
`Overtaking` a product can reach the next sensor while a report is under way.

**OpenFlowNetwork** puts the switches, the controller and the hosts together.
Its properties look at messages by their places: `ClaimsUp`, `ClaimsQueued` and
`ClaimsDown` are the packet-ins and packet-outs that refer to a buffered frame, on
the way up, in the controller's queue and on the way back, and `Unanswered` are
the messages that the controller has not dealt with.

**Production** is the abstract specification of the factory: orders come in,
products are made one at a time and never more than were ordered, and the
simulation ends at its target or in error. `FactoryFloor`'s property
`MakesWhatIsOrdered` is the refinement, with the counters of `ServerApp` for what
is made and ended.

**SupplyContract** is the abstract specification of the supplier: asked for an
amount it delivers a tenth more (truncated to an int), once, before it asks
again, unless it breaks off for good. `FactoryFloor` takes its supplier from an
instance of it.

**SupplierApp** is the code: timer, TCP session, the count of
requests by which answers to polls are told from echoes of deliveries. Its
property `KeepsContract` is the refinement: the contract's `delivery` is what is
promised by an answer or a delivery under way, and it has broken off
(`supplying` is false) in the state that a failure within a session leaves.

**ClientApp** is the client's sessions of one order each. `FactoryFloor` takes
from it that the orders come one after another; the extra orders that failures
cause (`OrdersBounded`) are not composed with it.

**Connection** holds what the two applications share: the socket's state, the
messages under way in both directions, and a failure in any of the states
`Fragile`, which takes what is under way with it.

**SensorApp.** Buffer, history, timer (absent, scheduled, or fired and still
allocated) and TCP session of one sensor. `FactoryFloor` uses its result, a tag
is reported once, which is `ReportedOnce` here. The history variable `crowded`
tells whether a tag ever came before the sensor had finished with the one
before; the shipped timing keeps it false.

**PingAppRandom.** The network is a set of numbers of pings and replies under
way, any of which can arrive next, get lost or come twice. The statistics are
those that `finish()` reports; round-trip times are left out.

**KPartitionNetwork.** One action per step of `initialize()`: a seed in one of
the three modes, a node of the list that is no stub, the next node for the next
domain. `it` is the iterator over the list of nodes, with the positions that
`erase` and `++` give it, past the end included. Where `findNextSubset` returns
variables it has never set, the phase becomes `undefined`.

**SpanningTree.** The scan over the nodes in passes (`Visit`, `NextPass`); the
processing of a node is one step. `NoPacketLoops` and `EveryNodeReached` then ask
what floods do over the ports left open. A frame that circles would use links of which
each is followed by another, so among the links of `NoPacketLoops` there must
always be one after which none of the others goes on; a node that is cut off would
belong to nodes that keep their floods to themselves, so among the nodes of
`EveryNodeReached` there must always be one with an open link to the others.

**DomainSetup** composes the two over the same network as the code is meant to be
used: the division writes `domainID`, and a spanning tree that is declared later
selects the nodes of its domain, or all with `domainID` -1. The shipped scenarios
use only the latter.

## 3. Runs

| Run | What it checks | Distinct states |
|---|---|---|
| `learning_star` | one switch, `Switch.cc`, three frames of two EtherTypes, two of them can be buffered | 46,407 |
| `learning_line` | two switches, `Switch.cc`, frames sent whole to the controller (`sendCompletePacket`) | 12,187 |
| `forwarding_line` | two switches, `Forwarding.cc` with its ARP oracle, room for one frame; one address is in its topology, the other is not | 103,036 |
| `hub_ring` | three switches in a ring with one link disabled, `Hub.cc`, unicast and broadcast | 49,892 |
| `buffer_wrap` | **violated**: the id counter wraps (`OFP_NO_BUFFER` lowered to 2) | |
| `factory_inorder` | two orders of two products, one defect, reports in order, a supplier that may break off | 606,215 |
| `factory_overtaking` | three orders of one product, one defect, reports overtake each other | 3,163,739 |
| `sensor_crowded` | four products in any order and number in range, two failing connections | 5,623 |
| `sensor_stuck` | **violated**: two tags wait when a session begins | |
| `applications` | client, supplier and ping application, with failing connections, lost and duplicated replies; the refinement of `SupplyContract` | 16,707 |
| `supplier_broken` | **violated**: a connection breaks within a session | |
| `domain_setup` | all networks of four nodes, also with one double link, two domains, three modes, and the spanning tree of a domain or of all | 109,764 |

What they show: in the network, no frame is lost in a buffer, answered twice or
answered for another frame; decisions follow what was learned; entries and their
timers stay in step; frames and ARP answers arrive, once; the only failure is a
switch that is not connected yet. In the factory, the books of two modules agree
at every step, the factory makes what is ordered and no more (it implements
`Production`), and the simulation ends exactly when all is made, or the supplier
is gone. The client's orders are bounded by the failures; the supplier keeps the
contract that the factory relies on; the ping statistics are exact but for
duplicates. Divisions end and spanning trees neither loop nor cut off.

*Bounds.* `MaxSends` bounds the frames and ARP requests, `Asked` the addresses
asked for, `MaxDefects` the defective products, `MaxFailures` the failing
connections, `MaxPings`, `MaxLosses` and `MaxDuplicates` the pings and what the
network does to them; `Orders` and `OrderSize` are the code's own constants (10
and 100) made small in the factory, and `Orders` is 10 in `applications`. Two
frames are enough for two packet-ins of one flow under way together, which is
what duplicates entries; with three a third entry, or one of the other EtherType,
is added while a timer removes one, and the buffer of two overflows. The buffer's
capacity is one or two so that the switch changes to whole frames within a
behaviour. Two switches are the least for a path, three for a ring. Four products
on two lines, with one defect, let a line finish, a defective product be ordered
again, and the end be reached exactly. Five pings leave room for a jump of
several, late replies within it, and more jumps behind. `Amounts` has values at
which a tenth is truncated and at which it is not. Four nodes are the least for a
cycle with a chord and for domains that are not connected, and all their networks
are checked.

In `applications` the three applications share nothing, so a behaviour runs one
of them, chosen at the beginning, instead of all their interleavings.

*Deadlock* is not checked anywhere: hosts stop sending, orders end, a run of the
simulation stops. That nothing stops too early is what the liveness properties
say.

*Fairness* is weak fairness of what is scheduled. The kernel executes every
event in its queue: self messages (start timer, ends of service, flow timers,
the node factory's timer), frames on links, messages of a TCP connection. Hosts
are never obliged to send, tags never to come, nothing ever to fail. In
`FactoryFloor` weak fairness is also assumed of products (they keep moving, so
each reaches the next sensor) and of reports (TCP delivers them): the latter is
justified for the shipped timing only, in which products pass a sensor one at a
time. `OneByOneReported` shows it for that timing and `sensor_stuck` that it is
not so otherwise. In the applications it is fairness of the timer, of TCP and of
the server, never of a failure, and for pings of what is under way: it arrives
unless it gets lost. In `DomainSetup` it is that initialization runs on.

### Findings

1. `buffer_wrap` (`Buffer.cc:65`). When the counter reaches `OFP_NO_BUFFER` the
   frame is stored under that id and 0 is returned. The comment on line 49
   promises the id of the stored frame.
2. `sensor_stuck` (`SensorApp.cc:216`). `numRequestsToSend` is not decremented
   when an answer arrives, so a session that begins with two or more tags sends
   them, then waits for an answer to nothing: it is never closed, and as
   `isAnSession` stays true no later tag is reported.
3. `supplier_broken` (`SupplierApp.cc:148`). A failure within a session leaves
   `isAnSession` true, so the supplier's timer is cancelled and never scheduled
   again, although the header says that it reconnects. The contract says so
   (`BreaksOff`), and `EventuallyEnds` shows that the factory ends unless that
   happens. It does so where all orders arrive and every product is reported: the
   loss of the client and a sensor that is stuck (finding 2) are left out of it.

Visible in the code or the models, without a run of their own:

- `ServerApp.cc:301-302`: the comment says that a product heavier than 0.9 is
  defective; the code rejects those below 0.1.
- `SensorApp.cc:238`: after a refused connection the fired timer is still
  allocated and no session is open, so `rescheduleTimer` does nothing; the header
  (`SensorApp.h:89`) says that it reconnects. `OneByOneReported` leaves out
  behaviours with failures for this reason.
- `nodeFactory.cc:116`: under `factory_overtaking` the report of a product
  already deleted raises a runtime error. Nothing in the code keeps reports of
  different sensors in order, only the timing of the shipped scenario does;
  `OnlyDefectsAreDeletedTwice` says that only a defective product can cause it.
- In `forwarding_line` a flow-mod for a switch that is not connected yet is sent
  through a null pointer (`AbortsOnlyBeforeConnected`: the only failure).
- `SpanningTree.cc:69-74`: of two links between the same switches the parent
  disables its end of the second and the child none, and a flood loops, hence
  `Simple` in `NoPacketLoops`. On nodes that are not connected `initialize()`
  does not end, hence `EndsIfConnected`.
- `kPartitionNetwork.cc:145`: if every remaining node has as many links as there
  are domains, `subset` and `node` are used without having been set
  (`UndefinedOnlyIfDense`).
- `PingAppRandom.ned:40` describes the loss as the lost pings less those out of
  order, but the code (line 272) has already taken these off `lossCount`.
- `Forwarding.cc:82-86` looks for a parameter `doaminID`, which does not exist, so
  that the domain of every node is -1 and a topology restricted to a domain is
  empty.

## 4. Proofs

All of them hold for every value of the constants that the `ASSUME`s allow, not
only for the instances of the runs. Where a theorem has a hypothesis of its own,
it is named below with the reason. Each proof has the same plan: an inductive
invariant, one lemma per group of actions that keep it, lemmas about the
operators below these, and the theorems as consequences.

**OpenFlowNetwork_proofs.** `TypeCorrect`, `QueuesWork`, `CapacityKept`, for any
number of switches, any topology and each control application; and of the queue
itself `ArriveIsLast` and `FinishIsFirst`: first in, first out, and its server
keeps working. The invariant is the type invariant, `WorkConserving` for every
queue, and the capacity: types are needed because `Finish` and `Served` take the
head of sequences that are non-empty only because queues are work-conserving, and
`CapacityKept` needs the buffer to be a finite function. Each module's part of the
invariant is kept by lemmas about its operators (`StoreFits`, `ReturnFits`,
`AddedIsTable`, `DeletedIsTable`, `Transmitted`, `ReplyKeeps`, `LearnedPorts`,
...), then one lemma per group of actions. Assumptions used: `PortAssumption`,
`NoBufferAssumption`, `CapacityAssumption`, `NextPortAssumption`,
`TopologyAssumption`, `AskedAssumption`. The ARP oracle sends messages of the same
types (`ArpAnswerIsMessages`).

**OpenFlowClaims_proofs** follows the messages of the network, on top of that
invariant. Sequences are counted (`Occ`), with lemmas for a message appended,
taken from the front, inserted anywhere (`OccGrown`, `OccAppended`, `OccTail`).

- `ClaimedExactlyOnce`, `DescribesItsFrame` and `OnlyWrapLosesFrames` come from
  `ClaimInv`: an id that is in use has one claim, a free one none (`ClaimedOnce`),
  and a packet-in without an answer repeats the header of its frame (`Described`).
  Neither is inductive without `IdsBelow`: the id that `storeMessage` gives out is
  free because all ids in use are below the counter. That ends when the counter
  wraps, so these theorems assume `[]IdsLeft`, that no switch has used up its
  ids (2^32 in the code). It is a hypothesis about the behaviour and no bound on
  it: `buffer_wrap` is the violation without it, and the theorem says that the
  wrap is the only cause.
- `AbortsEarly` (with `[]IdsLeft`, as a claim without a frame would be a null
  pointer): `ConnectedFirst` says that nothing travels to or from a switch before
  it has connected, and the claims that every packet-out finds its frame, whether
  it sends the frame on (`handlePacketOut`) or deletes it (`dropBuffered`), so a
  missing socket is the only thing left that can fail.
- `EntriesAreTimed`: a timer deletes the first entry that its match hits. That
  this is an entry of the timer's own match is no property of the table but of
  the applications, which put only matches into it of which none hits another
  (`FlowsNormal`: every field counts, or all but the port for `Forwarding`). With
  it the counts of entries and timers change together (`TimersCounted`). The
  position in the multimap does not matter, so the comparison that is no order
  does no harm here.
- `DecisionsFollowPorts` (with `[]IdsLeft`, since a decision about a buffered
  frame is about the frame that is there): `DecisionsFollow` for table and
  messages together. A decision that was right when it was sent stays right
  because learning only adds: a source that is known keeps its port, wherever it
  is seen again (`LearnedStay`). The hypothesis `Behavior # "Forwarding"`
  is there because `Forwarding` learns no ports: it takes them from its topology.
- `DeliveredOnce`, `HubDeliversOnce`, `ForwardingDeliversOnce`,
  `SwitchDeliversOnce`: no host gets a frame twice. The property is false in a network with a loop, so the theorems assume
  `HostsDivided(Behind)`: for some choice of the hosts behind each port, a host
  that can be reached through a port is behind it, and behind no other open port
  of the switch. That is a hypothesis about the wiring alone, and what
  the disabled ports of `SpanningTree` are for. The invariant `OneWay`
  counts, for each frame and each host, the copies that can still reach this host
  or have reached it, over all places where a frame can be (links, service queues,
  buffers, packet-ins, the controller's queue, packet-outs, the host): there is
  one at most. Each step moves such a copy from one place to another or loses it;
  it cannot make two of one, since a switch that floods has the host behind one
  port only (`TransmitBrings`), a buffer gives its frame out once, and
  the controller sends a frame back to the switch that it came from
  (`ControllerRelays`). What remains to be shown of a control application is
  `NoWayBack`: no flow entry and no decision sends a frame back on its own port or
  to a disabled one. The hub installs no entries and only floods (`OnlyFloods`).
  With `Forwarding` entries, packet-outs and frames keep to the routes
  (`RoutesFollowed`, `AllOnTheirWay`), under `RoutesLead`: a route goes out by an
  open port, over a link that ends at the destination or at a switch from where it
  does not come back, which is so for shortest paths. It needs `[]IdsLeft`,
  since a packet-out names its frame by the id. The ARP oracle is excluded (its
  answer has the identity of the question, and would be a second copy of it).
  For `Switch` the argument is longest, since `NoWayBack` depends on the order of
  messages in all queues between two switches. It is `SwitchesAgree`, under the
  additional hypothesis `LinksMatch` (each link leads both ways, a host is alone
  behind its port, the two ends of a link have no host in common). Frames and what is
  learned from them stay where their source is behind the port (`AllPlaced`,
  `LearnedBehind`), so a decision sends a frame to a port where its destination
  is (`DecisionsSound`). A frame comes back to a switch that knows its destination
  there only if the switch at the other end of the link has flooded it. That one
  knows the destination too (`UpstreamKnows`), and handles what it had
  decided before it knew ahead of what lets frames from that host pass
  (`FloodsFirst`: the connection keeps its order). So on the way from a port over the
  link, the service queue and the packet-ins to the controller, no frame
  for a host comes behind one from it (`SourcesLast`, with `StepKeepsOrder` for the
  order on that way).

**FactoryFloor_proofs**, for any number and size of orders.

- `TypeCorrect`, `LinesOwe`, `Conserved`, `MaterialSuffices`, `TimerThere`, with
  and without overtaking. None of these is inductive alone. `line_inventory` does
  not go below zero because it counts products and reports that exist
  (`MaterialForEveryProduct`), `line_demmand` because it counts the line's products
  (`LinesOweTheirProducts`); both need that a report under way names a product once
  created, on the line it says (`ReportsTrue`), and that a product made is not on
  the line any more (`MadeAreGone`), or `ProductsDone` would not grow with the
  report of the last sensor. `CheckGivesToOneLine` and `CreatesOnePerLine` say
  what `check_demmmand` and the creation timer do.
- `AccountedFor`, `DeletedTwice`: the products one by one. A product is deleted a
  second time only if a sensor judges it after another has, so the invariant
  `ProductInv` says which reports can still be under way for a product that is made
  or scrapped (`JudgedOnce`), and that each sensor reports a product once.
- `NothingLeft`, under the hypothesis `Target = Orders * OrderSize`: the code ends
  at the constant 1000 whatever was ordered, which is what its ten orders of
  a hundred add up to. With a smaller target the property is false.
- `StartedOnLine`, under `~Overtaking`, the order of events that the shipped timing
  produces: one report of a product at a time, and the product there until it has
  arrived (`InTurn`). With overtaking, a report of `PRODUCT` that comes after the
  deletion leaves a start behind, and the property is false.
- `Implements`: `Spec => MakesWhatIsOrdered`, that is, every step is a step of
  `Production` or a stutter. An order is an `Order`; a report that ends a product well is a
  `Make`, a second deletion a `Fail`; a poll or delivery of the supplier, with which
  the server notices the target, is an `End`; all others stutter. That no more is
  made than was ordered follows from `OrdersConserved`, as a product that is still
  on a line is one that its line owes (`OnLineIsOwed`).

**SensorApp_proofs.** `Once`, `ConnectsSafely`, `NoneForgotten`, `TypeCorrect`,
for any tags and failures. `ReportedOnce` is not inductive: a tag that is under
way may be in the buffer again. The invariant adds that at most one message is
under way (`OneUnderWay`), that timer, socket and session agree (`PhasesAgree`),
and that what the server has received is answered or its answer is under way,
except where a connection broke within a session, after which the sensor never
connects again (`Broken`).

**ClientApp_proofs.** `OrdersStayBounded` and `ConnectsSafely`, for any positive
number of orders. `OrdersBounded` is not inductive: it needs that while the client
is about to connect there is room for one more order (`RoomForOrder`), which a
session that closes gets from its guard and a failure from being counted, and that
at most one order is under way to be lost (`Sessions`).

**PingAppRandom_proofs.** `LossExact`, for any number of pings, losses and
duplicates. `LossIsExact` is not inductive: a reply that comes again lowers the
count, so the invariant (`Accounted`) sets aside a duplicate for each answered
reply that is under way once more.

**Applications_proofs.** `KeepsContractSteps`: the supplier implements
`SupplySteps`, the contract without its liveness part, for any demands and
failures. The mapping needs the invariant `Phases`: what is under way in each
state of the socket, so that an answer is known to be a demand (`Polling`) or the
echo of a delivery (`Delivering`) by the count alone. Then one lemma per kind of
step says which step of the contract it is: the server's answers are `Asks` and
`Delivers`, a failure within a session is `BreaksOff`, all others stutter. Then
`OrdersStayBounded`, `ConnectsSafely` and `LossExact` again, for the composition
that the run `applications` checks: a step of it is a step of the client or leaves
its variables alone, so the client's invariant is kept, and the same for the
ping application. `Orders \in Nat \ {0}` is `ClientApp`'s own assumption.

**DomainSetup_proofs**, for any network of any number of nodes, with finitely many
ports.

- `Divided`, `UndefinedOnlyDense`: `NodesDivided` has to know that a seed goes to a
  domain that is still empty (`SeedsNext`). That uninitialized values are used only
  where remaining nodes are dense takes the lemma that domains cannot all be full
  while nodes remain (`FullDomainsHoldAll`): the average is rounded up, so the
  capacities add up to at least all nodes. Its sum over the domains is done with a
  least counterexample, as no induction theorem can be used.
- `Reaches`, `FloodsEnd`: about the ports left open when the scan is over. The
  invariant looks at the tree while it grows. Whoever brought a node in and the
  node itself keep a port open to each other (`Parents`); each part of the tree is
  joined to the rest of it (`Spans`); of the links that a processed node leaves
  open none leads outside the tree (`OpenInTree`); among any links of the
  tree one is the last, if there are no parallel links (`Loopless`); and a pass
  that counts all nodes has found them processed (`Counted`). A new node is a leaf:
  links that contain its link end there or ended before.
- `TypeCorrect`: `preferStubs` looks only at nodes that are still in its list.

*Only model-checked:*

- All liveness: no prover here handles fairness or `ENABLED`. These are
  `EventuallyQuiet`, `EveryFrameDelivered`, `EventuallyEnds`, `OneByOneReported`,
  `Stops`, `EveryPingAnswered`, `DivisionComesToAnEnd`, `EndsIfConnected`, and the
  liveness part of `SupplyContract`.

*Neither:* `NoDuplicateDelivery` with the ARP oracle, whose answers have the identity of
the question. The run `hub_ring` checks the property for `Hub`; for each of the three
applications, without the oracle, there is a theorem, on networks where the ports in
use leave no loop (with a loop it is false).

## 5. Not modelled

- `placeController`: it sums real-valued delays along shortest paths once, before
  the first event, and writes them into channel parameters.
- `DynamicRectableMobility` and the radio: real-valued motion. `FactoryFloor`
  keeps the order in which a product meets the sensors of its line, `SensorApp`
  that a tag in range is read again and again.
- The extraction of `Forwarding`'s topology and its shortest paths, which are
  `cTopology`'s: they are constants. The endless loop of `Forwarding.cc:215`, which
  needs a switch that the topology does not contain.
- Failures of the TCP connections between switches and controller: the code has no
  handler for them.
- Round-trip times, statistics, display strings, lifecycle operations (they do
  nothing but close).

## 6. Plan

Done: the network with its three control applications, the factory, the sensor,
client and supplier with failing connections and the supplier's contract, the
ping application, the division into domains and the spanning tree; `Production`
and `SupplyContract` with their refinements; and theorems for every safety
property the runs check, `NoDuplicateDelivery` for each of the three control
applications.

Left, most important first:

1. `HostsDivided` from `SpanningTree`'s `NoPacketLoops` and `EveryNodeReached`, which
   would join the two proofs: what the spanning tree leaves open is what the
   network needs.
2. A contract for the sensor as there is one for the supplier (a tag read is
   reported once, or lost with a failure), implemented by `SensorApp` and used by
   `FactoryFloor` instead of its own `reports`.
3. `ClientApp` composed with `FactoryFloor`, so that orders beyond the target reach
   the server.
