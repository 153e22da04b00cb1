------------------------------ MODULE OpenFlow ------------------------------
(***************************************************************************)
(* The data that the OpenFlow modules exchange: Ethernet frames, the       *)
(* match fields of openflow.h and the messages of messages/*.msg.  A frame *)
(* carries an identity, which no code reads; it lets the properties tell   *)
(* two frames with equal headers apart.                                    *)
(***************************************************************************)
EXTENDS Integers, Sequences, FiniteSets

CONSTANTS Switch,        \* the OpenFlow switches of one controller's domain
          Port,          \* port indices; a switch may leave some unconnected
          Host,          \* MAC addresses, and the IP addresses they go with
          Broadcast,     \* the broadcast address
          NoHost,        \* not an address
          EtherType,     \* values of the EtherType field
          NoBuffer,      \* OFP_NO_BUFFER, the largest value of a buffer id
          FloodPort,     \* OFPP_FLOOD and OFPP_ANY, reserved port numbers
          AnyPort

ASSUME PortAssumption == Port \subseteq Nat /\ 0 \in Port
ASSUME NoBufferAssumption == NoBuffer \in Nat \ {0}
ASSUME FloodPortAssumption == FloodPort \notin Port
ASSUME AnyPortAssumption == AnyPort \notin Port \cup {FloodPort}

\* What a std::map with keys from K and values from V can hold.
IsMap(f, K, V) == \E D \in SUBSET K : f \in [D -> V]

Fields == {"in_port", "eth_src", "eth_dst", "eth_type"}

BufferId == 0..NoBuffer

Address == Host \cup {Broadcast}

ETHERTYPE_ARP == "ARP"

FrameType == EtherType \cup {ETHERTYPE_ARP}

\* arp_tpa is the address that an ARP request asks for, NoHost in all other
\* frames.
Frame == [id : Nat, in_port : Port, eth_src : Host, eth_dst : Address,
          eth_type : FrameType, arp_tpa : Host \cup {NoHost}]

Match == [in_port : Port, eth_src : Host, eth_dst : Address,
          eth_type : FrameType, wildcards : SUBSET Fields]

\* The match fields that the switch reads from a frame: its arrival gate and
\* the Ethernet header.
ExtractMatch(f) ==
  [in_port |-> f.in_port, eth_src |-> f.eth_src, eth_dst |-> f.eth_dst,
   eth_type |-> f.eth_type, wildcards |-> {}]

-----------------------------------------------------------------------------
(* Messages from a switch to the controller.  Established is the TCP       *)
(* indication that opens the connection; it travels ahead of all data.     *)

Established == [type |-> "ESTABLISHED"]
FeaturesReply == [type |-> "FEATURES_REPLY"]

\* The frame f stays in the switch; the message carries its header fields.
PacketInHeader(id, f) ==
  [type |-> "PACKET_IN", buffer_id |-> id, match |-> ExtractMatch(f),
   arp_tpa |-> f.arp_tpa, id |-> f.id]

\* The frame travels inside the message.
PacketInFrame(f) ==
  [type |-> "PACKET_IN_FULL", buffer_id |-> NoBuffer, frame |-> f]

UpMessage ==
  {Established, FeaturesReply}
    \cup [type : {"PACKET_IN"}, buffer_id : BufferId, match : Match,
          arp_tpa : Host \cup {NoHost}, id : Nat]
    \cup [type : {"PACKET_IN_FULL"}, buffer_id : {NoBuffer}, frame : Frame]

-----------------------------------------------------------------------------
(* Messages from the controller to a switch.                               *)

FeaturesRequest == [type |-> "FEATURES_REQUEST"]

FlowMod(m, p) == [type |-> "FLOW_MOD", match |-> m, outport |-> p]

PacketOutHeader(id, p) ==
  [type |-> "PACKET_OUT", buffer_id |-> id, outport |-> p]

PacketOutFrame(f, p) ==
  [type |-> "PACKET_OUT_FULL", buffer_id |-> NoBuffer, frame |-> f,
   outport |-> p]

DownMessage ==
  {FeaturesRequest}
    \cup [type : {"FLOW_MOD"}, match : Match, outport : Port]
    \cup [type : {"PACKET_OUT"}, buffer_id : BufferId,
          outport : Port \cup {FloodPort, AnyPort}]
    \cup [type : {"PACKET_OUT_FULL"}, buffer_id : {NoBuffer}, frame : Frame,
          outport : Port \cup {FloodPort}]
=============================================================================
