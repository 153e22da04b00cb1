-------------------------------- MODULE Links -------------------------------
(***************************************************************************)
(* The environment of the switches, which is INET's and OMNeT++'s: hosts   *)
(* that send frames, Ethernet links that deliver frames in the order they  *)
(* were put on the link, and one TCP connection per switch that delivers   *)
(* whole messages in order and loses none.                                 *)
(***************************************************************************)
EXTENDS OpenFlow

CONSTANTS Peer,          \* what each port of each switch is connected to
          MaxSends,      \* bound: frames the hosts send in a behaviour
          Asked          \* bound: hosts whose address is asked for by ARP

VARIABLES wire,          \* wire[s][p]: frames under way to port p of s
          sent,          \* the frames the hosts have sent; the index is the id
          received,      \* received[h]: ids of the frames that reached h
          toController,  \* per switch: messages under way to the controller
          toSwitch,      \* per switch: messages under way to the switch
          aborted        \* a runtime error has ended the simulation, or the
                         \* code has reached undefined behaviour

linkVars == <<wire, sent, received>>
channelVars == <<toController, toSwitch>>

SwitchEnd(s, p) == [kind |-> "switch", node |-> s, port |-> p]
HostEnd(h) == [kind |-> "host", node |-> h]
NoEnd == [kind |-> "none"]

ASSUME PeerAssumption ==
  Peer \in [Switch -> [Port -> {SwitchEnd(s, p) : s \in Switch, p \in Port}
                                 \cup {HostEnd(h) : h \in Host} \cup {NoEnd}]]
ASSUME MaxSendsAssumption == MaxSends \in Nat
ASSUME AskedAssumption == Asked \subseteq Host

\* What a host has sent: a frame from src to dst, or the question for tpa.
Sent == [src : Host, dst : Address, tpa : Host \cup {NoHost}]

Connected(s) == {p \in Port : Peer[s][p] # NoEnd}

\* The part of the type invariant that concerns links and channels.
LinksTypeOK ==
  /\ wire \in [Switch -> [Port -> Seq(Frame)]]
  /\ sent \in Seq(Sent)
  /\ received \in [Host -> Seq(Nat)]
  /\ toController \in [Switch -> Seq(UpMessage)]
  /\ toSwitch \in [Switch -> Seq(DownMessage)]
  /\ aborted \in BOOLEAN

LinksInit ==
  /\ wire = [s \in Switch |-> [p \in Port |-> <<>>]]
  /\ sent = <<>>
  /\ received = [h \in Host |-> <<>>]
  /\ toController = [s \in Switch |-> <<>>]
  /\ toSwitch = [s \in Switch |-> <<>>]
  /\ aborted = FALSE

\* Host h, on port p of s, sends a frame.
Sends(h, d, t, tpa, s, p) ==
  /\ Len(sent) < MaxSends
  /\ h \notin {d, tpa}
  /\ Peer[s][p] = HostEnd(h)
  /\ sent' = Append(sent, [src |-> h, dst |-> d, tpa |-> tpa])
  /\ wire' = [wire EXCEPT ![s][p] =
                Append(@, [id |-> Len(sent) + 1, in_port |-> p, eth_src |-> h,
                           eth_dst |-> d, eth_type |-> t, arp_tpa |-> tpa])]
  /\ UNCHANGED received

\* A frame to host d, or the question to all which address a has.
HostSends(h, s, p) ==
  \/ \E d \in Host, t \in EtherType : Sends(h, d, t, NoHost, s, p)
  \/ \E a \in Asked : Sends(h, Broadcast, ETHERTYPE_ARP, a, s, p)

\* Switch s puts a copy of f on each of the ports ps.  The arrival gate of the
\* copy becomes the port at the other end of the link.
Transmit(s, f, ps) ==
  /\ wire' = [t \in Switch |-> [q \in Port |->
                IF \E p \in ps : Peer[s][p] = SwitchEnd(t, q)
                THEN Append(wire[t][q], [f EXCEPT !.in_port = q])
                ELSE wire[t][q]]]
  /\ received' = [h \in Host |->
                IF \E p \in ps : Peer[s][p] = HostEnd(h)
                THEN Append(received[h], f.id) ELSE received[h]]
  /\ UNCHANGED sent

\* The connection of s carries the messages ms to the controller.
SendUp(s, ms) == toController' = [toController EXCEPT ![s] = @ \o ms]
=============================================================================
