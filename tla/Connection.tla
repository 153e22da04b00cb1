----------------------------- MODULE Connection -----------------------------
(***************************************************************************)
(* The TCP connection between a client application (TCPAppBase of INET)    *)
(* and the server, as the application sees it: the state of its socket and *)
(* the messages under way.  TCP keeps them in order and loses none; a      *)
(* connection that is refused or breaks takes what is under way with it.   *)
(***************************************************************************)
EXTENDS Integers, Sequences

CONSTANTS Fragile,       \* states of the socket in which a connection can fail
          MaxFailures    \* bound: connections that fail in a behaviour

SocketState == {"CLOSED", "CONNECTING", "CONNECTED", "LOCALLY_CLOSED"}

ASSUME FragileAssumption == Fragile \subseteq SocketState \ {"CLOSED"}
ASSUME MaxFailuresAssumption == MaxFailures \in Nat

VARIABLES socket,        \* the state of the application's socket
          request,       \* messages under way to the server
          reply,         \* messages under way back
          failures       \* connections that have failed

connectionVars == <<socket, request, reply, failures>>

ConnectionInit ==
  /\ socket = "CLOSED"
  /\ request = <<>>
  /\ reply = <<>>
  /\ failures = 0

\* connect(): active open.
Opens ==
  /\ socket' = "CONNECTING"
  /\ UNCHANGED <<request, reply, failures>>

\* The connection is established, and the application sends ms.
Establishes(ms) ==
  /\ socket = "CONNECTING"
  /\ socket' = "CONNECTED"
  /\ request' = ms
  /\ UNCHANGED <<reply, failures>>

\* The server takes the next message and sends back answer.
Answers(answer) ==
  /\ request # <<>>
  /\ request' = Tail(request)
  /\ reply' = Append(reply, answer)
  /\ UNCHANGED <<socket, failures>>

\* The next answer arrives; the application sends ms and, if closing, closes.
TakesReply(ms, closing) ==
  /\ reply # <<>>
  /\ reply' = Tail(reply)
  /\ request' = request \o ms
  /\ socket' = IF closing THEN "LOCALLY_CLOSED" ELSE socket
  /\ UNCHANGED failures

\* The server has closed too, after its last answer.
Closed ==
  /\ socket = "LOCALLY_CLOSED"
  /\ request = <<>>
  /\ reply = <<>>
  /\ socket' = "CLOSED"
  /\ UNCHANGED <<request, reply, failures>>

\* The connection is refused or breaks.
Fails ==
  /\ failures < MaxFailures
  /\ socket \in Fragile
  /\ failures' = failures + 1
  /\ socket' = "CLOSED"
  /\ request' = <<>>
  /\ reply' = <<>>
=============================================================================
