--------------------------- MODULE MCApplications ---------------------------
(***************************************************************************)
(* Instances of ClientApp, SupplierApp and PingAppRandom for TLC.  They    *)
(* share neither state nor messages, so that a behaviour of all of them is *)
(* one of each: the model runs one of them, chosen at the beginning.       *)
(***************************************************************************)
EXTENDS SupplierApp

CONSTANTS Orders,
          Destination, Self, count, HasStopTime, MaxPings, MaxLosses,
          MaxDuplicates

VARIABLES running,
          \* the client
          clientTimer, clientNumRequests, toSend, served,
          clientSocket, clientRequest, clientReply, clientFailures,
          \* the ping application
          timer, sendSeqNo, expectedReplySeqNo, lossCount,
          outOfOrderArrivalCount, numPongs, finished, network, answered,
          losses, duplicates

client == <<clientTimer, clientNumRequests, toSend, served, clientSocket,
            clientRequest, clientReply, clientFailures>>
supplier == <<timeOutMess, isAnSession, numRequestsToSend, connectionVars>>
ping == <<timer, sendSeqNo, expectedReplySeqNo, lossCount,
          outOfOrderArrivalCount, numPongs, finished, network, answered,
          losses, duplicates>>
all == <<running, client, supplier, ping>>

Client ==
  INSTANCE ClientApp WITH timeOutMess <- clientTimer,
                          numRequestsToSend <- clientNumRequests,
                          socket <- clientSocket,
                          request <- clientRequest,
                          reply <- clientReply,
                          failures <- clientFailures

Ping == INSTANCE PingAppRandom

ApplicationsInit ==
  /\ running \in {"client", "supplier", "ping"}
  /\ Client!Init
  /\ Init
  /\ Ping!Init

OfClient(A) ==
  running = "client" /\ A /\ UNCHANGED <<running, supplier, ping>>

OfSupplier(A) ==
  running = "supplier" /\ A /\ UNCHANGED <<running, client, ping>>

OfPing(A) ==
  running = "ping" /\ A /\ UNCHANGED <<running, client, supplier>>

ApplicationsNext ==
  \/ OfClient(Client!Next)
  \/ OfSupplier(Next)
  \/ OfPing(Ping!Next)

\* The fairness of the application that runs.
ApplicationsFairness ==
  /\ WF_all(OfClient(Client!handleTimer))
  /\ WF_all(OfClient(Client!socketEstablished))
  /\ WF_all(OfClient(Client!ServerAnswers))
  /\ WF_all(OfClient(Client!socketDataArrived))
  /\ WF_all(OfClient(Client!socketClosed))
  /\ WF_all(OfSupplier(handleTimer))
  /\ WF_all(OfSupplier(socketEstablished))
  /\ WF_all(OfSupplier(ServerAnswers))
  /\ WF_all(OfSupplier(socketDataArrived))
  /\ WF_all(OfSupplier(socketClosed))
  /\ WF_all(OfPing(Ping!handleTimer))
  /\ WF_all(OfPing(\E n \in network : Ping!processPingResponse(n)))

ApplicationsSpec ==
  ApplicationsInit /\ [][ApplicationsNext]_all /\ ApplicationsFairness

-----------------------------------------------------------------------------
\* ClientApp: orders are bounded by the failures, none gets lost otherwise.
OrdersBounded == Client!OrdersBounded

\* ClientApp: the timer is never pending while a session is open.
ConnectsOnlyWhenClosed == Client!ConnectsOnlyWhenClosed

\* ClientApp: the client makes its orders and then stops.
Stops == running = "client" => Client!Stops

\* PingAppRandom: the loss count is exact but for duplicates.
LossIsExact == Ping!LossIsExact

\* PingAppRandom: every ping that did not get lost has its reply in the end.
EveryPingAnswered == running = "ping" => Ping!EveryPingAnswered
=============================================================================
