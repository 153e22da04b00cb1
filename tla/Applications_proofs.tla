------------------------ MODULE Applications_proofs -------------------------
(***************************************************************************)
(* The applications side by side.  The supplier implements its contract,   *)
(* whatever the demands and the connections that fail: every step of a TCP *)
(* session is a step of SupplyContract or a stutter.  What ClientApp_proofs*)
(* and PingAppRandom_proofs show of an application holds of it here.       *)
(***************************************************************************)
EXTENDS MCApplications, TLAPS

\* At a socket that is closed or connecting nothing is under way.
Silent == request = <<>> /\ reply = <<>>

\* A poll is under way, or its answer.
Polling ==
  \/ request = <<-1>> /\ reply = <<>>
  \/ \E v \in Amounts \cup {-1} : request = <<>> /\ reply = <<v>>

\* A delivery is under way, or its echo, or nothing any more.
Delivering ==
  \/ /\ numRequestsToSend = 0
     /\ \E d \in Nat \ {0} : \/ request = <<d>> /\ reply = <<>>
                             \/ request = <<>> /\ reply = <<d>>
  \/ Silent

\* What is under way in each state of the socket.  The timer runs exactly
\* while the supplier is outside a session and not connecting.
Phases ==
  /\ socket \in {"CLOSED", "CONNECTING"} => Silent
  /\ socket = "CONNECTING" => ~isAnSession
  /\ socket = "CONNECTED" => isAnSession /\ numRequestsToSend = 1 /\ Polling
  /\ socket = "LOCALLY_CLOSED" =>
       isAnSession /\ numRequestsToSend <= 0 /\ Delivering
  /\ timeOutMess = "scheduled" <=> socket = "CLOSED" /\ ~isAnSession

\* The types of what is not a sequence; Phases says what the sequences hold.
Types ==
  /\ socket \in SocketState
  /\ failures \in 0..MaxFailures
  /\ timeOutMess \in {"scheduled", "idle"}
  /\ isAnSession \in BOOLEAN
  /\ numRequestsToSend \in -1..1

IInv == Types /\ Phases

\* An answer to a demand is positive, so it is a delivery.
LEMMA BidPositive ==
  ASSUME NEW v \in Nat \ {0}
  PROVE  Bid(v) \in Nat \ {0}
BY DEF Bid

\* The sequences of one message.
LEMMA SingleMessage ==
  ASSUME NEW m
  PROVE  /\ <<m>> # <<>> /\ Head(<<m>>) = m /\ Tail(<<m>>) = <<>>
         /\ Append(<<>>, m) = <<m>>
         /\ <<>> \o <<m>> = <<m>> /\ <<>> \o <<>> = <<>>
         /\ <<m>> \o <<>> = <<m>>
OBVIOUS

\* What the answer to a poll triggers, and what the echo of a delivery does.
LEMMA SendsOnce ==
  ASSUME AmountsAssumption
  PROVE  /\ \A v \in Amounts : Sends(1, v) = <<Bid(v)>>
         /\ Sends(1, -1) = <<>>
         /\ \A n \in -1..0, v \in Nat : Sends(n, v) = <<>>
<1>1. ASSUME NEW v \in Amounts PROVE Sends(1, v) = <<Bid(v)>>
  <2>1. v \in Nat \ {0}
    BY DEF AmountsAssumption
  <2>2. Sends(1, v) = <<Bid(v)>> \o <<>>
    BY <2>1 DEF Sends
  <2> QED BY <2>2, SingleMessage
<1>2. Sends(1, -1) = <<>>
  BY SingleMessage DEF Sends
<1>3. ASSUME NEW n \in -1..0, NEW v \in Nat PROVE Sends(n, v) = <<>>
  BY SingleMessage DEF Sends
<1> QED BY <1>1, <1>2, <1>3

-----------------------------------------------------------------------------
\* initialize establishes the invariant.
LEMMA InitHolds == Init => IInv
<1> SUFFICES ASSUME Init PROVE IInv
  OBVIOUS
<1>1. Types
  <2>1. failures \in 0..MaxFailures /\ numRequestsToSend \in -1..1
    BY MaxFailuresAssumption DEF Init, ConnectionInit
  <2>2. /\ socket \in SocketState
        /\ timeOutMess \in {"scheduled", "idle"}
        /\ isAnSession \in BOOLEAN
    BY DEF Init, ConnectionInit, SocketState
  <2> QED BY <2>1, <2>2 DEF Types
<1>2. socket = "CLOSED" /\ Silent /\ timeOutMess = "scheduled" /\ ~isAnSession
  BY DEF Init, ConnectionInit, Silent
<1>3. Phases
  BY <1>2, Zenon DEF Phases
<1> QED BY <1>1, <1>3 DEF IInv

\* The answer to a poll ends what the supplier sends in this session.
LEMMA AnswerKeeps ==
  ASSUME IInv, socketDataArrived, AmountsAssumption
  PROVE  IInv'
<1>1. reply # <<>> /\ numRequestsToSend' = numRequestsToSend - 1
      /\ timeOutMess' = timeOutMess /\ isAnSession' = isAnSession
      /\ TakesReply(Sends(numRequestsToSend, Head(reply)),
                    numRequestsToSend' <= 0)
  BY DEF socketDataArrived
<1>2. socket \in {"CONNECTED", "LOCALLY_CLOSED"}
  BY <1>1 DEF IInv, Types, Phases, Silent, SocketState
<1>3. /\ socket' = "LOCALLY_CLOSED" /\ failures' = failures
      /\ isAnSession /\ timeOutMess = "idle"
  BY <1>1, <1>2 DEF IInv, Types, Phases, TakesReply
<1>4. CASE socket = "CONNECTED"
  <2>1. numRequestsToSend = 1 /\ Polling
    BY <1>4 DEF IInv, Phases
  <2>2. PICK v \in Amounts \cup {-1} : request = <<>> /\ reply = <<v>>
    BY <1>1, <2>1 DEF Polling
  <2>3. reply' = <<>> /\ request' = <<>> \o Sends(1, v)
    BY <1>1, <2>1, <2>2, SingleMessage DEF TakesReply
  <2>4. CASE v = -1
    <3>1. request' = <<>>
      BY <2>3, <2>4, SendsOnce, SingleMessage
    <3> QED BY <1>1, <1>3, <2>1, <2>3, <3>1
            DEF IInv, Types, Phases, Delivering, Silent, SocketState
  <2>5. CASE v \in Amounts
    <3>1. Bid(v) \in Nat \ {0}
      BY <2>5, BidPositive DEF AmountsAssumption
    <3>2. request' = <<Bid(v)>>
      BY <2>3, <2>5, SendsOnce, SingleMessage
    <3>3. Delivering'
      BY <1>1, <2>1, <2>3, <3>1, <3>2 DEF Delivering
    <3> QED BY <1>1, <1>3, <2>1, <3>3 DEF IInv, Types, Phases, SocketState
  <2> QED BY <2>2, <2>4, <2>5
<1>5. CASE socket = "LOCALLY_CLOSED"
  <2>1. Delivering
    BY <1>5 DEF IInv, Phases
  <2>2. PICK d \in Nat \ {0} : numRequestsToSend = 0 /\ request = <<>> /\ reply = <<d>>
    BY <1>1, <2>1 DEF Delivering, Silent
  <2>3. Silent'
    BY <1>1, <2>2, SendsOnce, SingleMessage DEF TakesReply, Silent
  <2> QED BY <1>1, <1>3, <2>2, <2>3 DEF IInv, Types, Phases, Delivering, SocketState
<1> QED BY <1>2, <1>4, <1>5

\* One step at a time keeps the invariant.
LEMMA StepKeeps ==
  ASSUME IInv, [Next]_vars
  PROVE  IInv'
<1> USE DEF IInv, Types, SocketState
<1>1. CASE handleTimer
  <2>1. socket = "CLOSED" /\ Silent /\ ~isAnSession
    BY <1>1 DEF handleTimer, Phases
  <2>2. /\ socket' = "CONNECTING" /\ Silent' /\ ~isAnSession'
        /\ timeOutMess' = "idle" /\ Types'
    BY <1>1, <2>1 DEF handleTimer, Opens, Silent
  <2> QED BY <2>2 DEF Phases
<1>2. CASE socketEstablished
  <2>1. /\ socket = "CONNECTING" /\ socket' = "CONNECTED"
        /\ request' = <<-1>> /\ reply' = <<>> /\ numRequestsToSend' = 1
        /\ isAnSession' /\ isAnSession' \in BOOLEAN
        /\ timeOutMess' = timeOutMess /\ failures' = failures
    BY <1>2 DEF socketEstablished, Establishes, Phases, Silent
  <2>2. Polling'
    BY <2>1 DEF Polling
  <2> QED BY <2>1, <2>2 DEF Phases
<1>3. CASE ServerAnswers
  <2>1. /\ request # <<>>
        /\ UNCHANGED <<socket, failures, supplierVars>>
        /\ request' = Tail(request)
    BY <1>3 DEF ServerAnswers, Answers
  <2>2. socket \in {"CONNECTED", "LOCALLY_CLOSED"}
    BY <2>1 DEF Phases, Silent
  <2>3. CASE socket = "CONNECTED"
    <3>1. request = <<-1>> /\ reply = <<>>
      BY <2>1, <2>3 DEF Phases, Polling
    <3>2. PICK v \in Amounts \cup {-1} : Answers(v)
      BY <1>3, <3>1, SingleMessage DEF ServerAnswers
    <3>3. request' = <<>> /\ reply' = <<v>>
      BY <3>1, <3>2, SingleMessage DEF Answers
    <3>4. Polling'
      BY <3>3 DEF Polling
    <3> QED BY <2>1, <2>3, <3>4 DEF Phases, supplierVars
  <2>4. CASE socket = "LOCALLY_CLOSED"
    <3>1. PICK d \in Nat \ {0} :
            numRequestsToSend = 0 /\ request = <<d>> /\ reply = <<>>
      BY <2>1, <2>4 DEF Phases, Delivering, Silent
    <3>2. Answers(d)
      BY <1>3, <3>1, SingleMessage DEF ServerAnswers
    <3>3. request' = <<>> /\ reply' = <<d>>
      BY <3>1, <3>2, SingleMessage DEF Answers
    <3>4. Delivering'
      BY <2>1, <3>1, <3>3 DEF Delivering, supplierVars
    <3> QED BY <2>1, <2>4, <3>4 DEF Phases, supplierVars
  <2> QED BY <2>2, <2>3, <2>4
<1>4. CASE socketDataArrived
  BY <1>4, AnswerKeeps, AmountsAssumption
<1>5. CASE socketClosed
  <2>1. /\ socket' = "CLOSED" /\ Silent' /\ isAnSession' = FALSE
        /\ UNCHANGED <<failures, numRequestsToSend>>
        /\ timeOutMess' = "scheduled"
    BY <1>5 DEF socketClosed, Closed, Silent, rescheduleTimer
  <2>2. ~isAnSession' /\ isAnSession' \in BOOLEAN
    BY <2>1
  <2> QED BY <2>1, <2>2 DEF Phases
<1>6. CASE socketFailure
  <2>1. /\ socket' = "CLOSED" /\ Silent' /\ failures' \in 0..MaxFailures
        /\ UNCHANGED <<isAnSession, numRequestsToSend>>
        /\ timeOutMess' = IF isAnSession THEN "idle" ELSE "scheduled"
    BY <1>6, MaxFailuresAssumption
       DEF socketFailure, Fails, Silent, rescheduleTimer
  <2> QED BY <2>1 DEF Phases
<1>7. CASE UNCHANGED vars
  BY <1>7 DEF vars, supplierVars, connectionVars, Phases, Silent, Polling,
              Delivering
<1> QED BY <1>1, <1>2, <1>3, <1>4, <1>5, <1>6, <1>7 DEF Next

\* It holds throughout.
LEMMA Invariance == Spec => []IInv
BY InitHolds, StepKeeps, PTL DEF Spec

-----------------------------------------------------------------------------
(* The refinement.                                                         *)

\* What is promised in each state of the session.
LEMMA PromisedBy ==
  /\ Silent => Promised = 0
  /\ request = <<-1>> /\ reply = <<>> => Promised = 0
  /\ \A d \in Nat \ {0} : request = <<d>> /\ reply = <<>> => Promised = d
  /\ \A v \in Nat \cup {-1} :
       request = <<>> /\ reply = <<v>> =>
         Promised = IF numRequestsToSend > 0 THEN Bid(v) ELSE 0
<1>1. /\ Silent => Promised = 0
      /\ request = <<-1>> /\ reply = <<>> => Promised = 0
  BY SingleMessage DEF Silent, Promised
<1>2. \A d \in Nat \ {0} : request = <<d>> /\ reply = <<>> => Promised = d
  BY SingleMessage DEF Promised
<1>3. \A v \in Nat \cup {-1} :
        request = <<>> /\ reply = <<v>> =>
          Promised = IF numRequestsToSend > 0 THEN Bid(v) ELSE 0
  BY SingleMessage DEF Promised
<1> QED BY <1>1, <1>2, <1>3

\* The contract begins with nothing supplied.
LEMMA InitSupplies == Init => Contract!SupplyInit
<1> SUFFICES ASSUME Init PROVE Contract!SupplyInit
  OBVIOUS
<1>1. Silent /\ ~isAnSession
  BY DEF Init, ConnectionInit, Silent
<1>2. Promised = 0 /\ (~BrokenOff) = TRUE
  BY <1>1, PromisedBy DEF BrokenOff
<1> QED BY <1>2 DEF Contract!SupplyInit

\* A step that changes neither what is promised nor the session is a stutter.
LEMMA Stutters ==
  ASSUME Promised' = Promised, BrokenOff' <=> BrokenOff
  PROVE  [Contract!SupplyNext]_(Contract!supplyVars)
<1>1. (~BrokenOff)' = ~BrokenOff
  BY DEF BrokenOff
<1> QED BY <1>1 DEF Contract!supplyVars

\* The server's answer to the poll is what the contract calls asking; its
\* answer to a delivery is the delivery.
LEMMA AnswerSupplies ==
  ASSUME IInv, ServerAnswers
  PROVE  [Contract!SupplyNext]_(Contract!supplyVars)
<1>1. request # <<>> /\ UNCHANGED <<socket, supplierVars>>
  BY DEF ServerAnswers, Answers
<1>2. socket \in {"CONNECTED", "LOCALLY_CLOSED"}
  BY <1>1 DEF IInv, Types, SocketState, Phases, Silent
<1>3. ~BrokenOff /\ ~BrokenOff'
  BY <1>1, <1>2 DEF BrokenOff
<1>4. CASE socket = "CONNECTED"
  <2>1. numRequestsToSend = 1 /\ request = <<-1>> /\ reply = <<>>
    BY <1>1, <1>4 DEF IInv, Phases, Polling
  <2>2. PICK v \in Amounts \cup {-1} : Answers(v)
    BY <2>1, SingleMessage DEF ServerAnswers
  <2>3. request' = <<>> /\ reply' = <<v>> /\ numRequestsToSend' = 1
    BY <1>1, <2>1, <2>2, SingleMessage DEF Answers, supplierVars
  <2>4. Promised = 0
    BY <2>1, PromisedBy
  <2>5. Promised' = Bid(v)
    BY <2>3, SingleMessage DEF Promised
  <2>6. Contract!Asks(v)
    BY <1>3, <2>4, <2>5 DEF Contract!Asks, Contract!Supply, Bid
  <2> QED BY <2>6 DEF Contract!SupplyNext
<1>5. CASE socket = "LOCALLY_CLOSED"
  <2>1. PICK d \in Nat \ {0} :
          numRequestsToSend = 0 /\ request = <<d>> /\ reply = <<>>
    BY <1>1, <1>5 DEF IInv, Phases, Delivering, Silent
  <2>2. Answers(d)
    BY <2>1, SingleMessage DEF ServerAnswers
  <2>3. request' = <<>> /\ reply' = <<d>> /\ numRequestsToSend' = 0
    BY <1>1, <2>1, <2>2, SingleMessage DEF Answers, supplierVars
  <2>4. Promised = d
    BY <2>1, PromisedBy
  <2>5. Promised' = 0
    BY <2>3, SingleMessage DEF Promised
  <2>6. Contract!Delivers
    BY <1>3, <2>4, <2>5 DEF Contract!Delivers
  <2> QED BY <2>6 DEF Contract!SupplyNext
<1> QED BY <1>2, <1>4, <1>5

\* An answer that arrives becomes the delivery that it promised; the echo of
\* a delivery promises nothing.
LEMMA ArrivalSupplies ==
  ASSUME IInv, socketDataArrived
  PROVE  [Contract!SupplyNext]_(Contract!supplyVars)
<1>1. /\ reply # <<>>
      /\ TakesReply(Sends(numRequestsToSend, Head(reply)),
                    numRequestsToSend' <= 0)
      /\ numRequestsToSend' = numRequestsToSend - 1
  BY DEF socketDataArrived
<1>2. socket \in {"CONNECTED", "LOCALLY_CLOSED"}
  BY <1>1 DEF IInv, Types, SocketState, Phases, Silent
<1>3. ~BrokenOff /\ ~BrokenOff'
  BY <1>1, <1>2 DEF BrokenOff, TakesReply
<1>4. CASE socket = "CONNECTED"
  <2>1. numRequestsToSend = 1 /\ Polling
    BY <1>4 DEF IInv, Phases
  <2>2. PICK v \in Amounts \cup {-1} : request = <<>> /\ reply = <<v>>
    BY <1>1, <2>1 DEF Polling
  <2>3. reply' = <<>> /\ request' = <<>> \o Sends(1, v)
    BY <1>1, <2>1, <2>2, SingleMessage DEF TakesReply
  <2>4. Promised = Bid(v)
    BY <2>1, <2>2, SingleMessage DEF Promised
  <2>5. CASE v = -1
    <3>1. Silent'
      BY <2>3, <2>5, SendsOnce, SingleMessage, AmountsAssumption DEF Silent
    <3>2. Promised' = 0
      BY <3>1, SingleMessage DEF Promised, Silent
    <3>3. Promised = 0
      BY <2>4, <2>5 DEF Bid
    <3> QED BY <1>3, <3>2, <3>3, Stutters
  <2>6. CASE v \in Amounts
    <3>1. Bid(v) \in Nat \ {0}
      BY <2>6, BidPositive, AmountsAssumption
    <3>2. request' = <<Bid(v)>>
      BY <2>3, <2>6, SendsOnce, SingleMessage, AmountsAssumption
    <3>3. Promised' = Bid(v)
      BY <2>3, <3>1, <3>2, SingleMessage DEF Promised
    <3> QED BY <1>3, <2>4, <3>3, Stutters
  <2> QED BY <2>2, <2>5, <2>6
<1>5. CASE socket = "LOCALLY_CLOSED"
  <2>1. PICK d \in Nat \ {0} :
          numRequestsToSend = 0 /\ request = <<>> /\ reply = <<d>>
    BY <1>1, <1>5 DEF IInv, Phases, Delivering, Silent
  <2>2. Silent'
    BY <1>1, <2>1, SendsOnce, SingleMessage, AmountsAssumption
       DEF TakesReply, Silent
  <2>3. Promised = 0
    BY <2>1, SingleMessage DEF Promised
  <2>4. Promised' = 0
    BY <2>2 DEF Promised, Silent
  <2> QED BY <1>3, <2>3, <2>4, Stutters
<1> QED BY <1>2, <1>4, <1>5

\* A failure within a session breaks the supply off; outside one, nothing is
\* promised.
LEMMA FailureSupplies ==
  ASSUME IInv, socketFailure
  PROVE  [Contract!SupplyNext]_(Contract!supplyVars)
<1>1. /\ socket \in Fragile /\ socket' = "CLOSED" /\ Silent'
      /\ isAnSession' = isAnSession
  BY DEF socketFailure, Fails, Silent
<1>2. socket # "CLOSED"
  BY <1>1, FragileAssumption
<1>3. ~BrokenOff /\ Promised' = 0
  BY <1>1, <1>2 DEF BrokenOff, Promised, Silent
<1>4. CASE isAnSession
  <2>1. BrokenOff'
    BY <1>1, <1>4 DEF BrokenOff
  <2>2. (~BrokenOff)' = FALSE
    BY <2>1
  <2>3. Contract!BreaksOff
    BY <1>3, <2>2 DEF Contract!BreaksOff
  <2> QED BY <2>3 DEF Contract!SupplyNext
<1>5. CASE ~isAnSession
  <2>1. Silent
    BY <1>2, <1>5 DEF IInv, Types, SocketState, Phases
  <2>2. Promised = 0 /\ ~BrokenOff'
    BY <1>1, <1>5, <2>1 DEF Promised, Silent, BrokenOff
  <2> QED BY <1>3, <2>2, Stutters
<1> QED BY <1>4, <1>5

\* Every step is a step of the contract or a stutter.
LEMMA StepSupplies ==
  ASSUME IInv, [Next]_vars
  PROVE  [Contract!SupplyNext]_(Contract!supplyVars)
<1>1. CASE handleTimer
  <2>1. /\ ~isAnSession /\ isAnSession' = isAnSession
        /\ UNCHANGED <<request, reply, numRequestsToSend>>
    BY <1>1 DEF handleTimer, Opens, IInv, Phases
  <2>2. Promised' = Promised /\ ~BrokenOff /\ ~BrokenOff'
    BY <2>1 DEF Promised, BrokenOff
  <2> QED BY <2>2, Stutters
<1>2. CASE socketEstablished
  <2>1. /\ socket = "CONNECTING" /\ socket' = "CONNECTED" /\ Silent
        /\ request' = <<-1>> /\ reply' = <<>>
    BY <1>2 DEF socketEstablished, Establishes, IInv, Phases, Silent
  <2>2. Promised = 0 /\ Promised' = 0
    BY <2>1, SingleMessage DEF Promised, Silent
  <2>3. ~BrokenOff /\ ~BrokenOff'
    BY <2>1 DEF BrokenOff
  <2> QED BY <2>2, <2>3, Stutters
<1>3. CASE ServerAnswers
  BY <1>3, AnswerSupplies
<1>4. CASE socketDataArrived
  BY <1>4, ArrivalSupplies
<1>5. CASE socketClosed
  <2>1. /\ socket = "LOCALLY_CLOSED" /\ isAnSession' = FALSE
        /\ Silent /\ Silent'
    BY <1>5 DEF socketClosed, Closed, Silent
  <2>2. Promised = 0 /\ Promised' = 0 /\ ~BrokenOff /\ ~BrokenOff'
    BY <2>1 DEF Promised, Silent, BrokenOff
  <2> QED BY <2>2, Stutters
<1>6. CASE socketFailure
  BY <1>6, FailureSupplies
<1>7. CASE UNCHANGED vars
  <2>1. Promised' = Promised /\ (BrokenOff' <=> BrokenOff)
    BY <1>7 DEF vars, supplierVars, connectionVars, Promised, BrokenOff
  <2> QED BY <2>1, Stutters
<1> QED BY <1>1, <1>2, <1>3, <1>4, <1>5, <1>6, <1>7 DEF Next

\* The supplier takes only steps that its contract allows, whatever the
\* server demands and whatever connections fail.
THEOREM KeepsContractSteps == Spec => Contract!SupplySteps
<1>1. IInv /\ [Next]_vars => [Contract!SupplyNext]_(Contract!supplyVars)
  BY StepSupplies
<1>2. Spec => [][Contract!SupplyNext]_(Contract!supplyVars)
  BY Invariance, <1>1, PTL DEF Spec
<1> QED BY InitSupplies, <1>2, PTL DEF Spec, Contract!SupplySteps

-----------------------------------------------------------------------------
(* The client and the ping application.                                    *)

ClientP ==
  INSTANCE ClientApp_proofs WITH timeOutMess <- clientTimer,
                                 numRequestsToSend <- clientNumRequests,
                                 socket <- clientSocket,
                                 request <- clientRequest,
                                 reply <- clientReply,
                                 failures <- clientFailures

PingP == INSTANCE PingAppRandom_proofs

\* A step of an application is one of the client or leaves the client alone.
LEMMA ClientSteps ==
  ASSUME [ApplicationsNext]_all
  PROVE  [ClientP!Next]_(ClientP!vars)
<1>1. CASE OfClient(Client!Next)
  <2>1. Client!handleTimer => ClientP!handleTimer
    BY DEF Client!handleTimer, ClientP!handleTimer, Client!Opens, ClientP!Opens
  <2>2. Client!socketEstablished => ClientP!socketEstablished
    BY DEF Client!socketEstablished, ClientP!socketEstablished,
           Client!Establishes, ClientP!Establishes, Client!Order, ClientP!Order
  <2>3. Client!ServerAnswers => ClientP!ServerAnswers
    BY DEF Client!ServerAnswers, ClientP!ServerAnswers,
           Client!Answers, ClientP!Answers, Client!Order, ClientP!Order
  <2>4. Client!socketDataArrived => ClientP!socketDataArrived
    BY DEF Client!socketDataArrived, ClientP!socketDataArrived,
           Client!TakesReply, ClientP!TakesReply, Client!Order, ClientP!Order
  <2>5. Client!socketClosed => ClientP!socketClosed
    BY DEF Client!socketClosed, ClientP!socketClosed,
           Client!Closed, ClientP!Closed,
           Client!rescheduleTimer, ClientP!rescheduleTimer
  <2>6. Client!socketFailure => ClientP!socketFailure
    BY DEF Client!socketFailure, ClientP!socketFailure,
           Client!Fails, ClientP!Fails,
           Client!rescheduleTimer, ClientP!rescheduleTimer
  <2> QED BY <1>1, <2>1, <2>2, <2>3, <2>4, <2>5, <2>6
          DEF OfClient, Client!Next, ClientP!Next
<1>2. CASE UNCHANGED client
  BY <1>2 DEF client, ClientP!vars, ClientP!clientVars, ClientP!connectionVars
<1> QED BY <1>1, <1>2 DEF ApplicationsNext, OfSupplier, OfPing, all

\* The same of the ping application.
LEMMA PingSteps ==
  ASSUME [ApplicationsNext]_all
  PROVE  [PingP!Next]_(PingP!vars)
<1>1. CASE OfPing(Ping!Next)
  <2>1. Ping!handleTimer => PingP!handleTimer
    BY DEF Ping!handleTimer, PingP!handleTimer, Ping!sendPing, PingP!sendPing,
           Ping!scheduleNextPing, PingP!scheduleNextPing,
           Ping!statistics, PingP!statistics
  <2>2. \A n : Ping!processPingResponse(n) => PingP!processPingResponse(n)
    BY DEF Ping!processPingResponse, PingP!processPingResponse,
           Ping!countPingResponse, PingP!countPingResponse
  <2>3. \A n : Ping!NetworkLoses(n) => PingP!NetworkLoses(n)
    BY DEF Ping!NetworkLoses, PingP!NetworkLoses,
           Ping!statistics, PingP!statistics
  <2>4. Ping!finish => PingP!finish
    BY DEF Ping!finish, PingP!finish, Ping!statistics, PingP!statistics,
           Ping!networkVars, PingP!networkVars
  <2> QED BY <1>1, <2>1, <2>2, <2>3, <2>4 DEF OfPing, Ping!Next, PingP!Next
<1>2. CASE UNCHANGED ping
  BY <1>2 DEF ping, PingP!vars, PingP!statistics, PingP!networkVars
<1> QED BY <1>1, <1>2 DEF ApplicationsNext, OfSupplier, OfClient, all

\* The invariants of the client and of the ping application hold in the
\* composition.
LEMMA ClientInvariance ==
  ASSUME Orders \in Nat \ {0}
  PROVE  ApplicationsSpec => []ClientP!IInv
<1>1. ApplicationsInit => ClientP!IInv
  <2>1. ClientP!Init => ClientP!IInv
    BY ClientP!InitHolds, FragileAssumption, MaxFailuresAssumption
       DEF SocketState, ClientP!SocketState
  <2>2. Client!Init => ClientP!Init
    BY DEF Client!Init, ClientP!Init, Client!ConnectionInit,
           ClientP!ConnectionInit
  <2> QED BY <2>1, <2>2 DEF ApplicationsInit
<1>2. ClientP!IInv /\ [ApplicationsNext]_all => ClientP!IInv'
  BY ClientSteps, ClientP!StepKeeps, FragileAssumption, MaxFailuresAssumption
     DEF SocketState, ClientP!SocketState
<1> QED BY <1>1, <1>2, PTL DEF ApplicationsSpec

LEMMA PingInvariance == ApplicationsSpec => []PingP!IInv
<1>1. ApplicationsInit => PingP!IInv
  <2>1. PingP!Init => PingP!IInv
    BY PingP!InitHolds
  <2>2. Ping!Init => PingP!Init
    BY DEF Ping!Init, PingP!Init
  <2> QED BY <2>1, <2>2 DEF ApplicationsInit
<1>2. PingP!IInv /\ [ApplicationsNext]_all => PingP!IInv'
  BY PingSteps, PingP!StepKeeps
<1> QED BY <1>1, <1>2, PTL DEF ApplicationsSpec

\* ClientApp beside the other applications: no more is ordered than the orders
\* asked for and one for each connection that failed.
THEOREM OrdersStayBounded ==
  ASSUME Orders \in Nat \ {0}
  PROVE  ApplicationsSpec => []OrdersBounded
<1>1. ClientP!IInv => OrdersBounded
  BY DEF ClientP!IInv, OrdersBounded, Client!OrdersBounded,
         ClientP!OrdersBounded
<1> QED BY <1>1, ClientInvariance, PTL

\* The timer of ClientApp never fires while a connection is in use.
THEOREM ConnectsSafely ==
  ASSUME Orders \in Nat \ {0}
  PROVE  ApplicationsSpec => []ConnectsOnlyWhenClosed
<1>1. ClientP!IInv => ConnectsOnlyWhenClosed
  BY DEF ClientP!IInv, ClientP!Sessions, ConnectsOnlyWhenClosed,
         Client!ConnectsOnlyWhenClosed
<1> QED BY <1>1, ClientInvariance, PTL

\* The loss count of PingAppRandom is exact but for duplicates, whatever the
\* network loses, delays or delivers twice.
THEOREM LossExact == ApplicationsSpec => []LossIsExact
<1>1. PingP!IInv => LossIsExact
  BY PingP!ExactIfAccounted
     DEF LossIsExact, Ping!LossIsExact, PingP!LossIsExact, Ping!Missing,
         PingP!Missing, Ping!Cardinality, PingP!Cardinality
<1> QED BY <1>1, PingInvariance, PTL
=============================================================================
