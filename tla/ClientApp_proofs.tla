-------------------------- MODULE ClientApp_proofs --------------------------
(***************************************************************************)
(* The client for any number of orders and whatever connections fail: what *)
(* it orders is bounded by its failures, and it never connects twice.      *)
(***************************************************************************)
EXTENDS ClientApp, TLAPS

\* The types of the counters.
Counters ==
  /\ toSend \in Nat
  /\ served \in Nat
  /\ failures \in Nat
  /\ numRequestsToSend = 0
  /\ socket \in SocketState
  /\ timeOutMess \in {"scheduled", "idle"}

\* A session is one order and its answer; the timer runs only outside of it.
Sessions ==
  /\ \/ request = <<>>
     \/ request = <<Order>> /\ reply = <<>> /\ socket = "CONNECTED"
  /\ socket \in {"CLOSED", "CONNECTING"} => reply = <<>>
  /\ timeOutMess = "scheduled" => socket = "CLOSED"

\* While the client is about to connect it has room for one more order.
RoomForOrder ==
  timeOutMess = "scheduled" \/ socket = "CONNECTING" => toSend < Orders + failures

IInv == Counters /\ Sessions /\ RoomForOrder /\ OrdersBounded

\* Messages of one order, or none.
LEMMA OneOrder ==
  /\ Len(<<>>) = 0 /\ Len(<<Order>>) = 1
  /\ <<Order>> # <<>> /\ Tail(<<Order>>) = <<>>
  /\ <<>> \o <<>> = <<>>
OBVIOUS

\* initialize establishes the invariant.
LEMMA InitHolds ==
  ASSUME Orders \in Nat \ {0}
  PROVE  Init => IInv
BY OneOrder
   DEF Init, ConnectionInit, IInv, Counters, Sessions, RoomForOrder,
       OrdersBounded, SocketState

\* The next session, or a retry, is scheduled only where there is room.
LEMMA StepKeeps ==
  ASSUME Orders \in Nat \ {0}, IInv, [Next]_vars
  PROVE  IInv'
<1> USE DEF IInv, Counters, SocketState
<1>1. CASE handleTimer
  <2>1. /\ socket = "CLOSED" /\ timeOutMess = "scheduled"
        /\ socket' = "CONNECTING" /\ timeOutMess' = "idle"
        /\ UNCHANGED <<numRequestsToSend, toSend, served, request, reply,
                       failures>>
        /\ request = <<>> /\ reply = <<>>
    BY <1>1 DEF handleTimer, Opens, Sessions
  <2> QED BY <2>1 DEF Sessions, RoomForOrder, OrdersBounded
<1>2. CASE socketEstablished
  <2>1. /\ socket = "CONNECTING" /\ socket' = "CONNECTED"
        /\ request' = <<Order>> /\ request = <<>>
        /\ numRequestsToSend' = 0 /\ toSend' = toSend + 1
        /\ timeOutMess = "idle"
        /\ reply = <<>>
        /\ UNCHANGED <<timeOutMess, served, reply, failures>>
    BY <1>2 DEF socketEstablished, Establishes, Sessions
  <2>2. toSend < Orders + failures
    BY <2>1 DEF RoomForOrder
  <2>3. OrdersBounded'
    BY <2>1, <2>2, OneOrder DEF OrdersBounded
  <2> QED BY <2>1, <2>3 DEF Sessions, RoomForOrder
<1>3. CASE ServerAnswers
  <2>1. /\ request = <<Order>> /\ socket = "CONNECTED" /\ request' = <<>>
        /\ served' = served + 1
        /\ UNCHANGED <<socket, failures, timeOutMess, numRequestsToSend, toSend>>
    BY <1>3, OneOrder DEF ServerAnswers, Answers, Sessions
  <2>2. OrdersBounded'
    BY <2>1, OneOrder DEF OrdersBounded
  <2> QED BY <2>1, <2>2 DEF Sessions, RoomForOrder
<1>4. CASE socketDataArrived
  <2>1. /\ reply # <<>> /\ request' = request \o <<>>
        /\ socket' = "LOCALLY_CLOSED" /\ toSend' = toSend
        /\ UNCHANGED <<timeOutMess, numRequestsToSend, served, failures>>
    BY <1>4 DEF socketDataArrived, TakesReply
  <2>2. timeOutMess # "scheduled" /\ request = <<>> /\ request' = <<>>
    BY <2>1, OneOrder DEF Sessions
  <2> QED BY <2>1, <2>2 DEF Sessions, RoomForOrder, OrdersBounded
<1>5. CASE socketClosed
  <2>1. /\ request = <<>> /\ socket' = "CLOSED"
        /\ timeOutMess' = IF toSend < Orders THEN "scheduled" ELSE timeOutMess
        /\ socket = "LOCALLY_CLOSED" /\ reply = <<>>
        /\ UNCHANGED <<numRequestsToSend, toSend, served, failures, request,
                       reply>>
    BY <1>5 DEF socketClosed, Closed, rescheduleTimer
  <2>2. timeOutMess # "scheduled"
    BY <2>1 DEF Sessions
  <2>3. RoomForOrder'
    BY <2>1, <2>2 DEF RoomForOrder
  <2> QED BY <2>1, <2>3 DEF Sessions, OrdersBounded
<1>6. CASE socketFailure
  <2>1. /\ socket' = "CLOSED" /\ request' = <<>> /\ reply' = <<>>
        /\ failures' = failures + 1 /\ timeOutMess' = "scheduled"
        /\ UNCHANGED <<numRequestsToSend, toSend, served>>
    BY <1>6 DEF socketFailure, Fails, rescheduleTimer
  <2>2. PICK n \in {0, 1} : Len(request) = n
    BY OneOrder DEF Sessions
  <2>3. /\ toSend <= Orders + failures
        /\ toSend - failures <= served + n
        /\ served + n <= toSend
    BY <2>2 DEF OrdersBounded
  <2>4. Len(request') = 0
    BY <2>1, OneOrder
  <2>5. OrdersBounded' /\ RoomForOrder'
    BY <2>1, <2>3, <2>4 DEF OrdersBounded, RoomForOrder
  <2> QED BY <2>1, <2>5 DEF Sessions
<1>7. CASE UNCHANGED vars
  BY <1>7 DEF vars, clientVars, connectionVars, Sessions, RoomForOrder,
              OrdersBounded
<1> QED BY <1>1, <1>2, <1>3, <1>4, <1>5, <1>6, <1>7 DEF Next

\* It holds throughout.
LEMMA Invariance ==
  ASSUME Orders \in Nat \ {0}
  PROVE  Spec => []IInv
BY InitHolds, StepKeeps, PTL DEF Spec

\* The client orders no more than it was asked to, and one more for each
\* connection that failed; what was not served is under way or lost with one.
THEOREM OrdersStayBounded ==
  ASSUME Orders \in Nat \ {0}
  PROVE  Spec => []OrdersBounded
<1>1. IInv => OrdersBounded
  BY DEF IInv
<1> QED BY Invariance, <1>1, PTL

\* No connect on a socket that is still in use, whatever schedules the timer.
THEOREM ConnectsSafely ==
  ASSUME Orders \in Nat \ {0}
  PROVE  Spec => []ConnectsOnlyWhenClosed
<1>1. IInv => ConnectsOnlyWhenClosed
  BY DEF IInv, Sessions, ConnectsOnlyWhenClosed
<1> QED BY Invariance, <1>1, PTL
=============================================================================
