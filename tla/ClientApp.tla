------------------------------ MODULE ClientApp ------------------------------
(***************************************************************************)
(* apps/ClientApp.cc: the client orders in TCP sessions of one order each, *)
(* 30 s apart, until it has made Orders of them (10 in the code).  An      *)
(* order counts as made when it is sent; a connection that fails is always *)
(* opened again, also after the last order.                                *)
(***************************************************************************)
EXTENDS Connection

CONSTANT Orders          \* orders after which the client stops, at least one

VARIABLES timeOutMess,       \* the timer: "scheduled" or "idle"
          numRequestsToSend, \* orders left in this session
          toSend,            \* orders sent so far, in spite of its name
          served             \* orders that have reached the server

clientVars == <<timeOutMess, numRequestsToSend, toSend, served>>
vars == <<clientVars, connectionVars>>

Order == "order"

\* initialize schedules the first connect.
Init ==
  /\ ConnectionInit
  /\ timeOutMess = "scheduled"
  /\ numRequestsToSend = 0
  /\ toSend = 0
  /\ served = 0

rescheduleTimer == timeOutMess' = "scheduled"

\* The timer fires: active open.
handleTimer ==
  /\ timeOutMess = "scheduled"
  /\ timeOutMess' = "idle"
  /\ Opens
  /\ UNCHANGED <<numRequestsToSend, toSend, served>>

\* One order to a session, sent at once.
socketEstablished ==
  /\ Establishes(<<Order>>)
  /\ numRequestsToSend' = 1 - 1
  /\ toSend' = toSend + 1
  /\ UNCHANGED <<timeOutMess, served>>

\* The server takes an order and sends the message back.
ServerAnswers ==
  /\ Answers(Order)
  /\ served' = served + 1
  /\ UNCHANGED <<timeOutMess, numRequestsToSend, toSend>>

\* Mutant of socketDataArrived: the next session is scheduled at the answer,
\* before this one has been closed.
ArrivedReschedules ==
  /\ TakesReply(<<>>, TRUE)
  /\ IF toSend < Orders THEN rescheduleTimer ELSE UNCHANGED timeOutMess
  /\ UNCHANGED <<numRequestsToSend, toSend, served>>

\* The answer: another order if the session has some left, or the end of it.
socketDataArrived ==
  /\ LET more == numRequestsToSend > 0
     IN  /\ TakesReply(IF more THEN <<Order>> ELSE <<>>, ~more)
         /\ toSend' = IF more THEN toSend + 1 ELSE toSend
  /\ UNCHANGED <<timeOutMess, numRequestsToSend, served>>

\* Mutant of socketClosed: one session too many.
socketClosedOnce ==
  /\ Closed
  /\ IF toSend <= Orders THEN rescheduleTimer ELSE UNCHANGED timeOutMess
  /\ UNCHANGED <<numRequestsToSend, toSend, served>>

\* The next session follows, unless enough orders have been made.
socketClosed ==
  /\ Closed
  /\ IF toSend < Orders THEN rescheduleTimer ELSE UNCHANGED timeOutMess
  /\ UNCHANGED <<numRequestsToSend, toSend, served>>

\* Mutant of socketFailure: no retry.
socketFailureGivesUp ==
  /\ Fails
  /\ UNCHANGED <<timeOutMess, numRequestsToSend, toSend, served>>

\* A connection that fails is opened again, whatever has been ordered.
socketFailure ==
  /\ Fails
  /\ rescheduleTimer
  /\ UNCHANGED <<numRequestsToSend, toSend, served>>

Next ==
  \/ handleTimer
  \/ socketEstablished
  \/ ServerAnswers
  \/ socketDataArrived
  \/ socketClosed
  \/ socketFailure

Spec == Init /\ [][Next]_vars

\* The timer fires, and TCP and the server answer; nothing has to fail.
Fairness ==
  /\ WF_vars(handleTimer)
  /\ WF_vars(socketEstablished)
  /\ WF_vars(ServerAnswers)
  /\ WF_vars(socketDataArrived)
  /\ WF_vars(socketClosed)

FairSpec == Spec /\ Fairness

-----------------------------------------------------------------------------
TypeOK ==
  /\ socket \in SocketState
  /\ request \in Seq({Order})
  /\ reply \in Seq({Order})
  /\ failures \in 0..MaxFailures
  /\ timeOutMess \in {"scheduled", "idle"}
  /\ numRequestsToSend \in {0, 1}
  /\ toSend \in Nat
  /\ served \in Nat

\* No more is ordered than the orders asked for and one for each connection
\* that failed, and every order that has not been served is under way or was
\* lost with such a connection.
OrdersBounded ==
  /\ toSend <= Orders + failures
  /\ toSend - failures <= served + Len(request)
  /\ served + Len(request) <= toSend

\* The timer, which sessions that close and connections that fail schedule,
\* opens a connection only while there is none: a connect on a socket that is
\* still in use would be a runtime error.
ConnectsOnlyWhenClosed == timeOutMess = "scheduled" => socket = "CLOSED"

\* The client makes its orders and then stops, whatever connections fail.
Stops ==
  <>[](toSend >= Orders /\ socket = "CLOSED" /\ timeOutMess = "idle")
=============================================================================
