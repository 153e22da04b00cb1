---------------------------- MODULE SupplierApp -----------------------------
(***************************************************************************)
(* apps/SupplierApp.cc: the supplier polls the server in TCP sessions.  A  *)
(* session begins with the request -1; the answer is the server's demand,  *)
(* and the supplier sends a tenth more and closes without waiting for the  *)
(* answer to that.                                                         *)
(***************************************************************************)
EXTENDS Connection

CONSTANT Amounts         \* demands that the server may answer

ASSUME AmountsAssumption == Amounts \subseteq Nat \ {0}

VARIABLES timeOutMess,       \* the timer: "scheduled" or "idle"
          isAnSession,
          numRequestsToSend  \* answers that still let the session go on

supplierVars == <<timeOutMess, isAnSession, numRequestsToSend>>
vars == <<supplierVars, connectionVars>>

\* What was promised and has not reached the server: the server's answer on
\* its way to the supplier, or the delivery on its way back.
Bid(value) == IF value > 0 THEN (value * 11) \div 10 ELSE 0

Promised ==
  IF reply # <<>> /\ numRequestsToSend > 0 THEN Bid(Head(reply))
  ELSE IF request # <<>> /\ Head(request) > 0 THEN Head(request) ELSE 0

\* The state left by a connection that failed within a session.
BrokenOff == isAnSession /\ socket = "CLOSED"

Contract ==
  INSTANCE SupplyContract WITH Requests <- Amounts \cup {-1},
                               delivery <- Promised,
                               supplying <- ~BrokenOff

-----------------------------------------------------------------------------
\* initialize schedules the first connect.
Init ==
  /\ ConnectionInit
  /\ timeOutMess = "scheduled"
  /\ isAnSession = FALSE
  /\ numRequestsToSend = 0

\* The timer exists from initialize on: in a session it is cancelled, outside
\* one scheduled again.
rescheduleTimer == timeOutMess' = IF isAnSession' THEN "idle" ELSE "scheduled"

\* The timer fires: active open.
handleTimer ==
  /\ timeOutMess = "scheduled"
  /\ timeOutMess' = "idle"
  /\ Opens
  /\ UNCHANGED <<isAnSession, numRequestsToSend>>

\* Two requests to a session; the first is sent.
socketEstablished ==
  /\ Establishes(<<-1>>)
  /\ isAnSession' = TRUE
  /\ numRequestsToSend' = 2 - 1
  /\ UNCHANGED timeOutMess

\* The server answers a poll with its demand, or with -1 when it needs
\* nothing; a delivery it sends back as it came.
ServerAnswers ==
  /\ request # <<>>
  /\ IF Head(request) = -1 THEN \E v \in Amounts \cup {-1} : Answers(v)
     ELSE Answers(Head(request))
  /\ UNCHANGED supplierVars

\* Mutant of Sends: the delivery is what was asked for.
SendsBareDemand(n, value) ==
  (IF n > 0 /\ value > 0 THEN <<value>> ELSE <<>>)
    \o (IF n - 1 > 0 THEN <<-1>> ELSE <<>>)

\* The messages that an answer with this value triggers while n requests of
\* the session are left: the delivery, and another poll if n - 1 are.
Sends(n, value) ==
  (IF n > 0 /\ value > 0 THEN <<Bid(value)>> ELSE <<>>)
    \o (IF n - 1 > 0 THEN <<-1>> ELSE <<>>)

socketDataArrived ==
  /\ reply # <<>>
  /\ numRequestsToSend' = numRequestsToSend - 1
  /\ TakesReply(Sends(numRequestsToSend, Head(reply)),
                numRequestsToSend' <= 0)
  /\ UNCHANGED <<timeOutMess, isAnSession>>

socketClosed ==
  /\ Closed
  /\ isAnSession' = FALSE
  /\ rescheduleTimer
  /\ UNCHANGED numRequestsToSend

\* A failure outside a session is retried; within one it is not.
socketFailure ==
  /\ Fails
  /\ UNCHANGED <<isAnSession, numRequestsToSend>>
  /\ rescheduleTimer

Next ==
  \/ handleTimer
  \/ socketEstablished
  \/ ServerAnswers
  \/ socketDataArrived
  \/ socketClosed
  \/ socketFailure

Spec == Init /\ [][Next]_vars

\* The timer fires, and TCP and the server answer; nothing has to fail.
Fairness ==
  /\ WF_vars(handleTimer)
  /\ WF_vars(socketEstablished)
  /\ WF_vars(ServerAnswers)
  /\ WF_vars(socketDataArrived)
  /\ WF_vars(socketClosed)

FairSpec == Spec /\ Fairness

-----------------------------------------------------------------------------
TypeOK ==
  /\ socket \in SocketState
  /\ request \in Seq(Nat \cup {-1})
  /\ reply \in Seq(Nat \cup {-1})
  /\ failures \in 0..MaxFailures
  /\ timeOutMess \in {"scheduled", "idle"}
  /\ isAnSession \in BOOLEAN
  /\ numRequestsToSend \in -1..1

\* The supplier keeps its side of the contract on which the factory is built:
\* one delivery for each demand, a tenth more than was asked for, in the same
\* session, and no poll while it is under way, whatever connections fail.
KeepsContract == Contract!SupplySpec

\* After a connection has been closed or has failed, the supplier connects
\* again.
Reconnects == socket = "CLOSED" ~> socket = "CONNECTING"
=============================================================================
