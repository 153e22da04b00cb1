----------------------------- MODULE SensorApp ------------------------------
(***************************************************************************)
(* apps/SensorApp.cc: one sensor, which reports the tags it reads to the   *)
(* server in TCP sessions.  A tag in range is read again and again         *)
(* (RFIDGenericApp.cc); a session sends one request at a time.  The        *)
(* connection, the server's answer and the products that pass are the      *)
(* environment.                                                            *)
(***************************************************************************)
EXTENDS Integers, SequencesExt

CONSTANTS Tag,           \* tags of the products that pass the sensor
          MaxFailures    \* bound: connections that fail in a behaviour

ASSUME MaxFailuresAssumption == MaxFailures \in Nat

VARIABLES m_buffer,      \* tags read and not sent yet
          m_history,     \* tags that the server has answered
          timeOutMess,   \* the timer: "none" (NULL), "scheduled" or "idle"
          isAnSession,
          numRequestsToSend,
          socket,        \* "CLOSED", "CONNECTING", "CONNECTED" or
                         \* "LOCALLY_CLOSED"
          request,       \* tags under way to the server
          reply,         \* tags under way back
          reported,      \* tags the server has received
          failures,      \* connections that have failed
          crowded        \* whether a tag has come into range before the
                         \* sensor had finished with the one before

sensorVars == <<m_buffer, m_history, timeOutMess, isAnSession,
                numRequestsToSend, socket>>
connectionVars == <<request, reply, reported, failures, crowded>>
vars == <<sensorVars, connectionVars>>

Init ==
  /\ m_buffer = <<>>
  /\ m_history = {}
  /\ timeOutMess = "none"
  /\ isAnSession = FALSE
  /\ numRequestsToSend = 0
  /\ socket = "CLOSED"
  /\ request = <<>>
  /\ reply = <<>>
  /\ reported = {}
  /\ failures = 0
  /\ crowded = FALSE

Buffered == ToSet(m_buffer)

\* Mutant of rescheduleTimer: a timer that has fired is scheduled again.
rescheduleAgain == timeOutMess' = "scheduled"

\* A timer that exists is never scheduled again; in a session it is cancelled.
rescheduleTimer ==
  timeOutMess' = IF timeOutMess = "none" THEN "scheduled"
                 ELSE IF isAnSession THEN "idle" ELSE timeOutMess

\* The first tag of the buffer b is sent, if there is one.
sendRequest(b) ==
  IF b = <<>> THEN m_buffer' = b /\ UNCHANGED request
  ELSE m_buffer' = Tail(b) /\ request' = Append(request, Head(b))

\* Nothing is left to do for the tags before, or t is one of them, read again.
Expects(t) ==
  \/ ~isAnSession /\ socket = "CLOSED" /\ m_buffer = <<>>
  \/ t \in ToSet(request) \cup ToSet(reply)

\* Tag t is read.  A tag that waits or has been answered is not new.
pushBuffer(t) ==
  /\ t \notin m_history
  /\ t \notin Buffered
  /\ m_buffer' = Append(m_buffer, t)
  /\ rescheduleTimer
  /\ crowded' = (crowded \/ ~Expects(t))
  /\ UNCHANGED <<m_history, isAnSession, numRequestsToSend, socket, request,
                 reply, reported, failures>>

\* The timer fires: active open.
connect ==
  /\ timeOutMess = "scheduled"
  /\ timeOutMess' = "idle"
  /\ socket' = "CONNECTING"
  /\ UNCHANGED <<m_buffer, m_history, isAnSession, numRequestsToSend,
                 connectionVars>>

\* Mutant of socketEstablished: the first request is not counted.
socketEstablishedUncounted ==
  /\ socket = "CONNECTING"
  /\ socket' = "CONNECTED"
  /\ isAnSession' = TRUE
  /\ numRequestsToSend' = IF m_buffer = <<>> THEN 1 ELSE Len(m_buffer)
  /\ sendRequest(m_buffer)
  /\ UNCHANGED <<m_history, timeOutMess, reply, reported, failures, crowded>>

\* The session is to send as many requests as tags wait, the first one now.
socketEstablished ==
  /\ socket = "CONNECTING"
  /\ socket' = "CONNECTED"
  /\ isAnSession' = TRUE
  /\ numRequestsToSend' = (IF m_buffer = <<>> THEN 1 ELSE Len(m_buffer)) - 1
  /\ sendRequest(m_buffer)
  /\ UNCHANGED <<m_history, timeOutMess, reply, reported, failures, crowded>>

\* The server processes the report and sends the message back.
ServerAnswers ==
  /\ request # <<>>
  /\ request' = Tail(request)
  /\ reported' = reported \cup {Head(request)}
  /\ reply' = Append(reply, Head(request))
  /\ UNCHANGED <<sensorVars, failures, crowded>>

\* Mutants of Answered: a tag read again meanwhile stays in the buffer, or the
\* buffer is cleared.
AnsweredStays(t) == m_buffer
AnsweredClears(t) == <<>>

\* The buffer without the tag that has been answered.
Answered(t) == IF t \in m_history THEN m_buffer ELSE RemoveFirst(m_buffer, t)

\* The answer for a tag: the tag is done with, and the next request is sent
\* or the connection closed.  numRequestsToSend does not change.
socketDataArrived ==
  /\ reply # <<>>
  /\ reply' = Tail(reply)
  /\ m_history' = m_history \cup {Head(reply)}
  /\ LET rest == Answered(Head(reply))
     IN  IF numRequestsToSend > 0 THEN sendRequest(rest) /\ UNCHANGED socket
         ELSE /\ m_buffer' = rest
              /\ socket' = "LOCALLY_CLOSED"
              /\ UNCHANGED request
  /\ UNCHANGED <<timeOutMess, isAnSession, numRequestsToSend, reported,
                 failures, crowded>>

socketClosed ==
  /\ socket = "LOCALLY_CLOSED"
  /\ socket' = "CLOSED"
  /\ timeOutMess' = "none"
  /\ isAnSession' = FALSE
  /\ UNCHANGED <<m_buffer, m_history, numRequestsToSend, connectionVars>>

\* The connection is refused or breaks; what is under way is lost.
socketFailure ==
  /\ failures < MaxFailures
  /\ socket # "CLOSED"
  /\ failures' = failures + 1
  /\ socket' = "CLOSED"
  /\ request' = <<>>
  /\ reply' = <<>>
  /\ rescheduleTimer
  /\ UNCHANGED <<m_buffer, m_history, isAnSession, numRequestsToSend, reported,
                 crowded>>

Next ==
  \/ \E t \in Tag : pushBuffer(t)
  \/ connect
  \/ socketEstablished
  \/ ServerAnswers
  \/ socketDataArrived
  \/ socketClosed
  \/ socketFailure

Spec == Init /\ [][Next]_vars

\* Timers fire, and TCP and the server answer; tags need not come.
Fairness ==
  /\ WF_vars(connect)
  /\ WF_vars(socketEstablished)
  /\ WF_vars(ServerAnswers)
  /\ WF_vars(socketDataArrived)
  /\ WF_vars(socketClosed)

FairSpec == Spec /\ Fairness

-----------------------------------------------------------------------------
TypeOK ==
  /\ m_buffer \in Seq(Tag)
  /\ m_history \subseteq Tag
  /\ timeOutMess \in {"none", "scheduled", "idle"}
  /\ isAnSession \in BOOLEAN
  /\ numRequestsToSend \in Nat
  /\ socket \in {"CLOSED", "CONNECTING", "CONNECTED", "LOCALLY_CLOSED"}
  /\ request \in Seq(Tag)
  /\ reply \in Seq(Tag)
  /\ reported \subseteq Tag
  /\ failures \in 0..MaxFailures
  /\ crowded \in BOOLEAN

\* A tag is reported to the server once, although it is read many times: also
\* when it is read again while its report or the answer is under way, and
\* whatever connections fail.  The server counts on it: a second report of
\* SENSOR_SIZE would delete a product that is gone.
ReportedOnce ==
  /\ ToSet(request) \cap reported = {}
  /\ IsInjective(request)

\* The sensor opens a connection only when it has none: the timer is never
\* pending while the socket is in use.
ConnectsOnlyWhenClosed == timeOutMess = "scheduled" => socket = "CLOSED"

\* A tag that was read waits, is under way or has been answered, as long as no
\* connection has failed.
Known == Buffered \cup ToSet(request) \cup ToSet(reply) \cup m_history

NoTagForgotten == [][failures' = 0 => Known \subseteq Known']_vars

\* While products come one at a time, as the shipped timing has it, and no
\* connection fails, every tag reaches the server and every session ends.
OneByOneReported ==
  /\ \A t \in Tag :
       t \in Buffered ~> (t \in reported \/ failures > 0 \/ crowded)
  /\ isAnSession ~> (~isAnSession \/ failures > 0 \/ crowded)

\* A session ends: the number of its requests is determined when it begins,
\* each request is sent when the reply to the one before arrives, and the
\* connection is closed after the last.
SessionsEnd == isAnSession ~> ~isAnSession
=============================================================================
