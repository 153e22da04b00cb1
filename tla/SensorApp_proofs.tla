-------------------------- MODULE SensorApp_proofs --------------------------
(***************************************************************************)
(* Any sensor, whatever the tags, their number, the order in which they    *)
(* are read and the connections that fail: a tag is reported once, and no  *)
(* connection is opened while there is one.                                *)
(***************************************************************************)
EXTENDS SensorApp, SequenceTheorems, TLAPS

-----------------------------------------------------------------------------
(* Sequences without repetitions.                                          *)

\* An element appended to a sequence that does not have it.
LEMMA AppendNew ==
  ASSUME NEW S, NEW s \in Seq(S), IsInjective(s), NEW e \in S, e \notin ToSet(s)
  PROVE  /\ Append(s, e) \in Seq(S)
         /\ IsInjective(Append(s, e))
         /\ ToSet(Append(s, e)) = ToSet(s) \cup {e}
<1>1. /\ Append(s, e) \in Seq(S) /\ Len(s) \in Nat
      /\ Len(Append(s, e)) = Len(s) + 1
      /\ \A i \in 1..Len(s) : Append(s, e)[i] = s[i]
      /\ Append(s, e)[Len(s) + 1] = e
      /\ DOMAIN s = 1..Len(s) /\ DOMAIN Append(s, e) = 1..(Len(s) + 1)
  BY AppendProperties, LenProperties
<1> DEFINE t == Append(s, e)
<1> HIDE DEF t
<1>2. IsInjective(t)
  BY <1>1 DEF IsInjective, ToSet, t
<1>3. ToSet(t) = ToSet(s) \cup {e}
  BY <1>1 DEF ToSet, t
<1> QED BY <1>1, <1>2, <1>3 DEF t

\* The rest of such a sequence does not have its head any more.
LEMMA TailWithoutHead ==
  ASSUME NEW S, NEW s \in Seq(S), IsInjective(s), s # <<>>
  PROVE  /\ Head(s) \in S /\ Head(s) \in ToSet(s)
         /\ Tail(s) \in Seq(S)
         /\ IsInjective(Tail(s))
         /\ ToSet(Tail(s)) = ToSet(s) \ {Head(s)}
<1>1. /\ Head(s) \in S /\ Tail(s) \in Seq(S) /\ Len(s) \in Nat
      /\ Len(Tail(s)) = Len(s) - 1
      /\ \A i \in 1..Len(Tail(s)) : Tail(s)[i] = s[i + 1]
      /\ DOMAIN s = 1..Len(s) /\ DOMAIN Tail(s) = 1..Len(Tail(s))
      /\ Len(s) >= 1 /\ Head(s) = s[1]
  BY HeadTailProperties, LenProperties, EmptySeq
<1> DEFINE t == Tail(s)  h == Head(s)
<1> HIDE DEF t, h
<1>2. IsInjective(t)
  BY <1>1 DEF IsInjective, t
<1>3. ToSet(t) \subseteq ToSet(s) \ {h}
  BY <1>1 DEF IsInjective, ToSet, t, h
<1>4. ASSUME NEW x \in ToSet(s), x # h PROVE x \in ToSet(t)
  <2>1. PICK i \in 1..Len(s) : x = s[i]
    BY <1>1 DEF ToSet
  <2>2. i # 1
    BY <1>1, <1>4, <2>1 DEF h
  <2>3. i - 1 \in 1..Len(t) /\ t[i - 1] = s[i]
    BY <1>1, <2>1, <2>2 DEF t
  <2> QED BY <1>1, <2>1, <2>3 DEF ToSet, t
<1>5. h \in ToSet(s)
  BY <1>1 DEF ToSet, h
<1> QED BY <1>1, <1>2, <1>3, <1>4, <1>5 DEF t, h

\* Such a sequence with one element taken out.
LEMMA RemovedOnce ==
  ASSUME NEW S, NEW s \in Seq(S), IsInjective(s), NEW e
  PROVE  /\ RemoveFirst(s, e) \in Seq(S)
         /\ IsInjective(RemoveFirst(s, e))
         /\ ToSet(RemoveFirst(s, e)) = ToSet(s) \ {e}
<1>1. /\ Len(s) \in Nat /\ DOMAIN s = 1..Len(s)
      /\ \A i \in 1..Len(s) : s[i] \in S
  BY LenProperties, ElementOfSeq
<1>2. CASE ~\E i \in 1..Len(s) : s[i] = e
  <2>1. RemoveFirst(s, e) = s /\ e \notin ToSet(s)
    BY <1>1, <1>2 DEF RemoveFirst, ToSet
  <2> QED BY <2>1
<1>3. CASE \E i \in 1..Len(s) : s[i] = e
  <2>1. PICK k \in 1..Len(s) : s[k] = e
    BY <1>3
  <2>2. {i \in 1..Len(s) : s[i] = e} = {k}
    BY <1>1, <2>1 DEF IsInjective
  <2>3. SelectInSeq(s, LAMBDA v : v = e) = k
    <3>1. Min({k}) = k
      BY <2>1 DEF Min
    <3> QED BY <2>2, <3>1 DEF SelectInSeq
  <2> DEFINE l == SubSeq(s, 1, k - 1)  r == SubSeq(s, k + 1, Len(s))  t == l \o r
  <2>4. RemoveFirst(s, e) = t
    BY <1>3, <2>3 DEF RemoveFirst, RemoveAt
  <2>5. /\ l \in Seq(S) /\ Len(l) = k - 1
        /\ \A i \in 1..(k - 1) : l[i] = s[i]
    <3>1. \A i \in 1..(k - 1) : s[i] \in S
      BY <1>1, <2>1
    <3> QED BY <2>1, <3>1, SubSeqProperties
  <2>6. /\ r \in Seq(S) /\ Len(r) = Len(s) - k
        /\ \A i \in 1..(Len(s) - k) : r[i] = s[k + i]
    <3>1. \A i \in (k + 1)..Len(s) : s[i] \in S
      BY <1>1, <2>1
    <3>2. /\ r \in Seq(S)
          /\ Len(r) = IF k + 1 <= Len(s) THEN Len(s) - (k + 1) + 1 ELSE 0
          /\ \A i \in 1..(Len(s) - (k + 1) + 1) : r[i] = s[(k + 1) + i - 1]
      BY <1>1, <2>1, <3>1, SubSeqProperties
    <3> HIDE DEF r
    <3>3. Len(s) - (k + 1) + 1 = Len(s) - k
      BY <1>1, <2>1
    <3>4. Len(r) = Len(s) - k
      <4>1. Len(r) = IF k + 1 <= Len(s) THEN Len(s) - (k + 1) + 1 ELSE 0
        BY <3>2
      <4>2. Len(s) \in Nat /\ k <= Len(s) /\ k \in Nat
        BY <1>1, <2>1
      <4> QED BY <4>1, <4>2
    <3>5. ASSUME NEW i \in 1..(Len(s) - k) PROVE r[i] = s[k + i]
      <4>1. (k + 1) + i - 1 = k + i
        BY <1>1, <2>1
      <4> QED BY <3>2, <3>3, <4>1
    <3>6. r \in Seq(S)
      BY <3>2
    <3> QED BY <3>4, <3>5, <3>6
  <2> HIDE DEF l, r
  <2>7. /\ t \in Seq(S) /\ Len(t) = Len(l) + Len(r)
        /\ \A i \in 1..(Len(l) + Len(r)) :
             t[i] = IF i <= Len(l) THEN l[i] ELSE r[i - Len(l)]
    BY <2>5, <2>6, ConcatProperties
  <2> HIDE DEF t
  <2>8. /\ Len(t) = Len(s) - 1 /\ DOMAIN t = 1..(Len(s) - 1)
        /\ \A i \in 1..(Len(s) - 1) : t[i] = IF i < k THEN s[i] ELSE s[i + 1]
    <3>1. Len(t) = Len(s) - 1 /\ DOMAIN t = 1..(Len(s) - 1)
      BY <1>1, <2>1, <2>5, <2>6, <2>7, LenProperties
    <3>2. ASSUME NEW i \in 1..(Len(s) - 1)
          PROVE  t[i] = IF i < k THEN s[i] ELSE s[i + 1]
      <4>1. CASE i < k
        BY <1>1, <2>1, <2>5, <2>6, <2>7, <4>1
      <4>2. CASE ~(i < k)
        <5>1. i - (k - 1) \in 1..(Len(s) - k) /\ k + (i - (k - 1)) = i + 1
          BY <1>1, <2>1, <4>2
        <5>2. i \in 1..(Len(l) + Len(r)) /\ ~(i <= Len(l)) /\ Len(l) = k - 1
          BY <1>1, <2>1, <2>5, <2>6, <4>2
        <5>3. t[i] = r[i - (k - 1)]
          BY <2>7, <5>2
        <5> QED BY <2>6, <4>2, <5>1, <5>3
      <4> QED BY <4>1, <4>2
    <3> QED BY <3>1, <3>2
  <2>9. IsInjective(t)
    BY <1>1, <2>1, <2>8 DEF IsInjective
  <2>10. ToSet(t) \subseteq ToSet(s) \ {e}
    <3>1. ASSUME NEW x \in ToSet(t) PROVE x \in ToSet(s) \ {e}
      <4>1. PICK i \in 1..(Len(s) - 1) : x = t[i]
        BY <2>8 DEF ToSet
      <4>2. PICK j \in 1..Len(s) : j # k /\ x = s[j]
        BY <1>1, <2>1, <2>8, <4>1
      <4> QED BY <1>1, <2>1, <4>2 DEF ToSet, IsInjective
    <3> QED BY <3>1
  <2>11. ASSUME NEW x \in ToSet(s), x # e PROVE x \in ToSet(t)
    <3>1. PICK j \in 1..Len(s) : x = s[j]
      BY <1>1 DEF ToSet
    <3>2. j # k
      BY <2>1, <2>11, <3>1
    <3>3. CASE j < k
      BY <1>1, <2>1, <2>8, <3>1, <3>3 DEF ToSet
    <3>4. CASE j > k
      <4>1. j - 1 \in 1..(Len(s) - 1) /\ t[j - 1] = s[j]
        BY <1>1, <2>1, <2>8, <3>1, <3>4
      <4> QED BY <2>8, <3>1, <4>1 DEF ToSet
    <3> QED BY <1>1, <2>1, <3>2, <3>3, <3>4
  <2> QED BY <2>4, <2>7, <2>9, <2>10, <2>11
<1> QED BY <1>2, <1>3

-----------------------------------------------------------------------------
(* The inductive invariant.                                                *)

\* At most one message is under way on the connection.
OneUnderWay ==
  \/ request = <<>> /\ reply = <<>>
  \/ \E t \in Tag : request = <<t>> /\ reply = <<>>
  \/ \E t \in Tag : request = <<>> /\ reply = <<t>>

\* What the timer, the socket and the session say about each other.
PhasesAgree ==
  /\ timeOutMess = "scheduled" => socket = "CLOSED" /\ ~isAnSession
  /\ timeOutMess = "none" => socket = "CLOSED" /\ ~isAnSession
  /\ socket = "CONNECTING" => ~isAnSession
  /\ socket \in {"CONNECTED", "LOCALLY_CLOSED"} => isAnSession
  /\ socket # "CONNECTED" => request = <<>> /\ reply = <<>>

\* A connection broke in a session: the sensor never connects again.
Broken == socket = "CLOSED" /\ isAnSession

\* The buffer holds each tag once and none that has been answered; what the
\* server has received has been answered or its answer is under way.
BookKeeping ==
  /\ IsInjective(m_buffer)
  /\ Buffered \cap m_history = {}
  /\ m_history \cup ToSet(reply) \subseteq reported
  /\ ~Broken => reported \subseteq m_history \cup ToSet(reply)

IInv ==
  /\ TypeOK
  /\ OneUnderWay
  /\ PhasesAgree
  /\ BookKeeping
  /\ ToSet(request) \cap reported = {}

-----------------------------------------------------------------------------
(* Each step keeps it.                                                     *)

\* The tags in a sequence of none or one.
LEMMA SmallSets ==
  /\ ToSet(<<>>) = {}
  /\ \A t \in Tag : ToSet(<<t>>) = {t}
BY DEF ToSet

\* Sequences of no or one tag.
LEMMA SmallSeqs ==
  /\ <<>> \in Seq(Tag)
  /\ \A t \in Tag : <<t>> \in Seq(Tag)
BY EmptySeq

\* The initial state satisfies the invariant.
LEMMA InitInv == Init => IInv
<1> SUFFICES ASSUME Init PROVE IInv
  OBVIOUS
<1>1. TypeOK
  <2>1. isAnSession \in BOOLEAN /\ crowded \in BOOLEAN
    BY DEF Init
  <2>2. m_buffer \in Seq(Tag) /\ request \in Seq(Tag) /\ reply \in Seq(Tag)
    BY SmallSeqs DEF Init
  <2>3. failures \in 0..MaxFailures /\ numRequestsToSend \in Nat
    BY MaxFailuresAssumption DEF Init
  <2>4. m_history \subseteq Tag /\ reported \subseteq Tag
    BY DEF Init
  <2>5. /\ timeOutMess \in {"none", "scheduled", "idle"}
        /\ socket \in {"CLOSED", "CONNECTING", "CONNECTED", "LOCALLY_CLOSED"}
    BY DEF Init
  <2> QED BY <2>1, <2>2, <2>3, <2>4, <2>5 DEF TypeOK
<1>2. OneUnderWay /\ PhasesAgree
  BY DEF Init, OneUnderWay, PhasesAgree
<1>3. BookKeeping /\ ToSet(request) \cap reported = {}
  BY SmallSets DEF Init, BookKeeping, Buffered, IsInjective
<1> QED BY <1>1, <1>2, <1>3 DEF IInv

\* A tag is read.
LEMMA PushKeeps ==
  ASSUME IInv, NEW t \in Tag, pushBuffer(t)
  PROVE  IInv'
<1>1. /\ m_buffer' \in Seq(Tag) /\ IsInjective(m_buffer')
      /\ Buffered' = Buffered \cup {t}
  BY AppendNew DEF IInv, TypeOK, BookKeeping, pushBuffer, Buffered
<1>2. TypeOK'
  BY <1>1 DEF IInv, TypeOK, pushBuffer, rescheduleTimer, connectionVars
<1>3. OneUnderWay'
  BY DEF IInv, OneUnderWay, pushBuffer, connectionVars
<1>4. PhasesAgree'
  BY DEF IInv, TypeOK, PhasesAgree, pushBuffer, rescheduleTimer, connectionVars
<1>5. BookKeeping'
  BY <1>1 DEF IInv, BookKeeping, Broken, pushBuffer, connectionVars
<1>6. (ToSet(request) \cap reported = {})'
  BY DEF IInv, pushBuffer, connectionVars
<1> QED BY <1>2, <1>3, <1>4, <1>5, <1>6 DEF IInv

\* The connection is opened.
LEMMA ConnectKeeps ==
  ASSUME IInv, connect
  PROVE  IInv'
<1>1. TypeOK' /\ OneUnderWay' /\ PhasesAgree'
  BY DEF IInv, TypeOK, OneUnderWay, PhasesAgree, connect, connectionVars
<1>2. BookKeeping' /\ (ToSet(request) \cap reported = {})'
  BY DEF IInv, PhasesAgree, BookKeeping, Broken, Buffered, connect,
         connectionVars
<1> QED BY <1>1, <1>2 DEF IInv

\* The first tag of a buffer is sent, or nothing where there is none.
LEMMA SendingKeeps ==
  ASSUME NEW b \in Seq(Tag), IsInjective(b), request = <<>>, sendRequest(b)
  PROVE  /\ m_buffer' \in Seq(Tag)
         /\ IsInjective(m_buffer')
         /\ Buffered' \subseteq ToSet(b)
         /\ ToSet(b) \subseteq Buffered' \cup ToSet(request')
         /\ \/ request' = <<>>
            \/ \E t \in ToSet(b) : t \in Tag /\ request' = <<t>>
<1>1. CASE b = <<>>
  BY <1>1, SmallSets DEF sendRequest, Buffered
<1>2. CASE b # <<>>
  <2>1. m_buffer' = Tail(b) /\ request' = <<Head(b)>>
    BY <1>2 DEF sendRequest
  <2>2. /\ Head(b) \in Tag /\ Head(b) \in ToSet(b)
        /\ Tail(b) \in Seq(Tag) /\ IsInjective(Tail(b))
        /\ ToSet(Tail(b)) = ToSet(b) \ {Head(b)}
    BY <1>2, TailWithoutHead
  <2>3. ToSet(request') = {Head(b)} /\ Buffered' = ToSet(b) \ {Head(b)}
    BY <2>1, <2>2, SmallSets DEF Buffered
  <2> QED BY <2>1, <2>2, <2>3
<1> QED BY <1>1, <1>2

\* The session begins.
LEMMA EstablishedKeeps ==
  ASSUME IInv, socketEstablished
  PROVE  IInv'
<1>1. /\ request = <<>> /\ reply = <<>> /\ reply' = <<>> /\ ~Broken
      /\ m_buffer \in Seq(Tag) /\ IsInjective(m_buffer)
      /\ sendRequest(m_buffer)
  BY DEF IInv, TypeOK, PhasesAgree, BookKeeping, Broken, socketEstablished
<1>2. /\ m_buffer' \in Seq(Tag) /\ IsInjective(m_buffer')
      /\ Buffered' \subseteq Buffered
      /\ \/ request' = <<>>
         \/ \E t \in Buffered : t \in Tag /\ request' = <<t>>
  BY <1>1, SendingKeeps DEF Buffered
<1>3. numRequestsToSend' \in Nat
  <2>1. m_buffer # <<>> => Len(m_buffer) \in Nat /\ Len(m_buffer) # 0
    BY <1>1, LenProperties, EmptySeq
  <2> QED BY <2>1 DEF socketEstablished
<1>4. request' \in Seq(Tag)
  BY <1>2, SmallSeqs
<1>5. TypeOK'
  BY <1>2, <1>3, <1>4 DEF IInv, TypeOK, socketEstablished
<1>6. OneUnderWay'
  BY <1>1, <1>2 DEF OneUnderWay
<1>7. PhasesAgree'
  BY DEF IInv, PhasesAgree, socketEstablished
<1>8. BookKeeping'
  BY <1>1, <1>2, SmallSets DEF IInv, BookKeeping, Broken, socketEstablished
<1>9. (ToSet(request) \cap reported = {})'
  <2>1. reported' \subseteq m_history
    BY <1>1, SmallSets DEF IInv, BookKeeping, socketEstablished
  <2>2. ToSet(request') \subseteq Buffered
    BY <1>2, SmallSets
  <2> QED BY <2>1, <2>2 DEF IInv, BookKeeping
<1> QED BY <1>5, <1>6, <1>7, <1>8, <1>9 DEF IInv

\* The server receives a report and answers it.
LEMMA AnswerKeeps ==
  ASSUME IInv, ServerAnswers
  PROVE  IInv'
<1>1. PICK t \in Tag : request = <<t>> /\ reply = <<>>
  BY DEF IInv, OneUnderWay, ServerAnswers
<1>2. request' = <<>> /\ reply' = <<t>> /\ reported' = reported \cup {t}
  BY <1>1 DEF ServerAnswers
<1>3. TypeOK'
  BY <1>2 DEF IInv, TypeOK, ServerAnswers, sensorVars
<1>4. OneUnderWay' /\ (ToSet(request) \cap reported = {})'
  BY <1>2, SmallSets DEF OneUnderWay
<1>5. PhasesAgree'
  BY <1>1, <1>2 DEF IInv, PhasesAgree, ServerAnswers, sensorVars
<1>6. BookKeeping'
  BY <1>1, <1>2, SmallSets
     DEF IInv, BookKeeping, Broken, Buffered, ServerAnswers, sensorVars
<1> QED BY <1>3, <1>4, <1>5, <1>6 DEF IInv

\* The answer for a tag arrives.
LEMMA DataKeeps ==
  ASSUME IInv, socketDataArrived
  PROVE  IInv'
<1>1. PICK t \in Tag : request = <<>> /\ reply = <<t>>
  BY DEF IInv, OneUnderWay, socketDataArrived
<1>2. /\ reply' = <<>> /\ m_history' = m_history \cup {t}
      /\ reported' = reported
      /\ socket = "CONNECTED" /\ isAnSession /\ ~Broken
  BY <1>1 DEF IInv, PhasesAgree, Broken, socketDataArrived
<1> DEFINE rest == Answered(t)
<1>3. rest \in Seq(Tag) /\ IsInjective(rest) /\ ToSet(rest) = Buffered \ {t}
  <2>1. m_buffer \in Seq(Tag) /\ IsInjective(m_buffer)
        /\ Buffered \cap m_history = {}
    BY DEF IInv, TypeOK, BookKeeping
  <2> QED BY <2>1, RemovedOnce DEF Answered, Buffered
<1>4. IF numRequestsToSend > 0 THEN sendRequest(rest) /\ UNCHANGED socket
      ELSE /\ m_buffer' = rest
           /\ socket' = "LOCALLY_CLOSED"
           /\ UNCHANGED request
  BY <1>1 DEF socketDataArrived
<1> HIDE DEF rest
<1>5. /\ m_buffer' \in Seq(Tag) /\ IsInjective(m_buffer')
      /\ Buffered' \subseteq Buffered \ {t}
      /\ \/ request' = <<>>
         \/ /\ socket' = "CONNECTED"
            /\ \E u \in Buffered \ {t} : u \in Tag /\ request' = <<u>>
      /\ socket' \in {"CONNECTED", "LOCALLY_CLOSED"}
  <2>1. CASE numRequestsToSend > 0
    BY <1>1, <1>2, <1>3, <1>4, <2>1, SendingKeeps
  <2>2. CASE ~(numRequestsToSend > 0)
    BY <1>1, <1>3, <1>4, <2>2 DEF Buffered
  <2> QED BY <2>1, <2>2
<1>6. request' \in Seq(Tag)
  BY <1>5, SmallSeqs
<1>7. TypeOK'
  BY <1>2, <1>5, <1>6 DEF IInv, TypeOK, socketDataArrived
<1>8. OneUnderWay'
  BY <1>2, <1>5 DEF OneUnderWay
<1>9. PhasesAgree'
  BY <1>2, <1>5 DEF IInv, PhasesAgree, socketDataArrived
<1>10. reported \subseteq m_history \cup {t} /\ t \in reported'
  <2>1. ToSet(reply) = {t}
    BY <1>1, SmallSets
  <2>2. /\ ToSet(reply) \subseteq reported
        /\ reported \subseteq m_history \cup ToSet(reply)
    BY <1>2 DEF IInv, BookKeeping
  <2> QED BY <1>2, <2>1, <2>2
<1>11. BookKeeping'
  <2>1. ToSet(reply') = {}
    BY <1>2, SmallSets
  <2>2. Buffered' \cap m_history' = {}
    BY <1>2, <1>5 DEF IInv, BookKeeping
  <2>3. m_history \subseteq reported
    BY DEF IInv, BookKeeping
  <2>4. m_history' \cup ToSet(reply') \subseteq reported'
    BY <1>2, <1>10, <2>1, <2>3
  <2>5. reported' \subseteq m_history' \cup ToSet(reply')
    BY <1>2, <1>10
  <2> QED BY <1>5, <2>2, <2>4, <2>5 DEF BookKeeping
<1>12. (ToSet(request) \cap reported = {})'
  <2>1. ToSet(request') \subseteq Buffered \ {t}
    BY <1>5, SmallSets
  <2> QED BY <1>2, <1>10, <2>1 DEF IInv, BookKeeping
<1> QED BY <1>7, <1>8, <1>9, <1>11, <1>12 DEF IInv

\* The connection is closed.
LEMMA ClosedKeeps ==
  ASSUME IInv, socketClosed
  PROVE  IInv'
<1>1. TypeOK' /\ OneUnderWay' /\ PhasesAgree'
  BY DEF IInv, TypeOK, OneUnderWay, PhasesAgree, socketClosed, connectionVars
<1>2. BookKeeping' /\ (ToSet(request) \cap reported = {})'
  BY DEF IInv, BookKeeping, Broken, Buffered, socketClosed, connectionVars
<1> QED BY <1>1, <1>2 DEF IInv

\* The connection fails.
LEMMA FailureKeeps ==
  ASSUME IInv, socketFailure
  PROVE  IInv'
<1>1. TypeOK'
  BY MaxFailuresAssumption
     DEF IInv, TypeOK, socketFailure, rescheduleTimer
<1>2. OneUnderWay' /\ (ToSet(request) \cap reported = {})'
  BY SmallSets DEF OneUnderWay, socketFailure
<1>3. PhasesAgree'
  BY DEF IInv, PhasesAgree, socketFailure, rescheduleTimer
<1>4. BookKeeping'
  BY SmallSets
     DEF IInv, TypeOK, PhasesAgree, BookKeeping, Broken, Buffered,
         socketFailure
<1> QED BY <1>1, <1>2, <1>3, <1>4 DEF IInv

\* Every step keeps the invariant.
LEMMA NextInv == IInv /\ [Next]_vars => IInv'
<1> SUFFICES ASSUME IInv, [Next]_vars PROVE IInv'
  OBVIOUS
<1>1. CASE \E t \in Tag : pushBuffer(t)
  BY <1>1, PushKeeps
<1>2. CASE connect
  BY <1>2, ConnectKeeps
<1>3. CASE socketEstablished
  BY <1>3, EstablishedKeeps
<1>4. CASE ServerAnswers
  BY <1>4, AnswerKeeps
<1>5. CASE socketDataArrived
  BY <1>5, DataKeeps
<1>6. CASE socketClosed
  BY <1>6, ClosedKeeps
<1>7. CASE socketFailure
  BY <1>7, FailureKeeps
<1>8. CASE UNCHANGED vars
  BY <1>8 DEF vars, sensorVars, connectionVars, IInv, TypeOK, OneUnderWay,
              PhasesAgree, BookKeeping, Broken, Buffered
<1> QED BY <1>1, <1>2, <1>3, <1>4, <1>5, <1>6, <1>7, <1>8 DEF Next

-----------------------------------------------------------------------------
\* The invariant of a sensor holds for any tags and failures.
THEOREM Invariance == Spec => []IInv
BY InitInv, NextInv, PTL DEF Spec

\* The sensor's state is of its type; above all popBuffer's -1 for an empty
\* buffer is never sent as a tag.
THEOREM TypeCorrect == Spec => []TypeOK
<1>1. IInv => TypeOK
  BY DEF IInv
<1> QED BY Invariance, <1>1, PTL

\* A tag is reported to the server once.
THEOREM Once == Spec => []ReportedOnce
<1>1. IInv => ReportedOnce
  <2> SUFFICES ASSUME IInv PROVE IsInjective(request)
    BY DEF IInv, ReportedOnce
  <2>1. request = <<>> \/ \E t \in Tag : request = <<t>>
    BY DEF IInv, OneUnderWay
  <2> QED BY <2>1 DEF IsInjective
<1> QED BY Invariance, <1>1, PTL

\* The timer is never pending while the socket is in use.
THEOREM ConnectsSafely == Spec => []ConnectsOnlyWhenClosed
<1>1. IInv => ConnectsOnlyWhenClosed
  BY DEF IInv, PhasesAgree, ConnectsOnlyWhenClosed
<1> QED BY Invariance, <1>1, PTL

\* From a state of the invariant a step forgets no tag but by the failure of
\* a connection.
LEMMA StepForgetsNone ==
  ASSUME IInv, [Next]_vars, failures' = 0
  PROVE  Known \subseteq Known'
<1>1. CASE \E t \in Tag : pushBuffer(t)
  <2>1. PICK t \in Tag : pushBuffer(t)
    BY <1>1
  <2>2. Buffered' = Buffered \cup {t}
    BY <2>1, AppendNew DEF IInv, TypeOK, BookKeeping, pushBuffer, Buffered
  <2> QED BY <2>1, <2>2 DEF Known, pushBuffer, connectionVars
<1>2. CASE connect \/ socketClosed \/ UNCHANGED vars
  BY <1>2 DEF connect, socketClosed, vars, sensorVars, connectionVars, Known,
              Buffered
<1>3. CASE socketEstablished
  <2>1. /\ request = <<>> /\ m_buffer \in Seq(Tag) /\ IsInjective(m_buffer)
        /\ sendRequest(m_buffer)
    BY <1>3 DEF IInv, TypeOK, PhasesAgree, BookKeeping, socketEstablished
  <2>2. Buffered \subseteq Buffered' \cup ToSet(request')
    BY <2>1, SendingKeeps DEF Buffered
  <2>3. ToSet(request) = {}
    BY <2>1, SmallSets
  <2> QED BY <1>3, <2>2, <2>3 DEF Known, socketEstablished
<1>4. CASE ServerAnswers
  <2>1. PICK t \in Tag : request = <<t>> /\ reply = <<>>
    BY <1>4 DEF IInv, OneUnderWay, ServerAnswers
  <2>2. request' = <<>> /\ reply' = <<t>>
    BY <1>4, <2>1 DEF ServerAnswers
  <2>3. /\ ToSet(request) = {t} /\ ToSet(reply) = {}
        /\ ToSet(reply') = {t}
    BY <2>1, <2>2, SmallSets
  <2>4. Buffered' = Buffered /\ m_history' = m_history
    BY <1>4 DEF ServerAnswers, sensorVars, Buffered
  <2> QED BY <2>3, <2>4 DEF Known
<1>5. CASE socketDataArrived
  <2>1. PICK t \in Tag : request = <<>> /\ reply = <<t>>
    BY <1>5 DEF IInv, OneUnderWay, socketDataArrived
  <2>2. m_history' = m_history \cup {t}
    BY <1>5, <2>1 DEF socketDataArrived
  <2> DEFINE rest == Answered(t)
  <2>3. rest \in Seq(Tag) /\ IsInjective(rest) /\ ToSet(rest) = Buffered \ {t}
    <3>1. m_buffer \in Seq(Tag) /\ IsInjective(m_buffer)
          /\ Buffered \cap m_history = {}
      BY DEF IInv, TypeOK, BookKeeping
    <3> QED BY <3>1, RemovedOnce DEF Answered, Buffered
  <2>4. sendRequest(rest) \/ (m_buffer' = rest /\ request' = request)
    BY <1>5, <2>1 DEF socketDataArrived
  <2> HIDE DEF rest
  <2>5. Buffered \ {t} \subseteq Buffered' \cup ToSet(request')
    <3>1. CASE sendRequest(rest)
      BY <2>1, <2>3, <3>1, SendingKeeps
    <3>2. CASE m_buffer' = rest /\ request' = request
      BY <2>3, <3>2 DEF Buffered
    <3> QED BY <2>4, <3>1, <3>2
  <2>6. ToSet(request) = {} /\ ToSet(reply) = {t}
    BY <2>1, SmallSets
  <2> QED BY <2>2, <2>5, <2>6 DEF Known
<1>6. ~socketFailure
  BY DEF IInv, TypeOK, socketFailure
<1> QED BY <1>1, <1>2, <1>3, <1>4, <1>5, <1>6 DEF Next

\* No tag that was read is forgotten as long as no connection fails.
THEOREM NoneForgotten == Spec => NoTagForgotten
<1>1. IInv /\ [Next]_vars => [failures' = 0 => Known \subseteq Known']_vars
  BY StepForgetsNone
<1>2. Spec => [][failures' = 0 => Known \subseteq Known']_vars
  BY Invariance, <1>1, PTL DEF Spec
<1> QED BY <1>2 DEF NoTagForgotten
=============================================================================
