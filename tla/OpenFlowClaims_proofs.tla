----------------------- MODULE OpenFlowClaims_proofs ------------------------
(***************************************************************************)
(* What the switches and the controller say to each other and what becomes *)
(* of it, for any topology, any number of switches, frames and messages:   *)
(* every buffered frame is answered for exactly once, every flow entry has *)
(* its timer, every decision follows what was learned, only a start that   *)
(* comes too late ends the simulation, and no host gets a frame twice.     *)
(***************************************************************************)
EXTENDS OpenFlowNetwork_proofs
-----------------------------------------------------------------------------
(* Counting in sequences.                                                  *)

\* How often a sequence has an element of T, and the elements it has.
Occ(q, T) == Cardinality({i \in DOMAIN q : q[i] \in T})

Elems(q) == {q[i] : i \in DOMAIN q}

Weight(P) == IF P THEN 1 ELSE 0

\* r is q with one more element, at place k.
Grown(q, r, k) ==
  /\ Len(r) = Len(q) + 1
  /\ k \in 1..Len(r)
  /\ \A i \in 1..Len(q) : q[i] = r[IF i < k THEN i ELSE i + 1]

\* An element that belongs to T is counted once, whatever its place.
LEMMA OccGrown ==
  ASSUME NEW S, NEW T, NEW q \in Seq(S), NEW r \in Seq(S), NEW k, Grown(q, r, k)
  PROVE  /\ Occ(q, T) \in Nat
         /\ Occ(r, T) = Occ(q, T) + Weight(r[k] \in T)
<1> DEFINE A == {i \in DOMAIN q : q[i] \in T}
           B == {i \in DOMAIN r : r[i] \in T}
           C == B \ {k}
           g == [i \in A |-> IF i < k THEN i ELSE i + 1]
<1>1. /\ Len(q) \in Nat /\ Len(r) \in Nat
      /\ Len(r) = Len(q) + 1 /\ k \in 1..Len(r)
      /\ DOMAIN q = 1..Len(q) /\ DOMAIN r = 1..Len(r)
      /\ \A i \in 1..Len(q) : q[i] = r[IF i < k THEN i ELSE i + 1]
  BY LenProperties DEF Grown
<1>2. IsFiniteSet(A) /\ IsFiniteSet(B)
  <2>1. IsFiniteSet(1..Len(q)) /\ IsFiniteSet(1..Len(r))
    BY <1>1, FS_Interval
  <2>2. A \in SUBSET (1..Len(q)) /\ B \in SUBSET (1..Len(r))
    BY <1>1
  <2> HIDE DEF A, B
  <2> QED BY <2>1, <2>2, FS_Subset
<1>3. ASSUME NEW i \in A PROVE g[i] \in C
  <2>1. i \in 1..Len(q) /\ q[i] \in T
    BY <1>1
  <2>2. g[i] = (IF i < k THEN i ELSE i + 1) /\ q[i] = r[g[i]]
    BY <1>1, <2>1
  <2>3. g[i] \in 1..Len(r) /\ g[i] # k
    BY <1>1, <2>1, <2>2
  <2> HIDE DEF g
  <2> QED BY <1>1, <2>1, <2>2, <2>3
<1>4. ASSUME NEW j \in C PROVE \E i \in A : g[i] = j
  <2>1. j \in 1..Len(r) /\ j # k /\ r[j] \in T
    BY <1>1
  <2> DEFINE i == IF j < k THEN j ELSE j - 1
  <2>2. i \in 1..Len(q) /\ (IF i < k THEN i ELSE i + 1) = j
    BY <1>1, <2>1
  <2>3. q[i] = r[j]
    <3> HIDE DEF i
    <3> QED BY <1>1, <2>2
  <2>4. i \in A
    BY <1>1, <2>1, <2>2, <2>3
  <2>5. g[i] = j
    BY <2>2, <2>4
  <2> QED BY <2>4, <2>5
<1>5. \A i, j \in A : g[i] = g[j] => i = j
  BY <1>1
<1>6. g \in Bijection(A, C)
  <2>1. g \in [A -> C]
    BY <1>3
  <2> HIDE DEF g, A, C
  <2> QED BY <1>4, <1>5, <2>1 DEF Bijection, Injection, Surjection, IsInjective
<1>7. Cardinality(C) = Cardinality(A) /\ Cardinality(A) \in Nat
  <2> HIDE DEF A, C
  <2> QED BY <1>2, <1>6, FS_Bijection, FS_CardinalityType DEF ExistsBijection
<1>8. /\ Cardinality(C) = IF k \in B THEN Cardinality(B) - 1 ELSE Cardinality(B)
      /\ Cardinality(B) \in Nat
  <2> HIDE DEF B
  <2> QED BY <1>2, FS_RemoveElement, FS_CardinalityType
<1>9. k \in B <=> r[k] \in T
  BY <1>1
<1> HIDE DEF A, B, C
<1>10. Cardinality(B) = Cardinality(A) + Weight(r[k] \in T)
  BY <1>7, <1>8, <1>9 DEF Weight
<1> QED BY <1>7, <1>10 DEF Occ, A, B

\* One more message at the end of a sequence.
LEMMA OccAppended ==
  ASSUME NEW S, NEW T, NEW q \in Seq(S), NEW m \in S
  PROVE  /\ Append(q, m) \in Seq(S)
         /\ Occ(q, T) \in Nat
         /\ Occ(Append(q, m), T) = Occ(q, T) + Weight(m \in T)
<1> DEFINE r == Append(q, m)
<1>1. /\ r \in Seq(S) /\ Len(q) \in Nat /\ Len(r) = Len(q) + 1
      /\ \A i \in 1..Len(q) : q[i] = r[i]
      /\ r[Len(r)] = m
  BY AppendProperties, LenProperties
<1> HIDE DEF r
<1>2. PICK k \in 1..Len(r) : k = Len(r)
  BY <1>1
<1>3. Grown(q, r, k)
  BY <1>1, <1>2 DEF Grown
<1>4. Occ(q, T) \in Nat /\ Occ(r, T) = Occ(q, T) + Weight(r[k] \in T)
  BY <1>1, <1>3, OccGrown
<1>5. Occ(r, T) = Occ(q, T) + Weight(m \in T)
  BY <1>1, <1>2, <1>4, Zenon
<1> QED BY <1>1, <1>4, <1>5 DEF r

\* The first message leaves a sequence.
LEMMA OccTail ==
  ASSUME NEW S, NEW T, NEW q \in Seq(S), q # <<>>
  PROVE  /\ Tail(q) \in Seq(S) /\ Head(q) \in S
         /\ Occ(Tail(q), T) \in Nat
         /\ Occ(q, T) = Occ(Tail(q), T) + Weight(Head(q) \in T)
<1> DEFINE t == Tail(q)
<1>1. /\ Head(q) \in S /\ t \in Seq(S) /\ Len(t) = Len(q) - 1
      /\ \A i \in 1..Len(t) : t[i] = q[i + 1]
      /\ Head(q) = q[1]
  BY HeadTailProperties
<1>2. Len(q) \in Nat \ {0}
  BY EmptySeq
<1> HIDE DEF t
<1>3. 1 \in 1..Len(q) /\ Len(q) = Len(t) + 1
  BY <1>1, <1>2
<1>4. Grown(t, q, 1)
  BY <1>1, <1>3 DEF Grown
<1>5. Occ(t, T) \in Nat /\ Occ(q, T) = Occ(t, T) + Weight(q[1] \in T)
  BY <1>1, <1>4, OccGrown
<1>6. Occ(q, T) = Occ(t, T) + Weight(Head(q) \in T)
  BY <1>1, <1>5, Zenon
<1> QED BY <1>1, <1>5, <1>6 DEF t

\* What is counted is there, and nothing is counted in an empty sequence.
LEMMA OccPositive ==
  ASSUME NEW S, NEW T, NEW q \in Seq(S)
  PROVE  /\ Occ(q, T) \in Nat
         /\ Occ(q, T) # 0 <=> \E i \in DOMAIN q : q[i] \in T
<1> DEFINE A == {i \in DOMAIN q : q[i] \in T}
<1>1. IsFiniteSet(A)
  <2>1. IsFiniteSet(DOMAIN q)
    BY LenProperties, FS_Interval
  <2>2. A \in SUBSET DOMAIN q
    OBVIOUS
  <2> HIDE DEF A
  <2> QED BY <2>1, <2>2, FS_Subset
<1>2. Cardinality(A) \in Nat /\ (Cardinality(A) = 0 <=> A = {})
  <2> HIDE DEF A
  <2> QED BY <1>1, FS_EmptySet, FS_CardinalityType
<1>3. A = {} <=> ~ \E i \in DOMAIN q : q[i] \in T
  OBVIOUS
<1> HIDE DEF A
<1> QED BY <1>2, <1>3 DEF Occ, A

\* The elements of a sequence one was appended to.
LEMMA ElemsAppended ==
  ASSUME NEW S, NEW q \in Seq(S), NEW m \in S
  PROVE  Elems(Append(q, m)) = Elems(q) \cup {m}
<1> DEFINE r == Append(q, m)
<1>1. /\ r \in Seq(S) /\ Len(q) \in Nat /\ Len(r) = Len(q) + 1
      /\ \A i \in 1..Len(q) : r[i] = q[i]
      /\ r[Len(q) + 1] = m
  BY AppendProperties, LenProperties
<1>2. DOMAIN q = 1..Len(q) /\ DOMAIN r = 1..(Len(q) + 1)
  BY <1>1, LenProperties
<1> HIDE DEF r
<1>3. ASSUME NEW i \in DOMAIN r PROVE r[i] \in Elems(q) \cup {m}
  <2>1. CASE i = Len(q) + 1
    BY <1>1, <2>1
  <2>2. CASE i # Len(q) + 1
    <3>1. i \in 1..Len(q)
      BY <1>1, <1>2, <2>2
    <3> QED BY <1>1, <1>2, <3>1 DEF Elems
  <2> QED BY <2>1, <2>2
<1>4. ASSUME NEW i \in DOMAIN q PROVE q[i] \in Elems(r)
  <2>1. i \in DOMAIN r /\ r[i] = q[i]
    BY <1>1, <1>2
  <2> QED BY <2>1 DEF Elems
<1>5. m \in Elems(r)
  <2>1. Len(q) + 1 \in DOMAIN r
    BY <1>1, <1>2
  <2> QED BY <1>1, <2>1 DEF Elems
<1>6. Elems(r) \subseteq Elems(q) \cup {m}
  BY <1>3 DEF Elems
<1>7. Elems(q) \subseteq Elems(r)
  BY <1>4 DEF Elems
<1> QED BY <1>5, <1>6, <1>7 DEF r

\* The elements of a sequence whose first has left it.
LEMMA ElemsTail ==
  ASSUME NEW S, NEW q \in Seq(S), q # <<>>
  PROVE  /\ Head(q) \in S /\ Tail(q) \in Seq(S)
         /\ Elems(q) = Elems(Tail(q)) \cup {Head(q)}
<1> DEFINE t == Tail(q)
<1>1. /\ Head(q) \in S /\ t \in Seq(S) /\ Len(t) = Len(q) - 1
      /\ \A i \in 1..Len(t) : t[i] = q[i + 1]
      /\ Head(q) = q[1]
  BY HeadTailProperties
<1>2. Len(q) \in Nat \ {0} /\ DOMAIN q = 1..Len(q) /\ DOMAIN t = 1..(Len(q) - 1)
  BY <1>1, EmptySeq, LenProperties
<1> HIDE DEF t
<1>3. ASSUME NEW i \in DOMAIN q PROVE q[i] \in Elems(t) \cup {Head(q)}
  <2>1. CASE i = 1
    BY <1>1, <2>1
  <2>2. CASE i # 1
    <3>1. i - 1 \in DOMAIN t /\ t[i - 1] = q[i]
      BY <1>1, <1>2, <2>2
    <3> QED BY <3>1 DEF Elems
  <2> QED BY <2>1, <2>2
<1>4. ASSUME NEW i \in DOMAIN t PROVE t[i] \in Elems(q)
  <2>1. i + 1 \in DOMAIN q /\ t[i] = q[i + 1]
    BY <1>1, <1>2
  <2> QED BY <2>1 DEF Elems
<1>5. Head(q) \in Elems(q)
  BY <1>1, <1>2 DEF Elems
<1>6. Elems(q) \subseteq Elems(t) \cup {Head(q)}
  BY <1>3 DEF Elems
<1>7. Elems(t) \subseteq Elems(q)
  BY <1>4 DEF Elems
<1> QED BY <1>1, <1>5, <1>6, <1>7 DEF t

\* What a reply of at most two messages adds to a connection.
LEMMA Lengthened ==
  ASSUME NEW S, NEW q \in Seq(S), NEW a \in S, NEW b \in S
  PROVE  /\ q \o <<>> = q
         /\ q \o <<a>> = Append(q, a)
         /\ q \o <<a, b>> = Append(Append(q, a), b)
<1>1. <<a>> \in Seq(S) /\ <<b>> \in Seq(S) /\ Append(q, a) \in Seq(S)
  OBVIOUS
<1>2. q \o <<>> = q
  BY ConcatEmptySeq
<1>3. /\ q \o <<a>> = Append(q, a)
      /\ Append(q, a) \o <<b>> = Append(Append(q, a), b)
  <2>1. \A s \in Seq(S) : \A e \in S : Append(s, e) = s \o <<e>>
    BY AppendIsConcat
  <2> QED BY <1>1, <2>1, Zenon
<1>4. <<a>> \o <<b>> = <<a, b>>
  <2>1. Append(<<a>>, b) = <<a>> \o <<b>>
    BY <1>1, AppendIsConcat
  <2> DEFINE s == Append(<<a>>, b)
             t == <<a, b>>
  <2>2. s \in Seq(S) /\ Len(s) = 2 /\ s[1] = a /\ s[2] = b
    BY <1>1, AppendProperties
  <2>3. t \in Seq(S) /\ Len(t) = 2 /\ t[1] = a /\ t[2] = b
    OBVIOUS
  <2> HIDE DEF s, t
  <2>4. s = t
    BY <2>2, <2>3, SeqEqual
  <2> QED BY <2>1, <2>4 DEF s, t
<1>5. (q \o <<a>>) \o <<b>> = q \o (<<a>> \o <<b>>)
  BY <1>1, ConcatAssociative
<1> QED BY <1>2, <1>3, <1>4, <1>5

\* Its elements are those of q and the new one.
LEMMA GrownElems ==
  ASSUME NEW S, NEW q \in Seq(S), NEW r \in Seq(S), NEW k, Grown(q, r, k)
  PROVE  Elems(r) = Elems(q) \cup {r[k]}
<1>1. /\ Len(q) \in Nat /\ Len(r) = Len(q) + 1 /\ k \in 1..(Len(q) + 1)
      /\ DOMAIN q = 1..Len(q) /\ DOMAIN r = 1..(Len(q) + 1)
      /\ \A i \in 1..Len(q) : q[i] = r[IF i < k THEN i ELSE i + 1]
  BY LenProperties DEF Grown
<1>2. ASSUME NEW i \in DOMAIN q PROVE q[i] \in Elems(r)
  <2>1. (IF i < k THEN i ELSE i + 1) \in DOMAIN r
    BY <1>1
  <2> QED BY <1>1, <2>1 DEF Elems
<1>3. ASSUME NEW j \in DOMAIN r, j # k PROVE r[j] \in Elems(q)
  <2> DEFINE i == IF j < k THEN j ELSE j - 1
  <2>1. i \in 1..Len(q) /\ (IF i < k THEN i ELSE i + 1) = j
    BY <1>1, <1>3
  <2> HIDE DEF i
  <2>2. q[i] = r[j]
    BY <1>1, <2>1
  <2> QED BY <1>1, <2>1, <2>2 DEF Elems
<1>4. r[k] \in Elems(r)
  BY <1>1 DEF Elems
<1> QED BY <1>2, <1>3, <1>4 DEF Elems

\* The elements of a sequence that another one was appended to.
LEMMA ElemsConcat ==
  ASSUME NEW S, NEW q \in Seq(S), NEW r \in Seq(S)
  PROVE  Elems(q \o r) = Elems(q) \cup Elems(r)
<1> DEFINE u == q \o r
<1>1. /\ u \in Seq(S) /\ Len(u) = Len(q) + Len(r)
      /\ \A i \in 1..(Len(q) + Len(r)) :
           u[i] = IF i <= Len(q) THEN q[i] ELSE r[i - Len(q)]
  BY ConcatProperties
<1>2. /\ Len(q) \in Nat /\ Len(r) \in Nat
      /\ DOMAIN q = 1..Len(q) /\ DOMAIN r = 1..Len(r)
      /\ DOMAIN u = 1..(Len(q) + Len(r))
  BY <1>1, LenProperties
<1> HIDE DEF u
<1>3. ASSUME NEW i \in DOMAIN u PROVE u[i] \in Elems(q) \cup Elems(r)
  <2>1. CASE i <= Len(q)
    <3>1. i \in DOMAIN q /\ u[i] = q[i]
      BY <1>1, <1>2, <2>1
    <3> QED BY <3>1 DEF Elems
  <2>2. CASE ~(i <= Len(q))
    <3>1. i - Len(q) \in DOMAIN r /\ u[i] = r[i - Len(q)]
      BY <1>1, <1>2, <2>2
    <3> QED BY <3>1 DEF Elems
  <2> QED BY <2>1, <2>2
<1>4. ASSUME NEW i \in DOMAIN q PROVE q[i] \in Elems(u)
  <2>1. i \in DOMAIN u /\ u[i] = q[i]
    BY <1>1, <1>2
  <2> QED BY <2>1 DEF Elems
<1>5. ASSUME NEW i \in DOMAIN r PROVE r[i] \in Elems(u)
  <2>1. Len(q) + i \in DOMAIN u /\ u[Len(q) + i] = r[i]
    BY <1>1, <1>2
  <2> QED BY <2>1 DEF Elems
<1>6. Elems(u) \subseteq Elems(q) \cup Elems(r)
  BY <1>3 DEF Elems
<1>7. Elems(q) \subseteq Elems(u) /\ Elems(r) \subseteq Elems(u)
  BY <1>4, <1>5 DEF Elems
<1> QED BY <1>6, <1>7 DEF u

\* The elements of the short sequences that the controller sends.
LEMMA ElemsShort ==
  /\ Elems(<<>>) = {}
  /\ \A a : Elems(<<a>>) = {a}
  /\ \A a, b : Elems(<<a, b>>) = {a, b}
<1>1. Elems(<<>>) = {}
  BY DEF Elems
<1>2. ASSUME NEW a PROVE Elems(<<a>>) = {a}
  <2>1. DOMAIN <<a>> = {1} /\ <<a>>[1] = a
    OBVIOUS
  <2> QED BY <2>1 DEF Elems
<1>3. ASSUME NEW a, NEW b PROVE Elems(<<a, b>>) = {a, b}
  <2>1. DOMAIN <<a, b>> = {1, 2} /\ <<a, b>>[1] = a /\ <<a, b>>[2] = b
    OBVIOUS
  <2> QED BY <2>1 DEF Elems
<1> QED BY <1>1, <1>2, <1>3
-----------------------------------------------------------------------------
(* Claims.                                                                 *)

\* The messages that claim the frame with an id: packet-ins on their way to the
\* controller, packet-ins in its queue, packet-outs on their way back.
UpClaim(id) == {m \in UpMessage : m.type = "PACKET_IN" /\ m.buffer_id = id}

QueuedClaim(s, id) == {x \in Item : x.from = s /\ x.msg \in UpClaim(id)}

DownClaim(id) == {m \in DownMessage : m.type = "PACKET_OUT" /\ m.buffer_id = id}

\* The claims to the frame with an id in the buffer of s.
Claims(s, id) ==
  Occ(toController[s], UpClaim(id)) + Occ(Contents(ctrl), QueuedClaim(s, id))
    + Occ(toSwitch[s], DownClaim(id))

\* The messages of s that have no answer yet, by what they are.
Waiting(s) ==
  {m \in UpMessage : \/ m \in Elems(toController[s])
                     \/ [from |-> s, msg |-> m] \in Elems(Contents(ctrl))}

\* The ids in use have been given out.
IdsBelow ==
  \A s \in Switch : \A id \in DOMAIN buffer[s].pending_msgs :
    id < buffer[s].next_buffer_id

\* Each frame in a buffer has one claim, and each free id none.
ClaimedOnce ==
  \A s \in Switch, id \in BufferId :
    Claims(s, id) = Weight(id \in DOMAIN buffer[s].pending_msgs)

\* The packet-in m repeats the header of the frame that buffer b has under its id.
Describes(m, b) ==
  /\ m.buffer_id \in DOMAIN b.pending_msgs
  /\ m = PacketInHeader(m.buffer_id, b.pending_msgs[m.buffer_id])

\* Every packet-in does that until it is answered: the frame stays where it is.
Described ==
  \A s \in Switch : \A m \in Waiting(s) :
    m.type = "PACKET_IN" => Describes(m, buffer[s])

\* The inductive invariant for the buffered frames, together with Inv.  A new id
\* is free only because the ids in use are below the counter (IdsBelow), and the
\* answer to a packet-in is a claim only because the packet-in was one
\* (ClaimedOnce counts them all).
ClaimInv == IdsBelow /\ ClaimedOnce /\ Described

\* No switch has used up its buffer ids, of which the code has 2^32: behind the
\* last one storeMessage starts again with ids that may be in use, and the run
\* buffer_wrap shows what is lost then.  Theorems that need distinct ids assume
\* this of the behaviour.
IdsLeft == \A s \in Switch : buffer[s].next_buffer_id < NoBuffer

\* The types that counting needs.
LEMMA ChannelTypes ==
  ASSUME Inv
  PROVE  /\ toController \in [Switch -> Seq(UpMessage)]
         /\ toSwitch \in [Switch -> Seq(DownMessage)]
         /\ ctrl \in QueueOf(Item) /\ WorkConserving(ctrl)
         /\ Contents(ctrl) \in Seq(Item)
<1>1. /\ toController \in [Switch -> Seq(UpMessage)]
      /\ toSwitch \in [Switch -> Seq(DownMessage)]
      /\ ctrl \in QueueOf(Item) /\ WorkConserving(ctrl)
  BY DEF Inv, LinksTypeOK, ControllerInv, ControllerTypeOK, Item
<1>2. ctrl.event \in Seq(Item) /\ ctrl.msg_list \in Seq(Item)
  BY <1>1, QueueFields
<1>3. Contents(ctrl) \in Seq(Item)
  BY <1>2, ConcatProperties DEF Contents
<1> QED BY <1>1, <1>3

\* The numbers that are added up are numbers.
LEMMA ClaimNumbers ==
  ASSUME Inv, NEW s \in Switch, NEW id
  PROVE  /\ Occ(toController[s], UpClaim(id)) \in Nat
         /\ Occ(Contents(ctrl), QueuedClaim(s, id)) \in Nat
         /\ Occ(toSwitch[s], DownClaim(id)) \in Nat
         /\ Claims(s, id) \in Nat
<1>1. /\ toController[s] \in Seq(UpMessage)
      /\ toSwitch[s] \in Seq(DownMessage)
      /\ Contents(ctrl) \in Seq(Item)
  BY ChannelTypes
<1>2. /\ Occ(toController[s], UpClaim(id)) \in Nat
      /\ Occ(Contents(ctrl), QueuedClaim(s, id)) \in Nat
      /\ Occ(toSwitch[s], DownClaim(id)) \in Nat
  BY <1>1, OccPositive
<1> QED BY <1>2 DEF Claims

\* A switch sends a message up.
LEMMA UpCounted ==
  ASSUME Inv, NEW s \in Switch, NEW m \in UpMessage, SendUp(s, <<m>>),
         NEW t \in Switch
  PROVE  /\ \A id : Occ(toController'[t], UpClaim(id))
                      = Occ(toController[t], UpClaim(id))
                          + Weight(t = s /\ m \in UpClaim(id))
         /\ Elems(toController'[t])
              = Elems(toController[t]) \cup (IF t = s THEN {m} ELSE {})
<1>1. toController[s] \in Seq(UpMessage) /\ toController[t] \in Seq(UpMessage)
  BY ChannelTypes
<1>2. toController[s] \o <<m>> = Append(toController[s], m)
  BY <1>1, Lengthened
<1>3. toController'[t] = IF t = s THEN Append(toController[s], m)
                         ELSE toController[t]
  BY <1>2, ChannelTypes DEF SendUp
<1>4. CASE t = s
  <2>1. toController'[t] = Append(toController[t], m)
    BY <1>3, <1>4
  <2>2. ASSUME NEW id
        PROVE  Occ(toController'[t], UpClaim(id))
                 = Occ(toController[t], UpClaim(id)) + Weight(m \in UpClaim(id))
    BY <1>1, <2>1, OccAppended
  <2>3. Elems(toController'[t]) = Elems(toController[t]) \cup {m}
    BY <1>1, <2>1, ElemsAppended
  <2> QED BY <1>4, <2>2, <2>3 DEF Weight
<1>5. CASE t # s
  <2>1. toController'[t] = toController[t]
    BY <1>3, <1>5
  <2>2. \A id : Occ(toController[t], UpClaim(id)) \in Nat
    BY ClaimNumbers
  <2> QED BY <1>5, <2>1, <2>2 DEF Weight
<1> QED BY <1>4, <1>5

\* A switch takes a message of the controller.
LEMMA DownCounted ==
  ASSUME Inv, NEW s \in Switch, toSwitch[s] # <<>>, Consume(s),
         NEW t \in Switch
  PROVE  /\ Received(s) \in DownMessage
         /\ \A id : /\ Occ(toSwitch'[t], DownClaim(id)) \in Nat
                    /\ Occ(toSwitch[t], DownClaim(id))
                         = Occ(toSwitch'[t], DownClaim(id))
                             + Weight(t = s /\ Received(s) \in DownClaim(id))
         /\ Elems(toSwitch'[t]) \subseteq Elems(toSwitch[t])
         /\ Received(s) \in Elems(toSwitch[s])
<1>1. toSwitch[s] \in Seq(DownMessage) /\ toSwitch[t] \in Seq(DownMessage)
  BY ChannelTypes
<1>2. toSwitch'[t] = IF t = s THEN Tail(toSwitch[s]) ELSE toSwitch[t]
  BY ChannelTypes DEF Consume
<1>3. Head(toSwitch[s]) \in DownMessage /\ Head(toSwitch[s]) \in Elems(toSwitch[s])
  BY <1>1, ElemsTail
<1>4. CASE t = s
  <2>1. toSwitch'[t] = Tail(toSwitch[t]) /\ toSwitch[t] # <<>>
    BY <1>2, <1>4
  <2>2. ASSUME NEW id
        PROVE  /\ Occ(toSwitch'[t], DownClaim(id)) \in Nat
               /\ Occ(toSwitch[t], DownClaim(id))
                    = Occ(toSwitch'[t], DownClaim(id))
                        + Weight(Head(toSwitch[t]) \in DownClaim(id))
    BY <1>1, <2>1, OccTail
  <2>3. Elems(toSwitch[t]) = Elems(toSwitch'[t]) \cup {Head(toSwitch[t])}
    BY <1>1, <2>1, ElemsTail
  <2> QED BY <1>3, <1>4, <2>2, <2>3 DEF Weight, Received
<1>5. CASE t # s
  <2>1. toSwitch'[t] = toSwitch[t]
    BY <1>2, <1>5
  <2>2. \A id : Occ(toSwitch[t], DownClaim(id)) \in Nat
    BY ClaimNumbers
  <2> QED BY <1>3, <1>5, <2>1, <2>2 DEF Weight, Received
<1> QED BY <1>4, <1>5

\* A message of s joins the controller's queue: it moves, with its claim.
LEMMA MovesWithClaim ==
  ASSUME Inv, NEW s \in Switch, MessageArrives(s), NEW t \in Switch
  PROVE  /\ \A id : Occ(toController'[t], UpClaim(id))
                      + Occ(Contents(ctrl'), QueuedClaim(t, id))
                      = Occ(toController[t], UpClaim(id))
                          + Occ(Contents(ctrl), QueuedClaim(t, id))
         /\ \A m \in UpMessage :
              \/ m \in Elems(toController'[t])
              \/ [from |-> t, msg |-> m] \in Elems(Contents(ctrl'))
              => \/ m \in Elems(toController[t])
                 \/ [from |-> t, msg |-> m] \in Elems(Contents(ctrl))
<1> DEFINE item == [from |-> s, msg |-> Head(toController[s])]
           up(id) == UpClaim(id)
<1>1. /\ toController[s] \in Seq(UpMessage) /\ toController[t] \in Seq(UpMessage)
      /\ ctrl \in QueueOf(Item) /\ WorkConserving(ctrl)
      /\ Contents(ctrl) \in Seq(Item)
      /\ toController[s] # <<>>
  BY ChannelTypes DEF MessageArrives
<1>2. /\ Head(toController[s]) \in UpMessage
      /\ Tail(toController[s]) \in Seq(UpMessage)
      /\ Elems(toController[s])
           = Elems(Tail(toController[s])) \cup {Head(toController[s])}
  BY <1>1, ElemsTail
<1>3. item \in Item
  BY <1>2 DEF Item
<1>4. Contents(ctrl') = Append(Contents(ctrl), item)
  <2>1. ctrl' = Arrive(ctrl, item)
    BY DEF MessageArrives
  <2> HIDE DEF item
  <2> QED BY <1>1, <1>3, <2>1, ArriveIsLast
<1>5. toController'[t] = IF t = s THEN Tail(toController[s]) ELSE toController[t]
  BY ChannelTypes DEF MessageArrives
<1>6. ASSUME NEW id
      PROVE  Occ(toController'[t], UpClaim(id))
               + Occ(Contents(ctrl'), QueuedClaim(t, id))
               = Occ(toController[t], UpClaim(id))
                   + Occ(Contents(ctrl), QueuedClaim(t, id))
  <2>1. /\ Occ(Contents(ctrl), QueuedClaim(t, id)) \in Nat
        /\ Occ(Contents(ctrl'), QueuedClaim(t, id))
             = Occ(Contents(ctrl), QueuedClaim(t, id))
                 + Weight(item \in QueuedClaim(t, id))
    <3> HIDE DEF item
    <3> QED BY <1>1, <1>3, <1>4, OccAppended
  <2>2. item \in QueuedClaim(t, id) <=> t = s /\ Head(toController[s]) \in UpClaim(id)
    BY <1>3 DEF QueuedClaim
  <2> HIDE DEF item
  <2>3. CASE t = s
    <3>1. /\ Occ(Tail(toController[s]), UpClaim(id)) \in Nat
          /\ Occ(toController[s], UpClaim(id))
               = Occ(Tail(toController[s]), UpClaim(id))
                   + Weight(Head(toController[s]) \in UpClaim(id))
      BY <1>1, OccTail
    <3> QED BY <1>5, <2>1, <2>2, <2>3, <3>1 DEF Weight
  <2>4. CASE t # s
    <3>1. Occ(toController[t], UpClaim(id)) \in Nat
      BY ClaimNumbers
    <3> QED BY <1>5, <2>1, <2>2, <2>4, <3>1 DEF Weight
  <2> QED BY <2>3, <2>4
<1>7. ASSUME NEW m \in UpMessage,
             \/ m \in Elems(toController'[t])
             \/ [from |-> t, msg |-> m] \in Elems(Contents(ctrl'))
      PROVE  \/ m \in Elems(toController[t])
             \/ [from |-> t, msg |-> m] \in Elems(Contents(ctrl))
  <2>1. Elems(Contents(ctrl')) = Elems(Contents(ctrl)) \cup {item}
    <3> HIDE DEF item
    <3> QED BY <1>1, <1>3, <1>4, ElemsAppended
  <2>2. Elems(toController'[t]) \subseteq Elems(toController[t])
    BY <1>2, <1>5
  <2>3. [from |-> t, msg |-> m] = item => t = s /\ m = Head(toController[s])
    OBVIOUS
  <2> HIDE DEF item
  <2> QED BY <1>2, <1>7, <2>1, <2>2, <2>3
<1> QED BY <1>6, <1>7

\* The message in service still waits for its answer.
LEMMA ServedWaits ==
  ASSUME Inv, NEW types, Processes(types)
  PROVE  /\ From \in Switch /\ Message \in UpMessage /\ Message.type \in types
         /\ Message \in Waiting(From)
<1> DEFINE q == Contents(ctrl)
<1>1. /\ ctrl \in QueueOf(Item) /\ WorkConserving(ctrl) /\ q \in Seq(Item)
      /\ ctrl.event # <<>>
  BY ChannelTypes DEF Processes
<1>2. Head(ctrl.event) \in Item /\ Head(ctrl.event) = Head(q)
  BY <1>1, FinishIsFirst
<1>3. q # <<>>
  BY <1>1, ConcatEqualIffEmpty, QueueFields DEF Contents
<1> HIDE DEF q
<1>4. Head(q) \in Elems(q)
  BY <1>1, <1>3, ElemsTail
<1>5. /\ From \in Switch /\ Message \in UpMessage /\ Message.type \in types
      /\ Head(q) = [from |-> From, msg |-> Message]
  BY <1>2 DEF Item, From, Message, Processes
<1> QED BY <1>4, <1>5 DEF Waiting, q

\* The messages of the controller while its service ends: the one processed
\* leaves, and with it its claim.
LEMMA ServedCounted ==
  ASSUME Inv, NEW types, Processes(types), ctrl' = Finish(ctrl),
         NEW t \in Switch
  PROVE  /\ \A id : /\ Occ(Contents(ctrl'), QueuedClaim(t, id)) \in Nat
                    /\ Occ(Contents(ctrl), QueuedClaim(t, id))
                         = Occ(Contents(ctrl'), QueuedClaim(t, id))
                             + Weight(t = From /\ Message \in UpClaim(id))
         /\ Elems(Contents(ctrl')) \subseteq Elems(Contents(ctrl))
<1> DEFINE q == Contents(ctrl)
<1>1. /\ ctrl \in QueueOf(Item) /\ WorkConserving(ctrl) /\ q \in Seq(Item)
      /\ ctrl.event # <<>>
  BY ChannelTypes DEF Processes
<1>2. /\ Head(ctrl.event) \in Item
      /\ Head(ctrl.event) = Head(q)
      /\ Contents(ctrl') = Tail(q)
  BY <1>1, FinishIsFirst
<1>3. q # <<>>
  BY <1>1, ConcatEqualIffEmpty, QueueFields DEF Contents
<1> HIDE DEF q
<1>4. /\ From \in Switch /\ Message \in UpMessage /\ Message.type \in types
      /\ Head(q) = [from |-> From, msg |-> Message]
  BY <1>2 DEF Item, From, Message, Processes
<1>5. Elems(q) = Elems(Tail(q)) \cup {Head(q)}
  BY <1>1, <1>3, ElemsTail
<1>6. ASSUME NEW id
      PROVE  /\ Occ(Tail(q), QueuedClaim(t, id)) \in Nat
             /\ Occ(q, QueuedClaim(t, id))
                  = Occ(Tail(q), QueuedClaim(t, id))
                      + Weight(t = From /\ Message \in UpClaim(id))
  <2>1. /\ Occ(Tail(q), QueuedClaim(t, id)) \in Nat
        /\ Occ(q, QueuedClaim(t, id))
             = Occ(Tail(q), QueuedClaim(t, id))
                 + Weight(Head(q) \in QueuedClaim(t, id))
    BY <1>1, <1>3, OccTail
  <2>2. Head(q) \in QueuedClaim(t, id) <=> t = From /\ Message \in UpClaim(id)
    BY <1>4 DEF QueuedClaim, Item
  <2> QED BY <2>1, <2>2 DEF Weight
<1> QED BY <1>2, <1>5, <1>6 DEF q
-----------------------------------------------------------------------------
(* How the claims go from one state to the next.                           *)

\* While no buffer changes it is enough that the claims stay as many and that
\* no new packet-in waits for an answer.
LEMMA ClaimsKept ==
  ASSUME ClaimInv, UNCHANGED buffer,
         \A t \in Switch : \A id \in BufferId : Claims(t, id)' = Claims(t, id),
         \A t \in Switch : \A m \in Waiting(t)' :
           m.type = "PACKET_IN" => m \in Waiting(t)
  PROVE  ClaimInv'
<1>1. IdsBelow'
  BY DEF ClaimInv, IdsBelow
<1>2. ClaimedOnce'
  <2> SUFFICES ASSUME NEW t \in Switch, NEW id \in BufferId
               PROVE  Claims(t, id)' = Weight(id \in DOMAIN buffer[t].pending_msgs)
    BY DEF ClaimedOnce
  <2>1. Claims(t, id) = Weight(id \in DOMAIN buffer[t].pending_msgs)
    BY DEF ClaimInv, ClaimedOnce
  <2>2. Claims(t, id)' = Claims(t, id)
    OBVIOUS
  <2> QED BY <2>1, <2>2, Zenon
<1>3. Described'
  BY DEF ClaimInv, Described
<1> QED BY <1>1, <1>2, <1>3 DEF ClaimInv

\* Steps that touch neither messages nor buffers.
LEMMA ClaimsUntouched ==
  ASSUME ClaimInv, UNCHANGED <<channelVars, ctrl, buffer>>
  PROVE  ClaimInv'
BY DEF ClaimInv, IdsBelow, ClaimedOnce, Described, Claims, Waiting, channelVars

\* A packet-in that waits is one of the claims of its frame.
LEMMA WaitingClaims ==
  ASSUME Inv, NEW s \in Switch, NEW m \in Waiting(s), m.type = "PACKET_IN"
  PROVE  /\ m.buffer_id \in BufferId /\ m \in UpClaim(m.buffer_id)
         /\ Occ(toController[s], UpClaim(m.buffer_id))
              + Occ(Contents(ctrl), QueuedClaim(s, m.buffer_id)) >= 1
<1> DEFINE id == m.buffer_id
           item == [from |-> s, msg |-> m]
<1>1. m \in UpMessage /\ m.type \in PacketIns
  BY DEF Waiting, PacketIns
<1>2. id \in BufferId /\ m \in UpClaim(id)
  BY <1>1, PacketInFields DEF UpClaim
<1>3. toController[s] \in Seq(UpMessage) /\ Contents(ctrl) \in Seq(Item)
  BY ChannelTypes
<1>4. /\ Occ(toController[s], UpClaim(id)) \in Nat
      /\ Occ(Contents(ctrl), QueuedClaim(s, id)) \in Nat
  BY ClaimNumbers
<1>5. CASE m \in Elems(toController[s])
  <2>1. \E i \in DOMAIN toController[s] : toController[s][i] \in UpClaim(id)
    BY <1>2, <1>5 DEF Elems
  <2>2. Occ(toController[s], UpClaim(id)) # 0
    BY <1>3, <2>1, OccPositive
  <2> QED BY <1>2, <1>4, <2>2
<1>6. CASE item \in Elems(Contents(ctrl))
  <2>1. item \in QueuedClaim(s, id)
    BY <1>1, <1>2 DEF QueuedClaim, Item
  <2> HIDE DEF item
  <2>2. \E i \in DOMAIN Contents(ctrl) : Contents(ctrl)[i] \in QueuedClaim(s, id)
    BY <1>6, <2>1 DEF Elems
  <2>3. Occ(Contents(ctrl), QueuedClaim(s, id)) # 0
    BY <1>3, <2>2, OccPositive
  <2> QED BY <1>2, <1>4, <2>3
<1> QED BY <1>5, <1>6 DEF Waiting

\* What storeMessage does to a buffer whose ids are not used up.
LEMMA Stores ==
  ASSUME NEW b, IsBuffer(b), NEW f \in Frame, b.next_buffer_id < NoBuffer,
         \A id \in DOMAIN b.pending_msgs : id < b.next_buffer_id
  PROVE  /\ StoredId(b) = b.next_buffer_id
         /\ b.next_buffer_id \in BufferId
         /\ b.next_buffer_id \notin DOMAIN b.pending_msgs
         /\ storeMessage(b, f).next_buffer_id = b.next_buffer_id + 1
         /\ DOMAIN storeMessage(b, f).pending_msgs
              = DOMAIN b.pending_msgs \cup {b.next_buffer_id}
         /\ storeMessage(b, f).pending_msgs[b.next_buffer_id] = f
         /\ \A id \in DOMAIN b.pending_msgs :
              storeMessage(b, f).pending_msgs[id] = b.pending_msgs[id]
<1> DEFINE key == b.next_buffer_id
           map == b.pending_msgs
           new == Insert(map, key, f)
<1>1. key \in BufferId
  BY DEF IsBuffer
<1>2. key \notin DOMAIN map
  BY <1>1, NoBufferAssumption DEF BufferId
<1>3. new = [k \in DOMAIN map \cup {key} |-> IF k = key THEN f ELSE map[k]]
  BY <1>2 DEF Insert
<1>4. /\ storeMessage(b, f).pending_msgs = new
      /\ storeMessage(b, f).next_buffer_id = key + 1
  BY DEF storeMessage
<1>5. StoredId(b) = key
  BY DEF StoredId
<1> HIDE DEF key, map, new
<1>6. /\ DOMAIN new = DOMAIN map \cup {key}
      /\ new[key] = f
      /\ \A id \in DOMAIN map : new[id] = map[id]
  BY <1>2, <1>3
<1> QED BY <1>1, <1>2, <1>4, <1>5, <1>6 DEF key, map

\* What returnMessage does to a buffer.
LEMMA Returns ==
  ASSUME NEW b, IsBuffer(b), NEW id
  PROVE  /\ returnMessage(b, id).next_buffer_id = b.next_buffer_id
         /\ DOMAIN returnMessage(b, id).pending_msgs
              = DOMAIN b.pending_msgs \ {id}
         /\ \A k \in DOMAIN b.pending_msgs \ {id} :
              returnMessage(b, id).pending_msgs[k] = b.pending_msgs[k]
<1> DEFINE map == b.pending_msgs
           new == [k \in DOMAIN map \ {id} |-> map[k]]
<1>1. b = [pending_msgs |-> map, next_buffer_id |-> b.next_buffer_id]
  BY DEF IsBuffer
<1> HIDE DEF map
<1>2. returnMessage(b, id) = [b EXCEPT !.pending_msgs = new]
  BY DEF returnMessage, Restrict, map
<1>3. /\ returnMessage(b, id).pending_msgs = new
      /\ returnMessage(b, id).next_buffer_id = b.next_buffer_id
  BY <1>1, <1>2
<1>4. DOMAIN new = DOMAIN map \ {id} /\ \A k \in DOMAIN map \ {id} : new[k] = map[k]
  OBVIOUS
<1> HIDE DEF new
<1> QED BY <1>3, <1>4 DEF map

\* A frame is stored: its new id is claimed by the packet-in alone.
LEMMA StoringKeepsClaims ==
  ASSUME Inv, IdsLeft, ClaimInv, NEW s \in Switch, SendPacketIn(s),
         UNCHANGED controllerVars
  PROVE  ClaimInv'
<1> DEFINE b == buffer[s]
           key == b.next_buffer_id
           f == Served(s)
           b2 == storeMessage(b, f)
           m == PacketInHeader(key, f)
<1>1. SwitchInv /\ IsBuffer(b) /\ buffer = [t \in Switch |-> buffer[t]]
  BY DEF Inv, SwitchInv, SwitchTypeOK
<1>2. f \in Frame
  BY <1>1, FrameServed DEF SendPacketIn
<1>3. key < NoBuffer /\ \A id \in DOMAIN b.pending_msgs : id < key
  BY DEF IdsLeft, ClaimInv, IdsBelow
<1>4. /\ StoredId(b) = key
      /\ key \in BufferId
      /\ key \notin DOMAIN b.pending_msgs
      /\ b2.next_buffer_id = key + 1
      /\ DOMAIN b2.pending_msgs = DOMAIN b.pending_msgs \cup {key}
      /\ b2.pending_msgs[key] = f
      /\ \A id \in DOMAIN b.pending_msgs : b2.pending_msgs[id] = b.pending_msgs[id]
  BY <1>1, <1>2, <1>3, Stores
<1>5. /\ m \in UpMessage
      /\ \A id : m \in UpClaim(id) <=> id = key
  <2>1. m \in UpMessage
    BY <1>2, <1>4, UpMessages
  <2> QED BY <2>1 DEF UpClaim, PacketInHeader
<1>6. SendUp(s, <<m>>) /\ UNCHANGED <<toSwitch, ctrl>>
  BY <1>4 DEF SendPacketIn, controllerVars
<1>7. buffer' = [buffer EXCEPT ![s] = b2]
  BY DEF SendPacketIn
<1> HIDE DEF b2, m, f
<1>8. \A t \in Switch : buffer'[t] = IF t = s THEN b2 ELSE buffer[t]
  BY <1>1, <1>7
<1>9. IdsBelow'
  <2> SUFFICES ASSUME NEW t \in Switch, NEW id \in DOMAIN buffer'[t].pending_msgs
               PROVE  id < buffer'[t].next_buffer_id
    BY DEF IdsBelow
  <2>1. CASE t = s
    <3>1. id \in DOMAIN b2.pending_msgs /\ buffer'[t].next_buffer_id = key + 1
      BY <1>4, <1>8, <2>1
    <3>2. key \in Nat /\ DOMAIN b.pending_msgs \subseteq Nat
      BY <1>1, <1>4, NoBufferAssumption DEF IsBuffer, IsMap, BufferId
    <3> QED BY <1>3, <1>4, <3>1, <3>2
  <2>2. CASE t # s
    BY <1>8, <2>2 DEF ClaimInv, IdsBelow
  <2> QED BY <2>1, <2>2
<1>10. ClaimedOnce'
  <2> SUFFICES ASSUME NEW t \in Switch, NEW id \in BufferId
               PROVE  Claims(t, id)' = Weight(id \in DOMAIN buffer'[t].pending_msgs)
    BY DEF ClaimedOnce
  <2>1. Claims(t, id) = Weight(id \in DOMAIN buffer[t].pending_msgs)
    BY DEF ClaimInv, ClaimedOnce
  <2>2. Claims(t, id)' = Claims(t, id) + Weight(t = s /\ m \in UpClaim(id))
    <3>1. /\ Occ(toController'[t], UpClaim(id))
               = Occ(toController[t], UpClaim(id))
                   + Weight(t = s /\ m \in UpClaim(id))
          /\ UNCHANGED <<toSwitch, ctrl>>
      BY <1>5, <1>6, UpCounted
    <3>2. /\ Occ(toController[t], UpClaim(id)) \in Nat
          /\ Occ(Contents(ctrl), QueuedClaim(t, id)) \in Nat
          /\ Occ(toSwitch[t], DownClaim(id)) \in Nat
      BY ClaimNumbers
    <3> QED BY <3>1, <3>2 DEF Claims, Weight
  <2>3. id \in DOMAIN buffer'[t].pending_msgs
          <=> id \in DOMAIN buffer[t].pending_msgs \/ (t = s /\ id = key)
    BY <1>4, <1>8
  <2>4. t = s /\ id = key => id \notin DOMAIN buffer[t].pending_msgs
    BY <1>4
  <2>5. m \in UpClaim(id) <=> id = key
    BY <1>5
  <2> QED BY <2>1, <2>2, <2>3, <2>4, <2>5 DEF Weight
<1>11. Described'
  <2> SUFFICES ASSUME NEW t \in Switch, NEW n \in Waiting(t)', n.type = "PACKET_IN"
               PROVE  Describes(n, buffer'[t])
    BY DEF Described
  <2>1. n \in Waiting(t) \/ (t = s /\ n = m)
    <3>1. Elems(toController'[t])
            = Elems(toController[t]) \cup (IF t = s THEN {m} ELSE {})
      BY <1>5, <1>6, UpCounted
    <3> QED BY <1>6, <3>1 DEF Waiting
  <2>2. CASE n \in Waiting(t)
    <3>1. Describes(n, buffer[t])
      BY <2>2 DEF ClaimInv, Described
    <3> QED BY <1>4, <1>8, <3>1 DEF Describes
  <2>3. CASE t = s /\ n = m
    BY <1>4, <1>8, <2>3 DEF Describes, PacketInHeader, m
  <2> QED BY <2>1, <2>2, <2>3
<1> QED BY <1>9, <1>10, <1>11 DEF ClaimInv

\* The frame with this id leaves the buffer together with its only claim.
LEMMA TakingKeepsClaims ==
  ASSUME Inv, ClaimInv, NEW s \in Switch, Receives(s, "PACKET_OUT"), Consume(s),
         NEW id, id = Received(s).buffer_id,
         buffer' = [buffer EXCEPT ![s] = returnMessage(@, id)],
         UNCHANGED <<toController, ctrl>>
  PROVE  /\ id \in DOMAIN buffer[s].pending_msgs
         /\ Occ(toSwitch'[s], DownClaim(id)) = 0
         /\ ClaimInv'
<1> DEFINE b2 == returnMessage(buffer[s], id)
<1>1. IsBuffer(buffer[s]) /\ buffer = [t \in Switch |-> buffer[t]]
  BY DEF Inv, SwitchInv, SwitchTypeOK
<1>2. /\ b2.next_buffer_id = buffer[s].next_buffer_id
      /\ DOMAIN b2.pending_msgs = DOMAIN buffer[s].pending_msgs \ {id}
      /\ \A k \in DOMAIN buffer[s].pending_msgs \ {id} :
           b2.pending_msgs[k] = buffer[s].pending_msgs[k]
  BY <1>1, Returns
<1> HIDE DEF b2
<1>3. \A t \in Switch : buffer'[t] = IF t = s THEN b2 ELSE buffer[t]
  BY <1>1 DEF b2
<1>4. /\ toSwitch[s] # <<>> /\ Received(s) \in DownMessage
      /\ Received(s).type = "PACKET_OUT"
  BY DownCounted DEF Receives
<1>5. id \in BufferId /\ \A k : Received(s) \in DownClaim(k) <=> k = id
  BY <1>4, DownFields DEF DownClaim
<1>6. ASSUME NEW t \in Switch, NEW k
      PROVE  /\ Claims(t, k) = Claims(t, k)' + Weight(t = s /\ k = id)
             /\ Occ(toController'[t], UpClaim(k)) \in Nat
             /\ Occ(Contents(ctrl'), QueuedClaim(t, k)) \in Nat
             /\ Occ(toSwitch'[t], DownClaim(k)) \in Nat
  <2>1. /\ Occ(toSwitch'[t], DownClaim(k)) \in Nat
        /\ Occ(toSwitch[t], DownClaim(k))
             = Occ(toSwitch'[t], DownClaim(k))
                 + Weight(t = s /\ Received(s) \in DownClaim(k))
    BY <1>4, DownCounted
  <2>2. /\ Occ(toController[t], UpClaim(k)) \in Nat
        /\ Occ(Contents(ctrl), QueuedClaim(t, k)) \in Nat
    BY ClaimNumbers
  <2>3. Received(s) \in DownClaim(k) <=> k = id
    BY <1>5
  <2> QED BY <2>1, <2>2, <2>3 DEF Claims, Weight
<1>7. /\ id \in DOMAIN buffer[s].pending_msgs
      /\ Occ(toController[s], UpClaim(id)) = 0
      /\ Occ(Contents(ctrl), QueuedClaim(s, id)) = 0
      /\ Occ(toSwitch'[s], DownClaim(id)) = 0
  <2>1. Claims(s, id) = Weight(id \in DOMAIN buffer[s].pending_msgs)
    BY <1>5 DEF ClaimInv, ClaimedOnce
  <2>2. /\ Claims(s, id) = Claims(s, id)' + 1
        /\ Occ(toController'[s], UpClaim(id)) \in Nat
        /\ Occ(Contents(ctrl'), QueuedClaim(s, id)) \in Nat
        /\ Occ(toSwitch'[s], DownClaim(id)) \in Nat
    BY <1>6 DEF Weight
  <2>3. Claims(s, id)' \in Nat
    BY <2>2 DEF Claims
  <2>4. Weight(id \in DOMAIN buffer[s].pending_msgs)
          = IF id \in DOMAIN buffer[s].pending_msgs THEN 1 ELSE 0
    BY DEF Weight
  <2>5. id \in DOMAIN buffer[s].pending_msgs /\ Claims(s, id)' = 0
    BY <2>1, <2>2, <2>3, <2>4
  <2> QED BY <2>2, <2>5 DEF Claims
<1>8. IdsBelow'
  BY <1>2, <1>3 DEF ClaimInv, IdsBelow
<1>9. ClaimedOnce'
  <2> SUFFICES ASSUME NEW t \in Switch, NEW k \in BufferId
               PROVE  Claims(t, k)' = Weight(k \in DOMAIN buffer'[t].pending_msgs)
    BY DEF ClaimedOnce
  <2>1. Claims(t, k) = Weight(k \in DOMAIN buffer[t].pending_msgs)
    BY DEF ClaimInv, ClaimedOnce
  <2>2. Claims(t, k) = Claims(t, k)' + Weight(t = s /\ k = id)
    BY <1>6
  <2>3. Claims(t, k)' \in Nat
    BY <1>6 DEF Claims
  <2>4. k \in DOMAIN buffer'[t].pending_msgs
          <=> k \in DOMAIN buffer[t].pending_msgs /\ ~(t = s /\ k = id)
    BY <1>2, <1>3
  <2> QED BY <1>7, <2>1, <2>2, <2>3, <2>4 DEF Weight
<1>10. Described'
  <2> SUFFICES ASSUME NEW t \in Switch, NEW n \in Waiting(t)', n.type = "PACKET_IN"
               PROVE  Describes(n, buffer'[t])
    BY DEF Described
  <2>1. n \in Waiting(t)
    BY DEF Waiting
  <2>2. Describes(n, buffer[t])
    BY <2>1 DEF ClaimInv, Described
  <2>3. CASE t = s
    <3>1. Occ(toController[s], UpClaim(n.buffer_id))
            + Occ(Contents(ctrl), QueuedClaim(s, n.buffer_id)) >= 1
      BY <2>1, <2>3, WaitingClaims
    <3>2. n.buffer_id # id
      BY <1>7, <3>1
    <3> QED BY <1>2, <1>3, <2>2, <2>3, <3>2 DEF Describes
  <2>4. CASE t # s
    BY <1>3, <2>2, <2>4
  <2> QED BY <2>3, <2>4
<1> QED BY <1>7, <1>8, <1>9, <1>10 DEF ClaimInv
-----------------------------------------------------------------------------
(* The answers of the controller.                                          *)

\* No packet-out, for any frame in a buffer.
NoClaim(a) == a \in DownMessage /\ a.type # "PACKET_OUT"

\* The packet-out that takes over the claim of the packet-in m, or no claim if
\* m has none.
TakesOver(a, m) ==
  a \in DownMessage /\ \A id : a \in DownClaim(id) <=> m \in UpClaim(id)

\* What the controller may send in answer to m: to the switch that m came from
\* one message that takes over its claim, to the others none that claims.
Settles(ms, m) ==
  \/ ms = <<>> /\ \A id : m \notin UpClaim(id)
  \/ \E a : TakesOver(a, m) /\ ms = <<a>>
  \/ \E a, b : TakesOver(a, m) /\ NoClaim(b) /\ ms \in {<<a, b>>, <<b, a>>}

Answers(out) ==
  /\ Settles(out[From], Message)
  /\ \A t \in Switch \ {From} :
       out[t] = <<>> \/ \E a : NoClaim(a) /\ out[t] = <<a>>

\* What one or two messages add to the claims on a connection.
LEMMA Adds ==
  ASSUME NEW q \in Seq(DownMessage), NEW id
  PROVE  /\ Occ(q, DownClaim(id)) \in Nat
         /\ q \o <<>> = q
         /\ \A a \in DownMessage :
              Occ(q \o <<a>>, DownClaim(id))
                = Occ(q, DownClaim(id)) + Weight(a \in DownClaim(id))
         /\ \A a, b \in DownMessage :
              Occ(q \o <<a, b>>, DownClaim(id))
                = Occ(q, DownClaim(id)) + Weight(a \in DownClaim(id))
                    + Weight(b \in DownClaim(id))
<1>1. Occ(q, DownClaim(id)) \in Nat
  BY OccPositive
<1>2. ASSUME NEW a \in DownMessage, NEW b \in DownMessage
      PROVE  /\ q \o <<>> = q
             /\ q \o <<a>> = Append(q, a)
             /\ q \o <<a, b>> = Append(Append(q, a), b)
  BY Lengthened
<1>3. q \o <<>> = q
  BY ConcatEmptySeq
<1>4. ASSUME NEW a \in DownMessage
      PROVE  /\ Append(q, a) \in Seq(DownMessage)
             /\ Occ(q \o <<a>>, DownClaim(id))
                  = Occ(q, DownClaim(id)) + Weight(a \in DownClaim(id))
  BY <1>2, OccAppended
<1>5. ASSUME NEW a \in DownMessage, NEW b \in DownMessage
      PROVE  Occ(q \o <<a, b>>, DownClaim(id))
               = Occ(q, DownClaim(id)) + Weight(a \in DownClaim(id))
                   + Weight(b \in DownClaim(id))
  <2>1. Append(q, a) \in Seq(DownMessage)
    BY <1>4
  <2>2. Occ(Append(Append(q, a), b), DownClaim(id))
          = Occ(Append(q, a), DownClaim(id)) + Weight(b \in DownClaim(id))
    BY <2>1, OccAppended
  <2>3. q \o <<a, b>> = Append(Append(q, a), b) /\ q \o <<a>> = Append(q, a)
    BY <1>2
  <2>4. Occ(Append(q, a), DownClaim(id))
          = Occ(q, DownClaim(id)) + Weight(a \in DownClaim(id))
    BY <1>4, <2>3
  <2> QED BY <2>2, <2>3, <2>4, Zenon
<1> QED BY <1>1, <1>3, <1>4, <1>5

\* An answer adds one claim, where the message answered had it, and no other.
LEMMA AnswersCounted ==
  ASSUME NEW out, Answers(out), NEW t \in Switch, NEW id,
         NEW q \in Seq(DownMessage)
  PROVE  Occ(q \o out[t], DownClaim(id))
           = Occ(q, DownClaim(id)) + Weight(t = From /\ Message \in UpClaim(id))
<1>1. Occ(q, DownClaim(id)) \in Nat /\ q \o <<>> = q
  BY Adds
<1>2. \A a : NoClaim(a) => a \in DownMessage /\ a \notin DownClaim(id)
  BY DEF NoClaim, DownClaim
<1>3. CASE t # From
  <2>1. CASE out[t] = <<>>
    BY <1>1, <1>3, <2>1 DEF Weight
  <2>2. ASSUME NEW a, NoClaim(a), out[t] = <<a>>
        PROVE  Occ(q \o out[t], DownClaim(id)) = Occ(q, DownClaim(id))
    <3>1. a \in DownMessage /\ a \notin DownClaim(id)
      BY <1>2, <2>2
    <3>2. Occ(q \o <<a>>, DownClaim(id))
            = Occ(q, DownClaim(id)) + Weight(a \in DownClaim(id))
      BY <3>1, Adds
    <3> QED BY <1>1, <2>2, <3>1, <3>2 DEF Weight
  <2>3. out[t] = <<>> \/ \E a : NoClaim(a) /\ out[t] = <<a>>
    BY <1>3 DEF Answers
  <2>4. Weight(t = From /\ Message \in UpClaim(id)) = 0
    BY <1>3 DEF Weight
  <2> QED BY <1>1, <2>1, <2>2, <2>3, <2>4
<1>4. CASE t = From
  <2>1. CASE out[t] = <<>> /\ \A k : Message \notin UpClaim(k)
    BY <1>1, <2>1 DEF Weight
  <2>2. ASSUME NEW a, TakesOver(a, Message), out[t] = <<a>>
        PROVE  Occ(q \o out[t], DownClaim(id))
                 = Occ(q, DownClaim(id)) + Weight(Message \in UpClaim(id))
    <3>1. a \in DownMessage /\ (a \in DownClaim(id) <=> Message \in UpClaim(id))
      BY <2>2 DEF TakesOver
    <3>2. Occ(q \o <<a>>, DownClaim(id))
            = Occ(q, DownClaim(id)) + Weight(a \in DownClaim(id))
      BY <3>1, Adds
    <3> QED BY <1>1, <2>2, <3>1, <3>2 DEF Weight
  <2>3. ASSUME NEW a, NEW b, TakesOver(a, Message), NoClaim(b),
               out[t] \in {<<a, b>>, <<b, a>>}
        PROVE  Occ(q \o out[t], DownClaim(id))
                 = Occ(q, DownClaim(id)) + Weight(Message \in UpClaim(id))
    <3>1. a \in DownMessage /\ (a \in DownClaim(id) <=> Message \in UpClaim(id))
      BY <2>3 DEF TakesOver
    <3>2. b \in DownMessage /\ b \notin DownClaim(id)
      BY <1>2, <2>3
    <3>3. /\ Occ(q \o <<a, b>>, DownClaim(id))
               = Occ(q, DownClaim(id)) + Weight(a \in DownClaim(id))
                   + Weight(b \in DownClaim(id))
          /\ Occ(q \o <<b, a>>, DownClaim(id))
               = Occ(q, DownClaim(id)) + Weight(b \in DownClaim(id))
                   + Weight(a \in DownClaim(id))
      BY <3>1, <3>2, Adds
    <3>4. /\ Weight(a \in DownClaim(id)) = Weight(Message \in UpClaim(id))
          /\ Weight(b \in DownClaim(id)) = 0
          /\ Weight(Message \in UpClaim(id)) \in {0, 1}
      BY <3>1, <3>2 DEF Weight
    <3>5. /\ Occ(q \o <<a, b>>, DownClaim(id))
               = Occ(q, DownClaim(id)) + Weight(Message \in UpClaim(id))
          /\ Occ(q \o <<b, a>>, DownClaim(id))
               = Occ(q, DownClaim(id)) + Weight(Message \in UpClaim(id))
      <4> DEFINE w == Weight(Message \in UpClaim(id))
      <4>1. /\ Occ(q \o <<a, b>>, DownClaim(id)) = Occ(q, DownClaim(id)) + w + 0
            /\ Occ(q \o <<b, a>>, DownClaim(id)) = Occ(q, DownClaim(id)) + 0 + w
            /\ w \in {0, 1}
        BY <3>3, <3>4, Zenon
      <4> HIDE DEF w
      <4>2. /\ Occ(q \o <<a, b>>, DownClaim(id)) = Occ(q, DownClaim(id)) + w
            /\ Occ(q \o <<b, a>>, DownClaim(id)) = Occ(q, DownClaim(id)) + w
        BY <1>1, <4>1
      <4> QED BY <4>2 DEF w
    <3>6. CASE out[t] = <<a, b>>
      BY <3>5, <3>6, Zenon
    <3>7. CASE out[t] = <<b, a>>
      BY <3>5, <3>7, Zenon
    <3> QED BY <2>3, <3>6, <3>7
  <2>4. \/ out[t] = <<>> /\ \A k : Message \notin UpClaim(k)
        \/ \E a : TakesOver(a, Message) /\ out[t] = <<a>>
        \/ \E a, b : TakesOver(a, Message) /\ NoClaim(b)
                       /\ out[t] \in {<<a, b>>, <<b, a>>}
    BY <1>4 DEF Answers, Settles
  <2>5. Weight(t = From /\ Message \in UpClaim(id))
          = Weight(Message \in UpClaim(id))
    BY <1>4 DEF Weight
  <2>6. CASE out[t] = <<>> /\ \A k : Message \notin UpClaim(k)
    BY <2>1, <2>6
  <2>7. CASE \E a : TakesOver(a, Message) /\ out[t] = <<a>>
    BY <2>2, <2>5, <2>7, Zenon
  <2>8. CASE \E a, b : TakesOver(a, Message) /\ NoClaim(b)
                         /\ out[t] \in {<<a, b>>, <<b, a>>}
    BY <2>3, <2>5, <2>8, Zenon
  <2> QED BY <2>4, <2>6, <2>7, <2>8
<1> QED BY <1>3, <1>4

\* The packet-out that floodPacket and sendPacket make takes over the claim.
LEMMA PacketOutTakesOver ==
  ASSUME NEW m \in UpMessage, m.type \in PacketIns,
         NEW p \in Port \cup {FloodPort}
  PROVE  TakesOver(PacketOut(m, p), m)
<1>1. PacketOut(m, p) \in DownMessage
  BY PacketInAnswer
<1>2. CASE m.type = "PACKET_IN"
  BY <1>1, <1>2
     DEF TakesOver, PacketOut, PacketOutHeader, DownClaim, UpClaim
<1>3. CASE m.type = "PACKET_IN_FULL"
  BY <1>1, <1>3
     DEF TakesOver, PacketOut, PacketOutFrame, DownClaim, UpClaim
<1> QED BY <1>2, <1>3 DEF PacketIns

\* Flow entries and the messages of the handshake claim nothing.
LEMMA NothingClaimed ==
  /\ NoClaim(FeaturesRequest)
  /\ \A m \in Match, p \in Port : NoClaim(FlowMod(m, p))
<1>1. NoClaim(FeaturesRequest)
  BY DownMessages DEF NoClaim, FeaturesRequest
<1>2. ASSUME NEW m \in Match, NEW p \in Port PROVE NoClaim(FlowMod(m, p))
  BY DownMessages DEF NoClaim, FlowMod
<1> QED BY <1>1, <1>2

\* An answer for the switch that the message came from only.
LEMMA OnlyAnswers ==
  ASSUME From \in Switch, NEW ms, Settles(ms, Message)
  PROVE  Answers(Only(From, ms))
BY DEF Answers, Only

\* The application Switch settles every packet-in.
LEMMA DecisionSettles ==
  ASSUME NEW ports, IsMap(ports, Host, Port),
         NEW m \in UpMessage, m.type \in PacketIns
  PROVE  Settles(Decision(ports, m), m)
<1> DEFINE dst == Header(m).eth_dst
<1>1. Header(m) \in Match
  <2>1. FloodPort \in Port \cup {FloodPort}
    OBVIOUS
  <2> QED BY <2>1, PacketInAnswer
<1>2. CASE dst \in DOMAIN ports
  <2>1. ports[dst] \in Port
    BY <1>2 DEF IsMap
  <2>2. /\ TakesOver(PacketOut(m, ports[dst]), m)
        /\ NoClaim(FlowMod(Header(m), ports[dst]))
    BY <1>1, <2>1, PacketOutTakesOver, NothingClaimed
  <2>3. Decision(ports, m)
          = <<FlowMod(Header(m), ports[dst]), PacketOut(m, ports[dst])>>
    BY <1>2 DEF Decision
  <2> QED BY <2>2, <2>3 DEF Settles
<1>3. CASE dst \notin DOMAIN ports
  <2>1. TakesOver(PacketOut(m, FloodPort), m)
    BY PacketOutTakesOver
  <2>2. Decision(ports, m) = <<PacketOut(m, FloodPort)>>
    BY <1>3 DEF Decision
  <2> QED BY <2>1, <2>2 DEF Settles
<1> QED BY <1>2, <1>3

\* The application Forwarding settles every packet-in, and sends the other
\* switches of the path flow entries only.
LEMMA RouteAnswers ==
  ASSUME From \in Switch, Message \in UpMessage, Message.type \in PacketIns,
         Header(Message).eth_dst \in Topology
  PROVE  Answers(Route(From, Message))
<1> DEFINE hdr == Header(Message)
           mod(t) == FlowMod(RouteMatch(hdr), NextPort[t][hdr.eth_dst])
           out == PacketOut(Message, NextPort[From][hdr.eth_dst])
<1>1. FloodPort \in Port \cup {FloodPort}
  OBVIOUS
<1>2. hdr \in Match
  BY <1>1, PacketInAnswer
<1>3. RouteMatch(hdr) \in Match
  BY <1>2, PortAssumption DEF RouteMatch, Match, Fields
<1>4. \A t \in Switch : NextPort[t][hdr.eth_dst] \in Port
  BY TopologyAssumption, NextPortAssumption
<1>5. \A t \in Switch : NoClaim(mod(t))
  BY <1>3, <1>4, NothingClaimed
<1>6. TakesOver(out, Message)
  BY <1>4, PacketOutTakesOver
<1>7. \A t \in Switch :
        Route(From, Message)[t]
          = IF t = From THEN <<mod(t), out>>
            ELSE IF OnPath(t, From, hdr.eth_dst) THEN <<mod(t)>> ELSE <<>>
  BY DEF Route
<1> HIDE DEF mod, out
<1>8. Settles(Route(From, Message)[From], Message)
  BY <1>5, <1>6, <1>7 DEF Settles
<1>9. ASSUME NEW t \in Switch \ {From}
      PROVE  \/ Route(From, Message)[t] = <<>>
             \/ \E a : NoClaim(a) /\ Route(From, Message)[t] = <<a>>
  BY <1>5, <1>7
<1> QED BY <1>8, <1>9 DEF Answers

\* The ARP oracle settles the requests it answers: it has the buffered one
\* deleted.
LEMMA ArpAnswerSettles ==
  ASSUME NEW m \in UpMessage, m.type \in PacketIns, processARPPacket(m)
  PROVE  Settles(ArpAnswer(m), m)
<1> DEFINE reply == PacketOutFrame(ArpReply(m), Header(m).in_port)
           drop == PacketOutHeader(m.buffer_id, AnyPort)
<1>1. ArpAnswer(m) \in Seq(DownMessage)
  BY ArpAnswerIsMessages
<1>2. CASE m.type = "PACKET_IN_FULL"
  <2>1. ArpAnswer(m) = <<reply>>
    BY <1>2 DEF ArpAnswer
  <2>2. reply.type = "PACKET_OUT_FULL"
    BY DEF PacketOutFrame
  <2> HIDE DEF reply
  <2>3. reply \in DownMessage
    BY <1>1, <2>1, HeadTailProperties
  <2>4. TakesOver(reply, m)
    BY <1>2, <2>2, <2>3 DEF TakesOver, DownClaim, UpClaim
  <2> QED BY <2>1, <2>4 DEF Settles
<1>3. CASE m.type = "PACKET_IN"
  <2>1. ArpAnswer(m) = <<drop, reply>>
    BY <1>3 DEF ArpAnswer
  <2>2. /\ reply.type = "PACKET_OUT_FULL"
        /\ drop.type = "PACKET_OUT" /\ drop.buffer_id = m.buffer_id
    BY DEF PacketOutFrame, PacketOutHeader
  <2> HIDE DEF reply, drop
  <2>3. /\ <<drop, reply>> \in Seq(DownMessage) /\ Len(<<drop, reply>>) = 2
        /\ <<drop, reply>>[1] = drop /\ <<drop, reply>>[2] = reply
    BY <1>1, <2>1
  <2>4. reply \in DownMessage /\ drop \in DownMessage
    BY <2>3, ElementOfSeq
  <2>5. TakesOver(drop, m)
    BY <1>3, <2>2, <2>4 DEF TakesOver, DownClaim, UpClaim
  <2>6. NoClaim(reply)
    BY <2>2, <2>4 DEF NoClaim
  <2> QED BY <2>1, <2>5, <2>6 DEF Settles
<1> QED BY <1>2, <1>3 DEF PacketIns

\* What a switch can have sent to the controller, and what the controller sends
\* when it has processed the message in service.
UpTypes == PacketIns \cup {"ESTABLISHED", "FEATURES_REPLY"}

Learned == Learn(mac_to_port[From], Header(Message))

TheReply ==
  IF Message.type = "ESTABLISHED" THEN Only(From, <<FeaturesRequest>>)
  ELSE IF Message.type = "FEATURES_REPLY" THEN [s \in Switch |-> <<>>]
  ELSE IF Behavior = "Hub" THEN Only(From, <<PacketOut(Message, FloodPort)>>)
  ELSE IF Behavior = "Switch" THEN Only(From, Decision(Learned, Message))
  ELSE Answer(From, Message)

\* Every service of the controller ends with this reply, over the sockets that
\* it knows then.
LEMMA ControllerReplies ==
  ASSUME Inv, ControllerServes
  PROVE  /\ Processes(UpTypes)
         /\ From \in Switch /\ Message \in UpMessage /\ Message.type \in UpTypes
         /\ Reply(TheReply, socketMap')
         /\ socketMap \subseteq socketMap'
         /\ socketMap' \subseteq socketMap \cup {From}
         /\ \/ UNCHANGED mac_to_port
            \/ /\ mac_to_port' = [mac_to_port EXCEPT ![From] = Learned]
               /\ Message.type \in PacketIns
         /\ Behavior = "Switch" /\ Message.type \in PacketIns =>
              mac_to_port' = [mac_to_port EXCEPT ![From] = Learned]
<1>1. ControllerInv
  BY DEF Inv
<1>2. ASSUME NEW types, Processes(types), types \subseteq UpTypes
      PROVE  /\ Processes(UpTypes)
             /\ From \in Switch /\ Message \in UpMessage
             /\ Message.type \in types
  BY <1>1, <1>2, MessageServed DEF Processes
<1>3. CASE handshake
  <2>1. /\ Processes({"ESTABLISHED"})
        /\ socketMap' = socketMap \cup {From}
        /\ Reply(Only(From, <<FeaturesRequest>>), socketMap')
        /\ UNCHANGED mac_to_port
    BY <1>3 DEF handshake
  <2>2. Processes(UpTypes) /\ From \in Switch /\ Message \in UpMessage
    BY <1>2, <2>1 DEF UpTypes
  <2>3. Message.type = "ESTABLISHED"
    BY <2>1 DEF Processes
  <2>4. TheReply = Only(From, <<FeaturesRequest>>)
    BY <2>3 DEF TheReply
  <2> QED BY <2>1, <2>2, <2>3, <2>4 DEF UpTypes, PacketIns
<1>4. CASE handleFeaturesReply
  <2> DEFINE none == [s \in Switch |-> <<>>]
  <2>1. /\ Processes({"FEATURES_REPLY"}) /\ Reply(none, socketMap)
        /\ UNCHANGED <<socketMap, mac_to_port>>
    BY <1>4 DEF handleFeaturesReply
  <2>2. Processes(UpTypes) /\ From \in Switch /\ Message \in UpMessage
    BY <1>2, <2>1 DEF UpTypes
  <2>3. Message.type = "FEATURES_REPLY"
    BY <2>1 DEF Processes
  <2>4. TheReply = none
    BY <2>3 DEF TheReply
  <2> HIDE DEF none
  <2> QED BY <2>1, <2>2, <2>3, <2>4 DEF UpTypes, PacketIns
<1>5. ASSUME Processes(PacketIns)
      PROVE  /\ Processes(UpTypes) /\ From \in Switch /\ Message \in UpMessage
             /\ Message.type \in PacketIns /\ Message.type \in UpTypes
             /\ TheReply =
                  IF Behavior = "Hub"
                  THEN Only(From, <<PacketOut(Message, FloodPort)>>)
                  ELSE IF Behavior = "Switch"
                  THEN Only(From, Decision(Learned, Message))
                  ELSE Answer(From, Message)
  <2>1. /\ Processes(UpTypes) /\ From \in Switch /\ Message \in UpMessage
        /\ Message.type \in PacketIns
    BY <1>2, <1>5 DEF UpTypes
  <2> QED BY <2>1 DEF TheReply, UpTypes, PacketIns
<1>6. CASE HubPacketIn
  <2> DEFINE out == Only(From, <<PacketOut(Message, FloodPort)>>)
  <2>1. /\ Behavior = "Hub" /\ Processes(PacketIns) /\ Reply(out, socketMap)
        /\ UNCHANGED <<socketMap, mac_to_port>>
    BY <1>6 DEF HubPacketIn
  <2>2. TheReply = out
    BY <1>5, <2>1
  <2> HIDE DEF out
  <2> QED BY <1>5, <2>1, <2>2
<1>7. CASE SwitchPacketIn
  <2> DEFINE out == Only(From, Decision(mac_to_port'[From], Message))
  <2>1. /\ Behavior = "Switch" /\ Processes(PacketIns) /\ Reply(out, socketMap)
        /\ mac_to_port' = [mac_to_port EXCEPT ![From] = Learned]
        /\ UNCHANGED socketMap
    BY <1>7 DEF SwitchPacketIn, Learned
  <2>2. mac_to_port = [s \in Switch |-> mac_to_port[s]] /\ From \in Switch
    BY <1>1, <1>5, <2>1 DEF ControllerInv, ControllerTypeOK
  <2>3. mac_to_port'[From] = Learned
    BY <2>1, <2>2
  <2>4. TheReply = out
    BY <1>5, <2>1, <2>3
  <2> HIDE DEF out
  <2> QED BY <1>5, <2>1, <2>4
<1>8. CASE ForwardingPacketIn
  <2> DEFINE out == Answer(From, Message)
  <2>1. /\ Behavior = "Forwarding" /\ Processes(PacketIns)
        /\ Reply(out, socketMap)
        /\ UNCHANGED <<socketMap, mac_to_port>>
    BY <1>8 DEF ForwardingPacketIn
  <2>2. TheReply = out
    BY <1>5, <2>1
  <2> HIDE DEF out
  <2> QED BY <1>5, <2>1, <2>2
<1> QED BY <1>3, <1>4, <1>6, <1>7, <1>8 DEF ControllerServes

\* That reply settles the message, whatever it is.
LEMMA ControllerAnswers ==
  ASSUME Inv, From \in Switch, Message \in UpMessage, Message.type \in UpTypes
  PROVE  Answers(TheReply)
<1>1. \A s \in Switch : IsMap(mac_to_port[s], Host, Port)
  BY DEF Inv, ControllerInv, ControllerTypeOK
<1>2. CASE Message.type = "ESTABLISHED"
  <2>1. TakesOver(FeaturesRequest, Message)
    BY <1>2, NothingClaimed
       DEF TakesOver, NoClaim, UpClaim, DownClaim, FeaturesRequest
  <2>2. Settles(<<FeaturesRequest>>, Message)
    BY <2>1 DEF Settles
  <2> QED BY <1>2, <2>2, OnlyAnswers DEF TheReply
<1>3. CASE Message.type = "FEATURES_REPLY"
  <2>1. Settles(<<>>, Message)
    BY <1>3 DEF Settles, UpClaim
  <2> QED BY <1>3, <2>1 DEF Answers, TheReply
<1>4. CASE Message.type \in PacketIns
  <2>1. TakesOver(PacketOut(Message, FloodPort), Message)
    BY <1>4, PacketOutTakesOver
  <2>2. Settles(<<PacketOut(Message, FloodPort)>>, Message)
    BY <2>1 DEF Settles
  <2>3. CASE Behavior = "Hub"
    <3>1. TheReply = Only(From, <<PacketOut(Message, FloodPort)>>)
      BY <1>4, <2>3 DEF TheReply, PacketIns
    <3> QED BY <2>2, <3>1, OnlyAnswers
  <2>4. CASE Behavior = "Switch"
    <3>1. TheReply = Only(From, Decision(Learned, Message))
      BY <1>4, <2>4 DEF TheReply, PacketIns
    <3>2. IsMap(Learned, Host, Port)
      <4>1. FloodPort \in Port \cup {FloodPort}
        OBVIOUS
      <4>2. Header(Message) \in Match
        BY <1>4, <4>1, PacketInAnswer
      <4> QED BY <1>1, <4>2, LearnedPorts DEF Learned
    <3>3. Settles(Decision(Learned, Message), Message)
      BY <1>4, <3>2, DecisionSettles
    <3> QED BY <3>1, <3>3, OnlyAnswers
  <2>5. CASE Behavior = "Forwarding"
    <3>1. TheReply = Answer(From, Message)
      BY <1>4, <2>5 DEF TheReply, PacketIns
    <3>2. CASE Header(Message).eth_dst \in Topology
      BY <1>4, <3>1, <3>2, RouteAnswers DEF Answer
    <3>3. CASE Header(Message).eth_dst \notin Topology /\ processARPPacket(Message)
      BY <1>4, <3>1, <3>3, ArpAnswerSettles, OnlyAnswers DEF Answer
    <3>4. CASE Header(Message).eth_dst \notin Topology /\ ~processARPPacket(Message)
      BY <2>2, <3>1, <3>4, OnlyAnswers DEF Answer
    <3> QED BY <3>2, <3>3, <3>4
  <2> QED BY <2>3, <2>4, <2>5, BehaviorAssumption
<1> QED BY <1>2, <1>3, <1>4 DEF UpTypes

\* The claims of a switch that sends a message which is none.
LEMMA SendingKeepsClaims ==
  ASSUME Inv, ClaimInv, NEW s \in Switch, NEW m \in UpMessage,
         m.type # "PACKET_IN", SendUp(s, <<m>>), UNCHANGED <<ctrl, buffer>>,
         \/ UNCHANGED toSwitch
         \/ /\ toSwitch[s] # <<>> /\ Consume(s)
            /\ Received(s).type # "PACKET_OUT"
  PROVE  ClaimInv'
<1>1. ASSUME NEW t \in Switch, NEW id \in BufferId
      PROVE  Claims(t, id)' = Claims(t, id)
  <2>1. /\ Occ(toController[t], UpClaim(id)) \in Nat
        /\ Occ(toSwitch[t], DownClaim(id)) \in Nat
    BY ClaimNumbers
  <2>2. Occ(toController'[t], UpClaim(id)) = Occ(toController[t], UpClaim(id))
    <3>1. Occ(toController'[t], UpClaim(id))
            = Occ(toController[t], UpClaim(id))
                + Weight(t = s /\ m \in UpClaim(id))
      BY UpCounted
    <3>2. m \notin UpClaim(id)
      BY DEF UpClaim
    <3> QED BY <2>1, <3>1, <3>2 DEF Weight
  <2>3. Occ(toSwitch'[t], DownClaim(id)) = Occ(toSwitch[t], DownClaim(id))
    <3>1. CASE UNCHANGED toSwitch
      BY <3>1
    <3>2. CASE /\ toSwitch[s] # <<>> /\ Consume(s)
               /\ Received(s).type # "PACKET_OUT"
      <4>1. /\ Occ(toSwitch'[t], DownClaim(id)) \in Nat
            /\ Occ(toSwitch[t], DownClaim(id))
                 = Occ(toSwitch'[t], DownClaim(id))
                     + Weight(t = s /\ Received(s) \in DownClaim(id))
        BY <3>2, DownCounted
      <4>2. Received(s) \notin DownClaim(id)
        BY <3>2 DEF DownClaim
      <4> QED BY <4>1, <4>2 DEF Weight
    <3> QED BY <3>1, <3>2
  <2> QED BY <2>2, <2>3 DEF Claims
<1>2. ASSUME NEW t \in Switch, NEW n \in Waiting(t)', n.type = "PACKET_IN"
      PROVE  n \in Waiting(t)
  <2>1. Elems(toController'[t])
          = Elems(toController[t]) \cup (IF t = s THEN {m} ELSE {})
    BY UpCounted
  <2> QED BY <1>2, <2>1 DEF Waiting
<1> QED BY <1>1, <1>2, ClaimsKept

\* A switch that takes a message which claims nothing.
LEMMA ReceivingKeepsClaims ==
  ASSUME Inv, ClaimInv, NEW s \in Switch, toSwitch[s] # <<>>, Consume(s),
         Received(s).type # "PACKET_OUT", UNCHANGED <<toController, ctrl, buffer>>
  PROVE  ClaimInv'
<1>1. ASSUME NEW t \in Switch, NEW id \in BufferId
      PROVE  Claims(t, id)' = Claims(t, id)
  <2>1. /\ Occ(toSwitch'[t], DownClaim(id)) \in Nat
        /\ Occ(toSwitch[t], DownClaim(id))
             = Occ(toSwitch'[t], DownClaim(id))
                 + Weight(t = s /\ Received(s) \in DownClaim(id))
    BY DownCounted
  <2>2. Received(s) \notin DownClaim(id)
    BY DEF DownClaim
  <2> QED BY <2>1, <2>2 DEF Weight, Claims
<1>2. \A t \in Switch : Waiting(t)' = Waiting(t)
  BY DEF Waiting
<1> QED BY <1>1, <1>2, ClaimsKept

\* Every step of a switch, as long as its ids are not used up.
LEMMA SwitchKeepsClaims ==
  ASSUME Inv, IdsLeft, ClaimInv, NEW s \in Switch, SwitchStep(s),
         UNCHANGED controllerVars
  PROVE  ClaimInv'
<1> USE DEF controllerVars
<1>1. ASSUME NEW type, Receives(s, type), type # "PACKET_OUT"
      PROVE  toSwitch[s] # <<>> /\ Received(s).type # "PACKET_OUT"
  BY <1>1 DEF Receives
<1>2. CASE connect(s)
  <2>1. /\ SendUp(s, <<Established>>)
        /\ UNCHANGED <<toSwitch, ctrl, buffer>>
    BY <1>2 DEF connect
  <2>2. Established \in UpMessage /\ Established.type # "PACKET_IN"
    BY UpMessages DEF Established
  <2> QED BY <2>1, <2>2, SendingKeepsClaims
<1>3. CASE \E p \in Port : FrameArrives(s, p)
  <2>1. UNCHANGED <<channelVars, ctrl, buffer>>
    BY <1>3 DEF FrameArrives
  <2> QED BY <2>1, ClaimsUntouched
<1>4. CASE ForwardFrame(s)
  <2>1. UNCHANGED <<channelVars, ctrl, buffer>>
    BY <1>4 DEF ForwardFrame
  <2> QED BY <2>1, ClaimsUntouched
<1>5. CASE SendPacketIn(s)
  BY <1>5, StoringKeepsClaims
<1>6. CASE SendCompletePacketIn(s)
  <2> DEFINE m == PacketInFrame(Served(s))
  <2>1. SendUp(s, <<m>>) /\ UNCHANGED <<toSwitch, ctrl, buffer>>
    BY <1>6 DEF SendCompletePacketIn
  <2>2. Served(s) \in Frame
    BY <1>6, FrameServed DEF SendCompletePacketIn, Inv
  <2>3. m \in UpMessage /\ m.type # "PACKET_IN"
    BY <2>2, UpMessages DEF PacketInFrame
  <2> HIDE DEF m
  <2> QED BY <2>1, <2>3, SendingKeepsClaims
<1>7. CASE PacketInOnClosedSocket(s)
  <2>1. UNCHANGED <<channelVars, ctrl, buffer>>
    BY <1>7 DEF PacketInOnClosedSocket, switchVars
  <2> QED BY <2>1, ClaimsUntouched
<1>8. CASE handleFeaturesRequest(s)
  <2>1. /\ toSwitch[s] # <<>> /\ Received(s).type # "PACKET_OUT"
        /\ Consume(s) /\ SendUp(s, <<FeaturesReply>>)
        /\ UNCHANGED <<ctrl, buffer>>
    BY <1>1, <1>8 DEF handleFeaturesRequest, switchVars
  <2>2. FeaturesReply \in UpMessage /\ FeaturesReply.type # "PACKET_IN"
    BY UpMessages DEF FeaturesReply
  <2> QED BY <2>1, <2>2, SendingKeepsClaims
<1>9. CASE handleFlowMod(s)
  <2>1. /\ toSwitch[s] # <<>> /\ Received(s).type # "PACKET_OUT" /\ Consume(s)
        /\ UNCHANGED <<toController, ctrl, buffer>>
    BY <1>1, <1>9 DEF handleFlowMod
  <2> QED BY <2>1, ReceivingKeepsClaims
<1>10. CASE handleCompletePacketOut(s)
  <2>1. /\ toSwitch[s] # <<>> /\ Received(s).type # "PACKET_OUT" /\ Consume(s)
        /\ UNCHANGED <<toController, ctrl, buffer>>
    BY <1>1, <1>10 DEF handleCompletePacketOut, switchVars
  <2> QED BY <2>1, ReceivingKeepsClaims
<1>11. CASE handlePacketOut(s)
  <2> DEFINE id == Received(s).buffer_id
  <2>1. CASE id \in DOMAIN buffer[s].pending_msgs
    <3>1. /\ Receives(s, "PACKET_OUT") /\ Consume(s)
          /\ buffer' = [buffer EXCEPT ![s] = returnMessage(@, id)]
          /\ UNCHANGED <<toController, ctrl>>
      BY <1>11, <2>1 DEF handlePacketOut
    <3> QED BY <3>1, TakingKeepsClaims
  <2>2. CASE id \notin DOMAIN buffer[s].pending_msgs
    <3>1. UNCHANGED <<channelVars, ctrl, buffer>>
      BY <1>11, <2>2 DEF handlePacketOut, channelVars
    <3> QED BY <3>1, ClaimsUntouched
  <2> QED BY <2>1, <2>2
<1>12. CASE dropBuffered(s)
  <2> DEFINE id == Received(s).buffer_id
  <2>1. CASE id \in DOMAIN buffer[s].pending_msgs
    <3>1. /\ Receives(s, "PACKET_OUT") /\ Consume(s)
          /\ buffer' = [buffer EXCEPT ![s] = returnMessage(@, id)]
          /\ UNCHANGED <<toController, ctrl>>
      BY <1>12, <2>1 DEF dropBuffered
    <3> QED BY <3>1, TakingKeepsClaims
  <2>2. CASE id \notin DOMAIN buffer[s].pending_msgs
    <3>1. UNCHANGED <<channelVars, ctrl, buffer>>
      BY <1>12, <2>2 DEF dropBuffered, channelVars
    <3> QED BY <3>1, ClaimsUntouched
  <2> QED BY <2>1, <2>2
<1>13. CASE FlowTimer(s)
  <2>1. UNCHANGED <<channelVars, ctrl, buffer>>
    BY <1>13 DEF FlowTimer
  <2> QED BY <2>1, ClaimsUntouched
<1> QED BY <1>2, <1>3, <1>4, <1>5, <1>6, <1>7, <1>8, <1>9, <1>10, <1>11, <1>12,
           <1>13 DEF SwitchStep, SwitchServes, SwitchReceives

\* Every step of the controller.
LEMMA ControllerKeepsClaims ==
  ASSUME Inv, ClaimInv, ControllerStep, UNCHANGED switchVars
  PROVE  ClaimInv'
<1>1. UNCHANGED buffer
  BY DEF switchVars
<1>2. ASSUME NEW s \in Switch, MessageArrives(s) PROVE ClaimInv'
  <2>1. UNCHANGED toSwitch
    BY <1>2 DEF MessageArrives
  <2>2. ASSUME NEW t \in Switch, NEW id \in BufferId
        PROVE  Claims(t, id)' = Claims(t, id)
    BY <1>2, <2>1, MovesWithClaim DEF Claims
  <2>3. ASSUME NEW t \in Switch, NEW n \in Waiting(t)' PROVE n \in Waiting(t)
    BY <1>2, <2>3, MovesWithClaim DEF Waiting
  <2> QED BY <1>1, <2>2, <2>3, ClaimsKept
<1>3. CASE ControllerServes
  <2> DEFINE out == TheReply
  <2>1. Processes(UpTypes) /\ Answers(out) /\ Reply(out, socketMap')
    BY <1>3, ControllerReplies, ControllerAnswers
  <2> HIDE DEF out
  <2>2. CASE \A s \in Switch : out[s] # <<>> => s \in socketMap'
    <3>1. /\ toSwitch' = [s \in Switch |-> toSwitch[s] \o out[s]]
          /\ ctrl' = Finish(ctrl)
          /\ UNCHANGED toController
      BY <2>1, <2>2 DEF Reply
    <3>2. ASSUME NEW t \in Switch, NEW id \in BufferId
          PROVE  Claims(t, id)' = Claims(t, id)
      <4>1. /\ Occ(Contents(ctrl'), QueuedClaim(t, id)) \in Nat
            /\ Occ(Contents(ctrl), QueuedClaim(t, id))
                 = Occ(Contents(ctrl'), QueuedClaim(t, id))
                     + Weight(t = From /\ Message \in UpClaim(id))
        BY <2>1, <3>1, ServedCounted
      <4>2. toSwitch[t] \in Seq(DownMessage)
        BY ChannelTypes
      <4>3. Occ(toSwitch'[t], DownClaim(id))
              = Occ(toSwitch[t], DownClaim(id))
                  + Weight(t = From /\ Message \in UpClaim(id))
        BY <2>1, <3>1, <4>2, AnswersCounted
      <4>4. /\ Occ(toSwitch[t], DownClaim(id)) \in Nat
            /\ Occ(toController[t], UpClaim(id)) \in Nat
        BY ClaimNumbers
      <4>5. Weight(t = From /\ Message \in UpClaim(id)) \in {0, 1}
        BY DEF Weight
      <4> DEFINE w == Weight(t = From /\ Message \in UpClaim(id))
      <4> HIDE DEF w
      <4>6. /\ Occ(Contents(ctrl), QueuedClaim(t, id))
                 = Occ(Contents(ctrl'), QueuedClaim(t, id)) + w
            /\ Occ(toSwitch'[t], DownClaim(id))
                 = Occ(toSwitch[t], DownClaim(id)) + w
            /\ w \in {0, 1}
        BY <4>1, <4>3, <4>5 DEF w
      <4> QED BY <3>1, <4>1, <4>4, <4>6 DEF Claims
    <3>3. ASSUME NEW t \in Switch, NEW n \in Waiting(t)' PROVE n \in Waiting(t)
      <4>1. Elems(Contents(ctrl')) \subseteq Elems(Contents(ctrl))
        BY <2>1, <3>1, <3>3, ServedCounted
      <4> QED BY <3>1, <3>3, <4>1 DEF Waiting
    <3> QED BY <1>1, <3>2, <3>3, ClaimsKept
  <2>3. CASE ~ \A s \in Switch : out[s] # <<>> => s \in socketMap'
    <3>1. UNCHANGED <<channelVars, ctrl, buffer>>
      BY <1>1, <2>1, <2>3 DEF Reply
    <3> QED BY <3>1, ClaimsUntouched
  <2> QED BY <2>2, <2>3
<1> QED BY <1>2, <1>3 DEF ControllerStep
-----------------------------------------------------------------------------
(* The theorems about the buffered frames.                                 *)

\* The buffers and connections are empty at first.
LEMMA InitChannels ==
  ASSUME Init, NEW s \in Switch
  PROVE  /\ toController[s] = <<>> /\ toSwitch[s] = <<>> /\ Contents(ctrl) = <<>>
         /\ buffer[s] = EmptyBuffer
         /\ Waiting(s) = {}
<1>1. /\ toController[s] = <<>> /\ toSwitch[s] = <<>> /\ Contents(ctrl) = <<>>
  BY DEF Init, LinksInit, ControllerInit, IdleQueue, Contents
<1>2. buffer[s] = EmptyBuffer
  BY DEF Init, SwitchInit
<1>3. Elems(<<>>) = {}
  BY DEF Elems
<1>4. Waiting(s) = {}
  BY <1>1, <1>3 DEF Waiting
<1> QED BY <1>1, <1>2, <1>4

\* At the start no frame is buffered and no message under way.
LEMMA InitClaims == Init => ClaimInv
<1> SUFFICES ASSUME Init PROVE ClaimInv
  OBVIOUS
<1>1. DOMAIN EmptyBuffer.pending_msgs = {}
  BY DEF EmptyBuffer
<1>2. ASSUME NEW T PROVE Occ(<<>>, T) = 0
  <2>1. {i \in DOMAIN <<>> : <<>>[i] \in T} = {}
    OBVIOUS
  <2> QED BY <2>1, FS_EmptySet DEF Occ
<1>3. ClaimedOnce
  BY <1>1, <1>2, InitChannels DEF ClaimedOnce, Claims, Weight
<1>4. IdsBelow /\ Described
  BY <1>1, InitChannels DEF IdsBelow, Described
<1> QED BY <1>3, <1>4 DEF ClaimInv

\* Every step keeps the claims, while the buffer ids last.
LEMMA NextClaims == Inv /\ IdsLeft /\ ClaimInv /\ [Next]_vars => ClaimInv'
<1> SUFFICES ASSUME Inv, IdsLeft, ClaimInv, [Next]_vars PROVE ClaimInv'
  OBVIOUS
<1>1. CASE HostStep
  <2>1. UNCHANGED <<channelVars, ctrl, buffer>>
    BY <1>1 DEF HostStep, switchVars, controllerVars
  <2> QED BY <2>1, ClaimsUntouched
<1>2. ASSUME NEW s \in Switch, OfSwitch(SwitchStep(s)) PROVE ClaimInv'
  BY <1>2, SwitchKeepsClaims DEF OfSwitch
<1>3. CASE OfController(ControllerStep)
  BY <1>3, ControllerKeepsClaims DEF OfController
<1>4. CASE UNCHANGED vars
  <2>1. UNCHANGED <<channelVars, ctrl, buffer>>
    BY <1>4 DEF vars, switchVars, controllerVars
  <2> QED BY <2>1, ClaimsUntouched
<1> QED BY <1>1, <1>2, <1>3, <1>4 DEF Next

\* While the buffer ids last, the claims are as ClaimInv says.
THEOREM ClaimInvariance == Spec /\ []IdsLeft => []ClaimInv
BY InitClaims, NextClaims, Invariance, PTL DEF Spec

\* The claims as the model counts them, place by place.
LEMMA ClaimsByPlace ==
  ASSUME Inv, NEW s \in Switch, NEW id
  PROVE  /\ Cardinality(ClaimsUp(s, id)) = Occ(toController[s], UpClaim(id))
         /\ Cardinality(ClaimsQueued(s, id))
              = Occ(Contents(ctrl), QueuedClaim(s, id))
         /\ Cardinality(ClaimsDown(s, id)) = Occ(toSwitch[s], DownClaim(id))
<1>1. /\ \A i \in DOMAIN toController[s] : toController[s][i] \in UpMessage
      /\ \A i \in DOMAIN toSwitch[s] : toSwitch[s][i] \in DownMessage
      /\ \A i \in DOMAIN Contents(ctrl) : Contents(ctrl)[i] \in Item
  <2>1. /\ toController[s] \in Seq(UpMessage)
        /\ toSwitch[s] \in Seq(DownMessage)
        /\ Contents(ctrl) \in Seq(Item)
    BY ChannelTypes
  <2> QED BY <2>1, LenProperties
<1>2. ClaimsUp(s, id)
        = {i \in DOMAIN toController[s] : toController[s][i] \in UpClaim(id)}
  BY <1>1 DEF ClaimsUp, UpClaim
<1>3. ClaimsDown(s, id)
        = {i \in DOMAIN toSwitch[s] : toSwitch[s][i] \in DownClaim(id)}
  BY <1>1 DEF ClaimsDown, DownClaim
<1>4. ClaimsQueued(s, id)
        = {i \in DOMAIN Contents(ctrl) : Contents(ctrl)[i] \in QueuedClaim(s, id)}
  <2>1. \A i \in DOMAIN Contents(ctrl) : Contents(ctrl)[i].msg \in UpMessage
    BY <1>1 DEF Item
  <2> QED BY <1>1, <2>1 DEF ClaimsQueued, QueuedClaim, UpClaim
<1> QED BY <1>2, <1>3, <1>4 DEF Occ

\* The unanswered messages of the model are those that wait here.
LEMMA UnansweredWait ==
  ASSUME Inv, NEW s \in Switch
  PROVE  Unanswered(s) = Waiting(s)
<1> DEFINE q == Contents(ctrl)
<1>1. /\ \A i \in DOMAIN toController[s] : toController[s][i] \in UpMessage
      /\ \A i \in DOMAIN q : q[i] \in Item
  <2>1. toController[s] \in Seq(UpMessage) /\ q \in Seq(Item)
    BY ChannelTypes
  <2> QED BY <2>1, LenProperties
<1> HIDE DEF q
<1>2. \A i \in DOMAIN q : /\ q[i].msg \in UpMessage
                          /\ q[i] = [from |-> q[i].from, msg |-> q[i].msg]
  BY <1>1 DEF Item
<1>3. ASSUME NEW m
      PROVE  (\E i \in DOMAIN q : q[i].from = s /\ m = q[i].msg)
               <=> m \in UpMessage /\ [from |-> s, msg |-> m] \in Elems(q)
  <2>1. ASSUME NEW i \in DOMAIN q, q[i].from = s, m = q[i].msg
        PROVE  m \in UpMessage /\ [from |-> s, msg |-> m] \in Elems(q)
    <3>1. q[i] = [from |-> s, msg |-> m] /\ m \in UpMessage
      BY <1>2, <2>1
    <3> QED BY <3>1 DEF Elems
  <2>2. ASSUME m \in UpMessage, [from |-> s, msg |-> m] \in Elems(q)
        PROVE  \E i \in DOMAIN q : q[i].from = s /\ m = q[i].msg
    <3>1. PICK i \in DOMAIN q : q[i] = [from |-> s, msg |-> m]
      BY <2>2 DEF Elems
    <3>2. q[i].from = s /\ q[i].msg = m
      BY <3>1
    <3> QED BY <3>2
  <2> QED BY <2>1, <2>2
<1>4. ASSUME NEW m
      PROVE  m \in {q[i].msg : i \in {j \in DOMAIN q : q[j].from = s}}
               <=> m \in UpMessage /\ [from |-> s, msg |-> m] \in Elems(q)
  BY <1>3
<1>5. ASSUME NEW m
      PROVE  m \in {toController[s][i] : i \in DOMAIN toController[s]}
               <=> m \in UpMessage /\ m \in Elems(toController[s])
  BY <1>1 DEF Elems
<1> QED BY <1>4, <1>5 DEF Unanswered, Waiting, q

\* Each frame in a buffer is claimed by exactly one packet-in or packet-out
\* under way, and each of those claims a frame that is there: until the 2^32
\* buffer ids of a switch are used up, no packet-out finds its frame gone, and
\* no frame is forgotten.  Any topology, number of switches, application and
\* order of events.
THEOREM ClaimedExactlyOnce ==
  Spec /\ []IdsLeft => []BufferedFramesClaimedOnce
<1>1. Inv /\ ClaimInv => BufferedFramesClaimedOnce
  BY ClaimsByPlace
     DEF BufferedFramesClaimedOnce, ClaimInv, ClaimedOnce, Claims, Weight
<1> QED BY <1>1, Invariance, ClaimInvariance, PTL

\* A packet-in tells the controller of the very frame that waits under its id.
THEOREM DescribesItsFrame == Spec /\ []IdsLeft => []ClaimsDescribeFrame
<1>1. Inv /\ ClaimInv => ClaimsDescribeFrame
  BY UnansweredWait DEF ClaimsDescribeFrame, ClaimInv, Described, Describes
<1> QED BY <1>1, Invariance, ClaimInvariance, PTL

\* The id in a packet-in is that of a buffered frame.  The run buffer_wrap
\* violates this at the last id, where IdsLeft ends to hold: the wrap of the
\* counter is the only way in which it can fail.
THEOREM OnlyWrapLosesFrames == Spec /\ []IdsLeft => []PacketInIdsStored
<1>1. ClaimsDescribeFrame => PacketInIdsStored
  BY DEF ClaimsDescribeFrame, PacketInIdsStored
<1> QED BY <1>1, DescribesItsFrame, PTL
-----------------------------------------------------------------------------
(* How the messages under way go from one state to the next.               *)

\* A message that begins to wait is one that its switch sends in this step: it
\* is connected, or answers the controller.  A packet-in holds the match as it
\* was read from a frame.
LEMMA WaitingOfSwitch ==
  ASSUME Inv, NEW s \in Switch, SwitchStep(s), UNCHANGED controllerVars,
         NEW t \in Switch, NEW m \in Waiting(t)', m \notin Waiting(t)
  PROVE  /\ t = s
         /\ socket'[s] = "CONNECTING" \/ toSwitch[s] # <<>>
         /\ m.type = "PACKET_IN" => m.match.wildcards = {}
<1> USE DEF controllerVars
<1>1. ASSUME NEW n \in UpMessage, SendUp(s, <<n>>) PROVE t = s /\ m = n
  <2>1. Elems(toController'[t])
          = Elems(toController[t]) \cup (IF t = s THEN {n} ELSE {})
    BY <1>1, UpCounted
  <2> QED BY <2>1 DEF Waiting
<1>2. ASSUME UNCHANGED toController PROVE FALSE
  BY <1>2 DEF Waiting
<1>3. CASE connect(s)
  <2>1. t = s /\ m = Established
    BY <1>1, <1>3, UpMessages DEF connect
  <2>2. socket'[s] = "CONNECTING"
    BY <1>3 DEF connect, Inv, SwitchInv, SwitchTypeOK
  <2> QED BY <2>1, <2>2 DEF Established
<1>4. CASE SendPacketIn(s)
  <2>1. Served(s) \in Frame /\ IsBuffer(buffer[s]) /\ ~isfull(buffer[s])
    BY <1>4, FrameServed DEF SendPacketIn, Inv, SwitchInv, SwitchTypeOK
  <2>2. PacketInHeader(StoredId(buffer[s]), Served(s)) \in UpMessage
    BY <2>1, StoreFits, UpMessages
  <2>3. t = s /\ m = PacketInHeader(StoredId(buffer[s]), Served(s))
    BY <1>1, <1>4, <2>2 DEF SendPacketIn
  <2>4. socket'[s] = "CONNECTING"
    BY <1>4 DEF SendPacketIn
  <2> QED BY <2>3, <2>4 DEF PacketInHeader, ExtractMatch
<1>5. CASE SendCompletePacketIn(s)
  <2>1. Served(s) \in Frame
    BY <1>5, FrameServed DEF SendCompletePacketIn, Inv
  <2>2. t = s /\ m = PacketInFrame(Served(s))
    BY <1>1, <1>5, <2>1, UpMessages DEF SendCompletePacketIn
  <2>3. socket'[s] = "CONNECTING"
    BY <1>5 DEF SendCompletePacketIn
  <2> QED BY <2>2, <2>3 DEF PacketInFrame
<1>6. CASE handleFeaturesRequest(s)
  <2>1. t = s /\ m = FeaturesReply
    BY <1>1, <1>6, UpMessages DEF handleFeaturesRequest
  <2>2. toSwitch[s] # <<>>
    BY <1>6 DEF handleFeaturesRequest, Receives
  <2> QED BY <2>1, <2>2 DEF FeaturesReply
<1>7. \/ connect(s) \/ SendPacketIn(s) \/ SendCompletePacketIn(s)
      \/ handleFeaturesRequest(s)
      \/ UNCHANGED toController
  <2>1. (\E p \in Port : FrameArrives(s, p)) => UNCHANGED toController
    BY DEF FrameArrives, channelVars
  <2>2. /\ ForwardFrame(s) => UNCHANGED toController
        /\ PacketInOnClosedSocket(s) => UNCHANGED toController
    BY DEF ForwardFrame, PacketInOnClosedSocket, channelVars
  <2>3. /\ handleFlowMod(s) => UNCHANGED toController
        /\ handlePacketOut(s) => UNCHANGED toController
        /\ dropBuffered(s) => UNCHANGED toController
        /\ handleCompletePacketOut(s) => UNCHANGED toController
    BY DEF handleFlowMod, handlePacketOut, dropBuffered, handleCompletePacketOut
  <2>4. FlowTimer(s) => UNCHANGED toController
    BY DEF FlowTimer, channelVars
  <2> QED BY <2>1, <2>2, <2>3, <2>4
          DEF SwitchStep, SwitchServes, SwitchReceives
<1> QED BY <1>2, <1>3, <1>4, <1>5, <1>6, <1>7

\* The controller lets no message begin to wait.
LEMMA WaitingOfController ==
  ASSUME Inv, ControllerStep, NEW t \in Switch, NEW m \in Waiting(t)'
  PROVE  m \in Waiting(t)
<1>1. ASSUME NEW s \in Switch, MessageArrives(s) PROVE m \in Waiting(t)
  BY <1>1, MovesWithClaim DEF Waiting
<1>2. CASE ControllerServes
  <2>1. Processes(UpTypes) /\ Reply(TheReply, socketMap')
    BY <1>2, ControllerReplies
  <2>2. UNCHANGED toController /\ (ctrl' = Finish(ctrl) \/ ctrl' = ctrl)
    BY <2>1 DEF Reply, channelVars
  <2>3. Elems(Contents(ctrl')) \subseteq Elems(Contents(ctrl))
    BY <2>1, <2>2, ServedCounted
  <2> QED BY <2>2, <2>3 DEF Waiting
<1> QED BY <1>1, <1>2 DEF ControllerStep

\* A switch takes messages of the controller and adds none.
LEMMA DownOfSwitch ==
  ASSUME Inv, NEW s \in Switch, SwitchStep(s), NEW t \in Switch
  PROVE  /\ Elems(toSwitch'[t]) \subseteq Elems(toSwitch[t])
         /\ toSwitch[t] = <<>> => toSwitch'[t] = <<>>
<1>1. UNCHANGED toSwitch \/ (toSwitch[s] # <<>> /\ Consume(s))
  <2>1. /\ connect(s) => UNCHANGED toSwitch
        /\ (\E p \in Port : FrameArrives(s, p)) => UNCHANGED toSwitch
        /\ FlowTimer(s) => UNCHANGED toSwitch
    BY DEF connect, FrameArrives, FlowTimer, channelVars
  <2>2. SwitchServes(s) => UNCHANGED toSwitch
    BY DEF SwitchServes, ForwardFrame, SendPacketIn, SendCompletePacketIn,
           PacketInOnClosedSocket, channelVars
  <2>3. SwitchReceives(s) =>
          UNCHANGED toSwitch \/ (toSwitch[s] # <<>> /\ Consume(s))
    BY DEF SwitchReceives, handleFeaturesRequest, handleFlowMod,
           handlePacketOut, dropBuffered, handleCompletePacketOut, Receives
  <2> QED BY <2>1, <2>2, <2>3 DEF SwitchStep
<1>2. CASE UNCHANGED toSwitch
  BY <1>2
<1>3. CASE toSwitch[s] # <<>> /\ Consume(s)
  <2>1. Elems(toSwitch'[t]) \subseteq Elems(toSwitch[t])
    BY <1>3, DownCounted
  <2>2. toSwitch[t] = <<>> => toSwitch'[t] = <<>>
    BY <1>3, ChannelTypes DEF Consume
  <2> QED BY <2>1, <2>2
<1> QED BY <1>1, <1>2, <1>3

\* What the controller adds is its reply, to switches that it knows.
LEMMA DownOfController ==
  ASSUME Inv, ControllerStep, NEW t \in Switch
  PROVE  \/ toSwitch'[t] = toSwitch[t]
         \/ /\ ControllerServes
            /\ Elems(toSwitch'[t]) = Elems(toSwitch[t]) \cup Elems(TheReply[t])
            /\ TheReply[t] \in Seq(DownMessage)
            /\ t \in socketMap'
<1>1. (\E s \in Switch : MessageArrives(s)) => UNCHANGED toSwitch
  BY DEF MessageArrives
<1>2. CASE ControllerServes
  <2>1. /\ Processes(UpTypes) /\ Reply(TheReply, socketMap')
        /\ Answers(TheReply)
    BY <1>2, ControllerReplies, ControllerAnswers
  <2> DEFINE out == TheReply
  <2> HIDE DEF out
  <2>2. CASE \A s \in Switch : out[s] # <<>> => s \in socketMap'
    <3>1. toSwitch'[t] = toSwitch[t] \o out[t]
      BY <2>1, <2>2 DEF Reply, out
    <3>2. toSwitch[t] \in Seq(DownMessage)
      BY ChannelTypes
    <3>3. CASE out[t] = <<>>
      BY <3>1, <3>2, <3>3, ConcatEmptySeq
    <3>4. CASE out[t] # <<>>
      <4>1. out[t] \in Seq(DownMessage)
        <5>1. ASSUME NEW a, TakesOver(a, Message) \/ NoClaim(a)
              PROVE  a \in DownMessage
          BY <5>1 DEF TakesOver, NoClaim
        <5>2. \/ \E a : a \in DownMessage /\ out[t] = <<a>>
              \/ \E a, b : /\ a \in DownMessage /\ b \in DownMessage
                           /\ out[t] \in {<<a, b>>, <<b, a>>}
          <6>1. CASE t = From
            BY <2>1, <3>4, <5>1, <6>1 DEF Answers, Settles, out
          <6>2. CASE t # From
            BY <2>1, <3>4, <5>1, <6>2 DEF Answers, out
          <6> QED BY <6>1, <6>2
        <5>3. \A a, b \in DownMessage :
                /\ <<a>> \in Seq(DownMessage)
                /\ <<a, b>> \in Seq(DownMessage)
          OBVIOUS
        <5>4. CASE \E a : a \in DownMessage /\ out[t] = <<a>>
          BY <5>3, <5>4, Zenon
        <5>5. CASE \E a, b : /\ a \in DownMessage /\ b \in DownMessage
                              /\ out[t] \in {<<a, b>>, <<b, a>>}
          BY <5>3, <5>5, Zenon
        <5> QED BY <5>2, <5>4, <5>5
      <4>2. t \in socketMap'
        BY <2>2, <3>4
      <4> QED BY <1>2, <3>1, <3>2, <4>1, <4>2, ElemsConcat DEF out
    <3> QED BY <3>3, <3>4
  <2>3. CASE ~ \A s \in Switch : out[s] # <<>> => s \in socketMap'
    BY <2>1, <2>3 DEF Reply, out, channelVars
  <2> QED BY <2>2, <2>3
<1> QED BY <1>1, <1>2 DEF ControllerStep
-----------------------------------------------------------------------------
(* Runtime errors.                                                         *)

\* No message travels to or from a switch that has not opened its connection,
\* and the controller does not know it.
ConnectedFirst ==
  \A s \in Switch : socket[s] = "BOUND" =>
    s \notin socketMap /\ toSwitch[s] = <<>> /\ Waiting(s) = {}

\* At the start no switch is connected.
LEMMA InitConnected == Init => ConnectedFirst
<1> SUFFICES ASSUME Init PROVE ConnectedFirst
  OBVIOUS
<1>1. socketMap = {}
  BY DEF Init, ControllerInit
<1> QED BY <1>1, InitChannels DEF ConnectedFirst

\* A message needs a connection, and connect() comes before all of them.
LEMMA NextConnected == Inv /\ ConnectedFirst /\ [Next]_vars => ConnectedFirst'
<1> SUFFICES ASSUME Inv, ConnectedFirst, [Next]_vars,
                    NEW t \in Switch, socket'[t] = "BOUND"
             PROVE  t \notin socketMap' /\ toSwitch'[t] = <<>> /\ Waiting(t)' = {}
  BY DEF ConnectedFirst
<1>1. socket[t] = "BOUND" => t \notin socketMap /\ toSwitch[t] = <<>> /\ Waiting(t) = {}
  BY DEF ConnectedFirst
<1>2. ASSUME UNCHANGED <<channelVars, socket, socketMap, ctrl>>
      PROVE  t \notin socketMap' /\ toSwitch'[t] = <<>> /\ Waiting(t)' = {}
  BY <1>1, <1>2 DEF channelVars, Waiting
<1>3. CASE HostStep
  BY <1>2, <1>3 DEF HostStep, switchVars, controllerVars
<1>4. CASE UNCHANGED vars
  BY <1>2, <1>4 DEF vars, switchVars, controllerVars
<1>5. ASSUME NEW s \in Switch, OfSwitch(SwitchStep(s))
      PROVE  t \notin socketMap' /\ toSwitch'[t] = <<>> /\ Waiting(t)' = {}
  <2>1. SwitchStep(s) /\ UNCHANGED controllerVars
    BY <1>5 DEF OfSwitch
  <2>2. socket[t] = "BOUND"
    <3>1. connect(s) => socket' = [socket EXCEPT ![s] = "CONNECTING"]
      BY DEF connect
    <3>2. connect(s) \/ UNCHANGED socket
      BY <2>1 DEF SwitchStep, SwitchServes, SwitchReceives, FrameArrives,
                  ForwardFrame, SendPacketIn, SendCompletePacketIn,
                  PacketInOnClosedSocket, handleFeaturesRequest, handleFlowMod,
                  handlePacketOut, dropBuffered, handleCompletePacketOut,
                  FlowTimer, switchVars
    <3>3. socket \in [Switch -> {"BOUND", "CONNECTING"}]
      BY DEF Inv, SwitchInv, SwitchTypeOK
    <3> QED BY <3>1, <3>2, <3>3
  <2>3. t \notin socketMap'
    BY <1>1, <2>1, <2>2 DEF controllerVars
  <2>4. toSwitch'[t] = <<>>
    BY <1>1, <2>1, <2>2, DownOfSwitch
  <2>5. ASSUME NEW m \in Waiting(t)' PROVE FALSE
    <3>1. m \notin Waiting(t)
      BY <1>1, <2>2
    <3>2. t = s /\ (socket'[s] = "CONNECTING" \/ toSwitch[s] # <<>>)
      BY <2>1, <3>1, WaitingOfSwitch
    <3> QED BY <1>1, <2>2, <3>2
  <2> QED BY <2>3, <2>4, <2>5
<1>6. CASE OfController(ControllerStep)
  <2>1. ControllerStep /\ UNCHANGED switchVars
    BY <1>6 DEF OfController
  <2>2. t \notin socketMap /\ toSwitch[t] = <<>> /\ Waiting(t) = {}
    BY <1>1, <2>1 DEF switchVars
  <2>3. t \notin socketMap'
    <3>1. CASE \E s \in Switch : MessageArrives(s)
      BY <2>2, <3>1 DEF MessageArrives
    <3>2. CASE ControllerServes
      <4>1. /\ socketMap' \subseteq socketMap \cup {From}
            /\ Processes(UpTypes)
        BY <3>2, ControllerReplies
      <4>2. Message \in Waiting(From)
        BY <4>1, ServedWaits
      <4> QED BY <2>2, <4>1, <4>2
    <3> QED BY <2>1, <3>1, <3>2 DEF ControllerStep
  <2>4. toSwitch'[t] = <<>>
    BY <2>1, <2>2, <2>3, DownOfController
  <2>5. Waiting(t)' = {}
    BY <2>1, <2>2, WaitingOfController
  <2> QED BY <2>3, <2>4, <2>5
<1> QED BY <1>3, <1>4, <1>5, <1>6 DEF Next

\* A packet-out finds its frame in the buffer.
LEMMA FrameIsThere ==
  ASSUME Inv, ClaimInv, NEW s \in Switch, NEW m \in Elems(toSwitch[s]),
         m.type = "PACKET_OUT"
  PROVE  m.buffer_id \in DOMAIN buffer[s].pending_msgs
<1> DEFINE id == m.buffer_id
<1>1. toSwitch[s] \in Seq(DownMessage)
  BY ChannelTypes
<1>2. m \in DownMessage
  BY <1>1, LenProperties DEF Elems
<1>3. id \in BufferId /\ m \in DownClaim(id)
  BY <1>2, DownFields DEF DownClaim
<1>4. \E i \in DOMAIN toSwitch[s] : toSwitch[s][i] \in DownClaim(id)
  BY <1>3 DEF Elems
<1>5. Occ(toSwitch[s], DownClaim(id)) # 0
  BY <1>1, <1>4, OccPositive
<1>6. /\ Occ(toController[s], UpClaim(id)) \in Nat
      /\ Occ(Contents(ctrl), QueuedClaim(s, id)) \in Nat
      /\ Occ(toSwitch[s], DownClaim(id)) \in Nat
  BY ClaimNumbers
<1>7. Claims(s, id) = IF id \in DOMAIN buffer[s].pending_msgs THEN 1 ELSE 0
  BY <1>3 DEF ClaimInv, ClaimedOnce, Weight
<1>8. Claims(s, id) # 0
  BY <1>5, <1>6 DEF Claims
<1> QED BY <1>7, <1>8

\* A step that ends the simulation leaves a switch unknown to the controller.
LEMMA NextAborts ==
  /\ Inv /\ ClaimInv /\ ConnectedFirst /\ AbortsOnlyBeforeConnected /\ [Next]_vars
  => AbortsOnlyBeforeConnected'
<1> SUFFICES ASSUME Inv, ClaimInv, ConnectedFirst, AbortsOnlyBeforeConnected,
                    [Next]_vars, aborted'
             PROVE  socketMap' # Switch
  BY DEF AbortsOnlyBeforeConnected
<1>1. CASE UNCHANGED vars
  BY <1>1 DEF vars, controllerVars, AbortsOnlyBeforeConnected
<1>2. CASE HostStep
  BY <1>2 DEF HostStep
<1>3. ASSUME NEW s \in Switch, OfSwitch(SwitchStep(s)) PROVE socketMap' # Switch
  <2>1. SwitchStep(s) /\ ~aborted /\ UNCHANGED socketMap
    BY <1>3 DEF OfSwitch, controllerVars
  <2>2. \/ PacketInOnClosedSocket(s)
        \/ /\ Receives(s, "PACKET_OUT")
           /\ Received(s).buffer_id \notin DOMAIN buffer[s].pending_msgs
    <3>1. /\ ~connect(s) /\ ~FlowTimer(s) /\ ~\E p \in Port : FrameArrives(s, p)
      BY <2>1 DEF connect, FlowTimer, FrameArrives
    <3>2. SwitchServes(s) => PacketInOnClosedSocket(s)
      BY <2>1 DEF SwitchServes, ForwardFrame, SendPacketIn, SendCompletePacketIn
    <3>3. SwitchReceives(s) => handlePacketOut(s) \/ dropBuffered(s)
      BY <2>1 DEF SwitchReceives, handleFeaturesRequest, handleFlowMod,
                  handleCompletePacketOut
    <3>4. handlePacketOut(s) \/ dropBuffered(s) =>
            /\ Receives(s, "PACKET_OUT")
            /\ Received(s).buffer_id \notin DOMAIN buffer[s].pending_msgs
      BY <2>1 DEF handlePacketOut, dropBuffered
    <3> QED BY <2>1, <3>1, <3>2, <3>3, <3>4 DEF SwitchStep
  <2>3. CASE PacketInOnClosedSocket(s)
    <3>1. s \notin socketMap
      BY <2>3 DEF PacketInOnClosedSocket, ConnectedFirst
    <3> QED BY <2>1, <3>1
  <2>4. ASSUME Receives(s, "PACKET_OUT")
        PROVE  Received(s).buffer_id \in DOMAIN buffer[s].pending_msgs
    <3>1. toSwitch[s] # <<>> /\ Received(s).type = "PACKET_OUT"
      BY <2>4 DEF Receives
    <3>2. Received(s) \in Elems(toSwitch[s])
      BY <3>1, ChannelTypes, ElemsTail DEF Received
    <3> QED BY <3>1, <3>2, FrameIsThere
  <2> QED BY <2>2, <2>3, <2>4
<1>4. CASE OfController(ControllerStep)
  <2>1. ControllerStep /\ ~aborted
    BY <1>4 DEF OfController
  <2>2. ControllerServes
    BY <2>1 DEF ControllerStep, MessageArrives
  <2>3. Reply(TheReply, socketMap')
    BY <2>2, ControllerReplies
  <2>4. \E s \in Switch : s \notin socketMap'
    BY <2>1, <2>3 DEF Reply
  <2> QED BY <2>4
<1> QED BY <1>1, <1>2, <1>3, <1>4 DEF Next

\* The simulation ends with a runtime error only while the controller does not
\* know every switch: once all are connected, no order of events leads to one,
\* as long as the buffer ids last.  No packet-out then misses its frame, be it
\* to send the frame on or to delete it.
THEOREM AbortsEarly == Spec /\ []IdsLeft => []AbortsOnlyBeforeConnected
<1>1. Init => AbortsOnlyBeforeConnected
  BY DEF Init, LinksInit, AbortsOnlyBeforeConnected
<1> QED BY <1>1, InitConnected, NextConnected, NextAborts, Invariance,
           ClaimInvariance, PTL DEF Spec
-----------------------------------------------------------------------------
(* The flow table.                                                         *)

\* addEntry adds one entry, somewhere.
LEMMA AddedGrows ==
  ASSUME NEW table \in Seq(Entry), NEW e \in Entry, NEW t \in addEntry(table, e)
  PROVE  \E k : Grown(table, t, k) /\ t[k] = e
<1>1. PICK k \in 1..(Len(table) + 1) : t = Splice(table, k, e)
  BY DEF addEntry
<1>2. Len(table) \in Nat
  BY LenProperties
<1>3. \A i \in 1..(Len(table) + 1) :
        t[i] = IF i < k THEN table[i] ELSE IF i = k THEN e ELSE table[i - 1]
  BY <1>1 DEF Splice
<1>4. Len(t) = Len(table) + 1
  <2>1. DOMAIN t = 1..(Len(table) + 1) /\ t \in Seq(Entry)
    BY <1>1, AddedIsTable DEF Splice
  <2> QED BY <1>2, <2>1
<1>5. t[k] = e
  BY <1>2, <1>3
<1>6. \A i \in 1..Len(table) : table[i] = t[IF i < k THEN i ELSE i + 1]
  BY <1>2, <1>3
<1> QED BY <1>4, <1>5, <1>6 DEF Grown

\* deleteEntry removes the first entry that matches and nothing else.
LEMMA DeletedShrinks ==
  ASSUME NEW table \in Seq(Entry), NEW m, lookup(table, m)
  PROVE  \E k : /\ Grown(deleteEntry(table, m), table, k)
                /\ Hits(table, m, k)
<1> DEFINE k == FirstHit(table, m)
           t == [i \in 1..(Len(table) - 1) |->
                   IF i < k THEN table[i] ELSE table[i + 1]]
<1>1. deleteEntry(table, m) = t
  BY DEF deleteEntry
<1>2. k \in DOMAIN table /\ Hits(table, m, k)
  BY FirstHitHits
<1>3. Len(table) \in Nat /\ DOMAIN table = 1..Len(table)
  BY LenProperties
<1> HIDE DEF k
<1>4. Len(t) = Len(table) - 1
  <2>1. DOMAIN t = 1..(Len(table) - 1) /\ t \in Seq(Entry)
    BY <1>1, DeletedIsTable
  <2> QED BY <1>2, <1>3, <2>1
<1>5. \A i \in 1..Len(t) : t[i] = table[IF i < k THEN i ELSE i + 1]
  BY <1>3, <1>4
<1> QED BY <1>1, <1>2, <1>3, <1>4, <1>5 DEF Grown
-----------------------------------------------------------------------------
(* What the controller sends.                                              *)

\* The messages of a reply, one by one.
LEMMA Replies ==
  ASSUME Message.type \in UpTypes, NEW t \in Switch, NEW m \in Elems(TheReply[t])
  PROVE  \/ m = FeaturesRequest
         \/ /\ Behavior # "Forwarding"
            /\ Message.type \in PacketIns
            /\ m = PacketOut(Message, FloodPort)
         \/ /\ Behavior = "Switch"
            /\ Message.type \in PacketIns
            /\ t = From
            /\ Header(Message).eth_dst \in DOMAIN Learned
            /\ LET p == Learned[Header(Message).eth_dst]
               IN  m \in {FlowMod(Header(Message), p), PacketOut(Message, p)}
         \/ /\ Behavior = "Forwarding"
            /\ Message.type \in PacketIns
            /\ m.type = "FLOW_MOD" => m.match = RouteMatch(Header(Message))
<1> DEFINE hdr == Header(Message)
           p == Learned[hdr.eth_dst]
<1>1. \A s, ms : Elems(Only(s, ms)[t]) = IF t = s THEN Elems(ms) ELSE {}
  BY ElemsShort DEF Only
<1>2. CASE Message.type = "ESTABLISHED"
  BY <1>1, <1>2, ElemsShort DEF TheReply
<1>3. CASE Message.type = "FEATURES_REPLY"
  <2>1. TheReply[t] = <<>>
    BY <1>3 DEF TheReply
  <2> QED BY <2>1, ElemsShort
<1>4. CASE Message.type \in PacketIns /\ Behavior = "Hub"
  <2>1. TheReply = Only(From, <<PacketOut(Message, FloodPort)>>)
    BY <1>4 DEF TheReply, PacketIns
  <2> QED BY <1>1, <1>4, <2>1, ElemsShort
<1>5. CASE Message.type \in PacketIns /\ Behavior = "Switch"
  <2>1. TheReply = Only(From, Decision(Learned, Message))
    BY <1>5 DEF TheReply, PacketIns
  <2>2. t = From /\ m \in Elems(Decision(Learned, Message))
    BY <1>1, <2>1
  <2>3. CASE hdr.eth_dst \in DOMAIN Learned
    <3>1. Decision(Learned, Message) = <<FlowMod(hdr, p), PacketOut(Message, p)>>
      BY <2>3 DEF Decision
    <3>2. m \in {FlowMod(hdr, p), PacketOut(Message, p)}
      BY <2>2, <3>1, ElemsShort
    <3> QED BY <1>5, <2>2, <2>3, <3>2
  <2>4. CASE hdr.eth_dst \notin DOMAIN Learned
    <3>1. Decision(Learned, Message) = <<PacketOut(Message, FloodPort)>>
      BY <2>4 DEF Decision
    <3> QED BY <1>5, <2>2, <3>1, ElemsShort
  <2> QED BY <2>3, <2>4
<1>6. CASE Message.type \in PacketIns /\ Behavior = "Forwarding"
  <2>1. TheReply = Answer(From, Message)
    BY <1>6 DEF TheReply, PacketIns
  <2>2. \A q : PacketOut(Message, q).type # "FLOW_MOD"
    BY DEF PacketOut, PacketOutFrame, PacketOutHeader
  <2>3. CASE hdr.eth_dst \in Topology
    <3> DEFINE mod == FlowMod(RouteMatch(hdr), NextPort[t][hdr.eth_dst])
               out == PacketOut(Message, NextPort[From][hdr.eth_dst])
    <3>1. TheReply[t] = IF t = From THEN <<mod, out>>
                        ELSE IF OnPath(t, From, hdr.eth_dst) THEN <<mod>>
                        ELSE <<>>
      BY <2>1, <2>3 DEF Answer, Route
    <3>2. m \in {mod, out}
      <4> HIDE DEF mod, out
      <4> QED BY <3>1, ElemsShort
    <3> QED BY <1>6, <2>2, <3>2 DEF FlowMod
  <2>4. CASE hdr.eth_dst \notin Topology /\ processARPPacket(Message)
    <3>1. TheReply = Only(From, ArpAnswer(Message))
      BY <2>1, <2>4 DEF Answer
    <3>2. m \in Elems(ArpAnswer(Message))
      BY <1>1, <3>1
    <3>3. m.type # "FLOW_MOD"
      BY <3>2, ElemsShort DEF ArpAnswer, PacketOutFrame, PacketOutHeader
    <3> QED BY <1>6, <3>3
  <2>5. CASE hdr.eth_dst \notin Topology /\ ~processARPPacket(Message)
    <3>1. TheReply = Only(From, <<PacketOut(Message, FloodPort)>>)
      BY <2>1, <2>5 DEF Answer
    <3>2. m = PacketOut(Message, FloodPort)
      BY <1>1, <3>1, ElemsShort
    <3> QED BY <1>6, <2>2, <3>2
  <2> QED BY <2>3, <2>4, <2>5
<1> QED BY <1>2, <1>3, <1>4, <1>5, <1>6, BehaviorAssumption DEF UpTypes
-----------------------------------------------------------------------------
(* The matches in the flow tables.                                         *)

\* The matches that the control applications put into flow entries: Forwarding
\* does not look at the port a frame came in on, the others at every field.
Normal(m) ==
  IF Behavior = "Forwarding" THEN m.in_port = 0 /\ m.wildcards = {"in_port"}
  ELSE m.wildcards = {}

\* They are normal from the packet-in, which has its match from a frame, through
\* the flow modification to the table and its timers.
FlowsNormal ==
  \A s \in Switch :
    /\ \A m \in Elems(timers[s]) : Normal(m)
    /\ \A e \in Elems(entry_map[s]) : Normal(e.match)
    /\ \A m \in Elems(toSwitch[s]) : m.type = "FLOW_MOD" => Normal(m.match)
    /\ \A m \in Waiting(s) : m.type = "PACKET_IN" => m.match.wildcards = {}

\* A match hits an entry only if it is the entry's own.
LEMMA NormalHits ==
  ASSUME NEW m \in Match, NEW n \in Match, Normal(m), Normal(n)
  PROVE  flow_fields_match(m, n, n.wildcards) <=> m = n
<1>1. \A x \in Match :
        x = [in_port |-> x.in_port, eth_src |-> x.eth_src,
             eth_dst |-> x.eth_dst, eth_type |-> x.eth_type,
             wildcards |-> x.wildcards]
  BY DEF Match
<1>2. CASE Behavior = "Forwarding"
  BY <1>1, <1>2 DEF Normal, flow_fields_match
<1>3. CASE Behavior # "Forwarding"
  BY <1>1, <1>3 DEF Normal, flow_fields_match
<1> QED BY <1>2, <1>3

\* The header that a packet-in tells of has been read from a frame.
LEMMA HeaderIsPlain ==
  ASSUME Inv, FlowsNormal, Processes(UpTypes), Message.type \in PacketIns
  PROVE  Header(Message) \in Match /\ Header(Message).wildcards = {}
<1>1. From \in Switch /\ Message \in UpMessage /\ Message \in Waiting(From)
  BY ServedWaits
<1>2. CASE Message.type = "PACKET_IN"
  <2>1. Header(Message) = Message.match
    BY <1>2 DEF Header
  <2> QED BY <1>1, <1>2, <2>1, PacketInFields DEF FlowsNormal
<1>3. CASE Message.type = "PACKET_IN_FULL"
  <2>1. Message.frame \in Frame /\ Header(Message) = ExtractMatch(Message.frame)
    BY <1>1, <1>3, PacketInFields DEF Header
  <2> QED BY <2>1, ExtractedMatch DEF ExtractMatch
<1> QED BY <1>2, <1>3 DEF PacketIns

\* Every flow entry that the controller asks for is of that kind.
LEMMA RepliesNormal ==
  ASSUME Inv, FlowsNormal, ControllerServes, NEW t \in Switch,
         NEW m \in Elems(TheReply[t]), m.type = "FLOW_MOD"
  PROVE  Normal(m.match)
<1>1. Processes(UpTypes) /\ Message.type \in UpTypes
  BY ControllerReplies
<1>2. m # FeaturesRequest /\ \A p : m # PacketOut(Message, p)
  BY DEF FeaturesRequest, PacketOut, PacketOutFrame, PacketOutHeader
<1>3. CASE Behavior = "Switch" /\ Message.type \in PacketIns
           /\ \E p : m = FlowMod(Header(Message), p)
  BY <1>1, <1>3, HeaderIsPlain DEF Normal, FlowMod
<1>4. CASE Behavior = "Forwarding" /\ Message.type \in PacketIns
           /\ m.match = RouteMatch(Header(Message))
  <2>1. Header(Message) \in Match
    BY <1>1, <1>4, HeaderIsPlain
  <2> QED BY <1>4, <2>1 DEF Normal, RouteMatch, Match
<1> QED BY <1>1, <1>2, <1>3, <1>4, Replies

\* What a switch may do to its table and its timers.
LEMMA TableSteps ==
  ASSUME NEW s \in Switch, SwitchStep(s)
  PROVE  handleFlowMod(s) \/ FlowTimer(s) \/ UNCHANGED <<entry_map, timers>>
<1>1. connect(s) \/ (\E p \in Port : FrameArrives(s, p)) =>
        UNCHANGED <<entry_map, timers>>
  BY DEF connect, FrameArrives
<1>2. SwitchServes(s) => UNCHANGED <<entry_map, timers>>
  BY DEF SwitchServes, ForwardFrame, SendPacketIn, SendCompletePacketIn,
         PacketInOnClosedSocket, switchVars
<1>3. SwitchReceives(s) => handleFlowMod(s) \/ UNCHANGED <<entry_map, timers>>
  BY DEF SwitchReceives, handleFeaturesRequest, handlePacketOut, dropBuffered,
         handleCompletePacketOut, switchVars
<1> QED BY <1>1, <1>2, <1>3 DEF SwitchStep

\* The types of tables and timers.
LEMMA TableTypes ==
  ASSUME Inv, NEW s \in Switch
  PROVE  /\ entry_map \in [Switch -> Seq(Entry)] /\ timers \in [Switch -> Seq(Match)]
         /\ entry_map[s] \in Seq(Entry) /\ timers[s] \in Seq(Match)
BY DEF Inv, SwitchInv, SwitchTypeOK

\* A flow modification: its match gets a timer and its entry a place.
LEMMA FlowModified ==
  ASSUME Inv, NEW s \in Switch, handleFlowMod(s)
  PROVE  LET r == Received(s)
             e == [match |-> r.match, outport |-> r.outport]
         IN  /\ r \in Elems(toSwitch[s]) /\ r.type = "FLOW_MOD"
             /\ r.match \in Match /\ e \in Entry
             /\ \A t \in Switch \ {s} :
                  entry_map'[t] = entry_map[t] /\ timers'[t] = timers[t]
             /\ timers'[s] = Append(timers[s], r.match)
             /\ entry_map'[s] \in Seq(Entry)
             /\ \E k : Grown(entry_map[s], entry_map'[s], k) /\ entry_map'[s][k] = e
<1> DEFINE r == Received(s)
           e == [match |-> r.match, outport |-> r.outport]
<1>1. toSwitch[s] # <<>> /\ r.type = "FLOW_MOD"
  BY DEF handleFlowMod, Receives
<1>2. r \in Elems(toSwitch[s]) /\ r \in DownMessage
  BY <1>1, ChannelTypes, ElemsTail DEF Received
<1>3. r.match \in Match /\ e \in Entry
  BY <1>1, <1>2, DownFields DEF Entry
<1>4. /\ \E table \in addEntry(entry_map[s], e) :
            entry_map' = [entry_map EXCEPT ![s] = table]
      /\ timers' = [timers EXCEPT ![s] = Append(@, r.match)]
  BY DEF handleFlowMod
<1> HIDE DEF r, e
<1>5. entry_map'[s] \in addEntry(entry_map[s], e)
  BY <1>4, TableTypes
<1>6. /\ \A t \in Switch \ {s} :
           entry_map'[t] = entry_map[t] /\ timers'[t] = timers[t]
      /\ timers'[s] = Append(timers[s], r.match)
  BY <1>4, TableTypes
<1>7. /\ entry_map'[s] \in Seq(Entry)
      /\ \E k : Grown(entry_map[s], entry_map'[s], k) /\ entry_map'[s][k] = e
  BY <1>3, <1>5, TableTypes, AddedIsTable, AddedGrows
<1> QED BY <1>1, <1>2, <1>3, <1>6, <1>7 DEF r, e

\* A timer: the entry that its match hits first goes, if there is one.
LEMMA TimerFired ==
  ASSUME Inv, NEW s \in Switch, FlowTimer(s)
  PROVE  LET m == Head(timers[s])
         IN  /\ timers[s] # <<>> /\ m \in Match /\ m \in Elems(timers[s])
             /\ \A t \in Switch \ {s} :
                  entry_map'[t] = entry_map[t] /\ timers'[t] = timers[t]
             /\ timers'[s] = Tail(timers[s])
             /\ entry_map'[s] \in Seq(Entry)
             /\ \/ /\ ~lookup(entry_map[s], m)
                   /\ entry_map'[s] = entry_map[s]
                \/ \E k : /\ Grown(entry_map'[s], entry_map[s], k)
                          /\ Hits(entry_map[s], m, k)
<1> DEFINE m == Head(timers[s])
<1>1. timers[s] # <<>>
  BY DEF FlowTimer
<1>2. m \in Match /\ m \in Elems(timers[s])
  BY <1>1, TableTypes, ElemsTail
<1>3. /\ entry_map' = [entry_map EXCEPT ![s] = deleteEntry(@, m)]
      /\ timers' = [timers EXCEPT ![s] = Tail(@)]
  BY DEF FlowTimer
<1> HIDE DEF m
<1>4. /\ \A t \in Switch \ {s} :
           entry_map'[t] = entry_map[t] /\ timers'[t] = timers[t]
      /\ timers'[s] = Tail(timers[s])
      /\ entry_map'[s] = deleteEntry(entry_map[s], m)
  BY <1>3, TableTypes
<1>5. entry_map'[s] \in Seq(Entry)
  BY <1>4, TableTypes, DeletedIsTable
<1>6. CASE lookup(entry_map[s], m)
  <2>1. \E k : /\ Grown(entry_map'[s], entry_map[s], k)
               /\ Hits(entry_map[s], m, k)
    BY <1>4, <1>6, TableTypes, DeletedShrinks
  <2> QED BY <1>1, <1>2, <1>4, <1>5, <2>1 DEF m
<1>7. CASE ~lookup(entry_map[s], m)
  <2>1. entry_map'[s] = entry_map[s]
    BY <1>4, <1>7 DEF deleteEntry
  <2> QED BY <1>1, <1>2, <1>4, <1>5, <1>7, <2>1 DEF m
<1> QED BY <1>6, <1>7

\* At the start there are no matches.
LEMMA InitFlows == Init => FlowsNormal
<1> SUFFICES ASSUME Init, NEW s \in Switch
             PROVE  /\ timers[s] = <<>> /\ entry_map[s] = <<>>
                    /\ toSwitch[s] = <<>> /\ Waiting(s) = {}
  BY ElemsShort DEF FlowsNormal
<1> QED BY InitChannels DEF Init, SwitchInit

\* Matches stay normal: those of the entries asked for are, and tables and
\* timers get them from there.
LEMMA NextFlows == Inv /\ FlowsNormal /\ [Next]_vars => FlowsNormal'
<1> SUFFICES ASSUME Inv, FlowsNormal, [Next]_vars PROVE FlowsNormal'
  OBVIOUS
<1>1. ASSUME UNCHANGED <<channelVars, ctrl, entry_map, timers>> PROVE FlowsNormal'
  BY <1>1 DEF FlowsNormal, Waiting, channelVars, Normal
<1>2. CASE HostStep
  BY <1>1, <1>2 DEF HostStep, switchVars, controllerVars
<1>3. CASE UNCHANGED vars
  BY <1>1, <1>3 DEF vars, switchVars, controllerVars
<1>4. ASSUME NEW s \in Switch, OfSwitch(SwitchStep(s)) PROVE FlowsNormal'
  <2>1. SwitchStep(s) /\ UNCHANGED controllerVars
    BY <1>4 DEF OfSwitch
  <2>2. ASSUME NEW t \in Switch
        PROVE  /\ \A m \in Elems(toSwitch'[t]) : m.type = "FLOW_MOD" => Normal(m.match)
               /\ \A m \in Waiting(t)' : m.type = "PACKET_IN" => m.match.wildcards = {}
    BY <2>1, <2>2, DownOfSwitch, WaitingOfSwitch DEF FlowsNormal
  <2>3. ASSUME NEW t \in Switch
        PROVE  /\ \A m \in Elems(timers'[t]) : Normal(m)
               /\ \A e \in Elems(entry_map'[t]) : Normal(e.match)
    <3>1. /\ \A m \in Elems(timers[t]) : Normal(m)
          /\ \A e \in Elems(entry_map[t]) : Normal(e.match)
      BY DEF FlowsNormal
    <3>2. CASE UNCHANGED <<entry_map, timers>>
      BY <3>1, <3>2
    <3>3. CASE handleFlowMod(s)
      <4> DEFINE r == Received(s)
                 e == [match |-> r.match, outport |-> r.outport]
      <4>1. /\ r \in Elems(toSwitch[s]) /\ r.type = "FLOW_MOD" /\ r.match \in Match
            /\ t # s => entry_map'[t] = entry_map[t] /\ timers'[t] = timers[t]
            /\ timers'[s] = Append(timers[s], r.match)
            /\ entry_map'[s] \in Seq(Entry)
            /\ \E k : Grown(entry_map[s], entry_map'[s], k) /\ entry_map'[s][k] = e
        BY <3>3, FlowModified
      <4>2. Normal(r.match) /\ e.match = r.match
        BY <4>1 DEF FlowsNormal
      <4> HIDE DEF r, e
      <4>3. /\ Elems(timers'[s]) = Elems(timers[s]) \cup {r.match}
            /\ Elems(entry_map'[s]) = Elems(entry_map[s]) \cup {e}
        BY <4>1, TableTypes, ElemsAppended, GrownElems
      <4> QED BY <3>1, <4>1, <4>2, <4>3
    <3>4. CASE FlowTimer(s)
      <4>1. /\ timers[s] # <<>>
            /\ t # s => entry_map'[t] = entry_map[t] /\ timers'[t] = timers[t]
            /\ timers'[s] = Tail(timers[s])
            /\ entry_map'[s] \in Seq(Entry)
            /\ \/ entry_map'[s] = entry_map[s]
               \/ \E k : Grown(entry_map'[s], entry_map[s], k)
        BY <3>4, TimerFired
      <4>2. /\ Elems(timers'[s]) \subseteq Elems(timers[s])
            /\ Elems(entry_map'[s]) \subseteq Elems(entry_map[s])
        BY <4>1, TableTypes, ElemsTail, GrownElems
      <4> QED BY <3>1, <4>1, <4>2
    <3> QED BY <2>1, <3>2, <3>3, <3>4, TableSteps
  <2> QED BY <2>2, <2>3 DEF FlowsNormal, Normal
<1>5. CASE OfController(ControllerStep)
  <2>1. ControllerStep /\ UNCHANGED <<entry_map, timers>>
    BY <1>5 DEF OfController, switchVars
  <2>2. ASSUME NEW t \in Switch, NEW m \in Elems(toSwitch'[t]), m.type = "FLOW_MOD"
        PROVE  Normal(m.match)
    <3>1. \/ m \in Elems(toSwitch[t])
          \/ ControllerServes /\ m \in Elems(TheReply[t])
      BY <2>1, <2>2, DownOfController
    <3> QED BY <2>2, <3>1, RepliesNormal DEF FlowsNormal
  <2>3. \A t \in Switch : Waiting(t)' \subseteq Waiting(t)
    BY <2>1, WaitingOfController
  <2> QED BY <2>1, <2>2, <2>3 DEF FlowsNormal, Normal
<1> QED BY <1>2, <1>3, <1>4, <1>5 DEF Next
-----------------------------------------------------------------------------
(* Entries and timers.                                                     *)

\* The entries with match m.
EntriesFor(m) == {e \in Entry : e.match = m}

\* Each match has as many timers as entries.
TimersCounted ==
  \A s \in Switch, m \in Match :
    Occ(timers[s], {m}) = Occ(entry_map[s], EntriesFor(m))

\* At the start there are neither entries nor timers.
LEMMA InitTimers == Init => TimersCounted
<1> SUFFICES ASSUME Init, NEW s \in Switch
             PROVE  timers[s] = <<>> /\ entry_map[s] = <<>>
  <2>1. \A T : Occ(<<>>, T) = Cardinality({})
    BY DEF Occ
  <2> QED BY <2>1 DEF TimersCounted
<1> QED BY DEF Init, SwitchInit

\* A flow modification adds one of each for its match.
LEMMA FlowModKeepsTimers ==
  ASSUME Inv, TimersCounted, NEW s \in Switch, handleFlowMod(s)
  PROVE  TimersCounted'
<1> DEFINE r == Received(s)
           e == [match |-> r.match, outport |-> r.outport]
<1>1. /\ r.match \in Match /\ e \in Entry /\ e.match = r.match
      /\ \A t \in Switch \ {s} :
           entry_map'[t] = entry_map[t] /\ timers'[t] = timers[t]
      /\ timers'[s] = Append(timers[s], r.match)
      /\ entry_map'[s] \in Seq(Entry)
      /\ \E k : Grown(entry_map[s], entry_map'[s], k) /\ entry_map'[s][k] = e
  BY FlowModified
<1> HIDE DEF r, e
<1>2. ASSUME NEW m \in Match
      PROVE  Occ(timers'[s], {m}) = Occ(entry_map'[s], EntriesFor(m))
  <2>1. /\ Occ(timers[s], {m}) \in Nat
        /\ Occ(timers'[s], {m}) = Occ(timers[s], {m}) + Weight(r.match \in {m})
    BY <1>1, TableTypes, OccAppended
  <2>2. PICK k : Grown(entry_map[s], entry_map'[s], k) /\ entry_map'[s][k] = e
    BY <1>1
  <2>3. Occ(entry_map'[s], EntriesFor(m))
          = Occ(entry_map[s], EntriesFor(m)) + Weight(entry_map'[s][k] \in EntriesFor(m))
    <3>1. entry_map[s] \in Seq(Entry)
      BY TableTypes
    <3> QED BY <1>1, <2>2, <3>1, OccGrown
  <2>4. Weight(entry_map'[s][k] \in EntriesFor(m)) = Weight(r.match \in {m})
    BY <1>1, <2>2 DEF EntriesFor, Weight
  <2>5. Occ(timers[s], {m}) = Occ(entry_map[s], EntriesFor(m))
    BY DEF TimersCounted
  <2> QED BY <2>1, <2>3, <2>4, <2>5, Zenon
<1> QED BY <1>1, <1>2 DEF TimersCounted

\* A timer takes an entry of its own match with it: there is one, since there
\* are as many, and no other match hits.
LEMMA TimerKeepsTimers ==
  ASSUME Inv, FlowsNormal, TimersCounted, NEW s \in Switch, FlowTimer(s)
  PROVE  TimersCounted'
<1> DEFINE h == Head(timers[s])
<1>1. /\ timers[s] # <<>> /\ h \in Match /\ h \in Elems(timers[s])
      /\ \A t \in Switch \ {s} :
           entry_map'[t] = entry_map[t] /\ timers'[t] = timers[t]
      /\ timers'[s] = Tail(timers[s])
      /\ entry_map'[s] \in Seq(Entry)
      /\ \/ ~lookup(entry_map[s], h)
         \/ \E k : /\ Grown(entry_map'[s], entry_map[s], k)
                   /\ Hits(entry_map[s], h, k)
  BY TimerFired
<1>2. /\ timers[s] \in Seq(Match) /\ entry_map[s] \in Seq(Entry)
      /\ DOMAIN entry_map[s] = 1..Len(entry_map[s])
  BY TableTypes, LenProperties
<1>3. ASSUME NEW m \in Match
      PROVE  /\ Occ(timers'[s], {m}) \in Nat
             /\ Occ(timers[s], {m}) = Occ(timers'[s], {m}) + Weight(h \in {m})
  BY <1>1, <1>2, OccTail
<1> HIDE DEF h
<1>4. ASSUME NEW i \in DOMAIN entry_map[s]
      PROVE  /\ entry_map[s][i] \in Entry
             /\ Hits(entry_map[s], h, i) <=> entry_map[s][i].match = h
  <2>1. entry_map[s][i] \in Entry
    BY <1>2
  <2>2. /\ entry_map[s][i].match \in Match
        /\ Normal(entry_map[s][i].match) /\ Normal(h)
    BY <1>1, <2>1 DEF Entry, FlowsNormal, Elems
  <2> QED BY <1>1, <2>1, <2>2, NormalHits DEF Hits
<1>5. lookup(entry_map[s], h)
  <2>1. Occ(timers[s], {h}) # 0
    <3>1. \E i \in DOMAIN timers[s] : timers[s][i] \in {h}
      BY <1>1 DEF Elems
    <3> QED BY <1>2, <3>1, OccPositive
  <2>2. Occ(entry_map[s], EntriesFor(h)) # 0
    BY <1>1, <2>1 DEF TimersCounted
  <2>3. \E i \in DOMAIN entry_map[s] : entry_map[s][i] \in EntriesFor(h)
    BY <1>2, <2>2, OccPositive
  <2> QED BY <1>4, <2>3 DEF lookup, EntriesFor
<1>6. PICK k : Grown(entry_map'[s], entry_map[s], k) /\ Hits(entry_map[s], h, k)
  BY <1>1, <1>5
<1>7. k \in DOMAIN entry_map[s]
  BY <1>2, <1>6 DEF Grown
<1>8. ASSUME NEW m \in Match
      PROVE  Occ(timers'[s], {m}) = Occ(entry_map'[s], EntriesFor(m))
  <2>1. /\ Occ(entry_map'[s], EntriesFor(m)) \in Nat
        /\ Occ(entry_map[s], EntriesFor(m))
             = Occ(entry_map'[s], EntriesFor(m))
                 + Weight(entry_map[s][k] \in EntriesFor(m))
    BY <1>1, <1>2, <1>6, OccGrown
  <2>2. Weight(entry_map[s][k] \in EntriesFor(m)) = Weight(h \in {m})
    BY <1>4, <1>6, <1>7 DEF EntriesFor, Weight
  <2>3. Weight(h \in {m}) \in Nat
    BY DEF Weight
  <2>4. Occ(timers[s], {m}) = Occ(entry_map[s], EntriesFor(m))
    BY DEF TimersCounted
  <2> DEFINE w == Weight(h \in {m})
  <2>5. /\ Occ(timers[s], {m}) = Occ(timers'[s], {m}) + w
        /\ Occ(entry_map[s], EntriesFor(m)) = Occ(entry_map'[s], EntriesFor(m)) + w
        /\ w \in Nat
    BY <1>3, <2>1, <2>2, <2>3, Zenon
  <2> HIDE DEF w
  <2> QED BY <1>3, <2>1, <2>4, <2>5
<1> QED BY <1>1, <1>8 DEF TimersCounted

\* No other step touches entries or timers.
LEMMA NextTimers ==
  Inv /\ FlowsNormal /\ TimersCounted /\ [Next]_vars => TimersCounted'
<1> SUFFICES ASSUME Inv, FlowsNormal, TimersCounted, [Next]_vars
             PROVE  TimersCounted'
  OBVIOUS
<1>1. ASSUME UNCHANGED <<entry_map, timers>> PROVE TimersCounted'
  BY <1>1 DEF TimersCounted
<1>2. UNCHANGED vars \/ HostStep \/ OfController(ControllerStep) => TimersCounted'
  BY <1>1 DEF vars, HostStep, OfController, switchVars
<1>3. ASSUME NEW s \in Switch, OfSwitch(SwitchStep(s)) PROVE TimersCounted'
  <2>1. SwitchStep(s)
    BY <1>3 DEF OfSwitch
  <2> QED BY <1>1, <2>1, TableSteps, FlowModKeepsTimers, TimerKeepsTimers
<1> QED BY <1>2, <1>3 DEF Next

\* Every flow entry has a timer that will remove it and every timer an entry.
THEOREM EntriesAreTimed == Spec => []TimersMatchEntries
<1>1. Inv /\ TimersCounted => TimersMatchEntries
  <2> SUFFICES ASSUME Inv, TimersCounted, NEW s \in Switch,
                      NEW m \in {timers[s][i] : i \in DOMAIN timers[s]}
                        \cup {entry_map[s][i].match : i \in DOMAIN entry_map[s]}
               PROVE  Cardinality({i \in DOMAIN timers[s] : timers[s][i] = m})
                        = Cardinality({i \in DOMAIN entry_map[s] :
                                         entry_map[s][i].match = m})
    BY DEF TimersMatchEntries
  <2>1. /\ \A i \in DOMAIN timers[s] : timers[s][i] \in Match
        /\ \A i \in DOMAIN entry_map[s] : /\ entry_map[s][i] \in Entry
                                          /\ entry_map[s][i].match \in Match
    <3>1. timers[s] \in Seq(Match) /\ entry_map[s] \in Seq(Entry)
      BY TableTypes
    <3>2. /\ \A i \in DOMAIN timers[s] : timers[s][i] \in Match
          /\ \A i \in DOMAIN entry_map[s] : entry_map[s][i] \in Entry
      BY <3>1, LenProperties
    <3> QED BY <3>2 DEF Entry
  <2>2. m \in Match
    BY <2>1
  <2>3. {i \in DOMAIN timers[s] : timers[s][i] = m}
          = {i \in DOMAIN timers[s] : timers[s][i] \in {m}}
    OBVIOUS
  <2>4. {i \in DOMAIN entry_map[s] : entry_map[s][i].match = m}
          = {i \in DOMAIN entry_map[s] : entry_map[s][i] \in EntriesFor(m)}
    BY <2>1 DEF EntriesFor
  <2>5. Occ(timers[s], {m}) = Occ(entry_map[s], EntriesFor(m))
    BY <2>2 DEF TimersCounted
  <2> QED BY <2>3, <2>4, <2>5 DEF Occ
<1> QED BY <1>1, InitFlows, NextFlows, InitTimers, NextTimers, Invariance,
           PTL DEF Spec
-----------------------------------------------------------------------------
(* The decisions of Switch.cc.                                             *)

\* What Switch.cc has learned sends frames with this header to port p.
Agrees(s, m, p) ==
  m.eth_dst \in DOMAIN mac_to_port[s] /\ p = mac_to_port[s][m.eth_dst]

\* A message under way to s agrees with it, unless it floods.
Follows(s, m) ==
  /\ m.type = "FLOW_MOD" => Agrees(s, m.match, m.outport)
  /\ m.type = "PACKET_OUT_FULL" /\ m.outport # FloodPort =>
       Agrees(s, m.frame, m.outport)
  /\ m.type = "PACKET_OUT" /\ m.outport # FloodPort =>
       Agrees(s, buffer[s].pending_msgs[m.buffer_id], m.outport)

\* The flow entries and the messages under way to a switch agree with it.
DecisionsFollow ==
  \A s \in Switch :
    /\ \A e \in Elems(entry_map[s]) : Agrees(s, e.match, e.outport)
    /\ \A m \in Elems(toSwitch[s]) : Follows(s, m)

\* At the start nothing has been decided.
LEMMA InitDecisions == Init => DecisionsFollow
<1> SUFFICES ASSUME Init, NEW s \in Switch
             PROVE  entry_map[s] = <<>> /\ toSwitch[s] = <<>>
  BY ElemsShort DEF DecisionsFollow
<1> QED BY InitChannels DEF Init, SwitchInit

\* A frame that is in the buffer of a switch before and after a step is the same.
LEMMA BufferedKept ==
  ASSUME Inv, IdsLeft, ClaimInv, NEW s \in Switch, SwitchStep(s),
         NEW t \in Switch, NEW id \in DOMAIN buffer[t].pending_msgs,
         id \in DOMAIN buffer'[t].pending_msgs
  PROVE  buffer'[t].pending_msgs[id] = buffer[t].pending_msgs[id]
<1>1. /\ buffer = [x \in Switch |-> buffer[x]]
      /\ IsBuffer(buffer[s])
  BY DEF Inv, SwitchInv, SwitchTypeOK
<1>2. ASSUME NEW f \in Frame,
             buffer' = [buffer EXCEPT ![s] = storeMessage(@, f)]
      PROVE  buffer'[t].pending_msgs[id] = buffer[t].pending_msgs[id]
  <2>1. buffer'[t] = IF t = s THEN storeMessage(buffer[s], f) ELSE buffer[t]
    BY <1>1, <1>2
  <2>2. /\ buffer[s].next_buffer_id < NoBuffer
        /\ \A k \in DOMAIN buffer[s].pending_msgs : k < buffer[s].next_buffer_id
    BY DEF IdsLeft, ClaimInv, IdsBelow
  <2>3. \A k \in DOMAIN buffer[s].pending_msgs :
          storeMessage(buffer[s], f).pending_msgs[k] = buffer[s].pending_msgs[k]
    BY <1>1, <2>2, Stores
  <2> QED BY <2>1, <2>3
<1>3. ASSUME NEW i, buffer' = [buffer EXCEPT ![s] = returnMessage(@, i)]
      PROVE  buffer'[t].pending_msgs[id] = buffer[t].pending_msgs[id]
  <2>1. buffer'[t] = IF t = s THEN returnMessage(buffer[s], i) ELSE buffer[t]
    BY <1>1, <1>3
  <2>2. /\ DOMAIN returnMessage(buffer[s], i).pending_msgs
             = DOMAIN buffer[s].pending_msgs \ {i}
        /\ \A k \in DOMAIN buffer[s].pending_msgs \ {i} :
             returnMessage(buffer[s], i).pending_msgs[k] = buffer[s].pending_msgs[k]
    BY <1>1, Returns
  <2> QED BY <2>1, <2>2
<1>4. CASE SendPacketIn(s)
  <2>1. Served(s) \in Frame
    BY <1>4, FrameServed DEF SendPacketIn, Inv
  <2> QED BY <1>2, <1>4, <2>1 DEF SendPacketIn
<1>5. CASE handlePacketOut(s) \/ dropBuffered(s)
  BY <1>3, <1>5 DEF handlePacketOut, dropBuffered
<1>6. SendPacketIn(s) \/ handlePacketOut(s) \/ dropBuffered(s) \/ UNCHANGED buffer
  <2>1. connect(s) \/ FlowTimer(s) \/ (\E p \in Port : FrameArrives(s, p)) =>
          UNCHANGED buffer
    BY DEF connect, FlowTimer, FrameArrives
  <2>2. SwitchServes(s) => SendPacketIn(s) \/ UNCHANGED buffer
    BY DEF SwitchServes, ForwardFrame, SendCompletePacketIn,
           PacketInOnClosedSocket, switchVars
  <2>3. SwitchReceives(s) =>
          handlePacketOut(s) \/ dropBuffered(s) \/ UNCHANGED buffer
    BY DEF SwitchReceives, handleFeaturesRequest, handleFlowMod,
           handleCompletePacketOut, switchVars
  <2> QED BY <2>1, <2>2, <2>3 DEF SwitchStep
<1> QED BY <1>4, <1>5, <1>6

\* Learning forgets nothing and changes nothing learned.
LEMMA LearnedStay ==
  ASSUME Inv, ControllerStep, NEW t \in Switch, NEW m, NEW p, Agrees(t, m, p)
  PROVE  Agrees(t, m, p)'
<1>1. CASE UNCHANGED mac_to_port
  BY <1>1 DEF Agrees
<1>2. CASE From \in Switch /\ mac_to_port' = [mac_to_port EXCEPT ![From] = Learned]
  <2>1. mac_to_port = [s \in Switch |-> mac_to_port[s]]
    BY DEF Inv, ControllerInv, ControllerTypeOK
  <2>2. mac_to_port'[t] = IF t = From THEN Learned ELSE mac_to_port[t]
    BY <1>2, <2>1
  <2>3. ASSUME NEW h \in DOMAIN mac_to_port[From]
        PROVE  h \in DOMAIN Learned /\ Learned[h] = mac_to_port[From][h]
    BY DEF Learned, Learn
  <2> QED BY <2>2, <2>3 DEF Agrees
<1>3. (\E s \in Switch : MessageArrives(s)) => UNCHANGED mac_to_port
  BY DEF MessageArrives
<1>4. ControllerServes =>
        \/ UNCHANGED mac_to_port
        \/ From \in Switch /\ mac_to_port' = [mac_to_port EXCEPT ![From] = Learned]
  BY ControllerReplies
<1> QED BY <1>1, <1>2, <1>3, <1>4 DEF ControllerStep

\* The decisions of Switch.cc follow what it has just learned.
LEMMA RepliesFollow ==
  ASSUME Inv, ClaimInv, Behavior # "Forwarding", ControllerServes,
         UNCHANGED buffer, NEW t \in Switch, NEW m \in Elems(TheReply[t])
  PROVE  Follows(t, m)'
<1> DEFINE hdr == Header(Message)
           p == Learned[hdr.eth_dst]
<1>1. /\ Processes(UpTypes) /\ Message.type \in UpTypes
      /\ From \in Switch /\ Message \in UpMessage
      /\ Behavior = "Switch" /\ Message.type \in PacketIns =>
           mac_to_port' = [mac_to_port EXCEPT ![From] = Learned]
  BY ControllerReplies
<1>2. CASE m = FeaturesRequest
  BY <1>2 DEF FeaturesRequest, Follows
<1>3. CASE m = PacketOut(Message, FloodPort)
  BY <1>3 DEF PacketOut, PacketOutFrame, PacketOutHeader, Follows
<1>4. CASE /\ Behavior = "Switch" /\ Message.type \in PacketIns /\ t = From
           /\ hdr.eth_dst \in DOMAIN Learned
           /\ m \in {FlowMod(hdr, p), PacketOut(Message, p)}
  <2>1. mac_to_port = [s \in Switch |-> mac_to_port[s]]
    BY DEF Inv, ControllerInv, ControllerTypeOK
  <2>2. mac_to_port'[t] = Learned
    BY <1>1, <1>4, <2>1
  <2>. PICK q : q = p
    OBVIOUS
  <2>3. ASSUME NEW x, x.eth_dst = hdr.eth_dst PROVE Agrees(t, x, q)'
    BY <1>4, <2>2, <2>3 DEF Agrees
  <2>7. m \in {FlowMod(hdr, q), PacketOut(Message, q)}
    BY <1>4
  <2>4. CASE m = FlowMod(hdr, q)
    BY <2>3, <2>4 DEF FlowMod, Follows
  <2>5. CASE m = PacketOut(Message, q) /\ Message.type = "PACKET_IN_FULL"
    <3>1. m = PacketOutFrame(Message.frame, q) /\ hdr = ExtractMatch(Message.frame)
      BY <2>5 DEF PacketOut, Header
    <3>2. Message.frame.eth_dst = hdr.eth_dst
      BY <3>1 DEF ExtractMatch
    <3> QED BY <2>3, <3>1, <3>2 DEF PacketOutFrame, Follows
  <2>6. CASE m = PacketOut(Message, q) /\ Message.type = "PACKET_IN"
    <3> DEFINE id == Message.buffer_id
    <3>1. m = PacketOutHeader(id, q) /\ hdr = Message.match
      BY <2>6 DEF PacketOut, Header
    <3>2. Message \in Waiting(t)
      BY <1>1, <1>4, ServedWaits
    <3>3. Message = PacketInHeader(id, buffer[t].pending_msgs[id])
      BY <2>6, <3>2 DEF ClaimInv, Described, Describes
    <3>4. Message.match = ExtractMatch(buffer[t].pending_msgs[id])
      BY <3>3 DEF PacketInHeader
    <3>5. buffer'[t].pending_msgs[id].eth_dst = hdr.eth_dst
      BY <3>1, <3>4 DEF ExtractMatch
    <3> QED BY <2>3, <3>1, <3>5 DEF PacketOutHeader, Follows
  <2> QED BY <1>4, <2>7, <2>4, <2>5, <2>6 DEF PacketIns
<1> QED BY <1>1, <1>2, <1>3, <1>4, Replies

\* Each packet-out under way has its frame in the buffer: what it agrees with is
\* fixed when it is sent and does not change before it arrives.
FramesThere ==
  \A s \in Switch : \A m \in Elems(toSwitch[s]) :
    m.type = "PACKET_OUT" => m.buffer_id \in DOMAIN buffer[s].pending_msgs

\* Every step keeps to what was learned.
LEMMA NextDecisions ==
  ASSUME Behavior # "Forwarding"
  PROVE  /\ Inv /\ IdsLeft /\ ClaimInv /\ FramesThere /\ FramesThere'
         /\ DecisionsFollow /\ [Next]_vars
         => DecisionsFollow'
<1> SUFFICES ASSUME Inv, IdsLeft, ClaimInv, FramesThere, FramesThere',
                    DecisionsFollow, [Next]_vars
             PROVE  DecisionsFollow'
  OBVIOUS
<1>1. ASSUME UNCHANGED <<toSwitch, entry_map, buffer, mac_to_port>>
      PROVE  DecisionsFollow'
  BY <1>1 DEF DecisionsFollow, Follows, Agrees
<1>2. CASE HostStep
  BY <1>1, <1>2 DEF HostStep, switchVars, controllerVars, channelVars
<1>3. CASE UNCHANGED vars
  BY <1>1, <1>3 DEF vars, switchVars, controllerVars, channelVars
<1>4. ASSUME NEW s \in Switch, OfSwitch(SwitchStep(s)) PROVE DecisionsFollow'
  <2>1. SwitchStep(s) /\ UNCHANGED mac_to_port
    BY <1>4 DEF OfSwitch, controllerVars
  <2>2. ASSUME NEW t, NEW m, NEW p PROVE Agrees(t, m, p)' <=> Agrees(t, m, p)
    BY <2>1 DEF Agrees
  <2>3. ASSUME NEW t \in Switch, NEW m \in Elems(toSwitch'[t]) PROVE Follows(t, m)'
    <3>1. m \in Elems(toSwitch[t]) /\ Follows(t, m)
      BY <2>1, <2>3, DownOfSwitch DEF DecisionsFollow
    <3>2. ASSUME m.type = "PACKET_OUT"
          PROVE  buffer'[t].pending_msgs[m.buffer_id]
                   = buffer[t].pending_msgs[m.buffer_id]
      <4>1. m.buffer_id \in DOMAIN buffer[t].pending_msgs
        BY <3>1, <3>2 DEF FramesThere
      <4>2. m.buffer_id \in DOMAIN buffer'[t].pending_msgs
        BY <2>3, <3>2 DEF FramesThere
      <4> QED BY <2>1, <4>1, <4>2, BufferedKept
    <3> QED BY <2>2, <3>1, <3>2 DEF Follows
  <2>4. ASSUME NEW t \in Switch, NEW e \in Elems(entry_map'[t])
        PROVE  Agrees(t, e.match, e.outport)
    <3>1. e \in Elems(entry_map[t]) => Agrees(t, e.match, e.outport)
      BY DEF DecisionsFollow
    <3>2. CASE UNCHANGED <<entry_map, timers>>
      BY <2>4, <3>1, <3>2
    <3>3. CASE handleFlowMod(s)
      <4> DEFINE r == Received(s)
                 n == [match |-> r.match, outport |-> r.outport]
      <4>1. /\ r \in Elems(toSwitch[s]) /\ r.type = "FLOW_MOD"
            /\ t # s => entry_map'[t] = entry_map[t]
            /\ entry_map'[s] \in Seq(Entry)
            /\ \E k : Grown(entry_map[s], entry_map'[s], k) /\ entry_map'[s][k] = n
        BY <3>3, FlowModified
      <4>2. Agrees(s, n.match, n.outport)
        BY <4>1 DEF DecisionsFollow, Follows
      <4> HIDE DEF r, n
      <4>3. Elems(entry_map'[s]) = Elems(entry_map[s]) \cup {n}
        BY <4>1, TableTypes, GrownElems
      <4> QED BY <2>4, <3>1, <4>1, <4>2, <4>3
    <3>4. CASE FlowTimer(s)
      <4>1. /\ t # s => entry_map'[t] = entry_map[t]
            /\ entry_map'[s] \in Seq(Entry)
            /\ \/ entry_map'[s] = entry_map[s]
               \/ \E k : Grown(entry_map'[s], entry_map[s], k)
        BY <3>4, TimerFired
      <4>2. Elems(entry_map'[s]) \subseteq Elems(entry_map[s])
        BY <4>1, TableTypes, GrownElems
      <4> QED BY <2>4, <3>1, <4>1, <4>2
    <3> QED BY <2>1, <3>2, <3>3, <3>4, TableSteps
  <2> QED BY <2>2, <2>3, <2>4 DEF DecisionsFollow
<1>5. CASE OfController(ControllerStep)
  <2>1. ControllerStep /\ UNCHANGED <<entry_map, buffer>>
    BY <1>5 DEF OfController, switchVars
  <2>2. ASSUME NEW t \in Switch, NEW m \in Elems(toSwitch'[t]) PROVE Follows(t, m)'
    <3>1. \/ m \in Elems(toSwitch[t])
          \/ ControllerServes /\ m \in Elems(TheReply[t])
      BY <2>1, <2>2, DownOfController
    <3>2. CASE m \in Elems(toSwitch[t])
      <4>1. Follows(t, m)
        BY <3>2 DEF DecisionsFollow
      <4> QED BY <2>1, <4>1, LearnedStay DEF Follows
    <3>3. CASE ControllerServes /\ m \in Elems(TheReply[t])
      BY <2>1, <3>3, RepliesFollow
    <3> QED BY <3>1, <3>2, <3>3
  <2>3. ASSUME NEW t \in Switch, NEW e \in Elems(entry_map'[t])
        PROVE  Agrees(t, e.match, e.outport)'
    <3>1. Agrees(t, e.match, e.outport)
      BY <2>1, <2>3 DEF DecisionsFollow
    <3> QED BY <2>1, <3>1, LearnedStay
  <2> QED BY <2>2, <2>3 DEF DecisionsFollow
<1> QED BY <1>2, <1>3, <1>4, <1>5 DEF Next

\* The control application Switch sends a destination's frames to the port
\* where it was learned, in every decision in force or under way.
THEOREM DecisionsFollowPorts ==
  ASSUME Behavior # "Forwarding"
  PROVE  Spec /\ []IdsLeft => []DecisionsFollowLearnedPorts
<1>1. Inv /\ ClaimInv => FramesThere
  BY FrameIsThere DEF FramesThere
<1>2. Inv /\ FramesThere /\ DecisionsFollow => DecisionsFollowLearnedPorts
  <2> SUFFICES ASSUME Inv, DecisionsFollow, NEW s \in Switch
               PROVE  /\ \A i \in DOMAIN entry_map[s] :
                           Agrees(s, entry_map[s][i].match, entry_map[s][i].outport)
                      /\ \A i \in DOMAIN toSwitch[s] :
                           LET m == toSwitch[s][i]
                           IN  CASE m.type = "FLOW_MOD" ->
                                      Agrees(s, m.match, m.outport)
                                 [] m.type = "PACKET_OUT_FULL" /\ m.outport # FloodPort ->
                                      Agrees(s, m.frame, m.outport)
                                 [] m.type = "PACKET_OUT" /\ m.outport # FloodPort ->
                                      Agrees(s, buffer[s].pending_msgs[m.buffer_id],
                                             m.outport)
                                 [] OTHER -> TRUE
    BY Zenon DEF DecisionsFollowLearnedPorts, Agrees
  <2>1. ASSUME NEW i \in DOMAIN entry_map[s]
        PROVE  Agrees(s, entry_map[s][i].match, entry_map[s][i].outport)
    BY DEF DecisionsFollow, Elems
  <2>2. ASSUME NEW i \in DOMAIN toSwitch[s]
        PROVE  Follows(s, toSwitch[s][i])
    BY DEF DecisionsFollow, Elems
  <2> QED BY <2>1, <2>2 DEF Follows
<1> QED BY <1>1, <1>2, InitDecisions, NextDecisions, Invariance, ClaimInvariance,
           PTL DEF Spec
-----------------------------------------------------------------------------
(* Where a frame can still get to.                                         *)

\* The ports of a switch that are not disabled, and those on which a frame may
\* go on: not back to where it came from.
OpenPorts(s) == Connected(s) \ DisabledPorts[s]

Onward(s, f) == OpenPorts(s) \ {f.in_port}

\* Behind gives for each port the hosts that a frame can reach through it.  The
\* network divides its hosts if each is behind one open port of a switch at
\* most: two ways to a host would be a loop.
HostsDivided(Behind) ==
  \A s \in Switch : \A p \in OpenPorts(s) :
    /\ \A h \in Host : Peer[s][p] = HostEnd(h) => h \in Behind[s][p]
    /\ \A t \in Switch, q \in Port : Peer[s][p] = SwitchEnd(t, q) =>
         \A r \in OpenPorts(t) \ {q} : Behind[t][r] \subseteq Behind[s][p]
    /\ \A r \in OpenPorts(s) \ {p} : Behind[s][p] \cap Behind[s][r] = {}

\* The copies of frame i at s that can still reach h, as frames and inside the
\* messages to and from the controller.
Copies(B, s, i, h) ==
  {f \in Frame : f.id = i /\ \E p \in Onward(s, f) : h \in B[s][p]}

UpCopies(B, s, i, h) ==
  {m \in UpMessage : m.type = "PACKET_IN_FULL" /\ m.frame \in Copies(B, s, i, h)}

QueuedCopies(B, i, h) == {x \in Item : x.msg \in UpCopies(B, x.from, i, h)}

DownCopies(B, s, i, h) ==
  {m \in DownMessage : /\ m.type = "PACKET_OUT_FULL"
                       /\ m.frame \in Copies(B, s, i, h)}

\* The places where a frame can be on its way to a host.
OnWire(s, p) == [kind |-> "wire", at |-> s, no |-> p]
InService(s) == [kind |-> "proc", at |-> s, no |-> 0]
InBuffer(s, id) == [kind |-> "buffer", at |-> s, no |-> id]
GoingUp(s) == [kind |-> "up", at |-> s, no |-> 0]
AtController == [kind |-> "ctrl", at |-> 0, no |-> 0]
GoingDown(s) == [kind |-> "down", at |-> s, no |-> 0]
AtHost == [kind |-> "host", at |-> 0, no |-> 0]

Place ==
  {OnWire(s, p) : s \in Switch, p \in Port}
    \cup {InService(s) : s \in Switch}
    \cup {InBuffer(s, id) : s \in Switch, id \in BufferId}
    \cup {GoingUp(s) : s \in Switch}
    \cup {GoingDown(s) : s \in Switch}
    \cup {AtController, AtHost}

\* A buffer has a frame of T under an id, which counts as one.
Held(b, id, T) ==
  IF id \in DOMAIN b.pending_msgs /\ b.pending_msgs[id] \in T THEN 1 ELSE 0

\* How many copies of frame i that can reach h, or have reached it, are at P.
CopiesAt(B, i, h, P) ==
  CASE P.kind = "wire" -> Occ(wire[P.at][P.no], Copies(B, P.at, i, h))
    [] P.kind = "proc" -> Occ(Contents(proc[P.at]), Copies(B, P.at, i, h))
    [] P.kind = "buffer" -> Held(buffer[P.at], P.no, Copies(B, P.at, i, h))
    [] P.kind = "up" -> Occ(toController[P.at], UpCopies(B, P.at, i, h))
    [] P.kind = "ctrl" -> Occ(Contents(ctrl), QueuedCopies(B, i, h))
    [] P.kind = "down" -> Occ(toSwitch[P.at], DownCopies(B, P.at, i, h))
    [] P.kind = "host" -> Occ(received[h], {i})

Counts(B, i, h) == [P \in Place |-> CopiesAt(B, i, h, P)]

\* There is one at most, in all places together; there is none.
AtMostOne(c) ==
  \A P \in Place :
    c[P] <= 1 /\ \A Q \in Place : c[P] > 0 /\ c[Q] > 0 => P = Q

Nowhere(c) == \A P \in Place : c[P] = 0

\* The inductive invariant: each frame can reach each host in one way at most,
\* and a frame that is still to be sent in none.
OneWay(B) ==
  \A h \in Host, i \in Nat :
    /\ AtMostOne(Counts(B, i, h))
    /\ i > Len(sent) => Nowhere(Counts(B, i, h))
-----------------------------------------------------------------------------
(* Counting copies.                                                        *)

\* The places, and what is counted there, now and after a step.
LEMMA CountedOnWires ==
  ASSUME NEW B, NEW i, NEW h
  PROVE  \A s \in Switch, p \in Port :
           /\ OnWire(s, p) \in Place
           /\ Counts(B, i, h)[OnWire(s, p)]
                = Occ(wire[s][p], Copies(B, s, i, h))
           /\ Counts(B, i, h)'[OnWire(s, p)]
                = Occ(wire'[s][p], Copies(B, s, i, h))
<1>1. \A s \in Switch, p \in Port : OnWire(s, p) \in Place
  BY DEF Place
<1>2. \A s \in Switch, p \in Port :
        CopiesAt(B, i, h, OnWire(s, p)) = Occ(wire[s][p], Copies(B, s, i, h))
  BY DEF CopiesAt, OnWire
<1>3. \A s \in Switch, p \in Port :
        Counts(B, i, h)[OnWire(s, p)] = Occ(wire[s][p], Copies(B, s, i, h))
  BY <1>1, <1>2 DEF Counts
<1>4. (\A s \in Switch, p \in Port :
         Counts(B, i, h)[OnWire(s, p)] = Occ(wire[s][p], Copies(B, s, i, h)))'
  BY <1>3, PTL
<1> QED BY <1>1, <1>3, <1>4

\* In the service queues.
LEMMA CountedInSwitches ==
  ASSUME NEW B, NEW i, NEW h
  PROVE  \A s \in Switch :
           /\ InService(s) \in Place
           /\ Counts(B, i, h)[InService(s)]
                = Occ(Contents(proc[s]), Copies(B, s, i, h))
           /\ Counts(B, i, h)'[InService(s)]
                = Occ(Contents(proc'[s]), Copies(B, s, i, h))
<1>1. \A s \in Switch : InService(s) \in Place
  BY DEF Place
<1>2. \A s \in Switch :
        CopiesAt(B, i, h, InService(s)) = Occ(Contents(proc[s]), Copies(B, s, i, h))
  BY DEF CopiesAt, InService
<1>3. \A s \in Switch :
        Counts(B, i, h)[InService(s)] = Occ(Contents(proc[s]), Copies(B, s, i, h))
  BY <1>1, <1>2 DEF Counts
<1>4. (\A s \in Switch :
         Counts(B, i, h)[InService(s)] = Occ(Contents(proc[s]), Copies(B, s, i, h)))'
  BY <1>3, PTL
<1> QED BY <1>1, <1>3, <1>4

\* In the buffers.
LEMMA CountedInBuffers ==
  ASSUME NEW B, NEW i, NEW h
  PROVE  \A s \in Switch, id \in BufferId :
           /\ InBuffer(s, id) \in Place
           /\ Counts(B, i, h)[InBuffer(s, id)]
                = Held(buffer[s], id, Copies(B, s, i, h))
           /\ Counts(B, i, h)'[InBuffer(s, id)]
                = Held(buffer'[s], id, Copies(B, s, i, h))
<1>1. \A s \in Switch, id \in BufferId : InBuffer(s, id) \in Place
  BY DEF Place
<1>2. \A s \in Switch, id \in BufferId :
        CopiesAt(B, i, h, InBuffer(s, id)) = Held(buffer[s], id, Copies(B, s, i, h))
  BY DEF CopiesAt, InBuffer
<1>3. \A s \in Switch, id \in BufferId :
        Counts(B, i, h)[InBuffer(s, id)] = Held(buffer[s], id, Copies(B, s, i, h))
  BY <1>1, <1>2 DEF Counts
<1>4. (\A s \in Switch, id \in BufferId :
         Counts(B, i, h)[InBuffer(s, id)] = Held(buffer[s], id, Copies(B, s, i, h)))'
  BY <1>3, PTL
<1> QED BY <1>1, <1>3, <1>4

\* On the way to the controller.
LEMMA CountedGoingUp ==
  ASSUME NEW B, NEW i, NEW h
  PROVE  \A s \in Switch :
           /\ GoingUp(s) \in Place
           /\ Counts(B, i, h)[GoingUp(s)]
                = Occ(toController[s], UpCopies(B, s, i, h))
           /\ Counts(B, i, h)'[GoingUp(s)]
                = Occ(toController'[s], UpCopies(B, s, i, h))
<1>1. \A s \in Switch : GoingUp(s) \in Place
  BY DEF Place
<1>2. \A s \in Switch :
        CopiesAt(B, i, h, GoingUp(s)) = Occ(toController[s], UpCopies(B, s, i, h))
  BY DEF CopiesAt, GoingUp
<1>3. \A s \in Switch :
        Counts(B, i, h)[GoingUp(s)] = Occ(toController[s], UpCopies(B, s, i, h))
  BY <1>1, <1>2 DEF Counts
<1>4. (\A s \in Switch :
         Counts(B, i, h)[GoingUp(s)] = Occ(toController[s], UpCopies(B, s, i, h)))'
  BY <1>3, PTL
<1> QED BY <1>1, <1>3, <1>4

\* On the way back.
LEMMA CountedGoingDown ==
  ASSUME NEW B, NEW i, NEW h
  PROVE  \A s \in Switch :
           /\ GoingDown(s) \in Place
           /\ Counts(B, i, h)[GoingDown(s)]
                = Occ(toSwitch[s], DownCopies(B, s, i, h))
           /\ Counts(B, i, h)'[GoingDown(s)]
                = Occ(toSwitch'[s], DownCopies(B, s, i, h))
<1>1. \A s \in Switch : GoingDown(s) \in Place
  BY DEF Place
<1>2. \A s \in Switch :
        CopiesAt(B, i, h, GoingDown(s)) = Occ(toSwitch[s], DownCopies(B, s, i, h))
  BY DEF CopiesAt, GoingDown
<1>3. \A s \in Switch :
        Counts(B, i, h)[GoingDown(s)] = Occ(toSwitch[s], DownCopies(B, s, i, h))
  BY <1>1, <1>2 DEF Counts
<1>4. (\A s \in Switch :
         Counts(B, i, h)[GoingDown(s)] = Occ(toSwitch[s], DownCopies(B, s, i, h)))'
  BY <1>3, PTL
<1> QED BY <1>1, <1>3, <1>4

\* In the queue of the controller.
LEMMA CountedAtController ==
  ASSUME NEW B, NEW i, NEW h
  PROVE  /\ AtController \in Place
         /\ Counts(B, i, h)[AtController] = Occ(Contents(ctrl), QueuedCopies(B, i, h))
         /\ Counts(B, i, h)'[AtController] = Occ(Contents(ctrl'), QueuedCopies(B, i, h))
<1>1. AtController \in Place
  BY DEF Place
<1>2. CopiesAt(B, i, h, AtController) = Occ(Contents(ctrl), QueuedCopies(B, i, h))
  BY DEF CopiesAt, AtController
<1>3. Counts(B, i, h)[AtController] = Occ(Contents(ctrl), QueuedCopies(B, i, h))
  BY <1>1, <1>2 DEF Counts
<1>4. (Counts(B, i, h)[AtController] = Occ(Contents(ctrl), QueuedCopies(B, i, h)))'
  BY <1>3, PTL
<1> QED BY <1>1, <1>3, <1>4

\* And at the host.
LEMMA CountedAtHost ==
  ASSUME NEW B, NEW i, NEW h
  PROVE  /\ AtHost \in Place
         /\ Counts(B, i, h)[AtHost] = Occ(received[h], {i})
         /\ Counts(B, i, h)'[AtHost] = Occ(received'[h], {i})
<1>1. AtHost \in Place
  BY DEF Place
<1>2. CopiesAt(B, i, h, AtHost) = Occ(received[h], {i})
  BY DEF CopiesAt, AtHost
<1>3. Counts(B, i, h)[AtHost] = Occ(received[h], {i})
  BY <1>1, <1>2 DEF Counts
<1>4. (Counts(B, i, h)[AtHost] = Occ(received[h], {i}))'
  BY <1>3, PTL
<1> QED BY <1>1, <1>3, <1>4

\* The types of the places.
LEMMA PlaceTypes ==
  ASSUME Inv
  PROVE  /\ wire \in [Switch -> [Port -> Seq(Frame)]]
         /\ \A s \in Switch : /\ proc[s] \in QueueOf(Frame)
                              /\ WorkConserving(proc[s])
                              /\ Contents(proc[s]) \in Seq(Frame)
                              /\ IsBuffer(buffer[s])
         /\ received \in [Host -> Seq(Nat)]
<1>1. /\ wire \in [Switch -> [Port -> Seq(Frame)]]
      /\ received \in [Host -> Seq(Nat)]
  BY DEF Inv, LinksTypeOK
<1>2. \A s \in Switch : /\ proc[s] \in QueueOf(Frame)
                        /\ WorkConserving(proc[s])
                        /\ IsBuffer(buffer[s])
  BY DEF Inv, SwitchInv, SwitchTypeOK
<1>3. \A s \in Switch : Contents(proc[s]) \in Seq(Frame)
  BY <1>2, QueueFields, ConcatProperties DEF Contents
<1> QED BY <1>1, <1>2, <1>3

\* The counts are numbers.
LEMMA CountsAreNumbers ==
  ASSUME Inv, NEW B, NEW i, NEW h \in Host
  PROVE  Counts(B, i, h) \in [Place -> Nat]
<1>1. Counts(B, i, h) = [P \in Place |-> Counts(B, i, h)[P]]
  BY DEF Counts
<1>2. /\ \A s \in Switch : /\ \A p \in Port : wire[s][p] \in Seq(Frame)
                           /\ Contents(proc[s]) \in Seq(Frame)
                           /\ toController[s] \in Seq(UpMessage)
                           /\ toSwitch[s] \in Seq(DownMessage)
      /\ Contents(ctrl) \in Seq(Item)
      /\ received[h] \in Seq(Nat)
  BY PlaceTypes, ChannelTypes
<1>3. ASSUME NEW s \in Switch, NEW p \in Port
      PROVE  Counts(B, i, h)[OnWire(s, p)] \in Nat
  <2>1. Occ(wire[s][p], Copies(B, s, i, h)) \in Nat
    BY <1>2, OccPositive
  <2> QED BY <2>1, CountedOnWires
<1>4. ASSUME NEW s \in Switch
      PROVE  Counts(B, i, h)[InService(s)] \in Nat
  <2>1. Occ(Contents(proc[s]), Copies(B, s, i, h)) \in Nat
    BY <1>2, OccPositive
  <2> QED BY <2>1, CountedInSwitches
<1>5. ASSUME NEW s \in Switch, NEW id \in BufferId
      PROVE  Counts(B, i, h)[InBuffer(s, id)] \in Nat
  <2>1. Held(buffer[s], id, Copies(B, s, i, h)) \in Nat
    BY DEF Held
  <2> QED BY <2>1, CountedInBuffers
<1>6. ASSUME NEW s \in Switch
      PROVE  Counts(B, i, h)[GoingUp(s)] \in Nat
  <2>1. Occ(toController[s], UpCopies(B, s, i, h)) \in Nat
    BY <1>2, OccPositive
  <2> QED BY <2>1, CountedGoingUp
<1>7. ASSUME NEW s \in Switch
      PROVE  Counts(B, i, h)[GoingDown(s)] \in Nat
  <2>1. Occ(toSwitch[s], DownCopies(B, s, i, h)) \in Nat
    BY <1>2, OccPositive
  <2> QED BY <2>1, CountedGoingDown
<1>8. Counts(B, i, h)[AtController] \in Nat
  <2>1. Occ(Contents(ctrl), QueuedCopies(B, i, h)) \in Nat
    BY <1>2, OccPositive
  <2> QED BY <2>1, CountedAtController
<1>9. Counts(B, i, h)[AtHost] \in Nat
  <2>1. Occ(received[h], {i}) \in Nat
    BY <1>2, OccPositive
  <2> QED BY <2>1, CountedAtHost
<1>10. \A P \in Place : Counts(B, i, h)[P] \in Nat
  BY <1>3, <1>4, <1>5, <1>6, <1>7, <1>8, <1>9 DEF Place
<1> QED BY <1>1, <1>10

\* So they are after a step.
LEMMA CountsStayNumbers ==
  ASSUME NEW B, NEW i, NEW h \in Host
  PROVE  Inv' => Counts(B, i, h)' \in [Place -> Nat]
<1>1. Inv => Counts(B, i, h) \in [Place -> Nat]
  BY CountsAreNumbers
<1>2. Inv' => (Counts(B, i, h) \in [Place -> Nat])'
  BY <1>1, PTL
<1> QED BY <1>2

\* A move: copies come to one place at most, and if they do, fewer are left at
\* another.
Moves(c, d) ==
  \E G \in SUBSET Place :
    /\ \A P \in Place : d[P] <= c[P] + (IF P \in G THEN 1 ELSE 0)
    /\ \A P, Q \in G : P = Q
    /\ G # {} => \E P \in Place \ G : d[P] < c[P]

\* A move makes no copies.
LEMMA MovesMakeNoCopies ==
  ASSUME NEW c \in [Place -> Nat], NEW d \in [Place -> Nat], Moves(c, d)
  PROVE  /\ AtMostOne(c) => AtMostOne(d)
         /\ Nowhere(c) => Nowhere(d)
<1>1. PICK G \in SUBSET Place :
        /\ \A P \in Place : d[P] <= c[P] + (IF P \in G THEN 1 ELSE 0)
        /\ \A P, Q \in G : P = Q
        /\ G # {} => \E P \in Place \ G : d[P] < c[P]
  BY DEF Moves
<1>2. \A P \in Place : c[P] \in Nat /\ d[P] \in Nat
  OBVIOUS
<1>3. CASE G = {}
  <2>1. \A P \in Place : d[P] <= c[P]
    BY <1>1, <1>2, <1>3
  <2> QED BY <1>2, <2>1 DEF AtMostOne, Nowhere
<1>4. CASE G # {}
  <2>1. PICK P \in Place \ G : d[P] < c[P]
    BY <1>1, <1>4
  <2>2. c[P] > 0
    BY <1>2, <2>1
  <2>3. ASSUME AtMostOne(c), NEW Q \in Place
        PROVE  d[Q] <= 1 /\ (d[Q] > 0 => Q \in G)
    <3>1. CASE Q = P
      <4>1. c[P] <= 1 /\ Q \notin G
        BY <2>1, <2>3, <3>1 DEF AtMostOne
      <4> QED BY <1>2, <2>1, <3>1, <4>1
    <3>2. CASE Q # P
      <4>1. c[Q] = 0
        BY <1>2, <2>2, <2>3, <3>2 DEF AtMostOne
      <4> QED BY <1>1, <1>2, <4>1
    <3> QED BY <3>1, <3>2
  <2>4. AtMostOne(c) => AtMostOne(d)
    BY <1>1, <2>3 DEF AtMostOne
  <2>5. ~Nowhere(c)
    BY <1>2, <2>2 DEF Nowhere
  <2> QED BY <2>4, <2>5
<1> QED BY <1>3, <1>4

\* One copy may come to the places of G.
Into(P, G) == IF P \in G THEN 1 ELSE 0

\* A step brings copies to the places of G only: on the links, in the switches,
\* in the buffers, on the way up, in the controller, on the way down, at host h.
WiresGain(B, i, h, G) ==
  \A s \in Switch, p \in Port :
    Occ(wire'[s][p], Copies(B, s, i, h))
      <= Occ(wire[s][p], Copies(B, s, i, h)) + Into(OnWire(s, p), G)

ServicesGain(B, i, h, G) ==
  \A s \in Switch :
    Occ(Contents(proc'[s]), Copies(B, s, i, h))
      <= Occ(Contents(proc[s]), Copies(B, s, i, h)) + Into(InService(s), G)

BuffersGain(B, i, h, G) ==
  \A s \in Switch, id \in BufferId :
    Held(buffer'[s], id, Copies(B, s, i, h))
      <= Held(buffer[s], id, Copies(B, s, i, h)) + Into(InBuffer(s, id), G)

UpGain(B, i, h, G) ==
  \A s \in Switch :
    Occ(toController'[s], UpCopies(B, s, i, h))
      <= Occ(toController[s], UpCopies(B, s, i, h)) + Into(GoingUp(s), G)

ControllerGains(B, i, h, G) ==
  Occ(Contents(ctrl'), QueuedCopies(B, i, h))
    <= Occ(Contents(ctrl), QueuedCopies(B, i, h)) + Into(AtController, G)

DownGain(B, i, h, G) ==
  \A s \in Switch :
    Occ(toSwitch'[s], DownCopies(B, s, i, h))
      <= Occ(toSwitch[s], DownCopies(B, s, i, h)) + Into(GoingDown(s), G)

HostGains(B, i, h, G) ==
  Occ(received'[h], {i}) <= Occ(received[h], {i}) + Into(AtHost, G)

Brings(B, i, h, G) ==
  /\ UNCHANGED wire \/ WiresGain(B, i, h, G)
  /\ UNCHANGED proc \/ ServicesGain(B, i, h, G)
  /\ UNCHANGED buffer \/ BuffersGain(B, i, h, G)
  /\ UNCHANGED toController \/ UpGain(B, i, h, G)
  /\ UNCHANGED ctrl \/ ControllerGains(B, i, h, G)
  /\ UNCHANGED toSwitch \/ DownGain(B, i, h, G)
  /\ UNCHANGED received \/ HostGains(B, i, h, G)

\* It takes a copy from P.
Loses(B, i, h, P) == Counts(B, i, h)'[P] < Counts(B, i, h)[P]

\* A step that brings copies to the places of G only, place by place.
LEMMA BringsAtMost ==
  ASSUME Inv, Inv', NEW B, NEW i, NEW h \in Host, NEW G, Brings(B, i, h, G)
  PROVE  \A P \in Place :
           Counts(B, i, h)'[P] <= Counts(B, i, h)[P] + Into(P, G)
<1>1. /\ Counts(B, i, h) \in [Place -> Nat]
      /\ Counts(B, i, h)' \in [Place -> Nat]
  BY CountsAreNumbers, CountsStayNumbers
<1>2. \A P : \A x \in Nat : x <= x + Into(P, G)
  BY DEF Into
<1>3. ASSUME NEW s \in Switch, NEW p \in Port
      PROVE  Counts(B, i, h)'[OnWire(s, p)]
               <= Counts(B, i, h)[OnWire(s, p)] + Into(OnWire(s, p), G)
  <2>1. /\ OnWire(s, p) \in Place
        /\ Counts(B, i, h)[OnWire(s, p)] = Occ(wire[s][p], Copies(B, s, i, h))
        /\ Counts(B, i, h)'[OnWire(s, p)] = Occ(wire'[s][p], Copies(B, s, i, h))
    BY CountedOnWires
  <2>2. CASE UNCHANGED wire
    BY <1>1, <1>2, <2>1, <2>2
  <2>3. CASE ~UNCHANGED wire
    BY <2>1, <2>3 DEF Brings, WiresGain
  <2> QED BY <2>2, <2>3
<1>4. ASSUME NEW s \in Switch
      PROVE  Counts(B, i, h)'[InService(s)]
               <= Counts(B, i, h)[InService(s)] + Into(InService(s), G)
  <2>1. /\ InService(s) \in Place
        /\ Counts(B, i, h)[InService(s)]
             = Occ(Contents(proc[s]), Copies(B, s, i, h))
        /\ Counts(B, i, h)'[InService(s)]
             = Occ(Contents(proc'[s]), Copies(B, s, i, h))
    BY CountedInSwitches
  <2>2. CASE UNCHANGED proc
    BY <1>1, <1>2, <2>1, <2>2
  <2>3. CASE ~UNCHANGED proc
    BY <2>1, <2>3 DEF Brings, ServicesGain
  <2> QED BY <2>2, <2>3
<1>5. ASSUME NEW s \in Switch, NEW id \in BufferId
      PROVE  Counts(B, i, h)'[InBuffer(s, id)]
               <= Counts(B, i, h)[InBuffer(s, id)] + Into(InBuffer(s, id), G)
  <2>1. /\ InBuffer(s, id) \in Place
        /\ Counts(B, i, h)[InBuffer(s, id)]
             = Held(buffer[s], id, Copies(B, s, i, h))
        /\ Counts(B, i, h)'[InBuffer(s, id)]
             = Held(buffer'[s], id, Copies(B, s, i, h))
    BY CountedInBuffers
  <2>2. CASE UNCHANGED buffer
    BY <1>1, <1>2, <2>1, <2>2
  <2>3. CASE ~UNCHANGED buffer
    BY <2>1, <2>3 DEF Brings, BuffersGain
  <2> QED BY <2>2, <2>3
<1>6. ASSUME NEW s \in Switch
      PROVE  Counts(B, i, h)'[GoingUp(s)]
               <= Counts(B, i, h)[GoingUp(s)] + Into(GoingUp(s), G)
  <2>1. /\ GoingUp(s) \in Place
        /\ Counts(B, i, h)[GoingUp(s)]
             = Occ(toController[s], UpCopies(B, s, i, h))
        /\ Counts(B, i, h)'[GoingUp(s)]
             = Occ(toController'[s], UpCopies(B, s, i, h))
    BY CountedGoingUp
  <2>2. CASE UNCHANGED toController
    BY <1>1, <1>2, <2>1, <2>2
  <2>3. CASE ~UNCHANGED toController
    BY <2>1, <2>3 DEF Brings, UpGain
  <2> QED BY <2>2, <2>3
<1>7. ASSUME NEW s \in Switch
      PROVE  Counts(B, i, h)'[GoingDown(s)]
               <= Counts(B, i, h)[GoingDown(s)] + Into(GoingDown(s), G)
  <2>1. /\ GoingDown(s) \in Place
        /\ Counts(B, i, h)[GoingDown(s)]
             = Occ(toSwitch[s], DownCopies(B, s, i, h))
        /\ Counts(B, i, h)'[GoingDown(s)]
             = Occ(toSwitch'[s], DownCopies(B, s, i, h))
    BY CountedGoingDown
  <2>2. CASE UNCHANGED toSwitch
    BY <1>1, <1>2, <2>1, <2>2
  <2>3. CASE ~UNCHANGED toSwitch
    BY <2>1, <2>3 DEF Brings, DownGain
  <2> QED BY <2>2, <2>3
<1>8. Counts(B, i, h)'[AtController]
        <= Counts(B, i, h)[AtController] + Into(AtController, G)
  <2>1. /\ AtController \in Place
        /\ Counts(B, i, h)[AtController]
             = Occ(Contents(ctrl), QueuedCopies(B, i, h))
        /\ Counts(B, i, h)'[AtController]
             = Occ(Contents(ctrl'), QueuedCopies(B, i, h))
    BY CountedAtController
  <2>2. CASE UNCHANGED ctrl
    BY <1>1, <1>2, <2>1, <2>2
  <2>3. CASE ~UNCHANGED ctrl
    BY <2>1, <2>3 DEF Brings, ControllerGains
  <2> QED BY <2>2, <2>3
<1>9. Counts(B, i, h)'[AtHost] <= Counts(B, i, h)[AtHost] + Into(AtHost, G)
  <2>1. /\ AtHost \in Place
        /\ Counts(B, i, h)[AtHost] = Occ(received[h], {i})
        /\ Counts(B, i, h)'[AtHost] = Occ(received'[h], {i})
    BY CountedAtHost
  <2>2. CASE UNCHANGED received
    BY <1>1, <1>2, <2>1, <2>2
  <2>3. CASE ~UNCHANGED received
    BY <2>1, <2>3 DEF Brings, HostGains
  <2> QED BY <2>2, <2>3
<1> QED BY <1>3, <1>4, <1>5, <1>6, <1>7, <1>8, <1>9 DEF Place

\* A step that brings copies to one place at most, and takes one from another if
\* it does, moves them.
LEMMA BringsMoves ==
  ASSUME Inv, Inv', NEW B, NEW i, NEW h \in Host, NEW G \in SUBSET Place,
         Brings(B, i, h, G), \A P, Q \in G : P = Q,
         G # {} => \E P \in Place \ G : Loses(B, i, h, P)
  PROVE  Moves(Counts(B, i, h), Counts(B, i, h)')
<1>1. /\ Counts(B, i, h) \in [Place -> Nat]
      /\ Counts(B, i, h)' \in [Place -> Nat]
  BY CountsAreNumbers, CountsStayNumbers
<1>2. \A P \in Place : Counts(B, i, h)'[P] <= Counts(B, i, h)[P] + Into(P, G)
  BY BringsAtMost
<1> QED BY <1>1, <1>2 DEF Moves, Into, Loses

\* The invariant is kept by steps of this kind.
LEMMA MovesKeepOneWay ==
  ASSUME Inv, Inv', NEW B, OneWay(B), UNCHANGED sent,
         \A h \in Host, i \in Nat : Moves(Counts(B, i, h), Counts(B, i, h)')
  PROVE  OneWay(B)'
<1> SUFFICES ASSUME NEW h \in Host, NEW i \in Nat
             PROVE  /\ AtMostOne(Counts(B, i, h)')
                    /\ i > Len(sent) => Nowhere(Counts(B, i, h)')
  BY DEF OneWay, AtMostOne, Nowhere
<1>1. /\ Counts(B, i, h) \in [Place -> Nat]
      /\ Counts(B, i, h)' \in [Place -> Nat]
  BY CountsAreNumbers, CountsStayNumbers
<1>2. /\ AtMostOne(Counts(B, i, h))
      /\ i > Len(sent) => Nowhere(Counts(B, i, h))
  BY DEF OneWay
<1>3. Moves(Counts(B, i, h), Counts(B, i, h)')
  OBVIOUS
<1> QED BY <1>1, <1>2, <1>3, MovesMakeNoCopies
-----------------------------------------------------------------------------
(* What the parts of a step do to the copies.                              *)

\* A sequence that loses its first element.
LEMMA OccShorter ==
  ASSUME NEW S, NEW T, NEW q \in Seq(S), q # <<>>
  PROVE  /\ Occ(Tail(q), T) <= Occ(q, T)
         /\ Head(q) \in T => Occ(Tail(q), T) < Occ(q, T)
<1>1. /\ Occ(Tail(q), T) \in Nat
      /\ Occ(q, T) = Occ(Tail(q), T) + Weight(Head(q) \in T)
  BY OccTail
<1> QED BY <1>1 DEF Weight

\* A sequence that one more element joins.
LEMMA OccLonger ==
  ASSUME NEW S, NEW T, NEW q \in Seq(S), NEW m \in S
  PROVE  /\ Occ(q, T) \in Nat
         /\ Occ(Append(q, m), T) <= Occ(q, T) + 1
         /\ m \notin T => Occ(Append(q, m), T) = Occ(q, T)
<1>1. /\ Occ(q, T) \in Nat
      /\ Occ(Append(q, m), T) = Occ(q, T) + Weight(m \in T)
  BY OccAppended
<1> QED BY <1>1 DEF Weight

\* The number of copies at a place does not grow beyond what it gains.
LEMMA IntoIsSmall ==
  ASSUME NEW P, NEW G
  PROVE  Into(P, G) \in {0, 1}
BY DEF Into

\* A frame leaves the link.
LEMMA WireLess ==
  ASSUME Inv, NEW s \in Switch, NEW p \in Port, FrameArrives(s, p),
         NEW B, NEW i, NEW h, NEW G
  PROVE  /\ WiresGain(B, i, h, G)
         /\ OnWire(s, p) \in Place
         /\ Head(wire[s][p]) \in Frame
         /\ Head(wire[s][p]) \in Copies(B, s, i, h) =>
              Loses(B, i, h, OnWire(s, p))
<1> DEFINE f == Head(wire[s][p])
<1>1. /\ wire \in [Switch -> [Port -> Seq(Frame)]]
      /\ wire[s][p] # <<>>
      /\ wire' = [wire EXCEPT ![s][p] = Tail(@)]
  BY PlaceTypes DEF FrameArrives
<1>2. \A t \in Switch, q \in Port : wire[t][q] \in Seq(Frame)
  BY <1>1
<1>3. \A t \in Switch, q \in Port :
        wire'[t][q] = IF t = s /\ q = p THEN Tail(wire[s][p]) ELSE wire[t][q]
  BY <1>1
<1>4. f \in Frame
  BY <1>1, <1>2, HeadTailProperties
<1>5. /\ Occ(Tail(wire[s][p]), Copies(B, s, i, h))
           <= Occ(wire[s][p], Copies(B, s, i, h))
      /\ f \in Copies(B, s, i, h) =>
           Occ(Tail(wire[s][p]), Copies(B, s, i, h))
             < Occ(wire[s][p], Copies(B, s, i, h))
  BY <1>1, <1>2, OccShorter
<1>6. ASSUME NEW t \in Switch, NEW q \in Port
      PROVE  Occ(wire'[t][q], Copies(B, t, i, h))
               <= Occ(wire[t][q], Copies(B, t, i, h)) + Into(OnWire(t, q), G)
  <2>1. Into(OnWire(t, q), G) \in {0, 1}
    BY IntoIsSmall
  <2>2. wire[t][q] \in Seq(Frame) /\ Tail(wire[s][p]) \in Seq(Frame)
    BY <1>1, <1>2, HeadTailProperties
  <2>3. /\ Occ(wire[t][q], Copies(B, t, i, h)) \in Nat
        /\ Occ(Tail(wire[s][p]), Copies(B, s, i, h)) \in Nat
    BY <2>2, OccPositive
  <2>4. CASE t = s /\ q = p
    BY <1>3, <1>5, <2>1, <2>3, <2>4
  <2>5. CASE ~(t = s /\ q = p)
    <3>1. wire'[t][q] = wire[t][q]
      BY <1>3, <2>5
    <3> QED BY <2>1, <2>3, <3>1
  <2> QED BY <2>4, <2>5
<1>7. f \in Copies(B, s, i, h) => Loses(B, i, h, OnWire(s, p))
  BY <1>3, <1>5, CountedOnWires DEF Loses
<1>8. OnWire(s, p) \in Place
  BY CountedOnWires
<1> QED BY <1>4, <1>6, <1>7, <1>8 DEF WiresGain

\* It joins the service queue of the switch.
LEMMA ProcMore ==
  ASSUME Inv, NEW s \in Switch, NEW p \in Port, FrameArrives(s, p),
         NEW B, NEW i, NEW h
  PROVE  \E G \in SUBSET {InService(s)} :
           /\ ServicesGain(B, i, h, G)
           /\ G # {} => Head(wire[s][p]) \in Copies(B, s, i, h)
<1> DEFINE f == Head(wire[s][p])
           G == IF f \in Copies(B, s, i, h) THEN {InService(s)} ELSE {}
<1>1. /\ f \in Frame
      /\ proc' = [proc EXCEPT ![s] = Arrive(@, f)]
  BY WireLess DEF FrameArrives
<1>2. proc \in [Switch -> QueueOf(Frame)]
  BY DEF Inv, SwitchInv, SwitchTypeOK
<1>3. f \in Copies(B, s, i, h) => Into(InService(s), G) = 1
  BY DEF Into
<1>4. \A t \in Switch : Into(InService(t), G) \in {0, 1}
  BY IntoIsSmall
<1> HIDE DEF f
<1>5. ASSUME NEW t \in Switch
      PROVE  Occ(Contents(proc'[t]), Copies(B, t, i, h))
               <= Occ(Contents(proc[t]), Copies(B, t, i, h))
                    + Into(InService(t), G)
  <2> HIDE DEF G
  <2>1. /\ Contents(proc[t]) \in Seq(Frame)
        /\ proc[s] \in QueueOf(Frame) /\ WorkConserving(proc[s])
    BY PlaceTypes
  <2>2. Occ(Contents(proc[t]), Copies(B, t, i, h)) \in Nat
    BY <2>1, OccPositive
  <2>3. CASE t = s
    <3>1. Contents(Arrive(proc[s], f)) = Append(Contents(proc[s]), f)
      BY <1>1, <2>1, ArriveIsLast
    <3>2. Contents(proc'[t]) = Append(Contents(proc[t]), f)
      BY <1>1, <1>2, <2>3, <3>1
    <3>3. /\ Occ(Append(Contents(proc[t]), f), Copies(B, t, i, h))
               <= Occ(Contents(proc[t]), Copies(B, t, i, h)) + 1
          /\ f \notin Copies(B, t, i, h) =>
               Occ(Append(Contents(proc[t]), f), Copies(B, t, i, h))
                 = Occ(Contents(proc[t]), Copies(B, t, i, h))
      BY <1>1, <2>1, OccLonger
    <3> QED BY <1>3, <1>4, <2>2, <2>3, <3>2, <3>3
  <2>4. CASE t # s
    <3>1. proc'[t] = proc[t]
      BY <1>1, <1>2, <2>4
    <3> QED BY <1>4, <2>2, <3>1
  <2> QED BY <2>3, <2>4
<1>6. /\ G \in SUBSET {InService(s)}
      /\ G # {} => f \in Copies(B, s, i, h)
  OBVIOUS
<1>7. ServicesGain(B, i, h, G)
  BY <1>5 DEF ServicesGain
<1> QED BY <1>6, <1>7 DEF f

\* The frame served leaves it.
LEMMA ProcLess ==
  ASSUME Inv, NEW s \in Switch, ServiceEnds(s), NextService(s),
         NEW B, NEW i, NEW h, NEW G
  PROVE  /\ Served(s) \in Frame
         /\ InService(s) \in Place
         /\ ServicesGain(B, i, h, G)
         /\ Served(s) \in Copies(B, s, i, h) => Loses(B, i, h, InService(s))
<1>1. /\ \A t \in Switch : Contents(proc[t]) \in Seq(Frame)
      /\ proc[s] \in QueueOf(Frame) /\ WorkConserving(proc[s])
      /\ proc[s].event # <<>>
  BY PlaceTypes DEF ServiceEnds
<1>2. proc \in [Switch -> QueueOf(Frame)]
  BY DEF Inv, SwitchInv, SwitchTypeOK
<1>3. /\ Head(proc[s].event) \in Frame
      /\ Head(proc[s].event) = Head(Contents(proc[s]))
      /\ Contents(Finish(proc[s])) = Tail(Contents(proc[s]))
  BY <1>1, FinishIsFirst
<1>4. Contents(proc[s]) # <<>>
  BY <1>1, ConcatEqualIffEmpty, QueueFields DEF Contents
<1>5. /\ Served(s) = Head(Contents(proc[s])) /\ Served(s) \in Frame
      /\ Contents(proc'[s]) = Tail(Contents(proc[s]))
      /\ \A t \in Switch \ {s} : proc'[t] = proc[t]
  BY <1>2, <1>3 DEF NextService, Served
<1>6. /\ Occ(Tail(Contents(proc[s])), Copies(B, s, i, h))
           <= Occ(Contents(proc[s]), Copies(B, s, i, h))
      /\ Head(Contents(proc[s])) \in Copies(B, s, i, h) =>
           Occ(Tail(Contents(proc[s])), Copies(B, s, i, h))
             < Occ(Contents(proc[s]), Copies(B, s, i, h))
  BY <1>1, <1>4, OccShorter
<1>7. ASSUME NEW t \in Switch
      PROVE  Occ(Contents(proc'[t]), Copies(B, t, i, h))
               <= Occ(Contents(proc[t]), Copies(B, t, i, h))
                    + Into(InService(t), G)
  <2>1. Into(InService(t), G) \in {0, 1}
    BY IntoIsSmall
  <2>2. Tail(Contents(proc[s])) \in Seq(Frame)
    BY <1>1, <1>4, HeadTailProperties
  <2>3. /\ Occ(Contents(proc[t]), Copies(B, t, i, h)) \in Nat
        /\ Occ(Tail(Contents(proc[s])), Copies(B, s, i, h)) \in Nat
    BY <1>1, <2>2, OccPositive
  <2>4. CASE t = s
    <3>1. Occ(Contents(proc'[s]), Copies(B, s, i, h))
            <= Occ(Contents(proc[s]), Copies(B, s, i, h))
      BY <1>5, <1>6
    <3>2. Occ(Contents(proc'[s]), Copies(B, s, i, h)) \in Nat
      BY <1>5, <2>3
    <3> QED BY <2>1, <2>3, <2>4, <3>1, <3>2
  <2>5. CASE t # s
    BY <1>5, <2>1, <2>3, <2>5
  <2> QED BY <2>4, <2>5
<1>8. Served(s) \in Copies(B, s, i, h) => Loses(B, i, h, InService(s))
  <2>1. Served(s) \in Copies(B, s, i, h) =>
          Occ(Contents(proc'[s]), Copies(B, s, i, h))
            < Occ(Contents(proc[s]), Copies(B, s, i, h))
    BY <1>5, <1>6
  <2> QED BY <2>1, CountedInSwitches DEF Loses
<1>9. InService(s) \in Place
  BY CountedInSwitches
<1> QED BY <1>5, <1>7, <1>8, <1>9 DEF ServicesGain

\* A switch that puts copies of a frame on ports it may go on: where the hosts
\* are divided only one of these copies can reach h, and the frame could.
LEMMA TransmitBrings ==
  ASSUME Inv, NEW B, HostsDivided(B), NEW s \in Switch, NEW f \in Frame,
         NEW ps \in SUBSET Onward(s, f), Transmit(s, f, ps),
         NEW i, NEW h \in Host
  PROVE  \E G \in SUBSET Place :
           /\ \A P, Q \in G : P = Q
           /\ \A P \in G : P.kind \in {"wire", "host"}
           /\ G # {} => f \in Copies(B, s, i, h)
           /\ WiresGain(B, i, h, G)
           /\ HostGains(B, i, h, G)
<1> DEFINE g(q) == [f EXCEPT !.in_port = q]
           comes(t, q) == /\ \E p \in ps : Peer[s][p] = SwitchEnd(t, q)
                          /\ g(q) \in Copies(B, t, i, h)
           ends == f.id = i /\ \E p \in ps : Peer[s][p] = HostEnd(h)
           G == {P \in Place :
                   \/ \E t \in Switch, q \in Port : P = OnWire(t, q) /\ comes(t, q)
                   \/ P = AtHost /\ ends}
<1>1. \A p \in ps : p \in OpenPorts(s) /\ p # f.in_port /\ p \in Port
  BY DEF Onward, OpenPorts, Connected
<1>2. ASSUME NEW t \in Switch, NEW q \in Port, g(q) \in Copies(B, t, i, h)
      PROVE  f.id = i /\ \E r \in OpenPorts(t) \ {q} : h \in B[t][r]
  <2>1. g(q).id = f.id /\ g(q).in_port = q
    BY DEF Frame
  <2> HIDE DEF g
  <2> QED BY <1>2, <2>1 DEF Copies, Onward
<1>3. ASSUME NEW p \in ps, NEW t \in Switch, NEW q \in Port,
             Peer[s][p] = SwitchEnd(t, q), g(q) \in Copies(B, t, i, h)
      PROVE  f.id = i /\ h \in B[s][p]
  <2>1. PICK r \in OpenPorts(t) \ {q} : f.id = i /\ h \in B[t][r]
    BY <1>2, <1>3
  <2>2. B[t][r] \subseteq B[s][p]
    BY <1>1, <1>3 DEF HostsDivided
  <2> QED BY <2>1, <2>2
<1>4. ASSUME NEW p \in ps, Peer[s][p] = HostEnd(h)
      PROVE  h \in B[s][p]
  BY <1>1, <1>4 DEF HostsDivided
<1>5. ASSUME NEW p \in ps, NEW r \in ps, h \in B[s][p], h \in B[s][r]
      PROVE  p = r
  <2>1. p # r => B[s][p] \cap B[s][r] = {}
    BY <1>1 DEF HostsDivided
  <2> QED BY <1>5, <2>1
<1>6. ASSUME NEW p \in ps, h \in B[s][p], f.id = i
      PROVE  f \in Copies(B, s, i, h)
  BY <1>6 DEF Copies
<1>7. \A P \in G :
        \/ \E t \in Switch, q \in Port, p \in ps :
             /\ P = OnWire(t, q) /\ Peer[s][p] = SwitchEnd(t, q)
             /\ f.id = i /\ h \in B[s][p]
        \/ \E p \in ps : /\ P = AtHost /\ Peer[s][p] = HostEnd(h)
                         /\ f.id = i /\ h \in B[s][p]
  BY <1>3, <1>4
<1>8. \A t \in Switch, q \in Port : comes(t, q) => OnWire(t, q) \in G
  BY DEF Place
<1>9. ends => AtHost \in G
  BY DEF Place
<1>10. G \in SUBSET Place
  OBVIOUS
<1> HIDE DEF G
<1>11. ASSUME NEW P \in G, NEW Q \in G PROVE P = Q
  <2>1. \A t, u, q, r : SwitchEnd(t, q) = SwitchEnd(u, r) => t = u /\ q = r
    BY DEF SwitchEnd
  <2>2. \A t, q : SwitchEnd(t, q) # HostEnd(h)
    BY DEF SwitchEnd, HostEnd
  <2>3. PICK p \in ps : /\ h \in B[s][p]
                        /\ \/ \E t \in Switch, q \in Port :
                                /\ P = OnWire(t, q)
                                /\ Peer[s][p] = SwitchEnd(t, q)
                           \/ P = AtHost /\ Peer[s][p] = HostEnd(h)
    BY <1>7
  <2>4. PICK r \in ps : /\ h \in B[s][r]
                        /\ \/ \E t \in Switch, q \in Port :
                                /\ Q = OnWire(t, q)
                                /\ Peer[s][r] = SwitchEnd(t, q)
                           \/ Q = AtHost /\ Peer[s][r] = HostEnd(h)
    BY <1>7
  <2>5. p = r
    BY <1>5, <2>3, <2>4
  <2> QED BY <2>1, <2>2, <2>3, <2>4, <2>5
<1>12. ASSUME NEW P \in G PROVE P.kind \in {"wire", "host"}
  BY <1>7 DEF OnWire, AtHost
<1>13. G # {} => f \in Copies(B, s, i, h)
  BY <1>6, <1>7
<1>14. ASSUME NEW t \in Switch, NEW q \in Port
       PROVE  Occ(wire'[t][q], Copies(B, t, i, h))
                <= Occ(wire[t][q], Copies(B, t, i, h)) + Into(OnWire(t, q), G)
  <2>1. wire[t][q] \in Seq(Frame)
    BY PlaceTypes
  <2>2. g(q) \in Frame
    BY DEF Frame
  <2>3. wire'[t][q] = IF \E p \in ps : Peer[s][p] = SwitchEnd(t, q)
                      THEN Append(wire[t][q], g(q)) ELSE wire[t][q]
    BY DEF Transmit
  <2> HIDE DEF g
  <2>4. /\ Occ(wire[t][q], Copies(B, t, i, h)) \in Nat
        /\ Occ(Append(wire[t][q], g(q)), Copies(B, t, i, h))
             <= Occ(wire[t][q], Copies(B, t, i, h)) + 1
        /\ g(q) \notin Copies(B, t, i, h) =>
             Occ(Append(wire[t][q], g(q)), Copies(B, t, i, h))
               = Occ(wire[t][q], Copies(B, t, i, h))
    BY <2>1, <2>2, OccLonger
  <2>5. CASE comes(t, q)
    <3>1. Into(OnWire(t, q), G) = 1
      BY <1>8, <2>5 DEF Into
    <3>2. wire'[t][q] = Append(wire[t][q], g(q))
      BY <2>3, <2>5
    <3> QED BY <2>4, <3>1, <3>2
  <2>6. CASE ~comes(t, q)
    <3>1. Into(OnWire(t, q), G) \in {0, 1}
      BY DEF Into
    <3>2. Occ(wire'[t][q], Copies(B, t, i, h))
            = Occ(wire[t][q], Copies(B, t, i, h))
      BY <2>3, <2>4, <2>6
    <3> QED BY <2>4, <3>1, <3>2
  <2> QED BY <2>5, <2>6
<1>15. Occ(received'[h], {i}) <= Occ(received[h], {i}) + Into(AtHost, G)
  <2>1. received[h] \in Seq(Nat) /\ f.id \in Nat
    BY PlaceTypes DEF Frame
  <2>2. received'[h] = IF \E p \in ps : Peer[s][p] = HostEnd(h)
                       THEN Append(received[h], f.id) ELSE received[h]
    BY DEF Transmit
  <2>3. /\ Occ(received[h], {i}) \in Nat
        /\ Occ(Append(received[h], f.id), {i}) <= Occ(received[h], {i}) + 1
        /\ f.id \notin {i} =>
             Occ(Append(received[h], f.id), {i}) = Occ(received[h], {i})
    BY <2>1, OccLonger
  <2>4. CASE ends
    <3>1. Into(AtHost, G) = 1
      BY <1>9, <2>4 DEF Into
    <3> QED BY <2>2, <2>3, <2>4, <3>1
  <2>5. CASE ~ends
    <3>1. Into(AtHost, G) \in {0, 1}
      BY DEF Into
    <3>2. Occ(received'[h], {i}) = Occ(received[h], {i})
      BY <2>2, <2>3, <2>5
    <3> QED BY <2>3, <3>1, <3>2
  <2> QED BY <2>4, <2>5
<1>16. WiresGain(B, i, h, G) /\ HostGains(B, i, h, G)
  BY <1>14, <1>15 DEF WiresGain, HostGains
<1> QED BY <1>10, <1>11, <1>12, <1>13, <1>16

\* A switch sends a message up.
LEMMA UpMore ==
  ASSUME Inv, NEW s \in Switch, NEW m \in UpMessage, SendUp(s, <<m>>),
         NEW B, NEW i, NEW h, NEW G, m \in UpCopies(B, s, i, h) => GoingUp(s) \in G
  PROVE  UpGain(B, i, h, G)
<1>1. /\ toController \in [Switch -> Seq(UpMessage)]
      /\ \A t \in Switch : toController[t] \in Seq(UpMessage)
  BY ChannelTypes
<1>2. toController[s] \o <<m>> = Append(toController[s], m)
  BY <1>1, Lengthened
<1>3. m \in UpCopies(B, s, i, h) => Into(GoingUp(s), G) = 1
  BY DEF Into
<1>4. \A t \in Switch : Into(GoingUp(t), G) \in {0, 1}
  BY IntoIsSmall
<1>5. ASSUME NEW t \in Switch
      PROVE  Occ(toController'[t], UpCopies(B, t, i, h))
               <= Occ(toController[t], UpCopies(B, t, i, h))
                    + Into(GoingUp(t), G)
  <2>1. toController'[t] = IF t = s THEN Append(toController[t], m)
                           ELSE toController[t]
    BY <1>1, <1>2 DEF SendUp
  <2>2. /\ Occ(toController[t], UpCopies(B, t, i, h)) \in Nat
        /\ Occ(Append(toController[t], m), UpCopies(B, t, i, h))
             <= Occ(toController[t], UpCopies(B, t, i, h)) + 1
        /\ m \notin UpCopies(B, t, i, h) =>
             Occ(Append(toController[t], m), UpCopies(B, t, i, h))
               = Occ(toController[t], UpCopies(B, t, i, h))
    BY <1>1, OccLonger
  <2>3. CASE t = s
    BY <1>3, <1>4, <2>1, <2>2, <2>3
  <2>4. CASE t # s
    BY <1>4, <2>1, <2>2, <2>4
  <2> QED BY <2>3, <2>4
<1> QED BY <1>5 DEF UpGain

\* A switch takes a message of the controller.
LEMMA DownLess ==
  ASSUME Inv, NEW s \in Switch, toSwitch[s] # <<>>, Consume(s),
         NEW B, NEW i, NEW h, NEW G
  PROVE  /\ Received(s) \in DownMessage
         /\ GoingDown(s) \in Place
         /\ DownGain(B, i, h, G)
         /\ Received(s) \in DownCopies(B, s, i, h) => Loses(B, i, h, GoingDown(s))
<1>1. /\ toSwitch \in [Switch -> Seq(DownMessage)]
      /\ \A t \in Switch : toSwitch[t] \in Seq(DownMessage)
  BY ChannelTypes
<1>2. \A t \in Switch :
        toSwitch'[t] = IF t = s THEN Tail(toSwitch[s]) ELSE toSwitch[t]
  BY <1>1 DEF Consume
<1>3. /\ Occ(Tail(toSwitch[s]), DownCopies(B, s, i, h))
           <= Occ(toSwitch[s], DownCopies(B, s, i, h))
      /\ Head(toSwitch[s]) \in DownCopies(B, s, i, h) =>
           Occ(Tail(toSwitch[s]), DownCopies(B, s, i, h))
             < Occ(toSwitch[s], DownCopies(B, s, i, h))
  BY <1>1, OccShorter
<1>4. Received(s) \in DownMessage
  BY <1>1, HeadTailProperties DEF Received
<1>5. ASSUME NEW t \in Switch
      PROVE  Occ(toSwitch'[t], DownCopies(B, t, i, h))
               <= Occ(toSwitch[t], DownCopies(B, t, i, h)) + Into(GoingDown(t), G)
  <2>1. Into(GoingDown(t), G) \in {0, 1}
    BY IntoIsSmall
  <2>2. Tail(toSwitch[s]) \in Seq(DownMessage)
    BY <1>1, HeadTailProperties
  <2>3. /\ Occ(toSwitch[t], DownCopies(B, t, i, h)) \in Nat
        /\ Occ(Tail(toSwitch[s]), DownCopies(B, s, i, h)) \in Nat
    BY <1>1, <2>2, OccPositive
  <2>4. CASE t = s
    BY <1>2, <1>3, <2>1, <2>3, <2>4
  <2>5. CASE t # s
    BY <1>2, <2>1, <2>3, <2>5
  <2> QED BY <2>4, <2>5
<1>6. Received(s) \in DownCopies(B, s, i, h) => Loses(B, i, h, GoingDown(s))
  BY <1>2, <1>3, CountedGoingDown DEF Loses, Received
<1>7. GoingDown(s) \in Place
  BY CountedGoingDown
<1> QED BY <1>4, <1>5, <1>6, <1>7 DEF DownGain

\* A frame is stored in a buffer; if its id is in use, it is lost.
LEMMA BufferMore ==
  ASSUME Inv, NEW s \in Switch, SendPacketIn(s), Served(s) \in Frame,
         NEW B, NEW i, NEW h
  PROVE  \E n \in BufferId : \E G \in SUBSET {InBuffer(s, n)} :
           /\ BuffersGain(B, i, h, G)
           /\ G # {} => Served(s) \in Copies(B, s, i, h)
<1> DEFINE f == Served(s)
           b == buffer[s]
           n == b.next_buffer_id
           map == b.pending_msgs
           G == IF f \in Copies(B, s, i, h) THEN {InBuffer(s, n)} ELSE {}
<1>1. /\ n \in BufferId
      /\ \E D \in SUBSET BufferId : map \in [D -> Frame]
      /\ buffer = [t \in Switch |-> buffer[t]]
      /\ buffer' = [buffer EXCEPT ![s] = storeMessage(@, f)]
  BY PlaceTypes DEF IsBuffer, IsMap, Inv, SwitchInv, SwitchTypeOK, SendPacketIn
<1>2. \A t \in Switch :
        buffer'[t] = IF t = s THEN storeMessage(b, f) ELSE buffer[t]
  BY <1>1
<1>3. \A c, id, T : Held(c, id, T) \in {0, 1}
  BY DEF Held
<1>4. \A id, T : ~(id = n /\ f \in T) =>
        Held(storeMessage(b, f), id, T) <= Held(b, id, T)
  <2> SUFFICES ASSUME NEW id, NEW T, ~(id = n /\ f \in T)
               PROVE  Held(storeMessage(b, f), id, T) <= Held(b, id, T)
    OBVIOUS
  <2>1. storeMessage(b, f).pending_msgs = Insert(map, n, f)
    BY DEF storeMessage
  <2>2. CASE n \in DOMAIN map
    BY <1>3, <2>1, <2>2 DEF Insert, Held
  <2>3. CASE n \notin DOMAIN map
    <3>1. /\ DOMAIN Insert(map, n, f) = DOMAIN map \cup {n}
          /\ Insert(map, n, f)[n] = f
          /\ \A k \in DOMAIN map : Insert(map, n, f)[k] = map[k]
      BY <2>3 DEF Insert
    <3> HIDE DEF b, n, map
    <3>2. id \in DOMAIN Insert(map, n, f) /\ Insert(map, n, f)[id] \in T
            => id \in DOMAIN map /\ map[id] \in T
      BY <3>1
    <3> QED BY <2>1, <3>2 DEF Held, map
  <2> QED BY <2>2, <2>3
<1>5. f \in Copies(B, s, i, h) => Into(InBuffer(s, n), G) = 1
  BY DEF Into
<1>6. /\ n \in BufferId /\ G \in SUBSET {InBuffer(s, n)}
      /\ G # {} => f \in Copies(B, s, i, h)
  BY <1>1
<1> HIDE DEF b, n, f, map, G
<1>7. ASSUME NEW t \in Switch, NEW id \in BufferId
      PROVE  Held(buffer'[t], id, Copies(B, t, i, h))
               <= Held(buffer[t], id, Copies(B, t, i, h))
                    + Into(InBuffer(t, id), G)
  <2>1. Into(InBuffer(t, id), G) \in {0, 1}
    BY IntoIsSmall
  <2>2. /\ Held(buffer'[t], id, Copies(B, t, i, h)) \in {0, 1}
        /\ Held(buffer[t], id, Copies(B, t, i, h)) \in {0, 1}
    BY <1>3
  <2>3. CASE t = s /\ id = n /\ f \in Copies(B, s, i, h)
    BY <1>5, <2>2, <2>3
  <2>4. CASE t = s /\ ~(id = n /\ f \in Copies(B, s, i, h))
    <3>1. Held(storeMessage(b, f), id, Copies(B, s, i, h))
            <= Held(b, id, Copies(B, s, i, h))
      BY <1>4, <2>4
    <3> QED BY <1>2, <2>1, <2>2, <2>4, <3>1 DEF b
  <2>5. CASE t # s
    BY <1>2, <2>1, <2>2, <2>5
  <2> QED BY <2>3, <2>4, <2>5
<1>8. BuffersGain(B, i, h, G)
  BY <1>7 DEF BuffersGain
<1> QED BY <1>6, <1>8 DEF f

\* A frame is taken from a buffer.
Takes(s, n) == buffer' = [buffer EXCEPT ![s] = returnMessage(@, n)]

\* It leaves the place where it was.
LEMMA BufferLess ==
  ASSUME Inv, NEW s \in Switch, NEW n, Takes(s, n), NEW B, NEW i, NEW h, NEW G
  PROVE  /\ BuffersGain(B, i, h, G)
         /\ n \in DOMAIN buffer[s].pending_msgs =>
              /\ buffer[s].pending_msgs[n] \in Frame
              /\ InBuffer(s, n) \in Place
              /\ buffer[s].pending_msgs[n] \in Copies(B, s, i, h) =>
                   Loses(B, i, h, InBuffer(s, n))
<1> DEFINE map == buffer[s].pending_msgs
           b == returnMessage(buffer[s], n)
<1>1. /\ buffer = [t \in Switch |-> buffer[t]]
      /\ IsBuffer(buffer[s])
  BY PlaceTypes DEF Inv, SwitchInv, SwitchTypeOK
<1>2. \A t \in Switch : buffer'[t] = IF t = s THEN b ELSE buffer[t]
  BY <1>1 DEF Takes
<1>3. b.pending_msgs = Restrict(map, DOMAIN map \ {n})
  BY <1>1 DEF IsBuffer, returnMessage
<1>4. /\ DOMAIN b.pending_msgs = DOMAIN map \ {n}
      /\ \A k \in DOMAIN map \ {n} : b.pending_msgs[k] = map[k]
  BY <1>3 DEF Restrict
<1> HIDE DEF b
<1>5. \A id, T : /\ Held(b, id, T) <= Held(buffer[s], id, T)
                 /\ Held(b, n, T) = 0
                 /\ n \in DOMAIN map /\ map[n] \in T => Held(buffer[s], n, T) = 1
  BY <1>4 DEF Held
<1>6. \A t \in Switch : \A id, T : Held(buffer[t], id, T) \in {0, 1}
  BY DEF Held
<1>7. ASSUME NEW t \in Switch, NEW id \in BufferId
      PROVE  Held(buffer'[t], id, Copies(B, t, i, h))
               <= Held(buffer[t], id, Copies(B, t, i, h))
                    + Into(InBuffer(t, id), G)
  <2>1. Into(InBuffer(t, id), G) \in {0, 1}
    BY IntoIsSmall
  <2>2. Held(b, id, Copies(B, t, i, h)) \in {0, 1}
    BY DEF Held
  <2>3. CASE t = s
    <3>1. Held(b, id, Copies(B, t, i, h))
            <= Held(buffer[s], id, Copies(B, t, i, h))
      BY <1>5
    <3> QED BY <1>2, <1>6, <2>1, <2>2, <2>3, <3>1
  <2>4. CASE t # s
    BY <1>2, <1>6, <2>1, <2>4
  <2> QED BY <2>3, <2>4
<1>8. ASSUME n \in DOMAIN map
      PROVE  /\ map[n] \in Frame
             /\ InBuffer(s, n) \in Place
             /\ map[n] \in Copies(B, s, i, h) => Loses(B, i, h, InBuffer(s, n))
  <2>1. n \in BufferId /\ map[n] \in Frame
    <3>1. \E D \in SUBSET BufferId : map \in [D -> Frame]
      BY <1>1 DEF IsBuffer, IsMap
    <3> QED BY <1>8, <3>1
  <2>2. map[n] \in Copies(B, s, i, h) =>
          Held(buffer'[s], n, Copies(B, s, i, h))
            < Held(buffer[s], n, Copies(B, s, i, h))
    BY <1>2, <1>5, <1>8
  <2> QED BY <2>1, <2>2, CountedInBuffers DEF Loses
<1>9. BuffersGain(B, i, h, G)
  BY <1>7 DEF BuffersGain
<1> QED BY <1>8, <1>9

\* What the controller may send to t when the message in service is processed:
\* the frame inside, back to the switch it came from, and no other frame.
NoFrame(a) == a \in DownMessage /\ a.type # "PACKET_OUT_FULL"

Returned(a, t) ==
  /\ a \in DownMessage
  /\ a.type = "PACKET_OUT_FULL" =>
       t = From /\ Message.type = "PACKET_IN_FULL" /\ a.frame = Message.frame

Relays(ms, t) ==
  \/ ms = <<>>
  \/ \E a : Returned(a, t) /\ ms = <<a>>
  \/ \E a, b : NoFrame(a) /\ Returned(b, t) /\ ms = <<a, b>>

\* The packet-out that floodPacket and sendPacket make returns the frame.
LEMMA PacketOutReturns ==
  ASSUME Message \in UpMessage, Message.type \in PacketIns,
         NEW p \in Port \cup {FloodPort}
  PROVE  Returned(PacketOut(Message, p), From)
<1>1. PacketOut(Message, p) \in DownMessage
  BY PacketInAnswer
<1>2. CASE Message.type = "PACKET_IN"
  BY <1>1, <1>2 DEF Returned, PacketOut, PacketOutHeader
<1>3. CASE Message.type = "PACKET_IN_FULL"
  BY <1>1, <1>3 DEF Returned, PacketOut, PacketOutFrame
<1> QED BY <1>2, <1>3 DEF PacketIns

\* Flow entries and the messages of the handshake have no frame inside.
LEMMA NoFrameInside ==
  /\ NoFrame(FeaturesRequest)
  /\ \A m \in Match, p \in Port : NoFrame(FlowMod(m, p))
<1>1. NoFrame(FeaturesRequest)
  BY DownMessages DEF NoFrame, FeaturesRequest
<1>2. ASSUME NEW m \in Match, NEW p \in Port PROVE NoFrame(FlowMod(m, p))
  BY DownMessages DEF NoFrame, FlowMod
<1> QED BY <1>1, <1>2

\* An answer for one switch.
LEMMA OnlyRelays ==
  ASSUME From \in Switch, NEW ms, Relays(ms, From), NEW t \in Switch
  PROVE  Relays(Only(From, ms)[t], t)
BY DEF Only, Relays

\* Every reply is of this kind, but for an answer of the ARP oracle.
LEMMA ControllerRelays ==
  ASSUME Inv, From \in Switch, Message \in UpMessage, Message.type \in UpTypes,
         ~(Behavior = "Forwarding" /\ ArpOracle), NEW t \in Switch
  PROVE  Relays(TheReply[t], t)
<1>1. \A a : NoFrame(a) => Returned(a, t) /\ Returned(a, From)
  BY DEF NoFrame, Returned
<1>2. CASE Message.type = "ESTABLISHED"
  <2>1. Relays(<<FeaturesRequest>>, From)
    BY <1>1, NoFrameInside DEF Relays
  <2> QED BY <1>2, <2>1, OnlyRelays DEF TheReply
<1>3. CASE Message.type = "FEATURES_REPLY"
  <2>1. TheReply[t] = <<>>
    BY <1>3 DEF TheReply
  <2> QED BY <2>1 DEF Relays
<1>4. CASE Message.type \in PacketIns
  <2> DEFINE hdr == Header(Message)
             flood == <<PacketOut(Message, FloodPort)>>
  <2>1. hdr \in Match
    <3>1. FloodPort \in Port \cup {FloodPort}
      OBVIOUS
    <3> QED BY <1>4, <3>1, PacketInAnswer
  <2>2. Relays(flood, From)
    <3>1. Returned(PacketOut(Message, FloodPort), From)
      BY <1>4, PacketOutReturns
    <3> QED BY <3>1 DEF Relays
  <2> HIDE DEF flood
  <2>3. CASE Behavior = "Hub"
    <3>1. TheReply = Only(From, flood)
      BY <1>4, <2>3 DEF TheReply, PacketIns, flood
    <3> QED BY <2>2, <3>1, OnlyRelays
  <2>4. CASE Behavior = "Switch"
    <3>1. TheReply = Only(From, Decision(Learned, Message))
      BY <1>4, <2>4 DEF TheReply, PacketIns
    <3>2. IsMap(Learned, Host, Port)
      <4>1. \A s \in Switch : IsMap(mac_to_port[s], Host, Port)
        BY DEF Inv, ControllerInv, ControllerTypeOK
      <4> QED BY <2>1, <4>1, LearnedPorts DEF Learned
    <3>3. Relays(Decision(Learned, Message), From)
      <4> DEFINE p == Learned[hdr.eth_dst]
      <4>1. CASE hdr.eth_dst \in DOMAIN Learned
        <5>1. p \in Port
          BY <3>2, <4>1 DEF IsMap
        <5>2. NoFrame(FlowMod(hdr, p)) /\ Returned(PacketOut(Message, p), From)
          BY <1>4, <2>1, <5>1, NoFrameInside, PacketOutReturns
        <5>3. Decision(Learned, Message)
                = <<FlowMod(hdr, p), PacketOut(Message, p)>>
          BY <4>1 DEF Decision
        <5> QED BY <5>2, <5>3 DEF Relays
      <4>2. CASE hdr.eth_dst \notin DOMAIN Learned
        BY <2>2, <4>2 DEF Decision, flood
      <4> QED BY <4>1, <4>2
    <3> QED BY <3>1, <3>3, OnlyRelays
  <2>5. CASE Behavior = "Forwarding"
    <3>1. TheReply = Answer(From, Message)
      BY <1>4, <2>5 DEF TheReply, PacketIns
    <3>2. CASE hdr.eth_dst \in Topology
      <4> DEFINE mod(u) == FlowMod(RouteMatch(hdr), NextPort[u][hdr.eth_dst])
                 out == PacketOut(Message, NextPort[From][hdr.eth_dst])
      <4>1. \A u \in Switch : NextPort[u][hdr.eth_dst] \in Port
        BY <3>2, TopologyAssumption, NextPortAssumption
      <4>2. RouteMatch(hdr) \in Match
        BY <2>1, PortAssumption DEF RouteMatch, Match, Fields
      <4>3. NoFrame(mod(t))
        BY <4>1, <4>2, NoFrameInside
      <4>4. Returned(out, From)
        BY <1>4, <4>1, PacketOutReturns
      <4>5. TheReply[t] = IF t = From THEN <<mod(t), out>>
                          ELSE IF OnPath(t, From, hdr.eth_dst) THEN <<mod(t)>>
                          ELSE <<>>
        BY <3>1, <3>2 DEF Answer, Route
      <4> HIDE DEF mod, out
      <4> QED BY <1>1, <4>3, <4>4, <4>5 DEF Relays
    <3>3. CASE hdr.eth_dst \notin Topology
      <4>1. Answer(From, Message) = Only(From, flood)
        BY <2>5, <3>3 DEF Answer, processARPPacket, flood
      <4> QED BY <2>2, <3>1, <4>1, OnlyRelays
    <3> QED BY <3>2, <3>3
  <2> QED BY <2>3, <2>4, <2>5, BehaviorAssumption
<1> QED BY <1>2, <1>3, <1>4 DEF UpTypes

\* A frame that is relayed was inside the message in service.
LEMMA DownMore ==
  ASSUME Message \in UpMessage, NEW t \in Switch, NEW ms, Relays(ms, t),
         NEW q \in Seq(DownMessage), NEW B, NEW i, NEW h
  PROVE  /\ Occ(q, DownCopies(B, t, i, h)) \in Nat
         /\ Occ(q \o ms, DownCopies(B, t, i, h))
              <= Occ(q, DownCopies(B, t, i, h)) + 1
         /\ ~(t = From /\ Message \in UpCopies(B, From, i, h)) =>
              Occ(q \o ms, DownCopies(B, t, i, h))
                = Occ(q, DownCopies(B, t, i, h))
<1> DEFINE T == DownCopies(B, t, i, h)
           ours == t = From /\ Message \in UpCopies(B, From, i, h)
<1>1. Occ(q, T) \in Nat
  BY OccPositive
<1>2. \A a : Returned(a, t) => a \in DownMessage /\ (a \in T => ours)
  BY DEF Returned, DownCopies, UpCopies
<1>3. \A a : NoFrame(a) => a \in DownMessage /\ a \notin T
  BY DEF NoFrame, DownCopies
<1> HIDE DEF T, ours
<1>4. ASSUME NEW a, Returned(a, t), ms = <<a>>
      PROVE  /\ Occ(q \o ms, T) <= Occ(q, T) + 1
             /\ ~ours => Occ(q \o ms, T) = Occ(q, T)
  <2>1. a \in DownMessage /\ (a \in T => ours)
    BY <1>2, <1>4
  <2>2. q \o ms = Append(q, a)
    BY <1>4, <2>1, Lengthened
  <2>3. /\ Occ(Append(q, a), T) <= Occ(q, T) + 1
        /\ a \notin T => Occ(Append(q, a), T) = Occ(q, T)
    BY <2>1, OccLonger
  <2> QED BY <2>1, <2>2, <2>3
<1>5. ASSUME NEW a, NEW b, NoFrame(a), Returned(b, t), ms = <<a, b>>
      PROVE  /\ Occ(q \o ms, T) <= Occ(q, T) + 1
             /\ ~ours => Occ(q \o ms, T) = Occ(q, T)
  <2>1. /\ a \in DownMessage /\ a \notin T
        /\ b \in DownMessage /\ (b \in T => ours)
    BY <1>2, <1>3, <1>5
  <2>2. q \o ms = Append(Append(q, a), b)
    BY <1>5, <2>1, Lengthened
  <2>3. Append(q, a) \in Seq(DownMessage)
    BY <2>1, AppendProperties
  <2>4. Occ(Append(q, a), T) = Occ(q, T)
    BY <2>1, OccLonger
  <2>5. /\ Occ(Append(Append(q, a), b), T) <= Occ(Append(q, a), T) + 1
        /\ b \notin T => Occ(Append(Append(q, a), b), T) = Occ(Append(q, a), T)
    BY <2>1, <2>3, OccLonger
  <2> QED BY <2>1, <2>2, <2>4, <2>5
<1>6. /\ Occ(q \o ms, T) <= Occ(q, T) + 1
      /\ ~ours => Occ(q \o ms, T) = Occ(q, T)
  <2>1. CASE ms = <<>>
    BY <1>1, <2>1, ConcatEmptySeq
  <2> QED BY <1>4, <1>5, <2>1 DEF Relays
<1> QED BY <1>1, <1>6 DEF T, ours

\* The controller sends the messages of out.
SendsDown(out) == toSwitch' = [s \in Switch |-> toSwitch[s] \o out[s]]

\* It relays a copy if it has one in service.
LEMMA DownGrows ==
  ASSUME Inv, Message \in UpMessage, NEW out, SendsDown(out),
         \A t \in Switch : Relays(out[t], t), NEW B, NEW i, NEW h
  PROVE  \E G \in SUBSET {GoingDown(From)} :
           /\ DownGain(B, i, h, G)
           /\ G # {} => Message \in UpCopies(B, From, i, h)
<1> DEFINE ours == Message \in UpCopies(B, From, i, h)
           G == IF ours THEN {GoingDown(From)} ELSE {}
<1>1. ours => Into(GoingDown(From), G) = 1
  BY DEF Into
<1>2. ASSUME NEW t \in Switch
      PROVE  Occ(toSwitch'[t], DownCopies(B, t, i, h))
               <= Occ(toSwitch[t], DownCopies(B, t, i, h)) + Into(GoingDown(t), G)
  <2> HIDE DEF G
  <2>1. Into(GoingDown(t), G) \in {0, 1}
    BY IntoIsSmall
  <2>2. toSwitch[t] \in Seq(DownMessage)
    BY ChannelTypes
  <2>3. toSwitch'[t] = toSwitch[t] \o out[t]
    BY DEF SendsDown
  <2>4. /\ Occ(toSwitch[t], DownCopies(B, t, i, h)) \in Nat
        /\ Occ(toSwitch[t] \o out[t], DownCopies(B, t, i, h))
             <= Occ(toSwitch[t], DownCopies(B, t, i, h)) + 1
        /\ ~(t = From /\ ours) =>
             Occ(toSwitch[t] \o out[t], DownCopies(B, t, i, h))
               = Occ(toSwitch[t], DownCopies(B, t, i, h))
    BY <2>2, DownMore
  <2> HIDE DEF ours
  <2>5. CASE t = From /\ ours
    BY <1>1, <2>3, <2>4, <2>5
  <2>6. CASE ~(t = From /\ ours)
    BY <2>1, <2>3, <2>4, <2>6
  <2> QED BY <2>5, <2>6
<1>3. DownGain(B, i, h, G)
  BY <1>2 DEF DownGain
<1> QED BY <1>3

\* The message in service leaves the controller.
LEMMA CtrlLess ==
  ASSUME Inv, NEW types, Processes(types), ctrl' = Finish(ctrl),
         NEW B, NEW i, NEW h, NEW G
  PROVE  /\ ControllerGains(B, i, h, G)
         /\ AtController \in Place
         /\ Message \in UpCopies(B, From, i, h) => Loses(B, i, h, AtController)
<1>1. /\ ctrl \in QueueOf(Item) /\ WorkConserving(ctrl)
      /\ Contents(ctrl) \in Seq(Item)
      /\ ctrl.event # <<>>
  BY ChannelTypes DEF Processes
<1>2. /\ Head(ctrl.event) \in Item
      /\ Head(ctrl.event) = Head(Contents(ctrl))
      /\ Contents(ctrl') = Tail(Contents(ctrl))
  BY <1>1, FinishIsFirst
<1>3. Contents(ctrl) # <<>>
  BY <1>1, ConcatEqualIffEmpty, QueueFields DEF Contents
<1>4. Message \in UpCopies(B, From, i, h) =>
        Head(Contents(ctrl)) \in QueuedCopies(B, i, h)
  BY <1>2 DEF QueuedCopies, Message, From
<1>5. /\ Occ(Tail(Contents(ctrl)), QueuedCopies(B, i, h))
           <= Occ(Contents(ctrl), QueuedCopies(B, i, h))
      /\ Head(Contents(ctrl)) \in QueuedCopies(B, i, h) =>
           Occ(Tail(Contents(ctrl)), QueuedCopies(B, i, h))
             < Occ(Contents(ctrl), QueuedCopies(B, i, h))
  BY <1>1, <1>3, OccShorter
<1>6. Into(AtController, G) \in {0, 1}
  BY IntoIsSmall
<1>7. /\ Occ(Contents(ctrl), QueuedCopies(B, i, h)) \in Nat
      /\ Occ(Tail(Contents(ctrl)), QueuedCopies(B, i, h)) \in Nat
  <2>1. Tail(Contents(ctrl)) \in Seq(Item)
    BY <1>1, <1>3, HeadTailProperties
  <2> QED BY <1>1, <2>1, OccPositive
<1>8. ControllerGains(B, i, h, G)
  BY <1>2, <1>5, <1>6, <1>7 DEF ControllerGains
<1>9. Message \in UpCopies(B, From, i, h) => Loses(B, i, h, AtController)
  BY <1>2, <1>4, <1>5, CountedAtController DEF Loses
<1>10. AtController \in Place
  BY CountedAtController
<1> QED BY <1>8, <1>9, <1>10

\* A message of s joins the controller's queue.
LEMMA CtrlMore ==
  ASSUME Inv, NEW s \in Switch, MessageArrives(s), NEW B, NEW i, NEW h
  PROVE  /\ GoingUp(s) \in Place
         /\ \E G \in SUBSET {AtController} :
              /\ ControllerGains(B, i, h, G)
              /\ UpGain(B, i, h, G)
              /\ G # {} => Loses(B, i, h, GoingUp(s))
<1> DEFINE m == Head(toController[s])
           item == [from |-> s, msg |-> m]
           G == IF m \in UpCopies(B, s, i, h) THEN {AtController} ELSE {}
<1>1. /\ toController \in [Switch -> Seq(UpMessage)]
      /\ \A t \in Switch : toController[t] \in Seq(UpMessage)
      /\ ctrl \in QueueOf(Item) /\ WorkConserving(ctrl)
      /\ Contents(ctrl) \in Seq(Item)
      /\ toController[s] # <<>>
  BY ChannelTypes DEF MessageArrives
<1>2. m \in UpMessage
  BY <1>1, HeadTailProperties
<1>3. item \in Item /\ (item \in QueuedCopies(B, i, h) <=> m \in UpCopies(B, s, i, h))
  BY <1>2 DEF Item, QueuedCopies
<1>4. \A t \in Switch :
        toController'[t] = IF t = s THEN Tail(toController[s]) ELSE toController[t]
  BY <1>1 DEF MessageArrives
<1>5. /\ Occ(Tail(toController[s]), UpCopies(B, s, i, h))
           <= Occ(toController[s], UpCopies(B, s, i, h))
      /\ m \in UpCopies(B, s, i, h) =>
           Occ(Tail(toController[s]), UpCopies(B, s, i, h))
             < Occ(toController[s], UpCopies(B, s, i, h))
  BY <1>1, OccShorter
<1> HIDE DEF item
<1>6. Contents(ctrl') = Append(Contents(ctrl), item)
  BY <1>1, <1>3, ArriveIsLast DEF MessageArrives, item
<1>7. /\ Occ(Contents(ctrl), QueuedCopies(B, i, h)) \in Nat
      /\ Occ(Append(Contents(ctrl), item), QueuedCopies(B, i, h))
           <= Occ(Contents(ctrl), QueuedCopies(B, i, h)) + 1
      /\ item \notin QueuedCopies(B, i, h) =>
           Occ(Append(Contents(ctrl), item), QueuedCopies(B, i, h))
             = Occ(Contents(ctrl), QueuedCopies(B, i, h))
  BY <1>1, <1>3, OccLonger
<1>8. ASSUME NEW t \in Switch
      PROVE  Occ(toController'[t], UpCopies(B, t, i, h))
               <= Occ(toController[t], UpCopies(B, t, i, h)) + Into(GoingUp(t), G)
  <2>1. Into(GoingUp(t), G) \in {0, 1}
    BY IntoIsSmall
  <2>2. Tail(toController[s]) \in Seq(UpMessage)
    BY <1>1, HeadTailProperties
  <2>3. /\ Occ(toController[t], UpCopies(B, t, i, h)) \in Nat
        /\ Occ(Tail(toController[s]), UpCopies(B, s, i, h)) \in Nat
    BY <1>1, <2>2, OccPositive
  <2>4. CASE t = s
    BY <1>4, <1>5, <2>1, <2>3, <2>4
  <2>5. CASE t # s
    BY <1>4, <2>1, <2>3, <2>5
  <2> QED BY <2>4, <2>5
<1>9. m \in UpCopies(B, s, i, h) => Into(AtController, G) = 1
  BY DEF Into
<1>10. Into(AtController, G) \in {0, 1}
  BY IntoIsSmall
<1>11. m \in UpCopies(B, s, i, h) => Loses(B, i, h, GoingUp(s))
  BY <1>4, <1>5, CountedGoingUp DEF Loses
<1>12. /\ G \in SUBSET {AtController}
       /\ G # {} => m \in UpCopies(B, s, i, h)
  OBVIOUS
<1>13. GoingUp(s) \in Place
  BY CountedGoingUp
<1> HIDE DEF m, G
<1>14. ControllerGains(B, i, h, G)
  <2>1. CASE m \in UpCopies(B, s, i, h)
    BY <1>6, <1>7, <1>9, <2>1 DEF ControllerGains
  <2>2. CASE m \notin UpCopies(B, s, i, h)
    BY <1>3, <1>6, <1>7, <1>10, <2>2 DEF ControllerGains
  <2> QED BY <2>1, <2>2
<1>15. UpGain(B, i, h, G)
  BY <1>8 DEF UpGain
<1> QED BY <1>11, <1>12, <1>13, <1>14, <1>15
-----------------------------------------------------------------------------
(* Every step moves copies, and makes none.                                *)

\* A frame goes back to where it came from in no step: neither a flow entry that
\* the frame in service hits nor a packet-out sends a frame to the port it came
\* in on, to a port that is disabled or to one that is not connected.
NoWayBack ==
  \A s \in Switch :
    /\ ServiceEnds(s) /\ ~Miss(s) =>
         returnAction(entry_map[s], ExtractMatch(Served(s)))
           \in Onward(s, Served(s))
    /\ Receives(s, "PACKET_OUT") =>
         LET m == Received(s)
             frames == buffer[s].pending_msgs
         IN  m.buffer_id \in DOMAIN frames /\ m.outport \in Port =>
               m.outport \in Onward(s, frames[m.buffer_id])
    /\ Receives(s, "PACKET_OUT_FULL") =>
         LET m == Received(s)
         IN  m.outport \in Port => m.outport \in Onward(s, m.frame)

\* Steps that touch no place.
LEMMA NothingMoves ==
  ASSUME Inv, Inv', NEW B, NEW i, NEW h \in Host,
         UNCHANGED <<wire, proc, buffer, toController, ctrl, toSwitch, received>>
  PROVE  Moves(Counts(B, i, h), Counts(B, i, h)')
<1> DEFINE G == {}
<1>1. G \in SUBSET Place /\ G = {}
  OBVIOUS
<1>2. Brings(B, i, h, G)
  BY DEF Brings
<1> HIDE DEF G
<1> QED BY <1>1, <1>2, BringsMoves

\* Steps that take a copy from P to X, if there is one.
LEMMA Relocates ==
  ASSUME Inv, Inv', NEW B, NEW i, NEW h \in Host, NEW P \in Place,
         NEW X \in Place, P # X, NEW G \in SUBSET {X}, Brings(B, i, h, G),
         G # {} => Loses(B, i, h, P)
  PROVE  Moves(Counts(B, i, h), Counts(B, i, h)')
<1>1. G \in SUBSET Place /\ P \in Place \ G /\ \A Q, R \in G : Q = R
  OBVIOUS
<1> QED BY <1>1, BringsMoves

\* No place is another.
LEMMA PlacesDiffer ==
  ASSUME NEW s, NEW p, NEW n
  PROVE  /\ OnWire(s, p) # InService(s)
         /\ InService(s) # InBuffer(s, n)
         /\ InService(s) # GoingUp(s)
         /\ GoingUp(s) # AtController
         /\ AtController # GoingDown(s)
         /\ InService(s).kind \notin {"wire", "host"}
         /\ InBuffer(s, n).kind \notin {"wire", "host"}
         /\ GoingDown(s).kind \notin {"wire", "host"}
BY DEF OnWire, InService, InBuffer, GoingUp, AtController, GoingDown

\* A frame arrives: from the link into the service queue.
LEMMA ArrivalMoves ==
  ASSUME Inv, Inv', NEW B, NEW i, NEW h \in Host, NEW s \in Switch,
         NEW p \in Port, FrameArrives(s, p), UNCHANGED ctrl
  PROVE  Moves(Counts(B, i, h), Counts(B, i, h)')
<1>1. UNCHANGED <<buffer, toController, toSwitch, received, ctrl>>
  BY DEF FrameArrives, channelVars
<1>2. PICK G \in SUBSET {InService(s)} :
        /\ ServicesGain(B, i, h, G)
        /\ G # {} => Head(wire[s][p]) \in Copies(B, s, i, h)
  BY ProcMore
<1>3. /\ WiresGain(B, i, h, G)
      /\ OnWire(s, p) \in Place
      /\ Head(wire[s][p]) \in Copies(B, s, i, h) => Loses(B, i, h, OnWire(s, p))
  BY WireLess
<1>4. Brings(B, i, h, G)
  BY <1>1, <1>2, <1>3 DEF Brings
<1>5. InService(s) \in Place /\ OnWire(s, p) # InService(s)
  BY CountedInSwitches, PlacesDiffer
<1> QED BY <1>2, <1>3, <1>4, <1>5, Relocates

\* A switch puts a frame that was at P on ports it may go on.
LEMMA TransmissionMoves ==
  ASSUME Inv, Inv', NEW B, HostsDivided(B), NEW i, NEW h \in Host,
         NEW s \in Switch, NEW f \in Frame, NEW ps \in SUBSET Onward(s, f),
         Transmit(s, f, ps), UNCHANGED <<toController, ctrl>>,
         UNCHANGED proc \/ \A G : ServicesGain(B, i, h, G),
         UNCHANGED buffer \/ \A G : BuffersGain(B, i, h, G),
         UNCHANGED toSwitch \/ \A G : DownGain(B, i, h, G),
         NEW P \in Place, P.kind \notin {"wire", "host"},
         f \in Copies(B, s, i, h) => Loses(B, i, h, P)
  PROVE  Moves(Counts(B, i, h), Counts(B, i, h)')
<1>1. PICK G \in SUBSET Place :
        /\ \A Q, R \in G : Q = R
        /\ \A Q \in G : Q.kind \in {"wire", "host"}
        /\ G # {} => f \in Copies(B, s, i, h)
        /\ WiresGain(B, i, h, G)
        /\ HostGains(B, i, h, G)
  BY TransmitBrings
<1>2. Brings(B, i, h, G)
  BY <1>1 DEF Brings
<1>3. P \in Place \ G
  BY <1>1
<1> QED BY <1>1, <1>2, <1>3, BringsMoves

\* A service ends with a table hit: the frame goes on to a link or a host.
LEMMA ForwardingMoves ==
  ASSUME Inv, Inv', NEW B, HostsDivided(B), NoWayBack, NEW i, NEW h \in Host,
         NEW s \in Switch, ForwardFrame(s), UNCHANGED ctrl
  PROVE  Moves(Counts(B, i, h), Counts(B, i, h)')
<1> DEFINE port == returnAction(entry_map[s], ExtractMatch(Served(s)))
<1>1. /\ ServiceEnds(s) /\ ~Miss(s) /\ NextService(s)
      /\ Transmit(s, Served(s), {port})
      /\ UNCHANGED <<toController, toSwitch, buffer, ctrl>>
  BY DEF ForwardFrame, channelVars
<1>2. port \in Onward(s, Served(s))
  BY <1>1 DEF NoWayBack
<1> HIDE DEF port
<1>3. /\ Served(s) \in Frame /\ InService(s) \in Place
      /\ \A G : ServicesGain(B, i, h, G)
      /\ Served(s) \in Copies(B, s, i, h) => Loses(B, i, h, InService(s))
  BY <1>1, ProcLess
<1>4. {port} \in SUBSET Onward(s, Served(s))
  BY <1>2
<1>5. InService(s).kind \notin {"wire", "host"}
  BY PlacesDiffer
<1> QED BY <1>1, <1>3, <1>4, <1>5, TransmissionMoves

\* A table miss: the frame goes into the buffer.
LEMMA PacketInMoves ==
  ASSUME Inv, Inv', NEW B, NEW i, NEW h \in Host, NEW s \in Switch,
         SendPacketIn(s), UNCHANGED ctrl
  PROVE  Moves(Counts(B, i, h), Counts(B, i, h)')
<1> DEFINE m == PacketInHeader(StoredId(buffer[s]), Served(s))
<1>1. /\ ServiceEnds(s) /\ NextService(s)
      /\ SendUp(s, <<m>>)
      /\ UNCHANGED <<wire, received, toSwitch, ctrl>>
  BY DEF SendPacketIn, linkVars
<1>2. /\ Served(s) \in Frame /\ InService(s) \in Place
      /\ \A G : ServicesGain(B, i, h, G)
      /\ Served(s) \in Copies(B, s, i, h) => Loses(B, i, h, InService(s))
  BY <1>1, ProcLess
<1>3. PICK n \in BufferId : \E G \in SUBSET {InBuffer(s, n)} :
        /\ BuffersGain(B, i, h, G)
        /\ G # {} => Served(s) \in Copies(B, s, i, h)
  BY <1>2, BufferMore
<1>4. PICK G \in SUBSET {InBuffer(s, n)} :
        /\ BuffersGain(B, i, h, G)
        /\ G # {} => Served(s) \in Copies(B, s, i, h)
  BY <1>3
<1>5. m \in UpMessage /\ m \notin UpCopies(B, s, i, h)
  <2>1. IsBuffer(buffer[s])
    BY PlaceTypes
  <2>2. StoredId(buffer[s]) \in BufferId
    BY <2>1, NoBufferAssumption DEF StoredId, IsBuffer, BufferId
  <2>3. m \in UpMessage
    BY <1>2, <2>2, UpMessages
  <2>4. m.type = "PACKET_IN"
    BY DEF PacketInHeader
  <2> QED BY <2>3, <2>4 DEF UpCopies
<1> HIDE DEF m
<1>6. UpGain(B, i, h, G)
  BY <1>1, <1>5, UpMore
<1>7. Brings(B, i, h, G)
  BY <1>1, <1>2, <1>4, <1>6 DEF Brings
<1>8. InBuffer(s, n) \in Place /\ InService(s) # InBuffer(s, n)
  BY CountedInBuffers, PlacesDiffer
<1> QED BY <1>2, <1>4, <1>7, <1>8, Relocates

\* A table miss that finds no room: the frame goes to the controller.
LEMMA CompletePacketInMoves ==
  ASSUME Inv, Inv', NEW B, NEW i, NEW h \in Host, NEW s \in Switch,
         SendCompletePacketIn(s), UNCHANGED ctrl
  PROVE  Moves(Counts(B, i, h), Counts(B, i, h)')
<1> DEFINE m == PacketInFrame(Served(s))
           G == IF m \in UpCopies(B, s, i, h) THEN {GoingUp(s)} ELSE {}
<1>1. /\ ServiceEnds(s) /\ NextService(s)
      /\ SendUp(s, <<m>>)
      /\ UNCHANGED <<wire, received, buffer, toSwitch, ctrl>>
  BY DEF SendCompletePacketIn, linkVars
<1>2. /\ Served(s) \in Frame /\ InService(s) \in Place
      /\ \A H : ServicesGain(B, i, h, H)
      /\ Served(s) \in Copies(B, s, i, h) => Loses(B, i, h, InService(s))
  BY <1>1, ProcLess
<1>3. m \in UpMessage
  BY <1>2, UpMessages
<1>4. m \in UpCopies(B, s, i, h) => Served(s) \in Copies(B, s, i, h)
  BY DEF UpCopies, PacketInFrame
<1> HIDE DEF m
<1>5. /\ m \in UpCopies(B, s, i, h) => GoingUp(s) \in G
      /\ G \in SUBSET {GoingUp(s)}
      /\ G # {} => Served(s) \in Copies(B, s, i, h)
  BY <1>4
<1> HIDE DEF G
<1>6. UpGain(B, i, h, G)
  BY <1>1, <1>3, <1>5, UpMore
<1>7. Brings(B, i, h, G)
  BY <1>1, <1>2, <1>6 DEF Brings
<1>8. GoingUp(s) \in Place /\ InService(s) # GoingUp(s)
  BY CountedGoingUp, PlacesDiffer
<1> QED BY <1>2, <1>5, <1>7, <1>8, Relocates

\* A step that brings no copy anywhere.
LEMMA NothingBrought ==
  ASSUME Inv, Inv', NEW B, NEW i, NEW h \in Host, Brings(B, i, h, {})
  PROVE  Moves(Counts(B, i, h), Counts(B, i, h)')
<1> DEFINE G == {}
<1>1. G \in SUBSET Place /\ G = {} /\ Brings(B, i, h, G)
  OBVIOUS
<1> HIDE DEF G
<1> QED BY <1>1, BringsMoves

\* A switch opens its connection, or answers the request for its features.
LEMMA HandshakeMoves ==
  ASSUME Inv, Inv', NEW B, NEW i, NEW h \in Host, NEW s \in Switch,
         connect(s) \/ handleFeaturesRequest(s), UNCHANGED ctrl
  PROVE  Moves(Counts(B, i, h), Counts(B, i, h)')
<1>1. PICK m \in {Established, FeaturesReply} : SendUp(s, <<m>>)
  BY DEF connect, handleFeaturesRequest
<1>2. m \in UpMessage /\ m \notin UpCopies(B, s, i, h)
  BY UpMessages DEF UpCopies, Established, FeaturesReply
<1>3. UpGain(B, i, h, {})
  BY <1>1, <1>2, UpMore
<1>4. UNCHANGED <<wire, received, proc, buffer, ctrl>>
  BY DEF connect, handleFeaturesRequest, linkVars, switchVars
<1>5. UNCHANGED toSwitch \/ DownGain(B, i, h, {})
  <2>1. CASE connect(s)
    BY <2>1 DEF connect
  <2>2. CASE handleFeaturesRequest(s)
    <3>1. toSwitch[s] # <<>> /\ Consume(s)
      BY <2>2 DEF handleFeaturesRequest, Receives
    <3> QED BY <3>1, DownLess
  <2> QED BY <2>1, <2>2
<1>6. Brings(B, i, h, {})
  BY <1>3, <1>4, <1>5 DEF Brings
<1> QED BY <1>6, NothingBrought

\* A switch takes a flow entry, or deletes a frame that it has in its buffer (or
\* fails to).
LEMMA TakingMoves ==
  ASSUME Inv, Inv', NEW B, NEW i, NEW h \in Host, NEW s \in Switch,
         handleFlowMod(s) \/ dropBuffered(s), UNCHANGED ctrl
  PROVE  Moves(Counts(B, i, h), Counts(B, i, h)')
<1>1. /\ (toSwitch[s] # <<>> /\ Consume(s)) \/ UNCHANGED toSwitch
      /\ UNCHANGED <<wire, received, proc, toController, ctrl>>
  BY DEF handleFlowMod, dropBuffered, Receives, linkVars
<1>2. UNCHANGED buffer \/ Takes(s, Received(s).buffer_id)
  BY DEF handleFlowMod, dropBuffered, Takes
<1>3. UNCHANGED toSwitch \/ DownGain(B, i, h, {})
  BY <1>1, DownLess
<1>4. UNCHANGED buffer \/ BuffersGain(B, i, h, {})
  BY <1>2, BufferLess
<1>5. Brings(B, i, h, {})
  BY <1>1, <1>3, <1>4 DEF Brings
<1> QED BY <1>5, NothingBrought

\* A packet-out for a port on which a frame may go on, or for all of them.
LEMMA OutPortsOnward ==
  ASSUME NEW s \in Switch, NEW f \in Frame, NEW port \in Port \cup {FloodPort},
         port \in Port => port \in Onward(s, f)
  PROVE  OutPorts(s, f, port) \in SUBSET Onward(s, f)
BY DEF OutPorts, Onward, OpenPorts

\* A packet-out for a frame in the buffer: the frame goes on.
LEMMA PacketOutMoves ==
  ASSUME Inv, Inv', NEW B, HostsDivided(B), NoWayBack, NEW i, NEW h \in Host,
         NEW s \in Switch, handlePacketOut(s), UNCHANGED ctrl
  PROVE  Moves(Counts(B, i, h), Counts(B, i, h)')
<1> DEFINE id == Received(s).buffer_id
           f == buffer[s].pending_msgs[id]
           port == Received(s).outport
<1>1. /\ Receives(s, "PACKET_OUT") /\ toSwitch[s] # <<>>
      /\ port # AnyPort
      /\ UNCHANGED <<toController, proc, ctrl>>
  BY DEF handlePacketOut, Receives
<1>2. CASE id \in DOMAIN buffer[s].pending_msgs
  <2>1. Consume(s) /\ Transmit(s, f, OutPorts(s, f, port)) /\ Takes(s, id)
    BY <1>2 DEF handlePacketOut, Takes
  <2>2. port \in Port \cup {FloodPort}
    <3>1. Received(s) \in DownMessage
      BY <1>1, <2>1, DownLess
    <3>2. Received(s).type = "PACKET_OUT"
      BY <1>1 DEF Receives
    <3> QED BY <1>1, <3>1, <3>2, DownFields
  <2>3. port \in Port => port \in Onward(s, f)
    BY <1>1, <1>2 DEF NoWayBack
  <2> HIDE DEF port
  <2>4. /\ f \in Frame
        /\ InBuffer(s, id) \in Place
        /\ f \in Copies(B, s, i, h) => Loses(B, i, h, InBuffer(s, id))
        /\ \A G : BuffersGain(B, i, h, G)
    BY <1>2, <2>1, BufferLess
  <2> HIDE DEF f, id
  <2>5. OutPorts(s, f, port) \in SUBSET Onward(s, f)
    BY <2>2, <2>3, <2>4, OutPortsOnward
  <2>6. \A G : DownGain(B, i, h, G)
    BY <1>1, <2>1, DownLess
  <2>7. InBuffer(s, id).kind \notin {"wire", "host"}
    BY PlacesDiffer
  <2> QED BY <1>1, <2>1, <2>4, <2>5, <2>6, <2>7, TransmissionMoves
<1>3. CASE id \notin DOMAIN buffer[s].pending_msgs
  <2>1. UNCHANGED <<wire, proc, buffer, toController, ctrl, toSwitch, received>>
    BY <1>1, <1>3 DEF handlePacketOut, linkVars
  <2> QED BY <2>1, NothingMoves
<1> QED BY <1>2, <1>3

\* A packet-out that carries its frame: the frame goes on.
LEMMA CompletePacketOutMoves ==
  ASSUME Inv, Inv', NEW B, HostsDivided(B), NoWayBack, NEW i, NEW h \in Host,
         NEW s \in Switch, handleCompletePacketOut(s), UNCHANGED ctrl
  PROVE  Moves(Counts(B, i, h), Counts(B, i, h)')
<1> DEFINE f == Received(s).frame
           port == Received(s).outport
<1>1. /\ Receives(s, "PACKET_OUT_FULL") /\ toSwitch[s] # <<>> /\ Consume(s)
      /\ Received(s).type = "PACKET_OUT_FULL"
      /\ Transmit(s, f, OutPorts(s, f, port))
      /\ UNCHANGED <<toController, proc, buffer, ctrl>>
  BY DEF handleCompletePacketOut, Receives, switchVars
<1>2. /\ Received(s) \in DownMessage
      /\ GoingDown(s) \in Place
      /\ \A G : DownGain(B, i, h, G)
      /\ Received(s) \in DownCopies(B, s, i, h) => Loses(B, i, h, GoingDown(s))
  BY <1>1, DownLess
<1>3. f \in Frame /\ port \in Port \cup {FloodPort}
  BY <1>1, <1>2, DownFields
<1>4. port \in Port => port \in Onward(s, f)
  BY <1>1 DEF NoWayBack
<1>5. f \in Copies(B, s, i, h) => Loses(B, i, h, GoingDown(s))
  BY <1>1, <1>2 DEF DownCopies
<1> HIDE DEF f, port
<1>6. OutPorts(s, f, port) \in SUBSET Onward(s, f)
  BY <1>3, <1>4, OutPortsOnward
<1>7. GoingDown(s).kind \notin {"wire", "host"}
  BY PlacesDiffer
<1> QED BY <1>1, <1>2, <1>3, <1>5, <1>6, <1>7, TransmissionMoves

\* A message of a switch arrives at the controller.
LEMMA MessageMoves ==
  ASSUME Inv, Inv', NEW B, NEW i, NEW h \in Host, NEW s \in Switch,
         MessageArrives(s), UNCHANGED <<linkVars, switchVars>>
  PROVE  Moves(Counts(B, i, h), Counts(B, i, h)')
<1>1. UNCHANGED <<wire, received, proc, buffer, toSwitch>>
  BY DEF MessageArrives, linkVars, switchVars
<1>2. GoingUp(s) \in Place
  BY CtrlMore
<1>3. PICK G \in SUBSET {AtController} :
        /\ ControllerGains(B, i, h, G)
        /\ UpGain(B, i, h, G)
        /\ G # {} => Loses(B, i, h, GoingUp(s))
  BY CtrlMore
<1>4. Brings(B, i, h, G)
  BY <1>1, <1>3 DEF Brings
<1>5. AtController \in Place /\ GoingUp(s) # AtController
  BY CountedAtController, PlacesDiffer
<1> QED BY <1>2, <1>3, <1>4, <1>5, Relocates

\* The controller answers; where the oracle answers itself, a frame is new.
LEMMA AnswerMoves ==
  ASSUME Inv, Inv', ~(Behavior = "Forwarding" /\ ArpOracle),
         NEW B, NEW i, NEW h \in Host,
         ControllerServes, UNCHANGED <<linkVars, switchVars>>
  PROVE  Moves(Counts(B, i, h), Counts(B, i, h)')
<1> DEFINE out == TheReply
<1>1. /\ Processes(UpTypes)
      /\ From \in Switch /\ Message \in UpMessage /\ Message.type \in UpTypes
      /\ Reply(out, socketMap')
  BY ControllerReplies
<1>2. \A t \in Switch : Relays(out[t], t)
  BY <1>1, ControllerRelays
<1>3. UNCHANGED <<wire, received, proc, buffer>>
  BY DEF linkVars, switchVars
<1> HIDE DEF out
<1>4. CASE \A s \in Switch : out[s] # <<>> => s \in socketMap'
  <2>1. SendsDown(out) /\ ctrl' = Finish(ctrl) /\ UNCHANGED toController
    BY <1>1, <1>4 DEF Reply, SendsDown
  <2>2. PICK G \in SUBSET {GoingDown(From)} :
          /\ DownGain(B, i, h, G)
          /\ G # {} => Message \in UpCopies(B, From, i, h)
    BY <1>1, <1>2, <2>1, DownGrows
  <2>3. /\ ControllerGains(B, i, h, G)
        /\ AtController \in Place
        /\ Message \in UpCopies(B, From, i, h) => Loses(B, i, h, AtController)
    BY <1>1, <2>1, CtrlLess
  <2>4. Brings(B, i, h, G)
    BY <1>3, <2>1, <2>2, <2>3 DEF Brings
  <2>5. GoingDown(From) \in Place /\ AtController # GoingDown(From)
    BY <1>1, CountedGoingDown, PlacesDiffer
  <2> QED BY <2>2, <2>3, <2>4, <2>5, Relocates
<1>5. CASE ~ \A s \in Switch : out[s] # <<>> => s \in socketMap'
  <2>1. UNCHANGED <<wire, proc, buffer, toController, ctrl, toSwitch, received>>
    BY <1>1, <1>3, <1>5 DEF Reply, channelVars
  <2> QED BY <2>1, NothingMoves
<1> QED BY <1>4, <1>5

\* Every step of a switch.
LEMMA SwitchMoves ==
  ASSUME Inv, Inv', NEW B, HostsDivided(B), NoWayBack, NEW i, NEW h \in Host,
         NEW s \in Switch, SwitchStep(s), UNCHANGED controllerVars
  PROVE  Moves(Counts(B, i, h), Counts(B, i, h)')
<1>1. UNCHANGED ctrl
  BY DEF controllerVars
<1>2. CASE connect(s) \/ handleFeaturesRequest(s)
  BY <1>1, <1>2, HandshakeMoves
<1>3. ASSUME NEW p \in Port, FrameArrives(s, p)
      PROVE  Moves(Counts(B, i, h), Counts(B, i, h)')
  BY <1>1, <1>3, ArrivalMoves
<1>4. CASE ForwardFrame(s)
  BY <1>1, <1>4, ForwardingMoves
<1>5. CASE SendPacketIn(s)
  BY <1>1, <1>5, PacketInMoves
<1>6. CASE SendCompletePacketIn(s)
  BY <1>1, <1>6, CompletePacketInMoves
<1>7. CASE PacketInOnClosedSocket(s) \/ FlowTimer(s)
  <2>1. UNCHANGED <<wire, proc, buffer, toController, ctrl, toSwitch, received>>
    BY <1>1, <1>7 DEF PacketInOnClosedSocket, FlowTimer, linkVars, channelVars,
                      switchVars
  <2> QED BY <2>1, NothingMoves
<1>8. CASE handleFlowMod(s) \/ dropBuffered(s)
  BY <1>1, <1>8, TakingMoves
<1>9. CASE handlePacketOut(s)
  BY <1>1, <1>9, PacketOutMoves
<1>10. CASE handleCompletePacketOut(s)
  BY <1>1, <1>10, CompletePacketOutMoves
<1> QED BY <1>2, <1>3, <1>4, <1>5, <1>6, <1>7, <1>8, <1>9, <1>10
        DEF SwitchStep, SwitchServes, SwitchReceives

\* A host puts a new frame on the link of its switch.
AddsFrame(s, p, f) ==
  /\ wire' = [wire EXCEPT ![s][p] = Append(@, f)]
  /\ f.id = Len(sent) + 1
  /\ Len(sent') = Len(sent) + 1

\* Every step of a host is of this kind.
LEMMA HostAdds ==
  ASSUME Inv, HostStep
  PROVE  /\ UNCHANGED <<received, proc, buffer, toController, ctrl, toSwitch>>
         /\ \E s \in Switch, p \in Port, f \in Frame : AddsFrame(s, p, f)
<1>1. UNCHANGED <<channelVars, switchVars, controllerVars>>
  BY DEF HostStep
<1>2. PICK h \in Host, d \in Address, t \in FrameType,
           tpa \in Host \cup {NoHost}, s \in Switch, p \in Port :
        Sends(h, d, t, tpa, s, p)
  <2>1. PICK h \in Host, s \in Switch, p \in Port : HostSends(h, s, p)
    BY DEF HostStep
  <2>2. CASE \E d \in Host, t \in EtherType : Sends(h, d, t, NoHost, s, p)
    BY <2>2 DEF Address, FrameType
  <2>3. CASE \E a \in Asked : Sends(h, Broadcast, ETHERTYPE_ARP, a, s, p)
    BY <2>3, AskedAssumption DEF Address, FrameType
  <2> QED BY <2>1, <2>2, <2>3 DEF HostSends
<1> DEFINE f == [id |-> Len(sent) + 1, in_port |-> p, eth_src |-> h,
                 eth_dst |-> d, eth_type |-> t, arp_tpa |-> tpa]
           rec == [src |-> h, dst |-> d, tpa |-> tpa]
<1>3. sent \in Seq(Sent) /\ rec \in Sent
  BY DEF Inv, LinksTypeOK, Sent
<1>4. f \in Frame /\ f.id = Len(sent) + 1
  <2>1. Len(sent) + 1 \in Nat
    BY <1>3
  <2> QED BY <2>1 DEF Frame
<1>5. /\ wire' = [wire EXCEPT ![s][p] = Append(@, f)]
      /\ sent' = Append(sent, rec) /\ UNCHANGED received
  BY <1>2 DEF Sends
<1> HIDE DEF f, rec
<1>6. Len(sent') = Len(sent) + 1
  BY <1>3, <1>5, AppendProperties
<1> QED BY <1>1, <1>4, <1>5, <1>6 DEF AddsFrame, channelVars, switchVars,
                                      controllerVars

\* The frame comes to that link.
LEMMA WireMore ==
  ASSUME Inv, NEW s \in Switch, NEW p \in Port, NEW f \in Frame,
         AddsFrame(s, p, f), NEW B, NEW i, NEW h,
         NEW G, f \in Copies(B, s, i, h) => OnWire(s, p) \in G
  PROVE  WiresGain(B, i, h, G)
<1>1. /\ wire \in [Switch -> [Port -> Seq(Frame)]]
      /\ wire' = [wire EXCEPT ![s][p] = Append(@, f)]
  BY PlaceTypes DEF AddsFrame
<1>2. ASSUME NEW t \in Switch, NEW q \in Port
      PROVE  Occ(wire'[t][q], Copies(B, t, i, h))
               <= Occ(wire[t][q], Copies(B, t, i, h)) + Into(OnWire(t, q), G)
  <2>1. Into(OnWire(t, q), G) \in {0, 1}
    BY IntoIsSmall
  <2>2. f \in Copies(B, s, i, h) => Into(OnWire(s, p), G) = 1
    BY DEF Into
  <2>3. wire[t][q] \in Seq(Frame)
    BY <1>1
  <2>4. wire'[t][q] = IF t = s /\ q = p THEN Append(wire[t][q], f)
                      ELSE wire[t][q]
    BY <1>1
  <2>5. /\ Occ(wire[t][q], Copies(B, t, i, h)) \in Nat
        /\ Occ(Append(wire[t][q], f), Copies(B, t, i, h))
             <= Occ(wire[t][q], Copies(B, t, i, h)) + 1
        /\ f \notin Copies(B, t, i, h) =>
             Occ(Append(wire[t][q], f), Copies(B, t, i, h))
               = Occ(wire[t][q], Copies(B, t, i, h))
    BY <2>3, OccLonger
  <2>6. CASE t = s /\ q = p
    BY <2>1, <2>2, <2>4, <2>5, <2>6
  <2>7. CASE ~(t = s /\ q = p)
    BY <2>1, <2>4, <2>5, <2>7
  <2> QED BY <2>6, <2>7
<1> QED BY <1>2 DEF WiresGain

\* A new frame keeps the invariant: no copy of it was anywhere.
LEMMA SendingKeepsOneWay ==
  ASSUME Inv, Inv', NEW B, OneWay(B), HostStep
  PROVE  OneWay(B)'
<1> SUFFICES ASSUME NEW h \in Host, NEW i \in Nat
             PROVE  /\ AtMostOne(Counts(B, i, h)')
                    /\ i > Len(sent') => Nowhere(Counts(B, i, h)')
  BY DEF OneWay, AtMostOne, Nowhere
<1>1. /\ Counts(B, i, h) \in [Place -> Nat]
      /\ Counts(B, i, h)' \in [Place -> Nat]
  BY CountsAreNumbers, CountsStayNumbers
<1>2. /\ AtMostOne(Counts(B, i, h))
      /\ i > Len(sent) => Nowhere(Counts(B, i, h))
  BY DEF OneWay
<1>3. UNCHANGED <<received, proc, buffer, toController, ctrl, toSwitch>>
  BY HostAdds
<1>4. PICK s \in Switch, p \in Port, f \in Frame : AddsFrame(s, p, f)
  BY HostAdds
<1>5. /\ f.id = Len(sent) + 1 /\ Len(sent') = Len(sent) + 1
      /\ Len(sent) \in Nat
  BY <1>4 DEF AddsFrame, Inv, LinksTypeOK
<1>6. CASE i # Len(sent) + 1
  <2>1. f \notin Copies(B, s, i, h)
    BY <1>5, <1>6 DEF Copies
  <2>2. WiresGain(B, i, h, {})
    BY <1>4, <2>1, WireMore
  <2>3. Brings(B, i, h, {})
    BY <1>3, <2>2 DEF Brings
  <2>4. Moves(Counts(B, i, h), Counts(B, i, h)')
    BY <2>3, NothingBrought
  <2>5. i > Len(sent') => i > Len(sent)
    BY <1>5
  <2> QED BY <1>1, <1>2, <2>4, <2>5, MovesMakeNoCopies
<1>7. CASE i = Len(sent) + 1
  <2> DEFINE G == {OnWire(s, p)}
  <2>1. WiresGain(B, i, h, G)
    BY <1>4, WireMore
  <2>2. Brings(B, i, h, G)
    BY <1>3, <2>1 DEF Brings
  <2>3. \A P \in Place : Counts(B, i, h)'[P] <= Counts(B, i, h)[P] + Into(P, G)
    BY <2>2, BringsAtMost
  <2>4. \A P \in Place : Counts(B, i, h)[P] = 0
    BY <1>2, <1>5, <1>7 DEF Nowhere
  <2>5. \A P \in Place : Counts(B, i, h)'[P] <= IF P = OnWire(s, p) THEN 1 ELSE 0
    BY <2>3, <2>4 DEF Into
  <2>6. AtMostOne(Counts(B, i, h)')
    BY <1>1, <2>5 DEF AtMostOne
  <2>7. ~(i > Len(sent'))
    BY <1>5, <1>7
  <2> QED BY <2>6, <2>7
<1> QED BY <1>6, <1>7

\* Every step keeps the invariant if frames do not go back.
LEMMA NextOneWay ==
  ASSUME ~(Behavior = "Forwarding" /\ ArpOracle), NEW B, HostsDivided(B)
  PROVE  Inv /\ Inv' /\ NoWayBack /\ OneWay(B) /\ [Next]_vars => OneWay(B)'
<1> SUFFICES ASSUME Inv, Inv', NoWayBack, OneWay(B), [Next]_vars
             PROVE  OneWay(B)'
  OBVIOUS
<1>1. CASE HostStep
  BY <1>1, SendingKeepsOneWay
<1>2. ASSUME NEW s \in Switch, OfSwitch(SwitchStep(s)) PROVE OneWay(B)'
  <2>1. SwitchStep(s) /\ UNCHANGED controllerVars
    BY <1>2 DEF OfSwitch
  <2>2. \A h \in Host, i \in Nat : Moves(Counts(B, i, h), Counts(B, i, h)')
    BY <2>1, SwitchMoves
  <2>3. UNCHANGED sent
    BY <2>1 DEF SwitchStep, SwitchServes, SwitchReceives, connect, FrameArrives,
                ForwardFrame, SendPacketIn, SendCompletePacketIn,
                PacketInOnClosedSocket, handleFeaturesRequest, handleFlowMod,
                handlePacketOut, dropBuffered, handleCompletePacketOut,
                FlowTimer, Transmit, linkVars
  <2> QED BY <2>2, <2>3, MovesKeepOneWay
<1>3. CASE OfController(ControllerStep)
  <2>1. ControllerStep /\ UNCHANGED <<linkVars, switchVars>>
    BY <1>3 DEF OfController
  <2>2. \A h \in Host, i \in Nat : Moves(Counts(B, i, h), Counts(B, i, h)')
    BY <2>1, MessageMoves, AnswerMoves DEF ControllerStep
  <2>3. UNCHANGED sent
    BY <2>1 DEF linkVars
  <2> QED BY <2>2, <2>3, MovesKeepOneWay
<1>4. CASE UNCHANGED vars
  <2>1. UNCHANGED <<wire, proc, buffer, toController, ctrl, toSwitch, received,
                    sent>>
    BY <1>4 DEF vars, linkVars, channelVars, switchVars, controllerVars
  <2>2. \A h \in Host, i \in Nat : Moves(Counts(B, i, h), Counts(B, i, h)')
    BY <2>1, NothingMoves
  <2> QED BY <2>1, <2>2, MovesKeepOneWay
<1> QED BY <1>1, <1>2, <1>3, <1>4 DEF Next

\* At the start there is no frame.
LEMMA InitOneWay ==
  ASSUME NEW B
  PROVE  Init => OneWay(B)
<1> SUFFICES ASSUME Init, NEW h \in Host, NEW i \in Nat
             PROVE  Nowhere(Counts(B, i, h))
  BY DEF OneWay, AtMostOne, Nowhere
<1>1. ASSUME NEW T PROVE Occ(<<>>, T) = 0
  <2>1. {k \in DOMAIN <<>> : <<>>[k] \in T} = {}
    OBVIOUS
  <2> QED BY <2>1, FS_EmptySet DEF Occ
<1>2. ASSUME NEW s \in Switch, NEW p \in Port
      PROVE  Counts(B, i, h)[OnWire(s, p)] = 0
  <2>1. wire[s][p] = <<>>
    BY DEF Init, LinksInit
  <2>2. Counts(B, i, h)[OnWire(s, p)] = Occ(wire[s][p], Copies(B, s, i, h))
    BY CountedOnWires
  <2>3. Occ(<<>>, Copies(B, s, i, h)) = 0
    BY <1>1
  <2> QED BY <2>1, <2>2, <2>3
<1>3. ASSUME NEW s \in Switch PROVE Counts(B, i, h)[InService(s)] = 0
  <2>1. Contents(proc[s]) = <<>>
    BY DEF Init, SwitchInit, IdleQueue, Contents
  <2> QED BY <1>1, <2>1, CountedInSwitches
<1>4. ASSUME NEW s \in Switch, NEW id \in BufferId
      PROVE  Counts(B, i, h)[InBuffer(s, id)] = 0
  <2>1. buffer[s] = EmptyBuffer /\ id \notin DOMAIN EmptyBuffer.pending_msgs
    BY InitChannels DEF EmptyBuffer
  <2> QED BY <2>1, CountedInBuffers DEF Held
<1>5. ASSUME NEW s \in Switch
      PROVE  Counts(B, i, h)[GoingUp(s)] = 0
  BY <1>1, InitChannels, CountedGoingUp
<1>6. ASSUME NEW s \in Switch
      PROVE  Counts(B, i, h)[GoingDown(s)] = 0
  BY <1>1, InitChannels, CountedGoingDown
<1>7. Counts(B, i, h)[AtController] = 0
  <2>1. Contents(ctrl) = <<>>
    BY DEF Init, ControllerInit, IdleQueue, Contents
  <2> QED BY <1>1, <2>1, CountedAtController
<1>8. Counts(B, i, h)[AtHost] = 0
  <2>1. received[h] = <<>>
    BY DEF Init, LinksInit
  <2>2. Counts(B, i, h)[AtHost] = Occ(received[h], {i})
    BY CountedAtHost
  <2>3. Occ(<<>>, {i}) = 0
    BY <1>1
  <2> QED BY <2>1, <2>2, <2>3
<1> QED BY <1>2, <1>3, <1>4, <1>5, <1>6, <1>7, <1>8 DEF Nowhere, Place

\* The invariant says of the hosts that they get no frame twice.
LEMMA ReceivedOnce ==
  ASSUME NEW B, OneWay(B), NEW h \in Host, NEW i \in Nat
  PROVE  Occ(received[h], {i}) <= 1
<1>1. AtMostOne(Counts(B, i, h))
  BY DEF OneWay
<1>2. /\ AtHost \in Place
      /\ Counts(B, i, h)[AtHost] = Occ(received[h], {i})
  BY CountedAtHost
<1> QED BY <1>1, <1>2 DEF AtMostOne

\* Which is what the property asks.
LEMMA OneWayDelivers ==
  ASSUME NEW B
  PROVE  Inv /\ OneWay(B) => NoDuplicateDelivery
<1> SUFFICES ASSUME Inv, OneWay(B), NEW h \in Host, NEW i \in Nat,
                    NEW j \in DOMAIN received[h], NEW k \in DOMAIN received[h],
                    received[h][j] = i, received[h][k] = i, j # k
             PROVE  FALSE
  <2>1. Inv => received \in [Host -> Seq(Nat)]
    BY PlaceTypes
  <2> QED BY <2>1 DEF NoDuplicateDelivery
<1>1. received[h] \in Seq(Nat)
  BY PlaceTypes
<1>2. Occ(received[h], {i}) <= 1
  BY ReceivedOnce
<1> DEFINE A == {n \in DOMAIN received[h] : received[h][n] \in {i}}
<1>3. IsFiniteSet(A)
  <2>1. IsFiniteSet(DOMAIN received[h])
    BY <1>1, LenProperties, FS_Interval
  <2>2. A \in SUBSET DOMAIN received[h]
    OBVIOUS
  <2> HIDE DEF A
  <2> QED BY <2>1, <2>2, FS_Subset
<1>4. {j, k} \in SUBSET A
  OBVIOUS
<1>5. Cardinality({j, k}) = 2
  <2> DEFINE S == {k}
  <2>1. {j, k} = S \cup {j} /\ j \notin S
    OBVIOUS
  <2>2. IsFiniteSet(S) /\ Cardinality(S) = 1
    BY FS_Singleton
  <2> HIDE DEF S
  <2>3. Cardinality(S \cup {j}) = Cardinality(S) + 1
    BY <2>1, <2>2, FS_AddElement
  <2> QED BY <2>1, <2>2, <2>3
<1> HIDE DEF A
<1>6. Cardinality(A) \in Nat /\ Cardinality({j, k}) <= Cardinality(A)
  BY <1>3, <1>4, FS_Subset, FS_CardinalityType
<1>7. Cardinality(A) <= 1
  BY <1>2 DEF Occ, A
<1> QED BY <1>5, <1>6, <1>7
-----------------------------------------------------------------------------
(* The theorems about delivery.                                            *)

\* Where the hosts are divided (one way to each, as in a tree or after the
\* spanning tree has disabled ports) and no frame is sent back to where it came
\* from, no host gets a frame twice: not by flooding, not by a packet-in and the
\* table hit that follows it, not by a buffer that hands a frame out again.  The
\* ARP oracle, whose answers are new frames, is left out.
THEOREM DeliveredOnce ==
  ASSUME ~(Behavior = "Forwarding" /\ ArpOracle), NEW Behind, HostsDivided(Behind)
  PROVE  Spec /\ []NoWayBack => []NoDuplicateDelivery
<1>1. Init => OneWay(Behind)
  BY InitOneWay
<1>2. Inv /\ Inv' /\ NoWayBack /\ OneWay(Behind) /\ [Next]_vars
        => OneWay(Behind)'
  BY NextOneWay
<1>3. Inv /\ OneWay(Behind) => NoDuplicateDelivery
  BY OneWayDelivers
<1> QED BY <1>1, <1>2, <1>3, Invariance, PTL DEF Spec

\* The hub installs no flow entry and floods every frame.
Floods(m) ==
  /\ m.type # "FLOW_MOD"
  /\ m.type \in {"PACKET_OUT", "PACKET_OUT_FULL"} => m.outport = FloodPort

OnlyFloods ==
  \A s \in Switch : /\ entry_map[s] = <<>> /\ timers[s] = <<>>
                    /\ \A m \in Elems(toSwitch[s]) : Floods(m)

\* No message is under way when the simulation starts.
LEMMA InitFloods == Init => OnlyFloods
<1> SUFFICES ASSUME Init, NEW s \in Switch
             PROVE  /\ entry_map[s] = <<>> /\ timers[s] = <<>>
                    /\ Elems(toSwitch[s]) = {}
  BY DEF OnlyFloods
<1> QED BY InitChannels, ElemsShort DEF Init, SwitchInit

\* The replies of the hub flood.
LEMMA HubFloods ==
  ASSUME Behavior = "Hub", Message.type \in UpTypes, NEW t \in Switch,
         NEW m \in Elems(TheReply[t])
  PROVE  Floods(m)
<1>1. m = FeaturesRequest \/ m = PacketOut(Message, FloodPort)
  BY Replies
<1>2. CASE m = FeaturesRequest
  BY <1>2 DEF Floods, FeaturesRequest
<1>3. CASE m = PacketOut(Message, FloodPort)
  BY <1>3 DEF Floods, PacketOut, PacketOutFrame, PacketOutHeader
<1> QED BY <1>1, <1>2, <1>3

\* No step of the network makes the hub install an entry.
LEMMA NextFloods ==
  ASSUME Behavior = "Hub"
  PROVE  Inv /\ OnlyFloods /\ [Next]_vars => OnlyFloods'
<1> SUFFICES ASSUME Inv, OnlyFloods, [Next]_vars PROVE OnlyFloods'
  OBVIOUS
<1>1. ASSUME UNCHANGED <<channelVars, entry_map, timers>> PROVE OnlyFloods'
  BY <1>1 DEF OnlyFloods, channelVars
<1>2. CASE HostStep
  BY <1>1, <1>2 DEF HostStep, switchVars
<1>3. CASE UNCHANGED vars
  BY <1>1, <1>3 DEF vars, switchVars
<1>4. ASSUME NEW s \in Switch, OfSwitch(SwitchStep(s)) PROVE OnlyFloods'
  <2>1. SwitchStep(s)
    BY <1>4 DEF OfSwitch
  <2>2. \A t \in Switch : Elems(toSwitch'[t]) \subseteq Elems(toSwitch[t])
    BY <2>1, DownOfSwitch
  <2>3. ~handleFlowMod(s)
    <3>1. handleFlowMod(s) =>
            Received(s) \in Elems(toSwitch[s]) /\ Received(s).type = "FLOW_MOD"
      BY FlowModified
    <3> QED BY <3>1 DEF OnlyFloods, Floods
  <2>4. ~FlowTimer(s)
    BY DEF FlowTimer, OnlyFloods
  <2>5. UNCHANGED <<entry_map, timers>>
    BY <2>1, <2>3, <2>4, TableSteps
  <2> QED BY <2>2, <2>5 DEF OnlyFloods
<1>5. CASE OfController(ControllerStep)
  <2>1. ControllerStep /\ UNCHANGED <<entry_map, timers>>
    BY <1>5 DEF OfController, switchVars
  <2>2. ASSUME NEW t \in Switch, NEW m \in Elems(toSwitch'[t]) PROVE Floods(m)
    <3>1. \/ m \in Elems(toSwitch[t])
          \/ ControllerServes /\ m \in Elems(TheReply[t])
      BY <2>1, <2>2, DownOfController
    <3>2. ControllerServes => Message.type \in UpTypes
      BY ControllerReplies
    <3> QED BY <3>1, <3>2, HubFloods DEF OnlyFloods
  <2> QED BY <2>1, <2>2 DEF OnlyFloods
<1> QED BY <1>2, <1>3, <1>4, <1>5 DEF Next

\* So no frame goes back.
LEMMA FloodsGoOn == Inv /\ OnlyFloods => NoWayBack
<1> SUFFICES ASSUME Inv, OnlyFloods, NEW s \in Switch
             PROVE  /\ Miss(s)
                    /\ toSwitch[s] # <<>>
                         /\ Received(s).type \in {"PACKET_OUT", "PACKET_OUT_FULL"}
                           => Received(s).outport \notin Port
  BY DEF NoWayBack, Receives
<1>1. Miss(s)
  <2>1. entry_map[s] = <<>>
    BY DEF OnlyFloods
  <2> QED BY <2>1 DEF Miss, lookup
<1>2. ASSUME toSwitch[s] # <<>>
      PROVE  Received(s) \in Elems(toSwitch[s])
  <2>1. toSwitch[s] \in Seq(DownMessage)
    BY ChannelTypes
  <2> QED BY <1>2, <2>1, ElemsTail DEF Received
<1> QED BY <1>1, <1>2, FloodPortAssumption DEF OnlyFloods, Floods

\* With the hub the network delivers no frame twice, whatever the switches, their
\* buffers and the order of events: one way to each host is enough.
THEOREM HubDeliversOnce ==
  ASSUME Behavior = "Hub", NEW Behind, HostsDivided(Behind)
  PROVE  Spec => []NoDuplicateDelivery
<1>1. Inv /\ OnlyFloods /\ [Next]_vars => OnlyFloods'
  BY NextFloods
<1>2. Spec => []OnlyFloods
  BY <1>1, InitFloods, Invariance, PTL DEF Spec
<1>3. Spec => []NoWayBack
  BY <1>2, FloodsGoOn, Invariance, PTL
<1>4. Spec /\ []NoWayBack => []NoDuplicateDelivery
  BY DeliveredOnce
<1> QED BY <1>3, <1>4, PTL
-----------------------------------------------------------------------------
(* The frames at a switch.                                                 *)

\* On its links, in its service queue, in its buffer, and inside the messages
\* to and from the controller.
OnWires(s) == UNION {Elems(wire[s][p]) : p \in Port}

Buffered(s) ==
  {buffer[s].pending_msgs[id] : id \in DOMAIN buffer[s].pending_msgs}

Enclosed(ms) ==
  {m.frame : m \in {x \in ms : x.type \in {"PACKET_IN_FULL", "PACKET_OUT_FULL"}}}

FramesAt(s) ==
  OnWires(s) \cup Elems(Contents(proc[s])) \cup Buffered(s)
    \cup Enclosed(Waiting(s)) \cup Enclosed(Elems(toSwitch[s]))

\* What makes a switch put f on the ports ps: a flow entry that f hits, or the
\* packet-out that it receives.
TableSends(s, f, ps) ==
  /\ ServiceEnds(s) /\ ~Miss(s)
  /\ f = Served(s)
  /\ ps = {returnAction(entry_map[s], ExtractMatch(f))}

MessageSends(s, f, ps) ==
  \E m \in Elems(toSwitch[s]) :
    /\ m = Received(s)
    /\ \/ /\ m.type = "PACKET_OUT" /\ m.outport # AnyPort
          /\ m.buffer_id \in DOMAIN buffer[s].pending_msgs
          /\ f = buffer[s].pending_msgs[m.buffer_id]
       \/ m.type = "PACKET_OUT_FULL" /\ f = m.frame
    /\ ps = OutPorts(s, f, m.outport)

\* The copy of f that s puts on the link to t.
CopyFor(s, f, ps, t, g) ==
  \E p \in ps, q \in Port :
    Peer[s][p] = SwitchEnd(t, q) /\ g = [f EXCEPT !.in_port = q]

\* What comes to the links: copies of the frame sent.
LEMMA LinksAfter ==
  ASSUME Inv, NEW s, NEW f \in Frame, NEW ps, Transmit(s, f, ps),
         NEW t \in Switch, NEW g \in OnWires(t)'
  PROVE  g \in OnWires(t) \/ CopyFor(s, f, ps, t, g)
<1>1. PICK q \in Port : g \in Elems(wire'[t][q])
  BY DEF OnWires
<1>2. wire[t][q] \in Seq(Frame)
  BY PlaceTypes
<1> DEFINE copy == [f EXCEPT !.in_port = q]
<1>3. copy \in Frame
  BY DEF Frame
<1>4. wire'[t][q] = IF \E p \in ps : Peer[s][p] = SwitchEnd(t, q)
                    THEN Append(wire[t][q], copy) ELSE wire[t][q]
  BY DEF Transmit
<1> HIDE DEF copy
<1>5. Elems(Append(wire[t][q], copy)) = Elems(wire[t][q]) \cup {copy}
  BY <1>2, <1>3, ElemsAppended
<1>6. \/ g \in Elems(wire[t][q])
      \/ g = copy /\ \E p \in ps : Peer[s][p] = SwitchEnd(t, q)
  BY <1>1, <1>4, <1>5
<1> QED BY <1>6 DEF OnWires, CopyFor, copy

\* A frame that arrives was on the link; the queue has no other new one.
LEMMA ArrivalFrames ==
  ASSUME Inv, NEW s \in Switch, NEW p \in Port, FrameArrives(s, p),
         NEW t \in Switch
  PROVE  /\ OnWires(t)' \subseteq OnWires(t)
         /\ Elems(Contents(proc'[t])) \subseteq Elems(Contents(proc[t])) \cup OnWires(t)
<1>1. /\ wire \in [Switch -> [Port -> Seq(Frame)]]
      /\ proc \in [Switch -> QueueOf(Frame)]
      /\ WorkConserving(proc[s]) /\ Contents(proc[s]) \in Seq(Frame)
  BY PlaceTypes DEF Inv, SwitchInv, SwitchTypeOK
<1> DEFINE f == Head(wire[s][p])
<1>2. /\ wire[s][p] # <<>>
      /\ wire' = [wire EXCEPT ![s][p] = Tail(@)]
      /\ proc' = [proc EXCEPT ![s] = Arrive(@, f)]
  BY DEF FrameArrives
<1>3. /\ f \in Frame
      /\ Elems(wire[s][p]) = Elems(Tail(wire[s][p])) \cup {f}
  BY <1>1, <1>2, ElemsTail
<1> HIDE DEF f
<1>4. OnWires(t)' \subseteq OnWires(t)
  <2>1. ASSUME NEW q \in Port
        PROVE  Elems(wire'[t][q]) \subseteq Elems(wire[t][q])
    BY <1>1, <1>2, <1>3
  <2> QED BY <2>1 DEF OnWires
<1>5. f \in OnWires(s)
  BY <1>3 DEF OnWires
<1>6. /\ Contents(Arrive(proc[s], f)) = Append(Contents(proc[s]), f)
      /\ Elems(Append(Contents(proc[s]), f)) = Elems(Contents(proc[s])) \cup {f}
  BY <1>1, <1>3, ArriveIsLast, ElemsAppended
<1>7. proc'[t] = IF t = s THEN Arrive(proc[s], f) ELSE proc[t]
  BY <1>1, <1>2
<1> QED BY <1>4, <1>5, <1>6, <1>7

\* The frame served was in the queue.
LEMMA ServiceFrames ==
  ASSUME Inv, NEW s \in Switch, ServiceEnds(s)
  PROVE  /\ Served(s) \in Frame /\ Served(s) \in Elems(Contents(proc[s]))
         /\ NextService(s) =>
              \A t \in Switch :
                Elems(Contents(proc'[t])) \subseteq Elems(Contents(proc[t]))
<1>1. /\ \A t \in Switch : Contents(proc[t]) \in Seq(Frame)
      /\ proc[s] \in QueueOf(Frame) /\ WorkConserving(proc[s])
      /\ proc[s].event # <<>>
      /\ proc \in [Switch -> QueueOf(Frame)]
  BY PlaceTypes DEF ServiceEnds, Inv, SwitchInv, SwitchTypeOK
<1>2. /\ Head(proc[s].event) \in Frame
      /\ Head(proc[s].event) = Head(Contents(proc[s]))
      /\ Contents(Finish(proc[s])) = Tail(Contents(proc[s]))
  BY <1>1, FinishIsFirst
<1>3. Contents(proc[s]) # <<>>
  BY <1>1, ConcatEqualIffEmpty, QueueFields DEF Contents
<1>4. /\ Served(s) = Head(Contents(proc[s])) /\ Served(s) \in Frame
      /\ NextService(s) => /\ Contents(proc'[s]) = Tail(Contents(proc[s]))
                           /\ \A t \in Switch \ {s} : proc'[t] = proc[t]
  BY <1>1, <1>2 DEF NextService, Served
<1>5. Elems(Contents(proc[s]))
        = Elems(Tail(Contents(proc[s]))) \cup {Head(Contents(proc[s]))}
  BY <1>1, <1>3, ElemsTail
<1> QED BY <1>4, <1>5

\* A frame that is stored was in the queue, and taking one leaves the others.
LEMMA BufferFrames ==
  ASSUME Inv, NEW s \in Switch, SwitchStep(s), NEW t \in Switch
  PROVE  Buffered(t)' \subseteq Buffered(t) \cup Elems(Contents(proc[t]))
<1>1. /\ buffer = [x \in Switch |-> buffer[x]]
      /\ IsBuffer(buffer[s])
  BY DEF Inv, SwitchInv, SwitchTypeOK
<1>2. CASE UNCHANGED buffer
  BY <1>2 DEF Buffered
<1>3. ASSUME NEW i, buffer' = [buffer EXCEPT ![s] = returnMessage(@, i)]
      PROVE  Buffered(t)' \subseteq Buffered(t)
  <2>1. buffer'[t] = IF t = s THEN returnMessage(buffer[s], i) ELSE buffer[t]
    BY <1>1, <1>3
  <2>2. /\ DOMAIN returnMessage(buffer[s], i).pending_msgs
             = DOMAIN buffer[s].pending_msgs \ {i}
        /\ \A k \in DOMAIN buffer[s].pending_msgs \ {i} :
             returnMessage(buffer[s], i).pending_msgs[k] = buffer[s].pending_msgs[k]
    BY <1>1, Returns
  <2> QED BY <2>1, <2>2 DEF Buffered
<1>4. CASE SendPacketIn(s)
  <2> DEFINE b == buffer[s]
             f == Served(s)
  <2>1. ServiceEnds(s) /\ buffer' = [buffer EXCEPT ![s] = storeMessage(@, f)]
    BY <1>4 DEF SendPacketIn
  <2>2. f \in Elems(Contents(proc[s]))
    BY <2>1, ServiceFrames
  <2> HIDE DEF f
  <2>3. buffer'[t] = IF t = s THEN storeMessage(b, f) ELSE buffer[t]
    BY <1>1, <2>1
  <2>4. \A k \in DOMAIN storeMessage(b, f).pending_msgs :
          \/ storeMessage(b, f).pending_msgs[k] = f
          \/ /\ k \in DOMAIN b.pending_msgs
             /\ storeMessage(b, f).pending_msgs[k] = b.pending_msgs[k]
    BY DEF storeMessage, Insert
  <2> QED BY <2>2, <2>3, <2>4 DEF Buffered
<1>5. SendPacketIn(s) \/ UNCHANGED buffer
      \/ \E i : buffer' = [buffer EXCEPT ![s] = returnMessage(@, i)]
  <2>1. connect(s) \/ FlowTimer(s) \/ (\E p \in Port : FrameArrives(s, p)) =>
          UNCHANGED buffer
    BY DEF connect, FlowTimer, FrameArrives
  <2>2. SwitchServes(s) => SendPacketIn(s) \/ UNCHANGED buffer
    BY DEF SwitchServes, ForwardFrame, SendCompletePacketIn,
           PacketInOnClosedSocket, switchVars
  <2>3. SwitchReceives(s) =>
          UNCHANGED buffer
            \/ \E i : buffer' = [buffer EXCEPT ![s] = returnMessage(@, i)]
    BY DEF SwitchReceives, handleFeaturesRequest, handleFlowMod, handlePacketOut,
           dropBuffered, handleCompletePacketOut, switchVars
  <2> QED BY <2>1, <2>2, <2>3 DEF SwitchStep
<1> QED BY <1>2, <1>3, <1>4, <1>5

\* A frame that goes to the controller was in the queue.
LEMMA FramesUp ==
  ASSUME Inv, NEW s \in Switch, SwitchStep(s), UNCHANGED controllerVars,
         NEW t \in Switch
  PROVE  Enclosed(Waiting(t)')
           \subseteq Enclosed(Waiting(t)) \cup Elems(Contents(proc[t]))
<1> USE DEF controllerVars
<1>1. ASSUME NEW n \in UpMessage, SendUp(s, <<n>>), NEW m \in Waiting(t)'
      PROVE  m \in Waiting(t) \/ (t = s /\ m = n)
  <2>1. Elems(toController'[t])
          = Elems(toController[t]) \cup (IF t = s THEN {n} ELSE {})
    BY <1>1, UpCounted
  <2> QED BY <1>1, <2>1 DEF Waiting
<1>2. CASE UNCHANGED toController
  BY <1>2 DEF Waiting, Enclosed
<1>3. ASSUME NEW n \in UpMessage, SendUp(s, <<n>>), n.type # "PACKET_IN_FULL"
      PROVE  Enclosed(Waiting(t)') \subseteq Enclosed(Waiting(t))
  <2>1. n.type \notin {"PACKET_IN_FULL", "PACKET_OUT_FULL"}
    BY <1>3 DEF UpMessage, Established, FeaturesReply
  <2> QED BY <1>1, <1>3, <2>1 DEF Enclosed
<1>4. CASE connect(s) \/ handleFeaturesRequest(s)
  BY <1>3, <1>4, UpMessages DEF connect, handleFeaturesRequest, Established,
                                FeaturesReply
<1>5. CASE SendPacketIn(s)
  <2>1. Served(s) \in Frame /\ IsBuffer(buffer[s]) /\ ~isfull(buffer[s])
    BY <1>5, FrameServed DEF SendPacketIn, Inv, SwitchInv, SwitchTypeOK
  <2>2. PacketInHeader(StoredId(buffer[s]), Served(s)) \in UpMessage
    BY <2>1, StoreFits, UpMessages
  <2>3. PacketInHeader(StoredId(buffer[s]), Served(s)).type # "PACKET_IN_FULL"
    BY DEF PacketInHeader
  <2> QED BY <1>3, <1>5, <2>2, <2>3 DEF SendPacketIn
<1>6. CASE SendCompletePacketIn(s)
  <2> DEFINE n == PacketInFrame(Served(s))
  <2>1. /\ Served(s) \in Frame /\ Served(s) \in Elems(Contents(proc[s]))
        /\ SendUp(s, <<n>>)
    BY <1>6, ServiceFrames DEF SendCompletePacketIn
  <2>2. n \in UpMessage /\ n.frame = Served(s)
    BY <2>1, UpMessages DEF PacketInFrame
  <2> HIDE DEF n
  <2>3. ASSUME NEW m \in Waiting(t)',
               m.type \in {"PACKET_IN_FULL", "PACKET_OUT_FULL"}
        PROVE  m.frame \in Enclosed(Waiting(t)) \cup Elems(Contents(proc[t]))
    <3>1. m \in Waiting(t) \/ (t = s /\ m = n)
      BY <1>1, <2>1, <2>2, <2>3
    <3> QED BY <2>1, <2>2, <2>3, <3>1 DEF Enclosed
  <2> QED BY <2>3 DEF Enclosed
<1>7. \/ connect(s) \/ SendPacketIn(s) \/ SendCompletePacketIn(s)
      \/ handleFeaturesRequest(s)
      \/ UNCHANGED toController
  <2>1. (\E p \in Port : FrameArrives(s, p)) => UNCHANGED toController
    BY DEF FrameArrives, channelVars
  <2>2. /\ ForwardFrame(s) => UNCHANGED toController
        /\ PacketInOnClosedSocket(s) => UNCHANGED toController
    BY DEF ForwardFrame, PacketInOnClosedSocket, channelVars
  <2>3. /\ handleFlowMod(s) => UNCHANGED toController
        /\ handlePacketOut(s) => UNCHANGED toController
        /\ dropBuffered(s) => UNCHANGED toController
        /\ handleCompletePacketOut(s) => UNCHANGED toController
    BY DEF handleFlowMod, handlePacketOut, dropBuffered, handleCompletePacketOut
  <2>4. FlowTimer(s) => UNCHANGED toController
    BY DEF FlowTimer, channelVars
  <2> QED BY <2>1, <2>2, <2>3, <2>4
          DEF SwitchStep, SwitchServes, SwitchReceives
<1> QED BY <1>2, <1>4, <1>5, <1>6, <1>7

\* What a step does to the links: frames arrive from them or are put on them.
LEMMA LinkSteps ==
  ASSUME Inv, NEW s \in Switch, SwitchStep(s)
  PROVE  \/ UNCHANGED wire
         \/ \E p \in Port : FrameArrives(s, p)
         \/ \E f \in FramesAt(s) \cap Frame : \E ps :
              /\ Transmit(s, f, ps)
              /\ TableSends(s, f, ps) \/ MessageSends(s, f, ps)
<1>1. connect(s) \/ FlowTimer(s) => UNCHANGED wire
  BY DEF connect, FlowTimer, linkVars
<1>2. CASE SwitchServes(s)
  <2>1. ~ForwardFrame(s) => UNCHANGED wire
    BY <1>2 DEF SwitchServes, SendPacketIn, SendCompletePacketIn,
                PacketInOnClosedSocket, linkVars
  <2>2. CASE ForwardFrame(s)
    <3> DEFINE f == Served(s)
               ps == {returnAction(entry_map[s], ExtractMatch(Served(s)))}
    <3>1. Transmit(s, f, ps) /\ ServiceEnds(s) /\ ~Miss(s)
      BY <2>2 DEF ForwardFrame
    <3>2. f \in FramesAt(s) /\ f \in Frame
      BY <3>1, ServiceFrames DEF FramesAt
    <3>3. TableSends(s, f, ps)
      BY <3>1 DEF TableSends
    <3> HIDE DEF f, ps
    <3> QED BY <3>1, <3>2, <3>3
  <2> QED BY <2>1, <2>2
<1>3. CASE SwitchReceives(s)
  <2> DEFINE m == Received(s)
  <2>1. toSwitch[s] # <<>> => m \in Elems(toSwitch[s]) /\ m \in DownMessage
    BY ChannelTypes, ElemsTail DEF Received
  <2>2. ~handlePacketOut(s) /\ ~handleCompletePacketOut(s) => UNCHANGED wire
    BY <1>3 DEF SwitchReceives, handleFeaturesRequest, handleFlowMod,
                dropBuffered, linkVars
  <2>3. CASE handlePacketOut(s)
    <3> DEFINE f == buffer[s].pending_msgs[m.buffer_id]
               ps == OutPorts(s, f, m.outport)
    <3>1. m \in Elems(toSwitch[s]) /\ m.type = "PACKET_OUT" /\ m.outport # AnyPort
      BY <2>1, <2>3 DEF handlePacketOut, Receives
    <3>2. m.buffer_id \notin DOMAIN buffer[s].pending_msgs => UNCHANGED wire
      BY <2>3 DEF handlePacketOut, linkVars
    <3>3. ASSUME m.buffer_id \in DOMAIN buffer[s].pending_msgs
          PROVE  /\ Transmit(s, f, ps) /\ f \in FramesAt(s) /\ f \in Frame
                 /\ MessageSends(s, f, ps)
      <4>1. Transmit(s, f, ps)
        BY <2>3, <3>3 DEF handlePacketOut
      <4>2. \E D \in SUBSET BufferId : buffer[s].pending_msgs \in [D -> Frame]
        BY PlaceTypes DEF IsBuffer, IsMap
      <4>3. f \in Frame
        BY <3>3, <4>2
      <4>4. f \in FramesAt(s)
        BY <3>3 DEF FramesAt, Buffered
      <4>6. m = Received(s)
        OBVIOUS
      <4> HIDE DEF m
      <4>5. MessageSends(s, f, ps)
        BY <3>1, <3>3, <4>6 DEF MessageSends
      <4> QED BY <4>1, <4>3, <4>4, <4>5
    <3> HIDE DEF f, ps
    <3> QED BY <3>2, <3>3
  <2>4. CASE handleCompletePacketOut(s)
    <3> DEFINE f == m.frame
               ps == OutPorts(s, f, m.outport)
    <3>1. m \in Elems(toSwitch[s]) /\ m \in DownMessage /\ m.type = "PACKET_OUT_FULL"
      BY <2>1, <2>4 DEF handleCompletePacketOut, Receives
    <3>2. Transmit(s, f, ps)
      BY <2>4 DEF handleCompletePacketOut
    <3>6. m = Received(s)
      OBVIOUS
    <3> HIDE DEF m
    <3>3. f \in Frame
      BY <3>1, DownFields
    <3>4. f \in FramesAt(s)
      BY <3>1 DEF FramesAt, Enclosed
    <3>5. MessageSends(s, f, ps)
      BY <3>1, <3>6 DEF MessageSends
    <3> HIDE DEF f, ps
    <3> QED BY <3>2, <3>3, <3>4, <3>5
  <2> QED BY <2>2, <2>3, <2>4
<1> QED BY <1>1, <1>2, <1>3 DEF SwitchStep

\* So a frame that comes to t in a step of s is a copy that s has put on a link.
LEMMA FramesOfSwitch ==
  ASSUME Inv, NEW s \in Switch, SwitchStep(s), UNCHANGED controllerVars,
         NEW t \in Switch, NEW g \in FramesAt(t)', g \notin FramesAt(t)
  PROVE  \E f \in FramesAt(s) \cap Frame : \E ps :
           /\ TableSends(s, f, ps) \/ MessageSends(s, f, ps)
           /\ CopyFor(s, f, ps, t, g)
<1>1. \/ g \in OnWires(t)' \/ g \in Elems(Contents(proc'[t]))
      \/ g \in Buffered(t)' \/ g \in Enclosed(Waiting(t)')
      \/ g \in Enclosed(Elems(toSwitch'[t]))
  BY DEF FramesAt
<1>2. g \notin Buffered(t)'
  BY BufferFrames DEF FramesAt
<1>3. g \notin Enclosed(Waiting(t)')
  BY FramesUp DEF FramesAt
<1>4. g \notin Enclosed(Elems(toSwitch'[t]))
  <2>1. Elems(toSwitch'[t]) \subseteq Elems(toSwitch[t])
    BY DownOfSwitch
  <2> QED BY <2>1 DEF FramesAt, Enclosed
<1>5. g \notin Elems(Contents(proc'[t]))
  <2>1. CASE \E p \in Port : FrameArrives(s, p)
    BY <2>1, ArrivalFrames DEF FramesAt
  <2>2. CASE ServiceEnds(s) /\ NextService(s)
    BY <2>2, ServiceFrames DEF FramesAt
  <2>3. CASE UNCHANGED proc
    BY <2>3 DEF FramesAt
  <2>4. \/ \E p \in Port : FrameArrives(s, p)
        \/ ServiceEnds(s) /\ NextService(s)
        \/ UNCHANGED proc
    <3>1. connect(s) \/ FlowTimer(s) => UNCHANGED proc
      BY DEF connect, FlowTimer
    <3>2. SwitchServes(s) => (ServiceEnds(s) /\ NextService(s)) \/ UNCHANGED proc
      BY DEF SwitchServes, ForwardFrame, SendPacketIn, SendCompletePacketIn,
             PacketInOnClosedSocket, switchVars
    <3>3. SwitchReceives(s) => UNCHANGED proc
      BY DEF SwitchReceives, handleFeaturesRequest, handleFlowMod,
             handlePacketOut, dropBuffered, handleCompletePacketOut, switchVars
    <3> QED BY <3>1, <3>2, <3>3 DEF SwitchStep
  <2> QED BY <2>1, <2>2, <2>3, <2>4
<1>6. g \in OnWires(t)' /\ g \notin OnWires(t)
  BY <1>1, <1>2, <1>3, <1>4, <1>5 DEF FramesAt
<1>7. ~UNCHANGED wire
  BY <1>6 DEF OnWires
<1>8. ~\E p \in Port : FrameArrives(s, p)
  BY <1>6, ArrivalFrames
<1>9. PICK f \in FramesAt(s) \cap Frame : \E ps :
        Transmit(s, f, ps) /\ (TableSends(s, f, ps) \/ MessageSends(s, f, ps))
  BY <1>7, <1>8, LinkSteps
<1>10. PICK ps :
        Transmit(s, f, ps) /\ (TableSends(s, f, ps) \/ MessageSends(s, f, ps))
  BY <1>9
<1>11. CopyFor(s, f, ps, t, g)
  BY <1>6, <1>10, LinksAfter
<1> QED BY <1>10, <1>11

\* The controller makes no frame, the ARP oracle left aside.
LEMMA FramesOfController ==
  ASSUME Inv, ControllerStep, UNCHANGED <<linkVars, switchVars>>,
         ~(Behavior = "Forwarding" /\ ArpOracle), NEW t \in Switch
  PROVE  FramesAt(t)' \subseteq FramesAt(t)
<1>1. /\ OnWires(t)' = OnWires(t) /\ Buffered(t)' = Buffered(t)
      /\ proc' = proc
  BY DEF linkVars, switchVars, OnWires, Buffered
<1>2. Waiting(t)' \subseteq Waiting(t)
  BY WaitingOfController
<1>3. Enclosed(Waiting(t)') \subseteq Enclosed(Waiting(t))
  BY <1>2 DEF Enclosed
<1>4. ASSUME NEW m \in Elems(toSwitch'[t]), m \notin Elems(toSwitch[t]),
             m.type \in {"PACKET_IN_FULL", "PACKET_OUT_FULL"}
      PROVE  m.frame \in Enclosed(Waiting(t))
  <2>1. ControllerServes /\ m \in Elems(TheReply[t])
    BY <1>4, DownOfController
  <2>2. /\ From \in Switch /\ Message \in UpMessage /\ Message.type \in UpTypes
        /\ Message \in Waiting(From)
    BY <2>1, ControllerReplies, ServedWaits
  <2>3. Relays(TheReply[t], t)
    BY <2>2, ControllerRelays
  <2>4. NoFrame(m) \/ Returned(m, t)
    <3>1. CASE TheReply[t] = <<>>
      BY <2>1, <3>1, ElemsShort
    <3>2. ASSUME NEW a, Returned(a, t), TheReply[t] = <<a>>
          PROVE  Returned(m, t)
      <4>1. m \in {a}
        BY <2>1, <3>2, ElemsShort
      <4> QED BY <3>2, <4>1
    <3>3. ASSUME NEW a, NEW b, NoFrame(a), Returned(b, t), TheReply[t] = <<a, b>>
          PROVE  NoFrame(m) \/ Returned(m, t)
      <4>1. m \in {a, b}
        BY <2>1, <3>3, ElemsShort
      <4> QED BY <3>3, <4>1
    <3> QED BY <2>3, <3>1, <3>2, <3>3 DEF Relays
  <2>5. m \in DownMessage
    BY <2>4 DEF NoFrame, Returned
  <2>6. m.type = "PACKET_OUT_FULL"
    BY <1>4, <2>5 DEF DownMessage, FeaturesRequest
  <2>7. /\ t = From /\ Message.type = "PACKET_IN_FULL"
        /\ m.frame = Message.frame
    BY <2>4, <2>6 DEF NoFrame, Returned
  <2> QED BY <2>2, <2>7 DEF Enclosed
<1>5. Enclosed(Elems(toSwitch'[t]))
        \subseteq Enclosed(Elems(toSwitch[t])) \cup Enclosed(Waiting(t))
  BY <1>4 DEF Enclosed
<1>6. Elems(Contents(proc'[t])) = Elems(Contents(proc[t]))
  BY <1>1
<1> QED BY <1>1, <1>3, <1>5, <1>6 DEF FramesAt

\* A host makes one: it comes in on the port of the host, and is not for it.
LEMMA FramesOfHosts ==
  ASSUME Inv, HostStep, NEW t \in Switch, NEW g \in FramesAt(t)',
         g \notin FramesAt(t)
  PROVE  /\ g.eth_src # g.eth_dst /\ g.in_port \in Port /\ g.eth_src \in Host
         /\ Peer[t][g.in_port] = HostEnd(g.eth_src)
<1>1. UNCHANGED <<channelVars, switchVars, controllerVars>>
  BY DEF HostStep
<1>2. /\ Buffered(t)' = Buffered(t) /\ proc' = proc
      /\ toSwitch' = toSwitch /\ Waiting(t)' = Waiting(t)
  BY <1>1 DEF channelVars, switchVars, controllerVars, Buffered, Waiting
<1>3. g \in OnWires(t)' /\ g \notin OnWires(t)
  BY <1>2 DEF FramesAt
<1>4. PICK h \in Host, d \in Address, y \in FrameType,
           tpa \in Host \cup {NoHost}, s \in Switch, p \in Port :
        Sends(h, d, y, tpa, s, p)
  <2>1. PICK h \in Host, s \in Switch, p \in Port : HostSends(h, s, p)
    BY DEF HostStep
  <2>2. CASE \E d \in Host, y \in EtherType : Sends(h, d, y, NoHost, s, p)
    BY <2>2 DEF Address, FrameType
  <2>3. CASE \E a \in Asked : Sends(h, Broadcast, ETHERTYPE_ARP, a, s, p)
    BY <2>3, AskedAssumption DEF Address, FrameType
  <2> QED BY <2>1, <2>2, <2>3 DEF HostSends
<1> DEFINE f == [id |-> Len(sent) + 1, in_port |-> p, eth_src |-> h,
                 eth_dst |-> d, eth_type |-> y, arp_tpa |-> tpa]
<1>5. f \in Frame
  <2>1. Len(sent) + 1 \in Nat
    BY DEF Inv, LinksTypeOK
  <2> QED BY <2>1 DEF Frame
<1>6. /\ h # d /\ Peer[s][p] = HostEnd(h)
      /\ wire' = [wire EXCEPT ![s][p] = Append(@, f)]
  BY <1>4 DEF Sends
<1>7. /\ f.in_port = p /\ f.eth_src = h /\ f.eth_dst = d
  OBVIOUS
<1> HIDE DEF f
<1>8. PICK q \in Port : g \in Elems(wire'[t][q])
  BY <1>3 DEF OnWires
<1>9. wire[t][q] \in Seq(Frame) /\ wire \in [Switch -> [Port -> Seq(Frame)]]
  BY PlaceTypes
<1>10. g \notin Elems(wire[t][q])
  BY <1>3 DEF OnWires
<1>11. wire'[t][q] = IF t = s /\ q = p THEN Append(wire[t][q], f) ELSE wire[t][q]
  BY <1>6, <1>9
<1>12. t = s /\ q = p /\ g \in Elems(Append(wire[t][q], f))
  BY <1>8, <1>10, <1>11
<1>13. g = f
  BY <1>5, <1>9, <1>10, <1>12, ElemsAppended
<1> QED BY <1>6, <1>7, <1>12, <1>13
-----------------------------------------------------------------------------
(* The routes of Forwarding.cc.                                            *)

\* The routes lead somewhere: the first port of a route is open, the link behind
\* it ends at the host looked for or at a switch from where the route goes on to
\* another port.
RoutesLead ==
  \A s \in Switch, d \in Topology :
    /\ NextPort[s][d] \in OpenPorts(s)
    /\ \A h \in Host : Peer[s][NextPort[s][d]] = HostEnd(h) => h = d
    /\ \A t \in Switch, q \in Port :
         Peer[s][NextPort[s][d]] = SwitchEnd(t, q) => NextPort[t][d] # q

\* The port a frame, or a frame with this header, has to take at s.
RouteOf(s, f) ==
  IF f.eth_dst \in Topology THEN NextPort[s][f.eth_dst] ELSE FloodPort

EntryFollowsRoute(s, match, port) ==
  match.eth_dst \in Topology /\ port = NextPort[s][match.eth_dst]

MessageFollowsRoute(s, m) ==
  /\ m.type = "FLOW_MOD" => EntryFollowsRoute(s, m.match, m.outport)
  /\ m.type = "PACKET_OUT_FULL" => m.outport = RouteOf(s, m.frame)
  /\ m.type = "PACKET_OUT" =>
       m.outport = RouteOf(s, buffer[s].pending_msgs[m.buffer_id])

\* Flow entries and messages under way follow the routes.
RoutesFollowed ==
  \A s \in Switch :
    /\ \A e \in Elems(entry_map[s]) : EntryFollowsRoute(s, e.match, e.outport)
    /\ \A m \in Elems(toSwitch[s]) : MessageFollowsRoute(s, m)

\* At the start nothing has been decided.
LEMMA InitRoutes == Init => RoutesFollowed
<1> SUFFICES ASSUME Init, NEW s \in Switch
             PROVE  entry_map[s] = <<>> /\ toSwitch[s] = <<>>
  BY ElemsShort DEF RoutesFollowed
<1> QED BY InitChannels DEF Init, SwitchInit

\* The messages of a reply of Forwarding.
LEMMA RouteReplies ==
  ASSUME Behavior = "Forwarding", ~ArpOracle, Message.type \in UpTypes,
         NEW t \in Switch, NEW m \in Elems(TheReply[t])
  PROVE  LET hdr == Header(Message)
         IN  \/ m = FeaturesRequest
             \/ /\ Message.type \in PacketIns /\ hdr.eth_dst \in Topology
                /\ m = FlowMod(RouteMatch(hdr), NextPort[t][hdr.eth_dst])
             \/ /\ Message.type \in PacketIns /\ t = From
                /\ m = PacketOut(Message, RouteOf(From, hdr))
<1> DEFINE hdr == Header(Message)
<1>1. \A s, ms : Elems(Only(s, ms)[t]) = IF t = s THEN Elems(ms) ELSE {}
  BY ElemsShort DEF Only
<1>2. CASE Message.type = "ESTABLISHED"
  BY <1>1, <1>2, ElemsShort DEF TheReply
<1>3. CASE Message.type = "FEATURES_REPLY"
  <2>1. TheReply[t] = <<>>
    BY <1>3 DEF TheReply
  <2> QED BY <2>1, ElemsShort
<1>4. CASE Message.type \in PacketIns
  <2>1. TheReply = Answer(From, Message)
    BY <1>4 DEF TheReply, PacketIns
  <2>2. CASE hdr.eth_dst \in Topology
    <3> DEFINE mod == FlowMod(RouteMatch(hdr), NextPort[t][hdr.eth_dst])
               out == PacketOut(Message, NextPort[From][hdr.eth_dst])
    <3>1. TheReply[t] = IF t = From THEN <<mod, out>>
                        ELSE IF OnPath(t, From, hdr.eth_dst) THEN <<mod>>
                        ELSE <<>>
      BY <2>1, <2>2 DEF Answer, Route
    <3>2. m = mod \/ (t = From /\ m = out)
      <4> HIDE DEF mod, out
      <4>1. CASE t = From
        <5>1. TheReply[t] = <<mod, out>>
          BY <3>1, <4>1
        <5> QED BY <4>1, <5>1, ElemsShort
      <4>2. CASE t # From
        BY <3>1, <4>2, ElemsShort
      <4> QED BY <4>1, <4>2
    <3>3. NextPort[From][hdr.eth_dst] = RouteOf(From, hdr)
      BY <2>2 DEF RouteOf
    <3> QED BY <1>4, <2>2, <3>2, <3>3
  <2>3. CASE hdr.eth_dst \notin Topology
    <3>1. TheReply = Only(From, <<PacketOut(Message, FloodPort)>>)
      BY <2>1, <2>3 DEF Answer, processARPPacket
    <3>2. t = From /\ m = PacketOut(Message, FloodPort)
      BY <1>1, <3>1, ElemsShort
    <3> QED BY <1>4, <2>3, <3>2 DEF RouteOf
  <2> QED BY <2>2, <2>3
<1> QED BY <1>2, <1>3, <1>4 DEF UpTypes

\* They follow the routes.
LEMMA RepliesFollowRoutes ==
  ASSUME Behavior = "Forwarding", ~ArpOracle, Inv, ClaimInv, ControllerServes,
         UNCHANGED buffer, NEW t \in Switch, NEW m \in Elems(TheReply[t])
  PROVE  MessageFollowsRoute(t, m)'
<1> DEFINE hdr == Header(Message)
<1>1. /\ Message.type \in UpTypes /\ Message \in UpMessage
      /\ From \in Switch /\ Message \in Waiting(From)
  BY ControllerReplies, ServedWaits
<1>2. CASE m = FeaturesRequest
  BY <1>2 DEF FeaturesRequest, MessageFollowsRoute
<1>3. CASE /\ Message.type \in PacketIns /\ hdr.eth_dst \in Topology
           /\ m = FlowMod(RouteMatch(hdr), NextPort[t][hdr.eth_dst])
  <2>1. hdr \in Match
    <3>1. 0 \in Port
      BY PortAssumption
    <3> QED BY <1>1, <1>3, <3>1, PacketInAnswer
  <2>2. RouteMatch(hdr).eth_dst = hdr.eth_dst
    BY <2>1 DEF RouteMatch, Match
  <2> QED BY <1>3, <2>2 DEF FlowMod, MessageFollowsRoute, EntryFollowsRoute
<1>4. CASE /\ Message.type \in PacketIns /\ t = From
           /\ m = PacketOut(Message, RouteOf(From, hdr))
  <2>1. CASE Message.type = "PACKET_IN_FULL"
    <3>1. /\ m = PacketOutFrame(Message.frame, RouteOf(From, hdr))
          /\ hdr = ExtractMatch(Message.frame)
      BY <1>4, <2>1 DEF PacketOut, Header
    <3>2. RouteOf(From, hdr) = RouteOf(From, Message.frame)
      BY <3>1 DEF RouteOf, ExtractMatch
    <3> QED BY <1>4, <3>1, <3>2 DEF PacketOutFrame, MessageFollowsRoute
  <2>2. CASE Message.type = "PACKET_IN"
    <3> DEFINE id == Message.buffer_id
               f == buffer[t].pending_msgs[id]
    <3>1. m = PacketOutHeader(id, RouteOf(From, hdr)) /\ hdr = Message.match
      BY <1>4, <2>2 DEF PacketOut, Header
    <3>2. Message = PacketInHeader(id, f)
      BY <1>1, <1>4, <2>2 DEF ClaimInv, Described, Describes
    <3>3. Message.match = ExtractMatch(f)
      BY <3>2 DEF PacketInHeader
    <3>4. RouteOf(From, hdr) = RouteOf(From, f)
      BY <3>1, <3>3 DEF RouteOf, ExtractMatch
    <3>5. /\ m.type = "PACKET_OUT" /\ m.buffer_id = id
          /\ m.outport = RouteOf(t, f)
      BY <1>4, <3>1, <3>4 DEF PacketOutHeader
    <3>6. buffer'[t].pending_msgs[m.buffer_id] = f
      BY <3>5
    <3> HIDE DEF f
    <3> QED BY <3>5, <3>6 DEF MessageFollowsRoute, RouteOf
  <2> QED BY <1>4, <2>1, <2>2 DEF PacketIns
<1> QED BY <1>1, <1>2, <1>3, <1>4, RouteReplies

\* Every step keeps to the routes.
LEMMA NextRoutes ==
  ASSUME Behavior = "Forwarding", ~ArpOracle
  PROVE  /\ Inv /\ IdsLeft /\ ClaimInv /\ FramesThere /\ FramesThere'
         /\ RoutesFollowed /\ [Next]_vars
         => RoutesFollowed'
<1> SUFFICES ASSUME Inv, IdsLeft, ClaimInv, FramesThere, FramesThere',
                    RoutesFollowed, [Next]_vars
             PROVE  RoutesFollowed'
  OBVIOUS
<1>1. ASSUME UNCHANGED <<toSwitch, entry_map, buffer>> PROVE RoutesFollowed'
  BY <1>1 DEF RoutesFollowed, MessageFollowsRoute, RouteOf
<1>2. CASE HostStep
  BY <1>1, <1>2 DEF HostStep, switchVars, channelVars
<1>3. CASE UNCHANGED vars
  BY <1>1, <1>3 DEF vars, switchVars, channelVars
<1>4. ASSUME NEW s \in Switch, OfSwitch(SwitchStep(s)) PROVE RoutesFollowed'
  <2>1. SwitchStep(s)
    BY <1>4 DEF OfSwitch
  <2>2. ASSUME NEW t \in Switch, NEW m \in Elems(toSwitch'[t])
        PROVE  MessageFollowsRoute(t, m)'
    <3>1. m \in Elems(toSwitch[t]) /\ MessageFollowsRoute(t, m)
      BY <2>1, <2>2, DownOfSwitch DEF RoutesFollowed
    <3>2. ASSUME m.type = "PACKET_OUT"
          PROVE  buffer'[t].pending_msgs[m.buffer_id]
                   = buffer[t].pending_msgs[m.buffer_id]
      <4>1. m.buffer_id \in DOMAIN buffer[t].pending_msgs
        BY <3>1, <3>2 DEF FramesThere
      <4>2. m.buffer_id \in DOMAIN buffer'[t].pending_msgs
        BY <2>2, <3>2 DEF FramesThere
      <4> QED BY <2>1, <4>1, <4>2, BufferedKept
    <3> QED BY <3>1, <3>2 DEF MessageFollowsRoute, RouteOf
  <2>3. ASSUME NEW t \in Switch, NEW e \in Elems(entry_map'[t])
        PROVE  EntryFollowsRoute(t, e.match, e.outport)
    <3>1. e \in Elems(entry_map[t]) => EntryFollowsRoute(t, e.match, e.outport)
      BY DEF RoutesFollowed
    <3>2. CASE UNCHANGED <<entry_map, timers>>
      BY <2>3, <3>1, <3>2
    <3>3. CASE handleFlowMod(s)
      <4> DEFINE r == Received(s)
                 n == [match |-> r.match, outport |-> r.outport]
      <4>1. /\ r \in Elems(toSwitch[s]) /\ r.type = "FLOW_MOD"
            /\ t # s => entry_map'[t] = entry_map[t]
            /\ entry_map'[s] \in Seq(Entry)
            /\ \E k : Grown(entry_map[s], entry_map'[s], k) /\ entry_map'[s][k] = n
        BY <3>3, FlowModified
      <4>2. EntryFollowsRoute(s, n.match, n.outport)
        BY <4>1 DEF RoutesFollowed, MessageFollowsRoute
      <4> HIDE DEF r, n
      <4>3. Elems(entry_map'[s]) = Elems(entry_map[s]) \cup {n}
        BY <4>1, TableTypes, GrownElems
      <4> QED BY <2>3, <3>1, <4>1, <4>2, <4>3
    <3>4. CASE FlowTimer(s)
      <4>1. /\ t # s => entry_map'[t] = entry_map[t]
            /\ entry_map'[s] \in Seq(Entry)
            /\ \/ entry_map'[s] = entry_map[s]
               \/ \E k : Grown(entry_map'[s], entry_map[s], k)
        BY <3>4, TimerFired
      <4>2. Elems(entry_map'[s]) \subseteq Elems(entry_map[s])
        BY <4>1, TableTypes, GrownElems
      <4> QED BY <2>3, <3>1, <4>1, <4>2
    <3> QED BY <2>1, <3>2, <3>3, <3>4, TableSteps
  <2> QED BY <2>2, <2>3 DEF RoutesFollowed, EntryFollowsRoute
<1>5. CASE OfController(ControllerStep)
  <2>1. ControllerStep /\ UNCHANGED <<entry_map, buffer>>
    BY <1>5 DEF OfController, switchVars
  <2>2. ASSUME NEW t \in Switch, NEW m \in Elems(toSwitch'[t])
        PROVE  MessageFollowsRoute(t, m)'
    <3>1. \/ m \in Elems(toSwitch[t])
          \/ ControllerServes /\ m \in Elems(TheReply[t])
      BY <2>1, <2>2, DownOfController
    <3>2. CASE m \in Elems(toSwitch[t])
      <4>1. MessageFollowsRoute(t, m)
        BY <3>2 DEF RoutesFollowed
      <4> QED BY <2>1, <4>1 DEF MessageFollowsRoute, RouteOf
    <3>3. CASE ControllerServes /\ m \in Elems(TheReply[t])
      BY <2>1, <3>3, RepliesFollowRoutes
    <3> QED BY <3>1, <3>2, <3>3
  <2> QED BY <2>1, <2>2 DEF RoutesFollowed, EntryFollowsRoute
<1> QED BY <1>2, <1>3, <1>4, <1>5 DEF Next

\* A frame that has to take a route did not come in where the route goes out.
OnItsWay(s, f) ==
  f.eth_dst \in Topology => f.in_port # NextPort[s][f.eth_dst]

AllOnTheirWay == \A s \in Switch : \A f \in FramesAt(s) : OnItsWay(s, f)

\* A switch that follows the routes sends each frame along its route.
LEMMA RoutesTaken ==
  ASSUME Behavior = "Forwarding", Inv, FlowsNormal, RoutesFollowed, FramesThere,
         NEW s \in Switch, NEW f \in Frame, NEW ps,
         TableSends(s, f, ps) \/ MessageSends(s, f, ps)
  PROVE  /\ f.eth_dst \in Topology => ps = {NextPort[s][f.eth_dst]}
         /\ TableSends(s, f, ps) => f.eth_dst \in Topology
<1>1. CASE TableSends(s, f, ps)
  <2> DEFINE x == ExtractMatch(f)
             i == FirstHit(entry_map[s], x)
             e == entry_map[s][i]
  <2>1. entry_map[s] \in Seq(Entry) /\ lookup(entry_map[s], x)
    BY <1>1, TableTypes DEF TableSends, Miss
  <2>2. i \in DOMAIN entry_map[s] /\ Hits(entry_map[s], x, i)
    BY <2>1, FirstHitHits
  <2>3. ps = {e.outport} /\ e \in Elems(entry_map[s])
    BY <1>1, <2>2 DEF TableSends, returnAction, Elems
  <2>4. EntryFollowsRoute(s, e.match, e.outport) /\ Normal(e.match)
    BY <2>3 DEF RoutesFollowed, FlowsNormal
  <2>5. flow_fields_match(x, e.match, e.match.wildcards)
    BY <2>2 DEF Hits
  <2> HIDE DEF e
  <2>6. x.eth_dst = e.match.eth_dst
    BY <2>4, <2>5 DEF Normal, flow_fields_match
  <2>7. x.eth_dst = f.eth_dst
    BY DEF ExtractMatch
  <2> QED BY <2>3, <2>4, <2>6, <2>7 DEF EntryFollowsRoute
<1>2. ASSUME MessageSends(s, f, ps)
      PROVE  f.eth_dst \in Topology => ps = {NextPort[s][f.eth_dst]}
  <2>1. PICK m \in Elems(toSwitch[s]) :
          /\ \/ /\ m.type = "PACKET_OUT" /\ m.outport # AnyPort
                /\ m.buffer_id \in DOMAIN buffer[s].pending_msgs
                /\ f = buffer[s].pending_msgs[m.buffer_id]
             \/ m.type = "PACKET_OUT_FULL" /\ f = m.frame
          /\ ps = OutPorts(s, f, m.outport)
    BY <1>2 DEF MessageSends
  <2>2. MessageFollowsRoute(s, m)
    BY DEF RoutesFollowed
  <2>3. m.outport = RouteOf(s, f)
    BY <2>1, <2>2 DEF MessageFollowsRoute
  <2>4. ASSUME f.eth_dst \in Topology
        PROVE  /\ m.outport = NextPort[s][f.eth_dst]
               /\ m.outport # FloodPort
    <3>1. m.outport = NextPort[s][f.eth_dst]
      BY <2>3, <2>4 DEF RouteOf
    <3>2. NextPort[s][f.eth_dst] \in Port
      BY <2>4, TopologyAssumption, NextPortAssumption
    <3> QED BY <3>1, <3>2, FloodPortAssumption
  <2> QED BY <2>1, <2>4 DEF OutPorts
<1> QED BY <1>1, <1>2

\* Frames stay on their way.
LEMMA NextOnTheirWay ==
  ASSUME Behavior = "Forwarding", ~ArpOracle, RoutesLead
  PROVE  /\ Inv /\ FlowsNormal /\ FramesThere /\ RoutesFollowed
         /\ AllOnTheirWay /\ [Next]_vars
         => AllOnTheirWay'
<1> SUFFICES ASSUME Inv, FlowsNormal, FramesThere, RoutesFollowed, AllOnTheirWay,
                    [Next]_vars, NEW t \in Switch, NEW g \in FramesAt(t)',
                    g \notin FramesAt(t), g.eth_dst \in Topology
             PROVE  g.in_port # NextPort[t][g.eth_dst]
  BY DEF AllOnTheirWay, OnItsWay
<1>1. CASE UNCHANGED vars
  <2>1. FramesAt(t)' = FramesAt(t)
    BY <1>1 DEF vars, linkVars, switchVars, channelVars, controllerVars, FramesAt,
                OnWires, Buffered, Waiting
  <2> QED BY <2>1
<1>2. CASE HostStep
  <2>1. /\ g.eth_src # g.eth_dst /\ g.in_port \in Port /\ g.eth_src \in Host
        /\ Peer[t][g.in_port] = HostEnd(g.eth_src)
    BY <1>2, FramesOfHosts
  <2> QED BY <2>1 DEF RoutesLead
<1>3. ASSUME NEW s \in Switch, OfSwitch(SwitchStep(s))
      PROVE  g.in_port # NextPort[t][g.eth_dst]
  <2>1. SwitchStep(s) /\ UNCHANGED controllerVars
    BY <1>3 DEF OfSwitch
  <2>2. PICK f \in FramesAt(s) \cap Frame : \E ps :
          /\ TableSends(s, f, ps) \/ MessageSends(s, f, ps)
          /\ CopyFor(s, f, ps, t, g)
    BY <2>1, FramesOfSwitch
  <2>3. PICK ps : /\ TableSends(s, f, ps) \/ MessageSends(s, f, ps)
                  /\ CopyFor(s, f, ps, t, g)
    BY <2>2
  <2>4. PICK p \in ps, q \in Port :
          Peer[s][p] = SwitchEnd(t, q) /\ g = [f EXCEPT !.in_port = q]
    BY <2>3 DEF CopyFor
  <2>5. g.eth_dst = f.eth_dst /\ g.in_port = q
    BY <2>4 DEF Frame
  <2>6. p = NextPort[s][f.eth_dst]
    BY <2>3, <2>5, RoutesTaken
  <2> QED BY <2>4, <2>5, <2>6 DEF RoutesLead
<1>4. CASE OfController(ControllerStep)
  <2>1. ControllerStep /\ UNCHANGED <<linkVars, switchVars>>
    BY <1>4 DEF OfController
  <2> QED BY <2>1, FramesOfController
<1> QED BY <1>1, <1>2, <1>3, <1>4 DEF Next

\* At the start there is no frame.
LEMMA InitFrames ==
  ASSUME Init, NEW s \in Switch
  PROVE  FramesAt(s) = {}
<1>1. \A p \in Port : wire[s][p] = <<>>
  BY DEF Init, LinksInit
<1>2. OnWires(s) = {}
  BY <1>1, ElemsShort DEF OnWires
<1>3. Contents(proc[s]) = <<>>
  BY DEF Init, SwitchInit, IdleQueue, Contents
<1>4. buffer[s] = EmptyBuffer /\ Waiting(s) = {} /\ toSwitch[s] = <<>>
  BY InitChannels
<1>5. Buffered(s) = {}
  BY <1>4 DEF Buffered, EmptyBuffer
<1> QED BY <1>2, <1>3, <1>4, <1>5, ElemsShort DEF FramesAt, Enclosed

\* So no frame goes back.
LEMMA RoutesGoOn ==
  ASSUME Behavior = "Forwarding", ~ArpOracle, RoutesLead, Inv, FlowsNormal,
         FramesThere, RoutesFollowed, AllOnTheirWay
  PROVE  NoWayBack
<1>1. ASSUME NEW s \in Switch, NEW f \in FramesAt(s), f.eth_dst \in Topology
      PROVE  NextPort[s][f.eth_dst] \in Onward(s, f)
  BY <1>1 DEF AllOnTheirWay, OnItsWay, RoutesLead, Onward
<1>2. ASSUME NEW s \in Switch, ServiceEnds(s), ~Miss(s)
      PROVE  returnAction(entry_map[s], ExtractMatch(Served(s)))
               \in Onward(s, Served(s))
  <2> DEFINE f == Served(s)
             ps == {returnAction(entry_map[s], ExtractMatch(f))}
  <2>1. f \in Frame /\ f \in FramesAt(s)
    BY <1>2, ServiceFrames DEF FramesAt
  <2>2. TableSends(s, f, ps)
    BY <1>2 DEF TableSends
  <2>3. returnAction(entry_map[s], ExtractMatch(f)) \in ps
    OBVIOUS
  <2> HIDE DEF f, ps
  <2>4. f.eth_dst \in Topology /\ ps = {NextPort[s][f.eth_dst]}
    BY <2>1, <2>2, RoutesTaken
  <2>5. NextPort[s][f.eth_dst] \in Onward(s, f)
    BY <1>1, <2>1, <2>4
  <2> QED BY <2>3, <2>4, <2>5 DEF f
<1>3. ASSUME NEW s \in Switch, NEW m \in Elems(toSwitch[s]), m.outport \in Port,
             NEW f \in FramesAt(s), m.outport = RouteOf(s, f)
      PROVE  m.outport \in Onward(s, f)
  BY <1>1, <1>3, FloodPortAssumption DEF RouteOf
<1>4. ASSUME NEW s \in Switch, NEW type, Receives(s, type)
      PROVE  /\ Received(s) \in Elems(toSwitch[s]) /\ Received(s).type = type
             /\ MessageFollowsRoute(s, Received(s))
  <2>1. toSwitch[s] # <<>> /\ toSwitch[s] \in Seq(DownMessage)
    BY <1>4, ChannelTypes DEF Receives
  <2>2. Received(s) \in Elems(toSwitch[s])
    BY <2>1, ElemsTail DEF Received
  <2> QED BY <1>4, <2>2 DEF RoutesFollowed, Receives
<1>5. ASSUME NEW s \in Switch, Receives(s, "PACKET_OUT"),
             Received(s).buffer_id \in DOMAIN buffer[s].pending_msgs,
             Received(s).outport \in Port
      PROVE  Received(s).outport
               \in Onward(s, buffer[s].pending_msgs[Received(s).buffer_id])
  <2> DEFINE m == Received(s)
             f == buffer[s].pending_msgs[m.buffer_id]
  <2>1. f \in FramesAt(s)
    BY <1>5 DEF FramesAt, Buffered
  <2>2. m \in Elems(toSwitch[s]) /\ m.outport = RouteOf(s, f)
    BY <1>4, <1>5 DEF MessageFollowsRoute
  <2> HIDE DEF m, f
  <2>3. m.outport \in Port => m.outport \in Onward(s, f)
    BY <1>3, <2>1, <2>2
  <2> QED BY <1>5, <2>3 DEF m, f
<1>6. ASSUME NEW s \in Switch, Receives(s, "PACKET_OUT_FULL"),
             Received(s).outport \in Port
      PROVE  Received(s).outport \in Onward(s, Received(s).frame)
  <2> DEFINE m == Received(s)
             f == m.frame
  <2>1. m \in Elems(toSwitch[s]) /\ m.outport = RouteOf(s, f)
        /\ m.type = "PACKET_OUT_FULL"
    BY <1>4, <1>6 DEF MessageFollowsRoute
  <2>2. f \in FramesAt(s)
    BY <2>1 DEF FramesAt, Enclosed
  <2> HIDE DEF m, f
  <2>3. m.outport \in Port => m.outport \in Onward(s, f)
    BY <1>3, <2>1, <2>2
  <2> QED BY <1>6, <2>3 DEF m, f
<1> QED BY <1>2, <1>5, <1>6 DEF NoWayBack

\* With Forwarding no host gets a frame twice either, where its routes lead to
\* their destinations, the ids of the buffers last and the ARP oracle is off.
THEOREM ForwardingDeliversOnce ==
  ASSUME Behavior = "Forwarding", ~ArpOracle, RoutesLead,
         NEW Behind, HostsDivided(Behind)
  PROVE  Spec /\ []IdsLeft => []NoDuplicateDelivery
<1>1. Inv /\ ClaimInv => FramesThere
  BY FrameIsThere DEF FramesThere
<1>2. Init => AllOnTheirWay
  BY InitFrames DEF AllOnTheirWay
<1>3. /\ Inv /\ IdsLeft /\ ClaimInv /\ FramesThere /\ FramesThere'
      /\ RoutesFollowed /\ [Next]_vars
      => RoutesFollowed'
  BY NextRoutes
<1>4. Spec /\ []IdsLeft => []RoutesFollowed
  BY <1>1, <1>3, InitRoutes, Invariance, ClaimInvariance, PTL DEF Spec
<1>5. /\ Inv /\ FlowsNormal /\ FramesThere /\ RoutesFollowed
      /\ AllOnTheirWay /\ [Next]_vars
      => AllOnTheirWay'
  BY NextOnTheirWay
<1>6. Spec => []FlowsNormal
  BY InitFlows, NextFlows, Invariance, PTL DEF Spec
<1>7. /\ Inv /\ FlowsNormal /\ FramesThere /\ RoutesFollowed /\ AllOnTheirWay
      => NoWayBack
  BY RoutesGoOn
<1>8. Spec /\ []IdsLeft => []NoWayBack
  BY <1>1, <1>2, <1>4, <1>5, <1>6, <1>7, Invariance, ClaimInvariance, PTL DEF Spec
<1>9. Spec /\ []NoWayBack => []NoDuplicateDelivery
  BY DeliveredOnce
<1> QED BY <1>8, <1>9, PTL
-----------------------------------------------------------------------------
(* Order in queues.                                                        *)

\* A queue has an element of A.
Has(q, A) == Elems(q) \cap A # {}

\* No element of B is behind one of A.
NoneBehind(q, A, B) ==
  \A i, j \in DOMAIN q : i < j /\ q[i] \in A => q[j] \notin B

\* What a queue has when an element has joined it, and what was there when one
\* leaves.
LEMMA HasMore ==
  ASSUME NEW S, NEW q \in Seq(S), NEW m \in S, NEW A
  PROVE  Has(Append(q, m), A) <=> Has(q, A) \/ m \in A
BY ElemsAppended DEF Has

\* The same when the first has left.
LEMMA HasLess ==
  ASSUME NEW S, NEW q \in Seq(S), q # <<>>, NEW A
  PROVE  Has(q, A) <=> Has(Tail(q), A) \/ Head(q) \in A
BY ElemsTail DEF Has

\* An element of B may join a queue that has none of A.
LEMMA OrderMore ==
  ASSUME NEW S, NEW q \in Seq(S), NEW m \in S, NEW A, NEW B,
         NoneBehind(q, A, B), m \in B => ~Has(q, A)
  PROVE  NoneBehind(Append(q, m), A, B)
<1> DEFINE r == Append(q, m)
<1>1. /\ r \in Seq(S) /\ Len(q) \in Nat /\ Len(r) = Len(q) + 1
      /\ \A i \in 1..Len(q) : r[i] = q[i]
      /\ r[Len(q) + 1] = m
  BY AppendProperties, LenProperties
<1>2. DOMAIN q = 1..Len(q) /\ DOMAIN r = 1..(Len(q) + 1)
  BY <1>1, LenProperties
<1> HIDE DEF r
<1>3. ASSUME NEW i \in DOMAIN r, NEW j \in DOMAIN r, i < j, r[i] \in A
      PROVE  r[j] \notin B
  <2>1. i \in DOMAIN q /\ r[i] = q[i]
    BY <1>1, <1>2, <1>3
  <2>2. CASE j \in DOMAIN q
    <3>1. r[j] = q[j]
      BY <1>1, <1>2, <2>2
    <3> QED BY <1>3, <2>1, <2>2, <3>1 DEF NoneBehind
  <2>3. CASE j \notin DOMAIN q
    <3>1. r[j] = m
      BY <1>1, <1>2, <2>3
    <3>2. Has(q, A)
      BY <1>3, <2>1 DEF Has, Elems
    <3> QED BY <3>1, <3>2
  <2> QED BY <2>2, <2>3
<1> QED BY <1>3 DEF NoneBehind, r

\* When an element of A leaves a queue, none of B is left there.
LEMMA OrderLess ==
  ASSUME NEW S, NEW q \in Seq(S), q # <<>>, NEW A, NEW B, NoneBehind(q, A, B)
  PROVE  /\ NoneBehind(Tail(q), A, B)
         /\ Head(q) \in A => ~Has(Tail(q), B)
<1> DEFINE t == Tail(q)
<1>1. /\ t \in Seq(S) /\ Len(t) = Len(q) - 1
      /\ \A i \in 1..Len(t) : t[i] = q[i + 1]
      /\ Head(q) = q[1]
  BY HeadTailProperties
<1>2. Len(q) \in Nat \ {0} /\ DOMAIN q = 1..Len(q) /\ DOMAIN t = 1..(Len(q) - 1)
  BY <1>1, EmptySeq, LenProperties
<1> HIDE DEF t
<1>3. ASSUME NEW i \in DOMAIN t
      PROVE  i + 1 \in DOMAIN q /\ t[i] = q[i + 1]
  BY <1>1, <1>2
<1>4. ASSUME NEW i \in DOMAIN t, NEW j \in DOMAIN t, i < j, t[i] \in A
      PROVE  t[j] \notin B
  <2>1. i + 1 < j + 1
    BY <1>2, <1>4
  <2> QED BY <1>3, <1>4, <2>1 DEF NoneBehind
<1>5. ASSUME Head(q) \in A, NEW j \in DOMAIN t PROVE t[j] \notin B
  <2>1. 1 \in DOMAIN q /\ 1 < j + 1
    BY <1>2
  <2> QED BY <1>1, <1>3, <1>5, <2>1 DEF NoneBehind
<1>6. NoneBehind(t, A, B)
  BY <1>4 DEF NoneBehind
<1>7. Head(q) \in A => ~Has(t, B)
  BY <1>5 DEF Has, Elems
<1> QED BY <1>6, <1>7 DEF t

\* The first of q becomes the last of r, where A and B are called C and D: what
\* was in order stays in order.
LEMMA OrderPassedOn ==
  ASSUME NEW S, NEW R, NEW q \in Seq(S), q # <<>>, NEW r \in Seq(R), NEW m \in R,
         NEW A, NEW B, NEW C, NEW D,
         m \in C => Head(q) \in A, m \in D => Head(q) \in B
  PROVE  /\ \/ ~NoneBehind(q, A, B)
            \/ ~NoneBehind(r, C, D)
            \/ Has(r, C) /\ Has(q, B)
            \/ /\ NoneBehind(Tail(q), A, B)
               /\ NoneBehind(Append(r, m), C, D)
               /\ Has(Append(r, m), C) => ~Has(Tail(q), B)
         /\ Has(Tail(q), A) => Has(q, A)
         /\ Has(Tail(q), B) => Has(q, B)
         /\ Has(Append(r, m), C) => Has(r, C) \/ Has(q, A)
         /\ Has(Append(r, m), D) => Has(r, D) \/ Has(q, B)
<1>1. \A X : Has(Append(r, m), X) <=> Has(r, X) \/ m \in X
  BY HasMore
<1>2. \A X : Has(q, X) <=> Has(Tail(q), X) \/ Head(q) \in X
  BY HasLess
<1>3. ASSUME NoneBehind(q, A, B), NoneBehind(r, C, D), ~(Has(r, C) /\ Has(q, B))
      PROVE  /\ NoneBehind(Tail(q), A, B)
             /\ NoneBehind(Append(r, m), C, D)
             /\ Has(Append(r, m), C) => ~Has(Tail(q), B)
  <2>1. NoneBehind(Tail(q), A, B) /\ (Head(q) \in A => ~Has(Tail(q), B))
    BY <1>3, OrderLess
  <2>2. m \in D => ~Has(r, C)
    BY <1>2, <1>3
  <2>3. NoneBehind(Append(r, m), C, D)
    BY <1>3, <2>2, OrderMore
  <2> QED BY <1>1, <1>2, <1>3, <2>1, <2>3
<1> QED BY <1>1, <1>2, <1>3
-----------------------------------------------------------------------------
(* The order in which the frames of a port reach the controller.           *)

\* Frames, messages to the controller and messages in its queue whose header is
\* in T.
InFrames(T) == {f \in Frame : ExtractMatch(f) \in T}

InUp(T) == {m \in UpMessage : m.type \in PacketIns /\ Header(m) \in T}

InQueue(s, T) == {x \in Item : x.from = s /\ x.msg \in InUp(T)}

\* Where a frame is before the controller has learned of it: on the link to port
\* p of s, in the service queue, or told of in a packet-in.
HasOnLink(s, p, T) == Has(wire[s][p], InFrames(T))
HasInService(s, T) == Has(Contents(proc[s]), InFrames(T))
HasGoingUp(s, T) == Has(toController[s], InUp(T))
HasQueued(s, T) == Has(Contents(ctrl), InQueue(s, T))

Coming(s, p, T) ==
  HasOnLink(s, p, T) \/ HasInService(s, T) \/ HasGoingUp(s, T) \/ HasQueued(s, T)

\* On the whole of that way none of U is behind one of T.
InOrder(s, p, T, U) ==
  /\ NoneBehind(wire[s][p], InFrames(T), InFrames(U))
  /\ NoneBehind(Contents(proc[s]), InFrames(T), InFrames(U))
  /\ NoneBehind(toController[s], InUp(T), InUp(U))
  /\ NoneBehind(Contents(ctrl), InQueue(s, T), InQueue(s, U))
  /\ HasInService(s, T) => ~HasOnLink(s, p, U)
  /\ HasGoingUp(s, T) => ~HasOnLink(s, p, U) /\ ~HasInService(s, U)
  /\ HasQueued(s, T) =>
       ~HasOnLink(s, p, U) /\ ~HasInService(s, U) /\ ~HasGoingUp(s, U)

\* A frame with a header in T is put on the link to port p of s.
PutOn(s, p, T) == \E g \in InFrames(T) : wire'[s][p] = Append(wire[s][p], g)

\* A step keeps the order, unless it puts one of U on the link behind one of T.
KeepsOrder(s, p, T, U) ==
  /\ Coming(s, p, T)' => Coming(s, p, T) \/ PutOn(s, p, T)
  /\ \/ ~InOrder(s, p, T, U)
     \/ PutOn(s, p, U) /\ Coming(s, p, T)
     \/ InOrder(s, p, T, U)'

\* A queue from which the first may have gone, and one that an element of M may
\* have joined.
MayLeave(q, r) == r = q \/ (q # <<>> /\ r = Tail(q))

MayJoin(q, r, M) == r = q \/ \E m \in M : r = Append(q, m)

\* In such queues nothing new is behind anything.
LEMMA LeavesInOrder ==
  ASSUME NEW S, NEW q \in Seq(S), NEW r, MayLeave(q, r), NEW A, NEW B
  PROVE  /\ Has(r, A) => Has(q, A)
         /\ Has(r, B) => Has(q, B)
         /\ NoneBehind(q, A, B) => NoneBehind(r, A, B)
<1>1. CASE r = q
  BY <1>1
<1>2. CASE q # <<>> /\ r = Tail(q)
  <2>1. \A X : Has(q, X) <=> Has(Tail(q), X) \/ Head(q) \in X
    BY <1>2, HasLess
  <2>2. NoneBehind(q, A, B) => NoneBehind(Tail(q), A, B)
    BY <1>2, OrderLess
  <2> QED BY <1>2, <2>1, <2>2
<1> QED BY <1>1, <1>2 DEF MayLeave

\* Where one joins, something new can be behind something only if it is the new one.
LEMMA JoinsInOrder ==
  ASSUME NEW S, NEW q \in Seq(S), NEW r, NEW M \in SUBSET S, MayJoin(q, r, M),
         NEW A, NEW B
  PROVE  /\ Has(r, A) => Has(q, A) \/ \E m \in M \cap A : r = Append(q, m)
         /\ Has(r, B) => Has(q, B) \/ \E m \in M \cap B : r = Append(q, m)
         /\ \/ ~NoneBehind(q, A, B)
            \/ Has(q, A) /\ \E m \in M \cap B : r = Append(q, m)
            \/ NoneBehind(r, A, B)
<1>1. CASE r = q
  BY <1>1
<1>2. ASSUME NEW m \in M, r = Append(q, m)
      PROVE  /\ Has(r, A) => Has(q, A) \/ m \in A
             /\ Has(r, B) => Has(q, B) \/ m \in B
             /\ NoneBehind(q, A, B) /\ (m \in B => ~Has(q, A)) => NoneBehind(r, A, B)
  <2>1. \A X : Has(Append(q, m), X) <=> Has(q, X) \/ m \in X
    BY HasMore
  <2>2. NoneBehind(q, A, B) /\ (m \in B => ~Has(q, A)) =>
          NoneBehind(Append(q, m), A, B)
    BY OrderMore
  <2> QED BY <1>2, <2>1, <2>2
<1> QED BY <1>1, <1>2 DEF MayJoin

\* The queues on the way.
LEMMA WayTypes ==
  ASSUME Inv, NEW s \in Switch, NEW p \in Port
  PROVE  /\ wire[s][p] \in Seq(Frame)
         /\ Contents(proc[s]) \in Seq(Frame)
         /\ toController[s] \in Seq(UpMessage)
         /\ Contents(ctrl) \in Seq(Item)
<1>1. wire \in [Switch -> [Port -> Seq(Frame)]]
  BY PlaceTypes
<1> QED BY <1>1, PlaceTypes, ChannelTypes

\* A step that takes frames from the service queue and messages from the
\* controller's, and sends messages up that are no packet-ins.
LEMMA OthersKeepOrder ==
  ASSUME Inv, NEW s \in Switch, NEW p \in Port,
         NEW T, NEW U,
         MayJoin(wire[s][p], wire'[s][p], Frame),
         MayLeave(Contents(proc[s]), Contents(proc'[s])),
         MayJoin(toController[s], toController'[s],
                {m \in UpMessage : m.type \notin PacketIns}),
         MayLeave(Contents(ctrl), Contents(ctrl'))
  PROVE  KeepsOrder(s, p, T, U)
<1>1. /\ wire[s][p] \in Seq(Frame)
      /\ Contents(proc[s]) \in Seq(Frame)
      /\ toController[s] \in Seq(UpMessage)
      /\ Contents(ctrl) \in Seq(Item)
  BY WayTypes
<1>2. /\ HasOnLink(s, p, T)' => HasOnLink(s, p, T) \/ PutOn(s, p, T)
      /\ HasOnLink(s, p, U)' => HasOnLink(s, p, U) \/ PutOn(s, p, U)
      /\ \/ ~NoneBehind(wire[s][p], InFrames(T), InFrames(U))
         \/ HasOnLink(s, p, T) /\ PutOn(s, p, U)
         \/ NoneBehind(wire'[s][p], InFrames(T), InFrames(U))
  <2> DEFINE q == wire[s][p]
             r == wire'[s][p]
             put(X) == \E m \in Frame \cap InFrames(X) : r = Append(q, m)
  <2>1. /\ Has(r, InFrames(T)) => Has(q, InFrames(T)) \/ put(T)
        /\ Has(r, InFrames(U)) => Has(q, InFrames(U)) \/ put(U)
        /\ \/ ~NoneBehind(q, InFrames(T), InFrames(U))
           \/ Has(q, InFrames(T)) /\ put(U)
           \/ NoneBehind(r, InFrames(T), InFrames(U))
    <3>1. Frame \in SUBSET Frame
      OBVIOUS
    <3> HIDE DEF q, r
    <3>2. q \in Seq(Frame) /\ MayJoin(q, r, Frame)
      BY <1>1 DEF q, r
    <3> QED BY <3>1, <3>2, JoinsInOrder
  <2>2. \A X : put(X) => PutOn(s, p, X)
    BY DEF PutOn
  <2> HIDE DEF put
  <2> QED BY <2>1, <2>2 DEF HasOnLink
<1>3. /\ HasInService(s, T)' => HasInService(s, T)
      /\ HasInService(s, U)' => HasInService(s, U)
      /\ NoneBehind(Contents(proc[s]), InFrames(T), InFrames(U)) =>
           NoneBehind(Contents(proc[s]), InFrames(T), InFrames(U))'
  BY <1>1, LeavesInOrder DEF HasInService
<1>4. /\ HasQueued(s, T)' => HasQueued(s, T)
      /\ HasQueued(s, U)' => HasQueued(s, U)
      /\ NoneBehind(Contents(ctrl), InQueue(s, T), InQueue(s, U)) =>
           NoneBehind(Contents(ctrl), InQueue(s, T), InQueue(s, U))'
  BY <1>1, LeavesInOrder DEF HasQueued
<1>5. /\ HasGoingUp(s, T)' => HasGoingUp(s, T)
      /\ HasGoingUp(s, U)' => HasGoingUp(s, U)
      /\ NoneBehind(toController[s], InUp(T), InUp(U)) =>
           NoneBehind(toController'[s], InUp(T), InUp(U))
  <2> DEFINE M == {m \in UpMessage : m.type \notin PacketIns}
             q == toController[s]
             r == toController'[s]
  <2>1. M \in SUBSET UpMessage /\ \A X : M \cap InUp(X) = {}
    BY DEF InUp
  <2> HIDE DEF M, q, r
  <2>2. q \in Seq(UpMessage) /\ MayJoin(q, r, M)
    BY <1>1 DEF M, q, r
  <2>3. /\ Has(r, InUp(T)) => Has(q, InUp(T))
        /\ Has(r, InUp(U)) => Has(q, InUp(U))
        /\ NoneBehind(q, InUp(T), InUp(U)) => NoneBehind(r, InUp(T), InUp(U))
    BY <2>1, <2>2, JoinsInOrder
  <2> QED BY <2>3 DEF HasGoingUp, q, r
<1> QED BY <1>2, <1>3, <1>4, <1>5 DEF KeepsOrder, Coming, InOrder

\* A frame arrives: it is taken from its link, on whose end all frames have its
\* number, to the service queue.
WiresOwn ==
  \A s \in Switch, p \in Port : \A f \in Elems(wire[s][p]) : f.in_port = p

\* Headers of frames that come in on port p.
OnPort(T, p) == \A m \in T : m.in_port = p

\* The frame that arrives is the first of its link and becomes the last in service.
LEMMA ArrivalKeepsOrder ==
  ASSUME Inv, WiresOwn, NEW t \in Switch, NEW r \in Port, FrameArrives(t, r),
         UNCHANGED controllerVars,
         NEW s \in Switch, NEW p \in Port,
         NEW T, NEW U, OnPort(T, p), OnPort(U, p)
  PROVE  KeepsOrder(s, p, T, U)
<1> DEFINE f == Head(wire[t][r])
           q == wire[s][p]
           v == Contents(proc[s])
           A == InFrames(T)
           B == InFrames(U)
<1>1. /\ wire \in [Switch -> [Port -> Seq(Frame)]]
      /\ proc \in [Switch -> QueueOf(Frame)]
      /\ WorkConserving(proc[t]) /\ Contents(proc[t]) \in Seq(Frame)
      /\ q \in Seq(Frame) /\ v \in Seq(Frame)
  BY PlaceTypes DEF Inv, SwitchInv, SwitchTypeOK
<1>2. /\ wire[t][r] # <<>>
      /\ wire' = [wire EXCEPT ![t][r] = Tail(@)]
      /\ proc' = [proc EXCEPT ![t] = Arrive(@, f)]
      /\ UNCHANGED <<toController, ctrl>>
  BY DEF FrameArrives, channelVars, controllerVars
<1>3. f \in Frame /\ f.in_port = r
  BY <1>1, <1>2, ElemsTail DEF WiresOwn
<1>4. /\ Contents(Arrive(proc[t], f)) = Append(Contents(proc[t]), f)
  BY <1>1, <1>3, ArriveIsLast
<1>5. /\ wire'[s][p] = IF t = s /\ r = p THEN Tail(q) ELSE q
      /\ Contents(proc'[s]) = IF t = s THEN Append(v, f) ELSE v
  BY <1>1, <1>2, <1>4
<1>6. ASSUME r # p PROVE f \notin A /\ f \notin B
  BY <1>3, <1>6 DEF InFrames, OnPort, ExtractMatch
<1>7. CASE t # s
  <2>1. wire'[s][p] = q /\ Contents(proc'[s]) = v
    BY <1>5, <1>7
  <2> QED BY <1>2, <2>1, OthersKeepOrder DEF MayJoin, MayLeave
<1>8. CASE t = s /\ r # p
  <2>1. wire'[s][p] = q /\ Contents(proc'[s]) = Append(v, f)
    BY <1>5, <1>8
  <2> HIDE DEF f, q, v, A, B
  <2>2. /\ Has(Append(v, f), A) => Has(v, A)
        /\ Has(Append(v, f), B) => Has(v, B)
        /\ NoneBehind(v, A, B) => NoneBehind(Append(v, f), A, B)
    <3>1. Has(Append(v, f), A) <=> Has(v, A) \/ f \in A
      BY <1>1, <1>3, HasMore
    <3>2. Has(Append(v, f), B) <=> Has(v, B) \/ f \in B
      BY <1>1, <1>3, HasMore
    <3>3. NoneBehind(v, A, B) => NoneBehind(Append(v, f), A, B)
      BY <1>1, <1>3, <1>6, <1>8, OrderMore
    <3> QED BY <1>6, <1>8, <3>1, <3>2, <3>3
  <2>3. /\ HasInService(s, T)' => HasInService(s, T)
        /\ HasInService(s, U)' => HasInService(s, U)
        /\ NoneBehind(v, A, B) => NoneBehind(Contents(proc'[s]), A, B)
    BY <2>1, <2>2 DEF HasInService, v, A, B
  <2>4. /\ HasOnLink(s, p, T)' <=> HasOnLink(s, p, T)
        /\ HasOnLink(s, p, U)' <=> HasOnLink(s, p, U)
        /\ wire'[s][p] = wire[s][p]
    BY <2>1 DEF HasOnLink, q
  <2> QED BY <1>2, <2>3, <2>4 DEF KeepsOrder, Coming, InOrder, HasGoingUp,
                                  HasQueued, v, A, B
<1>9. CASE t = s /\ r = p
  <2>1. wire'[s][p] = Tail(q) /\ Contents(proc'[s]) = Append(v, f)
        /\ q # <<>> /\ f = Head(q)
    BY <1>2, <1>5, <1>9
  <2> HIDE DEF f, q, v, A, B
  <2>2. /\ \/ ~NoneBehind(q, A, B)
           \/ ~NoneBehind(v, A, B)
           \/ Has(v, A) /\ Has(q, B)
           \/ /\ NoneBehind(Tail(q), A, B)
              /\ NoneBehind(Append(v, f), A, B)
              /\ Has(Append(v, f), A) => ~Has(Tail(q), B)
        /\ Has(Tail(q), A) => Has(q, A)
        /\ Has(Tail(q), B) => Has(q, B)
        /\ Has(Append(v, f), A) => Has(v, A) \/ Has(q, A)
        /\ Has(Append(v, f), B) => Has(v, B) \/ Has(q, B)
    <3>1. /\ q \in Seq(Frame) /\ q # <<>> /\ v \in Seq(Frame) /\ f \in Frame
          /\ f \in A => Head(q) \in A
          /\ f \in B => Head(q) \in B
      BY <1>1, <1>3, <2>1
    <3> QED BY ONLY <3>1, OrderPassedOn
  <2>3. /\ \/ ~NoneBehind(q, A, B)
           \/ ~NoneBehind(v, A, B)
           \/ HasInService(s, T) /\ HasOnLink(s, p, U)
           \/ /\ NoneBehind(wire'[s][p], A, B)
              /\ NoneBehind(Contents(proc'[s]), A, B)
              /\ HasInService(s, T)' => ~HasOnLink(s, p, U)'
        /\ HasOnLink(s, p, T)' => HasOnLink(s, p, T)
        /\ HasOnLink(s, p, U)' => HasOnLink(s, p, U)
        /\ HasInService(s, T)' => HasInService(s, T) \/ HasOnLink(s, p, T)
        /\ HasInService(s, U)' => HasInService(s, U) \/ HasOnLink(s, p, U)
    BY <2>1, <2>2 DEF HasInService, HasOnLink, q, v, A, B
  <2>4. /\ HasGoingUp(s, T)' <=> HasGoingUp(s, T)
        /\ HasGoingUp(s, U)' <=> HasGoingUp(s, U)
        /\ HasQueued(s, T)' <=> HasQueued(s, T)
        /\ HasQueued(s, U)' <=> HasQueued(s, U)
        /\ toController'[s] = toController[s] /\ Contents(ctrl') = Contents(ctrl)
    BY <1>2 DEF HasGoingUp, HasQueued
  <2> QED BY <2>3, <2>4 DEF KeepsOrder, Coming, InOrder, q, v, A, B
<1> QED BY <1>7, <1>8, <1>9

\* A packet-in: the frame served is told of in the message sent up.
LEMMA PacketInKeepsOrder ==
  ASSUME Inv, NEW t \in Switch, SendPacketIn(t) \/ SendCompletePacketIn(t),
         UNCHANGED controllerVars,
         NEW s \in Switch, NEW p \in Port, NEW T, NEW U
  PROVE  KeepsOrder(s, p, T, U)
<1> DEFINE v == Contents(proc[s])
           f == Served(t)
           u == toController[s]
           A == InFrames(T)
           B == InFrames(U)
           C == InUp(T)
           D == InUp(U)
<1>1. /\ v \in Seq(Frame) /\ u \in Seq(UpMessage)
      /\ proc \in [Switch -> QueueOf(Frame)]
      /\ WorkConserving(proc[t]) /\ Contents(proc[t]) \in Seq(Frame)
      /\ proc[t] \in QueueOf(Frame) /\ IsBuffer(buffer[t])
  BY PlaceTypes, ChannelTypes DEF Inv, SwitchInv, SwitchTypeOK
<1>2. /\ ServiceEnds(t) /\ NextService(t) /\ UNCHANGED <<wire, ctrl>>
      /\ proc[t].event # <<>>
  BY DEF SendPacketIn, SendCompletePacketIn, linkVars, controllerVars, ServiceEnds
<1>3. /\ Head(proc[t].event) \in Frame
      /\ Head(proc[t].event) = Head(Contents(proc[t]))
      /\ Contents(Finish(proc[t])) = Tail(Contents(proc[t]))
  BY <1>1, <1>2, FinishIsFirst
<1>4. Contents(proc[t]) # <<>>
  BY <1>1, <1>2, ConcatEqualIffEmpty, QueueFields DEF Contents
<1>5. f \in Frame /\ f = Head(Contents(proc[t]))
  BY <1>3 DEF Served
<1>6. Contents(proc'[s]) = IF t = s THEN Tail(v) ELSE v
  BY <1>1, <1>2, <1>3 DEF NextService
<1> HIDE DEF f
<1>7. PICK m \in UpMessage : /\ SendUp(t, <<m>>) /\ m.type \in PacketIns
                             /\ Header(m) = ExtractMatch(f)
  <2>1. CASE SendPacketIn(t)
    <3> DEFINE m == PacketInHeader(StoredId(buffer[t]), f)
    <3>1. m \in UpMessage
      <4>1. ~isfull(buffer[t])
        BY <2>1 DEF SendPacketIn
      <4> QED BY <1>1, <1>5, <4>1, StoreFits, UpMessages
    <3>2. SendUp(t, <<m>>)
      BY <2>1 DEF SendPacketIn, f
    <3>3. m.type \in PacketIns /\ Header(m) = ExtractMatch(f)
      BY DEF PacketInHeader, PacketIns, Header
    <3> QED BY <3>1, <3>2, <3>3
  <2>2. CASE SendCompletePacketIn(t)
    <3> DEFINE m == PacketInFrame(f)
    <3>1. m \in UpMessage
      BY <1>5, UpMessages
    <3>2. SendUp(t, <<m>>)
      BY <2>2 DEF SendCompletePacketIn, f
    <3>3. m.type \in PacketIns /\ Header(m) = ExtractMatch(f)
      BY DEF PacketInFrame, PacketIns, Header
    <3> QED BY <3>1, <3>2, <3>3
  <2> QED BY <2>1, <2>2
<1>8. toController'[s] = IF t = s THEN Append(u, m) ELSE u
  <2>1. toController[t] \o <<m>> = Append(toController[t], m)
    BY ChannelTypes, Lengthened
  <2> QED BY <1>7, <2>1, ChannelTypes DEF SendUp
<1>9. CASE t # s
  <2>1. wire'[s][p] = wire[s][p] /\ Contents(proc'[s]) = v /\ toController'[s] = u
    BY <1>2, <1>6, <1>8, <1>9
  <2> QED BY <1>2, <2>1, OthersKeepOrder DEF MayJoin, MayLeave
<1>10. CASE t = s
  <2>1. /\ Contents(proc'[s]) = Tail(v) /\ toController'[s] = Append(u, m)
        /\ v # <<>> /\ f = Head(v)
    BY <1>4, <1>5, <1>6, <1>8, <1>10
  <2>2. (m \in C => f \in A) /\ (m \in D => f \in B)
    BY <1>5, <1>7 DEF InUp, InFrames
  <2> HIDE DEF v, u, A, B, C, D
  <2>3. /\ \/ ~NoneBehind(v, A, B)
           \/ ~NoneBehind(u, C, D)
           \/ Has(u, C) /\ Has(v, B)
           \/ /\ NoneBehind(Tail(v), A, B)
              /\ NoneBehind(Append(u, m), C, D)
              /\ Has(Append(u, m), C) => ~Has(Tail(v), B)
        /\ Has(Tail(v), A) => Has(v, A)
        /\ Has(Tail(v), B) => Has(v, B)
        /\ Has(Append(u, m), C) => Has(u, C) \/ Has(v, A)
        /\ Has(Append(u, m), D) => Has(u, D) \/ Has(v, B)
    <3>1. /\ v \in Seq(Frame) /\ v # <<>> /\ u \in Seq(UpMessage)
          /\ m \in UpMessage
          /\ m \in C => Head(v) \in A
          /\ m \in D => Head(v) \in B
      BY <1>1, <2>1, <2>2
    <3> QED BY ONLY <3>1, OrderPassedOn
  <2>4. /\ \/ ~NoneBehind(v, A, B)
           \/ ~NoneBehind(u, C, D)
           \/ HasGoingUp(s, T) /\ HasInService(s, U)
           \/ /\ NoneBehind(Contents(proc'[s]), A, B)
              /\ NoneBehind(toController'[s], C, D)
              /\ HasGoingUp(s, T)' => ~HasInService(s, U)'
        /\ HasInService(s, T)' => HasInService(s, T)
        /\ HasInService(s, U)' => HasInService(s, U)
        /\ HasGoingUp(s, T)' => HasGoingUp(s, T) \/ HasInService(s, T)
        /\ HasGoingUp(s, U)' => HasGoingUp(s, U) \/ HasInService(s, U)
    BY <2>1, <2>3 DEF HasInService, HasGoingUp, u, v, A, B, C, D
  <2>5. /\ HasOnLink(s, p, T)' <=> HasOnLink(s, p, T)
        /\ HasOnLink(s, p, U)' <=> HasOnLink(s, p, U)
        /\ HasQueued(s, T)' <=> HasQueued(s, T)
        /\ HasQueued(s, U)' <=> HasQueued(s, U)
        /\ wire'[s][p] = wire[s][p] /\ Contents(ctrl') = Contents(ctrl)
    BY <1>2 DEF HasOnLink, HasQueued
  <2> QED BY <2>4, <2>5 DEF KeepsOrder, Coming, InOrder, u, v, A, B, C, D
<1> QED BY <1>9, <1>10

\* A message joins the controller's queue.
LEMMA MessageKeepsOrder ==
  ASSUME Inv, NEW t \in Switch, MessageArrives(t),
         UNCHANGED <<linkVars, switchVars>>,
         NEW s \in Switch, NEW p \in Port, NEW T, NEW U
  PROVE  KeepsOrder(s, p, T, U)
<1> DEFINE u == toController[s]
           k == Contents(ctrl)
           m == Head(toController[t])
           item == [from |-> t, msg |-> m]
           A == InUp(T)
           B == InUp(U)
           C == InQueue(s, T)
           D == InQueue(s, U)
<1>1. /\ u \in Seq(UpMessage) /\ k \in Seq(Item)
      /\ toController \in [Switch -> Seq(UpMessage)]
      /\ ctrl \in QueueOf(Item) /\ WorkConserving(ctrl)
  BY ChannelTypes
<1>2. /\ toController[t] # <<>>
      /\ toController' = [toController EXCEPT ![t] = Tail(@)]
      /\ ctrl' = Arrive(ctrl, item)
      /\ UNCHANGED <<wire, proc>>
  BY DEF MessageArrives, linkVars, switchVars
<1>3. m \in UpMessage
  BY <1>1, <1>2, ElemsTail
<1> HIDE DEF m
<1>4. item \in Item /\ (item \in C => s = t /\ m \in A)
      /\ (item \in D => s = t /\ m \in B)
  BY <1>3 DEF Item, InQueue
<1> HIDE DEF item
<1>5. Contents(ctrl') = Append(k, item)
  BY <1>1, <1>2, <1>4, ArriveIsLast
<1>6. toController'[s] = IF t = s THEN Tail(u) ELSE u
  BY <1>1, <1>2
<1>7. CASE t = s
  <2>1. /\ toController'[s] = Tail(u) /\ u # <<>> /\ m = Head(u)
    BY <1>2, <1>6, <1>7 DEF m
  <2> HIDE DEF u, k, A, B, C, D
  <2>2. /\ \/ ~NoneBehind(u, A, B)
           \/ ~NoneBehind(k, C, D)
           \/ Has(k, C) /\ Has(u, B)
           \/ /\ NoneBehind(Tail(u), A, B)
              /\ NoneBehind(Append(k, item), C, D)
              /\ Has(Append(k, item), C) => ~Has(Tail(u), B)
        /\ Has(Tail(u), A) => Has(u, A)
        /\ Has(Tail(u), B) => Has(u, B)
        /\ Has(Append(k, item), C) => Has(k, C) \/ Has(u, A)
        /\ Has(Append(k, item), D) => Has(k, D) \/ Has(u, B)
    <3>1. /\ u \in Seq(UpMessage) /\ u # <<>> /\ k \in Seq(Item)
          /\ item \in Item
          /\ item \in C => Head(u) \in A
          /\ item \in D => Head(u) \in B
      BY <1>1, <1>4, <2>1
    <3> QED BY ONLY <3>1, OrderPassedOn
  <2>3. /\ \/ ~NoneBehind(u, A, B)
           \/ ~NoneBehind(k, C, D)
           \/ HasQueued(s, T) /\ HasGoingUp(s, U)
           \/ /\ NoneBehind(toController'[s], A, B)
              /\ NoneBehind(Contents(ctrl'), C, D)
              /\ HasQueued(s, T)' => ~HasGoingUp(s, U)'
        /\ HasGoingUp(s, T)' => HasGoingUp(s, T)
        /\ HasGoingUp(s, U)' => HasGoingUp(s, U)
        /\ HasQueued(s, T)' => HasQueued(s, T) \/ HasGoingUp(s, T)
        /\ HasQueued(s, U)' => HasQueued(s, U) \/ HasGoingUp(s, U)
    BY <1>5, <2>1, <2>2 DEF HasQueued, HasGoingUp, u, k, A, B, C, D
  <2>4. /\ HasOnLink(s, p, T)' <=> HasOnLink(s, p, T)
        /\ HasOnLink(s, p, U)' <=> HasOnLink(s, p, U)
        /\ HasInService(s, T)' <=> HasInService(s, T)
        /\ HasInService(s, U)' <=> HasInService(s, U)
        /\ wire'[s][p] = wire[s][p] /\ Contents(proc'[s]) = Contents(proc[s])
    BY <1>2 DEF HasOnLink, HasInService
  <2> QED BY <2>3, <2>4 DEF KeepsOrder, Coming, InOrder, u, k, A, B, C, D
<1>8. CASE t # s
  <2>1. item \notin C /\ item \notin D /\ toController'[s] = u
    BY <1>4, <1>6, <1>8
  <2> HIDE DEF u, k, A, B, C, D
  <2>2. /\ Has(Append(k, item), C) => Has(k, C)
        /\ Has(Append(k, item), D) => Has(k, D)
        /\ NoneBehind(k, C, D) => NoneBehind(Append(k, item), C, D)
    <3>1. \A X : Has(Append(k, item), X) <=> Has(k, X) \/ item \in X
      BY <1>1, <1>4, HasMore
    <3>2. NoneBehind(k, C, D) => NoneBehind(Append(k, item), C, D)
      BY <1>1, <1>4, <2>1, OrderMore
    <3> QED BY <2>1, <3>1, <3>2
  <2>3. /\ HasQueued(s, T)' => HasQueued(s, T)
        /\ HasQueued(s, U)' => HasQueued(s, U)
        /\ NoneBehind(k, C, D) => NoneBehind(Contents(ctrl'), C, D)
        /\ HasGoingUp(s, T)' <=> HasGoingUp(s, T)
        /\ HasGoingUp(s, U)' <=> HasGoingUp(s, U)
        /\ toController'[s] = toController[s]
    BY <1>5, <2>1, <2>2 DEF HasQueued, HasGoingUp, u, k, C, D
  <2> QED BY <1>2, <2>3 DEF KeepsOrder, Coming, InOrder, HasOnLink, HasInService,
                            k, C, D
<1> QED BY <1>7, <1>8

\* A sequence that an element has joined is not the one it was, and tells which.
LEMMA AppendTells ==
  ASSUME NEW S, NEW q \in Seq(S), NEW m \in S, NEW n \in S
  PROVE  /\ Append(q, m) # q
         /\ q # <<>> => Append(q, m) # Tail(q)
         /\ Append(q, m) = Append(q, n) => m = n
<1>1. /\ Len(q) \in Nat /\ Len(Append(q, m)) = Len(q) + 1
      /\ Append(q, m)[Len(q) + 1] = m
      /\ Append(q, n)[Len(q) + 1] = n
  BY AppendProperties, LenProperties
<1>2. ASSUME q # <<>> PROVE Len(Tail(q)) = Len(q) - 1
  BY <1>2, HeadTailProperties
<1> QED BY <1>1, <1>2

\* The end of a service takes the first of a queue, and nothing else does.
LEMMA ServiceMayEnd ==
  ASSUME Inv, NEW x \in Switch, SwitchServes(x) \/ SwitchReceives(x),
         NEW s \in Switch
  PROVE  MayLeave(Contents(proc[s]), Contents(proc'[s]))
<1>1. /\ proc \in [Switch -> QueueOf(Frame)]
      /\ WorkConserving(proc[x]) /\ Contents(proc[x]) \in Seq(Frame)
      /\ proc[x] \in QueueOf(Frame)
  BY PlaceTypes DEF Inv, SwitchInv, SwitchTypeOK
<1>2. CASE ServiceEnds(x) /\ NextService(x)
  <2>1. proc[x].event # <<>> /\ proc' = [proc EXCEPT ![x] = Finish(@)]
    BY <1>2 DEF ServiceEnds, NextService
  <2>2. Contents(Finish(proc[x])) = Tail(Contents(proc[x]))
    BY <1>1, <2>1, FinishIsFirst
  <2>3. Contents(proc[x]) # <<>>
    BY <1>1, <2>1, ConcatEqualIffEmpty, QueueFields DEF Contents
  <2>4. proc'[s] = IF s = x THEN Finish(proc[x]) ELSE proc[s]
    BY <1>1, <2>1
  <2> QED BY <2>2, <2>3, <2>4 DEF MayLeave
<1>3. CASE UNCHANGED proc
  BY <1>3 DEF MayLeave
<1>4. SwitchServes(x) => (ServiceEnds(x) /\ NextService(x)) \/ UNCHANGED proc
  BY DEF SwitchServes, ForwardFrame, SendPacketIn, SendCompletePacketIn,
         PacketInOnClosedSocket, switchVars
<1>5. SwitchReceives(x) => UNCHANGED proc
  BY DEF SwitchReceives, handleFeaturesRequest, handleFlowMod, handlePacketOut,
         dropBuffered, handleCompletePacketOut, switchVars
<1> QED BY <1>2, <1>3, <1>4, <1>5

\* The copy of f that goes to port p of a switch.
CopyTo(f, p) == [f EXCEPT !.in_port = p]

\* The link to port p of s gets a copy of f if x puts f on the port at its end.
CopyPutOn(x, f, ps, s, p) ==
  wire'[s][p] = IF \E r \in ps : Peer[x][r] = SwitchEnd(s, p)
                THEN Append(wire[s][p], CopyTo(f, p)) ELSE wire[s][p]

\* That is what a switch puts on the links.
LEMMA CopyPut ==
  ASSUME Inv, NEW x, NEW f \in Frame, NEW ps, Transmit(x, f, ps),
         NEW s \in Switch, NEW p \in Port
  PROVE  CopyTo(f, p) \in Frame /\ CopyPutOn(x, f, ps, s, p)
BY DEF Transmit, Frame, CopyTo, CopyPutOn

\* A message of another kind than a packet-in goes up.
LEMMA OtherSentUp ==
  ASSUME Inv, NEW x \in Switch, NEW m \in UpMessage, m.type \notin PacketIns,
         SendUp(x, <<m>>), NEW s \in Switch
  PROVE  MayJoin(toController[s], toController'[s],
                 {n \in UpMessage : n.type \notin PacketIns})
<1>1. toController[x] \o <<m>> = Append(toController[x], m)
  BY ChannelTypes, Lengthened
<1>2. toController'[s] = IF s = x THEN Append(toController[x], m)
                         ELSE toController[s]
  BY <1>1, ChannelTypes DEF SendUp
<1> QED BY <1>2 DEF MayJoin

\* What arrives from a link is the first there.
LEMMA ArrivalTakes ==
  ASSUME Inv, NEW x \in Switch, NEW r \in Port, FrameArrives(x, r),
         NEW s \in Switch, NEW p \in Port
  PROVE  MayLeave(wire[s][p], wire'[s][p])
<1>1. wire \in [Switch -> [Port -> Seq(Frame)]]
  BY PlaceTypes
<1>2. wire[x][r] # <<>> /\ wire' = [wire EXCEPT ![x][r] = Tail(@)]
  BY DEF FrameArrives
<1>3. wire'[s][p] = IF s = x /\ p = r THEN Tail(wire[x][r]) ELSE wire[s][p]
  BY <1>1, <1>2
<1> QED BY <1>2, <1>3 DEF MayLeave

\* The switch x puts on the link to port p of s a frame with a header in T: a
\* copy of f.
PutsCopy(x, f, ps, s, p, T) ==
  /\ TableSends(x, f, ps) \/ MessageSends(x, f, ps)
  /\ \E r \in ps : Peer[x][r] = SwitchEnd(s, p)
  /\ CopyTo(f, p) \in InFrames(T)

\* Who puts a frame on a link by a step of a switch: a copy of a frame there.
LEMMA PutBySwitch ==
  ASSUME Inv, NEW x \in Switch, SwitchStep(x), NEW s \in Switch, NEW p \in Port,
         NEW T, PutOn(s, p, T)
  PROVE  \E f \in FramesAt(x) \cap Frame : \E ps : PutsCopy(x, f, ps, s, p, T)
<1>1. PICK g \in InFrames(T) : wire'[s][p] = Append(wire[s][p], g)
  BY DEF PutOn
<1>2. g \in Frame /\ wire[s][p] \in Seq(Frame)
  BY <1>1, WayTypes DEF InFrames
<1>3. /\ wire'[s][p] # wire[s][p]
      /\ wire[s][p] # <<>> => wire'[s][p] # Tail(wire[s][p])
  BY <1>1, <1>2, AppendTells
<1>4. ~MayLeave(wire[s][p], wire'[s][p])
  BY <1>3 DEF MayLeave
<1>5. ~UNCHANGED wire /\ ~(\E r \in Port : FrameArrives(x, r))
  BY <1>3, <1>4, ArrivalTakes
<1>6. PICK f \in FramesAt(x) \cap Frame : \E ps :
        Transmit(x, f, ps) /\ (TableSends(x, f, ps) \/ MessageSends(x, f, ps))
  BY <1>5, LinkSteps
<1>7. PICK ps :
        Transmit(x, f, ps) /\ (TableSends(x, f, ps) \/ MessageSends(x, f, ps))
  BY <1>6
<1>8. f \in Frame /\ Transmit(x, f, ps)
  BY <1>7
<1>9. CopyTo(f, p) \in Frame /\ CopyPutOn(x, f, ps, s, p)
  BY <1>8, CopyPut
<1>10. wire'[s][p] = IF \E r \in ps : Peer[x][r] = SwitchEnd(s, p)
                     THEN Append(wire[s][p], CopyTo(f, p)) ELSE wire[s][p]
  BY <1>9 DEF CopyPutOn
<1>11. /\ \E r \in ps : Peer[x][r] = SwitchEnd(s, p)
       /\ Append(wire[s][p], CopyTo(f, p)) = Append(wire[s][p], g)
  BY <1>1, <1>3, <1>10
<1>12. CopyTo(f, p) = g
  BY <1>2, <1>9, <1>11, AppendTells
<1>13. PutsCopy(x, f, ps, s, p, T)
  BY <1>7, <1>11, <1>12 DEF PutsCopy
<1> QED BY <1>13

\* The frame that a host sends.
LEMMA HostPuts ==
  ASSUME Inv, HostStep
  PROVE  \E x \in Switch, r \in Port, f \in Frame :
           /\ f.in_port = r /\ f.eth_src # f.eth_dst
           /\ Peer[x][r] = HostEnd(f.eth_src)
           /\ wire' = [wire EXCEPT ![x][r] = Append(@, f)]
<1>1. PICK h \in Host, d \in Address, y \in FrameType,
           tpa \in Host \cup {NoHost}, x \in Switch, r \in Port :
        Sends(h, d, y, tpa, x, r)
  <2>1. PICK h \in Host, s \in Switch, p \in Port : HostSends(h, s, p)
    BY DEF HostStep
  <2>2. CASE \E d \in Host, y \in EtherType : Sends(h, d, y, NoHost, s, p)
    BY <2>2 DEF Address, FrameType
  <2>3. CASE \E a \in Asked : Sends(h, Broadcast, ETHERTYPE_ARP, a, s, p)
    BY <2>3, AskedAssumption DEF Address, FrameType
  <2> QED BY <2>1, <2>2, <2>3 DEF HostSends
<1> DEFINE f == [id |-> Len(sent) + 1, in_port |-> r, eth_src |-> h,
                 eth_dst |-> d, eth_type |-> y, arp_tpa |-> tpa]
<1>2. f \in Frame
  <2>1. Len(sent) + 1 \in Nat
    BY DEF Inv, LinksTypeOK
  <2> QED BY <2>1 DEF Frame
<1>3. /\ h # d /\ Peer[x][r] = HostEnd(h)
      /\ wire' = [wire EXCEPT ![x][r] = Append(@, f)]
  BY <1>1 DEF Sends
<1>4. f.in_port = r /\ f.eth_src = h /\ f.eth_dst = d
  OBVIOUS
<1> HIDE DEF f
<1> QED BY <1>2, <1>3, <1>4

\* By a step of a host: its own frame, on its own link.
LEMMA PutByHost ==
  ASSUME Inv, HostStep, NEW s \in Switch, NEW p \in Port, NEW T, PutOn(s, p, T)
  PROVE  \E g \in InFrames(T) : /\ g.in_port = p /\ g.eth_src # g.eth_dst
                                /\ Peer[s][p] = HostEnd(g.eth_src)
<1>1. PICK g \in InFrames(T) : wire'[s][p] = Append(wire[s][p], g)
  BY DEF PutOn
<1>2. PICK x \in Switch, r \in Port, f \in Frame :
           /\ f.in_port = r /\ f.eth_src # f.eth_dst
           /\ Peer[x][r] = HostEnd(f.eth_src)
           /\ wire' = [wire EXCEPT ![x][r] = Append(@, f)]
  BY HostPuts
<1>3. g \in Frame /\ wire[s][p] \in Seq(Frame)
      /\ wire \in [Switch -> [Port -> Seq(Frame)]]
  BY <1>1, WayTypes, PlaceTypes DEF InFrames
<1>4. wire'[s][p] = IF s = x /\ p = r THEN Append(wire[s][p], f) ELSE wire[s][p]
  BY <1>2, <1>3
<1>5. wire'[s][p] # wire[s][p]
  BY <1>1, <1>3, AppendTells
<1>6. s = x /\ p = r /\ Append(wire[s][p], f) = Append(wire[s][p], g)
  BY <1>1, <1>4, <1>5
<1>7. f = g
  BY <1>3, <1>6, AppendTells
<1> QED BY <1>1, <1>2, <1>6, <1>7

\* The controller puts nothing on a link.
LEMMA PutByNone ==
  ASSUME Inv, UNCHANGED wire, NEW s \in Switch, NEW p \in Port, NEW T
  PROVE  ~PutOn(s, p, T)
<1> SUFFICES ASSUME NEW g \in InFrames(T), wire'[s][p] = Append(wire[s][p], g)
             PROVE  FALSE
  BY DEF PutOn
<1>1. g \in Frame /\ wire[s][p] \in Seq(Frame)
  BY WayTypes DEF InFrames
<1> QED BY <1>1, AppendTells

\* What any step does to the order on a way.
LEMMA StepKeepsOrder ==
  ASSUME Inv, WiresOwn, [Next]_vars, NEW s \in Switch, NEW p \in Port,
         NEW T, NEW U, OnPort(T, p), OnPort(U, p)
  PROVE  KeepsOrder(s, p, T, U)
<1> DEFINE Others == {m \in UpMessage : m.type \notin PacketIns}
<1>1. ASSUME wire'[s][p] = wire[s][p]
             \/ \E g \in Frame : wire'[s][p] = Append(wire[s][p], g),
             MayLeave(Contents(proc[s]), Contents(proc'[s])),
             MayJoin(toController[s], toController'[s], Others),
             UNCHANGED ctrl
      PROVE  KeepsOrder(s, p, T, U)
  <2>1. /\ MayJoin(wire[s][p], wire'[s][p], Frame)
        /\ MayLeave(Contents(ctrl), Contents(ctrl'))
    BY <1>1 DEF MayJoin, MayLeave
  <2> QED BY <1>1, <2>1, OthersKeepOrder
<1>2. UNCHANGED toController => MayJoin(toController[s], toController'[s], Others)
  BY DEF MayJoin
<1>3. UNCHANGED proc => MayLeave(Contents(proc[s]), Contents(proc'[s]))
  BY DEF MayLeave
<1> HIDE DEF Others
<1>4. CASE UNCHANGED vars
  <2>1. UNCHANGED <<wire, proc, toController, ctrl>>
    BY <1>4 DEF vars, linkVars, switchVars, channelVars, controllerVars
  <2> QED BY <1>1, <1>2, <1>3, <2>1
<1>5. CASE HostStep
  <2>1. UNCHANGED <<proc, toController, ctrl>>
    BY <1>5 DEF HostStep, switchVars, channelVars, controllerVars
  <2>2. PICK x \in Switch, r \in Port, f \in Frame :
          wire' = [wire EXCEPT ![x][r] = Append(@, f)]
    BY <1>5, HostPuts
  <2>3. wire \in [Switch -> [Port -> Seq(Frame)]]
    BY PlaceTypes
  <2>4. wire'[s][p] = IF s = x /\ p = r THEN Append(wire[s][p], f) ELSE wire[s][p]
    BY <2>2, <2>3
  <2> QED BY <1>1, <1>2, <1>3, <2>1, <2>4
<1>6. ASSUME NEW x \in Switch, OfSwitch(SwitchStep(x)) PROVE KeepsOrder(s, p, T, U)
  <2>1. SwitchStep(x) /\ UNCHANGED controllerVars /\ UNCHANGED ctrl
    BY <1>6 DEF OfSwitch, controllerVars
  <2>2. CASE \E r \in Port : FrameArrives(x, r)
    BY <2>1, <2>2, ArrivalKeepsOrder
  <2>3. CASE SendPacketIn(x) \/ SendCompletePacketIn(x)
    BY <2>1, <2>3, PacketInKeepsOrder
  <2>4. CASE ~(\E r \in Port : FrameArrives(x, r))
             /\ ~(SendPacketIn(x) \/ SendCompletePacketIn(x))
    <3>1. wire'[s][p] = wire[s][p]
          \/ \E g \in Frame : wire'[s][p] = Append(wire[s][p], g)
      <4>1. CASE UNCHANGED wire
        BY <4>1
      <4>2. ASSUME NEW f \in Frame, NEW ps, Transmit(x, f, ps)
            PROVE  \/ wire'[s][p] = wire[s][p]
                   \/ \E g \in Frame : wire'[s][p] = Append(wire[s][p], g)
        BY <4>2, CopyPut DEF CopyPutOn
      <4> QED BY <2>1, <2>4, <4>1, <4>2, LinkSteps
    <3>2. MayLeave(Contents(proc[s]), Contents(proc'[s]))
      <4>1. connect(x) \/ FlowTimer(x) => UNCHANGED proc
        BY DEF connect, FlowTimer
      <4> QED BY <1>3, <2>1, <2>4, <4>1, ServiceMayEnd DEF SwitchStep
    <3>3. MayJoin(toController[s], toController'[s], Others)
      <4>1. CASE connect(x) \/ handleFeaturesRequest(x)
        <5>1. /\ Established \in UpMessage /\ Established.type \notin PacketIns
              /\ FeaturesReply \in UpMessage /\ FeaturesReply.type \notin PacketIns
          BY UpMessages DEF Established, FeaturesReply, PacketIns
        <5>2. SendUp(x, <<Established>>) \/ SendUp(x, <<FeaturesReply>>)
          BY <4>1 DEF connect, handleFeaturesRequest
        <5> QED BY <5>1, <5>2, OtherSentUp DEF Others
      <4>2. /\ FlowTimer(x) => UNCHANGED toController
            /\ ForwardFrame(x) => UNCHANGED toController
            /\ PacketInOnClosedSocket(x) => UNCHANGED toController
            /\ handleFlowMod(x) => UNCHANGED toController
            /\ handlePacketOut(x) => UNCHANGED toController
            /\ dropBuffered(x) => UNCHANGED toController
            /\ handleCompletePacketOut(x) => UNCHANGED toController
        BY DEF FlowTimer, ForwardFrame, PacketInOnClosedSocket, handleFlowMod,
               handlePacketOut, dropBuffered, handleCompletePacketOut, channelVars
      <4> QED BY <1>2, <2>1, <2>4, <4>1, <4>2
              DEF SwitchStep, SwitchServes, SwitchReceives
    <3> QED BY <1>1, <2>1, <3>1, <3>2, <3>3
  <2> QED BY <2>2, <2>3, <2>4
<1>7. CASE OfController(ControllerStep)
  <2>1. ControllerStep /\ UNCHANGED <<linkVars, switchVars>> /\ UNCHANGED <<wire, proc>>
    BY <1>7 DEF OfController, linkVars, switchVars
  <2>2. CASE \E x \in Switch : MessageArrives(x)
    BY <2>1, <2>2, MessageKeepsOrder
  <2>3. CASE ControllerServes
    <3>1. /\ Processes(UpTypes) /\ UNCHANGED toController
          /\ ctrl' = Finish(ctrl) \/ ctrl' = ctrl
      BY <2>3, ControllerReplies DEF Reply, channelVars
    <3>2. MayLeave(Contents(ctrl), Contents(ctrl'))
      <4>1. /\ ctrl \in QueueOf(Item) /\ WorkConserving(ctrl)
            /\ Contents(ctrl) \in Seq(Item) /\ ctrl.event # <<>>
        BY <3>1, ChannelTypes DEF Processes
      <4>2. Contents(Finish(ctrl)) = Tail(Contents(ctrl))
        BY <4>1, FinishIsFirst
      <4>3. Contents(ctrl) # <<>>
        BY <4>1, ConcatEqualIffEmpty, QueueFields DEF Contents
      <4> QED BY <3>1, <4>2, <4>3 DEF MayLeave
    <3>3. /\ MayJoin(wire[s][p], wire'[s][p], Frame)
          /\ MayJoin(toController[s], toController'[s], Others)
          /\ MayLeave(Contents(proc[s]), Contents(proc'[s]))
      BY <1>2, <1>3, <2>1, <3>1 DEF MayJoin
    <3> QED BY <3>2, <3>3, OthersKeepOrder DEF Others
  <2> QED BY <2>1, <2>2, <2>3 DEF ControllerStep
<1> QED BY <1>4, <1>5, <1>6, <1>7 DEF Next
-----------------------------------------------------------------------------
(* The control application Switch in a network without loops.  A switch    *)
(* learns the port that a host's frames come in on, which is the port to   *)
(* the host.  A frame for that host could come in there only if the switch *)
(* before had flooded it: but the frame from which a switch learns has     *)
(* passed all switches before, which have learned from it.                 *)

\* Each link leads both ways, and a host is alone behind its port.
LinksMatch(B) ==
  \A s \in Switch, p \in Port :
    /\ \A h \in Host : Peer[s][p] = HostEnd(h) =>
         p \in OpenPorts(s) /\ B[s][p] = {h}
    /\ \A t \in Switch, q \in Port : Peer[s][p] = SwitchEnd(t, q) =>
         /\ Peer[t][q] = SwitchEnd(s, p)
         /\ p \in OpenPorts(s) => q \in OpenPorts(t) /\ B[s][p] \cap B[t][q] = {}

\* The controller knows host d at port p of s.
KnownAt(s, d, p) == d \in DOMAIN mac_to_port[s] /\ mac_to_port[s][d] = p

\* Headers of frames from d and for d that come in on port p.
SrcAt(d, p) == {m \in Match : m.eth_src = d /\ m.in_port = p}
DstAt(d, p) == {m \in Match : m.eth_dst = d /\ m.in_port = p}

\* The controller knows d at port p of s, or is about to learn it.
Heard(s, p, d) == KnownAt(s, d, p) \/ Coming(s, p, SrcAt(d, p))

\* A frame, or its header, at s is from a host behind the port it came in on.
Placed(B, s, x) ==
  /\ x.in_port \in OpenPorts(s)
  /\ x.eth_src \in B[s][x.in_port]
  /\ x.eth_src # x.eth_dst

AllPlaced(B) == \A s \in Switch : \A f \in FramesAt(s) : Placed(B, s, f)

\* A host is behind the port where it was learned.
LearnedBehind(B) ==
  \A s \in Switch : \A d, p : KnownAt(s, d, p) => p \in OpenPorts(s) /\ d \in B[s][p]

\* A packet-in tells of a frame that is at its switch.
LEMMA WaitingFrame ==
  ASSUME Inv, ClaimInv, NEW s \in Switch, NEW m \in Waiting(s),
         m.type \in PacketIns
  PROVE  \E f \in FramesAt(s) : Header(m) = ExtractMatch(f)
<1>1. CASE m.type = "PACKET_IN_FULL"
  <2>1. m.frame \in FramesAt(s)
    BY <1>1 DEF FramesAt, Enclosed
  <2> QED BY <1>1, <2>1 DEF Header
<1>2. CASE m.type = "PACKET_IN"
  <2> DEFINE f == buffer[s].pending_msgs[m.buffer_id]
  <2>1. /\ m.buffer_id \in DOMAIN buffer[s].pending_msgs
        /\ m = PacketInHeader(m.buffer_id, f)
    BY <1>2 DEF ClaimInv, Described, Describes
  <2>2. f \in FramesAt(s)
    BY <2>1 DEF FramesAt, Buffered
  <2> HIDE DEF f
  <2>3. m.match = ExtractMatch(f)
    BY <2>1 DEF PacketInHeader
  <2> QED BY <1>2, <2>2, <2>3 DEF Header
<1> QED BY <1>1, <1>2 DEF PacketIns

\* A header is where its frame is.
LEMMA HeaderPlaced ==
  ASSUME NEW B, NEW s, NEW f
  PROVE  Placed(B, s, ExtractMatch(f)) <=> Placed(B, s, f)
BY DEF Placed, ExtractMatch

\* The header that the controller is told of is placed.
LEMMA WaitingPlaced ==
  ASSUME Inv, ClaimInv, NEW B, AllPlaced(B), NEW s \in Switch,
         NEW m \in Waiting(s), m.type \in PacketIns
  PROVE  Placed(B, s, Header(m))
<1>1. PICK f \in FramesAt(s) : Header(m) = ExtractMatch(f)
  BY WaitingFrame
<1>2. Placed(B, s, f)
  BY DEF AllPlaced
<1> QED BY <1>1, <1>2, HeaderPlaced

\* So is what comes on a port.
LEMMA ComingPlaced ==
  ASSUME Inv, ClaimInv, NEW B, AllPlaced(B), NEW s \in Switch, NEW p \in Port,
         NEW T, Coming(s, p, T)
  PROVE  \E x \in T : Placed(B, s, x)
<1>1. ASSUME NEW f \in FramesAt(s) \cap InFrames(T)
      PROVE  \E x \in T : Placed(B, s, x)
  <2>1. ExtractMatch(f) \in T
    BY DEF InFrames
  <2>2. Placed(B, s, f)
    BY DEF AllPlaced
  <2> QED BY <2>1, <2>2, HeaderPlaced
<1>2. ASSUME NEW m \in Waiting(s) \cap InUp(T)
      PROVE  \E x \in T : Placed(B, s, x)
  <2>1. m.type \in PacketIns /\ Header(m) \in T
    BY DEF InUp
  <2> QED BY <2>1, WaitingPlaced
<1>3. CASE HasOnLink(s, p, T)
  <2>1. PICK f \in InFrames(T) : f \in Elems(wire[s][p])
    BY <1>3 DEF HasOnLink, Has
  <2>2. f \in FramesAt(s)
    BY <2>1 DEF FramesAt, OnWires
  <2> QED BY <1>1, <2>2
<1>4. CASE HasInService(s, T)
  <2>1. PICK f \in InFrames(T) : f \in Elems(Contents(proc[s]))
    BY <1>4 DEF HasInService, Has
  <2>2. f \in FramesAt(s)
    BY <2>1 DEF FramesAt
  <2> QED BY <1>1, <2>2
<1>5. CASE HasGoingUp(s, T)
  <2>1. PICK m \in InUp(T) : m \in Elems(toController[s])
    BY <1>5 DEF HasGoingUp, Has
  <2>2. m \in Waiting(s)
    BY <2>1 DEF Waiting, InUp
  <2> QED BY <1>2, <2>2
<1>6. CASE HasQueued(s, T)
  <2>1. PICK x \in InQueue(s, T) : x \in Elems(Contents(ctrl))
    BY <1>6 DEF HasQueued, Has
  <2>2. x.msg \in InUp(T) /\ x = [from |-> s, msg |-> x.msg]
    BY DEF InQueue, Item
  <2>3. x.msg \in Waiting(s)
    BY <2>1, <2>2 DEF Waiting, InUp
  <2> QED BY <1>2, <2>2, <2>3
<1> QED BY <1>3, <1>4, <1>5, <1>6 DEF Coming

\* A host that is heard of on a port is behind it.
LEMMA HeardBehind ==
  ASSUME Inv, ClaimInv, NEW B, AllPlaced(B), LearnedBehind(B),
         NEW s \in Switch, NEW p \in Port, NEW d, Heard(s, p, d)
  PROVE  p \in OpenPorts(s) /\ d \in B[s][p]
<1>1. CASE KnownAt(s, d, p)
  BY <1>1 DEF LearnedBehind
<1>2. CASE Coming(s, p, SrcAt(d, p))
  <2>1. PICK x \in SrcAt(d, p) : Placed(B, s, x)
    BY <1>2, ComingPlaced
  <2> QED BY <2>1 DEF SrcAt, Placed
<1> QED BY <1>1, <1>2 DEF Heard

\* What is learned: the source of the header, at the port it came in on, unless
\* it was known before.
LEMMA LearnedAfter ==
  ASSUME Inv, ControllerServes, NEW s \in Switch, NEW d, NEW p, KnownAt(s, d, p)'
  PROVE  \/ KnownAt(s, d, p)
         \/ /\ s = From /\ Message.type \in PacketIns
            /\ Header(Message).eth_src = d /\ Header(Message).in_port = p
            /\ d \notin DOMAIN mac_to_port[s]
<1>1. /\ From \in Switch
      /\ \/ UNCHANGED mac_to_port
         \/ /\ mac_to_port' = [mac_to_port EXCEPT ![From] = Learned]
            /\ Message.type \in PacketIns
  BY ControllerReplies
<1>2. CASE UNCHANGED mac_to_port
  BY <1>2 DEF KnownAt
<1>3. CASE /\ mac_to_port' = [mac_to_port EXCEPT ![From] = Learned]
           /\ Message.type \in PacketIns
  <2>1. mac_to_port = [x \in Switch |-> mac_to_port[x]]
    BY DEF Inv, ControllerInv, ControllerTypeOK
  <2>2. mac_to_port'[s] = IF s = From THEN Learned ELSE mac_to_port[s]
    BY <1>1, <1>3, <2>1
  <2>3. CASE s # From
    BY <2>2, <2>3 DEF KnownAt
  <2>4. CASE s = From
    <3>1. d \in DOMAIN Learned /\ Learned[d] = p
      BY <2>2, <2>4 DEF KnownAt
    <3> DEFINE m == Header(Message)
    <3>2. \/ Learned = mac_to_port[s]
          \/ /\ m.eth_src \notin DOMAIN mac_to_port[s]
             /\ Learned = [h \in DOMAIN mac_to_port[s] \cup {m.eth_src} |->
                             IF h = m.eth_src THEN m.in_port ELSE mac_to_port[s][h]]
      BY <2>4 DEF Learned, Learn
    <3> HIDE DEF m
    <3> QED BY <1>3, <2>4, <3>1, <3>2 DEF KnownAt, m
  <2> QED BY <2>3, <2>4
<1> QED BY <1>1, <1>2, <1>3

\* In other steps nothing is learned.
LEMMA LearnedBefore ==
  ASSUME [Next]_vars, ~(OfController(ControllerStep) /\ ControllerServes)
  PROVE  UNCHANGED mac_to_port
<1>1. (\E s \in Switch : MessageArrives(s)) => UNCHANGED mac_to_port
  BY DEF MessageArrives
<1> QED BY <1>1 DEF Next, vars, controllerVars, HostStep, OfSwitch, OfController,
                    ControllerStep

\* What is known stays known.
LEMMA KnownStays ==
  ASSUME Inv, [Next]_vars, NEW s \in Switch, NEW d, NEW p, KnownAt(s, d, p)
  PROVE  KnownAt(s, d, p)'
<1>1. CASE UNCHANGED mac_to_port
  BY <1>1 DEF KnownAt
<1>2. CASE ControllerStep
  <2> DEFINE m == [eth_dst |-> d]
  <2>1. Agrees(s, m, p)
    BY DEF KnownAt, Agrees
  <2>2. Agrees(s, m, p)'
    BY <1>2, <2>1, LearnedStay
  <2> QED BY <2>2 DEF KnownAt, Agrees
<1> QED BY <1>1, <1>2, LearnedBefore DEF OfController

\* The message that the controller serves is the first in its queue.
LEMMA MessageFirst ==
  ASSUME Inv, NEW types, Processes(types)
  PROVE  /\ Contents(ctrl) \in Seq(Item) /\ Contents(ctrl) # <<>>
         /\ Head(Contents(ctrl)).from = From
         /\ Head(Contents(ctrl)).msg = Message
         /\ Head(Contents(ctrl)) \in Item
         /\ Contents(Finish(ctrl)) = Tail(Contents(ctrl))
<1>1. /\ ctrl \in QueueOf(Item) /\ WorkConserving(ctrl)
      /\ Contents(ctrl) \in Seq(Item) /\ ctrl.event # <<>>
  BY ChannelTypes DEF Processes
<1>2. /\ Contents(Finish(ctrl)) = Tail(Contents(ctrl))
      /\ Head(ctrl.event) = Head(Contents(ctrl))
  BY <1>1, FinishIsFirst
<1>3. Contents(ctrl) # <<>>
  BY <1>1, ConcatEqualIffEmpty, QueueFields DEF Contents
<1>4. Head(Contents(ctrl)) \in Item
  BY <1>1, <1>3, ElemsTail
<1> QED BY <1>1, <1>2, <1>3, <1>4 DEF From, Message

\* It tells of a frame that comes on the port in its header.
LEMMA MessageComing ==
  ASSUME Inv, Processes(UpTypes), Message.type \in PacketIns,
         NEW T, Header(Message) \in T, NEW p
  PROVE  /\ Head(Contents(ctrl)) \in InQueue(From, T)
         /\ HasQueued(From, T)
         /\ Coming(From, p, T)
<1>1. /\ Contents(ctrl) \in Seq(Item) /\ Contents(ctrl) # <<>>
      /\ Head(Contents(ctrl)).from = From
      /\ Head(Contents(ctrl)).msg = Message
      /\ Head(Contents(ctrl)) \in Item
  BY MessageFirst
<1>2. Head(Contents(ctrl)) \in InQueue(From, T)
  <2>1. Message \in UpMessage
    BY ServedWaits
  <2> QED BY <1>1, <2>1 DEF InQueue, InUp
<1>3. HasQueued(From, T)
  BY <1>1, <1>2, HasLess DEF HasQueued
<1> QED BY <1>2, <1>3 DEF Coming

\* What the controller learns is behind the port.
LEMMA NextLearned ==
  ASSUME NEW B
  PROVE  /\ Inv /\ ClaimInv /\ AllPlaced(B) /\ LearnedBehind(B) /\ [Next]_vars
         => LearnedBehind(B)'
<1> SUFFICES ASSUME Inv, ClaimInv, AllPlaced(B), LearnedBehind(B), [Next]_vars,
                    NEW s \in Switch, NEW d, NEW p, KnownAt(s, d, p)'
             PROVE  p \in OpenPorts(s) /\ d \in B[s][p]
  BY DEF LearnedBehind, OpenPorts, Connected
<1>1. CASE KnownAt(s, d, p)
  BY <1>1 DEF LearnedBehind
<1>2. CASE ~KnownAt(s, d, p)
  <2>1. ControllerServes
    BY <1>2, LearnedBefore DEF KnownAt
  <2>2. /\ s = From /\ Message.type \in PacketIns
        /\ Header(Message).eth_src = d /\ Header(Message).in_port = p
    BY <1>2, <2>1, LearnedAfter
  <2>3. Message \in Waiting(s)
    BY <2>1, <2>2, ControllerReplies, ServedWaits
  <2>4. Placed(B, s, Header(Message))
    BY <2>2, <2>3, WaitingPlaced
  <2> QED BY <2>2, <2>4 DEF Placed
<1> QED BY <1>1, <1>2

\* The frame that packet-out m sends.
OutFrame(s, m) ==
  IF m.type = "PACKET_OUT" THEN buffer[s].pending_msgs[m.buffer_id] ELSE m.frame

PacketOuts == {"PACKET_OUT", "PACKET_OUT_FULL"}

\* A decision on a frame, or its header, is sound at s: its source is known on
\* the port it came in on, and it floods, or sends the frame to the port where
\* its destination is known, which is another.
Sound(s, x, port) ==
  /\ KnownAt(s, x.eth_src, x.in_port)
  /\ port # FloodPort => KnownAt(s, x.eth_dst, port) /\ port # x.in_port

MessageSound(s, m) ==
  /\ m.type = "FLOW_MOD" => Sound(s, m.match, m.outport)
  /\ m.type \in PacketOuts => Sound(s, OutFrame(s, m), m.outport)

DecisionsSound ==
  \A s \in Switch :
    /\ \A e \in Elems(entry_map[s]) : Sound(s, e.match, e.outport)
    /\ \A m \in Elems(toSwitch[s]) : MessageSound(s, m)

\* On the way from a port to the controller no frame for a host is behind one
\* from it, and there is none once the host is known at the port.
SourcesLast ==
  \A s \in Switch, p \in Port : \A d :
    /\ InOrder(s, p, SrcAt(d, p), DstAt(d, p))
    /\ KnownAt(s, d, p) => ~Coming(s, p, DstAt(d, p))

\* At its switch, a host is known on the port that a frame from it comes in on.
LEMMA SourceKnown ==
  ASSUME Behavior = "Switch", NEW B, HostsDivided(B), Inv, ClaimInv, AllPlaced(B),
         LearnedBehind(B), [Next]_vars, ControllerServes, Message.type \in PacketIns,
         NEW s, s = From, NEW m, m = Header(Message)
  PROVE  /\ KnownAt(s, m.eth_src, m.in_port)'
         /\ mac_to_port'[s] = Learned
         /\ s \in Switch
         /\ m.eth_src # m.eth_dst
<1>1. /\ s \in Switch /\ Processes(UpTypes)
      /\ mac_to_port' = [mac_to_port EXCEPT ![s] = Learned]
  BY ControllerReplies
<1>2. mac_to_port = [x \in Switch |-> mac_to_port[x]]
  BY DEF Inv, ControllerInv, ControllerTypeOK
<1>3. mac_to_port'[s] = Learned
  BY <1>1, <1>2
<1>4. Message \in Waiting(s)
  BY <1>1, ServedWaits
<1>5. Placed(B, s, m)
  BY <1>1, <1>4, WaitingPlaced
<1>6. CASE m.eth_src \notin DOMAIN mac_to_port[s]
  <2>1. Learned = [h \in DOMAIN mac_to_port[s] \cup {m.eth_src} |->
                     IF h = m.eth_src THEN m.in_port ELSE mac_to_port[s][h]]
    BY <1>6 DEF Learned, Learn
  <2>2. m.eth_src \in DOMAIN Learned /\ Learned[m.eth_src] = m.in_port
    BY <2>1
  <2>3. KnownAt(s, m.eth_src, m.in_port)'
    BY <1>3, <2>2 DEF KnownAt
  <2> QED BY <1>1, <1>3, <1>5, <2>3 DEF Placed
<1>7. CASE m.eth_src \in DOMAIN mac_to_port[s]
  <2>1. PICK q : q = mac_to_port[s][m.eth_src]
    OBVIOUS
  <2>2. KnownAt(s, m.eth_src, q)
    BY <1>7, <2>1 DEF KnownAt
  <2>3. q \in OpenPorts(s) /\ m.eth_src \in B[s][q]
    BY <1>1, <2>2 DEF LearnedBehind
  <2>4. m.in_port \in OpenPorts(s) /\ m.eth_src \in B[s][m.in_port]
    BY <1>5 DEF Placed
  <2>5. q = m.in_port
    BY <1>1, <2>3, <2>4 DEF HostsDivided
  <2>6. KnownAt(s, m.eth_src, m.in_port)'
    BY <1>1, <2>2, <2>5, KnownStays
  <2> QED BY <1>1, <1>3, <1>5, <2>6 DEF Placed
<1> QED BY <1>6, <1>7

\* What Switch.cc decides on a header is sound for all frames with its fields.
LEMMA DecisionSound ==
  ASSUME Behavior = "Switch", NEW B, HostsDivided(B), Inv, ClaimInv, FlowsNormal,
         AllPlaced(B), LearnedBehind(B), SourcesLast, [Next]_vars,
         ControllerServes, Message.type \in PacketIns,
         NEW s, s = From, NEW m, m = Header(Message), NEW port,
         port = FloodPort \/ (m.eth_dst \in DOMAIN Learned /\ port = Learned[m.eth_dst]),
         NEW x, x.eth_src = m.eth_src, x.eth_dst = m.eth_dst, x.in_port = m.in_port
  PROVE  Sound(s, x, port)'
<1>1. /\ KnownAt(s, x.eth_src, x.in_port)'
      /\ mac_to_port'[s] = Learned
      /\ s \in Switch
      /\ m.eth_src # m.eth_dst
  BY SourceKnown
<1>2. Processes(UpTypes)
  BY ControllerReplies
<1>3. m \in Match
  BY <1>2, HeaderIsPlain
<1>4. ASSUME port # FloodPort
      PROVE  KnownAt(s, x.eth_dst, port)' /\ port # x.in_port
  <2>1. KnownAt(s, x.eth_dst, port)'
    BY <1>1, <1>4 DEF KnownAt
  <2>2. KnownAt(s, x.eth_dst, port)
    BY <1>1, <2>1, LearnedAfter
  <2>3. ASSUME port = x.in_port PROVE FALSE
    <3>1. port \in Port
      BY <1>3, <2>3 DEF Match
    <3>2. ~Coming(s, port, DstAt(x.eth_dst, port))
      BY <1>1, <2>2, <3>1 DEF SourcesLast
    <3>3. m \in DstAt(x.eth_dst, port)
      BY <1>3, <2>3 DEF DstAt
    <3> QED BY <1>2, <3>2, <3>3, MessageComing
  <2> QED BY <2>1, <2>3
<1> QED BY <1>1, <1>4 DEF Sound

\* The frame that the packet-out sends which answers a packet-in is the frame
\* that the packet-in told of.
LEMMA AnswerFrame ==
  ASSUME Inv, ClaimInv, Processes(UpTypes), Message.type \in PacketIns,
         UNCHANGED buffer, NEW t, t = From, NEW port,
         NEW m, m = PacketOut(Message, port)
  PROVE  ExtractMatch(OutFrame(t, m)') = Header(Message)
<1>1. CASE Message.type = "PACKET_IN_FULL"
  <2>1. m = PacketOutFrame(Message.frame, port)
    BY <1>1 DEF PacketOut
  <2>2. m.type # "PACKET_OUT" /\ m.frame = Message.frame
    BY <2>1 DEF PacketOutFrame
  <2> QED BY <1>1, <2>2 DEF Header, OutFrame
<1>2. CASE Message.type = "PACKET_IN"
  <2>1. m = PacketOutHeader(Message.buffer_id, port)
    BY <1>2 DEF PacketOut
  <2>2. m.type = "PACKET_OUT" /\ m.buffer_id = Message.buffer_id
    BY <2>1 DEF PacketOutHeader
  <2>3. t \in Switch /\ Message \in Waiting(t)
    BY ServedWaits
  <2>4. PICK f : f = buffer[t].pending_msgs[m.buffer_id]
    OBVIOUS
  <2>5. Message = PacketInHeader(m.buffer_id, f)
    BY <1>2, <2>2, <2>3, <2>4 DEF ClaimInv, Described, Describes
  <2>6. Message.match = ExtractMatch(f) /\ OutFrame(t, m)' = f
    BY <2>2, <2>4, <2>5 DEF OutFrame, PacketInHeader
  <2>7. Header(Message) = Message.match
    BY <1>2 DEF Header
  <2> QED BY <2>6, <2>7
<1> QED BY <1>1, <1>2 DEF PacketIns

\* The messages with which it answers are sound.
LEMMA RepliesSound ==
  ASSUME Behavior = "Switch", NEW B, HostsDivided(B), Inv, ClaimInv, FlowsNormal,
         AllPlaced(B), LearnedBehind(B), SourcesLast, [Next]_vars,
         ControllerServes, UNCHANGED buffer,
         NEW t \in Switch, NEW m \in Elems(TheReply[t])
  PROVE  MessageSound(t, m)'
<1>1. Processes(UpTypes) /\ Message.type \in UpTypes
  BY ControllerReplies
<1>2. CASE m = FeaturesRequest
  BY <1>2 DEF FeaturesRequest, MessageSound, PacketOuts
<1>3. PICK hdr : hdr = Header(Message)
  OBVIOUS
<1>4. ASSUME Message.type \in PacketIns, t = From,
             NEW port, port = FloodPort
                       \/ (hdr.eth_dst \in DOMAIN Learned /\ port = Learned[hdr.eth_dst]),
             m = FlowMod(hdr, port) \/ m = PacketOut(Message, port)
      PROVE  MessageSound(t, m)'
  <2>1. ASSUME NEW x, x.eth_src = hdr.eth_src, x.eth_dst = hdr.eth_dst,
               x.in_port = hdr.in_port
        PROVE  Sound(t, x, port)'
    BY <1>3, <1>4, <2>1, DecisionSound
  <2>2. CASE m = FlowMod(hdr, port)
    <3>1. Sound(t, hdr, port)'
      BY <2>1
    <3> QED BY <2>2, <3>1 DEF FlowMod, MessageSound, PacketOuts
  <2>3. CASE m = PacketOut(Message, port)
    <3>1. /\ m.type \in PacketOuts
          /\ m.outport = port
      BY <2>3 DEF PacketOut, PacketOutFrame, PacketOutHeader, PacketOuts
    <3>2. ExtractMatch(OutFrame(t, m)') = hdr
      BY <1>1, <1>3, <1>4, <2>3, AnswerFrame
    <3>3. PICK x : x = OutFrame(t, m)'
      OBVIOUS
    <3>4. x.eth_src = hdr.eth_src /\ x.eth_dst = hdr.eth_dst /\ x.in_port = hdr.in_port
      BY <3>2, <3>3 DEF ExtractMatch
    <3>5. Sound(t, x, port)'
      BY <2>1, <3>4
    <3>6. Sound(t, OutFrame(t, m), port)'
      BY <3>3, <3>5 DEF Sound, KnownAt
    <3> QED BY <3>1, <3>6 DEF MessageSound, PacketOuts
  <2> QED BY <1>4, <2>2, <2>3
<1>5. \/ m = FeaturesRequest
      \/ /\ Message.type \in PacketIns
         /\ m = PacketOut(Message, FloodPort)
      \/ /\ Message.type \in PacketIns
         /\ t = From
         /\ hdr.eth_dst \in DOMAIN Learned
         /\ \E p : p = Learned[hdr.eth_dst]
                   /\ m \in {FlowMod(hdr, p), PacketOut(Message, p)}
  BY <1>1, <1>3, Replies
<1>6. ASSUME m # FeaturesRequest PROVE t = From
  <2>1. ASSUME NEW ms, m \in Elems(Only(From, ms)[t]) PROVE t = From
    BY <2>1, ElemsShort DEF Only
  <2>2. CASE Message.type = "ESTABLISHED"
    BY <2>1, <2>2 DEF TheReply
  <2>3. CASE Message.type = "FEATURES_REPLY"
    <3>1. TheReply[t] = <<>>
      BY <2>3 DEF TheReply
    <3> QED BY <3>1, ElemsShort
  <2>4. CASE Message.type \in PacketIns
    <3>1. TheReply[t] = Only(From, Decision(Learned, Message))[t]
      BY <2>4 DEF TheReply, PacketIns
    <3> QED BY <2>1, <3>1
  <2> QED BY <1>1, <2>2, <2>3, <2>4 DEF UpTypes
<1> QED BY <1>2, <1>4, <1>5, <1>6

\* While a packet-out is under way, the frame it sends stays the same.
LEMMA OutFrameKept ==
  ASSUME Inv, IdsLeft, ClaimInv, FramesThere, FramesThere', NEW s \in Switch,
         SwitchStep(s), NEW t \in Switch, NEW m \in Elems(toSwitch'[t])
  PROVE  OutFrame(t, m)' = OutFrame(t, m)
<1>1. CASE m.type = "PACKET_OUT"
  <2>1. m \in Elems(toSwitch[t])
    BY DownOfSwitch
  <2>2. /\ m.buffer_id \in DOMAIN buffer[t].pending_msgs
        /\ m.buffer_id \in DOMAIN buffer'[t].pending_msgs
    BY <1>1, <2>1 DEF FramesThere
  <2>3. buffer'[t].pending_msgs[m.buffer_id] = buffer[t].pending_msgs[m.buffer_id]
    BY <2>2, BufferedKept
  <2> QED BY <1>1, <2>3 DEF OutFrame
<1>2. CASE m.type # "PACKET_OUT"
  BY <1>2 DEF OutFrame
<1> QED BY <1>1, <1>2

\* A flow entry that was not there comes from the flow modification received.
LEMMA EntriesAfter ==
  ASSUME Inv, NEW s \in Switch, SwitchStep(s), NEW t \in Switch,
         NEW e \in Elems(entry_map'[t]), e \notin Elems(entry_map[t])
  PROVE  /\ t = s
         /\ Received(s) \in Elems(toSwitch[s]) /\ Received(s).type = "FLOW_MOD"
         /\ e.match = Received(s).match /\ e.outport = Received(s).outport
<1>1. CASE UNCHANGED <<entry_map, timers>>
  BY <1>1
<1>2. CASE handleFlowMod(s)
  <2> DEFINE r == Received(s)
             n == [match |-> r.match, outport |-> r.outport]
  <2>1. /\ r \in Elems(toSwitch[s]) /\ r.type = "FLOW_MOD"
        /\ t # s => entry_map'[t] = entry_map[t]
        /\ entry_map'[s] \in Seq(Entry)
        /\ \E k : Grown(entry_map[s], entry_map'[s], k) /\ entry_map'[s][k] = n
    BY <1>2, FlowModified
  <2>2. n.match = r.match /\ n.outport = r.outport
    OBVIOUS
  <2> HIDE DEF r, n
  <2>3. Elems(entry_map'[s]) = Elems(entry_map[s]) \cup {n}
    BY <2>1, TableTypes, GrownElems
  <2> QED BY <2>1, <2>2, <2>3 DEF r
<1>3. CASE FlowTimer(s)
  <2>1. /\ t # s => entry_map'[t] = entry_map[t]
        /\ entry_map'[s] \in Seq(Entry)
        /\ \/ entry_map'[s] = entry_map[s]
           \/ \E k : Grown(entry_map'[s], entry_map[s], k)
    BY <1>3, TimerFired
  <2>2. Elems(entry_map'[s]) \subseteq Elems(entry_map[s])
    BY <2>1, TableTypes, GrownElems
  <2> QED BY <2>1, <2>2
<1> QED BY <1>1, <1>2, <1>3, TableSteps

\* Every step keeps the decisions sound.
LEMMA NextSound ==
  ASSUME Behavior = "Switch", NEW B, HostsDivided(B)
  PROVE  /\ Inv /\ IdsLeft /\ ClaimInv /\ FlowsNormal /\ FramesThere /\ FramesThere'
         /\ AllPlaced(B) /\ LearnedBehind(B) /\ SourcesLast /\ DecisionsSound
         /\ [Next]_vars
         => DecisionsSound'
<1> SUFFICES ASSUME Inv, IdsLeft, ClaimInv, FlowsNormal, FramesThere, FramesThere',
                    AllPlaced(B), LearnedBehind(B), SourcesLast, DecisionsSound,
                    [Next]_vars
             PROVE  DecisionsSound'
  OBVIOUS
<1>1. ASSUME NEW s \in Switch, NEW x, NEW port, Sound(s, x, port)
      PROVE  Sound(s, x, port)'
  BY <1>1, KnownStays DEF Sound
<1>2. ASSUME UNCHANGED <<toSwitch, entry_map, buffer>>
      PROVE  DecisionsSound'
  <2>1. ASSUME NEW s \in Switch, NEW m \in Elems(toSwitch[s]) PROVE MessageSound(s, m)'
    <3>1. MessageSound(s, m) /\ OutFrame(s, m)' = OutFrame(s, m)
      BY <1>2 DEF DecisionsSound, OutFrame
    <3> QED BY <1>1, <3>1, KnownStays DEF MessageSound, Sound
  <2> QED BY <1>1, <1>2, <2>1 DEF DecisionsSound
<1>3. CASE HostStep
  BY <1>2, <1>3 DEF HostStep, switchVars, channelVars
<1>4. CASE UNCHANGED vars
  BY <1>2, <1>4 DEF vars, switchVars, channelVars
<1>5. ASSUME NEW s \in Switch, OfSwitch(SwitchStep(s)) PROVE DecisionsSound'
  <2>1. SwitchStep(s)
    BY <1>5 DEF OfSwitch
  <2>2. ASSUME NEW t \in Switch, NEW m \in Elems(toSwitch'[t])
        PROVE  MessageSound(t, m)'
    <3>1. m \in Elems(toSwitch[t]) /\ MessageSound(t, m)
      BY <2>1, <2>2, DownOfSwitch DEF DecisionsSound
    <3>2. OutFrame(t, m)' = OutFrame(t, m)
      BY <2>1, <2>2, OutFrameKept
    <3> QED BY <1>1, <3>1, <3>2, KnownStays DEF MessageSound, Sound
  <2>3. ASSUME NEW t \in Switch, NEW e \in Elems(entry_map'[t])
        PROVE  Sound(t, e.match, e.outport)
    <3>1. CASE e \in Elems(entry_map[t])
      BY <3>1 DEF DecisionsSound
    <3>2. CASE e \notin Elems(entry_map[t])
      BY <2>1, <3>2, EntriesAfter DEF DecisionsSound, MessageSound
    <3> QED BY <3>1, <3>2
  <2> QED BY <1>1, <2>2, <2>3 DEF DecisionsSound
<1>6. CASE OfController(ControllerStep)
  <2>1. ControllerStep /\ UNCHANGED <<entry_map, buffer>>
    BY <1>6 DEF OfController, switchVars
  <2>2. ASSUME NEW t \in Switch, NEW m \in Elems(toSwitch'[t])
        PROVE  MessageSound(t, m)'
    <3>1. \/ m \in Elems(toSwitch[t])
          \/ ControllerServes /\ m \in Elems(TheReply[t])
      BY <2>1, <2>2, DownOfController
    <3>2. CASE m \in Elems(toSwitch[t])
      <4>1. MessageSound(t, m) /\ OutFrame(t, m)' = OutFrame(t, m)
        BY <2>1, <3>2 DEF DecisionsSound, OutFrame
      <4> QED BY <1>1, <4>1, KnownStays DEF MessageSound, Sound
    <3>3. CASE ControllerServes /\ m \in Elems(TheReply[t])
      BY <2>1, <3>3, RepliesSound
    <3> QED BY <3>1, <3>2, <3>3
  <2> QED BY <1>1, <2>1, <2>2 DEF DecisionsSound
<1> QED BY <1>3, <1>4, <1>5, <1>6 DEF Next

\* Messages by which a switch sends frames from d, or lets frames from d pass;
\* packet-outs that flood a frame for d.
DecidesFrom(s, d) ==
  {m \in DownMessage : \/ m.type = "FLOW_MOD" /\ m.match.eth_src = d
                       \/ m.type \in PacketOuts /\ OutFrame(s, m).eth_src = d}

FloodsTo(s, d) ==
  {m \in DownMessage : /\ m.type \in PacketOuts /\ m.outport = FloodPort
                       /\ OutFrame(s, m).eth_dst = d}

\* Why a switch puts a frame on port r: it knows the destination there, or the
\* packet-out floods the frame.
ReasonToSend(s, f, r) ==
  \/ KnownAt(s, f.eth_dst, r)
  \/ Has(toSwitch[s], FloodsTo(s, f.eth_dst))

\* A frame that hits is one whose header an entry has as its match.
LEMMA EntryHit ==
  ASSUME Behavior = "Switch", Inv, FlowsNormal, NEW s \in Switch, NEW f \in Frame,
         NEW ps, TableSends(s, f, ps)
  PROVE  \E e \in Elems(entry_map[s]) :
           e \in Entry /\ e.match = ExtractMatch(f) /\ ps = {e.outport}
<1> DEFINE x == ExtractMatch(f)
           i == FirstHit(entry_map[s], x)
           e == entry_map[s][i]
<1>1. entry_map[s] \in Seq(Entry) /\ lookup(entry_map[s], x)
  BY TableTypes DEF TableSends, Miss
<1>2. i \in DOMAIN entry_map[s] /\ Hits(entry_map[s], x, i)
  BY <1>1, FirstHitHits
<1>3. ps = {e.outport} /\ e \in Elems(entry_map[s]) /\ e \in Entry
  BY <1>1, <1>2 DEF TableSends, returnAction, Elems
<1>4. Normal(e.match)
  BY <1>3 DEF FlowsNormal
<1>5. flow_fields_match(x, e.match, e.match.wildcards)
  BY <1>2 DEF Hits
<1>6. x \in Match /\ Normal(x)
  BY ExtractedMatch DEF Normal, ExtractMatch
<1> HIDE DEF e, x
<1>7. x = e.match
  BY <1>3, <1>4, <1>5, <1>6, NormalHits DEF Entry
<1> QED BY <1>3, <1>7 DEF x

\* A switch that has no unsound decision sends frames from hosts it knows, to
\* other open ports than the one they came in on.
LEMMA SendsSoundly ==
  ASSUME Behavior = "Switch", Inv, FlowsNormal, NEW B, LearnedBehind(B),
         DecisionsSound, NEW s \in Switch, NEW f \in Frame, NEW ps,
         TableSends(s, f, ps) \/ MessageSends(s, f, ps), NEW r \in ps
  PROVE  /\ r \in OpenPorts(s) /\ r # f.in_port
         /\ KnownAt(s, f.eth_src, f.in_port)
         /\ ReasonToSend(s, f, r)
<1>1. CASE TableSends(s, f, ps)
  <2>1. PICK e \in Elems(entry_map[s]) :
          e \in Entry /\ e.match = ExtractMatch(f) /\ ps = {e.outport}
    BY <1>1, EntryHit
  <2>2. Sound(s, e.match, e.outport)
    BY DEF DecisionsSound
  <2>3. Sound(s, f, e.outport)
    BY <2>1, <2>2 DEF Sound, ExtractMatch
  <2>4. e.outport # FloodPort /\ r = e.outport
    BY <2>1, FloodPortAssumption DEF Entry
  <2> QED BY <2>3, <2>4 DEF Sound, ReasonToSend, LearnedBehind
<1>2. CASE MessageSends(s, f, ps)
  <2>1. PICK m \in Elems(toSwitch[s]) :
          /\ \/ /\ m.type = "PACKET_OUT" /\ m.outport # AnyPort
                /\ m.buffer_id \in DOMAIN buffer[s].pending_msgs
                /\ f = buffer[s].pending_msgs[m.buffer_id]
             \/ m.type = "PACKET_OUT_FULL" /\ f = m.frame
          /\ ps = OutPorts(s, f, m.outport)
    BY <1>2 DEF MessageSends
  <2>2. m.type \in PacketOuts /\ f = OutFrame(s, m)
    BY <2>1 DEF PacketOuts, OutFrame
  <2>3. Sound(s, f, m.outport)
    BY <2>2 DEF DecisionsSound, MessageSound
  <2>4. CASE m.outport = FloodPort
    <3>1. r \in Connected(s) \ ({f.in_port} \cup DisabledPorts[s])
      BY <2>1, <2>4 DEF OutPorts
    <3>2. m \in DownMessage
      BY ChannelTypes DEF Elems
    <3>3. m \in FloodsTo(s, f.eth_dst)
      BY <2>2, <2>4, <3>2 DEF FloodsTo
    <3>4. Has(toSwitch[s], FloodsTo(s, f.eth_dst))
      BY <2>1, <3>3 DEF Has
    <3> QED BY <2>3, <3>1, <3>4 DEF Sound, ReasonToSend, OpenPorts
  <2>5. CASE m.outport # FloodPort
    <3>1. r = m.outport
      BY <2>1, <2>5 DEF OutPorts
    <3> QED BY <2>3, <2>5, <3>1 DEF Sound, ReasonToSend, LearnedBehind
  <2> QED BY <2>4, <2>5
<1> QED BY <1>1, <1>2

\* Frames stay where their hosts are behind them.
LEMMA NextPlaced ==
  ASSUME Behavior = "Switch", NEW B, HostsDivided(B), LinksMatch(B)
  PROVE  /\ Inv /\ FlowsNormal /\ LearnedBehind(B) /\ DecisionsSound
         /\ AllPlaced(B) /\ [Next]_vars
         => AllPlaced(B)'
<1> SUFFICES ASSUME Inv, FlowsNormal, LearnedBehind(B), DecisionsSound, AllPlaced(B),
                    [Next]_vars, NEW t \in Switch, NEW g \in FramesAt(t)',
                    g \notin FramesAt(t)
             PROVE  Placed(B, t, g)
  BY DEF AllPlaced, Placed, OpenPorts, Connected
<1>1. CASE UNCHANGED vars
  <2>1. FramesAt(t)' = FramesAt(t)
    BY <1>1 DEF vars, linkVars, switchVars, channelVars, controllerVars, FramesAt,
                OnWires, Buffered, Waiting
  <2> QED BY <2>1
<1>2. CASE HostStep
  <2>1. /\ g.eth_src # g.eth_dst /\ g.in_port \in Port /\ g.eth_src \in Host
        /\ Peer[t][g.in_port] = HostEnd(g.eth_src)
    BY <1>2, FramesOfHosts
  <2> QED BY <2>1 DEF LinksMatch, Placed
<1>3. ASSUME NEW s \in Switch, OfSwitch(SwitchStep(s))
      PROVE  Placed(B, t, g)
  <2>1. SwitchStep(s) /\ UNCHANGED controllerVars
    BY <1>3 DEF OfSwitch
  <2>2. PICK f \in FramesAt(s) \cap Frame : \E ps :
          /\ TableSends(s, f, ps) \/ MessageSends(s, f, ps)
          /\ CopyFor(s, f, ps, t, g)
    BY <2>1, FramesOfSwitch
  <2>3. PICK ps : /\ TableSends(s, f, ps) \/ MessageSends(s, f, ps)
                  /\ CopyFor(s, f, ps, t, g)
    BY <2>2
  <2>4. PICK r \in ps, q \in Port :
          Peer[s][r] = SwitchEnd(t, q) /\ g = [f EXCEPT !.in_port = q]
    BY <2>3 DEF CopyFor
  <2>5. g.eth_src = f.eth_src /\ g.eth_dst = f.eth_dst /\ g.in_port = q
    BY <2>4 DEF Frame
  <2>6. r \in OpenPorts(s) /\ r # f.in_port
    BY <2>3, SendsSoundly
  <2>7. r \in Port
    BY <2>6 DEF OpenPorts, Connected
  <2>8. Peer[t][q] = SwitchEnd(s, r) /\ q \in OpenPorts(t)
    BY <2>4, <2>6, <2>7 DEF LinksMatch
  <2>9. Placed(B, s, f)
    BY DEF AllPlaced
  <2>10. B[s][f.in_port] \subseteq B[t][q]
    BY <2>6, <2>7, <2>8, <2>9 DEF HostsDivided, Placed
  <2> QED BY <2>5, <2>8, <2>9, <2>10 DEF Placed
<1>4. CASE OfController(ControllerStep)
  <2>1. ControllerStep /\ UNCHANGED <<linkVars, switchVars>>
    BY <1>4 DEF OfController
  <2> QED BY <2>1, FramesOfController
<1> QED BY <1>1, <1>2, <1>3, <1>4 DEF Next

\* All frames on a link have the number of its end.
LEMMA NextOwn == Inv /\ WiresOwn /\ [Next]_vars => WiresOwn'
<1> SUFFICES ASSUME Inv, WiresOwn, [Next]_vars, NEW s \in Switch, NEW p \in Port,
                    NEW g \in Elems(wire'[s][p])
             PROVE  g.in_port = p
  BY DEF WiresOwn
<1>1. wire[s][p] \in Seq(Frame)
  BY WayTypes
<1>2. ASSUME MayLeave(wire[s][p], wire'[s][p]) PROVE g.in_port = p
  <2>1. g \in Elems(wire[s][p])
    BY <1>1, <1>2, ElemsTail DEF MayLeave
  <2> QED BY <2>1 DEF WiresOwn
<1>3. ASSUME NEW f \in Frame, f.in_port = p, wire'[s][p] = Append(wire[s][p], f)
      PROVE  g.in_port = p
  <2>1. g \in Elems(wire[s][p]) \/ g = f
    BY <1>1, <1>3, ElemsAppended
  <2> QED BY <1>3, <2>1 DEF WiresOwn
<1>4. CASE UNCHANGED wire
  BY <1>2, <1>4 DEF MayLeave
<1>5. CASE HostStep
  <2>1. PICK x \in Switch, r \in Port, f \in Frame :
           f.in_port = r /\ wire' = [wire EXCEPT ![x][r] = Append(@, f)]
    BY <1>5, HostPuts
  <2>2. wire \in [Switch -> [Port -> Seq(Frame)]]
    BY PlaceTypes
  <2>3. wire'[s][p] = IF s = x /\ p = r THEN Append(wire[s][p], f) ELSE wire[s][p]
    BY <2>1, <2>2
  <2> QED BY <1>2, <1>3, <2>1, <2>3 DEF MayLeave
<1>6. ASSUME NEW x \in Switch, SwitchStep(x) PROVE g.in_port = p
  <2>1. CASE \E r \in Port : FrameArrives(x, r)
    BY <1>2, <2>1, ArrivalTakes
  <2>2. ASSUME NEW f \in Frame, NEW ps, Transmit(x, f, ps) PROVE g.in_port = p
    <3>1. CopyTo(f, p) \in Frame /\ CopyPutOn(x, f, ps, s, p)
      BY <2>2, CopyPut
    <3>2. CopyTo(f, p).in_port = p
      BY DEF CopyTo, Frame
    <3>3. wire'[s][p] = Append(wire[s][p], CopyTo(f, p)) \/ wire'[s][p] = wire[s][p]
      BY <3>1 DEF CopyPutOn
    <3> QED BY <1>2, <1>3, <3>1, <3>2, <3>3 DEF MayLeave
  <2> QED BY <1>4, <1>6, <2>1, <2>2, LinkSteps
<1> QED BY <1>4, <1>5, <1>6 DEF Next, vars, linkVars, OfSwitch, OfController

\* What a switch knows on the port at the end of a link, or is about to learn, is
\* known at the switch before.
UpstreamKnows ==
  \A s, t \in Switch, p, q \in Port : \A d :
    Peer[t][q] = SwitchEnd(s, p) /\ Heard(s, p, d) => d \in DOMAIN mac_to_port[t]

\* While a packet-out that floods a frame for d is under way to t, nothing that t
\* does before lets frames from d pass, and no switch has heard of d from t.
FloodsFirst ==
  \A t \in Switch : \A d :
    /\ NoneBehind(toSwitch[t], DecidesFrom(t, d), FloodsTo(t, d))
    /\ Has(toSwitch[t], FloodsTo(t, d)) =>
         /\ \A e \in Elems(entry_map[t]) : e.match.eth_src # d
         /\ \A s \in Switch, p, q \in Port :
              Peer[t][q] = SwitchEnd(s, p) => ~Heard(s, p, d)

\* If the first of a queue is in A and none of B is behind, none of B is there.
LEMMA HeadFirst ==
  ASSUME NEW S, NEW q \in Seq(S), q # <<>>, NEW A, NEW B, NoneBehind(q, A, B),
         Head(q) \in A, Head(q) \notin B
  PROVE  ~Has(q, B)
BY OrderLess, HasLess

\* The fields in a copy's header.
LEMMA CopyHeader ==
  ASSUME NEW f \in Frame, NEW p, NEW T, CopyTo(f, p) \in InFrames(T)
  PROVE  \E x \in T : /\ x.eth_src = f.eth_src /\ x.eth_dst = f.eth_dst
                      /\ x.in_port = p
<1>1. ExtractMatch(CopyTo(f, p)) \in T
  BY DEF InFrames
<1>2. /\ ExtractMatch(CopyTo(f, p)).eth_src = f.eth_src
      /\ ExtractMatch(CopyTo(f, p)).eth_dst = f.eth_dst
      /\ ExtractMatch(CopyTo(f, p)).in_port = p
  BY DEF ExtractMatch, CopyTo, Frame
<1> QED BY <1>1, <1>2

\* The switch t sends on port r, whose link ends at port p of s, a frame f that
\* has a header in T there.
PutOverLink(t, r, f, s, p, T) ==
  /\ SwitchStep(t)
  /\ \E ps : r \in ps /\ (TableSends(t, f, ps) \/ MessageSends(t, f, ps))
  /\ Peer[t][r] = SwitchEnd(s, p) /\ Peer[s][p] = SwitchEnd(t, r)
  /\ r \in OpenPorts(t) /\ KnownAt(t, f.eth_src, f.in_port)
  /\ ReasonToSend(t, f, r)
  /\ \E x \in T : x.eth_src = f.eth_src /\ x.eth_dst = f.eth_dst /\ x.in_port = p

\* A host sends a frame with header x to port p of s.
PutByHostAt(s, p, x) ==
  x.in_port = p /\ x.eth_src # x.eth_dst /\ Peer[s][p] = HostEnd(x.eth_src)

\* Who has put a frame on a link.
LEMMA WhoPuts ==
  ASSUME Behavior = "Switch", Inv, FlowsNormal, NEW B, LinksMatch(B),
         LearnedBehind(B), DecisionsSound, [Next]_vars,
         NEW s \in Switch, NEW p \in Port, NEW T, PutOn(s, p, T)
  PROVE  \/ \E x \in T : PutByHostAt(s, p, x)
         \/ \E t \in Switch, r \in Port, f \in Frame :
              f \in FramesAt(t) /\ PutOverLink(t, r, f, s, p, T)
<1>1. ~UNCHANGED wire
  BY PutByNone
<1>2. CASE HostStep
  <2>1. PICK g \in InFrames(T) : /\ g.in_port = p /\ g.eth_src # g.eth_dst
                                 /\ Peer[s][p] = HostEnd(g.eth_src)
    BY <1>2, PutByHost
  <2>2. ExtractMatch(g) \in T /\ PutByHostAt(s, p, ExtractMatch(g))
    BY <2>1 DEF InFrames, ExtractMatch, PutByHostAt
  <2> QED BY <2>2
<1>3. ASSUME NEW t \in Switch, SwitchStep(t)
      PROVE  \E r \in Port, f \in Frame :
               f \in FramesAt(t) /\ PutOverLink(t, r, f, s, p, T)
  <2>1. PICK f \in FramesAt(t) \cap Frame : \E ps : PutsCopy(t, f, ps, s, p, T)
    BY <1>3, PutBySwitch
  <2>2. PICK ps : PutsCopy(t, f, ps, s, p, T)
    BY <2>1
  <2>3. PICK r \in ps : Peer[t][r] = SwitchEnd(s, p)
    BY <2>2 DEF PutsCopy
  <2>4. TableSends(t, f, ps) \/ MessageSends(t, f, ps)
    BY <2>2 DEF PutsCopy
  <2>5. /\ r \in OpenPorts(t) /\ KnownAt(t, f.eth_src, f.in_port)
        /\ ReasonToSend(t, f, r)
    BY <2>4, SendsSoundly
  <2>6. r \in Port
    BY <2>5 DEF OpenPorts, Connected
  <2>7. Peer[s][p] = SwitchEnd(t, r)
    BY <2>3, <2>6 DEF LinksMatch
  <2>8. \E x \in T : /\ x.eth_src = f.eth_src /\ x.eth_dst = f.eth_dst
                     /\ x.in_port = p
    BY <2>2, CopyHeader DEF PutsCopy
  <2>9. PutOverLink(t, r, f, s, p, T)
    BY <1>3, <2>3, <2>4, <2>5, <2>7, <2>8 DEF PutOverLink
  <2> QED BY <2>6, <2>9
<1> QED BY <1>1, <1>2, <1>3 DEF Next, vars, linkVars, OfSwitch, OfController

\* No frame for a host goes to a port on which the host has been heard of.
LEMMA NotWhereHeard ==
  ASSUME Behavior = "Switch", Inv, ClaimInv, FlowsNormal, NEW B, LinksMatch(B),
         AllPlaced(B), LearnedBehind(B), DecisionsSound, FloodsFirst, [Next]_vars,
         NEW s \in Switch, NEW p \in Port, NEW d, PutOn(s, p, DstAt(d, p))
  PROVE  ~Heard(s, p, d)
<1> SUFFICES ASSUME Heard(s, p, d) PROVE FALSE
  OBVIOUS
<1>1. p \in OpenPorts(s) /\ d \in B[s][p]
  BY HeardBehind
<1>2. ASSUME NEW x \in DstAt(d, p), PutByHostAt(s, p, x) PROVE FALSE
  <2>1. x.eth_src \in Host /\ x.eth_dst = d
    BY DEF DstAt, Match
  <2> QED BY <1>1, <1>2, <2>1 DEF LinksMatch, PutByHostAt
<1>3. ASSUME NEW t \in Switch, NEW r \in Port, NEW f \in Frame,
             PutOverLink(t, r, f, s, p, DstAt(d, p))
      PROVE  FALSE
  <2>1. /\ Peer[t][r] = SwitchEnd(s, p) /\ Peer[s][p] = SwitchEnd(t, r)
        /\ ReasonToSend(t, f, r)
    BY <1>3 DEF PutOverLink
  <2>2. f.eth_dst = d
    BY <1>3 DEF PutOverLink, DstAt
  <2>3. CASE KnownAt(t, d, r)
    <3>1. d \in B[t][r]
      BY <2>3 DEF LearnedBehind
    <3>2. B[s][p] \cap B[t][r] = {}
      BY <1>1, <2>1 DEF LinksMatch
    <3> QED BY <1>1, <3>1, <3>2
  <2>4. CASE Has(toSwitch[t], FloodsTo(t, d))
    BY <2>1, <2>4 DEF FloodsFirst
  <2> QED BY <2>1, <2>2, <2>3, <2>4 DEF ReasonToSend
<1> QED BY <1>2, <1>3, WhoPuts

\* What a switch hears of comes over the link.
LEMMA HeardAfter ==
  ASSUME Inv, FlowsNormal, WiresOwn, [Next]_vars, NEW s \in Switch, NEW p \in Port,
         NEW d, Heard(s, p, d)'
  PROVE  Heard(s, p, d) \/ PutOn(s, p, SrcAt(d, p))
<1> DEFINE T == SrcAt(d, p)
<1>1. CASE Coming(s, p, T)'
  <2>1. OnPort(T, p)
    BY DEF OnPort, SrcAt
  <2>2. KeepsOrder(s, p, T, T)
    BY <2>1, StepKeepsOrder
  <2> QED BY <1>1, <2>2 DEF KeepsOrder, Heard
<1>2. CASE KnownAt(s, d, p)' /\ ~KnownAt(s, d, p)
  <2>1. ControllerServes
    BY <1>2, LearnedBefore DEF KnownAt
  <2>2. /\ s = From /\ Message.type \in PacketIns
        /\ Header(Message).eth_src = d /\ Header(Message).in_port = p
    BY <1>2, <2>1, LearnedAfter
  <2>3. Processes(UpTypes)
    BY <2>1, ControllerReplies
  <2>4. Header(Message) \in T
    BY <2>2, <2>3, HeaderIsPlain DEF SrcAt
  <2> QED BY <2>2, <2>3, <2>4, MessageComing DEF Heard
<1> QED BY <1>1, <1>2 DEF Heard

\* What a switch has learned or comes to learn keeps ahead of what is for the host.
LEMMA NextSourcesLast ==
  ASSUME Behavior = "Switch", NEW B, LinksMatch(B)
  PROVE  /\ Inv /\ ClaimInv /\ FlowsNormal /\ WiresOwn /\ AllPlaced(B)
         /\ LearnedBehind(B) /\ DecisionsSound /\ FloodsFirst /\ SourcesLast
         /\ [Next]_vars
         => SourcesLast'
<1> SUFFICES ASSUME Inv, ClaimInv, FlowsNormal, WiresOwn, AllPlaced(B),
                    LearnedBehind(B), DecisionsSound, FloodsFirst, SourcesLast,
                    [Next]_vars, NEW s \in Switch, NEW p \in Port, NEW d
             PROVE  /\ InOrder(s, p, SrcAt(d, p), DstAt(d, p))'
                    /\ KnownAt(s, d, p)' => ~Coming(s, p, DstAt(d, p))'
  BY DEF SourcesLast, SrcAt, DstAt
<1> DEFINE T == SrcAt(d, p)
           U == DstAt(d, p)
<1>1. OnPort(T, p) /\ OnPort(U, p)
  BY DEF OnPort, SrcAt, DstAt
<1>2. KeepsOrder(s, p, T, U) /\ KeepsOrder(s, p, U, U)
  BY <1>1, StepKeepsOrder
<1>3. PutOn(s, p, U) => ~Heard(s, p, d)
  BY NotWhereHeard
<1>4. InOrder(s, p, T, U) /\ (KnownAt(s, d, p) => ~Coming(s, p, U))
  BY DEF SourcesLast
<1> HIDE DEF T, U
<1>5. InOrder(s, p, T, U)'
  BY <1>2, <1>3, <1>4 DEF KeepsOrder, Heard, T
<1>6. ASSUME KnownAt(s, d, p)' PROVE ~Coming(s, p, U)'
  <2>1. CASE KnownAt(s, d, p)
    BY <1>2, <1>3, <1>4, <2>1 DEF KeepsOrder, Heard
  <2>2. CASE ~KnownAt(s, d, p)
    <3>1. ControllerServes
      BY <1>6, <2>2, LearnedBefore DEF KnownAt
    <3>2. /\ s = From /\ Message.type \in PacketIns
          /\ Header(Message).eth_src = d /\ Header(Message).in_port = p
      BY <1>6, <2>2, <3>1, LearnedAfter
    <3>3. Processes(UpTypes) /\ Message \in Waiting(s)
      BY <3>1, <3>2, ControllerReplies, ServedWaits
    <3>4. Header(Message) \in T
      BY <3>2, <3>3, HeaderIsPlain DEF SrcAt, T
    <3>5. /\ Head(Contents(ctrl)) \in InQueue(s, T)
          /\ HasQueued(s, T) /\ Coming(s, p, T)
      BY <3>2, <3>3, <3>4, MessageComing
    <3>6. Head(Contents(ctrl)) \notin InQueue(s, U)
      <4>1. Placed(B, s, Header(Message))
        BY <3>2, <3>3, WaitingPlaced
      <4>2. Header(Message) \notin U
        BY <3>2, <4>1 DEF Placed, DstAt, U
      <4>3. Head(Contents(ctrl)).msg = Message
        BY <3>3, MessageFirst
      <4> QED BY <4>2, <4>3 DEF InQueue, InUp
    <3>7. ~HasQueued(s, U)
      <4>1. Contents(ctrl) \in Seq(Item) /\ Contents(ctrl) # <<>>
        BY <3>3, MessageFirst
      <4>2. NoneBehind(Contents(ctrl), InQueue(s, T), InQueue(s, U))
        BY <1>4 DEF InOrder
      <4> QED BY <3>5, <3>6, <4>1, <4>2, HeadFirst DEF HasQueued
    <3>8. ~Coming(s, p, U)
      BY <1>4, <3>5, <3>7 DEF InOrder, Coming
    <3> QED BY <1>2, <1>3, <3>5, <3>8 DEF KeepsOrder, Heard, T
  <2> QED BY <2>1, <2>2
<1> QED BY <1>5, <1>6 DEF T, U, SrcAt, DstAt

\* A host of which a switch hears, at the end of a link, is the source of a frame
\* that the switch before it sends, and is known there.
LEMMA HeardOverLink ==
  ASSUME Behavior = "Switch", Inv, FlowsNormal, WiresOwn, NEW B, LinksMatch(B),
         LearnedBehind(B), DecisionsSound, [Next]_vars,
         NEW s \in Switch, NEW t \in Switch, NEW p \in Port, NEW q \in Port,
         Peer[t][q] = SwitchEnd(s, p), NEW d, Heard(s, p, d)', ~Heard(s, p, d)
  PROVE  \E f \in FramesAt(t) \cap Frame :
           /\ f.eth_src = d
           /\ KnownAt(t, d, f.in_port)
           /\ \E ps : TableSends(t, f, ps) \/ MessageSends(t, f, ps)
<1>1. PutOn(s, p, SrcAt(d, p))
  BY HeardAfter
<1>2. Peer[s][p] = SwitchEnd(t, q)
  BY DEF LinksMatch
<1>3. ASSUME NEW x \in SrcAt(d, p), PutByHostAt(s, p, x) PROVE FALSE
  BY <1>2, <1>3 DEF PutByHostAt, SwitchEnd, HostEnd
<1>4. PICK u \in Switch, r \in Port, f \in Frame :
        f \in FramesAt(u) /\ PutOverLink(u, r, f, s, p, SrcAt(d, p))
  BY <1>1, <1>3, WhoPuts
<1>5. u = t
  BY <1>2, <1>4 DEF PutOverLink, SwitchEnd
<1>6. f.eth_src = d
  BY <1>4 DEF PutOverLink, SrcAt
<1>7. /\ KnownAt(t, d, f.in_port)
      /\ \E ps : TableSends(t, f, ps) \/ MessageSends(t, f, ps)
  BY <1>4, <1>5, <1>6 DEF PutOverLink
<1> QED BY <1>4, <1>5, <1>6, <1>7

\* What a switch knows is known at the switch before.
LEMMA NextUpstream ==
  ASSUME Behavior = "Switch", NEW B, LinksMatch(B)
  PROVE  /\ Inv /\ FlowsNormal /\ WiresOwn /\ LearnedBehind(B)
         /\ DecisionsSound /\ UpstreamKnows /\ [Next]_vars
         => UpstreamKnows'
<1> SUFFICES ASSUME Inv, FlowsNormal, WiresOwn, LearnedBehind(B), DecisionsSound,
                    UpstreamKnows, [Next]_vars,
                    NEW s \in Switch, NEW t \in Switch, NEW p \in Port,
                    NEW q \in Port, NEW d, Peer[t][q] = SwitchEnd(s, p),
                    Heard(s, p, d)'
             PROVE  d \in DOMAIN mac_to_port'[t]
  BY DEF UpstreamKnows
<1>1. \E k : KnownAt(t, d, k)
  <2>1. CASE Heard(s, p, d)
    <3>1. d \in DOMAIN mac_to_port[t]
      BY <2>1 DEF UpstreamKnows
    <3> QED BY <3>1 DEF KnownAt
  <2>2. CASE ~Heard(s, p, d)
    BY <2>2, HeardOverLink
  <2> QED BY <2>1, <2>2
<1>2. PICK k : KnownAt(t, d, k)
  BY <1>1
<1>3. KnownAt(t, d, k)'
  BY <1>2, KnownStays
<1> QED BY <1>3 DEF KnownAt

\* What has been in order in a queue is so when the first has left it, and when
\* others than those of B have joined it.
LEMMA OrderInTail ==
  ASSUME NEW S, NEW q \in Seq(S), NEW r, MayLeave(q, r),
         NEW A, NEW B, NEW C, NEW D,
         \A m \in Elems(r) : (m \in C => m \in A) /\ (m \in D => m \in B)
  PROVE  /\ Has(r, D) => Has(q, B)
         /\ NoneBehind(q, A, B) => NoneBehind(r, C, D)
<1>1. /\ Has(r, B) => Has(q, B)
      /\ NoneBehind(q, A, B) => NoneBehind(r, A, B)
  BY LeavesInOrder
<1>2. Has(r, D) => Has(r, B)
  BY DEF Has
<1>3. NoneBehind(r, A, B) => NoneBehind(r, C, D)
  <2>1. \A i \in DOMAIN r : r[i] \in Elems(r)
    BY DEF Elems
  <2> QED BY <2>1 DEF NoneBehind
<1> QED BY <1>1, <1>2, <1>3

\* The second of these.
LEMMA OrderInConcat ==
  ASSUME NEW S, NEW q \in Seq(S), NEW ms \in Seq(S), NEW A, NEW B,
         \A m \in Elems(ms) : m \notin B
  PROVE  /\ Has(q \o ms, B) => Has(q, B)
         /\ NoneBehind(q, A, B) => NoneBehind(q \o ms, A, B)
<1> DEFINE r == q \o ms
<1>1. Elems(r) = Elems(q) \cup Elems(ms)
  BY ElemsConcat
<1>2. Has(r, B) => Has(q, B)
  BY <1>1 DEF Has
<1>3. ASSUME NoneBehind(q, A, B), NEW i \in DOMAIN r, NEW j \in DOMAIN r,
             i < j, r[i] \in A, r[j] \in B
      PROVE  FALSE
  <2>1. /\ Len(q) \in Nat /\ Len(ms) \in Nat /\ Len(r) = Len(q) + Len(ms)
        /\ DOMAIN q = 1..Len(q) /\ DOMAIN ms = 1..Len(ms)
        /\ DOMAIN r = 1..Len(r)
    OBVIOUS
  <2>2. CASE j > Len(q)
    <3>1. j - Len(q) \in DOMAIN ms /\ r[j] = ms[j - Len(q)]
      BY <2>1, <2>2
    <3> QED BY <1>3, <3>1 DEF Elems
  <2>3. CASE j <= Len(q)
    <3>1. i \in DOMAIN q /\ j \in DOMAIN q /\ r[i] = q[i] /\ r[j] = q[j]
      BY <1>3, <2>1, <2>3
    <3> QED BY <1>3, <3>1 DEF NoneBehind
  <2> QED BY <2>1, <2>2, <2>3
<1> QED BY <1>2, <1>3 DEF NoneBehind

\* A switch takes only the first message from its connection.
LEMMA DownMayLeave ==
  ASSUME Inv, NEW x \in Switch, SwitchStep(x), NEW t \in Switch
  PROVE  MayLeave(toSwitch[t], toSwitch'[t])
<1>1. UNCHANGED toSwitch \/ (toSwitch[x] # <<>> /\ Consume(x))
  <2>1. /\ connect(x) => UNCHANGED toSwitch
        /\ (\E p \in Port : FrameArrives(x, p)) => UNCHANGED toSwitch
        /\ FlowTimer(x) => UNCHANGED toSwitch
    BY DEF connect, FrameArrives, FlowTimer, channelVars
  <2>2. SwitchServes(x) => UNCHANGED toSwitch
    BY DEF SwitchServes, ForwardFrame, SendPacketIn, SendCompletePacketIn,
           PacketInOnClosedSocket, channelVars
  <2>3. SwitchReceives(x) =>
          UNCHANGED toSwitch \/ (toSwitch[x] # <<>> /\ Consume(x))
    BY DEF SwitchReceives, handleFeaturesRequest, handleFlowMod,
           handlePacketOut, dropBuffered, handleCompletePacketOut, Receives
  <2> QED BY <2>1, <2>2, <2>3 DEF SwitchStep
<1>2. CASE UNCHANGED toSwitch
  BY <1>2 DEF MayLeave
<1>3. CASE toSwitch[x] # <<>> /\ Consume(x)
  <2>1. toSwitch'[t] = IF t = x THEN Tail(toSwitch[x]) ELSE toSwitch[t]
    BY <1>3, ChannelTypes DEF Consume
  <2> QED BY <1>3, <2>1 DEF MayLeave
<1> QED BY <1>1, <1>2, <1>3

\* The controller floods frames for hosts that it does not know at the switch.
LEMMA FloodUnknown ==
  ASSUME Behavior = "Switch", NEW B, HostsDivided(B), Inv, ClaimInv, AllPlaced(B),
         LearnedBehind(B), LearnedBehind(B)', [Next]_vars, ControllerServes,
         UNCHANGED buffer, NEW t \in Switch, NEW m \in Elems(TheReply[t]),
         NEW d, m \in FloodsTo(t, d)'
  PROVE  d \notin DOMAIN mac_to_port'[t]
<1>1. /\ Processes(UpTypes) /\ Message.type \in UpTypes
      /\ m.type \in PacketOuts /\ m.outport = FloodPort
      /\ OutFrame(t, m)'.eth_dst = d
  BY ControllerReplies DEF FloodsTo
<1>2. PICK hdr : hdr = Header(Message)
  OBVIOUS
<1>3. ASSUME NEW ms, m \in Elems(Only(From, ms)[t])
      PROVE  t = From /\ m \in Elems(ms)
  BY <1>3, ElemsShort DEF Only
<1>4. CASE Message.type = "ESTABLISHED"
  <2>1. m \in Elems(<<FeaturesRequest>>)
    BY <1>3, <1>4 DEF TheReply
  <2>2. m = FeaturesRequest
    BY <2>1, ElemsShort
  <2> QED BY <1>1, <2>2 DEF FeaturesRequest, PacketOuts
<1>5. CASE Message.type = "FEATURES_REPLY"
  <2>1. TheReply[t] = <<>>
    BY <1>5 DEF TheReply
  <2> QED BY <2>1, ElemsShort
<1>6. CASE Message.type \in PacketIns
  <2>1. TheReply[t] = Only(From, Decision(Learned, Message))[t]
    BY <1>6 DEF TheReply, PacketIns
  <2>2. t = From /\ m \in Elems(Decision(Learned, Message))
    BY <1>3, <2>1
  <2>3. mac_to_port'[t] = Learned
    BY <1>2, <1>6, <2>2, SourceKnown
  <2>4. CASE hdr.eth_dst \in DOMAIN Learned
    <3>1. PICK port : port = Learned[hdr.eth_dst]
      OBVIOUS
    <3>2. KnownAt(t, hdr.eth_dst, port)'
      BY <2>3, <2>4, <3>1 DEF KnownAt
    <3>3. port \in Port
      BY <3>2 DEF LearnedBehind, OpenPorts, Connected
    <3>4. Decision(Learned, Message)
            = <<FlowMod(hdr, port), PacketOut(Message, port)>>
      BY <1>2, <2>4, <3>1 DEF Decision
    <3>5. m = FlowMod(hdr, port) \/ m = PacketOut(Message, port)
      BY <2>2, <3>4, ElemsShort
    <3>6. m.outport = port
      BY <3>5 DEF FlowMod, PacketOut, PacketOutFrame, PacketOutHeader
    <3> QED BY <1>1, <3>3, <3>6, FloodPortAssumption
  <2>5. CASE hdr.eth_dst \notin DOMAIN Learned
    <3>1. Decision(Learned, Message) = <<PacketOut(Message, FloodPort)>>
      BY <1>2, <2>5 DEF Decision
    <3>2. m = PacketOut(Message, FloodPort)
      BY <2>2, <3>1, ElemsShort
    <3>3. ExtractMatch(OutFrame(t, m)') = hdr
      BY <1>1, <1>2, <1>6, <2>2, <3>2, AnswerFrame
    <3>4. hdr.eth_dst = OutFrame(t, m)'.eth_dst
      BY <3>3 DEF ExtractMatch
    <3> QED BY <1>1, <2>3, <2>5, <3>4
  <2> QED BY <2>4, <2>5
<1> QED BY <1>1, <1>4, <1>5, <1>6 DEF UpTypes

\* Where nothing is known of d, no message or entry is about frames from d, and
\* the switches behind have not heard of it.
LEMMA UnknownFirst ==
  ASSUME DecisionsSound', UpstreamKnows', NEW t \in Switch, NEW d,
         d \notin DOMAIN mac_to_port'[t]
  PROVE  /\ NoneBehind(toSwitch[t], DecidesFrom(t, d), FloodsTo(t, d))'
         /\ \A e \in Elems(entry_map'[t]) : e.match.eth_src # d
         /\ \A s \in Switch, p, q \in Port :
              Peer[t][q] = SwitchEnd(s, p) => ~Heard(s, p, d)'
<1>1. \A k : ~KnownAt(t, d, k)'
  BY DEF KnownAt
<1>2. ASSUME NEW m \in Elems(toSwitch'[t]) PROVE m \notin DecidesFrom(t, d)'
  <2>1. MessageSound(t, m)'
    BY DEF DecisionsSound
  <2>2. CASE m.type = "FLOW_MOD" /\ m.match.eth_src = d
    BY <1>1, <2>1, <2>2 DEF MessageSound, Sound
  <2>3. CASE m.type \in PacketOuts /\ OutFrame(t, m)'.eth_src = d
    <3>1. Sound(t, OutFrame(t, m), m.outport)'
      BY <2>1, <2>3 DEF MessageSound
    <3> QED BY <1>1, <2>3, <3>1 DEF Sound
  <2> QED BY <2>2, <2>3 DEF DecidesFrom
<1>3. NoneBehind(toSwitch[t], DecidesFrom(t, d), FloodsTo(t, d))'
  BY <1>2 DEF NoneBehind, Elems
<1>4. \A e \in Elems(entry_map'[t]) : e.match.eth_src # d
  BY <1>1 DEF DecisionsSound, Sound
<1>5. \A s \in Switch, p, q \in Port :
        Peer[t][q] = SwitchEnd(s, p) => ~Heard(s, p, d)'
  BY DEF UpstreamKnows
<1> QED BY <1>3, <1>4, <1>5

\* While a frame for d is to be flooded at t, t does not handle a message about
\* frames from d.
LEMMA NotYetReceived ==
  ASSUME Inv, FloodsFirst, NEW t \in Switch, NEW d,
         Has(toSwitch[t], FloodsTo(t, d)),
         Received(t) \in DecidesFrom(t, d), Received(t) \notin FloodsTo(t, d)
  PROVE  FALSE
<1>1. toSwitch[t] \in Seq(DownMessage)
  BY ChannelTypes
<1>2. toSwitch[t] # <<>>
  BY ElemsShort DEF Has
<1>3. NoneBehind(toSwitch[t], DecidesFrom(t, d), FloodsTo(t, d))
  BY DEF FloodsFirst
<1> QED BY <1>1, <1>2, <1>3, HeadFirst DEF Received

\* Meanwhile no switch hears of d from t.
LEMMA StaysUnheard ==
  ASSUME Behavior = "Switch", Inv, FlowsNormal, WiresOwn, NEW B, LinksMatch(B),
         AllPlaced(B), LearnedBehind(B), DecisionsSound, FloodsFirst, [Next]_vars,
         NEW s \in Switch, NEW t \in Switch, NEW p \in Port, NEW q \in Port,
         Peer[t][q] = SwitchEnd(s, p), NEW d, Has(toSwitch[t], FloodsTo(t, d))
  PROVE  ~Heard(s, p, d)'
<1> SUFFICES ASSUME Heard(s, p, d)' PROVE FALSE
  OBVIOUS
<1>1. ~Heard(s, p, d) /\ \A e \in Elems(entry_map[t]) : e.match.eth_src # d
  BY DEF FloodsFirst
<1>2. PICK f \in FramesAt(t) \cap Frame :
        f.eth_src = d /\ \E ps : TableSends(t, f, ps) \/ MessageSends(t, f, ps)
  BY <1>1, HeardOverLink
<1>3. PICK ps : TableSends(t, f, ps) \/ MessageSends(t, f, ps)
  BY <1>2
<1>4. CASE TableSends(t, f, ps)
  <2>1. PICK e \in Elems(entry_map[t]) : e.match = ExtractMatch(f)
    BY <1>4, EntryHit
  <2>2. e.match.eth_src = d
    BY <1>2, <2>1 DEF ExtractMatch
  <2> QED BY <1>1, <2>2
<1>5. CASE MessageSends(t, f, ps)
  <2>1. PICK m \in Elems(toSwitch[t]) :
          /\ m = Received(t)
          /\ \/ /\ m.type = "PACKET_OUT"
                /\ f = buffer[t].pending_msgs[m.buffer_id]
             \/ m.type = "PACKET_OUT_FULL" /\ f = m.frame
    BY <1>5 DEF MessageSends
  <2>2. m \in DownMessage
    BY ChannelTypes DEF Elems
  <2>3. m.type \in PacketOuts /\ OutFrame(t, m) = f
    BY <2>1 DEF PacketOuts, OutFrame
  <2>4. m \in DecidesFrom(t, d)
    BY <1>2, <2>2, <2>3 DEF DecidesFrom
  <2>5. Placed(B, t, f)
    BY DEF AllPlaced
  <2>6. m \notin FloodsTo(t, d)
    BY <1>2, <2>3, <2>5 DEF FloodsTo, Placed
  <2> QED BY <2>1, <2>4, <2>6, NotYetReceived
<1> QED BY <1>3, <1>4, <1>5

\* What is on its way to t after a step, of what the controller knows the source,
\* was there before in that order.
LEMMA FloodsStay ==
  ASSUME Behavior = "Switch", NEW B, HostsDivided(B), Inv, IdsLeft, ClaimInv,
         FramesThere, FramesThere', AllPlaced(B), LearnedBehind(B),
         LearnedBehind(B)', [Next]_vars,
         NEW t \in Switch, NEW d, d \in DOMAIN mac_to_port'[t]
  PROVE  /\ Has(toSwitch[t], FloodsTo(t, d))' => Has(toSwitch[t], FloodsTo(t, d))
         /\ NoneBehind(toSwitch[t], DecidesFrom(t, d), FloodsTo(t, d))
            => NoneBehind(toSwitch[t], DecidesFrom(t, d), FloodsTo(t, d))'
<1>1. toSwitch[t] \in Seq(DownMessage)
  BY ChannelTypes
<1>2. ASSUME UNCHANGED buffer
      PROVE  /\ FloodsTo(t, d)' = FloodsTo(t, d)
             /\ DecidesFrom(t, d)' = DecidesFrom(t, d)
  BY <1>2 DEF FloodsTo, DecidesFrom, OutFrame
<1>3. CASE toSwitch'[t] = toSwitch[t] /\ UNCHANGED buffer
  BY <1>2, <1>3
<1>4. CASE HostStep \/ UNCHANGED vars
  BY <1>3, <1>4 DEF HostStep, vars, switchVars, channelVars
<1>5. ASSUME NEW x \in Switch, OfSwitch(SwitchStep(x))
      PROVE  /\ Has(toSwitch[t], FloodsTo(t, d))' => Has(toSwitch[t], FloodsTo(t, d))
             /\ NoneBehind(toSwitch[t], DecidesFrom(t, d), FloodsTo(t, d))
                => NoneBehind(toSwitch[t], DecidesFrom(t, d), FloodsTo(t, d))'
  <2>1. SwitchStep(x)
    BY <1>5 DEF OfSwitch
  <2>2. MayLeave(toSwitch[t], toSwitch'[t])
    BY <2>1, DownMayLeave
  <2>3. ASSUME NEW m \in Elems(toSwitch'[t])
        PROVE  /\ m \in FloodsTo(t, d)' => m \in FloodsTo(t, d)
               /\ m \in DecidesFrom(t, d)' => m \in DecidesFrom(t, d)
    <3>1. OutFrame(t, m)' = OutFrame(t, m)
      BY <2>1, OutFrameKept
    <3> QED BY <3>1 DEF FloodsTo, DecidesFrom
  <2> QED BY <1>1, <2>2, <2>3, OrderInTail
<1>6. CASE OfController(ControllerStep)
  <2>1. ControllerStep /\ UNCHANGED buffer
    BY <1>6 DEF OfController, switchVars
  <2>2. CASE toSwitch'[t] # toSwitch[t]
    <3>1. ControllerServes /\ TheReply[t] \in Seq(DownMessage)
      BY <2>1, <2>2, DownOfController
    <3>2. toSwitch'[t] = toSwitch[t] \o TheReply[t]
      <4>1. Reply(TheReply, socketMap')
        BY <3>1, ControllerReplies
      <4> QED BY <2>2, <4>1 DEF Reply, channelVars
    <3>3. \A m \in Elems(TheReply[t]) : m \notin FloodsTo(t, d)
      BY <1>2, <2>1, <3>1, FloodUnknown
    <3>4. /\ Has(toSwitch'[t], FloodsTo(t, d)) => Has(toSwitch[t], FloodsTo(t, d))
          /\ NoneBehind(toSwitch[t], DecidesFrom(t, d), FloodsTo(t, d))
             => NoneBehind(toSwitch'[t], DecidesFrom(t, d), FloodsTo(t, d))
      BY <1>1, <3>1, <3>2, <3>3, OrderInConcat
    <3> QED BY <1>2, <2>1, <3>4
  <2> QED BY <1>3, <2>1, <2>2
<1> QED BY <1>4, <1>5, <1>6 DEF Next

\* A packet-out that floods comes before all that is about frames from its host.
LEMMA NextFloodsFirst ==
  ASSUME Behavior = "Switch", NEW B, HostsDivided(B), LinksMatch(B)
  PROVE  /\ Inv /\ IdsLeft /\ ClaimInv /\ FlowsNormal /\ WiresOwn
         /\ FramesThere /\ FramesThere' /\ AllPlaced(B) /\ LearnedBehind(B)
         /\ LearnedBehind(B)' /\ DecisionsSound /\ DecisionsSound'
         /\ UpstreamKnows' /\ FloodsFirst /\ [Next]_vars
         => FloodsFirst'
<1> SUFFICES ASSUME Inv, IdsLeft, ClaimInv, FlowsNormal, WiresOwn, FramesThere,
                    FramesThere', AllPlaced(B), LearnedBehind(B),
                    LearnedBehind(B)', DecisionsSound, DecisionsSound',
                    UpstreamKnows', FloodsFirst, [Next]_vars,
                    NEW t \in Switch, NEW d
             PROVE  /\ NoneBehind(toSwitch[t], DecidesFrom(t, d), FloodsTo(t, d))'
                    /\ Has(toSwitch[t], FloodsTo(t, d))' =>
                         /\ \A e \in Elems(entry_map'[t]) : e.match.eth_src # d
                         /\ \A s \in Switch, p, q \in Port :
                              Peer[t][q] = SwitchEnd(s, p) => ~Heard(s, p, d)'
  BY DEF FloodsFirst
<1>1. CASE d \notin DOMAIN mac_to_port'[t]
  BY <1>1, UnknownFirst
<1>2. CASE d \in DOMAIN mac_to_port'[t]
  <2>1. NoneBehind(toSwitch[t], DecidesFrom(t, d), FloodsTo(t, d))'
    BY <1>2, FloodsStay DEF FloodsFirst
  <2>2. ASSUME Has(toSwitch[t], FloodsTo(t, d))'
        PROVE  Has(toSwitch[t], FloodsTo(t, d))
    BY <1>2, <2>2, FloodsStay
  <2>3. ASSUME Has(toSwitch[t], FloodsTo(t, d)), NEW e \in Elems(entry_map'[t]),
               e.match.eth_src = d
        PROVE  FALSE
    <3>1. e \notin Elems(entry_map[t])
      BY <2>3 DEF FloodsFirst
    <3>2. PICK x \in Switch : SwitchStep(x)
      BY <3>1 DEF Next, vars, switchVars, HostStep, OfSwitch, OfController
    <3>3. /\ Received(t) \in Elems(toSwitch[t]) /\ Received(t).type = "FLOW_MOD"
          /\ Received(t).match.eth_src = d
      BY <2>3, <3>1, <3>2, EntriesAfter
    <3>4. Received(t) \in DownMessage
      BY <3>3, ChannelTypes DEF Elems
    <3>5. Received(t) \in DecidesFrom(t, d) /\ Received(t) \notin FloodsTo(t, d)
      BY <3>3, <3>4 DEF DecidesFrom, FloodsTo, PacketOuts
    <3> QED BY <2>3, <3>5, NotYetReceived
  <2>4. ASSUME Has(toSwitch[t], FloodsTo(t, d)), NEW s \in Switch, NEW p \in Port,
               NEW q \in Port, Peer[t][q] = SwitchEnd(s, p)
        PROVE  ~Heard(s, p, d)'
    BY <2>4, StaysUnheard
  <2> QED BY <2>1, <2>2, <2>3, <2>4
<1> QED BY <1>1, <1>2

\* What the switches have learned, decided and are about to learn.
SwitchesAgree(B) ==
  /\ AllPlaced(B) /\ LearnedBehind(B) /\ DecisionsSound /\ SourcesLast
  /\ WiresOwn /\ UpstreamKnows /\ FloodsFirst

\* At the start all ways are empty and nothing is known.
LEMMA InitAgree ==
  ASSUME NEW B
  PROVE  Init => SwitchesAgree(B)
<1> SUFFICES ASSUME Init PROVE SwitchesAgree(B)
  OBVIOUS
<1>1. \A A : ~Has(<<>>, A)
  BY ElemsShort DEF Has
<1>2. \A A, C : NoneBehind(<<>>, A, C)
  BY DEF NoneBehind
<1>3. ASSUME NEW s \in Switch
      PROVE  /\ \A p \in Port : wire[s][p] = <<>>
             /\ Contents(proc[s]) = <<>>
             /\ toController[s] = <<>> /\ toSwitch[s] = <<>>
             /\ Contents(ctrl) = <<>>
             /\ entry_map[s] = <<>>
             /\ mac_to_port[s] = << >>
  <2>1. \A p \in Port : wire[s][p] = <<>>
    BY DEF Init, LinksInit
  <2>2. Contents(proc[s]) = <<>> /\ entry_map[s] = <<>>
    BY DEF Init, SwitchInit, IdleQueue, Contents
  <2>3. toController[s] = <<>> /\ toSwitch[s] = <<>> /\ Contents(ctrl) = <<>>
    BY InitChannels
  <2>4. mac_to_port[s] = << >>
    BY DEF Init, ControllerInit
  <2> QED BY <2>1, <2>2, <2>3, <2>4
<1>4. \A s \in Switch : \A d, p : ~KnownAt(s, d, p)
  <2>1. DOMAIN << >> = {}
    OBVIOUS
  <2> QED BY <1>3, <2>1 DEF KnownAt
<1>5. ASSUME NEW s \in Switch, NEW p \in Port, NEW T, NEW U
      PROVE  ~Coming(s, p, T) /\ InOrder(s, p, T, U)
  BY <1>1, <1>2, <1>3 DEF Coming, InOrder, HasOnLink, HasInService, HasGoingUp,
                          HasQueued
<1>6. AllPlaced(B)
  BY InitFrames DEF AllPlaced
<1>7. LearnedBehind(B)
  BY <1>4 DEF LearnedBehind
<1>8. DecisionsSound /\ WiresOwn
  BY <1>3, ElemsShort DEF DecisionsSound, WiresOwn
<1>9. SourcesLast
  BY <1>4, <1>5 DEF SourcesLast
<1>10. UpstreamKnows
  BY <1>4, <1>5 DEF UpstreamKnows, Heard
<1>11. FloodsFirst
  BY <1>1, <1>2, <1>3 DEF FloodsFirst
<1> QED BY <1>6, <1>7, <1>8, <1>9, <1>10, <1>11 DEF SwitchesAgree

\* Every step keeps it so.
LEMMA NextAgree ==
  ASSUME Behavior = "Switch", NEW B, HostsDivided(B), LinksMatch(B)
  PROVE  /\ Inv /\ IdsLeft /\ ClaimInv /\ FlowsNormal /\ FramesThere /\ FramesThere'
         /\ SwitchesAgree(B) /\ [Next]_vars
         => SwitchesAgree(B)'
<1> SUFFICES ASSUME Inv, IdsLeft, ClaimInv, FlowsNormal, FramesThere, FramesThere',
                    SwitchesAgree(B), [Next]_vars
             PROVE  SwitchesAgree(B)'
  OBVIOUS
<1>1. /\ AllPlaced(B) /\ LearnedBehind(B) /\ DecisionsSound /\ SourcesLast
      /\ WiresOwn /\ UpstreamKnows /\ FloodsFirst
  BY DEF SwitchesAgree
<1>2. AllPlaced(B)'
  BY <1>1, NextPlaced
<1>3. LearnedBehind(B)'
  BY <1>1, NextLearned
<1>4. DecisionsSound'
  BY <1>1, NextSound
<1>5. SourcesLast'
  BY <1>1, NextSourcesLast
<1>6. WiresOwn'
  BY <1>1, NextOwn
<1>7. UpstreamKnows'
  BY <1>1, NextUpstream
<1>8. FloodsFirst'
  BY <1>1, <1>3, <1>4, <1>7, NextFloodsFirst
<1> QED BY <1>2, <1>3, <1>4, <1>5, <1>6, <1>7, <1>8 DEF SwitchesAgree

\* So no frame goes back.
LEMMA LearnedGoOn ==
  ASSUME Behavior = "Switch", Inv, FlowsNormal, NEW B, SwitchesAgree(B)
  PROVE  NoWayBack
<1>1. LearnedBehind(B) /\ DecisionsSound
  BY DEF SwitchesAgree
<1>2. ASSUME NEW s \in Switch, ServiceEnds(s), ~Miss(s)
      PROVE  returnAction(entry_map[s], ExtractMatch(Served(s)))
               \in Onward(s, Served(s))
  <2> DEFINE f == Served(s)
             r == returnAction(entry_map[s], ExtractMatch(f))
  <2>1. f \in Frame
    BY <1>2, ServiceFrames
  <2>2. TableSends(s, f, {r})
    BY <1>2 DEF TableSends
  <2> HIDE DEF f, r
  <2>3. r \in OpenPorts(s) /\ r # f.in_port
    BY <1>1, <2>1, <2>2, SendsSoundly
  <2> QED BY <2>3 DEF f, r, Onward
<1>3. ASSUME NEW s \in Switch, NEW type \in PacketOuts, Receives(s, type),
             Received(s).outport \in Port
      PROVE  Received(s).outport \in Onward(s, OutFrame(s, Received(s)))
  <2>1. toSwitch[s] # <<>> /\ toSwitch[s] \in Seq(DownMessage)
    BY <1>3, ChannelTypes DEF Receives
  <2>2. Received(s) \in Elems(toSwitch[s]) /\ Received(s).type \in PacketOuts
    BY <1>3, <2>1, ElemsTail DEF Received, Receives
  <2>3. Sound(s, OutFrame(s, Received(s)), Received(s).outport)
    BY <1>1, <2>2 DEF DecisionsSound, MessageSound
  <2>4. Received(s).outport # FloodPort
    BY <1>3, FloodPortAssumption
  <2> QED BY <1>1, <2>3, <2>4 DEF Sound, LearnedBehind, Onward
<1>4. ASSUME NEW s \in Switch, Receives(s, "PACKET_OUT"),
             Received(s).outport \in Port
      PROVE  Received(s).outport
               \in Onward(s, buffer[s].pending_msgs[Received(s).buffer_id])
  <2>1. OutFrame(s, Received(s)) = buffer[s].pending_msgs[Received(s).buffer_id]
    BY <1>4 DEF OutFrame, Receives
  <2> QED BY <1>3, <1>4, <2>1 DEF PacketOuts
<1>5. ASSUME NEW s \in Switch, Receives(s, "PACKET_OUT_FULL"),
             Received(s).outport \in Port
      PROVE  Received(s).outport \in Onward(s, Received(s).frame)
  <2>1. OutFrame(s, Received(s)) = Received(s).frame
    BY <1>5 DEF OutFrame, Receives
  <2> QED BY <1>3, <1>5, <2>1 DEF PacketOuts
<1> QED BY <1>2, <1>4, <1>5 DEF NoWayBack

\* With Switch no host gets a frame twice either, where the network divides its
\* hosts, its links lead both ways and the ids of the buffers last: what a switch
\* learns is where the host is, whatever the order in which packet-ins, flow
\* entries and floods overtake each other.
THEOREM SwitchDeliversOnce ==
  ASSUME Behavior = "Switch", NEW Behind, HostsDivided(Behind), LinksMatch(Behind)
  PROVE  Spec /\ []IdsLeft => []NoDuplicateDelivery
<1>1. Inv /\ ClaimInv => FramesThere
  BY FrameIsThere DEF FramesThere
<1>2. Init => SwitchesAgree(Behind)
  BY InitAgree
<1>3. /\ Inv /\ IdsLeft /\ ClaimInv /\ FlowsNormal /\ FramesThere /\ FramesThere'
      /\ SwitchesAgree(Behind) /\ [Next]_vars
      => SwitchesAgree(Behind)'
  BY NextAgree
<1>4. Spec => []FlowsNormal
  BY InitFlows, NextFlows, Invariance, PTL DEF Spec
<1>5. Inv /\ FlowsNormal /\ SwitchesAgree(Behind) => NoWayBack
  BY LearnedGoOn
<1>6. Spec /\ []IdsLeft => []NoWayBack
  BY <1>1, <1>2, <1>3, <1>4, <1>5, Invariance, ClaimInvariance, PTL DEF Spec
<1>7. Spec /\ []NoWayBack => []NoDuplicateDelivery
  BY DeliveredOnce
<1> QED BY <1>6, <1>7, PTL
=============================================================================
