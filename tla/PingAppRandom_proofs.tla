------------------------ MODULE PingAppRandom_proofs ------------------------
(***************************************************************************)
(* The statistics of PingAppRandom, for any number of pings and replies    *)
(* that come in any order, get lost or come twice.                         *)
(***************************************************************************)
EXTENDS PingAppRandom, FiniteSetTheorems, TLAPS

\* The numbers that the application has counted with so far.
Counted == IF finished THEN sendSeqNo ELSE expectedReplySeqNo

\* Replies that have come already and are under way once more.
Again == network \cap answered

Numbers ==
  /\ sendSeqNo \in Nat
  /\ expectedReplySeqNo \in 0..sendSeqNo
  /\ lossCount \in Int
  /\ finished \in BOOLEAN
  /\ duplicates \in Nat
  /\ network \subseteq 0..(sendSeqNo - 1)
  /\ answered \subseteq 0..(expectedReplySeqNo - 1)

\* The loss count is too low by the duplicates that have arrived, and those
\* that have not arrived yet are under way: LossIsExact without the second
\* conjunct would not be kept by a reply that comes again.
Accounted ==
  LET excess == Counted - Cardinality(answered) - lossCount
  IN  /\ 0 <= excess
      /\ excess + Cardinality(Again) <= duplicates

IInv == Numbers /\ Accounted

\* What is missing among the first n numbers.
LEMMA MissingCount ==
  ASSUME NEW m \in Nat, NEW n \in Nat, m <= n, NEW R, R \subseteq 0..(m - 1)
  PROVE  /\ IsFiniteSet(R) /\ Cardinality(R) \in Nat
         /\ Cardinality((0..(n - 1)) \ R) = n - Cardinality(R)
<1> DEFINE I == 0..(n - 1)
<1>1. IsFiniteSet(I) /\ Cardinality(I) = n
  BY FS_Interval
<1>2. R \subseteq I
  OBVIOUS
<1> HIDE DEF I
<1>3. IsFiniteSet(R) /\ Cardinality(R) \in Nat
  BY <1>1, <1>2, FS_Subset, FS_CardinalityType
<1>4. I \cap R = R
  BY <1>2
<1>5. Cardinality(I \ R) = Cardinality(I) - Cardinality(I \cap R)
  BY <1>1, FS_Difference
<1> QED BY <1>1, <1>3, <1>4, <1>5 DEF I

\* Finitely many replies have come.
LEMMA AnsweredFinite ==
  ASSUME Numbers
  PROVE  IsFiniteSet(answered) /\ Cardinality(answered) \in Nat
<1>1. IsFiniteSet(0..(expectedReplySeqNo - 1))
  BY FS_Interval DEF Numbers
<1>2. answered \subseteq 0..(expectedReplySeqNo - 1)
  BY DEF Numbers
<1> QED BY <1>1, <1>2, FS_Subset, FS_CardinalityType

\* Under the invariant, Accounted is what LossIsExact says and a little more.
LEMMA ExactIfAccounted == IInv => LossIsExact
<1> SUFFICES ASSUME IInv PROVE LossIsExact
  OBVIOUS
<1>1. Counted \in Nat /\ expectedReplySeqNo \in Nat
      /\ expectedReplySeqNo <= Counted
  BY DEF IInv, Numbers, Counted
<1>2. /\ IsFiniteSet(answered) /\ Cardinality(answered) \in Nat
      /\ Cardinality((0..(Counted - 1)) \ answered)
           = Counted - Cardinality(answered)
  <2>1. answered \subseteq 0..(expectedReplySeqNo - 1)
    BY DEF IInv, Numbers
  <2> QED BY <1>1, <2>1, MissingCount
<1>3. Missing = (0..(Counted - 1)) \ answered
  BY DEF Missing, Counted
<1>4. Cardinality(Again) \in Nat
  BY <1>2, FS_Intersection, FS_CardinalityType DEF Again
<1> QED BY <1>1, <1>2, <1>3, <1>4
        DEF IInv, Numbers, Accounted, LossIsExact

\* Before the first ping nothing is missing.
LEMMA InitHolds == Init => IInv
<1> SUFFICES ASSUME Init PROVE IInv
  OBVIOUS
<1>1. Numbers
  <2>1. finished \in BOOLEAN /\ network = {} /\ answered = {}
    BY DEF Init
  <2>2. sendSeqNo = 0 /\ expectedReplySeqNo = 0 /\ lossCount = 0 /\ duplicates = 0
    BY DEF Init
  <2> QED BY <2>1, <2>2 DEF Numbers
<1>2. Counted = 0 /\ answered = {} /\ Again = {} /\ lossCount = 0 /\ duplicates = 0
  BY DEF Init, Counted, Again
<1> QED BY <1>1, <1>2, FS_EmptySet DEF IInv, Accounted

\* The copies of answered replies after a reply that is new, or that comes
\* again.
LEMMA AgainAfterReply ==
  ASSUME IsFiniteSet(answered), NEW n \in network,
         answered' = answered \cup {n}
  PROVE  /\ Cardinality(Again) \in Nat
         /\ network' = network \ {n} =>
              Cardinality(Again') = IF n \in answered
                                    THEN Cardinality(Again) - 1
                                    ELSE Cardinality(Again)
         /\ network' = network =>
              Cardinality(Again') = IF n \in answered
                                    THEN Cardinality(Again)
                                    ELSE Cardinality(Again) + 1
<1>1. IsFiniteSet(Again) /\ Cardinality(Again) \in Nat
  BY FS_Intersection, FS_CardinalityType DEF Again
<1>2. n \in Again <=> n \in answered
  BY DEF Again
<1>3. ASSUME network' = network \ {n}
      PROVE  Again' = Again \ {n}
  BY <1>3 DEF Again
<1>4. ASSUME network' = network
      PROVE  Again' = Again \cup {n}
  BY <1>4 DEF Again
<1>5. /\ Cardinality(Again \ {n}) = IF n \in Again THEN Cardinality(Again) - 1
                                     ELSE Cardinality(Again)
      /\ Cardinality(Again \cup {n}) = IF n \in Again THEN Cardinality(Again)
                                       ELSE Cardinality(Again) + 1
  BY <1>1, FS_AddElement, FS_RemoveElement
<1> QED BY <1>1, <1>2, <1>3, <1>4, <1>5

\* A reply in order, one that jumps ahead, a late one, one that comes again.
LEMMA ReplyKeeps ==
  ASSUME IInv, NEW n \in network, processPingResponse(n)
  PROVE  IInv'
<1>1. /\ ~finished /\ finished' = finished /\ sendSeqNo' = sendSeqNo
      /\ answered' = answered \cup {n}
      /\ countPingResponse(n)
      /\ \/ network' = network \ {n} /\ duplicates' = duplicates
         \/ network' = network /\ duplicates' = duplicates + 1
  BY DEF processPingResponse
<1>2. /\ n \in 0..(sendSeqNo - 1) /\ sendSeqNo \in Nat
      /\ expectedReplySeqNo \in 0..sendSeqNo /\ lossCount \in Int
      /\ duplicates \in Nat
      /\ answered \subseteq 0..(expectedReplySeqNo - 1)
  BY DEF IInv, Numbers
<1>3. IsFiniteSet(answered) /\ Cardinality(answered) \in Nat
  BY AnsweredFinite DEF IInv
<1>4. n \in answered => n < expectedReplySeqNo
  BY <1>2
<1>5. Cardinality(answered') = IF n \in answered THEN Cardinality(answered)
                               ELSE Cardinality(answered) + 1
  BY <1>1, <1>3, FS_AddElement
<1>6. \/ /\ n >= expectedReplySeqNo
         /\ expectedReplySeqNo' = n + 1
         /\ lossCount' = lossCount + (n - expectedReplySeqNo)
      \/ /\ n < expectedReplySeqNo
         /\ expectedReplySeqNo' = expectedReplySeqNo
         /\ lossCount' = lossCount - 1
  BY <1>1, <1>2 DEF countPingResponse
<1>7. Numbers'
  <2>1. expectedReplySeqNo' \in 0..sendSeqNo' /\ lossCount' \in Int
        /\ duplicates' \in Nat /\ sendSeqNo' \in Nat
    BY <1>1, <1>2, <1>6
  <2>2. answered' \subseteq 0..(expectedReplySeqNo' - 1)
    BY <1>1, <1>2, <1>6
  <2>3. network' \subseteq 0..(sendSeqNo' - 1) /\ finished' \in BOOLEAN
    BY <1>1 DEF IInv, Numbers
  <2> QED BY <2>1, <2>2, <2>3 DEF Numbers
<1>8. Accounted'
  <2>1. Counted = expectedReplySeqNo /\ Counted' = expectedReplySeqNo'
    BY <1>1 DEF Counted
  <2>2. /\ 0 <= expectedReplySeqNo - Cardinality(answered) - lossCount
        /\ expectedReplySeqNo - Cardinality(answered) - lossCount
             + Cardinality(Again) <= duplicates
    BY <2>1 DEF IInv, Accounted
  <2>3. /\ Cardinality(Again) \in Nat
        /\ network' = network \ {n} =>
             Cardinality(Again') = IF n \in answered
                                   THEN Cardinality(Again) - 1
                                   ELSE Cardinality(Again)
        /\ network' = network =>
             Cardinality(Again') = IF n \in answered
                                   THEN Cardinality(Again)
                                   ELSE Cardinality(Again) + 1
    BY <1>1, <1>3, AgainAfterReply
  <2>4. \/ /\ duplicates' = duplicates
           /\ Cardinality(Again') = IF n \in answered
                                    THEN Cardinality(Again) - 1
                                    ELSE Cardinality(Again)
        \/ /\ duplicates' = duplicates + 1
           /\ Cardinality(Again') = IF n \in answered
                                    THEN Cardinality(Again)
                                    ELSE Cardinality(Again) + 1
    BY <1>1, <2>3
  <2> DEFINE a == Cardinality(answered)  a1 == Cardinality(answered')
             g == Cardinality(Again)     g1 == Cardinality(Again')
  <2>5. a \in Nat /\ g \in Nat
    BY <1>3, <2>3
  <2> HIDE DEF a, a1, g, g1
  <2>6. /\ 0 <= expectedReplySeqNo' - a1 - lossCount'
        /\ expectedReplySeqNo' - a1 - lossCount' + g1 <= duplicates'
    <3>1. CASE n \in answered
      <4>1. a1 = a /\ n < expectedReplySeqNo
        BY <1>4, <1>5, <3>1 DEF a, a1
      <4>2. duplicates' - g1 = duplicates - g + 1
        BY <1>2, <2>4, <2>5, <3>1 DEF g, g1
      <4> QED BY <1>2, <1>6, <2>2, <2>4, <2>5, <3>1, <4>1, <4>2 DEF a, g, g1
    <3>2. CASE n \notin answered
      <4>1. a1 = a + 1
        BY <1>5, <3>2 DEF a, a1
      <4>2. duplicates' - g1 = duplicates - g
        BY <1>2, <2>4, <2>5, <3>2 DEF g, g1
      <4> QED BY <1>2, <1>6, <2>2, <2>4, <2>5, <3>2, <4>1, <4>2 DEF a, g, g1
    <3> QED BY <3>1, <3>2
  <2> QED BY <2>1, <2>6 DEF Accounted, a1, g1
<1> QED BY <1>7, <1>8 DEF IInv

\* A ping or a reply that gets lost is counted as missing already, or it is a
\* copy too many less.
LEMMA LossKeeps ==
  ASSUME IInv, NEW n \in network, NetworkLoses(n)
  PROVE  IInv'
<1>1. /\ network' = network \ {n}
      /\ UNCHANGED <<sendSeqNo, expectedReplySeqNo, lossCount, finished,
                     answered, duplicates>>
  BY DEF NetworkLoses, statistics
<1>2. Numbers'
  BY <1>1 DEF IInv, Numbers
<1>3. IsFiniteSet(answered) /\ Cardinality(answered) \in Nat
  BY AnsweredFinite DEF IInv
<1>4. IsFiniteSet(Again) /\ Cardinality(Again) \in Nat
  BY <1>3, FS_Intersection, FS_CardinalityType DEF Again
<1>5. Again' = Again \ {n} /\ Counted' = Counted
  BY <1>1 DEF Again, Counted
<1>6. Cardinality(Again') \in Nat /\ Cardinality(Again') <= Cardinality(Again)
  BY <1>4, <1>5, FS_Subset, FS_CardinalityType
<1>7. Counted \in Int /\ duplicates \in Nat /\ lossCount \in Int
  BY DEF IInv, Numbers, Counted
<1>8. /\ 0 <= Counted - Cardinality(answered) - lossCount
      /\ Counted - Cardinality(answered) - lossCount + Cardinality(Again)
           <= duplicates
  BY DEF IInv, Accounted
<1> DEFINE g == Cardinality(Again)  g1 == Cardinality(Again')
<1> HIDE DEF g, g1
<1>9. Counted - Cardinality(answered) - lossCount + g1 <= duplicates
  BY <1>3, <1>4, <1>6, <1>7, <1>8 DEF g, g1
<1>10. Accounted'
  BY <1>1, <1>5, <1>8, <1>9 DEF Accounted, g1
<1> QED BY <1>2, <1>10 DEF IInv

\* The end of the simulation counts what has not been answered by then.
LEMMA FinishKeeps ==
  ASSUME IInv, finish
  PROVE  IInv'
<1>1. /\ ~finished /\ finished' = TRUE
      /\ lossCount' = lossCount + (sendSeqNo - expectedReplySeqNo)
      /\ UNCHANGED <<sendSeqNo, expectedReplySeqNo, answered, network,
                     duplicates>>
  BY DEF finish, networkVars
<1>2. /\ sendSeqNo \in Nat /\ expectedReplySeqNo \in 0..sendSeqNo
      /\ lossCount \in Int
  BY DEF IInv, Numbers
<1>3. lossCount' \in Int /\ finished' \in BOOLEAN
  BY <1>1, <1>2
<1>4. Numbers'
  BY <1>1, <1>3 DEF IInv, Numbers
<1>5. /\ Counted = expectedReplySeqNo /\ Counted' = sendSeqNo
      /\ Again' = Again
  BY <1>1 DEF Counted, Again
<1>6. Cardinality(answered) \in Nat
  BY AnsweredFinite DEF IInv
<1>7. Counted' - Cardinality(answered') - lossCount'
        = Counted - Cardinality(answered) - lossCount
  BY <1>1, <1>2, <1>5, <1>6
<1> QED BY <1>1, <1>4, <1>5, <1>7 DEF IInv, Accounted

\* A ping is a number that no reply has had yet.
LEMMA PingKeeps ==
  ASSUME IInv, handleTimer
  PROVE  IInv'
<1>1. /\ ~finished /\ finished' = finished
      /\ network' = network \cup {sendSeqNo} /\ sendSeqNo' = sendSeqNo + 1
      /\ UNCHANGED <<expectedReplySeqNo, lossCount, answered, duplicates>>
  BY DEF handleTimer, sendPing, statistics
<1>2. /\ sendSeqNo \in Nat /\ expectedReplySeqNo \in 0..sendSeqNo
      /\ network \subseteq 0..(sendSeqNo - 1)
      /\ answered \subseteq 0..(expectedReplySeqNo - 1)
  BY DEF IInv, Numbers
<1>3. Numbers'
  <2>1. expectedReplySeqNo' \in 0..sendSeqNo' /\ sendSeqNo' \in Nat
    BY <1>1, <1>2
  <2>2. network' \subseteq 0..(sendSeqNo' - 1)
    BY <1>1, <1>2
  <2> QED BY <1>1, <2>1, <2>2 DEF IInv, Numbers
<1>4. Again' = Again
  <2>1. sendSeqNo \notin answered
    BY <1>2
  <2> QED BY <1>1, <2>1 DEF Again
<1>5. Counted' = Counted
  BY <1>1 DEF Counted
<1> QED BY <1>1, <1>3, <1>4, <1>5 DEF IInv, Accounted

\* Pings, replies, losses and the end of the simulation together.
LEMMA StepKeeps ==
  ASSUME IInv, [Next]_vars
  PROVE  IInv'
<1>1. CASE handleTimer
  BY <1>1, PingKeeps
<1>2. ASSUME NEW n \in network, processPingResponse(n)
      PROVE  IInv'
  BY <1>2, ReplyKeeps
<1>3. ASSUME NEW n \in network, NetworkLoses(n)
      PROVE  IInv'
  BY <1>3, LossKeeps
<1>4. CASE finish
  BY <1>4, FinishKeeps
<1>5. CASE UNCHANGED vars
  BY <1>5 DEF vars, statistics, networkVars, IInv, Numbers, Accounted, Counted,
              Again
<1> QED BY <1>1, <1>2, <1>3, <1>4, <1>5 DEF Next

\* The loss count that the application reports is right but for duplicates,
\* however replies overtake each other.
THEOREM LossExact == Spec => []LossIsExact
<1>1. Init => IInv
  BY InitHolds
<1>2. IInv /\ [Next]_vars => IInv'
  BY StepKeeps
<1>3. IInv => LossIsExact
  BY ExactIfAccounted
<1> QED BY <1>1, <1>2, <1>3, PTL DEF Spec
=============================================================================
