---------------------------- MODULE PingAppRandom ----------------------------
(***************************************************************************)
(* apps/PingAppRandom.cc: pings to random nodes and the statistics of the  *)
(* replies.  Replies come from different nodes over different ways, so     *)
(* they overtake each other; the network may lose some.                    *)
(***************************************************************************)
EXTENDS Integers, FiniteSets

CONSTANTS Destination,   \* the nodes of the type destinationNedType
          Self,          \* the node of this application
          count,         \* pings to send, 0 for any number
          HasStopTime,   \* whether the sending can end before
          MaxPings,      \* bound: pings sent, where count is 0
          MaxLosses,     \* bound: pings or replies that the network loses
          MaxDuplicates  \* bound: replies that the network duplicates

VARIABLES timer,                  \* "scheduled" or "deleted"
          sendSeqNo,
          expectedReplySeqNo,
          lossCount,
          outOfOrderArrivalCount,
          numPongs,
          finished,               \* finish() has been called
          network,                \* numbers of pings and replies under way
          answered,               \* numbers that have been replied to
          losses, duplicates

statistics == <<lossCount, outOfOrderArrivalCount, numPongs>>
networkVars == <<network, losses, duplicates>>
vars == <<timer, sendSeqNo, expectedReplySeqNo, statistics, finished, answered,
          networkVars>>

Init ==
  /\ timer = "scheduled"
  /\ sendSeqNo = 0
  /\ expectedReplySeqNo = 0
  /\ lossCount = 0
  /\ outOfOrderArrivalCount = 0
  /\ numPongs = 0
  /\ finished = FALSE
  /\ network = {}
  /\ answered = {}
  /\ losses = 0
  /\ duplicates = 0

\* The destination is drawn again until it is not the own node.
sendPing ==
  /\ Destination \ {Self} # {}
  /\ network' = network \cup {sendSeqNo}
  /\ sendSeqNo' = sendSeqNo + 1

\* Mutant of scheduleNextPing: the number just sent is compared.
scheduleOneMore ==
  \/ /\ count = 0 \/ sendSeqNo < count
     /\ timer' = "scheduled"
  \/ /\ HasStopTime \/ ~(count = 0 \/ sendSeqNo < count)
     /\ timer' = "deleted"

\* The timer is scheduled again unless all pings are sent or the next one
\* would be too late.
scheduleNextPing ==
  \/ /\ count = 0 \/ sendSeqNo' < count
     /\ timer' = "scheduled"
  \/ /\ HasStopTime \/ ~(count = 0 \/ sendSeqNo' < count)
     /\ timer' = "deleted"

handleTimer ==
  /\ ~finished
  /\ timer = "scheduled"
  /\ count = 0 => sendSeqNo < MaxPings
  /\ sendPing
  /\ scheduleNextPing
  /\ UNCHANGED <<expectedReplySeqNo, statistics, finished, answered, losses,
                 duplicates>>

\* Mutant of countPingResponse: a late reply stays lost.
countLateLost(seqNo) ==
  /\ numPongs' = numPongs + 1
  /\ expectedReplySeqNo' = IF seqNo < expectedReplySeqNo
                           THEN expectedReplySeqNo ELSE seqNo + 1
  /\ lossCount' = IF seqNo > expectedReplySeqNo
                  THEN lossCount + (seqNo - expectedReplySeqNo) ELSE lossCount
  /\ outOfOrderArrivalCount' = outOfOrderArrivalCount
                                 + (IF seqNo < expectedReplySeqNo THEN 1 ELSE 0)

\* A reply that is expected, one that jumps ahead, so that those in the gap
\* count as lost for now, or a late one, which is no loss after all.
countPingResponse(seqNo) ==
  /\ numPongs' = numPongs + 1
  /\ \/ /\ seqNo = expectedReplySeqNo
        /\ expectedReplySeqNo' = expectedReplySeqNo + 1
        /\ UNCHANGED <<lossCount, outOfOrderArrivalCount>>
     \/ /\ seqNo > expectedReplySeqNo
        /\ lossCount' = lossCount + (seqNo - expectedReplySeqNo)
        /\ expectedReplySeqNo' = seqNo + 1
        /\ UNCHANGED outOfOrderArrivalCount
     \/ /\ seqNo < expectedReplySeqNo
        /\ outOfOrderArrivalCount' = outOfOrderArrivalCount + 1
        /\ lossCount' = lossCount - 1
        /\ UNCHANGED expectedReplySeqNo

\* A reply arrives; another copy of it may still be under way.
processPingResponse(seqNo) ==
  /\ ~finished
  /\ seqNo \in network
  /\ \/ network' = network \ {seqNo} /\ UNCHANGED duplicates
     \/ /\ duplicates < MaxDuplicates
        /\ duplicates' = duplicates + 1
        /\ UNCHANGED network
  /\ countPingResponse(seqNo)
  /\ answered' = answered \cup {seqNo}
  /\ UNCHANGED <<timer, sendSeqNo, finished, losses>>

NetworkLoses(seqNo) ==
  /\ ~finished
  /\ losses < MaxLosses
  /\ losses' = losses + 1
  /\ network' = network \ {seqNo}
  /\ UNCHANGED <<timer, sendSeqNo, expectedReplySeqNo, statistics, finished,
                 answered, duplicates>>

\* The simulation ends, at any time: pings that are not answered are lost.
finish ==
  /\ ~finished
  /\ finished' = TRUE
  /\ lossCount' = lossCount + (sendSeqNo - expectedReplySeqNo)
  /\ UNCHANGED <<timer, sendSeqNo, expectedReplySeqNo, outOfOrderArrivalCount,
                 numPongs, answered, networkVars>>

Next ==
  \/ handleTimer
  \/ \E n \in network : processPingResponse(n) \/ NetworkLoses(n)
  \/ finish

Spec == Init /\ [][Next]_vars

\* The timer fires and what is under way arrives, while the simulation runs.
Fairness ==
  /\ WF_vars(handleTimer)
  /\ WF_vars(\E n \in network : processPingResponse(n))

FairSpec == Spec /\ Fairness

-----------------------------------------------------------------------------
TypeOK ==
  /\ timer \in {"scheduled", "deleted"}
  /\ sendSeqNo \in Nat
  /\ expectedReplySeqNo \in 0..sendSeqNo
  /\ lossCount \in Int
  /\ outOfOrderArrivalCount \in Nat
  /\ numPongs \in Nat
  /\ finished \in BOOLEAN
  /\ network \subseteq 0..(sendSeqNo - 1)
  /\ answered \subseteq 0..(sendSeqNo - 1)
  /\ losses \in 0..MaxLosses
  /\ duplicates \in 0..MaxDuplicates

\* The loss count is the number of pings that have no reply, among those up
\* to the last one answered and in the end among all, however replies
\* overtake each other: it is never negative then, though late replies lower
\* it.  Each duplicate makes it too low by one at most.
Missing ==
  (0..((IF finished THEN sendSeqNo ELSE expectedReplySeqNo) - 1)) \ answered

LossIsExact == Cardinality(Missing) - lossCount \in 0..duplicates

\* Sending comes to an end, after count pings at most, and in the end every
\* ping that did not get lost has its reply, unless the simulation ends
\* before.
EveryPingAnswered ==
  <>(finished \/ /\ timer = "deleted"
                 /\ network = {}
                 /\ sendSeqNo <= count
                 /\ duplicates = 0 => numPongs = sendSeqNo - losses)
=============================================================================
