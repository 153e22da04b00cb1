----------------------- MODULE OpenFlowNetwork_proofs -----------------------
(***************************************************************************)
(* The service queues, for any messages; the types of the network's state, *)
(* the capacity of the buffers and the queues in it, proved for any        *)
(* topology, any number of switches and any of the three control           *)
(* applications.                                                           *)
(***************************************************************************)
EXTENDS OpenFlowNetwork, SequenceTheorems, FiniteSetTheorems,
        WellFoundedInduction, TLAPS

-----------------------------------------------------------------------------
(* The service queue.                                                      *)

\* A queue of messages from S has the three fields of one.
LEMMA QueueFields ==
  ASSUME NEW S, NEW q \in QueueOf(S)
  PROVE  /\ q.busy \in BOOLEAN
         /\ q.event \in Seq(S)
         /\ q.msg_list \in Seq(S)
BY DEF QueueOf

\* To append to the second of two sequences is to append to both.
LEMMA AppendToSecond ==
  ASSUME NEW S, NEW s \in Seq(S), NEW t \in Seq(S), NEW m \in S
  PROVE  s \o Append(t, m) = Append(s \o t, m)
<1>1. <<m>> \in Seq(S) /\ s \o t \in Seq(S)
  BY ConcatProperties
<1>2. Append(t, m) = t \o <<m>> /\ Append(s \o t, m) = (s \o t) \o <<m>>
  BY <1>1, AppendIsConcat
<1>3. (s \o t) \o <<m>> = s \o (t \o <<m>>)
  BY <1>1, ConcatAssociative
<1> QED BY <1>2, <1>3

\* A sequence is its head followed by its tail.
LEMMA ConsHeadTail ==
  ASSUME NEW S, NEW s \in Seq(S), s # <<>>
  PROVE  <<Head(s)>> \o Tail(s) = s
<1>1. /\ Head(s) \in S /\ Tail(s) \in Seq(S) /\ Len(Tail(s)) = Len(s) - 1
      /\ \A i \in 1..Len(Tail(s)) : Tail(s)[i] = s[i + 1]
  BY HeadTailProperties
<1>2. <<Head(s)>> \in Seq(S) /\ Len(<<Head(s)>>) = 1 /\ <<Head(s)>>[1] = s[1]
  BY <1>1
<1>3. Len(s) \in Nat
  BY LenProperties
<1> DEFINE t == <<Head(s)>> \o Tail(s)
<1>4. /\ t \in Seq(S) /\ Len(t) = 1 + Len(Tail(s))
      /\ \A i \in 1..(1 + Len(Tail(s))) :
           t[i] = IF i <= 1 THEN <<Head(s)>>[i] ELSE Tail(s)[i - 1]
  BY <1>1, <1>2, ConcatProperties
<1>5. Len(t) = Len(s)
  BY <1>1, <1>3, <1>4
<1>6. ASSUME NEW i \in 1..Len(t) PROVE t[i] = s[i]
  <2>1. CASE i = 1
    BY <1>1, <1>2, <1>3, <1>4, <1>5, <2>1
  <2>2. CASE i # 1
    BY <1>1, <1>3, <1>4, <1>5, <2>2
  <2> QED BY <2>1, <2>2
<1> HIDE DEF t
<1>7. t = s
  BY <1>4, <1>5, <1>6, SeqEqual
<1> QED BY <1>7 DEF t

\* The head and the tail of a sequence that one element was put before.
LEMMA HeadTailOfCons ==
  ASSUME NEW S, NEW m \in S, NEW t \in Seq(S)
  PROVE  Head(<<m>> \o t) = m /\ Tail(<<m>> \o t) = t
<1> DEFINE u == <<m>> \o t
<1>1. <<m>> \in Seq(S) /\ Len(<<m>>) = 1 /\ <<m>>[1] = m /\ Len(t) \in Nat
  BY LenProperties
<1>2. /\ u \in Seq(S) /\ Len(u) = 1 + Len(t)
      /\ \A i \in 1..(1 + Len(t)) :
           u[i] = IF i <= 1 THEN <<m>>[i] ELSE t[i - 1]
  BY <1>1, ConcatProperties
<1> HIDE DEF u
<1>3. u # <<>>
  BY <1>1, <1>2
<1>4. Head(u) = m
  BY <1>1, <1>2, <1>3
<1>5. /\ Tail(u) \in Seq(S) /\ Len(Tail(u)) = Len(t)
      /\ \A i \in 1..Len(Tail(u)) : Tail(u)[i] = u[i + 1]
  BY <1>1, <1>2, <1>3, HeadTailProperties
<1>6. \A i \in 1..Len(Tail(u)) : Tail(u)[i] = t[i]
  BY <1>1, <1>2, <1>5
<1>7. Tail(u) = t
  BY <1>5, <1>6, SeqEqual
<1> QED BY <1>4, <1>7 DEF u

\* The initial queue is a queue and its server has nothing to work on.
LEMMA IdleWorks ==
  ASSUME NEW S
  PROVE  IdleQueue \in QueueOf(S) /\ WorkConserving(IdleQueue)
<1>1. <<>> \in Seq(S) /\ Len(<<>>) = 0
  BY EmptySeq
<1> QED BY <1>1 DEF IdleQueue, QueueOf, WorkConserving

\* handleMessage of Open_Flow_Processing and OFA_controller on an arrival: the
\* message becomes the last one, and the server is at work.
THEOREM ArriveIsLast ==
  ASSUME NEW S, NEW q \in QueueOf(S), NEW m \in S, WorkConserving(q)
  PROVE  /\ Arrive(q, m) \in QueueOf(S)
         /\ WorkConserving(Arrive(q, m))
         /\ Contents(Arrive(q, m)) = Append(Contents(q), m)
<1>1. q.busy \in BOOLEAN /\ q.event \in Seq(S) /\ q.msg_list \in Seq(S)
  BY QueueFields
<1>2. CASE q.busy
  <2>1. Arrive(q, m) = [q EXCEPT !.msg_list = Append(@, m)]
    BY <1>2 DEF Arrive
  <2>2. Append(q.msg_list, m) \in Seq(S)
    BY <1>1
  <2>3. Arrive(q, m) = [busy |-> q.busy, event |-> q.event,
                        msg_list |-> Append(q.msg_list, m)]
    BY <2>1 DEF QueueOf
  <2>4. Arrive(q, m) \in QueueOf(S)
    BY <1>1, <2>2, <2>3 DEF QueueOf
  <2>5. WorkConserving(Arrive(q, m))
    BY <1>2, <2>3 DEF WorkConserving
  <2>6. q.event \o Append(q.msg_list, m) = Append(q.event \o q.msg_list, m)
    <3>1. q.event \in Seq(S) /\ q.msg_list \in Seq(S) /\ m \in S
      BY <1>1
    <3>2. \A s, t \in Seq(S) : \A x \in S : s \o Append(t, x) = Append(s \o t, x)
      BY AppendToSecond
    <3> QED BY <3>1, <3>2, Zenon
  <2>7. Contents(Arrive(q, m)) = q.event \o Append(q.msg_list, m)
    <3>1. /\ Arrive(q, m).event = q.event
          /\ Arrive(q, m).msg_list = Append(q.msg_list, m)
      BY <2>3
    <3> QED BY <3>1 DEF Contents
  <2>8. Contents(q) = q.event \o q.msg_list
    BY DEF Contents
  <2> QED BY <2>4, <2>5, <2>6, <2>7, <2>8
<1>3. CASE ~q.busy
  <2>1. Arrive(q, m) = [busy |-> TRUE, event |-> Append(q.event, m),
                        msg_list |-> q.msg_list]
    BY <1>3 DEF Arrive, QueueOf
  <2>2. Append(q.event, m) \in Seq(S)
    BY <1>1
  <2>3. q.msg_list = <<>> /\ Len(q.event) = 0
    BY <1>3 DEF WorkConserving
  <2>4. Arrive(q, m) \in QueueOf(S)
    BY <1>1, <2>1, <2>2 DEF QueueOf
  <2>5. Len(Append(q.event, m)) = 1
    BY <1>1, <2>3
  <2>6. WorkConserving(Arrive(q, m))
    BY <2>1, <2>5 DEF WorkConserving
  <2>7. Append(q.event, m) \o q.msg_list = Append(q.event \o q.msg_list, m)
    BY <1>1, <2>2, <2>3, ConcatEmptySeq
  <2>8. Contents(Arrive(q, m)) = Append(q.event, m) \o q.msg_list
    <3>1. /\ Arrive(q, m).event = Append(q.event, m)
          /\ Arrive(q, m).msg_list = q.msg_list
      BY <2>1
    <3> QED BY <3>1 DEF Contents
  <2>9. Contents(q) = q.event \o q.msg_list
    BY DEF Contents
  <2> QED BY <2>4, <2>6, <2>7, <2>8, <2>9
<1> QED BY <1>1, <1>2, <1>3

\* The end of a service: the oldest message has been processed, and the next
\* one, if there is one, is taken into service.
THEOREM FinishIsFirst ==
  ASSUME NEW S, NEW q \in QueueOf(S), WorkConserving(q), q.event # <<>>
  PROVE  /\ Finish(q) \in QueueOf(S)
         /\ WorkConserving(Finish(q))
         /\ Head(q.event) \in S
         /\ Head(q.event) = Head(Contents(q))
         /\ Contents(Finish(q)) = Tail(Contents(q))
<1>1. q.busy \in BOOLEAN /\ q.event \in Seq(S) /\ q.msg_list \in Seq(S)
  BY QueueFields
<1>2. Len(q.event) = 1 /\ q.busy
  <2>1. Len(q.event) # 0
    BY <1>1
  <2> QED BY <1>1, <2>1 DEF WorkConserving
<1>3. /\ Head(q.event) \in S
      /\ Tail(q.event) = <<>>
      /\ q.event = <<Head(q.event)>>
  <2>1. /\ Head(q.event) \in S
        /\ Tail(q.event) \in Seq(S) /\ Len(Tail(q.event)) = 0
    BY <1>1, <1>2, HeadTailProperties
  <2>2. Tail(q.event) = <<>>
    BY <2>1, EmptySeq
  <2>3. <<Head(q.event)>> \o Tail(q.event) = q.event
    BY <1>1, ConsHeadTail
  <2>4. <<Head(q.event)>> \in Seq(S)
    BY <2>1
  <2>5. <<Head(q.event)>> \o <<>> = <<Head(q.event)>>
    BY <2>4, ConcatEmptySeq
  <2> QED BY <2>1, <2>2, <2>3, <2>5
<1>4. /\ Head(q.event \o q.msg_list) = Head(q.event)
      /\ Tail(q.event \o q.msg_list) = q.msg_list
  BY <1>1, <1>3, HeadTailOfCons
<1>5. CASE q.msg_list = <<>>
  <2>1. Finish(q) = [busy |-> FALSE, event |-> <<>>, msg_list |-> <<>>]
    BY <1>3, <1>5 DEF Finish, QueueOf
  <2>2. Finish(q) = IdleQueue
    BY <2>1 DEF IdleQueue
  <2>3. Contents(Finish(q)) = q.msg_list
    BY <1>5, <2>1 DEF Contents
  <2> QED BY <1>3, <1>4, <2>2, <2>3, IdleWorks DEF Contents
<1>6. CASE q.msg_list # <<>>
  <2>1. Finish(q) = [busy |-> q.busy, event |-> <<Head(q.msg_list)>>,
                     msg_list |-> Tail(q.msg_list)]
    <3>1. Append(<<>>, Head(q.msg_list)) = <<Head(q.msg_list)>>
      OBVIOUS
    <3>2. Finish(q) = [q EXCEPT !.event = <<Head(q.msg_list)>>,
                                !.msg_list = Tail(@)]
      BY <1>3, <1>6, <3>1 DEF Finish
    <3> QED BY <3>2 DEF QueueOf
  <2>2. Head(q.msg_list) \in S /\ Tail(q.msg_list) \in Seq(S)
    BY <1>1, <1>6
  <2>3. <<Head(q.msg_list)>> \in Seq(S) /\ Len(<<Head(q.msg_list)>>) = 1
    BY <2>2
  <2>4. Finish(q) \in QueueOf(S) /\ WorkConserving(Finish(q))
    BY <1>1, <1>2, <2>1, <2>2, <2>3 DEF QueueOf, WorkConserving
  <2>5. <<Head(q.msg_list)>> \o Tail(q.msg_list) = q.msg_list
    BY <1>1, <1>6, ConsHeadTail
  <2>6. Contents(Finish(q)) = q.msg_list
    BY <2>1, <2>5 DEF Contents
  <2> QED BY <1>3, <1>4, <2>4, <2>6 DEF Contents
<1> QED BY <1>5, <1>6

-----------------------------------------------------------------------------
(* The inductive invariant.                                                *)

\* What the controller queues: a message and the switch it came from.
Item == [from : Switch, msg : UpMessage]

SwitchInv ==
  /\ SwitchTypeOK
  /\ \A s \in Switch : WorkConserving(proc[s])
  /\ BufferWithinCapacity

ControllerInv == ControllerTypeOK /\ WorkConserving(ctrl)

\* The inductive invariant.  An action reads frames from queues, buffers and
\* messages and takes the head of a queue, so each type needs all the others;
\* Finish needs to know that a service is in progress.
Inv == LinksTypeOK /\ SwitchInv /\ ControllerInv

-----------------------------------------------------------------------------
(* Messages.                                                               *)

\* The match read from a frame is a match.
LEMMA ExtractedMatch ==
  ASSUME NEW f \in Frame
  PROVE  ExtractMatch(f) \in Match
BY DEF ExtractMatch, Frame, Match

\* What a switch sends is a message for the controller.
LEMMA UpMessages ==
  /\ Established \in UpMessage
  /\ FeaturesReply \in UpMessage
  /\ \A id \in BufferId, f \in Frame : PacketInHeader(id, f) \in UpMessage
  /\ \A f \in Frame : PacketInFrame(f) \in UpMessage
<1>1. ASSUME NEW id \in BufferId, NEW f \in Frame
      PROVE  PacketInHeader(id, f) \in UpMessage
  <2>1. f.id \in Nat /\ f.arp_tpa \in Host \cup {NoHost}
    BY DEF Frame
  <2> QED BY <2>1, ExtractedMatch DEF UpMessage, PacketInHeader
<1>2. ASSUME NEW f \in Frame PROVE PacketInFrame(f) \in UpMessage
  BY DEF UpMessage, PacketInFrame
<1> QED BY <1>1, <1>2 DEF UpMessage

\* The fields of a packet-in, in either form.
LEMMA PacketInFields ==
  ASSUME NEW m \in UpMessage, m.type \in PacketIns
  PROVE  \/ /\ m.type = "PACKET_IN"
            /\ m.buffer_id \in BufferId
            /\ m.match \in Match
            /\ m.arp_tpa \in Host \cup {NoHost} /\ m.id \in Nat
         \/ /\ m.type = "PACKET_IN_FULL"
            /\ m.frame \in Frame
BY DEF UpMessage, PacketIns, Established, FeaturesReply

\* The header of a packet-in is a match, and the packet-out that answers it is
\* a message for a switch.
LEMMA PacketInAnswer ==
  ASSUME NEW m \in UpMessage, m.type \in PacketIns,
         NEW p \in Port \cup {FloodPort}
  PROVE  Header(m) \in Match /\ PacketOut(m, p) \in DownMessage
<1>1. CASE m.type = "PACKET_IN" /\ m.buffer_id \in BufferId /\ m.match \in Match
  BY <1>1 DEF Header, PacketOut, PacketOutHeader, DownMessage
<1>2. CASE m.type = "PACKET_IN_FULL" /\ m.frame \in Frame
  BY <1>2, ExtractedMatch DEF Header, PacketOut, PacketOutFrame, DownMessage
<1> QED BY <1>1, <1>2, PacketInFields

\* What the controller sends besides.
LEMMA DownMessages ==
  /\ FeaturesRequest \in DownMessage
  /\ \A m \in Match, p \in Port : FlowMod(m, p) \in DownMessage
BY DEF DownMessage, FlowMod

\* The fields of the messages a switch reads.
LEMMA DownFields ==
  ASSUME NEW m \in DownMessage
  PROVE  /\ m.type = "FLOW_MOD" => m.match \in Match /\ m.outport \in Port
         /\ m.type = "PACKET_OUT" =>
              /\ m.buffer_id \in BufferId
              /\ m.outport \in Port \cup {FloodPort, AnyPort}
         /\ m.type = "PACKET_OUT_FULL" =>
              m.frame \in Frame /\ m.outport \in Port \cup {FloodPort}
BY DEF DownMessage, FeaturesRequest

-----------------------------------------------------------------------------
(* The buffer.                                                             *)

\* The ids in use are finitely many.
LEMMA BufferFinite ==
  ASSUME NEW b, IsBuffer(b)
  PROVE  /\ IsFiniteSet(DOMAIN b.pending_msgs)
         /\ Cardinality(DOMAIN b.pending_msgs) \in Nat
<1>1. IsFiniteSet(BufferId)
  BY NoBufferAssumption, FS_Interval DEF BufferId
<1>2. DOMAIN b.pending_msgs \in SUBSET BufferId
  BY DEF IsBuffer, IsMap
<1>3. IsFiniteSet(DOMAIN b.pending_msgs)
  BY <1>1, <1>2, FS_Subset
<1> QED BY <1>3, FS_CardinalityType

\* initialize leaves a buffer with nothing in it.
LEMMA EmptyBufferFits ==
  IsBuffer(EmptyBuffer) /\ Cardinality(DOMAIN EmptyBuffer.pending_msgs) <= Capacity
<1>1. DOMAIN << >> = {} /\ << >> \in [{} -> Frame]
  OBVIOUS
<1>2. Cardinality({}) = 0
  BY FS_EmptySet
<1>3. 1 \in BufferId
  BY NoBufferAssumption DEF BufferId
<1>4. IsMap(<< >>, BufferId, Frame)
  BY <1>1 DEF IsMap
<1> QED BY <1>1, <1>2, <1>3, <1>4, CapacityAssumption DEF EmptyBuffer, IsBuffer

\* storeMessage on a buffer that is not full: it returns an id, and leaves a
\* buffer within its capacity.
LEMMA StoreFits ==
  ASSUME NEW b, IsBuffer(b), ~isfull(b), NEW f \in Frame
  PROVE  /\ StoredId(b) \in BufferId
         /\ IsBuffer(storeMessage(b, f))
         /\ Cardinality(DOMAIN storeMessage(b, f).pending_msgs) <= Capacity
<1> DEFINE map == b.pending_msgs
           key == b.next_buffer_id
           new == Insert(map, key, f)
<1>1. key \in BufferId /\ IsMap(map, BufferId, Frame)
  BY DEF IsBuffer
<1>2. StoredId(b) \in BufferId
  BY <1>1, NoBufferAssumption DEF StoredId, BufferId
<1>3. (IF key < NoBuffer THEN key + 1 ELSE 0) \in BufferId
  BY <1>1, NoBufferAssumption DEF BufferId
<1>4. PICK D \in SUBSET BufferId : map \in [D -> Frame]
  BY <1>1 DEF IsMap
<1>5. /\ DOMAIN new = DOMAIN map \cup {key}
      /\ IsMap(new, BufferId, Frame)
  <2>1. CASE key \in DOMAIN map
    BY <1>1, <2>1 DEF Insert
  <2>2. CASE key \notin DOMAIN map
    <3>1. new = [k \in D \cup {key} |-> IF k = key THEN f ELSE map[k]]
      BY <1>4, <2>2 DEF Insert
    <3>2. new \in [D \cup {key} -> Frame] /\ D \cup {key} \in SUBSET BufferId
      BY <1>1, <1>4, <3>1
    <3> QED BY <1>4, <3>1, <3>2 DEF IsMap
  <2> QED BY <2>1, <2>2
<1>6. Cardinality(DOMAIN map \cup {key}) <= Capacity
  <2>1. /\ IsFiniteSet(DOMAIN map)
        /\ Cardinality(DOMAIN map) \in Nat
    BY BufferFinite
  <2>2. Cardinality(DOMAIN map) < Capacity
    BY <2>1, CapacityAssumption DEF isfull
  <2>3. Cardinality(DOMAIN map \cup {key})
          = IF key \in DOMAIN map THEN Cardinality(DOMAIN map)
            ELSE Cardinality(DOMAIN map) + 1
    BY <2>1, FS_AddElement
  <2> QED BY <2>1, <2>2, <2>3, CapacityAssumption
<1>7. storeMessage(b, f)
        = [pending_msgs |-> new,
           next_buffer_id |-> IF key < NoBuffer THEN key + 1 ELSE 0]
  BY DEF storeMessage
<1> HIDE DEF new
<1>8. /\ storeMessage(b, f).pending_msgs = new
      /\ storeMessage(b, f).next_buffer_id
           = IF key < NoBuffer THEN key + 1 ELSE 0
  BY <1>7
<1>9. IsBuffer(storeMessage(b, f))
  BY <1>3, <1>5, <1>7, <1>8 DEF IsBuffer
<1> QED BY <1>2, <1>5, <1>6, <1>8, <1>9

\* returnMessage leaves a buffer with no more frames than before.
LEMMA ReturnFits ==
  ASSUME NEW b, IsBuffer(b), NEW id,
         Cardinality(DOMAIN b.pending_msgs) <= Capacity
  PROVE  /\ IsBuffer(returnMessage(b, id))
         /\ Cardinality(DOMAIN returnMessage(b, id).pending_msgs) <= Capacity
<1> DEFINE map == b.pending_msgs
           new == [k \in DOMAIN map \ {id} |-> map[k]]
<1>1. b.next_buffer_id \in BufferId /\ IsMap(map, BufferId, Frame)
  BY DEF IsBuffer
<1>2. returnMessage(b, id)
        = [pending_msgs |-> new, next_buffer_id |-> b.next_buffer_id]
  <2>1. b = [pending_msgs |-> map, next_buffer_id |-> b.next_buffer_id]
    BY DEF IsBuffer
  <2> HIDE DEF map
  <2>2. returnMessage(b, id) = [b EXCEPT !.pending_msgs = new]
    BY DEF returnMessage, Restrict, map
  <2> QED BY <2>1, <2>2
<1>3. IsMap(new, BufferId, Frame)
  <2>1. PICK D \in SUBSET BufferId : map \in [D -> Frame]
    BY <1>1 DEF IsMap
  <2>2. new \in [D \ {id} -> Frame] /\ D \ {id} \in SUBSET BufferId
    BY <2>1
  <2> QED BY <2>2 DEF IsMap
<1>4. Cardinality(DOMAIN new) <= Capacity
  <2>1. /\ IsFiniteSet(DOMAIN map)
        /\ Cardinality(DOMAIN map) \in Nat
    BY BufferFinite
  <2>2. DOMAIN new \in SUBSET DOMAIN map
    OBVIOUS
  <2>3. IsFiniteSet(DOMAIN new) /\ Cardinality(DOMAIN new) <= Cardinality(DOMAIN map)
    BY <2>1, <2>2, FS_Subset
  <2>4. Cardinality(DOMAIN new) \in Nat
    BY <2>3, FS_CardinalityType
  <2> QED BY <2>1, <2>3, <2>4, CapacityAssumption
<1> HIDE DEF new
<1>5. returnMessage(b, id).pending_msgs = new
  BY <1>2
<1> QED BY <1>1, <1>2, <1>3, <1>4, <1>5 DEF IsBuffer

-----------------------------------------------------------------------------
(* The flow table.                                                         *)

\* Of the entries that match there is a first one.
LEMMA FirstHitHits ==
  ASSUME NEW table \in Seq(Entry), NEW m, lookup(table, m)
  PROVE  /\ FirstHit(table, m) \in DOMAIN table
         /\ Hits(table, m, FirstHit(table, m))
<1> DEFINE less == {ij \in Nat \X Nat : ij[1] < ij[2]}
           T == {i \in DOMAIN table : Hits(table, m, i)}
<1>1. IsWellFoundedOn(less, Nat)
  BY NatLessThanWellFounded DEF OpToRel
<1>2. DOMAIN table = 1..Len(table) /\ Len(table) \in Nat
  BY LenProperties
<1>3. T \subseteq Nat /\ T # {}
  BY <1>2 DEF lookup
<1>4. PICK i \in T : \A j \in T : <<j, i>> \notin less
  <2> HIDE DEF less, T
  <2> QED BY <1>1, <1>3, WFMin
<1>5. \A j \in 1..(i - 1) : ~Hits(table, m, j)
  <2>1. SUFFICES ASSUME NEW j \in 1..(i - 1), Hits(table, m, j) PROVE FALSE
    OBVIOUS
  <2>2. i \in 1..Len(table)
    BY <1>2
  <2>3. j \in 1..Len(table) /\ j < i /\ j \in Nat /\ i \in Nat
    BY <1>2, <2>2
  <2>4. j \in T /\ <<j, i>> \in less
    BY <1>2, <2>1, <2>3
  <2> QED BY <1>4, <2>4
<1> QED BY <1>5 DEF FirstHit

\* The action of a table that has a matching entry is the port of that entry.
LEMMA ActionIsPort ==
  ASSUME NEW table \in Seq(Entry), NEW m, lookup(table, m)
  PROVE  returnAction(table, m) \in Port
<1>1. FirstHit(table, m) \in DOMAIN table
  BY FirstHitHits
<1>2. table[FirstHit(table, m)] \in Entry
  BY <1>1, LenProperties
<1> QED BY <1>2 DEF returnAction, Entry

\* addEntry leaves a table of entries.
LEMMA AddedIsTable ==
  ASSUME NEW table \in Seq(Entry), NEW e \in Entry, NEW t \in addEntry(table, e)
  PROVE  t \in Seq(Entry)
<1>1. PICK i \in 1..(Len(table) + 1) : t = Splice(table, i, e)
  BY DEF addEntry
<1>2. Len(table) \in Nat
  BY LenProperties
<1>3. ASSUME NEW k \in 1..(Len(table) + 1)
      PROVE  (IF k < i THEN table[k] ELSE IF k = i THEN e ELSE table[k - 1])
               \in Entry
  <2>1. CASE k < i
    BY <1>2, <2>1
  <2>2. CASE k = i
    BY <1>2, <2>2
  <2>3. CASE k > i
    BY <1>2, <2>3
  <2> QED BY <1>2, <2>1, <2>2, <2>3
<1>4. t \in [1..(Len(table) + 1) -> Entry]
  BY <1>1, <1>3 DEF Splice
<1> QED BY <1>2, <1>4

\* deleteEntry leaves a table of entries.
LEMMA DeletedIsTable ==
  ASSUME NEW table \in Seq(Entry), NEW m
  PROVE  deleteEntry(table, m) \in Seq(Entry)
<1>1. CASE ~lookup(table, m)
  BY <1>1 DEF deleteEntry
<1>2. CASE lookup(table, m)
  <2> DEFINE i == FirstHit(table, m)
             t == [k \in 1..(Len(table) - 1) |->
                     IF k < i THEN table[k] ELSE table[k + 1]]
  <2>1. deleteEntry(table, m) = t
    BY <1>2 DEF deleteEntry
  <2> HIDE DEF i
  <2>2. Len(table) \in Nat
    BY LenProperties
  <2>3. Len(table) - 1 \in Nat
    <3>1. DOMAIN table # {} /\ DOMAIN table = 1..Len(table)
      BY <1>2, LenProperties DEF lookup
    <3> QED BY <2>2, <3>1
  <2>4. ASSUME NEW k \in 1..(Len(table) - 1)
        PROVE  table[k] \in Entry /\ table[k + 1] \in Entry
    BY <2>2
  <2>5. t \in [1..(Len(table) - 1) -> Entry]
    BY <2>4
  <2> QED BY <2>1, <2>3, <2>5
<1> QED BY <1>1, <1>2

-----------------------------------------------------------------------------
(* What the steps do to one variable.                                      *)

\* Frames and messages under way are still that once their first is consumed.
LEMMA Consumed ==
  ASSUME LinksTypeOK, NEW s \in Switch
  PROVE  /\ \A p \in Port : wire[s][p] # <<>> =>
              /\ Head(wire[s][p]) \in Frame
              /\ [wire EXCEPT ![s][p] = Tail(@)]
                   \in [Switch -> [Port -> Seq(Frame)]]
         /\ toSwitch[s] # <<>> =>
              /\ Head(toSwitch[s]) \in DownMessage
              /\ [toSwitch EXCEPT ![s] = Tail(@)] \in [Switch -> Seq(DownMessage)]
         /\ toController[s] # <<>> =>
              /\ Head(toController[s]) \in UpMessage
              /\ [toController EXCEPT ![s] = Tail(@)]
                   \in [Switch -> Seq(UpMessage)]
<1>1. /\ wire \in [Switch -> [Port -> Seq(Frame)]]
      /\ toController \in [Switch -> Seq(UpMessage)]
      /\ toSwitch \in [Switch -> Seq(DownMessage)]
  BY DEF LinksTypeOK
<1>2. ASSUME NEW p \in Port, wire[s][p] # <<>>
      PROVE  /\ Head(wire[s][p]) \in Frame
             /\ [wire EXCEPT ![s][p] = Tail(@)] \in [Switch -> [Port -> Seq(Frame)]]
  <2>1. wire[s][p] \in Seq(Frame)
    BY <1>1
  <2>2. Head(wire[s][p]) \in Frame /\ Tail(wire[s][p]) \in Seq(Frame)
    BY <1>2, <2>1, HeadTailProperties
  <2> QED BY <1>1, <2>2
<1>3. ASSUME toSwitch[s] # <<>>
      PROVE  /\ Head(toSwitch[s]) \in DownMessage
             /\ [toSwitch EXCEPT ![s] = Tail(@)] \in [Switch -> Seq(DownMessage)]
  BY <1>1, <1>3
<1>4. ASSUME toController[s] # <<>>
      PROVE  /\ Head(toController[s]) \in UpMessage
             /\ [toController EXCEPT ![s] = Tail(@)] \in [Switch -> Seq(UpMessage)]
  BY <1>1, <1>4
<1> QED BY <1>2, <1>3, <1>4

\* A transmission puts frames on links.
LEMMA Transmitted ==
  ASSUME LinksTypeOK, NEW s, NEW f \in Frame, NEW ps, Transmit(s, f, ps)
  PROVE  /\ wire' \in [Switch -> [Port -> Seq(Frame)]]
         /\ sent' \in Seq(Sent)
         /\ received' \in [Host -> Seq(Nat)]
<1>1. /\ wire \in [Switch -> [Port -> Seq(Frame)]]
      /\ sent \in Seq(Sent)
      /\ received \in [Host -> Seq(Nat)]
  BY DEF LinksTypeOK
<1>2. \A q \in Port : [f EXCEPT !.in_port = q] \in Frame
  BY DEF Frame
<1>3. \A t \in Switch, q \in Port :
        Append(wire[t][q], [f EXCEPT !.in_port = q]) \in Seq(Frame)
  <2>1. \A t \in Switch, q \in Port : wire[t][q] \in Seq(Frame)
    BY <1>1
  <2> QED BY <1>2, <2>1, AppendProperties
<1>4. \A h \in Host : Append(received[h], f.id) \in Seq(Nat)
  <2>1. f.id \in Nat
    BY DEF Frame
  <2> QED BY <1>1, <2>1
<1>5. wire' = [t \in Switch |-> [q \in Port |->
                IF \E p \in ps : Peer[s][p] = SwitchEnd(t, q)
                THEN Append(wire[t][q], [f EXCEPT !.in_port = q])
                ELSE wire[t][q]]]
  BY DEF Transmit
<1>6. wire' \in [Switch -> [Port -> Seq(Frame)]]
  BY <1>1, <1>3, <1>5
<1>7. received' \in [Host -> Seq(Nat)]
  BY <1>1, <1>4 DEF Transmit
<1> QED BY <1>1, <1>6, <1>7 DEF Transmit

\* A switch sends a message to the controller.
LEMMA SentUp ==
  ASSUME LinksTypeOK, NEW s \in Switch, NEW m \in UpMessage, SendUp(s, <<m>>)
  PROVE  toController' \in [Switch -> Seq(UpMessage)]
<1>1. toController \in [Switch -> Seq(UpMessage)]
  BY DEF LinksTypeOK
<1>2. <<m>> \in Seq(UpMessage)
  OBVIOUS
<1>3. toController[s] \o <<m>> \in Seq(UpMessage)
  BY <1>1, <1>2, ConcatProperties
<1> QED BY <1>1, <1>3 DEF SendUp

\* A frame joins the service queue of a switch.
LEMMA FrameQueued ==
  ASSUME SwitchInv, NEW s \in Switch, NEW f \in Frame,
         proc' = [proc EXCEPT ![s] = Arrive(@, f)]
  PROVE  /\ proc' \in [Switch -> QueueOf(Frame)]
         /\ \A t \in Switch : WorkConserving(proc'[t])
<1>1. /\ proc \in [Switch -> QueueOf(Frame)]
      /\ \A t \in Switch : WorkConserving(proc[t])
  BY DEF SwitchInv, SwitchTypeOK
<1>2. Arrive(proc[s], f) \in QueueOf(Frame) /\ WorkConserving(Arrive(proc[s], f))
  BY <1>1, ArriveIsLast
<1>3. \A t \in Switch : proc'[t] = IF t = s THEN Arrive(proc[s], f) ELSE proc[t]
  BY <1>1
<1> QED BY <1>1, <1>2, <1>3

\* A service ends: the frame served is a frame, and the queue moves on.
LEMMA FrameServed ==
  ASSUME SwitchInv, NEW s \in Switch, ServiceEnds(s)
  PROVE  /\ Served(s) \in Frame
         /\ NextService(s) =>
              /\ proc' \in [Switch -> QueueOf(Frame)]
              /\ \A t \in Switch : WorkConserving(proc'[t])
<1>1. /\ proc \in [Switch -> QueueOf(Frame)]
      /\ \A t \in Switch : WorkConserving(proc[t])
  BY DEF SwitchInv, SwitchTypeOK
<1>2. /\ Head(proc[s].event) \in Frame
      /\ Finish(proc[s]) \in QueueOf(Frame)
      /\ WorkConserving(Finish(proc[s]))
  <2>1. proc[s] \in QueueOf(Frame) /\ WorkConserving(proc[s]) /\ proc[s].event # <<>>
    BY <1>1 DEF ServiceEnds
  <2> QED BY <2>1, FinishIsFirst
<1>3. NextService(s) =>
        \A t \in Switch : proc'[t] = IF t = s THEN Finish(proc[s]) ELSE proc[t]
  BY <1>1 DEF NextService
<1> QED BY <1>1, <1>2, <1>3 DEF Served, NextService

-----------------------------------------------------------------------------
(* The parts that a step leaves alone.                                     *)

\* The switches' part of the invariant is about their variables only.
LEMMA SwitchKept ==
  ASSUME SwitchInv, UNCHANGED switchVars
  PROVE  SwitchInv'
BY DEF SwitchInv, SwitchTypeOK, BufferWithinCapacity, switchVars

\* The controller's part of the invariant is about its variables only.
LEMMA ControllerKept ==
  ASSUME ControllerInv, UNCHANGED controllerVars
  PROVE  ControllerInv'
BY DEF ControllerInv, ControllerTypeOK, controllerVars

\* The switches' part, when the service queues have moved on and nothing else.
LEMMA OnlyProcMoved ==
  ASSUME SwitchInv, UNCHANGED <<socket, buffer, entry_map, timers>>,
         proc' \in [Switch -> QueueOf(Frame)],
         \A s \in Switch : WorkConserving(proc'[s])
  PROVE  SwitchInv'
BY DEF SwitchInv, SwitchTypeOK, BufferWithinCapacity

\* The switches' part, when one buffer and the service queues have changed.
LEMMA BufferMoved ==
  ASSUME SwitchInv, UNCHANGED <<socket, entry_map, timers>>,
         proc' \in [Switch -> QueueOf(Frame)],
         \A t \in Switch : WorkConserving(proc'[t]),
         NEW s \in Switch, NEW b, buffer' = [buffer EXCEPT ![s] = b],
         IsBuffer(b), Cardinality(DOMAIN b.pending_msgs) <= Capacity
  PROVE  SwitchInv'
<1>1. buffer = [t \in Switch |-> buffer[t]]
  BY DEF SwitchInv, SwitchTypeOK
<1>2. \A t \in Switch : buffer'[t] = IF t = s THEN b ELSE buffer[t]
  BY <1>1
<1>3. buffer' = [t \in Switch |-> buffer'[t]]
  BY <1>1
<1>4. \A t \in Switch : /\ IsBuffer(buffer'[t])
                        /\ Cardinality(DOMAIN buffer'[t].pending_msgs) <= Capacity
  <2>1. \A t \in Switch : /\ IsBuffer(buffer[t])
                          /\ Cardinality(DOMAIN buffer[t].pending_msgs) <= Capacity
    BY DEF SwitchInv, SwitchTypeOK, BufferWithinCapacity
  <2> QED BY <1>2, <2>1
<1> QED BY <1>3, <1>4 DEF SwitchInv, SwitchTypeOK, BufferWithinCapacity

\* The links' part, when only frames have moved.
LEMMA FramesMoved ==
  ASSUME LinksTypeOK, UNCHANGED channelVars, aborted' \in BOOLEAN,
         wire' \in [Switch -> [Port -> Seq(Frame)]],
         sent' \in Seq(Sent),
         received' \in [Host -> Seq(Nat)]
  PROVE  LinksTypeOK'
BY DEF LinksTypeOK, channelVars

\* The links' part, when only messages have moved.
LEMMA MessagesMoved ==
  ASSUME LinksTypeOK, UNCHANGED linkVars, aborted' \in BOOLEAN,
         toController' \in [Switch -> Seq(UpMessage)],
         toSwitch' \in [Switch -> Seq(DownMessage)]
  PROVE  LinksTypeOK'
BY DEF LinksTypeOK, linkVars

-----------------------------------------------------------------------------
(* The steps of a switch.                                                  *)

\* connect preserves the links' and the switches' part of the invariant, as do
\* the steps of the next lemmas.
LEMMA ConnectKeeps ==
  ASSUME LinksTypeOK, SwitchInv, NEW s \in Switch, connect(s)
  PROVE  LinksTypeOK' /\ SwitchInv'
<1>1. toController' \in [Switch -> Seq(UpMessage)]
  BY SentUp, UpMessages DEF connect
<1>2. LinksTypeOK'
  BY <1>1, MessagesMoved DEF connect, LinksTypeOK
<1>3. socket' \in [Switch -> {"BOUND", "CONNECTING"}]
  BY DEF connect, SwitchInv, SwitchTypeOK
<1>4. SwitchInv'
  BY <1>3 DEF connect, SwitchInv, SwitchTypeOK, BufferWithinCapacity
<1> QED BY <1>2, <1>4

\* A frame that arrives goes from the link to the service queue.
LEMMA ArrivalKeeps ==
  ASSUME LinksTypeOK, SwitchInv, NEW s \in Switch, NEW p \in Port,
         FrameArrives(s, p)
  PROVE  LinksTypeOK' /\ SwitchInv'
<1>1. /\ Head(wire[s][p]) \in Frame
      /\ wire' \in [Switch -> [Port -> Seq(Frame)]]
  BY Consumed DEF FrameArrives
<1>2. LinksTypeOK'
  BY <1>1 DEF FrameArrives, LinksTypeOK, channelVars
<1>3. /\ proc' \in [Switch -> QueueOf(Frame)]
      /\ \A t \in Switch : WorkConserving(proc'[t])
  BY <1>1, FrameQueued DEF FrameArrives
<1>4. SwitchInv'
  BY <1>3, OnlyProcMoved DEF FrameArrives
<1> QED BY <1>2, <1>4

\* The end of a service, in each of its four outcomes.
LEMMA ServiceKeeps ==
  ASSUME LinksTypeOK, SwitchInv, NEW s \in Switch, SwitchServes(s)
  PROVE  LinksTypeOK' /\ SwitchInv'
<1>1. aborted \in BOOLEAN /\ toSwitch \in [Switch -> Seq(DownMessage)]
  BY DEF LinksTypeOK
<1>2. CASE ForwardFrame(s)
  <2>1. Served(s) \in Frame
    BY <1>2, FrameServed DEF ForwardFrame
  <2>2. /\ proc' \in [Switch -> QueueOf(Frame)]
        /\ \A t \in Switch : WorkConserving(proc'[t])
    BY <1>2, FrameServed DEF ForwardFrame
  <2>3. PICK ps : Transmit(s, Served(s), ps)
    BY <1>2 DEF ForwardFrame
  <2>4. LinksTypeOK'
    <3>1. /\ wire' \in [Switch -> [Port -> Seq(Frame)]]
          /\ sent' \in Seq(Sent)
          /\ received' \in [Host -> Seq(Nat)]
      BY <2>1, <2>3, Transmitted
    <3>2. UNCHANGED channelVars /\ aborted' \in BOOLEAN
      BY <1>1, <1>2 DEF ForwardFrame
    <3> QED BY <3>1, <3>2, FramesMoved
  <2>5. SwitchInv'
    BY <1>2, <2>2, OnlyProcMoved DEF ForwardFrame
  <2> QED BY <2>4, <2>5
<1>3. CASE SendPacketIn(s)
  <2>1. Served(s) \in Frame
    BY <1>3, FrameServed DEF SendPacketIn
  <2>2. /\ proc' \in [Switch -> QueueOf(Frame)]
        /\ \A t \in Switch : WorkConserving(proc'[t])
    BY <1>3, FrameServed DEF SendPacketIn
  <2>3. IsBuffer(buffer[s]) /\ ~isfull(buffer[s])
    BY <1>3 DEF SendPacketIn, SwitchInv, SwitchTypeOK
  <2> DEFINE b == storeMessage(buffer[s], Served(s))
  <2>4. /\ StoredId(buffer[s]) \in BufferId
        /\ IsBuffer(b)
        /\ Cardinality(DOMAIN b.pending_msgs) <= Capacity
    BY <2>1, <2>3, StoreFits
  <2>5. buffer' = [buffer EXCEPT ![s] = b]
    BY <1>3 DEF SendPacketIn
  <2>6. UNCHANGED <<socket, entry_map, timers>>
    BY <1>3 DEF SendPacketIn
  <2>7. SwitchInv'
    <3> HIDE DEF b
    <3> QED BY <2>2, <2>4, <2>5, <2>6, BufferMoved
  <2>8. toController' \in [Switch -> Seq(UpMessage)]
    <3>1. PacketInHeader(StoredId(buffer[s]), Served(s)) \in UpMessage
      BY <2>1, <2>4, UpMessages
    <3> QED BY <1>3, <3>1, SentUp DEF SendPacketIn
  <2>9. LinksTypeOK'
    BY <1>1, <1>3, <2>8, MessagesMoved DEF SendPacketIn
  <2> QED BY <2>7, <2>9
<1>4. CASE SendCompletePacketIn(s)
  <2>1. Served(s) \in Frame
    BY <1>4, FrameServed DEF SendCompletePacketIn
  <2>2. /\ proc' \in [Switch -> QueueOf(Frame)]
        /\ \A t \in Switch : WorkConserving(proc'[t])
    BY <1>4, FrameServed DEF SendCompletePacketIn
  <2>3. SwitchInv'
    BY <1>4, <2>2, OnlyProcMoved DEF SendCompletePacketIn
  <2>4. toController' \in [Switch -> Seq(UpMessage)]
    <3>1. PacketInFrame(Served(s)) \in UpMessage
      BY <2>1, UpMessages
    <3> QED BY <1>4, <3>1, SentUp DEF SendCompletePacketIn
  <2>5. LinksTypeOK'
    BY <1>1, <1>4, <2>4, MessagesMoved DEF SendCompletePacketIn
  <2> QED BY <2>3, <2>5
<1>5. CASE PacketInOnClosedSocket(s)
  <2>1. SwitchInv'
    BY <1>5, SwitchKept DEF PacketInOnClosedSocket
  <2>2. LinksTypeOK'
    BY <1>5 DEF PacketInOnClosedSocket, LinksTypeOK, linkVars, channelVars
  <2> QED BY <2>1, <2>2
<1> QED BY <1>2, <1>3, <1>4, <1>5 DEF SwitchServes

\* A message of the controller, of each of the five kinds.
LEMMA ReceivingKeeps ==
  ASSUME LinksTypeOK, SwitchInv, NEW s \in Switch, SwitchReceives(s)
  PROVE  LinksTypeOK' /\ SwitchInv'
<1>1. /\ aborted \in BOOLEAN
      /\ toController \in [Switch -> Seq(UpMessage)]
  BY DEF LinksTypeOK
<1>2. ASSUME NEW type, Receives(s, type)
      PROVE  /\ Received(s) \in DownMessage /\ Received(s).type = type
             /\ Consume(s) => toSwitch' \in [Switch -> Seq(DownMessage)]
  BY <1>2, Consumed DEF Receives, Received, Consume
<1>3. CASE handleFeaturesRequest(s)
  <2>1. toSwitch' \in [Switch -> Seq(DownMessage)]
    BY <1>2, <1>3 DEF handleFeaturesRequest
  <2>2. toController' \in [Switch -> Seq(UpMessage)]
    BY <1>3, SentUp, UpMessages DEF handleFeaturesRequest
  <2>3. LinksTypeOK'
    BY <1>1, <1>3, <2>1, <2>2, MessagesMoved DEF handleFeaturesRequest
  <2>4. SwitchInv'
    BY <1>3, SwitchKept DEF handleFeaturesRequest
  <2> QED BY <2>3, <2>4
<1>4. CASE handleFlowMod(s)
  <2>1. /\ Received(s) \in DownMessage /\ Received(s).type = "FLOW_MOD"
        /\ toSwitch' \in [Switch -> Seq(DownMessage)]
    BY <1>2, <1>4 DEF handleFlowMod
  <2>2. Received(s).match \in Match /\ Received(s).outport \in Port
    BY <2>1, DownFields
  <2>3. LinksTypeOK'
    BY <1>1, <1>4, <2>1, MessagesMoved DEF handleFlowMod
  <2>4. entry_map' \in [Switch -> Seq(Entry)]
    <3> DEFINE e == [match |-> Received(s).match, outport |-> Received(s).outport]
    <3>1. e \in Entry
      BY <2>2 DEF Entry
    <3>2. PICK t \in addEntry(entry_map[s], e) :
            entry_map' = [entry_map EXCEPT ![s] = t]
      BY <1>4 DEF handleFlowMod
    <3> HIDE DEF e
    <3>3. entry_map \in [Switch -> Seq(Entry)]
      BY DEF SwitchInv, SwitchTypeOK
    <3>4. t \in Seq(Entry)
      BY <3>1, <3>3, AddedIsTable
    <3> QED BY <3>2, <3>3, <3>4
  <2>5. timers' \in [Switch -> Seq(Match)]
    <3>1. timers \in [Switch -> Seq(Match)]
      BY DEF SwitchInv, SwitchTypeOK
    <3>2. Append(timers[s], Received(s).match) \in Seq(Match)
      BY <2>2, <3>1
    <3> QED BY <1>4, <3>1, <3>2 DEF handleFlowMod
  <2>6. SwitchInv'
    BY <1>4, <2>4, <2>5 DEF handleFlowMod, SwitchInv, SwitchTypeOK,
                            BufferWithinCapacity
  <2> QED BY <2>3, <2>6
<1>5. CASE handlePacketOut(s)
  <2> DEFINE id == Received(s).buffer_id
             f == buffer[s].pending_msgs[id]
             b == returnMessage(buffer[s], id)
  <2>1. /\ IsBuffer(buffer[s])
        /\ Cardinality(DOMAIN buffer[s].pending_msgs) <= Capacity
    BY DEF SwitchInv, SwitchTypeOK, BufferWithinCapacity
  <2>2. CASE id \in DOMAIN buffer[s].pending_msgs
    <3>1. f \in Frame
      BY <2>1, <2>2 DEF IsBuffer, IsMap
    <3>2. toSwitch' \in [Switch -> Seq(DownMessage)]
      BY <1>2, <1>5, <2>2 DEF handlePacketOut
    <3>3. PICK ps : Transmit(s, f, ps)
      BY <1>5, <2>2 DEF handlePacketOut
    <3>4. /\ wire' \in [Switch -> [Port -> Seq(Frame)]]
          /\ sent' \in Seq(Sent)
          /\ received' \in [Host -> Seq(Nat)]
      <4> HIDE DEF f
      <4> QED BY <3>1, <3>3, Transmitted
    <3>5. /\ buffer' = [buffer EXCEPT ![s] = b]
          /\ UNCHANGED <<aborted, toController, socket, proc, entry_map, timers>>
      BY <1>5, <2>2 DEF handlePacketOut
    <3>6. LinksTypeOK'
      BY <1>1, <3>2, <3>4, <3>5 DEF LinksTypeOK
    <3>7. IsBuffer(b) /\ Cardinality(DOMAIN b.pending_msgs) <= Capacity
      BY <2>1, ReturnFits
    <3>8. /\ proc' \in [Switch -> QueueOf(Frame)]
          /\ \A t \in Switch : WorkConserving(proc'[t])
      BY <3>5 DEF SwitchInv, SwitchTypeOK
    <3>9. SwitchInv'
      <4> HIDE DEF b
      <4> QED BY <3>5, <3>7, <3>8, BufferMoved
    <3> QED BY <3>6, <3>9
  <2>3. CASE id \notin DOMAIN buffer[s].pending_msgs
    <3>1. /\ aborted' = TRUE
          /\ UNCHANGED <<linkVars, toSwitch, toController, switchVars>>
      BY <1>5, <2>3 DEF handlePacketOut, switchVars
    <3>2. LinksTypeOK'
      BY <3>1 DEF LinksTypeOK, linkVars
    <3> QED BY <3>1, <3>2, SwitchKept
  <2> QED BY <2>2, <2>3
<1>6. CASE handleCompletePacketOut(s)
  <2>1. /\ Received(s) \in DownMessage /\ Received(s).type = "PACKET_OUT_FULL"
        /\ toSwitch' \in [Switch -> Seq(DownMessage)]
    BY <1>2, <1>6 DEF handleCompletePacketOut
  <2>2. Received(s).frame \in Frame
    BY <2>1, DownFields
  <2>3. PICK ps : Transmit(s, Received(s).frame, ps)
    BY <1>6 DEF handleCompletePacketOut
  <2>4. /\ wire' \in [Switch -> [Port -> Seq(Frame)]]
        /\ sent' \in Seq(Sent)
        /\ received' \in [Host -> Seq(Nat)]
    BY <2>2, <2>3, Transmitted
  <2>5. LinksTypeOK'
    BY <1>1, <1>6, <2>1, <2>4 DEF LinksTypeOK, handleCompletePacketOut
  <2>6. SwitchInv'
    BY <1>6, SwitchKept DEF handleCompletePacketOut
  <2> QED BY <2>5, <2>6
<1>7. CASE dropBuffered(s)
  <2> DEFINE id == Received(s).buffer_id
             b == returnMessage(buffer[s], id)
  <2>1. CASE id \in DOMAIN buffer[s].pending_msgs
    <3>1. toSwitch' \in [Switch -> Seq(DownMessage)]
      BY <1>2, <1>7, <2>1 DEF dropBuffered
    <3>2. LinksTypeOK'
      BY <1>1, <1>7, <2>1, <3>1, MessagesMoved DEF dropBuffered
    <3>3. IsBuffer(b) /\ Cardinality(DOMAIN b.pending_msgs) <= Capacity
      BY ReturnFits DEF SwitchInv, SwitchTypeOK, BufferWithinCapacity
    <3>4. /\ buffer' = [buffer EXCEPT ![s] = b]
          /\ UNCHANGED <<socket, proc, entry_map, timers>>
      BY <1>7, <2>1 DEF dropBuffered
    <3>5. /\ proc' \in [Switch -> QueueOf(Frame)]
          /\ \A t \in Switch : WorkConserving(proc'[t])
      BY <3>4 DEF SwitchInv, SwitchTypeOK
    <3>6. SwitchInv'
      <4> HIDE DEF b
      <4> QED BY <3>3, <3>4, <3>5, BufferMoved
    <3> QED BY <3>2, <3>6
  <2>2. CASE id \notin DOMAIN buffer[s].pending_msgs
    <3>1. /\ aborted' = TRUE
          /\ UNCHANGED <<linkVars, toSwitch, toController, switchVars>>
      BY <1>7, <2>2 DEF dropBuffered, switchVars
    <3>2. LinksTypeOK'
      BY <1>1, <3>1 DEF LinksTypeOK, linkVars
    <3> QED BY <3>1, <3>2, SwitchKept
  <2> QED BY <2>1, <2>2
<1> QED BY <1>3, <1>4, <1>5, <1>6, <1>7 DEF SwitchReceives

\* A flow timer.
LEMMA TimerKeeps ==
  ASSUME LinksTypeOK, SwitchInv, NEW s \in Switch, FlowTimer(s)
  PROVE  LinksTypeOK' /\ SwitchInv'
<1>1. /\ entry_map \in [Switch -> Seq(Entry)]
      /\ timers \in [Switch -> Seq(Match)]
  BY DEF SwitchInv, SwitchTypeOK
<1>2. entry_map' \in [Switch -> Seq(Entry)]
  <2>1. deleteEntry(entry_map[s], Head(timers[s])) \in Seq(Entry)
    BY <1>1, DeletedIsTable
  <2> QED BY <1>1, <2>1 DEF FlowTimer
<1>3. timers' \in [Switch -> Seq(Match)]
  BY <1>1 DEF FlowTimer
<1>4. SwitchInv'
  BY <1>2, <1>3 DEF FlowTimer, SwitchInv, SwitchTypeOK, BufferWithinCapacity
<1>5. LinksTypeOK'
  BY DEF FlowTimer, LinksTypeOK, linkVars, channelVars
<1> QED BY <1>4, <1>5

-----------------------------------------------------------------------------
(* The controller.                                                         *)

\* A message of a switch joins the controller's service queue.
LEMMA MessageKeeps ==
  ASSUME LinksTypeOK, ControllerInv, UNCHANGED linkVars,
         NEW s \in Switch, MessageArrives(s)
  PROVE  LinksTypeOK' /\ ControllerInv'
<1>1. aborted \in BOOLEAN /\ toSwitch \in [Switch -> Seq(DownMessage)]
  BY DEF LinksTypeOK
<1>2. /\ Head(toController[s]) \in UpMessage
      /\ toController' \in [Switch -> Seq(UpMessage)]
  BY Consumed DEF MessageArrives
<1>3. LinksTypeOK'
  BY <1>1, <1>2, MessagesMoved DEF MessageArrives
<1>4. ctrl' \in QueueOf(Item) /\ WorkConserving(ctrl')
  <2> DEFINE item == [from |-> s, msg |-> Head(toController[s])]
  <2>1. item \in Item
    BY <1>2 DEF Item
  <2>2. ctrl \in QueueOf(Item) /\ WorkConserving(ctrl)
    BY DEF ControllerInv, ControllerTypeOK, Item
  <2>3. ctrl' = Arrive(ctrl, item)
    BY DEF MessageArrives
  <2> HIDE DEF item
  <2> QED BY <2>1, <2>2, <2>3, ArriveIsLast
<1>5. ControllerInv'
  BY <1>4 DEF MessageArrives, ControllerInv, ControllerTypeOK, Item
<1> QED BY <1>3, <1>5

\* The message in service is a message of a switch, and the end of its service
\* leaves a queue.
LEMMA MessageServed ==
  ASSUME ControllerInv, NEW types, Processes(types)
  PROVE  /\ From \in Switch /\ Message \in UpMessage /\ Message.type \in types
         /\ Finish(ctrl) \in QueueOf(Item) /\ WorkConserving(Finish(ctrl))
<1>1. ctrl \in QueueOf(Item) /\ WorkConserving(ctrl) /\ ctrl.event # <<>>
  BY DEF ControllerInv, ControllerTypeOK, Item, Processes
<1>2. /\ Head(ctrl.event) \in Item
      /\ Finish(ctrl) \in QueueOf(Item) /\ WorkConserving(Finish(ctrl))
  BY <1>1, FinishIsFirst
<1> QED BY <1>2 DEF From, Message, Processes, Item

\* Whatever the controller sends, as long as it is messages for switches.
LEMMA ReplyKeeps ==
  ASSUME LinksTypeOK, ControllerInv, UNCHANGED linkVars,
         NEW types, Processes(types),
         NEW out, \A s \in Switch : out[s] \in Seq(DownMessage),
         NEW known, Reply(out, known)
  PROVE  LinksTypeOK' /\ ctrl' \in QueueOf(Item) /\ WorkConserving(ctrl')
<1>1. /\ aborted \in BOOLEAN
      /\ toController \in [Switch -> Seq(UpMessage)]
      /\ toSwitch \in [Switch -> Seq(DownMessage)]
  BY DEF LinksTypeOK
<1>2. ctrl \in QueueOf(Item) /\ WorkConserving(ctrl)
  BY DEF ControllerInv, ControllerTypeOK, Item
<1>3. CASE \A s \in Switch : out[s] # <<>> => s \in known
  <2>1. /\ toSwitch' = [s \in Switch |-> toSwitch[s] \o out[s]]
        /\ ctrl' = Finish(ctrl)
        /\ UNCHANGED <<toController, aborted>>
    BY <1>3 DEF Reply
  <2>2. \A s \in Switch : toSwitch[s] \o out[s] \in Seq(DownMessage)
    BY <1>1, ConcatProperties
  <2>3. toSwitch' \in [Switch -> Seq(DownMessage)]
    BY <2>1, <2>2
  <2>4. LinksTypeOK'
    BY <1>1, <2>1, <2>3, MessagesMoved
  <2> QED BY <2>1, <2>4, MessageServed
<1>4. CASE ~ \A s \in Switch : out[s] # <<>> => s \in known
  <2>1. aborted' = TRUE /\ UNCHANGED <<channelVars, ctrl>>
    BY <1>4 DEF Reply
  <2>2. LinksTypeOK'
    BY <1>1, <2>1, MessagesMoved DEF channelVars
  <2> QED BY <1>2, <2>1, <2>2
<1> QED BY <1>3, <1>4

\* Learning keeps the learned ports a map from addresses to ports.
LEMMA LearnedPorts ==
  ASSUME NEW ports, IsMap(ports, Host, Port), NEW m \in Match
  PROVE  IsMap(Learn(ports, m), Host, Port)
<1>1. PICK D \in SUBSET Host : ports \in [D -> Port]
  BY DEF IsMap
<1>2. CASE m.eth_src \in DOMAIN ports
  BY <1>2 DEF Learn
<1>3. CASE m.eth_src \notin DOMAIN ports
  <2>1. m.eth_src \in Host /\ m.in_port \in Port
    BY DEF Match
  <2>2. Learn(ports, m) = [h \in D \cup {m.eth_src} |->
                             IF h = m.eth_src THEN m.in_port ELSE ports[h]]
    BY <1>1, <1>3 DEF Learn
  <2>3. /\ Learn(ports, m) \in [D \cup {m.eth_src} -> Port]
        /\ D \cup {m.eth_src} \in SUBSET Host
    BY <1>1, <2>1, <2>2
  <2> QED BY <2>3 DEF IsMap
<1> QED BY <1>2, <1>3

\* Switch.cc decides on messages for a switch.
LEMMA DecisionIsMessages ==
  ASSUME NEW ports, IsMap(ports, Host, Port),
         NEW m \in UpMessage, m.type \in PacketIns
  PROVE  Decision(ports, m) \in Seq(DownMessage)
<1> DEFINE hdr == Header(m)
<1>1. FloodPort \in Port \cup {FloodPort}
  OBVIOUS
<1>2. hdr \in Match /\ PacketOut(m, FloodPort) \in DownMessage
  BY <1>1, PacketInAnswer
<1>3. CASE hdr.eth_dst \in DOMAIN ports
  <2>1. ports[hdr.eth_dst] \in Port
    BY <1>3 DEF IsMap
  <2>2. PacketOut(m, ports[hdr.eth_dst]) \in DownMessage
    BY <2>1, PacketInAnswer
  <2>3. FlowMod(hdr, ports[hdr.eth_dst]) \in DownMessage
    BY <1>2, <2>1, DownMessages
  <2> QED BY <1>3, <2>2, <2>3 DEF Decision
<1>4. CASE hdr.eth_dst \notin DOMAIN ports
  BY <1>2, <1>4 DEF Decision
<1> QED BY <1>3, <1>4

\* Forwarding.cc sends every switch messages for a switch.
LEMMA RouteIsMessages ==
  ASSUME NEW s \in Switch, NEW m \in UpMessage, m.type \in PacketIns,
         Header(m).eth_dst \in Topology, NEW t \in Switch
  PROVE  Route(s, m)[t] \in Seq(DownMessage)
<1> DEFINE hdr == Header(m)
           mod == FlowMod(RouteMatch(hdr), NextPort[t][hdr.eth_dst])
           out == PacketOut(m, NextPort[s][hdr.eth_dst])
<1>1. hdr \in Match
  BY PacketInAnswer
<1>2. hdr.eth_dst \in Host
  BY TopologyAssumption
<1>3. NextPort[t][hdr.eth_dst] \in Port /\ NextPort[s][hdr.eth_dst] \in Port
  BY <1>2, NextPortAssumption
<1>4. RouteMatch(hdr) \in Match
  BY <1>1, PortAssumption DEF RouteMatch, Match, Fields
<1>5. mod \in DownMessage /\ out \in DownMessage
  BY <1>3, <1>4, DownMessages, PacketInAnswer
<1>6. Route(s, m)[t] = IF t = s THEN <<mod, out>>
                       ELSE IF OnPath(t, s, hdr.eth_dst) THEN <<mod>> ELSE <<>>
  BY DEF Route
<1> HIDE DEF mod, out
<1> QED BY <1>5, <1>6

\* The ARP oracle answers with messages for a switch.
LEMMA ArpAnswerIsMessages ==
  ASSUME NEW m \in UpMessage, m.type \in PacketIns, processARPPacket(m)
  PROVE  ArpAnswer(m) \in Seq(DownMessage)
<1> DEFINE reply == PacketOutFrame(ArpReply(m), Header(m).in_port)
           drop == PacketOutHeader(m.buffer_id, AnyPort)
<1>1. Header(m) \in Match
  BY PacketInAnswer
<1>2. /\ ArpTarget(m) \in Host
      /\ RequestId(m) \in Nat
  <2>1. ArpTarget(m) \in Host
    BY TopologyAssumption DEF processARPPacket
  <2>2. RequestId(m) \in Nat
    BY PacketInFields DEF RequestId, Frame
  <2> QED BY <2>1, <2>2
<1>3. ArpReply(m) \in Frame
  BY <1>1, <1>2 DEF ArpReply, Frame, Match, Address, FrameType
<1>4. reply \in DownMessage
  <2>1. Header(m).in_port \in Port
    BY <1>1 DEF Match
  <2> QED BY <1>3, <2>1 DEF PacketOutFrame, DownMessage
<1>5. m.type # "PACKET_IN_FULL" => drop \in DownMessage
  BY PacketInFields DEF PacketOutHeader, DownMessage
<1>6. ArpAnswer(m) = IF m.type = "PACKET_IN_FULL" THEN <<reply>>
                     ELSE <<drop, reply>>
  BY DEF ArpAnswer
<1> HIDE DEF reply, drop
<1> QED BY <1>4, <1>5, <1>6

\* One switch gets messages, the others none.
LEMMA OnlyIsMessages ==
  ASSUME NEW s, NEW ms \in Seq(DownMessage)
  PROVE  \A t \in Switch : Only(s, ms)[t] \in Seq(DownMessage)
BY DEF Only

\* The end of a service of the controller, whatever the message.
LEMMA ControllerServesKeeps ==
  ASSUME LinksTypeOK, ControllerInv, UNCHANGED linkVars, ControllerServes
  PROVE  LinksTypeOK' /\ ControllerInv'
<1>1. /\ socketMap \in SUBSET Switch
      /\ mac_to_port = [s \in Switch |-> mac_to_port[s]]
      /\ \A s \in Switch : IsMap(mac_to_port[s], Host, Port)
  BY DEF ControllerInv, ControllerTypeOK
<1>2. CASE handshake
  <2>1. /\ Processes({"ESTABLISHED"})
        /\ Reply(Only(From, <<FeaturesRequest>>), socketMap')
    BY <1>2 DEF handshake
  <2>2. <<FeaturesRequest>> \in Seq(DownMessage)
    BY DownMessages
  <2>3. LinksTypeOK' /\ ctrl' \in QueueOf(Item) /\ WorkConserving(ctrl')
    BY <2>1, <2>2, OnlyIsMessages, ReplyKeeps
  <2>4. socketMap' \in SUBSET Switch /\ mac_to_port' = mac_to_port
    BY <1>1, <1>2, <2>1, MessageServed DEF handshake
  <2> QED BY <1>1, <2>3, <2>4 DEF ControllerInv, ControllerTypeOK, Item
<1>3. CASE handleFeaturesReply
  <2> DEFINE none == [s \in Switch |-> <<>>]
  <2>1. Processes({"FEATURES_REPLY"}) /\ Reply(none, socketMap)
    BY <1>3 DEF handleFeaturesReply
  <2>2. \A s \in Switch : none[s] \in Seq(DownMessage)
    OBVIOUS
  <2> HIDE DEF none
  <2>3. LinksTypeOK' /\ ctrl' \in QueueOf(Item) /\ WorkConserving(ctrl')
    BY <2>1, <2>2, ReplyKeeps
  <2>4. UNCHANGED <<socketMap, mac_to_port>>
    BY <1>3 DEF handleFeaturesReply
  <2> QED BY <1>1, <2>3, <2>4 DEF ControllerInv, ControllerTypeOK, Item
<1>4. ASSUME Processes(PacketIns)
      PROVE  /\ From \in Switch /\ Message \in UpMessage
             /\ Message.type \in PacketIns
             /\ Header(Message) \in Match
             /\ <<PacketOut(Message, FloodPort)>> \in Seq(DownMessage)
  <2>1. From \in Switch /\ Message \in UpMessage /\ Message.type \in PacketIns
    BY <1>4, MessageServed
  <2>2. FloodPort \in Port \cup {FloodPort}
    OBVIOUS
  <2>3. Header(Message) \in Match /\ PacketOut(Message, FloodPort) \in DownMessage
    BY <2>1, <2>2, PacketInAnswer
  <2> QED BY <2>1, <2>3
<1>5. CASE HubPacketIn
  <2> DEFINE ms == <<PacketOut(Message, FloodPort)>>
  <2>1. Processes(PacketIns) /\ Reply(Only(From, ms), socketMap)
    BY <1>5 DEF HubPacketIn
  <2>2. ms \in Seq(DownMessage)
    BY <1>4, <2>1
  <2> HIDE DEF ms
  <2>3. LinksTypeOK' /\ ctrl' \in QueueOf(Item) /\ WorkConserving(ctrl')
    BY <2>1, <2>2, OnlyIsMessages, ReplyKeeps
  <2>4. UNCHANGED <<socketMap, mac_to_port>>
    BY <1>5 DEF HubPacketIn
  <2> QED BY <1>1, <2>3, <2>4 DEF ControllerInv, ControllerTypeOK, Item
<1>6. CASE SwitchPacketIn
  <2> DEFINE ports == Learn(mac_to_port[From], Header(Message))
             ms == Decision(mac_to_port'[From], Message)
  <2>1. /\ Processes(PacketIns)
        /\ mac_to_port' = [mac_to_port EXCEPT ![From] = ports]
        /\ Reply(Only(From, ms), socketMap)
        /\ UNCHANGED socketMap
    BY <1>6 DEF SwitchPacketIn
  <2>2. IsMap(ports, Host, Port)
    BY <1>1, <1>4, <2>1, LearnedPorts
  <2> HIDE DEF ports
  <2>3. /\ mac_to_port' = [s \in Switch |-> mac_to_port'[s]]
        /\ \A s \in Switch : mac_to_port'[s] = IF s = From THEN ports
                                               ELSE mac_to_port[s]
    BY <1>1, <2>1
  <2>4. \A s \in Switch : IsMap(mac_to_port'[s], Host, Port)
    BY <1>1, <2>2, <2>3
  <2>5. ms \in Seq(DownMessage)
    <3>1. IsMap(mac_to_port'[From], Host, Port)
      BY <1>4, <2>1, <2>4
    <3> QED BY <1>4, <2>1, <3>1, DecisionIsMessages
  <2> HIDE DEF ms
  <2>6. LinksTypeOK' /\ ctrl' \in QueueOf(Item) /\ WorkConserving(ctrl')
    BY <2>1, <2>5, OnlyIsMessages, ReplyKeeps
  <2> QED BY <1>1, <2>1, <2>3, <2>4, <2>6
      DEF ControllerInv, ControllerTypeOK, Item
<1>7. CASE ForwardingPacketIn
  <2> DEFINE out == Answer(From, Message)
  <2>1. Processes(PacketIns) /\ Reply(out, socketMap)
    BY <1>7 DEF ForwardingPacketIn
  <2>2. \A s \in Switch : out[s] \in Seq(DownMessage)
    <3>1. CASE Header(Message).eth_dst \in Topology
      BY <1>4, <2>1, <3>1, RouteIsMessages DEF Answer
    <3>2. CASE Header(Message).eth_dst \notin Topology /\ processARPPacket(Message)
      <4>1. ArpAnswer(Message) \in Seq(DownMessage)
        BY <1>4, <2>1, <3>2, ArpAnswerIsMessages
      <4> QED BY <3>2, <4>1, OnlyIsMessages DEF Answer
    <3>3. CASE Header(Message).eth_dst \notin Topology /\ ~processARPPacket(Message)
      BY <1>4, <2>1, <3>3, OnlyIsMessages DEF Answer
    <3> QED BY <3>1, <3>2, <3>3
  <2> HIDE DEF out
  <2>3. LinksTypeOK' /\ ctrl' \in QueueOf(Item) /\ WorkConserving(ctrl')
    BY <2>1, <2>2, ReplyKeeps
  <2>4. UNCHANGED <<socketMap, mac_to_port>>
    BY <1>7 DEF ForwardingPacketIn
  <2> QED BY <1>1, <2>3, <2>4 DEF ControllerInv, ControllerTypeOK, Item
<1> QED BY <1>2, <1>3, <1>5, <1>6, <1>7 DEF ControllerServes

-----------------------------------------------------------------------------
(* The theorems.                                                           *)

\* initialize of all modules establishes the invariant.
LEMMA InitInv == Init => Inv
<1> SUFFICES ASSUME Init PROVE Inv
  OBVIOUS
<1> USE DEF Init
<1>1. LinksTypeOK
  <2>1. \A S : <<>> \in Seq(S)
    BY EmptySeq
  <2>2. /\ sent \in Seq(Sent)
        /\ aborted \in BOOLEAN
    BY <2>1 DEF LinksInit
  <2>3. /\ wire \in [Switch -> [Port -> Seq(Frame)]]
        /\ received \in [Host -> Seq(Nat)]
    BY <2>1 DEF LinksInit
  <2>4. /\ toController \in [Switch -> Seq(UpMessage)]
        /\ toSwitch \in [Switch -> Seq(DownMessage)]
    BY <2>1 DEF LinksInit
  <2> QED BY <2>2, <2>3, <2>4 DEF LinksTypeOK
<1>2. SwitchInv
  <2>1. proc \in [Switch -> QueueOf(Frame)] /\ \A s \in Switch : WorkConserving(proc[s])
    BY IdleWorks DEF SwitchInit
  <2>2. \A s \in Switch : buffer[s] = EmptyBuffer
    BY DEF SwitchInit
  <2>3. buffer = [s \in Switch |-> buffer[s]]
    BY DEF SwitchInit
  <2>4. /\ \A s \in Switch : IsBuffer(buffer[s])
        /\ BufferWithinCapacity
    BY <2>2, EmptyBufferFits DEF BufferWithinCapacity
  <2>5. /\ socket \in [Switch -> {"BOUND", "CONNECTING"}]
        /\ entry_map \in [Switch -> Seq(Entry)]
        /\ timers \in [Switch -> Seq(Match)]
    BY DEF SwitchInit
  <2> QED BY <2>1, <2>3, <2>4, <2>5 DEF SwitchInv, SwitchTypeOK
<1>3. ControllerInv
  <2>1. ctrl \in QueueOf(Item) /\ WorkConserving(ctrl)
    BY IdleWorks DEF ControllerInit
  <2>2. << >> \in [{} -> Port]
    OBVIOUS
  <2>3. IsMap(<< >>, Host, Port)
    BY <2>2 DEF IsMap
  <2>4. /\ mac_to_port = [s \in Switch |-> mac_to_port[s]]
        /\ \A s \in Switch : mac_to_port[s] = << >>
        /\ socketMap = {}
    BY DEF ControllerInit
  <2> QED BY <2>1, <2>3, <2>4 DEF ControllerInv, ControllerTypeOK, Item
<1> QED BY <1>1, <1>2, <1>3 DEF Inv

\* Every event preserves the invariant.
LEMMA NextInv == Inv /\ [Next]_vars => Inv'
<1> SUFFICES ASSUME Inv, [Next]_vars PROVE Inv'
  OBVIOUS
<1>1. LinksTypeOK /\ SwitchInv /\ ControllerInv
  BY DEF Inv
<1>2. CASE HostStep
  <2>1. UNCHANGED <<channelVars, aborted, switchVars, controllerVars>>
    BY <1>2 DEF HostStep
  <2>2. PICK h \in Host, d \in Address, t \in FrameType,
             tpa \in Host \cup {NoHost}, s \in Switch, p \in Port :
          Sends(h, d, t, tpa, s, p)
    <3>1. PICK h \in Host, s \in Switch, p \in Port : HostSends(h, s, p)
      BY <1>2 DEF HostStep
    <3>2. CASE \E d \in Host, t \in EtherType : Sends(h, d, t, NoHost, s, p)
      BY <3>2 DEF Address, FrameType
    <3>3. CASE \E a \in Asked : Sends(h, Broadcast, ETHERTYPE_ARP, a, s, p)
      BY <3>3, AskedAssumption DEF Address, FrameType
    <3> QED BY <3>1, <3>2, <3>3 DEF HostSends
  <2>3. /\ wire \in [Switch -> [Port -> Seq(Frame)]]
        /\ sent \in Seq(Sent)
        /\ received \in [Host -> Seq(Nat)]
        /\ aborted \in BOOLEAN
    BY <1>1 DEF LinksTypeOK
  <2> DEFINE f == [id |-> Len(sent) + 1, in_port |-> p, eth_src |-> h,
                   eth_dst |-> d, eth_type |-> t, arp_tpa |-> tpa]
             rec == [src |-> h, dst |-> d, tpa |-> tpa]
  <2>4. Len(sent) + 1 \in Nat
    BY <2>3
  <2>5. f \in Frame
    BY <2>4 DEF Frame
  <2>6. rec \in Sent
    BY DEF Sent
  <2>7. wire' = [wire EXCEPT ![s][p] = Append(@, f)] /\ UNCHANGED received
    BY <2>2 DEF Sends
  <2>8. sent' = Append(sent, rec)
    BY <2>2 DEF Sends
  <2>9. wire' \in [Switch -> [Port -> Seq(Frame)]]
    <3> HIDE DEF f
    <3>1. Append(wire[s][p], f) \in Seq(Frame)
      BY <2>3, <2>5, AppendProperties
    <3> QED BY <2>3, <2>7, <3>1
  <2>10. sent' \in Seq(Sent)
    <3> HIDE DEF rec
    <3> QED BY <2>3, <2>6, <2>8, AppendProperties
  <2>11. LinksTypeOK'
    BY <2>1, <2>3, <2>7, <2>9, <2>10, <1>1, FramesMoved
  <2> QED BY <1>1, <2>1, <2>11, SwitchKept, ControllerKept DEF Inv
<1>3. ASSUME NEW s \in Switch, OfSwitch(SwitchStep(s)) PROVE Inv'
  <2>1. SwitchStep(s) /\ UNCHANGED controllerVars
    BY <1>3 DEF OfSwitch
  <2>2. LinksTypeOK' /\ SwitchInv'
    BY <1>1, <2>1, ConnectKeeps, ArrivalKeeps, ServiceKeeps, ReceivingKeeps,
       TimerKeeps DEF SwitchStep
  <2> QED BY <1>1, <2>1, <2>2, ControllerKept DEF Inv
<1>4. CASE OfController(ControllerStep)
  <2>1. ControllerStep /\ UNCHANGED linkVars /\ UNCHANGED switchVars
    BY <1>4 DEF OfController
  <2>2. LinksTypeOK' /\ ControllerInv'
    BY <1>1, <2>1, MessageKeeps, ControllerServesKeeps DEF ControllerStep
  <2> QED BY <1>1, <2>1, <2>2, SwitchKept DEF Inv
<1>5. CASE UNCHANGED vars
  <2>1. UNCHANGED linkVars /\ UNCHANGED <<toController, toSwitch, aborted>>
    BY <1>5 DEF vars, channelVars
  <2>2. LinksTypeOK'
    BY <1>1, <2>1 DEF LinksTypeOK, linkVars
  <2>3. UNCHANGED switchVars /\ UNCHANGED controllerVars
    BY <1>5 DEF vars
  <2> QED BY <1>1, <2>2, <2>3, SwitchKept, ControllerKept DEF Inv
<1> QED BY <1>2, <1>3, <1>4, <1>5 DEF Next

\* The invariant that the theorems below are parts of holds in every state,
\* whatever the order of events.
THEOREM Invariance == Spec => []Inv
BY InitInv, NextInv, PTL DEF Spec

\* Every variable of the network keeps its type: what a switch takes from its
\* buffer is a frame, its flow entries lead to ports, and what arrives at
\* either end of a connection is a message its handlers know.
THEOREM TypeCorrect == Spec => []TypeOK
<1>1. Inv => TypeOK
  BY DEF Inv, TypeOK, SwitchInv, ControllerInv
<1> QED BY <1>1, Invariance, PTL

\* The switches and the controller are at work whenever a frame or a message
\* waits for them, on one at a time.
THEOREM QueuesWork == Spec => []QueuesWorkConserving
<1>1. Inv => QueuesWorkConserving
  BY DEF Inv, QueuesWorkConserving, SwitchInv, ControllerInv
<1> QED BY <1>1, Invariance, PTL

\* No buffer ever holds more frames than the parameter "capacity" allows.
THEOREM CapacityKept == Spec => []BufferWithinCapacity
<1>1. Inv => BufferWithinCapacity
  BY DEF Inv, SwitchInv
<1> QED BY <1>1, Invariance, PTL
=============================================================================
