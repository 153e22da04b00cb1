---------------------------- MODULE PacketBuffer ----------------------------
(***************************************************************************)
(* Buffer.cc: the frames that wait in a switch for the controller's        *)
(* decision, keyed by buffer id, and the counter that assigns the ids.     *)
(* The hand-over deque of Buffer (push, dequeue) is filled and emptied by  *)
(* one event, so it holds nothing between two steps of a model.            *)
(***************************************************************************)
EXTENDS OpenFlow, Functions

CONSTANT Capacity        \* the NED parameter "capacity"

ASSUME CapacityAssumption == Capacity \in Nat

IsBuffer(b) ==
  /\ b = [pending_msgs |-> b.pending_msgs, next_buffer_id |-> b.next_buffer_id]
  /\ IsMap(b.pending_msgs, BufferId, Frame)
  /\ b.next_buffer_id \in BufferId

EmptyBuffer == [pending_msgs |-> << >>, next_buffer_id |-> 1]

isfull(b) == Cardinality(DOMAIN b.pending_msgs) >= Capacity

\* std::map::insert keeps the element that is already under the key.
Insert(map, key, val) ==
  IF key \in DOMAIN map THEN map
  ELSE [k \in DOMAIN map \cup {key} |-> IF k = key THEN val ELSE map[k]]

\* Mutant of storeMessage: the counter stays.
StoreKeepsId(b, f) ==
  [b EXCEPT !.pending_msgs = Insert(@, b.next_buffer_id, f)]

\* The buffer after storeMessage: the counter wraps to 0 behind NoBuffer.
storeMessage(b, f) ==
  [pending_msgs |-> Insert(b.pending_msgs, b.next_buffer_id, f),
   next_buffer_id |-> IF b.next_buffer_id < NoBuffer
                      THEN b.next_buffer_id + 1 ELSE 0]

\* The id that storeMessage returns.
StoredId(b) == IF b.next_buffer_id < NoBuffer THEN b.next_buffer_id ELSE 0

\* Mutant of returnMessage: the frame stays in the buffer.
ReturnKeepsFrame(b, id) == b

\* The buffer after returnMessage(id); the frame returned is
\* b.pending_msgs[id].  Where no frame has this id it is NULL and the call of
\* drop ends the simulation: the actions that call returnMessage say so.
returnMessage(b, id) ==
  [b EXCEPT !.pending_msgs = Restrict(@, DOMAIN @ \ {id})]
=============================================================================
