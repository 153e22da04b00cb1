---------------------------- MODULE ServiceQueue ----------------------------
(***************************************************************************)
(* The single-server queue that Open_Flow_Processing and OFA_controller    *)
(* both implement in handleMessage: a busy flag, the self message that     *)
(* ends a service (it points to the message in service) and the list of    *)
(* waiting messages.                                                       *)
(***************************************************************************)
EXTENDS Sequences

\* The queues of messages from S.
QueueOf(S) == [busy : BOOLEAN, event : Seq(S), msg_list : Seq(S)]

IdleQueue == [busy |-> FALSE, event |-> <<>>, msg_list |-> <<>>]

\* A message arrives: it waits behind a service in progress, or starts one.
Arrive(q, m) ==
  IF q.busy THEN [q EXCEPT !.msg_list = Append(@, m)]
  ELSE [q EXCEPT !.busy = TRUE, !.event = Append(@, m)]

\* Mutant of Finish: the server does not become idle.
FinishStaysBusy(q) ==
  IF q.msg_list = <<>> THEN [q EXCEPT !.event = Tail(@)]
  ELSE [q EXCEPT !.event = Append(Tail(@), Head(q.msg_list)),
                 !.msg_list = Tail(@)]

\* The message in service has been processed: the first waiting message is
\* taken into service, or the server becomes idle.
Finish(q) ==
  IF q.msg_list = <<>> THEN [q EXCEPT !.busy = FALSE, !.event = Tail(@)]
  ELSE [q EXCEPT !.event = Append(Tail(@), Head(q.msg_list)),
                 !.msg_list = Tail(@)]

\* What the server holds, in the order in which it will be processed.
Contents(q) == q.event \o q.msg_list

\* The server works whenever a message is there, and on one at a time.
WorkConserving(q) ==
  /\ Len(q.event) = (IF q.busy THEN 1 ELSE 0)
  /\ ~q.busy => q.msg_list = <<>>
=============================================================================
