----------------------------- MODULE ChatQueue -----------------------------
(***************************************************************************)
(* The pure state machine of core/chat/chatQueueMachine.ts: what a chat    *)
(* queue holds while a turn runs.  A queue is a record; a request is the   *)
(* sequence of the inputs merged into it.  Adapters own one queue each and *)
(* send it events; every operator below is one event of reduceChatQueue.   *)
(* drainPaused is left out: nothing in the repository ever pauses.         *)
(***************************************************************************)
EXTENDS Sequences

EmptyQueue == [running |-> FALSE, queue |-> <<>>, error |-> FALSE]

\* turn-start; a second one while running changes nothing.
TurnStart(q) == [q EXCEPT !.running = TRUE, !.error = FALSE]

\* turn-end: an aborted turn gives up what was queued, a failed one is noted.
\* (Mutant: a failed turn does not leave running.)
TurnEnd_OnSuccess(q, ok, aborted) ==
  [running |-> q.running /\ ~ok /\ ~aborted,
   queue |-> IF aborted THEN <<>> ELSE q.queue,
   error |-> q.error \/ (~ok /\ ~aborted)]
TurnEnd(q, ok, aborted) ==
  [running |-> FALSE,
   queue |-> IF aborted THEN <<>> ELSE q.queue,
   error |-> q.error \/ (~ok /\ ~aborted)]

\* enqueue.  (Mutant: at the front, which is what steer does.)
Enqueue_Front(q, request) == [q EXCEPT !.queue = <<request>> \o @]
Enqueue(q, request) == [q EXCEPT !.queue = Append(@, request)]

\* dequeue.  (Mutant: the head stays until its turn has ended.)
Dequeue_Keep(q) == q
Dequeue(q) == [q EXCEPT !.queue = IF @ = <<>> THEN <<>> ELSE Tail(@)]

\* clear.
Clear(q) == [q EXCEPT !.queue = <<>>, !.error = FALSE]

\* drain-error with an empty message.
NoError(q) == [q EXCEPT !.error = FALSE]

\* Whether the head may start a turn, after one that ended cleanly.
\* (Mutant: the last one waits for company.)
ShouldDrain_Several(q, clean) == clean /\ ~q.running /\ Len(q.queue) \notin {0, 1}
ShouldDrain(q, clean) == clean /\ ~q.running /\ q.queue # <<>>

=============================================================================
