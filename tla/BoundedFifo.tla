---------------------------- MODULE BoundedFifo ----------------------------
(***************************************************************************)
(* What an SPSC queue of capacity Cap promises its two owners: a bounded   *)
(* first-in first-out channel.  A value that entered the queue leaves it   *)
(* exactly once: either it is delivered to the consumer, in order, or it   *)
(* is disposed of, in order, when the last handle goes away.               *)
(*                                                                         *)
(* Refused sends and empty receives change nothing here; Spsc.tla states   *)
(* when the implementation may give those answers.                         *)
(***************************************************************************)
EXTENDS Naturals, Sequences

CONSTANTS Cap,      \* number of slots
          Values    \* values that can be sent

VARIABLES queue,      \* values sent and not yet delivered, oldest first
          delivered,  \* every value handed to the consumer, in order
          disposed,   \* the values destroyed unread when the queue was freed
          open        \* FALSE once the queue has been freed

fifoVars == <<queue, delivered, disposed, open>>

Init ==
  /\ queue = <<>>
  /\ delivered = <<>>
  /\ disposed = <<>>
  /\ open = TRUE

Enqueue(v) ==
  /\ open
  /\ Len(queue) < Cap
  /\ queue' = Append(queue, v)
  /\ UNCHANGED <<delivered, disposed, open>>

Dequeue ==
  /\ open
  /\ queue # <<>>
  /\ delivered' = Append(delivered, Head(queue))
  /\ queue' = Tail(queue)
  /\ UNCHANGED <<disposed, open>>

Close ==
  /\ open
  /\ open' = FALSE
  /\ disposed' = queue
  /\ queue' = <<>>
  /\ UNCHANGED delivered

Next == (\E v \in Values : Enqueue(v)) \/ Dequeue \/ Close

Spec == Init /\ [][Next]_fifoVars
=============================================================================
