-------------------------- MODULE OrderedBroadcast --------------------------
(***************************************************************************)
(* What the publishers and subscribers of a bus may rely on about order:   *)
(* there is one log of all published messages, and the stream of every     *)
(* subscriber is a selection of that log in log order.  Messages may be    *)
(* left out of a stream (back-pressure), but two subscribers never see two *)
(* messages in opposite orders and nobody sees a message twice.            *)
(***************************************************************************)
EXTENDS Naturals, Sequences

CONSTANTS Subscribers, Messages

VARIABLES log,      \* the messages in the order they were published
          stream    \* stream[s]: the messages handed to subscriber s

broadcastVars == <<log, stream>>

Occurs(m, q) == \E i \in 1 .. Len(q) : q[i] = m

Init == log = <<>> /\ stream = [s \in Subscribers |-> <<>>]

(* A message takes its place in the order.                                 *)
Publish(m) ==
  /\ ~Occurs(m, log)
  /\ log' = Append(log, m)
  /\ UNCHANGED stream

(* Entry k of the log, which comes after all that s was handed already.    *)
Hand(s, k) ==
  /\ \A j \in k .. Len(log) : ~Occurs(log[j], stream[s])
  /\ stream' = [stream EXCEPT ![s] = Append(@, log[k])]
  /\ UNCHANGED log

Next ==
  \/ \E m \in Messages : Publish(m)
  \/ \E s \in Subscribers, k \in 1 .. Len(log) : Hand(s, k)

Spec == Init /\ [][Next]_broadcastVars
=============================================================================
