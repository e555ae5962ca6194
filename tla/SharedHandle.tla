---------------------------- MODULE SharedHandle ----------------------------
(***************************************************************************)
(* The SPSC ring of crates/bus/src/spsc.rs with more than one thread on a  *)
(* handle.  Neither handle is Clone, but both are Sync, because Inner is,  *)
(* and their methods take &self: threads may share a &Producer or a        *)
(* &Consumer and call try_send or try_recv at the same time.               *)
(*                                                                         *)
(* Every memory access is a step, in an order all threads agree on.  The   *)
(* orderings of the code allow more (Spsc has them for one thread per      *)
(* handle); these interleavings are among what it allows.                  *)
(***************************************************************************)
EXTENDS Integers, Sequences, FiniteSets

CONSTANTS
  Senders,    \* threads that hold the &Producer
  Receivers,  \* threads that hold the &Consumer
  Cap,        \* number of slots
  Word,       \* 2^64, scaled: cursors are counted modulo Word
  MaxSends    \* bound: calls of try_send

Threads == Senders \cup Receivers

VARIABLES
  head, tail,  \* the two atomics
  slots,       \* content of the slots, 0 before the first write
  pc,          \* per thread: the next access of its call
  own,         \* per thread: the cursor it loaded first
  val,         \* per thread: the value it sends or has read
  next,        \* the next value passed to try_send
  accepted,    \* history: the values for which try_send returned Ok
  received     \* history: the values try_recv returned, in order

vars == <<head, tail, slots, pc, own, val, next, accepted, received>>

Init ==
  /\ head = 0 /\ tail = 0 /\ slots = [i \in 0 .. Cap - 1 |-> 0]
  /\ pc = [t \in Threads |-> "idle"]
  /\ own = [t \in Threads |-> 0] /\ val = [t \in Threads |-> 0]
  /\ next = 1 /\ accepted = {} /\ received = <<>>

Goto(t, from, to) == pc[t] = from /\ pc' = [pc EXCEPT ![t] = to]

-----------------------------------------------------------------------------
(* try_send: head.load(Relaxed).                                           *)
SendLoadHead(t) ==
  /\ Goto(t, "idle", "check")
  /\ next <= MaxSends /\ next' = next + 1
  /\ val' = [val EXCEPT ![t] = next]
  /\ own' = [own EXCEPT ![t] = head]
  /\ UNCHANGED <<head, tail, slots, accepted, received>>

(* tail.load(Acquire) and the full check; Err leaves try_send.             *)
Full(h) == (h - tail) % Word > Cap - 1

SendLoadTail(t) ==
  /\ Goto(t, "check", IF Full(own[t]) THEN "idle" ELSE "write")
  /\ UNCHANGED <<head, tail, slots, own, val, next, accepted, received>>

SendWrite(t) ==
  /\ Goto(t, "write", "publish")
  /\ slots' = [slots EXCEPT ![own[t] % Cap] = val[t]]
  /\ UNCHANGED <<head, tail, own, val, next, accepted, received>>

(* head.store(head.wrapping_add(1), Release), Ok(()).                      *)
SendPublish(t) ==
  /\ Goto(t, "publish", "idle")
  /\ head' = (own[t] + 1) % Word
  /\ accepted' = accepted \cup {val[t]}
  /\ UNCHANGED <<tail, slots, own, val, next, received>>

-----------------------------------------------------------------------------
(* try_recv: tail.load(Relaxed).                                           *)
RecvLoadTail(t) ==
  /\ Goto(t, "idle", "check")
  /\ own' = [own EXCEPT ![t] = tail]
  /\ UNCHANGED <<head, tail, slots, val, next, accepted, received>>

(* head.load(Acquire) and the empty check; None leaves try_recv.           *)
RecvLoadHead(t) ==
  /\ Goto(t, "check", IF own[t] = head THEN "idle" ELSE "read")
  /\ UNCHANGED <<head, tail, slots, own, val, next, accepted, received>>

RecvRead(t) ==
  /\ Goto(t, "read", "publish")
  /\ val' = [val EXCEPT ![t] = slots[own[t] % Cap]]
  /\ UNCHANGED <<head, tail, slots, own, next, accepted, received>>

(* tail.store(tail.wrapping_add(1), Release), Some(value).                 *)
RecvPublish(t) ==
  /\ Goto(t, "publish", "idle")
  /\ tail' = (own[t] + 1) % Word
  /\ received' = Append(received, val[t])
  /\ UNCHANGED <<head, slots, own, val, next, accepted>>

Next ==
  \/ \E t \in Senders : SendLoadHead(t) \/ SendLoadTail(t) \/ SendWrite(t) \/ SendPublish(t)
  \/ \E t \in Receivers : RecvLoadTail(t) \/ RecvLoadHead(t) \/ RecvRead(t) \/ RecvPublish(t)

Spec == Init /\ [][Next]_vars

-----------------------------------------------------------------------------
(* The SAFETY comment on Inner, under which the handles are Sync: "The     *)
(* Producer exclusively writes `head` and slot[head&mask]; the Consumer    *)
(* exclusively writes `tail`".  If so, no value for which try_send has     *)
(* returned Ok is lost or handed out twice: when no thread is inside a     *)
(* call and the ring is empty, each has been received exactly once.        *)
OkIsDeliveredOnce ==
  (\A t \in Threads : pc[t] = "idle") /\ head = tail =>
    \A v \in accepted : Cardinality({i \in DOMAIN received : received[i] = v}) = 1
=============================================================================
