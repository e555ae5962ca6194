-------------------------------- MODULE Spsc --------------------------------
(***************************************************************************)
(* The lock-free single-producer single-consumer ring buffer of            *)
(* crates/bus/src/spsc.rs, at the level of its individual memory accesses  *)
(* and under the C11/Rust release-acquire memory model.                    *)
(*                                                                         *)
(* Each cursor (`head`, `tail`) is an atomic location: it is represented   *)
(* by its modification order, a log of every store made to it.  A load may *)
(* return any entry not older than the newest one the loading thread has   *)
(* already seen (coherence), so stale loads are part of the model.  The    *)
(* slots are plain memory.  Each thread counts its slot accesses (its      *)
(* clock); a Release store carries the storing thread's clock and an       *)
(* Acquire load of that entry learns it.  A slot access is ordered when    *)
(* the other thread's last conflicting access has been learnt; otherwise   *)
(* it is a data race, and what a racing read returns is undefined.         *)
(*                                                                         *)
(* usize arithmetic is modulo Word, so the cursors wrap around.            *)
(***************************************************************************)
EXTENDS Integers, Sequences

CONSTANTS
  Cap,       \* `capacity`, the number of slots
  Word,      \* 2^(bits of usize): the modulus of usize arithmetic
  Values,    \* the values of type T
  Uninit,    \* content of a slot that was never written
  MaxSends   \* bound: successful sends per behaviour

(* The assertion of `spsc` admits powers of two only.  A power of two that *)
(* a usize can hold divides Word at least twice; that is all the algorithm *)
(* needs of it.                                                            *)
ASSUME CapAssumption == Cap \in Nat \ {0}
ASSUME WordAssumption == Word \in Nat /\ \E q \in 2 .. Word : Word = Cap * q
ASSUME UninitAssumption == Uninit \notin Values
ASSUME MaxSendsAssumption == MaxSends \in Nat

VARIABLES
  headLog,   \* modification order of `head`: entries [val, rel]
  tailLog,   \* modification order of `tail`: entries [val, rel]
  slots,     \* slot memory: content, clock of the last write / last read
  ppc,       \* producer: next step of `try_send`, or idle / gone
  pcall,     \* producer: the call being executed, `try_send` or `send`
  pval,      \* producer: the value being sent
  phead,     \* producer: local `head`
  pseen,     \* producer: newest entry of tailLog it has seen
  pknows,    \* producer: consumer clock it has learnt
  pclk,      \* producer: its clock, the number of its slot writes
  cpc,       \* consumer: next step of `try_recv`, or idle / gone
  ccall,     \* consumer: the call being executed, `try_recv` or `recv`
  ctail,     \* consumer: local `tail`
  cval,      \* consumer: the value read from the slot
  cseen,     \* consumer: newest entry of headLog it has seen
  cknows,    \* consumer: producer clock it has learnt
  cclk,      \* consumer: its clock, the number of its slot reads
  sent,      \* history: values whose send succeeded
  received,  \* history: values returned by the consumer's calls
  disposed   \* history: values destroyed by `Inner::drop`

atomics == <<headLog, tailLog>>
producer == <<ppc, pcall, pval, phead, pseen, pknows, pclk>>
consumer == <<cpc, ccall, ctail, cval, cseen, cknows, cclk>>
history == <<sent, received, disposed>>
vars == <<atomics, slots, producer, consumer, history>>

-----------------------------------------------------------------------------
(***************************************************************************)
(* usize arithmetic and the conditions of the algorithm                    *)
(***************************************************************************)
Cursor == 0 .. Word - 1
SlotIndex == 0 .. Cap - 1

WrappingSub(a, b) == (a - b) % Word

NoWrap_WrappingAdd(c) == c + 1
WrappingAdd(c) == (c + 1) % Word

(* `c & mask`: for a power of two this is the remainder (MCSpsc evaluates  *)
(* the bitwise form).                                                      *)
Index(c) == c % Cap

OneTooMany_Full(h, t) == WrappingSub(h, t) > Cap
OneTooFew_Full(h, t) == WrappingSub(h, t) >= Cap - 1
Full(h, t) == WrappingSub(h, t) > Cap - 1

OneBehind_Empty(t, h) == WrappingSub(h, t) <= 1
Empty(t, h) == t = h

-----------------------------------------------------------------------------
(***************************************************************************)
(* Atomic accesses                                                         *)
(***************************************************************************)
Entry(v, clk) == [val |-> v, rel |-> clk]

Last(log) == log[Len(log)]

(* Entries a load may return when the thread has seen entry number `seen`. *)
Visible(log, seen) == seen .. Len(log)

(* Clock known after an Acquire load of entry e; a Relaxed load would      *)
(* learn nothing.                                                          *)
Relaxed_Acquire(known, e) == known
Acquire(known, e) == IF e.rel > known THEN e.rel ELSE known

(* A Release store carries the storing thread's clock; a Relaxed store     *)
(* would carry nothing.                                                    *)
Relaxed_Release(log, v, clk) == Append(log, Entry(v, 0))
Release(log, v, clk) == Append(log, Entry(v, clk))

(* The slot accesses that are ordered after the other thread's last        *)
(* conflicting access.                                                     *)
WriteOrdered(i) == slots[i].r <= pknows
ReadOrdered(i) == slots[i].w <= cknows /\ slots[i].val # Uninit

(* `assume_init_read`: the content, or anything at all if the read races   *)
(* or the slot was never initialised.                                      *)
ReadOutcomes(i) ==
  IF ReadOrdered(i) THEN {slots[i].val} ELSE Values \cup {Uninit}

-----------------------------------------------------------------------------
(***************************************************************************)
(* spsc(capacity)                                                          *)
(***************************************************************************)
Init ==
  /\ headLog = <<Entry(0, 0)>>
  /\ tailLog = <<Entry(0, 0)>>
  /\ slots = [i \in SlotIndex |-> [val |-> Uninit, w |-> 0, r |-> 0]]
  /\ ppc = "idle" /\ pcall = "try_send" /\ pval = Uninit /\ phead = 0
  /\ pseen = 1 /\ pknows = 0 /\ pclk = 0
  /\ cpc = "idle" /\ ccall = "try_recv" /\ ctail = 0 /\ cval = Uninit
  /\ cseen = 1 /\ cknows = 0 /\ cclk = 0
  /\ sent = <<>> /\ received = <<>> /\ disposed = <<>>

-----------------------------------------------------------------------------
(***************************************************************************)
(* Producer                                                                *)
(***************************************************************************)

(* The owner of the Producer calls try_send(v) or send(v, strategy).       *)
CallSend(call, v) ==
  /\ ppc = "idle"
  /\ Len(sent) < MaxSends
  /\ ppc' = "load"
  /\ pcall' = call
  /\ pval' = v
  /\ UNCHANGED <<atomics, slots, phead, pseen, pknows, pclk, consumer, history>>

(* Where a refused try_send leads: `try_send` hands the value back to its  *)
(* caller, `send` waits (spin_loop or yield_now) and tries again.          *)
AfterRefusal == IF pcall = "send" THEN "load" ELSE "idle"

(* Relaxed load of `head`, which only this thread stores, then Acquire     *)
(* load of entry k of `tail`, then the full check.                         *)
CachedTail_SendLoad(k) ==
  /\ ppc = "load"
  /\ phead' = Last(headLog).val
  /\ ppc' = IF Full(Last(headLog).val, tailLog[pseen].val) THEN AfterRefusal ELSE "write"
  /\ UNCHANGED <<atomics, slots, pcall, pval, pseen, pknows, pclk, consumer, history>>
SendLoad(k) ==
  /\ ppc = "load"
  /\ phead' = Last(headLog).val
  /\ pseen' = k
  /\ pknows' = Acquire(pknows, tailLog[k])
  /\ ppc' = IF Full(Last(headLog).val, tailLog[k].val) THEN AfterRefusal ELSE "write"
  /\ UNCHANGED <<atomics, slots, pcall, pval, pclk, consumer, history>>

(* slots[head & mask].write(value)                                         *)
SendWrite ==
  /\ ppc = "write"
  /\ pclk' = pclk + 1
  /\ slots' = [slots EXCEPT ![Index(phead)].val = pval,
                            ![Index(phead)].w = pclk + 1]
  /\ ppc' = "publish"
  /\ UNCHANGED <<atomics, pcall, pval, phead, pseen, pknows, consumer, history>>

(* head.store(head + 1, Release); Ok(())                                   *)
SendPublish ==
  /\ ppc = "publish"
  /\ headLog' = Release(headLog, WrappingAdd(phead), pclk)
  /\ sent' = Append(sent, pval)
  /\ ppc' = "idle"
  /\ UNCHANGED <<tailLog, slots, pcall, pval, phead, pseen, pknows, pclk, consumer,
                 received, disposed>>

-----------------------------------------------------------------------------
(***************************************************************************)
(* Consumer                                                                *)
(***************************************************************************)

(* The owner of the Consumer calls try_recv() or recv(strategy).           *)
CallRecv(call) ==
  /\ cpc = "idle"
  /\ cpc' = "load"
  /\ ccall' = call
  /\ UNCHANGED <<atomics, slots, producer, ctail, cval, cseen, cknows, cclk, history>>

(* Where an empty try_recv leads: `try_recv` answers None, `recv` waits    *)
(* and tries again.                                                        *)
AfterEmpty == IF ccall = "recv" THEN "load" ELSE "idle"

(* Relaxed load of `tail`, which only this thread stores, then Acquire     *)
(* load of entry k of `head`, then the empty check.                        *)
RecvLoad(k) ==
  /\ cpc = "load"
  /\ ctail' = Last(tailLog).val
  /\ cseen' = k
  /\ cknows' = Acquire(cknows, headLog[k])
  /\ cpc' = IF Empty(Last(tailLog).val, headLog[k].val) THEN AfterEmpty ELSE "read"
  /\ UNCHANGED <<atomics, slots, producer, ccall, cval, cclk, history>>

(* slots[tail & mask].assume_init_read()                                   *)
RecvRead ==
  /\ cpc = "read"
  /\ cclk' = cclk + 1
  /\ cval' \in ReadOutcomes(Index(ctail))
  /\ slots' = [slots EXCEPT ![Index(ctail)].r = cclk + 1]
  /\ cpc' = "publish"
  /\ UNCHANGED <<atomics, producer, ccall, ctail, cseen, cknows, history>>

(* tail.store(tail + 1, Release); Some(value)                              *)
RecvPublish ==
  /\ cpc = "publish"
  /\ tailLog' = Release(tailLog, WrappingAdd(ctail), cclk)
  /\ received' = Append(received, cval)
  /\ cpc' = "idle"
  /\ UNCHANGED <<headLog, slots, producer, ccall, ctail, cval, cseen, cknows, cclk,
                 sent, disposed>>

-----------------------------------------------------------------------------
(***************************************************************************)
(* Dropping the handles.  Arc runs Inner::drop in whichever thread drops   *)
(* the second handle, ordered after every access of the other one.         *)
(***************************************************************************)

(* The contents of the slots from `tail` up to `head`.                     *)
Unread ==
  LET h == Last(headLog).val
      t == Last(tailLog).val
  IN  [i \in 1 .. WrappingSub(h, t) |-> slots[Index((t + i - 1) % Word)].val]

(* The loop of Inner::drop: assume_init_drop of every unread slot.         *)
SkipsOldest_InnerDrop == IF Unread = <<>> THEN <<>> ELSE Tail(Unread)
InnerDrop == Unread

DropProducer ==
  /\ ppc = "idle"
  /\ ppc' = "gone"
  /\ disposed' = IF cpc = "gone" THEN InnerDrop ELSE disposed
  /\ UNCHANGED <<atomics, slots, pcall, pval, phead, pseen, pknows, pclk, consumer,
                 sent, received>>

DropConsumer ==
  /\ cpc = "idle"
  /\ cpc' = "gone"
  /\ disposed' = IF ppc = "gone" THEN InnerDrop ELSE disposed
  /\ UNCHANGED <<atomics, slots, producer, ccall, ctail, cval, cseen, cknows, cclk,
                 sent, received>>

Freed == ppc = "gone" /\ cpc = "gone"

-----------------------------------------------------------------------------
ProducerStep ==
  \/ \E call \in {"try_send", "send"}, v \in Values : CallSend(call, v)
  \/ \E k \in Visible(tailLog, pseen) : SendLoad(k)
  \/ SendWrite
  \/ SendPublish
  \/ DropProducer

ConsumerStep ==
  \/ \E call \in {"try_recv", "recv"} : CallRecv(call)
  \/ \E k \in Visible(headLog, cseen) : RecvLoad(k)
  \/ RecvRead
  \/ RecvPublish
  \/ DropConsumer

Next == ProducerStep \/ ConsumerStep

Spec == Init /\ [][Next]_vars

(* Both threads keep running the calls they have started (WF), a thread    *)
(* that keeps loading a cursor does not get a stale entry forever (SF: the *)
(* language asks that a store become visible in finite time, and a polling *)
(* try_recv loop leaves the load between its calls), and the consumer's    *)
(* owner keeps receiving while it holds the handle.                        *)
Fairness ==
  /\ SF_vars(SendLoad(Len(tailLog)))
  /\ WF_vars(SendWrite)
  /\ WF_vars(SendPublish)
  /\ WF_vars(\E call \in {"try_recv", "recv"} : CallRecv(call))
  /\ SF_vars(RecvLoad(Len(headLog)))
  /\ WF_vars(RecvRead)
  /\ WF_vars(RecvPublish)

FairSpec == Spec /\ Fairness

-----------------------------------------------------------------------------
(***************************************************************************)
(* Properties                                                              *)
(***************************************************************************)
Entries == [val : Cursor, rel : Nat]

(* Every variable keeps its type; in particular the cursors stored by      *)
(* try_send and try_recv stay within a usize.                              *)
TypeOK ==
  /\ headLog \in Seq(Entries) /\ tailLog \in Seq(Entries)
  /\ slots \in [SlotIndex -> [val : Values \cup {Uninit}, w : Nat, r : Nat]]
  /\ ppc \in {"idle", "load", "write", "publish", "gone"}
  /\ pcall \in {"try_send", "send"}
  /\ pval \in Values \cup {Uninit} /\ phead \in Cursor
  /\ pseen \in 1 .. Len(tailLog) /\ pknows \in Nat /\ pclk \in Nat
  /\ cpc \in {"idle", "load", "read", "publish", "gone"}
  /\ ccall \in {"try_recv", "recv"}
  /\ cval \in Values \cup {Uninit} /\ ctail \in Cursor
  /\ cseen \in 1 .. Len(headLog) /\ cknows \in Nat /\ cclk \in Nat
  /\ sent \in Seq(Values)
  /\ received \in Seq(Values \cup {Uninit})
  /\ disposed \in Seq(Values \cup {Uninit})

(* The two SAFETY comments of try_send and try_recv: when the producer is  *)
(* about to write a slot, the consumer's last read of it happens-before    *)
(* the write; when the consumer is about to read a slot, the write that    *)
(* initialised it happens-before the read.                                 *)
NoDataRace ==
  /\ ppc = "write" => WriteOrdered(Index(phead))
  /\ cpc = "read" => ReadOrdered(Index(ctail))

(* A value whose send succeeded is, at every moment, in exactly one place, *)
(* and order is kept: returned by try_recv/recv, still in the ring, or     *)
(* destroyed by Inner::drop once both handles are gone.  Nothing is lost,  *)
(* duplicated, overwritten, reordered, leaked or dropped twice.            *)
ExactlyOnceInOrder ==
  sent = received \o (IF Freed THEN disposed ELSE Unread)

(* try_send answers Err only when, as of the `tail` it observed, all Cap   *)
(* slots are taken, and never lets more than Cap values in; try_recv       *)
(* answers None only when every value below the `head` it observed has     *)
(* been received.  Wrap-around of the cursors never fakes either answer.   *)
HonestAnswer ==
  /\ (ppc = "load" /\ ppc' # ppc)
       => ((ppc' = "idle") <=> (Len(headLog) - pseen' = Cap))
  /\ (cpc = "load" /\ cpc' # cpc)
       => ((cpc' = "idle") <=> (Len(tailLog) = cseen'))

(* Every answer of try_send and try_recv is honest in that sense. *)
HonestAnswers == [][HonestAnswer]_vars

(* The ring implements the bounded FIFO: a send takes effect at the        *)
(* Release store of `head`, a receive at the Release store of `tail`.      *)
Fifo == INSTANCE BoundedFifo
          WITH queue <- IF Freed THEN <<>> ELSE Unread,
               delivered <- received,
               open <- ~Freed

ImplementsFifo == Fifo!Spec

(* A blocking send returns unless the consumer is dropped: the spin loop   *)
(* of `send` cannot miss the slot that the consumer frees.                 *)
SendReturns == (ppc = "load" /\ pcall = "send") ~> (ppc = "idle" \/ cpc = "gone")

(* Every value sent is received, unless the consumer is dropped first: no  *)
(* value is stranded behind a stale cursor.                                *)
AllDelivered ==
  \A n \in 1 .. MaxSends :
    (Len(sent) >= n) ~> (Len(received) >= n \/ cpc = "gone")

-----------------------------------------------------------------------------
(***************************************************************************)
(* The inductive invariant behind NoDataRace and ExactlyOnceInOrder.       *)
(* Messages are numbered 0, 1, 2...; H have been published, T consumed.    *)
(***************************************************************************)
H == Len(headLog) - 1
T == Len(tailLog) - 1

(* Entry k+1 of a cursor's log holds k modulo Word and carries the clock   *)
(* of the thread after its k-th slot access.                               *)
LogInv ==
  /\ \A k \in 1 .. Len(headLog) : headLog[k] = Entry((k - 1) % Word, k - 1)
  /\ \A k \in 1 .. Len(tailLog) : tailLog[k] = Entry((k - 1) % Word, k - 1)

ProducerInv ==
  /\ pknows = pseen - 1
  /\ pclk = IF ppc = "publish" THEN H + 1 ELSE H
  /\ H - (pseen - 1) <= Cap
  /\ ppc \in {"write", "publish"} => phead = H % Word /\ H - (pseen - 1) < Cap
  /\ ppc \in {"load", "write", "publish"} => pval \in Values

ConsumerInv ==
  /\ cknows = cseen - 1
  /\ cclk = IF cpc = "publish" THEN T + 1 ELSE T
  /\ T <= cseen - 1
  /\ cpc \in {"read", "publish"} => ctail = T % Word /\ T < cseen - 1
  /\ cpc = "publish" => cval = sent[T + 1]

HistoryInv ==
  /\ Len(sent) = H
  /\ Len(received) = T
  /\ \A n \in 1 .. T : received[n] = sent[n]
  /\ Freed => disposed = Unread

(* Message n sits in slot n % Cap from its write until it is consumed, and *)
(* the last read of a slot was of a message that belongs there.            *)
SlotInv ==
  /\ \A n \in T .. H - 1 : slots[n % Cap].val = sent[n + 1] /\ slots[n % Cap].w = n + 1
  /\ ppc = "publish" => slots[H % Cap].val = pval /\ slots[H % Cap].w = H + 1
  /\ \A i \in SlotIndex :
       slots[i].r > 0 => (slots[i].r - 1) % Cap = i /\ slots[i].r <= cclk

(* The cursors, the clocks the threads have learnt, the slots and the      *)
(* histories agree about which messages are in the ring.                   *)
IInv == TypeOK /\ LogInv /\ ProducerInv /\ ConsumerInv /\ HistoryInv /\ SlotInv
=============================================================================
