----------------------------- MODULE SpscProofs -----------------------------
(***************************************************************************)
(* Proofs about the SPSC ring buffer, for every capacity, every width of   *)
(* usize, every set of values and every number of sends, and about the     *)
(* benchmark trials around it, for every number of warm-up messages.       *)
(*                                                                         *)
(* The argument: message number n is written to slot n % Cap.  The         *)
(* producer writes message H only after it has acquired a tail entry       *)
(* pseen-1 with H - (pseen-1) < Cap, and the reads of that slot that came  *)
(* before belong to messages at most H - Cap < pseen - 1, so they happened *)
(* before that tail store.  Symmetrically the consumer reads message T     *)
(* only after acquiring a head entry cseen-1 > T.                          *)
(***************************************************************************)
EXTENDS SpscTrial, ModularArithmetic, SequenceTheorems, TLAPS

-----------------------------------------------------------------------------
(***************************************************************************)
(* Arithmetic of cursors                                                   *)
(***************************************************************************)

(* Word is a positive multiple of Cap and larger than it. *)
LEMMA WordFacts ==
  /\ Cap \in Nat \ {0}
  /\ Word \in Nat \ {0}
  /\ Cap < Word
  /\ \E q \in Nat \ {0} : Word = Cap * q
<1>1. PICK q \in 2 .. Word : Word = Cap * q
  BY WordAssumption
<1>2. Cap \in Nat \ {0} /\ Word \in Nat
  BY CapAssumption, WordAssumption
<1>3. Cap * 1 + Cap <= Cap * q
  BY <1>1, <1>2, MulMonotonic
<1>4. Cap * 1 = Cap
  BY <1>2
<1> QED
  BY <1>1, <1>2, <1>3, <1>4

(* The remainders that appear as cursors and slot indices. *)
LEMMA CursorRange ==
  ASSUME NEW a \in Int
  PROVE  a % Word \in Cursor /\ a % Cap \in SlotIndex
BY WordFacts, DivMod DEF Cursor, SlotIndex

(* The slot index of the cursor of message a is a % Cap. *)
LEMMA IndexOfCursor ==
  ASSUME NEW a \in Int
  PROVE  Index(a % Word) = a % Cap
<1>1. PICK q \in Nat \ {0} : Word = Cap * q
  BY WordFacts
<1>2. (a % (Cap * q)) % Cap = a % Cap
  BY WordFacts, ModMod
<1> QED
  BY <1>1, <1>2 DEF Index

(* head.wrapping_add(1) is the cursor of the next message. *)
LEMMA NextCursor ==
  ASSUME NEW a \in Int
  PROVE  WrappingAdd(a % Word) = (a + 1) % Word
<1>1. Word \in Nat \ {0} /\ 1 \in Int
  BY WordFacts
<1>2. ((a % Word) + 1) % Word = (a + 1) % Word
  BY ONLY <1>1, a \in Int, ModShift
<1> QED
  BY <1>2 DEF WrappingAdd

(* head.wrapping_sub(tail) is the number of messages between them. *)
LEMMA CursorDistance ==
  ASSUME NEW h \in Int, NEW t \in Int, h - t \in 0 .. Cap
  PROVE  WrappingSub(h % Word, t % Word) = h - t
<1>1. h - t \in 0 .. Word - 1
  BY WordFacts
<1> QED
  BY <1>1, WordFacts, ModSub DEF WrappingSub

(* The cursors of messages less than Word apart are equal only if the      *)
(* messages are.                                                           *)
LEMMA CursorEqual ==
  ASSUME NEW h \in Int, NEW t \in Int, h - t \in 0 .. Cap
  PROVE  (t % Word = h % Word) <=> (t = h)
<1>1. ASSUME t % Word = h % Word, t # h PROVE FALSE
  <2>1. t < h
    BY <1>1
  <2>2. t + Word <= h
    BY <1>1, <2>1, WordFacts, ModWindow
  <2> QED
    BY <2>2, WordFacts
<1> QED
  BY <1>1

-----------------------------------------------------------------------------
(***************************************************************************)
(* Consequences of the invariant                                           *)
(***************************************************************************)

(* How the observed and the true positions of the two cursors relate. *)
LEMMA Bounds ==
  ASSUME TypeOK, ProducerInv, ConsumerInv
  PROVE  /\ H \in Nat /\ T \in Nat
         /\ Len(headLog) = H + 1 /\ Len(tailLog) = T + 1
         /\ pseen \in Nat /\ cseen \in Nat
         /\ 0 <= pseen - 1 /\ pseen - 1 <= T
         /\ T <= cseen - 1 /\ cseen - 1 <= H
         /\ H - T \in 0 .. Cap
<1>1. Len(headLog) \in Nat /\ Len(tailLog) \in Nat
  BY DEF TypeOK
<1>2. pseen \in 1 .. Len(tailLog) /\ cseen \in 1 .. Len(headLog)
  BY DEF TypeOK
<1>3. H - (pseen - 1) <= Cap /\ T <= cseen - 1
  BY DEF ProducerInv, ConsumerInv
<1> QED
  BY <1>1, <1>2, <1>3, CapAssumption DEF H, T

(* The newest store to each cursor. *)
LEMMA LastEntries ==
  ASSUME TypeOK, LogInv, ProducerInv, ConsumerInv
  PROVE  /\ Last(headLog) = Entry(H % Word, H)
         /\ Last(tailLog) = Entry(T % Word, T)
<1>1. Len(headLog) \in 1 .. Len(headLog) /\ Len(tailLog) \in 1 .. Len(tailLog)
  BY Bounds
<1> QED
  BY <1>1 DEF LogInv, Last, H, T

(* What Inner::drop would find: exactly the messages from T up to H. *)
LEMMA UnreadIs ==
  ASSUME IInv
  PROVE  /\ Unread = [i \in 1 .. H - T |-> sent[T + i]]
         /\ Unread \in Seq(Values)
         /\ Len(Unread) = H - T
         /\ sent \in Seq(Values) /\ Len(sent) = H
<1>1. TypeOK /\ LogInv /\ ProducerInv /\ ConsumerInv /\ HistoryInv /\ SlotInv
  BY DEF IInv
<1>2. H \in Nat /\ T \in Nat /\ H - T \in 0 .. Cap
  BY <1>1, Bounds
<1>3. Last(headLog).val = H % Word /\ Last(tailLog).val = T % Word
  BY <1>1, LastEntries DEF Entry
<1>4. WrappingSub(H % Word, T % Word) = H - T
  BY <1>2, CursorDistance
<1>5. Unread = [i \in 1 .. H - T |-> slots[Index(((T % Word) + i - 1) % Word)].val]
  BY <1>3, <1>4 DEF Unread
<1>6. ASSUME NEW i \in 1 .. H - T
      PROVE  slots[Index(((T % Word) + i - 1) % Word)].val = sent[T + i]
  <2>1. T + i - 1 \in T .. H - 1 /\ i - 1 \in Int /\ T + (i - 1) \in Int
    BY <1>2
  <2>2. ((T % Word) + (i - 1)) % Word = (T + (i - 1)) % Word
    <3> DEFINE d == i - 1
    <3>1. d \in Int /\ T \in Int /\ Word \in Nat \ {0}
      BY <1>2, <2>1, WordFacts
    <3> HIDE DEF d
    <3>2. ((T % Word) + d) % Word = (T + d) % Word
      BY ONLY <3>1, ModShift
    <3> QED
      BY <3>2 DEF d
  <2>3. (T % Word) + i - 1 = (T % Word) + (i - 1) /\ T + i - 1 = T + (i - 1)
    BY <1>2, CursorRange DEF Cursor
  <2>4. Index((T + (i - 1)) % Word) = (T + (i - 1)) % Cap
    BY <2>1, IndexOfCursor
  <2>5. slots[(T + i - 1) % Cap].val = sent[(T + i - 1) + 1]
    BY <1>1, <2>1 DEF SlotInv
  <2>6. (T + i - 1) + 1 = T + i
    BY <1>2
  <2> QED
    BY <2>2, <2>3, <2>4, <2>5, <2>6
<1>7. Unread = [i \in 1 .. H - T |-> sent[T + i]]
  BY <1>5, <1>6
<1>8. sent \in Seq(Values) /\ Len(sent) = H
  BY <1>1 DEF TypeOK, HistoryInv
<1>9. \A i \in 1 .. H - T : sent[T + i] \in Values
  BY <1>2, <1>8
<1>10. H - T \in Nat
  BY <1>2
<1>11. Unread \in Seq(Values) /\ Len(Unread) = H - T
  BY <1>7, <1>9, <1>10
<1> QED
  BY <1>7, <1>8, <1>11

-----------------------------------------------------------------------------
(***************************************************************************)
(* The invariant is inductive                                              *)
(***************************************************************************)

(* spsc(capacity) establishes the invariant. *)
LEMMA InitIInv == Init => IInv
<1> SUFFICES ASSUME Init PROVE IInv
  OBVIOUS
<1>1. Cap \in Nat \ {0} /\ Word \in Nat \ {0} /\ 0 \in Cursor /\ 0 % Word = 0
  BY WordFacts DEF Cursor
<1>2. H = 0 /\ T = 0 /\ Len(headLog) = 1 /\ Len(tailLog) = 1
  BY DEF Init, H, T
<1>3. TypeOK
  BY <1>1 DEF Init, TypeOK, Entries, Entry
<1>4. LogInv
  BY <1>1, <1>2 DEF Init, LogInv, Entry
<1>5. ProducerInv /\ ConsumerInv
  BY <1>1, <1>2 DEF Init, ProducerInv, ConsumerInv
<1>6. HistoryInv /\ SlotInv
  BY <1>1, <1>2 DEF Init, HistoryInv, SlotInv, Freed
<1> QED
  BY <1>3, <1>4, <1>5, <1>6 DEF IInv

(* Starting try_send or send preserves the invariant. *)
LEMMA CallSendStep ==
  ASSUME IInv, NEW call \in {"try_send", "send"}, NEW v \in Values, CallSend(call, v)
  PROVE  IInv'
<1> USE DEF IInv, CallSend, atomics, producer, consumer, history
<1>1. TypeOK'
  BY DEF TypeOK
<1>2. H' = H /\ T' = T /\ LogInv'
  BY DEF LogInv, H, T
<1>3. ProducerInv' /\ ConsumerInv'
  BY <1>2 DEF ProducerInv, ConsumerInv
<1>4. HistoryInv'
  BY <1>2 DEF HistoryInv, Freed
<1>5. SlotInv'
  BY <1>2 DEF SlotInv
<1> QED
  BY <1>1, <1>2, <1>3, <1>4, <1>5

(* What try_send concludes from entry k of the tail log: it is full as of  *)
(* that entry exactly when Cap messages are outstanding.                   *)
LEMMA ObservedTail ==
  ASSUME IInv, NEW k \in Visible(tailLog, pseen)
  PROVE  /\ k \in 1 .. Len(tailLog) /\ Acquire(pknows, tailLog[k]) = k - 1
         /\ H - (k - 1) \in 0 .. Cap /\ k \in Nat
         /\ Last(headLog).val = H % Word /\ H % Word \in Cursor
         /\ Full(Last(headLog).val, tailLog[k].val) <=> H - (k - 1) = Cap
<1>0. TypeOK /\ LogInv /\ ProducerInv /\ ConsumerInv /\ HistoryInv /\ SlotInv
  BY DEF IInv
<1>1. /\ H \in Nat /\ T \in Nat /\ H - T \in 0 .. Cap
      /\ Len(tailLog) = T + 1 /\ Len(headLog) = H + 1 /\ pseen \in Nat /\ 0 <= pseen - 1
      /\ Cap \in Nat
  BY <1>0, Bounds, CapAssumption
<1>2. k \in 1 .. Len(tailLog) /\ k \in Nat /\ pseen <= k /\ k - 1 <= T
  BY <1>1 DEF Visible
<1>3. Last(headLog).val = H % Word /\ H % Word \in Cursor
  BY <1>0, <1>1, LastEntries, CursorRange DEF Entry
<1>4. tailLog[k].val = (k - 1) % Word /\ tailLog[k].rel = k - 1
  <2>1. tailLog[k] = Entry((k - 1) % Word, k - 1)
    BY <1>0, <1>2 DEF LogInv
  <2> QED
    BY <2>1 DEF Entry
<1>5. Acquire(pknows, tailLog[k]) = k - 1
  BY <1>0, <1>1, <1>2, <1>4 DEF ProducerInv, Acquire
<1>6. H - (pseen - 1) <= Cap
  BY <1>0 DEF ProducerInv
<1>7. H - (k - 1) \in 0 .. Cap
  BY <1>1, <1>2, <1>6
<1>8. WrappingSub(H % Word, (k - 1) % Word) = H - (k - 1)
  <2> DEFINE t == k - 1
  <2>1. H \in Int /\ t \in Int /\ H - t \in 0 .. Cap
    BY <1>1, <1>2, <1>7
  <2> HIDE DEF t
  <2>2. WrappingSub(H % Word, t % Word) = H - t
    BY <2>1, CursorDistance
  <2> QED
    BY <2>2 DEF t
<1>9. Full(Last(headLog).val, tailLog[k].val) <=> H - (k - 1) > Cap - 1
  BY <1>3, <1>4, <1>8 DEF Full
<1> QED
  BY <1>1, <1>2, <1>3, <1>5, <1>7, <1>9

(* The loads and the full check of try_send preserve the invariant: going  *)
(* on to the write means that fewer than Cap messages were outstanding.    *)
LEMMA SendLoadStep ==
  ASSUME IInv, NEW k \in Visible(tailLog, pseen), SendLoad(k)
  PROVE  IInv'
<1>0. TypeOK /\ LogInv /\ ProducerInv /\ ConsumerInv /\ HistoryInv /\ SlotInv
  BY DEF IInv
<1>1. /\ H \in Nat /\ T \in Nat /\ H - T \in 0 .. Cap
      /\ Len(tailLog) = T + 1 /\ Len(headLog) = H + 1 /\ pseen \in Nat /\ 0 <= pseen - 1
      /\ Cap \in Nat
  BY <1>0, Bounds, CapAssumption
<1>2. /\ k \in 1 .. Len(tailLog) /\ pknows' = k - 1
      /\ H - (k - 1) \in 0 .. Cap /\ k \in Nat
      /\ Last(headLog).val = H % Word /\ H % Word \in Cursor
      /\ Full(Last(headLog).val, tailLog[k].val) <=> H - (k - 1) = Cap
  BY ObservedTail DEF SendLoad
<1>10. H' = H /\ T' = T /\ LogInv'
  BY <1>0 DEF SendLoad, LogInv, H, T, atomics
<1>11. TypeOK'
  BY <1>0, <1>1, <1>2 DEF TypeOK, SendLoad, AfterRefusal, atomics, consumer, history
<1>12. ppc' = "write" => H - (k - 1) < Cap
  BY <1>1, <1>2 DEF SendLoad, AfterRefusal
<1>13. ProducerInv'
  BY <1>0, <1>1, <1>2, <1>10, <1>12
     DEF ProducerInv, SendLoad, AfterRefusal
<1>14. ConsumerInv'
  BY <1>0, <1>10 DEF ConsumerInv, SendLoad, consumer, history
<1>15. HistoryInv' /\ SlotInv'
  BY <1>0, <1>10
     DEF HistoryInv, SlotInv, Freed, SendLoad, AfterRefusal, consumer, history
<1> QED
  BY <1>10, <1>11, <1>13, <1>14, <1>15 DEF IInv

(* Writing the slot preserves the invariant: the slot of message H holds   *)
(* no message that is still to be received.                                *)
LEMMA SendWriteStep ==
  ASSUME IInv, SendWrite
  PROVE  IInv'
<1>0. TypeOK /\ LogInv /\ ProducerInv /\ ConsumerInv /\ HistoryInv /\ SlotInv
  BY DEF IInv
<1>1. /\ H \in Nat /\ T \in Nat /\ pseen - 1 <= T /\ pseen \in Nat
      /\ Cap \in Nat \ {0}
  BY <1>0, Bounds, CapAssumption
<1>2. phead = H % Word /\ H - (pseen - 1) < Cap /\ pclk = H
  BY <1>0 DEF ProducerInv, SendWrite
<1>3. Index(phead) = H % Cap /\ H % Cap \in SlotIndex
  BY <1>1, <1>2, IndexOfCursor, CursorRange
<1>4. slots' = [slots EXCEPT ![H % Cap].val = pval, ![H % Cap].w = H + 1]
  BY <1>2, <1>3 DEF SendWrite
<1>5. slots \in [SlotIndex -> [val : Values \cup {Uninit}, w : Nat, r : Nat]]
  BY <1>0 DEF TypeOK
<1>6. /\ slots'[H % Cap].val = pval /\ slots'[H % Cap].w = H + 1
      /\ \A i \in SlotIndex : i # H % Cap => slots'[i] = slots[i]
      /\ \A i \in SlotIndex : slots'[i].r = slots[i].r
  BY <1>3, <1>4, <1>5
<1>7. H' = H /\ T' = T /\ LogInv'
  BY <1>0 DEF SendWrite, LogInv, H, T, atomics
<1>8. TypeOK'
  <2>1. pval \in Values \cup {Uninit} /\ H + 1 \in Nat
    BY <1>0, <1>1 DEF TypeOK
  <2>2. slots' \in [SlotIndex -> [val : Values \cup {Uninit}, w : Nat, r : Nat]]
    BY <1>3, <1>4, <1>5, <2>1
  <2> QED
    BY <1>0, <2>2, SMTT(30) DEF TypeOK, SendWrite, atomics, consumer, history
<1>9. ProducerInv' /\ ConsumerInv'
  BY <1>0, <1>2, <1>7
     DEF ProducerInv, ConsumerInv, SendWrite, atomics, consumer, history
<1>10. HistoryInv'
  BY <1>0, <1>7 DEF HistoryInv, Freed, SendWrite, consumer, history
<1>11. SlotInv'
  <2>1. ASSUME NEW n \in T .. H - 1
        PROVE  slots'[n % Cap].val = sent[n + 1] /\ slots'[n % Cap].w = n + 1
    <3>1. n \in Int /\ n < H /\ T <= n
      BY <1>1
    <3>2. n % Cap # H % Cap
      <4>1. SUFFICES ASSUME n % Cap = H % Cap PROVE FALSE
        OBVIOUS
      <4>2. n + Cap <= H
        <5>1. n \in Int /\ H \in Int /\ n < H /\ Cap \in Nat \ {0}
          BY <1>1, <3>1
        <5> QED
          BY ONLY <4>1, <5>1, ModWindow
      <4> QED
        BY <1>1, <1>2, <3>1, <4>2
    <3>3. n % Cap \in SlotIndex
      BY <3>1, CursorRange
    <3>4. slots'[n % Cap] = slots[n % Cap]
      BY <1>6, <3>2, <3>3
    <3> QED
      BY <1>0, <3>4 DEF SlotInv
  <2>2. \A i \in SlotIndex :
          slots'[i].r > 0 => (slots'[i].r - 1) % Cap = i /\ slots'[i].r <= cclk'
    BY <1>0, <1>6 DEF SlotInv, SendWrite, consumer
  <2>3. sent' = sent /\ pval' = pval
    BY DEF SendWrite, history
  <2> QED
    BY <1>6, <1>7, <2>1, <2>2, <2>3 DEF SlotInv
<1> QED
  BY <1>7, <1>8, <1>9, <1>10, <1>11 DEF IInv

(* The Release store of `head` preserves the invariant: it publishes the   *)
(* message together with the clock of its write.                           *)
LEMMA SendPublishStep ==
  ASSUME IInv, SendPublish
  PROVE  IInv'
<1>0. TypeOK /\ LogInv /\ ProducerInv /\ ConsumerInv /\ HistoryInv /\ SlotInv
  BY DEF IInv
<1>1. /\ H \in Nat /\ T \in Nat /\ T <= H /\ Len(headLog) = H + 1
      /\ pseen \in Nat /\ cseen \in 1 .. H + 1
  BY <1>0, Bounds
<1>2. /\ phead = H % Word /\ pclk = H + 1 /\ pval \in Values
      /\ H - (pseen - 1) < Cap
  BY <1>0 DEF ProducerInv, SendPublish
<1>3. WrappingAdd(phead) = (H + 1) % Word /\ (H + 1) % Word \in Cursor
  BY <1>1, <1>2, NextCursor, CursorRange
<1>4. headLog' = Append(headLog, Entry((H + 1) % Word, H + 1))
  BY <1>2, <1>3 DEF SendPublish, Release
<1>5. headLog \in Seq(Entries) /\ Entry((H + 1) % Word, H + 1) \in Entries
  BY <1>0, <1>1, <1>3 DEF TypeOK, Entries, Entry
<1>6. /\ headLog' \in Seq(Entries)
      /\ Len(headLog') = H + 2
      /\ headLog'[H + 2] = Entry((H + 1) % Word, H + 1)
      /\ \A k \in 1 .. H + 1 : headLog'[k] = headLog[k]
  BY <1>1, <1>4, <1>5
<1>7. /\ sent' \in Seq(Values)
      /\ Len(sent) = H
      /\ Len(sent') = H + 1
      /\ sent'[H + 1] = pval
      /\ \A n \in 1 .. H : sent'[n] = sent[n]
  BY <1>0, <1>1, <1>2 DEF TypeOK, HistoryInv, SendPublish
<1>8. H' = H + 1 /\ T' = T
  BY <1>1, <1>6 DEF SendPublish, H, T
<1>9. TypeOK'
  BY <1>0, <1>1, <1>6, <1>7 DEF TypeOK, SendPublish, consumer
<1>10. LogInv'
  <2>1. ASSUME NEW k \in 1 .. H + 2
        PROVE  headLog'[k] = Entry((k - 1) % Word, k - 1)
    <3>1. CASE k \in 1 .. H + 1
      BY <1>0, <1>1, <1>6, <3>1 DEF LogInv
    <3>2. CASE k = H + 2
      <4>1. k - 1 = H + 1
        BY <1>1, <3>2
      <4> QED
        BY <1>6, <3>2, <4>1
    <3> QED
      BY <1>1, <3>1, <3>2
  <2>2. tailLog' = tailLog
    BY DEF SendPublish
  <2> QED
    BY <1>0, <1>6, <2>1, <2>2 DEF LogInv
<1>11. ProducerInv'
  BY <1>0, <1>1, <1>2, <1>8, CapAssumption DEF ProducerInv, SendPublish
<1>12. ConsumerInv'
  <2>1. cpc = "publish" => T + 1 \in 1 .. H
    BY <1>0, <1>1 DEF ConsumerInv
  <2> QED
    BY <1>0, <1>7, <1>8, <2>1 DEF ConsumerInv, SendPublish, consumer
<1>13. HistoryInv'
  <2>1. \A n \in 1 .. T : received[n] = sent'[n]
    BY <1>0, <1>1, <1>7 DEF HistoryInv
  <2> QED
    BY <1>0, <1>7, <1>8, <2>1 DEF HistoryInv, SendPublish, Freed
<1>14. SlotInv'
  <2>1. ASSUME NEW n \in T .. H
        PROVE  slots[n % Cap].val = sent'[n + 1] /\ slots[n % Cap].w = n + 1
    <3>1. CASE n \in T .. H - 1
      <4>1. n + 1 \in 1 .. H
        BY <1>1, <3>1
      <4> QED
        BY <1>0, <1>7, <3>1, <4>1 DEF SlotInv
    <3>2. CASE n = H
      BY <1>0, <1>7, <3>2 DEF SlotInv, SendPublish
    <3> QED
      BY <1>1, <3>1, <3>2
  <2>2. H' - 1 = H
    BY <1>1, <1>8
  <2> QED
    BY <1>0, <1>8, <2>1, <2>2 DEF SlotInv, SendPublish, consumer
<1> QED
  BY <1>9, <1>10, <1>11, <1>12, <1>13, <1>14 DEF IInv

(* Starting try_recv or recv preserves the invariant. *)
LEMMA CallRecvStep ==
  ASSUME IInv, NEW call \in {"try_recv", "recv"}, CallRecv(call)
  PROVE  IInv'
<1> USE DEF IInv, CallRecv, atomics, producer, consumer, history
<1>1. TypeOK'
  BY DEF TypeOK
<1>2. H' = H /\ T' = T /\ LogInv'
  BY DEF LogInv, H, T
<1>3. ProducerInv' /\ ConsumerInv'
  BY <1>2 DEF ProducerInv, ConsumerInv
<1>4. HistoryInv'
  BY <1>2 DEF HistoryInv, Freed
<1>5. SlotInv'
  BY <1>2 DEF SlotInv
<1> QED
  BY <1>1, <1>2, <1>3, <1>4, <1>5

(* What try_recv concludes from entry k of the head log: it is empty as of *)
(* that entry exactly when every message below it was consumed.            *)
LEMMA ObservedHead ==
  ASSUME IInv, NEW k \in Visible(headLog, cseen)
  PROVE  /\ k \in 1 .. Len(headLog) /\ Acquire(cknows, headLog[k]) = k - 1
         /\ (k - 1) - T \in 0 .. Cap /\ k \in Nat
         /\ Last(tailLog).val = T % Word /\ T % Word \in Cursor
         /\ Empty(Last(tailLog).val, headLog[k].val) <=> T = k - 1
<1>0. TypeOK /\ LogInv /\ ProducerInv /\ ConsumerInv /\ HistoryInv /\ SlotInv
  BY DEF IInv
<1>1. /\ H \in Nat /\ T \in Nat /\ H - T \in 0 .. Cap
      /\ Len(headLog) = H + 1 /\ cseen \in Nat /\ T <= cseen - 1
      /\ Cap \in Nat
  BY <1>0, Bounds, CapAssumption
<1>2. k \in 1 .. Len(headLog) /\ k \in Nat /\ cseen <= k /\ k - 1 <= H
  BY <1>1 DEF Visible
<1>3. Last(tailLog).val = T % Word /\ T % Word \in Cursor
  BY <1>0, <1>1, LastEntries, CursorRange DEF Entry
<1>4. headLog[k].val = (k - 1) % Word /\ headLog[k].rel = k - 1
  <2>1. headLog[k] = Entry((k - 1) % Word, k - 1)
    BY <1>0, <1>2 DEF LogInv
  <2> QED
    BY <2>1 DEF Entry
<1>5. Acquire(cknows, headLog[k]) = k - 1
  BY <1>0, <1>1, <1>2, <1>4 DEF ConsumerInv, Acquire
<1>6. (k - 1) - T \in 0 .. Cap
  BY <1>1, <1>2
<1>7. Empty(Last(tailLog).val, headLog[k].val) <=> T = k - 1
  <2> DEFINE h == k - 1
  <2>1. T \in Int /\ h \in Int /\ h - T \in 0 .. Cap
    BY <1>1, <1>2, <1>6
  <2> HIDE DEF h
  <2>2. (T % Word = h % Word) <=> (T = h)
    BY <2>1, CursorEqual
  <2> QED
    BY <1>3, <1>4, <2>2 DEF Empty, h
<1> QED
  BY <1>2, <1>3, <1>5, <1>6, <1>7

(* The loads and the empty check of try_recv preserve the invariant: going *)
(* on to the read means that message T was published.                      *)
LEMMA RecvLoadStep ==
  ASSUME IInv, NEW k \in Visible(headLog, cseen), RecvLoad(k)
  PROVE  IInv'
<1>0. TypeOK /\ LogInv /\ ProducerInv /\ ConsumerInv /\ HistoryInv /\ SlotInv
  BY DEF IInv
<1>1. /\ H \in Nat /\ T \in Nat /\ H - T \in 0 .. Cap
      /\ Len(headLog) = H + 1 /\ cseen \in Nat /\ T <= cseen - 1
      /\ Cap \in Nat
  BY <1>0, Bounds, CapAssumption
<1>2. /\ k \in 1 .. Len(headLog) /\ cknows' = k - 1
      /\ (k - 1) - T \in 0 .. Cap /\ k \in Nat
      /\ Last(tailLog).val = T % Word /\ T % Word \in Cursor
      /\ Empty(Last(tailLog).val, headLog[k].val) <=> T = k - 1
  BY ObservedHead DEF RecvLoad
<1>8. H' = H /\ T' = T /\ LogInv'
  BY <1>0 DEF RecvLoad, LogInv, H, T, atomics
<1>9. TypeOK'
  BY <1>0, <1>1, <1>2 DEF TypeOK, RecvLoad, AfterEmpty, atomics, producer, history
<1>10. cpc' = "read" => T < k - 1
  BY <1>1, <1>2 DEF RecvLoad, AfterEmpty
<1>11. ProducerInv'
  BY <1>0, <1>8 DEF ProducerInv, RecvLoad, producer
<1>12. T <= k - 1
  BY <1>1, <1>2
<1>13. ConsumerInv'
  BY <1>0, <1>2, <1>8, <1>10, <1>12
     DEF ConsumerInv, RecvLoad, AfterEmpty
<1>14. HistoryInv' /\ SlotInv'
  BY <1>0, <1>8
     DEF HistoryInv, SlotInv, Freed, RecvLoad, AfterEmpty, producer, history
<1> QED
  BY <1>8, <1>9, <1>11, <1>13, <1>14 DEF IInv

(* When the consumer is about to read, the slot holds message T and its    *)
(* write is ordered before the read.                                       *)
LEMMA ReadIsOrdered ==
  ASSUME IInv, cpc = "read"
  PROVE  /\ Index(ctail) = T % Cap /\ T % Cap \in SlotIndex
         /\ ReadOrdered(Index(ctail))
         /\ slots[T % Cap].val = sent[T + 1]
         /\ sent[T + 1] \in Values
<1>0. TypeOK /\ LogInv /\ ProducerInv /\ ConsumerInv /\ HistoryInv /\ SlotInv
  BY DEF IInv
<1>1. /\ H \in Nat /\ T \in Nat /\ cseen \in Nat /\ cseen - 1 <= H
  BY <1>0, Bounds
<1>2. ctail = T % Word /\ T < cseen - 1 /\ cknows = cseen - 1
  BY <1>0 DEF ConsumerInv
<1>3. Index(ctail) = T % Cap /\ T % Cap \in SlotIndex
  BY <1>1, <1>2, IndexOfCursor, CursorRange
<1>4. T \in T .. H - 1 /\ T + 1 \in 1 .. H
  BY <1>1, <1>2
<1>5. slots[T % Cap].val = sent[T + 1] /\ slots[T % Cap].w = T + 1
  BY <1>0, <1>4 DEF SlotInv
<1>6. sent[T + 1] \in Values
  BY <1>0, <1>4 DEF TypeOK, HistoryInv
<1>7. T + 1 <= cknows
  BY <1>1, <1>2
<1> QED
  BY <1>3, <1>5, <1>6, <1>7, UninitAssumption DEF ReadOrdered

(* Reading the slot preserves the invariant: it yields message T. *)
LEMMA RecvReadStep ==
  ASSUME IInv, RecvRead
  PROVE  IInv'
<1>0. TypeOK /\ LogInv /\ ProducerInv /\ ConsumerInv /\ HistoryInv /\ SlotInv
  BY DEF IInv
<1>1. /\ H \in Nat /\ T \in Nat /\ Cap \in Nat \ {0}
  BY <1>0, Bounds, CapAssumption
<1>2. /\ ctail = T % Word /\ T < cseen - 1 /\ cclk = T
  BY <1>0 DEF ConsumerInv, RecvRead
<1>3. Index(ctail) = T % Cap /\ T % Cap \in SlotIndex /\ cval' = sent[T + 1]
      /\ sent[T + 1] \in Values
  BY ReadIsOrdered DEF RecvRead, ReadOutcomes
<1>4. slots' = [slots EXCEPT ![T % Cap].r = T + 1]
  BY <1>2, <1>3 DEF RecvRead
<1>5. slots \in [SlotIndex -> [val : Values \cup {Uninit}, w : Nat, r : Nat]]
  BY <1>0 DEF TypeOK
<1>6. /\ slots'[T % Cap].r = T + 1
      /\ \A i \in SlotIndex : i # T % Cap => slots'[i] = slots[i]
      /\ \A i \in SlotIndex : slots'[i].val = slots[i].val /\ slots'[i].w = slots[i].w
  BY <1>3, <1>4, <1>5
<1>7. H' = H /\ T' = T /\ LogInv'
  BY <1>0 DEF RecvRead, LogInv, H, T, atomics
<1>8. TypeOK'
  <2>1. T + 1 \in Nat
    BY <1>1
  <2>2. slots' \in [SlotIndex -> [val : Values \cup {Uninit}, w : Nat, r : Nat]]
    BY <1>3, <1>4, <1>5, <2>1
  <2>3. cval' \in Values \cup {Uninit}
    BY <1>3
  <2> QED
    BY <1>0, <2>2, <2>3, SMTT(30) DEF TypeOK, RecvRead, atomics, producer, history
<1>9. ProducerInv' /\ ConsumerInv'
  BY <1>0, <1>2, <1>3, <1>7
     DEF ProducerInv, ConsumerInv, RecvRead, atomics, producer, history
<1>10. HistoryInv'
  BY <1>0, <1>7 DEF HistoryInv, Freed, RecvRead, producer, history
<1>11. SlotInv'
  <2>1. cclk' = T + 1 /\ ppc' = ppc /\ pval' = pval /\ sent' = sent
    BY <1>2 DEF RecvRead, producer, history
  <2>2. ASSUME NEW n \in T .. H - 1
        PROVE  slots'[n % Cap].val = sent[n + 1] /\ slots'[n % Cap].w = n + 1
    <3>1. n % Cap \in SlotIndex
      BY <1>1, CursorRange
    <3> QED
      BY <1>0, <1>6, <3>1 DEF SlotInv
  <2>3. ppc = "publish" => slots'[H % Cap].val = pval /\ slots'[H % Cap].w = H + 1
    <3>1. H % Cap \in SlotIndex
      BY <1>1, CursorRange
    <3> QED
      BY <1>0, <1>6, <3>1 DEF SlotInv
  <2>4. ASSUME NEW i \in SlotIndex, slots'[i].r > 0
        PROVE  (slots'[i].r - 1) % Cap = i /\ slots'[i].r <= T + 1
    <3>1. CASE i = T % Cap
      <4>1. slots'[i].r = T + 1 /\ (T + 1) - 1 = T
        BY <1>1, <1>6, <3>1
      <4> QED
        BY <1>1, <3>1, <4>1
    <3>2. CASE i # T % Cap
      <4>1. slots[i].r > 0 /\ slots'[i].r = slots[i].r /\ slots[i].r \in Nat
        BY <1>5, <1>6, <2>4, <3>2
      <4>2. (slots[i].r - 1) % Cap = i /\ slots[i].r <= T
        BY <1>0, <1>2, <4>1 DEF SlotInv
      <4> QED
        BY <1>1, <4>1, <4>2
    <3> QED
      BY <3>1, <3>2
  <2> QED
    BY <1>7, <2>1, <2>2, <2>3, <2>4 DEF SlotInv
<1> QED
  BY <1>7, <1>8, <1>9, <1>10, <1>11 DEF IInv

(* The Release store of `tail` preserves the invariant: it hands message T *)
(* to the caller and frees its slot.                                       *)
LEMMA RecvPublishStep ==
  ASSUME IInv, RecvPublish
  PROVE  IInv'
<1>0. TypeOK /\ LogInv /\ ProducerInv /\ ConsumerInv /\ HistoryInv /\ SlotInv
  BY DEF IInv
<1>1. /\ H \in Nat /\ T \in Nat /\ Len(tailLog) = T + 1
      /\ cseen \in Nat /\ cseen - 1 <= H /\ pseen \in 1 .. T + 1
  BY <1>0, Bounds
<1>2. /\ ctail = T % Word /\ cclk = T + 1 /\ T < cseen - 1 /\ cval = sent[T + 1]
  BY <1>0 DEF ConsumerInv, RecvPublish
<1>3. WrappingAdd(ctail) = (T + 1) % Word /\ (T + 1) % Word \in Cursor
  BY <1>1, <1>2, NextCursor, CursorRange
<1>4. tailLog' = Append(tailLog, Entry((T + 1) % Word, T + 1))
  BY <1>2, <1>3 DEF RecvPublish, Release
<1>5. tailLog \in Seq(Entries) /\ Entry((T + 1) % Word, T + 1) \in Entries
  BY <1>0, <1>1, <1>3 DEF TypeOK, Entries, Entry
<1>6. /\ tailLog' \in Seq(Entries)
      /\ Len(tailLog') = T + 2
      /\ tailLog'[T + 2] = Entry((T + 1) % Word, T + 1)
      /\ \A k \in 1 .. T + 1 : tailLog'[k] = tailLog[k]
  BY <1>1, <1>4, <1>5
<1>7. /\ received' \in Seq(Values \cup {Uninit})
      /\ Len(received') = T + 1
      /\ received'[T + 1] = cval
      /\ \A n \in 1 .. T : received'[n] = received[n]
  BY <1>0, <1>1 DEF TypeOK, HistoryInv, RecvPublish
<1>8. H' = H /\ T' = T + 1
  BY <1>1, <1>6 DEF RecvPublish, H, T
<1>9. TypeOK'
  BY <1>0, <1>1, <1>6, <1>7 DEF TypeOK, RecvPublish, producer
<1>10. LogInv'
  <2>1. ASSUME NEW k \in 1 .. T + 2
        PROVE  tailLog'[k] = Entry((k - 1) % Word, k - 1)
    <3>1. CASE k \in 1 .. T + 1
      BY <1>0, <1>1, <1>6, <3>1 DEF LogInv
    <3>2. CASE k = T + 2
      <4>1. k - 1 = T + 1
        BY <1>1, <3>2
      <4> QED
        BY <1>6, <3>2, <4>1
    <3> QED
      BY <1>1, <3>1, <3>2
  <2>2. headLog' = headLog
    BY DEF RecvPublish
  <2> QED
    BY <1>0, <1>6, <2>1, <2>2 DEF LogInv
<1>11. ProducerInv'
  BY <1>0, <1>8 DEF ProducerInv, RecvPublish, producer
<1>12. ConsumerInv'
  BY <1>0, <1>1, <1>2, <1>8 DEF ConsumerInv, RecvPublish
<1>13. HistoryInv'
  <2>1. ASSUME NEW n \in 1 .. T + 1 PROVE received'[n] = sent[n]
    <3>1. CASE n \in 1 .. T
      BY <1>0, <1>7, <3>1 DEF HistoryInv
    <3>2. CASE n = T + 1
      BY <1>2, <1>7, <3>2
    <3> QED
      BY <1>1, <3>1, <3>2
  <2> QED
    BY <1>0, <1>7, <1>8, <2>1 DEF HistoryInv, RecvPublish, Freed
<1>14. SlotInv'
  <2>1. \A n \in T + 1 .. H - 1 : n \in T .. H - 1
    BY <1>1
  <2> QED
    BY <1>0, <1>8, <2>1 DEF SlotInv, RecvPublish, producer
<1> QED
  BY <1>9, <1>10, <1>11, <1>12, <1>13, <1>14 DEF IInv

(* Dropping a handle preserves the invariant: the second drop disposes of  *)
(* exactly the messages that were sent and not received.                   *)
LEMMA DropStep ==
  ASSUME IInv, DropProducer \/ DropConsumer
  PROVE  IInv'
<1>0. TypeOK /\ LogInv /\ ProducerInv /\ ConsumerInv /\ HistoryInv /\ SlotInv
  BY DEF IInv
<1>1. /\ UNCHANGED <<headLog, tailLog, slots, pcall, pval, phead, pseen, pknows, pclk,
                     ccall, ctail, cval, cseen, cknows, cclk, sent, received>>
      /\ \/ ppc = "idle" /\ ppc' = "gone" /\ cpc' = cpc
         \/ cpc = "idle" /\ cpc' = "gone" /\ ppc' = ppc
      /\ disposed' = IF Freed' THEN InnerDrop ELSE disposed
  BY DEF DropProducer, DropConsumer, Freed, atomics, producer, consumer
<1>2. H' = H /\ T' = T /\ LogInv' /\ Unread' = Unread
  BY <1>0, <1>1 DEF LogInv, H, T, Unread, Last, WrappingSub, Index
<1>3. Unread \in Seq(Values \cup {Uninit})
  BY UnreadIs
<1>4. TypeOK'
  BY <1>0, <1>1, <1>3 DEF TypeOK, InnerDrop
<1>5. ProducerInv'
  BY <1>0, <1>1, <1>2 DEF ProducerInv
<1>6. ConsumerInv'
  BY <1>0, <1>1, <1>2 DEF ConsumerInv
<1>7. HistoryInv'
  BY <1>0, <1>1, <1>2 DEF HistoryInv, InnerDrop
<1>8. SlotInv'
  BY <1>0, <1>1, <1>2 DEF SlotInv
<1> QED
  BY <1>2, <1>4, <1>5, <1>6, <1>7, <1>8 DEF IInv

(* The invariant does not depend on anything but the variables. *)
LEMMA StutterStep ==
  ASSUME IInv, UNCHANGED vars
  PROVE  IInv'
<1> USE DEF vars, atomics, producer, consumer, history
<1>1. TypeOK'
  BY DEF IInv, TypeOK
<1>2. H' = H /\ T' = T /\ LogInv' /\ Unread' = Unread
  BY DEF IInv, LogInv, H, T, Unread, Last, WrappingSub, Index
<1>3. ProducerInv' /\ ConsumerInv' /\ SlotInv'
  BY <1>2 DEF IInv, ProducerInv, ConsumerInv, SlotInv
<1>4. HistoryInv'
  BY <1>2 DEF IInv, HistoryInv, Freed
<1> QED
  BY <1>1, <1>2, <1>3, <1>4 DEF IInv

(* Every step of either thread, in any interleaving, preserves IInv. *)
LEMMA NextIInv == IInv /\ [Next]_vars => IInv'
<1> SUFFICES ASSUME IInv, [Next]_vars PROVE IInv'
  OBVIOUS
<1>1. CASE ProducerStep
  BY <1>1, CallSendStep, SendLoadStep, SendWriteStep, SendPublishStep, DropStep
     DEF ProducerStep
<1>2. CASE ConsumerStep
  BY <1>2, CallRecvStep, RecvLoadStep, RecvReadStep, RecvPublishStep, DropStep
     DEF ConsumerStep
<1>3. CASE UNCHANGED vars
  BY <1>3, StutterStep
<1> QED
  BY <1>1, <1>2, <1>3 DEF Next

-----------------------------------------------------------------------------
(***************************************************************************)
(* Theorems                                                                *)
(***************************************************************************)

(* The cursors, the clocks the threads have learnt, the slots and the      *)
(* histories always agree about which messages are in the ring.            *)
THEOREM Invariance == Spec => []IInv
<1>1. Init => IInv
  BY InitIInv
<1>2. IInv /\ [Next]_vars => IInv'
  BY NextIInv
<1> QED
  BY <1>1, <1>2, PTL DEF Spec

(* Every variable keeps its type; the cursors stay within a usize. *)
THEOREM TypeCorrect == Spec => []TypeOK
<1>1. IInv => TypeOK
  BY DEF IInv
<1> QED
  BY <1>1, Invariance, PTL

(* When the producer is about to write, the last read of the slot is       *)
(* ordered before the write.                                               *)
LEMMA WriteIsOrdered ==
  ASSUME IInv, ppc = "write"
  PROVE  WriteOrdered(Index(phead))
<1>0. TypeOK /\ LogInv /\ ProducerInv /\ ConsumerInv /\ HistoryInv /\ SlotInv
  BY DEF IInv
<1>1. /\ H \in Nat /\ T \in Nat /\ Cap \in Nat \ {0} /\ pseen \in Nat
      /\ 0 <= pseen - 1 /\ cseen \in Nat /\ T <= H /\ cseen - 1 <= H
  BY <1>0, Bounds, CapAssumption
<1>2. phead = H % Word /\ H - (pseen - 1) < Cap /\ pknows = pseen - 1
  BY <1>0 DEF ProducerInv
<1>3. cclk <= H
  BY <1>0, <1>1 DEF ConsumerInv
<1> DEFINE i == H % Cap
           m == slots[i].r - 1
<1>4. Index(phead) = i /\ i \in SlotIndex
  BY <1>1, <1>2, IndexOfCursor, CursorRange
<1>5. slots[i].r \in Nat /\ cclk \in Nat
  BY <1>0, <1>4 DEF TypeOK
<1>6. CASE slots[i].r = 0
  BY <1>1, <1>2, <1>4, <1>6 DEF WriteOrdered
<1>7. CASE slots[i].r > 0
  <2>1. m % Cap = H % Cap /\ slots[i].r <= cclk
    BY <1>0, <1>4, <1>7 DEF SlotInv
  <2>2. m \in Int /\ m < H /\ H \in Int
    BY <1>1, <1>3, <1>5, <2>1
  <2> HIDE DEF m
  <2>3. m + Cap <= H
    BY ONLY <2>1, <2>2, CapAssumption, ModWindow
  <2> QED
    BY <1>1, <1>2, <1>4, <1>5, <2>2, <2>3 DEF WriteOrdered, m
<1> QED
  BY <1>5, <1>6, <1>7

(* Every slot access is ordered after the other thread's last conflicting  *)
(* access: the SAFETY comments of try_send and try_recv hold.              *)
THEOREM DataRaceFreedom == Spec => []NoDataRace
<1>1. IInv => NoDataRace
  BY WriteIsOrdered, ReadIsOrdered DEF NoDataRace
<1> QED
  BY <1>1, Invariance, PTL

(* Every value sent is received, in the ring, or disposed of by            *)
(* Inner::drop, exactly once and in order.                                 *)
THEOREM Conservation == Spec => []ExactlyOnceInOrder
<1>1. ASSUME IInv PROVE ExactlyOnceInOrder
  <2>0. TypeOK /\ ProducerInv /\ ConsumerInv /\ HistoryInv
    BY <1>1 DEF IInv
  <2>1. H \in Nat /\ T \in Nat /\ H - T \in 0 .. Cap /\ Cap \in Nat
    BY <2>0, Bounds, CapAssumption
  <2>2. /\ Unread \in Seq(Values) /\ Len(Unread) = H - T
        /\ Unread = [i \in 1 .. H - T |-> sent[T + i]]
        /\ sent \in Seq(Values) /\ Len(sent) = H
    BY <1>1, UnreadIs
  <2>3. received \in Seq(Values \cup {Uninit}) /\ Len(received) = T
    BY <2>0 DEF TypeOK, HistoryInv
  <2> DEFINE all == received \o Unread
  <2>4. all \in Seq(Values \cup {Uninit}) /\ Len(all) = H
    BY <2>1, <2>2, <2>3
  <2>5. ASSUME NEW n \in 1 .. H PROVE all[n] = sent[n]
    <3>1. CASE n \in 1 .. T
      BY <2>0, <2>1, <2>2, <2>3, <3>1 DEF HistoryInv
    <3>2. CASE n \in T + 1 .. H
      <4>1. n - T \in 1 .. H - T /\ T + (n - T) = n
        BY <2>1, <3>2
      <4>2. Unread[n - T] = sent[n]
        BY <2>2, <4>1
      <4>3. n \in 1 .. Len(received) + Len(Unread) /\ ~ (n <= Len(received))
        BY <2>1, <2>2, <2>3, <3>2
      <4>4. all[n] = Unread[n - Len(received)]
        BY <2>2, <2>3, <4>3
      <4> QED
        BY <2>3, <4>2, <4>4
    <3>3. n \in 1 .. T \/ n \in T + 1 .. H
      BY <2>1
    <3> QED
      BY <3>1, <3>2, <3>3
  <2>6. sent = all
    <3> HIDE DEF all
    <3>1. sent \in Seq(Values \cup {Uninit})
      BY <2>2
    <3> QED
      BY <2>2, <2>4, <2>5, <3>1, SeqEqual
  <2>7. Freed => disposed = Unread
    BY <2>0 DEF HistoryInv
  <2> QED
    BY <2>6, <2>7 DEF ExactlyOnceInOrder
<1> QED
  BY <1>1, Invariance, PTL

(* try_send and try_recv never refuse, admit or find nothing because a     *)
(* cursor wrapped around: their answers are right as of the entry loaded.  *)
THEOREM AnswersHonest == Spec => HonestAnswers
<1>1. IInv /\ [Next]_vars => [HonestAnswer]_vars
  <2> SUFFICES ASSUME IInv, Next PROVE HonestAnswer
    OBVIOUS
  <2>1. ASSUME ppc = "load", ppc' # ppc
        PROVE  (ppc' = "idle") <=> (Len(headLog) - pseen' = Cap)
    <3>1. PICK k \in Visible(tailLog, pseen) : SendLoad(k)
      BY <2>1 DEF Next, ProducerStep, ConsumerStep, producer, CallSend, SendWrite,
         SendPublish, DropProducer, CallRecv, RecvLoad, RecvRead, RecvPublish, DropConsumer
    <3>2. Full(Last(headLog).val, tailLog[k].val) <=> H - (k - 1) = Cap
      BY ObservedTail
    <3>3. H - (k - 1) = Len(headLog) - k
      BY ObservedTail, Bounds DEF IInv
    <3> QED
      BY <2>1, <3>1, <3>2, <3>3 DEF SendLoad, AfterRefusal
  <2>2. ASSUME cpc = "load", cpc' # cpc
        PROVE  (cpc' = "idle") <=> (Len(tailLog) = cseen')
    <3>1. PICK k \in Visible(headLog, cseen) : RecvLoad(k)
      BY <2>2 DEF Next, ProducerStep, ConsumerStep, consumer, CallSend, SendLoad, SendWrite,
         SendPublish, DropProducer, CallRecv, RecvRead, RecvPublish, DropConsumer
    <3>2. (Empty(Last(tailLog).val, headLog[k].val) <=> T = k - 1) /\ k \in Nat
      BY ObservedHead
    <3>3. Len(tailLog) = T + 1 /\ T \in Nat
      BY Bounds DEF IInv
    <3> QED
      BY <2>2, <3>1, <3>2, <3>3 DEF RecvLoad, AfterEmpty
  <2> QED
    BY <2>1, <2>2 DEF HonestAnswer
<1> QED
  BY <1>1, Invariance, PTL DEF Spec, HonestAnswers

-----------------------------------------------------------------------------
(***************************************************************************)
(* The ring implements BoundedFifo                                         *)
(***************************************************************************)

(* What UnreadIs says, as a state predicate. *)
UnreadKnown ==
  /\ H \in Nat /\ T \in Nat /\ H - T \in 0 .. Cap
  /\ Unread \in Seq(Values) /\ Len(Unread) = H - T
  /\ \A i \in 1 .. H - T : Unread[i] = sent[T + i]

(* UnreadIs before and after a step. *)
LEMMA UnreadBeforeAndAfter == (IInv => UnreadKnown) /\ (IInv' => UnreadKnown')
<1>1. IInv => UnreadKnown
  BY UnreadIs, Bounds DEF IInv, UnreadKnown
<1>2. (IInv => UnreadKnown)'
  BY <1>1, PTL
<1> QED
  BY <1>1, <1>2

(* Publishing `head` is Enqueue(pval). *)
LEMMA PublishEnqueues ==
  ASSUME IInv, IInv', SendPublish
  PROVE  \E v \in Values : Fifo!Enqueue(v)
<1>0. TypeOK /\ ProducerInv /\ ConsumerInv /\ HistoryInv
  BY DEF IInv
<1>1. UnreadKnown /\ UnreadKnown'
  BY UnreadBeforeAndAfter
<1>2. /\ H \in Nat /\ T \in Nat /\ T <= H /\ Len(headLog) = H + 1
      /\ pseen \in Nat /\ pseen - 1 <= T /\ Cap \in Nat
  BY <1>0, Bounds, CapAssumption
<1>3. H - (pseen - 1) < Cap /\ pval \in Values
  BY <1>0 DEF ProducerInv, SendPublish
<1>4. sent \in Seq(Values) /\ Len(sent) = H /\ sent' = Append(sent, pval)
  BY <1>0 DEF TypeOK, HistoryInv, SendPublish
<1>5. H' = H + 1 /\ T' = T
  <2>1. Len(headLog') = Len(headLog) + 1 /\ tailLog' = tailLog
    BY <1>0 DEF SendPublish, Release, TypeOK
  <2> QED
    BY <1>2, <2>1 DEF H, T
<1>6. Unread' = Append(Unread, pval)
  <2>1. /\ Append(Unread, pval) \in Seq(Values)
        /\ Len(Append(Unread, pval)) = (H - T) + 1
        /\ \A i \in 1 .. H - T : Append(Unread, pval)[i] = Unread[i]
        /\ Append(Unread, pval)[(H - T) + 1] = pval
    BY <1>1, <1>3, AppendProperties DEF UnreadKnown
  <2>2. Unread' \in Seq(Values) /\ Len(Unread') = (H - T) + 1
    BY <1>1, <1>2, <1>5 DEF UnreadKnown
  <2>3. ASSUME NEW i \in 1 .. (H - T) + 1 PROVE Unread'[i] = Append(Unread, pval)[i]
    <3>1. Unread'[i] = sent'[T + i]
      BY <1>1, <1>2, <1>5 DEF UnreadKnown
    <3>2. CASE i \in 1 .. H - T
      <4>1. T + i \in 1 .. H /\ Append(Unread, pval)[i] = Unread[i]
        BY <1>2, <2>1, <3>2
      <4>2. sent'[T + i] = sent[T + i]
        BY <1>4, <4>1
      <4> QED
        BY <1>1, <3>1, <3>2, <4>1, <4>2 DEF UnreadKnown
    <3>3. CASE i = (H - T) + 1
      <4>1. T + i = H + 1 /\ Append(Unread, pval)[i] = pval
        BY <1>2, <2>1, <3>3
      <4>2. sent'[H + 1] = pval
        BY <1>2, <1>4
      <4> QED
        BY <3>1, <4>1, <4>2
    <3>4. i \in 1 .. H - T \/ i = (H - T) + 1
      BY <1>2
    <3> QED
      BY <3>2, <3>3, <3>4
  <2> QED
    BY <2>1, <2>2, <2>3, SeqEqual
<1>7. Len(Unread) < Cap
  BY <1>1, <1>2, <1>3, SMTT(30) DEF UnreadKnown
<1>8. ~Freed /\ ~Freed' /\ UNCHANGED <<received, disposed>>
  BY DEF Freed, SendPublish, consumer
<1>9. Fifo!Enqueue(pval)
  BY <1>6, <1>7, <1>8 DEF Fifo!Enqueue
<1> QED
  BY <1>3, <1>9

(* Publishing `tail` is Dequeue. *)
LEMMA PublishDequeues ==
  ASSUME IInv, IInv', RecvPublish
  PROVE  Fifo!Dequeue
<1>0. TypeOK /\ ProducerInv /\ ConsumerInv /\ HistoryInv
  BY DEF IInv
<1>1. UnreadKnown /\ UnreadKnown'
  BY UnreadBeforeAndAfter
<1>2. /\ H \in Nat /\ T \in Nat /\ Len(tailLog) = T + 1
      /\ cseen \in Nat /\ cseen - 1 <= H
  BY <1>0, Bounds
<1>3. T < cseen - 1 /\ cval = sent[T + 1]
  BY <1>0 DEF ConsumerInv, RecvPublish
<1>4. H' = H /\ T' = T + 1 /\ sent' = sent
  <2>1. Len(tailLog') = Len(tailLog) + 1 /\ headLog' = headLog /\ sent' = sent
    BY <1>0 DEF RecvPublish, Release, TypeOK
  <2> QED
    BY <1>2, <2>1 DEF H, T
<1>5. Unread # <<>> /\ Len(Unread) = H - T /\ 1 \in 1 .. H - T
  BY <1>1, <1>2, <1>3 DEF UnreadKnown
<1>6. Head(Unread) = cval
  BY <1>1, <1>3, <1>5 DEF UnreadKnown
<1>7. Unread' = Tail(Unread)
  <2>1. /\ Tail(Unread) \in Seq(Values) /\ Len(Tail(Unread)) = (H - T) - 1
        /\ \A i \in 1 .. (H - T) - 1 : Tail(Unread)[i] = Unread[i + 1]
    BY <1>1, <1>5, HeadTailProperties DEF UnreadKnown
  <2>2. Unread' \in Seq(Values) /\ Len(Unread') = (H - T) - 1
    BY <1>1, <1>2, <1>4 DEF UnreadKnown
  <2>3. ASSUME NEW i \in 1 .. (H - T) - 1 PROVE Unread'[i] = Tail(Unread)[i]
    <3>1. i \in 1 .. H' - T' /\ i + 1 \in 1 .. H - T /\ (T + 1) + i = T + (i + 1)
      BY <1>2, <1>4
    <3>2. Unread'[i] = sent[(T + 1) + i]
      BY <1>1, <1>4, <3>1 DEF UnreadKnown
    <3>3. Unread[i + 1] = sent[T + (i + 1)]
      BY <1>1, <3>1 DEF UnreadKnown
    <3> QED
      BY <2>1, <3>1, <3>2, <3>3
  <2> QED
    BY <2>1, <2>2, <2>3, SeqEqual
<1>8. ~Freed /\ ~Freed' /\ UNCHANGED disposed /\ received' = Append(received, cval)
  BY DEF Freed, RecvPublish
<1> QED
  BY <1>5, <1>6, <1>7, <1>8 DEF Fifo!Dequeue

(* The second drop of a handle is Close; every other step changes nothing  *)
(* that the abstract queue shows.                                          *)
LEMMA OtherStepsStutterOrClose ==
  ASSUME IInv, IInv', [Next]_vars, ~SendPublish, ~RecvPublish
  PROVE  Fifo!Close \/ UNCHANGED Fifo!fifoVars
<1>1. CASE DropProducer \/ DropConsumer
  <2>1. /\ UNCHANGED <<headLog, tailLog, slots, received>> /\ ~Freed
        /\ disposed' = IF Freed' THEN InnerDrop ELSE disposed
    BY <1>1 DEF DropProducer, DropConsumer, Freed, atomics, producer, consumer
  <2>2. Unread' = Unread
    BY <2>1 DEF Unread, Last, WrappingSub, Index
  <2> QED
    BY <2>1, <2>2 DEF Fifo!Close, Fifo!fifoVars, InnerDrop
<1>2. CASE ~(DropProducer \/ DropConsumer)
  <2>1. Unread' = Unread
    <3>1. CASE SendWrite \/ RecvRead
      <4>1. headLog' = headLog /\ tailLog' = tailLog /\ sent' = sent
        BY <3>1 DEF SendWrite, RecvRead, atomics, history
      <4>2. H' = H /\ T' = T
        BY <4>1 DEF H, T
      <4>3. UnreadKnown /\ UnreadKnown'
        BY UnreadBeforeAndAfter
      <4> QED
        BY <4>1, <4>2, <4>3, SeqEqual DEF UnreadKnown
    <3>2. CASE ~(SendWrite \/ RecvRead)
      <4>1. UNCHANGED <<headLog, tailLog, slots>>
        BY <1>2, <3>2 DEF Next, ProducerStep, ConsumerStep, vars, atomics, CallSend,
           SendLoad, CallRecv, RecvLoad
      <4> QED
        BY <4>1 DEF Unread, Last, WrappingSub, Index
    <3> QED
      BY <3>1, <3>2
  <2>2. Freed' = Freed
    BY <1>2 DEF Freed, Next, ProducerStep, ConsumerStep, vars, producer, consumer,
       CallSend, SendLoad, AfterRefusal, SendWrite, CallRecv, RecvLoad, AfterEmpty, RecvRead
  <2>3. UNCHANGED <<received, disposed>>
    BY <1>2 DEF Next, ProducerStep, ConsumerStep, vars, history, CallSend, SendLoad,
       SendWrite, CallRecv, RecvLoad, RecvRead
  <2> QED
    BY <2>1, <2>2, <2>3 DEF Fifo!fifoVars
<1> QED
  BY <1>1, <1>2

(* Under the mapping of Spsc, the ring buffer is a bounded FIFO queue.     *)
THEOREM Refinement == Spec => ImplementsFifo
<1>1. Init => Fifo!Init
  <2> SUFFICES ASSUME Init PROVE Fifo!Init
    OBVIOUS
  <2>1. IInv /\ H = 0 /\ T = 0
    BY InitIInv DEF Init, H, T
  <2>2. Unread \in Seq(Values) /\ Len(Unread) = 0
    BY <2>1, UnreadIs
  <2>3. Unread = <<>>
    BY <2>2, EmptySeq
  <2> QED
    BY <2>3 DEF Fifo!Init, Init, Freed
<1>2. IInv /\ IInv' /\ [Next]_vars => [Fifo!Next]_(Fifo!fifoVars)
  BY PublishEnqueues, PublishDequeues, OtherStepsStutterOrClose DEF Fifo!Next
<1> QED
  BY <1>1, <1>2, Invariance, PTL DEF Spec, ImplementsFifo, Fifo!Spec

-----------------------------------------------------------------------------
(***************************************************************************)
(* Trials                                                                  *)
(*                                                                         *)
(* A trial uses the ring only through the operations of Spsc, so all that  *)
(* is proved of the ring holds in it.  What the trial adds is who calls    *)
(* what and when: the subscriber leaves only after it has seen `done`,     *)
(* which goes up after the publisher is gone, which goes after its last    *)
(* send.                                                                   *)
(***************************************************************************)

(* Where the subscriber's loop is and where its try_recv is go together.   *)
SubscriberInv ==
  /\ subpc \in {"poll", "call", "empty", "exited"}
  /\ subpc \in {"poll", "empty"} => cpc = "idle"
  /\ subpc = "call" => cpc \in {"load", "read", "publish"}
  /\ subpc = "exited" <=> cpc = "gone"

(* The order in which the trial ends.                                      *)
JoinInv ==
  /\ ppc = "gone" => Len(sent) = MaxSends
  /\ done => ppc = "gone"
  /\ subpc = "exited" => done

(* The messages go out in the order of their numbers.                      *)
NumberInv ==
  /\ \A i \in 1 .. Len(sent) : sent[i] = i
  /\ ppc \in {"load", "write", "publish"} => pval = Len(sent) + 1

(* How many messages the histogram holds, and which.                       *)
HistInv ==
  /\ hist \in Seq(Values)
  /\ Len(hist) = IF Len(received) <= Warmup THEN 0 ELSE Len(received) - Warmup
  /\ \A i \in 1 .. Len(hist) : hist[i] = Warmup + i

DriverInv == SubscriberInv /\ JoinInv /\ NumberInv /\ HistInv

TrialInv == IInv /\ DriverInv

-----------------------------------------------------------------------------
(* Every step of a trial is a step of the ring, or leaves it alone: the    *)
(* driver calls send with values, and loads what the ring lets it load.    *)
LEMMA TrialStepIsRingStep ==
  ASSUME [TrialNext]_trialVars, TypeOK
  PROVE  [Next]_vars
<1>1. CASE PublishNext
  BY <1>1 DEF PublishNext, Next, ProducerStep
<1>2. CASE Sending \/ PublisherExits
  BY <1>2 DEF Sending, PublisherExits, Next, ProducerStep
<1>3. CASE Poll \/ PollRead \/ PollSome \/ Break \/ \E k \in Visible(headLog, cseen) : PollLoad(k)
  BY <1>3 DEF Poll, PollRead, PollSome, Break, PollLoad, Next, ConsumerStep
<1>4. CASE RaiseDone \/ PollAgain \/ UNCHANGED trialVars
  BY <1>4 DEF RaiseDone, PollAgain, trialVars
<1> QED
  BY <1>1, <1>2, <1>3, <1>4 DEF TrialNext

(* A trial begins with the invariant.                                      *)
LEMMA InitTrialInv == TrialInit => TrialInv
<1> SUFFICES ASSUME TrialInit PROVE TrialInv
  OBVIOUS
<1>1. IInv
  BY InitIInv DEF TrialInit
<1>2. DriverInv
  BY TrialAssumption, MaxSendsAssumption
     DEF TrialInit, Init, DriverInv, SubscriberInv, JoinInv, NumberInv, HistInv
<1> QED
  BY <1>1, <1>2 DEF TrialInv

-----------------------------------------------------------------------------
(***************************************************************************)
(* The steps of the publisher                                              *)
(***************************************************************************)

(* The next message carries the next number.                               *)
LEMMA PublishNextDriver ==
  ASSUME TrialInv, PublishNext
  PROVE  DriverInv'
<1> USE DEF PublishNext, CallSend, driver, history, consumer
<1>1. SubscriberInv' /\ HistInv'
  BY DEF TrialInv, DriverInv, SubscriberInv, HistInv
<1>2. JoinInv' /\ NumberInv'
  BY DEF TrialInv, DriverInv, JoinInv, NumberInv
<1> QED
  BY <1>1, <1>2 DEF DriverInv

(* Publishing a message appends its number.                                *)
LEMMA SendingDriver ==
  ASSUME TrialInv, Sending
  PROVE  DriverInv'
<1>1. SubscriberInv' /\ HistInv'
  BY DEF TrialInv, DriverInv, SubscriberInv, HistInv, Sending, SendLoad, SendWrite,
         SendPublish, driver, history, consumer
<1>2. JoinInv'
  BY DEF TrialInv, DriverInv, JoinInv, Sending, SendLoad, SendWrite, SendPublish, AfterRefusal,
         driver, history
<1>3. NumberInv'
  <2>1. CASE SendPublish
    <3>1. sent \in Seq(Values) /\ pval \in Values /\ sent' = Append(sent, pval)
      BY <2>1 DEF SendPublish, TrialInv, IInv, TypeOK, ProducerInv
    <3>2. /\ Len(sent') = Len(sent) + 1 /\ Len(sent) \in Nat
          /\ \A i \in 1 .. Len(sent) : sent'[i] = sent[i]
          /\ sent'[Len(sent) + 1] = pval
      BY <3>1, AppendProperties, LenProperties
    <3>3. pval = Len(sent) + 1
      BY <2>1 DEF SendPublish, TrialInv, DriverInv, NumberInv
    <3> QED
      BY <2>1, <3>2, <3>3 DEF SendPublish, TrialInv, DriverInv, NumberInv
  <2>2. CASE SendWrite \/ \E k \in Visible(tailLog, pseen) : SendLoad(k)
    BY <2>2 DEF SendWrite, SendLoad, TrialInv, DriverInv, NumberInv, history
  <2> QED
    BY <2>1, <2>2 DEF Sending
<1> QED
  BY <1>1, <1>2, <1>3 DEF DriverInv

(* The Producer goes after the last message.                               *)
LEMMA PublisherExitsDriver ==
  ASSUME TrialInv, PublisherExits
  PROVE  DriverInv'
BY DEF TrialInv, DriverInv, SubscriberInv, JoinInv, NumberInv, HistInv, PublisherExits,
       DropProducer, driver, consumer

(* The flag goes up after that.                                            *)
LEMMA RaiseDoneDriver ==
  ASSUME TrialInv, RaiseDone
  PROVE  DriverInv'
BY DEF TrialInv, DriverInv, SubscriberInv, JoinInv, NumberInv, HistInv, RaiseDone, vars,
       producer, consumer, history

-----------------------------------------------------------------------------
(***************************************************************************)
(* The steps of the subscriber                                             *)
(***************************************************************************)

(* Polling moves the subscriber through try_recv.                          *)
LEMMA PollDriver ==
  ASSUME TrialInv,
         Poll \/ PollRead \/ PollAgain \/ \E k \in Visible(headLog, cseen) : PollLoad(k)
  PROVE  DriverInv'
<1>1. SubscriberInv'
  BY DEF TrialInv, DriverInv, SubscriberInv, Poll, PollRead, PollAgain, PollLoad, CallRecv,
         RecvRead, RecvLoad, AfterEmpty, vars, driver, consumer
<1>2. JoinInv' /\ NumberInv' /\ HistInv'
  BY DEF TrialInv, DriverInv, JoinInv, NumberInv, HistInv, SubscriberInv, Poll, PollRead,
         PollAgain, PollLoad, CallRecv, RecvRead, RecvLoad, vars, driver, producer, history
<1> QED
  BY <1>1, <1>2 DEF DriverInv

(* What try_recv returns is the message whose turn it is, and it goes into *)
(* the histogram when the warm-up is over.                                 *)
LEMMA PollSomeDriver ==
  ASSUME TrialInv, PollSome
  PROVE  DriverInv'
<1> DEFINE n == Len(received)
<1>1. /\ n \in Nat /\ received' = Append(received, cval) /\ Len(received') = n + 1
      /\ cval = n + 1 /\ cval \in Values
  <2>1. TypeOK /\ ProducerInv /\ ConsumerInv /\ HistoryInv
    BY DEF TrialInv, IInv
  <2>2. T \in Nat /\ H \in Nat /\ T < H /\ n = T /\ Len(sent) = H /\ sent \in Seq(Values)
    <3>1. T < cseen - 1
      BY <2>1 DEF ConsumerInv, PollSome, RecvPublish
    <3> QED
      BY <2>1, <3>1, Bounds DEF HistoryInv, TypeOK
  <2>3. cval = sent[T + 1] /\ T + 1 \in 1 .. Len(sent)
    BY <2>1, <2>2 DEF ConsumerInv, PollSome, RecvPublish
  <2>4. cval = T + 1
    BY <2>3 DEF TrialInv, DriverInv, NumberInv
  <2>5. cval \in Values
    BY <2>2, <2>3, ElementOfSeq
  <2>6. received' = Append(received, cval) /\ Len(received') = n + 1
    BY <2>1, <2>5, AppendProperties DEF TypeOK, PollSome, RecvPublish
  <2> QED
    BY <2>2, <2>4, <2>5, <2>6
<1>2. HistInv'
  <2>1. /\ hist \in Seq(Values) /\ Len(hist) \in Nat
        /\ Len(hist) = IF n <= Warmup THEN 0 ELSE n - Warmup
        /\ \A i \in 1 .. Len(hist) : hist[i] = Warmup + i
    BY LenProperties DEF TrialInv, DriverInv, HistInv
  <2>2. Warmup \in Nat
    BY TrialAssumption, MaxSendsAssumption
  <2>3. CASE n >= Warmup
    <3>1. hist' = Append(hist, cval)
      BY <2>3 DEF PollSome, Recorded
    <3>2. /\ hist' \in Seq(Values) /\ Len(hist') = Len(hist) + 1
          /\ \A i \in 1 .. Len(hist) : hist'[i] = hist[i]
          /\ hist'[Len(hist) + 1] = cval
      BY <1>1, <2>1, <3>1, AppendProperties
    <3>3. Len(hist) = n - Warmup
      BY <1>1, <2>1, <2>2, <2>3
    <3>4. Len(hist') = IF Len(received') <= Warmup THEN 0 ELSE Len(received') - Warmup
      BY <1>1, <2>2, <2>3, <3>2, <3>3
    <3>5. ASSUME NEW i \in 1 .. Len(hist') PROVE hist'[i] = Warmup + i
      <4>1. i \in 1 .. Len(hist) \/ i = Len(hist) + 1
        BY <2>1, <3>2
      <4>2. Warmup + (Len(hist) + 1) = cval
        BY <1>1, <2>2, <3>3
      <4> QED
        BY <2>1, <3>2, <4>1, <4>2
    <3> QED
      BY <3>2, <3>4, <3>5 DEF HistInv
  <2>4. CASE n < Warmup
    <3>1. hist' = hist
      BY <1>1, <2>2, <2>4 DEF PollSome, Recorded
    <3> QED
      BY <1>1, <2>1, <2>2, <2>4, <3>1 DEF HistInv
  <2> QED
    BY <1>1, <2>2, <2>3, <2>4
<1>3. SubscriberInv'
  BY DEF TrialInv, DriverInv, SubscriberInv, PollSome, RecvPublish
<1>4. JoinInv' /\ NumberInv'
  BY DEF TrialInv, DriverInv, JoinInv, NumberInv, SubscriberInv, PollSome, RecvPublish, producer
<1> QED
  BY <1>2, <1>3, <1>4 DEF DriverInv

(* The subscriber leaves after the flag went up.                           *)
LEMMA BreakDriver ==
  ASSUME TrialInv, Break
  PROVE  DriverInv'
BY DEF TrialInv, DriverInv, SubscriberInv, JoinInv, NumberInv, HistInv, Break, DropConsumer,
       producer

(* The invariant of the trial is inductive.                                *)
LEMMA NextTrialInv == TrialInv /\ [TrialNext]_trialVars => TrialInv'
<1> SUFFICES ASSUME TrialInv, [TrialNext]_trialVars PROVE TrialInv'
  OBVIOUS
<1>1. IInv'
  BY TrialStepIsRingStep, NextIInv DEF TrialInv, IInv
<1>2. DriverInv'
  <2>1. CASE UNCHANGED trialVars
    BY <2>1 DEF trialVars, vars, driver, producer, consumer, history, TrialInv, DriverInv,
                SubscriberInv, JoinInv, NumberInv, HistInv
  <2>2. CASE TrialNext
    BY <2>2, PublishNextDriver, SendingDriver, PublisherExitsDriver, RaiseDoneDriver,
       PollDriver, PollSomeDriver, BreakDriver DEF TrialNext
  <2> QED
    BY <2>1, <2>2
<1> QED
  BY <1>1, <1>2 DEF TrialInv

-----------------------------------------------------------------------------
(***************************************************************************)
(* Theorems                                                                *)
(***************************************************************************)

(* Ring, driver and histogram always agree.                                *)
THEOREM TrialInvariance == TrialSpec => []TrialInv
BY InitTrialInv, NextTrialInv, PTL DEF TrialSpec

(* A trial is a use of the ring: whatever is proved of Spsc holds in the   *)
(* measurements of the benchmarks.                                         *)
THEOREM TrialUsesRing == TrialSpec => Spec
<1>1. TrialInit => Init
  BY DEF TrialInit
<1>2. TrialInv /\ [TrialNext]_trialVars => [Next]_vars
  BY TrialStepIsRingStep DEF TrialInv, IInv
<1> QED
  BY <1>1, <1>2, TrialInvariance, PTL DEF TrialSpec, Spec

(* The blocking send of a trial never spins on a ring that nobody drains:  *)
(* the subscriber leaves last.                                             *)
THEOREM NobodyStranded == TrialSpec => []NeverStranded
<1>1. TrialInv => NeverStranded
  BY DEF TrialInv, DriverInv, SubscriberInv, JoinInv, NeverStranded
<1> QED
  BY <1>1, TrialInvariance, PTL

(* The histogram is a gapless run of the messages after the warm-up and    *)
(* ends at most Cap messages before the last one.                          *)
THEOREM RunMeasured == TrialSpec => []MeasuredRun
<1>1. ASSUME TrialInv PROVE MeasuredRun
  <2>1. \A i \in 1 .. Len(hist) : hist[i] = Warmup + i
    BY <1>1 DEF TrialInv, DriverInv, HistInv
  <2>2. ASSUME subpc = "exited" PROVE Len(hist) >= MaxSends - Warmup - Cap
    <3>1. Len(sent) = MaxSends
      BY <1>1, <2>2 DEF TrialInv, DriverInv, JoinInv
    <3>2. H \in Nat /\ T \in Nat /\ H - T <= Cap /\ Len(received) = T /\ Len(sent) = H
      BY <1>1, Bounds, CapAssumption DEF TrialInv, IInv, HistoryInv
    <3>3. Len(hist) = IF Len(received) <= Warmup THEN 0 ELSE Len(received) - Warmup
      BY <1>1 DEF TrialInv, DriverInv, HistInv
    <3> QED
      BY <3>1, <3>2, <3>3, TrialAssumption, MaxSendsAssumption, CapAssumption
  <2> QED
    BY <2>1, <2>2 DEF MeasuredRun
<1> QED
  BY <1>1, TrialInvariance, PTL
=============================================================================
