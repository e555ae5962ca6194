-------------------------- MODULE DurableLogProofs --------------------------
(***************************************************************************)
(* The contract of MessageWriter (DurableLog) keeps what it owes a caller  *)
(* for logs of any length: Contract is inductive.                          *)
(***************************************************************************)
EXTENDS DurableLog, SequenceTheorems, TLAPS

(* The empty log owes nothing.                                             *)
LEMMA InitContract == Init => Contract
<1> SUFFICES ASSUME Init PROVE Contract
  OBVIOUS
<1>1. TypeOK
  BY DEF Init, TypeOK
<1>2. Increasing(log) /\ Increasing(acked) /\ AckedInLog /\ SyncedDurable
  BY DEF Init, Increasing, AckedInLog, SyncedDurable, Elements
<1> QED
  BY <1>1, <1>2 DEF Contract

(* The elements of a prefix stay where they are.                           *)
LEMMA PrefixElements ==
  ASSUME NEW s \in Seq(Nat), NEW t \in Seq(Nat), IsPrefixOf(s, t)
  PROVE  /\ Len(s) <= Len(t)
         /\ \A i \in 1 .. Len(s) : t[i] = s[i]
BY DEF IsPrefixOf

(* Inclusion of elements, by places.                                       *)
LEMMA ElementsIncluded ==
  ASSUME NEW s \in Seq(Nat), NEW t \in Seq(Nat),
         \A i \in 1 .. Len(s) : \E j \in 1 .. Len(t) : t[j] = s[i]
  PROVE  Elements(s) \subseteq Elements(t)
<1> SUFFICES ASSUME NEW x \in Elements(s) PROVE x \in Elements(t)
  OBVIOUS
<1>1. PICK i \in 1 .. Len(s) : x = s[i]
  BY DEF Elements
<1>2. PICK j \in 1 .. Len(t) : t[j] = x
  BY <1>1
<1> QED
  BY <1>2 DEF Elements

(* write_batch adds records after all others.                              *)
LEMMA WriteContract == Contract /\ Write => Contract'
<1> SUFFICES ASSUME Contract, Write PROVE Contract'
  OBVIOUS
<1> USE DEF Contract, Write
<1>1. Len(log) <= Len(log') /\ \A i \in 1 .. Len(log) : log'[i] = log[i]
  BY PrefixElements DEF TypeOK
<1>2. TypeOK'
  BY <1>1 DEF TypeOK
<1>3. AckedInLog'
  <2>1. Elements(log) \subseteq Elements(log')
    <3> \A i \in 1 .. Len(log) : i \in 1 .. Len(log') /\ log'[i] = log[i]
      BY <1>1, <1>2 DEF TypeOK
    <3> QED
      BY <1>2, ElementsIncluded DEF TypeOK
  <2> QED
    BY <2>1 DEF AckedInLog, Elements
<1>4. SyncedDurable'
  BY <1>1, SMTT(30) DEF TypeOK, SyncedDurable
<1> QED
  BY <1>2, <1>3, <1>4 DEF Increasing

(* write_batch returns Ok for messages that are in the log.                *)
LEMMA AcknowledgeContract == Contract /\ Acknowledge => Contract'
<1> SUFFICES ASSUME Contract, Acknowledge PROVE Contract'
  OBVIOUS
<1> USE DEF Contract, Acknowledge
<1>1. Len(acked) <= Len(acked') /\ \A i \in 1 .. Len(acked) : acked'[i] = acked[i]
  BY PrefixElements DEF TypeOK
<1>2. TypeOK'
  BY <1>1 DEF TypeOK
<1>3. AckedInLog'
  BY DEF AckedInLog, Elements
<1>4. SyncedDurable'
  <2>1. \A i \in 1 .. synced : acked'[i] = acked[i]
    BY <1>1 DEF TypeOK
  <2> QED
    BY <2>1 DEF SyncedDurable
<1> QED
  BY <1>2, <1>3, <1>4 DEF Increasing

(* After a sync the whole log is durable, acknowledged messages included.  *)
LEMMA SyncContract == Contract /\ Sync => Contract'
<1> SUFFICES ASSUME Contract, Sync PROVE Contract'
  OBVIOUS
<1> USE DEF Contract, Sync
<1>1. TypeOK'
  BY DEF TypeOK
<1>2. AckedInLog'
  BY DEF AckedInLog, Elements
<1>3. \A i \in 1 .. Len(acked) : acked[i] \in Elements(acked)
  BY DEF Elements
<1>4. \A i \in 1 .. Len(acked) : \E j \in 1 .. Len(log) : log[j] = acked[i]
  BY <1>3 DEF AckedInLog, Elements
<1>5. SyncedDurable'
  BY <1>4 DEF SyncedDurable
<1> QED
  BY <1>1, <1>2, <1>5 DEF Increasing

(* Write-back only makes more of the log durable.                          *)
LEMMA WriteBackContract == Contract /\ WriteBack => Contract'
<1> SUFFICES ASSUME Contract, WriteBack PROVE Contract'
  OBVIOUS
<1> USE DEF Contract, WriteBack
<1>1. durable' \in Nat
  BY DEF TypeOK
<1>2. TypeOK'
  BY <1>1 DEF TypeOK
<1>3. SyncedDurable'
  BY <1>1 DEF TypeOK, SyncedDurable
<1> QED
  BY <1>2, <1>3 DEF Increasing, AckedInLog, Elements

(* A power loss takes nothing that was synced.                             *)
LEMMA PowerLossContract == Contract /\ PowerLoss => Contract'
<1> SUFFICES ASSUME Contract, PowerLoss PROVE Contract'
  OBVIOUS
<1> USE DEF Contract, PowerLoss
<1>1. /\ log' \in Seq(Nat) /\ durable \in Nat /\ durable <= Len(log') /\ durable' = Len(log')
      /\ \A i \in 1 .. durable : log'[i] = log[i]
  <2>1. /\ SubSeq(log, 1, durable) \in Seq(Nat) /\ Len(SubSeq(log, 1, durable)) = durable
        /\ \A i \in 1 .. durable : SubSeq(log, 1, durable)[i] = log[i]
    BY DEF TypeOK
  <2>2. /\ Len(SubSeq(log, 1, durable)) <= Len(log')
        /\ \A i \in 1 .. Len(SubSeq(log, 1, durable)) : log'[i] = SubSeq(log, 1, durable)[i]
    BY <2>1, PrefixElements
  <2> QED
    BY <2>1, <2>2 DEF TypeOK
<1>2. /\ acked' \in Seq(Nat) /\ Len(acked') = synced
      /\ \A i \in 1 .. synced : acked'[i] = acked[i]
  BY DEF TypeOK
<1>3. TypeOK'
  BY <1>1, <1>2 DEF TypeOK
<1>4. Increasing(log') /\ Increasing(acked')
  <2>1. Increasing(log')
    OBVIOUS
  <2>2. Increasing(acked')
    <3> SUFFICES ASSUME NEW i \in 1 .. synced, NEW j \in 1 .. synced, i < j
                 PROVE  acked'[i] < acked'[j]
      BY <1>2 DEF Increasing
    <3> i \in 1 .. Len(acked) /\ j \in 1 .. Len(acked)
      BY DEF TypeOK
    <3> QED
      BY <1>2 DEF Increasing
  <2> QED
    BY <2>1, <2>2
<1>5. SyncedDurable'
  <2> SUFFICES ASSUME NEW i \in 1 .. synced
               PROVE  \E j \in 1 .. durable' : log'[j] = acked'[i]
    BY DEF SyncedDurable
  <2>1. PICK j \in 1 .. durable : log[j] = acked[i]
    BY DEF SyncedDurable
  <2>2. j \in 1 .. durable' /\ log'[j] = log[j] /\ acked'[i] = acked[i]
    BY <1>1, <1>2
  <2> QED
    BY <2>1, <2>2
<1>6. AckedInLog'
  <2>1. \A i \in 1 .. Len(acked') : \E j \in 1 .. Len(log') : log'[j] = acked'[i]
    BY <1>1, <1>2, <1>5 DEF SyncedDurable
  <2> QED
    BY <2>1, <1>1, <1>2, ElementsIncluded DEF AckedInLog
<1> QED
  BY <1>3, <1>4, <1>5, <1>6

(* Every writer that implements DurableLog keeps every acknowledged        *)
(* message in the log, once and in order, and every synced one through     *)
(* power losses.                                                           *)
THEOREM ContractKept == Spec => []Contract
<1>1. Contract /\ [Next]_logVars => Contract'
  <2> SUFFICES ASSUME Contract, [Next]_logVars PROVE Contract'
    OBVIOUS
  <2>1. CASE UNCHANGED logVars
    <3>1. log' = log /\ durable' = durable /\ acked' = acked /\ synced' = synced
      BY <2>1 DEF logVars
    <3>2. TypeOK' /\ Increasing(log') /\ Increasing(acked')
      BY <3>1 DEF Contract, TypeOK, Increasing
    <3>3. AckedInLog'
      BY <3>1 DEF Contract, AckedInLog, Elements
    <3>4. SyncedDurable'
      BY <3>1 DEF Contract, SyncedDurable
    <3> QED
      BY <3>2, <3>3, <3>4 DEF Contract
  <2>2. CASE Next
    BY <2>2, WriteContract, AcknowledgeContract, SyncContract, WriteBackContract,
       PowerLossContract DEF Next
  <2> QED
    BY <2>1, <2>2
<1> QED
  BY InitContract, <1>1, PTL DEF Spec
=============================================================================
