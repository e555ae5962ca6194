------------------------------ MODULE Message ------------------------------
(***************************************************************************)
(* The fixed-size message of crates/message-core/src/lib.rs, as operators  *)
(* on sequences of bytes.  A Rust `&str` is a sequence of bytes that is    *)
(* valid UTF-8.                                                            *)
(***************************************************************************)
EXTENDS Integers, SequencesExt

CONSTANTS
  TopicLen,    \* bytes of the `topic` field (32 in the code)
  PayloadLen,  \* bytes of the `payload` field (24 in the code)
  StampLen     \* bytes of `timestamp_ns` (8 in the code)

ASSUME FieldAssumption ==
  TopicLen \in Nat \ {0} /\ PayloadLen \in Nat \ {0} /\ StampLen \in Nat \ {0}

Byte == 0 .. 255
Nul == 0

(* The bytes of a character that begins with b, 0 if none does, and the    *)
(* second bytes it may have: no overlong form, surrogate or character      *)
(* above U+10FFFF.                                                         *)
Width(b) ==
  CASE b < 128 -> 1 [] b \in 194 .. 223 -> 2 [] b \in 224 .. 239 -> 3
    [] b \in 240 .. 244 -> 4 [] OTHER -> 0
IsContinuation(b) == b \in 128 .. 191
SecondBytes(b) ==
  CASE b = 224 -> 160 .. 191 [] b = 237 -> 128 .. 159
    [] b = 240 -> 144 .. 191 [] b = 244 -> 128 .. 143 [] OTHER -> 128 .. 191

(* std::str::from_utf8 succeeds: every byte belongs to a whole character.  *)
ValidUtf8(s) ==
  \A i \in 1 .. Len(s) :
    LET end == i + Width(s[i]) - 1 IN
    IF IsContinuation(s[i]) THEN \E l \in 1 .. i - 1 : i < l + Width(s[l])
    ELSE /\ i <= end /\ end <= Len(s)
         /\ \A j \in i + 1 .. end : IsContinuation(s[j])
         /\ i < end => s[i + 1] \in SecondBytes(s[i])

-----------------------------------------------------------------------------
(* Copy of the bytes that fit into a zeroed array of n bytes.              *)
Shifted_Field(s, n) == [i \in 1 .. n |-> IF i < Len(s) THEN s[i] ELSE Nul]
Field(s, n) == [i \in 1 .. n |-> IF i <= Len(s) THEN s[i] ELSE Nul]

(* Message::new                                                            *)
NewMessage(topic, payload) ==
  [timestamp_ns |-> 0, topic |-> Field(topic, TopicLen), payload |-> Field(payload, PayloadLen)]

(* Message::topic_str: up to the first NUL, or the whole array; nothing if *)
(* that is not valid UTF-8.                                                *)
Unchecked_TopicStr(m) ==
  LET nul == SelectInSeq(m.topic, LAMBDA b : b = Nul)
  IN  IF nul = 0 THEN m.topic ELSE SubSeq(m.topic, 1, nul - 1)
TopicStr(m) ==
  LET nul == SelectInSeq(m.topic, LAMBDA b : b = Nul)
      text == IF nul = 0 THEN m.topic ELSE SubSeq(m.topic, 1, nul - 1)
  IN  IF ValidUtf8(text) THEN text ELSE <<>>

(* Message::payload_bytes: up to the last byte that is not zero.           *)
PayloadBytes(m) ==
  SubSeq(m.payload, 1, SelectLastInSeq(m.payload, LAMBDA b : b # Nul))

-----------------------------------------------------------------------------
(* u64::to_le_bytes and u64::from_le_bytes, on StampLen bytes: what is     *)
(* left of n above its i low bytes, and the value of the k top bytes of s. *)
Above(n) ==
  LET r[i \in 0 .. StampLen] == IF i = 0 THEN n ELSE r[i - 1] \div 256 IN r
ToLeBytes(n) == [i \in 1 .. StampLen |-> Above(n)[i - 1] % 256]

BigEndian_FromLeBytes(s) == FoldLeft(LAMBDA acc, b : acc * 256 + b, 0, s)
TopBytes(s) ==
  LET v[k \in 0 .. StampLen] == IF k = 0 THEN 0 ELSE v[k - 1] * 256 + s[StampLen - k + 1] IN v
FromLeBytes(s) == TopBytes(s)[StampLen]

IsStamp(n) == n \in Nat /\ Above(n)[StampLen] = 0   \* n has StampLen bytes

(* Message::to_bytes                                                       *)
ToBytes(m) == ToLeBytes(m.timestamp_ns) \o m.topic \o m.payload

(* Message::from_bytes                                                     *)
FromBytes(s) ==
  [timestamp_ns |-> FromLeBytes(SubSeq(s, 1, StampLen)),
   topic |-> SubSeq(s, StampLen + 1, StampLen + TopicLen),
   payload |-> SubSeq(s, StampLen + TopicLen + 1, StampLen + TopicLen + PayloadLen)]
=============================================================================
