---------------------------- MODULE MessagePath ----------------------------
(***************************************************************************)
(* The life of one message: the caller builds it from a topic and a        *)
(* payload, Bus::offer stamps it, it is written as a record and read back  *)
(* (to_bytes, from_bytes), and the topic read from it is matched against a *)
(* subscriber's pattern.                                                   *)
(***************************************************************************)
EXTENDS Message, Filter

CONSTANTS
  Texts,      \* the strings used as topics
  Patterns,   \* the strings used as subscription patterns
  Payloads,   \* the byte strings used as payloads
  Stamps      \* the values SystemTime::now() may yield

ASSUME TextAssumption == \A t \in Texts \cup Patterns : t \in Seq(Byte) /\ ValidUtf8(t)
ASSUME DataAssumption == Payloads \subseteq Seq(Byte) /\ \A n \in Stamps : IsStamp(n)

VARIABLES
  stage,      \* what has been done with the message
  topic,      \* the caller's topic
  payload,    \* the caller's payload
  pattern,    \* the subscriber's pattern
  msg,        \* the Message
  wire,       \* its 64-byte record
  decoded,    \* the Message read back from the record
  delivered   \* does the subscriber's filter accept it

vars == <<stage, topic, payload, pattern, msg, wire, decoded, delivered>>

Init ==
  /\ stage = "call"
  /\ topic \in Texts /\ payload \in Payloads /\ pattern \in Patterns
  /\ msg = NewMessage(<<>>, <<>>)
  /\ wire = <<>>
  /\ decoded = NewMessage(<<>>, <<>>)
  /\ delivered = FALSE

(* Message::new(topic, payload)                                            *)
Construct ==
  /\ stage = "call" /\ stage' = "new"
  /\ msg' = NewMessage(topic, payload)
  /\ UNCHANGED <<topic, payload, pattern, wire, decoded, delivered>>

(* The first statement of Bus::offer.                                      *)
Stamp(now) ==
  /\ stage = "new" /\ stage' = "stamped"
  /\ msg' = [msg EXCEPT !.timestamp_ns = now]
  /\ UNCHANGED <<topic, payload, pattern, wire, decoded, delivered>>

(* The topic test of Bus::offer.                                           *)
Route ==
  /\ stage = "stamped" /\ stage' = "routed"
  /\ delivered' = Matches(Parse(pattern), TopicStr(msg))
  /\ UNCHANGED <<topic, payload, pattern, msg, wire, decoded>>

Serialize ==
  /\ stage = "routed" /\ stage' = "wire"
  /\ wire' = ToBytes(msg)
  /\ UNCHANGED <<topic, payload, pattern, msg, decoded, delivered>>

Deserialize ==
  /\ stage = "wire" /\ stage' = "decoded"
  /\ decoded' = FromBytes(wire)
  /\ UNCHANGED <<topic, payload, pattern, msg, wire, delivered>>

Next ==
  \/ Construct
  \/ \E now \in Stamps : Stamp(now)
  \/ Route
  \/ Serialize
  \/ Deserialize

Spec == Init /\ [][Next]_vars

-----------------------------------------------------------------------------
Fits == Len(topic) <= TopicLen
NulFree == \A i \in 1 .. Len(topic) : topic[i] # Nul
Built == stage # "call"
Routed == stage \in {"routed", "wire", "decoded"}

(* A pattern accepts a string when it is that string, or when it is a      *)
(* prefix of it followed by '*'.                                           *)
Accepts(p, t) ==
  \/ p = t /\ (t = <<>> \/ t[Len(t)] # Star)
  \/ \E n \in 0 .. Len(t) : p = SubSeq(t, 1, n) \o <<Star>>

(* from_bytes inverts to_bytes: no byte of the timestamp, the topic or the *)
(* payload is lost or moved into a neighbouring field.                     *)
RoundTrip == stage = "decoded" => decoded = msg

(* The accessors read back what the caller passed.  topic_str never yields *)
(* half a character, padding, or text the caller did not pass: it is a     *)
(* prefix of the topic, and all of it when the topic fits its field and    *)
(* has no NUL.  payload_bytes loses at most what does not fit and trailing *)
(* zeros.                                                                  *)
FieldsReadBack ==
  Built =>
    /\ ValidUtf8(TopicStr(msg)) /\ IsPrefix(TopicStr(msg), topic)
    /\ Fits /\ NulFree => TopicStr(msg) = topic
    /\ LET read == PayloadBytes(msg) IN
       /\ IsPrefix(read, payload)
       /\ \A i \in Len(read) + 1 .. Len(payload) : i <= PayloadLen => payload[i] = Nul

(* A topic that survives Message::new reaches exactly the subscribers      *)
(* whose pattern accepts what the caller wrote.                            *)
RoutedAsWritten ==
  Routed /\ Fits /\ NulFree => (delivered <=> Accepts(pattern, topic))
=============================================================================
