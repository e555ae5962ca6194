-------------------------- MODULE MessagePathProofs --------------------------
(***************************************************************************)
(* Proofs about the life of one message, for fields of any width, any      *)
(* topics, patterns and payloads, and any time stamp that fits its field.  *)
(*                                                                         *)
(* What a message holds is told by its fields alone, so the work is in     *)
(* lemmas about the operators; the two that are recursive are unfolded     *)
(* with an induction over sets of numbers that is proved first.            *)
(***************************************************************************)
EXTENDS MessagePath, SequenceTheorems, FiniteSetTheorems, WellFoundedInduction, TLAPS

-----------------------------------------------------------------------------
(***************************************************************************)
(* Induction and recursion over the natural numbers, on sets               *)
(***************************************************************************)

(* A set of natural numbers has a least element.                           *)
LEMMA Least ==
  ASSUME NEW S \in SUBSET Nat, S # {}
  PROVE  \E m \in S : \A k \in S : m <= k
<1> DEFINE R == {ss \in Nat \X Nat : ss[1] < ss[2]}
<1>1. IsWellFoundedOn(R, Nat)
  BY NatLessThanWellFounded DEF OpToRel
<1> HIDE DEF R
<1>2. PICK m \in S : \A k \in S : ~(<<k, m>> \in R)
  BY <1>1, WFMin
<1>3. \A k \in S : ~(k < m)
  BY <1>2 DEF R
<1>4. \A k \in S : m <= k
  BY <1>3
<1> QED
  BY <1>4

(* A set with 0 and the successors of its elements has all of them.        *)
LEMMA Induction ==
  ASSUME NEW S \in SUBSET Nat, 0 \in S, \A k \in S : k + 1 \in S
  PROVE  S = Nat
<1> SUFFICES ASSUME Nat \ S # {}
             PROVE  FALSE
  OBVIOUS
<1>1. PICK m \in Nat \ S : \A k \in Nat \ S : m <= k
  BY Least
<1>2. m # 0 /\ m - 1 \in Nat
  BY <1>1
<1>3. m - 1 \in S
  BY <1>1, <1>2
<1>4. (m - 1) + 1 \in S
  BY <1>3
<1> QED
  BY <1>1, <1>4

(* A sequence of numbers given by its first one and a step exists.         *)
LEMMA Recursion ==
  ASSUME NEW b \in Nat, NEW n \in Nat, NEW F \in [Nat \X Nat -> Nat]
  PROVE  \E g \in [0 .. n -> Nat] : g[0] = b /\ \A k \in 1 .. n : g[k] = F[<<g[k - 1], k>>]
<1> DEFINE Good(m, g) == g[0] = b /\ \A k \in 1 .. m : g[k] = F[<<g[k - 1], k>>]
           S == {m \in Nat : \E g \in [0 .. m -> Nat] : Good(m, g)}
<1>1. 0 \in S
  <2> DEFINE g == [k \in 0 .. 0 |-> b]
  <2>1. g \in [0 .. 0 -> Nat] /\ Good(0, g)
    OBVIOUS
  <2> QED
    BY <2>1
<1>2. ASSUME NEW m \in S
      PROVE  m + 1 \in S
  <2>1. PICK g \in [0 .. m -> Nat] : Good(m, g)
    OBVIOUS
  <2> DEFINE h == [k \in 0 .. m + 1 |-> IF k = m + 1 THEN F[<<g[m], m + 1>>] ELSE g[k]]
  <2>2. \A k \in 0 .. m : h[k] = g[k]
    OBVIOUS
  <2>3. h[m + 1] = F[<<g[m], m + 1>>] /\ g[m] \in Nat /\ h[m + 1] \in Nat
    OBVIOUS
  <2>4. h \in [0 .. m + 1 -> Nat]
    <3>1. \A k \in 0 .. m + 1 : k \in 0 .. m \/ k = m + 1
      OBVIOUS
    <3>2. \A k \in 0 .. m + 1 : h[k] \in Nat
      BY <2>2, <2>3, <3>1
    <3> QED
      BY <3>2
  <2> HIDE DEF h
  <2>5. Good(m + 1, h)
    <3>1. h[0] = b
      BY <2>1, <2>2
    <3>2. ASSUME NEW k \in 1 .. m + 1
          PROVE  h[k] = F[<<h[k - 1], k>>]
      <4>1. CASE k = m + 1
        <5>1. k - 1 = m /\ m \in 0 .. m
          BY <4>1
        <5> QED
          BY <2>2, <2>3, <4>1, <5>1
      <4>2. CASE k # m + 1
        <5>1. k \in 1 .. m /\ k \in 0 .. m /\ k - 1 \in 0 .. m
          BY <4>2
        <5> QED
          BY <2>1, <2>2, <5>1
      <4> QED
        BY <4>1, <4>2
    <3> QED
      BY <3>1, <3>2
  <2>6. m + 1 \in Nat
    OBVIOUS
  <2> HIDE DEF Good
  <2> QED
    BY <2>4, <2>5, <2>6
<1>3. S = Nat
  <2> HIDE DEF S
  <2>1. S \in SUBSET Nat
    BY DEF S
  <2> QED
    BY <1>1, <1>2, <2>1, Induction
<1>4. \E g \in [0 .. n -> Nat] : Good(n, g)
  BY <1>3
<1> QED
  BY <1>4

(* A set of natural numbers with an upper bound has a greatest element.    *)
LEMMA Greatest ==
  ASSUME NEW n \in Nat, NEW S \in SUBSET (1 .. n), S # {}
  PROVE  \E m \in S : \A k \in S : k <= m
<1> DEFINE U == {u \in 0 .. n : \A k \in S : k <= u}
<1>1. n \in U /\ U \in SUBSET Nat
  OBVIOUS
<1>2. PICK u \in U : \A w \in U : u <= w
  BY <1>1, Least
<1>3. u \in S
  <2> SUFFICES ASSUME u \notin S
               PROVE  FALSE
    OBVIOUS
  <2>1. \A k \in S : k \in Nat /\ k <= u /\ k # u
    OBVIOUS
  <2>2. PICK k \in S : TRUE
    OBVIOUS
  <2>3. k \in 1 .. n
    OBVIOUS
  <2>4. u - 1 \in 0 .. n /\ \A j \in S : j <= u - 1
    BY <2>1, <2>2, <2>3
  <2>5. u - 1 \in U
    BY <2>4
  <2> QED
    BY <1>2, <2>5
<1> QED
  BY <1>3

-----------------------------------------------------------------------------
(***************************************************************************)
(* Fields                                                                  *)
(***************************************************************************)
Bytes == Seq(Byte)

(* Equal bytes make equal strings.                                         *)
LEMMA SameBytes ==
  ASSUME NEW s \in Bytes, NEW t \in Bytes, Len(s) = Len(t), \A i \in 1 .. Len(s) : s[i] = t[i]
  PROVE  s = t
BY SeqEqual DEF Bytes

(* What begins a string.                                                   *)
LEMMA Beginning ==
  ASSUME NEW s \in Bytes, NEW n \in 0 .. Len(s)
  PROVE  /\ SubSeq(s, 1, n) \in Bytes /\ Len(SubSeq(s, 1, n)) = n
         /\ \A i \in 1 .. n : SubSeq(s, 1, n)[i] = s[i]
<1>1. Len(s) \in Nat
  BY LenProperties DEF Bytes
<1>2. \A i \in 1 .. n : i \in 1 .. Len(s)
  BY <1>1
<1>3. \A i \in 1 .. n : s[i] \in Byte
  BY <1>2, ElementOfSeq DEF Bytes
<1>4. n \in Nat /\ 1 \in Int /\ n \in Int /\ n - 1 + 1 = n
  BY <1>1
<1>5. /\ SubSeq(s, 1, n) \in Seq(Byte) /\ Len(SubSeq(s, 1, n)) = (IF 1 <= n THEN n - 1 + 1 ELSE 0)
      /\ \A i \in 1 .. n - 1 + 1 : SubSeq(s, 1, n)[i] = s[1 + i - 1]
  BY <1>3, <1>4, SubSeqProperties
<1>6. \A i \in 1 .. n : 1 + i - 1 = i
  OBVIOUS
<1> QED
  BY <1>4, <1>5, <1>6 DEF Bytes

(* A string begins another when it is not longer and has the same bytes.   *)
LEMMA PrefixIs ==
  ASSUME NEW s \in Bytes, NEW t \in Bytes, Len(s) <= Len(t), \A i \in 1 .. Len(s) : s[i] = t[i]
  PROVE  IsPrefix(s, t)
<1> DEFINE n == Len(s)
<1>1. n \in Nat /\ Len(t) \in Nat
  BY LenProperties DEF Bytes
<1>2. n \in 0 .. Len(s) /\ n \in 0 .. Len(t)
  BY <1>1
<1>3. /\ SubSeq(s, 1, n) \in Bytes /\ Len(SubSeq(s, 1, n)) = n
      /\ \A i \in 1 .. n : SubSeq(s, 1, n)[i] = s[i]
  BY <1>2, Beginning
<1>4. /\ SubSeq(t, 1, n) \in Bytes /\ Len(SubSeq(t, 1, n)) = n
      /\ \A i \in 1 .. n : SubSeq(t, 1, n)[i] = t[i]
  BY <1>2, Beginning
<1>5. SubSeq(s, 1, n) = SubSeq(t, 1, n)
  BY <1>3, <1>4, SameBytes
<1> QED
  BY <1>5 DEF IsPrefix

(* A field has its width, the bytes that fit, and padding behind them.     *)
LEMMA FieldFacts ==
  ASSUME NEW s \in Bytes, NEW n \in Nat
  PROVE  /\ Field(s, n) \in Bytes /\ Len(Field(s, n)) = n
         /\ \A i \in 1 .. n : Field(s, n)[i] = IF i <= Len(s) THEN s[i] ELSE Nul
<1> DEFINE f == Field(s, n)
<1>1. f = [i \in 1 .. n |-> IF i <= Len(s) THEN s[i] ELSE Nul]
  BY DEF Field
<1>2. ASSUME NEW i \in 1 .. n
      PROVE  (IF i <= Len(s) THEN s[i] ELSE Nul) \in Byte
  <2>1. CASE i <= Len(s)
    <3>1. i \in 1 .. Len(s)
      BY <2>1, LenProperties DEF Bytes
    <3> QED
      BY <2>1, <3>1, ElementOfSeq DEF Bytes
  <2>2. CASE ~(i <= Len(s))
    BY <2>2 DEF Nul, Byte
  <2> QED
    BY <2>1, <2>2
<1> HIDE DEF f
<1>3. f \in [1 .. n -> Byte]
  BY <1>1, <1>2
<1>4. f \in Seq(Byte)
  BY <1>3, SeqDef
<1>5. DOMAIN f = 1 .. n /\ DOMAIN f = 1 .. Len(f) /\ Len(f) \in Nat
  BY <1>3, <1>4, LenProperties
<1>6. Len(f) = n
  BY <1>5
<1> QED
  BY <1>1, <1>4, <1>6 DEF f, Bytes

-----------------------------------------------------------------------------
(***************************************************************************)
(* The accessors                                                           *)
(***************************************************************************)

(* The search for the first NUL.                                           *)
LEMMA FirstNul ==
  ASSUME NEW s \in Bytes
  PROVE  LET k == SelectInSeq(s, LAMBDA b : b = Nul) IN
         /\ k \in 0 .. Len(s)
         /\ k = 0 => \A i \in 1 .. Len(s) : s[i] # Nul
         /\ k # 0 => s[k] = Nul /\ \A i \in 1 .. k - 1 : s[i] # Nul
<1> DEFINE I == {i \in 1 .. Len(s) : s[i] = Nul}
           k == SelectInSeq(s, LAMBDA b : b = Nul)
<1>0. Len(s) \in Nat /\ I \in SUBSET Nat
  BY LenProperties DEF Bytes
<1>1. k = IF I # {} THEN Min(I) ELSE 0
  BY DEF SelectInSeq
<1> HIDE DEF k
<1>2. CASE I = {}
  <2>1. k = 0
    BY <1>1, <1>2
  <2>2. \A i \in 1 .. Len(s) : s[i] # Nul
    BY <1>2
  <2> HIDE DEF I
  <2> QED
    BY <1>0, <2>1, <2>2 DEF k
<1>3. CASE I # {}
  <2>1. \E m \in I : \A j \in I : m <= j
    <3> HIDE DEF I
    <3> QED
      BY <1>0, <1>3, Least
  <2>2. k \in I /\ \A j \in I : k <= j
    <3> HIDE DEF I
    <3> QED
      BY <1>1, <1>3, <2>1 DEF Min
  <2>3. k \in 1 .. Len(s) /\ s[k] = Nul
    BY <2>2
  <2>4. ASSUME NEW i \in 1 .. k - 1
        PROVE  s[i] # Nul
    <3>1. i \in 1 .. Len(s) /\ ~(k <= i)
      BY <1>0, <2>3
    <3> QED
      BY <2>2, <3>1
  <2>5. k \in 0 .. Len(s) /\ k # 0
    BY <1>0, <2>3
  <2> QED
    BY <2>3, <2>4, <2>5 DEF k
<1> QED
  BY <1>2, <1>3

(* The search for the last byte that is not zero.                          *)
LEMMA LastByte ==
  ASSUME NEW s \in Bytes
  PROVE  LET k == SelectLastInSeq(s, LAMBDA b : b # Nul) IN
         /\ k \in 0 .. Len(s)
         /\ k # 0 => s[k] # Nul
         /\ \A i \in k + 1 .. Len(s) : s[i] = Nul
<1> DEFINE I == {i \in 1 .. Len(s) : s[i] # Nul}
           k == SelectLastInSeq(s, LAMBDA b : b # Nul)
<1>0. Len(s) \in Nat /\ I \in SUBSET (1 .. Len(s))
  BY LenProperties DEF Bytes
<1>1. k = IF I # {} THEN Max(I) ELSE 0
  BY DEF SelectLastInSeq
<1> HIDE DEF k
<1>2. CASE I = {}
  <2>1. k = 0 /\ k + 1 = 1
    BY <1>1, <1>2
  <2>2. \A i \in 1 .. Len(s) : s[i] = Nul
    BY <1>2
  <2>3. k \in 0 .. Len(s) /\ ~(k # 0)
    BY <1>0, <2>1
  <2>4. \A i \in k + 1 .. Len(s) : s[i] = Nul
    BY <2>1, <2>2
  <2> QED
    BY <2>3, <2>4 DEF k
<1>3. CASE I # {}
  <2>1. \E m \in I : \A j \in I : j <= m
    <3> HIDE DEF I
    <3> QED
      BY <1>0, <1>3, Greatest
  <2>2. \A i, j \in I : i <= j <=> j >= i
    BY <1>0
  <2>3. k \in I /\ \A j \in I : j <= k
    <3> HIDE DEF I
    <3> QED
      BY <1>1, <1>3, <2>1, <2>2 DEF Max
  <2>4. k \in 1 .. Len(s) /\ s[k] # Nul
    BY <2>3
  <2>5. ASSUME NEW i \in k + 1 .. Len(s)
        PROVE  s[i] = Nul
    <3>1. i \in 1 .. Len(s) /\ ~(i <= k)
      BY <1>0, <2>4
    <3> QED
      BY <2>3, <3>1
  <2>6. k \in 0 .. Len(s) /\ k # 0
    BY <1>0, <2>4
  <2> QED
    BY <2>4, <2>5, <2>6 DEF k
<1> QED
  BY <1>2, <1>3

(* topic_str of a message that was built for the topic s.                  *)
LEMMA TopicFacts ==
  ASSUME NEW s \in Bytes, NEW m, m.topic = Field(s, TopicLen)
  PROVE  /\ TopicStr(m) \in Bytes /\ ValidUtf8(TopicStr(m)) /\ IsPrefix(TopicStr(m), s)
         /\ ValidUtf8(s) /\ Len(s) <= TopicLen /\ (\A i \in 1 .. Len(s) : s[i] # Nul) => TopicStr(m) = s
<1> DEFINE f == m.topic
           k == SelectInSeq(f, LAMBDA b : b = Nul)
           n == IF k = 0 THEN TopicLen ELSE k - 1
           text == IF k = 0 THEN f ELSE SubSeq(f, 1, k - 1)
<1>0. TopicLen \in Nat /\ Len(s) \in Nat
  BY FieldAssumption, LenProperties DEF Bytes
<1>1. /\ f \in Bytes /\ Len(f) = TopicLen
      /\ \A i \in 1 .. TopicLen : f[i] = IF i <= Len(s) THEN s[i] ELSE Nul
  BY <1>0, FieldFacts
<1>2. /\ k \in 0 .. TopicLen
      /\ k = 0 => \A i \in 1 .. TopicLen : f[i] # Nul
      /\ k # 0 => f[k] = Nul /\ \A i \in 1 .. k - 1 : f[i] # Nul
  BY <1>1, FirstNul
<1>3. TopicStr(m) = IF ValidUtf8(text) THEN text ELSE <<>>
  BY DEF TopicStr
<1> HIDE DEF f, k
<1>4. n \in 0 .. TopicLen /\ (\A i \in 1 .. n : i \in 1 .. TopicLen /\ f[i] # Nul)
      /\ (n < TopicLen => n + 1 \in 1 .. TopicLen /\ f[n + 1] = Nul)
  BY <1>0, <1>2
<1>5. text \in Bytes /\ Len(text) = n /\ \A i \in 1 .. n : text[i] = f[i]
  <2>1. CASE k = 0
    BY <1>1, <2>1
  <2>2. CASE k # 0
    BY <1>0, <1>1, <1>4, <2>2, Beginning
  <2> QED
    BY <2>1, <2>2
<1> HIDE DEF n, text
<1>6. n <= Len(s) /\ \A i \in 1 .. n : text[i] = s[i]
  <2>1. n <= Len(s)
    <3> SUFFICES ASSUME ~(n <= Len(s))
                 PROVE  FALSE
      OBVIOUS
    <3>1. Len(s) + 1 \in 1 .. n /\ Len(s) + 1 \in 1 .. TopicLen /\ ~(Len(s) + 1 <= Len(s))
      BY <1>0, <1>4
    <3> QED
      BY <1>1, <1>4, <3>1
  <2>2. \A i \in 1 .. n : i <= Len(s)
    BY <1>0, <1>4, <2>1
  <2> QED
    BY <1>1, <1>4, <1>5, <2>1, <2>2
<1>7. IsPrefix(text, s)
  BY <1>5, <1>6, PrefixIs
<1>8. <<>> \in Bytes /\ ValidUtf8(<<>>) /\ IsPrefix(<<>>, s)
  <2>1. <<>> \in Bytes /\ Len(<<>>) = 0
    BY EmptySeq DEF Bytes
  <2>2. ValidUtf8(<<>>)
    BY <2>1 DEF ValidUtf8
  <2>3. IsPrefix(<<>>, s)
    BY <1>0, <2>1, PrefixIs
  <2> QED
    BY <2>1, <2>2, <2>3
<1>9. ASSUME ValidUtf8(s), Len(s) <= TopicLen, \A i \in 1 .. Len(s) : s[i] # Nul
      PROVE  TopicStr(m) = s
  <2>1. n = Len(s)
    <3> SUFFICES ASSUME n < Len(s)
                 PROVE  FALSE
      BY <1>0, <1>4, <1>6
    <3>1. n + 1 \in 1 .. TopicLen /\ n + 1 \in 1 .. Len(s) /\ n < TopicLen /\ n + 1 <= Len(s)
      BY <1>0, <1>4, <1>9
    <3> QED
      BY <1>1, <1>4, <1>9, <3>1
  <2>2. text = s
    BY <1>5, <1>6, <2>1, SameBytes
  <2> QED
    BY <1>3, <1>9, <2>2
<1> QED
  BY <1>3, <1>5, <1>7, <1>8, <1>9

(* payload_bytes of a message that was built for the payload s.            *)
LEMMA PayloadFacts ==
  ASSUME NEW s \in Bytes, NEW m, m.payload = Field(s, PayloadLen)
  PROVE  /\ PayloadBytes(m) \in Bytes /\ IsPrefix(PayloadBytes(m), s)
         /\ \A i \in Len(PayloadBytes(m)) + 1 .. Len(s) : i <= PayloadLen => s[i] = Nul
<1> DEFINE f == m.payload
           k == SelectLastInSeq(f, LAMBDA b : b # Nul)
           read == PayloadBytes(m)
<1>0. PayloadLen \in Nat /\ Len(s) \in Nat
  BY FieldAssumption, LenProperties DEF Bytes
<1>1. /\ f \in Bytes /\ Len(f) = PayloadLen
      /\ \A i \in 1 .. PayloadLen : f[i] = IF i <= Len(s) THEN s[i] ELSE Nul
  BY <1>0, FieldFacts
<1>2. k \in 0 .. PayloadLen /\ (k # 0 => f[k] # Nul) /\ \A i \in k + 1 .. PayloadLen : f[i] = Nul
  BY <1>1, LastByte
<1>3. read = SubSeq(f, 1, k)
  BY DEF PayloadBytes
<1> HIDE DEF f, k, read
<1>4. read \in Bytes /\ Len(read) = k /\ \A i \in 1 .. k : read[i] = f[i]
  BY <1>1, <1>2, <1>3, Beginning
<1>5. k <= Len(s)
  <2> SUFFICES ASSUME ~(k <= Len(s))
               PROVE  FALSE
    OBVIOUS
  <2>1. k \in 1 .. PayloadLen /\ k # 0
    BY <1>0, <1>2
  <2> QED
    BY <1>1, <1>2, <2>1
<1>6. \A i \in 1 .. k : i \in 1 .. PayloadLen /\ i <= Len(s)
  BY <1>0, <1>2, <1>5
<1>7. \A i \in 1 .. k : read[i] = s[i]
  BY <1>1, <1>4, <1>6
<1>8. IsPrefix(read, s)
  BY <1>4, <1>5, <1>7, PrefixIs
<1>9. ASSUME NEW i \in k + 1 .. Len(s), i <= PayloadLen
      PROVE  s[i] = Nul
  <2>1. i \in 1 .. PayloadLen /\ i \in k + 1 .. PayloadLen /\ i <= Len(s)
    BY <1>0, <1>2, <1>9
  <2> QED
    BY <1>1, <1>2, <2>1
<1> QED
  BY <1>4, <1>8, <1>9 DEF read

-----------------------------------------------------------------------------
(***************************************************************************)
(* Routing                                                                 *)
(***************************************************************************)

(* The filter made of a pattern accepts what the pattern accepts.          *)
LEMMA RouteFacts ==
  ASSUME NEW p \in Bytes, NEW t \in Bytes
  PROVE  Matches(Parse(p), t) <=> Accepts(p, t)
<1> DEFINE Starred == p # <<>> /\ p[Len(p)] = Star
           q == SubSeq(p, 1, Len(p) - 1)
<1>0. Len(p) \in Nat /\ Len(t) \in Nat /\ Star \in Byte
  BY LenProperties DEF Bytes, Star, Byte
<1>s. <<Star>> \in Bytes /\ Len(<<Star>>) = 1 /\ <<Star>>[1] = Star
  BY <1>0 DEF Bytes
<1>1. ASSUME NEW n \in 0 .. Len(t)
      PROVE  LET u == SubSeq(t, 1, n) \o <<Star>> IN
             /\ u \in Bytes /\ Len(u) = n + 1 /\ u[n + 1] = Star
             /\ \A i \in 1 .. n : u[i] = t[i]
  <2> DEFINE b == SubSeq(t, 1, n)
             u == b \o <<Star>>
  <2>1. n \in Nat /\ b \in Bytes /\ Len(b) = n /\ \A i \in 1 .. n : b[i] = t[i]
    BY <1>0, Beginning
  <2> HIDE DEF b
  <2>2. /\ u \in Bytes /\ Len(u) = n + 1
        /\ \A i \in 1 .. n + 1 : u[i] = IF i <= n THEN b[i] ELSE <<Star>>[i - n]
    BY <1>s, <2>1, ConcatProperties DEF Bytes
  <2> HIDE DEF u
  <2>3. n + 1 \in 1 .. n + 1 /\ ~(n + 1 <= n) /\ (n + 1) - n = 1
        /\ \A i \in 1 .. n : i \in 1 .. n + 1 /\ i <= n
    BY <2>1
  <2>4. u[n + 1] = Star /\ \A i \in 1 .. n : u[i] = t[i]
    BY <1>s, <2>1, <2>2, <2>3
  <2> QED
    BY <2>2, <2>4 DEF u, b
<1>2. CASE Starred
  <2>1. Len(p) - 1 \in 0 .. Len(p) /\ Len(p) - 1 \in Nat
    BY <1>0, <1>2, EmptySeq DEF Bytes
  <2>2. q \in Bytes /\ Len(q) = Len(p) - 1 /\ \A i \in 1 .. Len(p) - 1 : q[i] = p[i]
    BY <2>1, Beginning
  <2>3. Matches(Parse(p), t) <=> Len(q) <= Len(t) /\ SubSeq(t, 1, Len(q)) = q
    BY <1>2 DEF Matches, Parse, StartsWith
  <2> HIDE DEF q
  <2>4. ASSUME Len(q) <= Len(t), SubSeq(t, 1, Len(q)) = q
        PROVE  Accepts(p, t)
    <3> DEFINE n == Len(q)
               u == SubSeq(t, 1, n) \o <<Star>>
    <3>1. n \in 0 .. Len(t) /\ Len(p) = n + 1 /\ n \in Nat
      BY <1>0, <2>1, <2>2, <2>4
    <3>2. u \in Bytes /\ Len(u) = n + 1 /\ u[n + 1] = Star /\ \A i \in 1 .. n : u[i] = t[i]
      BY <1>1, <3>1
    <3>3. \A i \in 1 .. n : SubSeq(t, 1, n)[i] = t[i]
      BY <3>1, Beginning
    <3>4. \A i \in 1 .. n : u[i] = p[i]
      BY <2>2, <2>4, <3>1, <3>2, <3>3
    <3>5. p[n + 1] = Star
      BY <1>2, <3>1
    <3> HIDE DEF u, n
    <3>6. \A i \in 1 .. n + 1 : i \in 1 .. n \/ i = n + 1
      BY <3>1
    <3>7. p = u
      BY <3>1, <3>2, <3>4, <3>5, <3>6, SameBytes
    <3> QED
      BY <3>1, <3>7 DEF Accepts, u
  <2>5. ASSUME Accepts(p, t)
        PROVE  Len(q) <= Len(t) /\ SubSeq(t, 1, Len(q)) = q
    <3>1. PICK n \in 0 .. Len(t) : p = SubSeq(t, 1, n) \o <<Star>>
      BY <1>2, <2>5 DEF Accepts
    <3>2. Len(p) = n + 1 /\ \A i \in 1 .. n : p[i] = t[i]
      BY <1>1, <3>1
    <3>3. Len(q) = n /\ n \in Nat /\ n <= Len(t)
      BY <1>0, <2>2, <3>2
    <3>4. SubSeq(t, 1, n) \in Bytes /\ Len(SubSeq(t, 1, n)) = n /\ \A i \in 1 .. n : SubSeq(t, 1, n)[i] = t[i]
      BY Beginning
    <3>5. \A i \in 1 .. n : SubSeq(t, 1, n)[i] = q[i]
      BY <2>2, <3>2, <3>3, <3>4
    <3>6. SubSeq(t, 1, n) = q
      BY <2>2, <3>3, <3>4, <3>5, SameBytes
    <3> QED
      BY <3>3, <3>6
  <2> QED
    BY <2>3, <2>4, <2>5
<1>3. CASE ~Starred
  <2>1. Matches(Parse(p), t) <=> p = t
    BY <1>3 DEF Matches, Parse
  <2>2. ASSUME NEW n \in 0 .. Len(t), p = SubSeq(t, 1, n) \o <<Star>>
        PROVE  FALSE
    <3>1. Len(p) = n + 1 /\ p[n + 1] = Star /\ n \in Nat
      BY <1>0, <1>1, <2>2
    <3>2. p # <<>>
      <4>1. Len(<<>>) = 0 /\ n + 1 # 0
        BY <3>1, EmptySeq
      <4> QED
        BY <3>1, <4>1
    <3> QED
      BY <1>3, <3>1, <3>2
  <2>3. Accepts(p, t) <=> p = t
    BY <1>3, <2>2 DEF Accepts
  <2> QED
    BY <2>1, <2>3
<1> QED
  BY <1>2, <1>3

-----------------------------------------------------------------------------
(***************************************************************************)
(* The record                                                              *)
(***************************************************************************)

(* Above(n) drops the bytes of n one after the other.                      *)
LEMMA AboveFacts ==
  ASSUME NEW n \in Nat
  PROVE  /\ Above(n) \in [0 .. StampLen -> Nat] /\ Above(n)[0] = n
         /\ \A i \in 1 .. StampLen : Above(n)[i] = Above(n)[i - 1] \div 256
<1> DEFINE Body(g) == [i \in 0 .. StampLen |-> IF i = 0 THEN n ELSE g[i - 1] \div 256]
           F == [z \in Nat \X Nat |-> z[1] \div 256]
<1>0. StampLen \in Nat
  BY FieldAssumption
<1>1. F \in [Nat \X Nat -> Nat]
  <2>1. \A x \in Nat : x \div 256 \in Nat
    OBVIOUS
  <2> QED
    BY <2>1
<1>2. PICK g \in [0 .. StampLen -> Nat] : g[0] = n /\ \A k \in 1 .. StampLen : g[k] = F[<<g[k - 1], k>>]
  <2> HIDE DEF F
  <2> QED
    BY <1>0, <1>1, Recursion, ZenonT(40)
<1>3. \A k \in 1 .. StampLen : k \in Nat /\ k - 1 \in 0 .. StampLen
  BY <1>0
<1>4. \A k \in 1 .. StampLen : g[k] = g[k - 1] \div 256
  BY <1>2, <1>3
<1>5. g = Body(g)
  <2>1. \A i \in 0 .. StampLen : i = 0 \/ i \in 1 .. StampLen
    BY <1>0
  <2>2. \A i \in 0 .. StampLen : g[i] = IF i = 0 THEN n ELSE g[i - 1] \div 256
    BY <1>2, <1>4, <2>1
  <2> QED
    BY <2>2
<1>6. Above(n) = Body(Above(n))
  <2>1. Above(n) = CHOOSE h : h = Body(h)
    BY DEF Above
  <2> HIDE DEF Body
  <2> QED
    BY <1>5, <2>1
<1> DEFINE a == Above(n)
<1> HIDE DEF a
<1>7. a = Body(a)
  BY <1>6 DEF a
<1>8. 0 \in 0 .. StampLen /\ a[0] = n /\ DOMAIN a = 0 .. StampLen /\ a = [i \in 0 .. StampLen |-> a[i]]
  BY <1>0, <1>7
<1>9. \A i \in 1 .. StampLen : a[i] = a[i - 1] \div 256
  <2>1. \A i \in 1 .. StampLen : i \in 0 .. StampLen /\ i # 0
    BY <1>0
  <2> QED
    BY <1>7, <2>1
<1>10. ASSUME NEW i \in 0 .. StampLen
       PROVE  a[i] \in Nat
  <2> DEFINE S == {j \in Nat : j <= StampLen => a[j] \in Nat}
  <2>1. 0 \in S
    BY <1>8
  <2>2. ASSUME NEW j \in S
        PROVE  j + 1 \in S
    <3>1. ASSUME j + 1 <= StampLen
          PROVE  a[j + 1] \in Nat
      <4>1. j \in Nat /\ j + 1 \in 1 .. StampLen /\ (j + 1) - 1 = j /\ a[j] \in Nat
        BY <1>0, <3>1
      <4>2. a[j + 1] = a[j] \div 256
        BY <1>9, <4>1
      <4> QED
        BY <4>1, <4>2
    <3> QED
      BY <3>1
  <2>3. S \in SUBSET Nat
    OBVIOUS
  <2> HIDE DEF S
  <2>4. S = Nat
    BY <2>1, <2>2, <2>3, Induction
  <2>5. i \in Nat /\ i <= StampLen
    BY <1>0
  <2> QED
    BY <2>4, <2>5 DEF S
<1> QED
  BY <1>8, <1>9, <1>10 DEF a

(* TopBytes(s) puts the bytes of s together, the last one first.           *)
LEMMA TopFacts ==
  ASSUME NEW s, \A i \in 1 .. StampLen : s[i] \in Byte
  PROVE  /\ TopBytes(s) \in [0 .. StampLen -> Nat] /\ TopBytes(s)[0] = 0
         /\ \A k \in 1 .. StampLen : TopBytes(s)[k] = TopBytes(s)[k - 1] * 256 + s[StampLen - k + 1]
<1> DEFINE Body(g) == [k \in 0 .. StampLen |->
                         IF k = 0 THEN 0 ELSE g[k - 1] * 256 + s[StampLen - k + 1]]
           F == [z \in Nat \X Nat |->
                   IF z[2] \in 1 .. StampLen THEN z[1] * 256 + s[StampLen - z[2] + 1] ELSE 0]
<1>0. StampLen \in Nat /\ \A k \in 1 .. StampLen : StampLen - k + 1 \in 1 .. StampLen
  BY FieldAssumption
<1>1. F \in [Nat \X Nat -> Nat]
  <2>1. \A x \in Nat, b \in Byte : x * 256 + b \in Nat
    BY DEF Byte
  <2>2. \A x \in Nat, k \in 1 .. StampLen : x * 256 + s[StampLen - k + 1] \in Nat
    BY <1>0, <2>1
  <2> QED
    BY <2>2
<1>2. PICK g \in [0 .. StampLen -> Nat] : g[0] = 0 /\ \A k \in 1 .. StampLen : g[k] = F[<<g[k - 1], k>>]
  <2> HIDE DEF F
  <2>1. 0 \in Nat
    OBVIOUS
  <2> QED
    BY <1>0, <1>1, <2>1, Recursion, ZenonT(40)
<1>3. \A k \in 1 .. StampLen : k \in Nat /\ k - 1 \in 0 .. StampLen
  BY <1>0
<1>4. \A k \in 1 .. StampLen : g[k] = g[k - 1] * 256 + s[StampLen - k + 1]
  BY <1>2, <1>3
<1>5. g = Body(g)
  <2>1. \A i \in 0 .. StampLen : i = 0 \/ i \in 1 .. StampLen
    BY <1>0
  <2>2. \A i \in 0 .. StampLen : g[i] = IF i = 0 THEN 0 ELSE g[i - 1] * 256 + s[StampLen - i + 1]
    BY <1>2, <1>4, <2>1
  <2> QED
    BY <2>2
<1>6. TopBytes(s) = Body(TopBytes(s))
  <2>1. TopBytes(s) = CHOOSE h : h = Body(h)
    BY DEF TopBytes
  <2> HIDE DEF Body
  <2> QED
    BY <1>5, <2>1
<1> DEFINE a == TopBytes(s)
<1> HIDE DEF a
<1>7. a = Body(a)
  BY <1>6 DEF a
<1>8. 0 \in 0 .. StampLen /\ a[0] = 0 /\ DOMAIN a = 0 .. StampLen /\ a = [i \in 0 .. StampLen |-> a[i]]
  BY <1>0, <1>7
<1>9. \A i \in 1 .. StampLen : a[i] = a[i - 1] * 256 + s[StampLen - i + 1]
  <2>1. \A i \in 1 .. StampLen : i \in 0 .. StampLen /\ i # 0
    BY <1>0
  <2> QED
    BY <1>7, <2>1
<1>10. ASSUME NEW i \in 0 .. StampLen
       PROVE  a[i] \in Nat
  <2> DEFINE S == {j \in Nat : j <= StampLen => a[j] \in Nat}
  <2>1. 0 \in S
    BY <1>8
  <2>2. ASSUME NEW j \in S
        PROVE  j + 1 \in S
    <3>1. ASSUME j + 1 <= StampLen
          PROVE  a[j + 1] \in Nat
      <4>1. j \in Nat /\ j + 1 \in 1 .. StampLen /\ (j + 1) - 1 = j /\ a[j] \in Nat
        BY <1>0, <3>1
      <4>2. a[j + 1] = a[j] * 256 + s[StampLen - (j + 1) + 1]
        BY <1>9, <4>1
      <4>3. s[StampLen - (j + 1) + 1] \in Byte
        BY <1>0, <4>1
      <4>4. \A x \in Nat, c \in Byte : x * 256 + c \in Nat
        BY DEF Byte
      <4>5. a[j] \in Nat
        BY <4>1
      <4>6. a[j] * 256 + s[StampLen - (j + 1) + 1] \in Nat
        BY <4>3, <4>4, <4>5
      <4> QED
        BY <4>2, <4>6
    <3> QED
      BY <3>1
  <2>3. S \in SUBSET Nat
    OBVIOUS
  <2> HIDE DEF S
  <2>4. S = Nat
    BY <2>1, <2>2, <2>3, Induction
  <2>5. i \in Nat /\ i <= StampLen
    BY <1>0
  <2> QED
    BY <2>4, <2>5 DEF S
<1> QED
  BY <1>8, <1>9, <1>10 DEF a

(* The bytes of a stamp.                                                   *)
LEMMA StampBytes ==
  ASSUME NEW n \in Nat
  PROVE  /\ ToLeBytes(n) \in Bytes /\ Len(ToLeBytes(n)) = StampLen
         /\ \A i \in 1 .. StampLen : ToLeBytes(n)[i] = Above(n)[i - 1] % 256
<1> DEFINE b == ToLeBytes(n)
<1>0. StampLen \in Nat
  BY FieldAssumption
<1>1. b = [i \in 1 .. StampLen |-> Above(n)[i - 1] % 256]
  BY DEF ToLeBytes
<1>2. \A i \in 1 .. StampLen : i - 1 \in 0 .. StampLen
  BY <1>0
<1>3. \A i \in 1 .. StampLen : Above(n)[i - 1] \in Nat
  <2>1. Above(n) \in [0 .. StampLen -> Nat]
    BY AboveFacts
  <2> HIDE DEF b
  <2> QED
    BY <1>2, <2>1
<1>4. \A x \in Nat : x % 256 \in Byte
  BY DEF Byte
<1>5. b \in [1 .. StampLen -> Byte]
  BY <1>1, <1>3, <1>4
<1> HIDE DEF b
<1>6. b \in Seq(Byte)
  BY <1>0, <1>5, SeqDef
<1>7. DOMAIN b = 1 .. StampLen /\ DOMAIN b = 1 .. Len(b) /\ Len(b) \in Nat
  BY <1>5, <1>6, LenProperties
<1>8. Len(b) = StampLen
  BY <1>0, <1>7
<1> QED
  BY <1>1, <1>6, <1>8 DEF b, Bytes

(* from_le_bytes inverts to_le_bytes on what fits into StampLen bytes.     *)
LEMMA StampRoundTrip ==
  ASSUME NEW n, IsStamp(n)
  PROVE  FromLeBytes(ToLeBytes(n)) = n
<1> DEFINE b == ToLeBytes(n)
           r == Above(n)
           v == TopBytes(b)
<1>0. StampLen \in Nat /\ n \in Nat /\ r[StampLen] = 0
  BY FieldAssumption DEF IsStamp
<1>1. r \in [0 .. StampLen -> Nat] /\ r[0] = n /\ \A i \in 1 .. StampLen : r[i] = r[i - 1] \div 256
  <2>1. n \in Nat
    BY <1>0
  <2> HIDE DEF b, v
  <2>2. /\ Above(n) \in [0 .. StampLen -> Nat] /\ Above(n)[0] = n
        /\ \A i \in 1 .. StampLen : Above(n)[i] = Above(n)[i - 1] \div 256
    BY <2>1, AboveFacts
  <2> QED
    BY <2>2
<1>2. /\ b \in Bytes /\ Len(b) = StampLen
      /\ \A i \in 1 .. StampLen : b[i] = r[i - 1] % 256
  BY <1>0, StampBytes
<1>3. \A i \in 1 .. StampLen : b[i] \in Byte
  BY <1>2, ElementOfSeq DEF Bytes
<1> HIDE DEF b
<1>4. v \in [0 .. StampLen -> Nat] /\ v[0] = 0
      /\ \A k \in 1 .. StampLen : v[k] = v[k - 1] * 256 + b[StampLen - k + 1]
  BY <1>3, TopFacts
<1> HIDE DEF r, v
<1> DEFINE S == {k \in Nat : k <= StampLen => v[k] = r[StampLen - k]}
<1>5. 0 \in S
  <2>1. StampLen - 0 = StampLen
    BY <1>0
  <2> QED
    BY <1>0, <1>4, <2>1
<1>6. ASSUME NEW k \in S
      PROVE  k + 1 \in S
  <2>1. ASSUME k + 1 <= StampLen
        PROVE  v[k + 1] = r[StampLen - (k + 1)]
    <3> DEFINE i == StampLen - k
    <3>1. /\ k \in Nat /\ k + 1 \in 1 .. StampLen /\ (k + 1) - 1 = k /\ v[k] = r[i]
          /\ i \in 1 .. StampLen /\ StampLen - (k + 1) + 1 = i /\ StampLen - (k + 1) = i - 1
          /\ i - 1 \in 0 .. StampLen
      BY <1>0, <2>1
    <3>2. v[k + 1] = v[k] * 256 + b[i]
      BY <1>4, <3>1
    <3>3. v[k] = r[i - 1] \div 256 /\ b[i] = r[i - 1] % 256 /\ r[i - 1] \in Nat
      BY <1>1, <1>2, <3>1
    <3>4. \A x \in Nat : (x \div 256) * 256 + (x % 256) = x
      OBVIOUS
    <3>5. v[k + 1] = r[i - 1]
      BY <3>2, <3>3, <3>4
    <3> QED
      BY <3>1, <3>5
  <2> QED
    BY <2>1
<1>7. S \in SUBSET Nat
  OBVIOUS
<1> HIDE DEF S
<1>8. S = Nat
  BY <1>5, <1>6, <1>7, Induction
<1>9. v[StampLen] = r[StampLen - StampLen] /\ StampLen - StampLen = 0
  BY <1>0, <1>8 DEF S
<1> QED
  BY <1>1, <1>9 DEF FromLeBytes, v, b

(* from_bytes takes the record of to_bytes apart where it was joined.      *)
LEMMA RecordRoundTrip ==
  ASSUME NEW n, IsStamp(n), NEW t \in Bytes, Len(t) = TopicLen, NEW p \in Bytes, Len(p) = PayloadLen
  PROVE  FromBytes(ToBytes([timestamp_ns |-> n, topic |-> t, payload |-> p]))
           = [timestamp_ns |-> n, topic |-> t, payload |-> p]
<1> DEFINE b == ToLeBytes(n)
           w == (b \o t) \o p
           x == StampLen
           y == TopicLen
           z == PayloadLen
<1>0. x \in Nat \ {0} /\ y \in Nat \ {0} /\ z \in Nat \ {0} /\ n \in Nat
  BY FieldAssumption DEF IsStamp
<1>1. b \in Bytes /\ Len(b) = x
  BY <1>0, StampBytes
<1>2. ToBytes([timestamp_ns |-> n, topic |-> t, payload |-> p]) = w
  BY DEF ToBytes
<1>9. FromLeBytes(b) = n
  BY StampRoundTrip
<1> HIDE DEF b
<1>3. /\ b \o t \in Bytes /\ Len(b \o t) = x + y
      /\ \A i \in 1 .. x + y : (b \o t)[i] = IF i <= x THEN b[i] ELSE t[i - x]
  BY <1>1, ConcatProperties DEF Bytes
<1>4. /\ w \in Bytes /\ Len(w) = x + y + z
      /\ \A i \in 1 .. x + y + z : w[i] = IF i <= x + y THEN (b \o t)[i] ELSE p[i - (x + y)]
  BY <1>3, ConcatProperties DEF Bytes
<1> HIDE DEF w
<1>5. \A i \in 1 .. x + y + z : w[i] \in Byte
  BY <1>4, ElementOfSeq DEF Bytes
<1>6. SubSeq(w, 1, x) = b
  <2> DEFINE u == SubSeq(w, 1, x)
  <2>1. x \in 0 .. Len(w) /\ \A i \in 1 .. x : i \in 1 .. x + y /\ i \in 1 .. x + y + z /\ i <= x + y /\ i <= x
    BY <1>0, <1>4
  <2>2. u \in Bytes /\ Len(u) = x /\ \A i \in 1 .. x : u[i] = w[i]
    BY <1>4, <2>1, Beginning
  <2>3. \A i \in 1 .. x : u[i] = b[i]
    BY <1>3, <1>4, <2>1, <2>2
  <2> QED
    BY <1>1, <2>2, <2>3, SameBytes
<1>7. SubSeq(w, x + 1, x + y) = t
  <2> DEFINE u == SubSeq(w, x + 1, x + y)
  <2>1. /\ x + 1 \in Int /\ x + y \in Int /\ x + 1 <= x + y /\ (x + y) - (x + 1) + 1 = y
        /\ \A i \in x + 1 .. x + y : i \in 1 .. x + y + z
        /\ \A i \in 1 .. y : /\ (x + 1) + i - 1 = x + i /\ x + i \in 1 .. x + y + z /\ x + i \in 1 .. x + y
                             /\ x + i <= x + y /\ ~(x + i <= x) /\ (x + i) - x = i
    BY <1>0
  <2>2. /\ u \in Seq(Byte) /\ Len(u) = (IF x + 1 <= x + y THEN (x + y) - (x + 1) + 1 ELSE 0)
        /\ \A i \in 1 .. (x + y) - (x + 1) + 1 : u[i] = w[(x + 1) + i - 1]
    <3>1. \A i \in x + 1 .. x + y : w[i] \in Byte
      BY <1>5, <2>1
    <3> QED
      BY <2>1, <3>1, SubSeqProperties
  <2> HIDE DEF u
  <2>3. ASSUME NEW i \in 1 .. y
        PROVE  u[i] = t[i]
    <3>1. u[i] = w[x + i]
      BY <2>1, <2>2
    <3>2. w[x + i] = (b \o t)[x + i]
      BY <1>4, <2>1
    <3>3. (b \o t)[x + i] = t[i]
      BY <1>3, <2>1
    <3> QED
      BY <3>1, <3>2, <3>3
  <2>4. u = t
    BY <2>1, <2>2, <2>3, SameBytes DEF Bytes
  <2> QED
    BY <2>4 DEF u
<1>8. SubSeq(w, x + y + 1, x + y + z) = p
  <2> DEFINE c == x + y
             u == SubSeq(w, c + 1, c + z)
  <2>0. c \in Nat
    BY <1>0
  <2>a. \A i \in 1 .. c + z : w[i] \in Byte /\ w[i] = IF i <= c THEN (b \o t)[i] ELSE p[i - c]
    BY <1>4, <1>5
  <2> HIDE DEF c
  <2>1. /\ c + 1 \in Int /\ c + z \in Int /\ c + 1 <= c + z /\ (c + z) - (c + 1) + 1 = z
        /\ \A i \in c + 1 .. c + z : i \in 1 .. c + z
        /\ \A i \in 1 .. z : /\ (c + 1) + i - 1 = c + i /\ c + i \in 1 .. c + z
                             /\ ~(c + i <= c) /\ (c + i) - c = i
    BY <1>0, <2>0
  <2>2. /\ u \in Seq(Byte) /\ Len(u) = (IF c + 1 <= c + z THEN (c + z) - (c + 1) + 1 ELSE 0)
        /\ \A i \in 1 .. (c + z) - (c + 1) + 1 : u[i] = w[(c + 1) + i - 1]
    <3>1. \A i \in c + 1 .. c + z : w[i] \in Byte
      BY <2>a, <2>1
    <3> QED
      BY <2>1, <3>1, SubSeqProperties
  <2> HIDE DEF u
  <2>3. ASSUME NEW i \in 1 .. z
        PROVE  u[i] = p[i]
    <3>1. u[i] = w[c + i]
      BY <2>1, <2>2
    <3>2. w[c + i] = p[i]
      BY <2>a, <2>1
    <3> QED
      BY <3>1, <3>2
  <2>4. u = p
    BY <2>1, <2>2, <2>3, SameBytes DEF Bytes
  <2> QED
    BY <2>4 DEF u, c
<1> QED
  BY <1>2, <1>6, <1>7, <1>8, <1>9 DEF FromBytes

-----------------------------------------------------------------------------
(***************************************************************************)
(* The life of a message                                                   *)
(***************************************************************************)

(* Each stage leaves what the operators make of the caller's strings: the  *)
(* fields from new, a stamp that fits from offer, and the answer of the    *)
(* filter, the record and the message read back from it.                   *)
PathInv ==
  /\ topic \in Texts /\ payload \in Payloads /\ pattern \in Patterns
  /\ Built => msg = [timestamp_ns |-> msg.timestamp_ns, topic |-> Field(topic, TopicLen),
                     payload |-> Field(payload, PayloadLen)]
  /\ stage \notin {"call", "new"} => IsStamp(msg.timestamp_ns)
  /\ Routed => delivered = Matches(Parse(pattern), TopicStr(msg))
  /\ stage = "wire" => wire = ToBytes(msg)
  /\ stage = "decoded" => decoded = FromBytes(ToBytes(msg))

(* The caller's strings are strings of bytes, and the fields say so.       *)
LEMMA Given ==
  ASSUME PathInv
  PROVE  /\ topic \in Bytes /\ ValidUtf8(topic) /\ payload \in Bytes /\ pattern \in Bytes
         /\ Built => msg.topic = Field(topic, TopicLen) /\ msg.payload = Field(payload, PayloadLen)
<1>1. topic \in Bytes /\ ValidUtf8(topic) /\ payload \in Bytes /\ pattern \in Bytes
  BY TextAssumption, DataAssumption DEF PathInv, Bytes
<1>2. ASSUME Built
      PROVE  msg.topic = Field(topic, TopicLen) /\ msg.payload = Field(payload, PayloadLen)
  <2> DEFINE f == Field(topic, TopicLen)
             g == Field(payload, PayloadLen)
  <2>1. msg = [timestamp_ns |-> msg.timestamp_ns, topic |-> f, payload |-> g]
    BY <1>2 DEF PathInv
  <2> HIDE DEF f, g
  <2>2. msg.topic = f /\ msg.payload = g
    BY <2>1
  <2> QED
    BY <2>2 DEF f, g
<1> QED
  BY <1>1, <1>2

(* Before new there is nothing to say.                                     *)
LEMMA InitPathInv == Init => PathInv
BY DEF Init, PathInv, Built, Routed

(* Every stage leaves the message as the invariant says.                   *)
LEMMA NextPathInv == PathInv /\ [Next]_vars => PathInv'
<1> SUFFICES ASSUME PathInv, [Next]_vars
             PROVE  PathInv'
  OBVIOUS
<1>1. ASSUME Construct
      PROVE  PathInv'
  <2>1. msg' = [timestamp_ns |-> 0, topic |-> Field(topic, TopicLen), payload |-> Field(payload, PayloadLen)]
    BY <1>1 DEF Construct, NewMessage
  <2>2. msg'.timestamp_ns = 0
    BY <2>1
  <2>3. topic' = topic /\ payload' = payload /\ pattern' = pattern /\ stage' = "new"
    BY <1>1 DEF Construct
  <2> QED
    BY <2>1, <2>2, <2>3 DEF PathInv, Built, Routed
<1>2. ASSUME NEW now \in Stamps, Stamp(now)
      PROVE  PathInv'
  <2> DEFINE f == Field(topic, TopicLen)
             g == Field(payload, PayloadLen)
  <2>1. msg = [timestamp_ns |-> msg.timestamp_ns, topic |-> f, payload |-> g]
    BY <1>2 DEF Stamp, PathInv, Built
  <2>2. msg' = [msg EXCEPT !.timestamp_ns = now]
    BY <1>2 DEF Stamp
  <2>3. topic' = topic /\ payload' = payload /\ pattern' = pattern /\ stage' = "stamped"
    BY <1>2 DEF Stamp
  <2>4. f' = f /\ g' = g
    BY <2>3
  <2> HIDE DEF f, g
  <2>5. msg' = [timestamp_ns |-> now, topic |-> f, payload |-> g] /\ msg'.timestamp_ns = now
    BY <2>1, <2>2
  <2>6. IsStamp(msg'.timestamp_ns)
    BY <2>5, DataAssumption
  <2>7. msg' = [timestamp_ns |-> msg'.timestamp_ns, topic |-> f', payload |-> g']
    BY <2>4, <2>5
  <2> QED
    BY <2>3, <2>6, <2>7 DEF PathInv, Built, Routed, f, g
<1>3. CASE Route
  BY <1>3 DEF Route, PathInv, Built, Routed
<1>4. CASE Serialize
  BY <1>4 DEF Serialize, PathInv, Built, Routed
<1>5. CASE Deserialize
  BY <1>5 DEF Deserialize, PathInv, Built, Routed
<1>6. CASE UNCHANGED vars
  BY <1>6 DEF vars, PathInv, Built, Routed
<1> QED
  BY <1>1, <1>2, <1>3, <1>4, <1>5, <1>6 DEF Next

(* PathInv holds in every reachable state.                                 *)
THEOREM PathInvariance == Spec => []PathInv
BY InitPathInv, NextPathInv, PTL DEF Spec

(* to_bytes and from_bytes: the message read from a record is the message  *)
(* that was written to it, for fields of any width and every stamp that    *)
(* fits its own.                                                           *)
THEOREM RecordsRoundTrip == Spec => []RoundTrip
<1>1. ASSUME PathInv
      PROVE  RoundTrip
  <2> SUFFICES ASSUME stage = "decoded"
               PROVE  decoded = msg
    BY DEF RoundTrip
  <2> DEFINE f == Field(topic, TopicLen)
             g == Field(payload, PayloadLen)
             n == msg.timestamp_ns
  <2>1. /\ msg = [timestamp_ns |-> n, topic |-> f, payload |-> g] /\ IsStamp(n)
        /\ decoded = FromBytes(ToBytes(msg))
    BY <1>1 DEF PathInv, Built
  <2>2. f \in Bytes /\ Len(f) = TopicLen /\ g \in Bytes /\ Len(g) = PayloadLen
    BY <1>1, Given, FieldFacts, FieldAssumption
  <2> HIDE DEF f, g, n
  <2>3. FromBytes(ToBytes([timestamp_ns |-> n, topic |-> f, payload |-> g]))
          = [timestamp_ns |-> n, topic |-> f, payload |-> g]
    BY <2>1, <2>2, RecordRoundTrip
  <2> QED
    BY <2>1, <2>3
<1> QED
  BY <1>1, PathInvariance, PTL

(* topic_str and payload_bytes read back what new was given: the topic is  *)
(* never more than the caller wrote, whole when it fits and has no NUL,    *)
(* and valid UTF-8 wherever the field cuts it; the payload loses only what *)
(* does not fit and the zeros at its end.                                  *)
THEOREM AccessorsReadBack == Spec => []FieldsReadBack
<1>1. ASSUME PathInv
      PROVE  FieldsReadBack
  <2> SUFFICES ASSUME Built
               PROVE  /\ ValidUtf8(TopicStr(msg)) /\ IsPrefix(TopicStr(msg), topic)
                      /\ Fits /\ NulFree => TopicStr(msg) = topic
                      /\ IsPrefix(PayloadBytes(msg), payload)
                      /\ \A i \in Len(PayloadBytes(msg)) + 1 .. Len(payload) :
                           i <= PayloadLen => payload[i] = Nul
    BY DEF FieldsReadBack
  <2>1. /\ topic \in Bytes /\ ValidUtf8(topic) /\ payload \in Bytes
        /\ msg.topic = Field(topic, TopicLen) /\ msg.payload = Field(payload, PayloadLen)
    BY <1>1, Given
  <2>2. /\ ValidUtf8(TopicStr(msg)) /\ IsPrefix(TopicStr(msg), topic)
        /\ Fits /\ NulFree => TopicStr(msg) = topic
    BY <2>1, TopicFacts DEF Fits, NulFree
  <2>3. /\ IsPrefix(PayloadBytes(msg), payload)
        /\ \A i \in Len(PayloadBytes(msg)) + 1 .. Len(payload) : i <= PayloadLen => payload[i] = Nul
    BY <2>1, PayloadFacts
  <2> QED
    BY <2>2, <2>3
<1> QED
  BY <1>1, PathInvariance, PTL

(* Filter::parse and matches: a topic that fits its field reaches exactly  *)
(* the subscribers whose pattern accepts what the publisher wrote.         *)
THEOREM RoutesAsWritten == Spec => []RoutedAsWritten
<1>1. ASSUME PathInv
      PROVE  RoutedAsWritten
  <2> SUFFICES ASSUME Routed, Fits, NulFree
               PROVE  delivered <=> Accepts(pattern, topic)
    BY DEF RoutedAsWritten
  <2>1. Built /\ delivered = Matches(Parse(pattern), TopicStr(msg))
    BY <1>1 DEF PathInv, Routed, Built
  <2>2. /\ topic \in Bytes /\ ValidUtf8(topic) /\ pattern \in Bytes
        /\ msg.topic = Field(topic, TopicLen)
    BY <1>1, <2>1, Given
  <2>3. TopicStr(msg) = topic
    BY <2>2, TopicFacts DEF Fits, NulFree
  <2> QED
    BY <2>1, <2>2, <2>3, RouteFacts
<1> QED
  BY <1>1, PathInvariance, PTL
=============================================================================
