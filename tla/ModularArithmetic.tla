------------------------- MODULE ModularArithmetic -------------------------
(***************************************************************************)
(* Facts about remainders that the ring buffer's proofs rest on: usize     *)
(* arithmetic is arithmetic modulo Word, and a slot index is a cursor      *)
(* modulo the capacity.                                                    *)
(***************************************************************************)
EXTENDS Integers, TLAPS

(* Euclidean division: quotient and remainder, and the remainder range. *)
LEMMA DivMod == ASSUME NEW a \in Int, NEW c \in Nat \ {0}
  PROVE /\ a % c \in 0 .. c-1 /\ a \div c \in Int /\ a = c * (a \div c) + (a % c)
BY Z3

(* Multiplication by a positive number is strictly monotonic. *)
LEMMA MulMonotonic == ASSUME NEW c \in Nat \ {0}, NEW x \in Int, NEW y \in Int, x < y
  PROVE c * x + c <= c * y
BY Z3

(* Multiplication distributes over addition and subtraction. *)
LEMMA MulDistributes == ASSUME NEW c \in Int, NEW x \in Int, NEW y \in Int
  PROVE /\ c * (x - y) = c * x - c * y /\ c * (x+y) = c*x+c*y /\ c * x \in Int
        /\ c * y \in Int
BY Z3

(* Multiplication is associative. *)
LEMMA MulAssociates == ASSUME NEW c \in Int, NEW x \in Int, NEW y \in Int
  PROVE (c * x) * y = c * (x * y) /\ x * y \in Int
BY Z3

(* Quotient and remainder are unique. *)
LEMMA DivModUnique == ASSUME NEW c \in Nat \ {0}, NEW x \in Int, NEW y \in Int, NEW r \in 0..c-1, NEW s \in 0..c-1, c * x + r = c * y + s
  PROVE x = y /\ r = s
<1>1. ~ (x < y) BY MulMonotonic, Z3
<1>2. ~ (y < x) BY MulMonotonic, Z3
<1> QED BY <1>1, <1>2, Z3

(* The remainder of c*x + r is r. *)
LEMMA ModUnique ==
  ASSUME NEW c \in Nat \ {0}, NEW x \in Int, NEW r \in 0..c-1
  PROVE  (c * x + r) % c = r
<1> DEFINE a == c*x + r
<1>1. a \in Int BY Z3
<1>2. a = c * (a \div c) + (a % c) /\ a % c \in 0..c-1 /\ a \div c \in Int
  BY <1>1, DivMod
<1> HIDE DEF a
<1>3. c * x + r = c * (a \div c) + (a % c) BY <1>2 DEF a
<1>4. r = a % c BY <1>2, <1>3, DivModUnique
<1> QED BY <1>4 DEF a

(* Adding to a wrapped number wraps like adding to the number itself. *)
LEMMA ModShift ==
  ASSUME NEW c \in Nat \ {0}, NEW a \in Int, NEW d \in Int
  PROVE  ((a % c) + d) % c = (a + d) % c
<1> DEFINE r == a % c
           b == r + d
           q == b \div c
           p == a \div c
<1>1. r \in 0..c-1 /\ p \in Int /\ a = c * p + r BY DivMod
<1> HIDE DEF r
<1>2. b \in Int BY <1>1
<1>3. b % c \in 0..c-1 /\ q \in Int /\ b = c * q + (b % c) BY <1>2, DivMod
<1> HIDE DEF q, p, b
<1>a. c * p \in Int BY <1>1, MulDistributes
<1>4. b = a - c * p + d BY <1>1, <1>a DEF b
<1>5. a + d = c * p + c * q + (b % c) BY <1>1, <1>2, <1>3, <1>4, MulDistributes
<1>6. a + d = c * (p + q) + (b % c) BY <1>1, <1>3, <1>5, MulDistributes
<1>b. p + q \in Int BY <1>1, <1>3
<1>7. (c * (p+q) + (b % c)) % c = b % c BY <1>3, <1>b, ModUnique
<1> QED BY <1>6, <1>7 DEF b, r

(* wrapping_sub of two wrapped cursors is their true distance, as long as
   the distance is below the modulus. *)
LEMMA ModSub ==
  ASSUME NEW c \in Nat \ {0}, NEW h \in Int, NEW t \in Int, h - t \in 0 .. c - 1
  PROVE ((h % c) - (t % c)) % c = h - t
<1> DEFINE p == h \div c
           q == t \div c
<1>1. h % c \in 0..c-1 /\ p \in Int /\ h = c * p + (h % c) BY DivMod
<1>2. t % c \in 0..c-1 /\ q \in Int /\ t = c * q + (t % c) BY DivMod
<1> HIDE DEF p, q
<1>3. (h % c) - (t % c) = c * (q - p) + (h - t) BY <1>1, <1>2, MulDistributes
<1>4. q - p \in Int BY <1>1, <1>2
<1>5. (c * (q - p) + (h - t)) % c = h - t BY <1>4, ModUnique
<1> QED BY <1>3, <1>5

(* Taking the slot index of a wrapped cursor is taking it of the number. *)
LEMMA ModMod ==
  ASSUME NEW c \in Nat \ {0}, NEW k \in Nat \ {0}, NEW a \in Int
  PROVE (a % (c * k)) % c = a % c
<1> DEFINE w == c * k
           p == a \div w
           r == a % c
           q == a \div c
<1>0. w \in Nat \ {0} BY Z3
<1>1. a % w \in 0..w-1 /\ p \in Int /\ a = w * p + (a % w) BY <1>0, DivMod
<1>2. r \in 0..c-1 /\ q \in Int /\ a = c * q + r BY DivMod
<1> HIDE DEF p, q, r
<1>3. w * p = c * (k * p) /\ k * p \in Int BY <1>1, MulAssociates
<1> HIDE DEF w
<1>4. a % w = c * (q - k * p) + r BY <1>0, <1>1, <1>2, <1>3, MulDistributes
<1>5. q - k * p \in Int BY <1>2, <1>3
<1>6. (c * (q - k*p) + r) % c = r BY <1>2, <1>5, ModUnique
<1> QED BY <1>4, <1>6 DEF w, r

(* Two different numbers with the same slot index are at least c apart. *)
LEMMA ModWindow ==
  ASSUME NEW c \in Nat \ {0}, NEW a \in Int, NEW b \in Int, a < b, a % c = b % c
  PROVE  a + c <= b
<1> DEFINE p == a \div c
           q == b \div c
<1>1. a % c \in 0..c-1 /\ p \in Int /\ a = c * p + (a % c) BY DivMod
<1>2. b % c \in 0..c-1 /\ q \in Int /\ b = c * q + (b % c) BY DivMod
<1> HIDE DEF p, q
<1>3. c * p < c * q BY <1>1, <1>2, MulDistributes
<1>4. p < q BY <1>3, <1>1, <1>2, Z3
<1>5. c * p + c <= c * q BY <1>4, <1>1, <1>2, MulMonotonic
<1> QED BY <1>1, <1>2, <1>5, MulDistributes
=============================================================================
