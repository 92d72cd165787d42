---------------------------- MODULE BasicLemmas ----------------------------
(***************************************************************************)
(* Facts the proofs of this project share: least and greatest elements of  *)
(* sets of natural numbers, the first gap above a number, functions on     *)
(* 1..n as sequences, and the exactness of serial distances.               *)
(***************************************************************************)
EXTENDS SerialNumbers, Sequences, WellFoundedInduction, SequenceTheorems, TLAPS

(***************************************************************************)
(* A nonempty set of naturals has a least element.                         *)
(***************************************************************************)
LEMMA LeastElement ==
  ASSUME NEW S, S \subseteq Nat, S # {}
  PROVE  \E x \in S : \A y \in S : x <= y
<1> DEFINE R == OpToRel(<, Nat)
<1>1. IsWellFoundedOn(R, Nat)
  BY NatLessThanWellFounded
<1>2. \A x, y \in Nat : <<y, x>> \in R <=> y < x
  BY DEF OpToRel
<1> HIDE DEF R
<1>3. PICK x \in S : \A y \in S : ~ (<<y, x>> \in R)
  BY <1>1, WFMin
<1>4. ASSUME NEW y \in S PROVE x <= y
  <2>1. ~ (y < x)
    BY <1>2, <1>3
  <2> QED
    BY <2>1
<1> QED
  BY <1>3, <1>4

(***************************************************************************)
(* A nonempty bounded set of naturals has a greatest element.              *)
(***************************************************************************)
LEMMA GreatestElement ==
  ASSUME NEW S, S \subseteq Nat, S # {}, NEW n \in Nat, \A x \in S : x <= n
  PROVE  \E x \in S : \A y \in S : y <= x
<1> DEFINE T == {m \in Nat : n - m \in S}
<1>1. T \subseteq Nat /\ T # {}
  <2>1. PICK x \in S : TRUE
    OBVIOUS
  <2>2. n - x \in Nat /\ n - (n - x) = x
    BY <2>1
  <2> QED
    BY <2>1, <2>2
<1>2. PICK m \in T : \A k \in T : m <= k
  BY <1>1, LeastElement
<1>3. n - m \in S
  BY <1>2
<1>4. ASSUME NEW y \in S PROVE y <= n - m
  <2>1. n - y \in T
    <3>1. n - y \in Nat /\ n - (n - y) = y
      OBVIOUS
    <3> QED
      BY <3>1
  <2>2. m \in Nat /\ m <= n - y
    BY <1>2, <2>1
  <2> QED
    BY <2>2
<1> QED
  BY <1>3, <1>4

(***************************************************************************)
(* Above a natural c, a bounded set of naturals has an unbroken run c+1..e *)
(* that ends where e + 1 is missing.                                       *)
(***************************************************************************)
LEMMA FirstGap ==
  ASSUME NEW S, S \subseteq Nat, NEW c \in Nat,
         NEW n \in Nat, \A x \in S : x <= n
  PROVE  \E e \in {c} \cup S : /\ e >= c
                               /\ \A q \in c + 1 .. e : q \in S
                               /\ e + 1 \notin S
<1> DEFINE G == {g \in Nat : g >= c /\ g + 1 \notin S}
<1>1. G \subseteq Nat /\ G # {}
  <2>1. c + n \in G
    <3>1. c + n + 1 \notin S
      BY c + n + 1 > n
    <3> QED
      BY <3>1
  <2> QED
    BY <2>1
<1>2. PICK e \in G : \A g \in G : e <= g
  BY <1>1, LeastElement
<1>3. ASSUME NEW q \in c + 1 .. e PROVE q \in S
  <2>1. q - 1 \in Nat /\ q - 1 >= c /\ q - 1 < e /\ (q - 1) + 1 = q
    BY <1>2
  <2> QED
    BY <1>2, <2>1
<1>4. e \in {c} \cup S
  <2>1. CASE e = c
    BY <2>1
  <2>2. CASE e # c
    BY <1>2, <1>3, <2>2
  <2> QED
    BY <2>1, <2>2
<1> QED
  BY <1>2, <1>3, <1>4

(***************************************************************************)
(* A function on 1..n is a sequence of length n.                           *)
(***************************************************************************)
LEMMA FunctionIsSeq ==
  ASSUME NEW S, NEW n \in Nat, NEW f, f \in [1 .. n -> S]
  PROVE  f \in Seq(S) /\ Len(f) = n
<1>1. f \in Seq(S)
  BY SeqDef
<1>2. 1 .. Len(f) = 1 .. n /\ Len(f) \in Nat
  BY <1>1, LenProperties
<1> QED
  BY <1>1, <1>2

(***************************************************************************)
(* A multiple of n that is at least two steps away from zero is at least   *)
(* 2n away from it.                                                        *)
(***************************************************************************)
LEMMA MultipleBound ==
  ASSUME NEW n \in Nat, n > 0, NEW k \in Int
  PROVE  /\ k >= 1 => n * k >= n
         /\ k <= -1 => n * k <= -n
<1>1. CASE k >= 1
  <2>1. k - 1 \in Nat
    BY <1>1
  <2>2. n * (k - 1) >= 0
    BY <2>1
  <2>3. n * k = n * (k - 1) + n
    OBVIOUS
  <2> QED
    BY <1>1, <2>2, <2>3
<1>2. CASE k <= -1
  <2>1. -1 - k \in Nat
    BY <1>2
  <2>2. n * (-1 - k) >= 0
    BY <2>1
  <2>3. n * k = -n - n * (-1 - k)
    OBVIOUS
  <2> QED
    BY <1>2, <2>2, <2>3
<1>3. CASE k = 0
  BY <1>3
<1> QED
  BY <1>1, <1>2, <1>3

(***************************************************************************)
(* Two integers less than n apart with a multiple of n between them are    *)
(* equal to within that multiple: the remainder is determined by the       *)
(* range it falls in.                                                      *)
(***************************************************************************)
LEMMA RemainderUnique ==
  ASSUME NEW n \in Nat, n > 0, NEW a \in Int, NEW k \in Int,
         NEW r \in Int, 0 <= r, r < n, a = n * k + r
  PROVE  a % n = r
<1>1. PICK q \in Int : a = n * q + (a % n)
  BY a = n * (a \div n) + (a % n), a \div n \in Int
<1>2. a % n \in 0 .. n - 1
  OBVIOUS
<1>3. n * (k - q) = (a % n) - r
  BY <1>1, <1>2
<1>4. k - q \in Int
  BY <1>1
<1>5. k - q = 0
  BY <1>2, <1>3, <1>4, MultipleBound
<1> QED
  BY <1>2, <1>3, <1>5

(***************************************************************************)
(* SerialDistance recovers the true distance of two positions from their   *)
(* low bits whenever the positions are less than half the space apart.     *)
(***************************************************************************)
LEMMA SerialDistanceExact ==
  ASSUME NEW n \in Nat, n > 0, NEW a \in Int, NEW b \in Int,
         2 * (b - a) < n, 2 * (a - b) < n
  PROVE  SerialDistance(n, a % n, b % n) = b - a
<1> DEFINE x == a % n
<1> DEFINE y == b % n
<1>1. PICK p \in Int : a = n * p + x
  BY a = n * (a \div n) + (a % n), a \div n \in Int
<1>2. PICK q \in Int : b = n * q + y
  BY b = n * (b \div n) + (b % n), b \div n \in Int
<1>3. x \in Int /\ y \in Int
  OBVIOUS
<1> HIDE DEF x, y
<1>4. y - x = n * (p - q) + (b - a)
  BY <1>1, <1>2, <1>3
<1>5. CASE b - a >= 0
  <2>1. (y - x) % n = b - a
    <3>1. y - x \in Int /\ p - q \in Int /\ b - a \in Int
      BY <1>3
    <3> QED
      BY <1>4, <1>5, <3>1, RemainderUnique
  <2>2. SerialDistance(n, x, y) = b - a
    <3> DEFINE d == (y - x) % n
    <3>1. d = b - a
      BY <2>1
    <3>2. SerialDistance(n, x, y) = IF 2 * d < n THEN d ELSE d - n
      BY DEF SerialDistance
    <3> HIDE DEF d
    <3> QED
      BY <1>5, <3>1, <3>2
  <2> QED
    BY <2>2 DEF x, y
<1>6. CASE b - a < 0
  <2>1. y - x = n * (p - q - 1) + (b - a + n)
    BY <1>1, <1>2, <1>3, <1>4
  <2>2. (y - x) % n = b - a + n
    <3> DEFINE k == p - q - 1
    <3> DEFINE r == b - a + n
    <3>1. y - x \in Int /\ k \in Int /\ r \in Int /\ 0 <= r /\ r < n
      BY <1>3, <1>6
    <3>2. y - x = n * k + r
      BY <2>1
    <3> HIDE DEF k, r
    <3>3. (y - x) % n = r
      BY <3>1, <3>2, RemainderUnique
    <3> QED
      BY <3>3 DEF r
  <2>3. SerialDistance(n, x, y) = b - a
    <3> DEFINE d == (y - x) % n
    <3>1. d = b - a + n
      BY <2>2
    <3>2. SerialDistance(n, x, y) = IF 2 * d < n THEN d ELSE d - n
      BY DEF SerialDistance
    <3> HIDE DEF d
    <3> QED
      BY <1>6, <3>1, <3>2
  <2> QED
    BY <2>3 DEF x, y
<1> QED
  BY <1>5, <1>6
=============================================================================
